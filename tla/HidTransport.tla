---------------------------- MODULE HidTransport ----------------------------
(* The channels to the devices: each is made for a model, keeps the library   *)
(* alive while it exists, looks for the interface its descriptor asks for and *)
(* falls back on a less exact one, and throws what the library refuses.       *)
(* src/core/src/hid_transport.cpp                                             *)
EXTENDS Naturals, FiniteSets, Sequences

CONSTANTS Transports,
          Wanted,       \* transport -> [page, usage]: 0 when it does not matter
          Interfaces,   \* the sequence of interfaces, as enumerated: [page, usage]
          Prefixed,     \* transports whose packets lack a report id
          MaxCalls

VARIABLES made,     \* transports that exist
          library,  \* HidLibraryGuard::m_count
          ready,    \* hid_init was called, hid_exit was not
          handle,   \* transport -> the interface it has open, or 0
          stats,    \* transport -> [sent, received, errors]
          wire,     \* transport -> the packets the device has got
          thrown,   \* the last call threw
          calls

vars == <<made, library, ready, handle, stats, wire, thrown, calls>>

Posix == TRUE
Init == /\ made = {} /\ library = 0 /\ ready = FALSE /\ handle = [t \in Transports |-> 0]
        /\ stats = [t \in Transports |-> [sent |-> 0, received |-> 0, errors |-> 0]]
        /\ wire = [t \in Transports |-> <<>>] /\ thrown = FALSE /\ calls = 0

Call == calls < MaxCalls /\ calls' = calls + 1
-----------------------------------------------------------------------------
Acquire(ok) ==
  IF library = 0 THEN library' = (IF ok THEN 1 ELSE 0) /\ ready' = ok
  ELSE library' = library + 1 /\ UNCHANGED ready
MakeHidTransport(t) ==
  /\ t \notin made /\ Call
  /\ \E ok \in BOOLEAN :
       /\ library > 0 => ok
       /\ Acquire(ok) /\ made' = (IF ok THEN made \cup {t} ELSE made) /\ thrown' = ~ ok
  /\ stats' = [stats EXCEPT ![t] = [sent |-> 0, received |-> 0, errors |-> 0]]
  /\ UNCHANGED <<handle, wire>>
(* The guard lets the library go before the handle is closed.                 *)
Destroyed(t) ==
  /\ t \in made /\ made' = made \ {t} /\ library' = library - 1 /\ ready' = (library > 1)
  /\ handle' = [handle EXCEPT ![t] = 0] /\ UNCHANGED <<stats, wire, thrown, calls>>

(* The first interface that fits: page and usage, the page, any.              *)
Fits(t) == LET w == Wanted[t]
               strict == {i \in DOMAIN Interfaces : w.usage # 0 /\ Interfaces[i] = w}
               paged == {i \in DOMAIN Interfaces : Interfaces[i].page = w.page}
               first(S) == CHOOSE i \in S : \A j \in S : i <= j
           IN  IF w.page = 0 THEN 0
               ELSE IF strict # {} THEN first(strict) ELSE IF paged # {} THEN first(paged) ELSE 0
Open(t) ==
  /\ t \in made /\ handle[t] = 0 /\ Call
  /\ \E h \in {Fits(t), 1} \cup {0} :
       /\ handle' = [handle EXCEPT ![t] = h] /\ thrown' = (h = 0)
  /\ UNCHANGED <<made, library, ready, stats, wire>>
Close(t) == /\ t \in made /\ handle[t] # 0 /\ Call
            /\ handle' = [handle EXCEPT ![t] = 0] /\ UNCHANGED <<made, library, ready, stats, wire, thrown>>

(* A packet without a report id gets one where the system would take its      *)
(* first byte for it.                                                         *)
OnWire(t, packet) == IF Posix /\ t \in Prefixed THEN <<0>> \o packet ELSE packet
(* The system takes the first byte for the report's id, and an id of zero is  *)
(* not sent.                                                                  *)
AtDevice(bytes) == IF bytes # <<>> /\ Head(bytes) = 0 THEN Tail(bytes) ELSE bytes
Write(t, packet) ==
  /\ t \in made /\ Call
  /\ \/ /\ handle[t] # 0 /\ thrown' = FALSE
        /\ wire' = [wire EXCEPT ![t] = Append(@, AtDevice(OnWire(t, packet)))]
        /\ stats' = [stats EXCEPT ![t].sent = @ + Len(packet)]
     \/ /\ thrown' = TRUE /\ UNCHANGED wire
        /\ stats' = IF handle[t] # 0 THEN [stats EXCEPT ![t].errors = @ + 1] ELSE stats
  /\ UNCHANGED <<made, library, ready, handle>>
WriteFeature(t, packet) ==
  /\ t \in made /\ Call
  /\ \/ /\ handle[t] # 0 /\ thrown' = FALSE /\ stats' = [stats EXCEPT ![t].sent = @ + Len(packet)]
     \/ /\ thrown' = TRUE
        /\ stats' = IF handle[t] # 0 THEN [stats EXCEPT ![t].errors = @ + 1] ELSE stats
  /\ UNCHANGED <<made, library, ready, handle, wire>>
Read(t, n) ==
  /\ t \in made /\ Call
  /\ \/ /\ handle[t] # 0 /\ thrown' = FALSE /\ stats' = [stats EXCEPT ![t].received = @ + n]
     \/ /\ thrown' = TRUE
        /\ stats' = IF handle[t] # 0 THEN [stats EXCEPT ![t].errors = @ + 1] ELSE stats
  /\ UNCHANGED <<made, library, ready, handle, wire>>

Next == \E t \in Transports :
  \/ MakeHidTransport(t) \/ Destroyed(t) \/ Open(t) \/ Close(t)
  \/ \E packet \in {<<67, 1>>, <<0, 5>>} : Write(t, packet) \/ WriteFeature(t, packet)
  \/ \E n \in {0, 2} : Read(t, n)
Spec == Init /\ [][Next]_vars

-----------------------------------------------------------------------------
TypeOK == made \subseteq Transports /\ library \in Nat /\ handle \in [Transports -> 0..Len(Interfaces)]

(* The library is ready while a channel exists, a channel that is open had    *)
(* the interface asked for or the first one, and a packet without a report id *)
(* arrives unshifted.                                                         *)
ChannelsAreTrue ==
  /\ library = Cardinality(made) /\ ready = (made # {})
  /\ \A t \in Transports : handle[t] # 0 => t \in made /\ handle[t] \in {1, Fits(t)}
  /\ \A t \in Prefixed : \A i \in DOMAIN wire[t] : wire[t][i] \in {<<67, 1>>, <<0, 5>>}
=============================================================================
