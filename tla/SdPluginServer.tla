---------------------------- MODULE SdPluginServer ----------------------------
(***************************************************************************)
(* The WebSocket server plugins and Property Inspectors connect to         *)
(* (src/src/app/src/sd_plugin_server.cpp) and the gate Application puts    *)
(* behind its inspector signals (pi_appear_gate.hpp).  One action is one   *)
(* handler on the GUI thread.  The network is external: a socket drops at  *)
(* any time, and a close() takes effect now or later.                      *)
(*                                                                         *)
(* A definition placed right before another one with the same parameters   *)
(* and a longer name is that definition with a slip in it.                 *)
(***************************************************************************)
EXTENDS Naturals, FiniteSets

CONSTANTS
  Sockets,      (* identities of QWebSocket objects, reused once deleted    *)
  PluginUuids,  (* the uuids plugins register under                         *)
  Contexts,     (* spellings of action-instance contexts                    *)
  Canon,        (* canonicalContextId: the wire spelling of a context       *)
  None,         (* the empty string                                         *)
  Pending,      (* any "__pending__" sentinel uuid                          *)
  MaxAttempts,  (* kMaxAuthAttempts                                         *)
  Orderly,      (* TRUE: a client registers in one role, for one inspector, *)
                (* and answers only challenges the server sent it           *)
  MaxSalt       (* bound: registrations of one connection                   *)

Instances == {Canon[c] : c \in Contexts}

ASSUME NamesAssumption ==
  /\ PluginUuids \cap Contexts = {}
  /\ {None, Pending} \cap (PluginUuids \cup Contexts) = {}
  /\ None # Pending
ASSUME CanonAssumption ==      (* lookupContext finds a wire spelling as it is *)
  Canon \in [Contexts -> Contexts] /\ \A c \in Contexts : Canon[Canon[c]] = Canon[c]
ASSUME BoundAssumption == MaxAttempts \in Nat \ {0} /\ MaxSalt \in Nat
ASSUME OrderlyAssumption == Orderly \in BOOLEAN

VARIABLES
  phase,        (* "idle", "listening" or "stopped"                         *)
  hasPassword,  (* m_password is set                                        *)
  conn,         (* a socket's state: "none", "open", "closing"              *)
  slot,         (* m_connections: the slot of a socket                      *)
  instanceOwner,(* the context registry behind m_contextOwnerResolver       *)
  appeared,     (* PiAppearGate::m_appeared                                 *)
  signals,      (* what the last handler emitted                            *)
  relayed,      (* the frame the last handler relayed, or None              *)
  known,        (* history: plugins the last signals left registered        *)
  failures,     (* history: wrong answers on a connection                   *)
  answered      (* history: the salt a connection last answered correctly   *)

vars == <<phase, hasPassword, conn, slot, instanceOwner, appeared, signals,
          relayed, known, failures, answered>>

Uuids == PluginUuids \cup Contexts \cup {Pending}

(* The slot onNewConnection pushes.                                        *)
Blank == [uuid |-> Pending, salt |-> 0, authAttempts |-> 0,
          authenticated |-> FALSE, isPropertyInspector |-> FALSE, owner |-> None]

Tracked == {s \in Sockets : conn[s] # "none"}

(* connectedPluginCount                                                    *)
Connected == {s \in Tracked : slot[s].uuid # Pending /\ ~slot[s].isPropertyInspector}

(* The collision guard keeps uuids distinct, so the first match of         *)
(* socketForUuid is the only one.                                          *)
SocketsFor(u) == {s \in Tracked : slot[s].uuid = u}

Inspectors == {s \in Tracked : slot[s].isPropertyInspector}

(* Ids that are no contexts are their own canonical form and nobody's.     *)
CanonOf(u) == IF u \in Contexts THEN Canon[u] ELSE u

(* m_contextOwnerResolver looks a context up in either spelling.           *)
OwnerOf(u) == IF u \in Contexts THEN instanceOwner[Canon[u]] ELSE None

(***************************************************************************)
(* Signals.  pluginDisconnected precedes pluginRegistered when a handler   *)
(* emits both.                                                             *)
(***************************************************************************)
Quiet == [registered |-> {}, disconnected |-> {}, acted |-> {}]

Emit(gone, came) ==
  /\ signals' = [Quiet EXCEPT !.registered = came, !.disconnected = gone]
  /\ known' = (known \ gone) \cup came

NoSignal == Emit({}, {})

NoRelay == relayed' = None

(* sendPiLifecycle for didAppear of the inspector on socket s: the gate,   *)
(* the registry and the plugin's socket must each let it through.          *)
Appear(s, c, owner) ==
  /\ appeared' = IF owner # None THEN appeared \cup {c} ELSE appeared

(* sendPiLifecycle for didDisappear, with the owner the slot captured.     *)
Disappear(s) ==
  IF slot[s].owner # None THEN appeared \ {slot[s].uuid} ELSE appeared

-----------------------------------------------------------------------------
Init ==
  /\ phase = "idle"
  /\ hasPassword \in BOOLEAN
  /\ conn = [s \in Sockets |-> "none"]
  /\ slot = [s \in Sockets |-> Blank]
  /\ instanceOwner \in [Instances -> PluginUuids \cup {None}]
  /\ appeared = {} /\ known = {}
  /\ signals = Quiet /\ relayed = None
  /\ failures = [s \in Sockets |-> 0]
  /\ answered = [s \in Sockets |-> 0]

Start ==
  /\ phase = "idle"
  /\ phase' = "listening"
  /\ NoSignal
  /\ NoRelay
  /\ UNCHANGED <<hasPassword, conn, slot, instanceOwner, appeared, failures,
                 answered>>

(* Stopping cuts every socket loose before closing it, so nobody hears of  *)
(* a disconnection.  Only the destructor stops the server.                 *)
Stop ==
  /\ phase = "listening"
  /\ phase' = "stopped"
  /\ conn' = [s \in Sockets |-> "none"]
  /\ slot' = [s \in Sockets |-> Blank]
  /\ NoSignal
  /\ NoRelay
  /\ UNCHANGED <<hasPassword, instanceOwner, appeared, failures, answered>>

(* All pending connections are taken in one go.                            *)
OnNewConnection(new) ==
  /\ phase = "listening"
  /\ new # {} /\ new \cap Tracked = {}
  /\ conn' = [s \in Sockets |-> IF s \in new THEN "open" ELSE conn[s]]
  /\ failures' = [s \in Sockets |-> IF s \in new THEN 0 ELSE failures[s]]
  /\ answered' = [s \in Sockets |-> IF s \in new THEN 0 ELSE answered[s]]
  /\ NoSignal
  /\ NoRelay
  /\ UNCHANGED <<phase, hasPassword, slot, instanceOwner, appeared>>

(* The slot goes away; who hears of it depends on what the slot held.      *)
DropsInspector(s) == slot[s].isPropertyInspector
DropsPlugin(s) == ~slot[s].isPropertyInspector /\ slot[s].uuid # Pending

NulledOut(s) == [slot EXCEPT ![s].authenticated = FALSE]
Erased(s) == [slot EXCEPT ![s] = Blank]

OnClientDisconnected(s) ==
  /\ s \in Tracked
  /\ conn' = [conn EXCEPT ![s] = "none"]
  /\ slot' = Erased(s)
  /\ appeared' = IF DropsInspector(s) THEN Disappear(s) ELSE appeared
  /\ Emit(IF DropsPlugin(s) THEN {slot[s].uuid} ELSE {}, {})
  /\ NoRelay
  /\ UNCHANGED <<phase, hasPassword, instanceOwner, failures, answered>>

(* close() answers a client that must go; disconnected follows.            *)
Close(s) == conn' = [conn EXCEPT ![s] = "closing"]

(***************************************************************************)
(* dispatchClientMessage: registrations.                                   *)
(***************************************************************************)
TakenNever(s, u) == FALSE
Taken(s, u) == \E t \in Tracked \ {s} : slot[t].uuid = u

CloseImpostor(s) ==
  /\ Close(s)
  /\ NoSignal
  /\ UNCHANGED <<slot, appeared>>

(* The old uuid of a socket that registers again is given up.              *)
GivenUp(s, u) == IF slot[s].uuid \in {Pending, u} THEN {} ELSE {slot[s].uuid}

(* The slot registerPlugin leaves: the wrong-answer count, and whether the *)
(* socket once was an inspector's, survive.                                *)
RekeyedAfresh(s, u) ==
  [Blank EXCEPT !.uuid = u, !.salt = slot[s].salt + 1, !.authenticated = ~hasPassword]
Rekeyed(s, u) ==
  [slot[s] EXCEPT !.uuid = u, !.salt = @ + 1, !.authenticated = ~hasPassword]

RegisterPlugin(s, u) ==
  /\ conn[s] = "open" /\ slot[s].salt < MaxSalt
  /\ Orderly => ~slot[s].isPropertyInspector
  /\ \/ Taken(s, u) /\ CloseImpostor(s)
     \/ /\ ~Taken(s, u)
        /\ Emit(GivenUp(s, u), IF hasPassword THEN {} ELSE {u})
        /\ slot' = [slot EXCEPT ![s] = Rekeyed(s, u)]
        /\ UNCHANGED <<conn, appeared>>
  /\ NoRelay
  /\ UNCHANGED <<phase, hasPassword, instanceOwner, failures, answered>>

RegisterPropertyInspector(s, c) ==
  /\ conn[s] = "open"
  /\ Orderly => slot[s].uuid = Pending
  /\ \/ Taken(s, c) /\ CloseImpostor(s)
     \/ /\ ~Taken(s, c)
        /\ slot' = [slot EXCEPT ![s].uuid = c,
                                ![s].isPropertyInspector = TRUE,
                                ![s].owner = OwnerOf(c),
                                ![s].authenticated = TRUE]
        /\ Appear(s, c, OwnerOf(c))
        /\ NoSignal
        /\ UNCHANGED conn
  /\ NoRelay
  /\ UNCHANGED <<phase, hasPassword, instanceOwner, failures, answered>>

(***************************************************************************)
(* The answer to a challenge names the salt it was computed from, or no    *)
(* salt at all (a wrong password): an answer to an earlier passHello may   *)
(* arrive after a second registration has drawn a new salt.                *)
(***************************************************************************)
Wrong == MaxSalt + 1
Answers(s) == IF Orderly THEN (1 .. slot[s].salt) \cup {Wrong}
                         ELSE (0 .. slot[s].salt) \cup {Wrong}

Accepts(s, answer) == answer = slot[s].salt

Accept(s) ==
  /\ slot' = [slot EXCEPT ![s].authenticated = TRUE]
  /\ answered' = [answered EXCEPT ![s] = slot[s].salt]
  /\ Emit({}, {slot[s].uuid})
  /\ UNCHANGED <<conn, failures>>

Reject(s) ==
  /\ slot' = [slot EXCEPT ![s].authAttempts = @ + 1]
  /\ failures' = [failures EXCEPT ![s] = @ + 1]
  /\ IF slot[s].authAttempts + 1 >= MaxAttempts THEN Close(s) ELSE UNCHANGED conn
  /\ NoSignal
  /\ UNCHANGED answered

Authentication(s, answer) ==
  /\ conn[s] = "open"
  /\ Orderly => slot[s].uuid # Pending /\ ~slot[s].isPropertyInspector
  /\ \/ /\ ~hasPassword
        /\ slot' = [slot EXCEPT ![s].authenticated = TRUE]
        /\ NoSignal
        /\ UNCHANGED <<conn, failures, answered>>
     \/ hasPassword /\ Accepts(s, answer) /\ Accept(s)
     \/ hasPassword /\ ~Accepts(s, answer) /\ Reject(s)
  /\ NoRelay
  /\ UNCHANGED <<phase, hasPassword, instanceOwner, appeared>>

(***************************************************************************)
(* dispatchClientMessage: everything else, for authenticated clients.      *)
(***************************************************************************)
MaySpeak(s) == slot[s].authenticated

Acts(s) == signals' = [Quiet EXCEPT !.acted = {slot[s].uuid}] /\ known' = known

RoutedAction(s) ==
  /\ conn[s] = "open"
  /\ IF MaySpeak(s) THEN Acts(s) ELSE NoSignal
  /\ NoRelay
  /\ UNCHANGED <<phase, hasPassword, conn, slot, instanceOwner, appeared,
                 failures, answered>>

(* The owner bound at registration, or the one the registry knows by now.  *)
RelayOwner(s) == IF slot[s].owner # None THEN slot[s].owner ELSE OwnerOf(slot[s].uuid)

(* An inspector that names a context names its own.                        *)
Mismatched(s, claimed) == claimed # None /\ claimed # slot[s].uuid

(* The context a plugin can match against its willAppear ids.              *)
ForwardedVerbatim(s, claimed) == IF claimed = None THEN slot[s].uuid ELSE claimed
Forwarded(s, claimed) == CanonOf(slot[s].uuid)

Frames(from, to, context) == [from : {from}, to : to, context : {context}]

SendToPlugin(s, claimed) ==
  /\ conn[s] = "open" /\ s \in Inspectors /\ MaySpeak(s)
  /\ \/ /\ ~Mismatched(s, claimed)
        /\ relayed' \in Frames(s, SocketsFor(RelayOwner(s)), Forwarded(s, claimed))
     \/ /\ Mismatched(s, claimed) \/ SocketsFor(RelayOwner(s)) = {}
        /\ NoRelay
  /\ NoSignal
  /\ UNCHANGED <<phase, hasPassword, conn, slot, instanceOwner, appeared,
                 failures, answered>>

(* propertyInspectorSocketForContext: the exact spelling wins.             *)
InspectorsFor(c) ==
  LET exact == {s \in Inspectors : slot[s].uuid = c}
  IN IF exact # {} THEN exact
     ELSE {s \in Inspectors : CanonOf(slot[s].uuid) = Canon[c]}

Owns(s, c) == OwnerOf(c) # None /\ OwnerOf(c) = slot[s].uuid

(* sendToPropertyInspector is relayed for the owner, and raised as a       *)
(* routed action in any case.                                              *)
Reached(s, c) == IF MaySpeak(s) /\ Owns(s, c) THEN InspectorsFor(c) ELSE {}

SendToPropertyInspector(s, c) ==
  /\ conn[s] = "open"
  /\ IF MaySpeak(s) THEN Acts(s) ELSE NoSignal
  /\ \/ relayed' \in Frames(s, Reached(s, c), c)
     \/ Reached(s, c) = {} /\ NoRelay
  /\ UNCHANGED <<phase, hasPassword, conn, slot, instanceOwner, appeared,
                 failures, answered>>

-----------------------------------------------------------------------------
(* The device bridge binds, rebinds and retires action instances.          *)
Rebind(i, u) ==
  /\ instanceOwner' = [instanceOwner EXCEPT ![i] = u]
  /\ NoSignal
  /\ NoRelay
  /\ UNCHANGED <<phase, hasPassword, conn, slot, appeared, failures, answered>>

ClientMessage(s) ==
  \/ \E u \in PluginUuids : RegisterPlugin(s, u)
  \/ \E c \in Contexts : RegisterPropertyInspector(s, c)
  \/ \E answer \in Answers(s) : Authentication(s, answer)
  \/ RoutedAction(s)
  \/ \E c \in Contexts \cup {None} : SendToPlugin(s, c)
  \/ \E c \in Contexts : SendToPropertyInspector(s, c)

Network ==
  \/ \E new \in SUBSET Sockets : OnNewConnection(new)
  \/ \E s \in Sockets : OnClientDisconnected(s)

Next ==
  \/ Start \/ Stop
  \/ Network
  \/ \E s \in Sockets : ClientMessage(s)
  \/ \E i \in Instances, u \in PluginUuids \cup {None} : Rebind(i, u)

Spec == Init /\ [][Next]_vars

-----------------------------------------------------------------------------
(***************************************************************************)
(* Properties.                                                             *)
(***************************************************************************)
Slots == [uuid : Uuids, salt : 0 .. MaxSalt, authAttempts : Nat,
          authenticated : BOOLEAN, isPropertyInspector : BOOLEAN,
          owner : PluginUuids \cup {None}]

(* Every variable has its type; an untracked socket has no slot state.     *)
TypeOK ==
  /\ phase \in {"idle", "listening", "stopped"}
  /\ hasPassword \in BOOLEAN
  /\ conn \in [Sockets -> {"none", "open", "closing"}]
  /\ slot \in [Sockets -> Slots]
  /\ \A s \in Sockets \ Tracked : slot[s] = Blank
  /\ instanceOwner \in [Instances -> PluginUuids \cup {None}]
  /\ appeared \subseteq Contexts
  /\ signals \in [registered : SUBSET Uuids, disconnected : SUBSET Uuids,
                  acted : SUBSET Uuids]
  /\ relayed \in [from : Sockets, to : Sockets, context : Uuids] \cup {None}
  /\ known \subseteq Uuids
  /\ failures \in [Sockets -> Nat]
  /\ answered \in [Sockets -> 0 .. MaxSalt]

(* No uuid is held by two connections, whatever order they come, register  *)
(* again and drop in (the collision guard, l. 301): events for a plugin or *)
(* an inspector have one place to go.                                      *)
UuidHeldOnce ==
  \A s, t \in Tracked :
    slot[s].uuid = slot[t].uuid => s = t \/ slot[s].uuid = Pending

(* What the signals told the app agrees with the table: a plugin the app   *)
(* believes connected has a live connection, and without a password the    *)
(* two are the same (l. 213, 347, 397, connectedPluginCount).              *)
AppKnowsTheConnected ==
  phase = "listening" =>
    LET connected == {slot[s].uuid : s \in Connected}
    IN known \subseteq connected /\ (~hasPassword => known = connected)

(* Registering again buys no more guesses: a connection that has given     *)
(* MaxAttempts wrong answers in all is no longer served (l. 466).          *)
GuessesAreLimited ==
  \A s \in Tracked : failures[s] >= MaxAttempts => conn[s] = "closing"

(* With a password, an authenticated plugin connection answered the        *)
(* challenge of its latest registration: neither an earlier success nor an *)
(* answer to an earlier passHello counts for the new uuid (l. 356-360).    *)
AuthenticatedBySalt ==
  \A s \in Connected :
    hasPassword /\ slot[s].authenticated => answered[s] = slot[s].salt

(* The password challenge holds: guesses stay limited over registrations,  *)
(* and no answer outlives the challenge it was given to.                   *)
ChallengesHold == GuessesAreLimited /\ AuthenticatedBySalt

(* The plugin was told an inspector is visible only while one is: the gate *)
(* holds a context exactly as long as an inspector registered for it, with *)
(* an owner, stays connected, although owners change meanwhile.            *)
GateMatchesInspectors ==
  phase = "listening" =>
    appeared = {slot[s].uuid : s \in {t \in Inspectors : slot[t].owner # None}}

(* The table of connections, what the app was told and the inspector gate  *)
(* agree, whatever order connections register, re-register and drop in.    *)
ConnectionsAgree == UuidHeldOnce /\ AppKnowsTheConnected /\ GateMatchesInspectors

(* A relayed frame links an inspector and a plugin, names the instance the *)
(* inspector is for, and a plugin receives it in the wire spelling.        *)
RelayStaysInInstance ==
  relayed # None =>
    LET pi == IF relayed.from \in Inspectors THEN relayed.from ELSE relayed.to
        plugin == IF pi = relayed.from THEN relayed.to ELSE relayed.from
    IN /\ pi \in Inspectors /\ plugin \in Connected
       /\ CanonOf(relayed.context) = CanonOf(slot[pi].uuid)
       /\ relayed.to = plugin => relayed.context \in Instances

(* An action is raised in the name of a plugin the app was told of, or of  *)
(* an inspector.                                                           *)
ActionsAreAttributed ==
  signals.acted \subseteq known \cup {slot[s].uuid : s \in Inspectors}

(* Every frame that is relayed or acted on belongs to the party and the    *)
(* instance it claims.                                                     *)
FramesAreAttributed == RelayStaysInInstance /\ ActionsAreAttributed
=============================================================================
