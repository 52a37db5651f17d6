------------------------- MODULE PluginHostsProofs -------------------------
(***************************************************************************)
(* Proofs about the two hosts of plugins: the socket server, for any       *)
(* sockets, uuids, contexts and bounds, and the Python host, for any       *)
(* plugins and any number of calls.                                        *)
(***************************************************************************)
EXTENDS PluginHosts, SequenceTheorems, FiniteSetTheorems, TLAPS

USE NamesAssumption, CanonAssumption, BoundAssumption, OrderlyAssumption

(* The table part of the type invariant, for the proofs below.             *)
TableOK ==
  /\ conn \in [Sockets -> {"none", "open", "closing"}]
  /\ slot \in [Sockets -> Slots]
  /\ \A s \in Sockets \ Tracked : slot[s] = Blank
  /\ instanceOwner \in [Instances -> PluginUuids \cup {None}]

LEMMA OwnerType ==
  ASSUME TableOK, NEW c
  PROVE  OwnerOf(c) \in PluginUuids \cup {None}
  BY DEF TableOK, OwnerOf, Instances

LEMMA BlankType == Blank \in Slots
  BY DEF Blank, Slots, Uuids

LEMMA SlotUpdate ==
  ASSUME NEW r \in Slots, NEW u \in Uuids, NEW n \in 0 .. MaxSalt, NEW b \in BOOLEAN
  PROVE  [r EXCEPT !.uuid = u, !.salt = n, !.authenticated = b] \in Slots
  BY DEF Slots

LEMMA SlotAuthenticated ==
  ASSUME NEW r \in Slots
  PROVE  [r EXCEPT !.authenticated = TRUE] \in Slots
  BY DEF Slots

LEMMA SlotRejected ==
  ASSUME NEW r \in Slots
  PROVE  [r EXCEPT !.authAttempts = @ + 1] \in Slots
  BY DEF Slots

LEMMA RekeyedType ==
  ASSUME TableOK, hasPassword \in BOOLEAN, NEW s \in Sockets, NEW u \in PluginUuids,
         slot[s].salt < MaxSalt
  PROVE  Rekeyed(s, u) \in Slots
<1>1. slot[s] \in Slots /\ u \in Uuids
  BY DEF TableOK, Uuids
<1>2. slot[s].salt + 1 \in 0 .. MaxSalt
  BY <1>1 DEF Slots
<1>3. (~hasPassword) \in BOOLEAN
  OBVIOUS
<1> QED
  BY <1>1, <1>2, <1>3, SlotUpdate DEF Rekeyed

(* Signals are about uuids, so the app's view is too.                      *)
SignalsOK ==
  /\ signals \in [registered : SUBSET Uuids, disconnected : SUBSET Uuids,
                  acted : SUBSET Uuids]
  /\ known \subseteq Uuids

LEMMA EmitType ==
  ASSUME SignalsOK, NEW gone \in SUBSET Uuids, NEW came \in SUBSET Uuids,
         Emit(gone, came)
  PROVE  SignalsOK'
  BY DEF SignalsOK, Emit, Quiet, Uuids

LEMMA QuietType == ASSUME SignalsOK, NoSignal PROVE SignalsOK'
  BY EmitType DEF NoSignal

LEMMA ActsType ==
  ASSUME SignalsOK, NEW s \in Sockets, slot[s].uuid \in Uuids, Acts(s)
  PROVE  SignalsOK'
  BY DEF SignalsOK, Acts, Quiet, Uuids

(* Each part of TypeOK that an action may disturb, one step per action.    *)
LEMMA TypeStep == TypeOK /\ [Next]_vars => TypeOK'
<1> SUFFICES ASSUME TypeOK, [Next]_vars PROVE TypeOK'
  OBVIOUS
<1> USE BlankType DEF TypeOK
<1>t. TableOK /\ SignalsOK
  BY DEF TableOK, SignalsOK
<1>q. ASSUME NoSignal PROVE SignalsOK'
  BY <1>t, <1>q, QuietType
<1>1. CASE Start
  BY <1>1, <1>q DEF Start, SignalsOK, NoRelay, Tracked
<1>2. CASE Stop
  BY <1>2, <1>q DEF Stop, SignalsOK, NoRelay, Tracked
<1>3. ASSUME NEW new \in SUBSET Sockets, OnNewConnection(new) PROVE TypeOK'
  BY <1>3, <1>q DEF OnNewConnection, SignalsOK, NoRelay, Tracked
<1>4. ASSUME NEW s \in Sockets, OnClientDisconnected(s) PROVE TypeOK'
  <2>1. SignalsOK'
    BY <1>4, <1>t, EmitType DEF OnClientDisconnected, Slots
  <2>2. appeared' \subseteq Contexts
    BY <1>4 DEF OnClientDisconnected, Disappear
  <2> QED
    BY <1>4, <2>1, <2>2 DEF OnClientDisconnected, Erased, SignalsOK, NoRelay, Tracked
<1>5. ASSUME NEW s \in Sockets, NEW u \in PluginUuids, RegisterPlugin(s, u)
      PROVE  TypeOK'
  <2>1. CASE CloseImpostor(s)
    BY <1>5, <1>q, <2>1
    DEF RegisterPlugin, CloseImpostor, Close, SignalsOK, NoRelay, Tracked
  <2>2. CASE /\ Emit(GivenUp(s, u), IF hasPassword THEN {} ELSE {u})
             /\ slot' = [slot EXCEPT ![s] = Rekeyed(s, u)]
             /\ UNCHANGED <<conn, appeared>>
    <3>1. Rekeyed(s, u) \in Slots /\ s \in Tracked
      BY <1>5, <1>t, RekeyedType DEF RegisterPlugin, Tracked
    <3>2. GivenUp(s, u) \subseteq Uuids /\ u \in Uuids
      BY DEF GivenUp, Slots, Uuids
    <3>3. SignalsOK'
      BY <1>t, <2>2, <3>2, EmitType
    <3> QED
      BY <1>5, <2>2, <3>1, <3>3 DEF RegisterPlugin, SignalsOK, NoRelay, Tracked
  <2> QED
    BY <1>5, <2>1, <2>2 DEF RegisterPlugin
<1>6. ASSUME NEW s \in Sockets, NEW c \in Contexts, RegisterPropertyInspector(s, c)
      PROVE  TypeOK'
  <2>1. CASE CloseImpostor(s)
    BY <1>6, <1>q, <2>1
    DEF RegisterPropertyInspector, CloseImpostor, Close, SignalsOK, NoRelay, Tracked
  <2>2. CASE ~Taken(s, c)
    <3>1. slot[s] \in Slots /\ OwnerOf(c) \in PluginUuids \cup {None} /\ s \in Tracked
      BY <1>6, <1>t, OwnerType DEF RegisterPropertyInspector, Tracked
    <3>2. slot' \in [Sockets -> Slots]
      BY <1>6, <2>2, <3>1 DEF RegisterPropertyInspector, Slots, Uuids
    <3>3. appeared' \subseteq Contexts
      BY <1>6, <2>2 DEF RegisterPropertyInspector, Appear
    <3> QED
      BY <1>6, <1>q, <2>2, <3>1, <3>2, <3>3
      DEF RegisterPropertyInspector, SignalsOK, NoRelay, Tracked
  <2> QED
    BY <1>6, <2>1, <2>2 DEF RegisterPropertyInspector
<1>7. ASSUME NEW s \in Sockets, NEW answer \in Answers(s), Authentication(s, answer)
      PROVE  TypeOK'
  <2>1. slot[s] \in Slots /\ s \in Tracked
    BY <1>7 DEF Authentication, Tracked
  <2>2. CASE ~hasPassword
    <3>1. slot' \in [Sockets -> Slots]
      BY <1>7, <2>1, <2>2, SlotAuthenticated DEF Authentication
    <3> QED
      BY <1>7, <1>q, <2>1, <2>2, <3>1 DEF Authentication, SignalsOK, NoRelay, Tracked
  <2>3. CASE Accept(s)
    <3>1. slot' \in [Sockets -> Slots] /\ answered' \in [Sockets -> 0 .. MaxSalt]
      BY <2>1, <2>3, SlotAuthenticated DEF Accept, Slots
    <3>2. SignalsOK'
      BY <1>t, <2>1, <2>3, EmitType DEF Accept, Slots
    <3> QED
      BY <1>7, <2>1, <2>3, <3>1, <3>2
      DEF Authentication, Accept, SignalsOK, NoRelay, Tracked
  <2>4. CASE Reject(s)
    <3>1. slot' \in [Sockets -> Slots] /\ failures' \in [Sockets -> Nat]
      BY <2>1, <2>4, SlotRejected DEF Reject
    <3> QED
      BY <1>7, <1>q, <2>1, <2>4, <3>1
      DEF Authentication, Reject, Close, SignalsOK, NoRelay, Tracked
  <2> QED
    BY <1>7, <2>2, <2>3, <2>4 DEF Authentication
<1>8. ASSUME NEW s \in Sockets, RoutedAction(s) PROVE TypeOK'
  <2>1. SignalsOK'
    BY <1>8, <1>q, <1>t, ActsType DEF RoutedAction, Slots
  <2> QED
    BY <1>8, <2>1 DEF RoutedAction, SignalsOK, NoRelay, Tracked
<1>9. ASSUME NEW s \in Sockets, NEW c \in Contexts \cup {None}, SendToPlugin(s, c)
      PROVE  TypeOK'
  <2>1. relayed' \in [from : Sockets, to : Sockets, context : Uuids] \cup {None}
    <3>1. CASE NoRelay
      BY <3>1 DEF NoRelay
    <3>2. CASE relayed' \in Frames(s, SocketsFor(RelayOwner(s)), Forwarded(s, c))
      <4>1. Forwarded(s, c) \in Uuids
        BY DEF Forwarded, CanonOf, Slots, Uuids
      <4> QED
        BY <3>2, <4>1 DEF Frames, SocketsFor, Tracked
    <3> QED
      BY <1>9, <3>1, <3>2 DEF SendToPlugin
  <2> QED
    BY <1>9, <1>q, <2>1 DEF SendToPlugin, SignalsOK, Tracked
<1>10. ASSUME NEW s \in Sockets, NEW c \in Contexts, SendToPropertyInspector(s, c)
       PROVE  TypeOK'
  <2>1. relayed' \in [from : Sockets, to : Sockets, context : Uuids] \cup {None}
    BY <1>10 DEF SendToPropertyInspector, NoRelay, Frames, Reached, InspectorsFor,
                 Inspectors, Tracked, Uuids
  <2>2. SignalsOK'
    BY <1>10, <1>q, <1>t, ActsType DEF SendToPropertyInspector, Slots
  <2> QED
    BY <1>10, <2>1, <2>2 DEF SendToPropertyInspector, SignalsOK, Tracked
<1>11. ASSUME NEW i \in Instances, NEW u \in PluginUuids \cup {None}, Rebind(i, u)
       PROVE  TypeOK'
  BY <1>11, <1>q DEF Rebind, SignalsOK, NoRelay, Tracked
<1>12. CASE UNCHANGED vars
  BY <1>12 DEF vars, Tracked
<1> QED
  BY <1>1, <1>2, <1>3, <1>4, <1>5, <1>6, <1>7, <1>8, <1>9, <1>10, <1>11, <1>12
  DEF Next, Network, ClientMessage

(* TypeOK holds of every behaviour.                                        *)
THEOREM TypeCorrect == Spec => []TypeOK
<1>1. Init => TypeOK
  BY BlankType DEF Init, TypeOK, Tracked, Quiet, Uuids
<1> QED
  BY <1>1, TypeStep, PTL DEF Spec

(***************************************************************************)
(* No two connections hold a uuid.                                         *)
(***************************************************************************)
(* An action that leaves the tracked sockets and their uuids alone.        *)
SameUuids == Tracked' = Tracked /\ \A s \in Tracked : slot'[s].uuid = slot[s].uuid

LEMMA SameUuidsStep == UuidHeldOnce /\ SameUuids => UuidHeldOnce'
  BY DEF UuidHeldOnce, SameUuids

(* A re-registered slot has its new uuid, keeps its attempts and its kind,  *)
(* and is trusted only by a server without a password.                      *)
LEMMA RekeyedFields ==
  ASSUME NEW s \in Sockets, NEW u, slot \in [Sockets -> Slots], hasPassword \in BOOLEAN
  PROVE  /\ Rekeyed(s, u).uuid = u
         /\ Rekeyed(s, u).authAttempts = slot[s].authAttempts
         /\ Rekeyed(s, u).isPropertyInspector = slot[s].isPropertyInspector
         /\ hasPassword => ~Rekeyed(s, u).authenticated
<1> DEFINE r == slot[s]
           q == [r EXCEPT !.uuid = u, !.salt = @ + 1, !.authenticated = ~hasPassword]
<1>1. r \in Slots
  OBVIOUS
<1>2. Rekeyed(s, u) = q
  BY DEF Rekeyed
<1> HIDE DEF r
<1>3. /\ q.uuid = u /\ q.authAttempts = r.authAttempts
      /\ q.isPropertyInspector = r.isPropertyInspector
  BY <1>1 DEF Slots
<1>4. hasPassword => ~q.authenticated
  BY <1>1 DEF Slots
<1> QED
  BY <1>2, <1>3, <1>4 DEF r

(* One socket takes a uuid nobody else holds.                              *)
LEMMA TakesUuid ==
  ASSUME UuidHeldOnce, NEW s \in Tracked, NEW u, ~Taken(s, u), Tracked' = Tracked,
         slot'[s].uuid = u, \A t \in Tracked \ {s} : slot'[t] = slot[t]
  PROVE  UuidHeldOnce'
  BY DEF UuidHeldOnce, Taken

LEMMA UuidStep == TypeOK /\ UuidHeldOnce /\ [Next]_vars => UuidHeldOnce'
<1> SUFFICES ASSUME TypeOK, UuidHeldOnce, [Next]_vars PROVE UuidHeldOnce'
  OBVIOUS
<1>t. TableOK /\ slot \in [Sockets -> Slots] /\ hasPassword \in BOOLEAN
  BY DEF TypeOK, TableOK
<1>1. CASE Start
  BY <1>1, SameUuidsStep DEF Start, SameUuids, Tracked
<1>2. CASE Stop
  BY <1>2 DEF Stop, UuidHeldOnce, Tracked
<1>3. ASSUME NEW new \in SUBSET Sockets, OnNewConnection(new) PROVE UuidHeldOnce'
  <2>1. Tracked' = Tracked \cup new
    BY <1>3, <1>t DEF OnNewConnection, Tracked, TableOK
  <2>2. \A s \in new : slot[s].uuid = Pending
    BY <1>3, <1>t DEF OnNewConnection, TableOK, Blank
  <2> QED
    BY <1>3, <2>1, <2>2 DEF OnNewConnection, UuidHeldOnce
<1>4. ASSUME NEW s \in Sockets, OnClientDisconnected(s) PROVE UuidHeldOnce'
  <2>1. Tracked' = Tracked \ {s}
    BY <1>4, <1>t DEF OnClientDisconnected, Tracked, TableOK
  <2>2. \A t \in Tracked' : slot'[t] = slot[t]
    BY <1>4, <1>t, <2>1 DEF OnClientDisconnected, Erased, Tracked
  <2> QED
    BY <2>1, <2>2 DEF UuidHeldOnce
<1>5. ASSUME NEW s \in Sockets, CloseImpostor(s), conn[s] = "open" PROVE UuidHeldOnce'
  BY <1>5, <1>t, SameUuidsStep DEF CloseImpostor, Close, SameUuids, Tracked, TableOK
<1>6. ASSUME NEW s \in Sockets, NEW u \in PluginUuids, RegisterPlugin(s, u)
      PROVE  UuidHeldOnce'
  <2>1. CASE ~CloseImpostor(s)
    <3>1. /\ s \in Tracked /\ Tracked' = Tracked /\ ~Taken(s, u)
          /\ slot' = [slot EXCEPT ![s] = Rekeyed(s, u)]
      BY <1>6, <2>1 DEF RegisterPlugin, Tracked
    <3>2. Rekeyed(s, u).uuid = u
      BY <1>t, RekeyedFields
    <3>3. slot'[s].uuid = u /\ \A t \in Tracked \ {s} : slot'[t] = slot[t]
      BY <1>t, <3>1, <3>2 DEF Tracked
    <3> QED
      BY <3>1, <3>3, TakesUuid
  <2> QED
    BY <1>5, <1>6, <2>1 DEF RegisterPlugin
<1>7. ASSUME NEW s \in Sockets, NEW c \in Contexts, RegisterPropertyInspector(s, c)
      PROVE  UuidHeldOnce'
  <2>1. CASE ~CloseImpostor(s)
    <3>1. s \in Tracked /\ Tracked' = Tracked /\ ~Taken(s, c)
      BY <1>7, <2>1 DEF RegisterPropertyInspector, Tracked
    <3>2. slot'[s].uuid = c /\ \A t \in Tracked \ {s} : slot'[t] = slot[t]
      BY <1>t, <1>7, <2>1 DEF RegisterPropertyInspector, Tracked, Slots
    <3> QED
      BY <3>1, <3>2, TakesUuid
  <2> QED
    BY <1>5, <1>7, <2>1 DEF RegisterPropertyInspector
<1>8. ASSUME NEW s \in Sockets, NEW answer \in Answers(s), Authentication(s, answer)
      PROVE  UuidHeldOnce'
  <2>1. Tracked' = Tracked
    BY <1>8, <1>t DEF Authentication, Accept, Reject, Close, Tracked, TableOK
  <2>2. \A t \in Tracked : slot'[t].uuid = slot[t].uuid
    BY <1>8, <1>t DEF Authentication, Accept, Reject, Tracked, Slots
  <2> QED
    BY <2>1, <2>2, SameUuidsStep DEF SameUuids
<1>9. ASSUME NEW s \in Sockets,
             \/ RoutedAction(s)
             \/ \E c \in Contexts \cup {None} : SendToPlugin(s, c)
             \/ \E c \in Contexts : SendToPropertyInspector(s, c)
      PROVE  UuidHeldOnce'
  BY <1>9, SameUuidsStep
  DEF RoutedAction, SendToPlugin, SendToPropertyInspector, SameUuids, Tracked
<1>10. ASSUME NEW i \in Instances, NEW u \in PluginUuids \cup {None}, Rebind(i, u)
       PROVE  UuidHeldOnce'
  BY <1>10, SameUuidsStep DEF Rebind, SameUuids, Tracked
<1>11. CASE UNCHANGED vars
  BY <1>11, SameUuidsStep DEF vars, SameUuids, Tracked
<1> QED
  BY <1>1, <1>2, <1>3, <1>4, <1>6, <1>7, <1>8, <1>9, <1>10, <1>11
  DEF Next, Network, ClientMessage

(* Whatever clients do, a uuid has one connection at most.                 *)
THEOREM UuidsAreDistinct == Spec => []UuidHeldOnce
<1>1. Init => UuidHeldOnce
  BY DEF Init, UuidHeldOnce, Tracked
<1> QED
  BY <1>1, TypeCorrect, UuidStep, PTL DEF Spec

(***************************************************************************)
(* What the app heard agrees with the table, for orderly clients.          *)
(***************************************************************************)
(* An orderly client keeps its role, and the role shows in its uuid.       *)
RolesKept ==
  \A s \in Tracked :
    IF slot[s].isPropertyInspector THEN slot[s].uuid \in Contexts
                                   ELSE slot[s].uuid \in PluginUuids \cup {Pending}

ConnectedUuids == {slot[s].uuid : s \in Connected}

GatedUuids == {slot[s].uuid : s \in {t \in Inspectors : slot[t].owner # None}}

HeardInv ==
  /\ RolesKept
  /\ known \subseteq ConnectedUuids
  /\ ~hasPassword => known = ConnectedUuids
  /\ appeared = GatedUuids

(* The part of a slot HeardInv depends on.                                 *)
Face(s) == <<slot[s].uuid, slot[s].isPropertyInspector, slot[s].owner>>

SameFaces == Tracked' = Tracked /\ \A s \in Tracked : Face(s)' = Face(s)

LEMMA SameFacesSets ==
  ASSUME SameFaces
  PROVE  ConnectedUuids' = ConnectedUuids /\ GatedUuids' = GatedUuids /\ (RolesKept => RolesKept')
<1>1. \A s \in Tracked : /\ slot'[s].uuid = slot[s].uuid
                         /\ slot'[s].isPropertyInspector = slot[s].isPropertyInspector
                         /\ slot'[s].owner = slot[s].owner
  BY DEF SameFaces, Face
<1>2. Tracked' = Tracked
  BY DEF SameFaces
<1>3. Connected' = Connected /\ Inspectors' = Inspectors
  BY <1>1, <1>2 DEF Connected, Inspectors
<1>4. ConnectedUuids' = ConnectedUuids
  BY <1>1, <1>3 DEF ConnectedUuids, Connected
<1>5. GatedUuids' = GatedUuids
  BY <1>1, <1>3 DEF GatedUuids, Inspectors
<1> QED
  BY <1>1, <1>2, <1>4, <1>5 DEF RolesKept

LEMMA SameFacesStep ==
  ASSUME HeardInv, SameFaces, known' = known, appeared' = appeared,
         hasPassword' = hasPassword
  PROVE  HeardInv'
  BY SameFacesSets DEF HeardInv

LEMMA HeardStep ==
  ASSUME Orderly, TypeOK, UuidHeldOnce, phase # "stopped" => HeardInv, [Next]_vars,
         phase' # "stopped"
  PROVE  HeardInv'
<1>h. HeardInv
  BY DEF Next, Network, ClientMessage, Start, Stop, OnNewConnection,
         OnClientDisconnected, RegisterPlugin, RegisterPropertyInspector,
         Authentication, RoutedAction, SendToPlugin, SendToPropertyInspector,
         Rebind, vars
<1>t. /\ TableOK /\ slot \in [Sockets -> Slots] /\ hasPassword \in BOOLEAN
  BY DEF TypeOK, TableOK
<1>q. NoSignal => known' = known
  BY DEF NoSignal, Emit
<1>1. CASE Start
  BY <1>1, <1>h, <1>q, SameFacesStep DEF Start, SameFaces, Face, Tracked
<1>2. CASE Stop
  BY <1>2 DEF Stop
<1>3. ASSUME NEW new \in SUBSET Sockets, OnNewConnection(new) PROVE HeardInv'
  <2>1. Tracked' = Tracked \cup new /\ slot' = slot
    BY <1>3, <1>t DEF OnNewConnection, Tracked, TableOK
  <2>2. \A s \in new : slot[s] = Blank
    BY <1>3, <1>t DEF OnNewConnection, TableOK
  <2>3. \A s \in new : slot[s].uuid = Pending /\ ~slot[s].isPropertyInspector
    BY <2>2 DEF Blank
  <2>4. Connected' = Connected /\ Inspectors' = Inspectors
    BY <2>1, <2>3 DEF Connected, Inspectors
  <2>5. ConnectedUuids' = ConnectedUuids /\ GatedUuids' = GatedUuids
    BY <2>1, <2>4 DEF ConnectedUuids, GatedUuids
  <2>6. RolesKept'
    BY <1>h, <2>1, <2>3 DEF HeardInv, RolesKept
  <2> QED
    BY <1>3, <1>h, <1>q, <2>5, <2>6 DEF OnNewConnection, HeardInv
<1>4. ASSUME NEW s \in Sockets, OnClientDisconnected(s) PROVE HeardInv'
  <2>1. s \in Tracked /\ Tracked' = Tracked \ {s} /\ hasPassword' = hasPassword
    BY <1>4, <1>t DEF OnClientDisconnected, Tracked, TableOK
  <2>2. \A t \in Tracked' : slot'[t] = slot[t]
    BY <1>4, <1>t, <2>1 DEF OnClientDisconnected, Erased, Tracked
  <2>3. Connected' = Connected \ {s} /\ Inspectors' = Inspectors \ {s}
    BY <2>1, <2>2 DEF Connected, Inspectors
  <2>4. RolesKept'
    BY <1>h, <2>1, <2>2 DEF HeardInv, RolesKept
  <2>5. ConnectedUuids' = IF s \in Connected THEN ConnectedUuids \ {slot[s].uuid}
                                             ELSE ConnectedUuids
    BY <2>1, <2>2, <2>3 DEF ConnectedUuids, Connected, UuidHeldOnce
  <2>6. GatedUuids' = IF s \in Inspectors /\ slot[s].owner # None
                      THEN GatedUuids \ {slot[s].uuid} ELSE GatedUuids
    <3>1. \A t \in Inspectors : slot[t].uuid # Pending
      BY <1>h DEF HeardInv, RolesKept, Inspectors
    <3> QED
      BY <2>1, <2>2, <2>3, <3>1 DEF GatedUuids, Inspectors, UuidHeldOnce
  <2>7. known' = IF s \in Connected THEN known \ {slot[s].uuid} ELSE known
    BY <1>4, <2>1 DEF OnClientDisconnected, Emit, DropsPlugin, Connected
  <2>8. appeared' = IF s \in Inspectors /\ slot[s].owner # None
                    THEN appeared \ {slot[s].uuid} ELSE appeared
    BY <1>4, <2>1 DEF OnClientDisconnected, DropsInspector, Disappear, Inspectors
  <2> QED
    BY <1>h, <2>1, <2>4, <2>5, <2>6, <2>7, <2>8 DEF HeardInv
<1>5. ASSUME NEW s \in Sockets, CloseImpostor(s), conn[s] = "open",
             hasPassword' = hasPassword
      PROVE  HeardInv'
  BY <1>5, <1>h, <1>q, <1>t, SameFacesStep
  DEF CloseImpostor, Close, SameFaces, Face, Tracked, TableOK
<1>6. ASSUME NEW s \in Sockets, NEW u \in PluginUuids, RegisterPlugin(s, u)
      PROVE  HeardInv'
  <2>1. CASE ~CloseImpostor(s)
    <3>1. /\ s \in Tracked /\ Tracked' = Tracked /\ ~Taken(s, u)
          /\ slot' = [slot EXCEPT ![s] = Rekeyed(s, u)]
          /\ ~slot[s].isPropertyInspector /\ appeared' = appeared
          /\ hasPassword' = hasPassword
      BY <1>6, <2>1 DEF RegisterPlugin, Tracked
    <3>2. /\ Rekeyed(s, u).uuid = u
          /\ Rekeyed(s, u).isPropertyInspector = slot[s].isPropertyInspector
      BY <1>t, RekeyedFields
    <3>3. /\ slot'[s].uuid = u /\ ~slot'[s].isPropertyInspector
          /\ \A t \in Tracked \ {s} : slot'[t] = slot[t]
      BY <1>t, <3>1, <3>2 DEF Tracked
    <3>4. RolesKept'
      BY <1>h, <3>1, <3>3 DEF HeardInv, RolesKept
    <3>5. Connected' = Connected \cup {s} /\ Inspectors' = Inspectors
      BY <3>1, <3>3 DEF Connected, Inspectors
    <3>6. GatedUuids' = GatedUuids
      BY <3>1, <3>3, <3>5 DEF GatedUuids, Inspectors
    <3>7. ConnectedUuids' = (ConnectedUuids \ GivenUp(s, u)) \cup {u}
      BY <3>1, <3>3, <3>5 DEF ConnectedUuids, Connected, GivenUp, UuidHeldOnce
    <3>8. known' = (known \ GivenUp(s, u)) \cup (IF hasPassword THEN {} ELSE {u})
      BY <1>6, <2>1 DEF RegisterPlugin, Emit
    <3> QED
      BY <1>h, <3>1, <3>4, <3>6, <3>7, <3>8 DEF HeardInv
  <2> QED
    BY <1>5, <1>6, <2>1 DEF RegisterPlugin
<1>7. ASSUME NEW s \in Sockets, NEW c \in Contexts, RegisterPropertyInspector(s, c)
      PROVE  HeardInv'
  <2>1. CASE ~CloseImpostor(s)
    <3>1. /\ s \in Tracked /\ Tracked' = Tracked /\ ~Taken(s, c)
          /\ slot[s].uuid = Pending /\ NoSignal /\ Appear(s, c, OwnerOf(c))
          /\ hasPassword' = hasPassword
      BY <1>7, <2>1 DEF RegisterPropertyInspector, Tracked
    <3>2. /\ slot'[s].uuid = c /\ slot'[s].isPropertyInspector
          /\ slot'[s].owner = OwnerOf(c)
          /\ \A t \in Tracked \ {s} : slot'[t] = slot[t]
      BY <1>t, <1>7, <2>1 DEF RegisterPropertyInspector, Tracked, Slots
    <3>3. s \notin Connected /\ s \notin Inspectors
      BY <1>h, <3>1 DEF Connected, Inspectors, HeardInv, RolesKept
    <3>4. RolesKept'
      BY <1>h, <3>1, <3>2 DEF HeardInv, RolesKept
    <3>5. Connected' = Connected /\ Inspectors' = Inspectors \cup {s}
      BY <3>1, <3>2, <3>3 DEF Connected, Inspectors
    <3>6. ConnectedUuids' = ConnectedUuids
      BY <3>2, <3>3, <3>5 DEF ConnectedUuids, Connected
    <3>7. GatedUuids' = IF OwnerOf(c) # None THEN GatedUuids \cup {c} ELSE GatedUuids
      BY <3>2, <3>3, <3>5 DEF GatedUuids, Inspectors
    <3>8. appeared' = IF OwnerOf(c) # None THEN appeared \cup {c} ELSE appeared
      BY <3>1 DEF Appear
    <3> QED
      BY <1>h, <1>q, <3>1, <3>4, <3>6, <3>7, <3>8 DEF HeardInv
  <2> QED
    BY <1>5, <1>7, <2>1 DEF RegisterPropertyInspector
<1>8. ASSUME NEW s \in Sockets, NEW answer \in Answers(s), Authentication(s, answer)
      PROVE  HeardInv'
  <2>1. SameFaces /\ s \in Tracked
    <3>1. Tracked' = Tracked /\ s \in Tracked
      BY <1>8, <1>t DEF Authentication, Accept, Reject, Close, Tracked, TableOK
    <3>2. \A t \in Tracked : /\ slot'[t].uuid = slot[t].uuid
                             /\ slot'[t].isPropertyInspector = slot[t].isPropertyInspector
                             /\ slot'[t].owner = slot[t].owner
      BY <1>8, <1>t DEF Authentication, Accept, Reject, Tracked, Slots
    <3> QED
      BY <3>1, <3>2 DEF SameFaces, Face
  <2>2. slot[s].uuid \in ConnectedUuids
    BY <1>8, <2>1 DEF Authentication, ConnectedUuids, Connected
  <2>3. CASE Accept(s) /\ hasPassword
    <3>1. known' = known \cup {slot[s].uuid}
      BY <2>3 DEF Accept, Emit
    <3> QED
      BY <1>8, <1>h, <2>1, <2>2, <2>3, <3>1, SameFacesSets DEF Authentication, HeardInv
  <2> QED
    BY <1>8, <1>h, <1>q, <2>1, <2>3, SameFacesStep DEF Authentication, Reject
<1>9. ASSUME NEW s \in Sockets,
             \/ RoutedAction(s)
             \/ \E c \in Contexts \cup {None} : SendToPlugin(s, c)
             \/ \E c \in Contexts : SendToPropertyInspector(s, c)
      PROVE  HeardInv'
  BY <1>9, <1>h, <1>q, SameFacesStep
  DEF RoutedAction, SendToPlugin, SendToPropertyInspector, Acts, SameFaces, Face, Tracked
<1>10. ASSUME NEW i \in Instances, NEW u \in PluginUuids \cup {None}, Rebind(i, u)
       PROVE  HeardInv'
  BY <1>10, <1>h, <1>q, SameFacesStep DEF Rebind, SameFaces, Face, Tracked
<1>11. CASE UNCHANGED vars
  BY <1>11, <1>h, SameFacesStep DEF vars, SameFaces, Face, Tracked
<1> QED
  BY <1>1, <1>2, <1>3, <1>4, <1>6, <1>7, <1>8, <1>9, <1>10, <1>11
  DEF Next, Network, ClientMessage

LEMMA HeardUntilStopped ==
  Orderly => (Spec => [](phase # "stopped" => HeardInv))
<1> SUFFICES ASSUME Orderly
             PROVE  Spec => [](phase # "stopped" => HeardInv)
  OBVIOUS
<1>1. Init => HeardInv
  BY DEF Init, HeardInv, RolesKept, ConnectedUuids, GatedUuids, Connected, Inspectors,
         Tracked
<1>2. TypeOK /\ UuidHeldOnce /\ (phase # "stopped" => HeardInv) /\ [Next]_vars
        => (phase # "stopped" => HeardInv)'
  BY HeardStep
<1> QED
  BY <1>1, <1>2, TypeCorrect, UuidsAreDistinct, PTL DEF Spec

(* The app's view of which plugins are connected is the table's.           *)
THEOREM AppKnowsThePlugins == Orderly => (Spec => []AppKnowsTheConnected)
<1>1. (phase # "stopped" => HeardInv) => AppKnowsTheConnected
  BY DEF HeardInv, ConnectedUuids, AppKnowsTheConnected
<1> QED
  BY <1>1, HeardUntilStopped, PTL

(* The gate and the inspectors' connections never come apart.              *)
THEOREM GateIsExact == Orderly => (Spec => []GateMatchesInspectors)
<1>1. (phase # "stopped" => HeardInv) => GateMatchesInspectors
  BY DEF HeardInv, GatedUuids, GateMatchesInspectors
<1> QED
  BY <1>1, HeardUntilStopped, PTL

(* The connections, the app and the gate always agree.                       *)
THEOREM ConnectionsAlwaysAgree == Orderly => (Spec => []ConnectionsAgree)
  BY UuidsAreDistinct, AppKnowsThePlugins, GateIsExact, PTL DEF ConnectionsAgree

(***************************************************************************)
(* The password challenge.                                                 *)
(***************************************************************************)
(* The slot counts the wrong answers of its connection, and the one that     *)
(* reaches the limit closes it; an authenticated slot that is no inspector's *)
(* was answered with its own salt.                                           *)
GuessesCounted(s) ==
  /\ failures[s] = slot[s].authAttempts
  /\ slot[s].authAttempts >= MaxAttempts => conn[s] = "closing"

SaltMatches(s) ==
  hasPassword /\ slot[s].authenticated /\ ~slot[s].isPropertyInspector
    => answered[s] = slot[s].salt

ChallengeInv == \A s \in Tracked : GuessesCounted(s) /\ SaltMatches(s)

(* What ChallengeInv says of s depends on these.                             *)
SameChallenge(s) ==
  /\ slot'[s] = slot[s] /\ conn'[s] = conn[s] /\ failures'[s] = failures[s]
  /\ answered'[s] = answered[s] /\ hasPassword' = hasPassword

LEMMA SameChallengeKeeps ==
  ASSUME ChallengeInv, NEW s \in Sockets, SameChallenge(s), s \in Tracked'
  PROVE  GuessesCounted(s)' /\ SaltMatches(s)'
<1>1. s \in Tracked
  BY DEF Tracked, SameChallenge
<1> QED
  BY <1>1 DEF ChallengeInv, GuessesCounted, SaltMatches, SameChallenge

LEMMA ChallengeStep == TypeOK /\ ChallengeInv /\ [Next]_vars => ChallengeInv'
<1> SUFFICES ASSUME TypeOK, ChallengeInv, [Next]_vars, NEW t \in Sockets, t \in Tracked'
             PROVE  GuessesCounted(t)' /\ SaltMatches(t)'
  BY DEF ChallengeInv, Tracked
<1>t. /\ conn \in [Sockets -> {"none", "open", "closing"}] /\ slot \in [Sockets -> Slots]
      /\ failures \in [Sockets -> Nat] /\ answered \in [Sockets -> 0 .. MaxSalt]
      /\ hasPassword \in BOOLEAN /\ \A s \in Sockets \ Tracked : slot[s] = Blank
  BY DEF TypeOK
<1>c. t \in Tracked => GuessesCounted(t) /\ SaltMatches(t)
  BY DEF ChallengeInv
<1>1. CASE Start
  BY <1>1, SameChallengeKeeps DEF Start, SameChallenge
<1>2. CASE Stop
  BY <1>2 DEF Stop, Tracked
<1>3. ASSUME NEW new \in SUBSET Sockets, OnNewConnection(new)
      PROVE  GuessesCounted(t)' /\ SaltMatches(t)'
  <2>1. CASE t \notin new
    BY <1>3, <1>t, <2>1, SameChallengeKeeps DEF OnNewConnection, SameChallenge
  <2>2. CASE t \in new
    <3>1. slot'[t] = Blank /\ failures'[t] = 0
      BY <1>3, <1>t, <2>2 DEF OnNewConnection
    <3> QED
      BY <3>1 DEF Blank, GuessesCounted, SaltMatches
  <2> QED
    BY <2>1, <2>2
<1>4. ASSUME NEW s \in Sockets, OnClientDisconnected(s)
      PROVE  GuessesCounted(t)' /\ SaltMatches(t)'
  <2>1. t # s
    BY <1>4, <1>t DEF OnClientDisconnected, Tracked
  <2> QED
    BY <1>4, <1>t, <2>1, SameChallengeKeeps DEF OnClientDisconnected, Erased, SameChallenge
<1>5. ASSUME NEW s \in Sockets, CloseImpostor(s), conn[s] = "open",
             UNCHANGED <<hasPassword, failures, answered>>
      PROVE  GuessesCounted(t)' /\ SaltMatches(t)'
  <2>1. CASE t # s
    BY <1>5, <1>t, <2>1, SameChallengeKeeps DEF CloseImpostor, Close, SameChallenge
  <2>2. CASE t = s
    BY <1>5, <1>t, <1>c, <2>2
    DEF CloseImpostor, Close, Tracked, GuessesCounted, SaltMatches
  <2> QED
    BY <2>1, <2>2
<1>6. ASSUME NEW s \in Sockets, conn[s] = "open", UNCHANGED <<hasPassword, failures, answered, conn>>,
             NEW r, slot' = [slot EXCEPT ![s] = r], r.authAttempts = slot[s].authAttempts,
             hasPassword /\ r.authenticated => r.isPropertyInspector
      PROVE  GuessesCounted(t)' /\ SaltMatches(t)'
  <2>1. CASE t # s
    BY <1>6, <1>t, <2>1, SameChallengeKeeps DEF SameChallenge
  <2>2. CASE t = s
    BY <1>6, <1>t, <1>c, <2>2 DEF Tracked, GuessesCounted, SaltMatches
  <2> QED
    BY <2>1, <2>2
<1>7. ASSUME NEW s \in Sockets, NEW u \in PluginUuids, RegisterPlugin(s, u)
      PROVE  GuessesCounted(t)' /\ SaltMatches(t)'
  <2>1. CASE ~CloseImpostor(s)
    <3>1. /\ Rekeyed(s, u).authAttempts = slot[s].authAttempts
          /\ hasPassword => ~Rekeyed(s, u).authenticated
      BY <1>t, RekeyedFields
    <3> QED
      BY <1>6, <1>7, <2>1, <3>1 DEF RegisterPlugin
  <2> QED
    BY <1>5, <1>7, <2>1 DEF RegisterPlugin
<1>8. ASSUME NEW s \in Sockets, NEW c \in Contexts, RegisterPropertyInspector(s, c)
      PROVE  GuessesCounted(t)' /\ SaltMatches(t)'
  <2>1. CASE ~CloseImpostor(s)
    <3> DEFINE r == [slot[s] EXCEPT !.uuid = c, !.isPropertyInspector = TRUE,
                                    !.owner = OwnerOf(c), !.authenticated = TRUE]
    <3>1. slot' = [slot EXCEPT ![s] = r]
      BY <1>8, <2>1, <1>t DEF RegisterPropertyInspector, Slots
    <3>2. r.authAttempts = slot[s].authAttempts /\ r.isPropertyInspector
      BY <1>t DEF Slots
    <3> HIDE DEF r
    <3> QED
      BY <1>6, <1>8, <2>1, <3>1, <3>2 DEF RegisterPropertyInspector
  <2> QED
    BY <1>5, <1>8, <2>1 DEF RegisterPropertyInspector
<1>9. ASSUME NEW s \in Sockets, NEW answer \in Answers(s), Authentication(s, answer)
      PROVE  GuessesCounted(t)' /\ SaltMatches(t)'
  <2>1. conn[s] = "open" /\ hasPassword' = hasPassword
    BY <1>9 DEF Authentication
  <2>2. CASE t # s
    BY <1>9, <1>t, <2>2, SameChallengeKeeps
    DEF Authentication, Accept, Reject, Close, SameChallenge
  <2>3. CASE t = s /\ ~hasPassword
    BY <1>9, <1>t, <1>c, <2>1, <2>3
    DEF Authentication, Tracked, GuessesCounted, SaltMatches, Slots
  <2>4. CASE t = s /\ Accept(s)
    BY <1>t, <1>c, <2>1, <2>4 DEF Accept, Tracked, GuessesCounted, SaltMatches, Slots
  <2>5. CASE t = s /\ Reject(s)
    <3>1. /\ slot'[t].authAttempts = slot[t].authAttempts + 1
          /\ slot'[t].authenticated = slot[t].authenticated
          /\ slot'[t].isPropertyInspector = slot[t].isPropertyInspector
          /\ slot'[t].salt = slot[t].salt
          /\ failures'[t] = failures[t] + 1 /\ answered' = answered
      BY <1>t, <2>5 DEF Reject, Slots
    <3>2. slot[t].authAttempts + 1 >= MaxAttempts => conn'[t] = "closing"
      BY <1>t, <2>5 DEF Reject, Close
    <3> QED
      BY <1>c, <2>1, <2>5, <3>1, <3>2 DEF Tracked, GuessesCounted, SaltMatches
  <2> QED
    BY <1>9, <2>2, <2>3, <2>4, <2>5 DEF Authentication
<1>10. ASSUME NEW s \in Sockets,
              \/ RoutedAction(s)
              \/ \E c \in Contexts \cup {None} : SendToPlugin(s, c)
              \/ \E c \in Contexts : SendToPropertyInspector(s, c)
       PROVE  GuessesCounted(t)' /\ SaltMatches(t)'
  BY <1>10, SameChallengeKeeps
  DEF RoutedAction, SendToPlugin, SendToPropertyInspector, SameChallenge
<1>11. ASSUME NEW i \in Instances, NEW u \in PluginUuids \cup {None}, Rebind(i, u)
       PROVE  GuessesCounted(t)' /\ SaltMatches(t)'
  BY <1>11, SameChallengeKeeps DEF Rebind, SameChallenge
<1>12. CASE UNCHANGED vars
  BY <1>12, SameChallengeKeeps DEF vars, SameChallenge
<1> QED
  BY <1>1, <1>2, <1>3, <1>4, <1>7, <1>8, <1>9, <1>10, <1>11, <1>12
  DEF Next, Network, ClientMessage

(* Registering again buys no guesses, and no answer outlives the challenge   *)
(* it was given to, whatever a client does and in whatever roles.            *)
THEOREM ChallengesAlwaysHold == Spec => []ChallengesHold
<1>1. Init => ChallengeInv
  BY DEF Init, ChallengeInv, Tracked
<1>2. TypeOK /\ ChallengeInv => ChallengesHold
  BY DEF TypeOK, ChallengeInv, GuessesCounted, SaltMatches, ChallengesHold,
         GuessesAreLimited, AuthenticatedBySalt, Connected
<1> QED
  BY <1>1, <1>2, TypeCorrect, ChallengeStep, PTL DEF Spec

(***************************************************************************)
(* What is relayed and acted on, for orderly clients.                      *)
(***************************************************************************)
StoppedIsBare == phase = "stopped" => Tracked = {}

(* The app was told of every plugin that may speak.                          *)
SpeakersAreKnown ==
  \A s \in Tracked :
    slot[s].authenticated /\ ~slot[s].isPropertyInspector => slot[s].uuid \in known

FrameInv == StoppedIsBare /\ SpeakersAreKnown /\ FramesAreAttributed

LEMMA StoppedStep == TypeOK /\ StoppedIsBare /\ [Next]_vars => StoppedIsBare'
<1> SUFFICES ASSUME TypeOK, StoppedIsBare, [Next]_vars, phase' = "stopped" PROVE Tracked' = {}
  BY DEF StoppedIsBare
<1>1. CASE Stop
  BY <1>1 DEF Stop, Tracked
<1>2. CASE UNCHANGED vars
  BY <1>2 DEF vars, Tracked, StoppedIsBare
<1>3. ASSUME NEW s \in Sockets, OnClientDisconnected(s) PROVE Tracked' = {}
  BY <1>3 DEF OnClientDisconnected, Tracked, StoppedIsBare
<1>4. ASSUME NEW s \in Sockets, ClientMessage(s) PROVE FALSE
  <2>1. phase' = phase /\ conn[s] = "open"
    BY <1>4 DEF ClientMessage, RegisterPlugin, RegisterPropertyInspector, Authentication,
                RoutedAction, SendToPlugin, SendToPropertyInspector
  <2> QED
    BY <2>1 DEF Tracked, StoppedIsBare
<1>5. ASSUME NEW i \in Instances, NEW u \in PluginUuids \cup {None}, Rebind(i, u)
      PROVE  Tracked' = {}
  BY <1>5 DEF Rebind, Tracked, StoppedIsBare
<1>6. ~Start /\ ~\E new \in SUBSET Sockets : OnNewConnection(new)
  BY DEF Start, OnNewConnection
<1> QED
  BY <1>1, <1>2, <1>3, <1>4, <1>5, <1>6 DEF Next, Network

(* Steps that leave the slots of the sockets that stay alone, and keep what   *)
(* the app knows.                                                           *)
LEMMA SameSlotsKnown ==
  ASSUME SpeakersAreKnown, Tracked' \subseteq Tracked, slot' = slot, known' = known
  PROVE  SpeakersAreKnown'
BY DEF SpeakersAreKnown

LEMMA SpeakersStep ==
  ASSUME Orderly, TypeOK, UuidHeldOnce, phase # "stopped" => HeardInv, StoppedIsBare,
         SpeakersAreKnown, [Next]_vars
  PROVE  SpeakersAreKnown'
<1>t. /\ TableOK /\ slot \in [Sockets -> Slots] /\ hasPassword \in BOOLEAN
      /\ \A s \in Sockets \ Tracked : slot[s] = Blank
  BY DEF TypeOK, TableOK
<1>q. NoSignal => known' = known
  BY DEF NoSignal, Emit
<1>1. CASE Start \/ Stop \/ UNCHANGED vars
  BY <1>1, <1>q DEF Start, Stop, vars, SpeakersAreKnown, Tracked
<1>2. ASSUME NEW new \in SUBSET Sockets, OnNewConnection(new) PROVE SpeakersAreKnown'
  <2>1. Tracked' = Tracked \cup new /\ slot' = slot /\ known' = known
    BY <1>2, <1>q, <1>t DEF OnNewConnection, Tracked, TableOK
  <2>2. \A s \in new : ~slot[s].authenticated
    BY <1>2, <1>t DEF OnNewConnection, Blank
  <2> QED
    BY <2>1, <2>2 DEF SpeakersAreKnown
<1>3. ASSUME NEW s \in Sockets, OnClientDisconnected(s) PROVE SpeakersAreKnown'
  <2>1. s \in Tracked /\ Tracked' = Tracked \ {s}
    BY <1>3, <1>t DEF OnClientDisconnected, Tracked, TableOK
  <2>2. \A t \in Tracked' : slot'[t] = slot[t]
    BY <1>3, <1>t, <2>1 DEF OnClientDisconnected, Erased, Tracked
  <2>3. known' = known \ (IF DropsPlugin(s) THEN {slot[s].uuid} ELSE {})
    BY <1>3 DEF OnClientDisconnected, Emit
  <2>4. ASSUME NEW t \in Tracked', slot[t].uuid \in known PROVE slot[t].uuid \in known'
    <3>1. t \in Tracked /\ t # s
      BY <2>1
    <3> QED
      BY <2>1, <2>3, <2>4, <3>1 DEF UuidHeldOnce, DropsPlugin
  <2> QED
    BY <2>1, <2>2, <2>4 DEF SpeakersAreKnown
<1>4. ASSUME NEW s \in Sockets, CloseImpostor(s), conn[s] = "open" PROVE SpeakersAreKnown'
  <2>1. Tracked' \subseteq Tracked /\ slot' = slot /\ known' = known
    BY <1>4, <1>q, <1>t DEF CloseImpostor, Close, Tracked, TableOK
  <2> QED
    BY <2>1, SameSlotsKnown
<1>5. ASSUME NEW s \in Sockets, NEW u \in PluginUuids, RegisterPlugin(s, u)
      PROVE  SpeakersAreKnown'
  <2>1. CASE ~CloseImpostor(s)
    <3>1. /\ s \in Tracked /\ Tracked' = Tracked
          /\ slot' = [slot EXCEPT ![s] = Rekeyed(s, u)]
          /\ known' = (known \ GivenUp(s, u)) \cup (IF hasPassword THEN {} ELSE {u})
      BY <1>5, <2>1 DEF RegisterPlugin, Tracked, Emit
    <3>2. Rekeyed(s, u).uuid = u /\ (hasPassword => ~Rekeyed(s, u).authenticated)
      BY <1>t, RekeyedFields
    <3>3. ASSUME NEW t \in Tracked, t # s, slot[t].uuid \in known
          PROVE  slot[t].uuid \in known'
      BY <3>1, <3>3 DEF UuidHeldOnce, GivenUp
    <3>4. ASSUME NEW t \in Tracked, t # s PROVE slot'[t] = slot[t]
      BY <1>t, <3>1, <3>4 DEF Tracked
    <3>5. slot'[s] = Rekeyed(s, u)
      BY <1>t, <3>1
    <3> QED
      BY <3>1, <3>2, <3>3, <3>4, <3>5 DEF SpeakersAreKnown
  <2> QED
    BY <1>4, <1>5, <2>1 DEF RegisterPlugin
<1>6. ASSUME NEW s \in Sockets, NEW c \in Contexts, RegisterPropertyInspector(s, c)
      PROVE  SpeakersAreKnown'
  <2>1. CASE ~CloseImpostor(s)
    <3>1. Tracked' = Tracked /\ known' = known
      BY <1>6, <1>q, <2>1 DEF RegisterPropertyInspector, Tracked
    <3>2. slot'[s].isPropertyInspector /\ \A t \in Tracked \ {s} : slot'[t] = slot[t]
      BY <1>t, <1>6, <2>1 DEF RegisterPropertyInspector, Tracked, Slots
    <3> QED
      BY <3>1, <3>2 DEF SpeakersAreKnown
  <2> QED
    BY <1>4, <1>6, <2>1 DEF RegisterPropertyInspector
<1>7. ASSUME NEW s \in Sockets, NEW answer \in Answers(s), Authentication(s, answer)
      PROVE  SpeakersAreKnown'
  <2>1. s \in Tracked /\ slot[s].uuid # Pending /\ ~slot[s].isPropertyInspector
    BY <1>7 DEF Authentication, Tracked
  <2>2. phase # "stopped" /\ HeardInv
    BY <2>1 DEF StoppedIsBare
  <2>3. Tracked' = Tracked /\ \A t \in Tracked : slot'[t].uuid = slot[t].uuid
    BY <1>7, <1>t DEF Authentication, Accept, Reject, Close, Tracked, TableOK, Slots
  <2>4. \A t \in Tracked \ {s} : slot'[t] = slot[t]
    BY <1>7, <1>t DEF Authentication, Accept, Reject, Tracked
  <2>5. known \subseteq known'
    BY <1>7, <1>q DEF Authentication, Accept, Reject, Emit
  <2>6. slot'[s].authenticated => slot[s].uuid \in known'
    <3>1. CASE ~hasPassword
      <4>1. slot[s].uuid \in ConnectedUuids
        BY <2>1 DEF ConnectedUuids, Connected
      <4> QED
        BY <2>2, <2>5, <3>1, <4>1 DEF HeardInv
    <3>2. CASE Accept(s)
      BY <3>2 DEF Accept, Emit
    <3>3. CASE Reject(s)
      <4>1. slot'[s].authenticated = slot[s].authenticated
        BY <1>t, <3>3 DEF Reject, Slots
      <4> QED
        BY <2>1, <2>5, <4>1 DEF SpeakersAreKnown
    <3> QED
      BY <1>7, <3>1, <3>2, <3>3 DEF Authentication
  <2> QED
    BY <2>1, <2>3, <2>4, <2>5, <2>6 DEF SpeakersAreKnown
<1>8. ASSUME NEW s \in Sockets,
             \/ RoutedAction(s)
             \/ \E c \in Contexts \cup {None} : SendToPlugin(s, c)
             \/ \E c \in Contexts : SendToPropertyInspector(s, c)
      PROVE  SpeakersAreKnown'
  <2>1. slot' = slot /\ conn' = conn /\ known' = known
    BY <1>8, <1>q DEF RoutedAction, SendToPlugin, SendToPropertyInspector, Acts
  <2> QED
    BY <2>1, SameSlotsKnown DEF Tracked
<1>9. ASSUME NEW i \in Instances, NEW u \in PluginUuids \cup {None}, Rebind(i, u)
      PROVE  SpeakersAreKnown'
  BY <1>9, <1>q, SameSlotsKnown DEF Rebind, Tracked
<1> QED
  BY <1>1, <1>2, <1>3, <1>5, <1>6, <1>7, <1>8, <1>9 DEF Next, Network, ClientMessage

(* A frame relayed either way names the inspector's own instance.            *)
LEMMA RelayedFrame ==
  ASSUME NEW pi \in Inspectors, NEW plugin \in Connected, NEW context,
         CanonOf(context) = CanonOf(slot[pi].uuid),
         \/ relayed = [from |-> pi, to |-> plugin, context |-> context] /\ context \in Instances
         \/ relayed = [from |-> plugin, to |-> pi, context |-> context]
  PROVE  RelayStaysInInstance
<1>1. plugin \notin Inspectors /\ pi # plugin
  BY DEF Inspectors, Connected
<1> QED
  BY <1>1 DEF RelayStaysInInstance

LEMMA RelayStep ==
  ASSUME TypeOK, RolesKept, [Next]_vars, RelayStaysInInstance
  PROVE  RelayStaysInInstance'
<1>t. TableOK
  BY DEF TypeOK, TableOK
<1>c. \A c \in Contexts : CanonOf(c) \in Instances /\ CanonOf(CanonOf(c)) = CanonOf(c)
  BY DEF CanonOf, Instances
<1>n. NoRelay => RelayStaysInInstance'
  BY DEF NoRelay, RelayStaysInInstance
<1>1. ASSUME NEW s \in Sockets, NEW claimed \in Contexts \cup {None}, SendToPlugin(s, claimed),
             ~NoRelay
      PROVE  RelayStaysInInstance'
  <2>1. /\ s \in Inspectors /\ UNCHANGED <<conn, slot>>
        /\ relayed' \in Frames(s, SocketsFor(RelayOwner(s)), Forwarded(s, claimed))
    BY <1>1 DEF SendToPlugin
  <2>2. PICK to \in SocketsFor(RelayOwner(s)) :
          relayed' = [from |-> s, to |-> to, context |-> Forwarded(s, claimed)]
    BY <2>1 DEF Frames
  <2>3. slot[s].uuid \in Contexts /\ s \in Tracked
    BY <2>1 DEF RolesKept, Inspectors
  <2>4. Forwarded(s, claimed) \in Instances
        /\ CanonOf(Forwarded(s, claimed)) = CanonOf(slot[s].uuid)
    BY <1>c, <2>3 DEF Forwarded
  <2>5. to \in Tracked /\ slot[to].uuid = RelayOwner(s)
    BY <2>2 DEF SocketsFor
  <2>6. RelayOwner(s) \in PluginUuids \cup {None}
    BY <1>t, <2>1, OwnerType DEF RelayOwner, TableOK, Slots, Inspectors, Tracked
  <2>7. slot[to].uuid \in Uuids
    BY <1>t, <2>5 DEF TableOK, Slots, Tracked
  <2>8. slot[to].uuid \in PluginUuids
    BY <2>5, <2>6, <2>7 DEF Uuids
  <2>9. to \in Connected
    BY <2>5, <2>8 DEF RolesKept, Connected
  <2>10. Inspectors' = Inspectors /\ Connected' = Connected
    BY <2>1 DEF Inspectors, Connected, Tracked
  <2> QED
    BY <2>1, <2>2, <2>4, <2>9, <2>10, RelayedFrame DEF RelayStaysInInstance, Inspectors, Connected
<1>2. ASSUME NEW s \in Sockets, NEW c \in Contexts, SendToPropertyInspector(s, c), ~NoRelay
      PROVE  RelayStaysInInstance'
  <2>1. /\ s \in Tracked /\ UNCHANGED <<conn, slot>>
        /\ relayed' \in Frames(s, Reached(s, c), c)
    BY <1>2 DEF SendToPropertyInspector, Tracked
  <2>2. PICK pi \in Reached(s, c) : relayed' = [from |-> s, to |-> pi, context |-> c]
    BY <2>1 DEF Frames
  <2>3. Owns(s, c) /\ pi \in InspectorsFor(c)
    BY <2>2 DEF Reached
  <2>4. pi \in Inspectors /\ CanonOf(c) = CanonOf(slot[pi].uuid)
    BY <2>3 DEF InspectorsFor, CanonOf
  <2>5. slot[s].uuid \in PluginUuids
    BY <1>t, <2>3, OwnerType DEF Owns
  <2>6. s \in Connected
    BY <2>1, <2>5 DEF RolesKept, Connected
  <2>7. Inspectors' = Inspectors /\ Connected' = Connected
    BY <2>1 DEF Inspectors, Connected, Tracked
  <2> QED
    BY <2>1, <2>2, <2>4, <2>6, <2>7 DEF RelayStaysInInstance, Inspectors, Connected
<1>3. CASE UNCHANGED vars
  BY <1>3 DEF vars, RelayStaysInInstance, Inspectors, Connected, Tracked
<1>4. \/ UNCHANGED vars \/ NoRelay
      \/ \E s \in Sockets, claimed \in Contexts \cup {None} : SendToPlugin(s, claimed)
      \/ \E s \in Sockets, c \in Contexts : SendToPropertyInspector(s, c)
  BY DEF Next, Network, ClientMessage, Start, Stop, OnNewConnection, OnClientDisconnected,
         RegisterPlugin, RegisterPropertyInspector, Authentication, RoutedAction, Rebind
<1> QED
  BY <1>n, <1>1, <1>2, <1>3, <1>4

LEMMA ActedStep ==
  ASSUME TypeOK, SpeakersAreKnown, [Next]_vars, ActionsAreAttributed
  PROVE  ActionsAreAttributed'
<1>1. ASSUME NEW gone, NEW came, Emit(gone, came) PROVE ActionsAreAttributed'
  BY <1>1 DEF Emit, Quiet, ActionsAreAttributed
<1>2. NoSignal => ActionsAreAttributed'
  BY <1>1 DEF NoSignal
<1>3. ASSUME NEW s \in Tracked, MaySpeak(s), Acts(s), UNCHANGED <<slot, conn>>
      PROVE  ActionsAreAttributed'
  <2>1. signals'.acted = {slot[s].uuid} /\ known' = known /\ Inspectors' = Inspectors
    BY <1>3 DEF Acts, Quiet, Inspectors, Tracked
  <2> QED
    BY <1>3, <2>1 DEF MaySpeak, SpeakersAreKnown, Inspectors, ActionsAreAttributed
<1>4. ASSUME NEW s \in Sockets,
             RoutedAction(s) \/ \E c \in Contexts : SendToPropertyInspector(s, c)
      PROVE  ActionsAreAttributed'
  BY <1>2, <1>3, <1>4 DEF RoutedAction, SendToPropertyInspector, Tracked
<1>5. CASE UNCHANGED vars
  BY <1>5 DEF vars, ActionsAreAttributed, Inspectors, Tracked
<1>6. ASSUME NEW s \in Sockets, NEW c \in Contexts \cup {None}, SendToPlugin(s, c)
      PROVE  ActionsAreAttributed'
  BY <1>2, <1>6 DEF SendToPlugin
<1>7. ASSUME NEW s \in Sockets,
             \/ OnClientDisconnected(s)
             \/ \E u \in PluginUuids : RegisterPlugin(s, u)
             \/ \E c \in Contexts : RegisterPropertyInspector(s, c)
             \/ \E answer \in Answers(s) : Authentication(s, answer)
      PROVE  ActionsAreAttributed'
  <2>1. CASE NoSignal
    BY <1>2, <2>1
  <2>2. CASE ~NoSignal
    BY <1>1, <1>7, <2>2
    DEF OnClientDisconnected, RegisterPlugin, RegisterPropertyInspector, Authentication,
        CloseImpostor, Accept, Reject
  <2> QED
    BY <2>1, <2>2
<1>8. ASSUME \/ Start \/ Stop
             \/ \E new \in SUBSET Sockets : OnNewConnection(new)
             \/ \E i \in Instances, u \in PluginUuids \cup {None} : Rebind(i, u)
      PROVE  ActionsAreAttributed'
  BY <1>2, <1>8 DEF Start, Stop, OnNewConnection, Rebind
<1> QED
  BY <1>4, <1>5, <1>6, <1>7, <1>8 DEF Next, Network, ClientMessage

(* What is relayed stays between an inspector and the plugin of its instance, *)
(* and what is raised is raised in the name of someone the app was told of.  *)
THEOREM FramesStayAttributed == Orderly => (Spec => []FramesAreAttributed)
<1> SUFFICES ASSUME Orderly PROVE Spec => []FramesAreAttributed
  OBVIOUS
<1>1. Init => FrameInv
  BY DEF Init, FrameInv, StoppedIsBare, SpeakersAreKnown, FramesAreAttributed,
         RelayStaysInInstance, ActionsAreAttributed, Tracked, Quiet
<1>2. TypeOK /\ UuidHeldOnce /\ (phase # "stopped" => HeardInv) /\ FrameInv /\ [Next]_vars
        => FrameInv'
  <2> SUFFICES ASSUME TypeOK, UuidHeldOnce, phase # "stopped" => HeardInv, FrameInv, [Next]_vars
               PROVE  FrameInv'
    OBVIOUS
  <2>1. StoppedIsBare' /\ SpeakersAreKnown'
    BY StoppedStep, SpeakersStep DEF FrameInv
  <2>2. RolesKept
    BY DEF FrameInv, StoppedIsBare, HeardInv, RolesKept
  <2>3. RelayStaysInInstance' /\ ActionsAreAttributed'
    BY <2>2, RelayStep, ActedStep DEF FrameInv, FramesAreAttributed
  <2> QED
    BY <2>1, <2>3 DEF FrameInv, FramesAreAttributed
<1>3. FrameInv => FramesAreAttributed
  BY DEF FrameInv
<1> QED
  BY <1>1, <1>2, <1>3, TypeCorrect, UuidsAreDistinct, HeardUntilStopped, PTL DEF Spec

-----------------------------------------------------------------------------
(* The Python host.  A host that holds its child for living and waits for no  *)
(* answer has nothing in its pipes; when it waits, they hold its request, or  *)
(* the lines that are left of the answer to it.                               *)
Ops == {"path", "load", "list", "dispatch"}
About == DOMAIN Here \cup Socket \cup {Y!NoRequest}
Asks == [op : Ops, of : About, n : Nat]
Heards == [id : DOMAIN Here, name : {Here[p] : p \in DOMAIN Here}, n : Nat]
Calls == [why : {"start", "rows", "route"}, op : Ops, of : About, n : Nat, got : Seq(Heards)]

(* A line about a plugin has the name that plugin has.                        *)
AboutPlugins == {"plugin_loaded", "plugin_error", "plugin"}
Events == AboutPlugins \cup {"ready", "spawn_error", "path_added", "load_complete", "plugins_complete",
                             "dispatched", "dispatch_error"}
Lines ==
  {l \in [event : Events, of : About, n : Nat, name : {<<>>} \cup {Y!Written(Here[p]) : p \in DOMAIN Here}] :
     l.event \in AboutPlugins => l.of \in DOMAIN Here /\ l.name = Y!Written(Here[l.of])}

Children == [life : {"none", "started", "serving", "exited", "reaped"}, searches : BOOLEAN,
             loaded : Seq(DOMAIN Here)]

HostTyped ==
  /\ Y!TypeOK /\ child \in Children /\ call \in Calls \cup {Y!NoRequest}
  /\ inbox \in Seq(Asks) /\ wire \in Seq(Lines) /\ todo \in Seq(Lines)

(* What is left of the answer to call c: lines that were written, and lines   *)
(* that will be.  Only the last of them may be a last one, and those of a     *)
(* list are the plugins the child has, from the first not heard of.           *)
LineOf(xs, ys, i) == IF i <= Len(xs) THEN xs[i] ELSE ys[i - Len(xs)]
GoodLine(c, loaded, l, i, length) ==
  /\ l.n = c.n /\ l.event \in Y!Before(c.op) \cup Y!Lasts(c.op)
  /\ l.event \in Y!Lasts(c.op) => i = length
  /\ c.op = "list" /\ l.event \in Y!Before(c.op) => l.of = loaded[Len(c.got) + i]
Leftover(c, loaded, xs, ys) ==
  \A i \in 1..Len(xs) + Len(ys) : GoodLine(c, loaded, LineOf(xs, ys, i), i, Len(xs) + Len(ys))

(* What was heard so far.                                                     *)
Told(c, loaded) ==
  \A i \in DOMAIN c.got : /\ c.got[i].n = c.n /\ c.got[i].name = Here[c.got[i].id]
                          /\ c.op = "list" => c.got[i].id = loaded[i]

PipesEmpty == inbox = <<>> /\ wire = <<>> /\ todo = <<>>
Asked ==
  /\ inbox = <<[op |-> call.op, of |-> call.of, n |-> call.n]>> /\ wire = <<>> /\ todo = <<>>
  /\ call.got = <<>>
Answering == inbox = <<>> /\ Leftover(call, child.loaded, wire, todo) /\ Told(call, child.loaded)

Greeting ==
  /\ call = Y!NoRequest /\ inbox = <<>> /\ todo = <<>>
  /\ IF child.life = "started" THEN wire = <<>> ELSE Len(wire) <= 1

HostInv ==
  /\ HostTyped
  /\ pPhase = "off" => call = Y!NoRequest /\ ~alive /\ PipesEmpty
  /\ pPhase = "ready?" => Greeting
  /\ child.life = "started" => pPhase = "ready?"
  /\ alive /\ pPhase # "ready?" /\ ~Y!Waiting => PipesEmpty
  /\ call # Y!NoRequest => call.n <= sent + 1 /\ (~Y!Waiting => call.got = <<>>)
  /\ Y!Waiting => alive /\ pPhase # "ready?" /\ (Asked \/ Answering)

LEMMA OpsAnswered ==
  /\ Y!Before("path") = {} /\ Y!Lasts("path") = {"path_added"}
  /\ Y!Before("load") = {"plugin_loaded", "plugin_error"} /\ Y!Lasts("load") = {"load_complete"}
  /\ Y!Before("list") = {"plugin"} /\ Y!Lasts("list") = {"plugins_complete"}
  /\ Y!Before("dispatch") = {} /\ Y!Lasts("dispatch") = {"dispatched", "dispatch_error"}
BY DEF Y!Before, Y!Lasts

LEMMA BeforeIsNotLast ==
  \A op \in Ops : /\ Y!Before(op) \cap Y!Lasts(op) = {} /\ Y!Before(op) \subseteq AboutPlugins
                  /\ "plugin_loaded" \in Y!Before(op) \cup Y!Lasts(op) => op = "load"
BY OpsAnswered DEF Ops, AboutPlugins

LEMMA LineIsOne ==
  ASSUME NEW event \in Events, NEW of \in About, NEW n \in Nat, event \in AboutPlugins => of \in DOMAIN Here
  PROVE  /\ Y!Line(event, of, n) \in Lines /\ Y!Line(event, of, n).event = event
         /\ Y!Line(event, of, n).of = of /\ Y!Line(event, of, n).n = n
BY DEF Y!Line, Lines

LEMMA NoRequestIsNone == \A c \in Calls : c # Y!NoRequest /\ c.op \in Ops
BY DEF Calls, Ops, Y!NoRequest

LEMMA NothingIsEmpty == /\ \A x \in Seq(Lines) : x = <<>> <=> Len(x) = 0
                        /\ \A x \in Seq(Heards) : x = <<>> <=> Len(x) = 0
                        /\ <<>> \in Seq(Lines) /\ <<>> \in Seq(Heards) /\ <<>> \in Seq(Asks)
                        /\ <<>> \in Seq(DOMAIN Here)
OBVIOUS

(* A line is written.                                                         *)
LEMMA EmitAnswers ==
  ASSUME NEW c, NEW loaded, NEW xs \in Seq(Lines), NEW ys \in Seq(Lines), ys # <<>>,
         Leftover(c, loaded, xs, ys)
  PROVE  Leftover(c, loaded, Append(xs, Head(ys)), Tail(ys))
<1> DEFINE us == Append(xs, Head(ys))
<1> DEFINE vs == Tail(ys)
<1>1. /\ Head(ys) \in Lines /\ Head(ys) = ys[1] /\ vs \in Seq(Lines) /\ Len(vs) = Len(ys) - 1
      /\ \A i \in 1..Len(ys) - 1 : vs[i] = ys[i + 1]
  BY HeadTailProperties
<1>2. /\ us \in Seq(Lines) /\ Len(us) = Len(xs) + 1 /\ us[Len(xs) + 1] = ys[1]
      /\ \A i \in 1..Len(xs) : us[i] = xs[i]
  BY <1>1, AppendProperties
<1>3. Len(xs) \in Nat /\ Len(ys) \in Nat
  OBVIOUS
<1> HIDE DEF us, vs
<1>4. \A i \in 1..Len(xs) + Len(ys) : LineOf(us, vs, i) = LineOf(xs, ys, i)
  <2> SUFFICES ASSUME NEW i \in 1..Len(xs) + Len(ys) PROVE LineOf(us, vs, i) = LineOf(xs, ys, i)
    OBVIOUS
  <2>1. CASE i <= Len(xs)
    BY <1>2, <1>3, <2>1 DEF LineOf
  <2>2. CASE i = Len(xs) + 1
    BY <1>2, <1>3, <2>2 DEF LineOf
  <2>3. CASE i > Len(xs) + 1
    <3>1. i - Len(us) \in 1..Len(ys) - 1 /\ (i - Len(us)) + 1 = i - Len(xs) /\ ~(i <= Len(us)) /\ ~(i <= Len(xs))
      BY <1>2, <1>3, <2>3
    <3>2. vs[i - Len(us)] = ys[(i - Len(us)) + 1]
      BY <1>1, <3>1
    <3> QED
      BY <3>1, <3>2 DEF LineOf
  <2> QED
    BY <1>3, <2>1, <2>2, <2>3
<1>5. Len(us) + Len(vs) = Len(xs) + Len(ys)
  BY <1>1, <1>2, <1>3
<1>6. Leftover(c, loaded, us, vs)
  BY <1>4, <1>5 DEF Leftover
<1> QED
  BY <1>6 DEF us, vs

(* The lines that were not written are lost.                                  *)
LEMMA LostAnswers ==
  ASSUME NEW c, NEW loaded, NEW xs \in Seq(Lines), NEW ys \in Seq(Lines), Leftover(c, loaded, xs, ys)
  PROVE  Leftover(c, loaded, xs, <<>>)
<1>1. Len(xs) \in Nat /\ Len(ys) \in Nat
  OBVIOUS
<1> DEFINE none == <<>>
<1>2. Len(none) = 0
  BY NothingIsEmpty
<1> HIDE DEF none
<1>3. Leftover(c, loaded, xs, none)
  BY <1>1, <1>2 DEF Leftover, LineOf, GoodLine
<1> QED
  BY <1>3 DEF none

(* A line is read.                                                            *)
LEMMA ReadAnswers ==
  ASSUME NEW c \in Calls, NEW loaded, NEW xs \in Seq(Lines), NEW ys \in Seq(Lines), xs # <<>>,
         Leftover(c, loaded, xs, ys)
  PROVE  /\ GoodLine(c, loaded, Head(xs), 1, Len(xs) + Len(ys)) /\ Head(xs) \in Lines
         /\ Tail(xs) \in Seq(Lines)
         /\ Head(xs).event \in Y!Lasts(c.op) => Tail(xs) = <<>> /\ ys = <<>>
         /\ \A h \in Heards : Leftover([c EXCEPT !.got = Append(c.got, h)], loaded, Tail(xs), ys)
<1> DEFINE vs == Tail(xs)
<1>1. /\ Head(xs) \in Lines /\ Head(xs) = xs[1] /\ vs \in Seq(Lines) /\ Len(vs) = Len(xs) - 1
      /\ \A i \in 1..Len(xs) - 1 : vs[i] = xs[i + 1]
  BY HeadTailProperties
<1>2. Len(xs) \in Nat /\ Len(xs) > 0 /\ Len(ys) \in Nat
  BY NothingIsEmpty
<1> HIDE DEF vs
<1>3. \A i \in 1..Len(vs) + Len(ys) : LineOf(vs, ys, i) = LineOf(xs, ys, i + 1)
  BY <1>1, <1>2 DEF LineOf
<1>4. GoodLine(c, loaded, Head(xs), 1, Len(xs) + Len(ys))
  BY <1>1, <1>2 DEF Leftover, LineOf
<1>5. 1 = Len(xs) + Len(ys) => vs = <<>> /\ ys = <<>>
  BY <1>1, <1>2, NothingIsEmpty
<1>6. ASSUME NEW h \in Heards PROVE Leftover([c EXCEPT !.got = Append(c.got, h)], loaded, vs, ys)
  <2> DEFINE d == [c EXCEPT !.got = Append(c.got, h)]
  <2>1. d.n = c.n /\ d.op = c.op /\ Len(d.got) = Len(c.got) + 1 /\ Len(c.got) \in Nat
    BY AppendProperties DEF Calls
  <2> HIDE DEF d
  <2>2. ASSUME NEW i \in 1..Len(vs) + Len(ys)
        PROVE  GoodLine(d, loaded, LineOf(vs, ys, i), i, Len(vs) + Len(ys))
    <3>1. GoodLine(c, loaded, LineOf(vs, ys, i), i + 1, Len(xs) + Len(ys)) /\ i \in Nat
      BY <1>1, <1>2, <1>3 DEF Leftover
    <3>2. Len(d.got) + i = Len(c.got) + (i + 1)
      <4> DEFINE a == Len(c.got)
      <4> DEFINE b == Len(d.got)
      <4>1. b = a + 1 /\ a \in Nat
        BY <2>1
      <4> HIDE DEF a, b
      <4>2. b + i = a + (i + 1)
        BY <3>1, <4>1
      <4> QED
        BY <4>2 DEF a, b
    <3>3. i + 1 = Len(xs) + Len(ys) => i = Len(vs) + Len(ys)
      BY <1>1, <1>2
    <3> QED
      BY <2>1, <3>1, <3>2, <3>3 DEF GoodLine
  <2>3. Leftover(d, loaded, vs, ys)
    BY <2>2 DEF Leftover
  <2> QED
    BY <2>3 DEF d
<1> QED
  BY <1>1, <1>4, <1>5, <1>6 DEF GoodLine, vs

(* What the child answers, before the first line of it is written.            *)
LEMMA AnswersOfOne ==
  ASSUME NEW c \in Calls, NEW loaded, NEW l, l.n = c.n, l.event \in Y!Lasts(c.op)
  PROVE  Leftover(c, loaded, <<>>, <<l>>)
<1>1. c.op \in Ops
  BY NoRequestIsNone
<1>2. l.event \notin Y!Before(c.op)
  BY <1>1, BeforeIsNotLast
<1> DEFINE none == <<>>
<1> DEFINE one == <<l>>
<1>3. Len(none) = 0 /\ Len(one) = 1 /\ one[1] = l
  BY NothingIsEmpty
<1> HIDE DEF none, one
<1>4. Leftover(c, loaded, none, one)
  BY <1>2, <1>3 DEF Leftover, LineOf, GoodLine
<1> QED
  BY <1>4 DEF none, one

LEMMA AnswersOfMany ==
  ASSUME NEW c \in Calls, NEW loaded, NEW xs \in Seq(Lines), NEW l \in Lines, l.n = c.n, c.got = <<>>,
         l.event \in Y!Lasts(c.op),
         \A i \in 1..Len(xs) : /\ xs[i].n = c.n /\ xs[i].event \in Y!Before(c.op)
                               /\ c.op = "list" => xs[i].of = loaded[i]
  PROVE  xs \o <<l>> \in Seq(Lines) /\ Leftover(c, loaded, <<>>, xs \o <<l>>)
<1> DEFINE none == <<>>
<1> DEFINE one == <<l>>
<1> DEFINE all == xs \o one
<1>1. Len(none) = 0 /\ one \in Seq(Lines) /\ Len(one) = 1 /\ one[1] = l /\ Len(xs) \in Nat
      /\ Len(c.got) = 0
  BY NothingIsEmpty DEF Calls
<1> HIDE DEF none, one
<1>2. /\ all \in Seq(Lines) /\ Len(all) = Len(xs) + 1
      /\ \A i \in 1..Len(xs) + Len(one) : all[i] = IF i <= Len(xs) THEN xs[i] ELSE one[i - Len(xs)]
  <2>1. /\ all \in Seq(Lines) /\ Len(all) = Len(xs) + Len(one)
        /\ \A i \in 1..Len(xs) + Len(one) : all[i] = IF i <= Len(xs) THEN xs[i] ELSE one[i - Len(xs)]
    <3> HIDE DEF all
    <3>1. \A ys \in Seq(Lines) :
            /\ xs \o ys \in Seq(Lines) /\ Len(xs \o ys) = Len(xs) + Len(ys)
            /\ \A i \in 1..Len(xs) + Len(ys) : (xs \o ys)[i] = IF i <= Len(xs) THEN xs[i] ELSE ys[i - Len(xs)]
      BY ConcatProperties
    <3> QED
      BY <1>1, <3>1 DEF all
  <2> HIDE DEF all
  <2> QED
    BY <1>1, <2>1
<1> HIDE DEF all
<1>3. \A i \in 1..Len(xs) + 1 : all[i] = IF i <= Len(xs) THEN xs[i] ELSE l
  BY <1>1, <1>2
<1>4. c.op \in Ops /\ Y!Before(c.op) \cap Y!Lasts(c.op) = {}
  BY NoRequestIsNone, BeforeIsNotLast
<1>5. ASSUME NEW i \in 1..Len(xs) + 1 PROVE GoodLine(c, loaded, all[i], i, Len(xs) + 1)
  <2>1. CASE i <= Len(xs)
    <3>1. all[i] = xs[i] /\ i \in 1..Len(xs) /\ Len(c.got) + i = i
      BY <1>1, <1>3, <2>1
    <3> QED
      BY <1>4, <3>1 DEF GoodLine
  <2>2. CASE i = Len(xs) + 1
    BY <1>1, <1>3, <1>4, <2>2 DEF GoodLine
  <2> QED
    BY <1>1, <2>1, <2>2
<1>6. Leftover(c, loaded, none, all)
  BY <1>1, <1>2, <1>5 DEF Leftover, LineOf
<1> QED
  BY <1>2, <1>6 DEF none, one, all

(* The plugins on disk can be put in some order.                              *)
LEMMA PluginsInOrder == Y!SetToSeq(DOMAIN Here) \in Seq(DOMAIN Here)
<1> DEFINE S == DOMAIN Here
<1>1. IsFiniteSet(S)
  BY HostAssumption
<1> HIDE DEF S
<1>2. Cardinality(S) \in Nat /\ ExistsBijection(1..Cardinality(S), S)
  BY <1>1, FS_CardinalityType
<1>3. PICK f \in [1..Cardinality(S) -> S] : \A i, j \in 1..Cardinality(S) : f[i] = f[j] => i = j
  BY <1>2 DEF ExistsBijection, Bijection, Injection, IsInjective
<1>a. Y!Cardinality(S) = Cardinality(S)
  BY DEF Y!Cardinality, Cardinality
<1>4. Y!SetToSeq(S) \in [1..Cardinality(S) -> S]
  BY <1>3, <1>a DEF Y!SetToSeq, Y!IsInjective
<1>5. Y!SetToSeq(S) \in Seq(S)
  BY <1>2, <1>4
<1> QED
  BY <1>5 DEF S

(* A name that crosses the line unharmed.                                     *)
NamesSurvive == \A p \in DOMAIN Here : Y!Read(Y!Written(Here[p])) = Here[p]

LEMMA WaitingHasACall ==
  ASSUME HostInv
  PROVE  /\ Y!Waiting => call \in Calls /\ sent \in Nat
         /\ ~(Y!NoRequest \in Calls)
         /\ call # Y!NoRequest => pPhase \notin {"off", "ready?"}
<1>1. Y!Waiting => call \in Calls /\ sent \in Nat
  BY DEF HostInv, HostTyped, Y!TypeOK, Y!Waiting
<1>2. ~(Y!NoRequest \in Calls)
  BY NoRequestIsNone
<1>3. call # Y!NoRequest => pPhase \notin {"off", "ready?"}
  BY DEF HostInv, Greeting
<1> QED
  BY <1>1, <1>2, <1>3

(* A step after which there is no child that counts as living, and no call.   *)
LEMMA HungUp ==
  ASSUME HostInv, HostTyped', pPhase' \notin {"off", "ready?"}, ~alive', call' = Y!NoRequest,
         child.life = "started" => child'.life # "started", child'.life \in {child.life, "exited", "reaped"}
  PROVE  HostInv'
BY DEF HostInv, Y!Waiting

LEMMA AskKeeps ==
  ASSUME HostInv, pPhase \notin {"off", "ready?"}, ~Y!Waiting, NEW c \in Calls, c.n = sent + 1,
         c.got = <<>>, Y!Ask(c)
  PROVE  HostInv'
<1>1. /\ HostTyped /\ sent \in Nat /\ c.op \in Ops /\ c.of \in About /\ c.n \in Nat
      /\ child.life # "started" /\ (alive => PipesEmpty)
  BY NoRequestIsNone DEF HostInv, HostTyped, Y!TypeOK, Calls
<1>2. CASE alive /\ child.life \notin {"exited", "reaped"}
  <2> DEFINE r == [op |-> c.op, of |-> c.of, n |-> c.n]
  <2>1. /\ call' = c /\ sent' = sent + 1 /\ sent < MaxCalls /\ inbox' = Append(inbox, r) /\ pPhase' = pPhase
        /\ alive' = alive /\ handle' = handle /\ child' = child /\ wire' = wire /\ todo' = todo
        /\ late' = late
    BY <1>2 DEF Y!Ask
  <2>2. r \in Asks
    BY <1>1 DEF Asks
  <2> HIDE DEF r
  <2>3. inbox' = <<r>> /\ wire' = <<>> /\ todo' = <<>> /\ inbox' \in Seq(Asks)
    BY <1>1, <1>2, <2>1, <2>2 DEF PipesEmpty
  <2>4. HostTyped'
    BY <1>1, <2>1, <2>3, HostAssumption DEF HostTyped, Y!TypeOK
  <2>5. Y!Waiting'
    BY <2>1, <1>1, NoRequestIsNone DEF Y!Waiting
  <2>6. Asked'
    BY <2>1, <2>3 DEF Asked, r
  <2> QED
    BY <1>1, <1>2, <2>1, <2>4, <2>5, <2>6 DEF HostInv
<1>3. CASE ~(alive /\ child.life \notin {"exited", "reaped"})
  <2>1. /\ call' = Y!NoRequest /\ sent' = sent /\ inbox' = inbox /\ pPhase' \in {pPhase, "leaving"}
        /\ alive' = alive /\ handle' = handle /\ child' = child /\ wire' = wire /\ todo' = todo
        /\ late' = late
    BY <1>3 DEF Y!Ask, Y!Refused
  <2>2. HostTyped' /\ ~Y!Waiting'
    BY <1>1, <2>1 DEF HostTyped, Y!TypeOK, Y!Waiting
  <2> QED
    BY <1>1, <2>1, <2>2 DEF HostInv, PipesEmpty
<1> QED
  BY <1>2, <1>3

LEMMA CallsBegin ==
  ASSUME HostInv, Y!Begin \/ Y!Refresh \/ Y!Continue \/ \E p \in DOMAIN Here \cup Socket : Y!Dispatch(p)
  PROVE  HostInv'
<1>1. sent \in Nat /\ call \in Calls \cup {Y!NoRequest} /\ Y!NoRequest \in About
  BY DEF HostInv, HostTyped, Y!TypeOK, About
<1>2. ASSUME NEW why \in {"start", "rows", "route"}, NEW op \in {"path", "list"}, NEW of \in About
      PROVE  /\ Y!Request(why, op, of) \in Calls /\ Y!Request(why, op, of).n = sent + 1
             /\ Y!Request(why, op, of).got = <<>>
  <2>1. sent + 1 \in Nat /\ <<>> \in Seq(Heards) /\ op \in Ops
    BY <1>1, NothingIsEmpty DEF Ops
  <2> QED
    BY <2>1 DEF Y!Request, Calls
<1>3. call = Y!NoRequest => ~Y!Waiting
  BY DEF Y!Waiting
<1>4. CASE Y!Begin
  BY <1>1, <1>2, <1>3, <1>4, AskKeeps DEF Y!Begin
<1>5. CASE Y!Refresh
  BY <1>1, <1>2, <1>3, <1>5, AskKeeps DEF Y!Refresh
<1>6. ASSUME NEW p \in DOMAIN Here \cup Socket, Y!Dispatch(p) PROVE HostInv'
  <2>1. p \in About
    BY DEF About
  <2> QED
    BY <1>2, <1>3, <1>6, <2>1, AskKeeps DEF Y!Dispatch
<1>7. CASE Y!Continue
  <2>1. call \in Calls /\ ~Y!Waiting /\ Y!Ask(call) /\ call.got = <<>>
    BY <1>1, <1>7 DEF Y!Continue, HostInv
  <2>2. pPhase \notin {"off", "ready?"}
    BY <1>7, WaitingHasACall DEF Y!Continue
  <2>3. call.n = sent + 1
    <3>1. call.n \in Nat /\ call.n <= sent + 1 /\ ~(call.n <= sent)
      BY <1>7, <2>1 DEF HostInv, Calls, Y!Continue, Y!Waiting
    <3> QED
      BY <1>1, <3>1
  <2> QED
    BY <2>1, <2>2, <2>3, AskKeeps
<1> QED
  BY <1>4, <1>5, <1>6, <1>7

(* What is left of an answer does not depend on what was loaded, unless it is *)
(* the answer to a list.                                                      *)
LEMMA LoadedAside ==
  ASSUME NEW c, NEW loaded, NEW more, NEW xs, NEW ys, c.op # "list" \/ more = loaded
  PROVE  /\ Leftover(c, loaded, xs, ys) => Leftover(c, more, xs, ys)
         /\ Told(c, loaded) => Told(c, more)
BY DEF Leftover, GoodLine, Told

LEMMA EmitKeeps ==
  ASSUME HostInv, Y!Emit
  PROVE  HostInv'
<1> DEFINE l == Head(todo)
<1>1. /\ HostTyped /\ todo # <<>> /\ child.life = "serving" /\ todo' = Tail(todo) /\ wire' = Append(wire, l)
      /\ child' = IF l.event = "plugin_loaded" THEN [child EXCEPT !.loaded = Append(child.loaded, l.of)]
                  ELSE child
      /\ UNCHANGED <<pPhase, os, alive, handle, call, sent, rows, inbox, late>>
  BY DEF Y!Emit, Y!hostVars, HostInv
<1>2. l \in Lines /\ l = todo[1] /\ Tail(todo) \in Seq(Lines) /\ Len(wire) \in Nat /\ Len(todo) \in Nat
      /\ Len(todo) > 0
  BY <1>1, HeadTailProperties, NothingIsEmpty DEF HostTyped
<1> HIDE DEF l
<1>3. wire' \in Seq(Lines)
  BY <1>1, <1>2, AppendProperties DEF HostTyped
<1>4. child' \in Children /\ child'.life = child.life
  <2>1. l.event = "plugin_loaded" => Append(child.loaded, l.of) \in Seq(DOMAIN Here)
    BY <1>1, <1>2, AppendProperties DEF HostTyped, Children, Lines, AboutPlugins
  <2> QED
    BY <1>1, <2>1 DEF HostTyped, Children
<1>5. HostTyped'
  BY <1>1, <1>2, <1>3, <1>4 DEF HostTyped, Y!TypeOK
<1>6. Y!Waiting' <=> Y!Waiting
  BY <1>1 DEF Y!Waiting
<1>7. ~PipesEmpty /\ pPhase # "ready?" /\ ~Asked /\ pPhase # "off"
  BY <1>1 DEF PipesEmpty, Asked, HostInv, Greeting
<1>8. ASSUME Y!Waiting PROVE Answering'
  <2>1. call \in Calls /\ Answering
    BY <1>7, <1>8, WaitingHasACall DEF HostInv
  <2>2. Leftover(call, child.loaded, Append(wire, Head(todo)), Tail(todo))
    BY <1>1, <2>1, EmitAnswers DEF Answering, HostTyped
  <2>3. l.event \in Y!Before(call.op) \cup Y!Lasts(call.op)
    <3>1. Len(wire) + 1 \in 1..Len(wire) + Len(todo) /\ LineOf(wire, todo, Len(wire) + 1) = l
      BY <1>2 DEF LineOf
    <3> QED
      BY <2>1, <3>1 DEF Answering, Leftover, GoodLine
  <2>4. call.op # "list" \/ child'.loaded = child.loaded
    BY <1>1, <2>3, OpsAnswered
  <2> DEFINE xs == Append(wire, Head(todo))
  <2> DEFINE ys == Tail(todo)
  <2>5. wire' = xs /\ todo' = ys /\ Leftover(call, child.loaded, xs, ys) /\ Told(call, child.loaded)
        /\ inbox' = <<>> /\ call' = call
    BY <1>1, <2>1, <2>2 DEF Answering, l
  <2> HIDE DEF xs, ys
  <2>6. Leftover(call, child'.loaded, xs, ys) /\ Told(call, child'.loaded)
    BY <2>4, <2>5, LoadedAside
  <2>7. Leftover(call, child.loaded, wire, todo)' /\ Told(call, child.loaded)'
    BY <2>5, <2>6 DEF Leftover, Told, GoodLine, LineOf
  <2> QED
    BY <2>5, <2>7 DEF Answering
<1> QED
  BY <1>1, <1>4, <1>5, <1>6, <1>7, <1>8 DEF HostInv

LEMMA ReadKeeps ==
  ASSUME HostInv, NamesSurvive, Y!ReadLine
  PROVE  HostInv'
<1> DEFINE l == Head(wire)
<1>1. /\ HostTyped /\ Y!Waiting /\ wire # <<>> /\ wire' = Tail(wire)
      /\ UNCHANGED <<os, alive, handle, sent, child, inbox, todo, late>>
  BY DEF Y!ReadLine, HostInv
<1>2. call \in Calls /\ sent \in Nat /\ alive /\ pPhase \notin {"off", "ready?"} /\ Answering
      /\ child.life # "started" /\ call # Y!NoRequest
  BY <1>1, WaitingHasACall DEF HostInv, Asked
<1>3. /\ GoodLine(call, child.loaded, l, 1, Len(wire) + Len(todo)) /\ l \in Lines
      /\ Tail(wire) \in Seq(Lines)
      /\ l.event \in Y!Lasts(call.op) => Tail(wire) = <<>> /\ todo = <<>>
      /\ \A h \in Heards : Leftover([call EXCEPT !.got = Append(call.got, h)], child.loaded, Tail(wire), todo)
  BY <1>1, <1>2, ReadAnswers DEF HostTyped, Answering
<1> HIDE DEF l
<1>4. call.op \in Ops /\ l.event \in Y!Before(call.op) \cup Y!Lasts(call.op)
  BY <1>2, <1>3, NoRequestIsNone DEF GoodLine
<1>5. CASE l.event \in Y!Before(call.op)
  <2> DEFINE h == Y!Heard(l)
  <2> DEFINE d == [call EXCEPT !.got = Append(call.got, h)]
  <2>1. call' = d /\ pPhase' = pPhase /\ rows' = rows
    <3>1. l.event \notin Y!Lasts(call.op)
      BY <1>4, <1>5, BeforeIsNotLast
    <3> QED
      BY <1>5, <3>1 DEF Y!ReadLine, l
  <2>2. l.of \in DOMAIN Here /\ l.name = Y!Written(Here[l.of]) /\ l.n = call.n /\ l.n \in Nat
    BY <1>3, <1>4, <1>5, BeforeIsNotLast DEF Lines, GoodLine
  <2>3. h \in Heards /\ h.id = l.of /\ h.name = Here[l.of] /\ h.n = call.n
    BY <2>2 DEF Y!Heard, Heards, NamesSurvive
  <2>4. call.op = "list" => l.of = child.loaded[Len(call.got) + 1]
    BY <1>3, <1>5 DEF GoodLine
  <2> HIDE DEF h
  <2>5. /\ call.got \in Seq(Heards) /\ d.got = Append(call.got, h) /\ d.n = call.n /\ d.op = call.op
        /\ d.got \in Seq(Heards) /\ Len(d.got) = Len(call.got) + 1 /\ Len(call.got) \in Nat
        /\ d.got[Len(call.got) + 1] = h /\ \A i \in 1..Len(call.got) : d.got[i] = call.got[i]
    BY <1>2, <2>3, AppendProperties DEF Calls
  <2>6. d \in Calls
    BY <1>2, <2>5 DEF Calls
  <2>7. Leftover(d, child.loaded, Tail(wire), todo)
    BY <1>3, <2>3
  <2> HIDE DEF d
  <2>8. Told(d, child.loaded)
    <3>1. DOMAIN d.got = 1..Len(call.got) + 1 /\ DOMAIN call.got = 1..Len(call.got)
      BY <2>5
    <3>2. Told(call, child.loaded)
      BY <1>2 DEF Answering
    <3> QED
      BY <2>3, <2>4, <2>5, <3>1, <3>2 DEF Told
  <2>9. HostTyped'
    BY <1>1, <1>3, <2>1, <2>6 DEF HostTyped, Y!TypeOK
  <2>10. Answering'
    BY <1>1, <1>2, <2>1, <2>7, <2>8 DEF Answering, Leftover, Told, GoodLine, LineOf
  <2>11. Y!Waiting' /\ call' # Y!NoRequest /\ call'.n <= sent' + 1
    BY <1>1, <1>2, <2>1, <2>5, <2>6, NoRequestIsNone DEF Y!Waiting, HostInv
  <2> QED
    BY <1>1, <1>2, <2>1, <2>9, <2>10, <2>11 DEF HostInv
<1>6. CASE l.event \in Y!Lasts(call.op)
  <2> DEFINE next(op) == [call EXCEPT !.op = op, !.n = sent + 1, !.got = <<>>]
  <2>1. l.event \notin Y!Before(call.op) /\ PipesEmpty'
    BY <1>1, <1>2, <1>3, <1>4, <1>6, BeforeIsNotLast DEF Answering, PipesEmpty
  <2>2. Y!Answered(call)
    BY <1>6, <2>1 DEF Y!ReadLine, l
  <2>3. call' \in {next("load"), next("list"), next("dispatch"), Y!NoRequest} /\ pPhase' \in {pPhase, "up"}
    BY <2>2 DEF Y!Answered
  <2>4. sent + 1 \in Nat /\ <<>> \in Seq(Heards)
    BY <1>2, NothingIsEmpty
  <2>5. \A op \in Ops : next(op) \in Calls /\ next(op).n = sent + 1 /\ next(op).got = <<>>
    BY <1>2, <2>4 DEF Calls
  <2> HIDE DEF next
  <2>6. call' \in Calls \cup {Y!NoRequest} /\ (call' # Y!NoRequest => call'.n = sent + 1 /\ call'.got = <<>>)
    BY <2>3, <2>5 DEF Ops
  <2>7. ~Y!Waiting'
    BY <1>1, <1>2, <2>6 DEF Y!Waiting
  <2>8. HostTyped'
    BY <1>1, <1>3, <2>3, <2>6 DEF HostTyped, Y!TypeOK
  <2>9. call' # Y!NoRequest => call'.n <= sent' + 1
    BY <1>1, <1>2, <2>6
  <2> QED
    BY <1>1, <1>2, <2>1, <2>3, <2>6, <2>7, <2>8, <2>9 DEF HostInv
<1> QED
  BY <1>4, <1>5, <1>6

(* The child takes a request, and makes the lines of its answer.              *)
LEMMA ServedLines ==
  ASSUME HostInv, Y!ServeNext
  PROVE  /\ todo' \in Seq(Lines) /\ inbox # <<>> /\ inbox' = Tail(inbox)
         /\ child' \in Children /\ child'.life = child.life /\ child'.loaded = child.loaded
         /\ UNCHANGED <<pPhase, os, alive, handle, call, sent, rows, wire, late>>
         /\ \A c \in Calls : c.op = Head(inbox).op /\ c.n = Head(inbox).n /\ c.got = <<>> =>
              Leftover(c, child.loaded, <<>>, todo')
<1> DEFINE r == Head(inbox)
<1>1. HostTyped /\ inbox # <<>>
  BY DEF HostInv, Y!ServeNext
<1>2. r \in Asks
  BY <1>1 DEF HostTyped
<1>3. child \in Children /\ child.loaded \in Seq(DOMAIN Here)
  BY <1>1 DEF HostTyped, Children
<1>4. ASSUME NEW xs \in Seq(Lines), NEW event \in Events \ AboutPlugins, event \in Y!Lasts(r.op),
             \A i \in 1..Len(xs) : /\ xs[i].n = r.n /\ xs[i].event \in Y!Before(r.op)
                                   /\ r.op = "list" => xs[i].of = child.loaded[i]
      PROVE  /\ xs \o <<Y!Line(event, Y!NoRequest, r.n)>> \in Seq(Lines)
             /\ \A c \in Calls : c.op = r.op /\ c.n = r.n /\ c.got = <<>> =>
                  Leftover(c, child.loaded, <<>>, xs \o <<Y!Line(event, Y!NoRequest, r.n)>>)
  <2> DEFINE l == Y!Line(event, Y!NoRequest, r.n)
  <2>1. l \in Lines /\ l.n = r.n /\ l.event = event
    BY <1>2, LineIsOne DEF Asks, About
  <2> HIDE DEF l, r
  <2>2. xs \o <<l>> \in Seq(Lines)
    <3>1. <<l>> \in Seq(Lines)
      BY <2>1
    <3> QED
      BY <3>1, ConcatProperties
  <2>3. ASSUME NEW c \in Calls, c.op = r.op, c.n = r.n, c.got = <<>>
        PROVE  Leftover(c, child.loaded, <<>>, xs \o <<l>>)
    BY <1>4, <2>1, <2>3, AnswersOfMany
  <2> QED
    BY <2>2, <2>3 DEF l
<1>5. ASSUME NEW event \in Events \ AboutPlugins, event \in Y!Lasts(r.op)
      PROVE  /\ <<Y!Line(event, Y!NoRequest, r.n)>> \in Seq(Lines)
             /\ \A c \in Calls : c.op = r.op /\ c.n = r.n /\ c.got = <<>> =>
                  Leftover(c, child.loaded, <<>>, <<Y!Line(event, Y!NoRequest, r.n)>>)
  <2> DEFINE l == Y!Line(event, Y!NoRequest, r.n)
  <2>1. l \in Lines /\ l.n = r.n /\ l.event = event
    BY <1>2, LineIsOne DEF Asks, About
  <2> HIDE DEF l, r
  <2>2. <<l>> \in Seq(Lines)
    BY <2>1
  <2>3. ASSUME NEW c \in Calls, c.op = r.op, c.n = r.n PROVE Leftover(c, child.loaded, <<>>, <<l>>)
    BY <1>5, <2>1, <2>3, AnswersOfOne
  <2> QED
    BY <2>2, <2>3 DEF l
<1>6. ASSUME NEW lines \in Seq(Lines), Y!Serve(r, lines),
             child' \in Children, child'.life = child.life, child'.loaded = child.loaded,
             \A c \in Calls : c.op = r.op /\ c.n = r.n /\ c.got = <<>> => Leftover(c, child.loaded, <<>>, lines)
      PROVE  /\ todo' \in Seq(Lines) /\ inbox # <<>> /\ inbox' = Tail(inbox)
             /\ child' \in Children /\ child'.life = child.life /\ child'.loaded = child.loaded
             /\ UNCHANGED <<pPhase, os, alive, handle, call, sent, rows, wire, late>>
             /\ \A c \in Calls : c.op = r.op /\ c.n = r.n /\ c.got = <<>> =>
                  Leftover(c, child.loaded, <<>>, todo')
  <2>1. todo' = lines /\ inbox' = Tail(inbox)
        /\ UNCHANGED <<pPhase, os, alive, handle, call, sent, rows, wire, late>>
    BY <1>6 DEF Y!Serve, Y!hostVars
  <2> HIDE DEF r
  <2> QED
    BY <1>1, <1>6, <2>1
<1>7. CASE Y!AddSearchPath(r)
  <2>1. /\ r.op = "path" /\ child' = [child EXCEPT !.searches = TRUE]
        /\ Y!Serve(r, <<Y!Line("path_added", Y!NoRequest, r.n)>>)
    BY <1>7 DEF Y!AddSearchPath
  <2>2. child' \in Children /\ child'.life = child.life /\ child'.loaded = child.loaded
    BY <1>3, <2>1 DEF Children
  <2>3. "path_added" \in Y!Lasts(r.op) /\ "path_added" \in Events \ AboutPlugins
    BY <2>1, OpsAnswered DEF Events, AboutPlugins
  <2> DEFINE lines == <<Y!Line("path_added", Y!NoRequest, r.n)>>
  <2>4. Y!Serve(r, lines)
    BY <2>1
  <2> HIDE DEF r
  <2>5. lines \in Seq(Lines) /\ \A c \in Calls : c.op = r.op /\ c.n = r.n /\ c.got = <<>> =>
          Leftover(c, child.loaded, <<>>, lines)
    BY <1>5, <2>3
  <2> HIDE DEF lines
  <2>6. /\ todo' \in Seq(Lines) /\ inbox # <<>> /\ inbox' = Tail(inbox)
        /\ UNCHANGED <<pPhase, os, alive, handle, call, sent, rows, wire, late>>
        /\ \A c \in Calls : c.op = r.op /\ c.n = r.n /\ c.got = <<>> =>
             Leftover(c, child.loaded, <<>>, todo')
    BY <1>6, <2>2, <2>4, <2>5
  <2> QED
    BY <2>2, <2>6 DEF r
<1>8. CASE Y!DispatchTo(r)
  <2>1. PICK event \in {"dispatched", "dispatch_error"} : Y!Serve(r, <<Y!Line(event, Y!NoRequest, r.n)>>)
    BY <1>8 DEF Y!DispatchTo
  <2>2. r.op = "dispatch" /\ child' = child
    BY <1>8 DEF Y!DispatchTo
  <2>3. event \in Y!Lasts(r.op) /\ event \in Events \ AboutPlugins
    BY <2>2, OpsAnswered DEF Events, AboutPlugins
  <2> DEFINE lines == <<Y!Line(event, Y!NoRequest, r.n)>>
  <2>4. Y!Serve(r, lines)
    BY <2>1
  <2> HIDE DEF r
  <2>5. lines \in Seq(Lines) /\ \A c \in Calls : c.op = r.op /\ c.n = r.n /\ c.got = <<>> =>
          Leftover(c, child.loaded, <<>>, lines)
    BY <1>5, <2>3
  <2> HIDE DEF lines
  <2>6. child' \in Children /\ child'.life = child.life /\ child'.loaded = child.loaded
    BY <1>3, <2>2
  <2>7. /\ todo' \in Seq(Lines) /\ inbox # <<>> /\ inbox' = Tail(inbox)
        /\ UNCHANGED <<pPhase, os, alive, handle, call, sent, rows, wire, late>>
        /\ \A c \in Calls : c.op = r.op /\ c.n = r.n /\ c.got = <<>> =>
             Leftover(c, child.loaded, <<>>, todo')
    BY <1>6, <2>4, <2>5, <2>6
  <2> QED
    BY <2>6, <2>7 DEF r
<1>9. CASE Y!ListPlugins(r)
  <2> DEFINE xs == [i \in DOMAIN child.loaded |-> Y!Line("plugin", child.loaded[i], r.n)]
  <2>1. r.op = "list" /\ child' = child /\ Y!Serve(r, xs \o <<Y!Line("plugins_complete", Y!NoRequest, r.n)>>)
    BY <1>9 DEF Y!ListPlugins
  <2>2. Len(child.loaded) \in Nat /\ DOMAIN child.loaded = 1..Len(child.loaded)
        /\ \A i \in 1..Len(child.loaded) : child.loaded[i] \in DOMAIN Here
    BY <1>3
  <2>3. ASSUME NEW i \in 1..Len(child.loaded)
        PROVE  /\ xs[i] \in Lines /\ xs[i].n = r.n /\ xs[i].event = "plugin"
               /\ xs[i].of = child.loaded[i]
    <3>1. xs[i] = Y!Line("plugin", child.loaded[i], r.n)
      BY <2>2
    <3>2. child.loaded[i] \in DOMAIN Here /\ child.loaded[i] \in About /\ r.n \in Nat /\ "plugin" \in Events
      BY <1>2, <2>2 DEF Asks, About, Events, AboutPlugins
    <3> HIDE DEF xs, r
    <3> QED
      BY <3>1, <3>2, LineIsOne
  <2>4. xs = [i \in 1..Len(child.loaded) |-> xs[i]]
    BY <2>2
  <2> HIDE DEF xs
  <2>5. xs \in [1..Len(child.loaded) -> Lines]
    BY <2>3, <2>4
  <2>6. xs \in Seq(Lines) /\ Len(xs) = Len(child.loaded)
    BY <2>2, <2>5
  <2>7. /\ "plugins_complete" \in Y!Lasts(r.op) /\ "plugins_complete" \in Events \ AboutPlugins
        /\ "plugin" \in Y!Before(r.op)
    BY <2>1, OpsAnswered DEF Events, AboutPlugins
  <2> DEFINE lines == xs \o <<Y!Line("plugins_complete", Y!NoRequest, r.n)>>
  <2>8. Y!Serve(r, lines)
    BY <2>1 DEF lines
  <2> HIDE DEF r
  <2>9. lines \in Seq(Lines) /\ \A c \in Calls : c.op = r.op /\ c.n = r.n /\ c.got = <<>> =>
          Leftover(c, child.loaded, <<>>, lines)
    BY <1>4, <2>1, <2>3, <2>6, <2>7
  <2> HIDE DEF lines
  <2>10. child' \in Children /\ child'.life = child.life /\ child'.loaded = child.loaded
    BY <1>3, <2>1
  <2>11. /\ todo' \in Seq(Lines) /\ inbox # <<>> /\ inbox' = Tail(inbox)
        /\ UNCHANGED <<pPhase, os, alive, handle, call, sent, rows, wire, late>>
        /\ \A c \in Calls : c.op = r.op /\ c.n = r.n /\ c.got = <<>> =>
             Leftover(c, child.loaded, <<>>, todo')
    BY <1>6, <2>8, <2>9, <2>10
  <2> QED
    BY <2>10, <2>11 DEF r
<1>10. CASE Y!LoadAll(r)
  <2> DEFINE found == IF child.searches THEN Y!SetToSeq(DOMAIN Here) ELSE <<>>
  <2> DEFINE line(p) == Y!Line(IF p \in Broken THEN "plugin_error" ELSE "plugin_loaded", p, r.n)
  <2> DEFINE xs == [i \in DOMAIN found |-> line(found[i])]
  <2>1. r.op = "load" /\ child' = child /\ Y!Serve(r, xs \o <<Y!Line("load_complete", Y!NoRequest, r.n)>>)
    BY <1>10 DEF Y!LoadAll
  <2>2. found \in Seq(DOMAIN Here)
    BY PluginsInOrder, NothingIsEmpty
  <2> HIDE DEF found
  <2>3. Len(found) \in Nat /\ DOMAIN found = 1..Len(found)
        /\ \A i \in 1..Len(found) : found[i] \in DOMAIN Here
    BY <2>2
  <2>4. ASSUME NEW p \in DOMAIN Here
        PROVE  /\ line(p) \in Lines /\ line(p).n = r.n
               /\ line(p).event \in {"plugin_error", "plugin_loaded"}
    <3> DEFINE event == IF p \in Broken THEN "plugin_error" ELSE "plugin_loaded"
    <3>1. event \in {"plugin_error", "plugin_loaded"}
      OBVIOUS
    <3>2. p \in About /\ r.n \in Nat /\ event \in Events
      BY <1>2, <3>1 DEF Asks, About, Events, AboutPlugins
    <3> HIDE DEF r, event
    <3>3. /\ Y!Line(event, p, r.n) \in Lines /\ Y!Line(event, p, r.n).n = r.n
          /\ Y!Line(event, p, r.n).event = event
      BY <3>2, LineIsOne
    <3> QED
      BY <3>1, <3>3 DEF event
  <2> HIDE DEF line
  <2>5. xs \in [1..Len(found) -> Lines] /\ \A i \in 1..Len(found) : xs[i] = line(found[i])
    BY <2>3, <2>4
  <2> HIDE DEF xs
  <2>6. xs \in Seq(Lines) /\ Len(xs) = Len(found)
    BY <2>3, <2>5
  <2>7. /\ "load_complete" \in Y!Lasts(r.op) /\ "load_complete" \in Events \ AboutPlugins
        /\ {"plugin_error", "plugin_loaded"} \subseteq Y!Before(r.op) /\ r.op # "list"
    BY <2>1, OpsAnswered DEF Events, AboutPlugins
  <2>8. \A i \in 1..Len(xs) : xs[i].n = r.n /\ xs[i].event \in Y!Before(r.op)
    BY <2>3, <2>4, <2>5, <2>6, <2>7
  <2> DEFINE lines == xs \o <<Y!Line("load_complete", Y!NoRequest, r.n)>>
  <2>9. Y!Serve(r, lines)
    BY <2>1 DEF lines
  <2> HIDE DEF r
  <2>10. lines \in Seq(Lines) /\ \A c \in Calls : c.op = r.op /\ c.n = r.n /\ c.got = <<>> =>
          Leftover(c, child.loaded, <<>>, lines)
    BY <1>4, <2>6, <2>7, <2>8
  <2> HIDE DEF lines
  <2>11. child' \in Children /\ child'.life = child.life /\ child'.loaded = child.loaded
    BY <1>3, <2>1
  <2>12. /\ todo' \in Seq(Lines) /\ inbox # <<>> /\ inbox' = Tail(inbox)
        /\ UNCHANGED <<pPhase, os, alive, handle, call, sent, rows, wire, late>>
        /\ \A c \in Calls : c.op = r.op /\ c.n = r.n /\ c.got = <<>> =>
             Leftover(c, child.loaded, <<>>, todo')
    BY <1>6, <2>9, <2>10, <2>11
  <2> QED
    BY <2>11, <2>12 DEF r
<1> QED
  BY <1>7, <1>8, <1>9, <1>10 DEF Y!ServeNext

LEMMA ServeKeeps ==
  ASSUME HostInv, Y!ServeNext
  PROVE  HostInv'
<1>1. /\ HostTyped /\ inbox # <<>> /\ child.life = "serving" /\ todo = <<>>
      /\ todo' \in Seq(Lines) /\ inbox' = Tail(inbox)
      /\ child' \in Children /\ child'.life = child.life /\ child'.loaded = child.loaded
      /\ UNCHANGED <<pPhase, os, alive, handle, call, sent, rows, wire, late>>
      /\ \A c \in Calls : c.op = Head(inbox).op /\ c.n = Head(inbox).n /\ c.got = <<>> =>
           Leftover(c, child.loaded, <<>>, todo')
  BY ServedLines DEF HostInv, Y!ServeNext
<1>2. inbox' \in Seq(Asks)
  BY <1>1, HeadTailProperties DEF HostTyped
<1>3. HostTyped'
  BY <1>1, <1>2 DEF HostTyped, Y!TypeOK
<1>4. Y!Waiting' <=> Y!Waiting
  BY <1>1 DEF Y!Waiting
<1>5. ~PipesEmpty /\ pPhase \notin {"off", "ready?"} /\ ~Answering
  BY <1>1 DEF HostInv, PipesEmpty, Greeting, Answering
<1>6. ASSUME Y!Waiting PROVE Answering'
  <2> DEFINE r == [op |-> call.op, of |-> call.of, n |-> call.n]
  <2>1. call \in Calls /\ inbox = <<r>> /\ wire = <<>> /\ call.got = <<>>
    BY <1>5, <1>6, WaitingHasACall DEF HostInv, Asked
  <2>2. r.op = call.op /\ r.n = call.n
    OBVIOUS
  <2> HIDE DEF r
  <2>3. Head(inbox) = r /\ Tail(inbox) = <<>>
    <3>1. Head(<<r>>) = r /\ Tail(<<r>>) = <<>>
      OBVIOUS
    <3> QED
      BY <2>1, <3>1
  <2>4. Leftover(call, child.loaded, <<>>, todo')
    BY <1>1, <2>1, <2>2, <2>3
  <2>5. inbox' = <<>> /\ wire' = <<>> /\ call' = call /\ child'.loaded = child.loaded
    BY <1>1, <2>1, <2>3
  <2>6. Leftover(call, child.loaded, wire, todo)'
    BY <2>4, <2>5 DEF Leftover, GoodLine, LineOf
  <2>7. Told(call, child.loaded)'
    <3> DEFINE g == call.got
    <3>1. g = <<>>
      BY <2>1
    <3>2. DOMAIN g = {}
      BY <3>1
    <3> QED
      BY <2>5, <3>2 DEF Told
  <2> QED
    BY <2>5, <2>6, <2>7 DEF Answering
<1> QED
  BY <1>1, <1>3, <1>4, <1>5, <1>6 DEF HostInv

LEMMA SpawnKeeps ==
  ASSUME HostInv, Y!Spawn \/ Y!SpawnOnWindows
  PROVE  HostInv'
<1>1. /\ HostTyped /\ pPhase = "off" /\ call = Y!NoRequest /\ PipesEmpty
      /\ (Y!Born \/ Y!NotBorn)
      /\ UNCHANGED <<os, call, sent, rows, inbox, wire, todo, late>>
  BY DEF HostInv, Y!Spawn, Y!SpawnOnWindows, Y!pipeVars
<1>2. ~alive /\ ~Y!Waiting /\ ~Y!Waiting' /\ child.life # "started"
  BY <1>1 DEF HostInv, Y!Waiting
<1>3. CASE Y!Born
  <2>1. child' \in Children /\ child'.life = "started" /\ alive' = TRUE /\ handle' = TRUE /\ pPhase' = "ready?"
    BY <1>3, NothingIsEmpty DEF Y!Born, Y!NoOne, Children
  <2>2. HostTyped'
    BY <1>1, <2>1 DEF HostTyped, Y!TypeOK
  <2> QED
    BY <1>1, <1>2, <2>1, <2>2 DEF HostInv, Greeting, PipesEmpty
<1>4. CASE Y!NotBorn
  <2>1. HostTyped'
    BY <1>1, <1>4 DEF HostTyped, Y!TypeOK, Y!NotBorn
  <2> QED
    BY <1>1, <1>2, <1>4, <2>1 DEF HostInv, Y!NotBorn, PipesEmpty
<1> QED
  BY <1>1, <1>3, <1>4

LEMMA KilledIsTyped ==
  ASSUME HostInv, Y!Killed
  PROVE  child' \in Children /\ child'.life = "reaped" /\ ~alive' /\ ~handle'
         /\ alive' \in BOOLEAN /\ handle' \in BOOLEAN
BY DEF HostInv, HostTyped, Children, Y!Killed

LEMMA HandshakeKeeps ==
  ASSUME HostInv, Y!Handshake
  PROVE  HostInv'
<1>1. /\ HostTyped /\ pPhase = "ready?" /\ Greeting /\ call = Y!NoRequest
      /\ UNCHANGED <<os, call, sent, rows, inbox, todo>>
  <2>1. pPhase = "ready?" /\ UNCHANGED <<os, call, sent, rows, inbox, todo>>
    BY DEF Y!Handshake
  <2> QED
    BY <2>1 DEF HostInv, Greeting
<1>2. wire' \in Seq(Lines) /\ late' \in 0..MaxLate
  <2>1. wire # <<>> => Tail(wire) \in Seq(Lines)
    BY <1>1, HeadTailProperties DEF HostTyped
  <2>2. late < MaxLate => late + 1 \in 0..MaxLate
    BY <1>1, HostAssumption DEF HostTyped, Y!TypeOK
  <2> QED
    BY <1>1, <2>1, <2>2 DEF Y!Handshake, HostTyped, Y!TypeOK
<1>3. CASE Y!Killed /\ pPhase' = "down"
  <2>1. HostTyped'
    BY <1>1, <1>2, <1>3, KilledIsTyped DEF HostTyped, Y!TypeOK
  <2> QED
    BY <1>1, <1>3, <2>1, KilledIsTyped, HungUp
<1>4. CASE wire # <<>> /\ wire' = Tail(wire) /\ pPhase' = "start" /\ UNCHANGED <<child, alive, handle>>
  <2>1. HostTyped'
    BY <1>1, <1>2, <1>4 DEF HostTyped, Y!TypeOK
  <2>2. PipesEmpty' /\ child.life # "started"
    <3>1. Len(wire) <= 1 /\ child.life # "started" /\ inbox = <<>> /\ todo = <<>>
      BY <1>1, <1>4 DEF Greeting
    <3>2. Len(wire) > 0 /\ Len(wire) \in Nat
      BY <1>1, <1>4, NothingIsEmpty DEF HostTyped
    <3>3. Tail(wire) \in Seq(Lines) /\ Len(Tail(wire)) = Len(wire) - 1
      BY <1>1, <1>4, HeadTailProperties DEF HostTyped
    <3>4. Tail(wire) = <<>>
      BY <3>1, <3>2, <3>3, NothingIsEmpty
    <3> QED
      BY <1>1, <1>4, <3>1, <3>4 DEF PipesEmpty
  <2>3. ~Y!Waiting'
    BY <1>1 DEF Y!Waiting
  <2> QED
    BY <1>1, <1>4, <2>1, <2>2, <2>3 DEF HostInv
<1> QED
  BY <1>3, <1>4 DEF Y!Handshake

LEMMA NoAnswerKeeps ==
  ASSUME HostInv, Y!Hangup \/ Y!Timeout
  PROVE  HostInv'
<1>1. /\ HostTyped /\ Y!Waiting /\ alive' = FALSE /\ Y!Refused(call)
      /\ UNCHANGED <<os, handle, sent, child, inbox, wire, todo>>
  BY DEF HostInv, Y!Hangup, Y!Timeout, Y!pipeVars
<1>2. pPhase \notin {"off", "ready?"} /\ child.life # "started"
  BY <1>1 DEF HostInv
<1>3. call' = Y!NoRequest /\ pPhase' \in {pPhase, "leaving"}
  BY <1>1 DEF Y!Refused
<1>4. late' \in 0..MaxLate
  BY <1>1, HostAssumption DEF HostTyped, Y!TypeOK, Y!Hangup, Y!Timeout
<1>5. HostTyped'
  BY <1>1, <1>2, <1>3, <1>4 DEF HostTyped, Y!TypeOK
<1> QED
  BY <1>1, <1>2, <1>3, <1>5, HungUp

LEMMA DeathKeeps ==
  ASSUME HostInv, Y!IsAlive \/ Y!Destroy
  PROVE  HostInv'
<1>1. HostTyped /\ call = Y!NoRequest /\ call' = call
  BY DEF HostInv, Y!IsAlive, Y!Destroy
<1>2. CASE Y!IsAlive
  <2>1. /\ Y!Killed /\ alive /\ child.life = "exited"
        /\ UNCHANGED <<pPhase, os, call, sent, rows, inbox, wire, todo, late>>
    BY <1>2 DEF Y!IsAlive, Y!pipeVars
  <2>2. HostTyped'
    BY <1>1, <2>1, KilledIsTyped DEF HostTyped, Y!TypeOK
  <2>3. CASE pPhase = "ready?"
    <3>1. Greeting'
      BY <1>1, <2>1, <2>3, KilledIsTyped DEF HostInv, Greeting
    <3> QED
      BY <1>1, <2>1, <2>2, <2>3, <3>1, KilledIsTyped DEF HostInv, Y!Waiting
  <2>4. CASE pPhase # "ready?"
    BY <1>1, <2>1, <2>2, <2>4, KilledIsTyped, HungUp DEF HostInv
  <2> QED
    BY <2>3, <2>4
<1>3. CASE Y!Destroy
  <2>1. /\ pPhase \in {"up", "leaving"} /\ pPhase' = "down" /\ wire' = <<>>
        /\ IF alive /\ handle THEN Y!Killed ELSE UNCHANGED <<alive, handle, child>>
        /\ UNCHANGED <<os, call, sent, rows, inbox, todo, late>>
    BY <1>3 DEF Y!Destroy
  <2>2. /\ child' \in Children /\ child'.life \in {child.life, "reaped"} /\ alive' = FALSE
        /\ handle' \in BOOLEAN /\ child.life # "started"
    <3>1. CASE alive /\ handle
      BY <2>1, <3>1, KilledIsTyped DEF HostInv
    <3>2. CASE ~(alive /\ handle)
      BY <2>1, <3>2 DEF HostInv, HostTyped, Y!TypeOK
    <3> QED
      BY <3>1, <3>2
  <2>3. HostTyped'
    BY <1>1, <2>1, <2>2, NothingIsEmpty DEF HostTyped, Y!TypeOK, Children
  <2> QED
    BY <1>1, <2>1, <2>2, <2>3, HungUp
<1> QED
  BY <1>2, <1>3

LEMMA ChildStartsKeeps ==
  ASSUME HostInv, Y!ChildStarts
  PROVE  HostInv'
<1>1. /\ HostTyped /\ child.life = "started" /\ pPhase = "ready?" /\ wire = <<>> /\ inbox = <<>> /\ todo = <<>>
      /\ call = Y!NoRequest
      /\ UNCHANGED <<pPhase, os, alive, handle, call, sent, rows, inbox, todo, late>>
  BY DEF HostInv, Greeting, Y!ChildStarts, Y!hostVars
<1>2. PICK event \in {"ready", "spawn_error"}, life \in {"serving", "exited"} :
        wire' = Append(wire, Y!Line(event, Y!NoRequest, 0)) /\ child' = [child EXCEPT !.life = life]
  BY DEF Y!ChildStarts
<1>3. Y!Line(event, Y!NoRequest, 0) \in Lines
  BY LineIsOne DEF Events, About, AboutPlugins
<1> DEFINE l == Y!Line(event, Y!NoRequest, 0)
<1> HIDE DEF l
<1>4. wire' \in Seq(Lines) /\ Len(wire') <= 1
  <2>1. wire' = <<l>> /\ l \in Lines
    BY <1>1, <1>2, <1>3 DEF l
  <2>2. <<l>> \in Seq(Lines) /\ Len(<<l>>) = 1
    BY <2>1
  <2> QED
    BY <2>1, <2>2
<1>5. child' \in Children /\ child'.life \notin {"started"}
  BY <1>1, <1>2 DEF HostTyped, Children
<1>6. HostTyped'
  BY <1>1, <1>4, <1>5 DEF HostTyped, Y!TypeOK, Children
<1> QED
  BY <1>1, <1>4, <1>5, <1>6 DEF HostInv, Greeting, Y!Waiting

LEMMA ChildEndsKeeps ==
  ASSUME HostInv, Y!ChildEnds
  PROVE  HostInv'
<1>1. /\ HostTyped /\ child.life = "serving" /\ child' = [child EXCEPT !.life = "exited"] /\ todo' = <<>>
      /\ UNCHANGED <<pPhase, os, alive, handle, call, sent, rows, inbox, wire>>
  BY DEF HostInv, Y!ChildEnds, Y!hostVars
<1>2. late' \in 0..MaxLate
  BY <1>1, HostAssumption DEF HostTyped, Y!TypeOK, Y!ChildEnds
<1>3. child' \in Children /\ child'.life = "exited" /\ child'.loaded = child.loaded
  BY <1>1 DEF HostTyped, Children
<1>4. HostTyped'
  BY <1>1, <1>2, <1>3, NothingIsEmpty DEF HostTyped, Y!TypeOK
<1>5. (Y!Waiting' <=> Y!Waiting) /\ (PipesEmpty => PipesEmpty') /\ (pPhase = "ready?" => Greeting')
  BY <1>1, <1>3 DEF Y!Waiting, PipesEmpty, HostInv, Greeting
<1>6. ASSUME Y!Waiting, Asked PROVE Asked'
  BY <1>1, <1>6 DEF Asked
<1>7. ASSUME Y!Waiting, Answering PROVE Answering'
  <2>1. Leftover(call, child.loaded, wire, <<>>) /\ Told(call, child.loaded)
    BY <1>1, <1>7, LostAnswers DEF Answering, HostTyped
  <2>2. call' = call /\ wire' = wire /\ todo' = <<>> /\ child'.loaded = child.loaded /\ inbox' = <<>>
    BY <1>1, <1>3, <1>7 DEF Answering
  <2>3. Leftover(call, child.loaded, wire, todo)' /\ Told(call, child.loaded)'
    BY <2>1, <2>2 DEF Leftover, Told, GoodLine, LineOf
  <2> QED
    BY <2>2, <2>3 DEF Answering
<1> QED
  BY <1>1, <1>3, <1>4, <1>5, <1>6, <1>7 DEF HostInv

LEMMA HostStep ==
  ASSUME HostInv, NamesSurvive, [Y!Next]_(Y!vars)
  PROVE  HostInv'
<1>1. CASE UNCHANGED Y!vars
  <2>1. UNCHANGED <<pPhase, os, alive, handle, call, sent, rows, child, inbox, wire, todo, late>>
    BY <1>1 DEF Y!vars, Y!hostVars, Y!pipeVars
  <2> QED
    BY <2>1 DEF HostInv, HostTyped, Y!TypeOK, Y!Waiting, PipesEmpty, Greeting, Asked, Answering, Leftover, Told,
                GoodLine, LineOf
<1>2. CASE Y!RefreshAlone
  <2>1. UNCHANGED <<pPhase, os, alive, handle, call, sent, child, inbox, wire, todo, late>>
    BY <1>2 DEF Y!RefreshAlone, Y!pipeVars
  <2> QED
    BY <2>1 DEF HostInv, HostTyped, Y!TypeOK, Y!Waiting, PipesEmpty, Greeting, Asked, Answering, Leftover, Told,
                GoodLine, LineOf
<1> QED
  BY <1>1, <1>2, ServeKeeps, SpawnKeeps, HandshakeKeeps, NoAnswerKeeps, DeathKeeps, ChildStartsKeeps,
     ChildEndsKeeps, EmitKeeps, ReadKeeps, CallsBegin DEF Y!Next

LEMMA HostInit == Y!Init => HostInv
<1> SUFFICES ASSUME Y!Init PROVE HostInv
  OBVIOUS
<1>1. Y!NoOne \in Children
  BY NothingIsEmpty DEF Y!NoOne, Children
<1>2. HostTyped
  <2>1. Y!TypeOK
    <3>1. alive \in BOOLEAN /\ handle \in BOOLEAN /\ (alive => handle)
      BY DEF Y!Init
    <3>2. 0 \in 0..MaxCalls /\ 0 \in 0..MaxLate
      BY HostAssumption
    <3>3. Y!NoOne.life = "none"
      BY DEF Y!NoOne
    <3> QED
      BY <3>1, <3>2, <3>3 DEF Y!Init, Y!TypeOK
  <2>2. inbox \in Seq(Asks) /\ wire \in Seq(Lines) /\ todo \in Seq(Lines)
    BY NothingIsEmpty DEF Y!Init
  <2> QED
    BY <1>1, <2>1, <2>2 DEF Y!Init, HostTyped
<1> QED
  BY <1>2 DEF Y!Init, HostInv, Y!Waiting, PipesEmpty, Y!NoOne

(* What a caller of the Python host is told is the child's answer to its own  *)
(* request, whoever asks, however late the child is and whenever it dies:     *)
(* sendCommandLocked and readEventLineLocked of OutOfProcessPluginHost leave  *)
(* no line of an earlier request where a later one could read it.  Of the     *)
(* names it takes those that cross the line unharmed.                         *)
THEOREM AnswersStayOfTheirCall == ASSUME NamesSurvive PROVE Y!Spec => []AnswersAreOfTheirCall
<1>1. HostInv => AnswersAreOfTheirCall
  <2> SUFFICES ASSUME HostInv PROVE AnswersAreOfTheirCall
    OBVIOUS
  <2>1. Y!TypeOK
    BY DEF HostInv, HostTyped
  <2>2. ASSUME Y!Waiting, NEW i \in DOMAIN call.got
        PROVE  /\ call.got[i].n = call.n /\ call.got[i].name = Here[call.got[i].id]
               /\ call.op = "list" => call.got[i].id = child.loaded[i]
    <3>1. CASE Asked
      <4> DEFINE g == call.got
      <4>1. g = <<>>
        BY <3>1 DEF Asked
      <4>2. DOMAIN g = {}
        BY <4>1
      <4> QED
        BY <2>2, <4>2
    <3>2. CASE Answering
      BY <2>2, <3>2 DEF Answering, Told
    <3> QED
      BY <2>2, <3>1, <3>2 DEF HostInv
  <2> QED
    BY <2>1, <2>2 DEF AnswersAreOfTheirCall, Y!AnswersAreOfTheirCall
<1>2. HostInv /\ [Y!Next]_(Y!vars) => HostInv'
  BY HostStep
<1> QED
  BY <1>1, <1>2, HostInit, PTL DEF Y!Spec

==============================================================================
