------------------------------ MODULE Broadcast ------------------------------
(***************************************************************************)
(* What an event bus promises: a publication is owed to everybody          *)
(* subscribed at one instant of the publish call, whoever joins or leaves  *)
(* afterwards, and each of them gets it at most once.                      *)
(***************************************************************************)
CONSTANTS
  Tokens,       (* subscriptions                                            *)
  Publications  (* slots for publications under way                         *)

VARIABLES
  members,      (* the tokens subscribed                                    *)
  owed,         (* the tokens a publication has yet to reach                *)
  failed        (* the publication ended with an exception                  *)

vars == <<members, owed, failed>>

TypeOK ==
  /\ members \subseteq Tokens
  /\ owed \in [Publications -> SUBSET Tokens]
  /\ failed \in [Publications -> BOOLEAN]

Init ==
  /\ members = {}
  /\ owed = [p \in Publications |-> {}]
  /\ failed = [p \in Publications |-> FALSE]

Join(t) ==
  /\ members' = members \cup {t}
  /\ UNCHANGED <<owed, failed>>

(* Leaving does not take back what is owed.                                *)
Leave(t) ==
  /\ members' = members \ {t}
  /\ UNCHANGED <<owed, failed>>

Publish(p) ==
  /\ owed[p] = {}
  /\ owed' = [owed EXCEPT ![p] = members]
  /\ failed' = [failed EXCEPT ![p] = FALSE]
  /\ UNCHANGED members

Deliver(p, t) ==
  /\ t \in owed[p]
  /\ owed' = [owed EXCEPT ![p] = @ \ {t}]
  /\ UNCHANGED <<members, failed>>

(* Only a handler's exception ends a publication early.                    *)
Fail(p) ==
  /\ owed' = [owed EXCEPT ![p] = {}]
  /\ failed' = [failed EXCEPT ![p] = TRUE]
  /\ UNCHANGED members

Next ==
  \/ \E t \in Tokens : Join(t) \/ Leave(t)
  \/ \E p \in Publications : Publish(p) \/ Fail(p) \/ \E t \in Tokens : Deliver(p, t)

Spec == Init /\ [][Next]_vars
=============================================================================
