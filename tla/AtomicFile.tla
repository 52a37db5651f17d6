----------------------------- MODULE AtomicFile -----------------------------
(* What writing a profile promises its callers: the file holds one whole      *)
(* document at any time, a write replaces it at once, and a power loss may    *)
(* bring back an earlier document, but none from before the last one that was *)
(* made durable.                                                              *)
CONSTANTS Documents, Missing
VARIABLES content, recoverable

Init == content = Missing /\ recoverable = {Missing}
Replace(d) == content' = d /\ recoverable' = recoverable \cup {d}
MakeDurable == recoverable' = {content} /\ UNCHANGED content
PowerLoss == content' \in recoverable /\ recoverable' = {content'}
Next == (\E d \in Documents : Replace(d)) \/ MakeDurable \/ PowerLoss
Spec == Init /\ [][Next]_<<content, recoverable>>
=============================================================================
