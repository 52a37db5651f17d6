----------------------------- MODULE MCDockInput ----------------------------
(* Two profiles and a dock with one key and one dial.  The second profile    *)
(* has a Toggle Action on either, and another under the key of its folder    *)
(* page.  The chains have a post-step delay, a sleep, a Multi Action that    *)
(* runs an inner chain with a delay of its own, folders and a profile switch *)
EXTENDS DockInput
CONSTANTS A, B, k1, run, go, f, root, none

MCArgs == {run, go, f, root}
External(d) == [kind |-> "external", arg |-> none, delay |-> d]
Plugin(a)   == [kind |-> "plugin", arg |-> a, delay |-> FALSE]
Nap         == [kind |-> "sleep", arg |-> none, delay |-> TRUE]

MCChains == {"macro", "inner", "folder", "back", "go"}
MCChain ==
    [c \in MCChains |->
        CASE c = "macro"  -> <<Plugin(run), Nap, External(FALSE)>>
          [] c = "inner"  -> <<External(TRUE), External(FALSE)>>
          [] c = "folder" -> <<[kind |-> "open", arg |-> f, delay |-> FALSE], External(FALSE)>>
          [] c = "back"   -> <<[kind |-> "back", arg |-> none, delay |-> FALSE]>>
          [] c = "go"     -> <<Plugin(go), External(FALSE)>>]
MCInner    == [a \in MCArgs \cup {none} |-> IF a = run THEN "inner" ELSE NoChain]
MCSwitchTo == [a \in MCArgs \cup {none} |-> IF a = go THEN B ELSE NoProfile]

MCKeys     == {k1}
MCBinding ==
    [p \in {A, B} |-> [s \in Slots |->
        CASE s = <<"press", k1>>   -> IF p = A THEN "macro" ELSE "folder"
          [] s = <<"release", k1>> -> IF p = A THEN NoChain ELSE "back"
          [] s = <<"press", 0>>      -> IF p = A THEN "go" ELSE NoChain
          [] s = <<"release", 0>>    -> IF p = A THEN "back" ELSE NoChain
          [] s = <<"cw", 0>>         -> IF p = A THEN "go" ELSE NoChain
          [] s = <<"ccw", 0>>        -> IF p = A THEN "folder" ELSE "macro"
          [] OTHER                   -> NoChain]]
MCToggles  == {<<B, 0>>, <<B, k1>>}
MCFolders  == [p \in {A, B} |-> IF p = B THEN {f} ELSE {}]
MCStateful == {<<B, root, 0>>, <<B, root, k1>>, <<B, f, k1>>}
=============================================================================
