--------------------------- MODULE MCSdPluginServer ---------------------------
(* The two hosts of plugins, one of them chosen at the start: the socket server *)
(* with three connections, two plugins, and one action instance under the two *)
(* spellings the SPA and the wire use for it; and the Python host with a plugin *)
(* whose name needs escapes and one that cannot be imported, next to a plugin *)
(* of the other host.                                                         *)
EXTENDS PluginHosts, TLC

CONSTANTS s1, s2, s3, clock, timer, keyDot, keyHash, clean, broken, foreign

VARIABLE scene

MCSockets == {s1, s2, s3}
MCPluginUuids == {clock, timer}
MCContexts == {keyDot, keyHash}
MCCanon == [c \in Contexts |-> keyHash]
MCSymmetry == Permutations(MCSockets) \cup Permutations(MCPluginUuids)

HereOf == (clean :> <<"a", "quote", "a">>) @@ (broken :> <<"backslash", "newline">>)
python == <<pPhase, os, alive, handle, call, sent, rows, child, inbox, wire, todo, late>>

MCInit ==
  /\ scene \in {"sockets", "python"} /\ Init /\ Y!Init
  /\ scene = "sockets" => os = "posix"
  /\ scene = "python" => ~hasPassword /\ \A i \in Instances : instanceOwner[i] = None
MCNext ==
  /\ UNCHANGED scene
  /\ \/ scene = "sockets" /\ Next /\ UNCHANGED python
     \/ scene = "python" /\ Y!Next /\ UNCHANGED vars
MCSpec == MCInit /\ [][MCNext]_<<scene, vars, python>>
=============================================================================
