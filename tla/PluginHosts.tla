----------------------------- MODULE PluginHosts -----------------------------
(* The two hosts of plugins that the application asks as one: the socket      *)
(* server (SdPluginServer) and the Python host with its child (PythonHost).   *)
(* Each has variables of its own and steps of its own; the list of plugins in *)
(* the drawer puts the answers of the Python host next to the others.         *)
EXTENDS SdPluginServer, FiniteSets

CONSTANTS Here, Broken, Socket, MaxLate, MaxCalls   \* of PythonHost

ASSUME HostAssumption ==
  IsFiniteSet(DOMAIN Here) /\ MaxLate \in Nat /\ MaxCalls \in Nat

VARIABLES pPhase, os, alive, handle, call, sent, rows, child, inbox, wire, todo, late

Y == INSTANCE PythonHost WITH phase <- pPhase

(* The Python host keeps its types, and a late answer of the child is not     *)
(* taken for that of a later call (see PythonHost).                           *)
AnswersAreOfTheirCall == Y!TypeOK /\ Y!AnswersAreOfTheirCall
=============================================================================
