-------------------------- MODULE MCPluginBridge --------------------------
(* A key and a dial, and two plugins with an action each.  There are four     *)
(* scenes, one of them chosen at the start: docks come, go and take over from *)
(* each other while nothing is drawn; one dock is used and plugins set titles *)
(* and feedback, or pictures and states, on it (the dial keeping its action); *)
(* or the plugin and the inspector of one instance write its settings.        *)
EXTENDS ActionContexts, TLC

CONSTANTS k1, d1, p, q, pa, qa, akp05e, akp03, Scenes

VARIABLE scene

MCSlots == {k1, d1}
MCKind == (k1 :> "key") @@ (d1 :> "dial")
MCSegment == <<>>
MCOwner == (pa :> p) @@ (qa :> q)
MCBindings == (k1 :> {<<>>, <<pa>>, <<qa>>, <<pa, qa>>}) @@ (d1 :> {<<pa>>, <<qa>>})

settings == <<store, entry, binding, up, open, belief, asked, sent, writer, fails>>

MCInit ==
  /\ Init /\ Settings!Init /\ scene \in Scenes
  /\ scene = "settings" => profile = [x \in Slots |-> <<qa>>]
  /\ scene # "settings" => binding = Empty
MCNext ==
  /\ UNCHANGED scene
  /\ \/ scene = "settings" /\ Settings!Next /\ UNCHANGED vars
     \/ UNCHANGED settings /\
        \/ scene = "docks" /\ Lifecycle
        \/ scene = "layers" /\ (Lifecycle \/ (\E prof \in Profiles : SwitchProfile(prof)) \/ Layers)
             /\ active' \in {akp05e, None}
        \/ scene = "pictures" /\ (Lifecycle \/ Pictures) /\ active' \in {akp05e, None}
             /\ profile'[d1] = profile[d1] /\ stash'[<<akp05e, d1>>] = NoStash
MCSpec == MCInit /\ [][MCNext]_<<vars, settings, scene>>
=============================================================================
