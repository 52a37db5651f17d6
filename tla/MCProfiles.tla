----------------------------- MODULE MCProfiles -----------------------------
(* Six scenes, one of them chosen at the start: the user makes, renames and   *)
(* deletes profiles of two devices; the user, plugins and the foreground      *)
(* application switch between two profiles that are there; the bindings of    *)
(* one are edited; two writers write the file of one; the document of one is  *)
(* read again after other tools had it; and plugins are installed.            *)
EXTENDS UserData, TLC

CONSTANTS a, b, A, B, x, k0, k1, d0, z0, f1, pa, qa, p, q, v, s0, s1, Scenes

VARIABLES scene, profile, doc, touches

OwnerOf == (pa :> p) @@ (qa :> q)
ControllersOf == (pa :> {}) @@ (qa :> {"Encoder"})

Look(i) == [image |-> i, size |-> 14]
Instance(states, cur, delay, children) ==
  [id |-> "a", states |-> states, cur |-> cur, delay |-> delay, settings |-> "", children |-> children]
Instances == {Instance(<<>>, 0, 0, <<>>), Instance(<<Look(v)>>, 0, 1, <<>>),
              Instance(<<Look(None), Look(v)>>, 1, 0, <<Instance(<<Look(v)>>, 0, 5, <<>>)>>),
              Instance(<<Look(v)>>, 0, 0, <<Instance(<<>>, 0, 0, <<Instance(<<>>, 0, 0, <<>>)>>)>>)}
Binding(kind, look, inst) ==
  [chains |-> <<<<[kind |-> kind, id |-> "a", delay |-> 0]>>, <<>>>>, look |-> Look(look), inst |-> inst]
Zone == [tap |-> <<[kind |-> "Sleep", id |-> "", delay |-> 3]>>, look |-> Look(v)]
Kinds == {"Plugin", "Sleep", "KeyPress", "RunCommand", "OpenUrl", "OpenFolder", "BackToParent"}
MCSamples ==
  {[id |-> "p", device |-> "d", keys |-> (0 :> key), encoders |-> (0 :> Binding("Plugin", None, None)),
    zones |-> (0 :> Zone), buttons |-> ("left" :> Binding("KeyPress", v, None)),
    pages |-> ("f" :> [name |-> "F", keys |-> (0 :> Binding("BackToParent", None, None)),
                       children |-> <<"g">>]),
    hints |-> <<"x">>] :
      key \in {Binding(k, v, None) : k \in Kinds}
              \cup {Binding("Plugin", l, i) : l \in {None, v}, i \in Instances}}
C == INSTANCE ProfileCodec WITH Absent <- None, MaxDepth <- 2, MaxTouches <- 2, Samples <- MCSamples

(* Two directories; a row of an archive and a row that is assembled; a plugin *)
(* without a signature and one whose signature is bad, both called "a".       *)
Pkg(kind) == [form |-> "zip", owner |-> "a", kind |-> kind]
MCPackages == {Pkg("unsigned"), Pkg("tampered")}
SourceOf == [r |-> "streamdock", m |-> "mirabox"]
BaseOf == [r |-> "n7", m |-> "a"]

library == <<w, back, pending, last>>
editing == <<prof, nav, disk, seen, unsaved, left, fails>>
writing == <<at, tmp, file, entries, attempt>>
codec == <<profile, doc, touches>>
install == <<iUp, verifier, plugins, away, allowed, seeded, unsigned, rows, jobs, staged, live, agreed,
             blanket, hand, drops>>

(* Two profiles, and what is in memory is one of them.                        *)
TwoThere ==
  \E dev \in [{a, b} -> {A, B}], h \in [{a, b} -> SUBSET {x}] :
    LET there == [i \in Ids |-> IF i = Default THEN None
                                ELSE [New(i, IF i = a THEN 1 ELSE 2, dev[i]) EXCEPT !.hints = h[i]]]
    IN  /\ w = [disk |-> there, library |-> Index(there), mem |-> there[a], unsaved |-> FALSE, fails |-> 0]
        /\ back = [y \in Plugins |-> Unnamed] /\ pending = None /\ last = None
SampleDocument == CHOOSE sample \in MCSamples : TRUE

MCInit ==
  /\ scene \in Scenes
  /\ IF scene = "switching" THEN TwoThere ELSE Init
  /\ E!Init /\ F!Init /\ I!Init
  /\ C!Init /\ (scene # "codec" => profile = SampleDocument)
MCNext ==
  /\ UNCHANGED scene
  /\ \/ /\ UNCHANGED <<editing, writing, codec, install>>
        /\ \/ scene = "library" /\ UserSteps
           \/ scene = "switching" /\ (MappingSteps \/ OtherSteps \/ \E i \in Ids : Delete(i) \/ Switch(i))
     \/ scene = "editing" /\ E!Next /\ UNCHANGED <<library, writing, codec, install>>
     \/ scene = "writing" /\ F!Next /\ UNCHANGED <<library, editing, codec, install>>
     \/ scene = "codec" /\ C!Next /\ UNCHANGED <<library, editing, writing, install>>
     \/ scene = "install" /\ I!Next /\ UNCHANGED <<library, editing, writing, codec>>
MCSpec == MCInit /\ [][MCNext]_<<scene, library, editing, writing, codec, install>>

(* What is written is read (see ProfileCodec).                                *)
RoundTrip == C!RoundTrip
=============================================================================
