---------------------------- MODULE BuiltinActions ----------------------------
(* The actions the application performs itself: what a key's action asks, and *)
(* of whom. A press runs to its end on the main thread; the steps here are    *)
(* what it goes through, for an action may run others and a change of profile *)
(* under them empties the map their carousels stand in. Delays between the    *)
(* steps of a chain belong to ActionEngine.                                   *)
(* src/app/src/builtin_actions_service.cpp, opendeck_shaping.cpp,             *)
(* src/core/src/builtin_action_registry.cpp                                   *)
EXTENDS Integers, Sequences, FiniteSets, SequencesExt, TLC

CONSTANTS
  Bound,     (* the action of each key: [id, settings], settings a function of *)
             (* the fields that are written                                   *)
  Profiles,  (* of the dock's device, as they are listed: [id, name]           *)
  Stranger,  (* the id of a profile that is not listed                        *)
  Owner,     (* the plugin each plugin action belongs to, if it runs          *)
  Mounted    (* the plugin actions that stand on some key                     *)

VARIABLES active,      \* the id of the active profile
          deviceOpen,  \* a dock is active
          cursors,     \* m_lunboCursors
          calls,       \* what the press has left to do, the innermost first
          asked,       \* what it has asked: [of, what]
          performed,   \* history: the step last performed from each place, since the profile changed
          astray,      \* history: the places whose cursor somebody else may have moved since
          rounds, seen, \* history: rotations in a row, and the profiles they brought
          unreadable   \* profiles whose files cannot be read

vars == <<active, deviceOpen, cursors, calls, asked, performed, astray, rounds, seen, unreadable>>

Keys == DOMAIN Bound
NoCursors == <<>>
Ids == {Profiles[i].id : i \in DOMAIN Profiles} \cup {Stranger}

Init ==
  /\ active \in Ids /\ deviceOpen \in BOOLEAN
  /\ cursors = NoCursors /\ calls = <<>> /\ asked = <<>>
  /\ performed = NoCursors /\ astray = {} /\ rounds = 0 /\ seen = {}
  /\ unreadable \in SUBSET Ids
-----------------------------------------------------------------------------
(* A field that is missing reads as the default.                              *)
Field(s, f, default) == IF f \in DOMAIN s THEN s[f] ELSE default

Registered ==
  {"page.previous", "page.next", "page.goto", "page.indicator", "page.change", "profile.openchild",
   "profile.backtoparent", "profile.rotate", "device.brightness", "runcommand", "profile.switch",
   "system.hotkey", "plain.text", "system.multimedia", "system.volume", "browser", "multiactions",
   "multiaction", "toggleaction", "multiactions.LunBo"}

(* The editor's ids, and the handlers they stand for.                         *)
CanonicalBuiltinId(id) ==
  CASE id = "opendeck.runcommand" -> "runcommand"
    [] id = "opendeck.openurl" -> "browser"
    [] id = "opendeck.switchprofile" -> "profile.switch"
    [] id = "opendeck.brightness" -> "device.brightness"
    [] id = "opendeck.multiaction" -> "multiaction"
    [] id = "opendeck.toggleaction" -> "toggleaction"
    [] id = "opendeck.volume" -> "system.volume"
    [] id = "opendeck.multimedia" -> "system.multimedia"
    [] id = "opendeck.pagenext" -> "page.next"
    [] id = "opendeck.pageprevious" -> "page.previous"
    [] id = "opendeck.profilerotate" -> "profile.rotate"
    [] OTHER -> id

(* What the editor lists, when the starter pack is not installed.             *)
Advertised ==
  {"opendeck.runcommand", "opendeck.openurl", "opendeck.switchprofile", "opendeck.brightness",
   "opendeck.volume", "opendeck.multimedia", "opendeck.pagenext", "opendeck.pageprevious",
   "opendeck.profilerotate"}
-----------------------------------------------------------------------------
Clamp0to100(v) == CASE v < 0 -> 0 [] v > 100 -> 100 [] OTHER -> v

MediaKeys ==
  [PlayPause |-> "PlayPause", play_pause |-> "PlayPause", Stop |-> "Stop", stop |-> "Stop",
   Next |-> "Next", next |-> "Next", Previous |-> "Previous", previous |-> "Previous",
   VolumeUp |-> "VolumeUp", volume_up |-> "VolumeUp", VolumeDown |-> "VolumeDown",
   volume_down |-> "VolumeDown", Mute |-> "Mute", mute |-> "Mute"]

ParseModifiers(names) ==
  LET Usage(m) == CASE m \in {"ctrl", "control"} -> 224 [] m = "shift" -> 225
                    [] m \in {"alt", "option"} -> 226 [] m \in {"meta", "win", "super"} -> 227
                    [] OTHER -> 0
  IN  SelectSeq([i \in DOMAIN names |-> Usage(names[i])], LAMBDA u : u # 0)

(* Keys are named by their kind and number: letter 0 is A, digit 0 is 0, and  *)
(* the named ones are return, escape, backspace, tab, space and delete.       *)
NamedKeys == <<40, 41, 42, 43, 44, 76>>
ParseKeyToHid(key) ==
  CASE key.kind = "named" /\ key.n \in DOMAIN NamedKeys -> NamedKeys[key.n]
    [] key.kind = "f" /\ key.n \in 1..12 -> 57 + key.n
    [] key.kind = "letter" -> 4 + key.n
    [] key.kind = "digit" /\ key.n \in 1..9 -> 29 + key.n
    [] key.kind = "digit" /\ key.n = 0 -> 39
    [] OTHER -> 0

Ask(of, what) == <<[of |-> of, what |-> what]>>
Media(key) == IF key \in DOMAIN MediaKeys THEN Ask("keyboard", <<"media", MediaKeys[key]>>) ELSE <<>>

(* The command a single string stands for is a shell's.                       *)
RunCommand(s) ==
  IF "program" \in DOMAIN s THEN Ask("engine", <<"run", s.program>>)
  ELSE IF Field(s, "command", "") = "" THEN <<>> ELSE Ask("engine", <<"run", <<"/bin/sh", "-c", s.command>>>>)

Brightness(s) ==
  IF deviceOpen
  THEN Ask("dock", <<"brightness", Clamp0to100(IF "level" \in DOMAIN s THEN s.level ELSE Field(s, "value", 80))>>)
  ELSE <<>>

Hotkey(s) ==
  LET key == ParseKeyToHid(Field(s, "key", [kind |-> "none", n |-> 0]))
  IN  IF key = 0 THEN <<>> ELSE Ask("keyboard", <<"chord", ParseModifiers(Field(s, "modifiers", <<>>)), key>>)

Volume(s) ==
  LET dir == Field(s, "direction", "")
  IN  IF Field(s, "key", "") # "" THEN Media(s.key)
      ELSE CASE dir = "up" -> Media("VolumeUp") [] dir = "down" -> Media("VolumeDown") [] OTHER -> Media(dir)

Text(s) == IF Field(s, "text", "") = "" THEN <<>> ELSE Ask("keyboard", <<"text", s.text>>)

(* Addresses are a scheme and the rest.                                       *)
Browser(s) ==
  IF "url" \in DOMAIN s /\ s.url[1] \in {"http", "https"} THEN Ask("desktop", <<"url", s.url>>) ELSE <<>>

OpenChild(s) == IF Field(s, "childId", "") = "" THEN <<>> ELSE Ask("engine", <<"push", s.childId>>)

(* A plugin's action in a chain is sent to its plugin, unless it stands on a  *)
(* key, whose press the bridge reports.                                       *)
Fallback(id) ==
  IF id \in Mounted \/ id \notin DOMAIN Owner THEN <<>>
  ELSE Ask(Owner[id], <<"keyDown", id>>) \o Ask(Owner[id], <<"keyUp", id>>)

(* What the handlers that run nothing else ask.                               *)
Asks(id, s) ==
  CASE id = "page.previous" -> Ask("pages", -1)
    [] id = "page.next" -> Ask("pages", 1)
    [] id = "page.goto" -> Ask("pages", Field(s, "target", 0))
    [] id = "page.change" -> Ask("pages", IF Field(s, "direction", "") = "CCW" THEN -1 ELSE 1)
    [] id = "profile.openchild" -> OpenChild(s)
    [] id = "profile.backtoparent" -> Ask("engine", <<"pop">>)
    [] id = "device.brightness" -> Brightness(s)
    [] id = "runcommand" -> RunCommand(s)
    [] id = "system.hotkey" -> Hotkey(s)
    [] id = "plain.text" -> Text(s)
    [] id = "system.multimedia" -> Media(Field(s, "key", ""))
    [] id = "system.volume" -> Volume(s)
    [] id = "browser" -> Browser(s)
    [] id \in Registered -> <<>>
    [] OTHER -> Fallback(id)
-----------------------------------------------------------------------------
(* Profiles are found by name, the first that has it.                         *)
Named(name) == SelectInSeq(Profiles, LAMBDA p : p.name = name)
Wanted(s) == IF Field(s, "profile", "") # "" THEN s.profile ELSE Field(s, "name", "")
Position == SelectInSeq(Profiles, LAMBDA p : p.id = active)
NextProfile == Profiles[IF Position = 0 THEN 1 ELSE (Position % Len(Profiles)) + 1]

(* The profile to load for an action, if there is one.                        *)
Target(id, s) ==
  CASE id = "profile.rotate" -> IF Len(Profiles) < 2 THEN {} ELSE {NextProfile}
    [] Wanted(s) = "" \/ Named(Wanted(s)) = 0 -> {}
    [] OTHER -> {p \in {Profiles[Named(Wanted(s))]} : p.id # active}

(* A reference into the map does not outlive it.                              *)
Dangle(frames) == [i \in DOMAIN frames |-> [frames[i] EXCEPT !.live = FALSE]]
(* Mutant: a change of profile leaves the carousels where they were.          *)
KeepLunBoCursors == UNCHANGED cursors /\ performed' = NoCursors /\ astray' = {}
ResetLunBoCursors == cursors' = NoCursors /\ performed' = NoCursors /\ astray' = {}

(* A profile that cannot be read leaves the active one.                       *)
Load(target, rest) ==
  /\ asked' = asked \o FlattenSeq([i \in 1..(IF target = {} THEN 0 ELSE 1) |->
                                     Ask("profiles", (CHOOSE p \in target : TRUE).id)])
  /\ IF \E p \in target : p.id \notin unreadable
     THEN /\ active' = (CHOOSE p \in target : TRUE).id
          /\ calls' = Dangle(rest) /\ ResetLunBoCursors
     ELSE calls' = rest /\ UNCHANGED <<active, cursors, performed, astray>>

(* Where a carousel's place is kept.                                          *)
MakeLunBoBindingId(s) ==
  IF Field(s, "bindingId", "") # "" THEN <<s.bindingId>> ELSE <<Field(s, "page", "root"), Field(s, "key", -1)>>

Do(action) == [do |-> TRUE, id |-> action.id, settings |-> action.settings, live |-> TRUE]
Advance(id, size) == [do |-> FALSE, id |-> id, settings |-> size, live |-> TRUE]

(* A carousel performs the step it stands at; its place moves on afterwards,  *)
(* also when a carousel of the same place is entered under the step.          *)
LunBo(s, rest) ==
  LET id == MakeLunBoBindingId(s)
      size == Len(Field(s, "actions", <<>>))
      at == Field(cursors, id, 0) % size
      entered == \E i \in DOMAIN rest : ~rest[i].do /\ rest[i].live /\ rest[i].id = id
  IN  IF size = 0 THEN calls' = rest /\ UNCHANGED <<cursors, performed, astray>>
      ELSE /\ cursors' = (id :> at) @@ cursors
           /\ performed' = (id :> [at |-> at, of |-> size]) @@ performed
           /\ astray' = IF entered THEN astray \cup {id} ELSE astray \ {id}
           /\ calls' = <<Do(s.actions[at + 1]), Advance(id, size)>> \o rest

Moved(place, size) == (place + 1) % size
-----------------------------------------------------------------------------
(* A key with a built-in action is pressed.                                   *)
Press(k) ==
  /\ calls = <<>> /\ calls' = <<Do(Bound[k])>> /\ asked' = <<>>
  /\ UNCHANGED <<active, deviceOpen, cursors, performed, astray, rounds, seen, unreadable>>

(* The next of the press's actions: a chain, a carousel, a change of profile, *)
(* or something asked of another part.                                        *)
Perform ==
  /\ calls # <<>> /\ Head(calls).do
  /\ LET id == CanonicalBuiltinId(Head(calls).id)
         s == Head(calls).settings
         rest == Tail(calls)
     IN \/ /\ id \in {"multiactions", "multiaction"}
           /\ calls' = [i \in DOMAIN Field(s, "actions", <<>>) |-> Do(s.actions[i])] \o rest
           /\ UNCHANGED <<active, cursors, performed, astray, asked, rounds, seen>>
        \/ id = "multiactions.LunBo" /\ LunBo(s, rest) /\ UNCHANGED <<active, asked, rounds, seen>>
        \/ /\ id = "profile.rotate" /\ Load(Target(id, s), rest)
           /\ rounds' = IF rounds < Len(Profiles) THEN rounds + 1 ELSE rounds
           /\ seen' = IF active' = active THEN seen ELSE seen \cup {active'}
        \/ id = "profile.switch" /\ Load(Target(id, s), rest) /\ rounds' = 0 /\ seen' = {}
        \/ /\ id \notin {"multiactions", "multiaction", "multiactions.LunBo", "profile.rotate", "profile.switch"}
           /\ asked' = asked \o Asks(id, s) /\ calls' = rest
           /\ UNCHANGED <<active, cursors, performed, astray, rounds, seen>>
  /\ UNCHANGED <<deviceOpen, unreadable>>

(* The carousel moves on, or writes where its place once was: nothing that    *)
(* was entered since stands there, or something does.                         *)
MoveOn ==
  /\ calls # <<>> /\ ~Head(calls).do
  /\ LET id == Head(calls).id
         size == Head(calls).settings
     IN cursors' \in IF Head(calls).live THEN {[cursors EXCEPT ![id] = Moved(@, size)]}
                     ELSE {cursors} \cup {[cursors EXCEPT ![c] = Moved(@, size)] : c \in DOMAIN cursors}
  /\ astray' = IF Head(calls).live THEN astray ELSE DOMAIN cursors
  /\ calls' = Tail(calls)
  /\ UNCHANGED <<active, deviceOpen, asked, performed, rounds, seen, unreadable>>

(* The profile is edited, or changed by somebody else.                        *)
ProfileChanged ==
  /\ calls = <<>> /\ active' \in {active} \cup (Ids \ unreadable) /\ ResetLunBoCursors
  /\ rounds' = 0 /\ seen' = {}
  /\ UNCHANGED <<deviceOpen, calls, asked, unreadable>>

Plug ==
  /\ calls = <<>> /\ deviceOpen' = ~deviceOpen
  /\ UNCHANGED <<active, cursors, calls, asked, performed, astray, rounds, seen, unreadable>>

Next == (\E k \in Keys : Press(k)) \/ Perform \/ MoveOn \/ ProfileChanged \/ Plug
Spec == Init /\ [][Next]_vars
-----------------------------------------------------------------------------
(* Types; a carousel stands at one of its steps.                              *)
TypeOK ==
  /\ active \in Ids /\ deviceOpen \in BOOLEAN
  /\ \A c \in DOMAIN cursors : cursors[c] \in Nat
  /\ astray \subseteq DOMAIN cursors
  /\ rounds \in 0..Len(Profiles) /\ seen \subseteq Ids

(* Between presses a place stands behind the step last performed from it, be  *)
(* it one carousel's or shared, and at the start when the profile changed     *)
(* since, whatever ran under the step, failed switches of profile included.   *)
(* Two kinds of places are let off, until a carousel is entered there again:  *)
(* where a carousel was entered under a step of the same place, and where the *)
(* write through a dead reference may have landed.                            *)
PlacesAreKept ==
  calls = <<>> =>
    /\ DOMAIN cursors = DOMAIN performed
    /\ \A c \in DOMAIN cursors \ astray : cursors[c] = (performed[c].at + 1) % performed[c].of

(* The settings the inspectors save, with what was chosen: a list, a slider   *)
(* in steps of five, an address, a command; those without one save none.      *)
Offered(id) ==
  CASE id = "opendeck.volume" -> {<<[key |-> c], <<"media", c>>>> : c \in {"VolumeUp", "VolumeDown", "Mute"}}
    [] id = "opendeck.multimedia" ->
         {<<[key |-> c], <<"media", c>>>> : c \in {"PlayPause", "Stop", "Next", "Previous"}}
    [] id = "opendeck.brightness" -> {<<[value |-> 5 * i], <<"brightness", 5 * i>>>> : i \in 0..20}
    [] id = "opendeck.openurl" -> {<<[url |-> <<a, "x">>], <<"url", <<a, "x">>>>>> : a \in {"http", "https"}}
    [] id = "opendeck.runcommand" -> {<<[command |-> "c"], <<"run", <<"/bin/sh", "-c", "c">>>>>>}
    [] id = "opendeck.pagenext" -> {<<<<>>, 1>>}
    [] id = "opendeck.pageprevious" -> {<<<<>>, -1>>}
    [] OTHER -> {}

(* What is offered is done: an action of the editor's list has a handler, and *)
(* with settings its inspector saved it asks for what was chosen.             *)
OffersAreDone ==
  \A id \in Advertised :
    /\ CanonicalBuiltinId(id) \in Registered
    /\ \A o \in Offered(id) : deviceOpen =>
         LET a == Asks(CanonicalBuiltinId(id), o[1]) IN Len(a) = 1 /\ a[1].what = o[2]

(* No two keys type the same.                                                 *)
KeyNames ==
  [kind : {"named"}, n : DOMAIN NamedKeys] \cup [kind : {"f"}, n : 1..12]
    \cup [kind : {"letter"}, n : 0..25] \cup [kind : {"digit"}, n : 0..9]
ChordsAreDistinct == Cardinality({ParseKeyToHid(k) : k \in KeyNames}) = Cardinality(KeyNames)

(* Rotating as often as there are profiles comes by every one of them, if all *)
(* can be read.                                                               *)
RotationComesRound ==
  rounds = Len(Profiles) /\ unreadable = {} => \A i \in DOMAIN Profiles : Profiles[i].id \in seen

ActionsAreTrue == PlacesAreKept /\ OffersAreDone /\ ChordsAreDistinct /\ RotationComesRound
=============================================================================
