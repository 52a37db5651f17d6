---------------------------- MODULE ProfileCodec ----------------------------
(* The document a profile is written to and read from (profileToJson,         *)
(* profileFromJson).  An object is a sequence of members; what the writer     *)
(* gives may be reordered by another tool, gain members nobody knows, or be   *)
(* of the first version, whose instances had a single state.  The text of the *)
(* document, and strings and numbers in it, are left out.                     *)
EXTENDS Naturals, Sequences, SequencesExt

CONSTANTS Absent, MaxDepth, MaxTouches, Samples

VARIABLES profile,   \* what was written
          doc,       \* the document now
          touches    \* how often a tool has touched it
vars == <<profile, doc, touches>>

Member(doc1, key) == SelectSeq(doc1, LAMBDA m : m[1] = key)
Has(doc1, key) == Member(doc1, key) # <<>>
Get(doc1, key, default) == IF Has(doc1, key) THEN Last(Member(doc1, key))[2] ELSE default
If(condition, key, value) == IF condition THEN << <<key, value>> >> ELSE <<>>
Each(Op(_), seq) == [i \in DOMAIN seq |-> Op(seq[i])]
EachValue(Op(_), map) == [k \in DOMAIN map |-> Op(map[k])]

(* Kinds of steps by their names; a name that is not known is a plugin's.     *)
KindName == [Plugin |-> "plugin", Sleep |-> "sleep", KeyPress |-> "key", RunCommand |-> "command",
             OpenUrl |-> "url", OpenFolder |-> "openFolder", BackToParent |-> "back"]
KindNamed == [sleep |-> "Sleep", key |-> "KeyPress", command |-> "RunCommand", url |-> "OpenUrl",
              openFolder |-> "OpenFolder", back |-> "BackToParent"]
KindOf(name) == IF name \in DOMAIN KindNamed THEN KindNamed[name] ELSE "Plugin"

WriteAction(a) == << <<"kind", KindName[a.kind]>>, <<"id", a.id>>, <<"delayMs", a.delay>> >>
ReadAction(d) == [kind |-> KindOf(Get(d, "kind", "plugin")), id |-> Get(d, "id", ""),
                  delay |-> Get(d, "delayMs", 0)]
WriteChain(c) == Each(WriteAction, c)
ReadChain(d) == Each(ReadAction, d)

(* A look: what is not set is not written, its size always is.                *)
DefaultLook == [image |-> Absent, size |-> 14]
WriteLook(s) == If(s.image # Absent, "imagePath", s.image) \o << <<"fontSize", s.size>> >>
ReadLook(d) == [image |-> Get(d, "imagePath", Absent), size |-> Get(d, "fontSize", 14)]
-----------------------------------------------------------------------------
(* An instance: states always as an array, a delay of zero and what is empty  *)
(* left out, its children within it.                                          *)
Fresh == [id |-> "", states |-> <<>>, cur |-> 0, delay |-> 0, settings |-> "", children |-> <<>>]
RECURSIVE WriteInstance(_)
WriteInstance(i) ==
  If(i.id # "", "id", i.id) \o << <<"states", Each(WriteLook, i.states)>>, <<"currentState", i.cur>> >>
  \o If(i.delay # 0, "delayMs", i.delay) \o If(i.settings # "", "settings", i.settings)
  \o << <<"children", Each(WriteInstance, i.children)>> >>

(* Read member by member.  The array of states wins over a single state by    *)
(* being there at all, in whichever order they come; the live state is put    *)
(* back to the first when there is no such state.  Nested too deep, the whole *)
(* document is refused.                                                       *)
(* Bug: a single state wins unless the array has brought some states already. *)
FoldByEmptiness(acc, key, value) ==
  CASE key = "states" -> [acc EXCEPT !.inst.states = Each(ReadLook, value), !.saw = TRUE]
    [] key = "state" -> IF acc.inst.states # <<>> THEN acc
                        ELSE [acc EXCEPT !.inst.states = <<ReadLook(value)>>]
    [] OTHER -> acc
FoldStates(acc, key, value) ==
  CASE key = "states" -> [acc EXCEPT !.inst.states = Each(ReadLook, value), !.saw = TRUE]
    [] key = "state" -> IF acc.saw THEN acc ELSE [acc EXCEPT !.inst.states = <<ReadLook(value)>>]
    [] OTHER -> acc
Clamped(i) == IF i.cur < Len(i.states) THEN i ELSE [i EXCEPT !.cur = 0]

RECURSIVE ReadInstance(_, _)
ReadInstance(d, depth) ==
  LET Take(acc, m) ==
        CASE m[1] \in {"states", "state"} -> FoldStates(acc, m[1], m[2])
          [] m[1] = "currentState" -> [acc EXCEPT !.inst.cur = m[2]]
          [] m[1] = "delayMs" -> [acc EXCEPT !.inst.delay = m[2]]
          [] m[1] = "settings" -> [acc EXCEPT !.inst.settings = m[2]]
          [] m[1] \in {"id", "uuid"} -> [acc EXCEPT !.inst.id = m[2]]
          [] m[1] = "children" ->
               LET read == [i \in DOMAIN m[2] |-> ReadInstance(m[2][i], depth + 1)]
               IN  [acc EXCEPT !.inst.children = [i \in DOMAIN read |-> read[i].inst],
                               !.ok = @ /\ \A i \in DOMAIN read : read[i].ok]
          [] OTHER -> acc
      all == FoldLeft(Take, [inst |-> Fresh, saw |-> FALSE, ok |-> depth <= MaxDepth], d)
  IN  [inst |-> Clamped(all.inst), ok |-> all.ok]
-----------------------------------------------------------------------------
(* Bindings of keys, buttons and dials; zones have a tap and no instance.     *)
WriteBinding(b) ==
  [c \in {1, 2} |-> <<(<<"onPress", "onRelease">>)[c], WriteChain(b.chains[c])>>]
  \o If(b.look # DefaultLook, "state", WriteLook(b.look))
  \o If(b.inst # Absent, "instance", IF b.inst = Absent THEN <<>> ELSE WriteInstance(b.inst))
ReadBinding(d) ==
  [chains |-> <<ReadChain(Get(d, "onPress", <<>>)), ReadChain(Get(d, "onRelease", <<>>))>>,
   look |-> IF Has(d, "state") THEN ReadLook(Get(d, "state", <<>>)) ELSE DefaultLook,
   inst |-> IF Has(d, "instance") THEN ReadInstance(Get(d, "instance", <<>>), 1).inst ELSE Absent]
BindingIsReadable(d) == Has(d, "instance") => ReadInstance(Get(d, "instance", <<>>), 1).ok

WriteZone(z) == << <<"onTap", WriteChain(z.tap)>> >> \o If(z.look # DefaultLook, "state", WriteLook(z.look))
ReadZone(d) == [tap |-> ReadChain(Get(d, "onTap", <<>>)),
                look |-> IF Has(d, "state") THEN ReadLook(Get(d, "state", <<>>)) ELSE DefaultLook]

WritePage(p) == << <<"name", p.name>>, <<"keys", EachValue(WriteBinding, p.keys)>>,
                   <<"children", p.children>> >>
ReadPage(d) == [name |-> Get(d, "name", ""), keys |-> EachValue(ReadBinding, Get(d, "keys", <<>>)),
                children |-> Get(d, "children", <<>>)]

WriteProfile(p) ==
  << <<"id", p.id>>, <<"_schemaVersion", 2>>, <<"device", p.device>>,
     <<"keys", EachValue(WriteBinding, p.keys)>>, <<"encoders", EachValue(WriteBinding, p.encoders)>>,
     <<"touchZones", EachValue(WriteZone, p.zones)>>,
     <<"mouseButtons", EachValue(WriteBinding, p.buttons)>>,
     <<"pages", EachValue(WritePage, p.pages)>>, <<"applicationHints", p.hints>> >>
ReadProfile(d) ==
  [id |-> Get(d, "id", ""), device |-> Get(d, "device", ""),
   keys |-> EachValue(ReadBinding, Get(d, "keys", <<>>)),
   encoders |-> EachValue(ReadBinding, Get(d, "encoders", <<>>)),
   zones |-> EachValue(ReadZone, Get(d, "touchZones", <<>>)),
   buttons |-> EachValue(ReadBinding, Get(d, "mouseButtons", <<>>)),
   pages |-> EachValue(ReadPage, Get(d, "pages", <<>>)), hints |-> Get(d, "applicationHints", <<>>)]
Refused(d) == LET keys == Get(d, "keys", <<>>)
              IN  \E k \in DOMAIN keys : ~ BindingIsReadable(keys[k])
-----------------------------------------------------------------------------
(* What other tools and versions do to a document: a member moves to the      *)
(* front, one that nobody knows is added, an instance is given the form of    *)
(* the first version, or keeps a state of it besides the array.               *)
ToFront(d, i) == <<d[i]>> \o SubSeq(d, 1, i - 1) \o SubSeq(d, i + 1, Len(d))
Rearranged(d) == {ToFront(d, i) : i \in DOMAIN d} \cup {<< <<"unknown", Absent>> >> \o d}
FirstVersion(d) ==
  LET states == Get(d, "states", <<>>)
  IN  IF Len(states) # 1 THEN {}
      ELSE {SelectSeq(d, LAMBDA m : m[1] # "states") \o << <<"state", states[1]>> >>}
BothForms(d) == IF Has(d, "states") THEN {d \o << <<"state", WriteLook(DefaultLook)>> >>,
                                         << <<"state", WriteLook(DefaultLook)>> >> \o d} ELSE {}
Instances(d) == Rearranged(d) \cup FirstVersion(d) \cup BothForms(d)
InMember(d, i, v) == [d EXCEPT ![i] = <<d[i][1], v>>]
Places(d, key) == {i \in DOMAIN d : d[i][1] = key}
Bindings(d) == Rearranged(d) \cup
  UNION {{InMember(d, i, v) : v \in Instances(d[i][2])} : i \in Places(d, "instance")}
OnKeys(keys) == UNION {{[keys EXCEPT ![k] = b] : b \in Bindings(keys[k])} : k \in DOMAIN keys}
Touched(d) == Rearranged(d) \cup
  UNION {{InMember(d, i, v) : v \in OnKeys(d[i][2])} : i \in Places(d, "keys")}

Init == profile \in Samples /\ doc = WriteProfile(profile) /\ touches = 0
Touch == /\ touches < MaxTouches /\ touches' = touches + 1
         /\ doc' \in Touched(doc) /\ UNCHANGED profile
Next == Touch
-----------------------------------------------------------------------------
RECURSIVE Depth(_)
Depth(i) == 1 + (IF i.children = <<>> THEN 0 ELSE Depth(i.children[1]))
Deepest(p) == {Depth(p.keys[k].inst) : k \in {j \in DOMAIN p.keys : p.keys[j].inst # Absent}}

(* A profile that was written is read as it was, whatever the order of the    *)
(* members of its document, the members added to it and the version of its    *)
(* instances; and it is refused exactly if its actions are nested too deep.   *)
RoundTrip ==
  LET deep == \E n \in Deepest(profile) : n > MaxDepth
  IN  /\ Refused(doc) <=> deep
      /\ ~ deep => ReadProfile(doc) = profile
=============================================================================
