-------------------------- MODULE ActionContextsProofs --------------------------
(* Proofs about the instances of plugin actions, for any docks, plugins,      *)
(* actions and bindings.  A place is its own story: what a step leaves        *)
(* registered there, and what the owners are told, depends on that place      *)
(* alone, so that each invariant is one of places or of controls.             *)
EXTENDS ActionContexts, WellFoundedInduction, TLAPS

Drawables == Actions \cup {None, Glyph}
Flashing == [slot : Slots, back : Drawables]

(* The dock of the device list, and its controls.                             *)
LEMMA PlacesAreOfDocks ==
  /\ \A pl \in Places : pl[1] \in Docks /\ pl[2] \in Slots /\ pl = <<pl[1], pl[2]>>
  /\ \A d \in Docks, x \in Slots : /\ <<d, x>> \in Places
                                   /\ <<d, x>>[1] = d /\ <<d, x>>[2] = x
BY DEF Places

LEMMA NoneIsNothing ==
  /\ None \notin Docks /\ None \notin Actions /\ None \notin Entry /\ None \notin PerState
  /\ \A a \in Actions : Owner[a] \in Plugins
BY NameAssumption

-----------------------------------------------------------------------------
(* Populating a place.                                                        *)

(* A nonempty set of positions has a last one.                                *)
LEMMA LastOfSome ==
  ASSUME NEW n \in Nat, NEW S, S \subseteq 1 .. n, S # {}
  PROVE  Max(S) \in S
<1> DEFINE R == {ss \in Nat \X Nat : ss[1] < ss[2]}
           T == {n - i : i \in S}
<1>1. IsWellFoundedOn(R, Nat)
  BY NatLessThanWellFounded DEF OpToRel
<1>2. T \subseteq Nat /\ T # {}
  <2>1. \A i \in S : n - i \in Nat
    OBVIOUS
  <2> QED
    BY <2>1
<1>3. PICK x \in T : \A y \in T : <<y, x>> \notin R
  <2> HIDE DEF T, R
  <2> QED
    BY <1>1, <1>2, WFMin
<1>4. \A y \in T : ~(y < x)
  BY <1>2, <1>3
<1>5. PICK i \in S : x = n - i
  OBVIOUS
<1>6. ASSUME NEW j \in S PROVE j <= i
  <2>1. n - j \in T /\ i \in Nat /\ j \in Nat
    OBVIOUS
  <2>2. ~(n - j < x)
    BY <2>1, <1>4
  <2> QED
    BY <2>1, <2>2, <1>5
<1> QED
  BY <1>6 DEF Max

BindingsTyped == profile \in [Slots -> Seq(Actions)]

LEMMA ProfilesAreTyped == \A prof \in Profiles : prof \in [Slots -> Seq(Actions)]
<1>1. SUFFICES ASSUME NEW prof \in Profiles, NEW x \in Slots PROVE prof[x] \in Seq(Actions)
  BY DEF Profiles
<1>2. prof[x] \in Bindings[x] /\ Bindings[x] \in SUBSET Seq(Actions)
  BY NameAssumption DEF Profiles
<1> QED
  BY <1>2

(* The heir is one of the bound actions that belong to `who`.                 *)
LEMMA HeirIsBound ==
  ASSUME BindingsTyped', NEW pl \in Places, NEW who
  PROVE  /\ Bound(pl, who) =>
              /\ Heir(pl, who) \in Actions /\ Owner[Heir(pl, who)] \in who
              /\ Heir(pl, who) \in Seated(pl, who)
              /\ \E i \in DOMAIN profile'[pl[2]] : Heir(pl, who) = profile'[pl[2]][i]
         /\ ~Bound(pl, who) => \A i \in DOMAIN profile'[pl[2]] : Owner[profile'[pl[2]][i]] \notin who
<1> DEFINE acts == profile'[pl[2]]
<1>1. acts \in Seq(Actions) /\ DOMAIN acts = 1 .. Len(acts) /\ Len(acts) \in Nat
  BY PlacesAreOfDocks DEF BindingsTyped
<1>2. \A i \in DOMAIN acts : acts[i] \in Actions
  BY <1>1
<1>3. Bound(pl, who) => Max(Turns(pl, who)) \in Turns(pl, who)
  <2>1. Turns(pl, who) \subseteq 1 .. Len(acts)
    BY <1>1 DEF Turns
  <2> QED
    BY <1>1, <2>1, LastOfSome DEF Bound
<1>4. \A i \in Turns(pl, who) : /\ i \in DOMAIN acts /\ Owner[acts[i]] \in who
                                /\ acts[i] \in Seated(pl, who)
  BY DEF Turns, Seated
<1>5. Heir(pl, who) = acts[Max(Turns(pl, who))]
  BY DEF Heir
<1>6. ~Bound(pl, who) => \A i \in DOMAIN acts : Owner[acts[i]] \notin who
  BY DEF Bound, Turns
<1> QED
  BY <1>2, <1>3, <1>4, <1>5, <1>6

(* The three things that can become of a place.                               *)
LEMMA EntryCases ==
  ASSUME BindingsTyped', registry \in [Places -> Entry \cup {None}], NEW pl \in Places, NEW who
  PROVE  /\ Bound(pl, who) =>
              /\ EntryAfter(pl, who) \in Entry /\ EntryAfter(pl, who) # None
              /\ EntryAfter(pl, who).action = Heir(pl, who)
         /\ ~Bound(pl, who) /\ Vacated(pl, who) => EntryAfter(pl, who) = None
         /\ ~Bound(pl, who) /\ ~Vacated(pl, who) => EntryAfter(pl, who) = At(pl)
         /\ Vacated(pl, who) => ~Bound(pl, who) /\ Mounted(pl) /\ OwnerAt(pl) \in who
         /\ ~Bound(pl, who) /\ ~Vacated(pl, who) => ~Mounted(pl) \/ OwnerAt(pl) \notin who
         /\ EntryAfter(pl, who) \in Entry \cup {None}
<1>1. At(pl) \in Entry \cup {None} /\ (Mounted(pl) => At(pl) \in Entry)
  BY DEF At, Mounted
<1>2. CASE Bound(pl, who)
  <2>1. EntryAfter(pl, who) = [action |-> Heir(pl, who),
                               state |-> IF IsNew(pl, who) THEN 0 ELSE At(pl).state]
    BY <1>2 DEF EntryAfter, Vacated
  <2>2. Heir(pl, who) \in Actions
    BY <1>2, HeirIsBound
  <2>3. ~IsNew(pl, who) => At(pl).state \in States
    BY <1>1, <1>2 DEF IsNew, Entry
  <2>4. EntryAfter(pl, who) \in Entry
    BY <2>1, <2>2, <2>3 DEF Entry, States
  <2> QED
    BY <1>2, <2>1, <2>4, NoneIsNothing DEF Vacated
<1>3. CASE ~Bound(pl, who)
  BY <1>1, <1>3 DEF EntryAfter, Vacated
<1> QED
  BY <1>2, <1>3

(* A place taken over by nobody else keeps its action.                        *)
LEMMA KeptAction ==
  ASSUME BindingsTyped', NEW pl \in Places, NEW who,
         Bound(pl, who), Mounted(pl), ~Displaces(pl, who)
  PROVE  Heir(pl, who) = At(pl).action
<1>1. Heir(pl, who) \in Seated(pl, who) /\ At(pl).action \in Seated(pl, who)
  BY HeirIsBound DEF Seated
<1> QED
  BY <1>1 DEF Displaces

-----------------------------------------------------------------------------
(* Types.                                                                     *)
TablesTyped ==
  /\ registry \in [Places -> Entry \cup {None}] /\ stash \in [Places -> PerState]
  /\ captions \in [Places -> PerState \cup {None}]
  /\ feedback \in [Places -> Actions \cup {None}] /\ titles \in [Slots -> Actions \cup {None}]

ViewTyped == view \in [Plugins -> [Places -> Actions \cup {None}]]

WorldTyped ==
  /\ profile \in Profiles /\ connected \subseteq Plugins
  /\ docks \subseteq Docks /\ active \in Docks \cup {None} /\ codename \in Docks \cup {None}
  /\ told \in [Plugins -> SUBSET Docks]

ShownTyped == shown \in [Slots -> Drawables]
FlashesTyped == flashes \in Seq(Flashing)

LEMMA TypesSplit ==
  TypeOK <=> TablesTyped /\ ViewTyped /\ WorldTyped /\ ShownTyped /\ FlashesTyped
BY DEF TypeOK, TablesTyped, ViewTyped, WorldTyped, ShownTyped, FlashesTyped, Drawables, Flashing

LEMMA WorldIsBound == WorldTyped => BindingsTyped
BY ProfilesAreTyped DEF WorldTyped, BindingsTyped

LEMMA EmptyTables == NoStash \in PerState /\ Nothing \in [Places -> Actions \cup {None}]
BY DEF NoStash, Nothing, PerState

LEMMA StateOfPlace ==
  ASSUME TablesTyped, NEW pl \in Places, Mounted(pl)
  PROVE  At(pl) \in Entry /\ At(pl).action \in Actions /\ At(pl).state \in States
         /\ OwnerAt(pl) \in Plugins
<1>1. At(pl) \in Entry
  BY DEF TablesTyped, Mounted, At
<1> QED
  BY <1>1, NoneIsNothing DEF Entry, OwnerAt

LEMMA SurfaceIsAControl == \A x \in Slots : Surface(x) \in Slots
BY NameAssumption DEF Surface

LEMMA PaintedIsDrawable ==
  ASSUME NEW own \in Entry, NEW pushed \in PerState, NEW old \in Drawables
  PROVE  Painted(own, pushed, old) \in Drawables
<1>1. own.state \in States /\ own.action \in Actions
  BY DEF Entry
<1>2. pushed[own.state] \in Actions \cup {None}
  BY <1>1 DEF PerState
<1> QED
  BY <1>1, <1>2 DEF Painted, Drawables

LEMMA TitledIsTyped ==
  ASSUME TablesTyped, NEW pl \in Places, NEW n \in States, NEW old \in Actions \cup {None}
  PROVE  Titled(pl, n, old) \in Actions \cup {None}
<1>1. captions[pl] # None => captions[pl][n] \in Actions \cup {None}
  BY DEF TablesTyped, PerState
<1> QED
  BY <1>1 DEF Titled

LEMMA PopulateTypes ==
  ASSUME TablesTyped, ViewTyped, BindingsTyped', NEW d \in Docks, NEW who,
         NEW t, t \in [Slots -> Actions \cup {None}], NEW s, s \in [Slots -> Drawables],
         Populate(d, who, t, s)
  PROVE  TablesTyped' /\ ViewTyped' /\ ShownTyped'
<1>1. registry \in [Places -> Entry \cup {None}]
  BY DEF TablesTyped
<1>2. \A pl \in Places : EntryAfter(pl, who) \in Entry \cup {None}
  BY <1>1, EntryCases
<1>3. \A pl \in Places : IsNew(pl, who) => /\ EntryAfter(pl, who) \in Entry
                                           /\ EntryAfter(pl, who).action \in Actions
                                           /\ EntryAfter(pl, who).state \in States
  <2>1. \A pl \in Places : IsNew(pl, who) => EntryAfter(pl, who) \in Entry
    BY <1>1, EntryCases DEF IsNew
  <2> QED
    BY <2>1 DEF Entry
<1>4. registry' \in [Places -> Entry \cup {None}]
  BY <1>1, <1>2 DEF Populate
<1>5. stash' \in [Places -> PerState]
  BY EmptyTables DEF Populate, TablesTyped
<1>6. captions' \in [Places -> PerState \cup {None}]
  BY DEF Populate, TablesTyped
<1>7. feedback' \in [Places -> Actions \cup {None}]
  BY DEF Populate, TablesTyped
<1>8. titles' \in [Slots -> Actions \cup {None}]
  <2>1. ASSUME NEW x \in Slots, NEW old \in Actions \cup {None}
        PROVE  TitleAfter(<<d, x>>, who, old) \in Actions \cup {None}
    BY <1>3, <2>1, PlacesAreOfDocks, TitledIsTyped DEF TitleAfter
  <2>2. \A x \in Slots : (IF Drops(<<d, x>>, who, "key") THEN None ELSE t[x]) \in Actions \cup {None}
    OBVIOUS
  <2> QED
    BY <2>1, <2>2 DEF Populate
<1>9. shown' \in [Slots -> Drawables]
  <2>1. ASSUME NEW x \in Slots
        PROVE  ShownAfter(<<d, x>>, who, s[x]) \in Drawables
    <3> DEFINE pl == <<d, x>>
    <3>1. pl \in Places /\ s[x] \in Drawables /\ stash[pl] \in PerState /\ None \in Drawables
      BY PlacesAreOfDocks DEF TablesTyped, Drawables
    <3> HIDE DEF pl
    <3>2. IsNew(pl, who) => Painted(EntryAfter(pl, who), stash[pl],
                                    IF Displaces(pl, who) THEN None ELSE s[x]) \in Drawables
      BY <1>3, <3>1, PaintedIsDrawable
    <3>3. IsNew(pl, who) => EntryAfter(pl, who).action \in Drawables
      BY <1>3, <3>1 DEF Drawables
    <3>4. ShownAfter(pl, who, s[x]) \in Drawables
      BY <3>1, <3>2, <3>3 DEF ShownAfter
    <3> QED
      BY <3>4 DEF pl
  <2> QED
    BY <2>1 DEF Populate
<1>10. view' \in [Plugins -> [Places -> Actions \cup {None}]]
  <2>1. ASSUME NEW p \in Plugins, NEW pl \in Places
        PROVE  ViewAfter(p, pl, who) \in Actions \cup {None}
    <3>1. Bound(pl, who) => EntryAfter(pl, who).action \in Actions
      BY <1>1, <2>1, EntryCases, HeirIsBound
    <3>2. view[p][pl] \in Actions \cup {None}
      BY <2>1 DEF ViewTyped
    <3> QED
      BY <3>1, <3>2 DEF ViewAfter
  <2> QED
    BY <2>1 DEF Populate, ViewTyped
<1> QED
  BY <1>4, <1>5, <1>6, <1>7, <1>8, <1>9, <1>10 DEF TablesTyped, ViewTyped, ShownTyped

LEMMA RetireTypes ==
  ASSUME TablesTyped, NEW d, NEW who, Retire(d, who)
  PROVE  TablesTyped'
<1>1. registry' \in [Places -> Entry \cup {None}] /\ feedback' \in [Places -> Actions \cup {None}]
  BY DEF Retire, TablesTyped
<1>2. stash' \in [Places -> PerState] /\ captions' \in [Places -> PerState \cup {None}]
  BY EmptyTables DEF Retire, TablesTyped
<1>3. titles' \in [Slots -> Actions \cup {None}]
  BY DEF Retire, TablesTyped
<1> QED
  BY <1>1, <1>2, <1>3 DEF TablesTyped

-----------------------------------------------------------------------------
(* The invariants, place by place.                                            *)
ToldIsTrue == \A p \in connected : told[p] = docks

(* What plugin p believes is mounted at a place.                              *)
Believes(p, pl) ==
  /\ view[p][pl] # None => p \in connected /\ IsOf(pl, p) /\ view[p][pl] = At(pl).action
  /\ pl[1] = active /\ p \in connected /\ IsOf(pl, p) => view[p][pl] = At(pl).action

BeliefsHold == \A p \in Plugins, pl \in Places : Believes(p, pl)

(* What is registered on a control of the active dock.                        *)
FollowsBinding(x) ==
  LET e == registry[<<active, x>>]
  IN /\ e # None => \E i \in DOMAIN profile[x] : e.action = profile[x][i]
     /\ e = None /\ Len(profile[x]) = 1 => Owner[profile[x][1]] \notin connected

RegistryFollows == active # None => \A x \in Slots : FollowsBinding(x)

(* Feedback is that of the action of its place; a title comes from a place,   *)
(* of whichever dock, whose action set it or that has titles for states.      *)
FeedbackIsOwn(pl) ==
  Kind[pl[2]] = "dial" /\ feedback[pl] # None => Mounted(pl) /\ feedback[pl] = At(pl).action

TitleComesFrom(x, d) ==
  Mounted(<<d, x>>) /\ (captions[<<d, x>>] = None => titles[x] = At(<<d, x>>).action)

TitleHasASource(x) == titles[x] # None => Kind[x] = "key" /\ \E d \in Docks : TitleComesFrom(x, d)

LayersHold == (\A pl \in Places : FeedbackIsOwn(pl)) /\ (\A x \in Slots : TitleHasASource(x))

-----------------------------------------------------------------------------
(* Populating.  Either all plugins are asked, or those of one that joins, and *)
(* then neither the profile nor the active dock changes.                      *)
Populating(d, who) ==
  /\ d \in Docks
  /\ active' \in {d, None}
  /\ who \subseteq Plugins
  /\ who = Plugins \/ (active' = active /\ profile' = profile)
  /\ connected \subseteq connected' /\ connected' \subseteq connected \cup who

LEMMA PopulateTells ==
  ASSUME TablesTyped, BindingsTyped', BeliefsHold, NEW d, NEW who, Populating(d, who),
         NEW t, NEW s, Populate(d, who, t, s)
  PROVE  BeliefsHold'
<1>1. SUFFICES ASSUME NEW p \in Plugins, NEW pl \in Places PROVE Believes(p, pl)'
  BY DEF BeliefsHold
<1>2. /\ registry \in [Places -> Entry \cup {None}] /\ pl[1] \in Docks
      /\ Believes(p, pl) /\ None \notin Docks
  BY PlacesAreOfDocks, NoneIsNothing DEF TablesTyped, BeliefsHold
<1>3. /\ registry'[pl] = IF pl[1] = d THEN EntryAfter(pl, who) ELSE registry[pl]
      /\ view'[p][pl] = IF pl[1] = d THEN ViewAfter(p, pl, who) ELSE view[p][pl]
  BY DEF Populate
<1> USE DEF Believes, IsOf, Mounted, OwnerAt, At, Populating
<1>4. CASE pl[1] # d
  BY <1>2, <1>3, <1>4
<1>5. CASE pl[1] = d /\ Bound(pl, who)
  <2>1. /\ EntryAfter(pl, who) # None /\ EntryAfter(pl, who).action = Heir(pl, who)
        /\ Owner[Heir(pl, who)] \in who
    BY <1>2, <1>5, EntryCases, HeirIsBound
  <2>2. ~Vacated(pl, who)
    BY <1>5 DEF Vacated
  <2>3. view[p][pl] # None => \E a \in Seated(pl, who) : Owner[a] = p
    BY <1>2 DEF Seated
  <2>4. p \in connected' => view'[p][pl] = IF Owner[Heir(pl, who)] = p THEN Heir(pl, who) ELSE None
    BY <1>2, <1>3, <1>5, <2>1, <2>2, <2>3 DEF ViewAfter
  <2>5. p \notin connected' => view'[p][pl] = None
    BY <1>2, <1>3, <1>5 DEF ViewAfter
  <2> QED
    BY <1>3, <1>5, <2>1, <2>4, <2>5
<1>6. CASE pl[1] = d /\ Vacated(pl, who)
  <2>1. EntryAfter(pl, who) = None /\ ~Bound(pl, who)
    BY <1>2, <1>6, EntryCases
  <2>2. view[p][pl] # None => \E a \in Seated(pl, who) : Owner[a] = p
    BY <1>2 DEF Seated
  <2>3. view'[p][pl] = None
    BY <1>2, <1>3, <1>6, <2>1, <2>2 DEF ViewAfter
  <2> QED
    BY <1>3, <1>6, <2>1, <2>3
<1>7. CASE pl[1] = d /\ ~Bound(pl, who) /\ ~Vacated(pl, who)
  <2>1. EntryAfter(pl, who) = At(pl) /\ (~Mounted(pl) \/ OwnerAt(pl) \notin who)
    BY <1>2, <1>7, EntryCases
  <2>2. view'[p][pl] = view[p][pl]
    BY <1>3, <1>7 DEF ViewAfter
  <2> QED
    BY <1>2, <1>3, <1>7, <2>1, <2>2
<1> QED
  BY <1>4, <1>5, <1>6, <1>7

LEMMA PopulateRegisters ==
  ASSUME TablesTyped, BindingsTyped', RegistryFollows, NEW d, NEW who, Populating(d, who),
         NEW t, NEW s, Populate(d, who, t, s)
  PROVE  RegistryFollows'
<1>1. SUFFICES ASSUME active' # None, NEW x \in Slots PROVE FollowsBinding(x)'
  BY DEF RegistryFollows
<1> DEFINE pl == <<d, x>>
           acts == profile'[x]
<1>2. /\ registry \in [Places -> Entry \cup {None}] /\ active' = d /\ None \notin Docks
      /\ pl \in Places /\ pl[1] = d /\ pl[2] = x
  BY <1>1, PlacesAreOfDocks, NoneIsNothing DEF TablesTyped, Populating
<1>3. registry'[pl] = EntryAfter(pl, who)
  BY <1>2 DEF Populate
<1>4. acts \in Seq(Actions) /\ (Len(acts) = 1 => 1 \in DOMAIN acts /\ \A i \in DOMAIN acts : i = 1)
      /\ \A i \in DOMAIN acts : Owner[acts[i]] \in Plugins
  <2>1. acts \in Seq(Actions)
    BY DEF BindingsTyped
  <2>2. DOMAIN acts = 1 .. Len(acts) /\ \A i \in DOMAIN acts : acts[i] \in Actions
    BY <2>1
  <2> QED
    BY <2>1, <2>2, NoneIsNothing
<1>5. CASE Bound(pl, who)
  <2>1. /\ EntryAfter(pl, who) # None
        /\ \E i \in DOMAIN acts : EntryAfter(pl, who).action = acts[i]
    BY <1>2, <1>5, EntryCases, HeirIsBound
  <2> QED
    BY <1>2, <1>3, <2>1 DEF FollowsBinding
<1>6. CASE ~Bound(pl, who)
  <2>1. \A i \in DOMAIN acts : Owner[acts[i]] \notin who
    BY <1>2, <1>6, HeirIsBound
  <2>2. CASE who = Plugins
    <3>1. EntryAfter(pl, who) = None /\ Len(acts) # 1
      <4>1. Vacated(pl, who) \/ ~Mounted(pl)
        BY <1>2, <1>6, <2>2, StateOfPlace DEF Vacated
      <4>2. Len(acts) # 1
        BY <1>4, <2>1, <2>2
      <4> QED
        BY <1>2, <1>6, <4>1, <4>2, EntryCases DEF Mounted
    <3> QED
      BY <1>2, <1>3, <3>1 DEF FollowsBinding
  <2>3. CASE active' = active /\ profile' = profile
    <3>1. FollowsBinding(x) /\ active = d /\ connected' \subseteq connected \cup who
      BY <1>1, <1>2, <2>3 DEF RegistryFollows, Populating
    <3>2. CASE Vacated(pl, who)
      <4>1. EntryAfter(pl, who) = None /\ Mounted(pl) /\ OwnerAt(pl) \in who
        BY <1>2, <3>2, EntryCases
      <4>2. \E i \in DOMAIN acts : At(pl).action = acts[i]
        BY <2>3, <3>1, <4>1 DEF FollowsBinding, Mounted, At
      <4> QED
        BY <2>1, <4>1, <4>2 DEF OwnerAt
    <3>3. CASE ~Vacated(pl, who)
      <4>1. EntryAfter(pl, who) = registry[pl]
        BY <1>2, <1>6, <3>3, EntryCases DEF At
      <4>2. registry'[<<active', x>>] = registry[<<active, x>>]
        BY <1>2, <1>3, <3>1, <4>1
      <4>3. Len(acts) = 1 /\ Owner[acts[1]] \in connected' => Owner[acts[1]] \in connected
        BY <1>4, <2>1, <3>1
      <4> QED
        BY <2>3, <3>1, <4>2, <4>3 DEF FollowsBinding
    <3> QED
      BY <3>2, <3>3
  <2> QED
    BY <2>2, <2>3 DEF Populating
<1> QED
  BY <1>5, <1>6

LEMMA PopulateLayers ==
  ASSUME TablesTyped, BindingsTyped', LayersHold, NEW d \in Docks, NEW who,
         NEW t, \A x \in Slots : t[x] \in {titles[x], None}, NEW s, Populate(d, who, t, s)
  PROVE  LayersHold'
<1>1. registry \in [Places -> Entry \cup {None}]
  BY DEF TablesTyped
<1>2. ASSUME NEW pl \in Places, pl[1] = d, Mounted(pl), ~Vacated(pl, who), ~Displaces(pl, who)
      PROVE  EntryAfter(pl, who) # None /\ EntryAfter(pl, who).action = At(pl).action
  <2>1. CASE Bound(pl, who)
    BY <1>1, <1>2, <2>1, EntryCases, KeptAction
  <2>2. CASE ~Bound(pl, who)
    BY <1>1, <1>2, <2>2, EntryCases DEF Mounted
  <2> QED
    BY <2>1, <2>2
<1>3. ASSUME NEW pl \in Places PROVE FeedbackIsOwn(pl)'
  <2>1. /\ registry'[pl] = IF pl[1] = d THEN EntryAfter(pl, who) ELSE registry[pl]
        /\ feedback'[pl] = IF pl[1] = d /\ Drops(pl, who, "dial") THEN None ELSE feedback[pl]
        /\ FeedbackIsOwn(pl)
    BY DEF Populate, LayersHold
  <2> QED
    BY <1>2, <2>1 DEF FeedbackIsOwn, Drops, Mounted, At
<1>4. ASSUME NEW x \in Slots PROVE TitleHasASource(x)'
  <2> DEFINE pl == <<d, x>>
             old == IF Drops(pl, who, "key") THEN None ELSE t[x]
  <2>1. /\ titles'[x] = TitleAfter(pl, who, old)
        /\ TitleHasASource(x) /\ t[x] \in {titles[x], None}
    BY DEF Populate, LayersHold
  <2>2. /\ pl \in Places /\ pl[1] = d /\ pl[2] = x
        /\ \A e \in Docks : <<e, x>> \in Places /\ <<e, x>>[1] = e
    BY PlacesAreOfDocks
  <2>3. /\ registry'[pl] = EntryAfter(pl, who)
        /\ captions'[pl] = IF Vacated(pl, who) THEN None ELSE captions[pl]
        /\ \A e \in Docks : e # d => /\ registry'[<<e, x>>] = registry[<<e, x>>]
                                     /\ captions'[<<e, x>>] = captions[<<e, x>>]
    BY <2>2 DEF Populate
  <2>4. SUFFICES ASSUME titles'[x] # None
                 PROVE  Kind[x] = "key" /\ \E e \in Docks : TitleComesFrom(x, e)'
    BY DEF TitleHasASource
  <2>5. CASE IsNew(pl, who) /\ Kind[x] = "key" /\ captions[pl] # None
    <3>1. Bound(pl, who) /\ ~Vacated(pl, who)
      BY <2>5 DEF IsNew, Vacated
    <3>2. EntryAfter(pl, who) # None
      BY <1>1, <2>2, <3>1, EntryCases
    <3>3. TitleComesFrom(x, d)'
      BY <2>3, <2>5, <3>1, <3>2 DEF TitleComesFrom, Mounted, At
    <3> QED
      BY <2>5, <3>3
  <2>6. CASE ~(IsNew(pl, who) /\ Kind[x] = "key" /\ captions[pl] # None)
    <3>1. titles'[x] = old
      BY <2>1, <2>2, <2>6 DEF TitleAfter, Titled
    <3>2. titles'[x] = titles[x] /\ ~Drops(pl, who, "key")
      BY <2>1, <2>4, <3>1
    <3>3. PICK e \in Docks : TitleComesFrom(x, e)
      BY <2>1, <2>4, <3>2 DEF TitleHasASource
    <3>4. Kind[x] = "key"
      BY <2>1, <2>4, <3>2 DEF TitleHasASource
    <3>5. ~Vacated(pl, who) /\ ~Displaces(pl, who)
      BY <2>2, <3>2, <3>4 DEF Drops
    <3>6. TitleComesFrom(x, e)'
      <4>1. CASE e # d
        BY <2>3, <3>2, <3>3, <4>1 DEF TitleComesFrom, Mounted, At
      <4>2. CASE e = d
        <5>1. Mounted(pl) /\ (captions[pl] = None => titles[x] = At(pl).action)
          BY <3>3, <4>2 DEF TitleComesFrom
        <5>2. EntryAfter(pl, who) # None /\ EntryAfter(pl, who).action = At(pl).action
          BY <1>2, <2>2, <3>5, <5>1
        <5> QED
          BY <2>3, <3>2, <3>5, <4>2, <5>1, <5>2 DEF TitleComesFrom, Mounted, At
      <4> QED
        BY <4>1, <4>2
    <3> QED
      BY <3>4, <3>6
  <2> QED
    BY <2>5, <2>6
<1> QED
  BY <1>3, <1>4 DEF LayersHold

-----------------------------------------------------------------------------
(* Retiring places.                                                           *)
LEMMA RetireLayers ==
  ASSUME LayersHold, NEW d \in Docks, NEW who, Retire(d, who)
  PROVE  LayersHold'
<1>1. ASSUME NEW pl \in Places PROVE FeedbackIsOwn(pl)'
  <2>1. /\ registry'[pl] = IF Retired(pl, d, who) THEN None ELSE registry[pl]
        /\ feedback'[pl] = IF Retired(pl, d, who) THEN None ELSE feedback[pl]
        /\ FeedbackIsOwn(pl)
    BY DEF Retire, LayersHold
  <2> QED
    BY <2>1 DEF FeedbackIsOwn, Mounted, At
<1>2. ASSUME NEW x \in Slots, titles'[x] # None
      PROVE  Kind[x] = "key" /\ \E e \in Docks : TitleComesFrom(x, e)'
  <2>1. /\ titles'[x] = IF Kind[x] = "key" /\ Retired(<<d, x>>, d, who) THEN None ELSE titles[x]
        /\ TitleHasASource(x)
    BY DEF Retire, LayersHold
  <2>2. Kind[x] = "key" /\ titles'[x] = titles[x] /\ ~Retired(<<d, x>>, d, who)
    BY <1>2, <2>1 DEF TitleHasASource
  <2>3. PICK e \in Docks : TitleComesFrom(x, e)
    BY <1>2, <2>1, <2>2 DEF TitleHasASource
  <2>4. <<e, x>> \in Places /\ <<e, x>>[1] = e /\ ~Retired(<<e, x>>, d, who)
    BY <2>2, PlacesAreOfDocks DEF Retired
  <2>5. registry'[<<e, x>>] = registry[<<e, x>>] /\ captions'[<<e, x>>] = captions[<<e, x>>]
    BY <2>4 DEF Retire
  <2> QED
    BY <2>2, <2>3, <2>5 DEF TitleComesFrom, Mounted, At
<1> QED
  BY <1>1, <1>2 DEF LayersHold, TitleHasASource

LEMMA HereIsADock == active \in Docks \cup {None} => Here \in Docks /\ (active # None => Here = active)
BY NameAssumption DEF Here

LEMMA DisconnectTells ==
  ASSUME TypeOK, ToldIsTrue, BeliefsHold, RegistryFollows,
         NEW p \in Plugins, PluginDisconnects(p)
  PROVE  ToldIsTrue' /\ BeliefsHold' /\ RegistryFollows'
<1>1. /\ connected' = connected \ {p} /\ active' = active /\ profile' = profile /\ docks' = docks
      /\ view' = [view EXCEPT ![p] = Nothing] /\ told' = [told EXCEPT ![p] = {}]
      /\ \A pl \in Places :
           registry'[pl] = IF Retired(pl, Here, {p}) THEN None ELSE registry[pl]
  BY DEF PluginDisconnects, Retire
<1>2. ViewTyped /\ TablesTyped /\ told \in [Plugins -> SUBSET Docks] /\ connected \subseteq Plugins
      /\ BindingsTyped /\ active \in Docks \cup {None}
  BY TypesSplit, WorldIsBound DEF WorldTyped
<1>3. ToldIsTrue'
  BY <1>1, <1>2 DEF ToldIsTrue
<1>4. ASSUME NEW q \in Plugins, NEW pl \in Places PROVE Believes(q, pl)'
  <2>1. Believes(q, pl)
    BY DEF BeliefsHold
  <2>2. q = p => view'[q][pl] = None
    BY <1>1, <1>2 DEF ViewTyped, Nothing
  <2>3. q # p => view'[q] = view[q]
    BY <1>1, <1>2 DEF ViewTyped
  <2> QED
    BY <1>1, <2>1, <2>2, <2>3 DEF Believes, Retired, IsOf, Mounted, OwnerAt, At
<1>5. ASSUME active # None, NEW x \in Slots PROVE FollowsBinding(x)'
  <2>1. FollowsBinding(x) /\ <<active, x>> \in Places
    BY <1>2, <1>5, PlacesAreOfDocks DEF RegistryFollows
  <2>2. Len(profile[x]) = 1 => \A i \in DOMAIN profile[x] : i = 1
    BY <1>2 DEF BindingsTyped
  <2>3. CASE ~Retired(<<active, x>>, Here, {p})
    BY <1>1, <2>1, <2>3 DEF FollowsBinding
  <2>4. CASE Retired(<<active, x>>, Here, {p})
    <3>1. registry'[<<active, x>>] = None /\ registry[<<active, x>>] # None
          /\ Owner[registry[<<active, x>>].action] = p
      BY <1>1, <2>1, <2>4 DEF Retired, Mounted, OwnerAt, At
    <3>2. Len(profile[x]) = 1 => Owner[profile[x][1]] = p
      BY <2>1, <2>2, <3>1 DEF FollowsBinding
    <3> QED
      BY <1>1, <3>1, <3>2 DEF FollowsBinding
  <2> QED
    BY <2>3, <2>4
<1> QED
  BY <1>1, <1>3, <1>4, <1>5 DEF BeliefsHold, RegistryFollows

LEMMA DockGoneTells ==
  ASSUME TypeOK, ToldIsTrue, BeliefsHold, RegistryFollows, NEW d \in Docks, DockGone(d)
  PROVE  ToldIsTrue' /\ BeliefsHold' /\ RegistryFollows'
<1>1. /\ connected' = connected /\ profile' = profile /\ docks' = docks \ {d}
      /\ active' = IF active = d THEN None ELSE active
      /\ told' = [p \in Plugins |-> IF p \in connected THEN told[p] \ {d} ELSE told[p]]
      /\ view' = Unmounted(d, Plugins)
      /\ \A pl \in Places :
           registry'[pl] = IF Retired(pl, d, Plugins) THEN None ELSE registry[pl]
  BY DEF DockGone, Retire
<1>2. ViewTyped /\ TablesTyped /\ connected \subseteq Plugins /\ None \notin Docks
      /\ active \in Docks \cup {None}
  BY TypesSplit, NoneIsNothing DEF WorldTyped
<1>3. ToldIsTrue'
  BY <1>1, <1>2 DEF ToldIsTrue
<1>4. ASSUME NEW q \in Plugins, NEW pl \in Places PROVE Believes(q, pl)'
  <2>1. Believes(q, pl)
    BY DEF BeliefsHold
  <2>2. view'[q][pl] = IF q \in connected' /\ Retired(pl, d, Plugins) /\ OwnerAt(pl) = q
                       THEN None ELSE view[q][pl]
    BY <1>1 DEF Unmounted
  <2>3. pl[1] = active' => pl[1] # d /\ active' = active
    BY <1>1, <1>2, PlacesAreOfDocks
  <2>4. Retired(pl, d, Plugins) /\ OwnerAt(pl) # q => ~IsOf(pl, q)
    BY DEF IsOf
  <2> QED
    BY <1>1, <2>1, <2>2, <2>3, <2>4 DEF Believes, Retired, IsOf, Mounted, OwnerAt, At
<1>5. ASSUME active' # None, NEW x \in Slots PROVE FollowsBinding(x)'
  <2>1. FollowsBinding(x) /\ <<active, x>> \in Places /\ <<active, x>>[1] = active
        /\ active' = active /\ active # d
    BY <1>1, <1>2, <1>5, PlacesAreOfDocks DEF RegistryFollows
  <2>2. registry'[<<active, x>>] = registry[<<active, x>>]
    BY <1>1, <2>1 DEF Retired
  <2> QED
    BY <1>1, <2>1, <2>2 DEF FollowsBinding
<1> QED
  BY <1>3, <1>4, <1>5 DEF BeliefsHold, RegistryFollows

LEMMA UnmountedTyped ==
  ASSUME ViewTyped, NEW d, NEW who, view' = Unmounted(d, who) PROVE ViewTyped'
BY DEF ViewTyped, Unmounted

-----------------------------------------------------------------------------
(* Another page: every place of the active dock is retired and mounted anew.  *)
Renewed(pl) ==
  IF profile[pl[2]] = <<>> THEN None ELSE [action |-> Last(profile[pl[2]]), state |-> 0]

Cleared(pl) == pl[1] = active /\ Mounted(pl)

ToldOnPage(p, pl) ==
  IF p \notin connected \/ pl[1] # active THEN view[p][pl]
  ELSE IF Renewed(pl) # None /\ Owner[Renewed(pl).action] = p THEN Renewed(pl).action
  ELSE IF (Cleared(pl) /\ OwnerAt(pl) = p)
          \/ \E i \in DOMAIN profile[pl[2]] : Owner[profile[pl[2]][i]] = p
       THEN None ELSE view[p][pl]

LEMMA RenewedIsBound ==
  ASSUME BindingsTyped, NEW x \in Slots, NEW pl, pl[2] = x
  PROVE  /\ Renewed(pl) \in Entry \cup {None}
         /\ profile[x] = <<>> <=> Renewed(pl) = None
         /\ profile[x] # <<>> => /\ Renewed(pl) \in Entry
                                 /\ Renewed(pl).action = Last(profile[x])
                                 /\ Last(profile[x]) \in Actions
                                 /\ \E i \in DOMAIN profile[x] : Last(profile[x]) = profile[x][i]
<1>1. profile[x] \in Seq(Actions)
  BY DEF BindingsTyped
<1>2. profile[x] # <<>> => /\ Last(profile[x]) = profile[x][Len(profile[x])]
                           /\ Len(profile[x]) \in DOMAIN profile[x]
                           /\ Last(profile[x]) \in Actions
  BY <1>1 DEF Last
<1>3. profile[x] # <<>> => Renewed(pl) = [action |-> Last(profile[x]), state |-> 0]
                           /\ Renewed(pl) \in Entry
  BY <1>2 DEF Renewed, Entry, States
<1> QED
  BY <1>2, <1>3, NoneIsNothing DEF Renewed

LEMMA PageEffects ==
  ASSUME PageChanges
  PROVE  /\ active # None
         /\ UNCHANGED <<profile, connected, docks, active, codename, flashes, told>>
         /\ registry' = [pl \in Places |-> IF pl[1] = active THEN Renewed(pl) ELSE registry[pl]]
         /\ stash' = [pl \in Places |-> IF Cleared(pl) THEN NoStash ELSE stash[pl]]
         /\ captions' = [pl \in Places |-> IF Cleared(pl) THEN None ELSE captions[pl]]
         /\ feedback' = [pl \in Places |-> IF Cleared(pl) THEN None ELSE feedback[pl]]
         /\ titles' = [x \in Slots |-> IF Kind[x] = "key" /\ Cleared(<<active, x>>)
                                       THEN None ELSE titles[x]]
         /\ view' = [p \in Plugins |-> [pl \in Places |-> ToldOnPage(p, pl)]]
BY DEF PageChanges, Renewed, Cleared, ToldOnPage

LEMMA PageTypes == ASSUME TypeOK, PageChanges PROVE TypeOK'
<1>1. /\ TablesTyped /\ ViewTyped /\ WorldTyped /\ ShownTyped /\ FlashesTyped /\ BindingsTyped
  BY TypesSplit, WorldIsBound
<1>2. \A pl \in Places : Renewed(pl) \in Entry \cup {None}
  BY <1>1, RenewedIsBound, PlacesAreOfDocks
<1>3. WorldTyped' /\ FlashesTyped'
  BY <1>1, PageEffects DEF WorldTyped, FlashesTyped
<1>4. TablesTyped'
  <2>1. registry' \in [Places -> Entry \cup {None}]
    BY <1>1, <1>2, PageEffects DEF TablesTyped
  <2>2. stash' \in [Places -> PerState] /\ captions' \in [Places -> PerState \cup {None}]
    BY <1>1, EmptyTables, PageEffects DEF TablesTyped
  <2>3. feedback' \in [Places -> Actions \cup {None}] /\ titles' \in [Slots -> Actions \cup {None}]
    BY <1>1, PageEffects DEF TablesTyped
  <2> QED
    BY <2>1, <2>2, <2>3 DEF TablesTyped
<1>5. ViewTyped'
  <2>1. \A pl \in Places : Renewed(pl) # None => Renewed(pl).action \in Actions
    BY <1>2 DEF Entry
  <2> QED
    BY <1>1, <2>1, PageEffects DEF ViewTyped, ToldOnPage
<1>6. ShownTyped'
  <2>1. /\ active \in Docks
        /\ \A x \in Slots : <<active, x>> \in Places /\ <<active, x>>[2] = x
    BY <1>1, PageEffects, PlacesAreOfDocks DEF WorldTyped
  <2>2. \A x \in Slots :
          shown'[x] = IF profile[x] = <<>> THEN shown[x]
                      ELSE CASE Kind[x] = "dial" -> Last(profile[x])
                             [] Kind[x] = "key" ->
                                  Painted(Renewed(<<active, x>>), stash'[<<active, x>>],
                                          IF \E i \in DOMAIN profile[x] : profile[x][i] # profile[x][1]
                                          THEN None ELSE shown[x])
                             [] OTHER -> shown[x]
    BY <2>1 DEF PageChanges, Renewed
  <2>3. ASSUME NEW x \in Slots PROVE shown'[x] \in Drawables
    <3>1. /\ shown[x] \in Drawables /\ None \in Drawables /\ Actions \subseteq Drawables
          /\ stash'[<<active, x>>] \in PerState
      BY <1>1, <1>4, <2>1 DEF ShownTyped, TablesTyped, Drawables
    <3>2. profile[x] # <<>> => /\ Last(profile[x]) \in Drawables
                               /\ Renewed(<<active, x>>) \in Entry
      BY <1>1, <2>1, <3>1, RenewedIsBound
    <3> DEFINE over == IF \E i \in DOMAIN profile[x] : profile[x][i] # profile[x][1]
                       THEN None ELSE shown[x]
    <3>3. over \in Drawables
      BY <3>1
    <3> HIDE DEF over
    <3>4. profile[x] # <<>> =>
            Painted(Renewed(<<active, x>>), stash'[<<active, x>>], over) \in Drawables
      BY <3>1, <3>2, <3>3, PaintedIsDrawable
    <3>5. shown'[x] = IF profile[x] = <<>> THEN shown[x]
                      ELSE CASE Kind[x] = "dial" -> Last(profile[x])
                             [] Kind[x] = "key" ->
                                  Painted(Renewed(<<active, x>>), stash'[<<active, x>>], over)
                             [] OTHER -> shown[x]
      BY <2>2 DEF over
    <3> QED
      BY <3>1, <3>2, <3>4, <3>5
  <2>4. shown' = [x \in Slots |-> shown'[x]]
    BY DEF PageChanges
  <2> QED
    BY <2>3, <2>4 DEF ShownTyped
<1> QED
  BY <1>3, <1>4, <1>5, <1>6 DEF TypeOK, TablesTyped, ViewTyped, WorldTyped, ShownTyped,
                                FlashesTyped, Drawables, Flashing

LEMMA PageTells ==
  ASSUME TypeOK, ToldIsTrue, BeliefsHold, RegistryFollows, LayersHold, PageChanges
  PROVE  ToldIsTrue' /\ BeliefsHold' /\ RegistryFollows' /\ LayersHold'
<1>1. /\ ViewTyped /\ TablesTyped /\ BindingsTyped /\ active \in Docks
  BY TypesSplit, WorldIsBound, PageEffects DEF WorldTyped
<1>2. connected' = connected /\ profile' = profile /\ docks' = docks /\ active' = active
      /\ told' = told
  BY PageEffects
<1>3. ToldIsTrue'
  BY <1>2 DEF ToldIsTrue
<1>4. ASSUME NEW q \in Plugins, NEW pl \in Places PROVE Believes(q, pl)'
  <2>1. Believes(q, pl)
    BY DEF BeliefsHold
  <2>2. registry'[pl] = IF pl[1] = active THEN Renewed(pl) ELSE registry[pl]
    BY PageEffects
  <2>3. view'[q][pl] = ToldOnPage(q, pl)
    BY PageEffects
  <2> QED
    BY <1>2, <2>1, <2>2, <2>3 DEF ToldOnPage, Believes, IsOf, Mounted, OwnerAt, At, Cleared
<1>5. ASSUME NEW x \in Slots PROVE FollowsBinding(x)'
  <2>1. <<active, x>> \in Places /\ <<active, x>>[1] = active /\ <<active, x>>[2] = x
    BY <1>1, PlacesAreOfDocks
  <2>2. registry'[<<active, x>>] = Renewed(<<active, x>>)
    BY <2>1, PageEffects
  <2>3. profile[x] = <<>> => Len(profile[x]) = 0
    OBVIOUS
  <2> QED
    BY <1>1, <1>2, <2>1, <2>2, <2>3, RenewedIsBound DEF FollowsBinding
<1>6. ASSUME NEW pl \in Places PROVE FeedbackIsOwn(pl)'
  <2>1. /\ FeedbackIsOwn(pl)
        /\ registry'[pl] = IF pl[1] = active THEN Renewed(pl) ELSE registry[pl]
        /\ feedback'[pl] = IF Cleared(pl) THEN None ELSE feedback[pl]
    BY PageEffects DEF LayersHold
  <2> QED
    BY <2>1 DEF FeedbackIsOwn, Cleared, Mounted, At
<1>7. ASSUME NEW x \in Slots, titles'[x] # None
      PROVE  Kind[x] = "key" /\ \E e \in Docks : TitleComesFrom(x, e)'
  <2>1. /\ titles'[x] = IF Kind[x] = "key" /\ Cleared(<<active, x>>) THEN None ELSE titles[x]
        /\ TitleHasASource(x)
    BY PageEffects DEF LayersHold
  <2>2. Kind[x] = "key" /\ titles'[x] = titles[x] /\ ~Cleared(<<active, x>>)
    BY <1>7, <2>1 DEF TitleHasASource
  <2>3. PICK e \in Docks : TitleComesFrom(x, e)
    BY <1>7, <2>1, <2>2 DEF TitleHasASource
  <2>4. <<e, x>> \in Places /\ <<e, x>>[1] = e
    BY PlacesAreOfDocks
  <2>5. e # active
    BY <2>2, <2>3, <2>4 DEF Cleared, TitleComesFrom
  <2>6. registry'[<<e, x>>] = registry[<<e, x>>] /\ captions'[<<e, x>>] = captions[<<e, x>>]
    BY <2>4, <2>5, PageEffects DEF Cleared
  <2> QED
    BY <2>2, <2>3, <2>6 DEF TitleComesFrom, Mounted, At
<1> QED
  BY <1>1, <1>2, <1>3, <1>4, <1>5, <1>6, <1>7, NoneIsNothing
  DEF BeliefsHold, RegistryFollows, LayersHold, TitleHasASource

-----------------------------------------------------------------------------
(* What plugins draw, and what changes a state, leaves the actions where they *)
(* are.                                                                       *)
ActionsStay ==
  /\ UNCHANGED <<profile, connected, docks, active, codename, told>>
  /\ \A pl \in Places : /\ registry'[pl] = None <=> registry[pl] = None
                        /\ Mounted(pl) => registry'[pl].action = registry[pl].action

LEMMA StayTells ==
  ASSUME WorldTyped, ToldIsTrue, BeliefsHold, RegistryFollows, ActionsStay,
         \A p \in Plugins, pl \in Places :
           \/ view'[p][pl] = view[p][pl]
           \/ p \in connected /\ IsOf(pl, p) /\ view'[p][pl] = At(pl).action
  PROVE  ToldIsTrue' /\ BeliefsHold' /\ RegistryFollows'
<1>1. ToldIsTrue'
  BY DEF ToldIsTrue, ActionsStay
<1>2. ASSUME NEW p \in Plugins, NEW pl \in Places PROVE Believes(p, pl)'
  <2>1. Believes(p, pl)
    BY DEF BeliefsHold
  <2>2. \/ view'[p][pl] = view[p][pl]
        \/ p \in connected /\ IsOf(pl, p) /\ view'[p][pl] = At(pl).action
    OBVIOUS
  <2> QED
    BY <2>1, <2>2 DEF ActionsStay, Believes, IsOf, Mounted, OwnerAt, At
<1>3. ASSUME active' # None, NEW x \in Slots PROVE FollowsBinding(x)'
  <2>1. active' = active /\ <<active, x>> \in Places /\ FollowsBinding(x)
    BY <1>3, PlacesAreOfDocks DEF ActionsStay, RegistryFollows, WorldTyped
  <2> QED
    BY <2>1 DEF ActionsStay, FollowsBinding, Mounted, At
<1> QED
  BY <1>1, <1>2, <1>3 DEF BeliefsHold, RegistryFollows

(* A step that changes at most the layers of the place pl, through its owner. *)
LEMMA StayLayers ==
  ASSUME LayersHold, ActionsStay,
         \A pl \in Places : feedback'[pl] \in {feedback[pl], None}
                            \/ (Mounted(pl) /\ feedback'[pl] = At(pl).action),
         NEW c \in Places, \A pl \in Places \ {c} : captions'[pl] = captions[pl],
         \A x \in Slots : \/ titles'[x] = None
                          \/ titles'[x] = titles[x] /\ x # c[2]
                          \/ titles'[x] = titles[x] /\ x = c[2] /\ captions'[c] = captions[c]
                          \/ x = c[2] /\ Mounted(c) /\ Kind[x] = "key"
                             /\ (captions'[c] = None => titles'[x] = At(c).action)
  PROVE  LayersHold'
<1>1. ASSUME NEW pl \in Places PROVE FeedbackIsOwn(pl)'
  <2>1. FeedbackIsOwn(pl) /\ (feedback'[pl] \in {feedback[pl], None}
                              \/ (Mounted(pl) /\ feedback'[pl] = At(pl).action))
    BY DEF LayersHold
  <2> QED
    BY <2>1 DEF FeedbackIsOwn, ActionsStay, Mounted, At
<1>2. ASSUME NEW x \in Slots, titles'[x] # None
      PROVE  Kind[x] = "key" /\ \E e \in Docks : TitleComesFrom(x, e)'
  <2>1. TitleHasASource(x)
    BY DEF LayersHold
  <2>2. \A e \in Docks : <<e, x>> \in Places /\ <<e, x>>[2] = x
    BY PlacesAreOfDocks
  <2>3. CASE titles'[x] = titles[x] /\ (x # c[2] \/ captions'[c] = captions[c])
    <3>1. PICK e \in Docks : TitleComesFrom(x, e)
      BY <1>2, <2>1, <2>3 DEF TitleHasASource
    <3>2. captions'[<<e, x>>] = captions[<<e, x>>]
      BY <2>2, <2>3
    <3> QED
      BY <1>2, <2>1, <2>2, <2>3, <3>1, <3>2 DEF ActionsStay, TitleComesFrom, TitleHasASource, Mounted, At
  <2>4. CASE x = c[2] /\ Mounted(c) /\ Kind[x] = "key"
             /\ (captions'[c] = None => titles'[x] = At(c).action)
    <3>1. c[1] \in Docks /\ c = <<c[1], x>>
      BY <2>4, PlacesAreOfDocks
    <3>2. TitleComesFrom(x, c[1])'
      BY <2>4, <3>1 DEF ActionsStay, TitleComesFrom, Mounted, At
    <3> QED
      BY <2>4, <3>1, <3>2
  <2> QED
    BY <1>2, <2>3, <2>4
<1> QED
  BY <1>1, <1>2 DEF LayersHold, TitleHasASource

Invs == TypeOK /\ ToldIsTrue /\ BeliefsHold /\ RegistryFollows /\ LayersHold

LEMMA Undisturbed ==
  ASSUME Invs, UNCHANGED <<profile, connected, docks, active, registry, captions, feedback, titles>>,
         UNCHANGED plugins
  PROVE  ToldIsTrue' /\ BeliefsHold' /\ RegistryFollows' /\ LayersHold'
BY DEF Invs, plugins, ToldIsTrue, BeliefsHold, Believes, RegistryFollows, FollowsBinding, LayersHold,
       FeedbackIsOwn, TitleHasASource, TitleComesFrom, IsOf, OwnerAt, Mounted, At

LEMMA ShownIsTyped ==
  ASSUME ShownTyped, NEW x \in Slots, NEW v \in Drawables, shown' = [shown EXCEPT ![x] = v]
  PROVE  ShownTyped'
BY DEF ShownTyped

(* Pictures and backgrounds.                                                  *)
LEMMA PictureSteps ==
  ASSUME Invs, NEW p \in Plugins, NEW pl \in Places, NEW n \in States,
         SetImage(p, pl) \/ SetBackground(p, pl) \/ SetStateImage(p, pl, n) \/ Flash(p, pl)
  PROVE  Invs'
<1>1. TablesTyped /\ ViewTyped /\ WorldTyped /\ ShownTyped /\ FlashesTyped
  BY TypesSplit DEF Invs
<1>2. /\ UNCHANGED <<profile, connected, docks, active, codename, registry, captions, feedback, titles>>
      /\ UNCHANGED plugins /\ Gate(p, pl)
  BY DEF SetImage, SetBackground, SetStateImage, Flash, tables
<1>3. /\ At(pl).action \in Actions /\ At(pl).action \in Drawables /\ Glyph \in Drawables
      /\ pl[2] \in Slots /\ Surface(pl[2]) \in Slots
  BY <1>1, <1>2, StateOfPlace, PlacesAreOfDocks, SurfaceIsAControl DEF Gate, IsOf, Drawables
<1>4. ShownTyped'
  <2>1. \/ shown' = shown
        \/ shown' = [shown EXCEPT ![Surface(pl[2])] = At(pl).action]
        \/ shown' = [shown EXCEPT ![pl[2]] = Glyph]
    BY DEF SetImage, SetBackground, SetStateImage, Flash
  <2> QED
    BY <1>1, <1>3, <2>1, ShownIsTyped DEF ShownTyped
<1>5. stash' \in [Places -> PerState]
  <2>1. \/ stash' = stash \/ stash' = [stash EXCEPT ![pl] = NoStash]
        \/ stash' = [stash EXCEPT ![pl] = [stash[pl] EXCEPT ![n] = At(pl).action]]
    BY DEF SetImage, SetBackground, SetStateImage, Flash, tables
  <2>2. [stash[pl] EXCEPT ![n] = At(pl).action] \in PerState
    BY <1>1, <1>3 DEF TablesTyped, PerState
  <2> QED
    BY <1>1, <2>1, <2>2, EmptyTables DEF TablesTyped
<1>6. FlashesTyped'
  <2>1. \/ flashes' = flashes
        \/ flashes' = Append(flashes, [slot |-> pl[2], back |-> shown[pl[2]]])
    BY DEF SetImage, SetBackground, SetStateImage, Flash
  <2>2. [slot |-> pl[2], back |-> shown[pl[2]]] \in Flashing
    BY <1>1, <1>3 DEF ShownTyped, Flashing
  <2> QED
    BY <1>1, <2>1, <2>2 DEF FlashesTyped
<1>7. TablesTyped' /\ ViewTyped' /\ WorldTyped'
  BY <1>1, <1>2, <1>5 DEF TablesTyped, ViewTyped, WorldTyped, plugins
<1>8. TypeOK'
  BY <1>4, <1>6, <1>7 DEF TypeOK, TablesTyped, ViewTyped, WorldTyped, ShownTyped, FlashesTyped,
                          Drawables, Flashing
<1> QED
  BY <1>2, <1>8, Undisturbed DEF Invs

(* The end of a flash.                                                        *)
LEMMA RemovedOne ==
  ASSUME NEW S, NEW s \in Seq(S), NEW i \in DOMAIN s PROVE RemoveAt(s, i) \in Seq(S)
<1>1. Len(s) \in Nat /\ i \in 1 .. Len(s) /\ \A j \in 1 .. Len(s) : s[j] \in S
  OBVIOUS
<1>2. SubSeq(s, 1, i - 1) \in Seq(S)
  BY <1>1
<1>3. SubSeq(s, i + 1, Len(s)) \in Seq(S)
  BY <1>1
<1> QED
  BY <1>2, <1>3 DEF RemoveAt

LEMMA FlashEndSteps ==
  ASSUME Invs, NEW i \in DOMAIN flashes, FlashEnds(i) PROVE Invs'
<1>1. TablesTyped /\ ViewTyped /\ WorldTyped /\ ShownTyped /\ FlashesTyped
  BY TypesSplit DEF Invs
<1>2. /\ UNCHANGED <<profile, connected, docks, active, codename, tables, plugins>>
      /\ flashes' = RemoveAt(flashes, i)
      /\ shown' = IF flashes[i].back = None THEN shown
                  ELSE [shown EXCEPT ![flashes[i].slot] = flashes[i].back]
  BY DEF FlashEnds
<1>3. flashes[i].slot \in Slots /\ flashes[i].back \in Drawables
  <2>1. flashes[i] \in Flashing
    BY <1>1 DEF FlashesTyped
  <2> QED
    BY <2>1 DEF Flashing
<1>4. ShownTyped'
  BY <1>1, <1>2, <1>3, ShownIsTyped DEF ShownTyped
<1>5. FlashesTyped'
  BY <1>1, <1>2, RemovedOne DEF FlashesTyped
<1>6. TypeOK'
  <2>1. TablesTyped' /\ ViewTyped' /\ WorldTyped'
    BY <1>1, <1>2 DEF TablesTyped, ViewTyped, WorldTyped, tables, plugins
  <2> QED
    BY <1>4, <1>5, <2>1 DEF TypeOK, TablesTyped, ViewTyped, WorldTyped, ShownTyped, FlashesTyped,
                            Drawables, Flashing
<1> QED
  BY <1>2, <1>6, Undisturbed DEF Invs, tables

(* Titles and feedback.                                                       *)
LEMMA LayerSteps ==
  ASSUME Invs, NEW p \in Plugins, NEW pl \in Places, NEW n \in States, NEW t \in Actions \cup {None},
         SetTitle(p, pl, t) \/ SetStateTitle(p, pl, n, t) \/ ClearIcon(p, pl) \/ SetFeedback(p, pl)
  PROVE  Invs'
<1>1. TablesTyped /\ ViewTyped /\ WorldTyped /\ ShownTyped /\ FlashesTyped
  BY TypesSplit DEF Invs
<1>2. /\ UNCHANGED <<profile, connected, docks, active, codename, registry, stash, flashes, plugins>>
      /\ Gate(p, pl)
  BY DEF SetTitle, SetStateTitle, ClearIcon, SetFeedback, panel
<1>3. /\ At(pl).action \in Actions /\ At(pl).action \in Drawables
      /\ pl[2] \in Slots /\ Surface(pl[2]) \in Slots /\ Mounted(pl)
  BY <1>1, <1>2, StateOfPlace, PlacesAreOfDocks, SurfaceIsAControl DEF Gate, IsOf, Drawables
<1>4. ShownTyped'
  <2>1. \/ shown' = shown
        \/ shown' = [shown EXCEPT ![Surface(pl[2])] = At(pl).action]
        \/ shown' = [shown EXCEPT ![pl[2]] = At(pl).action]
    BY DEF SetTitle, SetStateTitle, ClearIcon, SetFeedback, panel
  <2> QED
    BY <1>1, <1>3, <2>1, ShownIsTyped DEF ShownTyped
<1> DEFINE kept == [IF captions[pl] = None THEN NoStash ELSE captions[pl] EXCEPT ![n] = t]
<1>5. kept \in PerState /\ kept # None
  <2>1. (IF captions[pl] = None THEN NoStash ELSE captions[pl]) \in PerState
    BY <1>1, EmptyTables DEF TablesTyped
  <2>2. kept \in PerState
    BY <2>1 DEF PerState
  <2> QED
    BY <2>2, NoneIsNothing
<1>6. \/ captions' = captions /\ titles' = [titles EXCEPT ![pl[2]] = None] /\ feedback' = feedback
      \/ captions' = captions /\ titles' = titles
         /\ feedback' = [feedback EXCEPT ![pl] = At(pl).action]
      \/ /\ captions' = [captions EXCEPT ![pl] = None] /\ feedback' = feedback
         /\ titles' = [titles EXCEPT ![pl[2]] = t]
         /\ t \in {At(pl).action, None} /\ Kind[pl[2]] = "key"
      \/ /\ captions' = [captions EXCEPT ![pl] = kept] /\ feedback' = feedback
         /\ titles' \in {titles, [titles EXCEPT ![pl[2]] = t]}
         /\ Kind[pl[2]] = "key"
  BY DEF SetTitle, SetStateTitle, ClearIcon, SetFeedback
<1> HIDE DEF kept
<1>7. /\ captions' \in [Places -> PerState \cup {None}]
      /\ titles' \in [Slots -> Actions \cup {None}]
      /\ feedback' \in [Places -> Actions \cup {None}]
  BY <1>1, <1>3, <1>5, <1>6 DEF TablesTyped
<1>8. TypeOK'
  <2>1. TablesTyped' /\ ViewTyped' /\ WorldTyped' /\ FlashesTyped'
    BY <1>1, <1>2, <1>7 DEF TablesTyped, ViewTyped, WorldTyped, FlashesTyped, plugins
  <2> QED
    BY <1>4, <2>1 DEF TypeOK, TablesTyped, ViewTyped, WorldTyped, ShownTyped, FlashesTyped,
                      Drawables, Flashing
<1>9. ActionsStay
  BY <1>2 DEF ActionsStay, plugins, Mounted, At
<1>10. ToldIsTrue' /\ BeliefsHold' /\ RegistryFollows'
  BY <1>1, <1>2, <1>9, StayTells DEF Invs, plugins
<1>11. LayersHold'
  <2>1. \A q \in Places : feedback'[q] \in {feedback[q], None}
                          \/ (Mounted(q) /\ feedback'[q] = At(q).action)
    BY <1>1, <1>3, <1>6 DEF TablesTyped
  <2>2. \A q \in Places \ {pl} : captions'[q] = captions[q]
    BY <1>1, <1>6 DEF TablesTyped
  <2>3. ASSUME NEW x \in Slots
        PROVE  \/ titles'[x] = None
               \/ titles'[x] = titles[x] /\ x # pl[2]
               \/ titles'[x] = titles[x] /\ x = pl[2] /\ captions'[pl] = captions[pl]
               \/ x = pl[2] /\ Mounted(pl) /\ Kind[x] = "key"
                  /\ (captions'[pl] = None => titles'[x] = At(pl).action)
    BY <1>1, <1>3, <1>5, <1>6 DEF TablesTyped
  <2> QED
    BY <1>9, <2>1, <2>2, <2>3, StayLayers DEF Invs
<1> QED
  BY <1>8, <1>10, <1>11 DEF Invs

(* States.                                                                    *)
LEMMA StateSteps ==
  ASSUME Invs, NEW pl \in Places, NEW n \in States, Mounted(pl), Advance(pl, n)
  PROVE  Invs'
<1>1. TablesTyped /\ ViewTyped /\ WorldTyped /\ ShownTyped /\ FlashesTyped
  BY TypesSplit DEF Invs
<1>2. At(pl) \in Entry /\ pl[2] \in Slots /\ Surface(pl[2]) \in Slots /\ stash[pl] \in PerState
  BY <1>1, StateOfPlace, PlacesAreOfDocks, SurfaceIsAControl DEF TablesTyped
<1> DEFINE now == [At(pl) EXCEPT !.state = n]
<1>3. now \in Entry /\ now # None /\ now.action = At(pl).action
  <2>1. now \in Entry /\ now.action = At(pl).action
    BY <1>2 DEF Entry
  <2> QED
    BY <2>1, NoneIsNothing
<1>4. /\ UNCHANGED <<profile, connected, docks, active, codename, stash, captions, feedback, flashes, plugins>>
      /\ registry' = [registry EXCEPT ![pl] = now]
      /\ shown' = [shown EXCEPT ![Surface(pl[2])] = Painted(now, stash[pl], shown[Surface(pl[2])])]
      /\ titles' = [titles EXCEPT ![pl[2]] = Titled(pl, n, titles[pl[2]])]
  BY DEF Advance
<1> HIDE DEF now
<1>5. ActionsStay
  BY <1>1, <1>3, <1>4 DEF ActionsStay, TablesTyped, plugins, Mounted, At
<1>6. ShownTyped'
  BY <1>1, <1>2, <1>3, <1>4, PaintedIsDrawable, ShownIsTyped DEF ShownTyped
<1>7. titles' \in [Slots -> Actions \cup {None}]
  <2>1. titles[pl[2]] \in Actions \cup {None}
    BY <1>1, <1>2 DEF TablesTyped
  <2>2. Titled(pl, n, titles[pl[2]]) \in Actions \cup {None}
    BY <1>1, <2>1, TitledIsTyped
  <2> QED
    BY <1>1, <1>4, <2>2 DEF TablesTyped
<1>8. TypeOK'
  <2>1. TablesTyped' /\ ViewTyped' /\ WorldTyped' /\ FlashesTyped'
    BY <1>1, <1>3, <1>4, <1>7 DEF TablesTyped, ViewTyped, WorldTyped, FlashesTyped, plugins
  <2> QED
    BY <1>6, <2>1 DEF TypeOK, TablesTyped, ViewTyped, WorldTyped, ShownTyped, FlashesTyped,
                      Drawables, Flashing
<1>9. ToldIsTrue' /\ BeliefsHold' /\ RegistryFollows'
  BY <1>1, <1>4, <1>5, StayTells DEF Invs, plugins
<1>10. LayersHold'
  <2>1. \A q \in Places : feedback'[q] \in {feedback[q], None} /\ captions'[q] = captions[q]
    BY <1>4
  <2>2. ASSUME NEW x \in Slots
        PROVE  \/ titles'[x] = None
               \/ titles'[x] = titles[x] /\ x # pl[2]
               \/ titles'[x] = titles[x] /\ x = pl[2] /\ captions'[pl] = captions[pl]
               \/ x = pl[2] /\ Mounted(pl) /\ Kind[x] = "key"
                  /\ (captions'[pl] = None => titles'[x] = At(pl).action)
    BY <1>1, <1>4 DEF TablesTyped, Titled
  <2> QED
    BY <1>5, <2>1, <2>2, StayLayers DEF Invs
<1> QED
  BY <1>8, <1>9, <1>10 DEF Invs

LEMMA NextStateOf == \A k \in States : (k + 1) % 2 \in States
<1>1. (0 + 1) % 2 = 1 /\ (1 + 1) % 2 = 0
  OBVIOUS
<1> QED
  BY <1>1 DEF States

LEMMA ToggleSteps ==
  ASSUME Invs, NEW pl \in Places, NEW n \in States, ToggleRendered(pl, n)
  PROVE  Invs'
<1>1. TablesTyped /\ ViewTyped /\ WorldTyped /\ ShownTyped /\ FlashesTyped
  BY TypesSplit DEF Invs
<1>2. /\ UNCHANGED <<profile, connected, docks, active, codename, stash, captions, feedback, titles, flashes, told>>
      /\ registry' = IF Mounted(pl) THEN [registry EXCEPT ![pl].state = n] ELSE registry
      /\ view' = [p \in Plugins |-> IF p \in connected /\ IsOf(pl, p)
                                    THEN [view[p] EXCEPT ![pl] = At(pl).action] ELSE view[p]]
      /\ shown' = [shown EXCEPT ![pl[2]] = None]
  BY DEF ToggleRendered
<1>3. pl[2] \in Slots /\ None \in Drawables
  BY PlacesAreOfDocks DEF Drawables
<1>4. Mounted(pl) => /\ registry[pl] \in Entry /\ [registry[pl] EXCEPT !.state = n] \in Entry
                     /\ [registry[pl] EXCEPT !.state = n].action = registry[pl].action
                     /\ At(pl).action \in Actions
  BY <1>1, StateOfPlace DEF Entry, At
<1>5. registry' \in [Places -> Entry \cup {None}] /\ ActionsStay
  <2>1. CASE ~Mounted(pl)
    BY <1>1, <1>2, <2>1 DEF TablesTyped, ActionsStay
  <2>2. CASE Mounted(pl)
    <3>1. registry' = [registry EXCEPT ![pl] = [registry[pl] EXCEPT !.state = n]]
      BY <1>2, <2>2
    <3> DEFINE now == [registry[pl] EXCEPT !.state = n]
    <3>2. now \in Entry /\ now.action = registry[pl].action /\ now # None
      BY <1>4, <2>2, NoneIsNothing
    <3> HIDE DEF now
    <3>3. registry' = [registry EXCEPT ![pl] = now]
      BY <3>1 DEF now
    <3>4. registry' \in [Places -> Entry \cup {None}]
      BY <1>1, <3>2, <3>3 DEF TablesTyped
    <3>5. \A q \in Places : /\ registry'[q] = None <=> registry[q] = None
                            /\ Mounted(q) => registry'[q].action = registry[q].action
      BY <1>1, <2>2, <3>2, <3>3 DEF TablesTyped, Mounted, At
    <3> QED
      BY <1>2, <3>4, <3>5 DEF ActionsStay
  <2> QED
    BY <2>1, <2>2
<1>6. /\ ViewTyped'
      /\ \A p \in Plugins, q \in Places :
           \/ view'[p][q] = view[p][q]
           \/ p \in connected /\ IsOf(q, p) /\ view'[p][q] = At(q).action
  BY <1>1, <1>2, <1>4 DEF ViewTyped, IsOf
<1>7. TypeOK'
  <2>1. TablesTyped' /\ WorldTyped' /\ FlashesTyped' /\ ShownTyped'
    BY <1>1, <1>2, <1>3, <1>5 DEF TablesTyped, WorldTyped, FlashesTyped, ShownTyped
  <2> QED
    BY <1>6, <2>1 DEF TypeOK, TablesTyped, ViewTyped, WorldTyped, ShownTyped, FlashesTyped,
                      Drawables, Flashing
<1>8. ToldIsTrue' /\ BeliefsHold' /\ RegistryFollows'
  BY <1>1, <1>5, <1>6, StayTells DEF Invs
<1>9. LayersHold'
  BY <1>2, <1>5, StayLayers DEF Invs
<1> QED
  BY <1>7, <1>8, <1>9 DEF Invs

-----------------------------------------------------------------------------
(* The steps that populate a dock, and those that retire one.                 *)
LEMMA PopulateSteps ==
  ASSUME Invs, WorldTyped', FlashesTyped', ToldIsTrue', NEW d, NEW who, Populating(d, who),
         NEW t, t \in [Slots -> Actions \cup {None}], \A x \in Slots : t[x] \in {titles[x], None},
         NEW s, s \in [Slots -> Drawables], Populate(d, who, t, s)
  PROVE  Invs'
<1>1. TablesTyped /\ ViewTyped /\ BindingsTyped' /\ d \in Docks
  BY TypesSplit, ProfilesAreTyped DEF Invs, WorldTyped, BindingsTyped, Populating
<1>2. TablesTyped' /\ ViewTyped' /\ ShownTyped'
  BY <1>1, PopulateTypes
<1>3. TypeOK'
  BY <1>2 DEF TypeOK, TablesTyped, ViewTyped, WorldTyped, ShownTyped, FlashesTyped, Drawables, Flashing
<1>4. BeliefsHold'
  BY <1>1, PopulateTells DEF Invs
<1>5. RegistryFollows'
  BY <1>1, PopulateRegisters DEF Invs
<1>6. LayersHold'
  BY <1>1, PopulateLayers DEF Invs
<1> QED
  BY <1>3, <1>4, <1>5, <1>6 DEF Invs

LEMMA PluginSteps ==
  ASSUME Invs, NEW p \in Plugins, PluginRegisters(p) \/ PluginDisconnects(p)
  PROVE  Invs'
<1>1. /\ TablesTyped /\ ViewTyped /\ WorldTyped /\ ShownTyped /\ FlashesTyped
      /\ Here \in Docks /\ (active # None => Here = active)
  BY TypesSplit, HereIsADock DEF Invs, WorldTyped
<1>2. CASE PluginRegisters(p)
  <2>1. /\ connected' = connected \cup {p} /\ told' = [told EXCEPT ![p] = docks]
        /\ UNCHANGED <<profile, docks, active, codename, flashes>>
        /\ Populate(Here, {p}, titles, shown)
    BY <1>2 DEF PluginRegisters
  <2>2. WorldTyped' /\ FlashesTyped' /\ ToldIsTrue'
    BY <1>1, <2>1 DEF WorldTyped, FlashesTyped, ToldIsTrue, Invs
  <2>3. Populating(Here, {p})
    BY <1>1, <2>1 DEF Populating, WorldTyped
  <2> QED
    BY <1>1, <2>1, <2>2, <2>3, PopulateSteps DEF TablesTyped, ShownTyped
<1>3. CASE PluginDisconnects(p)
  <2>1. /\ connected' = connected \ {p} /\ view' = [view EXCEPT ![p] = Nothing]
        /\ told' = [told EXCEPT ![p] = {}] /\ Retire(Here, {p})
        /\ UNCHANGED <<profile, docks, active, codename, shown, flashes>>
    BY <1>3 DEF PluginDisconnects, panel
  <2>2. TablesTyped'
    BY <1>1, <2>1, RetireTypes
  <2>3. WorldTyped' /\ FlashesTyped' /\ ShownTyped' /\ ViewTyped'
    BY <1>1, <2>1, EmptyTables DEF WorldTyped, FlashesTyped, ShownTyped, ViewTyped
  <2>4. TypeOK'
    BY <2>2, <2>3 DEF TypeOK, TablesTyped, ViewTyped, WorldTyped, ShownTyped, FlashesTyped,
                      Drawables, Flashing
  <2>5. ToldIsTrue' /\ BeliefsHold' /\ RegistryFollows'
    BY <1>3, DisconnectTells DEF Invs
  <2>6. LayersHold'
    BY <1>1, <2>1, RetireLayers DEF Invs
  <2> QED
    BY <2>4, <2>5, <2>6 DEF Invs
<1> QED
  BY <1>2, <1>3

LEMMA DockSteps ==
  ASSUME Invs, NEW d \in Docks, DockActivated(d) \/ DockGone(d)
  PROVE  Invs'
<1>1. TablesTyped /\ ViewTyped /\ WorldTyped /\ ShownTyped /\ FlashesTyped
  BY TypesSplit DEF Invs
<1>2. CASE DockActivated(d)
  <2> DEFINE t == IF active = d THEN titles ELSE [x \in Slots |-> None]
             s == KeptFor(d)
  <2>1. /\ docks' = docks \cup {d} /\ active' = d /\ codename' = d
        /\ told' = [p \in Plugins |-> IF p \in connected THEN told[p] \cup {d} ELSE told[p]]
        /\ UNCHANGED <<profile, connected, flashes>>
        /\ Populate(d, Plugins, t, s)
    BY <1>2 DEF DockActivated
  <2>2. /\ t \in [Slots -> Actions \cup {None}] /\ \A x \in Slots : t[x] \in {titles[x], None}
        /\ s \in [Slots -> Drawables]
    BY <1>1 DEF TablesTyped, ShownTyped, Drawables, KeptFor
  <2> HIDE DEF t, s
  <2>3. WorldTyped' /\ FlashesTyped'
    BY <1>1, <2>1 DEF WorldTyped, FlashesTyped
  <2>4. ToldIsTrue'
    BY <1>1, <2>1 DEF ToldIsTrue, WorldTyped, Invs
  <2>5. Populating(d, Plugins)
    BY <1>1, <2>1 DEF Populating, WorldTyped
  <2> QED
    BY <2>1, <2>2, <2>3, <2>4, <2>5, PopulateSteps
<1>3. CASE DockGone(d)
  <2>1. /\ docks' = docks \ {d} /\ active' = IF active = d THEN None ELSE active
        /\ told' = [p \in Plugins |-> IF p \in connected THEN told[p] \ {d} ELSE told[p]]
        /\ UNCHANGED <<profile, connected, codename, shown, flashes>>
        /\ Retire(d, Plugins) /\ view' = Unmounted(d, Plugins)
    BY <1>3 DEF DockGone, panel
  <2>2. TablesTyped' /\ ViewTyped'
    BY <1>1, <2>1, RetireTypes, UnmountedTyped
  <2>3. WorldTyped' /\ FlashesTyped' /\ ShownTyped'
    BY <1>1, <2>1 DEF WorldTyped, FlashesTyped, ShownTyped
  <2>4. TypeOK'
    BY <2>2, <2>3 DEF TypeOK, TablesTyped, ViewTyped, WorldTyped, ShownTyped, FlashesTyped,
                      Drawables, Flashing
  <2>5. ToldIsTrue' /\ BeliefsHold' /\ RegistryFollows'
    BY <1>3, DockGoneTells DEF Invs
  <2>6. LayersHold'
    BY <2>1, RetireLayers DEF Invs
  <2> QED
    BY <2>4, <2>5, <2>6 DEF Invs
<1> QED
  BY <1>2, <1>3

(* The control service forgets its dock, and may forget the pictures drawn.   *)
LEMMA ControlSteps ==
  ASSUME Invs, \E d \in Docks : ActivationFails(d)
  PROVE  Invs'
<1>1. TablesTyped /\ ViewTyped /\ WorldTyped /\ ShownTyped /\ FlashesTyped
  BY TypesSplit DEF Invs
<1>2. /\ UNCHANGED <<profile, connected, docks, active, tables, flashes, plugins>>
      /\ codename' = None /\ (shown' = shown \/ \E d \in Docks : shown' = KeptFor(d))
  BY DEF ActivationFails, panel
<1>3. ShownTyped'
  BY <1>1, <1>2 DEF ShownTyped, KeptFor, Drawables
<1>4. TypeOK'
  BY <1>1, <1>2, <1>3 DEF TypeOK, TablesTyped, ViewTyped, WorldTyped, ShownTyped, FlashesTyped,
                          Drawables, Flashing, tables, plugins
<1> QED
  BY <1>2, <1>4, Undisturbed DEF Invs, tables, plugins

LEMMA ProfileSteps ==
  ASSUME Invs, profile' \in Profiles, UNCHANGED <<connected, docks, active, codename, flashes, told>>,
         NEW s, s \in [Slots -> Drawables], Refreshed(s)
  PROVE  Invs'
<1>1. TablesTyped /\ ViewTyped /\ WorldTyped /\ ShownTyped /\ FlashesTyped
  BY TypesSplit DEF Invs
<1>2. WorldTyped' /\ FlashesTyped' /\ ToldIsTrue'
  BY <1>1 DEF WorldTyped, FlashesTyped, ToldIsTrue, Invs
<1>3. CASE active = None
  <2>1. shown' = s /\ UNCHANGED <<registry, stash, captions, feedback, titles, view>>
    BY <1>3 DEF Refreshed, tables
  <2>2. TypeOK'
    <3>1. TablesTyped' /\ ViewTyped' /\ ShownTyped'
      BY <1>1, <2>1 DEF TablesTyped, ViewTyped, ShownTyped
    <3> QED
      BY <1>2, <3>1 DEF TypeOK, TablesTyped, ViewTyped, WorldTyped, ShownTyped, FlashesTyped,
                        Drawables, Flashing
  <2>3. BeliefsHold'
    BY <2>1 DEF Invs, BeliefsHold, Believes, IsOf, OwnerAt, Mounted, At
  <2>4. RegistryFollows'
    BY <1>3 DEF RegistryFollows
  <2>5. LayersHold'
    BY <2>1 DEF Invs, LayersHold, FeedbackIsOwn, TitleHasASource, TitleComesFrom, Mounted, At
  <2> QED
    BY <1>2, <2>2, <2>3, <2>4, <2>5 DEF Invs
<1>4. CASE active # None
  <2>1. Populate(active, Plugins, titles, s) /\ Populating(active, Plugins)
    BY <1>1, <1>4 DEF Refreshed, Populating, WorldTyped
  <2> QED
    BY <1>1, <1>2, <2>1, PopulateSteps DEF TablesTyped
<1> QED
  BY <1>3, <1>4

LEMMA RebindSteps ==
  ASSUME Invs, NEW x \in Slots, NEW acts \in Bindings[x], Rebind(x, acts)
  PROVE  Invs'
<1> DEFINE s == IF acts = <<>> /\ Kind[x] = "key" THEN [shown EXCEPT ![x] = None] ELSE shown
<1>1. ShownTyped /\ profile \in Profiles
  BY TypesSplit DEF Invs, WorldTyped
<1>2. profile' \in Profiles
  <2>1. profile' = [profile EXCEPT ![x] = acts]
    BY DEF Rebind
  <2>2. /\ profile \in [Slots -> UNION {Bindings[y] : y \in Slots}]
        /\ \A y \in Slots : profile[y] \in Bindings[y]
    BY <1>1 DEF Profiles
  <2>3. acts \in UNION {Bindings[y] : y \in Slots}
    OBVIOUS
  <2>4. profile' \in [Slots -> UNION {Bindings[y] : y \in Slots}]
    BY <2>1, <2>2, <2>3
  <2>5. \A y \in Slots : profile'[y] \in Bindings[y]
    BY <2>1, <2>2
  <2> QED
    BY <2>4, <2>5 DEF Profiles
<1>3. s \in [Slots -> Drawables]
  BY <1>1 DEF ShownTyped, Drawables
<1>4. UNCHANGED <<connected, docks, active, codename, flashes, told>> /\ Refreshed(s)
  BY DEF Rebind
<1> QED
  BY <1>2, <1>3, <1>4, ProfileSteps

LEMMA SwitchSteps ==
  ASSUME Invs, NEW prof \in Profiles, SwitchProfile(prof) PROVE Invs'
<1>1. shown \in [Slots -> Drawables]
  BY TypesSplit DEF Invs, ShownTyped
<1>2. /\ profile' \in Profiles /\ UNCHANGED <<connected, docks, active, codename, flashes, told>>
      /\ Refreshed(shown)
  BY DEF SwitchProfile
<1> QED
  BY <1>1, <1>2, ProfileSteps

-----------------------------------------------------------------------------
(* The specification keeps the invariants.                                    *)
LEMMA InitInvs == Init => Invs
<1> SUFFICES ASSUME Init PROVE Invs
  OBVIOUS
<1> USE DEF Init
<1>1. TypeOK
  <2>1. registry \in [Places -> Entry \cup {None}] /\ stash \in [Places -> PerState]
        /\ captions \in [Places -> PerState \cup {None}] /\ feedback \in [Places -> Actions \cup {None}]
    BY EmptyTables DEF Nothing
  <2>2. flashes \in Seq([slot : Slots, back : Actions \cup {None, Glyph}])
    OBVIOUS
  <2>3. view \in [Plugins -> [Places -> Actions \cup {None}]]
    BY EmptyTables
  <2> QED
    BY <2>1, <2>2, <2>3 DEF TypeOK
<1>2. \A pl \in Places : registry[pl] = None /\ feedback[pl] = None
  BY DEF Nothing
<1>3. \A p \in Plugins, pl \in Places : view[p][pl] = None
  BY DEF Nothing
<1> QED
  BY <1>1, <1>2, <1>3 DEF Invs, ToldIsTrue, BeliefsHold, Believes, RegistryFollows, LayersHold,
                          FeedbackIsOwn, TitleHasASource, IsOf, Mounted, At

LEMMA NextInvs == Invs /\ [Next]_vars => Invs'
<1> SUFFICES ASSUME Invs, [Next]_vars PROVE Invs'
  OBVIOUS
<1>1. CASE \E p \in Plugins : PluginRegisters(p) \/ PluginDisconnects(p)
  BY <1>1, PluginSteps
<1>2. CASE \E d \in Docks : DockActivated(d) \/ DockGone(d)
  BY <1>2, DockSteps
<1>3. CASE \E x \in Slots : \E acts \in Bindings[x] : Rebind(x, acts)
  BY <1>3, RebindSteps
<1>11. CASE \E d \in Docks : ActivationFails(d)
  BY <1>11, ControlSteps
<1>4. CASE PageChanges
  BY <1>4, PageTypes, PageTells DEF Invs
<1>5. CASE \E prof \in Profiles : SwitchProfile(prof)
  BY <1>5, SwitchSteps
<1>6. ASSUME NEW p \in Plugins, NEW pl \in Places, NEW n \in States,
             \/ SetImage(p, pl) \/ SetBackground(p, pl) \/ Flash(p, pl)
             \/ SetStateImage(p, pl, n) \/ SetState(p, pl, n)
      PROVE  Invs'
  <2>1. CASE SetState(p, pl, n)
    BY <2>1, StateSteps DEF SetState, Gate, IsOf
  <2> QED
    BY <1>6, <2>1, PictureSteps
<1>7. ASSUME NEW pl \in Places, KeyReleased(pl) PROVE Invs'
  <2>1. Mounted(pl) /\ Advance(pl, (At(pl).state + 1) % 2)
    BY <1>7 DEF KeyReleased
  <2>2. (At(pl).state + 1) % 2 \in States
    BY <2>1, TypesSplit, StateOfPlace, NextStateOf DEF Invs
  <2> QED
    BY <2>1, <2>2, StateSteps
<1>8. CASE Pictures
  <2>1. 0 \in States
    BY DEF States
  <2> QED
    BY <1>6, <1>7, <1>8, <2>1, ToggleSteps, FlashEndSteps DEF Pictures
<1>9. CASE Layers
  <2>1. 0 \in States /\ None \in Actions \cup {None}
    BY DEF States
  <2> QED
    BY <1>9, <2>1, LayerSteps DEF Layers
<1>10. CASE UNCHANGED vars
  <2>1. TypeOK'
    BY <1>10 DEF Invs, TypeOK, vars, tables, panel, plugins
  <2> QED
    BY <1>10, <2>1, Undisturbed DEF Invs, vars, tables, plugins
<1> QED
  BY <1>1, <1>2, <1>3, <1>4, <1>5, <1>8, <1>9, <1>10, <1>11 DEF Next, Lifecycle

LEMMA InvsAlways == Spec => []Invs
BY InitInvs, NextInvs, PTL DEF Spec

(* The tables keep their types.                                               *)
THEOREM TablesStayTyped == Spec => []TypeOK
<1>1. Invs => TypeOK
  BY DEF Invs
<1> QED
  BY <1>1, InvsAlways, PTL

(* What a plugin was told with willAppear and willDisappear is what is        *)
(* registered as its own, whatever is bound, displaced, retired or mounted    *)
(* again, and it knows exactly the docks that are connected.                  *)
THEOREM PluginsAlwaysKnow == Spec => []PluginsKnowTheirWorld
<1>1. Invs => PluginsKnowTheirWorld
  BY DEF Invs, ToldIsTrue, BeliefsHold, Believes, PluginsKnowTheirWorld
<1> QED
  BY <1>1, InvsAlways, PTL

(* What is registered on the active dock is what the profile binds, after     *)
(* every edit, switch, page, plug and connection.                             *)
THEOREM RegistryAlwaysFollows == Spec => []RegistryFollowsProfile
<1>1. Invs => RegistryFollowsProfile
  BY DEF Invs, RegistryFollows, FollowsBinding, RegistryFollowsProfile
<1> QED
  BY <1>1, InvsAlways, PTL

(* The feedback and the titles shown are those of the action mounted there.   *)
THEOREM LayersStayOfTheAction == Spec => []LayersAreOfTheAction
<1>1. ASSUME Invs PROVE LayersAreOfTheAction
  <2>1. \A pl \in Places : FeedbackIsOwn(pl)
    BY <1>1 DEF Invs, LayersHold
  <2>2. ASSUME \A pl \in Places : Mounted(pl) => pl[1] = active,
               NEW x \in Slots, titles[x] # None
        PROVE  /\ active # None /\ Mounted(<<active, x>>)
               /\ captions[<<active, x>>] = None => titles[x] = At(<<active, x>>).action
    <3>1. PICK d \in Docks : TitleComesFrom(x, d)
      BY <1>1, <2>2 DEF Invs, LayersHold, TitleHasASource
    <3>2. <<d, x>> \in Places /\ <<d, x>>[1] = d
      BY PlacesAreOfDocks
    <3>3. d = active
      BY <2>2, <3>1, <3>2 DEF TitleComesFrom
    <3> QED
      BY <3>1, <3>3, NoneIsNothing DEF TitleComesFrom
  <2> QED
    BY <2>1, <2>2 DEF LayersAreOfTheAction, FeedbackIsOwn
<1> QED
  BY <1>1, InvsAlways, PTL
-----------------------------------------------------------------------------
(* The settings of an instance.  The last frame under way to a party is what  *)
(* it will hold, and the party that did not write last will hold the record.  *)
(* The plugin is told whenever its context is registered, so it counts while  *)
(* it is; an inspector is opened with what is registered, and counts until it *)
(* closes.  Nothing is under way to a party whose socket is not registered.   *)
Coming(x) == sent[x][Len(sent[x])]
WillHold(x) ==
  /\ sent[x] # <<>> => Coming(x) = store
  /\ sent[x] = <<>> /\ ~belief[x].own => belief[x].value = store
Counts(x) == x \in up /\ (x = "plugin" => entry # None)

PartiesWillHold ==
  store # None => \A x \in Settings!Parties : Counts(x) /\ x # writer => WillHold(x)
SettingsInv ==
  /\ Settings!TypeOK /\ Settings!RegistryIsTheRecord /\ PartiesWillHold
  /\ ~open => entry = None
  /\ \A x \in Settings!Parties : x \notin up => sent[x] = <<>>

LEMMA TheOtherIsAParty ==
  \A x \in Settings!Parties : Settings!Other(x) \in Settings!Parties /\ Settings!Other(x) # x
    /\ \A y \in Settings!Parties : y = x \/ y = Settings!Other(x)
BY DEF Settings!Parties, Settings!Other

LEMMA ValueForIsAValue ==
  ASSUME Settings!TypeOK
  PROVE  /\ Settings!SettingsFor(store, binding) \in Values
         /\ store # None => Settings!SettingsFor(store, binding) = store
BY SettingsAssumption DEF Settings!TypeOK, Settings!SettingsFor

(* A frame told to a party is the last one under way to it.                   *)
LEMMA AppendedIsComing ==
  ASSUME NEW s \in Seq(Values), NEW v \in Values
  PROVE  Append(s, v) \in Seq(Values) /\ Append(s, v) # <<>>
         /\ Append(s, v)[Len(Append(s, v))] = v
OBVIOUS

LEMMA TailKeepsComing ==
  ASSUME NEW s \in Seq(Values), s # <<>>
  PROVE  /\ Tail(s) \in Seq(Values) /\ Head(s) \in Values
         /\ Tail(s) = <<>> => Head(s) = s[Len(s)]
         /\ Tail(s) # <<>> => Tail(s)[Len(Tail(s))] = s[Len(s)]
<1>1. Len(s) \in Nat /\ Len(s) > 0 /\ Head(s) = s[1] /\ Head(s) \in Values
  OBVIOUS
<1>2. Tail(s) \in Seq(Values) /\ Len(Tail(s)) = Len(s) - 1
  BY <1>1
<1>3. ASSUME Tail(s) = <<>> PROVE Len(s) = 1
  <2>1. \A t \in Seq(Values) : t = <<>> => Len(t) = 0
    OBVIOUS
  <2>2. Len(Tail(s)) = 0
    BY <1>2, <1>3, <2>1
  <2>3. Len(s) - 1 = 0
    BY <1>2, <2>2
  <2> QED
    BY <1>1, <2>3
<1>4. ASSUME Tail(s) # <<>> PROVE Tail(s)[Len(Tail(s))] = s[Len(s)]
  <2>1. Len(Tail(s)) \in 1..(Len(s) - 1)
    BY <1>1, <1>2, <1>4
  <2>2. \A i \in 1..(Len(s) - 1) : Tail(s)[i] = s[i + 1]
    BY <1>1
  <2> QED
    BY <1>1, <1>2, <2>1, <2>2
<1> QED
  BY <1>1, <1>2, <1>3, <1>4

LEMMA ToldIsTheLastWord ==
  ASSUME Settings!TypeOK, NEW x \in Settings!Parties, NEW v \in Values,
         sent' = Settings!Tell(x, v)
  PROVE  /\ sent' \in [Settings!Parties -> Seq(Values)]
         /\ x \in up => sent'[x] # <<>> /\ sent'[x][Len(sent'[x])] = v
         /\ x \notin up => sent'[x] = sent[x]
         /\ \A y \in Settings!Parties : y # x => sent'[y] = sent[y]
<1>1. sent \in [Settings!Parties -> Seq(Values)] /\ sent[x] \in Seq(Values)
  BY DEF Settings!TypeOK
<1>2. CASE x \in up
  <2>1. sent' = [sent EXCEPT ![x] = Append(sent[x], v)]
    BY <1>2 DEF Settings!Tell
  <2>2. sent'[x] = Append(sent[x], v) /\ \A y \in Settings!Parties : y # x => sent'[y] = sent[y]
    BY <1>1, <2>1
  <2>3. sent' \in [Settings!Parties -> Seq(Values)]
    BY <1>1, <2>1, AppendedIsComing
  <2> QED
    BY <1>1, <1>2, <2>2, <2>3, AppendedIsComing
<1>3. CASE x \notin up
  BY <1>1, <1>3 DEF Settings!Tell
<1> QED
  BY <1>2, <1>3

LEMMA FramesStayTyped ==
  ASSUME Settings!TypeOK, NEW x \in Settings!Parties, asked[x] # <<>>
  PROVE  /\ Head(asked[x]) \in Settings!Frames
         /\ [asked EXCEPT ![x] = Tail(@)] \in [Settings!Parties -> Seq(Settings!Frames)]
         /\ Head(asked[x]).op = "set" => Head(asked[x]).value \in Values
<1>1. asked \in [Settings!Parties -> Seq(Settings!Frames)]
  BY DEF Settings!TypeOK
<1>2. asked[x] \in Seq(Settings!Frames)
  BY <1>1
<1>3. Head(asked[x]) \in Settings!Frames /\ Tail(asked[x]) \in Seq(Settings!Frames)
  BY <1>2
<1>4. Head(asked[x]).op = "set" => Head(asked[x]).value \in Values
  BY <1>3 DEF Settings!Frames
<1> QED
  BY <1>1, <1>3, <1>4

(* The steps change the settings' own variables as they are typed.            *)
LEMMA SettingsTypes == Settings!TypeOK /\ [Settings!Next]_(Settings!vars) => Settings!TypeOK'
<1> SUFFICES ASSUME Settings!TypeOK, [Settings!Next]_(Settings!vars) PROVE Settings!TypeOK'
  OBVIOUS
<1> USE SettingsAssumption
<1>1. /\ store \in Values \cup {None} /\ entry \in Values \cup {None}
      /\ binding \in Values \cup {Empty} /\ up \subseteq Settings!Parties /\ open \in BOOLEAN
      /\ belief \in [Settings!Parties -> [value : Values \cup {None}, own : BOOLEAN]]
      /\ asked \in [Settings!Parties -> Seq(Settings!Frames)]
      /\ sent \in [Settings!Parties -> Seq(Values)]
      /\ writer \in Settings!Parties \cup {None} /\ fails \in 0..MaxFails
  BY DEF Settings!TypeOK
<1>2. Settings!SettingsFor(store, binding) \in Values
  BY ValueForIsAValue
<1>3. "plugin" \in Settings!Parties /\ "inspector" \in Settings!Parties
  BY DEF Settings!Parties
<1>4. Settings!Unsure \in [value : Values \cup {None}, own : BOOLEAN]
      /\ \A v \in Values \cup {None}, b \in BOOLEAN :
           Settings!Belief(v, b) \in [value : Values \cup {None}, own : BOOLEAN]
  BY DEF Settings!Unsure, Settings!Belief
<1>5. <<>> \in Seq(Values) /\ <<>> \in Seq(Settings!Frames)
  OBVIOUS
<1>6. CASE Settings!DockArrives \/ Settings!Populated
  <2>1. sent' \in [Settings!Parties -> Seq(Values)]
    BY <1>2, <1>3, <1>6, ToldIsTheLastWord DEF Settings!DockArrives, Settings!Populated
  <2> QED
    BY <1>1, <1>2, <1>6, <2>1 DEF Settings!DockArrives, Settings!Populated, Settings!TypeOK
<1>7. CASE Settings!DockLeaves
  BY <1>1, <1>7 DEF Settings!DockLeaves, Settings!TypeOK
<1>8. CASE Settings!PluginRegisters
  <2>1. (IF open THEN <<Settings!SettingsFor(store, binding)>> ELSE <<>>) \in Seq(Values)
    BY <1>2, <1>5
  <2>2. sent' \in [Settings!Parties -> Seq(Values)]
    BY <1>1, <1>3, <1>8, <2>1 DEF Settings!PluginRegisters
  <2> QED
    BY <1>1, <1>2, <1>3, <1>8, <2>2 DEF Settings!PluginRegisters, Settings!TypeOK
<1>9. CASE Settings!PluginDrops
  BY <1>1, <1>3, <1>4, <1>5, <1>9 DEF Settings!PluginDrops, Settings!TypeOK
<1>10. CASE Settings!InspectorOpens
  BY <1>1, <1>3, <1>4, <1>10 DEF Settings!InspectorOpens, Settings!TypeOK
<1>11. CASE Settings!InspectorCloses
  BY <1>1, <1>3, <1>4, <1>5, <1>11 DEF Settings!InspectorCloses, Settings!TypeOK
<1>12. ASSUME NEW x \in Settings!Parties, NEW v \in Values, Settings!Sets(x, v)
       PROVE  Settings!TypeOK'
  <2>1. [op |-> "set", value |-> v] \in Settings!Frames
    BY DEF Settings!Frames
  <2>2. asked' \in [Settings!Parties -> Seq(Settings!Frames)]
    BY <1>1, <1>12, <2>1 DEF Settings!Sets
  <2> QED
    BY <1>1, <1>4, <1>12, <2>2 DEF Settings!Sets, Settings!TypeOK
<1>13. ASSUME NEW x \in Settings!Parties, Settings!Gets(x) PROVE Settings!TypeOK'
  <2>1. [op |-> "get", value |-> None] \in Settings!Frames
    BY DEF Settings!Frames
  <2>2. asked' \in [Settings!Parties -> Seq(Settings!Frames)]
    BY <1>1, <1>13, <2>1 DEF Settings!Gets
  <2> QED
    BY <1>1, <1>13, <2>2 DEF Settings!Gets, Settings!TypeOK
<1>14. ASSUME NEW x \in Settings!Parties, Settings!Receives(x) PROVE Settings!TypeOK'
  <2>1. sent[x] \in Seq(Values) /\ sent[x] # <<>>
    BY <1>1, <1>14 DEF Settings!Receives
  <2>2. Tail(sent[x]) \in Seq(Values) /\ Head(sent[x]) \in Values
    BY <2>1, TailKeepsComing
  <2>3. sent' \in [Settings!Parties -> Seq(Values)]
    BY <1>1, <1>14, <2>2 DEF Settings!Receives
  <2>4. belief' \in [Settings!Parties -> [value : Values \cup {None}, own : BOOLEAN]]
    BY <1>1, <1>4, <1>14, <2>2 DEF Settings!Receives
  <2> QED
    BY <1>1, <1>14, <2>3, <2>4 DEF Settings!Receives, Settings!TypeOK
<1>15. ASSUME NEW x \in Settings!Parties, Settings!Taken(x)
       PROVE  /\ asked' \in [Settings!Parties -> Seq(Settings!Frames)]
              /\ Settings!Next1(x).op = "set" => Settings!Next1(x).value \in Values
  BY <1>15, FramesStayTyped DEF Settings!Taken, Settings!Next1
<1>16. ASSUME NEW x \in Settings!Parties, Settings!Dropped(x) PROVE Settings!TypeOK'
  BY <1>1, <1>15, <1>16 DEF Settings!Dropped, Settings!TypeOK
<1>17. ASSUME NEW x \in Settings!Parties, Settings!Stored(x) PROVE Settings!TypeOK'
  <2>1. Settings!Next1(x).value \in Values /\ asked' \in [Settings!Parties -> Seq(Settings!Frames)]
    BY <1>15, <1>17 DEF Settings!Stored
  <2>2. sent' \in [Settings!Parties -> Seq(Values)]
    BY <1>17, <2>1, TheOtherIsAParty, ToldIsTheLastWord DEF Settings!Stored
  <2> QED
    BY <1>1, <1>17, <2>1, <2>2 DEF Settings!Stored, Settings!TypeOK
<1>18. ASSUME NEW x \in Settings!Parties, Settings!Refused(x) PROVE Settings!TypeOK'
  <2>1. entry \in Values /\ asked' \in [Settings!Parties -> Seq(Settings!Frames)]
    BY <1>1, <1>15, <1>18 DEF Settings!Refused
  <2>2. sent' \in [Settings!Parties -> Seq(Values)]
    BY <1>18, <2>1, TheOtherIsAParty, ToldIsTheLastWord DEF Settings!Refused
  <2> QED
    BY <1>1, <1>18, <2>1, <2>2 DEF Settings!Refused, Settings!TypeOK
<1>19. ASSUME NEW x \in Settings!Parties, Settings!Answered(x) PROVE Settings!TypeOK'
  <2>1. (IF store # None THEN store ELSE entry) \in Values
        /\ asked' \in [Settings!Parties -> Seq(Settings!Frames)]
    BY <1>1, <1>15, <1>19 DEF Settings!Answered
  <2>2. sent' \in [Settings!Parties -> Seq(Values)]
    BY <1>19, <2>1, ToldIsTheLastWord DEF Settings!Answered
  <2> QED
    BY <1>1, <1>19, <2>1, <2>2 DEF Settings!Answered, Settings!TypeOK
<1>20. CASE UNCHANGED Settings!vars
  BY <1>1, <1>20 DEF Settings!vars, Settings!TypeOK
<1> QED
  BY <1>6, <1>7, <1>8, <1>9, <1>10, <1>11, <1>12, <1>13, <1>14, <1>16, <1>17, <1>18, <1>19, <1>20
     DEF Settings!Next

(* One party is told v, and the record, the sockets and the other party's     *)
(* frames stay: v has to be the record unless the party is not to be counted. *)
LEMMA ToldHolds ==
  ASSUME Settings!TypeOK, NEW x \in Settings!Parties, NEW v \in Values,
         sent' = Settings!Tell(x, v), store' # None => v = store', x \in up
  PROVE  store' # None => WillHold(x)'
BY ToldIsTheLastWord DEF WillHold, Coming

(* What a party will hold changes only with its frames, its belief and the    *)
(* record.                                                                    *)
LEMMA SameHolds ==
  ASSUME NEW x \in Settings!Parties, WillHold(x),
         sent'[x] = sent[x], belief'[x] = belief[x], store' = store
  PROVE  WillHold(x)'
BY DEF WillHold, Coming

LEMMA SilenceKept ==
  ASSUME SettingsInv, NEW x \in Settings!Parties, NEW v \in Values,
         sent' = Settings!Tell(x, v), up' = up
  PROVE  \A y \in Settings!Parties : y \notin up' => sent'[y] = <<>>
BY ToldIsTheLastWord DEF SettingsInv

(* The record stays, and the frames to the plugin are the record's or none.   *)
LEMMA PopulatedSettings ==
  ASSUME SettingsInv, entry' = Settings!SettingsFor(store, binding),
         sent' = Settings!Tell("plugin", Settings!SettingsFor(store, binding)),
         store' = store, up' = up, belief' = belief, writer' = writer
  PROVE  Settings!RegistryIsTheRecord' /\ PartiesWillHold'
         /\ \A x \in Settings!Parties : x \notin up' => sent'[x] = <<>>
<1>1. Settings!TypeOK /\ "plugin" \in Settings!Parties
  BY DEF SettingsInv, Settings!Parties
<1>2. /\ Settings!SettingsFor(store, binding) \in Values
      /\ store # None => Settings!SettingsFor(store, binding) = store
  BY <1>1, ValueForIsAValue
<1>3. ASSUME store' # None, NEW x \in Settings!Parties, Counts(x)', x # writer'
      PROVE  WillHold(x)'
  <2>1. CASE x = "plugin"
    BY <1>1, <1>2, <1>3, <2>1, ToldHolds DEF Counts
  <2>2. CASE x # "plugin"
    <3>1. WillHold(x)
      BY <1>3, <2>2 DEF SettingsInv, PartiesWillHold, Counts
    <3> QED
      BY <1>1, <1>2, <2>2, <3>1, SameHolds, ToldIsTheLastWord
  <2> QED
    BY <2>1, <2>2
<1> QED
  BY <1>1, <1>2, <1>3, SilenceKept DEF PartiesWillHold, Settings!RegistryIsTheRecord

(* The inductive invariant of the settings.                                   *)
LEMMA SettingsInvStep == SettingsInv /\ [Settings!Next]_(Settings!vars) => SettingsInv'
<1> SUFFICES ASSUME SettingsInv, [Settings!Next]_(Settings!vars) PROVE SettingsInv'
  OBVIOUS
<1> USE DEF Settings!RegistryIsTheRecord
<1>a. Settings!TypeOK /\ Settings!TypeOK'
  BY SettingsTypes DEF SettingsInv
<1>b. /\ sent \in [Settings!Parties -> Seq(Values)]
      /\ belief \in [Settings!Parties -> [value : Values \cup {None}, own : BOOLEAN]]
      /\ entry \in Values \cup {None}
  BY <1>a DEF Settings!TypeOK
<1>c. "plugin" \in Settings!Parties /\ "inspector" \in Settings!Parties
      /\ \A x \in Settings!Parties : x = "plugin" \/ x = "inspector"
  BY DEF Settings!Parties
<1>d. /\ entry # None /\ store # None => entry = store
      /\ ~open => entry = None
      /\ \A x \in Settings!Parties : x \notin up => sent[x] = <<>>
      /\ store # None => \A x \in Settings!Parties : Counts(x) /\ x # writer => WillHold(x)
  BY DEF SettingsInv, PartiesWillHold
<1>1. CASE Settings!DockArrives
  BY <1>a, <1>1, PopulatedSettings DEF Settings!DockArrives, SettingsInv
<1>2. CASE Settings!Populated
  BY <1>a, <1>2, PopulatedSettings DEF Settings!Populated, SettingsInv
<1>3. CASE Settings!DockLeaves
  <2>1. PartiesWillHold'
    BY <1>3, <1>d, SameHolds DEF Settings!DockLeaves, PartiesWillHold, Counts
  <2> QED
    BY <1>a, <1>d, <1>3, <2>1 DEF Settings!DockLeaves, SettingsInv
<1>4. CASE Settings!PluginRegisters
  <2>1. /\ Settings!SettingsFor(store, binding) \in Values
        /\ store # None => Settings!SettingsFor(store, binding) = store
    BY <1>a, ValueForIsAValue
  <2>2. sent'["plugin"] = (IF open THEN <<Settings!SettingsFor(store, binding)>> ELSE <<>>)
        /\ sent'["inspector"] = sent["inspector"]
    BY <1>4, <1>b, <1>c DEF Settings!PluginRegisters
  <2>3. Counts("plugin")' /\ store' # None => WillHold("plugin")'
    <3>1. Counts("plugin")' => open
      BY <1>4, <1>d DEF Settings!PluginRegisters, Counts
    <3>2. open => sent'["plugin"] = <<Settings!SettingsFor(store, binding)>>
      BY <2>2
    <3> QED
      BY <1>4, <2>1, <3>1, <3>2 DEF Settings!PluginRegisters, WillHold, Coming
  <2>4. Counts("inspector")' => Counts("inspector")
    BY <1>4 DEF Settings!PluginRegisters, Counts
  <2>5. PartiesWillHold'
    BY <1>4, <1>c, <1>d, <2>2, <2>3, <2>4, SameHolds DEF Settings!PluginRegisters, PartiesWillHold
  <2> QED
    BY <1>a, <1>c, <1>d, <1>4, <2>1, <2>2, <2>5 DEF Settings!PluginRegisters, SettingsInv
<1>5. CASE Settings!PluginDrops
  <2>1. sent'["plugin"] = <<>> /\ sent'["inspector"] = sent["inspector"]
        /\ belief'["inspector"] = belief["inspector"]
    BY <1>5, <1>b, <1>c DEF Settings!PluginDrops
  <2>2. PartiesWillHold'
    BY <1>5, <1>c, <1>d, <2>1, SameHolds DEF Settings!PluginDrops, PartiesWillHold, Counts
  <2> QED
    BY <1>a, <1>c, <1>d, <1>5, <2>1, <2>2 DEF Settings!PluginDrops, SettingsInv
<1>6. CASE Settings!InspectorOpens
  <2>1. belief'["inspector"] = Settings!Belief(entry, FALSE) /\ belief'["plugin"] = belief["plugin"]
        /\ sent'["inspector"] = <<>> /\ sent'["plugin"] = sent["plugin"]
    BY <1>6, <1>b, <1>c, <1>d DEF Settings!InspectorOpens
  <2>2. store' # None => WillHold("inspector")'
    BY <1>6, <1>d, <2>1 DEF Settings!InspectorOpens, Settings!Belief, WillHold, Coming
  <2>3. PartiesWillHold'
    BY <1>6, <1>c, <1>d, <2>1, <2>2, SameHolds DEF Settings!InspectorOpens, PartiesWillHold, Counts
  <2> QED
    BY <1>a, <1>c, <1>d, <1>6, <2>1, <2>3 DEF Settings!InspectorOpens, SettingsInv
<1>7. CASE Settings!InspectorCloses
  <2>1. sent'["inspector"] = <<>> /\ sent'["plugin"] = sent["plugin"]
        /\ belief'["plugin"] = belief["plugin"]
    BY <1>7, <1>b, <1>c DEF Settings!InspectorCloses
  <2>2. PartiesWillHold'
    BY <1>7, <1>c, <1>d, <2>1, SameHolds DEF Settings!InspectorCloses, PartiesWillHold, Counts
  <2> QED
    BY <1>a, <1>c, <1>d, <1>7, <2>1, <2>2 DEF Settings!InspectorCloses, SettingsInv
<1>8. ASSUME NEW x \in Settings!Parties, NEW v \in Values, Settings!Sets(x, v)
      PROVE  SettingsInv'
  <2>1. belief'[x].own /\ \A y \in Settings!Parties : y # x => belief'[y] = belief[y]
    BY <1>8, <1>b DEF Settings!Sets, Settings!Belief
  <2>2. ASSUME WillHold(x) PROVE WillHold(x)'
    BY <1>8, <2>1, <2>2 DEF Settings!Sets, WillHold, Coming
  <2>3. PartiesWillHold'
    BY <1>8, <1>d, <2>1, <2>2, SameHolds DEF Settings!Sets, PartiesWillHold, Counts
  <2> QED
    BY <1>a, <1>d, <1>8, <2>3 DEF Settings!Sets, SettingsInv
<1>9. ASSUME NEW x \in Settings!Parties, Settings!Gets(x) PROVE SettingsInv'
  <2>1. PartiesWillHold'
    BY <1>9, <1>d, SameHolds DEF Settings!Gets, PartiesWillHold, Counts
  <2> QED
    BY <1>a, <1>d, <1>9, <2>1 DEF Settings!Gets, SettingsInv
<1>10. ASSUME NEW x \in Settings!Parties, Settings!Receives(x) PROVE SettingsInv'
  <2>1. sent[x] \in Seq(Values) /\ sent[x] # <<>> /\ sent'[x] = Tail(sent[x])
        /\ belief'[x] = Settings!Belief(Head(sent[x]), FALSE)
        /\ \A y \in Settings!Parties : y # x => sent'[y] = sent[y] /\ belief'[y] = belief[y]
    BY <1>10, <1>b DEF Settings!Receives
  <2>2. ASSUME WillHold(x) PROVE WillHold(x)'
    <3>1. Coming(x) = store /\ store' = store
      BY <1>10, <2>1, <2>2 DEF WillHold, Settings!Receives
    <3>2. Tail(sent[x]) = <<>> => Head(sent[x]) = Coming(x)
      BY <2>1, TailKeepsComing DEF Coming
    <3>3. Tail(sent[x]) # <<>> => Coming(x)' = Coming(x)
      BY <2>1, TailKeepsComing DEF Coming
    <3> QED
      BY <2>1, <3>1, <3>2, <3>3 DEF WillHold, Settings!Belief
  <2>3. PartiesWillHold'
    BY <1>10, <1>d, <2>1, <2>2, SameHolds DEF Settings!Receives, PartiesWillHold, Counts
  <2> QED
    BY <1>a, <1>d, <1>10, <2>1, <2>3 DEF Settings!Receives, SettingsInv
<1>11. ASSUME NEW x \in Settings!Parties, Settings!Dropped(x) PROVE SettingsInv'
  <2>1. PartiesWillHold'
    BY <1>11, <1>d, SameHolds DEF Settings!Dropped, PartiesWillHold, Counts
  <2> QED
    BY <1>a, <1>d, <1>11, <2>1 DEF Settings!Dropped, SettingsInv
<1>12. ASSUME NEW x \in Settings!Parties, Settings!Stored(x) \/ Settings!Refused(x)
       PROVE  SettingsInv'
  <2> DEFINE y == Settings!Other(x)
  <2> DEFINE v == IF Settings!Stored(x) THEN Settings!Next1(x).value ELSE entry
  <2>1. y \in Settings!Parties /\ y # x /\ \A z \in Settings!Parties : z = x \/ z = y
    BY TheOtherIsAParty
  <2>2. v \in Values /\ entry' = v /\ up' = up /\ open' = open /\ writer' = x /\ entry # None
        /\ sent' = Settings!Tell(y, v) /\ (store' # None => store' = v)
    <3>1. CASE Settings!Stored(x)
      <4>1. Settings!Next1(x).value \in Values
        BY <3>1, <1>a, FramesStayTyped DEF Settings!Stored, Settings!Taken, Settings!Next1
      <4> QED
        BY <3>1, <4>1 DEF Settings!Stored
    <3>2. CASE ~Settings!Stored(x)
      <4>1. Settings!Refused(x)
        BY <1>12, <3>2
      <4> QED
        BY <3>2, <4>1, <1>b, <1>d DEF Settings!Refused
    <3> QED
      BY <3>1, <3>2
  <2> HIDE DEF y, v
  <2>3. store' # None /\ Counts(y)' => WillHold(y)'
    BY <1>a, <2>1, <2>2, ToldHolds DEF Counts
  <2>4. PartiesWillHold'
    BY <2>1, <2>2, <2>3 DEF PartiesWillHold
  <2>5. \A z \in Settings!Parties : z \notin up' => sent'[z] = <<>>
    BY <2>1, <2>2, SilenceKept
  <2> QED
    BY <1>a, <1>d, <2>2, <2>4, <2>5 DEF SettingsInv
<1>13. ASSUME NEW x \in Settings!Parties, Settings!Answered(x) PROVE SettingsInv'
  <2> DEFINE v == IF store # None THEN store ELSE entry
  <2>1. /\ v \in Values /\ sent' = Settings!Tell(x, v) /\ (store # None => v = store)
        /\ store' = store /\ entry' = entry /\ up' = up /\ open' = open
        /\ belief' = belief /\ writer' = writer
    BY <1>13, <1>a DEF Settings!Answered, Settings!TypeOK
  <2> HIDE DEF v
  <2>2. x \in up /\ store' # None => WillHold(x)'
    BY <1>a, <2>1, ToldHolds
  <2>3. \A z \in Settings!Parties : z # x => sent'[z] = sent[z]
    BY <1>a, <2>1, ToldIsTheLastWord
  <2>4. PartiesWillHold'
    BY <1>d, <2>1, <2>2, <2>3, SameHolds DEF PartiesWillHold, Counts
  <2>5. \A z \in Settings!Parties : z \notin up' => sent'[z] = <<>>
    BY <2>1, SilenceKept
  <2> QED
    BY <1>a, <1>d, <2>1, <2>4, <2>5 DEF SettingsInv
<1>14. CASE UNCHANGED Settings!vars
  <2>1. PartiesWillHold'
    BY <1>14, <1>d, SameHolds DEF Settings!vars, PartiesWillHold, Counts
  <2> QED
    BY <1>a, <1>d, <1>14, <2>1 DEF Settings!vars, SettingsInv
<1> QED
  BY <1>1, <1>2, <1>3, <1>4, <1>5, <1>6, <1>7, <1>8, <1>9, <1>10, <1>11, <1>12, <1>13, <1>14
     DEF Settings!Next

LEMMA SettingsInvAlways == Settings!Spec => []SettingsInv
<1>1. Settings!Init => SettingsInv
  <2>1. ASSUME Settings!Init PROVE Settings!TypeOK
    <3>1. Settings!Unsure \in [value : Values \cup {None}, own : BOOLEAN]
      BY DEF Settings!Unsure
    <3>2. belief \in [Settings!Parties -> [value : Values \cup {None}, own : BOOLEAN]]
      BY <2>1, <3>1 DEF Settings!Init
    <3>3. asked \in [Settings!Parties -> Seq(Settings!Frames)]
          /\ sent \in [Settings!Parties -> Seq(Values)]
      BY <2>1 DEF Settings!Init
    <3>4. up \subseteq Settings!Parties /\ open \in BOOLEAN
      BY <2>1 DEF Settings!Init
    <3>5. fails \in 0..MaxFails
      BY <2>1, SettingsAssumption DEF Settings!Init
    <3>6. store \in Values \cup {None} /\ entry \in Values \cup {None}
          /\ binding \in Values \cup {Empty} /\ writer \in Settings!Parties \cup {None}
      BY <2>1 DEF Settings!Init
    <3> QED
      BY <3>2, <3>3, <3>4, <3>5, <3>6 DEF Settings!TypeOK
  <2>2. ASSUME Settings!Init
        PROVE  /\ store = None /\ entry = None
               /\ \A x \in Settings!Parties : sent[x] = <<>>
    BY <2>2 DEF Settings!Init
  <2> QED
    BY <2>1, <2>2 DEF SettingsInv, PartiesWillHold, Settings!RegistryIsTheRecord
<1> QED
  BY <1>1, SettingsInvStep, PTL DEF Settings!Spec

(* The plugin and the inspector write one instance's settings over sockets of *)
(* their own.  Whatever is set, asked, refused by the disk, closed, retired   *)
(* and populated again, in any order and with any number of frames under way, *)
(* what is registered is what is on disk, and once nothing is under way the   *)
(* party that did not write last holds it (handleSettingsAction).             *)
THEOREM SettingsStayAgreed == Settings!Spec => []SettingsAgree
<1>1. ASSUME SettingsInv PROVE SettingsAgree
  <2>1. ASSUME Settings!Quiet, entry # None, store # None, NEW x \in up,
               x # writer, ~belief[x].own
        PROVE  belief[x].value = store
    <3>1. x \in Settings!Parties
      BY <1>1 DEF SettingsInv, Settings!TypeOK
    <3>2. Counts(x)
      BY <2>1 DEF Counts
    <3>3. WillHold(x)
      BY <1>1, <2>1, <3>1, <3>2 DEF SettingsInv, PartiesWillHold
    <3> QED
      BY <2>1, <3>1, <3>3 DEF WillHold, Settings!Quiet
  <2>2. Settings!RegistryIsTheRecord
    BY <1>1 DEF SettingsInv
  <2> QED
    BY <2>1, <2>2 DEF SettingsAgree, Settings!OtherPartyKnows
<1> QED
  BY <1>1, SettingsInvAlways, PTL

(* The tables of the bridge and those of the settings keep their types.       *)
THEOREM BothStayTyped == Spec /\ Settings!Spec => []BothTypesOK
<1>1. SettingsInv => Settings!TypeOK
  BY DEF SettingsInv
<1>2. TypeOK /\ Settings!TypeOK => BothTypesOK
  BY DEF BothTypesOK
<1> QED
  BY <1>1, <1>2, TablesStayTyped, SettingsInvAlways, PTL

=============================================================================
