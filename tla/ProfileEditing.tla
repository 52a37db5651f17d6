--------------------------- MODULE ProfileEditing ---------------------------
(* The edits of the profile in memory (ProfileController): bindings are       *)
(* committed, moved, swapped and removed, chains grow and shrink, folders are *)
(* made and walked, toggles are given states and cycled, a plugin's bindings  *)
(* go with it.  Every edit is written at once, and those who show the profile *)
(* are told to read it again.                                                 *)
(* A slot is a key of the open page, a dial or a touch zone.  A binding has   *)
(* the chain of its press (or tap), whatever its other triggers do (side), a  *)
(* look, and perhaps an instance with states of their own look.               *)
EXTENDS Naturals, Sequences, FiniteSets

CONSTANTS Keys, FirstKey, Dials, Zones, Folders, Root, Actions, Owner, Controllers, Volume, Toggle, GoBack,
          Looks, Plain, Settings, None, MaxEdits, MaxFails

VARIABLES prof, nav, disk, seen, unsaved, left, fails
vars == <<prof, nav, disk, seen, unsaved, left, fails>>

Slots == Keys \cup Dials \cup Zones
SameKind(s, t) == \E K \in {Keys, Dials, Zones} : {s, t} \subseteq K
Empty == [chain |-> <<>>, side |-> None, look |-> Plain, inst |-> None]
Step(a, v) == [act |-> a, set |-> v]
NoKeys == [k \in Keys |-> None]
NewProfile == [pages |-> [f \in Folders \cup {Root} |-> IF f = Root THEN NoKeys ELSE None],
               rest |-> [s \in Dials \cup Zones |-> None]]

(* activeKeyMap: the keys of the page that is open, or of the root.           *)
Page(p, stack) == IF p.pages[stack[Len(stack)]] = None THEN Root ELSE stack[Len(stack)]
At(s) == IF s \in Keys THEN prof.pages[Page(prof, nav)][s] ELSE prof.rest[s]
With(p, s, b) == IF s \in Keys THEN [p EXCEPT !.pages[Page(prof, nav)][s] = b]
                               ELSE [p EXCEPT !.rest[s] = b]
Put(s, b) == With(prof, s, b)
Made(s) == IF At(s) = None THEN Empty ELSE At(s)

(* What the canvas shows: the open page, dials and zones, without settings.   *)
Face(b) == IF b = None THEN None
           ELSE <<[i \in DOMAIN b.chain |-> b.chain[i].act], b.look, b.inst # None>>
Seen(p, stack) == [page |-> stack,
                   keys |-> [k \in Keys |-> Face(p.pages[Page(p, stack)][k])],
                   rest |-> [s \in Dials \cup Zones |-> Face(p.rest[s])]]

(* Bug: the edit is shown and left for a later one to write.                  *)
CommitUnsaved(p) == /\ left > 0 /\ left' = left - 1 /\ prof' = p /\ nav' = nav
                    /\ seen' = Seen(p, nav) /\ UNCHANGED <<disk, unsaved, fails>>
(* saveActiveProfile and profileChanged.                                      *)
Commit(p) ==
  /\ left > 0 /\ left' = left - 1 /\ prof' = p /\ nav' = nav /\ seen' = Seen(p, nav)
  /\ \/ disk' = p /\ unsaved' = FALSE /\ fails' = fails
     \/ fails < MaxFails /\ fails' = fails + 1 /\ unsaved' = TRUE /\ disk' = disk

Init == /\ prof = NewProfile /\ nav = <<Root>> /\ disk = NewProfile /\ seen = Seen(prof, nav)
        /\ unsaved = FALSE /\ left = MaxEdits /\ fails = 0
-----------------------------------------------------------------------------
(* One action is bound to a slot; the instance of the slot stays.             *)
Bind(s, a, v) == Commit(Put(s, [Made(s) EXCEPT !.chain = <<Step(a, CHOOSE x \in Settings : TRUE)>>,
                                               !.look = v]))
BindVolume(d) == Commit(Put(d, [Made(d) EXCEPT !.chain = <<Step(Volume, None)>>, !.side = Volume,
                                               !.look = Plain]))
Append1(k, a) == /\ Len(Made(k).chain) < 2
                 /\ Commit(Put(k, [Made(k) EXCEPT !.chain =
                                     Append(@, Step(a, CHOOSE x \in Settings : TRUE))]))
Reorder(k) == /\ At(k) # None /\ Len(At(k).chain) = 2
              /\ Commit(Put(k, [At(k) EXCEPT !.chain = <<@[2], @[1]>>]))
Without(seq, i) == SubSeq(seq, 1, i - 1) \o SubSeq(seq, i + 1, Len(seq))
RemoveStep(k, i) == /\ At(k) # None /\ i \in DOMAIN At(k).chain
                    /\ Commit(Put(k, [At(k) EXCEPT !.chain = Without(@, i)]))
RemoveBinding(s) == s \notin Keys /\ At(s) # None /\ Commit(Put(s, None))

(* A folder is a page with a key that leads back, and a key that opens it.    *)
BackKey == [Empty EXCEPT !.chain = <<Step(GoBack, None)>>]
MakeFolder(k, f) ==
  /\ prof.pages[f] = None
  /\ LET made == [prof EXCEPT !.pages[f] = [NoKeys EXCEPT ![FirstKey] = BackKey]]
         door == [Made(k) EXCEPT !.chain = <<Step(f, None)>>, !.side = None, !.look = Plain]
     IN  Commit(With(made, k, door))

Walk(stack) == /\ nav' = stack /\ seen' = Seen(prof, stack)
               /\ UNCHANGED <<prof, disk, unsaved, left, fails>>
EnterFolder(f) == /\ prof.pages[f] # None /\ nav[Len(nav)] # f /\ Len(nav) < 3
                  /\ Walk(Append(nav, f))
GoBackPage == Len(nav) > 1 /\ Walk(SubSeq(nav, 1, Len(nav) - 1))
GoToRoot == Len(nav) > 1 /\ Walk(<<Root>>)
-----------------------------------------------------------------------------
(* Toggles.  A toggle of fewer than two states is none; its live state stays  *)
(* through an edit of its states if it can.                                   *)
HasInstance(s) == s \notin Zones /\ At(s) # None /\ At(s).inst # None
Instance(i, states, cur) == [id |-> i, states |-> states, cur |-> cur, set |-> None]
SetStates(k, states) ==
  LET old == IF Made(k).inst = None THEN 0 ELSE Made(k).inst.cur
      cur == IF old < Len(states) THEN old ELSE 0
  IN  Commit(Put(k, IF Len(states) < 2 THEN [Made(k) EXCEPT !.inst = None]
                    ELSE [Made(k) EXCEPT !.inst = Instance(Toggle, states, cur),
                                         !.look = states[cur + 1]]))
Turn(s, n) == Commit(Put(s, [At(s) EXCEPT !.inst.cur = n, !.look = At(s).inst.states[n + 1]]))
Cycle(s) == /\ HasInstance(s) /\ Len(At(s).inst.states) > 1
            /\ Turn(s, (At(s).inst.cur + 1) % Len(At(s).inst.states))
SetCurrent(s, n) == /\ HasInstance(s) /\ n < Len(At(s).inst.states) /\ n # At(s).inst.cur
                    /\ Turn(s, n)

(* The look of one state is edited; the instance, and the states before that  *)
(* one, are made if need be.  A zone has only its look.                       *)
Extended(states, n) == states \o [i \in 1..(IF n < Len(states) THEN 0 ELSE n + 1 - Len(states)) |-> Plain]
SetVisual(s, n, v) ==
  /\ At(s) # None
  /\ LET id == IF At(s).chain = <<>> THEN None ELSE At(s).chain[1].act
         old == IF At(s).inst = None THEN Instance(id, <<>>, 0) ELSE At(s).inst
         inst == [old EXCEPT !.states = [Extended(@, n) EXCEPT ![n + 1] = v]]
     IN  Commit(Put(s, IF s \in Zones THEN [At(s) EXCEPT !.look = v]
                       ELSE [At(s) EXCEPT !.inst = inst,
                                          !.look = IF inst.cur = n THEN v ELSE @]))

(* A plugin's settings go to every step of a plugin; the canvas is not told.  *)
SetSettings(s, v) ==
  /\ At(s) # None
  /\ LET c == At(s).chain
         set == [At(s) EXCEPT !.chain = [i \in DOMAIN c |->
                   IF c[i].act \in Actions THEN Step(c[i].act, v) ELSE c[i]]]
     IN  Commit(Put(s, IF set.inst = None THEN set ELSE [set EXCEPT !.inst.set = v]))
-----------------------------------------------------------------------------
Swap(s, t) == s # t /\ SameKind(s, t) /\ Commit(With(Put(s, Made(t)), t, Made(s)))

(* A move or a copy; between kinds, only what both have goes along.           *)
Carried(s, t) ==
  IF SameKind(s, t) THEN At(s)
  ELSE [At(s) EXCEPT !.side = None, !.inst = IF s \in Zones \/ t \in Zones THEN None ELSE @]
Transfer(s, t, retain) ==
  /\ s # t /\ At(s) # None
  /\ Commit(With(IF retain THEN prof ELSE Put(s, None), t, Carried(s, t)))

(* A plugin is uninstalled: the bindings of the root, of dials and of zones   *)
(* that start with an action of it go.                                        *)
IsOf(b, q) == b # None /\ \/ b.chain # <<>> /\ b.chain[1].act \in Actions /\ Owner[b.chain[1].act] = q
                          \/ b.inst # None /\ b.inst.id \in Actions /\ Owner[b.inst.id] = q
ClearPlugin(q) ==
  LET Kept(m) == [s \in DOMAIN m |-> IF IsOf(m[s], q) THEN None ELSE m[s]]
      kept == [prof EXCEPT !.pages[Root] = Kept(@), !.rest = Kept(@)]
  IN  kept # prof /\ Commit(kept)

Reset == Commit([pages |-> [f \in DOMAIN prof.pages |-> IF prof.pages[f] = None THEN None ELSE NoKeys],
                 rest |-> NewProfile.rest])
(* The program starts again, or the profile is loaded again.                  *)
Reload == /\ prof' = disk /\ nav' = <<Root>> /\ seen' = Seen(disk, <<Root>>) /\ unsaved' = FALSE
          /\ UNCHANGED <<disk, left, fails>>

-----------------------------------------------------------------------------
(* The web interface knows two controllers and numbers the zones after the    *)
(* keys.  An action that says which controllers it is for goes to no other.   *)
ControllerOf(s) == IF s \in Dials THEN "Encoder" ELSE "Keypad"
CreateInstance(s, a) == /\ Controllers[a] = {} \/ ControllerOf(s) \in Controllers[a]
                        /\ Bind(s, a, Plain)
RemoveInstance(s) == IF s \in Keys THEN RemoveStep(s, 1) ELSE RemoveBinding(s)
MoveInstance(s, t) == \E retain \in BOOLEAN : Transfer(s, t, retain)
SetState(s) == \E n \in 0..1, v \in Looks : SetVisual(s, n, v)

Next ==
  \/ \E s \in Slots : \/ \E a \in Actions, v \in Looks : Bind(s, a, v) \/ CreateInstance(s, a)
                      \/ \E v \in Settings : SetSettings(s, v)
                      \/ SetState(s) \/ RemoveInstance(s)
                      \/ Cycle(s) \/ \E n \in 0..1 : SetCurrent(s, n)
                      \/ \E t \in Slots : Swap(s, t) \/ MoveInstance(s, t)
  \/ \E k \in Keys : \/ \E a \in Actions : Append1(k, a)
                     \/ Reorder(k) \/ RemoveStep(k, 2) \/ \E f \in Folders : MakeFolder(k, f)
                     \/ \E states \in {<<>>, <<Plain, Plain>>} \cup {<<v, Plain>> : v \in Looks} :
                          SetStates(k, states)
  \/ \E d \in Dials : BindVolume(d)
  \/ \E f \in Folders : EnterFolder(f)
  \/ GoBackPage \/ GoToRoot \/ Reset \/ Reload
  \/ \E a \in Actions : ClearPlugin(Owner[a])

Spec == Init /\ [][Next]_vars
-----------------------------------------------------------------------------
Everything(p) == (UNION {{p.pages[f][k] : k \in Keys} : f \in {g \in DOMAIN p.pages : p.pages[g] # None}})
                 \cup {p.rest[s] : s \in DOMAIN p.rest}

(* Whatever the edit, the slot and the page it was made on: the file is the   *)
(* profile in memory unless its last write failed, the canvas shows what is   *)
(* in memory, the page it shows exists, and the live state of every instance  *)
(* is one of its states.                                                      *)
EditsReachDiskAndView ==
  /\ ~ unsaved => disk = prof
  /\ seen = Seen(prof, nav)
  /\ \A i \in DOMAIN nav : prof.pages[nav[i]] # None
  /\ \A b \in Everything(prof) \ {None} : b.inst # None =>
       b.inst.cur < Len(b.inst.states) \/ b.inst.cur = 0

Chains == UNION {[1..n -> [act : Actions \cup Folders \cup {Volume, GoBack}, set : Settings \cup {None}]] : n \in 0..2}
Bindings == [chain : Chains, side : {None, Volume}, look : Looks \cup {Plain},
             inst : {None} \cup [id : Actions \cup Folders \cup {Toggle, Volume, GoBack, None},
                                 states : UNION {[1..n -> Looks \cup {Plain}] : n \in 0..2},
                                 cur : 0..1, set : Settings \cup {None}]]
TypeOK ==
  /\ Everything(prof) \subseteq Bindings \cup {None}
  /\ DOMAIN prof.pages = Folders \cup {Root} /\ DOMAIN prof.rest = Dials \cup Zones
  /\ nav # <<>> /\ unsaved \in BOOLEAN /\ left \in 0..MaxEdits /\ fails \in 0..MaxFails
=============================================================================
