------------------------ MODULE PluginLifecycleProofs ------------------------
(***************************************************************************)
(* Proofs about PluginLifecycle for any set of plugins, any manifest, any  *)
(* crash policy and any bounds.  The inductive invariant adds to the       *)
(* properties what they rest on: which entries an HTML plugin can have.    *)
(***************************************************************************)
EXTENDS PluginLifecycle, FiniteSetTheorems, TLAPS

(* Only an HTML plugin has an "html" entry, and it has no other.            *)
EntriesFitKinds ==
  \A p \in Plugins : live[p] # "absent" => (live[p] = "html" <=> Kind[p] = "html")

IInv ==
  /\ TypeOK
  /\ EntriesFitKinds
  /\ UserDisabledStaysDown
  /\ PagesMatchEntries
  /\ OneTeardownQueued
  /\ HtmlIsNeverRestarted

(* Dropping the crash times that left the window leaves a list of times.    *)
LEMMA PruneType ==
  ASSUME NEW STATE times, times \in Seq(Nat)
  PROVE  Prune(times) \in Seq(Nat)
<1>1. IsFiniteSet(1 .. Len(times))
  BY FS_Interval
<1>2. Stale(times) \subseteq 1 .. Len(times)
  BY DEF Stale
<1>3. Cardinality(Stale(times)) \in Nat
  BY <1>1, <1>2, FS_Subset, FS_CardinalityType
<1>4. QED
  BY <1>3 DEF Prune

(* Recording the signals of one death leaves a list of times.               *)
LEMMA RecordedType ==
  ASSUME NEW STATE times, times \in Seq(Nat), now \in Nat, NEW n \in 0 .. 2
  PROVE  Recorded(times, n) \in Seq(Nat)
<1>1. /\ Append(times, now) \in Seq(Nat)
      /\ Append(Append(times, now), now) \in Seq(Nat)
  OBVIOUS
<1>2. /\ Prune(Append(times, now)) \in Seq(Nat)
      /\ Prune(Append(Append(times, now), now)) \in Seq(Nat)
  BY <1>1, PruneType
<1>3. CASE n = 0
  BY <1>3 DEF Recorded
<1>4. CASE n = 1
  BY <1>2, <1>4 DEF Recorded
<1>5. CASE n = 2
  BY <1>2, <1>5 DEF Recorded
<1>6. QED
  BY <1>3, <1>4, <1>5

(* onProcessFailed keeps the crash bookkeeping well formed, and queues a     *)
(* teardown exactly for the plugins it marks.                               *)
LEMMA OnProcessFailedKeeps ==
  ASSUME TypeOK, OneTeardownQueued, NEW STATE n, n \in [Plugins -> 0 .. 2], OnProcessFailed(n)
  PROVE  /\ credits' \in [Plugins -> Seq(Nat)]
         /\ queued' \in [Plugins -> Nat]
         /\ failurePending' \in SUBSET Plugins
         /\ OneTeardownQueued'
         /\ failurePending' = failurePending \cup Failed(n)
<1>1. credits' \in [Plugins -> Seq(Nat)]
  BY RecordedType DEF OnProcessFailed, TypeOK
<1>2. Failed(n) \subseteq Plugins
  BY DEF Failed
<1>3. QED
  BY <1>1, <1>2 DEF OnProcessFailed, Scheduled, TypeOK, OneTeardownQueued
(* The two facts about entries and pages, over the tables in the middle of   *)
(* a handler.                                                               *)
FitKinds(lv) ==
  \A p \in Plugins : lv[p] # "absent" => (lv[p] = "html" <=> Kind[p] = "html")

HtmlUuids(lv) == {Reg[p] : p \in {q \in Plugins : lv[q] = "html"}}

(* spawn() keeps tables that fit the plugins, adds the pages of the HTML     *)
(* plugins it starts, and starts nothing the user disabled.                 *)
LEMMA SpawnKeeps ==
  ASSUME NEW STATE S, S \subseteq Plugins, NEW nodeFound \in BOOLEAN,
         NEW STATE lv, lv \in [Plugins -> EntryState],
         NEW STATE pg, NEW STATE dis, dis \subseteq Plugins,
         FitKinds(lv), pg = HtmlUuids(lv),
         \A p \in userDisabled' : lv[p] = "absent",
         userDisabled' \subseteq Plugins,
         Spawn(S, nodeFound, lv, pg, dis)
  PROVE  /\ live' \in [Plugins -> EntryState]
         /\ pages' \subseteq Uuids
         /\ disabled' \subseteq Plugins
         /\ EntriesFitKinds'
         /\ UserDisabledStaysDown'
         /\ PagesMatchEntries'
<1> DEFINE T == Spawned(S, nodeFound)
<1>1. T \subseteq Plugins /\ \A p \in T : p \notin userDisabled'
  BY DEF Spawned, SkipSpawn
<1>2. live' = [p \in Plugins |-> IF p \in T THEN Fresh(p) ELSE lv[p]]
  BY DEF Spawn
<1>3. live' \in [Plugins -> EntryState]
  BY <1>2 DEF Fresh, EntryState
<1>4. EntriesFitKinds'
  BY <1>2 DEF EntriesFitKinds, FitKinds, Fresh
<1>5. UserDisabledStaysDown'
  BY <1>1, <1>2 DEF UserDisabledStaysDown
<1>6. PagesMatchEntries'
  <2>1. pages' = pg \cup {Reg[p] : p \in {q \in T : Kind[q] = "html"}}
    BY DEF Spawn
  <2>2. {q \in Plugins : live'[q] = "html"}
          = {q \in Plugins : lv[q] = "html"} \cup {q \in T : Kind[q] = "html"}
    BY <1>1, <1>2 DEF FitKinds, Fresh, EntryState
  <2>3. QED
    BY <2>1, <2>2 DEF PagesMatchEntries, HtmlUuids
<1>7. pages' \subseteq Uuids
  BY <1>6, UuidAssumption DEF PagesMatchEntries
<1>8. disabled' \subseteq Plugins
  BY DEF Spawn
<1>9. QED
  BY <1>3, <1>4, <1>5, <1>6, <1>7, <1>8

(* unloadPlugin() of the keys in S takes them, and nothing else, out of m_live *)
(* and m_htmlPages.                                                         *)
LEMMA UnloadKeeps ==
  ASSUME IInv, NEW STATE S, S \subseteq Plugins
  PROVE  /\ LiveWithout(S) \in [Plugins -> EntryState]
         /\ FitKinds(LiveWithout(S))
         /\ PagesWithout(S) = HtmlUuids(LiveWithout(S))
         /\ \A q \in userDisabled \cup S : LiveWithout(S)[q] = "absent"
<1>1. LiveWithout(S) \in [Plugins -> EntryState]
  BY DEF IInv, TypeOK, LiveWithout, EntryState
<1>2. FitKinds(LiveWithout(S))
  BY DEF IInv, TypeOK, EntriesFitKinds, FitKinds, LiveWithout
<1>3. \A q \in Plugins : LiveWithout(S)[q] = IF q \in S THEN "absent" ELSE live[q]
  BY DEF LiveWithout
<1>4. \A q, r \in Plugins : q # r => Reg[q] # r /\ Reg[q] # Reg[r]
  BY RegDistinct
<1>5. PagesWithout(S) = HtmlUuids(LiveWithout(S))
  <2>1. pages = HtmlUuids(live)
    BY DEF IInv, PagesMatchEntries, HtmlUuids
  <2>2. ASSUME NEW u \in PagesWithout(S) PROVE u \in HtmlUuids(LiveWithout(S))
    <3>1. PICK q \in Plugins : live[q] = "html" /\ u = Reg[q]
      BY <2>1, <2>2 DEF PagesWithout, HtmlUuids
    <3>2. q \notin S
      BY <2>2, <3>1 DEF PagesWithout, Found
    <3> QED
      BY <1>3, <3>1, <3>2 DEF HtmlUuids
  <2>3. ASSUME NEW u \in HtmlUuids(LiveWithout(S)) PROVE u \in PagesWithout(S)
    <3>1. PICK q \in Plugins : LiveWithout(S)[q] = "html" /\ u = Reg[q]
      BY <2>3 DEF HtmlUuids
    <3>2. q \notin S /\ live[q] = "html"
      BY <1>3, <3>1
    <3>3. \A r \in S : u # r /\ u # Reg[r]
      BY <1>4, <3>1, <3>2
    <3> QED
      BY <2>1, <3>1, <3>2, <3>3 DEF PagesWithout, HtmlUuids, Found
  <2> QED
    BY <2>2, <2>3
<1>6. \A q \in userDisabled \cup S : LiveWithout(S)[q] = "absent"
  BY <1>3 DEF IInv, TypeOK, UserDisabledStaysDown
<1>7. QED
  BY <1>1, <1>2, <1>5, <1>6

(* The signals of one death concern one plugin, which owns a child.          *)
LEMMA OnlyConcerns ==
  ASSUME NEW p \in Plugins, NEW STATE k, k \in 0 .. 2
  PROVE  /\ Only(p, k) \in [Plugins -> 0 .. 2]
         /\ Failed(Only(p, k)) \subseteq {p}
         /\ k = 0 => Failed(Only(p, k)) = {}
BY DEF Only, Failed

LEMMA FiresType == ASSUME NEW how \in Terminations PROVE Fires[how] \in 0 .. 2
BY DEF Fires, Terminations, Deaths

LEMMA StopConcerns ==
  ASSUME NEW STATE S, S \subseteq Plugins, NEW STATE how, how \in Stops(S)
  PROVE  /\ StopFires(S, how) \in [Plugins -> 0 .. 2]
         /\ \A q \in Failed(StopFires(S, how)) : q \in S /\ HasChild(live[q])
<1>1. ASSUME NEW q \in Plugins, q \in S, HasChild(live[q]) PROVE Fires[how[q]] \in 0 .. 2
  <2>1. how[q] \in Terminations
    BY <1>1 DEF Stops
  <2> QED
    BY <2>1, FiresType
<1> QED
  BY <1>1 DEF StopFires, Failed

(* Deaths that go through onProcessFailed for plugins that own a child leave  *)
(* the bookkeeping in order and never touch an HTML plugin.                 *)
LEMMA DeathKeeps ==
  ASSUME IInv,
         NEW STATE n, n \in [Plugins -> 0 .. 2], \A q \in Failed(n) : HasChild(live[q]),
         OnProcessFailed(n), UNCHANGED restarts
  PROVE  /\ credits' \in [Plugins -> Seq(Nat)]
         /\ queued' \in [Plugins -> Nat]
         /\ failurePending' \in SUBSET Plugins
         /\ OneTeardownQueued'
         /\ HtmlIsNeverRestarted'
<1>1. TypeOK /\ OneTeardownQueued
  BY DEF IInv
<1>2. failurePending' = failurePending \cup Failed(n)
  BY <1>1, OnProcessFailedKeeps
<1>3. \A q \in Failed(n) : Kind[q] # "html"
  BY DEF IInv, EntriesFitKinds, HasChild, Failed
<1>4. HtmlIsNeverRestarted'
  BY <1>2, <1>3 DEF IInv, HtmlIsNeverRestarted
<1>5. QED
  BY <1>1, <1>4, OnProcessFailedKeeps

LEMMA InitKeeps == Init => IInv
<1> SUFFICES ASSUME Init PROVE IInv
  OBVIOUS
<1>1. <<>> \in Seq(Nat)
  OBVIOUS
<1>2. TypeOK
  BY <1>1 DEF Init, TypeOK, EntryState
<1>3. PagesMatchEntries
  BY DEF Init, PagesMatchEntries
<1>4. QED
  BY <1>2, <1>3 DEF Init, IInv, EntriesFitKinds, UserDisabledStaysDown, OneTeardownQueued,
                    HtmlIsNeverRestarted

(* Handlers that only spawn: the session's start, rediscover and enable.     *)
LEMMA StartersKeep ==
  ASSUME IInv, NEW nodeFound \in BOOLEAN,
         \/ Launch(nodeFound)
         \/ Rediscover(nodeFound)
         \/ \E p \in Plugins : UserEnable(p, nodeFound)
  PROVE  IInv'
<1> DEFINE Good(S) == S \subseteq Plugins /\ Spawn(S, nodeFound, live, pages, disabled)
<1>1. /\ up' \in BOOLEAN /\ installed' \subseteq Plugins /\ userDisabled' \subseteq userDisabled
      /\ exitAppTo' = {} /\ UNCHANGED <<now, failures, history>>
  BY DEF Launch, Rediscover, UserEnable, external, IInv, TypeOK
<1>2. \/ Good(installed)
      \/ Good({p \in installed : live[p] = "absent"})
      \/ \E p \in Plugins : Good({q \in installed \cap {p} : live[q] = "absent"})
  BY <1>1 DEF Launch, Rediscover, UserEnable, IInv, TypeOK
<1>3. PICK S \in SUBSET Plugins : Spawn(S, nodeFound, live, pages, disabled)
  BY <1>2
<1>4. /\ FitKinds(live) /\ pages = HtmlUuids(live)
      /\ \A p \in userDisabled' : live[p] = "absent"
      /\ live \in [Plugins -> EntryState] /\ disabled \subseteq Plugins
      /\ userDisabled' \subseteq Plugins
  BY <1>1 DEF IInv, TypeOK, EntriesFitKinds, FitKinds, PagesMatchEntries, HtmlUuids,
              UserDisabledStaysDown
<1>5. /\ live' \in [Plugins -> EntryState] /\ pages' \subseteq Uuids
      /\ disabled' \subseteq Plugins
      /\ EntriesFitKinds' /\ UserDisabledStaysDown' /\ PagesMatchEntries'
  BY <1>3, <1>4, SpawnKeeps
<1>6. OneTeardownQueued' /\ HtmlIsNeverRestarted'
  BY <1>1 DEF IInv, OneTeardownQueued, HtmlIsNeverRestarted, failures, history
<1>7. TypeOK'
  BY <1>1, <1>4, <1>5 DEF IInv, TypeOK, failures, history
<1>8. QED
  BY <1>5, <1>6, <1>7 DEF IInv
(* A child that starts, or goes away by itself.                              *)
LEMMA ChildrenKeep ==
  ASSUME IInv, NEW p \in Plugins,
         \/ ProcessStarted(p)
         \/ \E how \in Deaths : ProcessExits(p, how)
         \/ \E announced \in BOOLEAN : FailsToStart(p, announced)
  PROVE  IInv'
<1> USE DEF external, failures, history
<1>1. ASSUME NEW state \in {"running", "dead", "exited"},
             live[p] \in {"starting", "running"}, live' = [live EXCEPT ![p] = state],
             UNCHANGED <<userDisabled, pages>>
      PROVE  /\ live' \in [Plugins -> EntryState] /\ EntriesFitKinds'
             /\ UserDisabledStaysDown' /\ PagesMatchEntries'
  <2>1. live' \in [Plugins -> EntryState]
    BY <1>1 DEF IInv, TypeOK, EntryState
  <2>2. EntriesFitKinds' /\ UserDisabledStaysDown'
    BY <1>1 DEF IInv, TypeOK, EntriesFitKinds, UserDisabledStaysDown
  <2>3. {q \in Plugins : live'[q] = "html"} = {q \in Plugins : live[q] = "html"}
    BY <1>1 DEF IInv, TypeOK
  <2>4. PagesMatchEntries'
    BY <1>1, <2>3 DEF IInv, PagesMatchEntries
  <2>5. QED
    BY <2>1, <2>2, <2>4
<1>2. CASE ProcessStarted(p)
  <2>1. /\ live' \in [Plugins -> EntryState] /\ EntriesFitKinds'
        /\ UserDisabledStaysDown' /\ PagesMatchEntries'
    BY <1>1, <1>2 DEF ProcessStarted
  <2>2. OneTeardownQueued' /\ HtmlIsNeverRestarted'
    BY <1>2 DEF ProcessStarted, IInv, OneTeardownQueued, HtmlIsNeverRestarted
  <2>3. TypeOK'
    BY <1>2, <2>1 DEF ProcessStarted, IInv, TypeOK
  <2>4. QED
    BY <2>1, <2>2, <2>3 DEF IInv
<1>3. ASSUME NEW k \in 0 .. 2, NEW state \in {"dead", "exited"},
             live[p] \in {"starting", "running"}, Gone(p, k, state), deaths' \in [Plugins -> Nat]
      PROVE  IInv'
  <2>1. /\ live' \in [Plugins -> EntryState] /\ EntriesFitKinds'
        /\ UserDisabledStaysDown' /\ PagesMatchEntries'
    BY <1>1, <1>3 DEF Gone
  <2>2. /\ Only(p, k) \in [Plugins -> 0 .. 2]
        /\ \A q \in Failed(Only(p, k)) : HasChild(live[q])
    BY <1>3, OnlyConcerns DEF HasChild
  <2>3. /\ credits' \in [Plugins -> Seq(Nat)]
        /\ queued' \in [Plugins -> Nat]
        /\ failurePending' \in SUBSET Plugins
        /\ OneTeardownQueued' /\ HtmlIsNeverRestarted'
    BY <1>3, <2>2, DeathKeeps DEF Gone
  <2>4. disabled' \subseteq Plugins
    BY <1>3 DEF Gone, Tripped, Failed, IInv, TypeOK
  <2>5. TypeOK'
    BY <1>3, <2>1, <2>3, <2>4 DEF Gone, IInv, TypeOK
  <2>6. QED
    BY <2>1, <2>3, <2>5 DEF IInv
<1>4. deaths \in [Plugins -> Nat] /\ OneMore(p) \in [Plugins -> Nat]
  BY DEF IInv, TypeOK, OneMore
<1>5. ASSUME NEW how \in Deaths, ProcessExits(p, how) PROVE IInv'
  <2>1. Fires[how] \in 0 .. 2
    BY <1>5, FiresType DEF Terminations
  <2>2. QED
    BY <1>3, <1>4, <1>5, <2>1 DEF ProcessExits
<1>6. ASSUME NEW announced \in BOOLEAN, FailsToStart(p, announced) PROVE IInv'
  <2>1. deaths' \in [Plugins -> Nat]
    BY <1>4, <1>6 DEF FailsToStart
  <2>2. QED
    BY <1>3, <1>6, <2>1 DEF FailsToStart
<1>7. QED
  BY <1>2, <1>5, <1>6

(* The queued teardown.                                                      *)
LEMMA TeardownKeeps ==
  ASSUME IInv, NEW p \in Plugins, NEW nodeFound \in BOOLEAN, HandleProcessFailure(p, nodeFound)
  PROVE  IInv'
<1> USE DEF external
<1>1. p \in failurePending /\ queued[p] = 1
  BY DEF HandleProcessFailure, Due, IInv, OneTeardownQueued
<1>2. Kind[p] # "html" /\ live[p] # "html"
  BY <1>1 DEF IInv, HtmlIsNeverRestarted, EntriesFitKinds
<1>3. /\ queued' = [queued EXCEPT ![p] = 0] /\ failurePending' = failurePending \ {p}
      /\ UNCHANGED <<up, installed, userDisabled, now, credits, deaths>> /\ exitAppTo' = {}
  BY <1>1 DEF HandleProcessFailure, Unmarked, IInv, TypeOK
<1>4. restarts' \in [Plugins -> Seq(Nat)] /\ \A q \in Plugins \ {p} : restarts'[q] = restarts[q]
  <2>1. restarts' = restarts \/ restarts' = [restarts EXCEPT ![p] = Append(@, now)]
    BY DEF HandleProcessFailure
  <2>2. restarts \in [Plugins -> Seq(Nat)] /\ now \in Nat
    BY DEF IInv, TypeOK
  <2>3. Append(restarts[p], now) \in Seq(Nat)
    BY <2>2
  <2>4. QED
    BY <2>1, <2>2, <2>3
<1>5. OneTeardownQueued' /\ HtmlIsNeverRestarted'
  BY <1>2, <1>3, <1>4 DEF IInv, TypeOK, OneTeardownQueued, HtmlIsNeverRestarted
<1>6. /\ LiveWithout({p}) \in [Plugins -> EntryState] /\ FitKinds(LiveWithout({p}))
      /\ \A q \in userDisabled : LiveWithout({p})[q] = "absent"
  BY UnloadKeeps
<1>7. pages = HtmlUuids(LiveWithout({p})) /\ pages = HtmlUuids(live)
  <2>1. {q \in Plugins : LiveWithout({p})[q] = "html"} = {q \in Plugins : live[q] = "html"}
    BY <1>2 DEF LiveWithout, IInv, TypeOK
  <2>2. QED
    BY <2>1 DEF IInv, PagesMatchEntries, HtmlUuids
<1>8. /\ live' \in [Plugins -> EntryState] /\ pages' \subseteq Uuids /\ disabled' \subseteq Plugins
      /\ EntriesFitKinds' /\ UserDisabledStaysDown' /\ PagesMatchEntries'
  <2>1. CASE Backed(live[p]) /\ p \notin disabled
    <3>1. Spawn({p}, nodeFound, LiveWithout({p}), pages, disabled)
      BY <2>1 DEF HandleProcessFailure, Respawns
    <3>2. userDisabled' \subseteq Plugins /\ disabled \subseteq Plugins
      BY <1>3 DEF IInv, TypeOK
    <3>3. QED
      BY <1>3, <1>6, <1>7, <3>1, <3>2, SpawnKeeps
  <2>2. CASE ~(Backed(live[p]) /\ p \notin disabled)
    <3>1. live' \in {LiveWithout({p}), live} /\ UNCHANGED <<pages, disabled>>
      BY <2>2 DEF HandleProcessFailure, Respawns
    <3>2. FitKinds(live) /\ live \in [Plugins -> EntryState]
      BY DEF IInv, TypeOK, EntriesFitKinds, FitKinds
    <3>3. EntriesFitKinds' /\ live' \in [Plugins -> EntryState]
      BY <3>1, <3>2, <1>6 DEF EntriesFitKinds, FitKinds
    <3>4. PagesMatchEntries'
      BY <3>1, <1>7 DEF PagesMatchEntries, HtmlUuids
    <3>5. UserDisabledStaysDown'
      BY <3>1, <1>3, <1>6 DEF IInv, UserDisabledStaysDown
    <3>6. pages' \subseteq Uuids /\ disabled' \subseteq Plugins
      BY <3>1 DEF IInv, TypeOK
    <3>7. QED
      BY <3>3, <3>4, <3>5, <3>6
  <2>3. QED
    BY <2>1, <2>2
<1>9. TypeOK'
  BY <1>3, <1>4, <1>8 DEF IInv, TypeOK
<1>10. QED
  BY <1>5, <1>8, <1>9 DEF IInv
(* The handlers that unload, S being the keys they look up: alone, or before  *)
(* a rediscovery.                                                           *)
LEMMA UnloadersKeep ==
  ASSUME IInv, NEW STATE S, S \subseteq Plugins, NEW STATE how, how \in Stops(S),
         UNCHANGED <<up, now, deaths, restarts>>,
         installed' \subseteq Plugins, userDisabled' \subseteq userDisabled \cup S,
         Unload(S, how) \/ \E nodeFound \in BOOLEAN : UnloadAndRediscover(S, how, nodeFound)
  PROVE  IInv'
<1> DEFINE n == StopFires(S, how)
<1>1. n \in [Plugins -> 0 .. 2] /\ \A q \in Failed(n) : HasChild(live[q])
  BY StopConcerns
<1>2. OnProcessFailed(n) /\ exitAppTo' = ExitApp(S)
  BY DEF Unload, UnloadAndRediscover
<1>3. /\ credits' \in [Plugins -> Seq(Nat)]
      /\ queued' \in [Plugins -> Nat]
      /\ failurePending' \in SUBSET Plugins
      /\ OneTeardownQueued' /\ HtmlIsNeverRestarted'
  BY <1>1, <1>2, DeathKeeps
<1>4. /\ LiveWithout(S) \in [Plugins -> EntryState]
      /\ FitKinds(LiveWithout(S))
      /\ PagesWithout(S) = HtmlUuids(LiveWithout(S))
      /\ \A q \in userDisabled \cup S : LiveWithout(S)[q] = "absent"
  BY UnloadKeeps
<1>5. /\ PagesWithout(S) \subseteq Uuids
      /\ disabled \cup Tripped(n) \subseteq Plugins
      /\ ExitApp(S) \subseteq Uuids
      /\ userDisabled' \subseteq Plugins
  BY UuidAssumption DEF IInv, TypeOK, PagesWithout, Tripped, Failed, ExitApp, Found
<1>6. /\ live' \in [Plugins -> EntryState] /\ pages' \subseteq Uuids /\ disabled' \subseteq Plugins
      /\ EntriesFitKinds' /\ UserDisabledStaysDown' /\ PagesMatchEntries'
  <2>1. CASE live' = LiveWithout(S) /\ pages' = PagesWithout(S) /\ disabled' = disabled \cup Tripped(n)
    <3>1. EntriesFitKinds' /\ PagesMatchEntries'
      BY <2>1, <1>4 DEF EntriesFitKinds, FitKinds, PagesMatchEntries, HtmlUuids
    <3>2. UserDisabledStaysDown'
      BY <2>1, <1>4 DEF UserDisabledStaysDown
    <3>3. QED
      BY <2>1, <3>1, <3>2, <1>4, <1>5
  <2>2. ASSUME NEW nodeFound \in BOOLEAN, UnloadAndRediscover(S, how, nodeFound)
        PROVE  /\ live' \in [Plugins -> EntryState] /\ pages' \subseteq Uuids
               /\ disabled' \subseteq Plugins
               /\ EntriesFitKinds' /\ UserDisabledStaysDown' /\ PagesMatchEntries'
    <3> DEFINE A == {p \in installed' : LiveWithout(S)[p] = "absent"}
    <3>1. A \subseteq Plugins
      OBVIOUS
    <3>2. Spawn(A, nodeFound, LiveWithout(S), PagesWithout(S), disabled \cup Tripped(n))
      BY <2>2 DEF UnloadAndRediscover
    <3>3. \A q \in userDisabled' : LiveWithout(S)[q] = "absent"
      BY <1>4
    <3> HIDE DEF A, n
    <3>4. QED
      BY <1>4, <1>5, <3>1, <3>2, <3>3, SpawnKeeps
  <2>3. QED
    BY <2>1, <2>2 DEF Unload
<1>7. TypeOK'
  BY <1>2, <1>3, <1>5, <1>6 DEF IInv, TypeOK
<1>8. QED
  BY <1>3, <1>6, <1>7 DEF IInv

(* Which handlers those are, and what they look up.                          *)
Stopper(S, how) ==
  /\ UNCHANGED <<up, now, deaths, restarts>>
  /\ installed' \subseteq Plugins
  /\ \/ userDisabled' \subseteq userDisabled \cup S /\ Unload(S, how)
     \/ /\ UNCHANGED userDisabled
        /\ \E nodeFound \in BOOLEAN : UnloadAndRediscover(S, how, nodeFound)

LEMMA UserSteps ==
  ASSUME IInv, NEW p \in Plugins, UserStep(p)
  PROVE  /\ up /\ up' = up
         /\ \/ \E S \in SUBSET Plugins : \E how \in Stops(S) : Stopper(S, how)
            \/ Refuse(p)
            \/ \E nodeFound \in BOOLEAN : UserEnable(p, nodeFound)
<1> USE DEF external
<1>0. installed \subseteq Plugins
  BY DEF IInv, TypeOK
<1>1. ASSUME NEW how \in Stops({p}), UserDisable(p, how) \/ InstallFails(p, how)
      PROVE  up /\ Stopper({p}, how)
  BY <1>0, <1>1 DEF UserDisable, InstallFails, Stopper
<1>2. ASSUME NEW how \in Stops(Announced(p)), Uninstall(p, how)
      PROVE  up /\ Stopper(Announced(p), how) /\ Announced(p) \subseteq Plugins
  BY <1>0, <1>2 DEF Uninstall, Stopper, Announced
<1>3. ASSUME NEW inPlace \in BOOLEAN, NEW nodeFound \in BOOLEAN,
             NEW how \in Stops(Replaced(p, inPlace) \cup Twins(p)),
             Install(p, inPlace, how, nodeFound)
      PROVE  /\ up /\ Stopper(Replaced(p, inPlace) \cup Twins(p), how)
             /\ Replaced(p, inPlace) \cup Twins(p) \subseteq Plugins
  <2>1. Replaced(p, inPlace) \cup Twins(p) \subseteq Plugins
    BY <1>0 DEF Replaced, Twins
  <2>2. up /\ installed' \subseteq Plugins /\ UNCHANGED <<up, userDisabled, now, deaths, restarts>>
        /\ UnloadAndRediscover(Replaced(p, inPlace) \cup Twins(p), how, nodeFound)
    BY <1>0, <1>3 DEF Install
  <2> QED
    BY <2>1, <2>2 DEF Stopper
<1>4. ASSUME NEW how \in Stops({p}), NEW nodeFound \in BOOLEAN, Reload(p, how, nodeFound)
      PROVE  up /\ Stopper({p}, how)
  BY <1>0, <1>4 DEF Reload, Stopper
<1>5. ASSUME Refuse(p) \/ \E nodeFound \in BOOLEAN : UserEnable(p, nodeFound) PROVE up /\ up' = up
  BY <1>5 DEF Refuse, UserEnable
<1>6. ASSUME NEW S \in SUBSET Plugins, NEW how \in Stops(S), Stopper(S, how) PROVE up' = up
  BY <1>6 DEF Stopper
<1>7. CASE \E how \in Stops({p}) : UserDisable(p, how) \/ InstallFails(p, how)
  BY <1>1, <1>6, <1>7
<1>8. CASE \E how \in Stops(Announced(p)) : Uninstall(p, how)
  BY <1>2, <1>6, <1>8
<1>9. CASE \E inPlace, nodeFound \in BOOLEAN :
             \E how \in Stops(Replaced(p, inPlace) \cup Twins(p)) :
               Install(p, inPlace, how, nodeFound)
  BY <1>3, <1>6, <1>9
<1>10. CASE \E how \in Stops({p}), nodeFound \in BOOLEAN : Reload(p, how, nodeFound)
  BY <1>4, <1>6, <1>10
<1> QED
  BY <1>5, <1>7, <1>8, <1>9, <1>10 DEF UserStep

LEMMA UsersKeep == ASSUME IInv, NEW p \in Plugins, UserStep(p) PROVE IInv'
<1>1. ASSUME NEW S \in SUBSET Plugins, NEW how \in Stops(S), Stopper(S, how) PROVE IInv'
  BY <1>1, UnloadersKeep DEF Stopper
<1>2. CASE Refuse(p)
  <2> USE DEF table, failures, history
  <2>1. /\ installed' \subseteq Plugins /\ exitAppTo' = {}
        /\ UNCHANGED <<up, live, pages, disabled, userDisabled, now, failurePending, queued,
                       credits, deaths, restarts>>
    BY <1>2 DEF Refuse, IInv, TypeOK
  <2>2. TypeOK'
    BY <2>1 DEF IInv, TypeOK
  <2> QED
    BY <2>1, <2>2 DEF IInv, EntriesFitKinds, UserDisabledStaysDown, PagesMatchEntries,
                      OneTeardownQueued, HtmlIsNeverRestarted
<1> QED
  BY <1>1, <1>2, UserSteps, StartersKeep

LEMMA SessionEndKeeps == ASSUME IInv, Shutdown \/ HostDies PROVE IInv'
<1> USE DEF external
<1>1. EndSession /\ exitAppTo' \subseteq Uuids
  BY UuidAssumption DEF Shutdown, HostDies
<1>2. <<>> \in Seq(Nat)
  OBVIOUS
<1>3. TypeOK'
  BY <1>1, <1>2 DEF EndSession, IInv, TypeOK, EntryState
<1>4. PagesMatchEntries'
  BY <1>1 DEF EndSession, PagesMatchEntries
<1>5. EntriesFitKinds' /\ UserDisabledStaysDown' /\ OneTeardownQueued' /\ HtmlIsNeverRestarted'
  BY <1>1 DEF EndSession, EntriesFitKinds, UserDisabledStaysDown, OneTeardownQueued,
              HtmlIsNeverRestarted, IInv, TypeOK
<1>6. QED
  BY <1>3, <1>4, <1>5 DEF IInv

LEMMA IdleKeeps == ASSUME IInv, Tick \/ UNCHANGED vars PROVE IInv'
<1> USE DEF table, failures, history, vars
<1>1. now' \in Nat /\ exitAppTo' \subseteq Uuids
  BY DEF Tick, IInv, TypeOK
<1>2. /\ up' = up /\ installed' = installed /\ live' = live /\ pages' = pages
      /\ disabled' = disabled /\ userDisabled' = userDisabled
      /\ failurePending' = failurePending /\ queued' = queued /\ credits' = credits
      /\ deaths' = deaths /\ restarts' = restarts
  BY DEF Tick
<1>3. TypeOK'
  BY <1>1, <1>2 DEF IInv, TypeOK
<1>4. QED
  BY <1>2, <1>3 DEF IInv, EntriesFitKinds, UserDisabledStaysDown, PagesMatchEntries,
                    OneTeardownQueued, HtmlIsNeverRestarted

LEMMA StepKeeps == IInv /\ [Next]_vars => IInv'
<1> SUFFICES ASSUME IInv, [Next]_vars PROVE IInv'
  OBVIOUS
<1>1. CASE UNCHANGED vars
  BY <1>1, IdleKeeps
<1>2. CASE SessionStep
  BY <1>2, StartersKeep, SessionEndKeeps, IdleKeeps DEF SessionStep
<1>3. ASSUME NEW p \in Plugins, ChildStep(p) PROVE IInv'
  BY <1>3, ChildrenKeep, TeardownKeeps DEF ChildStep
<1>4. ASSUME NEW p \in Plugins, UserStep(p) PROVE IInv'
  BY <1>4, UsersKeep
<1>5. QED
  BY <1>1, <1>2, <1>3, <1>4 DEF Next

(* The tables and the crash bookkeeping keep their shape for ever.           *)
THEOREM TypeCorrect == Spec => []TypeOK
<1>1. IInv => TypeOK
  BY DEF IInv
<1>2. QED
  BY <1>1, InitKeeps, StepKeeps, PTL DEF Spec

(* A plugin the user disabled is never in m_live.                            *)
THEOREM UserDisabledIsDown == Spec => []UserDisabledStaysDown
<1>1. IInv => UserDisabledStaysDown
  BY DEF IInv
<1>2. QED
  BY <1>1, InitKeeps, StepKeeps, PTL DEF Spec

(* m_htmlPages holds the pages of the live HTML plugins and no other.        *)
THEOREM PagesAreThoseOfEntries == Spec => []PagesMatchEntries
<1>1. IInv => PagesMatchEntries
  BY DEF IInv
<1>2. QED
  BY <1>1, InitKeeps, StepKeeps, PTL DEF Spec

(* Signals of one failure are coalesced into one queued teardown.            *)
THEOREM TeardownsAreCoalesced == Spec => []OneTeardownQueued
<1>1. IInv => OneTeardownQueued
  BY DEF IInv
<1>2. QED
  BY <1>1, InitKeeps, StepKeeps, PTL DEF Spec

(* No failure is ever booked for an HTML plugin, so none is ever restarted.   *)
THEOREM HtmlStaysInjectedOnce == Spec => []HtmlIsNeverRestarted
<1>1. IInv => HtmlIsNeverRestarted
  BY DEF IInv
<1>2. QED
  BY <1>1, InitKeeps, StepKeeps, PTL DEF Spec

(* The manager's tables always agree (all of the above).                    *)
THEOREM EntriesAlwaysAgree == Spec => []EntriesAgree
  BY UserDisabledIsDown, PagesAreThoseOfEntries, TeardownsAreCoalesced, HtmlStaysInjectedOnce,
     PTL DEF EntriesAgree

-----------------------------------------------------------------------------
(***************************************************************************)
(* Restarts are rationed.                                                  *)
(***************************************************************************)
(* A list of crash times is in order and none lies in the future.           *)
InOrder(times) ==
  \A i, j \in 1 .. Len(times) : i <= j => times[i] <= times[j] /\ times[j] <= now

(* At least m of the recorded crash times are no earlier than t.            *)
Covers(times, m, t) == m <= Len(times) /\ times[Len(times) - m + 1] >= t

(* The m-th restart from the end, if the window still holds it, is one of   *)
(* m restarts that each answer a crash of their own, and a queued teardown  *)
(* answers one more.                                                        *)
CrashesCover(p) ==
  \A j \in 1 .. Len(restarts[p]) :
    \/ restarts[p][j] + Window < now
    \/ Covers(credits[p], Len(restarts[p]) - j + 1 + queued[p], restarts[p][j])

(* A teardown in the queue answers a crash of this tick.                    *)
TeardownIsFresh(p) == queued[p] > 0 => Covers(credits[p], 1, now)

(* A plugin whose crashes reach the threshold is disabled at once.          *)
TrippedIsDisabled(p) == p \notin disabled => Len(credits[p]) < Threshold

Rationed(times) ==
  \A i \in 1 .. (Len(times) + 1 - Threshold) : times[i] + Window < times[i + Threshold - 1]

RationOf(p) ==
  /\ InOrder(credits[p])
  /\ CrashesCover(p)
  /\ TeardownIsFresh(p)
  /\ TrippedIsDisabled(p)
  /\ Rationed(restarts[p])

RationInv == \A p \in Plugins : RationOf(p)

(* Between sessions there is no entry and no queued teardown.               *)
DownIsEmpty == up \/ \A p \in Plugins : live[p] = "absent" /\ queued[p] = 0

(* Pruning drops a prefix of the list, and no time the window still holds.   *)
LEMMA PruneDrops ==
  ASSUME NEW STATE times, times \in Seq(Nat), InOrder(times), now \in Nat
  PROVE  \E k \in 0 .. Len(times) :
           /\ Prune(times) = SubSeq(times, k + 1, Len(times))
           /\ \A i \in 1 .. Len(times) : times[i] + Window >= now => k < i
<1> DEFINE k == Cardinality(Stale(times))
<1>1. ASSUME NEW i \in 1 .. Len(times) + 1,
             \A j \in i .. Len(times) : times[j] + Window >= now
      PROVE  k \in Nat /\ k <= i - 1
  <2>1. IsFiniteSet(1 .. i - 1) /\ Cardinality(1 .. i - 1) = i - 1
    <3>1. 1 \in Int /\ i - 1 \in Int /\ i - 1 >= 0
      BY <1>1
    <3>2. /\ IsFiniteSet(1 .. (i - 1))
          /\ Cardinality(1 .. (i - 1)) = IF 1 > i - 1 THEN 0 ELSE (i - 1) - 1 + 1
      BY ONLY <3>1, FS_Interval, Zenon
    <3> HIDE DEF k
    <3>3. QED
      BY <3>1, <3>2
  <2>2. Stale(times) \subseteq 1 .. i - 1
    BY <1>1, WindowAssumption DEF Stale
  <2>3. QED
    BY <2>1, <2>2, FS_Subset, FS_CardinalityType
<1>2. k \in 0 .. Len(times)
  BY <1>1
<1>3. ASSUME NEW i \in 1 .. Len(times), times[i] + Window >= now PROVE k < i
  <2>1. \A j \in i .. Len(times) : times[j] + Window >= now
    BY <1>3, WindowAssumption DEF InOrder
  <2>2. k \in Nat /\ k <= i - 1
    BY <2>1, <1>1
  <2>3. QED
    BY <2>2
<1>4. Prune(times) = SubSeq(times, k + 1, Len(times))
  BY DEF Prune
<1> HIDE DEF k
<1> QED
  BY <1>2, <1>3, <1>4

(* Recording a crash keeps the times in order, ends the list with the        *)
(* present, and counts one more than before against any time the window     *)
(* still holds.                                                             *)
LEMMA RecordedCovers ==
  ASSUME NEW STATE times, times \in Seq(Nat), InOrder(times), now \in Nat, NEW n \in 1 .. 2
  PROVE  /\ InOrder(Recorded(times, n))
         /\ Covers(Recorded(times, n), 1, now)
         /\ \A m \in 1 .. Len(times), t \in Nat :
              t + Window >= now /\ Covers(times, m, t) => Covers(Recorded(times, n), m + 1, t)
<1> DEFINE long == IF n = 1 THEN Append(times, now) ELSE Append(Append(times, now), now)
           d == Recorded(times, n)
<1>1. /\ long \in Seq(Nat) /\ Len(long) = Len(times) + n
      /\ \A i \in 1 .. Len(long) : long[i] \in Nat
      /\ \A i \in 1 .. Len(times) : long[i] = times[i]
      /\ \A i \in Len(times) + 1 .. Len(long) : long[i] = now
  OBVIOUS
<1>2. InOrder(long)
  BY <1>1 DEF InOrder
<1>3. d = Prune(long)
  BY DEF Recorded
<1> HIDE DEF long, d
<1>4. PICK k \in 0 .. Len(long) :
        /\ d = SubSeq(long, k + 1, Len(long))
        /\ \A i \in 1 .. Len(long) : long[i] + Window >= now => k < i
  BY <1>1, <1>2, <1>3, PruneDrops
<1>5. d \in Seq(Nat) /\ Len(d) = Len(long) - k /\ \A i \in 1 .. Len(d) : d[i] = long[k + i]
  BY <1>1, <1>4
<1>6. InOrder(d)
  <2> SUFFICES ASSUME NEW i \in 1 .. Len(d), NEW j \in 1 .. Len(d), i <= j
               PROVE  d[i] <= d[j] /\ d[j] <= now
    BY DEF InOrder
  <2>1. /\ k + i \in 1 .. Len(long) /\ k + j \in 1 .. Len(long) /\ k + i <= k + j
        /\ d[i] = long[k + i] /\ d[j] = long[k + j]
    BY <1>1, <1>5
  <2>2. QED
    BY <1>2, <2>1 DEF InOrder
<1>7. ASSUME NEW m \in 1 .. Len(long), long[Len(long) - m + 1] + Window >= now
      PROVE  m <= Len(d) /\ d[Len(d) - m + 1] = long[Len(long) - m + 1]
  <2>1. k < Len(long) - m + 1
    BY <1>1, <1>4, <1>7
  <2>2. m <= Len(d) /\ Len(d) - m + 1 \in 1 .. Len(d)
    BY <1>1, <1>5, <2>1
  <2>3. k + (Len(d) - m + 1) = Len(long) - m + 1
    BY <1>1, <1>5
  <2>4. d[Len(d) - m + 1] = long[k + (Len(d) - m + 1)]
    BY <1>5, <2>2
  <2>5. QED
    BY <2>2, <2>3, <2>4
<1>8. Covers(d, 1, now)
  <2>1. long[Len(long) - 1 + 1] = now
    BY <1>1
  <2>2. 1 <= Len(d) /\ d[Len(d) - 1 + 1] = now
    BY <1>1, <1>7, <2>1, WindowAssumption
  <2>3. QED
    BY <2>2 DEF Covers
<1>9. ASSUME NEW m \in 1 .. Len(times), NEW t \in Nat, t + Window >= now, Covers(times, m, t)
      PROVE  Covers(d, m + 1, t)
  <2>1. m + 1 \in 1 .. Len(long)
    BY <1>1
  <2>2. times[Len(times) - m + 1] >= t /\ Len(times) - m + 1 \in 1 .. Len(times)
    BY <1>9 DEF Covers
  <2>3. long[Len(times) - m + 1] >= t
    BY <1>1, <2>2
  <2> DEFINE a == Len(times) - m + 1
             b == Len(long) - (m + 1) + 1
  <2>4. a \in 1 .. Len(long) /\ b \in 1 .. Len(long) /\ a <= b
    BY <1>1
  <2> HIDE DEF a, b
  <2>5. long[a] \in Nat /\ long[b] \in Nat
    BY <1>1, <2>4
  <2>6. long[a] <= long[b]
    BY <1>2, <2>4 DEF InOrder
  <2>7. long[b] >= t /\ long[b] + Window >= now
    <3> DEFINE x == long[a]
               y == long[b]
    <3>1. x \in Nat /\ y \in Nat /\ x <= y
      BY <2>5, <2>6
    <3>2. x >= t
      BY <2>3 DEF a
    <3>3. t \in Nat /\ now \in Nat /\ Window \in Nat /\ t + Window >= now
      BY <1>9, <1>1, WindowAssumption
    <3> HIDE DEF x, y
    <3>4. y >= t /\ y + Window >= now
      BY <3>1, <3>2, <3>3
    <3> QED
      BY <3>4 DEF y
  <2>8. QED
    BY <1>7, <2>1, <2>7 DEF Covers, b
<1> QED
  BY <1>6, <1>8, <1>9 DEF d

(***************************************************************************)
(* What one step does to a plugin's crash record, queue and restarts.      *)
(***************************************************************************)
StaysDisabled(p) == p \in disabled => p \in disabled'

Untouched(p) ==
  /\ credits'[p] = credits[p] /\ queued'[p] = queued[p] /\ restarts'[p] = restarts[p]
  /\ now' = now /\ StaysDisabled(p)

Crashes(p) ==
  /\ \E n \in 1 .. 2 : credits'[p] = Recorded(credits[p], n)
  /\ queued'[p] = 1 /\ restarts'[p] = restarts[p] /\ now' = now
  /\ StaysDisabled(p) /\ (ShouldDisable(credits'[p]) => p \in disabled')

TornDown(p) ==
  /\ queued[p] = 1 /\ queued'[p] = 0
  /\ credits'[p] = credits[p] /\ now' = now /\ StaysDisabled(p)
  /\ \/ restarts'[p] = restarts[p]
     \/ restarts'[p] = Append(restarts[p], now) /\ p \notin disabled

Ticked(p) ==
  /\ queued[p] = 0 /\ now' = now + 1 /\ StaysDisabled(p)
  /\ credits'[p] = credits[p] /\ queued'[p] = queued[p] /\ restarts'[p] = restarts[p]

Reset(p) == credits'[p] = <<>> /\ queued'[p] = 0 /\ restarts'[p] = <<>> /\ now' = now

(* The signals of deaths crash the plugins they concern and no other.        *)
LEMMA DeathEffect ==
  ASSUME IInv, NEW STATE n, n \in [Plugins -> 0 .. 2], OnProcessFailed(n),
         disabled \cup Tripped(n) \subseteq disabled', UNCHANGED <<restarts, now>>,
         NEW p \in Plugins
  PROVE  Untouched(p) \/ Crashes(p)
<1>1. queued[p] = IF p \in failurePending THEN 1 ELSE 0
  BY DEF IInv, OneTeardownQueued
<1>2. CASE p \in Failed(n)
  <2>1. n[p] \in 1 .. 2 /\ credits'[p] = Recorded(credits[p], n[p])
    BY <1>2 DEF Failed, OnProcessFailed
  <2>2. queued'[p] = 1
    BY <1>1, <1>2 DEF Scheduled, OnProcessFailed
  <2>3. ShouldDisable(credits'[p]) => p \in disabled'
    BY <1>2, <2>1 DEF Tripped
  <2>4. QED
    BY <2>1, <2>2, <2>3 DEF Crashes, StaysDisabled
<1>3. CASE p \notin Failed(n)
  BY <1>3 DEF Scheduled, OnProcessFailed, Untouched, StaysDisabled
<1> QED
  BY <1>2, <1>3

(* Every step leaves a plugin alone or does one of five things to it.        *)
LEMMA StepEffect ==
  ASSUME IInv, [Next]_vars, NEW p \in Plugins
  PROVE  Untouched(p) \/ Crashes(p) \/ TornDown(p) \/ Ticked(p) \/ Reset(p)
<1> USE DEF external, failures, history
<1>1. CASE UNCHANGED vars
  BY <1>1 DEF vars, Untouched, StaysDisabled
<1>2. CASE Tick
  BY <1>2 DEF Tick, table, Ticked, StaysDisabled
<1>3. CASE Shutdown \/ HostDies
  BY <1>3 DEF Shutdown, HostDies, EndSession, Reset
<1>4. ASSUME NEW nodeFound \in BOOLEAN,
             \/ Launch(nodeFound)
             \/ Rediscover(nodeFound)
             \/ \E q \in Plugins : UserEnable(q, nodeFound)
      PROVE  Untouched(p)
  BY <1>4 DEF Launch, Rediscover, UserEnable, Spawn, Untouched, StaysDisabled
<1>5. ASSUME NEW q \in Plugins, ProcessStarted(q) PROVE Untouched(p)
  BY <1>5 DEF ProcessStarted, Untouched, StaysDisabled
<1>6. ASSUME NEW q \in Plugins, NEW k \in 0 .. 2, NEW state, Gone(q, k, state)
      PROVE  Untouched(p) \/ Crashes(p)
  <2>1. Only(q, k) \in [Plugins -> 0 .. 2]
    BY DEF Only
  <2> DEFINE n == Only(q, k)
  <2>2. /\ OnProcessFailed(n) /\ disabled \cup Tripped(n) \subseteq disabled'
        /\ UNCHANGED <<restarts, now>>
    BY <1>6 DEF Gone
  <2> HIDE DEF n
  <2>3. QED
    BY <2>1, <2>2, DeathEffect DEF n
<1>7. ASSUME NEW q \in Plugins, NEW how \in Deaths, ProcessExits(q, how)
      PROVE  Untouched(p) \/ Crashes(p)
  <2>1. Fires[how] \in 0 .. 2
    BY <1>7, FiresType DEF Terminations
  <2>2. QED
    BY <1>6, <1>7, <2>1 DEF ProcessExits
<1>8. ASSUME NEW q \in Plugins, NEW announced \in BOOLEAN, FailsToStart(q, announced)
      PROVE  Untouched(p) \/ Crashes(p)
  BY <1>6, <1>8 DEF FailsToStart
<1>9. ASSUME NEW q \in Plugins, NEW nodeFound \in BOOLEAN, HandleProcessFailure(q, nodeFound)
      PROVE  Untouched(p) \/ TornDown(p)
  <2>1. queued[q] = 1 /\ queued \in [Plugins -> Nat] /\ restarts \in [Plugins -> Seq(Nat)]
    BY <1>9 DEF HandleProcessFailure, Due, IInv, TypeOK, OneTeardownQueued
  <2>2. /\ queued' = [queued EXCEPT ![q] = 0] /\ UNCHANGED <<credits, now>>
        /\ disabled \subseteq disabled'
    BY <1>9, <2>1 DEF HandleProcessFailure, Spawn
  <2>3. \/ restarts' = restarts
        \/ restarts' = [restarts EXCEPT ![q] = Append(@, now)] /\ q \notin disabled
    BY <1>9 DEF HandleProcessFailure, Respawns
  <2>4. QED
    BY <2>1, <2>2, <2>3 DEF Untouched, TornDown, StaysDisabled
<1>10. ASSUME NEW S \in SUBSET Plugins, NEW how \in Stops(S), Stopper(S, how)
       PROVE  Untouched(p) \/ Crashes(p)
  <2> DEFINE n == StopFires(S, how)
  <2>1. n \in [Plugins -> 0 .. 2]
    BY StopConcerns
  <2>2. /\ OnProcessFailed(n) /\ disabled \cup Tripped(n) \subseteq disabled'
        /\ UNCHANGED <<restarts, now>>
    BY <1>10 DEF Stopper, Unload, UnloadAndRediscover, Spawn
  <2> HIDE DEF n
  <2>3. QED
    BY <2>1, <2>2, DeathEffect
<1>11. ASSUME NEW q \in Plugins, Refuse(q) PROVE Untouched(p)
  BY <1>11 DEF Refuse, table, Untouched, StaysDisabled
<1>12. ASSUME NEW q \in Plugins, UserStep(q) PROVE Untouched(p) \/ Crashes(p)
  BY <1>4, <1>10, <1>11, <1>12, UserSteps
<1> QED
  BY <1>1, <1>2, <1>3, <1>4, <1>5, <1>7, <1>8, <1>9, <1>12
     DEF Next, SessionStep, ChildStep

(* Against a later or equal count, fewer crashes are covered too.            *)
LEMMA CoversFewer ==
  ASSUME NEW STATE times, times \in Seq(Nat), InOrder(times), NEW t \in Nat,
         NEW m \in Nat, NEW k \in 1 .. m, Covers(times, m, t)
  PROVE  Covers(times, k, t)
<1> DEFINE a == Len(times) - m + 1
           b == Len(times) - k + 1
<1>1. m <= Len(times) /\ times[a] >= t
  BY DEF Covers
<1>2. a \in 1 .. Len(times) /\ b \in 1 .. Len(times) /\ a <= b /\ k <= Len(times)
  BY <1>1
<1> HIDE DEF a, b
<1>3. times[a] \in Nat /\ times[b] \in Nat /\ times[a] <= times[b]
  BY <1>2 DEF InOrder
<1> QED
  BY <1>1, <1>2, <1>3 DEF Covers, b

(* The types of one plugin's record.                                         *)
RecordType(p) ==
  /\ credits[p] \in Seq(Nat) /\ restarts[p] \in Seq(Nat) /\ queued[p] \in 0 .. 1
  /\ now \in Nat

LEMMA RecordTyped == ASSUME IInv, NEW p \in Plugins PROVE RecordType(p)
BY DEF IInv, TypeOK, OneTeardownQueued, RecordType

(* A crash is one more recorded time against one more queued teardown.       *)
LEMMA CrashKeeps ==
  ASSUME NEW p \in Plugins, RecordType(p), RecordType(p)', RationOf(p), Crashes(p)
  PROVE  RationOf(p)'
<1> DEFINE c == credits[p]
           r == restarts[p]
<1>1. /\ c \in Seq(Nat) /\ InOrder(c) /\ now \in Nat /\ r \in Seq(Nat)
      /\ queued[p] \in 0 .. 1 /\ queued'[p] = 1 /\ restarts'[p] = r /\ now' = now
  BY DEF RecordType, RationOf, Crashes
<1>2. PICK n \in 1 .. 2 : credits'[p] = Recorded(c, n)
  BY DEF Crashes
<1> DEFINE d == Recorded(c, n)
<1>3. /\ InOrder(d) /\ Covers(d, 1, now)
      /\ \A m \in 1 .. Len(c), t \in Nat :
           t + Window >= now /\ Covers(c, m, t) => Covers(d, m + 1, t)
  BY <1>1, RecordedCovers
<1>4. d \in Seq(Nat) /\ credits'[p] = d
  BY <1>1, <1>2, RecordedType
<1> HIDE DEF c, d
<1>5. InOrder(credits[p])'
  BY <1>1, <1>3, <1>4 DEF InOrder
<1>6. TeardownIsFresh(p)'
  BY <1>1, <1>3, <1>4 DEF TeardownIsFresh, Covers
<1>7. TrippedIsDisabled(p)'
  <2>1. Len(d) \in Nat
    BY <1>4
  <2>2. QED
    BY <1>4, <2>1, WindowAssumption DEF Crashes, TrippedIsDisabled, ShouldDisable
<1>8. CrashesCover(p)'
  <2> SUFFICES ASSUME NEW j \in 1 .. Len(r), ~(r[j] + Window < now)
               PROVE  Covers(d, Len(r) - j + 1 + 1, r[j])
    BY <1>1, <1>4 DEF CrashesCover, Covers
  <2> DEFINE k == Len(r) - j + 1
             m == k + queued[p]
  <2>1. r[j] \in Nat /\ r[j] + Window >= now /\ k \in Nat /\ k >= 1 /\ m \in Nat /\ k <= m
    <3> HIDE DEF r
    <3>1. Len(r) \in Nat /\ r[j] \in Nat
      BY <1>1
    <3>2. now \in Nat /\ Window \in Nat /\ r[j] + Window >= now
      BY <1>1, <3>1, WindowAssumption
    <3> DEFINE len == Len(r)
               q   == queued[p]
    <3>3. len \in Nat /\ q \in Nat /\ j \in 1 .. len
      BY <1>1, <3>1
    <3> HIDE DEF len, q
    <3>4. len - j + 1 \in Nat /\ len - j + 1 >= 1
          /\ len - j + 1 + q \in Nat /\ len - j + 1 <= len - j + 1 + q
      BY <3>3
    <3> QED
      BY <3>1, <3>2, <3>4 DEF len, q
  <2>2. Covers(c, m, r[j])
    BY <1>1 DEF RationOf, CrashesCover, c
  <2>3. m \in 1 .. Len(c)
    BY <2>1, <2>2 DEF Covers
  <2>4. Covers(d, m + 1, r[j])
    BY <1>3, <2>1, <2>2, <2>3
  <2>5. InOrder(d) /\ d \in Seq(Nat) /\ m + 1 \in Nat /\ k + 1 \in 1 .. (m + 1)
    <3>1. d \in Seq(Nat)
      BY <1>4
    <3> HIDE DEF k, m
    <3>2. QED
      BY <1>3, <2>1, <3>1
  <2> HIDE DEF k, m
  <2>6. Covers(d, k + 1, r[j])
    BY <2>1, <2>4, <2>5, CoversFewer DEF d
  <2>7. QED
    BY <2>6 DEF k
<1>9. Rationed(restarts[p])'
  BY <1>1 DEF RationOf, Rationed
<1> QED
  BY <1>5, <1>6, <1>7, <1>8, <1>9 DEF RationOf

(* A restart is one more restart against one queued teardown fewer; were it  *)
(* one too many for the window, the record it rests on would have disabled  *)
(* the plugin before.                                                       *)
LEMMA TeardownKeepsRation ==
  ASSUME NEW p \in Plugins, RecordType(p), RecordType(p)', RationOf(p), TornDown(p)
  PROVE  RationOf(p)'
<1> DEFINE c == credits[p]
           r == restarts[p]
           s == restarts'[p]
<1>1. /\ c \in Seq(Nat) /\ InOrder(c) /\ now \in Nat /\ r \in Seq(Nat) /\ s \in Seq(Nat)
      /\ queued[p] = 1 /\ queued'[p] = 0 /\ credits'[p] = c /\ now' = now
  BY DEF RecordType, RationOf, TornDown
<1>2. InOrder(credits[p])' /\ TeardownIsFresh(p)' /\ TrippedIsDisabled(p)'
  BY <1>1 DEF RationOf, InOrder, TeardownIsFresh, TrippedIsDisabled, TornDown, StaysDisabled
<1>3. \A j \in 1 .. Len(r) : r[j] + Window < now \/ Covers(c, Len(r) - j + 1 + 1, r[j])
  BY <1>1 DEF RationOf, CrashesCover
<1>4. CASE s = r
  <2>1. CrashesCover(p)'
    <3> SUFFICES ASSUME NEW j \in 1 .. Len(r), ~(r[j] + Window < now)
                 PROVE  Covers(c, Len(r) - j + 1 + 0, r[j])
      BY <1>1, <1>4 DEF CrashesCover, Covers
    <3>0. Len(r) - j + 1 + 0 = Len(r) - j + 1
      BY <1>1
    <3> DEFINE k == Len(r) - j + 1
    <3>1. Covers(c, k + 1, r[j]) /\ k \in Nat /\ k >= 1 /\ r[j] \in Nat
      BY <1>1, <1>3
    <3>2. k + 1 \in Nat /\ k \in 1 .. (k + 1)
      BY <3>1
    <3> HIDE DEF k, c
    <3>3. Covers(c, k, r[j])
      BY <1>1, <3>1, <3>2, CoversFewer DEF c
    <3>4. QED
      BY <3>0, <3>3 DEF k
  <2>2. QED
    BY <1>2, <1>4, <2>1 DEF RationOf, Rationed
<1>5. CASE s = Append(r, now) /\ p \notin disabled
  <2>1. /\ Len(s) = Len(r) + 1 /\ s[Len(s)] = now
        /\ \A j \in 1 .. Len(r) : s[j] = r[j]
    BY <1>1, <1>5
  <2>2. Covers(c, 1, now)
    BY <1>1 DEF RationOf, TeardownIsFresh
  <2>3. CrashesCover(p)'
    <3> SUFFICES ASSUME NEW j \in 1 .. Len(s), ~(s[j] + Window < now)
                 PROVE  Covers(c, Len(s) - j + 1 + 0, s[j])
      BY <1>1 DEF CrashesCover, Covers
    <3> HIDE DEF r, s, c
    <3>1. CASE j = Len(s)
      BY <1>1, <2>1, <2>2, <3>1
    <3>2. CASE j \in 1 .. Len(r)
      <4>1. s[j] = r[j] /\ Len(s) - j + 1 + 0 = Len(r) - j + 1 + 1
        BY <1>1, <2>1, <3>2
      <4>2. QED
        BY <1>3, <4>1, <3>2
    <3>3. QED
      BY <1>1, <2>1, <3>1, <3>2
  <2>4. Len(c) < Threshold
    BY <1>5 DEF RationOf, TrippedIsDisabled
  <2>5. Rationed(s)
    <3> SUFFICES ASSUME NEW i \in 1 .. (Len(s) + 1 - Threshold)
                 PROVE  s[i] + Window < s[i + Threshold - 1]
      BY DEF Rationed
    <3>1. CASE i + Threshold - 1 \in 1 .. Len(r)
      <4>1. i \in 1 .. (Len(r) + 1 - Threshold) /\ i \in 1 .. Len(r)
        BY <1>1, <3>1, WindowAssumption
      <4>2. r[i] + Window < r[i + Threshold - 1]
        BY <4>1 DEF RationOf, Rationed
      <4>3. QED
        BY <2>1, <3>1, <4>1, <4>2
    <3>2. CASE i + Threshold - 1 = Len(s) /\ Threshold = 1
      BY <1>1, <2>2, <2>4, <3>2 DEF Covers
    <3>3. CASE i + Threshold - 1 = Len(s) /\ Threshold # 1
      <4>1. i \in 1 .. Len(r) /\ Len(r) - i + 1 + 1 = Threshold
        <5> DEFINE a == Len(r)
        <5> DEFINE b == Len(s)
        <5>1. a \in Nat /\ b = a + 1 /\ i + Threshold - 1 = b /\ Threshold \in Nat \ {0, 1}
          BY <1>1, <2>1, <3>3, WindowAssumption
        <5>2. i \in Nat /\ i >= 1
          BY <1>1, <2>1, WindowAssumption
        <5> HIDE DEF a, b, r, s
        <5>3. i \in 1 .. a /\ a - i + 1 + 1 = Threshold
          BY <5>1, <5>2
        <5> QED
          BY <5>3 DEF a
      <4>2. ~Covers(c, Len(r) - i + 1 + 1, r[i])
        <5>1. ~(Threshold <= Len(c))
          BY <1>1, <2>4, WindowAssumption
        <5>2. QED
          BY <4>1, <5>1 DEF Covers
      <4>3. r[i] + Window < now
        BY <1>3, <4>1, <4>2
      <4>4. QED
        BY <2>1, <3>3, <4>1, <4>3
    <3>4. i + Threshold - 1 \in 1 .. Len(r) \/ i + Threshold - 1 = Len(s)
      <4> HIDE DEF r, s
      <4>1. Len(r) \in Nat /\ Len(s) = Len(r) + 1
        BY <1>1, <2>1
      <4>2. QED
        BY <4>1, WindowAssumption
    <3>5. QED
      BY <3>1, <3>2, <3>3, <3>4
  <2>6. QED
    BY <1>2, <2>3, <2>5 DEF RationOf, Rationed
<1> QED
  BY <1>4, <1>5 DEF TornDown

(* Each of the five things a step can do keeps the record.                   *)
LEMMA RationKeeps ==
  ASSUME NEW p \in Plugins, RecordType(p), RecordType(p)', RationOf(p),
         Untouched(p) \/ Crashes(p) \/ TornDown(p) \/ Ticked(p) \/ Reset(p)
  PROVE  RationOf(p)'
<1>1. CASE Untouched(p)
  BY <1>1 DEF Untouched, StaysDisabled, RationOf, InOrder, CrashesCover, TeardownIsFresh,
              TrippedIsDisabled, Rationed, Covers
<1>2. CASE Ticked(p)
  <2> DEFINE c == credits[p]
             r == restarts[p]
  <2>1. /\ c \in Seq(Nat) /\ now \in Nat /\ r \in Seq(Nat) /\ queued[p] = 0
        /\ queued'[p] = 0 /\ credits'[p] = c /\ restarts'[p] = r /\ now' = now + 1
    BY <1>2 DEF RecordType, Ticked
  <2>2. InOrder(credits[p])'
    BY <2>1 DEF RationOf, InOrder
  <2>3. CrashesCover(p)'
    <3> SUFFICES ASSUME NEW j \in 1 .. Len(r), ~(r[j] + Window < now + 1)
                 PROVE  Covers(c, Len(r) - j + 1 + 0, r[j])
      BY <2>1 DEF CrashesCover, Covers
    <3>1. r[j] \in Nat /\ ~(r[j] + Window < now)
      BY <2>1, WindowAssumption
    <3>2. QED
      BY <2>1, <3>1 DEF RationOf, CrashesCover
  <2>4. TeardownIsFresh(p)' /\ TrippedIsDisabled(p)' /\ Rationed(restarts[p])'
    BY <1>2, <2>1 DEF RationOf, TeardownIsFresh, TrippedIsDisabled, Rationed, Ticked, StaysDisabled
  <2>5. QED
    BY <2>2, <2>3, <2>4 DEF RationOf
<1>3. CASE Reset(p)
  <2>1. /\ credits'[p] = <<>> /\ restarts'[p] = <<>> /\ queued'[p] = 0
        /\ Len(<<>>) = 0
    BY <1>3 DEF Reset
  <2>2. InOrder(credits[p])' /\ CrashesCover(p)'
    BY <2>1 DEF InOrder, CrashesCover
  <2>3. TeardownIsFresh(p)' /\ TrippedIsDisabled(p)'
    BY <2>1, WindowAssumption DEF TeardownIsFresh, TrippedIsDisabled
  <2>4. Rationed(restarts[p])'
    BY <2>1, WindowAssumption DEF Rationed
  <2>5. QED
    BY <2>2, <2>3, <2>4 DEF RationOf
<1> QED
  BY <1>1, <1>2, <1>3, CrashKeeps, TeardownKeepsRation

LEMMA RationInvariant == Spec => [](IInv /\ RationInv)
<1>1. Init => IInv /\ RationInv
  <2> SUFFICES ASSUME Init PROVE RationInv
    BY InitKeeps
  <2> SUFFICES ASSUME NEW p \in Plugins PROVE RationOf(p)
    BY DEF RationInv
  <2>1. credits[p] = <<>> /\ restarts[p] = <<>> /\ queued[p] = 0 /\ Len(<<>>) = 0
    BY DEF Init
  <2>2. InOrder(credits[p]) /\ CrashesCover(p)
    BY <2>1 DEF InOrder, CrashesCover
  <2>3. TeardownIsFresh(p) /\ TrippedIsDisabled(p) /\ Rationed(restarts[p])
    BY <2>1, WindowAssumption DEF TeardownIsFresh, TrippedIsDisabled, Rationed
  <2> QED
    BY <2>2, <2>3 DEF RationOf
<1>2. IInv /\ RationInv /\ [Next]_vars => IInv' /\ RationInv'
  <2> SUFFICES ASSUME IInv, RationInv, [Next]_vars PROVE IInv' /\ RationInv'
    OBVIOUS
  <2>1. IInv'
    BY StepKeeps
  <2>2. ASSUME NEW p \in Plugins PROVE RecordType(p)' /\ RecordType(p)
    <3>1. credits'[p] \in Seq(Nat) /\ restarts'[p] \in Seq(Nat) /\ now' \in Nat
      BY <2>1 DEF IInv, TypeOK
    <3>2. queued'[p] \in 0 .. 1
      BY <2>1 DEF IInv, OneTeardownQueued
    <3> QED
      BY <3>1, <3>2, RecordTyped DEF RecordType
  <2>3. ASSUME NEW p \in Plugins PROVE RationOf(p)'
    BY <2>2, StepEffect, RationKeeps DEF RationInv
  <2> QED
    BY <2>1, <2>3 DEF RationInv
<1> QED
  BY <1>1, <1>2, PTL DEF Spec

(* In no window is a plugin restarted as often as the threshold, however its  *)
(* crashes, the clock, reloads and the user's switches are mixed: every      *)
(* restart rests on a crash of its own that the tracker still holds.         *)
THEOREM RestartsStayRationed == Spec => []RestartsAreRationed
<1>1. RationInv => RestartsAreRationed
  BY DEF RationInv, RationOf, Rationed, RestartsAreRationed
<1>2. QED
  BY <1>1, RationInvariant, PTL

(***************************************************************************)
(* What no step does.                                                      *)
(***************************************************************************)
LEMMA DownInvariant == Spec => []DownIsEmpty
<1>1. Init => DownIsEmpty
  BY DEF Init, DownIsEmpty
<1>2. IInv /\ DownIsEmpty /\ [Next]_vars => DownIsEmpty'
  <2> SUFFICES ASSUME IInv, DownIsEmpty, [Next]_vars, ~up' PROVE DownIsEmpty'
    BY DEF DownIsEmpty
  <2>1. CASE Shutdown \/ HostDies
    BY <2>1 DEF Shutdown, HostDies, EndSession, DownIsEmpty
  <2>2. CASE UNCHANGED vars
    BY <2>2 DEF vars, DownIsEmpty
  <2>3. ASSUME NEW q \in Plugins, ChildStep(q) PROVE FALSE
    <3>1. up' = up
      BY <2>3 DEF ChildStep, ProcessStarted, ProcessExits, Gone, FailsToStart,
                  HandleProcessFailure, external
    <3>2. live[q] = "absent" /\ queued[q] = 0
      BY <3>1 DEF DownIsEmpty
    <3> QED
      BY <2>3, <3>2 DEF ChildStep, ProcessStarted, ProcessExits, FailsToStart,
                        HandleProcessFailure, Due
  <2>4. ASSUME NEW q \in Plugins, UserStep(q) PROVE FALSE
    <3> QED
      BY <2>4, UserSteps
  <2>5. ~\E nodeFound \in BOOLEAN : Launch(nodeFound) \/ Rediscover(nodeFound)
    <3>1. ASSUME NEW nodeFound \in BOOLEAN, Rediscover(nodeFound) PROVE up /\ up' = up
      BY <3>1 DEF Rediscover
    <3>2. ASSUME NEW nodeFound \in BOOLEAN, Launch(nodeFound) PROVE up'
      BY <3>2 DEF Launch
    <3> QED
      BY <3>1, <3>2
  <2>6. ~Tick
    BY DEF Tick
  <2> QED
    BY <2>1, <2>2, <2>3, <2>4, <2>5, <2>6 DEF Next, SessionStep
<1>3. Spec => []IInv
  BY InitKeeps, StepKeeps, PTL DEF Spec
<1> QED
  BY <1>1, <1>2, <1>3, PTL DEF Spec

(* The queue of a plugin only grows in a step that is not its teardown and    *)
(* does not end the session.                                                *)
LEMMA DeathsQueue ==
  ASSUME IInv, NEW STATE n, OnProcessFailed(n), NEW p \in Plugins
  PROVE  queued'[p] >= queued[p]
BY DEF OnProcessFailed, IInv, TypeOK

(* What may become of a plugin's entry within a session: it appears in a      *)
(* handler that spawns on purpose, it is unloaded and announced, or its own *)
(* teardown or its child changes it.                                        *)
Appears(p) == live[p] = "absent" => live'[p] = "absent" \/ p \in installed' \ userDisabled'

LEMMA PurposefulSpawn ==
  ASSUME IInv, NEW nodeFound \in BOOLEAN,
         \/ Launch(nodeFound)
         \/ Rediscover(nodeFound)
         \/ \E q \in Plugins : UserEnable(q, nodeFound),
         NEW p \in Plugins
  PROVE  /\ Appears(p) /\ queued' = queued
         /\ live[p] # "absent" => live'[p] = live[p] \/ Launch(nodeFound)
<1> USE DEF external, failures, history
<1>1. queued' = queued /\ installed' = installed
  BY DEF Launch, Rediscover, UserEnable
<1>2. PICK S \in SUBSET installed :
        /\ Spawn(S, nodeFound, live, pages, disabled)
        /\ (\A q \in S : live[q] = "absent") \/ Launch(nodeFound)
  BY DEF Launch, Rediscover, UserEnable
<1>3. live'[p] = IF p \in Spawned(S, nodeFound) THEN Fresh(p) ELSE live[p]
  BY <1>2 DEF Spawn
<1>4. p \in Spawned(S, nodeFound) => p \in S /\ p \notin userDisabled'
  BY DEF Spawned, SkipSpawn
<1> QED
  BY <1>1, <1>2, <1>3, <1>4 DEF Appears

LEMMA StopperEffect ==
  ASSUME IInv, NEW S \in SUBSET Plugins, NEW how \in Stops(S), Stopper(S, how),
         NEW p \in Plugins
  PROVE  /\ Appears(p) /\ queued'[p] >= queued[p]
         /\ live[p] # "absent" => live'[p] = live[p] \/ Reg[p] \in exitAppTo'
<1>1. exitAppTo' = ExitApp(S) /\ OnProcessFailed(StopFires(S, how))
  BY DEF Stopper, Unload, UnloadAndRediscover
<1>2. LiveWithout(S)[p] = IF p \in S THEN "absent" ELSE live[p]
  BY DEF LiveWithout
<1>3. p \in S /\ live[p] # "absent" => Reg[p] \in exitAppTo'
  BY <1>1 DEF ExitApp, Found
<1>4. CASE live' = LiveWithout(S)
  BY <1>1, <1>2, <1>3, <1>4, DeathsQueue DEF Appears
<1>5. ASSUME NEW nodeFound \in BOOLEAN, UnloadAndRediscover(S, how, nodeFound)
      PROVE  \/ live'[p] = LiveWithout(S)[p]
             \/ LiveWithout(S)[p] = "absent" /\ p \in installed' \ userDisabled'
  <2> DEFINE A == {q \in installed' : LiveWithout(S)[q] = "absent"}
  <2>1. live'[p] = IF p \in Spawned(A, nodeFound) THEN Fresh(p) ELSE LiveWithout(S)[p]
    BY <1>5 DEF UnloadAndRediscover, Spawn
  <2>2. p \in Spawned(A, nodeFound) => p \in A /\ p \notin userDisabled'
    BY DEF Spawned, SkipSpawn
  <2>3. p \in A => p \in installed' /\ LiveWithout(S)[p] = "absent"
    OBVIOUS
  <2> HIDE DEF A
  <2> QED
    BY <2>1, <2>2, <2>3
<1>6. Unload(S, how) \/ \E nodeFound \in BOOLEAN : UnloadAndRediscover(S, how, nodeFound)
  BY DEF Stopper
<1> QED
  BY <1>1, <1>2, <1>3, <1>4, <1>5, <1>6, DeathsQueue DEF Appears, Unload

LEMMA ChildEffect ==
  ASSUME IInv, NEW q \in Plugins, ChildStep(q), NEW p \in Plugins
  PROVE  /\ live[p] = "absent" => live'[p] = "absent"
         /\ \/ queued'[p] < queued[p]
            \/ live'[p] = live[p]
            \/ live'[p] \in {"running", "dead", "exited"}
<1>1. live \in [Plugins -> EntryState] /\ queued \in [Plugins -> Nat]
  BY DEF IInv, TypeOK
<1>2. ASSUME NEW nodeFound \in BOOLEAN, HandleProcessFailure(q, nodeFound), p # q
      PROVE  live'[p] = live[p]
  <2>1. LiveWithout({q})[p] = live[p]
    BY <1>2 DEF LiveWithout
  <2>2. live' = LiveWithout({q}) \/ live' = live
          \/ Spawn({q}, nodeFound, LiveWithout({q}), pages, disabled)
    BY <1>2 DEF HandleProcessFailure
  <2> QED
    BY <1>2, <2>1, <2>2 DEF Spawn, Spawned
<1>3. ASSUME NEW nodeFound \in BOOLEAN, HandleProcessFailure(p, nodeFound)
      PROVE  queued'[p] < queued[p] /\ (live[p] = "absent" => live'[p] = "absent")
  <2>1. queued'[p] < queued[p]
    BY <1>1, <1>3 DEF HandleProcessFailure, Due
  <2>2. live[p] = "absent" => live' = LiveWithout({p}) \/ live' = live
    BY <1>3 DEF HandleProcessFailure, Respawns, Backed
  <2> QED
    BY <2>1, <2>2 DEF LiveWithout
<1>4. CASE ProcessStarted(q)
  BY <1>1, <1>4 DEF ProcessStarted
<1>5. ASSUME NEW k, NEW state \in {"dead", "exited"}, Gone(q, k, state), live[q] # "absent"
      PROVE  \/ live'[p] = live[p]
             \/ live'[p] \in {"dead", "exited"} /\ live[p] # "absent"
  <2>1. live' = [live EXCEPT ![q] = state]
    BY <1>5 DEF Gone
  <2> QED
    BY <1>1, <1>5, <2>1
<1>6. CASE (\E how \in Deaths : ProcessExits(q, how))
             \/ \E announced \in BOOLEAN : FailsToStart(q, announced)
  BY <1>5, <1>6 DEF ProcessExits, FailsToStart
<1> QED
  BY <1>2, <1>3, <1>4, <1>6 DEF ChildStep

(* A late teardown, or any other step nobody asked for, gives no plugin an    *)
(* entry; those that do give it to a plugin that is installed and enabled.  *)
THEOREM NothingIsEverResurrected == Spec => NothingIsResurrected
<1>1. IInv /\ DownIsEmpty /\ [Next]_vars =>
        [\A p \in Plugins :
           live[p] = "absent" /\ live'[p] # "absent"
             => p \in installed' \ userDisabled' /\ queued'[p] >= queued[p]]_vars
  <2> SUFFICES ASSUME IInv, DownIsEmpty, Next, NEW p \in Plugins,
                      live[p] = "absent", live'[p] # "absent"
               PROVE  p \in installed' \ userDisabled' /\ queued'[p] >= queued[p]
    OBVIOUS
  <2>0. queued[p] \in Nat
    BY DEF IInv, TypeOK
  <2>1. ASSUME NEW nodeFound \in BOOLEAN, Launch(nodeFound) \/ Rediscover(nodeFound)
        PROVE  p \in installed' \ userDisabled' /\ queued'[p] >= queued[p]
    BY <2>0, <2>1, PurposefulSpawn DEF Appears
  <2>2. ~(Shutdown \/ HostDies \/ Tick)
    BY DEF Shutdown, HostDies, EndSession, Tick, table
  <2>3. \A q \in Plugins : ~ChildStep(q)
    BY ChildEffect
  <2>4. ASSUME NEW q \in Plugins, UserStep(q)
        PROVE  p \in installed' \ userDisabled' /\ queued'[p] >= queued[p]
    <3>1. ~Refuse(q)
      BY DEF Refuse, table
    <3>2. CASE \E nodeFound \in BOOLEAN : UserEnable(q, nodeFound)
      BY <2>0, <3>2, PurposefulSpawn DEF Appears
    <3>3. CASE \E S \in SUBSET Plugins : \E how \in Stops(S) : Stopper(S, how)
      BY <3>3, StopperEffect DEF Appears
    <3> QED
      BY <2>4, <3>1, <3>2, <3>3, UserSteps
  <2> QED
    BY <2>1, <2>2, <2>3, <2>4 DEF Next, SessionStep
<1> QED
  BY <1>1, InitKeeps, StepKeeps, DownInvariant, PTL DEF Spec, NothingIsResurrected

(* No entry leaves a running session, and no running child is replaced,       *)
(* before its plugin was told at the uuid it registered under; a removal    *)
(* that finds no entry under the manifest's uuid takes none away.           *)
THEOREM StopStaysAnnounced == Spec => StopIsAnnounced
<1> DEFINE Leaves(p) == \/ live[p] # "absent" /\ live'[p] = "absent"
                        \/ live[p] = "running" /\ live'[p] = "starting"
<1>1. IInv /\ DownIsEmpty /\ [Next]_vars =>
        [\A p \in Plugins : up' /\ queued'[p] >= queued[p] /\ Leaves(p)
                              => Reg[p] \in exitAppTo']_vars
  <2> SUFFICES ASSUME IInv, DownIsEmpty, Next, up', NEW p \in Plugins,
                      queued'[p] >= queued[p], Leaves(p)
               PROVE  Reg[p] \in exitAppTo'
    OBVIOUS
  <2>1. /\ queued[p] \in Nat /\ live'[p] # live[p] /\ live[p] # "absent"
        /\ live'[p] \in {"absent", "starting"} /\ queued[p] <= queued'[p]
    BY DEF IInv, TypeOK
  <2>2. ~SessionStep
    <3>1. ASSUME NEW nodeFound \in BOOLEAN, Launch(nodeFound) PROVE FALSE
      BY <2>1, <3>1 DEF Launch, DownIsEmpty
    <3>2. ASSUME NEW nodeFound \in BOOLEAN, Rediscover(nodeFound) PROVE FALSE
      BY <2>1, <3>1, <3>2, PurposefulSpawn
    <3> QED
      BY <2>1, <3>1, <3>2 DEF SessionStep, Shutdown, HostDies, EndSession, Tick, table
  <2>3. \A q \in Plugins : ~ChildStep(q)
    <3> SUFFICES ASSUME NEW q \in Plugins, ChildStep(q) PROVE FALSE
      OBVIOUS
    <3>1. queued'[p] < queued[p]
      BY <2>1, ChildEffect
    <3>2. queued'[p] \in Nat
      BY StepKeeps DEF IInv, TypeOK, Next
    <3> QED
      BY <2>1, <3>1, <3>2
  <2>4. PICK q \in Plugins : UserStep(q)
    BY <2>2, <2>3 DEF Next
  <2>5. ~Refuse(q)
    BY <2>1 DEF Refuse, table
  <2>6. ASSUME NEW nodeFound \in BOOLEAN, UserEnable(q, nodeFound) PROVE FALSE
    <3>1. ~Launch(nodeFound)
      BY <2>1 DEF Launch, DownIsEmpty
    <3> QED
      BY <2>1, <2>6, <3>1, PurposefulSpawn
  <2>7. \E S \in SUBSET Plugins : \E how \in Stops(S) : Stopper(S, how)
    BY <2>4, <2>5, <2>6, UserSteps
  <2> QED
    BY <2>1, <2>7, StopperEffect
<1>2. (\A p \in Plugins : up' /\ queued'[p] >= queued[p] /\ Leaves(p) => Reg[p] \in exitAppTo')
      <=> (\A p \in Plugins :
             /\ up' /\ queued'[p] >= queued[p]
             /\ \/ live[p] # "absent" /\ live'[p] = "absent"
                \/ live[p] = "running" /\ live'[p] = "starting"
             => Reg[p] \in exitAppTo')
  OBVIOUS
<1> QED
  BY <1>1, <1>2, InitKeeps, StepKeeps, DownInvariant, PTL DEF Spec, StopIsAnnounced

==============================================================================
