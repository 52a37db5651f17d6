--------------------------- MODULE PluginLifecycle ---------------------------
(***************************************************************************)
(* The supervision of .sdPlugin plugins by PluginManager                   *)
(* (src/src/app/src/plugin_manager.cpp) and its PluginCrashTracker.  One   *)
(* action is one run-to-completion handler on the GUI thread.  QProcess,   *)
(* QSettings and the single-shot timer are external: a child process may   *)
(* die in any of the ways QProcess reports, and Qt emits the signals of    *)
(* one death back to back, inside whichever handler is running.            *)
(*                                                                         *)
(* A definition placed right before another one with the same parameters   *)
(* and a longer name is that definition with a slip in it, kept to show    *)
(* which property notices; no specification uses it.                       *)
(***************************************************************************)
EXTENDS Naturals, Sequences, FiniteSets

CONSTANTS
  Plugins,     (* the .sdPlugin directory names, the keys of m_live         *)
  Uuids,       (* the uuids plugins can register under                      *)
  Reg,         (* the registration uuid of a plugin: its PUUID, or its key  *)
  Owner,       (* the uuid its manifest names: its PUUID, or the prefix its *)
               (* actions share, or Nobody                                  *)
  Nobody,
  Kind,        (* how spawn() runs a plugin: "node", "native" or "html"     *)
  Window,      (* kWindowMs, in ticks of the clock                          *)
  Threshold,   (* kDisableThreshold                                         *)
  MaxNow,      (* bound: ticks of the clock                                 *)
  MaxCredits   (* bound: crash records a plugin can have at a time          *)

Kinds == {"node", "native", "html"}

ASSUME KindAssumption == Kind \in [Plugins -> Kinds]
ASSUME WindowAssumption == Window \in Nat /\ Threshold \in Nat \ {0}
ASSUME BoundAssumption == MaxNow \in Nat /\ MaxCredits \in Nat
ASSUME UuidAssumption == Plugins \subseteq Uuids /\ Reg \in [Plugins -> Uuids]

ASSUME OwnerAssumption ==
  /\ Owner \in [Plugins -> Uuids \cup {Nobody}] /\ Nobody \notin Uuids
  /\ \A p \in Plugins : Reg[p] # p => Owner[p] = Reg[p]

(* PUUIDs come from the manifests and nothing in the code makes them       *)
(* distinct; what is said about HTML pages holds when they are.            *)
ASSUME RegDistinct ==
  \A p, q \in Plugins : (Reg[p] = Reg[q] \/ Reg[p] = q) => p = q

VARIABLES
  up,            (* the application session is running                      *)
  installed,     (* the plugins discover() finds in the plugins directory   *)
  live,          (* m_live: "absent", or the state of the entry's QProcess  *)
  pages,         (* m_htmlPages: the uuids that have a page                 *)
  disabled,      (* m_disabled: the plugins disabled for this session       *)
  userDisabled,  (* the persisted plugins/disabled/<id> flags               *)
  failurePending,(* m_failurePending                                        *)
  queued,        (* handleProcessFailure calls in the event queue           *)
  credits,       (* m_crashTracker: the recorded crash times of a plugin    *)
  now,           (* m_clock, in ticks                                       *)
  exitAppTo,     (* the uuids the last handler addressed exitApp to         *)
  deaths,        (* history: the failures nobody asked for, a plugin's count*)
  restarts       (* history: when handleProcessFailure respawned a plugin   *)

table == <<live, pages, disabled>>
external == <<installed, userDisabled, now>>
failures == <<failurePending, queued, credits>>
history == <<deaths, restarts>>
vars == <<up, installed, live, pages, disabled, userDisabled, failurePending,
          queued, credits, now, exitAppTo, deaths, restarts>>

(* "html" entries own no QProcess; the QProcess of a "dead" or "exited"    *)
(* one has lost its child, by a failure or by a clean exit.                *)
EntryState == {"absent", "html", "starting", "running", "dead", "exited"}
HasChild(state) == state \in {"starting", "running"}
Backed(state) == state \notin {"absent", "html"}

(***************************************************************************)
(* PluginCrashTracker.                                                     *)
(***************************************************************************)
Stale(times) == {i \in DOMAIN times : times[i] + Window < now}

(* Crash times are recorded in order, so removing the ones that left the   *)
(* window drops a prefix.                                                  *)
Prune(times) == SubSeq(times, Cardinality(Stale(times)) + 1, Len(times))

(* n signals of one death reach onProcessFailed(p): each records a crash   *)
(* and prunes the list in shouldDisable().                                 *)
Recorded(times, n) ==
  CASE n = 0 -> times
    [] n = 1 -> Prune(Append(times, now))
    [] n = 2 -> Prune(Append(Append(times, now), now))

ShouldDisableOneLate(times) == Len(times) > Threshold
ShouldDisable(times) == Len(times) >= Threshold

(***************************************************************************)
(* How a child dies, and how many of its signals lead to onProcessFailed:  *)
(* a signal death fires errorOccurred(Crashed) and finished(CrashExit).    *)
(***************************************************************************)
Deaths == {"signal", "nonzero", "clean"}

Fires == [signal |-> 2, nonzero |-> 1, clean |-> 0, none |-> 0]

(* The plugins that onProcessFailed, called n[p] times for p, does not     *)
(* dismiss: an entry that has left m_live is a pre-registration exit.      *)
Failed(n) == {p \in Plugins : n[p] > 0 /\ live[p] # "absent"}

Tripped(n) == {p \in Failed(n) : ShouldDisable(Recorded(credits[p], n[p]))}

(* A plugin with a teardown in the queue gets no second one.               *)
Scheduled(n) == Failed(n) \ failurePending

(* Crash bookkeeping happens at once; the teardown is queued, once per     *)
(* plugin.  The caller disables the plugins in Tripped(n).                 *)
OnProcessFailed(n) ==
  /\ credits' = [p \in Plugins |->
                   IF p \in Failed(n) THEN Recorded(credits[p], n[p])
                                      ELSE credits[p]]
  /\ \A p \in Plugins : Len(credits'[p]) <= MaxCredits
  /\ queued' = [p \in Plugins |->
                  IF p \in Scheduled(n) THEN queued[p] + 1
                                         ELSE queued[p]]
  /\ failurePending' = failurePending \cup Failed(n)

Only(p, n) == [q \in Plugins |-> IF q = p THEN n ELSE 0]

(***************************************************************************)
(* spawn().                                                                *)
(***************************************************************************)
SkipSpawnForgotten(p) == FALSE
SkipSpawn(p) == p \in userDisabled'

(* Node.js >= 20 is probed at every spawn of a node plugin.                *)
NoRuntime(p, nodeFound) == Kind[p] = "node" /\ ~nodeFound

Fresh(p) == IF Kind[p] = "html" THEN "html" ELSE "starting"

Spawned(S, nodeFound) ==
  {p \in S : ~SkipSpawn(p) /\ ~NoRuntime(p, nodeFound)}

(* spawn() of every manifest in S, over the m_live, m_htmlPages and        *)
(* m_disabled that the earlier calls of the same handler left behind.      *)
Spawn(S, nodeFound, lv, pg, dis) ==
  /\ live' = [p \in Plugins |->
                IF p \in Spawned(S, nodeFound) THEN Fresh(p) ELSE lv[p]]
  /\ pages' = pg \cup {Reg[p] : p \in {q \in Spawned(S, nodeFound) :
                                          Kind[q] = "html"}}
  /\ disabled' = dis \cup {p \in S : ~SkipSpawn(p) /\ NoRuntime(p, nodeFound)}

(***************************************************************************)
(* unloadPlugin(p), for every key p in S: exitApp, terminate() with a      *)
(* grace second, kill().  The entry is still in m_live while terminate()   *)
(* waits, so a child that dies of the SIGTERM reports its death like a     *)
(* crash; "none" is a child that outlives the grace second and is killed   *)
(* with its erased entry.  A key without an entry is returned on.          *)
(***************************************************************************)
Terminations == Deaths \cup {"none"}

(* How the children of the plugins in S die.                               *)
Stops(S) == [{p \in S : HasChild(live[p])} -> Terminations]

StopFires(S, how) ==
  [p \in Plugins |-> IF p \in S /\ HasChild(live[p]) THEN Fires[how[p]] ELSE 0]

LiveWithout(S) == [p \in Plugins |-> IF p \in S THEN "absent" ELSE live[p]]

Found(S) == {p \in S : live[p] # "absent"}

PagesWithout(S) == pages \ UNION {{p, Reg[p]} : p \in Found(S)}

ExitAppToKey(S) == Found(S)
ExitApp(S) == {Reg[p] : p \in Found(S)}

(* Nothing follows in the same handler.                                    *)
Unload(S, how) ==
  /\ live' = LiveWithout(S)
  /\ pages' = PagesWithout(S)
  /\ exitAppTo' = ExitApp(S)
  /\ OnProcessFailed(StopFires(S, how))
  /\ disabled' = disabled \cup Tripped(StopFires(S, how))

(* rediscover() follows: what is installed and has no entry is spawned.     *)
UnloadAndRediscover(S, how, nodeFound) ==
  /\ exitAppTo' = ExitApp(S)
  /\ OnProcessFailed(StopFires(S, how))
  /\ Spawn({p \in installed' : LiveWithout(S)[p] = "absent"}, nodeFound,
           LiveWithout(S), PagesWithout(S), disabled \cup Tripped(StopFires(S, how)))

(***************************************************************************)
(* The session starts: discover() and spawn() of everything runnable.      *)
(***************************************************************************)
Init ==
  /\ up = FALSE
  /\ installed \in SUBSET Plugins
  /\ live = [p \in Plugins |-> "absent"]
  /\ pages = {} /\ disabled = {} /\ userDisabled = {}
  /\ failurePending = {} /\ queued = [p \in Plugins |-> 0]
  /\ credits = [p \in Plugins |-> <<>>]
  /\ now = 0
  /\ exitAppTo = {}
  /\ deaths = [p \in Plugins |-> 0]
  /\ restarts = [p \in Plugins |-> <<>>]

Launch(nodeFound) ==
  /\ ~up
  /\ up' = TRUE /\ exitAppTo' = {}
  /\ UNCHANGED <<external, failures, history>>
  /\ Spawn(installed, nodeFound, live, pages, disabled)

Rediscover(nodeFound) ==
  /\ up
  /\ exitAppTo' = {}
  /\ UNCHANGED <<up, external, failures, history>>
  /\ Spawn({p \in installed : live[p] = "absent"}, nodeFound, live, pages, disabled)

(***************************************************************************)
(* The child processes.                                                    *)
(***************************************************************************)
ProcessStarted(p) ==
  /\ live[p] = "starting"
  /\ live' = [live EXCEPT ![p] = "running"]
  /\ exitAppTo' = {}
  /\ UNCHANGED <<up, external, pages, disabled, failures, history>>

(* The child is gone by itself and n signals reach onProcessFailed.        *)
Gone(p, n, state) ==
  /\ live' = [live EXCEPT ![p] = state]
  /\ OnProcessFailed(Only(p, n))
  /\ disabled' = disabled \cup Tripped(Only(p, n))
  /\ exitAppTo' = {}
  /\ UNCHANGED <<up, external, pages, restarts>>

OneMore(p) == [deaths EXCEPT ![p] = @ + 1]

ProcessExits(p, how) ==
  /\ live[p] = "running"
  /\ \/ how = "clean" /\ Gone(p, 0, "exited") /\ UNCHANGED deaths
     \/ how # "clean" /\ Gone(p, Fires[how], "dead") /\ deaths' = OneMore(p)

(* FailedToStart is left to finished(); "announced" says whether Qt emits  *)
(* one, as the comment in spawn() expects.                                 *)
FailsToStart(p, announced) ==
  /\ live[p] = "starting"
  /\ Gone(p, IF announced THEN 1 ELSE 0, "dead")
  /\ deaths' = IF announced THEN OneMore(p) ELSE deaths

(***************************************************************************)
(* handleProcessFailure(p), from the event queue: forget a disabled        *)
(* plugin, restart any other one that owns a process.  Erasing the entry   *)
(* destroys its QProcess, which kills a child that still runs.             *)
(***************************************************************************)
DueUnasked(p) == live[p] # "absent"
Due(p) == queued[p] > 0

UnmarkedNever(p) == failurePending
Unmarked(p) == failurePending \ {p}

RespawnsForgotten(p) == live[p] # "html" /\ p \notin disabled
Respawns(p) == Backed(live[p]) /\ p \notin disabled

HandleProcessFailure(p, nodeFound) ==
  LET respawn == Respawns(p)
  IN  /\ Due(p)
      /\ exitAppTo' = {}
      /\ UNCHANGED <<up, external, credits, deaths>>
      /\ queued' = [queued EXCEPT ![p] = @ - 1]
      /\ failurePending' = Unmarked(p)
      /\ IF respawn
         THEN Spawn({p}, nodeFound, LiveWithout({p}), pages, disabled)
         ELSE /\ live' = IF p \in disabled THEN LiveWithout({p}) ELSE live
              /\ UNCHANGED <<pages, disabled>>
      /\ restarts' = IF respawn /\ p \in Spawned({p}, nodeFound)
                     THEN [restarts EXCEPT ![p] = Append(@, now)] ELSE restarts

(***************************************************************************)
(* The user, the plugin catalogue and the developer-mode Reload.           *)
(***************************************************************************)
UserDisable(p, how) ==
  /\ up
  /\ userDisabled' = userDisabled \cup {p}
  /\ Unload({p}, how)
  /\ UNCHANGED <<up, installed, now, deaths, restarts>>

UserEnable(p, nodeFound) ==
  /\ up
  /\ userDisabled' = userDisabled \ {p}
  /\ exitAppTo' = {}
  /\ Spawn({q \in installed \cap {p} : live[q] = "absent"}, nodeFound,
           live, pages, disabled)
  /\ UNCHANGED <<up, installed, now, failures, history>>

(* removeInstalledPlugin(): the directory goes, and pluginUninstalled      *)
(* carries the uuid of its manifest to an unloadPlugin() that looks it up  *)
(* among directory names.  (The catalogue's own uninstall() announces the  *)
(* id of a row and deletes nothing.)                                       *)
Announced(p) == {Owner[p]} \cap Plugins

Uninstall(p, how) ==
  /\ up /\ p \in installed
  /\ installed' = installed \ {p}
  /\ Unload(Announced(p), how)
  /\ UNCHANGED <<up, userDisabled, now, deaths, restarts>>

(* The network path unpacks in place and takes a refused package away.     *)
Refuse(p) ==
  /\ up /\ p \in installed
  /\ installed' = installed \ {p}
  /\ exitAppTo' = {}
  /\ UNCHANGED <<up, table, userDisabled, now, failures, history>>

(* pluginWillBeReplaced(dir) is announced for a directory that a local     *)
(* installation or a mirabox one replaces, and by dedupeDuplicateInstalls  *)
(* for the other directories of the same owner; the network path unpacks   *)
(* over the directory unannounced.  installFinished(true) rediscovers.     *)
Replaced(p, inPlace) == IF inPlace THEN {} ELSE installed \cap {p}

Twins(p) ==
  {q \in installed \ {p} : Owner[q] = Owner[p] /\ Owner[p] # Nobody}

Install(p, inPlace, how, nodeFound) ==
  /\ up
  /\ installed' = (installed \cup {p}) \ Twins(p)
  /\ UNCHANGED <<up, userDisabled, now, deaths, restarts>>
  /\ UnloadAndRediscover(Replaced(p, inPlace) \cup Twins(p), how, nodeFound)

(* The old directory is deleted and the new one cannot be put in its place.*)
InstallFails(p, how) ==
  /\ up /\ p \in installed
  /\ installed' = installed \ {p}
  /\ Unload({p}, how)
  /\ UNCHANGED <<up, userDisabled, now, deaths, restarts>>

(* reload_plugin: unloadPlugin(p) and rediscover() in one handler.         *)
Reload(p, how, nodeFound) ==
  /\ up
  /\ UNCHANGED <<up, external, deaths, restarts>>
  /\ UnloadAndRediscover({p}, how, nodeFound)

(***************************************************************************)
(* The session ends.  shutdown() addresses exitApp by the m_live key.      *)
(* Destroying the manager drops its queued calls and its session state;    *)
(* the flags in QSettings stay.                                            *)
(***************************************************************************)
EndSession ==
  /\ up' = FALSE
  /\ live' = [p \in Plugins |-> "absent"]
  /\ pages' = {} /\ disabled' = {}
  /\ failurePending' = {} /\ queued' = [p \in Plugins |-> 0]
  /\ credits' = [p \in Plugins |-> <<>>]
  /\ deaths' = [p \in Plugins |-> 0]
  /\ restarts' = [p \in Plugins |-> <<>>]
  /\ UNCHANGED external

Shutdown ==
  /\ up
  /\ exitAppTo' = {p \in Plugins : live[p] # "absent"}
  /\ EndSession

(* The application itself is killed; its children die with it.             *)
HostDies == up /\ EndSession /\ exitAppTo' = {}

(* A queued zero-millisecond timer runs before a tick passes.              *)
Tick ==
  /\ up /\ now < MaxNow
  /\ \A p \in Plugins : queued[p] = 0
  /\ now' = now + 1
  /\ exitAppTo' = {}
  /\ UNCHANGED <<up, installed, table, userDisabled, failures, history>>

ChildStep(p) ==
  \/ ProcessStarted(p)
  \/ \E how \in Deaths : ProcessExits(p, how)
  \/ \E announced \in BOOLEAN : FailsToStart(p, announced)
  \/ \E nodeFound \in BOOLEAN : HandleProcessFailure(p, nodeFound)

UserStep(p) ==
  \/ \E how \in Stops({p}) : UserDisable(p, how) \/ InstallFails(p, how)
  \/ \E how \in Stops(Announced(p)) : Uninstall(p, how)
  \/ Refuse(p)
  \/ \E nodeFound \in BOOLEAN : UserEnable(p, nodeFound)
  \/ \E inPlace, nodeFound \in BOOLEAN :
       \E how \in Stops(Replaced(p, inPlace) \cup Twins(p)) :
         Install(p, inPlace, how, nodeFound)
  \/ \E how \in Stops({p}), nodeFound \in BOOLEAN : Reload(p, how, nodeFound)

SessionStep ==
  \/ \E nodeFound \in BOOLEAN : Launch(nodeFound) \/ Rediscover(nodeFound)
  \/ Shutdown \/ HostDies \/ Tick

Next == SessionStep \/ \E p \in Plugins : ChildStep(p) \/ UserStep(p)

Spec == Init /\ [][Next]_vars

(* The event loop runs queued calls, and a started child starts or fails.  *)
Fairness ==
  \A p \in Plugins :
    /\ WF_vars(\E nodeFound \in BOOLEAN : HandleProcessFailure(p, nodeFound))
    /\ WF_vars(ProcessStarted(p) \/ \E announced \in BOOLEAN : FailsToStart(p, announced))

FairSpec == Spec /\ Fairness

(* Nobody touches the plugins: every stop is the child's own.              *)
UnattendedSpec == Init /\ [][SessionStep \/ \E p \in Plugins : ChildStep(p)]_vars
-----------------------------------------------------------------------------
(* Every variable has its type.                                            *)
TypeOK ==
  /\ up \in BOOLEAN
  /\ installed \in SUBSET Plugins
  /\ live \in [Plugins -> EntryState]
  /\ pages \in SUBSET Uuids
  /\ disabled \in SUBSET Plugins
  /\ userDisabled \in SUBSET Plugins
  /\ failurePending \in SUBSET Plugins
  /\ queued \in [Plugins -> Nat]
  /\ credits \in [Plugins -> Seq(Nat)]
  /\ now \in Nat
  /\ exitAppTo \in SUBSET Uuids
  /\ deaths \in [Plugins -> Nat]
  /\ restarts \in [Plugins -> Seq(Nat)]

(* A plugin the user disabled has no m_live entry, through crashes whose    *)
(* teardown is still queued, rediscoveries, reloads and application         *)
(* restarts: each of the ways to spawn() honours the persisted flag         *)
(* (plugin_manager.cpp, spawn() and setPluginEnabled()).                    *)
UserDisabledStaysDown == \A p \in userDisabled : live[p] = "absent"

(* The HTML pages are exactly those of the live HTML plugins: a plugin that  *)
(* is disabled, replaced or reloaded leaves no page running under either of *)
(* its two names, and one that is removed keeps its page as long as its     *)
(* entry (plugin_manager.cpp, unloadPlugin() and m_htmlPages).              *)
PagesMatchEntries == pages = {Reg[p] : p \in {q \in Plugins : live[q] = "html"}}

(* The two signals of one death, or several deaths before the event loop    *)
(* turns, queue one teardown, and m_failurePending says which plugins have  *)
(* one queued (plugin_manager.cpp, onProcessFailed()).                      *)
OneTeardownQueued ==
  \A p \in Plugins : queued[p] = IF p \in failurePending THEN 1 ELSE 0

(* An entry whose teardown is queued owns a process, never a page: the      *)
(* deferred restart cannot inject an HTML plugin a second time              *)
(* (plugin_manager.cpp, handleProcessFailure(), WR-02).                     *)
HtmlIsNeverRestarted ==
  \A p \in Plugins : Kind[p] = "html" => p \notin failurePending /\ restarts[p] = <<>>

(* The manager's tables agree with each other and with the user's switches  *)
(* through every mix of deaths, reloads, installs and session restarts.     *)
EntriesAgree ==
  UserDisabledStaysDown /\ PagesMatchEntries /\ OneTeardownQueued /\ HtmlIsNeverRestarted

(* Automatic restarts are rationed: in no window does a plugin get as many  *)
(* as the threshold, whatever mix of deaths, reloads and user switches      *)
(* surrounds them (plugin_crash_tracker.cpp and handleProcessFailure()).    *)
RestartsAreRationed ==
  \A p \in Plugins : \A i \in 1 .. (Len(restarts[p]) + 1 - Threshold) :
    restarts[p][i] + Window < restarts[p][i + Threshold - 1]

(* A teardown that comes late brings nobody back: a plugin without an entry *)
(* gets one only in a handler that spawns on purpose, and only if its       *)
(* directory is there and the user has not disabled it.  In particular a    *)
(* removed plugin, which runs on under its entry, stays away once that      *)
(* entry is gone, whatever its last deaths had queued (plugin_manager.cpp,  *)
(* handleProcessFailure() behind unloadPlugin()).                           *)
NothingIsResurrected ==
  [][\A p \in Plugins :
       live[p] = "absent" /\ live'[p] # "absent"
         => p \in installed' \ userDisabled' /\ queued'[p] >= queued[p]]_vars

(* A child that is stopped on request is first told to flush its state, at  *)
(* the uuid it registered under: no entry disappears or is replaced in a    *)
(* running session without exitApp, except by the teardown of a failed      *)
(* child (plugin_manager.cpp, unloadPlugin(), audit 3.14).                  *)
StopIsAnnounced ==
  [][\A p \in Plugins :
       /\ up' /\ queued'[p] >= queued[p]
       /\ \/ live[p] # "absent" /\ live'[p] = "absent"
          \/ live[p] = "running" /\ live'[p] = "starting"
       => Reg[p] \in exitAppTo']_vars

(* Every failure settles: the child of a failed plugin runs again, or the   *)
(* entry is gone, or the new child failed in silence; a queued teardown is  *)
(* never lost and never waits on itself (plugin_manager.cpp,                *)
(* handleProcessFailure()).                                                 *)
FailureSettles ==
  \A p \in Plugins :
    p \in failurePending ~> (p \notin failurePending /\ live[p] # "starting")

-----------------------------------------------------------------------------
(* What the comments and documents say and the code does not do.            *)

(* akp_plugin_sdk.md: a plugin is disabled after 3 crashes in the window.   *)
DisabledAfterThreeDeaths ==
  \A p \in disabled : Kind[p] = "native" => deaths[p] >= Threshold
-----------------------------------------------------------------------------
(* Instances for TLC: an HTML plugin that registers under a PUUID, and an     *)
(* older copy of it, in a directory of another name, that runs as a child    *)
(* process and names no PUUID.                                                *)
MCUuids == {"clock", "web", "puuid.web"}
MCReg == [p \in Plugins |-> IF p = "clock" THEN "clock" ELSE "puuid.web"]
MCOwner == [p \in Plugins |-> "puuid.web"]
MCNodeKind == [p \in Plugins |-> IF p = "clock" THEN "node" ELSE "html"]
MCNativeKind == [p \in Plugins |-> IF p = "clock" THEN "native" ELSE "html"]
=============================================================================
