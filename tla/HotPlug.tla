------------------------------- MODULE HotPlug -------------------------------
(* The hot-plug worker, the coalescing of its events and the list of devices. *)
(* A thread waits for the kernel and calls the application, which coalesces   *)
(* the events of a device for 300 ms on its own thread and then enumerates    *)
(* the devices again; one row stands for all devices sold under one codename. *)
(* src/core/src/hotplug_monitor.cpp, src/app/src/hotplug_debouncer.cpp,       *)
(* device_model.cpp, application.cpp                                          *)
EXTENDS Naturals, Sequences, FiniteSets, SequencesExt

CONSTANTS Rows,        \* the codenames
          Pairs,       \* row -> the vid and pid pairs registered for it
          FirstPair,   \* row -> the pair that was registered first
          Docks,       \* the rows that are Stream Docks
          Strangers,   \* pairs no backend knows
          MaxPlugs     \* the bound on what the user plugs and unplugs

Known == UNION {Pairs[r] : r \in Rows}
AllKeys == Known \cup Strangers
ASSUME KeysAssumption == IsFiniteSet(AllKeys)

VARIABLES phase,       \* the application: "off", "built", "up", "silenced", "joining", "down"
          attached,    \* the pairs on the bus
          kernel,      \* events the worker has not read: [action, key]
          os, running, stopFlag, wired,
          worker,      \* "none", "starting", "polling", "calling" or "gone"
          held,        \* the event it delivers
          posted,      \* calls queued for the application's thread: [call, key]
          armed,       \* the pairs whose coalescing timer runs
          timers,      \* single-shot timers of an arrival: <<what, row>>
          connected,   \* m_connected
          shown,       \* row -> whether the view was told that it is connected
          missed,      \* history: the bus changed and the worker did not get to know
          plugs

machine == <<attached, kernel, plugs>>
monitor == <<os, running, stopFlag, wired, worker, held>>
lists == <<connected, shown, missed>>
vars == <<phase, machine, monitor, posted, armed, timers, lists>>

RowOf(k) == {r \in Rows : k \in Pairs[r]}
NoEvent == [action |-> "none"]

(* Bug: only the pair that was registered first counts.                       *)
OnlineByFirst(r, there) == FirstPair[r] \in there

(* ConnectedRole: any of the pairs of a row will do.                          *)
Online(r, there) == Pairs[r] \cap there # {}

Init ==
  /\ phase = "off" /\ attached \in SUBSET AllKeys /\ kernel = <<>> /\ plugs = 0
  /\ os \in {"linux", "windows", "macos"} /\ running = FALSE /\ stopFlag = FALSE /\ wired = FALSE /\ worker = "none" /\ held = NoEvent
  /\ posted = <<>> /\ armed = {} /\ timers = {}
  /\ connected = {} /\ shown = [r \in {} |-> FALSE] /\ missed = FALSE
-----------------------------------------------------------------------------
(* refresh: when the rows are the ones of before the view is told of those    *)
(* whose state has flipped, otherwise it starts over.                         *)
Flipped(before, now) == {r \in Rows : Online(r, before) # Online(r, now)}
Refreshed ==
  /\ connected' = attached /\ missed' = FALSE
  /\ shown' = IF DOMAIN shown # Rows THEN [r \in Rows |-> Online(r, attached)]
              ELSE [r \in Rows |-> IF r \in Flipped(connected, attached) THEN Online(r, attached) ELSE shown[r]]

Bootstrap ==
  /\ phase = "off" /\ phase' = "built" /\ Refreshed
  /\ UNCHANGED <<machine, monitor, posted, armed, timers>>

(* startBackgroundServices: the callback, then the worker. Without its        *)
(* descriptor start() gives up; what fails later the worker keeps to itself.  *)
Start ==
  /\ phase = "built" /\ phase' = "up" /\ wired' = TRUE
  /\ \/ running' = FALSE /\ worker' = "none" /\ os = "linux"
     \/ running' = TRUE /\ worker' = "starting"
  /\ stopFlag' = FALSE
  /\ UNCHANGED <<machine, os, held, posted, armed, timers, lists>>

(* The worker's first steps; on macOS it is told of what is there already.    *)
RunLinux == /\ worker = "starting" /\ os = "linux" /\ worker' \in {"polling", "gone"}
            /\ UNCHANGED <<phase, machine, os, running, stopFlag, wired, held, posted, armed, timers, lists>>
RunWindows == /\ worker = "starting" /\ os = "windows" /\ worker' \in {"polling", "gone"}
              /\ UNCHANGED <<phase, machine, os, running, stopFlag, wired, held, posted, armed, timers, lists>>
Arrivals == SetToSeq({[action |-> "Arrived", key |-> k] : k \in attached})
RunMacos ==
  /\ worker = "starting" /\ os = "macos"
  /\ \/ worker' = "gone" /\ UNCHANGED <<kernel, missed>>
     \/ worker' = "polling" /\ kernel' = Arrivals /\ missed' = (missed /\ attached = {})
  /\ UNCHANGED <<phase, attached, plugs, os, running, stopFlag, wired, held, posted, armed, timers, connected, shown>>
-----------------------------------------------------------------------------
(* The kernel. On Linux whatever is not "add" counts as a removal, the "bind" *)
(* that follows an arrival included; ids that cannot be read drop the event.  *)
Heard(k, action) ==
  IF worker = "polling"
  THEN \/ kernel' = Append(kernel, [action |-> action, key |-> k]) /\ UNCHANGED missed
       \/ missed' = TRUE /\ UNCHANGED kernel
  ELSE missed' = TRUE /\ UNCHANGED kernel
Plug(k) ==
  /\ k \notin attached /\ plugs < MaxPlugs /\ plugs' = plugs + 1
  /\ attached' = attached \cup {k} /\ Heard(k, "Arrived")
  /\ UNCHANGED <<phase, monitor, posted, armed, timers, connected, shown>>
Unplug(k) ==
  /\ k \in attached /\ plugs < MaxPlugs /\ plugs' = plugs + 1
  /\ attached' = attached \ {k} /\ Heard(k, "Removed")
  /\ UNCHANGED <<phase, monitor, posted, armed, timers, connected, shown>>
Bind(k) ==
  /\ os = "linux" /\ k \in attached /\ worker = "polling" /\ plugs < MaxPlugs /\ plugs' = plugs + 1
  /\ kernel' = Append(kernel, [action |-> "Removed", key |-> k])
  /\ UNCHANGED <<phase, attached, monitor, posted, armed, timers, lists>>
-----------------------------------------------------------------------------
(* The worker: stopped, interrupted, or with an event and a copy of the       *)
(* callback it took under the lock.                                           *)
Wake == /\ worker = "polling" /\ stopFlag /\ worker' = "gone"
        /\ UNCHANGED <<phase, machine, os, running, stopFlag, wired, held, posted, armed, timers, lists>>
Interrupted ==
  /\ os = "linux" /\ worker = "polling" /\ ~ stopFlag /\ worker' = "gone"
  /\ missed' = (missed \/ kernel # <<>>) /\ kernel' = <<>>
  /\ UNCHANGED <<phase, attached, plugs, os, running, stopFlag, wired, held, posted, armed, timers, connected, shown>>
Take ==
  /\ worker = "polling" /\ kernel # <<>> /\ kernel' = Tail(kernel)
  /\ IF wired THEN worker' = "calling" /\ held' = Head(kernel) ELSE UNCHANGED <<worker, held>>
  /\ UNCHANGED <<phase, attached, plugs, os, running, stopFlag, wired, posted, armed, timers, lists>>

(* onHotplug, on the worker's thread.                                         *)
Call(name) == [call |-> name, key |-> held.key]
OnHotplug ==
  /\ worker = "calling" /\ worker' = "polling" /\ held' = NoEvent
  /\ LET rows == RowOf(held.key)
     IN  IF held.action = "Arrived"
         THEN /\ timers' = timers \cup ({"clock"} \X rows) \cup ({"dock"} \X (rows \cap Docks))
              /\ posted' = Append(posted, Call("observe"))
         ELSE /\ posted' = posted \o <<Call("observe")>> \o
                           (IF rows \cap Docks # {} THEN <<Call("forget")>> ELSE <<>>)
              /\ UNCHANGED timers
  /\ UNCHANGED <<phase, machine, os, running, stopFlag, wired, armed, lists>>
-----------------------------------------------------------------------------
(* The application's thread. observe() arms or restarts the timer of a pair;  *)
(* a dock that left is DockSession's, as is the dock an arrival lights.       *)
EventLoop == phase \in {"built", "up"}
Posted ==
  /\ EventLoop /\ posted # <<>> /\ posted' = Tail(posted)
  /\ armed' = IF Head(posted).call = "observe" THEN armed \cup {Head(posted).key} ELSE armed
  /\ UNCHANGED <<phase, machine, monitor, timers, lists>>
Coalesced(k) ==
  /\ EventLoop /\ k \in armed /\ armed' = armed \ {k} /\ Refreshed
  /\ UNCHANGED <<phase, machine, monitor, posted, timers>>
ArrivalTimer(t) ==
  /\ EventLoop /\ t \in timers /\ timers' = timers \ {t}
  /\ UNCHANGED <<phase, machine, monitor, posted, armed, lists>>

(* ~Application: no more calls, then the worker is joined, then what is in    *)
(* the queue is dropped. A monitor that never ran is not joined.              *)
Silence == /\ phase \in {"built", "up"} /\ phase' = "silenced" /\ wired' = FALSE
           /\ UNCHANGED <<machine, os, running, stopFlag, worker, held, posted, armed, timers, lists>>
Stop == /\ phase = "silenced" /\ phase' = "joining"
        /\ IF running THEN running' = FALSE /\ stopFlag' = TRUE ELSE UNCHANGED <<running, stopFlag>>
        /\ UNCHANGED <<machine, os, wired, worker, held, posted, armed, timers, lists>>
Joined == worker \in {"none", "gone"}
Drain == /\ phase = "joining" /\ Joined
         /\ phase' = "down" /\ posted' = <<>> /\ armed' = {} /\ timers' = {}
         /\ UNCHANGED <<machine, monitor, lists>>

Next ==
  \/ Bootstrap \/ Start \/ RunLinux \/ RunWindows \/ RunMacos
  \/ \E k \in AllKeys : Plug(k) \/ Unplug(k) \/ Bind(k) \/ Coalesced(k)
  \/ Wake \/ Interrupted \/ Take \/ OnHotplug \/ Posted
  \/ \E t \in timers : ArrivalTimer(t)
  \/ Silence \/ Stop \/ Drain

Spec == Init /\ [][Next]_vars
-----------------------------------------------------------------------------
TypeOK ==
  /\ phase \in {"off", "built", "up", "silenced", "joining", "down"} /\ attached \subseteq AllKeys
  /\ worker \in {"none", "starting", "polling", "calling", "gone"} /\ (held # NoEvent) = (worker = "calling")
  /\ armed \subseteq AllKeys /\ timers \subseteq {"clock", "dock"} \X Rows
  /\ connected \subseteq AllKeys /\ DOMAIN shown \in {{}, Rows}

(* Everything the worker has heard is worked off, and it heard everything.    *)
Quiet == /\ EventLoop /\ kernel = <<>> /\ posted = <<>> /\ armed = {}
         /\ worker # "calling" /\ ~ missed
RowsFollowBus == Quiet => \A r \in Rows : shown[r] = (\E k \in Pairs[r] : k \in attached)

(* Nobody is left that could still call the application.                      *)
NobodyCalls == phase = "down" => worker \in {"none", "gone"} /\ posted = <<>> /\ armed = {}

(* Once everything the worker has heard is worked off, the view shows exactly *)
(* the rows one of whose devices is on the bus: no burst, rebadge, reordered  *)
(* timer or "bind" leaves it behind. What the worker could not hear is not    *)
(* held against it. The destructor leaves nobody behind that calls it.        *)
ListKeepsUp == RowsFollowBus /\ NobodyCalls
=============================================================================
