--------------------------- MODULE DeviceServices ---------------------------
(* The services of the devices' settings page: the clock is set on demand,    *)
(* when a device arrives and every quarter of an hour; the charge is asked    *)
(* for every fifteen seconds; light and settings are written on demand. Each  *)
(* call looks its device up by codename, in the registry, and lets it go.     *)
(* src/app/src/time_sync_service.cpp, battery_service.cpp, lighting_service   *)
(* .cpp, settings_service.cpp, application.cpp                                *)
EXTENDS Naturals, FiniteSets

CONSTANTS Rows,        \* the models the registry knows
          Codename,    \* row -> codename; some rows share one
          FirstRow,    \* codename -> the first row with it
          Clocks, Batteries, Lights, Boards,   \* rows whose backend can be asked for that
          Announced,   \* rows whose descriptor says they have a battery
          Requests,    \* what the user asks of light and settings: numbers
          MaxPlugs

VARIABLES attached,   \* rows that are plugged in
          listed,     \* DeviceModel::connectedCodenames
          autoSync, enumerator, ticking,     \* m_autoSync, m_enumerator is set, the timer is active
          polling, pollTimer,                \* m_pollEnabled, its timer is active
          stored,     \* QSettings: [sync, poll]
          pending,    \* codenames whose arrival's 300 ms run
          clock,      \* row -> its clock is right
          charge,     \* row -> percent it has
          known,      \* m_lastKnown: codename -> percent, or None
          kept,       \* row -> the settings the device keeps
          said,       \* the last answer to a user's wish for the time: [what, codename]
          plugs

vars == <<attached, listed, autoSync, enumerator, ticking, polling, pollTimer, stored, pending, clock, charge,
          known, kept, said, plugs>>

None == 101
Codenames == {Codename[r] : r \in Rows}
Nothing == [what |-> "nothing", codename |-> 0]
Vendor == [fn |-> 0, sleep |-> 0, level |-> 3]
Clamped(x, lo, hi) == IF x < lo THEN lo ELSE IF x > hi THEN hi ELSE x
(* A device that is there may still refuse to be opened or written; one that  *)
(* is not there is given to the caller closed.                                *)
Reach(c) == IF FirstRow[c] \in attached THEN BOOLEAN ELSE {FALSE}

Init ==
  /\ attached \in SUBSET Rows /\ listed = {Codename[r] : r \in attached}
  /\ autoSync = TRUE /\ enumerator = FALSE /\ ticking = FALSE /\ polling = TRUE /\ pollTimer = TRUE
  /\ stored = [sync |-> TRUE, poll |-> TRUE]
  /\ pending = {} /\ clock = [r \in Rows |-> FALSE] /\ charge = [r \in Rows |-> 50]
  /\ known = [c \in Codenames |-> None] /\ kept = [r \in Rows |-> Vendor] /\ said = Nothing /\ plugs = 0

syncing == <<autoSync, enumerator, ticking, pending, clock>>
battery == <<polling, pollTimer, known>>
world == <<attached, listed, charge, plugs>>
-----------------------------------------------------------------------------
(* doPush: the codenames whose clock was set, of those asked for.             *)
Pushed(asked, done) ==
  /\ done \subseteq {c \in asked : FirstRow[c] \in attached \cap Clocks}
  /\ clock' = [r \in Rows |-> clock[r] \/ \E c \in done : FirstRow[c] = r]
Sweep(on) ==
  IF on THEN \E done \in SUBSET listed : Pushed(listed, done) ELSE UNCHANGED clock
(* The timer runs while it is wanted, and its start is a first sweep.         *)
Reconcile(sync, wired) ==
  /\ ticking' = (sync /\ wired)
  /\ Sweep(sync /\ wired /\ ~ ticking)
SetEnumerator ==
  /\ ~ enumerator /\ enumerator' = TRUE /\ Reconcile(autoSync, TRUE)
  /\ UNCHANGED <<autoSync, stored, pending, said, kept, battery, world>>
SetAutoSync(on) ==
  /\ autoSync # on /\ autoSync' = on /\ stored' = [stored EXCEPT !.sync = on]
  /\ Reconcile(on, enumerator)
  /\ UNCHANGED <<enumerator, pending, said, kept, battery, world>>
PeriodicAutoSyncTick ==
  /\ ticking /\ Sweep(autoSync /\ enumerator)
  /\ UNCHANGED <<autoSync, enumerator, ticking, pending, stored, said, kept, battery, world>>
SetSystemTimeOn(c) ==
  /\ \E done \in SUBSET {c} :
       /\ Pushed({c}, done)
       /\ said' = [what |-> IF done = {} THEN "syncFailed" ELSE "syncSucceeded", codename |-> c]
  /\ UNCHANGED <<autoSync, enumerator, ticking, pending, stored, kept, battery, world>>
OnDeviceArrivedDebounced(r) == pending' = pending \cup {Codename[r]}
OnDeviceArrived(c) ==
  /\ c \in pending /\ pending' = pending \ {c}
  /\ IF autoSync THEN \E done \in SUBSET {c} : Pushed({c}, done) ELSE UNCHANGED clock
  /\ UNCHANGED <<autoSync, enumerator, ticking, stored, said, kept, battery, world>>
-----------------------------------------------------------------------------
(* doQuery: an answer is kept, anything else forgets the last one.            *)
Queried(asked, answers) ==
  known' = [c \in Codenames |->
              IF c \notin asked THEN known[c]
              ELSE IF c \in answers /\ FirstRow[c] \in attached \cap Batteries THEN charge[FirstRow[c]] ELSE None]
QueryBattery(c) ==
  /\ \E answers \in SUBSET {c} : Queried({c}, answers)
  /\ UNCHANGED <<syncing, polling, pollTimer, stored, said, kept, world>>
PollAll ==
  /\ pollTimer
  /\ LET asked == {c \in listed : \E r \in Announced : Codename[r] = c}
     IN  \E answers \in SUBSET asked : Queried(asked, answers)
  /\ UNCHANGED <<syncing, polling, pollTimer, stored, said, kept, world>>
SetPollEnabled(on) ==
  /\ polling # on /\ polling' = on /\ pollTimer' = on /\ stored' = [stored EXCEPT !.poll = on]
  /\ UNCHANGED <<syncing, known, said, kept, world>>

(* Light: the mode with its brightness and speed held within their range.     *)
SetMode(c, n) ==
  /\ \E reached \in Reach(c) :
       kept' = IF reached /\ FirstRow[c] \in Lights THEN [kept EXCEPT ![FirstRow[c]].fn = Clamped(n, 0, 5)] ELSE kept
  /\ UNCHANGED <<syncing, battery, stored, said, world>>
ResponseLevel(n) == IF n = 0 THEN 3 ELSE Clamped(n, 1, 5)
SetSettings(c, n) ==
  /\ \E reached \in Reach(c) :
       kept' = IF reached /\ FirstRow[c] \in Boards
               THEN [kept EXCEPT ![FirstRow[c]] = [fn |-> Clamped(n, 0, 1), sleep |-> Clamped(n, 0, 255), level |-> ResponseLevel(n)]]
               ELSE kept
  /\ UNCHANGED <<syncing, battery, stored, said, world>>

(* A device that is plugged in has lost its time; the list follows later.     *)
Plug(r) ==
  /\ r \notin attached /\ plugs < MaxPlugs /\ plugs' = plugs + 1
  /\ attached' = attached \cup {r} /\ OnDeviceArrivedDebounced(r)
  /\ clock' = [clock EXCEPT ![r] = FALSE]
  /\ UNCHANGED <<listed, autoSync, enumerator, ticking, stored, said, kept, battery, charge>>
Unplug(r) ==
  /\ r \in attached /\ plugs < MaxPlugs /\ plugs' = plugs + 1
  /\ attached' = attached \ {r} /\ clock' = [clock EXCEPT ![r] = FALSE]
  /\ said' = Nothing
  /\ UNCHANGED <<listed, autoSync, enumerator, ticking, pending, stored, kept, battery, charge>>
ListRefreshed ==
  /\ listed # {Codename[r] : r \in attached} /\ listed' = {Codename[r] : r \in attached}
  /\ UNCHANGED <<attached, charge, plugs, syncing, battery, stored, said, kept>>
Drains(r) ==
  /\ charge[r] > 0 /\ charge' = [charge EXCEPT ![r] = 0]
  /\ UNCHANGED <<attached, listed, plugs, syncing, battery, stored, said, kept>>
(* The program ends and is started again: the switches are what was stored.   *)
Restart ==
  /\ autoSync' = stored.sync /\ polling' = stored.poll /\ pollTimer' = stored.poll
  /\ enumerator' = FALSE /\ ticking' = FALSE /\ pending' = {} /\ known' = [c \in Codenames |-> None]
  /\ said' = Nothing /\ listed' = {Codename[r] : r \in attached}
  /\ UNCHANGED <<attached, stored, clock, charge, kept, plugs>>

Next ==
  \/ SetEnumerator \/ PeriodicAutoSyncTick \/ PollAll \/ ListRefreshed \/ Restart
  \/ \E on \in BOOLEAN : SetAutoSync(on) \/ SetPollEnabled(on)
  \/ \E c \in Codenames : SetSystemTimeOn(c) \/ OnDeviceArrived(c) \/ QueryBattery(c)
  \/ \E c \in Codenames, n \in Requests : SetMode(c, n) \/ SetSettings(c, n)
  \/ \E r \in Rows : Plug(r) \/ Unplug(r) \/ Drains(r)
Spec == Init /\ [][Next]_vars

-----------------------------------------------------------------------------
TypeOK == /\ attached \subseteq Rows /\ listed \subseteq Codenames /\ pending \subseteq Codenames
          /\ known \in [Codenames -> 0..None] /\ \A r \in Rows : kept[r].level \in 1..5

(* The timers run exactly when their switches say so, before and after a      *)
(* restart; no clock is set and no charge asked for behind a switch that is   *)
(* off; a clock that was said to be set is right until its device is gone.    *)
ServicesAreTrue ==
  /\ ticking = (autoSync /\ enumerator) /\ pollTimer = polling
  /\ stored = [sync |-> autoSync, poll |-> polling]
  /\ said.what = "syncSucceeded" => clock[FirstRow[said.codename]]
=============================================================================
