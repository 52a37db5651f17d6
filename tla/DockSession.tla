------------------------------ MODULE DockSession ------------------------------
(***************************************************************************)
(* Which Stream Dock the application talks to: hot-plug events, the        *)
(* flyweight registry of backends, and the control and input services that *)
(* hold them (device_registry.cpp, stream_dock_control_service.cpp,        *)
(* stream_dock_input_service.cpp, sidecar_stream_dock_device.cpp and their *)
(* wiring in application.cpp).  Everything runs on the GUI thread but the  *)
(* hot-plug worker, which posts to it.                                     *)
(*                                                                         *)
(* A dock is driven by a host process that opens the docks present when it *)
(* starts, or, for the docks of Native, by a transport of its own.  A      *)
(* picture is known by the dock it was drawn for.                          *)
(*                                                                         *)
(* A definition placed right before another one with the same parameters   *)
(* and a longer name is that definition with a slip in it.                 *)
(***************************************************************************)
EXTENDS Naturals, Sequences, FiniteSets

CONSTANTS
  Docks,      (* codenames of Stream Docks                                  *)
  Native,     (* the docks with an in-tree backend (AKP815)                 *)
  Boards,     (* codenames of devices without a display                     *)
  Keys,
  Backends,   (* identities for backend objects, reused once unreferenced   *)
  None,
  Orderly,    (* a dock is unplugged only once it has settled, and selected *)
              (* or drawn for only while it is there and active             *)
  MaxPlugs    (* bound: how often a dock is plugged in                      *)

ASSUME NameAssumption ==
  /\ Native \subseteq Docks /\ Docks \cap Boards = {}
  /\ None \notin Docks \cup Boards \cup Backends
ASSUME BackendAssumption == IsFiniteSet(Backends) /\ Cardinality(Backends) >= 3
ASSUME BoundAssumption == MaxPlugs \in Nat /\ Orderly \in BOOLEAN

VARIABLES
  plugs,      (* how often a dock was plugged in: its current device node   *)
  plugged,    (* the docks that are connected                               *)
  posted,     (* calls the hot-plug worker posted to the GUI thread         *)
  armed,      (* 300 ms arrival timers running, per dock                    *)
  backend,    (* the backend objects                                        *)
  cache,      (* m_open_devices: the live backend of a codename             *)
  ctl,        (* control service: m_activeDevice                            *)
  ctlName,    (* control service: m_activeCodename                          *)
  keepAlive,  (* control service: m_keepAliveTimer runs                     *)
  pending,    (* control service: m_pendingWrites                           *)
  base,       (* control service: m_baseKeyImage                            *)
  inp,        (* input service: m_device                                    *)
  inpName,    (* input service: m_activeDeviceId                            *)
  bridge,     (* plugin bridge: m_activeDeviceId                            *)
  known,      (* plugin bridge: m_connectedDevices                          *)
  wrote       (* <<dock, picture>> pairs the last step put on a panel       *)

world == <<plugs, plugged, posted, armed>>
objects == <<backend, cache>>
control == <<ctl, ctlName, keepAlive, pending, base>>
input == <<inp, inpName>>
plugins == <<bridge, known>>
vars == <<world, objects, control, input, plugins, wrote>>

Names == Docks \cup Boards

(* What the worker posts.                                                  *)
Calls == [call : {"arm", "removed"}, dock : Docks]

(* A backend object: its device; whether its host runs or its transport is *)
(* open; the device nodes of the day it was opened and the docks it opened *)
(* there; the dock its host named last, which commands are addressed to.   *)
Object == [name : Names \cup {None}, up : BOOLEAN, since : [Docks -> Nat],
           opened : SUBSET Docks, serial : Docks \cup {None}]

Blank == [name |-> None, up |-> FALSE, since |-> [d \in Docks |-> 0],
          opened |-> {}, serial |-> None]

NoPictures == [k \in Keys |-> None]

(* The control service's device is a dock, with a display to draw on.      *)
IsDock(b) == b # None /\ backend[b].name \in Docks

Reaches(b, d) ==
  backend[b].up /\ d \in plugged \cap backend[b].opened /\ backend[b].since[d] = plugs[d]

(* Nobody has posted anything, and no arrival is being waited for.         *)
Quiet == posted = <<>> /\ \A d \in Docks : armed[d] = 0
-----------------------------------------------------------------------------
Init ==
  /\ plugs = [d \in Docks |-> 0]
  /\ plugged = {}
  /\ posted = <<>>
  /\ armed = [d \in Docks |-> 0]
  /\ backend = [b \in Backends |-> Blank]
  /\ cache = [n \in Names |-> None]
  /\ ctl = None /\ ctlName = None /\ keepAlive = FALSE
  /\ pending = NoPictures /\ base = NoPictures
  /\ inp = None /\ inpName = None
  /\ bridge = None /\ known = {}
  /\ wrote = {}

(***************************************************************************)
(* The registry.                                                           *)
(***************************************************************************)
(* What an attempt to open backend object r leaves: nothing new if it is   *)
(* open or cannot be opened; a transport to its device; or a host with any *)
(* of the docks that are present, none of them included.                   *)
Opened(r, ds, last) ==
  [name |-> r.name, up |-> TRUE, since |-> plugs, opened |-> ds, serial |-> last]

OpenResults(r) ==
  IF r.up THEN {r}
  ELSE {r} \cup
    IF r.name \in Boards THEN {[r EXCEPT !.up = TRUE]}
    ELSE IF r.name \in Native THEN {Opened(r, {r.name}, r.name) : p \in plugged \cap {r.name}}
    ELSE UNION {{Opened(r, ds, d) : d \in IF ds = {} THEN {r.serial} ELSE ds} :
                ds \in SUBSET (plugged \ Native)}

(* open(n), given the objects, the cache slots and the backends somebody   *)
(* holds: the cached backend if it is still alive, else a new one; either  *)
(* way its transport is opened if it is not.                               *)
Fresh(held) == CHOOSE b \in Backends : b \notin held

CachedNever(slots, n) == None
Cached(slots, n) == slots[n]

Lookups(objs, slots, held, n) ==
  IF Cached(slots, n) # None
  THEN {[id |-> slots[n], objs |-> [objs EXCEPT ![slots[n]] = r], cache |-> slots] :
        r \in OpenResults(objs[slots[n]])}
  ELSE LET b == Fresh(held) IN
       {[id |-> b, objs |-> [objs EXCEPT ![b] = r], cache |-> [slots EXCEPT ![n] = b]] :
        r \in OpenResults([Blank EXCEPT !.name = n])}

(* Objects nobody holds any more are destroyed and leave the cache.        *)
Retained(objs, held) == [b \in Backends |-> IF b \in held THEN objs[b] ELSE Blank]
Live(slots, held) == [n \in Names |-> IF slots[n] \in held THEN slots[n] ELSE None]

Closed(r) ==
  [name |-> r.name, up |-> FALSE, since |-> r.since, opened |-> {}, serial |-> r.serial]

(***************************************************************************)
(* Hot-plug events, on their worker thread.                                *)
(***************************************************************************)
Plug(d) ==
  /\ d \notin plugged /\ plugs[d] < MaxPlugs
  /\ plugged' = plugged \cup {d}
  /\ plugs' = [plugs EXCEPT ![d] = @ + 1]
  /\ posted' = Append(posted, [call |-> "arm", dock |-> d])
  /\ wrote' = {}
  /\ UNCHANGED <<armed, objects, control, input, plugins>>

Unplug(d) ==
  /\ d \in plugged
  /\ Orderly => Quiet
  /\ plugged' = plugged \ {d}
  /\ posted' = Append(posted, [call |-> "removed", dock |-> d])
  /\ wrote' = {}
  /\ UNCHANGED <<plugs, armed, objects, control, input, plugins>>

(***************************************************************************)
(* Activation.  The lookup and the control service's open() are two tries  *)
(* to open the backend, with the outcomes of one.                          *)
(***************************************************************************)
(* setActiveDevice(n) drops the pictures of another device, takes the      *)
(* backend the registry returns and, if it is a dock, emits                *)
(* deviceActivated, whose slots make the input service ask the registry    *)
(* again and the bridge populate the dock.                                 *)
ForgetsIfNamed(n) == ctlName # n /\ ctlName # None
Forgets(n) == ctlName # n

AnnouncesAlways(n) == TRUE
Announces(n) == n \in Docks

RestartsKeepAlive(n) == n \in Docks

ActivatedSlots(n, one) ==
  IF Announces(n)
  THEN /\ inpName' = n
       /\ bridge' = n /\ known' = known \cup {n}
       /\ \E two \in Lookups(one.objs, one.cache, {one.id, inp}, n) :
            /\ inp' = IF n \in Docks THEN two.id ELSE inp
            /\ backend' = Retained(two.objs, {one.id, inp'})
            /\ cache' = Live(two.cache, {one.id, inp'})
  ELSE /\ backend' = Retained(one.objs, {one.id, inp})
       /\ cache' = Live(one.cache, {one.id, inp})
       /\ UNCHANGED <<input, plugins>>

NotActivated ==
  /\ ctl' = None /\ ctlName' = None /\ keepAlive' = FALSE
  /\ UNCHANGED <<input, plugins>>

SetActiveDevice(n) ==
  /\ base' = IF Forgets(n) THEN NoPictures ELSE base
  /\ \E one \in Lookups(backend, cache, {ctl, inp}, n) :
       \/ /\ one.objs[one.id].up
          /\ ctl' = one.id /\ ctlName' = n
          /\ keepAlive' = RestartsKeepAlive(n)
          /\ ActivatedSlots(n, one)
       \/ /\ ~one.objs[one.id].up
          /\ NotActivated
          /\ backend' = Retained(one.objs, {inp})
          /\ cache' = Live(one.cache, {inp})
  /\ wrote' = {}
  /\ UNCHANGED pending

(* The sidebar lists the connected devices, the debug channel takes any.   *)
Select(n) ==
  /\ Orderly => n \in plugged \cup Boards
  /\ SetActiveDevice(n)
  /\ UNCHANGED world

(* A codename no backend is registered for.                                *)
SelectUnknown ==
  /\ NotActivated
  /\ base' = NoPictures
  /\ backend' = Retained(backend, {inp})
  /\ cache' = Live(cache, {inp})
  /\ wrote' = {}
  /\ UNCHANGED <<world, pending>>

ArrivalTimer(d) ==
  /\ armed[d] > 0
  /\ armed' = [armed EXCEPT ![d] = @ - 1]
  /\ SetActiveDevice(d)
  /\ UNCHANGED <<plugs, plugged, posted>>

(***************************************************************************)
(* Calls the worker posted, in order.  A removal releases the input device *)
(* whichever dock it is, and evicts the dock's backend.                    *)
(***************************************************************************)
Arm(d) ==
  /\ armed' = [armed EXCEPT ![d] = @ + 1]
  /\ UNCHANGED <<objects, control, input, plugins>>

ReleasesIfActive(d) == ctlName = d
Releases(d) == TRUE

EvictedKept(d) == [objs |-> backend, cache |-> cache]
Evicted(d) ==
  [objs |-> IF cache[d] = None THEN backend ELSE [backend EXCEPT ![cache[d]] = Closed(@)],
   cache |-> [cache EXCEPT ![d] = None]]

Disconnected(d) ==
  /\ bridge' = IF bridge = d THEN None ELSE bridge
  /\ known' = known \ {d}

Removed(d) ==
  /\ IF Releases(d) THEN inp' = None /\ inpName' = None ELSE UNCHANGED input
  /\ backend' = Retained(Evicted(d).objs, {ctl, inp'})
  /\ cache' = Live(Evicted(d).cache, {ctl, inp'})
  /\ Disconnected(d)
  /\ UNCHANGED <<armed, control>>

RunPosted ==
  /\ posted # <<>>
  /\ posted' = Tail(posted)
  /\ LET p == Head(posted) IN
       IF p.call = "arm" THEN Arm(p.dock) ELSE Removed(p.dock)
  /\ wrote' = {}
  /\ UNCHANGED <<plugs, plugged>>

(***************************************************************************)
(* What else reaches a backend.                                            *)
(***************************************************************************)
(* Another service looks a device up (brightness, clear, time, battery):   *)
(* an unused backend is gone again at once, a live one may be reopened.    *)
Peek(n) ==
  /\ cache[n] # None /\ ~backend[cache[n]].up
  /\ \E r \in OpenResults(backend[cache[n]]) : backend' = [backend EXCEPT ![cache[n]] = r]
  /\ wrote' = {}
  /\ UNCHANGED <<world, cache, control, input, plugins>>

(* The host of a dock exits by itself.                                     *)
HostDies(b) ==
  /\ backend[b].up /\ backend[b].name \in Docks \ Native
  /\ backend' = [backend EXCEPT ![b] = Closed(@)]
  /\ wrote' = {}
  /\ UNCHANGED <<world, cache, control, input, plugins>>

(* Before the vendor's flasher is launched, the docks are closed.          *)
CloseFamily ==
  /\ backend' = [b \in Backends |->
                   IF \E d \in Docks : cache[d] = b THEN Closed(backend[b]) ELSE backend[b]]
  /\ wrote' = {}
  /\ UNCHANGED <<world, cache, control, input, plugins>>

(* Polling a dead node throws; only an in-tree backend polls.              *)
PumpFails ==
  /\ inp # None /\ backend[inp].name \in Native
  /\ ~Reaches(inp, backend[inp].name)
  /\ inp' = None
  /\ backend' = Retained(backend, {ctl})
  /\ cache' = Live(cache, {ctl})
  /\ wrote' = {}
  /\ UNCHANGED <<world, control, inpName, plugins>>

(***************************************************************************)
(* Drawing.                                                                *)
(***************************************************************************)
(* A repaint draws for the active dock, a plugin for the dock its action   *)
(* is on, whichever is active.                                             *)
DrawnFor == known \cup ({ctlName} \cap Docks)

AssignKeyImage(k, d, updateBase) ==
  /\ d \in DrawnFor
  /\ Orderly => d = ctlName
  /\ pending' = [pending EXCEPT ![k] = d]
  /\ base' = IF updateBase THEN [base EXCEPT ![k] = d] ELSE base
  /\ wrote' = {}
  /\ UNCHANGED <<world, objects, ctl, ctlName, keepAlive, input, plugins>>

ClearKeyImage(k, d) ==
  /\ d \in DrawnFor
  /\ Orderly => d = ctlName
  /\ pending' = IF IsDock(ctl) THEN [pending EXCEPT ![k] = d] ELSE pending
  /\ base' = [base EXCEPT ![k] = None]
  /\ wrote' = {}
  /\ UNCHANGED <<world, objects, ctl, ctlName, keepAlive, input, plugins>>

(* The drain timer.  No backend lets the failure of a write out, so the    *)
(* branch that lets go of the dock is never taken, and the keep-alive timer *)
(* always finds the dock it was started for.                               *)
Drain ==
  /\ pending # NoPictures
  /\ pending' = NoPictures
  /\ LET d == backend[ctl].serial IN
       wrote' = IF IsDock(ctl) /\ Reaches(ctl, d)
                THEN {<<d, pending[k]>> : k \in {j \in Keys : pending[j] # None}}
                ELSE {}
  /\ UNCHANGED <<world, objects, ctl, ctlName, keepAlive, base, input, plugins>>

Next ==
  \/ \E d \in Docks : Plug(d) \/ Unplug(d) \/ ArrivalTimer(d)
  \/ \E n \in Names : Select(n) \/ Peek(n)
  \/ SelectUnknown
  \/ RunPosted
  \/ \E b \in Backends : HostDies(b)
  \/ CloseFamily
  \/ PumpFails
  \/ \E k \in Keys, d \in Docks :
       \/ \E updateBase \in BOOLEAN : AssignKeyImage(k, d, updateBase)
       \/ ClearKeyImage(k, d)
  \/ Drain

Spec == Init /\ [][Next]_vars

(* The event loop runs what was posted and what is due.                    *)
Fairness ==
  /\ WF_vars(RunPosted)
  /\ WF_vars(Drain)
  /\ \A d \in Docks : WF_vars(ArrivalTimer(d))

FairSpec == Spec /\ Fairness
-----------------------------------------------------------------------------
Pictures == [Keys -> Docks \cup {None}]

(* Every variable has its type.                                            *)
TypeOK ==
  /\ plugs \in [Docks -> Nat]
  /\ plugged \subseteq Docks
  /\ posted \in Seq(Calls)
  /\ armed \in [Docks -> Nat]
  /\ backend \in [Backends -> Object]
  /\ cache \in [Names -> Backends \cup {None}]
  /\ ctl \in Backends \cup {None}
  /\ ctlName \in Names \cup {None}
  /\ keepAlive \in BOOLEAN
  /\ pending \in Pictures
  /\ base \in Pictures
  /\ inp \in Backends \cup {None}
  /\ inpName \in Docks \cup {None}
  /\ bridge \in Docks \cup {None}
  /\ known \subseteq Docks
  /\ wrote \subseteq Docks \X Docks

(* The control and the input service never hold two backends of one dock,  *)
(* and the input service holds the one the registry would return (ARCH-03).*)
OneHandle ==
  inp # None =>
    /\ cache[backend[inp].name] = inp
    /\ ctl # None /\ backend[ctl].name = backend[inp].name => ctl = inp

(* Device events carry the name of the dock they come from.                *)
EventsAreTagged == inp # None => inpName = backend[inp].name

(* Once hot-plug events have settled, the backend of a dock that is there  *)
(* was opened after the dock was last plugged in (application.cpp,         *)
(* "builds a FRESH backend").                                              *)
FreshBackend ==
  Quiet /\ inp # None =>
    LET r == backend[inp] IN
      r.name \in plugged /\ r.up => r.since[r.name] = plugs[r.name]

(* Once hot-plug events have settled, plugins are not told of a dock that  *)
(* is gone.                                                                *)
GoneDockIsForgotten ==
  Quiet => \A d \in Docks \ plugged : bridge # d /\ d \notin known

(* Once hot-plug events have settled, nothing stale is left of a dock that *)
(* went away or came back.                                                 *)
SettledIsFresh == FreshBackend /\ GoneDockIsForgotten

(* The panel the application draws on is kept awake, and only a panel is.  *)
PanelIsPoked ==
  /\ IsDock(ctl) => keepAlive
  /\ keepAlive /\ ctl # None => IsDock(ctl)

(* The services that hold a dock agree on which one it is, through every   *)
(* switch, fault and replug.                                               *)
HandlesAgree == OneHandle /\ EventsAreTagged /\ PanelIsPoked

(* A title is laid over a picture of the dock it is drawn for.             *)
BaseIsOfActiveDock ==
  ctlName # None => \A k \in Keys : base[k] \in {None, ctlName}

(* A picture only ever appears on the dock it was drawn for ("the surfaces *)
(* belong to the previous device").                                        *)
PanelShowsItsOwn == \A w \in wrote : w[1] = w[2]

(* An unplugged dock is released by the input service, whatever the        *)
(* control service had done with it meanwhile.                             *)
UnpluggedDockIsReleased ==
  \A d \in Docks :
    d \notin plugged ~> (d \in plugged \/ inp = None \/ backend[inp].name # d)

=============================================================================
