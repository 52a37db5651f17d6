# AJAZZ Control Center: TLA+ verification project

AJAZZ Control Center is a Qt desktop application that drives AJAZZ and MiraBox
stream decks, keyboards and mice and hosts Elgato-style plugins.  This
directory models the parts of it whose correctness depends on the order of
events or on tables that must agree, checks the models with TLC on small
instances, and proves with TLAPS, for every instance, the properties listed
below.  Paths are relative to the repository; `PROJECT.json` maps every
definition to the lines it stands for.

1. [Inventory](#1-inventory)
2. [Modules](#2-modules)
3. [Runs](#3-runs)
4. [Proofs](#4-proofs)
5. [Divergences](#5-divergences)
6. [Not modelled](#6-not-modelled)
7. [Plan](#7-plan)

How to read the modules.  One action is one step of the code's own atomicity:
for everything on the GUI thread that is a handler run to completion, and where a
handler calls out to code that may run further handlers (an action chain, a
`waitForFinished`), the action is cut there.  A comment names the class or
member each variable stands for; variables marked *history* exist only for the
properties.  A definition placed right before another one with the same
parameters and a longer name (`ReleaseTapsForwarded` before `ReleaseTaps`) is that
definition with a plausible slip in it.  No specification uses it; it is kept to
show which property notices the slip.

## 1. Inventory

The program is one process with one busy thread.  The GUI thread runs the
services below as Qt slots; beside it run the hot-plug worker, one host process
for Stream Docks per open dock, one child process per native or Node plugin,
and one Python child for Python plugins.

    hot-plug worker --posted calls--> Application ----> DeviceRegistry (backends)
                                        |  |  |              ^      ^
               arrival timers (300 ms) -+  |  |        open  |      | open
                                           v  +--> Control service  Input service
                            ProfileController       | deviceActivated  |  | wire
                              ^   | active profile  v (signal)         |  | events
        profile.switch action |   +-------------> PluginDeviceBridge <-+  v
                    BuiltinActionsService <------------------------ ActionEngine
                                                    ^  |             ^   |
     PluginManager <--- Application (inspector gate)|  | frames      +---+ QtExecutor
        | QProcess             ^                    |  v               singleShot timers
        +--> plugin children --+--- WebSocket --- SdPluginServer

### Components with state whose order of events matters

| component | state | operations | talks to | what is hard |
|---|---|---|---|---|
| **PluginManager**, PluginCrashTracker (`src/src/app/src/plugin_manager.cpp`) | `m_live` (entry, `QProcess`), `m_htmlPages`, `m_disabled`, `m_failurePending`, crash times, persisted disable flags | discover, spawn, rediscover, onProcessFailed, handleProcessFailure, unloadPlugin, setPluginEnabled, shutdown | children through `QProcess` signals; the server for `exitApp`; Application for install and uninstall | one death emits two signals; a requested stop emits them inside the handler that waits for it; the teardown is queued and the table changes before it runs; the user's switch and the crash policy meet |
| **SdPluginServer**, PiAppearGate (`sd_plugin_server.cpp`, `pi_appear_gate.hpp`) | `m_connections` (uuid, salt, attempts, authenticated, role, owner), the gate's set | start, stop, new connection, disconnect, registerPlugin, registerPropertyInspector, challenge answer, routed action, two relays | plugins and inspectors over sockets; Application by signals; the bridge's context registry by callbacks | clients register again, in another role, or answer late; sockets drop in any order; owners of an instance change under an inspector |
| **EventBus** (`src/src/core/src/event_bus.cpp`) | a copy-on-write vector of handlers, the next token | subscribe, unsubscribe, publish | any thread | the token is drawn outside the lock, the loop runs outside the lock, handlers call back into the bus, handlers throw |
| **DeviceRegistry** (`device_registry.cpp`) | weak references to open backends by codename | open, invalidateOpenDevice, closeOpenDevicesInFamily | control and input service, facade | a cached backend outlives the device node it was opened on |
| **StreamDockControlService** | active backend and codename, pending writes, base pictures, carousel, brightness levels | setActiveDevice, assign and clear of every surface, drain, page changes, brightness, closing a family | registry; the backend; `deviceActivated`/`deviceDeactivated` to the input service and the bridge | picture caches of the previous dock, an activation that fails half way, faces, plugins and pages that write the same key between two drains |
| **SidecarStreamDockDevice**, `streamdock-host` | child process, adopted serial; in the host the docks it opened and their readers | open, close, every command; every event; death of the host | one host per backend, two pipes | a host reports ready without any dock; a command for an unknown serial goes to another dock; three numberings of the same keys |
| **StreamDockInputService** (`stream_dock_input_service.cpp`) | held backend, encoder count, rotation accumulators, single-shot timer, touch in progress | dispatch of every event kind, drainCoalescedRotation, setActiveDevice, pump failure | ActionEngine, ProfileController, then the bridge | a chain it starts may switch the profile or take a while; rotation is collected across events; releases may be synthesised |
| **ActionEngine**, QtExecutor (`action_engine.cpp`) | page stack, alive flag; the walks on the call stack and the continuations in timers | run, runFrom, pushPage, popPage, setProfile, destructor | built-in handlers, which may call `run` again; executor | deferred halves of chains interleave; nested runs; timers outlive the engine |
| **PluginDeviceBridge** (`plugin_device_bridge.cpp`) | known docks, active dock, the registry of contexts with owners and settings, layers of pictures, titles and feedback, flashes | device connected/disconnected, profile and page change, reconcile, plugin connection, every draw request, settings requests | server, control service, profiles, settings store | willAppear and willDisappear must pair up over page, profile and device changes; flashes restore stale pictures; two writers of one record |
| **ProfileController**, `profile_io`, `profile.cpp` | library index, profile in memory, editor page stack, Toggle states, files on disk | load, create, rename, map, delete, switch, every edit, save; the codec of the document | almost everything | memory, index and file must agree though writes fail; the editor and the dock look at different pages; crash between write, rename and sync |
| **Per-application profiles** | last emitted window, debounce timer | window change, dispatch | profiles | a burst of focus changes against switches by others |
| **BuiltinActionsService**, **ObsClient** | LunBo cursors; socket and handshake state | every built-in id; the OBS connection | engine, profiles, control service, operating system | a handler runs chains from inside a chain and may change the profile it runs from; a lazy connection that is refused or dropped |
| **HotplugMonitor**, HotplugDebouncer, DeviceModel | worker thread, callback, running flag; pending changes per device; the connected set | start, stop, setCallback; coalescing; refresh | Application | thread start, stop and callback exchange; bursts, rebadged devices |
| **OutOfProcessPluginHost**, `_host_child.py`, UnifiedPluginHost | pipes to the Python child, alive flag | start, add path, load, list, dispatch, destructor | child over JSON lines | a late reply, a dead child, a child that will not leave |
| **PluginCatalogModel**, installers, verification | plugins directory, consent and seed flags, jobs, rows | install by every way, remove, launch sweep, consent, rediscover | PluginManager, network | crashes between the steps of an installation; verdict against consent |
| **Catalogue fetchers** | state, cache and rows per source | refresh, switch off, reload, search | network | answers of three sources in any order, pages, failures |
| **PluginManifest**, NodeRunner, PluginManager's gates | bundles on disk, what runs | parse, discover, dispatch, list of offered actions | editor | two readers of one file must agree |
| **AppUpdateService**, FirmwareUpdateService | status, ETag, dismissed tag; launched tools | checkNow, answers, dismiss, launch | GitHub, the vendor's tool | answers in any order; handles held while the updater runs |
| **Clock, battery, lighting, settings services** | switches, timers, last known values | toggles, sweeps, arrivals, writes | registry, backends | switches against timers and restarts |
| **Keyboard, mouse, AKP815, VIA backends, HidTransport** | caches, handle, library guard | every command as a sequence of reports; poll | a device that may get only some of the reports | failures in the middle of an envelope, chunk arithmetic, what is told to the caller |

### What makes each of them correct

- Plugins: a plugin the user disabled stays down; a failed one is restarted at
  a limited rate or disabled, never both; one death costs one teardown; pages
  and entries agree; a child is told before it is stopped.
- Server: one connection per uuid; the signals the rest of the program sees
  agree with the table; challenge attempts are counted across registrations; a
  relayed frame stays within one action instance; lifecycle events of inspectors
  pair up.
- Event bus: a publication reaches exactly those subscribed when it was made,
  once each, and a token names one subscription.
- Dock session: both services use one backend per dock, opened after the last
  plug; a dock that left is let go by everybody; pictures stay with their dock.
- Input and chains: every chain runs its steps in order and to the end; no
  rotation is lost or carried over to another dock; dial events pair up;
  nothing runs after shutdown.
- Bridge: a plugin believes in exactly the instances that are registered as its
  own; the registry is what the profile binds; titles, feedback and pictures are
  those of the action shown; plugin, inspector, registry and disk agree on an
  instance's settings once everything under way has arrived.
- Profiles: memory, file and index agree; an edit reaches the disk and the
  view; a file is the old document or the new one after a power loss; what is
  written is read; the foreground application moves to its own profile only.
- Python host: an answer is that of the request it is taken for.
- Installation: nothing starts without the consent its signature needs, and
  what is removed is stopped (it is not, see [Divergences](#5-divergences)).
- Store, manifests, updates: lists are whole, what is offered can be run, a
  check never hangs, and a banner is about a release that is newer and was not put
  off (a 304 raises one about an older release too, see Divergences).
- Devices: the list follows the bus; what a backend reports done is what the
  device has; the channel's library lives exactly as long as its users.
- Surfaces, built-ins, OBS: a dock shows the faces of the page it stands on; a
  carousel moves on by one step a press, unless a step of it writes through a dead
  reference (see Divergences); a request reaches OBS only when it was let in.

The remaining components (presentation, logging, debugging, ...) are listed in
`PROJECT.json` with the reason each is left out.

## 2. Modules

| module | extends | models | proofs |
|---|---|---|---|
| `PluginLifecycle` | | PluginManager and its crash tracker | `PluginLifecycleProofs` |
| `SdPluginServer` | | the WebSocket server and the inspector gate | `PluginHostsProofs` |
| `PythonHost` | | the Python host, its child and the wire between them, the aggregation of both hosts | `PluginHostsProofs` |
| `PluginHosts` | `SdPluginServer`, instantiates `PythonHost` | composition: the two hosts of plugins the application asks as one | `PluginHostsProofs` |
| `Broadcast` | | abstract: what an event bus promises | |
| `EventBus` | instantiates `Broadcast` | the bus, implementing it | `EventBusProofs` |
| `DockSession` | | hot-plug handling, registry, control service, hosts, and who holds which backend | `DockSessionProofs` |
| `ActionEngine` | | the chain interpreter and its executor | `DockInputProofs` |
| `DockInput` | `ActionEngine` | the input service, profiles in use, Toggle Actions, dials as the bridge sees them | `DockInputProofs` |
| `ActionContexts` | instantiates `InstanceSettings` | the bridge: instances, owners, appearances, pictures, titles, feedback, flashes | `ActionContextsProofs` |
| `InstanceSettings` | | the settings protocol between plugin, inspector, registry, profile and disk | `ActionContextsProofs` |
| `ProfileLibrary` | instantiates `ProfileFile` | the profiles on disk, their index, the one in memory; everybody who switches | `UserDataProofs` |
| `ProfileEditing` | | the edits of one profile: bindings, chains, folders, toggles | `UserDataProofs` |
| `AtomicFile` | | abstract: what writing a profile promises | |
| `ProfileFile` | instantiates `AtomicFile` | the write of a profile, call by call, implementing it | `UserDataProofs` |
| `ProfileCodec` | | the document of a profile | |
| `PluginInstall` | | every way a plugin comes in or goes, consent, verdicts, crashes | `UserDataProofs` |
| `UserData` | `ProfileLibrary`, instantiates `ProfileEditing` and `PluginInstall` | composition: what is kept in the user's data directory | `UserDataProofs` |
| `PluginManifests` | | manifests, platform and version gates, what is started and what is offered | |
| `Catalogues` | | the store's three sources and its rows | |
| `Updates` | | application and firmware updates | `ServicesProofs` |
| `HotPlug` | | the worker, the debouncer, the device list, the destructor's order | `ServicesProofs` |
| `DeviceServices` | | clock, battery, light and settings services | `ServicesProofs` |
| `HidTransport` | | the channels and the library's guard | `ServicesProofs` |
| `ViaKeyboard` | | the backend of keyboards with the VIA protocol | `ServicesProofs` |
| `ObsClient` | | the connection to OBS | `ServicesProofs` |
| `Sidecar` | | the backend of a hosted dock and its host, command by command | `ServicesProofs` |
| `Surfaces` | | what the control service puts on a dock | `ServicesProofs` |
| `Services` | `HotPlug`, instantiates the seven others of these | composition: the services that stand beside one another in the application | `ServicesProofs` |
| `Keyboard`, `Mouse`, `Panel` | | the other backends that speak to a device themselves | |
| `BuiltinActions` | | the actions the application performs itself | |

Compositions.  `DockInput` composes with `ActionEngine` by extension: the engine's
variables are its own, and `InputDrivesEngine` proves that each of its steps is
one of the engine's or leaves the engine alone.  `EventBus` and `ProfileFile`
implement abstract specifications.  `UserData`, `PluginHosts` and `Services` put parts next to
each other that keep their state apart, each with variables and steps of its own, so that
what is stated of a part is stated of the whole.  Elsewhere a module contains its
neighbours as far as they decide what it does: `DockSession` has the registry, the
two services and the hosts; `ActionContexts` the profile, the docks and the plugins;
`ProfileLibrary` the tray, the web interface, keys, plugins and the foreground
application.

`MCDockInput` gives one module's constants values; `PluginLifecycle` has those of its runs at
its end, and `EventBus` and `DockSession` need only a .cfg.  `MCPluginBridge`, `MCProfiles`, `MCServices` and
`MCSdPluginServer` (which extend `ActionContexts`, `UserData`, `Services` and `PluginHosts`)
hold several instances as *scenes*: a variable `scene` is chosen in the initial state, only the instance of
that scene takes steps, and the variables of the others rest.  The instances of a
run do not interact, so its states are the sum of theirs and not the product.

### PluginLifecycle

| state | code |
|---|---|
| `live[p]` | the entry in `m_live` with the state of its `QProcess`: absent, html, starting, running, dead (failed), exited (clean) |
| `pages` | `m_htmlPages`, by registration uuid |
| `disabled`, `userDisabled` | `m_disabled`; the persisted `plugins/disabled/<id>` |
| `failurePending`, `queued` | `m_failurePending`; calls of `handleProcessFailure` in the event queue |
| `credits` | crash times in `PluginCrashTracker`, pruned by the window |
| `up`, `installed`, `now`, `exitAppTo` | a session runs; directories on disk; `m_clock`; whom the last handler sent `exitApp` |

`Launch`, `Rediscover`, `UserEnable`, `Install` and `Reload` spawn through one operator,
`Spawn`, which honours `shouldSkipSpawn`.  `Unload(S, how)` is `unloadPlugin` for the
keys in `S`, which are directory names: `UserDisable` and `Reload` call it for the
plugin's key, `Install` and `InstallFails` for the directory they replace
(`pluginWillBeReplaced`), `Install` also for the other directories of the same owner
(`Twins`, `dedupeDuplicateInstalls`), unless it unpacks in place as the network path
does.  `Uninstall` is `removeInstalledPlugin`: it deletes the directory and calls
`unloadPlugin` with `Owner[p]`, the uuid of the manifest, which is no directory's name:
the entry, its child and its page stay, and its deaths go on being answered.  `Refuse` is
the network path taking a refused package away;
`HandleProcessFailure` erases the entry itself and spawns again.  `OnProcessFailed(n)` is the
handler called `n[p]` times for plugin `p` within one Qt emission: a child that
dies of a signal fires `errorOccurred(Crashed)` and `finished(CrashExit)`, and
both handlers call it.  `unloadPlugin` waits for the child inside the handler, so
such calls may happen in the middle of a user action; `Reload` then goes on to
`rediscover()` in the same handler.  `Shutdown` and `HostDies` end a session
(children are tied to the parent); the persisted flags stay, and `Launch` starts
the next one.  How a child dies, whether Node is found and whether `FailedToStart`
is followed by `finished` are choices of the environment.

### SdPluginServer

`slot[s]` is the record of a socket in `m_connections`, `conn[s]` whether it is
open or being closed, `appeared` the gate's set, `signals` and `relayed` what the
last handler emitted and forwarded, `instanceOwner` what the context owner
resolver answers.  A handler is one action: `OnNewConnection`,
`OnClientDisconnected`, `RegisterPlugin`, `RegisterPropertyInspector`,
`Authentication`, `RoutedAction`, `SendToPlugin`, `SendToPropertyInspector`, `Start`,
`Stop`.  `Rebind` is the bridge giving an instance to another plugin.  A salt is
the number of the registration that drew it, so that an answer to an earlier
challenge is told from one to the latest.  Contexts have two spellings
(`keyDot`, `keyHash`) because the inspector and the wire write them differently and
`canonicalContextId` maps one to the other.  `Orderly` says whether clients keep
their role and answer only challenges they were sent.

### PythonHost

The host writes one request at a time and reads the lines of the answer, each
within a timeout; `call` is the request in progress, `inbox` and `wire` are the two
pipes, `todo` the lines the child has yet to write.  The child may be late at any
line and may die; after either the host marks it dead (`alive`) and never asks
again, which is what keeps a late line from being taken for the answer to the next
request.  In the model each request has a number and the child stamps its lines
with it.  `Written` and `Read` are `json.dumps` and `decodeQuotedString` over kinds of
characters.  `Refresh` and `Dispatch` are the two uses `UnifiedPluginHost` and
`LoadedPluginsModel` make of the host.

### EventBus and Broadcast

A thread's `stack` holds its `publish` calls, each with the snapshot of the vector
it iterates over; `SubscribeFetch` and `SubscribeAppend` are the two halves of
`subscribe`, since the token is drawn before the lock is taken.  `Broadcast` says
nothing of vectors or stacks: a publication owes itself to all members of one
instant, each delivery pays one of them, members may come and go.  The
refinement maps the slot `<<thread, level>>` to a publication and the part of a
frame's snapshot not yet reached to what it owes.

### DockSession

The world plugs and unplugs docks (`plugs[d]` counts the plugs and stands for
the device node of the day); the hot-plug worker's posted calls are `posted`, the
300 ms timers `armed`.  A backend object records the dock it is for, the nodes it
was opened on and the dock its host named last.  `SetActiveDevice` is the control
service's function with everything its signals do in the input service and the
bridge, as one step, since the connections are direct.  `RunPosted`, `ArrivalTimer`,
`Drain`, `PumpFails`, `HostDies`, `Select`, `CloseFamily` and `Peek`
(another reader of the registry) are handlers.  A backend that nobody references
is gone, which is what the registry's weak references mean.

`Orderly` restricts the user, not the code: a dock is unplugged only when the
hot-plug events of before are through, and only a connected dock is selected or
drawn for.

### Sidecar and Surfaces

They open up what `DockSession` keeps closed.  `Sidecar` has the two pipes between one
backend and its host: the handshake, the enumeration the host makes once, the
serial the backend adopts from the last `connected`, each command with its key
numbers turned into the driver's, each event with the numbers turned back, EOF,
`close()` and the host's death.  `Surfaces` has `m_pendingWrites` with its drain in the
code's order, the faces of the profile's pages and dials, the carousel, what
plugins draw over them, the pictures a flash reverts to, `clearAll` and brightness;
its `Paint` and `Dim` families are two scenes because pictures do not read the
brightness.

### ActionEngine, DockInput and BuiltinActions

`stack` is the call stack of walks through chains, each at a step and either
before its `switch` or behind it; a walk whose step has a delay moves its rest
into `deferred`, a set of single shots.  A plugin step that is a built-in Multi
Action runs another chain from inside the walk (`Nested`).  `ran[r]` is the history of
steps run `r` performed.  `DockInput` starts runs from wire events and goes on
with its handler when the stack is empty: `ShowBridge` gives the event to the
bridge, `DrainNext` takes the next encoder of the rotation drain, which reads the
active profile anew because a chain may have switched it.

A press that cycles a Toggle Action goes where the code sends it: the binding of the
root page decides whether it is one (`Toggles`), and `Addressed` is the instance that is
cycled, for a key the one on the page the editor shows (`page`, at most one folder of
`Folders`), which need not exist or be the same.  `toggle` has the state of each instance
that has states (`Stateful`).

`BuiltinActions` has what the handlers themselves ask for: `Asks` turns an id with its
settings into a request to the operating system, the control service or the
profiles, `calls` is what a press has left to do (a carousel's step may be another
carousel, or a switch of profile that clears `m_lunboCursors` under it), and the
aliases and the list the editor offers are compared with the table of handlers.
`ObsClient` is the connection one of these handlers opens.

### ActionContexts and InstanceSettings

A place is a control of a dock.  `registry` is the bridge's context registry,
`view[p]` what plugin `p` was told with willAppear and willDisappear, `told` the
docks it was told of; `stash`, `captions`, `feedback` and `titles` are the layers
(pictures per state, titles per state, dial feedback, titles), `shown` what the
control displays, and pending flashes keep the picture they revert to.  `active` is the
bridge's active dock and `codename` the control service's `m_activeCodename`, which outlives
an unplug: a dock that comes back finds the service's pictures as they were and its
titles gone (`DockActivated`), and an activation that fails forgets the name, and the
pictures unless they were that dock's (`ActivationFails`).  Reconciling
with a profile, mounting, vacating, rebinding in place, populating for a plugin or a
dock that returns, and retiring are operators used by every action in which the
code calls them.

`InstanceSettings` is one instance's record: `store`, `entry`, `binding` and the two
parties' `belief`, with the frames of either socket in order and the two sockets
independent.

### Profiles

`ProfileLibrary`: `w` holds the files, the index, the profile in memory and whether its
last write failed; each action writes as the code does, including writes that
fail, and `back` and `pending` are the ways back of plugins and the debouncer of the
foreground application.  `ProfileEditing` opens the one profile: pages, bindings with
their chains, instances with states, the editor's page stack.  `ProfileFile` is one
write, system call by system call, by two writers, with a power loss between any
two of them: of a file whatever was flushed and any part of the rest, of the
directory its old or its new entry; `FileIsAtomic` maps it to `AtomicFile` by the
directory's entry.  `ProfileCodec` writes and reads a document as a sequence of
members, which other tools may reorder, extend, or have written in version 1.

### PluginInstall

`disk` and `away` are the directories under their names and those with `.disabled`
appended, `allowed`, `seeded` and `unsigned` the persisted flags, `jobs` the installations
under way with the step each is at, `running` `m_live` with the package each plugin
was started from.  The application may die between any two steps; `Launch` is
the start with its sweep, quarantine and discovery.  `agreed`, `blanket` and `hand`
record what the user consented to and what was copied in while the program ran.

### The smaller services

`Updates`, `Catalogues` and `PluginManifests` model answers that arrive in any order or
fail, and two readers of the same data that must agree.  `HotPlug` has the worker
thread step by step (the callback is copied, then called), the posted calls, the
debouncer and the destructor.  `DeviceServices` looks each device up anew and lets
it go, as the services do.  `Keyboard`, `Mouse`, `Panel` and `ViaKeyboard` turn a
command into the reports it writes, of which any number may arrive before the
first failure, keep the device's side of the protocol, and compare what the
caller was told with what the device has; sizes of chunks are constants so that
small payloads meet every boundary.  `HidTransport` has the reference-counted library and
the choice of the interface.

## 3. Runs

| run | module | states | shows |
|---|---|---|---|
| `plugin_lifecycle` | `PluginLifecycle` | 225,983 | `EntriesAgree`, `RestartsAreRationed`; steps: `NothingIsResurrected`, `StopIsAnnounced`; `FailureSettles` |
| `plugin_hosts` | `MCSdPluginServer` | 69,977 | `ConnectionsAgree`, `ChallengesHold`, `FramesAreAttributed`, with and without a password; in the scene of the Python host `AnswersAreOfTheirCall` |
| `event_bus` | `EventBus` | 351,910 | `BusIsWellFormed`; `KeepsThePromise`, the refinement of `Broadcast` |
| `dock_session` | `DockSession` | 82,186 | `HandlesAgree`, `SettledIsFresh`, `BaseIsOfActiveDock`; `UnpluggedDockIsReleased` |
| `dock_input` | `MCDockInput` | 511,992 | `ChainsAreWalked`, `RotationIsKept`, `DialUpPerPress`, `DestroyedIsSilent`; `InputIsDealtWith` |
| `plugin_bridge` | `MCPluginBridge` | 822,707 | `PluginsKnowTheirWorld`, `RegistryFollowsProfile`, `LayersAreOfTheAction`; `SettingsAgree` |
| `profiles` | `MCProfiles` | 428,491 | `LibraryIsTrue`, `FocusMoves`; `EditsReachDiskAndView`; the refinement `FileIsAtomic`; `RoundTrip`; `StartsWithConsent` |
| `services` | `MCServices` | 1,141,718 | `ListKeepsUp`; `PromisesAreKept` of the seven modules `Services` puts together; `ReportsAreTrue` of the others |
| `plugin_double_credit`, `dock_wrong_panel`, `old_picture`, `removed_runs` | the same modules, smaller | | a counterexample each, see [Divergences](#5-divergences) |

Each run also checks the types of its modules (`TypeOK`, `BothTypesOK`, `TypesOK`; those of
`services` are part of its properties).  What
each property says is in the comment above it, those of a scene in its module.
The bounds:

- `plugin_lifecycle`: `MaxNow` = 2 with a window of one tick puts crash times
  inside and outside of one window; four credits are what two signal
  deaths record, one more than the threshold, so that pruning and tripping both
  happen.  One plugin with a
  process and one without is enough because plugins share only the clock: no
  handler reads another plugin's entry.  `plugin_double_credit` allows 6
  credits, two per death, so that the limit does not hide the third death.
- `plugin_hosts`: three sockets are a plugin, its inspector and an impostor, or two
  plugins and an inspector; two registrations of one connection make a late
  answer possible; two attempts separate the last permitted guess from the one
  that closes.  Sockets and plugins are interchangeable, hence the symmetry, and
  no liveness is checked there.  The Python child has a plugin with an awkward name
  and one that cannot be imported, and may be late or die.
- `event_bus`: two threads overlap in each way two calls can; depth two is a
  handler that publishes; three tokens are one subscription before, one during
  and one after a loop.
- `dock_session`: two docks are the least that can be confused with each other,
  one of either kind of backend; two plugs are the least at which a stale backend
  differs from a fresh one; three identities are those that control service,
  input service and registry can refer to at a time.
- `dock_input`: two profiles, one key and one dial, of the second profile both with a Toggle
  Action and the key with another one on a folder page; two runs
  started by input, each of which may run an inner chain and so give four walks; one
  dial suffices for the pairing and the coalescer, and the proofs of these hold for
  any number.
- `plugin_bridge`: scene `docks` has the appearances over two docks, two plugins with
  an action each and a key that binds either or both; `layers` and `pictures`
  have one dock and what is drawn on it, with one flash pending at a time; `settings`
  the two sockets with a frame or two under way in each direction.
- `profiles`: two profiles besides the default one, two docks, two names and one
  mapped application; one write may fail; three edits; two writers of one file; two
  touches of a document by other tools; an archive and an assembled row, an unsigned
  package and one with a bad signature, one job at a time.
- `services`: each scene has two of what can be confused and one of everything
  else.  Payloads fill no chunk, exactly one, one and a part, and three; a poll
  finds one frame more than it reads at a time.  One release is older than the build by its
  tag, so that a 304 may announce it; one carousel's step switches the profile and then
  enters another carousel, and one place is shared by a carousel and a step of another.

`CHECK_DEADLOCK FALSE` stands in `plugin_hosts`, `dock_input`, `plugin_bridge`,
`profiles`, `services`, `old_picture` and `removed_runs`, where the program may stop or a
bounded number of inputs is used up.

### Fairness

- `plugin_lifecycle`: weak fairness of each queued `handleProcessFailure` and of
  the start of a child.  The Qt event loop runs queued calls in order, and
  `QProcess` reports either `started` or an error.
- `dock_session`: weak fairness of posted calls, of the write drain and of each
  arrival timer; nothing is assumed of users, hosts or docks.
- `dock_input`: weak fairness of the steps inside a handler (code on the GUI
  thread goes on until it returns), strong fairness of the coalescing timer and
  of some continuation's timer.  Strong, because these timers are disabled
  while any handler runs; Qt serves an expired timer however many events arrive.
  No step of a user, of a dock or of a shutdown is assumed to happen.

The other runs check safety only.

## 4. Proofs

`tlapm` proves the theorems below in eight modules, with no leaf left out.  Each holds for
every value of the constants that satisfies the named assumptions of its module;
the bounds (`MaxNow`, `MaxCredits`, `MaxToken`, `Depth`, `MaxPlugs`, `MaxRuns`, `MaxTurn`,
`MaxSalt`, `MaxFlashes`, `MaxFails`, `MaxEdits`, `MaxLate`, `MaxRequests`, `MaxArrivals`, `MaxCalls`,
`MaxCommands`, `MaxFrames`, `MaxPlugged`, `MaxLines`, `MaxWrites`) enter only as the natural numbers they
are.

| module | theorems | inductive invariant |
|---|---|---|
| `PluginLifecycleProofs` | `TypeCorrect`, `EntriesAlwaysAgree` with its parts `UserDisabledIsDown`, `PagesAreThoseOfEntries`, `TeardownsAreCoalesced`, `HtmlStaysInjectedOnce`; `RestartsStayRationed`; the steps `NothingIsEverResurrected`, `StopStaysAnnounced` | `IInv`: the properties and `EntriesFitKinds` (an entry is a page exactly when its plugin's kind is HTML); `RationInv` for restarts |
| `PluginHostsProofs` | `TypeCorrect`, `ConnectionsAlwaysAgree` with its parts `UuidsAreDistinct`, `AppKnowsThePlugins`, `GateIsExact`; `ChallengesAlwaysHold`, `FramesStayAttributed`; of the Python host `AnswersStayOfTheirCall` | type correctness and distinct uuids need nothing else; `HeardInv`, `ChallengeInv`, `FrameInv`; `HostInv` |
| `EventBusProofs` | `TypeCorrect`, `BusStaysWellFormed` with its part `TokensStayUnique`, `BusKeepsThePromise` | `BusInv`: types, `TokensAreUnique` and `FramesOK` |
| `DockSessionProofs` | `TypeCorrect`, `HandlesAlwaysAgree` with its parts `HandleIsShared`, `EventsStayTagged`, `PanelStaysPoked`; `BaseFollowsTheDock`, `SettledStaysFresh` | `IInv`: types and `Handles`; `SettleInv` |
| `DockInputProofs` | of the engine `EngineTypeCorrect`, `ChainsRunInOrder`, `FoldersEndChains`, `RunsAreInOnePlace`, `ChainsAreKept`, `DestroyedStaysSilent`; `InputDrivesEngine`, `InputWalksChains`, `InputIsSilentWhenDestroyed`, `InputTypeCorrect`, `RotationStaysKept` with its parts `RotationStaysArmed` and `RotationStaysOnItsDock`, `DialsArePaired` | `IInv` of the engine, below; `InputInv`: that and the parts below |
| `ActionContextsProofs` | `TablesStayTyped`, `PluginsAlwaysKnow`, `RegistryAlwaysFollows`, `LayersStayOfTheAction`; of the settings `SettingsStayAgreed`; `BothStayTyped` | `Invs`: types, `ToldIsTrue`, `BeliefsHold`, `RegistryFollows`, `LayersHold`; `SettingsInv` |
| `UserDataProofs` | `FileStaysAtomic`, `LibraryStaysTrue`, `FocusMovesToItsProfile`, `EditsAlwaysReach`, `StartsAreConsented`; `UserDataIsTyped` | `FileInv`, `LibraryInv`, `EditingInv`, `ConsentInv` |
| `ServicesProofs` | `ListAlwaysKeepsUp`; `PromisesAreAlwaysKept` with its parts `ChecksAreAlwaysHonest`, `ServicesAreAlwaysTrue`, `ChannelsAreAlwaysTrue`, `ReportIsAlwaysTrue`, `HandshakeIsAlwaysKept`, `SidecarIsAlwaysTrue`, `SurfacesAreAlwaysTrue` | `Inv` of hot-plug; `UpdateInv`, `SettingsInv`, `ChannelInv`, `ViaInv`, `ObsInv`, `HostInv`, `FaceInv` |

**PluginLifecycle.**  `HtmlIsNeverRestarted` is not inductive without knowing that
an HTML plugin never has a process-backed entry, and `PagesMatchEntries` needs
that registration uuids are distinct (`RegDistinct`), which the manifests and not
the code guarantee.  `RestartsAreRationed` speaks of restarts, the code counts crashes:
`CrashesCover` ties them, the last m restarts within the window being covered by m
recorded crashes and a queued teardown by one more; a plugin with as many crashes as
the threshold is disabled (`TrippedIsDisabled`) and a disabled one is not restarted.
Pruning drops a prefix of an ordered list and nothing the window still holds
(`PruneDrops`).  The end of a session clears the record and the count alike.
The two action properties follow from `IInv`, `DownIsEmpty` (without a session there are no
entries) and what each kind of step may do to one entry: a spawn on purpose
(`PurposefulSpawn`), a stop (`StopperEffect`), a death or a teardown (`ChildEffect`).  A
removal is a stop of nobody, as it looks for an entry under the manifest's uuid
(`OwnerAssumption`: no directory has that name), so `StopStaysAnnounced` says of it only that the
entry stays.

**SdPluginServer.**  `UuidHeldOnce` follows from the collision guard alone, for
clients of any kind.  That the application's picture agrees with the table
(`HeardInv`) needs that clients keep their role: `RolesKept`, which holds under
`Orderly`.  `HeardInv` then says which uuids were announced and that the gate holds
the contexts of the inspectors that had an owner when they registered; it is
needed only while the server has not stopped.  `ChallengeInv` holds for clients of any kind:
a slot counts the wrong answers of its connection, the one that reaches the limit closes
it, and who is authenticated answered the salt its slot has now.  `FrameInv` adds that the
application was told of everybody who may speak.

**PythonHost.**  The host reads whatever comes next, so that a line is of the call in
progress only because of what was left in the pipes by those before.  `HostInv` says
that a child that counts as living while nobody waits has nothing in its pipes (`PipesEmpty`), and
that of a call that waits they hold either the request (`Asked`) or what is left of its
answer (`Answering`): lines of its number of which only the last may be a last one, the
`plugin` lines of a list being the child's plugins from the first not heard of.  After a
timeout lines may be left, but the child no longer counts as living and is not asked.
`AnswersStayOfTheirCall` takes names that cross the line unharmed (`NamesSurvive`); which do
is a question of `Written` and `Read`, and the host's reader has escapes it does not know.

**EventBus.**  `FramesOK` says of each frame that its snapshot has no duplicates
and that what it has reached are the snapshot's first `called` elements, so a
call of the next handler pays a debt that is still owed.  `BusKeepsThePromise`
maps each step: `SubscribeAppend` to `Join`, `Unsubscribe` to `Leave`, `Publish` to
`Publish` of the new level, `CallNext` to `Deliver`, `HandlerThrows` to `Fail`; drawing
a token and returning from a finished loop stutter.

**DockSession.**  `Handles` says that a slot of the registry names a backend of
its codename which a service holds (`SlotsNameTheirOwn`), that whatever a service
holds has a name (`HeldAreNamed`), and `OneHandle`, `EventsAreTagged` and
`PanelIsPoked`; a free identity exists for every opening because there are more of
them than holders (`BackendAssumption`).
It holds for any user.  `BaseFollowsTheDock` and `SettledStaysFresh` assume `Orderly`.
For the latter `SettleInv` says of each dock that what is cached, known to the bridge or
waited for is there, opened after the last plug, or its removal is still queued; the
lemmas about the registry say what a lookup and letting go do to each slot.

**ActionEngine.**  The properties speak of histories, the steps of frames.  `IInv`
ties them together: `Histories` (the steps a run has performed are a beginning of
its chain, and a folder step can only be the last of them), `AllFit` (each frame
and each continuation stands right behind the steps its run has performed),
`Apart` (a run is on the stack once or in one timer), while the engine lives
`Accounted` (a run that is nowhere is finished), and a destroyed engine has no
walk.  Each action disturbs one frame; lemmas about replacing, pushing and
popping a frame carry the rest over.

**DockInput.**  `InputDrivesEngine` is the refinement; the engine's theorems follow
for the composed system by temporal reasoning alone.  For rotation:
`RotationIsArmed` is inductive once the drain loop is known to run only while
the engine lives (`DrainsAlive`), and `RotationIsOfThisDock` once changing docks clears the
accumulators.  For dials, `DialsInStep`: downs shown so far plus downs still to be
shown are balanced.  Which instance a press cycles (`Addressed`) is modelled and its types are
proved; no property speaks of it, because what one would ask for, that the control pressed is the
one that changes, is not what the code does (see Divergences).

**ActionContexts.**  A step asks plugins about places in some order, and each answer
rewrites several tables; what it leaves at a place depends on that place alone.  So the
lemmas describe each operator (mounting, displacing, retiring, populating for a dock or
for a plugin, the next page) by what a place holds afterwards and what its owners were
told, for one place and one plugin, and `Invs` is preserved place by place.  `BeliefsHold`
says that what a plugin believes, on whichever dock, is registered there as its own, and that
it knows whatever is its own on the active dock.  `TitleHasASource` remembers the dock a title came from, because
titles are kept by control and not by dock.

**InstanceSettings.**  `SettingsInv` looks ahead: the last frame under way to a party is
the record, and where none is under way a party that did not write last holds it already
(`PartiesWillHold`).  The plugin counts while its context is registered, an inspector
while it is open.

**ProfileFile.**  `FileInv`: what the directory may show after a power loss is a file that was
flushed whole, or none, because a temporary file is renamed only when it is.
`SomePieces` says that a document has something to write.

**ProfileLibrary.**  `Holds` is an invariant of the *world* a command passes through, not
only of the states between commands: files are named by the ids of their profiles, the
profile in memory is of its file's device, the index is that of the files.  Each
operation on the world (save, load, rescan, adopt, amend) has a lemma, and a command
follows from those of its parts.

**ProfileEditing.**  `EditingInv`: memory and disk are `Editable` (there is a root page, bindings
are complete, a live state is one of the states), they agree unless the last write failed,
the open pages exist, and what was shown is what is in memory.  Moving and swapping need it of
the slots they read, clearing a plugin's bindings of all at once (`EverythingFits`).

**PluginInstall.**  `ConsentInv`: whatever is allowed was agreed to or came along, and while the
application runs a bundle in the plugins directory that was not copied in by hand is running
already.  Without the latter, `rediscover()`, which checks nothing, could start what
nobody agreed to.

**UserData's types.**  They are the least that the four invariants say, but for two things
nobody else counts: how many writes have failed (a number, whatever the command, so that every
operation on the world has to be followed once more) and how far the two writers of a
file are (`FileCounts`, which takes `SomePieces` and `SomeAttempts`).  `InstallForms` says that no
archive runs or is quarantined and that no installation outlives the application.

**HotPlug.**  `Inv`: while the event loop runs, what the device list does not yet reflect is
a kernel event, a call of the worker, a queued call or an armed timer (`NothingForgotten`), the
view shows what was enumerated last (`ViewIsTold`), and the phases of the destructor
and of the worker come in order (`LivesInOrder`).

**Services.**  Beside hot-plug seven modules, each with an invariant of its own;
`PromisesAreAlwaysKept` puts them and hot-plug's types together.

- `UpdateInv`: "checking" has a request for the latest release under way, so that an answer,
  right or wrong, ends it; a banner is of a release that was not put off, and of a newer one
  (`UpdateNewer`) unless the last answer was a 304 (`renewed`, a history variable); no tool runs
  beside a handle of its family's devices.
- `SettingsInv`: timers run exactly when their switches are on and what is stored is what the
  switches say; a device whose clock was said to be set is attached and set.
- `ChannelInv`: the library is counted by the channels there are, and an open channel has its
  interface or the first.  That there is an interface to take needs the least element of a
  set of numbers, which the library has as the well-foundedness of <.
- `ViaInv`: what a command that did not throw left on the board.  A macro is read back at each
  position, chunk by chunk, except for the byte that does not fit a full report.
- `ObsInv`: until OBS has let the client in exactly one frame is under way, its Hello or the
  client's Identify, the latter with a password if OBS wants one; afterwards only requests and
  answers are.
- `HostInv`: the host's map has docks of its list, each read by no more tasks than the list
  allows (`HostDocksInv`); what waits in either pipe is right already, a command of the slot of its
  key and an event of the key of its slot (`HostPipeInv`), by the numbers the backend has for 15, 10 or 6 keys
  (`HostNumbers`); the host says that it is ready after its
  last dock, so that the backend addresses a dock of the map (`HostReadyInv`).
- `FaceInv`: what a place will show once the queued writes are drained is the face it is owed,
  unless somebody drew over it since (`FaceDue`); a key reverts to what is queued for it or shown
  (`FaceLastIsQueued`, `FaceLastIsShown`); while a write waits the timer runs.  That a place shows
  the right face is a statement about the moment the map is empty; the debt is what every
  assignment, page change and drain carries along.

The assumptions.  Distinctness and kinds: `NameAssumption`, `NamesAssumption`, `KindAssumption`,
`UuidAssumption`, `InstallAssumption` (directories are not named by a directory and its
suffix, packages are archives), `EditingAssumption` (there is a first key and something to
set, and no page is taken for none).  Facts of the code or of a manifest: `RegDistinct`,
`CanonAssumption`, `OwnerAssumption` (a manifest's uuid is no directory's name), `ChainsAssumption`, `InputAssumption`, `WindowAssumption`, `SettingsAssumption`
(the manifest's settings are settings).  Finiteness: `KeysAssumption`, `BackendAssumption`, and
`HostAssumption` of the Python host.  Those of `Services`: what releases, models, interfaces, VIA's numbers
and OBS's passwords are made of (`UpdatesAssumption`, `ModelsAssumption`, `TransportsAssumption`,
`ViaAssumption`, `ObsAssumption`); the sizes a dock's keypad may have, which the code knows three of, whatever docks are plugged in
(`HostAssumption`); that a surface has a key, a background or a
zone for its place (`FaceAssumption`).
Hypotheses of single theorems: `Orderly`, `SomePieces`, `SomeAttempts`, `NamesSurvive`.  TLC
evaluates the assumptions on every run.

### Only model-checked

- `ReportsAreTrue`: six statements about as many modules.  Those of `Keyboard`, `Mouse` and `Panel` compare what a sequence of reports
  leaves in a device with the command, those of `Catalogues` and `PluginManifests` two lists, and
  the reports and lists are computed by recursion or folds over the payload.  That of
  `BuiltinActions` says of each carousel's place where it stands between presses.  It lets two
  kinds of places off until a carousel is entered there again (`astray`), and the run has both: a place
  that was entered under a step of its own, which moves on twice, and one that the dead reference
  of `builtin_actions_service.cpp:609` may have written to, after a step that switches the profile
  and then enters another carousel.  Without either exception TLC finds the property violated.
- `RoundTrip`: that a document is read as it was written is an induction over its members.
- `FailureSettles`, `UnpluggedDockIsReleased` and `InputIsDealtWith` (`RotationIsDealtWith`,
  `EveryChainEnds`): liveness under fairness, which the prover does not do.

The prover does no induction over data (a least number it can take, as in `ChannelInv`): nothing that is proved depends on what a
recursive definition computes, and where the modules recurse (`PythonHost`'s `Read`, some
folds) it is by recursive functions or the library.

## 5. Divergences

### With a counterexample

| run, property | code | what happens |
|---|---|---|
| `plugin_double_credit`, `DisabledAfterThreeDeaths` | `plugin_manager.cpp:571` | both signals of a death by signal record a crash, so a native plugin is disabled after two deaths where the SDK document says three |
| `dock_wrong_panel`, `PanelShowsItsOwn` | `stream_dock_control_service.cpp:675` | a picture assigned and not yet drained when the device is switched is written to the new one |
| `old_picture`, `PictureIsOfTheAction` | `plugin_device_bridge.cpp:1936` | an action bound in place of another shows the picture the other had pushed for a state |
| `removed_runs`, `RemovedIsStopped` | `application.cpp:1470` | a removed plugin is unloaded under its manifest's uuid while the live ones are kept under directory names, so it runs on |

The properties of passing runs are stated so that they hold of the code as it is;
where they had to make room for one of the divergences below, their comments say
so.  `dock_session` has `Orderly` = TRUE because of the dock that bounces (below): without
it `SettledIsFresh` fails.

### Met while modelling, without a run

Plugins:
- A reload waits for the old child inside its handler (`application.cpp:577`); that
  child's death queues a teardown, which then hits the healthy child just started,
  although `plugin_manager.hpp:234` says it is for the failed one.
- `unloadPlugin` (`plugin_manager.cpp:946`) waits for the child while its entry
  is in `m_live`; a healthy child that dies of SIGTERM gets crash credits,
  although `:804` says a torn-down entry must not.
- `rediscover()` (`:783`) skips a plugin that exited cleanly, its entry being
  still there; `:428` logs that rediscover will bring it back.
- `shutdown()` (`:1026`) sends `exitApp` to the directory name, not to the uuid
  the plugin registered under, the mistake `:935` records as fixed in
  `unloadPlugin`.  `StopIsAnnounced` speaks of running sessions.
- A child that reports `FailedToStart` and never `finished` leaves its entry (`:573`).
- `spawn()` does not ask whether a plugin is disabled for its crashes: the next `rediscover()`,
  which any installation ends with, starts it again, though `plugin_manager.hpp:559` has it "permanently
  disabled".  A removed plugin's entry, left under its directory's name, keeps the same plugin from
  being started when it is installed again.
- `PluginManager::dispatch` looks up `m_live`, keyed by directory, by uuid.

Server:
- The authentication branch (`sd_plugin_server.cpp:462`) serves a connection that
  never registered: with a password it may announce the sentinel uuid as a
  plugin, against `:345`.
- `pluginDisconnected` (`:236`) is also emitted for a plugin whose registration
  was deferred and never announced; the header (`:215`) speaks of registered ones.
- `registerPlugin` on an inspector's connection (`:351`) emits
  `pluginDisconnected` for the inspector's context, against `:226`.
- A restarted plugin that registers before its predecessor's socket is seen to drop
  is closed as an impostor (`:311`).
- The gate records an appearance although its frame went to nobody
  (`application.cpp:1002`): a plugin that comes back is never told of a visible
  inspector, against `pi_appear_gate.hpp:11`.

Python host:
- A reply that times out marks the living child as dead
  (`out_of_process_plugin_host.cpp:348`), so the destructor neither asks it to
  leave nor kills it; an unexpected event throws and leaves `aliveCached` true.
- `decodeQuotedString` turns `\uXXXX` into text; what a plugin's subprocess writes to
  descriptor 1 enters the wire.
- `UnifiedPluginHost::dispatch` has no caller, and its `plugins()` swallows what the
  model's comment expects to be thrown.

Event bus: a handler that publishes runs the inner loop first, so later handlers
get one publisher's second event before its first
(`docs/architecture/THREADING.md:94` promises that order); a handler that throws
ends the loop.

Docks:
- A dock that bounces while its arrival timer runs, or is selected while away, gets
  a host without a dock, which the replug finds in the registry
  (`application.cpp:1939`).
- Removal of any Stream Dock calls `setActiveDevice(nullptr)` of the input
  service, also when another one is active (`application.cpp:1937`).
- Of several docks the one that arrived last is activated; comments say the first.
- A dock whose opening fails leaves input service and bridge on the previous one;
  there is no retry, though `HOTPLUG.md:60` describes three.
- Static faces are not repainted by an activation, which
  `stream_dock_control_service.cpp:155` relies on; the carousel survives a change of
  device and is reset by every change of the profile.
- The drain writes dials before touch zones whatever the order of the assignments,
  so after a change of profile the profile's dial face covers a picture a plugin
  assigned later in the same turn; `clearAll` writes at once, before earlier
  assignments drain.  The `catch` in the drain can never be taken.
- `page.goto`'s target is added to the carousel's index (`:573`), while
  `builtin_actions_service.cpp` calls it absolute; an empty page repaints nothing.
- Activation sets brightness 80 without recording it; a closed hosted dock ignores a
  level that is remembered all the same.
- A host sends a command for a serial it does not know to the one dock it has
  (`main.rs:266`); a backend addresses the dock its host named last, and ignores the
  serial of an event.
- The native AKP153 reader blocks the host's exit at EOF, so `close()` waits a
  second and kills it (against `sidecar_stream_dock_device.cpp:216`);
  `m_lineBuffer` and the adopted serial survive into the next host.
- A backend adopts any dock its host names.  One made for a dock of ten keys that adopts an
  AKP153 draws keys 1 to 5 where a press is reported as key 11 to 15 (`PressIsWherePictureIs`).
- `KNOWN_VID_PIDS` of the host lacks three docks the registry knows.
- Selecting a keyboard makes the control service drop the dock that the input
  service keeps.

Input and chains:
- The event is shown to the bridge after its chain has run
  (`stream_dock_input_service.cpp:394`): if the chain switches the profile, keyDown
  and the later keyUp reach the instance of the new profile.
- A synthesised dial release is shown before its press (`:314`), the real one never
  (`:338`), so after one click every dialRotate says pressed
  (`plugin_device_bridge.cpp:1637`).
- With a folder open in the editor, a press on the dock cycles the folder's key, or
  nothing (`profile_controller.cpp:1437`).
- `engine.setProfile` is never called: the engine's page stack starts empty, and
  the first folder opened cannot be left.
- A folder key made in the editor keeps its target in `settingsJson`
  (`profile_controller.cpp:923`) while the engine pushes `step.id`
  (`action_engine.cpp:107`).
- `action_engine.hpp:154` says later steps run on the new page; the code drops
  them (`FolderEndsChain` states what the code does).
- The delayed rest of a nested Multi Action runs after the outer chain's later
  steps; a child action also mounted on a control is skipped (`application.cpp:473`).
- Dispatch and plugins use the root page's keys, whatever page is shown.
- `m_touchActive` survives a change of device; after a poll failure the encoder
  count and the accumulators stay.

Built-in actions and OBS:
- LunBo's cursor is a reference into a map that its own action may clear by
  switching the profile (`builtin_actions_service.cpp:609`).
- Nothing sets the fields LunBo's place is made of, so all carousels share one.
- Rotation retries an unreadable profile for ever; a switch by name finds the first
  of equal names only; a Volume or Media key whose inspector was never touched does
  nothing although the inspector shows a choice.
- OBS: a refused password is forgotten only by a connection, which refusal
  suppresses; a clean close is not noticed, so the state stays as it was; the
  first press's request is always dropped.

Bridge:
- Alert and OK glyphs overlap and revert to what was there before the first
  (`plugin_device_bridge.cpp:906-933`); the gate of visuals does not compare the dock.
- A plugin that leaves is retired on the active dock only, and one that comes back is
  populated there only; without an active dock population goes to `akp05e`.
- A dock that is plugged in again has lost its titles, as the bridge forgot the dock, while the
  control service keeps its pictures (`stream_dock_control_service.cpp:157` compares codenames);
  `plugin_device_bridge.cpp:2221` says both are cleared "on the same edge".
- Settings are stored by coordinates, so a control inherits those of an action that
  is gone; a refused write is not told to the writer.
- A switch to a profile without a binding leaves the picture; two plugin actions on
  one key share a context.

Profiles:
- The unnamed profile is listed as "default" and edited there behind the back of
  memory; its auto-switch guard never matches, so it reloads each time.
- `clearBindingsForPlugin` misses folder pages, other profiles and later steps;
  several edits keep an instance that no longer fits its chain;
  `resetActiveProfile` leaves orphan pages.
- Mapping an application reports success though the save failed; a file whose id
  differs from its name forks at the next save; the writer has no nesting limit, the
  reader refuses more than 64.
- `profile_bundle.cpp` speaks of an fsync it does not make and uses one temporary name.

Installation:
- A mirabox install persists no consent, so the next launch quarantines it; two of
  one row share a staging directory.
- `rediscover()` trusts what was dropped in unverified while running, against
  `application.cpp:1664-1672`.
- The last step of an installation removes the old copy before a rename that may fail.

Store, manifests, updates:
- A missing page number repeats pages; switching the catalogue off leaves requests
  under way; snapshots drop fields; reloading drops the marks of installed rows.
- The platform gate never refuses on Linux, where a bundle with a Windows
  executable is offered and spawned.
- A 304 raises a banner for whatever was fetched last, the installed version and older ones
  included (`app_update_service.cpp:316`): the check before said "up to date", this one says
  "available".  The comment above (`:314`) has it "remain UpToDate (or whatever the previous state
  was)", and `app_update_service.hpp:81` reads "Last successful check found a newer release".
  `ChecksAreHonest` names the exception (`renewed`).
- The ETag is stored before the body is parsed; the periodic timer bypasses `checkNow`'s guard.

Devices:
- `HotplugMonitor`: a `poll()` error leaves `running` true without a worker
  (`hotplug_monitor.cpp:172`); the old callback may run after `setCallback` returned
  (`:204`), against `application.cpp:1247`; a device plugged between `refresh()` and
  `start()` is unseen; a Linux "bind" after an arrival counts as a removal.
- Backends: caches die with the backend and are written before a failed report;
  colours lose two bytes per chunk; a checksum overwrites payload bytes of mouse
  reports; a VIA macro's 28th byte does not fit; late VIA answers are read for the
  next question; brightness above 100 wraps.
- HID: the guard's destructor may call `hid_exit` before the handle is closed.

## 6. Not modelled

`PROJECT.json` gives the reason per component.  Not modelled at all: presentation
(what the user sees), logging, notifications and the macro recorder (which has no
caller), the debug channel (its commands are inputs of the models), the
single-instance socket, tray and autostart, sample plugins and packaging.  Within
the modelled components:

- Plugins: path checks, argument and environment construction, the script put into
  vendor pages.
- Server: the envelope format and the list of routed event names.  Passwords
  are set by tests only; the runs cover both cases.
- Bridge: a plugin's global settings, which take the path of an instance's without
  a registry copy; wording of envelopes; decoding of pictures.
- Engine and built-ins: what an action does outside of the program.
- Web interface: shaping of answers and the local server.
- Per-application profiles: the platforms' window watchers and the fan-out to plugins.
- Installation: extraction limits; cryptography, and the sandboxes' command lines.
- Devices: USB frames and image encoding of the docks' host; capabilities without
  a caller.
- The event bus is used by tests only; the application connects signals.

## 7. Plan

The modelling is done as far as the components above go, and every safety property the runs
check is a theorem but `RoundTrip` and `ReportsAreTrue`.  What could be proved next, in this order:

1. Of `Keyboard`, `Mouse` and `Panel`, that a cache holds what was asked last and that a command is
   reported failed when a write failed, without what the payload computes.
2. `PlacesAreKept` of `BuiltinActions`, by what the frames of the call stack still owe each place.
