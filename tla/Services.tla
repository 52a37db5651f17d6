------------------------------- MODULE Services -------------------------------
(* Services that stand beside one another in the application, each with state *)
(* and steps of its own: the device list (HotPlug, extended here), updates,   *)
(* the services of the settings page, the channels to the devices, a keyboard *)
(* with the VIA protocol, the client of OBS, the backend of a dock with its    *)
(* host, and what stands on the docks' panels.                                 *)
(* src/app/src/application.cpp, which makes them                              *)
EXTENDS HotPlug, Integers

CONSTANTS
  Stable, Nightlies, Current, Sandboxed, Devices, Core, Old, FamiliesRegistered, FamiliesGuessed,
  MaxRequests,                                                          \* of Updates
  Models, Codename, FirstModel, Clocks, Batteries, Lights, Boards, Announced, Requests,
  MaxArrivals,                                                          \* of DeviceServices
  Transports, WantedInterface, Interfaces, Prefixed, MaxCalls,          \* of HidTransport
  Positions, Codes, Macros, Chunk, Room, Percents, Version, MaxCommands,   \* of ViaKeyboard
  Passwords, NoPassword, MaxFrames,                                     \* of ObsClient
  Serials, HostedModel, HostedKeys, DrawnKeys, DrawnZones, PressedSlots, ReadCodes,
  MaxPlugged, MaxLines, MaxWrites,                                      \* of Sidecar
  Panels, NoDock, SurfaceTags, Screens, PanelsHosted, FaceProfiles, Art, Black,
  DimLevels, DimDeltas                                                  \* of Surfaces

VARIABLES
  status, latest, etag, dismissed, auto, nightly, timer, first, uWire, published, uAsked, opened, launched, renewed,
  sAttached, listed, autoSync, enumerator, ticking, polling, pollTimer, stored, pending, clock, charge,
  known, kept, said, sPlugs,
  made, library, ready, tHandle, stats, tWire, tThrown, calls,
  board, told, request, vCommands,
  oSetting, oState, oPassword, oConnected, oAuthFailed, oLink, oToClient, oToObs, oObs, oWelcome, oRefused,
  bus, bChild, bTodo, entries, readers, bStale, stdin, eof, stdout, bPhase, bRunning, bReady, bSerial, lit, bHeard,
  fProfile, fActive, fAlive, fPending, fTimer, fLast, fCarousel, fRemembered, fShown, fLevel, fPainted,
  fDrawn, fWiped, fDimmed

U == INSTANCE Updates WITH
       Registered <- FamiliesRegistered, Guessed <- FamiliesGuessed, wire <- uWire, asked <- uAsked
S == INSTANCE DeviceServices WITH
       Rows <- Models, FirstRow <- FirstModel, MaxPlugs <- MaxArrivals, attached <- sAttached, plugs <- sPlugs
T == INSTANCE HidTransport WITH
       Wanted <- WantedInterface, handle <- tHandle, wire <- tWire, thrown <- tThrown
V == INSTANCE ViaKeyboard WITH commands <- vCommands
O == INSTANCE ObsClient WITH
       setting <- oSetting, state <- oState, password <- oPassword, m_obsConnected <- oConnected,
       m_obsAuthFailed <- oAuthFailed, link <- oLink, toClient <- oToClient, toObs <- oToObs, obs <- oObs,
       welcome <- oWelcome, refused <- oRefused
B == INSTANCE Sidecar WITH
       Docks <- Serials, Model <- HostedModel, KeyCount <- HostedKeys, Keys <- DrawnKeys, Zones <- DrawnZones,
       Slots <- PressedSlots, Codes <- ReadCodes, MaxCommands <- MaxWrites,
       child <- bChild, todo <- bTodo, stale <- bStale, phase <- bPhase, running <- bRunning, ready <- bReady,
       serial <- bSerial, heard <- bHeard
F == INSTANCE Surfaces WITH
       Docks <- Panels, None <- NoDock, Tags <- SurfaceTags, Hosted <- PanelsHosted,
       Profiles <- FaceProfiles, Dark <- Black, Levels <- DimLevels, Deltas <- DimDeltas,
       profile <- fProfile, active <- fActive, alive <- fAlive, pending <- fPending, timer <- fTimer,
       last <- fLast, carousel <- fCarousel, remembered <- fRemembered, shown <- fShown,
       level <- fLevel, painted <- fPainted, drawn <- fDrawn, wiped <- fWiped, dimmed <- fDimmed
-----------------------------------------------------------------------------
(* A release has a tag: a body without one is no release (app_update_service  *)
(* .cpp).                                                                     *)
Tags == [lead : BOOLEAN, nightly : BOOLEAN, parts : Seq(Int), suffix : Nat] \ {U!NoTag}
ASSUME UpdatesAssumption ==
  /\ Stable \in Seq(Tags) /\ Stable # <<>> /\ Nightlies \subseteq Tags
  /\ Sandboxed \in BOOLEAN /\ MaxRequests \in Nat

(* A codename is found by the first model that has it.                        *)
ASSUME ModelsAssumption ==
  /\ Codename \in [Models -> S!Codenames] /\ FirstModel \in [S!Codenames -> Models]
  /\ Requests \subseteq Nat

(* Where a device is found it has an interface.                               *)
ASSUME TransportsAssumption ==
  /\ IsFiniteSet(Transports) /\ Prefixed \subseteq Transports
  /\ WantedInterface \in [Transports -> [page : Nat, usage : Nat]]
  /\ Interfaces \in Seq([page : Nat, usage : Nat]) /\ Interfaces # <<>>

ASSUME ViaAssumption ==
  /\ Codes \subseteq 0..(V!Words - 1) /\ Macros \subseteq Seq(Nat) /\ Percents \subseteq Nat
  /\ Chunk \in Nat \ {0} /\ Room \in Nat /\ Version \in Nat

(* No password is taken for OBS's being down.                                 *)
ASSUME ObsAssumption == O!Down \notin O!Secrets /\ MaxFrames \in Nat

(* The docks plugged in may be of any model, whatever the backend is for.      *)
ASSUME HostAssumption ==
  /\ IsFiniteSet(Serials) /\ B!None \notin Serials
  /\ HostedKeys \in {15, 10, 6}
  /\ DrawnKeys \in Seq(1..HostedKeys) /\ DrawnZones \in Seq(Nat) /\ ReadCodes \subseteq Nat
  /\ MaxPlugged \in Nat /\ MaxLines \in Nat /\ MaxWrites \in Nat

(* A place is a key that the device numbers, the picture behind the keys or a  *)
(* zone; what a backend shows it can be cast to.                               *)
ASSUME FaceAssumption ==
  /\ NoDock \notin Panels /\ Art # NoDock /\ Black # NoDock
  /\ \A d \in Panels : \A p \in Screens[d] :
       p \in ({"key"} \X (1..F!KeyRange)) \cup ({"main"} \X {0}) \cup ({"zone"} \X Nat) /\ p[1] \in SurfaceTags[d]
  /\ \A p \in FaceProfiles : /\ DOMAIN p.keys \subseteq Nat /\ DOMAIN p.dials \subseteq Nat
                               /\ p.pages \in Seq({p.pages[i] : i \in DOMAIN p.pages})
                               /\ \A i \in DOMAIN p.pages : DOMAIN p.pages[i] \subseteq Nat
  /\ DimLevels \subseteq Int /\ DimDeltas \subseteq Int
-----------------------------------------------------------------------------
(* What these services tell their users is so, in states of the right types:  *)
(* a check that says "checking" is under way and its banner is about a release *)
(* that was not put off, newer than this build unless the answer was a 304;    *)
(* the switches and clocks are as they were said to be; a channel that is open *)
(* has its interface and the library; what VIA did not throw the keyboard has; *)
(* OBS is only asked what it let in; a dock's events and pictures are those of *)
(* its keys, and its faces the profile's (see there).                          *)
PromisesAreKept ==
  /\ TypeOK
  /\ U!TypeOK /\ U!ChecksAreHonest
  /\ S!TypeOK /\ S!ServicesAreTrue
  /\ T!TypeOK /\ T!ChannelsAreTrue
  /\ V!TypeOK /\ V!ReportIsTrue
  /\ O!TypeOK /\ O!HandshakeIsKept
  /\ B!TypeOK /\ B!SidecarIsTrue
  /\ F!TypeOK /\ F!SurfacesAreTrue
=============================================================================
