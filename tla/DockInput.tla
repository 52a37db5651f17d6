----------------------------- MODULE DockInput ------------------------------
(* StreamDockInputService on the GUI thread: wire events of the dock become  *)
(* runs of the active profile's chains (ActionEngine), rotation is collected *)
(* for 16 ms, a Toggle Action cycles a state in ProfileController, and     *)
(* every event is then shown to the plugin bridge, which keeps which dials   *)
(* are pressed.  A handler that runs a chain continues when the call stack   *)
(* of the engine is empty again; only then does the event loop take the next *)
(* wire event, timer or user command.                                        *)
EXTENDS ActionEngine

CONSTANTS
    Profiles, NoProfile,
    FirstProfile,   \* the profile loaded at start
    Keys,
    NumEnc,         \* encoders of the dock: 0 .. NumEnc - 1
    Binding,        \* the chain of a slot of a profile, or NoChain
    Toggles,        \* <<profile, control>> pairs bound to a Toggle Action
    Folders,        \* the folder pages of a profile its editor may have open
    Stateful,       \* <<profile, page, control>>: bound to an action with States states
    States,         \* states of such an action
    SwitchTo,       \* the profile a profile.switch action loads, or NoProfile
    WireRelease,    \* the firmware reports encoder releases (AKP03 v3)
    MaxRuns,        \* bound: chains started by input
    MaxTurn         \* bound: detents collected per encoder

Encoders == 0 .. NumEnc - 1
Controls == Keys \cup Encoders
Slots    == ({"press", "release"} \X Controls) \cup ({"cw", "ccw"} \X Encoders)

ASSUME InputAssumption ==
    /\ FirstProfile \in Profiles /\ NoProfile \notin Profiles
    /\ NumEnc \in Nat /\ Keys \cap Encoders = {}
    /\ Binding \in [Profiles -> [Slots -> Chains \cup {NoChain}]]
    /\ Toggles \subseteq Profiles \X Controls
    /\ Folders \in [Profiles -> SUBSET (Args \ {Root})]
    /\ Stateful \subseteq Profiles \X (Args \cup {Root}) \X Controls
    /\ States \in Nat /\ States > 1
    /\ SwitchTo \in [Args \cup {NoArg} -> Profiles \cup {NoProfile}]
    /\ WireRelease \in BOOLEAN

VARIABLES
    profile,    \* ProfileController: the active profile
    page,       \* the page of it that the editor shows (the last of m_pageStack)
    toggle,     \* instance.currentState of every action with several states
    present,    \* m_device is held
    sized,      \* m_encoderCount is that of a dock, not 0
    accum,      \* m_encAccum
    coalesce,   \* the 16 ms single shot runs
    drain,      \* next encoder of the drain loop, NumEnc outside of it
    touch,      \* zone of the touch in progress (m_touchActive), or NumEnc
    todo,       \* dial events the handler shows the bridge behind its chain
    foreign,    \* history: encoders whose collected turn predates the present dock
    held,       \* history: encoders the user holds down
    downs       \* history: dialDown minus dialUp shown per encoder

inputVars == <<profile, page, toggle, present, sized, accum, coalesce, drain, touch,
               todo, foreign, held, downs>>
vars == <<engineVars, inputVars>>

Pages(p) == {Root} \cup Folders[p]
DialEvent == [kind : {"dialUp", "dialDown"}, enc : Encoders]

(* Every variable has its type.                                              *)
TypeOK ==
    /\ EngineTypeOK
    /\ profile \in Profiles
    /\ page \in Pages(profile)
    /\ toggle \in [Stateful -> 0 .. States - 1]
    /\ present \in BOOLEAN /\ sized \in BOOLEAN
    /\ accum \in [Encoders -> Int]
    /\ coalesce \in BOOLEAN
    /\ drain \in 0 .. NumEnc
    /\ touch \in 0 .. NumEnc
    /\ todo \in Seq(DialEvent)
    /\ held \subseteq Encoders
    /\ foreign \subseteq Encoders
    /\ downs \in [Encoders -> Int]

Init ==
    /\ EngineInit
    /\ profile = FirstProfile /\ page = Root
    /\ toggle = [i \in Stateful |-> 0]
    /\ present = FALSE /\ sized = FALSE
    /\ accum = [e \in Encoders |-> 0]
    /\ coalesce = FALSE /\ drain = NumEnc
    /\ touch = NumEnc
    /\ todo = <<>>
    /\ foreign = {} /\ held = {} /\ downs = [e \in Encoders |-> 0]

-----------------------------------------------------------------------------
(* No handler is running: the event loop may take the next event.            *)
Quiet  == Idle /\ todo = <<>> /\ drain = NumEnc
Budget == alive /\ Len(chainOf) < MaxRuns

KeepDock  == UNCHANGED <<present, sized>>
KeepTurns == UNCHANGED <<accum, coalesce, drain, foreign>>
KeepDials == UNCHANGED <<todo, held, downs>>
KeepProfile == UNCHANGED <<profile, page, toggle>>

(* activeKeyMap: a key is looked up on the page the editor shows, a dial is  *)
(* the profile's.                                                            *)
Addressed(t) == <<t[1], IF t[2] \in Keys THEN page ELSE Root, t[2]>>

(* Mutant: no modulo.                                                        *)
CycleUnwrapped(t) ==
    toggle' = IF Addressed(t) \in Stateful
              THEN [toggle EXCEPT ![Addressed(t)] = @ + 1]
              ELSE toggle

(* cycleInstanceState: the addressed binding's action goes to its next state *)
(* if it has several.  The press was recognised as a Toggle Action's by the  *)
(* profile's root bindings, whatever page the editor shows.                  *)
Cycle(t) ==
    toggle' = IF Addressed(t) \in Stateful
              THEN [toggle EXCEPT ![Addressed(t)] = (@ + 1) % States]
              ELSE toggle

(* A press of a control: a Toggle Action cycles, anything else runs its chain *)
Press(c) ==
    IF <<profile, c>> \in Toggles
    THEN Cycle(<<profile, c>>) /\ UNCHANGED <<engineVars, profile, page>>
    ELSE RunChain(Binding[profile][<<"press", c>>]) /\ KeepProfile

KeyPressed(k) ==
    /\ Quiet /\ Budget
    /\ Press(k)
    /\ KeepDock /\ KeepTurns /\ KeepDials /\ UNCHANGED touch

KeyReleased(k) ==
    /\ Quiet /\ Budget
    /\ RunChain(Binding[profile][<<"release", k>>])
    /\ KeepProfile /\ KeepDock /\ KeepTurns /\ KeepDials /\ UNCHANGED touch

(* The press chain, then the synthesised release, then the press itself go   *)
(* to the bridge.                                                            *)
PressTaps(e) == <<[kind |-> "dialUp", enc |-> e], [kind |-> "dialDown", enc |-> e]>>

EncoderPressed(e) ==
    /\ Quiet /\ Budget
    /\ e \notin held
    /\ Press(e)
    /\ todo' = PressTaps(e)
    /\ held' = held \cup {e}
    /\ UNCHANGED <<downs, touch>>
    /\ KeepDock /\ KeepTurns

(* Mutant: the wire release falls through to the bridge.                     *)
ReleaseTapsForwarded(e) == <<[kind |-> "dialUp", enc |-> e]>>

(* The user lets go of the dial.  Only firmware with wire releases reports   *)
(* it: onRelease runs, and the bridge is not told again.                     *)
ReleaseTaps(e) == <<>>

EncoderReleased(e) ==
    /\ Quiet /\ Budget
    /\ e \in held
    /\ held' = held \ {e}
    /\ IF WireRelease
       THEN RunChain(Binding[profile][<<"release", e>>]) /\ todo' = ReleaseTaps(e)
       ELSE UNCHANGED <<engineVars, todo>>
    /\ UNCHANGED <<downs, touch>>
    /\ KeepProfile /\ KeepDock /\ KeepTurns

(* A tap or press has run its chain: the bridge sees the next dial event.    *)
ShowBridge ==
    /\ Idle /\ todo # <<>>
    /\ downs' = [downs EXCEPT ![Head(todo).enc] =
                   IF Head(todo).kind = "dialDown" THEN @ + 1 ELSE @ - 1]
    /\ todo' = Tail(todo)
    /\ UNCHANGED <<engineVars, held, touch>>
    /\ KeepProfile /\ KeepDock /\ KeepTurns

-----------------------------------------------------------------------------
(* Mutant: only clockwise rotation starts the single shot.                   *)
CollectClockwise(e, d) ==
    /\ accum' = [accum EXCEPT ![e] = @ + d]
    /\ coalesce' = (coalesce \/ d > 0)

(* onEncoderTurned: collect, and start the single shot unless it runs.       *)
Collect(e, d) ==
    /\ accum' = [accum EXCEPT ![e] = @ + d]
    /\ coalesce' = TRUE

EncoderTurned(e, d) ==
    /\ Quiet /\ Budget
    /\ accum[e] + d \in -MaxTurn .. MaxTurn
    /\ IF sized THEN Collect(e, d) ELSE UNCHANGED <<accum, coalesce>>
    /\ UNCHANGED <<engineVars, drain, foreign, touch>>
    /\ KeepProfile /\ KeepDock /\ KeepDials

(* The 16 ms are over: the loop over the encoders begins.                    *)
CoalesceTimer ==
    /\ Quiet /\ alive /\ coalesce
    /\ coalesce' = FALSE
    /\ drain' = 0
    /\ UNCHANGED <<engineVars, accum, foreign, touch>>
    /\ KeepProfile /\ KeepDock /\ KeepDials

(* One turn of the loop: net rotation runs one chain of the profile that is  *)
(* active by now, and is forgotten.                                          *)
DrainNext ==
    /\ Idle /\ todo = <<>> /\ drain < NumEnc
    /\ accum' = [accum EXCEPT ![drain] = 0]
    /\ foreign' = foreign \ {drain}
    /\ drain' = drain + 1
    /\ RunChain(IF accum[drain] = 0 \/ ~sized THEN NoChain
                ELSE Binding[profile][<<IF accum[drain] > 0 THEN "cw" ELSE "ccw", drain>>])
    /\ UNCHANGED <<coalesce, touch>>
    /\ KeepProfile /\ KeepDock /\ KeepDials

(* A touch on the strip: the zone of the down edge counts; a long way across *)
(* it is a swipe for the page carousel instead.                              *)
TouchDown(e) ==
    /\ Quiet /\ Budget /\ sized
    /\ touch' = e
    /\ UNCHANGED engineVars
    /\ KeepProfile /\ KeepDock /\ KeepTurns /\ KeepDials

TouchUp ==
    /\ Quiet /\ Budget /\ sized /\ touch < NumEnc
    /\ touch' = NumEnc
    /\ \/ Press(touch)
       \/ UNCHANGED engineVars /\ KeepProfile
    /\ KeepDock /\ KeepTurns /\ KeepDials

-----------------------------------------------------------------------------
(* Mutant: the accumulators are not zeroed for the new dock.                 *)
SetActiveDeviceKeeps(dock) ==
    /\ Quiet /\ alive
    /\ present' = dock
    /\ sized' = dock
    /\ coalesce' = FALSE
    /\ accum' = accum
    /\ foreign' = IF dock THEN {e \in Encoders : accum'[e] # 0} ELSE foreign
    /\ UNCHANGED <<engineVars, drain, touch>>
    /\ KeepProfile /\ KeepDials

(* setActiveDevice: timers stop and nothing collected survives.              *)
SetActiveDevice(dock) ==
    /\ Quiet /\ alive
    /\ present' = dock
    /\ sized' = dock
    /\ coalesce' = FALSE
    /\ accum' = [e \in Encoders |-> 0]
    /\ foreign' = IF dock THEN {e \in Encoders : accum'[e] # 0} ELSE foreign
    /\ UNCHANGED <<engineVars, drain, touch>>
    /\ KeepProfile /\ KeepDials

(* pump: poll() throws because the dock is gone; the encoder count and what  *)
(* was collected stay.                                                       *)
PumpFails ==
    /\ Quiet /\ alive /\ present
    /\ present' = FALSE
    /\ coalesce' = FALSE
    /\ UNCHANGED <<engineVars, sized, accum, drain, foreign, touch>>
    /\ KeepProfile /\ KeepDials

(* A profile is loaded, by the user or by an action: the editor is back at   *)
(* the root page.  Loading the active profile again changes nothing.         *)
Load(p) ==
    /\ profile' = p
    /\ page' = IF p = profile THEN page ELSE Root

SwitchProfile(p) ==
    /\ Quiet /\ alive
    /\ p # profile
    /\ Load(p)
    /\ UNCHANGED <<engineVars, toggle, touch>>
    /\ KeepDock /\ KeepTurns /\ KeepDials

(* The user opens a folder in the editor, or goes back to the root page.     *)
EditPage(pg) ==
    /\ Quiet /\ alive
    /\ pg # page
    /\ page' = pg
    /\ UNCHANGED <<engineVars, profile, toggle, touch>>
    /\ KeepDock /\ KeepTurns /\ KeepDials

(* One step of a walk.  A profile.switch action loads its profile at once.   *)
Walking ==
    /\ SomeStep
    /\ IF AtStep({"plugin"}) /\ SwitchTo[TopStep.arg] # NoProfile
       THEN Load(SwitchTo[TopStep.arg])
       ELSE UNCHANGED <<profile, page>>
    /\ UNCHANGED <<toggle, touch>>
    /\ KeepDock /\ KeepTurns /\ KeepDials

TimerFires(k) ==
    /\ Quiet
    /\ Wake(k)
    /\ UNCHANGED inputVars

Shutdown ==
    /\ Quiet
    /\ Destroy
    /\ UNCHANGED inputVars

Next ==
    \/ \E k \in Keys : KeyPressed(k) \/ KeyReleased(k)
    \/ \E e \in Encoders : EncoderPressed(e) \/ EncoderReleased(e) \/ TouchDown(e)
    \/ \E e \in Encoders, d \in {-1, 1} : EncoderTurned(e, d)
    \/ ShowBridge \/ CoalesceTimer \/ DrainNext \/ TouchUp
    \/ \E dock \in BOOLEAN : SetActiveDevice(dock)
    \/ PumpFails
    \/ \E p \in Profiles : SwitchProfile(p)
    \/ \E pg \in Pages(profile) : EditPage(pg)
    \/ Walking
    \/ \E k \in deferred : TimerFires(k)
    \/ Shutdown

Spec == Init /\ [][Next]_vars

(* A handler runs to its end, and the event loop serves an expired timer     *)
(* however many wire events keep arriving.                                   *)
Fairness ==
    /\ WF_vars(Walking) /\ WF_vars(ShowBridge) /\ WF_vars(DrainNext)
    /\ SF_vars(CoalesceTimer) /\ SF_vars(\E k \in deferred : TimerFires(k))

FairSpec == Spec /\ Fairness

-----------------------------------------------------------------------------
(* Rotation that is collected for a dock that is still there has its single  *)
(* shot running, or is being drained.                                        *)
RotationIsArmed ==
    \A e \in Encoders : present /\ accum[e] # 0 => coalesce \/ drain <= e

(* Rotation collected on one dock is never run as rotation of the next.      *)
RotationIsOfThisDock == present => foreign = {}

(* Collected rotation is neither forgotten nor credited to another dock.     *)
RotationIsKept == RotationIsArmed /\ RotationIsOfThisDock

(* Between events the bridge has been shown exactly one dialUp for every     *)
(* dialDown, on firmware that reports releases and on firmware that does not *)
DialUpPerPress == Quiet => \A e \in Encoders : downs[e] = 0

(* What is collected on a dock is dealt with, unless the dock or the service *)
(* goes away.                                                                *)
RotationIsDealtWith ==
    \A e \in Encoders : accum[e] # 0 ~> accum[e] = 0 \/ ~present \/ ~alive

(* Every chain that was started comes to its end, unless the engine is       *)
(* destroyed.                                                                *)
EveryChainEnds ==
    \A r \in 1 .. MaxRuns : r \in DOMAIN ran ~> (r \in DOMAIN ran /\ Finished(r)) \/ ~alive

(* Input that was taken is dealt with to the end.                            *)
InputIsDealtWith == RotationIsDealtWith /\ EveryChainEnds
=============================================================================
