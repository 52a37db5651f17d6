---------------------------- MODULE ActionContexts ----------------------------
(* The instances of plugin actions: ContextRegistry and PluginDeviceBridge.   *)
(* A place is a control of a dock; the action bound to it in the active       *)
(* profile is registered there with its owner, and the owner is told with     *)
(* willAppear and willDisappear.  A plugin draws through the places it owns:  *)
(* pictures, titles and dial feedback are layers kept beside the registry.    *)
(* Profile, devices, plugin connections and draw requests come from outside.  *)
EXTENDS Integers, FiniteSets, Sequences, SequencesExt

CONSTANTS
  Docks,
  Fallback,    (* "akp05e": the dock assumed while none is active           *)
  Slots,
  Kind,        (* key, dial or touch                                        *)
  Segment,     (* the dial whose part of the strip a touch zone is          *)
  Plugins,
  Actions,
  Owner,
  Declared,    (* actions whose manifest declares a picture for each state  *)
  Cycling,     (* actions with two states and automatic states              *)
  Bindings,    (* what onPress of each control may hold, as action sequences *)
  None,
  Glyph,       (* the picture of showAlert and showOk                       *)
  MaxFlashes,  (* bound: reverts pending at a time                          *)
  Values, Manifest, Empty, MaxFrames, MaxFails
               (* of the settings of one instance (InstanceSettings)        *)

States == {0, 1}
Places == Docks \X Slots
Entry == [action : Actions, state : States]
PerState == [States -> Actions \cup {None}]

ASSUME NameAssumption ==
  /\ Fallback \in Docks /\ None \notin Docks \cup Actions /\ Glyph \notin Actions \cup {None}
  /\ None \notin Entry /\ None \notin PerState
  /\ Kind \in [Slots -> {"key", "dial", "touch"}] /\ Owner \in [Actions -> Plugins]
  /\ Segment \in [{s \in Slots : Kind[s] = "touch"} -> Slots]
  /\ Bindings \in [Slots -> SUBSET Seq(Actions)] /\ Declared \cup Cycling \subseteq Actions
ASSUME BoundAssumption == MaxFlashes \in Nat
ASSUME SettingsAssumption == Manifest \in Values /\ MaxFails \in Nat

VARIABLES
  profile,    (* the active profile: the actions bound to each control      *)
  connected,  (* m_registeredPlugins                                        *)
  docks,      (* m_connectedDevices                                         *)
  active,     (* m_activeDeviceId                                           *)
  codename,   (* m_activeCodename: the dock the control service draws on    *)
  registry,   (* ContextRegistry: what is registered at a place             *)
  stash,      (* m_stateImageOverride: who pushed a picture for a state     *)
  captions,   (* m_stateTitleOverride: who set a title for a state          *)
  feedback,   (* m_encoderFeedback: who filled the bag                      *)
  titles,     (* m_titleByKey: who set the title of a key                   *)
  shown,      (* m_lastKeyImage: whose picture a control shows              *)
  flashes,    (* showAlert and showOk timers: the key, what they put back   *)
  view,       (* what each plugin was told is mounted at a place            *)
  told,       (* the devices each plugin was told are connected             *)
  store, entry, binding, up, open, belief, asked, sent, writer, fails
              (* the settings of one instance (InstanceSettings)            *)

tables == <<registry, stash, captions, feedback, titles>>
panel == <<shown, flashes>>
plugins == <<view, told>>
vars == <<profile, connected, docks, active, codename, tables, panel, plugins>>

Profiles == {prof \in [Slots -> UNION {Bindings[x] : x \in Slots}] : \A x \in Slots : prof[x] \in Bindings[x]}
NoStash == [n \in States |-> None]
Nothing == [pl \in Places |-> None]

At(pl) == registry[pl]
Mounted(pl) == At(pl) # None
OwnerAt(pl) == Owner[At(pl).action]
IsOf(pl, p) == Mounted(pl) /\ OwnerAt(pl) = p

(* A touch zone draws on the part of the strip its dial has.                *)
Surface(x) == IF Kind[x] = "touch" THEN Segment[x] ELSE x

Here == IF active = None THEN Fallback ELSE active

-----------------------------------------------------------------------------
(* What populating a dock does at one place.  The actions of its binding     *)
(* that belong to the plugins `who` are registered one after the other under *)
(* the same context, each displacing the one before.  The profile and the    *)
(* connections are read as the step has left them.                           *)

Turns(pl, who) == {i \in DOMAIN profile'[pl[2]] : Owner[profile'[pl[2]][i]] \in who}
Bound(pl, who) == Turns(pl, who) # {}
Heir(pl, who) == profile'[pl[2]][Max(Turns(pl, who))]
Seated(pl, who) ==
  {profile'[pl[2]][i] : i \in Turns(pl, who)} \cup (IF Mounted(pl) THEN {At(pl).action} ELSE {})

(* Some action takes the place over from another one.                       *)
Displaces(pl, who) == \E a, b \in Seated(pl, who) : a # b
IsNew(pl, who) == Bound(pl, who) /\ (~Mounted(pl) \/ Displaces(pl, who))

(* Bug: a control emptied in the profile keeps its context.                 *)
VacatedNever(pl, who) == FALSE

(* The reconcile pass: registered for one of these plugins, bound no more.  *)
Vacated(pl, who) == Mounted(pl) /\ OwnerAt(pl) \in who /\ ~Bound(pl, who)

EntryAfter(pl, who) ==
  CASE Bound(pl, who) -> [action |-> Heir(pl, who),
                          state |-> IF IsNew(pl, who) THEN 0 ELSE At(pl).state]
    [] Vacated(pl, who) -> None
    [] OTHER -> At(pl)

(* paintDeclaredStateImage: a picture pushed for the state outranks the     *)
(* declared one; without either nothing is painted.                         *)
Painted(own, pushed, old) ==
  CASE pushed[own.state] # None -> pushed[own.state]
    [] pushed[own.state] = None /\ own.action \in Declared -> own.action
    [] OTHER -> old

(* A key taken over is cleared before the picture of the new action; a dial *)
(* shows the layout of the action mounted; a touch zone draws nothing.      *)
ShownAfter(pl, who, old) ==
  CASE IsNew(pl, who) /\ Kind[pl[2]] = "key" ->
         Painted(EntryAfter(pl, who), stash[pl], IF Displaces(pl, who) THEN None ELSE old)
    [] IsNew(pl, who) /\ Kind[pl[2]] = "dial" -> EntryAfter(pl, who).action
    [] OTHER -> old

(* The same paint gives the key the title kept for the state, if any title  *)
(* is kept for a state.                                                     *)
Titled(pl, n, old) == IF Kind[pl[2]] = "key" /\ captions[pl] # None THEN captions[pl][n] ELSE old
TitleAfter(pl, who, old) == IF IsNew(pl, who) THEN Titled(pl, EntryAfter(pl, who).state, old) ELSE old

(* Bug: a take-over in place leaves the layers of the action before.        *)
DropsOnlyVacated(pl, who, kind) == Vacated(pl, who)

(* Retiring a place takes all its layers with it (purgeContextVisualCaches),*)
(* a take-over only the title of a key or the feedback of a dial.           *)
Drops(pl, who, kind) == Vacated(pl, who) \/ (Displaces(pl, who) /\ Kind[pl[2]] = kind)

(* Bug: the owner displaced in place is not told.                           *)
ViewAfterUntold(p, pl, who) ==
  CASE p \in connected' /\ Bound(pl, who) /\ Owner[EntryAfter(pl, who).action] = p -> EntryAfter(pl, who).action
    [] p \in connected' /\ Vacated(pl, who) /\ OwnerAt(pl) = p -> None
    [] OTHER -> view[p][pl]

(* willDisappear goes to every owner displaced, willAppear to the last.     *)
ViewAfter(p, pl, who) ==
  LET heir == Owner[EntryAfter(pl, who).action]
      lost == \E a \in Seated(pl, who) : Owner[a] = p
  IN CASE p \in connected' /\ Bound(pl, who) /\ heir = p -> EntryAfter(pl, who).action
       [] p \in connected' /\ Bound(pl, who) /\ heir # p /\ lost -> None
       [] p \in connected' /\ Vacated(pl, who) /\ lost -> None
       [] OTHER -> view[p][pl]

(* populateContextsForActivePage, over the titles t and pictures s that the *)
(* step has left behind by then.                                            *)
Populate(d, who, t, s) ==
  /\ registry' = [pl \in Places |-> IF pl[1] = d THEN EntryAfter(pl, who) ELSE registry[pl]]
  /\ stash' = [pl \in Places |-> IF pl[1] = d /\ Vacated(pl, who) THEN NoStash ELSE stash[pl]]
  /\ feedback' = [pl \in Places |-> IF pl[1] = d /\ Drops(pl, who, "dial") THEN None ELSE feedback[pl]]
  /\ captions' = [pl \in Places |-> IF pl[1] = d /\ Vacated(pl, who) THEN None ELSE captions[pl]]
  /\ titles' = [x \in Slots |-> TitleAfter(<<d, x>>, who, IF Drops(<<d, x>>, who, "key") THEN None ELSE t[x])]
  /\ shown' = [x \in Slots |-> ShownAfter(<<d, x>>, who, s[x])]
  /\ view' = [p \in Plugins |-> [pl \in Places |-> IF pl[1] = d THEN ViewAfter(p, pl, who) ELSE view[p][pl]]]

(* retirePageContexts: the places of dock d owned by the plugins `who`.     *)
Retired(pl, d, who) == pl[1] = d /\ Mounted(pl) /\ OwnerAt(pl) \in who

Retire(d, who) ==
  /\ registry' = [pl \in Places |-> IF Retired(pl, d, who) THEN None ELSE registry[pl]]
  /\ stash' = [pl \in Places |-> IF Retired(pl, d, who) THEN NoStash ELSE stash[pl]]
  /\ captions' = [pl \in Places |-> IF Retired(pl, d, who) THEN None ELSE captions[pl]]
  /\ feedback' = [pl \in Places |-> IF Retired(pl, d, who) THEN None ELSE feedback[pl]]
  /\ titles' = [x \in Slots |-> IF Kind[x] = "key" /\ Retired(<<d, x>>, d, who) THEN None ELSE titles[x]]

(* What the plugins still connected think after places were retired.        *)
Unmounted(d, who) ==
  [p \in Plugins |-> [pl \in Places |-> IF p \in connected' /\ Retired(pl, d, who) /\ OwnerAt(pl) = p
                                        THEN None ELSE view[p][pl]]]

-----------------------------------------------------------------------------
(* Plugins come and go.                                                      *)

(* onPluginRegistered: every device again, then the plugin's own places.    *)
PluginRegisters(p) ==
  /\ p \notin connected
  /\ connected' = connected \cup {p}
  /\ told' = [told EXCEPT ![p] = docks]
  /\ UNCHANGED <<profile, docks, active, codename, flashes>>
  /\ Populate(Here, {p}, titles, shown)

(* onPluginDisconnected: only the places of the active dock are retired.    *)
(* What the process knew ends with it.                                      *)
PluginDisconnects(p) ==
  /\ p \in connected
  /\ connected' = connected \ {p}
  /\ Retire(Here, {p})
  /\ view' = [view EXCEPT ![p] = Nothing] /\ told' = [told EXCEPT ![p] = {}]
  /\ UNCHANGED <<profile, docks, active, codename, panel>>

-----------------------------------------------------------------------------
(* Docks come and go.                                                        *)

(* What setActiveDevice(d) leaves of the pictures: all, if it is the dock    *)
(* they were drawn on, else none.                                           *)
KeptFor(d) == IF codename = d THEN shown ELSE [x \in Slots |-> None]

(* deviceActivated -> onDeviceConnected: a dock selected or plugged in.  The *)
(* bridge drops its titles by the dock it knows, which a removal has made it *)
(* forget, the control service its pictures by the one it held last.        *)
DockActivated(d) ==
  /\ docks' = docks \cup {d} /\ active' = d /\ codename' = d
  /\ told' = [p \in Plugins |-> IF p \in connected THEN told[p] \cup {d} ELSE told[p]]
  /\ UNCHANGED <<profile, connected, flashes>>
  /\ Populate(d, Plugins, IF active = d THEN titles ELSE [x \in Slots |-> None], KeptFor(d))

(* setActiveDevice finds no such dock or cannot open it: the bridge is not   *)
(* told.                                                                     *)
ActivationFails(d) ==
  /\ codename' = None /\ shown' = KeptFor(d)
  /\ UNCHANGED <<profile, connected, docks, active, tables, flashes, plugins>>

(* onDeviceDisconnected.                                                    *)
DockGone(d) ==
  /\ d \in docks
  /\ docks' = docks \ {d} /\ active' = IF active = d THEN None ELSE active
  /\ UNCHANGED <<profile, connected, codename, panel>>
  /\ Retire(d, Plugins)
  /\ view' = Unmounted(d, Plugins)
  /\ told' = [p \in Plugins |-> IF p \in connected THEN told[p] \ {d} ELSE told[p]]

-----------------------------------------------------------------------------
(* The profile changes.                                                      *)

(* profileChanged: the pages are repainted first, then the places of the    *)
(* active dock are populated.                                               *)
Refreshed(s) ==
  IF active = None THEN shown' = s /\ UNCHANGED <<tables, view>>
  ELSE Populate(active, Plugins, titles, s)

(* commitKeyBinding and its like: the emptied control keeps its binding,    *)
(* so repaintPage clears the key.                                           *)
Rebind(x, acts) ==
  /\ profile' = [profile EXCEPT ![x] = acts]
  /\ UNCHANGED <<connected, docks, active, codename, flashes, told>>
  /\ Refreshed(IF acts = <<>> /\ Kind[x] = "key" THEN [shown EXCEPT ![x] = None] ELSE shown)

(* loadProfileById: a control the new profile does not bind is not drawn.   *)
SwitchProfile(prof) ==
  /\ profile' = prof
  /\ UNCHANGED <<connected, docks, active, codename, flashes, told>>
  /\ Refreshed(shown)

(* onActivePageChanged: everything is retired and the root page mounted     *)
(* again, which starts every state and layer anew.                          *)
PageChanges ==
  /\ active # None
  /\ UNCHANGED <<profile, connected, docks, active, codename, flashes, told>>
  /\ LET bare(pl) == pl[1] = active /\ Mounted(pl)
         acts(pl) == profile[pl[2]]
         fresh(pl) == IF acts(pl) = <<>> THEN None ELSE [action |-> Last(acts(pl)), state |-> 0]
         first(pl) == acts(pl)[1]
     IN /\ registry' = [pl \in Places |-> IF pl[1] = active THEN fresh(pl) ELSE registry[pl]]
        /\ stash' = [pl \in Places |-> IF bare(pl) THEN NoStash ELSE stash[pl]]
        /\ captions' = [pl \in Places |-> IF bare(pl) THEN None ELSE captions[pl]]
        /\ feedback' = [pl \in Places |-> IF bare(pl) THEN None ELSE feedback[pl]]
        /\ titles' = [x \in Slots |-> IF Kind[x] = "key" /\ bare(<<active, x>>) THEN None ELSE titles[x]]
        /\ shown' = [x \in Slots |->
             IF acts(<<active, x>>) = <<>> THEN shown[x]
             ELSE CASE Kind[x] = "dial" -> Last(profile[x])
                    [] Kind[x] = "key" ->
                         Painted(fresh(<<active, x>>), stash'[<<active, x>>],
                                 IF \E i \in DOMAIN profile[x] : profile[x][i] # first(<<active, x>>)
                                 THEN None ELSE shown[x])
                    [] OTHER -> shown[x]]
        /\ view' = [p \in Plugins |-> [pl \in Places |->
             IF p \notin connected \/ pl[1] # active THEN view[p][pl]
             ELSE IF fresh(pl) # None /\ Owner[fresh(pl).action] = p THEN fresh(pl).action
             ELSE IF (bare(pl) /\ OwnerAt(pl) = p) \/ \E i \in DOMAIN acts(pl) : Owner[acts(pl)[i]] = p
                  THEN None ELSE view[p][pl]]]

-----------------------------------------------------------------------------
(* What a plugin asks for (onAction).  The visual gate: the context is       *)
(* registered and the sender owns it.  The dock of the place is not asked.   *)

Gate(p, pl) == p \in connected /\ IsOf(pl, p)

(* onSetImage for the current state or for all states.                      *)
SetImage(p, pl) ==
  /\ Gate(p, pl)
  /\ stash' = [stash EXCEPT ![pl] = NoStash]
  /\ shown' = [shown EXCEPT ![Surface(pl[2])] = At(pl).action]
  /\ UNCHANGED <<profile, connected, docks, active, codename, registry, captions, feedback, titles, flashes, plugins>>

(* onSetImage with a state: kept for it, painted if it is the current one.  *)
SetStateImage(p, pl, n) ==
  /\ Gate(p, pl)
  /\ stash' = [stash EXCEPT ![pl][n] = At(pl).action]
  /\ shown' = IF n = At(pl).state THEN [shown EXCEPT ![Surface(pl[2])] = At(pl).action] ELSE shown
  /\ UNCHANGED <<profile, connected, docks, active, codename, registry, captions, feedback, titles, flashes, plugins>>

(* onSetBG, setBackground and the placeholder of a picture that cannot be   *)
(* decoded are painted without a word about the states.                     *)
SetBackground(p, pl) ==
  /\ Gate(p, pl)
  /\ shown' = [shown EXCEPT ![Surface(pl[2])] = At(pl).action]
  /\ UNCHANGED <<profile, connected, docks, active, codename, tables, flashes, plugins>>

(* onSetTitle for all states, a title or none.                              *)
SetTitle(p, pl, t) ==
  /\ Gate(p, pl) /\ Kind[pl[2]] = "key" /\ t \in {At(pl).action, None}
  /\ captions' = [captions EXCEPT ![pl] = None]
  /\ titles' = [titles EXCEPT ![pl[2]] = t]
  /\ UNCHANGED <<profile, connected, docks, active, codename, registry, stash, feedback, panel, plugins>>

(* onSetTitle with a state: kept for it, shown if it is the current one.    *)
SetStateTitle(p, pl, n, t) ==
  /\ Gate(p, pl) /\ Kind[pl[2]] = "key" /\ t \in {At(pl).action, None}
  /\ captions' = [captions EXCEPT ![pl] = [IF @ = None THEN NoStash ELSE @ EXCEPT ![n] = t]]
  /\ titles' = IF n = At(pl).state THEN [titles EXCEPT ![pl[2]] = t] ELSE titles
  /\ UNCHANGED <<profile, connected, docks, active, codename, registry, stash, feedback, panel, plugins>>

(* clearIcon blanks the key and drops its title, not the titles of states.  *)
ClearIcon(p, pl) ==
  /\ Gate(p, pl) /\ Kind[pl[2]] = "key"
  /\ titles' = [titles EXCEPT ![pl[2]] = None]
  /\ shown' = [shown EXCEPT ![pl[2]] = At(pl).action]
  /\ UNCHANGED <<profile, connected, docks, active, codename, registry, stash, captions, feedback, flashes, plugins>>

(* setFeedback, setFeedbackLayout and setText fill the bag of the context   *)
(* and draw the dial's layout again.                                        *)
SetFeedback(p, pl) ==
  /\ Gate(p, pl) /\ Kind[pl[2]] # "key"
  /\ feedback' = [feedback EXCEPT ![pl] = At(pl).action]
  /\ shown' = [shown EXCEPT ![Surface(pl[2])] = At(pl).action]
  /\ UNCHANGED <<profile, connected, docks, active, codename, registry, stash, captions, titles, flashes, plugins>>

(* setState, and a release on a key whose action cycles, give the context   *)
(* its state and paint that state's picture.                                *)
Advance(pl, n) ==
  LET now == [At(pl) EXCEPT !.state = n]
  IN /\ registry' = [registry EXCEPT ![pl] = now]
     /\ shown' = [shown EXCEPT ![Surface(pl[2])] = Painted(now, stash[pl], @)]
     /\ titles' = [titles EXCEPT ![pl[2]] = Titled(pl, n, @)]
     /\ UNCHANGED <<profile, connected, docks, active, codename, stash, captions, feedback, flashes, plugins>>

SetState(p, pl, n) == Gate(p, pl) /\ Advance(pl, n)

(* Bug: the state is counted up and never wraps.                             *)
KeyReleasedCounting(pl) ==
  /\ pl[1] = active /\ Kind[pl[2]] = "key" /\ Mounted(pl) /\ At(pl).action \in Cycling
  /\ At(pl).state < 2 /\ registry' = [registry EXCEPT ![pl].state = @ + 1]
  /\ UNCHANGED <<profile, connected, docks, active, codename, stash, captions, feedback, titles, panel, plugins>>

KeyReleased(pl) ==
  /\ pl[1] = active /\ Kind[pl[2]] = "key" /\ Mounted(pl) /\ At(pl).action \in Cycling
  /\ Advance(pl, (At(pl).state + 1) % 2)

(* renderToggleState: the picture of a built-in toggle's state is the       *)
(* profile's own; an action registered on the control takes the state over  *)
(* and is told with a second willAppear.                                    *)
ToggleRendered(pl, n) ==
  /\ pl[1] = active /\ Kind[pl[2]] # "touch"
  /\ shown' = [shown EXCEPT ![pl[2]] = None]
  /\ registry' = IF Mounted(pl) THEN [registry EXCEPT ![pl].state = n] ELSE registry
  /\ view' = [p \in Plugins |-> IF p \in connected /\ IsOf(pl, p)
                                THEN [view[p] EXCEPT ![pl] = At(pl).action] ELSE view[p]]
  /\ UNCHANGED <<profile, connected, docks, active, codename, stash, captions, feedback, titles, flashes, told>>

(* showAlert and showOk: the glyph, and a timer that puts back what the key *)
(* showed before, if it showed anything.                                    *)
Flash(p, pl) ==
  /\ Gate(p, pl) /\ Kind[pl[2]] = "key"
  /\ Len(flashes) < MaxFlashes
  /\ flashes' = Append(flashes, [slot |-> pl[2], back |-> shown[pl[2]]])
  /\ shown' = [shown EXCEPT ![pl[2]] = Glyph]
  /\ UNCHANGED <<profile, connected, docks, active, codename, tables, plugins>>

(* The dwells are 500 and 1300 ms: the timers may fire in either order.     *)
FlashEnds(i) ==
  /\ i \in DOMAIN flashes
  /\ flashes' = RemoveAt(flashes, i)
  /\ LET f == flashes[i]
     IN shown' = IF f.back = None THEN shown ELSE [shown EXCEPT ![f.slot] = f.back]
  /\ UNCHANGED <<profile, connected, docks, active, codename, tables, plugins>>

-----------------------------------------------------------------------------
Init ==
  /\ profile \in Profiles /\ connected = {} /\ docks = {} /\ active = None /\ codename = None
  /\ registry = Nothing /\ stash = [pl \in Places |-> NoStash] /\ captions = Nothing
  /\ feedback = Nothing
  /\ titles = [x \in Slots |-> None] /\ shown = [x \in Slots |-> None] /\ flashes = <<>>
  /\ view = [p \in Plugins |-> Nothing] /\ told = [p \in Plugins |-> {}]

Lifecycle ==
  \/ \E p \in Plugins : PluginRegisters(p) \/ PluginDisconnects(p)
  \/ \E d \in Docks : DockActivated(d) \/ ActivationFails(d) \/ DockGone(d)
  \/ \E x \in Slots : \E acts \in Bindings[x] : Rebind(x, acts)
  \/ PageChanges

Pictures ==
  \/ \E p \in Plugins : \E pl \in Places :
       \/ SetImage(p, pl) \/ SetBackground(p, pl) \/ Flash(p, pl)
       \/ \E n \in States : SetStateImage(p, pl, n) \/ SetState(p, pl, n)
  \/ \E pl \in Places : KeyReleased(pl) \/ \E n \in States : ToggleRendered(pl, n)
  \/ \E i \in DOMAIN flashes : FlashEnds(i)

Layers == \E p \in Plugins : \E pl \in Places :
  \/ \E t \in Actions \cup {None} : SetTitle(p, pl, t) \/ \E n \in States : SetStateTitle(p, pl, n, t)
  \/ ClearIcon(p, pl) \/ SetFeedback(p, pl)

Next == Lifecycle \/ (\E prof \in Profiles : SwitchProfile(prof)) \/ Pictures \/ Layers

Spec == Init /\ [][Next]_vars

-----------------------------------------------------------------------------
(* The types of the tables.                                                  *)
TypeOK ==
  /\ profile \in Profiles /\ connected \subseteq Plugins
  /\ docks \subseteq Docks /\ active \in Docks \cup {None}
  /\ codename \in Docks \cup {None}
  /\ registry \in [Places -> Entry \cup {None}] /\ stash \in [Places -> PerState]
  /\ captions \in [Places -> PerState \cup {None}]
  /\ feedback \in [Places -> Actions \cup {None}] /\ titles \in [Slots -> Actions \cup {None}]
  /\ shown \in [Slots -> Actions \cup {None, Glyph}]
  /\ flashes \in Seq([slot : Slots, back : Actions \cup {None, Glyph}])
  /\ view \in [Plugins -> [Places -> Actions \cup {None}]] /\ told \in [Plugins -> SUBSET Docks]

(* A connected plugin believes in no instance that is not registered as its  *)
(* own, and knows every one it has on the active dock: instances are bound,  *)
(* displaced, retired and mounted again in any order, plugins and docks come *)
(* and go meanwhile, and every willAppear has the willDisappear it needs.    *)
(* It has been told of exactly the docks that are connected, whether they    *)
(* came before it or after it.                                               *)
PluginsKnowTheirWorld ==
  /\ \A p \in connected : told[p] = docks
  /\ \A p \in Plugins : \A pl \in Places :
       /\ view[p][pl] # None => p \in connected /\ IsOf(pl, p) /\ view[p][pl] = At(pl).action
       /\ pl[1] = active /\ p \in connected /\ IsOf(pl, p) => view[p][pl] = At(pl).action

(* With a dock active, what is registered on it is what the profile binds:   *)
(* reconciling leaves no place behind, and an action alone on its control is *)
(* registered whenever its plugin is connected.                              *)
RegistryFollowsProfile ==
  active # None => \A x \in Slots :
    LET e == registry[<<active, x>>]
    IN /\ e # None => \E i \in DOMAIN profile[x] : e.action = profile[x][i]
       /\ e = None /\ Len(profile[x]) = 1 => Owner[profile[x][1]] \notin connected

(* The feedback a dial draws was set by the action mounted there now, not by *)
(* one that had the dial before; so was the title of a key, unless titles    *)
(* for single states or a place of a dock not active are left from before.   *)
LayersAreOfTheAction ==
  /\ \A pl \in Places : Kind[pl[2]] = "dial" /\ feedback[pl] # None =>
       Mounted(pl) /\ feedback[pl] = At(pl).action
  /\ (\A pl \in Places : Mounted(pl) => pl[1] = active) =>
       \A x \in Slots : titles[x] # None =>
         /\ active # None /\ Mounted(<<active, x>>)
         /\ captions[<<active, x>>] = None => titles[x] = At(<<active, x>>).action

(* "clear the lingering frame": what a key shows was drawn by the action     *)
(* registered there.                                                         *)
PictureIsOfTheAction ==
  \A x \in Slots : Kind[x] = "key" /\ active # None /\ shown[x] \in Actions
                     /\ registry[<<active, x>>] # None => shown[x] = registry[<<active, x>>].action

-----------------------------------------------------------------------------
(* Each instance has settings, which the plugin and the inspector write over  *)
(* sockets of their own (see InstanceSettings).                               *)
Settings == INSTANCE InstanceSettings

(* The types of both modules.                                                 *)
BothTypesOK == TypeOK /\ Settings!TypeOK

(* What is registered is what is on disk, and a party that did not write last *)
(* and goes by what it was told holds it once nothing is under way: no write  *)
(* of the plugin or the inspector is lost on the other, whichever of them     *)
(* wrote, failed to write or asked, across retired and repopulated contexts   *)
(* (handleSettingsAction).                                                    *)
SettingsAgree == Settings!RegistryIsTheRecord /\ Settings!OtherPartyKnows
=============================================================================
