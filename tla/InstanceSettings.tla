--------------------------- MODULE InstanceSettings ---------------------------
(* The settings of one action instance: the record on disk, the copy in the   *)
(* context registry, the default in the profile's binding, and the two        *)
(* parties that read and write them over their own sockets, the plugin and    *)
(* the Property Inspector (PluginDeviceBridge::handleSettingsAction,          *)
(* plugin_settings_store, ProfileController::updateBindingSettings).  Frames  *)
(* of one socket stay in order; the two sockets are independent.              *)
EXTENDS Integers, Sequences

CONSTANTS
  Values,     (* settings objects                                           *)
  Manifest,   (* the manifest's default settings of the action              *)
  Empty,      (* no default in the binding: "" or "{}"                      *)
  None,
  MaxFrames,  (* bound: frames of one socket under way in one direction     *)
  MaxFails    (* bound: settings files that cannot be written               *)

Parties == {"plugin", "inspector"}
Other(x) == IF x = "plugin" THEN "inspector" ELSE "plugin"

VARIABLES
  store,    (* the record on disk, None if there was never one              *)
  entry,    (* settingsJson in the registry, None while not registered      *)
  binding,  (* settingsJson of the binding in the profile                   *)
  up,       (* the parties whose socket is registered                       *)
  open,     (* the dock is there: the place is populated                    *)
  belief,   (* what each party takes the settings for; its own last word?    *)
  asked,    (* frames of each party not handled yet                         *)
  sent,     (* frames to each party not received yet                        *)
  writer,   (* the party whose write was handled last                       *)
  fails

vars == <<store, entry, binding, up, open, belief, asked, sent, writer, fails>>

Unsure == [value |-> None, own |-> FALSE]
Belief(v, own) == [value |-> v, own |-> own]

Frames == [op : {"set"}, value : Values] \cup [op : {"get"}, value : {None}]

(* settingsForContext: a record, also an empty one, over the binding's       *)
(* default, over the manifest's.                                             *)
SettingsFor(st, bound) ==
  CASE st # None -> st
    [] st = None /\ bound # Empty -> bound
    [] OTHER -> Manifest

Tell(x, v) == IF x \in up THEN [sent EXCEPT ![x] = Append(@, v)] ELSE sent
Quiet == \A x \in Parties : asked[x] = <<>> /\ sent[x] = <<>>

-----------------------------------------------------------------------------
(* The context is registered for a plugin that is away too; willAppear is    *)
(* lost then.  It is populated again when the plugin registers.              *)
DockArrives ==
  /\ ~open /\ open' = TRUE /\ Len(sent["plugin"]) < MaxFrames
  /\ entry' = SettingsFor(store, binding)
  /\ sent' = Tell("plugin", SettingsFor(store, binding))
  /\ UNCHANGED <<store, binding, up, belief, asked, writer, fails>>

DockLeaves ==
  /\ open /\ open' = FALSE
  /\ entry' = None
  /\ UNCHANGED <<store, binding, up, belief, asked, sent, writer, fails>>

PluginRegisters ==
  /\ "plugin" \notin up /\ up' = up \cup {"plugin"}
  /\ entry' = IF open THEN SettingsFor(store, binding) ELSE entry
  /\ sent' = [sent EXCEPT !["plugin"] = IF open THEN <<SettingsFor(store, binding)>> ELSE <<>>]
  /\ UNCHANGED <<store, binding, open, belief, asked, writer, fails>>

(* onPluginDisconnected retires the context; the next population registers  *)
(* it again, as any change of the profile or the dock's return does.        *)
PluginDrops ==
  /\ "plugin" \in up /\ up' = up \ {"plugin"}
  /\ entry' = None
  /\ belief' = [belief EXCEPT !["plugin"] = Unsure]
  /\ asked' = [asked EXCEPT !["plugin"] = <<>>] /\ sent' = [sent EXCEPT !["plugin"] = <<>>]
  /\ UNCHANGED <<store, binding, open, writer, fails>>

Populated ==
  /\ open /\ Len(sent["plugin"]) < MaxFrames
  /\ entry' = SettingsFor(store, binding)
  /\ sent' = Tell("plugin", SettingsFor(store, binding))
  /\ UNCHANGED <<store, binding, up, open, belief, asked, writer, fails>>

(* The inspector is opened with the registry's settings.                     *)
InspectorOpens ==
  /\ "inspector" \notin up /\ entry # None
  /\ up' = up \cup {"inspector"}
  /\ belief' = [belief EXCEPT !["inspector"] = Belief(entry, FALSE)]
  /\ UNCHANGED <<store, entry, binding, open, asked, sent, writer, fails>>

InspectorCloses ==
  /\ "inspector" \in up /\ up' = up \ {"inspector"}
  /\ belief' = [belief EXCEPT !["inspector"] = Unsure]
  /\ asked' = [asked EXCEPT !["inspector"] = <<>>] /\ sent' = [sent EXCEPT !["inspector"] = <<>>]
  /\ UNCHANGED <<store, entry, binding, open, writer, fails>>

-----------------------------------------------------------------------------
(* A party writes, and takes its own value for the settings; or asks.        *)
Sets(x, v) ==
  /\ x \in up /\ Len(asked[x]) < MaxFrames
  /\ asked' = [asked EXCEPT ![x] = Append(@, [op |-> "set", value |-> v])]
  /\ belief' = [belief EXCEPT ![x] = Belief(v, TRUE)]
  /\ UNCHANGED <<store, entry, binding, up, open, sent, writer, fails>>

Gets(x) ==
  /\ x \in up /\ Len(asked[x]) < MaxFrames
  /\ asked' = [asked EXCEPT ![x] = Append(@, [op |-> "get", value |-> None])]
  /\ UNCHANGED <<store, entry, binding, up, open, belief, sent, writer, fails>>

Receives(x) ==
  /\ sent[x] # <<>>
  /\ belief' = [belief EXCEPT ![x] = Belief(Head(sent[x]), FALSE)]
  /\ sent' = [sent EXCEPT ![x] = Tail(@)]
  /\ UNCHANGED <<store, entry, binding, up, open, asked, writer, fails>>

-----------------------------------------------------------------------------
(* handleSettingsAction on the next frame of a party.                        *)

Next1(x) == Head(asked[x])
Taken(x) ==
  /\ asked[x] # <<>> /\ \A y \in Parties : Len(sent[y]) < MaxFrames
  /\ asked' = [asked EXCEPT ![x] = Tail(@)]

(* The context is not registered: the frame is consumed.                     *)
Dropped(x) ==
  /\ Taken(x) /\ entry = None
  /\ UNCHANGED <<store, entry, binding, up, open, belief, sent, writer, fails>>

(* Bug: the writer hears its own value instead of the other party.          *)
StoredWithEcho(x) ==
  /\ Taken(x) /\ entry # None /\ Next1(x).op = "set"
  /\ store' = Next1(x).value /\ entry' = Next1(x).value
  /\ binding' = IF entry # Next1(x).value THEN Next1(x).value ELSE binding
  /\ sent' = Tell(x, Next1(x).value)
  /\ writer' = x
  /\ UNCHANGED <<up, open, belief, fails>>

(* setSettings: the record is written, the registry follows it, the binding *)
(* only when the registry's value changes; the other party is told.         *)
Stored(x) ==
  /\ Taken(x) /\ entry # None /\ Next1(x).op = "set"
  /\ store' = Next1(x).value /\ entry' = Next1(x).value
  /\ binding' = IF entry # Next1(x).value THEN Next1(x).value ELSE binding
  /\ sent' = Tell(Other(x), Next1(x).value)
  /\ writer' = x
  /\ UNCHANGED <<up, open, belief, fails>>

(* The file cannot be written: the other party is told what still holds.    *)
Refused(x) ==
  /\ Taken(x) /\ entry # None /\ Next1(x).op = "set"
  /\ fails < MaxFails /\ fails' = fails + 1
  /\ sent' = Tell(Other(x), entry)
  /\ writer' = x
  /\ UNCHANGED <<store, entry, binding, up, open, belief>>

(* getSettings: the record, or the registry's value, to the one who asks.   *)
Answered(x) ==
  /\ Taken(x) /\ entry # None /\ Next1(x).op = "get"
  /\ sent' = Tell(x, IF store # None THEN store ELSE entry)
  /\ UNCHANGED <<store, entry, binding, up, open, belief, writer, fails>>

-----------------------------------------------------------------------------
Init ==
  /\ store = None /\ entry = None /\ binding \in Values \cup {Empty}
  /\ up = {} /\ open = FALSE
  /\ belief = [x \in Parties |-> Unsure]
  /\ asked = [x \in Parties |-> <<>>] /\ sent = [x \in Parties |-> <<>>]
  /\ writer = None /\ fails = 0

Next ==
  \/ DockArrives \/ DockLeaves \/ PluginRegisters \/ PluginDrops \/ Populated
  \/ InspectorOpens \/ InspectorCloses
  \/ \E x \in Parties :
       \/ \E v \in Values : Sets(x, v)
       \/ Gets(x) \/ Receives(x) \/ Dropped(x) \/ Stored(x) \/ Refused(x) \/ Answered(x)

Spec == Init /\ [][Next]_vars

-----------------------------------------------------------------------------
(* The types of the tables.                                                  *)
TypeOK ==
  /\ store \in Values \cup {None} /\ entry \in Values \cup {None} /\ binding \in Values \cup {Empty}
  /\ up \subseteq Parties /\ open \in BOOLEAN
  /\ belief \in [Parties -> [value : Values \cup {None}, own : BOOLEAN]]
  /\ asked \in [Parties -> Seq(Frames)] /\ sent \in [Parties -> Seq(Values)]
  /\ writer \in Parties \cup {None} /\ fails \in 0..MaxFails

(* What is registered is what is on disk: through refused writes, retired    *)
(* and repopulated contexts, and writes of both parties, the registry never  *)
(* serves a value that a restart would not bring back.                       *)
RegistryIsTheRecord == entry # None /\ store # None => entry = store

(* Once nothing is under way, a party that did not write last, and goes by   *)
(* what it was told, holds the settings the disk has: no notification to the *)
(* opposite party is lost or overtaken, whichever of them wrote, failed to   *)
(* write or asked, and across retired and repopulated contexts.              *)
OtherPartyKnows ==
  Quiet /\ entry # None /\ store # None =>
    \A x \in up : x # writer /\ ~belief[x].own => belief[x].value = store
=============================================================================
