-------------------------------- MODULE Sidecar --------------------------------
(* The backend of a Stream Dock and the host process it starts: commands go   *)
(* down one pipe and events come up the other, a line each. The host opens    *)
(* every dock it finds when it starts, once; the backend addresses the one    *)
(* it heard of last. The host writes an event in one piece, so none is ever   *)
(* seen in part.                                                              *)
(* src/app/src/sidecar_stream_dock_device.cpp, sidecar_protocol.cpp,          *)
(* streamdock-host/src/main.rs, akp153.rs, kind.rs                            *)
EXTENDS Integers, Sequences, FiniteSets

CONSTANTS Docks,        \* the docks that may be plugged in, each known by its serial
          Model,        \* the product number of each
          KeyCount,     \* of the dock the backend stands for: 15, 10 or 6
          Keys, Zones,  \* those of its keys and zones that are drawn on, in order
          Slots,        \* those of an AKP153's keys that are pressed
          Codes,        \* what the other docks report
          MaxPlugged, MaxLines, MaxCommands   \* the bounds on docks and on the two pipes

VARIABLES bus,        \* the docks plugged in
          child,      \* the host: "none", "listing", "opening", "serving", "ended"
          todo,       \* the docks of its list it has yet to open
          entries,    \* its map of devices
          readers,    \* how many of its tasks read a dock
          stale,      \* docks that were pulled out after it opened them
          stdin, eof, stdout,
          phase,      \* of the backend: "closed", "opening", "open", "closing"
          running,    \* what QProcess takes the host for
          ready, serial,   \* m_ready, m_sidecarSerial
          lit, heard  \* history: the last picture on a slot of an AKP153 and the last event of this host

hostVars == <<child, todo, entries, readers, stale>>
pipeVars == <<stdin, eof, stdout>>
clientVars == <<phase, running, ready, serial>>
vars == <<bus, hostVars, pipeVars, clientVars, lit, heard>>

None == "none"
Alias == "355499441494"   \* every AKP153 is also entered under this serial
NoReaders == [d \in Docks |-> 0]

(* The products the host has a driver of its own for, and all it asks for.    *)
Akp153 == {"0300:1001", "0300:1002", "5548:6674", "0300:1010", "0300:3010", "0300:1020"}
Listed ==
  Akp153 \cup {"0300:3004", "0300:5001", "6603:1007", "0300:3001", "0300:3002", "0300:1003", "0300:3003",
              "6602:1002", "6602:1003", "6603:1002", "6603:1003"}

Init ==
  /\ bus \in SUBSET Docks /\ Cardinality(bus) <= MaxPlugged
  /\ child = None /\ todo = {} /\ entries = <<>> /\ readers = NoReaders /\ stale = {}
  /\ stdin = <<>> /\ eof = FALSE /\ stdout = <<>>
  /\ phase = "closed" /\ running = FALSE /\ ready = FALSE /\ serial = None
  /\ lit = {} /\ heard = {}
-----------------------------------------------------------------------------
(* What is on a dock: the backend numbers keys from one, the host the slots.  *)
HwKey(k) ==
  CASE KeyCount = 10 /\ k \in 1..5 -> k + 9
    [] KeyCount = 10 /\ k \in 6..10 -> k - 1
    [] OTHER -> k - 1

UiIndexToSlot == <<13, 10, 7, 4, 1, 14, 11, 8, 5, 2, 15, 12, 9, 6, 3>>
AtMost(n, top) == IF n > top THEN top ELSE n
SlotOf(key, zone) == IF zone THEN 16 + AtMost(key, 2) ELSE UiIndexToSlot[AtMost(key, 14) + 1]
UiKeys(slot) == {u \in 1..15 : UiIndexToSlot[u] = slot}

(* What a code means; dials are numbered as their codes are.                  *)
Turns == [c \in {160, 161, 80, 81, 144, 145, 112, 113} |->
            CASE c \in {160, 161} -> 0 [] c \in {80, 81} -> 1 [] c \in {144, 145} -> 2 [] OTHER -> 3]
Dials == [c \in {55, 53, 51, 54} |-> CASE c = 55 -> 0 [] c = 53 -> 1 [] c = 51 -> 2 [] c = 54 -> 3]
Event(kind, index, value) == {[kind |-> kind, index |-> index, value |-> value]}
Mapped(code, state) ==
  CASE code \in DOMAIN Turns -> Event("EncoderTurned", Turns[code], IF code % 2 = 0 THEN -1 ELSE 1)
    [] code \in DOMAIN Dials -> Event(IF state # 0 THEN "EncoderPressed" ELSE "EncoderReleased", Dials[code], state)
    [] code \in 64..67 -> Event("EncoderPressed", code - 64, 1)
    [] code \in 1..15 -> Event(IF state # 0 THEN "KeyPressed" ELSE "KeyReleased", code, state)
    [] OTHER -> {}
-----------------------------------------------------------------------------
(* The host.                                                                  *)
Emit(line) == Len(stdout) < MaxLines /\ stdout' = Append(stdout, line)
Says(event, d) == [event |-> event, of |-> d, code |-> 0, state |-> 0, slot |-> 0]

Enumerate ==
  /\ child = "listing"
  /\ child' = "opening" /\ todo' = {d \in bus : Model[d] \in Listed}
  /\ UNCHANGED <<bus, entries, readers, stale, pipeVars, clientVars, lit, heard>>
EnumerationFails ==
  /\ child = "listing" /\ Emit(Says("error", None))
  /\ child' = "ended"
  /\ UNCHANGED <<bus, todo, entries, readers, stale, stdin, eof, clientVars, lit, heard>>

Entered(d, native) ==
  LET names == IF native THEN {d, Alias} ELSE {d} IN
  [s \in names \cup DOMAIN entries |-> IF s \in names THEN [dock |-> d, native |-> native] ELSE entries[s]]
Connected(d, native) ==
  /\ d \in bus /\ Emit(Says("connected", d))
  /\ entries' = Entered(d, native) /\ readers' = [readers EXCEPT ![d] = IF d \in stale THEN 1 ELSE @ + 1]
  /\ stale' = stale \ {d}

(* An AKP153 is looked for again, by its product number: of two of one model  *)
(* either may be found, also for the second time. When none can be opened the *)
(* dock is tried the way of the others.                                       *)
OpenDock(d) ==
  /\ child = "opening" /\ d \in todo
  /\ todo' = todo \ {d}
  /\ \/ Model[d] \in Akp153 /\ \E u \in Docks : Model[u] = Model[d] /\ Connected(u, TRUE)
     \/ Connected(d, FALSE)
     \/ Emit(Says("error", None)) /\ UNCHANGED <<entries, readers, stale>>
  /\ UNCHANGED <<bus, child, stdin, eof, clientVars, lit, heard>>
SayReady ==
  /\ child = "opening" /\ todo = {} /\ Emit(Says("ready", None))
  /\ child' = "serving"
  /\ UNCHANGED <<bus, todo, entries, readers, stale, stdin, eof, clientVars, lit, heard>>

(* The device a command is for: that of its serial, else any when there is    *)
(* one, or one and its alias.                                                 *)
Resolved(s) ==
  IF s \in DOMAIN entries THEN {entries[s]}
  ELSE IF Cardinality(DOMAIN entries) <= 2 THEN {entries[n] : n \in DOMAIN entries} ELSE {}
Works(e) == e.dock \in bus \ stale

(* A command is done and answered. A device that cannot be written to gives   *)
(* an error, except that the native driver calls every keep_alive good.       *)
Shown(e, c) ==
  lit' = IF c.cmd = "set_image" /\ e.native /\ ~c.zone
         THEN {[dock |-> e.dock, slot |-> SlotOf(c.key, FALSE), key |-> c.of]} ELSE lit
Obey(e, c) ==
  \/ Works(e) /\ Emit(Says("ok", None)) /\ Shown(e, c)
  \/ ~Works(e) /\ UNCHANGED lit
     /\ Emit(Says(IF e.native /\ c.cmd = "keep_alive" THEN "ok" ELSE "error", None))
Serve ==
  /\ child = "serving" /\ stdin # <<>>
  /\ stdin' = Tail(stdin)
  /\ LET c == Head(stdin) IN
       \/ \E e \in Resolved(c.serial) : Obey(e, c)
       \/ Resolved(c.serial) = {} /\ Emit(Says("error", None)) /\ UNCHANGED lit
  /\ UNCHANGED <<bus, hostVars, eof, clientVars, heard>>

(* Every reader of a dock has a handle of its own and reports each press. The *)
(* native one knows slots, the other one codes.                               *)
Native(d) == d \in DOMAIN entries /\ entries[d].native
Read(d, code, state, slot) ==
  /\ child \in {"opening", "serving"} /\ d \in bus \ stale /\ readers[d] > 0
  /\ stdout = <<>> \/ Len(stdout) + readers[d] <= MaxLines
  /\ stdout' = stdout \o [i \in 1..readers[d] |-> [event |-> "input", of |-> d, code |-> code, state |-> state,
                                                  slot |-> slot]]
  /\ UNCHANGED <<bus, hostVars, stdin, eof, clientVars, lit, heard>>
ReadSlot(d, slot, state) == Native(d) /\ \E u \in UiKeys(slot) : Read(d, u, state, slot)
ReadCode(d, code, state) == ~Native(d) /\ Read(d, code, state, 0)

(* A reader whose dock is gone ends; the device stays in the map.             *)
ReaderEnds(d) ==
  /\ child \in {"opening", "serving"} /\ d \notin bus \ stale /\ readers[d] > 0
  /\ readers' = [readers EXCEPT ![d] = @ - 1]
  /\ IF Native(d) THEN UNCHANGED stdout ELSE Emit(Says("device_error", d))
  /\ UNCHANGED <<bus, child, todo, entries, stale, stdin, eof, clientVars, lit, heard>>

(* At the end of its input the host leaves, if no native reader holds it: the *)
(* runtime waits for those, and they read for as long as their dock is there. *)
Leave ==
  /\ child = "serving" /\ eof /\ stdin = <<>>
  /\ \A d \in Docks : Native(d) => readers[d] = 0
  /\ child' = "ended"
  /\ UNCHANGED <<bus, todo, entries, readers, stale, pipeVars, clientVars, lit, heard>>
Die ==
  /\ child \in {"listing", "opening", "serving"}
  /\ child' = "ended"
  /\ UNCHANGED <<bus, todo, entries, readers, stale, pipeVars, clientVars, lit, heard>>
-----------------------------------------------------------------------------
(* The backend.                                                               *)
IsOpen == phase = "open" /\ running /\ ready

(* A host is started, with pipes of its own; the serial is that of before.    *)
Open ==
  /\ phase \in {"closed", "open"} /\ ~IsOpen
  /\ phase' = "opening" /\ running' = TRUE /\ ready' = FALSE
  /\ child' = "listing" /\ todo' = {} /\ entries' = <<>> /\ readers' = NoReaders /\ stale' = {}
  /\ stdin' = <<>> /\ eof' = FALSE /\ stdout' = <<>>
  /\ lit' = {} /\ heard' = {}
  /\ UNCHANGED <<bus, serial>>

(* A line is read, in the handshake, by the event loop, or while an open      *)
(* backend waits in close(); whatever dock an input is from, the backend's    *)
(* callback gets it.                                                          *)
Heard(line) == {[dock |-> line.of, slot |-> line.slot, event |-> e] : e \in Mapped(line.code, line.state)}
HandleLine ==
  /\ phase \in {"opening", "open"} \/ (phase = "closing" /\ ready)
  /\ stdout # <<>>
  /\ LET line == Head(stdout) IN
       /\ serial' = IF line.event = "connected" THEN line.of ELSE serial
       /\ ready' = (ready \/ line.event = "ready")
       /\ heard' = IF line.event = "input" THEN Heard(line) ELSE heard
  /\ stdout' = Tail(stdout)
  /\ UNCHANGED <<bus, hostVars, stdin, eof, phase, running, lit>>
Opened ==
  /\ phase = "opening" /\ ready
  /\ phase' = "open"
  /\ UNCHANGED <<bus, hostVars, pipeVars, running, ready, serial, lit, heard>>

(* No host can be started. What the last one said of itself is left.          *)
StartFails ==
  /\ phase \in {"closed", "open"} /\ ~IsOpen
  /\ phase' = "closed" /\ running' = FALSE
  /\ UNCHANGED <<bus, hostVars, pipeVars, ready, serial, lit, heard>>

(* The host is over, as the event loop finds.                                 *)
Finished ==
  /\ child = "ended" /\ running
  /\ running' = FALSE
  /\ UNCHANGED <<bus, hostVars, pipeVars, phase, ready, serial, lit, heard>>

(* close(): by the caller, or when the handshake fails or takes too long. It  *)
(* ends the input and waits a second, then kills.                             *)
Close ==
  /\ phase = "open" \/ (phase = "opening" /\ ~ready)
  /\ phase' = "closing" /\ eof' = TRUE
  /\ UNCHANGED <<bus, hostVars, stdin, stdout, running, ready, serial, lit, heard>>
Closed ==
  /\ phase = "closing"
  /\ phase' = "closed" /\ running' = FALSE /\ ready' = FALSE
  /\ child' = None /\ todo' = {} /\ entries' = <<>> /\ readers' = NoReaders /\ stale' = {}
  /\ stdin' = <<>> /\ eof' = FALSE /\ stdout' = <<>>
  /\ lit' = {} /\ heard' = {}
  /\ UNCHANGED <<bus, serial>>

(* Commands carry the serial heard last. One to a host that is over is lost.  *)
Command(cmd, key, zone, k) == [cmd |-> cmd, serial |-> serial, key |-> key, zone |-> zone, of |-> k]
Image(k) == Command("set_image", HwKey(k), FALSE, k)
ZoneImage(z) == Command("set_image", z, TRUE, z)
Write(commands) ==
  /\ IsOpen /\ Len(stdin) + Len(commands) <= MaxCommands
  /\ stdin' = stdin \o commands
  /\ UNCHANGED <<bus, hostVars, eof, stdout, clientVars, lit, heard>>
SetKeyImage(k) == Write(<<Image(k)>>)
ClearKeys == Write([i \in DOMAIN Keys |-> Image(Keys[i])])
SetZoneImage(z) == Write(<<ZoneImage(z)>>)
ClearTouchStrip == Write([i \in DOMAIN Zones |-> ZoneImage(Zones[i])])
SetBrightness == Write(<<Command("set_brightness", 0, FALSE, 0)>>)
KeepAlive == Write(<<Command("keep_alive", 0, FALSE, 0)>>)
-----------------------------------------------------------------------------
Plug(d) ==
  /\ d \notin bus /\ Cardinality(bus) < MaxPlugged
  /\ bus' = bus \cup {d}
  /\ UNCHANGED <<hostVars, pipeVars, clientVars, lit, heard>>
Unplug(d) ==
  /\ d \in bus
  /\ bus' = bus \ {d} /\ stale' = IF readers[d] > 0 \/ d \in DOMAIN entries THEN stale \cup {d} ELSE stale
  /\ UNCHANGED <<child, todo, entries, readers, pipeVars, clientVars, lit, heard>>

HostStep ==
  \/ Enumerate \/ EnumerationFails \/ SayReady \/ Serve \/ Leave \/ Die
  \/ \E d \in Docks : OpenDock(d) \/ ReaderEnds(d)
  \/ \E d \in Docks, slot \in Slots, state \in 0..1 : ReadSlot(d, slot, state)
  \/ \E d \in Docks, c \in Codes, state \in 0..1 : ReadCode(d, c, state)
ClientStep ==
  \/ Open \/ StartFails \/ HandleLine \/ Opened \/ Finished \/ Close \/ Closed
  \/ \E i \in DOMAIN Keys : SetKeyImage(Keys[i])
  \/ \E i \in DOMAIN Zones : SetZoneImage(Zones[i])
  \/ ClearKeys \/ ClearTouchStrip \/ SetBrightness \/ KeepAlive
Next == HostStep \/ ClientStep \/ \E d \in Docks : Plug(d) \/ Unplug(d)
Spec == Init /\ [][Next]_vars
-----------------------------------------------------------------------------
TypeOK ==
  /\ bus \subseteq Docks /\ todo \subseteq Docks /\ stale \subseteq Docks
  /\ child \in {None, "listing", "opening", "serving", "ended"}
  /\ DOMAIN entries \subseteq Docks \cup {Alias}
  /\ readers \in [Docks -> Nat] /\ Len(stdin) <= MaxCommands /\ Len(stdout) <= MaxLines + Cardinality(Docks)
  /\ phase \in {"closed", "opening", "open", "closing"}
  /\ {eof, running, ready} \subseteq BOOLEAN /\ serial \in Docks \cup {None}

(* A key of an AKP153 that shows the picture of key k is reported as key k:   *)
(* the backend's numbers, the host's table and its reverse agree. A backend   *)
(* for ten keys, which may adopt an AKP153 too, draws in the order of its own *)
(* rows: a press on the picture of keys 1 to 5 is reported as key 11 to 15.   *)
PressIsWherePictureIs ==
  \A p \in lit, h \in heard : p.dock = h.dock /\ p.slot = h.slot =>
    h.event.index = IF KeyCount = 10 THEN HwKey(p.key) + 1 ELSE p.key

(* A command of an open backend reaches a device if the host has any: no      *)
(* serial of an earlier host is used.                                         *)
CommandsFindADock ==
  child = "serving" /\ entries # <<>> => \A i \in DOMAIN stdin : stdin[i].serial \in DOMAIN entries

(* A backend that calls itself open has a host that has opened its docks, or  *)
(* had one that is over.                                                      *)
OpenIsReady == IsOpen => child \in {"serving", "ended"}

SidecarIsTrue == PressIsWherePictureIs /\ CommandsFindADock /\ OpenIsReady
=============================================================================
