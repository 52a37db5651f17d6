------------------------------ MODULE Keyboard ------------------------------
(* A keyboard with the vendor's own protocol (AK980 PRO): the reports of each *)
(* command, what is kept when one of them cannot be written, and what the     *)
(* keyboard makes of those that arrive. Times, settings and modes are put     *)
(* between a start and a save report; macros, colours and pictures are cut    *)
(* into chunks with an offset or an index.                                    *)
(* src/devices/keyboard/src/proprietary_keyboard.cpp, proprietary_protocol.hpp*)
EXTENDS Naturals, Sequences, SequencesExt, FiniteSetsExt

CONSTANTS Zones,        \* the names of the zones
          Leds,         \* zone -> ledCountForZone
          MacroChunk,   \* bytes of a macro in a report
          RgbChunk,     \* bytes of colours a report claims to hold
          RgbRoom,      \* bytes of colours a report has room for
          Panel,        \* [w, h]: the size of the built-in panel
          PictureChunk, \* bytes of a picture in a report
          Years, Settings, Modes, Levels, Macros, Pictures,   \* what is asked for
          Bursts,             \* what the keyboard says at a time
          MaxCommands

VARIABLES open,       \* the transport has its handle
          cache,      \* m_settingsCache
          dev,        \* the keyboard: what it keeps, and the reports since the last start
          queued,     \* input reports waiting to be read
          heard,      \* events poll() has passed on
          asked,      \* the last command: [what, value]
          report,     \* what the caller was told: "ok", "failed" or "none"
          commands

vars == <<open, cache, dev, queued, heard, asked, report, commands>>

Lowest(x, y) == IF x < y THEN x ELSE y
Between(x, lo, hi) == IF x < lo THEN lo ELSE Lowest(x, hi)
Byte(x, n) == (x \div (256 ^ n)) % 256
-----------------------------------------------------------------------------
(* The reports.                                                               *)
Report(cmd) == [cmd |-> cmd]
SetKeycode(layer, row, col, code) ==
  [cmd |-> "keycode", layer |-> layer, row |-> row, col |-> col, hi |-> Byte(code, 1), lo |-> Byte(code, 0)]
SetRgbStatic(zone, colour) == [cmd |-> "static", zone |-> zone, colour |-> colour]
SetRgbEffect(zone, effect, speed) == [cmd |-> "effect", zone |-> zone, effect |-> effect, speed |-> speed]
SetRgbBrightness(percent) == [cmd |-> "brightness", value |-> Lowest(percent, 100)]
SetTimeData(year) ==
  [cmd |-> "time", year |-> IF year >= 2255 THEN 255 ELSE IF year >= 2000 THEN year - 2000 ELSE 0]
SettingsBatch(s) ==
  [cmd |-> "settings", fn |-> s.fn, sleep |-> s.sleep,
   level |-> Between(IF s.level = 0 THEN 3 ELSE s.level, 1, 5)]
ModeData(mode, brightness, speed) ==
  [cmd |-> "mode", mode |-> mode, brightness |-> Lowest(brightness, 5), speed |-> Lowest(speed, 5)]

(* Bug: an index whose middle byte is written before its low byte.            *)
ChunkIndexSwapped(i) == <<128 + (Byte(i, 2) % 128), Byte(i, 1), Byte(i, 0)>>

(* A chunk's index: seven high bits with a marker, the low, the middle byte.  *)
ChunkIndex(i) == <<128 + (Byte(i, 2) % 128), Byte(i, 0), Byte(i, 1)>>
PictureHeader(lcd, total) ==
  [cmd |-> "header", lcd |-> (lcd + 1) % 256, total |-> <<Byte(total, 0), Byte(total, 1), Byte(total, 2)>>]
(* stampTftChecksum: all bytes but its own, modulo 256.                       *)
Checksum(index, bytes) == FoldLeft(+, 0, index \o bytes) % 256
PictureReport(i, bytes) ==
  [cmd |-> "picture", index |-> ChunkIndex(i), bytes |-> bytes, sum |-> Checksum(ChunkIndex(i), bytes)]

(* encodeRgb565: the nearest pixel, five, six and five bits, high byte first. *)
Nearest(d, size, panel) == Lowest(((d * 2 + 1) * size) \div (2 * panel), size - 1)
Rgb565(c) == (c[1] \div 8) * 2048 + (c[2] \div 4) * 32 + (c[3] \div 8)
Frame(img) ==
  IF img.w = 0 \/ img.h = 0 \/ Len(img.pixels) # img.w * img.h THEN <<>>
  ELSE LET pixel(i) == LET sy == Nearest(i \div Panel.w, img.h, Panel.h)
                           sx == Nearest(i % Panel.w, img.w, Panel.w)
                       IN  Rgb565(img.pixels[sy * img.w + sx + 1])
       IN  [i \in 1..2 * Panel.w * Panel.h |-> Byte(pixel((i - 1) \div 2), i % 2)]

(* What is cut: n bytes, at most size at a time, each with its offset.        *)
Chunks(n, size) == [i \in 1..((n + size - 1) \div size) |->
                      [offset |-> (i - 1) * size, take |-> Lowest(size, n - (i - 1) * size)]]
Slice(bytes, c) == SubSeq(bytes, c.offset + 1, c.offset + c.take)
MacroReports(slot, bytes) ==
  LET cut == Chunks(Len(bytes), MacroChunk)
  IN  [i \in DOMAIN cut |-> [cmd |-> "macro", slot |-> slot, offset |-> cut[i].offset, bytes |-> Slice(bytes, cut[i])]]
(* A report of colours claims more bytes than it has room for.                *)
ColourReports(zone, bytes) ==
  LET cut == Chunks(Len(bytes), RgbChunk)
  IN  [i \in DOMAIN cut |-> [cmd |-> "colours", zone |-> zone, offset |-> cut[i].offset, claims |-> cut[i].take,
                             bytes |-> Slice(bytes, [cut[i] EXCEPT !.take = Lowest(@, RgbRoom)])]]
Padded(bytes) == bytes \o [i \in 1..(PictureChunk - Len(bytes)) |-> 0]
PictureReports(bytes) ==
  LET cut == Chunks(Len(bytes), PictureChunk)
  IN  <<PictureHeader(0, Len(cut))>> \o
      [i \in DOMAIN cut |-> PictureReport(i - 1, Padded(Slice(bytes, cut[i])))]

TimeReports(year) == <<Report("start"), Report("preamble"), SetTimeData(year), Report("save")>>
ModeReports(m) == <<Report("start"), Report("begin"), ModeData(m.mode, m.brightness, m.speed),
                    Report("save"), Report("finish")>>
SettingsReports(s) == <<Report("start"), SettingsBatch(s), Report("save"), Report("finish")>>
-----------------------------------------------------------------------------
(* The keyboard itself: what it keeps of a report. A save keeps what came     *)
(* since the start; a chunk is put at its place.                              *)
Put(bytes, at, new) ==
  [i \in 1..Max({Len(bytes), at + Len(new)}) |->
     IF i > at /\ i <= at + Len(new) THEN new[i - at] ELSE IF i <= Len(bytes) THEN bytes[i] ELSE 0]
IndexOf(index) == (index[1] % 128) * 65536 + index[3] * 256 + index[2]
Kept(d, r) ==
  CASE r.cmd = "start" -> [d EXCEPT !.pending = <<>>]
    [] r.cmd \in {"time", "mode", "settings"} -> [d EXCEPT !.pending = <<r>>]
    [] r.cmd = "save" -> IF d.pending = <<>> THEN d
                         ELSE [d EXCEPT ![d.pending[1].cmd] = d.pending[1], !.pending = <<>>]
    [] r.cmd = "macro" -> [d EXCEPT !.macro = IF r.offset = 0 THEN r.bytes ELSE Put(@, r.offset, r.bytes)]
    [] r.cmd = "colours" -> [d EXCEPT !.colours = Put(@, r.offset, r.bytes)]
    [] r.cmd = "header" -> [d EXCEPT !.picture = <<>>]
    [] r.cmd = "picture" /\ r.sum = Checksum(r.index, r.bytes) ->
         [d EXCEPT !.picture = Put(@, IndexOf(r.index) * PictureChunk, r.bytes)]
    [] r.cmd \in {"keycode", "static", "effect", "brightness"} -> [d EXCEPT !.last = r]
    [] OTHER -> d
AllKept(d, reports) == FoldLeft(Kept, d, reports)

NoReport == [cmd |-> "none"]
Fresh == [fn |-> 0, sleep |-> 0, level |-> 3]
Keyless == [pending |-> <<>>, time |-> NoReport, mode |-> NoReport, settings |-> NoReport, macro |-> <<>>,
            colours |-> <<>>, picture |-> <<>>, last |-> NoReport]
Init == /\ open = FALSE /\ cache = Fresh /\ dev = Keyless /\ queued = <<>> /\ heard = <<>>
        /\ asked = [what |-> "none", value |-> 0] /\ report = "none" /\ commands = 0
-----------------------------------------------------------------------------
(* The reports of a command are written until one cannot be.                  *)
Asked(what, value) == /\ commands < MaxCommands /\ commands' = commands + 1
                      /\ asked' = [what |-> what, value |-> value]
Written(what, value, reports) ==
  /\ Asked(what, value)
  /\ \E n \in 0..Len(reports) :
       /\ dev' = AllKept(dev, SubSeq(reports, 1, n))
       /\ ~ open => n = 0
       /\ report' = IF n = Len(reports) THEN "ok" ELSE "failed"
  /\ UNCHANGED <<open, queued, heard>>

Open == /\ ~ open /\ open' \in BOOLEAN /\ UNCHANGED <<cache, dev, queued, heard, asked, report, commands>>
(* The backend is dropped with its cache and what it has told, and the next   *)
(* call makes a new one.                                                      *)
Dropped == /\ open' = FALSE /\ cache' = Fresh /\ report' = "none"
           /\ UNCHANGED <<dev, queued, heard, asked, commands>>

SetTime(year) == Written("time", year, TimeReports(year)) /\ UNCHANGED cache
SetFirmwareLightingMode(m) == Written("mode", m, ModeReports(m)) /\ UNCHANGED cache
SetKeyboardSettings(s) ==
  /\ Written("settings", s, SettingsReports(s))
  /\ cache' = IF report' = "ok" THEN [s EXCEPT !.level = SettingsBatch(s).level] ELSE cache
SetMacro(bytes) == Written("macro", bytes, MacroReports(1, bytes)) /\ UNCHANGED cache
SetRgbBuffer(zone, bytes) ==
  /\ Len(bytes) = 3 * Leds[zone]
  /\ Written("colours", bytes, ColourReports(zone, bytes)) /\ UNCHANGED cache
UploadTftImage(img) ==
  /\ IF Frame(img) = <<>>
     THEN /\ Asked("picture", img) /\ report' = "failed"
          /\ UNCHANGED <<open, dev, queued, heard>>
     ELSE Written("picture", img, PictureReports(Frame(img)))
  /\ UNCHANGED cache
Single(r) == Written("single", r, <<r>>) /\ UNCHANGED cache
Singles == {SetKeycode(0, 1, 2, 1027), Report("commit")}
           \cup {SetRgbStatic(z, 7) : z \in Zones} \cup {SetRgbEffect(z, 1, 2) : z \in Zones}
           \cup {SetRgbBrightness(x) : x \in Levels}

(* batteryPercent: one query, at most six looks for its echo.                 *)
BatteryPercent(level) ==
  /\ Asked("battery", level)
  /\ \/ open /\ report' \in {"ok", "failed"}
     \/ ~ open /\ report' = "failed"
  /\ UNCHANGED <<open, cache, dev, queued, heard>>
FirmwareVersion ==
  /\ Asked("version", 0)
  /\ report' \in IF open THEN {"ok", "unknown"} ELSE {"unknown"}
  /\ UNCHANGED <<open, cache, dev, queued, heard>>

(* The user changes the layer, or the keyboard says something else.           *)
Says(burst) ==
  /\ queued = <<>> /\ heard = <<>> /\ queued' = burst
  /\ UNCHANGED <<open, cache, dev, heard, asked, report, commands>>
Poll ==
  /\ open /\ queued # <<>>
  /\ LET now == SubSeq(queued, 1, Lowest(4, Len(queued)))
     IN  /\ queued' = SubSeq(queued, Len(now) + 1, Len(queued))
         /\ heard' = heard \o SelectSeq(now, LAMBDA said : said = "layer")
  /\ UNCHANGED <<open, cache, dev, asked, report, commands>>

Next ==
  \/ Open \/ Dropped \/ FirmwareVersion \/ Poll
  \/ \E y \in Years : SetTime(y)
  \/ \E m \in Modes : SetFirmwareLightingMode(m)
  \/ \E s \in Settings : SetKeyboardSettings(s)
  \/ \E b \in Macros : SetMacro(b)
  \/ \E z \in Zones, b \in Macros : SetRgbBuffer(z, b)
  \/ \E img \in Pictures : UploadTftImage(img)
  \/ \E r \in Singles : Single(r)
  \/ \E x \in Levels : BatteryPercent(x)
  \/ \E burst \in Bursts : Says(burst)
-----------------------------------------------------------------------------
TypeOK ==
  /\ open \in BOOLEAN /\ cache \in [fn : Nat, sleep : Nat, level : 1..5]
  /\ Len(queued) <= 5 /\ report \in {"none", "ok", "failed", "unknown"}

(* What was reported done is what the keyboard has, as a whole: no report of  *)
(* the envelope is missing, no chunk is at a wrong place, and the cache says  *)
(* what was saved. (Colours are excepted: their chunks lose bytes.)           *)
IsPrefixOf(s, t) == Len(s) <= Len(t) /\ \A i \in DOMAIN s : s[i] = t[i]
ReportIsTrue ==
  report = "ok" =>
    CASE asked.what = "time" -> dev.time = SetTimeData(asked.value)
      [] asked.what = "mode" -> dev.mode.mode = asked.value.mode
      [] asked.what = "settings" -> /\ dev.settings.fn = asked.value.fn /\ dev.settings.level \in 1..5
                                    /\ cache.level = dev.settings.level
      [] asked.what = "macro" -> asked.value # <<>> => dev.macro = asked.value
      [] asked.what = "picture" -> IsPrefixOf(Frame(asked.value), dev.picture)
      [] OTHER -> TRUE
=============================================================================
