------------------------------- MODULE Mouse -------------------------------
(* A mouse of the AJ series: each command is one report (a macro is several), *)
(* built from what the backend remembers, and what the mouse keeps of it for  *)
(* its profiles. Some commands say whether the report was written, others     *)
(* swallow the failure.                                                       *)
(* src/devices/mouse/src/aj_series.cpp, aj_series_protocol.cpp                *)
EXTENDS Naturals, Sequences, SequencesExt, FiniteSetsExt

CONSTANTS Profiles,     \* 0..n: the profiles in the mouse
          Slots,        \* 0..n: the slots for macros
          Stages,       \* the number of DPI stages
          MacroBytes, MacroChunk,  \* bytes of a macro, and of it in a report
          MacroRoom,    \* those of a report that its checksum leaves alone
          Rates,        \* supportedPollingRatesHz, in order
          AskedRates, Settings, Tables, Macros, Frames,   \* what is asked for, what is read
          MaxCommands

VARIABLES cache,    \* what the backend remembers
          mouse,    \* what the mouse keeps
          asked,    \* the last command: [what, value]
          report,   \* what the caller was told: "ok", "failed", "none" (nothing is told)
          written,  \* its reports were all written
          commands

vars == <<cache, mouse, asked, report, written, commands>>

Least(x, y) == IF x < y THEN x ELSE y
Profile(n) == Least(n, Max(Profiles))
-----------------------------------------------------------------------------
(* The reports.                                                               *)
Distance(x, y) == IF x > y THEN x - y ELSE y - x
ClampToSupported(hz) ==
  LET best == Min({Distance(hz, Rates[i]) : i \in DOMAIN Rates})
  IN  Rates[Min({i \in DOMAIN Rates : Distance(hz, Rates[i]) = best})]
(* pollRateToWireCode: another rate than these is sent as 1000 Hz.            *)
RateOnWire(hz) == IF hz \in {125, 250, 500, 1000, 2000, 4000, 8000} THEN hz ELSE 1000

SetProfile(n) == [cmd |-> "profile", profile |-> Profile(n)]
SetReportRate(n, hz) == [cmd |-> "rate", profile |-> Profile(n), rate |-> RateOnWire(hz)]
SetOption0(o) == [cmd |-> "options", profile |-> Profile(o.profile), rate |-> RateOnWire(o.rate),
                  lod |-> Least(o.lod, 2), debounce |-> o.debounce]
SettingsOf(n, hz, s) == [profile |-> n, rate |-> hz, lod |-> Least(s.lod, 2), debounce |-> Least(s.debounce, 10)]
(* The two layouts of the DPI stages, which share an opcode.                  *)
SetStages(active, stages) ==
  [cmd |-> "stages", bytes |-> <<Least(active, 7), Cardinality({i \in DOMAIN stages : stages[i] # 0})>>,
   stages |-> stages]
SetTable(t) ==
  [cmd |-> "stages", bytes |-> <<Profile(t.profile), Least(t.active, 7), Least(t.count, 8)>>, stages |-> t.stages]
SetLedParam(led) ==
  [cmd |-> "led", effect |-> led.effect, slowness |-> 4 - Least(led.speed, 4), brightness |-> led.brightness,
   colour |-> IF led.colour = "white" THEN "almost white" ELSE led.colour]
SetKeyMatrix(n, button, action) == [cmd |-> "key", profile |-> Profile(n), button |-> button, action |-> action]
SetFnMatrix(n, button, action) == [cmd |-> "fn", layer |-> Profile(n), button |-> button, action |-> action]
SetOledClock(year) == [cmd |-> "clock", year |-> <<(year \div 256) % 256, year % 256>>]
GetKeyMatrix(n) == [cmd |-> "read", profile |-> Profile(n)]

(* encodeMouseMacro: once, then the events; 128 marks a key that goes down.   *)
EventBytes(e) == CASE e.kind = "down" -> <<128 + (e.value % 128)>>
                   [] e.kind = "up" -> <<e.value % 128>>
                   [] e.value <= 127 -> <<e.value>>
                   [] OTHER -> <<e.value % 256, (e.value \div 256) % 256>>
Encoded(events) == <<1, 0>> \o FlattenSeq([i \in DOMAIN events |-> EventBytes(events[i])])
Payload(events) == SubSeq(Encoded(events), 1, Least(Len(Encoded(events)), MacroBytes))
LastNonZero(bytes) == Max({0} \cup {i - 1 : i \in {j \in DOMAIN bytes : bytes[j] # 0}})
MacroReports(slot, bytes) ==
  LET count == (Len(bytes) + MacroChunk - 1) \div MacroChunk
      taken(i) == SubSeq(bytes, (i - 1) * MacroChunk + 1, Least(i * MacroChunk, Len(bytes)))
  IN  [i \in 1..count |-> [cmd |-> "macro", slot |-> Least(slot, Max(Slots)), index |-> i - 1,
                           ends |-> LastNonZero(bytes), final |-> i = count,
                           bytes |-> SubSeq(taken(i), 1, Least(MacroRoom, Len(taken(i))))]]
-----------------------------------------------------------------------------
(* The mouse: what it keeps of a report. A macro replaces the one of its slot *)
(* with its last report.                                                      *)
Kept(m, r) ==
  CASE r.cmd = "profile" -> [m EXCEPT !.profile = r.profile]
    [] r.cmd = "rate" -> [m EXCEPT !.rate[r.profile] = r.rate]
    [] r.cmd = "options" -> [m EXCEPT !.rate[r.profile] = r.rate, !.lod[r.profile] = r.lod]
    [] r.cmd = "stages" -> [m EXCEPT !.stages = r.stages]
    [] r.cmd = "led" -> [m EXCEPT !.led = r]
    [] r.cmd = "macro" ->
         LET parts == (IF r.index = 0 THEN <<>> ELSE m.parts) \o <<r.bytes>>
         IN  [m EXCEPT !.parts = parts, !.macro[r.slot] = IF r.final THEN parts ELSE @]
    [] r.cmd = "reset" -> [m EXCEPT !.rate = [n \in Profiles |-> 1000], !.lod = [n \in Profiles |-> 0],
                                    !.macro = [s \in Slots |-> <<>>], !.stages = <<>>]
    [] OTHER -> m
AllKept(m, reports) == FoldLeft(Kept, m, reports)

NoStages == [i \in 1..Stages |-> 0]
LedOn == [effect |-> 1, speed |-> 0, brightness |-> 5, colour |-> "white"]
(* The mouse remembers the profile it was left in; the backend starts with 0. *)
Fresh == [profile |-> 0, rate |-> 1000, stages |-> NoStages, active |-> 0, led |-> LedOn,
          options |-> [profile |-> 0, rate |-> 1000, lod |-> 0, debounce |-> 0],
          settings |-> [lod |-> 0, debounce |-> 0], table |-> [profile |-> 0, active |-> 0, count |-> 0]]
Factory(n) == [profile |-> n, rate |-> [i \in Profiles |-> 1000], lod |-> [i \in Profiles |-> 0], stages |-> <<>>,
               led |-> SetLedParam(LedOn), parts |-> <<>>, macro |-> [s \in Slots |-> <<>>]]
Init == /\ cache = Fresh /\ mouse \in {Factory(n) : n \in Profiles}
        /\ asked = [what |-> "none", value |-> 0] /\ report = "none" /\ written = FALSE /\ commands = 0
-----------------------------------------------------------------------------
(* The reports of a command are written until a write throws.                 *)
Sent(what, value, reports) ==
  /\ commands < MaxCommands /\ commands' = commands + 1
  /\ asked' = [what |-> what, value |-> value]
  /\ \E n \in 0..Len(reports) : /\ mouse' = AllKept(mouse, SubSeq(reports, 1, n))
                                /\ written' = (n = Len(reports))
(* Whether it went well is told, or it is not.                                *)
Told == report' = IF written' THEN "ok" ELSE "failed"
Untold == report' = "none"

SetDpiStages(stages) ==
  LET all == [i \in 1..Stages |-> IF i <= Len(stages) THEN stages[i] ELSE 0]
  IN  /\ cache' = [cache EXCEPT !.stages = all]
      /\ Sent("stages", all, <<SetStages(cache.active, all)>>) /\ Untold
SetDpiStage(i, dpi) ==
  LET all == [cache.stages EXCEPT ![i] = dpi]
  IN  /\ cache' = [cache EXCEPT !.stages = all]
      /\ Sent("stages", all, <<SetStages(cache.active, all)>>) /\ Untold
SetActiveDpiStage(i) ==
  /\ cache' = [cache EXCEPT !.active = Least(i, 7)]
  /\ Sent("stages", cache.stages, <<SetStages(Least(i, 7), cache.stages)>>) /\ Untold
(* The whole packet goes out with what the backend has for the rest of it.    *)
SetLiftOffDistance(code) ==
  /\ cache' = [cache EXCEPT !.options.lod = code]
  /\ Sent("lod", code, <<SetOption0([cache.options EXCEPT !.lod = code])>>) /\ Untold
SetButtonBinding(button, action) ==
  /\ Sent("button", button, <<SetKeyMatrix(cache.profile, button, action)>>) /\ Untold
  /\ UNCHANGED cache
Lit(led) == /\ cache' = [cache EXCEPT !.led = led]
            /\ Sent("led", led, <<SetLedParam(led)>>) /\ Untold
SetRgbStatic(colour) == Lit([effect |-> 1, speed |-> 0, brightness |-> 5, colour |-> colour])
SetRgbEffect(effect, speed) == Lit([cache.led EXCEPT !.effect = effect, !.speed = speed])
SetRgbBrightness(percent) == Lit([cache.led EXCEPT !.brightness = (Least(percent, 100) * 5) \div 100])
SetTime(year) == Sent("clock", year, <<SetOledClock(year)>>) /\ Told /\ UNCHANGED cache

SetPollingRate(hz) ==
  LET rate == ClampToSupported(hz)
  IN  /\ Sent("rate", rate, <<SetReportRate(cache.profile, rate)>>) /\ Told
      /\ cache' = IF written' THEN [cache EXCEPT !.rate = rate] ELSE cache
SetActiveOnboardProfile(n) ==
  /\ Sent("profile", Profile(n), <<SetProfile(Profile(n))>>) /\ Told
  /\ cache' = IF written' THEN [cache EXCEPT !.profile = Profile(n)] ELSE cache
SetMouseSettings(s) ==
  LET o == SettingsOf(cache.profile, cache.rate, s)
  IN  /\ Sent("settings", o, <<SetOption0(o)>>) /\ Told
      /\ cache' = IF written' THEN [cache EXCEPT !.settings = [lod |-> o.lod, debounce |-> o.debounce],
                                                 !.options.lod = o.lod, !.options.debounce = o.debounce]
                  ELSE cache
FactoryReset == Sent("reset", 0, <<[cmd |-> "reset"]>>) /\ Told /\ UNCHANGED cache
SetDpiTable(t) ==
  /\ Sent("table", t, <<SetTable(t)>>) /\ Told
  /\ cache' = IF written' THEN [cache EXCEPT !.table = [profile |-> Profile(t.profile), active |-> Least(t.active, 7),
                                                        count |-> Least(t.count, 8)]]
              ELSE cache
SetFnLayerBinding(n, button, action) ==
  Sent("fn", button, <<SetFnMatrix(n, button, action)>>) /\ Told /\ UNCHANGED cache
UploadMacro(slot, events) ==
  /\ Sent("macro", [slot |-> Least(slot, Max(Slots)), bytes |-> Payload(events)],
          MacroReports(slot, Payload(events))) /\ Told
  /\ UNCHANGED cache

(* parseBatteryCharge: the charge is the fourth byte after a report id, else  *)
(* the third; what is before it must be zero, and zero is not a charge.       *)
Charge(frame) ==
  LET at == IF frame # <<>> /\ frame[1] = 5 THEN 4 ELSE 3
  IN  IF Len(frame) < 4 \/ (\E i \in 2..(at - 1) : frame[i] # 0) \/ frame[at] = 0 THEN 0
      ELSE Least(frame[at], 100)
BatteryPercent(frame) ==
  /\ Sent("battery", frame, <<[cmd |-> "poll"]>>) /\ UNCHANGED cache
  /\ report' = IF written' /\ Charge(frame) # 0 THEN "ok" ELSE "failed"
(* The answer holds a record for each button, or one byte more.               *)
ReadKeyMatrix(size) ==
  /\ Sent("read", size, <<GetKeyMatrix(cache.profile)>>) /\ UNCHANGED cache
  /\ report' = IF written' /\ size \in {64, 65} THEN "ok" ELSE "failed"

Next ==
  \/ FactoryReset
  \/ \E hz \in AskedRates : SetPollingRate(hz)
  \/ \E n \in 0..Max(Profiles) + 1 : SetActiveOnboardProfile(n)
  \/ \E n \in 0..Max(Profiles) + 1, k \in {1, 2} : SetFnLayerBinding(n, k, 3) \/ SetButtonBinding(k, n)
  \/ \E s \in Settings : SetMouseSettings(s) \/ SetLiftOffDistance(s.lod)
  \/ \E t \in Tables : SetDpiTable(t) \/ SetDpiStages(t.stages) \/ SetActiveDpiStage(t.active)
  \/ \E i \in 1..Stages : SetDpiStage(i, 800)
  \/ \E c \in {"white", "red"} : SetRgbStatic(c)
  \/ \E n \in {2, 9} : SetRgbEffect(n, n) \/ SetRgbBrightness(n * 20)
  \/ SetTime(2026)
  \/ \E s \in Slots, events \in Macros : UploadMacro(s + 1, events)
  \/ \E f \in Frames : BatteryPercent(f)
  \/ \E size \in {0, 63, 64, 65} : ReadKeyMatrix(size)
-----------------------------------------------------------------------------
TypeOK ==
  /\ cache.profile \in Profiles /\ cache.rate \in {Rates[i] : i \in DOMAIN Rates}
  /\ mouse.profile \in Profiles /\ mouse.rate \in [Profiles -> Nat]
  /\ report \in {"none", "ok", "failed"}

(* What was reported done, or was written, is what the mouse has: the rate    *)
(* and the settings of the profile the backend stands on, the light as it is  *)
(* remembered, a macro in its slot with all its chunks (but for the byte the  *)
(* checksum takes).                                                           *)
Survives(bytes) == SelectSeq([i \in DOMAIN bytes |-> <<i, bytes[i]>>], LAMBDA x : (x[1] - 1) % MacroChunk < MacroRoom)
ReportIsTrue ==
  /\ report = "ok" =>
       CASE asked.what = "rate" -> mouse.rate[cache.profile] = cache.rate /\ cache.rate = asked.value
         [] asked.what = "profile" -> mouse.profile = cache.profile /\ cache.profile = asked.value
         [] asked.what = "settings" -> /\ mouse.rate[cache.profile] = cache.rate
                                       /\ mouse.lod[cache.profile] = cache.settings.lod
         [] asked.what = "macro" ->
              FlattenSeq(mouse.macro[asked.value.slot]) =
                [i \in DOMAIN Survives(asked.value.bytes) |-> Survives(asked.value.bytes)[i][2]]
         [] OTHER -> TRUE
  /\ written =>
       CASE asked.what = "led" -> mouse.led = SetLedParam(cache.led)
         [] asked.what = "stages" -> mouse.stages = cache.stages
         [] OTHER -> TRUE
=============================================================================
