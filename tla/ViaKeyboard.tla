---------------------------- MODULE ViaKeyboard ----------------------------
(* A keyboard with the public VIA protocol: keycodes and macros are written   *)
(* report by report, keycodes are read back, and what was written lasts when  *)
(* it is saved. Every failure is thrown to the caller.                        *)
(* src/devices/keyboard/src/via_keyboard.cpp                                  *)
EXTENDS Naturals, Sequences, SequencesExt

CONSTANTS Positions,   \* <<layer, row, column>>
          Codes,       \* the keycodes written
          Macros,      \* the macros written: sequences of bytes
          Chunk,       \* bytes of a macro a report claims
          Room,        \* bytes of a macro it has room for
          Percents,
          Version,     \* what the keyboard says of its version
          MaxCommands

VARIABLES board,      \* the keyboard: keys, macro, value of the light, what is saved of the keys, late answers
          told,       \* "ok", "thrown" or what was read
          request,    \* the last command: [what, value]
          commands

vars == <<board, told, request, commands>>

Init == /\ board = [keys |-> [p \in Positions |-> 0], saved |-> [p \in Positions |-> 0], macro |-> <<>>, light |-> 0, late |-> <<>>]
        /\ told = <<"ok", 0>> /\ request = [what |-> "none", value |-> <<>>] /\ commands = 0

Command(what, value) == /\ commands < MaxCommands /\ commands' = commands + 1
                        /\ request' = [what |-> what, value |-> value]
Thrown == told' = <<"thrown", 0>>
Done == told' = <<"ok", 0>>

(* A keycode travels as two bytes.                                            *)
Words == 256 * 256
SetKeycode(pos, code) ==
  /\ Command("set", <<pos, code>>)
  /\ \/ board' = [board EXCEPT !.keys[pos] = code % Words] /\ Done
     \/ Thrown /\ UNCHANGED board
(* The answer that is read is the oldest one there: after a read that gave up *)
(* (and left zero) that is the late answer to an earlier question.            *)
Exchange(answer) ==
  \/ /\ told' = <<"read", Head(board.late \o <<answer>>)>>
     /\ board' = [board EXCEPT !.late = Tail(@ \o <<answer>>)]
  \/ /\ board.late = <<>> /\ told' = <<"read", 0>>
     /\ board' \in {board, [board EXCEPT !.late = <<answer>>]}
  \/ Thrown /\ UNCHANGED board
Keycode(pos) == Command("get", pos) /\ Exchange(board.keys[pos])
SetMacro(bytes) ==
  LET count == (Len(bytes) + Chunk - 1) \div Chunk
      end(i) == IF i * Chunk < Len(bytes) THEN i * Chunk ELSE Len(bytes)
      sent(i) == SubSeq(bytes, (i - 1) * Chunk + 1,
                        IF end(i) < (i - 1) * Chunk + Room THEN end(i) ELSE (i - 1) * Chunk + Room)
  IN  /\ Command("macro", bytes)
      /\ \E n \in 0..count : /\ board' = [board EXCEPT !.macro = [i \in 1..n |-> sent(i)]]
                             /\ IF n = count THEN Done ELSE Thrown
Commit == /\ Command("save", <<>>)
          /\ \/ board' = [board EXCEPT !.saved = board.keys] /\ Done
             \/ Thrown /\ UNCHANGED board
SetRgbBrightness(percent) ==
  /\ Command("light", <<percent>>)
  /\ \/ board' = [board EXCEPT !.light = ((percent * 255) \div 100) % 256] /\ Done
     \/ Thrown /\ UNCHANGED board
SetRgbBuffer == Command("buffer", <<>>) /\ Thrown /\ UNCHANGED board
FirmwareVersion == Command("version", <<>>) /\ Exchange(Version)
(* The keyboard loses its power.                                              *)
PowerCut == /\ board' = [board EXCEPT !.keys = board.saved] /\ request' = [what |-> "none", value |-> <<>>]
            /\ board.keys # board.saved /\ Done /\ UNCHANGED commands

Next == \/ \E pos \in Positions : Keycode(pos) \/ \E code \in Codes : SetKeycode(pos, code)
        \/ \E bytes \in Macros : SetMacro(bytes)
        \/ \E percent \in Percents : SetRgbBrightness(percent)
        \/ Commit \/ SetRgbBuffer \/ FirmwareVersion \/ PowerCut
Spec == Init /\ [][Next]_vars

-----------------------------------------------------------------------------
TypeOK == told[1] \in {"ok", "thrown", "read"} /\ board.light \in 0..255 /\ board.keys \in [Positions -> Nat]

(* What was not thrown is what the keyboard has. (Of each full report of a    *)
(* macro the last byte is lost.)                                              *)
ReportIsTrue ==
  told[1] = "ok" =>
    CASE request.what = "set" -> board.keys[request.value[1]] = request.value[2]
      [] request.what = "save" -> board.saved = board.keys
      [] request.what = "macro" -> \A i \in DOMAIN request.value :
           (i - 1) % Chunk < Room => board.macro[(i - 1) \div Chunk + 1][((i - 1) % Chunk) + 1] = request.value[i]
      [] OTHER -> TRUE
=============================================================================
