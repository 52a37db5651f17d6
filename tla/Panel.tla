------------------------------- MODULE Panel -------------------------------
(* The dock with fifteen keys that the program drives itself (AKP815): a      *)
(* picture is turned and compressed, announced by a header with its size, cut *)
(* into packets and closed by a marker; keys report that they are pressed and *)
(* never that they are released.                                              *)
(* src/devices/streamdeck/src/akp815.cpp, akp815_wire.cpp, image_pipeline.cpp *)
EXTENDS Naturals, Sequences, SequencesExt

CONSTANTS KeyCount,
          Pixels,       \* of a key's display
          PacketSize,   \* bytes of a picture in a packet
          MaxSize,      \* the largest picture a header can announce
          Pictures,     \* [w, h, pixels]: what is to be shown
          Levels,       \* the brightness that is asked for
          Bursts,       \* the frames the dock sends at a time
          MaxCommands

VARIABLES open,     \* the transport has its handle
          panel,    \* the dock: what its keys show, the picture under way, its light
          frames,   \* input reports waiting to be read
          heard,    \* events passed on
          asked,    \* the last command: [what, key, picture]
          written,  \* it was allowed, and its packets were all written
          thrown,   \* its failure was thrown to the caller
          commands

vars == <<open, panel, frames, heard, asked, written, thrown, commands>>

All == 255
Dark == <<>>
Keys == 1..KeyCount
Smaller(x, y) == IF x < y THEN x ELSE y
-----------------------------------------------------------------------------
(* encodeForDevice: the picture fitted to the key (one of another size is of  *)
(* one colour here) and turned upside down; it must have as many pixels as it *)
(* says.                                                                      *)
Valid(img) == img.w # 0 /\ img.h # 0 /\ Len(img.pixels) = img.w * img.h
Fitted(img) == IF Len(img.pixels) = Pixels THEN img.pixels ELSE [i \in 1..Pixels |-> img.pixels[1]]
Turned(pixels, degrees) == IF (((degrees % 360) + 45) \div 90) * 90 = 180 THEN Reverse(pixels) ELSE pixels
Encoded(img) == Turned(Fitted(img), 180)

Stop == [cmd |-> "STP"]
Light(percent) == [cmd |-> "LIG", value |-> Smaller(percent, 100)]
ClearKey(key) == [cmd |-> "CLE", key |-> key]
Header(key, size) == [cmd |-> "BAT", key |-> key, hi |-> (size \div 256) % 256, lo |-> size % 256]
Finished == [cmd |-> "ULEND"]
SendImage(key, bytes) ==
  LET count == (Len(bytes) + PacketSize - 1) \div PacketSize
      packet(i) == SubSeq(bytes, (i - 1) * PacketSize + 1, Smaller(i * PacketSize, Len(bytes)))
  IN  IF Len(bytes) > MaxSize THEN <<>>
      ELSE <<Header(key, Len(bytes))>> \o [i \in 1..count |-> [cmd |-> "data", bytes |-> packet(i)]] \o <<Finished>>

(* The dock: a header starts a picture, packets fill it, the marker shows it. *)
Kept(d, p) ==
  CASE p.cmd = "BAT" -> [d EXCEPT !.key = p.key, !.size = p.hi * 256 + p.lo, !.bytes = <<>>]
    [] p.cmd = "data" -> [d EXCEPT !.bytes = @ \o p.bytes]
    [] p.cmd = "ULEND" /\ Len(d.bytes) = d.size /\ d.key \in Keys -> [d EXCEPT !.shown[d.key] = d.bytes, !.key = 0]
    [] p.cmd = "CLE" -> [d EXCEPT !.shown = [k \in Keys |-> IF p.key \in {k, All} THEN Dark ELSE @[k]]]
    [] p.cmd = "LIG" -> [d EXCEPT !.light = p.value]
    [] OTHER -> d
AllKept(d, packets) == FoldLeft(Kept, d, packets)

Init == /\ open = FALSE /\ frames = <<>> /\ heard = <<>> /\ written = FALSE /\ thrown = FALSE /\ commands = 0
        /\ panel = [shown |-> [k \in Keys |-> Dark], key |-> 0, size |-> 0, bytes |-> <<>>, light |-> 100]
        /\ asked = [what |-> "none", key |-> 0, picture |-> <<>>]
-----------------------------------------------------------------------------
Asked(what, key, picture) == /\ commands < MaxCommands /\ commands' = commands + 1
                             /\ asked' = [what |-> what, key |-> key, picture |-> picture]
(* Packets are written until a write throws: n of them were.                  *)
Write(packets) ==
  \E n \in 0..Len(packets) : /\ ~ open => n = 0
                             /\ panel' = AllKept(panel, SubSeq(packets, 1, n))
                             /\ written' = (n = Len(packets))
Refuse == written' = FALSE /\ thrown' = FALSE /\ UNCHANGED panel

Open == /\ ~ open /\ open' \in BOOLEAN /\ UNCHANGED <<panel, frames, heard, asked, written, thrown, commands>>
(* close() says goodbye as well as it can.                                    *)
Close == /\ open /\ open' = FALSE /\ panel' \in {panel, Kept(panel, Stop)}
         /\ UNCHANGED <<frames, heard, asked, written, thrown, commands>>

(* A picture that cannot be encoded, and a write that fails, are only logged. *)
SetKeyImage(key, img) ==
  /\ Asked("image", key, IF Valid(img) THEN Encoded(img) ELSE <<>>)
  /\ IF key \notin Keys \/ ~ Valid(img) \/ SendImage(key, Encoded(img)) = <<>> THEN Refuse
     ELSE Write(SendImage(key, Encoded(img))) /\ thrown' = FALSE
  /\ UNCHANGED <<open, frames, heard>>
(* A colour has no picture yet: the key is cleared.                           *)
Clear(key) ==
  /\ Asked("clear", key, <<>>)
  /\ IF key \notin Keys \cup {All} THEN Refuse ELSE Write(<<ClearKey(key)>>) /\ thrown' = ~ written'
  /\ UNCHANGED <<open, frames, heard>>
SetBrightness(percent) ==
  /\ Asked("light", percent, <<>>) /\ Write(<<Light(percent)>>) /\ thrown' = ~ written'
  /\ UNCHANGED <<open, frames, heard>>
Flush == /\ Asked("flush", 0, <<>>) /\ Write(<<Stop>>) /\ thrown' = ~ written'
         /\ UNCHANGED <<open, frames, heard>>

Says(burst) == /\ open /\ frames = <<>> /\ heard = <<>> /\ frames' = burst
               /\ UNCHANGED <<open, panel, heard, asked, written, thrown, commands>>
(* parseInputReport: not an acknowledgement, not too short, a key that is.    *)
Parsed(f) == IF f.kind = "input" /\ f.key \in Keys THEN <<f.key>> ELSE <<>>
(* At most eight reports at a time.                                           *)
Poll ==
  /\ open /\ frames # <<>>
  /\ LET now == SubSeq(frames, 1, Smaller(8, Len(frames)))
     IN  /\ frames' = SubSeq(frames, Len(now) + 1, Len(frames))
         /\ heard' = heard \o FlattenSeq([i \in DOMAIN now |-> Parsed(now[i])])
  /\ UNCHANGED <<open, panel, asked, written, thrown, commands>>

Next ==
  \/ Open \/ Close \/ Flush \/ Poll
  \/ \E key \in {0, 1, KeyCount, KeyCount + 1}, img \in Pictures : SetKeyImage(key, img)
  \/ \E key \in {0, 1, KeyCount, All} : Clear(key)
  \/ \E l \in Levels : SetBrightness(l)
  \/ \E burst \in Bursts : Says(burst)
-----------------------------------------------------------------------------
TypeOK == /\ open \in BOOLEAN /\ panel.light \in 0..100 /\ panel.key \in 0..KeyCount
          /\ \A i \in DOMAIN heard : heard[i] \in Keys

(* A picture whose packets were all written is on its key, whatever was left  *)
(* of an interrupted one before it; a cleared key is dark.                    *)
PanelIsTrue ==
  written => CASE asked.what = "image" -> panel.shown[asked.key] = asked.picture
               [] asked.what = "clear" -> \A k \in Keys : asked.key \in {k, All} => panel.shown[k] = Dark
               [] OTHER -> TRUE
=============================================================================
