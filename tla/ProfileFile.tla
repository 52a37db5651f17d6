---------------------------- MODULE ProfileFile ----------------------------
(* How a profile is written to its file (writeProfileToDisk): a temporary     *)
(* sibling of a name of its own is created, written piece by piece, flushed   *)
(* to the disk and renamed over the file, and the directory is flushed after  *)
(* it.  Any of it may fail, and the power may go between any two of them:     *)
(* then of each file some part that is at least what was flushed remains, and *)
(* the directory has the file's old or its new entry.  Writers run side by    *)
(* side.                                                                      *)
EXTENDS Naturals

CONSTANTS Writers, Missing, Pieces, MaxAttempts

VARIABLES at,         \* what each writer is about to do
          tmp,        \* its temporary file, [doc, written, flushed]
          file,       \* the file of that name now
          entries,    \* the files the directory's entry may be after a power loss
          attempt     \* attempts to rename, where the system may refuse one for a while
vars == <<at, tmp, file, entries, attempt>>

NoFile == [doc |-> Missing, written |-> 0, flushed |-> 0]
Init == /\ at = [x \in Writers |-> "idle"] /\ tmp = [x \in Writers |-> NoFile]
        /\ file = NoFile /\ entries = {NoFile} /\ attempt = [x \in Writers |-> 0]

Goto(x, next) == at' = [at EXCEPT ![x] = next]
(* An error removes the temporary file and is passed on.                      *)
Fail(x) == Goto(x, "idle") /\ tmp' = [tmp EXCEPT ![x] = NoFile] /\ UNCHANGED <<file, entries, attempt>>

(* A temporary file left behind by a process of the same number makes the     *)
(* creation fail, and is removed on the way out.                              *)
Create(x) ==
  /\ at[x] = "idle"
  /\ \/ Fail(x)
     \/ /\ tmp[x] = NoFile /\ Goto(x, "writing")
        /\ tmp' = [tmp EXCEPT ![x] = [doc |-> x, written |-> 0, flushed |-> 0]]
        /\ UNCHANGED <<file, entries, attempt>>
Write(x) ==
  /\ at[x] = "writing"
  /\ \/ Fail(x)
     \/ /\ \E n \in (tmp[x].written + 1)..Pieces :
             /\ tmp' = [tmp EXCEPT ![x].written = n]
             /\ Goto(x, IF n = Pieces THEN "flushing" ELSE "writing")
        /\ UNCHANGED <<file, entries, attempt>>
(* Bug: the file is closed without being flushed.                             *)
CloseUnflushed(x) ==
  /\ at[x] = "flushing" /\ Goto(x, "renaming")
  /\ attempt' = [attempt EXCEPT ![x] = 0] /\ UNCHANGED <<tmp, file, entries>>
Flush(x) ==
  /\ at[x] = "flushing"
  /\ \/ Fail(x)
     \/ /\ tmp' = [tmp EXCEPT ![x].flushed = tmp[x].written] /\ Goto(x, "renaming")
        /\ attempt' = [attempt EXCEPT ![x] = 0] /\ UNCHANGED <<file, entries>>
Rename(x) ==
  /\ at[x] = "renaming" /\ Goto(x, "settling")
  /\ file' = tmp[x] /\ entries' = entries \cup {tmp[x]}
  /\ tmp' = [tmp EXCEPT ![x] = NoFile] /\ UNCHANGED attempt
(* Bug: one attempt too many.                                                 *)
RefusedOnceMore(x) ==
  /\ at[x] = "renaming" /\ attempt[x] < MaxAttempts
  /\ attempt' = [attempt EXCEPT ![x] = @ + 1] /\ UNCHANGED <<at, tmp, file, entries>>
(* Refused for a while: tried again, and given up at last or at once.         *)
RenameRefused(x) ==
  /\ at[x] = "renaming"
  /\ \/ Fail(x)
     \/ /\ attempt[x] + 1 < MaxAttempts /\ attempt' = [attempt EXCEPT ![x] = @ + 1]
        /\ UNCHANGED <<at, tmp, file, entries>>
(* The directory is flushed if that can be done; the caller is not told.      *)
FlushDirectory(x) == /\ at[x] = "settling" /\ Goto(x, "idle")
                     /\ entries' \in {entries, {file}} /\ UNCHANGED <<tmp, file, attempt>>

Remains(f) == {[f EXCEPT !.written = n, !.flushed = n] : n \in f.flushed..f.written}
PowerLoss ==
  /\ at' = [x \in Writers |-> "idle"] /\ attempt' = [x \in Writers |-> 0]
  /\ \E e \in entries : file' \in Remains(e)
  /\ entries' = {file'}
  /\ tmp' \in {t \in [Writers -> {NoFile} \cup UNION {Remains(tmp[x]) : x \in Writers}] :
                 \A x \in Writers : t[x] \in Remains(tmp[x]) \cup {NoFile}}

Next == \/ \E x \in Writers : \/ Create(x) \/ Write(x) \/ Flush(x)
                              \/ Rename(x) \/ RenameRefused(x) \/ FlushDirectory(x)
        \/ PowerLoss
Spec == Init /\ [][Next]_vars

(* A file reads as its document, or as no profile at all (validateProfileJson *)
(* refuses it) when a part of it is missing.                                  *)
Read(f) == IF f = NoFile THEN Missing ELSE IF f.written = Pieces THEN f.doc ELSE "torn"

(* With these, the file is an atomic one.                                     *)
Whole == INSTANCE AtomicFile WITH
           Documents <- Writers, content <- Read(file), recoverable <- {Read(e) : e \in entries}
FileIsAtomic == Whole!Spec

TypeOK == /\ at \in [Writers -> {"idle", "writing", "flushing", "renaming", "settling"}]
          /\ attempt \in [Writers -> 0..(MaxAttempts - 1)]
          /\ \A f \in entries \cup {file} \cup {tmp[x] : x \in Writers} : f.flushed <= f.written
=============================================================================
