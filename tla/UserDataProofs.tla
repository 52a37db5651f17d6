---------------------------- MODULE UserDataProofs ----------------------------
(* Proofs about what the program keeps for its user: that the file of a       *)
(* profile, as it is written, is the atomic file its callers count on, for    *)
(* any writers and any pieces; that memory, files and index agree, for any    *)
(* profiles, devices and applications; that no plugin starts without consent  *)
(* where it needs one, for any directories, packages and catalogue; and that  *)
(* edits reach the file and the canvas, for any keys, folders and actions.    *)
EXTENDS UserData, SequenceTheorems, FiniteSetTheorems, TLAPS

-----------------------------------------------------------------------------
(* Writing a file.  What may be found under the name of the file after a      *)
(* power loss is a file that was flushed whole, or none.                      *)
Whole(f) == f.doc \in Writers /\ f.written = Pieces /\ f.flushed = Pieces

WrittenFile ==
  [doc : Writers \cup {Missing}, written : 0..Pieces, flushed : 0..Pieces]

(* How far each writer has come with its temporary file.                      *)
WriterIsAt(x) ==
  /\ at[x] = "writing" => tmp[x].doc = x /\ tmp[x].flushed = 0
  /\ at[x] = "flushing" => tmp[x].doc = x /\ tmp[x].written = Pieces /\ tmp[x].flushed = 0
  /\ at[x] = "renaming" => tmp[x].doc = x /\ Whole(tmp[x])

FileInv ==
  /\ at \in [Writers -> {"idle", "writing", "flushing", "renaming", "settling"}]
  /\ tmp \in [Writers -> WrittenFile]
  /\ \A x \in Writers : WriterIsAt(x)
  /\ file \in entries
  /\ \A e \in entries : e \in WrittenFile /\ (Whole(e) \/ e = F!NoFile)

(* A document is written in some pieces.                                      *)
SomePieces == Pieces \in Nat \ {0}

LEMMA PiecesAreSome ==
  SomePieces => Pieces \in Nat /\ Pieces # 0 /\ 0 \in 0..Pieces /\ Pieces \in 0..Pieces
BY DEF SomePieces

LEMMA NoFileIsTyped == SomePieces => F!NoFile \in WrittenFile
BY PiecesAreSome DEF F!NoFile, WrittenFile

(* After a power loss nothing is left of a file but what was flushed, and all *)
(* of a whole one.                                                            *)
LEMMA WhatRemains ==
  ASSUME SomePieces, NEW e \in WrittenFile, NEW f \in F!Remains(e)
  PROVE  f \in WrittenFile /\ (Whole(e) \/ e = F!NoFile => f = e)
<1>1. PICK n \in e.flushed..e.written : f = [e EXCEPT !.written = n, !.flushed = n]
  BY DEF F!Remains
<1>2. e.flushed \in 0..Pieces /\ e.written \in 0..Pieces /\ n \in 0..Pieces
  BY <1>1, PiecesAreSome DEF WrittenFile
<1>3. f \in WrittenFile
  BY <1>1, <1>2 DEF WrittenFile
<1>4. CASE Whole(e) \/ e = F!NoFile
  <2>1. e.written = e.flushed
    BY <1>4 DEF Whole, F!NoFile
  <2>2. n = e.written /\ n = e.flushed
    BY <1>1, <1>2, <2>1
  <2> QED
    BY <1>1, <1>3, <2>2 DEF WrittenFile
<1> QED
  BY <1>3, <1>4

LEMMA WholeIsRead == SomePieces => \A f : Whole(f) => F!Read(f) = f.doc
BY PiecesAreSome DEF Whole, F!Read, F!NoFile

LEMMA FileInitInv == SomePieces /\ F!Init => FileInv
BY NoFileIsTyped DEF F!Init, FileInv, WriterIsAt

LEMMA FileStep ==
  ASSUME SomePieces, FileInv, NEW x \in Writers,
         \/ F!Create(x) \/ F!Write(x) \/ F!Flush(x)
         \/ F!Rename(x) \/ F!RenameRefused(x) \/ F!FlushDirectory(x)
  PROVE  FileInv'
<1>1. /\ tmp[x] \in WrittenFile /\ WriterIsAt(x) /\ F!NoFile \in WrittenFile
      /\ at \in [Writers -> {"idle", "writing", "flushing", "renaming", "settling"}]
      /\ tmp \in [Writers -> WrittenFile]
  BY NoFileIsTyped DEF FileInv
(* The other writers are where they were.                                     *)
<1>2. ASSUME NEW t \in WrittenFile, NEW next \in {"idle", "writing", "flushing", "renaming", "settling"},
             at' = [at EXCEPT ![x] = next], tmp' = [tmp EXCEPT ![x] = t], UNCHANGED <<file, entries>>,
             /\ next = "writing" => t.doc = x /\ t.flushed = 0
             /\ next = "flushing" => t.doc = x /\ t.written = Pieces /\ t.flushed = 0
             /\ next = "renaming" => t.doc = x /\ Whole(t)
      PROVE  FileInv'
  <2>1. \A y \in Writers \ {x} : at'[y] = at[y] /\ tmp'[y] = tmp[y]
    BY <1>1, <1>2
  <2>2. \A y \in Writers \ {x} : WriterIsAt(y)'
    BY <2>1 DEF FileInv, WriterIsAt, Whole
  <2>3. at'[x] = next /\ tmp'[x] = t
    BY <1>1, <1>2
  <2>4. WriterIsAt(x)'
    BY <1>2, <2>3 DEF WriterIsAt, Whole
  <2> QED
    BY <1>1, <1>2, <2>2, <2>4 DEF FileInv, Whole, F!NoFile
<1>3. CASE F!Fail(x)
  <2>1. /\ at' = [at EXCEPT ![x] = "idle"] /\ tmp' = [tmp EXCEPT ![x] = F!NoFile]
        /\ UNCHANGED <<file, entries>>
    BY <1>3 DEF F!Fail, F!Goto
  <2> QED
    BY <1>1, <1>2, <2>1
<1>4. CASE F!Create(x) /\ ~F!Fail(x)
  <2> DEFINE t == [doc |-> x, written |-> 0, flushed |-> 0]
  <2>1. at' = [at EXCEPT ![x] = "writing"] /\ tmp' = [tmp EXCEPT ![x] = t] /\ UNCHANGED <<file, entries>>
    BY <1>4 DEF F!Create, F!Goto
  <2>2. t \in WrittenFile /\ t.doc = x /\ t.flushed = 0
    BY PiecesAreSome DEF WrittenFile
  <2> HIDE DEF t
  <2> QED
    BY <1>2, <2>1, <2>2
<1>5. CASE F!Write(x) /\ ~F!Fail(x)
  <2>1. PICK n \in (tmp[x].written + 1)..Pieces :
               /\ tmp' = [tmp EXCEPT ![x].written = n] /\ UNCHANGED <<file, entries>>
               /\ at' = [at EXCEPT ![x] = IF n = Pieces THEN "flushing" ELSE "writing"]
    BY <1>5 DEF F!Write, F!Goto
  <2> DEFINE t == [tmp[x] EXCEPT !.written = n]
  <2>2. t \in WrittenFile /\ t.doc = x /\ t.flushed = 0 /\ t.written = n
    BY <1>1, <1>5, PiecesAreSome DEF WrittenFile, F!Write, WriterIsAt
  <2>3. tmp' = [tmp EXCEPT ![x] = t]
    BY <1>1, <2>1
  <2> HIDE DEF t
  <2> QED
    BY <1>2, <2>1, <2>2, <2>3
<1>6. CASE F!Flush(x) /\ ~F!Fail(x)
  <2> DEFINE t == [tmp[x] EXCEPT !.flushed = tmp[x].written]
  <2>1. /\ at[x] = "flushing" /\ tmp' = [tmp EXCEPT ![x] = t] /\ at' = [at EXCEPT ![x] = "renaming"]
        /\ UNCHANGED <<file, entries>>
    BY <1>1, <1>6 DEF F!Flush, F!Goto
  <2>2. t \in WrittenFile /\ t.doc = x /\ Whole(t)
    BY <1>1, <2>1, PiecesAreSome DEF WrittenFile, WriterIsAt, Whole
  <2> HIDE DEF t
  <2> QED
    BY <1>2, <2>1, <2>2
<1>7. CASE F!Rename(x)
  <2>1. /\ at[x] = "renaming" /\ file' = tmp[x] /\ entries' = entries \cup {tmp[x]}
        /\ at' = [at EXCEPT ![x] = "settling"] /\ tmp' = [tmp EXCEPT ![x] = F!NoFile]
    BY <1>7 DEF F!Rename, F!Goto
  <2>2. Whole(tmp[x])
    BY <1>1, <2>1 DEF WriterIsAt
  <2>3. \A y \in Writers : WriterIsAt(y)'
    BY <1>1, <2>1 DEF FileInv, WriterIsAt, Whole
  <2>4. file' \in entries' /\ \A e \in entries' : e \in WrittenFile /\ (Whole(e) \/ e = F!NoFile)
    BY <1>1, <2>1, <2>2 DEF FileInv
  <2> QED
    BY <1>1, <2>1, <2>3, <2>4 DEF FileInv, Whole, F!NoFile
<1>8. CASE F!RenameRefused(x) /\ ~F!Fail(x)
  BY <1>8 DEF F!RenameRefused, FileInv, WriterIsAt, Whole, F!NoFile
<1>9. CASE F!FlushDirectory(x)
  <2>1. /\ at' = [at EXCEPT ![x] = "idle"] /\ tmp' = tmp /\ file' = file
        /\ entries' \in {entries, {file}}
    BY <1>9 DEF F!FlushDirectory, F!Goto
  <2>2. \A y \in Writers : WriterIsAt(y)'
    BY <1>1, <2>1 DEF FileInv, WriterIsAt, Whole
  <2>3. file' \in entries' /\ entries' \subseteq entries
    BY <2>1 DEF FileInv
  <2> QED
    BY <1>1, <2>1, <2>2, <2>3 DEF FileInv, Whole, F!NoFile
<1> QED
  BY <1>3, <1>4, <1>5, <1>6, <1>7, <1>8, <1>9
  DEF F!Create, F!Write, F!Flush, F!RenameRefused

LEMMA FilePowerLoss ==
  ASSUME SomePieces, FileInv, F!PowerLoss
  PROVE  FileInv' /\ file' \in entries /\ entries' = {file'}
<1>1. PICK e \in entries : file' \in F!Remains(e)
  BY DEF F!PowerLoss
<1>2. /\ at' = [x \in Writers |-> "idle"] /\ entries' = {file'}
      /\ tmp' = [x \in Writers |-> tmp'[x]]
  BY DEF F!PowerLoss
<1>3. file' = e /\ e \in WrittenFile /\ (Whole(e) \/ e = F!NoFile)
  BY <1>1, WhatRemains DEF FileInv
<1>4. ASSUME NEW x \in Writers PROVE tmp'[x] \in WrittenFile
  <2>1. tmp'[x] \in F!Remains(tmp[x]) \cup {F!NoFile} /\ tmp[x] \in WrittenFile
    BY DEF F!PowerLoss, FileInv
  <2> QED
    BY <2>1, WhatRemains, NoFileIsTyped
<1>5. tmp' \in [Writers -> WrittenFile]
  BY <1>2, <1>4
<1>6. \A x \in Writers : WriterIsAt(x)'
  BY <1>2 DEF WriterIsAt
<1>7. FileInv'
  BY <1>2, <1>3, <1>5, <1>6 DEF FileInv, Whole, F!NoFile
<1> QED
  BY <1>1, <1>2, <1>3, <1>7

(* Every step of a writer is a step of the atomic file, or none of it.        *)
LEMMA FileRefines ==
  ASSUME SomePieces, FileInv, [F!Next]_<<at, tmp, file, entries, attempt>>
  PROVE  [F!Whole!Next]_<<F!Read(file), {F!Read(e) : e \in entries}>>
<1>1. CASE UNCHANGED <<file, entries>>
  BY <1>1 DEF F!Read, F!NoFile
<1>2. ASSUME NEW x \in Writers, F!Rename(x) PROVE F!Whole!Replace(x)
  <2>1. file' = tmp[x] /\ entries' = entries \cup {tmp[x]} /\ Whole(tmp[x]) /\ tmp[x].doc = x
    BY <1>2 DEF F!Rename, FileInv, WriterIsAt
  <2>2. F!Read(tmp[x]) = x
    BY <2>1, WholeIsRead
  <2>3. F!Read(file)' = x
    BY <2>1, <2>2 DEF F!Read, F!NoFile
  <2>4. {F!Read(e) : e \in entries}' = {F!Read(e) : e \in entries} \cup {x}
    BY <2>1, <2>2 DEF F!Read, F!NoFile
  <2> QED
    BY <2>3, <2>4 DEF F!Whole!Replace
<1>3. ASSUME NEW x \in Writers, F!FlushDirectory(x), entries' # entries PROVE F!Whole!MakeDurable
  <2>1. entries' = {file} /\ file' = file
    BY <1>3 DEF F!FlushDirectory
  <2>2. {F!Read(e) : e \in entries}' = {F!Read(file)} /\ F!Read(file)' = F!Read(file)
    BY <2>1 DEF F!Read, F!NoFile
  <2> QED
    BY <2>2 DEF F!Whole!MakeDurable
<1>4. CASE F!PowerLoss
  <2>1. file' \in entries /\ entries' = {file'}
    BY <1>4, FilePowerLoss
  <2>2. F!Read(file)' \in {F!Read(e) : e \in entries}
    BY <2>1 DEF F!Read, F!NoFile
  <2>3. {F!Read(e) : e \in entries}' = {F!Read(file)'}
    BY <2>1 DEF F!Read, F!NoFile
  <2>4. F!Whole!PowerLoss
    BY <2>2, <2>3 DEF F!Whole!PowerLoss
  <2> QED
    BY <2>4 DEF F!Whole!Next
<1>5. ASSUME NEW x \in Writers, F!Create(x) \/ F!Write(x) \/ F!Flush(x) \/ F!RenameRefused(x)
      PROVE  UNCHANGED <<file, entries>>
  BY <1>5 DEF F!Create, F!Write, F!Flush, F!RenameRefused, F!Fail
<1>6. ASSUME NEW x \in Writers, F!FlushDirectory(x), entries' = entries PROVE UNCHANGED <<file, entries>>
  BY <1>6 DEF F!FlushDirectory
<1> QED
  BY <1>1, <1>2, <1>3, <1>4, <1>5, <1>6 DEF F!Next, F!Whole!Next

(* The file of a profile, written in pieces, flushed and renamed by writers   *)
(* side by side, any of which fails or loses the power anywhere, is one that  *)
(* holds a whole document at any time (writeProfileToDisk).                   *)
THEOREM FileStaysAtomic == ASSUME SomePieces PROVE F!Spec => FileIsAtomic
<1>1. F!Init => F!Whole!Init
  BY DEF F!Init, F!Whole!Init, F!Read
<1>2. FileInv /\ [F!Next]_<<at, tmp, file, entries, attempt>> => FileInv'
  <2> SUFFICES ASSUME FileInv, [F!Next]_<<at, tmp, file, entries, attempt>> PROVE FileInv'
    OBVIOUS
  <2>1. CASE UNCHANGED <<at, tmp, file, entries, attempt>>
    BY <2>1 DEF FileInv, WriterIsAt, Whole, F!NoFile
  <2> QED
    BY <2>1, FileStep, FilePowerLoss DEF F!Next
<1>3. FileInv /\ [F!Next]_<<at, tmp, file, entries, attempt>>
        => [F!Whole!Next]_<<F!Read(file), {F!Read(e) : e \in entries}>>
  BY FileRefines
<1> QED
  BY <1>1, <1>2, <1>3, FileInitInv, PTL DEF F!Spec, F!vars, FileIsAtomic, F!FileIsAtomic, F!Whole!Spec

(* The types of a file that is being written: no more of it is flushed than   *)
(* was written, and no writer renames more often than it may.                 *)
SomeAttempts == MaxAttempts \in Nat \ {0}

FileCounts ==
  /\ attempt \in [Writers -> 0..(MaxAttempts - 1)]
  /\ \A x \in Writers : tmp[x].flushed <= tmp[x].written

LEMMA CountsStep ==
  ASSUME SomePieces, SomeAttempts, FileInv, FileCounts, [F!Next]_(F!vars)
  PROVE  FileCounts'
<1>1. /\ tmp \in [Writers -> WrittenFile] /\ attempt \in [Writers -> 0..(MaxAttempts - 1)]
      /\ \A x \in Writers : tmp[x].flushed <= tmp[x].written
      /\ 0 \in 0..(MaxAttempts - 1)
  BY DEF FileInv, FileCounts, SomeAttempts
(* One temporary file changes, or none.                                       *)
<1>2. ASSUME NEW x \in Writers, NEW t, tmp' = [tmp EXCEPT ![x] = t], t.flushed <= t.written,
             attempt' = attempt \/ attempt' = [attempt EXCEPT ![x] = 0]
      PROVE  FileCounts'
  <2>1. \A y \in Writers : tmp'[y] = IF y = x THEN t ELSE tmp[y]
    BY <1>1, <1>2
  <2>2. attempt' \in [Writers -> 0..(MaxAttempts - 1)]
    BY <1>1, <1>2
  <2> QED
    BY <1>1, <1>2, <2>1, <2>2 DEF FileCounts
<1>3. ASSUME NEW x \in Writers, F!Fail(x) PROVE FileCounts'
  <2>1. tmp' = [tmp EXCEPT ![x] = F!NoFile] /\ attempt' = attempt
    BY <1>3 DEF F!Fail
  <2>2. F!NoFile.flushed <= F!NoFile.written
    BY DEF F!NoFile
  <2> QED
    BY <1>2, <2>1, <2>2
<1>4. ASSUME NEW x \in Writers, F!Create(x), ~F!Fail(x) PROVE FileCounts'
  <2> DEFINE t == [doc |-> x, written |-> 0, flushed |-> 0]
  <2>1. tmp' = [tmp EXCEPT ![x] = t] /\ attempt' = attempt /\ t.flushed <= t.written
    BY <1>4 DEF F!Create
  <2> HIDE DEF t
  <2> QED
    BY <1>2, <2>1
<1>5. ASSUME NEW x \in Writers, F!Write(x), ~F!Fail(x) PROVE FileCounts'
  <2>1. PICK n \in (tmp[x].written + 1)..Pieces :
               tmp' = [tmp EXCEPT ![x].written = n] /\ attempt' = attempt
    BY <1>5 DEF F!Write
  <2> DEFINE t == [tmp[x] EXCEPT !.written = n]
  <2>2. tmp[x] \in WrittenFile /\ tmp' = [tmp EXCEPT ![x] = t]
    BY <1>1, <2>1
  <2>3. t.flushed = tmp[x].flushed /\ t.written = n /\ tmp[x].flushed \in Int /\ tmp[x].written \in Int
    BY <2>2, PiecesAreSome DEF WrittenFile
  <2>4. t.flushed <= t.written
    BY <1>1, <2>1, <2>3, PiecesAreSome
  <2> HIDE DEF t
  <2> QED
    BY <1>2, <2>1, <2>2, <2>4
<1>6. ASSUME NEW x \in Writers, F!Flush(x), ~F!Fail(x) PROVE FileCounts'
  <2> DEFINE t == [tmp[x] EXCEPT !.flushed = tmp[x].written]
  <2>1. tmp[x] \in WrittenFile /\ tmp' = [tmp EXCEPT ![x] = t] /\ attempt' = [attempt EXCEPT ![x] = 0]
    BY <1>1, <1>6 DEF F!Flush
  <2>2. t.flushed = tmp[x].written /\ t.written = tmp[x].written /\ tmp[x].written \in Int
    BY <2>1, PiecesAreSome DEF WrittenFile
  <2>3. t.flushed <= t.written
    BY <2>2
  <2> HIDE DEF t
  <2> QED
    BY <1>2, <2>1, <2>3
<1>7. ASSUME NEW x \in Writers, F!Rename(x) PROVE FileCounts'
  <2>1. tmp' = [tmp EXCEPT ![x] = F!NoFile] /\ attempt' = attempt /\ F!NoFile.flushed <= F!NoFile.written
    BY <1>7 DEF F!Rename, F!NoFile
  <2> QED
    BY <1>2, <2>1
<1>8. ASSUME NEW x \in Writers, F!RenameRefused(x), ~F!Fail(x) PROVE FileCounts'
  <2>1. tmp' = tmp /\ attempt[x] + 1 < MaxAttempts /\ attempt' = [attempt EXCEPT ![x] = attempt[x] + 1]
    BY <1>1, <1>8 DEF F!RenameRefused
  <2>2. attempt[x] + 1 \in 0..(MaxAttempts - 1)
    BY <1>1, <2>1 DEF SomeAttempts
  <2>3. attempt' \in [Writers -> 0..(MaxAttempts - 1)]
    BY <1>1, <2>1, <2>2
  <2> QED
    BY <1>1, <2>1, <2>3 DEF FileCounts
<1>9. CASE F!PowerLoss
  <2>1. attempt' = [x \in Writers |-> 0]
    BY <1>9 DEF F!PowerLoss
  <2>2. ASSUME NEW x \in Writers PROVE tmp'[x].flushed <= tmp'[x].written
    <3>1. tmp'[x] \in F!Remains(tmp[x]) \cup {F!NoFile} /\ tmp[x] \in WrittenFile
      BY <1>1, <1>9 DEF F!PowerLoss
    <3>2. CASE tmp'[x] = F!NoFile
      BY <3>2 DEF F!NoFile
    <3>3. CASE tmp'[x] \in F!Remains(tmp[x])
      <4>1. PICK n \in tmp[x].flushed..tmp[x].written : tmp'[x] = [tmp[x] EXCEPT !.written = n, !.flushed = n]
        BY <3>3 DEF F!Remains
      <4>2. tmp'[x].flushed = n /\ tmp'[x].written = n /\ n \in Int
        BY <3>1, <4>1, PiecesAreSome DEF WrittenFile
      <4> QED
        BY <4>2
    <3> QED
      BY <3>1, <3>2, <3>3
  <2> QED
    BY <1>1, <2>1, <2>2 DEF FileCounts
<1>10. ASSUME NEW x \in Writers, F!FlushDirectory(x) PROVE FileCounts'
  BY <1>1, <1>10 DEF F!FlushDirectory, FileCounts
<1>11. CASE UNCHANGED F!vars
  BY <1>1, <1>11 DEF F!vars, FileCounts
<1> QED
  BY <1>3, <1>4, <1>5, <1>6, <1>7, <1>8, <1>9, <1>10, <1>11 DEF F!Next

LEMMA FileAlways ==
  ASSUME SomePieces, SomeAttempts PROVE F!Spec => [](FileInv /\ FileCounts)
<1>1. F!Init => FileInv /\ FileCounts
  BY FileInitInv DEF F!Init, FileCounts, F!NoFile, SomeAttempts
<1>2. FileInv /\ [F!Next]_(F!vars) => FileInv'
  BY FileStep, FilePowerLoss DEF FileInv, WriterIsAt, Whole, F!NoFile, F!vars, F!Next
<1>3. FileInv /\ FileCounts /\ [F!Next]_(F!vars) => FileInv' /\ FileCounts'
  BY <1>2, CountsStep
<1> QED
  BY <1>1, <1>3, PTL DEF F!Spec

LEMMA FileTyped == SomePieces /\ FileInv /\ FileCounts => F!TypeOK
<1> SUFFICES ASSUME SomePieces, FileInv, FileCounts PROVE F!TypeOK
  OBVIOUS
<1>1. ASSUME NEW e \in entries PROVE e.flushed <= e.written
  BY PiecesAreSome DEF FileInv, Whole, F!NoFile
<1> QED
  BY <1>1 DEF FileInv, FileCounts, F!TypeOK

-----------------------------------------------------------------------------
(* The library.  Each command is made of few operations on the world, and     *)
(* each of these keeps what the next one needs.                               *)
World == [disk : [Ids -> Profiles \cup {None}], library : [Ids -> Entries \cup {None}],
          mem : Profiles, unsaved : BOOLEAN, fails : Nat]

(* No profile has the id that names the file of the unnamed one, which has no *)
(* device.                                                                    *)
DocumentOK(p) == p.id # Default /\ (p.id = Unnamed => p.device = NoDevice)

(* The files are named by the ids of their profiles, and that of the profile  *)
(* in memory is of the same device.                                           *)
FilesHold(v) ==
  /\ v \in World /\ DocumentOK(v.mem)
  /\ \A i \in Files(v.disk) : DocumentOK(v.disk[i]) /\ FileOf(v.disk[i].id) = i
  /\ v.mem.id # Unnamed /\ v.disk[v.mem.id] # None => v.disk[v.mem.id].device = v.mem.device
  /\ v.unsaved => v.fails # 0

MemoryHolds(v) == v.mem.id # Unnamed /\ ~v.unsaved => v.disk[v.mem.id] = v.mem

IndexHolds(v) ==
  /\ \A i \in Files(v.library) : v.disk[i] # None /\ v.disk[i].device = v.library[i].device
  /\ v.fails = 0 => \A i \in Ids \ {Default} : v.library[i] = Index(v.disk)[i]

Holds(v) == FilesHold(v) /\ MemoryHolds(v) /\ IndexHolds(v)

LEMMA NamesDiffer ==
  /\ Default \in Ids /\ Unnamed \notin Ids /\ 1 \in Names
  /\ None \notin Profiles /\ None \notin Entries
  /\ \A i \in Ids \cup {Unnamed} : FileOf(i) \in Ids
BY NameAssumption DEF FileOf

LEMMA IndexTyped ==
  ASSUME NEW files \in [Ids -> Profiles \cup {None}]
  PROVE  /\ Index(files) \in [Ids -> Entries \cup {None}]
         /\ \A i \in Ids : Index(files)[i] # None <=> files[i] # None
         /\ \A i \in Ids : files[i] # None => Index(files)[i].device = files[i].device
<1>1. ASSUME NEW i \in Ids, files[i] # None
      PROVE  [name |-> NameOf(i, files[i]), device |-> files[i].device] \in Entries
  <2>1. files[i] \in Profiles
    BY <1>1
  <2> QED
    BY <2>1 DEF Profiles, Entries, NameOf
<1> QED
  BY <1>1, NamesDiffer DEF Index

(* A rescan makes the index true.                                             *)
LEMMA RescanHolds ==
  ASSUME NEW v, FilesHold(v)
  PROVE  /\ FilesHold(Rescanned(v)) /\ IndexHolds(Rescanned(v))
         /\ MemoryHolds(v) => MemoryHolds(Rescanned(v))
         /\ Rescanned(v).disk = v.disk /\ Rescanned(v).mem = v.mem
<1>1. v \in World /\ v.disk \in [Ids -> Profiles \cup {None}]
  BY DEF FilesHold, World
<1> DEFINE r == Rescanned(v)
<1>2. /\ r.disk = v.disk /\ r.mem = v.mem /\ r.unsaved = v.unsaved /\ r.fails = v.fails
      /\ r.library = Index(v.disk) /\ r \in World
  BY <1>1, IndexTyped DEF Rescanned, World
<1> HIDE DEF r
<1>3. FilesHold(r) /\ (MemoryHolds(v) => MemoryHolds(r))
  BY <1>2 DEF FilesHold, MemoryHolds
<1>4. IndexHolds(r)
  BY <1>1, <1>2, IndexTyped DEF IndexHolds, Files
<1> QED
  BY <1>2, <1>3, <1>4 DEF r

(* A save brings memory and file together, or marks the profile unsaved.      *)
LEMMA SaveHolds ==
  ASSUME NEW v, FilesHold(v), NEW ok \in BOOLEAN
  PROVE  /\ FilesHold(Save(v, ok)) /\ MemoryHolds(Save(v, ok))
         /\ Save(v, ok).mem = v.mem /\ Save(v, ok).library = v.library
         /\ Save(v, ok).disk = IF ok THEN [v.disk EXCEPT ![FileOf(v.mem.id)] = v.mem] ELSE v.disk
         /\ Save(v, ok).fails = IF ok THEN v.fails ELSE v.fails + 1
<1>1. /\ v \in World /\ v.disk \in [Ids -> Profiles \cup {None}] /\ v.mem \in Profiles
      /\ v.fails \in Nat /\ v.mem.id \in Ids \cup {Unnamed} /\ FileOf(v.mem.id) \in Ids
  BY NamesDiffer DEF FilesHold, World, Profiles
<1> DEFINE s == Save(v, ok)
<1>2. /\ s.mem = v.mem /\ s.library = v.library
      /\ s.disk = IF ok THEN [v.disk EXCEPT ![FileOf(v.mem.id)] = v.mem] ELSE v.disk
      /\ s.unsaved = ~ok /\ s.fails = IF ok THEN v.fails ELSE v.fails + 1
  BY <1>1 DEF Save, World
<1>3. s \in World
  <2>1. CASE ok
    <3>1. s = [v EXCEPT !.disk[FileOf(v.mem.id)] = v.mem, !.unsaved = FALSE]
      BY <2>1 DEF Save
    <3> DEFINE files == [v.disk EXCEPT ![FileOf(v.mem.id)] = v.mem]
    <3>2. files \in [Ids -> Profiles \cup {None}]
      BY <1>1 DEF World
    <3>3. s = [v EXCEPT !.disk = files, !.unsaved = FALSE]
      BY <3>1
    <3> HIDE DEF s, files
    <3> QED
      BY <1>1, <3>2, <3>3 DEF World
  <2>2. CASE ~ok
    <3>1. s = [v EXCEPT !.unsaved = TRUE, !.fails = v.fails + 1] /\ v.fails + 1 \in Nat
      BY <1>1, <2>2 DEF Save
    <3> HIDE DEF s
    <3> QED
      BY <1>1, <3>1 DEF World
  <2> QED
    BY <2>1, <2>2
<1> HIDE DEF s
<1>4. \A i \in Files(s.disk) : DocumentOK(s.disk[i]) /\ FileOf(s.disk[i].id) = i
  BY <1>1, <1>2 DEF FilesHold, Files
<1>5. s.mem.id # Unnamed => FileOf(s.mem.id) = s.mem.id
  BY DEF FileOf
<1>6. FilesHold(s)
  <2>1. s.mem.id # Unnamed /\ s.disk[s.mem.id] # None => s.disk[s.mem.id].device = s.mem.device
    BY <1>1, <1>2, <1>5 DEF FilesHold
  <2>2. s.unsaved => s.fails # 0
    <3>1. ~ok => s.fails = v.fails + 1 /\ v.fails + 1 # 0
      BY <1>1, <1>2
    <3>2. s.unsaved => ~ok
      BY <1>2, Zenon
    <3> QED
      BY <3>1, <3>2
  <2>3. DocumentOK(s.mem)
    BY <1>2 DEF FilesHold
  <2> QED
    BY <1>3, <1>4, <2>1, <2>2, <2>3 DEF FilesHold
<1>7. MemoryHolds(s)
  BY <1>1, <1>2, <1>5 DEF MemoryHolds
<1> QED
  BY <1>2, <1>6, <1>7 DEF s

LEMMA LoadHolds ==
  ASSUME NEW v, Holds(v), NEW i \in Ids
  PROVE  /\ Holds(Load(v, i))
         /\ Load(v, i).mem = IF v.disk[i] = None THEN v.mem ELSE v.disk[i]
<1>1. v \in World /\ v.disk[i] \in Profiles \cup {None}
  BY DEF Holds, FilesHold, World
<1>2. CASE v.disk[i] = None
  BY <1>2 DEF Load
<1>3. CASE v.disk[i] # None
  <2> DEFINE l == Load(v, i)
  <2>1. /\ l.mem = v.disk[i] /\ l.unsaved = FALSE /\ l.disk = v.disk /\ l.library = v.library
        /\ l.fails = v.fails /\ l \in World
    BY <1>1, <1>3 DEF Load, World
  <2>2. DocumentOK(v.disk[i]) /\ FileOf(v.disk[i].id) = i
    BY <1>3 DEF Holds, FilesHold, Files
  <2> HIDE DEF l
  <2>3. l.mem.id # Unnamed => l.disk[l.mem.id] = l.mem
    BY <2>1, <2>2 DEF FileOf
  <2>4. FilesHold(l) /\ MemoryHolds(l) /\ IndexHolds(l)
    BY <2>1, <2>2, <2>3 DEF Holds, FilesHold, MemoryHolds, IndexHolds
  <2> QED
    BY <1>3, <2>1, <2>4 DEF Holds, l
<1> QED
  BY <1>2, <1>3

LEMMA SwitchHolds ==
  ASSUME NEW v, Holds(v), NEW i \in Ids
  PROVE  /\ Holds(Switched(v, i))
         /\ Switched(v, i).mem \in {v.mem, v.disk[i]}
<1>1. Holds(Rescanned(v)) /\ Rescanned(v).disk = v.disk /\ Rescanned(v).mem = v.mem
  BY RescanHolds DEF Holds
<1>2. Holds(Load(v, i)) /\ Load(v, i).mem \in {v.mem, v.disk[i]}
  BY LoadHolds
<1>3. Holds(Load(Rescanned(v), i)) /\ Load(Rescanned(v), i).mem \in {v.mem, v.disk[i]}
  BY <1>1, LoadHolds
<1> QED
  BY <1>2, <1>3 DEF Switched

(* Another profile comes into memory, one that has no file yet.               *)
LEMMA AdoptHolds ==
  ASSUME NEW v, FilesHold(v), NEW p \in Profiles, DocumentOK(p), p.id # Unnamed, v.disk[p.id] = None,
         NEW ok \in BOOLEAN
  PROVE  Holds(Adopt(v, p, ok))
<1> DEFINE u == [v EXCEPT !.mem = p]
<1>1. /\ u.mem = p /\ u.disk = v.disk /\ u.unsaved = v.unsaved /\ u.fails = v.fails /\ u \in World
  BY DEF FilesHold, World
<1>2. Adopt(v, p, ok) = Rescanned(Save(u, ok))
  BY DEF Adopt
<1> HIDE DEF u
<1>3. FilesHold(u)
  BY <1>1 DEF FilesHold
<1>4. FilesHold(Save(u, ok)) /\ MemoryHolds(Save(u, ok))
  BY <1>3, SaveHolds
<1> QED
  BY <1>2, <1>4, RescanHolds DEF Holds

(* A profile is changed, neither in its id nor in its device: the one in      *)
(* memory, or another in its file.                                            *)
LEMMA MemoryAmended ==
  ASSUME NEW v, FilesHold(v), NEW q \in Profiles, q.id = v.mem.id, q.device = v.mem.device,
         NEW ok \in BOOLEAN
  PROVE  Holds(Rescanned(Save([v EXCEPT !.mem = q], ok)))
<1> DEFINE u == [v EXCEPT !.mem = q]
<1>1. u.mem = q /\ u.disk = v.disk /\ u.unsaved = v.unsaved /\ u.fails = v.fails /\ u \in World
  BY DEF FilesHold, World
<1> HIDE DEF u
<1>2. FilesHold(u)
  BY <1>1 DEF FilesHold, DocumentOK
<1>3. Holds(Rescanned(Save(u, ok)))
  BY <1>2, SaveHolds, RescanHolds DEF Holds
<1> QED
  BY <1>3 DEF u

LEMMA FileAmended ==
  ASSUME NEW v, FilesHold(v), MemoryHolds(v), NEW i \in Ids, v.disk[i] # None, i # v.mem.id,
         NEW q \in Profiles, q.id = v.disk[i].id, q.device = v.disk[i].device
  PROVE  Holds(Rescanned([v EXCEPT !.disk[i] = q]))
<1> DEFINE u == [v EXCEPT !.disk[i] = q]
<1>1. /\ u.mem = v.mem /\ u.disk = [v.disk EXCEPT ![i] = q] /\ u.unsaved = v.unsaved
      /\ u.fails = v.fails /\ u \in World /\ v.disk \in [Ids -> Profiles \cup {None}]
  BY DEF FilesHold, World
<1> HIDE DEF u
<1>2. FilesHold(u)
  BY <1>1, NamesDiffer DEF FilesHold, DocumentOK, Files
<1>3. MemoryHolds(u)
  BY <1>1 DEF MemoryHolds
<1>4. Holds(Rescanned(u))
  BY <1>2, <1>3, RescanHolds DEF Holds
<1> QED
  BY <1>4 DEF u

-----------------------------------------------------------------------------
(* The commands.                                                              *)
Around ==
  /\ back \in [Plugins -> Ids \cup {Unnamed}] /\ {pending, last} \subseteq Apps \cup {None}

LibraryInv == Holds(w) /\ Around

LEMMA FreshIsNew ==
  ASSUME NEW v, NEW i \in Fresh(v)
  PROVE  i \in Ids /\ i # Default /\ i # Unnamed /\ v.disk[i] = None
BY NamesDiffer DEF Fresh, Held, Files

LEMMA NewIsOne ==
  ASSUME NEW i \in Ids, i # Default, NEW n \in Names, NEW d \in Devices \cup {NoDevice}
  PROVE  New(i, n, d) \in Profiles /\ DocumentOK(New(i, n, d)) /\ New(i, n, d).id = i
BY NamesDiffer DEF New, Profiles, DocumentOK

LEMMA OksAreTruths == \A v : Oks(v) \subseteq BOOLEAN
BY DEF Oks

LEMMA AdoptNewHolds ==
  ASSUME NEW v, FilesHold(v), NEW u, u.disk = v.disk, NEW i \in Fresh(u), NEW n \in Names,
         NEW d \in Devices \cup {NoDevice}, NEW ok \in BOOLEAN
  PROVE  Holds(Adopt(v, New(i, n, d), ok))
<1>1. i \in Ids /\ i # Default /\ i # Unnamed /\ v.disk[i] = None
  BY FreshIsNew
<1>2. New(i, n, d) \in Profiles /\ DocumentOK(New(i, n, d)) /\ New(i, n, d).id = i
  BY <1>1, NewIsOne
<1> QED
  BY <1>1, <1>2, AdoptHolds

LEMMA ActivateHolds ==
  ASSUME NEW v, FilesHold(v), MemoryHolds(v), NEW d \in Devices \cup {NoDevice},
         NEW i \in Candidates(v, d), NEW ok \in BOOLEAN
  PROVE  Holds(Activated(v, d, i, ok))
<1> DEFINE r == Rescanned(v)
<1>1. Holds(r) /\ r.disk = v.disk
  BY RescanHolds DEF Holds
<1>2. Candidates(v, d) = IF Listed(r, d) # {} THEN Firsts(r, Listed(r, d)) ELSE Fresh(v)
  BY DEF Candidates
<1>3. Activated(v, d, i, ok) = IF r.mem.id # Unnamed /\ r.mem.device = d THEN r
                               ELSE IF Listed(r, d) # {} THEN Switched(r, i)
                               ELSE Adopt(r, New(i, 1, d), ok)
  BY DEF Activated
<1> HIDE DEF r
<1>4. CASE Listed(r, d) # {}
  <2>1. i \in Ids
    BY <1>2, <1>4 DEF Firsts, Listed, Files
  <2> QED
    BY <1>1, <1>3, <1>4, <2>1, SwitchHolds
<1>5. CASE Listed(r, d) = {}
  <2>1. i \in Fresh(v)
    BY <1>2, <1>5
  <2>2. Holds(Adopt(r, New(i, 1, d), ok))
    BY <1>1, <2>1, AdoptNewHolds, NamesDiffer DEF Holds
  <2> QED
    BY <1>1, <1>3, <1>5, <2>2
<1> QED
  BY <1>4, <1>5

LEMMA DeletedHolds ==
  ASSUME NEW v, FilesHold(v), NEW i \in Ids
  PROVE  /\ FilesHold(Deleted(v, i)) /\ Deleted(v, i).mem = v.mem
         /\ MemoryHolds(v) /\ i # v.mem.id => Holds(Deleted(v, i))
<1> DEFINE u == [v EXCEPT !.disk[i] = None]
<1>1. /\ u.mem = v.mem /\ u.disk = [v.disk EXCEPT ![i] = None] /\ u.unsaved = v.unsaved
      /\ u.fails = v.fails /\ u \in World /\ v.disk \in [Ids -> Profiles \cup {None}]
      /\ v.mem.id \in Ids \cup {Unnamed}
  BY DEF FilesHold, World, Profiles
<1>2. Deleted(v, i) = Rescanned(u)
  BY DEF Deleted
<1> HIDE DEF u
<1>3. FilesHold(u)
  BY <1>1 DEF FilesHold, Files
<1>4. i # v.mem.id /\ MemoryHolds(v) => MemoryHolds(u)
  BY <1>1 DEF MemoryHolds
<1> QED
  BY <1>1, <1>2, <1>3, <1>4, RescanHolds DEF Holds

(* The user's commands.                                                       *)
LEMMA CreateSteps ==
  ASSUME Holds(w), NEW n \in Names, NEW d \in Devices, Create(n, d) \/ Import(n, d, {})
  PROVE  Holds(w')
<1>1. PICK i \in Fresh(w), ok \in Oks(w) :
        w' = Adopt(w, New(i, n, d), ok) \/ w' = Adopt(w, [New(i, n, d) EXCEPT !.hints = {}], ok)
  BY DEF Create, Import
<1>2. [New(i, n, d) EXCEPT !.hints = {}] = New(i, n, d)
  BY DEF New
<1>3. Holds(Adopt(w, New(i, n, d), ok))
  BY AdoptNewHolds, OksAreTruths DEF Holds
<1> QED
  BY <1>1, <1>2, <1>3

LEMMA DuplicateSteps ==
  ASSUME Holds(w), NEW n \in Names, Duplicate(n)
  PROVE  Holds(w')
<1>1. PICK p \in Profiles : DuplicateOf(p, n)
  BY DEF Duplicate, Holds, FilesHold, World, Files
<1>2. PICK i \in Fresh(w), ok \in Oks(w) : w' = Adopt(w, [p EXCEPT !.id = i, !.name = n], ok)
  BY <1>1 DEF DuplicateOf
<1> DEFINE q == [p EXCEPT !.id = i, !.name = n]
<1>3. i \in Ids /\ i # Default /\ i # Unnamed /\ w.disk[i] = None
  BY FreshIsNew
<1>4. q \in Profiles /\ DocumentOK(q) /\ q.id = i
  BY <1>3 DEF Profiles, DocumentOK
<1> HIDE DEF q
<1>5. Holds(Adopt(w, q, ok))
  BY <1>3, <1>4, AdoptHolds, OksAreTruths DEF Holds
<1> QED
  BY <1>2, <1>5 DEF q

LEMMA DeleteSteps ==
  ASSUME Holds(w), NEW i \in Ids, Delete(i)
  PROVE  Holds(w')
<1> DEFINE d == IF w.library[i] # None THEN w.library[i].device ELSE w.mem.device
           blank == [Deleted(w, i) EXCEPT !.mem = Blank, !.unsaved = FALSE]
<1>1. CASE i # w.mem.id
  BY <1>1, DeletedHolds DEF Delete, Holds
<1>2. CASE i = w.mem.id
  <2>1. FilesHold(Deleted(w, i))
    BY DeletedHolds DEF Holds
  <2>2. Blank \in Profiles /\ DocumentOK(Blank) /\ Blank.id = Unnamed
    BY NamesDiffer DEF Blank, Profiles, DocumentOK
  <2>3. /\ blank.mem = Blank /\ blank.unsaved = FALSE /\ blank.disk = Deleted(w, i).disk
        /\ blank \in World
    BY <2>1, <2>2 DEF FilesHold, World
  <2>4. d \in Devices \cup {NoDevice}
    BY DEF Holds, FilesHold, World, Profiles, Entries
  <2>5. PICK j \in Candidates(blank, d), ok \in Oks(blank) : w' = Activated(blank, d, j, ok)
    BY <1>2 DEF Delete
  <2> HIDE DEF blank, d
  <2>6. FilesHold(blank) /\ MemoryHolds(blank)
    BY <2>1, <2>2, <2>3 DEF FilesHold, MemoryHolds
  <2>7. Holds(Activated(blank, d, j, ok))
    BY <2>4, <2>6, ActivateHolds, OksAreTruths
  <2> QED
    BY <2>5, <2>7
<1> QED
  BY <1>1, <1>2

(* What a change of the profile i amounts to: q for the one in memory, f for  *)
(* that of a file.                                                            *)
Replaced(v, i, q, f, ok) ==
  IF i = v.mem.id THEN Rescanned(Save([v EXCEPT !.mem = q], ok))
  ELSE IF v.library[i] = None \/ v.disk[i] = None \/ ~ ok THEN v
  ELSE Rescanned([v EXCEPT !.disk[i] = f])

SameProfile(p, q) == q \in Profiles /\ q.id = p.id /\ q.device = p.device

LEMMA ReplacedHolds ==
  ASSUME NEW v, Holds(v), NEW i \in Ids, NEW ok \in BOOLEAN, NEW q, SameProfile(v.mem, q),
         NEW f, v.disk[i] # None => SameProfile(v.disk[i], f)
  PROVE  Holds(Replaced(v, i, q, f, ok))
BY MemoryAmended, FileAmended DEF Holds, Replaced, SameProfile

LEMMA SameWhenChanged ==
  ASSUME NEW p \in Profiles
  PROVE  /\ \A n \in Names : SameProfile(p, [p EXCEPT !.name = n])
         /\ \A h \in SUBSET Apps : SameProfile(p, [p EXCEPT !.hints = h])
         /\ \A a \in Apps : SameProfile(p, [p EXCEPT !.hints = p.hints \cup {a}])
         /\ \A a \in Apps : SameProfile(p, [p EXCEPT !.hints = p.hints \ {a}])
         /\ SameProfile(p, [p EXCEPT !.rev = 1 - p.rev])
<1>1. p.hints \subseteq Apps /\ p.rev \in 0..1 /\ 1 - p.rev \in 0..1
  BY DEF Profiles
<1>2. \A n \in Names : SameProfile(p, [p EXCEPT !.name = n])
  BY DEF Profiles, SameProfile
<1>3. \A h \in SUBSET Apps : SameProfile(p, [p EXCEPT !.hints = h])
  BY DEF Profiles, SameProfile
<1>4. SameProfile(p, [p EXCEPT !.rev = 1 - p.rev])
  BY <1>1 DEF Profiles, SameProfile
<1>5. \A a \in Apps : p.hints \cup {a} \in SUBSET Apps /\ p.hints \ {a} \in SUBSET Apps
  BY <1>1
<1> QED
  BY <1>2, <1>3, <1>4, <1>5

LEMMA DocumentsTyped ==
  ASSUME NEW v, Holds(v)
  PROVE  v \in World /\ v.mem \in Profiles /\ \A i \in Ids : v.disk[i] # None => v.disk[i] \in Profiles
BY DEF Holds, FilesHold, World

LEMMA RenameSteps ==
  ASSUME Holds(w), NEW i \in Ids, NEW n \in Names, Rename(i, n)
  PROVE  Holds(w')
<1>1. PICK ok \in Oks(w) :
        w' = Replaced(w, i, [w.mem EXCEPT !.name = n], [w.disk[i] EXCEPT !.name = n], ok)
  BY DocumentsTyped DEF Rename, Amended, Replaced
<1> QED
  BY <1>1, DocumentsTyped, SameWhenChanged, ReplacedHolds, OksAreTruths

LEMMA MapSteps ==
  ASSUME Holds(w), NEW i \in Ids, NEW a \in Apps, Map(i, a) \/ Unmap(i, a)
  PROVE  Holds(w')
<1>1. CASE Map(i, a)
  <2>1. PICK ok \in Oks(w) :
          w' = Replaced(w, i, [w.mem EXCEPT !.hints = w.mem.hints \cup {a}],
                        [w.disk[i] EXCEPT !.hints = w.disk[i].hints \cup {a}], ok)
    BY <1>1, DocumentsTyped DEF Map, Amended, Replaced
  <2> QED
    BY <2>1, DocumentsTyped, SameWhenChanged, ReplacedHolds, OksAreTruths
<1>2. CASE Unmap(i, a)
  <2>1. PICK ok \in Oks(w) :
          w' = Replaced(w, i, [w.mem EXCEPT !.hints = w.mem.hints \ {a}],
                        [w.disk[i] EXCEPT !.hints = w.disk[i].hints \ {a}], ok)
    BY <1>2, DocumentsTyped DEF Unmap, Amended, Replaced
  <2> QED
    BY <2>1, DocumentsTyped, SameWhenChanged, ReplacedHolds, OksAreTruths
<1> QED
  BY <1>1, <1>2

LEMMA MoveSteps ==
  ASSUME Holds(w), NEW a \in Apps, SetApplicationProfiles(a)
  PROVE  Holds(w')
<1>1. PICK from \in Files(w.disk), to \in Files(w.library) : w' = Moved(w, a, from, to, TRUE)
  BY DEF SetApplicationProfiles
<1> DEFINE u == Replaced(w, from, [w.mem EXCEPT !.hints = w.mem.hints \ {a}],
                         [w.disk[from] EXCEPT !.hints = w.disk[from].hints \ {a}], TRUE)
<1>2. from \in Ids /\ to \in Ids
  BY DEF Files
<1>3. Holds(u)
  BY <1>2, DocumentsTyped, SameWhenChanged, ReplacedHolds
<1>4. w' = Replaced(u, to, [u.mem EXCEPT !.hints = u.mem.hints \cup {a}],
                    [u.disk[to] EXCEPT !.hints = u.disk[to].hints \cup {a}], TRUE)
  BY <1>1 DEF Moved, Amended, Replaced
<1> HIDE DEF u
<1>5. Holds(Replaced(u, to, [u.mem EXCEPT !.hints = u.mem.hints \cup {a}],
                     [u.disk[to] EXCEPT !.hints = u.disk[to].hints \cup {a}], TRUE))
  BY <1>2, <1>3, DocumentsTyped, SameWhenChanged, ReplacedHolds
<1> QED
  BY <1>4, <1>5

LEMMA HintSteps ==
  ASSUME Holds(w), NEW h \in SUBSET Apps, SetHints(h)
  PROVE  Holds(w')
<1>1. PICK ok \in Oks(w) : w' = Rescanned(Save([w EXCEPT !.mem = [w.mem EXCEPT !.hints = h]], ok))
  BY DEF SetHints
<1>2. SameProfile(w.mem, [w.mem EXCEPT !.hints = h])
  BY DocumentsTyped, SameWhenChanged
<1> QED
  BY <1>1, <1>2, MemoryAmended, OksAreTruths DEF Holds, SameProfile

(* An edit is saved without a rescan: neither the name nor the device change, *)
(* and the index goes on holding.                                             *)
LEMMA EditSteps ==
  ASSUME Holds(w), Edit
  PROVE  Holds(w')
<1> DEFINE q == [w.mem EXCEPT !.rev = 1 - w.mem.rev]
           u == [w EXCEPT !.mem = q]
<1>1. PICK ok \in Oks(w) : w' = Save(u, ok)
  BY DEF Edit
<1>2. w \in World /\ w.mem \in Profiles /\ SameProfile(w.mem, q) /\ q.name = w.mem.name
  BY DocumentsTyped, SameWhenChanged DEF Profiles
<1> HIDE DEF q
<1>3. /\ u.mem = q /\ u.disk = w.disk /\ u.library = w.library /\ u.unsaved = w.unsaved
      /\ u.fails = w.fails /\ u \in World
  BY <1>2 DEF World, SameProfile
<1> HIDE DEF u
<1>4. FilesHold(u)
  BY <1>2, <1>3 DEF Holds, FilesHold, DocumentOK, SameProfile
<1>5. /\ FilesHold(w') /\ MemoryHolds(w') /\ w'.library = w.library
      /\ w'.disk = IF ok THEN [w.disk EXCEPT ![FileOf(w.mem.id)] = q] ELSE w.disk
      /\ w'.fails = IF ok THEN w.fails ELSE w.fails + 1
  BY <1>1, <1>2, <1>3, <1>4, SaveHolds, OksAreTruths DEF SameProfile
<1>6. IndexHolds(w')
  <2> DEFINE f == FileOf(w.mem.id)
  <2>1. f \in Ids /\ (w.mem.id # Unnamed => f = w.mem.id) /\ (w.mem.id = Unnamed => f = Default)
        /\ q \in Profiles /\ q # None /\ q.device = w.mem.device
    BY <1>2, NamesDiffer DEF FileOf, Profiles, SameProfile
  <2>2. w.disk \in [Ids -> Profiles \cup {None}] /\ w.fails \in Nat
    BY <1>2 DEF World
  <2> HIDE DEF f
  <2>3. w.library[f] # None => w.library[f].device = q.device
    <3>1. CASE w.mem.id = Unnamed
      <4>1. w.library[f] # None => w.disk[f] # None /\ w.disk[f].device = w.library[f].device
        BY <2>1 DEF Holds, IndexHolds, Files
      <4>2. w.disk[f] # None => w.disk[f].id = Unnamed /\ w.disk[f].device = NoDevice
        BY <2>1, <3>1 DEF Holds, FilesHold, Files, FileOf, DocumentOK
      <4>3. q.device = NoDevice
        BY <2>1, <3>1 DEF Holds, FilesHold, DocumentOK
      <4> QED
        BY <4>1, <4>2, <4>3
    <3>2. CASE w.mem.id # Unnamed
      <4>1. w.library[f] # None => w.disk[f] # None /\ w.disk[f].device = w.library[f].device
        BY <2>1 DEF Holds, IndexHolds, Files
      <4> QED
        BY <2>1, <3>2, <4>1 DEF Holds, FilesHold
    <3> QED
      BY <3>1, <3>2
  <2>4. \A i \in Files(w'.library) : w'.disk[i] # None /\ w'.disk[i].device = w'.library[i].device
    <3>1. SUFFICES ASSUME NEW i \in Ids, w.library[i] # None
                   PROVE  w'.disk[i] # None /\ w'.disk[i].device = w.library[i].device
      BY <1>5 DEF Files
    <3>2. w.disk[i] # None /\ w.disk[i].device = w.library[i].device
      BY <3>1 DEF Holds, IndexHolds, Files
    <3>3. w'.disk[i] = IF ok /\ i = f THEN q ELSE w.disk[i]
      BY <1>5, <2>1, <2>2 DEF f
    <3> QED
      BY <2>1, <2>3, <3>1, <3>2, <3>3
  <2>5. ASSUME w'.fails = 0, NEW i \in Ids \ {Default}
        PROVE  w'.library[i] = Index(w'.disk)[i]
    <3>1. ok /\ w.fails = 0
      BY <1>5, <2>2, <2>5
    <3>2. w.library[i] = Index(w.disk)[i]
      BY <2>5, <3>1 DEF Holds, IndexHolds
    <3>3. CASE i # f
      <4>1. w'.disk[i] = w.disk[i]
        BY <1>5, <2>2, <2>5, <3>3 DEF f
      <4> QED
        BY <1>5, <3>2, <4>1 DEF Index
    <3>4. CASE i = f
      <4>1. w.mem.id = f /\ w.disk[f] = w.mem
        BY <2>1, <2>5, <3>1, <3>4 DEF Holds, FilesHold, MemoryHolds
      <4>2. w'.disk[f] = q
        BY <1>5, <2>1, <2>2, <3>1 DEF f
      <4>3. w.mem # None
        BY <1>2, NamesDiffer
      <4> QED
        BY <1>2, <1>5, <2>1, <3>2, <3>4, <4>1, <4>2, <4>3 DEF Index, NameOf
    <3> QED
      BY <3>3, <3>4
  <2> QED
    BY <2>4, <2>5 DEF IndexHolds
<1> QED
  BY <1>5, <1>6 DEF Holds

(* Every command of the user and of the mappings keeps the library; it leaves *)
(* the other parties' memories alone.                                         *)
LEMMA UserHolds ==
  ASSUME Holds(w), UserSteps \/ MappingSteps
  PROVE  Holds(w') /\ UNCHANGED <<back, pending, last>>
<1>1. ASSUME NEW n \in Names, Duplicate(n) \/ (\E i \in Ids : Rename(i, n)) \/ SwitchByName(n)
      PROVE  Holds(w') /\ Rest
  <2>1. CASE Duplicate(n)
    BY <2>1, DuplicateSteps DEF Duplicate, DuplicateOf
  <2>2. CASE \E i \in Ids : Rename(i, n)
    BY <2>2, RenameSteps DEF Rename
  <2>3. CASE SwitchByName(n)
    BY <2>3, SwitchHolds DEF SwitchByName, Listed, Files
  <2> QED
    BY <1>1, <2>1, <2>2, <2>3
<1>2. ASSUME NEW n \in Names, NEW d \in Devices, Create(n, d) \/ Import(n, d, {}) \/ Select(n, d)
      PROVE  Holds(w') /\ Rest
  <2>1. CASE Create(n, d) \/ Import(n, d, {})
    BY <2>1, CreateSteps DEF Create, Import
  <2>2. CASE Select(n, d)
    <3>1. CASE \E i \in Listed(w, d) : w' = Switched(w, i)
      BY <2>2, <3>1, SwitchHolds DEF Select, Listed, Files
    <3>2. CASE \E i \in Fresh(w), ok \in Oks(w) : w' = Adopt(w, New(i, n, d), ok)
      BY <2>2, <3>2, AdoptNewHolds, OksAreTruths DEF Select, Holds
    <3> QED
      BY <2>2, <3>1, <3>2 DEF Select
  <2> QED
    BY <1>2, <2>1, <2>2
<1>3. ASSUME NEW i \in Ids, Delete(i) \/ Switch(i) PROVE Holds(w') /\ Rest
  BY <1>3, DeleteSteps, SwitchHolds DEF Delete, Switch
<1>4. ASSUME NEW d \in Devices, Activate(d) PROVE Holds(w') /\ Rest
  <2>1. PICK j \in Candidates(w, d), ok \in Oks(w) : w' = Activated(w, d, j, ok)
    BY <1>4 DEF Activate
  <2>2. Holds(Activated(w, d, j, ok))
    BY ActivateHolds, OksAreTruths DEF Holds
  <2> QED
    BY <1>4, <2>1, <2>2 DEF Activate
<1>5. CASE Edit
  BY <1>5, EditSteps DEF Edit, Rest
<1>6. CASE Reload
  <2>1. FileOf(w.mem.id) \in Ids
    BY DocumentsTyped, NamesDiffer DEF Profiles
  <2> QED
    BY <1>6, <2>1, LoadHolds DEF Reload, Rest
<1>7. CASE Refresh
  BY <1>7, RescanHolds DEF Refresh, Holds, Rest
<1>8. CASE Rotate
  BY <1>8, SwitchHolds DEF Rotate, Listed, Files, Rest
<1>9. CASE MappingSteps
  <2>1. ASSUME NEW a \in Apps, NEW i \in Ids, Map(i, a) \/ Unmap(i, a) PROVE Holds(w') /\ Rest
    BY <2>1, MapSteps DEF Map, Unmap
  <2>2. ASSUME NEW h \in SUBSET Apps, SetHints(h) PROVE Holds(w') /\ Rest
    BY <2>2, HintSteps DEF SetHints
  <2>3. ASSUME NEW a \in Apps, SetApplicationProfiles(a) PROVE Holds(w') /\ Rest
    BY <2>3, MoveSteps DEF SetApplicationProfiles
  <2> QED
    BY <1>9, <2>1, <2>2, <2>3 DEF MappingSteps, Rest
<1> QED
  BY <1>1, <1>2, <1>3, <1>4, <1>5, <1>6, <1>7, <1>8, <1>9 DEF UserSteps, Rest

LEMMA OtherHolds ==
  ASSUME LibraryInv, OtherSteps
  PROVE  LibraryInv'
<1>1. /\ Holds(w) /\ back \in [Plugins -> Ids \cup {Unnamed}] /\ {pending, last} \subseteq Apps \cup {None}
      /\ w.mem.id \in Ids \cup {Unnamed}
  BY DocumentsTyped DEF LibraryInv, Around, Profiles
<1>2. \A p \in Plugins, i \in Ids : Remembered(p, i) \in [Plugins -> Ids \cup {Unnamed}]
  BY <1>1 DEF Remembered
<1>3. ASSUME NEW p \in Plugins, PluginGoesBack(p) PROVE LibraryInv'
  BY <1>1, <1>3, SwitchHolds DEF PluginGoesBack, LibraryInv, Around
<1>4. ASSUME NEW p \in Plugins, NEW i \in Ids, PluginSwitches(p, i) PROVE LibraryInv'
  BY <1>1, <1>2, <1>4, SwitchHolds DEF PluginSwitches, LibraryInv, Around
<1>5. ASSUME NEW p \in Plugins, NEW n \in Names, NEW d \in Devices, PluginShips(p, n, d) PROVE LibraryInv'
  <2>1. PICK i \in Fresh(w), ok \in Oks(w) : w' = Adopt(w, New(i, n, d), ok) /\ back' = Remembered(p, i)
    BY <1>5 DEF PluginShips
  <2>2. Holds(Adopt(w, New(i, n, d), ok)) /\ i \in Ids
    BY <1>1, AdoptNewHolds, OksAreTruths, FreshIsNew DEF Holds
  <2> QED
    BY <1>1, <1>2, <1>5, <2>1, <2>2 DEF PluginShips, LibraryInv, Around
<1>6. ASSUME NEW a \in Apps, Focus(a) PROVE LibraryInv'
  BY <1>1, <1>6 DEF Focus, LibraryInv, Around
<1>7. ASSUME NEW d \in Devices, FocusSettles(d) PROVE LibraryInv'
  <2>1. Holds(w')
    BY <1>1, <1>7, SwitchHolds DEF FocusSettles, Matches, Files
  <2> QED
    BY <1>1, <1>7, <2>1 DEF FocusSettles, LibraryInv, Around
<1> QED
  BY <1>3, <1>4, <1>5, <1>6, <1>7 DEF OtherSteps

LEMMA LibraryInitInv == Init => LibraryInv
<1> SUFFICES ASSUME Init PROVE LibraryInv
  OBVIOUS
<1>1. /\ w.disk \in [Ids -> {None}] /\ w.library \in [Ids -> {None}] /\ w.mem = Blank
      /\ w.unsaved = FALSE /\ w.fails = 0 /\ w \in World
  <2>1. Blank \in Profiles
    BY DEF Blank, Profiles
  <2>2. [Ids -> {None}] \subseteq [Ids -> Profiles \cup {None}]
        /\ [Ids -> {None}] \subseteq [Ids -> Entries \cup {None}]
    OBVIOUS
  <2>3. w \in [disk : [Ids -> {None}], library : [Ids -> {None}], mem : {Blank},
              unsaved : {FALSE}, fails : {0}]
    BY DEF Init
  <2>4. /\ w.disk \in [Ids -> {None}] /\ w.library \in [Ids -> {None}] /\ w.mem = Blank
        /\ w.unsaved = FALSE /\ w.fails = 0
        /\ w = [disk |-> w.disk, library |-> w.library, mem |-> w.mem, unsaved |-> w.unsaved, fails |-> w.fails]
    BY <2>3
  <2>5. w.unsaved \in BOOLEAN
    BY <2>4
  <2>6. /\ w.disk \in [Ids -> Profiles \cup {None}] /\ w.library \in [Ids -> Entries \cup {None}]
        /\ w.mem \in Profiles /\ w.fails \in Nat
    BY <2>1, <2>2, <2>4
  <2>7. w \in World
    BY <2>4, <2>5, <2>6 DEF World
  <2> QED
    BY <2>4, <2>7
<1>2. Blank.id = Unnamed /\ Blank.device = NoDevice
  BY DEF Blank
<1>3. FilesHold(w) /\ MemoryHolds(w)
  BY <1>1, <1>2, NamesDiffer DEF FilesHold, MemoryHolds, DocumentOK, Files
<1>4. IndexHolds(w)
  BY <1>1 DEF IndexHolds, Files, Index
<1>5. Around
  BY DEF Init, Around
<1> QED
  BY <1>3, <1>4, <1>5 DEF LibraryInv, Holds

LEMMA LibraryAlways == Spec => []LibraryInv
<1>1. LibraryInv /\ [Next]_vars => LibraryInv'
  <2> SUFFICES ASSUME LibraryInv, [Next]_vars PROVE LibraryInv'
    OBVIOUS
  <2>1. CASE UserSteps \/ MappingSteps
    BY <2>1, UserHolds DEF LibraryInv, Around
  <2>2. CASE UNCHANGED vars
    BY <2>2 DEF LibraryInv, Around, Holds, FilesHold, MemoryHolds, IndexHolds, vars
  <2> QED
    BY <2>1, <2>2, OtherHolds DEF Next
<1> QED
  BY <1>1, LibraryInitInv, PTL DEF Spec

(* Whoever changes profiles, and whichever write fails: what is in memory is  *)
(* in its file unless its last write failed, and the index names files that   *)
(* are there, and all of them as long as none failed (ProfileController).     *)
THEOREM LibraryStaysTrue == Spec => []LibraryIsTrue
<1>1. LibraryInv => LibraryIsTrue
  BY DEF LibraryInv, Holds, MemoryHolds, IndexHolds, LibraryIsTrue, MemoryIsOnDisk, IndexIsTrue
<1> QED
  BY <1>1, LibraryAlways, PTL

(* The foreground application moves only to a profile mapped to it, and at    *)
(* most once per report.                                                      *)
THEOREM FocusMovesToItsProfile == Spec => FocusMoves
<1>1. LibraryInv /\ [Next]_vars =>
        [last' # last /\ w'.mem.id # w.mem.id => last' = pending /\ last' \in w'.mem.hints]_vars
  <2> SUFFICES ASSUME LibraryInv, Next, last' # last, w'.mem.id # w.mem.id
               PROVE  last' = pending /\ last' \in w'.mem.hints
    OBVIOUS
  <2>1. ~(UserSteps \/ MappingSteps)
    BY UserHolds DEF LibraryInv
  <2>2. PICK d \in Devices : FocusSettles(d)
    BY <2>1 DEF Next, OtherSteps, PluginGoesBack, PluginSwitches, PluginShips, Focus
  <2>3. PICK i \in Matches(pending, d) : w' = Switched(w, i)
    BY <2>2 DEF FocusSettles
  <2>4. i \in Ids /\ pending \in w.disk[i].hints
    BY DEF Matches, Files
  <2>5. w'.mem = w.disk[i]
    BY <2>3, <2>4, SwitchHolds DEF LibraryInv
  <2> QED
    BY <2>2, <2>4, <2>5 DEF FocusSettles
<1> QED
  BY <1>1, LibraryAlways, PTL DEF Spec, FocusMoves
-----------------------------------------------------------------------------
(* Installing plugins.  While the application runs, the plugins that are in   *)
(* their directories run, those excepted that the user copied in meanwhile:   *)
(* so the only ones that can start are those a launch has checked and the one *)
(* that was just installed or allowed.  What is allowed was agreed to or came *)
(* along with the application.                                                *)
Shapes == [form : {"none", "dir", "zip"}, owner : Directories \cup {I!Nobody},
           kind : {"none", "bare", "unsigned", "signed", "trusted", "tampered"}]
Placed(n) == plugins[n].form # "zip" /\ (I!IsPlugin(plugins[n]) => live[n] # I!Nothing)

InstallTyped ==
  /\ plugins \in [Directories -> Shapes] /\ away \in [Directories -> Shapes]
  /\ live \in [Directories -> Shapes]
  /\ \A n \in Directories : away[n].form # "zip"
  /\ \A j \in jobs : j.row \in Rows
ConsentInv ==
  /\ InstallTyped
  /\ allowed \subseteq agreed \cup Bundled
  /\ iUp => \A n \in Directories \ hand : Placed(n)
  /\ ~iUp => jobs = {}

(* What every step that starts plugins does.                                  *)
Agreeable(e, n) ==
  /\ I!Verdict(e) # "Refused"
  /\ I!Verdict(e) = "Unsigned" => n \in agreed' \cup Bundled \/ blanket'
ConsentedStart == \A n \in Directories : I!Started(n) => Agreeable(live'[n], n)

LEMMA ShapesOfPackages ==
  /\ I!Nothing \in Shapes /\ I!NoManifest \in Shapes
  /\ \A pkg \in Packages : I!AsDir(pkg) \in Shapes /\ I!AsZip(pkg) \in Shapes
                           /\ I!AsDir(pkg).form = "dir"
  /\ \A e \in Shapes : I!AsDir(e) \in Shapes /\ I!AsDir(e).form = "dir" /\ I!AsDir(e).kind = e.kind
  /\ I!Nothing.form = "none" /\ I!NoManifest.form = "dir"
  /\ ~I!IsPlugin(I!Nothing) /\ ~I!IsPlugin(I!NoManifest)
<1>1. I!Nothing \in Shapes /\ I!NoManifest \in Shapes /\ I!Nothing.form = "none"
      /\ I!NoManifest.form = "dir" /\ ~I!IsPlugin(I!Nothing) /\ ~I!IsPlugin(I!NoManifest)
  <2>1. I!Nothing.form = "none" /\ I!NoManifest.form = "dir" /\ I!NoManifest.kind = "bare"
    BY DEF I!Nothing, I!NoManifest
  <2>2. I!Nothing \in Shapes /\ I!NoManifest \in Shapes
    BY DEF Shapes, I!Nothing, I!NoManifest
  <2> QED
    BY <2>1, <2>2 DEF I!IsPlugin
<1>2. ASSUME NEW e \in Shapes
      PROVE  I!AsDir(e) \in Shapes /\ I!AsZip(e) \in Shapes /\ I!AsDir(e).form = "dir"
             /\ I!AsDir(e).kind = e.kind
  BY DEF Shapes, I!AsDir, I!AsZip
<1>3. Packages \subseteq Shapes
  BY InstallAssumption DEF Shapes, I!Nobody
<1> QED
  BY <1>1, <1>2, <1>3

LEMMA NamedForADirectory ==
  ASSUME NEW e \in Shapes, NEW n \in Directories
  PROVE  I!NameFor(e, n) \in Directories
BY DEF I!NameFor, Shapes

(* The live plugins are known by their directories, so that unloading one by  *)
(* its id unloads nothing.                                                    *)
LEMMA UnloadedLive ==
  ASSUME NEW f \in [Directories -> Shapes]
  PROVE  /\ \A key \in Directories \cup {I!Nobody} : I!Unload(f, key) = f
         /\ \A n \in Directories :
              /\ I!Unload(f, I!DirName(n)) \in [Directories -> Shapes]
              /\ \A m \in Directories : /\ m # n => I!Unload(f, I!DirName(n))[m] = f[m]
                                        /\ I!Unload(f, I!DirName(n))[m] \in {f[m], I!Nothing}
<1>1. ASSUME NEW key \in Directories \cup {I!Nobody} PROVE I!Unload(f, key) = f
  <2>1. \A n \in Directories : I!DirName(n) # key
    BY InstallAssumption DEF I!DirName, I!Nobody
  <2> QED
    BY <2>1 DEF I!Unload
<1>2. ASSUME NEW n \in Directories
      PROVE  /\ I!Unload(f, I!DirName(n)) \in [Directories -> Shapes]
             /\ \A m \in Directories : /\ m # n => I!Unload(f, I!DirName(n))[m] = f[m]
                                       /\ I!Unload(f, I!DirName(n))[m] \in {f[m], I!Nothing}
  <2>1. \A m \in Directories : m # n => I!DirName(m) # I!DirName(n)
    BY DEF I!DirName
  <2> QED
    BY <2>1, ShapesOfPackages DEF I!Unload
<1> QED
  BY <1>1, <1>2

LEMMA RediscoveredLive ==
  ASSUME NEW f \in [Directories -> Shapes], NEW d \in [Directories -> Shapes]
  PROVE  /\ I!Rediscovered(f, d) \in [Directories -> Shapes]
         /\ \A n \in Directories :
              /\ I!Rediscovered(f, d)[n] # f[n] =>
                   f[n] = I!Nothing /\ I!Rediscovered(f, d)[n] = d[n] /\ I!IsPlugin(d[n])
              /\ I!IsPlugin(d[n]) => I!Rediscovered(f, d)[n] # I!Nothing
BY ShapesOfPackages DEF I!Rediscovered

(* An installation that ends well replaces one directory by what was checked  *)
(* and agreed to, and removes others.                                         *)
LEMMA PromotedKeeps ==
  ASSUME ConsentInv, NEW n \in Directories, NEW e \in Shapes, NEW consents \in BOOLEAN, NEW marks,
         e.form = "dir", I!Verdict(e) # "Refused", I!Promoted(n, e, consents, marks),
         iUp, \A j \in jobs' : j.row \in Rows
  PROVE  ConsentInv' /\ ConsentedStart
<1> DEFINE d == [plugins EXCEPT ![n] = e]
<1> DEFINE twins == I!Twins(d, n)
<1> DEFINE retired == [m \in Directories |-> IF m \in twins THEN I!Nothing ELSE live[m]]
<1> DEFINE kept == IF plugins[n].form = "dir" THEN I!Unload(retired, I!DirName(n)) ELSE retired
<1>1. plugins \in [Directories -> Shapes] /\ live \in [Directories -> Shapes]
      /\ d \in [Directories -> Shapes] /\ n \notin twins /\ twins \subseteq Directories
  BY DEF ConsentInv, InstallTyped, I!Twins
<1>2. /\ plugins' = [m \in Directories |-> IF m \in twins THEN I!Nothing ELSE d[m]]
      /\ allowed' = (allowed \ twins) \cup (IF consents THEN {n} ELSE {})
      /\ agreed' = (agreed \ twins) \cup {n}
      /\ live' = I!Rediscovered(kept, plugins')
      /\ iUp' = iUp /\ away' = away /\ hand' = hand
  BY DEF I!Promoted
<1>3. d[n] = e /\ \A m \in Directories : m # n => d[m] = plugins[m]
  BY <1>1
<1>4. retired \in [Directories -> Shapes]
      /\ \A m \in Directories : /\ m \notin twins => retired[m] = live[m]
                                /\ retired[m] \in {live[m], I!Nothing}
  BY <1>1, ShapesOfPackages
<1> HIDE DEF d, twins, retired
<1>5. kept \in [Directories -> Shapes]
      /\ \A m \in Directories : /\ m \notin twins /\ m # n => kept[m] = live[m]
                                /\ kept[m] \in {live[m], I!Nothing}
  BY <1>4, UnloadedLive
<1> HIDE DEF kept
<1>6. plugins' \in [Directories -> Shapes] /\ plugins'[n] = e
      /\ \A m \in Directories : /\ m \in twins => plugins'[m] = I!Nothing
                                /\ m \notin twins /\ m # n => plugins'[m] = plugins[m]
  BY <1>1, <1>2, <1>3, ShapesOfPackages
<1>7. live' \in [Directories -> Shapes]
      /\ \A m \in Directories :
           /\ live'[m] # kept[m] => kept[m] = I!Nothing /\ live'[m] = plugins'[m] /\ I!IsPlugin(plugins'[m])
           /\ I!IsPlugin(plugins'[m]) => live'[m] # I!Nothing
  BY <1>2, <1>5, <1>6, RediscoveredLive
<1>8. allowed' \subseteq agreed' \cup Bundled
  BY <1>2 DEF ConsentInv
<1>9. ASSUME NEW m \in Directories \ hand' PROVE Placed(m)'
  <2>1. plugins'[m].form # "zip"
    BY <1>2, <1>6, <1>9, ShapesOfPackages DEF ConsentInv, Placed
  <2> QED
    BY <1>7, <2>1 DEF Placed, I!IsPlugin
<1>10. ASSUME NEW m \in Directories, I!Started(m) PROVE Agreeable(live'[m], m)
  <2>1. live'[m] \notin {I!Nothing, live[m]} /\ m \notin hand'
    BY <1>10 DEF I!Started
  <2>2. CASE m = n
    <3>1. live'[n] = e \/ live'[n] = kept[n]
      BY <1>6, <1>7
    <3> QED
      BY <1>2, <1>5, <2>1, <2>2, <3>1 DEF Agreeable
  <2>3. CASE m \in twins
    <3>1. ~I!IsPlugin(plugins'[m])
      BY <1>6, <2>3, ShapesOfPackages
    <3>2. live'[m] = kept[m]
      BY <1>7, <3>1
    <3> QED
      BY <1>5, <2>1, <3>2
  <2>4. CASE m # n /\ m \notin twins
    <3>1. live'[m] # kept[m] /\ kept[m] = live[m]
      BY <1>5, <2>1, <2>4
    <3>2. live[m] = I!Nothing /\ I!IsPlugin(plugins[m])
      BY <1>6, <1>7, <2>4, <3>1
    <3> QED
      BY <1>2, <2>1, <3>2 DEF ConsentInv, Placed
  <2> QED
    BY <2>2, <2>3, <2>4
<1> QED
  BY <1>2, <1>6, <1>7, <1>8, <1>9, <1>10 DEF ConsentInv, InstallTyped, ConsentedStart

(* A directory that keeps its plugin, or is emptied, while that runs on.      *)
LEMMA PlacedKeeps ==
  ASSUME ConsentInv, NEW n \in Directories, n \notin hand, iUp,
         plugins'[n] \in {plugins[n], I!Nothing}, live[n] # I!Nothing => live'[n] # I!Nothing
  PROVE  Placed(n)'
BY ShapesOfPackages DEF ConsentInv, Placed, I!IsPlugin

LEMMA EmptyIsPlaced == ASSUME NEW n, plugins'[n] = I!Nothing PROVE Placed(n)'
BY ShapesOfPackages DEF Placed, I!IsPlugin

LEMMA NothingStarts ==
  ASSUME \A n \in Directories : live'[n] \in {live[n], I!Nothing}
  PROVE  ConsentedStart
BY DEF ConsentedStart, I!Started

(* Rediscovering starts what the user has copied in.                          *)
LEMMA RediscoveredKeeps ==
  ASSUME ConsentInv, iUp, NEW d \in [Directories -> Shapes], hand' = hand,
         \A n \in Directories : plugins[n].form # "zip" => d[n] = plugins[n],
         live' = I!Rediscovered(live, d)
  PROVE  /\ ConsentedStart /\ live' \in [Directories -> Shapes]
         /\ \A n \in Directories : live[n] # I!Nothing => live'[n] # I!Nothing
<1>1. live \in [Directories -> Shapes]
  BY DEF ConsentInv, InstallTyped
<1>2. /\ live' \in [Directories -> Shapes]
      /\ \A n \in Directories : live'[n] # live[n] => live[n] = I!Nothing /\ I!IsPlugin(d[n])
  BY <1>1, RediscoveredLive
<1>3. ASSUME NEW n \in Directories, I!Started(n) PROVE FALSE
  <2>1. n \notin hand /\ live[n] = I!Nothing /\ I!IsPlugin(d[n])
    BY <1>2, <1>3 DEF I!Started
  <2>2. plugins[n].form # "zip" /\ (I!IsPlugin(plugins[n]) => live[n] # I!Nothing)
    BY <2>1 DEF ConsentInv, Placed
  <2> QED
    BY <2>1, <2>2
<1> QED
  BY <1>2, <1>3 DEF ConsentedStart

LEMMA ExtractedShapes ==
  ASSUME NEW d \in [Directories -> Shapes]
  PROVE  /\ I!Extracted(d) \in [Directories -> Shapes]
         /\ \A n \in Directories : I!Extracted(d)[n].form # "zip"
         /\ \A n \in Directories : d[n].form # "zip" => I!Extracted(d)[n] = d[n]
BY ShapesOfPackages DEF I!Extracted

(* A launch leaves in place what has passed the check and has consent.        *)
LEMMA LaunchKeeps ==
  ASSUME ConsentInv, NEW bad, I!Launch(bad)
  PROVE  ConsentInv' /\ ConsentedStart
<1> DEFINE unzipped == I!Extracted(plugins)
<1> DEFINE seeds == I!Seeds(unzipped, bad)
<1> DEFINE seed(n) == [form |-> "dir", owner |-> n, kind |-> "unsigned"]
<1> DEFINE withSeeds == [n \in Directories |-> IF n \in seeds THEN seed(n) ELSE unzipped[n]]
<1> DEFINE kept == allowed \cup seeds \cup I!Present(unzipped)
<1> DEFINE consented == IF unsigned THEN Directories ELSE kept
<1> DEFINE restored == I!Restored(withSeeds, consented, bad)
<1> DEFINE all == [n \in Directories |-> IF n \in restored THEN away[n] ELSE withSeeds[n]]
<1> DEFINE out == I!Swept(all, consented)
<1>1. /\ plugins \in [Directories -> Shapes] /\ away \in [Directories -> Shapes]
      /\ live \in [Directories -> Shapes] /\ \A n \in Directories : away[n].form # "zip"
  BY DEF ConsentInv, InstallTyped
<1>2. /\ ~iUp /\ iUp' = TRUE /\ allowed' = kept /\ agreed' = agreed /\ blanket' = unsigned /\ hand' = {}
      /\ plugins' = [n \in Directories |-> IF n \in out \cup I!Refused(all) THEN I!Nothing ELSE all[n]]
      /\ away' = [n \in Directories |-> IF n \in out THEN (IF n \in bad THEN I!Nothing ELSE all[n])
                                        ELSE IF n \in restored THEN I!Nothing ELSE away[n]]
      /\ live' = I!Rediscovered(live, plugins') /\ verifier' = verifier /\ jobs' = jobs
  BY DEF I!Launch
<1>3. seeds \subseteq Bundled /\ I!Present(unzipped) \subseteq Bundled
  BY DEF I!Seeds, I!Present
<1>4. unzipped \in [Directories -> Shapes] /\ \A n \in Directories : unzipped[n].form # "zip"
  BY <1>1, ExtractedShapes
<1>5. ASSUME NEW n \in Directories PROVE seed(n) \in Shapes /\ seed(n).form = "dir"
  BY DEF Shapes
<1> HIDE DEF unzipped, seeds, seed
<1>6. withSeeds \in [Directories -> Shapes] /\ \A n \in Directories : withSeeds[n].form # "zip"
  BY <1>4, <1>5
<1> HIDE DEF withSeeds, restored
<1>7. all \in [Directories -> Shapes] /\ \A n \in Directories : all[n].form # "zip"
  BY <1>1, <1>6
<1> HIDE DEF all
<1>8. plugins' \in [Directories -> Shapes] /\ away' \in [Directories -> Shapes]
      /\ \A n \in Directories : away'[n].form # "zip"
  <2> HIDE DEF out
  <2> QED
    BY <1>1, <1>2, <1>7, ShapesOfPackages
<1>9. /\ live' \in [Directories -> Shapes]
      /\ \A n \in Directories :
           /\ live'[n] # live[n] => live'[n] = plugins'[n] /\ I!IsPlugin(plugins'[n])
           /\ I!IsPlugin(plugins'[n]) => live'[n] # I!Nothing
  <2> DEFINE d == plugins'
  <2>1. d \in [Directories -> Shapes] /\ live' = I!Rediscovered(live, d)
    BY <1>2, <1>8
  <2> HIDE DEF d
  <2>2. /\ live' \in [Directories -> Shapes]
        /\ \A n \in Directories :
             /\ live'[n] # live[n] => live'[n] = d[n] /\ I!IsPlugin(d[n])
             /\ I!IsPlugin(d[n]) => live'[n] # I!Nothing
    BY <1>1, <2>1, RediscoveredLive
  <2> QED
    BY <2>2 DEF d
<1>10. ASSUME NEW n \in Directories PROVE Placed(n)'
  <2>1. plugins'[n] \in {all[n], I!Nothing}
    BY <1>2
  <2>2. plugins'[n].form # "zip"
    BY <1>7, <2>1, ShapesOfPackages
  <2> QED
    BY <1>9, <2>2 DEF Placed, I!IsPlugin
<1>12. ASSUME NEW n \in Directories, I!Started(n) PROVE Agreeable(live'[n], n)
  <2>1. live'[n] = plugins'[n] /\ I!IsPlugin(plugins'[n])
    BY <1>9, <1>12 DEF I!Started
  <2>2. n \notin out \cup I!Refused(all) /\ plugins'[n] = all[n]
    BY <1>2, <2>1, ShapesOfPackages
  <2>3. I!Verdict(all[n]) # "Refused"
    BY <2>1, <2>2 DEF I!Refused
  <2>4. I!Verdict(all[n]) = "Unsigned" => n \in consented
    BY <2>1, <2>2 DEF I!Swept
  <2>5. n \in consented => unsigned \/ n \in agreed \cup Bundled
    BY <1>3 DEF ConsentInv
  <2> QED
    BY <1>2, <2>1, <2>2, <2>3, <2>4, <2>5 DEF Agreeable
<1>11. allowed' \subseteq agreed' \cup Bundled
  BY <1>2, <1>3 DEF ConsentInv
<1> QED
  BY <1>2, <1>8, <1>9, <1>10, <1>11, <1>12 DEF ConsentInv, InstallTyped, ConsentedStart

LEMMA ConsentStep == ConsentInv /\ [I!Next]_(I!vars) => ConsentInv' /\ ConsentedStart
<1> SUFFICES ASSUME ConsentInv, [I!Next]_(I!vars) PROVE ConsentInv' /\ ConsentedStart
  OBVIOUS
<1> USE DEF I!settings, I!user
<1>a. /\ plugins \in [Directories -> Shapes] /\ away \in [Directories -> Shapes]
      /\ live \in [Directories -> Shapes] /\ \A n \in Directories : away[n].form # "zip"
      /\ \A j \in jobs : j.row \in Rows
      /\ allowed \subseteq agreed \cup Bundled
      /\ iUp => \A n \in Directories \ hand : Placed(n)
      /\ ~iUp => jobs = {}
  BY DEF ConsentInv, InstallTyped
(* Steps that leave the directories and the consent alone.                    *)
<1>b. ASSUME plugins' = plugins, away' = away, iUp' = iUp, allowed' = allowed, agreed' = agreed,
             hand' = hand, \A j \in jobs' : j.row \in Rows, ~iUp => jobs' = {},
             live' \in [Directories -> Shapes],
             \A n \in Directories : live[n] # I!Nothing => live'[n] # I!Nothing
      PROVE  ConsentInv'
  BY <1>a, <1>b, PlacedKeeps DEF ConsentInv, InstallTyped
<1>c. live' = live => ConsentedStart
  BY NothingStarts
<1>d. \A key \in Directories \cup {I!Nobody} : I!Unload(live, key) = live
  BY <1>a, UnloadedLive
<1>e. ASSUME iUp, hand' = hand, live' = I!Rediscovered(live, plugins)
      PROVE  /\ ConsentedStart /\ live' \in [Directories -> Shapes]
             /\ \A n \in Directories : live[n] # I!Nothing => live'[n] # I!Nothing
  BY <1>a, <1>e, RediscoveredKeeps
<1>1. ASSUME NEW bad, I!Launch(bad) PROVE ConsentInv' /\ ConsentedStart
  BY <1>1, LaunchKeeps
<1>2. CASE I!Quit
  <2>1. live' = [n \in Directories |-> I!Nothing] /\ iUp' = FALSE /\ jobs' = {} /\ plugins' = plugins
        /\ away' = away /\ allowed' = allowed /\ agreed' = agreed
    BY <1>2 DEF I!Quit, I!Ended
  <2>2. live' \in [Directories -> Shapes] /\ ConsentedStart
    BY <2>1, ShapesOfPackages, NothingStarts
  <2> QED
    BY <1>a, <2>1, <2>2 DEF ConsentInv, InstallTyped
<1>3. CASE I!SetAllowUnsigned
  BY <1>3, <1>a, <1>b, <1>c DEF I!SetAllowUnsigned
<1>4. CASE I!Rediscover
  <2>1. plugins' = I!Extracted(plugins) /\ live' = I!Rediscovered(live, plugins') /\ iUp' /\ iUp
        /\ away' = away /\ jobs' = jobs /\ allowed' = allowed /\ agreed' = agreed /\ hand' = hand
        /\ blanket' = blanket /\ verifier' = verifier
    BY <1>4 DEF I!Rediscover
  <2>2. plugins' \in [Directories -> Shapes]
        /\ \A n \in Directories : plugins[n].form # "zip" => plugins'[n] = plugins[n]
    BY <1>a, <2>1, ExtractedShapes
  <2>3. /\ live' \in [Directories -> Shapes] /\ ConsentedStart
        /\ \A n \in Directories : live[n] # I!Nothing => live'[n] # I!Nothing
    BY <2>1, <2>2, RediscoveredKeeps
  <2>4. ASSUME NEW n \in Directories \ hand PROVE Placed(n)'
    <3>1. plugins'[n] = plugins[n]
      BY <1>a, <2>1, <2>2 DEF Placed
    <3> QED
      BY <2>1, <2>3, <3>1, PlacedKeeps
  <2> QED
    BY <1>a, <2>1, <2>2, <2>3, <2>4 DEF ConsentInv, InstallTyped
<1>5. ASSUME NEW r \in Rows, I!Install(r) \/ I!InstallAgain(r) \/ I!Uninstall(r)
      PROVE  ConsentInv' /\ ConsentedStart
  <2>1. CASE I!Install(r)
    <3>1. \A j \in jobs' : j.row \in Rows
      BY <1>a, <2>1 DEF I!Install
    <3> QED
      BY <2>1, <1>a, <1>b, <1>c, <3>1 DEF I!Install
  <2>2. CASE I!InstallAgain(r)
    BY <2>2, <1>a, <1>b, <1>e DEF I!InstallAgain
  <2>3. CASE I!Uninstall(r)
    <3>1. live' = live
      BY <1>d, <2>3, InstallAssumption DEF I!Uninstall
    <3> QED
      BY <2>3, <1>a, <1>b, <1>c, <3>1 DEF I!Uninstall
  <2> QED
    BY <1>5, <2>1, <2>2, <2>3
<1>6. ASSUME NEW source, I!ReplaceRows(source) PROVE ConsentInv' /\ ConsentedStart
  BY <1>6, <1>a, <1>b, <1>c DEF I!ReplaceRows
<1>7. ASSUME NEW j \in jobs, I!Fail(j) \/ I!Resolve(j) \/ I!Fetch(j)
      PROVE  ConsentInv' /\ ConsentedStart
  <2>1. iUp /\ j.row \in Rows
    BY <1>a
  <2>2. ASSUME NEW at1, I!Goes(j, at1) PROVE \A k \in jobs' : k.row \in Rows
    <3>1. jobs' = (jobs \ {j}) \cup {[j EXCEPT !.at = at1]}
      BY <2>2 DEF I!Goes
    <3>2. [j EXCEPT !.at = at1].row = j.row
      OBVIOUS
    <3> QED
      BY <1>a, <3>1, <3>2
  <2>3. I!Ends(j) => \A k \in jobs' : k.row \in Rows
    BY <1>a DEF I!Ends
  <2>4. CASE I!Fail(j)
    BY <2>4, <1>a, <1>b, <1>c, <2>1, <2>3 DEF I!Fail, I!Same
  <2>5. CASE I!Resolve(j)
    <3>1. \A k \in jobs' : k.row \in Rows
      BY <2>2, <2>3, <2>5 DEF I!Resolve
    <3>2. /\ live' = live \/ live' = I!Rediscovered(live, plugins)
          /\ UNCHANGED <<iUp, plugins, away, allowed, agreed, hand>>
      BY <2>5 DEF I!Resolve
    <3> QED
      BY <1>a, <1>b, <1>c, <1>e, <2>1, <3>1, <3>2
  <2>6. CASE I!Fetch(j)
    <3>1. \A k \in jobs' : k.row \in Rows
      BY <2>2, <2>6 DEF I!Fetch
    <3> QED
      BY <2>6, <1>a, <1>b, <1>c, <2>1, <3>1 DEF I!Fetch
  <2> QED
    BY <1>7, <2>4, <2>5, <2>6
<1>8. ASSUME NEW j \in jobs, NEW pkg \in Packages, I!Downloaded(j, pkg)
      PROVE  ConsentInv' /\ ConsentedStart
  <2>1. iUp /\ Base[j.row] \in Directories /\ I!AsDir(pkg) \in Shapes /\ I!AsDir(pkg).form = "dir"
    BY <1>a, InstallAssumption, ShapesOfPackages
  <2>2. \A k \in jobs' : k.row \in Rows
    BY <1>8, <1>a DEF I!Downloaded, I!Ends
  <2>3. CASE I!Verdict(I!AsDir(pkg)) = "Refused"
    <3>1. plugins' = [plugins EXCEPT ![Base[j.row]] = I!Nothing] /\ live' = live /\ iUp' = iUp
          /\ away' = away /\ allowed' = allowed /\ agreed' = agreed /\ hand' = hand
          /\ blanket' = blanket /\ verifier' = verifier
      BY <1>8, <2>3 DEF I!Downloaded
    <3>2. plugins' \in [Directories -> Shapes]
          /\ \A n \in Directories : plugins'[n] \in {plugins[n], I!Nothing}
      BY <1>a, <3>1, ShapesOfPackages
    <3>3. \A n \in Directories \ hand' : Placed(n)'
      BY <2>1, <3>1, <3>2, PlacedKeeps
    <3> QED
      BY <1>a, <1>c, <2>1, <2>2, <3>1, <3>2, <3>3 DEF ConsentInv, InstallTyped
  <2>4. CASE I!Verdict(I!AsDir(pkg)) # "Refused"
    <3>1. I!Promoted(Base[j.row], I!AsDir(pkg), I!Verdict(I!AsDir(pkg)) # "Trusted", I!Marked(j.row))
      BY <1>8, <2>4 DEF I!Downloaded
    <3> QED
      BY <2>1, <2>2, <2>4, <3>1, PromotedKeeps
  <2> QED
    BY <2>3, <2>4
<1>9. ASSUME NEW j \in jobs, NEW pkg \in Packages, I!CrashOnDownload(j, pkg)
      PROVE  ConsentInv' /\ ConsentedStart
  <2>1. PICK e \in {I!AsZip(pkg), I!AsDir(pkg)} : plugins' = [plugins EXCEPT ![Base[j.row]] = e]
    BY <1>9 DEF I!CrashOnDownload
  <2>2. e \in Shapes
    BY ShapesOfPackages
  <2>3. live' = [n \in Directories |-> I!Nothing] /\ iUp' = FALSE /\ jobs' = {}
        /\ away' = away /\ allowed' = allowed /\ agreed' = agreed
    BY <1>9 DEF I!CrashOnDownload, I!Ended
  <2>4. live' \in [Directories -> Shapes] /\ ConsentedStart /\ plugins' \in [Directories -> Shapes]
    BY <1>a, <2>1, <2>2, <2>3, ShapesOfPackages, NothingStarts
  <2> QED
    BY <1>a, <2>3, <2>4 DEF ConsentInv, InstallTyped
<1>10. ASSUME NEW j \in jobs, NEW pkg \in Packages, I!Finalize(j, pkg)
       PROVE  ConsentInv' /\ ConsentedStart
  <2> DEFINE e == IF j.row \in staged THEN I!AsDir(pkg) ELSE I!NoManifest
  <2> DEFINE n == I!NameFor(e, Base[j.row])
  <2>1. iUp /\ Base[j.row] \in Directories
    BY <1>a, InstallAssumption
  <2>2. e \in Shapes /\ e.form = "dir"
    BY ShapesOfPackages
  <2>3. n \in Directories
    BY <2>1, <2>2, NamedForADirectory
  <2>4. \A k \in jobs' : k.row \in Rows
    BY <1>10, <1>a DEF I!Finalize, I!Ends
  <2>5. \/ UNCHANGED <<iUp, verifier, plugins, away, allowed, seeded, unsigned, rows, live, agreed,
                       blanket, hand, drops>>
        \/ I!Verdict(e) # "Refused" /\ I!Promoted(n, e, FALSE, I!Marked(j.row))
        \/ /\ plugins' = IF plugins[n].form = "dir" THEN [plugins EXCEPT ![n] = I!Nothing] ELSE plugins
           /\ live' = IF plugins[n].form = "dir" THEN I!Unload(live, I!DirName(n)) ELSE live
           /\ UNCHANGED <<iUp, verifier, away, allowed, agreed, blanket, hand>>
    BY <1>10 DEF I!Finalize
  <2> HIDE DEF e, n
  <2>6. CASE UNCHANGED <<iUp, verifier, plugins, away, allowed, seeded, unsigned, rows, live, agreed,
                         blanket, hand, drops>>
    BY <1>a, <1>b, <1>c, <2>1, <2>4, <2>6
  <2>7. CASE I!Verdict(e) # "Refused" /\ I!Promoted(n, e, FALSE, I!Marked(j.row))
    BY <2>1, <2>2, <2>3, <2>4, <2>7, PromotedKeeps
  <2>8. CASE /\ plugins' = IF plugins[n].form = "dir" THEN [plugins EXCEPT ![n] = I!Nothing] ELSE plugins
             /\ live' = IF plugins[n].form = "dir" THEN I!Unload(live, I!DirName(n)) ELSE live
             /\ UNCHANGED <<iUp, verifier, away, allowed, agreed, blanket, hand>>
    <3>1. plugins' \in [Directories -> Shapes]
          /\ \A m \in Directories : plugins'[m] \in {plugins[m], I!Nothing}
      BY <1>a, <2>8, ShapesOfPackages
    <3>2. /\ live' \in [Directories -> Shapes]
          /\ plugins[n].form = "dir" => plugins'[n] = I!Nothing
          /\ \A m \in Directories : live'[m] \in {live[m], I!Nothing} /\ (m # n => live'[m] = live[m])
          /\ plugins[n].form # "dir" => live' = live
      BY <1>a, <2>3, <2>8, UnloadedLive
    <3>3. ConsentedStart
      BY <3>2, NothingStarts
    <3>4. ASSUME NEW m \in Directories \ hand' PROVE Placed(m)'
      <4>1. CASE m = n /\ plugins[n].form = "dir"
        BY <3>2, <4>1, EmptyIsPlaced
      <4>2. CASE ~(m = n /\ plugins[n].form = "dir")
        BY <2>1, <2>8, <3>1, <3>2, <4>2, PlacedKeeps
      <4> QED
        BY <4>1, <4>2
    <3> QED
      BY <1>a, <2>1, <2>4, <2>8, <3>1, <3>2, <3>3, <3>4 DEF ConsentInv, InstallTyped
  <2> QED
    BY <2>5, <2>6, <2>7, <2>8
<1>11. ASSUME NEW n \in Directories, I!Allow(n) PROVE ConsentInv' /\ ConsentedStart
  <2> DEFINE e == IF I!IsPlugin(plugins[n]) THEN plugins[n] ELSE away[n]
  <2>1. /\ iUp /\ iUp' /\ I!IsPlugin(e) /\ I!Verdict(e) # "Refused"
        /\ plugins' = [plugins EXCEPT ![n] = e]
        /\ away' = IF I!IsPlugin(plugins[n]) THEN away ELSE [away EXCEPT ![n] = I!Nothing]
        /\ allowed' = allowed \cup {n} /\ agreed' = agreed \cup {n}
        /\ live' = I!Rediscovered(live, plugins')
        /\ verifier' = verifier /\ jobs' = jobs /\ blanket' = blanket /\ hand' = hand
    BY <1>11 DEF I!Allow
  <2>2. e \in Shapes /\ e.form = "dir"
    BY <1>a, <2>1 DEF I!IsPlugin
  <2> HIDE DEF e
  <2>3. plugins' \in [Directories -> Shapes] /\ plugins'[n] = e
        /\ \A m \in Directories : m # n => plugins'[m] = plugins[m]
    BY <1>a, <2>1, <2>2
  <2>4. away' \in [Directories -> Shapes] /\ \A m \in Directories : away'[m].form # "zip"
    BY <1>a, <2>1, ShapesOfPackages
  <2>5. /\ live' \in [Directories -> Shapes]
        /\ \A m \in Directories :
             /\ live'[m] # live[m] => live[m] = I!Nothing /\ live'[m] = plugins'[m] /\ I!IsPlugin(plugins'[m])
             /\ I!IsPlugin(plugins'[m]) => live'[m] # I!Nothing
    <3> DEFINE d == plugins'
    <3>1. d \in [Directories -> Shapes] /\ live' = I!Rediscovered(live, d)
      BY <2>1, <2>3
    <3> HIDE DEF d
    <3>2. /\ live' \in [Directories -> Shapes]
          /\ \A m \in Directories :
               /\ live'[m] # live[m] => live[m] = I!Nothing /\ live'[m] = d[m] /\ I!IsPlugin(d[m])
               /\ I!IsPlugin(d[m]) => live'[m] # I!Nothing
      BY <1>a, <3>1, RediscoveredLive
    <3> QED
      BY <3>2 DEF d
  <2>6. \A m \in Directories : live[m] # I!Nothing => live'[m] # I!Nothing
    BY <2>5
  <2>7. Placed(n)'
    BY <2>2, <2>3, <2>5 DEF Placed, I!IsPlugin
  <2>8. \A m \in Directories \ hand' : m # n => Placed(m)'
    BY <2>1, <2>3, <2>6, PlacedKeeps
  <2>9. ASSUME NEW m \in Directories, I!Started(m) PROVE Agreeable(live'[m], m)
    <3>1. live'[m] = plugins'[m] /\ live[m] = I!Nothing /\ m \notin hand /\ I!IsPlugin(plugins'[m])
      BY <2>1, <2>5, <2>9 DEF I!Started
    <3>2. m = n
      BY <1>a, <2>1, <2>3, <3>1 DEF Placed
    <3> QED
      BY <2>1, <2>3, <3>1, <3>2 DEF Agreeable
  <2> QED
    BY <1>a, <2>1, <2>3, <2>4, <2>5, <2>7, <2>8, <2>9 DEF ConsentInv, InstallTyped, ConsentedStart
<1>12. ASSUME NEW n \in Directories, I!Remove(n) \/ I!RemoveQuarantined(n)
       PROVE  ConsentInv' /\ ConsentedStart
  <2> DEFINE gone == IF I!Remove(n) THEN plugins[n] ELSE away[n]
  <2>1. /\ iUp /\ iUp' /\ I!Forget(n, gone)
        /\ verifier' = verifier /\ jobs' = jobs /\ blanket' = blanket /\ hand' = hand
        /\ \/ plugins' = [plugins EXCEPT ![n] = I!Nothing] /\ away' = away
           \/ plugins' = plugins /\ away' = [away EXCEPT ![n] = I!Nothing]
    BY <1>12 DEF I!Remove, I!RemoveQuarantined
  <2>a. gone.owner \in Directories \cup {I!Nobody}
    BY <1>a DEF Shapes
  <2> HIDE DEF gone
  <2>2. /\ plugins' \in [Directories -> Shapes]
        /\ \A m \in Directories : plugins'[m] \in {plugins[m], I!Nothing}
        /\ \A m \in Directories : m # n => plugins'[m] = plugins[m]
    BY <1>a, <2>1, ShapesOfPackages
  <2>3. away' \in [Directories -> Shapes] /\ \A m \in Directories : away'[m].form # "zip"
    BY <1>a, <2>1, ShapesOfPackages
  <2>4. live' = live
    BY <1>d, <2>1, <2>a DEF I!Forget
  <2>5. allowed' \subseteq agreed' \cup Bundled
    BY <1>a, <2>1 DEF I!Forget
  <2>6. \A m \in Directories \ hand' : Placed(m)'
    BY <2>1, <2>2, <2>4, PlacedKeeps
  <2> QED
    BY <1>a, <1>c, <2>1, <2>2, <2>3, <2>4, <2>5, <2>6 DEF ConsentInv, InstallTyped
<1>13. ASSUME NEW n \in Directories, NEW pkg \in Packages, I!Drop(n, pkg)
       PROVE  ConsentInv' /\ ConsentedStart
  <2>1. PICK e \in {I!AsDir(pkg), I!AsZip(pkg)} : plugins' = [plugins EXCEPT ![n] = e]
    BY <1>13 DEF I!Drop
  <2>2. e \in Shapes
    BY ShapesOfPackages
  <2>3. /\ hand' = (IF iUp THEN hand \cup {n} ELSE hand)
        /\ iUp' = iUp /\ verifier' = verifier /\ away' = away /\ allowed' = allowed /\ jobs' = jobs
        /\ live' = live /\ agreed' = agreed /\ blanket' = blanket
    BY <1>13 DEF I!Drop
  <2>4. plugins' \in [Directories -> Shapes] /\ \A m \in Directories : m # n => plugins'[m] = plugins[m]
    BY <1>a, <2>1, <2>2
  <2>5. iUp => \A m \in Directories \ hand' : Placed(m)'
    BY <2>3, <2>4, PlacedKeeps
  <2> QED
    BY <1>a, <1>c, <2>3, <2>4, <2>5 DEF ConsentInv, InstallTyped
<1>14. ASSUME NEW n \in Directories, NEW pkg \in Packages, NEW confirmed \in BOOLEAN,
              I!InstallFile(pkg, n, confirmed)
       PROVE  ConsentInv' /\ ConsentedStart
  <2> DEFINE e == I!AsDir(pkg)
  <2> DEFINE m == I!NameFor(e, n)
  <2>1. e \in Shapes /\ e.form = "dir" /\ m \in Directories
    BY ShapesOfPackages, NamedForADirectory
  <2>2. iUp /\ I!Verdict(e) # "Refused" /\ jobs' = jobs
    BY <1>14 DEF I!InstallFile
  <2>3. \E marks : I!Promoted(m, e, confirmed /\ I!Verdict(e) # "Trusted", marks)
    BY <1>14 DEF I!InstallFile
  <2> HIDE DEF e, m
  <2> QED
    BY <1>a, <2>1, <2>2, <2>3, PromotedKeeps
<1>15. CASE UNCHANGED I!vars
  BY <1>15, <1>a, <1>b, <1>c DEF I!vars
<1> QED
  BY <1>1, <1>2, <1>3, <1>4, <1>5, <1>6, <1>7, <1>8, <1>9, <1>10, <1>11, <1>12, <1>13, <1>14, <1>15
     DEF I!Next

LEMMA ConsentAlways == I!Spec => []ConsentInv
<1>1. I!Init => ConsentInv
  BY ShapesOfPackages DEF I!Init, ConsentInv, InstallTyped
<1> QED
  BY <1>1, ConsentStep, PTL DEF I!Spec

(* Whatever the order of downloads, assemblies, files, drops, removals,       *)
(* crashes and launches, no plugin whose signature is bad starts, and one     *)
(* without a signature only in a directory the user agreed to since a plugin  *)
(* was last removed from it, or when all are allowed, or if it came along.    *)
THEOREM StartsAreConsented == I!Spec => StartsWithConsent
<1>1. ConsentInv /\ [I!Next]_(I!vars) =>
        [\A n \in Directories : I!Started(n) =>
           /\ I!Verdict(live'[n]) # "Refused"
           /\ I!Verdict(live'[n]) = "Unsigned" => n \in agreed' \cup Bundled \/ blanket']_(I!vars)
  BY ConsentStep DEF ConsentedStart, Agreeable
<1> QED
  BY <1>1, ConsentAlways, PTL DEF I!Spec, StartsWithConsent, I!StartsWithConsent

(* The types of the installation: what runs was started from a directory, and *)
(* the jobs are numbered.                                                     *)
InDirectory(e) == e = I!Nothing \/ e.form = "dir"
JobsNumbered == IsFiniteSet(jobs) /\ \A j \in jobs : j.row \in Rows /\ j.id \in 1..MaxJobs
NamesOfDirectories == seeded \subseteq Directories /\ agreed \subseteq Directories
LiveIsFromDirectories ==
  \A n \in Directories : InDirectory(live[n]) /\ (~iUp => live[n] = I!Nothing)
InstallForms == JobsNumbered /\ NamesOfDirectories /\ LiveIsFromDirectories

LEMMA RediscoveredForms ==
  ASSUME NEW f, \A n \in Directories : InDirectory(f[n]), NEW d
  PROVE  \A n \in Directories : InDirectory(I!Rediscovered(f, d)[n])
BY DEF I!Rediscovered, I!IsPlugin, InDirectory

LEMMA UnloadedForms ==
  ASSUME NEW f, \A n \in Directories : InDirectory(f[n]), NEW key
  PROVE  \A n \in Directories : InDirectory(I!Unload(f, key)[n])
BY DEF I!Unload, InDirectory

(* Fewer jobs than there may be leave a number free.                          *)
LEMMA FreeIsANumber ==
  ASSUME IsFiniteSet(jobs), Cardinality(jobs) < MaxJobs
  PROVE  I!Free \in 1..MaxJobs
<1> DEFINE ids == {j.id : j \in jobs}
<1> DEFINE f == [j \in jobs |-> j.id]
<1>1. f \in Surjection(jobs, ids)
  BY DEF Surjection
<1>2. IsFiniteSet(ids) /\ Cardinality(ids) <= Cardinality(jobs)
  BY <1>1, FS_Surjection
<1>3. IsFiniteSet(1..MaxJobs) /\ Cardinality(1..MaxJobs) = MaxJobs
  <2>1. MaxJobs \in Nat
    BY InstallAssumption
  <2>2. IsFiniteSet(1..MaxJobs) /\ Cardinality(1..MaxJobs) = IF 1 > MaxJobs THEN 0 ELSE MaxJobs - 1 + 1
    BY <2>1, FS_Interval
  <2> QED
    BY <2>1, <2>2
<1>4. Cardinality(ids) \in Nat /\ Cardinality(jobs) \in Nat
  BY <1>2, FS_CardinalityType
<1>5. ~(1..MaxJobs \subseteq ids)
  <2>1. SUFFICES ASSUME 1..MaxJobs \subseteq ids PROVE FALSE
    OBVIOUS
  <2>2. Cardinality(1..MaxJobs) <= Cardinality(ids)
    BY <1>2, <2>1, FS_Subset
  <2> QED
    BY <1>2, <1>3, <1>4, <2>2, InstallAssumption
<1>6. PICK i \in 1..MaxJobs : \A j \in jobs : j.id # i
  BY <1>5
<1> QED
  BY <1>6 DEF I!Free

(* What happens to the jobs.                                                  *)
LEMMA JobsStep ==
  ASSUME JobsNumbered
  PROVE  /\ jobs' = {} => JobsNumbered'
         /\ \A j \in jobs : I!Ends(j) => JobsNumbered'
         /\ \A j \in jobs : \A to : I!Goes(j, to) => JobsNumbered'
         /\ \A r \in Rows : I!Install(r) => JobsNumbered'
<1>1. jobs' = {} => JobsNumbered'
  BY FS_EmptySet DEF JobsNumbered
<1>2. ASSUME NEW j \in jobs, I!Ends(j) PROVE JobsNumbered'
  BY <1>2, FS_RemoveElement DEF JobsNumbered, I!Ends
<1>3. ASSUME NEW j \in jobs, NEW to, I!Goes(j, to) PROVE JobsNumbered'
  <2> DEFINE moved == [j EXCEPT !.at = to]
  <2>1. jobs' = (jobs \ {j}) \cup {moved} /\ moved.row = j.row /\ moved.id = j.id
    BY <1>3 DEF I!Goes
  <2> HIDE DEF moved
  <2>2. IsFiniteSet(jobs \ {j})
    BY FS_RemoveElement DEF JobsNumbered
  <2>3. IsFiniteSet((jobs \ {j}) \cup {moved})
    BY <2>2, FS_AddElement
  <2> QED
    BY <2>1, <2>3 DEF JobsNumbered
<1>4. ASSUME NEW r \in Rows, I!Install(r) PROVE JobsNumbered'
  <2> DEFINE begun == [id |-> I!Free, row |-> r, at |-> I!Begun(r)]
  <2>0. jobs' = jobs \cup {begun}
    BY <1>4, Zenon DEF I!Install
  <2>a. I!Cardinality(jobs) = Cardinality(jobs)
    BY DEF I!Cardinality, Cardinality
  <2>b. I!Cardinality(jobs) < MaxJobs
    BY <1>4 DEF I!Install
  <2>1. jobs' = jobs \cup {begun} /\ Cardinality(jobs) < MaxJobs
    BY <2>0, <2>a, <2>b
  <2>2. begun.row = r /\ begun.id \in 1..MaxJobs
    BY <2>1, FreeIsANumber DEF JobsNumbered
  <2> HIDE DEF begun
  <2>3. IsFiniteSet(jobs \cup {begun})
    BY FS_AddElement DEF JobsNumbered
  <2> QED
    BY <2>1, <2>2, <2>3 DEF JobsNumbered
<1> QED
  BY <1>1, <1>2, <1>3, <1>4

LEMMA PromotedForms ==
  ASSUME InstallForms, NEW n \in Directories, NEW e, NEW consents, NEW marks, I!Promoted(n, e, consents, marks), iUp
  PROVE  NamesOfDirectories' /\ LiveIsFromDirectories'
<1> DEFINE twins == I!Twins([plugins EXCEPT ![n] = e], n)
<1> DEFINE retired == [m \in Directories |-> IF m \in twins THEN I!Nothing ELSE live[m]]
<1> DEFINE kept == IF plugins[n].form = "dir" THEN I!Unload(retired, I!DirName(n)) ELSE retired
<1>1. /\ live' = I!Rediscovered(kept, plugins') /\ agreed' = (agreed \ twins) \cup {n}
      /\ iUp' = iUp /\ seeded' = seeded
  BY DEF I!Promoted
<1>2. \A m \in Directories : InDirectory(retired[m])
  BY DEF InstallForms, LiveIsFromDirectories, InDirectory
<1> HIDE DEF twins, retired
<1>3. \A m \in Directories : InDirectory(kept[m])
  BY <1>2, UnloadedForms
<1> HIDE DEF kept
<1>4. \A m \in Directories : InDirectory(live'[m])
  BY <1>1, <1>3, RediscoveredForms
<1> QED
  BY <1>1, <1>4 DEF InstallForms, NamesOfDirectories, LiveIsFromDirectories, InDirectory

LEMMA FormsStep ==
  ASSUME ConsentInv, InstallForms, [I!Next]_(I!vars)
  PROVE  InstallForms'
<1> USE DEF I!settings, I!user
<1>1. /\ JobsNumbered /\ seeded \subseteq Directories /\ agreed \subseteq Directories
      /\ \A n \in Directories : InDirectory(live[n]) /\ (~iUp => live[n] = I!Nothing)
      /\ plugins \in [Directories -> Shapes] /\ (~iUp => jobs = {})
      /\ \A j \in jobs : j.row \in Rows
  BY DEF InstallForms, NamesOfDirectories, LiveIsFromDirectories, ConsentInv, InstallTyped
<1>2. InDirectory(I!Nothing)
  BY DEF InDirectory
(* What becomes of the names, and of what runs.                               *)
<1>3. ASSUME seeded' \subseteq seeded \cup Directories, agreed' \subseteq agreed \cup Directories
      PROVE  NamesOfDirectories'
  BY <1>1, <1>3 DEF NamesOfDirectories
<1>4. ASSUME \/ live' = live /\ iUp' = iUp
             \/ live' = [n \in Directories |-> I!Nothing]
             \/ \E d : live' = I!Rediscovered(live, d) /\ iUp'
             \/ \E key : live' = I!Unload(live, key) /\ iUp'
      PROVE  LiveIsFromDirectories'
  <2>1. CASE live' = live /\ iUp' = iUp
    BY <1>1, <2>1 DEF LiveIsFromDirectories, InDirectory
  <2>2. CASE live' = [n \in Directories |-> I!Nothing]
    BY <1>2, <2>2 DEF LiveIsFromDirectories, InDirectory
  <2>3. ASSUME NEW d, live' = I!Rediscovered(live, d), iUp' PROVE LiveIsFromDirectories'
    <3>1. \A n \in Directories : InDirectory(live'[n])
      BY <1>1, <2>3, RediscoveredForms
    <3> QED
      BY <2>3, <3>1 DEF LiveIsFromDirectories, InDirectory
  <2>4. ASSUME NEW key, live' = I!Unload(live, key), iUp' PROVE LiveIsFromDirectories'
    <3>1. \A n \in Directories : InDirectory(live'[n])
      BY <1>1, <2>4, UnloadedForms
    <3> QED
      BY <2>4, <3>1 DEF LiveIsFromDirectories, InDirectory
  <2> QED
    BY <1>4, <2>1, <2>2, <2>3, <2>4
<1>5. jobs' = jobs => JobsNumbered'
  BY <1>1 DEF JobsNumbered
<1>6. ASSUME NEW bad, I!Launch(bad) PROVE InstallForms'
  <2>1. /\ iUp' /\ jobs' = jobs /\ agreed' = agreed /\ live' = I!Rediscovered(live, plugins')
        /\ seeded' = seeded \cup I!Seeds(I!Extracted(plugins), bad) \cup I!Present(I!Extracted(plugins))
    BY <1>6 DEF I!Launch
  <2>2. seeded' \subseteq seeded \cup Directories
    BY <2>1, InstallAssumption DEF I!Seeds, I!Present
  <2> QED
    BY <1>3, <1>4, <1>5, <2>1, <2>2 DEF InstallForms
<1>7. CASE I!Quit
  <2>1. UNCHANGED <<seeded, agreed>> /\ jobs' = {} /\ live' = [n \in Directories |-> I!Nothing]
    BY <1>7 DEF I!Quit, I!Ended
  <2> QED
    BY <1>1, <1>3, <1>4, <2>1, JobsStep DEF InstallForms
<1>8. CASE I!SetAllowUnsigned
  BY <1>3, <1>4, <1>5, <1>8 DEF I!SetAllowUnsigned, InstallForms
<1>9. CASE I!Rediscover
  <2>1. UNCHANGED <<seeded, agreed, jobs, iUp>> /\ iUp /\ live' = I!Rediscovered(live, plugins')
    BY <1>9 DEF I!Rediscover
  <2> QED
    BY <1>3, <1>4, <1>5, <2>1 DEF InstallForms
<1>10. ASSUME NEW r \in Rows, I!Install(r) PROVE InstallForms'
  <2>1. UNCHANGED <<seeded, agreed, live, iUp>>
    BY <1>10 DEF I!Install
  <2> QED
    BY <1>1, <1>3, <1>4, <1>10, <2>1, JobsStep DEF InstallForms
<1>11. ASSUME NEW r \in Rows, I!InstallAgain(r) PROVE InstallForms'
  <2>1. UNCHANGED <<seeded, agreed, jobs, iUp>> /\ iUp /\ live' = I!Rediscovered(live, plugins)
    BY <1>11 DEF I!InstallAgain
  <2> QED
    BY <1>3, <1>4, <1>5, <2>1 DEF InstallForms
<1>12. ASSUME NEW r \in Rows, I!Uninstall(r) PROVE InstallForms'
  <2>1. UNCHANGED <<seeded, agreed, jobs, iUp>> /\ iUp /\ live' = I!Unload(live, Base[r])
    BY <1>12 DEF I!Uninstall
  <2> QED
    BY <1>3, <1>4, <1>5, <2>1 DEF InstallForms
<1>13. ASSUME NEW source, I!ReplaceRows(source) PROVE InstallForms'
  BY <1>3, <1>4, <1>5, <1>13 DEF I!ReplaceRows, InstallForms
<1>14. ASSUME NEW j \in jobs, I!Fail(j) PROVE InstallForms'
  <2>1. UNCHANGED <<seeded, agreed, live, iUp>> /\ I!Ends(j)
    BY <1>14 DEF I!Fail, I!Same
  <2> QED
    BY <1>1, <1>3, <1>4, <2>1, JobsStep DEF InstallForms
<1>15. ASSUME NEW j \in jobs, I!Resolve(j) PROVE InstallForms'
  <2>1. /\ UNCHANGED <<seeded, agreed, iUp>> /\ iUp
        /\ live' = live \/ live' = I!Rediscovered(live, plugins)
        /\ I!Ends(j) \/ \E to : I!Goes(j, to)
    BY <1>1, <1>15 DEF I!Resolve
  <2>2. JobsNumbered'
    BY <1>1, <2>1, JobsStep
  <2> QED
    BY <1>3, <1>4, <2>1, <2>2 DEF InstallForms
<1>16. ASSUME NEW j \in jobs, I!Fetch(j) PROVE InstallForms'
  <2>1. UNCHANGED <<seeded, agreed, live, iUp>> /\ \E to : I!Goes(j, to)
    BY <1>16 DEF I!Fetch
  <2>2. JobsNumbered'
    BY <1>1, <2>1, JobsStep
  <2> QED
    BY <1>3, <1>4, <2>1, <2>2 DEF InstallForms
<1>17. ASSUME NEW j \in jobs, NEW pkg \in Packages, I!Downloaded(j, pkg) PROVE InstallForms'
  <2>1. Base[j.row] \in Directories /\ iUp
    BY <1>1, InstallAssumption
  <2>2. I!Ends(j)
    BY <1>17 DEF I!Downloaded
  <2>3. \/ UNCHANGED <<seeded, agreed, live, iUp>>
        \/ \E e, consents, marks : I!Promoted(Base[j.row], e, consents, marks)
    BY <1>17 DEF I!Downloaded
  <2>4. NamesOfDirectories' /\ LiveIsFromDirectories'
    BY <1>3, <1>4, <2>1, <2>3, PromotedForms
  <2> QED
    BY <1>1, <2>2, <2>4, JobsStep DEF InstallForms
<1>18. ASSUME NEW j \in jobs, NEW pkg \in Packages, I!CrashOnDownload(j, pkg) PROVE InstallForms'
  <2>1. UNCHANGED <<seeded, agreed>> /\ jobs' = {} /\ live' = [n \in Directories |-> I!Nothing]
    BY <1>18 DEF I!CrashOnDownload, I!Ended
  <2> QED
    BY <1>1, <1>3, <1>4, <2>1, JobsStep DEF InstallForms
<1>19. ASSUME NEW j \in jobs, NEW pkg \in Packages, I!Finalize(j, pkg) PROVE InstallForms'
  <2> DEFINE e == IF j.row \in staged THEN I!AsDir(pkg) ELSE I!NoManifest
  <2> DEFINE n == I!NameFor(e, Base[j.row])
  <2>1. Base[j.row] \in Directories /\ iUp /\ e \in Shapes
    BY <1>1, InstallAssumption, ShapesOfPackages
  <2>2. n \in Directories
    BY <2>1, NamedForADirectory
  <2>3. I!Ends(j)
    BY <1>19 DEF I!Finalize
  <2>4. \/ UNCHANGED <<seeded, agreed, live, iUp>>
        \/ I!Promoted(n, e, FALSE, I!Marked(j.row))
        \/ UNCHANGED <<seeded, agreed, iUp>> /\ live' = I!Unload(live, I!DirName(n))
    BY <1>19 DEF I!Finalize
  <2> HIDE DEF e, n
  <2>5. NamesOfDirectories' /\ LiveIsFromDirectories'
    BY <1>3, <1>4, <2>1, <2>2, <2>4, PromotedForms
  <2> QED
    BY <1>1, <2>3, <2>5, JobsStep DEF InstallForms
<1>20. ASSUME NEW n \in Directories, I!Allow(n) PROVE InstallForms'
  <2>1. /\ UNCHANGED <<seeded, jobs, iUp>> /\ iUp /\ agreed' = agreed \cup {n}
        /\ live' = I!Rediscovered(live, plugins')
    BY <1>20 DEF I!Allow
  <2> QED
    BY <1>3, <1>4, <1>5, <2>1 DEF InstallForms
<1>21. ASSUME NEW n \in Directories, I!Remove(n) \/ I!RemoveQuarantined(n) PROVE InstallForms'
  <2>1. /\ UNCHANGED <<seeded, jobs, iUp>> /\ iUp /\ agreed' \subseteq agreed
        /\ \E key : live' = I!Unload(live, key)
    BY <1>21 DEF I!Remove, I!RemoveQuarantined, I!Forget
  <2> QED
    BY <1>3, <1>4, <1>5, <2>1 DEF InstallForms
<1>22. ASSUME NEW n \in Directories, NEW pkg \in Packages, I!Drop(n, pkg) PROVE InstallForms'
  BY <1>3, <1>4, <1>5, <1>22 DEF I!Drop, InstallForms
<1>23. ASSUME NEW n \in Directories, NEW pkg \in Packages, NEW confirmed \in BOOLEAN,
              I!InstallFile(pkg, n, confirmed)
       PROVE  InstallForms'
  <2>1. I!NameFor(I!AsDir(pkg), n) \in Directories
    BY ShapesOfPackages, NamedForADirectory
  <2>2. /\ iUp /\ jobs' = jobs
        /\ \E e, consents, marks : I!Promoted(I!NameFor(I!AsDir(pkg), n), e, consents, marks)
    BY <1>23 DEF I!InstallFile
  <2> QED
    BY <1>5, <2>1, <2>2, PromotedForms DEF InstallForms
<1>24. CASE UNCHANGED I!vars
  BY <1>3, <1>4, <1>5, <1>24 DEF I!vars, InstallForms
<1> QED
  BY <1>6, <1>7, <1>8, <1>9, <1>10, <1>11, <1>12, <1>13, <1>14, <1>15, <1>16, <1>17, <1>18, <1>19,
     <1>20, <1>21, <1>22, <1>23, <1>24
     DEF I!Next

LEMMA InstallAlways == I!Spec => [](ConsentInv /\ InstallForms)
<1>1. I!Init => ConsentInv
  BY ShapesOfPackages DEF I!Init, ConsentInv, InstallTyped
<1>2. I!Init => InstallForms
  BY FS_EmptySet
  DEF I!Init, InstallForms, JobsNumbered, NamesOfDirectories, LiveIsFromDirectories, InDirectory
<1> QED
  BY <1>1, <1>2, ConsentStep, FormsStep, PTL DEF I!Spec

LEMMA InstallIsTyped == ConsentInv /\ InstallForms => I!TypeOK
<1> SUFFICES ASSUME ConsentInv, InstallForms PROVE I!TypeOK
  OBVIOUS
<1>1. ASSUME NEW n \in Directories
      PROVE  away[n].form \in {"none", "dir"} /\ live[n].form \in {"none", "dir"}
  <2>1. away[n] \in Shapes /\ away[n].form # "zip" /\ InDirectory(live[n])
    BY DEF ConsentInv, InstallTyped, InstallForms, LiveIsFromDirectories
  <2> QED
    BY <2>1, ShapesOfPackages DEF Shapes, InDirectory
<1>2. allowed \subseteq Directories /\ seeded \subseteq Directories /\ agreed \subseteq Directories
  BY InstallAssumption DEF ConsentInv, InstallForms, NamesOfDirectories
<1> QED
  BY <1>1, <1>2 DEF I!TypeOK, ConsentInv, InstallForms, JobsNumbered, LiveIsFromDirectories

-----------------------------------------------------------------------------
(* Editing.  A profile that is fit to be edited has a root page, bindings     *)
(* that are complete, and no instance whose live state is not one of its own. *)
Acts == Actions \cup Folders \cup {Volume, GoBack}
ChainsOf == {c \in Seq([act : Acts, set : Settings \cup {None}]) : Len(c) <= 2}
StatesOf == {t \in Seq(Looks \cup {Plain}) : Len(t) <= 2}
InstancesOf ==
  {i \in [id : Acts \cup {Toggle, None}, states : StatesOf, cur : 0..1, set : Settings \cup {None}] :
     i.cur < Len(i.states) \/ i.cur = 0}
Fitting == [chain : ChainsOf, side : {None, Volume}, look : Looks \cup {Plain}, inst : {None} \cup InstancesOf]
PagesOf == [Keys -> Fitting \cup {None}]
Editable == {p \in [pages : [Folders \cup {Root} -> PagesOf \cup {None}],
                    rest : [Dials \cup Zones -> Fitting \cup {None}]] : p.pages[Root] # None}

(* An edit may make pages, and takes none away.                               *)
Follows(p) ==
  p \in Editable /\ \A f \in Folders \cup {Root} : prof.pages[f] # None => p.pages[f] # None

EditingInv ==
  /\ prof \in Editable /\ disk \in Editable /\ (~unsaved => disk = prof)
  /\ nav \in Seq(Folders \cup {Root}) /\ nav # <<>>
  /\ \A i \in DOMAIN nav : prof.pages[nav[i]] # None
  /\ seen = E!Seen(prof, nav)
  /\ unsaved \in BOOLEAN /\ left \in 0..MaxEdits /\ fails \in 0..MaxFails

LEMMA BoundedSequences ==
  ASSUME NEW S, NEW c \in Seq(S), Len(c) <= 2
  PROVE  c \in UNION {[1..n -> S] : n \in 0..2}
<1>1. Len(c) \in Nat /\ c \in [1..Len(c) -> S]
  BY LenProperties
<1>2. Len(c) \in 0..2
  BY <1>1
<1> QED
  BY <1>1, <1>2

LEMMA FittingAreBindings == Fitting \subseteq E!Bindings
<1> SUFFICES ASSUME NEW b \in Fitting PROVE b \in E!Bindings
  OBVIOUS
<1>1. b.chain \in E!Chains
  <2>1. b.chain \in Seq([act : Acts, set : Settings \cup {None}]) /\ Len(b.chain) <= 2
    BY DEF Fitting, ChainsOf
  <2> QED
    BY <2>1, BoundedSequences DEF E!Chains, Acts
<1>2. ASSUME b.inst # None
      PROVE  b.inst \in [id : Actions \cup Folders \cup {Toggle, Volume, GoBack, None},
                         states : UNION {[1..n -> Looks \cup {Plain}] : n \in 0..2},
                         cur : 0..1, set : Settings \cup {None}]
  <2>1. b.inst \in InstancesOf
    BY <1>2 DEF Fitting
  <2>2. b.inst.states \in Seq(Looks \cup {Plain}) /\ Len(b.inst.states) <= 2
    BY <2>1 DEF InstancesOf, StatesOf
  <2>3. b.inst.states \in UNION {[1..n -> Looks \cup {Plain}] : n \in 0..2}
    BY <2>2, BoundedSequences
  <2>4. b.inst.id \in Actions \cup Folders \cup {Toggle, Volume, GoBack, None} /\ b.inst.cur \in 0..1
        /\ b.inst.set \in Settings \cup {None}
        /\ b.inst = [id |-> b.inst.id, states |-> b.inst.states, cur |-> b.inst.cur, set |-> b.inst.set]
    BY <2>1 DEF InstancesOf, Acts
  <2> QED
    BY <2>3, <2>4
<1>3. /\ b.side \in {None, Volume} /\ b.look \in Looks \cup {Plain}
      /\ b = [chain |-> b.chain, side |-> b.side, look |-> b.look, inst |-> b.inst]
  BY DEF Fitting
<1> QED
  BY <1>1, <1>2, <1>3 DEF E!Bindings

LEMMA PagesAreSome == \A m \in PagesOf : m # None
<1>1. PagesOf \subseteq [Keys -> E!Bindings \cup {None}]
  BY FittingAreBindings DEF PagesOf
<1> QED
  BY <1>1, EditingAssumption

LEMMA PageIsThere ==
  ASSUME EditingInv
  PROVE  /\ E!Page(prof, nav) \in Folders \cup {Root}
         /\ prof.pages[E!Page(prof, nav)] \in PagesOf
<1>1. Len(nav) \in DOMAIN nav /\ nav[Len(nav)] \in Folders \cup {Root}
  BY DEF EditingInv
<1> QED
  BY <1>1, PagesAreSome DEF EditingInv, E!Page, Editable

(* What is at a slot, and a profile with something else there.                *)
LEMMA AtASlot ==
  ASSUME EditingInv, NEW s \in E!Slots
  PROVE  E!At(s) \in Fitting \cup {None}
BY PageIsThere DEF E!At, E!Slots, EditingInv, Editable, PagesOf

LEMMA EmptyFits == E!Empty \in Fitting
<1>1. <<>> \in Seq([act : Acts, set : Settings \cup {None}])
  OBVIOUS
<1>2. \A t \in Seq([act : Acts, set : Settings \cup {None}]) : t = <<>> => Len(t) <= 2
  OBVIOUS
<1>3. <<>> \in ChainsOf
  BY <1>1, <1>2 DEF ChainsOf
<1> QED
  BY <1>3 DEF E!Empty, Fitting

LEMMA MadeFits ==
  ASSUME EditingInv, NEW s \in E!Slots
  PROVE  E!Made(s) \in Fitting
BY AtASlot, EmptyFits DEF E!Made

LEMMA WithFollows ==
  ASSUME EditingInv, NEW p, Follows(p), NEW s \in E!Slots, NEW b \in Fitting \cup {None}
  PROVE  Follows(E!With(p, s, b))
<1> DEFINE f == E!Page(prof, nav)
<1>1. f \in Folders \cup {Root} /\ p.pages[f] \in PagesOf
  BY PageIsThere, PagesAreSome DEF Follows, Editable
<1>2. CASE s \in Keys
  <2>1. E!With(p, s, b) = [p EXCEPT !.pages = [p.pages EXCEPT ![f] = [p.pages[f] EXCEPT ![s] = b]]]
    BY <1>2 DEF E!With
  <2> HIDE DEF f
  <2> DEFINE m == [p.pages[f] EXCEPT ![s] = b]
  <2>2. m \in PagesOf
    BY <1>1, <1>2 DEF PagesOf
  <2>3. m # None
    BY <2>2, PagesAreSome
  <2> HIDE DEF m
  <2>4. p.pages \in [Folders \cup {Root} -> PagesOf \cup {None}]
        /\ p.rest \in [Dials \cup Zones -> Fitting \cup {None}]
        /\ p = [pages |-> p.pages, rest |-> p.rest] /\ p.pages[Root] # None
    BY DEF Follows, Editable
  <2> DEFINE g == [p.pages EXCEPT ![f] = m]
  <2>5. g \in [Folders \cup {Root} -> PagesOf \cup {None}]
        /\ \A h \in Folders \cup {Root} : p.pages[h] # None => g[h] # None
    BY <1>1, <2>2, <2>3, <2>4
  <2>6. E!With(p, s, b) = [pages |-> g, rest |-> p.rest]
    BY <2>1, <2>4 DEF m
  <2> HIDE DEF g
  <2>7. E!With(p, s, b) \in Editable
    BY <2>4, <2>5, <2>6 DEF Editable
  <2> QED
    BY <2>5, <2>6, <2>7 DEF Follows
<1>3. CASE s \notin Keys
  <2>1. E!With(p, s, b) = [p EXCEPT !.rest = [p.rest EXCEPT ![s] = b]]
    BY <1>3 DEF E!With
  <2>2. s \in Dials \cup Zones
    BY <1>3 DEF E!Slots
  <2> QED
    BY <2>1, <2>2 DEF Follows, Editable
<1> QED
  BY <1>2, <1>3

LEMMA ProfFollows == EditingInv => Follows(prof)
BY DEF EditingInv, Follows

LEMMA PutFollows ==
  ASSUME EditingInv, NEW s \in E!Slots, NEW b \in Fitting \cup {None}
  PROVE  Follows(E!Put(s, b))
BY ProfFollows, WithFollows DEF E!Put

LEMMA CommitKeeps ==
  ASSUME EditingInv, NEW p, Follows(p), E!Commit(p)
  PROVE  EditingInv'
<1>1. /\ left > 0 /\ left' = left - 1 /\ prof' = p /\ nav' = nav /\ seen' = E!Seen(p, nav)
      /\ \/ disk' = p /\ unsaved' = FALSE /\ fails' = fails
         \/ fails < MaxFails /\ fails' = fails + 1 /\ unsaved' = TRUE /\ disk' = disk
  BY DEF E!Commit
<1>2. left' \in 0..MaxEdits /\ fails' \in 0..MaxFails
  BY <1>1, EditingAssumption DEF EditingInv
<1>3. unsaved' \in BOOLEAN
  BY <1>1
<1>4. \A i \in DOMAIN nav : p.pages[nav[i]] # None
  <2>1. \A i \in DOMAIN nav : nav[i] \in Folders \cup {Root}
    BY DEF EditingInv
  <2> QED
    BY <2>1 DEF EditingInv, Follows
<1>5. prof' \in Editable /\ disk' \in Editable /\ (~unsaved' => disk' = prof')
  BY <1>1 DEF EditingInv, Follows
<1>6. seen' = E!Seen(prof, nav)'
  BY <1>1 DEF E!Seen, E!Page
<1> QED
  BY <1>1, <1>2, <1>3, <1>4, <1>5, <1>6 DEF EditingInv

(* Walking through the folders changes only what is open, and shown.          *)
LEMMA WalkKeeps ==
  ASSUME EditingInv, NEW stack \in Seq(Folders \cup {Root}), stack # <<>>,
         \A i \in DOMAIN stack : prof.pages[stack[i]] # None, E!Walk(stack)
  PROVE  EditingInv'
BY DEF EditingInv, E!Walk, E!Seen, E!Page

(* The parts of a binding that an edit puts together.                         *)
LEMMA StepFits ==
  ASSUME NEW a \in Acts, NEW v \in Settings \cup {None}
  PROVE  E!Step(a, v) \in [act : Acts, set : Settings \cup {None}]
BY DEF E!Step

LEMMA OneStepFits ==
  ASSUME NEW a \in Acts, NEW v \in Settings \cup {None}
  PROVE  <<E!Step(a, v)>> \in ChainsOf
<1> DEFINE t == E!Step(a, v)
<1> DEFINE S == [act : Acts, set : Settings \cup {None}]
<1>1. t \in S
  BY StepFits
<1> HIDE DEF t, S
<1>2. <<t>> \in Seq(S) /\ Len(<<t>>) <= 2
  BY <1>1
<1> QED
  BY <1>2 DEF ChainsOf, S, t

LEMMA SomeSetting == (CHOOSE x \in Settings : TRUE) \in Settings
BY EditingAssumption

LEMMA WithoutFits ==
  ASSUME NEW c \in ChainsOf, NEW i \in DOMAIN c
  PROVE  E!Without(c, i) \in ChainsOf
<1> DEFINE S == [act : Acts, set : Settings \cup {None}]
<1>1. c \in Seq(S) /\ Len(c) <= 2
  BY DEF ChainsOf
<1> HIDE DEF S
<1>2. i \in 1..Len(c) /\ Len(c) \in Nat /\ \A j \in 1..Len(c) : c[j] \in S
  BY <1>1
<1>3. SubSeq(c, 1, i - 1) \in Seq(S) /\ Len(SubSeq(c, 1, i - 1)) = i - 1
  BY <1>2, SubSeqProperties
<1>4. SubSeq(c, i + 1, Len(c)) \in Seq(S) /\ Len(SubSeq(c, i + 1, Len(c))) = Len(c) - i
  BY <1>2, SubSeqProperties
<1>5. E!Without(c, i) \in Seq(S) /\ Len(E!Without(c, i)) = Len(c) - 1
  <2> DEFINE l == SubSeq(c, 1, i - 1)
  <2> DEFINE r == SubSeq(c, i + 1, Len(c))
  <2>1. E!Without(c, i) = l \o r
    BY DEF E!Without
  <2>2. l \in Seq(S) /\ Len(l) = i - 1 /\ r \in Seq(S) /\ Len(r) = Len(c) - i
    BY <1>3, <1>4
  <2> HIDE DEF l, r
  <2>3. l \o r \in Seq(S) /\ Len(l \o r) = Len(l) + Len(r)
    BY <2>2, ConcatProperties
  <2> QED
    BY <1>2, <2>1, <2>2, <2>3
<1> QED
  BY <1>1, <1>2, <1>5 DEF ChainsOf, S

LEMMA SettingsFit ==
  ASSUME NEW c \in ChainsOf, NEW v \in Settings
  PROVE  [i \in DOMAIN c |-> IF c[i].act \in Actions THEN E!Step(c[i].act, v) ELSE c[i]] \in ChainsOf
<1> DEFINE S == [act : Acts, set : Settings \cup {None}]
<1> DEFINE d == [i \in DOMAIN c |-> IF c[i].act \in Actions THEN E!Step(c[i].act, v) ELSE c[i]]
<1>1. c \in Seq(S) /\ Len(c) <= 2 /\ Len(c) \in Nat /\ DOMAIN c = 1..Len(c)
  BY DEF ChainsOf
<1>2. \A i \in 1..Len(c) : d[i] \in S
  <2> SUFFICES ASSUME NEW i \in 1..Len(c) PROVE d[i] \in S
    OBVIOUS
  <2>1. c[i] \in S
    <3> HIDE DEF S
    <3> QED
      BY <1>1
  <2>2. c[i].act \in Actions => E!Step(c[i].act, v) \in S
    BY StepFits DEF Acts
  <2> QED
    BY <1>1, <2>1, <2>2
<1>3. d = [i \in 1..Len(c) |-> d[i]]
  BY <1>1
<1> HIDE DEF d, S
<1>4. d \in [1..Len(c) -> S]
  BY <1>2, <1>3
<1>5. d \in Seq(S) /\ Len(d) = Len(c)
  BY <1>1, <1>4
<1> QED
  BY <1>1, <1>5 DEF ChainsOf, S, d

(* Looks are added until there is one for state n, which is given its own.    *)
LEMMA ExtendedFits ==
  ASSUME NEW t \in StatesOf, NEW n \in 0..1, NEW v \in Looks
  PROVE  /\ [E!Extended(t, n) EXCEPT ![n + 1] = v] \in StatesOf
         /\ Len([E!Extended(t, n) EXCEPT ![n + 1] = v]) >= Len(t)
         /\ Len([E!Extended(t, n) EXCEPT ![n + 1] = v]) > n
<1> DEFINE S == Looks \cup {Plain}
<1> DEFINE m == IF n < Len(t) THEN 0 ELSE n + 1 - Len(t)
<1> DEFINE more == [i \in 1..m |-> Plain]
<1>1. t \in Seq(S) /\ Len(t) \in Nat /\ Len(t) <= 2 /\ Plain \in S /\ v \in S
  BY DEF StatesOf
<1>2. m \in Nat /\ Len(t) + m <= 2 /\ Len(t) + m > n
  BY <1>1
<1> HIDE DEF S, m
<1>3. more \in Seq(S) /\ Len(more) = m
  BY <1>1, <1>2
<1>4. E!Extended(t, n) = t \o more
  BY DEF E!Extended, m
<1> HIDE DEF more
<1>5. E!Extended(t, n) \in Seq(S) /\ Len(E!Extended(t, n)) = Len(t) + m
  BY <1>1, <1>3, <1>4, ConcatProperties
<1>6. n + 1 \in 1..Len(E!Extended(t, n))
  BY <1>1, <1>2, <1>5
<1>7. [E!Extended(t, n) EXCEPT ![n + 1] = v] \in Seq(S)
      /\ Len([E!Extended(t, n) EXCEPT ![n + 1] = v]) = Len(t) + m
  BY <1>1, <1>5, <1>6, ExceptSeq
<1> QED
  BY <1>1, <1>2, <1>7 DEF StatesOf, S

LEMMA AppendFits ==
  ASSUME NEW c \in ChainsOf, Len(c) < 2, NEW t \in [act : Acts, set : Settings \cup {None}]
  PROVE  Append(c, t) \in ChainsOf
BY AppendProperties DEF ChainsOf

LEMMA ReorderFits ==
  ASSUME NEW c \in ChainsOf, Len(c) = 2
  PROVE  <<c[2], c[1]>> \in ChainsOf
<1> DEFINE S == [act : Acts, set : Settings \cup {None}]
<1>1. c \in Seq(S)
  BY DEF ChainsOf
<1> HIDE DEF S
<1>2. c[1] \in S /\ c[2] \in S
  BY <1>1
<1>3. <<c[2], c[1]>> \in Seq(S) /\ Len(<<c[2], c[1]>>) <= 2
  BY <1>2
<1> QED
  BY <1>3 DEF ChainsOf, S

(* What may be put at a slot, and so written.                                 *)
LEMMA PuttingKeeps ==
  ASSUME EditingInv, NEW s \in E!Slots, NEW b \in Fitting \cup {None}, E!Commit(E!Put(s, b))
  PROVE  EditingInv'
BY PutFollows, CommitKeeps

LEMMA BindKeeps ==
  ASSUME EditingInv, NEW s \in E!Slots, NEW a \in Actions, NEW v \in Looks \cup {Plain}, E!Bind(s, a, v)
  PROVE  EditingInv'
<1> DEFINE c == <<E!Step(a, CHOOSE x \in Settings : TRUE)>>
<1> DEFINE b == [E!Made(s) EXCEPT !.chain = c, !.look = v]
<1>1. c \in ChainsOf
  BY SomeSetting, OneStepFits DEF Acts
<1> HIDE DEF c
<1>2. b \in Fitting
  BY <1>1, MadeFits DEF Fitting
<1>3. E!Commit(E!Put(s, b))
  BY DEF E!Bind, c
<1> HIDE DEF b
<1> QED
  BY <1>2, <1>3, PuttingKeeps

LEMMA VolumeKeeps ==
  ASSUME EditingInv, NEW d \in Dials, E!BindVolume(d)
  PROVE  EditingInv'
<1> DEFINE c == <<E!Step(Volume, None)>>
<1> DEFINE b == [E!Made(d) EXCEPT !.chain = c, !.side = Volume, !.look = Plain]
<1>1. c \in ChainsOf /\ d \in E!Slots
  BY OneStepFits DEF Acts, E!Slots
<1> HIDE DEF c
<1>2. b \in Fitting
  BY <1>1, MadeFits DEF Fitting
<1>3. E!Commit(E!Put(d, b))
  BY DEF E!BindVolume, c
<1> HIDE DEF b
<1> QED
  BY <1>1, <1>2, <1>3, PuttingKeeps

(* The chain of a slot grows, is put in another order, and shrinks.           *)
LEMMA ChainKeeps ==
  ASSUME EditingInv, NEW s \in E!Slots, NEW b \in Fitting, NEW c \in ChainsOf,
         E!Commit(E!Put(s, [b EXCEPT !.chain = c]))
  PROVE  EditingInv'
<1> DEFINE d == [b EXCEPT !.chain = c]
<1>1. d \in Fitting
  BY DEF Fitting
<1>2. E!Commit(E!Put(s, d))
  OBVIOUS
<1> HIDE DEF d
<1> QED
  BY <1>1, <1>2, PuttingKeeps

LEMMA StepsKeep ==
  ASSUME EditingInv, NEW k \in Keys,
         \/ \E a \in Actions : E!Append1(k, a)
         \/ E!Reorder(k) \/ \E i \in 1..2 : E!RemoveStep(k, i)
  PROVE  EditingInv'
<1>1. k \in E!Slots
  BY DEF E!Slots
<1>2. E!At(k) # None => E!At(k) \in Fitting /\ E!At(k).chain \in ChainsOf
  BY <1>1, AtASlot DEF Fitting
<1>3. ASSUME NEW a \in Actions, E!Append1(k, a) PROVE EditingInv'
  <2> DEFINE b == E!Made(k)
  <2> DEFINE t == E!Step(a, CHOOSE x \in Settings : TRUE)
  <2>1. b \in Fitting /\ b.chain \in ChainsOf
    BY <1>1, MadeFits DEF Fitting
  <2>2. t \in [act : Acts, set : Settings \cup {None}]
    BY SomeSetting, StepFits DEF Acts
  <2>3. Len(b.chain) < 2 /\ E!Commit(E!Put(k, [b EXCEPT !.chain = Append(b.chain, t)]))
    BY <1>3 DEF E!Append1
  <2> HIDE DEF b, t
  <2> QED
    BY <1>1, <2>1, <2>2, <2>3, AppendFits, ChainKeeps
<1>4. CASE E!Reorder(k)
  <2> DEFINE b == E!At(k)
  <2>1. b \in Fitting /\ b.chain \in ChainsOf /\ Len(b.chain) = 2
        /\ E!Commit(E!Put(k, [b EXCEPT !.chain = <<b.chain[2], b.chain[1]>>]))
    BY <1>2, <1>4 DEF E!Reorder
  <2> HIDE DEF b
  <2> QED
    BY <1>1, <2>1, ReorderFits, ChainKeeps
<1>5. ASSUME NEW i \in 1..2, E!RemoveStep(k, i) PROVE EditingInv'
  <2> DEFINE b == E!At(k)
  <2>1. b \in Fitting /\ b.chain \in ChainsOf /\ i \in DOMAIN b.chain
        /\ E!Commit(E!Put(k, [b EXCEPT !.chain = E!Without(b.chain, i)]))
    BY <1>2, <1>5 DEF E!RemoveStep
  <2> HIDE DEF b
  <2> QED
    BY <1>1, <2>1, WithoutFits, ChainKeeps
<1> QED
  BY <1>3, <1>4, <1>5

LEMMA RemovalKeeps ==
  ASSUME EditingInv, NEW s \in E!Slots, E!RemoveBinding(s)
  PROVE  EditingInv'
BY PuttingKeeps DEF E!RemoveBinding

(* A folder: its page is there before the key that opens it.                  *)
LEMMA FolderKeeps ==
  ASSUME EditingInv, NEW k \in Keys, NEW f \in Folders, E!MakeFolder(k, f)
  PROVE  EditingInv'
<1> DEFINE page == [E!NoKeys EXCEPT ![FirstKey] = E!BackKey]
<1> DEFINE made == [prof EXCEPT !.pages[f] = page]
<1> DEFINE c == <<E!Step(f, None)>>
<1> DEFINE door == [E!Made(k) EXCEPT !.chain = c, !.side = None, !.look = Plain]
<1>1. k \in E!Slots /\ c \in ChainsOf /\ <<E!Step(GoBack, None)>> \in ChainsOf
  BY OneStepFits DEF Acts, E!Slots
<1>2. E!BackKey \in Fitting
  BY <1>1, EmptyFits DEF E!BackKey, Fitting
<1>3. page \in PagesOf /\ page # None
  <2>1. page \in PagesOf
    BY <1>2 DEF E!NoKeys, PagesOf
  <2> QED
    BY <2>1, PagesAreSome
<1>4. E!Commit(E!With(made, k, door))
  BY DEF E!MakeFolder
<1> HIDE DEF page
<1>5. Follows(made)
  <2> DEFINE g == [prof.pages EXCEPT ![f] = page]
  <2>1. prof.pages \in [Folders \cup {Root} -> PagesOf \cup {None}]
        /\ prof.rest \in [Dials \cup Zones -> Fitting \cup {None}]
        /\ prof = [pages |-> prof.pages, rest |-> prof.rest] /\ prof.pages[Root] # None
    BY DEF EditingInv, Editable
  <2>2. g \in [Folders \cup {Root} -> PagesOf \cup {None}]
        /\ \A h \in Folders \cup {Root} : prof.pages[h] # None => g[h] # None
    BY <1>3, <2>1
  <2>3. made = [pages |-> g, rest |-> prof.rest]
    BY <2>1
  <2> HIDE DEF g, made
  <2> QED
    BY <2>1, <2>2, <2>3 DEF Follows, Editable
<1> HIDE DEF c, made
<1>6. door \in Fitting
  BY <1>1, MadeFits DEF Fitting
<1> HIDE DEF door
<1> QED
  BY <1>1, <1>4, <1>5, <1>6, WithFollows, CommitKeeps

(* Toggles: what is put has a live state among its states.                    *)
LEMMA InstanceFits ==
  ASSUME NEW id \in Acts \cup {Toggle, None}, NEW t \in StatesOf, NEW cur \in 0..1,
         NEW v \in Settings \cup {None}, cur < Len(t) \/ cur = 0
  PROVE  [id |-> id, states |-> t, cur |-> cur, set |-> v] \in InstancesOf
BY DEF InstancesOf

LEMMA PairFits ==
  ASSUME NEW l \in Looks \cup {Plain}, NEW r \in Looks \cup {Plain}
  PROVE  <<l, r>> \in StatesOf
<1> DEFINE S == Looks \cup {Plain}
<1> HIDE DEF S
<1>1. l \in S /\ r \in S
  BY DEF S
<1>2. <<l, r>> \in Seq(S) /\ Len(<<l, r>>) <= 2
  BY <1>1
<1> QED
  BY <1>2 DEF StatesOf, S

LEMMA StatesKeep ==
  ASSUME EditingInv, NEW k \in Keys,
         NEW t \in {<<>>, <<Plain, Plain>>} \cup {<<v, Plain>> : v \in Looks}, E!SetStates(k, t)
  PROVE  EditingInv'
<1> DEFINE b == E!Made(k)
<1> DEFINE old == IF b.inst = None THEN 0 ELSE b.inst.cur
<1> DEFINE cur == IF old < Len(t) THEN old ELSE 0
<1> DEFINE bare == [b EXCEPT !.inst = None]
<1> DEFINE inst == [id |-> Toggle, states |-> t, cur |-> cur, set |-> None]
<1> DEFINE full == [b EXCEPT !.inst = inst, !.look = t[cur + 1]]
<1>1. k \in E!Slots
  BY DEF E!Slots
<1>2. b \in Fitting /\ old \in 0..1
  BY <1>1, MadeFits DEF Fitting, InstancesOf
<1>3. IF Len(t) < 2 THEN E!Commit(E!Put(k, bare)) ELSE E!Commit(E!Put(k, full))
  BY DEF E!SetStates, E!Instance
<1> HIDE DEF b, old
<1>4. bare \in Fitting
  BY <1>2 DEF Fitting
<1>5. ASSUME Len(t) >= 2 PROVE full \in Fitting
  <2>1. \A x \in Seq(Looks) : x = <<>> => Len(x) = 0
    OBVIOUS
  <2>2. t # <<>>
    BY <1>5, <2>1
  <2>3. PICK v \in Looks \cup {Plain} : t = <<v, Plain>>
    BY <2>2
  <2>4. t \in StatesOf /\ Len(t) = 2 /\ cur = old
    BY <1>2, <2>3, PairFits
  <2>5. t[cur + 1] \in Looks \cup {Plain}
    BY <1>2, <2>3, <2>4
  <2> DEFINE l == t[cur + 1]
  <2>6. inst \in InstancesOf
    BY <1>2, <2>4, InstanceFits
  <2> HIDE DEF inst, cur, l
  <2>7. [b EXCEPT !.inst = inst, !.look = l] \in Fitting
    BY <1>2, <2>5, <2>6 DEF Fitting, l
  <2> QED
    BY <2>7 DEF l
<1> HIDE DEF bare, full
<1>6. Len(t) < 2 \/ Len(t) >= 2
  <2>1. Len(t) \in Nat
    <3>1. ASSUME t = <<>> PROVE Len(t) \in Nat
      <4>1. \A x \in Seq(Looks) : x = <<>> => Len(x) \in Nat
        OBVIOUS
      <4> QED
        BY <3>1, <4>1
    <3>2. ASSUME NEW v, t = <<v, Plain>> PROVE Len(t) \in Nat
      BY <3>2
    <3> QED
      BY <3>1, <3>2
  <2> QED
    BY <2>1
<1> QED
  BY <1>1, <1>3, <1>4, <1>5, <1>6, PuttingKeeps

LEMMA TurnKeeps ==
  ASSUME EditingInv, NEW s \in E!Slots, E!HasInstance(s), NEW n \in Nat,
         n < Len(E!At(s).inst.states), E!Turn(s, n)
  PROVE  EditingInv'
<1> DEFINE b == E!At(s)
<1> DEFINE turned == [b.inst EXCEPT !.cur = n]
<1> DEFINE l == b.inst.states[n + 1]
<1>1. b \in Fitting /\ b.inst \in InstancesOf
  BY AtASlot DEF E!HasInstance, Fitting
<1>2. E!Commit(E!Put(s, [b EXCEPT !.inst = turned, !.look = l]))
  BY DEF E!Turn
<1>3. b.inst.states \in Seq(Looks \cup {Plain}) /\ Len(b.inst.states) <= 2 /\ n < Len(b.inst.states)
  BY <1>1 DEF InstancesOf, StatesOf
<1> HIDE DEF b
<1>4. l \in Looks \cup {Plain} /\ n \in 0..1
  BY <1>3
<1>5. turned \in InstancesOf
  BY <1>1, <1>3, <1>4 DEF InstancesOf
<1> HIDE DEF turned, l
<1>6. [b EXCEPT !.inst = turned, !.look = l] \in Fitting
  BY <1>1, <1>4, <1>5 DEF Fitting
<1> QED
  BY <1>2, <1>6, PuttingKeeps

LEMMA CycleKeeps ==
  ASSUME EditingInv, NEW s \in E!Slots, E!Cycle(s)
  PROVE  EditingInv'
<1> DEFINE i == E!At(s).inst
<1>1. E!HasInstance(s) /\ Len(i.states) > 1 /\ E!Turn(s, (i.cur + 1) % Len(i.states))
  BY DEF E!Cycle
<1>2. i \in InstancesOf
  BY <1>1, AtASlot DEF E!HasInstance, Fitting
<1>3. i.cur \in 0..1 /\ Len(i.states) \in Nat
  BY <1>2 DEF InstancesOf, StatesOf
<1>4. (i.cur + 1) % Len(i.states) \in Nat /\ (i.cur + 1) % Len(i.states) < Len(i.states)
  <2> DEFINE x == i.cur + 1
  <2> DEFINE y == Len(i.states)
  <2>1. x \in Nat /\ y \in Nat /\ y > 0
    BY <1>1, <1>3
  <2> HIDE DEF x, y
  <2>2. x % y \in Nat /\ x % y < y
    BY <2>1
  <2> QED
    BY <2>2 DEF x, y
<1> QED
  BY <1>1, <1>4, TurnKeeps

LEMMA SetCurrentKeeps ==
  ASSUME EditingInv, NEW s \in E!Slots, NEW n \in 0..1, E!SetCurrent(s, n)
  PROVE  EditingInv'
BY TurnKeeps DEF E!SetCurrent

(* The look of a state; states, and an instance, are made for it.             *)
LEMMA VisualKeeps ==
  ASSUME EditingInv, NEW s \in E!Slots, NEW n \in 0..1, NEW v \in Looks, E!SetVisual(s, n, v)
  PROVE  EditingInv'
<1> DEFINE b == E!At(s)
<1> DEFINE id == IF b.chain = <<>> THEN None ELSE b.chain[1].act
<1> DEFINE old == IF b.inst = None THEN [id |-> id, states |-> <<>>, cur |-> 0, set |-> None] ELSE b.inst
<1> DEFINE t == [E!Extended(old.states, n) EXCEPT ![n + 1] = v]
<1> DEFINE inst == [old EXCEPT !.states = t]
<1> DEFINE l == IF inst.cur = n THEN v ELSE b.look
<1>1. b \in Fitting
  BY AtASlot DEF E!SetVisual
<1>2. IF s \in Zones THEN E!Commit(E!Put(s, [b EXCEPT !.look = v]))
                     ELSE E!Commit(E!Put(s, [b EXCEPT !.inst = inst, !.look = l]))
  BY DEF E!SetVisual, E!Instance
<1>3. id \in Acts \cup {None}
  <2>1. b.chain \in Seq([act : Acts, set : Settings \cup {None}])
    BY <1>1 DEF Fitting, ChainsOf
  <2>2. b.chain # <<>> => b.chain[1] \in [act : Acts, set : Settings \cup {None}]
    <3> DEFINE S == [act : Acts, set : Settings \cup {None}]
    <3>1. b.chain \in Seq(S)
      BY <2>1
    <3> HIDE DEF S, b
    <3>2. b.chain # <<>> => b.chain[1] \in S
      BY <3>1
    <3> QED
      BY <3>2 DEF S
  <2> QED
    BY <2>2
<1>4. <<>> \in StatesOf
  <2>1. <<>> \in Seq(Looks \cup {Plain})
    OBVIOUS
  <2>2. \A x \in Seq(Looks \cup {Plain}) : x = <<>> => Len(x) <= 2
    OBVIOUS
  <2> QED
    BY <2>1, <2>2 DEF StatesOf
<1> HIDE DEF id
<1>5. old \in InstancesOf
  <2>1. b.inst = None => old = [id |-> id, states |-> <<>>, cur |-> 0, set |-> None]
    OBVIOUS
  <2>2. [id |-> id, states |-> <<>>, cur |-> 0, set |-> None] \in InstancesOf
    BY <1>3, <1>4, InstanceFits
  <2> QED
    BY <1>1, <2>1, <2>2 DEF Fitting
<1> HIDE DEF b, old
<1>6. old.states \in StatesOf /\ Len(old.states) \in Nat /\ old.cur \in 0..1
      /\ (old.cur < Len(old.states) \/ old.cur = 0)
  BY <1>5 DEF InstancesOf, StatesOf
<1>7. t \in StatesOf /\ Len(t) >= Len(old.states) /\ Len(t) > n
  BY <1>6, ExtendedFits
<1>8. Len(t) \in Nat
  BY <1>7 DEF StatesOf
<1> HIDE DEF t
<1>9. inst \in InstancesOf
  <2>1. inst = [id |-> old.id, states |-> t, cur |-> old.cur, set |-> old.set]
    BY <1>5 DEF InstancesOf
  <2>2. old.cur < Len(t) \/ old.cur = 0
    BY <1>6, <1>7, <1>8
  <2>3. old.id \in Acts \cup {Toggle, None} /\ old.set \in Settings \cup {None}
    BY <1>5 DEF InstancesOf
  <2> QED
    BY <1>6, <1>7, <2>1, <2>2, <2>3, InstanceFits
<1> HIDE DEF inst
<1>10. l \in Looks \cup {Plain}
  BY <1>1 DEF Fitting
<1> HIDE DEF l
<1>11. [b EXCEPT !.look = v] \in Fitting /\ [b EXCEPT !.inst = inst, !.look = l] \in Fitting
  BY <1>1, <1>9, <1>10 DEF Fitting
<1> QED
  BY <1>2, <1>11, PuttingKeeps

(* Settings change neither what is bound nor what it looks like.              *)
LEMMA SetSettingsKeeps ==
  ASSUME EditingInv, NEW s \in E!Slots, NEW v \in Settings, E!SetSettings(s, v)
  PROVE  EditingInv'
<1> DEFINE b == E!At(s)
<1> DEFINE c == [i \in DOMAIN b.chain |->
                   IF b.chain[i].act \in Actions THEN E!Step(b.chain[i].act, v) ELSE b.chain[i]]
<1> DEFINE set == [b EXCEPT !.chain = c]
<1> DEFINE inst == [set.inst EXCEPT !.set = v]
<1>1. b \in Fitting /\ b.chain \in ChainsOf
  BY AtASlot DEF E!SetSettings, Fitting
<1>2. c \in ChainsOf
  BY <1>1, SettingsFit
<1>3. IF set.inst = None THEN E!Commit(E!Put(s, set)) ELSE E!Commit(E!Put(s, [set EXCEPT !.inst = inst]))
  BY DEF E!SetSettings
<1> HIDE DEF b, c
<1>4. set \in Fitting /\ set.inst = b.inst
  BY <1>1, <1>2 DEF Fitting
<1> HIDE DEF set
<1>5. ASSUME set.inst # None PROVE [set EXCEPT !.inst = inst] \in Fitting
  <2>1. set.inst \in InstancesOf
    BY <1>4, <1>5 DEF Fitting
  <2>2. inst \in InstancesOf
    BY <2>1 DEF InstancesOf
  <2> HIDE DEF inst
  <2> QED
    BY <1>4, <2>2 DEF Fitting
<1> HIDE DEF inst
<1> QED
  BY <1>3, <1>4, <1>5, PuttingKeeps

LEMMA SwapKeeps ==
  ASSUME EditingInv, NEW s \in E!Slots, NEW t \in E!Slots, E!Swap(s, t)
  PROVE  EditingInv'
<1>1. Follows(E!Put(s, E!Made(t))) /\ E!Made(s) \in Fitting
  BY MadeFits, PutFollows
<1>2. Follows(E!With(E!Put(s, E!Made(t)), t, E!Made(s)))
  BY <1>1, WithFollows
<1> QED
  BY <1>2, CommitKeeps DEF E!Swap

LEMMA TransferKeeps ==
  ASSUME EditingInv, NEW s \in E!Slots, NEW t \in E!Slots, NEW retain \in BOOLEAN,
         E!Transfer(s, t, retain)
  PROVE  EditingInv'
<1> DEFINE from == IF retain THEN prof ELSE E!Put(s, None)
<1>1. Follows(from)
  BY ProfFollows, PutFollows
<1>2. E!Carried(s, t) \in Fitting
  <2>1. E!At(s) \in Fitting
    BY AtASlot DEF E!Transfer
  <2> DEFINE inst == IF s \in Zones \/ t \in Zones THEN None ELSE E!At(s).inst
  <2>2. inst \in {None} \cup InstancesOf
    BY <2>1 DEF Fitting
  <2>3. E!Carried(s, t) \in {E!At(s), [E!At(s) EXCEPT !.side = None, !.inst = inst]}
    BY DEF E!Carried
  <2> HIDE DEF inst
  <2>4. [E!At(s) EXCEPT !.side = None, !.inst = inst] \in Fitting
    BY <2>1, <2>2 DEF Fitting
  <2> QED
    BY <2>1, <2>3, <2>4
<1>3. E!Commit(E!With(from, t, E!Carried(s, t)))
  BY DEF E!Transfer
<1> HIDE DEF from
<1> QED
  BY <1>1, <1>2, <1>3, WithFollows, CommitKeeps

LEMMA ClearKeeps ==
  ASSUME EditingInv, NEW q, E!ClearPlugin(q)
  PROVE  EditingInv'
<1> DEFINE Kept(m) == [s \in DOMAIN m |-> IF E!IsOf(m[s], q) THEN None ELSE m[s]]
<1> DEFINE root == Kept(prof.pages[Root])
<1> DEFINE rest == Kept(prof.rest)
<1>1. E!Commit([prof EXCEPT !.pages[Root] = root, !.rest = rest])
  BY DEF E!ClearPlugin
<1>2. ASSUME NEW D, NEW m \in [D -> Fitting \cup {None}] PROVE Kept(m) \in [D -> Fitting \cup {None}]
  OBVIOUS
<1>3. /\ prof.pages \in [Folders \cup {Root} -> PagesOf \cup {None}]
      /\ prof.rest \in [Dials \cup Zones -> Fitting \cup {None}]
      /\ prof = [pages |-> prof.pages, rest |-> prof.rest] /\ prof.pages[Root] \in PagesOf
  BY DEF EditingInv, Editable
<1>4. root \in PagesOf /\ rest \in [Dials \cup Zones -> Fitting \cup {None}]
  BY <1>2, <1>3 DEF PagesOf
<1> HIDE DEF Kept, root, rest
<1>5. root # None
  BY <1>4, PagesAreSome
<1> DEFINE g == [prof.pages EXCEPT ![Root] = root]
<1>6. g \in [Folders \cup {Root} -> PagesOf \cup {None}] /\ g[Root] = root
      /\ \A f \in Folders \cup {Root} : prof.pages[f] # None => g[f] # None
  BY <1>3, <1>4, <1>5
<1>7. [prof EXCEPT !.pages[Root] = root, !.rest = rest] = [pages |-> g, rest |-> rest]
  <2>1. [prof EXCEPT !.pages[Root] = root] = [pages |-> g, rest |-> prof.rest]
    BY <1>3
  <2>2. [prof EXCEPT !.pages[Root] = root, !.rest = rest] = [[prof EXCEPT !.pages[Root] = root] EXCEPT !.rest = rest]
    OBVIOUS
  <2>3. [[pages |-> g, rest |-> prof.rest] EXCEPT !.rest = rest] = [pages |-> g, rest |-> rest]
    OBVIOUS
  <2> HIDE DEF g
  <2> QED
    BY <2>1, <2>2, <2>3, Zenon
<1> HIDE DEF g
<1>8. Follows([pages |-> g, rest |-> rest])
  BY <1>4, <1>5, <1>6 DEF Follows, Editable
<1> QED
  BY <1>1, <1>7, <1>8, CommitKeeps

LEMMA ResetKeeps ==
  ASSUME EditingInv, E!Reset
  PROVE  EditingInv'
<1> DEFINE g == [f \in DOMAIN prof.pages |-> IF prof.pages[f] = None THEN None ELSE E!NoKeys]
<1> DEFINE rest == [s \in Dials \cup Zones |-> None]
<1>1. E!NoKeys \in PagesOf /\ E!NoKeys # None
  <2>1. E!NoKeys \in PagesOf
    BY DEF E!NoKeys, PagesOf
  <2> QED
    BY <2>1, PagesAreSome
<1>2. prof.pages \in [Folders \cup {Root} -> PagesOf \cup {None}] /\ prof.pages[Root] # None
  BY DEF EditingInv, Editable
<1>3. g \in [Folders \cup {Root} -> PagesOf \cup {None}]
      /\ \A f \in Folders \cup {Root} : prof.pages[f] # None => g[f] # None
  BY <1>1, <1>2
<1>4. E!Commit([pages |-> g, rest |-> rest])
  BY DEF E!Reset, E!NewProfile
<1> HIDE DEF g
<1>5. Follows([pages |-> g, rest |-> rest])
  BY <1>2, <1>3 DEF Follows, Editable
<1> QED
  BY <1>4, <1>5, CommitKeeps

LEMMA WalksKeep ==
  ASSUME EditingInv, (\E f \in Folders : E!EnterFolder(f)) \/ E!GoBackPage \/ E!GoToRoot
  PROVE  EditingInv'
<1> DEFINE S == Folders \cup {Root}
<1>1. nav \in Seq(S) /\ nav # <<>> /\ \A i \in DOMAIN nav : prof.pages[nav[i]] # None
  BY DEF EditingInv
<1>2. prof.pages[Root] # None /\ Root \in S
  BY DEF EditingInv, Editable
<1>3. ASSUME NEW f \in Folders, E!EnterFolder(f) PROVE EditingInv'
  <2>1. f \in S /\ prof.pages[f] # None /\ E!Walk(Append(nav, f))
    BY <1>3 DEF E!EnterFolder
  <2> HIDE DEF S
  <2>2. /\ Append(nav, f) \in Seq(S) /\ Append(nav, f) # <<>> /\ Len(Append(nav, f)) = Len(nav) + 1
        /\ \A i \in 1..Len(nav) : Append(nav, f)[i] = nav[i]
        /\ Append(nav, f)[Len(nav) + 1] = f
    BY <1>1, <2>1, AppendProperties
  <2>3. \A i \in DOMAIN Append(nav, f) : prof.pages[Append(nav, f)[i]] # None
    BY <1>1, <2>1, <2>2
  <2> QED
    BY <2>1, <2>2, <2>3, WalkKeeps DEF S
<1>4. ASSUME Len(nav) > 1, E!Walk(SubSeq(nav, 1, Len(nav) - 1)) PROVE EditingInv'
  <2> DEFINE up == SubSeq(nav, 1, Len(nav) - 1)
  <2> HIDE DEF S
  <2>1. Len(nav) \in Nat /\ \A i \in 1..Len(nav) - 1 : nav[i] \in S /\ i \in DOMAIN nav
    BY <1>1
  <2>2. /\ up \in Seq(S) /\ Len(up) = Len(nav) - 1 /\ \A i \in 1..Len(nav) - 1 : up[i] = nav[i]
    BY <1>4, <2>1, SubSeqProperties
  <2>3. up # <<>> /\ \A i \in DOMAIN up : prof.pages[up[i]] # None
    <3> HIDE DEF up
    <3>1. \A x \in Seq(S) : x = <<>> => Len(x) = 0
      OBVIOUS
    <3>2. up # <<>>
      BY <1>4, <2>1, <2>2, <3>1
    <3>3. DOMAIN up = 1..Len(nav) - 1
      BY <2>2
    <3> QED
      BY <1>1, <2>1, <2>2, <3>2, <3>3
  <2> QED
    BY <1>4, <2>2, <2>3, WalkKeeps DEF S
<1>5. ASSUME E!Walk(<<Root>>) PROVE EditingInv'
  <2> HIDE DEF S
  <2>1. <<Root>> \in Seq(S) /\ <<Root>> # <<>> /\ \A i \in DOMAIN <<Root>> : <<Root>>[i] = Root
    BY <1>2
  <2> QED
    BY <1>2, <1>5, <2>1, WalkKeeps DEF S
<1> QED
  BY <1>3, <1>4, <1>5 DEF E!GoBackPage, E!GoToRoot

LEMMA ReloadKeeps == ASSUME EditingInv, E!Reload PROVE EditingInv'
<1>1. <<Root>> \in Seq(Folders \cup {Root}) /\ <<Root>> # <<>>
      /\ \A i \in DOMAIN <<Root>> : <<Root>>[i] = Root
  OBVIOUS
<1>2. disk \in Editable /\ disk.pages[Root] # None
  BY DEF EditingInv, Editable
<1> QED
  BY <1>1, <1>2 DEF EditingInv, E!Reload, E!Seen, E!Page

LEMMA EditingStep == EditingInv /\ [E!Next]_(E!vars) => EditingInv'
<1> SUFFICES ASSUME EditingInv, [E!Next]_(E!vars) PROVE EditingInv'
  OBVIOUS
<1>1. ASSUME NEW s \in E!Slots, NEW a \in Actions, NEW v \in Looks, E!Bind(s, a, v) \/ E!CreateInstance(s, a)
      PROVE  EditingInv'
  BY <1>1, BindKeeps DEF E!CreateInstance
<1>2. ASSUME NEW s \in E!Slots, NEW v \in Settings, E!SetSettings(s, v) PROVE EditingInv'
  BY <1>2, SetSettingsKeeps
<1>3. ASSUME NEW s \in E!Slots, E!SetState(s) \/ E!RemoveInstance(s) \/ E!Cycle(s)
      PROVE  EditingInv'
  BY <1>3, VisualKeeps, StepsKeep, RemovalKeeps, CycleKeeps DEF E!SetState, E!RemoveInstance
<1>4. ASSUME NEW s \in E!Slots, NEW n \in 0..1, E!SetCurrent(s, n) PROVE EditingInv'
  BY <1>4, SetCurrentKeeps
<1>5. ASSUME NEW s \in E!Slots, NEW t \in E!Slots, E!Swap(s, t) \/ E!MoveInstance(s, t) PROVE EditingInv'
  BY <1>5, SwapKeeps, TransferKeeps DEF E!MoveInstance
<1>6. ASSUME NEW k \in Keys, (\E a \in Actions : E!Append1(k, a)) \/ E!Reorder(k) \/ E!RemoveStep(k, 2)
      PROVE  EditingInv'
  BY <1>6, StepsKeep
<1>7. ASSUME NEW k \in Keys, NEW f \in Folders, E!MakeFolder(k, f) PROVE EditingInv'
  BY <1>7, FolderKeeps
<1>8. ASSUME NEW k \in Keys, NEW t \in {<<>>, <<Plain, Plain>>} \cup {<<v, Plain>> : v \in Looks},
             E!SetStates(k, t)
      PROVE  EditingInv'
  BY <1>8, StatesKeep
<1>9. ASSUME NEW d \in Dials, E!BindVolume(d) PROVE EditingInv'
  BY <1>9, VolumeKeeps
<1>10. CASE (\E f \in Folders : E!EnterFolder(f)) \/ E!GoBackPage \/ E!GoToRoot
  BY <1>10, WalksKeep
<1>11. CASE E!Reset \/ E!Reload \/ \E a \in Actions : E!ClearPlugin(Owner[a])
  BY <1>11, ResetKeeps, ReloadKeeps, ClearKeeps
<1>12. CASE UNCHANGED E!vars
  BY <1>12 DEF E!vars, EditingInv, E!Seen, E!Page
<1> QED
  BY <1>1, <1>2, <1>3, <1>4, <1>5, <1>6, <1>7, <1>8, <1>9, <1>10, <1>11, <1>12 DEF E!Next

LEMMA EditingStarts == E!Init => EditingInv
<1> SUFFICES ASSUME E!Init PROVE EditingInv
  OBVIOUS
<1> DEFINE g == [f \in Folders \cup {Root} |-> IF f = Root THEN E!NoKeys ELSE None]
<1>1. E!NoKeys \in PagesOf /\ E!NoKeys # None
  <2>1. E!NoKeys \in PagesOf
    BY DEF E!NoKeys, PagesOf
  <2> QED
    BY <2>1, PagesAreSome
<1>2. g \in [Folders \cup {Root} -> PagesOf \cup {None}] /\ g[Root] # None
  BY <1>1
<1>3. E!NewProfile = [pages |-> g, rest |-> [s \in Dials \cup Zones |-> None]]
  BY DEF E!NewProfile
<1> HIDE DEF g
<1>4. E!NewProfile \in Editable /\ E!NewProfile.pages[Root] # None
  BY <1>2, <1>3 DEF Editable
<1>5. <<Root>> \in Seq(Folders \cup {Root}) /\ <<Root>> # <<>>
      /\ \A i \in DOMAIN <<Root>> : <<Root>>[i] = Root
  OBVIOUS
<1>6. left \in 0..MaxEdits /\ fails \in 0..MaxFails
  BY EditingAssumption DEF E!Init
<1> QED
  BY <1>4, <1>5, <1>6 DEF E!Init, EditingInv

LEMMA EditingAlways == E!Spec => []EditingInv
BY EditingStarts, EditingStep, PTL DEF E!Spec

LEMMA EverythingFits ==
  ASSUME EditingInv
  PROVE  E!Everything(prof) \subseteq Fitting \cup {None}
<1>1. /\ prof.pages \in [Folders \cup {Root} -> PagesOf \cup {None}]
      /\ prof.rest \in [Dials \cup Zones -> Fitting \cup {None}]
  BY DEF EditingInv, Editable
<1>2. ASSUME NEW f \in DOMAIN prof.pages, prof.pages[f] # None, NEW k \in Keys
      PROVE  prof.pages[f][k] \in Fitting \cup {None}
  BY <1>1, <1>2 DEF PagesOf
<1>3. \A s \in DOMAIN prof.rest : prof.rest[s] \in Fitting \cup {None}
  BY <1>1
<1> DEFINE there == {f \in DOMAIN prof.pages : prof.pages[f] # None}
<1> DEFINE bound(f) == {prof.pages[f][k] : k \in Keys}
<1> DEFINE others == {prof.rest[s] : s \in DOMAIN prof.rest}
<1>4. E!Everything(prof) = (UNION {bound(f) : f \in there}) \cup others
  BY DEF E!Everything
<1>5. \A f \in there : bound(f) \subseteq Fitting \cup {None}
  BY <1>2
<1>6. others \subseteq Fitting \cup {None}
  BY <1>3
<1> HIDE DEF there, bound, others
<1>7. (UNION {bound(f) : f \in there}) \subseteq Fitting \cup {None}
  BY <1>5
<1> QED
  BY <1>4, <1>6, <1>7

(* Whatever the edits, on whatever pages, keys, dials and zones: the file is  *)
(* the profile in memory unless its last write failed, those who show the     *)
(* profile were told what is in memory, no page that is open goes away, and   *)
(* a live state is one of the states there are.                               *)
THEOREM EditsAlwaysReach == E!Spec => []EditsReachDiskAndView
<1>1. EditingInv => EditsReachDiskAndView
  <2> SUFFICES ASSUME EditingInv PROVE EditsReachDiskAndView
    OBVIOUS
  <2>1. ASSUME NEW b \in E!Everything(prof) \ {None}, b.inst # None
        PROVE  b.inst.cur < Len(b.inst.states) \/ b.inst.cur = 0
    <3>1. b \in Fitting
      BY EverythingFits
    <3> QED
      BY <2>1, <3>1 DEF Fitting, InstancesOf
  <2> QED
    BY <2>1 DEF EditsReachDiskAndView, E!EditsReachDiskAndView, EditingInv
<1> QED
  BY <1>1, EditingAlways, PTL

(* The types of all parts, for any constants: what is in memory and in the    *)
(* files are profiles, no binding is incomplete, no more of a file is flushed *)
(* than was written, no archive runs or is quarantined, and no installation   *)
(* outlives the application.                                                  *)
THEOREM UserDataIsTyped ==
  ASSUME SomePieces, SomeAttempts
  PROVE  Spec /\ E!Spec /\ F!Spec /\ I!Spec => []TypesOK
<1>1. LibraryInv => TypeOK
  BY DEF LibraryInv, Holds, FilesHold, Around, World, TypeOK
<1>2. EditingInv => E!TypeOK
  <2> SUFFICES ASSUME EditingInv PROVE E!TypeOK
    OBVIOUS
  <2>1. E!Everything(prof) \subseteq E!Bindings \cup {None}
    BY EverythingFits, FittingAreBindings
  <2>2. DOMAIN prof.pages = Folders \cup {Root} /\ DOMAIN prof.rest = Dials \cup Zones
    BY DEF EditingInv, Editable
  <2> QED
    BY <2>1, <2>2 DEF EditingInv, E!TypeOK
<1>3. FileInv /\ FileCounts => F!TypeOK
  BY FileTyped
<1>4. F!Spec => [](FileInv /\ FileCounts)
  BY FileAlways
<1>5. LibraryInv /\ EditingInv /\ FileInv /\ FileCounts /\ ConsentInv /\ InstallForms => TypesOK
  BY <1>1, <1>2, <1>3, InstallIsTyped DEF TypesOK
<1> QED
  BY <1>4, <1>5, LibraryAlways, EditingAlways, InstallAlways, PTL

=============================================================================
