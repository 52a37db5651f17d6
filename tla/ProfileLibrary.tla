--------------------------- MODULE ProfileLibrary ---------------------------
(* The profiles of the user: the files of the profiles directory, the index  *)
(* the controller keeps of them (m_library) and the one profile in memory     *)
(* (m_profile), which every edit writes back (ProfileController); and the     *)
(* four parties that change which one that is: the user (tray, web interface),*)
(* a key's action, a plugin (switchToProfile, with a way back), and the       *)
(* application in the foreground.                                             *)
(* A write is atomic (module ProfileFile) and may fail; the file of a profile *)
(* is named by its id, an empty id standing for the file "default".           *)
EXTENDS Naturals, FiniteSets

CONSTANTS Ids,        \* the names of files: Default, and what createUuid() gives
          Default, Unnamed, Devices, NoDevice, Names, NoName, Apps, Plugins,
          None, MaxFails,
          Writers, Missing, Pieces, MaxAttempts   \* of one file (module ProfileFile)

(* A profile, and what the index says of one.                                 *)
Profiles == [id : Ids \cup {Unnamed}, name : Names \cup {NoName}, device : Devices \cup {NoDevice},
             hints : SUBSET Apps, rev : 0..1]
Entries == [name : Names \cup {NoName} \cup Ids, device : Devices \cup {NoDevice}]

ASSUME NameAssumption ==
  /\ Default \in Ids /\ Unnamed \notin Ids /\ 1 \in Names /\ None \notin Profiles \cup Entries

VARIABLES w,          \* [disk, library, mem, unsaved, fails]
          back,       \* s_prevProfileByPlugin
          pending,    \* the debouncer: the application it waits to report
          last,       \* and the one it reported last
          at, tmp, file, entries, attempt   \* the writing of one of the files

vars == <<w, back, pending, last>>

Blank == [id |-> Unnamed, name |-> NoName, device |-> NoDevice, hints |-> {}, rev |-> 0]
FileOf(i) == IF i = Unnamed THEN Default ELSE i
Files(disk) == {i \in Ids : disk[i] # None}
NameOf(i, p) == IF p.name = NoName THEN i ELSE p.name

(* What the index says of the files.                                          *)
Index(disk) == [i \in Ids |-> IF disk[i] = None THEN None
                              ELSE [name |-> NameOf(i, disk[i]), device |-> disk[i].device]]
Rescanned(v) == [v EXCEPT !.library = Index(v.disk)]

(* Save writes the profile in memory to its file; Load reads one into memory. *)
Save(v, ok) ==
  IF ok THEN [v EXCEPT !.disk[FileOf(v.mem.id)] = v.mem, !.unsaved = FALSE]
        ELSE [v EXCEPT !.unsaved = TRUE, !.fails = @ + 1]
Load(v, i) == IF v.disk[i] = None THEN v ELSE [v EXCEPT !.mem = v.disk[i], !.unsaved = FALSE]
Adopt(v, p, ok) == Rescanned(Save([v EXCEPT !.mem = p], ok))

Held(v) == {FileOf(v.mem.id)} \cup Files(v.disk) \cup Files(v.library)
Fresh(v) == {i \in Ids \ {Default} : i \notin Held(v) \cup {back[x] : x \in Plugins}}
New(i, n, d) == [id |-> i, name |-> n, device |-> d, hints |-> {}, rev |-> 0]

(* The profiles listed for a device, and those that come first by name.       *)
Listed(v, d) == {i \in Files(v.library) : d = NoDevice \/ v.library[i].device = d}
NameLess(a, b) == a \in Names /\ b \in Names /\ a < b
Firsts(v, S) == {i \in S : \A j \in S : ~ NameLess(v.library[j].name, v.library[i].name)}
Known(v) == Files(v.library) \cup ({v.mem.id} \ {Unnamed})

(* loadProfileById: looks in the index, rescans once, gives up.               *)
Switched(v, i) ==
  IF i = v.mem.id THEN v
  ELSE IF v.library[i] # None THEN Load(v, i) ELSE Load(Rescanned(v), i)

Ok(v) == v.fails < MaxFails
Oks(v) == IF Ok(v) THEN BOOLEAN ELSE {TRUE}

Init ==
  /\ w \in [disk : [Ids -> {None}], library : [Ids -> {None}], mem : {Blank},
            unsaved : {FALSE}, fails : {0}]
  /\ back = [x \in Plugins |-> Unnamed] /\ pending = None /\ last = None

Rest == UNCHANGED <<back, pending, last>>
-----------------------------------------------------------------------------
(* The user's commands.                                                       *)
Create(n, d) == /\ \E i \in Fresh(w), ok \in Oks(w) : w' = Adopt(w, New(i, n, d), ok)
                /\ Rest

Import(n, d, h) ==
  /\ \E i \in Fresh(w), ok \in Oks(w) : w' = Adopt(w, [New(i, n, d) EXCEPT !.hints = h], ok)
  /\ Rest

(* With no id, or with the id of a profile of the index, whose file is read.  *)
DuplicateOf(p, n) == /\ \E i \in Fresh(w), ok \in Oks(w) :
                          w' = Adopt(w, [p EXCEPT !.id = i, !.name = n], ok)
                     /\ Rest
Duplicate(n) == \/ DuplicateOf(w.mem, n)
                \/ \E i \in Files(w.library) : w.disk[i] # None /\ DuplicateOf(w.disk[i], n)

(* A change of a profile by its id: of the one in memory, or else of its file.*)
Amended(v, i, Change(_), ok) ==
  IF i = v.mem.id THEN Rescanned(Save([v EXCEPT !.mem = Change(@)], ok))
  ELSE IF v.library[i] = None \/ v.disk[i] = None \/ ~ ok THEN v
  ELSE Rescanned([v EXCEPT !.disk[i] = Change(@)])

Rename(i, n) == /\ LET Named(p) == [p EXCEPT !.name = n]
                   IN  \E ok \in Oks(w) : w' = Amended(w, i, Named, ok)
                /\ Rest

(* A profile is deleted with its file; the one in memory is replaced by the   *)
(* first of the same device, or by a new one.                                 *)
Activated(v, d, i, ok) ==
  LET r == Rescanned(v) IN
  IF r.mem.id # Unnamed /\ r.mem.device = d THEN r
  ELSE IF Listed(r, d) # {} THEN Switched(r, i)
  ELSE Adopt(r, New(i, 1, d), ok)
Candidates(v, d) == LET r == Rescanned(v)
                    IN  IF Listed(r, d) # {} THEN Firsts(r, Listed(r, d)) ELSE Fresh(v)

Deleted(v, i) == Rescanned([v EXCEPT !.disk[i] = None])
(* Bug: the deleted profile stays in memory while its successor is sought.    *)
DeleteKeepingMemory(i) ==
  /\ \E d \in Devices, j \in Ids, ok \in Oks(w) :
       /\ d = w.mem.device
       /\ j \in Candidates(Deleted(w, i), d)
       /\ w' = IF i = w.mem.id THEN Activated(Deleted(w, i), d, j, ok) ELSE Deleted(w, i)
  /\ Rest
Delete(i) ==
  /\ LET d == IF w.library[i] # None THEN w.library[i].device ELSE w.mem.device
         blank == [Deleted(w, i) EXCEPT !.mem = Blank, !.unsaved = FALSE]
     IN  IF i # w.mem.id THEN w' = Deleted(w, i)
         ELSE \E j \in Candidates(blank, d), ok \in Oks(blank) : w' = Activated(blank, d, j, ok)
  /\ Rest

(* The editor shows another device, or any of the editor's commits.           *)
Activate(d) == /\ \E j \in Candidates(w, d), ok \in Oks(w) : w' = Activated(w, d, j, ok)
               /\ Rest
Edit == /\ \E ok \in Oks(w) : w' = Save([w EXCEPT !.mem.rev = 1 - @], ok)
        /\ Rest
Reload == w' = Load(w, FileOf(w.mem.id)) /\ Rest
Refresh == w' = Rescanned(w) /\ Rest

(* Applications are mapped to profiles: in the settings page, or by a whole   *)
(* map from the web interface, one removal or addition after the other.       *)
Map(i, a) == /\ LET Mapped(p) == [p EXCEPT !.hints = @ \cup {a}]
                IN  /\ i = w.mem.id => a \notin w.mem.hints
                    /\ \E ok \in Oks(w) : w' = Amended(w, i, Mapped, ok)
             /\ Rest
Unmap(i, a) == /\ LET Cleared(p) == [p EXCEPT !.hints = @ \ {a}]
                  IN  /\ i = w.mem.id => a \in w.mem.hints
                      /\ \E ok \in Oks(w) : w' = Amended(w, i, Cleared, ok)
               /\ Rest
SetHints(h) == /\ \E ok \in Oks(w) : w' = Rescanned(Save([w EXCEPT !.mem.hints = h], ok))
               /\ Rest
Moved(v, a, from, to, ok) ==
  LET Cleared(p) == [p EXCEPT !.hints = @ \ {a}]
      Mapped(p) == [p EXCEPT !.hints = @ \cup {a}]
  IN  Amended(Amended(v, from, Cleared, ok), to, Mapped, ok)
SetApplicationProfiles(a) ==
  /\ \E from \in Files(w.disk), to \in Files(w.library) :
       a \in w.disk[from].hints /\ w' = Moved(w, a, from, to, TRUE)
  /\ Rest
-----------------------------------------------------------------------------
(* The web interface and the actions of keys go by the name of a profile.     *)
Select(n, d) ==
  /\ LET found == {i \in Listed(w, d) : w.library[i].name = n} IN
     \/ \E i \in found : w' = Switched(w, i)
     \/ found = {} /\ \E i \in Fresh(w), ok \in Oks(w) : w' = Adopt(w, New(i, n, d), ok)
  /\ Rest
SwitchByName(n) == /\ \E i \in Listed(w, w.mem.device) :
                        w.library[i].name = n /\ w' = Switched(w, i)
                   /\ Rest
Rotate == /\ LET here == Listed(w, w.mem.device) IN
             /\ Cardinality(here) > 1
             /\ \E i \in here : i # w.mem.id /\ w' = Switched(w, i)
          /\ Rest
Switch(i) == w' = Switched(w, i) /\ Rest

(* A plugin switches to a profile it names, creating one that it ships, and   *)
(* with no name goes back to the profile there was before its last switch.    *)
Remembered(p, i) == [back EXCEPT ![p] = IF w.mem.id \in {Unnamed, i} THEN @ ELSE w.mem.id]
PluginSwitches(p, i) == /\ i \in Known(w) /\ w' = Switched(w, i)
                        /\ back' = Remembered(p, i) /\ UNCHANGED <<pending, last>>
PluginShips(p, n, d) ==
  /\ \A i \in Listed(w, d) : w.library[i].name # n
  /\ \E i \in Fresh(w), ok \in Oks(w) : /\ w' = Adopt(w, New(i, n, d), ok)
                                        /\ back' = Remembered(p, i)
  /\ UNCHANGED <<pending, last>>
PluginGoesBack(p) ==
  /\ back[p] # Unnamed /\ w' = Switched(w, back[p])
  /\ back' = [back EXCEPT ![p] = Unnamed] /\ UNCHANGED <<pending, last>>

(* The foreground application changes; the debouncer reports the last of a    *)
(* burst, and a profile of the dock in use that is mapped to it is loaded.    *)
Focus(a) == pending' = a /\ UNCHANGED <<w, back, last>>
(* Bug: without a mapping, the first profile of the device is loaded.         *)
MatchesOrDefault(a, d) ==
  LET S == {i \in Files(w.disk) : d = NoDevice \/ w.disk[i].device = d}
      M == {i \in S : a \in w.disk[i].hints}
  IN  IF M = {} THEN S ELSE M
Matches(a, d) == {i \in Files(w.disk) : /\ d = NoDevice \/ w.disk[i].device = d
                                        /\ a \in w.disk[i].hints}
FocusSettles(d) ==
  /\ pending # None /\ pending' = None /\ last' = pending /\ UNCHANGED back
  /\ IF pending = last \/ Matches(pending, d) = {} THEN w' = w
     ELSE \E i \in Matches(pending, d) : w' = Switched(w, i)

UserSteps ==
  \/ \E n \in Names : Duplicate(n) \/ (\E i \in Ids : Rename(i, n)) \/ SwitchByName(n)
  \/ \E n \in Names, d \in Devices : Create(n, d) \/ Import(n, d, {}) \/ Select(n, d)
  \/ \E i \in Ids : Delete(i) \/ Switch(i)
  \/ \E d \in Devices : Activate(d)
  \/ Edit \/ Reload \/ Refresh \/ Rotate
MappingSteps ==
  \/ \E a \in Apps, i \in Ids : Map(i, a) \/ Unmap(i, a)
  \/ \E h \in SUBSET Apps : SetHints(h)
  \/ \E a \in Apps : SetApplicationProfiles(a)
OtherSteps ==
  \/ \E p \in Plugins : \/ PluginGoesBack(p)
                        \/ \E i \in Ids : PluginSwitches(p, i)
                        \/ \E n \in Names, d \in Devices : PluginShips(p, n, d)
  \/ \E a \in Apps : Focus(a)
  \/ \E d \in Devices : FocusSettles(d)
Next == UserSteps \/ MappingSteps \/ OtherSteps

Spec == Init /\ [][Next]_vars
-----------------------------------------------------------------------------
TypeOK ==
  /\ w.mem \in Profiles /\ w.unsaved \in BOOLEAN /\ w.fails \in Nat
  /\ \A i \in Ids : w.disk[i] \in Profiles \cup {None}
  /\ back \in [Plugins -> Ids \cup {Unnamed}] /\ {pending, last} \subseteq Apps \cup {None}

(* Unless its last write failed, the profile in memory is the one in its file *)
(* whoever changed either of them: a rename or a mapping through the index    *)
(* never goes behind the back of the profile that is open (the unnamed one    *)
(* excepted, which the index lists under another id).                         *)
MemoryIsOnDisk == w.mem.id # Unnamed /\ ~ w.unsaved => w.disk[w.mem.id] = w.mem

(* The index never names a file that is gone, and as long as no write failed  *)
(* it is what a rescan would give, the file of the unnamed profile excepted.  *)
IndexIsTrue ==
  /\ \A i \in Files(w.library) : w.disk[i] # None /\ w.disk[i].device = w.library[i].device
  /\ w.fails = 0 => \A i \in Ids \ {Default} : w.library[i] = Index(w.disk)[i]

LibraryIsTrue == MemoryIsOnDisk /\ IndexIsTrue

(* The file of a profile, as it is written, behaves as the atomic file that   *)
(* one step of Save takes it for (see ProfileFile, AtomicFile).               *)
F == INSTANCE ProfileFile
FileIsAtomic == F!FileIsAtomic

(* A change of the foreground application that moves to another profile moves *)
(* to one of the dock in use that is mapped to that application, and the next *)
(* report of the same application moves nothing.                              *)
FocusMoves == [][last' # last /\ w'.mem.id # w.mem.id =>
                   last' = pending /\ last' \in w'.mem.hints]_vars
=============================================================================
