------------------------------- MODULE UserData -------------------------------
(* What the program keeps for its user in one data directory: the library of  *)
(* profiles with the file of each (ProfileLibrary), the edits of the profile  *)
(* that is open (ProfileEditing) and the plugins that are installed           *)
(* (PluginInstall).  Each part has variables of its own and steps of its own; *)
(* a profile names plugins, and the file of a profile is written whole.       *)
EXTENDS ProfileLibrary

CONSTANTS
  Keys, FirstKey, Dials, Zones, Folders, Root, Actions, Owner, Controllers, Volume, Toggle, GoBack,
  Looks, Plain, Settings, MaxEdits,                              \* of ProfileEditing
  Directories, Rows, Source, Base, Packages, Bundled, Verifiers, MaxJobs, MaxDrops   \* of PluginInstall

(* Rows are stored, and plugins named, by names of directories; none of these *)
(* names is that of a directory with its suffix.                              *)
ASSUME InstallAssumption ==
  /\ Base \in [Rows -> Directories] /\ Bundled \subseteq Directories /\ MaxJobs \in Nat
  /\ Packages \subseteq [form : {"zip"}, owner : Directories \cup {"nobody"},
                          kind : {"bare", "unsigned", "signed", "trusted", "tampered"}]
  /\ \A n \in Directories, m \in Directories \cup {"nobody"} : <<n, "sdPlugin">> # m

VARIABLES
  prof, nav, disk, seen, unsaved, left, fails,
  iUp, verifier, plugins, away, allowed, seeded, unsigned, rows, jobs, staged, live, agreed,
  blanket, hand, drops

E == INSTANCE ProfileEditing
I == INSTANCE PluginInstall WITH
       Names <- Directories, up <- iUp, disk <- plugins, running <- live

(* A page is made with a key that leads back; it is never taken for none.     *)
ASSUME EditingAssumption ==
  /\ FirstKey \in Keys /\ Settings # {} /\ MaxEdits \in Nat /\ MaxFails \in Nat
  /\ None \notin [Keys -> E!Bindings \cup {None}]

(* The types of the modules.                                                  *)
TypesOK == TypeOK /\ E!TypeOK /\ F!TypeOK /\ I!TypeOK

(* An edit reaches the file and the canvas, from every page and slot it can   *)
(* be made on, and the next start reads it (see ProfileEditing).              *)
EditsReachDiskAndView == E!EditsReachDiskAndView

(* No plugin whose signature is bad starts, and none without one before the   *)
(* user has agreed to it (see PluginInstall).                                 *)
StartsWithConsent == I!StartsWithConsent

(* A plugin that is removed is stopped (application.cpp:1464, see             *)
(* PluginInstall).                                                            *)
RemovedIsStopped == I!RemovedIsStopped
=============================================================================
