---------------------------- MODULE PluginInstall ----------------------------
(* How a plugin reaches the plugins directory and runs from there: archives   *)
(* of the store, files the user picks, bundles, directories copied in by      *)
(* hand; the signature check, the user's consent and the quarantine.          *)
(* src/app/src/plugin_catalog_model.cpp, mirabox_github_installer.cpp,        *)
(* plugin_verify_gate.cpp, sdplugin_extractor.cpp, plugin_manager.cpp         *)
EXTENDS Naturals, FiniteSets

CONSTANTS Names,      \* directory names without their suffix, and plugin ids
          Rows,       \* rows of the store
          Source,     \* row -> "url", "legacy", "streamdock" or "mirabox"
          Base,       \* row -> the name its archive is stored under, or its id
          Packages,   \* what an archive may hold: [form, owner, kind]
          Bundled,    \* the names of the plugins the application brings along
          Verifiers,  \* "works", "missing" or "absent": how the build checks signatures
          MaxJobs, MaxDrops

VARIABLES up,         \* the application runs
          verifier,
          disk,       \* name -> what is at <name>.sdPlugin: a directory or an archive
          away,       \* name -> what is at <name>.sdPlugin.disabled
          allowed,    \* plugins/allowed/<name>
          seeded,     \* plugins/seeded/<name>
          unsigned,   \* allowUnsignedPlugins
          rows,       \* row -> whether it is listed, resolved, installed
          jobs,       \* installations under way
          staged,     \* rows whose staging directory has a manifest
          running,    \* m_live: name -> the package it was started from
          agreed, blanket, hand, drops   \* history: consent, and what was copied in

user == <<agreed, blanket, hand, drops>>
settings == <<allowed, seeded, unsigned>>
vars == <<up, verifier, disk, away, settings, rows, jobs, staged, running, user>>

Nobody == "nobody"
Nothing == [form |-> "none", owner |-> Nobody, kind |-> "none"]
NoManifest == [form |-> "dir", owner |-> Nobody, kind |-> "bare"]
AsDir(pkg) == [pkg EXCEPT !.form = "dir"]
AsZip(pkg) == [pkg EXCEPT !.form = "zip"]
IsPlugin(e) == e.form = "dir" /\ e.kind # "bare"

(* verifyStagedPlugin: a build without its verifier treats everything as      *)
(* unsigned; a signature nobody can check counts as a bad one.                *)
SignatureState(e) == IF e.kind \in {"unsigned", "bare"} THEN "None"
                     ELSE IF verifier = "missing" \/ e.kind = "tampered" THEN "Invalid" ELSE "Valid"
KnownPublisher(e) == e.kind = "trusted"
Verdict(e) == IF verifier = "absent" \/ SignatureState(e) = "None" THEN "Unsigned"
              ELSE IF SignatureState(e) = "Invalid" THEN "Refused"
              ELSE IF KnownPublisher(e) THEN "Trusted" ELSE "SelfSigned"
Consented(n) == unsigned \/ n \in allowed
(* The name of the directory: the plugin's id, if its manifest tells one.     *)
NameFor(e, file) == IF e.owner # Nobody THEN e.owner ELSE file

DirName(n) == <<n, "sdPlugin">>
(* unloadPlugin: the live plugins are known by the names of their directories.*)
Unload(live, key) == [n \in Names |-> IF DirName(n) = key THEN Nothing ELSE live[n]]
(* rediscover: what is there and is not running is started, unchecked.        *)
Rediscovered(live, d) == [n \in Names |-> IF live[n] = Nothing /\ IsPlugin(d[n]) THEN d[n] ELSE live[n]]
Extracted(d) == [n \in Names |-> IF d[n].form = "zip" THEN AsDir(d[n]) ELSE d[n]]

Init ==
  /\ up = FALSE /\ verifier \in Verifiers /\ unsigned = FALSE
  /\ disk = [n \in Names |-> Nothing] /\ away = disk /\ running = disk
  /\ allowed = {} /\ seeded = {} /\ jobs = {} /\ staged = {}
  /\ rows = [r \in Rows |-> [listed |-> TRUE, resolved |-> FALSE, installed |-> FALSE]]
  /\ agreed = {} /\ blanket = FALSE /\ hand = {} /\ drops = 0
-----------------------------------------------------------------------------
(* The launch: archives are unpacked, bundles seeded, quarantined directories *)
(* the user has agreed to restored, and every directory checked. An operation *)
(* on the directory of a name in bad fails.                                   *)
Seeds(d, bad) == {n \in Bundled : d[n].form # "dir" /\ away[n] = Nothing /\ n \notin seeded \cup bad}
Present(d) == {n \in Bundled : d[n].form = "dir" \/ away[n] # Nothing}
Restored(d, consented, bad) == {n \in Names : away[n] # Nothing /\ n \in consented /\ d[n] = Nothing /\ n \notin bad}
Swept(d, consented) == {n \in Names : IsPlugin(d[n]) /\ Verdict(d[n]) = "Unsigned" /\ n \notin consented}
Refused(d) == {n \in Names : IsPlugin(d[n]) /\ Verdict(d[n]) = "Refused"}

Launch(bad) ==
  /\ ~ up /\ up' = TRUE
  /\ LET unzipped == Extracted(disk)
         seeds == Seeds(unzipped, bad)
         withSeeds == [n \in Names |-> IF n \in seeds THEN [form |-> "dir", owner |-> n, kind |-> "unsigned"] ELSE unzipped[n]]
         kept == allowed \cup seeds \cup Present(unzipped)
         consented == IF unsigned THEN Names ELSE kept
         back == Restored(withSeeds, consented, bad)
         all == [n \in Names |-> IF n \in back THEN away[n] ELSE withSeeds[n]]
         out == Swept(all, consented)
     IN  /\ allowed' = kept /\ seeded' = seeded \cup seeds \cup Present(unzipped)
         /\ disk' = [n \in Names |-> IF n \in out \cup Refused(all) THEN Nothing ELSE all[n]]
         /\ away' = [n \in Names |-> IF n \in out THEN (IF n \in bad THEN Nothing ELSE all[n])
                                     ELSE IF n \in back THEN Nothing ELSE away[n]]
         /\ running' = Rediscovered(running, disk')
  /\ rows' = [r \in Rows |-> [rows[r] EXCEPT !.resolved = FALSE, !.installed = FALSE]]
  /\ blanket' = unsigned /\ hand' = {}
  /\ UNCHANGED <<verifier, unsigned, jobs, staged, agreed, drops>>

(* The application ends; what was under way is lost.                          *)
Ended == up' = FALSE /\ jobs' = {} /\ running' = [n \in Names |-> Nothing]
Quit == up /\ Ended /\ UNCHANGED <<verifier, disk, away, settings, rows, staged, user>>
-----------------------------------------------------------------------------
(* An installation that ends well: the same plugin under another name is      *)
(* retired with its consent, the row is marked, and the plugin is started.    *)
Twins(d, n) == {m \in Names \ {n} : /\ IsPlugin(d[m]) /\ d[m].owner = d[n].owner /\ d[n].owner # Nobody}
Marked(r) == [rows EXCEPT ![r].installed = rows[r].listed]
Promoted(n, e, consents, marks) ==
  LET d == [disk EXCEPT ![n] = e]
      twins == Twins(d, n)
  IN  /\ disk' = [m \in Names |-> IF m \in twins THEN Nothing ELSE d[m]]
      /\ allowed' = (allowed \ twins) \cup (IF consents THEN {n} ELSE {})
      /\ agreed' = (agreed \ twins) \cup {n}
      /\ rows' = marks
      /\ running' = LET retired == [m \in Names |-> IF m \in twins THEN Nothing ELSE running[m]]
                        live == IF disk[n].form = "dir" THEN Unload(retired, DirName(n)) ELSE retired
                    IN  Rediscovered(live, disk')
      /\ UNCHANGED <<up, verifier, away, seeded, unsigned, blanket, hand, drops>>
Same == UNCHANGED <<up, verifier, disk, away, settings, rows, staged, running, user>>
-----------------------------------------------------------------------------
(* install(): a row that counts as installed is merely rediscovered.          *)
Installable(r) == Source[r] # "legacy"
Free == CHOOSE i \in 1..MaxJobs : \A j \in jobs : j.id # i
Begun(r) == CASE Source[r] = "mirabox" -> "listing"
              [] Source[r] = "streamdock" /\ ~ rows[r].resolved -> "resolving"
              [] OTHER -> "downloading"
Install(r) ==
  /\ up /\ rows[r].listed /\ ~ rows[r].installed /\ Installable(r) /\ Cardinality(jobs) < MaxJobs
  /\ jobs' = jobs \cup {[id |-> Free, row |-> r, at |-> Begun(r)]}
  /\ staged' = IF Source[r] = "mirabox" THEN staged \ {r} ELSE staged
  /\ UNCHANGED <<up, verifier, disk, away, settings, rows, running, user>>
InstallAgain(r) ==
  /\ up /\ rows[r].installed /\ running' = Rediscovered(running, disk)
  /\ UNCHANGED <<up, verifier, disk, away, settings, rows, jobs, staged, user>>

Ends(j) == jobs' = jobs \ {j}
Goes(j, at) == jobs' = (jobs \ {j}) \cup {[j EXCEPT !.at = at]}
(* A request fails, an answer is unusable, or a file cannot be written.       *)
Fail(j) == Ends(j) /\ Same

(* The address is known: install() runs again, for a row that is still there. *)
Resolve(j) ==
  /\ j.at = "resolving" /\ rows[j.row].listed
  /\ rows' = [rows EXCEPT ![j.row].resolved = TRUE]
  /\ IF rows[j.row].installed THEN Ends(j) /\ running' = Rediscovered(running, disk)
     ELSE Goes(j, "downloading") /\ UNCHANGED running
  /\ UNCHANGED <<up, verifier, disk, away, settings, staged, user>>

(* The archive is there: it is written beside the plugins, unpacked where it  *)
(* is and only then checked. It cannot be written over a directory.           *)
Downloaded(j, pkg) ==
  /\ j.at = "downloading" /\ disk[Base[j.row]].form # "dir" /\ Ends(j) /\ UNCHANGED staged
  /\ LET e == AsDir(pkg) IN
     IF Verdict(e) = "Refused"
     THEN /\ disk' = [disk EXCEPT ![Base[j.row]] = Nothing]
          /\ UNCHANGED <<up, verifier, away, settings, rows, running, user>>
     ELSE Promoted(Base[j.row], e, Verdict(e) # "Trusted", Marked(j.row))
(* The application dies after the archive is written, or after it is unpacked.*)
CrashOnDownload(j, pkg) ==
  /\ j.at = "downloading" /\ disk[Base[j.row]].form # "dir"
  /\ \E e \in {AsZip(pkg), AsDir(pkg)} : disk' = [disk EXCEPT ![Base[j.row]] = e]
  /\ Ended /\ UNCHANGED <<verifier, away, settings, rows, staged, user>>

(* MiraboxGithubInstaller fetches a listing, a tree and the files one by one, *)
(* into a directory that belongs to the row.                                  *)
Fetch(j) ==
  /\ \/ j.at = "listing" /\ Goes(j, "tree") /\ UNCHANGED staged
     \/ j.at = "tree" /\ Goes(j, "files") /\ UNCHANGED staged
     \/ j.at = "files" /\ Goes(j, "last") /\ staged' = staged \cup {j.row}
  /\ UNCHANGED <<up, verifier, disk, away, settings, rows, running, user>>
(* finalizeAssembledInstall: the check, then the rename into place. What was  *)
(* there is removed first, and stays removed when the rename fails.           *)
Finalize(j, pkg) ==
  LET e == IF j.row \in staged THEN AsDir(pkg) ELSE NoManifest
      n == NameFor(e, Base[j.row])
  IN  /\ j.at = "last" /\ Ends(j) /\ staged' = staged \ {j.row}
      /\ \/ /\ Verdict(e) = "Refused"
            /\ UNCHANGED <<up, verifier, disk, away, settings, rows, running, user>>
         \/ /\ Verdict(e) # "Refused" /\ disk[n].form # "zip"
            /\ Promoted(n, e, FALSE, Marked(j.row))
         \/ /\ Verdict(e) # "Refused"
            /\ disk' = IF disk[n].form = "dir" THEN [disk EXCEPT ![n] = Nothing] ELSE disk
            /\ running' = IF disk[n].form = "dir" THEN Unload(running, DirName(n)) ELSE running
            /\ UNCHANGED <<up, verifier, away, settings, rows, user>>
-----------------------------------------------------------------------------
(* installFromFile: the file is unpacked outside the plugins directory, named *)
(* by its manifest and checked; what is not trusted needs a confirmation.     *)
Unconfirmed(e, n) == \/ Verdict(e) = "Unsigned" /\ ~ Consented(n)
                     \/ Verdict(e) = "SelfSigned"
InstallFile(pkg, file, confirmed) ==
  LET e == AsDir(pkg)
      n == NameFor(e, file)
      marks == [r \in Rows |-> IF Base[r] = n /\ rows[r].listed THEN [rows[r] EXCEPT !.installed = TRUE] ELSE rows[r]]
  IN  /\ up /\ Verdict(e) # "Refused" /\ (confirmed \/ ~ Unconfirmed(e, n)) /\ disk[n].form # "zip"
      /\ Promoted(n, e, confirmed /\ Verdict(e) # "Trusted", marks)
      /\ UNCHANGED <<jobs, staged>>

(* allowPlugin: a quarantined directory is checked before it is restored.     *)
Allow(n) ==
  /\ up
  /\ LET e == IF IsPlugin(disk[n]) THEN disk[n] ELSE away[n] IN
     /\ IsPlugin(e) /\ Verdict(e) # "Refused" /\ (e = disk[n] \/ disk[n] = Nothing)
     /\ disk' = [disk EXCEPT ![n] = e]
     /\ away' = IF IsPlugin(disk[n]) THEN away ELSE [away EXCEPT ![n] = Nothing]
  /\ allowed' = allowed \cup {n} /\ agreed' = agreed \cup {n}
  /\ running' = Rediscovered(running, disk')
  /\ UNCHANGED <<up, verifier, seeded, unsigned, rows, jobs, staged, blanket, hand, drops>>

(* removeInstalledPlugin, for a directory or a quarantined one: the consent   *)
(* goes with it when its manifest names a plugin, and pluginUninstalled is    *)
(* emitted with the plugin's id.                                              *)
(* Bug: the consent stays.                                                    *)
RemoveOnly(n, e) == /\ agreed' = IF e.owner = Nobody THEN agreed ELSE agreed \ {n}
                    /\ running' = Unload(running, e.owner) /\ UNCHANGED allowed

Forget(n, e) == /\ allowed' = IF e.owner = Nobody THEN allowed ELSE allowed \ {n}
                /\ agreed' = IF e.owner = Nobody THEN agreed ELSE agreed \ {n}
                /\ running' = Unload(running, e.owner)
Remove(n) ==
  /\ up /\ disk[n].form = "dir" /\ Forget(n, disk[n])
  /\ disk' = [disk EXCEPT ![n] = Nothing]
  /\ \/ \E r \in Rows : /\ Base[r] = n /\ rows[r].listed
                        /\ rows' = [rows EXCEPT ![r].installed = FALSE]
     \/ (\A r \in Rows : ~ (Base[r] = n /\ rows[r].listed)) /\ UNCHANGED rows
  /\ UNCHANGED <<up, verifier, away, seeded, unsigned, jobs, staged, blanket, hand, drops>>
RemoveQuarantined(n) ==
  /\ up /\ away[n] # Nothing /\ Forget(n, away[n])
  /\ away' = [away EXCEPT ![n] = Nothing]
  /\ UNCHANGED <<up, verifier, disk, seeded, unsigned, rows, jobs, staged, blanket, hand, drops>>

(* The other entries: a row's install mark, the setting, the rows themselves. *)
Uninstall(r) ==
  /\ up /\ rows[r].listed /\ rows[r].installed /\ rows' = [rows EXCEPT ![r].installed = FALSE]
  /\ running' = Unload(running, Base[r])
  /\ UNCHANGED <<up, verifier, disk, away, settings, jobs, staged, user>>
SetAllowUnsigned ==
  /\ up /\ unsigned' = ~ unsigned /\ blanket' = (blanket \/ unsigned')
  /\ UNCHANGED <<up, verifier, disk, away, allowed, seeded, rows, jobs, staged, running, agreed, hand, drops>>
ReplaceRows(source) ==
  /\ up
  /\ \E listed \in SUBSET {r \in Rows : Source[r] = source} :
       rows' = [r \in Rows |-> IF Source[r] # source THEN rows[r]
                               ELSE [listed |-> r \in listed, resolved |-> FALSE,
                                     installed |-> r \in listed /\ rows[r].installed]]
  /\ UNCHANGED <<up, verifier, disk, away, settings, jobs, staged, running, user>>
Rediscover == /\ up /\ disk' = Extracted(disk) /\ running' = Rediscovered(running, disk')
              /\ UNCHANGED <<up, verifier, away, settings, rows, jobs, staged, user>>
(* The user copies a directory or an archive in by hand.                      *)
Drop(n, pkg) ==
  /\ disk[n] = Nothing /\ drops < MaxDrops /\ drops' = drops + 1
  /\ \E e \in {AsDir(pkg), AsZip(pkg)} : disk' = [disk EXCEPT ![n] = e]
  /\ hand' = IF up THEN hand \cup {n} ELSE hand
  /\ UNCHANGED <<up, verifier, away, settings, rows, jobs, staged, running, agreed, blanket>>
-----------------------------------------------------------------------------
Next ==
  \/ \E bad \in {{}} \cup {{n} : n \in Names} : Launch(bad)
  \/ Quit \/ SetAllowUnsigned \/ Rediscover
  \/ \E r \in Rows : Install(r) \/ InstallAgain(r) \/ Uninstall(r)
  \/ \E source \in {"url", "streamdock", "mirabox"} : ReplaceRows(source)
  \/ \E j \in jobs : \/ Fail(j) \/ Resolve(j) \/ Fetch(j)
                     \/ \E pkg \in Packages : Downloaded(j, pkg) \/ CrashOnDownload(j, pkg) \/ Finalize(j, pkg)
  \/ \E n \in Names : \/ Allow(n) \/ Remove(n) \/ RemoveQuarantined(n)
                      \/ \E pkg \in Packages : \/ Drop(n, pkg)
                                               \/ \E confirmed \in BOOLEAN : InstallFile(pkg, n, confirmed)
Spec == Init /\ [][Next]_vars

(* The types: an archive is never quarantined and never runs.                 *)
TypeOK ==
  /\ \A n \in Names : away[n].form \in {"none", "dir"} /\ running[n].form \in {"none", "dir"}
  /\ allowed \subseteq Names /\ seeded \subseteq Names /\ agreed \subseteq Names
  /\ \A j \in jobs : j.row \in Rows /\ j.id \in 1..MaxJobs
  /\ (up \/ (jobs = {} /\ \A n \in Names : running[n] = Nothing))

(* Whatever the order of installs, removals, crashes and launches: no plugin  *)
(* whose signature is bad is started, and an unsigned one only if the user    *)
(* agreed to it since a plugin was last removed from that directory, or has   *)
(* allowed all, or it came with the application. What was copied in while the *)
(* application runs is checked from the next launch on.                       *)
Started(n) == running'[n] \notin {Nothing, running[n]} /\ n \notin hand'
StartsWithConsent ==
  [][\A n \in Names : Started(n) =>
       /\ Verdict(running'[n]) # "Refused"
       /\ Verdict(running'[n]) = "Unsigned" => n \in agreed' \cup Bundled \/ blanket']_vars

(* A plugin that is removed is stopped (application.cpp:1464: an uninstall    *)
(* "must also STOP the running plugin").                                      *)
RemovedIsStopped == \A n \in Names : disk[n] = Nothing => running[n] = Nothing
=============================================================================
