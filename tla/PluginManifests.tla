--------------------------- MODULE PluginManifests ---------------------------
(***************************************************************************)
(* What a plugin's manifest.json declares and what the program makes of    *)
(* it: the parser, the gates of the platform and of the version, the way a *)
(* bundle is started, the identity it is told, and the list of actions the *)
(* editor offers, which must agree with all of that although it is read    *)
(* from the disk anew and by other code.                                   *)
(***************************************************************************)
EXTENDS Naturals, Sequences, FiniteSets, SequencesExt

CONSTANTS
  Dirs,        \* the names of bundle directories, as the texts between dots
  Bundles,     \* what may be unpacked there: the records read below
  Off,         \* the directories the user switched off
  Arch,        \* "x86_64" or "arm64"
  Emulated,    \* the Stream Deck version the program passes for
  Tokens,      \* names a plugin may ask to be switched to
  MaxSteps     \* bound: installations, removals and scans

NoText == "-"
NoName == [text |-> NoText, low |-> NoText]
NoPath == [ext |-> NoText, safe |-> TRUE]   \* safe: relative, without ".."
Nothing == [keys |-> {}]                    \* no directory of that name
NotLive == [how |-> "no", bundle |-> Nothing]

VARIABLES platform, node,  \* the machine; node's major version, 0 for none
          disk,            \* [Dirs -> a bundle or Nothing]
          live,            \* m_live: [Dirs -> how it runs, and the bundle it was]
          noticed,         \* disabled with a notice
          last,            \* the counts of the last scan
          steps
vars == <<platform, node, disk, live, noticed, last, steps>>

-----------------------------------------------------------------------------
(* Parsing                                                                 *)

Required == {"Name", "Author", "Version", "OS", "Actions"}
CodeKeys == {"CodePath", "CodePathWin", "CodePathMac", "CodePathLin", "CodePaths"}
Parses(b) == Required \subseteq b.keys /\ b.keys \cap CodeKeys # {}

Or(first, second) == IF first # NoPath THEN first ELSE second

\* A binary for the machine's triple goes before CodePathLin and after the
\* two others.
CodePathLin(b) ==
  LET triple == IF Arch = "x86_64" THEN "linux-x86" ELSE "linux-arm"
  IN IF "CodePaths" \in b.keys THEN Or(b.triples[triple], b.lin) ELSE b.lin
CodePathWin(b) ==
  IF "CodePaths" \in b.keys THEN Or(b.win, b.triples["windows-x86"]) ELSE b.win
CodePathMac(b) ==
  LET triple == IF Arch = "x86_64" THEN "darwin-x86" ELSE "darwin-arm"
  IN IF "CodePaths" \in b.keys THEN Or(b.mac, b.triples[triple]) ELSE b.mac

\* PUUID, or the UUID a standard manifest has.
Puuid(b) == IF b.puuid # <<>> THEN b.puuid ELSE b.uuid

\* The plugin's inspector serves the actions that name none.
Inspector(b, a) == IF a.pi # NoText THEN a.pi ELSE b.pi

\* An array, or one array for each platform, all of them together: base
\* names without a suffix, in small letters, each once.
NormalizeApplicationToken(t) == t.base
MonitoredApplications(b) ==
  FoldLeft(LAMBDA known, t : IF t.base = NoText \/ t.base \in Range(known) THEN known
                             ELSE Append(known, NormalizeApplicationToken(t)),
           <<>>, FlattenSeq(b.monitored))

\* A profile's name is a path without its suffix; one without a name is none.
ShippedProfiles(b) == SelectSeq(b.profiles, LAMBDA d : d.name # NoName)
MatchShippedProfileName(b, token) ==
  LET all == ShippedProfiles(b)
      exact == {i \in DOMAIN all : token \in {all[i].path, all[i].name}}
      near  == {i \in DOMAIN all : token.low \in {all[i].path.low, all[i].name.low}}
      First(s) == all[CHOOSE i \in s : \A j \in s : i <= j].name
  IN CASE exact # {} -> First(exact) [] exact = {} /\ near # {} -> First(near)
       [] OTHER -> NoName

\* What a dial, a key and a touch zone accept; an unknown name accepts nothing.
AffordanceMask(controllers) ==
  IF controllers = {} THEN {"key"}
  ELSE {s \in {"key", "dial", "touch"} :
          \E c \in controllers : \/ c = "Keypad" /\ s = "key"
                                 \/ c \in {"Knob", "Encoder"} /\ s = "dial"
                                 \/ c = "SecondaryScreen" /\ s = "touch"}

-----------------------------------------------------------------------------
(* The gates                                                               *)

\* QVersionNumber: number by number; of two with one beginning, the shorter.
Older(a, b) ==
  \/ \E i \in DOMAIN b : /\ i - 1 <= Len(a) /\ SubSeq(a, 1, i - 1) = SubSeq(b, 1, i - 1)
                         /\ (i > Len(a) \/ a[i] < b[i])

VersionGatePasses(b) == b.minimum = <<>> \/ ~Older(Emulated, b.minimum)

\* On Linux a list without "linux" is accepted.
RunnableHere(b) ==
  /\ \/ b.os = {} \/ platform \in b.os
     \/ platform = "linux" /\ "linux" \notin b.os
  /\ VersionGatePasses(b)

ClassifyWindowsPlugin(b) ==
  CASE "windows" \notin b.os -> "notWindowsOnly"
    [] "windows" \in b.os /\ (Or(CodePathWin(b), b.generic).ext \in {"exe", "dll"} \/ b.pe)
         -> "vendorDll"
    [] OTHER -> "wsOnlyIpc"

SupportsCurrentPlatform(b) ==
  CASE ClassifyWindowsPlugin(b) = "wsOnlyIpc" -> TRUE
    [] ClassifyWindowsPlugin(b) = "vendorDll" -> platform = "windows"
    [] OTHER -> FALSE

Scripts == {"js", "cjs", "mjs"}
Pages   == {"html", "htm"}

\* The platform's own path, the generic one, then a script of another platform.
ResolveEffectiveCodePath(b) ==
  LET own == CASE platform = "windows" -> CodePathWin(b)
               [] platform = "mac" -> CodePathMac(b)
               [] OTHER -> CodePathLin(b)
      Script(p) == IF p.ext \in Scripts \cup Pages THEN p ELSE NoPath
  IN Or(own, Or(b.generic, Or(Script(CodePathWin(b)), Script(CodePathMac(b)))))

-----------------------------------------------------------------------------
(* Starting a bundle                                                       *)

\* discover(): either gate, and never above the emulated version.
Discovered(d) ==
  /\ Parses(disk[d]) /\ disk[d].small
  /\ RunnableHere(disk[d])
     \/ (SupportsCurrentPlatform(disk[d]) /\ VersionGatePasses(disk[d]))

ResolveNode20Plus == node >= 20

\* A script needs node, a page the web engine, anything else is a program of
\* its own.
Dispatched(d) ==
  LET code == ResolveEffectiveCodePath(disk[d])
  IN CASE d \in Off \/ code = NoPath \/ ~code.safe \/ ~disk[d].puuidSafe -> "no"
       [] OTHER -> CASE code.ext \in Scripts -> IF ResolveNode20Plus THEN "node" ELSE "no"
                     [] code.ext \in Pages -> "html"
                     [] OTHER -> "native"

RegisteredId(d) == IF Puuid(live[d].bundle) = <<>> THEN d ELSE Puuid(live[d].bundle)

\* The uuid of the registration information: the directory's, or what all the
\* actions begin with when the directory's is not that.
StartsWith(uuid, prefix) == Len(uuid) > Len(prefix) /\ IsPrefix(prefix, uuid)
AnnouncedUuid(d) ==
  LET b == live[d].bundle
      All(prefix) == \A i \in DOMAIN b.actions : StartsWith(b.actions[i].uuid, prefix)
      ns == Front(b.actions[1].uuid)
  IN CASE Puuid(b) # <<>> -> Puuid(b)
       [] Puuid(b) = <<>> /\ (b.actions = <<>> \/ All(d)) -> d
       [] OTHER -> IF Len(b.actions[1].uuid) > 1 /\ All(ns) THEN ns ELSE d

\* rediscover(): what runs is left alone.
Rediscover ==
  LET new == {d \in Dirs : disk[d] # Nothing /\ Discovered(d) /\ live[d] = NotLive}
      code == [d \in Dirs |-> IF d \in new THEN ResolveEffectiveCodePath(disk[d]) ELSE NoPath]
  IN /\ live' = [d \in Dirs |->
                   IF d \in new /\ Dispatched(d) # "no"
                   THEN [how |-> Dispatched(d), bundle |-> disk[d]] ELSE live[d]]
     /\ noticed' = noticed \cup {d \in new : /\ d \notin Off /\ code[d].safe
                                             /\ disk[d].puuidSafe
                                             /\ code[d].ext \in Scripts
                                             /\ ~ResolveNode20Plus}
     /\ UNCHANGED <<platform, node, disk, last, steps>>

-----------------------------------------------------------------------------
(* What the other parts ask of a running bundle                            *)

Probe == <<"", ".png", "@2x.png", ".jpg", ".jpeg", ".svg", ".gif", ".bmp">>
Found(b, name) ==
  LET there == {i \in DOMAIN Probe : <<name, Probe[i]>> \in b.files}
  IN IF name = NoText \/ there = {} THEN NoText
     ELSE Probe[CHOOSE i \in there : \A j \in there : i <= j]

Owners(uuid) == {d \in Dirs : live[d] # NotLive
                   /\ uuid \in {a.uuid : a \in Range(live[d].bundle.actions)}}

OwnerForAction(uuid) ==
  IF Owners(uuid) = {} THEN <<>> ELSE RegisteredId(CHOOSE d \in Owners(uuid) : TRUE)

StateImagePath(d, a, i) ==
  IF i \notin DOMAIN a.states THEN NoText
  ELSE Found(live[d].bundle, IF a.states[i] = NoText THEN a.icon ELSE a.states[i])

EncoderIcon(d, a) == Found(live[d].bundle, IF a.encoderIcon = NoText THEN a.icon ELSE a.encoderIcon)
ActionStateMeta(a) == <<Len(a.states), a.automatic>>

MonitorsApplication(d, t) ==
  LET tokens == MonitoredApplications(live[d].bundle)
  IN live[d] # NotLive /\ (tokens = <<>> \/ NormalizeApplicationToken(t) \in Range(tokens))

ShippedProfileName(d, token) ==
  IF live[d] = NotLive THEN NoName
  ELSE MatchShippedProfileName(live[d].bundle, token)

-----------------------------------------------------------------------------
(* The catalogue's view of the disk                                        *)

Launchable(b) == RunnableHere(b) /\ ResolveEffectiveCodePath(b) # NoPath
Readable == {d \in Dirs : disk[d] # Nothing /\ Parses(disk[d])}

Offers(a) == a.visible /\ a.uuid # <<>> /\ a.name # NoText

\* actionId, icon, inspector and owner of each action the editor shows.
InstalledActions ==
  UNION {{[dir |-> d, uuid |-> a.uuid, surfaces |-> AffordanceMask(a.controllers),
           icon |-> Found(disk[d], IF a.icon # NoText THEN a.icon ELSE disk[d].icon),
           inspector |-> IF <<Inspector(disk[d], a), "">> \in disk[d].files
                         THEN Inspector(disk[d], a) ELSE NoText,
           meta |-> ActionStateMeta(a)]
          : a \in {x \in Range(disk[d].actions) : Offers(x)}}
         : d \in {r \in Readable : Launchable(disk[r])}}

InstalledUnsupportedPlugins ==
  {[dir |-> d, reason |-> IF ~RunnableHere(disk[d]) THEN "osVersion" ELSE "noCodePath"]
     : d \in {r \in Readable : ~Launchable(disk[r])}}

\* The counts of lastScanDiagnostics().
Scan ==
  LET ran == {d \in Readable : Launchable(disk[d])}
      Among(P(_)) == Cardinality(UNION {{<<d, i>> : i \in {j \in DOMAIN disk[d].actions :
                                                     P(disk[d].actions[j])}} : d \in ran})
  IN /\ steps < MaxSteps /\ steps' = steps + 1
     /\ last' = [shown |-> Among(Offers), hidden |-> Among(LAMBDA a : ~a.visible),
                 unnamed |-> Among(LAMBDA a : a.visible /\ ~Offers(a)),
                 broken |-> Cardinality({d \in Dirs : disk[d] # Nothing} \ Readable),
                 skipped |-> Cardinality(Readable \ ran)]
     /\ UNCHANGED <<platform, node, disk, live, noticed>>

-----------------------------------------------------------------------------
\* pluginWillBeReplaced names the directory, so what runs is unloaded first.
Install(d, b) ==
  /\ disk[d] # b
  /\ steps < MaxSteps /\ steps' = steps + 1
  /\ disk' = [disk EXCEPT ![d] = b]
  /\ live' = IF disk[d] = Nothing THEN live ELSE [live EXCEPT ![d] = NotLive]
  /\ UNCHANGED <<platform, node, noticed, last>>

\* pluginUninstalled names the manifest's uuid, so what runs goes on running.
RemoveBundle(d) ==
  /\ disk[d] # Nothing
  /\ disk' = [disk EXCEPT ![d] = Nothing]
  /\ UNCHANGED <<platform, node, live, noticed, last, steps>>

Init ==
  /\ platform \in {"linux", "mac", "windows"} /\ node \in {0, 18, 26}
  /\ disk = [d \in Dirs |-> Nothing] /\ live = [d \in Dirs |-> NotLive]
  /\ noticed = {} /\ steps = 0
  /\ last = [shown |-> 0, hidden |-> 0, unnamed |-> 0, broken |-> 0, skipped |-> 0]

Next ==
  \/ Rediscover \/ Scan
  \/ \E d \in Dirs : RemoveBundle(d) \/ \E b \in Bundles : Install(d, b)

-----------------------------------------------------------------------------
TypeOK ==
  /\ platform \in {"linux", "mac", "windows"} /\ steps \in 0 .. MaxSteps
  /\ \A d \in Dirs : /\ live[d].how \in {"no", "node", "html", "native"}
                     /\ live[d] # NotLive => live[d].bundle \in Bundles
                     /\ disk[d] \in Bundles \cup {Nothing}
  /\ noticed \subseteq Dirs

(* Every action the editor offers can be run: its bundle passes discover() *)
(* and spawn() unless the user switched it off, node is missing or a path  *)
(* or an identity is refused; and one that is listed as unsupported is not *)
(* run, but for the scripts that Windows bundles bring.  A running plugin  *)
(* answers for its own actions and is told a uuid they begin with whenever *)
(* they share one, whatever lies in its directory by now; a key that shows *)
(* the action's icon shows the file the editor shows; a shipped profile is *)
(* found under the name it was asked for before any other spelling.        *)
OffersAreKept ==
  /\ \A o \in InstalledActions :
       LET d == o.dir
           code == ResolveEffectiveCodePath(disk[d])
       IN \/ ~disk[d].small \/ d \in Off \/ ~code.safe \/ ~disk[d].puuidSafe
          \/ /\ Discovered(d)
             /\ Dispatched(d) # "no" \/ (code.ext \in Scripts /\ node < 20)
  /\ \A u \in InstalledUnsupportedPlugins :
       IF u.reason = "noCodePath" THEN Dispatched(u.dir) = "no"
       ELSE Discovered(u.dir) => ClassifyWindowsPlugin(disk[u.dir]) = "wsOnlyIpc"
  /\ \A d \in Dirs : live[d] # NotLive =>
       LET b == live[d].bundle
       IN /\ \A i \in DOMAIN b.actions :
               LET a == b.actions[i]
               IN /\ Owners(a.uuid) = {d} => OwnerForAction(a.uuid) = RegisteredId(d)
                  /\ \A j \in DOMAIN a.states, o \in InstalledActions :
                       /\ a.states[j] = NoText /\ a.icon # NoText
                       /\ disk[d] = b /\ o.dir = d /\ o.uuid = a.uuid
                       => o.icon = StateImagePath(d, a, j)
                  /\ a.encoderIcon = NoText => EncoderIcon(d, a) = Found(b, a.icon)
          /\ Puuid(b) = <<>> /\ b.actions # <<>> =>
               LET ns == Front(b.actions[1].uuid)
               IN ns # <<>> /\ (\A i \in DOMAIN b.actions : StartsWith(b.actions[i].uuid, ns))
                    => \A i \in DOMAIN b.actions : StartsWith(b.actions[i].uuid, AnnouncedUuid(d))
          /\ \A t \in Tokens :
               LET name == ShippedProfileName(d, t)
               IN (\E p \in Range(ShippedProfiles(b)) : p.name = t) => name.text = t.text
          /\ b.monitored = <<>> => \A t \in Tokens : MonitorsApplication(d, [base |-> t.low])
=============================================================================
