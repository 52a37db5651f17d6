------------------------------- MODULE Updates -------------------------------
(***************************************************************************)
(* AppUpdateService, which asks GitHub whether a newer release exists and  *)
(* raises a banner, and FirmwareUpdateService, which starts the vendor's   *)
(* updater for a device.  Answers of GitHub arrive in any order and may be *)
(* errors; the process may be restarted; the server publishes releases     *)
(* while checks are under way.                                             *)
(***************************************************************************)
EXTENDS Integers, Sequences, FiniteSets, SequencesExt

CONSTANTS
  Stable,        \* the releases the server publishes, oldest first: tags
  Nightlies,     \* the rolling builds that may be up: tags
  Current,       \* the version this build carries: a tag
  Sandboxed,     \* FLATPAK_ID is set
  Devices,       \* the devices of the machine
  Core,          \* their DeviceFamily, as a string
  Old,           \* the mice of the AJ199 line
  Registered,    \* the families whose updater the registry names
  Guessed,       \* the families whose updater is where it is looked for
  MaxRequests    \* bound: requests in a behaviour

\* A tag is a text cut at its dots and its first dash: [lead |-> has a 'v',
\* nightly, parts |-> numbers, NotANumber or NoText, suffix |-> its rank among
\* texts in dictionary order, 0 for none].
NotANumber == -1
NoText     == -2
NoTag      == [lead |-> FALSE, nightly |-> FALSE, parts |-> <<>>, suffix |-> 0]

VARIABLES status, latest, etag, dismissed, auto, nightly, timer, first,
          wire, published, asked, opened, launched,
          renewed   \* history: the last status is that of a 304
vars == <<status, latest, etag, dismissed, auto, nightly, timer, first,
          wire, published, asked, opened, launched, renewed>>
checking == <<status, latest, etag, dismissed, auto, nightly, timer, first,
              wire, published, asked, renewed>>
firmware == <<opened, launched>>

-----------------------------------------------------------------------------
(* Versions                                                                *)

ParseVersion(tag) ==
  IF tag.nightly
  THEN [components |-> <<>>, suffix |-> tag.suffix, nightly |-> TRUE]
  ELSE [components |-> [i \in 1 .. Len(SelectSeq(tag.parts, LAMBDA n : n # NoText)) |->
                          LET n == SelectSeq(tag.parts, LAMBDA m : m # NoText)[i]
                          IN IF n = NotANumber THEN 0 ELSE n],
        suffix |-> tag.suffix, nightly |-> FALSE]

\* Missing components count as 0; a release outranks its own candidates.
IsNewerThan(candidate, current) ==
  LET a == ParseVersion(candidate)
      b == ParseVersion(current)
      At(s, i) == IF i <= Len(s) THEN s[i] ELSE 0
      Differ == {i \in 1 .. Len(a.components) + Len(b.components) :
                   At(a.components, i) # At(b.components, i)}
      Top == CHOOSE i \in Differ : \A j \in Differ : i <= j
  IN CASE a.nightly # b.nightly -> a.nightly
       [] a.nightly /\ b.nightly -> a.suffix > b.suffix
       [] ~a.nightly /\ Differ # {} -> At(a.components, Top) > At(b.components, Top)
       [] OTHER -> IF a.suffix = 0 \/ b.suffix = 0
                   THEN a.suffix = 0 /\ b.suffix # 0
                   ELSE a.suffix > b.suffix

-----------------------------------------------------------------------------
(* The process                                                             *)

Boot(autoCheck, withNightly) ==
  [status |-> IF Sandboxed THEN "disabled" ELSE "idle",
   timer |-> ~Sandboxed /\ autoCheck, first |-> ~Sandboxed /\ autoCheck]

Init ==
  /\ auto \in BOOLEAN /\ nightly \in BOOLEAN
  /\ status = Boot(auto, nightly).status
  /\ timer = Boot(auto, nightly).timer /\ first = Boot(auto, nightly).first
  /\ latest = NoTag /\ etag = NoTag /\ dismissed = NoTag
  /\ wire = <<>> /\ published = 1 /\ asked = 0
  /\ opened = Devices /\ launched = {} /\ renewed = FALSE

\* What QSettings keeps survives; what was fetched does not.
Restart ==
  /\ status' = Boot(auto, nightly).status
  /\ timer' = Boot(auto, nightly).timer /\ first' = Boot(auto, nightly).first
  /\ latest' = NoTag /\ etag' = NoTag /\ wire' = <<>> /\ renewed' = FALSE
  /\ UNCHANGED <<dismissed, auto, nightly, published, asked, firmware>>

SetAutoCheckEnabled(on) ==
  /\ auto # on
  /\ auto' = on
  /\ timer' = (on /\ ~Sandboxed)
  /\ UNCHANGED <<status, latest, etag, dismissed, nightly, first, wire,
                 published, asked, renewed, firmware>>

SetIncludeNightly(on) ==
  /\ nightly # on
  /\ nightly' = on
  /\ UNCHANGED <<status, latest, etag, dismissed, auto, timer, first, wire,
                 published, asked, renewed, firmware>>

\* The "latest" request carries the ETag of the last answer that had one.
PerformCheck ==
  /\ status # "disabled"
  /\ asked < MaxRequests /\ asked' = asked + 1
  /\ status' = "checking"
  /\ wire' = Append(wire, [of |-> "latest", etag |-> etag])

\* The user, or the single shot five seconds after the start.
CheckNow ==
  /\ IF status \in {"disabled", "checking"}
     THEN UNCHANGED <<status, wire, asked>>
     ELSE PerformCheck
  /\ first' = FALSE
  /\ UNCHANGED <<latest, etag, dismissed, auto, nightly, timer, published, renewed, firmware>>

\* The timer does not go through checkNow(): a check may start over another.
Tick ==
  /\ timer
  /\ PerformCheck
  /\ UNCHANGED <<latest, etag, dismissed, auto, nightly, timer, first,
                 published, renewed, firmware>>

DismissCurrentUpdate ==
  /\ dismissed' = IF latest # NoTag THEN latest ELSE dismissed
  /\ status' = "idle"
  /\ ~Sandboxed
  /\ UNCHANGED <<latest, etag, auto, nightly, timer, first, wire, published,
                 asked, renewed, firmware>>

\* Mutant: what the user put off is announced again.
ApplyReleaseAgain(tag) ==
  /\ latest' = tag /\ renewed' = FALSE
  /\ status' = IF ~IsNewerThan(tag, Current) THEN "upToDate" ELSE "available"

ApplyRelease(tag) ==
  /\ latest' = tag /\ renewed' = FALSE
  /\ status' = IF ~IsNewerThan(tag, Current) THEN "upToDate"
               ELSE IF tag = dismissed THEN "idle" ELSE "available"

\* The answer's headers count before its body is read.
OnLatestReplyFinished(k) ==
  LET rest == RemoveAt(wire, k)
      tag == Stable[published]
      Settled(s, cached) == /\ status' = s /\ wire' = rest /\ UNCHANGED <<latest, asked>>
                            /\ renewed' = cached
  IN /\ k \in DOMAIN wire /\ wire[k].of = "latest"
     /\ \/ \* 304
           /\ wire[k].etag = tag
           /\ UNCHANGED etag
           /\ Settled(IF status # "checking" THEN status
                      ELSE IF latest = NoTag THEN "upToDate"
                      ELSE IF latest = dismissed THEN "idle" ELSE "available",
                      renewed \/ status = "checking")
        \/ \* no answer, or an error
           UNCHANGED etag /\ Settled("error", FALSE)
        \/ \* a body that is no release
           /\ wire[k].etag # tag
           /\ etag' = tag
           /\ Settled("error", FALSE)
        \/ \* a release; the nightly is asked for only after it
           /\ wire[k].etag # tag
           /\ etag' = tag
           /\ ApplyRelease(tag)
           /\ IF nightly
              THEN /\ asked < MaxRequests /\ asked' = asked + 1
                   /\ wire' = Append(rest, [of |-> "nightly", etag |-> NoTag])
              ELSE wire' = rest /\ UNCHANGED asked
     /\ UNCHANGED <<dismissed, auto, nightly, timer, first, published, firmware>>

OnNightlyReplyFinished(k) ==
  /\ k \in DOMAIN wire /\ wire[k].of = "nightly"
  /\ wire' = RemoveAt(wire, k)
  /\ \/ \E tag \in Nightlies : IsNewerThan(tag, latest) /\ ApplyRelease(tag)
     \/ UNCHANGED <<status, latest, renewed>>   \* an error, no release, or not newer
  /\ UNCHANGED <<etag, dismissed, auto, nightly, timer, first, published, asked,
                 firmware>>

Publish ==
  /\ published < Len(Stable) /\ published' = published + 1
  /\ UNCHANGED <<status, latest, etag, dismissed, auto, nightly, timer, first,
                 wire, asked, renewed, firmware>>

-----------------------------------------------------------------------------
(* The vendor's updater                                                    *)

FamilyForDevice(d) ==
  CASE Core[d] = "streamdeck" -> "streamDock"
    [] Core[d] = "keyboard"   -> "keyboard"
    [] Core[d] = "mouse"      -> IF d \in Old THEN "mouseAj199" ELSE "mouseAj159"
    [] OTHER                  -> "unknown"

\* The registry comes first; only the dock's application is looked for elsewhere.
IsVendorToolInstalled(f) ==
  f # "unknown" /\ (f \in Registered \/ (f = "streamDock" /\ f \in Guessed))

CoreFamily(f) ==
  CASE f = "streamDock" -> "streamdeck"
    [] f = "keyboard"   -> "keyboard"
    [] f \in {"mouseAj159", "mouseAj199"} -> "mouse"
    [] OTHER -> "none"

\* aboutToLaunchVendorTool lets go of the family's handles; the start may fail.
LaunchVendorTool(f) ==
  /\ IsVendorToolInstalled(f)
  /\ opened' = {d \in opened : Core[d] # CoreFamily(f)}
  /\ \/ launched' = launched \cup {f}
     \/ UNCHANGED launched
  /\ UNCHANGED checking

\* The tool has ended; the device comes back and is opened again.
Reopen(d) ==
  /\ d \notin opened
  /\ opened' = opened \cup {d}
  /\ launched' = launched \ {f \in launched : CoreFamily(f) = Core[d]}
  /\ UNCHANGED checking

Next ==
  \/ Restart
  \/ \E on \in BOOLEAN : SetAutoCheckEnabled(on) \/ SetIncludeNightly(on)
  \/ CheckNow \/ Tick \/ DismissCurrentUpdate \/ Publish
  \/ \E k \in DOMAIN wire : OnLatestReplyFinished(k) \/ OnNightlyReplyFinished(k)
  \/ \E d \in Devices : LaunchVendorTool(FamilyForDevice(d)) \/ Reopen(d)
Spec == Init /\ [][Next]_vars

-----------------------------------------------------------------------------
TypeOK ==
  /\ status \in {"idle", "checking", "upToDate", "available", "error", "disabled"}
  /\ {latest, etag, dismissed} \subseteq {NoTag} \cup Range(Stable) \cup Nightlies
  /\ {auto, nightly, timer, first, renewed} \subseteq BOOLEAN
  /\ published \in 1 .. Len(Stable) /\ asked \in 0 .. MaxRequests
  /\ opened \subseteq Devices

(* A banner is never about the release the user put off, and only a check  *)
(* that was answered "not modified" may raise one about a release that is  *)
(* not newer than this build (it does, also after "up to date").  No check *)
(* is left "checking" with nothing under way (checkNow would refuse for    *)
(* ever), a sandboxed build asks nothing, and while a device's updater     *)
(* runs the application holds no handle of that device.                    *)
ChecksAreHonest ==
  /\ status = "available" => /\ latest # NoTag /\ latest # dismissed
                             /\ IsNewerThan(latest, Current) \/ renewed
  /\ status = "checking" => \E k \in DOMAIN wire : wire[k].of = "latest"
  /\ Sandboxed => wire = <<>>
  /\ \A d \in Devices : FamilyForDevice(d) \in launched => d \notin opened
=============================================================================
