------------------------------ MODULE MCServices ------------------------------
(* Fifteen scenes, one of them chosen at the start: each is a small instance *)
(* of a module whose steps are independent of the others'.  Hot-plug is the  *)
(* module itself.                                                             *)
EXTENDS Services, TLC

VARIABLES
  scene,
  kOpen, kCache, dev, queued, kHeard, kAsked, kReport, kCommands,
  mCache, mouse, mAsked, mReport, mWritten, mCommands,
  dOpen, panel, frames, dHeard, dAsked, dWritten, dThrown, dCommands,
  fetcher, cCache, cRows, marked, online, complete, refreshes,
  platform, node, mDisk, live, noticed, last, steps,
  aActive, aOpen, aCursors, aCalls, aAsked, aPerformed, aAstray, aRounds, aSeen, aUnreadable

keyboard == <<kOpen, kCache, dev, queued, kHeard, kAsked, kReport, kCommands>>
mice == <<mCache, mouse, mAsked, mReport, mWritten, mCommands>>
dock == <<dOpen, panel, frames, dHeard, dAsked, dWritten, dThrown, dCommands>>
via == <<board, told, request, vCommands>>
transport == <<made, library, ready, tHandle, stats, tWire, tThrown, calls>>
services == <<sAttached, listed, autoSync, enumerator, ticking, polling, pollTimer, stored, pending, clock,
              charge, known, kept, said, sPlugs>>
updates == <<status, latest, etag, dismissed, auto, nightly, timer, first, uWire, published, uAsked,
             opened, launched, renewed>>
store == <<fetcher, cCache, cRows, marked, online, complete, refreshes>>
manifests == <<platform, node, mDisk, live, noticed, last, steps>>
sidecar == <<bus, bChild, bTodo, entries, readers, bStale, stdin, eof, stdout, bPhase, bRunning, bReady, bSerial,
             lit, bHeard>>
surfaces == <<fProfile, fActive, fAlive, fPending, fTimer, fLast, fCarousel, fRemembered, fShown,
              fLevel, fPainted, fDrawn, fWiped, fDimmed>>
actions == <<aActive, aOpen, aCursors, aCalls, aAsked, aPerformed, aAstray, aRounds, aSeen, aUnreadable>>
obsClient == <<oSetting, oState, oPassword, oConnected, oAuthFailed, oLink, oToClient, oToObs, oObs, oWelcome, oRefused>>
all == <<scene, updates, store, manifests, vars, keyboard, mice, dock, via, transport, services, sidecar, surfaces,
         actions, obsClient>>
-----------------------------------------------------------------------------
(* Three releases, the second with a tag that is no plain version; two        *)
(* nightlies; two mice of two lines and a dock.                               *)
Tag(parts, suffix) == [lead |-> TRUE, nightly |-> FALSE, parts |-> parts, suffix |-> suffix]
Night(n) == [lead |-> FALSE, nightly |-> TRUE, parts |-> <<>>, suffix |-> n]
Releases == <<Tag(<<1, 2>>, 0), Tag(<<1, -2, 3, -1>>, 1), Tag(<<1, 3>>, 0)>>
Nights == {Night(1), Night(2)}
ThisBuild == Tag(<<1, 2, 0>>, 0)
Families == [old |-> "mouse", new |-> "mouse", dock |-> "streamdeck"]

(* Three pages with a record on two of them, one without a name and one for   *)
(* an unknown device.                                                         *)
Url(scheme, host) == [scheme |-> scheme, host |-> host]
Sd(id, name, devices) ==
  [id |-> id, name |-> name, types |-> <<"-", "music">>, devices |-> devices, icon |-> Url("http", "h"),
   download |-> Url("https", "cdn")]
Od(id) == [id |-> id, name |-> "obs", icon |-> Url("https", "dead"), download |-> Url("-", "-"),
           download_url |-> Url("http", "x")]
Entry(type, name, path) == [type |-> type, name |-> name, path |-> path, dotted |-> FALSE]
Row(uuid, source) ==
  [uuid |-> <<uuid>>, name |-> uuid, product |-> "-", category |-> "-", tags |-> <<>>, devices |-> <<>>,
   icon |-> Url("qrc", "-"), download |-> Url("-", "-"), source |-> source]
C == INSTANCE Catalogues WITH
       Pages <- <<<<Sd("1", "clock", <<"293", "N4", "293">>), Sd("2", "-", <<"N4">>)>>,
                  <<Sd("3", "timer", <<"??">>), Sd("4", "timer", <<"N4">>)>>,
                  <<Sd("5", "late", <<"N4">>)>>>>,
       Archive <- <<Od("o"), Od("-")>>,
       Repository <- <<Entry("file", "readme", "p0"), Entry("dir", "weather", "p1")>>,
       Bundled <- [streamdock |-> <<Row("b1", "streamdock")>>, opendeck |-> <<Row("b2", "opendeck")>>],
       Fixture <- <<Row("f", "community")>>, Codename <- [x \in {"293", "N4"} |-> IF x = "N4" THEN "akp05" ELSE "akp153"],
       DeadHosts <- {"dead"}, Queries <- {"-", "clock"}, MaxPages <- 2, MaxRefreshes <- 2,
       cache <- cCache, rows <- cRows

(* Bundles with every kind of code path, one of an author who signs with the  *)
(* directory's name, one with an unsafe path and one without an OS.           *)
Path(ext) == [ext |-> ext, safe |-> TRUE]
Text(text, low) == [text |-> text, low |-> low]
Action(uuid, name, controllers, icon, states) ==
  [uuid |-> uuid, name |-> name, pi |-> "-", controllers |-> controllers, visible |-> TRUE, icon |-> icon,
   encoderIcon |-> "-", states |-> states, automatic |-> TRUE]
Plain ==
  [keys |-> {"Name", "Author", "Version", "OS", "Actions", "CodePath", "CodePathWin", "CodePaths"},
   generic |-> Path("-"), win |-> Path("-"), mac |-> Path("-"), lin |-> Path("-"),
   triples |-> [t \in {"linux-x86", "linux-arm", "windows-x86", "darwin-x86", "darwin-arm"} |-> Path("-")],
   puuid |-> <<>>, uuid |-> <<>>, puuidSafe |-> TRUE, pi |-> "pi.html", icon |-> "logo",
   monitored |-> <<>>, profiles |-> <<>>, os |-> {}, minimum |-> <<>>, pe |-> FALSE, small |-> TRUE,
   actions |-> <<Action(<<"com", "x", "one">>, "One", {"Keypad", "Knob"}, "key", <<"-", "lit">>),
                 Action(<<"com", "x", "two">>, "Two", {"Information"}, "-", <<"-">>)>>,
   files |-> {<<"key", "@2x.png">>, <<"key", ".svg">>, <<"logo", "">>, <<"pi.html", "">>}]
Samples ==
  {[Plain EXCEPT !.generic = Path("js"), !.os = {"mac", "windows"}, !.minimum = <<4, 1>>],
   [Plain EXCEPT !.win = Path("js"), !.os = {"windows"}, !.uuid = <<"com", "x">>],
   [Plain EXCEPT !.generic = Path("exe"), !.os = {"windows"}, !.pe = TRUE],
   [Plain EXCEPT !.triples = [t \in DOMAIN @ |-> CASE t = "windows-x86" -> Path("exe")
                                                   [] t \in {"linux-x86", "darwin-x86"} -> Path("-bin")
                                                   [] OTHER -> Path("-")],
                 !.monitored = <<<<[base |-> "a"]>>, <<[base |-> "a"], [base |-> "-"]>>>>],
   [Plain EXCEPT !.generic = Path("html"), !.minimum = <<7>>, !.puuid = <<"own">>],
   [Plain EXCEPT !.generic = Path("html"),
                 !.profiles = <<[name |-> Text("main", "main"), path |-> Text("p/main", "p/main")],
                                [name |-> Text("Main", "main"), path |-> Text("p/Main", "p/main")]>>,
                 !.actions = Append(@, [Action(<<"zz">>, "-", {}, "-", <<>>) EXCEPT !.visible = FALSE])],
   [Plain EXCEPT !.generic = [ext |-> "js", safe |-> FALSE]],
   [Plain EXCEPT !.keys = @ \ {"OS"}]}
M == INSTANCE PluginManifests WITH
       Dirs <- {<<"com", "x">>, <<"293">>}, Bundles <- Samples, Off <- {}, Arch <- "x86_64",
       Emulated <- <<6, 9>>, Tokens <- {Text("Main", "main"), Text("MAIN", "main")}, MaxSteps <- 3,
       disk <- mDisk

(* A keyboard that was sold with two product numbers, and a dock.             *)
KeysOfRow == [kb |-> {"k1", "k2"}, dock |-> {"d1"}]
FirstOfRow == [kb |-> "k1", dock |-> "d1"]

(* Payloads that fill no chunk, one, one and a bit, and three; pictures of    *)
(* the panel's size, smaller, empty, turned, and short of a pixel.            *)
Px(n) == [i \in 1..n |-> <<8 * i, 4 * i, 200>>]
Picture(width, height, pixels) == [w |-> width, h |-> height, pixels |-> pixels]
K == INSTANCE Keyboard WITH
       Zones <- {"keys", "logo"}, Leds <- [keys |-> 2, logo |-> 1], MacroChunk <- 4, RgbChunk <- 4, RgbRoom <- 3,
       Panel <- [w |-> 3, h |-> 2], PictureChunk <- 5, Years <- {1999, 2026, 2256},
       Settings <- {[fn |-> 1, sleep |-> 5, level |-> 0], [fn |-> 0, sleep |-> 5, level |-> 9]},
       Modes <- {[mode |-> 1, brightness |-> 9, speed |-> 2]}, Levels <- {50, 120},
       Macros <- {<<>>, <<1, 2, 3>>, <<1, 2, 3, 4, 5, 6>>, <<1, 2, 3, 4, 5, 6, 7, 8, 9>>},
       Pictures <- {Picture(3, 2, Px(6)), Picture(1, 1, Px(1)), Picture(0, 1, <<>>), Picture(2, 3, Px(6)),
                    Picture(2, 3, Px(5))},
       Bursts <- {<<"layer">>, <<"other", "layer", "other", "other", "layer">>}, MaxCommands <- 2,
       open <- kOpen, cache <- kCache, heard <- kHeard, asked <- kAsked, report <- kReport,
       commands <- kCommands

Event(kind, value) == [kind |-> kind, value |-> value]
N == INSTANCE Mouse WITH
       Profiles <- 0..1, Slots <- 0..1, Stages <- 3, MacroBytes <- 10, MacroChunk <- 4, MacroRoom <- 3,
       Rates <- <<125, 250, 500, 1000, 2000, 4000, 8000>>, AskedRates <- {0, 3000, 1000},
       Settings <- {[lod |-> 2, debounce |-> 20], [lod |-> 0, debounce |-> 5]},
       Tables <- {[profile |-> 1, active |-> 9, count |-> 9, stages |-> <<400, 0, 1600>>]},
       Macros <- {<<>>, <<Event("down", 4), Event("delay", 300), Event("up", 4), Event("delay", 9),
                          Event("delay", 1000), Event("delay", 1000), Event("delay", 1000)>>},
       Frames <- {<<5, 0, 0, 64>>, <<0, 0, 101, 1>>, <<5, 1, 0, 3>>, <<>>}, MaxCommands <- 2,
       cache <- mCache, asked <- mAsked, report <- mReport, written <- mWritten, commands <- mCommands

(* Nine frames are one more than is read at a time.                           *)
D == INSTANCE Panel WITH
       KeyCount <- 2, Pixels <- 4, PacketSize <- 3, MaxSize <- 4,
       Pictures <- {Picture(2, 2, <<1, 2, 3, 4>>), Picture(1, 1, <<7>>), Picture(0, 2, <<>>), Picture(2, 2, <<1, 2, 3>>)},
       Levels <- {50, 200},
       Bursts <- {<<[kind |-> "ACK", key |-> 1], [kind |-> "input", key |-> 2], [kind |-> "input", key |-> 3]>>,
                  [i \in 1..9 |-> [kind |-> "input", key |-> (i % 2) + 1]]}, MaxCommands <- 3,
       open <- dOpen, heard <- dHeard, asked <- dAsked, written <- dWritten, thrown <- dThrown,
       commands <- dCommands

(* Of a VIA keyboard: two keys, and macros that fill no report, one, and two. *)
ViaPositions == {<<0, 0, 0>>, <<0, 1, 2>>}
ViaMacros == {<<>>, <<1, 2, 3>>, <<1, 2, 3, 4, 5, 6>>}

(* Two transports, the second for one of the three interfaces.                *)
Interface(page, usage) == [page |-> page, usage |-> usage]
InterfaceOf == [x |-> Interface(0, 0), y |-> Interface(65280, 2)]
Enumerated == <<Interface(1, 6), Interface(65280, 1), Interface(65280, 2)>>

(* Two models with one codename.                                              *)
NameOf == [kb |-> "K", tw |-> "K"]
FirstNamed == [K |-> "kb"]

(* A dock the host has a driver of its own for and one it has not.            *)
HostedModels == [a |-> "0300:1001", n |-> "0300:3004"]
LastKey == <<15>>
LastZone == <<2>>

(* Two docks, the first with a strip and a host.  A profile with a picture,   *)
(* a vacated key on one page and a picture that does not load on another, and *)
(* a profile that plugins draw.                                               *)
Face(image, loads, back, acts) == [image |-> image, loads |-> loads, back |-> back, acts |-> acts]
Drawn == Face("-", TRUE, "-", TRUE)
Pictured == Face("p", TRUE, "-", TRUE)
DockProfiles ==
  {[keys |-> (0 :> Pictured) @@ (255 :> Pictured), dials |-> (0 :> Face("z", TRUE, "-", TRUE)),
    pages |-> <<(0 :> Face("-", TRUE, "-", FALSE)), (0 :> Face("q", FALSE, "b", TRUE))>>],
   [keys |-> (0 :> Drawn), dials |-> (0 :> Drawn), pages |-> <<>>]}
TagsOfDock == [a |-> {"key", "main", "encoder", "zone"}, n |-> {"key", "main"}]
ScreensOfDock == [a |-> {<<"key", 1>>, <<"zone", 0>>}, n |-> {<<"key", 1>>}]

(* The faces are painted on docks whose panels light.                         *)
Painting == F!Paint \/ F!Dies \/ \E d \in {"a", "n"} : F!Activate(d, TRUE) \/ F!ActivationFails(d)
Lighting == F!Session \/ F!Dim

(* A carousel by itself, whose second step is another and whose third changes *)
(* the profile and goes on to that other; two that share their place, as all  *)
(* do whose settings name none, the second of which enters the first; a Multi *)
(* Action; and what else keys may hold.                                       *)
Key(id, settings) == [id |-> id, settings |-> settings]
Switch(name) == Key("opendeck.switchprofile", [profile |-> name])
Carousel(id, turns) == Key("multiactions.LunBo", [bindingId |-> id, actions |-> turns])
Music == Key("system.multimedia", [key |-> "play_pause"])
Inner == Carousel("inner", <<Switch("Work"), Music>>)
Shared == Key("multiactions.LunBo", [actions |-> <<Music, Key("page.goto", [target |-> 2])>>])
KeyBindings ==
  [carousel |-> Carousel("outer", <<Music, Inner, Key("multiaction", [actions |-> <<Switch("Play"), Inner>>])>>),
   shared |-> Shared,
   longer |-> Key("multiactions.LunBo", [actions |-> <<Music, Key("page.change", [direction |-> "CCW"]), Shared>>]),
   multi |-> Key("multiaction", [actions |-> <<Key("plugin.a", <<>>), Key("plugin.b", <<>>), Key("plugin.c", <<>>),
                                               Key("multiactions.LunBo", <<>>)>>]),
   chord |-> Key("system.hotkey", [modifiers |-> <<"ctrl", "hyper", "win">>, key |-> [kind |-> "f", n |-> 12]]),
   unknown |-> Key("system.hotkey", [key |-> [kind |-> "f", n |-> 13]]),
   text |-> Key("plain.text", [text |-> "t"]), dark |-> Key("device.brightness", [level |-> -5]),
   run |-> Key("runcommand", [program |-> "p"]), file |-> Key("browser", [url |-> <<"file", "x">>]),
   folder |-> Key("profile.openchild", [childId |-> "c"]), back |-> Key("profile.backtoparent", <<>>),
   volume |-> Key("system.volume", [direction |-> "up"]), quieter |-> Key("system.volume", [direction |-> "down"]),
   rotate |-> Key("opendeck.profilerotate", <<>>), nobody |-> Switch("Nobody")]
Listed(id, name) == [id |-> id, name |-> name]
A == INSTANCE BuiltinActions WITH
       Bound <- KeyBindings, Owner <- [x \in {"plugin.a", "plugin.b"} |-> x], Mounted <- {"plugin.b"},
       Stranger <- "old",
       Profiles <- <<Listed("p1", "Play"), Listed("p2", "Work"), Listed("p3", "Work")>>,
       active <- aActive, deviceOpen <- aOpen, cursors <- aCursors, calls <- aCalls, asked <- aAsked,
       performed <- aPerformed, astray <- aAstray, rounds <- aRounds, seen <- aSeen,
       unreadable <- aUnreadable
-----------------------------------------------------------------------------
Scenes == {"updates", "store", "manifests", "hotplug", "keyboard", "mice", "dock", "via",
           "transport", "services", "sidecar", "faces", "light", "actions", "obs"}
(* Where a scene that is not chosen stands does not matter.                   *)
MCInit ==
  /\ scene \in Scenes
  /\ U!Init /\ C!Init /\ M!Init
  /\ scene # "updates" => auto = FALSE /\ nightly = FALSE
  /\ scene # "store" => online = FALSE
  /\ scene # "manifests" => platform = "linux" /\ node = 0
  /\ Init /\ K!Init /\ N!Init /\ D!Init /\ V!Init /\ T!Init /\ S!Init
  /\ scene # "hotplug" => attached = {} /\ os = "linux"
  /\ scene # "mice" => mouse = N!Factory(0)
  /\ scene # "services" => sAttached = {}
  /\ B!Init /\ F!Init
  /\ scene # "sidecar" => bus = {}
  /\ scene # "faces" => fProfile = CHOOSE p \in DockProfiles : TRUE
  /\ A!Init /\ O!Init
  /\ IF scene = "actions" THEN Cardinality(aUnreadable) <= 1 ELSE aActive = "old" /\ ~aOpen /\ aUnreadable = {}
  /\ scene # "obs" => oSetting = "-" /\ oObs = "down"

Others ==
  /\ UNCHANGED scene
  /\ scene # "updates" => UNCHANGED updates
  /\ scene # "store" => UNCHANGED store
  /\ scene # "manifests" => UNCHANGED manifests
  /\ scene # "hotplug" => UNCHANGED vars
  /\ scene # "keyboard" => UNCHANGED keyboard
  /\ scene # "mice" => UNCHANGED mice
  /\ scene # "dock" => UNCHANGED dock
  /\ scene # "via" => UNCHANGED via
  /\ scene # "transport" => UNCHANGED transport
  /\ scene # "services" => UNCHANGED services
  /\ scene # "sidecar" => UNCHANGED sidecar
  /\ scene \notin {"faces", "light"} => UNCHANGED surfaces
  /\ scene # "actions" => UNCHANGED actions
  /\ scene # "obs" => UNCHANGED obsClient
MCNext ==
  /\ \/ scene = "updates" /\ U!Next
     \/ scene = "store" /\ C!Next
     \/ scene = "manifests" /\ M!Next
     \/ scene = "hotplug" /\ Next
     \/ scene = "keyboard" /\ K!Next
     \/ scene = "mice" /\ N!Next
     \/ scene = "dock" /\ D!Next
     \/ scene = "via" /\ V!Next
     \/ scene = "transport" /\ T!Next
     \/ scene = "services" /\ S!Next
     \/ scene = "sidecar" /\ B!Next
     \/ scene = "faces" /\ Painting
     \/ scene = "light" /\ Lighting
     \/ scene = "actions" /\ A!Next
     \/ scene = "obs" /\ O!Next
  /\ Others
MCSpec == MCInit /\ [][MCNext]_all

(* What is reported is so, in states of the right types: what a backend says  *)
(* was done, a press asks, the store and the editor offer (see the modules).  *)
ReportsAreTrue ==
  /\ scene = "keyboard" => K!TypeOK /\ K!ReportIsTrue
  /\ scene = "mice" => N!TypeOK /\ N!ReportIsTrue
  /\ scene = "dock" => D!TypeOK /\ D!PanelIsTrue
  /\ scene = "actions" => A!TypeOK /\ A!ActionsAreTrue
  /\ scene = "store" => C!TypeOK /\ C!ListsAreWhole
  /\ scene = "manifests" => M!TypeOK /\ M!OffersAreKept
=============================================================================
