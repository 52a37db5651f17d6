------------------------------- MODULE Surfaces -------------------------------
(* What StreamDockControlService puts on a dock (stream_dock_control_service.cpp): *)
(* the faces of the profile's bindings, page by page, with the carousel over *)
(* its pages; what plugins and the editor draw over them; the map of writes   *)
(* that the next turn of the event loop drains; the pictures kept to revert   *)
(* to, and the brightness.  Which backend stands behind the active dock, and  *)
(* for whom a picture was drawn, are DockSession's concern.                   *)
EXTENDS Integers, Sequences

CONSTANTS
  Docks, None,
  Tags,       (* per dock, the kinds of surface its backend can be cast to   *)
  Screens,    (* per dock, the places that show something                    *)
  Hosted,     (* docks behind streamdock-host; the others have a driver here *)
  Profiles,   (* keys: binding by key; pages: the same of the other pages,   *)
              (* as their ids sort; dials: binding by dial                   *)
  Art,        (* what plugins and the editor draw                            *)
  Dark,       (* the black picture                                           *)
  Levels,     (* brightness levels asked for                                 *)
  Deltas      (* relative changes of the brightness asked for                *)

VARIABLES
  profile,    (* what the profile accessor returns                           *)
  active,     (* m_activeDevice and m_activeCodename                         *)
  alive,      (* its backend still reaches it                                *)
  pending,    (* m_pendingWrites                                             *)
  timer,      (* m_drainTimer is running                                     *)
  last,       (* m_lastKeyImage                                              *)
  carousel,   (* m_carouselIndex                                             *)
  remembered, (* m_lastBrightness                                            *)
  shown,      (* history: what the active dock was sent since its activation *)
  level,      (* history: the brightness each dock was sent last             *)
  painted,    (* history: what was repainted on the dock since then          *)
  drawn,      (* history: where something was drawn since the last repaint   *)
  wiped,      (* history: keys blanked all at once since they were assigned  *)
  dimmed      (* history: docks whose brightness was written since it was lit *)

faces == <<profile, pending, timer, last, carousel, shown, painted, drawn, wiped>>
light == <<remembered, level, dimmed>>
vars == <<faces, light, active, alive>>

Root == 0
Unset == -1
DefaultLevel == 80
KeyRange == 255
DeviceKey(k) == <<"key", k + 1>>
Places == UNION {Screens[d] : d \in Docks}
Zones == {<<"zone", p[2]>> : p \in {q \in Places : q[1] = "zone"}}
(* An encoder's picture goes to the zone of the strip beneath it.              *)
Surfaces == Places \cup {<<"encoder", z[2]>> : z \in Zones} \cup {<<"main", 0>>}
KeyPlaces == {p \in Places : p[1] = "key"}
Nothing == [s \in Surfaces |-> None]
Unseen == [p \in Places |-> None]

(* The order of PendingKey, in which the map is drained.                       *)
Rank(tag) == CASE tag = "key" -> 0 [] tag = "main" -> 1 [] tag = "encoder" -> 2 [] tag = "zone" -> 3
Before(s, t) == Rank(s[1]) < Rank(t[1]) \/ (s[1] = t[1] /\ s[2] < t[2])
Castable(s) == active # None /\ s[1] \in Tags[active]

(* A binding's static face: its picture if it loads, else its background.  A   *)
(* binding without a face and without actions is a vacated slot.               *)
Face(b) == IF b.image # None /\ b.loads THEN b.image ELSE b.back
KeyFace(b) == IF Face(b) = None /\ ~b.acts THEN Dark ELSE Face(b)

(* The list of pages is the root and the others in order.                      *)
Bindings(n) == IF n = Root THEN profile.keys ELSE profile.pages[n]
Page == Bindings(carousel)

Clamp(n, lo, hi) == IF n < lo THEN lo ELSE IF n > hi THEN hi ELSE n
-----------------------------------------------------------------------------
Init ==
  /\ profile \in Profiles /\ active = None /\ alive = FALSE /\ pending = Nothing /\ timer = FALSE
  /\ last = [p \in KeyPlaces |-> None] /\ carousel = 0
  /\ remembered = [d \in Docks |-> Unset] /\ level = remembered
  /\ shown = Unseen /\ painted = {} /\ drawn = {} /\ wiped = {} /\ dimmed = {}

(* The keys of a page that a repaint touches: those the device numbers.        *)
Repainted(keys) ==
  IF active = None \/ "key" \notin Tags[active] THEN {}
  ELSE {k \in DOMAIN keys : k < KeyRange /\ KeyFace(keys[k]) # None /\ DeviceKey(k) \in Surfaces}

FaceAt(keys, s) == KeyFace(keys[s[2] - 1])
KeysOver(keys, q) ==
  LET K == {DeviceKey(k) : k \in Repainted(keys)} IN
  [s \in Surfaces |-> IF s \in K THEN FaceAt(keys, s) ELSE q[s]]

(* repaintPage: every bound key of the page that has a face is assigned it, a  *)
(* vacated one is cleared, one that a plugin draws live is left as it is.      *)
RepaintPage(keys) ==
  LET K == {DeviceKey(k) : k \in Repainted(keys)} IN
  /\ last' = [p \in KeyPlaces |-> IF p \notin K THEN last[p]
                                  ELSE IF Face(keys[p[2] - 1]) = None THEN None
                                  ELSE FaceAt(keys, p)]
  /\ wiped' = wiped \ K

(* repaintEncodersFromProfile: a dial's face goes to its zone.                 *)
DialsPainted(p) ==
  IF active = None \/ "zone" \notin Tags[active] THEN {}
  ELSE {e \in DOMAIN p.dials : Face(p.dials[e]) # None /\ <<"zone", e>> \in Surfaces}

DialsOver(p, q) ==
  [s \in Surfaces |-> IF s[1] = "zone" /\ s[2] \in DialsPainted(p) THEN Face(p.dials[s[2]]) ELSE q[s]]

(* profileChanged, after a load or any edit: back to the root page, whose keys *)
(* are repainted, and then the dials.                                          *)
ProfileChanged(p) ==
  LET K == Repainted(p.keys)  E == DialsPainted(p) IN
  /\ profile' = p
  /\ carousel' = 0
  /\ pending' = DialsOver(p, KeysOver(p.keys, pending))
  /\ RepaintPage(p.keys)
  /\ timer' = (timer \/ K # {} \/ E # {})
  /\ drawn' = drawn \ ({DeviceKey(k) : k \in K} \cup {<<"zone", e>> : e \in E})
  /\ painted' = IF active = None THEN painted ELSE {"keys", "dials"}
  /\ UNCHANGED <<active, alive, shown, light>>

(* navigatePage: a step in the list of pages, without wrapping round.          *)
NavigatePage(direction) ==
  LET at == Clamp(carousel + direction, 0, Len(profile.pages))
      keys == Bindings(at)
      K == Repainted(keys) IN
  /\ profile.pages # <<>>
  /\ carousel' = at
  /\ pending' = KeysOver(keys, pending)
  /\ RepaintPage(keys)
  /\ timer' = (timer \/ K # {})
  /\ drawn' = drawn \ {DeviceKey(k) : k \in K}
  /\ painted' = IF active = None THEN painted ELSE painted \cup {"keys"}
  /\ UNCHANGED <<profile, active, alive, shown, light>>
-----------------------------------------------------------------------------
Queue(s, picture) ==
  /\ pending' = [pending EXCEPT ![s] = picture]
  /\ timer' = TRUE
Over(s) == IF s[1] = "encoder" THEN <<"zone", s[2]>> ELSE s

(* assignKeyImage, which asks for no active dock.                              *)
AssignKey(p, picture) ==
  /\ Queue(p, picture)
  /\ last' = [last EXCEPT ![p] = picture]
  /\ drawn' = drawn \cup {p} /\ wiped' = wiped \ {p}
  /\ UNCHANGED <<profile, active, alive, carousel, shown, painted, light>>

(* clearKeyImage: black, and nothing to revert to.                             *)
ClearKey(p) ==
  /\ IF Castable(p) THEN Queue(p, Dark) ELSE UNCHANGED <<pending, timer>>
  /\ last' = [last EXCEPT ![p] = None]
  /\ drawn' = drawn \cup {p} /\ wiped' = wiped \ {p}
  /\ UNCHANGED <<profile, active, alive, carousel, shown, painted, light>>

(* assignMainImage, assignEncoderImage, assignTouchStripZone.                  *)
AssignSurface(s, picture) ==
  /\ Castable(s)
  /\ Queue(s, picture)
  /\ drawn' = drawn \cup {Over(s)}
  /\ UNCHANGED <<profile, active, alive, last, carousel, shown, painted, wiped, light>>

(* clearAll writes at once; what waits in the map is drawn after it.           *)
ClearAll ==
  /\ active # None
  /\ IF alive
     THEN /\ shown' = [p \in Places |-> IF p \in KeyPlaces \cap Screens[active] THEN Dark ELSE shown[p]]
          /\ wiped' = KeyPlaces
     ELSE UNCHANGED <<shown, wiped>>
  /\ UNCHANGED <<profile, active, alive, pending, timer, last, carousel, painted, drawn, light>>

(* What a place shows once the map has been written in order: of two writes    *)
(* for one place the later stays.                                              *)
Sent(p) ==
  LET S == {s \in Surfaces : Over(s) = p /\ pending[s] # None /\ Castable(s)} IN
  IF S = {} \/ p \notin Screens[active] THEN shown[p]
  ELSE pending[CHOOSE s \in S : \A t \in S : t = s \/ Before(t, s)]

(* drainPendingWrites empties the map, whether anybody is there to be written  *)
(* to; a backend that lost its dock only logs what it cannot write.            *)
Drain ==
  /\ timer /\ timer' = FALSE
  /\ shown' = IF active # None /\ alive THEN [p \in Places |-> Sent(p)] ELSE shown
  /\ pending' = Nothing
  /\ UNCHANGED <<profile, active, alive, last, carousel, painted, drawn, wiped, light>>
-----------------------------------------------------------------------------
(* setActiveDevice: the pictures to revert to are those of another dock; the   *)
(* panel is lit, or stays as it is if that write fails.                        *)
Forgets(d) == last' = IF active = d THEN last ELSE [p \in KeyPlaces |-> None]

Activate(d, lit) ==
  /\ Forgets(d)
  /\ active' = d /\ alive' = TRUE
  /\ level' = IF lit THEN [level EXCEPT ![d] = DefaultLevel] ELSE level
  /\ shown' = Unseen /\ painted' = {} /\ wiped' = {} /\ dimmed' = dimmed \ {d}
  /\ UNCHANGED <<profile, pending, timer, carousel, drawn, remembered>>

(* The dock is not there, or cannot be opened.                                 *)
ActivationFails(d) ==
  /\ Forgets(d)
  /\ active' = None /\ alive' = FALSE
  /\ UNCHANGED <<profile, pending, timer, carousel, shown, painted, drawn, wiped, light>>

(* The dock is unplugged, or its host ends.                                    *)
Dies ==
  /\ alive /\ alive' = FALSE
  /\ UNCHANGED <<faces, light, active>>

(* What becomes of a level sent to d: the backend held, or the one the lookup  *)
(* opens for another dock, writes it, throws, or, with no host, does nothing.  *)
Outcomes(d) ==
  IF d = active /\ alive THEN {"written"}
  ELSE {"fails"} \cup (IF d = active THEN {} ELSE {"written"})
                \cup (IF d \in Hosted THEN {"silent"} ELSE {})

(* setBrightness: remembered unless the write throws.                          *)
SetBrightness(d, n) ==
  \E outcome \in Outcomes(d) :
    /\ level' = IF outcome = "written" THEN [level EXCEPT ![d] = Clamp(n, 0, 100)] ELSE level
    /\ dimmed' = CASE outcome = "written" -> dimmed \cup {d}
                   [] outcome = "silent" -> dimmed \ {d}
                   [] outcome = "fails" -> dimmed
    /\ remembered' = IF outcome = "fails" THEN remembered ELSE [remembered EXCEPT ![d] = Clamp(n, 0, 100)]
    /\ UNCHANGED <<faces, active, alive>>

(* deviceBrightnessRequested "adjust": relative to brightnessLevel().          *)
BrightnessLevel(d) == IF remembered[d] = Unset THEN DefaultLevel ELSE remembered[d]
AdjustBrightness(d, delta) == SetBrightness(d, Clamp(BrightnessLevel(d) + delta, 0, 100))

Paint ==
  \/ \E p \in Profiles : ProfileChanged(p)
  \/ \E n \in {-1, 1, 2} : NavigatePage(n)
  \/ \E p \in KeyPlaces : AssignKey(p, Art) \/ ClearKey(p)
  \/ \E s \in Surfaces \ KeyPlaces : AssignSurface(s, Art)
  \/ ClearAll \/ Drain
Session ==
  \/ \E d \in Docks, lit \in BOOLEAN : Activate(d, lit)
  \/ \E d \in Docks : ActivationFails(d)
  \/ Dies
Dim ==
  \/ \E d \in Docks, n \in Levels : SetBrightness(d, n)
  \/ \E d \in Docks, n \in Deltas : AdjustBrightness(d, n)
Next == Paint \/ Session \/ Dim
Spec == Init /\ [][Next]_vars

Pictures == {Art, Dark} \cup UNION {{b.image, b.back} : b \in UNION {
              {p.keys[k] : k \in DOMAIN p.keys} \cup {p.dials[e] : e \in DOMAIN p.dials}
              \cup UNION {{p.pages[i][k] : k \in DOMAIN p.pages[i]} : i \in DOMAIN p.pages} : p \in Profiles}}

(* The type invariant.                                                         *)
TypeOK ==
  /\ profile \in Profiles /\ active \in Docks \cup {None} /\ timer \in BOOLEAN /\ alive \in BOOLEAN
  /\ pending \in [Surfaces -> Pictures \cup {None}] /\ shown \in [Places -> Pictures \cup {None}]
  /\ last \in [KeyPlaces -> Pictures \cup {None}]
  /\ carousel \in 0 .. Len(profile.pages)
  /\ \A d \in Docks : remembered[d] \in Unset .. 100 /\ level[d] \in Unset .. 100
  /\ painted \subseteq {"keys", "dials"} /\ drawn \subseteq Places \cup Surfaces
  /\ wiped \subseteq KeyPlaces /\ dimmed \subseteq Docks

Settled == active # None /\ alive /\ ~timer
Shows(p, picture) ==
  picture # None /\ p \in Screens[active] \ (drawn \cup wiped) => shown[p] = picture

(* Once the writes are drained, the dock shows the faces of the page the       *)
(* carousel stands on, and of the dials, wherever nobody drew over them.       *)
FacesAreUp ==
  Settled =>
    /\ "keys" \in painted => \A k \in DOMAIN Page : Shows(DeviceKey(k), KeyFace(Page[k]))
    /\ "dials" \in painted => \A e \in DOMAIN profile.dials : Shows(<<"zone", e>>, Face(profile.dials[e]))

(* A flash reverts to what the key showed.                                     *)
RevertsToShown ==
  Settled => \A p \in KeyPlaces \cap Screens[active] :
               p \in wiped \/ last[p] = None \/ shown[p] \in {None, last[p]}

(* No write is left behind in the map without a drain to come, and a relative  *)
(* change of the brightness starts from what the panel was set to.             *)
NothingWaitsForNobody == pending # Nothing => timer
LevelIsKnown == \A d \in dimmed : remembered[d] = level[d]

SurfacesAreTrue == FacesAreUp /\ RevertsToShown /\ NothingWaitsForNobody /\ LevelIsKnown
=============================================================================
