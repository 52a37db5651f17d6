-------------------------- MODULE DockSessionProofs --------------------------
(***************************************************************************)
(* Proofs about DockSession.  The invariant says what a cache slot is: it  *)
(* names an object of its own codename that a service holds.  The input    *)
(* service's object is always in its slot, so that the second lookup of an *)
(* activation finds the object of the first.                               *)
(***************************************************************************)
EXTENDS DockSession, FiniteSetTheorems, TLAPS

SlotsNameTheirOwn ==
  \A n \in Names : cache[n] # None =>
    backend[cache[n]].name = n /\ cache[n] \in {ctl, inp}

HeldAreNamed ==
  /\ ctl # None => backend[ctl].name \in Names
  /\ inp # None => backend[inp].name \in Docks

Handles ==
  /\ SlotsNameTheirOwn
  /\ HeldAreNamed
  /\ OneHandle
  /\ EventsAreTagged
  /\ PanelIsPoked

IInv == TypeOK /\ Handles

(***************************************************************************)
(* The registry.                                                           *)
(***************************************************************************)
(* There is an identity for a new object while two are held.               *)
LEMMA FreshIsFree ==
  ASSUME NEW STATE x, NEW STATE y
  PROVE  Fresh({x, y}) \in Backends /\ Fresh({x, y}) # x /\ Fresh({x, y}) # y
<1>1. \E b \in Backends : b \notin {x, y}
  <2>1. SUFFICES ASSUME Backends \subseteq {x, y} PROVE FALSE
    OBVIOUS
  <2>2. IsFiniteSet({x}) /\ Cardinality({x}) = 1
    BY FS_Singleton
  <2>3. IsFiniteSet({x} \cup {y}) /\ Cardinality({x} \cup {y}) <= 2
    BY <2>2, FS_AddElement
  <2>4. {x} \cup {y} = {x, y}
    OBVIOUS
  <2>5. Cardinality(Backends) <= Cardinality({x, y})
    BY <2>1, <2>3, <2>4, FS_Subset
  <2>6. Cardinality(Backends) \in Nat /\ Cardinality({x, y}) \in Nat
    BY <2>3, <2>4, BackendAssumption, FS_CardinalityType
  <2> QED
    BY <2>3, <2>4, <2>5, <2>6, BackendAssumption
<1> QED
  BY <1>1 DEF Fresh

LEMMA BlankIsObject == Blank \in Object /\ Blank.name = None
  BY DEF Blank, Object

(* Opening an object does not change whose it is.                          *)
LEMMA OpeningKeepsTheName ==
  ASSUME NEW STATE r, r \in Object, plugs \in [Docks -> Nat], plugged \subseteq Docks,
         NEW STATE s, s \in OpenResults(r)
  PROVE  s \in Object /\ s.name = r.name
<1>1. CASE s = r
  BY <1>1
<1>2. CASE s = [r EXCEPT !.up = TRUE]
  BY <1>2 DEF Object
<1>3. ASSUME NEW ds, NEW d, s = Opened(r, ds, d), ds \subseteq Docks, d \in Docks \cup {None}
      PROVE  s \in Object /\ s.name = r.name
  BY <1>3 DEF Opened, Object
<1>4. r.serial \in Docks \cup {None} /\ Native \subseteq Docks
  BY NameAssumption DEF Object
<1>5. CASE r.name \in Native /\ s = Opened(r, {r.name}, r.name)
  BY <1>3, <1>4, <1>5
<1>6. ASSUME NEW ds \in SUBSET (plugged \ Native), NEW d \in IF ds = {} THEN {r.serial} ELSE ds,
             s = Opened(r, ds, d)
      PROVE  s \in Object /\ s.name = r.name
  BY <1>3, <1>4, <1>6
<1>7. s = r \/ s = [r EXCEPT !.up = TRUE]
      \/ (r.name \in Native /\ s = Opened(r, {r.name}, r.name))
      \/ \E ds \in SUBSET (plugged \ Native) :
           \E d \in IF ds = {} THEN {r.serial} ELSE ds : s = Opened(r, ds, d)
  BY DEF OpenResults
<1> QED
  BY <1>1, <1>2, <1>5, <1>6, <1>7

(* What a lookup of n returns: an object of n, in n's slot, and the other  *)
(* objects untouched; the one that was in the slot, or one nobody holds.   *)
Registry(objs, slots, n) ==
  /\ objs \in [Backends -> Object]
  /\ slots \in [Names -> Backends \cup {None}]
  /\ slots[n] # None => objs[slots[n]].name = n
  /\ plugs \in [Docks -> Nat] /\ plugged \subseteq Docks

Found(objs, slots, x, y, n, one) ==
  /\ one.id \in Backends
  /\ one.objs \in [Backends -> Object]
  /\ one.objs[one.id].name = n
  /\ \A b \in Backends \ {one.id} : one.objs[b] = objs[b]
  /\ one.cache = [slots EXCEPT ![n] = one.id]
  /\ slots[n] # None => one.id = slots[n]
  /\ slots[n] = None => one.id # x /\ one.id # y

LEMMA LookupFinds ==
  ASSUME NEW STATE objs, NEW STATE slots, NEW STATE x, NEW STATE y,
         NEW n \in Names, NEW STATE one,
         Registry(objs, slots, n), one \in Lookups(objs, slots, {x, y}, n)
  PROVE  Found(objs, slots, x, y, n, one)
<1> USE DEF Registry, Found
<1>1. CASE slots[n] # None
  <2>1. PICK r \in OpenResults(objs[slots[n]]) :
          one = [id |-> slots[n], objs |-> [objs EXCEPT ![slots[n]] = r], cache |-> slots]
    BY <1>1 DEF Lookups, Cached
  <2>2. slots[n] \in Backends /\ objs[slots[n]] \in Object
    BY <1>1
  <2>3. r \in Object /\ r.name = n
    BY <2>2, <1>1, OpeningKeepsTheName
  <2>4. slots = [slots EXCEPT ![n] = slots[n]]
    OBVIOUS
  <2> QED
    BY <1>1, <2>1, <2>2, <2>3, <2>4
<1>2. CASE slots[n] = None
  <2> DEFINE b == Fresh({x, y})
             new == [Blank EXCEPT !.name = n]
  <2>1. PICK r \in OpenResults(new) :
          one = [id |-> b, objs |-> [objs EXCEPT ![b] = r], cache |-> [slots EXCEPT ![n] = b]]
    BY <1>2 DEF Lookups, Cached
  <2>2. b \in Backends /\ b # x /\ b # y
    BY FreshIsFree
  <2>3. new \in Object /\ new.name = n
    BY BlankIsObject DEF Object
  <2>4. r \in Object /\ r.name = n
    <3> HIDE DEF new
    <3> QED BY <2>3, OpeningKeepsTheName
  <2> HIDE DEF b, new
  <2> QED
    BY <1>2, <2>1, <2>2, <2>4
<1> QED
  BY <1>1, <1>2

LEMMA RetainedIsTyped ==
  ASSUME NEW objs \in [Backends -> Object], NEW held
  PROVE  /\ Retained(objs, held) \in [Backends -> Object]
         /\ \A b \in Backends : b \in held => Retained(objs, held)[b] = objs[b]
  BY BlankIsObject DEF Retained

LEMMA LiveIsTyped ==
  ASSUME NEW slots \in [Names -> Backends \cup {None}], NEW held
  PROVE  /\ Live(slots, held) \in [Names -> Backends \cup {None}]
         /\ \A n \in Names : Live(slots, held)[n] # None =>
              slots[n] \in held /\ Live(slots, held)[n] = slots[n]
         /\ \A n \in Names : slots[n] \in held => Live(slots, held)[n] = slots[n]
  BY DEF Live

(***************************************************************************)
(* What is asked of the next objects, slots and holders c and i for the    *)
(* invariant to hold after a step that lets the unheld objects go.         *)
(***************************************************************************)
HandsOver(objs, slots, c, i) ==
  /\ objs \in [Backends -> Object]
  /\ slots \in [Names -> Backends \cup {None}]
  /\ c \in Backends \cup {None} /\ i \in Backends \cup {None}
  /\ \A n \in Names : slots[n] # None => objs[slots[n]].name = n
  /\ c # None => objs[c].name \in Names
  /\ i # None => objs[i].name \in Docks /\ slots[objs[i].name] = i
  /\ c # None /\ i # None /\ objs[c].name = objs[i].name => c = i
  /\ ctl' = c /\ inp' = i
  /\ backend' = Retained(objs, {c, i}) /\ cache' = Live(slots, {c, i})
  /\ i # None => inpName' = objs[i].name
  /\ c # None => (keepAlive' <=> objs[c].name \in Docks)

HandlesTyped ==
  /\ backend \in [Backends -> Object]
  /\ cache \in [Names -> Backends \cup {None}]
  /\ ctl \in Backends \cup {None}
  /\ inp \in Backends \cup {None}

LEMMA Handover ==
  ASSUME NEW STATE objs, NEW STATE slots, NEW STATE c, NEW STATE i,
         HandsOver(objs, slots, c, i)
  PROVE  Handles' /\ HandlesTyped'
<1> USE DEF HandsOver, HandlesTyped
<1>1. /\ backend' \in [Backends -> Object]
      /\ \A b \in Backends : b \in {c, i} => backend'[b] = objs[b]
  BY RetainedIsTyped
<1>2. /\ cache' \in [Names -> Backends \cup {None}]
      /\ \A n \in Names : cache'[n] # None => slots[n] \in {c, i} /\ cache'[n] = slots[n]
      /\ \A n \in Names : slots[n] \in {c, i} => cache'[n] = slots[n]
  BY LiveIsTyped
<1>3. SlotsNameTheirOwn'
  <2>1. SUFFICES ASSUME NEW n \in Names, cache'[n] # None
                 PROVE  backend'[cache'[n]].name = n /\ cache'[n] \in {c, i}
    BY DEF SlotsNameTheirOwn
  <2>2. slots[n] \in {c, i} /\ cache'[n] = slots[n] /\ slots[n] \in Backends
    BY <1>2, <2>1
  <2> QED
    BY <1>1, <2>1, <2>2
<1>4. HeldAreNamed'
  BY <1>1 DEF HeldAreNamed
<1>5. OneHandle'
  BY <1>1, <1>2 DEF OneHandle, Names
<1>6. EventsAreTagged'
  BY <1>1 DEF EventsAreTagged
<1>7. PanelIsPoked'
  BY <1>1 DEF PanelIsPoked, IsDock
<1> QED
  BY <1>1, <1>2, <1>3, <1>4, <1>5, <1>6, <1>7 DEF Handles

(* A step that changes neither the holders nor whose an object is.         *)
LEMMA NamesAreKept ==
  ASSUME IInv, UNCHANGED <<cache, ctl, inp, inpName>>,
         ctl # None => keepAlive' = keepAlive,
         \A b \in Backends : backend'[b].name = backend[b].name
  PROVE  Handles'
<1> USE DEF IInv, Handles, TypeOK
<1>1. SlotsNameTheirOwn'
  BY DEF SlotsNameTheirOwn
<1>2. HeldAreNamed'
  BY DEF HeldAreNamed
<1>3. OneHandle'
  BY DEF OneHandle
<1>4. EventsAreTagged'
  BY DEF EventsAreTagged
<1>5. PanelIsPoked'
  BY DEF PanelIsPoked, IsDock
<1> QED
  BY <1>1, <1>2, <1>3, <1>4, <1>5

(***************************************************************************)
(* The steps.                                                              *)
(***************************************************************************)
WorldTyped ==
  /\ plugs \in [Docks -> Nat]
  /\ plugged \subseteq Docks
  /\ posted \in Seq(Calls)
  /\ armed \in [Docks -> Nat]

SessionTyped ==
  /\ backend \in [Backends -> Object]
  /\ cache \in [Names -> Backends \cup {None}]
  /\ ctl \in Backends \cup {None}
  /\ ctlName \in Names \cup {None}
  /\ keepAlive \in BOOLEAN
  /\ pending \in Pictures
  /\ base \in Pictures
  /\ inp \in Backends \cup {None}
  /\ inpName \in Docks \cup {None}
  /\ bridge \in Docks \cup {None}
  /\ known \subseteq Docks
  /\ wrote \subseteq Docks \X Docks

LEMMA TypesSplit == TypeOK <=> WorldTyped /\ SessionTyped
  BY DEF TypeOK, WorldTyped, SessionTyped

LEMMA NoPicturesTyped == NoPictures \in Pictures
  BY DEF NoPictures, Pictures

LEMMA NoneIsNobody == None \notin Docks /\ None \notin Names /\ None \notin Backends
  BY NameAssumption DEF Names

(* Letting go of a service's object, or of both.                           *)
LEMMA LettingGo ==
  ASSUME IInv, NEW STATE c, c \in {ctl, None}, NEW STATE i, i \in {inp, None},
         ctl' = c, inp' = i,
         backend' = Retained(backend, {c, i}), cache' = Live(cache, {c, i}),
         i # None => inpName' = inpName,
         c # None => keepAlive' = keepAlive
  PROVE  Handles' /\ HandlesTyped'
<1>1. /\ backend \in [Backends -> Object] /\ cache \in [Names -> Backends \cup {None}]
      /\ c \in Backends \cup {None} /\ i \in Backends \cup {None}
  BY DEF IInv, TypeOK
<1>2. \A n \in Names : cache[n] # None => backend[cache[n]].name = n
  BY DEF IInv, Handles, SlotsNameTheirOwn
<1>3. c # None => backend[c].name \in Names
  BY DEF IInv, Handles, HeldAreNamed
<1>4. i # None => backend[i].name \in Docks /\ cache[backend[i].name] = i
  BY DEF IInv, Handles, HeldAreNamed, OneHandle
<1>5. c # None /\ i # None /\ backend[c].name = backend[i].name => c = i
  BY DEF IInv, Handles, OneHandle
<1>6. i # None => inpName' = backend[i].name
  BY DEF IInv, Handles, EventsAreTagged
<1>7. c # None => (keepAlive' <=> backend[c].name \in Docks)
  BY DEF IInv, Handles, PanelIsPoked, IsDock
<1>8. HandsOver(backend, cache, c, i)
  BY <1>1, <1>2, <1>3, <1>4, <1>5, <1>6, <1>7 DEF HandsOver
<1> QED
  BY <1>8, Handover

(* What the registry leaves after the first lookup of an activation.       *)
LEMMA FirstLookup ==
  ASSUME IInv, NEW n \in Names, NEW one \in Lookups(backend, cache, {ctl, inp}, n)
  PROVE  /\ one.id \in Backends
         /\ one.objs \in [Backends -> Object]
         /\ one.cache \in [Names -> Backends \cup {None}]
         /\ one.objs[one.id].name = n /\ one.cache[n] = one.id
         /\ \A m \in Names : one.cache[m] # None => one.objs[one.cache[m]].name = m
         /\ inp # None => /\ one.objs[inp].name = backend[inp].name
                          /\ one.cache[backend[inp].name] = inp
<1>1. /\ backend \in [Backends -> Object] /\ cache \in [Names -> Backends \cup {None}]
      /\ plugs \in [Docks -> Nat] /\ plugged \subseteq Docks
      /\ ctl \in Backends \cup {None} /\ inp \in Backends \cup {None}
  BY DEF IInv, TypeOK
<1>2. \A m \in Names : cache[m] # None =>
        backend[cache[m]].name = m /\ cache[m] \in {ctl, inp}
  BY DEF IInv, Handles, SlotsNameTheirOwn
<1>3. inp # None => backend[inp].name \in Names /\ cache[backend[inp].name] = inp
  BY DEF IInv, Handles, HeldAreNamed, OneHandle, Names
<1>4. /\ one.id \in Backends
      /\ one.objs \in [Backends -> Object]
      /\ one.objs[one.id].name = n
      /\ \A b \in Backends \ {one.id} : one.objs[b] = backend[b]
      /\ one.cache = [cache EXCEPT ![n] = one.id]
      /\ cache[n] # None => one.id = cache[n]
      /\ cache[n] = None => one.id # ctl /\ one.id # inp
  <2>1. Registry(backend, cache, n)
    BY <1>1, <1>2 DEF Registry
  <2>2. Found(backend, cache, ctl, inp, n, one)
    BY <2>1, LookupFinds
  <2> QED
    BY <2>2 DEF Found
<1>5. one.cache \in [Names -> Backends \cup {None}] /\ one.cache[n] = one.id
  BY <1>1, <1>4
<1>6. ASSUME NEW m \in Names, one.cache[m] # None
      PROVE  one.objs[one.cache[m]].name = m
  <2>1. CASE m = n
    BY <2>1, <1>4, <1>5
  <2>2. CASE m # n
    <3>1. one.cache[m] = cache[m] /\ cache[m] \in Backends /\ cache[m] \in {ctl, inp}
      BY <1>1, <1>2, <1>4, <1>6, <2>2
    <3>2. cache[m] # one.id
      BY <3>1, <2>2, <1>2, <1>4, NoneIsNobody
    <3> QED
      BY <3>1, <3>2, <1>2, <1>4, NoneIsNobody
  <2> QED
    BY <2>1, <2>2
<1>7. ASSUME inp # None
      PROVE  one.objs[inp].name = backend[inp].name /\ one.cache[backend[inp].name] = inp
  <2>1. CASE inp = one.id
    <3>1. cache[n] = inp
      BY <2>1, <1>4
    <3> QED
      BY <3>1, <2>1, <1>2, <1>4, <1>5, <1>7
  <2>2. CASE inp # one.id
    <3>1. backend[inp].name # n
      BY <2>2, <1>3, <1>4, <1>7
    <3> QED
      BY <3>1, <2>2, <1>1, <1>3, <1>4, <1>7
  <2> QED
    BY <2>1, <2>2
<1> QED
  BY <1>4, <1>5, <1>6, <1>7

(* An activation, failed or not.                                           *)
LEMMA ActivationSteps ==
  ASSUME IInv, NEW n \in Names, SetActiveDevice(n)
  PROVE  Handles' /\ SessionTyped'
<1>1. PICK one \in Lookups(backend, cache, {ctl, inp}, n) :
        \/ /\ one.objs[one.id].up
           /\ ctl' = one.id /\ ctlName' = n
           /\ keepAlive' = RestartsKeepAlive(n)
           /\ ActivatedSlots(n, one)
        \/ /\ ~one.objs[one.id].up
           /\ NotActivated
           /\ backend' = Retained(one.objs, {inp})
           /\ cache' = Live(one.cache, {inp})
  BY DEF SetActiveDevice
<1>2. /\ one.id \in Backends
      /\ one.objs \in [Backends -> Object]
      /\ one.cache \in [Names -> Backends \cup {None}]
      /\ one.objs[one.id].name = n /\ one.cache[n] = one.id
      /\ \A m \in Names : one.cache[m] # None => one.objs[one.cache[m]].name = m
      /\ inp # None => /\ one.objs[inp].name = backend[inp].name
                       /\ one.cache[backend[inp].name] = inp
  BY <1>1, FirstLookup
<1>3. /\ inp \in Backends \cup {None} /\ inpName \in Docks \cup {None}
      /\ bridge \in Docks \cup {None} /\ known \subseteq Docks
      /\ pending \in Pictures /\ base \in Pictures
      /\ plugs \in [Docks -> Nat] /\ plugged \subseteq Docks
  BY DEF IInv, TypeOK
<1>4. inp # None => backend[inp].name \in Docks /\ inpName = backend[inp].name
  BY DEF IInv, Handles, HeldAreNamed, EventsAreTagged
<1>5. pending' \in Pictures /\ base' \in Pictures /\ wrote' \subseteq Docks \X Docks
  BY <1>3, NoPicturesTyped DEF SetActiveDevice
<1>6. ASSUME NotActivated, backend' = Retained(one.objs, {inp}), cache' = Live(one.cache, {inp})
      PROVE  Handles' /\ SessionTyped'
  <2>1. {None, inp} = {inp} \/ {None, inp} = {inp, None}
    OBVIOUS
  <2>2. Retained(one.objs, {None, inp}) = Retained(one.objs, {inp})
    BY NoneIsNobody DEF Retained
  <2>3. Live(one.cache, {None, inp}) = Live(one.cache, {inp})
    BY <1>2 DEF Live
  <2>4. /\ ctl' = None /\ ctlName' = None /\ keepAlive' = FALSE
        /\ inp' = inp /\ inpName' = inpName /\ bridge' = bridge /\ known' = known
    BY <1>6 DEF NotActivated, input, plugins
  <2>5. HandsOver(one.objs, one.cache, None, inp)
    BY <1>2, <1>3, <1>4, <1>6, <2>2, <2>3, <2>4 DEF HandsOver
  <2>6. Handles' /\ HandlesTyped'
    BY <2>5, Handover
  <2> QED
    BY <2>4, <2>6, <1>3, <1>5 DEF SessionTyped, HandlesTyped
<1>7. ASSUME n \in Docks, ctl' = one.id, ctlName' = n, keepAlive' = RestartsKeepAlive(n),
             ActivatedSlots(n, one)
      PROVE  Handles' /\ SessionTyped'
  <2>1. PICK two \in Lookups(one.objs, one.cache, {one.id, inp}, n) :
          /\ inp' = two.id
          /\ backend' = Retained(two.objs, {one.id, inp'})
          /\ cache' = Live(two.cache, {one.id, inp'})
    BY <1>7 DEF ActivatedSlots, Announces
  <2>2. Registry(one.objs, one.cache, n)
    BY <1>2, <1>3 DEF Registry
  <2>3. Found(one.objs, one.cache, one.id, inp, n, two)
    BY <2>2, LookupFinds
  <2>4. two.id = one.id /\ two.cache = one.cache
    BY <2>3, <1>2, NoneIsNobody DEF Found
  <2>5. /\ two.objs \in [Backends -> Object]
        /\ \A b \in Backends : two.objs[b].name = one.objs[b].name
    BY <2>3, <2>4, <1>2 DEF Found
  <2>6. inpName' = n /\ bridge' = n /\ known' = known \cup {n}
    BY <1>7 DEF ActivatedSlots, Announces
  <2>7. HandsOver(two.objs, two.cache, one.id, one.id)
    <3>1. /\ \A m \in Names : two.cache[m] # None => two.objs[two.cache[m]].name = m
          /\ one.id \in Backends => two.objs[one.id].name = n
      BY <2>4, <2>5, <1>2
    <3>2. /\ two.cache \in [Names -> Backends \cup {None}]
          /\ one.id \in Backends \cup {None}
          /\ one.id # None => two.cache[n] = one.id
      BY <2>4, <1>2, <1>7
    <3>3. /\ backend' = Retained(two.objs, {one.id, one.id})
          /\ cache' = Live(two.cache, {one.id, one.id})
          /\ ctl' = one.id /\ inp' = one.id /\ inpName' = n
          /\ keepAlive' <=> n \in Docks
      BY <2>1, <2>4, <2>6, <1>7 DEF RestartsKeepAlive
    <3> QED
      BY <3>1, <3>2, <3>3, <2>5, <1>7, NoneIsNobody DEF HandsOver, Names
  <2>8. Handles' /\ HandlesTyped'
    BY <2>7, Handover
  <2> QED
    BY <2>6, <2>8, <1>3, <1>5, <1>7 DEF SessionTyped, HandlesTyped, RestartsKeepAlive
<1>8. ASSUME n \notin Docks, ctl' = one.id, ctlName' = n, keepAlive' = RestartsKeepAlive(n),
             ActivatedSlots(n, one)
      PROVE  Handles' /\ SessionTyped'
  <2>1. /\ backend' = Retained(one.objs, {one.id, inp})
        /\ cache' = Live(one.cache, {one.id, inp})
        /\ inp' = inp /\ inpName' = inpName /\ bridge' = bridge /\ known' = known
    BY <1>8 DEF ActivatedSlots, Announces, input, plugins
  <2>2. HandsOver(one.objs, one.cache, one.id, inp)
    BY <2>1, <1>2, <1>3, <1>4, <1>8, NoneIsNobody DEF HandsOver, RestartsKeepAlive
  <2>3. Handles' /\ HandlesTyped'
    BY <2>2, Handover
  <2>4. keepAlive' \in BOOLEAN /\ ctlName' \in Names
    BY <1>8 DEF RestartsKeepAlive
  <2> QED
    BY <2>1, <2>3, <2>4, <1>3, <1>5 DEF SessionTyped, HandlesTyped
<1> QED
  BY <1>1, <1>6, <1>7, <1>8

LEMMA NoneHoldsNothing ==
  ASSUME NEW STATE objs, NEW STATE slots, NEW STATE x,
         slots \in [Names -> Backends \cup {None}]
  PROVE  /\ Retained(objs, {x}) = Retained(objs, {x, None})
         /\ Retained(objs, {x}) = Retained(objs, {None, x})
         /\ Live(slots, {x}) = Live(slots, {x, None})
         /\ Live(slots, {x}) = Live(slots, {None, x})
<1>1. \A b \in Backends : b # None
  BY NoneIsNobody
<1> QED
  BY <1>1 DEF Retained, Live

LEMMA ClosingKeepsTheName ==
  ASSUME NEW r \in Object
  PROVE  Closed(r) \in Object /\ Closed(r).name = r.name
  BY DEF Closed, Object

(* Selecting a codename without a backend.                                 *)
LEMMA UnknownSteps ==
  ASSUME IInv, SelectUnknown
  PROVE  Handles' /\ SessionTyped'
<1>1. SessionTyped /\ cache \in [Names -> Backends \cup {None}]
  BY TypesSplit DEF IInv, SessionTyped
<1>2. /\ ctl' = None /\ ctlName' = None /\ keepAlive' = FALSE
      /\ inp' = inp /\ inpName' = inpName /\ bridge' = bridge /\ known' = known
      /\ base' = NoPictures /\ pending' = pending /\ wrote' = {}
      /\ backend' = Retained(backend, {None, inp}) /\ cache' = Live(cache, {None, inp})
  BY <1>1, NoneHoldsNothing DEF SelectUnknown, NotActivated, input, plugins
<1>3. Handles' /\ HandlesTyped'
  BY <1>2, LettingGo
<1> QED
  BY <1>1, <1>2, <1>3, NoPicturesTyped DEF SessionTyped, HandlesTyped

(* An unplugged dock's call.                                               *)
LEMMA RemovalSteps ==
  ASSUME IInv, NEW d \in Docks, Removed(d), wrote' = {}
  PROVE  Handles' /\ SessionTyped'
<1>1. SessionTyped
  BY TypesSplit DEF IInv
<1> DEFINE objs == Evicted(d).objs
           slots == Evicted(d).cache
<1>2. d \in Names /\ cache[d] \in Backends \cup {None}
  BY <1>1 DEF SessionTyped, Names
<1>3. /\ objs \in [Backends -> Object]
      /\ \A b \in Backends : objs[b].name = backend[b].name
  <2>1. CASE cache[d] = None
    BY <2>1, <1>1 DEF Evicted, SessionTyped
  <2>2. CASE cache[d] # None
    <3>1. /\ Closed(backend[cache[d]]) \in Object
          /\ Closed(backend[cache[d]]).name = backend[cache[d]].name
      BY <1>1, <1>2, <2>2, ClosingKeepsTheName DEF SessionTyped
    <3>2. objs = [backend EXCEPT ![cache[d]] = Closed(backend[cache[d]])]
      BY <2>2 DEF Evicted
    <3> QED
      BY <3>1, <3>2, <1>1 DEF SessionTyped
  <2> QED
    BY <2>1, <2>2
<1>4. /\ slots \in [Names -> Backends \cup {None}]
      /\ \A n \in Names : slots[n] # None => slots[n] = cache[n]
  BY <1>1, <1>2 DEF Evicted, SessionTyped
<1>5. /\ inp' = None /\ inpName' = None
      /\ bridge' \in {bridge, None} /\ known' = known \ {d}
      /\ backend' = Retained(objs, {ctl, None}) /\ cache' = Live(slots, {ctl, None})
  BY DEF Removed, Releases, Disconnected
<1>6. /\ ctl' = ctl /\ ctlName' = ctlName /\ keepAlive' = keepAlive
      /\ pending' = pending /\ base' = base
  BY DEF Removed, control
<1>7. \A n \in Names : slots[n] # None => objs[slots[n]].name = n
  <2>1. SUFFICES ASSUME NEW n \in Names, slots[n] # None
                 PROVE  objs[slots[n]].name = n
    OBVIOUS
  <2>2. slots[n] = cache[n] /\ cache[n] \in Backends /\ cache[n] # None
    BY <1>4, <2>1
  <2>3. backend[cache[n]].name = n
    BY <2>2 DEF IInv, Handles, SlotsNameTheirOwn
  <2> HIDE DEF objs, slots
  <2> QED
    BY <1>3, <2>2, <2>3
<1>8. HandsOver(objs, slots, ctl, None)
  <2>1. ctl \in Backends \cup {None} /\ (ctl # None => backend[ctl].name \in Names)
    BY <1>1 DEF SessionTyped, IInv, Handles, HeldAreNamed
  <2>2. ctl # None => (keepAlive' <=> backend[ctl].name \in Docks)
    BY <1>6 DEF IInv, Handles, PanelIsPoked, IsDock
  <2> HIDE DEF objs, slots
  <2> QED
    BY <1>3, <1>4, <1>5, <1>6, <1>7, <2>1, <2>2 DEF HandsOver
<1>9. Handles' /\ HandlesTyped'
  <2> HIDE DEF objs, slots
  <2> QED BY <1>8, Handover
<1> QED
  BY <1>1, <1>5, <1>6, <1>9 DEF SessionTyped, HandlesTyped

(* Reopening, losing and closing hosts and transports.                     *)
LEMMA TransportSteps ==
  ASSUME IInv, (\E n \in Names : Peek(n)) \/ (\E b \in Backends : HostDies(b)) \/ CloseFamily
  PROVE  Handles' /\ SessionTyped' /\ UNCHANGED world
<1>1. SessionTyped /\ WorldTyped
  BY TypesSplit DEF IInv
<1>2. /\ UNCHANGED world /\ cache' = cache /\ ctl' = ctl /\ ctlName' = ctlName
      /\ keepAlive' = keepAlive /\ pending' = pending /\ base' = base
      /\ inp' = inp /\ inpName' = inpName /\ bridge' = bridge /\ known' = known
      /\ wrote' = {}
  BY DEF Peek, HostDies, CloseFamily, control, input, plugins
<1>3. /\ backend' \in [Backends -> Object]
      /\ \A b \in Backends : backend'[b].name = backend[b].name
  <2>1. ASSUME NEW n \in Names, Peek(n)
        PROVE  /\ backend' \in [Backends -> Object]
               /\ \A b \in Backends : backend'[b].name = backend[b].name
    <3>1. PICK r \in OpenResults(backend[cache[n]]) : backend' = [backend EXCEPT ![cache[n]] = r]
      BY <2>1 DEF Peek
    <3>2. cache[n] \in Backends /\ backend[cache[n]] \in Object
      BY <1>1, <2>1 DEF Peek, SessionTyped
    <3>3. plugs \in [Docks -> Nat] /\ plugged \subseteq Docks
      BY <1>1 DEF WorldTyped
    <3>4. r \in Object /\ r.name = backend[cache[n]].name
      BY <3>1, <3>2, <3>3, OpeningKeepsTheName
    <3> QED
      BY <1>1, <3>1, <3>2, <3>4 DEF SessionTyped
  <2>2. ASSUME NEW b \in Backends, HostDies(b)
        PROVE  /\ backend' \in [Backends -> Object]
               /\ \A e \in Backends : backend'[e].name = backend[e].name
    <3>1. backend[b] \in Object /\ backend' = [backend EXCEPT ![b] = Closed(backend[b])]
      BY <1>1, <2>2 DEF HostDies, SessionTyped
    <3> QED
      BY <1>1, <3>1, ClosingKeepsTheName DEF SessionTyped
  <2>3. CASE CloseFamily
    <3>1. \A b \in Backends : Closed(backend[b]) \in Object
                              /\ Closed(backend[b]).name = backend[b].name
      BY <1>1, ClosingKeepsTheName DEF SessionTyped
    <3> QED
      BY <1>1, <2>3, <3>1 DEF CloseFamily, SessionTyped
  <2> QED
    BY <2>1, <2>2, <2>3
<1>4. Handles'
  BY <1>2, <1>3, NamesAreKept
<1> QED
  BY <1>1, <1>2, <1>3, <1>4 DEF SessionTyped

(* The input service drops a device that failed; a drain only writes.      *)
LEMMA FailureSteps ==
  ASSUME IInv, PumpFails \/ Drain
  PROVE  Handles' /\ SessionTyped' /\ UNCHANGED world
<1>1. SessionTyped /\ cache \in [Names -> Backends \cup {None}]
  BY TypesSplit DEF IInv, SessionTyped
<1>2. CASE PumpFails
  <2>1. /\ inp' = None /\ inpName' = inpName
        /\ ctl' = ctl /\ ctlName' = ctlName /\ keepAlive' = keepAlive
        /\ pending' = pending /\ base' = base /\ wrote' = {}
        /\ bridge' = bridge /\ known' = known /\ UNCHANGED world
        /\ backend' = Retained(backend, {ctl, None}) /\ cache' = Live(cache, {ctl, None})
    BY <1>1, <1>2, NoneHoldsNothing DEF PumpFails, control, plugins
  <2>2. Handles' /\ HandlesTyped'
    BY <2>1, LettingGo
  <2> QED
    BY <1>1, <2>1, <2>2 DEF SessionTyped, HandlesTyped
<1>3. CASE Drain
  <2>1. /\ pending' = NoPictures /\ base' = base /\ keepAlive' = keepAlive
        /\ inp' = inp /\ inpName' = inpName
        /\ bridge' = bridge /\ known' = known /\ UNCHANGED world
        /\ ctl' = ctl /\ ctlName' = ctlName /\ backend' = backend /\ cache' = cache
    BY <1>3 DEF Drain, input, plugins, objects
  <2>2. Handles'
    BY <2>1, NamesAreKept
  <2>3. ASSUME NEW d, Reaches(ctl, d)
        PROVE  {<<d, pending[k]>> : k \in {j \in Keys : pending[j] # None}} \subseteq Docks \X Docks
    <3>1. d \in Docks
      BY <2>3 DEF Reaches, IInv, TypeOK
    <3>2. \A k \in Keys : pending[k] # None => pending[k] \in Docks
      BY <1>1 DEF SessionTyped, Pictures
    <3> QED
      BY <3>1, <3>2
  <2>4. wrote' \subseteq Docks \X Docks
    BY <1>3, <2>3 DEF Drain
  <2> QED
    BY <1>1, <2>1, <2>2, <2>4, NoPicturesTyped DEF SessionTyped
<1> QED
  BY <1>2, <1>3

(* Drawing.                                                                *)
LEMMA DrawingSteps ==
  ASSUME IInv,
         \E k \in Keys, d \in Docks :
           \/ \E updateBase \in BOOLEAN : AssignKeyImage(k, d, updateBase)
           \/ ClearKeyImage(k, d)
  PROVE  Handles' /\ SessionTyped' /\ UNCHANGED world
<1>1. SessionTyped
  BY TypesSplit DEF IInv
<1>2. /\ UNCHANGED world /\ backend' = backend /\ cache' = cache
      /\ ctl' = ctl /\ ctlName' = ctlName
      /\ inp' = inp /\ inpName' = inpName /\ bridge' = bridge /\ known' = known
      /\ wrote' = {}
  BY DEF AssignKeyImage, ClearKeyImage, objects, input, plugins
<1>3. keepAlive' \in BOOLEAN /\ (ctl # None => keepAlive' = keepAlive)
  BY <1>1 DEF AssignKeyImage, ClearKeyImage, SessionTyped
<1>4. pending' \in Pictures /\ base' \in Pictures
  BY <1>1 DEF AssignKeyImage, ClearKeyImage, SessionTyped, Pictures
<1>5. Handles'
  BY <1>2, <1>3, NamesAreKept
<1> QED
  BY <1>1, <1>2, <1>3, <1>4, <1>5 DEF SessionTyped

(* Hot-plug events, and the calls they post.                               *)
LEMMA WorldSteps ==
  ASSUME IInv, (\E d \in Docks : Plug(d) \/ Unplug(d)) \/ RunPosted
  PROVE  Handles' /\ SessionTyped' /\ WorldTyped'
<1>1. SessionTyped /\ WorldTyped
  BY TypesSplit DEF IInv
<1>2. ASSUME backend' = backend, cache' = cache, UNCHANGED control, UNCHANGED input,
             UNCHANGED plugins, wrote' = {}
      PROVE  Handles' /\ SessionTyped'
  <2>1. /\ ctl' = ctl /\ ctlName' = ctlName /\ keepAlive' = keepAlive
        /\ pending' = pending /\ base' = base
        /\ inp' = inp /\ inpName' = inpName /\ bridge' = bridge /\ known' = known
    BY <1>2 DEF control, input, plugins
  <2>2. Handles'
    BY <1>2, <2>1, NamesAreKept
  <2> QED
    BY <1>1, <1>2, <2>1, <2>2 DEF SessionTyped
<1>3. ASSUME NEW d \in Docks, Plug(d) \/ Unplug(d)
      PROVE  Handles' /\ SessionTyped' /\ WorldTyped'
  <2>1. Handles' /\ SessionTyped'
    BY <1>2, <1>3 DEF Plug, Unplug, objects
  <2>2. [call |-> "arm", dock |-> d] \in Calls /\ [call |-> "removed", dock |-> d] \in Calls
    BY DEF Calls
  <2>3. posted' \in Seq(Calls)
    <3>1. posted \in Seq(Calls)
      BY <1>1 DEF WorldTyped
    <3>2. \E p \in Calls : posted' = Append(posted, p)
      BY <1>3, <2>2 DEF Plug, Unplug
    <3> QED
      BY <3>1, <3>2
  <2>4. plugs' \in [Docks -> Nat] /\ plugged' \subseteq Docks /\ armed' = armed
    BY <1>1, <1>3 DEF Plug, Unplug, WorldTyped
  <2> QED
    BY <1>1, <2>1, <2>3, <2>4 DEF WorldTyped
<1>4. CASE RunPosted
  <2>1. Head(posted) \in Calls /\ Tail(posted) \in Seq(Calls)
    BY <1>1, <1>4 DEF RunPosted, WorldTyped
  <2>2. PICK d \in Docks : d = Head(posted).dock
    BY <2>1 DEF Calls
  <2>3. /\ plugs' = plugs /\ plugged' = plugged /\ posted' = Tail(posted) /\ wrote' = {}
        /\ Arm(d) \/ Removed(d)
    BY <1>4, <2>2 DEF RunPosted
  <2>4. armed' \in [Docks -> Nat]
    <3>1. armed \in [Docks -> Nat]
      BY <1>1 DEF WorldTyped
    <3>2. armed' = [armed EXCEPT ![d] = @ + 1] \/ armed' = armed
      BY <2>3 DEF Arm, Removed
    <3> QED
      BY <3>1, <3>2
  <2>5. WorldTyped'
    BY <1>1, <2>1, <2>3, <2>4 DEF WorldTyped
  <2>6. CASE Arm(d)
    BY <1>2, <2>3, <2>5, <2>6 DEF Arm, objects
  <2>7. CASE Removed(d)
    BY <2>3, <2>5, <2>7, RemovalSteps
  <2> QED
    BY <2>3, <2>6, <2>7
<1> QED
  BY <1>3, <1>4

(***************************************************************************)
(* The theorems.                                                           *)
(***************************************************************************)
LEMMA Initially == Init => IInv
<1>1. SUFFICES ASSUME Init PROVE IInv
  OBVIOUS
<1>2. TypeOK
  <2>1. <<>> \in Seq(Calls)
    OBVIOUS
  <2> QED
    BY <1>1, <2>1, BlankIsObject, NoPicturesTyped DEF Init, TypeOK
<1>3. Handles
  <2>1. ctl = None /\ inp = None /\ keepAlive = FALSE /\ \A n \in Names : cache[n] = None
    BY <1>1 DEF Init
  <2> QED
    BY <2>1 DEF Handles, SlotsNameTheirOwn, HeldAreNamed, OneHandle, EventsAreTagged,
                PanelIsPoked, IsDock
<1> QED
  BY <1>2, <1>3 DEF IInv

LEMMA Stepwise == IInv /\ [Next]_vars => IInv'
<1>1. SUFFICES ASSUME IInv, [Next]_vars PROVE Handles' /\ SessionTyped' /\ WorldTyped'
  BY TypesSplit DEF IInv, TypeOK, SessionTyped, WorldTyped
<1>2. SessionTyped /\ WorldTyped
  BY <1>1, TypesSplit DEF IInv
<1>3. ASSUME UNCHANGED world PROVE WorldTyped'
  BY <1>2, <1>3 DEF world, WorldTyped
<1>4. ASSUME NEW d \in Docks, Plug(d) \/ Unplug(d)
      PROVE  Handles' /\ SessionTyped' /\ WorldTyped'
  BY <1>1, <1>4, WorldSteps
<1>5. ASSUME NEW d \in Docks, ArrivalTimer(d)
      PROVE  Handles' /\ SessionTyped' /\ WorldTyped'
  <2>1. d \in Names /\ SetActiveDevice(d)
    BY <1>5 DEF ArrivalTimer, Names
  <2>2. Handles' /\ SessionTyped'
    BY <1>1, <2>1, ActivationSteps
  <2>3. WorldTyped'
    BY <1>2, <1>5 DEF ArrivalTimer, WorldTyped
  <2> QED
    BY <2>2, <2>3
<1>6. ASSUME NEW n \in Names, Select(n)
      PROVE  Handles' /\ SessionTyped' /\ WorldTyped'
  BY <1>1, <1>3, <1>6, ActivationSteps DEF Select
<1>7. CASE SelectUnknown
  <2>1. UNCHANGED world
    BY <1>7 DEF SelectUnknown
  <2> QED
    BY <1>1, <1>3, <1>7, <2>1, UnknownSteps
<1>8. CASE RunPosted
  BY <1>1, <1>8, WorldSteps
<1>9. CASE (\E n \in Names : Peek(n)) \/ (\E b \in Backends : HostDies(b)) \/ CloseFamily
  BY <1>1, <1>3, <1>9, TransportSteps
<1>10. CASE PumpFails \/ Drain
  BY <1>1, <1>3, <1>10, FailureSteps
<1>11. CASE \E k \in Keys, d \in Docks :
              \/ \E updateBase \in BOOLEAN : AssignKeyImage(k, d, updateBase)
              \/ ClearKeyImage(k, d)
  BY <1>1, <1>3, <1>11, DrawingSteps
<1>12. CASE UNCHANGED vars
  <2>1. /\ UNCHANGED world /\ backend' = backend /\ cache' = cache
        /\ ctl' = ctl /\ ctlName' = ctlName /\ keepAlive' = keepAlive
        /\ pending' = pending /\ base' = base
        /\ inp' = inp /\ inpName' = inpName /\ bridge' = bridge /\ known' = known
        /\ wrote' = wrote
    BY <1>12 DEF vars, objects, control, input, plugins
  <2>2. Handles'
    BY <1>1, <2>1, NamesAreKept
  <2>3. SessionTyped'
    BY <1>2, <2>1 DEF SessionTyped
  <2> QED
    BY <1>3, <2>1, <2>2, <2>3
<1> QED
  BY <1>1, <1>4, <1>5, <1>6, <1>7, <1>8, <1>9, <1>10, <1>11, <1>12 DEF Next

(* Type correctness, for any docks, keyboards, keys and identities.        *)
THEOREM TypeCorrect == Spec => []TypeOK
<1>1. IInv => TypeOK
  BY DEF IInv
<1> QED
  BY <1>1, Initially, Stepwise, PTL DEF Spec

(* However docks come and go and whatever is selected meanwhile, the       *)
(* control and the input service share one backend per dock, the one the   *)
(* registry returns (ARCH-03).                                             *)
THEOREM HandleIsShared == Spec => []OneHandle
<1>1. IInv => OneHandle
  BY DEF IInv, Handles
<1> QED
  BY <1>1, Initially, Stepwise, PTL DEF Spec

(* A device event always carries the name of the dock it came from.        *)
THEOREM EventsStayTagged == Spec => []EventsAreTagged
<1>1. IInv => EventsAreTagged
  BY DEF IInv, Handles
<1> QED
  BY <1>1, Initially, Stepwise, PTL DEF Spec

(* The panel the application draws on is kept awake.                       *)
THEOREM PanelStaysPoked == Spec => []PanelIsPoked
<1>1. IInv => PanelIsPoked
  BY DEF IInv, Handles
<1> QED
  BY <1>1, Initially, Stepwise, PTL DEF Spec

(* As long as plugins draw for the active dock only, a title is laid over  *)
(* a picture of that dock.                                                 *)
THEOREM BaseFollowsTheDock ==
  ASSUME Orderly
  PROVE  Spec => []BaseIsOfActiveDock
<1>1. Init => BaseIsOfActiveDock
  BY DEF Init, BaseIsOfActiveDock
<1>2. ASSUME TypeOK, BaseIsOfActiveDock, [Next]_vars
      PROVE  BaseIsOfActiveDock'
  <2>1. base \in Pictures /\ ctlName \in Names \cup {None}
    BY <1>2 DEF TypeOK
  <2>2. ASSUME base' = base, ctlName' \in {ctlName, None}
        PROVE  BaseIsOfActiveDock'
    BY <1>2, <2>2 DEF BaseIsOfActiveDock
  <2>3. ASSUME NEW n \in Names, SetActiveDevice(n)
        PROVE  BaseIsOfActiveDock'
    <3>1. ctlName' \in {n, None}
      BY <2>3 DEF SetActiveDevice, NotActivated
    <3>2. base' = IF ctlName # n THEN NoPictures ELSE base
      BY <2>3 DEF SetActiveDevice, Forgets
    <3>3. \A k \in Keys : NoPictures[k] = None
      BY DEF NoPictures
    <3> QED
      BY <1>2, <3>1, <3>2, <3>3 DEF BaseIsOfActiveDock
  <2>4. ASSUME NEW d \in Docks, Plug(d) \/ Unplug(d)
        PROVE  BaseIsOfActiveDock'
    BY <2>2, <2>4 DEF Plug, Unplug, control
  <2>5. ASSUME NEW d \in Docks, ArrivalTimer(d)
        PROVE  BaseIsOfActiveDock'
    BY <2>3, <2>5 DEF ArrivalTimer, Names
  <2>6. ASSUME NEW n \in Names, Select(n) \/ Peek(n)
        PROVE  BaseIsOfActiveDock'
    BY <2>2, <2>3, <2>6 DEF Select, Peek, control
  <2>7. CASE SelectUnknown
    BY <2>7 DEF SelectUnknown, NotActivated, BaseIsOfActiveDock
  <2>8. CASE RunPosted
    BY <2>2, <2>8 DEF RunPosted, Arm, Removed, control
  <2>9. ASSUME NEW b \in Backends, HostDies(b)
        PROVE  BaseIsOfActiveDock'
    BY <2>2, <2>9 DEF HostDies, control
  <2>10. CASE CloseFamily \/ PumpFails \/ Drain
    BY <2>2, <2>10 DEF CloseFamily, PumpFails, Drain, control
  <2>11. ASSUME NEW k \in Keys, NEW d \in Docks, NEW u \in BOOLEAN, AssignKeyImage(k, d, u)
         PROVE  BaseIsOfActiveDock'
    <3>1. d = ctlName /\ ctlName' = ctlName
      BY <2>11 DEF AssignKeyImage
    <3>2. base' = IF u THEN [base EXCEPT ![k] = d] ELSE base
      BY <2>11 DEF AssignKeyImage
    <3> QED
      BY <1>2, <2>1, <3>1, <3>2 DEF BaseIsOfActiveDock, Pictures
  <2>12. ASSUME NEW k \in Keys, NEW d \in Docks, ClearKeyImage(k, d)
         PROVE  BaseIsOfActiveDock'
    BY <1>2, <2>1, <2>12 DEF ClearKeyImage, BaseIsOfActiveDock, Pictures
  <2>13. CASE UNCHANGED vars
    BY <2>2, <2>13 DEF vars, control
  <2> QED
    BY <1>2, <2>4, <2>5, <2>6, <2>7, <2>8, <2>9, <2>10, <2>11, <2>12, <2>13 DEF Next
<1> QED
  BY <1>1, <1>2, TypeCorrect, PTL DEF Spec

(* The holders of a dock always agree.                                       *)
THEOREM HandlesAlwaysAgree == Spec => []HandlesAgree
  BY HandleIsShared, EventsStayTagged, PanelStaysPoked, PTL DEF HandlesAgree

(***************************************************************************)
(* Settled sessions, for orderly users: what is cached, known or waited    *)
(* for is there, or its removal is still queued.                           *)
(***************************************************************************)
Posted(name, d) ==
  \E i \in 1 .. Len(posted) : posted[i] = [call |-> name, dock |-> d]

(* A backend that is up was opened after its dock was last plugged in.     *)
Current(r, d) == r.up => r.since[d] = plugs[d]

ArrivalsAreThere(d) == armed[d] > 0 \/ Posted("arm", d) => d \in plugged

CacheIsCurrent(d) ==
  cache[d] # None =>
    Posted("removed", d) \/ (d \in plugged /\ Current(backend[cache[d]], d))

KnownAreThere(d) == bridge = d \/ d \in known => Posted("removed", d) \/ d \in plugged

Settled(d) == ArrivalsAreThere(d) /\ CacheIsCurrent(d) /\ KnownAreThere(d)

SettleInv == \A d \in Docks : Settled(d)

LEMMA Queued ==
  ASSUME posted \in Seq(Calls), NEW p \in Calls, posted' = Append(posted, p)
  PROVE  \A name, d : Posted(name, d)' <=> Posted(name, d) \/ p = [call |-> name, dock |-> d]
<1>1. /\ Len(posted') = Len(posted) + 1 /\ Len(posted) \in Nat
      /\ \A i \in 1 .. Len(posted) : posted'[i] = posted[i]
      /\ posted'[Len(posted) + 1] = p
  OBVIOUS
<1>2. \A i : i \in 1 .. Len(posted') <=> i \in 1 .. Len(posted) \/ i = Len(posted) + 1
  BY <1>1
<1> QED
  BY <1>1, <1>2 DEF Posted

LEMMA Served ==
  ASSUME posted \in Seq(Calls), posted # <<>>, posted' = Tail(posted)
  PROVE  \A name, d :
           Posted(name, d) <=> Posted(name, d)' \/ Head(posted) = [call |-> name, dock |-> d]
<1>1. /\ Len(posted) \in Nat /\ Len(posted) > 0 /\ Len(posted') = Len(posted) - 1
      /\ \A i \in 1 .. Len(posted) - 1 : posted'[i] = posted[i + 1]
      /\ Head(posted) = posted[1]
  OBVIOUS
<1>2. \A i \in 1 .. Len(posted) : i = 1 \/ (i - 1 \in 1 .. Len(posted) - 1 /\ (i - 1) + 1 = i)
  BY <1>1
<1>3. /\ \A i \in 1 .. Len(posted) - 1 : i + 1 \in 1 .. Len(posted)
      /\ 1 \in 1 .. Len(posted)
  BY <1>1
<1>4. ASSUME NEW name, NEW d, Posted(name, d)
      PROVE  Posted(name, d)' \/ Head(posted) = [call |-> name, dock |-> d]
  <2>1. PICK i \in 1 .. Len(posted) : posted[i] = [call |-> name, dock |-> d]
    BY <1>4 DEF Posted
  <2>2. CASE i = 1
    BY <1>1, <2>1, <2>2
  <2>3. CASE i # 1
    <3> DEFINE j == i - 1
    <3>1. j \in 1 .. Len(posted') /\ j + 1 = i
      BY <1>1, <1>2, <2>3
    <3>2. posted'[j] = posted[i]
      BY <1>1, <3>1
    <3> QED
      BY <2>1, <3>1, <3>2 DEF Posted
  <2> QED
    BY <2>2, <2>3
<1>5. ASSUME NEW name, NEW d, Posted(name, d)' \/ Head(posted) = [call |-> name, dock |-> d]
      PROVE  Posted(name, d)
  BY <1>1, <1>3, <1>5 DEF Posted
<1> QED
  BY <1>4, <1>5

(* A transport or a host is opened with the dock as it is plugged in now.  *)
LEMMA OpeningFreshens ==
  ASSUME NEW d \in Docks, NEW STATE r, r.name = d, NEW STATE s, s \in OpenResults(r)
  PROVE  s = r \/ Current(s, d)
<1>1. d \notin Boards
  BY NameAssumption
<1>2. s = r \/ \E ds, e : s = Opened(r, ds, e)
  BY <1>1 DEF OpenResults
<1> QED
  BY <1>2 DEF Opened, Current

(* No dock's backend gets older on the way from one set of objects and     *)
(* slots to another, and one that is new, for n, is current.               *)
Refreshed(objs, slots, later, held, n) ==
  \A d \in Docks : held[d] # None =>
    \/ slots[d] # None /\ (Current(objs[slots[d]], d) => Current(later[held[d]], d))
    \/ d = n /\ Current(later[held[d]], d)

LEMMA LookupFreshens ==
  ASSUME NEW STATE objs, NEW STATE slots, NEW STATE x, NEW STATE y,
         NEW n \in Names, NEW STATE one,
         Registry(objs, slots, n), one \in Lookups(objs, slots, {x, y}, n),
         \A m \in Names : slots[m] # None =>
           objs[slots[m]].name = m /\ (slots[n] = None => slots[m] \in {x, y})
  PROVE  Refreshed(objs, slots, one.objs, one.cache, n)
<1>1. Found(objs, slots, x, y, n, one)
  BY LookupFinds
<1>2. SUFFICES ASSUME NEW d \in Docks, one.cache[d] # None
               PROVE  \/ slots[d] # None
                         /\ (Current(objs[slots[d]], d) => Current(one.objs[one.cache[d]], d))
                      \/ d = n /\ Current(one.objs[one.cache[d]], d)
  BY DEF Refreshed
<1>3. d \in Names
  BY DEF Names
<1>4. CASE d # n
  <2>1. one.cache[d] = slots[d] /\ slots[d] \in Backends
    BY <1>1, <1>2, <1>3, <1>4 DEF Found, Registry
  <2>2. slots[d] # one.id
    BY <1>1, <1>2, <1>3, <1>4, <2>1 DEF Found
  <2> QED
    BY <1>1, <1>2, <2>1, <2>2 DEF Found
<1>5. CASE d = n /\ slots[n] # None
  <2>1. PICK r \in OpenResults(objs[slots[n]]) :
          one = [id |-> slots[n], objs |-> [objs EXCEPT ![slots[n]] = r], cache |-> slots]
    BY <1>5 DEF Lookups, Cached
  <2>2. slots[n] \in Backends /\ objs[slots[n]].name = n
    BY <1>5 DEF Registry
  <2>3. r = objs[slots[n]] \/ Current(r, n)
    BY <1>5, <2>2, OpeningFreshens
  <2>4. one.objs[one.cache[d]] = r
    BY <1>5, <2>1, <2>2 DEF Registry
  <2> QED
    BY <1>5, <2>3, <2>4
<1>6. CASE d = n /\ slots[n] = None
  <2> DEFINE b == Fresh({x, y})
             new == [Blank EXCEPT !.name = n]
  <2>1. PICK r \in OpenResults(new) :
          one = [id |-> b, objs |-> [objs EXCEPT ![b] = r], cache |-> [slots EXCEPT ![n] = b]]
    BY <1>6 DEF Lookups, Cached
  <2>2. b \in Backends
    BY FreshIsFree
  <2>3. new.name = n /\ Current(new, n)
    BY DEF Blank, Current
  <2>4. Current(r, n)
    <3> HIDE DEF new
    <3> QED BY <1>6, <2>3, OpeningFreshens
  <2>5. one.objs[one.cache[d]] = r
    BY <1>6, <2>1, <2>2 DEF Registry
  <2> QED
    BY <1>6, <2>4, <2>5
<1> QED
  BY <1>4, <1>5, <1>6

(* What a step does to the slot of d: it keeps it, or empties it, or fills *)
(* it with a backend that is current.                                      *)
SlotIsKept(d) ==
  cache'[d] # None =>
    cache[d] # None /\ (Current(backend[cache[d]], d) => Current(backend[cache[d]], d)')

SlotIsCurrent(d) == Current(backend[cache[d]], d)'

LEMMA LettingGoKeeps ==
  ASSUME NEW STATE objs, objs \in [Backends -> Object],
         NEW STATE slots, slots \in [Names -> Backends \cup {None}],
         NEW held, NEW n, plugs' = plugs,
         backend' = Retained(objs, held), cache' = Live(slots, held),
         Refreshed(backend, cache, objs, slots, n)
  PROVE  \A d \in Docks : SlotIsKept(d) \/ (d = n /\ SlotIsCurrent(d))
<1>1. SUFFICES ASSUME NEW d \in Docks, cache'[d] # None
               PROVE  \/ cache[d] # None
                         /\ (Current(backend[cache[d]], d) => Current(backend[cache[d]], d)')
                      \/ d = n /\ Current(backend[cache[d]], d)'
  BY DEF SlotIsKept, SlotIsCurrent
<1>2. d \in Names
  BY DEF Names
<1>3. cache'[d] = slots[d] /\ slots[d] \in held /\ slots[d] \in Backends
  BY <1>1, <1>2, LiveIsTyped
<1>4. backend'[cache'[d]] = objs[slots[d]]
  BY <1>3, RetainedIsTyped
<1>5. Current(backend[cache[d]], d)' <=> Current(objs[slots[d]], d)
  BY <1>4 DEF Current
<1> QED
  BY <1>1, <1>3, <1>5 DEF Refreshed

LEMMA ActivationFreshens ==
  ASSUME IInv, NEW n \in Names, SetActiveDevice(n), plugs' = plugs
  PROVE  \A d \in Docks : SlotIsKept(d) \/ (d = n /\ SlotIsCurrent(d))
<1>1. PICK one \in Lookups(backend, cache, {ctl, inp}, n) :
        \/ /\ one.objs[one.id].up
           /\ ctl' = one.id /\ ctlName' = n
           /\ keepAlive' = RestartsKeepAlive(n)
           /\ ActivatedSlots(n, one)
        \/ /\ ~one.objs[one.id].up
           /\ NotActivated
           /\ backend' = Retained(one.objs, {inp})
           /\ cache' = Live(one.cache, {inp})
  BY DEF SetActiveDevice
<1>2. /\ one.id \in Backends
      /\ one.objs \in [Backends -> Object]
      /\ one.cache \in [Names -> Backends \cup {None}]
      /\ one.objs[one.id].name = n /\ one.cache[n] = one.id
      /\ \A m \in Names : one.cache[m] # None => one.objs[one.cache[m]].name = m
      /\ inp # None => /\ one.objs[inp].name = backend[inp].name
                       /\ one.cache[backend[inp].name] = inp
  BY <1>1, FirstLookup
<1>3. /\ plugs \in [Docks -> Nat] /\ plugged \subseteq Docks
      /\ backend \in [Backends -> Object] /\ cache \in [Names -> Backends \cup {None}]
  BY DEF IInv, TypeOK
<1>4. \A m \in Names : cache[m] # None => backend[cache[m]].name = m /\ cache[m] \in {ctl, inp}
  BY DEF IInv, Handles, SlotsNameTheirOwn
<1>5. Refreshed(backend, cache, one.objs, one.cache, n)
  <2>1. Registry(backend, cache, n)
    BY <1>3, <1>4 DEF Registry
  <2> QED
    BY <1>1, <1>4, <2>1, LookupFreshens
<1>6. ASSUME NEW held, backend' = Retained(one.objs, held), cache' = Live(one.cache, held)
      PROVE  \A d \in Docks : SlotIsKept(d) \/ (d = n /\ SlotIsCurrent(d))
  BY <1>2, <1>5, <1>6, LettingGoKeeps
<1>7. CASE n \in Docks /\ ActivatedSlots(n, one)
  <2>1. PICK two \in Lookups(one.objs, one.cache, {one.id, inp}, n) :
          /\ inp' = two.id
          /\ backend' = Retained(two.objs, {one.id, inp'})
          /\ cache' = Live(two.cache, {one.id, inp'})
    BY <1>7 DEF ActivatedSlots, Announces
  <2>2. Registry(one.objs, one.cache, n)
    BY <1>2, <1>3 DEF Registry
  <2>3. Found(one.objs, one.cache, one.id, inp, n, two)
    BY <2>2, LookupFinds
  <2>4. Refreshed(one.objs, one.cache, two.objs, two.cache, n)
    BY <1>2, <2>2, NoneIsNobody, LookupFreshens
  <2>5. two.objs \in [Backends -> Object] /\ two.cache = one.cache
    BY <1>2, <2>3, NoneIsNobody DEF Found
  <2>6. Refreshed(backend, cache, two.objs, two.cache, n)
    BY <1>5, <2>4, <2>5 DEF Refreshed
  <2> QED
    BY <1>2, <2>1, <2>5, <2>6, LettingGoKeeps
<1>8. CASE n \notin Docks /\ ActivatedSlots(n, one)
  BY <1>6, <1>8 DEF ActivatedSlots, Announces
<1> QED
  BY <1>1, <1>6, <1>7, <1>8

LEMMA KeptStaysCurrent ==
  ASSUME NEW d \in Docks, CacheIsCurrent(d), posted' = posted, plugged' = plugged,
         SlotIsKept(d) \/ (SlotIsCurrent(d) /\ d \in plugged)
  PROVE  CacheIsCurrent(d)'
<1>1. Posted("removed", d)' = Posted("removed", d)
  BY DEF Posted
<1> QED
  BY <1>1 DEF CacheIsCurrent, SlotIsKept, SlotIsCurrent

(* A step that leaves the queue, the docks and the timers alone.           *)
LEMMA StaysSettled ==
  ASSUME NEW d \in Docks, Settled(d), posted' = posted, plugged' = plugged, armed' = armed,
         SlotIsKept(d) \/ (SlotIsCurrent(d) /\ d \in plugged),
         bridge' = d \/ d \in known' => bridge = d \/ d \in known \/ d \in plugged
  PROVE  Settled(d)'
<1>1. \A name : Posted(name, d)' = Posted(name, d)
  BY DEF Posted
<1>2. CacheIsCurrent(d)'
  BY KeptStaysCurrent DEF Settled
<1>3. ArrivalsAreThere(d)'
  BY <1>1 DEF Settled, ArrivalsAreThere
<1>4. KnownAreThere(d)'
  BY <1>1 DEF Settled, KnownAreThere
<1> QED
  BY <1>2, <1>3, <1>4 DEF Settled

LEMMA ActivationKnows ==
  ASSUME NEW n \in Names, SetActiveDevice(n), NEW d \in Docks, bridge' = d \/ d \in known'
  PROVE  bridge = d \/ d \in known \/ d = n
  BY DEF SetActiveDevice, ActivatedSlots, NotActivated, plugins

LEMMA PlugSettles ==
  ASSUME IInv, SettleInv, Orderly, NEW e \in Docks, Plug(e) \/ Unplug(e)
  PROVE  SettleInv'
<1>1. SUFFICES ASSUME NEW d \in Docks PROVE Settled(d)'
  BY DEF SettleInv
<1>2. posted \in Seq(Calls) /\ plugged \subseteq Docks
      /\ plugs \in [Docks -> Nat] /\ armed \in [Docks -> Nat]
  BY DEF IInv, TypeOK
<1>3. /\ backend' = backend /\ cache' = cache /\ bridge' = bridge /\ known' = known
      /\ armed' = armed
  BY DEF Plug, Unplug, objects, plugins
<1>4. Settled(d)
  BY DEF SettleInv
<1>5. CASE Plug(e)
  <2>1. \A name : Posted(name, d)' <=> Posted(name, d)
                                       \/ [call |-> "arm", dock |-> e] = [call |-> name, dock |-> d]
    BY <1>2, <1>5, Queued DEF Plug, Calls
  <2>2. plugged' = plugged \cup {e} /\ e \notin plugged
    BY <1>5 DEF Plug
  <2>3. Posted("removed", d)' <=> Posted("removed", d)
    <3>1. [call |-> "arm", dock |-> e] # [call |-> "removed", dock |-> d]
      OBVIOUS
    <3> QED BY <2>1, <3>1
  <2>4. Posted("arm", d)' <=> Posted("arm", d) \/ d = e
    BY <2>1
  <2>5. d # e => plugs'[d] = plugs[d]
    BY <1>2, <1>5 DEF Plug
  <2>6. ArrivalsAreThere(d)'
    BY <1>3, <1>4, <2>2, <2>4 DEF Settled, ArrivalsAreThere
  <2>7. CacheIsCurrent(d)'
    BY <1>3, <1>4, <2>2, <2>3, <2>5 DEF Settled, CacheIsCurrent, Current
  <2>8. KnownAreThere(d)'
    BY <1>3, <1>4, <2>2, <2>3 DEF Settled, KnownAreThere
  <2> QED
    BY <2>6, <2>7, <2>8 DEF Settled
<1>6. CASE Unplug(e)
  <2>1. \A name : Posted(name, d)' <=> Posted(name, d)
                                       \/ [call |-> "removed", dock |-> e] = [call |-> name, dock |-> d]
    BY <1>2, <1>6, Queued DEF Unplug, Calls
  <2>2. plugged' = plugged \ {e} /\ plugs' = plugs /\ Quiet
    BY <1>6 DEF Unplug
  <2>3. Posted("removed", d)' <=> Posted("removed", d) \/ d = e
    BY <2>1
  <2>4. ~Posted("arm", d)' /\ ~(armed[d] > 0)
    <3>1. ~Posted("arm", d)
      BY <2>2 DEF Quiet, Posted
    <3>2. [call |-> "removed", dock |-> e] # [call |-> "arm", dock |-> d]
      OBVIOUS
    <3>3. armed[d] = 0
      BY <2>2 DEF Quiet
    <3> QED
      BY <2>1, <3>1, <3>2, <3>3
  <2>6. ArrivalsAreThere(d)'
    BY <1>3, <2>4 DEF ArrivalsAreThere
  <2>7. CacheIsCurrent(d)'
    BY <1>3, <1>4, <2>2, <2>3 DEF Settled, CacheIsCurrent, Current
  <2>8. KnownAreThere(d)'
    BY <1>3, <1>4, <2>2, <2>3 DEF Settled, KnownAreThere
  <2> QED
    BY <2>6, <2>7, <2>8 DEF Settled
<1> QED
  BY <1>5, <1>6

(* A removal evicts the backend of its dock, and of no other.              *)
LEMMA EvictionFreshens ==
  ASSUME IInv, NEW e \in Docks
  PROVE  /\ Evicted(e).objs \in [Backends -> Object]
         /\ Evicted(e).cache \in [Names -> Backends \cup {None}]
         /\ Refreshed(backend, cache, Evicted(e).objs, Evicted(e).cache, None)
         /\ Evicted(e).cache[e] = None
<1>1. backend \in [Backends -> Object] /\ cache \in [Names -> Backends \cup {None}]
  BY DEF IInv, TypeOK
<1>2. e \in Names
  BY DEF Names
<1>3. Evicted(e).cache = [cache EXCEPT ![e] = None]
  BY DEF Evicted
<1>4. \A b \in Backends : /\ Evicted(e).objs[b] \in Object
                          /\ b # cache[e] => Evicted(e).objs[b] = backend[b]
  <2>1. \A b \in Backends : Closed(backend[b]) \in Object
    BY <1>1, ClosingKeepsTheName
  <2> QED
    BY <1>1, <2>1 DEF Evicted
<1>5. Evicted(e).objs \in [Backends -> Object]
  BY <1>1, <1>4 DEF Evicted
<1>6. ASSUME NEW d \in Docks, Evicted(e).cache[d] # None
      PROVE  cache[d] # None
             /\ (Current(backend[cache[d]], d) => Current(Evicted(e).objs[Evicted(e).cache[d]], d))
  <2>1. d \in Names /\ d # e /\ Evicted(e).cache[d] = cache[d] /\ cache[d] \in Backends
    BY <1>1, <1>2, <1>3, <1>6 DEF Names
  <2>2. cache[d] # cache[e]
    BY <2>1, <1>1, <1>2, NoneIsNobody DEF IInv, Handles, SlotsNameTheirOwn
  <2> QED
    BY <1>4, <2>1, <2>2, NoneIsNobody
<1> QED
  BY <1>1, <1>2, <1>3, <1>5, <1>6 DEF Refreshed

LEMMA ServingSettles ==
  ASSUME IInv, SettleInv, RunPosted
  PROVE  SettleInv'
<1>1. SUFFICES ASSUME NEW d \in Docks PROVE Settled(d)'
  BY DEF SettleInv
<1>2. posted \in Seq(Calls) /\ plugged \subseteq Docks
      /\ plugs \in [Docks -> Nat] /\ armed \in [Docks -> Nat]
      /\ backend \in [Backends -> Object] /\ cache \in [Names -> Backends \cup {None}]
      /\ bridge \in Docks \cup {None}
  BY DEF IInv, TypeOK
<1>3. posted # <<>> /\ posted' = Tail(posted) /\ plugs' = plugs /\ plugged' = plugged
  BY DEF RunPosted
<1>4. Settled(d)
  BY DEF SettleInv
<1>5. \A name : Posted(name, d) <=> Posted(name, d)' \/ Head(posted) = [call |-> name, dock |-> d]
  BY <1>2, <1>3, Served
<1>6. Head(posted) \in Calls
  BY <1>2, <1>3
<1>7. PICK e \in Docks : e = Head(posted).dock
  BY <1>6 DEF Calls
<1>8. CASE Head(posted).call = "arm"
  <2>1. armed' = [armed EXCEPT ![e] = @ + 1] /\ backend' = backend /\ cache' = cache
        /\ bridge' = bridge /\ known' = known
    BY <1>7, <1>8 DEF RunPosted, Arm, objects, plugins
  <2>2. Head(posted) = [call |-> "arm", dock |-> e]
    BY <1>6, <1>7, <1>8 DEF Calls
  <2>3. Posted("removed", d)' <=> Posted("removed", d)
    BY <1>5, <2>2
  <2>4. (Posted("arm", d)' => Posted("arm", d)) /\ (d = e => Posted("arm", d))
    BY <1>5, <2>2
  <2>5. d # e => armed'[d] = armed[d]
    BY <1>2, <2>1
  <2>6. ArrivalsAreThere(d)'
    BY <1>3, <1>4, <2>4, <2>5 DEF Settled, ArrivalsAreThere
  <2>7. CacheIsCurrent(d)'
    BY <1>3, <1>4, <2>1, <2>3 DEF Settled, CacheIsCurrent, Current
  <2>8. KnownAreThere(d)'
    BY <1>3, <1>4, <2>1, <2>3 DEF Settled, KnownAreThere
  <2> QED
    BY <2>6, <2>7, <2>8 DEF Settled
<1>9. CASE Head(posted).call = "removed"
  <2>1. Removed(e)
    BY <1>7, <1>9 DEF RunPosted
  <2>2. Head(posted) = [call |-> "removed", dock |-> e]
    BY <1>6, <1>7, <1>9 DEF Calls
  <2>3. d # e => (Posted("removed", d)' <=> Posted("removed", d))
    BY <1>5, <2>2
  <2>4. Posted("arm", d)' <=> Posted("arm", d)
    BY <1>5, <2>2
  <2>5. /\ backend' = Retained(Evicted(e).objs, {ctl, inp'})
        /\ cache' = Live(Evicted(e).cache, {ctl, inp'})
        /\ bridge' = IF bridge = e THEN None ELSE bridge
        /\ known' = known \ {e} /\ armed' = armed
    BY <2>1 DEF Removed, Disconnected
  <2>6. SlotIsKept(d)
    <3>1. Refreshed(backend, cache, Evicted(e).objs, Evicted(e).cache, None)
          /\ Evicted(e).objs \in [Backends -> Object]
          /\ Evicted(e).cache \in [Names -> Backends \cup {None}]
      BY EvictionFreshens
    <3>2. SlotIsKept(d) \/ (d = None /\ SlotIsCurrent(d))
      BY <1>3, <2>5, <3>1, LettingGoKeeps
    <3> QED
      BY <3>2, NoneIsNobody
  <2>7. d = e => cache'[d] = None
    <3>1. Evicted(e).cache \in [Names -> Backends \cup {None}] /\ Evicted(e).cache[e] = None
      BY EvictionFreshens
    <3>2. e \in Names
      BY DEF Names
    <3> QED
      BY <2>5, <3>1, <3>2 DEF Live
  <2>8. ArrivalsAreThere(d)'
    BY <1>3, <1>4, <2>4, <2>5 DEF Settled, ArrivalsAreThere
  <2>9. CacheIsCurrent(d)'
    BY <1>3, <1>4, <2>3, <2>6, <2>7 DEF Settled, CacheIsCurrent, SlotIsKept
  <2>10. KnownAreThere(d)'
    BY <1>3, <1>4, <2>3, <2>5, NoneIsNobody DEF Settled, KnownAreThere
  <2> QED
    BY <2>8, <2>9, <2>10 DEF Settled
<1> QED
  BY <1>6, <1>8, <1>9 DEF Calls

LEMMA TransportSettles ==
  ASSUME IInv, (\E n \in Names : Peek(n)) \/ (\E b \in Backends : HostDies(b)) \/ CloseFamily,
         NEW d \in Docks
  PROVE  SlotIsKept(d)
<1>1. /\ backend \in [Backends -> Object] /\ cache \in [Names -> Backends \cup {None}]
      /\ plugs' = plugs /\ cache' = cache /\ d \in Names
  BY DEF IInv, TypeOK, Peek, HostDies, CloseFamily, world, Names
<1>2. SUFFICES ASSUME cache[d] # None, Current(backend[cache[d]], d)
               PROVE  Current(backend[cache[d]], d)'
  BY <1>1 DEF SlotIsKept
<1>3. cache[d] \in Backends /\ backend[cache[d]].name = d
  BY <1>1, <1>2 DEF IInv, Handles, SlotsNameTheirOwn
<1>4. ASSUME backend'[cache[d]] = backend[cache[d]] \/ backend'[cache[d]] = Closed(backend[cache[d]])
      PROVE  Current(backend[cache[d]], d)'
  BY <1>1, <1>2, <1>4 DEF Current, Closed
<1>5. ASSUME NEW n \in Names, Peek(n)
      PROVE  Current(backend[cache[d]], d)'
  <2>1. PICK r \in OpenResults(backend[cache[n]]) : backend' = [backend EXCEPT ![cache[n]] = r]
    BY <1>5 DEF Peek
  <2>2. CASE cache[n] = cache[d]
    <3>1. r = backend[cache[d]] \/ Current(r, d)
      BY <1>3, <2>1, <2>2, OpeningFreshens
    <3>2. backend'[cache[d]] = r
      BY <1>1, <1>3, <2>1, <2>2
    <3> QED
      BY <1>1, <1>4, <3>1, <3>2 DEF Current
  <2>3. CASE cache[n] # cache[d]
    BY <1>1, <1>3, <1>4, <2>1, <2>3
  <2> QED
    BY <2>2, <2>3
<1>6. ASSUME NEW b \in Backends, HostDies(b)
      PROVE  Current(backend[cache[d]], d)'
  BY <1>1, <1>3, <1>4, <1>6 DEF HostDies
<1>7. CASE CloseFamily
  BY <1>1, <1>3, <1>4, <1>7 DEF CloseFamily
<1> QED
  BY <1>5, <1>6, <1>7

LEMMA SettlesStepwise == IInv /\ SettleInv /\ Orderly /\ [Next]_vars => SettleInv'
<1>1. SUFFICES ASSUME IInv, SettleInv, Orderly, [Next]_vars PROVE SettleInv'
  OBVIOUS
<1>2. backend \in [Backends -> Object] /\ cache \in [Names -> Backends \cup {None}]
      /\ armed \in [Docks -> Nat]
  BY <1>1 DEF IInv, TypeOK
<1>3. \A d \in Docks : Settled(d)
  BY <1>1 DEF SettleInv
<1>4. ASSUME posted' = posted, plugged' = plugged, armed' = armed, UNCHANGED plugins,
             \A d \in Docks : SlotIsKept(d)
      PROVE  SettleInv'
  BY <1>3, <1>4, StaysSettled DEF SettleInv, plugins
<1>5. ASSUME plugs' = plugs, backend' = backend, cache' = cache, NEW d \in Docks
      PROVE  SlotIsKept(d)
  BY <1>5 DEF SlotIsKept, Current
<1>6. ASSUME NEW held, plugs' = plugs, backend' = Retained(backend, held),
             cache' = Live(cache, held), NEW d \in Docks
      PROVE  SlotIsKept(d)
  <2>1. Refreshed(backend, cache, backend, cache, None)
    BY DEF Refreshed
  <2>2. SlotIsKept(d) \/ (d = None /\ SlotIsCurrent(d))
    BY <1>2, <1>6, <2>1, LettingGoKeeps
  <2> QED
    BY <2>2, NoneIsNobody
<1>7. ASSUME NEW d \in Docks, Plug(d) \/ Unplug(d)
      PROVE  SettleInv'
  BY <1>1, <1>7, PlugSettles
<1>8. ASSUME NEW e \in Docks, ArrivalTimer(e)
      PROVE  SettleInv'
  <2>1. e \in Names /\ SetActiveDevice(e) /\ plugs' = plugs
        /\ plugged' = plugged /\ posted' = posted
        /\ armed[e] > 0 /\ armed' = [armed EXCEPT ![e] = @ - 1]
    BY <1>8 DEF ArrivalTimer, Names
  <2>2. e \in plugged
    BY <1>3, <2>1 DEF Settled, ArrivalsAreThere
  <2>3. SUFFICES ASSUME NEW d \in Docks PROVE Settled(d)'
    BY DEF SettleInv
  <2>4. \A name : Posted(name, d)' = Posted(name, d)
    BY <2>1 DEF Posted
  <2>5. CacheIsCurrent(d)'
    <3>1. SlotIsKept(d) \/ (d = e /\ SlotIsCurrent(d))
      BY <1>1, <2>1, ActivationFreshens
    <3> QED
      BY <1>3, <2>1, <2>2, <3>1, KeptStaysCurrent DEF Settled
  <2>6. ArrivalsAreThere(d)'
    <3>1. armed'[d] > 0 => armed[d] > 0
      BY <1>2, <2>1
    <3> QED
      BY <1>3, <2>1, <2>4, <3>1 DEF Settled, ArrivalsAreThere
  <2>7. KnownAreThere(d)'
    <3>1. bridge' = d \/ d \in known' => bridge = d \/ d \in known \/ d = e
      BY <2>1, ActivationKnows
    <3> QED
      BY <1>3, <2>1, <2>2, <2>4, <3>1 DEF Settled, KnownAreThere
  <2> QED
    BY <2>5, <2>6, <2>7 DEF Settled
<1>9. ASSUME NEW n \in Names, Select(n)
      PROVE  SettleInv'
  <2>1. /\ n \in plugged \cup Boards /\ SetActiveDevice(n)
        /\ plugs' = plugs /\ plugged' = plugged /\ posted' = posted /\ armed' = armed
    BY <1>1, <1>9 DEF Select, world
  <2>2. SUFFICES ASSUME NEW d \in Docks PROVE Settled(d)'
    BY DEF SettleInv
  <2>3. SlotIsKept(d) \/ (d = n /\ SlotIsCurrent(d))
    BY <1>1, <2>1, ActivationFreshens
  <2>4. d = n => d \in plugged
    BY <2>1, NameAssumption
  <2>5. bridge' = d \/ d \in known' => bridge = d \/ d \in known \/ d = n
    BY <2>1, ActivationKnows
  <2> QED
    BY <1>3, <2>1, <2>3, <2>4, <2>5, StaysSettled
<1>10. CASE SelectUnknown
  BY <1>4, <1>6, <1>10 DEF SelectUnknown, NotActivated, world
<1>11. CASE RunPosted
  BY <1>1, <1>11, ServingSettles
<1>12. CASE (\E n \in Names : Peek(n)) \/ (\E b \in Backends : HostDies(b)) \/ CloseFamily
  <2>1. \A d \in Docks : SlotIsKept(d)
    BY <1>1, <1>12, TransportSettles
  <2>2. posted' = posted /\ plugged' = plugged /\ armed' = armed /\ UNCHANGED plugins
    BY <1>12 DEF Peek, HostDies, CloseFamily, world
  <2> QED
    BY <1>4, <2>1, <2>2
<1>13. CASE PumpFails
  BY <1>4, <1>6, <1>13 DEF PumpFails, world
<1>14. CASE Drain
  BY <1>4, <1>5, <1>14 DEF Drain, world, objects
<1>15. CASE \E k \in Keys, d \in Docks :
              \/ \E updateBase \in BOOLEAN : AssignKeyImage(k, d, updateBase)
              \/ ClearKeyImage(k, d)
  BY <1>4, <1>5, <1>15 DEF AssignKeyImage, ClearKeyImage, world, objects
<1>16. CASE UNCHANGED vars
  BY <1>4, <1>5, <1>16 DEF vars, world, objects
<1> QED
  BY <1>1, <1>7, <1>8, <1>9, <1>10, <1>11, <1>12, <1>13, <1>14, <1>15, <1>16 DEF Next

(* For users who let a dock settle before they unplug it and select only   *)
(* what is there: once hot-plug events have settled, no service holds a    *)
(* backend opened for an earlier plugging of a dock, and plugins are told  *)
(* of no dock that is gone.                                                *)
THEOREM SettledStaysFresh ==
  ASSUME Orderly
  PROVE  Spec => []SettledIsFresh
<1>1. Init => SettleInv
  <2>1. SUFFICES ASSUME Init, NEW d \in Docks PROVE Settled(d)
    BY DEF SettleInv
  <2>2. posted = <<>> /\ armed[d] = 0 /\ cache[d] = None /\ bridge = None /\ known = {}
    BY <2>1 DEF Init, Names
  <2>3. \A name : ~Posted(name, d)
    BY <2>2 DEF Posted
  <2> QED
    BY <2>2, <2>3, NoneIsNobody
    DEF Settled, ArrivalsAreThere, CacheIsCurrent, KnownAreThere
<1>2. IInv /\ SettleInv => SettledIsFresh
  <2>1. SUFFICES ASSUME IInv, SettleInv, Quiet PROVE FreshBackend /\ GoneDockIsForgotten
    BY DEF SettledIsFresh, FreshBackend, GoneDockIsForgotten
  <2>2. \A name, d : ~Posted(name, d)
    BY <2>1 DEF Quiet, Posted
  <2>3. FreshBackend
    <3>1. SUFFICES ASSUME inp # None
                   PROVE  LET r == backend[inp] IN
                            r.name \in plugged /\ r.up => r.since[r.name] = plugs[r.name]
      BY DEF FreshBackend
    <3>2. backend[inp].name \in Docks /\ cache[backend[inp].name] = inp
      BY <2>1, <3>1 DEF IInv, Handles, HeldAreNamed, OneHandle
    <3>3. CacheIsCurrent(backend[inp].name)
      BY <2>1, <3>2 DEF SettleInv, Settled
    <3> QED
      BY <2>2, <3>1, <3>2, <3>3 DEF CacheIsCurrent, Current
  <2>4. GoneDockIsForgotten
    BY <2>1, <2>2 DEF GoneDockIsForgotten, SettleInv, Settled, KnownAreThere
  <2> QED
    BY <2>3, <2>4
<1> QED
  BY <1>1, <1>2, Initially, Stepwise, SettlesStepwise, PTL DEF Spec

=============================================================================
