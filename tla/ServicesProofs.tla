---------------------------- MODULE ServicesProofs ----------------------------
(* What the services promise, for any devices, releases, interfaces and       *)
(* passwords and any number of plugs, requests and frames. First the device   *)
(* list: it keeps up with the bus and nobody calls an application that is     *)
(* gone, proved from what the three threads owe each other: a change the view *)
(* has not been told of is a kernel event, a call under way, a queued         *)
(* observe() or an armed timer. Then the services beside it, one section each,*)
(* whose lemmas carry its name: its inductive invariant, that it begins so,   *)
(* that a step of it keeps it and what follows.                               *)
EXTENDS Services, FiniteSetTheorems, WellFoundedInduction, TLAPS

Events == [action : {"Arrived", "Removed"}, key : AllKeys]
Calls == [call : {"observe", "forget"}, key : AllKeys]

(* What the queues hold, and whose call holds an event.                       *)
QueuesTyped ==
  /\ kernel \in Seq(Events) /\ posted \in Seq(Calls)
  /\ worker = "calling" => held \in Events
  /\ worker # "calling" => held = NoEvent

(* Something will still make the application enumerate again.                 *)
Observing(q) == \E i \in DOMAIN q : q[i].call = "observe"
Pending == kernel # <<>> \/ worker = "calling" \/ Observing(posted) \/ armed # {}

NothingForgotten == EventLoop /\ ~missed => connected = attached \/ Pending
ViewIsTold == phase # "off" => shown = [r \in Rows |-> Online(r, connected)]

(* The order of the application's phases and of the worker's life.            *)
LivesInOrder ==
  /\ phase \in {"off", "built"} => worker = "none"
  /\ phase = "up" => wired
  /\ worker \in {"none", "starting"} => kernel = <<>>
  /\ phase = "off" => DOMAIN shown = {}

Inv == TypeOK /\ QueuesTyped /\ NothingForgotten /\ ViewIsTold /\ LivesInOrder /\ NobodyCalls
-----------------------------------------------------------------------------
LEMMA NoEventIsNone == \A e \in Events : e # NoEvent
<1> SUFFICES ASSUME NEW e \in Events PROVE e # NoEvent
  OBVIOUS
<1>1. e.action # "none" /\ NoEvent.action = "none"
  BY DEF Events, NoEvent
<1> QED
  BY <1>1

LEMMA AppendNotEmpty ==
  ASSUME NEW Items, NEW q \in Seq(Items), NEW e \in Items
  PROVE  Append(q, e) \in Seq(Items) /\ Append(q, e) # <<>>
<1>1. Append(q, e) \in Seq(Items) /\ 1 \in DOMAIN Append(q, e)
  OBVIOUS
<1> QED
  BY <1>1

LEMMA TailTyped ==
  ASSUME NEW Items, NEW q \in Seq(Items), q # <<>>
  PROVE  Head(q) \in Items /\ Tail(q) \in Seq(Items)
OBVIOUS

(* An observe() stays queued until it is at the head.                         *)
LEMMA ObserveStaysQueued ==
  ASSUME NEW q \in Seq(Calls), q # <<>>, Observing(q), Head(q).call # "observe"
  PROVE  Observing(Tail(q))
<1>1. PICK i \in DOMAIN q : q[i].call = "observe"
  BY DEF Observing
<1>2. Len(q) \in Nat /\ DOMAIN q = 1..Len(q) /\ Head(q) = q[1]
  OBVIOUS
<1>3. i # 1 /\ i \in 1..Len(q)
  BY <1>1, <1>2
<1>4. Len(Tail(q)) = Len(q) - 1 /\ \A j \in 1..(Len(q) - 1) : Tail(q)[j] = q[j + 1]
  OBVIOUS
<1>5. Tail(q) \in Seq(Calls) /\ DOMAIN Tail(q) = 1..Len(Tail(q))
  BY TailTyped
<1>6. i - 1 \in 1..(Len(q) - 1) /\ (i - 1) + 1 = i
  BY <1>2, <1>3
<1>7. Tail(q)[i - 1] = q[i]
  BY <1>4, <1>6
<1>8. i - 1 \in DOMAIN Tail(q)
  BY <1>4, <1>5, <1>6
<1> QED
  BY <1>1, <1>7, <1>8 DEF Observing

LEMMA ObserveIsQueued ==
  ASSUME NEW q \in Seq(Calls), NEW c \in Calls, c.call = "observe"
  PROVE  Append(q, c) \in Seq(Calls) /\ Observing(Append(q, c))
<1>1. Append(q, c) \in Seq(Calls) /\ Len(q) + 1 \in DOMAIN Append(q, c)
      /\ Append(q, c)[Len(q) + 1] = c
  OBVIOUS
<1> QED
  BY <1>1 DEF Observing

LEMMA ObserveIsQueuedFirst ==
  ASSUME NEW q \in Seq(Calls), NEW c \in Calls, NEW rest \in Seq(Calls), c.call = "observe"
  PROVE  q \o <<c>> \o rest \in Seq(Calls) /\ Observing(q \o <<c>> \o rest)
<1>1. q \o <<c>> \in Seq(Calls) /\ Len(q \o <<c>>) = Len(q) + 1 /\ (q \o <<c>>)[Len(q) + 1] = c
  OBVIOUS
<1> DEFINE p == q \o <<c>>
<1>2. p \in Seq(Calls) /\ Len(q) + 1 \in 1..Len(p) /\ p[Len(q) + 1] = c
  BY <1>1
<1> HIDE DEF p
<1>3. p \o rest \in Seq(Calls) /\ \A i \in 1..Len(p) : (p \o rest)[i] = p[i] /\ i \in DOMAIN (p \o rest)
  BY <1>2
<1>4. Observing(p \o rest)
  BY <1>2, <1>3 DEF Observing
<1> QED
  BY <1>3, <1>4 DEF p

(* On macOS every device that is there is announced when the worker starts.   *)
LEMMA ArrivalsAreOfWhatIsThere ==
  ASSUME attached \subseteq AllKeys
  PROVE  Arrivals \in Seq(Events) /\ (attached # {} => Arrivals # <<>>)
<1> DEFINE A == {[action |-> "Arrived", key |-> k] : k \in attached}
<1> DEFINE n == Cardinality(A)
<1> DEFINE f(k) == [action |-> "Arrived", key |-> k]
<1>1. IsFiniteSet(attached)
  BY KeysAssumption, FS_Subset
<1>2. IsFiniteSet(A) /\ n \in Nat
  <2> DEFINE g == [k \in attached |-> f(k)]
  <2>1. g \in [attached -> A] /\ \A a \in A : \E k \in attached : g[k] = a
    OBVIOUS
  <2> HIDE DEF A
  <2>2. g \in Surjection(attached, A)
    BY <2>1 DEF Surjection
  <2>3. IsFiniteSet(A)
    BY <1>1, <2>2, FS_Surjection
  <2> QED
    BY <2>3, FS_CardinalityType
<1>3. A \subseteq Events
  BY DEF Events
<1>4. attached # {} => A # {}
  OBVIOUS
<1> HIDE DEF A
<1>5. \E g : g \in [1..n -> A] /\ IsInjective(g)
  <2>1. ExistsBijection(1..n, A)
    BY <1>2, FS_CardinalityType
  <2> QED
    BY <2>1 DEF ExistsBijection, Bijection, Injection
<1>6. SetToSeq(A) \in [1..n -> A]
  BY <1>5 DEF SetToSeq
<1>7. SetToSeq(A) \in Seq(A) /\ Len(SetToSeq(A)) = n
  BY <1>2, <1>6
<1>8. A # {} => n # 0
  BY <1>2, FS_EmptySet
<1>9. SetToSeq(A) \in Seq(Events)
  BY <1>3, <1>7
<1>10. A # {} => SetToSeq(A) # <<>>
  BY <1>7, <1>8
<1> QED
  BY <1>4, <1>9, <1>10 DEF Arrivals, A

(* Enumerating again tells the view what is on the bus.                       *)
LEMMA RefreshTells ==
  ASSUME ViewIsTold, Refreshed, TypeOK, phase # "off" \/ DOMAIN shown = {}
  PROVE  shown' = [r \in Rows |-> Online(r, attached)]
<1>1. CASE DOMAIN shown # Rows
  BY <1>1 DEF Refreshed
<1>2. CASE DOMAIN shown = Rows
  <2>1. shown' = [r \in Rows |-> IF r \in Flipped(connected, attached)
                                 THEN Online(r, attached) ELSE shown[r]]
    BY <1>2 DEF Refreshed
  <2>2. ASSUME NEW r \in Rows, r \notin Flipped(connected, attached)
        PROVE  shown[r] = Online(r, attached)
    <3>1. phase # "off"
      BY <1>2, <2>2
    <3>2. shown = [x \in Rows |-> Online(x, connected)]
      BY <3>1 DEF ViewIsTold
    <3>3. shown[r] = Online(r, connected)
      BY <3>2
    <3>4. Online(r, connected) = Online(r, attached)
      BY <2>2 DEF Flipped
    <3> QED
      BY <3>3, <3>4
  <2> DEFINE tells(r) == IF r \in Flipped(connected, attached) THEN Online(r, attached) ELSE shown[r]
  <2>3. \A r \in Rows : tells(r) = Online(r, attached)
    BY <2>2
  <2>4. shown' = [r \in Rows |-> tells(r)]
    BY <2>1
  <2> HIDE DEF tells
  <2> QED
    BY <2>3, <2>4
<1> QED
  BY <1>1, <1>2
-----------------------------------------------------------------------------
LEMMA HeardTypes ==
  ASSUME QueuesTyped, NEW k \in AllKeys, NEW act \in {"Arrived", "Removed"}, Heard(k, act)
  PROVE  kernel' \in Seq(Events)
<1>1. [action |-> act, key |-> k] \in Events
  BY DEF Events
<1> QED
  BY <1>1, AppendNotEmpty DEF Heard, QueuesTyped

LEMMA TypesStep == Inv /\ [Next]_vars => TypeOK' /\ QueuesTyped'
<1> SUFFICES ASSUME TypeOK, QueuesTyped, LivesInOrder, [Next]_vars
             PROVE  TypeOK' /\ QueuesTyped'
  BY DEF Inv
<1> USE DEF TypeOK, QueuesTyped, machine, monitor, lists
<1>1. Refreshed => connected' \subseteq AllKeys /\ DOMAIN shown' \in {{}, Rows}
  BY DEF Refreshed
<1>2. worker = "calling" => held # NoEvent
  BY NoEventIsNone
<1>3. CASE Bootstrap
  BY <1>1, <1>3 DEF Bootstrap
<1>4. CASE Start
  BY <1>4 DEF Start, LivesInOrder
<1>5. CASE RunLinux \/ RunWindows
  BY <1>5 DEF RunLinux, RunWindows
<1>6. CASE RunMacos
  BY <1>6, ArrivalsAreOfWhatIsThere DEF RunMacos
<1>7. ASSUME NEW k \in AllKeys, Plug(k) \/ Unplug(k) \/ Bind(k) PROVE TypeOK' /\ QueuesTyped'
  <2>1. kernel' \in Seq(Events)
    <3>1. CASE Plug(k) \/ Unplug(k)
      BY <3>1, HeardTypes DEF Plug, Unplug
    <3>2. CASE Bind(k)
      <4>1. [action |-> "Removed", key |-> k] \in Events
        BY DEF Events
      <4> QED
        BY <3>2, <4>1, AppendNotEmpty DEF Bind
    <3> QED
      BY <1>7, <3>1, <3>2
  <2>2. attached' \subseteq AllKeys
    BY <1>7 DEF Plug, Unplug, Bind
  <2> QED
    BY <1>7, <2>1, <2>2 DEF Plug, Unplug, Bind
<1>8. ASSUME NEW k \in AllKeys, Coalesced(k) PROVE TypeOK' /\ QueuesTyped'
  BY <1>1, <1>8 DEF Coalesced
<1>9. CASE Wake \/ Interrupted
  <2>1. kernel' \in Seq(Events)
    <3>1. <<>> \in Seq(Events)
      OBVIOUS
    <3>2. kernel' \in {kernel, <<>>}
      BY <1>9 DEF Wake, Interrupted
    <3> QED
      BY <3>1, <3>2
  <2>2. held = NoEvent
    BY <1>9 DEF Wake, Interrupted
  <2> QED
    BY <1>9, <2>1, <2>2 DEF Wake, Interrupted
<1>10. CASE Take
  <2>1. Head(kernel) \in Events /\ kernel' \in Seq(Events)
    BY <1>10, TailTyped DEF Take
  <2> QED
    BY <1>10, <2>1, NoEventIsNone DEF Take
<1>11. CASE OnHotplug
  <2>1. held.key \in AllKeys /\ Call("observe") \in Calls /\ Call("forget") \in Calls
    BY <1>11 DEF OnHotplug, Call, Calls, Events
  <2> DEFINE more == IF RowOf(held.key) \cap Docks # {} THEN <<Call("forget")>> ELSE <<>>
  <2>2. more \in Seq(Calls) /\ Call("observe").call = "observe"
    BY <2>1 DEF Call
  <2> HIDE DEF more
  <2>3. posted' = Append(posted, Call("observe")) \/ posted' = posted \o <<Call("observe")>> \o more
    BY <1>11 DEF OnHotplug, more
  <2>4. posted' \in Seq(Calls)
    BY <2>1, <2>2, <2>3, ObserveIsQueued, ObserveIsQueuedFirst
  <2>5. timers' \subseteq {"clock", "dock"} \X Rows
    BY <1>11 DEF OnHotplug, RowOf
  <2> QED
    BY <1>11, <2>4, <2>5 DEF OnHotplug
<1>12. CASE Posted
  <2>1. Head(posted) \in Calls /\ posted' \in Seq(Calls)
    BY <1>12, TailTyped DEF Posted
  <2>2. armed' \subseteq AllKeys
    BY <1>12, <2>1 DEF Posted, Calls
  <2> QED
    BY <1>12, <2>1, <2>2 DEF Posted
<1>13. ASSUME NEW t \in timers, ArrivalTimer(t) PROVE TypeOK' /\ QueuesTyped'
  BY <1>13 DEF ArrivalTimer
<1>14. CASE Silence \/ Stop
  BY <1>14 DEF Silence, Stop
<1>15. CASE Drain
  BY <1>15 DEF Drain
<1>16. CASE UNCHANGED vars
  BY <1>16 DEF vars
<1> QED
  BY <1>3, <1>4, <1>5, <1>6, <1>7, <1>8, <1>9, <1>10, <1>11, <1>12, <1>13, <1>14, <1>15, <1>16 DEF Next

(* The application's phases, the worker's life and what the destructor leaves *)
(* follow each other.                                                         *)
LEMMA OrderStep == Inv /\ [Next]_vars => LivesInOrder' /\ NobodyCalls'
<1> SUFFICES ASSUME Inv, [Next]_vars PROVE LivesInOrder' /\ NobodyCalls'
  OBVIOUS
<1> USE DEF Inv, TypeOK, LivesInOrder, NobodyCalls, machine, monitor, lists
<1>1. CASE Bootstrap \/ Start \/ RunLinux \/ RunWindows \/ RunMacos
  BY <1>1 DEF Bootstrap, Start, RunLinux, RunWindows, RunMacos
<1>2. ASSUME NEW k \in AllKeys, Plug(k) \/ Unplug(k) \/ Bind(k) \/ Coalesced(k)
      PROVE  LivesInOrder' /\ NobodyCalls'
  BY <1>2 DEF Plug, Unplug, Bind, Coalesced, Heard, EventLoop
<1>3. CASE Wake \/ Interrupted \/ Take \/ OnHotplug
  BY <1>3 DEF Wake, Interrupted, Take, OnHotplug
<1>4. CASE Posted
  BY <1>4 DEF Posted, EventLoop
<1>5. ASSUME NEW t \in timers, ArrivalTimer(t) PROVE LivesInOrder' /\ NobodyCalls'
  BY <1>5 DEF ArrivalTimer
<1>6. CASE Silence \/ Stop \/ Drain
  BY <1>6 DEF Silence, Stop, Drain, Joined
<1>7. CASE UNCHANGED vars
  BY <1>7 DEF vars
<1> QED
  BY <1>1, <1>2, <1>3, <1>4, <1>5, <1>6, <1>7 DEF Next

(* The view knows what the list has enumerated last.                          *)
LEMMA ViewStep == Inv /\ [Next]_vars => ViewIsTold'
<1> SUFFICES ASSUME Inv, [Next]_vars PROVE ViewIsTold'
  OBVIOUS
<1> USE DEF machine, monitor, lists
<1>1. CASE Bootstrap
  <2>1. shown' = [r \in Rows |-> Online(r, attached)] /\ connected' = attached
    BY <1>1, RefreshTells DEF Bootstrap, Inv, LivesInOrder, Refreshed
  <2> QED
    BY <2>1 DEF ViewIsTold
<1>2. ASSUME NEW k \in AllKeys, Coalesced(k) PROVE ViewIsTold'
  <2>1. phase # "off" /\ Refreshed
    BY <1>2 DEF Coalesced, EventLoop
  <2>2. shown' = [r \in Rows |-> Online(r, attached)] /\ connected' = attached
    BY <2>1, RefreshTells DEF Inv, Refreshed
  <2> QED
    BY <2>2 DEF ViewIsTold
<1>3. ASSUME connected' = connected, shown' = shown, phase' # "off" => phase # "off"
      PROVE  ViewIsTold'
  BY <1>3 DEF Inv, ViewIsTold
<1>4. CASE Start \/ RunLinux \/ RunWindows \/ RunMacos
  BY <1>3, <1>4 DEF Start, RunLinux, RunWindows, RunMacos
<1>5. ASSUME NEW k \in AllKeys, Plug(k) \/ Unplug(k) \/ Bind(k) PROVE ViewIsTold'
  BY <1>3, <1>5 DEF Plug, Unplug, Bind
<1>6. CASE Wake \/ Interrupted \/ Take \/ OnHotplug \/ Posted
  BY <1>3, <1>6 DEF Wake, Interrupted, Take, OnHotplug, Posted
<1>7. ASSUME NEW t \in timers, ArrivalTimer(t) PROVE ViewIsTold'
  BY <1>3, <1>7 DEF ArrivalTimer
<1>8. CASE Silence \/ Stop \/ Drain
  BY <1>3, <1>8 DEF Silence, Stop, Drain
<1>9. CASE UNCHANGED vars
  BY <1>3, <1>9 DEF vars
<1> QED
  BY <1>1, <1>2, <1>4, <1>5, <1>6, <1>7, <1>8, <1>9 DEF Next

(* A change the view has not been told of stays under way: it moves from the  *)
(* kernel to the worker, to the queue, to a timer, until the list enumerates. *)
LEMMA ForgottenStep == Inv /\ [Next]_vars => NothingForgotten'
<1> SUFFICES ASSUME Inv, [Next]_vars, EventLoop', ~missed' PROVE (connected = attached \/ Pending)'
  BY DEF NothingForgotten
<1>a. /\ EventLoop /\ ~missed => connected = attached \/ Pending
      /\ kernel \in Seq(Events) /\ posted \in Seq(Calls)
  BY DEF Inv, NothingForgotten, QueuesTyped
<1>b. ASSUME phase' = phase, missed' = missed, connected' = connected, attached' = attached,
             kernel' = kernel, posted' = posted, armed' = armed,
             worker = "calling" => worker' = "calling"
      PROVE  (connected = attached \/ Pending)'
  BY <1>a, <1>b DEF EventLoop, Pending
<1> USE DEF machine, monitor, lists
<1>1. CASE Bootstrap
  BY <1>1 DEF Bootstrap, Refreshed
<1>2. CASE Start
  <2>1. worker # "calling" /\ EventLoop
    BY <1>2 DEF Start, Inv, LivesInOrder, EventLoop
  <2> QED
    BY <1>2, <1>a, <2>1 DEF Start, Pending
<1>3. CASE RunLinux \/ RunWindows
  BY <1>3, <1>b DEF RunLinux, RunWindows
<1>4. CASE RunMacos
  <2>1. CASE worker' = "gone"
    BY <1>4, <2>1, <1>b DEF RunMacos
  <2>2. CASE worker' # "gone"
    <3>1. kernel' = Arrivals /\ missed' = (missed /\ attached = {}) /\ kernel = <<>>
          /\ worker # "calling" /\ EventLoop /\ attached' = attached /\ connected' = connected
          /\ posted' = posted /\ armed' = armed
      BY <1>4, <2>2 DEF RunMacos, Inv, LivesInOrder, EventLoop
    <3>2. CASE attached # {}
      <4>1. kernel' # <<>>
        BY <3>1, <3>2, ArrivalsAreOfWhatIsThere DEF Inv, TypeOK
      <4> QED
        BY <4>1 DEF Pending
    <3>3. CASE attached = {}
      <4>1. ~missed
        BY <3>1, <3>3
      <4> QED
        BY <1>a, <3>1, <4>1 DEF Pending
    <3> QED
      BY <3>2, <3>3
  <2> QED
    BY <2>1, <2>2
<1>5. ASSUME NEW k \in AllKeys, Plug(k) \/ Unplug(k) PROVE (connected = attached \/ Pending)'
  <2>1. PICK act \in {"Arrived", "Removed"} : Heard(k, act)
    BY <1>5 DEF Plug, Unplug
  <2>2. [action |-> act, key |-> k] \in Events
    BY DEF Events
  <2>3. kernel' # <<>>
    BY <1>a, <2>1, <2>2, AppendNotEmpty DEF Heard
  <2> QED
    BY <2>3 DEF Pending
<1>6. ASSUME NEW k \in AllKeys, Bind(k) PROVE (connected = attached \/ Pending)'
  <2>1. [action |-> "Removed", key |-> k] \in Events
    BY DEF Events
  <2>2. kernel' # <<>>
    BY <1>6, <1>a, <2>1, AppendNotEmpty DEF Bind
  <2> QED
    BY <2>2 DEF Pending
<1>7. ASSUME NEW k \in AllKeys, Coalesced(k) PROVE (connected = attached \/ Pending)'
  BY <1>7 DEF Coalesced, Refreshed
<1>8. CASE Wake
  BY <1>8, <1>b DEF Wake
<1>9. CASE Interrupted
  <2>1. ~missed /\ kernel = <<>>
    BY <1>9 DEF Interrupted
  <2> QED
    BY <1>9, <1>a, <2>1 DEF Interrupted, Pending, EventLoop
<1>10. CASE Take
  <2>1. phase \in {"built", "up"} /\ worker = "polling"
    BY <1>10 DEF Take, EventLoop
  <2>2. wired
    BY <2>1 DEF Inv, LivesInOrder
  <2>3. worker' = "calling"
    BY <1>10, <2>2 DEF Take
  <2> QED
    BY <2>3 DEF Pending
<1>11. CASE OnHotplug
  <2>1. held \in Events
    BY <1>11 DEF OnHotplug, Inv, QueuesTyped
  <2>2. Call("observe") \in Calls /\ Call("forget") \in Calls /\ Call("observe").call = "observe"
    BY <2>1 DEF Call, Calls, Events
  <2> DEFINE more == IF RowOf(held.key) \cap Docks # {} THEN <<Call("forget")>> ELSE <<>>
  <2>3. more \in Seq(Calls)
    BY <2>2
  <2> HIDE DEF more
  <2>4. posted' = Append(posted, Call("observe")) \/ posted' = posted \o <<Call("observe")>> \o more
    BY <1>11 DEF OnHotplug, more
  <2>5. Observing(posted')
    BY <1>a, <2>2, <2>3, <2>4, ObserveIsQueued, ObserveIsQueuedFirst
  <2> QED
    BY <2>5 DEF Pending, Observing
<1>12. CASE Posted
  <2>1. CASE Head(posted).call = "observe"
    BY <1>12, <2>1 DEF Posted, Pending
  <2>2. CASE Head(posted).call # "observe"
    <3>1. Observing(posted) => Observing(posted')
      BY <1>12, <1>a, <2>2, ObserveStaysQueued DEF Posted
    <3>2. EventLoop /\ ~missed /\ armed' = armed
      BY <1>12, <2>2 DEF Posted
    <3> QED
      BY <1>12, <1>a, <3>1, <3>2 DEF Posted, Pending, Observing
  <2> QED
    BY <2>1, <2>2
<1>13. ASSUME NEW t \in timers, ArrivalTimer(t) PROVE (connected = attached \/ Pending)'
  BY <1>13, <1>b DEF ArrivalTimer
<1>14. CASE Silence \/ Stop \/ Drain
  BY <1>14 DEF Silence, Stop, Drain, EventLoop
<1>15. CASE UNCHANGED vars
  BY <1>15, <1>b DEF vars
<1> QED
  BY <1>1, <1>2, <1>3, <1>4, <1>5, <1>6, <1>7, <1>8, <1>9, <1>10, <1>11, <1>12, <1>13, <1>14, <1>15
     DEF Next
-----------------------------------------------------------------------------
LEMMA InvAlways == Spec => []Inv
<1>1. Init => Inv
  <2> SUFFICES ASSUME Init PROVE Inv
    OBVIOUS
  <2>1. TypeOK /\ QueuesTyped
    BY DEF Init, TypeOK, QueuesTyped
  <2>2. NothingForgotten /\ ViewIsTold /\ LivesInOrder /\ NobodyCalls
    BY DEF Init, NothingForgotten, EventLoop, ViewIsTold, LivesInOrder, NobodyCalls
  <2> QED
    BY <2>1, <2>2 DEF Inv
<1>2. Inv /\ [Next]_vars => Inv'
  BY TypesStep, OrderStep, ViewStep, ForgottenStep DEF Inv
<1> QED
  BY <1>1, <1>2, PTL DEF Spec

(* Once all the worker has heard is worked off, the view shows exactly the    *)
(* rows one of whose pairs is on the bus, whatever the threads' order, and    *)
(* the destructor leaves no call queued, no timer armed and no worker that    *)
(* could still call (HotplugMonitor, HotplugDebouncer, DeviceModel,           *)
(* ~Application).                                                             *)
THEOREM ListAlwaysKeepsUp == Spec => []ListKeepsUp
<1>1. ASSUME Inv PROVE ListKeepsUp
  <2>1. ASSUME Quiet, NEW r \in Rows PROVE shown[r] = (\E k \in Pairs[r] : k \in attached)
    <3>1. ~Observing(posted)
      BY <2>1 DEF Quiet, Observing
    <3>2. connected = attached
      BY <1>1, <2>1, <3>1 DEF Inv, NothingForgotten, Quiet, Pending
    <3>3. shown = [x \in Rows |-> Online(x, connected)]
      BY <1>1, <2>1 DEF Inv, ViewIsTold, Quiet, EventLoop
    <3>4. shown[r] = Online(r, attached)
      BY <3>2, <3>3
    <3>5. Online(r, attached) = (\E k \in Pairs[r] : k \in attached)
      BY DEF Online
    <3> QED
      BY <3>4, <3>5
  <2>2. RowsFollowBus
    BY <2>1 DEF RowsFollowBus
  <2> QED
    BY <1>1, <2>2 DEF Inv, ListKeepsUp
<1> QED
  BY <1>1, InvAlways, PTL

-----------------------------------------------------------------------------
(* Updates. Beside what is promised: a reply may always be waited for while a *)
(* check is under way, a banner shows no release that was put off nor, but for a *)
(* 304, one that is not newer, and a sandboxed build has asked nothing and    *)
(* never will.                                                                *)
UpdatePublished == U!Range(Stable) \cup Nightlies
UpdateAnyTags == {U!NoTag} \cup UpdatePublished
UpdateRequests == [of : {"latest", "nightly"}, etag : UpdateAnyTags]
UpdateTypes ==
  /\ status \in {"idle", "checking", "upToDate", "available", "error", "disabled"}
  /\ latest \in UpdateAnyTags /\ etag \in UpdateAnyTags /\ dismissed \in UpdateAnyTags
  /\ uWire \in Seq(UpdateRequests)
  /\ auto \in BOOLEAN /\ nightly \in BOOLEAN /\ timer \in BOOLEAN /\ first \in BOOLEAN
  /\ renewed \in BOOLEAN
  /\ published \in 1 .. Len(Stable) /\ uAsked \in 0 .. MaxRequests
UpdateNewer == {t \in UpdatePublished : U!IsNewerThan(t, Current)}
UpdateBanner ==
  /\ status = "available" => latest # U!NoTag /\ latest # dismissed /\ (latest \in UpdateNewer \/ renewed = TRUE)
  /\ status = "checking" => \E k \in DOMAIN uWire : uWire[k].of = "latest"
  /\ Sandboxed => uWire = <<>> /\ status = "disabled"
UpdateHandles ==
  /\ opened \subseteq Devices /\ launched \subseteq {"streamDock", "keyboard", "mouseAj159", "mouseAj199"}
  /\ \A d \in Devices : U!FamilyForDevice(d) \in launched => d \notin opened
UpdateInv == UpdateTypes /\ UpdateBanner /\ UpdateHandles

LEMMA UpdateReleases ==
  /\ U!NoTag \notin UpdatePublished /\ Len(Stable) \in Nat /\ 1 \in 1..Len(Stable)
  /\ \A i \in 1..Len(Stable) : Stable[i] \in UpdatePublished
<1>1. DOMAIN Stable = 1..Len(Stable) /\ Len(Stable) \in Nat /\ Len(Stable) # 0
  BY UpdatesAssumption
<1>2. \A i \in 1..Len(Stable) : Stable[i] \in Tags
  BY UpdatesAssumption
<1>3. U!Range(Stable) = {Stable[i] : i \in 1..Len(Stable)}
  BY <1>1 DEF U!Range
<1> QED
  BY <1>1, <1>2, <1>3, UpdatesAssumption DEF UpdatePublished, Tags

LEMMA UpdateDropped ==
  ASSUME NEW Items, NEW s \in Seq(Items), NEW k \in DOMAIN s
  PROVE  /\ U!RemoveAt(s, k) \in Seq(Items)
         /\ \A j \in DOMAIN s : j # k => \E i \in DOMAIN U!RemoveAt(s, k) : U!RemoveAt(s, k)[i] = s[j]
<1> DEFINE a == SubSeq(s, 1, k - 1)
           b == SubSeq(s, k + 1, Len(s))
<1>1. k \in 1..Len(s) /\ Len(s) \in Nat
  OBVIOUS
<1>2. a \in Seq(Items) /\ Len(a) = k - 1 /\ \A i \in 1..(k - 1) : a[i] = s[i]
  BY <1>1
<1>3. b \in Seq(Items) /\ Len(b) = Len(s) - k /\ \A i \in 1..(Len(s) - k) : b[i] = s[k + i]
  BY <1>1
<1>4. U!RemoveAt(s, k) = a \o b
  BY DEF U!RemoveAt
<1> HIDE DEF a, b
<1>5. /\ a \o b \in Seq(Items) /\ DOMAIN (a \o b) = 1..(Len(s) - 1)
      /\ \A i \in 1..(k - 1) : (a \o b)[i] = s[i]
      /\ \A i \in k..(Len(s) - 1) : (a \o b)[i] = s[i + 1]
  BY <1>1, <1>2, <1>3
<1>6. ASSUME NEW j \in DOMAIN s, j # k PROVE \E i \in DOMAIN (a \o b) : (a \o b)[i] = s[j]
  <2>1. CASE j < k
    <3>1. j \in 1..(k - 1) /\ j \in 1..(Len(s) - 1)
      BY <1>1, <2>1
    <3>2. (a \o b)[j] = s[j]
      BY <1>5, <3>1
    <3> QED
      BY <1>5, <3>1, <3>2
  <2>2. CASE j > k
    <3>1. j - 1 \in k..(Len(s) - 1) /\ j - 1 \in 1..(Len(s) - 1) /\ (j - 1) + 1 = j
      BY <1>1, <2>2
    <3>2. (a \o b)[j - 1] = s[j]
      BY <1>5, <3>1
    <3> QED
      BY <1>5, <3>1, <3>2
  <2> QED
    BY <1>1, <1>6, <2>1, <2>2
<1> QED
  BY <1>4, <1>5, <1>6

LEMMA UpdateBegins == U!Init => UpdateInv
<1> SUFFICES ASSUME U!Init PROVE UpdateInv
  OBVIOUS
<1>1. UpdateTypes
  <2>1. status \in {"idle", "disabled"} /\ timer \in BOOLEAN /\ first \in BOOLEAN
    BY UpdatesAssumption DEF U!Init, U!Boot
  <2>2. uWire \in Seq(UpdateRequests) /\ published \in 1..Len(Stable) /\ uAsked \in 0..MaxRequests
    BY UpdateReleases, UpdatesAssumption DEF U!Init
  <2>3. auto \in BOOLEAN /\ nightly \in BOOLEAN /\ renewed \in BOOLEAN
    BY DEF U!Init
  <2>4. {latest, etag, dismissed} \subseteq UpdateAnyTags
    BY DEF U!Init, UpdateAnyTags
  <2> QED
    BY <2>1, <2>2, <2>3, <2>4 DEF UpdateTypes
<1>2. UpdateBanner
  BY DEF U!Init, UpdateBanner, U!Boot
<1> QED
  BY <1>1, <1>2 DEF U!Init, UpdateHandles, UpdateInv

LEMMA UpdateAsks ==
  ASSUME UpdateInv, U!PerformCheck, UNCHANGED <<latest, etag, dismissed>>
  PROVE  /\ status' = "checking" /\ uAsked' \in 0..MaxRequests /\ uWire' \in Seq(UpdateRequests)
         /\ UpdateBanner'
<1> DEFINE r == [of |-> "latest", etag |-> etag]
<1>1. status # "disabled" /\ status' = "checking" /\ uWire' = Append(uWire, r) /\ uAsked' \in 0..MaxRequests
  BY UpdatesAssumption DEF U!PerformCheck, UpdateInv, UpdateTypes
<1>2. r \in UpdateRequests /\ r.of = "latest" /\ uWire \in Seq(UpdateRequests)
  BY DEF UpdateRequests, UpdateInv, UpdateTypes
<1> HIDE DEF r
<1>3. uWire' \in Seq(UpdateRequests) /\ Len(uWire) + 1 \in DOMAIN uWire' /\ uWire'[Len(uWire) + 1] = r
  BY <1>1, <1>2
<1>4. ~Sandboxed
  BY <1>1 DEF UpdateInv, UpdateBanner
<1> QED
  BY <1>1, <1>2, <1>3, <1>4 DEF UpdateBanner

LEMMA UpdateApplies ==
  ASSUME UpdateInv, NEW tag \in UpdatePublished, U!ApplyRelease(tag), UNCHANGED dismissed
  PROVE  /\ latest' \in UpdateAnyTags /\ status' \in {"upToDate", "idle", "available"} /\ renewed' \in BOOLEAN
         /\ status' = "available" => latest' # U!NoTag /\ latest' # dismissed' /\ latest' \in UpdateNewer
BY UpdateReleases DEF U!ApplyRelease, UpdateAnyTags, UpdateNewer

LEMMA UpdateLatestFinished ==
  ASSUME UpdateInv, NEW k \in DOMAIN uWire, U!OnLatestReplyFinished(k) PROVE UpdateInv'
<1> DEFINE rest == U!RemoveAt(uWire, k)
           tag == Stable[published]
<1>1. rest \in Seq(UpdateRequests) /\ ~Sandboxed /\ tag \in UpdatePublished
  <2>1. uWire \in Seq(UpdateRequests)
    BY DEF UpdateInv, UpdateTypes
  <2>2. uWire # <<>>
    OBVIOUS
  <2> QED
    BY <2>1, <2>2, UpdateDropped, UpdateReleases DEF UpdateInv, UpdateTypes, UpdateBanner
<1>2. etag' \in UpdateAnyTags /\ UNCHANGED <<dismissed, auto, nightly, timer, first, published, U!firmware>>
  BY <1>1 DEF U!OnLatestReplyFinished, UpdateInv, UpdateTypes, UpdateAnyTags
<1>3. /\ status' \in {"idle", "upToDate", "available", "error", "disabled"} /\ latest' \in UpdateAnyTags
      /\ renewed' \in BOOLEAN
      /\ status' = "available" => latest' # U!NoTag /\ latest' # dismissed' /\ (latest' \in UpdateNewer \/ renewed' = TRUE)
  <2>1. CASE /\ UNCHANGED latest
             /\ \/ status' = "error" /\ renewed' = FALSE
                \/ /\ status' = (IF status # "checking" THEN status
                                 ELSE IF latest = U!NoTag THEN "upToDate"
                                 ELSE IF latest = dismissed THEN "idle" ELSE "available")
                   /\ renewed' = (renewed \/ status = "checking")
    <3>1. CASE status' = "error" /\ renewed' = FALSE
      BY <1>2, <2>1, <3>1 DEF UpdateInv, UpdateTypes, UpdateBanner
    <3>2. CASE status # "checking" /\ status' = status /\ renewed' = renewed
      BY <1>2, <2>1, <3>2 DEF UpdateInv, UpdateTypes, UpdateBanner
    <3>3. CASE /\ status = "checking" /\ renewed' = TRUE
               /\ status' = (IF latest = U!NoTag THEN "upToDate"
                             ELSE IF latest = dismissed THEN "idle" ELSE "available")
      BY <1>2, <2>1, <3>3 DEF UpdateInv, UpdateTypes, UpdateBanner
    <3> QED
      BY <2>1, <3>1, <3>2, <3>3 DEF UpdateInv, UpdateTypes
  <2>2. CASE U!ApplyRelease(tag)
    BY <1>1, <1>2, <2>2, UpdateApplies
  <2> QED
    BY <2>1, <2>2 DEF U!OnLatestReplyFinished
<1>4. uWire' \in Seq(UpdateRequests) /\ uAsked' \in 0..MaxRequests
  <2>1. CASE uWire' = rest /\ UNCHANGED uAsked
    BY <1>1, <2>1 DEF UpdateInv, UpdateTypes
  <2>2. CASE /\ uAsked < MaxRequests /\ uAsked' = uAsked + 1
             /\ uWire' = Append(rest, [of |-> "nightly", etag |-> U!NoTag])
    <3> DEFINE r == [of |-> "nightly", etag |-> U!NoTag]
    <3>1. r \in UpdateRequests
      BY DEF UpdateRequests, UpdateAnyTags
    <3> HIDE DEF r, rest
    <3>2. Append(rest, r) \in Seq(UpdateRequests)
      BY <1>1, <3>1
    <3>3. uWire' = Append(rest, r)
      BY <2>2 DEF r
    <3> QED
      BY <2>2, <3>2, <3>3, UpdatesAssumption DEF UpdateInv, UpdateTypes
  <2> QED
    BY <2>1, <2>2 DEF U!OnLatestReplyFinished
<1> QED
  BY <1>1, <1>2, <1>3, <1>4 DEF UpdateInv, UpdateTypes, UpdateBanner, UpdateHandles, U!firmware

LEMMA UpdateNightlyFinished ==
  ASSUME UpdateInv, NEW k \in DOMAIN uWire, U!OnNightlyReplyFinished(k) PROVE UpdateInv'
<1>1. uWire[k].of = "nightly" /\ uWire' = U!RemoveAt(uWire, k) /\ ~Sandboxed
      /\ UNCHANGED <<etag, dismissed, auto, nightly, timer, first, published, uAsked, U!firmware>>
  <2>1. uWire # <<>>
    OBVIOUS
  <2> QED
    BY <2>1 DEF U!OnNightlyReplyFinished, UpdateInv, UpdateBanner
<1>2. /\ uWire' \in Seq(UpdateRequests)
      /\ \A j \in DOMAIN uWire : j # k => \E i \in DOMAIN uWire' : uWire'[i] = uWire[j]
  BY <1>1, UpdateDropped DEF UpdateInv, UpdateTypes
<1>3. CASE UNCHANGED <<status, latest, renewed>>
  <2>1. ASSUME status = "checking" PROVE \E i \in DOMAIN uWire' : uWire'[i].of = "latest"
    <3>1. PICK j \in DOMAIN uWire : uWire[j].of = "latest"
      BY <2>1 DEF UpdateInv, UpdateBanner
    <3> QED
      BY <1>1, <1>2, <3>1
  <2> QED
    BY <1>1, <1>2, <1>3, <2>1 DEF UpdateInv, UpdateTypes, UpdateBanner, UpdateHandles, U!firmware
<1>4. ASSUME NEW tag \in Nightlies, U!ApplyRelease(tag) PROVE UpdateInv'
  <2>1. tag \in UpdatePublished
    BY DEF UpdatePublished
  <2>2. /\ latest' \in UpdateAnyTags /\ status' \in {"upToDate", "idle", "available"} /\ renewed' \in BOOLEAN
        /\ status' = "available" => latest' # U!NoTag /\ latest' # dismissed' /\ latest' \in UpdateNewer
    BY <1>1, <1>4, <2>1, UpdateApplies
  <2> QED
    BY <1>1, <1>2, <2>2 DEF UpdateInv, UpdateTypes, UpdateBanner, UpdateHandles, U!firmware
<1> QED
  BY <1>3, <1>4 DEF U!OnNightlyReplyFinished

LEMMA UpdateFamiliesAgree ==
  ASSUME NEW d \in Devices
  PROVE  U!FamilyForDevice(d) # "unknown" => U!CoreFamily(U!FamilyForDevice(d)) = Core[d]
BY DEF U!FamilyForDevice, U!CoreFamily

LEMMA UpdateLaunches ==
  ASSUME UpdateInv, NEW d \in Devices, U!LaunchVendorTool(U!FamilyForDevice(d)) PROVE UpdateHandles'
<1> DEFINE f == U!FamilyForDevice(d)
<1>1. f \in {"streamDock", "keyboard", "mouseAj159", "mouseAj199"}
  BY DEF U!FamilyForDevice, U!LaunchVendorTool, U!IsVendorToolInstalled
<1>2. opened' = {e \in opened : Core[e] # U!CoreFamily(f)} /\ launched' \subseteq launched \cup {f}
  BY DEF U!LaunchVendorTool
<1>3. ASSUME NEW e \in Devices, U!FamilyForDevice(e) \in launched' PROVE e \notin opened'
  <2>1. CASE U!FamilyForDevice(e) = f
    BY <1>1, <1>2, <2>1, UpdateFamiliesAgree
  <2>2. CASE U!FamilyForDevice(e) # f
    BY <1>2, <1>3, <2>2 DEF UpdateInv, UpdateHandles
  <2> QED
    BY <2>1, <2>2
<1> QED
  BY <1>1, <1>2, <1>3 DEF UpdateInv, UpdateHandles

LEMMA UpdateReopens == ASSUME UpdateInv, NEW d \in Devices, U!Reopen(d) PROVE UpdateHandles'
<1>1. /\ opened' = opened \cup {d}
      /\ launched' = {f \in launched : U!CoreFamily(f) # Core[d]}
  BY DEF U!Reopen
<1>2. ASSUME NEW e \in Devices, U!FamilyForDevice(e) \in launched' PROVE e \notin opened'
  <2>1. U!FamilyForDevice(e) \in launched /\ U!FamilyForDevice(e) # "unknown"
    BY <1>1, <1>2 DEF UpdateInv, UpdateHandles
  <2>2. e # d
    BY <1>1, <1>2, <2>1, UpdateFamiliesAgree
  <2> QED
    BY <1>1, <2>1, <2>2 DEF UpdateInv, UpdateHandles
<1> QED
  BY <1>1, <1>2 DEF UpdateInv, UpdateHandles

LEMMA UpdateStep == UpdateInv /\ [U!Next]_U!vars => UpdateInv'
<1> SUFFICES ASSUME UpdateInv, [U!Next]_U!vars PROVE UpdateInv'
  OBVIOUS
<1> USE DEF UpdateInv
<1>1. CASE U!Restart
  <2>1. UpdateTypes'
    <3>1. status' \in {"idle", "disabled"} /\ timer' \in BOOLEAN /\ first' \in BOOLEAN
      BY <1>1, UpdatesAssumption DEF U!Restart, U!Boot, UpdateTypes
    <3>2. /\ {latest', etag', dismissed'} \subseteq UpdateAnyTags
          /\ uWire' \in Seq(UpdateRequests) /\ published' \in 1..Len(Stable) /\ uAsked' \in 0..MaxRequests
      BY <1>1 DEF U!Restart, UpdateTypes, UpdateAnyTags
    <3>3. auto' \in BOOLEAN /\ nightly' \in BOOLEAN /\ renewed' \in BOOLEAN
      BY <1>1 DEF U!Restart, UpdateTypes
    <3> QED
      BY <3>1, <3>2, <3>3 DEF UpdateTypes
  <2>2. UpdateBanner' /\ UpdateHandles'
    BY <1>1 DEF U!Restart, U!Boot, UpdateBanner, UpdateHandles, U!firmware
  <2> QED
    BY <2>1, <2>2
<1>2. ASSUME NEW on \in BOOLEAN, U!SetAutoCheckEnabled(on) PROVE UpdateInv'
  BY <1>2, UpdatesAssumption
     DEF U!SetAutoCheckEnabled, UpdateTypes, UpdateBanner, UpdateHandles, U!firmware
<1>3. ASSUME NEW on \in BOOLEAN, U!SetIncludeNightly(on) PROVE UpdateInv'
  BY <1>3 DEF U!SetIncludeNightly, UpdateTypes, UpdateBanner, UpdateHandles, U!firmware
<1>4. CASE U!CheckNow
  <2>1. CASE UNCHANGED <<status, uWire, uAsked>>
    BY <1>4, <2>1 DEF U!CheckNow, UpdateTypes, UpdateBanner, UpdateHandles, U!firmware
  <2>2. CASE U!PerformCheck
    BY <1>4, <2>2, UpdateAsks DEF U!CheckNow, UpdateTypes, UpdateHandles, U!firmware
  <2> QED
    BY <1>4, <2>1, <2>2 DEF U!CheckNow
<1>5. CASE U!Tick
  BY <1>5, UpdateAsks DEF U!Tick, UpdateTypes, UpdateHandles, U!firmware
<1>6. CASE U!DismissCurrentUpdate
  BY <1>6 DEF U!DismissCurrentUpdate, UpdateTypes, UpdateBanner, UpdateHandles, U!firmware
<1>7. CASE U!Publish
  BY <1>7, UpdateReleases DEF U!Publish, UpdateTypes, UpdateBanner, UpdateHandles, U!firmware
<1>8. ASSUME NEW d \in Devices, U!LaunchVendorTool(U!FamilyForDevice(d)) PROVE UpdateInv'
  BY <1>8, UpdateLaunches DEF U!LaunchVendorTool, U!checking, UpdateTypes, UpdateBanner
<1>9. ASSUME NEW d \in Devices, U!Reopen(d) PROVE UpdateInv'
  BY <1>9, UpdateReopens DEF U!Reopen, U!checking, UpdateTypes, UpdateBanner
<1>10. CASE UNCHANGED U!vars
  BY <1>10 DEF U!vars, UpdateTypes, UpdateBanner, UpdateHandles
<1> QED
  BY <1>1, <1>2, <1>3, <1>4, <1>5, <1>6, <1>7, <1>8, <1>9, <1>10, UpdateLatestFinished, UpdateNightlyFinished
     DEF U!Next

LEMMA UpdateFollows == UpdateInv => U!TypeOK /\ U!ChecksAreHonest
<1> SUFFICES ASSUME UpdateInv PROVE U!TypeOK /\ U!ChecksAreHonest
  OBVIOUS
<1>1. {latest, etag, dismissed} \subseteq {U!NoTag} \cup U!Range(Stable) \cup Nightlies
  BY DEF UpdateInv, UpdateTypes, UpdateAnyTags, UpdatePublished
<1>2. {auto, nightly, timer, first, renewed} \subseteq BOOLEAN
  BY DEF UpdateInv, UpdateTypes
<1> USE DEF UpdateNewer
<1> QED
  BY <1>1, <1>2 DEF UpdateInv, UpdateTypes, UpdateBanner, UpdateHandles, U!TypeOK, U!ChecksAreHonest

(* A banner is never about a release the user put off, nor about one that is  *)
(* not newer than this build unless the answer was a 304; a check that says it*)
(* is under way is, a sandboxed build asks nothing, and no device whose vendor's *)
(* updater runs is held open (AppUpdateService, FirmwareUpdateService), for   *)
(* any releases and any number of requests.                                   *)
THEOREM ChecksAreAlwaysHonest == U!Spec => [](U!TypeOK /\ U!ChecksAreHonest)
BY UpdateBegins, UpdateStep, UpdateFollows, PTL DEF U!Spec

-----------------------------------------------------------------------------
(* DeviceServices. A clock that was said to be set is that of a device still  *)
(* on the bus, so that taking the device off is what unsays it; what is stored*)
(* are the switches at all times; settings that were accepted are in range.   *)
SettingsSettings == [fn : Nat, sleep : Nat, level : 1..5]
SettingsSwitches ==
  /\ autoSync \in BOOLEAN /\ enumerator \in BOOLEAN /\ polling \in BOOLEAN
  /\ ticking = (autoSync /\ enumerator) /\ pollTimer = polling
  /\ stored = [sync |-> autoSync, poll |-> polling]
SettingsDevices ==
  /\ sAttached \subseteq Models /\ listed \subseteq S!Codenames /\ pending \subseteq S!Codenames
  /\ charge \in [Models -> 0..S!None] /\ known \in [S!Codenames -> 0..S!None]
  /\ kept \in [Models -> SettingsSettings]
SettingsClocked ==
  /\ clock \in [Models -> BOOLEAN]
  /\ said = S!Nothing
     \/ /\ said.codename \in S!Codenames
        /\ said.what = "syncSucceeded" =>
             clock[FirstModel[said.codename]] /\ FirstModel[said.codename] \in sAttached
SettingsInv == SettingsSwitches /\ SettingsDevices /\ SettingsClocked

LEMMA SettingsBegins == S!Init => SettingsInv
<1> SUFFICES ASSUME S!Init PROVE SettingsInv
  OBVIOUS
<1>1. SettingsSwitches
  BY DEF S!Init, SettingsSwitches
<1>2. S!Vendor \in SettingsSettings
  BY DEF S!Vendor, SettingsSettings
<1> HIDE DEF SettingsSettings
<1>3. SettingsDevices
  BY <1>2, ModelsAssumption DEF S!Init, SettingsDevices, S!None
<1>4. SettingsClocked
  BY DEF S!Init, SettingsClocked
<1> QED
  BY <1>1, <1>3, <1>4 DEF SettingsInv

LEMMA SettingsSetsTheClock ==
  ASSUME NEW asked \in SUBSET S!Codenames, NEW done, SettingsInv, S!Pushed(asked, done),
         UNCHANGED <<said, sAttached>>
  PROVE  SettingsClocked'
BY ModelsAssumption DEF S!Pushed, SettingsInv, SettingsClocked

LEMMA SettingsSweepsTheClocks ==
  ASSUME NEW on, SettingsInv, S!Sweep(on), UNCHANGED <<said, sAttached>>
  PROVE  SettingsClocked'
<1>1. CASE UNCHANGED clock
  BY <1>1 DEF SettingsInv, SettingsClocked
<1>2. CASE \E done \in SUBSET listed : S!Pushed(listed, done)
  BY <1>2, SettingsSetsTheClock DEF SettingsInv, SettingsDevices
<1> QED
  BY <1>1, <1>2 DEF S!Sweep

LEMMA SettingsAsksTheCharge ==
  ASSUME NEW asked, NEW answers, SettingsInv, S!Queried(asked, answers)
  PROVE  known' \in [S!Codenames -> 0..S!None]
BY ModelsAssumption DEF S!Queried, SettingsInv, SettingsDevices, S!None

LEMMA SettingsHeldInRange ==
  ASSUME NEW n \in Nat, NEW lo \in Nat, NEW hi \in Nat, lo <= hi
  PROVE  S!Clamped(n, lo, hi) \in lo..hi
BY DEF S!Clamped

LEMMA SettingsStep == SettingsInv /\ [S!Next]_S!vars => SettingsInv'
<1> SUFFICES ASSUME SettingsInv, [S!Next]_S!vars PROVE SettingsInv'
  OBVIOUS
<1> USE DEF SettingsInv
<1>1. CASE S!SetEnumerator
  <2>1. SettingsClocked'
    BY <1>1, SettingsSweepsTheClocks DEF S!SetEnumerator, S!Reconcile, S!world
  <2> QED
    BY <1>1, <2>1 DEF S!SetEnumerator, S!Reconcile, S!battery, S!world, SettingsSwitches, SettingsDevices
<1>2. CASE S!PeriodicAutoSyncTick
  <2>1. SettingsClocked'
    BY <1>2, SettingsSweepsTheClocks DEF S!PeriodicAutoSyncTick, S!world
  <2> QED
    BY <1>2, <2>1 DEF S!PeriodicAutoSyncTick, S!battery, S!world, SettingsSwitches, SettingsDevices
<1>3. CASE S!PollAll
  <2>1. known' \in [S!Codenames -> 0..S!None]
    BY <1>3, SettingsAsksTheCharge DEF S!PollAll
  <2> QED
    BY <1>3, <2>1 DEF S!PollAll, S!syncing, S!world, SettingsSwitches, SettingsDevices, SettingsClocked
<1>4. CASE S!ListRefreshed
  <2>1. {Codename[r] : r \in sAttached} \subseteq S!Codenames
    BY DEF S!Codenames, SettingsDevices
  <2> QED
    BY <1>4, <2>1
       DEF S!ListRefreshed, S!syncing, S!battery, SettingsSwitches, SettingsDevices, SettingsClocked
<1>5. CASE S!Restart
  <2>1. {Codename[r] : r \in sAttached} \subseteq S!Codenames
    BY DEF S!Codenames, SettingsDevices
  <2>2. SettingsDevices'
    BY <1>5, <2>1 DEF S!Restart, SettingsDevices, S!None
  <2>3. SettingsSwitches' /\ SettingsClocked'
    BY <1>5 DEF S!Restart, SettingsSwitches, SettingsClocked
  <2> QED
    BY <2>2, <2>3
<1>6. ASSUME NEW on \in BOOLEAN, S!SetAutoSync(on) PROVE SettingsInv'
  <2>1. SettingsClocked'
    BY <1>6, SettingsSweepsTheClocks DEF S!SetAutoSync, S!Reconcile, S!world
  <2> QED
    BY <1>6, <2>1 DEF S!SetAutoSync, S!Reconcile, S!battery, S!world, SettingsSwitches, SettingsDevices
<1>7. ASSUME NEW on \in BOOLEAN, S!SetPollEnabled(on) PROVE SettingsInv'
  BY <1>7 DEF S!SetPollEnabled, S!syncing, S!world, SettingsSwitches, SettingsDevices, SettingsClocked
<1>8. ASSUME NEW c \in S!Codenames, S!SetSystemTimeOn(c) PROVE SettingsInv'
  <2>1. PICK done \in SUBSET {c} :
          /\ S!Pushed({c}, done)
          /\ said' = [what |-> IF done = {} THEN "syncFailed" ELSE "syncSucceeded", codename |-> c]
    BY <1>8 DEF S!SetSystemTimeOn
  <2>2. said'.codename = c /\ (said'.what = "syncSucceeded" => done = {c}) /\ UNCHANGED sAttached
    BY <1>8, <2>1 DEF S!SetSystemTimeOn, S!world
  <2>3. clock' \in [Models -> BOOLEAN] /\ (done = {c} => clock'[FirstModel[c]] /\ FirstModel[c] \in sAttached)
    BY <2>1, ModelsAssumption DEF S!Pushed, SettingsClocked
  <2>4. SettingsClocked'
    BY <2>2, <2>3 DEF SettingsClocked
  <2> QED
    BY <1>8, <2>4 DEF S!SetSystemTimeOn, S!battery, S!world, SettingsSwitches, SettingsDevices
<1>9. ASSUME NEW c \in S!Codenames, S!OnDeviceArrived(c) PROVE SettingsInv'
  <2>1. SettingsClocked'
    <3>1. CASE UNCHANGED clock
      BY <1>9, <3>1 DEF S!OnDeviceArrived, S!world, SettingsClocked
    <3>2. CASE \E done \in SUBSET {c} : S!Pushed({c}, done)
      BY <1>9, <3>2, SettingsSetsTheClock DEF S!OnDeviceArrived, S!world
    <3> QED
      BY <1>9, <3>1, <3>2 DEF S!OnDeviceArrived
  <2> QED
    BY <1>9, <2>1 DEF S!OnDeviceArrived, S!battery, S!world, SettingsSwitches, SettingsDevices
<1>10. ASSUME NEW c \in S!Codenames, S!QueryBattery(c) PROVE SettingsInv'
  <2>1. known' \in [S!Codenames -> 0..S!None]
    BY <1>10, SettingsAsksTheCharge DEF S!QueryBattery
  <2> QED
    BY <1>10, <2>1
       DEF S!QueryBattery, S!syncing, S!world, SettingsSwitches, SettingsDevices, SettingsClocked
<1>11. ASSUME NEW c \in S!Codenames, NEW n \in Requests, S!SetMode(c, n) PROVE SettingsInv'
  <2> DEFINE r == FirstModel[c]
  <2>1. r \in Models /\ S!Clamped(n, 0, 5) \in Nat
    BY SettingsHeldInRange, ModelsAssumption
  <2>2. kept' = kept \/ kept' = [kept EXCEPT ![r].fn = S!Clamped(n, 0, 5)]
    BY <1>11 DEF S!SetMode
  <2>3. kept' \in [Models -> SettingsSettings]
    BY <2>1, <2>2 DEF SettingsDevices, SettingsSettings
  <2> QED
    BY <1>11, <2>3
       DEF S!SetMode, S!syncing, S!battery, S!world, SettingsSwitches, SettingsDevices, SettingsClocked
<1>12. ASSUME NEW c \in S!Codenames, NEW n \in Requests, S!SetSettings(c, n) PROVE SettingsInv'
  <2> DEFINE r == FirstModel[c]
             s == [fn |-> S!Clamped(n, 0, 1), sleep |-> S!Clamped(n, 0, 255), level |-> S!ResponseLevel(n)]
  <2>1. r \in Models /\ n \in Nat
    BY ModelsAssumption
  <2>2. S!Clamped(n, 0, 1) \in 0..1 /\ S!Clamped(n, 0, 255) \in 0..255 /\ S!Clamped(n, 1, 5) \in 1..5
    BY <2>1 DEF S!Clamped
  <2>3. s \in SettingsSettings
    BY <2>2 DEF SettingsSettings, S!ResponseLevel
  <2>4. kept' = kept \/ kept' = [kept EXCEPT ![r] = s]
    BY <1>12 DEF S!SetSettings
  <2> HIDE DEF s
  <2>5. kept' \in [Models -> SettingsSettings]
    BY <2>1, <2>3, <2>4 DEF SettingsDevices
  <2> QED
    BY <1>12, <2>5
       DEF S!SetSettings, S!syncing, S!battery,
           S!world, SettingsSwitches, SettingsDevices, SettingsClocked
<1>13. ASSUME NEW r \in Models, S!Plug(r) PROVE SettingsInv'
  <2>1. Codename[r] \in S!Codenames
    BY DEF S!Codenames
  <2>2. SettingsClocked'
    BY <1>13, ModelsAssumption DEF S!Plug, SettingsClocked
  <2> QED
    BY <1>13, <2>1, <2>2
       DEF S!Plug, S!OnDeviceArrivedDebounced, S!battery, SettingsSwitches, SettingsDevices
<1>14. ASSUME NEW r \in Models, S!Unplug(r) PROVE SettingsInv'
  BY <1>14, ModelsAssumption DEF S!Unplug, S!battery, SettingsSwitches, SettingsDevices, SettingsClocked
<1>15. ASSUME NEW r \in Models, S!Drains(r) PROVE SettingsInv'
  BY <1>15 DEF S!Drains, S!syncing, S!battery, SettingsSwitches, SettingsDevices, SettingsClocked, S!None
<1>16. CASE UNCHANGED S!vars
  BY <1>16 DEF S!vars, SettingsSwitches, SettingsDevices, SettingsClocked
<1> QED
  BY <1>1, <1>2, <1>3, <1>4, <1>5, <1>6, <1>7, <1>8, <1>9, <1>10, <1>11, <1>12, <1>13, <1>14, <1>15, <1>16
     DEF S!Next

LEMMA SettingsFollows == SettingsInv => S!TypeOK /\ S!ServicesAreTrue
<1> SUFFICES ASSUME SettingsInv PROVE S!TypeOK /\ S!ServicesAreTrue
  OBVIOUS
<1>1. S!TypeOK
  BY DEF SettingsInv, SettingsDevices, S!TypeOK, SettingsSettings
<1>2. said.what = "syncSucceeded" => clock[FirstModel[said.codename]]
  BY DEF SettingsInv, SettingsClocked, S!Nothing
<1> QED
  BY <1>1, <1>2 DEF SettingsInv, SettingsSwitches, S!ServicesAreTrue

(* The timers run when their switches say so, before and after a restart, and *)
(* a clock that was said to be set is right until its device is gone          *)
(* (TimeSyncService, the battery and settings services), for any models.      *)
THEOREM ServicesAreAlwaysTrue == S!Spec => [](S!TypeOK /\ S!ServicesAreTrue)
BY SettingsBegins, SettingsStep, SettingsFollows, PTL DEF S!Spec

-----------------------------------------------------------------------------
(* HidTransport. The library is counted by the channels that were made, an    *)
(* open one holds an interface, and whatever was written to a channel with    *)
(* prefixed reports came unshifted.                                           *)
ChannelPackets == {<<67, 1>>, <<0, 5>>}
ChannelInv ==
  /\ made \subseteq Transports /\ library = Cardinality(made) /\ ready = (made # {})
  /\ tHandle \in [Transports -> 0..Len(Interfaces)]
  /\ \A t \in Transports : tHandle[t] # 0 => t \in made /\ tHandle[t] \in {1, T!Fits(t)}
  /\ tWire \in [Transports -> Seq(ChannelPackets \cup {<<5>>})]
  /\ \A t \in Prefixed : tWire[t] \in Seq(ChannelPackets)

LEMMA ChannelSmallest ==
  ASSUME NEW Some \in SUBSET Nat, Some # {}
  PROVE  \E i \in Some : \A j \in Some : i <= j
<1> DEFINE R == {ss \in Nat \X Nat : ss[1] < ss[2]}
<1>1. IsWellFoundedOn(R, Nat)
  BY NatLessThanWellFounded DEF OpToRel
<1>2. PICK x \in Some : \A y \in Some : <<y, x>> \notin R
  <2> HIDE DEF R
  <2> QED
    BY <1>1, WFMin
<1>3. \A y \in Some : ~(y < x)
  BY <1>2
<1> QED
  BY <1>3

LEMMA ChannelFitsAnInterface == ASSUME NEW t \in Transports PROVE T!Fits(t) \in 0..Len(Interfaces)
<1> DEFINE w == WantedInterface[t]
           strict == {i \in DOMAIN Interfaces : w.usage # 0 /\ Interfaces[i] = w}
           paged == {i \in DOMAIN Interfaces : Interfaces[i].page = w.page}
           Lowest(Some) == CHOOSE i \in Some : \A j \in Some : i <= j
<1>1. DOMAIN Interfaces = 1..Len(Interfaces) /\ Len(Interfaces) \in Nat
  BY TransportsAssumption
<1>2. ASSUME NEW Some \in SUBSET DOMAIN Interfaces, Some # {} PROVE Lowest(Some) \in 0..Len(Interfaces)
  <2>1. Some \in SUBSET Nat
    BY <1>1
  <2>2. \E i \in Some : \A j \in Some : i <= j
    BY <1>2, <2>1, ChannelSmallest
  <2>3. Lowest(Some) \in Some
    BY <2>2
  <2> QED
    BY <1>1, <2>3
<1>3. strict \in SUBSET DOMAIN Interfaces /\ paged \in SUBSET DOMAIN Interfaces
  OBVIOUS
<1>4. 0 \in 0..Len(Interfaces)
  BY <1>1
<1>5. T!Fits(t) = IF w.page = 0 THEN 0
                ELSE IF strict # {} THEN Lowest(strict) ELSE IF paged # {} THEN Lowest(paged) ELSE 0
  BY DEF T!Fits
<1> HIDE DEF strict, paged, Lowest, w
<1> QED
  BY <1>2, <1>3, <1>4, <1>5

LEMMA ChannelArrives ==
  ASSUME NEW t \in Transports, NEW packet \in ChannelPackets
  PROVE  /\ T!AtDevice(T!OnWire(t, packet)) \in ChannelPackets \cup {<<5>>}
         /\ t \in Prefixed => T!AtDevice(T!OnWire(t, packet)) \in ChannelPackets
<1>1. CASE t \in Prefixed
  <2>1. T!OnWire(t, packet) = <<0>> \o packet /\ packet \in Seq(Nat)
    <3>1. <<67, 1>> \in Seq(Nat) /\ <<0, 5>> \in Seq(Nat)
      OBVIOUS
    <3> QED
      BY <1>1, <3>1 DEF T!OnWire, T!Posix, ChannelPackets
  <2>2. <<0>> \o packet # <<>> /\ Head(<<0>> \o packet) = 0 /\ Tail(<<0>> \o packet) = packet
    BY <2>1
  <2> QED
    BY <2>1, <2>2 DEF T!AtDevice
<1>2. CASE t \notin Prefixed
  <2>1. T!OnWire(t, packet) = packet
    BY <1>2 DEF T!OnWire
  <2>2. CASE packet = <<67, 1>>
    BY <1>2, <2>1, <2>2 DEF T!AtDevice, ChannelPackets
  <2>3. CASE packet = <<0, 5>>
    <3>1. Tail(packet) = <<5>>
      BY <2>3
    <3> QED
      BY <1>2, <2>1, <2>3, <3>1 DEF T!AtDevice
  <2> QED
    BY <2>2, <2>3 DEF ChannelPackets
<1> QED
  BY <1>1, <1>2

LEMMA ChannelBegins == T!Init => ChannelInv
<1>1. 0 \in 0..Len(Interfaces) /\ Cardinality({}) = 0
  BY FS_EmptySet, TransportsAssumption
<1>2. <<>> \in Seq(ChannelPackets \cup {<<5>>}) /\ <<>> \in Seq(ChannelPackets)
  OBVIOUS
<1> QED
  BY <1>1, <1>2, TransportsAssumption DEF T!Init, ChannelInv

LEMMA ChannelCounts ==
  ASSUME ChannelInv
  PROVE  /\ IsFiniteSet(made) /\ Cardinality(made) \in Nat /\ (library = 0 <=> made = {})
         /\ \A t : Cardinality(made \cup {t}) = IF t \in made THEN library ELSE library + 1
         /\ \A t : Cardinality(made \ {t}) = IF t \in made THEN library - 1 ELSE library
<1>1. IsFiniteSet(made)
  BY TransportsAssumption, FS_Subset DEF ChannelInv
<1> QED
  BY <1>1, FS_CardinalityType, FS_EmptySet, FS_AddElement, FS_RemoveElement DEF ChannelInv

LEMMA ChannelStep == ChannelInv /\ [T!Next]_T!vars => ChannelInv'
<1> SUFFICES ASSUME ChannelInv, [T!Next]_T!vars PROVE ChannelInv'
  OBVIOUS
<1> DEFINE Handles == /\ tHandle \in [Transports -> 0..Len(Interfaces)]
                      /\ \A t \in Transports : tHandle[t] # 0 => t \in made /\ tHandle[t] \in {1, T!Fits(t)}
           Library == made \subseteq Transports /\ library = Cardinality(made) /\ ready = (made # {})
           Wire == /\ tWire \in [Transports -> Seq(ChannelPackets \cup {<<5>>})]
                   /\ \A t \in Prefixed : tWire[t] \in Seq(ChannelPackets)
<1>0. (Handles /\ Library /\ Wire) /\ (Handles' /\ Library' /\ Wire' => ChannelInv')
  BY DEF ChannelInv
<1>1. ASSUME NEW t \in Transports, T!MakeHidTransport(t) PROVE ChannelInv'
  <2>1. PICK ok \in BOOLEAN : /\ library > 0 => ok
                              /\ T!Acquire(ok) /\ made' = (IF ok THEN made \cup {t} ELSE made)
    BY <1>1 DEF T!MakeHidTransport
  <2>2. t \notin made /\ UNCHANGED <<tHandle, tWire>>
    BY <1>1 DEF T!MakeHidTransport
  <2>3. CASE ok
    <3>1. library' = library + 1 /\ ready' = TRUE
      <4>1. CASE library = 0
        BY <2>1, <2>3, <4>1 DEF T!Acquire
      <4>2. CASE library # 0
        <5>1. library' = library + 1 /\ UNCHANGED ready
          BY <2>1, <4>2 DEF T!Acquire
        <5>2. made # {}
          BY <4>2, ChannelCounts
        <5> QED
          BY <1>0, <5>1, <5>2
      <4> QED
        BY <4>1, <4>2
    <3> QED
      BY <1>0, <2>1, <2>2, <2>3, <3>1, ChannelCounts
  <2>4. CASE ~ok
    <3>1. library = 0
      BY <1>0, <2>1, <2>4, ChannelCounts
    <3>2. library' = library /\ ready' = FALSE
      BY <2>1, <2>4, <3>1 DEF T!Acquire
    <3> QED
      BY <1>0, <2>1, <2>2, <2>4, <3>1, <3>2, ChannelCounts
  <2> QED
    BY <2>3, <2>4
<1>2. ASSUME NEW t \in Transports, T!Destroyed(t) PROVE ChannelInv'
  <2>1. /\ t \in made /\ made' = made \ {t} /\ library' = library - 1 /\ ready' = (library > 1)
        /\ tHandle' = [tHandle EXCEPT ![t] = 0] /\ UNCHANGED tWire
    BY <1>2 DEF T!Destroyed
  <2>2. Cardinality(made') = library'
    BY <2>1, ChannelCounts
  <2>3. (library > 1) = (made' # {})
    <3>1. IsFiniteSet(made')
      BY <2>1, ChannelCounts, FS_RemoveElement
    <3>2. Cardinality(made') = 0 <=> made' = {}
      BY <3>1, FS_EmptySet
    <3> QED
      BY <1>0, <2>1, <2>2, <3>2, ChannelCounts
  <2>4. Handles'
    <3>1. Len(Interfaces) \in Nat /\ 0 \in 0..Len(Interfaces)
      BY TransportsAssumption
    <3>2. tHandle' \in [Transports -> 0..Len(Interfaces)]
      BY <1>0, <2>1, <3>1
    <3> QED
      BY <1>0, <2>1, <3>2
  <2> QED
    BY <1>0, <2>1, <2>2, <2>3, <2>4
<1>3. ASSUME NEW t \in Transports, T!Open(t) PROVE ChannelInv'
  <2>1. PICK h \in {T!Fits(t), 1, 0} : tHandle' = [tHandle EXCEPT ![t] = h]
    BY <1>3 DEF T!Open
  <2>2. t \in made /\ UNCHANGED <<made, library, ready, tWire>>
    BY <1>3 DEF T!Open
  <2>3. h \in 0..Len(Interfaces)
    BY ChannelFitsAnInterface, TransportsAssumption
  <2> QED
    BY <1>0, <2>1, <2>2, <2>3
<1>4. ASSUME NEW t \in Transports, T!Close(t) PROVE ChannelInv'
  <2>1. tHandle' = [tHandle EXCEPT ![t] = 0] /\ UNCHANGED <<made, library, ready, tWire>>
    BY <1>4 DEF T!Close
  <2>2. /\ tHandle' \in [Transports -> 0..Len(Interfaces)]
        /\ \A u \in Transports : tHandle'[u] \in {tHandle[u], 0}
    BY <1>0, <2>1, TransportsAssumption
  <2> QED
    BY <1>0, <2>1, <2>2
<1>5. ASSUME NEW t \in Transports, NEW packet \in ChannelPackets, T!Write(t, packet) PROVE ChannelInv'
  <2>1. UNCHANGED <<made, library, ready, tHandle>>
    BY <1>5 DEF T!Write
  <2>2. CASE UNCHANGED tWire
    BY <1>0, <2>1, <2>2
  <2>3. CASE tWire' = [tWire EXCEPT ![t] = Append(@, T!AtDevice(T!OnWire(t, packet)))]
    <3> DEFINE p == T!AtDevice(T!OnWire(t, packet))
    <3>1. p \in ChannelPackets \cup {<<5>>} /\ (t \in Prefixed => p \in ChannelPackets)
      BY ChannelArrives
    <3>2. tWire' = [tWire EXCEPT ![t] = Append(@, p)]
      BY <2>3
    <3> HIDE DEF p
    <3>3. tWire' \in [Transports -> Seq(ChannelPackets \cup {<<5>>})]
      BY <1>0, <3>1, <3>2
    <3>4. \A u \in Prefixed : tWire'[u] \in Seq(ChannelPackets)
      BY <1>0, <3>1, <3>2, TransportsAssumption
    <3> QED
      BY <1>0, <2>1, <3>3, <3>4
  <2> QED
    BY <1>5, <2>2, <2>3 DEF T!Write
<1>6. ASSUME NEW t \in Transports, NEW packet \in ChannelPackets, T!WriteFeature(t, packet) PROVE ChannelInv'
  BY <1>0, <1>6 DEF T!WriteFeature
<1>7. ASSUME NEW t \in Transports, NEW n \in {0, 2}, T!Read(t, n) PROVE ChannelInv'
  BY <1>0, <1>7 DEF T!Read
<1>8. CASE UNCHANGED T!vars
  BY <1>0, <1>8 DEF T!vars
<1> QED
  BY <1>1, <1>2, <1>3, <1>4, <1>5, <1>6, <1>7, <1>8 DEF T!Next, ChannelPackets

LEMMA ChannelFollows == ChannelInv => T!TypeOK /\ T!ChannelsAreTrue
<1> SUFFICES ASSUME ChannelInv PROVE T!TypeOK /\ T!ChannelsAreTrue
  OBVIOUS
<1>1. library \in Nat
  BY ChannelCounts DEF ChannelInv
<1>2. ASSUME NEW t \in Prefixed, NEW i \in DOMAIN tWire[t] PROVE tWire[t][i] \in ChannelPackets
  <2>1. tWire[t] \in Seq(ChannelPackets)
    BY DEF ChannelInv
  <2> QED
    BY <2>1
<1>3. T!Cardinality(made) = Cardinality(made)
  BY DEF T!Cardinality, Cardinality
<1> QED
  BY <1>1, <1>2, <1>3 DEF ChannelInv, T!TypeOK, T!ChannelsAreTrue, ChannelPackets

(* hid_init and hid_exit are balanced over the channels that exist, whatever  *)
(* fails, and an open channel has the interface it asked for or the first one *)
(* (HidTransport), for any interfaces.                                        *)
THEOREM ChannelsAreAlwaysTrue == T!Spec => [](T!TypeOK /\ T!ChannelsAreTrue)
BY ChannelBegins, ChannelStep, ChannelFollows, PTL DEF T!Spec

-----------------------------------------------------------------------------
(* ViaKeyboard. What a command that did not throw has left on the board: for a*)
(* macro, the reports put together again, but for the last byte of each full  *)
(* one.                                                                       *)
ViaBoards == [keys : [Positions -> Nat], saved : [Positions -> Nat], macro : Seq(Seq(Nat)),
              light : 0..255, late : Seq(Nat)]
ViaAsked ==
  \/ request.what \in {"none", "get", "light", "buffer", "version"}
  \/ /\ request.what = "set" /\ request.value[1] \in Positions
     /\ told[1] = "ok" => board.keys[request.value[1]] = request.value[2]
  \/ request.what = "save" /\ (told[1] = "ok" => board.saved = board.keys)
  \/ /\ request.what = "macro"
     /\ told[1] = "ok" => \A i \in DOMAIN request.value :
          (i - 1) % Chunk < Room => board.macro[(i - 1) \div Chunk + 1][((i - 1) % Chunk) + 1] = request.value[i]
ViaInv == board \in ViaBoards /\ told[1] \in {"ok", "thrown", "read"} /\ ViaAsked

LEMMA ViaNumbers ==
  /\ Chunk \in Nat /\ Chunk > 0 /\ Room \in Nat /\ Version \in Nat
  /\ \A c \in Codes : c \in 0..(V!Words - 1)
  /\ \A p \in Percents : p \in Nat
  /\ \A m \in Macros : m \in Seq(Nat)
BY ViaAssumption

LEMMA ViaBegins == V!Init => ViaInv
<1> SUFFICES ASSUME V!Init PROVE ViaInv
  OBVIOUS
<1>1. [p \in Positions |-> 0] \in [Positions -> Nat] /\ <<>> \in Seq(Seq(Nat)) /\ <<>> \in Seq(Nat) /\ 0 \in 0..255
  OBVIOUS
<1>2. board \in ViaBoards
  BY <1>1 DEF V!Init, ViaBoards
<1> QED
  BY <1>2 DEF V!Init, ViaInv, ViaAsked

LEMMA ViaAnswered ==
  ASSUME ViaInv, NEW answer \in Nat, V!Exchange(answer)
  PROVE  board' \in ViaBoards /\ told'[1] \in {"read", "thrown"} 
<1> DEFINE b == [board EXCEPT !.late = Tail(@ \o <<answer>>)]
           c == [board EXCEPT !.late = <<answer>>]
<1>1. board \in ViaBoards /\ board.late \in Seq(Nat)
  BY DEF ViaInv, ViaBoards
<1>2. Tail(board.late \o <<answer>>) \in Seq(Nat) /\ <<answer>> \in Seq(Nat)
  <2>1. <<answer>> \in Seq(Nat) /\ board.late \o <<answer>> \in Seq(Nat) /\ board.late \o <<answer>> # <<>>
    BY <1>1
  <2> QED
    BY <2>1
<1>3. b \in ViaBoards /\ c \in ViaBoards
  BY <1>1, <1>2 DEF ViaBoards
<1>4. board' \in {board, b, c}
  BY DEF V!Exchange
<1>5. told'[1] \in {"read", "thrown"}
  BY DEF V!Exchange, V!Thrown
<1> QED
  BY <1>1, <1>3, <1>4, <1>5

(* The reports of a macro, put together again.                                *)
LEMMA ViaWrittenInReports ==
  ASSUME NEW bytes \in Seq(Nat), NEW i \in 1..Len(bytes), (i - 1) % Chunk < Room
  PROVE  LET count == (Len(bytes) + Chunk - 1) \div Chunk
             end(j) == IF j * Chunk < Len(bytes) THEN j * Chunk ELSE Len(bytes)
             sent(j) == SubSeq(bytes, (j - 1) * Chunk + 1,
                               IF end(j) < (j - 1) * Chunk + Room THEN end(j) ELSE (j - 1) * Chunk + Room)
         IN  /\ (i - 1) \div Chunk + 1 \in 1..count
             /\ sent((i - 1) \div Chunk + 1)[((i - 1) % Chunk) + 1] = bytes[i]
<1> DEFINE count == (Len(bytes) + Chunk - 1) \div Chunk
           end(j) == IF j * Chunk < Len(bytes) THEN j * Chunk ELSE Len(bytes)
           top(j) == IF end(j) < (j - 1) * Chunk + Room THEN end(j) ELSE (j - 1) * Chunk + Room
           q == (i - 1) \div Chunk
           r == (i - 1) % Chunk
           n == Len(bytes)
           p == q * Chunk
<1>1. n \in Nat /\ i \in Nat /\ i - 1 \in Nat /\ i <= n /\ Chunk \in Nat /\ Chunk > 0 /\ Room \in Nat
  <2>1. Len(bytes) \in Nat
    OBVIOUS
  <2> QED
    BY <2>1, ViaNumbers
<1>2. q \in Nat /\ r \in Nat /\ r < Chunk /\ i - 1 = q * Chunk + r
  <2> DEFINE m == i - 1
  <2>1. m \in Nat /\ q = m \div Chunk /\ r = m % Chunk
    BY <1>1
  <2> HIDE DEF m
  <2>2. m \div Chunk \in Nat /\ m % Chunk \in Nat /\ m % Chunk < Chunk /\ m = (m \div Chunk) * Chunk + (m % Chunk)
    BY <1>1, <2>1
  <2> QED
    BY <2>1, <2>2 DEF m
<1>3. p \in Nat /\ (q + 1) * Chunk = p + Chunk /\ ((q + 1) - 1) * Chunk = p
  BY <1>1, <1>2
<1>4. q + 1 <= count
  <2>1. (q + 1) * Chunk <= n + Chunk - 1
    <3> HIDE DEF q, r, p
    <3> QED
      BY <1>1, <1>2, <1>3 DEF p
  <2>2. ASSUME NEW a \in Nat, NEW b \in Nat, b * Chunk <= a PROVE b <= a \div Chunk
    BY <1>1, <2>2
  <2> QED
    BY <1>1, <1>2, <2>1, <2>2
<1>5. count \in Nat
  BY <1>1
<1>6. end(q + 1) = (IF p + Chunk < n THEN p + Chunk ELSE n)
  BY <1>3
<1>7. i = p + r + 1
  BY <1>1, <1>2
<1> HIDE DEF q, r, n, p, count, end
<1>8. top(q + 1) = (IF end(q + 1) < p + Room THEN end(q + 1) ELSE p + Room)
  BY <1>3
<1>9. top(q + 1) \in Nat /\ top(q + 1) <= n /\ p + r + 1 <= top(q + 1)
  BY <1>1, <1>2, <1>3, <1>6, <1>7, <1>8 DEF r
<1>10. SubSeq(bytes, p + 1, top(q + 1))[r + 1] = bytes[p + 1 + (r + 1) - 1]
  <2> HIDE DEF top
  <2>1. p + 1 \in 1..(n + 1) /\ top(q + 1) \in 0..n /\ r + 1 \in 1..(top(q + 1) - (p + 1) + 1)
    BY <1>1, <1>2, <1>3, <1>9
  <2> QED
    BY <2>1 DEF n
<1>11. p + 1 + (r + 1) - 1 = i
  BY <1>2, <1>3, <1>7
<1>12. q + 1 \in 1..count
  BY <1>2, <1>4, <1>5
<1> QED
  BY <1>3, <1>10, <1>11, <1>12 DEF q, r, count, end

LEMMA ViaMacroSet == ASSUME ViaInv, NEW bytes \in Macros, V!SetMacro(bytes) PROVE ViaInv'
<1> DEFINE count == (Len(bytes) + Chunk - 1) \div Chunk
           end(j) == IF j * Chunk < Len(bytes) THEN j * Chunk ELSE Len(bytes)
           sent(j) == SubSeq(bytes, (j - 1) * Chunk + 1,
                             IF end(j) < (j - 1) * Chunk + Room THEN end(j) ELSE (j - 1) * Chunk + Room)
<1>1. PICK n \in 0..count : /\ board' = [board EXCEPT !.macro = [j \in 1..n |-> sent(j)]]
                            /\ IF n = count THEN V!Done ELSE V!Thrown
  BY DEF V!SetMacro
<1>2. request' = [what |-> "macro", value |-> bytes]
  BY DEF V!SetMacro, V!Command
<1>3. bytes \in Seq(Nat) /\ n \in Nat
  <2>1. bytes \in Seq(Nat) /\ Len(bytes) \in Nat /\ Chunk \in Nat /\ Chunk > 0
    BY ViaNumbers
  <2>2. count \in Nat
    BY <2>1
  <2> HIDE DEF count
  <2> QED
    BY <1>1, <2>1, <2>2
<1>4. \A j \in 1..n : sent(j) \in Seq(Nat)
  <2> SUFFICES ASSUME NEW j \in 1..n PROVE sent(j) \in Seq(Nat)
    OBVIOUS
  <2> DEFINE a == (j - 1) * Chunk
             top == IF end(j) < a + Room THEN end(j) ELSE a + Room
  <2>1. a \in Nat /\ j * Chunk \in Nat /\ Len(bytes) \in Nat /\ Room \in Nat
    <3>1. Chunk \in Nat /\ Room \in Nat /\ Len(bytes) \in Nat /\ j \in Nat /\ j - 1 \in Nat
      BY <1>3, ViaNumbers
    <3>2. \A x \in Nat, y \in Nat : x * y \in Nat
      OBVIOUS
    <3> QED
      BY <3>1, <3>2
  <2>2. end(j) \in Nat /\ end(j) <= Len(bytes)
    BY <2>1
  <2>3. top \in Nat /\ top <= Len(bytes)
    <3> HIDE DEF a, end
    <3> QED
      BY <2>1, <2>2
  <2> HIDE DEF a, top
  <2>4. SubSeq(bytes, a + 1, top) \in Seq(Nat)
    BY <1>3, <2>1, <2>3
  <2> QED
    BY <2>4 DEF a, top
<1>5. board' \in ViaBoards
  <2> DEFINE m == [j \in 1..n |-> sent(j)]
  <2> HIDE DEF sent
  <2>1. m \in Seq(Seq(Nat))
    BY <1>3, <1>4
  <2>2. board' = [board EXCEPT !.macro = m]
    BY <1>1 DEF sent
  <2> HIDE DEF m
  <2> QED
    BY <2>1, <2>2 DEF ViaInv, ViaBoards
<1>6. board'.macro = [j \in 1..n |-> sent(j)]
  <2> HIDE DEF sent
  <2> QED
    BY <1>1 DEF ViaInv, ViaBoards, sent
<1>7. CASE n # count
  BY <1>1, <1>2, <1>5, <1>7 DEF ViaInv, ViaAsked, V!Thrown
<1>8. CASE n = count
  <2>1. ASSUME NEW i \in DOMAIN bytes, (i - 1) % Chunk < Room
        PROVE  board'.macro[(i - 1) \div Chunk + 1][((i - 1) % Chunk) + 1] = bytes[i]
    <3>1. i \in 1..Len(bytes)
      BY <1>3
    <3>2. /\ (i - 1) \div Chunk + 1 \in 1..count
          /\ sent((i - 1) \div Chunk + 1)[((i - 1) % Chunk) + 1] = bytes[i]
      BY <1>3, <2>1, <3>1, ViaWrittenInReports
    <3> HIDE DEF sent, count
    <3> QED
      BY <1>6, <1>8, <3>2
  <2>2. ViaAsked'
    BY <1>2, <2>1 DEF ViaAsked
  <2> QED
    BY <1>1, <1>5, <1>8, <2>2 DEF ViaInv, V!Done
<1> QED
  BY <1>7, <1>8

LEMMA ViaStep == ViaInv /\ [V!Next]_V!vars => ViaInv'
<1> SUFFICES ASSUME ViaInv, [V!Next]_V!vars PROVE ViaInv'
  OBVIOUS
<1>0. board \in ViaBoards
  BY DEF ViaInv
<1>1. ASSUME NEW pos \in Positions, V!Keycode(pos) PROVE ViaInv'
  <2>1. board.keys[pos] \in Nat
    BY DEF ViaInv, ViaBoards
  <2> QED
    BY <1>1, <2>1, ViaAnswered DEF V!Keycode, V!Command, ViaInv, ViaAsked
<1>2. ASSUME NEW pos \in Positions, NEW code \in Codes, V!SetKeycode(pos, code) PROVE ViaInv'
  <2>1. code % V!Words = code /\ code \in Nat
    <3>1. code \in 0..(V!Words - 1)
      BY ViaNumbers
    <3>2. V!Words \in Nat /\ V!Words > 0
      BY DEF V!Words
    <3> QED
      BY <3>1, <3>2
  <2>2. request' = [what |-> "set", value |-> <<pos, code>>]
    BY <1>2 DEF V!SetKeycode, V!Command
  <2>3. CASE board' = [board EXCEPT !.keys[pos] = code % V!Words] /\ V!Done
    <3>1. board' = [board EXCEPT !.keys[pos] = code]
      BY <2>1, <2>3
    <3>2. [board.keys EXCEPT ![pos] = code] \in [Positions -> Nat] /\ board.keys \in [Positions -> Nat]
      BY <1>0, <2>1 DEF ViaBoards
    <3>3. board' \in ViaBoards
      BY <1>0, <3>1, <3>2 DEF ViaBoards
    <3>4. board'.keys = [board.keys EXCEPT ![pos] = code]
      BY <1>0, <3>1 DEF ViaBoards
    <3>5. board'.keys[pos] = code
      BY <3>2, <3>4
    <3> QED
      BY <2>2, <2>3, <3>3, <3>5 DEF ViaInv, ViaAsked, V!Done
  <2>4. CASE V!Thrown /\ UNCHANGED board
    BY <1>0, <2>2, <2>4 DEF ViaInv, ViaAsked, V!Thrown
  <2> QED
    BY <1>2, <2>3, <2>4 DEF V!SetKeycode
<1>3. ASSUME NEW percent \in Percents, V!SetRgbBrightness(percent) PROVE ViaInv'
  <2>1. ((percent * 255) \div 100) % 256 \in 0..255
    <3>0. percent \in Nat
      BY ViaNumbers
    <3>1. (percent * 255) \div 100 \in Nat
      BY <3>0
    <3> QED
      BY <3>1
  <2>2. board' \in ViaBoards
    <3> DEFINE l == ((percent * 255) \div 100) % 256
    <3>1. board' = board \/ board' = [board EXCEPT !.light = l]
      BY <1>3 DEF V!SetRgbBrightness
    <3>2. l \in 0..255
      BY <2>1
    <3> HIDE DEF l
    <3> QED
      BY <1>0, <3>1, <3>2 DEF ViaBoards
  <2> QED
    BY <1>3, <2>2 DEF V!SetRgbBrightness, V!Command, ViaInv, ViaAsked, V!Done, V!Thrown
<1>4. CASE V!Commit
  <2>1. request'.what = "save"
    BY <1>4 DEF V!Commit, V!Command
  <2>2. CASE board' = [board EXCEPT !.saved = board.keys] /\ V!Done
    <3>1. board' \in ViaBoards /\ board'.saved = board'.keys
      BY <1>0, <2>2 DEF ViaBoards
    <3> QED
      BY <2>1, <2>2, <3>1 DEF ViaInv, ViaAsked, V!Done
  <2> QED
    BY <1>0, <1>4, <2>1, <2>2 DEF V!Commit, ViaInv, ViaAsked, V!Thrown
<1>5. CASE V!SetRgbBuffer
  BY <1>0, <1>5 DEF V!SetRgbBuffer, V!Command, ViaInv, ViaAsked, V!Thrown
<1>6. CASE V!FirmwareVersion
  BY <1>6, ViaAnswered, ViaNumbers DEF V!FirmwareVersion, V!Command, ViaInv, ViaAsked
<1>7. CASE V!PowerCut
  <2>1. board' \in ViaBoards
    BY <1>0, <1>7 DEF V!PowerCut, ViaBoards
  <2> QED
    BY <1>7, <2>1 DEF V!PowerCut, ViaInv, ViaAsked, V!Done
<1>8. CASE UNCHANGED V!vars
  BY <1>8 DEF V!vars, ViaInv, ViaAsked
<1> QED
  BY <1>1, <1>2, <1>3, <1>4, <1>5, <1>6, <1>7, <1>8, ViaMacroSet DEF V!Next

LEMMA ViaFollows == ViaInv => V!TypeOK /\ V!ReportIsTrue
<1> SUFFICES ASSUME ViaInv PROVE V!TypeOK /\ V!ReportIsTrue
  OBVIOUS
<1>1. V!TypeOK
  BY DEF ViaInv, ViaBoards, V!TypeOK
<1>2. V!ReportIsTrue
  BY DEF ViaInv, ViaAsked, V!ReportIsTrue
<1> QED
  BY <1>1, <1>2

(* What a command of the VIA keyboard did not throw, the board has            *)
(* (ViaKeyboard), for any codes and macros and any size of report.            *)
THEOREM ReportIsAlwaysTrue == V!Spec => [](V!TypeOK /\ V!ReportIsTrue)
BY ViaBegins, ViaStep, ViaFollows, PTL DEF V!Spec

-----------------------------------------------------------------------------
(* ObsClient. Before OBS has identified the client exactly one frame is under *)
(* way, its Hello or the client's Identify, and the Identify carries a        *)
(* password whenever OBS wants one; afterwards there are only requests and    *)
(* their answers.                                                             *)
ObsRequests == {[op |-> "Request", auth |-> NoPassword]}
ObsAnswers == [op : {"Identified", "Response"}, auth : {FALSE}]

ObsGreeted ==
  /\ oToObs = <<>>
  /\ \E auth \in BOOLEAN : /\ oToClient = <<[op |-> "Hello", auth |-> auth]>>
                           /\ oObs # O!Down => auth = (oObs # NoPassword)
ObsAnswered ==
  /\ oToClient = <<>>
  /\ \E auth \in O!Secrets : /\ oToObs = <<[op |-> "Identify", auth |-> auth]>>
                             /\ auth = NoPassword => oObs \in {NoPassword, O!Down}
ObsLinkInv ==
  /\ oLink # "up" => oToClient = <<>> /\ oToObs = <<>> /\ oWelcome = "new"
  /\ oLink = "up" /\ oWelcome = "new" => ObsGreeted \/ ObsAnswered
  /\ oLink = "up" /\ oWelcome = "identified" => oToObs \in Seq(ObsRequests) /\ oToClient \in Seq(ObsAnswers)
ObsClientInv ==
  /\ oLink # "none" => oState # "Disconnected"
  /\ oLink = "opening" \/ (oLink = "up" /\ oWelcome = "new") => oState = "Connecting"
ObsInv == O!TypeOK /\ O!HandshakeIsKept /\ ObsLinkInv /\ ObsClientInv

LEMMA ObsSingleton ==
  ASSUME NEW x
  PROVE  Head(<<x>>) = x /\ Tail(<<x>>) = <<>> /\ Append(<<>>, x) = <<x>> /\ <<x>> # <<>> /\ Len(<<x>>) = 1
OBVIOUS

LEMMA ObsCleared ==
  ASSUME NEW l \in {"none", "opening"}, O!NewLink(l)
  PROVE  Len(oToObs') + Len(oToClient') <= MaxFrames + 1 /\ oToObs' = <<>> /\ oToClient' = <<>>
         /\ oLink' = l /\ oWelcome' = "new"
<1>1. oToObs' = <<>> /\ oToClient' = <<>> /\ oLink' = l /\ oWelcome' = "new"
  BY DEF O!NewLink
<1>2. Len(<<>>) = 0 /\ 0 + 0 <= MaxFrames + 1
  BY ObsAssumption
<1> QED
  BY <1>1, <1>2

LEMMA ObsBegins == O!Init => ObsInv
<1> SUFFICES ASSUME O!Init PROVE ObsInv
  OBVIOUS
<1>1. Len(<<>>) = 0 /\ 0 + 0 <= MaxFrames + 1
  BY ObsAssumption
<1>2. oToObs = <<>> /\ oToClient = <<>> /\ oLink = "none" /\ oWelcome = "new"
  BY DEF O!Init
<1>3. Len(oToObs) + Len(oToClient) <= MaxFrames + 1
  BY <1>1, <1>2
<1>4. {oConnected, oAuthFailed, oRefused} \subseteq BOOLEAN
  BY DEF O!Init
<1> QED
  BY <1>2, <1>3, <1>4 DEF O!Init, ObsInv, O!TypeOK, O!HandshakeIsKept, ObsLinkInv, ObsClientInv, O!Secrets

LEMMA ObsPressed == ASSUME ObsInv, O!Press PROVE ObsInv'
<1> DEFINE lazy == ~oConnected /\ ~oAuthFailed /\ oState = "Disconnected"
<1>1. UNCHANGED <<oSetting, oConnected, oAuthFailed, oObs, oRefused>>
      /\ Len(oToObs) + Len(oToClient) < MaxFrames
  BY DEF O!Press
<1>2. CASE lazy
  <2>1. oPassword' = oSetting /\ oState' = "Connecting" /\ O!NewLink("opening")
    BY <1>2 DEF O!Press
  <2> QED
    BY <1>1, <1>2, <2>1, ObsAssumption
       DEF ObsInv, O!TypeOK, O!HandshakeIsKept, ObsLinkInv, ObsClientInv, O!NewLink
<1>3. CASE ~lazy
  <2>1. O!SendRequest /\ UNCHANGED <<oPassword, oState, oLink, oToClient, oWelcome>>
    BY <1>3 DEF O!Press
  <2>2. CASE oToObs' = oToObs
    BY <1>1, <2>1, <2>2
       DEF ObsInv, O!TypeOK, O!HandshakeIsKept, ObsLinkInv, ObsClientInv, ObsGreeted, ObsAnswered
  <2>3. CASE oToObs' # oToObs
    <3> DEFINE r == [op |-> "Request", auth |-> NoPassword]
    <3>1. oLink = "up" /\ oState = "Identified" /\ oToObs' = Append(oToObs, r)
      BY <2>1, <2>3 DEF O!SendRequest, O!SendTextMessage
    <3>2. /\ oWelcome = "identified" /\ oToObs \in Seq(ObsRequests) /\ r \in ObsRequests
          /\ oToClient \in Seq(ObsAnswers)
      BY <3>1 DEF ObsInv, O!HandshakeIsKept, ObsLinkInv, ObsRequests, O!TypeOK
    <3> HIDE DEF r
    <3>3. /\ oToObs' \in Seq(ObsRequests) /\ Len(oToObs') = Len(oToObs) + 1
          /\ Len(oToObs) \in Nat /\ Len(oToClient) \in Nat
      BY <3>1, <3>2
    <3>4. Len(oToObs') + Len(oToClient') <= MaxFrames + 1
      BY <1>1, <2>1, <3>3, ObsAssumption
    <3> QED
      BY <1>1, <2>1, <3>1, <3>2, <3>3, <3>4
         DEF ObsInv, O!TypeOK, O!HandshakeIsKept, ObsLinkInv, ObsClientInv
  <2> QED
    BY <2>2, <2>3
<1> QED
  BY <1>2, <1>3

LEMMA ObsReceived == ASSUME ObsInv, O!OnTextMessageReceived PROVE ObsInv'
<1>1. /\ oLink = "up" /\ oToClient # <<>> /\ UNCHANGED <<oSetting, oObs, oRefused>>
      /\ oWelcome \in {"new", "identified"}
  BY DEF O!OnTextMessageReceived, ObsInv, O!TypeOK
<1>2. CASE oWelcome = "new"
  <2>1. ObsGreeted
    BY <1>1, <1>2 DEF ObsInv, ObsLinkInv, ObsAnswered
  <2>2. PICK auth \in BOOLEAN : /\ oToClient = <<[op |-> "Hello", auth |-> auth]>> /\ oToObs = <<>>
                                /\ oObs # O!Down => auth = (oObs # NoPassword)
    BY <2>1 DEF ObsGreeted
  <2>3. Head(oToClient).op = "Hello" /\ Head(oToClient).auth = auth /\ Tail(oToClient) = <<>>
    BY <2>2, ObsSingleton
  <2>4. \/ O!Refuses
        \/ oToClient' = <<>> /\ \E a \in O!Secrets : O!Identify(a) /\ (a = NoPassword => ~auth)
    BY <2>3 DEF O!OnTextMessageReceived, ObsInv, O!TypeOK, O!Secrets
  <2>5. CASE O!Refuses
    BY <1>1, <1>2, <2>5, ObsCleared
       DEF O!Refuses, ObsInv, O!TypeOK, O!HandshakeIsKept, ObsLinkInv, ObsClientInv
  <2>6. ASSUME NEW a \in O!Secrets, O!Identify(a), a = NoPassword => ~auth, oToClient' = <<>> PROVE ObsInv'
    <3> DEFINE f == [op |-> "Identify", auth |-> a]
    <3>1. oToObs' = <<f>> /\ UNCHANGED <<O!client, oLink, oWelcome>>
      BY <1>1, <2>2, <2>6, ObsSingleton DEF O!Identify, O!SendTextMessage
    <3>2. Len(oToObs') = 1 /\ Len(oToClient') = 0
      BY <2>6, <3>1
    <3>3. ObsAnswered'
      BY <1>1, <2>2, <2>6, <3>1 DEF ObsAnswered
    <3> HIDE DEF f
    <3>4. Len(oToObs') + Len(oToClient') <= MaxFrames + 1
      BY <3>2, ObsAssumption
    <3> QED
      BY <1>1, <1>2, <3>1, <3>3, <3>4
         DEF ObsInv, O!TypeOK, O!HandshakeIsKept, ObsLinkInv, ObsClientInv, O!client
  <2> QED
    BY <2>4, <2>5, <2>6
<1>3. CASE oWelcome = "identified"
  <2>1. oToObs \in Seq(ObsRequests) /\ oToClient \in Seq(ObsAnswers)
    BY <1>1, <1>3 DEF ObsInv, ObsLinkInv
  <2>2. /\ Head(oToClient) \in ObsAnswers /\ Tail(oToClient) \in Seq(ObsAnswers)
        /\ Len(Tail(oToClient)) = Len(oToClient) - 1
    BY <1>1, <2>1
  <2>3. /\ oToClient' = Tail(oToClient) /\ UNCHANGED <<oPassword, oLink, oToObs, oWelcome>>
        /\ \/ UNCHANGED O!client
           \/ oState' = "Identified" /\ oConnected' = TRUE /\ oAuthFailed' = FALSE
    BY <2>2 DEF O!OnTextMessageReceived, ObsAnswers, O!client
  <2>4. Len(oToObs') + Len(oToClient') <= MaxFrames + 1
    <3>1. Len(oToObs) \in Nat /\ Len(oToClient) \in Nat /\ Len(oToObs) + Len(oToClient) <= MaxFrames + 1
      BY <2>1 DEF ObsInv, O!TypeOK
    <3> QED
      BY <2>2, <2>3, <3>1, ObsAssumption
  <2>5. ObsLinkInv'
    BY <1>1, <1>3, <2>1, <2>2, <2>3 DEF ObsLinkInv
  <2>6. oState' \in {"Identified", oState} /\ oConnected' \in BOOLEAN /\ oAuthFailed' \in BOOLEAN
        /\ (oConnected' <=> oState' = "Identified") /\ (oAuthFailed' => ~oConnected' /\ oLink' = "none")
    <3>1. {oConnected, oAuthFailed} \subseteq BOOLEAN /\ (oConnected <=> oState = "Identified")
          /\ (oAuthFailed => ~oConnected /\ oLink = "none") /\ UNCHANGED oLink
      BY <1>1, <2>3 DEF ObsInv, O!TypeOK, O!HandshakeIsKept
    <3>2. CASE UNCHANGED O!client
      BY <3>1, <3>2 DEF O!client
    <3>3. CASE oState' = "Identified" /\ oConnected' = TRUE /\ oAuthFailed' = FALSE
      BY <3>3
    <3> QED
      BY <2>3, <3>2, <3>3
  <2> QED
    BY <1>1, <1>3, <2>3, <2>4, <2>5, <2>6 DEF ObsInv, O!TypeOK, O!HandshakeIsKept, ObsClientInv
<1> QED
  BY <1>1, <1>2, <1>3

LEMMA ObsRead == ASSUME ObsInv, O!ObsReads PROVE ObsInv'
<1> DEFINE frame == Head(oToObs)
<1> DEFINE good == frame.op = "Identify" /\ oWelcome = "new" /\ (oObs # NoPassword => frame.auth = oObs)
<1> DEFINE due == frame.op = "Request" /\ oWelcome = "identified"
<1>1. oLink = "up" /\ oToObs # <<>> /\ oObs # O!Down /\ UNCHANGED <<oSetting, O!client, oObs>>
      /\ oWelcome \in {"new", "identified"}
  BY DEF O!ObsReads, ObsInv, O!TypeOK
<1>2. CASE oWelcome = "new"
  <2>1. ObsAnswered
    BY <1>1, <1>2 DEF ObsInv, ObsLinkInv, ObsGreeted
  <2>2. PICK auth \in O!Secrets : /\ oToObs = <<[op |-> "Identify", auth |-> auth]>> /\ oToClient = <<>>
                                  /\ auth = NoPassword => oObs = NoPassword
    BY <1>1, <2>1 DEF ObsAnswered
  <2> DEFINE identify == [op |-> "Identify", auth |-> auth]
  <2>3. frame.op = "Identify" /\ frame.auth = auth /\ Tail(oToObs) = <<>>
    <3>1. identify.op = "Identify" /\ identify.auth = auth
      OBVIOUS
    <3>2. oToObs = <<identify>>
      BY <2>2
    <3> HIDE DEF identify
    <3>3. frame = identify /\ Tail(oToObs) = <<>>
      BY <3>2, ObsSingleton
    <3> QED
      BY <3>1, <3>3
  <2>4. CASE good
    <3> DEFINE f == [op |-> "Identified", auth |-> FALSE]
    <3>1. oWelcome' = "identified" /\ oToClient' = <<f>> /\ oToObs' = <<>> /\ UNCHANGED <<oLink, oRefused>>
      <4>1. /\ oWelcome' = "identified" /\ oToClient' = Append(oToClient, f) /\ oToObs' = Tail(oToObs)
            /\ UNCHANGED <<oLink, oRefused>>
        BY <2>4 DEF O!ObsReads
      <4> HIDE DEF f
      <4>2. oToClient = <<>>
        BY <2>2
      <4> QED
        BY <2>3, <4>1, <4>2, ObsSingleton
    <3>2. f \in ObsAnswers
      BY DEF ObsAnswers
    <3> HIDE DEF f
    <3>3. /\ oToClient' \in Seq(ObsAnswers) /\ oToObs' \in Seq(ObsRequests)
          /\ Len(oToObs') + Len(oToClient') <= MaxFrames + 1
      BY <3>1, <3>2, ObsAssumption
    <3> QED
      BY <1>1, <1>2, <3>1, <3>3
         DEF ObsInv, O!TypeOK, O!HandshakeIsKept, ObsLinkInv, ObsClientInv, O!client
  <2>5. CASE ~good
    <3>1. O!NewLink("none") /\ oRefused' = (oRefused \/ frame.op = "Request" \/ frame.auth = NoPassword)
      BY <1>2, <2>5 DEF O!ObsReads
    <3>2. frame.auth # NoPassword
      <4>1. ~(oObs # NoPassword => frame.auth = oObs)
        BY <1>2, <2>3, <2>5
      <4> HIDE DEF frame
      <4> QED
        BY <2>2, <2>3, <4>1
    <3>3. oRefused' = FALSE
      BY <2>3, <3>1, <3>2 DEF ObsInv, O!HandshakeIsKept
    <3>4. Len(oToObs') + Len(oToClient') <= MaxFrames + 1 /\ oToObs' = <<>> /\ oToClient' = <<>>
          /\ oLink' = "none" /\ oWelcome' = "new"
      BY <3>1, ObsCleared
    <3> QED
      BY <1>1, <1>2, <3>3, <3>4
         DEF ObsInv, O!TypeOK, O!HandshakeIsKept, ObsLinkInv, ObsClientInv, O!client
  <2> QED
    BY <2>4, <2>5
<1>3. CASE oWelcome = "identified"
  <2>1. oToObs \in Seq(ObsRequests) /\ oToClient \in Seq(ObsAnswers)
    BY <1>1, <1>3 DEF ObsInv, ObsLinkInv
  <2>2. frame \in ObsRequests /\ Tail(oToObs) \in Seq(ObsRequests) /\ Len(Tail(oToObs)) = Len(oToObs) - 1
    BY <1>1, <2>1
  <2>3. due
    BY <1>3, <2>2 DEF ObsRequests
  <2> DEFINE f == [op |-> "Response", auth |-> FALSE]
  <2>4. oToClient' = Append(oToClient, f) /\ oToObs' = Tail(oToObs) /\ UNCHANGED <<oLink, oWelcome, oRefused>>
    BY <2>3 DEF O!ObsReads
  <2>5. f \in ObsAnswers
    BY DEF ObsAnswers
  <2> HIDE DEF f
  <2>6. /\ oToClient' \in Seq(ObsAnswers) /\ Len(oToClient') = Len(oToClient) + 1
        /\ Len(oToClient) \in Nat /\ Len(oToObs) \in Nat
    BY <2>1, <2>4, <2>5
  <2>7. Len(oToObs') + Len(oToClient') <= MaxFrames + 1
    BY <2>2, <2>4, <2>6, ObsAssumption DEF ObsInv, O!TypeOK
  <2> QED
    BY <1>1, <1>3, <2>2, <2>4, <2>6, <2>7
       DEF ObsInv, O!TypeOK, O!HandshakeIsKept, ObsLinkInv, ObsClientInv, O!client
<1> QED
  BY <1>1, <1>2, <1>3

LEMMA ObsStep == ObsInv /\ [O!Next]_O!vars => ObsInv'
<1> SUFFICES ASSUME ObsInv, [O!Next]_O!vars PROVE ObsInv'
  OBVIOUS
<1> USE DEF ObsInv, O!TypeOK, O!HandshakeIsKept, ObsLinkInv, ObsClientInv
<1>1. CASE O!OnSocketError
  BY <1>1, ObsCleared DEF O!OnSocketError
<1>2. CASE O!ChangeSettings
  BY <1>2 DEF O!ChangeSettings, O!client, O!wire, ObsGreeted, ObsAnswered
<1>3. CASE O!Accept
  <2> DEFINE f == [op |-> "Hello", auth |-> oObs # NoPassword]
  <2>1. /\ oLink = "opening" /\ oLink' = "up" /\ oToClient' = <<f>> /\ oToObs = <<>> /\ oToObs' = <<>>
        /\ UNCHANGED <<oSetting, O!client, oWelcome, oObs, oRefused>>
    BY <1>3 DEF O!Accept
  <2>2. ObsGreeted'
    BY <2>1 DEF ObsGreeted
  <2> HIDE DEF f
  <2>3. Len(oToObs') + Len(oToClient') <= MaxFrames + 1
    BY <2>1, ObsAssumption
  <2>4. oWelcome = "new"
    BY <2>1
  <2> QED
    BY <2>1, <2>2, <2>3, <2>4 DEF O!client
<1>4. ASSUME NEW cleanly \in BOOLEAN, O!Quits(cleanly) PROVE ObsInv'
  <2>1. CASE cleanly /\ oLink = "up"
    BY <1>4, <2>1, ObsCleared DEF O!Quits, O!client
  <2>2. CASE ~(cleanly /\ oLink = "up")
    <3>1. UNCHANGED O!wire /\ UNCHANGED <<oSetting, O!client, oRefused>> /\ oObs' = O!Down
      BY <1>4, <2>2 DEF O!Quits
    <3> QED
      BY <3>1 DEF O!wire, O!client, ObsGreeted, ObsAnswered
  <2> QED
    BY <2>1, <2>2
<1>5. CASE O!Starts
  BY <1>5 DEF O!Starts, O!client, O!wire
<1>6. CASE UNCHANGED O!vars
  BY <1>6 DEF O!vars, O!client, O!wire, ObsGreeted, ObsAnswered
<1> QED
  BY <1>1, <1>2, <1>3, <1>4, <1>5, <1>6, ObsPressed, ObsReceived, ObsRead DEF O!Next

(* OBS sees no request before it has let the client in and no Identify without*)
(* the password it asked for, and the action and the client agree whether they*)
(* are connected (ObsClient), for any passwords and restarts of OBS.          *)
THEOREM HandshakeIsAlwaysKept == O!Spec => [](O!TypeOK /\ O!HandshakeIsKept)
<1>1. ObsInv => O!TypeOK /\ O!HandshakeIsKept
  BY DEF ObsInv
<1> QED
  BY <1>1, ObsBegins, ObsStep, PTL DEF O!Spec
-----------------------------------------------------------------------------
(* Sidecar. Beside what is promised: what the host has in its map and how many*)
(* tasks read a dock, which its list bounds; that it says it is ready after   *)
(* the last dock, so that the backend addresses a dock of the map; and that a *)
(* command and an event that wait in a pipe are already right, of a key and   *)
(* of its slot.                                                               *)
HostKeyNumbers == 1..HostedKeys
HostLines == [event : {"connected", "ready", "ok", "error", "device_error", "input"}, of : Serials \cup {B!None},
          code : Nat, state : 0..1, slot : 0..15]
HostGoodLine(l, names) ==
  /\ l.event = "connected" => l.of \in Serials /\ l.of \in names
  /\ l.event = "input" => l.slot = 0 \/ (l.code \in 1..15 /\ B!UiIndexToSlot[l.code] = l.slot)
HostOrders == {c \in [cmd : {"set_image", "set_brightness", "keep_alive"}, serial : Serials \cup {B!None}, key : Int,
                  zone : BOOLEAN, of : Int] :
             c.cmd = "set_image" /\ ~c.zone => c.of \in HostKeyNumbers /\ c.key = B!HwKey(c.of)}

(* The host's map and its readers. *)
HostDocksInv ==
  /\ bus \subseteq Serials /\ bTodo \subseteq Serials /\ bStale \subseteq Serials
  /\ bChild \in {B!None, "listing", "opening", "serving", "ended"}
  /\ DOMAIN entries \subseteq Serials \cup {B!Alias} /\ (entries = <<>> \/ DOMAIN entries # {})
  /\ \A s \in DOMAIN entries : entries[s] \in [dock : Serials, native : BOOLEAN]
  /\ readers \in [Serials -> Nat] /\ \A d \in Serials : readers[d] + Cardinality(bTodo) <= Cardinality(Serials)
  /\ bChild \in {B!None, "listing"} => readers = B!NoReaders /\ DOMAIN entries = {} /\ stdout = <<>>

(* What is in the pipes. *)
HostPipeInv ==
  /\ stdin \in Seq(HostOrders) /\ Len(stdin) <= MaxWrites
  /\ stdout \in Seq(HostLines) /\ Len(stdout) <= MaxLines + Cardinality(Serials)
  /\ \A i \in DOMAIN stdout : HostGoodLine(stdout[i], DOMAIN entries)
  /\ eof \in BOOLEAN

HostConnecting(q) == \E i \in DOMAIN q : q[i].event = "connected"
(* After its last dock the host says it is ready, and nothing of docks afterwards. *)
HostReadyInv ==
  /\ bPhase \in {"closed", "opening", "open", "closing"} /\ {bRunning, bReady} \subseteq BOOLEAN
  /\ bSerial \in Serials \cup {B!None}
  /\ DOMAIN entries # {} => HostConnecting(stdout) \/ bSerial \in DOMAIN entries
  /\ bReady => bChild \in {"serving", "ended"} /\ ~HostConnecting(stdout)
  /\ \A i \in DOMAIN stdout : stdout[i].event = "ready" =>
       /\ bChild \in {"serving", "ended"}
       /\ \A j \in DOMAIN stdout : i < j => stdout[j].event # "connected"
  /\ \A i \in DOMAIN stdin : bReady /\ stdin[i].serial = bSerial

HostPictureInv ==
  /\ \A p \in lit : p.key \in HostKeyNumbers /\ p.slot = B!UiIndexToSlot[B!HwKey(p.key) + 1]
  /\ \A h \in bHeard : h.slot = 0 \/ (h.event.index \in 1..15 /\ B!UiIndexToSlot[h.event.index] = h.slot)

HostInv == HostDocksInv /\ HostPipeInv /\ HostReadyInv /\ HostPictureInv
LEMMA HostFinite ==
  ASSUME NEW X \in SUBSET Serials
  PROVE  /\ IsFiniteSet(X) /\ Cardinality(X) \in Nat /\ Cardinality(X) <= Cardinality(Serials)
         /\ \A d \in X : Cardinality(X \ {d}) = Cardinality(X) - 1
         /\ Cardinality(Serials) \in Nat
BY HostAssumption, FS_Subset, FS_CardinalityType, FS_RemoveElement

LEMMA HostBegins == B!Init => HostInv
<1> SUFFICES ASSUME B!Init PROVE HostInv
  OBVIOUS
<1>1. Cardinality({}) = 0 /\ Cardinality(Serials) \in Nat
  BY HostFinite, FS_EmptySet
<1>2. stdin = <<>> /\ stdout = <<>> /\ entries = <<>>
  BY DEF B!Init
<1>3. HostDocksInv
  BY <1>1, <1>2 DEF B!Init, HostDocksInv, B!NoReaders
<1>4. HostPipeInv
  <2>1. Len(<<>>) = 0 /\ DOMAIN <<>> = {} /\ <<>> \in Seq(HostOrders) /\ <<>> \in Seq(HostLines)
    OBVIOUS
  <2>2. 0 <= MaxWrites /\ 0 <= MaxLines + Cardinality(Serials)
    BY <1>1, HostAssumption
  <2> QED
    BY <1>2, <2>1, <2>2 DEF B!Init, HostPipeInv
<1>5. HostReadyInv
  <2>1. DOMAIN <<>> = {}
    OBVIOUS
  <2>2. DOMAIN stdin = {} /\ DOMAIN stdout = {} /\ DOMAIN entries = {}
    BY <1>2, <2>1
  <2> QED
    BY <2>2 DEF B!Init, HostReadyInv
<1>6. HostPictureInv
  BY DEF B!Init, HostPictureInv
<1> QED
  BY <1>3, <1>4, <1>5, <1>6 DEF HostInv

(* Two keys have two slots. *)
LEMMA HostInjective ==
  /\ \A i \in 1..15 : B!UiIndexToSlot[i] \in 1..15
  /\ \A i, j \in 1..15 : B!UiIndexToSlot[i] = B!UiIndexToSlot[j] => i = j
BY DEF B!UiIndexToSlot

(* The backend's number for a key is that of one of fifteen. *)
LEMMA HostNumbers ==
  ASSUME NEW k \in HostKeyNumbers
  PROVE  B!HwKey(k) \in 0..14 /\ (HostedKeys # 10 => B!HwKey(k) + 1 = k)
<1>1. CASE HostedKeys = 10
  <2>1. k \in 1..5 \/ (k \in 6..10 /\ k \notin 1..5)
    BY <1>1 DEF HostKeyNumbers
  <2>2. ASSUME k \in 1..5 PROVE B!HwKey(k) = k + 9
    BY <1>1, <2>2 DEF B!HwKey
  <2>3. ASSUME k \in 6..10, k \notin 1..5 PROVE B!HwKey(k) = k - 1
    BY <1>1, <2>3 DEF B!HwKey
  <2> QED
    BY <1>1, <2>1, <2>2, <2>3
<1>2. CASE HostedKeys # 10
  <2>1. B!HwKey(k) = k - 1
    BY <1>2 DEF B!HwKey
  <2> QED
    BY <1>2, <2>1, HostAssumption DEF HostKeyNumbers
<1> QED
  BY <1>1, <1>2

LEMMA HostFollows == HostInv => B!TypeOK /\ B!SidecarIsTrue
<1> SUFFICES ASSUME HostInv PROVE B!TypeOK /\ B!SidecarIsTrue
  OBVIOUS
<1>1. B!TypeOK
  <2>1. B!Cardinality(Serials) = Cardinality(Serials)
    BY DEF B!Cardinality, Cardinality
  <2> QED
    BY <2>1 DEF HostInv, HostDocksInv, HostPipeInv, HostReadyInv, B!TypeOK
<1>2. B!PressIsWherePictureIs
  <2> SUFFICES ASSUME NEW p \in lit, NEW h \in bHeard, p.slot = h.slot
               PROVE  h.event.index = IF HostedKeys = 10 THEN B!HwKey(p.key) + 1 ELSE p.key
    BY DEF B!PressIsWherePictureIs
  <2>1. p.key \in HostKeyNumbers /\ p.slot = B!UiIndexToSlot[B!HwKey(p.key) + 1]
    BY DEF HostInv, HostPictureInv
  <2>2. B!HwKey(p.key) \in 0..14 /\ (HostedKeys # 10 => B!HwKey(p.key) + 1 = p.key)
    BY <2>1, HostNumbers
  <2>3. p.slot \in 1..15
    BY <2>1, <2>2, HostInjective
  <2>4. h.event.index \in 1..15 /\ B!UiIndexToSlot[h.event.index] = h.slot
    BY <2>3 DEF HostInv, HostPictureInv
  <2>5. h.event.index = B!HwKey(p.key) + 1
    BY <2>1, <2>2, <2>4, HostInjective
  <2> QED
    BY <2>2, <2>5
<1>3. B!CommandsFindADock
  <2> SUFFICES ASSUME entries # <<>>, NEW i \in DOMAIN stdin PROVE stdin[i].serial \in DOMAIN entries
    BY DEF B!CommandsFindADock
  <2>1. bReady /\ stdin[i].serial = bSerial
    BY DEF HostInv, HostReadyInv
  <2>2. DOMAIN entries # {}
    BY DEF HostInv, HostDocksInv
  <2> QED
    BY <2>1, <2>2 DEF HostInv, HostReadyInv
<1>4. B!OpenIsReady
  BY DEF B!OpenIsReady, B!IsOpen, HostInv, HostReadyInv
<1> QED
  BY <1>1, <1>2, <1>3, <1>4 DEF B!SidecarIsTrue

LEMMA HostTailOf ==
  ASSUME NEW Items, NEW q \in Seq(Items), q # <<>>
  PROVE  /\ Head(q) \in Items /\ Head(q) = q[1] /\ 1 \in DOMAIN q
         /\ Tail(q) \in Seq(Items) /\ Len(Tail(q)) = Len(q) - 1 /\ Len(Tail(q)) <= Len(q) /\ Len(q) \in Nat
         /\ \A i \in DOMAIN Tail(q) : i \in Nat /\ i + 1 \in DOMAIN q /\ Tail(q)[i] = q[i + 1]
         /\ \A i \in DOMAIN q : i # 1 => i - 1 \in DOMAIN Tail(q) /\ Tail(q)[i - 1] = q[i]
<1>1. Len(q) \in Nat /\ Len(q) > 0 /\ DOMAIN q = 1..Len(q)
  OBVIOUS
<1>2. Tail(q) \in Seq(Items) /\ Len(Tail(q)) = Len(q) - 1 /\ DOMAIN Tail(q) = 1..(Len(q) - 1)
  BY <1>1
<1>3. \A i \in DOMAIN Tail(q) : Tail(q)[i] = q[i + 1]
  BY <1>1, <1>2
<1> QED
  BY <1>1, <1>2, <1>3

(* A line more, behind all the others. *)
LEMMA HostEmitted ==
  ASSUME HostPipeInv, NEW l \in HostLines, B!Emit(l)
  PROVE  /\ stdout' \in Seq(HostLines) /\ Len(stdout') <= MaxLines + Cardinality(Serials)
         /\ \A i \in DOMAIN stdout' : stdout'[i] = l \/ (i \in DOMAIN stdout /\ stdout'[i] = stdout[i])
         /\ \A i \in DOMAIN stdout : i \in DOMAIN stdout' /\ stdout'[i] = stdout[i]
         /\ \A i, j \in DOMAIN stdout' : i < j => i \in DOMAIN stdout /\ stdout'[i] = stdout[i]
         /\ \E i \in DOMAIN stdout' : stdout'[i] = l
<1>1. stdout \in Seq(HostLines) /\ Len(stdout) < MaxLines /\ stdout' = Append(stdout, l)
  BY DEF B!Emit, HostPipeInv
<1>2. Cardinality(Serials) \in Nat /\ MaxLines \in Nat
  BY HostFinite, HostAssumption
<1>3. Len(stdout') <= MaxLines + Cardinality(Serials) /\ stdout' \in Seq(HostLines)
  BY <1>1, <1>2
<1>4. Len(stdout) + 1 \in DOMAIN stdout' /\ stdout'[Len(stdout) + 1] = l
  BY <1>1
<1> QED
  BY <1>1, <1>3, <1>4

(* A line that is not about a dock found or all docks. *)
LEMMA HostEmittedPlain ==
  ASSUME HostInv, NEW l \in HostLines, l.event \notin {"connected", "ready", "input"}, B!Emit(l),
         stdin' = stdin \/ (stdin # <<>> /\ stdin' = Tail(stdin)),
         UNCHANGED <<entries, eof, bPhase, bRunning, bReady, bSerial>>,
         bChild' = bChild \/ (bChild' = "ended" /\ bChild # B!None)
  PROVE  HostPipeInv' /\ HostReadyInv'
<1>0. stdin' \in Seq(HostOrders) /\ Len(stdin') <= MaxWrites
      /\ \A i \in DOMAIN stdin' : \E j \in DOMAIN stdin : stdin'[i] = stdin[j]
  <2>1. stdin \in Seq(HostOrders) /\ Len(stdin) <= MaxWrites /\ MaxWrites \in Nat
    BY HostAssumption DEF HostInv, HostPipeInv
  <2>2. CASE stdin' = stdin
    BY <2>1, <2>2
  <2>3. CASE stdin # <<>> /\ stdin' = Tail(stdin)
    BY <2>1, <2>3, HostTailOf
  <2> QED
    BY <2>2, <2>3
<1>1. HostPipeInv'
  BY <1>0, HostEmitted DEF HostInv, HostPipeInv, HostGoodLine
<1>2. HostConnecting(stdout)' <=> HostConnecting(stdout)
  BY HostEmitted DEF HostInv, HostConnecting
<1>3. \A i \in DOMAIN stdout' : stdout'[i].event = "ready" =>
        \E k \in DOMAIN stdout : k = i /\ stdout[k].event = "ready"
  BY HostEmitted DEF HostInv
<1>4. \A i \in DOMAIN stdout' : stdout'[i].event = "ready" =>
        /\ bChild' \in {"serving", "ended"}
        /\ \A j \in DOMAIN stdout' : i < j => stdout'[j].event # "connected"
  BY <1>3, HostEmitted DEF HostInv, HostReadyInv
<1>5. bReady' => bChild' \in {"serving", "ended"} /\ ~HostConnecting(stdout)'
  BY <1>2 DEF HostInv, HostReadyInv
<1>6. HostReadyInv'
  BY <1>0, <1>2, <1>4, <1>5 DEF HostInv, HostReadyInv
<1> QED
  BY <1>1, <1>6

LEMMA HostEnumerates == ASSUME HostInv, B!Enumerate PROVE HostInv'
<1>1. bChild = "listing" /\ bChild' = "opening" /\ bTodo' \in SUBSET Serials
      /\ UNCHANGED <<bus, entries, readers, bStale, B!pipeVars, B!clientVars, lit, bHeard>>
  BY DEF B!Enumerate, HostInv, HostDocksInv
<1>2. HostDocksInv'
  <2>1. \A d \in Serials : readers[d] + Cardinality(bTodo') <= Cardinality(Serials)
    BY <1>1, HostFinite DEF HostInv, HostDocksInv, B!NoReaders
  <2> QED
    BY <1>1, <2>1 DEF HostInv, HostDocksInv, B!None
<1>3. HostPipeInv' /\ HostPictureInv'
  BY <1>1 DEF HostInv, HostPipeInv, HostPictureInv, B!pipeVars, HostGoodLine
<1>4. HostReadyInv'
  BY <1>1 DEF HostInv, HostReadyInv, B!pipeVars, B!clientVars, HostConnecting, B!None
<1> QED
  BY <1>2, <1>3, <1>4 DEF HostInv

LEMMA HostEnumerationEnds == ASSUME HostInv, B!EnumerationFails PROVE HostInv'
<1> DEFINE l == B!Says("error", B!None)
<1>1. bChild = "listing" /\ bChild' = "ended" /\ B!Emit(l)
      /\ UNCHANGED <<bus, bTodo, entries, readers, bStale, stdin, eof, B!clientVars, lit, bHeard>>
  BY DEF B!EnumerationFails
<1>2. l \in HostLines /\ l.event = "error"
  BY DEF B!Says, HostLines
<1> HIDE DEF l
<1>3. HostDocksInv'
  BY <1>1 DEF HostInv, HostDocksInv, B!None
<1>4. HostPipeInv' /\ HostReadyInv'
  BY <1>1, <1>2, HostEmittedPlain DEF B!clientVars, B!None
<1>5. HostPictureInv'
  BY <1>1 DEF HostInv, HostPictureInv
<1> QED
  BY <1>3, <1>4, <1>5 DEF HostInv

LEMMA HostConnects ==
  ASSUME HostInv, NEW d \in Serials, NEW native \in BOOLEAN, NEW o \in bTodo,
         B!Connected(d, native), bTodo' = bTodo \ {o}, bChild = "opening",
         UNCHANGED <<bus, bChild, stdin, eof, B!clientVars, lit, bHeard>>
  PROVE  HostInv'
<1> DEFINE l == B!Says("connected", d)
           new == [dock |-> d, native |-> native]
<1>1. l \in HostLines /\ l.event = "connected" /\ l.of = d
  BY DEF B!Says, HostLines
<1>2. new \in [dock : Serials, native : BOOLEAN]
  OBVIOUS
<1>3. B!Emit(l) /\ readers' = [readers EXCEPT ![d] = IF d \in bStale THEN 1 ELSE @ + 1] /\ bStale' = bStale \ {d}
  BY DEF B!Connected
<1>4. /\ DOMAIN entries' \subseteq Serials \cup {B!Alias} /\ DOMAIN entries \subseteq DOMAIN entries' /\ d \in DOMAIN entries'
      /\ \A s \in DOMAIN entries' : entries'[s] = new \/ (s \in DOMAIN entries /\ entries'[s] = entries[s])
  <2> DEFINE names == IF native THEN {d, B!Alias} ELSE {d}
  <2>1. entries' = [s \in names \cup DOMAIN entries |-> IF s \in names THEN new ELSE entries[s]]
    BY DEF B!Connected, B!Entered
  <2>2. names \subseteq Serials \cup {B!Alias} /\ d \in names
    OBVIOUS
  <2> HIDE DEF names, new
  <2> QED
    BY <2>1, <2>2 DEF HostInv, HostDocksInv
<1> HIDE DEF l, new
<1>5. HostDocksInv'
  <2>1. \A s \in DOMAIN entries' : entries'[s] \in [dock : Serials, native : BOOLEAN]
    BY <1>2, <1>4 DEF HostInv, HostDocksInv
  <2>2. Cardinality(bTodo') = Cardinality(bTodo) - 1 /\ Cardinality(bTodo) \in Nat /\ Cardinality(bTodo) <= Cardinality(Serials)
        /\ Cardinality(Serials) \in Nat
    BY HostFinite DEF HostInv, HostDocksInv
  <2>3. readers' \in [Serials -> Nat] /\ \A u \in Serials : readers'[u] \in {readers[u], 1, readers[u] + 1}
    BY <1>3 DEF HostInv, HostDocksInv
  <2>4. \A u \in Serials : readers[u] \in Nat /\ readers[u] + Cardinality(bTodo) <= Cardinality(Serials)
    BY DEF HostInv, HostDocksInv
  <2>5. \A u \in Serials : readers'[u] + Cardinality(bTodo') <= Cardinality(Serials)
    BY <2>2, <2>3, <2>4
  <2>6. bStale' \subseteq Serials /\ bTodo' \subseteq Serials /\ bus' \subseteq Serials /\ bChild' = "opening"
    BY <1>3 DEF HostInv, HostDocksInv
  <2> QED
    BY <1>4, <2>1, <2>3, <2>5, <2>6 DEF HostDocksInv, B!None
<1>6. HostPipeInv'
  <2>1. stdout' \in Seq(HostLines) /\ Len(stdout') <= MaxLines + Cardinality(Serials)
    BY <1>1, <1>3, HostEmitted DEF HostInv
  <2>2. \A i \in DOMAIN stdout' : HostGoodLine(stdout'[i], DOMAIN entries')
    BY <1>1, <1>3, <1>4, HostEmitted DEF HostInv, HostPipeInv, HostGoodLine
  <2> QED
    BY <2>1, <2>2 DEF HostInv, HostPipeInv
<1>7. HostReadyInv'
  <2>1. HostConnecting(stdout)'
    BY <1>1, <1>3, HostEmitted DEF HostInv, HostConnecting
  <2>2. ~bReady /\ DOMAIN stdin = {} /\ \A i \in DOMAIN stdout : stdout[i].event # "ready"
    BY DEF HostInv, HostReadyInv
  <2>3. \A i \in DOMAIN stdout' : stdout'[i].event # "ready"
    BY <1>1, <1>3, <2>2, HostEmitted DEF HostInv
  <2> QED
    BY <2>1, <2>2, <2>3 DEF HostInv, HostReadyInv, B!clientVars
<1>8. HostPictureInv'
  BY DEF HostInv, HostPictureInv
<1> QED
  BY <1>5, <1>6, <1>7, <1>8 DEF HostInv

LEMMA HostOpensDock == ASSUME HostInv, NEW d \in Serials, B!OpenDock(d) PROVE HostInv'
<1>1. bChild = "opening" /\ d \in bTodo /\ bTodo' = bTodo \ {d} /\ UNCHANGED <<bus, bChild, stdin, eof, B!clientVars, lit, bHeard>>
  BY DEF B!OpenDock
<1>2. CASE HostedModel[d] \in B!Akp153 /\ \E u \in Serials : HostedModel[u] = HostedModel[d] /\ B!Connected(u, TRUE)
  BY <1>1, <1>2, HostConnects, HostAssumption
<1>3. CASE B!Connected(d, FALSE)
  BY <1>1, <1>3, HostConnects
<1>4. CASE B!Emit(B!Says("error", B!None)) /\ UNCHANGED <<entries, readers, bStale>>
  <2> DEFINE l == B!Says("error", B!None)
  <2>1. l \in HostLines /\ l.event = "error"
    BY DEF B!Says, HostLines
  <2> HIDE DEF l
  <2>2. HostPipeInv' /\ HostReadyInv'
    BY <1>1, <1>4, <2>1, HostEmittedPlain DEF B!clientVars, l
  <2>3. Cardinality(bTodo') = Cardinality(bTodo) - 1 /\ Cardinality(bTodo) \in Nat /\ Cardinality(Serials) \in Nat
    BY <1>1, HostFinite DEF HostInv, HostDocksInv
  <2>4. \A u \in Serials : readers[u] \in Nat /\ readers[u] + Cardinality(bTodo') <= Cardinality(Serials)
    BY <2>3 DEF HostInv, HostDocksInv
  <2>5. HostDocksInv'
    BY <1>1, <1>4, <2>4 DEF HostInv, HostDocksInv, B!None
  <2>6. HostPictureInv'
    BY <1>1 DEF HostInv, HostPictureInv
  <2> QED
    BY <2>2, <2>5, <2>6 DEF HostInv
<1> QED
  BY <1>2, <1>3, <1>4 DEF B!OpenDock

LEMMA HostSaysReady == ASSUME HostInv, B!SayReady PROVE HostInv'
<1> DEFINE l == B!Says("ready", B!None)
<1>1. bChild = "opening" /\ bChild' = "serving" /\ B!Emit(l)
      /\ UNCHANGED <<bus, bTodo, entries, readers, bStale, stdin, eof, B!clientVars, lit, bHeard>>
  BY DEF B!SayReady
<1>2. l \in HostLines /\ l.event = "ready"
  BY DEF B!Says, HostLines
<1> HIDE DEF l
<1>3. HostDocksInv' /\ HostPictureInv'
  BY <1>1 DEF HostInv, HostDocksInv, HostPictureInv, B!None
<1>4. HostPipeInv'
  BY <1>1, <1>2, HostEmitted DEF HostInv, HostPipeInv, HostGoodLine
<1>5. HostReadyInv'
  <2>1. HostConnecting(stdout)' <=> HostConnecting(stdout)
    BY <1>1, <1>2, HostEmitted DEF HostInv, HostConnecting
  <2>2. ~bReady /\ \A i \in DOMAIN stdout : stdout[i].event # "ready"
    BY <1>1 DEF HostInv, HostReadyInv
  <2>3. \A i, j \in DOMAIN stdout' : i < j => stdout'[i].event # "ready"
    BY <1>1, <1>2, <2>2, HostEmitted DEF HostInv
  <2> QED
    BY <1>1, <2>1, <2>2, <2>3 DEF HostInv, HostReadyInv, B!clientVars
<1> QED
  BY <1>3, <1>4, <1>5 DEF HostInv

LEMMA HostServes == ASSUME HostInv, B!Serve PROVE HostInv'
<1> DEFINE c == Head(stdin)
<1>1. bChild = "serving" /\ stdin # <<>> /\ stdin' = Tail(stdin) /\ UNCHANGED <<bus, B!hostVars, eof, B!clientVars, bHeard>>
  BY DEF B!Serve
<1>2. c \in HostOrders
  BY <1>1, HostTailOf DEF HostInv, HostPipeInv
<1>3. PICK l \in HostLines : l.event \in {"ok", "error"} /\ B!Emit(l)
  <2> DEFINE good == B!Says("ok", B!None)
             bad == B!Says("error", B!None)
  <2>1. good \in HostLines /\ good.event = "ok" /\ bad \in HostLines /\ bad.event = "error"
    BY DEF B!Says, HostLines
  <2>2. B!Emit(good) \/ B!Emit(bad)
    BY DEF B!Serve, B!Obey
  <2> HIDE DEF good, bad
  <2> QED
    BY <2>1, <2>2
<1>4. HostPipeInv' /\ HostReadyInv'
  BY <1>1, <1>3, HostEmittedPlain DEF B!hostVars, B!clientVars
<1>5. lit' = lit \/ \E e \in [dock : Serials, native : BOOLEAN] : B!Shown(e, c)
  BY DEF B!Serve, B!Obey, B!Resolved, HostInv, HostDocksInv
<1> HIDE DEF c
<1>6. HostPictureInv'
  <2>1. CASE lit' = lit
    BY <1>1, <2>1 DEF HostInv, HostPictureInv
  <2>2. ASSUME NEW e \in [dock : Serials, native : BOOLEAN], B!Shown(e, c) PROVE HostPictureInv'
    <3>1. CASE lit' = lit
      BY <1>1, <3>1 DEF HostInv, HostPictureInv
    <3>2. CASE /\ c.cmd = "set_image" /\ e.native /\ ~c.zone
               /\ lit' = {[dock |-> e.dock, slot |-> B!SlotOf(c.key, FALSE), key |-> c.of]}
      <4>1. c.of \in HostKeyNumbers /\ c.key = B!HwKey(c.of)
        BY <1>2, <2>2, <3>2 DEF HostOrders
      <4>2. c.key \in 0..14
        BY <4>1, HostNumbers
      <4>3. B!SlotOf(c.key, FALSE) = B!UiIndexToSlot[B!HwKey(c.of) + 1]
        BY <4>1, <4>2 DEF B!SlotOf, B!AtMost
      <4>4. \A p \in lit' : p.key = c.of /\ p.slot = B!UiIndexToSlot[B!HwKey(c.of) + 1]
        <5> DEFINE picture == [dock |-> e.dock, slot |-> B!SlotOf(c.key, FALSE), key |-> c.of]
        <5>1. picture.key = c.of /\ picture.slot = B!SlotOf(c.key, FALSE)
          OBVIOUS
        <5>2. lit' = {picture}
          BY <3>2
        <5> HIDE DEF picture
        <5> QED
          BY <4>3, <5>1, <5>2
      <4> QED
        BY <1>1, <4>1, <4>4 DEF HostInv, HostPictureInv
    <3> QED
      BY <2>2, <3>1, <3>2 DEF B!Shown
  <2> QED
    BY <1>5, <2>1, <2>2
<1>7. HostDocksInv'
  BY <1>1 DEF HostInv, HostDocksInv, B!hostVars, B!None
<1> QED
  BY <1>4, <1>6, <1>7 DEF HostInv

LEMMA HostReads ==
  ASSUME HostInv, NEW d \in Serials, NEW code \in Nat, NEW state \in 0..1, NEW slot \in 0..15, B!Read(d, code, state, slot),
         slot = 0 \/ (code \in 1..15 /\ B!UiIndexToSlot[code] = slot)
  PROVE  HostInv'
<1> DEFINE l == [event |-> "input", of |-> d, code |-> code, state |-> state, slot |-> slot]
           more == [i \in 1..readers[d] |-> l]
<1>1. l \in HostLines /\ l.event = "input" /\ HostGoodLine(l, DOMAIN entries)
  BY DEF HostLines, HostGoodLine
<1>2. bChild \in {"opening", "serving"} /\ UNCHANGED <<bus, B!hostVars, stdin, eof, B!clientVars, lit, bHeard>>
      /\ (stdout = <<>> \/ Len(stdout) + readers[d] <= MaxLines) /\ stdout' = stdout \o more
  BY DEF B!Read
<1> HIDE DEF l
<1>3. readers[d] \in Nat /\ readers[d] <= Cardinality(Serials) /\ Cardinality(Serials) \in Nat
  BY HostFinite DEF HostInv, HostDocksInv
<1>4. more \in Seq(HostLines) /\ Len(more) = readers[d] /\ \A i \in DOMAIN more : more[i] = l
  BY <1>1, <1>3
<1> HIDE DEF more
<1>5. stdout \in Seq(HostLines)
  BY DEF HostInv, HostPipeInv
<1>6. /\ stdout' \in Seq(HostLines) /\ Len(stdout') = Len(stdout) + readers[d]
      /\ \A i \in DOMAIN stdout' : stdout'[i] = l \/ (i \in DOMAIN stdout /\ stdout'[i] = stdout[i])
      /\ \A i \in DOMAIN stdout : i \in DOMAIN stdout' /\ stdout'[i] = stdout[i]
  <2>1. DOMAIN stdout' = 1..(Len(stdout) + readers[d]) /\ Len(stdout) \in Nat /\ stdout' \in Seq(HostLines)
    BY <1>2, <1>3, <1>4, <1>5
  <2>2. \A i \in 1..Len(stdout) : stdout'[i] = stdout[i]
    BY <1>2, <1>4, <1>5
  <2>3. ASSUME NEW i \in 1..(Len(stdout) + readers[d]), i > Len(stdout) PROVE stdout'[i] = l
    <3>1. i - Len(stdout) \in DOMAIN more /\ stdout'[i] = more[i - Len(stdout)]
      BY <1>2, <1>3, <1>4, <1>5, <2>1, <2>3
    <3> QED
      BY <1>4, <3>1
  <2>4. Len(stdout') = Len(stdout) + readers[d]
    BY <1>3, <2>1
  <2>5. DOMAIN stdout = 1..Len(stdout)
    BY <1>5
  <2>6. \A i \in 1..(Len(stdout) + readers[d]) : i <= Len(stdout) => i \in 1..Len(stdout)
    BY <2>1
  <2> QED
    BY <1>3, <2>1, <2>2, <2>3, <2>4, <2>5, <2>6
<1>7. Len(stdout') <= MaxLines + Cardinality(Serials)
  <2>1. CASE stdout = <<>>
    <3>1. Len(stdout) = 0
      BY <2>1
    <3> QED
      BY <1>3, <1>6, <3>1, HostAssumption
  <2>2. CASE Len(stdout) + readers[d] <= MaxLines
    BY <1>3, <1>6, <2>2, HostAssumption
  <2> QED
    BY <1>2, <2>1, <2>2
<1>8. HostPipeInv'
  BY <1>1, <1>2, <1>6, <1>7 DEF HostInv, HostPipeInv, B!hostVars
<1>9. HostReadyInv'
  <2>1. HostConnecting(stdout)' <=> HostConnecting(stdout)
    BY <1>1, <1>6 DEF HostConnecting
  <2>2. \A i \in DOMAIN stdout' : stdout'[i].event = "ready" => i \in DOMAIN stdout /\ stdout'[i] = stdout[i]
    BY <1>1, <1>6
  <2>3. \A j \in DOMAIN stdout' : stdout'[j].event = "connected" => j \in DOMAIN stdout /\ stdout'[j] = stdout[j]
    BY <1>1, <1>6
  <2> QED
    BY <1>2, <2>1, <2>2, <2>3 DEF HostInv, HostReadyInv, B!hostVars, B!clientVars
<1>10. HostDocksInv' /\ HostPictureInv'
  BY <1>2 DEF HostInv, HostDocksInv, HostPictureInv, B!hostVars, B!None
<1> QED
  BY <1>8, <1>9, <1>10 DEF HostInv

LEMMA HostReaderIsOver == ASSUME HostInv, NEW d \in Serials, B!ReaderEnds(d) PROVE HostInv'
<1> DEFINE l == B!Says("device_error", d)
<1>1. /\ bChild \in {"opening", "serving"} /\ readers[d] > 0 /\ readers' = [readers EXCEPT ![d] = @ - 1]
      /\ UNCHANGED <<bus, bChild, bTodo, entries, bStale, stdin, eof, B!clientVars, lit, bHeard>>
      /\ (UNCHANGED stdout \/ B!Emit(l))
  BY DEF B!ReaderEnds
<1>2. l \in HostLines /\ l.event = "device_error"
  BY DEF B!Says, HostLines
<1> HIDE DEF l
<1>3. HostDocksInv'
  <2>1. \A u \in Serials : readers'[u] \in {readers[u], readers[u] - 1} /\ readers'[u] \in Nat /\ readers[u] \in Nat
    BY <1>1 DEF HostInv, HostDocksInv
  <2>2. readers' \in [Serials -> Nat]
    BY <1>1, <2>1 DEF HostInv, HostDocksInv
  <2>3. Cardinality(bTodo) \in Nat /\ Cardinality(Serials) \in Nat
    BY HostFinite DEF HostInv, HostDocksInv
  <2>4. \A u \in Serials : readers'[u] + Cardinality(bTodo) <= Cardinality(Serials)
    BY <2>1, <2>3 DEF HostInv, HostDocksInv
  <2> QED
    BY <1>1, <2>2, <2>4 DEF HostInv, HostDocksInv, B!None
<1>4. HostPipeInv' /\ HostReadyInv'
  <2>1. CASE UNCHANGED stdout
    BY <1>1, <2>1 DEF HostInv, HostPipeInv, HostReadyInv, B!clientVars, HostConnecting
  <2>2. CASE B!Emit(l)
    BY <1>1, <1>2, <2>2, HostEmittedPlain DEF B!clientVars
  <2> QED
    BY <1>1, <2>1, <2>2
<1>5. HostPictureInv'
  BY <1>1 DEF HostInv, HostPictureInv
<1> QED
  BY <1>3, <1>4, <1>5 DEF HostInv

LEMMA HostIsOver == ASSUME HostInv, B!Leave \/ B!Die PROVE HostInv'
<1>1. bChild \in {"listing", "opening", "serving"} /\ bChild' = "ended"
      /\ UNCHANGED <<bus, bTodo, entries, readers, bStale, B!pipeVars, B!clientVars, lit, bHeard>>
  BY DEF B!Leave, B!Die
<1> QED
  BY <1>1 DEF HostInv, HostDocksInv, HostPipeInv, HostReadyInv, HostPictureInv, B!pipeVars, B!clientVars,
     HostConnecting, B!None

(* A host is started, or what is left of it is thrown away. *)
LEMMA HostStartsAfresh ==
  ASSUME HostInv, stdin' = <<>>, stdout' = <<>>, eof' = FALSE, entries' = <<>>, readers' = B!NoReaders, bTodo' = {}, bStale' = {},
         lit' = {}, bHeard' = {}, bReady' = FALSE, bChild' \in {B!None, "listing"}, bRunning' \in BOOLEAN,
         bPhase' \in {"closed", "opening"}, UNCHANGED <<bus, bSerial>>
  PROVE  HostInv'
<1>1. Cardinality({}) = 0 /\ Cardinality(Serials) \in Nat
  BY HostFinite, FS_EmptySet
<1>2. DOMAIN <<>> = {} /\ Len(<<>>) = 0 /\ <<>> \in Seq(HostOrders) /\ <<>> \in Seq(HostLines)
  OBVIOUS
<1>3. DOMAIN stdin' = {} /\ DOMAIN stdout' = {} /\ DOMAIN entries' = {}
  BY <1>2
<1>4. HostDocksInv'
  <2>1. readers' \in [Serials -> Nat] /\ \A d \in Serials : readers'[d] = 0
    BY DEF B!NoReaders
  <2>2. \A d \in Serials : readers'[d] + Cardinality(bTodo') <= Cardinality(Serials)
    BY <1>1, <2>1
  <2> QED
    BY <1>3, <2>1, <2>2 DEF HostInv, HostDocksInv
<1>5. HostPipeInv'
  <2>1. 0 <= MaxWrites /\ 0 <= MaxLines + Cardinality(Serials)
    BY <1>1, HostAssumption
  <2> QED
    BY <1>2, <1>3, <2>1 DEF HostPipeInv
<1>6. HostReadyInv'
  BY <1>3 DEF HostInv, HostReadyInv
<1>7. HostPictureInv'
  BY DEF HostPictureInv
<1> QED
  BY <1>4, <1>5, <1>6, <1>7 DEF HostInv

(* What a code means of a slot's key. *)
LEMMA HostKeysAreMapped ==
  ASSUME NEW code \in 1..15, NEW state \in 0..1, NEW e \in B!Mapped(code, state)
  PROVE  e.index = code
<1>1. code \notin DOMAIN B!Turns /\ code \notin DOMAIN B!Dials /\ code \notin 64..67
  BY DEF B!Turns, B!Dials
<1>2. B!Mapped(code, state) = B!Event(IF state # 0 THEN "KeyPressed" ELSE "KeyReleased", code, state)
  BY <1>1 DEF B!Mapped
<1> QED
  BY <1>2 DEF B!Event

LEMMA HostLineIsRead == ASSUME HostInv, B!HandleLine PROVE HostInv'
<1> DEFINE l == Head(stdout)
<1>1. stdout \in Seq(HostLines) /\ stdout # <<>> /\ stdout' = Tail(stdout)
      /\ UNCHANGED <<bus, B!hostVars, stdin, eof, bPhase, bRunning, lit>>
  BY DEF B!HandleLine, HostInv, HostPipeInv
<1>2. /\ bSerial' = IF l.event = "connected" THEN l.of ELSE bSerial
      /\ bReady' = (bReady \/ l.event = "ready")
      /\ bHeard' = IF l.event = "input" THEN B!Heard(l) ELSE bHeard
  BY DEF B!HandleLine
<1>3. /\ l \in HostLines /\ 1 \in DOMAIN stdout /\ l = stdout[1] /\ stdout' \in Seq(HostLines) /\ Len(stdout') <= Len(stdout)
      /\ Len(stdout') \in Nat /\ Len(stdout) \in Nat
      /\ \A i \in DOMAIN stdout' : i \in Nat /\ i + 1 \in DOMAIN stdout /\ stdout'[i] = stdout[i + 1]
      /\ \A i \in DOMAIN stdout : i # 1 => i - 1 \in DOMAIN stdout' /\ stdout'[i - 1] = stdout[i]
  BY <1>1, HostTailOf
<1> HIDE DEF l
<1>4. HostDocksInv'
  <2>1. bChild \notin {B!None, "listing"}
    BY <1>1 DEF HostInv, HostDocksInv
  <2> QED
    BY <1>1, <2>1 DEF HostInv, HostDocksInv, B!hostVars
<1>5. HostPipeInv'
  <2>1. Len(stdout') <= MaxLines + Cardinality(Serials)
    BY <1>3, HostFinite, HostAssumption DEF HostInv, HostPipeInv
  <2> QED
    BY <1>1, <1>3, <2>1 DEF HostInv, HostPipeInv, B!hostVars
<1>6. HostReadyInv'
  <2>1. HostGoodLine(l, DOMAIN entries)
    BY <1>3 DEF HostInv, HostPipeInv
  <2>2. HostConnecting(stdout)' => HostConnecting(stdout)
    BY <1>3 DEF HostConnecting
  <2>3. l.event # "connected" /\ HostConnecting(stdout) => HostConnecting(stdout)'
    BY <1>3 DEF HostConnecting
  <2>4. l.event = "ready" => bChild \in {"serving", "ended"} /\ ~HostConnecting(stdout)'
    <3> SUFFICES ASSUME l.event = "ready" PROVE bChild \in {"serving", "ended"} /\ ~HostConnecting(stdout)'
      OBVIOUS
    <3>1. bChild \in {"serving", "ended"} /\ \A j \in DOMAIN stdout : 1 < j => stdout[j].event # "connected"
      BY <1>3 DEF HostInv, HostReadyInv
    <3>2. \A i \in DOMAIN stdout' : 1 < i + 1 /\ stdout'[i].event # "connected"
      BY <1>3, <3>1
    <3> QED
      BY <3>1, <3>2 DEF HostConnecting
  <2>5. l.event = "connected" => ~bReady
    BY <1>3 DEF HostInv, HostReadyInv, HostConnecting
  <2>6. \A i \in DOMAIN stdout' : stdout'[i].event = "ready" =>
          bChild \in {"serving", "ended"} /\ \A j \in DOMAIN stdout' : i < j => stdout'[j].event # "connected"
    <3> SUFFICES ASSUME NEW i \in DOMAIN stdout', stdout'[i].event = "ready"
                 PROVE  bChild \in {"serving", "ended"} /\ \A j \in DOMAIN stdout' : i < j => stdout'[j].event # "connected"
      OBVIOUS
    <3>1. i + 1 \in DOMAIN stdout /\ stdout[i + 1].event = "ready"
      BY <1>3
    <3>2. ASSUME NEW j \in DOMAIN stdout', i < j PROVE stdout'[j].event # "connected"
      <4>1. i \in Nat /\ j \in Nat /\ j + 1 \in DOMAIN stdout /\ stdout'[j] = stdout[j + 1]
        BY <1>3
      <4>2. i + 1 < j + 1
        BY <3>2, <4>1
      <4> QED
        BY <3>1, <4>1, <4>2 DEF HostInv, HostReadyInv
    <3> QED
      BY <3>1, <3>2 DEF HostInv, HostReadyInv
  <2>7. bSerial' \in Serials \cup {B!None} /\ (l.event = "connected" => bSerial' \in DOMAIN entries)
    BY <1>2, <2>1 DEF HostGoodLine, HostInv, HostReadyInv
  <2>8. DOMAIN entries # {} => HostConnecting(stdout)' \/ bSerial' \in DOMAIN entries
    BY <1>2, <2>3, <2>7 DEF HostInv, HostReadyInv
  <2>9. bReady' \in BOOLEAN /\ (bReady' => bChild \in {"serving", "ended"} /\ ~HostConnecting(stdout)')
    BY <1>2, <2>2, <2>4 DEF HostInv, HostReadyInv
  <2>10. \A i \in DOMAIN stdin : bReady' /\ stdin[i].serial = bSerial'
    BY <1>2, <2>5 DEF HostInv, HostReadyInv
  <2> QED
    BY <1>1, <2>6, <2>7, <2>8, <2>9, <2>10 DEF HostInv, HostReadyInv, B!hostVars
<1>7. HostPictureInv'
  <2>1. CASE bHeard' = bHeard
    BY <1>1, <2>1 DEF HostInv, HostPictureInv
  <2>2. CASE l.event = "input"
    <3>1. l.slot = 0 \/ (l.code \in 1..15 /\ B!UiIndexToSlot[l.code] = l.slot)
      BY <1>3, <2>2 DEF HostInv, HostPipeInv, HostGoodLine
    <3>2. \A h \in bHeard' : \E e \in B!Mapped(l.code, l.state) : h = [dock |-> l.of, slot |-> l.slot, event |-> e]
      BY <1>2, <2>2 DEF B!Heard
    <3>3. l.state \in 0..1
      BY <1>3 DEF HostLines
    <3>4. \A h \in bHeard' : h.slot = 0 \/ (h.event.index \in 1..15 /\ B!UiIndexToSlot[h.event.index] = h.slot)
      BY <3>1, <3>2, <3>3, HostKeysAreMapped
    <3> QED
      BY <1>1, <3>4 DEF HostInv, HostPictureInv
  <2> QED
    BY <1>2, <2>1, <2>2
<1> QED
  BY <1>4, <1>5, <1>6, <1>7 DEF HostInv

(* Commands behind those under way. *)
LEMMA HostWritten == ASSUME HostInv, NEW q \in Seq(HostOrders), B!Write(q), \A i \in DOMAIN q : q[i].serial = bSerial PROVE HostInv'
<1>1. /\ stdin \in Seq(HostOrders) /\ Len(stdin) + Len(q) <= MaxWrites /\ stdin' = stdin \o q /\ bReady
      /\ UNCHANGED <<bus, B!hostVars, eof, stdout, B!clientVars, lit, bHeard>>
  BY DEF B!Write, B!IsOpen, HostInv, HostPipeInv
<1>2. stdin' \in Seq(HostOrders) /\ Len(stdin') <= MaxWrites
      /\ \A i \in DOMAIN stdin' : (\E j \in DOMAIN stdin : stdin'[i] = stdin[j]) \/ (\E j \in DOMAIN q : stdin'[i] = q[j])
  <2>1. Len(q) \in Nat /\ Len(stdin) \in Nat /\ DOMAIN stdin' = 1..(Len(stdin) + Len(q))
    BY <1>1
  <2>2. ASSUME NEW i \in 1..(Len(stdin) + Len(q))
        PROVE  (\E j \in DOMAIN stdin : stdin'[i] = stdin[j]) \/ (\E j \in DOMAIN q : stdin'[i] = q[j])
    <3>1. CASE i <= Len(stdin)
      BY <1>1, <2>1, <3>1
    <3>2. CASE i > Len(stdin)
      <4>1. i - Len(stdin) \in DOMAIN q /\ stdin'[i] = q[i - Len(stdin)]
        BY <1>1, <2>1, <3>2
      <4> QED
        BY <4>1
    <3> QED
      BY <2>1, <3>1, <3>2
  <2> QED
    BY <1>1, <2>1, <2>2
<1>3. HostPipeInv'
  BY <1>1, <1>2 DEF HostInv, HostPipeInv, B!hostVars
<1>4. HostReadyInv'
  <2>1. \A i \in DOMAIN stdin' : stdin'[i].serial = bSerial
    BY <1>2 DEF HostInv, HostReadyInv
  <2> QED
    BY <1>1, <2>1 DEF HostInv, HostReadyInv, B!hostVars, B!clientVars, HostConnecting
<1>5. HostDocksInv' /\ HostPictureInv'
  BY <1>1 DEF HostInv, HostDocksInv, HostPictureInv, B!hostVars
<1> QED
  BY <1>3, <1>4, <1>5 DEF HostInv

LEMMA HostOrderly ==
  ASSUME HostInv
  PROVE  /\ \A k \in HostKeyNumbers : B!Image(k) \in HostOrders /\ B!Image(k).serial = bSerial
         /\ \A z \in Nat : B!ZoneImage(z) \in HostOrders /\ B!ZoneImage(z).serial = bSerial
         /\ \A cmd \in {"set_brightness", "keep_alive"} :
              B!Command(cmd, 0, FALSE, 0) \in HostOrders /\ B!Command(cmd, 0, FALSE, 0).serial = bSerial
<1>1. bSerial \in Serials \cup {B!None}
  BY DEF HostInv, HostReadyInv
<1>2. \A k \in HostKeyNumbers : k \in Int /\ B!HwKey(k) \in Int
  BY HostAssumption DEF HostKeyNumbers, B!HwKey
<1> QED
  BY <1>1, <1>2 DEF B!Image, B!ZoneImage, B!Command, HostOrders

LEMMA HostCommands ==
  ASSUME HostInv, \/ \E i \in DOMAIN DrawnKeys : B!SetKeyImage(DrawnKeys[i])
                  \/ \E i \in DOMAIN DrawnZones : B!SetZoneImage(DrawnZones[i])
                  \/ B!ClearKeys \/ B!ClearTouchStrip \/ B!SetBrightness \/ B!KeepAlive
  PROVE  HostInv'
<1>1. \A i \in DOMAIN DrawnKeys : DrawnKeys[i] \in HostKeyNumbers
  BY HostAssumption DEF HostKeyNumbers
<1>2. \A i \in DOMAIN DrawnZones : DrawnZones[i] \in Nat
  BY HostAssumption
<1>3. ASSUME NEW o \in HostOrders, o.serial = bSerial, B!Write(<<o>>) PROVE HostInv'
  <2>1. <<o>> \in Seq(HostOrders) /\ \A i \in DOMAIN <<o>> : <<o>>[i] = o
    OBVIOUS
  <2> QED
    BY <1>3, <2>1, HostWritten
<1>4. CASE B!ClearKeys
  <2> DEFINE q == [i \in DOMAIN DrawnKeys |-> B!Image(DrawnKeys[i])]
  <2>1. DOMAIN DrawnKeys = 1..Len(DrawnKeys) /\ Len(DrawnKeys) \in Nat
    BY HostAssumption
  <2>2. \A i \in DOMAIN DrawnKeys : B!Image(DrawnKeys[i]) \in HostOrders /\ B!Image(DrawnKeys[i]).serial = bSerial
    BY <1>1, HostOrderly
  <2>3. q \in Seq(HostOrders) /\ \A i \in DOMAIN q : q[i].serial = bSerial
    BY <2>1, <2>2
  <2> QED
    BY <1>4, <2>3, HostWritten DEF B!ClearKeys
<1>5. CASE B!ClearTouchStrip
  <2> DEFINE q == [i \in DOMAIN DrawnZones |-> B!ZoneImage(DrawnZones[i])]
  <2>1. DOMAIN DrawnZones = 1..Len(DrawnZones) /\ Len(DrawnZones) \in Nat
    BY HostAssumption
  <2>2. \A i \in DOMAIN DrawnZones : B!ZoneImage(DrawnZones[i]) \in HostOrders /\ B!ZoneImage(DrawnZones[i]).serial = bSerial
    BY <1>2, HostOrderly
  <2>3. q \in Seq(HostOrders) /\ \A i \in DOMAIN q : q[i].serial = bSerial
    BY <2>1, <2>2
  <2> QED
    BY <1>5, <2>3, HostWritten DEF B!ClearTouchStrip
<1> QED
  BY <1>1, <1>2, <1>3, <1>4, <1>5, HostOrderly DEF B!SetKeyImage, B!SetZoneImage, B!SetBrightness, B!KeepAlive

LEMMA HostStep == HostInv /\ [B!Next]_B!vars => HostInv'
<1> SUFFICES ASSUME HostInv, [B!Next]_B!vars PROVE HostInv'
  OBVIOUS
<1>1. ASSUME NEW d \in Serials, NEW slot \in PressedSlots, NEW state \in 0..1, B!ReadSlot(d, slot, state) PROVE HostInv'
  <2>1. PICK u \in 1..15 : B!UiIndexToSlot[u] = slot /\ B!Read(d, u, state, slot)
    BY <1>1 DEF B!ReadSlot, B!UiKeys
  <2>2. slot \in 0..15
    BY <2>1, HostInjective
  <2> QED
    BY <2>1, <2>2, HostReads
<1>2. ASSUME NEW d \in Serials, NEW code \in ReadCodes, NEW state \in 0..1, B!ReadCode(d, code, state) PROVE HostInv'
  BY <1>2, HostReads, HostAssumption DEF B!ReadCode
<1>3. CASE B!Open \/ B!Closed
  BY <1>3, HostStartsAfresh DEF B!Open, B!Closed
<1>4. CASE B!StartFails \/ B!Opened \/ B!Finished \/ B!Close
  <2>1. /\ bPhase' \in {"closed", "open", bPhase, "closing"} /\ bRunning' \in {bRunning, FALSE} /\ eof' \in {eof, TRUE}
        /\ UNCHANGED <<bus, B!hostVars, stdin, stdout, bReady, bSerial, lit, bHeard>>
    BY <1>4 DEF B!StartFails, B!Opened, B!Finished, B!Close, B!pipeVars
  <2>2. HostDocksInv' /\ HostPipeInv'
    BY <2>1 DEF HostInv, HostDocksInv, HostPipeInv, B!hostVars
  <2>3. HostReadyInv' /\ HostPictureInv'
    BY <2>1 DEF HostInv, HostReadyInv, HostPictureInv, B!hostVars, HostConnecting
  <2> QED
    BY <2>2, <2>3 DEF HostInv
<1>5. ASSUME NEW d \in Serials, B!Plug(d) \/ B!Unplug(d) PROVE HostInv'
  BY <1>5 DEF B!Plug, B!Unplug, HostInv, HostDocksInv, HostPipeInv, HostReadyInv, HostPictureInv, B!hostVars,
     B!pipeVars, B!clientVars, HostConnecting
<1>6. CASE UNCHANGED B!vars
  BY <1>6 DEF B!vars, HostInv, HostDocksInv, HostPipeInv, HostReadyInv, HostPictureInv, B!hostVars,
     B!pipeVars, B!clientVars, HostConnecting
<1>7. ASSUME B!HostStep PROVE HostInv'
  BY <1>1, <1>2, <1>7, HostEnumerates, HostEnumerationEnds, HostSaysReady, HostServes, HostIsOver,
     HostOpensDock,
     HostReaderIsOver DEF B!HostStep
<1>8. ASSUME B!ClientStep PROVE HostInv'
  BY <1>3, <1>4, <1>8, HostLineIsRead, HostCommands DEF B!ClientStep
<1> QED
  BY <1>5, <1>6, <1>7, <1>8 DEF B!Next

(* A key that shows the picture of key k is reported as key k, a command of an*)
(* open backend names a dock its host knows and an open backend has a host    *)
(* that has opened its docks, in states of the right types (Sidecar): for any *)
(* docks plugged in, whichever the host opens or loses, and pipes however long*)
THEOREM SidecarIsAlwaysTrue == B!Spec => [](B!TypeOK /\ B!SidecarIsTrue)
BY HostBegins, HostStep, HostFollows, PTL DEF B!Spec
-----------------------------------------------------------------------------
(* Surfaces. What a place will show once the map of writes is drained is owed *)
(* to it: the face of its binding, unless somebody drew over it since. Of two *)
(* writes for one place the later counts, as the map is ordered. What a key   *)
(* reverts to is what is queued for it, or what it shows.                     *)
FaceTypes ==
  /\ fProfile \in FaceProfiles /\ fActive \in Panels \cup {NoDock} /\ fTimer \in BOOLEAN /\ fAlive \in BOOLEAN
  /\ fPending \in [F!Surfaces -> F!Pictures \cup {NoDock}] /\ fShown \in [F!Places -> F!Pictures \cup {NoDock}]
  /\ fLast \in [F!KeyPlaces -> F!Pictures \cup {NoDock}] /\ fCarousel \in 0..Len(fProfile.pages)
  /\ fPainted \subseteq {"keys", "dials"} /\ fDrawn \subseteq F!Places \cup F!Surfaces /\ fWiped \subseteq F!KeyPlaces

(* What a place shows once the map is drained is owed to it. *)
FaceOwed(p, picture) == picture # NoDock /\ p \in Screens[fActive] \ (fDrawn \cup fWiped) => F!Sent(p) = picture
FaceDue ==
  fActive # NoDock /\ fAlive =>
    /\ "keys" \in fPainted => \A k \in DOMAIN F!Page : FaceOwed(F!DeviceKey(k), F!KeyFace(F!Page[k]))
    /\ "dials" \in fPainted => \A e \in DOMAIN fProfile.dials : FaceOwed(<<"zone", e>>, F!Face(fProfile.dials[e]))
FaceLastIsQueued == \A p \in F!KeyPlaces : fPending[p] = NoDock \/ fLast[p] = NoDock \/ fPending[p] = fLast[p]
FaceLastIsShown ==
  fActive # NoDock /\ fAlive =>
    \A p \in F!KeyPlaces \cap Screens[fActive] :
      p \in fWiped \/ fLast[p] = NoDock \/ fPending[p] # NoDock \/ fShown[p] \in {NoDock, fLast[p]}

FaceLightInv ==
  /\ fRemembered \in [Panels -> F!Unset..100] /\ fLevel \in [Panels -> F!Unset..100] /\ fDimmed \subseteq Panels
  /\ F!LevelIsKnown
FacePaintInv == FaceTypes /\ FaceDue /\ FaceLastIsQueued /\ FaceLastIsShown /\ (~fTimer => fPending = F!Nothing)
FaceInv == FacePaintInv /\ FaceLightInv
LEMMA FacePlacesAre ==
  /\ F!Places \subseteq ({"key"} \X (1..F!KeyRange)) \cup ({"main"} \X {0}) \cup ({"zone"} \X Nat)
  /\ \A d \in Panels : Screens[d] \subseteq F!Places
  /\ \A p \in F!KeyPlaces : p \in F!Places /\ p[1] = "key" /\ p[2] \in 1..F!KeyRange /\ p = <<"key", p[2]>>
  /\ \A p \in F!Places : p[1] = "key" => p \in F!KeyPlaces
  /\ \A s \in F!Surfaces : s = <<s[1], s[2]>> /\ s[2] \in Nat /\ s[1] \in {"key", "main", "zone", "encoder"}
  /\ F!Places \subseteq F!Surfaces /\ F!KeyPlaces \subseteq F!Surfaces
  /\ \A s \in F!Surfaces : s[1] = "encoder" => <<"zone", s[2]>> \in F!Places
  /\ \A s \in F!Surfaces : s[1] = "zone" => s \in F!Places
  /\ \A s \in F!Surfaces : s[1] = "key" => s \in F!KeyPlaces
<1>1. F!Places \subseteq ({"key"} \X (1..F!KeyRange)) \cup ({"main"} \X {0}) \cup ({"zone"} \X Nat)
  BY FaceAssumption DEF F!Places
<1>2. \A d \in Panels : Screens[d] \subseteq F!Places
  BY DEF F!Places
<1>3. \A p \in F!KeyPlaces : p \in F!Places /\ p[1] = "key" /\ p[2] \in 1..F!KeyRange /\ p = <<"key", p[2]>>
  BY <1>1 DEF F!KeyPlaces
<1>4. \A z \in F!Zones : z[1] = "zone" /\ z[2] \in Nat /\ z \in F!Places /\ z = <<"zone", z[2]>>
  BY <1>1 DEF F!Zones
<1>5. \A s \in F!Places : s = <<s[1], s[2]>> /\ s[2] \in Nat /\ s[1] \in {"key", "main", "zone"}
  BY <1>1 DEF F!KeyRange
<1>6. \A s \in F!Surfaces : s \in F!Places \/ (\E z \in F!Zones : s = <<"encoder", z[2]>>) \/ s = <<"main", 0>>
  BY DEF F!Surfaces
<1>7. \A s \in F!Surfaces : s = <<s[1], s[2]>> /\ s[2] \in Nat /\ s[1] \in {"key", "main", "zone", "encoder"}
  BY <1>4, <1>5, <1>6
<1>8. F!Places \subseteq F!Surfaces /\ F!KeyPlaces \subseteq F!Surfaces
  BY DEF F!Surfaces, F!KeyPlaces
<1>9. \A s \in F!Surfaces : s[1] = "encoder" => <<"zone", s[2]>> \in F!Places
  BY <1>4, <1>5, <1>6
<1>10. \A s \in F!Surfaces : s[1] = "zone" => s \in F!Places
  BY <1>6
<1>11. \A p \in F!Places : p[1] = "key" => p \in F!KeyPlaces
  BY DEF F!KeyPlaces
<1>12. \A s \in F!Surfaces : s[1] = "key" => s \in F!Places
  BY <1>6
<1> HIDE DEF F!Places, F!KeyPlaces, F!Surfaces, F!Zones
<1> QED
  BY <1>1, <1>2, <1>3, <1>7, <1>8, <1>9, <1>10, <1>11, <1>12

(* What a place of dock a shows once the writes q are drained on it that shows v. *)
FaceOn(s, a) == a # NoDock /\ s[1] \in SurfaceTags[a]
FaceWrites(p, a, q) == {s \in F!Surfaces : F!Over(s) = p /\ q[s] # NoDock /\ FaceOn(s, a)}
FaceDrawing(p, a, q, v) ==
  IF FaceWrites(p, a, q) = {} \/ p \notin Screens[a] THEN v[p]
  ELSE q[CHOOSE s \in FaceWrites(p, a, q) : \A t \in FaceWrites(p, a, q) : t = s \/ F!Before(t, s)]

LEMMA FaceSentIs ==
  ASSUME NEW p
  PROVE  /\ F!Sent(p) = FaceDrawing(p, fActive, fPending, fShown)
         /\ F!Sent(p)' = FaceDrawing(p, fActive', fPending', fShown')
<1>1. F!Sent(p) = FaceDrawing(p, fActive, fPending, fShown)
  BY DEF F!Sent, FaceDrawing, FaceWrites, FaceOn, F!Castable
<1>2. F!Sent(p)' = FaceDrawing(p, fActive', fPending', fShown')
  BY DEF F!Sent, FaceDrawing, FaceWrites, FaceOn, F!Castable
<1> QED
  BY <1>1, <1>2

(* Of the writes for one place one is the last. *)
LEMMA FaceLastWrite ==
  ASSUME NEW p, NEW a, NEW q, FaceWrites(p, a, q) # {}
  PROVE  \E s \in FaceWrites(p, a, q) : \A t \in FaceWrites(p, a, q) : t = s \/ F!Before(t, s)
<1> DEFINE Q == FaceWrites(p, a, q)
           e == <<"encoder", p[2]>>
<1>1. \A s \in Q : s = p \/ (s[1] = "encoder" /\ <<"zone", s[2]>> = p)
  BY DEF FaceWrites, F!Over
<1>2. \A s \in Q : s = <<s[1], s[2]>>
  BY FacePlacesAre DEF FaceWrites
<1>3. \A s \in Q : s = p \/ (s = e /\ p[1] = "zone")
  BY <1>1, <1>2
<1>4. CASE p \in Q
  <2>1. \A t \in Q : t = p \/ F!Before(t, p)
    BY <1>3 DEF F!Before, F!Rank
  <2> QED
    BY <1>4, <2>1
<1>5. CASE p \notin Q
  <2>1. \A s \in Q : s = e
    BY <1>3, <1>5
  <2> QED
    BY <2>1
<1> QED
  BY <1>4, <1>5

(* A key's write is the only one for it. *)
LEMMA FaceDrawingKey ==
  ASSUME NEW p \in F!KeyPlaces, NEW a \in Panels, p \in Screens[a], NEW q, NEW v
  PROVE  FaceDrawing(p, a, q, v) = IF q[p] # NoDock THEN q[p] ELSE v[p]
<1> DEFINE Q == FaceWrites(p, a, q)
<1>1. \A s \in F!Surfaces : F!Over(s) = p => s = p
  BY FacePlacesAre DEF F!Over
<1>2. p \in F!Surfaces /\ F!Over(p) = p /\ FaceOn(p, a)
  BY FacePlacesAre, FaceAssumption DEF F!Over, FaceOn
<1>3. Q = IF q[p] # NoDock THEN {p} ELSE {}
  BY <1>1, <1>2 DEF FaceWrites
<1>4. FaceDrawing(p, a, q, v) = IF Q = {} THEN v[p] ELSE q[CHOOSE s \in Q : \A u \in Q : u = s \/ F!Before(u, s)]
  BY DEF FaceDrawing
<1> HIDE DEF Q
<1>5. Q = {p} => (CHOOSE s \in Q : \A u \in Q : u = s \/ F!Before(u, s)) = p
  OBVIOUS
<1> QED
  BY <1>3, <1>4, <1>5

(* A zone's write is the last of the two for it. *)
LEMMA FaceDrawingZone ==
  ASSUME NEW e, <<"zone", e>> \in F!Surfaces, NEW a \in Panels, <<"zone", e>> \in Screens[a], NEW q, NEW v,
         q[<<"zone", e>>] # NoDock
  PROVE  FaceDrawing(<<"zone", e>>, a, q, v) = q[<<"zone", e>>]
<1> DEFINE p == <<"zone", e>>
           Q == FaceWrites(p, a, q)
<1>1. \A s \in Q : s = p \/ s[1] = "encoder"
  BY FacePlacesAre DEF F!Over, FaceWrites
<1>2. p \in Q
  BY FaceAssumption DEF F!Over, FaceOn, FaceWrites
<1>3. p[1] = "zone"
  OBVIOUS
<1>4. FaceDrawing(p, a, q, v) = q[CHOOSE s \in Q : \A u \in Q : u = s \/ F!Before(u, s)]
  BY <1>2 DEF FaceDrawing
<1> HIDE DEF Q, p
<1>6. \A u \in Q : u = p \/ F!Before(u, p)
  BY <1>1, <1>3 DEF F!Before, F!Rank
<1>7. ASSUME NEW s \in Q, \A u \in Q : u = s \/ F!Before(u, s) PROVE s = p
  <2>1. p = s \/ F!Before(p, s)
    BY <1>2, <1>7
  <2> QED
    BY <1>1, <1>3, <2>1 DEF F!Before, F!Rank
<1>8. (CHOOSE s \in Q : \A u \in Q : u = s \/ F!Before(u, s)) = p
  BY <1>2, <1>6, <1>7
<1> QED
  BY <1>4, <1>8 DEF p

(* Where nothing is written and nothing queued, the same is to be shown. *)
LEMMA FaceDrawingStays ==
  ASSUME NEW p, NEW a, NEW q, NEW r, NEW v, NEW w, w[p] = v[p],
         \A s \in F!Surfaces : F!Over(s) = p => r[s] = q[s]
  PROVE  FaceDrawing(p, a, r, w) = FaceDrawing(p, a, q, v)
<1> DEFINE Q == FaceWrites(p, a, q)
           x == CHOOSE s \in Q : \A u \in Q : u = s \/ F!Before(u, s)
<1>1. FaceWrites(p, a, r) = Q
  BY DEF FaceWrites
<1>2. \A s \in Q : r[s] = q[s]
  BY DEF FaceWrites
<1>3. FaceDrawing(p, a, q, v) = IF Q = {} \/ p \notin Screens[a] THEN v[p] ELSE q[x]
  BY DEF FaceDrawing
<1>4. FaceDrawing(p, a, r, w) = IF Q = {} \/ p \notin Screens[a] THEN w[p] ELSE r[x]
  BY <1>1 DEF FaceDrawing
<1>5. Q # {} => \E s \in Q : \A t \in Q : t = s \/ F!Before(t, s)
  BY FaceLastWrite
<1> HIDE DEF Q
<1>6. Q # {} => x \in Q
  BY <1>5
<1> HIDE DEF x
<1> QED
  BY <1>2, <1>3, <1>4, <1>6
(* Pages and dials show pictures. *)
FaceIsPage(keys) == DOMAIN keys \subseteq Nat /\ \A k \in DOMAIN keys : F!KeyFace(keys[k]) \in F!Pictures \cup {NoDock}
FaceHasDials(p) == DOMAIN p.dials \subseteq Nat /\ \A e \in DOMAIN p.dials : F!Face(p.dials[e]) \in F!Pictures \cup {NoDock}

LEMMA FaceProfilesShowPictures ==
  ASSUME NEW p \in FaceProfiles
  PROVE  FaceIsPage(p.keys) /\ FaceHasDials(p) /\ Len(p.pages) \in Nat /\ \A i \in 1..Len(p.pages) : FaceIsPage(p.pages[i])
<1>1. /\ DOMAIN p.keys \subseteq Nat /\ DOMAIN p.dials \subseteq Nat
      /\ p.pages \in Seq({p.pages[i] : i \in DOMAIN p.pages})
      /\ \A i \in DOMAIN p.pages : DOMAIN p.pages[i] \subseteq Nat
  BY FaceAssumption
<1>2. Len(p.pages) \in Nat /\ DOMAIN p.pages = 1..Len(p.pages)
  BY <1>1
<1> DEFINE Of(x) == {x.keys[k] : k \in DOMAIN x.keys} \cup {x.dials[e] : e \in DOMAIN x.dials}
                   \cup UNION {{x.pages[i][k] : k \in DOMAIN x.pages[i]} : i \in DOMAIN x.pages}
           All == UNION {Of(x) : x \in FaceProfiles}
<1>3. F!Pictures = {Art, Black} \cup UNION {{b.image, b.back} : b \in All}
  BY DEF F!Pictures
<1>4. Of(p) \subseteq All
  OBVIOUS
<1>5. \A k \in DOMAIN p.keys : p.keys[k] \in Of(p)
  OBVIOUS
<1>6. \A e \in DOMAIN p.dials : p.dials[e] \in Of(p)
  OBVIOUS
<1>7. \A i \in DOMAIN p.pages : \A k \in DOMAIN p.pages[i] : p.pages[i][k] \in Of(p)
  OBVIOUS
<1> HIDE DEF Of, All
<1>8. \A b \in All : b.image \in F!Pictures /\ b.back \in F!Pictures /\ Black \in F!Pictures
  BY <1>3
<1>9. \A b \in All : F!Face(b) \in F!Pictures /\ F!KeyFace(b) \in F!Pictures
  BY <1>8 DEF F!Face, F!KeyFace
<1> QED
  BY <1>1, <1>2, <1>4, <1>5, <1>6, <1>7, <1>9 DEF FaceIsPage, FaceHasDials

LEMMA FaceBindingsAreAPage ==
  ASSUME FaceTypes, NEW n \in 0..Len(fProfile.pages)
  PROVE  FaceIsPage(F!Bindings(n))
<1>1. Len(fProfile.pages) \in Nat /\ FaceIsPage(fProfile.keys) /\ \A i \in 1..Len(fProfile.pages) : FaceIsPage(fProfile.pages[i])
  BY FaceProfilesShowPictures DEF FaceTypes
<1>2. n = 0 \/ n \in 1..Len(fProfile.pages)
  BY <1>1
<1> QED
  BY <1>1, <1>2 DEF F!Bindings, F!Root

(* The keys that a repaint touches. *)
FaceTouched(keys) == {F!DeviceKey(k) : k \in F!Repainted(keys)}

LEMMA FaceTouchedAre ==
  ASSUME NEW keys, FaceIsPage(keys)
  PROVE  /\ FaceTouched(keys) \subseteq F!KeyPlaces
         /\ \A p \in FaceTouched(keys) : F!FaceAt(keys, p) # NoDock /\ F!FaceAt(keys, p) \in F!Pictures
         /\ \A k \in DOMAIN keys :
              fActive \in Panels /\ F!KeyFace(keys[k]) # NoDock /\ F!DeviceKey(k) \in Screens[fActive]
              => F!DeviceKey(k) \in FaceTouched(keys) /\ F!FaceAt(keys, F!DeviceKey(k)) = F!KeyFace(keys[k])
<1>1. \A k \in F!Repainted(keys) : k \in DOMAIN keys /\ k \in Nat /\ F!KeyFace(keys[k]) # NoDock /\ F!DeviceKey(k) \in F!Surfaces
  BY DEF F!Repainted, FaceIsPage
<1>2. \A k \in DOMAIN keys : F!FaceAt(keys, F!DeviceKey(k)) = F!KeyFace(keys[k])
  <2>1. \A k \in Nat : F!DeviceKey(k)[2] - 1 = k
    BY DEF F!DeviceKey
  <2> QED
    BY <2>1 DEF F!FaceAt, FaceIsPage
<1>3. \A k : F!DeviceKey(k)[1] = "key"
  BY DEF F!DeviceKey
<1>4. FaceTouched(keys) \subseteq F!KeyPlaces
  BY <1>1, <1>3, FacePlacesAre DEF FaceTouched
<1>5. ASSUME NEW k \in DOMAIN keys, fActive \in Panels, F!KeyFace(keys[k]) # NoDock, F!DeviceKey(k) \in Screens[fActive]
      PROVE  k \in F!Repainted(keys)
  <2>1. F!DeviceKey(k) \in F!KeyPlaces /\ F!DeviceKey(k) \in F!Surfaces
    BY <1>5, <1>3, FacePlacesAre
  <2>2. k + 1 \in 1..F!KeyRange /\ k \in Nat
    BY <2>1, FacePlacesAre DEF F!DeviceKey, FaceIsPage
  <2>3. k < F!KeyRange
    BY <2>2 DEF F!KeyRange
  <2>4. "key" \in SurfaceTags[fActive] /\ fActive # NoDock
    BY <1>3, <1>5, FaceAssumption
  <2> QED
    BY <1>5, <2>1, <2>3, <2>4 DEF F!Repainted
<1> QED
  BY <1>1, <1>2, <1>4, <1>5 DEF FaceTouched, FaceIsPage

(* A repainted page is what its keys show once the map is drained. *)
LEMMA FacePageIsOwed ==
  ASSUME NEW keys, FaceIsPage(keys), NEW k \in DOMAIN keys, fActive \in Panels, UNCHANGED fActive,
         fPending' \in [F!Surfaces -> F!Pictures \cup {NoDock}],
         \A p \in F!KeyPlaces : fPending'[p] = F!KeysOver(keys, fPending)[p],
         F!KeyFace(keys[k]) # NoDock, F!DeviceKey(k) \in Screens[fActive]
  PROVE  F!Sent(F!DeviceKey(k))' = F!KeyFace(keys[k])
<1> DEFINE p == F!DeviceKey(k)
<1>1. p \in FaceTouched(keys) /\ F!FaceAt(keys, p) = F!KeyFace(keys[k]) /\ p \in F!KeyPlaces /\ p \in F!Surfaces
  BY FaceTouchedAre, FacePlacesAre
<1>2. fPending'[p] = F!FaceAt(keys, p)
  BY <1>1 DEF F!KeysOver, FaceTouched
<1>3. F!Sent(p)' = FaceDrawing(p, fActive, fPending', fShown')
  BY FaceSentIs
<1> HIDE DEF p
<1>4. FaceDrawing(p, fActive, fPending', fShown') = fPending'[p]
  BY <1>1, <1>2, FaceDrawingKey DEF p
<1> QED
  BY <1>1, <1>2, <1>3, <1>4 DEF p

(* What a key reverts to is what is queued for it, or what it shows. *)
LEMMA FaceRepaintKeepsPictures ==
  ASSUME FaceTypes, FaceLastIsQueued, FaceLastIsShown, NEW keys, FaceIsPage(keys), F!RepaintPage(keys),
         UNCHANGED <<fActive, fAlive, fShown>>,
         \A p \in F!KeyPlaces : fPending'[p] = F!KeysOver(keys, fPending)[p]
  PROVE  /\ fLast' \in [F!KeyPlaces -> F!Pictures \cup {NoDock}] /\ fWiped' \subseteq F!KeyPlaces
         /\ FaceLastIsQueued' /\ FaceLastIsShown'
<1> DEFINE K == FaceTouched(keys)
<1>1. \A p \in F!KeyPlaces : fLast'[p] = IF p \notin K THEN fLast[p]
                                     ELSE IF F!Face(keys[p[2] - 1]) = NoDock THEN NoDock ELSE F!FaceAt(keys, p)
  BY DEF F!RepaintPage, FaceTouched
<1>2. DOMAIN fLast' = F!KeyPlaces /\ fLast' = [p \in F!KeyPlaces |-> fLast'[p]] /\ fWiped' = fWiped \ K
  BY DEF F!RepaintPage, FaceTouched
<1>3. \A p \in F!KeyPlaces : fPending'[p] = IF p \in K THEN F!FaceAt(keys, p) ELSE fPending[p]
  BY FacePlacesAre DEF F!KeysOver, FaceTouched
<1>4. \A p \in K : F!FaceAt(keys, p) # NoDock /\ F!FaceAt(keys, p) \in F!Pictures
  BY FaceTouchedAre
<1> HIDE DEF K
<1>5. fLast' \in [F!KeyPlaces -> F!Pictures \cup {NoDock}]
  <2>1. \A p \in F!KeyPlaces : fLast'[p] \in F!Pictures \cup {NoDock}
    BY <1>1, <1>4 DEF FaceTypes
  <2> QED
    BY <1>2, <2>1
<1>6. FaceLastIsQueued'
  BY <1>1, <1>3 DEF FaceLastIsQueued
<1>7. FaceLastIsShown'
  BY <1>1, <1>2, <1>3, <1>4 DEF FaceLastIsShown
<1> QED
  BY <1>2, <1>5, <1>6, <1>7 DEF FaceTypes

(* The dials too. *)
LEMMA FaceDialsAreOwed ==
  ASSUME NEW p, FaceHasDials(p), NEW e \in DOMAIN p.dials, fActive \in Panels, UNCHANGED fActive,
         NEW q, fPending' = F!DialsOver(p, q),
         F!Face(p.dials[e]) # NoDock, <<"zone", e>> \in Screens[fActive]
  PROVE  F!Sent(<<"zone", e>>)' = F!Face(p.dials[e])
<1> DEFINE z == <<"zone", e>>
<1>1. z \in F!Surfaces /\ "zone" \in SurfaceTags[fActive] /\ fActive # NoDock
  BY FacePlacesAre, FaceAssumption
<1>2. e \in F!DialsPainted(p)
  BY <1>1 DEF F!DialsPainted
<1>3. fPending'[z] = F!Face(p.dials[e])
  BY <1>1, <1>2 DEF F!DialsOver
<1>4. F!Sent(z)' = FaceDrawing(z, fActive, fPending', fShown')
  BY FaceSentIs
<1>5. FaceDrawing(z, fActive, fPending', fShown') = fPending'[z]
  BY <1>1, <1>3, FaceDrawingZone
<1> QED
  BY <1>3, <1>4, <1>5
LEMMA FaceKeysOverAreTyped ==
  ASSUME NEW keys, FaceIsPage(keys), NEW q \in [F!Surfaces -> F!Pictures \cup {NoDock}]
  PROVE  F!KeysOver(keys, q) \in [F!Surfaces -> F!Pictures \cup {NoDock}]
<1>1. F!KeysOver(keys, q) = [s \in F!Surfaces |-> IF s \in FaceTouched(keys) THEN F!FaceAt(keys, s) ELSE q[s]]
  BY DEF F!KeysOver, FaceTouched
<1> QED
  BY <1>1, FaceTouchedAre

LEMMA FaceDialsOverAreTyped ==
  ASSUME NEW p, FaceHasDials(p), NEW q \in [F!Surfaces -> F!Pictures \cup {NoDock}]
  PROVE  /\ F!DialsOver(p, q) \in [F!Surfaces -> F!Pictures \cup {NoDock}]
         /\ \A s \in F!KeyPlaces : F!DialsOver(p, q)[s] = q[s]
<1>1. \A e \in F!DialsPainted(p) : e \in DOMAIN p.dials
  BY DEF F!DialsPainted
<1>2. \A s \in F!Surfaces : F!DialsOver(p, q)[s] \in F!Pictures \cup {NoDock}
  BY <1>1 DEF F!DialsOver, FaceHasDials
<1>3. F!DialsOver(p, q) = [s \in F!Surfaces |-> F!DialsOver(p, q)[s]]
  BY DEF F!DialsOver
<1>4. \A s \in F!KeyPlaces : F!DialsOver(p, q)[s] = q[s]
  BY FacePlacesAre DEF F!DialsOver
<1> QED
  BY <1>2, <1>3, <1>4

(* What a step without a write leaves to be shown. *)
LEMMA FaceOwedStays ==
  ASSUME UNCHANGED fActive, NEW p, NEW picture, FaceOwed(p, picture),
         p \in (fDrawn \cup fWiped) => p \in (fDrawn' \cup fWiped'),
         p \in Screens[fActive] \ (fDrawn' \cup fWiped') =>
           fShown'[p] = fShown[p] /\ \A s \in F!Surfaces : F!Over(s) = p => fPending'[s] = fPending[s]
  PROVE  FaceOwed(p, picture)'
<1> SUFFICES ASSUME picture # NoDock, p \in Screens[fActive] \ (fDrawn' \cup fWiped') PROVE F!Sent(p)' = picture
  BY DEF FaceOwed
<1>1. F!Sent(p) = picture
  BY DEF FaceOwed
<1>2. F!Sent(p) = FaceDrawing(p, fActive, fPending, fShown) /\ F!Sent(p)' = FaceDrawing(p, fActive, fPending', fShown')
  BY FaceSentIs
<1>3. FaceDrawing(p, fActive, fPending', fShown') = FaceDrawing(p, fActive, fPending, fShown)
  BY FaceDrawingStays
<1> QED
  BY <1>1, <1>2, <1>3

LEMMA FaceBegins ==
  ASSUME F!Init
  PROVE  FaceInv
<1>1. FaceTypes
  <2>1. fProfile \in FaceProfiles /\ fCarousel = 0 /\ Len(fProfile.pages) \in Nat
    BY FaceProfilesShowPictures DEF F!Init
  <2>2. /\ fPending \in [F!Surfaces -> F!Pictures \cup {NoDock}] /\ fShown \in [F!Places -> F!Pictures \cup {NoDock}]
        /\ fLast \in [F!KeyPlaces -> F!Pictures \cup {NoDock}]
    BY DEF F!Init, F!Nothing, F!Unseen
  <2>3. fPainted = {} /\ fDrawn = {} /\ fWiped = {} /\ fAlive = FALSE /\ fTimer = FALSE /\ fActive = NoDock
    BY DEF F!Init
  <2>4. fCarousel \in 0..Len(fProfile.pages)
    BY <2>1
  <2>5. fWiped \subseteq F!KeyPlaces /\ fDrawn \subseteq F!Places \cup F!Surfaces
    BY <2>3
  <2> QED
    BY <2>1, <2>2, <2>3, <2>4, <2>5 DEF FaceTypes
<1>2. FaceDue /\ FaceLastIsShown
  BY DEF F!Init, FaceDue, FaceLastIsShown
<1>3. FaceLastIsQueued
  BY FacePlacesAre DEF F!Init, FaceLastIsQueued, F!Nothing
<1>4. FaceLightInv
  BY DEF F!Init, FaceLightInv, F!LevelIsKnown, F!Unset
<1> QED
  BY <1>1, <1>2, <1>3, <1>4 DEF FaceInv, FacePaintInv, F!Init

LEMMA FaceProfileChangedKeeps ==
  ASSUME FacePaintInv, NEW p \in FaceProfiles, F!ProfileChanged(p)
  PROVE  FacePaintInv'
<1> DEFINE q == F!KeysOver(p.keys, fPending)
<1>1. FaceIsPage(p.keys) /\ FaceHasDials(p) /\ Len(p.pages) \in Nat
  BY FaceProfilesShowPictures
<1>2. q \in [F!Surfaces -> F!Pictures \cup {NoDock}]
  BY <1>1, FaceKeysOverAreTyped DEF FacePaintInv, FaceTypes
<1>3. fPending' = F!DialsOver(p, q)
  BY DEF F!ProfileChanged
<1> HIDE DEF q
<1>4. fPending' \in [F!Surfaces -> F!Pictures \cup {NoDock}] /\ \A s \in F!KeyPlaces : fPending'[s] = q[s]
  BY <1>1, <1>2, <1>3, FaceDialsOverAreTyped
<1>5. \A s \in F!KeyPlaces : fPending'[s] = F!KeysOver(p.keys, fPending)[s]
  BY <1>4 DEF q
<1>6. /\ fLast' \in [F!KeyPlaces -> F!Pictures \cup {NoDock}] /\ fWiped' \subseteq F!KeyPlaces
      /\ FaceLastIsQueued' /\ FaceLastIsShown'
  BY <1>1, <1>5, FaceRepaintKeepsPictures DEF FacePaintInv, F!ProfileChanged
<1>7. FaceTypes'
  BY <1>1, <1>4, <1>6 DEF FacePaintInv, FaceTypes, F!ProfileChanged
<1>8. FaceDue'
  <2> SUFFICES ASSUME fActive # NoDock
               PROVE  /\ \A k \in DOMAIN p.keys : FaceOwed(F!DeviceKey(k), F!KeyFace(p.keys[k]))'
                      /\ \A e \in DOMAIN p.dials : FaceOwed(<<"zone", e>>, F!Face(p.dials[e]))'
    BY DEF FaceDue, F!ProfileChanged, F!Page, F!Bindings, F!Root
  <2>1. fActive \in Panels /\ UNCHANGED fActive
    BY DEF FacePaintInv, FaceTypes, F!ProfileChanged
  <2>2. ASSUME NEW k \in DOMAIN p.keys, F!KeyFace(p.keys[k]) # NoDock, F!DeviceKey(k) \in Screens[fActive]
        PROVE  F!Sent(F!DeviceKey(k))' = F!KeyFace(p.keys[k])
    BY <1>1, <1>4, <1>5, <2>1, <2>2, FacePageIsOwed
  <2>3. ASSUME NEW e \in DOMAIN p.dials, F!Face(p.dials[e]) # NoDock, <<"zone", e>> \in Screens[fActive]
        PROVE  F!Sent(<<"zone", e>>)' = F!Face(p.dials[e])
    BY <1>1, <1>3, <2>1, <2>3, FaceDialsAreOwed
  <2> QED
    BY <2>1, <2>2, <2>3 DEF FaceOwed
<1>9. ~fTimer' => fPending' = F!Nothing
  <2> SUFFICES ASSUME ~fTimer' PROVE fPending' = F!Nothing
    OBVIOUS
  <2>1. ~fTimer /\ F!Repainted(p.keys) = {} /\ F!DialsPainted(p) = {}
    BY DEF F!ProfileChanged
  <2>2. fPending = F!Nothing
    BY <2>1 DEF FacePaintInv
  <2>3. q = F!Nothing
    BY <2>1, <2>2 DEF q, F!KeysOver, F!Nothing
  <2> QED
    BY <1>3, <2>1, <2>3 DEF F!DialsOver, F!Nothing
<1> QED
  BY <1>6, <1>7, <1>8, <1>9 DEF FacePaintInv

LEMMA FaceNavigatePageKeeps ==
  ASSUME FacePaintInv, NEW n \in Int, F!NavigatePage(n)
  PROVE  FacePaintInv'
<1> DEFINE at == F!Clamp(fCarousel + n, 0, Len(fProfile.pages))
<1> PICK keys : keys = F!Bindings(at)
  OBVIOUS
<1>1. Len(fProfile.pages) \in Nat /\ FaceHasDials(fProfile)
  BY FaceProfilesShowPictures DEF FacePaintInv, FaceTypes
<1>2. at \in 0..Len(fProfile.pages)
  BY <1>1 DEF FacePaintInv, FaceTypes, F!Clamp
<1>3. /\ fCarousel' = at /\ fPending' = F!KeysOver(keys, fPending) /\ F!RepaintPage(keys)
      /\ fTimer' = (fTimer \/ F!Repainted(keys) # {})
      /\ fDrawn' = fDrawn \ FaceTouched(keys)
      /\ fPainted' = IF fActive = NoDock THEN fPainted ELSE fPainted \cup {"keys"}
      /\ UNCHANGED <<fProfile, fActive, fAlive, fShown>>
  BY DEF F!NavigatePage, FaceTouched
<1>4. F!Page' = keys
  BY <1>3 DEF F!Page, F!Bindings
<1> HIDE DEF at
<1>5. FaceIsPage(keys)
  BY <1>2, FaceBindingsAreAPage DEF FacePaintInv
<1>6. fPending' \in [F!Surfaces -> F!Pictures \cup {NoDock}]
  BY <1>3, <1>5, FaceKeysOverAreTyped DEF FacePaintInv, FaceTypes
<1>7. /\ fLast' \in [F!KeyPlaces -> F!Pictures \cup {NoDock}] /\ fWiped' \subseteq F!KeyPlaces
      /\ FaceLastIsQueued' /\ FaceLastIsShown'
  BY <1>3, <1>5, FaceRepaintKeepsPictures DEF FacePaintInv
<1>8. FaceTypes'
  BY <1>2, <1>3, <1>6, <1>7 DEF FacePaintInv, FaceTypes
<1>9. FaceDue'
  <2> SUFFICES ASSUME fActive # NoDock, fAlive
               PROVE  /\ \A k \in DOMAIN keys : FaceOwed(F!DeviceKey(k), F!KeyFace(keys[k]))'
                      /\ "dials" \in fPainted =>
                           \A e \in DOMAIN fProfile.dials : FaceOwed(<<"zone", e>>, F!Face(fProfile.dials[e]))'
    BY <1>3, <1>4 DEF FaceDue
  <2>1. fActive \in Panels
    BY DEF FacePaintInv, FaceTypes
  <2>2. ASSUME NEW k \in DOMAIN keys, F!KeyFace(keys[k]) # NoDock, F!DeviceKey(k) \in Screens[fActive]
        PROVE  F!Sent(F!DeviceKey(k))' = F!KeyFace(keys[k])
    BY <1>3, <1>5, <1>6, <2>1, <2>2, FacePageIsOwed
  <2>3. \A k \in DOMAIN keys : FaceOwed(F!DeviceKey(k), F!KeyFace(keys[k]))'
    BY <1>3, <2>2 DEF FaceOwed
  <2>4. ASSUME "dials" \in fPainted, NEW e \in DOMAIN fProfile.dials
        PROVE  FaceOwed(<<"zone", e>>, F!Face(fProfile.dials[e]))'
    <3> DEFINE z == <<"zone", e>>
    <3>1. z[1] = "zone" /\ z \notin F!KeyPlaces
      BY FacePlacesAre
    <3>2. z \in fDrawn \cup fWiped => z \in fDrawn' \cup fWiped'
      BY <1>3, <1>5, <3>1, FaceTouchedAre DEF FacePaintInv, FaceTypes
    <3>3. \A s \in F!Surfaces : F!Over(s) = z => fPending'[s] = fPending[s]
      <4>1. \A s \in F!Surfaces : F!Over(s) = z => s \notin F!KeyPlaces
        BY <3>1, FacePlacesAre DEF F!Over
      <4>2. \A s \in F!Surfaces : s \notin FaceTouched(keys) => fPending'[s] = fPending[s]
        BY <1>3 DEF F!KeysOver, FaceTouched
      <4> QED
        BY <1>5, <4>1, <4>2, FaceTouchedAre
    <3>4. FaceOwed(z, F!Face(fProfile.dials[e]))
      BY <2>4 DEF FacePaintInv, FaceDue
    <3> HIDE DEF z
    <3>5. FaceOwed(z, F!Face(fProfile.dials[e]))'
      <4>1. ASSUME NEW face, FaceOwed(z, face) PROVE FaceOwed(z, face)'
        BY <1>3, <3>2, <3>3, <4>1, FaceOwedStays
      <4> QED
        BY <1>3, <3>4, <4>1
    <3> QED
      BY <3>5 DEF z
  <2> QED
    BY <2>3, <2>4
<1>10. ~fTimer' => fPending' = F!Nothing
  <2> SUFFICES ASSUME ~fTimer' PROVE fPending' = F!Nothing
    OBVIOUS
  <2>1. ~fTimer /\ F!Repainted(keys) = {}
    BY <1>3
  <2>2. fPending = F!Nothing
    BY <2>1 DEF FacePaintInv
  <2> QED
    BY <1>3, <2>1, <2>2 DEF F!KeysOver, F!Nothing
<1> QED
  BY <1>7, <1>8, <1>9, <1>10 DEF FacePaintInv

(* Where all that is owed stays owed, the faces do. *)
LEMMA FaceOwedFollows ==
  ASSUME FacePaintInv, UNCHANGED <<fProfile, fActive, fAlive, fCarousel, fPainted>>,
         ASSUME NEW p, NEW face, FaceOwed(p, face) PROVE FaceOwed(p, face)'
  PROVE  FaceDue'
<1>1. F!Page' = F!Page
  BY DEF F!Page, F!Bindings
<1> SUFFICES ASSUME fActive # NoDock, fAlive
             PROVE  /\ "keys" \in fPainted => \A k \in DOMAIN F!Page : FaceOwed(F!DeviceKey(k), F!KeyFace(F!Page[k]))'
                    /\ "dials" \in fPainted =>
                         \A e \in DOMAIN fProfile.dials : FaceOwed(<<"zone", e>>, F!Face(fProfile.dials[e]))'
  BY <1>1 DEF FaceDue
<1>2. ASSUME "keys" \in fPainted, NEW k \in DOMAIN F!Page PROVE FaceOwed(F!DeviceKey(k), F!KeyFace(F!Page[k]))'
  <2> PICK r, face : r = F!DeviceKey(k) /\ face = F!KeyFace(F!Page[k])
    OBVIOUS
  <2>1. FaceOwed(r, face)
    BY <1>2 DEF FacePaintInv, FaceDue
  <2>2. FaceOwed(r, face)'
    BY <2>1
  <2> QED
    BY <1>1, <2>2
<1>3. ASSUME "dials" \in fPainted, NEW e \in DOMAIN fProfile.dials
      PROVE  FaceOwed(<<"zone", e>>, F!Face(fProfile.dials[e]))'
  <2> PICK r, face : r = <<"zone", e>> /\ face = F!Face(fProfile.dials[e])
    OBVIOUS
  <2>1. FaceOwed(r, face)
    BY <1>3 DEF FacePaintInv, FaceDue
  <2>2. FaceOwed(r, face)'
    BY <2>1
  <2> QED
    BY <2>2
<1> QED
  BY <1>2, <1>3

(* A step that draws over one place, and queues what it draws. *)
LEMMA FaceDrawingOver ==
  ASSUME FacePaintInv, NEW p, NEW s \in F!Surfaces, F!Over(s) = p, p \in F!Places \cup F!Surfaces,
         UNCHANGED <<fProfile, fActive, fAlive, fCarousel, fShown, fPainted>>,
         fDrawn' = fDrawn \cup {p}, fWiped \ {p} \subseteq fWiped', fWiped' \subseteq fWiped,
         \A t \in F!Surfaces : t # s => fPending'[t] = fPending[t]
  PROVE  FaceDue'
<1>1. ASSUME NEW r, NEW face, FaceOwed(r, face) PROVE FaceOwed(r, face)'
  <2>1. r \in (fDrawn \cup fWiped) => r \in (fDrawn' \cup fWiped')
    OBVIOUS
  <2>2. r \notin fDrawn' => r # p
    OBVIOUS
  <2>3. r # p => \A t \in F!Surfaces : F!Over(t) = r => fPending'[t] = fPending[t]
    OBVIOUS
  <2> QED
    BY <1>1, <2>1, <2>2, <2>3, FaceOwedStays
<1> QED
  BY <1>1, FaceOwedFollows

LEMMA FaceAssignKeyKeeps ==
  ASSUME FacePaintInv, NEW p \in F!KeyPlaces, F!AssignKey(p, Art)
  PROVE  FacePaintInv'
<1>1. p \in F!Surfaces /\ F!Over(p) = p
  BY FacePlacesAre DEF F!Over
<1>2. /\ fPending' = [fPending EXCEPT ![p] = Art] /\ fTimer' = TRUE /\ fLast' = [fLast EXCEPT ![p] = Art]
      /\ fDrawn' = fDrawn \cup {p} /\ fWiped' = fWiped \ {p}
      /\ UNCHANGED <<fProfile, fActive, fAlive, fCarousel, fShown, fPainted>>
  BY DEF F!AssignKey, F!Queue
<1>3. Art \in F!Pictures /\ Art # NoDock
  BY FaceAssumption DEF F!Pictures
<1>4. FaceTypes'
  BY <1>1, <1>2, <1>3 DEF FacePaintInv, FaceTypes
<1>5. FaceLastIsQueued' /\ FaceLastIsShown'
  <2>1. \A r \in F!KeyPlaces : /\ fPending'[r] = IF r = p THEN Art ELSE fPending[r]
                               /\ fLast'[r] = IF r = p THEN Art ELSE fLast[r]
    BY <1>2, FacePlacesAre DEF FacePaintInv, FaceTypes
  <2> QED
    BY <1>2, <1>3, <2>1 DEF FacePaintInv, FaceLastIsQueued, FaceLastIsShown
<1>6. FaceDue'
  <2>1. \A t \in F!Surfaces : t # p => fPending'[t] = fPending[t]
    BY <1>2 DEF FacePaintInv, FaceTypes
  <2> QED
    BY <1>1, <1>2, <2>1, FaceDrawingOver
<1> QED
  BY <1>2, <1>4, <1>5, <1>6 DEF FacePaintInv

LEMMA FaceClearKeyKeeps ==
  ASSUME FacePaintInv, NEW p \in F!KeyPlaces, F!ClearKey(p)
  PROVE  FacePaintInv'
<1>1. p \in F!Surfaces /\ F!Over(p) = p
  BY FacePlacesAre DEF F!Over
<1>2. /\ \/ fPending' = [fPending EXCEPT ![p] = Black] /\ fTimer' = TRUE
         \/ UNCHANGED <<fPending, fTimer>>
      /\ fLast' = [fLast EXCEPT ![p] = NoDock]
      /\ fDrawn' = fDrawn \cup {p} /\ fWiped' = fWiped \ {p}
      /\ UNCHANGED <<fProfile, fActive, fAlive, fCarousel, fShown, fPainted>>
  BY DEF F!ClearKey, F!Queue
<1>3. Black \in F!Pictures /\ Black # NoDock
  BY FaceAssumption DEF F!Pictures
<1>4. FaceTypes'
  BY <1>1, <1>2, <1>3 DEF FacePaintInv, FaceTypes
<1>5. FaceLastIsQueued' /\ FaceLastIsShown'
  <2>1. \A r \in F!KeyPlaces : /\ r # p => fPending'[r] = fPending[r]
                               /\ fLast'[r] = IF r = p THEN NoDock ELSE fLast[r]
    BY <1>2, FacePlacesAre DEF FacePaintInv, FaceTypes
  <2> QED
    BY <1>2, <2>1 DEF FacePaintInv, FaceLastIsQueued, FaceLastIsShown
<1>6. FaceDue'
  <2>1. \A t \in F!Surfaces : t # p => fPending'[t] = fPending[t]
    BY <1>2 DEF FacePaintInv, FaceTypes
  <2> QED
    BY <1>1, <1>2, <2>1, FaceDrawingOver
<1> QED
  BY <1>2, <1>4, <1>5, <1>6 DEF FacePaintInv

LEMMA FaceAssignSurfaceKeeps ==
  ASSUME FacePaintInv, NEW s \in F!Surfaces \ F!KeyPlaces, F!AssignSurface(s, Art)
  PROVE  FacePaintInv'
<1>1. /\ fPending' = [fPending EXCEPT ![s] = Art] /\ fTimer' = TRUE /\ fDrawn' = fDrawn \cup {F!Over(s)}
      /\ UNCHANGED <<fProfile, fActive, fAlive, fLast, fCarousel, fShown, fPainted, fWiped>>
  BY DEF F!AssignSurface, F!Queue
<1>2. Art \in F!Pictures /\ F!Over(s) \in F!Places \cup F!Surfaces
  BY FacePlacesAre DEF F!Pictures, F!Over
<1>3. FaceTypes'
  BY <1>1, <1>2 DEF FacePaintInv, FaceTypes
<1>4. \A t \in F!Surfaces : t # s => fPending'[t] = fPending[t]
  BY <1>1 DEF FacePaintInv, FaceTypes
<1>5. FaceLastIsQueued' /\ FaceLastIsShown'
  BY <1>1, <1>4, FacePlacesAre DEF FacePaintInv, FaceLastIsQueued, FaceLastIsShown
<1>6. FaceDue'
  <2> PICK p : p = F!Over(s)
    OBVIOUS
  <2> QED
    BY <1>1, <1>2, <1>4, FaceDrawingOver
<1> QED
  BY <1>1, <1>3, <1>5, <1>6 DEF FacePaintInv

LEMMA FaceClearAllKeeps ==
  ASSUME FacePaintInv, F!ClearAll
  PROVE  FacePaintInv'
<1>1. /\ fActive # NoDock
      /\ UNCHANGED <<fProfile, fActive, fAlive, fPending, fTimer, fLast, fCarousel, fPainted, fDrawn>>
  BY DEF F!ClearAll
<1>2. \/ fAlive /\ fWiped' = F!KeyPlaces
         /\ fShown' = [p \in F!Places |-> IF p \in F!KeyPlaces \cap Screens[fActive] THEN Black ELSE fShown[p]]
      \/ ~fAlive /\ UNCHANGED <<fShown, fWiped>>
  BY DEF F!ClearAll
<1>3. CASE ~fAlive
  <2>1. FaceTypes' /\ FaceDue' /\ FaceLastIsQueued' /\ FaceLastIsShown'
    BY <1>1, <1>2, <1>3 DEF FacePaintInv, FaceTypes, FaceDue, FaceLastIsQueued, FaceLastIsShown
  <2> QED
    BY <1>1, <2>1 DEF FacePaintInv
<1>4. CASE fAlive
  <2>1. fWiped' = F!KeyPlaces /\ fShown' = [p \in F!Places |-> IF p \in F!KeyPlaces \cap Screens[fActive] THEN Black ELSE fShown[p]]
    BY <1>2, <1>4
  <2>2. FaceTypes'
    BY <1>1, <2>1 DEF FacePaintInv, FaceTypes, F!Pictures
  <2>3. FaceLastIsQueued' /\ FaceLastIsShown'
    BY <1>1, <2>1 DEF FacePaintInv, FaceLastIsQueued, FaceLastIsShown
  <2>4. ASSUME NEW p, NEW face, FaceOwed(p, face) PROVE FaceOwed(p, face)'
    <3>1. fWiped \subseteq F!KeyPlaces
      BY DEF FacePaintInv, FaceTypes
    <3>2. p \in fDrawn \cup fWiped => p \in fDrawn' \cup fWiped'
      BY <1>1, <2>1, <3>1
    <3>3. p \in Screens[fActive] => p \in F!Places
      BY <1>1, FacePlacesAre DEF FacePaintInv, FaceTypes
    <3>4. p \in Screens[fActive] \ (fDrawn' \cup fWiped') => fShown'[p] = fShown[p]
      BY <2>1, <3>3
    <3> QED
      BY <1>1, <2>4, <3>2, <3>4, FaceOwedStays
  <2>5. FaceDue'
    BY <1>1, <2>4, FaceOwedFollows
  <2> QED
    BY <1>1, <2>2, <2>3, <2>5 DEF FacePaintInv
<1> QED
  BY <1>3, <1>4

(* What is shown after a drain is what was owed before it. *)
LEMMA FaceDrainKeeps ==
  ASSUME FacePaintInv, F!Drain
  PROVE  FacePaintInv'
<1>1. /\ fPending' = F!Nothing /\ UNCHANGED <<fProfile, fActive, fAlive, fLast, fCarousel, fPainted, fDrawn, fWiped>>
      /\ fShown' = IF fActive # NoDock /\ fAlive THEN [p \in F!Places |-> F!Sent(p)] ELSE fShown
  BY DEF F!Drain
<1>2. \A s \in F!Surfaces : fPending'[s] = NoDock
  BY <1>1 DEF F!Nothing
<1>3. fPending' \in [F!Surfaces -> F!Pictures \cup {NoDock}]
  BY <1>1 DEF F!Nothing
<1>4. ASSUME NEW p \in F!Places PROVE F!Sent(p) \in F!Pictures \cup {NoDock}
  <2>1. F!Sent(p) = FaceDrawing(p, fActive, fPending, fShown)
    BY FaceSentIs
  <2>2. FaceWrites(p, fActive, fPending) # {} =>
          (CHOOSE s \in FaceWrites(p, fActive, fPending) : \A t \in FaceWrites(p, fActive, fPending) : t = s \/ F!Before(t, s))
          \in FaceWrites(p, fActive, fPending)
    BY FaceLastWrite
  <2>3. \A s \in FaceWrites(p, fActive, fPending) : fPending[s] \in F!Pictures
    BY DEF FaceWrites, FacePaintInv, FaceTypes
  <2>4. fShown[p] \in F!Pictures \cup {NoDock}
    BY DEF FacePaintInv, FaceTypes
  <2> QED
    BY <2>1, <2>2, <2>3, <2>4 DEF FaceDrawing
<1>5. FaceTypes'
  <2>1. fShown' \in [F!Places -> F!Pictures \cup {NoDock}]
    <3>1. CASE fActive # NoDock /\ fAlive
      <4>1. fShown' = [p \in F!Places |-> F!Sent(p)]
        BY <1>1, <3>1
      <4> QED
        BY <1>4, <4>1
    <3>2. CASE ~(fActive # NoDock /\ fAlive)
      BY <1>1, <3>2 DEF FacePaintInv, FaceTypes
    <3> QED
      BY <3>1, <3>2
  <2>2. fTimer' \in BOOLEAN
    BY DEF F!Drain
  <2> QED
    BY <1>1, <1>3, <2>1, <2>2 DEF FacePaintInv, FaceTypes
<1>6. FaceLastIsQueued'
  BY <1>2, FacePlacesAre DEF FaceLastIsQueued
<1>7. CASE fActive # NoDock /\ fAlive
  <2>1. fActive \in Panels /\ fShown' = [p \in F!Places |-> F!Sent(p)]
    BY <1>1, <1>7 DEF FacePaintInv, FaceTypes
  <2>2. ASSUME NEW p \in Screens[fActive] PROVE F!Sent(p)' = F!Sent(p)
    <3>1. FaceWrites(p, fActive', fPending') = {}
      BY <1>2 DEF FaceWrites
    <3>2. F!Sent(p)' = fShown'[p]
      BY <3>1, FaceSentIs DEF FaceDrawing
    <3>3. p \in F!Places
      BY <2>1, FacePlacesAre
    <3> QED
      BY <2>1, <3>2, <3>3
  <2>3. ASSUME NEW p, NEW face, FaceOwed(p, face) PROVE FaceOwed(p, face)'
    BY <1>1, <2>2, <2>3 DEF FaceOwed
  <2>4. FaceDue'
    BY <1>1, <2>3, FaceOwedFollows
  <2>5. FaceLastIsShown'
    <3>1. \A p \in F!KeyPlaces \cap Screens[fActive] :
            fShown'[p] = IF fPending[p] # NoDock THEN fPending[p] ELSE fShown[p]
      <4> TAKE p \in F!KeyPlaces \cap Screens[fActive]
      <4>1. p \in F!Places
        BY FacePlacesAre
      <4>2. F!Sent(p) = FaceDrawing(p, fActive, fPending, fShown)
        BY FaceSentIs
      <4>3. FaceDrawing(p, fActive, fPending, fShown) = IF fPending[p] # NoDock THEN fPending[p] ELSE fShown[p]
        BY <2>1, FaceDrawingKey
      <4> QED
        BY <2>1, <4>1, <4>2, <4>3
    <3> QED
      BY <1>1, <1>2, <1>7, <3>1, FacePlacesAre DEF FacePaintInv, FaceLastIsShown, FaceLastIsQueued
  <2> QED
    BY <1>1, <1>5, <1>6, <2>4, <2>5 DEF FacePaintInv
<1>8. CASE ~(fActive # NoDock /\ fAlive)
  BY <1>1, <1>5, <1>6, <1>8 DEF FacePaintInv, FaceDue, FaceLastIsShown
<1> QED
  BY <1>7, <1>8
LEMMA FaceActivateKeeps ==
  ASSUME FacePaintInv, NEW d \in Panels, NEW bright \in BOOLEAN, F!Activate(d, bright)
  PROVE  FacePaintInv'
<1>1. /\ fActive' = d /\ fAlive' = TRUE /\ fShown' = F!Unseen /\ fPainted' = {} /\ fWiped' = {}
      /\ UNCHANGED <<fProfile, fPending, fTimer, fCarousel, fDrawn>>
      /\ fLast' = fLast \/ fLast' = [p \in F!KeyPlaces |-> NoDock]
  BY DEF F!Activate, F!Forgets
<1>2. FaceTypes'
  BY <1>1 DEF FacePaintInv, FaceTypes, F!Unseen
<1>3. FaceDue'
  BY <1>1 DEF FaceDue
<1>4. FaceLastIsQueued'
  BY <1>1 DEF FacePaintInv, FaceLastIsQueued
<1>5. FaceLastIsShown'
  BY <1>1, FacePlacesAre DEF FaceLastIsShown, F!Unseen
<1> QED
  BY <1>1, <1>2, <1>3, <1>4, <1>5 DEF FacePaintInv

LEMMA FaceActivationFailsKeeps ==
  ASSUME FacePaintInv, NEW d \in Panels, F!ActivationFails(d)
  PROVE  FacePaintInv'
<1>1. /\ fActive' = NoDock /\ fAlive' = FALSE
      /\ UNCHANGED <<fProfile, fPending, fTimer, fCarousel, fShown, fPainted, fDrawn, fWiped>>
      /\ fLast' = fLast \/ fLast' = [p \in F!KeyPlaces |-> NoDock]
  BY DEF F!ActivationFails, F!Forgets
<1>2. FaceTypes'
  BY <1>1 DEF FacePaintInv, FaceTypes
<1>3. FaceDue' /\ FaceLastIsShown'
  BY <1>1 DEF FaceDue, FaceLastIsShown
<1>4. FaceLastIsQueued'
  BY <1>1 DEF FacePaintInv, FaceLastIsQueued
<1> QED
  BY <1>1, <1>2, <1>3, <1>4 DEF FacePaintInv

LEMMA FaceDiesKeeps ==
  ASSUME FacePaintInv, F!Dies
  PROVE  FacePaintInv'
BY DEF FacePaintInv, FaceTypes, F!Dies, F!faces, FaceDue, FaceLastIsQueued, FaceLastIsShown

LEMMA FaceSameFaces ==
  ASSUME FacePaintInv, UNCHANGED <<F!faces, fActive, fAlive>>
  PROVE  FacePaintInv'
<1>1. \A p : F!Sent(p)' = F!Sent(p)
  <2> TAKE p
  <2>1. F!Sent(p) = FaceDrawing(p, fActive, fPending, fShown) /\ F!Sent(p)' = FaceDrawing(p, fActive, fPending, fShown)
    BY FaceSentIs DEF F!faces
  <2> QED
    BY <2>1
<1>2. FaceDue'
  <2>1. ASSUME NEW p, NEW face, FaceOwed(p, face) PROVE FaceOwed(p, face)'
    BY <1>1, <2>1 DEF FaceOwed, F!faces
  <2> QED
    BY <2>1, FaceOwedFollows DEF F!faces
<1> QED
  BY <1>2 DEF FacePaintInv, FaceTypes, F!faces, FaceLastIsQueued, FaceLastIsShown
LEMMA FaceClampIs ==
  ASSUME NEW n \in Int
  PROVE  F!Clamp(n, 0, 100) \in 0..100 /\ F!Clamp(n, 0, 100) \in F!Unset..100 /\ F!Clamp(n, 0, 100) \in Int
BY DEF F!Clamp, F!Unset

LEMMA FaceSetBrightnessKeeps ==
  ASSUME FaceLightInv, NEW d \in Panels, NEW n \in Int, F!SetBrightness(d, n)
  PROVE  FaceLightInv' /\ UNCHANGED <<F!faces, fActive, fAlive>>
<1> PICK outcome \in F!Outcomes(d) :
      /\ fLevel' = IF outcome = "written" THEN [fLevel EXCEPT ![d] = F!Clamp(n, 0, 100)] ELSE fLevel
      /\ fDimmed' = CASE outcome = "written" -> fDimmed \cup {d}
                     [] outcome = "silent" -> fDimmed \ {d}
                     [] outcome = "fails" -> fDimmed
      /\ fRemembered' = IF outcome = "fails" THEN fRemembered ELSE [fRemembered EXCEPT ![d] = F!Clamp(n, 0, 100)]
      /\ UNCHANGED <<F!faces, fActive, fAlive>>
  BY DEF F!SetBrightness
<1>1. outcome \in {"written", "silent", "fails"}
  BY DEF F!Outcomes
<1>2. PICK c \in F!Unset..100 : c = F!Clamp(n, 0, 100)
  BY FaceClampIs
<1>3. CASE outcome = "written"
  BY <1>2, <1>3 DEF FaceLightInv, F!LevelIsKnown
<1>4. CASE outcome = "silent"
  BY <1>2, <1>4 DEF FaceLightInv, F!LevelIsKnown
<1>5. CASE outcome = "fails"
  BY <1>5 DEF FaceLightInv, F!LevelIsKnown
<1> QED
  BY <1>1, <1>3, <1>4, <1>5

LEMMA FaceAdjustBrightnessKeeps ==
  ASSUME FaceLightInv, NEW d \in Panels, NEW delta \in Int, F!AdjustBrightness(d, delta)
  PROVE  FaceLightInv' /\ UNCHANGED <<F!faces, fActive, fAlive>>
<1>1. F!BrightnessLevel(d) \in Int
  BY DEF FaceLightInv, F!BrightnessLevel, F!DefaultLevel, F!Unset
<1>2. F!Clamp(F!BrightnessLevel(d) + delta, 0, 100) \in Int
  BY <1>1, FaceClampIs
<1> QED
  BY <1>2, FaceSetBrightnessKeeps DEF F!AdjustBrightness

LEMMA FaceActivateLights ==
  ASSUME FaceLightInv, NEW d \in Panels, NEW bright \in BOOLEAN, F!Activate(d, bright)
  PROVE  FaceLightInv'
<1>1. /\ fLevel' = IF bright THEN [fLevel EXCEPT ![d] = F!DefaultLevel] ELSE fLevel
      /\ fDimmed' = fDimmed \ {d} /\ UNCHANGED fRemembered
  BY DEF F!Activate
<1>2. F!DefaultLevel \in F!Unset..100
  BY DEF F!DefaultLevel, F!Unset
<1> QED
  BY <1>1, <1>2 DEF FaceLightInv, F!LevelIsKnown

LEMMA FaceSameLight ==
  ASSUME FaceLightInv, UNCHANGED F!light
  PROVE  FaceLightInv'
BY DEF FaceLightInv, F!LevelIsKnown, F!light
LEMMA FaceNextKeeps ==
  ASSUME FaceInv, [F!Next]_F!vars
  PROVE  FaceInv'
<1> USE DEF FaceInv
<1>1. ASSUME NEW p \in FaceProfiles, F!ProfileChanged(p) PROVE FaceInv'
  BY <1>1, FaceProfileChangedKeeps, FaceSameLight DEF F!ProfileChanged
<1>2. ASSUME NEW n \in {-1, 1, 2}, F!NavigatePage(n) PROVE FaceInv'
  <2>1. n \in Int
    OBVIOUS
  <2> QED
    BY <1>2, <2>1, FaceNavigatePageKeeps, FaceSameLight DEF F!NavigatePage
<1>3. ASSUME NEW p \in F!KeyPlaces, F!AssignKey(p, Art) PROVE FaceInv'
  BY <1>3, FaceAssignKeyKeeps, FaceSameLight DEF F!AssignKey
<1>4. ASSUME NEW p \in F!KeyPlaces, F!ClearKey(p) PROVE FaceInv'
  BY <1>4, FaceClearKeyKeeps, FaceSameLight DEF F!ClearKey
<1>5. ASSUME NEW s \in F!Surfaces \ F!KeyPlaces, F!AssignSurface(s, Art) PROVE FaceInv'
  BY <1>5, FaceAssignSurfaceKeeps, FaceSameLight DEF F!AssignSurface
<1>6. ASSUME F!ClearAll PROVE FaceInv'
  BY <1>6, FaceClearAllKeeps, FaceSameLight DEF F!ClearAll
<1>7. ASSUME F!Drain PROVE FaceInv'
  BY <1>7, FaceDrainKeeps, FaceSameLight DEF F!Drain
<1>8. ASSUME NEW d \in Panels, NEW bright \in BOOLEAN, F!Activate(d, bright) PROVE FaceInv'
  BY <1>8, FaceActivateKeeps, FaceActivateLights
<1>9. ASSUME NEW d \in Panels, F!ActivationFails(d) PROVE FaceInv'
  BY <1>9, FaceActivationFailsKeeps, FaceSameLight DEF F!ActivationFails
<1>10. ASSUME F!Dies PROVE FaceInv'
  BY <1>10, FaceDiesKeeps, FaceSameLight DEF F!Dies
<1>11. ASSUME NEW d \in Panels, NEW n \in DimLevels, F!SetBrightness(d, n) PROVE FaceInv'
  BY <1>11, FaceSetBrightnessKeeps, FaceSameFaces, FaceAssumption
<1>12. ASSUME NEW d \in Panels, NEW n \in DimDeltas, F!AdjustBrightness(d, n) PROVE FaceInv'
  BY <1>12, FaceAdjustBrightnessKeeps, FaceSameFaces, FaceAssumption
<1>13. ASSUME UNCHANGED F!vars PROVE FaceInv'
  BY <1>13, FaceSameFaces, FaceSameLight DEF F!vars
<1> QED
  BY <1>1, <1>2, <1>3, <1>4, <1>5, <1>6, <1>7, <1>8, <1>9, <1>10, <1>11, <1>12, <1>13
     DEF F!Next, F!Paint, F!Session, F!Dim

LEMMA FaceFollows ==
  ASSUME FaceInv
  PROVE  F!TypeOK /\ F!SurfacesAreTrue
<1>1. F!TypeOK
  <2>1. \A d \in Panels : fRemembered[d] \in F!Unset..100 /\ fLevel[d] \in F!Unset..100
    BY DEF FaceInv, FaceLightInv
  <2> QED
    BY <2>1 DEF FaceInv, FacePaintInv, FaceLightInv, FaceTypes, F!TypeOK
<1>2. F!NothingWaitsForNobody /\ F!LevelIsKnown
  BY DEF FaceInv, FacePaintInv, FaceLightInv, F!NothingWaitsForNobody
<1> SUFFICES ASSUME F!Settled PROVE F!FacesAreUp /\ F!RevertsToShown
  BY <1>1, <1>2 DEF F!SurfacesAreTrue, F!FacesAreUp, F!RevertsToShown
<1>3. fActive \in Panels /\ fAlive /\ fPending = F!Nothing
  BY DEF F!Settled, FaceInv, FacePaintInv, FaceTypes
<1>4. \A s \in F!Surfaces : fPending[s] = NoDock
  BY <1>3 DEF F!Nothing
<1>5. \A p : F!Sent(p) = fShown[p]
  <2> TAKE p
  <2>1. FaceWrites(p, fActive, fPending) = {}
    BY <1>4 DEF FaceWrites
  <2> QED
    BY <2>1, FaceSentIs DEF FaceDrawing
<1>6. \A p, picture : FaceOwed(p, picture) => F!Shows(p, picture)
  BY <1>5 DEF FaceOwed, F!Shows
<1>7. F!FacesAreUp
  <2>1. ASSUME "keys" \in fPainted, NEW k \in DOMAIN F!Page PROVE F!Shows(F!DeviceKey(k), F!KeyFace(F!Page[k]))
    <3>1. FaceOwed(F!DeviceKey(k), F!KeyFace(F!Page[k]))
      BY <1>3, <2>1 DEF FaceInv, FacePaintInv, FaceDue, F!Settled
    <3> QED
      BY <1>6, <3>1
  <2>2. ASSUME "dials" \in fPainted, NEW e \in DOMAIN fProfile.dials
        PROVE  F!Shows(<<"zone", e>>, F!Face(fProfile.dials[e]))
    <3>1. FaceOwed(<<"zone", e>>, F!Face(fProfile.dials[e]))
      BY <1>3, <2>2 DEF FaceInv, FacePaintInv, FaceDue, F!Settled
    <3> QED
      BY <1>6, <3>1
  <2> QED
    BY <2>1, <2>2 DEF F!FacesAreUp
<1>8. F!RevertsToShown
  <2>1. FaceLastIsShown /\ fActive # NoDock
    BY DEF FaceInv, FacePaintInv, F!Settled
  <2>2. \A p \in F!KeyPlaces : fPending[p] = NoDock
    BY <1>4, FacePlacesAre
  <2> QED
    BY <1>3, <2>1, <2>2 DEF FaceLastIsShown, F!RevertsToShown
<1> QED
  BY <1>7, <1>8

(* Once the map of writes is drained a dock shows the faces of the page the    *)
(* carousel stands on, a flash reverts to what its key showed, no write waits  *)
(* without a drain to come, and the brightness is what the panel was set to    *)
(* (Surfaces): for any docks, profiles and pictures.                           *)
THEOREM SurfacesAreAlwaysTrue == F!Spec => [](F!TypeOK /\ F!SurfacesAreTrue)
<1>1. F!Init => FaceInv
  BY FaceBegins
<1>2. FaceInv /\ [F!Next]_F!vars => FaceInv'
  BY FaceNextKeeps
<1>3. FaceInv => F!TypeOK /\ F!SurfacesAreTrue
  BY FaceFollows
<1> QED
  BY <1>1, <1>2, <1>3, PTL DEF F!Spec
-----------------------------------------------------------------------------
(* All of these promises are kept, for any releases, models, interfaces,      *)
(* passwords, docks and profiles.                                             *)
THEOREM PromisesAreAlwaysKept ==
  Spec /\ U!Spec /\ S!Spec /\ T!Spec /\ V!Spec /\ O!Spec /\ B!Spec /\ F!Spec => []PromisesAreKept
<1>1. /\ U!TypeOK /\ U!ChecksAreHonest /\ S!TypeOK /\ S!ServicesAreTrue /\ T!TypeOK /\ T!ChannelsAreTrue
      /\ V!TypeOK /\ V!ReportIsTrue /\ O!TypeOK /\ O!HandshakeIsKept
      /\ B!TypeOK /\ B!SidecarIsTrue /\ F!TypeOK /\ F!SurfacesAreTrue
      /\ Inv
      => PromisesAreKept
  BY DEF PromisesAreKept, Inv
<1> QED
  BY <1>1, InvAlways, ChecksAreAlwaysHonest, ServicesAreAlwaysTrue, ChannelsAreAlwaysTrue, ReportIsAlwaysTrue,
     HandshakeIsAlwaysKept,
     SidecarIsAlwaysTrue, SurfacesAreAlwaysTrue, PTL
=============================================================================
