---------------------------- MODULE EventBusProofs ----------------------------
(***************************************************************************)
(* The bus keeps Broadcast's promise for any threads and bounds.           *)
(***************************************************************************)
EXTENDS EventBus, SequenceTheorems, TLAPS

USE BoundAssumption

(***************************************************************************)
(* The copy of a vector that unsubscribe() makes.                          *)
(***************************************************************************)
Distinct(s) == \A i, j \in DOMAIN s : s[i] = s[j] => i = j

LEMMA WithoutSeq ==
  ASSUME NEW s \in Seq(Tokens), NEW t
  PROVE  Without(s, t) \in Seq(Tokens)
<1>1. CASE t \notin Elements(s)
  BY <1>1 DEF Without
<1>2. CASE t \in Elements(s)
  <2> DEFINE at == CHOOSE i \in DOMAIN s : s[i] = t
             w == [i \in 1 .. Len(s) - 1 |-> IF i < at THEN s[i] ELSE s[i + 1]]
  <2>1. Len(s) - 1 \in Nat /\ at \in 1 .. Len(s)
    BY <1>2 DEF Elements
  <2>2. \A i \in 1 .. Len(s) - 1 : w[i] \in Tokens
    BY <2>1
  <2>3. w \in [1 .. Len(s) - 1 -> Tokens]
    BY <2>2
  <2>4. w \in Seq(Tokens)
    BY <2>1, <2>3
  <2> QED
    BY <1>2, <2>4 DEF Without
<1> QED
  BY <1>1, <1>2

LEMMA WithoutElements ==
  ASSUME NEW s \in Seq(Tokens), NEW t, Distinct(s)
  PROVE  Elements(Without(s, t)) = Elements(s) \ {t} /\ Distinct(Without(s, t))
<1>1. CASE t \notin Elements(s)
  BY <1>1 DEF Without
<1>2. CASE t \in Elements(s)
  <2> DEFINE at == CHOOSE i \in DOMAIN s : s[i] = t
             w == [i \in 1 .. Len(s) - 1 |-> IF i < at THEN s[i] ELSE s[i + 1]]
  <2>0. Without(s, t) = w /\ DOMAIN w = 1 .. Len(s) - 1
    BY <1>2 DEF Without
  <2>1. at \in 1 .. Len(s) /\ s[at] = t /\ DOMAIN s = 1 .. Len(s) /\ Len(s) \in Nat
    BY <1>2 DEF Elements
  <2> HIDE DEF at
  <2>2. \A i \in DOMAIN w : w[i] \in Elements(s) /\ w[i] # t
    <3> TAKE i \in DOMAIN w
    <3>1. CASE i < at
      BY <2>0, <2>1, <3>1 DEF Elements, Distinct
    <3>2. CASE ~(i < at)
      BY <2>0, <2>1, <3>2 DEF Elements, Distinct
    <3> QED
      BY <3>1, <3>2
  <2>3. ASSUME NEW j \in DOMAIN s, s[j] # t PROVE \E i \in DOMAIN w : w[i] = s[j]
    <3>1. CASE j < at
      <4>1. j \in DOMAIN w /\ w[j] = s[j]
        BY <2>0, <2>1, <3>1
      <4> QED
        BY <4>1
    <3>2. CASE j > at
      <4>1. j - 1 \in DOMAIN w /\ w[j - 1] = s[j]
        BY <2>0, <2>1, <3>2
      <4> QED
        BY <4>1
    <3> QED
      BY <2>1, <2>3, <3>1, <3>2
  <2>4. Elements(w) = Elements(s) \ {t}
    BY <2>2, <2>3 DEF Elements
  <2>5. ASSUME NEW i \in DOMAIN w, NEW j \in DOMAIN w, w[i] = w[j] PROVE i = j
    <3> DEFINE old(k) == IF k < at THEN k ELSE k + 1
    <3>1. /\ old(i) \in DOMAIN s /\ old(j) \in DOMAIN s
          /\ w[i] = s[old(i)] /\ w[j] = s[old(j)]
      BY <2>0, <2>1
    <3>2. old(i) = old(j)
      BY <2>5, <3>1 DEF Distinct
    <3> QED
      BY <2>0, <2>1, <3>2
  <2>6. Distinct(w)
    BY <2>5 DEF Distinct
  <2> QED
    BY <2>0, <2>4, <2>6
<1> QED
  BY <1>1, <1>2

(***************************************************************************)
(* The inductive invariant: types, unique tokens, and what a publish call  *)
(* has done of its snapshot.                                               *)
(***************************************************************************)
FrameOK(f) ==
  /\ Distinct(f.snapshot)
  /\ f.called <= Len(f.snapshot)
  /\ f.reached = {f.snapshot[i] : i \in 1 .. f.called}

FramesOK == \A th \in Threads : \A d \in 1 .. Len(stack[th]) : FrameOK(stack[th][d])

BusInv == TypeOK /\ TokensAreUnique /\ FramesOK

LEMMA NewFrame ==
  ASSUME BusInv
  PROVE  LET f == [snapshot |-> handlers, called |-> 0, reached |-> {}]
         IN f \in Frame /\ FrameOK(f)
  BY DEF BusInv, TypeOK, TokensAreUnique, Frame, FrameOK, Distinct

LEMMA AdvancedFrame ==
  ASSUME NEW f \in Frame, FrameOK(f), f.called < Len(f.snapshot)
  PROVE  LET t == f.snapshot[f.called + 1] IN
         /\ Advanced(f, t) \in Frame /\ FrameOK(Advanced(f, t))
         /\ Advanced(f, t).snapshot = f.snapshot
         /\ Advanced(f, t).reached = f.reached \cup {t}
         /\ t \in Elements(f.snapshot) \ f.reached /\ t \in Tokens
<1> DEFINE t == f.snapshot[f.called + 1]
<1>1. /\ f.snapshot \in Seq(Tokens) /\ f.called \in Nat /\ f.reached \subseteq Tokens
  BY DEF Frame
<1>2. t \in Elements(f.snapshot) /\ t \in Tokens
  BY <1>1 DEF Elements
<1>3. t \notin f.reached
  BY <1>1 DEF FrameOK, Distinct
<1>4. /\ Advanced(f, t).snapshot = f.snapshot /\ Advanced(f, t).called = f.called + 1
      /\ Advanced(f, t).reached = f.reached \cup {t}
  BY DEF Advanced
<1>5. Advanced(f, t) \in Frame
  <2>1. f.called + 1 \in Nat /\ f.reached \cup {t} \in SUBSET Tokens
    BY <1>1, <1>2
  <2> QED
    BY <1>1, <2>1 DEF Advanced, Frame
<1>6. f.reached \cup {t} = {f.snapshot[i] : i \in 1 .. f.called + 1}
  BY <1>1 DEF FrameOK
<1>7. FrameOK(Advanced(f, t))
  BY <1>1, <1>4, <1>6 DEF FrameOK
<1> QED
  BY <1>2, <1>3, <1>4, <1>5, <1>7

(* What CallNext does: the innermost frame of one thread advances.         *)
LEMMA CallNextStack ==
  ASSUME BusInv, NEW th \in Threads, CallNext(th)
  PROVE  LET d == Len(stack[th])
             f == stack[th][d]
             t == f.snapshot[f.called + 1]
         IN /\ d \in 1 .. Len(stack[th]) /\ d \in Levels
            /\ f \in Frame /\ FrameOK(f) /\ f.called < Len(f.snapshot)
            /\ stack' = [stack EXCEPT ![th] = [stack[th] EXCEPT ![d] = Advanced(f, t)]]
<1>1. stack[th] \in Seq(Frame) /\ Len(stack[th]) <= Depth /\ stack[th] # <<>>
  BY DEF BusInv, TypeOK, CallNext, InCall
<1>2. Len(stack[th]) \in 1 .. Len(stack[th]) /\ Len(stack[th]) \in Levels
  BY <1>1 DEF Levels
<1>3. stack[th][Len(stack[th])] \in Frame /\ FrameOK(stack[th][Len(stack[th])])
  BY <1>1, <1>2 DEF BusInv, FramesOK
<1> QED
  BY <1>2, <1>3 DEF CallNext, Top, Loop

LEMMA TypeStep ==
  ASSUME BusInv, [Next]_vars
  PROVE  TypeOK'
<1> USE DEF BusInv, TypeOK
<1>1. ASSUME NEW th \in Threads, SubscribeFetch(th) PROVE TypeOK'
  BY <1>1 DEF SubscribeFetch, Fetched, Tokens
<1>2. ASSUME NEW th \in Threads, SubscribeAppend(th) PROVE TypeOK'
  BY <1>2 DEF SubscribeAppend
<1>3. ASSUME NEW th \in Threads, NEW t \in Tokens, Unsubscribe(th, t) PROVE TypeOK'
  BY <1>3, WithoutSeq DEF Unsubscribe
<1>4. ASSUME NEW th \in Threads, Publish(th) PROVE TypeOK'
  <2> DEFINE f == [snapshot |-> handlers,
                   called |-> 0, reached |-> {}]
  <2>0. f \in Frame
    BY <1>4, NewFrame DEF Publish
  <2> HIDE DEF f
  <2>1. stack' \in [Threads -> Seq(Frame)] /\ \A u \in Threads : Len(stack'[u]) <= Depth
    <3>1. stack' = [stack EXCEPT ![th] = Append(stack[th], f)] /\ Len(stack[th]) < Depth
      BY <1>4 DEF Publish, f
    <3>2. /\ Append(stack[th], f) \in Seq(Frame)
          /\ Len(Append(stack[th], f)) = Len(stack[th]) + 1
      BY <2>0
    <3> QED
      BY <3>1, <3>2
  <2> QED
    BY <1>4, <2>0, <2>1 DEF Publish
<1>5. ASSUME NEW th \in Threads, CallNext(th) PROVE TypeOK'
  <2> DEFINE d == Len(stack[th])
             f == stack[th][d]
             t == f.snapshot[f.called + 1]
  <2>1. /\ d \in 1 .. Len(stack[th]) /\ f \in Frame /\ FrameOK(f)
        /\ f.called < Len(f.snapshot)
        /\ stack' = [stack EXCEPT ![th] = [stack[th] EXCEPT ![d] = Advanced(f, t)]]
    BY <1>5, CallNextStack
  <2>2. Advanced(f, t) \in Frame /\ t \in Tokens
    BY <2>1, AdvancedFrame
  <2> HIDE DEF t
  <2>3. [stack[th] EXCEPT ![d] = Advanced(f, t)] \in Seq(Frame)
    BY <2>1, <2>2
  <2>4. Len([stack[th] EXCEPT ![d] = Advanced(f, t)]) = Len(stack[th])
    BY <2>1
  <2> QED
    BY <1>5, <2>1, <2>3, <2>4 DEF CallNext
<1>6. ASSUME NEW th \in Threads, InCall(th), stack' = [stack EXCEPT ![th] = Popped(th)]
      PROVE  stack' \in [Threads -> Seq(Frame)] /\ \A u \in Threads : Len(stack'[u]) <= Depth
  BY <1>6 DEF InCall, Popped
<1>7. ASSUME NEW th \in Threads, Return(th) PROVE TypeOK'
  BY <1>6, <1>7 DEF Return
<1>8. ASSUME NEW th \in Threads, HandlerThrows(th) PROVE TypeOK'
  <2>1. Len(stack[th]) \in Levels
    BY <1>8 DEF HandlerThrows, InCall, Levels
  <2> QED
    BY <1>6, <1>8, <2>1 DEF HandlerThrows
<1>9. CASE UNCHANGED vars
  BY <1>9 DEF vars
<1> QED
  BY <1>1, <1>2, <1>3, <1>4, <1>5, <1>7, <1>8, <1>9 DEF Next

LEMMA AppendElements ==
  ASSUME NEW s \in Seq(Tokens), NEW t \in Tokens \ Elements(s), Distinct(s)
  PROVE  Elements(Append(s, t)) = Elements(s) \cup {t} /\ Distinct(Append(s, t))
<1> DEFINE r == Append(s, t)
<1>1. /\ DOMAIN s = 1 .. Len(s) /\ Len(s) \in Nat /\ DOMAIN r = 1 .. Len(s) + 1
      /\ r[Len(s) + 1] = t /\ \A i \in 1 .. Len(s) : r[i] = s[i]
  OBVIOUS
<1> HIDE DEF r
<1>2. Elements(r) \subseteq Elements(s) \cup {t}
  BY <1>1 DEF Elements
<1>3. t \in Elements(r) /\ Elements(s) \subseteq Elements(r)
  BY <1>1 DEF Elements
<1>4. Distinct(r)
  BY <1>1 DEF Distinct, Elements
<1> QED
  BY <1>2, <1>3, <1>4 DEF r

LEMMA TokensStep ==
  ASSUME BusInv, [Next]_vars
  PROVE  TokensAreUnique'
<1> USE DEF BusInv, TypeOK, TokensAreUnique
<1>1. ASSUME NEW th \in Threads, SubscribeFetch(th) PROVE TokensAreUnique'
  <2>1. /\ handlers' = handlers /\ nextToken' = nextToken + 1 /\ nextToken \in Nat \ {0}
        /\ fetched' = [fetched EXCEPT ![th] = nextToken]
    BY <1>1 DEF SubscribeFetch, Fetched
  <2>2. \A u \in Threads : fetched[u] \in Nat
    BY DEF Tokens
  <2>3. \A t \in Elements(handlers) : t \in Nat
    BY DEF Elements, Tokens
  <2>4. Elements(handlers)' = Elements(handlers)
    BY <2>1 DEF Elements
  <2> QED
    BY <2>1, <2>2, <2>3, <2>4
<1>2. ASSUME NEW th \in Threads, SubscribeAppend(th) PROVE TokensAreUnique'
  <2>1. /\ handlers' = Append(handlers, fetched[th]) /\ fetched[th] \in Tokens
        /\ fetched' = [fetched EXCEPT ![th] = 0] /\ nextToken' = nextToken
    BY <1>2 DEF SubscribeAppend
  <2>2. fetched[th] \notin Elements(handlers) /\ Distinct(handlers)
    BY DEF Distinct
  <2>3. /\ Elements(handlers)' = Elements(handlers) \cup {fetched[th]}
        /\ Distinct(handlers)'
    BY <2>1, <2>2, AppendElements
  <2>4. \A t \in Elements(handlers)' : t # 0
    BY <2>1, <2>3 DEF Elements, Tokens
  <2>5. \A t \in Elements(handlers)' : t < nextToken'
    BY <2>1, <2>3
  <2>6. \A u \in Threads : fetched'[u] \notin Elements(handlers)'
    BY <2>1, <2>3, <2>4
  <2>7. \A u \in Threads : fetched'[u] < nextToken'
    BY <2>1
  <2> QED
    BY <2>1, <2>3, <2>5, <2>6, <2>7 DEF Distinct
<1>3. ASSUME NEW th \in Threads, NEW t \in Tokens, Unsubscribe(th, t)
      PROVE  TokensAreUnique'
  <2>1. Distinct(handlers) /\ handlers' = Without(handlers, t)
    BY <1>3 DEF Unsubscribe, Distinct
  <2>2. Elements(handlers') = Elements(handlers) \ {t} /\ Distinct(handlers')
    BY <2>1, WithoutElements
  <2> QED
    BY <1>3, <2>2 DEF Unsubscribe, Distinct
<1>4. ASSUME NEW th \in Threads,
             Publish(th) \/ CallNext(th) \/ Return(th) \/ HandlerThrows(th)
      PROVE  TokensAreUnique'
  BY <1>4 DEF Publish, CallNext, Return, HandlerThrows, Elements
<1>5. CASE UNCHANGED vars
  BY <1>5 DEF vars, Elements
<1> QED
  BY <1>1, <1>2, <1>3, <1>4, <1>5 DEF Next

LEMMA Front ==
  ASSUME NEW s \in Seq(Frame), NEW n \in Nat, n + 1 = Len(s)
  PROVE  Len(SubSeq(s, 1, n)) = n /\ \A d \in 1 .. n : SubSeq(s, 1, n)[d] = s[d]
<1>1. \A i \in 1 .. n : s[i] \in Frame
  OBVIOUS
<1>2. /\ Len(SubSeq(s, 1, n)) = IF 1 <= n THEN n - 1 + 1 ELSE 0
      /\ \A d \in 1 .. n - 1 + 1 : SubSeq(s, 1, n)[d] = s[1 + d - 1]
  BY <1>1, SubSeqProperties
<1> QED
  BY <1>2

LEMMA PoppedShape ==
  ASSUME NEW th \in Threads, stack[th] \in Seq(Frame), stack[th] # <<>>
  PROVE  /\ Len(Popped(th)) = Len(stack[th]) - 1
         /\ \A d \in 1 .. Len(stack[th]) - 1 : Popped(th)[d] = stack[th][d]
<1> DEFINE n == Len(stack[th]) - 1
<1>1. n \in Nat /\ n + 1 = Len(stack[th])
  OBVIOUS
<1>2. Popped(th) = SubSeq(stack[th], 1, n)
  BY DEF Popped
<1> HIDE DEF n
<1>3. Len(Popped(th)) = n /\ \A d \in 1 .. n : Popped(th)[d] = stack[th][d]
  BY <1>1, <1>2, Front
<1> QED
  BY <1>3 DEF n

LEMMA FramesStep ==
  ASSUME BusInv, [Next]_vars
  PROVE  FramesOK'
<1> USE DEF BusInv, TypeOK
<1>1. ASSUME stack' = stack PROVE FramesOK'
  BY <1>1 DEF FramesOK
<1>2. ASSUME NEW th \in Threads, Publish(th) PROVE FramesOK'
  <2> DEFINE f == [snapshot |-> handlers,
                   called |-> 0, reached |-> {}]
  <2>1. f \in Frame /\ FrameOK(f) /\ stack' = [stack EXCEPT ![th] = Append(stack[th], f)]
    BY <1>2, NewFrame DEF Publish
  <2> HIDE DEF f
  <2> QED
    BY <2>1 DEF FramesOK
<1>3. ASSUME NEW th \in Threads, CallNext(th) PROVE FramesOK'
  <2> DEFINE d == Len(stack[th])
             f == stack[th][d]
             t == f.snapshot[f.called + 1]
  <2>1. /\ d \in 1 .. Len(stack[th]) /\ f \in Frame /\ FrameOK(f)
        /\ f.called < Len(f.snapshot)
        /\ stack' = [stack EXCEPT ![th] = [stack[th] EXCEPT ![d] = Advanced(f, t)]]
    BY <1>3, CallNextStack
  <2>2. FrameOK(Advanced(f, t))
    BY <2>1, AdvancedFrame
  <2> HIDE DEF t
  <2> QED
    BY <2>1, <2>2 DEF FramesOK
<1>4. ASSUME NEW th \in Threads, Return(th) \/ HandlerThrows(th) PROVE FramesOK'
  <2>1. /\ stack' = [stack EXCEPT ![th] = Popped(th)] /\ stack[th] # <<>>
        /\ stack[th] \in Seq(Frame)
    BY <1>4 DEF Return, HandlerThrows, InCall
  <2>2. /\ Len(Popped(th)) = Len(stack[th]) - 1
        /\ \A d \in 1 .. Len(stack[th]) - 1 : Popped(th)[d] = stack[th][d]
    BY <2>1, PoppedShape
  <2>3. ASSUME NEW u \in Threads, NEW d \in 1 .. Len(stack'[u])
        PROVE  FrameOK(stack'[u][d])
    <3>1. CASE u = th
      <4>1. stack'[u] = Popped(th) /\ d \in 1 .. Len(stack[th]) - 1
        BY <2>1, <2>2, <3>1
      <4>2. d \in 1 .. Len(stack[th]) /\ stack'[u][d] = stack[th][d]
        BY <2>1, <2>2, <4>1
      <4> QED
        BY <4>2 DEF FramesOK
    <3>2. CASE u # th
      BY <2>1, <3>2 DEF FramesOK
    <3> QED
      BY <3>1, <3>2
  <2> QED
    BY <2>3 DEF FramesOK, FrameOK
<1>5. ASSUME NEW th \in Threads,
             \/ SubscribeFetch(th) \/ SubscribeAppend(th)
             \/ \E t \in Tokens : Unsubscribe(th, t)
      PROVE  FramesOK'
  BY <1>1, <1>5 DEF SubscribeFetch, SubscribeAppend, Unsubscribe
<1> QED
  BY <1>1, <1>2, <1>3, <1>4, <1>5 DEF Next, vars

LEMMA BusInvariant == Spec => []BusInv
<1>1. Init => BusInv
  BY DEF Init, BusInv, TypeOK, TokensAreUnique, FramesOK, Elements, Tokens, Levels
<1>2. BusInv /\ [Next]_vars => BusInv'
  BY TypeStep, TokensStep, FramesStep DEF BusInv
<1> QED
  BY <1>1, <1>2, PTL DEF Spec

(* Every variable keeps its type.                                          *)
THEOREM TypeCorrect == Spec => []TypeOK
  BY BusInvariant, PTL DEF BusInv

(* Tokens stay unique although they are drawn outside the lock.            *)
THEOREM TokensStayUnique == Spec => []TokensAreUnique
  BY BusInvariant, PTL DEF BusInv

(* The bus stays well formed (both of the above).                            *)
THEOREM BusStaysWellFormed == Spec => []BusIsWellFormed
  BY TypeCorrect, TokensStayUnique, PTL DEF BusIsWellFormed

(***************************************************************************)
(* The refinement: each step of the bus is a step of Broadcast or leaves   *)
(* its variables alone.                                                    *)
(***************************************************************************)
OwedMap == [p \in Threads \X Levels |-> Owed(p[1], p[2])]
FailedMap == [p \in Threads \X Levels |-> failed[p[1]][p[2]]]

(* One publication's debt changes when one level of one stack does.        *)
LEMMA OwedElsewhere ==
  ASSUME NEW th \in Threads, NEW d \in Levels,
         \A u \in Threads, e \in Levels : (u = th /\ e = d) \/ Owed(u, e)' = Owed(u, e)
  PROVE  OwedMap' = [OwedMap EXCEPT ![<<th, d>>] = Owed(th, d)']
<1>1. \A p \in Threads \X Levels :
        OwedMap'[p] = [OwedMap EXCEPT ![<<th, d>>] = Owed(th, d)'][p]
  BY DEF OwedMap
<1>2. /\ OwedMap' = [p \in Threads \X Levels |-> OwedMap'[p]]
      /\ [OwedMap EXCEPT ![<<th, d>>] = Owed(th, d)'] =
         [p \in Threads \X Levels |-> [OwedMap EXCEPT ![<<th, d>>] = Owed(th, d)'][p]]
  BY DEF OwedMap
<1> QED
  BY <1>1, <1>2

LEMMA SameStackOwed ==
  ASSUME stack' = stack
  PROVE  OwedMap' = OwedMap
  BY DEF OwedMap, Owed, Elements

LEMMA SameFailed ==
  ASSUME failed' = failed
  PROVE  FailedMap' = FailedMap
  BY DEF FailedMap

LEMMA FailedAt ==
  ASSUME BusInv, NEW th \in Threads, NEW d \in Levels, NEW b \in BOOLEAN,
         failed' = [failed EXCEPT ![th][d] = b]
  PROVE  FailedMap' = [FailedMap EXCEPT ![<<th, d>>] = b]
<1>1. failed \in [Threads -> [Levels -> BOOLEAN]]
  BY DEF BusInv, TypeOK
<1>2. \A u \in Threads, e \in Levels :
        failed'[u][e] = IF u = th /\ e = d THEN b ELSE failed[u][e]
  BY <1>1
<1>3. ASSUME NEW p \in Threads \X Levels
      PROVE  FailedMap'[p] = IF p = <<th, d>> THEN b ELSE FailedMap[p]
  <2>1. p = <<p[1], p[2]>> /\ p[1] \in Threads /\ p[2] \in Levels
    OBVIOUS
  <2>2. FailedMap'[p] = failed'[p[1]][p[2]] /\ FailedMap[p] = failed[p[1]][p[2]]
    BY DEF FailedMap
  <2> QED
    BY <1>2, <2>1, <2>2
<1>4. /\ FailedMap' = [p \in Threads \X Levels |-> FailedMap'[p]]
      /\ FailedMap = [p \in Threads \X Levels |-> FailedMap[p]]
  BY DEF FailedMap
<1> HIDE DEF FailedMap
<1> QED
  BY <1>3, <1>4

BusNext == Promise!Next \/ UNCHANGED <<Elements(handlers), OwedMap, FailedMap>>

(* Popping a frame ends its level's publication and touches no other.      *)
LEMMA PopOwed ==
  ASSUME BusInv, NEW th \in Threads, NEW d, d = Len(stack[th]), InCall(th),
         stack' = [stack EXCEPT ![th] = Popped(th)]
  PROVE  /\ d \in Levels /\ Owed(th, d)' = {}
         /\ \A u \in Threads, e \in Levels : (u = th /\ e = d) \/ Owed(u, e)' = Owed(u, e)
<1>1. stack[th] \in Seq(Frame) /\ d \in Nat \ {0} /\ d <= Depth
  BY DEF BusInv, TypeOK, InCall
<1>2. /\ Len(Popped(th)) = d - 1 /\ \A e \in 1 .. d - 1 : Popped(th)[e] = stack[th][e]
  BY <1>1, PoppedShape
<1>3. /\ stack'[th] = Popped(th) /\ \A u \in Threads \ {th} : stack'[u] = stack[u]
  BY DEF BusInv, TypeOK
<1>4. Owed(th, d)' = {}
  BY <1>1, <1>2, <1>3 DEF Owed
<1>5. ASSUME NEW e \in Levels, e # d PROVE Owed(th, e)' = Owed(th, e)
  <2>1. e <= d - 1 \/ e > d
    BY <1>1, <1>5 DEF Levels
  <2>2. CASE e <= d - 1
    <3>1. stack'[th][e] = stack[th][e] /\ e <= Len(stack'[th]) /\ e <= Len(stack[th])
      BY <1>1, <1>2, <1>3, <2>2 DEF Levels
    <3> QED
      BY <3>1 DEF Owed
  <2>3. CASE e > d
    BY <1>1, <1>2, <1>3, <2>3 DEF Owed, Levels
  <2> QED
    BY <2>1, <2>2, <2>3
<1>6. ASSUME NEW u \in Threads \ {th}, NEW e \in Levels PROVE Owed(u, e)' = Owed(u, e)
  BY <1>3 DEF Owed
<1> QED
  BY <1>1, <1>4, <1>5, <1>6 DEF Levels

LEMMA RefinementStep ==
  ASSUME BusInv, [Next]_vars
  PROVE  BusNext
<1>m. OwedMap \in [Threads \X Levels -> SUBSET Tokens] /\ handlers \in Seq(Tokens)
  <2>1. ASSUME NEW th \in Threads, NEW d \in Levels PROVE Owed(th, d) \in SUBSET Tokens
    <3>1. CASE d <= Len(stack[th])
      <4>1. stack[th][d] \in Frame
        BY <3>1 DEF BusInv, TypeOK, Levels
      <4> QED
        BY <4>1 DEF Owed, Frame, Elements
    <3>2. CASE ~(d <= Len(stack[th]))
      BY <3>2 DEF Owed
    <3> QED
      BY <3>1, <3>2
  <2> QED
    BY <2>1 DEF OwedMap, BusInv, TypeOK
<1>1. ASSUME NEW th \in Threads, SubscribeFetch(th) PROVE BusNext
  BY <1>1, SameStackOwed, SameFailed DEF SubscribeFetch, BusNext, Elements
<1>2. ASSUME NEW th \in Threads, SubscribeAppend(th) PROVE BusNext
  <2>1. /\ handlers' = Append(handlers, fetched[th]) /\ fetched[th] \in Tokens
        /\ fetched[th] \notin Elements(handlers) /\ Distinct(handlers)
    BY <1>2 DEF SubscribeAppend, BusInv, TypeOK, TokensAreUnique, Distinct
  <2>2. Elements(handlers)' = Elements(handlers) \cup {fetched[th]}
    BY <1>m, <2>1, AppendElements
  <2>3. UNCHANGED <<OwedMap, FailedMap>>
    BY <1>2, SameStackOwed, SameFailed DEF SubscribeAppend
  <2> QED
    BY <2>1, <2>2, <2>3 DEF BusNext, Promise!Next, Promise!Join, OwedMap, FailedMap
<1>3. ASSUME NEW th \in Threads, NEW t \in Tokens, Unsubscribe(th, t) PROVE BusNext
  <2>1. Distinct(handlers)
    BY DEF BusInv, TokensAreUnique, Distinct
  <2>2. Elements(handlers)' = Elements(handlers) \ {t}
    BY <1>3, <1>m, <2>1, WithoutElements DEF Unsubscribe
  <2>3. UNCHANGED <<OwedMap, FailedMap>>
    BY <1>3, SameStackOwed, SameFailed DEF Unsubscribe
  <2> QED
    BY <2>2, <2>3 DEF BusNext, Promise!Next, Promise!Leave, OwedMap, FailedMap
<1>4. ASSUME NEW th \in Threads, Publish(th) PROVE BusNext
  <2> PICK d : d = Len(stack[th]) + 1
    OBVIOUS
  <2> DEFINE f == [snapshot |-> handlers,
                    called |-> 0, reached |-> {}]
  <2>1. /\ d \in Levels /\ stack[th] \in Seq(Frame)
        /\ stack' = [stack EXCEPT ![th] = Append(stack[th], f)]
    BY <1>4 DEF Publish, BusInv, TypeOK, Levels
  <2>2. f \in Frame /\ f.snapshot = handlers /\ f.reached = {}
    BY <1>4, NewFrame DEF Publish
  <2> HIDE DEF f
  <2>3. /\ Len(stack'[th]) = d /\ stack'[th][d] = f
        /\ \A e \in 1 .. d - 1 : stack'[th][e] = stack[th][e]
        /\ \A u \in Threads \ {th} : stack'[u] = stack[u]
    BY <2>1, <2>2 DEF BusInv, TypeOK
  <2>4. Owed(th, d) = {} /\ Owed(th, d)' = Elements(handlers)
    BY <2>1, <2>2, <2>3 DEF Owed
  <2>5. \A u \in Threads, e \in Levels : (u = th /\ e = d) \/ Owed(u, e)' = Owed(u, e)
    <3>1. ASSUME NEW e \in Levels, e # d PROVE Owed(th, e)' = Owed(th, e)
      <4>1. CASE e <= Len(stack[th])
        <5>1. stack'[th][e] = stack[th][e] /\ e <= Len(stack'[th])
          BY <2>1, <2>3, <4>1 DEF Levels
        <5> QED
          BY <4>1, <5>1 DEF Owed
      <4>2. CASE ~(e <= Len(stack[th]))
        BY <2>1, <2>3, <3>1, <4>2 DEF Owed, Levels
      <4> QED
        BY <4>1, <4>2
    <3>2. ASSUME NEW u \in Threads \ {th}, NEW e \in Levels PROVE Owed(u, e)' = Owed(u, e)
      BY <2>3 DEF Owed
    <3> QED
      BY <3>1, <3>2
  <2>6. OwedMap' = [OwedMap EXCEPT ![<<th, d>>] = Elements(handlers)]
    BY <2>1, <2>4, <2>5, OwedElsewhere
  <2>7. FailedMap' = [FailedMap EXCEPT ![<<th, d>>] = FALSE]
    BY <1>4, <2>1, FailedAt DEF Publish
  <2>8. OwedMap[<<th, d>>] = {} /\ Elements(handlers)' = Elements(handlers)
    BY <1>4, <2>1, <2>4 DEF OwedMap, Publish, Elements
  <2>9. Promise!Publish(<<th, d>>)
    BY <2>6, <2>7, <2>8 DEF Promise!Publish, OwedMap, FailedMap
  <2>10. <<th, d>> \in Threads \X Levels
    BY <2>1
  <2> QED
    BY <2>9, <2>10 DEF BusNext, Promise!Next
<1>5. ASSUME NEW th \in Threads, CallNext(th) PROVE BusNext
  <2> PICK d : d = Len(stack[th])
    OBVIOUS
  <2> DEFINE f == stack[th][d]
             t == f.snapshot[f.called + 1]
  <2>1. /\ d \in 1 .. Len(stack[th]) /\ d \in Levels /\ f \in Frame /\ FrameOK(f)
        /\ f.called < Len(f.snapshot)
        /\ stack' = [stack EXCEPT ![th] = [stack[th] EXCEPT ![d] = Advanced(f, t)]]
    BY <1>5, CallNextStack
  <2>2. /\ Advanced(f, t) \in Frame
        /\ Advanced(f, t).snapshot = f.snapshot
        /\ Advanced(f, t).reached = f.reached \cup {t}
        /\ t \in Elements(f.snapshot) \ f.reached /\ t \in Tokens
    BY <2>1, AdvancedFrame
  <2>3. /\ Len(stack'[th]) = Len(stack[th]) /\ stack'[th][d] = Advanced(f, t)
        /\ \A e \in 1 .. d - 1 : stack'[th][e] = stack[th][e]
        /\ \A u \in Threads \ {th} : stack'[u] = stack[u]
    <3> DEFINE next == [stack[th] EXCEPT ![d] = Advanced(f, t)]
    <3>1. stack \in [Threads -> Seq(Frame)] /\ stack[th] \in Seq(Frame)
      BY DEF BusInv, TypeOK
    <3> HIDE DEF f, t
    <3>2. /\ Len(next) = Len(stack[th]) /\ next[d] = Advanced(f, t)
          /\ \A e \in 1 .. d - 1 : next[e] = stack[th][e]
      BY <2>1, <3>1
    <3>3. stack' = [stack EXCEPT ![th] = next]
      BY <2>1
    <3> HIDE DEF next
    <3> QED
      BY <3>1, <3>2, <3>3
  <2>4. Owed(th, d) = Elements(f.snapshot) \ f.reached
    BY <2>1 DEF Owed
  <2>5. Owed(th, d)' = Owed(th, d) \ {t}
    BY <2>1, <2>2, <2>3, <2>4 DEF Owed
  <2>6. \A u \in Threads, e \in Levels : (u = th /\ e = d) \/ Owed(u, e)' = Owed(u, e)
    <3>1. ASSUME NEW e \in Levels, e # d PROVE Owed(th, e)' = Owed(th, e)
      <4>1. CASE e <= Len(stack[th])
        <5>1. stack'[th][e] = stack[th][e] /\ e <= Len(stack'[th])
          BY <2>1, <2>3, <3>1, <4>1 DEF Levels
        <5> QED
          BY <4>1, <5>1 DEF Owed
      <4>2. CASE ~(e <= Len(stack[th]))
        BY <2>3, <4>2 DEF Owed
      <4> QED
        BY <4>1, <4>2
    <3>2. ASSUME NEW u \in Threads \ {th}, NEW e \in Levels PROVE Owed(u, e)' = Owed(u, e)
      BY <2>3 DEF Owed
    <3> QED
      BY <3>1, <3>2
  <2>7. OwedMap' = [OwedMap EXCEPT ![<<th, d>>] = Owed(th, d) \ {t}]
    BY <2>1, <2>5, <2>6, OwedElsewhere
  <2>8. /\ OwedMap[<<th, d>>] = Owed(th, d)
        /\ FailedMap' = FailedMap /\ Elements(handlers)' = Elements(handlers)
    BY <1>5, <2>1, SameFailed DEF OwedMap, CallNext, Elements
  <2>9. Promise!Deliver(<<th, d>>, t)
    BY <2>2, <2>4, <2>7, <2>8 DEF Promise!Deliver, OwedMap, FailedMap
  <2>10. <<th, d>> \in Threads \X Levels
    BY <2>1
  <2> QED
    BY <2>2, <2>9, <2>10 DEF BusNext, Promise!Next
<1>6. ASSUME NEW th \in Threads, Return(th) PROVE BusNext
  <2> PICK d : d = Len(stack[th])
    OBVIOUS
  <2>1. /\ d \in Levels /\ Owed(th, d)' = {}
        /\ \A u \in Threads, e \in Levels : (u = th /\ e = d) \/ Owed(u, e)' = Owed(u, e)
    <3>1. /\ d = Len(stack[th]) /\ InCall(th)
          /\ stack' = [stack EXCEPT ![th] = Popped(th)]
      BY <1>6 DEF Return
    <3> QED
      BY <3>1, PopOwed
  <2>2. Owed(th, d) = {}
    <3>1. stack[th][d] \in Frame /\ FrameOK(stack[th][d])
      <4>1. stack[th] \in Seq(Frame) /\ stack[th] # <<>>
        BY <1>6 DEF Return, InCall, BusInv, TypeOK
      <4>2. d \in 1 .. Len(stack[th])
        BY <4>1
      <4> QED
        BY <4>1, <4>2 DEF BusInv, FramesOK
    <3> QED
      BY <1>6, <2>1, <3>1 DEF Owed, FrameOK, Frame, Elements, Return, Top, Loop
  <2>3. OwedMap' = OwedMap
    <3>1. OwedMap' = [OwedMap EXCEPT ![<<th, d>>] = {}]
      BY <2>1, OwedElsewhere
    <3>2. OwedMap[<<th, d>>] = {} /\ <<th, d>> \in Threads \X Levels
      BY <2>1, <2>2 DEF OwedMap
    <3> QED
      BY <3>1, <3>2 DEF OwedMap
  <2> QED
    BY <1>6, <2>3, SameFailed DEF Return, BusNext, Elements
<1>7. ASSUME NEW th \in Threads, HandlerThrows(th) PROVE BusNext
  <2> PICK d : d = Len(stack[th])
    OBVIOUS
  <2>1. /\ d \in Levels /\ Owed(th, d)' = {}
        /\ \A u \in Threads, e \in Levels : (u = th /\ e = d) \/ Owed(u, e)' = Owed(u, e)
    <3>1. /\ d = Len(stack[th]) /\ InCall(th)
          /\ stack' = [stack EXCEPT ![th] = Popped(th)]
      BY <1>7 DEF HandlerThrows
    <3> QED
      BY <3>1, PopOwed
  <2>2. OwedMap' = [OwedMap EXCEPT ![<<th, d>>] = {}]
    BY <2>1, OwedElsewhere
  <2>3. FailedMap' = [FailedMap EXCEPT ![<<th, d>>] = TRUE]
    BY <1>7, <2>1, FailedAt DEF HandlerThrows
  <2>4. Promise!Fail(<<th, d>>)
    BY <1>7, <2>2, <2>3 DEF Promise!Fail, HandlerThrows, Elements, OwedMap, FailedMap
  <2>5. <<th, d>> \in Threads \X Levels
    BY <2>1
  <2> QED
    BY <2>4, <2>5 DEF BusNext, Promise!Next
<1>8. CASE UNCHANGED vars
  BY <1>8, SameStackOwed, SameFailed DEF vars, BusNext, Elements
<1> QED
  BY <1>1, <1>2, <1>3, <1>4, <1>5, <1>6, <1>7, <1>8 DEF Next

(* A publish call reaches exactly those subscribed when it took its        *)
(* snapshot, each once, whatever threads and handlers do meanwhile.        *)
THEOREM BusKeepsThePromise == Spec => KeepsThePromise
<1>1. Init => Promise!Init
  <2> SUFFICES ASSUME Init PROVE Promise!Init
    OBVIOUS
  <2>1. Elements(handlers) = {}
    BY DEF Init, Elements
  <2>2. ASSUME NEW p \in Threads \X Levels
        PROVE  Owed(p[1], p[2]) = {} /\ failed[p[1]][p[2]] = FALSE
    <3>1. /\ stack[p[1]] = <<>> /\ failed[p[1]][p[2]] = FALSE
          /\ p[2] \in 1 .. Depth /\ Depth \in Nat
      BY BoundAssumption DEF Init, Levels
    <3>2. ~(p[2] <= Len(stack[p[1]]))
      BY <3>1
    <3> QED
      BY <3>1, <3>2 DEF Owed
  <2>3. /\ OwedMap = [p \in Threads \X Levels |-> {}]
        /\ FailedMap = [p \in Threads \X Levels |-> FALSE]
    BY <2>2 DEF OwedMap, FailedMap
  <2> QED
    BY <2>1, <2>3 DEF Promise!Init, OwedMap, FailedMap
<1>2. BusInv /\ [Next]_vars => [Promise!Next]_(Promise!vars)
  BY RefinementStep DEF BusNext, Promise!vars, OwedMap, FailedMap
<1> QED
  BY <1>1, <1>2, BusInvariant, PTL DEF Spec, KeepsThePromise, Promise!Spec
=============================================================================
