--------------------------- MODULE DockInputProofs ---------------------------
(* Proofs about the action engine, for any set of chains of any length, any  *)
(* nesting of Multi Actions and any number of runs and timers; and about the *)
(* input service, for any number of encoders and profiles, any bindings and  *)
(* any chains: it drives the engine as the engine's specification allows, so *)
(* every theorem about the engine holds of it, and its own invariants need   *)
(* no bound on what the user does.                                           *)
EXTENDS DockInput, SequenceTheorems, TLAPS


-----------------------------------------------------------------------------
(* Sequences used as stacks and as histories.                                *)

(* Taking the last element off keeps the ones below it.                      *)
LEMMA PopSeq ==
    ASSUME NEW S, NEW s \in Seq(S), s # <<>>
    PROVE  /\ SubSeq(s, 1, Len(s) - 1) \in Seq(S)
           /\ Len(SubSeq(s, 1, Len(s) - 1)) = Len(s) - 1
           /\ \A i \in 1 .. (Len(s) - 1) : SubSeq(s, 1, Len(s) - 1)[i] = s[i]
<1> DEFINE n == Len(s) - 1
<1>1. n \in Nat /\ 1 \in Int
  OBVIOUS
<1>2. \A i \in 1 .. n : s[i] \in S
  OBVIOUS
<1> HIDE DEF n
<1>3. /\ SubSeq(s, 1, n) \in Seq(S)
      /\ Len(SubSeq(s, 1, n)) = IF 1 <= n THEN n - 1 + 1 ELSE 0
      /\ \A i \in 1 .. n - 1 + 1 : SubSeq(s, 1, n)[i] = s[1 + i - 1]
  BY <1>1, <1>2, SubSeqProperties
<1>4. Len(SubSeq(s, 1, n)) = n /\ \A i \in 1 .. n : SubSeq(s, 1, n)[i] = s[i]
  BY <1>1, <1>3
<1> QED
  BY <1>3, <1>4 DEF n

(* Replacing the last element keeps the ones below it.                       *)
LEMMA PutSeq ==
    ASSUME NEW S, NEW s \in Seq(S), s # <<>>, NEW f \in S
    PROVE  /\ [s EXCEPT ![Len(s)] = f] \in Seq(S)
           /\ Len([s EXCEPT ![Len(s)] = f]) = Len(s)
           /\ [s EXCEPT ![Len(s)] = f][Len(s)] = f
           /\ \A i \in 1 .. (Len(s) - 1) : [s EXCEPT ![Len(s)] = f][i] = s[i]
  OBVIOUS

(* A new element comes last.                                                 *)
LEMMA PushSeq ==
    ASSUME NEW S, NEW s \in Seq(S), NEW f \in S
    PROVE  /\ Append(s, f) \in Seq(S)
           /\ Len(Append(s, f)) = Len(s) + 1
           /\ Append(s, f)[Len(s) + 1] = f
           /\ \A i \in 1 .. Len(s) : Append(s, f)[i] = s[i]
  OBVIOUS

-----------------------------------------------------------------------------
(* What steps do to the values h of ran, c of chainOf, s of the stack and w  *)
(* of the waiting continuations.                                             *)
Elsewhere(h, r, g) == Len(g) = Len(h) /\ \A q \in 1 .. Len(h) : q # r => g[q] = h[q]
Grown(h, r, n, g)  == g = [h EXCEPT ![r] = Append(@, n)]
Replaced(s, f, t)  == t = [s EXCEPT ![Len(s)] = f]
Popped(s, t)       == t = SubSeq(s, 1, Len(s) - 1)
Pushed(s, f, t)    == t = Append(s, f)

(* Histories, for any values h of ran and c of chainOf.                      *)
Kind(c, r, i) == Chain[c[r]][i].kind

(* What run r has performed is a beginning of its chain, in order, with at   *)
(* most its last step a folder step.                                         *)
Fit(h, c, r) ==
    /\ Len(h[r]) <= Len(Chain[c[r]])
    /\ \A i \in 1 .. Len(h[r]) : h[r][i] = i
    /\ \A i \in 1 .. (Len(h[r]) - 1) : Kind(c, r, i) \notin FolderKinds

(* Run r may go on: it has met no folder step.                               *)
Live(h, c, r) == \A i \in 1 .. Len(h[r]) : Kind(c, r, i) \notin FolderKinds

Done(h, c, r) ==
    \/ Len(h[r]) = Len(Chain[c[r]])
    \/ Len(h[r]) > 0 /\ Kind(c, r, Len(h[r])) \in FolderKinds

Histories(h, c) ==
    /\ h \in Seq(Seq(Nat)) /\ c \in Seq(Chains)
    /\ Len(h) = Len(c)
    /\ \A r \in 1 .. Len(h) : Fit(h, c, r)

(* Performing the next step of a run that may go on.                         *)
LEMMA Grow ==
    ASSUME NEW h, NEW c, Histories(h, c), NEW r \in 1 .. Len(h),
           Live(h, c, r), NEW n \in Nat, n = Len(h[r]) + 1, n <= Len(Chain[c[r]]),
           NEW g, Grown(h, r, n, g)
    PROVE  /\ Histories(g, c)
           /\ Len(g[r]) = n
           /\ Elsewhere(h, r, g)
           /\ Kind(c, r, n) \notin FolderKinds => Live(g, c, r)
           /\ Kind(c, r, n) \in FolderKinds => Done(g, c, r)
<1> USE DEF Histories, Elsewhere, Grown
<1>1. h[r] \in Seq(Nat)
  OBVIOUS
<1>2. /\ Append(h[r], n) \in Seq(Nat)
      /\ Len(Append(h[r], n)) = n
      /\ Append(h[r], n)[n] = n
      /\ \A i \in 1 .. Len(h[r]) : Append(h[r], n)[i] = h[r][i]
  BY <1>1
<1>3. /\ g \in Seq(Seq(Nat)) /\ Len(g) = Len(h)
      /\ g[r] = Append(h[r], n)
      /\ \A q \in 1 .. Len(h) : q # r => g[q] = h[q]
  BY <1>2
<1>4. /\ \A i \in 1 .. n : g[r][i] = i
      /\ Len(g[r]) = n
      /\ \A i \in 1 .. (n - 1) : Kind(c, r, i) \notin FolderKinds
  <2>1. Fit(h, c, r)
    OBVIOUS
  <2>2. ASSUME NEW i \in 1 .. n PROVE g[r][i] = i
    <3>1. CASE i = n
      BY <3>1, <1>2, <1>3
    <3>2. CASE i # n
      <4>1. i \in 1 .. Len(h[r])
        BY <3>2, <1>1
      <4>2. h[r][i] = i
        BY <4>1, <2>1 DEF Fit
      <4> QED
        BY <4>1, <4>2, <1>2, <1>3
    <3> QED
      BY <3>1, <3>2
  <2>3. n - 1 = Len(h[r])
    BY <1>1
  <2> QED
    BY <2>2, <2>3, <1>2, <1>3 DEF Live
<1>5. ASSUME NEW q \in 1 .. Len(g) PROVE Fit(g, c, q)
  <2>1. CASE q = r
    BY <2>1, <1>4 DEF Fit
  <2>2. CASE q # r
    <3>1. g[q] = h[q] /\ Fit(h, c, q)
      BY <2>2, <1>3
    <3> QED
      BY <3>1 DEF Fit
  <2> QED
    BY <2>1, <2>2
<1>6. Kind(c, r, n) \notin FolderKinds => Live(g, c, r)
  <2> SUFFICES ASSUME Kind(c, r, n) \notin FolderKinds, NEW i \in 1 .. Len(g[r])
               PROVE  Kind(c, r, i) \notin FolderKinds
    BY DEF Live
  <2>1. i = n \/ i \in 1 .. (n - 1)
    BY <1>4
  <2> QED
    BY <2>1, <1>4
<1>7. Kind(c, r, n) \in FolderKinds => Done(g, c, r)
  BY <1>4 DEF Done
<1> QED
  BY <1>3, <1>4, <1>5, <1>6, <1>7

(* Histories g and d are h and c with another run, of chain x.               *)
Begun(h, c, x, g, d) == g = Append(h, <<>>) /\ d = Append(c, x)

(* Starting another run.                                                     *)
LEMMA Begin ==
    ASSUME NEW h, NEW c, Histories(h, c), NEW x \in Chains,
           NEW g, NEW d, Begun(h, c, x, g, d)
    PROVE  /\ Histories(g, d)
           /\ Len(g) = Len(h) + 1
           /\ g[Len(h) + 1] = <<>> /\ Live(g, d, Len(h) + 1)
           /\ \A q \in 1 .. Len(h) : g[q] = h[q] /\ d[q] = c[q]
<1> USE DEF Begun
<1>1. /\ h \in Seq(Seq(Nat)) /\ c \in Seq(Chains) /\ Len(h) = Len(c)
      /\ \A r \in 1 .. Len(h) : Fit(h, c, r)
  BY DEF Histories
<1>2. <<>> \in Seq(Nat) /\ Len(<<>>) = 0
  OBVIOUS
<1> DEFINE S == Seq(Nat)
<1>3. /\ g \in Seq(S) /\ Len(g) = Len(h) + 1
      /\ g[Len(h) + 1] = <<>>
      /\ \A q \in 1 .. Len(h) : g[q] = h[q]
  <2>1. h \in Seq(S) /\ <<>> \in S
    BY <1>1, <1>2
  <2> HIDE DEF S
  <2> QED
    BY <2>1, PushSeq
<1>4. /\ d \in Seq(Chains) /\ Len(d) = Len(h) + 1
      /\ d[Len(h) + 1] = x
      /\ \A q \in 1 .. Len(h) : d[q] = c[q]
  BY <1>1, PushSeq
<1>5. Chain[x] \in Seq(Step)
  BY ChainsAssumption
<1>6. ASSUME NEW q \in 1 .. Len(g) PROVE Fit(g, d, q)
  <2>1. CASE q = Len(h) + 1
    <3>1. Len(g[q]) = 0 /\ d[q] = x
      BY <2>1, <1>2, <1>3, <1>4
    <3>2. Len(Chain[x]) \in Nat
      BY <1>5
    <3> QED
      BY <3>1, <3>2 DEF Fit
  <2>2. CASE q # Len(h) + 1
    <3>1. q \in 1 .. Len(h)
      BY <2>2, <1>1, <1>3
    <3>2. g[q] = h[q] /\ d[q] = c[q] /\ Fit(h, c, q)
      BY <3>1, <1>1, <1>3, <1>4
    <3> QED
      BY <3>2 DEF Fit, Kind
  <2> QED
    BY <2>1, <2>2
<1>7. Live(g, d, Len(h) + 1)
  BY <1>2, <1>3 DEF Live
<1>8. Histories(g, d)
  BY <1>3, <1>4, <1>6 DEF Histories
<1> QED
  BY <1>3, <1>4, <1>7, <1>8

-----------------------------------------------------------------------------
(* Where a run is: s stands for the stack, w for the waiting continuations.  *)

(* A walk is about to perform the step behind those its run has performed,   *)
(* or has just performed the last of them.                                   *)
FrameFits(h, c, f) ==
    /\ f.run \in 1 .. Len(h)
    /\ Live(h, c, f.run)
    /\ f.pc = "switch" => f.at = Len(h[f.run]) + 1
    /\ f.pc = "post" => f.at = Len(h[f.run]) /\ f.at > 0

(* A continuation resumes behind the last step performed.                    *)
TimerFits(h, c, k) ==
    /\ k.run \in 1 .. Len(h)
    /\ Live(h, c, k.run)
    /\ k.at = Len(h[k.run]) + 1

AllFit(h, c, s, w) ==
    /\ s \in Seq(Frame) /\ w \in SUBSET Continuation
    /\ \A i \in 1 .. Len(s) : FrameFits(h, c, s[i])
    /\ \A k \in w : TimerFits(h, c, k)

Apart(s, w) ==
    /\ \A i, j \in 1 .. Len(s) : s[i].run = s[j].run => i = j
    /\ \A k, m \in w : k.run = m.run => k = m
    /\ \A i \in 1 .. Len(s), k \in w : s[i].run # k.run

Accounted(h, c, s, w) ==
    \A r \in 1 .. Len(h) :
        \/ \E i \in 1 .. Len(s) : s[i].run = r
        \/ \E k \in w : k.run = r
        \/ Done(h, c, r)

(* A change of the innermost walk's run leaves every other walk and every    *)
(* continuation as it was.                                                   *)
LEMMA OthersFit ==
    ASSUME NEW h, NEW c, NEW s, NEW w, AllFit(h, c, s, w), Apart(s, w), s # <<>>,
           NEW g, Elsewhere(h, s[Len(s)].run, g)
    PROVE  /\ \A i \in 1 .. (Len(s) - 1) : FrameFits(g, c, s[i])
           /\ \A k \in w : TimerFits(g, c, k)
<1> USE DEF Elsewhere
<1>1. s \in Seq(Frame) /\ Len(s) \in 1 .. Len(s)
  BY DEF AllFit
<1>2. ASSUME NEW i \in 1 .. (Len(s) - 1) PROVE FrameFits(g, c, s[i])
  <2>1. i \in 1 .. Len(s) /\ i # Len(s)
    BY <1>1
  <2>2. s[i].run # s[Len(s)].run /\ FrameFits(h, c, s[i])
    BY <2>1, <1>1 DEF Apart, AllFit
  <2>3. g[s[i].run] = h[s[i].run]
    BY <2>2 DEF FrameFits
  <2> QED
    BY <2>2, <2>3 DEF FrameFits, Live
<1>3. ASSUME NEW k \in w PROVE TimerFits(g, c, k)
  <2>1. k.run # s[Len(s)].run /\ TimerFits(h, c, k)
    BY <1>1 DEF Apart, AllFit
  <2>2. g[k.run] = h[k.run]
    BY <2>1 DEF TimerFits
  <2> QED
    BY <2>1, <2>2 DEF TimerFits, Live
<1> QED
  BY <1>2, <1>3

(* The innermost walk goes on with frame f.                                  *)
LEMMA TopStays ==
    ASSUME NEW h, NEW c, NEW s, NEW w, AllFit(h, c, s, w), Apart(s, w), s # <<>>,
           NEW g, Elsewhere(h, s[Len(s)].run, g),
           NEW f \in Frame, f.run = s[Len(s)].run, FrameFits(g, c, f),
           NEW t, Replaced(s, f, t)
    PROVE  /\ AllFit(g, c, t, w) /\ Apart(t, w)
           /\ Accounted(h, c, s, w) => Accounted(g, c, t, w)
<1> USE DEF Elsewhere, Replaced
<1>1. s \in Seq(Frame) /\ w \in SUBSET Continuation
  BY DEF AllFit
<1>2. /\ t \in Seq(Frame) /\ Len(t) = Len(s) /\ t[Len(s)] = f
      /\ \A i \in 1 .. (Len(s) - 1) : t[i] = s[i]
  <2> HIDE DEF Frame
  <2> QED
    BY <1>1, PutSeq
<1>3. \A i \in 1 .. Len(s) : t[i].run = s[i].run
  <2> SUFFICES ASSUME NEW i \in 1 .. Len(s) PROVE t[i].run = s[i].run
    OBVIOUS
  <2>1. i = Len(s) \/ i \in 1 .. (Len(s) - 1)
    BY <1>1
  <2> QED
    BY <2>1, <1>2
<1>4. AllFit(g, c, t, w)
  <2>1. ASSUME NEW i \in 1 .. Len(t) PROVE FrameFits(g, c, t[i])
    <3>1. i = Len(s) \/ i \in 1 .. (Len(s) - 1)
      BY <1>1, <1>2
    <3> QED
      BY <3>1, <1>2, OthersFit
  <2>2. \A k \in w : TimerFits(g, c, k)
    BY OthersFit
  <2> QED
    BY <2>1, <2>2, <1>1, <1>2 DEF AllFit
<1>5. Apart(t, w)
  <2>1. ASSUME NEW z, Len(z) = Len(s), \A i \in 1 .. Len(s) : z[i].run = s[i].run
        PROVE  Apart(z, w)
    BY <2>1 DEF Apart
  <2> QED
    BY <2>1, <1>2, <1>3
<1>6. ASSUME Accounted(h, c, s, w) PROVE Accounted(g, c, t, w)
  <2> SUFFICES ASSUME NEW r \in 1 .. Len(h), ~ \E k \in w : k.run = r,
                      ~ \E i \in 1 .. Len(s) : s[i].run = r
               PROVE  Done(g, c, r)
    BY <1>2, <1>3 DEF Accounted
  <2>1. Len(s) \in 1 .. Len(s)
    BY <1>1
  <2>2. Done(h, c, r) /\ g[r] = h[r]
    BY <1>6, <2>1 DEF Accounted
  <2> QED
    BY <2>2 DEF Done
<1> QED
  BY <1>4, <1>5, <1>6

(* Run r is over, or its rest is waiting in v.                               *)
EndsOrWaits(g, c, r, w, v) ==
    \/ v = w /\ Done(g, c, r)
    \/ \E k \in Continuation : k.run = r /\ TimerFits(g, c, k) /\ v = w \cup {k}

(* The innermost walk returns, for good or with a continuation behind it.    *)
LEMMA TopLeaves ==
    ASSUME NEW h, NEW c, NEW s, NEW w, AllFit(h, c, s, w), Apart(s, w), s # <<>>,
           NEW g, Elsewhere(h, s[Len(s)].run, g),
           NEW v, EndsOrWaits(g, c, s[Len(s)].run, w, v),
           NEW t, Popped(s, t)
    PROVE  /\ AllFit(g, c, t, v) /\ Apart(t, v)
           /\ Accounted(h, c, s, w) => Accounted(g, c, t, v)
<1> USE DEF Elsewhere, Popped, EndsOrWaits
<1>1. s \in Seq(Frame) /\ w \in SUBSET Continuation
  BY DEF AllFit
<1>2. /\ t \in Seq(Frame) /\ Len(t) = Len(s) - 1
      /\ \A i \in 1 .. (Len(s) - 1) : t[i] = s[i]
  <2> HIDE DEF Frame
  <2> QED
    BY <1>1, PopSeq
<1>3. Len(s) \in 1 .. Len(s) /\ \A i \in 1 .. Len(t) : i \in 1 .. Len(s) /\ i # Len(s)
  BY <1>1, <1>2
<1>4. \A k \in v : k \notin w => k.run = s[Len(s)].run /\ TimerFits(g, c, k) /\ k \in Continuation
  OBVIOUS
<1>5. AllFit(g, c, t, v)
  <2>1. \A i \in 1 .. Len(t) : FrameFits(g, c, t[i])
    BY <1>2, OthersFit
  <2>2. \A k \in v : TimerFits(g, c, k) /\ k \in Continuation
    BY <1>1, <1>4, OthersFit
  <2> QED
    BY <2>1, <2>2, <1>2 DEF AllFit
<1>6. Apart(t, v)
  <2>1. \A i, j \in 1 .. Len(t) : t[i].run = t[j].run => i = j
    BY <1>2, <1>3 DEF Apart
  <2>2. \A k, m \in v : k.run = m.run => k = m
    <3>1. \A k \in w : k.run # s[Len(s)].run
      BY <1>3 DEF Apart
    <3> QED
      BY <3>1 DEF Apart
  <2>3. \A i \in 1 .. Len(t), k \in v : t[i].run # k.run
    BY <1>2, <1>3, <1>4 DEF Apart
  <2> QED
    BY <2>1, <2>2, <2>3 DEF Apart
<1>7. ASSUME Accounted(h, c, s, w) PROVE Accounted(g, c, t, v)
  <2> SUFFICES ASSUME NEW r \in 1 .. Len(h), ~ \E k \in v : k.run = r,
                      ~ \E i \in 1 .. Len(t) : t[i].run = r
               PROVE  Done(g, c, r)
    BY DEF Accounted
  <2>1. CASE r = s[Len(s)].run
    BY <2>1
  <2>2. CASE r # s[Len(s)].run
    <3>1. ~ \E i \in 1 .. Len(s) : s[i].run = r
      <4> SUFFICES ASSUME NEW i \in 1 .. Len(s), s[i].run = r PROVE FALSE
        OBVIOUS
      <4>1. i \in 1 .. Len(t) /\ t[i] = s[i]
        BY <2>2, <1>1, <1>2
      <4> QED
        BY <4>1
    <3>2. ~ \E k \in w : k.run = r
      OBVIOUS
    <3>3. Done(h, c, r) /\ g[r] = h[r]
      BY <1>7, <2>2, <3>1, <3>2 DEF Accounted
    <3> QED
      BY <3>3 DEF Done
  <2> QED
    BY <2>1, <2>2
<1> QED
  BY <1>5, <1>6, <1>7

(* run() enters a chain with at least one step: a new run is on top.         *)
LEMMA TopEnters ==
    ASSUME NEW h, NEW c, NEW s, NEW w, Histories(h, c), AllFit(h, c, s, w), Apart(s, w),
           NEW x \in Chains, NEW g, NEW d, Begun(h, c, x, g, d),
           NEW t, Pushed(s, Walk(Len(c) + 1, 1, "switch"), t)
    PROVE  /\ Histories(g, d) /\ AllFit(g, d, t, w) /\ Apart(t, w)
           /\ Accounted(h, c, s, w) => Accounted(g, d, t, w)
<1> USE DEF Pushed
<1>1. s \in Seq(Frame) /\ w \in SUBSET Continuation /\ Len(c) = Len(h) /\ Len(h) \in Nat
  BY DEF AllFit, Histories
<1>2. /\ Histories(g, d) /\ Len(g) = Len(h) + 1
      /\ g[Len(h) + 1] = <<>> /\ Live(g, d, Len(h) + 1)
      /\ \A q \in 1 .. Len(h) : g[q] = h[q] /\ d[q] = c[q]
  BY Begin
<1> DEFINE f == Walk(Len(c) + 1, 1, "switch")
<1>3. f \in Frame /\ f.run = Len(h) + 1 /\ f.at = 1 /\ f.pc = "switch"
  BY <1>1 DEF Walk, Frame
<1>4. /\ t \in Seq(Frame) /\ Len(t) = Len(s) + 1 /\ t[Len(s) + 1] = f
      /\ \A i \in 1 .. Len(s) : t[i] = s[i]
  <2> HIDE DEF Frame, f
  <2>1. t = Append(s, f)
    BY DEF f
  <2> QED
    BY <1>1, <1>3, <2>1, PushSeq
<1> HIDE DEF f
<1>5. FrameFits(g, d, f)
  <2>1. Len(g[Len(h) + 1]) = 0
    BY <1>2
  <2> QED
    BY <1>1, <1>2, <1>3, <2>1 DEF FrameFits
<1>6. \A i \in 1 .. Len(t) : i = Len(s) + 1 \/ i \in 1 .. Len(s)
  BY <1>1, <1>4
<1>7. \A i \in 1 .. Len(s) : s[i].run \in 1 .. Len(h) /\ FrameFits(h, c, s[i])
  BY DEF AllFit, FrameFits
<1>8. \A k \in w : k.run \in 1 .. Len(h) /\ TimerFits(h, c, k)
  BY DEF AllFit, TimerFits
<1>9. AllFit(g, d, t, w)
  <2>1. ASSUME NEW i \in 1 .. Len(s) PROVE FrameFits(g, d, s[i])
    <3>1. g[s[i].run] = h[s[i].run] /\ d[s[i].run] = c[s[i].run]
      BY <1>2, <1>7
    <3> QED
      BY <3>1, <1>1, <1>2, <1>7 DEF FrameFits, Live, Kind
  <2>2. ASSUME NEW k \in w PROVE TimerFits(g, d, k)
    <3>1. g[k.run] = h[k.run] /\ d[k.run] = c[k.run]
      BY <1>2, <1>8
    <3> QED
      BY <3>1, <1>1, <1>2, <1>8 DEF TimerFits, Live, Kind
  <2>3. \A i \in 1 .. Len(t) : FrameFits(g, d, t[i])
    BY <2>1, <1>4, <1>5, <1>6
  <2> QED
    BY <2>2, <2>3, <1>1, <1>4 DEF AllFit
<1>10. Apart(t, w)
  <2>1. \A i, j \in 1 .. Len(t) : t[i].run = t[j].run => i = j
    <3> SUFFICES ASSUME NEW i \in 1 .. Len(t), NEW j \in 1 .. Len(t), t[i].run = t[j].run
                 PROVE  i = j
      OBVIOUS
    <3>1. \A n \in 1 .. Len(s) : t[n].run # Len(h) + 1
      BY <1>1, <1>4, <1>7
    <3>2. CASE i \in 1 .. Len(s) /\ j \in 1 .. Len(s)
      BY <3>2, <1>4 DEF Apart
    <3> QED
      BY <3>1, <3>2, <1>3, <1>4, <1>6
  <2>2. \A i \in 1 .. Len(t), k \in w : t[i].run # k.run
    <3> SUFFICES ASSUME NEW i \in 1 .. Len(t), NEW k \in w PROVE t[i].run # k.run
      OBVIOUS
    <3>1. CASE i = Len(s) + 1
      BY <3>1, <1>1, <1>3, <1>4, <1>8
    <3>2. CASE i \in 1 .. Len(s)
      BY <3>2, <1>4 DEF Apart
    <3> QED
      BY <3>1, <3>2, <1>6
  <2> QED
    BY <2>1, <2>2 DEF Apart
<1>11. ASSUME Accounted(h, c, s, w) PROVE Accounted(g, d, t, w)
  <2> SUFFICES ASSUME NEW r \in 1 .. Len(g), ~ \E k \in w : k.run = r,
                      ~ \E i \in 1 .. Len(t) : t[i].run = r
               PROVE  Done(g, d, r)
    BY DEF Accounted
  <2>1. r # Len(h) + 1
    <3>1. Len(s) + 1 \in 1 .. Len(t) /\ t[Len(s) + 1].run = Len(h) + 1
      BY <1>1, <1>3, <1>4
    <3> QED
      BY <3>1
  <2>2. r \in 1 .. Len(h)
    BY <2>1, <1>1, <1>2
  <2>3. ~ \E i \in 1 .. Len(s) : s[i].run = r
    <3>1. \A i \in 1 .. Len(s) : i \in 1 .. Len(t) /\ t[i].run = s[i].run
      BY <1>1, <1>4
    <3> QED
      BY <3>1
  <2>4. Done(h, c, r) /\ g[r] = h[r] /\ d[r] = c[r]
    BY <1>11, <1>2, <2>2, <2>3 DEF Accounted
  <2> QED
    BY <2>4 DEF Done, Kind
<1> QED
  BY <1>2, <1>9, <1>10, <1>11

(* A timer fires on an empty stack and its run goes on.                      *)
LEMMA TimerWakes ==
    ASSUME NEW h, NEW c, NEW w, AllFit(h, c, <<>>, w), Apart(<<>>, w), NEW k \in w,
           NEW t, t = <<Walk(k.run, k.at, "switch")>>
    PROVE  /\ AllFit(h, c, t, w \ {k}) /\ Apart(t, w \ {k})
           /\ Accounted(h, c, <<>>, w) => Accounted(h, c, t, w \ {k})
<1>1. w \in SUBSET Continuation /\ TimerFits(h, c, k)
  BY DEF AllFit
<1> DEFINE f == Walk(k.run, k.at, "switch")
<1>2. f \in Frame /\ f.run = k.run /\ f.at = k.at /\ f.pc = "switch"
  BY <1>1 DEF Walk, Frame, Continuation
<1>3. t \in Seq(Frame) /\ Len(t) = 1 /\ t[1] = f
  BY <1>2
<1> HIDE DEF f
<1>4. AllFit(h, c, t, w \ {k})
  <2>1. FrameFits(h, c, f)
    BY <1>1, <1>2 DEF FrameFits, TimerFits
  <2> QED
    BY <1>1, <1>3, <2>1 DEF AllFit
<1>5. Apart(t, w \ {k})
  BY <1>2, <1>3 DEF Apart
<1>6. ASSUME Accounted(h, c, <<>>, w) PROVE Accounted(h, c, t, w \ {k})
  BY <1>2, <1>3, <1>6 DEF Accounted
<1> QED
  BY <1>4, <1>5, <1>6

-----------------------------------------------------------------------------
(* The inductive invariant.                                                  *)
IInv ==
    /\ Histories(ran, chainOf)
    /\ AllFit(ran, chainOf, stack, deferred)
    /\ Apart(stack, deferred)
    /\ alive => Accounted(ran, chainOf, stack, deferred)
    /\ ~alive => stack = <<>>
    /\ alive \in BOOLEAN
    /\ pageStack \in Seq(Args \cup {NoArg})

LEMMA InitInv == EngineInit => IInv
  BY DEF EngineInit, IInv, Histories, AllFit, Apart, Accounted

(* What holds of the innermost walk.                                         *)
LEMMA TopFacts ==
    ASSUME IInv, stack # <<>>
    PROVE  /\ alive = TRUE
           /\ stack \in Seq(Frame) /\ Top \in Frame /\ Top = stack[Len(stack)]
           /\ FrameFits(ran, chainOf, Top)
           /\ Len(ran) = Len(chainOf)
           /\ Top.run \in 1 .. Len(ran)
           /\ TopChain \in Seq(Step)
           /\ Fit(ran, chainOf, Top.run)
           /\ Len(ran[Top.run]) \in Nat
<1>1. stack \in Seq(Frame) /\ Len(stack) \in 1 .. Len(stack) /\ alive = TRUE
  BY DEF IInv, AllFit
<1>2. Top \in Frame /\ Top = stack[Len(stack)]
  <2> HIDE DEF Frame
  <2> QED
    BY <1>1 DEF Top
<1>3. FrameFits(ran, chainOf, Top)
  BY <1>1, <1>2 DEF IInv, AllFit
<1>4. Top.run \in 1 .. Len(ran)
  BY <1>3 DEF FrameFits
<1>5. /\ Len(ran) = Len(chainOf) /\ chainOf \in Seq(Chains) /\ ran \in Seq(Seq(Nat))
      /\ Fit(ran, chainOf, Top.run)
  BY <1>4 DEF IInv, Histories
<1>6. chainOf[Top.run] \in Chains /\ ran[Top.run] \in Seq(Nat)
  BY <1>4, <1>5
<1>7. TopChain \in Seq(Step) /\ Len(ran[Top.run]) \in Nat
  <2>1. Chain[chainOf[Top.run]] \in Seq(Step)
    BY <1>6, ChainsAssumption
  <2> QED
    BY <2>1, <1>6 DEF TopChain
<1> QED
  BY <1>1, <1>2, <1>3, <1>4, <1>5, <1>7

(* The innermost walk performs its step: g is ran afterwards.                *)
LEMMA PerformFacts ==
    ASSUME IInv, stack # <<>>, Top.pc = "switch", Top.at <= Len(TopChain),
           NEW g, Grown(ran, Top.run, Top.at, g)
    PROVE  /\ Histories(g, chainOf)
           /\ Elsewhere(ran, Top.run, g)
           /\ Len(g[Top.run]) = Top.at /\ Top.at \in Nat /\ Top.at > 0
           /\ TopStep \in Step
           /\ TopStep.kind \notin FolderKinds => Live(g, chainOf, Top.run)
           /\ TopStep.kind \in FolderKinds => Done(g, chainOf, Top.run)
<1>1. /\ FrameFits(ran, chainOf, Top) /\ Top.run \in 1 .. Len(ran)
      /\ TopChain \in Seq(Step) /\ Len(ran[Top.run]) \in Nat
  BY TopFacts
<1>2. /\ Top.at = Len(ran[Top.run]) + 1 /\ Live(ran, chainOf, Top.run)
      /\ Top.at \in Nat /\ Top.at > 0
  BY <1>1 DEF FrameFits
<1>3. TopStep \in Step
  <2> HIDE DEF Step
  <2> QED
    BY <1>1, <1>2 DEF TopStep
<1>4. Kind(chainOf, Top.run, Top.at) = TopStep.kind
  BY DEF Kind, TopStep, TopChain
<1>5. Top.at <= Len(Chain[chainOf[Top.run]])
  BY DEF TopChain
<1>6. Histories(ran, chainOf)
  BY DEF IInv
<1>7. /\ Histories(g, chainOf) /\ Elsewhere(ran, Top.run, g) /\ Len(g[Top.run]) = Top.at
      /\ Kind(chainOf, Top.run, Top.at) \notin FolderKinds => Live(g, chainOf, Top.run)
      /\ Kind(chainOf, Top.run, Top.at) \in FolderKinds => Done(g, chainOf, Top.run)
  BY <1>1, <1>2, <1>5, <1>6, Grow, SMTT(30)
<1> QED
  BY <1>2, <1>3, <1>4, <1>7

-----------------------------------------------------------------------------
(* One lemma per action.                                                     *)
LEMMA LeaveKeeps == IInv /\ Leave => IInv'
<1> SUFFICES ASSUME IInv, Leave PROVE IInv'
  OBVIOUS
<1>1. /\ stack # <<>> /\ Top.pc = "switch" /\ Top.at > Len(TopChain)
      /\ Popped(stack, stack')
      /\ chainOf' = chainOf /\ ran' = ran /\ deferred' = deferred
      /\ alive' = alive /\ pageStack' = pageStack
  BY DEF Leave, Idle, Below, Popped
<1>2. Done(ran, chainOf, Top.run)
  <2>1. Top.at = Len(ran[Top.run]) + 1
    BY <1>1, TopFacts DEF FrameFits
  <2>2. Len(ran[Top.run]) <= Len(TopChain) /\ Len(ran[Top.run]) \in Nat /\ Len(TopChain) \in Nat
    BY <1>1, TopFacts DEF Fit, TopChain
  <2> QED
    BY <1>1, <2>1, <2>2 DEF Done, TopChain
<1>3. EndsOrWaits(ran, chainOf, Top.run, deferred, deferred) /\ Elsewhere(ran, Top.run, ran)
  BY <1>2 DEF EndsOrWaits, Elsewhere
<1>4. /\ AllFit(ran, chainOf, stack', deferred) /\ Apart(stack', deferred)
      /\ Accounted(ran, chainOf, stack, deferred) => Accounted(ran, chainOf, stack', deferred)
  BY <1>1, <1>3, TopFacts, TopLeaves DEF IInv
<1> QED
  BY <1>1, <1>4, TopFacts DEF IInv

LEMMA InlineKeeps == IInv /\ Inline => IInv'
<1> SUFFICES ASSUME IInv, Inline PROVE IInv'
  OBVIOUS
<1> DEFINE f == Walk(Top.run, Top.at, "post")
<1>1. /\ stack # <<>> /\ Top.pc = "switch" /\ Top.at <= Len(TopChain)
      /\ TopStep.kind \in {"plugin", "external"}
      /\ Grown(ran, Top.run, Top.at, ran')
      /\ Replaced(stack, f, stack')
      /\ chainOf' = chainOf /\ deferred' = deferred
      /\ alive' = alive /\ pageStack' = pageStack
  BY DEF Inline, AtStep, Idle, Performed, Grown, Replaced
<1>2. /\ Histories(ran', chainOf) /\ Elsewhere(ran, Top.run, ran')
      /\ Len(ran'[Top.run]) = Top.at /\ Top.at \in Nat /\ Top.at > 0
      /\ Live(ran', chainOf, Top.run)
  BY <1>1, PerformFacts DEF FolderKinds
<1>3. f \in Frame /\ f.run = Top.run /\ f.at = Top.at /\ f.pc = "post"
  BY <1>1, <1>2, TopFacts DEF Walk, Frame
<1>4. FrameFits(ran', chainOf, f)
  BY <1>1, <1>2, <1>3, TopFacts DEF FrameFits, Elsewhere
<1> HIDE DEF f
<1>5. /\ AllFit(ran', chainOf, stack', deferred) /\ Apart(stack', deferred)
      /\ Accounted(ran, chainOf, stack, deferred) => Accounted(ran', chainOf, stack', deferred)
  BY <1>1, <1>2, <1>3, <1>4, TopFacts, TopStays DEF IInv
<1> QED
  BY <1>1, <1>2, <1>5, TopFacts DEF IInv

(* Every way of deferring: g is ran afterwards.                              *)
LEMMA DeferKeeps ==
    ASSUME IInv, stack # <<>>, NEW g, Histories(g, chainOf), Elsewhere(ran, Top.run, g),
           Len(g[Top.run]) = Top.at, Top.at \in Nat, Live(g, chainOf, Top.run), Defer
    PROVE  /\ AllFit(g, chainOf, stack', deferred') /\ Apart(stack', deferred')
           /\ Accounted(ran, chainOf, stack, deferred) => Accounted(g, chainOf, stack', deferred')
<1> DEFINE k == [run |-> Top.run, at |-> Top.at + 1]
<1>1. Popped(stack, stack') /\ deferred' = deferred \cup {k}
  BY DEF Defer, Below, Popped
<1>2. k \in Continuation /\ k.run = Top.run /\ k.at = Top.at + 1
  BY TopFacts DEF Continuation
<1>3. TimerFits(g, chainOf, k)
  BY <1>2, TopFacts DEF TimerFits, Elsewhere
<1> HIDE DEF k
<1>4. EndsOrWaits(g, chainOf, Top.run, deferred, deferred')
  BY <1>1, <1>2, <1>3 DEF EndsOrWaits
<1> QED
  BY <1>1, <1>4, TopFacts, TopLeaves DEF IInv

LEMMA SleepKeeps == IInv /\ Sleep => IInv'
<1> SUFFICES ASSUME IInv, Sleep PROVE IInv'
  OBVIOUS
<1>1. /\ stack # <<>> /\ Top.pc = "switch" /\ Top.at <= Len(TopChain)
      /\ TopStep.kind = "sleep"
      /\ Grown(ran, Top.run, Top.at, ran')
      /\ Defer
      /\ chainOf' = chainOf /\ alive' = alive /\ pageStack' = pageStack
  BY DEF Sleep, AtStep, Idle, Performed, Grown
<1>2. /\ Histories(ran', chainOf) /\ Elsewhere(ran, Top.run, ran')
      /\ Len(ran'[Top.run]) = Top.at /\ Top.at \in Nat
      /\ Live(ran', chainOf, Top.run)
  BY <1>1, PerformFacts DEF FolderKinds
<1>3. /\ AllFit(ran', chainOf, stack', deferred') /\ Apart(stack', deferred')
      /\ Accounted(ran, chainOf, stack, deferred) => Accounted(ran', chainOf, stack', deferred')
  BY <1>1, <1>2, DeferKeeps
<1> QED
  BY <1>1, <1>2, <1>3, TopFacts DEF IInv

LEMMA PostStepKeeps == IInv /\ PostStep => IInv'
<1> SUFFICES ASSUME IInv, PostStep PROVE IInv'
  OBVIOUS
<1>1. /\ stack # <<>> /\ Top.pc = "post"
      /\ chainOf' = chainOf /\ ran' = ran /\ alive' = alive /\ pageStack' = pageStack
  BY DEF PostStep, Idle
<1>2. /\ Len(ran[Top.run]) = Top.at /\ Top.at \in Nat /\ Live(ran, chainOf, Top.run)
      /\ Histories(ran, chainOf) /\ Top.run \in 1 .. Len(ran) /\ Top.run \in Nat
      /\ Elsewhere(ran, Top.run, ran)
  <2>1. /\ FrameFits(ran, chainOf, Top) /\ Top.run \in 1 .. Len(ran)
        /\ Len(ran[Top.run]) \in Nat
    BY <1>1, TopFacts
  <2>2. Histories(ran, chainOf)
    BY DEF IInv
  <2> QED
    BY <1>1, <2>1, <2>2 DEF FrameFits, Elsewhere
<1>3. CASE TopStep.delay
  <2>1. Defer
    BY <1>3 DEF PostStep
  <2>2. /\ AllFit(ran, chainOf, stack', deferred') /\ Apart(stack', deferred')
        /\ Accounted(ran, chainOf, stack, deferred) => Accounted(ran, chainOf, stack', deferred')
    BY <1>1, <1>2, <2>1, DeferKeeps
  <2> QED
    BY <1>1, <2>2, TopFacts DEF IInv
<1>4. CASE ~TopStep.delay
  <2> DEFINE f == Walk(Top.run, Top.at + 1, "switch")
  <2>1. Replaced(stack, f, stack') /\ deferred' = deferred
    BY <1>4 DEF PostStep, Replaced
  <2>2. f \in Frame /\ f.run = Top.run /\ f.at = Top.at + 1 /\ f.pc = "switch"
    BY <1>2 DEF Walk, Frame
  <2>3. FrameFits(ran, chainOf, f)
    BY <1>2, <2>2 DEF FrameFits
  <2> HIDE DEF f
  <2>4. /\ AllFit(ran, chainOf, stack', deferred) /\ Apart(stack', deferred)
        /\ Accounted(ran, chainOf, stack, deferred) => Accounted(ran, chainOf, stack', deferred)
    <3>1. f.run = stack[Len(stack)].run /\ Elsewhere(ran, stack[Len(stack)].run, ran)
      BY <1>1, <1>2, <2>2, TopFacts
    <3>2. AllFit(ran, chainOf, stack, deferred) /\ Apart(stack, deferred) /\ f \in Frame
      BY <2>2 DEF IInv
    <3> QED
      BY <1>1, <2>1, <2>3, <3>1, <3>2, TopStays
  <2> QED
    BY <1>1, <2>1, <2>4, TopFacts DEF IInv
<1> QED
  BY <1>3, <1>4

(* A folder step, opening or going back.                                     *)
LEMMA FolderKeeps == IInv /\ (OpenFolder \/ BackToParent) => IInv'
<1> SUFFICES ASSUME IInv, OpenFolder \/ BackToParent PROVE IInv'
  OBVIOUS
<1>1. /\ stack # <<>> /\ Top.pc = "switch" /\ Top.at <= Len(TopChain)
      /\ TopStep.kind \in FolderKinds
      /\ Grown(ran, Top.run, Top.at, ran')
      /\ Popped(stack, stack')
      /\ chainOf' = chainOf /\ deferred' = deferred /\ alive' = alive
  BY DEF OpenFolder, BackToParent, AtStep, Idle, Below, Performed, Grown, Popped, FolderKinds
<1>2. /\ Histories(ran', chainOf) /\ Elsewhere(ran, Top.run, ran')
      /\ Done(ran', chainOf, Top.run) /\ TopStep \in Step
  BY <1>1, PerformFacts
<1>3. EndsOrWaits(ran', chainOf, Top.run, deferred, deferred')
  BY <1>1, <1>2 DEF EndsOrWaits
<1>4. /\ AllFit(ran', chainOf, stack', deferred') /\ Apart(stack', deferred')
      /\ Accounted(ran, chainOf, stack, deferred) => Accounted(ran', chainOf, stack', deferred')
  BY <1>1, <1>2, <1>3, TopFacts, TopLeaves DEF IInv
<1>5. pageStack' \in Seq(Args \cup {NoArg})
  <2>1. pageStack \in Seq(Args \cup {NoArg}) /\ TopStep.arg \in Args \cup {NoArg}
    BY <1>2 DEF IInv, Step
  <2>2. CASE OpenFolder
    BY <2>1, <2>2 DEF OpenFolder
  <2>3. CASE BackToParent
    <3>1. CASE Len(pageStack) > 1
      <4>1. SubSeq(pageStack, 1, Len(pageStack) - 1) \in Seq(Args \cup {NoArg})
        BY <2>1, <3>1, PopSeq
      <4> QED
        BY <2>3, <3>1, <4>1 DEF BackToParent
    <3>2. CASE ~(Len(pageStack) > 1)
      BY <2>1, <2>3, <3>2 DEF BackToParent
    <3> QED
      BY <3>1, <3>2
  <2> QED
    BY <2>2, <2>3
<1> QED
  BY <1>1, <1>2, <1>4, <1>5, TopFacts DEF IInv

(* A handler's run() call from inside a walk.                                *)
LEMMA NestedKeeps == IInv /\ Nested => IInv'
<1> SUFFICES ASSUME IInv, Nested PROVE IInv'
  OBVIOUS
<1> DEFINE f == Walk(Top.run, Top.at, "post")
           g == [ran EXCEPT ![Top.run] = Append(@, Top.at)]
           s == [stack EXCEPT ![Len(stack)] = f]
           x == Inner[TopStep.arg]
<1>1. /\ stack # <<>> /\ Top.pc = "switch" /\ Top.at <= Len(TopChain)
      /\ TopStep.kind = "plugin" /\ x # NoChain
      /\ Grown(ran, Top.run, Top.at, g) /\ Replaced(stack, f, s)
      /\ Begun(g, chainOf, x, ran', chainOf')
      /\ Pushed(s, Walk(Len(chainOf) + 1, 1, "switch"), stack')
      /\ deferred' = deferred /\ alive' = alive /\ pageStack' = pageStack
  BY DEF Nested, AtStep, Idle, HandlerRuns, Grown, Replaced, Begun, Pushed
<1> HIDE DEF g, s
<1>2. /\ Histories(g, chainOf) /\ Elsewhere(ran, Top.run, g)
      /\ Len(g[Top.run]) = Top.at /\ Top.at \in Nat /\ Top.at > 0
      /\ Live(g, chainOf, Top.run) /\ TopStep \in Step
  BY <1>1, PerformFacts DEF FolderKinds
<1>3. x \in Chains
  BY <1>1, <1>2, ChainsAssumption DEF Step
<1>4. f \in Frame /\ f.run = Top.run /\ f.at = Top.at /\ f.pc = "post"
  BY <1>1, <1>2, TopFacts DEF Walk, Frame
<1>5. FrameFits(g, chainOf, f)
  BY <1>1, <1>2, <1>4, TopFacts DEF FrameFits, Elsewhere
<1> HIDE DEF f, x
<1>6. /\ AllFit(g, chainOf, s, deferred) /\ Apart(s, deferred)
      /\ Accounted(ran, chainOf, stack, deferred) => Accounted(g, chainOf, s, deferred)
  BY <1>1, <1>2, <1>4, <1>5, TopFacts, TopStays DEF IInv
<1>7. /\ Histories(ran', chainOf') /\ AllFit(ran', chainOf', stack', deferred)
      /\ Apart(stack', deferred)
      /\ Accounted(g, chainOf, s, deferred) => Accounted(ran', chainOf', stack', deferred)
  BY <1>1, <1>2, <1>3, <1>6, TopEnters
<1> QED
  BY <1>1, <1>6, <1>7, TopFacts DEF IInv

(* A handler on an idle thread calls run().                                  *)
LEMMA RunKeeps ==
    ASSUME IInv, alive, NEW c \in Chains \cup {NoChain}, RunChain(c) PROVE IInv'
<1>1. deferred' = deferred /\ alive' = alive /\ pageStack' = pageStack
  BY DEF RunChain
<1>2. CASE chainOf' = chainOf /\ stack' = stack /\ ran' = ran
  BY <1>1, <1>2 DEF IInv
<1>3. CASE c # NoChain /\ Enter(c)
  <2>1. /\ c \in Chains /\ Begun(ran, chainOf, c, ran', chainOf')
        /\ Pushed(stack, Walk(Len(chainOf) + 1, 1, "switch"), stack')
    BY <1>3 DEF Enter, Begun, Pushed
  <2>2. /\ Histories(ran, chainOf) /\ AllFit(ran, chainOf, stack, deferred)
        /\ Apart(stack, deferred)
    BY DEF IInv
  <2>3. /\ Histories(ran', chainOf') /\ AllFit(ran', chainOf', stack', deferred)
        /\ Apart(stack', deferred)
        /\ Accounted(ran, chainOf, stack, deferred) => Accounted(ran', chainOf', stack', deferred)
    BY <2>1, <2>2, TopEnters
  <2> QED
    BY <1>1, <2>3 DEF IInv
<1> QED
  BY <1>2, <1>3 DEF RunChain

(* A timer fires, on a living engine or on what is left of it.               *)
LEMMA WakeKeeps == ASSUME IInv, NEW k \in deferred, Wake(k) PROVE IInv'
<1>1. /\ stack = <<>> /\ deferred' = deferred \ {k}
      /\ chainOf' = chainOf /\ ran' = ran /\ alive' = alive /\ pageStack' = pageStack
  BY DEF Wake, Idle
<1>2. CASE alive
  <2>1. stack' = <<Walk(k.run, k.at, "switch")>>
    BY <1>2 DEF Wake
  <2>2. /\ AllFit(ran, chainOf, stack', deferred \ {k}) /\ Apart(stack', deferred \ {k})
        /\ Accounted(ran, chainOf, stack, deferred)
           => Accounted(ran, chainOf, stack', deferred \ {k})
    BY <1>1, <2>1, TimerWakes DEF IInv
  <2> QED
    BY <1>1, <1>2, <2>2 DEF IInv
<1>3. CASE ~alive
  <2>1. stack' = stack
    BY <1>3 DEF Wake
  <2>2. AllFit(ran, chainOf, stack, deferred \ {k}) /\ Apart(stack, deferred \ {k})
    BY DEF IInv, AllFit, Apart
  <2> QED
    BY <1>1, <1>3, <2>1, <2>2 DEF IInv
<1> QED
  BY <1>2, <1>3 DEF IInv

LEMMA NextInv == IInv /\ [EngineNext]_engineVars => IInv'
<1> SUFFICES ASSUME IInv, [EngineNext]_engineVars PROVE IInv'
  OBVIOUS
<1>1. ASSUME NEW c \in Chains \cup {NoChain}, Start(c) PROVE IInv'
  BY <1>1, RunKeeps DEF Start
<1>2. CASE SomeStep
  BY <1>2, LeaveKeeps, InlineKeeps, NestedKeeps, SleepKeeps, FolderKeeps, PostStepKeeps
     DEF SomeStep
<1>3. ASSUME NEW k \in deferred, Wake(k) PROVE IInv'
  BY <1>3, WakeKeeps
<1>4. CASE SetProfile
  <2>1. pageStack' \in Seq(Args \cup {NoArg})
    BY <1>4, ChainsAssumption DEF SetProfile
  <2> QED
    BY <1>4, <2>1 DEF SetProfile, IInv
<1>5. CASE Destroy
  BY <1>5 DEF Destroy, Idle, IInv
<1>6. CASE UNCHANGED engineVars
  BY <1>6 DEF engineVars, IInv
<1> QED
  BY <1>1, <1>2, <1>3, <1>4, <1>5, <1>6 DEF EngineNext

LEMMA EngineInvariant == EngineSpec => []IInv
  BY InitInv, NextInv, PTL DEF EngineSpec

-----------------------------------------------------------------------------
(* The state of the engine keeps its types.                                  *)
THEOREM EngineTypeCorrect == EngineSpec => []EngineTypeOK
<1>1. IInv => EngineTypeOK
  BY DEF IInv, EngineTypeOK, Histories, AllFit
<1> QED
  BY <1>1, EngineInvariant, PTL

(* runFrom, with its continuations, performs the steps of a chain in order,  *)
(* whatever other walks, nested runs and timers come in between.             *)
THEOREM ChainsRunInOrder == EngineSpec => []StepsInOrder
<1>1. IInv => StepsInOrder
  <2> SUFFICES ASSUME IInv, NEW r \in DOMAIN ran, NEW i \in DOMAIN ran[r] PROVE ran[r][i] = i
    BY DEF StepsInOrder
  <2>1. ran \in Seq(Seq(Nat)) /\ \A q \in 1 .. Len(ran) : Fit(ran, chainOf, q)
    BY DEF IInv, Histories
  <2>2. r \in 1 .. Len(ran) /\ i \in 1 .. Len(ran[r])
    BY <2>1
  <2> QED
    BY <2>1, <2>2 DEF Fit
<1> QED
  BY <1>1, EngineInvariant, PTL

(* Nothing of a chain runs behind its OpenFolder or BackToParent, now or     *)
(* from a continuation.                                                      *)
THEOREM FoldersEndChains == EngineSpec => []FolderEndsChain
<1>1. IInv => FolderEndsChain
  <2> SUFFICES ASSUME IInv, NEW r \in DOMAIN ran, NEW i \in 1 .. (Len(ran[r]) - 1)
               PROVE  KindOf(r, ran[r][i]) \notin FolderKinds
    BY DEF FolderEndsChain
  <2>1. ran \in Seq(Seq(Nat)) /\ \A q \in 1 .. Len(ran) : Fit(ran, chainOf, q)
    BY DEF IInv, Histories
  <2>2. r \in 1 .. Len(ran) /\ i \in 1 .. Len(ran[r]) /\ Fit(ran, chainOf, r)
    BY <2>1
  <2>3. ran[r][i] = i /\ Kind(chainOf, r, i) \notin FolderKinds
    BY <2>2 DEF Fit
  <2> QED
    BY <2>3 DEF KindOf, Kind
<1> QED
  BY <1>1, EngineInvariant, PTL

(* A walk has one frame or one continuation, so no step can run twice.       *)
THEOREM RunsAreInOnePlace == EngineSpec => []OnePlace
<1>1. IInv => OnePlace
  <2> SUFFICES ASSUME IInv PROVE OnePlace
    OBVIOUS
  <2>1. DOMAIN stack = 1 .. Len(stack) /\ Apart(stack, deferred)
    BY DEF IInv, AllFit
  <2> QED
    BY <2>1 DEF OnePlace, Apart
<1> QED
  BY <1>1, EngineInvariant, PTL

(* While the engine lives, what is left of a chain is on the stack or in a   *)
(* timer.                                                                    *)
THEOREM ChainsAreKept == EngineSpec => []NothingIsDropped
<1>1. IInv => NothingIsDropped
  <2> SUFFICES ASSUME IInv, alive, NEW r \in DOMAIN ran
               PROVE  OnStack(r) \/ Waiting(r) \/ Finished(r)
    BY DEF NothingIsDropped
  <2>1. /\ ran \in Seq(Seq(Nat)) /\ Fit(ran, chainOf, r) /\ r \in 1 .. Len(ran)
        /\ stack \in Seq(Frame) /\ Accounted(ran, chainOf, stack, deferred)
    BY DEF IInv, Histories, AllFit
  <2>2. CASE \E i \in 1 .. Len(stack) : stack[i].run = r
    BY <2>1, <2>2 DEF OnStack
  <2>3. CASE \E k \in deferred : k.run = r
    BY <2>3 DEF Waiting
  <2>4. CASE Done(ran, chainOf, r)
    <3>1. CASE Len(ran[r]) = Len(Chain[chainOf[r]])
      BY <3>1 DEF Finished
    <3>2. CASE Len(ran[r]) > 0 /\ Kind(chainOf, r, Len(ran[r])) \in FolderKinds
      <4>1. ran[r] \in Seq(Nat) /\ ran[r] # <<>> /\ Len(ran[r]) \in 1 .. Len(ran[r])
        BY <2>1, <3>2
      <4>2. ran[r][Len(ran[r])] = Len(ran[r])
        BY <2>1, <4>1 DEF Fit
      <4> QED
        BY <3>2, <4>1, <4>2 DEF Finished, EndedByFolder, KindOf, Kind
    <3> QED
      BY <2>4, <3>1, <3>2 DEF Done
  <2> QED
    BY <2>1, <2>2, <2>3, <2>4 DEF Accounted
<1> QED
  BY <1>1, EngineInvariant, PTL

(* The alive flag that every continuation checks: once the engine is gone no *)
(* step runs, though its timers still fire.                                  *)
THEOREM DestroyedStaysSilent == EngineSpec => DestroyedIsSilent
<1>1. IInv /\ [EngineNext]_engineVars => [~alive => UNCHANGED <<ran, pageStack>>]_engineVars
  <2> SUFFICES ASSUME IInv, EngineNext, ~alive PROVE ran' = ran /\ pageStack' = pageStack
    OBVIOUS
  <2>1. Idle
    BY DEF IInv, Idle
  <2>2. \E k \in deferred : Wake(k)
    BY <2>1 DEF EngineNext, SomeStep, Leave, Inline, Nested, Sleep, OpenFolder, BackToParent,
                PostStep, AtStep, Start, SetProfile, Destroy
  <2> QED
    BY <2>2 DEF Wake
<1> QED
  BY <1>1, EngineInvariant, PTL DEF EngineSpec, DestroyedIsSilent

-----------------------------------------------------------------------------
(* The types of the service's own variables.                                 *)
InputTypeOK ==
    /\ profile \in Profiles
    /\ page \in Pages(profile)
    /\ toggle \in [Stateful -> 0 .. States - 1]
    /\ present \in BOOLEAN /\ sized \in BOOLEAN
    /\ accum \in [Encoders -> Int]
    /\ coalesce \in BOOLEAN
    /\ drain \in 0 .. NumEnc
    /\ touch \in 0 .. NumEnc
    /\ held \subseteq Encoders
    /\ foreign \subseteq Encoders
    /\ downs \in [Encoders -> Int]

(* What a handler has yet to show the bridge is a synthesised release with   *)
(* its press, or the press alone once the release is shown.                  *)
DialsInStep ==
    \/ todo = <<>> /\ \A e \in Encoders : downs[e] = 0
    \/ \E e \in Encoders :
          /\ todo = <<[kind |-> "dialUp", enc |-> e], [kind |-> "dialDown", enc |-> e]>>
          /\ \A d \in Encoders : downs[d] = 0
    \/ \E e \in Encoders :
          /\ todo = <<[kind |-> "dialDown", enc |-> e]>>
          /\ \A d \in Encoders : downs[d] = IF d = e THEN -1 ELSE 0

(* The drain loop is inside a handler, which the engine outlives.            *)
DrainsAlive == drain < NumEnc => alive

InputInv ==
    /\ IInv
    /\ InputTypeOK
    /\ DialsInStep
    /\ DrainsAlive
    /\ RotationIsArmed
    /\ RotationIsOfThisDock

-----------------------------------------------------------------------------
(* The service and the engine.                                               *)

(* A slot of a profile is bound to a chain or to nothing.                    *)
LEMMA BindingType ==
    ASSUME NEW p \in Profiles, NEW x \in Slots PROVE Binding[p][x] \in Chains \cup {NoChain}
<1>1. Binding[p] \in [Slots -> Chains \cup {NoChain}]
  BY InputAssumption
<1> QED
  BY <1>1

(* A press runs a chain on the engine or leaves it alone.                    *)
LEMMA PressStarts ==
    ASSUME InputInv, Idle, alive, NEW c \in Controls, Press(c)
    PROVE  [EngineNext]_engineVars
<1>1. CASE <<profile, c>> \in Toggles
  BY <1>1 DEF Press
<1>2. CASE <<profile, c>> \notin Toggles
  <2>1. <<"press", c>> \in Slots
    BY DEF Slots
  <2>2. Binding[profile][<<"press", c>>] \in Chains \cup {NoChain}
    BY <2>1, BindingType DEF InputInv, InputTypeOK
  <2> QED
    BY <1>2, <2>2 DEF Press, EngineNext, Start
<1> QED
  BY <1>1, <1>2

LEMMA ReleaseStarts ==
    ASSUME InputInv, Idle, alive, NEW c \in Controls, RunChain(Binding[profile][<<"release", c>>])
    PROVE  [EngineNext]_engineVars
<1>1. <<"release", c>> \in Slots
  BY DEF Slots
<1>2. Binding[profile][<<"release", c>>] \in Chains \cup {NoChain}
  BY <1>1, BindingType DEF InputInv, InputTypeOK
<1> QED
  BY <1>2 DEF EngineNext, Start

(* So does a turn of the drain loop.                                         *)
LEMMA DrainStarts == ASSUME InputInv, DrainNext PROVE [EngineNext]_engineVars
<1>1. Idle /\ alive /\ drain \in Encoders
  BY InputAssumption DEF DrainNext, InputInv, DrainsAlive, InputTypeOK, Encoders
<1> DEFINE x == <<IF accum[drain] > 0 THEN "cw" ELSE "ccw", drain>>
           c == IF accum[drain] = 0 \/ ~sized THEN NoChain ELSE Binding[profile][x]
<1>2. x \in Slots
  BY <1>1 DEF Slots
<1>3. Binding[profile][x] \in Chains \cup {NoChain}
  BY <1>2, BindingType DEF InputInv, InputTypeOK
<1>4. c \in Chains \cup {NoChain} /\ RunChain(c)
  BY <1>3 DEF DrainNext
<1> HIDE DEF c
<1> QED
  BY <1>1, <1>4 DEF EngineNext, Start

(* Whatever the service does is a step of the engine or none.                *)
LEMMA DrivesEngine == ASSUME InputInv, [Next]_vars PROVE [EngineNext]_engineVars
<1>1. ASSUME NEW k \in Keys, KeyPressed(k) \/ KeyReleased(k) PROVE [EngineNext]_engineVars
  <2>1. Idle /\ alive /\ k \in Controls
    BY <1>1 DEF KeyPressed, KeyReleased, Quiet, Budget, Controls
  <2> QED
    BY <1>1, <2>1, PressStarts, ReleaseStarts DEF KeyPressed, KeyReleased
<1>2. ASSUME NEW e \in Encoders, EncoderPressed(e) PROVE [EngineNext]_engineVars
  <2>1. Idle /\ alive /\ e \in Controls
    BY <1>2 DEF EncoderPressed, Quiet, Budget, Controls
  <2> QED
    BY <1>2, <2>1, PressStarts DEF EncoderPressed
<1>3. ASSUME NEW e \in Encoders, EncoderReleased(e) PROVE [EngineNext]_engineVars
  <2>1. Idle /\ alive /\ e \in Controls
    BY <1>3 DEF EncoderReleased, Quiet, Budget, Controls
  <2> QED
    BY <1>3, <2>1, ReleaseStarts DEF EncoderReleased
<1>4. CASE TouchUp
  <2>1. Idle /\ alive /\ touch \in Controls
    BY <1>4, InputAssumption
       DEF TouchUp, Quiet, Budget, Controls, Encoders, InputInv, InputTypeOK
  <2> QED
    BY <1>4, <2>1, PressStarts DEF TouchUp
<1>5. CASE DrainNext
  BY <1>5, DrainStarts
<1>6. CASE Walking
  BY <1>6 DEF Walking, EngineNext
<1>7. ASSUME NEW k \in deferred, TimerFires(k) PROVE [EngineNext]_engineVars
  BY <1>7 DEF TimerFires, EngineNext
<1>8. CASE Shutdown
  BY <1>8 DEF Shutdown, EngineNext
<1>9. ASSUME \/ \E e \in Encoders : TouchDown(e) \/ \E d \in {-1, 1} : EncoderTurned(e, d)
             \/ ShowBridge \/ CoalesceTimer \/ PumpFails
             \/ \E dock \in BOOLEAN : SetActiveDevice(dock)
             \/ \E p \in Profiles : SwitchProfile(p)
             \/ \E pg \in Pages(profile) : EditPage(pg)
      PROVE  UNCHANGED engineVars
  BY <1>9 DEF TouchDown, EncoderTurned, ShowBridge, CoalesceTimer, PumpFails, SetActiveDevice,
              SwitchProfile, EditPage
<1>10. CASE UNCHANGED vars
  BY <1>10 DEF vars
<1> QED
  BY <1>1, <1>2, <1>3, <1>4, <1>5, <1>6, <1>7, <1>8, <1>9, <1>10 DEF Next

-----------------------------------------------------------------------------
(* What the actions leave alone.                                             *)
LEMMA RunKeepsAlive == ASSUME NEW c, RunChain(c) PROVE alive' = alive
  BY DEF RunChain

LEMMA PressKeepsAlive == ASSUME NEW c, Press(c) PROVE alive' = alive
<1>1. CASE <<profile, c>> \in Toggles
  BY <1>1 DEF Press, engineVars
<1>2. CASE <<profile, c>> \notin Toggles
  BY <1>2, RunKeepsAlive DEF Press
<1> QED
  BY <1>1, <1>2

LEMMA StepKeepsAlive == ASSUME SomeStep PROVE alive' = alive
  BY DEF SomeStep, Leave, Inline, Nested, Sleep, OpenFolder, BackToParent, PostStep

(* The actions that touch the dock or the collected rotation.                *)
Rotates ==
    \/ \E e \in Encoders, d \in {-1, 1} : EncoderTurned(e, d)
    \/ CoalesceTimer
    \/ DrainNext
    \/ \E dock \in BOOLEAN : SetActiveDevice(dock)
    \/ PumpFails

LEMMA OthersDoNotRotate ==
    ASSUME [Next]_vars, ~Rotates
    PROVE  KeepDock /\ KeepTurns /\ (drain = NumEnc \/ alive' = alive)
<1>1. ASSUME NEW k \in Keys, KeyPressed(k) \/ KeyReleased(k)
      PROVE  KeepDock /\ KeepTurns /\ drain = NumEnc
  BY <1>1 DEF KeyPressed, KeyReleased, Quiet
<1>2. ASSUME NEW e \in Encoders, EncoderPressed(e) \/ EncoderReleased(e) \/ TouchDown(e)
      PROVE  KeepDock /\ KeepTurns /\ drain = NumEnc
  BY <1>2 DEF EncoderPressed, EncoderReleased, TouchDown, Quiet
<1>3. ASSUME ShowBridge PROVE KeepDock /\ KeepTurns /\ alive' = alive
  BY <1>3 DEF ShowBridge, engineVars
<1>4. ASSUME \/ TouchUp \/ Shutdown \/ (\E k \in deferred : TimerFires(k))
             \/ (\E p \in Profiles : SwitchProfile(p))
             \/ (\E pg \in Pages(profile) : EditPage(pg))
      PROVE  KeepDock /\ KeepTurns /\ drain = NumEnc
  BY <1>4 DEF TouchUp, Shutdown, TimerFires, SwitchProfile, EditPage, Quiet, inputVars,
              KeepDock, KeepTurns
<1>5. ASSUME Walking PROVE KeepDock /\ KeepTurns /\ alive' = alive
  BY <1>5, StepKeepsAlive DEF Walking
<1>6. ASSUME UNCHANGED vars PROVE KeepDock /\ KeepTurns /\ alive' = alive
  BY <1>6 DEF vars, engineVars, inputVars, KeepDock, KeepTurns
<1> QED
  BY <1>1, <1>2, <1>3, <1>4, <1>5, <1>6 DEF Next, Rotates

(* The actions that show the bridge a dial or give it something to see.      *)
Dials ==
    \/ \E e \in Encoders : EncoderPressed(e) \/ EncoderReleased(e)
    \/ ShowBridge

LEMMA OthersDoNotDial == ASSUME [Next]_vars, ~Dials PROVE KeepDials
<1>1. ASSUME \/ \E k \in Keys : KeyPressed(k) \/ KeyReleased(k)
             \/ \E e \in Encoders : TouchDown(e)
             \/ \E e \in Encoders, d \in {-1, 1} : EncoderTurned(e, d)
             \/ CoalesceTimer \/ DrainNext \/ TouchUp \/ PumpFails \/ Walking
             \/ \E dock \in BOOLEAN : SetActiveDevice(dock)
             \/ \E p \in Profiles : SwitchProfile(p)
             \/ \E pg \in Pages(profile) : EditPage(pg)
      PROVE  KeepDials
  BY <1>1 DEF KeyPressed, KeyReleased, TouchDown, EncoderTurned, CoalesceTimer, DrainNext,
              TouchUp, PumpFails, Walking, SetActiveDevice, SwitchProfile, EditPage
<1>2. ASSUME (\E k \in deferred : TimerFires(k)) \/ Shutdown PROVE KeepDials
  BY <1>2 DEF TimerFires, Shutdown, inputVars, KeepDials
<1>3. ASSUME UNCHANGED vars PROVE KeepDials
  BY <1>3 DEF vars, inputVars, KeepDials
<1> QED
  BY <1>1, <1>2, <1>3 DEF Next, Dials

-----------------------------------------------------------------------------
(* Rotation.                                                                 *)
LEMMA RotationKept ==
    ASSUME InputInv, [Next]_vars
    PROVE  DrainsAlive' /\ RotationIsArmed' /\ RotationIsOfThisDock'
<1> DEFINE Inv == DrainsAlive /\ RotationIsArmed /\ RotationIsOfThisDock
<1>1. /\ Inv
      /\ accum \in [Encoders -> Int] /\ drain \in 0 .. NumEnc /\ NumEnc \in Nat
      /\ coalesce \in BOOLEAN /\ present \in BOOLEAN
  BY InputAssumption DEF InputInv, InputTypeOK
<1> USE DEF DrainsAlive, RotationIsArmed, RotationIsOfThisDock
<1>2. CASE ~Rotates
  BY <1>1, <1>2, OthersDoNotRotate DEF KeepDock, KeepTurns
<1>3. ASSUME NEW e \in Encoders, NEW d \in {-1, 1}, EncoderTurned(e, d) PROVE Inv'
  <2>1. /\ present' = present /\ drain' = drain /\ foreign' = foreign /\ alive' = alive
        /\ \/ accum' = accum /\ coalesce' = coalesce
           \/ coalesce' = TRUE
    BY <1>3 DEF EncoderTurned, Collect, KeepDock, engineVars
  <2> QED
    BY <1>1, <2>1
<1>4. CASE CoalesceTimer
  <2>1. /\ present' = present /\ drain' = 0 /\ foreign' = foreign /\ alive' = alive /\ alive
        /\ accum' = accum
    BY <1>4 DEF CoalesceTimer, KeepDock, engineVars
  <2> QED
    BY <1>1, <2>1 DEF Encoders
<1>5. CASE DrainNext
  <2>1. /\ present' = present /\ drain' = drain + 1 /\ foreign' = foreign \ {drain}
        /\ coalesce' = coalesce /\ drain < NumEnc /\ alive' = alive
        /\ accum' = [accum EXCEPT ![drain] = 0]
    BY <1>5, RunKeepsAlive DEF DrainNext, KeepDock
  <2>2. \A e \in Encoders : accum'[e] # 0 => e # drain /\ accum[e] # 0
    BY <1>1, <2>1
  <2> QED
    BY <1>1, <2>1, <2>2 DEF Encoders
<1>6. ASSUME NEW dock \in BOOLEAN, SetActiveDevice(dock) PROVE Inv'
  <2>1. /\ alive' = alive /\ alive /\ present' = dock
        /\ accum' = [e \in Encoders |-> 0]
        /\ dock => foreign' = {e \in Encoders : accum'[e] # 0}
    BY <1>6 DEF SetActiveDevice, engineVars
  <2> QED
    BY <2>1
<1>7. CASE PumpFails
  <2>1. alive' = alive /\ alive /\ present' = FALSE
    BY <1>7 DEF PumpFails, engineVars
  <2> QED
    BY <2>1
<1> QED
  BY <1>2, <1>3, <1>4, <1>5, <1>6, <1>7 DEF Rotates

-----------------------------------------------------------------------------
(* Dials.                                                                    *)
LEMMA DialsKept == ASSUME InputInv, [Next]_vars PROVE DialsInStep'
<1>1. downs \in [Encoders -> Int] /\ DialsInStep
  BY DEF InputInv, InputTypeOK
<1>2. CASE ~Dials
  BY <1>1, <1>2, OthersDoNotDial DEF KeepDials, DialsInStep
<1>3. ASSUME NEW e \in Encoders, EncoderPressed(e) PROVE DialsInStep'
  <2>1. todo = <<>> /\ downs' = downs /\ todo' = PressTaps(e)
    BY <1>3 DEF EncoderPressed, Quiet
  <2>2. \A d \in Encoders : downs'[d] = 0
    BY <1>1, <2>1 DEF DialsInStep
  <2> QED
    BY <2>1, <2>2 DEF DialsInStep, PressTaps
<1>4. ASSUME NEW e \in Encoders, EncoderReleased(e) PROVE DialsInStep'
  <2>1. todo = <<>> /\ downs' = downs /\ todo' = <<>>
    BY <1>4 DEF EncoderReleased, Quiet, ReleaseTaps
  <2> QED
    BY <1>1, <2>1 DEF DialsInStep
<1>5. CASE ShowBridge
  <2>1. todo # <<>> /\ todo' = Tail(todo)
    BY <1>5 DEF ShowBridge
  <2>2. ASSUME NEW e \in Encoders,
               todo = <<[kind |-> "dialUp", enc |-> e], [kind |-> "dialDown", enc |-> e]>>,
               \A d \in Encoders : downs[d] = 0
        PROVE  DialsInStep'
    <3>1. /\ Head(todo).enc = e /\ Head(todo).kind = "dialUp"
          /\ Tail(todo) = <<[kind |-> "dialDown", enc |-> e]>>
      BY <2>2
    <3>2. downs' = [downs EXCEPT ![e] = @ - 1]
      BY <1>5, <3>1 DEF ShowBridge
    <3>3. \A d \in Encoders : downs'[d] = IF d = e THEN -1 ELSE 0
      BY <1>1, <2>2, <3>2
    <3> QED
      BY <2>1, <3>1, <3>3 DEF DialsInStep
  <2>3. ASSUME NEW e \in Encoders, todo = <<[kind |-> "dialDown", enc |-> e]>>,
               \A d \in Encoders : downs[d] = IF d = e THEN -1 ELSE 0
        PROVE  DialsInStep'
    <3>1. Head(todo).enc = e /\ Head(todo).kind = "dialDown" /\ Tail(todo) = <<>>
      BY <2>3
    <3>2. downs' = [downs EXCEPT ![e] = @ + 1]
      BY <1>5, <3>1 DEF ShowBridge
    <3>3. \A d \in Encoders : downs'[d] = 0
      BY <1>1, <2>3, <3>2
    <3> QED
      BY <2>1, <3>1, <3>3 DEF DialsInStep
  <2> QED
    BY <1>1, <2>1, <2>2, <2>3 DEF DialsInStep
<1> QED
  BY <1>2, <1>3, <1>4, <1>5 DEF Dials

-----------------------------------------------------------------------------
(* Types.                                                                    *)
ProfileTypes ==
    /\ profile \in Profiles /\ page \in Pages(profile)
    /\ toggle \in [Stateful -> 0 .. States - 1]
DockTypes ==
    /\ present \in BOOLEAN /\ sized \in BOOLEAN
    /\ accum \in [Encoders -> Int] /\ coalesce \in BOOLEAN /\ drain \in 0 .. NumEnc
    /\ foreign \subseteq Encoders
DialTypes ==
    /\ held \subseteq Encoders
    /\ downs \in [Encoders -> Int]

LEMMA NextState == ASSUME NEW x \in 0 .. States - 1 PROVE (x + 1) % States \in 0 .. States - 1
  BY InputAssumption

LEMMA PressKeepsTypes == ASSUME ProfileTypes, NEW c, Press(c) PROVE ProfileTypes'
<1> USE DEF ProfileTypes
<1>1. CASE <<profile, c>> \in Toggles
  <2> DEFINE x == Addressed(<<profile, c>>)
  <2>1. /\ profile' = profile /\ page' = page
        /\ toggle' = IF x \in Stateful THEN [toggle EXCEPT ![x] = (@ + 1) % States] ELSE toggle
    BY <1>1 DEF Press, Cycle
  <2> HIDE DEF x
  <2>2. x \in Stateful => (toggle[x] + 1) % States \in 0 .. States - 1
    BY NextState
  <2>3. toggle' \in [Stateful -> 0 .. States - 1]
    BY <2>1, <2>2
  <2> QED
    BY <2>1, <2>3
<1>2. CASE <<profile, c>> \notin Toggles
  BY <1>2 DEF Press, KeepProfile
<1> QED
  BY <1>1, <1>2

(* A profile.switch action names a profile.                                  *)
LEMMA WalkingKeepsTypes == ASSUME IInv, ProfileTypes, Walking PROVE ProfileTypes'
<1> USE DEF ProfileTypes
<1>1. toggle' = toggle
  BY DEF Walking
<1>2. CASE AtStep({"plugin"}) /\ SwitchTo[TopStep.arg] # NoProfile
  <2>1. stack # <<>> /\ Top.pc = "switch" /\ Top.at <= Len(TopChain)
    BY <1>2 DEF AtStep, Idle
  <2>2. TopStep \in Step
    <3>1. \A g : Grown(ran, Top.run, Top.at, g) => TopStep \in Step
      BY <2>1, PerformFacts
    <3> QED
      BY <3>1 DEF Grown
  <2>3. SwitchTo[TopStep.arg] \in Profiles
    BY <1>2, <2>2, InputAssumption DEF Step
  <2> QED
    BY <1>1, <1>2, <2>3 DEF Walking, Load, Pages
<1>3. CASE ~(AtStep({"plugin"}) /\ SwitchTo[TopStep.arg] # NoProfile)
  BY <1>1, <1>3 DEF Walking
<1> QED
  BY <1>2, <1>3

LEMMA ProfileTypesKept == ASSUME IInv, ProfileTypes, [Next]_vars PROVE ProfileTypes'
<1>1. ASSUME NEW k \in Keys, KeyPressed(k) PROVE ProfileTypes'
  BY <1>1, PressKeepsTypes DEF KeyPressed
<1>2. ASSUME NEW e \in Encoders, EncoderPressed(e) PROVE ProfileTypes'
  BY <1>2, PressKeepsTypes DEF EncoderPressed
<1>3. CASE TouchUp
  BY <1>3, PressKeepsTypes DEF TouchUp, KeepProfile, ProfileTypes
<1>4. CASE Walking
  BY <1>4, WalkingKeepsTypes
<1>5. ASSUME NEW p \in Profiles, SwitchProfile(p) PROVE ProfileTypes'
  BY <1>5 DEF SwitchProfile, Load, ProfileTypes, Pages
<1>6. ASSUME NEW pg \in Pages(profile), EditPage(pg) PROVE ProfileTypes'
  BY <1>6 DEF EditPage, ProfileTypes
<1>7. ASSUME \/ \E k \in Keys : KeyReleased(k)
             \/ \E e \in Encoders : EncoderReleased(e) \/ TouchDown(e)
             \/ \E e \in Encoders, d \in {-1, 1} : EncoderTurned(e, d)
             \/ ShowBridge \/ CoalesceTimer \/ DrainNext \/ PumpFails
             \/ \E dock \in BOOLEAN : SetActiveDevice(dock)
      PROVE  KeepProfile
  BY <1>7 DEF KeyReleased, EncoderReleased, TouchDown, EncoderTurned, ShowBridge,
              CoalesceTimer, DrainNext, PumpFails, SetActiveDevice
<1>8. ASSUME (\E k \in deferred : TimerFires(k)) \/ Shutdown \/ UNCHANGED vars PROVE KeepProfile
  BY <1>8 DEF TimerFires, Shutdown, vars, inputVars, KeepProfile
<1>9. ASSUME KeepProfile PROVE ProfileTypes'
  BY <1>9 DEF KeepProfile, ProfileTypes
<1> QED
  BY <1>1, <1>2, <1>3, <1>4, <1>5, <1>6, <1>7, <1>8, <1>9 DEF Next

(* Clearing one entry.                                                       *)
LEMMA ClearedType ==
    ASSUME NEW S, NEW f \in [S -> Int], NEW x \in S PROVE [f EXCEPT ![x] = 0] \in [S -> Int]
<1>1. ASSUME NEW y \in S PROVE [f EXCEPT ![x] = 0][y] \in Int
  BY <1>1
<1> QED
  BY <1>1

LEMMA DockTypesKept == ASSUME DockTypes, [Next]_vars PROVE DockTypes'
<1> USE DEF DockTypes
<1>1. NumEnc \in Nat
  BY InputAssumption
<1>2. CASE ~Rotates
  BY <1>2, OthersDoNotRotate DEF KeepDock, KeepTurns
<1>3. ASSUME NEW e \in Encoders, NEW d \in {-1, 1}, EncoderTurned(e, d) PROVE DockTypes'
  <2>1. /\ present' = present /\ sized' = sized /\ drain' = drain /\ foreign' = foreign
        /\ \/ accum' = accum /\ coalesce' = coalesce
           \/ accum' = [accum EXCEPT ![e] = @ + d] /\ coalesce' = TRUE
    BY <1>3 DEF EncoderTurned, Collect, KeepDock
  <2>2. d \in Int
    OBVIOUS
  <2>3. accum' \in [Encoders -> Int] /\ drain' \in 0 .. NumEnc /\ foreign' \subseteq Encoders
    BY <2>1, <2>2
  <2>4. present' \in BOOLEAN /\ sized' \in BOOLEAN /\ coalesce' \in BOOLEAN
    BY <2>1
  <2> QED
    BY <2>3, <2>4
<1>4. CASE CoalesceTimer
  <2>1. /\ present' = present /\ sized' = sized /\ accum' = accum /\ foreign' = foreign
        /\ coalesce' = FALSE /\ drain' = 0
    BY <1>4 DEF CoalesceTimer, KeepDock
  <2>2. accum' \in [Encoders -> Int] /\ drain' \in 0 .. NumEnc /\ foreign' \subseteq Encoders
    BY <1>1, <2>1
  <2>3. present' \in BOOLEAN /\ sized' \in BOOLEAN /\ coalesce' \in BOOLEAN
    BY <2>1
  <2> QED
    BY <2>2, <2>3
<1>5. CASE DrainNext
  <2>1. /\ present' = present /\ sized' = sized /\ accum' = [accum EXCEPT ![drain] = 0]
        /\ foreign' = foreign \ {drain} /\ coalesce' = coalesce
        /\ drain < NumEnc /\ drain' = drain + 1
    BY <1>5 DEF DrainNext, KeepDock
  <2>2. accum' \in [Encoders -> Int] /\ drain' \in 0 .. NumEnc /\ foreign' \subseteq Encoders
    <3>1. drain' \in 0 .. NumEnc
      BY <1>1, <2>1
    <3>2. accum' \in [Encoders -> Int]
      <4>1. [accum EXCEPT ![drain] = 0] \in [Encoders -> Int]
        BY <1>1, <2>1, ClearedType DEF Encoders
      <4> QED
        BY <2>1, <4>1
    <3>3. foreign' \subseteq Encoders
      BY <2>1
    <3> QED
      BY <3>1, <3>2, <3>3
  <2>3. present' \in BOOLEAN /\ sized' \in BOOLEAN /\ coalesce' \in BOOLEAN
    BY <2>1
  <2> QED
    BY <2>2, <2>3
<1>6. ASSUME NEW dock \in BOOLEAN, SetActiveDevice(dock) PROVE DockTypes'
  <2>1. /\ present' = dock /\ sized' = dock /\ coalesce' = FALSE /\ drain' = drain
        /\ accum' = [x \in Encoders |-> 0]
        /\ foreign' = IF dock THEN {x \in Encoders : accum'[x] # 0} ELSE foreign
    BY <1>6 DEF SetActiveDevice
  <2>2. accum' \in [Encoders -> Int] /\ drain' \in 0 .. NumEnc /\ foreign' \subseteq Encoders
    BY <2>1
  <2>3. present' \in BOOLEAN /\ sized' \in BOOLEAN /\ coalesce' \in BOOLEAN
    BY <2>1
  <2> QED
    BY <2>2, <2>3
<1>7. CASE PumpFails
  BY <1>7 DEF PumpFails
<1> QED
  BY <1>2, <1>3, <1>4, <1>5, <1>6, <1>7 DEF Rotates

LEMMA DialTypesKept == ASSUME DialsInStep, DialTypes, [Next]_vars PROVE DialTypes'
<1> USE DEF DialTypes
<1>1. CASE ~Dials
  BY <1>1, OthersDoNotDial DEF KeepDials
<1>2. ASSUME NEW e \in Encoders, EncoderPressed(e) \/ EncoderReleased(e) PROVE DialTypes'
  BY <1>2 DEF EncoderPressed, EncoderReleased
<1>3. CASE ShowBridge
  <2>1. Head(todo).enc \in Encoders
    BY <1>3 DEF DialsInStep, ShowBridge
  <2> QED
    BY <1>3, <2>1 DEF ShowBridge
<1> QED
  BY <1>1, <1>2, <1>3 DEF Dials

LEMMA TouchTypesKept == ASSUME touch \in 0 .. NumEnc, [Next]_vars PROVE touch' \in 0 .. NumEnc
<1>1. NumEnc \in Nat
  BY InputAssumption
<1>2. ASSUME NEW e \in Encoders, TouchDown(e) PROVE touch' \in 0 .. NumEnc
  BY <1>1, <1>2 DEF TouchDown, Encoders
<1>3. CASE TouchUp
  BY <1>1, <1>3 DEF TouchUp
<1>4. ASSUME \/ \E k \in Keys : KeyPressed(k) \/ KeyReleased(k)
             \/ \E e \in Encoders : EncoderPressed(e) \/ EncoderReleased(e)
             \/ \E e \in Encoders, d \in {-1, 1} : EncoderTurned(e, d)
             \/ ShowBridge \/ CoalesceTimer \/ DrainNext \/ PumpFails \/ Walking
             \/ \E dock \in BOOLEAN : SetActiveDevice(dock)
             \/ \E p \in Profiles : SwitchProfile(p)
             \/ \E pg \in Pages(profile) : EditPage(pg)
      PROVE  touch' = touch
  BY <1>4 DEF KeyPressed, KeyReleased, EncoderPressed, EncoderReleased, EncoderTurned,
              ShowBridge, CoalesceTimer, DrainNext, PumpFails, Walking, SetActiveDevice,
              SwitchProfile, EditPage
<1>5. ASSUME (\E k \in deferred : TimerFires(k)) \/ Shutdown \/ UNCHANGED vars
      PROVE  touch' = touch
  BY <1>5 DEF TimerFires, Shutdown, vars, inputVars
<1> QED
  BY <1>2, <1>3, <1>4, <1>5 DEF Next

LEMMA InputTypesSplit ==
    InputTypeOK <=> ProfileTypes /\ DockTypes /\ DialTypes /\ touch \in 0 .. NumEnc
  BY DEF InputTypeOK, ProfileTypes, DockTypes, DialTypes

LEMMA InputTypesKept == ASSUME InputInv, [Next]_vars PROVE InputTypeOK'
<1>1. /\ ProfileTypes /\ DockTypes /\ DialTypes /\ touch \in 0 .. NumEnc
      /\ IInv /\ DialsInStep
  BY InputTypesSplit DEF InputInv
<1>2. ProfileTypes' /\ DockTypes' /\ DialTypes' /\ touch' \in 0 .. NumEnc
  BY <1>1, ProfileTypesKept, DockTypesKept, DialTypesKept, TouchTypesKept
<1> QED
  BY <1>2 DEF InputTypeOK, ProfileTypes, DockTypes, DialTypes

-----------------------------------------------------------------------------
(* The theorems.                                                             *)
LEMMA InputInit == Init => InputInv
<1> SUFFICES ASSUME Init PROVE InputInv
  OBVIOUS
<1>1. IInv /\ alive
  BY InitInv DEF Init, EngineInit
<1>2. NumEnc \in Nat /\ 0 \in 0 .. States - 1 /\ FirstProfile \in Profiles
  BY InputAssumption
<1>3. ProfileTypes
  BY <1>2 DEF Init, ProfileTypes, Pages
<1>4. DockTypes
  <2>1. accum \in [Encoders -> Int] /\ drain \in 0 .. NumEnc /\ foreign \subseteq Encoders
    BY <1>2 DEF Init
  <2>2. present \in BOOLEAN /\ sized \in BOOLEAN /\ coalesce \in BOOLEAN
    BY DEF Init
  <2> QED
    BY <2>1, <2>2 DEF DockTypes
<1>5. DialTypes /\ touch \in 0 .. NumEnc
  BY <1>2 DEF Init, DialTypes
<1>6. DialsInStep
  BY DEF Init, DialsInStep
<1>7. DrainsAlive /\ RotationIsArmed /\ RotationIsOfThisDock
  BY <1>1 DEF Init, DrainsAlive, RotationIsArmed, RotationIsOfThisDock
<1> QED
  BY <1>1, <1>3, <1>4, <1>5, <1>6, <1>7, InputTypesSplit DEF InputInv

LEMMA InputNext == InputInv /\ [Next]_vars => InputInv'
<1> SUFFICES ASSUME InputInv, [Next]_vars PROVE InputInv'
  OBVIOUS
<1>1. IInv'
  BY DrivesEngine, NextInv DEF InputInv
<1>2. InputTypeOK' /\ DialsInStep'
  BY InputTypesKept, DialsKept
<1>3. DrainsAlive' /\ RotationIsArmed' /\ RotationIsOfThisDock'
  BY RotationKept
<1> QED
  BY <1>1, <1>2, <1>3 DEF InputInv

LEMMA InputInvariant == Spec => []InputInv
  BY InputInit, InputNext, PTL DEF Spec

(* The service uses the engine as its specification allows: it starts and    *)
(* resumes chains only on an idle, living engine.                            *)
THEOREM InputDrivesEngine == Spec => EngineSpec
<1>1. Init => EngineInit
  BY DEF Init
<1>2. InputInv /\ [Next]_vars => [EngineNext]_engineVars
  BY DrivesEngine
<1> QED
  BY <1>1, <1>2, InputInvariant, PTL DEF Spec, EngineSpec

(* So every chain a key, dial or touch starts keeps the engine's promises.   *)
THEOREM InputWalksChains == Spec => []ChainsAreWalked
  BY InputDrivesEngine, ChainsRunInOrder, FoldersEndChains, ChainsAreKept, RunsAreInOnePlace,
     PTL DEF ChainsAreWalked

(* Behind the destructor the input service runs no step of any chain.        *)
THEOREM InputIsSilentWhenDestroyed == Spec => DestroyedIsSilent
  BY InputDrivesEngine, DestroyedStaysSilent, PTL

(* The state keeps its types.                                                *)
THEOREM InputTypeCorrect == Spec => []TypeOK
<1>1. InputInv /\ EngineTypeOK => TypeOK
  <2> SUFFICES ASSUME InputInv, EngineTypeOK PROVE TypeOK
    OBVIOUS
  <2>1. todo \in Seq(DialEvent)
    <3>1. \A e \in Encoders : /\ [kind |-> "dialUp", enc |-> e] \in DialEvent
                             /\ [kind |-> "dialDown", enc |-> e] \in DialEvent
      BY DEF DialEvent
    <3> HIDE DEF DialEvent
    <3>2. ASSUME NEW x \in DialEvent, NEW y \in DialEvent
          PROVE  <<>> \in Seq(DialEvent) /\ <<x>> \in Seq(DialEvent) /\ <<x, y>> \in Seq(DialEvent)
      OBVIOUS
    <3>3. CASE todo = <<>>
      BY <3>3
    <3>4. CASE \E x, y \in DialEvent : todo = <<x, y>> \/ todo = <<y>>
      BY <3>2, <3>4
    <3> QED
      BY <3>1, <3>3, <3>4 DEF InputInv, DialsInStep
  <2> QED
    BY <2>1 DEF InputInv, InputTypeOK, TypeOK
<1> QED
  BY <1>1, InputInvariant, InputDrivesEngine, EngineTypeCorrect, PTL

(* onEncoderTurned, the single shot and its loop: collected rotation never   *)
(* waits for a timer nobody started.                                         *)
THEOREM RotationStaysArmed == Spec => []RotationIsArmed
<1>1. InputInv => RotationIsArmed
  BY DEF InputInv
<1> QED
  BY <1>1, InputInvariant, PTL

(* setActiveDevice: rotation of the last dock is not run on the next.        *)
THEOREM RotationStaysOnItsDock == Spec => []RotationIsOfThisDock
<1>1. InputInv => RotationIsOfThisDock
  BY DEF InputInv
<1> QED
  BY <1>1, InputInvariant, PTL

(* Collected rotation is kept for its dock (both of the above).              *)
THEOREM RotationStaysKept == Spec => []RotationIsKept
  BY RotationStaysArmed, RotationStaysOnItsDock, PTL DEF RotationIsKept

(* synthesiseEncoderRelease: one dialUp for every dialDown, whether or not   *)
(* the firmware reports releases.                                            *)
THEOREM DialsArePaired == Spec => []DialUpPerPress
<1>1. InputInv => DialUpPerPress
  BY DEF InputInv, DialsInStep, DialUpPerPress, Quiet
<1> QED
  BY <1>1, InputInvariant, PTL

=============================================================================
