------------------------------- MODULE EventBus -------------------------------
(***************************************************************************)
(* The publish/subscribe bus of core (src/src/core/src/event_bus.cpp): a   *)
(* copy-on-write vector of handlers under a reader/writer lock.  A thread  *)
(* runs handlers on its own stack, and a handler may subscribe,            *)
(* unsubscribe and publish in its turn.  A step is what one thread does    *)
(* under the lock, or one handler call.                                    *)
(*                                                                         *)
(* A definition placed right before another one with the same parameters   *)
(* and a longer name is that definition with a slip in it.                 *)
(***************************************************************************)
EXTENDS Naturals, Sequences

CONSTANTS
  Threads,    (* the threads that use the bus                               *)
  Depth,      (* bound: how deep publish calls nest on a thread             *)
  MaxToken    (* bound: subscriptions ever made                             *)

ASSUME BoundAssumption == Depth \in Nat /\ MaxToken \in Nat

VARIABLES
  handlers,   (* m_handlers: the tokens of the current vector               *)
  nextToken,  (* m_nextToken                                                *)
  fetched,    (* the token of a thread inside subscribe(), 0 outside        *)
  stack,      (* the publish calls a thread is in, innermost last           *)
  failed      (* history: the last publish call of a level ended in a throw *)

vars == <<handlers, nextToken, fetched, stack, failed>>

Tokens == 1 .. MaxToken
Levels == 1 .. Depth

(* A publish call: the snapshot it iterates over, how many handlers have   *)
(* been called, and (history) which.                                       *)
Frame == [snapshot : Seq(Tokens), called : Nat, reached : SUBSET Tokens]

Elements(s) == {s[i] : i \in DOMAIN s}

Top(th) == stack[th][Len(stack[th])]

InCall(th) == stack[th] # <<>>

(* Code of ours runs outside publish(), or inside a handler it called.     *)
Running(th) ==
  /\ fetched[th] = 0
  /\ InCall(th) => Top(th).called > 0

(* The vector without token t, which it holds at most once.                *)
Without(s, t) ==
  IF t \notin Elements(s) THEN s
  ELSE LET at == CHOOSE i \in DOMAIN s : s[i] = t
       IN [i \in 1 .. Len(s) - 1 |-> IF i < at THEN s[i] ELSE s[i + 1]]
-----------------------------------------------------------------------------
Init ==
  /\ handlers = <<>>
  /\ nextToken = 1
  /\ fetched = [th \in Threads |-> 0]
  /\ stack = [th \in Threads |-> <<>>]
  /\ failed = [th \in Threads |-> [d \in Levels |-> FALSE]]

(* subscribe() draws its token before it takes the lock ...                *)
FetchedNever == nextToken
Fetched == nextToken + 1

SubscribeFetch(th) ==
  /\ Running(th) /\ nextToken <= MaxToken
  /\ fetched' = [fetched EXCEPT ![th] = nextToken]
  /\ nextToken' = Fetched
  /\ UNCHANGED <<handlers, stack, failed>>

(* ... and appends it under the lock, perhaps after a younger token.       *)
SubscribeAppend(th) ==
  /\ fetched[th] # 0
  /\ handlers' = Append(handlers, fetched[th])
  /\ fetched' = [fetched EXCEPT ![th] = 0]
  /\ UNCHANGED <<nextToken, stack, failed>>

(* Any token a subscribe() call has returned, once or more often.          *)
Unsubscribe(th, t) ==
  /\ Running(th) /\ t < nextToken /\ \A u \in Threads : fetched[u] # t
  /\ handlers' = Without(handlers, t)
  /\ UNCHANGED <<nextToken, fetched, stack, failed>>

(* publish() copies the vector's pointer under the lock.                   *)
Publish(th) ==
  /\ Running(th) /\ Len(stack[th]) < Depth
  /\ stack' = [stack EXCEPT ![th] =
                 Append(@, [snapshot |-> handlers, called |-> 0, reached |-> {}])]
  /\ failed' = [failed EXCEPT ![th][Len(stack[th]) + 1] = FALSE]
  /\ UNCHANGED <<handlers, nextToken, fetched>>

(* The vector the loop of a publish call goes over.                        *)
LoopLive(frame) == handlers
Loop(frame) == frame.snapshot

Advanced(frame, t) ==
  [snapshot |-> frame.snapshot, called |-> frame.called + 1,
   reached |-> frame.reached \cup {t}]

CallNext(th) ==
  /\ InCall(th) /\ fetched[th] = 0
  /\ Top(th).called < Len(Loop(Top(th)))
  /\ stack' = [stack EXCEPT ![th][Len(stack[th])] =
                 Advanced(Top(th), Loop(Top(th))[Top(th).called + 1])]
  /\ UNCHANGED <<handlers, nextToken, fetched, failed>>

Popped(th) == SubSeq(stack[th], 1, Len(stack[th]) - 1)

Return(th) ==
  /\ InCall(th) /\ fetched[th] = 0
  /\ Top(th).called >= Len(Loop(Top(th)))
  /\ stack' = [stack EXCEPT ![th] = Popped(th)]
  /\ UNCHANGED <<handlers, nextToken, fetched, failed>>

(* Nothing catches what a handler throws: the rest of the loop is skipped. *)
HandlerThrows(th) ==
  /\ InCall(th) /\ Running(th)
  /\ stack' = [stack EXCEPT ![th] = Popped(th)]
  /\ failed' = [failed EXCEPT ![th][Len(stack[th])] = TRUE]
  /\ UNCHANGED <<handlers, nextToken, fetched>>

Next ==
  \E th \in Threads :
    \/ SubscribeFetch(th) \/ SubscribeAppend(th)
    \/ \E t \in Tokens : Unsubscribe(th, t)
    \/ Publish(th) \/ CallNext(th) \/ Return(th) \/ HandlerThrows(th)

Spec == Init /\ [][Next]_vars

-----------------------------------------------------------------------------
(***************************************************************************)
(* Properties.                                                             *)
(***************************************************************************)
(* Every variable has its type.                                            *)
TypeOK ==
  /\ handlers \in Seq(Tokens)
  /\ nextToken \in 1 .. MaxToken + 1
  /\ fetched \in [Threads -> Tokens \cup {0}]
  /\ stack \in [Threads -> Seq(Frame)]
  /\ \A th \in Threads : Len(stack[th]) <= Depth
  /\ failed \in [Threads -> [Levels -> BOOLEAN]]

(* A token names one subscription: however subscribe() calls overlap, none *)
(* is in the vector twice, or in it while its own subscribe() is running,  *)
(* so unsubscribe() removes exactly the caller's handler (l. 42).          *)
TokensAreUnique ==
  /\ \A i, j \in DOMAIN handlers : handlers[i] = handlers[j] => i = j
  /\ \A th \in Threads : fetched[th] \notin Elements(handlers)
  /\ \A th, u \in Threads : fetched[th] = fetched[u] => th = u \/ fetched[th] = 0
  /\ \A t \in Elements(handlers) : t < nextToken
  /\ \A th \in Threads : fetched[th] < nextToken

(* The vector of handlers and the calls under way are well formed.         *)
BusIsWellFormed == TypeOK /\ TokensAreUnique

(* The bus keeps the promise of Broadcast: a publish call reaches exactly  *)
(* those subscribed when it took its snapshot, each once, although threads *)
(* and handlers subscribe and unsubscribe during the loop (hpp:44-51).     *)
Owed(th, d) ==
  IF d <= Len(stack[th]) THEN Elements(stack[th][d].snapshot) \ stack[th][d].reached
                         ELSE {}

Promise == INSTANCE Broadcast WITH
  Publications <- Threads \X Levels,
  members <- Elements(handlers),
  owed <- [p \in Threads \X Levels |-> Owed(p[1], p[2])],
  failed <- [p \in Threads \X Levels |-> failed[p[1]][p[2]]]

KeepsThePromise == Promise!Spec
=============================================================================
