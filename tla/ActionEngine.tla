---------------------------- MODULE ActionEngine ----------------------------
(* core::ActionEngine: the interpreter of key and dial chains.  A chain is   *)
(* walked step by step on the GUI thread.  A Sleep step, and any step with a *)
(* post-step delay, hands the rest of the chain to the executor (QtExecutor, *)
(* one QTimer::singleShot per continuation) and returns; a folder step ends  *)
(* the chain.  A plugin step may be a built-in Multi Action, whose handler   *)
(* calls run() again from inside the walk, so several walks can be on the    *)
(* call stack at once and several more can be waiting for their timers.      *)
EXTENDS Integers, Sequences

CONSTANTS
    Chains,     \* the chains that bindings and Multi Action settings name
    NoChain,    \* no chain, or an empty one
    Chain,      \* the steps of each chain
    Args,       \* action ids and folder ids
    NoArg,      \* the empty string
    Root,       \* the page id "root"
    Inner       \* the chain a plugin action's built-in handler runs, if any

Kinds == {"plugin", "external", "sleep", "open", "back"}
Step  == [kind : Kinds, arg : Args \cup {NoArg}, delay : BOOLEAN]

ASSUME ChainsAssumption ==
    /\ Root \in Args
    /\ NoChain \notin Chains
    /\ Chain \in [Chains -> Seq(Step)]
    /\ Inner \in [Args \cup {NoArg} -> Chains \cup {NoChain}]

VARIABLES
    chainOf,    \* history: the chain of every run() so far
    ran,        \* history: the steps each run has performed, in order
    stack,      \* the walks on the GUI thread's call stack, innermost last
    deferred,   \* continuations waiting in the executor
    alive,      \* alive_: the engine is not destroyed
    pageStack   \* nav_.pageStack

engineVars == <<chainOf, ran, stack, deferred, alive, pageStack>>

Frame        == [run : Nat, at : Nat, pc : {"switch", "post"}]
Continuation == [run : Nat, at : Nat]

(* Every variable of the engine has its type; histories go together.         *)
EngineTypeOK ==
    /\ chainOf \in Seq(Chains)
    /\ ran \in Seq(Seq(Nat))
    /\ Len(ran) = Len(chainOf)
    /\ stack \in Seq(Frame)
    /\ deferred \in SUBSET Continuation
    /\ alive \in BOOLEAN
    /\ pageStack \in Seq(Args \cup {NoArg})

EngineInit ==
    /\ chainOf = <<>>
    /\ ran = <<>>
    /\ stack = <<>>
    /\ deferred = {}
    /\ alive = TRUE
    /\ pageStack = <<>>

-----------------------------------------------------------------------------
Idle     == stack = <<>>
Top      == stack[Len(stack)]
Below    == SubSeq(stack, 1, Len(stack) - 1)
TopChain == Chain[chainOf[Top.run]]
TopStep  == TopChain[Top.at]
Walk(r, at, pc) == [run |-> r, at |-> at, pc |-> pc]

Performed == ran' = [ran EXCEPT ![Top.run] = Append(@, Top.at)]

(* The rest of the chain, from the step after this one, goes to the executor *)
Defer ==
    /\ deferred' = deferred \cup {[run |-> Top.run, at |-> Top.at + 1]}
    /\ stack' = Below

AtStep(kinds) ==
    /\ ~Idle
    /\ Top.pc = "switch"
    /\ Top.at <= Len(TopChain)
    /\ TopStep.kind \in kinds

(* run(): an empty chain is ignored; any other starts a walk at its first    *)
(* step.                                                                     *)
Enter(c) ==
    /\ chainOf' = Append(chainOf, c)
    /\ stack' = Append(stack, Walk(Len(chainOf) + 1, 1, "switch"))
    /\ ran' = Append(ran, <<>>)

RunChain(c) ==
    /\ IF c = NoChain THEN UNCHANGED <<chainOf, stack, ran>>
       ELSE IF Chain[c] = <<>> THEN UNCHANGED <<chainOf, stack, ran>> ELSE Enter(c)
    /\ UNCHANGED <<deferred, alive, pageStack>>

(* A handler on an idle GUI thread runs a chain.                             *)
Start(c) == Idle /\ alive /\ RunChain(c)

(* runFrom's loop has passed the last step.                                  *)
Leave ==
    /\ ~Idle
    /\ Top.pc = "switch"
    /\ Top.at > Len(TopChain)
    /\ stack' = Below
    /\ UNCHANGED <<chainOf, ran, deferred, alive, pageStack>>

HandlerRuns(arg) == Inner[arg] # NoChain /\ Chain[Inner[arg]] # <<>>

(* A step whose executor returns without running another chain.              *)
Inline ==
    /\ AtStep({"plugin", "external"})
    /\ TopStep.kind = "plugin" => ~HandlerRuns(TopStep.arg)
    /\ Performed
    /\ stack' = [stack EXCEPT ![Len(stack)] = Walk(Top.run, Top.at, "post")]
    /\ UNCHANGED <<chainOf, deferred, alive, pageStack>>

(* A plugin step whose built-in handler calls run() before it returns.       *)
Nested ==
    /\ AtStep({"plugin"})
    /\ HandlerRuns(TopStep.arg)
    /\ chainOf' = Append(chainOf, Inner[TopStep.arg])
    /\ ran' = Append([ran EXCEPT ![Top.run] = Append(@, Top.at)], <<>>)
    /\ stack' = Append([stack EXCEPT ![Len(stack)] = Walk(Top.run, Top.at, "post")],
                       Walk(Len(chainOf) + 1, 1, "switch"))
    /\ UNCHANGED <<deferred, alive, pageStack>>

Sleep ==
    /\ AtStep({"sleep"})
    /\ Performed
    /\ Defer
    /\ UNCHANGED <<chainOf, alive, pageStack>>

(* pushPage: a folder without a target is ignored.  Either way the chain is  *)
(* over.                                                                     *)
OpenFolder ==
    /\ AtStep({"open"})
    /\ Performed
    /\ pageStack' = IF TopStep.arg = NoArg THEN pageStack ELSE Append(pageStack, TopStep.arg)
    /\ stack' = Below
    /\ UNCHANGED <<chainOf, deferred, alive>>

(* popPage never empties the stack.                                          *)
BackToParent ==
    /\ AtStep({"back"})
    /\ Performed
    /\ pageStack' = IF Len(pageStack) > 1 THEN SubSeq(pageStack, 1, Len(pageStack) - 1)
                    ELSE pageStack
    /\ stack' = Below
    /\ UNCHANGED <<chainOf, deferred, alive>>

(* Mutant: a post-step delay returns without scheduling the rest.            *)
PostStepForgets ==
    /\ ~Idle
    /\ Top.pc = "post"
    /\ stack' = IF TopStep.delay THEN Below
                ELSE [stack EXCEPT ![Len(stack)] = Walk(Top.run, Top.at + 1, "switch")]
    /\ UNCHANGED <<chainOf, ran, deferred, alive, pageStack>>

(* Behind the switch: a post-step delay defers the rest.                     *)
PostStep ==
    /\ ~Idle
    /\ Top.pc = "post"
    /\ IF TopStep.delay
       THEN Defer
       ELSE /\ stack' = [stack EXCEPT ![Len(stack)] = Walk(Top.run, Top.at + 1, "switch")]
            /\ UNCHANGED deferred
    /\ UNCHANGED <<chainOf, ran, alive, pageStack>>

(* Mutant: the continuation does not check the alive flag.                   *)
WakeUnchecked(k) ==
    /\ Idle
    /\ k \in deferred
    /\ deferred' = deferred \ {k}
    /\ stack' = <<Walk(k.run, k.at, "switch")>>
    /\ UNCHANGED <<chainOf, ran, alive, pageStack>>

(* A continuation's timer fires.  It does nothing once the engine is gone.   *)
Wake(k) ==
    /\ Idle
    /\ k \in deferred
    /\ deferred' = deferred \ {k}
    /\ stack' = IF alive THEN <<Walk(k.run, k.at, "switch")>> ELSE stack
    /\ UNCHANGED <<chainOf, ran, alive, pageStack>>

(* setProfile: back to the root page.  Tests call it; the application never  *)
(* does, so its page stack starts empty and its first folder stays on it.    *)
SetProfile ==
    /\ Idle /\ alive
    /\ pageStack' = <<Root>>
    /\ UNCHANGED <<chainOf, ran, stack, deferred, alive>>

Destroy ==
    /\ Idle /\ alive
    /\ alive' = FALSE
    /\ UNCHANGED <<chainOf, ran, stack, deferred, pageStack>>

SomeStep == Leave \/ Inline \/ Nested \/ Sleep \/ OpenFolder \/ BackToParent \/ PostStep

EngineNext ==
    \/ \E c \in Chains \cup {NoChain} : Start(c)
    \/ SomeStep
    \/ \E k \in deferred : Wake(k)
    \/ SetProfile
    \/ Destroy

EngineSpec == EngineInit /\ [][EngineNext]_engineVars

-----------------------------------------------------------------------------
KindOf(r, i)   == Chain[chainOf[r]][i].kind
FolderKinds    == {"open", "back"}
OnStack(r)     == \E i \in DOMAIN stack : stack[i].run = r
Waiting(r)     == \E k \in deferred : k.run = r
EndedByFolder(r) == ran[r] # <<>> /\ KindOf(r, ran[r][Len(ran[r])]) \in FolderKinds
Finished(r)    == Len(ran[r]) = Len(Chain[chainOf[r]]) \/ EndedByFolder(r)

(* Whatever timers, nested runs and other presses come in between, a run     *)
(* performs the steps of its chain in order, none twice and none skipped.    *)
StepsInOrder == \A r \in DOMAIN ran : \A i \in DOMAIN ran[r] : ran[r][i] = i

(* Nothing of a chain is performed after its OpenFolder or BackToParent.     *)
FolderEndsChain ==
    \A r \in DOMAIN ran : \A i \in 1 .. (Len(ran[r]) - 1) : KindOf(r, ran[r][i]) \notin FolderKinds

(* While the engine lives no chain is abandoned half way: a run is on the    *)
(* call stack, waits for its timer, or is finished.                          *)
NothingIsDropped == alive => \A r \in DOMAIN ran : OnStack(r) \/ Waiting(r) \/ Finished(r)

(* A run is in one place: a walk is on the stack once, has at most one       *)
(* continuation, and never both.                                             *)
OnePlace ==
    /\ \A i, j \in DOMAIN stack : stack[i].run = stack[j].run => i = j
    /\ \A k, m \in deferred : k.run = m.run => k = m
    /\ \A i \in DOMAIN stack, k \in deferred : stack[i].run # k.run

(* Chains that nest, sleep and are started by other presses are each walked  *)
(* once, in order, to their own end.                                         *)
ChainsAreWalked == StepsInOrder /\ FolderEndsChain /\ NothingIsDropped /\ OnePlace

(* A destroyed engine performs nothing, however many timers still fire.      *)
DestroyedIsSilent == [][~alive => UNCHANGED <<ran, pageStack>>]_engineVars
=============================================================================
