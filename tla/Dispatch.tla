------------------------------ MODULE Dispatch ------------------------------
(***************************************************************************)
(* One call through handlers composed with Chain, Fallback,                *)
(* PredicateFallback, RetryIf, Timeout, RoundRobin, WeightBasedRouter and  *)
(* route tables (chain.go, routers.go, smart.go, router.go, discard.go).   *)
(* A composition is a tree; its evaluation is a stack of frames.  Leaf     *)
(* handlers return any result, cleanups fail, and the context ends or a    *)
(* timer expires at any moment.                                            *)
(***************************************************************************)
EXTENDS Integers, Sequences, SequencesExt

CONSTANTS
    Nodes,          \* the tree: node -> [op, kids, match, fallback]
    Roots,          \* the nodes a call may start at
    Keys,           \* keys of the one decision group of the tables
    Attempts,       \* RetryIf: total handler calls
    Backoff,        \* RetryIf: first delay
    MaxInt,         \* math.MaxInt64, small
    None            \* no fallback, no decision yet

ASSUME DispatchAssumption ==
    /\ Roots \subseteq DOMAIN Nodes /\ Attempts \in Nat \ {0}
    /\ MaxInt \in Nat \ {0} /\ Backoff \in 0..MaxInt

\* A composition is built by constructors: every child is a handler, a fallback
\* has two of them, a retry and a timeout have one.
ASSUME TreeAssumption ==
    \A n \in DOMAIN Nodes :
        /\ Nodes[n].kids \in Seq(DOMAIN Nodes)
        /\ Nodes[n].op \in {"fallback", "predicate"} => Len(Nodes[n].kids) = 2
        /\ Nodes[n].op \in {"retry", "timeout"} => Len(Nodes[n].kids) = 1
        /\ Nodes[n].op = "table" => Nodes[n].fallback \in DOMAIN Nodes \union {None}

VARIABLES
    stack,          \* frames: node, children tried, context, delay, last result
    mode,           \* what the top frame does next
    res,            \* the result travelling up: action, err, life
    open,           \* Lifetimes that are open; 0 is the nil Lifetime
    broken,         \* Lifetimes whose cleanup failed
    hooks,          \* life -> contexts its callbacks cancel
    timers,         \* contexts of Timeout not cancelled yet
    made,           \* how many contexts Timeout made; 0 is the caller's
    done,           \* contexts that are over
    decision        \* call.state.decisions of the group

lifeVars == <<open, broken, hooks, timers>>
vars == <<stack, mode, res, lifeVars, made, done, decision>>

Top == Last(stack)
op == Nodes[Top.node].op
kids == Nodes[Top.node].kids
Dead == Top.ctx \in done
AbortResult == [action |-> "abort", err |-> TRUE, life |-> 0]
noRouteResult == [action |-> "next", err |-> FALSE, life |-> 0]
Frame(node, ctx) == [node |-> node, i |-> 0, ctx |-> ctx, wait |-> Backoff, last |-> noRouteResult]

Init ==
    /\ \E r \in Roots : stack = <<Frame(r, 0)>>
    /\ mode = "try" /\ res = noRouteResult
    /\ open = {} /\ broken = {} /\ hooks = <<>>
    /\ timers = {} /\ made = 0 /\ done = {}
    /\ decision = None

-----------------------------------------------------------------------------
\* The top frame returns r to its caller.
Return(r) ==
    /\ stack' = Front(stack)
    /\ mode' = IF Len(stack) = 1 THEN "returned" ELSE "judge"
    /\ res' = r

\* The top frame calls child.
Call(child, ctx) ==
    /\ stack' = Append([stack EXCEPT ![Len(stack)].i = @ + 1], Frame(child, ctx))
    /\ mode' = "try"
    /\ UNCHANGED res

\* A leaf returns; InvokeRouteHandler, FromFunc and FromResultFunc are leaves.
Leaf ==
    /\ mode = "try" /\ op = "leaf"
    /\ \E action \in {"next", "stop", "other"}, err, owned \in BOOLEAN :
        LET life == Len(hooks) + 1
        IN /\ Return([action |-> IF err THEN "abort" ELSE action, err |-> err,
                      life |-> IF owned THEN life ELSE 0])
           /\ open' = IF owned THEN open \union {life} ELSE open
           /\ hooks' = IF owned THEN Append(hooks, {}) ELSE hooks
    /\ UNCHANGED <<broken, timers, made, done, decision>>

\* The frames unwind, and every Timeout on the way cancels.
Unwind ==
    /\ timers' = timers \ {stack[k].ctx : k \in DOMAIN stack}
    /\ stack' = <<>>
    /\ UNCHANGED <<res, open, broken, hooks, made, done, decision>>

\* A leaf, a weight extractor or a matcher panics.
LeafPanics ==
    /\ mode = "try" /\ mode' = "panicked"
    /\ op \in {"leaf", "weight"} \/ (op = "table" /\ ~Dead /\ Top.i < Len(kids))
    /\ Unwind

\* The predicate of RetryIf or PredicateFallback panics over the result of the
\* handler, which nobody holds any more.
PredicatePanics ==
    /\ mode = "judge" /\ mode' = "dropped" /\ res.err
    /\ (op = "retry" /\ ~Dead /\ Top.i < Attempts) \/ (op = "predicate" /\ Top.i < 2)
    /\ Unwind

\* A Chain that has no more handlers hands on the last result.
TryChain ==
    /\ mode = "try" /\ op = "chain"
    /\ IF Top.i = Len(kids) THEN Return(Top.last)
       ELSE IF Dead THEN Return(AbortResult) ELSE Call(kids[Top.i + 1], Top.ctx)
    /\ UNCHANGED <<lifeVars, made, done, decision>>

\* Fallback and PredicateFallback: the first result goes up when the context
\* ended during its discard.
TryFallback ==
    /\ mode = "try" /\ op \in {"fallback", "predicate"}
    /\ IF ~Dead THEN Call(kids[Top.i + 1], Top.ctx)
       ELSE Return(IF Top.i > 0 THEN [Top.last EXCEPT !.action = "abort"] ELSE AbortResult)
    /\ UNCHANGED <<lifeVars, made, done, decision>>

TryRetry ==
    /\ mode = "try" /\ op = "retry"
    /\ IF Dead THEN Return(AbortResult) ELSE Call(kids[1], Top.ctx)
    /\ UNCHANGED <<lifeVars, made, done, decision>>

\* Timeout makes a context for the one call below it.
TryTimeout ==
    /\ mode = "try" /\ op = "timeout"
    /\ made' = made + 1
    /\ timers' = timers \union {made'}
    /\ done' = IF Dead THEN done \union {made'} ELSE done
    /\ stack' = Append([stack EXCEPT ![Len(stack)].ctx = made'], Frame(kids[1], made'))
    /\ UNCHANGED <<mode, res>>
    /\ UNCHANGED <<open, broken, hooks, decision>>

\* WeightBasedRouter, DecisionTableHandler and RoundRobin hand the call to one
\* child without a look at the context.  The extractor or the table may fail;
\* the counter of RoundRobin wraps and may be anywhere.
TryChoice ==
    /\ mode = "try" /\ op \in {"weight", "robin"}
    /\ \/ op = "weight" /\ Return(AbortResult)
       \/ \E k \in DOMAIN kids : Call(kids[k], Top.ctx)
    /\ UNCHANGED <<lifeVars, made, done, decision>>

\* The call has a decision of this group already.
UsesCache == decision # None

\* What a classifier or a decision table may say: Keys has one that no route
\* waits for, which is also what NoDecision is.
Decisions == Keys \union {"error"}

\* The decision is taken once for a call and kept, an error included.
decisionForCall == IF UsesCache THEN UNCHANGED decision ELSE decision' \in Decisions

\* The case of key m: its own threshold may refuse the confidence of the decision.
decisionMatcher(m) ==
    CASE decision' = "error" -> {"error"} [] decision' = m -> {"yes", "no"} [] OTHER -> {"no"}

\* matchRoute: a predicate says anything.
Match(m, answer) ==
    IF m = "predicate" THEN answer # "error" /\ UNCHANGED decision
    ELSE decisionForCall /\ answer \in decisionMatcher(m)

\* dispatchTable and dispatchEntry: the next entry of the table, tried if it
\* matches; after the last one the fallback, or the last result that said next.
TryRoute ==
    /\ mode = "try" /\ op = "table"
    /\ \/ /\ Dead /\ (Top.i < Len(kids) \/ Nodes[Top.node].fallback # None \/ Top.i = 0)
          /\ Return(AbortResult)
          /\ UNCHANGED decision
       \/ /\ ~Dead /\ Top.i < Len(kids)
          /\ \E answer \in {"yes", "no", "error"} :
              /\ Match(Nodes[Top.node].match[Top.i + 1], answer)
              /\ CASE answer = "error" -> Return(AbortResult)
                   [] answer = "yes" -> Call(kids[Top.i + 1], Top.ctx)
                   [] answer = "no" -> stack' = [stack EXCEPT ![Len(stack)].i = @ + 1] /\ UNCHANGED <<mode, res>>
       \/ /\ Top.i = Len(kids)
          /\ IF Nodes[Top.node].fallback = None THEN Return(Top.last)
             ELSE ~Dead /\ Call(Nodes[Top.node].fallback, Top.ctx)
          /\ UNCHANGED decision
    /\ UNCHANGED <<lifeVars, made, done>>

-----------------------------------------------------------------------------
\* Keep the result for after its discard.
Discard ==
    /\ stack' = [stack EXCEPT ![Len(stack)].last = res]
    /\ mode' = "discard"
    /\ UNCHANGED res

\* Chain and tables: validateReturnedResult, then next goes on and all else is
\* the answer.  What the fallback of a table returns is the answer too.
JudgeAction ==
    /\ mode = "judge" /\ op \in {"chain", "table"}
    /\ IF res.err \/ res.action \notin {"next", "stop"} THEN Return([res EXCEPT !.action = "abort", !.err = TRUE])
       ELSE IF res.action = "stop" \/ Top.i > Len(kids) THEN Return(res)
       ELSE Discard
    /\ UNCHANGED <<lifeVars, made, done, decision>>

\* An error of the first handler goes on to the second if the predicate permits
\* it and the context is alive; the second one's result is the answer.
JudgeFallback ==
    /\ mode = "judge" /\ op \in {"fallback", "predicate"}
    /\ \E permitted \in IF op = "fallback" THEN {TRUE} ELSE BOOLEAN :
        IF res.err /\ permitted /\ ~Dead /\ Top.i < 2 THEN Discard ELSE Return(res)
    /\ UNCHANGED <<lifeVars, made, done, decision>>

\* RetryIf goes on the same way until its attempts are used.
JudgeRetry ==
    /\ mode = "judge" /\ op = "retry"
    /\ \E permitted \in BOOLEAN :
        IF res.err /\ permitted /\ ~Dead /\ Top.i < Attempts THEN Discard ELSE Return(res)
    /\ UNCHANGED <<lifeVars, made, done, decision>>

JudgeChoice ==
    /\ mode = "judge" /\ op \in {"weight", "robin"}
    /\ Return(res)
    /\ UNCHANGED <<lifeVars, made, done, decision>>

\* Fault: a result that came with an error gets no callback.
AttachesOnSuccess == res.life \in open /\ ~res.err

\* Timeout leaves its cancel to the owner of the result, if there is one that
\* is not closed already.
Attaches == res.life \in open

JudgeTimeout ==
    /\ mode = "judge" /\ op = "timeout"
    /\ hooks' = IF Attaches THEN [hooks EXCEPT ![res.life] = @ \union {Top.ctx}] ELSE hooks
    /\ timers' = IF res.life \in open THEN timers ELSE timers \ {Top.ctx}
    /\ Return(res)
    /\ UNCHANGED <<open, broken, made, done, decision>>

\* Fault: a second Close of the same Lifetime forgets the error of the first.
CloseFailsOnce(fails) == fails /\ res.life \in open

\* Whether Lifetime.Close returns an error: the first call decides for all.
CloseFails(fails) == IF res.life \in open THEN fails ELSE res.life \in broken

\* discardResult: the result is closed, its callbacks run, and an error of the
\* cleanup goes to the caller together with the result.
CloseResult ==
    /\ mode = "discard"
    /\ open' = open \ {res.life}
    /\ timers' = IF res.life \in open THEN timers \ hooks[res.life] ELSE timers
    /\ \E fails \in BOOLEAN :
        /\ broken' = IF fails /\ res.life \in open THEN broken \union {res.life} ELSE broken
        /\ IF CloseFails(fails) THEN Return([res EXCEPT !.action = "abort", !.err = TRUE])
           ELSE mode' = (IF op = "retry" THEN "sleep" ELSE "try") /\ UNCHANGED <<stack, res>>
    /\ UNCHANGED <<hooks, made, done, decision>>

-----------------------------------------------------------------------------
\* Fault: the product is not bounded and wraps to a negative number.
safeDoubleBackoffWraps(d) ==
    IF d <= 0 THEN 0 ELSE IF 2 * d > MaxInt THEN 2 * d - 2 * (MaxInt + 1) ELSE 2 * d

safeDoubleBackoff(d) ==
    IF d <= 0 THEN 0 ELSE IF d > MaxInt \div 2 THEN MaxInt ELSE 2 * d

\* The delays growBackoff may draw after d.
growBackoff(d) ==
    LET doubled == safeDoubleBackoff(d)
        capHalf == doubled \div 2
    IN IF doubled <= 0 \/ capHalf <= 0 THEN {doubled} ELSE {capHalf + jitter : jitter \in 0..(capHalf - 1)}

\* RetryIf sleeps; the end of its context ends the call.
Sleep ==
    /\ mode = "sleep"
    /\ IF Dead THEN Return([res EXCEPT !.action = "abort"])
       ELSE /\ \E d \in growBackoff(Top.wait) : stack' = [stack EXCEPT ![Len(stack)].wait = d]
            /\ mode' = "try"
            /\ UNCHANGED res
    /\ UNCHANGED <<lifeVars, made, done, decision>>

\* The caller cancels (0) or a timer of the stack expires; contexts made below
\* end with it.
ContextEnds ==
    /\ mode \notin {"returned", "panicked", "dropped"}
    /\ \E c \in {0} \union {stack[k].ctx : k \in DOMAIN stack} :
        /\ c \notin done
        /\ done' = done \union (c..made)
    /\ UNCHANGED <<stack, mode, res, lifeVars, made, decision>>

Next ==
    \/ Leaf \/ LeafPanics \/ PredicatePanics \/ TryChain \/ TryFallback \/ TryRetry \/ TryTimeout \/ TryRoute
    \/ TryChoice \/ JudgeAction \/ JudgeFallback \/ JudgeRetry \/ JudgeTimeout \/ JudgeChoice \/ CloseResult \/ Sleep
    \/ ContextEnds

Spec == Init /\ [][Next]_vars

-----------------------------------------------------------------------------
\* When the call is over, the only resource still open is the one handed to the
\* caller, and the only contexts not cancelled are those its Lifetime will
\* cancel.  After a panic of a leaf, an extractor or a matcher nothing is left;
\* a panic of a predicate loses the one result it was judging, with the contexts
\* that hang on its Lifetime, and nothing else.
NothingLeaks ==
    /\ mode \in {"returned", "dropped"} =>
        /\ open \subseteq {res.life}
        /\ timers \subseteq UNION {hooks[l] : l \in open}
    /\ mode = "panicked" => open = {} /\ timers = {}

\* Handlers after the first are called only with a context that is alive,
\* nothing open, and no cleanup failed anywhere in the composition: a cleanup
\* error in an inner combinator stops the retries and fallbacks around it too.
NextTryClean ==
    [][Len(stack') > Len(stack) /\ Top.i > 0 => ~Dead /\ open = {} /\ broken = {}]_vars

\* The delay of a retry never collapses: jitter and saturation keep it at least
\* at the configured one, or at half the largest duration.
BackoffHolds ==
    \A k \in DOMAIN stack :
        stack[k].wait >= (IF Backoff < MaxInt \div 2 THEN Backoff ELSE MaxInt \div 2)

=============================================================================
