--------------------------- MODULE LifetimeProofs ---------------------------
(***************************************************************************)
(* Lifetime for any number of closers and callbacks: the queue and the     *)
(* drained copy hold each callback once, exactly one closer is inside      *)
(* sync.Once, and the two slices are never both in use.  From these follow *)
(* at-most-once callbacks, callbacks only after the cleanup, that none is  *)
(* lost, and the ownership contract.  Then Bulkhead, whose permits a       *)
(* Lifetime returns, for any finite set of calls, any lifetimes and any    *)
(* limit.                                                                  *)
(***************************************************************************)
EXTENDS Lifetime, Bulkhead, FiniteSetTheorems, TLAPS

\* The closer inside once.Do is unique, and once says whether there is one.
OnceInv ==
    /\ \A c, d \in Closers : cpc[c] \in Inside /\ cpc[d] \in Inside => c = d
    /\ \A c \in Closers : cpc[c] \in Inside => once = "running"

\* Where the closer is decides whether the cleanup is over and closed is set.
PhaseInv ==
    /\ once = "idle" => ~closed /\ cleanups = 0
    /\ once = "done" => closed
    /\ closed => cleanups = 1
    /\ \A c \in Closers :
        /\ cpc[c] = "cleanup" => ~closed /\ cleanups = 0
        /\ cpc[c] = "mark" => ~closed /\ cleanups = 1
        /\ cpc[c] = "drain" => closed

\* Queued callbacks are distinct, queued by their OnClose, and have not run.
QueueInv ==
    /\ closed => hooks = <<>>
    /\ \A i \in 1..Len(hooks) : hpc[hooks[i]] = "queued" /\ runs[hooks[i]] = 0
    /\ \A i, j \in 1..Len(hooks) : hooks[i] = hooks[j] => i = j

\* So are the callbacks the closer still has to run.
DrainInv ==
    /\ ~closed => draining = <<>>
    /\ \A i \in 1..Len(draining) :
        /\ hpc[draining[i]] = "queued"
        /\ i >= cursor => runs[draining[i]] = 0
    /\ \A i, j \in 1..Len(draining) : draining[i] = draining[j] => i = j

\* A callback that is neither queued nor done has not run.
RunInv ==
    \A h \in Hooks :
        /\ runs[h] <= 1
        /\ hpc[h] \in {"idle", "inline"} => runs[h] = 0
        /\ hpc[h] = "inline" => closed
        /\ runs[h] > 0 => closed

Inv == TypeOK /\ OnceInv /\ PhaseInv /\ QueueInv /\ DrainInv /\ RunInv

LEMMA InitInv == Init => Inv
<1> SUFFICES ASSUME Init PROVE Inv
    OBVIOUS
<1>0. closed \in BOOLEAN
    BY Zenon DEF Init
<1>1. TypeOK
    <2>1. <<>> \in Seq(Hooks)
        OBVIOUS
    <2>2. /\ cpc \in [Closers -> {"idle", "returned", "unwound"} \union Inside]
          /\ ret \in [Closers -> {"none", "nil", "error"}]
          /\ hpc \in [Hooks -> {"idle", "queued", "inline", "ran"}]
          /\ runs \in [Hooks -> Nat]
        BY DEF Init
    <2> QED
        BY <1>0, <2>1, <2>2 DEF Init, TypeOK
<1>2. OnceInv /\ PhaseInv /\ RunInv
    BY DEF Init, OnceInv, PhaseInv, RunInv, Inside
<1>3. QueueInv /\ DrainInv
    BY DEF Init, QueueInv, DrainInv
<1> QED
    BY <1>1, <1>2, <1>3 DEF Inv

\* Every step keeps the variables in their types.
LEMMA StepTypeOK == Inv /\ [Next]_vars => TypeOK'
<1> SUFFICES ASSUME Inv, [Next]_vars PROVE TypeOK'
    OBVIOUS
<1> USE DEF Inv, TypeOK, Inside
<1>1. ASSUME NEW c \in Closers, Enter(c) PROVE TypeOK'
    BY <1>1 DEF Enter, hookVars
<1>2. ASSUME NEW c \in Closers, Follow(c) PROVE TypeOK'
    BY <1>2 DEF Follow, hookVars
<1>3. ASSUME NEW c \in Closers, Cleanup(c) PROVE TypeOK'
    BY <1>3 DEF Cleanup, hookVars
<1>4. ASSUME NEW c \in Closers, Mark(c) PROVE TypeOK'
    BY <1>4 DEF Mark, hookVars
<1>5. ASSUME NEW c \in Closers, RunHook(c) PROVE TypeOK'
    BY <1>5 DEF RunHook
<1>6. ASSUME NEW c \in Closers, HookPanics(c) PROVE TypeOK'
    BY <1>6 DEF HookPanics
<1>7. ASSUME NEW c \in Closers, Leave(c) PROVE TypeOK'
    BY <1>7 DEF Leave, hookVars
<1>8. ASSUME NEW h \in Hooks, OnClose(h) PROVE TypeOK'
    BY <1>8 DEF OnClose
<1>9. ASSUME NEW h \in Hooks, RunInline(h) PROVE TypeOK'
    BY <1>9 DEF RunInline
<1>10. CASE UNCHANGED vars
    BY <1>10 DEF vars
<1> QED
    BY <1>1, <1>2, <1>3, <1>4, <1>5, <1>6, <1>7, <1>8, <1>9, <1>10
    DEF Next, CloserStep, HookStep

LEMMA StepInv == Inv /\ [Next]_vars => Inv'
<1> SUFFICES ASSUME Inv, [Next]_vars PROVE Inv'
    OBVIOUS
<1>0. TypeOK' 
    BY StepTypeOK
<1> USE <1>0 DEF Inv
<1>1. ASSUME NEW c \in Closers, Enter(c) PROVE Inv'
    BY <1>1 DEF Enter, hookVars, TypeOK, OnceInv, PhaseInv, QueueInv, DrainInv, RunInv, Inside
<1>2. ASSUME NEW c \in Closers, Follow(c) PROVE Inv'
    BY <1>2 DEF Follow, hookVars, TypeOK, OnceInv, PhaseInv, QueueInv, DrainInv, RunInv, Inside
<1>3. ASSUME NEW c \in Closers, Cleanup(c) PROVE Inv'
    BY <1>3 DEF Cleanup, hookVars, TypeOK, OnceInv, PhaseInv, QueueInv, DrainInv, RunInv, Inside
<1>4. ASSUME NEW c \in Closers, Mark(c) PROVE Inv'
    <2>1. OnceInv' /\ PhaseInv'
        BY <1>4 DEF Mark, TypeOK, OnceInv, PhaseInv, Inside
    <2>2. QueueInv'
        BY <1>4 DEF Mark, hookVars, TypeOK, QueueInv
    <2>3. DrainInv'
        BY <1>4 DEF Mark, hookVars, TypeOK, QueueInv, DrainInv
    <2>4. RunInv'
        BY <1>4 DEF Mark, hookVars, TypeOK, PhaseInv, RunInv
    <2> QED BY <2>1, <2>2, <2>3, <2>4
<1>5. ASSUME NEW c \in Closers, RunHook(c) PROVE Inv'
    <2>1. closed /\ hooks = <<>>
        BY <1>5 DEF RunHook, PhaseInv, QueueInv
    <2>2. draining[cursor] \in Hooks /\ runs[draining[cursor]] = 0 /\ hpc[draining[cursor]] = "queued"
        BY <1>5 DEF RunHook, TypeOK, DrainInv
    <2>3. OnceInv' /\ PhaseInv'
        BY <1>5 DEF RunHook, TypeOK, OnceInv, PhaseInv
    <2>4. QueueInv'
        BY <1>5, <2>1 DEF RunHook, TypeOK, QueueInv
    <2>5. DrainInv'
        BY <1>5, <2>1, <2>2 DEF RunHook, TypeOK, DrainInv
    <2>6. RunInv'
        BY <1>5, <2>1, <2>2 DEF RunHook, TypeOK, RunInv
    <2> QED BY <2>3, <2>4, <2>5, <2>6
<1>6. ASSUME NEW c \in Closers, HookPanics(c) PROVE Inv'
    <2>1. closed /\ hooks = <<>>
        BY <1>6 DEF HookPanics, PhaseInv, QueueInv
    <2>2. draining[cursor] \in Hooks /\ runs[draining[cursor]] = 0 /\ hpc[draining[cursor]] = "queued"
        BY <1>6 DEF HookPanics, TypeOK, DrainInv
    <2>3. OnceInv' /\ PhaseInv'
        BY <1>6 DEF HookPanics, TypeOK, OnceInv, PhaseInv
    <2>4. QueueInv'
        BY <1>6, <2>1 DEF HookPanics, TypeOK, QueueInv
    <2>5. DrainInv'
        BY <1>6, <2>1, <2>2 DEF HookPanics, TypeOK, DrainInv
    <2>6. RunInv'
        BY <1>6, <2>1, <2>2 DEF HookPanics, TypeOK, RunInv
    <2> QED BY <2>3, <2>4, <2>5, <2>6
<1>7. ASSUME NEW c \in Closers, Leave(c) PROVE Inv'
    BY <1>7 DEF Leave, hookVars, TypeOK, OnceInv, PhaseInv, QueueInv, DrainInv, RunInv, Inside
<1>8. ASSUME NEW h \in Hooks, OnClose(h) PROVE Inv'
    <2>1. OnceInv' /\ PhaseInv'
        BY <1>8 DEF OnClose, TypeOK, OnceInv, PhaseInv
    <2>2. QueueInv'
        BY <1>8 DEF OnClose, TypeOK, QueueInv, RunInv
    <2>3. DrainInv'
        BY <1>8 DEF OnClose, TypeOK, DrainInv
    <2>4. RunInv'
        BY <1>8 DEF OnClose, TypeOK, RunInv
    <2> QED BY <2>1, <2>2, <2>3, <2>4
<1>9. ASSUME NEW h \in Hooks, RunInline(h) PROVE Inv'
    <2>1. OnceInv' /\ PhaseInv'
        BY <1>9 DEF RunInline, TypeOK, OnceInv, PhaseInv
    <2>2. QueueInv'
        BY <1>9 DEF RunInline, TypeOK, QueueInv, RunInv
    <2>3. DrainInv'
        BY <1>9 DEF RunInline, TypeOK, DrainInv, RunInv
    <2>4. RunInv'
        BY <1>9 DEF RunInline, TypeOK, RunInv
    <2> QED BY <2>1, <2>2, <2>3, <2>4
<1>10. CASE UNCHANGED vars
    BY <1>10 DEF vars, TypeOK, OnceInv, PhaseInv, QueueInv, DrainInv, RunInv
<1> QED
    BY <1>1, <1>2, <1>3, <1>4, <1>5, <1>6, <1>7, <1>8, <1>9, <1>10
    DEF Next, CloserStep, HookStep

LEMMA SpecInv == Spec => []Inv
<1>1. Init => Inv
    BY InitInv
<1>2. Inv /\ [Next]_vars => Inv'
    BY StepInv
<1> QED
    BY <1>1, <1>2, PTL DEF Spec

\* Type correctness of the model of lifetime.go.
THEOREM LifetimeTypeCorrect == Spec => []TypeOK
<1>1. Inv => TypeOK
    BY DEF Inv
<1> QED BY <1>1, SpecInv, PTL

\* For any number of concurrent Close and OnClose calls no callback runs twice.
THEOREM HooksAtMostOnce == Spec => []HooksRunAtMostOnce
<1>1. Inv => HooksRunAtMostOnce
    BY DEF Inv, RunInv, HooksRunAtMostOnce
<1> QED BY <1>1, SpecInv, PTL

\* For any number of concurrent calls no callback precedes the cleanup.
THEOREM HooksAfterCleanup == Spec => []HooksRunAfterCleanup
<1>1. Inv => HooksRunAfterCleanup
    BY DEF Inv, RunInv, PhaseInv, HooksRunAfterCleanup
<1> QED BY <1>1, SpecInv, PTL

-----------------------------------------------------------------------------
(* No callback is lost *)

\* Where a callback that has not run is found.
QueuedAt(h) == \E i \in 1..Len(hooks) : hooks[i] = h
WaitsAt(h) == \E i \in 1..Len(draining) : i >= cursor /\ draining[i] = h

\* A queued callback that has not run is in the queue or ahead of the
\* closer's cursor, unless a callback panicked; the closer leaves with nothing to run.
LossInv ==
    /\ panicked = "hook" => closed
    /\ once = "done" => cursor > Len(draining)
    /\ \A h \in Hooks :
        /\ hpc[h] = "ran" => runs[h] = 1
        /\ hpc[h] = "queued" /\ runs[h] = 0 /\ panicked # "hook" => QueuedAt(h) \/ WaitsAt(h)

\* When a Close has returned, every callback whose OnClose has returned has run
\* exactly once, also one that was attached while the cleanup was running,
\* unless a callback before it panicked.
NoHookLost ==
    once = "done" /\ panicked # "hook" =>
        \A h \in Hooks : hpc[h] \in {"queued", "ran"} => runs[h] = 1

LEMMA EmptyLength == Len(<<>>) = 0
OBVIOUS

LEMMA LossStart == ASSUME Init PROVE LossInv
<1>1. Len(draining) = 0 /\ cursor = 1
    BY EmptyLength DEF Init
<1> QED BY <1>1 DEF Init, LossInv

LEMMA LossStep == ASSUME Inv, LossInv, [Next]_vars PROVE LossInv'
<1> USE DEF Inv
<1>0. /\ Len(hooks) \in Nat /\ Len(draining) \in Nat /\ cursor \in Nat
      /\ runs \in [Hooks -> Nat] /\ hpc \in [Hooks -> {"idle", "queued", "inline", "ran"}]
    BY DEF TypeOK
<1>1. ASSUME hooks' = hooks, draining' = draining, cursor' = cursor, runs' = runs, hpc' = hpc, closed' = closed,
             panicked' = panicked, once' = "done" => once = "done" \/ cursor > Len(draining)
      PROVE LossInv'
    BY <1>1 DEF LossInv, QueuedAt, WaitsAt
<1>2. ASSUME NEW c \in Closers, Enter(c) \/ Follow(c) \/ Leave(c) PROVE LossInv'
    BY <1>1, <1>2 DEF Enter, Follow, Leave, hookVars
<1>3. ASSUME NEW c \in Closers, Cleanup(c) PROVE LossInv'
    <2>1. /\ ~closed /\ once # "done"
        BY <1>3 DEF Cleanup, PhaseInv, OnceInv, Inside
    <2>2. /\ hooks' = hooks /\ draining' = draining /\ cursor' = cursor /\ runs' = runs /\ hpc' = hpc
          /\ closed' = closed /\ once' = once /\ panicked' # "hook" /\ panicked # "hook"
        BY <1>3, <2>1 DEF Cleanup, hookVars, LossInv
    <2> QED BY <2>1, <2>2 DEF LossInv, QueuedAt, WaitsAt
<1>4. ASSUME NEW c \in Closers, Mark(c) PROVE LossInv'
    <2>1. once # "done" /\ draining = <<>> /\ Len(draining) = 0
        BY <1>4, EmptyLength DEF Mark, PhaseInv, DrainInv, OnceInv, Inside
    <2>2. /\ draining' = hooks /\ cursor' = 1 /\ runs' = runs /\ hpc' = hpc /\ closed' = TRUE
          /\ once' = once /\ panicked' = panicked
        BY <1>4 DEF Mark, hookVars
    <2>3. \A h : QueuedAt(h) => WaitsAt(h)'
        BY <1>0, <2>2 DEF QueuedAt, WaitsAt
    <2>4. \A h : ~WaitsAt(h)
        BY <2>1 DEF WaitsAt
    <2> QED BY <2>1, <2>2, <2>3, <2>4 DEF LossInv
<1>5. ASSUME NEW c \in Closers, RunHook(c) PROVE LossInv'
    <2> DEFINE x == draining[cursor]
    <2>1. /\ once # "done" /\ cursor \in 1..Len(draining) /\ x \in Hooks
          /\ hpc[x] = "queued"
        BY <1>5 DEF RunHook, OnceInv, Inside, DrainInv, TypeOK
    <2>2. /\ hooks' = hooks /\ draining' = draining /\ cursor' = cursor + 1 /\ hpc' = hpc /\ closed' = closed
          /\ once' = once /\ panicked' = panicked /\ runs' = [runs EXCEPT ![x] = @ + 1]
        BY <1>5 DEF RunHook
    <2>3. ASSUME NEW h \in Hooks, h # x, WaitsAt(h) PROVE WaitsAt(h)'
        BY <1>0, <2>2, <2>3 DEF WaitsAt
    <2>4. runs'[x] # 0 /\ \A h \in Hooks : h # x => runs'[h] = runs[h]
        BY <1>0, <2>1, <2>2
    <2> HIDE DEF x
    <2>5. \A h \in Hooks : QueuedAt(h)' <=> QueuedAt(h)
        BY <2>2 DEF QueuedAt
    <2> QED BY <2>1, <2>2, <2>3, <2>4, <2>5 DEF LossInv
<1>6. ASSUME NEW c \in Closers, HookPanics(c) PROVE LossInv'
    <2> DEFINE x == draining[cursor]
    <2>1. /\ once # "done" /\ closed /\ x \in Hooks /\ hpc[x] = "queued"
        BY <1>6 DEF HookPanics, OnceInv, PhaseInv, Inside, DrainInv, TypeOK
    <2>2. /\ closed' = closed /\ once' = once /\ panicked' = "hook" /\ hpc' = hpc
          /\ runs' = [runs EXCEPT ![x] = @ + 1]
        BY <1>6 DEF HookPanics
    <2> HIDE DEF x
    <2>3. \A h \in Hooks : h # x => runs'[h] = runs[h]
        BY <1>0, <2>2
    <2> QED BY <2>1, <2>2, <2>3 DEF LossInv
<1>7. ASSUME NEW h \in Hooks, OnClose(h) PROVE LossInv'
    <2>1. /\ draining' = draining /\ cursor' = cursor /\ closed' = closed /\ once' = once
          /\ panicked' = panicked /\ runs' = runs
          /\ hooks' = IF closed THEN hooks ELSE Append(hooks, h)
          /\ hpc' = [hpc EXCEPT ![h] = IF closed THEN "inline" ELSE "queued"]
        BY <1>7 DEF OnClose
    <2>2. \A x \in Hooks : QueuedAt(x) => QueuedAt(x)'
        BY <1>0, <2>1 DEF QueuedAt, TypeOK
    <2>3. ~closed => QueuedAt(h)'
        <3> SUFFICES ASSUME ~closed PROVE QueuedAt(h)'
            OBVIOUS
        <3>1. hooks' = Append(hooks, h)
            BY <2>1
        <3>2. Len(hooks') = Len(hooks) + 1 /\ hooks'[Len(hooks) + 1] = h
            BY <3>1 DEF TypeOK
        <3> QED BY <1>0, <3>2 DEF QueuedAt
    <2>4. \A x \in Hooks : x # h => hpc'[x] = hpc[x]
        BY <1>0, <2>1
    <2>5. hpc'[h] = IF closed THEN "inline" ELSE "queued"
        BY <1>0, <2>1
    <2>6. \A x : WaitsAt(x) => WaitsAt(x)'
        BY <2>1 DEF WaitsAt
    <2> QED BY <2>1, <2>2, <2>3, <2>4, <2>5, <2>6 DEF LossInv
<1>8. ASSUME NEW h \in Hooks, RunInline(h) PROVE LossInv'
    <2>1. /\ hooks' = hooks /\ draining' = draining /\ cursor' = cursor /\ closed' = closed /\ once' = once
          /\ panicked' = panicked /\ runs' = [runs EXCEPT ![h] = @ + 1]
          /\ hpc' = [hpc EXCEPT ![h] = "ran"] /\ runs[h] = 0
        BY <1>8 DEF RunInline, RunInv
    <2>2. /\ runs'[h] = 1 /\ hpc'[h] = "ran"
          /\ \A x \in Hooks : x # h => runs'[x] = runs[x] /\ hpc'[x] = hpc[x]
        BY <1>0, <2>1
    <2>3. \A x : (QueuedAt(x) \/ WaitsAt(x)) => (QueuedAt(x) \/ WaitsAt(x))'
        BY <2>1 DEF QueuedAt, WaitsAt
    <2> QED BY <2>1, <2>2, <2>3 DEF LossInv
<1>9. CASE UNCHANGED vars
    BY <1>1, <1>9 DEF vars
<1> QED
    BY <1>2, <1>3, <1>4, <1>5, <1>6, <1>7, <1>8, <1>9 DEF Next, CloserStep, HookStep

LEMMA LossRest == ASSUME Inv, LossInv PROVE NoHookLost
<1> SUFFICES ASSUME once = "done", panicked # "hook", NEW h \in Hooks, hpc[h] \in {"queued", "ran"}
             PROVE runs[h] = 1
    BY DEF NoHookLost
<1>1. closed /\ hooks = <<>> /\ Len(hooks) = 0
    BY EmptyLength DEF Inv, PhaseInv, QueueInv
<1>2. ~QueuedAt(h)
    BY <1>1 DEF QueuedAt
<1>3. ~WaitsAt(h)
    <2>1. Len(draining) \in Nat /\ cursor \in Nat /\ cursor > Len(draining)
        BY DEF Inv, TypeOK, LossInv
    <2> QED BY <2>1 DEF WaitsAt
<1>4. runs[h] \in Nat /\ runs[h] <= 1
    BY DEF Inv, TypeOK, RunInv
<1> QED BY <1>2, <1>3, <1>4 DEF LossInv

\* For any number of concurrent Close and OnClose calls no callback is lost
\* between the queue and the goroutine that drains it.
THEOREM LifetimeLosesNoHook == Spec => []NoHookLost
<1>1. Init => Inv /\ LossInv
    BY InitInv, LossStart
<1>2. (Inv /\ LossInv) /\ [Next]_vars => (Inv /\ LossInv)'
    BY StepInv, LossStep
<1>3. Inv /\ LossInv => NoHookLost
    BY LossRest
<1> QED BY <1>1, <1>2, <1>3, PTL DEF Spec

-----------------------------------------------------------------------------
\* Every step of Lifetime is a step of the ownership contract or leaves the
\* contract's variables alone.
LEMMA StepContract == Inv /\ Inv' /\ [Next]_vars => [Contract!OwnNext]_(Contract!ownVars)
<1> SUFFICES ASSUME Inv, Inv', [Next]_vars
             PROVE [Contract!OwnNext]_(Contract!ownVars)
    OBVIOUS
<1> USE DEF Inv, Contract!ownVars
<1>1. ASSUME NEW c \in Closers, Enter(c) PROVE Contract!StartRelease
    BY <1>1 DEF Enter, hookVars, TypeOK, PhaseInv, Contract!StartRelease
<1>2. ASSUME NEW c \in Closers, Follow(c) PROVE UNCHANGED Contract!ownVars
    BY <1>2 DEF Follow, hookVars
<1>3. ASSUME NEW c \in Closers, Cleanup(c) PROVE UNCHANGED Contract!ownVars
    BY <1>3 DEF Cleanup, hookVars
<1>4. ASSUME NEW c \in Closers, Mark(c) PROVE Contract!EndRelease
    BY <1>4 DEF Mark, hookVars, TypeOK, OnceInv, PhaseInv, Inside, Contract!EndRelease
<1>5. ASSUME NEW c \in Closers, RunHook(c) \/ HookPanics(c)
      PROVE Contract!Run(draining[cursor])
    BY <1>5 DEF RunHook, HookPanics, TypeOK, PhaseInv, DrainInv, Contract!Run
<1>6. ASSUME NEW c \in Closers, RunHook(c) \/ HookPanics(c) PROVE draining[cursor] \in Hooks
    BY <1>6 DEF RunHook, HookPanics, TypeOK
<1>7. ASSUME NEW c \in Closers, Leave(c) PROVE UNCHANGED Contract!ownVars
    BY <1>7 DEF Leave, hookVars, PhaseInv
<1>8. ASSUME NEW h \in Hooks, OnClose(h) PROVE Contract!Attach(h)
    <2>1. {x \in Hooks : hpc'[x] # "idle"} = {x \in Hooks : hpc[x] # "idle"} \union {h}
        BY <1>8 DEF OnClose, TypeOK
    <2> QED
        BY <1>8, <2>1 DEF OnClose, Contract!Attach
<1>9. ASSUME NEW h \in Hooks, RunInline(h) PROVE Contract!Run(h)
    <2>1. {x \in Hooks : hpc'[x] # "idle"} = {x \in Hooks : hpc[x] # "idle"}
        BY <1>9 DEF RunInline, TypeOK
    <2>2. closed /\ runs[h] = 0 /\ hpc[h] # "idle"
        BY <1>9 DEF RunInline, RunInv
    <2> QED
        BY <1>9, <2>1, <2>2 DEF RunInline, Contract!Run, TypeOK
<1>10. CASE UNCHANGED vars
    BY <1>10 DEF vars
<1> QED
    BY <1>1, <1>2, <1>3, <1>4, <1>5, <1>6, <1>7, <1>8, <1>9, <1>10
    DEF Next, CloserStep, HookStep, Contract!OwnNext

\* Lifetime, with its mutex, sync.Once and two slices, implements the one-owner
\* contract of module Ownership for any set of closers and callbacks.
THEOREM LifetimeImplementsOwnership == Spec => ImplementsOwnership
<1>1. Init => Contract!OwnInit
    BY DEF Init, Contract!OwnInit
<1> QED
    BY <1>1, SpecInv, StepContract, PTL DEF Spec, ImplementsOwnership, Contract!OwnSpec

-----------------------------------------------------------------------------
(* Bulkhead *)

\* The calls that a permit belongs to.
Holders == InHandler \union hook

\* A call hands its permit to the hook only when it has left the handler.
HookInv == \A c \in hook : pc[c] = "returned"

BulkheadInv == BulkheadTypeOK /\ HookInv /\ PermitsConserved

\* The three things a step can do to the channel and to the set of holders.
Same == UNCHANGED sema /\ Holders' = Holders
Taken(c) == c \notin Holders /\ sema' = sema + 1 /\ Holders' = Holders \union {c}
Returned(c) == c \in Holders /\ sema > 0 /\ sema' = sema - 1 /\ Holders' = Holders \ {c}

LEMMA HoldersFinite == BulkheadTypeOK => Holders \subseteq Calls /\ IsFiniteSet(Holders)
<1> SUFFICES ASSUME BulkheadTypeOK PROVE Holders \subseteq Calls /\ IsFiniteSet(Holders)
    OBVIOUS
<1>1. Holders \subseteq Calls
    BY DEF Holders, InHandler, BulkheadTypeOK
<1> QED BY <1>1, FS_Subset, BulkheadAssumption

LEMMA CountSame == ASSUME BulkheadInv, Same PROVE PermitsConserved'
BY DEF BulkheadInv, Same, PermitsConserved, Holders

LEMMA CountTaken == ASSUME BulkheadInv, NEW c \in Calls, Taken(c) PROVE PermitsConserved'
<1>1. IsFiniteSet(Holders)
    BY HoldersFinite DEF BulkheadInv
<1>2. Cardinality(Holders \union {c}) = Cardinality(Holders) + 1
    BY <1>1, FS_AddElement DEF Taken
<1> QED BY <1>2 DEF BulkheadInv, Taken, PermitsConserved, Holders

LEMMA CountReturned == ASSUME BulkheadInv, NEW c \in Calls, Returned(c) PROVE PermitsConserved'
<1>1. IsFiniteSet(Holders)
    BY HoldersFinite DEF BulkheadInv
<1>2. Cardinality(Holders \ {c}) = Cardinality(Holders) - 1
    BY <1>1, FS_RemoveElement DEF Returned
<1> QED BY <1>2 DEF BulkheadInv, Returned, PermitsConserved, Holders

-----------------------------------------------------------------------------
LEMMA BulkheadInitInv == BulkheadInit => BulkheadInv
<1> SUFFICES ASSUME BulkheadInit PROVE BulkheadInv
    OBVIOUS
<1>1. BulkheadTypeOK
    BY BulkheadAssumption DEF BulkheadInit, BulkheadTypeOK
<1>2. HookInv
    BY DEF BulkheadInit, HookInv
<1>3. InHandler \union hook = {}
    BY DEF BulkheadInit, InHandler
<1> QED
    BY <1>1, <1>2, <1>3, FS_EmptySet DEF BulkheadInit, BulkheadInv, PermitsConserved

LEMMA BulkheadStepTypeOK == BulkheadInv /\ [BulkheadNext]_bulkheadVars => BulkheadTypeOK' /\ HookInv'
<1> SUFFICES ASSUME BulkheadInv, [BulkheadNext]_bulkheadVars PROVE BulkheadTypeOK' /\ HookInv'
    OBVIOUS
<1> USE BulkheadAssumption DEF BulkheadInv, BulkheadTypeOK, HookInv, Final, Goto, Receive
<1>1. ASSUME NEW c \in Calls, Call(c) \/ Done(c) \/ Full(c) \/ Start(c) PROVE BulkheadTypeOK' /\ HookInv'
    BY <1>1 DEF Call, Done, Full, Start
<1>2. ASSUME NEW c \in Calls, Acquire(c) PROVE BulkheadTypeOK' /\ HookInv'
    BY <1>2 DEF Acquire
<1>3. ASSUME NEW c \in Calls, GiveUp(c) \/ ReturnValue(c) \/ Panic(c) PROVE BulkheadTypeOK' /\ HookInv'
    BY <1>3 DEF GiveUp, ReturnValue, Panic
<1>4. ASSUME NEW c \in Calls, ReturnOwned(c) PROVE BulkheadTypeOK' /\ HookInv'
    BY <1>4 DEF ReturnOwned
<1>5. ASSUME NEW c \in Calls, Transfer(c) PROVE BulkheadTypeOK' /\ HookInv'
    BY <1>5 DEF Transfer
<1>6. ASSUME NEW c \in Calls, Release(c) PROVE BulkheadTypeOK' /\ HookInv'
    BY <1>6 DEF Release
<1>7. ASSUME NEW c \in Calls, Cancel(c) PROVE BulkheadTypeOK' /\ HookInv'
    BY <1>7 DEF Cancel
<1>8. ASSUME NEW l \in Lives, Close(l) PROVE BulkheadTypeOK' /\ HookInv'
    BY <1>8 DEF Close
<1>9. CASE UNCHANGED bulkheadVars
    BY <1>9 DEF bulkheadVars
<1> QED
    BY <1>1, <1>2, <1>3, <1>4, <1>5, <1>6, <1>7, <1>8, <1>9 DEF BulkheadNext, CallStep

LEMMA StepPermits == BulkheadInv /\ [BulkheadNext]_bulkheadVars => PermitsConserved'
<1> SUFFICES ASSUME BulkheadInv, [BulkheadNext]_bulkheadVars PROVE PermitsConserved'
    OBVIOUS
<1> USE DEF Holders, InHandler, Goto
<1>1. ASSUME NEW c \in Calls, Call(c) \/ Done(c) \/ Full(c) \/ Start(c) PROVE Same
    BY <1>1 DEF Call, Done, Full, Start, Same, BulkheadInv, BulkheadTypeOK
<1>2. ASSUME NEW c \in Calls, Acquire(c) PROVE Taken(c)
    BY <1>2 DEF Acquire, Taken, BulkheadInv, BulkheadTypeOK, HookInv
<1>3. ASSUME NEW c \in Calls, GiveUp(c) \/ ReturnValue(c) \/ Panic(c) PROVE Returned(c)
    BY <1>3 DEF GiveUp, ReturnValue, Panic, Receive, Returned, BulkheadInv, BulkheadTypeOK, HookInv
<1>4. ASSUME NEW c \in Calls, ReturnOwned(c) \/ Cancel(c) PROVE Same
    BY <1>4 DEF ReturnOwned, Cancel, Same, BulkheadInv, BulkheadTypeOK
<1>5. ASSUME NEW c \in Calls, Transfer(c) PROVE Same
    BY <1>5 DEF Transfer, Same, BulkheadInv, BulkheadTypeOK
<1>6. ASSUME NEW c \in Calls, Release(c) PROVE Returned(c)
    BY <1>6 DEF Release, Receive, Returned, BulkheadInv, BulkheadTypeOK, HookInv
<1>7. ASSUME NEW l \in Lives, Close(l) PROVE Same
    BY <1>7 DEF Close, Same
<1>8. ASSUME UNCHANGED bulkheadVars PROVE Same
    BY <1>8 DEF bulkheadVars, Same
<1>9. Same \/ \E c \in Calls : Taken(c) \/ Returned(c)
    BY <1>1, <1>2, <1>3, <1>4, <1>5, <1>6, <1>7, <1>8 DEF BulkheadNext, CallStep
<1> QED
    BY <1>9, CountSame, CountTaken, CountReturned

LEMMA BulkheadSpecInv == BulkheadSpec => []BulkheadInv
<1>1. BulkheadInv /\ [BulkheadNext]_bulkheadVars => BulkheadInv'
    BY BulkheadStepTypeOK, StepPermits DEF BulkheadInv
<1> QED BY <1>1, BulkheadInitInv, PTL DEF BulkheadSpec

\* Type correctness of the model of bulkhead.go; the semaphore stays in 0..Limit.
THEOREM BulkheadTypeCorrect == BulkheadSpec => []BulkheadTypeOK
<1>1. BulkheadInv => BulkheadTypeOK
    BY DEF BulkheadInv
<1> QED BY <1>1, BulkheadSpecInv, PTL

\* For any number of calls, shared lifetimes and any limit, the channel holds
\* exactly one element per call in the handler or attached, unreleased hook.
THEOREM BulkheadConservesPermits == BulkheadSpec => []PermitsConserved
<1>1. BulkheadInv => PermitsConserved
    BY DEF BulkheadInv
<1> QED BY <1>1, BulkheadSpecInv, PTL

=============================================================================
