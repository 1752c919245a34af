------------------------------ MODULE Lifetime ------------------------------
(***************************************************************************)
(* routery.Lifetime (lifetime.go): one owned resource, closed by several   *)
(* goroutines through sync.Once while others attach callbacks with         *)
(* OnClose.  Every critical section of life.mu is one step; the cleanup    *)
(* and every hook are steps of their own, taken outside the mutex.         *)
(*                                                                         *)
(* A nil Lifetime and a nil callback return at once and touch no state, so *)
(* they have no action.                                                    *)
(***************************************************************************)
EXTENDS Naturals, Sequences

CONSTANTS
    Closers,        \* goroutines that call Close
    Hooks,          \* callbacks, each attached by one goroutine calling OnClose
    PanickyHooks,   \* the callbacks that may panic
    CleanupResults  \* what the cleanup may do: "ok", "error", "panic"

ASSUME LifetimeAssumption ==
    /\ PanickyHooks \subseteq Hooks
    /\ CleanupResults \subseteq {"ok", "error", "panic"}

VARIABLES
    once,           \* sync.Once: "idle", "running" or "done"
    closed,         \* life.closed
    hooks,          \* life.hooks
    draining,       \* the local copy of the hooks the closer is running
    cursor,         \* position of the next hook of draining
    closeErr,       \* life.closeErr: "nil" or "error"
    cpc,            \* where each closer is
    ret,            \* what each Close returned
    hpc,            \* where each OnClose call is
    runs,           \* how often each hook ran
    cleanups,       \* how often the cleanup completed
    panicked        \* "no", "cleanup" or "hook": what the closer is unwinding

vars == <<once, closed, hooks, draining, cursor, closeErr, cpc, ret, hpc,
          runs, cleanups, panicked>>
hookVars == <<hpc, runs>>

Inside == {"cleanup", "mark", "drain"}

TypeOK ==
    /\ once \in {"idle", "running", "done"}
    /\ closed \in BOOLEAN
    /\ hooks \in Seq(Hooks)
    /\ draining \in Seq(Hooks)
    /\ cursor \in Nat \ {0}
    /\ closeErr \in {"nil", "error"}
    /\ cpc \in [Closers -> {"idle", "returned", "unwound"} \union Inside]
    /\ ret \in [Closers -> {"none", "nil", "error"}]
    /\ hpc \in [Hooks -> {"idle", "queued", "inline", "ran"}]
    /\ runs \in [Hooks -> Nat]
    /\ cleanups \in Nat
    /\ panicked \in {"no", "cleanup", "hook"}

Init ==
    /\ once = "idle"
    /\ closed = FALSE
    /\ hooks = <<>>
    /\ draining = <<>>
    /\ cursor = 1
    /\ closeErr = "nil"
    /\ cpc = [c \in Closers |-> "idle"]
    /\ ret = [c \in Closers |-> "none"]
    /\ hpc = [h \in Hooks |-> "idle"]
    /\ runs = [h \in Hooks |-> 0]
    /\ cleanups = 0
    /\ panicked = "no"

-----------------------------------------------------------------------------
\* Fault: closed is set before the cleanup runs instead of after it.
EnterMarksClosed(c) ==
    /\ cpc[c] = "idle"
    /\ once = "idle"
    /\ once' = "running"
    /\ closed' = TRUE
    /\ cpc' = [cpc EXCEPT ![c] = "cleanup"]
    /\ UNCHANGED <<hooks, draining, cursor, closeErr, ret, hookVars,
                   cleanups, panicked>>

\* Close, first caller: once.Do admits it and it runs the cleanup.
Enter(c) ==
    /\ cpc[c] = "idle"
    /\ once = "idle"
    /\ once' = "running"
    /\ cpc' = [cpc EXCEPT ![c] = "cleanup"]
    /\ UNCHANGED <<closed, hooks, draining, cursor, closeErr, ret, hookVars,
                   cleanups, panicked>>

\* Close, any other caller: once.Do blocks while the first one is running
\* (the step is disabled) and then returns the stored error.
Follow(c) ==
    /\ cpc[c] = "idle"
    /\ once = "done"
    /\ cpc' = [cpc EXCEPT ![c] = "returned"]
    /\ ret' = [ret EXCEPT ![c] = closeErr]
    /\ UNCHANGED <<once, closed, hooks, draining, cursor, closeErr, hookVars,
                   cleanups, panicked>>

\* life.closeErr = life.cleanup(): a panic leaves closeErr untouched and runs
\* the deferred function while unwinding.
Cleanup(c) ==
    /\ cpc[c] = "cleanup"
    /\ \E r \in CleanupResults :
        /\ closeErr' = IF r = "error" THEN "error" ELSE closeErr
        /\ panicked' = IF r = "panic" THEN "cleanup" ELSE panicked
    /\ cleanups' = cleanups + 1
    /\ cpc' = [cpc EXCEPT ![c] = "mark"]
    /\ UNCHANGED <<once, closed, hooks, draining, cursor, ret, hookVars>>

\* The deferred critical section: mark closed and take the queued hooks.
Mark(c) ==
    /\ cpc[c] = "mark"
    /\ closed' = TRUE
    /\ draining' = hooks
    /\ cursor' = 1
    /\ hooks' = <<>>
    /\ cpc' = [cpc EXCEPT ![c] = "drain"]
    /\ UNCHANGED <<once, closeErr, ret, hookVars, cleanups, panicked>>

\* One iteration of "for _, fn := range hooks { fn() }".
RunHook(c) ==
    /\ cpc[c] = "drain"
    /\ cursor <= Len(draining)
    /\ runs' = [runs EXCEPT ![draining[cursor]] = @ + 1]
    /\ cursor' = cursor + 1
    /\ UNCHANGED <<once, closed, hooks, draining, closeErr, cpc, ret, hpc,
                   cleanups, panicked>>

\* A hook panics: it counts as run, the rest of the loop is skipped.
HookPanics(c) ==
    /\ cpc[c] = "drain"
    /\ cursor <= Len(draining)
    /\ draining[cursor] \in PanickyHooks
    /\ runs' = [runs EXCEPT ![draining[cursor]] = @ + 1]
    /\ cursor' = Len(draining) + 1
    /\ panicked' = "hook"
    /\ UNCHANGED <<once, closed, hooks, draining, closeErr, cpc, ret, hpc,
                   cleanups>>

\* once.Do is over: the first caller returns closeErr, or keeps unwinding.
Leave(c) ==
    /\ cpc[c] = "drain"
    /\ cursor > Len(draining)
    /\ once' = "done"
    /\ cpc' = [cpc EXCEPT ![c] = IF panicked = "no" THEN "returned" ELSE "unwound"]
    /\ ret' = [ret EXCEPT ![c] = IF panicked = "no" THEN closeErr ELSE "none"]
    /\ UNCHANGED <<closed, hooks, draining, cursor, closeErr, hookVars,
                   cleanups, panicked>>

\* Fault: the hook is queued without looking at closed.
OnCloseAlwaysQueues(h) ==
    /\ hpc[h] = "idle"
    /\ hooks' = Append(hooks, h)
    /\ hpc' = [hpc EXCEPT ![h] = "queued"]
    /\ UNCHANGED <<once, closed, draining, cursor, closeErr, cpc, ret, runs,
                   cleanups, panicked>>

\* OnClose: queue the hook, or find the lifetime closed and run it inline.
OnClose(h) ==
    /\ hpc[h] = "idle"
    /\ hooks' = IF closed THEN hooks ELSE Append(hooks, h)
    /\ hpc' = [hpc EXCEPT ![h] = IF closed THEN "inline" ELSE "queued"]
    /\ UNCHANGED <<once, closed, draining, cursor, closeErr, cpc, ret, runs,
                   cleanups, panicked>>

\* OnClose after close: fn() in the caller's goroutine, outside the mutex.
RunInline(h) ==
    /\ hpc[h] = "inline"
    /\ runs' = [runs EXCEPT ![h] = @ + 1]
    /\ hpc' = [hpc EXCEPT ![h] = "ran"]
    /\ UNCHANGED <<once, closed, hooks, draining, cursor, closeErr, cpc, ret,
                   cleanups, panicked>>

-----------------------------------------------------------------------------
CloserStep(c) ==
    \/ Enter(c)
    \/ Follow(c)
    \/ Cleanup(c)
    \/ Mark(c)
    \/ RunHook(c)
    \/ HookPanics(c)
    \/ Leave(c)

HookStep(h) == OnClose(h) \/ RunInline(h)

Next == (\E c \in Closers : CloserStep(c)) \/ (\E h \in Hooks : HookStep(h))

Spec == Init /\ [][Next]_vars

\* A goroutine that has entered Close or OnClose is scheduled until it is done;
\* nobody is obliged to call either.
Fairness ==
    /\ \A c \in Closers : WF_vars(Cleanup(c) \/ Mark(c) \/ RunHook(c) \/ Leave(c))
    /\ \A h \in Hooks : WF_vars(RunInline(h))

FairSpec == Spec /\ Fairness

-----------------------------------------------------------------------------
(* Safety *)

\* No callback runs twice, whatever the interleaving of concurrent Close and
\* OnClose calls (a second run would release a permit or settle twice).
HooksRunAtMostOnce == \A h \in Hooks : runs[h] <= 1

\* No callback runs before the resource cleanup is over, also for callbacks
\* attached while the cleanup is running.
HooksRunAfterCleanup == \A h \in Hooks : runs[h] > 0 => cleanups = 1

(* Liveness *)

\* A callback that was attached runs once somebody closes the lifetime,
\* unless a callback panicked before its turn.
AttachedHookRuns ==
    \A h \in Hooks :
        (once # "idle" /\ hpc[h] # "idle") ~> (runs[h] > 0 \/ panicked = "hook")

(* Refinement: the ownership contract the middlewares rely on *)

Contract ==
    INSTANCE Ownership
        WITH phase <- IF closed THEN "released"
                      ELSE IF once = "running" THEN "releasing" ELSE "held",
             attached <- {h \in Hooks : hpc[h] # "idle"}

\* Lifetime implements the ownership contract of module Ownership.
ImplementsOwnership == Contract!OwnSpec

=============================================================================
