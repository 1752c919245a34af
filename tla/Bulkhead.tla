------------------------------ MODULE Bulkhead ------------------------------
(***************************************************************************)
(* The Bulkhead middleware (bulkhead.go): a buffered channel used as a     *)
(* semaphore.  A permit is held while the handler runs and, when the       *)
(* result is owned, until its Lifetime is closed.  A Lifetime is used      *)
(* through its contract (module Ownership): a callback attached before     *)
(* the close runs after it, one attached later runs at once; results of    *)
(* several calls may share one Lifetime.                                   *)
(***************************************************************************)
EXTENDS Naturals, FiniteSets

CONSTANTS
    Calls,          \* calls through the middleware, each made once
    Lives,          \* lifetimes the handler may return
    NoLife,         \* a nil Lifetime
    Limit           \* capacity of sema

\* A limit that is not positive turns every call into a configuration error.
ASSUME BulkheadAssumption ==
    /\ IsFiniteSet(Calls)
    /\ Limit \in Nat \ {0}
    /\ NoLife \notin Lives

VARIABLES
    sema,           \* elements in the channel
    cancelled,      \* the calls whose context is done
    pc,             \* where each call is
    life,           \* the Lifetime of each call's result
    hook,           \* calls whose release is attached to life[c] and has not run
    ended           \* lifetimes whose Close has passed the cleanup

bulkheadVars == <<sema, cancelled, pc, life, hook, ended>>

Final == {"refused", "full", "returned", "panicked"}

BulkheadTypeOK ==
    /\ sema \in 0..Limit
    /\ cancelled \subseteq Calls
    /\ pc \in [Calls -> {"idle", "select", "permit", "running", "owned"} \union Final]
    /\ life \in [Calls -> Lives \union {NoLife}]
    /\ hook \subseteq Calls
    /\ ended \subseteq Lives

BulkheadInit ==
    /\ sema = 0
    /\ cancelled = {}
    /\ pc = [c \in Calls |-> "idle"]
    /\ life = [c \in Calls |-> NoLife]
    /\ hook = {}
    /\ ended = {}

Goto(c, l) == pc' = [pc EXCEPT ![c] = l]

\* "<-sema": blocks on an empty channel.
Receive == sema > 0 /\ sema' = sema - 1

-----------------------------------------------------------------------------
\* The first look at the context.
Call(c) ==
    /\ pc[c] = "idle"
    /\ Goto(c, IF c \in cancelled THEN "refused" ELSE "select")
    /\ UNCHANGED <<sema, cancelled, life, hook, ended>>

\* select picks any ready case ...
Acquire(c) ==
    /\ pc[c] = "select"
    /\ sema < Limit
    /\ sema' = sema + 1
    /\ Goto(c, "permit")
    /\ UNCHANGED <<cancelled, life, hook, ended>>

Done(c) ==
    /\ pc[c] = "select"
    /\ c \in cancelled
    /\ Goto(c, "refused")
    /\ UNCHANGED <<sema, cancelled, life, hook, ended>>

\* ... and the default case when none is.
Full(c) ==
    /\ pc[c] = "select"
    /\ sema = Limit
    /\ c \notin cancelled
    /\ Goto(c, "full")
    /\ UNCHANGED <<sema, cancelled, life, hook, ended>>

\* invokeWithPermit looks at the context again before it calls the handler.
Start(c) ==
    /\ pc[c] = "permit"
    /\ c \notin cancelled
    /\ Goto(c, "running")
    /\ UNCHANGED <<sema, cancelled, life, hook, ended>>

\* Fault: the early return of invokeWithPermit keeps the permit.
GiveUpLeaks(c) ==
    /\ pc[c] = "permit"
    /\ c \in cancelled
    /\ Goto(c, "refused")
    /\ UNCHANGED <<sema, cancelled, life, hook, ended>>

GiveUp(c) ==
    /\ pc[c] = "permit"
    /\ c \in cancelled
    /\ Receive
    /\ Goto(c, "refused")
    /\ UNCHANGED <<cancelled, life, hook, ended>>

\* The handler returns a value or an error without a Lifetime: the deferred
\* function gives the permit back.
ReturnValue(c) ==
    /\ pc[c] = "running"
    /\ Receive
    /\ Goto(c, "returned")
    /\ UNCHANGED <<cancelled, life, hook, ended>>

Panic(c) ==
    /\ pc[c] = "running"
    /\ Receive
    /\ Goto(c, "panicked")
    /\ UNCHANGED <<cancelled, life, hook, ended>>

\* The handler returns an owned result, alone or with an error.
ReturnOwned(c) ==
    /\ pc[c] = "running"
    /\ \E l \in Lives : life' = [life EXCEPT ![c] = l]
    /\ Goto(c, "owned")
    /\ UNCHANGED <<sema, cancelled, hook, ended>>

\* Fault: the deferred function releases although the permit was transferred.
TransferAndRelease(c) ==
    /\ pc[c] = "owned"
    /\ Receive
    /\ hook' = hook \union {c}
    /\ Goto(c, "returned")
    /\ UNCHANGED <<cancelled, life, ended>>

\* result.Lifetime.OnClose(release); the hook of a closed Lifetime is due at
\* once, in the caller's goroutine.
Transfer(c) ==
    /\ pc[c] = "owned"
    /\ hook' = hook \union {c}
    /\ Goto(c, "returned")
    /\ UNCHANGED <<sema, cancelled, life, ended>>

\* The owner closes a Lifetime some call has produced.
Close(l) ==
    /\ l \notin ended
    /\ \E c \in Calls : life[c] = l
    /\ ended' = ended \union {l}
    /\ UNCHANGED <<sema, cancelled, pc, life, hook>>

\* The attached hook runs, once, after the resource is released.
Release(c) ==
    /\ c \in hook
    /\ life[c] \in ended
    /\ Receive
    /\ hook' = hook \ {c}
    /\ UNCHANGED <<cancelled, pc, life, ended>>

Cancel(c) ==
    /\ c \notin cancelled
    /\ cancelled' = cancelled \union {c}
    /\ UNCHANGED <<sema, pc, life, hook, ended>>

-----------------------------------------------------------------------------
CallStep(c) ==
    \/ Call(c) \/ Acquire(c) \/ Done(c) \/ Full(c)
    \/ Start(c) \/ GiveUp(c)
    \/ ReturnValue(c) \/ Panic(c) \/ ReturnOwned(c) \/ Transfer(c)
    \/ Release(c) \/ Cancel(c)

BulkheadNext == (\E c \in Calls : CallStep(c)) \/ (\E l \in Lives : Close(l))

BulkheadSpec == BulkheadInit /\ [][BulkheadNext]_bulkheadVars

\* Handlers end, goroutines are scheduled, and the caller closes owned results, as
\* docs/execution-contracts.md demands; nobody is obliged to call or to cancel.
BulkheadFairness ==
    /\ \A c \in Calls :
        /\ WF_bulkheadVars(Acquire(c) \/ Done(c) \/ Full(c))
        /\ WF_bulkheadVars(Start(c) \/ GiveUp(c))
        /\ WF_bulkheadVars(ReturnValue(c) \/ Panic(c) \/ ReturnOwned(c))
        /\ WF_bulkheadVars(Transfer(c))
        /\ WF_bulkheadVars(Release(c))
    /\ \A l \in Lives : WF_bulkheadVars(Close(l))

BulkheadFairSpec == BulkheadSpec /\ BulkheadFairness

-----------------------------------------------------------------------------
(* Safety *)

InHandler == {c \in Calls : pc[c] \in {"permit", "running", "owned"}}

\* Every element in the channel belongs to a call inside invokeWithPermit or to
\* an attached hook that has not run: no permit is lost or returned twice, and
\* "<-sema" never blocks the goroutine that runs it.
PermitsConserved == sema = Cardinality(InHandler \union hook)

(* Liveness *)

\* Once callers stop, the bulkhead drains: every permit comes back.
PermitReturns == \A c \in Calls : (c \in InHandler) ~> (c \notin InHandler \union hook)

=============================================================================
