------------------------------ MODULE Boundary ------------------------------
(***************************************************************************)
(* execution.Boundary and its Receipt (policy/execution/boundary.go): one  *)
(* physical dispatch with admission, and the settlement of that admission  *)
(* through the host's Finish callback.                                     *)
(*                                                                         *)
(* Processes: the goroutine in Run (Runner), the Lifetime callback of an   *)
(* owned result (Hook), and host goroutines that were given the Receipt by *)
(* Dispatch and call Record or Reconcile (Users).  Receipt.mu is released  *)
(* while Finish runs; Receipt.settling keeps the others out meanwhile.     *)
(* Coordinator.Snapshot and Coordinator.Update are two critical sections   *)
(* of the Coordinator, so a host that calls Coordinator.Update itself      *)
(* (DirectUpdates) can come between them.                                  *)
(***************************************************************************)
EXTENDS AttemptEvent

CONSTANTS
    Runner, Hook,   \* the two processes of the boundary itself
    Users,          \* host goroutines holding the Receipt, one call each
    Nobody,         \* no process
    Nothing, Lost,  \* Finish has not been called; not called for a panic of CleanupContext
    DirectUpdates,  \* whether the host also calls Coordinator.Update
    FinishResults,  \* outcomes of settlement: "ok", "error", "nocontext", "panic", "contextPanic"
    FreshResults    \* outcomes of Fresh: "ok", "stale", "panic" (of any callback before dispatch)

ASSUME BoundaryAssumption ==
    /\ Runner # Hook /\ Runner \notin Users /\ Hook \notin Users
    /\ Nobody \notin Users \union {Runner, Hook}
    /\ Nothing \notin Events /\ Lost \notin Events \union {Nothing}
    /\ DirectUpdates \in BOOLEAN
    /\ FinishResults \subseteq {"ok", "error", "nocontext", "panic", "contextPanic"}
    /\ FreshResults \subseteq {"ok", "stale", "panic"}

Procs == Users \union {Runner, Hook}

VARIABLES
    event,          \* the Coordinator's entry for this identity
    mu,             \* holder of receipt.mu
    settling,       \* the process for which receipt.settling is open
    closed, err,    \* receipt.closed, receipt.err
    finish,         \* receipt.finish # nil
    cancelled,      \* the call's context is done
    rpc,            \* where Run is
    started,        \* result.Started: Dispatch was called
    life,           \* Lifetime of the result: "none", "open", "closed"
    op,             \* the Receipt method each process is in: stage, kind, arg
    told,           \* history: the event Finish was last called with, or Lost
    denied,         \* history: the host itself reported NotExecuted
    direct          \* history: the host wrote to the Coordinator itself

vars == <<event, mu, settling, closed, err, finish, cancelled, rpc, started,
          life, op, told, denied, direct>>
receipt == <<closed, err, finish>>

\* "same" is a Record of facts that are there already.
Kinds == {"none", "record", "same", "reconcile", "closeNot", "close"}
Idle == [stage |-> "idle", kind |-> "none", arg |-> Fresh]
Finished == [stage |-> "finished", kind |-> "none", arg |-> Fresh]
Ops == [stage : {"idle", "waiting", "locked", "settling", "finished"}, kind : Kinds, arg : Events]

RunDone == {"refused", "returned", "unwound", "abandoned"}

TypeOK ==
    /\ event \in Events
    /\ mu \in Procs \union {Nobody}
    /\ settling \in Procs \union {Nobody}
    /\ closed \in BOOLEAN
    /\ err \in {"nil", "error", "invalid"}
    /\ finish \in BOOLEAN
    /\ cancelled \in BOOLEAN
    /\ rpc \in {"idle", "prepare", "admitted", "start", "starting", "dispatch",
                "closing", "panicking"} \union RunDone
    /\ started \in BOOLEAN
    /\ life \in {"none", "open", "closed"}
    /\ op \in [Procs -> Ops]
    /\ told \in Events \union {Nothing, Lost}
    /\ denied \in BOOLEAN
    /\ direct \in BOOLEAN

Init ==
    /\ event = Fresh
    /\ mu = Nobody
    /\ settling = Nobody
    /\ closed = FALSE
    /\ err = "nil"
    /\ finish = FALSE
    /\ cancelled = FALSE
    /\ rpc = "idle"
    /\ started = FALSE
    /\ life = "none"
    /\ op = [p \in Procs |-> Idle]
    /\ told = Nothing
    /\ denied = FALSE
    /\ direct = FALSE

-----------------------------------------------------------------------------
(* Receipt methods *)

Call(p, kind, arg) == op' = [op EXCEPT ![p] = [stage |-> "waiting", kind |-> kind, arg |-> arg]]

\* lock(), followed by the Coordinator.Snapshot each method starts with.
\* Record keeps its argument and whether it differs from the snapshot; the other
\* methods work on the snapshot.
Lock(p) ==
    /\ op[p].stage = "waiting"
    /\ mu = Nobody
    /\ settling = Nobody
    /\ mu' = p
    /\ op' = [op EXCEPT ![p] =
                [stage |-> "locked",
                 kind |-> IF op[p].kind = "record" /\ op[p].arg = event THEN "same" ELSE op[p].kind,
                 arg |-> IF op[p].kind = "record" THEN op[p].arg ELSE event]]
    /\ UNCHANGED <<event, settling, receipt, cancelled, rpc, started, life, told, denied, direct>>

\* Where a method of p returns to.  Only Run continues: a failed start becomes
\* close(true), everything else ends Run.
Resume(p, ok) ==
    IF p # Runner
    THEN UNCHANGED <<rpc, started>> /\ op' = [op EXCEPT ![p] = Finished]
    ELSE IF rpc = "starting" /\ ~ok
    THEN rpc' = "closing" /\ UNCHANGED started /\ Call(p, "closeNot", Fresh)
    ELSE /\ rpc' = CASE rpc = "starting" -> "dispatch"
                     [] rpc = "panicking" -> "unwound"
                     [] OTHER -> "returned"
         /\ started' = (started \/ rpc = "starting")
         /\ op' = [op EXCEPT ![p] = Idle]

\* The method ends without a settlement and unlocks.
Leave(p, ok) ==
    /\ mu' = Nobody
    /\ Resume(p, ok)
    /\ UNCHANGED settling

\* settle(e): nothing to do without Finish, else open settling and unlock.
Settle(p, e) ==
    IF ~finish THEN Leave(p, TRUE)
    ELSE /\ mu' = Nobody
         /\ settling' = p
         /\ op' = [op EXCEPT ![p] = [stage |-> "settling", kind |-> op[p].kind, arg |-> e]]
         /\ UNCHANGED <<rpc, started>>

\* Fault: only a change of outcome settles again.
RecordOutcomeOnly(p) ==
    /\ op[p].stage = "locked" /\ op[p].kind \in {"record", "same"}
    /\ LET e == op[p].arg
       IN IF ~Follows(event, e) THEN UNCHANGED <<event, denied>> /\ Leave(p, FALSE)
          ELSE /\ event' = e
               /\ denied' = (denied \/ e.outcome = "NotExecuted")
               /\ IF closed /\ event.outcome # e.outcome THEN Settle(p, e) ELSE Leave(p, TRUE)
    /\ UNCHANGED <<receipt, cancelled, life, told, direct>>

\* Record: after closing, facts other than those it read first are settled again.
Record(p) ==
    /\ op[p].stage = "locked" /\ op[p].kind \in {"record", "same"}
    /\ LET e == op[p].arg
       IN IF ~Follows(event, e) THEN UNCHANGED <<event, denied>> /\ Leave(p, FALSE)
          ELSE /\ event' = e
               /\ denied' = (denied \/ e.outcome = "NotExecuted")
               /\ IF closed /\ op[p].kind # "same" THEN Settle(p, e) ELSE Leave(p, TRUE)
    /\ UNCHANGED <<receipt, cancelled, life, told, direct>>

\* Reconcile: repeat the settlement of the current facts.
Reconcile(p) ==
    /\ op[p].stage = "locked" /\ op[p].kind = "reconcile"
    /\ IF closed THEN Settle(p, op[p].arg) ELSE Leave(p, FALSE)
    /\ UNCHANGED <<event, receipt, cancelled, life, told, denied, direct>>

\* Fault: closing settles the facts as they were read.
ClosedEventUnchanged(e, kind) == e

\* The facts with which close ends the attempt.
ClosedEvent(e, kind) ==
    [e EXCEPT !.phase = Terminal, !.outcome = IF kind = "closeNot" THEN "NotExecuted" ELSE @]

\* close: the first one makes the attempt terminal and settles.  It gives up
\* when the Coordinator refuses the update.
Close(p) ==
    /\ op[p].stage = "locked" /\ op[p].kind \in {"close", "closeNot"}
    /\ LET e == ClosedEvent(op[p].arg, op[p].kind)
       IN IF closed \/ ~Follows(event, e)
          THEN UNCHANGED <<event, closed>> /\ Leave(p, FALSE)
          ELSE event' = e /\ closed' = TRUE /\ Settle(p, e)
    /\ UNCHANGED <<err, finish, cancelled, life, told, denied, direct>>

\* Fault: a panic of Finish leaves settling open.
SettledKeepsWaiters(p) ==
    /\ op[p].stage = "settling" /\ mu = Nobody
    /\ \E r \in FinishResults :
        /\ settling' = IF r \in {"panic", "contextPanic"} THEN settling ELSE Nobody
        /\ told' = CASE r = "nocontext" -> told [] r = "contextPanic" -> Lost [] OTHER -> op[p].arg
        /\ err' = CASE r = "ok" -> "nil" [] r = "error" -> "error"
                    [] r = "nocontext" -> "invalid" [] OTHER -> err
        /\ Resume(p, TRUE)
    /\ UNCHANGED <<event, mu, closed, finish, cancelled, life, denied, direct>>

\* Finish (or the attempt to get a cleanup context) is over.  A panic of either
\* leaves receipt.err alone and unwinds whoever called the method.
Settled(p) ==
    /\ op[p].stage = "settling" /\ mu = Nobody
    /\ settling' = Nobody
    /\ \E r \in FinishResults :
        /\ told' = CASE r = "nocontext" -> told [] r = "contextPanic" -> Lost [] OTHER -> op[p].arg
        /\ err' = CASE r = "ok" -> "nil" [] r = "error" -> "error"
                    [] r = "nocontext" -> "invalid" [] OTHER -> err
        /\ IF r \in {"panic", "contextPanic"} /\ p = Runner
           THEN rpc' = "unwound" /\ UNCHANGED started /\ op' = [op EXCEPT ![p] = Idle]
           ELSE Resume(p, TRUE)
    /\ UNCHANGED <<event, mu, closed, finish, cancelled, life, denied, direct>>

-----------------------------------------------------------------------------
(* Run *)

\* run: a done context, a used identity or an exhausted budget end it before a
\* Receipt exists.
Begin ==
    /\ rpc = "idle"
    /\ rpc' \in (IF cancelled THEN {"refused"} ELSE {"refused", "prepare"})
    /\ UNCHANGED <<event, mu, settling, receipt, cancelled, started, life, op, told, denied, direct>>

\* Fault: an error of Admit ends Run without closing the Receipt.
PrepareDropsFinish ==
    /\ rpc = "prepare"
    /\ \/ /\ "stale" \in FreshResults \/ cancelled
          /\ finish' = FALSE
          /\ rpc' = "closing" /\ Call(Runner, "closeNot", Fresh)
       \/ /\ "ok" \in FreshResults /\ ~cancelled
          /\ \E status \in {"failed", "Admitted"}, f \in BOOLEAN :
                /\ finish' = f
                /\ rpc' = IF status = "Admitted" /\ f THEN "admitted" ELSE "returned"
                /\ UNCHANGED op
    /\ UNCHANGED <<event, mu, settling, closed, err, cancelled, started, life, told, denied, direct>>

\* prepare: Fresh and the context first; then what Admit returned decides, but
\* its Finish belongs to the Receipt in every case.  A panic of Fresh or Admit
\* unwinds Run with the Receipt open.
Prepare ==
    /\ rpc = "prepare"
    /\ \/ /\ "stale" \in FreshResults \/ cancelled
          /\ finish' = FALSE
          /\ rpc' = "closing" /\ Call(Runner, "closeNot", Fresh)
       \/ /\ "panic" \in FreshResults
          /\ rpc' = "abandoned"
          /\ UNCHANGED <<finish, op>>
       \/ /\ "ok" \in FreshResults /\ ~cancelled
          /\ \E status \in {"failed", "Denied", "Deferred", "Admitted", "Unreserved"}, f \in BOOLEAN :
                /\ finish' = f
                /\ IF status = "Unreserved" \/ (status = "Admitted" /\ f)
                   THEN rpc' = "admitted" /\ UNCHANGED op
                   ELSE rpc' = "closing" /\ Call(Runner, "closeNot", Fresh)
    /\ UNCHANGED <<event, mu, settling, closed, err, cancelled, started, life, told, denied, direct>>

\* invoke: Fresh and the context again, after admission.
Recheck ==
    /\ rpc = "admitted"
    /\ \/ /\ "stale" \in FreshResults \/ cancelled
          /\ rpc' = "closing" /\ Call(Runner, "closeNot", Fresh)
       \/ /\ "panic" \in FreshResults
          /\ rpc' = "abandoned"
          /\ UNCHANGED op
       \/ /\ "ok" \in FreshResults /\ ~cancelled
          /\ rpc' = "start"
          /\ UNCHANGED op
    /\ UNCHANGED <<event, mu, settling, receipt, cancelled, started, life, told, denied, direct>>

\* start without an authorizer: Snapshot, then Record the dispatch.
Start ==
    /\ rpc = "start"
    /\ mu = Nobody /\ settling = Nobody
    /\ rpc' = "starting"
    /\ Call(Runner, "record", [event EXCEPT !.phase = Dispatched])
    /\ UNCHANGED <<event, mu, settling, receipt, cancelled, started, life, told, denied, direct>>

\* start with an authorizer (Sequence, Race): it may dispatch the attempt itself,
\* refuse it, or panic in a callback of the host (Replay, Now).
Authorize ==
    /\ rpc = "start"
    /\ \/ /\ event = Fresh
          /\ event' = [event EXCEPT !.phase = Dispatched]
          /\ rpc' = "dispatch"
          /\ started' = TRUE
          /\ UNCHANGED op
       \/ /\ rpc' = "closing" /\ Call(Runner, "closeNot", Fresh)
          /\ UNCHANGED <<event, started>>
       \/ /\ "panic" \in FreshResults
          /\ rpc' = "abandoned"
          /\ UNCHANGED <<event, started, op>>
    /\ UNCHANGED <<mu, settling, receipt, cancelled, life, told, denied, direct>>

\* Fault: a panic of Dispatch is closed as if nothing had been dispatched.
DispatchPanicsNotExecuted ==
    /\ rpc = "dispatch"
    /\ rpc' = "panicking"
    /\ Call(Runner, "closeNot", Fresh)
    /\ UNCHANGED <<event, mu, settling, receipt, cancelled, started, life, told, denied, direct>>

\* Dispatch panics: the deferred function closes, then the panic goes on.
DispatchPanics ==
    /\ rpc = "dispatch"
    /\ rpc' = "panicking"
    /\ Call(Runner, "close", Fresh)
    /\ UNCHANGED <<event, mu, settling, receipt, cancelled, started, life, told, denied, direct>>

\* Dispatch returns a value, or an owned result that is closed already, whose
\* OnClose runs close at once.
DispatchReturnsValue ==
    /\ rpc = "dispatch"
    /\ rpc' = "closing"
    /\ Call(Runner, "close", Fresh)
    /\ UNCHANGED <<event, mu, settling, receipt, cancelled, started, life, told, denied, direct>>

\* Dispatch returns an owned result: close is left to its Lifetime.
DispatchReturnsOwned ==
    /\ rpc = "dispatch"
    /\ rpc' = "returned"
    /\ life' = "open"
    /\ UNCHANGED <<event, mu, settling, receipt, cancelled, started, op, told, denied, direct>>

\* The owner closes the result; its callback calls close(false).
CloseLifetime ==
    /\ life = "open"
    /\ life' = "closed"
    /\ Call(Hook, "close", Fresh)
    /\ UNCHANGED <<event, mu, settling, receipt, cancelled, rpc, started, told, denied, direct>>

-----------------------------------------------------------------------------
(* The host *)

\* A host goroutine that Dispatch gave the Receipt to.  An event that does not
\* follow the facts at the time of the call would be refused then or later and
\* change nothing.
UserRecords(u, e) ==
    /\ started /\ op[u] = Idle
    /\ Follows(event, e)
    /\ Call(u, "record", e)
    /\ UNCHANGED <<event, mu, settling, receipt, cancelled, rpc, started, life, told, denied, direct>>

UserReconciles(u) ==
    /\ started /\ op[u] = Idle
    /\ Call(u, "reconcile", Fresh)
    /\ UNCHANGED <<event, mu, settling, receipt, cancelled, rpc, started, life, told, denied, direct>>

\* The host reports facts of a dispatched attempt to the Coordinator itself,
\* once (a bound: the event it writes is any later one).
HostUpdates(e) ==
    /\ DirectUpdates /\ started /\ ~direct
    /\ Follows(event, e) /\ e # event
    /\ event' = e
    /\ denied' = (denied \/ e.outcome = "NotExecuted")
    /\ direct' = TRUE
    /\ UNCHANGED <<mu, settling, receipt, cancelled, rpc, started, life, op, told>>

CancelCall ==
    /\ ~cancelled
    /\ cancelled' = TRUE
    /\ UNCHANGED <<event, mu, settling, receipt, rpc, started, life, op, told, denied, direct>>

-----------------------------------------------------------------------------
MethodStep(p) == Lock(p) \/ Record(p) \/ Reconcile(p) \/ Close(p) \/ Settled(p)

RunStep ==
    \/ Begin \/ Prepare \/ Recheck \/ Start \/ Authorize
    \/ DispatchPanics \/ DispatchReturnsValue \/ DispatchReturnsOwned

HostStep ==
    \/ CloseLifetime \/ CancelCall
    \/ \E u \in Users : UserReconciles(u) \/ \E e \in RawEvents : UserRecords(u, e)
    \/ \E e \in RawEvents : HostUpdates(e)

Next == RunStep \/ HostStep \/ \E p \in Procs : MethodStep(p)

Spec == Init /\ [][Next]_vars

\* Callbacks return, goroutines are scheduled and the owner closes the result.
\* Each process makes finitely many Receipt calls, so weak fairness of the
\* mutex is enough.
Fairness ==
    /\ WF_vars(RunStep)
    /\ WF_vars(CloseLifetime)
    /\ \A p \in Procs : WF_vars(MethodStep(p))

FairSpec == Spec /\ Fairness

-----------------------------------------------------------------------------
(* Safety *)

\* Between calls, the facts Finish was last told are the recorded facts: no late
\* event the Receipt accepted stays unsettled, unless the settlement failed
\* visibly for want of a cleanup context or its CleanupContext panicked.  Events the host gave the Coordinator
\* directly are not the Receipt's to settle.
SettledFactsCurrent ==
    (closed /\ finish /\ mu = Nobody /\ settling = Nobody /\ ~direct)
        => (told \in {event, Lost} \/ err = "invalid")

\* "NotExecuted proves local dispatch did not start": it is never recorded for
\* an attempt that was dispatched unless the host itself reported it.
NotExecutedIsProof == started /\ event.outcome = "NotExecuted" => denied

\* When Run returns without an open resource, dispatched or not, the attempt is
\* terminal and its settlement was attempted; only a host that wrote to the
\* Coordinator directly can prevent it.
ReturnedIsFinal ==
    (rpc = "returned" /\ life = "none" /\ ~direct) => closed /\ event.phase = Terminal

(* Liveness *)

\* An admission's Finish is called, or fails visibly, whatever happens to the
\* attempt: denial, stale binding, cancellation, a panic of Dispatch or of an
\* earlier Finish.  Two cases are excepted: a panic of Fresh, Admit or the
\* authorizer before dispatch, and a direct update that comes into close.
AdmissionSettled ==
    finish ~> (told # Nothing \/ err = "invalid" \/ rpc = "abandoned" \/ direct)

\* No Receipt method waits for ever, also after a panic of Finish.
MethodsReturn == \A p \in Procs : (op[p].stage = "waiting") ~> (op[p].stage \in {"idle", "finished"})

=============================================================================
