------------------------------ MODULE Sequence ------------------------------
(***************************************************************************)
(* execution.Sequence (policy/execution/sequence.go): one goroutine that   *)
(* runs attempts of an operation through Boundary until a repeat is not    *)
(* permitted, on a Coordinator that hosts keep updating.  Boundary.run is  *)
(* two steps here (preflight and dispatch; Boundary has the details), and  *)
(* each callback of the host that may block or take time ends a step.      *)
(***************************************************************************)
EXTENDS Coordinator, Sequences

CONSTANTS
    Run,            \* the goroutine of Sequence.Run, one of the authorizers
    First,          \* the identity of the initial step
    NoAttempt,      \* previous = nil
    Deadlines,      \* deadlines the host gives, Sequence.Deadline the latest
    Backoffs,       \* delays ScheduleInput may ask for
    MaxTime,        \* bound on the clock
    MaxSettlements  \* bound on late settlements by hosts

ASSUME SequenceAssumption ==
    /\ Run \in Authorizers /\ First \in Attempts /\ NoAttempt \notin Attempts
    /\ Deadlines \subseteq Nat /\ Backoffs \subseteq Nat
    /\ \E d \in Deadlines : \A e \in Deadlines : e <= d
    /\ MaxTime \in Nat /\ MaxSettlements \in Nat

VARIABLES
    run,            \* the locals of Run, see SeqInit (read: of close, Fresh out of its scope)
    trace,          \* result.Trace, the identities in order
    now,            \* sequence.Now
    owned,          \* attempts whose returned Lifetime is open
    closed,         \* attempts whose Receipt is closed
    failed,         \* attempts whose Receipt has a settlement error
    settling,       \* who holds each Receipt's settling channel
    settlements,    \* late settlements so far
    crossed         \* history: attempts a host updated directly inside the close
                    \* by a callback, see HostUpdates

localVars == <<run, trace, owned>>
receiptVars == <<closed, failed, settling>>
seqVars == <<vars, localVars, receiptVars, now, settlements, crossed>>

Stop(reason) == [action |-> "Stop", reason |-> reason]
isRepeat(d) == d.action \in {"Retry", "Fallback"}
latest == CHOOSE d \in Deadlines : \A e \in Deadlines : e <= d

SeqInit ==
    /\ Init
    /\ run = [pc |-> "check", step |-> First, prev |-> NoAttempt, seen |-> Fresh,
              read |-> Fresh, decision |-> Stop("None"), notBefore |-> 0, deadline |-> latest]
    /\ trace = <<>> /\ now = 0 /\ owned = {}
    /\ closed = {} /\ failed = {} /\ settling = [a \in Attempts |-> "nobody"]
    /\ settlements = 0 /\ crossed = {}

-----------------------------------------------------------------------------
\* checkStart, without the bound of notBefore.
Alive == Run \notin cancelled /\ now < run.deadline

\* stopDecision for the error with which a start was refused.
stopDecision == Stop(IF Run \in cancelled THEN "Cancelled"
                     ELSE IF now >= run.deadline THEN "DeadlineExhausted" ELSE "NotRetryable")

\* Run returns with d.
Return(d) == run' = [run EXCEPT !.pc = "done", !.decision = d]

\* The event Receipt.close makes of the facts it has read.
closing(read, notExecuted) ==
    [phase |-> Terminal, committed |-> read.committed,
     outcome |-> IF notExecuted THEN "NotExecuted" ELSE read.outcome]

\* Receipt.close after its Snapshot: the Coordinator refuses facts older than its
\* own, and then the Receipt stays open and Finish is not called; otherwise
\* Finish leaves the settlement error e (Boundary has its steps).
CloseReceipt(a, read, notExecuted, e) ==
    LET end == closing(read, notExecuted)
    IN IF a \in closed \/ ~Follows(events[a], end) THEN UNCHANGED <<events, closed, failed>>
       ELSE /\ events' = [events EXCEPT ![a] = end]
            /\ closed' = closed \union {a}
            /\ failed' = IF e THEN failed \union {a} ELSE failed

\* Fault: the decision to repeat survives the attempt that could not start.
preflightDecisionKept(d) == run.decision

\* preflightDecision: a repeat that did not start replaces its own permission.
preflightDecision(d) == IF isRepeat(run.decision) \/ run.prev = NoAttempt THEN d ELSE run.decision

\* run returns without dispatch: the attempt is NotExecuted, in the trace, and
\* Run is over; a settlement error e is an error of run.  No host knows the
\* attempt yet, so nothing comes between the two halves of this close.
NotStarted(d, e) ==
    /\ CloseReceipt(run.step, events[run.step], TRUE, e)
    /\ trace' = Append(trace, run.step)
    /\ Return(preflightDecision(IF e THEN stopDecision ELSE d))
    /\ UNCHANGED <<owned, cancelled>>

-----------------------------------------------------------------------------
\* The top of the loop: a start that is over, an identity that cannot be
\* allocated, or a new attempt.
StartStep ==
    /\ run.pc = "check"
    /\ \/ /\ ~Alive
          /\ Return(stopDecision)
          /\ UNCHANGED <<vars, trace>>
       \/ /\ Alive /\ (run.step \in Allocated \/ Remaining < 1)
          /\ trace' = Append(trace, run.step)
          /\ Return(Stop(IF run.step \in Allocated THEN "NotRetryable" ELSE "BudgetExhausted"))
          /\ UNCHANGED vars
       \/ /\ Alive /\ Begin(run.step)
          /\ run' = [run EXCEPT !.pc = "preflight"]
          /\ UNCHANGED trace
    /\ UNCHANGED <<owned, receiptVars, now, settlements, crossed>>

\* Fresh and Admit.  They refuse for reasons of their own (an error, a denial,
\* a deferral) or because checkStart failed before or after them.
Preflight ==
    /\ run.pc = "preflight"
    /\ \/ \E d \in {stopDecision, Stop("AdmissionDenied"), [action |-> "Defer", reason |-> "AdmissionDeferred"]},
             e \in BOOLEAN :
            /\ NotStarted(d, e)
            /\ UNCHANGED <<view, granted, grants>>
       \/ /\ Alive
          /\ run' = [run EXCEPT !.pc = IF run.prev = NoAttempt THEN "start" ELSE "authorize"]
          /\ UNCHANGED <<vars, trace, owned, closed, failed>>
    /\ UNCHANGED <<settling, now, settlements, crossed>>

\* Receipt.start of the initial attempt records the dispatch.
Start ==
    /\ run.pc = "start"
    /\ events' = [events EXCEPT ![run.step].phase = Dispatched]
    /\ run' = [run EXCEPT !.pc = "dispatch"]
    /\ UNCHANGED <<cancelled, view, granted, grants, trace, owned, receiptVars, now, settlements, crossed>>

\* Fault: every round works on the facts the repeat was decided on.
LookedFirst == run.seen

\* The facts of the previous attempt that this round of authorize works on.
Looked == events[run.prev]

\* authorize: Snapshot, fresh evidence and a decision that must still want the
\* same kind of repeat.  Replay is the host's and may fail by itself.
Authorize ==
    /\ run.pc = "authorize" /\ settling[run.prev] = "nobody"
    /\ \/ /\ \E e \in BOOLEAN : NotStarted(stopDecision, e)
          /\ UNCHANGED view
       \/ LET d == decide(Looked, ReservedRemaining, Evidence[Looked])
          IN /\ Alive /\ run.prev \notin failed
             /\ isRepeat(d) => d.action = run.decision.action
             /\ view' = [view EXCEPT ![Run] = [previous |-> run.prev, next |-> run.step, event |-> Looked]]
             /\ run' = [run EXCEPT !.pc = "lock"]
             /\ UNCHANGED <<events, cancelled, trace, owned, closed, failed>>
    /\ UNCHANGED <<granted, grants, settling, now, settlements, crossed>>

\* Fault: the settlement error is not looked at again under the lock.
SettledWithoutError(a) == TRUE

\* receipt.err under the lock of authorizeRepeat.
SettledWell(a) == a \notin failed

\* lockAuthorization waits for a settlement in progress or for the end of the
\* bounded context.
LockAuthorization ==
    /\ run.pc = "lock"
    /\ \/ /\ settling[run.prev] # "nobody" /\ ~Alive
          /\ \E e \in BOOLEAN : NotStarted(stopDecision, e)
          /\ UNCHANGED settling
       \/ /\ settling[run.prev] = "nobody" /\ ~SettledWell(run.prev)
          /\ \E e \in BOOLEAN : NotStarted(Stop("NotRetryable"), e)
          /\ UNCHANGED settling
       \/ /\ settling[run.prev] = "nobody" /\ SettledWell(run.prev)
          /\ settling' = [settling EXCEPT ![run.prev] = "Run"]
          /\ run' = [run EXCEPT !.pc = "grant"]
          /\ UNCHANGED <<events, cancelled, trace, owned, closed, failed>>
    /\ UNCHANGED <<view, granted, grants, now, settlements, crossed>>

\* authorizeRepeat with the Receipt reserved: checkStart, then the Coordinator's
\* answer.  Changed facts start another round, a denial is the result.
Grant ==
    /\ run.pc = "grant"
    /\ settling' = [settling EXCEPT ![run.prev] = "nobody"]
    /\ LET d == Verdict(view[Run], Run \in cancelled)
       IN \/ /\ Alive /\ isRepeat(d)
             /\ AuthorizeRepeat(Run)
             /\ run' = [run EXCEPT !.pc = "dispatch", !.decision = d]
             /\ UNCHANGED <<trace, owned, closed, failed>>
          \/ /\ Alive /\ d.reason = "EventChanged"
             /\ AuthorizeRepeat(Run)
             /\ run' = [run EXCEPT !.pc = "authorize"]
             /\ UNCHANGED <<trace, owned, closed, failed>>
          \/ /\ ~Alive \/ ~(isRepeat(d) \/ d.reason = "EventChanged")
             /\ LET answer == IF ~Alive \/ d.reason = "InvalidEvent" THEN stopDecision ELSE d
                IN \E e \in BOOLEAN :
                    /\ CloseReceipt(run.step, events[run.step], TRUE, e)
                    /\ Return(answer)
             /\ trace' = Append(trace, run.step)
             /\ UNCHANGED <<cancelled, view, granted, grants, owned>>
    /\ UNCHANGED <<now, settlements, crossed>>

\* Receipt.close of a dispatched attempt, first half: Snapshot.  It is called for
\* a value that Dispatch returned, and by Lifetime.Close as its callback.
ReadToClose ==
    /\ settling[run.step] = "nobody"
    /\ \/ run.pc = "dispatch" /\ run' = [run EXCEPT !.pc = "value", !.read = events[run.step]]
       \/ /\ run.pc = "close" /\ run.step \in owned
          /\ run' = [run EXCEPT !.pc = "callback", !.read = events[run.step]]
    /\ UNCHANGED <<vars, trace, owned, receiptVars, now, settlements, crossed>>

\* What Run makes of a dispatched attempt: an ordinary error is worth a decision.
Completed(answer) ==
    IF answer = "error" THEN run' = [run EXCEPT !.pc = "decide", !.read = Fresh]
    ELSE Return(Stop(IF answer = "ok" THEN "ExecutionReturned" ELSE "NotRetryable"))

\* Dispatch returns a resource: its Receipt closes with the Lifetime.
ResourceReturns ==
    /\ run.pc = "dispatch"
    /\ trace' = Append(trace, run.step)
    /\ owned' = owned \union {run.step}
    /\ \E answer \in {"ok", "error", "control"} : Completed(answer)
    /\ UNCHANGED <<vars, receiptVars, now, settlements, crossed>>

\* Dispatch returned a value, and the close ends: a refusal is a control error,
\* a settlement error an ordinary one.
ValueReturns ==
    /\ run.pc = "value"
    /\ trace' = Append(trace, run.step)
    /\ \E answer \in {"ok", "error", "control"}, e \in BOOLEAN :
        /\ CloseReceipt(run.step, run.read, FALSE, e)
        /\ Completed(IF run.step \notin closed' THEN "control"
                     ELSE IF e /\ answer = "ok" THEN "error" ELSE answer)
    /\ UNCHANGED <<cancelled, view, granted, grants, owned, settling, now, settlements, crossed>>

earliestDeadline(first, second) == IF second < first THEN second ELSE first

\* attempt.Schedule: the time d may start (hints and cooldowns are delays too),
\* or its deferral when that is not before the deadline.
Schedule(d, delay, deadline) ==
    IF now + delay >= deadline THEN [action |-> "Defer", reason |-> "DeadlineExhausted"] ELSE d

\* decide: Classify, Replay and Schedule are the host's and may fail.
Decide ==
    /\ run.pc = "decide" /\ settling[run.step] = "nobody"
    /\ \/ Return(stopDecision)
       \/ LET d == decide(events[run.step], Remaining, Evidence[events[run.step]])
          IN /\ run.step \notin failed /\ Run \notin cancelled
             /\ \/ ~isRepeat(d) /\ Return(d)
                \/ /\ isRepeat(d)
                   /\ \E delay \in Backoffs, given \in Deadlines :
                        LET end == earliestDeadline(given, run.deadline)
                        IN IF ~isRepeat(Schedule(d, delay, end)) THEN Return(Schedule(d, delay, end))
                           ELSE run' = [run EXCEPT !.pc = "close", !.decision = d, !.deadline = end,
                                                   !.notBefore = now + delay, !.seen = events[run.step]]
    /\ UNCHANGED <<vars, trace, owned, receiptVars, now, settlements, crossed>>

\* advance, first part: Lifetime.Close has nothing to do for a value; a
\* settlement that failed ends the sequence.
NothingToClose ==
    /\ run.pc = "close" /\ settling[run.step] = "nobody" /\ run.step \notin owned
    /\ IF run.step \in failed THEN Return(stopDecision) ELSE run' = [run EXCEPT !.pc = "wait"]
    /\ UNCHANGED <<vars, trace, owned, receiptVars, now, settlements, crossed>>

\* The callback of Lifetime.Close ends the close of the Receipt and drops a
\* refusal; a cleanup or a settlement that fails ends the sequence.
CallbackCloses ==
    /\ run.pc = "callback"
    /\ owned' = owned \ {run.step}
    /\ \E cleanup, e \in BOOLEAN :
        /\ CloseReceipt(run.step, run.read, FALSE, e)
        /\ IF cleanup \/ run.step \in failed' THEN Return(stopDecision)
           ELSE run' = [run EXCEPT !.pc = "wait", !.read = Fresh]
    /\ UNCHANGED <<cancelled, view, granted, grants, trace, settling, now, settlements, crossed>>

\* attempt.Wait is over.
Waited == now >= run.notBefore

\* advance, second part: Wait until notBefore, then decide again on the current
\* facts with the replay evidence of before, and ask Next for the next step.
Advance ==
    /\ run.pc = "wait" /\ settling[run.step] = "nobody"
    /\ \/ (~Alive \/ run.step \in failed) /\ Return(stopDecision)
       \/ LET d == decide(events[run.step], Remaining, Evidence[run.seen])
          IN /\ Alive /\ Waited /\ run.step \notin failed
             /\ \/ ~isRepeat(d) /\ Return(d)
                \/ /\ isRepeat(d)
                   /\ \E n \in Attempts :
                        run' = [run EXCEPT !.pc = "check", !.prev = run.step, !.step = n, !.decision = d]
    /\ UNCHANGED <<vars, trace, owned, receiptVars, now, settlements, crossed>>

\* Wait and Next belong to the host and may also fail by themselves.
HostFails ==
    /\ run.pc = "wait"
    /\ Return(stopDecision)
    /\ UNCHANGED <<vars, trace, owned, receiptVars, now, settlements, crossed>>

-----------------------------------------------------------------------------
\* Hosts report late facts of attempts that were dispatched, and settle a closed
\* Receipt again (Record, Reconcile); Finish may fail or repair the error.
HostUpdates(a, e) ==
    /\ a \in Allocated /\ events[a].phase >= Dispatched /\ e # events[a]
    /\ Update(a, e)
    /\ crossed' = IF run.pc = "callback" /\ a = run.step THEN crossed \union {a} ELSE crossed
    /\ UNCHANGED <<localVars, receiptVars, now, settlements>>

HostSettles(a) ==
    /\ a \in closed /\ settling[a] = "nobody" /\ settlements < MaxSettlements
    /\ settling' = [settling EXCEPT ![a] = "host"]
    /\ settlements' = settlements + 1
    /\ UNCHANGED <<vars, localVars, closed, failed, now, crossed>>

HostSettled(a) ==
    /\ settling[a] = "host"
    /\ settling' = [settling EXCEPT ![a] = "nobody"]
    /\ failed' \in {failed \union {a}, failed \ {a}}
    /\ UNCHANGED <<vars, localVars, closed, now, settlements, crossed>>

Tick ==
    /\ now < MaxTime
    /\ now' = now + 1
    /\ UNCHANGED <<vars, localVars, receiptVars, settlements, crossed>>

CancelRun == Cancel(Run) /\ UNCHANGED <<localVars, receiptVars, now, settlements, crossed>>

RunSteps ==
    \/ StartStep \/ Preflight \/ Start \/ Authorize \/ LockAuthorization \/ Grant
    \/ ResourceReturns \/ ReadToClose \/ ValueReturns \/ Decide \/ NothingToClose \/ CallbackCloses \/ Advance

\* The behaviour ends when Run has returned: Coordinator and Boundary have the
\* late facts.
SeqNext ==
    \/ RunSteps
    \/ run.pc # "done" /\ (Tick \/ CancelRun \/ HostFails)
    \/ \E a \in Attempts :
        /\ run.pc # "done"
        /\ HostSettles(a) \/ HostSettled(a) \/ \E e \in Events : HostUpdates(a, e)

\* Run's goroutine is scheduled, Finish returns and time passes; nothing forces
\* a host to report, to settle or to cancel.
SeqSpec ==
    /\ SeqInit /\ [][SeqNext]_seqVars
    /\ WF_seqVars(RunSteps) /\ WF_seqVars(Tick)
    /\ \A a \in Attempts : WF_seqVars(HostSettled(a))

-----------------------------------------------------------------------------
\* A repeat is dispatched only when the resource of the attempt before it is
\* closed, its Receipt is closed, settled without an error and not being settled
\* by anyone else, and not before the scheduled time - although close, Wait,
\* Next, admission and evidence lie between those checks and the dispatch, and
\* hosts settle the old Receipt again meanwhile.  A close that the Coordinator
\* refuses because a host's Update came between its Snapshot and its Update ends
\* the sequence for a value; for a resource the callback drops the error, and
\* that Receipt may still be open: crossed is that one exception.
RepeatsSettled ==
    [][run.pc = "grant" /\ run'.pc = "dispatch" =>
        /\ run.prev \in closed \union crossed
        /\ run.prev \notin owned \union failed
        /\ settling[run.prev] = "Run"
        /\ now >= run.notBefore]_seqVars

\* When Run has returned, its Decision is no open permission to repeat, every
\* attempt it allocated is in the trace, and a resource still open belongs to
\* the last entry.
EndsHonestly ==
    run.pc = "done" =>
        /\ ~isRepeat(run.decision)
        /\ Allocated \subseteq {trace[i] : i \in DOMAIN trace}
        /\ owned \subseteq {trace[i] : i \in {Len(trace)} \intersect DOMAIN trace}

\* Run returns, whatever the hosts do: facts are monotone, so the rounds of
\* authorize that changed facts cause come to an end.
RunReturns == <>(run.pc = "done")

=============================================================================
