-------------------------------- MODULE Race --------------------------------
(***************************************************************************)
(* execution.Race.Run (policy/execution/race.go): workers that share a     *)
(* queue of plans run inside FirstSuccessfulPayload.  The module extends   *)
(* FirstSuccessful and puts the worker loop in place of an arbitrary       *)
(* handler: branch w is worker w, CtxDone(w) is its context, and what it   *)
(* returns is delivered to the collector.  One Boundary.Run is a step that *)
(* ends in any way Run can (module Boundary).                              *)
(*                                                                         *)
(* An error is the set of kinds it wraps: nil is {}, errors.Join is union, *)
(* errors.Is is membership.  "control" stands for ErrInvalidEvent,         *)
(* ErrInvalidBoundary and ErrInvalidConfig, "none" for an error that wraps *)
(* ErrNoSuccessfulOutcome, as a nested FirstSuccessfulPayload returns.     *)
(***************************************************************************)
EXTENDS FirstSuccessful

CONSTANTS
    Plans,          \* number of plans, queued in order
    RunResults,     \* how Boundary.Run may end
    CloseErrors,    \* what a cleanup or a settlement may report
    AcceptErrors    \* what the Accept callback may fail with

Kinds == {"provider", "control", "ctx", "none"}

\* good: a stop with a payload; ready: the facts the profile asks for
\* (CompleteOnly: terminal, EarlyOwned: an opened stream and a Lifetime).
RunResult == [started : BOOLEAN, err : SUBSET Kinds, good : BOOLEAN, owned : BOOLEAN,
              ready : BOOLEAN, settle : SUBSET Kinds]

Permissions == [Replayable : BOOLEAN, DuplicateCost : BOOLEAN, ReadOnly : BOOLEAN,
                DuplicateEffects : BOOLEAN]

ASSUME RaceAssumption ==
    /\ Plans \in Nat \ {0} /\ N <= Plans
    /\ RunResults \subseteq RunResult
    /\ CloseErrors \subseteq SUBSET Kinds
    /\ AcceptErrors \subseteq SUBSET Kinds

VARIABLES
    taken,          \* plans taken from the queue
    fatal,          \* control.err
    finalized,      \* control.finalized
    wpc,            \* where each worker is in its loop
    plan,           \* the plan each worker is running
    werr, closeErr, \* err and closeErr of that plan
    failures,       \* what each worker has collected, then its error
    run,            \* what Boundary.Run returned for each plan
    held,           \* open resources in the hands of a worker
    committed,      \* plans whose event is Committed
    settle,         \* the settlement error on each plan's Receipt
    journal,        \* the Journal's entries
    mpc,            \* where Run is
    status, raceErr \* what Run returns

workerVars == <<wpc, plan, werr, closeErr, failures>>
planVars == <<run, held, committed, settle, journal>>
mainVars == <<mpc, status, raceErr>>
control == <<taken, fatal, finalized>>
raceVars == <<control, workerVars, planVars, mainVars>>
allVars == <<vars, raceVars>>

NotRun == [started |-> FALSE, err |-> {}, good |-> FALSE, owned |-> FALSE,
           ready |-> FALSE, settle |-> {}]

RaceInit ==
    /\ Init
    /\ taken = 0 /\ fatal = {} /\ finalized = FALSE
    /\ wpc = [w \in Branches |-> "next"]
    /\ plan = [w \in Branches |-> 0]
    /\ werr = [w \in Branches |-> {}]
    /\ closeErr = [w \in Branches |-> {}]
    /\ failures = [w \in Branches |-> {}]
    /\ run = [p \in 1..Plans |-> NotRun]
    /\ held = {} /\ committed = {}
    /\ settle = [p \in 1..Plans |-> {}]
    /\ journal = {}
    /\ mpc = "idle" /\ status = "NoAccepted" /\ raceErr = {}

Goto(w, l) == wpc' = [wpc EXCEPT ![w] = l]
Working(w, l) == bpc[w] = "running" /\ wpc[w] = l

isControlError(e) == "control" \in e

\* control.observe
Observe(e) == fatal' = IF isControlError(e) THEN fatal \union e ELSE fatal

Record(p, accepted) == journal' = journal \union {[plan |-> p, accepted |-> accepted]}

-----------------------------------------------------------------------------
(* The worker loop *)

\* Fault: the gate asks only whether the race was decided, not the context.
TakePlanUncancelled(w) ==
    /\ Working(w, "next")
    /\ fatal = {} /\ ~finalized
    /\ taken < Plans
    /\ taken' = taken + 1
    /\ plan' = [plan EXCEPT ![w] = taken + 1]
    /\ Goto(w, "run")
    /\ UNCHANGED <<vars, fatal, finalized, werr, closeErr, failures, planVars, mainVars>>

\* control.next hands out the next plan.
TakePlan(w) ==
    /\ Working(w, "next")
    /\ fatal = {} /\ ~finalized /\ ~CtxDone(w)
    /\ taken < Plans
    /\ taken' = taken + 1
    /\ plan' = [plan EXCEPT ![w] = taken + 1]
    /\ Goto(w, "run")
    /\ UNCHANGED <<vars, fatal, finalized, werr, closeErr, failures, planVars, mainVars>>

\* The worker returns an error or, with nothing to report, ActionNext.
ReturnError(w, e) ==
    /\ failures' = [failures EXCEPT ![w] = e]
    /\ Deliver(w, [err |-> e # {}, action |-> "next", payload |-> FALSE, owned |-> FALSE])

\* Fault: a worker stopped by its context returns no error.
StopWorkSilently(w) ==
    /\ Working(w, "next")
    /\ fatal # {} \/ finalized \/ CtxDone(w) \/ taken = Plans
    /\ ReturnError(w, IF fatal # {} THEN fatal ELSE failures[w])
    /\ UNCHANGED <<control, wpc, plan, werr, closeErr, planVars, mainVars>>

\* control.next refuses, or the queue is empty and the loop is over.
StopWork(w) ==
    /\ Working(w, "next")
    /\ fatal # {} \/ finalized \/ CtxDone(w) \/ taken = Plans
    /\ ReturnError(w, IF fatal # {} THEN fatal
                      ELSE IF ~finalized /\ CtxDone(w) THEN {"ctx"}
                      ELSE failures[w])
    /\ UNCHANGED <<control, wpc, plan, werr, closeErr, planVars, mainVars>>

\* Boundary.Run ends; a value result is settled by then.
RunPlan(w) ==
    /\ Working(w, "run")
    /\ LET p == plan[w] IN \E r \in RunResults :
        /\ "ctx" \in r.err => CtxDone(w)
        /\ run' = [run EXCEPT ![p] = r]
        /\ held' = IF r.owned THEN held \union {p} ELSE held
        /\ settle' = [settle EXCEPT ![p] = r.settle]
    /\ Goto(w, "accept")
    /\ UNCHANGED <<vars, control, plan, werr, closeErr, failures, committed, journal, mainVars>>

\* What accept reads from the Receipt: its settlement error, then the commit.
Facts(p) == IF settle[p] # {} THEN settle[p] ELSE IF p \in committed THEN {"control"} ELSE {}

\* accept returns false and e; observe does nothing for other errors.
Refuses(w, e) ==
    /\ werr' = [werr EXCEPT ![w] = e]
    /\ Goto(w, IF isControlError(e) THEN "observe" ELSE "close")

\* accept up to the callback.
Screen(w) ==
    /\ Working(w, "accept")
    /\ LET p == plan[w]
           r == run[p]
       IN IF r.err # {} \/ ~r.started THEN Refuses(w, r.err)
          ELSE IF ~r.good THEN Refuses(w, {})
          ELSE IF Facts(p) # {} THEN Refuses(w, Facts(p))
          ELSE IF ~r.ready THEN Refuses(w, {})
          ELSE IF CtxDone(w) THEN Refuses(w, {"ctx"})
          ELSE Goto(w, "callback") /\ UNCHANGED werr
    /\ UNCHANGED <<vars, control, plan, closeErr, failures, planVars, mainVars>>

\* The host's Accept callback and the second look at facts and context.
Validate(w) ==
    /\ Working(w, "callback")
    /\ \/ \E e \in AcceptErrors : Refuses(w, e)
       \/ LET e == IF Facts(plan[w]) # {} THEN Facts(plan[w])
                   ELSE IF CtxDone(w) THEN {"ctx"} ELSE {}
          IN IF e # {} THEN Refuses(w, e) ELSE Goto(w, "win") /\ UNCHANGED werr
    /\ UNCHANGED <<vars, control, plan, closeErr, failures, planVars, mainVars>>

\* An accepted result is journaled and returned with its Lifetime.
Win(w) ==
    /\ Working(w, "win")
    /\ Record(plan[w], TRUE)
    /\ held' = held \ {plan[w]}
    /\ failures' = [failures EXCEPT ![w] = {}]
    /\ Deliver(w, [err |-> FALSE, action |-> "stop", payload |-> TRUE, owned |-> run[plan[w]].owned])
    /\ UNCHANGED <<control, wpc, plan, werr, closeErr, run, committed, settle, mainVars>>

\* A control error closes the gate before the cleanup starts.
ObserveRun(w) ==
    /\ Working(w, "observe")
    /\ Observe(werr[w])
    /\ Goto(w, "close")
    /\ UNCHANGED <<vars, taken, finalized, plan, werr, closeErr, failures, planVars, mainVars>>

\* Fault: a result that was not accepted stays open.
CloseResultSkipped(w) ==
    /\ Working(w, "close")
    /\ failures' = [failures EXCEPT ![w] = @ \union werr[w]]
    /\ Goto(w, "log")
    /\ UNCHANGED <<vars, control, plan, werr, closeErr, planVars, mainVars>>

\* The result is closed, which settles an owned one, and its Receipt is read:
\* the errors of the cleanup and of the settlement are joined.
CloseResult(w) ==
    /\ Working(w, "close")
    /\ \E e \in (IF plan[w] \in held THEN CloseErrors ELSE {{}}) :
        LET c == e \union settle[plan[w]]
        IN /\ closeErr' = [closeErr EXCEPT ![w] = c]
           /\ werr' = [werr EXCEPT ![w] = @ \union c]
           /\ failures' = [failures EXCEPT ![w] = @ \union werr[w] \union c]
    /\ held' = held \ {plan[w]}
    /\ Goto(w, "log")
    /\ UNCHANGED <<vars, control, plan, run, committed, settle, journal, mainVars>>

\* A failed cleanup, a plan that failed before dispatch or a fatal error ends
\* the worker; otherwise it takes another plan.
Stops(w) ==
    \/ closeErr[w] # {}
    \/ run[plan[w]].err # {} /\ ~run[plan[w]].started
    \/ fatal' # {}

Forget(w) ==
    /\ werr' = [werr EXCEPT ![w] = {}]
    /\ closeErr' = [closeErr EXCEPT ![w] = {}]

\* Fault: a plan that ends its worker is not journaled.
GiveUpUnrecorded(w) ==
    /\ Working(w, "log")
    /\ Observe(closeErr[w])
    /\ Stops(w)
    /\ ReturnError(w, werr[w] \union fatal')
    /\ Forget(w)
    /\ UNCHANGED <<taken, finalized, wpc, plan, planVars, mainVars>>

\* The cleanup error is observed and the result journaled: the worker returns ...
GiveUpWork(w) ==
    /\ Working(w, "log")
    /\ Observe(closeErr[w])
    /\ Record(plan[w], FALSE)
    /\ Stops(w)
    /\ ReturnError(w, werr[w] \union fatal')
    /\ Forget(w)
    /\ UNCHANGED <<taken, finalized, wpc, plan, run, held, committed, settle, mainVars>>

\* ... or goes on.
GoOn(w) ==
    /\ Working(w, "log")
    /\ Observe(closeErr[w])
    /\ Record(plan[w], FALSE)
    /\ ~Stops(w)
    /\ Forget(w)
    /\ Goto(w, "next")
    /\ UNCHANGED <<vars, taken, finalized, plan, failures, run, held, committed, settle, mainVars>>

\* A worker whose context is done before it starts.
RefuseWorker(w) ==
    /\ Refuse(w)
    /\ failures' = [failures EXCEPT ![w] = {"ctx"}]
    /\ UNCHANGED <<control, wpc, plan, werr, closeErr, planVars, mainVars>>

-----------------------------------------------------------------------------
(* Run *)

allowsDuplication(perm) ==
    perm.Replayable /\ perm.DuplicateCost /\ (perm.ReadOnly \/ perm.DuplicateEffects)

\* Valid plans, then the context, then the permission to duplicate.
Begin ==
    /\ mpc = "idle"
    /\ \/ parent /\ mpc' = "done" /\ raceErr' = {"ctx"} /\ UNCHANGED status
       \/ /\ ~parent
          /\ \E perm \in Permissions :
                IF Plans > 1 /\ ~allowsDuplication(perm)
                THEN mpc' = "done" /\ status' = "DuplicationForbidden"
                ELSE mpc' = "racing" /\ UNCHANGED status
          /\ UNCHANGED raceErr
    /\ UNCHANGED <<vars, control, workerVars, planVars>>

\* What FirstSuccessfulPayload returned beside the winner.
GroupErr ==
    IF ret = Aborted THEN {"ctx"}
    ELSE IF ret = NoneWon
    THEN LET joined == UNION {failures[w] : w \in Branches}
         IN IF joined = {} THEN {"none"} ELSE joined
    ELSE {}

Fail(e) == raceErr' = e /\ mpc' = "close" /\ UNCHANGED <<finalized, status>>

Conclude ==
    /\ mpc = "racing" /\ pc = "returned"
    /\ IF fatal # {} THEN Fail(fatal \union GroupErr)
       ELSE /\ IF GroupErr = {} THEN mpc' = "check" /\ UNCHANGED raceErr
               ELSE /\ mpc' = "done"
                    /\ raceErr' = IF "none" \in GroupErr THEN {} ELSE GroupErr
            /\ UNCHANGED <<finalized, status>>
    /\ UNCHANGED <<vars, taken, fatal, workerVars, planVars>>

\* checkWinner
CheckWinner ==
    /\ mpc = "check"
    /\ LET e == IF parent THEN {"ctx"} ELSE Facts(plan[ret])
       IN IF e # {} THEN Fail(e)
          ELSE mpc' = "finalize" /\ UNCHANGED <<finalized, status, raceErr>>
    /\ UNCHANGED <<vars, taken, fatal, workerVars, planVars>>

\* Fault: the fatal error is not looked at again under the lock.
FinalizeBlind ==
    /\ mpc = "finalize"
    /\ finalized' = TRUE /\ status' = "RaceAccepted" /\ mpc' = "done" /\ UNCHANGED raceErr
    /\ UNCHANGED <<vars, taken, fatal, workerVars, planVars>>

\* control.finalize: the linearization point of acceptance.
Finalize ==
    /\ mpc = "finalize"
    /\ IF fatal # {} THEN Fail(fatal)
       ELSE finalized' = TRUE /\ status' = "RaceAccepted" /\ mpc' = "done" /\ UNCHANGED raceErr
    /\ UNCHANGED <<vars, taken, fatal, workerVars, planVars>>

\* winner.Lifetime.Close() of a race that failed.
CloseWinner ==
    /\ mpc = "close"
    /\ \/ \E w \in Branches : OwnerClose(w)
       \/ (\A w \in Branches : ret = w => life[w] # "open") /\ UNCHANGED vars
    /\ mpc' = "done"
    /\ UNCHANGED <<control, workerVars, planVars, status, raceErr>>

\* The caller closes the winner it was given.
CallerCloses ==
    /\ mpc = "done" /\ status = "RaceAccepted"
    /\ \E w \in Branches : OwnerClose(w)
    /\ UNCHANGED raceVars

\* A late fact: the host commits the output of a dispatched plan, which a value
\* result's Receipt settles again.  Run reads the facts of no other result, and
\* none after it has returned.
HostCommits(p) ==
    /\ run[p].good /\ p \notin committed /\ mpc # "done"
    /\ committed' = committed \union {p}
    /\ \E s \in (IF run[p].owned THEN {settle[p]} ELSE CloseErrors) :
        settle' = [settle EXCEPT ![p] = s]
    /\ UNCHANGED <<vars, control, workerVars, run, held, journal, mainVars>>

-----------------------------------------------------------------------------
WorkerStep(w) ==
    \/ TakePlan(w) \/ StopWork(w) \/ Screen(w) \/ Validate(w) \/ Win(w) \/ ObserveRun(w)
    \/ CloseResult(w) \/ GiveUpWork(w) \/ GoOn(w) \/ RefuseWorker(w)

\* FirstSuccessfulPayload around the workers.
GroupStep ==
    /\ \/ mpc = "racing" /\ (Start \/ StartRefused)
       \/ SeeCancel \/ Discard \/ Accept \/ Exhaust \/ Release \/ Leave
       \/ CloseResults \/ Drain \/ EndDrain
       \/ \E w \in Branches : Enter(w) \/ RunHook(w)
    /\ UNCHANGED raceVars

MainStep == Begin \/ Conclude \/ CheckWinner \/ Finalize \/ CloseWinner

HostStep ==
    \/ CancelParent /\ UNCHANGED raceVars
    \/ CallerCloses
    \/ \E p \in 1..Plans : HostCommits(p)

RaceNext ==
    \/ MainStep \/ GroupStep \/ HostStep
    \/ \E w \in Branches : WorkerStep(w) \/ RunPlan(w)

RaceSpec == RaceInit /\ [][RaceNext]_allVars

-----------------------------------------------------------------------------
(* Safety *)

Accepted(p) == [plan |-> p, accepted |-> TRUE] \in journal

\* "NoAccepted" without an error means what it says: every plan was tried, none
\* was accepted and none failed.  Neither a cancelled worker nor a failed plan
\* can disappear in the collector's joined error, as long as no plan's own error
\* wraps ErrNoSuccessfulOutcome.
NoAcceptedIsHonest ==
    (mpc = "done" /\ status = "NoAccepted" /\ raceErr = {}) =>
        \A p \in 1..Plans : p <= taken /\ ~Accepted(p) /\ run[p].err = {}

Open(p) == p \in held \/ \E w \in Branches : plan[w] = p /\ bpc[w] = "sent" /\ life[w] = "open"

\* When the race, its workers and the drainer have ended, every resource a plan
\* opened is closed, by its worker, the collector, the drainer or the failing
\* Run, unless it is the accepted winner's.
LosersReleased ==
    (mpc = "done" /\ drainer # "draining" /\ \A w \in Branches : bpc[w] \in {"idle", "sent"}) =>
        \A p \in 1..Plans : Open(p) =>
            status = "RaceAccepted" /\ \E w \in Branches : ret = w /\ plan[w] = p

\* "A synchronized Journal exposes all returned attempts ... including late
\* losers": a plan is in the hands of a worker until it has an entry, with one
\* verdict, whichever way the worker leaves its loop.
JournalComplete ==
    \A p \in 1..taken :
        \/ \E w \in Branches : bpc[w] = "running" /\ plan[w] = p /\ wpc[w] # "next"
        \/ \E entry \in journal : entry.plan = p /\ \A other \in journal : other.plan = p => other = entry

(* Action properties *)

\* "no worker takes another plan after failure is observed", also while the
\* cleanup of the failed one blocks, nor once Run has returned, in whatever way:
\* the gate or its cancelled context stops it.
NoPlanAfterVerdict ==
    [][(mpc = "done" \/ \E w \in Branches : Working(w, "close") /\ isControlError(werr[w]))
        => taken' = taken]_allVars

\* "a fatal error observed before this explicit linearization point overrides
\* the concurrent winner": a race with a known control error is never accepted,
\* and one that was accepted stays so.
AcceptanceLinearized ==
    [][/\ fatal # {} => status' = status
       /\ status = "RaceAccepted" => status' = status /\ raceErr' = raceErr]_allVars

=============================================================================
