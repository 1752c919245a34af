---------------------------- MODULE AttemptEvent ----------------------------
(***************************************************************************)
(* The facts routery keeps about one physical attempt and the replay       *)
(* decision taken from them: attempt.Event, validEvent, the monotonicity   *)
(* test of Coordinator.Update and decide (policy/attempt).                 *)
(* An event's identity is the key it is stored under.                      *)
(***************************************************************************)
EXTENDS Integers

BeforeDispatch == 0
Dispatched == 1
StreamOpened == 2
Terminal == 3

Phases == BeforeDispatch..Terminal
Outcomes == {"Unknown", "NotExecuted", "Completed"}

Events == [phase : Phases, committed : BOOLEAN, outcome : Outcomes]

\* What a caller may submit: Phase and Outcome are uint8, so a value past the
\* last constant can be submitted too.
RawEvents == [phase : BeforeDispatch..(Terminal + 1), committed : BOOLEAN,
              outcome : Outcomes \union {"OutOfRange"}]

Fresh == [phase |-> BeforeDispatch, committed |-> FALSE, outcome |-> "Unknown"]

\* Nothing is visible or executed before dispatch, and the remote outcome is
\* definite only at the end.
validEvent(e) ==
    /\ e.phase <= Terminal /\ e.outcome \in Outcomes
    /\ e.committed => e.phase >= Dispatched /\ e.outcome # "NotExecuted"
    /\ e.outcome # "Unknown" => e.phase = Terminal

\* Fault: a definite outcome can be overwritten.
FollowsForgetful(previous, e) ==
    /\ validEvent(e)
    /\ e.phase >= previous.phase
    /\ previous.committed => e.committed

\* What Coordinator.Update accepts after previous.
Follows(previous, e) ==
    /\ validEvent(e)
    /\ e.phase >= previous.phase
    /\ previous.committed => e.committed
    /\ previous.outcome # "Unknown" => e.outcome = previous.outcome

-----------------------------------------------------------------------------
Replays == [Retryable : BOOLEAN, Replayable : BOOLEAN, SafeDuplicate : BOOLEAN,
            ResetProtocol : BOOLEAN, CanReconcile : BOOLEAN, UseFallback : BOOLEAN]

\* decide: the first reason that applies, as in the code's chain of returns.
\* Its test of validEvent comes first there and makes the call an error.
decide(e, remaining, replay) ==
    IF e.committed /\ ~replay.ResetProtocol
        THEN [action |-> "Stop", reason |-> "VisibleOutput"]
    ELSE IF e.outcome = "Unknown" /\ ~replay.SafeDuplicate
        THEN [action |-> IF replay.CanReconcile THEN "Reconcile" ELSE "Stop",
              reason |-> "UnknownOutcome"]
    ELSE IF ~replay.Retryable
        THEN [action |-> "Stop", reason |-> "NotRetryable"]
    ELSE IF ~replay.Replayable \/ (e.outcome = "Completed" /\ ~replay.SafeDuplicate)
        THEN [action |-> "Stop", reason |-> "UnsafeReplay"]
    ELSE IF remaining < 1
        THEN [action |-> "Stop", reason |-> "BudgetExhausted"]
    ELSE [action |-> IF replay.UseFallback THEN "Fallback" ELSE "Retry",
          reason |-> "RetryAllowed"]

\* What a repeat must be able to rely on, stated without the order of decide:
\* output seen by a consumer needs a reset, and anything that may have run
\* remotely needs to be safe to run twice.
SafeToRepeat(e, replay) ==
    /\ replay.Retryable /\ replay.Replayable
    /\ e.committed => replay.ResetProtocol
    /\ e.outcome # "NotExecuted" => replay.SafeDuplicate

=============================================================================
