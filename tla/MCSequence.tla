----------------------------- MODULE MCSequence -----------------------------
(* Three identities on a budget of two, while hosts add facts and settle the *)
(* old Receipt late.                                                         *)
EXTENDS Sequence, TLC

CONSTANTS a1, a2, a3, r1

MCAttempts == {a1, a2, a3}
MCAuthorizers == {r1}
\* One deadline that passes and one that the clock never reaches: only the
\* rounds themselves can end such a Run.
MCDeadlines == {1, 3}
MCBackoffs == {0, 1}

\* A host that allows a repeat unless output is visible or the call completed,
\* and prefers the fallback when a stream was open or it knows that nothing ran
\* (so a fallback survives a late report that nothing ran, a retry does not).
MCEvidence ==
    [e \in Events |->
        [Retryable |-> TRUE, Replayable |-> TRUE,
         SafeDuplicate |-> e.outcome # "Completed", ResetProtocol |-> FALSE,
         CanReconcile |-> TRUE, UseFallback |-> e.phase = StreamOpened \/ e.outcome = "NotExecuted"]]

=============================================================================
