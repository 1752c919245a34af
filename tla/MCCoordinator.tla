--------------------------- MODULE MCCoordinator ---------------------------
(* Two authorizers compete for repeats of an attempt whose facts keep       *)
(* changing; three identities against a budget of two.                      *)
EXTENDS Coordinator, TLC

CONSTANTS a1, a2, a3, r1, r2

MCAttempts == {a1, a2, a3}
MCAuthorizers == {r1, r2}

\* A host that allows a repeat unless output is visible or the call completed.
MCEvidence ==
    [e \in Events |->
        [Retryable |-> e.phase = Terminal, Replayable |-> TRUE,
         SafeDuplicate |-> e.outcome # "Completed", ResetProtocol |-> FALSE,
         CanReconcile |-> TRUE, UseFallback |-> e.outcome = "NotExecuted"]]

Symmetry == Permutations(MCAttempts) \union Permutations(MCAuthorizers)

=============================================================================
