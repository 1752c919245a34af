----------------------------- MODULE Ownership -----------------------------
(***************************************************************************)
(* What routery.Lifetime promises to everything that composes with it      *)
(* (Bulkhead, Timeout, FirstSuccessfulPayload, execution.Boundary): one    *)
(* owner, one release, and every callback attached with OnClose runs at    *)
(* most once and only after the release of the resource is complete.       *)
(***************************************************************************)
EXTENDS Naturals

CONSTANT Hooks      \* the callbacks that may be attached with OnClose

VARIABLES
    phase,          \* "held", "releasing" or "released"
    attached,       \* the hooks attached so far
    runs            \* how often each hook has run

ownVars == <<phase, attached, runs>>

OwnInit ==
    /\ phase = "held"
    /\ attached = {}
    /\ runs = [h \in Hooks |-> 0]

Attach(h) ==
    /\ h \notin attached
    /\ attached' = attached \union {h}
    /\ UNCHANGED <<phase, runs>>

StartRelease ==
    /\ phase = "held"
    /\ phase' = "releasing"
    /\ UNCHANGED <<attached, runs>>

EndRelease ==
    /\ phase = "releasing"
    /\ phase' = "released"
    /\ UNCHANGED <<attached, runs>>

\* The only way a hook runs: the resource is gone, the hook was attached, and
\* it has not run before.
Run(h) ==
    /\ phase = "released"
    /\ h \in attached
    /\ runs[h] = 0
    /\ runs' = [runs EXCEPT ![h] = 1]
    /\ UNCHANGED <<phase, attached>>

OwnNext ==
    \/ StartRelease
    \/ EndRelease
    \/ \E h \in Hooks : Attach(h) \/ Run(h)

OwnSpec == OwnInit /\ [][OwnNext]_ownVars

=============================================================================
