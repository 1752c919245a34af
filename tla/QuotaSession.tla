---------------------------- MODULE QuotaSession ----------------------------
(***************************************************************************)
(* quota.Admit and quota.Session (policy/quota/quota.go) over a host       *)
(* backend.  Settle and Release calls pass a channel of capacity one       *)
(* (serial); the state mutex is released while the backend is called, so   *)
(* the state can be read during I/O and is written again afterwards.       *)
(*                                                                         *)
(* The backend is external.  What the code relies on (comments of Backend) *)
(* is modelled: a handle is finalized at most once, identical repeats are  *)
(* acknowledged, conflicting ones refused, and an acknowledgement may be   *)
(* lost after the effect took place.                                       *)
(***************************************************************************)
EXTENDS Naturals

CONSTANTS
    Clients,        \* goroutines that settle or release, one call each
    Ids,            \* settlement and release identities
    Amounts,        \* values of Actual over the estimated units
    None            \* no settlement, no release proof, no call

ASSUME QuotaAssumption ==
    None \notin [id : Ids, actual : Amounts, complete : BOOLEAN] \union Ids \union Clients

Settlements == [id : Ids, actual : Amounts, complete : BOOLEAN]
Commits == [kind : {"commit"}, id : Ids, actual : Amounts]
Releases == [kind : {"release"}, id : Ids]
Finals == Commits \union Releases

Unheld == [kind |-> "none"]
Held == [kind |-> "held"]

VARIABLES
    admission,      \* what Admit returned: "none" before, then the status or "error"
    state,          \* session.state; "absent" while there is no session
    settlement,     \* session.settlement
    release,        \* session.release, by its ID
    serial,         \* the client whose token is in session.serial
    pc,             \* where each client is
    req,            \* what each client asked for
    cancelled,      \* clients whose context is done
    ledger,         \* backend: no reservation, a held one, or the finalization it applied
    sent            \* history: finalizing requests sent to the backend

vars == <<admission, state, settlement, release, serial, pc, req, cancelled,
          ledger, sent>>

SettleReqs == [kind : {"settle"}, id : Ids, actual : Amounts, complete : BOOLEAN]
Requests == SettleReqs \union Releases

TypeOK ==
    /\ admission \in {"none", "Admitted", "Denied", "Deferred", "Unreserved", "error"}
    /\ state \in {"absent", "Reserved", "Pending", "Committed", "Released"}
    /\ settlement \in Settlements \union {None}
    /\ release \in Ids \union {None}
    /\ serial \in Clients \union {None}
    /\ pc \in [Clients -> {"idle", "waiting", "gate", "calling", "done"}]
    /\ req \in [Clients -> Requests \union {None}]
    /\ cancelled \subseteq Clients
    /\ ledger \in Finals \union {Unheld, Held}
    /\ sent \subseteq Finals

Init ==
    /\ admission = "none"
    /\ state = "absent"
    /\ settlement = None
    /\ release = None
    /\ serial = None
    /\ pc = [c \in Clients |-> "idle"]
    /\ req = [c \in Clients |-> None]
    /\ cancelled = {}
    /\ ledger = Unheld
    /\ sent = {}

-----------------------------------------------------------------------------
(* Admit *)

\* Every way Reserve can end: its answer, and whether the reservation is held.
ReserveAnswers ==
    {[answer |-> "Admitted", held |-> TRUE], [answer |-> "Denied", held |-> FALSE],
     [answer |-> "Deferred", held |-> FALSE], [answer |-> "invalid", held |-> FALSE],
     [answer |-> "unavailable", held |-> FALSE]} \union
    [answer : {"unknownAck", "unclassified"}, held : BOOLEAN]

\* Fault: fail-open covers every backend error.
StatusOpenOnError(answer, policy) ==
    IF answer \in {"unavailable", "unknownAck", "unclassified"}
    THEN IF policy = "FailOpen" THEN "Unreserved" ELSE "error"
    ELSE IF answer = "invalid" THEN "error" ELSE answer

\* Fail-open admits without a reservation only when the backend said that the
\* request was not applied.
Status(answer, policy) ==
    IF answer = "unavailable" /\ policy = "FailOpen" THEN "Unreserved"
    ELSE IF answer \in {"unavailable", "unknownAck", "unclassified", "invalid"} THEN "error"
    ELSE answer

Admit(policy) ==
    /\ admission = "none"
    /\ \E r \in ReserveAnswers :
        /\ ledger' = IF r.held THEN Held ELSE Unheld
        /\ admission' = Status(r.answer, policy)
        /\ state' = IF r.answer = "Admitted" THEN "Reserved" ELSE "absent"
    /\ UNCHANGED <<settlement, release, serial, pc, req, cancelled, sent>>

-----------------------------------------------------------------------------
(* The serial gate *)

Call(c, r) ==
    /\ state # "absent"
    /\ pc[c] = "idle"
    /\ pc' = [pc EXCEPT ![c] = "waiting"]
    /\ req' = [req EXCEPT ![c] = r]
    /\ UNCHANGED <<admission, state, settlement, release, serial, cancelled, ledger, sent>>

\* acquire: the token, or ctx.Done if that is ready (select picks either).
Acquire(c) ==
    /\ pc[c] = "waiting"
    /\ serial = None
    /\ serial' = c
    /\ pc' = [pc EXCEPT ![c] = "gate"]
    /\ UNCHANGED <<admission, state, settlement, release, req, cancelled, ledger, sent>>

GiveUp(c) ==
    /\ pc[c] = "waiting"
    /\ c \in cancelled
    /\ pc' = [pc EXCEPT ![c] = "done"]
    /\ req' = [req EXCEPT ![c] = None]
    /\ UNCHANGED <<admission, state, settlement, release, serial, cancelled, ledger, sent>>

\* The method returns: the deferred function takes the token back.
Return(c) ==
    /\ pc' = [pc EXCEPT ![c] = "done"]
    /\ req' = [req EXCEPT ![c] = None]
    /\ serial' = None

\* Fault: a waiter that finds its context done keeps the token.
LateCancelKeepsToken(c) ==
    /\ pc[c] = "gate"
    /\ c \in cancelled
    /\ pc' = [pc EXCEPT ![c] = "done"]
    /\ req' = [req EXCEPT ![c] = None]
    /\ UNCHANGED <<admission, state, settlement, release, serial, cancelled, ledger, sent>>

\* The second look at the context, with the token held.
LateCancel(c) ==
    /\ pc[c] = "gate"
    /\ c \in cancelled
    /\ Return(c)
    /\ UNCHANGED <<admission, state, settlement, release, cancelled, ledger, sent>>

-----------------------------------------------------------------------------
(* Settle and Release up to the backend call *)

\* Fault: a release in progress does not stop a settlement.
SettleConflictIgnoresRelease(r) ==
    /\ settlement # None
    /\ \/ settlement.id # r.id
       \/ settlement.complete /\ (~r.complete \/ settlement.actual # r.actual)

\* A settlement that contradicts an earlier one or a release.
SettleConflict(r) ==
    \/ release # None
    \/ /\ settlement # None
       /\ \/ settlement.id # r.id
          \/ settlement.complete /\ (~r.complete \/ settlement.actual # r.actual)

ReleaseConflict(r) ==
    (settlement # None /\ settlement.complete) \/ (release # None /\ release # r.id)

\* The call ends without the backend: refused, or acknowledged before.
Answer(c) ==
    /\ pc[c] = "gate" /\ c \notin cancelled
    /\ IF req[c].kind = "settle"
       THEN SettleConflict(req[c]) \/ state = "Committed"
       ELSE ReleaseConflict(req[c]) \/ state = "Released"
    /\ Return(c)
    /\ UNCHANGED <<admission, state, settlement, release, cancelled, ledger, sent>>

\* Settle stores the intent, reports Pending and calls Commit or Pending.
SettleCalls(c) ==
    /\ pc[c] = "gate" /\ c \notin cancelled
    /\ req[c].kind = "settle"
    /\ ~SettleConflict(req[c]) /\ state # "Committed"
    /\ settlement' = [id |-> req[c].id, actual |-> req[c].actual, complete |-> req[c].complete]
    /\ state' = "Pending"
    /\ pc' = [pc EXCEPT ![c] = "calling"]
    /\ sent' = IF req[c].complete
               THEN sent \union {[kind |-> "commit", id |-> req[c].id, actual |-> req[c].actual]}
               ELSE sent
    /\ UNCHANGED <<admission, release, serial, req, cancelled, ledger>>

ReleaseCalls(c) ==
    /\ pc[c] = "gate" /\ c \notin cancelled
    /\ req[c].kind = "release"
    /\ ~ReleaseConflict(req[c]) /\ state # "Released"
    /\ release' = req[c].id
    /\ state' = "Pending"
    /\ pc' = [pc EXCEPT ![c] = "calling"]
    /\ sent' = sent \union {[kind |-> "release", id |-> req[c].id]}
    /\ UNCHANGED <<admission, settlement, serial, req, cancelled, ledger>>

-----------------------------------------------------------------------------
(* The backend and what the session makes of its answer *)

\* The finalization a client's backend call asks for, if it asks for one.
Wanted(c) ==
    IF req[c].kind = "release" THEN [kind |-> "release", id |-> req[c].id]
    ELSE IF req[c].complete THEN [kind |-> "commit", id |-> req[c].id, actual |-> req[c].actual]
    ELSE None

\* Fault: an error of the backend is taken for an acknowledgement.
FinalStateOptimistic(c, acknowledged) ==
    IF Wanted(c) = None THEN state
    ELSE IF req[c].kind = "release" THEN "Released" ELSE "Committed"

\* An acknowledged finalization; anything else leaves Pending.
FinalState(c, acknowledged) ==
    IF Wanted(c) = None THEN state
    ELSE IF ~acknowledged THEN "Pending"
    ELSE IF req[c].kind = "release" THEN "Released" ELSE "Committed"

\* Backend.Pending: durable, but it finalizes nothing.
BackendPending(c) ==
    /\ pc[c] = "calling" /\ Wanted(c) = None
    /\ state' = FinalState(c, TRUE)
    /\ Return(c)
    /\ UNCHANGED <<admission, settlement, release, cancelled, ledger, sent>>

\* Commit or Release takes effect (or repeats the effect); the acknowledgement
\* arrives or is lost (error or panic).
BackendApplies(c) ==
    /\ pc[c] = "calling" /\ Wanted(c) # None
    /\ ledger \in {Held, Wanted(c)}
    /\ ledger' = Wanted(c)
    /\ \E acknowledged \in BOOLEAN : state' = FinalState(c, acknowledged)
    /\ Return(c)
    /\ UNCHANGED <<admission, settlement, release, cancelled, sent>>

\* The backend refuses, is unreachable, or panics before any effect.
BackendFails(c) ==
    /\ pc[c] = "calling" /\ Wanted(c) # None
    /\ state' = FinalState(c, FALSE)
    /\ Return(c)
    /\ UNCHANGED <<admission, settlement, release, cancelled, ledger, sent>>

Cancel(c) ==
    /\ c \notin cancelled
    /\ cancelled' = cancelled \union {c}
    /\ UNCHANGED <<admission, state, settlement, release, serial, pc, req, ledger, sent>>

-----------------------------------------------------------------------------
Progress(c) ==
    \/ Acquire(c) \/ GiveUp(c) \/ LateCancel(c) \/ Answer(c)
    \/ SettleCalls(c) \/ ReleaseCalls(c)
    \/ BackendPending(c) \/ BackendApplies(c) \/ BackendFails(c)

Next ==
    \/ \E policy \in {"FailClosed", "FailOpen"} : Admit(policy)
    \/ \E c \in Clients : Progress(c) \/ Cancel(c) \/ \E r \in Requests : Call(c, r)

Spec == Init /\ [][Next]_vars

\* A client inside Settle or Release runs on and the backend call returns.
Fairness == \A c \in Clients : WF_vars(Progress(c))

FairSpec == Spec /\ Fairness

-----------------------------------------------------------------------------
(* Safety *)

\* All finalizing requests a session ever sends are the same request: never a
\* commit and a release, never two values or two identities, in spite of lost
\* acknowledgements, retries and concurrent callers.
OneFinalization == \A x, y \in sent : x = y

\* A session that says Committed or Released agrees with the backend's ledger.
SessionAgrees ==
    /\ state = "Committed" =>
        ledger = [kind |-> "commit", id |-> settlement.id, actual |-> settlement.actual]
    /\ state = "Released" => ledger = [kind |-> "release", id |-> release]

\* fail-open never dispatches without a session while the backend holds a
\* reservation for the attempt.
UnreservedHoldsNothing == admission = "Unreserved" => ledger = Unheld

(* Action property *)

\* A final state is final.
FinalIsFinal == [][(state \in {"Committed", "Released"}) => (state' = state)]_vars

(* Liveness *)

\* No client waits at the gate for ever, also when others are cancelled there.
ClientsReturn == \A c \in Clients : (pc[c] = "waiting") ~> (pc[c] = "done")

=============================================================================
