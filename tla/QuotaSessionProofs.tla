------------------------- MODULE QuotaSessionProofs -------------------------
(***************************************************************************)
(* quota.Session for any number of callers, identities and amounts: it     *)
(* finalizes one way, and its state agrees with the backend.               *)
(***************************************************************************)
EXTENDS QuotaSession, TLAPS

\* The token of the serial gate belongs to the one client past acquire.
GateInv == \A c \in Clients : pc[c] \in {"gate", "calling"} => serial = c

\* What was sent is what the session remembers, and it remembers one decision.
DecisionInv ==
    /\ \A x \in sent :
        \/ /\ settlement # None /\ settlement.complete
           /\ x = [kind |-> "commit", id |-> settlement.id, actual |-> settlement.actual]
        \/ /\ release # None
           /\ x = [kind |-> "release", id |-> release]
    /\ ~(settlement # None /\ settlement.complete /\ release # None)

\* A client waits for the backend in Pending, and for what it was sent.
CallInv ==
    \A c \in Clients : pc[c] = "calling" =>
        /\ state = "Pending"
        /\ Wanted(c) # None => Wanted(c) \in sent

ClientInv == \A c \in Clients : pc[c] \in {"waiting", "gate", "calling"} => req[c] \in Requests

\* A final state has its decision recorded and sent.
StateInv ==
    /\ state = "Committed" =>
        /\ settlement # None /\ settlement.complete
        /\ ledger = [kind |-> "commit", id |-> settlement.id, actual |-> settlement.actual]
    /\ state = "Released" =>
        /\ release # None
        /\ ledger = [kind |-> "release", id |-> release]

Inv == TypeOK /\ GateInv /\ ClientInv /\ DecisionInv /\ CallInv /\ StateInv

LEMMA InitInv == Init => Inv
<1> SUFFICES ASSUME Init PROVE Inv
    OBVIOUS
<1>1. TypeOK
    BY DEF Init, TypeOK, Unheld, Held
<1> QED
    BY <1>1 DEF Init, Inv, GateInv, ClientInv, DecisionInv, CallInv, StateInv

-----------------------------------------------------------------------------
LEMMA WantedType ==
    ASSUME NEW c \in Clients, req[c] \in Requests
    PROVE /\ Wanted(c) \in Finals \union {None}
          /\ req[c].kind = "release" => Wanted(c) = [kind |-> "release", id |-> req[c].id]
          /\ (req[c].kind # "release" /\ req[c].complete) =>
                Wanted(c) = [kind |-> "commit", id |-> req[c].id, actual |-> req[c].actual]
BY DEF Wanted, Requests, SettleReqs, Finals, Commits, Releases

LEMMA RequestTypes ==
    ASSUME NEW r \in Requests
    PROVE /\ r.kind \in {"settle", "release"}
          /\ r.id \in Ids
          /\ r.kind = "settle" => r.actual \in Amounts /\ r.complete \in BOOLEAN
BY DEF Requests, SettleReqs, Releases

\* Steps that touch neither the decision, the state nor the ledger.
LEMMA QuietStep ==
    ASSUME Inv, NEW c \in Clients,
           \/ \E r \in Requests : Call(c, r)
           \/ Acquire(c) \/ GiveUp(c) \/ LateCancel(c) \/ Answer(c) \/ Cancel(c)
    PROVE Inv'
<1>0. /\ UNCHANGED <<admission, state, settlement, release, ledger, sent>>
    BY DEF Call, Acquire, GiveUp, LateCancel, Answer, Cancel
<1>1. TypeOK'
    <2> USE <1>0 DEF Inv, TypeOK, Return
    <2>1. CASE \E r \in Requests : Call(c, r)
        BY <2>1 DEF Call
    <2>2. CASE Acquire(c) \/ Cancel(c)
        BY <2>2 DEF Acquire, Cancel
    <2>3. CASE GiveUp(c)
        BY <2>3 DEF GiveUp
    <2>4. CASE LateCancel(c)
        BY <2>4 DEF LateCancel
    <2>5. CASE Answer(c)
        BY <2>5 DEF Answer
    <2> QED BY <2>1, <2>2, <2>3, <2>4, <2>5
<1>2. GateInv'
    <2> USE DEF Inv, TypeOK, GateInv, Return
    <2>1. CASE \E r \in Requests : Call(c, r)
        BY <2>1 DEF Call
    <2>2. CASE Acquire(c) \/ GiveUp(c) \/ Cancel(c)
        BY <2>2, QuotaAssumption DEF Acquire, GiveUp, Cancel
    <2>3. CASE LateCancel(c) \/ Answer(c)
        BY <2>3 DEF LateCancel, Answer
    <2> QED BY <2>1, <2>2, <2>3
<1>3. ClientInv'
    BY DEF Inv, TypeOK, ClientInv, Call, Acquire, GiveUp, LateCancel, Answer, Cancel, Return
<1>4. DecisionInv' /\ StateInv'
    BY <1>0 DEF Inv, DecisionInv, StateInv
<1>5. CallInv'
    <2> SUFFICES ASSUME NEW d \in Clients, pc'[d] = "calling"
                 PROVE /\ state' = "Pending"
                       /\ Wanted(d)' # None => Wanted(d)' \in sent'
        BY DEF CallInv
    <2>1. pc[d] = "calling" /\ req'[d] = req[d]
        BY DEF Inv, TypeOK, Call, Acquire, GiveUp, LateCancel, Answer, Cancel, Return
    <2> QED BY <1>0, <2>1 DEF Inv, CallInv, Wanted
<1> QED BY <1>1, <1>2, <1>3, <1>4, <1>5 DEF Inv

LEMMA SettleStep == ASSUME Inv, NEW c \in Clients, SettleCalls(c) PROVE Inv'
<1> USE DEF Inv
<1>1. /\ pc[c] = "gate" /\ req[c] \in Requests /\ req[c].kind = "settle"
      /\ release = None /\ state # "Committed"
      /\ settlement # None => settlement.id = req[c].id
      /\ (settlement # None /\ settlement.complete) => req[c].complete /\ settlement.actual = req[c].actual
    BY DEF SettleCalls, SettleConflict, ClientInv
<1>2. req[c].id \in Ids /\ req[c].actual \in Amounts /\ req[c].complete \in BOOLEAN
    BY <1>1, RequestTypes
<1>3. /\ settlement' = [id |-> req[c].id, actual |-> req[c].actual, complete |-> req[c].complete]
      /\ settlement' \in Settlements /\ settlement' # None
      /\ settlement'.id = req[c].id /\ settlement'.actual = req[c].actual
      /\ settlement'.complete = req[c].complete
    BY <1>2, QuotaAssumption DEF SettleCalls, Settlements
<1>4. /\ state' = "Pending" /\ pc' = [pc EXCEPT ![c] = "calling"]
      /\ UNCHANGED <<admission, release, serial, req, cancelled, ledger>>
      /\ sent' = IF req[c].complete
                 THEN sent \union {[kind |-> "commit", id |-> req[c].id, actual |-> req[c].actual]}
                 ELSE sent
    BY DEF SettleCalls
<1>5. TypeOK'
    BY <1>2, <1>3, <1>4 DEF TypeOK, Finals, Commits
<1>6. GateInv' /\ ClientInv'
    BY <1>1, <1>4 DEF TypeOK, GateInv, ClientInv
<1>7. \A x \in sent : /\ req[c].complete
                      /\ x = [kind |-> "commit", id |-> req[c].id, actual |-> req[c].actual]
    BY <1>1 DEF DecisionInv
<1>8. DecisionInv'
    BY <1>1, <1>3, <1>4, <1>7 DEF DecisionInv
<1>9. CallInv'
    <2> SUFFICES ASSUME NEW d \in Clients, pc'[d] = "calling"
                 PROVE Wanted(d)' # None => Wanted(d)' \in sent'
        BY <1>4 DEF CallInv
    <2>1. d = c
        BY <1>1, <1>4 DEF TypeOK, GateInv
    <2> QED BY <1>1, <1>4, <2>1 DEF Wanted
<1>10. StateInv'
    BY <1>4 DEF StateInv
<1> QED BY <1>5, <1>6, <1>8, <1>9, <1>10

LEMMA ReleaseStep == ASSUME Inv, NEW c \in Clients, ReleaseCalls(c) PROVE Inv'
<1> USE DEF Inv
<1>1. /\ pc[c] = "gate" /\ req[c] \in Requests /\ req[c].kind = "release"
      /\ ~(settlement # None /\ settlement.complete)
      /\ release # None => release = req[c].id
    BY DEF ReleaseCalls, ReleaseConflict, ClientInv
<1>2. req[c].id \in Ids /\ req[c].id # None
    BY <1>1, RequestTypes, QuotaAssumption
<1>3. /\ release' = req[c].id /\ state' = "Pending" /\ pc' = [pc EXCEPT ![c] = "calling"]
      /\ UNCHANGED <<admission, settlement, serial, req, cancelled, ledger>>
      /\ sent' = sent \union {[kind |-> "release", id |-> req[c].id]}
    BY DEF ReleaseCalls
<1>5. TypeOK'
    BY <1>2, <1>3 DEF TypeOK, Finals, Releases
<1>6. GateInv' /\ ClientInv'
    BY <1>1, <1>3 DEF TypeOK, GateInv, ClientInv
<1>7. \A x \in sent : x = [kind |-> "release", id |-> req[c].id]
    BY <1>1 DEF DecisionInv
<1>8. DecisionInv'
    BY <1>1, <1>2, <1>3, <1>7 DEF DecisionInv
<1>9. CallInv'
    <2> SUFFICES ASSUME NEW d \in Clients, pc'[d] = "calling"
                 PROVE Wanted(d)' # None => Wanted(d)' \in sent'
        BY <1>3 DEF CallInv
    <2>1. d = c
        BY <1>1, <1>3 DEF TypeOK, GateInv
    <2> QED BY <1>1, <1>3, <2>1 DEF Wanted
<1>10. StateInv'
    BY <1>3 DEF StateInv
<1> QED BY <1>5, <1>6, <1>8, <1>9, <1>10

LEMMA BackendStep ==
    ASSUME Inv, NEW c \in Clients, BackendPending(c) \/ BackendApplies(c) \/ BackendFails(c)
    PROVE Inv'
<1> USE DEF Inv
<1>1. /\ pc[c] = "calling" /\ state = "Pending" /\ req[c] \in Requests
      /\ pc' = [pc EXCEPT ![c] = "done"] /\ req' = [req EXCEPT ![c] = None] /\ serial' = None
      /\ UNCHANGED <<admission, settlement, release, cancelled, sent>>
    BY DEF BackendPending, BackendApplies, BackendFails, Return, CallInv, ClientInv
<1>2. \A d \in Clients : d # c => pc[d] \notin {"gate", "calling"}
    BY <1>1 DEF GateInv
<1>3. \/ state' = "Pending" /\ (ledger' = ledger \/ (ledger' = Wanted(c) /\ Wanted(c) # None))
      \/ /\ Wanted(c) # None /\ ledger' = Wanted(c)
         /\ state' = IF req[c].kind = "release" THEN "Released" ELSE "Committed"
    BY <1>1 DEF BackendPending, BackendApplies, BackendFails, FinalState
<1>4. Wanted(c) # None => Wanted(c) \in sent
    BY <1>1 DEF CallInv
<1>5. Wanted(c) \in Finals \union {None}
    BY <1>1, WantedType
<1>6. TypeOK'
    BY <1>1, <1>3, <1>5 DEF TypeOK
<1>7. GateInv' /\ ClientInv' /\ CallInv'
    BY <1>1, <1>2 DEF TypeOK, GateInv, ClientInv, CallInv
<1>8. DecisionInv'
    BY <1>1 DEF DecisionInv
<1>9. StateInv'
    <2>1. CASE state' = "Pending"
        BY <2>1 DEF StateInv
    <2>2. CASE Wanted(c) # None /\ ledger' = Wanted(c) /\ req[c].kind = "release" /\ state' = "Released"
        <3>1. Wanted(c) = [kind |-> "release", id |-> req[c].id]
            BY <1>1, <2>2, WantedType
        <3>2. release # None /\ Wanted(c) = [kind |-> "release", id |-> release]
            BY <1>4, <2>2, <3>1 DEF DecisionInv
        <3> QED BY <1>1, <2>2, <3>2 DEF StateInv
    <2>3. CASE Wanted(c) # None /\ ledger' = Wanted(c) /\ req[c].kind # "release" /\ state' = "Committed"
        <3>1. Wanted(c).kind = "commit"
            BY <1>1, <2>3, RequestTypes DEF Wanted
        <3>2. /\ settlement # None /\ settlement.complete
              /\ Wanted(c) = [kind |-> "commit", id |-> settlement.id, actual |-> settlement.actual]
            BY <1>4, <2>3, <3>1 DEF DecisionInv
        <3> QED BY <1>1, <2>3, <3>2 DEF StateInv
    <2> QED BY <1>3, <2>1, <2>2, <2>3
<1> QED BY <1>6, <1>7, <1>8, <1>9

LEMMA AdmitStep ==
    ASSUME Inv, NEW policy \in {"FailClosed", "FailOpen"}, Admit(policy), state = "absent",
           \A c \in Clients : pc[c] # "calling"
    PROVE Inv'
<1>1. PICK r \in ReserveAnswers :
        /\ ledger' = IF r.held THEN Held ELSE Unheld
        /\ admission' = Status(r.answer, policy)
        /\ state' = IF r.answer = "Admitted" THEN "Reserved" ELSE "absent"
    BY DEF Admit
<1>2. UNCHANGED <<settlement, release, serial, pc, req, cancelled, sent>>
    BY DEF Admit
<1>3. r.answer \in {"Admitted", "Denied", "Deferred", "invalid", "unavailable", "unknownAck", "unclassified"}
    BY DEF ReserveAnswers
<1>4. TypeOK'
    BY <1>1, <1>2, <1>3 DEF Inv, TypeOK, Status
<1> QED
    BY <1>1, <1>2, <1>4 DEF Inv, GateInv, ClientInv, DecisionInv, CallInv, StateInv

\* Before Admit there is no session to call.
IdleInv == state = "absent" => \A c \in Clients : pc[c] = "idle"
AdmitInv == admission = "none" => state = "absent"

\* Fail-open made no session, so nothing can reach the backend afterwards.
OpenInv == admission = "Unreserved" => state = "absent" /\ ledger = Unheld

FullInv == Inv /\ IdleInv /\ AdmitInv /\ OpenInv

\* Of the ways Reserve can end, fail-open accepts the one that holds nothing.
LEMMA UnreservedAnswer ==
    ASSUME NEW r \in ReserveAnswers, NEW policy, Status(r.answer, policy) = "Unreserved"
    PROVE r.answer = "unavailable" /\ r.held = FALSE
BY DEF ReserveAnswers, Status

LEMMA StepInv == FullInv /\ [Next]_vars => FullInv'
<1> SUFFICES ASSUME FullInv, [Next]_vars PROVE FullInv'
    OBVIOUS
<1> USE DEF FullInv
<1>1. ASSUME NEW policy \in {"FailClosed", "FailOpen"}, Admit(policy) PROVE FullInv'
    <2>1. admission = "none" /\ state = "absent" /\ \A c \in Clients : pc[c] = "idle"
        BY <1>1 DEF Admit, AdmitInv, IdleInv
    <2>2. Inv'
        BY <1>1, <2>1, AdmitStep
    <2>3. IdleInv'
        BY <1>1, <2>1 DEF Admit, IdleInv
    <2>4. AdmitInv'
        BY <1>1 DEF Admit, AdmitInv, Status, ReserveAnswers
    <2>5. OpenInv'
        BY <1>1, UnreservedAnswer DEF Admit, OpenInv
    <2> QED BY <2>2, <2>3, <2>4, <2>5
<1>2. ASSUME NEW c \in Clients, NEW r \in Requests, Call(c, r) PROVE FullInv'
    <2>1. Inv'
        BY <1>2, QuietStep
    <2> QED BY <1>2, <2>1 DEF Call, IdleInv, AdmitInv, OpenInv
<1>3. ASSUME NEW c \in Clients, Acquire(c) \/ GiveUp(c) \/ LateCancel(c) \/ Answer(c) PROVE FullInv'
    <2>1. Inv'
        BY <1>3, QuietStep
    <2>2. state # "absent"
        BY <1>3 DEF Acquire, GiveUp, LateCancel, Answer, IdleInv
    <2> QED BY <1>3, <2>1, <2>2 DEF Acquire, GiveUp, LateCancel, Answer, IdleInv, AdmitInv,
        OpenInv
<1>4. ASSUME NEW c \in Clients, Cancel(c) PROVE FullInv'
    <2>1. Inv'
        BY <1>4, QuietStep
    <2> QED BY <1>4, <2>1 DEF Cancel, IdleInv, AdmitInv, OpenInv
<1>5. ASSUME NEW c \in Clients, SettleCalls(c) \/ ReleaseCalls(c) PROVE FullInv'
    <2>1. Inv'
        BY <1>5, SettleStep, ReleaseStep
    <2>2. state # "absent" /\ state' = "Pending"
        BY <1>5 DEF SettleCalls, ReleaseCalls, IdleInv
    <2> QED BY <1>5, <2>1, <2>2 DEF SettleCalls, ReleaseCalls, IdleInv, AdmitInv, OpenInv
<1>6. ASSUME NEW c \in Clients, BackendPending(c) \/ BackendApplies(c) \/ BackendFails(c) PROVE FullInv'
    <2>1. Inv'
        BY <1>6, BackendStep
    <2>2. state = "Pending"
        BY <1>6 DEF BackendPending, BackendApplies, BackendFails, Inv, CallInv
    <2>3. state' # "absent" /\ UNCHANGED admission
        BY <1>6, <2>2 DEF BackendPending, BackendApplies, BackendFails, FinalState
    <2> QED BY <2>1, <2>2, <2>3 DEF IdleInv, AdmitInv, OpenInv
<1>7. CASE UNCHANGED vars
    BY <1>7 DEF vars, Inv, TypeOK, GateInv, ClientInv, DecisionInv, CallInv, StateInv, Wanted,
        IdleInv, AdmitInv, OpenInv
<1> QED
    BY <1>1, <1>2, <1>3, <1>4, <1>5, <1>6, <1>7 DEF Next, Progress

LEMMA SpecInv == Spec => []FullInv
<1>1. Init => FullInv
    BY InitInv DEF Init, FullInv, IdleInv, AdmitInv, OpenInv
<1> QED BY <1>1, StepInv, PTL DEF Spec

-----------------------------------------------------------------------------
\* For any callers, identities and amounts a session sends one finalization.
THEOREM SessionFinalizesOneWay == Spec => []OneFinalization
<1>1. FullInv => OneFinalization
    BY DEF FullInv, Inv, DecisionInv, OneFinalization
<1> QED BY <1>1, SpecInv, PTL

\* Committed and Released are claimed only when the backend's ledger says so.
THEOREM SessionAgreesWithBackend == Spec => []SessionAgrees
<1>1. FullInv => SessionAgrees
    BY DEF FullInv, Inv, StateInv, SessionAgrees
<1> QED BY <1>1, SpecInv, PTL

\* An attempt that fail-open lets through without a session has no reservation
\* in the backend, then or later, whatever Reserve answered.
THEOREM SessionUnreservedHoldsNothing == Spec => []UnreservedHoldsNothing
<1>1. FullInv => UnreservedHoldsNothing
    BY DEF FullInv, OpenInv, UnreservedHoldsNothing
<1> QED BY <1>1, SpecInv, PTL

\* No step leaves Committed or Released.
THEOREM SessionFinalIsFinal == Spec => FinalIsFinal
<1>1. FullInv /\ [Next]_vars => [(state \in {"Committed", "Released"}) => (state' = state)]_vars
    <2> SUFFICES ASSUME FullInv, Next, state \in {"Committed", "Released"} PROVE state' = state
        OBVIOUS
    <2> USE DEF FullInv, Inv
    <2>1. ASSUME NEW policy \in {"FailClosed", "FailOpen"}, Admit(policy) PROVE FALSE
        BY <2>1 DEF Admit, AdmitInv
    <2>2. ASSUME NEW c \in Clients, SettleCalls(c) PROVE FALSE
        BY <2>2 DEF SettleCalls, SettleConflict, StateInv
    <2>3. ASSUME NEW c \in Clients, ReleaseCalls(c) PROVE FALSE
        BY <2>3 DEF ReleaseCalls, ReleaseConflict, StateInv
    <2>4. ASSUME NEW c \in Clients, BackendPending(c) \/ BackendApplies(c) \/ BackendFails(c) PROVE FALSE
        BY <2>4 DEF BackendPending, BackendApplies, BackendFails, CallInv
    <2>5. ASSUME NEW c \in Clients,
                 \/ Acquire(c) \/ GiveUp(c) \/ LateCancel(c) \/ Answer(c) \/ Cancel(c)
                 \/ \E r \in Requests : Call(c, r)
          PROVE state' = state
        BY <2>5 DEF Acquire, GiveUp, LateCancel, Answer, Cancel, Call
    <2> QED BY <2>1, <2>2, <2>3, <2>4, <2>5 DEF Next, Progress
<1> QED BY <1>1, SpecInv, PTL DEF Spec, FinalIsFinal

-----------------------------------------------------------------------------
(* The serial token *)

\* The token is free or with a client that is inside Settle or Release and will
\* take it back: no answer, lost acknowledgement, cancellation or panic of the
\* backend leaves it in the channel, where it would stop every later call.
TokenHeld == serial # None => pc[serial] \in {"gate", "calling"}

LEMMA TokenStep == ASSUME Inv, TokenHeld, [Next]_vars PROVE TokenHeld'
<1>1. pc \in [Clients -> {"idle", "waiting", "gate", "calling", "done"}] /\ serial \in Clients \union {None}
    BY DEF Inv, TypeOK
<1>2. ASSUME NEW c \in Clients, Return(c) PROVE TokenHeld'
    BY <1>2 DEF Return, TokenHeld
<1>3. ASSUME NEW c \in Clients, Acquire(c) PROVE TokenHeld'
    BY <1>1, <1>3 DEF Acquire, TokenHeld
<1>4. ASSUME NEW c \in Clients, SettleCalls(c) \/ ReleaseCalls(c) PROVE TokenHeld'
    <2>1. serial' = serial /\ pc' = [pc EXCEPT ![c] = "calling"]
        BY <1>4 DEF SettleCalls, ReleaseCalls
    <2> QED BY <1>1, <2>1 DEF TokenHeld
<1>5. ASSUME NEW c \in Clients, GiveUp(c) \/ \E r \in Requests : Call(c, r) PROVE TokenHeld'
    <2>1. serial' = serial /\ pc[c] \in {"idle", "waiting"} /\ \E s : pc' = [pc EXCEPT ![c] = s]
        BY <1>5 DEF GiveUp, Call
    <2> QED BY <1>1, <2>1 DEF TokenHeld
<1>6. CASE UNCHANGED <<serial, pc>>
    BY <1>6 DEF TokenHeld
<1> QED
    BY <1>2, <1>3, <1>4, <1>5, <1>6
    DEF Next, Progress, Admit, LateCancel, Answer, BackendPending, BackendApplies, BackendFails, Cancel, vars

\* For any number of clients the token of the serial gate is never lost: the
\* safety half of ClientsReturn.
THEOREM SessionKeepsToken == Spec => []TokenHeld
<1>1. Init => TokenHeld
    BY DEF Init, TokenHeld
<1>2. FullInv /\ TokenHeld /\ [Next]_vars => TokenHeld'
    BY TokenStep DEF FullInv
<1> QED BY <1>1, <1>2, SpecInv, PTL DEF Spec

=============================================================================
