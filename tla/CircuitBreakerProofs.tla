------------------------ MODULE CircuitBreakerProofs ------------------------
(***************************************************************************)
(* The breaker for any number of calls, any threshold and reset timeout:   *)
(* one probe at a time, a count below the threshold, no probe before the   *)
(* reset timeout, and completions of an earlier period without effect.     *)
(***************************************************************************)
EXTENDS CircuitBreaker, TLAPS

\* Whoever is running as a probe owns the half-open state.
ProbeInv ==
    /\ \A c \in Calls : Probing(c) =>
        /\ state = "halfOpen"
        /\ probeInFlight
        /\ adm[c].generation = generation
        /\ born[c] = period
    /\ \A c, d \in Calls : Probing(c) /\ Probing(d) => c = d
    /\ probeInFlight => \E c \in Calls : Probing(c)

\* An ordinary call whose generation is still current was admitted in the
\* closed period the breaker is still in.
CurrentInv ==
    \A c \in Calls : (pc[c] = "running" /\ ~adm[c].probe) =>
        /\ adm[c].generation <= generation
        /\ adm[c].generation = generation => state = "closed" /\ born[c] = period

\* The clock never runs behind the timestamps, and openedAt is the last trip.
ClockInv ==
    /\ openedAt = trippedAt
    /\ trippedAt <= now
    /\ ProbeAfterReset

Inv == TypeOK /\ ProbeInv /\ CurrentInv /\ ClosedBelowThreshold /\ ClockInv

LEMMA InitInv == Init => Inv
<1> SUFFICES ASSUME Init PROVE Inv
    OBVIOUS
<1>1. TypeOK
    BY DEF Init, TypeOK, Outcomes, Nil
<1>2. ProbeInv /\ CurrentInv
    BY DEF Init, ProbeInv, CurrentInv, Probing
<1>3. ClosedBelowThreshold /\ ClockInv
    BY BreakerAssumption DEF Init, ClosedBelowThreshold, ClockInv, ProbeAfterReset
<1> QED
    BY <1>1, <1>2, <1>3 DEF Inv

-----------------------------------------------------------------------------
\* What a completion may do to the breaker: nothing, or, if the call is the
\* probe, close / reopen / free the slot, or, if the breaker is closed and the
\* call current, reset / count / trip.
LEMMA FinishCases ==
    ASSUME NEW c \in Calls, NEW r \in Outcomes, Inv, Finish(c, r)
    PROVE \/ UNCHANGED breaker /\ ~Probing(c)
          \/ /\ Probing(c)
             /\ probeInFlight' = FALSE
             /\ failures' = 0
             /\ \/ state' = "halfOpen" /\ generation' = generation /\ openedAt' = openedAt
                \/ state' = "closed" /\ generation' = generation + 1 /\ openedAt' = openedAt
                \/ state' = "open" /\ generation' = generation + 1 /\ openedAt' = now
          \/ /\ ~Probing(c)
             /\ state = "closed"
             /\ adm[c].generation = generation
             /\ born[c] = period
             /\ \/ /\ failures' \in Nat
                   /\ failures' < Threshold
                   /\ UNCHANGED <<state, openedAt, probeInFlight, generation>>
                \/ Open
<1> USE DEF Inv, TypeOK
<1>1. pc[c] = "running"
    BY DEF Finish
<1>2. CASE r = "panic"
    <2>1. Abandon(c)
        BY <1>2 DEF Finish
    <2>2. CASE adm[c].probe
        BY <1>1, <2>1, <2>2 DEF Abandon, Probing, ProbeInv, ClosedBelowThreshold
    <2>3. CASE ~adm[c].probe
        BY <1>1, <2>1, <2>3 DEF Abandon, Probing, breaker
    <2> QED BY <2>2, <2>3
<1>3. CASE r # "panic"
    <2>1. AfterRequest(c, r)
        BY <1>3 DEF Finish
    <2>2. CASE adm[c].probe
        <3>1. AfterProbe(r)
            BY <1>1, <2>1, <2>2 DEF AfterRequest, Stale, Probing, ProbeInv
        <3> QED
            BY <1>1, <2>2, <3>1 DEF AfterProbe, Open, Probing, ProbeInv, ClosedBelowThreshold
    <2>3. CASE ~adm[c].probe
        <3>1. CASE Stale(c)
            BY <1>1, <2>1, <2>3, <3>1 DEF AfterRequest, Probing
        <3>2. CASE ~Stale(c)
            <4>1. AfterClosed(r) /\ state = "closed" /\ adm[c].generation = generation
                BY <2>1, <2>3, <3>2 DEF AfterRequest, Stale
            <4>2. born[c] = period
                BY <1>1, <2>3, <4>1 DEF CurrentInv
            <4> QED
                BY <1>1, <2>3, <4>1, <4>2, BreakerAssumption
                DEF AfterClosed, Probing, ClosedBelowThreshold
        <3> QED BY <3>1, <3>2
    <2> QED BY <2>2, <2>3
<1> QED BY <1>2, <1>3

LEMMA FinishInv ==
    ASSUME NEW c \in Calls, NEW r \in Outcomes, Inv, Finish(c, r)
    PROVE Inv'
<1> USE DEF Inv
<1>1. /\ pc[c] = "running"
      /\ pc' = [pc EXCEPT ![c] = r]
      /\ r # "running"
      /\ UNCHANGED <<now, adm, born>>
      /\ period' = IF state' # state THEN period + 1 ELSE period
      /\ trippedAt' = IF state' = "open" /\ state # "open" THEN now ELSE trippedAt
    BY DEF Finish, Outcomes, Nil
<1>2. CASE UNCHANGED breaker /\ ~Probing(c)
    <2>1. TypeOK'
        BY <1>1, <1>2 DEF TypeOK, breaker
    <2>2. ProbeInv'
        BY <1>1, <1>2 DEF TypeOK, ProbeInv, Probing, breaker
    <2>3. CurrentInv'
        BY <1>1, <1>2 DEF TypeOK, CurrentInv, breaker
    <2>4. ClosedBelowThreshold' /\ ClockInv'
        BY <1>1, <1>2 DEF ClosedBelowThreshold, ClockInv, ProbeAfterReset, breaker
    <2> QED BY <2>1, <2>2, <2>3, <2>4
<1>3. CASE /\ Probing(c)
           /\ probeInFlight' = FALSE
           /\ failures' = 0
           /\ \/ state' = "halfOpen" /\ generation' = generation /\ openedAt' = openedAt
              \/ state' = "closed" /\ generation' = generation + 1 /\ openedAt' = openedAt
              \/ state' = "open" /\ generation' = generation + 1 /\ openedAt' = now
    <2>0. state = "halfOpen"
        BY <1>3 DEF ProbeInv
    <2>1. TypeOK'
        <3>1. probeInFlight' \in BOOLEAN
            BY <1>3, Zenon
        <3>2. /\ pc' \in [Calls -> {"idle", "running", "rejected"} \union Outcomes]
              /\ adm' \in [Calls -> [generation : Nat, probe : BOOLEAN]]
              /\ born' \in [Calls -> Nat]
            BY <1>1 DEF TypeOK
        <3>3. /\ failures' \in Nat /\ openedAt' \in Nat /\ generation' \in Nat
              /\ state' \in {"closed", "open", "halfOpen"}
            BY <1>3 DEF TypeOK
        <3>4. now' \in Nat /\ period' \in Nat /\ trippedAt' \in Nat
            BY <1>1 DEF TypeOK
        <3> QED BY <3>1, <3>2, <3>3, <3>4 DEF TypeOK
    <2>2. ProbeInv'
        BY <1>1, <1>3 DEF TypeOK, ProbeInv, Probing
    <2>3. CurrentInv'
        BY <1>1, <1>3, <2>0 DEF TypeOK, CurrentInv
    <2>4. ClosedBelowThreshold'
        BY <1>3, BreakerAssumption DEF ClosedBelowThreshold
    <2>5. openedAt' = trippedAt' /\ trippedAt' <= now'
        BY <1>1, <1>3, <2>0 DEF TypeOK, ClockInv
    <2>6. ProbeAfterReset'
        BY <1>1, <1>3, <2>0 DEF ClockInv, ProbeAfterReset
    <2> QED BY <2>1, <2>2, <2>3, <2>4, <2>5, <2>6 DEF ClockInv
<1>4. CASE /\ ~Probing(c)
           /\ state = "closed"
           /\ \/ /\ failures' \in Nat
                 /\ failures' < Threshold
                 /\ UNCHANGED <<state, openedAt, probeInFlight, generation>>
              \/ Open
    <2>1. TypeOK'
        <3>1. probeInFlight' \in BOOLEAN
            BY <1>4 DEF TypeOK, Open
        <3>2. /\ pc' \in [Calls -> {"idle", "running", "rejected"} \union Outcomes]
              /\ adm' \in [Calls -> [generation : Nat, probe : BOOLEAN]]
              /\ born' \in [Calls -> Nat]
            BY <1>1 DEF TypeOK
        <3>3. /\ failures' \in Nat /\ openedAt' \in Nat /\ generation' \in Nat
              /\ state' \in {"closed", "open", "halfOpen"}
            BY <1>4 DEF TypeOK, Open
        <3>4. now' \in Nat /\ period' \in Nat /\ trippedAt' \in Nat
            BY <1>1 DEF TypeOK
        <3> QED BY <3>1, <3>2, <3>3, <3>4 DEF TypeOK
    <2>2. ProbeInv'
        BY <1>1, <1>4 DEF TypeOK, ProbeInv, Probing, Open
    <2>3. CurrentInv'
        BY <1>1, <1>4 DEF TypeOK, CurrentInv, Open
    <2>4. ClosedBelowThreshold'
        BY <1>4, BreakerAssumption DEF ClosedBelowThreshold, Open
    <2>5. openedAt' = trippedAt' /\ trippedAt' <= now'
        BY <1>1, <1>4 DEF TypeOK, ClockInv, Open
    <2>6. ProbeAfterReset'
        BY <1>1, <1>4 DEF ProbeAfterReset, Open
    <2> QED BY <2>1, <2>2, <2>3, <2>4, <2>5, <2>6 DEF ClockInv
<1> QED BY <1>2, <1>3, <1>4, FinishCases

LEMMA StepInv == Inv /\ [Next]_vars => Inv'
<1> SUFFICES ASSUME Inv, [Next]_vars PROVE Inv'
    OBVIOUS
<1> USE DEF Inv
<1>1. ASSUME NEW c \in Calls, Reject(c) PROVE Inv'
    BY <1>1 DEF Reject, TypeOK, ProbeInv, CurrentInv, Probing, ClosedBelowThreshold, ClockInv,
        ProbeAfterReset, breaker, history
<1>2. ASSUME NEW c \in Calls, Admit(c) PROVE Inv'
    <2>1. TypeOK'
        BY <1>2 DEF Admit, TypeOK, breaker
    <2>2. ProbeInv'
        BY <1>2 DEF Admit, TypeOK, ProbeInv, Probing, breaker
    <2>3. CurrentInv'
        BY <1>2 DEF Admit, TypeOK, CurrentInv, breaker
    <2>4. ClosedBelowThreshold' /\ ClockInv'
        BY <1>2 DEF Admit, ClosedBelowThreshold, ClockInv, ProbeAfterReset, breaker
    <2> QED BY <2>1, <2>2, <2>3, <2>4
<1>3. ASSUME NEW c \in Calls, AdmitProbe(c) PROVE Inv'
    <2>0. \A d \in Calls : ~Probing(d)
        BY <1>3 DEF AdmitProbe, Rejects, ProbeInv
    <2>1. TypeOK'
        BY <1>3 DEF AdmitProbe, TypeOK
    <2>2. ProbeInv'
        BY <1>3, <2>0 DEF AdmitProbe, TypeOK, ProbeInv, Probing
    <2>3. CurrentInv'
        BY <1>3 DEF AdmitProbe, TypeOK, CurrentInv
    <2>4. ClosedBelowThreshold'
        BY <1>3 DEF AdmitProbe, ClosedBelowThreshold
    <2>5. openedAt' = trippedAt' /\ trippedAt' <= now'
        BY <1>3 DEF AdmitProbe, ClockInv
    <2>6. now - trippedAt >= ResetTimeout
        BY <1>3, BreakerAssumption DEF AdmitProbe, Rejects, Cooling, TypeOK, ClockInv, ProbeAfterReset
    <2>7. ProbeAfterReset'
        BY <1>3, <2>6 DEF AdmitProbe, ProbeAfterReset
    <2> QED BY <2>1, <2>2, <2>3, <2>4, <2>5, <2>7 DEF ClockInv
<1>4. ASSUME NEW c \in Calls, NEW r \in Outcomes, Finish(c, r) PROVE Inv'
    BY <1>4, FinishInv
<1>5. CASE Tick
    <2>1. TypeOK' /\ ProbeInv' /\ CurrentInv' /\ ClosedBelowThreshold'
        BY <1>5 DEF Tick, TypeOK, ProbeInv, CurrentInv, Probing, ClosedBelowThreshold, breaker, history
    <2>2. ClockInv'
        BY <1>5, BreakerAssumption DEF Tick, TypeOK, ClockInv, ProbeAfterReset, breaker, history
    <2> QED BY <2>1, <2>2
<1>6. CASE UNCHANGED vars
    BY <1>6 DEF vars, TypeOK, ProbeInv, CurrentInv, Probing, ClosedBelowThreshold, ClockInv,
        ProbeAfterReset, breaker, history
<1> QED
    BY <1>1, <1>2, <1>3, <1>4, <1>5, <1>6 DEF Next, CallStep

LEMMA SpecInv == Spec => []Inv
<1> QED BY InitInv, StepInv, PTL DEF Spec

-----------------------------------------------------------------------------
\* Type correctness of the model of circuit_breaker.go.
THEOREM BreakerTypeCorrect == Spec => []TypeOK
<1>1. Inv => TypeOK
    BY DEF Inv
<1> QED BY <1>1, SpecInv, PTL

\* However many calls race, at most one half-open probe runs and the probe flag
\* is raised exactly while it does.
THEOREM BreakerSingleProbe == Spec => []SingleProbe
<1>1. Inv => SingleProbe
    BY DEF Inv, ProbeInv, SingleProbe
<1> QED BY <1>1, SpecInv, PTL

\* The failure count stays below the threshold, whatever the threshold.
THEOREM BreakerBelowThreshold == Spec => []ClosedBelowThreshold
<1>1. Inv => ClosedBelowThreshold
    BY DEF Inv
<1> QED BY <1>1, SpecInv, PTL

\* No probe runs within the reset timeout of the latest trip.
THEOREM BreakerProbeAfterReset == Spec => []ProbeAfterReset
<1>1. Inv => ProbeAfterReset
    BY DEF Inv, ClockInv
<1> QED BY <1>1, SpecInv, PTL

\* A completion of a call admitted before the latest state transition never
\* changes the breaker, however late it arrives.
THEOREM BreakerStaleIgnored == Spec => StaleCompletionIgnored
<1> DEFINE Late == \A c \in Calls :
        (pc[c] = "running" /\ pc'[c] # "running" /\ born[c] # period) => UNCHANGED breaker
<1>1. Inv /\ [Next]_vars => [Late]_vars
    <2> SUFFICES ASSUME Inv, Next, NEW c \in Calls,
                        pc[c] = "running", pc'[c] # "running", born[c] # period
                 PROVE UNCHANGED breaker
        OBVIOUS
    <2>1. PICK d \in Calls, r \in Outcomes : Finish(d, r)
        BY DEF Next, Tick, CallStep, Reject, Admit, AdmitProbe, Inv, TypeOK
    <2>2. d = c
        BY <2>1 DEF Finish, Inv, TypeOK
    <2>3. ~Probing(c)
        BY DEF Inv, ProbeInv
    <2> QED
        BY <2>1, <2>2, <2>3, FinishCases
<1> QED BY <1>1, SpecInv, PTL DEF Spec, StaleCompletionIgnored

=============================================================================
