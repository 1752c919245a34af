--------------------------- MODULE CircuitBreaker ---------------------------
(***************************************************************************)
(* The CircuitBreaker middleware (circuit_breaker.go) shared by concurrent *)
(* calls.  beforeRequest, afterRequest and abandon are critical sections   *)
(* of st.mu, hence one step each; the handler and the classifier run       *)
(* between them, so completions arrive in any order and at any time.       *)
(*                                                                         *)
(* Each call passes once.  period, born and trippedAt are history          *)
(* variables, kept independently of st.generation and st.openedAt.         *)
(***************************************************************************)
EXTENDS Integers

CONSTANTS
    Calls,          \* the calls that pass through the middleware
    Threshold,      \* failureThreshold
    ResetTimeout,   \* resetTimeout, in clock ticks
    MaxTime         \* bound: the clock stops here

\* The constructor answers every call with a configuration error otherwise.
ASSUME BreakerAssumption ==
    /\ Threshold \in Nat \ {0}
    /\ ResetTimeout \in Nat
    /\ MaxTime \in Nat

VARIABLES
    failures, state, openedAt, probeInFlight, generation,   \* circuitBreakerState
    now,            \* time.Now()
    pc,             \* "idle", "running", "rejected", or how the call ended
    adm,            \* circuitAdmission of each admitted call
    period,         \* history: number of state transitions so far
    born,           \* history: the period in which each call was admitted
    trippedAt       \* history: when the breaker last went to open

history == <<period, born, trippedAt>>
breaker == <<failures, state, openedAt, probeInFlight, generation>>
vars == <<breaker, now, pc, adm, history>>

\* How the handler can end: a nil error with a payload or with ActionNext, an
\* error that circuitFailure counts, one it excludes (cancellation, deadline,
\* rejected by isFailure), or a panic of the handler or of the classifier.
Nil == {"payload", "next"}
Outcomes == Nil \union {"failure", "excluded", "panic"}

TypeOK ==
    /\ failures \in Nat
    /\ state \in {"closed", "open", "halfOpen"}
    /\ openedAt \in Nat
    /\ probeInFlight \in BOOLEAN
    /\ generation \in Nat
    /\ now \in Nat
    /\ pc \in [Calls -> {"idle", "running", "rejected"} \union Outcomes]
    /\ adm \in [Calls -> [generation : Nat, probe : BOOLEAN]]
    /\ period \in Nat
    /\ born \in [Calls -> Nat]
    /\ trippedAt \in Nat

Init ==
    /\ failures = 0
    /\ state = "closed"
    /\ openedAt = 0
    /\ probeInFlight = FALSE
    /\ generation = 0
    /\ now = 0
    /\ pc = [c \in Calls |-> "idle"]
    /\ adm = [c \in Calls |-> [generation |-> 0, probe |-> FALSE]]
    /\ period = 0
    /\ born = [c \in Calls |-> 0]
    /\ trippedAt = 0

-----------------------------------------------------------------------------
(* beforeRequest *)

Cooling == state = "open" /\ now - openedAt < ResetTimeout

\* Open within the reset timeout, or half-open with a probe in flight.
Rejects == Cooling \/ (state = "halfOpen" /\ probeInFlight)

Reject(c) ==
    /\ pc[c] = "idle"
    /\ Rejects
    /\ pc' = [pc EXCEPT ![c] = "rejected"]
    /\ UNCHANGED <<breaker, now, adm, history>>

\* The breaker is closed: the call carries the current generation.
Admit(c) ==
    /\ pc[c] = "idle"
    /\ state = "closed"
    /\ pc' = [pc EXCEPT ![c] = "running"]
    /\ adm' = [adm EXCEPT ![c] = [generation |-> generation, probe |-> FALSE]]
    /\ born' = [born EXCEPT ![c] = period]
    /\ UNCHANGED <<breaker, now, period, trippedAt>>

\* Fault: a half-open breaker admits every call as a probe.
AdmitProbeAlways(c) ==
    /\ pc[c] = "idle"
    /\ state # "closed"
    /\ ~Cooling
    /\ state' = "halfOpen"
    /\ probeInFlight' = TRUE
    /\ generation' = generation + 1
    /\ pc' = [pc EXCEPT ![c] = "running"]
    /\ adm' = [adm EXCEPT ![c] = [generation |-> generation', probe |-> TRUE]]
    /\ period' = IF state = "open" THEN period + 1 ELSE period
    /\ born' = [born EXCEPT ![c] = period']
    /\ UNCHANGED <<failures, openedAt, now, trippedAt>>

\* Open and rested, or half-open without a probe: the call becomes the probe.
\* Leaving the open state and issuing the probe bump the generation each.
AdmitProbe(c) ==
    /\ pc[c] = "idle"
    /\ state # "closed"
    /\ ~Rejects
    /\ state' = "halfOpen"
    /\ probeInFlight' = TRUE
    /\ generation' = generation + (IF state = "open" THEN 2 ELSE 1)
    /\ pc' = [pc EXCEPT ![c] = "running"]
    /\ adm' = [adm EXCEPT ![c] = [generation |-> generation', probe |-> TRUE]]
    /\ period' = IF state = "open" THEN period + 1 ELSE period
    /\ born' = [born EXCEPT ![c] = period']
    /\ UNCHANGED <<failures, openedAt, now, trippedAt>>

-----------------------------------------------------------------------------
(* afterRequest and abandon *)

\* Fault: reopening after a failed probe keeps the timestamp of the first trip.
OpenKeepsTimestamp ==
    /\ state' = "open"
    /\ openedAt' = IF state = "closed" THEN now ELSE openedAt
    /\ failures' = 0
    /\ probeInFlight' = FALSE
    /\ generation' = generation + 1

Open ==
    /\ state' = "open"
    /\ openedAt' = now
    /\ failures' = 0
    /\ probeInFlight' = FALSE
    /\ generation' = generation + 1

\* The probe's own completion: success closes, a counted failure reopens, an
\* excluded error leaves the breaker half-open for the next probe.
AfterProbe(r) ==
    \/ /\ r \in Nil
       /\ state' = "closed"
       /\ failures' = 0
       /\ probeInFlight' = FALSE
       /\ generation' = generation + 1
       /\ UNCHANGED openedAt
    \/ r = "failure" /\ Open
    \/ /\ r = "excluded"
       /\ probeInFlight' = FALSE
       /\ UNCHANGED <<failures, state, openedAt, generation>>

\* An ordinary completion: anything but a counted failure resets the count.
AfterClosed(r) ==
    \/ r # "failure" /\ failures' = 0 /\ UNCHANGED <<state, openedAt, probeInFlight, generation>>
    \/ /\ r = "failure"
       /\ IF failures + 1 >= Threshold
          THEN Open
          ELSE failures' = failures + 1 /\ UNCHANGED <<state, openedAt, probeInFlight, generation>>

\* Fault: the generation of a completion is not compared.
StaleNever(c) ==
    IF adm[c].probe THEN state # "halfOpen" \/ ~probeInFlight ELSE state # "closed"

\* The early returns of afterRequest.
Stale(c) ==
    \/ adm[c].generation # generation
    \/ IF adm[c].probe THEN state # "halfOpen" \/ ~probeInFlight ELSE state # "closed"

AfterRequest(c, r) ==
    IF Stale(c) THEN UNCHANGED breaker
    ELSE IF adm[c].probe THEN AfterProbe(r)
    ELSE AfterClosed(r)

\* Fault: a panicking probe keeps the probe slot.
AbandonNothing(c) == UNCHANGED breaker

Abandon(c) ==
    /\ probeInFlight' =
        IF adm[c].probe /\ adm[c].generation = generation /\ state = "halfOpen"
        THEN FALSE ELSE probeInFlight
    /\ UNCHANGED <<failures, state, openedAt, generation>>

Finish(c, r) ==
    /\ pc[c] = "running"
    /\ IF r = "panic" THEN Abandon(c) ELSE AfterRequest(c, r)
    /\ pc' = [pc EXCEPT ![c] = r]
    /\ period' = IF state' # state THEN period + 1 ELSE period
    /\ trippedAt' = IF state' = "open" /\ state # "open" THEN now ELSE trippedAt
    /\ UNCHANGED <<now, adm, born>>

Tick ==
    /\ now < MaxTime
    /\ now' = now + 1
    /\ UNCHANGED <<breaker, pc, adm, history>>

-----------------------------------------------------------------------------
CallStep(c) == Reject(c) \/ Admit(c) \/ AdmitProbe(c) \/ \E r \in Outcomes : Finish(c, r)

Next == Tick \/ \E c \in Calls : CallStep(c)

Spec == Init /\ [][Next]_vars

\* The wrapped handler returns or panics; nothing else is assumed.
Fairness == \A c \in Calls : WF_vars(\E r \in Outcomes : Finish(c, r))

FairSpec == Spec /\ Fairness

-----------------------------------------------------------------------------
(* Safety *)

Probing(c) == pc[c] = "running" /\ adm[c].probe

\* docs/routing-contracts.md: "Exactly one half-open probe runs".  Two handler
\* invocations admitted as probes never overlap, and the flag that keeps others
\* out is raised exactly while one of them is running.
SingleProbe ==
    /\ \A c, d \in Calls : Probing(c) /\ Probing(d) => c = d
    /\ probeInFlight <=> \E c \in Calls : Probing(c)

\* The breaker never sits closed with a full failure count, and starts every
\* closed period from zero.
ClosedBelowThreshold == failures < Threshold /\ (state # "closed" => failures = 0)

\* A probe never runs before the reset timeout of the latest trip is over.
ProbeAfterReset == state = "halfOpen" => now - trippedAt >= ResetTimeout

(* Action properties *)

\* "old completion cannot change a new probe": a call admitted before the latest
\* state transition leaves the breaker alone when it completes.
StaleCompletionIgnored ==
    [][\A c \in Calls :
        (pc[c] = "running" /\ pc'[c] # "running" /\ born[c] # period) => UNCHANGED breaker]_vars

(* Liveness *)

\* The probe slot is always given back, also when the probe panics: the breaker
\* cannot stay half-open rejecting everybody.
ProbeReleased == probeInFlight ~> ~probeInFlight

=============================================================================
