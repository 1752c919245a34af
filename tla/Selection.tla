------------------------------ MODULE Selection ------------------------------
(***************************************************************************)
(* Selector.Select and policy.Dispatch (policy/selection.go) with the      *)
(* model adapter (policy/model/model.go) and affinity (policy/affinity.go):*)
(* a host selects among candidates whose descriptors, affinity and epochs  *)
(* it goes on changing, and dispatches the selection later.  Time 0 is the *)
(* zero time.  Cost and the performance metrics are handled alike, so      *)
(* they are one function of measurements; None stands for a nil pointer or *)
(* a missing map entry.                                                    *)
(***************************************************************************)
EXTENDS Integers, Sequences

CONSTANTS
    Keys,           \* the candidates' keys in declaration order
    Scope,          \* key -> scope
    Descriptors,    \* what the host may publish for a candidate
    Affinities,     \* the affinities the host may ask for
    Request,        \* capabilities, tokens, residencies, retention, task, minimum
    Optional,       \* OptionalEstimatePolicy
    Defaults,       \* Config.Defaults
    Required,       \* the measurements of RequireCost and RequirePerformance
    Deadlines,      \* the nonzero deadlines of the context and the evaluation
    MaxTime,        \* bound on the clock
    MaxChanges,     \* bound on the host's changes
    MaxSelections,  \* bound on calls of Select
    None            \* no value

ASSUME SelectionAssumption ==
    /\ Deadlines \subseteq Nat /\ MaxTime \in Nat /\ MaxChanges \in Nat /\ MaxSelections \in Nat
    /\ Optional \in {"IgnoreOptional", "RejectOptional", "DefaultOptional"}

\* The Go types: every candidate has a scope, times, windows, token counts,
\* scores and costs are numbers, and a descriptor has a place for its cost.
ASSUME DescriptorAssumption ==
    /\ Keys \in Seq(DOMAIN Scope)
    /\ Request.tokens \in Nat /\ (Request.minimum # None => Request.minimum \in Int)
    /\ \A d \in Descriptors :
        /\ d.freshUntil \in Nat /\ d.window \in Nat /\ "cost" \in DOMAIN d.estimates
        /\ d.quality # None => d.quality.score \in Int
        /\ d.estimates["cost"] # None => d.estimates["cost"].value \in Int
    /\ Defaults.estimates["cost"] # None => Defaults.estimates["cost"].value \in Int

VARIABLES
    now,            \* the host's clock
    facts,          \* key -> the host's current descriptor and fingerprint
    refs,           \* the host's current References
    affinity,       \* the affinity of the conversation
    ended,          \* ctx.Err() # nil
    pc,             \* where the call is
    asked,          \* the evaluation and the candidates that Select was given
    index,          \* the loop of Select
    best,           \* the best candidate so far: an index, or 0
    chosen,         \* Selection: status and key
    judged,         \* what ValidatePinned was given
    changes, selections

host == <<now, facts, refs, affinity, ended, changes>>
call == <<pc, asked, index, best, chosen, judged, selections>>
vars == <<host, call>>

\* What a caller reads when it fills in an Evaluation.
Evaluation == [at |-> now, facts |-> facts, refs |-> refs, affinity |-> affinity]

-----------------------------------------------------------------------------
(* policy/model *)

\* Identity, source and window of a measurement, and the numbers in it, are
\* well formed or not: sound.
fresh(m, at) == m # None /\ m.sound /\ m.observed # 0 /\ m.observed <= at /\ at < m.until

validQuality(q, at) == fresh(q, at) /\ q.samples > 0

validTaskQuality(q, at) == Request.task # "" /\ validQuality(q, at) /\ q.task = Request.task

\* Fault: quality falls back to the default of the configuration.
MeasuredOrDefault(d, at) == IF validTaskQuality(d.quality, at) THEN d.quality ELSE Defaults.quality

\* The quality that a minimum is compared with.
Measured(d, at) == d.quality

\* eligibility: "stale" is ErrStaleDescriptor.
eligibility(d, at) ==
    LET quality == Measured(d, at)
    IN CASE d.freshUntil = 0 \/ at >= d.freshUntil -> "stale"
         [] ~(Request.required \subseteq d.capabilities) -> "CapabilityMissing"
         [] Request.tokens > d.window -> "ContextTooSmall"
         [] \/ Request.residencies # {} /\ d.residency \notin Request.residencies
            \/ ~Request.allowRetention /\ d.retains # FALSE -> "DataPolicyMismatch"
         [] Request.minimum # None /\ ~validTaskQuality(quality, at) -> "QualityMissing"
         [] Request.minimum # None /\ quality.score < Request.minimum -> "QualityTooLow"
         [] OTHER -> "Eligible"

\* effectiveEstimates and withDefaults, without the error.
effectiveEstimates(d, at) ==
    LET usable(own, default) ==
          IF fresh(own, at) THEN own
          ELSE IF Optional = "DefaultOptional" /\ fresh(default, at) THEN default ELSE None
    IN [m \in DOMAIN d.estimates |-> usable(d.estimates[m], Defaults.estimates[m])]

\* The caller's rank: cheaper is better, an unknown cost ranks last, and a
\* free candidate is a division by zero.
rank(estimates) ==
    IF estimates["cost"] = None THEN 0
    ELSE IF estimates["cost"].value = 0 THEN None
    ELSE 10 - estimates["cost"].value

\* Rank of the model selector and of Selector; None is every error.
score(d, at) ==
    LET estimates == effectiveEstimates(d, at)
    IN IF Optional # "IgnoreOptional" /\ \E m \in Required : estimates[m] = None THEN None
       ELSE rank(estimates)

-----------------------------------------------------------------------------
(* Affinity *)

active(a, at) == a.expires = 0 \/ at < a.expires

matches(a, key) == key = a.key /\ Scope[key] = a.scope /\ key \in a.compatible

allows(a, key) == a.strength # "Required" \/ matches(a, key)

preferred(a, key, at) == a.strength = "Preferred" /\ matches(a, key) /\ active(a, at)

\* Affinity.validate.
validAffinity(a, at) ==
    \/ a.strength = "None"
    \/ /\ a.trusted = a.scope
       /\ a.strength = "Required" => a.stamp # 0 /\ active(a, at)

\* Fault: the expiry and the state's fingerprint are left out of the stamp.
sameStampLoosely(a, b) == a.strength = b.strength /\ a.key = b.key /\ a.scope = b.scope

\* Everything but the Compatible function.
sameStamp(a, b) ==
    \A field \in {"strength", "key", "scope", "trusted", "stamp", "expires"} : a[field] = b[field]

-----------------------------------------------------------------------------
(* Selector *)

\* effectiveEvaluation and the deadline checks: the earliest deadline counts.
InTime(at) == \A d \in Deadlines : at < d

\* Selector.validate, with the model selector's Validate satisfied.
validate(e) == ~ended /\ InTime(e.at) /\ validAffinity(e.affinity, e.at)

\* Freeze: the copy that Select took of a candidate.
Freeze(e, key) == e.facts[key]

betterCandidate(b, s, bs, p, bp) == b = 0 \/ (p /\ ~bp) \/ (p = bp /\ s > bs)

Init ==
    /\ now = 1 /\ refs = 1 /\ ended = FALSE /\ changes = 0
    /\ facts \in [{Keys[i] : i \in DOMAIN Keys} -> [descriptor : Descriptors, fingerprint : {1}]]
    /\ affinity \in Affinities
    /\ pc = "idle" /\ asked = None /\ index = 0 /\ best = 0
    /\ chosen = None /\ judged = None /\ selections = 0

\* The call returns an error, and with it goes what it had gathered.
Fail ==
    /\ pc' = "idle" /\ asked' = None /\ index' = 0 /\ best' = 0
    /\ chosen' = None /\ judged' = None
    /\ UNCHANGED selections

\* Select up to its loop; a call that validate refuses changes nothing.
Select ==
    /\ pc \in {"idle", "selected"} /\ selections < MaxSelections
    /\ validate(Evaluation)
    /\ selections' = selections + 1
    /\ asked' = Evaluation /\ index' = 1 /\ best' = 0
    /\ chosen' = None /\ judged' = None
    /\ pc' = "choosing"
    /\ UNCHANGED host

\* One candidate.
Consider ==
    LET key == Keys[index]
        d == Freeze(asked, key).descriptor
        eligible == eligibility(d, asked.at)
        allowed == eligible = "Eligible" /\ allows(asked.affinity, key)
        s == score(d, asked.at)
        p == preferred(asked.affinity, key, asked.at)
        bs == score(Freeze(asked, Keys[best]).descriptor, asked.at)
        bp == preferred(asked.affinity, Keys[best], asked.at)
    IN /\ pc = "choosing" /\ index <= Len(Keys)
       /\ UNCHANGED host
       /\ \/ /\ ended \/ eligible = "stale" \/ (allowed /\ s = None)
             /\ Fail
          \/ /\ ~ended /\ eligible # "stale" /\ ~(allowed /\ s = None)
             /\ best' = IF allowed /\ betterCandidate(best, s, bs, p, bp) THEN index ELSE best
             /\ index' = index + 1
             /\ UNCHANGED <<pc, asked, chosen, judged, selections>>

\* The end of Select.
Choose ==
    /\ pc = "choosing" /\ index > Len(Keys)
    /\ chosen' = IF best # 0 THEN [status |-> "Selected", key |-> Keys[best]]
                 ELSE [status |-> IF asked.affinity.strength = "Required" THEN "AffinityUnavailable"
                                  ELSE "NoEligible", key |-> None]
    /\ pc' = "selected"
    /\ UNCHANGED <<host, asked, index, best, judged, selections>>

ValidateFreshness(current) == chosen.status = "Selected" /\ asked.refs = current

\* Dispatch up to the caller's validate.
Dispatch ==
    /\ pc = "selected"
    /\ IF ~ended /\ ValidateFreshness(refs)
       THEN pc' = "validating" /\ UNCHANGED <<asked, index, best, chosen, judged, selections>>
       ELSE Fail
    /\ UNCHANGED host

StillEligible(d, at) == eligibility(d, at) = "Eligible"

\* ValidatePinned, as Dispatch's validate, on facts the host reads now.
ValidatePinned ==
    LET e == Evaluation
        current == e.facts[chosen.key]
    IN /\ pc = "validating"
       /\ IF /\ ValidateFreshness(e.refs)
             /\ sameStamp(asked.affinity, e.affinity)
             /\ validate(e)
             /\ current.fingerprint = asked.facts[chosen.key].fingerprint
             /\ StillEligible(current.descriptor, e.at)
             /\ allows(asked.affinity, chosen.key) /\ allows(e.affinity, chosen.key)
             /\ score(current.descriptor, e.at) # None
          THEN /\ pc' = "pinned" /\ judged' = e
               /\ UNCHANGED <<asked, index, best, chosen, selections>>
          ELSE Fail
       /\ UNCHANGED host

\* The last look at the context, then the caller's route.
Invoke ==
    /\ pc = "pinned"
    /\ IF ended THEN Fail
       ELSE pc' = "dispatched" /\ UNCHANGED <<asked, index, best, chosen, judged, selections>>
    /\ UNCHANGED host

-----------------------------------------------------------------------------
(* The host, outside the library *)

\* The host publishes another descriptor; it names a new fingerprint and new
\* References or leaves the old ones in place.
HostPublishes(key, d) ==
    /\ changes < MaxChanges /\ facts[key].descriptor # d
    /\ \E f, r \in {0, 1} :
         /\ facts' = [facts EXCEPT ![key] = [descriptor |-> d, fingerprint |-> facts[key].fingerprint + f]]
         /\ refs' = refs + r
    /\ changes' = changes + 1
    /\ UNCHANGED <<now, affinity, ended, call>>

HostPins(a) ==
    /\ changes < MaxChanges /\ a # affinity
    /\ affinity' = a /\ changes' = changes + 1
    /\ UNCHANGED <<now, facts, refs, ended, call>>

Tick == now < MaxTime /\ now' = now + 1 /\ UNCHANGED <<facts, refs, affinity, ended, changes, call>>

Cancel == ~ended /\ ended' = TRUE /\ UNCHANGED <<now, facts, refs, affinity, changes, call>>

Next ==
    \/ Select \/ Consider \/ Choose \/ Dispatch \/ ValidatePinned \/ Invoke
    \/ \E i \in DOMAIN Keys, d \in Descriptors : HostPublishes(Keys[i], d)
    \/ \E a \in Affinities : HostPins(a)
    \/ Tick \/ Cancel

Spec == Init /\ [][Next]_vars

-----------------------------------------------------------------------------
\* What a request demands of a candidate: a current descriptor with every
\* capability, room, a permitted place and no forbidden retention, and, under
\* a minimum, a fresh and well-formed measurement of its own for the request's
\* task.
Qualifies(d, at) ==
    /\ at < d.freshUntil
    /\ Request.required \subseteq d.capabilities /\ Request.tokens <= d.window
    /\ Request.residencies = {} \/ d.residency \in Request.residencies
    /\ Request.allowRetention \/ d.retains = FALSE
    /\ Request.minimum # None =>
          /\ d.quality # None /\ d.quality.sound /\ d.quality.samples > 0
          /\ Request.task # "" /\ d.quality.task = Request.task
          /\ d.quality.observed # 0 /\ d.quality.observed <= at /\ at < d.quality.until
          /\ d.quality.score >= Request.minimum

\* Select returns the best of the candidates as they were when it was called:
\* one that qualifies and that a required affinity allows; a live preference
\* beats every score, a score on fresh estimates beats a lower one, and among
\* equals the first declared wins.  If it returns none, none qualified.
SelectsBest ==
    chosen # None =>
        LET at == asked.at
            fit == {i \in DOMAIN Keys : /\ Qualifies(asked.facts[Keys[i]].descriptor, at)
                                        /\ asked.affinity.strength = "Required" => matches(asked.affinity, Keys[i])}
            liked(i) == preferred(asked.affinity, Keys[i], at)
            points(i) == score(asked.facts[Keys[i]].descriptor, at)
            beats(i, j) ==
                IF liked(i) # liked(j) THEN liked(i)
                ELSE points(i) > points(j) \/ (points(i) = points(j) /\ i < j)
        IN IF chosen.status = "Selected"
           THEN \E i \in fit : Keys[i] = chosen.key /\ \A j \in fit \ {i} : beats(i, j)
           ELSE fit = {}

\* What is dispatched is the candidate that was selected, under the epochs and
\* the pin it was selected under, and it still qualified when ValidatePinned
\* looked, however descriptors changed and aged since.  A conversation that is
\* required to stay with an endpoint is dispatched there, with a pin that has
\* not expired, or not at all.
DispatchedStands ==
    pc = "dispatched" =>
        LET key == chosen.key
            pin == judged.affinity
        IN /\ Qualifies(judged.facts[key].descriptor, judged.at)
           /\ judged.facts[key].fingerprint = asked.facts[key].fingerprint
           /\ judged.refs = asked.refs /\ \A d \in Deadlines : judged.at < d
           /\ "Required" \in {asked.affinity.strength, pin.strength} =>
                /\ pin.key = key /\ pin.scope = Scope[key] /\ active(pin, judged.at)
                /\ pin.stamp = asked.affinity.stamp /\ pin.expires = asked.affinity.expires
=============================================================================
