--------------------------- MODULE SelectionProofs ---------------------------
(***************************************************************************)
(* Selection and dispatch for any candidates, descriptors, affinities and  *)
(* requests: the loop of Select keeps the best candidate so far, and what  *)
(* is dispatched was judged on facts read after the selection.             *)
(***************************************************************************)
EXTENDS Selection, SequenceTheorems, TLAPS

KeySet == {Keys[i] : i \in DOMAIN Keys}
Published == [KeySet -> [descriptor : Descriptors, fingerprint : Nat]]
Evaluations == [at : Nat, facts : Published, refs : Nat, affinity : Affinities]
Running == {"choosing", "selected", "validating", "pinned", "dispatched"}
Chosen == {"selected", "validating", "pinned", "dispatched"}

TypeOK ==
    /\ now \in Nat /\ facts \in Published /\ refs \in Nat /\ affinity \in Affinities
    /\ ended \in BOOLEAN
    /\ pc \in {"idle"} \union Running
    /\ pc \in Running => asked \in Evaluations
    /\ pc = "choosing" => index \in 1..(Len(Keys) + 1) /\ best \in 0..(index - 1) /\ chosen = None
    /\ pc = "idle" => chosen = None

-----------------------------------------------------------------------------
(* The candidates of a call with evaluation e *)

descriptorOf(e, i) == e.facts[Keys[i]].descriptor
fits(e, i) == eligibility(descriptorOf(e, i), e.at) = "Eligible" /\ allows(e.affinity, Keys[i])
liked(e, i) == preferred(e.affinity, Keys[i], e.at)
points(e, i) == score(descriptorOf(e, i), e.at)
beats(e, i, j) ==
    \/ liked(e, i) /\ ~liked(e, j)
    \/ (liked(e, i) <=> liked(e, j)) /\ (points(e, i) > points(e, j) \/ (points(e, i) = points(e, j) /\ i < j))

\* b is the best of the candidates before n, or 0 if none of them fits.
BestOf(e, n, b) ==
    /\ b = 0 => \A j \in 1..(n - 1) : ~fits(e, j)
    /\ b # 0 =>
        /\ b \in 1..(n - 1) /\ fits(e, b) /\ points(e, b) \in Int
        /\ \A j \in 1..(n - 1) : fits(e, j) /\ j # b => points(e, j) \in Int /\ beats(e, b, j)

LoopInv == pc = "choosing" => BestOf(asked, index, best)

ChosenInv ==
    pc \in Chosen =>
        \E b \in 0..Len(Keys) :
            /\ BestOf(asked, Len(Keys) + 1, b)
            /\ chosen.status = "Selected" <=> b # 0
            /\ b # 0 => chosen.key = Keys[b]

\* What ValidatePinned found.
PinnedInv ==
    pc \in {"pinned", "dispatched"} =>
        LET key == chosen.key
            pin == judged.affinity
        IN /\ Qualifies(judged.facts[key].descriptor, judged.at)
           /\ judged.facts[key].fingerprint = asked.facts[key].fingerprint
           /\ judged.refs = asked.refs /\ \A d \in Deadlines : judged.at < d
           /\ "Required" \in {asked.affinity.strength, pin.strength} =>
                /\ pin.key = key /\ pin.scope = Scope[key] /\ active(pin, judged.at)
                /\ pin.stamp = asked.affinity.stamp /\ pin.expires = asked.affinity.expires

Inv == TypeOK /\ LoopInv /\ ChosenInv /\ PinnedInv

-----------------------------------------------------------------------------
(* The adapter's answers *)

LEMMA KeysFacts == Len(Keys) \in Nat /\ DOMAIN Keys = 1..Len(Keys)
BY DescriptorAssumption, LenProperties

\* eligibility says Eligible exactly when the request's demands are met.
LEMMA EligibleQualifies ==
    ASSUME NEW d \in Descriptors, NEW at \in Nat
    PROVE eligibility(d, at) = "Eligible" <=> Qualifies(d, at)
<1>1. /\ d.freshUntil \in Nat /\ d.window \in Nat /\ Request.tokens \in Nat
      /\ d.quality # None => d.quality.score \in Int
      /\ Request.minimum # None => Request.minimum \in Int
    BY DescriptorAssumption
<1>2. validTaskQuality(d.quality, at) <=>
        /\ Request.task # "" /\ d.quality # None /\ d.quality.sound /\ d.quality.observed # 0
        /\ d.quality.observed <= at /\ at < d.quality.until /\ d.quality.samples > 0
        /\ d.quality.task = Request.task
    BY DEF validTaskQuality, validQuality, fresh
<1>3. ~(d.freshUntil = 0 \/ at >= d.freshUntil) <=> at < d.freshUntil
    BY <1>1
<1>4. ~(Request.tokens > d.window) <=> Request.tokens <= d.window
    BY <1>1
<1>5. Request.minimum # None /\ d.quality # None =>
        (~(d.quality.score < Request.minimum) <=> d.quality.score >= Request.minimum)
    BY <1>1
<1>6. eligibility(d, at) = "Eligible" <=>
        /\ ~(d.freshUntil = 0 \/ at >= d.freshUntil)
        /\ Request.required \subseteq d.capabilities
        /\ ~(Request.tokens > d.window)
        /\ Request.residencies = {} \/ d.residency \in Request.residencies
        /\ Request.allowRetention \/ d.retains = FALSE
        /\ Request.minimum # None => validTaskQuality(d.quality, at)
        /\ Request.minimum # None => ~(d.quality.score < Request.minimum)
    BY DEF eligibility, Measured
<1> QED BY <1>2, <1>3, <1>4, <1>5, <1>6 DEF Qualifies

\* A score that is not an error is a number.
LEMMA ScoreIsNumber ==
    ASSUME NEW d \in Descriptors, NEW at, score(d, at) # None
    PROVE score(d, at) \in Int
<1> DEFINE estimates == effectiveEstimates(d, at)
<1>1. score(d, at) = rank(estimates)
    BY DEF score
<1>2. estimates["cost"] # None => estimates["cost"].value \in Int
    BY DescriptorAssumption DEF effectiveEstimates
<1> HIDE DEF estimates
<1> QED BY <1>1, <1>2 DEF rank

\* The candidate at n, considered after the best of those before it.
LEMMA BestExtends ==
    ASSUME NEW e, NEW n \in Nat \ {0}, NEW b \in 0..(n - 1), BestOf(e, n, b),
           fits(e, n) => points(e, n) \in Int,
           NEW c, c = IF fits(e, n) /\ betterCandidate(b, points(e, n), points(e, b), liked(e, n), liked(e, b))
                      THEN n ELSE b
    PROVE BestOf(e, n + 1, c) /\ c \in 0..n
<1>0. c \in 0..n
    OBVIOUS
<1>1. CASE ~fits(e, n)
    <2>1. c = b /\ \A j \in 1..n : fits(e, j) => j \in 1..(n - 1)
        BY <1>1
    <2> QED BY <1>0, <2>1 DEF BestOf
<1>2. CASE fits(e, n) /\ b = 0
    <2>1. c = n
        BY <1>2 DEF betterCandidate
    <2>2. \A j \in 1..n : fits(e, j) => j = n
        BY <1>2 DEF BestOf
    <2> QED BY <1>0, <1>2, <2>1, <2>2 DEF BestOf
<1>3. CASE fits(e, n) /\ b # 0
    <2>1. /\ b \in 1..(n - 1) /\ fits(e, b) /\ points(e, b) \in Int /\ points(e, n) \in Int
          /\ \A j \in 1..(n - 1) : fits(e, j) /\ j # b => points(e, j) \in Int /\ beats(e, b, j)
        BY <1>3 DEF BestOf
    <2>2. CASE \/ liked(e, n) /\ ~liked(e, b)
               \/ (liked(e, n) <=> liked(e, b)) /\ points(e, n) > points(e, b)
        <3>1. c = n
            BY <1>3, <2>2 DEF betterCandidate, liked, preferred
        <3>2. beats(e, n, b)
            BY <2>2 DEF beats
        <3>3. ASSUME NEW j \in 1..n, fits(e, j), j # n, j # b
              PROVE points(e, j) \in Int /\ beats(e, n, j)
            <4>1. points(e, j) \in Int /\ beats(e, b, j)
                BY <2>1, <3>3
            <4> QED BY <2>1, <2>2, <4>1 DEF beats
        <3>4. \A j \in 1..n : fits(e, j) /\ j # n => points(e, j) \in Int /\ beats(e, n, j)
            BY <2>1, <3>2, <3>3
        <3> QED BY <1>0, <1>3, <2>1, <3>1, <3>4 DEF BestOf
    <2>3. CASE ~(\/ liked(e, n) /\ ~liked(e, b)
                 \/ (liked(e, n) <=> liked(e, b)) /\ points(e, n) > points(e, b))
        <3>1. c = b
            BY <1>3, <2>3 DEF betterCandidate, liked, preferred
        <3>2. beats(e, b, n)
            BY <2>1, <2>3 DEF beats
        <3>3. \A j \in 1..n : fits(e, j) /\ j # b => points(e, j) \in Int /\ beats(e, b, j)
            BY <2>1, <3>2
        <3> QED BY <1>0, <1>3, <2>1, <3>1, <3>3 DEF BestOf
    <2> QED BY <2>2, <2>3
<1> QED BY <1>1, <1>2, <1>3

-----------------------------------------------------------------------------
(* The actions *)

LEMMA FailInv == ASSUME Inv, Fail, UNCHANGED host PROVE Inv'
BY DEF Inv, TypeOK, LoopInv, ChosenInv, PinnedInv, Running, Chosen, Fail, host

\* Steps of the host leave the call alone.
LEMMA HostInv ==
    ASSUME Inv, UNCHANGED call,
           now' \in Nat, facts' \in Published, refs' \in Nat, affinity' \in Affinities, ended' \in BOOLEAN
    PROVE Inv'
<1>1. TypeOK'
    BY DEF Inv, TypeOK, call
<1>2. LoopInv' /\ ChosenInv'
    BY DEF Inv, LoopInv, ChosenInv, call
<1>3. PinnedInv'
    BY DEF Inv, PinnedInv, call
<1> QED BY <1>1, <1>2, <1>3 DEF Inv

LEMMA EvaluationType == ASSUME Inv PROVE Evaluation \in Evaluations
BY DEF Inv, TypeOK, Evaluation, Evaluations

LEMMA SelectInv == ASSUME Inv, Select PROVE Inv'
<1>1. /\ pc' = "choosing" /\ asked' = Evaluation /\ index' = 1 /\ best' = 0 /\ chosen' = None
      /\ UNCHANGED host
    BY DEF Select
<1>2. TypeOK'
    BY <1>1, EvaluationType, KeysFacts DEF Inv, TypeOK, Running, host
<1>3. LoopInv'
    BY <1>1 DEF LoopInv, BestOf
<1> QED BY <1>1, <1>2, <1>3 DEF Inv, ChosenInv, PinnedInv, Chosen

LEMMA ConsiderInv == ASSUME Inv, Consider PROVE Inv'
<1> DEFINE d == descriptorOf(asked, index)
           allowed == eligibility(d, asked.at) = "Eligible" /\ allows(asked.affinity, Keys[index])
<1>0. pc = "choosing" /\ index <= Len(Keys) /\ UNCHANGED host
    BY DEF Consider
<1>1. asked \in Evaluations /\ index \in 1..Len(Keys) /\ best \in 0..(index - 1) /\ chosen = None
    BY <1>0, KeysFacts DEF Inv, TypeOK, Running
<1>2. d \in Descriptors
    <2>1. Keys[index] \in KeySet
        BY <1>1, KeysFacts DEF KeySet
    <2>2. asked.facts[Keys[index]] \in [descriptor : Descriptors, fingerprint : Nat]
        BY <1>1, <2>1 DEF Evaluations, Published
    <2> QED BY <2>2 DEF descriptorOf
<1>3. CASE Fail
    BY <1>0, <1>3, FailInv
<1>4. CASE ~Fail
    <2>1. /\ ~(allowed /\ score(d, asked.at) = None)
          /\ best' = IF allowed /\ betterCandidate(best, score(d, asked.at), points(asked, best),
                                                   liked(asked, index), liked(asked, best))
                     THEN index ELSE best
          /\ index' = index + 1
          /\ UNCHANGED <<pc, asked, chosen, judged, selections>>
        BY <1>4 DEF Consider, Freeze, descriptorOf, points, liked
    <2>2. fits(asked, index) => points(asked, index) \in Int
        BY <1>2, <2>1, ScoreIsNumber DEF fits, points
    <2>3. best' = IF fits(asked, index)
                       /\ betterCandidate(best, points(asked, index), points(asked, best),
                                          liked(asked, index), liked(asked, best))
                  THEN index ELSE best
        BY <2>1 DEF fits, points
    <2>4. index \in Nat \ {0} /\ BestOf(asked, index, best)
        BY <1>0, <1>1 DEF Inv, LoopInv
    <2>5. BestOf(asked, index + 1, best') /\ best' \in 0..index
        BY <1>1, <2>2, <2>3, <2>4, BestExtends
    <2>6. TypeOK'
        BY <1>0, <1>1, <2>1, <2>5, KeysFacts DEF Inv, TypeOK, host, Running
    <2>7. LoopInv'
        BY <2>1, <2>5 DEF LoopInv
    <2>8. ChosenInv' /\ PinnedInv'
        BY <1>0, <2>1 DEF ChosenInv, PinnedInv, Chosen
    <2> QED BY <2>6, <2>7, <2>8 DEF Inv
<1> QED BY <1>3, <1>4

LEMMA ChooseInv == ASSUME Inv, Choose PROVE Inv'
<1>1. /\ pc = "choosing" /\ index > Len(Keys) /\ pc' = "selected"
      /\ UNCHANGED <<host, asked, index, best, judged, selections>>
      /\ chosen' = IF best # 0 THEN [status |-> "Selected", key |-> Keys[best]]
                   ELSE [status |-> IF asked.affinity.strength = "Required" THEN "AffinityUnavailable"
                                    ELSE "NoEligible", key |-> None]
    BY DEF Choose
<1>2. index = Len(Keys) + 1 /\ best \in 0..Len(Keys) /\ BestOf(asked, index, best)
    BY <1>1, KeysFacts DEF Inv, TypeOK, LoopInv, Running
<1>3. (chosen'.status = "Selected" <=> best # 0) /\ (best # 0 => chosen'.key = Keys[best])
    BY <1>1
<1>4. ChosenInv'
    <2> SUFFICES \E b \in 0..Len(Keys) :
                    /\ BestOf(asked, Len(Keys) + 1, b)
                    /\ chosen'.status = "Selected" <=> b # 0
                    /\ b # 0 => chosen'.key = Keys[b]
        BY <1>1 DEF ChosenInv
    <2> QED BY <1>2, <1>3
<1>5. TypeOK'
    BY <1>1 DEF Inv, TypeOK, host, Running
<1> QED BY <1>1, <1>4, <1>5 DEF Inv, LoopInv, PinnedInv

\* The call goes on with what it has.
LEMMA GoesOn ==
    ASSUME Inv, pc \in Chosen, pc' \in Chosen, UNCHANGED <<host, asked, index, best, chosen, selections>>
    PROVE TypeOK' /\ LoopInv' /\ ChosenInv'
<1>1. TypeOK'
    BY DEF Inv, TypeOK, host, Running, Chosen
<1> QED BY <1>1 DEF Inv, LoopInv, ChosenInv, Chosen

LEMMA DispatchInv == ASSUME Inv, Dispatch PROVE Inv'
<1>0. pc = "selected" /\ UNCHANGED host
    BY DEF Dispatch
<1>1. CASE Fail
    BY <1>0, <1>1, FailInv
<1>2. CASE pc' = "validating" /\ UNCHANGED <<asked, index, best, chosen, judged, selections>>
    <2>1. TypeOK' /\ LoopInv' /\ ChosenInv'
        BY <1>0, <1>2, GoesOn DEF Chosen
    <2> QED BY <1>2, <2>1 DEF Inv, PinnedInv
<1> QED BY <1>1, <1>2 DEF Dispatch

LEMMA ValidatePinnedInv == ASSUME Inv, ValidatePinned PROVE Inv'
<1> DEFINE e == Evaluation
           key == chosen.key
           current == e.facts[key]
<1>0. pc = "validating" /\ UNCHANGED host
    BY DEF ValidatePinned
<1>1. CASE Fail
    BY <1>0, <1>1, FailInv
<1>2. CASE ~Fail
    <2>1. /\ ValidateFreshness(e.refs)
          /\ sameStamp(asked.affinity, e.affinity)
          /\ validate(e)
          /\ current.fingerprint = asked.facts[key].fingerprint
          /\ StillEligible(current.descriptor, e.at)
          /\ allows(e.affinity, key)
          /\ pc' = "pinned" /\ judged' = e
          /\ UNCHANGED <<asked, index, best, chosen, selections>>
        BY <1>2 DEF ValidatePinned
    <2>2. TypeOK' /\ LoopInv' /\ ChosenInv'
        BY <1>0, <2>1, GoesOn DEF Chosen
    <2>3. key \in KeySet
        <3>1. PICK b \in 0..Len(Keys) : (chosen.status = "Selected" <=> b # 0) /\ (b # 0 => key = Keys[b])
            BY <1>0 DEF Inv, ChosenInv, Chosen
        <3>2. b # 0
            BY <2>1, <3>1 DEF ValidateFreshness
        <3> QED BY <3>1, <3>2, KeysFacts DEF KeySet
    <2>4. e \in Evaluations
        BY EvaluationType
    <2> HIDE DEF e
    <2>5. e.at \in Nat /\ current.descriptor \in Descriptors
        BY <2>3, <2>4 DEF Evaluations, Published
    <2>6. Qualifies(current.descriptor, e.at)
        BY <2>1, <2>5, EligibleQualifies DEF StillEligible
    <2>7. e.refs = asked.refs /\ \A t \in Deadlines : e.at < t
        BY <2>1 DEF ValidateFreshness, validate, InTime
    <2>8. /\ e.affinity.strength = asked.affinity.strength
          /\ e.affinity.stamp = asked.affinity.stamp /\ e.affinity.expires = asked.affinity.expires
        BY <2>1 DEF sameStamp
    <2>9. e.affinity.strength = "Required" =>
            e.affinity.key = key /\ e.affinity.scope = Scope[key] /\ active(e.affinity, e.at)
        BY <2>1 DEF validate, validAffinity, allows, matches
    <2>10. PinnedInv'
        BY <2>1, <2>6, <2>7, <2>8, <2>9 DEF PinnedInv
    <2> QED BY <2>2, <2>10 DEF Inv
<1> QED BY <1>1, <1>2

LEMMA InvokeInv == ASSUME Inv, Invoke PROVE Inv'
<1>0. pc = "pinned" /\ UNCHANGED host
    BY DEF Invoke
<1>1. CASE Fail
    BY <1>0, <1>1, FailInv
<1>2. CASE pc' = "dispatched" /\ UNCHANGED <<asked, index, best, chosen, judged, selections>>
    <2>1. TypeOK' /\ LoopInv' /\ ChosenInv'
        BY <1>0, <1>2, GoesOn DEF Chosen
    <2>2. PinnedInv'
        BY <1>0, <1>2 DEF Inv, PinnedInv
    <2> QED BY <2>1, <2>2 DEF Inv
<1> QED BY <1>1, <1>2 DEF Invoke

LEMMA HostPublishesInv ==
    ASSUME Inv, NEW i \in DOMAIN Keys, NEW d \in Descriptors, HostPublishes(Keys[i], d)
    PROVE Inv'
<1>1. PICK f \in {0, 1}, r \in {0, 1} :
        /\ facts' = [facts EXCEPT ![Keys[i]] = [descriptor |-> d, fingerprint |-> facts[Keys[i]].fingerprint + f]]
        /\ refs' = refs + r
    BY DEF HostPublishes
<1>2. Keys[i] \in KeySet
    BY DEF KeySet
<1>3. facts[Keys[i]].fingerprint + f \in Nat
    BY <1>2 DEF Inv, TypeOK, Published
<1>4. facts' \in Published
    BY <1>1, <1>3 DEF Inv, TypeOK, Published
<1> QED BY <1>1, <1>4, HostInv DEF HostPublishes, Inv, TypeOK

-----------------------------------------------------------------------------
(* The invariant, and what follows from it *)

LEMMA InitInv == Init => Inv
<1> SUFFICES ASSUME Init PROVE Inv
    OBVIOUS
<1>1. facts \in Published
    BY DEF Init, Published, KeySet
<1> QED BY <1>1 DEF Init, Inv, TypeOK, LoopInv, ChosenInv, PinnedInv, Running, Chosen

LEMMA StepInv == Inv /\ [Next]_vars => Inv'
<1> SUFFICES ASSUME Inv, [Next]_vars PROVE Inv'
    OBVIOUS
<1>1. CASE Select
    BY <1>1, SelectInv
<1>2. CASE Consider
    BY <1>2, ConsiderInv
<1>3. CASE Choose
    BY <1>3, ChooseInv
<1>4. CASE Dispatch
    BY <1>4, DispatchInv
<1>5. CASE ValidatePinned
    BY <1>5, ValidatePinnedInv
<1>6. CASE Invoke
    BY <1>6, InvokeInv
<1>7. CASE \E i \in DOMAIN Keys, d \in Descriptors : HostPublishes(Keys[i], d)
    BY <1>7, HostPublishesInv
<1>8. CASE \E a \in Affinities : HostPins(a)
    BY <1>8, HostInv DEF HostPins, Inv, TypeOK
<1>9. CASE Tick
    BY <1>9, HostInv DEF Tick, Inv, TypeOK
<1>10. CASE Cancel
    BY <1>10, HostInv DEF Cancel, Inv, TypeOK
<1>11. CASE UNCHANGED vars
    BY <1>11, HostInv DEF vars, host, Inv, TypeOK
<1> QED BY <1>1, <1>2, <1>3, <1>4, <1>5, <1>6, <1>7, <1>8, <1>9, <1>10, <1>11 DEF Next

LEMMA SpecInv == Spec => []Inv
BY InitInv, StepInv, PTL DEF Spec

\* Select never reads past the candidates, and a call that runs has an
\* evaluation it was given.
THEOREM SelectionTypeCorrect == Spec => []TypeOK
<1>1. Inv => TypeOK
    BY DEF Inv
<1> QED BY <1>1, SpecInv, PTL

\* Select returns the best of the candidates that qualified when it was
\* called, by preference, then score, then order, or says that none did,
\* for any number of candidates and whatever the host publishes meanwhile.
THEOREM SelectionSelectsBest == Spec => []SelectsBest
<1>1. Inv => SelectsBest
    <2> SUFFICES ASSUME Inv, chosen # None PROVE SelectsBest
        BY DEF SelectsBest
    <2> DEFINE fit == {i \in DOMAIN Keys :
                          /\ Qualifies(asked.facts[Keys[i]].descriptor, asked.at)
                          /\ asked.affinity.strength = "Required" => matches(asked.affinity, Keys[i])}
    <2>1. pc \in Chosen /\ asked \in Evaluations
        BY DEF Inv, TypeOK, Running, Chosen
    <2>2. PICK b \in 0..Len(Keys) :
            /\ BestOf(asked, Len(Keys) + 1, b)
            /\ chosen.status = "Selected" <=> b # 0
            /\ b # 0 => chosen.key = Keys[b]
        BY <2>1 DEF Inv, ChosenInv
    <2>3. \A i \in DOMAIN Keys : descriptorOf(asked, i) \in Descriptors /\ asked.at \in Nat
        BY <2>1 DEF Evaluations, Published, KeySet, descriptorOf
    <2>4. \A i \in DOMAIN Keys : i \in fit <=> fits(asked, i)
        BY <2>3, EligibleQualifies DEF fits, allows, descriptorOf
    <2>5. DOMAIN Keys = 1..(Len(Keys) + 1 - 1) /\ Len(Keys) \in Nat
        BY KeysFacts
    <2>6. CASE b = 0
        <3>1. fit = {}
            BY <2>2, <2>4, <2>5, <2>6 DEF BestOf
        <3> QED BY <2>2, <2>6, <3>1 DEF SelectsBest
    <2>7. CASE b # 0
        <3>1. b \in fit /\ points(asked, b) \in Int
            BY <2>2, <2>4, <2>5, <2>7 DEF BestOf
        <3>2. \A j \in fit \ {b} : beats(asked, b, j)
            BY <2>2, <2>4, <2>5, <2>7 DEF BestOf
        <3> HIDE DEF fit
        <3>3. ASSUME NEW j \in fit \ {b}
              PROVE IF preferred(asked.affinity, Keys[b], asked.at) # preferred(asked.affinity, Keys[j], asked.at)
                    THEN preferred(asked.affinity, Keys[b], asked.at)
                    ELSE \/ points(asked, b) > points(asked, j)
                         \/ points(asked, b) = points(asked, j) /\ b < j
            BY <3>2, <3>3 DEF beats, liked, preferred
        <3>4. chosen.status = "Selected" /\ Keys[b] = chosen.key
            BY <2>2, <2>7
        <3> USE DEF fit
        <3> QED BY <3>1, <3>3, <3>4 DEF SelectsBest, points, descriptorOf
    <2> QED BY <2>6, <2>7
<1> QED BY <1>1, SpecInv, PTL

\* What is dispatched is the candidate that was selected, judged again on the
\* descriptor, the epochs and the pin that were current afterwards; a required
\* affinity is dispatched to its endpoint before it expires, or not at all.
THEOREM SelectionDispatchedStands == Spec => []DispatchedStands
<1>1. Inv => DispatchedStands
    BY DEF Inv, PinnedInv, DispatchedStands
<1> QED BY <1>1, SpecInv, PTL

=============================================================================
