--------------------------- MODULE SequenceProofs ---------------------------
(***************************************************************************)
(* attempt.Coordinator for any finite set of attempts, any number of       *)
(* authorizers, any budget and any host evidence; then execution.Sequence, *)
(* whose every step is a step of the Coordinator or leaves it alone.       *)
(***************************************************************************)
EXTENDS Sequence, FiniteSetTheorems, SequenceTheorems, TLAPS

-----------------------------------------------------------------------------
(* Coordinator *)

\* decide permits a repeat only when it is safe.
LEMMA DecideSafe ==
    ASSUME NEW e \in Events, NEW n \in Int, NEW replay \in Replays, validEvent(e),
           decide(e, n, replay).action \in {"Retry", "Fallback"}
    PROVE SafeToRepeat(e, replay)
BY DEF decide, SafeToRepeat, Events, Replays, Outcomes

\* A granted attempt has left BeforeDispatch, so it cannot be granted again.
GrantInv ==
    \A a \in Attempts :
        /\ grants[a] <= 1
        /\ grants[a] = 1 => a \in Allocated /\ events[a].phase >= Dispatched

Inv == TypeOK /\ FactsValid /\ WithinBudget /\ GrantInv /\ GrantedOnCurrentFacts

LEMMA AllocatedFinite == IsFiniteSet(Allocated) /\ Cardinality(Allocated) \in Nat
<1>1. IsFiniteSet(Allocated)
    BY FS_Subset, CoordinatorAssumption DEF Allocated
<1> QED BY <1>1, FS_CardinalityType

LEMMA InitInv == Init => Inv
<1> SUFFICES ASSUME Init PROVE Inv
    OBVIOUS
<1>1. Allocated = {}
    BY DEF Init, Allocated
<1>2. TypeOK
    BY DEF Init, TypeOK
<1>3. WithinBudget
    BY <1>1, FS_EmptySet, CoordinatorAssumption DEF WithinBudget
<1> QED
    BY <1>1, <1>2, <1>3 DEF Init, Inv, FactsValid, GrantInv, GrantedOnCurrentFacts

-----------------------------------------------------------------------------
LEMMA FreshEvent == Fresh \in Events /\ validEvent(Fresh) /\ Fresh.phase = BeforeDispatch
BY DEF Fresh, Events, Phases, Outcomes, validEvent, BeforeDispatch, Dispatched, StreamOpened, Terminal

\* What Update stores is an event again.
LEMMA FollowsEvent ==
    ASSUME NEW p \in Events, NEW e \in RawEvents, Follows(p, e)
    PROVE e \in Events /\ validEvent(e) /\ e.phase >= p.phase
BY DEF Follows, validEvent, RawEvents, Events, Phases, Outcomes, BeforeDispatch, Dispatched, Terminal

\* The event AuthorizeRepeat stores for a granted attempt.
LEMMA DispatchedFresh ==
    LET e == [Fresh EXCEPT !.phase = Dispatched]
    IN /\ e \in Events
       /\ e.phase = Dispatched /\ ~e.committed /\ e.outcome = "Unknown"
<1>1. Fresh \in Events /\ Fresh.committed = FALSE /\ Fresh.outcome = "Unknown"
    BY FreshEvent DEF Fresh
<1>2. Dispatched \in Phases
    BY DEF Phases, BeforeDispatch, Dispatched, Terminal
<1> QED BY <1>1, <1>2 DEF Events

LEMMA BeginInv == ASSUME NEW a \in Attempts, Inv, Begin(a) PROVE Inv'
<1> USE DEF Inv
<1>1. events' = [events EXCEPT ![a] = Fresh] /\ events[a] = NotAllocated
      /\ UNCHANGED <<cancelled, view, granted, grants>>
    BY DEF Begin
<1>2. Allocated' = Allocated \union {a} /\ a \notin Allocated
    BY <1>1, FreshEvent, CoordinatorAssumption DEF Allocated, TypeOK
<1>3. TypeOK'
    BY <1>1, FreshEvent DEF TypeOK
<1>4. FactsValid'
    BY <1>1, <1>2, FreshEvent DEF FactsValid, TypeOK, Allocated
<1>5. WithinBudget'
    <2>1. Cardinality(Allocated \union {a}) = Cardinality(Allocated) + 1
        BY <1>2, AllocatedFinite, FS_AddElement
    <2>2. Cardinality(Allocated) < Limit
        BY DEF Begin
    <2> QED BY <1>2, <2>1, <2>2, AllocatedFinite, CoordinatorAssumption DEF WithinBudget
<1>6. GrantInv'
    BY <1>1, <1>2 DEF GrantInv, TypeOK, Allocated
<1>7. GrantedOnCurrentFacts'
    BY <1>1 DEF GrantedOnCurrentFacts
<1> QED BY <1>3, <1>4, <1>5, <1>6, <1>7

LEMMA UpdateInv ==
    ASSUME NEW a \in Attempts, NEW e \in RawEvents, Inv, Update(a, e) PROVE Inv'
<1> USE DEF Inv
<1>1. /\ events' = [events EXCEPT ![a] = e] /\ a \in Allocated
      /\ UNCHANGED <<cancelled, view, granted, grants>>
    BY DEF Update
<1>2. events[a] \in Events /\ e \in Events /\ validEvent(e) /\ e.phase >= events[a].phase
    <2>1. events[a] \in Events
        BY <1>1 DEF TypeOK, Allocated
    <2> QED BY <2>1, FollowsEvent DEF Update
<1>3. Allocated' = Allocated
    BY <1>1, <1>2, CoordinatorAssumption DEF Allocated, TypeOK
<1>4. TypeOK'
    BY <1>1, <1>2 DEF TypeOK
<1>5. FactsValid'
    BY <1>1, <1>2, <1>3 DEF FactsValid, TypeOK, Allocated
<1>6. WithinBudget'
    BY <1>3 DEF WithinBudget
<1>7. GrantInv'
    <2> SUFFICES ASSUME NEW b \in Attempts
                 PROVE /\ grants'[b] <= 1
                       /\ grants'[b] = 1 => b \in Allocated' /\ events'[b].phase >= Dispatched
        BY DEF GrantInv
    <2>1. CASE b = a
        BY <1>1, <1>2, <1>3, <2>1 DEF GrantInv, TypeOK, Events, Phases, BeforeDispatch, Dispatched, Terminal
    <2>2. CASE b # a
        BY <1>1, <1>3, <2>2 DEF GrantInv, TypeOK
    <2> QED BY <2>1, <2>2
<1>8. GrantedOnCurrentFacts'
    BY <1>1 DEF GrantedOnCurrentFacts
<1> QED BY <1>4, <1>5, <1>6, <1>7, <1>8

\* A permitted repeat: the preconditions hold, the authorizer's view is current.
LEMMA GrantFacts ==
    ASSUME NEW r \in Authorizers, Inv, view[r] # NoView,
           Verdict(view[r], r \in cancelled).action \in {"Retry", "Fallback"}
    PROVE /\ view[r] \in Views
          /\ Repeatable(view[r].previous, view[r].next)
          /\ events[view[r].previous] = view[r].event
          /\ view[r].event.phase = Terminal
          /\ SafeToRepeat(view[r].event, Evidence[view[r].event])
<1> DEFINE v == view[r]
<1>1. v \in Views
    BY DEF Inv, TypeOK
<1>2. /\ Repeatable(v.previous, v.next)
      /\ events[v.previous] = v.event
      /\ decide(v.event, ReservedRemaining, Evidence[v.event]).action \in {"Retry", "Fallback"}
    BY DEF Verdict
<1>3. v.event \in Events /\ Evidence[v.event] \in Replays
    BY <1>1, CoordinatorAssumption DEF Views
<1>4. validEvent(v.event) /\ v.event.phase = Terminal
    BY <1>2 DEF Repeatable, Inv, FactsValid
<1>5. ReservedRemaining \in Int
    BY AllocatedFinite, CoordinatorAssumption DEF ReservedRemaining, Remaining
<1>6. SafeToRepeat(v.event, Evidence[v.event])
    BY <1>2, <1>3, <1>4, <1>5, DecideSafe
<1> QED BY <1>1, <1>2, <1>4, <1>6

LEMMA AuthorizeInv == ASSUME NEW r \in Authorizers, Inv, AuthorizeRepeat(r) PROVE Inv'
<1> DEFINE v == view[r]
           d == Verdict(v, r \in cancelled)
<1> USE DEF Inv
<1>1. view[r] # NoView /\ view' = [view EXCEPT ![r] = NoView] /\ UNCHANGED cancelled
    BY DEF AuthorizeRepeat
<1>2. CASE d.action \notin {"Retry", "Fallback"}
    <2>1. UNCHANGED <<events, granted, grants>>
        BY <1>2 DEF AuthorizeRepeat
    <2>2. Allocated' = Allocated
        BY <2>1 DEF Allocated
    <2> QED
        BY <1>1, <2>1, <2>2 DEF TypeOK, FactsValid, WithinBudget, GrantInv, GrantedOnCurrentFacts
<1>3. CASE d.action \in {"Retry", "Fallback"}
    <2>1. /\ events' = [events EXCEPT ![v.next].phase = Dispatched]
          /\ granted' = granted \union
                {[previous |-> v.previous, next |-> v.next, event |-> events[v.previous]]}
          /\ grants' = [grants EXCEPT ![v.next] = @ + 1]
        BY <1>3 DEF AuthorizeRepeat
    <2>2. /\ v \in Views
          /\ Repeatable(v.previous, v.next)
          /\ events[v.previous] = v.event
          /\ v.event.phase = Terminal
          /\ SafeToRepeat(v.event, Evidence[v.event])
        BY <1>1, <1>3, GrantFacts
    <2>3. v.previous \in Attempts /\ v.next \in Attempts /\ v.event \in Events
        BY <2>2 DEF Views
    <2>4. events[v.next] = Fresh /\ v.next \in Allocated
        BY <2>2 DEF Repeatable
    <2>5. /\ events'[v.next] \in Events
          /\ events'[v.next].phase = Dispatched
          /\ ~events'[v.next].committed
          /\ events'[v.next].outcome = "Unknown"
        <3>1. events'[v.next] = [events[v.next] EXCEPT !.phase = Dispatched]
            BY <2>1, <2>3 DEF TypeOK
        <3> QED BY <2>4, <3>1, DispatchedFresh
    <2>6. events'[v.next] \in Events /\ validEvent(events'[v.next])
        BY <2>5 DEF Outcomes, validEvent, Dispatched, Terminal
    <2>7. events' \in [Attempts -> Events \union {NotAllocated}]
        BY <2>1, <2>3, <2>6 DEF TypeOK
    <2>8. Allocated' = Allocated
        BY <2>1, <2>3, <2>4, <2>6, CoordinatorAssumption DEF Allocated, TypeOK
    <2>9. TypeOK'
        BY <1>1, <2>1, <2>2, <2>3, <2>7 DEF TypeOK, Views
    <2>10. FactsValid'
        BY <2>1, <2>3, <2>6, <2>8 DEF FactsValid, TypeOK, Allocated
    <2>11. WithinBudget'
        BY <2>8 DEF WithinBudget
    <2>12. GrantInv'
        <3> SUFFICES ASSUME NEW b \in Attempts
                     PROVE /\ grants'[b] <= 1
                           /\ grants'[b] = 1 => b \in Allocated' /\ events'[b].phase >= Dispatched
            BY DEF GrantInv
        <3>1. CASE b = v.next
            <4>1. grants[b] = 0
                BY <2>4, <3>1, FreshEvent DEF GrantInv, TypeOK, BeforeDispatch, Dispatched
            <4> QED
                BY <2>1, <2>3, <2>4, <2>5, <2>8, <3>1, <4>1 DEF TypeOK, Dispatched
        <3>2. CASE b # v.next
            BY <2>1, <2>3, <2>8, <3>2 DEF GrantInv, TypeOK
        <3> QED BY <3>1, <3>2
    <2>13. GrantedOnCurrentFacts'
        BY <2>1, <2>2 DEF GrantedOnCurrentFacts
    <2> QED BY <2>9, <2>10, <2>11, <2>12, <2>13
<1> QED BY <1>2, <1>3

LEMMA StepInv == Inv /\ [Next]_vars => Inv'
<1> SUFFICES ASSUME Inv, [Next]_vars PROVE Inv'
    OBVIOUS
<1>1. ASSUME NEW r \in Authorizers, NEW p \in Attempts, NEW n \in Attempts, Look(r, p, n) PROVE Inv'
    <2>1. events[p] \in Events
        BY <1>1 DEF Look, Allocated, Inv, TypeOK
    <2>2. TypeOK'
        BY <1>1, <2>1 DEF Look, Inv, TypeOK, Views
    <2> QED
        BY <1>1, <2>2 DEF Look, Inv, FactsValid, WithinBudget, GrantInv, GrantedOnCurrentFacts, Allocated
<1>2. ASSUME NEW r \in Authorizers, Cancel(r) PROVE Inv'
    BY <1>2 DEF Cancel, Inv, TypeOK, FactsValid, WithinBudget, GrantInv, GrantedOnCurrentFacts, Allocated
<1>3. CASE UNCHANGED vars
    BY <1>3 DEF vars, Inv, TypeOK, FactsValid, WithinBudget, GrantInv, GrantedOnCurrentFacts, Allocated
<1> QED
    BY <1>1, <1>2, <1>3, BeginInv, UpdateInv, AuthorizeInv DEF Next

LEMMA SpecInv == Spec => []Inv
<1> QED BY InitInv, StepInv, PTL DEF Spec

-----------------------------------------------------------------------------
\* Type correctness of the model of coordinator.go.
THEOREM CoordinatorTypeCorrect == Spec => []TypeOK
<1>1. Inv => TypeOK
    BY DEF Inv
<1> QED BY <1>1, SpecInv, PTL

\* The budget holds for any number of identities and callers of Begin.
THEOREM CoordinatorWithinBudget == Spec => []WithinBudget
<1>1. Inv => WithinBudget
    BY DEF Inv
<1> QED BY <1>1, SpecInv, PTL

\* However many authorizers race, an attempt is dispatched by one of them.
THEOREM CoordinatorDispatchedOnce == Spec => []DispatchedOnce
<1>1. Inv => DispatchedOnce
    BY DEF Inv, GrantInv, DispatchedOnce
<1> QED BY <1>1, SpecInv, PTL

\* A repeat is granted only on facts that are current and safe to repeat, for
\* every policy the host may base its evidence on.
THEOREM CoordinatorGrantsOnCurrentFacts == Spec => []GrantedOnCurrentFacts
<1>1. Inv => GrantedOnCurrentFacts
    BY DEF Inv
<1> QED BY <1>1, SpecInv, PTL

\* Phase, commitment and known outcome never go back.
THEOREM CoordinatorFactsMonotone == Spec => FactsMonotone
<1> DEFINE Up == \A a \in Allocated :
        /\ events'[a] # NotAllocated
        /\ events'[a].phase >= events[a].phase
        /\ events[a].committed => events'[a].committed
        /\ events[a].outcome # "Unknown" => events'[a].outcome = events[a].outcome
<1>1. Inv /\ [Next]_vars => [Up]_vars
    <2> SUFFICES ASSUME Inv, Next PROVE Up
        OBVIOUS
    <2>0. \A a \in Allocated : a \in Attempts /\ events[a] \in Events /\ events[a].phase \in Int
        BY DEF Inv, TypeOK, Allocated, Events, Phases, BeforeDispatch, Terminal
    <2>1. ASSUME UNCHANGED events PROVE Up
        BY <2>0, <2>1 DEF Allocated
    <2>2. ASSUME NEW a \in Attempts, Begin(a) PROVE Up
        BY <2>0, <2>2 DEF Begin, Allocated, Inv, TypeOK
    <2>3. ASSUME NEW a \in Attempts, NEW e \in RawEvents, Update(a, e) PROVE Up
        <3>1. e \in Events /\ Follows(events[a], e) /\ a \in Allocated
            BY <2>0, <2>3, FollowsEvent DEF Update
        <3> QED
            BY <2>0, <2>3, <3>1, CoordinatorAssumption DEF Update, Follows, Inv, TypeOK, Allocated
    <2>4. ASSUME NEW r \in Authorizers, AuthorizeRepeat(r) PROVE Up
        <3> DEFINE v == view[r]
        <3>1. CASE Verdict(v, r \in cancelled).action \notin {"Retry", "Fallback"}
            BY <2>1, <2>4, <3>1 DEF AuthorizeRepeat
        <3>2. CASE Verdict(v, r \in cancelled).action \in {"Retry", "Fallback"}
            <4>1. events' = [events EXCEPT ![v.next].phase = Dispatched] /\ view[r] # NoView
                BY <2>4, <3>2 DEF AuthorizeRepeat
            <4>2. v.next \in Attempts /\ events[v.next] = Fresh
                BY <3>2, <4>1, GrantFacts DEF Views, Repeatable
            <4>3. events'[v.next] \in Events /\ events'[v.next].phase = Dispatched
                <5>1. events'[v.next] = [events[v.next] EXCEPT !.phase = Dispatched]
                    BY <4>1, <4>2 DEF Inv, TypeOK
                <5> QED BY <4>2, <5>1, DispatchedFresh
            <4>4. \A a \in Allocated : a # v.next => events'[a] = events[a]
                BY <4>1, <4>2 DEF Inv, TypeOK, Allocated
            <4> QED
                BY <2>0, <4>2, <4>3, <4>4, CoordinatorAssumption
                DEF Fresh, Dispatched, BeforeDispatch, Allocated
        <3> QED BY <3>1, <3>2
    <2>5. ASSUME NEW r \in Authorizers, NEW p \in Attempts, NEW n \in Attempts, Look(r, p, n) \/ Cancel(r)
          PROVE UNCHANGED events
        BY <2>5 DEF Look, Cancel
    <2> QED BY <2>1, <2>2, <2>3, <2>4, <2>5 DEF Next, Cancel
<1> QED BY <1>1, SpecInv, PTL DEF Spec, FactsMonotone

-----------------------------------------------------------------------------
(* Sequence *)

\* The attempt has its identity and is not dispatched.
Preparing == {"preflight", "start", "authorize", "lock", "grant"}
Repeating == {"authorize", "lock", "grant"}
Pcs == {"check", "dispatch", "value", "decide", "close", "callback", "wait", "done"} \union Preparing
Reasons == {"None", "Cancelled", "DeadlineExhausted", "NotRetryable", "BudgetExhausted",
            "AdmissionDenied", "AdmissionDeferred", "InvalidEvent", "EventChanged", "ExecutionReturned",
            "VisibleOutput", "UnknownOutcome", "UnsafeReplay", "RetryAllowed"}
Decisions == [action : {"Stop", "Defer", "Reconcile", "Retry", "Fallback"}, reason : Reasons]
Locals == [pc : Pcs, step : Attempts, prev : Attempts \union {NoAttempt}, seen : Events,
           read : Events, decision : Decisions, notBefore : Nat, deadline : Nat]

Traced == {trace[i] : i \in DOMAIN trace}
LastTraced == {trace[i] : i \in {Len(trace)} \intersect DOMAIN trace}

SeqTypeOK ==
    /\ run \in Locals /\ trace \in Seq(Attempts) /\ now \in Nat /\ owned \subseteq Attempts
    /\ closed \subseteq Allocated /\ failed \subseteq Attempts
    /\ settling \in [Attempts -> {"nobody", "host", "Run"}] /\ crossed \subseteq Allocated

\* The attempt of this round: nobody else touches it before its dispatch, and
\* the callback that closes it works on current facts unless a host crossed it.
AttemptInv ==
    /\ run.pc \in Preparing => events[run.step] = Fresh
    /\ run.pc \in {"dispatch", "value", "decide", "close", "callback", "wait"} => run.step \in Allocated
    /\ run.pc \in {"decide", "close"} => run.step \in closed \union owned
    /\ run.pc = "callback" => run.step \in crossed \/ run.read = events[run.step]
    /\ run.pc = "wait" => run.step \in closed \union crossed

\* Every identity used is in the trace, or about to be.
TraceInv ==
    /\ Allocated \subseteq
        Traced \union (IF run.pc \in Preparing \union {"dispatch", "value"} THEN {run.step} ELSE {})
    /\ run.pc \in {"decide", "close", "callback"} => run.step \in LastTraced

\* A resource is open only between its dispatch and the next round.
OwnedInv ==
    owned \subseteq IF run.pc \in {"decide", "close", "callback"} THEN {run.step}
                    ELSE IF run.pc = "done" THEN LastTraced ELSE {}

\* The attempt that is repeated: closed or crossed by a host, waited for, and
\* reserved for the grant.
PreviousInv ==
    /\ run.pc \in {"check"} \union Preparing /\ run.prev # NoAttempt =>
        run.prev \in closed \union crossed /\ now >= run.notBefore
    /\ run.pc \in Repeating => run.prev # NoAttempt
    /\ run.pc = "grant" => settling[run.prev] = "Run" /\ run.prev \notin failed

ViewInv == run.pc \notin {"lock", "grant", "done"} => view[Run] = NoView

DecisionInv == run.pc = "done" => ~isRepeat(run.decision)

SeqInv ==
    Inv /\ SeqTypeOK /\ AttemptInv /\ TraceInv /\ OwnedInv /\ PreviousInv /\ ViewInv /\ DecisionInv

-----------------------------------------------------------------------------
(* Events, the trace and the locals *)

LEMMA DecideType ==
    ASSUME NEW e, NEW n, NEW replay
    PROVE decide(e, n, replay) \in Decisions
BY DEF decide, Decisions, Reasons

LEMMA StopType ==
    /\ stopDecision \in Decisions /\ ~isRepeat(stopDecision)
    /\ \A r \in Reasons : Stop(r) \in Decisions /\ ~isRepeat(Stop(r))
BY DEF stopDecision, Stop, isRepeat, Decisions, Reasons

LEMMA TraceAppend ==
    ASSUME trace \in Seq(Attempts), NEW a \in Attempts, trace' = Append(trace, a)
    PROVE trace' \in Seq(Attempts) /\ Traced' = Traced \union {a} /\ LastTraced' = {a}
<1>1. Len(trace) \in Nat /\ DOMAIN trace = 1..Len(trace)
    BY LenProperties
<1>2. /\ trace' \in Seq(Attempts) /\ Len(trace') = Len(trace) + 1
      /\ trace'[Len(trace) + 1] = a /\ \A i \in 1..Len(trace) : trace'[i] = trace[i]
      /\ DOMAIN trace' = 1..Len(trace')
    BY AppendProperties, LenProperties
<1>3. Traced' = Traced \union {a}
    BY <1>1, <1>2 DEF Traced
<1>4. LastTraced' = {a}
    BY <1>1, <1>2 DEF LastTraced
<1> QED BY <1>2, <1>3, <1>4

LEMMA ReturnFields ==
    ASSUME run \in Locals, NEW d \in Decisions, Return(d)
    PROVE run' \in Locals /\ run'.pc = "done" /\ run'.decision = d
<1> DEFINE b == [run EXCEPT !.pc = "done"]
<1>1. b \in Locals /\ b.pc = "done"
    BY DEF Locals, Pcs
<1>2. run' = [b EXCEPT !.decision = d]
    BY DEF Return
<1> HIDE DEF b
<1> QED BY <1>1, <1>2 DEF Locals

\* A step that moves run.pc alone.
LEMMA MovesFields ==
    ASSUME run \in Locals, NEW pc \in Pcs, run' = [run EXCEPT !.pc = pc]
    PROVE /\ run' \in Locals /\ run'.pc = pc /\ run'.step = run.step /\ run'.prev = run.prev
          /\ run'.notBefore = run.notBefore
BY DEF Locals

\* A step that moves run.pc and reads or forgets facts to close with.
LEMMA ReadsFields ==
    ASSUME run \in Locals, NEW pc \in Pcs, NEW e \in Events, run' = [run EXCEPT !.pc = pc, !.read = e]
    PROVE run' \in Locals /\ run'.pc = pc /\ run'.step = run.step /\ run'.read = e
<1> DEFINE b == [run EXCEPT !.pc = pc]
<1>1. b \in Locals /\ b.pc = pc /\ b.step = run.step
    BY DEF Locals
<1>2. run' = [b EXCEPT !.read = e]
    OBVIOUS
<1> HIDE DEF b
<1> QED BY <1>1, <1>2 DEF Locals

\* A step that leaves the Coordinator alone.
LEMMA Stutters ==
    ASSUME SeqInv, UNCHANGED vars
    PROVE [Next]_vars /\ Inv' /\ Allocated' = Allocated /\ events' = events /\ view' = view
<1>1. events' = events /\ view' = view
    BY DEF vars
<1> QED BY <1>1, StepInv DEF SeqInv, Allocated

-----------------------------------------------------------------------------
(* Closing a Receipt *)

\* A Receipt.close is an Update of the Coordinator or changes nothing; on current
\* facts it is refused only when it claims that nothing was executed.
LEMMA CloseUpdates ==
    ASSUME SeqInv, NEW a \in Allocated, NEW read \in Events, NEW not \in BOOLEAN, NEW e \in BOOLEAN,
           CloseReceipt(a, read, not, e), UNCHANGED <<cancelled, view, granted, grants>>
    PROVE /\ [Next]_vars /\ Inv' /\ Allocated' = Allocated
          /\ \A b \in Attempts : b # a => events'[b] = events[b]
          /\ closed \subseteq closed' /\ closed' \subseteq Allocated
          /\ failed' \subseteq Attempts /\ (~not /\ read = events[a] => a \in closed')
<1> DEFINE end == closing(read, not)
<1>1. a \in Attempts /\ events[a] \in Events /\ validEvent(events[a])
    BY DEF SeqInv, Inv, TypeOK, FactsValid, Allocated
<1>2. end \in Events
    BY DEF closing, Events, Phases, Outcomes, BeforeDispatch, Terminal
<1>3. end \in RawEvents
    BY <1>2 DEF Events, RawEvents, Phases, BeforeDispatch, Terminal
<1>4. ~not /\ read = events[a] => Follows(events[a], end)
    BY <1>1 DEF closing, Follows, validEvent, Events, Phases, BeforeDispatch, Dispatched, Terminal
<1>5. closed \subseteq Allocated /\ failed \subseteq Attempts
    BY DEF SeqInv, SeqTypeOK
<1>6. CASE a \in closed \/ ~Follows(events[a], end)
    <2>1. UNCHANGED <<events, closed, failed>>
        BY <1>6 DEF CloseReceipt
    <2>2. UNCHANGED vars
        BY <2>1 DEF vars
    <2> QED BY <1>4, <1>5, <1>6, <2>1, <2>2, Stutters
<1>7. CASE a \notin closed /\ Follows(events[a], end)
    <2>1. /\ events' = [events EXCEPT ![a] = end]
          /\ closed' = closed \union {a}
          /\ failed' = IF e THEN failed \union {a} ELSE failed
        BY <1>7 DEF CloseReceipt
    <2> HIDE DEF end
    <2>2. Update(a, end)
        BY <1>7, <2>1 DEF Update
    <2>3. Next
        BY <1>1, <1>3, <2>2 DEF Next
    <2>4. events \in [Attempts -> Events \union {NotAllocated}]
        BY DEF SeqInv, Inv, TypeOK
    <2>5. Allocated' = Allocated
        BY <1>1, <1>2, <2>1, <2>4, CoordinatorAssumption DEF Allocated
    <2>6. Inv'
        BY <2>3, StepInv DEF SeqInv
    <2> QED BY <1>1, <1>5, <2>1, <2>3, <2>4, <2>5, <2>6
<1> QED BY <1>6, <1>7

\* Once Run has returned, what remains is the trace and the decision.
LEMMA DoneInv ==
    ASSUME Inv', SeqTypeOK', run'.pc = "done", ~isRepeat(run'.decision),
           Allocated' \subseteq Traced', owned' \subseteq LastTraced'
    PROVE SeqInv'
<1>1. AttemptInv' /\ TraceInv' /\ PreviousInv' /\ ViewInv' /\ DecisionInv'
    BY DEF AttemptInv, TraceInv, PreviousInv, ViewInv, DecisionInv, isRepeat, Preparing, Repeating
<1>2. OwnedInv'
    BY DEF OwnedInv
<1> QED BY <1>1, <1>2 DEF SeqInv

\* Run returns with the attempt closed as not executed.
LEMMA EndsUndispatched ==
    ASSUME SeqInv, run.pc \in Preparing, NEW d \in Decisions, ~isRepeat(d), NEW e \in BOOLEAN,
           CloseReceipt(run.step, events[run.step], TRUE, e), trace' = Append(trace, run.step), Return(d),
           UNCHANGED <<cancelled, view, granted, grants, owned, now, crossed>>,
           settling' \in [Attempts -> {"nobody", "host", "Run"}]
    PROVE [Next]_vars /\ SeqInv'
<1>1. run.step \in Attempts /\ run \in Locals /\ trace \in Seq(Attempts)
    BY DEF SeqInv, SeqTypeOK, Locals
<1>2. run.step \in Allocated
    BY <1>1, FreshEvent, CoordinatorAssumption DEF SeqInv, AttemptInv, Allocated
<1>3. /\ [Next]_vars /\ Inv' /\ Allocated' = Allocated
      /\ closed' \subseteq Allocated /\ failed' \subseteq Attempts
    <2>1. events[run.step] \in Events
        BY FreshEvent DEF SeqInv, AttemptInv
    <2> QED BY <1>2, <2>1, CloseUpdates
<1>4. run' \in Locals /\ run'.pc = "done" /\ run'.decision = d
    BY <1>1, ReturnFields
<1>5. trace' \in Seq(Attempts) /\ Traced' = Traced \union {run.step}
    BY <1>1, TraceAppend
<1>6. Allocated' \subseteq Traced'
    BY <1>3, <1>5 DEF SeqInv, TraceInv
<1>7. owned' = {}
    BY DEF SeqInv, OwnedInv, Preparing
<1>8. SeqTypeOK'
    BY <1>3, <1>4, <1>5, <1>7 DEF SeqInv, SeqTypeOK
<1> QED BY <1>3, <1>4, <1>6, <1>7, <1>8, DoneInv

LEMMA NotStartedInv ==
    ASSUME SeqInv, run.pc \in Preparing, NEW d \in Decisions, ~isRepeat(d), NEW e \in BOOLEAN,
           NotStarted(d, e), UNCHANGED <<view, granted, grants, now, settling, crossed>>
    PROVE [Next]_vars /\ SeqInv'
<1> DEFINE x == IF e THEN stopDecision ELSE d
           y == preflightDecision(x)
<1>1. x \in Decisions /\ ~isRepeat(x)
    BY StopType
<1> HIDE DEF x
<1>2. run.decision \in Decisions
    BY DEF SeqInv, SeqTypeOK, Locals
<1>3. y \in Decisions /\ ~isRepeat(y)
    BY <1>1, <1>2 DEF preflightDecision
<1>4. /\ CloseReceipt(run.step, events[run.step], TRUE, e) /\ trace' = Append(trace, run.step) /\ Return(y)
      /\ UNCHANGED <<owned, cancelled>>
    BY DEF NotStarted, x
<1>5. settling' \in [Attempts -> {"nobody", "host", "Run"}]
    BY DEF SeqInv, SeqTypeOK
<1> HIDE DEF y
<1> QED BY <1>3, <1>4, <1>5, EndsUndispatched

\* Run returns at the top of the loop, from decide or from Wait.
LEMMA ReturnInv ==
    ASSUME SeqInv, run.pc \in {"check", "decide", "close", "wait"}, NEW d \in Decisions, ~isRepeat(d),
           Return(d), UNCHANGED <<vars, trace, owned, receiptVars, now, crossed>>
    PROVE [Next]_vars /\ SeqInv'
<1>1. [Next]_vars /\ Inv' /\ Allocated' = Allocated
    BY Stutters
<1>2. run' \in Locals /\ run'.pc = "done" /\ run'.decision = d
    BY ReturnFields DEF SeqInv, SeqTypeOK
<1>3. Traced' = Traced /\ LastTraced' = LastTraced
    BY DEF Traced, LastTraced
<1>4. Allocated \subseteq Traced
    BY DEF SeqInv, TraceInv, Preparing
<1>5. owned \subseteq LastTraced
    BY DEF SeqInv, OwnedInv, TraceInv
<1>6. SeqTypeOK'
    BY <1>1, <1>2 DEF SeqInv, SeqTypeOK, receiptVars
<1> QED BY <1>1, <1>2, <1>3, <1>4, <1>5, <1>6, DoneInv

-----------------------------------------------------------------------------
(* The steps of Run *)

LEMMA StartStepInv == ASSUME SeqInv, StartStep PROVE [Next]_vars /\ SeqInv'
<1>1. /\ run.pc = "check" /\ run \in Locals /\ run.step \in Attempts /\ trace \in Seq(Attempts)
      /\ UNCHANGED <<owned, receiptVars, now, settlements, crossed>>
    BY DEF StartStep, SeqInv, SeqTypeOK, Locals
<1>2. CASE Return(stopDecision) /\ UNCHANGED <<vars, trace>>
    BY <1>1, <1>2, StopType, ReturnInv
<1>3. ASSUME NEW d \in {Stop("NotRetryable"), Stop("BudgetExhausted")},
             Return(d), trace' = Append(trace, run.step), UNCHANGED vars
      PROVE [Next]_vars /\ SeqInv'
    <2>1. d \in Decisions /\ ~isRepeat(d)
        BY <1>3, StopType DEF Reasons
    <2>2. [Next]_vars /\ Inv' /\ Allocated' = Allocated
        BY <1>3, Stutters
    <2>3. run' \in Locals /\ run'.pc = "done" /\ run'.decision = d
        BY <1>1, <1>3, <2>1, ReturnFields
    <2>4. trace' \in Seq(Attempts) /\ Traced' = Traced \union {run.step}
        BY <1>1, <1>3, TraceAppend
    <2>5. Allocated \subseteq Traced /\ owned' = {}
        BY <1>1 DEF SeqInv, TraceInv, OwnedInv, Preparing
    <2>6. SeqTypeOK'
        BY <1>1, <2>2, <2>3, <2>4 DEF SeqInv, SeqTypeOK, receiptVars
    <2> QED BY <2>1, <2>2, <2>3, <2>4, <2>5, <2>6, DoneInv
<1>4. CASE Begin(run.step) /\ run' = [run EXCEPT !.pc = "preflight"] /\ UNCHANGED trace
    <2>1. Next
        BY <1>1, <1>4 DEF Next
    <2>2. Inv'
        BY <2>1, StepInv DEF SeqInv
    <2>3. /\ run' \in Locals /\ run'.pc = "preflight" /\ run'.step = run.step /\ run'.prev = run.prev
          /\ run'.notBefore = run.notBefore
        BY <1>1, <1>4, MovesFields DEF Pcs, Preparing
    <2>4. /\ events' = [events EXCEPT ![run.step] = Fresh] /\ view' = view
          /\ events \in [Attempts -> Events \union {NotAllocated}]
        BY <1>4 DEF Begin, SeqInv, Inv, TypeOK
    <2>5. Allocated' = Allocated \union {run.step} /\ events'[run.step] = Fresh
        BY <1>1, <2>4, FreshEvent, CoordinatorAssumption DEF Allocated
    <2>6. SeqTypeOK'
        BY <1>1, <1>4, <2>3, <2>5 DEF SeqInv, SeqTypeOK, receiptVars
    <2>7. AttemptInv'
        BY <2>3, <2>5 DEF AttemptInv
    <2>8. TraceInv'
        BY <1>1, <1>4, <2>3, <2>5 DEF SeqInv, TraceInv, Traced, Preparing
    <2>9. OwnedInv'
        BY <1>1, <2>3 DEF SeqInv, OwnedInv
    <2>10. PreviousInv'
        BY <1>1, <2>3 DEF SeqInv, PreviousInv, receiptVars, Preparing, Repeating
    <2>11. ViewInv' /\ DecisionInv'
        BY <1>1, <2>3, <2>4 DEF SeqInv, ViewInv, DecisionInv
    <2> QED BY <2>1, <2>2, <2>6, <2>7, <2>8, <2>9, <2>10, <2>11 DEF SeqInv
<1> QED BY <1>2, <1>3, <1>4 DEF StartStep

\* A step of Run on its way to the dispatch that changes nothing but run.pc and
\* who holds the Receipt of the previous attempt.
LEMMA PreparesInv ==
    ASSUME SeqInv, run.pc \in Preparing, NEW pc \in Preparing, run' = [run EXCEPT !.pc = pc],
           [Next]_vars, UNCHANGED <<events, trace, owned, closed, failed, now, crossed>>,
           settling' \in [Attempts -> {"nobody", "host", "Run"}],
           pc \in Repeating => run.prev # NoAttempt,
           pc = "grant" => settling'[run.prev] = "Run" /\ run.prev \notin failed,
           pc \notin {"lock", "grant"} => view'[Run] = NoView
    PROVE SeqInv'
<1>1. run \in Locals /\ pc \in Pcs
    BY DEF SeqInv, SeqTypeOK, Pcs
<1>2. /\ run' \in Locals /\ run'.pc = pc /\ run'.step = run.step /\ run'.prev = run.prev
      /\ run'.notBefore = run.notBefore
    BY <1>1, MovesFields
<1>3. Inv' /\ Allocated' = Allocated
    BY StepInv DEF SeqInv, Allocated
<1>4. SeqTypeOK'
    BY <1>2, <1>3 DEF SeqInv, SeqTypeOK
<1>5. AttemptInv'
    BY <1>2 DEF SeqInv, AttemptInv, Preparing
<1>6. TraceInv'
    BY <1>2, <1>3 DEF SeqInv, TraceInv, Traced, Preparing
<1>7. OwnedInv'
    BY <1>2 DEF SeqInv, OwnedInv, Preparing
<1>8. PreviousInv'
    BY <1>2 DEF SeqInv, PreviousInv
<1>9. ViewInv' /\ DecisionInv'
    BY <1>2 DEF ViewInv, DecisionInv, Preparing
<1> QED BY <1>3, <1>4, <1>5, <1>6, <1>7, <1>8, <1>9 DEF SeqInv

LEMMA PreflightInv == ASSUME SeqInv, Preflight PROVE [Next]_vars /\ SeqInv'
<1>1. run.pc = "preflight" /\ run.pc \in Preparing /\ UNCHANGED <<settling, now, settlements, crossed>>
    BY DEF Preflight, Preparing
<1>2. ASSUME NEW d \in {stopDecision, Stop("AdmissionDenied"),
                        [action |-> "Defer", reason |-> "AdmissionDeferred"]},
             NEW e \in BOOLEAN, NotStarted(d, e), UNCHANGED <<view, granted, grants>>
      PROVE [Next]_vars /\ SeqInv'
    <2>1. d \in Decisions /\ ~isRepeat(d)
        BY <1>2, StopType DEF Reasons, Decisions, isRepeat
    <2> QED BY <1>1, <1>2, <2>1, NotStartedInv
<1>3. ASSUME run' = [run EXCEPT !.pc = IF run.prev = NoAttempt THEN "start" ELSE "authorize"],
             UNCHANGED <<vars, trace, owned, closed, failed>>
      PROVE [Next]_vars /\ SeqInv'
    <2> DEFINE pc == IF run.prev = NoAttempt THEN "start" ELSE "authorize"
    <2>1. [Next]_vars /\ events' = events /\ view' = view
        BY <1>3, Stutters
    <2>2. pc \in Preparing /\ (pc \in Repeating => run.prev # NoAttempt) /\ pc \notin {"lock", "grant"}
        BY DEF Preparing, Repeating
    <2>3. view'[Run] = NoView
        BY <1>1, <2>1 DEF SeqInv, ViewInv
    <2>4. settling' \in [Attempts -> {"nobody", "host", "Run"}]
        BY <1>1 DEF SeqInv, SeqTypeOK
    <2>5. run' = [run EXCEPT !.pc = pc]
        BY <1>3
    <2> HIDE DEF pc
    <2> QED BY <1>1, <1>3, <2>1, <2>2, <2>3, <2>4, <2>5, PreparesInv
<1> QED BY <1>2, <1>3 DEF Preflight

\* Run dispatches: the attempt stays allocated, and nothing else is touched.
LEMMA DispatchesInv ==
    ASSUME SeqInv, run.pc \in Preparing, run' \in Locals, run'.pc = "dispatch", run'.step = run.step,
           [Next]_vars, Allocated' = Allocated, view'[Run] = NoView,
           UNCHANGED <<trace, owned, closed, failed, now, crossed>>,
           settling' \in [Attempts -> {"nobody", "host", "Run"}]
    PROVE SeqInv'
<1>1. Inv'
    BY StepInv DEF SeqInv
<1>2. SeqTypeOK'
    BY DEF SeqInv, SeqTypeOK
<1>3. run.step \in Allocated
    BY FreshEvent, CoordinatorAssumption DEF SeqInv, SeqTypeOK, Locals, AttemptInv, Allocated
<1>4. AttemptInv'
    BY <1>3 DEF AttemptInv, Preparing
<1>5. TraceInv'
    BY DEF SeqInv, TraceInv, Traced, Preparing
<1>6. OwnedInv'
    BY DEF SeqInv, OwnedInv, Preparing
<1>7. PreviousInv' /\ ViewInv' /\ DecisionInv'
    BY DEF PreviousInv, ViewInv, DecisionInv, Preparing, Repeating
<1> QED BY <1>1, <1>2, <1>4, <1>5, <1>6, <1>7 DEF SeqInv

LEMMA StartInv == ASSUME SeqInv, Start PROVE [Next]_vars /\ SeqInv'
<1> DEFINE e == [Fresh EXCEPT !.phase = Dispatched]
<1>1. /\ run.pc = "start" /\ run.pc \in Preparing /\ run \in Locals /\ run.step \in Attempts
      /\ run' = [run EXCEPT !.pc = "dispatch"]
      /\ UNCHANGED <<cancelled, view, granted, grants, trace, owned, closed, failed, settling, now, crossed>>
    BY DEF Start, Preparing, SeqInv, SeqTypeOK, Locals, receiptVars
<1>2. events[run.step] = Fresh /\ events \in [Attempts -> Events \union {NotAllocated}]
    BY <1>1 DEF SeqInv, AttemptInv, Inv, TypeOK
<1>3. events' = [events EXCEPT ![run.step] = e]
    BY <1>1, <1>2 DEF Start
<1>4. e \in Events /\ e.phase = Dispatched /\ ~e.committed /\ e.outcome = "Unknown"
    BY DispatchedFresh
<1> HIDE DEF e
<1>5. Follows(Fresh, e)
    BY <1>4 DEF Follows, validEvent, Fresh, Outcomes, BeforeDispatch, Dispatched, Terminal
<1>6. run.step \in Allocated /\ e \in RawEvents
    BY <1>1, <1>2, <1>4, FreshEvent, CoordinatorAssumption
    DEF Allocated, Events, RawEvents, Phases, BeforeDispatch, Terminal
<1>7. Update(run.step, e)
    BY <1>1, <1>2, <1>3, <1>5, <1>6 DEF Update
<1>8. Next
    BY <1>1, <1>6, <1>7 DEF Next
<1>9. Allocated' = Allocated
    BY <1>1, <1>2, <1>3, <1>4, <1>6, CoordinatorAssumption DEF Allocated
<1>10. run' \in Locals /\ run'.pc = "dispatch" /\ run'.step = run.step
    BY <1>1, MovesFields DEF Pcs
<1>11. view'[Run] = NoView /\ settling' \in [Attempts -> {"nobody", "host", "Run"}]
    BY <1>1 DEF SeqInv, ViewInv, SeqTypeOK
<1> QED BY <1>1, <1>8, <1>9, <1>10, <1>11, DispatchesInv

LEMMA AuthorizeStepInv == ASSUME SeqInv, Authorize PROVE [Next]_vars /\ SeqInv'
<1>1. /\ run.pc = "authorize" /\ run.pc \in Preparing /\ run.pc \in Repeating
      /\ UNCHANGED <<granted, grants, settling, now, settlements, crossed>>
    BY DEF Authorize, Preparing, Repeating
<1>2. ASSUME NEW e \in BOOLEAN, NotStarted(stopDecision, e), UNCHANGED view
      PROVE [Next]_vars /\ SeqInv'
    BY <1>1, <1>2, StopType, NotStartedInv
<1>3. ASSUME view' = [view EXCEPT ![Run] = [previous |-> run.prev, next |-> run.step, event |-> Looked]],
             run' = [run EXCEPT !.pc = "lock"],
             UNCHANGED <<events, cancelled, trace, owned, closed, failed>>
      PROVE [Next]_vars /\ SeqInv'
    <2>1. run.prev \in Allocated /\ run.prev \in Attempts /\ run.step \in Attempts /\ run.prev # NoAttempt
        BY <1>1 DEF SeqInv, PreviousInv, SeqTypeOK, Locals, Allocated
    <2>2. view[Run] = NoView /\ Run \in Authorizers
        BY <1>1, SequenceAssumption DEF SeqInv, ViewInv
    <2>3. Look(Run, run.prev, run.step)
        BY <1>1, <1>3, <2>1, <2>2 DEF Look, Looked
    <2>4. Next
        BY <2>1, <2>2, <2>3 DEF Next
    <2>5. settling' \in [Attempts -> {"nobody", "host", "Run"}]
        BY <1>1 DEF SeqInv, SeqTypeOK
    <2>6. "lock" \in Preparing
        BY DEF Preparing
    <2> QED BY <1>1, <1>3, <2>1, <2>4, <2>5, <2>6, PreparesInv
<1> QED BY <1>2, <1>3 DEF Authorize

LEMMA LockAuthorizationInv == ASSUME SeqInv, LockAuthorization PROVE [Next]_vars /\ SeqInv'
<1>1. /\ run.pc = "lock" /\ run.pc \in Preparing /\ run.pc \in Repeating
      /\ UNCHANGED <<view, granted, grants, now, settlements, crossed>>
    BY DEF LockAuthorization, Preparing, Repeating
<1>2. ASSUME NEW d \in {stopDecision, Stop("NotRetryable")}, NEW e \in BOOLEAN,
             NotStarted(d, e), UNCHANGED settling
      PROVE [Next]_vars /\ SeqInv'
    <2>1. d \in Decisions /\ ~isRepeat(d)
        BY <1>2, StopType DEF Reasons
    <2> QED BY <1>1, <1>2, <2>1, NotStartedInv
<1>3. ASSUME SettledWell(run.prev), settling' = [settling EXCEPT ![run.prev] = "Run"],
             run' = [run EXCEPT !.pc = "grant"],
             UNCHANGED <<events, cancelled, trace, owned, closed, failed>>
      PROVE [Next]_vars /\ SeqInv'
    <2>1. UNCHANGED vars
        BY <1>1, <1>3 DEF vars
    <2>2. [Next]_vars
        BY <2>1, Stutters
    <2>3. run.prev \in Attempts /\ run.prev # NoAttempt
        BY <1>1 DEF SeqInv, PreviousInv, SeqTypeOK, Locals
    <2>4. settling' \in [Attempts -> {"nobody", "host", "Run"}] /\ settling'[run.prev] = "Run"
        BY <1>3, <2>3 DEF SeqInv, SeqTypeOK
    <2>5. "grant" \in Preparing /\ run.prev \notin failed
        BY <1>3 DEF Preparing, SettledWell
    <2> QED BY <1>1, <1>3, <2>2, <2>3, <2>4, <2>5, PreparesInv
<1> QED BY <1>2, <1>3 DEF LockAuthorization

LEMMA VerdictType ==
    ASSUME NEW v, NEW done
    PROVE Verdict(v, done) \in Decisions
BY DecideType DEF Verdict, Decisions, Reasons

\* A granted repeat keeps every identity, and the authorizer starts over.
LEMMA AuthorizeRepeatKeeps ==
    ASSUME SeqInv, AuthorizeRepeat(Run)
    PROVE Next /\ Allocated' = Allocated /\ view'[Run] = NoView
<1>1. Run \in Authorizers /\ view \in [Authorizers -> Views \union {NoView}]
    BY SequenceAssumption DEF SeqInv, Inv, TypeOK
<1>2. Next
    BY <1>1 DEF Next
<1>3. view[Run] # NoView /\ view'[Run] = NoView
    BY <1>1 DEF AuthorizeRepeat
<1>4. CASE Verdict(view[Run], Run \in cancelled).action \in {"Retry", "Fallback"}
    <2> DEFINE n == view[Run].next
    <2>1. n \in Attempts /\ events[n] = Fresh
        BY <1>1, <1>3, <1>4, GrantFacts DEF SeqInv, Views, Repeatable
    <2>2. events' = [events EXCEPT ![n].phase = Dispatched]
        BY <1>4 DEF AuthorizeRepeat
    <2> HIDE DEF n
    <2>3. events \in [Attempts -> Events \union {NotAllocated}]
        BY DEF SeqInv, Inv, TypeOK
    <2>4. events' = [events EXCEPT ![n] = [Fresh EXCEPT !.phase = Dispatched]]
        BY <2>1, <2>2, <2>3
    <2>5. [Fresh EXCEPT !.phase = Dispatched] \in Events
        BY DispatchedFresh
    <2>6. Allocated' = Allocated
        BY <2>1, <2>3, <2>4, <2>5, FreshEvent, CoordinatorAssumption DEF Allocated
    <2> QED BY <1>2, <1>3, <2>6
<1>5. CASE Verdict(view[Run], Run \in cancelled).action \notin {"Retry", "Fallback"}
    BY <1>2, <1>3, <1>5 DEF AuthorizeRepeat, Allocated
<1> QED BY <1>4, <1>5

LEMMA GrantStepInv == ASSUME SeqInv, Grant PROVE [Next]_vars /\ SeqInv'
<1> DEFINE d == Verdict(view[Run], Run \in cancelled)
<1>1. /\ run.pc = "grant" /\ run.pc \in Preparing /\ run.pc \in Repeating /\ run \in Locals
      /\ settling' = [settling EXCEPT ![run.prev] = "nobody"]
      /\ UNCHANGED <<now, settlements, crossed>>
    BY DEF Grant, Preparing, Repeating, SeqInv, SeqTypeOK
<1>2. run.prev \in Attempts /\ run.prev # NoAttempt
    BY <1>1 DEF SeqInv, PreviousInv, Locals
<1>3. settling' \in [Attempts -> {"nobody", "host", "Run"}]
    BY <1>1, <1>2 DEF SeqInv, SeqTypeOK
<1>4. d \in Decisions
    BY VerdictType
<1>5. ASSUME AuthorizeRepeat(Run), run' = [run EXCEPT !.pc = "dispatch", !.decision = d],
             UNCHANGED <<trace, owned, closed, failed>>
      PROVE [Next]_vars /\ SeqInv'
    <2> DEFINE b == [run EXCEPT !.pc = "dispatch"]
    <2>1. b \in Locals /\ b.pc = "dispatch" /\ b.step = run.step
        BY <1>1 DEF Locals, Pcs
    <2>2. run' = [b EXCEPT !.decision = d]
        BY <1>5
    <2> HIDE DEF b, d
    <2>3. run' \in Locals /\ run'.pc = "dispatch" /\ run'.step = run.step
        BY <1>4, <2>1, <2>2 DEF Locals
    <2> QED BY <1>1, <1>3, <1>5, <2>3, AuthorizeRepeatKeeps, DispatchesInv
<1>6. ASSUME ~isRepeat(d), AuthorizeRepeat(Run), run' = [run EXCEPT !.pc = "authorize"],
             UNCHANGED <<trace, owned, closed, failed>>
      PROVE [Next]_vars /\ SeqInv'
    <2>1. events' = events
        BY <1>6 DEF AuthorizeRepeat, isRepeat
    <2>2. "authorize" \in Preparing
        BY DEF Preparing
    <2> QED BY <1>1, <1>2, <1>3, <1>6, <2>1, <2>2, AuthorizeRepeatKeeps, PreparesInv
<1>7. ASSUME ~Alive \/ ~(isRepeat(d) \/ d.reason = "EventChanged"), NEW e \in BOOLEAN,
             CloseReceipt(run.step, events[run.step], TRUE, e),
             Return(IF ~Alive \/ d.reason = "InvalidEvent" THEN stopDecision ELSE d),
             trace' = Append(trace, run.step), UNCHANGED <<cancelled, view, granted, grants, owned>>
      PROVE [Next]_vars /\ SeqInv'
    <2> DEFINE x == IF ~Alive \/ d.reason = "InvalidEvent" THEN stopDecision ELSE d
    <2>1. x \in Decisions /\ ~isRepeat(x)
        BY <1>4, <1>7, StopType
    <2>2. Return(x)
        BY <1>7
    <2> HIDE DEF x
    <2> QED BY <1>1, <1>3, <1>7, <2>1, <2>2, EndsUndispatched
<1>8. d.reason = "EventChanged" => ~isRepeat(d)
    BY DEF Verdict, decide, isRepeat
<1> QED BY <1>5, <1>6, <1>7, <1>8 DEF Grant

\* Close reads: nothing but the locals changes, and what was read is current.
LEMMA ReadToCloseInv == ASSUME SeqInv, ReadToClose PROVE [Next]_vars /\ SeqInv'
<1>1. /\ run.pc \in {"dispatch", "close"} /\ run \in Locals /\ run.step \in Allocated
      /\ UNCHANGED <<vars, trace, owned, receiptVars, now, settlements, crossed>>
    BY DEF ReadToClose, SeqInv, SeqTypeOK, AttemptInv
<1>2. [Next]_vars /\ Inv' /\ Allocated' = Allocated /\ events' = events /\ view' = view
    BY <1>1, Stutters
<1>3. events[run.step] \in Events
    BY <1>1 DEF SeqInv, Inv, TypeOK, Allocated
<1>4. PICK pc \in {"value", "callback"} :
        /\ run' = [run EXCEPT !.pc = pc, !.read = events[run.step]]
        /\ pc = "value" <=> run.pc = "dispatch"
    BY <1>1 DEF ReadToClose
<1>5. run' \in Locals /\ run'.pc = pc /\ run'.step = run.step /\ run'.read = events[run.step]
    BY <1>1, <1>3, <1>4, ReadsFields DEF Pcs
<1>6. SeqTypeOK'
    BY <1>1, <1>2, <1>5 DEF SeqInv, SeqTypeOK, receiptVars
<1>7. AttemptInv'
    BY <1>1, <1>2, <1>5 DEF AttemptInv, Preparing
<1>8. TraceInv'
    BY <1>1, <1>2, <1>4, <1>5 DEF SeqInv, TraceInv, Traced, LastTraced, Preparing
<1>9. OwnedInv'
    BY <1>1, <1>4, <1>5 DEF SeqInv, OwnedInv
<1>10. PreviousInv' /\ ViewInv' /\ DecisionInv'
    BY <1>1, <1>2, <1>5 DEF SeqInv, PreviousInv, ViewInv, DecisionInv, Preparing, Repeating
<1> QED BY <1>2, <1>6, <1>7, <1>8, <1>9, <1>10 DEF SeqInv

\* The dispatched attempt goes into the trace, and Run returns or decides; it
\* decides only on an attempt that is closed or owns a resource.
LEMMA CompletedInv ==
    ASSUME SeqInv, run.pc \in {"dispatch", "value"}, NEW answer \in {"ok", "error", "control"},
           Completed(answer), trace' = Append(trace, run.step), owned' \subseteq {run.step},
           [Next]_vars, Allocated' = Allocated, view' = view,
           closed' \subseteq Allocated, failed' \subseteq Attempts,
           answer = "error" => run.step \in closed' \union owned',
           UNCHANGED <<settling, now, crossed>>
    PROVE SeqInv'
<1>1. /\ run \in Locals /\ run.step \in Attempts /\ trace \in Seq(Attempts)
      /\ run.step \in Allocated /\ Allocated \subseteq Traced \union {run.step}
    BY DEF SeqInv, SeqTypeOK, Locals, AttemptInv, TraceInv
<1>2. Inv'
    BY StepInv DEF SeqInv
<1>3. trace' \in Seq(Attempts) /\ Traced' = Traced \union {run.step} /\ LastTraced' = {run.step}
    BY <1>1, TraceAppend
<1>4. view'[Run] = NoView
    BY DEF SeqInv, ViewInv
<1>5. CASE answer = "error"
    <2>1. run' = [run EXCEPT !.pc = "decide", !.read = Fresh]
        BY <1>5 DEF Completed
    <2>2. run' \in Locals /\ run'.pc = "decide" /\ run'.step = run.step
        BY <1>1, <2>1, FreshEvent, ReadsFields DEF Pcs
    <2>3. SeqTypeOK'
        BY <1>1, <1>3, <2>2 DEF SeqInv, SeqTypeOK
    <2>4. AttemptInv'
        BY <1>1, <1>5, <2>2 DEF AttemptInv, Preparing
    <2>5. TraceInv'
        BY <1>1, <1>3, <2>2 DEF TraceInv, Preparing
    <2>6. OwnedInv'
        BY <2>2 DEF OwnedInv
    <2>7. PreviousInv' /\ ViewInv' /\ DecisionInv'
        BY <1>4, <2>2 DEF PreviousInv, ViewInv, DecisionInv, Preparing, Repeating
    <2> QED BY <1>2, <2>3, <2>4, <2>5, <2>6, <2>7 DEF SeqInv
<1>6. CASE answer # "error"
    <2> DEFINE d == Stop(IF answer = "ok" THEN "ExecutionReturned" ELSE "NotRetryable")
    <2>1. d \in Decisions /\ ~isRepeat(d)
        BY StopType DEF Reasons
    <2>2. Return(d)
        BY <1>6 DEF Completed
    <2> HIDE DEF d
    <2>3. run' \in Locals /\ run'.pc = "done" /\ run'.decision = d
        BY <1>1, <2>1, <2>2, ReturnFields
    <2>4. SeqTypeOK'
        BY <1>1, <1>3, <2>3 DEF SeqInv, SeqTypeOK
    <2> QED BY <1>1, <1>2, <1>3, <2>1, <2>3, <2>4, DoneInv
<1> QED BY <1>5, <1>6

LEMMA ResourceReturnsInv == ASSUME SeqInv, ResourceReturns PROVE [Next]_vars /\ SeqInv'
<1>1. /\ run.pc = "dispatch" /\ trace' = Append(trace, run.step) /\ owned' = owned \union {run.step}
      /\ UNCHANGED <<vars, closed, failed, settling, now, crossed>>
    BY DEF ResourceReturns, receiptVars
<1>2. PICK answer \in {"ok", "error", "control"} : Completed(answer)
    BY DEF ResourceReturns
<1>3. [Next]_vars /\ Allocated' = Allocated /\ view' = view
    BY <1>1, Stutters
<1>4. owned' \subseteq {run.step} /\ closed' \subseteq Allocated /\ failed' \subseteq Attempts
    BY <1>1 DEF SeqInv, OwnedInv, SeqTypeOK
<1> QED BY <1>1, <1>2, <1>3, <1>4, CompletedInv

LEMMA ValueReturnsInv == ASSUME SeqInv, ValueReturns PROVE [Next]_vars /\ SeqInv'
<1>1. /\ run.pc = "value" /\ trace' = Append(trace, run.step)
      /\ UNCHANGED <<cancelled, view, granted, grants, owned, settling, now, settlements, crossed>>
    BY DEF ValueReturns
<1>2. PICK given \in {"ok", "error", "control"}, e \in BOOLEAN :
        /\ CloseReceipt(run.step, run.read, FALSE, e)
        /\ Completed(IF run.step \notin closed' THEN "control"
                     ELSE IF e /\ given = "ok" THEN "error" ELSE given)
    BY DEF ValueReturns
<1>3. run.step \in Allocated /\ run.read \in Events /\ owned = {}
    BY <1>1 DEF SeqInv, AttemptInv, SeqTypeOK, Locals, OwnedInv
<1>4. [Next]_vars /\ Allocated' = Allocated /\ closed' \subseteq Allocated /\ failed' \subseteq Attempts
    BY <1>1, <1>2, <1>3, CloseUpdates
<1> DEFINE answer == IF run.step \notin closed' THEN "control"
                     ELSE IF e /\ given = "ok" THEN "error" ELSE given
<1>5. /\ answer \in {"ok", "error", "control"} /\ Completed(answer)
      /\ answer = "error" => run.step \in closed'
    BY <1>2
<1> HIDE DEF answer
<1> QED BY <1>1, <1>3, <1>4, <1>5, CompletedInv

LEMMA DecideInv == ASSUME SeqInv, Decide PROVE [Next]_vars /\ SeqInv'
<1> DEFINE d == decide(events[run.step], Remaining, Evidence[events[run.step]])
<1>1. /\ run.pc = "decide" /\ run \in Locals /\ now \in Nat
      /\ UNCHANGED <<vars, trace, owned, receiptVars, now, settlements, crossed>>
    BY DEF Decide, SeqInv, SeqTypeOK
<1>2. d \in Decisions
    BY DecideType
<1>3. ASSUME NEW x \in Decisions, ~isRepeat(x), Return(x) PROVE [Next]_vars /\ SeqInv'
    BY <1>1, <1>3, ReturnInv
<1>4. ASSUME NEW delay \in Backoffs, NEW given \in Deadlines, NEW end,
             end = earliestDeadline(given, run.deadline),
             run' = [run EXCEPT !.pc = "close", !.decision = d, !.deadline = end,
                                !.notBefore = now + delay, !.seen = events[run.step]]
      PROVE [Next]_vars /\ SeqInv'
    <2> DEFINE b1 == [run EXCEPT !.pc = "close"]
               b2 == [b1 EXCEPT !.decision = d]
               b3 == [b2 EXCEPT !.deadline = end]
               b4 == [b3 EXCEPT !.notBefore = now + delay]
    <2>1. end \in Nat /\ now + delay \in Nat
        BY <1>1, <1>4, SequenceAssumption DEF earliestDeadline, Locals
    <2>2. events[run.step] \in Events
        BY <1>1 DEF SeqInv, AttemptInv, Inv, TypeOK, Allocated
    <2>3. run' = [b4 EXCEPT !.seen = events[run.step]]
        BY <1>4
    <2>4. b1 \in Locals /\ b1.pc = "close" /\ b1.step = run.step
        BY <1>1 DEF Locals, Pcs
    <2> HIDE DEF b1
    <2>5. b2 \in Locals /\ b2.pc = "close" /\ b2.step = run.step
        BY <1>2, <2>4 DEF Locals
    <2> HIDE DEF b2
    <2>6. b3 \in Locals /\ b3.pc = "close" /\ b3.step = run.step
        BY <2>1, <2>5 DEF Locals
    <2> HIDE DEF b3
    <2>7. b4 \in Locals /\ b4.pc = "close" /\ b4.step = run.step
        BY <2>1, <2>6 DEF Locals
    <2> HIDE DEF b4
    <2>8. run' \in Locals /\ run'.pc = "close" /\ run'.step = run.step
        BY <2>2, <2>3, <2>7 DEF Locals
    <2>9. [Next]_vars /\ Inv' /\ Allocated' = Allocated /\ view' = view
        BY <1>1, Stutters
    <2>10. SeqTypeOK'
        BY <1>1, <2>8, <2>9 DEF SeqInv, SeqTypeOK, receiptVars
    <2>11. AttemptInv'
        BY <1>1, <2>8, <2>9 DEF SeqInv, AttemptInv, Preparing, receiptVars
    <2>12. TraceInv'
        BY <1>1, <2>8, <2>9 DEF SeqInv, TraceInv, Traced, LastTraced, Preparing
    <2>13. OwnedInv'
        BY <1>1, <2>8 DEF SeqInv, OwnedInv
    <2>14. PreviousInv' /\ ViewInv' /\ DecisionInv'
        BY <1>1, <2>8, <2>9 DEF SeqInv, PreviousInv, ViewInv, DecisionInv, Preparing, Repeating
    <2> QED BY <2>9, <2>10, <2>11, <2>12, <2>13, <2>14 DEF SeqInv
<1>5. CASE Return(stopDecision)
    BY <1>3, <1>5, StopType
<1>6. CASE ~isRepeat(d) /\ Return(d)
    BY <1>2, <1>3, <1>6
<1>7. CASE \E delay \in Backoffs, given \in Deadlines :
            LET end == earliestDeadline(given, run.deadline)
            IN IF ~isRepeat(Schedule(d, delay, end)) THEN Return(Schedule(d, delay, end))
               ELSE run' = [run EXCEPT !.pc = "close", !.decision = d, !.deadline = end,
                                       !.notBefore = now + delay, !.seen = events[run.step]]
    <2>1. PICK delay \in Backoffs, given \in Deadlines :
            LET end == earliestDeadline(given, run.deadline)
            IN IF ~isRepeat(Schedule(d, delay, end)) THEN Return(Schedule(d, delay, end))
               ELSE run' = [run EXCEPT !.pc = "close", !.decision = d, !.deadline = end,
                                       !.notBefore = now + delay, !.seen = events[run.step]]
        BY <1>7
    <2> DEFINE end == earliestDeadline(given, run.deadline)
    <2>2. Schedule(d, delay, end) \in Decisions
        BY <1>2 DEF Schedule, Decisions, Reasons
    <2> QED BY <1>3, <1>4, <2>1, <2>2
<1> QED BY <1>5, <1>6, <1>7 DEF Decide

\* Lifetime.Close is over and Run goes on to wait.
LEMMA WaitsInv ==
    ASSUME SeqInv, run.pc \in {"close", "callback"}, run' \in Locals, run'.pc = "wait", run'.step = run.step,
           [Next]_vars, Allocated' = Allocated, view' = view, owned' = {}, UNCHANGED <<trace, now, settling, crossed>>,
           closed' \subseteq Allocated, failed' \subseteq Attempts, run.step \in closed' \union crossed
    PROVE SeqInv'
<1>1. Inv' /\ Traced' = Traced /\ Allocated \subseteq Traced /\ run.step \in Allocated
    BY StepInv DEF SeqInv, TraceInv, Traced, AttemptInv, Preparing
<1>2. view'[Run] = NoView
    BY DEF SeqInv, ViewInv
<1>3. SeqTypeOK'
    BY DEF SeqInv, SeqTypeOK
<1>4. AttemptInv'
    BY <1>1 DEF AttemptInv, Preparing
<1>5. TraceInv' /\ OwnedInv'
    BY <1>1 DEF TraceInv, OwnedInv, Preparing
<1>6. PreviousInv' /\ ViewInv' /\ DecisionInv'
    BY <1>2 DEF PreviousInv, ViewInv, DecisionInv, Preparing, Repeating
<1> QED BY <1>1, <1>3, <1>4, <1>5, <1>6 DEF SeqInv

LEMMA NothingToCloseInv == ASSUME SeqInv, NothingToClose PROVE [Next]_vars /\ SeqInv'
<1>1. /\ run.pc = "close" /\ run.step \notin owned /\ run \in Locals
      /\ UNCHANGED <<vars, trace, owned, receiptVars, now, settlements, crossed>>
    BY DEF NothingToClose, SeqInv, SeqTypeOK
<1>2. CASE Return(stopDecision)
    BY <1>1, <1>2, StopType, ReturnInv
<1>3. CASE run' = [run EXCEPT !.pc = "wait"]
    <2>1. run' \in Locals /\ run'.pc = "wait" /\ run'.step = run.step
        BY <1>1, <1>3, MovesFields DEF Pcs
    <2>2. [Next]_vars /\ Allocated' = Allocated /\ view' = view
        BY <1>1, Stutters
    <2>3. owned' = {} /\ run.step \in closed' /\ closed' \subseteq Allocated /\ failed' \subseteq Attempts
        BY <1>1 DEF SeqInv, OwnedInv, AttemptInv, SeqTypeOK, receiptVars
    <2> QED BY <1>1, <2>1, <2>2, <2>3, WaitsInv DEF receiptVars
<1> QED BY <1>2, <1>3 DEF NothingToClose

LEMMA CallbackClosesInv == ASSUME SeqInv, CallbackCloses PROVE [Next]_vars /\ SeqInv'
<1>1. /\ run.pc = "callback" /\ run \in Locals /\ run.step \in Allocated /\ run.read \in Events
      /\ owned' = owned \ {run.step}
      /\ UNCHANGED <<cancelled, view, granted, grants, trace, settling, now, settlements, crossed>>
    BY DEF CallbackCloses, SeqInv, SeqTypeOK, AttemptInv, Locals
<1>2. PICK cleanup \in BOOLEAN, e \in BOOLEAN :
        /\ CloseReceipt(run.step, run.read, FALSE, e)
        /\ IF cleanup \/ run.step \in failed' THEN Return(stopDecision)
           ELSE run' = [run EXCEPT !.pc = "wait", !.read = Fresh]
    BY DEF CallbackCloses
<1>3. owned' = {} /\ Allocated \subseteq Traced /\ Traced' = Traced
    BY <1>1 DEF SeqInv, OwnedInv, TraceInv, Traced, Preparing
<1>4. /\ [Next]_vars /\ Inv' /\ Allocated' = Allocated
      /\ closed' \subseteq Allocated /\ failed' \subseteq Attempts
      /\ run.read = events[run.step] => run.step \in closed'
    BY <1>1, <1>2, CloseUpdates
<1>5. run.step \in closed' \union crossed
    BY <1>1, <1>4 DEF SeqInv, AttemptInv
<1>6. CASE Return(stopDecision)
    <2>1. run' \in Locals /\ run'.pc = "done" /\ ~isRepeat(run'.decision)
        BY <1>1, <1>6, StopType, ReturnFields
    <2>2. SeqTypeOK'
        BY <1>1, <1>3, <1>4, <2>1 DEF SeqInv, SeqTypeOK
    <2> QED BY <1>3, <1>4, <2>1, <2>2, DoneInv
<1>7. CASE run' = [run EXCEPT !.pc = "wait", !.read = Fresh]
    <2>1. run' \in Locals /\ run'.pc = "wait" /\ run'.step = run.step
        BY <1>1, <1>7, FreshEvent, ReadsFields DEF Pcs
    <2> QED BY <1>1, <1>3, <1>4, <1>5, <2>1, WaitsInv
<1> QED BY <1>2, <1>6, <1>7

LEMMA AdvanceInv == ASSUME SeqInv, Advance \/ HostFails PROVE [Next]_vars /\ SeqInv'
<1> DEFINE d == decide(events[run.step], Remaining, Evidence[run.seen])
<1>1. /\ run.pc = "wait" /\ run \in Locals /\ now \in Nat
      /\ UNCHANGED <<vars, trace, owned, receiptVars, now, settlements, crossed>>
    BY DEF Advance, HostFails, SeqInv, SeqTypeOK
<1>2. d \in Decisions
    BY DecideType
<1>3. ASSUME NEW x \in Decisions, ~isRepeat(x), Return(x) PROVE [Next]_vars /\ SeqInv'
    BY <1>1, <1>3, ReturnInv
<1>4. ASSUME Waited, NEW n \in Attempts,
             run' = [run EXCEPT !.pc = "check", !.prev = run.step, !.step = n, !.decision = d]
      PROVE [Next]_vars /\ SeqInv'
    <2> DEFINE b1 == [run EXCEPT !.pc = "check"]
               b2 == [b1 EXCEPT !.prev = run.step]
               b3 == [b2 EXCEPT !.step = n]
    <2>1. run' = [b3 EXCEPT !.decision = d]
        BY <1>4
    <2>2. b1 \in Locals /\ b1.pc = "check" /\ b1.notBefore = run.notBefore
        BY <1>1 DEF Locals, Pcs
    <2> HIDE DEF b1
    <2>3. b2 \in Locals /\ b2.pc = "check" /\ b2.prev = run.step /\ b2.notBefore = run.notBefore
        BY <1>1, <2>2 DEF Locals
    <2> HIDE DEF b2
    <2>4. b3 \in Locals /\ b3.pc = "check" /\ b3.prev = run.step /\ b3.notBefore = run.notBefore
        BY <2>3 DEF Locals
    <2> HIDE DEF b3, d
    <2>5. run' \in Locals /\ run'.pc = "check" /\ run'.prev = run.step /\ run'.notBefore = run.notBefore
        BY <1>2, <2>1, <2>4 DEF Locals
    <2>6. [Next]_vars /\ Inv' /\ Allocated' = Allocated /\ view' = view
        BY <1>1, Stutters
    <2>7. SeqTypeOK'
        BY <1>1, <2>5, <2>6 DEF SeqInv, SeqTypeOK, receiptVars
    <2>8. AttemptInv'
        BY <2>5 DEF AttemptInv, Preparing
    <2>9. TraceInv' /\ OwnedInv'
        BY <1>1, <2>5, <2>6 DEF SeqInv, TraceInv, OwnedInv, Traced, Preparing
    <2>10. PreviousInv'
        BY <1>1, <1>4, <2>5 DEF SeqInv, AttemptInv, PreviousInv, Waited, Repeating, receiptVars
    <2>11. ViewInv' /\ DecisionInv'
        BY <1>1, <2>5, <2>6 DEF SeqInv, ViewInv, DecisionInv
    <2> QED BY <2>6, <2>7, <2>8, <2>9, <2>10, <2>11 DEF SeqInv
<1>5. CASE Return(stopDecision)
    BY <1>3, <1>5, StopType
<1>6. CASE ~isRepeat(d) /\ Return(d)
    BY <1>2, <1>3, <1>6
<1> QED BY <1>4, <1>5, <1>6 DEF Advance, HostFails

-----------------------------------------------------------------------------
(* Hosts, the clock and the caller's context *)

\* A step of others leaves Run's locals and its undispatched attempt alone, and
\* the Receipt that Run has reserved.
LEMMA OthersInv ==
    ASSUME SeqInv, [Next]_vars, UNCHANGED <<localVars, closed>>, Allocated' = Allocated, view' = view,
           crossed \subseteq crossed', crossed' \subseteq Allocated,
           run.pc = "callback" => run.step \in crossed' \/ events'[run.step] = events[run.step],
           run.pc \in Preparing => events'[run.step] = events[run.step],
           now' \in Nat, now' >= now, failed' \subseteq Attempts,
           settling' \in [Attempts -> {"nobody", "host", "Run"}],
           run.pc = "grant" => settling'[run.prev] = settling[run.prev]
                               /\ (run.prev \in failed' => run.prev \in failed)
    PROVE SeqInv'
<1>1. run' = run /\ trace' = trace /\ owned' = owned /\ closed' = closed
    BY DEF localVars
<1>2. Inv'
    BY StepInv DEF SeqInv
<1>3. SeqTypeOK'
    BY <1>1 DEF SeqInv, SeqTypeOK
<1>4. AttemptInv'
    BY <1>1 DEF SeqInv, AttemptInv
<1>5. TraceInv' /\ OwnedInv'
    BY <1>1 DEF SeqInv, TraceInv, OwnedInv, Traced, LastTraced
<1>6. PreviousInv'
    <2>1. now \in Nat /\ run.notBefore \in Nat
        BY DEF SeqInv, SeqTypeOK, Locals
    <2> QED BY <1>1, <2>1 DEF SeqInv, PreviousInv
<1>7. ViewInv' /\ DecisionInv'
    BY <1>1 DEF SeqInv, ViewInv, DecisionInv
<1> QED BY <1>2, <1>3, <1>4, <1>5, <1>6, <1>7 DEF SeqInv

LEMMA HostUpdatesInv ==
    ASSUME SeqInv, NEW a \in Attempts, NEW e \in Events, HostUpdates(a, e)
    PROVE [Next]_vars /\ SeqInv'
<1>1. /\ a \in Allocated /\ events[a].phase >= Dispatched /\ Update(a, e)
      /\ events' = [events EXCEPT ![a] = e] /\ view' = view
      /\ crossed' = IF run.pc = "callback" /\ a = run.step THEN crossed \union {a} ELSE crossed
      /\ UNCHANGED <<localVars, closed, failed, settling, now>>
    BY DEF HostUpdates, Update, receiptVars
<1>2. e \in RawEvents
    BY DEF Events, RawEvents, Phases, BeforeDispatch, Terminal
<1>3. Next
    BY <1>1, <1>2 DEF Next
<1>4. events \in [Attempts -> Events \union {NotAllocated}]
    BY DEF SeqInv, Inv, TypeOK
<1>5. Allocated' = Allocated
    BY <1>1, <1>4, CoordinatorAssumption DEF Allocated
<1>6. run.pc \in Preparing => events'[run.step] = events[run.step]
    <2>1. run.step \in Attempts
        BY DEF SeqInv, SeqTypeOK, Locals
    <2>2. run.pc \in Preparing => run.step # a
        BY <1>1, FreshEvent DEF SeqInv, AttemptInv, BeforeDispatch, Dispatched
    <2> QED BY <1>1, <1>4, <2>1, <2>2
<1>7. /\ now \in Nat /\ failed \subseteq Attempts /\ run.step \in Attempts
      /\ settling \in [Attempts -> {"nobody", "host", "Run"}] /\ crossed \subseteq Allocated
    BY DEF SeqInv, SeqTypeOK, Locals
<1>8. run.pc = "callback" => run.step \in crossed' \/ events'[run.step] = events[run.step]
    BY <1>1, <1>4, <1>7
<1>9. crossed \subseteq crossed' /\ crossed' \subseteq Allocated
    BY <1>1, <1>7
<1> QED BY <1>1, <1>3, <1>5, <1>6, <1>7, <1>8, <1>9, OthersInv

\* Hosts settle a Receipt that nobody holds, and give back only their own.
LEMMA HostSettlesInv ==
    ASSUME SeqInv, NEW a \in Attempts, HostSettles(a) \/ HostSettled(a)
    PROVE [Next]_vars /\ SeqInv'
<1>1. /\ UNCHANGED <<vars, localVars, closed, now, crossed>>
      /\ settling[a] # "Run" /\ \E s \in {"nobody", "host"} : settling' = [settling EXCEPT ![a] = s]
      /\ failed' \subseteq failed \union {a} /\ (failed' = failed \/ \A b : b # a => (b \in failed' <=> b \in failed))
    BY DEF HostSettles, HostSettled
<1>2. [Next]_vars /\ Allocated' = Allocated /\ events' = events /\ view' = view
    BY <1>1, Stutters
<1>3. /\ now \in Nat /\ failed \subseteq Attempts /\ crossed \subseteq Allocated
      /\ settling \in [Attempts -> {"nobody", "host", "Run"}]
    BY DEF SeqInv, SeqTypeOK
<1>4. settling' \in [Attempts -> {"nobody", "host", "Run"}] /\ failed' \subseteq Attempts
    BY <1>1, <1>3
<1>5. run.pc = "grant" => /\ settling'[run.prev] = settling[run.prev]
                          /\ run.prev \in failed' => run.prev \in failed
    <2> SUFFICES ASSUME run.pc = "grant"
                 PROVE /\ settling'[run.prev] = settling[run.prev]
                       /\ run.prev \in failed' => run.prev \in failed
        OBVIOUS
    <2>1. settling[run.prev] = "Run" /\ run.prev # a
        BY <1>1 DEF SeqInv, PreviousInv
    <2>2. run.prev \in Attempts
        BY DEF SeqInv, PreviousInv, SeqTypeOK, Locals, Repeating
    <2> QED BY <1>1, <1>3, <2>1, <2>2
<1> QED BY <1>1, <1>2, <1>3, <1>4, <1>5, OthersInv

LEMMA TickInv == ASSUME SeqInv, Tick PROVE [Next]_vars /\ SeqInv'
<1>1. now' = now + 1 /\ UNCHANGED <<vars, localVars, closed, failed, settling, crossed>>
    BY DEF Tick, receiptVars
<1>2. [Next]_vars /\ Allocated' = Allocated /\ events' = events /\ view' = view
    BY <1>1, Stutters
<1>3. /\ now \in Nat /\ failed \subseteq Attempts /\ crossed \subseteq Allocated
      /\ settling \in [Attempts -> {"nobody", "host", "Run"}]
    BY DEF SeqInv, SeqTypeOK
<1>4. now' \in Nat /\ now' >= now
    BY <1>1, <1>3
<1> QED BY <1>1, <1>2, <1>3, <1>4, OthersInv

LEMMA CancelRunInv == ASSUME SeqInv, CancelRun PROVE [Next]_vars /\ SeqInv'
<1>1. /\ Cancel(Run) /\ events' = events /\ view' = view
      /\ UNCHANGED <<localVars, closed, failed, settling, now, crossed>>
    BY DEF CancelRun, Cancel, receiptVars
<1>2. Next
    BY <1>1, SequenceAssumption DEF Next
<1>3. Allocated' = Allocated
    BY <1>1 DEF Allocated
<1>4. /\ now \in Nat /\ failed \subseteq Attempts /\ crossed \subseteq Allocated
      /\ settling \in [Attempts -> {"nobody", "host", "Run"}]
    BY DEF SeqInv, SeqTypeOK
<1> QED BY <1>1, <1>2, <1>3, <1>4, OthersInv

-----------------------------------------------------------------------------
(* The inductive invariant, and what follows *)

LEMMA LatestType == latest \in Nat
BY SequenceAssumption DEF latest

LEMMA SeqInitInv == SeqInit => SeqInv
<1> SUFFICES ASSUME SeqInit PROVE SeqInv
    OBVIOUS
<1>1. Inv /\ Allocated = {}
    BY InitInv DEF SeqInit, Init, Allocated
<1>2. run \in Locals
    BY LatestType, FreshEvent, StopType, SequenceAssumption DEF SeqInit, Locals, Pcs, Reasons
<1>3. SeqTypeOK
    BY <1>1, <1>2 DEF SeqInit, SeqTypeOK
<1>4. AttemptInv /\ TraceInv /\ OwnedInv
    BY <1>1 DEF SeqInit, AttemptInv, TraceInv, OwnedInv, Preparing
<1>5. PreviousInv /\ ViewInv /\ DecisionInv
    BY SequenceAssumption DEF SeqInit, Init, PreviousInv, ViewInv, DecisionInv, Repeating
<1> QED BY <1>1, <1>3, <1>4, <1>5 DEF SeqInv

LEMMA SeqStepInv == SeqInv /\ [SeqNext]_seqVars => [Next]_vars /\ SeqInv'
<1> SUFFICES ASSUME SeqInv, [SeqNext]_seqVars PROVE [Next]_vars /\ SeqInv'
    OBVIOUS
<1>1. CASE RunSteps
    BY <1>1, StartStepInv, PreflightInv, StartInv, AuthorizeStepInv, LockAuthorizationInv, GrantStepInv,
       ResourceReturnsInv, ReadToCloseInv, ValueReturnsInv, DecideInv, NothingToCloseInv, CallbackClosesInv,
       AdvanceInv DEF RunSteps
<1>2. CASE Tick \/ CancelRun \/ HostFails
    BY <1>2, TickInv, CancelRunInv, AdvanceInv
<1>3. ASSUME NEW a \in Attempts, HostSettles(a) \/ HostSettled(a) \/ \E e \in Events : HostUpdates(a, e)
      PROVE [Next]_vars /\ SeqInv'
    BY <1>3, HostSettlesInv, HostUpdatesInv
<1>4. CASE UNCHANGED seqVars
    <2>1. UNCHANGED <<vars, localVars, closed, failed, settling, now, crossed>>
        BY <1>4 DEF seqVars, receiptVars
    <2>2. [Next]_vars /\ Allocated' = Allocated /\ events' = events /\ view' = view
        BY <2>1, Stutters
    <2>3. /\ now \in Nat /\ failed \subseteq Attempts /\ crossed \subseteq Allocated
      /\ settling \in [Attempts -> {"nobody", "host", "Run"}]
        BY DEF SeqInv, SeqTypeOK
    <2> QED BY <2>1, <2>2, <2>3, OthersInv
<1> QED BY <1>1, <1>2, <1>3, <1>4 DEF SeqNext

LEMMA SeqSpecInv == SeqSpec => []SeqInv
<1> QED BY SeqInitInv, SeqStepInv, PTL DEF SeqSpec

\* Sequence.Run implements the abstract Coordinator: whatever the host answers
\* in its callbacks, each step of the loop, of the hosts and of the caller is
\* one call of the Coordinator's methods or leaves the Coordinator alone.  So
\* the five theorems above hold for every run of a Sequence.
THEOREM SequenceRefinesCoordinator == SeqSpec => Spec
<1>1. SeqInit => Init
    BY DEF SeqInit
<1> QED BY <1>1, SeqStepInv, SeqSpecInv, PTL DEF SeqSpec, Spec

\* When Sequence.Run has returned, no permission to repeat is left open, the
\* trace names every identity used and only its last entry can own a resource:
\* for any budget, any host policy and any number of rounds.
THEOREM SequenceEndsHonestly == SeqSpec => []EndsHonestly
<1>1. SeqInv => EndsHonestly
    BY DEF SeqInv, TraceInv, OwnedInv, DecisionInv, EndsHonestly, Traced, LastTraced, Preparing
<1> QED BY <1>1, SeqSpecInv, PTL

\* authorizeRepeat dispatches a repeat only after an attempt whose resource is
\* closed and whose Receipt has no error and is reserved, whatever hosts settle
\* in between; and that Receipt is closed, unless a host updated the attempt
\* between the Snapshot and the Update of the close that its Lifetime called.
THEOREM SequenceRepeatsSettled == SeqSpec => RepeatsSettled
<1>1. SeqInv /\ [SeqNext]_seqVars =>
        [run.pc = "grant" /\ run'.pc = "dispatch" =>
            /\ run.prev \in closed \union crossed
            /\ run.prev \notin owned \union failed
            /\ settling[run.prev] = "Run"
            /\ now >= run.notBefore]_seqVars
    BY DEF SeqInv, PreviousInv, OwnedInv, Preparing, Repeating
<1> QED BY <1>1, SeqSpecInv, PTL DEF SeqSpec, RepeatsSettled

=============================================================================
