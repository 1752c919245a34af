---------------------------- MODULE Coordinator ----------------------------
(***************************************************************************)
(* attempt.Coordinator (policy/attempt/coordinator.go): the facts of all   *)
(* physical attempts of one operation, updated by concurrent hosts, and    *)
(* the authorization of a repeat.  Each method holds coordinator.mu from   *)
(* start to end, so it is one step; an authorizer looks at the previous    *)
(* attempt, obtains replay evidence outside the lock, and calls            *)
(* AuthorizeRepeat later, when the facts may have changed.                 *)
(***************************************************************************)
EXTENDS AttemptEvent, FiniteSets

CONSTANTS
    Attempts,       \* attempt identities of the operation
    Authorizers,    \* goroutines that authorize repeats
    Limit,          \* the attempt budget
    Evidence,       \* the host's replay evidence for an event
    NotAllocated,   \* no entry in coordinator.events
    NoView          \* an authorizer that has not looked yet

ASSUME CoordinatorAssumption ==
    /\ IsFiniteSet(Attempts)
    /\ Limit \in Nat \ {0}
    /\ Evidence \in [Events -> Replays]
    /\ NotAllocated \notin Events
    /\ NoView \notin [previous : Attempts, next : Attempts, event : Events]

VARIABLES
    events,         \* coordinator.events
    cancelled,      \* authorizers whose context is done
    view,           \* what each authorizer has read: previous, next and the event
    granted,        \* history: repeats granted, with the facts they were granted on
    grants          \* history: how often each attempt was granted

vars == <<events, cancelled, view, granted, grants>>

Allocated == {a \in Attempts : events[a] # NotAllocated}
Remaining == Limit - Cardinality(Allocated)

Views == [previous : Attempts, next : Attempts, event : Events]

TypeOK ==
    /\ events \in [Attempts -> Events \union {NotAllocated}]
    /\ cancelled \subseteq Authorizers
    /\ view \in [Authorizers -> Views \union {NoView}]
    /\ granted \subseteq Views
    /\ grants \in [Attempts -> Nat]

Init ==
    /\ events = [a \in Attempts |-> NotAllocated]
    /\ cancelled = {}
    /\ view = [r \in Authorizers |-> NoView]
    /\ granted = {}
    /\ grants = [a \in Attempts |-> 0]

-----------------------------------------------------------------------------
\* Begin: an identity is used once and only while there is budget.  A reused
\* identity and an exhausted budget change nothing.
Begin(a) ==
    /\ events[a] = NotAllocated
    /\ Cardinality(Allocated) < Limit
    /\ events' = [events EXCEPT ![a] = Fresh]
    /\ UNCHANGED <<cancelled, view, granted, grants>>

\* Update by any host goroutine; what Follows refuses changes nothing.
Update(a, e) ==
    /\ a \in Allocated
    /\ Follows(events[a], e)
    /\ events' = [events EXCEPT ![a] = e]
    /\ UNCHANGED <<cancelled, view, granted, grants>>

\* Snapshot of the previous attempt, on which the host bases its evidence.
Look(r, p, n) ==
    /\ view[r] = NoView
    /\ p \in Allocated
    /\ view' = [view EXCEPT ![r] = [previous |-> p, next |-> n, event |-> events[p]]]
    /\ UNCHANGED <<events, cancelled, granted, grants>>

Cancel(r) ==
    /\ r \notin cancelled
    /\ cancelled' = cancelled \union {r}
    /\ UNCHANGED <<events, view, granted, grants>>

\* Fault: the preconditions do not include the state of the next attempt.
RepeatableAgain(p, n) ==
    /\ p \in Allocated /\ n \in Allocated /\ p # n
    /\ events[p].phase = Terminal

\* The preconditions AuthorizeRepeat checks under the lock.
Repeatable(p, n) ==
    /\ p \in Allocated /\ n \in Allocated /\ p # n
    /\ events[p].phase = Terminal
    /\ events[n] = Fresh

\* The next attempt consumed its slot in Begin and may use it.
ReservedRemaining == Remaining + 1

\* Fault: the caller's event is not compared with the current one.
VerdictStale(v, done) ==
    IF done THEN [action |-> "Stop", reason |-> "Cancelled"]
    ELSE IF ~Repeatable(v.previous, v.next) THEN [action |-> "Stop", reason |-> "InvalidEvent"]
    ELSE decide(v.event, ReservedRemaining, Evidence[v.event])

\* The answer of AuthorizeRepeat to an authorizer holding v.
Verdict(v, done) ==
    IF done THEN [action |-> "Stop", reason |-> "Cancelled"]
    ELSE IF ~Repeatable(v.previous, v.next) THEN [action |-> "Stop", reason |-> "InvalidEvent"]
    ELSE IF events[v.previous] # v.event THEN [action |-> "Stop", reason |-> "EventChanged"]
    ELSE decide(v.event, ReservedRemaining, Evidence[v.event])

\* AuthorizeRepeat: a permitted repeat marks the next attempt dispatched, any
\* other answer changes nothing.  Afterwards the authorizer starts over.
AuthorizeRepeat(r) ==
    /\ view[r] # NoView
    /\ LET v == view[r]
           d == Verdict(v, r \in cancelled)
       IN \/ /\ d.action \in {"Retry", "Fallback"}
             /\ events' = [events EXCEPT ![v.next].phase = Dispatched]
             /\ granted' = granted \union
                 {[previous |-> v.previous, next |-> v.next, event |-> events[v.previous]]}
             /\ grants' = [grants EXCEPT ![v.next] = @ + 1]
          \/ /\ d.action \notin {"Retry", "Fallback"}
             /\ UNCHANGED <<events, granted, grants>>
    /\ view' = [view EXCEPT ![r] = NoView]
    /\ UNCHANGED cancelled

-----------------------------------------------------------------------------
Next ==
    \/ \E a \in Attempts : Begin(a) \/ \E e \in RawEvents : Update(a, e)
    \/ \E r \in Authorizers :
        \/ \E p, n \in Attempts : Look(r, p, n)
        \/ Cancel(r)
        \/ AuthorizeRepeat(r)

Spec == Init /\ [][Next]_vars

-----------------------------------------------------------------------------
(* Safety *)

\* The recorded facts are never contradictory, whoever wrote them last.
FactsValid == \A a \in Allocated : validEvent(events[a])

\* NewCoordinator: "declares the attempt budget before any execution".  No
\* interleaving of Begin calls allocates more attempts than the budget.
WithinBudget == Cardinality(Allocated) <= Limit

\* Two authorizers racing for the same next attempt: one dispatch.
DispatchedOnce == \A a \in Attempts : grants[a] <= 1

\* "changed facts require fresh host evidence": every granted repeat was safe
\* on the facts current at that moment, with the evidence for those facts,
\* however old the authorizer's own view was.
GrantedOnCurrentFacts ==
    \A g \in granted : g.event.phase = Terminal /\ SafeToRepeat(g.event, Evidence[g.event])

(* Action property *)

\* Phase, commitment and a known outcome never go back and identities are never
\* recycled, also when an authorization writes the entry.
FactsMonotone ==
    [][\A a \in Allocated :
        /\ events'[a] # NotAllocated
        /\ events'[a].phase >= events[a].phase
        /\ events[a].committed => events'[a].committed
        /\ events[a].outcome # "Unknown" => events'[a].outcome = events[a].outcome]_vars

=============================================================================
