-------------------------- MODULE FirstSuccessful --------------------------
(***************************************************************************)
(* One call of FirstSuccessfulPayload (smart.go): a goroutine per handler, *)
(* a results channel with room for all of them, a collector that returns   *)
(* the first payload, and a drainer that closes what arrives too late.     *)
(* A Lifetime is used through its contract (module Ownership): the cancel  *)
(* function attached to the winner runs once, after the winner is closed.  *)
(***************************************************************************)
EXTENDS Naturals, Sequences

CONSTANTS
    N,              \* number of handlers
    Outcomes        \* what a handler may return

Actions == {"next", "stop", "bad"}

\* "bad" is an abort without an error or an action outside the enumeration.
Outcome == [err : BOOLEAN, action : Actions, payload : BOOLEAN, owned : BOOLEAN]

ASSUME FirstSuccessfulAssumption ==
    /\ N \in Nat \ {0}
    /\ Outcomes \subseteq Outcome

Branches == 1..N

\* The zero result with the context's error: the handler was never called.
Refused == [err |-> TRUE, action |-> "bad", payload |-> FALSE, owned |-> FALSE]

VARIABLES
    parent,         \* call.Context is done
    cancelled,      \* branches whose own cancel function has been called
    bpc,            \* where each branch goroutine is
    outcome,        \* what each branch put on the channel
    results,        \* the buffered channel
    chanClosed,     \* group.Wait() is over and the channel is closed
    life,           \* the Lifetime each branch produced
    hook,           \* branches whose cancel is attached to their Lifetime
    pc,             \* the collector
    ret,            \* what it returns: a branch number, or why there is none
    cursor,         \* the next index of the release loop
    drainer         \* the goroutine started by releaseFirstSuccessfulPayload

vars == <<parent, cancelled, bpc, outcome, results, chanClosed, life, hook,
          pc, ret, cursor, drainer>>
branchVars == <<bpc, outcome>>
collectorVars == <<pc, ret, cursor, drainer>>

Pending == 0
NoneWon == N + 1
Aborted == N + 2
Invalid == N + 3

TypeOK ==
    /\ parent \in BOOLEAN
    /\ cancelled \subseteq Branches
    /\ bpc \in [Branches -> {"idle", "new", "running", "sent"}]
    /\ outcome \in [Branches -> Outcomes \union {Refused}]
    /\ results \in Seq(Branches)
    /\ chanClosed \in BOOLEAN
    /\ life \in [Branches -> {"nil", "open", "closed"}]
    /\ hook \subseteq Branches
    /\ pc \in {"idle", "read", "release", "returned"}
    /\ ret \in 0..Invalid
    /\ cursor \in 1..(N + 1)
    /\ drainer \in {"none", "draining", "done"}

Init ==
    /\ parent = FALSE
    /\ cancelled = {}
    /\ bpc = [b \in Branches |-> "idle"]
    /\ outcome = [b \in Branches |-> Refused]
    /\ results = <<>>
    /\ chanClosed = FALSE
    /\ life = [b \in Branches |-> "nil"]
    /\ hook = {}
    /\ pc = "idle"
    /\ ret = Pending
    /\ cursor = 1
    /\ drainer = "none"

\* branchCtx.Err() # nil
CtxDone(b) == parent \/ b \in cancelled

\* Lifetime.Close: nothing to do for a nil or a closed one.
Closed(b) == [life EXCEPT ![b] = IF @ = "open" THEN "closed" ELSE @]

-----------------------------------------------------------------------------
\* The call itself: refused when its context is done, else it starts the
\* goroutines (a branch is "new" until it is scheduled) and collects.
Start ==
    /\ pc = "idle"
    /\ ~parent
    /\ bpc' = [b \in Branches |-> "new"]
    /\ pc' = "read"
    /\ UNCHANGED <<parent, cancelled, outcome, results, chanClosed, life, hook,
                   ret, cursor, drainer>>

StartRefused ==
    /\ pc = "idle"
    /\ parent
    /\ pc' = "returned"
    /\ ret' = Aborted
    /\ UNCHANGED <<parent, cancelled, branchVars, results, chanClosed, life, hook,
                   cursor, drainer>>

\* The goroutine looks at its context and calls the handler ...
Enter(b) ==
    /\ bpc[b] = "new"
    /\ ~CtxDone(b)
    /\ bpc' = [bpc EXCEPT ![b] = "running"]
    /\ UNCHANGED <<parent, cancelled, outcome, results, chanClosed, life, hook,
                   collectorVars>>

\* ... or reports the context's error without calling it.
Refuse(b) ==
    /\ bpc[b] = "new"
    /\ CtxDone(b)
    /\ bpc' = [bpc EXCEPT ![b] = "sent"]
    /\ outcome' = [outcome EXCEPT ![b] = Refused]
    /\ results' = Append(results, b)
    /\ UNCHANGED <<parent, cancelled, chanClosed, life, hook, collectorVars>>

\* The handler returns o, which is put on the channel and never blocks.
Deliver(b, o) ==
    /\ bpc[b] = "running"
    /\ outcome' = [outcome EXCEPT ![b] = o]
    /\ life' = [life EXCEPT ![b] = IF o.owned THEN "open" ELSE "nil"]
    /\ bpc' = [bpc EXCEPT ![b] = "sent"]
    /\ results' = Append(results, b)
    /\ UNCHANGED <<parent, cancelled, chanClosed, hook, collectorVars>>

Finish(b) == \E o \in Outcomes : Deliver(b, o)

\* group.Wait(); close(results)
CloseResults ==
    /\ \A b \in Branches : bpc[b] = "sent"
    /\ ~chanClosed
    /\ chanClosed' = TRUE
    /\ UNCHANGED <<parent, cancelled, branchVars, results, life, hook, collectorVars>>

-----------------------------------------------------------------------------
\* No error, a valid action other than next, and a payload.
Wins(o) == ~o.err /\ o.action = "stop" /\ o.payload

\* Leave the collector's loop with r: the deferred release comes next.
Return(r) == pc' = "release" /\ ret' = r /\ UNCHANGED <<cursor, drainer>>

\* Fault: the collector looks at the context only after it has read a result.
SeeCancelAfterResult ==
    /\ pc = "read"
    /\ parent
    /\ results # <<>>
    /\ Return(Aborted)
    /\ UNCHANGED <<parent, cancelled, branchVars, results, chanClosed, life, hook>>

\* readFirstSuccessfulPayload: select may pick either case when both are ready.
SeeCancel ==
    /\ pc = "read"
    /\ parent
    /\ Return(Aborted)
    /\ UNCHANGED <<parent, cancelled, branchVars, results, chanClosed, life, hook>>

\* An error, a next, or a stop without a payload: close it and read on.
Discard ==
    /\ pc = "read"
    /\ results # <<>>
    /\ LET o == outcome[Head(results)] IN o.err \/ (o.action # "bad" /\ ~Wins(o))
    /\ life' = Closed(Head(results))
    /\ results' = Tail(results)
    /\ UNCHANGED <<parent, cancelled, branchVars, chanClosed, hook, collectorVars>>

\* validateReturnedResult refuses the action: close the result and return.
Reject ==
    /\ pc = "read"
    /\ results # <<>>
    /\ LET o == outcome[Head(results)] IN ~o.err /\ o.action = "bad"
    /\ life' = Closed(Head(results))
    /\ results' = Tail(results)
    /\ Return(Invalid)
    /\ UNCHANGED <<parent, cancelled, branchVars, chanClosed, hook>>

\* Fault: OnClose is not called, so nothing ever cancels the winner's context.
AcceptWithoutHook ==
    /\ pc = "read"
    /\ results # <<>>
    /\ Wins(outcome[Head(results)])
    /\ results' = Tail(results)
    /\ Return(Head(results))
    /\ UNCHANGED <<parent, cancelled, branchVars, chanClosed, life, hook>>

\* The first payload wins; an owned one takes its branch's cancel along.
Accept ==
    /\ pc = "read"
    /\ results # <<>>
    /\ LET b == Head(results) IN
        /\ Wins(outcome[b])
        /\ hook' = hook \union (IF outcome[b].owned THEN {b} ELSE {})
        /\ Return(b)
    /\ results' = Tail(results)
    /\ UNCHANGED <<parent, cancelled, branchVars, chanClosed, life>>

\* The channel is closed and empty: the joined errors or ErrNoSuccessfulOutcome.
Exhaust ==
    /\ pc = "read"
    /\ results = <<>>
    /\ chanClosed
    /\ Return(NoneWon)
    /\ UNCHANGED <<parent, cancelled, branchVars, results, chanClosed, life, hook>>

\* winner: the index kept out of the release loop (-1 for a value payload).
Winner(b) == ret = b /\ outcome[b].owned

\* Fault: the release loop cancels every branch.
ReleaseAll ==
    /\ pc = "release"
    /\ cursor <= N
    /\ cancelled' = cancelled \union {cursor}
    /\ cursor' = cursor + 1
    /\ UNCHANGED <<parent, branchVars, results, chanClosed, life, hook, pc, ret, drainer>>

\* releaseFirstSuccessfulPayload: one iteration of the loop over cancels ...
Release ==
    /\ pc = "release"
    /\ cursor <= N
    /\ cancelled' = IF Winner(cursor) THEN cancelled ELSE cancelled \union {cursor}
    /\ cursor' = cursor + 1
    /\ UNCHANGED <<parent, branchVars, results, chanClosed, life, hook, pc, ret, drainer>>

\* Fault: no drainer is started.
LeaveUndrained ==
    /\ pc = "release"
    /\ cursor > N
    /\ pc' = "returned"
    /\ drainer' = "done"
    /\ UNCHANGED <<parent, cancelled, branchVars, results, chanClosed, life, hook,
                   ret, cursor>>

\* ... then the drainer is started and the caller gets the result.
Leave ==
    /\ pc = "release"
    /\ cursor > N
    /\ pc' = "returned"
    /\ drainer' = "draining"
    /\ UNCHANGED <<parent, cancelled, branchVars, results, chanClosed, life, hook,
                   ret, cursor>>

\* for late := range results { late.result.Lifetime.Close() }
Drain ==
    /\ drainer = "draining"
    /\ results # <<>>
    /\ life' = Closed(Head(results))
    /\ results' = Tail(results)
    /\ UNCHANGED <<parent, cancelled, branchVars, chanClosed, hook, collectorVars>>

EndDrain ==
    /\ drainer = "draining"
    /\ results = <<>>
    /\ chanClosed
    /\ drainer' = "done"
    /\ UNCHANGED <<parent, cancelled, branchVars, results, chanClosed, life, hook,
                   pc, ret, cursor>>

-----------------------------------------------------------------------------
\* The caller closes the owned result it received.
OwnerClose(b) ==
    /\ pc = "returned"
    /\ ret = b
    /\ life[b] = "open"
    /\ life' = Closed(b)
    /\ UNCHANGED <<parent, cancelled, branchVars, results, chanClosed, hook, collectorVars>>

\* The attached cancel runs after the cleanup.
RunHook(b) ==
    /\ b \in hook
    /\ life[b] = "closed"
    /\ hook' = hook \ {b}
    /\ cancelled' = cancelled \union {b}
    /\ UNCHANGED <<parent, branchVars, results, chanClosed, life, collectorVars>>

CancelParent ==
    /\ ~parent
    /\ parent' = TRUE
    /\ UNCHANGED <<cancelled, branchVars, results, chanClosed, life, hook, collectorVars>>

Collect == SeeCancel \/ Discard \/ Reject \/ Accept \/ Exhaust \/ Release \/ Leave

Next ==
    \/ Start \/ StartRefused \/ Collect
    \/ \E b \in Branches : Enter(b) \/ Refuse(b) \/ Finish(b) \/ OwnerClose(b) \/ RunHook(b)
    \/ CloseResults \/ Drain \/ EndDrain \/ CancelParent

Spec == Init /\ [][Next]_vars

\* Goroutines are scheduled and the caller closes what it was given.  A handler
\* may hang for ever, whatever its context says.
Fairness ==
    /\ WF_vars(Collect)
    /\ WF_vars(CloseResults)
    /\ WF_vars(Drain \/ EndDrain)
    /\ \A b \in Branches :
        /\ WF_vars(Enter(b) \/ Refuse(b))
        /\ WF_vars(OwnerClose(b))
        /\ WF_vars(RunHook(b))

FairSpec == Spec /\ Fairness

-----------------------------------------------------------------------------
(* Safety *)

\* Only the caller's Close ends the winner: no step of the release loop, of the
\* drainer or of a late branch closes its resource or cancels its context.
WinnerOutlivesCall ==
    [][\A b \in Branches :
        (Winner(b) /\ life[b] = "open" /\ ~OwnerClose(b))
            => (life'[b] = "open" /\ b \notin cancelled')]_vars

(* Liveness *)

\* No resource leaks: every owned result is either the one returned or is
\* closed, also when it arrives after the call has returned.
LosersClosed ==
    \A b \in Branches : (life[b] = "open") ~> (life[b] = "closed" \/ ret = b)

\* No context leaks: after the call, every branch context is cancelled, the
\* winner's once its owner has closed it.
ContextsReleased == (pc = "release") ~> (cancelled = Branches)

\* Cancelling the caller's context ends the call even if no handler returns.
CancelReturns == (pc = "read" /\ parent) ~> (pc = "returned")

=============================================================================
