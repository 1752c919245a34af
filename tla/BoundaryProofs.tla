--------------------------- MODULE BoundaryProofs ---------------------------
(***************************************************************************)
(* execution.Boundary and its Receipt for any number of host goroutines.   *)
(***************************************************************************)
EXTENDS Boundary, TLAPS

BeforeStart == {"idle", "prepare", "admitted", "start", "starting"}
Closing == {"closing", "panicking"}
Reads == {"reconcile", "close", "closeNot", "same"}
Undispatched == ClosedEvent(Fresh, "closeNot")

\* receipt.mu and receipt.settling are held by the process that is there, and
\* never both.
LockInv ==
    /\ \A p \in Procs : op[p].stage = "locked" <=> mu = p
    /\ \A p \in Procs : op[p].stage = "settling" <=> settling = p
    /\ mu = Nobody \/ settling = Nobody

\* Which process is in which method.
KindInv ==
    /\ op[Hook].kind \in {"none", "close"}
    /\ \A u \in Users : op[u].kind \in {"none", "record", "same", "reconcile"}

\* Where Run is and what its method is.
RunInv ==
    /\ rpc \notin Closing \union {"starting"} => op[Runner] = Idle
    /\ rpc = "starting" =>
        /\ op[Runner].stage \in {"waiting", "locked"} /\ op[Runner].kind = "record"
        /\ op[Runner].arg = [Fresh EXCEPT !.phase = Dispatched]
    /\ rpc \in Closing =>
        /\ op[Runner].stage \in {"waiting", "locked", "settling"}
        /\ op[Runner].kind = IF started THEN "close" ELSE "closeNot"
    /\ rpc \in BeforeStart => ~started
    /\ rpc = "dispatch" => started
    /\ life # "none" => rpc = "returned" /\ started
    /\ life # "closed" => op[Hook] = Idle

\* Before Dispatch nobody else knows the attempt.
PrivateInv ==
    ~started =>
        /\ ~direct /\ \A p \in Procs \ {Runner} : op[p] = Idle
        /\ event = IF closed THEN Undispatched ELSE Fresh

\* The Receipt closes with a terminal attempt, and Run closes it before it
\* returns.
ClosedInv ==
    /\ closed => event.phase = Terminal
    /\ rpc \in BeforeStart \union {"dispatch"} => ~closed
    /\ rpc \in Closing => (closed <=> op[Runner].stage = "settling")
    /\ rpc = "returned" /\ life = "none" /\ ~direct => closed

\* What a method has read is current, and true, while it holds the Receipt.
ReadInv ==
    \A p \in Procs :
        /\ op[p].stage = "locked" /\ op[p].kind \in Reads =>
            /\ ~direct => op[p].arg = event
            /\ started /\ op[p].arg.outcome = "NotExecuted" => denied
        /\ op[p].stage = "settling" => (~direct => op[p].arg = event)

\* Nobody settling: Finish knows the facts.
ToldInv == closed /\ finish /\ settling = Nobody /\ ~direct => told \in {event, Lost} \/ err = "invalid"

Inv ==
    /\ TypeOK /\ validEvent(event)
    /\ LockInv /\ KindInv /\ RunInv /\ PrivateInv /\ ClosedInv /\ ReadInv /\ ToldInv
    /\ NotExecutedIsProof

-----------------------------------------------------------------------------
(* Events *)

\* The event that closing stores.
LEMMA ClosedFields ==
    ASSUME NEW e \in Events, NEW kind
    PROVE LET c == ClosedEvent(e, kind)
          IN /\ c \in Events /\ c.phase = Terminal /\ c.committed = e.committed
             /\ c.outcome = IF kind = "closeNot" THEN "NotExecuted" ELSE e.outcome
<1> DEFINE o == IF kind = "closeNot" THEN "NotExecuted" ELSE e.outcome
           a == [e EXCEPT !.phase = Terminal]
           c == ClosedEvent(e, kind)
<1>1. a \in Events /\ a.phase = Terminal /\ a.committed = e.committed /\ a.outcome = e.outcome
    BY DEF Events, Phases, BeforeDispatch, Terminal
<1>2. c = [a EXCEPT !.outcome = o] /\ o \in Outcomes
    BY DEF ClosedEvent, Events, Outcomes
<1> HIDE DEF a, o
<1>3. c \in Events /\ c.phase = Terminal /\ c.committed = e.committed /\ c.outcome = o
    BY <1>1, <1>2 DEF Events
<1> QED BY <1>3 DEF o

LEMMA FreshFacts ==
    /\ Fresh \in Events /\ validEvent(Fresh) /\ Fresh.outcome = "Unknown"
    /\ [Fresh EXCEPT !.phase = Dispatched] \in Events
    /\ [Fresh EXCEPT !.phase = Dispatched].outcome = "Unknown"
    /\ Follows(Fresh, [Fresh EXCEPT !.phase = Dispatched])
    /\ Undispatched \in Events /\ Undispatched.phase = Terminal
    /\ Follows(Fresh, Undispatched)
<1> USE DEF BeforeDispatch, Dispatched, Terminal, Phases, Outcomes
<1>1. Fresh \in Events /\ validEvent(Fresh) /\ Fresh.outcome = "Unknown" /\ Fresh.phase = 0 /\ ~Fresh.committed
    BY DEF Fresh, Events, validEvent
<1> DEFINE d == [Fresh EXCEPT !.phase = Dispatched]
<1>2. d \in Events /\ d.phase = 1 /\ d.outcome = "Unknown" /\ ~d.committed
    BY <1>1 DEF Events
<1> HIDE DEF d
<1>3. Follows(Fresh, d)
    BY <1>1, <1>2 DEF Follows, validEvent
<1>4. /\ Undispatched \in Events /\ Undispatched.phase = 3 /\ Undispatched.outcome = "NotExecuted"
      /\ ~Undispatched.committed
    BY <1>1, ClosedFields DEF Undispatched
<1>5. Follows(Fresh, Undispatched)
    BY <1>1, <1>4 DEF Follows, validEvent
<1> QED BY <1>1, <1>2, <1>3, <1>4, <1>5 DEF d

LEMMA FreshDiffers == [Fresh EXCEPT !.phase = Dispatched] # Fresh
BY DEF Fresh, BeforeDispatch, Dispatched

\* What the Coordinator accepts is an event, and a terminal attempt stays so.
LEMMA FollowsEvent ==
    ASSUME NEW d \in Events, NEW e \in RawEvents \union Events, Follows(d, e)
    PROVE e \in Events /\ validEvent(e) /\ (d.phase = Terminal => e.phase = Terminal)
BY DEF Follows, validEvent, RawEvents, Events, Phases, Outcomes, BeforeDispatch, Dispatched, Terminal

\* close with current facts is never refused.
LEMMA ClosedFollows ==
    ASSUME NEW e \in Events, validEvent(e)
    PROVE Follows(e, ClosedEvent(e, "close"))
<1> DEFINE c == ClosedEvent(e, "close")
<1>1. c \in Events /\ c.phase = Terminal /\ c.committed = e.committed /\ c.outcome = e.outcome
    BY ClosedFields
<1> HIDE DEF c
<1>2. e.phase \in 0..3 /\ e.outcome \in Outcomes /\ e.committed \in BOOLEAN
    BY DEF Events, Phases, BeforeDispatch, Terminal
<1>3. Follows(e, c)
    BY <1>1, <1>2 DEF Follows, validEvent, Terminal, Dispatched
<1> QED BY <1>3 DEF c

-----------------------------------------------------------------------------
(* Processes *)

LEMMA ProcsFacts ==
    /\ Runner \in Procs /\ Hook \in Procs /\ Users \subseteq Procs /\ Nobody \notin Procs
    /\ Runner # Hook /\ Runner \notin Users /\ Hook \notin Users
    /\ \A p \in Procs : p = Runner \/ p = Hook \/ p \in Users
BY BoundaryAssumption DEF Procs

LEMMA OpChanges ==
    ASSUME TypeOK, NEW p \in Procs, NEW o, op' = [op EXCEPT ![p] = o]
    PROVE op'[p] = o /\ (\A q \in Procs : q # p => op'[q] = op[q]) /\ (o \in Ops => op' \in [Procs -> Ops])
BY DEF TypeOK

LEMMA OpKinds ==
    /\ Idle \in Ops /\ Idle.stage = "idle" /\ Idle.kind = "none"
    /\ Finished \in Ops /\ Finished.stage = "finished" /\ Finished.kind = "none"
BY FreshFacts DEF Idle, Finished, Ops, Kinds

\* Who may hold a Receipt that Dispatch has not seen: Run alone.
LEMMA OthersStarted ==
    ASSUME Inv, NEW p \in Procs, p # Runner, op[p].stage \in {"waiting", "locked", "settling"}
    PROVE started /\ (p = Hook => life = "closed") /\ op[p] # Idle
<1>1. op[p] # Idle
    BY OpKinds
<1>2. started
    BY <1>1 DEF Inv, PrivateInv
<1> QED BY <1>1, <1>2 DEF Inv, RunInv

\* Run calls a method of its Receipt.
LEMMA RunCalls ==
    ASSUME Inv, rpc \notin Closing \union {"starting"}, NEW kind \in Kinds, NEW arg \in Events,
           Call(Runner, kind, arg), rpc' \in Closing \union {"starting"},
           rpc \in {"prepare", "admitted", "start", "dispatch"},
           rpc' = "starting" =>
               kind = "record" /\ arg = [Fresh EXCEPT !.phase = Dispatched] /\ rpc # "dispatch",
           rpc' \in Closing => kind = IF started THEN "close" ELSE "closeNot",
           finish' \in BOOLEAN,
           UNCHANGED <<event, mu, settling, closed, err, cancelled, started, life, told, denied, direct>>
    PROVE Inv'
<1> DEFINE o == [stage |-> "waiting", kind |-> kind, arg |-> arg]
<1>1. o \in Ops /\ o.stage = "waiting" /\ o.kind = kind /\ o.arg = arg
    BY DEF Ops
<1> HIDE DEF o
<1>2. op'[Runner] = o /\ (\A q \in Procs : q # Runner => op'[q] = op[q]) /\ op' \in [Procs -> Ops]
    BY <1>1, ProcsFacts, OpChanges DEF Inv, Call, o
<1>3. op[Runner] = Idle /\ ~closed /\ life = "none"
    BY DEF Inv, RunInv, ClosedInv, BeforeStart, Closing
<1>4. TypeOK' /\ validEvent(event)'
    BY <1>2 DEF Inv, TypeOK, Closing
<1>5. LockInv'
    BY <1>1, <1>2, <1>3, OpKinds DEF Inv, LockInv
<1>6. KindInv'
    BY <1>2, ProcsFacts DEF Inv, KindInv
<1>7. RunInv'
    BY <1>1, <1>2, <1>3, ProcsFacts DEF Inv, RunInv, Closing, BeforeStart
<1>8. PrivateInv'
    BY <1>2, ProcsFacts DEF Inv, PrivateInv
<1>9. ClosedInv'
    BY <1>1, <1>2, <1>3 DEF Inv, ClosedInv, Closing, BeforeStart
<1>10. ReadInv'
    BY <1>1, <1>2 DEF Inv, ReadInv
<1>11. ToldInv' /\ NotExecutedIsProof'
    BY <1>3 DEF Inv, ToldInv, NotExecutedIsProof
<1> QED BY <1>4, <1>5, <1>6, <1>7, <1>8, <1>9, <1>10, <1>11 DEF Inv

\* The process that holds the Receipt, or finds it free, goes on to o.
LEMMA MethodMoves ==
    ASSUME Inv, NEW p \in Procs, NEW o \in Ops, op' = [op EXCEPT ![p] = o],
           mu \in {Nobody, p}, settling \in {Nobody, p},
           mu' = IF o.stage = "locked" THEN p ELSE Nobody,
           settling' = IF o.stage = "settling" THEN p ELSE Nobody,
           o.stage = "locked" /\ o.kind \in Reads =>
               /\ ~direct' => o.arg = event'
               /\ started' /\ o.arg.outcome = "NotExecuted" => denied',
           o.stage = "settling" => (~direct' => o.arg = event')
    PROVE /\ op' \in [Procs -> Ops] /\ op'[p] = o /\ \A q \in Procs : q # p => op'[q] = op[q]
          /\ LockInv' /\ ReadInv'
<1>1. op' \in [Procs -> Ops] /\ op'[p] = o /\ \A q \in Procs : q # p => op'[q] = op[q]
    BY OpChanges DEF Inv
<1>2. \A q \in Procs : q # p => op'[q].stage \notin {"locked", "settling"} /\ q # Nobody
    BY <1>1, ProcsFacts DEF Inv, LockInv
<1>3. p # Nobody
    BY ProcsFacts
<1>4. LockInv'
    BY <1>1, <1>2, <1>3 DEF LockInv
<1>5. ReadInv'
    BY <1>1, <1>2 DEF ReadInv
<1> QED BY <1>1, <1>4, <1>5

\* The same for a process other than Run.
LEMMA OtherMoves ==
    ASSUME Inv, NEW p \in Procs, p # Runner, NEW o \in Ops,
           o.kind \in {"none", op[p].kind} \/ (o.kind = "same" /\ op[p].kind = "record"),
           op[p].stage \in {"waiting", "locked", "settling"},
           op'[p] = o, \A q \in Procs : q # p => op'[q] = op[q],
           UNCHANGED <<rpc, started, life>>
    PROVE KindInv' /\ RunInv' /\ PrivateInv'
<1>1. started /\ (p = Hook => life = "closed")
    BY OthersStarted
<1>2. op'[Runner] = op[Runner] /\ op'[Hook].kind \in {"none", op[Hook].kind}
      /\ (life # "closed" => op'[Hook] = op[Hook])
    BY <1>1, ProcsFacts DEF Inv, KindInv
<1>3. KindInv'
    BY <1>2, ProcsFacts DEF Inv, KindInv
<1>4. RunInv'
    BY <1>2 DEF Inv, RunInv
<1> QED BY <1>1, <1>3, <1>4 DEF PrivateInv

LEMMA LockActionInv == ASSUME Inv, NEW p \in Procs, Lock(p) PROVE Inv'
<1> DEFINE e == IF op[p].kind = "record" THEN op[p].arg ELSE event
           k == IF op[p].kind = "record" /\ op[p].arg = event THEN "same" ELSE op[p].kind
           o == [stage |-> "locked", kind |-> k, arg |-> e]
<1>1. /\ op[p].stage = "waiting" /\ mu = Nobody /\ settling = Nobody /\ mu' = p
      /\ UNCHANGED <<event, settling, closed, err, finish, cancelled, rpc, started, life, told, denied, direct>>
    BY DEF Lock, receipt
<1>2. op[p] \in Ops /\ e \in Events /\ event \in Events
    BY DEF Inv, TypeOK, Ops
<1>3. op' = [op EXCEPT ![p] = o]
    BY DEF Lock
<1>4. o \in Ops /\ o.stage = "locked" /\ o.kind = k /\ o.arg = e
    BY <1>2 DEF Ops, Kinds
<1> HIDE DEF o
<1>5. o.kind \in Reads =>
        (~direct' => o.arg = event') /\ (started' /\ o.arg.outcome = "NotExecuted" => denied')
    BY <1>1, <1>4 DEF Reads, Inv, NotExecutedIsProof
<1>6. /\ op' \in [Procs -> Ops] /\ op'[p] = o /\ \A q \in Procs : q # p => op'[q] = op[q]
      /\ LockInv' /\ ReadInv'
    BY <1>1, <1>3, <1>4, <1>5, MethodMoves
<1>7. TypeOK' /\ validEvent(event)'
    BY <1>1, <1>6 DEF Inv, TypeOK
<1>8. /\ op[p].kind = "record" => op'[p].arg = op[p].arg
      /\ p = Runner => op'[p].kind = op[p].kind
    <2>1. op[p].kind = "record" => op'[p].arg = op[p].arg
        BY <1>4, <1>6
    <2>2. p = Runner /\ op[p].kind = "record" => op[p].arg # event
        <3> SUFFICES ASSUME p = Runner, op[p].kind = "record" PROVE op[p].arg # event
            OBVIOUS
        <3>1. rpc = "starting" /\ ~started
            BY OpKinds DEF Inv, RunInv, BeforeStart
        <3>2. event = Fresh /\ op[p].arg = [Fresh EXCEPT !.phase = Dispatched]
            BY <3>1 DEF Inv, RunInv, ClosedInv, PrivateInv, BeforeStart
        <3> QED BY <3>2, FreshDiffers
    <2> QED BY <1>4, <1>6, <2>1, <2>2
<1>9. KindInv' /\ RunInv' /\ PrivateInv'
    <2>1. CASE p # Runner
        BY <1>1, <1>4, <1>6, <2>1, OtherMoves
    <2>2. CASE p = Runner
        <3>1. op[p] # Idle
            BY <1>1, OpKinds
        <3>2. KindInv'
            BY <1>6, <2>2, ProcsFacts DEF Inv, KindInv
        <3>3. RunInv'
            BY <1>1, <1>4, <1>6, <1>8, <2>2, <3>1, ProcsFacts DEF Inv, RunInv
        <3>4. PrivateInv'
            BY <1>1, <1>6, <2>2 DEF Inv, PrivateInv
        <3> QED BY <3>2, <3>3, <3>4
    <2> QED BY <2>1, <2>2
<1>10. ClosedInv'
    BY <1>1, <1>4, <1>6, ProcsFacts DEF Inv, ClosedInv
<1>11. ToldInv' /\ NotExecutedIsProof'
    BY <1>1 DEF Inv, ToldInv, NotExecutedIsProof
<1> QED BY <1>6, <1>7, <1>9, <1>10, <1>11 DEF Inv

\* What every step of another process keeps, given how its method goes on.
Control == op \in [Procs -> Ops] /\ LockInv /\ ReadInv /\ KindInv /\ RunInv /\ PrivateInv

LEMMA OtherLeaves ==
    ASSUME Inv, NEW p \in Procs, p # Runner, op[p].stage = "locked", NEW ok, Leave(p, ok), life' = life
    PROVE Control' /\ UNCHANGED <<rpc, started, settling>> /\ mu' = Nobody /\ op'[Runner] = op[Runner]
<1>1. /\ mu' = Nobody /\ UNCHANGED <<settling, rpc, started>>
      /\ op' = [op EXCEPT ![p] = Finished]
    BY DEF Leave, Resume
<1>2. mu = p /\ settling = Nobody
    BY ProcsFacts DEF Inv, LockInv
<1>3. /\ op' \in [Procs -> Ops] /\ op'[p] = Finished /\ \A q \in Procs : q # p => op'[q] = op[q]
      /\ LockInv' /\ ReadInv'
    BY <1>1, <1>2, OpKinds, MethodMoves
<1>4. KindInv' /\ RunInv' /\ PrivateInv'
    BY <1>1, <1>3, OpKinds, OtherMoves
<1> QED BY <1>1, <1>3, <1>4, ProcsFacts DEF Control

LEMMA OtherSettles ==
    ASSUME Inv, NEW p \in Procs, p # Runner, op[p].stage = "locked", NEW e \in Events, Settle(p, e), finish,
           life' = life, ~direct' => e = event'
    PROVE Control' /\ UNCHANGED <<rpc, started>> /\ mu' = Nobody /\ settling' = p /\ op'[Runner] = op[Runner]
<1> DEFINE o == [stage |-> "settling", kind |-> op[p].kind, arg |-> e]
<1>1. /\ mu' = Nobody /\ settling' = p /\ UNCHANGED <<rpc, started>>
      /\ op' = [op EXCEPT ![p] = o]
    BY DEF Settle
<1>2. mu = p /\ settling = Nobody
    BY ProcsFacts DEF Inv, LockInv
<1>3. o \in Ops /\ o.stage = "settling" /\ o.kind = op[p].kind /\ o.arg = e
    BY DEF Inv, TypeOK, Ops
<1> HIDE DEF o
<1>4. /\ op' \in [Procs -> Ops] /\ op'[p] = o /\ \A q \in Procs : q # p => op'[q] = op[q]
      /\ LockInv' /\ ReadInv'
    BY <1>1, <1>2, <1>3, MethodMoves
<1>5. KindInv' /\ RunInv' /\ PrivateInv'
    BY <1>1, <1>3, <1>4, OtherMoves
<1> QED BY <1>1, <1>4, <1>5, ProcsFacts DEF Control

LEMMA ReconcileInv == ASSUME Inv, NEW p \in Procs, Reconcile(p) PROVE Inv'
<1>1. /\ op[p].stage = "locked" /\ op[p].kind = "reconcile"
      /\ UNCHANGED <<event, closed, err, finish, cancelled, life, told, denied, direct>>
    BY DEF Reconcile, receipt
<1>2. p # Runner
    BY <1>1, OpKinds DEF Inv, RunInv
<1>3. op[p].arg \in Events /\ (~direct => op[p].arg = event)
    BY <1>1 DEF Inv, TypeOK, Ops, ReadInv, Reads
<1>4. CASE \E ok : Leave(p, ok)
    <2>1. Control' /\ UNCHANGED <<rpc, started, settling>> /\ mu' = Nobody /\ op'[Runner] = op[Runner]
        BY <1>1, <1>2, <1>4, OtherLeaves
    <2>2. TypeOK' /\ validEvent(event)'
        BY <1>1, <2>1 DEF Inv, TypeOK, Control
    <2>3. ClosedInv' /\ ToldInv' /\ NotExecutedIsProof'
        BY <1>1, <2>1 DEF Inv, ClosedInv, ToldInv, NotExecutedIsProof
    <2> QED BY <2>1, <2>2, <2>3 DEF Inv, Control
<1>5. CASE finish /\ Settle(p, op[p].arg)
    <2>1. Control' /\ UNCHANGED <<rpc, started>> /\ mu' = Nobody /\ settling' = p /\ op'[Runner] = op[Runner]
        BY <1>1, <1>2, <1>3, <1>5, OtherSettles
    <2>2. TypeOK' /\ validEvent(event)'
        BY <1>1, <2>1 DEF Inv, TypeOK, Control
    <2>3. ClosedInv' /\ ToldInv' /\ NotExecutedIsProof'
        BY <1>1, <2>1, ProcsFacts DEF Inv, ClosedInv, ToldInv, NotExecutedIsProof
    <2> QED BY <2>1, <2>2, <2>3 DEF Inv, Control
<1>6. (\E ok : Leave(p, ok)) \/ (finish /\ Settle(p, op[p].arg))
    BY DEF Reconcile, Settle
<1> QED BY <1>4, <1>5, <1>6

\* A host's Record.
LEMMA OtherRecordInv == ASSUME Inv, NEW p \in Procs, p # Runner, Record(p) PROVE Inv'
<1> DEFINE e == op[p].arg
<1>1. /\ op[p].stage = "locked" /\ op[p].kind \in {"record", "same"}
      /\ UNCHANGED <<closed, err, finish, cancelled, life, told, direct>>
    BY DEF Record, receipt
<1>2. e \in Events /\ event \in Events /\ started /\ mu = p /\ settling = Nobody
    BY <1>1, OthersStarted, ProcsFacts DEF Inv, TypeOK, Ops, LockInv
<1>3. CASE ~Follows(event, e)
    <2>1. UNCHANGED <<event, denied>> /\ Leave(p, FALSE)
        BY <1>3 DEF Record
    <2>2. Control' /\ UNCHANGED <<rpc, started, settling>> /\ mu' = Nobody /\ op'[Runner] = op[Runner]
        BY <1>1, <2>1, OtherLeaves
    <2>3. TypeOK' /\ validEvent(event)'
        BY <1>1, <2>1, <2>2 DEF Inv, TypeOK, Control
    <2>4. ClosedInv' /\ ToldInv' /\ NotExecutedIsProof'
        BY <1>1, <2>1, <2>2 DEF Inv, ClosedInv, ToldInv, NotExecutedIsProof
    <2> QED BY <2>2, <2>3, <2>4 DEF Inv, Control
<1>4. CASE Follows(event, e)
    <2>1. /\ event' = e /\ denied' = (denied \/ e.outcome = "NotExecuted")
          /\ IF closed /\ op[p].kind # "same" THEN Settle(p, e) ELSE Leave(p, TRUE)
        BY <1>4 DEF Record
    <2>2. validEvent(e) /\ (event.phase = Terminal => e.phase = Terminal)
        BY <1>2, <1>4, FollowsEvent
    <2>3. CASE Leave(p, TRUE) /\ (closed /\ finish /\ ~direct => event = e)
        <3>1. Control' /\ UNCHANGED <<rpc, started, settling>> /\ mu' = Nobody /\ op'[Runner] = op[Runner]
            BY <1>1, <2>3, OtherLeaves
        <3>2. TypeOK' /\ validEvent(event)'
            BY <1>1, <1>2, <2>1, <2>2, <3>1 DEF Inv, TypeOK, Control
        <3>3. ClosedInv'
            BY <1>1, <2>1, <2>2, <3>1 DEF Inv, ClosedInv
        <3>4. ToldInv' /\ NotExecutedIsProof'
            BY <1>1, <2>1, <2>3, <3>1 DEF Inv, ToldInv, NotExecutedIsProof
        <3> QED BY <3>1, <3>2, <3>3, <3>4 DEF Inv, Control
    <2>4. CASE finish /\ Settle(p, e)
        <3>1. Control' /\ UNCHANGED <<rpc, started>> /\ mu' = Nobody /\ settling' = p /\ op'[Runner] = op[Runner]
            BY <1>1, <1>2, <2>1, <2>4, OtherSettles
        <3>2. TypeOK' /\ validEvent(event)'
            BY <1>1, <1>2, <2>1, <2>2, <3>1 DEF Inv, TypeOK, Control
        <3>3. ClosedInv'
            BY <1>1, <2>1, <2>2, <3>1 DEF Inv, ClosedInv
        <3>4. ToldInv' /\ NotExecutedIsProof'
            BY <1>1, <2>1, <3>1, ProcsFacts DEF Inv, ToldInv, NotExecutedIsProof
        <3> QED BY <3>1, <3>2, <3>3, <3>4 DEF Inv, Control
    <2>5. (Leave(p, TRUE) /\ (closed /\ finish /\ ~direct => event = e)) \/ (finish /\ Settle(p, e))
        <3>1. op[p].kind = "same" /\ ~direct => event = e
            BY <1>1 DEF Inv, ReadInv, Reads
        <3> QED BY <2>1, <3>1 DEF Settle
    <2> QED BY <2>3, <2>4, <2>5
<1> QED BY <1>3, <1>4

\* Run's own Record: the dispatch of a fresh attempt.
LEMMA RunRecordInv == ASSUME Inv, Record(Runner) PROVE Inv'
<1> DEFINE e == op[Runner].arg
<1>1. /\ op[Runner].stage = "locked" /\ op[Runner].kind \in {"record", "same"}
      /\ UNCHANGED <<closed, err, finish, cancelled, life, told, direct>>
    BY DEF Record, receipt
<1>2. rpc = "starting" /\ ~started /\ ~closed /\ life = "none"
    BY <1>1, OpKinds DEF Inv, RunInv, ClosedInv, BeforeStart
<1>3. event = Fresh /\ e = [Fresh EXCEPT !.phase = Dispatched] /\ ~direct
    BY <1>2 DEF Inv, RunInv, PrivateInv
<1>4. /\ Follows(event, e) /\ e \in Events /\ e.outcome = "Unknown" /\ validEvent(e)
    BY <1>3, FreshFacts DEF Follows
<1>5. mu = Runner /\ settling = Nobody
    BY <1>1, ProcsFacts DEF Inv, LockInv
<1>6. event' = e /\ denied' = denied /\ Leave(Runner, TRUE)
    BY <1>2, <1>4 DEF Record, Inv, TypeOK
<1>7. rpc' = "dispatch" /\ started' = TRUE /\ op' = [op EXCEPT ![Runner] = Idle] /\ mu' = Nobody /\ settling' = Nobody
    BY <1>2, <1>5, <1>6 DEF Leave, Resume
<1>8. /\ op' \in [Procs -> Ops] /\ op'[Runner] = Idle /\ \A q \in Procs : q # Runner => op'[q] = op[q]
      /\ LockInv' /\ ReadInv'
    BY <1>5, <1>7, ProcsFacts, OpKinds, MethodMoves
<1>9. TypeOK' /\ validEvent(event)'
    BY <1>1, <1>4, <1>6, <1>7, <1>8 DEF Inv, TypeOK
<1>10. KindInv'
    BY <1>8, ProcsFacts DEF Inv, KindInv
<1>11. RunInv'
    BY <1>1, <1>2, <1>7, <1>8, ProcsFacts DEF Inv, RunInv, Closing, BeforeStart
<1>12. PrivateInv' /\ ClosedInv' /\ ToldInv' /\ NotExecutedIsProof'
    BY <1>1, <1>2, <1>4, <1>6, <1>7
    DEF PrivateInv, ClosedInv, ToldInv, NotExecutedIsProof, Closing, BeforeStart
<1> QED BY <1>8, <1>9, <1>10, <1>11, <1>12 DEF Inv

\* Run's method is over and Run ends.
LEMMA RunEnds ==
    ASSUME Inv, rpc \in Closing, op' = [op EXCEPT ![Runner] = Idle], mu' = Nobody, settling' = Nobody,
           mu \in {Nobody, Runner}, settling \in {Nobody, Runner},
           rpc' \in {"returned", "unwound"}, UNCHANGED <<started, life, direct>>, ~started => event' = Undispatched /\ closed'
    PROVE Control' /\ op'[Runner] = Idle
<1>1. /\ op' \in [Procs -> Ops] /\ op'[Runner] = Idle /\ \A q \in Procs : q # Runner => op'[q] = op[q]
      /\ LockInv' /\ ReadInv'
    BY ProcsFacts, OpKinds, MethodMoves
<1>2. KindInv'
    BY <1>1, ProcsFacts DEF Inv, KindInv
<1>3. life = "none"
    BY DEF Inv, RunInv, Closing
<1>4. RunInv'
    BY <1>1, <1>3, ProcsFacts DEF Inv, RunInv, Closing, BeforeStart
<1>5. PrivateInv'
    BY <1>1 DEF Inv, PrivateInv
<1> QED BY <1>1, <1>2, <1>4, <1>5 DEF Control

\* close by the callback of an owned result.
LEMMA OtherCloseInv == ASSUME Inv, NEW p \in Procs, p # Runner, Close(p) PROVE Inv'
<1> DEFINE e == ClosedEvent(op[p].arg, op[p].kind)
<1>1. /\ op[p].stage = "locked" /\ op[p].kind \in {"close", "closeNot"}
      /\ UNCHANGED <<err, finish, cancelled, life, told, denied, direct>>
    BY DEF Close
<1>2. p = Hook /\ op[p].kind = "close"
    BY <1>1, ProcsFacts DEF Inv, KindInv
<1>3. rpc = "returned" /\ started /\ life = "closed"
    BY <1>1, <1>2, OthersStarted DEF Inv, RunInv
<1>4. op[p].arg \in Events /\ event \in Events /\ (started /\ op[p].arg.outcome = "NotExecuted" => denied)
    BY <1>1 DEF Inv, TypeOK, Ops, ReadInv, Reads
<1>5. e \in Events /\ e.phase = Terminal /\ e.outcome = op[p].arg.outcome
    BY <1>2, <1>4, ClosedFields
<1> HIDE DEF e
<1>6. CASE closed \/ ~Follows(event, e)
    <2>1. UNCHANGED <<event, closed>> /\ Leave(p, FALSE)
        BY <1>6 DEF Close, e
    <2>2. Control' /\ UNCHANGED <<rpc, started, settling>> /\ mu' = Nobody /\ op'[Runner] = op[Runner]
        BY <1>1, <2>1, OtherLeaves
    <2>3. TypeOK' /\ validEvent(event)'
        BY <1>1, <2>1, <2>2 DEF Inv, TypeOK, Control
    <2>4. ClosedInv' /\ ToldInv' /\ NotExecutedIsProof'
        BY <1>1, <2>1, <2>2 DEF Inv, ClosedInv, ToldInv, NotExecutedIsProof
    <2> QED BY <2>2, <2>3, <2>4 DEF Inv, Control
<1>7. CASE ~closed /\ Follows(event, e)
    <2>1. event' = e /\ closed' = TRUE /\ Settle(p, e)
        BY <1>7 DEF Close, e
    <2>2. validEvent(e)
        BY <1>7 DEF Follows
    <2>3. NotExecutedIsProof' \/ ~started'
        BY <1>1, <1>3, <1>4, <1>5, <2>1 DEF NotExecutedIsProof
    <2>4. CASE finish
        <3>1. Control' /\ UNCHANGED <<rpc, started>> /\ mu' = Nobody /\ settling' = p /\ op'[Runner] = op[Runner]
            BY <1>1, <1>5, <2>1, <2>4, OtherSettles
        <3>2. TypeOK' /\ validEvent(event)'
            BY <1>1, <1>5, <2>1, <2>2, <3>1 DEF Inv, TypeOK, Control
        <3>3. ClosedInv' /\ ToldInv' /\ NotExecutedIsProof'
            BY <1>1, <1>3, <1>5, <2>1, <2>3, <3>1, ProcsFacts
            DEF ClosedInv, ToldInv, NotExecutedIsProof, Closing, BeforeStart
        <3> QED BY <3>1, <3>2, <3>3 DEF Inv, Control
    <2>5. CASE ~finish
        <3>1. Leave(p, TRUE)
            BY <2>1, <2>5 DEF Settle
        <3>2. Control' /\ UNCHANGED <<rpc, started, settling>> /\ mu' = Nobody /\ op'[Runner] = op[Runner]
            BY <1>1, <3>1, OtherLeaves
        <3>3. TypeOK' /\ validEvent(event)'
            BY <1>1, <1>5, <2>1, <2>2, <3>2 DEF Inv, TypeOK, Control
        <3>4. ClosedInv' /\ ToldInv' /\ NotExecutedIsProof'
            BY <1>1, <1>3, <1>5, <2>1, <2>3, <2>5, <3>2
            DEF ClosedInv, ToldInv, NotExecutedIsProof, Closing, BeforeStart
        <3> QED BY <3>2, <3>3, <3>4 DEF Inv, Control
    <2> QED BY <2>4, <2>5 DEF Inv, TypeOK
<1> QED BY <1>6, <1>7

\* close by Run: only a host that wrote to the Coordinator can have it refused.
LEMMA RunCloseInv == ASSUME Inv, Close(Runner) PROVE Inv'
<1> DEFINE e == ClosedEvent(op[Runner].arg, op[Runner].kind)
<1>1. /\ op[Runner].stage = "locked" /\ op[Runner].kind \in {"close", "closeNot"}
      /\ UNCHANGED <<err, finish, cancelled, life, told, denied, direct>>
    BY DEF Close
<1>2. rpc \in Closing /\ op[Runner].kind = IF started THEN "close" ELSE "closeNot"
    BY <1>1, OpKinds DEF Inv, RunInv
<1>3. ~closed /\ life = "none" /\ mu = Runner /\ settling = Nobody
    BY <1>1, <1>2, ProcsFacts DEF Inv, ClosedInv, RunInv, LockInv, Closing
<1>4. /\ op[Runner].arg \in Events /\ event \in Events /\ op[Runner] \in Ops
      /\ started /\ op[Runner].arg.outcome = "NotExecuted" => denied
      /\ ~direct => op[Runner].arg = event
    BY <1>1, ProcsFacts DEF Inv, TypeOK, Ops, ReadInv, Reads
<1>5. e \in Events /\ e.phase = Terminal /\ (started => e.outcome = op[Runner].arg.outcome)
    BY <1>2, <1>4, ClosedFields
<1>6. ~started => ~direct /\ event = Fresh /\ e = Undispatched
    BY <1>2, <1>3, <1>4 DEF Inv, PrivateInv, Undispatched
<1>7. ~direct => Follows(event, e)
    <2>1. CASE started /\ ~direct
        <3>1. e = ClosedEvent(event, "close")
            BY <1>2, <1>4, <2>1
        <3> QED BY <1>4, <3>1, ClosedFollows DEF Inv
    <2>2. CASE ~started
        BY <1>6, <2>2, FreshFacts
    <2> QED BY <2>1, <2>2
<1> HIDE DEF e
<1>8. ASSUME NEW ok, Leave(Runner, ok)
      PROVE /\ op' = [op EXCEPT ![Runner] = Idle] /\ mu' = Nobody /\ settling' = Nobody
            /\ rpc' \in {"returned", "unwound"} /\ started' = started
    BY <1>2, <1>3, <1>8 DEF Leave, Resume, Closing, Inv, TypeOK
<1>9. CASE ~Follows(event, e)
    <2>1. UNCHANGED <<event, closed>> /\ Leave(Runner, FALSE)
        BY <1>9 DEF Close, e
    <2>2. direct /\ started
        BY <1>6, <1>7, <1>9
    <2>3. Control' /\ op'[Runner] = Idle
        BY <1>1, <1>2, <1>3, <1>8, <2>1, <2>2, RunEnds
    <2>4. TypeOK' /\ validEvent(event)'
        BY <1>1, <1>8, <2>1, <2>3 DEF Inv, TypeOK, Control, RunDone
    <2>5. ClosedInv' /\ ToldInv' /\ NotExecutedIsProof'
        BY <1>1, <1>3, <1>8, <2>1, <2>2 DEF Inv, ClosedInv, ToldInv, NotExecutedIsProof, Closing, BeforeStart
    <2> QED BY <2>3, <2>4, <2>5 DEF Inv, Control
<1>10. CASE Follows(event, e)
    <2>1. event' = e /\ closed' = TRUE /\ Settle(Runner, e)
        BY <1>3, <1>10 DEF Close, e
    <2>2. validEvent(e)
        BY <1>10 DEF Follows
    <2>3. CASE finish
        <3> DEFINE o == [stage |-> "settling", kind |-> op[Runner].kind, arg |-> e]
        <3>1. /\ mu' = Nobody /\ settling' = Runner /\ UNCHANGED <<rpc, started>>
              /\ op' = [op EXCEPT ![Runner] = o]
            BY <2>1, <2>3 DEF Settle
        <3>2. o \in Ops /\ o.stage = "settling" /\ o.kind = op[Runner].kind /\ o.arg = e
            BY <1>4, <1>5 DEF Ops
        <3> HIDE DEF o
        <3>3. /\ op' \in [Procs -> Ops] /\ op'[Runner] = o /\ \A q \in Procs : q # Runner => op'[q] = op[q]
              /\ LockInv' /\ ReadInv'
            BY <1>3, <2>1, <3>1, <3>2, ProcsFacts, MethodMoves
        <3>4. TypeOK' /\ validEvent(event)'
            BY <1>1, <1>5, <2>1, <2>2, <3>1, <3>3 DEF Inv, TypeOK
        <3>5. KindInv'
            BY <3>3, ProcsFacts DEF Inv, KindInv
        <3>6. RunInv'
            BY <1>1, <1>2, <1>3, <3>1, <3>2, <3>3, ProcsFacts DEF Inv, RunInv, Closing, BeforeStart
        <3>7. PrivateInv'
            BY <1>1, <1>6, <2>1, <3>1, <3>3 DEF Inv, PrivateInv
        <3>8. ClosedInv'
            BY <1>1, <1>2, <1>5, <2>1, <3>1, <3>2, <3>3 DEF ClosedInv, Closing, BeforeStart
        <3>9. ToldInv' /\ NotExecutedIsProof'
            BY <1>1, <1>4, <1>5, <2>1, <3>1, ProcsFacts DEF ToldInv, NotExecutedIsProof
        <3> QED BY <3>3, <3>4, <3>5, <3>6, <3>7, <3>8, <3>9 DEF Inv
    <2>4. CASE ~finish
        <3>1. Leave(Runner, TRUE)
            BY <2>1, <2>4 DEF Settle
        <3>2. Control' /\ op'[Runner] = Idle
            BY <1>1, <1>2, <1>3, <1>6, <1>8, <2>1, <3>1, RunEnds
        <3>3. TypeOK' /\ validEvent(event)'
            BY <1>1, <1>5, <1>8, <2>1, <2>2, <3>1, <3>2 DEF Inv, TypeOK, Control, RunDone
        <3>4. ClosedInv' /\ ToldInv' /\ NotExecutedIsProof'
            BY <1>1, <1>4, <1>5, <1>8, <2>1, <2>4, <3>1
            DEF ClosedInv, ToldInv, NotExecutedIsProof, Closing, BeforeStart
        <3> QED BY <3>2, <3>3, <3>4 DEF Inv, Control
    <2> QED BY <2>3, <2>4
<1> QED BY <1>9, <1>10

\* Finish returned, failed, got no context or panicked.
LEMMA SettledInv == ASSUME Inv, NEW p \in Procs, Settled(p) PROVE Inv'
<1>1. /\ op[p].stage = "settling" /\ mu = Nobody /\ settling' = Nobody
      /\ UNCHANGED <<event, mu, closed, finish, cancelled, life, denied, direct>>
    BY DEF Settled
<1>2. settling = p /\ op[p].arg \in Events /\ (~direct => op[p].arg = event)
    BY <1>1 DEF Inv, LockInv, ReadInv, TypeOK, Ops
<1>3. PICK r \in FinishResults :
        /\ told' = CASE r = "nocontext" -> told [] r = "contextPanic" -> Lost [] OTHER -> op[p].arg
        /\ err' = CASE r = "ok" -> "nil" [] r = "error" -> "error"
                    [] r = "nocontext" -> "invalid" [] OTHER -> err
        /\ IF r \in {"panic", "contextPanic"} /\ p = Runner
           THEN rpc' = "unwound" /\ UNCHANGED started /\ op' = [op EXCEPT ![p] = Idle]
           ELSE Resume(p, TRUE)
    BY DEF Settled
<1>4. /\ told' \in Events \union {Nothing, Lost} /\ err' \in {"nil", "error", "invalid"}
      /\ ~direct => told' \in {event, Lost} \/ err' = "invalid"
    BY <1>2, <1>3, BoundaryAssumption DEF Inv, TypeOK
<1>5. CASE p # Runner
    <2>1. UNCHANGED <<rpc, started>> /\ op' = [op EXCEPT ![p] = Finished]
        BY <1>3, <1>5 DEF Resume
    <2>2. /\ op' \in [Procs -> Ops] /\ op'[p] = Finished /\ \A q \in Procs : q # p => op'[q] = op[q]
          /\ LockInv' /\ ReadInv'
        BY <1>1, <1>2, <2>1, OpKinds, MethodMoves
    <2>3. KindInv' /\ RunInv' /\ PrivateInv'
        BY <1>1, <1>5, <2>1, <2>2, OpKinds, OtherMoves
    <2>4. TypeOK' /\ validEvent(event)'
        BY <1>1, <1>4, <2>1, <2>2 DEF Inv, TypeOK
    <2>5. ClosedInv'
        BY <1>1, <1>5, <2>1, <2>2, ProcsFacts DEF Inv, ClosedInv
    <2>6. ToldInv' /\ NotExecutedIsProof'
        BY <1>1, <1>4, <2>1 DEF Inv, ToldInv, NotExecutedIsProof
    <2> QED BY <2>2, <2>3, <2>4, <2>5, <2>6 DEF Inv
<1>6. CASE p = Runner
    <2>1. rpc \in Closing /\ closed
        BY <1>1, <1>6, OpKinds DEF Inv, RunInv, ClosedInv
    <2>2. rpc' \in {"returned", "unwound"} /\ started' = started /\ op' = [op EXCEPT ![Runner] = Idle]
        BY <1>3, <1>6, <2>1 DEF Resume, Closing, Inv, TypeOK
    <2>3. ~started => event' = Undispatched /\ closed'
        BY <1>1, <2>1 DEF Inv, PrivateInv
    <2>4. Control' /\ op'[Runner] = Idle
        BY <1>1, <1>2, <1>6, <2>1, <2>2, <2>3, RunEnds
    <2>5. TypeOK' /\ validEvent(event)'
        BY <1>1, <1>4, <2>2, <2>4 DEF Inv, TypeOK, Control, RunDone
    <2>6. ClosedInv'
        BY <1>1, <2>1, <2>2 DEF Inv, ClosedInv, Closing, BeforeStart
    <2>7. ToldInv' /\ NotExecutedIsProof'
        BY <1>1, <1>4, <2>2 DEF Inv, ToldInv, NotExecutedIsProof
    <2> QED BY <2>4, <2>5, <2>6, <2>7 DEF Inv, Control
<1> QED BY <1>5, <1>6

-----------------------------------------------------------------------------
(* Run and the host *)

LEMMA BeginInv == ASSUME Inv, Begin PROVE Inv'
<1>1. /\ rpc = "idle" /\ rpc' \in {"refused", "prepare"}
      /\ UNCHANGED <<event, mu, settling, closed, err, finish, cancelled, started, life, op, told, denied, direct>>
    BY DEF Begin, receipt
<1>2. TypeOK' /\ validEvent(event)'
    BY <1>1 DEF Inv, TypeOK, RunDone
<1>3. LockInv' /\ KindInv' /\ PrivateInv' /\ ReadInv' /\ ToldInv' /\ NotExecutedIsProof'
    BY <1>1 DEF Inv, LockInv, KindInv, PrivateInv, ReadInv, ToldInv, NotExecutedIsProof
<1>4. RunInv' /\ ClosedInv'
    BY <1>1 DEF Inv, RunInv, ClosedInv, Closing, BeforeStart
<1> QED BY <1>2, <1>3, <1>4 DEF Inv

\* A callback panics, or is satisfied: Run goes on without a method of the Receipt.
LEMMA RunGoesOn ==
    ASSUME Inv, rpc \in {"prepare", "admitted", "start"}, rpc' \in {"abandoned", "admitted", "start"}, finish' \in BOOLEAN,
           UNCHANGED <<event, mu, settling, closed, err, cancelled, started, life, op, told, denied, direct>>
    PROVE Inv'
<1>1. ~closed /\ life = "none"
    BY DEF Inv, ClosedInv, RunInv, BeforeStart
<1>2. TypeOK' /\ validEvent(event)'
    BY DEF Inv, TypeOK, RunDone
<1>3. LockInv' /\ KindInv' /\ PrivateInv' /\ ReadInv' /\ ToldInv' /\ NotExecutedIsProof'
    BY <1>1 DEF Inv, LockInv, KindInv, PrivateInv, ReadInv, ToldInv, NotExecutedIsProof
<1>4. RunInv' /\ ClosedInv'
    BY <1>1 DEF Inv, RunInv, ClosedInv, Closing, BeforeStart
<1> QED BY <1>2, <1>3, <1>4 DEF Inv

\* Run gives up an attempt that was not dispatched.
LEMMA RunGivesUp ==
    ASSUME Inv, rpc \in {"prepare", "admitted", "start"}, rpc' = "closing", Call(Runner, "closeNot", Fresh),
           finish' \in BOOLEAN,
           UNCHANGED <<event, mu, settling, closed, err, cancelled, started, life, told, denied, direct>>
    PROVE Inv'
<1>1. ~started /\ rpc \notin Closing \union {"starting"} /\ rpc' \in Closing
    BY DEF Inv, RunInv, BeforeStart, Closing
<1>2. "closeNot" \in Kinds /\ Fresh \in Events
    BY FreshFacts DEF Kinds
<1> QED BY <1>1, <1>2, RunCalls

LEMMA PrepareInv == ASSUME Inv, Prepare PROVE Inv'
<1>1. /\ rpc = "prepare" /\ finish \in BOOLEAN
      /\ UNCHANGED <<event, mu, settling, closed, err, cancelled, started, life, told, denied, direct>>
    BY DEF Prepare, Inv, TypeOK
<1>2. CASE finish' \in BOOLEAN /\ rpc' = "closing" /\ Call(Runner, "closeNot", Fresh)
    BY <1>1, <1>2, RunGivesUp
<1>3. CASE finish' \in BOOLEAN /\ rpc' \in {"abandoned", "admitted"} /\ UNCHANGED op
    BY <1>1, <1>3, RunGoesOn
<1> QED BY <1>1, <1>2, <1>3 DEF Prepare

LEMMA RecheckInv == ASSUME Inv, Recheck PROVE Inv'
<1>1. /\ rpc = "admitted" /\ finish' \in BOOLEAN
      /\ UNCHANGED <<event, mu, settling, closed, err, cancelled, started, life, told, denied, direct>>
    BY DEF Recheck, receipt, Inv, TypeOK
<1>2. CASE rpc' = "closing" /\ Call(Runner, "closeNot", Fresh)
    BY <1>1, <1>2, RunGivesUp
<1>3. CASE rpc' \in {"abandoned", "start"} /\ UNCHANGED op
    BY <1>1, <1>3, RunGoesOn
<1> QED BY <1>2, <1>3 DEF Recheck

LEMMA StartInv == ASSUME Inv, Start PROVE Inv'
<1> DEFINE e == [event EXCEPT !.phase = Dispatched]
<1>1. /\ rpc = "start" /\ rpc' = "starting" /\ Call(Runner, "record", e) /\ finish' \in BOOLEAN
      /\ UNCHANGED <<event, mu, settling, closed, err, cancelled, started, life, told, denied, direct>>
    BY DEF Start, receipt, Inv, TypeOK
<1>2. event = Fresh
    BY <1>1 DEF Inv, RunInv, ClosedInv, PrivateInv, BeforeStart
<1>3. e = [Fresh EXCEPT !.phase = Dispatched] /\ e \in Events /\ "record" \in Kinds
    BY <1>2, FreshFacts DEF Kinds
<1> HIDE DEF e
<1>4. rpc \notin Closing \union {"starting"} /\ rpc' \in Closing \union {"starting"} /\ rpc' \notin Closing
    BY <1>1 DEF Closing
<1> QED BY <1>1, <1>3, <1>4, RunCalls

LEMMA AuthorizeInv == ASSUME Inv, Authorize PROVE Inv'
<1>1. /\ rpc = "start" /\ finish' = finish
      /\ UNCHANGED <<mu, settling, closed, err, cancelled, life, told, denied, direct>>
    BY DEF Authorize, receipt
<1>2. CASE /\ event = Fresh /\ event' = [event EXCEPT !.phase = Dispatched]
           /\ rpc' = "dispatch" /\ started' = TRUE /\ UNCHANGED op
    <2>1. ~started /\ ~closed /\ ~direct /\ life = "none" /\ op[Runner] = Idle
        BY <1>1 DEF Inv, RunInv, ClosedInv, PrivateInv, BeforeStart, Closing
    <2>2. \A p \in Procs : op[p] = Idle
        BY <2>1 DEF Inv, PrivateInv
    <2>3. event' \in Events /\ event'.outcome = "Unknown" /\ validEvent(event')
        BY <1>2, FreshFacts DEF Follows
    <2>4. TypeOK' /\ validEvent(event)'
        BY <1>1, <1>2, <2>3 DEF Inv, TypeOK
    <2>5. LockInv' /\ KindInv'
        BY <1>1, <1>2 DEF Inv, LockInv, KindInv
    <2>6. RunInv'
        BY <1>1, <1>2, <2>1, <2>2, ProcsFacts DEF RunInv, Closing, BeforeStart
    <2>7. ReadInv'
        BY <1>2, <2>2, OpKinds DEF ReadInv
    <2>8. PrivateInv' /\ ClosedInv' /\ ToldInv' /\ NotExecutedIsProof'
        BY <1>1, <1>2, <2>1, <2>3
        DEF PrivateInv, ClosedInv, ToldInv, NotExecutedIsProof, Closing, BeforeStart
    <2> QED BY <2>4, <2>5, <2>6, <2>7, <2>8 DEF Inv
<1>3. CASE rpc' = "closing" /\ Call(Runner, "closeNot", Fresh) /\ UNCHANGED <<event, started>>
    BY <1>1, <1>3, RunGivesUp DEF Inv, TypeOK
<1>4. CASE rpc' = "abandoned" /\ UNCHANGED <<event, started, op>>
    BY <1>1, <1>4, RunGoesOn DEF Inv, TypeOK
<1> QED BY <1>2, <1>3, <1>4 DEF Authorize

LEMMA DispatchEndsInv == ASSUME Inv, DispatchPanics \/ DispatchReturnsValue PROVE Inv'
<1>1. /\ rpc = "dispatch" /\ rpc' \in Closing /\ Call(Runner, "close", Fresh) /\ finish' \in BOOLEAN
      /\ UNCHANGED <<event, mu, settling, closed, err, cancelled, started, life, told, denied, direct>>
    BY DEF DispatchPanics, DispatchReturnsValue, receipt, Inv, TypeOK, Closing
<1>2. started /\ rpc' # "starting" /\ rpc \notin Closing \union {"starting"}
    BY <1>1 DEF Inv, RunInv, Closing
<1>3. "close" \in Kinds /\ Fresh \in Events
    BY FreshFacts DEF Kinds
<1> QED BY <1>1, <1>2, <1>3, RunCalls

LEMMA DispatchReturnsOwnedInv == ASSUME Inv, DispatchReturnsOwned PROVE Inv'
<1>1. /\ rpc = "dispatch" /\ rpc' = "returned" /\ life' = "open"
      /\ UNCHANGED <<event, mu, settling, closed, err, finish, cancelled, started, op, told, denied, direct>>
    BY DEF DispatchReturnsOwned, receipt
<1>2. started /\ life = "none" /\ op[Hook] = Idle
    BY <1>1 DEF Inv, RunInv
<1>3. TypeOK' /\ validEvent(event)'
    BY <1>1 DEF Inv, TypeOK, RunDone
<1>4. LockInv' /\ KindInv' /\ PrivateInv' /\ ReadInv' /\ ToldInv' /\ NotExecutedIsProof'
    BY <1>1 DEF Inv, LockInv, KindInv, PrivateInv, ReadInv, ToldInv, NotExecutedIsProof
<1>5. RunInv' /\ ClosedInv'
    BY <1>1, <1>2 DEF Inv, RunInv, ClosedInv, Closing, BeforeStart
<1> QED BY <1>3, <1>4, <1>5 DEF Inv

\* A process that is idle calls a method after the dispatch.
LEMMA OtherCalls ==
    ASSUME Inv, NEW p \in Procs, p # Runner, op[p] = Idle, started, NEW kind \in Kinds, NEW arg \in Events,
           Call(p, kind, arg), p = Hook => kind = "close" /\ life = "open" /\ life' = "closed",
           p # Hook => kind \in {"record", "reconcile"} /\ life' = life,
           UNCHANGED <<event, mu, settling, closed, err, finish, cancelled, rpc, started, told, denied, direct>>
    PROVE Inv'
<1> DEFINE o == [stage |-> "waiting", kind |-> kind, arg |-> arg]
<1>1. o \in Ops /\ o.stage = "waiting" /\ o.kind = kind
    BY DEF Ops
<1>2. op'[p] = o /\ (\A q \in Procs : q # p => op'[q] = op[q]) /\ op' \in [Procs -> Ops]
    BY <1>1, OpChanges DEF Inv, Call
<1> HIDE DEF o
<1>3. TypeOK' /\ validEvent(event)'
    BY <1>2 DEF Inv, TypeOK
<1>4. LockInv'
    BY <1>1, <1>2, OpKinds DEF Inv, LockInv
<1>5. KindInv'
    BY <1>1, <1>2, ProcsFacts DEF Inv, KindInv
<1>6. RunInv'
    BY <1>2, ProcsFacts DEF Inv, RunInv
<1>7. ReadInv'
    BY <1>1, <1>2 DEF Inv, ReadInv
<1>8. PrivateInv' /\ ToldInv' /\ NotExecutedIsProof'
    BY DEF Inv, PrivateInv, ToldInv, NotExecutedIsProof
<1>9. ClosedInv'
    BY <1>2, ProcsFacts DEF Inv, ClosedInv
<1> QED BY <1>3, <1>4, <1>5, <1>6, <1>7, <1>8, <1>9 DEF Inv

LEMMA CloseLifetimeInv == ASSUME Inv, CloseLifetime PROVE Inv'
<1>1. /\ life = "open" /\ life' = "closed" /\ Call(Hook, "close", Fresh)
      /\ UNCHANGED <<event, mu, settling, closed, err, finish, cancelled, rpc, started, told, denied, direct>>
    BY DEF CloseLifetime, receipt
<1>2. started /\ op[Hook] = Idle
    BY <1>1 DEF Inv, RunInv
<1> QED BY <1>1, <1>2, ProcsFacts, FreshFacts, OtherCalls DEF Kinds

LEMMA UserCallsInv ==
    ASSUME Inv, NEW u \in Users, UserReconciles(u) \/ \E e \in RawEvents : UserRecords(u, e)
    PROVE Inv'
<1>1. PICK e \in Events, kind \in {"record", "reconcile"} :
        /\ started /\ op[u] = Idle /\ Call(u, kind, e)
        /\ UNCHANGED <<event, mu, settling, closed, err, finish, cancelled, rpc, started, life, told, denied, direct>>
    <2>1. CASE UserReconciles(u)
        BY <2>1, FreshFacts DEF UserReconciles, receipt
    <2>2. ASSUME NEW e \in RawEvents, UserRecords(u, e) PROVE e \in Events
        BY <2>2, FollowsEvent DEF UserRecords, Inv, TypeOK
    <2> QED BY <2>1, <2>2 DEF UserRecords, receipt
<1> QED BY <1>1, ProcsFacts, OtherCalls DEF Kinds

LEMMA HostUpdatesInv == ASSUME Inv, NEW e \in RawEvents, HostUpdates(e) PROVE Inv'
<1>1. /\ started /\ Follows(event, e) /\ event' = e /\ direct' = TRUE
      /\ denied' = (denied \/ e.outcome = "NotExecuted")
      /\ UNCHANGED <<mu, settling, closed, err, finish, cancelled, rpc, started, life, op, told>>
    BY DEF HostUpdates, receipt
<1>2. e \in Events /\ validEvent(e) /\ (event.phase = Terminal => e.phase = Terminal)
    BY <1>1, FollowsEvent DEF Inv, TypeOK
<1>3. TypeOK' /\ validEvent(event)'
    BY <1>1, <1>2 DEF Inv, TypeOK
<1>4. LockInv' /\ KindInv' /\ RunInv'
    BY <1>1 DEF Inv, LockInv, KindInv, RunInv
<1>5. PrivateInv' /\ ToldInv' /\ NotExecutedIsProof'
    BY <1>1 DEF PrivateInv, ToldInv, NotExecutedIsProof
<1>6. ClosedInv'
    BY <1>1, <1>2 DEF Inv, ClosedInv
<1>7. ReadInv'
    BY <1>1 DEF Inv, ReadInv
<1> QED BY <1>3, <1>4, <1>5, <1>6, <1>7 DEF Inv

-----------------------------------------------------------------------------
(* The invariant, and what follows from it *)

LEMMA InitInv == Init => Inv
<1> SUFFICES ASSUME Init PROVE Inv
    OBVIOUS
<1>1. \A p \in Procs : op[p] = Idle
    BY DEF Init
<1>2. TypeOK /\ validEvent(event)
    BY FreshFacts, OpKinds DEF Init, TypeOK
<1>3. LockInv /\ ReadInv
    BY <1>1, OpKinds, ProcsFacts DEF Init, LockInv, ReadInv
<1>4. KindInv /\ RunInv
    BY <1>1, OpKinds, ProcsFacts DEF Init, KindInv, RunInv, Closing, BeforeStart
<1>5. PrivateInv /\ ClosedInv /\ ToldInv /\ NotExecutedIsProof
    BY <1>1 DEF Init, PrivateInv, ClosedInv, ToldInv, NotExecutedIsProof, Closing
<1> QED BY <1>2, <1>3, <1>4, <1>5 DEF Inv

LEMMA StepInv == Inv /\ [Next]_vars => Inv'
<1> SUFFICES ASSUME Inv, [Next]_vars PROVE Inv'
    OBVIOUS
<1>1. CASE RunStep
    BY <1>1, BeginInv, PrepareInv, RecheckInv, StartInv, AuthorizeInv, DispatchEndsInv, DispatchReturnsOwnedInv
    DEF RunStep
<1>2. CASE CloseLifetime
    BY <1>2, CloseLifetimeInv
<1>3. CASE CancelCall \/ UNCHANGED vars
    <2>1. /\ cancelled' \in BOOLEAN
          /\ UNCHANGED <<event, mu, settling, closed, err, finish, rpc, started, life, op, told, denied, direct>>
        BY <1>3 DEF CancelCall, vars, receipt, Inv, TypeOK
    <2> QED
        BY <2>1 DEF Inv, TypeOK, LockInv, KindInv, RunInv, PrivateInv, ClosedInv, ReadInv, ToldInv, NotExecutedIsProof
<1>4. CASE \E u \in Users : UserReconciles(u) \/ \E e \in RawEvents : UserRecords(u, e)
    BY <1>4, UserCallsInv
<1>5. CASE \E e \in RawEvents : HostUpdates(e)
    BY <1>5, HostUpdatesInv
<1>6. CASE \E p \in Procs : MethodStep(p)
    <2> PICK p \in Procs : MethodStep(p)
        BY <1>6
    <2>1. CASE Lock(p)
        BY <2>1, LockActionInv
    <2>2. CASE Record(p)
        BY <2>2, RunRecordInv, OtherRecordInv
    <2>3. CASE Reconcile(p)
        BY <2>3, ReconcileInv
    <2>4. CASE Close(p)
        BY <2>4, RunCloseInv, OtherCloseInv
    <2>5. CASE Settled(p)
        BY <2>5, SettledInv
    <2> QED BY <2>1, <2>2, <2>3, <2>4, <2>5 DEF MethodStep
<1> QED BY <1>1, <1>2, <1>3, <1>4, <1>5, <1>6 DEF Next, HostStep

LEMMA SpecInv == Spec => []Inv
BY InitInv, StepInv, PTL DEF Spec

\* Type correctness of the model of boundary.go.
THEOREM BoundaryTypeCorrect == Spec => []TypeOK
<1>1. Inv => TypeOK
    BY DEF Inv
<1> QED BY <1>1, SpecInv, PTL

\* Receipt.mu and the settling channel exclude each other: no method reads the
\* facts while Finish runs, for any number of host goroutines.
THEOREM BoundaryExclusion == Spec => []LockInv
<1>1. Inv => LockInv
    BY DEF Inv
<1> QED BY <1>1, SpecInv, PTL

\* The facts Finish was last told are the recorded facts, however many host
\* goroutines record and reconcile while the Receipt is unlocked for Finish.
THEOREM BoundarySettledFactsCurrent == Spec => []SettledFactsCurrent
<1>1. Inv => SettledFactsCurrent
    BY DEF Inv, ToldInv, SettledFactsCurrent
<1> QED BY <1>1, SpecInv, PTL

\* NotExecuted is recorded for a dispatched attempt only on the host's word.
THEOREM BoundaryNotExecutedIsProof == Spec => []NotExecutedIsProof
<1>1. Inv => NotExecutedIsProof
    BY DEF Inv
<1> QED BY <1>1, SpecInv, PTL

\* Run returns a closed Receipt and a terminal attempt, unless the result's
\* Lifetime will do it or a host wrote to the Coordinator itself.
THEOREM BoundaryReturnedIsFinal == Spec => []ReturnedIsFinal
<1>1. Inv => ReturnedIsFinal
    BY DEF Inv, ClosedInv, ReturnedIsFinal
<1> QED BY <1>1, SpecInv, PTL

-----------------------------------------------------------------------------
(* No admission is left unsettled *)

\* Only a closed Receipt settles; whoever was to close it, Run on its way out or
\* the Lifetime callback, has closed it when it is done.
EndInv ==
    /\ rpc \in {"idle", "prepare", "refused"} => ~finish
    /\ \A p \in Procs : op[p].stage = "settling" => closed
    /\ rpc = "unwound" /\ ~direct => closed
    /\ life = "closed" => op[Hook] # Idle
    /\ op[Hook] = Finished /\ ~direct => closed

\* When Run has ended, the result is not open and nobody is settling, Finish was
\* told the facts or failed visibly, also when Dispatch or an earlier Finish
\* panicked; except for a panic before dispatch and after a direct update.
NoneUnsettled ==
    (rpc \in RunDone /\ life # "open" /\ op[Hook] \in {Idle, Finished} /\ settling = Nobody /\ finish)
        => (told \in {event, Lost} \/ err = "invalid" \/ rpc = "abandoned" \/ direct)

\* close is refused only after a direct update.
LEMMA CloseAccepted == ASSUME Inv, NEW p \in Procs, Close(p), ~direct PROVE closed'
<1> DEFINE e == ClosedEvent(op[p].arg, op[p].kind)
<1>1. op[p].stage = "locked" /\ op[p].kind \in {"close", "closeNot"} /\ op[p].arg = event
    BY DEF Close, Inv, ReadInv, Reads
<1>2. event \in Events /\ validEvent(event)
    BY DEF Inv, TypeOK
<1>3. CASE op[p].kind = "close"
    <2>1. Follows(event, e)
        BY <1>1, <1>2, <1>3, ClosedFollows
    <2> QED BY <2>1 DEF Close, Inv, TypeOK
<1>4. CASE op[p].kind = "closeNot"
    <2>1. p = Runner
        BY <1>4, ProcsFacts DEF Inv, KindInv
    <2>2. rpc \in Closing /\ ~started
        BY <1>1, <1>4, <2>1, OpKinds DEF Inv, RunInv
    <2>3. event = Fresh
        BY <1>1, <2>1, <2>2 DEF Inv, ClosedInv, PrivateInv
    <2>4. Follows(event, e)
        BY <1>1, <1>4, <2>3, FreshFacts DEF Undispatched
    <2> QED BY <2>4 DEF Close, Inv, TypeOK
<1> QED BY <1>1, <1>3, <1>4

\* A step after which the Hook is where it was and Run is not unwound.
LEMMA EndKept ==
    ASSUME EndInv, op'[Hook] = op[Hook], UNCHANGED finish, closed => closed', direct => direct',
           \A p \in Procs : op'[p].stage = "settling" => closed',
           rpc' = "unwound" => rpc = "unwound" \/ direct' \/ closed',
           rpc' \in {"idle", "prepare", "refused"} => rpc \in {"idle", "prepare", "refused"},
           life' = "closed" => life = "closed"
    PROVE EndInv'
BY DEF EndInv

LEMMA EndRun == ASSUME Inv, EndInv, RunStep PROVE EndInv'
<1>1. UNCHANGED <<closed, direct>> /\ life' \in {life, "open"} /\ op'[Hook] = op[Hook]
    BY ProcsFacts DEF RunStep, Begin, Prepare, Recheck, Start, Authorize, DispatchPanics,
        DispatchReturnsValue, DispatchReturnsOwned, Call, receipt, Inv, TypeOK
<1>2. op'[Runner].stage = "waiting" \/ op' = op
    BY ProcsFacts DEF RunStep, Begin, Prepare, Recheck, Start, Authorize, DispatchPanics,
        DispatchReturnsValue, DispatchReturnsOwned, Call, receipt, Inv, TypeOK
<1>3. \A p \in Procs \ {Runner} : op'[p] = op[p]
    BY ProcsFacts DEF RunStep, Begin, Prepare, Recheck, Start, Authorize, DispatchPanics,
        DispatchReturnsValue, DispatchReturnsOwned, Call, receipt, Inv, TypeOK
<1>4. rpc' # "unwound"
    BY DEF RunStep, Begin, Prepare, Recheck, Start, Authorize, DispatchPanics,
        DispatchReturnsValue, DispatchReturnsOwned
<1>5. rpc' \in {"idle", "prepare", "refused"} => rpc = "idle" /\ finish' = finish
    BY DEF RunStep, Begin, Prepare, Recheck, Start, Authorize, DispatchPanics,
        DispatchReturnsValue, DispatchReturnsOwned, receipt
<1> QED BY <1>1, <1>2, <1>3, <1>4, <1>5 DEF EndInv

LEMMA EndMethod == ASSUME Inv, EndInv, NEW p \in Procs, MethodStep(p) PROVE EndInv'
<1>1. UNCHANGED <<finish, life, direct>> /\ (closed => closed')
    BY DEF MethodStep, Lock, Record, Reconcile, Close, Settled, receipt, Inv, TypeOK
<1>2. \A q \in Procs \ {p} : op'[q] = op[q]
    <2>1. ASSUME NEW o, op' = [op EXCEPT ![p] = o] PROVE \A q \in Procs \ {p} : op'[q] = op[q]
        BY <2>1, OpChanges DEF Inv
    <2>2. CASE Lock(p)
        BY <2>1, <2>2 DEF Lock
    <2>3. ASSUME NEW ok, Resume(p, ok) PROVE \A q \in Procs \ {p} : op'[q] = op[q]
        BY <2>1, <2>3 DEF Resume, Call
    <2>4. ASSUME NEW e, Settle(p, e) PROVE \A q \in Procs \ {p} : op'[q] = op[q]
        BY <2>1, <2>3, <2>4 DEF Settle, Leave
    <2>5. CASE Settled(p)
        BY <2>1, <2>3, <2>5 DEF Settled
    <2>6. CASE Record(p) \/ Reconcile(p) \/ Close(p)
        BY <2>3, <2>4, <2>6 DEF Record, Reconcile, Close, Leave
    <2> QED BY <2>2, <2>5, <2>6 DEF MethodStep
<1>3. op'[p].stage = "settling" => closed'
    <2>1. CASE Lock(p)
        BY <2>1, OpChanges DEF Lock, Inv
    <2>2. CASE Settled(p)
        <3>1. closed
            BY <2>2 DEF Settled, EndInv
        <3> QED BY <1>1, <3>1
    <2>3. CASE Record(p) \/ Reconcile(p) \/ Close(p)
        <3>1. CASE \E ok : Leave(p, ok)
            <4>1. op'[p] = Finished \/ op'[p] = Idle \/ op'[p].stage = "waiting"
                BY <3>1 DEF Leave, Resume, Call, Inv, TypeOK
            <4> QED BY <4>1, OpKinds
        <3>2. CASE closed'
            BY <3>2
        <3> QED BY <1>1, <2>3, <3>1, <3>2 DEF Record, Reconcile, Close, Settle, receipt
    <2> QED BY <2>1, <2>2, <2>3 DEF MethodStep
<1>4. \A q \in Procs : op'[q].stage = "settling" => closed'
    BY <1>1, <1>2, <1>3 DEF EndInv
<1>5. rpc' \in {"idle", "prepare", "refused"} => rpc = rpc'
    BY DEF MethodStep, Lock, Record, Reconcile, Close, Settled, Leave, Settle, Resume
<1>6. CASE p # Hook /\ p # Runner
    <2>1. rpc' = rpc /\ op'[Hook] = op[Hook]
        BY <1>2, <1>6, ProcsFacts
        DEF MethodStep, Lock, Record, Reconcile, Close, Settled, Leave, Settle, Resume
    <2> QED BY <1>1, <1>4, <2>1, EndKept
<1>7. CASE p = Runner
    <2>1. op'[Hook] = op[Hook]
        BY <1>2, <1>7, ProcsFacts
    <2>2. rpc' = "unwound" => rpc = "unwound" \/ direct' \/ closed'
        <3>1. CASE Lock(p) \/ Reconcile(p)
            <4>1. ~Reconcile(p)
                BY <1>7, OpKinds DEF Reconcile, Inv, RunInv
            <4> QED BY <3>1, <4>1 DEF Lock
        <3>2. CASE Record(p)
            <4>1. rpc = "starting"
                BY <1>7, <3>2, OpKinds DEF Record, Inv, RunInv
            <4> QED BY <1>7, <3>2, <4>1 DEF Record, Leave, Settle, Resume
        <3>3. CASE Close(p)
            BY <1>1, <3>3, CloseAccepted
        <3>4. CASE Settled(p)
            BY <1>1, <3>4 DEF Settled, EndInv
        <3> QED BY <3>1, <3>2, <3>3, <3>4 DEF MethodStep
    <2> QED BY <1>1, <1>4, <1>5, <2>1, <2>2, EndKept
<1>8. CASE p = Hook
    <2>1. rpc' = rpc
        BY <1>8, ProcsFacts
        DEF MethodStep, Lock, Record, Reconcile, Close, Settled, Leave, Settle, Resume
    <2>2. op[Hook].kind \in {"none", "close"}
        BY DEF Inv, KindInv
    <2>3. ASSUME Lock(p) PROVE op'[Hook].stage = "locked"
        <3>1. PICK k, e : op' = [op EXCEPT ![p] = [stage |-> "locked", kind |-> k, arg |-> e]]
            BY <2>3 DEF Lock
        <3> QED BY <1>8, <3>1 DEF Inv, TypeOK
    <2>4. ASSUME Close(p) \/ Settled(p), ~direct PROVE closed'
        BY <1>1, <2>4, CloseAccepted DEF Settled, EndInv
    <2>5. op'[Hook] # Idle
        <3>1. ASSUME NEW o, op' = [op EXCEPT ![p] = o], o.stage # "idle" PROVE op'[Hook] # Idle
            BY <1>8, <3>1, OpKinds, OpChanges DEF Inv
        <3>2. CASE Lock(p)
            BY <2>3, <3>2, OpKinds
        <3>3. CASE Close(p) \/ Settled(p)
            <4>1. \/ op' = [op EXCEPT ![p] = Finished]
                  \/ \E e : op' = [op EXCEPT ![p] = [stage |-> "settling", kind |-> op[p].kind, arg |-> e]]
                BY <1>8, <3>3, ProcsFacts DEF Close, Settled, Leave, Settle, Resume
            <4> QED BY <3>1, <4>1, OpKinds
        <3> QED BY <1>8, <2>2, <3>2, <3>3 DEF MethodStep, Record, Reconcile
    <2>6. op'[Hook] = Finished /\ ~direct => closed'
        BY <1>8, <2>2, <2>3, <2>4, OpKinds DEF MethodStep, Record, Reconcile
    <2> QED BY <1>1, <1>4, <2>1, <2>5, <2>6 DEF EndInv
<1> QED BY <1>6, <1>7, <1>8

LEMMA EndStep == ASSUME Inv, EndInv, [Next]_vars PROVE EndInv'
<1>1. CASE RunStep
    BY <1>1, EndRun
<1>2. CASE CloseLifetime
    <2>1. op'[Hook].stage = "waiting" /\ \A q \in Procs \ {Hook} : op'[q] = op[q]
        BY <1>2, ProcsFacts DEF CloseLifetime, Call, Inv, TypeOK
    <2>2. UNCHANGED <<finish, closed, rpc, direct>>
        BY <1>2 DEF CloseLifetime, receipt
    <2> QED BY <2>1, <2>2, OpKinds DEF EndInv
<1>3. CASE CancelCall \/ UNCHANGED vars \/ \E e \in RawEvents : HostUpdates(e)
    <2>1. UNCHANGED <<finish, closed, rpc, life, op>> /\ (direct => direct')
        BY <1>3 DEF CancelCall, HostUpdates, vars, receipt
    <2> QED BY <2>1 DEF EndInv
<1>4. CASE \E u \in Users : UserReconciles(u) \/ \E e \in RawEvents : UserRecords(u, e)
    <2>1. PICK u \in Users : UserReconciles(u) \/ \E e \in RawEvents : UserRecords(u, e)
        BY <1>4
    <2>2. op'[u].stage = "waiting" /\ \A q \in Procs \ {u} : op'[q] = op[q]
        BY <2>1, ProcsFacts DEF UserReconciles, UserRecords, Call, Inv, TypeOK
    <2>3. UNCHANGED <<finish, closed, rpc, life, direct>>
        BY <2>1 DEF UserReconciles, UserRecords, receipt
    <2>4. op'[Hook] = op[Hook]
        BY <2>2, ProcsFacts
    <2> QED BY <2>2, <2>3, <2>4, EndKept DEF EndInv
<1>5. CASE \E p \in Procs : MethodStep(p)
    BY <1>5, EndMethod
<1> QED BY <1>1, <1>2, <1>3, <1>4, <1>5 DEF Next, HostStep

\* For any number of host goroutines no admission is left unsettled: the safety
\* half of AdmissionSettled, and with the facts that hold at the end.
THEOREM BoundaryLeavesNoneUnsettled == Spec => []NoneUnsettled
<1>1. Init => Inv /\ EndInv
    <2>1. Init => EndInv
        <3> SUFFICES ASSUME Init PROVE EndInv
            OBVIOUS
        <3>1. \A p \in Procs : op[p] = Idle
            BY DEF Init
        <3>2. op[Hook] # Finished /\ \A p \in Procs : op[p].stage # "settling"
            BY <3>1, OpKinds, ProcsFacts
        <3> QED BY <3>2 DEF Init, EndInv
    <2> QED BY <2>1, InitInv
<1>2. (Inv /\ EndInv) /\ [Next]_vars => (Inv /\ EndInv)'
    BY StepInv, EndStep
<1>3. Inv /\ EndInv => NoneUnsettled
    <2> SUFFICES ASSUME Inv, EndInv, rpc \in RunDone, life # "open", op[Hook] \in {Idle, Finished},
                        settling = Nobody, finish, rpc # "abandoned", ~direct
                 PROVE told \in {event, Lost} \/ err = "invalid"
        BY DEF NoneUnsettled
    <2>1. rpc \in {"returned", "unwound"} /\ life \in {"none", "closed"}
        BY DEF EndInv, RunDone, Inv, TypeOK
    <2>2. closed
        BY <2>1 DEF EndInv, Inv, ClosedInv
    <2> QED BY <2>2 DEF Inv, ToldInv
<1> QED BY <1>1, <1>2, <1>3, PTL DEF Spec

=============================================================================
