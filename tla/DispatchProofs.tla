--------------------------- MODULE DispatchProofs ---------------------------
(***************************************************************************)
(* Composed handlers for any tree, any number of attempts and any delays:  *)
(* no index runs past its handlers, a repeat or a fallback starts with     *)
(* nothing open, and what a call leaves open belongs to its caller.        *)
(* Then route tables for any registrations and mounts: the stable sort,    *)
(* the registry and the readers of its snapshots, and mount cycles.        *)
(***************************************************************************)
EXTENDS Dispatch, Registry, FiniteSetTheorems, SequenceTheorems, TLAPS

Results == [action : {"next", "stop", "other", "abort"}, err : BOOLEAN, life : Nat]
Frames == [node : DOMAIN Nodes, i : Nat, ctx : Nat, wait : 0..MaxInt, last : Results]
Over == {"returned", "panicked", "dropped"}

CallOK ==
    /\ stack \in Seq(Frames)
    /\ mode \in {"try", "judge", "discard", "sleep"} \union Over
    /\ mode \in Over <=> stack = <<>>
    /\ res \in Results

LifeOK ==
    /\ hooks \in Seq(SUBSET Nat)
    /\ open \subseteq 1..Len(hooks)
    /\ timers \subseteq Nat /\ made \in Nat /\ done \subseteq Nat

TypeOK == CallOK /\ LifeOK

opOf(k) == Nodes[stack[k].node].op
kidsOf(k) == Nodes[stack[k].node].kids

\* How far each frame is: which handlers it has called, and which it may call.
IndexInv ==
    \A k \in DOMAIN stack :
        /\ opOf(k) = "chain" => stack[k].i <= Len(kidsOf(k))
        /\ opOf(k) = "timeout" => stack[k].i = 0
        /\ opOf(k) = "retry" => stack[k].i <= Attempts
        /\ k = Len(stack) =>
            /\ mode = "discard" => opOf(k) \in {"chain", "table", "fallback", "predicate", "retry"}
            /\ mode = "sleep" => opOf(k) = "retry"
            /\ mode = "try" /\ opOf(k) \in {"weight", "robin"} => stack[k].i = 0
            /\ mode \in {"try", "discard"} /\ opOf(k) \in {"fallback", "predicate"} => stack[k].i < 2
            /\ mode \in {"try", "discard", "sleep"} /\ opOf(k) = "retry" => stack[k].i < Attempts

\* The result on its way up owns what is open; nothing is open while a handler
\* is being called.
OpenInv ==
    /\ mode \in {"try", "sleep", "panicked"} => open = {}
    /\ open \subseteq {res.life}

\* A failed cleanup travels up with the result it belongs to, as an error.
BrokenInv ==
    broken # {} =>
        /\ mode \in {"judge", "discard", "returned", "dropped"}
        /\ broken = {res.life} /\ res.err /\ open = {}

\* The frames of Timeout whose handler has been called.
Armed == {k \in DOMAIN stack : opOf(k) = "timeout" /\ (k < Len(stack) \/ mode # "try")}

\* A context not cancelled yet is in the hands of its Timeout or of a Lifetime.
TimerInv == timers \subseteq {stack[k].ctx : k \in Armed} \union UNION {hooks[l] : l \in open}

Inv == TypeOK /\ IndexInv /\ OpenInv /\ BrokenInv /\ TimerInv /\ BackoffHolds

-----------------------------------------------------------------------------
(* The stack *)

LEMMA StackFacts ==
    ASSUME TypeOK, mode \notin Over
    PROVE /\ Len(stack) \in Nat \ {0} /\ DOMAIN stack = 1..Len(stack)
          /\ \A k \in 1..Len(stack) : stack[k] \in Frames
          /\ Top = stack[Len(stack)] /\ Top \in Frames
          /\ op = opOf(Len(stack)) /\ kids = kidsOf(Len(stack))
<1>1. stack \in Seq(Frames) /\ stack # <<>>
    BY DEF TypeOK, CallOK
<1>2. Len(stack) \in Nat \ {0} /\ DOMAIN stack = 1..Len(stack)
    BY <1>1, EmptySeq, LenProperties
<1>3. \A k \in 1..Len(stack) : stack[k] \in Frames
    BY <1>1, ElementOfSeq
<1>4. Top = stack[Len(stack)]
    BY DEF Top, Last
<1> QED BY <1>2, <1>3, <1>4 DEF op, kids, opOf, kidsOf

LEMMA KidsLength == \A n \in DOMAIN Nodes : Len(Nodes[n].kids) \in Nat
BY TreeAssumption, LenProperties

LEMMA TopFields ==
    ASSUME TypeOK, mode \notin Over
    PROVE /\ Top.node \in DOMAIN Nodes /\ Top.i \in Nat /\ Top.ctx \in Nat
          /\ Top.wait \in 0..MaxInt /\ Top.last \in Results
          /\ kids \in Seq(DOMAIN Nodes) /\ Len(kids) \in Nat
          /\ \A k \in 1..Len(kids) : kids[k] \in DOMAIN Nodes
<1>1. Top \in Frames
    BY StackFacts
<1>2. /\ Top.node \in DOMAIN Nodes /\ Top.i \in Nat /\ Top.ctx \in Nat
      /\ Top.wait \in 0..MaxInt /\ Top.last \in Results
    BY <1>1 DEF Frames
<1>3. kids \in Seq(DOMAIN Nodes)
    BY <1>2, TreeAssumption DEF kids
<1> QED BY <1>2, <1>3, LenProperties, ElementOfSeq

LEMMA FrameType ==
    ASSUME NEW child \in DOMAIN Nodes, NEW ctx \in Nat
    PROVE Frame(child, ctx) \in Frames
BY DispatchAssumption DEF Frame, Frames, Results, noRouteResult

LEMMA FrontOfSeq ==
    ASSUME NEW S, NEW s \in Seq(S), s # <<>>
    PROVE /\ Front(s) \in Seq(S) /\ Len(Front(s)) = Len(s) - 1
          /\ \A k \in 1..(Len(s) - 1) : Front(s)[k] = s[k]
<1>1. Len(s) \in Nat \ {0} /\ \A k \in 1..Len(s) : s[k] \in S
    BY EmptySeq, ElementOfSeq
<1> DEFINE n == Len(s) - 1
<1>2. n \in Nat /\ \A k \in 1..n : s[k] \in S
    BY <1>1
<1>3. Front(s) = SubSeq(s, 1, n)
    BY DEF Front
<1> HIDE DEF n
<1>4. /\ SubSeq(s, 1, n) \in Seq(S)
      /\ Len(SubSeq(s, 1, n)) = IF 1 <= n THEN n - 1 + 1 ELSE 0
      /\ \A k \in 1..(n - 1 + 1) : SubSeq(s, 1, n)[k] = s[1 + k - 1]
    BY <1>2, SubSeqProperties
<1>5. Len(SubSeq(s, 1, n)) = n /\ \A k \in 1..n : SubSeq(s, 1, n)[k] = s[k]
    BY <1>2, <1>4
<1> QED BY <1>3, <1>4, <1>5 DEF n

LEMMA LastReplaced ==
    ASSUME NEW S, NEW s \in Seq(S), s # <<>>, NEW f \in S, NEW t, t = [s EXCEPT ![Len(s)] = f]
    PROVE /\ t \in Seq(S) /\ Len(t) = Len(s) /\ t # <<>>
          /\ t[Len(s)] = f
          /\ \A k \in 1..(Len(s) - 1) : t[k] = s[k]
<1>1. Len(s) \in Nat \ {0}
    BY EmptySeq
<1>2. t \in Seq(S) /\ Len(t) = Len(s) /\ \A j \in 1..Len(s) : t[j] = IF j = Len(s) THEN f ELSE s[j]
    BY <1>1, ExceptSeq
<1>3. t # <<>>
    BY <1>1, <1>2, EmptySeq
<1>4. t[Len(s)] = f /\ \A k \in 1..(Len(s) - 1) : t[k] = s[k]
    <2>1. \A j \in 1..Len(s) : t[j] = IF j = Len(s) THEN f ELSE s[j]
        BY <1>2
    <2> QED BY <1>1, <2>1
<1> QED BY <1>2, <1>3, <1>4

\* Return pops the top frame and leaves the others alone.
LEMMA ReturnStack ==
    ASSUME TypeOK, mode \notin Over, NEW r, Return(r)
    PROVE /\ stack' \in Seq(Frames) /\ Len(stack') = Len(stack) - 1
          /\ \A k \in 1..(Len(stack) - 1) : stack'[k] = stack[k]
          /\ res' = r
          /\ mode' \in {"judge", "returned"}
          /\ mode' = "returned" <=> stack' = <<>>
<1>1. stack \in Seq(Frames) /\ stack # <<>> /\ Len(stack) \in Nat \ {0}
    BY StackFacts DEF TypeOK, CallOK
<1>2. /\ stack' \in Seq(Frames) /\ Len(stack') = Len(stack) - 1
      /\ \A k \in 1..(Len(stack) - 1) : stack'[k] = stack[k]
    BY <1>1, FrontOfSeq DEF Return
<1>3. stack' = <<>> <=> Len(stack) = 1
    BY <1>1, <1>2, EmptySeq
<1> QED BY <1>2, <1>3 DEF Return

\* Call pushes the child's frame and counts it in the caller's.
LEMMA CallStack ==
    ASSUME TypeOK, mode \notin Over, NEW child \in DOMAIN Nodes, Call(child, Top.ctx)
    PROVE /\ stack' \in Seq(Frames) /\ Len(stack') = Len(stack) + 1 /\ stack' # <<>>
          /\ \A k \in 1..(Len(stack) - 1) : stack'[k] = stack[k]
          /\ stack'[Len(stack)].node = Top.node /\ stack'[Len(stack)].i = Top.i + 1
          /\ stack'[Len(stack)].wait = Top.wait
          /\ stack'[Len(stack) + 1].node = child /\ stack'[Len(stack) + 1].i = 0
          /\ stack'[Len(stack) + 1].wait = Backoff
          /\ mode' = "try" /\ res' = res
<1>1. Top \in Frames /\ Top = stack[Len(stack)] /\ Len(stack) \in Nat \ {0}
      /\ stack \in Seq(Frames) /\ stack # <<>>
    BY StackFacts DEF TypeOK, CallOK
<1> DEFINE f == [Top EXCEPT !.i = @ + 1]
           s == [stack EXCEPT ![Len(stack)] = f]
           g == Frame(child, Top.ctx)
<1>2. f \in Frames /\ f.node = Top.node /\ f.i = Top.i + 1 /\ f.wait = Top.wait
    BY <1>1 DEF Frames
<1>3. stack' = Append(s, g) /\ mode' = "try" /\ res' = res
    BY <1>1 DEF Call
<1>4. g \in Frames /\ g.node = child /\ g.i = 0 /\ g.wait = Backoff
    <2>1. g \in Frames
        BY <1>1, FrameType DEF Frames
    <2> QED BY <2>1 DEF Frame
<1> HIDE DEF f, g
<1>5. /\ s \in Seq(Frames) /\ Len(s) = Len(stack)
      /\ s[Len(stack)] = f
      /\ \A k \in 1..(Len(stack) - 1) : s[k] = stack[k]
    BY <1>1, <1>2, LastReplaced
<1> HIDE DEF s
<1>6. /\ stack' \in Seq(Frames) /\ stack' # <<>> /\ Len(stack') = Len(stack) + 1
      /\ \A k \in 1..Len(stack) : stack'[k] = s[k]
      /\ stack'[Len(stack) + 1] = g
    BY <1>3, <1>4, <1>5, AppendProperties
<1>7. stack'[Len(stack)] = f /\ \A k \in 1..(Len(stack) - 1) : stack'[k] = stack[k]
    BY <1>1, <1>5, <1>6
<1> QED BY <1>2, <1>3, <1>4, <1>6, <1>7

-----------------------------------------------------------------------------
(* What a step does to the frames *)

\* The frames below the top one stay as they are, armed ones stay armed.
Below == \A k \in Armed : k < Len(stack) => k \in Armed' /\ stack'[k] = stack[k]

\* IndexInv for a frame anywhere, and for the top one.
LEMMA FrameIndex ==
    ASSUME Inv, NEW k \in DOMAIN stack
    PROVE /\ opOf(k) = "chain" => stack[k].i <= Len(kidsOf(k))
          /\ opOf(k) = "timeout" => stack[k].i = 0
          /\ opOf(k) = "retry" => stack[k].i <= Attempts
BY DEF Inv, IndexInv

LEMMA TopIndex ==
    ASSUME Inv, mode \notin Over
    PROVE /\ op = "chain" => Top.i <= Len(kids)
          /\ op = "timeout" => Top.i = 0
          /\ op = "retry" => Top.i <= Attempts
          /\ mode = "discard" => op \in {"chain", "table", "fallback", "predicate", "retry"}
          /\ mode = "sleep" => op = "retry"
          /\ mode = "try" /\ op \in {"weight", "robin"} => Top.i = 0
          /\ mode \in {"try", "discard"} /\ op \in {"fallback", "predicate"} => Top.i < 2
          /\ mode \in {"try", "discard", "sleep"} /\ op = "retry" => Top.i < Attempts
<1>1. /\ Len(stack) \in DOMAIN stack /\ Top = stack[Len(stack)]
      /\ op = opOf(Len(stack)) /\ kids = kidsOf(Len(stack))
    BY StackFacts DEF Inv
<1> QED BY <1>1 DEF Inv, IndexInv

LEMMA ReturnStep ==
    ASSUME Inv, mode \notin Over, NEW r \in Results, Return(r)
    PROVE CallOK' /\ IndexInv' /\ BackoffHolds' /\ Below
<1> USE DEF Inv
<1>1. /\ stack' \in Seq(Frames) /\ Len(stack') = Len(stack) - 1
      /\ \A k \in 1..(Len(stack) - 1) : stack'[k] = stack[k]
      /\ res' = r
      /\ mode' \in {"judge", "returned"}
      /\ mode' = "returned" <=> stack' = <<>>
    BY ReturnStack
<1>2. Len(stack) \in Nat \ {0} /\ DOMAIN stack = 1..Len(stack) /\ DOMAIN stack' = 1..(Len(stack) - 1)
    BY <1>1, StackFacts, LenProperties
<1>3. CallOK'
    BY <1>1 DEF CallOK, Over
<1>4. \A k \in DOMAIN stack' : k \in DOMAIN stack /\ stack'[k] = stack[k]
    BY <1>1, <1>2
<1>5. IndexInv'
    BY <1>1, <1>4 DEF IndexInv, opOf, kidsOf
<1>6. BackoffHolds'
    BY <1>4 DEF BackoffHolds
<1>7. Below
    BY <1>1, <1>2 DEF Below, Armed, opOf
<1> QED BY <1>3, <1>5, <1>6, <1>7

\* A handler may be called: the caller's own index permits it.
LEMMA CallStep ==
    ASSUME Inv, mode = "try", NEW child \in DOMAIN Nodes, Call(child, Top.ctx),
           op # "timeout", op = "chain" => Top.i < Len(kids)
    PROVE CallOK' /\ IndexInv' /\ BackoffHolds' /\ Below
<1>0. mode \notin Over
    BY DEF Over
<1>n. PICK n \in Nat \ {0} : n = Len(stack)
    BY <1>0, StackFacts DEF Inv
<1>1. /\ stack' \in Seq(Frames) /\ Len(stack') = n + 1 /\ stack' # <<>>
      /\ \A k \in 1..(n - 1) : stack'[k] = stack[k]
      /\ mode' = "try" /\ res' = res
    BY <1>0, <1>n, CallStack DEF Inv
<1>2. /\ n \in Nat \ {0} /\ DOMAIN stack = 1..n /\ DOMAIN stack' = 1..(n + 1)
      /\ Top = stack[n] /\ op = opOf(n) /\ kids = kidsOf(n)
    BY <1>0, <1>n, <1>1, StackFacts, LenProperties DEF Inv
<1>3. CallOK'
    BY <1>1 DEF Inv, TypeOK, CallOK, Over
<1>4. /\ stack'[n].node = Top.node /\ stack'[n].i = Top.i + 1
      /\ stack'[n].wait = Top.wait /\ Top.i \in Nat /\ Len(kids) \in Nat
    BY <1>0, <1>n, CallStack, TopFields DEF Inv
<1>5. stack'[n + 1].node = child /\ stack'[n + 1].i = 0 /\ stack'[n + 1].wait = Backoff
    BY <1>0, <1>n, CallStack DEF Inv
<1>6. opOf(n)' = op /\ kidsOf(n)' = kids
    BY <1>1, <1>2, <1>4 DEF opOf, kidsOf, op, kids
<1>7. op = "retry" => Top.i < Attempts
    BY <1>0, TopIndex
<1>8. IndexInv'
    <2> SUFFICES ASSUME NEW k \in 1..(n + 1)
                 PROVE /\ opOf(k)' = "chain" => stack'[k].i <= Len(kidsOf(k)')
                       /\ opOf(k)' = "timeout" => stack'[k].i = 0
                       /\ opOf(k)' = "retry" => stack'[k].i <= Attempts
                       /\ k = n + 1 =>
                           /\ opOf(k)' \in {"weight", "robin"} => stack'[k].i = 0
                           /\ opOf(k)' \in {"fallback", "predicate"} => stack'[k].i < 2
                           /\ opOf(k)' = "retry" => stack'[k].i < Attempts
        BY <1>1, <1>2 DEF IndexInv
    <2>1. CASE k \in 1..(n - 1)
        <3>1. stack'[k] = stack[k] /\ k # n + 1 /\ k \in DOMAIN stack
            BY <1>1, <1>2, <2>1
        <3>2. opOf(k)' = opOf(k) /\ kidsOf(k)' = kidsOf(k)
            BY <3>1 DEF opOf, kidsOf
        <3> QED BY <3>1, <3>2, FrameIndex
    <2>2. CASE k = n
        <3>1. k # n + 1
            BY <1>1, <1>2, <2>2
        <3> QED BY <1>4, <1>6, <1>7, <2>2, <3>1, DispatchAssumption
    <2>3. CASE k = n + 1
        <3>1. stack'[k].i = 0 /\ Len(kidsOf(k)') \in Nat
            BY <1>5, <2>3, KidsLength DEF kidsOf
        <3> QED BY <3>1, DispatchAssumption
    <2> QED BY <1>2, <2>1, <2>2, <2>3
<1>9. BackoffHolds'
    <2> SUFFICES ASSUME NEW k \in 1..(n + 1)
                 PROVE stack'[k].wait >= (IF Backoff < MaxInt \div 2 THEN Backoff ELSE MaxInt \div 2)
        BY <1>2 DEF BackoffHolds
    <2>1. CASE k \in 1..(n - 1)
        BY <1>1, <1>2, <2>1 DEF Inv, BackoffHolds
    <2>2. CASE k = n
        BY <1>2, <1>4, <2>2 DEF Inv, BackoffHolds
    <2>3. CASE k = n + 1
        BY <1>5, <2>3, DispatchAssumption
    <2> QED BY <1>2, <2>1, <2>2, <2>3
<1>10. Below
    BY <1>n, <1>1, <1>2 DEF Below, Armed, opOf
<1> QED BY <1>3, <1>8, <1>9, <1>10

\* Another frame of the same node in place of the top one.
LEMMA StayStep ==
    ASSUME Inv, mode \notin Over, op \notin {"timeout", "weight", "robin"}, NEW f \in Frames,
           stack' = [stack EXCEPT ![Len(stack)] = f], f.node = Top.node,
           mode' \in {"try", "discard"}, res' = res,
           mode' = "discard" => op \in {"chain", "table", "fallback", "predicate", "retry"},
           op \in {"fallback", "predicate"} => f.i < 2,
           op = "retry" => f.i < Attempts, op = "chain" => f.i <= Len(kids),
           f.wait >= (IF Backoff < MaxInt \div 2 THEN Backoff ELSE MaxInt \div 2)
    PROVE CallOK' /\ IndexInv' /\ BackoffHolds' /\ Below
<1>n. PICK n \in Nat \ {0} : n = Len(stack)
    BY StackFacts DEF Inv
<1>1. /\ stack' \in Seq(Frames) /\ Len(stack') = n /\ stack' # <<>>
      /\ stack'[n] = f
      /\ \A k \in 1..(n - 1) : stack'[k] = stack[k]
    BY <1>n, LastReplaced DEF Inv, TypeOK, CallOK
<1>2. /\ n \in Nat \ {0} /\ DOMAIN stack = 1..n /\ DOMAIN stack' = 1..n
      /\ Top = stack[n] /\ op = opOf(n) /\ kids = kidsOf(n)
    BY <1>n, <1>1, StackFacts, LenProperties DEF Inv
<1>3. CallOK'
    BY <1>1 DEF Inv, TypeOK, CallOK, Over
<1>4. opOf(n)' = op /\ kidsOf(n)' = kids
    BY <1>1, <1>2 DEF opOf, kidsOf
<1>5. f.i \in Nat
    BY DEF Frames
<1>6. IndexInv'
    <2> SUFFICES ASSUME NEW k \in 1..n
                 PROVE /\ opOf(k)' = "chain" => stack'[k].i <= Len(kidsOf(k)')
                       /\ opOf(k)' = "timeout" => stack'[k].i = 0
                       /\ opOf(k)' = "retry" => stack'[k].i <= Attempts
                       /\ k = n =>
                           /\ mode' = "discard" => opOf(k)' \in {"chain", "table", "fallback", "predicate", "retry"}
                           /\ opOf(k)' \notin {"weight", "robin"}
                           /\ opOf(k)' \in {"fallback", "predicate"} => stack'[k].i < 2
                           /\ opOf(k)' = "retry" => stack'[k].i < Attempts
        BY <1>1, <1>2 DEF IndexInv
    <2>1. CASE k \in 1..(n - 1)
        <3>1. stack'[k] = stack[k] /\ k # n /\ k \in DOMAIN stack
            BY <1>1, <1>2, <2>1
        <3>2. opOf(k)' = opOf(k) /\ kidsOf(k)' = kidsOf(k)
            BY <3>1 DEF opOf, kidsOf
        <3> QED BY <3>1, <3>2, FrameIndex
    <2>2. CASE k = n
        BY <1>1, <1>4, <1>5, <2>2, DispatchAssumption
    <2> QED BY <1>2, <2>1, <2>2
<1>7. BackoffHolds'
    <2> SUFFICES ASSUME NEW k \in 1..n
                 PROVE stack'[k].wait >= (IF Backoff < MaxInt \div 2 THEN Backoff ELSE MaxInt \div 2)
        BY <1>2 DEF BackoffHolds
    <2>1. CASE k \in 1..(n - 1)
        BY <1>1, <1>2, <2>1 DEF Inv, BackoffHolds
    <2>2. CASE k = n
        BY <1>1, <2>2
    <2> QED BY <1>2, <2>1, <2>2
<1>8. Below
    BY <1>n, <1>1, <1>2 DEF Below, Armed, opOf
<1> QED BY <1>3, <1>6, <1>7, <1>8

\* No armed Timeout is lost when the top frame is none.
LEMMA ArmedStay ==
    ASSUME Inv, mode \notin Over, op # "timeout", Below
    PROVE {stack[k].ctx : k \in Armed} \subseteq {stack'[k].ctx : k \in Armed'}
<1>1. \A k \in Armed : k \in 1..Len(stack) /\ (opOf(k) = "timeout")
    BY StackFacts DEF Inv, Armed
<1>2. \A k \in Armed : k < Len(stack)
    BY <1>1, StackFacts DEF Inv
<1>3. \A k \in Armed : k \in Armed' /\ stack'[k].ctx = stack[k].ctx
    BY <1>2 DEF Below
<1> QED BY <1>3

-----------------------------------------------------------------------------
(* Steps that several handlers take *)

\* A handler that has nothing open answers.
LEMMA TryReturns ==
    ASSUME Inv, mode \in {"try", "sleep"}, op # "timeout", NEW r \in Results, Return(r),
           UNCHANGED <<lifeVars, made, done>>
    PROVE Inv'
<1>0. mode \notin Over
    BY DEF Over
<1>1. CallOK' /\ IndexInv' /\ BackoffHolds' /\ Below
    BY <1>0, ReturnStep
<1>2. res' = r /\ mode' \in {"judge", "returned"}
    BY <1>0, ReturnStack DEF Inv
<1>3. LifeOK'
    BY DEF Inv, TypeOK, LifeOK, lifeVars
<1>4. OpenInv' /\ BrokenInv'
    BY <1>2 DEF Inv, OpenInv, BrokenInv, lifeVars
<1>5. TimerInv'
    BY <1>0, <1>1, ArmedStay DEF Inv, TimerInv, lifeVars
<1> QED BY <1>1, <1>3, <1>4, <1>5 DEF Inv, TypeOK

\* A handler calls one of its children.
LEMMA TryCalls ==
    ASSUME Inv, mode = "try", NEW child \in DOMAIN Nodes, Call(child, Top.ctx),
           op # "timeout", op = "chain" => Top.i < Len(kids),
           UNCHANGED <<lifeVars, made, done>>
    PROVE Inv'
<1>0. mode \notin Over
    BY DEF Over
<1>1. CallOK' /\ IndexInv' /\ BackoffHolds' /\ Below
    BY CallStep
<1>2. res' = res /\ mode' = "try"
    BY DEF Call
<1>3. LifeOK'
    BY DEF Inv, TypeOK, LifeOK, lifeVars
<1>4. OpenInv' /\ BrokenInv'
    BY <1>2 DEF Inv, OpenInv, BrokenInv, lifeVars
<1>5. TimerInv'
    BY <1>0, <1>1, ArmedStay DEF Inv, TimerInv, lifeVars
<1> QED BY <1>1, <1>3, <1>4, <1>5 DEF Inv, TypeOK

\* A result goes up with its Lifetime; an error stays one.
LEMMA JudgeReturns ==
    ASSUME Inv, mode = "judge", op # "timeout", NEW r \in Results, Return(r),
           r.life = res.life, res.err => r.err, UNCHANGED <<lifeVars, made, done>>
    PROVE Inv'
<1>0. mode \notin Over
    BY DEF Over
<1>1. CallOK' /\ IndexInv' /\ BackoffHolds' /\ Below
    BY <1>0, ReturnStep
<1>2. res' = r /\ mode' \in {"judge", "returned"}
    BY <1>0, ReturnStack DEF Inv
<1>3. LifeOK'
    BY DEF Inv, TypeOK, LifeOK, lifeVars
<1>4. OpenInv' /\ BrokenInv'
    BY <1>2 DEF Inv, OpenInv, BrokenInv, lifeVars
<1>5. TimerInv'
    BY <1>0, <1>1, ArmedStay DEF Inv, TimerInv, lifeVars
<1> QED BY <1>1, <1>3, <1>4, <1>5 DEF Inv, TypeOK

\* A result is kept for its discard while the handler has another one to call.
LEMMA Discards ==
    ASSUME Inv, mode = "judge", op \in {"chain", "table", "fallback", "predicate", "retry"}, Discard,
           op \in {"fallback", "predicate"} => Top.i < 2, op = "retry" => Top.i < Attempts,
           UNCHANGED <<lifeVars, made, done>>
    PROVE Inv'
<1>0. mode \notin Over
    BY DEF Over
<1> DEFINE f == [Top EXCEPT !.last = res]
<1>1. Top \in Frames /\ Top = stack[Len(stack)] /\ res \in Results
    BY <1>0, StackFacts DEF Inv, TypeOK, CallOK
<1>2. f \in Frames /\ f.node = Top.node /\ f.i = Top.i /\ f.wait = Top.wait
    BY <1>1 DEF Frames
<1>3. stack' = [stack EXCEPT ![Len(stack)] = f] /\ mode' = "discard" /\ res' = res
    BY <1>1 DEF Discard
<1>4. Top.wait >= (IF Backoff < MaxInt \div 2 THEN Backoff ELSE MaxInt \div 2)
    BY <1>0, StackFacts DEF Inv, BackoffHolds
<1>5. op = "chain" => Top.i <= Len(kids)
    BY <1>0, TopIndex
<1> HIDE DEF f
<1>6. CallOK' /\ IndexInv' /\ BackoffHolds' /\ Below
    BY <1>0, <1>2, <1>3, <1>4, <1>5, StayStep
<1>7. LifeOK'
    BY DEF Inv, TypeOK, LifeOK, lifeVars
<1>8. OpenInv' /\ BrokenInv'
    BY <1>3 DEF Inv, OpenInv, BrokenInv, lifeVars
<1>9. TimerInv'
    BY <1>0, <1>6, ArmedStay DEF Inv, TimerInv, lifeVars
<1> QED BY <1>6, <1>7, <1>8, <1>9 DEF Inv, TypeOK

-----------------------------------------------------------------------------
(* The actions *)

LEMMA Constants == AbortResult \in Results /\ noRouteResult \in Results
BY DEF AbortResult, noRouteResult, Results

LEMMA LeafInv == ASSUME Inv, Leaf PROVE Inv'
<1>0. mode = "try" /\ mode \notin Over /\ op # "timeout" /\ open = {} /\ broken = {}
    BY DEF Leaf, Over, Inv, OpenInv, BrokenInv
<1>1. PICK action \in {"next", "stop", "other"}, err \in BOOLEAN, owned \in BOOLEAN :
        LET life == Len(hooks) + 1
        IN /\ Return([action |-> IF err THEN "abort" ELSE action, err |-> err,
                      life |-> IF owned THEN life ELSE 0])
           /\ open' = IF owned THEN open \union {life} ELSE open
           /\ hooks' = IF owned THEN Append(hooks, {}) ELSE hooks
    BY DEF Leaf
<1> DEFINE r == [action |-> IF err THEN "abort" ELSE action, err |-> err,
                 life |-> IF owned THEN Len(hooks) + 1 ELSE 0]
<1>2. hooks \in Seq(SUBSET Nat) /\ Len(hooks) \in Nat
    BY LenProperties DEF Inv, TypeOK, LifeOK
<1>3. r \in Results /\ r.life = IF owned THEN Len(hooks) + 1 ELSE 0
    BY <1>2 DEF Results
<1>4. Return(r)
    BY <1>1
<1> HIDE DEF r
<1>5. CallOK' /\ IndexInv' /\ BackoffHolds' /\ Below
    BY <1>0, <1>3, <1>4, ReturnStep
<1>6. res' = r /\ mode' \in {"judge", "returned"}
    BY <1>0, <1>4, ReturnStack DEF Inv
<1>7. hooks' \in Seq(SUBSET Nat) /\ open' \subseteq 1..Len(hooks')
    <2>1. CASE owned
        BY <1>0, <1>1, <1>2, <2>1, AppendProperties
    <2>2. CASE ~owned
        BY <1>0, <1>1, <1>2, <2>2
    <2> QED BY <2>1, <2>2
<1>8. UNCHANGED <<broken, timers, made, done>>
    BY DEF Leaf
<1>9. LifeOK'
    BY <1>7, <1>8 DEF Inv, TypeOK, LifeOK
<1>10. OpenInv' /\ BrokenInv'
    BY <1>0, <1>1, <1>3, <1>6, <1>8 DEF OpenInv, BrokenInv
<1>11. TimerInv'
    BY <1>0, <1>5, <1>8, ArmedStay DEF Inv, TimerInv
<1> QED BY <1>5, <1>9, <1>10, <1>11 DEF Inv, TypeOK

\* A panic cancels what the Timeouts on the stack still hold.
LEMMA UnwindInv ==
    ASSUME Inv, Unwind, mode' \in {"panicked", "dropped"}, mode' = "panicked" => open = {} /\ broken = {}
    PROVE Inv'
<1>1. /\ stack' = <<>> /\ timers' = timers \ {stack[k].ctx : k \in DOMAIN stack}
      /\ UNCHANGED <<res, open, broken, hooks, made, done>>
    BY DEF Unwind
<1>2. CallOK'
    BY <1>1, EmptySeq DEF Inv, TypeOK, CallOK, Over
<1>3. LifeOK'
    BY <1>1 DEF Inv, TypeOK, LifeOK
<1>4. DOMAIN stack' = {}
    BY <1>1
<1>5. IndexInv' /\ BackoffHolds'
    BY <1>4 DEF IndexInv, BackoffHolds
<1>6. OpenInv' /\ BrokenInv'
    BY <1>1 DEF Inv, OpenInv, BrokenInv
<1>7. timers \subseteq {stack[k].ctx : k \in DOMAIN stack} \union UNION {hooks[l] : l \in open}
    BY DEF Inv, TimerInv, Armed
<1>8. timers' \subseteq UNION {hooks'[l] : l \in open'}
    BY <1>1, <1>7
<1>9. TimerInv'
    BY <1>8 DEF TimerInv
<1> QED BY <1>2, <1>3, <1>5, <1>6, <1>9 DEF Inv, TypeOK

LEMMA PanicsInv == ASSUME Inv, LeafPanics \/ PredicatePanics PROVE Inv'
<1>1. CASE LeafPanics
    <2>1. open = {} /\ broken = {} /\ mode' = "panicked" /\ Unwind
        BY <1>1 DEF LeafPanics, Inv, OpenInv, BrokenInv
    <2> QED BY <2>1, UnwindInv
<1>2. CASE PredicatePanics
    <2>1. mode' = "dropped" /\ Unwind
        BY <1>2 DEF PredicatePanics
    <2> QED BY <2>1, UnwindInv
<1> QED BY <1>1, <1>2

LEMMA TryChainInv == ASSUME Inv, TryChain PROVE Inv'
<1>0. /\ mode = "try" /\ mode \notin Over /\ op = "chain"
      /\ UNCHANGED <<lifeVars, made, done>>
    BY DEF TryChain, Over
<1>1. /\ Top.last \in Results /\ Top.i \in Nat /\ Len(kids) \in Nat /\ Top.i <= Len(kids)
      /\ \A k \in 1..Len(kids) : kids[k] \in DOMAIN Nodes
    BY <1>0, TopFields, TopIndex DEF Inv
<1>2. CASE Top.i = Len(kids) /\ Return(Top.last)
    BY <1>0, <1>1, <1>2, TryReturns
<1>3. CASE Return(AbortResult)
    BY <1>0, <1>3, Constants, TryReturns
<1>4. CASE Top.i # Len(kids) /\ Call(kids[Top.i + 1], Top.ctx)
    <2>1. kids[Top.i + 1] \in DOMAIN Nodes /\ Top.i < Len(kids)
        BY <1>1, <1>4
    <2> QED BY <1>0, <1>4, <2>1, TryCalls
<1> QED BY <1>2, <1>3, <1>4 DEF TryChain

LEMMA TryFallbackInv == ASSUME Inv, TryFallback PROVE Inv'
<1>0. /\ mode = "try" /\ mode \notin Over /\ op \in {"fallback", "predicate"}
      /\ UNCHANGED <<lifeVars, made, done>>
    BY DEF TryFallback, Over
<1>1. /\ Top.last \in Results /\ Top.i \in Nat /\ Top.i < 2 /\ Top.node \in DOMAIN Nodes
      /\ \A k \in 1..Len(kids) : kids[k] \in DOMAIN Nodes
    BY <1>0, TopFields, TopIndex DEF Inv
<1>2. Len(kids) = 2
    BY <1>0, <1>1, TreeAssumption DEF op, kids
<1>3. CASE Call(kids[Top.i + 1], Top.ctx)
    <2>1. kids[Top.i + 1] \in DOMAIN Nodes
        BY <1>1, <1>2
    <2> QED BY <1>0, <1>3, <2>1, TryCalls
<1>4. CASE Return(AbortResult)
    BY <1>0, <1>4, Constants, TryReturns
<1>5. CASE Return([Top.last EXCEPT !.action = "abort"])
    <2>1. [Top.last EXCEPT !.action = "abort"] \in Results
        BY <1>1 DEF Results
    <2> QED BY <1>0, <1>5, <2>1, TryReturns
<1> QED BY <1>3, <1>4, <1>5 DEF TryFallback

LEMMA TryRetryInv == ASSUME Inv, TryRetry PROVE Inv'
<1>0. /\ mode = "try" /\ mode \notin Over /\ op = "retry"
      /\ UNCHANGED <<lifeVars, made, done>>
    BY DEF TryRetry, Over
<1>1. kids[1] \in DOMAIN Nodes
    <2>1. Top.node \in DOMAIN Nodes /\ \A k \in 1..Len(kids) : kids[k] \in DOMAIN Nodes
        BY <1>0, TopFields DEF Inv
    <2>2. Len(kids) = 1
        BY <1>0, <2>1, TreeAssumption DEF op, kids
    <2> QED BY <2>1, <2>2
<1>2. CASE Return(AbortResult)
    BY <1>0, <1>2, Constants, TryReturns
<1>3. CASE Call(kids[1], Top.ctx)
    BY <1>0, <1>1, <1>3, TryCalls
<1> QED BY <1>2, <1>3 DEF TryRetry

LEMMA TryChoiceInv == ASSUME Inv, TryChoice PROVE Inv'
<1>0. /\ mode = "try" /\ mode \notin Over /\ op \in {"weight", "robin"}
      /\ UNCHANGED <<lifeVars, made, done>>
    BY DEF TryChoice, Over
<1>1. \A k \in DOMAIN kids : kids[k] \in DOMAIN Nodes
    BY <1>0, TopFields, LenProperties DEF Inv
<1>2. CASE Return(AbortResult)
    BY <1>0, <1>2, Constants, TryReturns
<1>3. CASE \E k \in DOMAIN kids : Call(kids[k], Top.ctx)
    <2>1. PICK k \in DOMAIN kids : Call(kids[k], Top.ctx)
        BY <1>3
    <2>2. kids[k] \in DOMAIN Nodes
        BY <1>1
    <2> QED BY <1>0, <2>1, <2>2, TryCalls
<1> QED BY <1>2, <1>3 DEF TryChoice

\* A handler with nothing open goes on to its next try.
LEMMA TryStays ==
    ASSUME Inv, mode \in {"try", "sleep"}, op \in {"table", "retry"}, NEW f \in Frames,
           stack' = [stack EXCEPT ![Len(stack)] = f], f.node = Top.node,
           mode' = "try", res' = res, op = "retry" => f.i < Attempts,
           f.wait >= (IF Backoff < MaxInt \div 2 THEN Backoff ELSE MaxInt \div 2),
           UNCHANGED <<lifeVars, made, done>>
    PROVE Inv'
<1>0. mode \notin Over
    BY DEF Over
<1>1. CallOK' /\ IndexInv' /\ BackoffHolds' /\ Below
    BY <1>0, StayStep
<1>2. LifeOK'
    BY DEF Inv, TypeOK, LifeOK, lifeVars
<1>3. OpenInv' /\ BrokenInv'
    BY DEF Inv, OpenInv, BrokenInv, lifeVars
<1>4. TimerInv'
    BY <1>0, <1>1, ArmedStay DEF Inv, TimerInv, lifeVars
<1> QED BY <1>1, <1>2, <1>3, <1>4 DEF Inv, TypeOK

LEMMA TryRouteInv == ASSUME Inv, TryRoute PROVE Inv'
<1>0. /\ mode = "try" /\ mode \notin Over /\ op = "table"
      /\ UNCHANGED <<lifeVars, made, done>>
    BY DEF TryRoute, Over
<1>1. /\ Top \in Frames /\ Top = stack[Len(stack)] /\ Top.node \in DOMAIN Nodes
      /\ Top.last \in Results /\ Top.i \in Nat /\ Len(kids) \in Nat
      /\ \A k \in 1..Len(kids) : kids[k] \in DOMAIN Nodes
    BY <1>0, TopFields, StackFacts DEF Inv
<1>2. CASE Return(AbortResult)
    BY <1>0, <1>2, Constants, TryReturns
<1>3. CASE Top.i < Len(kids) /\ Call(kids[Top.i + 1], Top.ctx)
    <2>1. kids[Top.i + 1] \in DOMAIN Nodes
        BY <1>1, <1>3
    <2> QED BY <1>0, <1>3, <2>1, TryCalls
<1>4. CASE stack' = [stack EXCEPT ![Len(stack)].i = @ + 1] /\ UNCHANGED <<mode, res>>
    <2> DEFINE f == [Top EXCEPT !.i = @ + 1]
    <2>1. f \in Frames /\ f.node = Top.node /\ f.wait = Top.wait
        BY <1>1 DEF Frames
    <2>2. stack' = [stack EXCEPT ![Len(stack)] = f] /\ mode' = "try" /\ res' = res
        BY <1>0, <1>1, <1>4
    <2>3. Top.wait >= (IF Backoff < MaxInt \div 2 THEN Backoff ELSE MaxInt \div 2)
        BY <1>0, StackFacts DEF Inv, BackoffHolds
    <2> HIDE DEF f
    <2> QED BY <1>0, <2>1, <2>2, <2>3, TryStays
<1>5. CASE Return(Top.last)
    BY <1>0, <1>1, <1>5, TryReturns
<1>6. CASE Nodes[Top.node].fallback # None /\ Call(Nodes[Top.node].fallback, Top.ctx)
    <2>1. Nodes[Top.node].fallback \in DOMAIN Nodes
        BY <1>0, <1>1, <1>6, TreeAssumption DEF op
    <2> QED BY <1>0, <1>6, <2>1, TryCalls
<1>7. CASE /\ Top.i < Len(kids)
           /\ \E answer \in {"yes", "no", "error"} :
              CASE answer = "error" -> Return(AbortResult)
                [] answer = "yes" -> Call(kids[Top.i + 1], Top.ctx)
                [] answer = "no" -> stack' = [stack EXCEPT ![Len(stack)].i = @ + 1] /\ UNCHANGED <<mode, res>>
    BY <1>2, <1>3, <1>4, <1>7
<1> QED BY <1>2, <1>5, <1>6, <1>7 DEF TryRoute

LEMMA JudgeActionInv == ASSUME Inv, JudgeAction PROVE Inv'
<1>0. /\ mode = "judge" /\ op \in {"chain", "table"} /\ res \in Results
      /\ UNCHANGED <<lifeVars, made, done>>
    BY DEF JudgeAction, Inv, TypeOK, CallOK
<1> DEFINE r == [res EXCEPT !.action = "abort", !.err = TRUE]
<1>1. r \in Results /\ r.life = res.life /\ r.err
    BY <1>0 DEF Results
<1>2. Return(r) \/ Return(res) \/ Discard
    BY DEF JudgeAction
<1> HIDE DEF r
<1>3. CASE Return(r)
    BY <1>0, <1>1, <1>3, JudgeReturns
<1>4. CASE Return(res)
    BY <1>0, <1>4, JudgeReturns
<1>5. CASE Discard
    BY <1>0, <1>5, Discards
<1> QED BY <1>2, <1>3, <1>4, <1>5

LEMMA JudgeFallbackInv == ASSUME Inv, JudgeFallback PROVE Inv'
<1>0. /\ mode = "judge" /\ op \in {"fallback", "predicate"} /\ res \in Results
      /\ UNCHANGED <<lifeVars, made, done>>
    BY DEF JudgeFallback, Inv, TypeOK, CallOK
<1>1. Return(res) \/ (Top.i < 2 /\ Discard)
    BY DEF JudgeFallback
<1>2. CASE Return(res)
    BY <1>0, <1>2, JudgeReturns
<1>3. CASE Top.i < 2 /\ Discard
    BY <1>0, <1>3, Discards
<1> QED BY <1>1, <1>2, <1>3

LEMMA JudgeRetryInv == ASSUME Inv, JudgeRetry PROVE Inv'
<1>0. /\ mode = "judge" /\ op = "retry" /\ res \in Results
      /\ UNCHANGED <<lifeVars, made, done>>
    BY DEF JudgeRetry, Inv, TypeOK, CallOK
<1>1. Return(res) \/ (Top.i < Attempts /\ Discard)
    BY DEF JudgeRetry
<1>2. CASE Return(res)
    BY <1>0, <1>2, JudgeReturns
<1>3. CASE Top.i < Attempts /\ Discard
    BY <1>0, <1>3, Discards
<1> QED BY <1>1, <1>2, <1>3

LEMMA JudgeChoiceInv == ASSUME Inv, JudgeChoice PROVE Inv'
<1>0. /\ mode = "judge" /\ op # "timeout" /\ res \in Results /\ Return(res)
      /\ UNCHANGED <<lifeVars, made, done>>
    BY DEF JudgeChoice, Inv, TypeOK, CallOK
<1> QED BY <1>0, JudgeReturns

LEMMA ContextEndsInv == ASSUME Inv, ContextEnds PROVE Inv'
<1>0. UNCHANGED <<stack, mode, res, lifeVars, made>>
    BY DEF ContextEnds
<1>1. done' \subseteq Nat
    <2>1. mode \notin Over
        BY DEF ContextEnds, Over
    <2>2. \A k \in DOMAIN stack : stack[k].ctx \in Nat
        BY <2>1, StackFacts DEF Inv, Frames
    <2>3. PICK c \in {0} \union {stack[k].ctx : k \in DOMAIN stack} : done' = done \union (c..made)
        BY DEF ContextEnds
    <2>4. c \in Nat /\ made \in Nat /\ done \subseteq Nat
        BY <2>2, <2>3 DEF Inv, TypeOK, LifeOK
    <2> QED BY <2>3, <2>4
<1>2. CallOK' /\ IndexInv' /\ BackoffHolds'
    BY <1>0 DEF Inv, TypeOK, CallOK, IndexInv, BackoffHolds, opOf, kidsOf
<1>3. LifeOK' /\ OpenInv' /\ BrokenInv'
    BY <1>0, <1>1 DEF Inv, TypeOK, LifeOK, OpenInv, BrokenInv, lifeVars
<1>4. TimerInv'
    BY <1>0 DEF Inv, TimerInv, Armed, opOf, lifeVars
<1> QED BY <1>2, <1>3, <1>4 DEF Inv, TypeOK

\* Timeout has a context of its own and calls its handler with it.
LEMMA TimeoutStack ==
    ASSUME TypeOK, mode \notin Over, NEW child \in DOMAIN Nodes, NEW c \in Nat,
           stack' = Append([stack EXCEPT ![Len(stack)].ctx = c], Frame(child, c))
    PROVE /\ stack' \in Seq(Frames) /\ Len(stack') = Len(stack) + 1 /\ stack' # <<>>
          /\ \A k \in 1..(Len(stack) - 1) : stack'[k] = stack[k]
          /\ stack'[Len(stack)].node = Top.node /\ stack'[Len(stack)].i = Top.i
          /\ stack'[Len(stack)].ctx = c /\ stack'[Len(stack)].wait = Top.wait
          /\ stack'[Len(stack) + 1].node = child /\ stack'[Len(stack) + 1].i = 0
          /\ stack'[Len(stack) + 1].wait = Backoff
<1>1. Top \in Frames /\ Top = stack[Len(stack)] /\ Len(stack) \in Nat \ {0}
      /\ stack \in Seq(Frames) /\ stack # <<>>
    BY StackFacts DEF TypeOK, CallOK
<1> DEFINE f == [Top EXCEPT !.ctx = c]
           s == [stack EXCEPT ![Len(stack)] = f]
           g == Frame(child, c)
<1>2. f \in Frames /\ f.node = Top.node /\ f.i = Top.i /\ f.ctx = c /\ f.wait = Top.wait
    BY <1>1 DEF Frames
<1>3. stack' = Append(s, g)
    BY <1>1
<1>4. g \in Frames /\ g.node = child /\ g.i = 0 /\ g.wait = Backoff
    <2>1. g \in Frames
        BY FrameType
    <2> QED BY <2>1 DEF Frame
<1> HIDE DEF f, g
<1>5. /\ s \in Seq(Frames) /\ Len(s) = Len(stack)
      /\ s[Len(stack)] = f
      /\ \A k \in 1..(Len(stack) - 1) : s[k] = stack[k]
    BY <1>1, <1>2, LastReplaced
<1> HIDE DEF s
<1>6. /\ stack' \in Seq(Frames) /\ stack' # <<>> /\ Len(stack') = Len(stack) + 1
      /\ \A k \in 1..Len(stack) : stack'[k] = s[k]
      /\ stack'[Len(stack) + 1] = g
    <2> DEFINE t == Append(s, g)
    <2>1. /\ t \in Seq(Frames) /\ t # <<>> /\ Len(t) = Len(s) + 1
          /\ \A k \in 1..Len(s) : t[k] = s[k]
          /\ t[Len(s) + 1] = g
        BY <1>4, <1>5, AppendProperties
    <2> HIDE DEF t
    <2> QED BY <1>3, <1>5, <2>1 DEF t
<1>7. stack'[Len(stack)] = f /\ \A k \in 1..(Len(stack) - 1) : stack'[k] = stack[k]
    BY <1>1, <1>5, <1>6
<1> QED BY <1>2, <1>4, <1>6, <1>7

LEMMA TryTimeoutInv == ASSUME Inv, TryTimeout PROVE Inv'
<1>0. /\ mode = "try" /\ mode \notin Over /\ op = "timeout" /\ made' = made + 1
      /\ UNCHANGED <<mode, res, open, broken, hooks>>
      /\ timers' = timers \union {made'} /\ done' \subseteq done \union {made'}
    BY DEF TryTimeout, Over
<1>1. made' \in Nat /\ kids[1] \in DOMAIN Nodes /\ Top.i = 0
    <2>1. Top.node \in DOMAIN Nodes /\ \A k \in 1..Len(kids) : kids[k] \in DOMAIN Nodes
        BY <1>0, TopFields DEF Inv
    <2>2. Len(kids) = 1
        BY <1>0, <2>1, TreeAssumption DEF op, kids
    <2>3. made' \in Nat
        BY <1>0 DEF Inv, TypeOK, LifeOK
    <2> QED BY <1>0, <2>1, <2>2, <2>3, TopIndex
<1>n. PICK n \in Nat \ {0} : n = Len(stack)
    BY <1>0, StackFacts DEF Inv
<1>s. stack' = Append([stack EXCEPT ![Len(stack)].ctx = made'], Frame(kids[1], made'))
    BY DEF TryTimeout
<1>2. /\ stack' \in Seq(Frames) /\ Len(stack') = n + 1 /\ stack' # <<>>
      /\ \A k \in 1..(n - 1) : stack'[k] = stack[k]
      /\ stack'[n].node = Top.node /\ stack'[n].i = 0
      /\ stack'[n].ctx = made' /\ stack'[n].wait = Top.wait
      /\ stack'[n + 1].i = 0 /\ stack'[n + 1].wait = Backoff /\ stack'[n + 1].node = kids[1]
    BY <1>0, <1>n, <1>s, <1>1, TimeoutStack DEF Inv
<1>3. /\ DOMAIN stack = 1..n /\ DOMAIN stack' = 1..(n + 1)
      /\ Top = stack[n] /\ op = opOf(n)
    BY <1>0, <1>n, <1>2, StackFacts, LenProperties DEF Inv
<1>4. CallOK'
    BY <1>0, <1>2 DEF Inv, TypeOK, CallOK, Over
<1>5. LifeOK'
    BY <1>0, <1>1 DEF Inv, TypeOK, LifeOK
<1>6. opOf(n)' = "timeout"
    BY <1>0, <1>2, <1>3 DEF opOf, op
<1>7. IndexInv'
    <2> SUFFICES ASSUME NEW k \in 1..(n + 1)
                 PROVE /\ opOf(k)' = "chain" => stack'[k].i <= Len(kidsOf(k)')
                       /\ opOf(k)' = "timeout" => stack'[k].i = 0
                       /\ opOf(k)' = "retry" => stack'[k].i <= Attempts
                       /\ k = n + 1 =>
                           /\ opOf(k)' \in {"weight", "robin"} => stack'[k].i = 0
                           /\ opOf(k)' \in {"fallback", "predicate"} => stack'[k].i < 2
                           /\ opOf(k)' = "retry" => stack'[k].i < Attempts
        BY <1>0, <1>2, <1>3 DEF IndexInv
    <2>1. CASE k \in 1..(n - 1)
        <3>1. stack'[k] = stack[k] /\ k # n + 1 /\ k \in DOMAIN stack
            BY <1>2, <1>3, <2>1
        <3>2. opOf(k)' = opOf(k) /\ kidsOf(k)' = kidsOf(k)
            BY <3>1 DEF opOf, kidsOf
        <3> QED BY <3>1, <3>2, FrameIndex
    <2>2. CASE k = n
        BY <1>2, <1>6, <2>2
    <2>3. CASE k = n + 1
        <3>1. stack'[k].i = 0 /\ Len(kidsOf(k)') \in Nat
            BY <1>1, <1>2, <2>3, KidsLength DEF kidsOf
        <3> QED BY <3>1, DispatchAssumption
    <2> QED BY <2>1, <2>2, <2>3
<1>8. BackoffHolds'
    <2> SUFFICES ASSUME NEW k \in 1..(n + 1)
                 PROVE stack'[k].wait >= (IF Backoff < MaxInt \div 2 THEN Backoff ELSE MaxInt \div 2)
        BY <1>3 DEF BackoffHolds
    <2>1. CASE k \in 1..(n - 1)
        BY <1>2, <1>3, <2>1 DEF Inv, BackoffHolds
    <2>2. CASE k = n
        BY <1>2, <1>3, <2>2 DEF Inv, BackoffHolds
    <2>3. CASE k = n + 1
        BY <1>2, <2>3, DispatchAssumption
    <2> QED BY <2>1, <2>2, <2>3
<1>9. OpenInv' /\ BrokenInv'
    BY <1>0 DEF Inv, OpenInv, BrokenInv
<1>10. TimerInv'
    <2>1. \A k \in Armed : k \in 1..(n - 1)
        BY <1>0, <1>n, <1>3 DEF Armed
    <2>2. \A k \in Armed : k \in Armed' /\ stack'[k].ctx = stack[k].ctx
        BY <1>2, <1>3, <2>1 DEF Armed, opOf
    <2>3. n \in Armed' /\ stack'[n].ctx = made'
        BY <1>2, <1>3, <1>6 DEF Armed
    <2>4. {stack[k].ctx : k \in Armed} \subseteq {stack'[k].ctx : k \in Armed'}
        BY <2>2
    <2>5. made' \in {stack'[k].ctx : k \in Armed'}
        BY <2>3
    <2>6. timers \subseteq {stack[k].ctx : k \in Armed} \union UNION {hooks[l] : l \in open}
        BY DEF Inv, TimerInv
    <2>7. hooks' = hooks /\ open' = open /\ timers' = timers \union {made'}
        BY <1>0
    <2> QED BY <2>4, <2>5, <2>6, <2>7 DEF TimerInv
<1> QED BY <1>4, <1>5, <1>7, <1>8, <1>9, <1>10 DEF Inv, TypeOK

LEMMA JudgeTimeoutInv == ASSUME Inv, JudgeTimeout PROVE Inv'
<1>0. /\ mode = "judge" /\ mode \notin Over /\ op = "timeout" /\ res \in Results
      /\ Return(res) /\ UNCHANGED <<open, broken, made, done>>
    BY DEF JudgeTimeout, Inv, TypeOK, CallOK, Over
<1>1. CallOK' /\ IndexInv' /\ BackoffHolds' /\ Below
    BY <1>0, ReturnStep
<1>2. res' = res /\ mode' \in {"judge", "returned"}
    BY <1>0, ReturnStack DEF Inv
<1>3. OpenInv' /\ BrokenInv'
    BY <1>0, <1>2 DEF Inv, OpenInv, BrokenInv
<1>4. hooks \in Seq(SUBSET Nat) /\ open \subseteq 1..Len(hooks) /\ Top.ctx \in Nat
    BY <1>0, TopFields DEF Inv, TypeOK, LifeOK
<1>5. /\ hooks' \in Seq(SUBSET Nat) /\ Len(hooks') = Len(hooks)
      /\ \A l \in open : hooks[l] \subseteq hooks'[l]
      /\ res.life \in open => Top.ctx \in hooks'[res.life]
    <2>1. CASE res.life \in open
        <3> DEFINE v == hooks[res.life] \union {Top.ctx}
        <3>1. hooks' = [hooks EXCEPT ![res.life] = v] /\ res.life \in 1..Len(hooks)
            BY <1>4, <2>1 DEF JudgeTimeout, Attaches
        <3>2. v \in SUBSET Nat
            BY <1>4, <3>1, ElementOfSeq
        <3>3. Top.ctx \in v /\ hooks[res.life] \subseteq v
            OBVIOUS
        <3> HIDE DEF v
        <3>4. /\ hooks' \in Seq(SUBSET Nat) /\ Len(hooks') = Len(hooks)
              /\ \A j \in 1..Len(hooks) : hooks'[j] = IF j = res.life THEN v ELSE hooks[j]
            BY <1>4, <3>1, <3>2, ExceptSeq
        <3> QED BY <1>4, <3>1, <3>3, <3>4
    <2>2. CASE res.life \notin open
        BY <1>4, <2>2 DEF JudgeTimeout, Attaches
    <2> QED BY <2>1, <2>2
<1>6. LifeOK'
    BY <1>0, <1>4, <1>5 DEF Inv, TypeOK, LifeOK, JudgeTimeout
<1>7. TimerInv'
    <2> SUFFICES ASSUME NEW t \in timers'
                 PROVE t \in {stack'[k].ctx : k \in Armed'} \union UNION {hooks'[l] : l \in open'}
        BY DEF TimerInv
    <2>1. t \in timers /\ (t = Top.ctx => res.life \in open)
        BY DEF JudgeTimeout
    <2>2. CASE t \in UNION {hooks[l] : l \in open}
        BY <1>0, <1>5, <2>2
    <2>3. CASE t = Top.ctx
        BY <1>0, <1>5, <2>1, <2>3
    <2>4. CASE t # Top.ctx /\ t \in {stack[k].ctx : k \in Armed}
        <3>1. PICK k \in Armed : t = stack[k].ctx
            BY <2>4
        <3>2. k < Len(stack)
            BY <1>0, <2>4, <3>1, StackFacts DEF Inv, Armed
        <3> QED BY <1>1, <3>1, <3>2 DEF Below
    <2> QED BY <2>1, <2>2, <2>3, <2>4 DEF Inv, TimerInv
<1> QED BY <1>1, <1>3, <1>6, <1>7 DEF Inv, TypeOK

LEMMA CloseResultInv == ASSUME Inv, CloseResult PROVE Inv'
<1>0. /\ mode = "discard" /\ mode \notin Over /\ res \in Results
      /\ open \subseteq {res.life} /\ open' = {} /\ UNCHANGED <<hooks, made, done>>
    BY DEF CloseResult, Inv, TypeOK, CallOK, OpenInv, Over
<1>1. op \in {"chain", "table", "fallback", "predicate", "retry"}
    BY <1>0, TopIndex
<1>2. PICK fails \in BOOLEAN :
        /\ broken' = IF fails /\ res.life \in open THEN broken \union {res.life} ELSE broken
        /\ IF CloseFails(fails) THEN Return([res EXCEPT !.action = "abort", !.err = TRUE])
           ELSE mode' = (IF op = "retry" THEN "sleep" ELSE "try") /\ UNCHANGED <<stack, res>>
    BY DEF CloseResult
<1>3. timers' \subseteq timers /\ timers' \subseteq {stack[k].ctx : k \in Armed}
    <2>1. timers \subseteq {stack[k].ctx : k \in Armed} \union UNION {hooks[l] : l \in open}
        BY DEF Inv, TimerInv
    <2>2. timers' = IF res.life \in open THEN timers \ hooks[res.life] ELSE timers
        BY DEF CloseResult
    <2> QED BY <1>0, <2>1, <2>2
<1>4. LifeOK'
    BY <1>0, <1>3 DEF Inv, TypeOK, LifeOK
<1>5. Below => TimerInv'
    BY <1>0, <1>1, <1>3, ArmedStay DEF TimerInv
<1>6. CASE CloseFails(fails)
    <2> DEFINE r == [res EXCEPT !.action = "abort", !.err = TRUE]
    <2>1. r \in Results /\ r.life = res.life /\ r.err
        BY <1>0 DEF Results
    <2>2. Return(r)
        BY <1>2, <1>6
    <2> HIDE DEF r
    <2>3. CallOK' /\ IndexInv' /\ BackoffHolds' /\ Below
        BY <1>0, <2>1, <2>2, ReturnStep
    <2>4. res' = r /\ mode' \in {"judge", "returned"}
        BY <1>0, <2>2, ReturnStack DEF Inv
    <2>5. broken' = {res.life}
        BY <1>2, <1>6 DEF Inv, BrokenInv, CloseFails
    <2>6. OpenInv' /\ BrokenInv'
        BY <1>0, <2>1, <2>4, <2>5 DEF OpenInv, BrokenInv
    <2> QED BY <1>4, <1>5, <2>3, <2>6 DEF Inv, TypeOK
<1>7. CASE ~CloseFails(fails)
    <2>1. /\ mode' \in {"sleep", "try"} /\ (mode' = "sleep" => op = "retry")
          /\ stack' = stack /\ res' = res
        BY <1>2, <1>7
    <2>2. broken' = {}
        BY <1>2, <1>7 DEF Inv, BrokenInv, CloseFails
    <2>3. OpenInv' /\ BrokenInv'
        BY <1>0, <2>2 DEF OpenInv, BrokenInv
    <2>4. CallOK' /\ BackoffHolds' /\ Below
        BY <1>0, <2>1 DEF Inv, TypeOK, CallOK, Over, BackoffHolds, Below, Armed, opOf
    <2>5. IndexInv'
        BY <1>0, <1>1, <2>1, StackFacts DEF Inv, IndexInv, opOf, kidsOf
    <2> QED BY <1>4, <1>5, <2>3, <2>4, <2>5 DEF Inv, TypeOK
<1> QED BY <1>6, <1>7

-----------------------------------------------------------------------------
(* Backoff *)

\* The least delay a retry may come down to.
Least == IF Backoff < MaxInt \div 2 THEN Backoff ELSE MaxInt \div 2

\* Doubling, saturation and jitter keep a delay in range and above the least.
LEMMA growBackoffBounds ==
    ASSUME NEW w \in 0..MaxInt, w >= Least, NEW d \in growBackoff(w)
    PROVE d \in 0..MaxInt /\ d >= Least
<1>h. PICK h \in Nat : h = MaxInt \div 2 /\ 2 * h <= MaxInt /\ MaxInt <= 2 * h + 1
    BY DispatchAssumption
<1>1. Least <= h /\ Least \in Int
    BY <1>h, DispatchAssumption DEF Least
<1> DEFINE doubled == safeDoubleBackoff(w)
           capHalf == doubled \div 2
<1>2. d \in IF doubled <= 0 \/ capHalf <= 0 THEN {doubled} ELSE {capHalf + jitter : jitter \in 0..(capHalf - 1)}
    BY DEF growBackoff
<1>3. CASE w = 0
    <2>1. doubled = 0
        BY <1>3 DEF safeDoubleBackoff
    <2> QED BY <1>2, <1>3, <2>1, DispatchAssumption
<1>4. CASE w > h
    <2>1. doubled = MaxInt /\ capHalf = h
        BY <1>h, <1>4 DEF safeDoubleBackoff
    <2> HIDE DEF doubled, capHalf
    <2> QED BY <1>1, <1>2, <1>h, <2>1, DispatchAssumption
<1>5. CASE w > 0 /\ w <= h
    <2>1. doubled = 2 * w
        <3>1. ~(w <= 0) /\ ~(w > MaxInt \div 2)
            BY <1>h, <1>5, DispatchAssumption
        <3> QED BY <3>1 DEF safeDoubleBackoff
    <2>2. capHalf = w
        BY <1>5, <2>1
    <2> HIDE DEF doubled, capHalf
    <2> QED BY <1>1, <1>2, <1>h, <1>5, <2>1, <2>2, DispatchAssumption
<1> QED BY <1>h, <1>3, <1>4, <1>5, DispatchAssumption

LEMMA SleepInv == ASSUME Inv, Sleep PROVE Inv'
<1>0. /\ mode = "sleep" /\ mode \notin Over /\ res \in Results
      /\ UNCHANGED <<lifeVars, made, done>>
    BY DEF Sleep, Inv, TypeOK, CallOK, Over
<1>1. op = "retry" /\ Top.i < Attempts
    BY <1>0, TopIndex
<1>2. CASE Return([res EXCEPT !.action = "abort"])
    <2>1. [res EXCEPT !.action = "abort"] \in Results
        BY <1>0 DEF Results
    <2> QED BY <1>0, <1>1, <1>2, <2>1, TryReturns
<1>3. CASE /\ \E d \in growBackoff(Top.wait) : stack' = [stack EXCEPT ![Len(stack)].wait = d]
           /\ mode' = "try" /\ UNCHANGED res
    <2>1. PICK d \in growBackoff(Top.wait) : stack' = [stack EXCEPT ![Len(stack)].wait = d]
        BY <1>3
    <2>2. Top \in Frames /\ Top = stack[Len(stack)] /\ Top.wait \in 0..MaxInt /\ Top.wait >= Least
        BY <1>0, StackFacts, TopFields DEF Inv, BackoffHolds, Least
    <2>3. d \in 0..MaxInt /\ d >= Least
        BY <2>2, growBackoffBounds
    <2> DEFINE f == [Top EXCEPT !.wait = d]
    <2>4. f \in Frames /\ f.node = Top.node /\ f.i = Top.i /\ f.wait = d
        BY <2>2, <2>3 DEF Frames
    <2>5. stack' = [stack EXCEPT ![Len(stack)] = f]
        BY <2>1, <2>2
    <2> HIDE DEF f
    <2> QED BY <1>0, <1>1, <1>3, <2>3, <2>4, <2>5, TryStays DEF Least
<1> QED BY <1>2, <1>3 DEF Sleep

-----------------------------------------------------------------------------
(* The invariant, and what follows from it *)

LEMMA InitInv == Init => Inv
<1> SUFFICES ASSUME Init PROVE Inv
    OBVIOUS
<1>1. PICK r \in Roots : stack = <<Frame(r, 0)>>
    BY DEF Init
<1>2. Frame(r, 0) \in Frames /\ Frame(r, 0).i = 0 /\ Frame(r, 0).wait = Backoff
    <2>1. r \in DOMAIN Nodes
        BY DispatchAssumption
    <2> QED BY <2>1, FrameType DEF Frame
<1>3. stack \in Seq(Frames) /\ stack # <<>> /\ DOMAIN stack = {1} /\ Len(stack) = 1 /\ stack[1] \in Frames
      /\ stack[1].i = 0 /\ stack[1].wait = Backoff
    BY <1>1, <1>2
<1>4. TypeOK
    BY <1>3, Constants DEF Init, TypeOK, CallOK, LifeOK, Over
<1>5. IndexInv
    <2>1. stack[1].node \in DOMAIN Nodes
        BY <1>3 DEF Frames
    <2>2. Len(kidsOf(1)) \in Nat
        BY <2>1, KidsLength DEF kidsOf
    <2> QED BY <1>3, <2>2, DispatchAssumption DEF Init, IndexInv
<1>6. OpenInv /\ BrokenInv /\ TimerInv
    BY DEF Init, OpenInv, BrokenInv, TimerInv
<1>7. BackoffHolds
    BY <1>3, DispatchAssumption DEF BackoffHolds
<1> QED BY <1>4, <1>5, <1>6, <1>7 DEF Inv

LEMMA StepInv == Inv /\ [Next]_vars => Inv'
<1> SUFFICES ASSUME Inv, [Next]_vars PROVE Inv'
    OBVIOUS
<1>1. CASE Leaf
    BY <1>1, LeafInv
<1>2. CASE LeafPanics \/ PredicatePanics
    BY <1>2, PanicsInv
<1>3. CASE TryChain
    BY <1>3, TryChainInv
<1>4. CASE TryFallback
    BY <1>4, TryFallbackInv
<1>5. CASE TryRetry
    BY <1>5, TryRetryInv
<1>6. CASE TryTimeout
    BY <1>6, TryTimeoutInv
<1>7. CASE TryRoute
    BY <1>7, TryRouteInv
<1>8. CASE TryChoice
    BY <1>8, TryChoiceInv
<1>9. CASE JudgeAction
    BY <1>9, JudgeActionInv
<1>10. CASE JudgeFallback
    BY <1>10, JudgeFallbackInv
<1>11. CASE JudgeRetry
    BY <1>11, JudgeRetryInv
<1>12. CASE JudgeTimeout
    BY <1>12, JudgeTimeoutInv
<1>13. CASE JudgeChoice
    BY <1>13, JudgeChoiceInv
<1>14. CASE CloseResult
    BY <1>14, CloseResultInv
<1>15. CASE Sleep
    BY <1>15, SleepInv
<1>16. CASE ContextEnds
    BY <1>16, ContextEndsInv
<1>17. CASE UNCHANGED vars
    BY <1>17 DEF vars, lifeVars, Inv, TypeOK, CallOK, LifeOK, IndexInv, OpenInv, BrokenInv, TimerInv, Armed,
                 BackoffHolds, opOf, kidsOf
<1> QED BY <1>1, <1>2, <1>3, <1>4, <1>5, <1>6, <1>7, <1>8, <1>9, <1>10, <1>11, <1>12, <1>13, <1>14, <1>15,
           <1>16, <1>17 DEF Next

LEMMA SpecInv == Spec => []Inv
BY InitInv, StepInv, PTL DEF Spec

\* Frames, results and Lifetimes are well formed throughout a call: every
\* composed handler reads kids[i + 1] only when it has that child.
THEOREM DispatchTypeCorrect == Spec => [](TypeOK /\ IndexInv)
<1>1. Inv => TypeOK /\ IndexInv
    BY DEF Inv
<1> QED BY <1>1, SpecInv, PTL

\* The delay of a retry never falls below the configured one, or half the
\* largest duration, however often growBackoff doubles, saturates and jitters.
THEOREM DispatchBackoffHolds == Spec => []BackoffHolds
<1>1. Inv => BackoffHolds
    BY DEF Inv
<1> QED BY <1>1, SpecInv, PTL

\* What a finished call leaves open is the Lifetime of its result, and every
\* context a Timeout made is cancelled or will be by that Lifetime.  A panic
\* leaves nothing, but for the result a panicking predicate was judging.
THEOREM DispatchNothingLeaks == Spec => []NothingLeaks
<1>1. Inv => NothingLeaks
    <2> SUFFICES ASSUME Inv, mode \in Over PROVE NothingLeaks
        BY DEF NothingLeaks, Over
    <2>1. stack = <<>>
        BY DEF Inv, TypeOK, CallOK
    <2>2. Armed = {}
        BY <2>1 DEF Armed
    <2>3. timers \subseteq UNION {hooks[l] : l \in open}
        BY <2>2 DEF Inv, TimerInv
    <2>4. mode = "panicked" => open = {}
        BY DEF Inv, OpenInv
    <2>5. open \subseteq {res.life}
        BY DEF Inv, OpenInv
    <2> QED BY <2>3, <2>4, <2>5 DEF NothingLeaks
<1> QED BY <1>1, SpecInv, PTL

\* A handler answers, or keeps its result for the discard: nothing is called.
LEMMA NothingCalled ==
    ASSUME Inv, mode \notin Over
    PROVE /\ \A r : Return(r) => ~(Len(stack') > Len(stack))
          /\ Discard => ~(Len(stack') > Len(stack))
          /\ stack' = stack => ~(Len(stack') > Len(stack))
<1>1. Len(stack) \in Nat \ {0} /\ stack \in Seq(Frames) /\ stack # <<>> /\ DOMAIN stack = 1..Len(stack)
    BY StackFacts DEF Inv, TypeOK, CallOK
<1>2. ASSUME NEW r, Return(r) PROVE ~(Len(stack') > Len(stack))
    <2>1. Len(stack') = Len(stack) - 1
        BY <1>2, ReturnStack DEF Inv
    <2> QED BY <1>1, <2>1
<1>3. ASSUME Discard PROVE ~(Len(stack') > Len(stack))
    <2> DEFINE f == [Top EXCEPT !.last = res]
    <2>1. f \in Frames /\ Top = stack[Len(stack)]
        BY StackFacts DEF Inv, TypeOK, CallOK, Frames
    <2>2. stack' = [stack EXCEPT ![Len(stack)] = f]
        BY <1>3, <2>1 DEF Discard
    <2> HIDE DEF f
    <2>3. Len(stack') = Len(stack)
        BY <1>1, <2>1, <2>2, LastReplaced
    <2> QED BY <1>1, <2>3
<1> QED BY <1>1, <1>2, <1>3

\* A second handler is called only with a context that is alive, nothing open,
\* and no cleanup failed: a retry or a fallback never starts beside the
\* resource of the attempt it replaces.
THEOREM DispatchNextTryClean == Spec => NextTryClean
<1> DEFINE Clean == ~Dead /\ open = {} /\ broken = {}
           A == Len(stack') > Len(stack) /\ Top.i > 0 => Clean
<1>1. Inv /\ [Next]_vars => [A]_vars
    <2> SUFFICES ASSUME Inv, Next, Len(stack') > Len(stack), Top.i > 0 PROVE Clean
        BY DEF A
    <2>1. mode \in {"try", "sleep"} => open = {} /\ broken = {}
        BY DEF Inv, OpenInv, BrokenInv
    <2>2. mode \notin Over => ~\E r : Return(r)
        BY NothingCalled
    <2>3. mode \notin Over => ~Discard /\ stack' # stack
        BY NothingCalled
    <2>4. CASE Leaf
        BY <2>2, <2>4 DEF Leaf, Over
    <2>5. CASE LeafPanics \/ PredicatePanics
        <3>1. Len(stack') = 0 /\ Len(stack) \in Nat
            BY <2>5, StackFacts DEF LeafPanics, PredicatePanics, Unwind, Over, Inv
        <3> QED BY <3>1
    <2>6. CASE TryChain \/ TryFallback \/ TryRetry
        BY <2>1, <2>2, <2>6 DEF TryChain, TryFallback, TryRetry, Over
    <2>7. CASE TryTimeout \/ TryChoice
        <3>1. Top.i = 0
            BY <2>7, TopIndex DEF TryTimeout, TryChoice, Over
        <3> QED BY <3>1
    <2>8. CASE TryRoute
        BY <2>1, <2>2, <2>8 DEF TryRoute, Over
    <2>9. CASE JudgeAction \/ JudgeFallback \/ JudgeRetry
        BY <2>2, <2>3, <2>9 DEF JudgeAction, JudgeFallback, JudgeRetry, Over
    <2>10. CASE JudgeTimeout \/ JudgeChoice
        BY <2>2, <2>10 DEF JudgeTimeout, JudgeChoice, Over
    <2>11. CASE CloseResult
        BY <2>2, <2>3, <2>11 DEF CloseResult, Over
    <2>12. CASE Sleep
        BY <2>1, <2>2, <2>12 DEF Sleep, Over
    <2>13. CASE ContextEnds
        BY <2>3, <2>13 DEF ContextEnds, Over
    <2> QED BY <2>4, <2>5, <2>6, <2>7, <2>8, <2>9, <2>10, <2>11, <2>12, <2>13 DEF Next
<1> QED BY <1>1, SpecInv, PTL DEF Spec, NextTryClean

-----------------------------------------------------------------------------
(* The stable sort of a table *)

\* A strict total order on the places of a sequence of n entries.
StrictOrder(R, n) ==
    /\ \A i \in 1..n : <<i, i>> \notin R
    /\ \A i, j \in 1..n : i = j \/ <<i, j>> \in R \/ <<j, i>> \in R
    /\ \A i, j, k \in 1..n : <<i, j>> \in R /\ <<j, k>> \in R => <<i, k>> \in R

\* The places that R puts before i.
Predecessors(R, n, i) == {j \in 1..n : <<j, i>> \in R}

\* Ranks in a strict total order grow with the order.
LEMMA RankGrows ==
  ASSUME NEW n \in Nat, NEW R, StrictOrder(R, n),
         NEW i \in 1..n, NEW j \in 1..n, <<i, j>> \in R
  PROVE  Cardinality(Predecessors(R, n, i)) < Cardinality(Predecessors(R, n, j))
<1> DEFINE P == Predecessors(R, n, i)
           Q == Predecessors(R, n, j)
<1>1. IsFiniteSet(1..n)
  BY FS_Interval
<1>2. Q \in SUBSET (1..n)
  BY DEF Predecessors
<1>3. IsFiniteSet(Q) /\ Cardinality(Q) \in Nat
  BY <1>1, <1>2, FS_Subset, FS_CardinalityType
<1>4. P \in SUBSET Q
  BY DEF Predecessors, StrictOrder
<1>5. i \in Q /\ i \notin P
  BY DEF Predecessors, StrictOrder
<1>6. Cardinality(P) <= Cardinality(Q) /\ Cardinality(Q) # Cardinality(P)
  BY <1>3, <1>4, <1>5, FS_Subset
<1>7. Cardinality(P) \in Nat
  BY <1>3, <1>4, FS_Subset, FS_CardinalityType
<1> QED
  BY <1>3, <1>6, <1>7

\* Every rank is below the number of places.
LEMMA RankBound ==
  ASSUME NEW n \in Nat, NEW R, StrictOrder(R, n), NEW i \in 1..n
  PROVE  Cardinality(Predecessors(R, n, i)) \in 0..(n - 1)
<1> DEFINE P == Predecessors(R, n, i)
<1>1. IsFiniteSet(1..n) /\ Cardinality(1..n) = n
  BY FS_Interval
<1>2. P \in SUBSET (1..n) /\ i \notin P
  BY DEF Predecessors, StrictOrder
<1>3. Cardinality(P) <= n /\ Cardinality(P) # n
  BY <1>1, <1>2, FS_Subset
<1>4. Cardinality(P) \in Nat
  BY <1>1, <1>2, FS_Subset, FS_CardinalityType
<1> QED
  BY <1>3, <1>4

\* The ranks fill the places: each number below n is the rank of some place.
LEMMA RankFills ==
  ASSUME NEW n \in Nat, NEW R, StrictOrder(R, n), NEW k \in 1..n
  PROVE  \E i \in 1..n : Cardinality(Predecessors(R, n, i)) = k - 1
<1> DEFINE f == [i \in 1..n |-> Cardinality(Predecessors(R, n, i))]
<1>1. f \in [1..n -> 0..(n - 1)]
  BY RankBound
<1>2. ASSUME NEW i \in 1..n, NEW j \in 1..n, i # j
      PROVE  f[i] # f[j]
  <2>1. CASE <<i, j>> \in R
    BY <2>1, <1>1, RankGrows
  <2>2. CASE <<j, i>> \in R
    BY <2>2, <1>1, RankGrows
  <2> QED
    BY <1>2, <2>1, <2>2 DEF StrictOrder
<1>3. f \in Injection(1..n, 0..(n - 1))
  BY <1>1, <1>2 DEF Injection, IsInjective
<1>4. IsFiniteSet(0..(n - 1)) /\ Cardinality(0..(n - 1)) = n
  BY FS_Interval
<1>5. Cardinality(1..n) = n
  BY FS_Interval
<1>6. f \in Surjection(1..n, 0..(n - 1))
  BY <1>3, <1>4, <1>5, FS_Injection
<1>7. k - 1 \in 0..(n - 1)
  OBVIOUS
<1>8. \E i \in 1..n : f[i] = k - 1
  BY <1>6, <1>7 DEF Surjection
<1> QED
  BY <1>8

\* What the order of routes compares are numbers.
IsEntry(e) == e.priority \in Int /\ (e.kind = "prefix" => Len(e.key) \in Nat)

\* The lexicographic order of triples, case by case.
LEMMA LessTriple ==
  ASSUME NEW a1, NEW a2, NEW a3, NEW b1, NEW b2, NEW b3
  PROVE  Less(<<a1, a2, a3>>, <<b1, b2, b3>>) <=>
            \/ a1 < b1
            \/ a1 = b1 /\ a2 < b2
            \/ a1 = b1 /\ a2 = b2 /\ a3 < b3
<1> DEFINE a == <<a1, a2, a3>>
           b == <<b1, b2, b3>>
<1>1. DOMAIN a = {1, 2, 3}
  OBVIOUS
<1>2. /\ a[1] = a1 /\ a[2] = a2 /\ a[3] = a3
      /\ b[1] = b1 /\ b[2] = b2 /\ b[3] = b3
  OBVIOUS
<1>3. /\ 1..(1 - 1) = {} /\ 1..(2 - 1) = {1} /\ 1..(3 - 1) = {1, 2}
  OBVIOUS
<1> HIDE DEF a, b
<1>4. Less(a, b) <=> \E i \in {1, 2, 3} : a[i] < b[i] /\ \A j \in 1..(i - 1) : a[j] = b[j]
  BY <1>1 DEF Less
<1>5. (\A j \in 1..(1 - 1) : a[j] = b[j]) <=> TRUE
  BY <1>3
<1>6. (\A j \in 1..(2 - 1) : a[j] = b[j]) <=> a[1] = b[1]
  BY <1>3
<1>7. (\A j \in 1..(3 - 1) : a[j] = b[j]) <=> a[1] = b[1] /\ a[2] = b[2]
  BY <1>3
<1>8. Less(a, b) <=> \/ a[1] < b[1]
                     \/ a[2] < b[2] /\ a[1] = b[1]
                     \/ a[3] < b[3] /\ a[1] = b[1] /\ a[2] = b[2]
  BY <1>4, <1>5, <1>6, <1>7
<1> QED
  BY <1>2, <1>8 DEF a, b

\* compareRoutes in a longest-prefix table: group, length, priority.
LEMMA CompareLongest ==
  ASSUME NEW l, NEW r
  PROVE  compareRoutes(l, r, TRUE) <=>
            \/ routeGroup(l) < routeGroup(r)
            \/ routeGroup(l) = routeGroup(r) /\ prefixLength(r) < prefixLength(l)
            \/ routeGroup(l) = routeGroup(r) /\ prefixLength(r) = prefixLength(l) /\ r.priority < l.priority
  BY LessTriple DEF compareRoutes

\* compareRoutes in the other tables: priority, group, length.
LEMMA ComparePriority ==
  ASSUME NEW l, NEW r
  PROVE  compareRoutes(l, r, FALSE) <=>
            \/ r.priority < l.priority
            \/ r.priority = l.priority /\ routeGroup(l) < routeGroup(r)
            \/ r.priority = l.priority /\ routeGroup(l) = routeGroup(r) /\ prefixLength(r) < prefixLength(l)
  BY LessTriple DEF compareRoutes

\* The numbers that compareRoutes looks at.
LEMMA EntryNumbers ==
  ASSUME NEW e, IsEntry(e)
  PROVE  e.priority \in Int /\ routeGroup(e) \in {0, 1} /\ prefixLength(e) \in Nat
  BY DEF IsEntry, routeGroup, prefixLength

\* compareRoutes is a strict weak order: what a sort may rely on.
LEMMA CompareIsWeakOrder ==
  ASSUME NEW longest \in BOOLEAN,
         NEW a, IsEntry(a), NEW b, IsEntry(b), NEW c, IsEntry(c)
  PROVE  /\ ~compareRoutes(a, a, longest)
         /\ compareRoutes(a, b, longest) => ~compareRoutes(b, a, longest)
         /\ compareRoutes(a, b, longest) /\ ~compareRoutes(c, b, longest)
                => compareRoutes(a, c, longest)
         /\ ~compareRoutes(b, a, longest) /\ compareRoutes(b, c, longest)
                => compareRoutes(a, c, longest)
         /\ ~compareRoutes(b, a, longest) /\ ~compareRoutes(c, b, longest)
                => ~compareRoutes(c, a, longest)
<1>1. /\ a.priority \in Int /\ routeGroup(a) \in {0, 1} /\ prefixLength(a) \in Nat
      /\ b.priority \in Int /\ routeGroup(b) \in {0, 1} /\ prefixLength(b) \in Nat
      /\ c.priority \in Int /\ routeGroup(c) \in {0, 1} /\ prefixLength(c) \in Nat
  BY EntryNumbers
<1>2. CASE longest = TRUE
  <2> DEFINE Lex(x, y) ==
        \/ routeGroup(x) < routeGroup(y)
        \/ routeGroup(x) = routeGroup(y) /\ prefixLength(y) < prefixLength(x)
        \/ routeGroup(x) = routeGroup(y) /\ prefixLength(y) = prefixLength(x) /\ y.priority < x.priority
  <2>1. /\ compareRoutes(a, a, longest) <=> Lex(a, a)
        /\ compareRoutes(a, b, longest) <=> Lex(a, b)
        /\ compareRoutes(b, a, longest) <=> Lex(b, a)
        /\ compareRoutes(b, c, longest) <=> Lex(b, c)
        /\ compareRoutes(c, b, longest) <=> Lex(c, b)
        /\ compareRoutes(a, c, longest) <=> Lex(a, c)
        /\ compareRoutes(c, a, longest) <=> Lex(c, a)
    BY <1>2, CompareLongest
  <2> QED
    BY <1>1, <2>1
<1>3. CASE longest = FALSE
  <2> DEFINE Lex(x, y) ==
        \/ y.priority < x.priority
        \/ y.priority = x.priority /\ routeGroup(x) < routeGroup(y)
        \/ y.priority = x.priority /\ routeGroup(x) = routeGroup(y) /\ prefixLength(y) < prefixLength(x)
  <2>1. /\ compareRoutes(a, a, longest) <=> Lex(a, a)
        /\ compareRoutes(a, b, longest) <=> Lex(a, b)
        /\ compareRoutes(b, a, longest) <=> Lex(b, a)
        /\ compareRoutes(b, c, longest) <=> Lex(b, c)
        /\ compareRoutes(c, b, longest) <=> Lex(c, b)
        /\ compareRoutes(a, c, longest) <=> Lex(a, c)
        /\ compareRoutes(c, a, longest) <=> Lex(c, a)
    BY <1>3, ComparePriority
  <2> QED
    BY <1>1, <2>1
<1> QED
  BY <1>2, <1>3

\* The order of a stable sort, as a set of pairs of places.
Order(entries, longest, n) == {p \in (1..n) \X (1..n) : Before(entries, longest, p[1], p[2])}

LEMMA OrderMember ==
  ASSUME NEW entries, NEW longest, NEW n, NEW i \in 1..n, NEW j \in 1..n
  PROVE  <<i, j>> \in Order(entries, longest, n) <=> Before(entries, longest, i, j)
  BY DEF Order

\* The order of a stable sort is strict and total.
LEMMA BeforeIsStrict ==
  ASSUME NEW n \in Nat, NEW entries, NEW longest \in BOOLEAN,
         \A i \in 1..n : IsEntry(entries[i])
  PROVE  StrictOrder(Order(entries, longest, n), n)
<1>1. \A i \in 1..n : ~Before(entries, longest, i, i)
  BY CompareIsWeakOrder DEF Before
<1>2. ASSUME NEW i \in 1..n, NEW j \in 1..n, i # j
      PROVE  Before(entries, longest, i, j) \/ Before(entries, longest, j, i)
  BY <1>2 DEF Before
<1>3. ASSUME NEW i \in 1..n, NEW j \in 1..n, NEW k \in 1..n,
             Before(entries, longest, i, j), Before(entries, longest, j, k)
      PROVE  Before(entries, longest, i, k)
  <2> DEFINE a == entries[i]
             b == entries[j]
             c == entries[k]
  <2>1. IsEntry(a) /\ IsEntry(b) /\ IsEntry(c)
    OBVIOUS
  <2>2. \/ compareRoutes(a, b, longest)
        \/ ~compareRoutes(b, a, longest) /\ i < j
    BY <1>3 DEF Before
  <2>3. \/ compareRoutes(b, c, longest)
        \/ ~compareRoutes(c, b, longest) /\ j < k
    BY <1>3 DEF Before
  <2> HIDE DEF a, b, c
  <2>4. \/ compareRoutes(a, c, longest)
        \/ ~compareRoutes(c, a, longest) /\ i < k
    <3>1. CASE compareRoutes(a, b, longest)
      <4>1. ~compareRoutes(c, b, longest)
        BY <2>1, <2>3, CompareIsWeakOrder
      <4> QED
        BY <3>1, <4>1, <2>1, CompareIsWeakOrder
    <3>2. CASE ~compareRoutes(b, a, longest) /\ i < j
      <4>1. CASE compareRoutes(b, c, longest)
        BY <3>2, <4>1, <2>1, CompareIsWeakOrder
      <4>2. CASE ~compareRoutes(c, b, longest) /\ j < k
        <5>1. ~compareRoutes(c, a, longest)
          BY <3>2, <4>2, <2>1, CompareIsWeakOrder
        <5> QED
          BY <5>1, <3>2, <4>2
      <4> QED
        BY <2>3, <4>1, <4>2
    <3> QED
      BY <2>2, <3>1, <3>2
  <2> QED
    BY <2>4 DEF Before, a, b, c
<1> QED
  BY <1>1, <1>2, <1>3, OrderMember DEF StrictOrder

\* Sorted is a permutation of the entries in the order of a stable sort:
\* every place gets an entry, every entry a place, and later places get later
\* entries.
LEMMA SortedPlaces ==
  ASSUME NEW n \in Nat, NEW entries, DOMAIN entries = 1..n, NEW longest \in BOOLEAN,
         \A i \in 1..n : IsEntry(entries[i])
  PROVE  /\ \A k \in 1..n : Placed(entries, longest, k) \in 1..n
         /\ \A i \in 1..n : \E k \in 1..n : Placed(entries, longest, k) = i
         /\ \A k, l \in 1..n : k < l =>
                Before(entries, longest, Placed(entries, longest, k), Placed(entries, longest, l))
<1> DEFINE R == Order(entries, longest, n)
           P(k) == Placed(entries, longest, k)
<1>1. StrictOrder(R, n)
  BY BeforeIsStrict
<1>2. ASSUME NEW i \in 1..n
      PROVE  Rank(entries, longest, i) = Cardinality(Predecessors(R, n, i))
  <2>1. {j \in 1..n : Before(entries, longest, j, i)} = Predecessors(R, n, i)
    BY OrderMember DEF Predecessors
  <2> QED
    BY <2>1 DEF Rank
<1>3. ASSUME NEW k \in 1..n
      PROVE  P(k) \in 1..n /\ Rank(entries, longest, P(k)) = k - 1
  <2>1. \E i \in 1..n : Rank(entries, longest, i) = k - 1
    BY <1>1, <1>2, RankFills
  <2> QED
    BY <2>1 DEF Placed
<1>4. ASSUME NEW k \in 1..n, NEW l \in 1..n, k < l
      PROVE  Before(entries, longest, P(k), P(l))
  <2>1. P(k) \in 1..n /\ P(l) \in 1..n
    BY <1>3
  <2>2. /\ Cardinality(Predecessors(R, n, P(k))) = k - 1
        /\ Cardinality(Predecessors(R, n, P(l))) = l - 1
    BY <1>2, <1>3
  <2> HIDE DEF P, R
  <2>3. P(k) # P(l)
    BY <2>2, <1>4
  <2>4. <<P(l), P(k)>> \notin R
    BY <1>1, <2>1, <2>2, <1>4, RankGrows
  <2>5. <<P(k), P(l)>> \in R
    BY <1>1, <2>1, <2>3, <2>4 DEF StrictOrder
  <2> QED
    BY <2>1, <2>5, OrderMember DEF R
<1>5. ASSUME NEW i \in 1..n
      PROVE  \E k \in 1..n : P(k) = i
  <2> DEFINE k == Rank(entries, longest, i) + 1
  <2>1. k \in 1..n /\ k - 1 = Rank(entries, longest, i)
    <3>1. Rank(entries, longest, i) \in 0..(n - 1)
      BY <1>1, <1>2, RankBound
    <3> QED
      BY <3>1
  <2>2. P(k) \in 1..n /\ Rank(entries, longest, P(k)) = Rank(entries, longest, i)
    BY <1>3, <2>1
  <2>3. Cardinality(Predecessors(R, n, P(k))) = Cardinality(Predecessors(R, n, i))
    BY <1>2, <2>2
  <2>4. Cardinality(Predecessors(R, n, i)) \in Int
    BY <1>1, RankBound
  <2> HIDE DEF P, R, k
  <2>5. <<P(k), i>> \notin R /\ <<i, P(k)>> \notin R
    BY <1>1, <2>2, <2>3, <2>4, RankGrows
  <2>6. P(k) = i
    BY <1>1, <2>2, <2>5 DEF StrictOrder
  <2> QED
    BY <2>1, <2>6
<1> QED
  BY <1>3, <1>4, <1>5

-----------------------------------------------------------------------------
(* The registry *)

\* A table and the order of its registrations: each id once, under its own name.
OrderOK(ids, table) ==
    /\ ids \in Seq(DOMAIN table)
    /\ \A i, j \in DOMAIN ids : ids[i] = ids[j] => i = j
    /\ \A id \in DOMAIN table : \E i \in DOMAIN ids : ids[i] = id

SpecsOK(table) == \A id \in DOMAIN table : \E s \in Specs : table[id] = RouteSpec(id, s)

\* A snapshot was built from some routes, or is the one of an empty registry.
Made(shot) == shot = emptySnapshot \/ \E longest \in BOOLEAN : shot = TableSnapshot(shot.routes, longest)

\* What is published is the table of the registrations, without a conflict.
Published(ids, table, shot) ==
    LET longest == "longest" \in Policies(ids, table)
    IN \/ ids = <<>> /\ shot = emptySnapshot
       \/ /\ ids # <<>> /\ ~(Cardinality(Policies(ids, table)) > 1)
          /\ shot = TableSnapshot(Sorted(Entries(ids, table), longest), longest)

\* The inductive invariant of the registry.
RegistryInv ==
    /\ OrderOK(order, specs)
    /\ SpecsOK(specs)
    /\ Published(order, specs, snapshot)
    /\ held = [r \in Readers |-> held[r]]
    /\ \A r \in Readers : Made(held[r])

LEMMA MadeTable ==
  ASSUME NEW routes, NEW longest \in BOOLEAN
  PROVE  Made(TableSnapshot(routes, longest))
<1> DEFINE shot == TableSnapshot(routes, longest)
<1>1. shot.routes = routes
  BY DEF TableSnapshot
<1>2. shot = TableSnapshot(shot.routes, longest)
  BY <1>1
<1> HIDE DEF shot
<1>3. Made(shot)
  BY <1>2 DEF Made
<1> QED
  BY <1>3 DEF shot

LEMMA PublishedIsMade ==
  ASSUME NEW ids, NEW table, NEW shot, Published(ids, table, shot)
  PROVE  Made(shot)
<1> DEFINE longest == "longest" \in Policies(ids, table)
<1>1. CASE shot = emptySnapshot
  BY <1>1 DEF Made
<1>2. CASE shot = TableSnapshot(Sorted(Entries(ids, table), longest), longest)
  <2>1. longest \in BOOLEAN
    OBVIOUS
  <2> HIDE DEF longest
  <2> QED
    BY <1>2, <2>1, MadeTable
<1> QED
  BY <1>1, <1>2 DEF Published

\* RemoveAt leaves out one place and keeps the others in order.
LEMMA RemoveAtPlaces ==
  ASSUME NEW S, NEW s \in Seq(S), NEW p \in 1..Len(s)
  PROVE  /\ RemoveAt(s, p) \in Seq(S)
         /\ Len(RemoveAt(s, p)) = Len(s) - 1
         /\ \A k \in 1..(Len(s) - 1) : RemoveAt(s, p)[k] = IF k < p THEN s[k] ELSE s[k + 1]
<1> DEFINE a == SubSeq(s, 1, p - 1)
           b == SubSeq(s, p + 1, Len(s))
<1>0. Len(s) \in Nat /\ p \in Nat /\ \A i \in 1..Len(s) : s[i] \in S
  BY LenProperties, ElementOfSeq
<1>1. /\ a \in Seq(S) /\ Len(a) = p - 1
      /\ \A i \in 1..(p - 1) : a[i] = s[i]
  <2>1. \A i \in 1..(p - 1) : s[i] \in S
    BY <1>0
  <2>2. 1 \in Int /\ p - 1 \in Int
    BY <1>0
  <2>3. /\ a \in Seq(S) /\ Len(a) = IF 1 <= p - 1 THEN p - 1 - 1 + 1 ELSE 0
        /\ \A i \in 1..(p - 1 - 1 + 1) : a[i] = s[1 + i - 1]
    BY <2>1, <2>2, SubSeqProperties
  <2> HIDE DEF a
  <2>4. 1..(p - 1 - 1 + 1) = 1..(p - 1) /\ \A i \in 1..(p - 1) : 1 + i - 1 = i
    BY <1>0
  <2>5. \A i \in 1..(p - 1) : a[i] = s[i]
    BY <2>3, <2>4
  <2> QED
    BY <2>3, <2>5, <1>0
<1>2. /\ b \in Seq(S) /\ Len(b) = Len(s) - p
      /\ \A i \in 1..(Len(s) - p) : b[i] = s[p + i]
  <2>1. \A i \in (p + 1)..Len(s) : s[i] \in S
    BY <1>0
  <2>2. p + 1 \in Int /\ Len(s) \in Int
    BY <1>0
  <2>3. /\ b \in Seq(S) /\ Len(b) = IF p + 1 <= Len(s) THEN Len(s) - (p + 1) + 1 ELSE 0
        /\ \A i \in 1..(Len(s) - (p + 1) + 1) : b[i] = s[(p + 1) + i - 1]
    BY <2>1, <2>2, SubSeqProperties
  <2> HIDE DEF b
  <2> QED
    BY <2>3, <1>0
<1>3. RemoveAt(s, p) = a \o b
  BY DEF RemoveAt
<1> HIDE DEF a, b
<1>4. /\ a \o b \in Seq(S) /\ Len(a \o b) = Len(a) + Len(b)
      /\ \A i \in 1..(Len(a) + Len(b)) : (a \o b)[i] = IF i <= Len(a) THEN a[i] ELSE b[i - Len(a)]
  BY <1>1, <1>2, ConcatProperties
<1>5. \A k \in 1..(Len(s) - 1) : (a \o b)[k] = IF k < p THEN s[k] ELSE s[k + 1]
  <2> SUFFICES ASSUME NEW k \in 1..(Len(s) - 1)
               PROVE  (a \o b)[k] = IF k < p THEN s[k] ELSE s[k + 1]
    OBVIOUS
  <2>1. k \in 1..(Len(a) + Len(b)) /\ k \in Int /\ p \in Int
    BY <1>0, <1>1, <1>2
  <2>2. CASE k < p
    <3>1. k <= Len(a) /\ k \in 1..(p - 1)
      BY <1>0, <1>1, <2>1, <2>2
    <3> QED
      BY <1>1, <1>4, <2>1, <2>2, <3>1
  <2>3. CASE ~(k < p)
    <3>1. ~(k <= Len(a)) /\ k - Len(a) \in 1..(Len(s) - p) /\ p + (k - Len(a)) = k + 1
      BY <1>0, <1>1, <2>1, <2>3
    <3> QED
      BY <1>2, <1>4, <2>1, <2>3, <3>1
  <2> QED
    BY <2>2, <2>3
<1> QED
  BY <1>0, <1>1, <1>2, <1>3, <1>4, <1>5

\* A sequence whose members are in T is a sequence of T.
LEMMA SeqOfMembers ==
  ASSUME NEW S, NEW T, NEW s \in Seq(S), \A i \in 1..Len(s) : s[i] \in T
  PROVE  s \in Seq(T)
<1>1. Len(s) \in Nat /\ s \in [1..Len(s) -> S] /\ DOMAIN s = 1..Len(s)
  BY LenProperties
<1>2. s \in [1..Len(s) -> T]
  BY <1>1
<1> QED
  BY <1>1, <1>2, SeqDef

\* What a build publishes keeps the invariant, and so does one that failed.
LEMMA ReplaceKeeps ==
  ASSUME RegistryInv, NEW table, NEW ids, OrderOK(ids, table), SpecsOK(table), Replace(table, ids)
  PROVE  RegistryInv'
<1> DEFINE longest == "longest" \in Policies(ids, table)
           built == buildRouteTableSnapshot(ids, table)
<1>1. UNCHANGED held
  BY DEF Replace
<1>2. held' = [r \in Readers |-> held'[r]] /\ \A r \in Readers : Made(held'[r])
  BY <1>1 DEF RegistryInv
<1>3. CASE built = Conflict
  <2>1. specs' = specs /\ order' = order /\ snapshot' = snapshot
    BY <1>3 DEF Replace
  <2> QED
    BY <1>2, <2>1 DEF RegistryInv
<1>4. CASE built # Conflict
  <2>1. specs' = table /\ order' = ids /\ snapshot' = built
    BY <1>4 DEF Replace
  <2>2. \/ ids = <<>> /\ built = emptySnapshot
        \/ /\ ids # <<>> /\ ~(Cardinality(Policies(ids, table)) > 1)
           /\ built = TableSnapshot(Sorted(Entries(ids, table), longest), longest)
    BY <1>4 DEF buildRouteTableSnapshot
  <2>3. Published(ids, table, built)
    BY <2>2 DEF Published
  <2> HIDE DEF built
  <2> QED
    BY <1>2, <2>1, <2>3 DEF RegistryInv
<1> QED
  BY <1>3, <1>4

\* An id that is not taken is put at the end.
LEMMA RegisterKeeps ==
  ASSUME RegistryInv, NEW s \in Specs, Register(s)
  PROVE  RegistryInv'
<1> DEFINE id == NormalizeRouteID[s.raw]
           table == [i \in DOMAIN specs \union {id} |-> IF i = id THEN RouteSpec(id, s) ELSE specs[i]]
           ids == Append(order, id)
<1>1. id \notin DOMAIN specs /\ Replace(table, ids)
  BY DEF Register
<1>2. DOMAIN table = DOMAIN specs \union {id}
  OBVIOUS
<1>3. SpecsOK(table)
  <2> SUFFICES ASSUME NEW i \in DOMAIN table
               PROVE  \E u \in Specs : table[i] = RouteSpec(i, u)
    BY DEF SpecsOK
  <2>1. CASE i = id
    <3>1. table[i] = RouteSpec(i, s)
      BY <2>1
    <3> QED
      BY <3>1
  <2>2. CASE i # id
    <3>1. i \in DOMAIN specs /\ table[i] = specs[i]
      BY <2>2
    <3> QED
      BY <3>1 DEF RegistryInv, SpecsOK
  <2> QED
    BY <2>1, <2>2
<1>4. OrderOK(ids, table)
  <2> HIDE DEF table, id
  <2>1. /\ order \in Seq(DOMAIN specs)
        /\ \A i, j \in DOMAIN order : order[i] = order[j] => i = j
        /\ \A x \in DOMAIN specs : \E i \in DOMAIN order : order[i] = x
    BY DEF RegistryInv, OrderOK
  <2>2. order \in Seq(DOMAIN table) /\ id \in DOMAIN table
    BY <1>2, <2>1, SeqMonotonic
  <2>3. /\ ids \in Seq(DOMAIN table) /\ Len(ids) = Len(order) + 1
        /\ \A i \in 1..Len(order) : ids[i] = order[i]
        /\ ids[Len(order) + 1] = id
    BY <2>2, AppendProperties
  <2> HIDE DEF ids
  <2>4. /\ Len(order) \in Nat /\ DOMAIN order = 1..Len(order)
        /\ DOMAIN ids = 1..(Len(order) + 1)
        /\ \A i \in 1..Len(order) : order[i] \in DOMAIN specs
    BY <2>1, <2>3, LenProperties, ElementOfSeq
  <2>5. \A i \in DOMAIN ids : i \in 1..Len(order) \/ i = Len(order) + 1
    BY <2>4
  <2>6. ASSUME NEW i \in DOMAIN ids, NEW j \in DOMAIN ids, ids[i] = ids[j]
        PROVE  i = j
    BY <1>1, <2>1, <2>3, <2>4, <2>5, <2>6
  <2>7. ASSUME NEW x \in DOMAIN table
        PROVE  \E i \in DOMAIN ids : ids[i] = x
    <3>1. CASE x = id
      <4>1. Len(order) + 1 \in DOMAIN ids
        BY <2>4
      <4> QED
        BY <2>3, <3>1, <4>1
    <3>2. CASE x \in DOMAIN specs
      <4>1. PICK i \in DOMAIN order : order[i] = x
        BY <2>1, <3>2
      <4>2. i \in DOMAIN ids /\ ids[i] = x
        BY <2>3, <2>4, <4>1
      <4> QED
        BY <4>2
    <3> QED
      BY <1>2, <3>1, <3>2
  <2> QED
    BY <2>3, <2>6, <2>7 DEF OrderOK
<1> HIDE DEF table, ids, id
<1> QED
  BY <1>1, <1>3, <1>4, ReplaceKeeps

\* A registered id has one place, which is left out.
LEMMA UnregisterKeeps ==
  ASSUME RegistryInv, NEW raw, Unregister(raw)
  PROVE  RegistryInv'
<1> DEFINE id == NormalizeRouteID[raw]
           table == [i \in DOMAIN specs \ {id} |-> specs[i]]
           p == position(id)
           ids == RemoveAt(order, p)
<1>1. id \in DOMAIN specs /\ Replace(table, ids)
  BY DEF Unregister
<1>2. DOMAIN table = DOMAIN specs \ {id} /\ \A i \in DOMAIN table : table[i] = specs[i]
  OBVIOUS
<1>3. SpecsOK(table)
  <2> HIDE DEF table
  <2> QED
    BY <1>2 DEF RegistryInv, SpecsOK
<1>4. OrderOK(ids, table)
  <2> HIDE DEF table, id
  <2>1. /\ order \in Seq(DOMAIN specs)
        /\ \A i, j \in DOMAIN order : order[i] = order[j] => i = j
        /\ \A x \in DOMAIN specs : \E i \in DOMAIN order : order[i] = x
    BY DEF RegistryInv, OrderOK
  <2>2. p \in DOMAIN order /\ order[p] = id
    BY <1>1, <2>1 DEF position
  <2> HIDE DEF p
  <2>3. /\ Len(order) \in Nat /\ DOMAIN order = 1..Len(order)
        /\ \A i \in 1..Len(order) : order[i] \in DOMAIN specs
    BY <2>1, LenProperties, ElementOfSeq
  <2>4. /\ ids \in Seq(DOMAIN specs) /\ Len(ids) = Len(order) - 1
        /\ \A k \in 1..(Len(order) - 1) : ids[k] = IF k < p THEN order[k] ELSE order[k + 1]
    <3>1. p \in 1..Len(order)
      BY <2>2, <2>3
    <3> DEFINE S == DOMAIN specs
    <3>2. order \in Seq(S)
      BY <2>1
    <3> HIDE DEF S
    <3>3. /\ RemoveAt(order, p) \in Seq(S)
          /\ Len(RemoveAt(order, p)) = Len(order) - 1
          /\ \A k \in 1..(Len(order) - 1) :
                RemoveAt(order, p)[k] = IF k < p THEN order[k] ELSE order[k + 1]
      BY <3>1, <3>2, RemoveAtPlaces
    <3> QED
      BY <3>3 DEF S
  <2> HIDE DEF ids
  <2> DEFINE from(k) == IF k < p THEN k ELSE k + 1
  <2>5. DOMAIN ids = 1..(Len(order) - 1) /\ p \in 1..Len(order)
    BY <2>2, <2>3, <2>4, LenProperties
  <2>6. \A k \in DOMAIN ids : from(k) \in 1..Len(order) /\ from(k) # p /\ ids[k] = order[from(k)]
    BY <2>3, <2>4, <2>5
  <2>7. \A k, l \in DOMAIN ids : from(k) = from(l) => k = l
    BY <2>3, <2>5
  <2>8. \A i \in 1..Len(order) : i # p => \E k \in DOMAIN ids : from(k) = i
    <3> SUFFICES ASSUME NEW i \in 1..Len(order), i # p
                 PROVE  \E k \in DOMAIN ids : from(k) = i
      OBVIOUS
    <3>1. CASE i < p
      <4>1. i \in DOMAIN ids /\ from(i) = i
        BY <2>3, <2>5, <3>1
      <4> QED
        BY <4>1
    <3>2. CASE i > p
      <4>1. i - 1 \in DOMAIN ids /\ from(i - 1) = i
        BY <2>3, <2>5, <3>2
      <4> QED
        BY <4>1
    <3> QED
      BY <2>3, <2>5, <3>1, <3>2
  <2> HIDE DEF from
  <2>9. \A k \in DOMAIN ids : ids[k] \in DOMAIN table
    BY <1>2, <2>1, <2>2, <2>3, <2>6
  <2>10. ids \in Seq(DOMAIN table)
    BY <2>4, <2>5, <2>9, SeqOfMembers
  <2>11. \A i, j \in DOMAIN ids : ids[i] = ids[j] => i = j
    BY <2>1, <2>3, <2>6, <2>7
  <2>12. ASSUME NEW x \in DOMAIN table
         PROVE  \E k \in DOMAIN ids : ids[k] = x
    <3>1. PICK i \in DOMAIN order : order[i] = x
      BY <1>2, <2>1
    <3>2. i # p
      BY <1>2, <2>2, <3>1
    <3>3. PICK k \in DOMAIN ids : from(k) = i
      BY <2>3, <2>8, <3>2
    <3> QED
      BY <2>6, <3>1, <3>3
  <2> QED
    BY <2>10, <2>11, <2>12 DEF OrderOK
<1> HIDE DEF table, ids, id, p
<1> QED
  BY <1>1, <1>3, <1>4, ReplaceKeeps

LEMMA LoadKeeps ==
  ASSUME RegistryInv, NEW r \in Readers, Load(r)
  PROVE  RegistryInv'
<1>1. /\ held' = [held EXCEPT ![r] = snapshot]
      /\ specs' = specs /\ order' = order /\ snapshot' = snapshot
  BY DEF Load
<1>2. Made(snapshot)
  BY PublishedIsMade DEF RegistryInv
<1>3. held' = [q \in Readers |-> IF q = r THEN snapshot ELSE held[q]]
  BY <1>1 DEF RegistryInv
<1>4. held' = [q \in Readers |-> held'[q]]
  BY <1>3
<1>5. \A q \in Readers : Made(held'[q])
  BY <1>2, <1>3 DEF RegistryInv
<1> QED
  BY <1>1, <1>4, <1>5 DEF RegistryInv

LEMMA RegistryUnchanged ==
  ASSUME RegistryInv, UNCHANGED <<specs, order, snapshot, held>>
  PROVE  RegistryInv'
  BY DEF RegistryInv

LEMMA RegistryStarts ==
  ASSUME RegistryInit
  PROVE  RegistryInv
<1>1. specs = <<>> /\ order = <<>> /\ snapshot = emptySnapshot /\ held = [r \in Readers |-> emptySnapshot]
  BY DEF RegistryInit
<1>2. DOMAIN specs = {} /\ DOMAIN order = {} /\ order \in Seq(DOMAIN specs)
  BY <1>1, EmptySeq
<1>3. OrderOK(order, specs) /\ SpecsOK(specs)
  BY <1>2 DEF OrderOK, SpecsOK
<1>4. Published(order, specs, snapshot)
  BY <1>1 DEF Published
<1>5. \A r \in Readers : Made(held[r])
  BY <1>1 DEF Made
<1>6. held = [r \in Readers |-> held[r]]
  BY <1>1
<1> QED
  BY <1>3, <1>4, <1>5, <1>6 DEF RegistryInv

\* At every moment the published snapshot is the sorted table of the accepted
\* registrations, each id once, and every reader holds a table that was built.
THEOREM RegistryConsistent == RegistrySpec => []RegistryInv
<1>1. RegistryInit => RegistryInv
  BY RegistryStarts
<1>2. RegistryInv /\ [RegistryNext]_registryVars => RegistryInv'
  <2> SUFFICES ASSUME RegistryInv, [RegistryNext]_registryVars
               PROVE  RegistryInv'
    OBVIOUS
  <2>1. CASE \E s \in Specs : Register(s)
    BY <2>1, RegisterKeeps
  <2>2. CASE \E raw \in DOMAIN NormalizeRouteID : Unregister(raw)
    BY <2>2, UnregisterKeeps
  <2>3. CASE \E r \in Readers : Load(r)
    BY <2>3, LoadKeeps
  <2>4. CASE \E t, s \in Tables : Mount(t, s)
    BY <2>4, RegistryUnchanged DEF Mount
  <2>5. CASE UNCHANGED registryVars
    BY <2>5, RegistryUnchanged DEF registryVars
  <2> QED
    BY <2>1, <2>2, <2>3, <2>4, <2>5 DEF RegistryNext
<1> QED
  BY <1>1, <1>2, PTL DEF RegistrySpec

\* Entries as the constructors of route specs make them.
IsRoute(e) ==
    /\ IsEntry(e)
    /\ e.policy \in IF e.kind = "prefix" THEN {"longest", "priority"} ELSE {"none"}

\* The numbers of a route, told apart by its kind.
LEMMA RouteNumbers ==
  ASSUME NEW e, IsRoute(e)
  PROVE  /\ e.priority \in Int
         /\ e.kind = "prefix" => routeGroup(e) = 0 /\ prefixLength(e) = Len(e.key) /\ Len(e.key) \in Nat
         /\ e.kind # "prefix" => routeGroup(e) = 1 /\ prefixLength(e) = 0 /\ e.policy = "none"
  BY DEF IsRoute, IsEntry, routeGroup, prefixLength

\* A route that no other precedes is among the best, and nothing that is among
\* the best comes after it in the order of compareRoutes.
LEMMA FirstIsBest ==
  ASSUME NEW es, NEW won \in es, NEW longest \in BOOLEAN,
         \A e \in es : IsRoute(e),
         \A e \in es : e.policy = "longest" => longest,
         \A e \in es : longest /\ e.kind = "prefix" => e.policy = "longest",
         \A e \in es : ~compareRoutes(e, won, longest)
  PROVE  won \in Best(es) /\ \A e \in Best(es) : e \in es /\ ~compareRoutes(won, e, longest)
<1> DEFINE prefixes(S) == {e \in S : e.kind = "prefix"}
           longestOf(S) == {e \in S : \A f \in S : Len(e.key) >= Len(f.key)}
           field == IF \E e \in es : e.policy = "longest" THEN longestOf(prefixes(es)) ELSE es
           top == {e \in field : \A f \in field : e.priority >= f.priority}
<1>0. Best(es) = IF prefixes(top) = {} THEN top ELSE longestOf(prefixes(top))
  BY DEF Best
<1>1. \A e \in es :
         /\ e.priority \in Int
         /\ e.kind = "prefix" => routeGroup(e) = 0 /\ prefixLength(e) = Len(e.key) /\ Len(e.key) \in Nat
         /\ e.kind # "prefix" => routeGroup(e) = 1 /\ prefixLength(e) = 0 /\ e.policy = "none"
  BY RouteNumbers
<1>2. CASE \E e \in es : e.policy = "longest"
  <2>1. longest = TRUE
    BY <1>2
  <2>2. \A e \in es : ~compareRoutes(e, won, TRUE)
    BY <2>1
  <2>3. won.kind = "prefix"
    <3>1. PICK e \in es : e.policy = "longest"
      BY <1>2
    <3>2. e.kind = "prefix"
      BY <1>1, <3>1
    <3>3. ~(routeGroup(e) < routeGroup(won))
      BY <2>2, CompareLongest
    <3> QED
      BY <1>1, <3>2, <3>3
  <2>4. \A f \in prefixes(es) : Len(won.key) >= Len(f.key)
    <3> SUFFICES ASSUME NEW f \in es, f.kind = "prefix"
                 PROVE  Len(won.key) >= Len(f.key)
      OBVIOUS
    <3>1. ~(routeGroup(f) = routeGroup(won) /\ prefixLength(won) < prefixLength(f))
      BY <2>2, CompareLongest
    <3> QED
      BY <1>1, <2>3, <3>1
  <2>5. field = longestOf(prefixes(es))
    BY <1>2
  <2>6. won \in field
    BY <2>3, <2>4, <2>5
  <2>7. \A f \in field : f \in es /\ f.kind = "prefix" /\ Len(f.key) = Len(won.key)
    <3> SUFFICES ASSUME NEW f \in field
                 PROVE  f \in es /\ f.kind = "prefix" /\ Len(f.key) = Len(won.key)
      OBVIOUS
    <3>1. f \in es /\ f.kind = "prefix" /\ \A g \in prefixes(es) : Len(f.key) >= Len(g.key)
      BY <2>5
    <3>2. won \in prefixes(es) /\ f \in prefixes(es)
      BY <2>3, <3>1
    <3>3. Len(f.key) >= Len(won.key) /\ Len(won.key) >= Len(f.key)
      BY <2>4, <3>1, <3>2
    <3> QED
      BY <1>1, <2>3, <3>1, <3>3
  <2> HIDE DEF field
  <2>8. \A f \in field : won.priority >= f.priority
    <3> SUFFICES ASSUME NEW f \in field
                 PROVE  won.priority >= f.priority
      OBVIOUS
    <3>1. ~( /\ routeGroup(f) = routeGroup(won) /\ prefixLength(won) = prefixLength(f)
             /\ won.priority < f.priority)
      BY <2>2, <2>7, CompareLongest
    <3> QED
      BY <1>1, <2>3, <2>7, <3>1
  <2>9. won \in top /\ prefixes(top) = top /\ longestOf(top) = top
    BY <1>1, <2>3, <2>6, <2>7, <2>8
  <2>10. Best(es) = top
    BY <1>0, <2>9
  <2>11. ASSUME NEW e \in top
         PROVE  e \in es /\ ~compareRoutes(won, e, longest)
    <3>1. e \in field /\ e.priority >= won.priority
      BY <2>6, <2>11
    <3>2. /\ routeGroup(won) = routeGroup(e) /\ prefixLength(e) = prefixLength(won)
          /\ routeGroup(e) \in Int /\ prefixLength(e) \in Int
      BY <1>1, <2>3, <2>7, <3>1
    <3>3. ~(e.priority < won.priority)
      BY <1>1, <2>7, <3>1
    <3> QED
      BY <2>1, <2>7, <3>1, <3>2, <3>3, CompareLongest
  <2> HIDE DEF top
  <2> QED
    BY <2>9, <2>10, <2>11
<1>3. CASE ~\E e \in es : e.policy = "longest"
  <2>1. field = es
    BY <1>3
  <2>2. \A f \in es : won.priority >= f.priority
    <3> SUFFICES ASSUME NEW f \in es
                 PROVE  won.priority >= f.priority
      OBVIOUS
    <3>1. CASE longest = TRUE
      <4>1. f.kind # "prefix" /\ won.kind # "prefix"
        BY <1>3, <3>1
      <4>2. ~( /\ routeGroup(f) = routeGroup(won) /\ prefixLength(won) = prefixLength(f)
               /\ won.priority < f.priority)
        BY <3>1, CompareLongest
      <4> QED
        BY <1>1, <4>1, <4>2
    <3>2. CASE longest = FALSE
      <4>1. ~(won.priority < f.priority)
        BY <3>2, ComparePriority
      <4> QED
        BY <1>1, <4>1
    <3> QED
      BY <3>1, <3>2
  <2>3. won \in top /\ \A e \in top : e \in es /\ e.priority = won.priority
    BY <1>1, <2>1, <2>2
  <2> HIDE DEF field
  <2>4. CASE prefixes(top) = {}
    <3>1. Best(es) = top
      BY <1>0, <2>4
    <3>2. ASSUME NEW e \in top
          PROVE  ~compareRoutes(won, e, longest)
      <4>1. e.kind # "prefix" /\ won.kind # "prefix"
        BY <2>3, <2>4
      <4>2. /\ routeGroup(won) = 1 /\ routeGroup(e) = 1 /\ prefixLength(e) = 0 /\ prefixLength(won) = 0
            /\ e.priority = won.priority /\ e.priority \in Int
        BY <1>1, <2>3, <4>1
      <4>3. CASE longest = TRUE
        BY <4>2, <4>3, CompareLongest
      <4>4. CASE longest = FALSE
        BY <4>2, <4>4, ComparePriority
      <4> QED
        BY <4>3, <4>4
    <3> HIDE DEF top
    <3> QED
      BY <2>3, <3>1, <3>2
  <2>5. CASE prefixes(top) # {}
    <3>1. PICK q \in top : q.kind = "prefix"
      BY <2>5
    <3>2. longest = FALSE
      BY <1>3, <2>3, <3>1
    <3> HIDE DEF top
    <3>3. won.kind = "prefix"
      <4>1. ~(won.priority = q.priority /\ routeGroup(q) < routeGroup(won))
        BY <2>3, <3>1, <3>2, ComparePriority
      <4> QED
        BY <1>1, <2>3, <3>1, <4>1
    <3>4. \A f \in prefixes(top) : Len(won.key) >= Len(f.key)
      <4> SUFFICES ASSUME NEW f \in top, f.kind = "prefix"
                   PROVE  Len(won.key) >= Len(f.key)
        OBVIOUS
      <4>1. ~(won.priority = f.priority /\ routeGroup(f) = routeGroup(won) /\ prefixLength(won) < prefixLength(f))
        BY <2>3, <3>2, ComparePriority
      <4> QED
        BY <1>1, <2>3, <3>3, <4>1
    <3>5. Best(es) = longestOf(prefixes(top)) /\ won \in prefixes(top)
      BY <1>0, <2>3, <2>5, <3>3
    <3>6. ASSUME NEW e \in longestOf(prefixes(top))
          PROVE  e \in es /\ ~compareRoutes(won, e, longest)
      <4>1. e \in top /\ e \in es /\ e.kind = "prefix" /\ Len(e.key) >= Len(won.key)
        BY <2>3, <3>5
      <4>2. /\ routeGroup(won) = 0 /\ routeGroup(e) = 0 /\ ~(prefixLength(e) < prefixLength(won))
            /\ e.priority = won.priority /\ e.priority \in Int
        BY <1>1, <2>3, <3>3, <4>1
      <4> QED
        BY <3>2, <4>1, <4>2, ComparePriority
    <3> QED
      BY <3>4, <3>5, <3>6
  <2> QED
    BY <2>4, <2>5
<1> QED
  BY <1>2, <1>3

\* A set with no two members has no two prefix policies.
LEMMA OnePolicy ==
  ASSUME NEW P \in SUBSET {"longest", "priority"}, ~(Cardinality(P) > 1)
  PROVE  "longest" \in P => "priority" \notin P
<1> SUFFICES ASSUME "longest" \in P, "priority" \in P
             PROVE  FALSE
  OBVIOUS
<1>1. P = {"longest"} \union {"priority"}
  OBVIOUS
<1>2. IsFiniteSet({"longest"}) /\ Cardinality({"longest"}) = 1
  BY FS_Singleton
<1>3. Cardinality({"longest"} \union {"priority"}) = 2
  BY <1>2, FS_AddElement
<1> QED
  BY <1>1, <1>3

\* The entries of a table are routes, each with the id it is registered under.
LEMMA EntriesAreRoutes ==
  ASSUME OrderOK(order, specs), SpecsOK(specs)
  PROVE  /\ Len(order) \in Nat /\ DOMAIN order = 1..Len(order)
         /\ DOMAIN Entries(order, specs) = 1..Len(order)
         /\ \A i \in 1..Len(order) :
              /\ IsRoute(Entries(order, specs)[i])
              /\ Entries(order, specs)[i].id = order[i]
              /\ Entries(order, specs)[i].policy # "none" => Entries(order, specs)[i].policy \in Policies(order, specs)
              /\ position(order[i]) = i
<1>1. Len(order) \in Nat /\ DOMAIN order = 1..Len(order)
  BY LenProperties DEF OrderOK
<1>2. DOMAIN Entries(order, specs) = 1..Len(order)
  BY <1>1 DEF Entries
<1>3. ASSUME NEW i \in 1..Len(order)
      PROVE  /\ IsRoute(Entries(order, specs)[i])
             /\ Entries(order, specs)[i].id = order[i]
             /\ Entries(order, specs)[i].policy # "none" => Entries(order, specs)[i].policy \in Policies(order, specs)
             /\ position(order[i]) = i
  <2>1. order[i] \in DOMAIN specs
    BY ElementOfSeq DEF OrderOK
  <2>2. PICK s \in Specs : specs[order[i]] = RouteSpec(order[i], s)
    BY <2>1 DEF SpecsOK
  <2>3. Entries(order, specs)[i] = specs[order[i]]
    BY <1>1 DEF Entries
  <2> DEFINE e == RouteSpec(order[i], s)
  <2>4. e.id = order[i] /\ e.priority = s.priority /\ e.kind = s.kind /\ e.key = s.key /\ e.policy = s.policy
    BY DEF RouteSpec
  <2>5. /\ s.priority \in Int
        /\ s.policy \in IF s.kind = "prefix" THEN {"longest", "priority"} ELSE {"none"}
        /\ s.kind = "prefix" => Len(s.key) \in Nat
    BY RegistryAssumption
  <2>6. specs[order[i]] = e
    BY <2>2
  <2> HIDE DEF e
  <2>7. IsRoute(e)
    BY <2>4, <2>5 DEF IsRoute, IsEntry
  <2>8. e.policy # "none" => e.policy \in Policies(order, specs)
    BY <1>1, <2>6 DEF Policies
  <2>9. position(order[i]) = i
    BY <1>1 DEF OrderOK, position
  <2> QED
    BY <2>3, <2>4, <2>6, <2>7, <2>8, <2>9
<1> QED
  BY <1>1, <1>2, <1>3

\* Every policy of a table is one of the two of prefixes.
LEMMA PoliciesKnown ==
  ASSUME OrderOK(order, specs), SpecsOK(specs)
  PROVE  Policies(order, specs) \in SUBSET {"longest", "priority"}
<1> SUFFICES ASSUME NEW i \in DOMAIN order, specs[order[i]].policy # "none"
             PROVE  specs[order[i]].policy \in {"longest", "priority"}
  BY DEF Policies
<1>1. i \in 1..Len(order) /\ Entries(order, specs)[i] = specs[order[i]]
  BY EntriesAreRoutes DEF Entries
<1>2. IsRoute(specs[order[i]])
  BY <1>1, EntriesAreRoutes
<1> QED
  BY <1>2 DEF IsRoute

\* The published table has every registration in exactly one place, in the
\* order of compareRoutes and, of equals, of their registration: what a request
\* meets after a route that passes it on.
TableSorted ==
    LET longest == "longest" \in Policies(order, specs)
        routes == snapshot.routes
    IN /\ DOMAIN routes = DOMAIN order
       /\ \A id \in DOMAIN specs : \E k \in DOMAIN routes : routes[k] = specs[id]
       /\ \A k, l \in DOMAIN routes : k < l =>
            \/ compareRoutes(routes[k], routes[l], longest)
            \/ /\ ~compareRoutes(routes[l], routes[k], longest)
               /\ position(routes[k].id) < position(routes[l].id)

LEMMA InvTableSorted ==
  ASSUME RegistryInv
  PROVE  TableSorted
<1> DEFINE n == Len(order)
           entries == Entries(order, specs)
           longest == "longest" \in Policies(order, specs)
           routes == snapshot.routes
           P(k) == Placed(entries, longest, k)
<1>1. OrderOK(order, specs) /\ SpecsOK(specs) /\ Published(order, specs, snapshot)
  BY DEF RegistryInv
<1>2. /\ n \in Nat /\ DOMAIN order = 1..n /\ DOMAIN entries = 1..n /\ longest \in BOOLEAN
      /\ \A k \in 1..n : IsRoute(entries[k]) /\ entries[k].id = order[k] /\ position(order[k]) = k
  BY <1>1, EntriesAreRoutes
<1>3. DOMAIN routes = 1..n /\ \A k \in 1..n : routes[k] = entries[P(k)]
  <2>1. CASE order = <<>> /\ snapshot = emptySnapshot
    <3>1. DOMAIN routes = {} /\ n = 0
      BY <2>1, EmptySeq DEF emptySnapshot
    <3> QED
      BY <3>1
  <2>2. CASE snapshot = TableSnapshot(Sorted(entries, longest), longest)
    <3>1. routes = Sorted(entries, longest)
      BY <2>2 DEF TableSnapshot
    <3> QED
      BY <1>2, <3>1 DEF Sorted
  <2> QED
    BY <1>1, <2>1, <2>2 DEF Published
<1>4. \A k \in 1..n : entries[k] = specs[order[k]]
  BY <1>2 DEF Entries
<1> HIDE DEF entries, n, longest, routes
<1>5. /\ \A k \in 1..n : P(k) \in 1..n
      /\ \A i \in 1..n : \E k \in 1..n : P(k) = i
      /\ \A k, l \in 1..n : k < l => Before(entries, longest, P(k), P(l))
  BY <1>2, SortedPlaces DEF IsRoute
<1> HIDE DEF P
<1>6. ASSUME NEW id \in DOMAIN specs
      PROVE  \E k \in DOMAIN routes : routes[k] = specs[id]
  <2>1. PICK i \in 1..n : order[i] = id
    BY <1>1, <1>2 DEF OrderOK
  <2>2. PICK k \in 1..n : P(k) = i
    BY <1>5
  <2> QED
    BY <1>3, <1>4, <2>1, <2>2
<1>7. ASSUME NEW k \in DOMAIN routes, NEW l \in DOMAIN routes, k < l
      PROVE  \/ compareRoutes(routes[k], routes[l], longest)
             \/ /\ ~compareRoutes(routes[l], routes[k], longest)
                /\ position(routes[k].id) < position(routes[l].id)
  <2>1. /\ P(k) \in 1..n /\ P(l) \in 1..n
        /\ routes[k] = entries[P(k)] /\ routes[l] = entries[P(l)]
        /\ Before(entries, longest, P(k), P(l))
    BY <1>3, <1>5, <1>7
  <2>2. position(routes[k].id) = P(k) /\ position(routes[l].id) = P(l)
    BY <1>2, <2>1
  <2> QED
    BY <2>1, <2>2 DEF Before
<1> QED
  BY <1>2, <1>3, <1>6, <1>7 DEF TableSorted, longest, routes

\* The published table is the stable sort of the registrations: no accepted
\* registration is lost, none appears twice.
THEOREM RegistryTableSorted == RegistrySpec => []TableSorted
<1>1. RegistryInv => TableSorted
  BY InvTableSorted
<1> QED
  BY <1>1, RegistryConsistent, PTL

\* The invariant gives the order that the documentation promises.
LEMMA InvFirstRouteWins ==
  ASSUME RegistryInv
  PROVE  FirstRouteWins
<1> SUFFICES ASSUME NEW key \in RequestKeys, NEW i \in Route(snapshot, key),
                    \A j \in Route(snapshot, key) : i <= j
             PROVE  LET won == snapshot.routes[i]
                        best == Best({snapshot.routes[j] : j \in Route(snapshot, key)})
                    IN won \in best /\ \A e \in best : position(won.id) <= position(e.id)
  BY DEF FirstRouteWins
<1> DEFINE n == Len(order)
           entries == Entries(order, specs)
           longest == "longest" \in Policies(order, specs)
           P(k) == Placed(entries, longest, k)
           won == snapshot.routes[i]
           es == {snapshot.routes[j] : j \in Route(snapshot, key)}
<1>1. OrderOK(order, specs) /\ SpecsOK(specs) /\ Published(order, specs, snapshot)
  BY DEF RegistryInv
<1>2. i \in DOMAIN snapshot.routes
  BY DEF Route
<1>3. /\ ~(Cardinality(Policies(order, specs)) > 1)
      /\ snapshot = TableSnapshot(Sorted(entries, longest), longest)
  <2>1. ASSUME snapshot = emptySnapshot
        PROVE  FALSE
    <3>1. DOMAIN snapshot.routes = {}
      BY <2>1 DEF emptySnapshot
    <3> QED
      BY <1>2, <3>1
  <2> QED
    BY <1>1, <2>1 DEF Published
<1>4. snapshot.routes = Sorted(entries, longest)
  BY <1>3 DEF TableSnapshot
<1>5. /\ n \in Nat /\ DOMAIN entries = 1..n /\ longest \in BOOLEAN
      /\ \A k \in 1..n : /\ IsRoute(entries[k]) /\ entries[k].id = order[k] /\ position(order[k]) = k
                         /\ entries[k].policy # "none" => entries[k].policy \in Policies(order, specs)
  BY <1>1, EntriesAreRoutes
<1>6. "longest" \in Policies(order, specs) => "priority" \notin Policies(order, specs)
  BY <1>1, <1>3, PoliciesKnown, OnePolicy
<1> HIDE DEF entries
<1>7. /\ \A k \in 1..n : entries[k].policy = "longest" => longest
      /\ \A k \in 1..n : longest /\ entries[k].kind = "prefix" => entries[k].policy = "longest"
  BY <1>5, <1>6 DEF IsRoute
<1> HIDE DEF n, longest
<1>8. /\ \A k \in 1..n : P(k) \in 1..n
      /\ \A k, l \in 1..n : k < l => Before(entries, longest, P(k), P(l))
  BY <1>5, SortedPlaces DEF IsRoute
<1>9. DOMAIN snapshot.routes = 1..n /\ \A k \in 1..n : snapshot.routes[k] = entries[P(k)]
  BY <1>4, <1>5 DEF Sorted
<1>10. i \in 1..n /\ Route(snapshot, key) \subseteq 1..n
  BY <1>2, <1>9 DEF Route
<1> HIDE DEF P
<1>11. \A e \in es : \E j \in 1..n : i <= j /\ e = entries[P(j)] /\ P(j) \in 1..n
  BY <1>8, <1>9, <1>10
<1>12. won \in es /\ won = entries[P(i)]
  BY <1>9, <1>10
<1> HIDE DEF won, es
<1>13. ASSUME NEW e \in es
       PROVE  ~compareRoutes(e, won, longest)
  <2>1. PICK j \in 1..n : i <= j /\ e = entries[P(j)] /\ P(j) \in 1..n
    BY <1>11
  <2>2. P(i) \in 1..n /\ IsEntry(won) /\ IsEntry(e)
    BY <1>5, <1>8, <1>10, <1>12, <2>1 DEF IsRoute
  <2>3. CASE i = j
    BY <1>5, <1>12, <2>1, <2>2, <2>3, CompareIsWeakOrder
  <2>4. CASE i < j
    <3>1. Before(entries, longest, P(i), P(j))
      BY <1>8, <1>10, <2>1, <2>4
    <3>2. \/ compareRoutes(won, e, longest)
          \/ ~compareRoutes(e, won, longest)
      BY <1>12, <2>1, <3>1 DEF Before
    <3> QED
      BY <1>5, <2>2, <3>2, CompareIsWeakOrder
  <2> QED
    BY <1>5, <1>10, <2>1, <2>3, <2>4
<1>14. /\ \A e \in es : IsRoute(e)
       /\ \A e \in es : e.policy = "longest" => longest
       /\ \A e \in es : longest /\ e.kind = "prefix" => e.policy = "longest"
  BY <1>5, <1>7, <1>11
<1>15. won \in Best(es) /\ \A e \in Best(es) : e \in es /\ ~compareRoutes(won, e, longest)
  <2>1. longest \in BOOLEAN /\ won \in es
    BY <1>5, <1>12
  <2>2. \A e \in es : ~compareRoutes(e, won, longest)
    BY <1>13
  <2> QED
    BY <1>14, <2>1, <2>2, FirstIsBest
<1>16. ASSUME NEW e \in Best(es)
       PROVE  position(won.id) <= position(e.id)
  <2>1. e \in es /\ ~compareRoutes(won, e, longest)
    BY <1>15
  <2>2. PICK j \in 1..n : i <= j /\ e = entries[P(j)] /\ P(j) \in 1..n
    BY <1>11, <2>1
  <2>3. P(i) \in 1..n /\ position(won.id) = P(i) /\ position(e.id) = P(j)
    BY <1>5, <1>8, <1>10, <1>12, <2>2
  <2>4. CASE i = j
    BY <1>5, <2>3, <2>4
  <2>5. CASE i < j
    <3>1. Before(entries, longest, P(i), P(j))
      BY <1>8, <1>10, <2>2, <2>5
    <3>2. P(i) < P(j)
      BY <1>12, <2>1, <2>2, <3>1 DEF Before
    <3> QED
      BY <1>5, <2>2, <2>3, <3>2
  <2> QED
    BY <1>5, <1>10, <2>2, <2>4, <2>5
<1> QED
  BY <1>15, <1>16 DEF won, es

\* FirstRouteWins for every registry: a request reaches first the route that
\* the documented order of the matching ones names, whatever was registered,
\* removed or refused before.
THEOREM RegistryFirstRouteWins == RegistrySpec => []FirstRouteWins
<1>1. RegistryInv => FirstRouteWins
  BY InvFirstRouteWins
<1> QED
  BY <1>1, RegistryConsistent, PTL

\* Two tables with one fingerprint have the same routes in the same places.
LEMMA FingerprintTells ==
  ASSUME NEW a, NEW b, NEW k, NEW l, fingerprint(a, k) = fingerprint(b, l)
  PROVE  /\ DOMAIN a = DOMAIN b
         /\ \A i \in DOMAIN b : /\ a[i].id = b[i].id /\ a[i].kind = b[i].kind
                                /\ staticKey(a[i]) = staticKey(b[i])
<1> DEFINE part(e) == <<e.id, e.priority, e.kind, staticKey(e)>>
           parts(routes) == [i \in DOMAIN routes |-> part(routes[i])]
<1>1. fingerprint(a, k)[3] = parts(a) /\ fingerprint(b, l)[3] = parts(b)
  BY DEF fingerprint
<1>2. parts(a) = parts(b)
  BY <1>1
<1>3. DOMAIN a = DOMAIN b
  <2>1. DOMAIN parts(a) = DOMAIN a /\ DOMAIN parts(b) = DOMAIN b
    OBVIOUS
  <2> QED
    BY <1>2, <2>1
<1>4. ASSUME NEW i \in DOMAIN b
      PROVE  /\ a[i].id = b[i].id /\ a[i].kind = b[i].kind
             /\ staticKey(a[i]) = staticKey(b[i])
  <2>1. parts(a)[i] = part(a[i]) /\ parts(b)[i] = part(b[i])
    BY <1>3
  <2> HIDE DEF parts
  <2>2. part(a[i]) = part(b[i])
    BY <1>2, <2>1
  <2> QED
    BY <2>2
<1> QED
  BY <1>3, <1>4

\* A static key tells which keys an exact or prefix route takes.
LEMMA StaticKeyTells ==
  ASSUME NEW e, NEW f, NEW key, e.kind = f.kind, e.kind # "predicate",
         staticKey(e) = staticKey(f), Matches(e, key)
  PROVE  Matches(f, key)
<1>1. CASE e.kind = "exact"
  <2>1. <<"string", e.key>> = <<"string", f.key>>
    BY <1>1 DEF staticKey
  <2>2. e.key = f.key
    BY <2>1
  <2> QED
    BY <1>1, <2>2 DEF Matches, predicateMatcher, exactMatcher, prefixMatcher
<1>2. CASE e.kind = "prefix"
  <2>1. e.key = f.key
    BY <1>2 DEF staticKey
  <2> QED
    BY <1>2, <2>1 DEF Matches, predicateMatcher, exactMatcher, prefixMatcher
<1> QED
  BY <1>1, <1>2 DEF Matches, predicateMatcher, exactMatcher, prefixMatcher

\* The exact and prefix routes that a request meets on a snapshot.
Static(shot, key) == {i \in Route(shot, key) : shot.routes[i].kind # "predicate"}

\* Two built snapshots with one fingerprint send a request to the same routes.
LEMMA SameFingerprintSameRoutes ==
  ASSUME NEW x, NEW y, NEW key, Made(x), Made(y), x.fingerprint = y.fingerprint
  PROVE  /\ Static(x, key) = Static(y, key)
         /\ \A i \in Static(y, key) : x.routes[i].id = y.routes[i].id
<1> DEFINE built(s, l) == s.fingerprint = fingerprint(s.routes, l)
<1>1. ASSUME NEW s, Made(s)
      PROVE  s = emptySnapshot \/ \E l \in BOOLEAN : built(s, l)
  <2>1. ASSUME NEW l \in BOOLEAN, s = TableSnapshot(s.routes, l)
        PROVE  built(s, l)
    <3> DEFINE routes == s.routes
               digest == fingerprint(routes, l)
    <3>1. s = [routes |-> routes, fingerprint |-> digest]
      BY <2>1 DEF TableSnapshot
    <3> HIDE DEF digest, routes
    <3>2. s.fingerprint = digest
      BY <3>1
    <3> QED
      BY <3>2 DEF digest, routes
  <2> QED
    BY <1>1, <2>1 DEF Made
<1>2. emptySnapshot.fingerprint[1] = "empty-route-registry"
  BY DEF emptySnapshot
<1>3. \A routes, l : fingerprint(routes, l)[1] = "routery-topology-v2"
  BY DEF fingerprint
<1>4. CASE x = emptySnapshot
  <2>1. y = emptySnapshot
    BY <1>1, <1>2, <1>3, <1>4
  <2> QED
    BY <1>4, <2>1
<1>5. CASE \E l \in BOOLEAN : built(x, l)
  <2>1. PICK k \in BOOLEAN : built(x, k)
    BY <1>5
  <2>2. PICK l \in BOOLEAN : built(y, l)
    BY <1>1, <1>2, <1>3, <2>1
  <2>3. fingerprint(x.routes, k) = fingerprint(y.routes, l)
    BY <2>1, <2>2
  <2>4. /\ DOMAIN x.routes = DOMAIN y.routes
        /\ \A i \in DOMAIN y.routes : /\ x.routes[i].id = y.routes[i].id
                                      /\ x.routes[i].kind = y.routes[i].kind
                                      /\ staticKey(x.routes[i]) = staticKey(y.routes[i])
    BY <2>3, FingerprintTells
  <2>5. \A i : i \in Static(x, key) <=> i \in Static(y, key)
    BY <2>4, StaticKeyTells DEF Static, Route
  <2> QED
    BY <2>4, <2>5 DEF Static, Route
<1> QED
  BY <1>1, <1>4, <1>5

\* FreshMeansSame for every registry: a reader whose snapshot is not stale
\* sends every request to the routes of the published table, however old the
\* snapshot is.
THEOREM RegistryFreshMeansSame == RegistrySpec => []FreshMeansSame
<1>1. RegistryInv => FreshMeansSame
  <2> SUFFICES ASSUME RegistryInv, NEW r \in Readers, NEW key \in RequestKeys, ~IsStale(r)
               PROVE  /\ Static(held[r], key) = Static(snapshot, key)
                      /\ \A i \in Static(snapshot, key) : held[r].routes[i].id = snapshot.routes[i].id
    BY DEF FreshMeansSame, Static
  <2>1. Made(held[r]) /\ Made(snapshot)
    BY PublishedIsMade DEF RegistryInv
  <2>2. held[r].fingerprint = snapshot.fingerprint
    BY DEF IsStale
  <2> QED
    BY <2>1, <2>2, SameFingerprintSameRoutes
<1> QED
  BY <1>1, RegistryConsistent, PTL

-----------------------------------------------------------------------------
(* Mount cycles *)

\* t and the tables below it.
Reach(t) == MountedBelow(t) \union {t}

\* What build of t below the path a comes to, without recursion: no table that
\* it meets is on the path, and none is mounted below itself.
SafeAt(a, t) == Reach(t) \intersect a = {} /\ \A s \in Reach(t) : s \notin MountedBelow(s)

\* The body of builds, as an operator on functions.
BuildStep(f) ==
    [a \in SUBSET Tables |->
        [t \in Tables |->
            /\ t \notin a
            /\ \A s \in Tables : <<t, s>> \in mounts => f[Ancestors(a, t, s)][s]]]

Safe == [a \in SUBSET Tables |-> [t \in Tables |-> SafeAt(a, t)]]

\* C holds the mounts of t and of its own members.
Closed(C, t) == \A u \in C \union {t}, v \in Tables : <<u, v>> \in mounts => v \in C

LEMMA MountedBelowMember ==
  ASSUME NEW t, NEW s
  PROVE  s \in MountedBelow(t) <=> s \in Tables /\ \A C \in SUBSET Tables : Closed(C, t) => s \in C
  BY DEF MountedBelow, Closed

\* What is mounted into t or into a table below t is below t.
LEMMA MountedBelowClosed ==
  ASSUME NEW t, NEW u \in Reach(t), NEW v \in Tables, <<u, v>> \in mounts
  PROVE  v \in MountedBelow(t)
<1> SUFFICES ASSUME NEW C \in SUBSET Tables, Closed(C, t)
             PROVE  v \in C
  BY MountedBelowMember
<1>1. u \in C \union {t}
  BY MountedBelowMember DEF Reach
<1> QED
  BY <1>1 DEF Closed

\* What is below a table below t is below t.
LEMMA MountedBelowTransitive ==
  ASSUME NEW t, NEW s \in MountedBelow(t)
  PROVE  MountedBelow(s) \subseteq MountedBelow(t)
<1> SUFFICES ASSUME NEW v \in MountedBelow(s), NEW C \in SUBSET Tables, Closed(C, t)
             PROVE  v \in C
  BY MountedBelowMember
<1>1. s \in C
  BY MountedBelowMember
<1>2. Closed(C, s)
  BY <1>1 DEF Closed
<1> QED
  BY <1>2, MountedBelowMember

\* What is below t is one of its mounts or below one.
LEMMA MountedBelowSplits ==
  ASSUME NEW t \in Tables, NEW v \in MountedBelow(t)
  PROVE  \E s \in Tables : <<t, s>> \in mounts /\ v \in Reach(s)
<1> DEFINE C == {w \in Tables : \E s \in Tables : <<t, s>> \in mounts /\ w \in Reach(s)}
<1>1. Closed(C, t)
  <2> SUFFICES ASSUME NEW u \in C \union {t}, NEW w \in Tables, <<u, w>> \in mounts
               PROVE  \E s \in Tables : <<t, s>> \in mounts /\ w \in Reach(s)
    BY DEF Closed
  <2>1. CASE u = t
    BY <2>1 DEF Reach
  <2>2. CASE u \in C
    <3>1. PICK s \in Tables : <<t, s>> \in mounts /\ u \in Reach(s)
      BY <2>2
    <3>2. w \in MountedBelow(s)
      BY <3>1, MountedBelowClosed
    <3> QED
      BY <3>1, <3>2 DEF Reach
  <2> QED
    BY <2>1, <2>2
<1>2. C \in SUBSET Tables
  OBVIOUS
<1> HIDE DEF C
<1>3. v \in C
  BY <1>1, <1>2, MountedBelowMember
<1> QED
  BY <1>3 DEF C

\* SafeAt does what one call of build does.
LEMMA SafeStep ==
  ASSUME NEW a \in SUBSET Tables, NEW t \in Tables
  PROVE  SafeAt(a, t) <=> /\ t \notin a
                          /\ \A s \in Tables : <<t, s>> \in mounts => SafeAt(Ancestors(a, t, s), s)
<1>1. ASSUME SafeAt(a, t)
      PROVE  t \notin a
  BY <1>1 DEF SafeAt, Reach
<1>2. ASSUME SafeAt(a, t), NEW s \in Tables, <<t, s>> \in mounts
      PROVE  SafeAt(Ancestors(a, t, s), s)
  <2>1. s \in MountedBelow(t)
    BY <1>2, MountedBelowClosed DEF Reach
  <2>2. Reach(s) \subseteq MountedBelow(t)
    BY <2>1, MountedBelowTransitive DEF Reach
  <2>3. t \notin MountedBelow(t)
    BY <1>2 DEF SafeAt, Reach
  <2>4. Reach(s) \intersect (a \union {t}) = {}
    BY <1>2, <2>2, <2>3 DEF SafeAt, Reach
  <2>5. \A v \in Reach(s) : v \notin MountedBelow(v)
    BY <1>2, <2>2 DEF SafeAt, Reach
  <2> QED
    BY <2>4, <2>5 DEF SafeAt, Ancestors
<1>3. ASSUME t \notin a, \A s \in Tables : <<t, s>> \in mounts => SafeAt(Ancestors(a, t, s), s)
      PROVE  SafeAt(a, t)
  <2>1. ASSUME NEW v \in MountedBelow(t)
        PROVE  v \notin a /\ v # t /\ v \notin MountedBelow(v)
    <3>1. PICK s \in Tables : <<t, s>> \in mounts /\ v \in Reach(s)
      BY <2>1, MountedBelowSplits
    <3>2. SafeAt(a \union {t}, s)
      BY <1>3, <3>1 DEF Ancestors
    <3> QED
      BY <3>1, <3>2 DEF SafeAt
  <2> QED
    BY <1>3, <2>1 DEF SafeAt, Reach
<1> QED
  BY <1>1, <1>2, <1>3

LEMMA SafeSolves == Safe = BuildStep(Safe)
<1>1. ASSUME NEW a \in SUBSET Tables, NEW t \in Tables
      PROVE  SafeAt(a, t) <=> /\ t \notin a
                              /\ \A s \in Tables : <<t, s>> \in mounts => Safe[Ancestors(a, t, s)][s]
  <2>1. ASSUME NEW s \in Tables
        PROVE  Safe[Ancestors(a, t, s)][s] = SafeAt(Ancestors(a, t, s), s)
    <3>1. Ancestors(a, t, s) \in SUBSET Tables
      BY DEF Ancestors
    <3> QED
      BY <3>1, Zenon DEF Safe
  <2> QED
    BY <2>1, SafeStep, Zenon
<1> DEFINE step(a, t) == /\ t \notin a
                         /\ \A s \in Tables : <<t, s>> \in mounts => Safe[Ancestors(a, t, s)][s]
<1>2. \A a \in SUBSET Tables, t \in Tables : SafeAt(a, t) = step(a, t)
  BY <1>1 DEF SafeAt
<1> HIDE DEF step
<1>3. \A a \in SUBSET Tables : [t \in Tables |-> SafeAt(a, t)] = [t \in Tables |-> step(a, t)]
  BY <1>2, Zenon
<1>4. [a \in SUBSET Tables |-> [t \in Tables |-> SafeAt(a, t)]] = [a \in SUBSET Tables |-> [t \in Tables |-> step(a, t)]]
  BY <1>3, Zenon
<1> QED
  BY <1>4, Zenon DEF Safe, BuildStep, step

LEMMA BuildsSolves == builds = BuildStep(builds)
  BY SafeSolves, Zenon DEF builds, BuildStep

\* Build is determined by its own calls: the path grows with every call, and
\* there are finitely many tables.
LEMMA BuildUnique ==
  ASSUME NEW f, f = BuildStep(f), NEW g, g = BuildStep(g),
         NEW a \in SUBSET Tables, NEW t \in Tables
  PROVE  f[a][t] = g[a][t]
<1> DEFINE Differ == {B \in SUBSET Tables : \E u \in Tables : f[Tables \ B][u] # g[Tables \ B][u]}
<1>1. SUFFICES ASSUME Differ # {}
               PROVE  FALSE
  <2>1. Tables \ a \in SUBSET Tables /\ Tables \ (Tables \ a) = a
    OBVIOUS
  <2> QED
    BY <1>1, <2>1
<1>2. IsWellFoundedOn(StrictSubsetOrdering(Tables), SUBSET Tables)
  BY RegistryAssumption, FS_StrictSubsetOrderingWellFounded, FS_FiniteSubsetsOfFinite
<1>3. Differ \subseteq SUBSET Tables
  OBVIOUS
<1>4. PICK B \in Differ : \A D \in Differ : <<D, B>> \notin StrictSubsetOrdering(Tables)
  <2> HIDE DEF Differ
  <2> QED
    BY <1>1, <1>2, <1>3, WFMin
<1> DEFINE path == Tables \ B
<1>5. B \in SUBSET Tables /\ path \in SUBSET Tables
  BY <1>4
<1>6. PICK u \in Tables : f[path][u] # g[path][u]
  BY <1>4
<1> DEFINE step(h, x) == /\ x \notin path
                         /\ \A s \in Tables : <<x, s>> \in mounts => h[Ancestors(path, x, s)][s]
<1>7. f[path][u] = step(f, u) /\ g[path][u] = step(g, u)
  <2>1. /\ BuildStep(f)[path] = [x \in Tables |-> step(f, x)]
        /\ BuildStep(g)[path] = [x \in Tables |-> step(g, x)]
    BY <1>5, Zenon DEF BuildStep
  <2> HIDE DEF step, path
  <2>2. BuildStep(f)[path][u] = step(f, u) /\ BuildStep(g)[path][u] = step(g, u)
    BY <2>1, Zenon
  <2> QED
    BY <2>2, Zenon
<1>8. ASSUME u \notin path, NEW s \in Tables
      PROVE  f[Ancestors(path, u, s)][s] = g[Ancestors(path, u, s)][s]
  <2> DEFINE D == B \ {u}
  <2>1. D \in SUBSET Tables /\ D \subseteq B /\ D # B /\ Tables \ D = Ancestors(path, u, s)
    BY <1>5, <1>8 DEF Ancestors
  <2>2. <<D, B>> \in StrictSubsetOrdering(Tables)
    BY <1>5, <2>1 DEF StrictSubsetOrdering
  <2> HIDE DEF D
  <2>3. D \notin Differ
    BY <1>4, <2>2
  <2>4. f[Tables \ D][s] = g[Tables \ D][s]
    BY <2>1, <2>3
  <2> QED
    BY <2>1, <2>4
<1>9. step(f, u) = step(g, u)
  BY <1>8, Zenon
<1> HIDE DEF step, path
<1> QED
  BY <1>6, <1>7, <1>9, Zenon

\* BuildIffAcyclic for every set of tables and every way to mount them, in
\* whatever state the registry is.
THEOREM RegistryBuildIffAcyclic == RegistrySpec => []BuildIffAcyclic
<1>1. BuildIffAcyclic
  <2> SUFFICES ASSUME NEW t \in Tables
               PROVE  builds[{}][t] <=> \A s \in MountedBelow(t) \union {t} : s \notin MountedBelow(s)
    BY DEF BuildIffAcyclic
  <2>1. {} \in SUBSET Tables
    OBVIOUS
  <2>2. builds[{}][t] = Safe[{}][t]
    BY <2>1, BuildsSolves, SafeSolves, BuildUnique
  <2>3. Safe[{}][t] = SafeAt({}, t)
    BY <2>1, Zenon DEF Safe
  <2>4. SafeAt({}, t) <=> \A s \in MountedBelow(t) \union {t} : s \notin MountedBelow(s)
    BY DEF SafeAt, Reach
  <2> QED
    BY <2>2, <2>3, <2>4, Zenon
<1> QED
  BY <1>1, PTL
=============================================================================
