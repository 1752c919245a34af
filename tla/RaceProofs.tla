----------------------------- MODULE RaceProofs -----------------------------
(***************************************************************************)
(* FirstSuccessfulPayload for any number of handlers and any results, then *)
(* execution.Race for any number of workers and plans: the invariant of    *)
(* the group holds around any handler, so also around a worker, and Race   *)
(* implements such a group.                                                *)
(***************************************************************************)
EXTENDS Race, SequenceTheorems, TLAPS

-----------------------------------------------------------------------------
(* FirstSuccessfulPayload around any handlers *)

\* The branches whose result is in the channel.
Queued == {results[i] : i \in DOMAIN results}

GroupTypeOK ==
    /\ parent \in BOOLEAN /\ cancelled \subseteq Branches
    /\ bpc \in [Branches -> {"idle", "new", "running", "sent"}]
    /\ outcome \in [Branches -> Outcome]
    /\ results \in Seq(Branches) /\ chanClosed \in BOOLEAN
    /\ life \in [Branches -> {"nil", "open", "closed"}] /\ hook \subseteq Branches
    /\ pc \in {"idle", "read", "release", "returned"}
    /\ ret \in 0..Invalid /\ cursor \in 1..(N + 1)
    /\ drainer \in {"none", "draining", "done"}

Distinct(s) == \A i, j \in DOMAIN s : s[i] = s[j] => i = j

\* Each result is in the channel at most once, after its branch has ended.
ChannelInv ==
    /\ Distinct(results)
    /\ \A b \in Queued : bpc[b] = "sent"
    /\ chanClosed => \A b \in Branches : bpc[b] = "sent"

\* What the collector returns is out of the channel, and what it read before
\* did not win.
CollectorInv ==
    /\ pc = "idle" => bpc = [b \in Branches |-> "idle"]
    /\ pc \in {"idle", "read"} <=> ret = Pending
    /\ pc = "read" => \A b \in Branches : bpc[b] = "sent" /\ Wins(outcome[b]) => b \in Queued
    /\ ret \in Branches => bpc[ret] = "sent" /\ ret \notin Queued /\ Wins(outcome[ret])
    /\ ret = NoneWon => chanClosed /\ \A b \in Branches : ~Wins(outcome[b])

\* The contexts the release loop has passed are cancelled, the winner's is not
\* before its resource is closed.
ReleaseInv ==
    /\ pc \in {"idle", "read"} => cancelled = {} /\ hook = {} /\ cursor = 1
    /\ hook \subseteq {ret}
    /\ pc = "release" => \A b \in 1..(cursor - 1) : b \in cancelled \/ Winner(b)
    /\ pc = "returned" /\ drainer # "none" => \A b \in Branches : b \in cancelled \/ Winner(b)
    /\ \A b \in Branches : Winner(b) /\ life[b] = "open" => b \notin cancelled

\* An open resource is in the channel or with the winner; the drainer leaves
\* nothing.
OpenInv ==
    /\ \A b \in Branches : life[b] = "open" => b \in Queued \/ ret = b
    /\ drainer # "none" => pc = "returned"
    /\ pc = "returned" /\ drainer = "none" => bpc = [b \in Branches |-> "idle"]
    /\ drainer = "done" => chanClosed /\ results = <<>>

GroupInv == GroupTypeOK /\ ChannelInv /\ CollectorInv /\ ReleaseInv /\ OpenInv

\* The steps of a group whose handlers may return anything.
GroupNext ==
    \/ Start \/ StartRefused \/ Collect \/ CloseResults \/ Drain \/ EndDrain \/ CancelParent
    \/ \E b \in Branches :
        Enter(b) \/ Refuse(b) \/ (\E o \in Outcome : Deliver(b, o)) \/ OwnerClose(b) \/ RunHook(b)

-----------------------------------------------------------------------------
(* The channel *)

LEMMA Sent ==
    ASSUME results \in Seq(Branches), NEW b \in Branches, results' = Append(results, b)
    PROVE /\ results' \in Seq(Branches) /\ Queued' = Queued \union {b}
          /\ Distinct(results) /\ b \notin Queued => Distinct(results')
<1>1. Len(results) \in Nat /\ DOMAIN results = 1..Len(results)
    BY LenProperties
<1>2. /\ results' \in Seq(Branches) /\ Len(results') = Len(results) + 1
      /\ results'[Len(results) + 1] = b /\ \A i \in 1..Len(results) : results'[i] = results[i]
      /\ DOMAIN results' = 1..Len(results')
    BY AppendProperties, LenProperties
<1>3. Queued' = Queued \union {b}
    BY <1>1, <1>2 DEF Queued
<1>4. Distinct(results) /\ b \notin Queued => Distinct(results')
    BY <1>1, <1>2 DEF Queued, Distinct
<1> QED BY <1>2, <1>3, <1>4

LEMMA Received ==
    ASSUME results \in Seq(Branches), results # <<>>, Distinct(results), results' = Tail(results)
    PROVE /\ Head(results) \in Queued /\ Head(results) \in Branches
          /\ results' \in Seq(Branches) /\ Queued' = Queued \ {Head(results)} /\ Distinct(results')
<1>1. Len(results) \in Nat \ {0} /\ DOMAIN results = 1..Len(results)
    BY LenProperties, EmptySeq
<1>2. /\ results' \in Seq(Branches) /\ Len(results') = Len(results) - 1
      /\ Head(results) = results[1] /\ results[1] \in Branches
      /\ \A i \in 1..(Len(results) - 1) : results'[i] = results[i + 1]
      /\ DOMAIN results' = 1..Len(results')
    BY <1>1, HeadTailProperties, LenProperties, ElementOfSeq
<1>3. Distinct(results')
    BY <1>1, <1>2 DEF Distinct
<1>4. Head(results) \in Queued
    BY <1>1, <1>2 DEF Queued
<1>5. Queued' = Queued \ {Head(results)}
    <2>1. ASSUME NEW b \in Queued' PROVE b \in Queued /\ b # Head(results)
        BY <1>1, <1>2 DEF Queued, Distinct
    <2>2. ASSUME NEW b \in Queued, b # Head(results) PROVE b \in Queued'
        <3>1. PICK i \in 2..Len(results) : b = results[i]
            BY <1>1, <1>2, <2>2 DEF Queued
        <3>2. i - 1 \in 1..(Len(results) - 1) /\ results'[i - 1] = results[i]
            BY <1>1, <1>2, <3>1
        <3> QED BY <1>1, <1>2, <3>1, <3>2 DEF Queued
    <2> QED BY <2>1, <2>2
<1> QED BY <1>2, <1>3, <1>4, <1>5

LEMMA QueuedBranches == results \in Seq(Branches) => Queued \subseteq Branches
BY ElementOfSeq, LenProperties DEF Queued

LEMMA NoResults == results = <<>> => Queued = {}
BY EmptySeq DEF Queued

LEMMA Numbers ==
    /\ N \in Nat \ {0} /\ Branches = 1..N
    /\ Pending \notin Branches /\ NoneWon \notin Branches /\ Aborted \notin Branches /\ Invalid \notin Branches
    /\ Pending # NoneWon /\ Pending # Aborted /\ NoneWon # Aborted /\ NoneWon # Invalid /\ Aborted # Invalid
    /\ Branches \subseteq 0..Invalid /\ Pending \in 0..Invalid /\ NoneWon \in 0..Invalid
    /\ Aborted \in 0..Invalid /\ Invalid \in 0..Invalid /\ Pending # Invalid
BY FirstSuccessfulAssumption DEF Branches, Pending, NoneWon, Aborted, Invalid

LEMMA RefusedOutcome == Refused \in Outcome /\ ~Wins(Refused) /\ ~Refused.owned
BY DEF Refused, Outcome, Wins, Actions

-----------------------------------------------------------------------------
(* The steps of the group *)

LEMMA GroupInitInv == Init => GroupInv
<1> SUFFICES ASSUME Init PROVE GroupInv
    OBVIOUS
<1>1. GroupTypeOK
    <2>1. <<>> \in Seq(Branches) /\ 1 \in 1..(N + 1)
        BY Numbers
    <2> QED BY <2>1, Numbers, RefusedOutcome DEF Init, GroupTypeOK
<1>2. Queued = {} /\ DOMAIN results = {}
    BY NoResults DEF Init
<1>3. ChannelInv
    BY <1>2 DEF Init, ChannelInv, Distinct
<1>4. CollectorInv /\ ReleaseInv /\ OpenInv
    BY <1>2, Numbers DEF Init, CollectorInv, ReleaseInv, OpenInv, Winner
<1> QED BY <1>1, <1>3, <1>4 DEF GroupInv

\* The call starts, or is refused.
LEMMA StartGroup == ASSUME GroupInv, Start \/ StartRefused PROVE GroupInv'
<1> USE DEF GroupInv
<1>0. /\ pc = "idle" /\ ret = Pending /\ bpc = [b \in Branches |-> "idle"]
      /\ UNCHANGED <<parent, cancelled, outcome, results, chanClosed, life, hook, cursor, drainer>>
    BY DEF Start, StartRefused, CollectorInv, branchVars
<1>1. Queued' = Queued /\ Queued = {} /\ drainer = "none" /\ ~chanClosed
    <2>1. Queued' = Queued
        BY <1>0 DEF Queued
    <2>2. Queued = {}
        BY <1>0, QueuedBranches DEF ChannelInv, GroupTypeOK
    <2>3. 1 \in Branches
        BY Numbers
    <2> QED BY <1>0, <2>1, <2>2, <2>3 DEF ChannelInv, OpenInv
<1>2. CASE Start
    <2>1. bpc' = [b \in Branches |-> "new"] /\ pc' = "read" /\ ret' = ret
        BY <1>2 DEF Start
    <2>2. GroupTypeOK'
        BY <1>0, <2>1 DEF GroupTypeOK
    <2>3. ChannelInv'
        BY <1>0, <1>1, <2>1 DEF ChannelInv
    <2>4. CollectorInv'
        BY <1>0, <1>1, <2>1, Numbers DEF CollectorInv
    <2>5. ReleaseInv' /\ OpenInv'
        BY <1>0, <1>1, <2>1 DEF ReleaseInv, OpenInv, Winner
    <2> QED BY <2>2, <2>3, <2>4, <2>5
<1>3. CASE StartRefused
    <2>1. bpc' = bpc /\ pc' = "returned" /\ ret' = Aborted
        BY <1>3 DEF StartRefused, branchVars
    <2>2. GroupTypeOK'
        BY <1>0, <2>1, Numbers DEF GroupTypeOK
    <2>3. ChannelInv'
        BY <1>0, <1>1, <2>1 DEF ChannelInv
    <2>4. CollectorInv'
        BY <1>0, <1>1, <2>1, Numbers DEF CollectorInv
    <2>5. ReleaseInv' /\ OpenInv'
        BY <1>0, <1>1, <2>1, Numbers DEF ReleaseInv, OpenInv, Winner
    <2> QED BY <2>2, <2>3, <2>4, <2>5
<1> QED BY <1>2, <1>3

LEMMA EnterGroup == ASSUME GroupInv, NEW b \in Branches, Enter(b) PROVE GroupInv'
<1> USE DEF GroupInv
<1>0. /\ bpc[b] = "new" /\ bpc' = [bpc EXCEPT ![b] = "running"] /\ bpc \in [Branches -> {"idle", "new", "running", "sent"}]
      /\ UNCHANGED <<parent, cancelled, outcome, results, chanClosed, life, hook, pc, ret, cursor, drainer>>
    BY DEF Enter, GroupTypeOK, collectorVars
<1>1. Queued' = Queued /\ \A c \in Branches : bpc[c] = "sent" <=> bpc'[c] = "sent"
    BY <1>0 DEF Queued
<1>2. pc # "idle" /\ ~(pc = "returned" /\ drainer = "none")
    BY <1>0 DEF CollectorInv, OpenInv
<1>3. GroupTypeOK'
    BY <1>0 DEF GroupTypeOK
<1>4. ChannelInv'
    BY <1>0, <1>1, QueuedBranches DEF GroupTypeOK, ChannelInv
<1>5. CollectorInv'
    BY <1>0, <1>1, <1>2 DEF CollectorInv
<1>6. ReleaseInv'
    BY <1>0 DEF ReleaseInv, Winner
<1>7. OpenInv'
    BY <1>0, <1>1, <1>2 DEF OpenInv
<1> QED BY <1>3, <1>4, <1>5, <1>6, <1>7

\* A branch ends, with whatever result, and whoever waits for it.
LEMMA EndGroup ==
    ASSUME GroupInv, NEW b \in Branches, bpc[b] \in {"new", "running"}, NEW o \in Outcome,
           bpc' = [bpc EXCEPT ![b] = "sent"], outcome' = [outcome EXCEPT ![b] = o],
           results' = Append(results, b),
           life' \in [Branches -> {"nil", "open", "closed"}], \A c \in Branches \ {b} : life'[c] = life[c],
           UNCHANGED <<parent, cancelled, chanClosed, hook, collectorVars>>
    PROVE GroupInv'
<1> USE DEF GroupInv
<1>0. /\ bpc \in [Branches -> {"idle", "new", "running", "sent"}] /\ outcome \in [Branches -> Outcome]
      /\ UNCHANGED <<pc, ret, cursor, drainer>> /\ results \in Seq(Branches)
    BY DEF GroupTypeOK, collectorVars
<1>1. b \notin Queued /\ ret # b /\ ~chanClosed /\ pc # "idle" /\ ~(pc = "returned" /\ drainer = "none")
    BY <1>0 DEF ChannelInv, CollectorInv, OpenInv
<1>2. results' \in Seq(Branches) /\ Queued' = Queued \union {b} /\ Distinct(results')
    BY <1>0, <1>1, Sent DEF ChannelInv
<1>3. \A c \in Branches \ {b} : bpc'[c] = bpc[c] /\ outcome'[c] = outcome[c]
    BY <1>0
<1>4. bpc'[b] = "sent" /\ outcome'[b] = o
    BY <1>0
<1>5. GroupTypeOK'
    BY <1>0, <1>2 DEF GroupTypeOK
<1>6. ChannelInv'
    BY <1>0, <1>1, <1>2, <1>3, <1>4, QueuedBranches DEF ChannelInv
<1>7. CollectorInv'
    BY <1>0, <1>1, <1>2, <1>3, <1>4 DEF CollectorInv
<1>8. ReleaseInv'
    <2>1. \A c \in Branches : Winner(c)' <=> Winner(c)
        BY <1>0, <1>1, <1>3 DEF Winner
    <2>2. \A c \in Branches : Winner(c) => life'[c] = life[c]
        BY <1>1 DEF Winner
    <2>3. pc = "release" => 1..(cursor - 1) \subseteq Branches
        BY Numbers DEF GroupTypeOK
    <2> QED BY <1>0, <2>1, <2>2, <2>3 DEF ReleaseInv
<1>9. OpenInv'
    BY <1>0, <1>1, <1>2, <1>3 DEF OpenInv
<1> QED BY <1>5, <1>6, <1>7, <1>8, <1>9

LEMMA RefuseGroup == ASSUME GroupInv, NEW b \in Branches, Refuse(b) PROVE GroupInv'
<1>1. /\ bpc[b] = "new" /\ life' = life /\ life \in [Branches -> {"nil", "open", "closed"}]
      /\ bpc' = [bpc EXCEPT ![b] = "sent"] /\ outcome' = [outcome EXCEPT ![b] = Refused]
      /\ results' = Append(results, b) /\ UNCHANGED <<parent, cancelled, chanClosed, hook, collectorVars>>
    BY DEF Refuse, GroupInv, GroupTypeOK
<1> QED BY <1>1, RefusedOutcome, EndGroup

LEMMA DeliverGroup == ASSUME GroupInv, NEW b \in Branches, NEW o \in Outcome, Deliver(b, o) PROVE GroupInv'
<1>1. /\ bpc[b] = "running" /\ life' = [life EXCEPT ![b] = IF o.owned THEN "open" ELSE "nil"]
      /\ life \in [Branches -> {"nil", "open", "closed"}]
      /\ bpc' = [bpc EXCEPT ![b] = "sent"] /\ outcome' = [outcome EXCEPT ![b] = o]
      /\ results' = Append(results, b) /\ UNCHANGED <<parent, cancelled, chanClosed, hook, collectorVars>>
    BY DEF Deliver, GroupInv, GroupTypeOK
<1>2. life' \in [Branches -> {"nil", "open", "closed"}] /\ \A c \in Branches \ {b} : life'[c] = life[c]
    BY <1>1
<1> QED BY <1>1, <1>2, EndGroup

\* The collector leaves its loop, with nothing taken from the channel.
LEMMA ReturnGroup == ASSUME GroupInv, SeeCancel \/ Exhaust PROVE GroupInv'
<1> USE DEF GroupInv
<1>0. /\ pc = "read" /\ pc' = "release" /\ cursor = 1 /\ ret = Pending
      /\ UNCHANGED <<parent, cancelled, bpc, outcome, results, chanClosed, life, hook, cursor, drainer>>
    BY DEF SeeCancel, Exhaust, Return, branchVars, ReleaseInv, CollectorInv
<1>1. Queued' = Queued /\ \A b \in Branches : ~Winner(b)
    BY <1>0, Numbers DEF Queued, Winner
<1>2. ret' \in 0..Invalid /\ ret' \notin Branches /\ ret' # Pending /\ hook' = {}
    BY <1>0, Numbers DEF SeeCancel, Exhaust, Return, ReleaseInv
<1>3. ret' = NoneWon => chanClosed /\ \A b \in Branches : ~Wins(outcome[b])
    <2>1. CASE SeeCancel
        BY <2>1, Numbers DEF SeeCancel, Return
    <2>2. CASE Exhaust
        BY <1>0, <2>2, NoResults DEF Exhaust, ChannelInv, CollectorInv
    <2> QED BY <2>1, <2>2
<1>4. GroupTypeOK'
    BY <1>0, <1>2 DEF GroupTypeOK
<1>5. ChannelInv'
    BY <1>0, <1>1 DEF ChannelInv
<1>6. CollectorInv'
    BY <1>0, <1>2, <1>3 DEF CollectorInv
<1>7. ReleaseInv'
    BY <1>0, <1>1, <1>2 DEF ReleaseInv, Winner
<1>8. OpenInv'
    BY <1>0, <1>1, Numbers DEF OpenInv
<1> QED BY <1>4, <1>5, <1>6, <1>7, <1>8

LEMMA ClosedLife ==
    ASSUME life \in [Branches -> {"nil", "open", "closed"}], NEW b \in Branches, life' = Closed(b)
    PROVE /\ life' \in [Branches -> {"nil", "open", "closed"}] /\ life'[b] # "open"
          /\ \A c \in Branches \ {b} : life'[c] = life[c]
BY DEF Closed

\* A result is taken from the channel and closed: the collector reads on or
\* returns, or it is the drainer.
LEMMA CloseGroup == ASSUME GroupInv, Discard \/ Reject \/ Drain PROVE GroupInv'
<1> USE DEF GroupInv
<1> DEFINE b == Head(results)
<1>0. /\ results # <<>> /\ results' = Tail(results) /\ life' = Closed(b)
      /\ pc \in {"read", "returned"} /\ (pc = "returned" => drainer = "draining")
      /\ UNCHANGED <<parent, cancelled, bpc, outcome, chanClosed, hook, cursor, drainer>>
    BY DEF Discard, Reject, Drain, Return, branchVars, collectorVars, OpenInv
<1>1. /\ b \in Queued /\ b \in Branches /\ results' \in Seq(Branches)
      /\ Queued' = Queued \ {b} /\ Distinct(results')
    BY <1>0, Received DEF GroupTypeOK, ChannelInv
<1>2. life' \in [Branches -> {"nil", "open", "closed"}] /\ life'[b] # "open"
      /\ \A c \in Branches \ {b} : life'[c] = life[c]
    BY <1>0, <1>1, ClosedLife DEF GroupTypeOK
<1>3. ret # b /\ (pc = "read" => ~Wins(outcome[b]))
    <2>1. ret # b
        BY <1>1 DEF CollectorInv
    <2>2. pc = "read" => Discard \/ Reject
        BY DEF Drain, OpenInv
    <2> QED BY <2>1, <2>2 DEF Discard, Reject, Wins
<1> HIDE DEF b
<1>4. (pc' = pc /\ ret' = ret) \/ (pc = "read" /\ pc' = "release" /\ ret' = Invalid)
    BY DEF Discard, Reject, Drain, Return, collectorVars
<1>5. GroupTypeOK'
    BY <1>0, <1>1, <1>2, <1>4, Numbers DEF GroupTypeOK
<1>6. ChannelInv'
    BY <1>0, <1>1 DEF ChannelInv
<1>7. CollectorInv'
    BY <1>0, <1>1, <1>3, <1>4, Numbers DEF CollectorInv
<1>8. ReleaseInv'
    <2>1. pc = "read" => hook = {} /\ cancelled = {} /\ cursor = 1 /\ ret = Pending
        BY DEF ReleaseInv, CollectorInv
    <2>2. CASE pc' = pc /\ ret' = ret
        BY <1>0, <1>2, <1>3, <2>2 DEF ReleaseInv, Winner
    <2>3. CASE pc = "read" /\ pc' = "release" /\ ret' = Invalid
        BY <1>0, <2>1, <2>3, Numbers DEF ReleaseInv, Winner
    <2> QED BY <1>4, <2>2, <2>3
<1>9. OpenInv'
    <2>1. \A c \in Branches : life'[c] = "open" => c \in Queued' \/ ret' = c
        BY <1>1, <1>2, <1>4, Numbers DEF OpenInv, CollectorInv
    <2>2. drainer = "draining" \/ drainer = "none"
        BY <1>0 DEF OpenInv
    <2> QED BY <1>0, <1>4, <2>1, <2>2 DEF OpenInv
<1> QED BY <1>5, <1>6, <1>7, <1>8, <1>9

LEMMA AcceptGroup == ASSUME GroupInv, Accept PROVE GroupInv'
<1> USE DEF GroupInv
<1> DEFINE b == Head(results)
<1>0. /\ pc = "read" /\ pc' = "release" /\ ret' = b /\ Wins(outcome[b])
      /\ results # <<>> /\ results' = Tail(results)
      /\ hook' = hook \union (IF outcome[b].owned THEN {b} ELSE {})
      /\ UNCHANGED <<parent, cancelled, bpc, outcome, chanClosed, life, cursor, drainer>>
    BY DEF Accept, Return, branchVars
<1>1. /\ b \in Queued /\ b \in Branches /\ results' \in Seq(Branches)
      /\ Queued' = Queued \ {b} /\ Distinct(results')
    BY <1>0, Received DEF GroupTypeOK, ChannelInv
<1> HIDE DEF b
<1>2. hook = {} /\ cancelled = {} /\ cursor = 1 /\ ret = Pending /\ drainer = "none"
    BY <1>0 DEF ReleaseInv, CollectorInv, OpenInv
<1>3. GroupTypeOK'
    BY <1>0, <1>1, Numbers DEF GroupTypeOK
<1>4. ChannelInv'
    BY <1>0, <1>1 DEF ChannelInv
<1>5. CollectorInv'
    BY <1>0, <1>1, Numbers DEF CollectorInv, ChannelInv
<1>6. ReleaseInv'
    BY <1>0, <1>1, <1>2 DEF ReleaseInv
<1>7. OpenInv'
    BY <1>0, <1>1, <1>2, Numbers DEF OpenInv
<1> QED BY <1>3, <1>4, <1>5, <1>6, <1>7

\* One iteration of the release loop, then the end of the call.
LEMMA ReleaseGroup == ASSUME GroupInv, Release PROVE GroupInv'
<1> USE DEF GroupInv
<1>0. /\ pc = "release" /\ cursor <= N /\ cursor' = cursor + 1
      /\ cancelled' = IF Winner(cursor) THEN cancelled ELSE cancelled \union {cursor}
      /\ UNCHANGED <<parent, bpc, outcome, results, chanClosed, life, hook, pc, ret, drainer>>
    BY DEF Release, branchVars
<1>1. Queued' = Queued /\ \A b \in Branches : Winner(b)' <=> Winner(b)
    BY <1>0 DEF Queued, Winner
<1>2. cursor \in Branches /\ cursor' \in 1..(N + 1) /\ 1..(cursor' - 1) = 1..(cursor - 1) \union {cursor}
    BY <1>0, Numbers DEF GroupTypeOK
<1>3. GroupTypeOK'
    BY <1>0, <1>2 DEF GroupTypeOK
<1>4. ChannelInv'
    BY <1>0, <1>1 DEF ChannelInv
<1>5. CollectorInv'
    BY <1>0, <1>1 DEF CollectorInv
<1>6. ReleaseInv'
    <2>1. 1..(cursor - 1) \subseteq Branches
        BY <1>0, Numbers DEF GroupTypeOK
    <2>2. \A b \in 1..(cursor' - 1) : b \in cancelled' \/ Winner(b)'
        BY <1>0, <1>1, <1>2, <2>1 DEF ReleaseInv
    <2>3. \A b \in Branches : Winner(b)' /\ life'[b] = "open" => b \notin cancelled'
        BY <1>0, <1>1, <1>2 DEF ReleaseInv
    <2> QED BY <1>0, <2>2, <2>3 DEF ReleaseInv
<1>7. OpenInv'
    BY <1>0, <1>1 DEF OpenInv
<1> QED BY <1>3, <1>4, <1>5, <1>6, <1>7

LEMMA LeaveGroup == ASSUME GroupInv, Leave PROVE GroupInv'
<1> USE DEF GroupInv
<1>0. /\ pc = "release" /\ cursor > N /\ pc' = "returned" /\ drainer' = "draining"
      /\ UNCHANGED <<parent, cancelled, bpc, outcome, results, chanClosed, life, hook, ret, cursor>>
    BY DEF Leave, branchVars
<1>1. Queued' = Queued /\ \A b \in Branches : Winner(b)' <=> Winner(b)
    BY <1>0 DEF Queued, Winner
<1>2. 1..(cursor - 1) = Branches
    BY <1>0, Numbers DEF GroupTypeOK
<1>3. GroupTypeOK'
    BY <1>0 DEF GroupTypeOK
<1>4. ChannelInv' /\ CollectorInv'
    BY <1>0, <1>1 DEF ChannelInv, CollectorInv
<1>5. ReleaseInv'
    BY <1>0, <1>1, <1>2 DEF ReleaseInv
<1>6. OpenInv'
    BY <1>0, <1>1 DEF OpenInv
<1> QED BY <1>3, <1>4, <1>5, <1>6

LEMMA EndsGroup == ASSUME GroupInv, CloseResults \/ EndDrain PROVE GroupInv'
<1> USE DEF GroupInv
<1>0. UNCHANGED <<parent, cancelled, bpc, outcome, results, life, hook, pc, ret, cursor>>
    BY DEF CloseResults, EndDrain, branchVars, collectorVars
<1>1. Queued' = Queued /\ \A b \in Branches : Winner(b)' <=> Winner(b)
    BY <1>0 DEF Queued, Winner
<1>2. CASE CloseResults
    <2>1. (\A b \in Branches : bpc[b] = "sent") /\ chanClosed' = TRUE /\ drainer' = drainer
        BY <1>2 DEF CloseResults, collectorVars
    <2>2. GroupTypeOK' /\ ChannelInv'
        BY <1>0, <1>1, <2>1 DEF GroupTypeOK, ChannelInv
    <2>3. CollectorInv' /\ OpenInv'
        BY <1>0, <1>1, <2>1 DEF CollectorInv, OpenInv
    <2>4. ReleaseInv'
        <3>1. pc = "release" => 1..(cursor - 1) \subseteq Branches
            BY Numbers DEF GroupTypeOK
        <3> QED BY <1>0, <1>1, <2>1, <3>1 DEF ReleaseInv
    <2> QED BY <2>2, <2>3, <2>4
<1>3. CASE EndDrain
    <2>1. /\ drainer = "draining" /\ drainer' = "done" /\ chanClosed /\ results = <<>> /\ chanClosed' = chanClosed
        BY <1>3 DEF EndDrain
    <2> QED BY <1>0, <1>1, <2>1 DEF GroupTypeOK, ChannelInv, CollectorInv, ReleaseInv, OpenInv
<1> QED BY <1>2, <1>3

\* The caller closes its result, and the attached cancel runs.
LEMMA OwnerGroup == ASSUME GroupInv, NEW b \in Branches, OwnerClose(b) PROVE GroupInv'
<1> USE DEF GroupInv
<1>0. /\ ret = b /\ life' = Closed(b)
      /\ UNCHANGED <<parent, cancelled, bpc, outcome, results, chanClosed, hook, pc, ret, cursor, drainer>>
    BY DEF OwnerClose, branchVars, collectorVars
<1>1. Queued' = Queued /\ \A c \in Branches : Winner(c)' <=> Winner(c)
    BY <1>0 DEF Queued, Winner
<1>2. life' \in [Branches -> {"nil", "open", "closed"}] /\ life'[b] # "open"
      /\ \A c \in Branches \ {b} : life'[c] = life[c]
    BY <1>0, ClosedLife DEF GroupTypeOK
<1>3. GroupTypeOK'
    BY <1>0, <1>2 DEF GroupTypeOK
<1>4. ChannelInv' /\ CollectorInv'
    BY <1>0, <1>1 DEF ChannelInv, CollectorInv
<1>5. ReleaseInv'
    <2>1. pc = "release" => 1..(cursor - 1) \subseteq Branches
        BY Numbers DEF GroupTypeOK
    <2> QED BY <1>0, <1>1, <1>2, <2>1 DEF ReleaseInv
<1>6. OpenInv'
    BY <1>0, <1>1, <1>2 DEF OpenInv
<1> QED BY <1>3, <1>4, <1>5, <1>6

LEMMA HookGroup == ASSUME GroupInv, NEW b \in Branches, RunHook(b) PROVE GroupInv'
<1> USE DEF GroupInv
<1>0. /\ b \in hook /\ life[b] = "closed" /\ hook' = hook \ {b} /\ cancelled' = cancelled \union {b}
      /\ UNCHANGED <<parent, bpc, outcome, results, chanClosed, life, pc, ret, cursor, drainer>>
    BY DEF RunHook, branchVars, collectorVars
<1>1. Queued' = Queued /\ \A c \in Branches : Winner(c)' <=> Winner(c)
    BY <1>0 DEF Queued, Winner
<1>2. pc \notin {"idle", "read"}
    BY <1>0 DEF ReleaseInv
<1>3. GroupTypeOK'
    BY <1>0 DEF GroupTypeOK
<1>4. ChannelInv' /\ CollectorInv'
    BY <1>0, <1>1 DEF ChannelInv, CollectorInv
<1>5. ReleaseInv'
    <2>1. pc = "release" => 1..(cursor - 1) \subseteq Branches
        BY Numbers DEF GroupTypeOK
    <2> QED BY <1>0, <1>1, <1>2, <2>1 DEF ReleaseInv
<1>6. OpenInv'
    BY <1>0, <1>1 DEF OpenInv
<1> QED BY <1>3, <1>4, <1>5, <1>6

LEMMA ParentGroup == ASSUME GroupInv, CancelParent \/ UNCHANGED vars PROVE GroupInv'
<1> USE DEF GroupInv
<1>0. /\ UNCHANGED <<cancelled, bpc, outcome, results, chanClosed, life, hook, pc, ret, cursor, drainer>>
      /\ parent' = TRUE \/ parent' = parent
    BY DEF CancelParent, vars, branchVars, collectorVars
<1>1. Queued' = Queued /\ \A c \in Branches : Winner(c)' <=> Winner(c)
    BY <1>0 DEF Queued, Winner
<1>2. GroupTypeOK'
    BY <1>0 DEF GroupTypeOK
<1>3. ChannelInv' /\ CollectorInv'
    BY <1>0, <1>1 DEF ChannelInv, CollectorInv
<1>4. ReleaseInv' /\ OpenInv'
    <2>1. pc = "release" => 1..(cursor - 1) \subseteq Branches
        BY Numbers DEF GroupTypeOK
    <2> QED BY <1>0, <1>1, <2>1 DEF ReleaseInv, OpenInv
<1> QED BY <1>2, <1>3, <1>4

LEMMA GroupStepInv == GroupInv /\ [GroupNext]_vars => GroupInv'
<1> SUFFICES ASSUME GroupInv, [GroupNext]_vars PROVE GroupInv'
    OBVIOUS
<1>1. CASE Start \/ StartRefused
    BY <1>1, StartGroup
<1>2. CASE SeeCancel \/ Exhaust
    BY <1>2, ReturnGroup
<1>3. CASE Discard \/ Reject \/ Drain
    BY <1>3, CloseGroup
<1>4. CASE Accept
    BY <1>4, AcceptGroup
<1>5. CASE Release
    BY <1>5, ReleaseGroup
<1>6. CASE Leave
    BY <1>6, LeaveGroup
<1>7. CASE CloseResults \/ EndDrain
    BY <1>7, EndsGroup
<1>8. CASE CancelParent \/ UNCHANGED vars
    BY <1>8, ParentGroup
<1>9. ASSUME NEW b \in Branches,
             Enter(b) \/ Refuse(b) \/ (\E o \in Outcome : Deliver(b, o)) \/ OwnerClose(b) \/ RunHook(b)
      PROVE GroupInv'
    BY <1>9, EnterGroup, RefuseGroup, DeliverGroup, OwnerGroup, HookGroup
<1> QED BY <1>1, <1>2, <1>3, <1>4, <1>5, <1>6, <1>7, <1>8, <1>9 DEF GroupNext, Collect

LEMMA NextIsGroupNext == Next => GroupNext
BY FirstSuccessfulAssumption DEF Next, GroupNext, Finish

-----------------------------------------------------------------------------
(* What FirstSuccessfulPayload promises *)

\* The winner's resource and context in any step but its owner's Close.
LEMMA WinnerStep ==
    ASSUME GroupInv, [GroupNext]_vars, NEW b \in Branches, Winner(b), life[b] = "open", ~OwnerClose(b)
    PROVE life'[b] = "open" /\ b \notin cancelled'
<1>0. /\ ret = b /\ bpc[b] = "sent" /\ b \notin Queued /\ b \notin cancelled
      /\ pc \in {"release", "returned"} /\ ret # Pending
    BY Numbers DEF GroupInv, GroupTypeOK, CollectorInv, ReleaseInv, Winner
<1>1. CASE Discard \/ Reject \/ Drain
    <2>1. results # <<>> /\ results' = Tail(results) /\ life' = Closed(Head(results)) /\ cancelled' = cancelled
        BY <1>1 DEF Discard, Reject, Drain
    <2>2. Head(results) \in Branches /\ Head(results) # b
        BY <1>0, <2>1, Received DEF GroupInv, GroupTypeOK, ChannelInv
    <2> QED BY <1>0, <2>1, <2>2, ClosedLife DEF GroupInv, GroupTypeOK
<1>2. CASE Release
    BY <1>0, <1>2 DEF Release
<1>3. ASSUME NEW c \in Branches, OwnerClose(c) PROVE FALSE
    BY <1>0, <1>3 DEF OwnerClose
<1>4. ASSUME NEW c \in Branches, RunHook(c) PROVE life'[b] = "open" /\ b \notin cancelled'
    BY <1>0, <1>4 DEF RunHook
<1>5. ASSUME NEW c \in Branches, NEW o \in Outcome, Deliver(c, o) PROVE life'[b] = "open" /\ b \notin cancelled'
    <2>1. c # b /\ life' = [life EXCEPT ![c] = IF o.owned THEN "open" ELSE "nil"] /\ cancelled' = cancelled
        BY <1>0, <1>5 DEF Deliver
    <2> QED BY <1>0, <2>1 DEF GroupInv, GroupTypeOK
<1>6. ASSUME life' = life, cancelled' = cancelled PROVE life'[b] = "open" /\ b \notin cancelled'
    BY <1>0, <1>6
<1>7. CASE Start \/ StartRefused \/ SeeCancel \/ Exhaust \/ Accept \/ Leave \/ CloseResults \/ EndDrain \/ CancelParent
    BY <1>6, <1>7 DEF Start, StartRefused, SeeCancel, Exhaust, Accept, Leave, CloseResults, EndDrain, CancelParent
<1>8. ASSUME NEW c \in Branches, Enter(c) \/ Refuse(c) PROVE life'[b] = "open" /\ b \notin cancelled'
    BY <1>6, <1>8 DEF Enter, Refuse
<1>9. CASE UNCHANGED vars
    BY <1>6, <1>9 DEF vars
<1> QED BY <1>1, <1>2, <1>3, <1>4, <1>5, <1>7, <1>8, <1>9 DEF GroupNext, Collect

\* FirstSuccessfulPayload keeps each result in one place: in its branch, in the
\* channel, with the collector or with the caller.
THEOREM GroupSafe == Spec => []GroupInv
<1>1. Init => GroupInv
    BY GroupInitInv
<1>2. GroupInv /\ [Next]_vars => GroupInv'
    BY GroupStepInv, NextIsGroupNext
<1> QED BY <1>1, <1>2, PTL DEF Spec

\* Whatever the handlers return and in whatever order, neither the release loop
\* nor the drainer nor a late branch closes the winner or cancels its context:
\* only the caller's Close does.
THEOREM WinnerSurvives == Spec => WinnerOutlivesCall
<1>1. GroupInv /\ [Next]_vars =>
        [\A b \in Branches :
            (Winner(b) /\ life[b] = "open" /\ ~OwnerClose(b))
                => (life'[b] = "open" /\ b \notin cancelled')]_vars
    BY WinnerStep, NextIsGroupNext
<1> QED BY <1>1, GroupSafe, PTL DEF Spec, WinnerOutlivesCall

-----------------------------------------------------------------------------
(* What a call leaves behind *)

GroupSpec == Init /\ [][GroupNext]_vars

\* The context of a winner that is a resource is cancelled or will be by its Lifetime.
HookInv == \A b \in Branches : Winner(b) => b \in hook \/ b \in cancelled

\* Once the drainer has ended, so has every branch; what is open is with the
\* caller; and a context that is not cancelled is the winner's, whose cancel
\* the Lifetime that the caller owns will run.
LeavesNothing ==
    drainer = "done" => \A b \in Branches :
        /\ bpc[b] = "sent"
        /\ life[b] = "open" => ret = b
        /\ b \in cancelled \/ (Winner(b) /\ b \in hook)

LEMMA HookStart == ASSUME Init PROVE HookInv
BY Numbers DEF Init, HookInv, Winner

LEMMA HookStep == ASSUME GroupInv, HookInv, [GroupNext]_vars PROVE HookInv'
<1> SUFFICES ASSUME NEW b \in Branches, Winner(b)' PROVE (b \in hook \/ b \in cancelled)'
    BY DEF HookInv
<1>0. /\ ret \in Branches => bpc[ret] = "sent"
      /\ Winner(b) => b \in hook \/ b \in cancelled
      /\ outcome \in [Branches -> Outcome]
    BY DEF GroupInv, GroupTypeOK, CollectorInv, HookInv
<1>1. ASSUME ret' = ret, outcome'[b] = outcome[b], hook' = hook, cancelled \subseteq cancelled'
      PROVE (b \in hook \/ b \in cancelled)'
    BY <1>0, <1>1 DEF Winner
<1>2. CASE SeeCancel \/ Reject \/ Exhaust \/ StartRefused
    <2>1. ret' \in {Aborted, Invalid, NoneWon}
        BY <1>2 DEF SeeCancel, Reject, Exhaust, StartRefused, Return
    <2> QED BY <2>1, Numbers DEF Winner
<1>3. CASE Accept
    <2>1. /\ ret' = Head(results) /\ outcome' = outcome
          /\ hook' = hook \union (IF outcome[Head(results)].owned THEN {Head(results)} ELSE {})
        BY <1>3 DEF Accept, Return, branchVars
    <2> QED BY <2>1 DEF Winner
<1>4. CASE Start \/ Discard \/ Release \/ Leave \/ CloseResults \/ Drain \/ EndDrain \/ CancelParent
    <2>1. ret' = ret /\ outcome' = outcome /\ hook' = hook /\ cancelled \subseteq cancelled'
        BY <1>4 DEF Start, Discard, Release, Leave, CloseResults, Drain, EndDrain, CancelParent,
            branchVars, collectorVars
    <2> QED BY <1>1, <2>1
<1>5. ASSUME NEW c \in Branches, Enter(c) \/ OwnerClose(c) PROVE (b \in hook \/ b \in cancelled)'
    <2>1. ret' = ret /\ outcome' = outcome /\ hook' = hook /\ cancelled' = cancelled
        BY <1>5 DEF Enter, OwnerClose, branchVars, collectorVars
    <2> QED BY <1>1, <2>1
<1>6. ASSUME NEW c \in Branches, NEW o, bpc[c] # "sent", outcome' = [outcome EXCEPT ![c] = o],
             ret' = ret, hook' = hook, cancelled' = cancelled
      PROVE (b \in hook \/ b \in cancelled)'
    <2>1. ret' = b
        BY DEF Winner
    <2>2. c # b
        BY <1>0, <1>6, <2>1
    <2>3. outcome'[b] = outcome[b]
        BY <1>0, <1>6, <2>2
    <2> QED BY <1>1, <1>6, <2>3
<1>7. ASSUME NEW c \in Branches, Refuse(c) PROVE (b \in hook \/ b \in cancelled)'
    BY <1>6, <1>7 DEF Refuse, collectorVars
<1>8. ASSUME NEW c \in Branches, NEW o \in Outcome, Deliver(c, o) PROVE (b \in hook \/ b \in cancelled)'
    BY <1>6, <1>8 DEF Deliver, collectorVars
<1>9. ASSUME NEW c \in Branches, RunHook(c) PROVE (b \in hook \/ b \in cancelled)'
    <2>1. ret' = ret /\ outcome' = outcome /\ hook' = hook \ {c} /\ cancelled' = cancelled \union {c}
        BY <1>9 DEF RunHook, branchVars, collectorVars
    <2> QED BY <1>0, <2>1 DEF Winner
<1>10. CASE UNCHANGED vars
    BY <1>1, <1>10 DEF vars
<1> QED BY <1>2, <1>3, <1>4, <1>5, <1>7, <1>8, <1>9, <1>10 DEF GroupNext, Collect

LEMMA RestInv == ASSUME GroupInv, HookInv PROVE LeavesNothing
<1> SUFFICES ASSUME drainer = "done", NEW b \in Branches
             PROVE /\ bpc[b] = "sent"
                   /\ life[b] = "open" => ret = b
                   /\ b \in cancelled \/ (Winner(b) /\ b \in hook)
    BY DEF LeavesNothing
<1>1. chanClosed /\ results = <<>> /\ pc = "returned"
    BY DEF GroupInv, OpenInv
<1>2. bpc[b] = "sent"
    BY <1>1 DEF GroupInv, ChannelInv
<1>3. life[b] = "open" => ret = b
    BY <1>1, NoResults DEF GroupInv, OpenInv
<1>4. b \in cancelled \/ Winner(b)
    BY <1>1 DEF GroupInv, ReleaseInv
<1> QED BY <1>2, <1>3, <1>4 DEF HookInv

\* A group of any handlers, of any number and with any results, leaves no branch
\* running, no resource open and no context alive but the winner's.
THEOREM GroupLeavesNothing == GroupSpec => []LeavesNothing
<1>1. Init => GroupInv /\ HookInv
    BY GroupInitInv, HookStart
<1>2. (GroupInv /\ HookInv) /\ [GroupNext]_vars => (GroupInv /\ HookInv)'
    BY GroupStepInv, HookStep
<1>3. GroupInv /\ HookInv => LeavesNothing
    BY RestInv
<1> QED BY <1>1, <1>2, <1>3, PTL DEF GroupSpec

\* FirstSuccessfulPayload is such a group.
THEOREM FirstSuccessfulLeavesNothing == Spec => []LeavesNothing
<1>1. [Next]_vars => [GroupNext]_vars
    BY NextIsGroupNext
<1> QED BY <1>1, GroupLeavesNothing, PTL DEF Spec, GroupSpec

-----------------------------------------------------------------------------
(* Race *)

WorkerPcs == {"next", "run", "accept", "callback", "win", "observe", "close", "log"}
Refusing == {"observe", "close", "log"}

RaceTypeOK ==
    /\ taken \in 0..Plans /\ fatal \subseteq Kinds /\ finalized \in BOOLEAN
    /\ wpc \in [Branches -> WorkerPcs] /\ plan \in [Branches -> 0..Plans]
    /\ werr \in [Branches -> SUBSET Kinds] /\ closeErr \in [Branches -> SUBSET Kinds]
    /\ failures \in [Branches -> SUBSET Kinds]
    /\ run \in [1..Plans -> RunResult] /\ held \subseteq 1..Plans
    /\ settle \in [1..Plans -> SUBSET Kinds]
    /\ journal \subseteq [plan : 1..Plans, accepted : BOOLEAN]
    /\ mpc \in {"idle", "racing", "check", "finalize", "close", "done"}
    /\ status \in {"NoAccepted", "DuplicationForbidden", "RaceAccepted"} /\ raceErr \subseteq Kinds

\* A worker that has a plan in its hands.
Busy(w) == bpc[w] = "running" /\ wpc[w] # "next"

\* Workers start without a plan, and a plan is in one worker's hands, not in the
\* journal yet.
HandInv ==
    /\ \A w \in Branches : bpc[w] \in {"idle", "new"} => wpc[w] = "next"
    /\ \A w \in Branches : wpc[w] # "next" => plan[w] \in 1..taken
    /\ \A v, w \in Branches : Busy(v) /\ Busy(w) /\ plan[v] = plan[w] => v = w
    /\ \A w \in Branches, e \in journal : Busy(w) => e.plan # plan[w]
    /\ \A p \in held : \E w \in Branches : Busy(w) /\ plan[w] = p /\ wpc[w] # "log"

\* One entry, of a plan that was taken.
EntryInv ==
    /\ \A e \in journal : e.plan \in 1..taken
    /\ \A e, f \in journal : e.plan = f.plan => e = f

\* Where Run is, and what the group has done by then.
MainInv ==
    /\ mpc = "idle" => pc = "idle" /\ status = "NoAccepted"
    /\ pc = "idle" => fatal = {}
    /\ mpc \in {"check", "finalize"} => ret \in Branches
    /\ mpc \in {"check", "finalize", "close"} => pc = "returned"
    /\ mpc = "done" => pc \in {"idle", "returned"}
    /\ mpc # "done" => status = "NoAccepted"
    /\ mpc = "done" /\ status # "RaceAccepted" => ret \notin Branches \/ life[ret] # "open"
    /\ status = "RaceAccepted" => ret \in Branches
    /\ ret # Invalid

\* A control error has closed the gate before the cleanup starts.
GateInv == \A w \in Branches : Working(w, "close") /\ isControlError(werr[w]) => fatal # {}

PlanInv == HandInv /\ EntryInv /\ JournalComplete
OwnInv == RaceTypeOK /\ PlanInv /\ MainInv /\ GateInv

\* Only an accepted plan makes a winner.
WinnerInv == \A w \in Branches : bpc[w] = "sent" /\ Wins(outcome[w]) => wpc[w] = "win"

RaceInv == GroupInv /\ OwnInv /\ WinnerInv

LEMMA PlanNumbers ==
    /\ Plans \in Nat \ {0} /\ RunResults \subseteq RunResult
    /\ CloseErrors \subseteq SUBSET Kinds /\ AcceptErrors \subseteq SUBSET Kinds
    /\ RaceTypeOK => taken \in Nat /\ 1..taken \subseteq 1..Plans
BY RaceAssumption DEF RaceTypeOK

-----------------------------------------------------------------------------
(* What a worker's step does to the plans *)

\* A worker goes on with the plan it has.
LEMMA KeepsPlan ==
    ASSUME PlanInv, NEW w \in Branches, Busy(w), wpc \in [Branches -> WorkerPcs], bpc' = bpc,
           NEW l \in WorkerPcs \ {"next"}, Goto(w, l), UNCHANGED <<taken, plan, journal>>,
           held' \subseteq held \union {plan[w]}, l = "log" => plan[w] \notin held'
    PROVE PlanInv'
<1>1. wpc'[w] = l /\ \A c \in Branches \ {w} : wpc'[c] = wpc[c]
    BY DEF Goto
<1>2. \A c \in Branches : Busy(c)' <=> Busy(c)
    BY <1>1 DEF Busy
<1>3. HandInv'
    <2>1. \A c \in Branches : bpc'[c] \in {"idle", "new"} => wpc'[c] = "next"
        BY <1>1 DEF PlanInv, HandInv, Busy
    <2>2. \A c \in Branches : wpc'[c] # "next" => plan'[c] \in 1..taken'
        BY <1>1 DEF PlanInv, HandInv, Busy
    <2>3. \A u, v \in Branches : Busy(u)' /\ Busy(v)' /\ plan'[u] = plan'[v] => u = v
        BY <1>2 DEF PlanInv, HandInv
    <2>4. \A v \in Branches, e \in journal' : Busy(v)' => e.plan # plan'[v]
        BY <1>2 DEF PlanInv, HandInv
    <2>5. \A p \in held' : \E v \in Branches : Busy(v)' /\ plan'[v] = p /\ wpc'[v] # "log"
        BY <1>1, <1>2 DEF PlanInv, HandInv
    <2> QED BY <2>1, <2>2, <2>3, <2>4, <2>5 DEF HandInv
<1>4. EntryInv'
    BY DEF PlanInv, EntryInv
<1>5. JournalComplete'
    <2>1. \A p \in 1..taken :
            \/ \E v \in Branches : Busy(v) /\ plan[v] = p
            \/ \E e \in journal : e.plan = p /\ \A f \in journal : f.plan = p => f = e
        BY DEF PlanInv, JournalComplete, Busy
    <2> QED BY <1>2, <2>1 DEF JournalComplete, Busy
<1> QED BY <1>3, <1>4, <1>5 DEF PlanInv

\* A worker takes the next plan of the queue.
LEMMA TakesPlan ==
    ASSUME PlanInv, RaceTypeOK, NEW w \in Branches, TakePlan(w)
    PROVE PlanInv'
<1>0. /\ bpc[w] = "running" /\ wpc[w] = "next" /\ taken < Plans /\ taken' = taken + 1
      /\ plan' = [plan EXCEPT ![w] = taken + 1] /\ wpc' = [wpc EXCEPT ![w] = "run"]
      /\ bpc' = bpc /\ held' = held /\ journal' = journal
    BY DEF TakePlan, Working, Goto, vars, planVars
<1>1. taken \in Nat /\ 1..taken' = 1..taken \union {taken + 1} /\ taken + 1 \notin 1..taken
    BY <1>0, PlanNumbers
<1>2. /\ wpc'[w] = "run" /\ plan'[w] = taken + 1
      /\ \A c \in Branches \ {w} : wpc'[c] = wpc[c] /\ plan'[c] = plan[c]
    BY <1>0 DEF RaceTypeOK
<1>3. ~Busy(w) /\ Busy(w)' /\ \A c \in Branches \ {w} : Busy(c)' <=> Busy(c)
    BY <1>0, <1>2 DEF Busy
<1>4. HandInv'
    <2>1. \A c \in Branches : bpc'[c] \in {"idle", "new"} => wpc'[c] = "next"
        BY <1>0, <1>2 DEF PlanInv, HandInv
    <2>2. \A c \in Branches : wpc'[c] # "next" => plan'[c] \in 1..taken'
        BY <1>1, <1>2 DEF PlanInv, HandInv
    <2>3. \A c \in Branches \ {w} : Busy(c) => plan[c] \in 1..taken
        BY DEF PlanInv, HandInv, Busy
    <2>4. \A u, v \in Branches : Busy(u)' /\ Busy(v)' /\ plan'[u] = plan'[v] => u = v
        BY <1>1, <1>2, <1>3, <2>3 DEF PlanInv, HandInv
    <2>5. \A v \in Branches, e \in journal' : Busy(v)' => e.plan # plan'[v]
        BY <1>0, <1>1, <1>2, <1>3 DEF PlanInv, HandInv, EntryInv
    <2>6. \A p \in held' : \E v \in Branches : Busy(v)' /\ plan'[v] = p /\ wpc'[v] # "log"
        BY <1>0, <1>2, <1>3 DEF PlanInv, HandInv
    <2> QED BY <2>1, <2>2, <2>4, <2>5, <2>6 DEF HandInv
<1>5. EntryInv'
    BY <1>0, <1>1 DEF PlanInv, EntryInv
<1>6. JournalComplete'
    <2>1. \A p \in 1..taken :
            \/ \E v \in Branches \ {w} : Busy(v) /\ plan[v] = p
            \/ \E e \in journal : e.plan = p /\ \A f \in journal : f.plan = p => f = e
        BY <1>3 DEF PlanInv, JournalComplete, Busy
    <2>2. \A p \in 1..taken :
            \/ \E v \in Branches : Busy(v)' /\ plan'[v] = p
            \/ \E e \in journal' : e.plan = p /\ \A f \in journal' : f.plan = p => f = e
        BY <1>0, <1>2, <1>3, <2>1
    <2>3. Busy(w)' /\ plan'[w] = taken + 1
        BY <1>2, <1>3
    <2> QED BY <1>1, <2>2, <2>3 DEF JournalComplete, Busy
<1> QED BY <1>4, <1>5, <1>6 DEF PlanInv

\* A worker journals its plan and is done with it.
LEMMA EndsPlan ==
    ASSUME PlanInv, NEW w \in Branches, Busy(w), NEW a \in BOOLEAN, Record(plan[w], a),
           held' = held \ {plan[w]}, UNCHANGED <<taken, plan>>,
           ~Busy(w)', bpc'[w] \notin {"idle", "new"}, wpc'[w] = "next" \/ wpc'[w] = wpc[w],
           \A c \in Branches \ {w} : bpc'[c] = bpc[c] /\ wpc'[c] = wpc[c]
    PROVE PlanInv'
<1> DEFINE entry == [plan |-> plan[w], accepted |-> a]
<1>0. journal' = journal \union {entry} /\ entry.plan = plan[w]
    BY DEF Record
<1>1. \A c \in Branches \ {w} : (Busy(c)' <=> Busy(c)) /\ (Busy(c) => plan[c] # plan[w])
    BY DEF Busy, PlanInv, HandInv
<1>2. plan[w] \in 1..taken /\ \A e \in journal : e.plan # plan[w]
    BY DEF PlanInv, HandInv, Busy
<1> HIDE DEF entry
<1>3. HandInv'
    <2>1. \A c \in Branches : bpc'[c] \in {"idle", "new"} => wpc'[c] = "next"
        BY DEF PlanInv, HandInv
    <2>2. \A c \in Branches : wpc'[c] # "next" => plan'[c] \in 1..taken'
        BY DEF PlanInv, HandInv
    <2>3. \A u, v \in Branches : Busy(u)' /\ Busy(v)' /\ plan'[u] = plan'[v] => u = v
        BY <1>1 DEF PlanInv, HandInv
    <2>4. \A v \in Branches, e \in journal' : Busy(v)' => e.plan # plan'[v]
        BY <1>0, <1>1 DEF PlanInv, HandInv
    <2>5. \A p \in held' : \E v \in Branches : Busy(v)' /\ plan'[v] = p /\ wpc'[v] # "log"
        BY <1>1 DEF PlanInv, HandInv
    <2> QED BY <2>1, <2>2, <2>3, <2>4, <2>5 DEF HandInv
<1>4. EntryInv'
    BY <1>0, <1>2 DEF PlanInv, EntryInv
<1>5. JournalComplete'
    <2>1. \A p \in 1..taken :
            \/ \E v \in Branches : Busy(v) /\ plan[v] = p
            \/ \E e \in journal : e.plan = p
        BY DEF PlanInv, JournalComplete, Busy
    <2>2. \A p \in 1..taken :
            \/ \E v \in Branches : Busy(v)' /\ plan'[v] = p
            \/ \E e \in journal' : e.plan = p
        BY <1>0, <1>1, <2>1
    <2>3. \A e, f \in journal' : e.plan = f.plan => e = f
        BY <1>4 DEF EntryInv
    <2> QED BY <2>2, <2>3 DEF JournalComplete, Busy
<1> QED BY <1>3, <1>4, <1>5 DEF PlanInv

\* No plan moves: the hands that have one stay the same.
LEMMA SamePlans ==
    ASSUME PlanInv, UNCHANGED <<taken, plan, wpc, held, journal>>,
           \A w \in Branches : /\ Busy(w)' <=> Busy(w)
                               /\ bpc'[w] \in {"idle", "new"} => bpc[w] \in {"idle", "new"}
    PROVE PlanInv'
<1>1. HandInv'
    BY DEF PlanInv, HandInv
<1>2. EntryInv'
    BY DEF PlanInv, EntryInv
<1>3. JournalComplete'
    <2>1. \A p \in 1..taken :
            \/ \E v \in Branches : Busy(v) /\ plan[v] = p
            \/ \E e \in journal : e.plan = p /\ \A f \in journal : f.plan = p => f = e
        BY DEF PlanInv, JournalComplete, Busy
    <2> QED BY <2>1 DEF JournalComplete, Busy
<1> QED BY <1>1, <1>2, <1>3 DEF PlanInv

-----------------------------------------------------------------------------
(* The steps of a worker *)

\* Run does not notice what a worker does before its result arrives ...
LEMMA WorkerMain ==
    ASSUME GroupInv, MainInv, NEW w \in Branches, bpc[w] \in {"new", "running"},
           UNCHANGED <<mpc, status, raceErr, pc, ret>>, \A c \in Branches \ {w} : life'[c] = life[c]
    PROVE MainInv'
<1>1. pc # "idle" /\ (ret \in Branches => life'[ret] = life[ret])
    BY DEF GroupInv, CollectorInv
<1> QED BY <1>1 DEF MainInv

\* ... and the gate is never opened again.
LEMMA WorkerGate ==
    ASSUME GateInv, NEW w \in Branches, fatal \subseteq fatal',
           \A c \in Branches \ {w} : bpc'[c] = bpc[c] /\ wpc'[c] = wpc[c] /\ werr'[c] = werr[c],
           Working(w, "close")' /\ isControlError(werr'[w]) => fatal' # {}
    PROVE GateInv'
BY DEF GateInv, Working

LEMMA TakeRace == ASSUME RaceInv, NEW w \in Branches, TakePlan(w) PROVE OwnInv'
<1> USE DEF RaceInv, OwnInv
<1>0. /\ Working(w, "next") /\ taken < Plans /\ taken' = taken + 1
      /\ plan' = [plan EXCEPT ![w] = taken + 1] /\ wpc' = [wpc EXCEPT ![w] = "run"]
      /\ UNCHANGED <<vars, fatal, finalized, werr, closeErr, failures, planVars, mainVars>>
    BY DEF TakePlan, Goto
<1>1. RaceTypeOK'
    <2>1. taken' \in 0..Plans /\ taken + 1 \in 0..Plans
        BY <1>0, PlanNumbers
    <2> QED BY <1>0, <2>1 DEF RaceTypeOK, planVars, mainVars, WorkerPcs
<1>2. PlanInv'
    BY TakesPlan
<1>3. MainInv'
    BY <1>0, WorkerMain DEF Working, vars, mainVars
<1>4. GateInv'
    <2>1. wpc'[w] # "close" /\ \A c \in Branches \ {w} : wpc'[c] = wpc[c]
        BY <1>0 DEF RaceTypeOK
    <2> QED BY <1>0, <2>1, WorkerGate DEF Working, vars
<1> QED BY <1>1, <1>2, <1>3, <1>4

LEMMA RunRace == ASSUME RaceInv, NEW w \in Branches, RunPlan(w) PROVE OwnInv'
<1> USE DEF RaceInv, OwnInv
<1>0. /\ Working(w, "run") /\ Goto(w, "accept")
      /\ UNCHANGED <<vars, control, plan, werr, closeErr, failures, committed, journal, mainVars>>
    BY DEF RunPlan
<1>1. PICK r \in RunResults :
        /\ run' = [run EXCEPT ![plan[w]] = r]
        /\ held' = IF r.owned THEN held \union {plan[w]} ELSE held
        /\ settle' = [settle EXCEPT ![plan[w]] = r.settle]
    BY DEF RunPlan
<1>2. plan[w] \in 1..Plans /\ r \in RunResult /\ r.settle \in SUBSET Kinds
    <2>1. plan[w] \in 1..taken
        BY <1>0 DEF Working, PlanInv, HandInv
    <2> QED BY <2>1, PlanNumbers DEF RunResult
<1>3. RaceTypeOK'
    BY <1>0, <1>1, <1>2 DEF RaceTypeOK, control, mainVars, Goto, WorkerPcs
<1>4. PlanInv'
    <2>1. Busy(w) /\ wpc \in [Branches -> WorkerPcs] /\ "accept" \in WorkerPcs \ {"next"}
        BY <1>0 DEF Working, Busy, RaceTypeOK, WorkerPcs
    <2> QED BY <1>0, <1>1, <2>1, KeepsPlan DEF vars, control
<1>5. MainInv'
    BY <1>0, WorkerMain DEF Working, vars, mainVars
<1>6. GateInv'
    <2>1. wpc'[w] # "close" /\ \A c \in Branches \ {w} : wpc'[c] = wpc[c]
        BY <1>0 DEF RaceTypeOK, Goto
    <2> QED BY <1>0, <2>1, WorkerGate DEF Working, vars, control
<1> QED BY <1>3, <1>4, <1>5, <1>6

\* accept decides, or goes on to the next check.
LEMMA JudgeRace ==
    ASSUME RaceInv, NEW w \in Branches, Busy(w),
           \/ \E e \in SUBSET Kinds : Refuses(w, e)
           \/ \E l \in {"callback", "win"} : Goto(w, l) /\ UNCHANGED werr,
           UNCHANGED <<vars, control, plan, closeErr, failures, planVars, mainVars>>
    PROVE OwnInv'
<1> USE DEF RaceInv, OwnInv
<1>1. PICK l \in WorkerPcs \ {"next", "log"}, e \in SUBSET Kinds :
        Goto(w, l) /\ werr' = [werr EXCEPT ![w] = e] /\ (l = "close" => ~isControlError(e))
    <2>1. CASE \E e \in SUBSET Kinds : Refuses(w, e)
        <3>1. PICK e \in SUBSET Kinds : Refuses(w, e)
            BY <2>1
        <3>2. "observe" \in WorkerPcs \ {"next", "log"} /\ "close" \in WorkerPcs \ {"next", "log"}
            BY DEF WorkerPcs
        <3>3. CASE isControlError(e)
            BY <3>1, <3>2, <3>3 DEF Refuses
        <3>4. CASE ~isControlError(e)
            BY <3>1, <3>2, <3>4 DEF Refuses
        <3> QED BY <3>3, <3>4
    <2>2. CASE \E l \in {"callback", "win"} : Goto(w, l) /\ UNCHANGED werr
        <3>1. werr' = [werr EXCEPT ![w] = werr[w]] /\ werr[w] \in SUBSET Kinds
            BY <2>2 DEF RaceTypeOK
        <3> QED BY <2>2, <3>1 DEF WorkerPcs
    <2> QED BY <2>1, <2>2
<1>2. RaceTypeOK'
    BY <1>1 DEF RaceTypeOK, control, planVars, mainVars, Goto
<1>3. PlanInv'
    <2>1. wpc \in [Branches -> WorkerPcs] /\ l \in WorkerPcs \ {"next"} /\ l # "log"
        BY DEF RaceTypeOK
    <2> QED BY <1>1, <2>1, KeepsPlan DEF vars, control, planVars
<1>4. MainInv'
    BY WorkerMain DEF Busy, vars, mainVars
<1>5. GateInv'
    <2>1. /\ wpc'[w] = l /\ werr'[w] = e
          /\ \A c \in Branches \ {w} : wpc'[c] = wpc[c] /\ werr'[c] = werr[c]
        BY <1>1 DEF RaceTypeOK, Goto
    <2> QED BY <1>1, <2>1, WorkerGate DEF Working, vars, control
<1> QED BY <1>2, <1>3, <1>4, <1>5

LEMMA WorkersPlan ==
    ASSUME RaceInv, NEW w \in Branches, wpc[w] # "next"
    PROVE plan[w] \in 1..Plans /\ run[plan[w]] \in RunResult /\ Facts(plan[w]) \in SUBSET Kinds
<1>1. plan[w] \in 1..Plans
    BY PlanNumbers DEF RaceInv, OwnInv, PlanInv, HandInv
<1>2. run[plan[w]] \in RunResult /\ settle[plan[w]] \in SUBSET Kinds
    BY <1>1 DEF RaceInv, OwnInv, RaceTypeOK
<1> QED BY <1>1, <1>2 DEF Facts, Kinds

LEMMA ScreenRace == ASSUME RaceInv, NEW w \in Branches, Screen(w) PROVE OwnInv'
<1>1. Busy(w) /\ UNCHANGED <<vars, control, plan, closeErr, failures, planVars, mainVars>>
    BY DEF Screen, Working, Busy
<1>2. run[plan[w]].err \in SUBSET Kinds /\ {} \in SUBSET Kinds /\ {"ctx"} \in SUBSET Kinds
      /\ Facts(plan[w]) \in SUBSET Kinds
    BY <1>1, WorkersPlan DEF Busy, RunResult, Kinds
<1>3. \/ \E e \in SUBSET Kinds : Refuses(w, e)
      \/ \E l \in {"callback", "win"} : Goto(w, l) /\ UNCHANGED werr
    BY <1>2 DEF Screen
<1> QED BY <1>1, <1>3, JudgeRace

LEMMA ValidateRace == ASSUME RaceInv, NEW w \in Branches, Validate(w) PROVE OwnInv'
<1>1. Busy(w) /\ UNCHANGED <<vars, control, plan, closeErr, failures, planVars, mainVars>>
    BY DEF Validate, Working, Busy
<1>2. {} \in SUBSET Kinds /\ {"ctx"} \in SUBSET Kinds /\ Facts(plan[w]) \in SUBSET Kinds
    BY <1>1, WorkersPlan DEF Busy, Kinds
<1>3. \/ \E e \in SUBSET Kinds : Refuses(w, e)
      \/ \E l \in {"callback", "win"} : Goto(w, l) /\ UNCHANGED werr
    BY <1>2, PlanNumbers DEF Validate
<1> QED BY <1>1, <1>3, JudgeRace

LEMMA Observed ==
    ASSUME NEW e \in SUBSET Kinds, Observe(e), fatal \subseteq Kinds
    PROVE /\ fatal \subseteq fatal' /\ fatal' \subseteq Kinds /\ (isControlError(e) => fatal' # {})
          /\ fatal' \subseteq fatal \union e
BY DEF Observe, isControlError

LEMMA ObserveRace == ASSUME RaceInv, NEW w \in Branches, ObserveRun(w) PROVE OwnInv'
<1> USE DEF RaceInv, OwnInv
<1>0. /\ Working(w, "observe") /\ Observe(werr[w]) /\ Goto(w, "close")
      /\ UNCHANGED <<vars, taken, finalized, plan, werr, closeErr, failures, planVars, mainVars>>
    BY DEF ObserveRun
<1>1. werr[w] \in SUBSET Kinds /\ fatal \subseteq Kinds /\ wpc \in [Branches -> WorkerPcs]
    BY DEF RaceTypeOK
<1>2. fatal \subseteq fatal' /\ fatal' \subseteq Kinds /\ (isControlError(werr[w]) => fatal' # {})
    BY <1>0, <1>1, Observed
<1>3. RaceTypeOK'
    BY <1>0, <1>2 DEF RaceTypeOK, planVars, mainVars, Goto, WorkerPcs
<1>4. PlanInv'
    <2>1. Busy(w) /\ "close" \in WorkerPcs \ {"next"}
        BY <1>0 DEF Working, Busy, WorkerPcs
    <2> QED BY <1>0, <1>1, <2>1, KeepsPlan DEF vars, planVars
<1>5. MainInv'
    BY <1>0, WorkerMain DEF Working, vars, mainVars
<1>6. GateInv'
    <2>1. \A c \in Branches \ {w} : wpc'[c] = wpc[c]
        BY <1>0, <1>1 DEF Goto
    <2> QED BY <1>0, <1>2, <2>1, WorkerGate DEF vars
<1> QED BY <1>3, <1>4, <1>5, <1>6

\* What CloseResult joins, as a set c.
LEMMA CloseWrites ==
    ASSUME RaceInv, NEW w \in Branches, CloseResult(w)
    PROVE \E e \in SUBSET Kinds, c \in SUBSET Kinds :
            /\ e = {} \/ e \in CloseErrors
            /\ c = e \union settle[plan[w]]
            /\ closeErr' = [closeErr EXCEPT ![w] = c]
            /\ werr' = [werr EXCEPT ![w] = werr[w] \union c]
            /\ failures' = [failures EXCEPT ![w] = failures[w] \union werr[w] \union c]
<1>1. settle[plan[w]] \in SUBSET Kinds
    <2>1. plan[w] \in 1..Plans
        BY WorkersPlan DEF CloseResult, Working
    <2> QED BY <2>1 DEF RaceInv, OwnInv, RaceTypeOK
<1>2. PICK e \in (IF plan[w] \in held THEN CloseErrors ELSE {{}}) :
        /\ closeErr' = [closeErr EXCEPT ![w] = e \union settle[plan[w]]]
        /\ werr' = [werr EXCEPT ![w] = @ \union (e \union settle[plan[w]])]
        /\ failures' = [failures EXCEPT ![w] = @ \union werr[w] \union (e \union settle[plan[w]])]
    BY DEF CloseResult
<1>3. e \in SUBSET Kinds /\ (e = {} \/ e \in CloseErrors)
    BY <1>2, PlanNumbers
<1>4. e \union settle[plan[w]] \in SUBSET Kinds
    BY <1>1, <1>3
<1> QED BY <1>2, <1>3, <1>4

LEMMA CloseRace == ASSUME RaceInv, NEW w \in Branches, CloseResult(w) PROVE OwnInv'
<1> USE DEF RaceInv, OwnInv
<1>0. /\ Working(w, "close") /\ held' = held \ {plan[w]} /\ Goto(w, "log")
      /\ UNCHANGED <<vars, control, plan, run, committed, settle, journal, mainVars>>
    BY DEF CloseResult
<1>1. PICK c \in SUBSET Kinds :
        /\ closeErr' = [closeErr EXCEPT ![w] = c]
        /\ werr' = [werr EXCEPT ![w] = werr[w] \union c]
        /\ failures' = [failures EXCEPT ![w] = failures[w] \union werr[w] \union c]
    BY CloseWrites
<1>2. RaceTypeOK'
    <2>1. werr[w] \union c \in SUBSET Kinds /\ failures[w] \union werr[w] \union c \in SUBSET Kinds
        BY DEF RaceTypeOK
    <2> QED BY <1>0, <1>1, <2>1 DEF RaceTypeOK, control, mainVars, Goto, WorkerPcs
<1>3. PlanInv'
    <2>1. Busy(w) /\ wpc \in [Branches -> WorkerPcs] /\ "log" \in WorkerPcs \ {"next"}
        BY <1>0 DEF Working, Busy, RaceTypeOK, WorkerPcs
    <2> QED BY <1>0, <2>1, KeepsPlan DEF vars, control
<1>4. MainInv'
    BY <1>0, WorkerMain DEF Working, vars, mainVars
<1>5. GateInv'
    <2>1. wpc'[w] # "close" /\ \A v \in Branches \ {w} : wpc'[v] = wpc[v] /\ werr'[v] = werr[v]
        BY <1>0, <1>1 DEF RaceTypeOK, Goto
    <2> QED BY <1>0, <2>1, WorkerGate DEF Working, vars, control
<1> QED BY <1>2, <1>3, <1>4, <1>5

\* After its log entry the worker holds nothing.
LEMMA LoggedPlan ==
    ASSUME RaceInv, NEW w \in Branches, Working(w, "log")
    PROVE Busy(w) /\ plan[w] \notin held /\ held = held \ {plan[w]}
BY DEF RaceInv, OwnInv, PlanInv, HandInv, Working, Busy

LEMMA Forgot ==
    ASSUME RaceTypeOK, NEW w \in Branches, Forget(w)
    PROVE /\ werr' \in [Branches -> SUBSET Kinds] /\ closeErr' \in [Branches -> SUBSET Kinds]
          /\ werr'[w] = {} /\ closeErr'[w] = {}
          /\ \A v \in Branches \ {w} : werr'[v] = werr[v] /\ closeErr'[v] = closeErr[v]
BY DEF RaceTypeOK, Forget

LEMMA RecordedType ==
    ASSUME RaceInv, NEW w \in Branches, wpc[w] # "next", NEW a \in BOOLEAN, Record(plan[w], a)
    PROVE journal' \subseteq [plan : 1..Plans, accepted : BOOLEAN]
BY WorkersPlan DEF RaceInv, OwnInv, RaceTypeOK, Record

LEMMA GoOnRace == ASSUME RaceInv, NEW w \in Branches, GoOn(w) PROVE OwnInv'
<1> USE DEF RaceInv, OwnInv
<1>0. /\ Working(w, "log") /\ Observe(closeErr[w]) /\ Record(plan[w], FALSE) /\ Forget(w) /\ Goto(w, "next")
      /\ UNCHANGED <<vars, taken, finalized, plan, failures, run, held, committed, settle, mainVars>>
    BY DEF GoOn
<1>1. closeErr[w] \in SUBSET Kinds /\ fatal \subseteq Kinds
    BY DEF RaceTypeOK
<1>2. fatal \subseteq fatal' /\ fatal' \subseteq Kinds
    BY <1>0, <1>1, Observed
<1>3. wpc'[w] = "next" /\ \A v \in Branches \ {w} : wpc'[v] = wpc[v]
    BY <1>0 DEF RaceTypeOK, Goto
<1>4. RaceTypeOK'
    <2>1. journal' \subseteq [plan : 1..Plans, accepted : BOOLEAN]
        BY <1>0, RecordedType DEF Working
    <2>2. wpc' \in [Branches -> WorkerPcs]
        BY <1>0 DEF RaceTypeOK, Goto, WorkerPcs
    <2> QED BY <1>0, <1>2, <2>1, <2>2, Forgot DEF RaceTypeOK, mainVars
<1>5. PlanInv'
    <2>1. Busy(w) /\ held' = held \ {plan[w]} /\ bpc' = bpc /\ bpc[w] = "running" /\ ~Busy(w)'
        BY <1>0, <1>3, LoggedPlan DEF Working, Busy, vars
    <2> QED BY <1>0, <1>3, <2>1, EndsPlan
<1>6. MainInv'
    BY <1>0, WorkerMain DEF Working, vars, mainVars
<1>7. GateInv'
    BY <1>0, <1>2, <1>3, WorkerGate, Forgot DEF Working, vars
<1> QED BY <1>4, <1>5, <1>6, <1>7

\* What a delivery does to the branches.
LEMMA Delivered ==
    ASSUME GroupInv, NEW w \in Branches, NEW o, Deliver(w, o)
    PROVE /\ bpc[w] = "running" /\ bpc'[w] = "sent" /\ outcome'[w] = o
          /\ \A v \in Branches \ {w} : bpc'[v] = bpc[v] /\ life'[v] = life[v] /\ outcome'[v] = outcome[v]
          /\ UNCHANGED <<parent, cancelled, chanClosed, pc, ret>>
BY DEF GroupInv, GroupTypeOK, Deliver, collectorVars

LEMMA WinRace == ASSUME RaceInv, NEW w \in Branches, Win(w) PROVE OwnInv'
<1> USE DEF RaceInv, OwnInv
<1>0. /\ Working(w, "win") /\ Record(plan[w], TRUE) /\ held' = held \ {plan[w]}
      /\ failures' = [failures EXCEPT ![w] = {}] /\ (\E o : Deliver(w, o))
      /\ UNCHANGED <<control, wpc, plan, werr, closeErr, run, committed, settle, mainVars>>
    BY DEF Win
<1>1. /\ bpc'[w] = "sent" /\ \A v \in Branches \ {w} : bpc'[v] = bpc[v] /\ life'[v] = life[v]
      /\ UNCHANGED <<pc, ret>>
    BY <1>0, Delivered
<1>2. RaceTypeOK'
    <2>1. journal' \subseteq [plan : 1..Plans, accepted : BOOLEAN]
        BY <1>0, RecordedType DEF Working
    <2> QED BY <1>0, <2>1 DEF RaceTypeOK, control, mainVars
<1>3. PlanInv'
    BY <1>0, <1>1, EndsPlan DEF Working, Busy, control
<1>4. MainInv'
    BY <1>0, <1>1, WorkerMain DEF Working, mainVars
<1>5. GateInv'
    BY <1>0, <1>1, WorkerGate DEF Working, control
<1> QED BY <1>2, <1>3, <1>4, <1>5

LEMMA GiveUpRace == ASSUME RaceInv, NEW w \in Branches, GiveUpWork(w) PROVE OwnInv'
<1> USE DEF RaceInv, OwnInv
<1>0. /\ Working(w, "log") /\ Observe(closeErr[w]) /\ Record(plan[w], FALSE) /\ Forget(w)
      /\ failures' = [failures EXCEPT ![w] = werr[w] \union fatal'] /\ (\E o : Deliver(w, o))
      /\ UNCHANGED <<taken, finalized, wpc, plan, run, held, committed, settle, mainVars>>
    BY DEF GiveUpWork, ReturnError
<1>1. closeErr[w] \in SUBSET Kinds /\ fatal \subseteq Kinds /\ werr[w] \in SUBSET Kinds
    BY DEF RaceTypeOK
<1>2. fatal \subseteq fatal' /\ fatal' \subseteq Kinds
    BY <1>0, <1>1, Observed
<1>3. /\ bpc'[w] = "sent" /\ \A v \in Branches \ {w} : bpc'[v] = bpc[v] /\ life'[v] = life[v]
      /\ UNCHANGED <<pc, ret>>
    BY <1>0, Delivered
<1>4. RaceTypeOK'
    <2>1. journal' \subseteq [plan : 1..Plans, accepted : BOOLEAN]
        BY <1>0, RecordedType DEF Working
    <2>2. failures' \in [Branches -> SUBSET Kinds]
        BY <1>0, <1>1, <1>2 DEF RaceTypeOK
    <2> QED BY <1>0, <1>2, <2>1, <2>2, Forgot DEF RaceTypeOK, mainVars
<1>5. PlanInv'
    <2>1. Busy(w) /\ held' = held \ {plan[w]} /\ ~Busy(w)'
        BY <1>0, <1>3, LoggedPlan DEF Busy
    <2> QED BY <1>0, <1>3, <2>1, EndsPlan
<1>6. MainInv'
    BY <1>0, <1>3, WorkerMain DEF Working, mainVars
<1>7. GateInv'
    BY <1>0, <1>2, <1>3, WorkerGate, Forgot DEF Working
<1> QED BY <1>4, <1>5, <1>6, <1>7

\* A worker without a plan leaves.
LEMMA StopRace == ASSUME RaceInv, NEW w \in Branches, StopWork(w) \/ RefuseWorker(w) PROVE OwnInv'
<1> USE DEF RaceInv, OwnInv
<1>0. UNCHANGED <<control, wpc, plan, werr, closeErr, planVars, mainVars>>
    BY DEF StopWork, RefuseWorker
<1>1. /\ bpc[w] \in {"new", "running"} /\ wpc[w] = "next" /\ bpc'[w] = "sent" /\ UNCHANGED <<pc, ret>>
      /\ \A v \in Branches \ {w} : bpc'[v] = bpc[v] /\ life'[v] = life[v]
    <2>1. CASE StopWork(w)
        <3>1. wpc[w] = "next" /\ \E o : Deliver(w, o)
            BY <2>1 DEF StopWork, Working, ReturnError
        <3> QED BY <3>1, Delivered
    <2>2. CASE RefuseWorker(w)
        BY <2>2 DEF RefuseWorker, Refuse, collectorVars, GroupInv, GroupTypeOK, PlanInv, HandInv
    <2> QED BY <2>1, <2>2
<1>2. failures' \in [Branches -> SUBSET Kinds]
    <2>1. \E e \in SUBSET Kinds : failures' = [failures EXCEPT ![w] = e]
        <3>1. fatal \in SUBSET Kinds /\ {"ctx"} \in SUBSET Kinds /\ failures[w] \in SUBSET Kinds
            BY DEF RaceTypeOK, Kinds
        <3> QED BY <3>1 DEF StopWork, RefuseWorker, ReturnError
    <2> QED BY <2>1 DEF RaceTypeOK
<1>3. RaceTypeOK'
    BY <1>0, <1>2 DEF RaceTypeOK, control, planVars, mainVars
<1>4. PlanInv'
    <2>1. \A v \in Branches : (Busy(v)' <=> Busy(v)) /\ (bpc'[v] \in {"idle", "new"} => bpc[v] \in {"idle", "new"})
        BY <1>0, <1>1 DEF Busy
    <2> QED BY <1>0, <2>1, SamePlans DEF control, planVars
<1>5. MainInv'
    BY <1>0, <1>1, WorkerMain DEF mainVars
<1>6. GateInv'
    BY <1>0, <1>1, WorkerGate DEF Working, control
<1> QED BY <1>3, <1>4, <1>5, <1>6

-----------------------------------------------------------------------------
(* The steps around the workers *)

\* What the group, the context and the caller's Close change for Race.
LEMMA Around ==
    ASSUME RaceInv, GroupStep \/ CancelParent \/ (\E w \in Branches : OwnerClose(w)) \/ UNCHANGED vars
    PROVE /\ \A w \in Branches : bpc'[w] = bpc[w] \/ (bpc[w] \in {"idle", "new"} /\ bpc'[w] \in {"new", "running"})
          /\ \A w \in Branches : life'[w] = "open" => life[w] = "open"
          /\ pc' = "idle" => pc = "idle"
          /\ pc = "returned" => pc' = "returned" /\ ret' = ret
          /\ pc = "idle" /\ ~(mpc = "racing" /\ (Start \/ StartRefused)) => pc' = "idle" /\ ret' = ret
          /\ ret' = Invalid => ret = Invalid
<1>0. /\ bpc \in [Branches -> {"idle", "new", "running", "sent"}] /\ results \in Seq(Branches)
      /\ life \in [Branches -> {"nil", "open", "closed"}] /\ pc \in {"idle", "read", "release", "returned"}
      /\ pc = "idle" => bpc = [b \in Branches |-> "idle"]
    BY DEF RaceInv, GroupInv, GroupTypeOK, CollectorInv
<1>1. ASSUME Discard \/ Drain
      PROVE /\ bpc' = bpc /\ pc' = pc /\ ret' = ret
            /\ \A w \in Branches : life'[w] = "open" => life[w] = "open"
    <2>1. results # <<>> /\ results' = Tail(results) /\ life' = Closed(Head(results))
          /\ bpc' = bpc /\ pc' = pc /\ ret' = ret
        BY <1>1 DEF Discard, Drain, branchVars, collectorVars
    <2>2. Head(results) \in Branches
        BY <1>0, <2>1, Received DEF RaceInv, GroupInv, ChannelInv
    <2> QED BY <1>0, <2>1, <2>2, ClosedLife
<1>2. ASSUME NEW b \in Branches, OwnerClose(b)
      PROVE /\ bpc' = bpc /\ pc' = pc /\ ret' = ret
            /\ \A w \in Branches : life'[w] = "open" => life[w] = "open"
    BY <1>0, <1>2, ClosedLife DEF OwnerClose, branchVars, collectorVars
<1>3. ASSUME SeeCancel \/ Accept \/ Exhaust
      PROVE bpc' = bpc /\ life' = life /\ pc = "read" /\ pc' = "release" /\ ret' # Invalid
    <2>1. CASE Accept
        <3>1. Head(results) \in Branches
            <4>1. results # <<>> /\ results' = Tail(results)
                BY <2>1 DEF Accept
            <4> QED BY <1>0, <4>1, Received DEF RaceInv, GroupInv, ChannelInv
        <3> QED BY <2>1, <3>1, Numbers DEF Accept, Return, branchVars
    <2> QED BY <1>3, <2>1, Numbers DEF SeeCancel, Exhaust, Return, branchVars
<1>4. ASSUME Release \/ Leave \/ CloseResults \/ EndDrain \/ CancelParent \/ UNCHANGED vars
      PROVE /\ bpc' = bpc /\ life' = life /\ ret' = ret
            /\ pc' = pc \/ (pc = "release" /\ pc' = "returned")
    BY <1>4 DEF Release, Leave, CloseResults, EndDrain, CancelParent, vars, branchVars, collectorVars
<1>5. ASSUME NEW b \in Branches, Enter(b) \/ RunHook(b)
      PROVE /\ pc' = pc /\ ret' = ret /\ life' = life
            /\ \A w \in Branches : bpc'[w] = bpc[w] \/ (bpc[w] \in {"idle", "new"} /\ bpc'[w] \in {"new", "running"})
    BY <1>0, <1>5 DEF Enter, RunHook, branchVars, collectorVars
<1>6. ASSUME mpc = "racing", Start \/ StartRefused
      PROVE /\ pc = "idle" /\ pc' # "idle" /\ ret' # Invalid /\ life' = life
            /\ \A w \in Branches : bpc'[w] = bpc[w] \/ (bpc[w] \in {"idle", "new"} /\ bpc'[w] \in {"new", "running"})
    <2>1. pc = "idle" /\ ret = Pending
        BY <1>6 DEF Start, StartRefused, RaceInv, GroupInv, CollectorInv
    <2> QED BY <1>0, <1>6, <2>1, Numbers DEF Start, StartRefused, branchVars
<1>7. CASE GroupStep
    <2>1. CASE Discard \/ Drain
        BY <1>1, <2>1
    <2>2. CASE SeeCancel \/ Accept \/ Exhaust
        BY <1>3, <2>2
    <2>3. CASE Release \/ Leave \/ CloseResults \/ EndDrain
        BY <1>4, <2>3
    <2>4. CASE \E b \in Branches : Enter(b) \/ RunHook(b)
        BY <1>5, <2>4
    <2>5. CASE mpc = "racing" /\ (Start \/ StartRefused)
        BY <1>6, <2>5
    <2> QED BY <1>7, <2>1, <2>2, <2>3, <2>4, <2>5 DEF GroupStep
<1>8. CASE CancelParent \/ UNCHANGED vars
    BY <1>4, <1>8
<1>9. CASE \E w \in Branches : OwnerClose(w)
    BY <1>2, <1>9
<1> QED BY <1>7, <1>8, <1>9

LEMMA AroundRace ==
    ASSUME RaceInv, UNCHANGED raceVars,
           \/ GroupStep \/ CancelParent \/ UNCHANGED vars
           \/ mpc = "done" /\ status = "RaceAccepted" /\ \E w \in Branches : OwnerClose(w)
    PROVE OwnInv'
<1> USE DEF RaceInv, OwnInv
<1>0. /\ UNCHANGED <<taken, fatal, finalized, wpc, plan, werr, closeErr, failures, run, held, committed,
                     settle, journal, mpc, status, raceErr>>
    BY DEF raceVars, control, workerVars, planVars, mainVars
<1>1. RaceTypeOK'
    BY <1>0 DEF RaceTypeOK
<1>2. \A w \in Branches : (Busy(w)' <=> Busy(w)) /\ (bpc'[w] \in {"idle", "new"} => bpc[w] \in {"idle", "new"})
    BY <1>0, Around DEF Busy, PlanInv, HandInv
<1>3. PlanInv'
    BY <1>0, <1>2, SamePlans
<1>4. GateInv'
    BY <1>0, <1>2 DEF GateInv, Working, Busy
<1>5. MainInv'
    <2>1. mpc = "racing" \/ (pc = "idle" => pc' = "idle" /\ ret' = ret)
        BY Around
    <2>2. pc = "returned" => pc' = "returned" /\ ret' = ret
        BY Around
    <2>3. (pc' = "idle" => pc = "idle") /\ (ret' = Invalid => ret = Invalid)
          /\ \A w \in Branches : life'[w] = "open" => life[w] = "open"
        BY Around
    <2>4. mpc = "done" => pc' = pc /\ ret' = ret
        BY <2>1, <2>2 DEF MainInv
    <2>5. status = "RaceAccepted" => mpc = "done"
        BY DEF MainInv
    <2>6. ret' \in Branches => (life'[ret'] = "open" => life[ret'] = "open")
        BY <2>3
    <2> QED BY <1>0, <2>1, <2>2, <2>3, <2>4, <2>5, <2>6 DEF MainInv
<1> QED BY <1>1, <1>3, <1>4, <1>5

LEMMA SameBranches ==
    ASSUME PlanInv, GateInv, UNCHANGED <<bpc, taken, fatal, plan, wpc, werr, held, journal>>
    PROVE PlanInv' /\ GateInv'
<1>1. \A w \in Branches : Busy(w)' <=> Busy(w)
    BY DEF Busy
<1> QED BY <1>1, SamePlans DEF GateInv, Working

LEMMA GroupErrKinds ==
    ASSUME RaceTypeOK
    PROVE /\ GroupErr \in SUBSET Kinds
          /\ GroupErr = {} => ret \notin {Aborted, NoneWon}
          /\ GroupErr # {} => ret \in {Aborted, NoneWon}
<1>1. UNION {failures[w] : w \in Branches} \in SUBSET Kinds
    BY DEF RaceTypeOK
<1> QED BY <1>1, Numbers DEF GroupErr, Kinds

LEMMA BeginRace == ASSUME RaceInv, Begin PROVE OwnInv'
<1> USE DEF RaceInv, OwnInv
<1>0. /\ mpc = "idle" /\ mpc' \in {"racing", "done"} /\ UNCHANGED <<vars, control, workerVars, planVars>>
      /\ status' = status \/ (status' = "DuplicationForbidden" /\ mpc' = "done")
      /\ raceErr' \in {raceErr, {"ctx"}}
    BY DEF Begin
<1>1. RaceTypeOK'
    BY <1>0 DEF RaceTypeOK, control, workerVars, planVars, Kinds
<1>2. PlanInv' /\ GateInv'
    BY <1>0, SameBranches DEF vars, control, workerVars, planVars
<1>3. MainInv'
    <2>1. pc = "idle" /\ status = "NoAccepted" /\ ret \notin Branches
        BY <1>0, Numbers DEF MainInv, GroupInv, CollectorInv
    <2> QED BY <1>0, <2>1 DEF MainInv, vars, control
<1> QED BY <1>1, <1>2, <1>3

LEMMA ConcludeRace == ASSUME RaceInv, Conclude PROVE OwnInv'
<1> USE DEF RaceInv, OwnInv
<1>0. /\ mpc = "racing" /\ pc = "returned" /\ UNCHANGED <<vars, taken, fatal, finalized, workerVars, planVars, status>>
      /\ \/ raceErr' = fatal \union GroupErr /\ mpc' = "close"
         \/ GroupErr = {} /\ mpc' = "check" /\ raceErr' = raceErr
         \/ GroupErr # {} /\ mpc' = "done" /\ raceErr' \in {{}, GroupErr}
    BY DEF Conclude, Fail
<1>1. RaceTypeOK'
    <2>1. raceErr' \subseteq Kinds
        BY <1>0, GroupErrKinds DEF RaceTypeOK
    <2> QED BY <1>0, <2>1 DEF RaceTypeOK, workerVars, planVars
<1>2. PlanInv' /\ GateInv'
    BY <1>0, SameBranches DEF vars, workerVars, planVars
<1>3. MainInv'
    <2>1. ret \in 0..Invalid /\ ret # Pending /\ ret # Invalid
        BY <1>0 DEF GroupInv, GroupTypeOK, CollectorInv, MainInv
    <2>2. GroupErr = {} => ret \in Branches
        BY <2>1, GroupErrKinds, Numbers DEF Pending, Invalid, Aborted, NoneWon
    <2>3. GroupErr # {} => ret \notin Branches
        BY GroupErrKinds, Numbers
    <2> QED BY <1>0, <2>2, <2>3 DEF MainInv, vars
<1> QED BY <1>1, <1>2, <1>3

LEMMA CheckRace == ASSUME RaceInv, CheckWinner PROVE OwnInv'
<1> USE DEF RaceInv, OwnInv
<1>0. /\ mpc = "check" /\ UNCHANGED <<vars, taken, fatal, finalized, workerVars, planVars, status>>
      /\ \/ raceErr' \in {{"ctx"}, Facts(plan[ret])} /\ mpc' = "close" /\ raceErr' # {}
         \/ mpc' = "finalize" /\ raceErr' = raceErr
    BY DEF CheckWinner, Fail
<1>1. RaceTypeOK'
    <2>1. ret \in Branches /\ wpc[ret] = "win"
        BY <1>0 DEF MainInv, GroupInv, CollectorInv, WinnerInv
    <2>2. Facts(plan[ret]) \subseteq Kinds
        BY <2>1, WorkersPlan
    <2>3. raceErr' \subseteq Kinds
        BY <1>0, <2>2 DEF RaceTypeOK, Kinds
    <2> QED BY <1>0, <2>3 DEF RaceTypeOK, workerVars, planVars
<1>2. PlanInv' /\ GateInv'
    BY <1>0, SameBranches DEF vars, workerVars, planVars
<1>3. MainInv'
    BY <1>0 DEF MainInv, vars
<1> QED BY <1>1, <1>2, <1>3

LEMMA FinalizeRace == ASSUME RaceInv, Finalize PROVE OwnInv'
<1> USE DEF RaceInv, OwnInv
<1>0. /\ mpc = "finalize" /\ UNCHANGED <<vars, taken, fatal, workerVars, planVars>>
      /\ \/ raceErr' = fatal /\ mpc' = "close" /\ UNCHANGED <<finalized, status>>
         \/ finalized' = TRUE /\ status' = "RaceAccepted" /\ mpc' = "done" /\ UNCHANGED raceErr
    BY DEF Finalize, Fail
<1>1. RaceTypeOK'
    BY <1>0 DEF RaceTypeOK, workerVars, planVars
<1>2. PlanInv' /\ GateInv'
    BY <1>0, SameBranches DEF vars, workerVars, planVars
<1>3. MainInv'
    BY <1>0 DEF MainInv, vars
<1> QED BY <1>1, <1>2, <1>3

LEMMA CloseWinnerRace == ASSUME RaceInv, CloseWinner PROVE OwnInv'
<1> USE DEF RaceInv, OwnInv
<1>0. /\ mpc = "close" /\ mpc' = "done" /\ UNCHANGED <<control, workerVars, planVars, status, raceErr>>
      /\ (\E w \in Branches : OwnerClose(w)) \/ ((\A w \in Branches : ret = w => life[w] # "open") /\ UNCHANGED vars)
    BY DEF CloseWinner
<1>1. /\ UNCHANGED <<bpc, pc, ret>> /\ (ret \in Branches => life'[ret] # "open")
    <2>1. ASSUME NEW w \in Branches, OwnerClose(w) PROVE UNCHANGED <<bpc, pc, ret>> /\ ret = w /\ life'[w] # "open"
        BY <2>1, ClosedLife DEF OwnerClose, branchVars, collectorVars, GroupInv, GroupTypeOK
    <2> QED BY <1>0, <2>1 DEF vars
<1>2. RaceTypeOK'
    BY <1>0 DEF RaceTypeOK, control, workerVars, planVars
<1>3. PlanInv' /\ GateInv'
    BY <1>0, <1>1, SameBranches DEF control, workerVars, planVars
<1>4. MainInv'
    BY <1>0, <1>1 DEF MainInv, control
<1> QED BY <1>2, <1>3, <1>4

LEMMA CommitRace == ASSUME RaceInv, NEW p \in 1..Plans, HostCommits(p) PROVE OwnInv'
<1> USE DEF RaceInv, OwnInv
<1>0. UNCHANGED <<vars, control, workerVars, run, held, journal, mainVars>>
    BY DEF HostCommits
<1>1. RaceTypeOK'
    <2>1. PICK s \in (IF run[p].owned THEN {settle[p]} ELSE CloseErrors) : settle' = [settle EXCEPT ![p] = s]
        BY DEF HostCommits
    <2>2. s \in SUBSET Kinds
        BY <2>1, PlanNumbers DEF RaceTypeOK
    <2> QED BY <1>0, <2>1, <2>2 DEF RaceTypeOK, control, workerVars, mainVars
<1>2. PlanInv' /\ GateInv'
    BY <1>0, SameBranches DEF vars, control, workerVars
<1>3. MainInv'
    BY <1>0 DEF MainInv, vars, control, mainVars
<1> QED BY <1>1, <1>2, <1>3

-----------------------------------------------------------------------------
(* Every step of Race is a step of the group *)

LEMMA WorkerOutcome ==
    ASSUME RaceInv, NEW w \in Branches, WorkerStep(w) \/ RunPlan(w)
    PROVE UNCHANGED vars \/ Refuse(w) \/ \E o \in Outcome : Deliver(w, o)
<1>1. ASSUME NEW e, ReturnError(w, e) PROVE \E o \in Outcome : Deliver(w, o)
    BY <1>1 DEF ReturnError, Outcome, Actions
<1>2. CASE StopWork(w)
    BY <1>1, <1>2 DEF StopWork
<1>3. CASE GiveUpWork(w)
    BY <1>1, <1>3 DEF GiveUpWork
<1>4. CASE Win(w)
    <2>1. run[plan[w]].owned \in BOOLEAN
        BY <1>4, WorkersPlan DEF Win, Working, RunResult
    <2> QED BY <1>4, <2>1 DEF Win, Outcome, Actions
<1>5. CASE RefuseWorker(w)
    BY <1>5 DEF RefuseWorker
<1>6. CASE TakePlan(w) \/ Screen(w) \/ Validate(w) \/ ObserveRun(w) \/ CloseResult(w) \/ GoOn(w) \/ RunPlan(w)
    BY <1>6 DEF TakePlan, Screen, Validate, ObserveRun, CloseResult, GoOn, RunPlan
<1> QED BY <1>2, <1>3, <1>4, <1>5, <1>6 DEF WorkerStep

LEMMA RaceIsGroup == ASSUME RaceInv, [RaceNext]_allVars PROVE [GroupNext]_vars
<1>1. ASSUME NEW w \in Branches, WorkerStep(w) \/ RunPlan(w) PROVE [GroupNext]_vars
    BY <1>1, WorkerOutcome DEF GroupNext
<1>2. CASE GroupStep
    BY <1>2 DEF GroupStep, GroupNext, Collect
<1>3. CASE HostStep
    BY <1>3 DEF HostStep, CallerCloses, HostCommits, GroupNext
<1>4. CASE MainStep
    BY <1>4 DEF MainStep, Begin, Conclude, CheckWinner, Finalize, CloseWinner, GroupNext
<1>5. CASE UNCHANGED allVars
    BY <1>5 DEF allVars
<1> QED BY <1>1, <1>2, <1>3, <1>4, <1>5 DEF RaceNext

LEMMA RaceInitInv == RaceInit => RaceInv
<1> SUFFICES ASSUME RaceInit PROVE RaceInv
    OBVIOUS
<1>1. GroupInv
    BY GroupInitInv DEF RaceInit
<1>2. RaceTypeOK
    <2>1. NotRun \in RunResult /\ 0 \in 0..Plans
        BY PlanNumbers DEF NotRun, RunResult
    <2> QED BY <2>1 DEF RaceInit, RaceTypeOK, WorkerPcs
<1>3. PlanInv
    BY DEF RaceInit, Init, PlanInv, HandInv, EntryInv, JournalComplete, Busy
<1>4. MainInv /\ GateInv
    BY Numbers DEF RaceInit, Init, MainInv, GateInv, Working
<1>5. WinnerInv
    BY DEF RaceInit, Init, WinnerInv
<1> QED BY <1>1, <1>2, <1>3, <1>4, <1>5 DEF RaceInv, OwnInv

LEMMA WinnerKept == ASSUME RaceInv, [RaceNext]_allVars PROVE WinnerInv'
<1> USE DEF RaceInv, OwnInv
<1>0. outcome \in [Branches -> Outcome] /\ wpc \in [Branches -> WorkerPcs]
    BY DEF GroupInv, GroupTypeOK, RaceTypeOK
<1>1. ASSUME NEW w \in Branches, WorkerStep(w) \/ RunPlan(w) PROVE WinnerInv'
    <2>1. ASSUME NEW o, Deliver(w, o), wpc' = wpc, Wins(o) => wpc[w] = "win" PROVE WinnerInv'
        BY <2>1, Delivered DEF WinnerInv
    <2>2. ASSUME NEW e, ReturnError(w, e), wpc' = wpc PROVE WinnerInv'
        <3> DEFINE o == [err |-> e # {}, action |-> "next", payload |-> FALSE, owned |-> FALSE]
        <3>1. Deliver(w, o) /\ ~Wins(o)
            BY <2>2 DEF ReturnError, Wins
        <3> QED BY <2>1, <2>2, <3>1
    <2>3. CASE StopWork(w)
        BY <2>2, <2>3 DEF StopWork
    <2>4. CASE GiveUpWork(w)
        BY <2>2, <2>4 DEF GiveUpWork
    <2>5. CASE Win(w)
        BY <2>1, <2>5 DEF Win, Working
    <2>6. CASE RefuseWorker(w)
        <3>1. outcome' = [outcome EXCEPT ![w] = Refused] /\ wpc' = wpc
              /\ \A v \in Branches \ {w} : bpc'[v] = bpc[v]
            BY <2>6 DEF RefuseWorker, Refuse, GroupInv, GroupTypeOK
        <3> QED BY <1>0, <3>1, RefusedOutcome DEF WinnerInv
    <2>7. CASE TakePlan(w) \/ Screen(w) \/ Validate(w) \/ ObserveRun(w) \/ CloseResult(w) \/ GoOn(w) \/ RunPlan(w)
        <3>1. UNCHANGED vars /\ bpc[w] = "running" /\ \E l : Goto(w, l)
            BY <2>7 DEF TakePlan, Screen, Validate, ObserveRun, CloseResult, GoOn, RunPlan, Refuses, Working
        <3> QED BY <1>0, <3>1 DEF WinnerInv, vars, Goto
    <2> QED BY <1>1, <2>3, <2>4, <2>5, <2>6, <2>7 DEF WorkerStep
<1>2. ASSUME UNCHANGED <<wpc, outcome>>,
             GroupStep \/ CancelParent \/ (\E w \in Branches : OwnerClose(w)) \/ UNCHANGED vars
      PROVE WinnerInv'
    BY <1>2, Around DEF WinnerInv
<1>3. CASE GroupStep
    <2>1. UNCHANGED <<wpc, outcome>>
        BY <1>3 DEF GroupStep, raceVars, workerVars, branchVars, collectorVars, Start, StartRefused, SeeCancel,
           Discard, Accept, Exhaust, Release, Leave, CloseResults, Drain, EndDrain, Enter, RunHook
    <2> QED BY <1>2, <1>3, <2>1
<1>4. CASE HostStep
    BY <1>2, <1>4 DEF HostStep, CallerCloses, HostCommits, CancelParent, OwnerClose, raceVars, workerVars,
       branchVars, vars
<1>5. CASE MainStep
    BY <1>2, <1>5 DEF MainStep, Begin, Conclude, CheckWinner, Finalize, CloseWinner, OwnerClose, workerVars,
       branchVars, vars
<1>6. CASE UNCHANGED allVars
    BY <1>2, <1>6 DEF allVars, raceVars, workerVars, vars
<1> QED BY <1>1, <1>3, <1>4, <1>5, <1>6 DEF RaceNext

LEMMA RaceStepInv == RaceInv /\ [RaceNext]_allVars => RaceInv'
<1> SUFFICES ASSUME RaceInv, [RaceNext]_allVars PROVE RaceInv'
    OBVIOUS
<1>1. GroupInv'
    BY RaceIsGroup, GroupStepInv DEF RaceInv
<1>2. WinnerInv'
    BY WinnerKept
<1>3. OwnInv'
    <2>1. ASSUME NEW w \in Branches, WorkerStep(w) \/ RunPlan(w) PROVE OwnInv'
        BY <2>1, TakeRace, RunRace, ScreenRace, ValidateRace, WinRace, ObserveRace, CloseRace, GiveUpRace,
           GoOnRace, StopRace DEF WorkerStep
    <2>2. CASE MainStep
        BY <2>2, BeginRace, ConcludeRace, CheckRace, FinalizeRace, CloseWinnerRace DEF MainStep
    <2>3. CASE GroupStep
        BY <2>3, AroundRace DEF GroupStep
    <2>4. ASSUME NEW p \in 1..Plans, HostCommits(p) PROVE OwnInv'
        BY <2>4, CommitRace
    <2>5. CASE CancelParent /\ UNCHANGED raceVars
        BY <2>5, AroundRace
    <2>6. CASE CallerCloses
        BY <2>6, AroundRace DEF CallerCloses
    <2>7. CASE UNCHANGED allVars
        BY <2>7, AroundRace DEF allVars
    <2> QED BY <2>1, <2>2, <2>3, <2>4, <2>5, <2>6, <2>7 DEF RaceNext, HostStep
<1> QED BY <1>1, <1>2, <1>3 DEF RaceInv

-----------------------------------------------------------------------------
(* What Race promises *)

\* The invariant of Race: the group's, one pair of hands per plan, the journal,
\* and what Run knows at each of its steps.
THEOREM RaceSafe == RaceSpec => []RaceInv
BY RaceInitInv, RaceStepInv, PTL DEF RaceSpec

\* Race implements FirstSuccessfulPayload around its workers: Run, the workers
\* and the host take no step that the group would not take.
THEOREM RaceRefinesGroup == RaceSpec => GroupSpec
<1>1. RaceInit => Init
    BY DEF RaceInit
<1>2. RaceInv /\ [RaceNext]_allVars => [GroupNext]_vars
    BY RaceIsGroup
<1> QED BY <1>1, <1>2, RaceSafe, PTL DEF RaceSpec, GroupSpec

\* So a race leaves no worker running and no context alive either.
THEOREM RaceLeavesNothing == RaceSpec => []LeavesNothing
BY RaceRefinesGroup, GroupLeavesNothing, PTL

\* A plan that was taken is in the hands of a worker or has one entry in the
\* Journal, for any number of workers and plans and however each of them ends.
THEOREM RaceJournals == RaceSpec => []JournalComplete
<1>1. RaceInv => JournalComplete
    BY DEF RaceInv, OwnInv, PlanInv
<1> QED BY <1>1, RaceSafe, PTL

\* Once Run, the workers and the drainer have ended, only an accepted winner is
\* still open.
THEOREM RaceReleasesLosers == RaceSpec => []LosersReleased
<1>1. RaceInv => LosersReleased
    <2> SUFFICES ASSUME RaceInv, mpc = "done", drainer # "draining",
                        \A w \in Branches : bpc[w] \in {"idle", "sent"},
                        NEW p \in 1..Plans, Open(p)
                 PROVE status = "RaceAccepted" /\ \E w \in Branches : ret = w /\ plan[w] = p
        BY DEF LosersReleased
    <2>1. p \notin held
        BY DEF RaceInv, OwnInv, PlanInv, HandInv, Busy
    <2>2. PICK w \in Branches : plan[w] = p /\ bpc[w] = "sent" /\ life[w] = "open"
        BY <2>1 DEF Open
    <2>3. drainer = "done"
        BY <2>2 DEF RaceInv, OwnInv, MainInv, GroupInv, GroupTypeOK, CollectorInv, OpenInv
    <2>4. ret = w
        BY <2>2, <2>3, NoResults DEF RaceInv, GroupInv, OpenInv
    <2> QED BY <2>2, <2>4 DEF RaceInv, OwnInv, MainInv
<1> QED BY <1>1, RaceSafe, PTL

\* Once a worker has seen a control error, or Run has returned, no worker takes
\* another plan: the gate is closed or its own context is cancelled.
THEOREM RaceStopsTaking == RaceSpec => NoPlanAfterVerdict
<1>1. ASSUME RaceInv, [RaceNext]_allVars, taken' # taken
      PROVE mpc # "done" /\ \A v \in Branches : ~(Working(v, "close") /\ isControlError(werr[v]))
    <2>1. PICK w \in Branches : TakePlan(w)
        <3>1. CASE MainStep \/ GroupStep \/ HostStep
            BY <1>1, <3>1 DEF MainStep, Begin, Conclude, CheckWinner, Finalize, CloseWinner, GroupStep, HostStep,
               CallerCloses, HostCommits, raceVars, control
        <3>2. CASE UNCHANGED allVars
            BY <1>1, <3>2 DEF allVars, raceVars, control
        <3>3. ASSUME NEW w \in Branches, WorkerStep(w) \/ RunPlan(w) PROVE TakePlan(w)
            BY <1>1, <3>3 DEF WorkerStep, StopWork, Screen, Validate, Win, ObserveRun, CloseResult, GiveUpWork,
               GoOn, RefuseWorker, RunPlan, control
        <3> QED BY <1>1, <3>1, <3>2, <3>3 DEF RaceNext
    <2>2. bpc[w] = "running" /\ fatal = {} /\ w \notin cancelled
        BY <2>1 DEF TakePlan, Working, CtxDone
    <2>3. \A v \in Branches : ~(Working(v, "close") /\ isControlError(werr[v]))
        BY <1>1, <2>2 DEF RaceInv, OwnInv, GateInv
    <2>4. ~Winner(w)
        BY <1>1, <2>2 DEF RaceInv, GroupInv, CollectorInv, Winner
    <2>5. pc # "idle" /\ ~(pc = "returned" /\ drainer = "none")
        BY <1>1, <2>2 DEF RaceInv, GroupInv, CollectorInv, OpenInv
    <2>6. pc # "returned"
        BY <1>1, <2>2, <2>4, <2>5 DEF RaceInv, GroupInv, ReleaseInv
    <2> QED BY <1>1, <2>3, <2>5, <2>6 DEF RaceInv, OwnInv, MainInv
<1>2. RaceInv /\ [RaceNext]_allVars =>
        [(mpc = "done" \/ \E w \in Branches : Working(w, "close") /\ isControlError(werr[w]))
            => taken' = taken]_allVars
    BY <1>1
<1> QED BY <1>2, RaceSafe, PTL DEF RaceSpec, NoPlanAfterVerdict

\* A race that knows of a control error is never accepted, and one that was
\* accepted stays so, with the same error.
THEOREM RaceLinearizes == RaceSpec => AcceptanceLinearized
<1>1. ASSUME RaceInv, [RaceNext]_allVars
      PROVE /\ fatal # {} => status' = status
            /\ status = "RaceAccepted" => status' = status /\ raceErr' = raceErr
    <2>1. (status = "RaceAccepted" => mpc = "done") /\ (mpc = "idle" => fatal = {})
        BY <1>1 DEF RaceInv, OwnInv, MainInv
    <2>2. CASE MainStep
        BY <2>1, <2>2 DEF MainStep, Begin, Conclude, CheckWinner, Finalize, CloseWinner, Fail
    <2>3. CASE GroupStep \/ HostStep
        BY <2>3 DEF GroupStep, HostStep, CallerCloses, HostCommits, raceVars, mainVars
    <2>4. CASE UNCHANGED allVars
        BY <2>4 DEF allVars, raceVars, mainVars
    <2>5. ASSUME NEW w \in Branches, WorkerStep(w) \/ RunPlan(w) PROVE UNCHANGED mainVars
        BY <2>5 DEF WorkerStep, TakePlan, StopWork, Screen, Validate, Win, ObserveRun, CloseResult, GiveUpWork,
           GoOn, RefuseWorker, RunPlan
    <2> QED BY <1>1, <2>2, <2>3, <2>4, <2>5 DEF RaceNext, mainVars
<1>2. RaceInv /\ [RaceNext]_allVars =>
        [/\ fatal # {} => status' = status
         /\ status = "RaceAccepted" => status' = status /\ raceErr' = raceErr]_allVars
    BY <1>1
<1> QED BY <1>2, RaceSafe, PTL DEF RaceSpec, AcceptanceLinearized

-----------------------------------------------------------------------------
(* A race without a winner is honest *)

\* The errors of plans, cleanups and callbacks do not wrap ErrNoSuccessfulOutcome.
NoNestedNone ==
    /\ \A r \in RunResults : "none" \notin r.err \union r.settle
    /\ \A e \in CloseErrors \union AcceptErrors : "none" \notin e

NoNoneInv ==
    /\ "none" \notin fatal
    /\ \A w \in Branches : "none" \notin werr[w] \union closeErr[w] \union failures[w]
    /\ \A p \in 1..Plans : "none" \notin run[p].err \union settle[p]

\* What a worker has collected of its plan's errors so far.
Collected(w) ==
    /\ Working(w, "callback") => run[plan[w]].err = {}
    /\ Busy(w) /\ wpc[w] \in Refusing => (run[plan[w]].err # {} => werr[w] # {})
    /\ Working(w, "log") => closeErr[w] \subseteq werr[w] /\ werr[w] \subseteq failures[w]

WorkerWon == \E w \in Branches : bpc[w] = "sent" /\ Wins(outcome[w])
WorkerFailed == \E w \in Branches : failures[w] # {}
Carries(w) == Busy(w) /\ wpc[w] \in {"accept"} \union Refusing

\* The error of a plan is in the hands of its worker, collected, or beaten by a
\* winner.
ErrorInv ==
    \A p \in 1..Plans : run[p].err # {} =>
        WorkerFailed \/ WorkerWon \/ \E w \in Branches : Carries(w) /\ plan[w] = p

\* A worker that ends with nothing to report has seen the end of the queue.
Quiet(w) == bpc[w] = "sent" /\ failures[w] = {} => Wins(outcome[w]) \/ taken = Plans
QuietInv == ~finalized => \A w \in Branches : Quiet(w)

AcceptedInv == \A p \in 1..Plans : Accepted(p) => WorkerWon

NoneInv ==
    /\ finalized => status = "RaceAccepted"
    /\ mpc = "close" => raceErr # {}
    /\ mpc = "done" /\ status = "NoAccepted" /\ raceErr = {} => ret = NoneWon /\ ~WorkerFailed

CollectInv == \A w \in Branches : Collected(w)
HonestInv == NoNoneInv /\ CollectInv /\ ErrorInv /\ QuietInv /\ AcceptedInv /\ NoneInv

\* While a worker is in its loop, the group has not given up.
LEMMA WorkerAlive ==
    ASSUME GroupInv, NoneInv, NEW w \in Branches, bpc[w] \in {"new", "running"},
           UNCHANGED <<finalized, mpc, status, raceErr, ret>>
    PROVE NoneInv'
<1>1. ret # NoneWon
    BY DEF GroupInv, ChannelInv, CollectorInv
<1> QED BY <1>1 DEF NoneInv

\* A step of worker w, from what it does to w, its plan and the journal.
LEMMA WorkerHonest ==
    ASSUME RaceInv, HonestInv, NEW w \in Branches, bpc[w] \in {"new", "running"},
           UNCHANGED <<finalized, mpc, status, raceErr, ret>>,
           \A v \in Branches \ {w} :
              /\ bpc'[v] = bpc[v] /\ wpc'[v] = wpc[v] /\ plan'[v] = plan[v] /\ outcome'[v] = outcome[v]
              /\ werr'[v] = werr[v] /\ closeErr'[v] = closeErr[v] /\ failures'[v] = failures[v],
           \A p \in 1..Plans : run'[p] = run[p] \/ (Busy(w) /\ p = plan[w] /\ Carries(w)' /\ plan'[w] = p),
           taken = Plans => taken' = Plans,
           "none" \notin fatal' \union werr'[w] \union closeErr'[w] \union failures'[w],
           \A p \in 1..Plans : "none" \notin run'[p].err \union settle'[p],
           Collected(w)', Quiet(w)' \/ finalized,
           failures[w] # {} => failures'[w] # {} \/ WorkerWon',
           Carries(w) => \/ WorkerFailed' \/ WorkerWon' \/ run[plan[w]].err = {}
                         \/ Carries(w)' /\ plan'[w] = plan[w],
           \A p \in 1..Plans : Accepted(p)' => Accepted(p) \/ WorkerWon'
    PROVE HonestInv'
<1> USE DEF HonestInv
<1>1. NoNoneInv'
    BY DEF NoNoneInv
<1>2. WorkerWon => WorkerWon'
    BY DEF WorkerWon
<1>3. WorkerFailed => WorkerFailed' \/ WorkerWon'
    BY DEF WorkerFailed
<1>4. \A v \in Branches \ {w} : Carries(v) => Carries(v)' /\ plan'[v] = plan[v]
    BY DEF Carries, Busy
<1>5. CollectInv'
    <2>1. ASSUME NEW v \in Branches \ {w}, Busy(v) PROVE run'[plan[v]] = run[plan[v]]
        <3>1. plan[v] \in 1..Plans
            BY <2>1, WorkersPlan DEF Busy
        <3> QED BY <2>1, <3>1 DEF RaceInv, OwnInv, PlanInv, HandInv
    <2>2. ASSUME NEW v \in Branches \ {w} PROVE Collected(v)'
        <3>1. Collected(v) /\ (Busy(v)' <=> Busy(v))
            BY DEF CollectInv, Busy
        <3>2. CASE Busy(v)
            BY <2>1, <3>1, <3>2 DEF Collected, Working
        <3>3. CASE ~Busy(v)
            BY <3>1, <3>3 DEF Collected, Working, Busy
        <3> QED BY <3>2, <3>3
    <2> QED BY <2>2 DEF CollectInv
<1>6. ErrorInv'
    <2> SUFFICES ASSUME NEW p \in 1..Plans, run'[p].err # {}, ~WorkerFailed', ~WorkerWon'
                 PROVE \E v \in Branches : Carries(v)' /\ plan'[v] = p
        BY DEF ErrorInv
    <2>1. CASE run'[p] # run[p]
        BY <2>1
    <2>2. CASE run'[p] = run[p]
        <3>1. PICK v \in Branches : Carries(v) /\ plan[v] = p
            BY <1>2, <1>3, <2>2 DEF ErrorInv
        <3> QED BY <1>4, <2>2, <3>1
    <2> QED BY <2>1, <2>2
<1>7. QuietInv'
    BY DEF QuietInv, Quiet
<1>8. AcceptedInv'
    BY <1>2 DEF AcceptedInv
<1>9. NoneInv'
    BY WorkerAlive DEF RaceInv
<1> QED BY <1>1, <1>5, <1>6, <1>7, <1>8, <1>9

\* The same for a step inside the loop.
LEMMA LoopHonest ==
    ASSUME RaceInv, HonestInv, NEW w \in Branches, bpc[w] = "running", UNCHANGED <<vars, finalized, mainVars>>,
           \A v \in Branches \ {w} :
              /\ wpc'[v] = wpc[v] /\ plan'[v] = plan[v]
              /\ werr'[v] = werr[v] /\ closeErr'[v] = closeErr[v] /\ failures'[v] = failures[v],
           \A p \in 1..Plans : run'[p] = run[p] \/ (Busy(w) /\ p = plan[w] /\ Carries(w)' /\ plan'[w] = p),
           taken = Plans => taken' = Plans,
           "none" \notin fatal' \union werr'[w] \union closeErr'[w] \union failures'[w],
           \A p \in 1..Plans : "none" \notin run'[p].err \union settle'[p],
           Collected(w)', failures[w] # {} => failures'[w] # {},
           Carries(w) => WorkerFailed' \/ run[plan[w]].err = {} \/ (Carries(w)' /\ plan'[w] = plan[w]),
           \A p \in 1..Plans : Accepted(p)' => Accepted(p)
    PROVE HonestInv'
<1>1. UNCHANGED <<bpc, outcome, ret, mpc, status, raceErr>> /\ Quiet(w)'
    BY DEF vars, mainVars, Quiet
<1> QED BY <1>1, WorkerHonest

LEMMA TakeHonest == ASSUME RaceInv, HonestInv, NEW w \in Branches, TakePlan(w) PROVE HonestInv'
<1> USE DEF HonestInv
<1>0. /\ Working(w, "next") /\ taken < Plans /\ plan' = [plan EXCEPT ![w] = taken + 1]
      /\ wpc' = [wpc EXCEPT ![w] = "run"]
      /\ UNCHANGED <<vars, fatal, finalized, werr, closeErr, failures, planVars, mainVars>>
    BY DEF TakePlan, Goto
<1>1. wpc'[w] = "run" /\ \A v \in Branches \ {w} : wpc'[v] = wpc[v] /\ plan'[v] = plan[v]
    BY <1>0 DEF RaceInv, OwnInv, RaceTypeOK
<1>2. ~Carries(w) /\ Collected(w)' /\ taken # Plans
    BY <1>0, <1>1, PlanNumbers DEF Carries, Busy, Working, Collected, Refusing
<1>3. /\ "none" \notin fatal' \union werr'[w] \union closeErr'[w] \union failures'[w]
      /\ \A p \in 1..Plans : "none" \notin run'[p].err \union settle'[p]
    BY <1>0 DEF NoNoneInv, planVars
<1>4. \A p \in 1..Plans : Accepted(p)' => Accepted(p)
    BY <1>0 DEF Accepted, planVars
<1> QED BY <1>0, <1>1, <1>2, <1>3, <1>4, LoopHonest DEF Working, planVars

LEMMA RunHonest ==
    ASSUME RaceInv, HonestInv, NoNestedNone, NEW w \in Branches, RunPlan(w) PROVE HonestInv'
<1> USE DEF HonestInv
<1>0. /\ Working(w, "run") /\ Goto(w, "accept")
      /\ UNCHANGED <<vars, control, plan, werr, closeErr, failures, committed, journal, mainVars>>
    BY DEF RunPlan
<1>1. PICK r \in RunResults :
        run' = [run EXCEPT ![plan[w]] = r] /\ settle' = [settle EXCEPT ![plan[w]] = r.settle]
    BY DEF RunPlan
<1>2. wpc'[w] = "accept" /\ \A v \in Branches \ {w} : wpc'[v] = wpc[v]
    BY <1>0 DEF RaceInv, OwnInv, RaceTypeOK, Goto
<1>3. Busy(w) /\ ~Carries(w) /\ Carries(w)' /\ Collected(w)'
    BY <1>0, <1>2 DEF Carries, Busy, Working, Collected, Refusing, vars
<1>4. plan[w] \in 1..Plans /\ run \in [1..Plans -> RunResult] /\ settle \in [1..Plans -> SUBSET Kinds]
    BY <1>0, WorkersPlan DEF Working, RaceInv, OwnInv, RaceTypeOK
<1>5. \A p \in 1..Plans : run'[p] = run[p] \/ p = plan[w]
    BY <1>1, <1>4
<1>6. \A p \in 1..Plans : "none" \notin run'[p].err \union settle'[p]
    <2>1. run'[plan[w]] = r /\ settle'[plan[w]] = r.settle
          /\ \A p \in 1..Plans \ {plan[w]} : run'[p] = run[p] /\ settle'[p] = settle[p]
        BY <1>1, <1>4
    <2> QED BY <2>1 DEF NoNoneInv, NoNestedNone
<1>7. "none" \notin fatal' \union werr'[w] \union closeErr'[w] \union failures'[w]
    BY <1>0 DEF NoNoneInv, control
<1>8. \A p \in 1..Plans : Accepted(p)' => Accepted(p)
    BY <1>0 DEF Accepted
<1> QED BY <1>0, <1>2, <1>3, <1>5, <1>6, <1>7, <1>8, LoopHonest DEF Working, control

\* accept: a plan whose Run failed is refused with an error.
LEMMA JudgeHonest ==
    ASSUME RaceInv, HonestInv, NEW w \in Branches, Busy(w), NEW e, NEW l \in {"observe", "close", "callback", "win"},
           wpc[w] \in {"accept", "callback"}, Goto(w, l), werr' = [werr EXCEPT ![w] = e], "none" \notin e,
           run[plan[w]].err # {} => l \in {"observe", "close"} /\ e # {},
           UNCHANGED <<vars, control, plan, closeErr, failures, planVars, mainVars>>
    PROVE HonestInv'
<1> USE DEF HonestInv
<1>1. /\ wpc'[w] = l /\ werr'[w] = e
      /\ \A v \in Branches \ {w} : wpc'[v] = wpc[v] /\ werr'[v] = werr[v]
    BY DEF RaceInv, OwnInv, RaceTypeOK, Goto
<1>2. UNCHANGED <<bpc, fatal, finalized, taken, run, settle, journal>>
    BY DEF vars, control, planVars
<1>3. Collected(w)'
    BY <1>1, <1>2 DEF Collected, Working, Busy, Refusing
<1>4. Carries(w) => run[plan[w]].err = {} \/ (Carries(w)' /\ plan'[w] = plan[w])
    BY <1>1, <1>2 DEF Carries, Busy, Refusing
<1>5. "none" \notin fatal' \union werr'[w] \union closeErr'[w] \union failures'[w]
    BY <1>1, <1>2 DEF NoNoneInv
<1>6. \A p \in 1..Plans : "none" \notin run'[p].err \union settle'[p]
    BY <1>2 DEF NoNoneInv
<1>7. \A p \in 1..Plans : Accepted(p)' => Accepted(p)
    BY <1>2 DEF Accepted
<1> QED BY <1>1, <1>2, <1>3, <1>4, <1>5, <1>6, <1>7, LoopHonest DEF Busy

\* Refuses and Goto in one form.
LEMMA RefusesHonest ==
    ASSUME RaceInv, HonestInv, NEW w \in Branches, Busy(w), wpc[w] \in {"accept", "callback"},
           UNCHANGED <<vars, control, plan, closeErr, failures, planVars, mainVars>>,
           \/ \E e : Refuses(w, e) /\ "none" \notin e /\ (run[plan[w]].err # {} => e # {})
           \/ \E l \in {"callback", "win"} : Goto(w, l) /\ UNCHANGED werr /\ run[plan[w]].err = {}
    PROVE HonestInv'
<1>1. CASE \E e : Refuses(w, e) /\ "none" \notin e /\ (run[plan[w]].err # {} => e # {})
    <2>1. PICK e : Refuses(w, e) /\ "none" \notin e /\ (run[plan[w]].err # {} => e # {})
        BY <1>1
    <2>2. werr' = [werr EXCEPT ![w] = e] /\ (Goto(w, "observe") \/ Goto(w, "close"))
        BY <2>1 DEF Refuses
    <2> QED BY <2>1, <2>2, JudgeHonest
<1>2. CASE \E l \in {"callback", "win"} : Goto(w, l) /\ UNCHANGED werr /\ run[plan[w]].err = {}
    <2>1. werr' = [werr EXCEPT ![w] = werr[w]] /\ "none" \notin werr[w]
        BY <1>2 DEF RaceInv, OwnInv, RaceTypeOK, HonestInv, NoNoneInv
    <2> QED BY <1>2, <2>1, JudgeHonest
<1> QED BY <1>1, <1>2

LEMMA HonestFacts ==
    ASSUME HonestInv, NEW p \in 1..Plans
    PROVE "none" \notin Facts(p) /\ "none" \notin run[p].err
BY DEF HonestInv, NoNoneInv, Facts

LEMMA ScreenHonest == ASSUME RaceInv, HonestInv, NEW w \in Branches, Screen(w) PROVE HonestInv'
<1>1. /\ Busy(w) /\ wpc[w] = "accept"
      /\ UNCHANGED <<vars, control, plan, closeErr, failures, planVars, mainVars>>
    BY DEF Screen, Working, Busy
<1>2. "none" \notin Facts(plan[w]) /\ "none" \notin run[plan[w]].err /\ "none" \notin {"ctx"}
    BY <1>1, WorkersPlan, HonestFacts
<1>3. \/ \E e : Refuses(w, e) /\ "none" \notin e /\ (run[plan[w]].err # {} => e # {})
      \/ \E l \in {"callback", "win"} : Goto(w, l) /\ UNCHANGED werr /\ run[plan[w]].err = {}
    <2>1. CASE run[plan[w]].err # {} \/ ~run[plan[w]].started
        <3>1. Refuses(w, run[plan[w]].err)
            BY <2>1 DEF Screen
        <3> QED BY <1>2, <3>1
    <2>2. CASE run[plan[w]].err = {} /\ run[plan[w]].started
        <3>1. Refuses(w, {}) \/ Refuses(w, Facts(plan[w])) \/ Refuses(w, {"ctx"}) \/ (Goto(w, "callback") /\ UNCHANGED werr)
            BY <2>2 DEF Screen
        <3> QED BY <1>2, <2>2, <3>1
    <2> QED BY <2>1, <2>2
<1> QED BY <1>1, <1>3, RefusesHonest

LEMMA ValidateHonest ==
    ASSUME RaceInv, HonestInv, NoNestedNone, NEW w \in Branches, Validate(w) PROVE HonestInv'
<1>1. /\ Busy(w) /\ wpc[w] = "callback" /\ run[plan[w]].err = {}
      /\ UNCHANGED <<vars, control, plan, closeErr, failures, planVars, mainVars>>
    BY DEF Validate, Working, Busy, HonestInv, CollectInv, Collected
<1>2. "none" \notin Facts(plan[w]) /\ "none" \notin {"ctx"} /\ \A e \in AcceptErrors : "none" \notin e
    BY <1>1, WorkersPlan, HonestFacts DEF NoNestedNone
<1>3. \/ \E e \in AcceptErrors : Refuses(w, e)
      \/ Refuses(w, Facts(plan[w])) \/ Refuses(w, {"ctx"}) \/ (Goto(w, "win") /\ UNCHANGED werr)
    BY DEF Validate
<1>4. \/ \E e : Refuses(w, e) /\ "none" \notin e /\ (run[plan[w]].err # {} => e # {})
      \/ \E l \in {"callback", "win"} : Goto(w, l) /\ UNCHANGED werr /\ run[plan[w]].err = {}
    BY <1>1, <1>2, <1>3
<1> QED BY <1>1, <1>4, RefusesHonest

LEMMA ObserveHonest == ASSUME RaceInv, HonestInv, NEW w \in Branches, ObserveRun(w) PROVE HonestInv'
<1> USE DEF HonestInv
<1>0. /\ Working(w, "observe") /\ Observe(werr[w]) /\ Goto(w, "close")
      /\ UNCHANGED <<vars, taken, finalized, plan, werr, closeErr, failures, planVars, mainVars>>
    BY DEF ObserveRun
<1>1. wpc'[w] = "close" /\ \A v \in Branches \ {w} : wpc'[v] = wpc[v]
    BY <1>0 DEF RaceInv, OwnInv, RaceTypeOK, Goto
<1>2. UNCHANGED <<bpc, run, settle, journal>>
    BY <1>0 DEF vars, planVars
<1>3. Collected(w)'
    <2>1. Busy(w) /\ wpc[w] \in Refusing /\ Collected(w)
        BY <1>0 DEF Working, Busy, Refusing, CollectInv
    <2>2. run[plan[w]].err # {} => werr[w] # {}
        BY <2>1 DEF Collected
    <2> QED BY <1>0, <1>1, <1>2, <2>2 DEF Collected, Working
<1>4. Carries(w)' /\ plan'[w] = plan[w]
    BY <1>0, <1>1, <1>2 DEF Carries, Busy, Working, Refusing
<1>5. "none" \notin fatal' \union werr'[w] \union closeErr'[w] \union failures'[w]
    <2>1. fatal' \subseteq fatal \union werr[w]
        BY <1>0 DEF Observe
    <2> QED BY <1>0, <2>1 DEF NoNoneInv
<1>6. \A p \in 1..Plans : "none" \notin run'[p].err \union settle'[p]
    BY <1>2 DEF NoNoneInv
<1>7. \A p \in 1..Plans : Accepted(p)' => Accepted(p)
    BY <1>2 DEF Accepted
<1> QED BY <1>0, <1>1, <1>2, <1>3, <1>4, <1>5, <1>6, <1>7, LoopHonest DEF Working

LEMMA CloseHonest ==
    ASSUME RaceInv, HonestInv, NoNestedNone, NEW w \in Branches, CloseResult(w) PROVE HonestInv'
<1> USE DEF HonestInv
<1>0. /\ Working(w, "close") /\ Goto(w, "log")
      /\ UNCHANGED <<vars, control, plan, run, committed, settle, journal, mainVars>>
    BY DEF CloseResult
<1>1. PICK e \in SUBSET Kinds, c \in SUBSET Kinds :
        /\ e = {} \/ e \in CloseErrors
        /\ c = e \union settle[plan[w]]
        /\ closeErr' = [closeErr EXCEPT ![w] = c]
        /\ werr' = [werr EXCEPT ![w] = werr[w] \union c]
        /\ failures' = [failures EXCEPT ![w] = failures[w] \union werr[w] \union c]
    BY CloseWrites
<1>2. "none" \notin c
    <2>1. plan[w] \in 1..Plans
        BY <1>0, WorkersPlan DEF Working
    <2> QED BY <1>1, <2>1 DEF NoNoneInv, NoNestedNone
<1>3. /\ wpc'[w] = "log" /\ closeErr'[w] = c /\ werr'[w] = werr[w] \union c
      /\ failures'[w] = failures[w] \union werr[w] \union c
      /\ \A v \in Branches \ {w} : /\ wpc'[v] = wpc[v] /\ werr'[v] = werr[v]
                                   /\ closeErr'[v] = closeErr[v] /\ failures'[v] = failures[v]
    BY <1>0, <1>1 DEF RaceInv, OwnInv, RaceTypeOK, Goto
<1>4. UNCHANGED <<bpc, fatal, finalized, taken>>
    BY <1>0 DEF vars, control
<1>5. Collected(w)'
    <2>1. Busy(w) /\ wpc[w] \in Refusing /\ Collected(w)
        BY <1>0 DEF Working, Busy, Refusing, CollectInv
    <2>2. run[plan[w]].err # {} => werr[w] # {}
        BY <2>1 DEF Collected
    <2> QED BY <1>0, <1>3, <2>2 DEF Collected, Working
<1>6. Carries(w)' /\ plan'[w] = plan[w]
    BY <1>0, <1>3, <1>4 DEF Carries, Busy, Working, Refusing
<1>7. "none" \notin fatal' \union werr'[w] \union closeErr'[w] \union failures'[w]
    BY <1>2, <1>3, <1>4 DEF NoNoneInv
<1>8. \A p \in 1..Plans : "none" \notin run'[p].err \union settle'[p]
    BY <1>0 DEF NoNoneInv
<1>9. \A p \in 1..Plans : Accepted(p)' => Accepted(p)
    BY <1>0 DEF Accepted
<1> QED BY <1>0, <1>3, <1>4, <1>5, <1>6, <1>7, <1>8, <1>9, LoopHonest DEF Working

\* A worker at its log entry that has an error to report has collected it.
LEMMA LoggedErrors ==
    ASSUME RaceInv, HonestInv, NEW w \in Branches, Working(w, "log")
    PROVE /\ closeErr[w] \subseteq werr[w] /\ werr[w] \subseteq failures[w]
          /\ run[plan[w]].err # {} => werr[w] # {}
<1>1. Collected(w) /\ Busy(w) /\ wpc[w] \in Refusing
    BY DEF HonestInv, CollectInv, Working, Busy, Refusing
<1> QED BY <1>1 DEF Collected

LEMMA RefusalLogged ==
    ASSUME NEW q, Record(q, FALSE)
    PROVE \A p \in 1..Plans : Accepted(p)' => Accepted(p)
<1>1. \A p \in 1..Plans : [plan |-> p, accepted |-> TRUE] # [plan |-> q, accepted |-> FALSE]
    <2>1. \A p : [plan |-> p, accepted |-> TRUE].accepted /\ ~[plan |-> q, accepted |-> FALSE].accepted
        OBVIOUS
    <2> QED BY <2>1
<1> QED BY <1>1 DEF Record, Accepted

LEMMA GoOnHonest == ASSUME RaceInv, HonestInv, NEW w \in Branches, GoOn(w) PROVE HonestInv'
<1> USE DEF HonestInv
<1>0. /\ Working(w, "log") /\ Observe(closeErr[w]) /\ Record(plan[w], FALSE) /\ Forget(w) /\ Goto(w, "next")
      /\ UNCHANGED <<vars, taken, finalized, plan, failures, run, held, committed, settle, mainVars>>
    BY DEF GoOn
<1>1. wpc'[w] = "next" /\ \A v \in Branches \ {w} : wpc'[v] = wpc[v]
    BY <1>0 DEF RaceInv, OwnInv, RaceTypeOK, Goto
<1>2. /\ werr'[w] = {} /\ closeErr'[w] = {}
      /\ \A v \in Branches \ {w} : werr'[v] = werr[v] /\ closeErr'[v] = closeErr[v]
    BY <1>0, Forgot DEF RaceInv, OwnInv
<1>3. Collected(w)'
    BY <1>1 DEF Collected, Working, Refusing
<1>4. WorkerFailed' \/ run[plan[w]].err = {}
    BY <1>0, LoggedErrors DEF WorkerFailed
<1>5. "none" \notin fatal' \union werr'[w] \union closeErr'[w] \union failures'[w]
    <2>1. fatal' \subseteq fatal \union closeErr[w]
        BY <1>0 DEF Observe
    <2> QED BY <1>0, <1>2, <2>1 DEF NoNoneInv
<1>6. \A p \in 1..Plans : "none" \notin run'[p].err \union settle'[p]
    BY <1>0 DEF NoNoneInv
<1>7. \A p \in 1..Plans : Accepted(p)' => Accepted(p)
    BY <1>0, RefusalLogged
<1> QED BY <1>0, <1>1, <1>2, <1>3, <1>4, <1>5, <1>6, <1>7, LoopHonest DEF Working

\* A worker whose step is a delivery, with the error e it reports.
LEMMA DeliverHonest ==
    ASSUME RaceInv, HonestInv, NEW w \in Branches, NEW o, Deliver(w, o), NEW e,
           failures' = [failures EXCEPT ![w] = e], "none" \notin fatal' \union e,
           UNCHANGED <<taken, finalized, wpc, plan, run, settle, mainVars>>,
           \/ UNCHANGED <<werr, closeErr>> \/ Forget(w),
           e = {} => Wins(o) \/ (failures[w] = {} /\ ~Carries(w) /\ (finalized \/ taken = Plans)),
           \A p \in 1..Plans : Accepted(p)' => Accepted(p) \/ Wins(o)
    PROVE HonestInv'
<1> USE DEF HonestInv
<1>1. /\ bpc[w] = "running" /\ bpc'[w] = "sent" /\ outcome'[w] = o /\ ret' = ret
      /\ \A v \in Branches \ {w} : bpc'[v] = bpc[v] /\ outcome'[v] = outcome[v]
    BY Delivered DEF RaceInv
<1>2. failures'[w] = e /\ \A v \in Branches \ {w} : failures'[v] = failures[v]
    BY DEF RaceInv, OwnInv, RaceTypeOK
<1>3. /\ "none" \notin werr'[w] \union closeErr'[w]
      /\ \A v \in Branches \ {w} : werr'[v] = werr[v] /\ closeErr'[v] = closeErr[v]
    BY Forgot DEF RaceInv, OwnInv, NoNoneInv
<1>4. Wins(o) => WorkerWon'
    BY <1>1 DEF WorkerWon
<1>5. e # {} => WorkerFailed'
    BY <1>2 DEF WorkerFailed
<1>6. Collected(w)' /\ (Quiet(w)' \/ finalized)
    BY <1>1, <1>2 DEF Collected, Working, Busy, Quiet
<1>7. \A p \in 1..Plans : "none" \notin run'[p].err \union settle'[p]
    BY DEF NoNoneInv
<1>8. \A p \in 1..Plans : Accepted(p)' => Accepted(p) \/ WorkerWon'
    BY <1>4
<1> QED BY <1>1, <1>2, <1>3, <1>4, <1>5, <1>6, <1>7, <1>8, WorkerHonest DEF mainVars

LEMMA WinHonest == ASSUME RaceInv, HonestInv, NEW w \in Branches, Win(w) PROVE HonestInv'
<1> DEFINE o == [err |-> FALSE, action |-> "stop", payload |-> TRUE, owned |-> run[plan[w]].owned]
<1>1. Deliver(w, o) /\ Wins(o)
    BY DEF Win, Wins
<1>2. /\ failures' = [failures EXCEPT ![w] = {}]
      /\ UNCHANGED <<taken, fatal, finalized, wpc, plan, werr, closeErr, run, settle, mainVars>>
    BY DEF Win, control
<1>3. "none" \notin fatal' \union {}
    BY <1>2 DEF HonestInv, NoNoneInv
<1> QED BY <1>1, <1>2, <1>3, DeliverHonest

LEMMA GiveUpHonest == ASSUME RaceInv, HonestInv, NEW w \in Branches, GiveUpWork(w) PROVE HonestInv'
<1> DEFINE e == werr[w] \union fatal'
           o == [err |-> e # {}, action |-> "next", payload |-> FALSE, owned |-> FALSE]
<1>1. /\ Deliver(w, o) /\ failures' = [failures EXCEPT ![w] = e] /\ Forget(w)
      /\ UNCHANGED <<taken, finalized, wpc, plan, run, settle, mainVars>>
      /\ Working(w, "log") /\ Observe(closeErr[w]) /\ Record(plan[w], FALSE) /\ Stops(w)
    BY DEF GiveUpWork, ReturnError
<1>2. e # {}
    BY <1>1, LoggedErrors DEF Stops
<1>3. "none" \notin fatal' \union e
    <2>1. fatal' \subseteq fatal \union closeErr[w]
        BY <1>1 DEF Observe
    <2> QED BY <2>1 DEF HonestInv, NoNoneInv
<1>4. \A p \in 1..Plans : Accepted(p)' => Accepted(p)
    BY <1>1, RefusalLogged
<1> HIDE DEF e, o
<1> QED BY <1>1, <1>2, <1>3, <1>4, DeliverHonest

LEMMA StopHonest == ASSUME RaceInv, HonestInv, NEW w \in Branches, StopWork(w) PROVE HonestInv'
<1> DEFINE e == IF fatal # {} THEN fatal ELSE IF ~finalized /\ CtxDone(w) THEN {"ctx"} ELSE failures[w]
           o == [err |-> e # {}, action |-> "next", payload |-> FALSE, owned |-> FALSE]
<1>1. /\ Deliver(w, o) /\ failures' = [failures EXCEPT ![w] = e] /\ Working(w, "next")
      /\ fatal # {} \/ finalized \/ CtxDone(w) \/ taken = Plans
      /\ UNCHANGED <<taken, fatal, finalized, wpc, plan, werr, closeErr, run, settle, journal, mainVars>>
    BY DEF StopWork, ReturnError, control, planVars
<1>2. e = {} => failures[w] = {} /\ (finalized \/ taken = Plans)
    BY <1>1
<1>3. "none" \notin fatal' \union e
    BY <1>1 DEF HonestInv, NoNoneInv
<1>4. ~Carries(w) /\ \A p \in 1..Plans : Accepted(p)' => Accepted(p)
    BY <1>1 DEF Carries, Busy, Working, Accepted
<1> HIDE DEF e, o
<1> QED BY <1>1, <1>2, <1>3, <1>4, DeliverHonest

LEMMA RefuseHonest == ASSUME RaceInv, HonestInv, NEW w \in Branches, RefuseWorker(w) PROVE HonestInv'
<1> USE DEF HonestInv
<1>0. /\ Refuse(w) /\ failures' = [failures EXCEPT ![w] = {"ctx"}]
      /\ UNCHANGED <<taken, fatal, finalized, wpc, plan, werr, closeErr, run, settle, journal, mpc, status, raceErr>>
    BY DEF RefuseWorker, control, planVars, mainVars
<1>1. /\ bpc[w] = "new" /\ bpc'[w] = "sent" /\ ret' = ret
      /\ \A v \in Branches \ {w} : bpc'[v] = bpc[v] /\ outcome'[v] = outcome[v]
    BY <1>0 DEF Refuse, collectorVars, RaceInv, GroupInv, GroupTypeOK
<1>2. failures'[w] = {"ctx"} /\ \A v \in Branches \ {w} : failures'[v] = failures[v]
    BY <1>0 DEF RaceInv, OwnInv, RaceTypeOK
<1>3. Collected(w)' /\ Quiet(w)' /\ ~Carries(w)
    BY <1>1, <1>2 DEF Collected, Working, Busy, Quiet, Carries
<1>4. "none" \notin fatal' \union werr'[w] \union closeErr'[w] \union failures'[w]
    BY <1>0, <1>2 DEF NoNoneInv
<1>5. \A p \in 1..Plans : "none" \notin run'[p].err \union settle'[p]
    BY <1>0 DEF NoNoneInv
<1>6. \A p \in 1..Plans : Accepted(p)' => Accepted(p)
    BY <1>0 DEF Accepted
<1> QED BY <1>0, <1>1, <1>2, <1>3, <1>4, <1>5, <1>6, WorkerHonest

\* A step that no worker takes.
LEMMA SameHonest ==
    ASSUME HonestInv, UNCHANGED <<taken, fatal, wpc, plan, werr, closeErr, failures, run, journal, outcome>>,
           finalized => finalized', NoneInv',
           \A p \in 1..Plans : "none" \notin settle'[p],
           \A w \in Branches : (Busy(w)' <=> Busy(w)) /\ (bpc'[w] = "sent" <=> bpc[w] = "sent")
    PROVE HonestInv'
<1> USE DEF HonestInv
<1>1. NoNoneInv'
    BY DEF NoNoneInv
<1>2. CollectInv'
    BY DEF CollectInv, Collected, Working, Busy
<1>3. (WorkerWon' <=> WorkerWon) /\ (WorkerFailed' <=> WorkerFailed)
    BY DEF WorkerWon, WorkerFailed
<1>4. ErrorInv'
    BY <1>3 DEF ErrorInv, Carries
<1>5. QuietInv'
    BY DEF QuietInv, Quiet
<1>6. AcceptedInv'
    BY <1>3 DEF AcceptedInv, Accepted
<1> QED BY <1>1, <1>2, <1>4, <1>5, <1>6

LEMMA OutcomesKept ==
    ASSUME GroupStep \/ CancelParent \/ (\E w \in Branches : OwnerClose(w)) \/ UNCHANGED vars
    PROVE outcome' = outcome
BY DEF GroupStep, vars, branchVars, collectorVars, Start, StartRefused, SeeCancel, Discard, Accept, Exhaust,
   Release, Leave, CloseResults, Drain, EndDrain, Enter, RunHook, CancelParent, OwnerClose

LEMMA AroundHonest ==
    ASSUME RaceInv, HonestInv, UNCHANGED raceVars,
           GroupStep \/ CancelParent \/ (\E w \in Branches : OwnerClose(w)) \/ UNCHANGED vars
    PROVE HonestInv'
<1> USE DEF HonestInv
<1>0. /\ UNCHANGED <<taken, fatal, finalized, wpc, plan, werr, closeErr, failures, run, settle, journal,
                     mpc, status, raceErr>>
    BY DEF raceVars, control, workerVars, planVars, mainVars
<1>1. \A w \in Branches : (Busy(w)' <=> Busy(w)) /\ (bpc'[w] = "sent" <=> bpc[w] = "sent")
    BY <1>0, Around DEF Busy, RaceInv, OwnInv, PlanInv, HandInv
<1>2. NoneInv'
    <2>1. mpc = "done" => ret' = ret
        BY Around DEF RaceInv, OwnInv, MainInv
    <2> QED BY <1>0, <2>1 DEF NoneInv, WorkerFailed
<1>3. \A p \in 1..Plans : "none" \notin settle'[p]
    BY <1>0 DEF NoNoneInv
<1> QED BY <1>0, <1>1, <1>2, <1>3, OutcomesKept, SameHonest

\* GroupErr is "none" only when no worker has failed.
LEMMA GroupErrHonest ==
    ASSUME HonestInv, "none" \in GroupErr
    PROVE ret = NoneWon /\ ~WorkerFailed
<1>1. "none" \notin UNION {failures[w] : w \in Branches}
    BY DEF HonestInv, NoNoneInv
<1>2. ret = NoneWon /\ UNION {failures[w] : w \in Branches} = {}
    BY <1>1 DEF GroupErr
<1> QED BY <1>2 DEF WorkerFailed

LEMMA MainHonest == ASSUME RaceInv, HonestInv, MainStep PROVE HonestInv'
<1> USE DEF HonestInv
<1>0. /\ UNCHANGED <<taken, fatal, wpc, plan, werr, closeErr, failures, run, settle, journal>>
      /\ (\E w \in Branches : OwnerClose(w)) \/ UNCHANGED vars
    BY DEF MainStep, Begin, Conclude, CheckWinner, Finalize, CloseWinner, control, workerVars, planVars
<1>1. bpc' = bpc /\ ret' = ret
    BY <1>0 DEF OwnerClose, branchVars, collectorVars, vars
<1>2. (WorkerFailed' <=> WorkerFailed) /\ \A w \in Branches : (Busy(w)' <=> Busy(w))
    BY <1>0, <1>1 DEF WorkerFailed, Busy
<1>3. (finalized => finalized') /\ NoneInv'
    <2>1. mpc # "done" => ~finalized
        BY DEF RaceInv, OwnInv, MainInv, NoneInv
    <2>2. CASE Begin
        BY <1>1, <1>2, <2>1, <2>2 DEF Begin, NoneInv, control
    <2>3. CASE Conclude
        <3>1. UNCHANGED <<finalized, status>> /\ mpc = "racing"
              /\ \/ mpc' = "close" /\ raceErr' = fatal \union GroupErr /\ fatal # {}
                 \/ mpc' = "check"
                 \/ mpc' = "done" /\ GroupErr # {} /\ raceErr' = (IF "none" \in GroupErr THEN {} ELSE GroupErr)
            BY <2>3 DEF Conclude, Fail
        <3> QED BY <1>1, <1>2, <2>1, <3>1, GroupErrHonest DEF NoneInv
    <2>4. CASE CheckWinner
        <3>1. UNCHANGED <<finalized, status>> /\ mpc = "check"
              /\ \/ mpc' = "close" /\ raceErr' # {}
                 \/ mpc' = "finalize"
            BY <2>4 DEF CheckWinner, Fail
        <3> QED BY <2>1, <3>1 DEF NoneInv
    <2>5. CASE Finalize
        <3>1. /\ mpc = "finalize"
              /\ \/ mpc' = "close" /\ raceErr' = fatal /\ fatal # {} /\ UNCHANGED <<finalized, status>>
                 \/ mpc' = "done" /\ finalized' = TRUE /\ status' = "RaceAccepted"
            BY <2>5 DEF Finalize, Fail
        <3> QED BY <2>1, <3>1 DEF NoneInv
    <2>6. CASE CloseWinner
        BY <2>6 DEF CloseWinner, NoneInv, control
    <2> QED BY <2>2, <2>3, <2>4, <2>5, <2>6 DEF MainStep
<1>4. \A p \in 1..Plans : "none" \notin settle'[p]
    BY <1>0 DEF NoNoneInv
<1> QED BY <1>0, <1>1, <1>2, <1>3, <1>4, OutcomesKept, SameHonest

LEMMA CommitHonest ==
    ASSUME RaceInv, HonestInv, NoNestedNone, NEW p \in 1..Plans, HostCommits(p) PROVE HonestInv'
<1> USE DEF HonestInv
<1>0. UNCHANGED <<vars, control, workerVars, run, journal, mainVars>>
    BY DEF HostCommits
<1>1. UNCHANGED <<taken, fatal, finalized, wpc, plan, werr, closeErr, failures, bpc, outcome, ret, mpc, status, raceErr>>
    BY <1>0 DEF vars, control, workerVars, mainVars
<1>2. \A q \in 1..Plans : "none" \notin settle'[q]
    <2>1. PICK s \in (IF run[p].owned THEN {settle[p]} ELSE CloseErrors) : settle' = [settle EXCEPT ![p] = s]
        BY DEF HostCommits
    <2>2. "none" \notin s
        BY <2>1 DEF NoNoneInv, NoNestedNone
    <2>3. \A q \in 1..Plans : settle'[q] = s \/ settle'[q] = settle[q]
        BY <2>1 DEF RaceInv, OwnInv, RaceTypeOK
    <2> QED BY <2>2, <2>3 DEF NoNoneInv
<1>3. NoneInv' /\ \A w \in Branches : (Busy(w)' <=> Busy(w))
    BY <1>1 DEF NoneInv, WorkerFailed, Busy
<1> QED BY <1>0, <1>1, <1>2, <1>3, SameHonest

LEMMA HonestInitInv == RaceInit => HonestInv
<1> SUFFICES ASSUME RaceInit PROVE HonestInv
    OBVIOUS
<1>1. \A p \in 1..Plans : run[p].err = {} /\ settle[p] = {}
    BY DEF RaceInit, NotRun
<1>2. NoNoneInv
    BY <1>1 DEF RaceInit, NoNoneInv
<1>3. CollectInv
    BY DEF RaceInit, CollectInv, Collected, Working, Refusing
<1>4. ErrorInv /\ AcceptedInv
    BY <1>1 DEF RaceInit, ErrorInv, AcceptedInv, Accepted
<1>5. QuietInv /\ NoneInv
    BY DEF RaceInit, Init, QuietInv, Quiet, NoneInv
<1> QED BY <1>2, <1>3, <1>4, <1>5 DEF HonestInv

LEMMA HonestStepInv ==
    ASSUME NoNestedNone, RaceInv, HonestInv, [RaceNext]_allVars PROVE HonestInv'
<1>1. ASSUME NEW w \in Branches, WorkerStep(w) \/ RunPlan(w) PROVE HonestInv'
    BY <1>1, TakeHonest, RunHonest, ScreenHonest, ValidateHonest, WinHonest, ObserveHonest, CloseHonest,
       GiveUpHonest, GoOnHonest, StopHonest, RefuseHonest DEF WorkerStep
<1>2. CASE MainStep
    BY <1>2, MainHonest
<1>3. CASE GroupStep
    BY <1>3, AroundHonest DEF GroupStep
<1>4. ASSUME NEW p \in 1..Plans, HostCommits(p) PROVE HonestInv'
    BY <1>4, CommitHonest
<1>5. CASE CancelParent /\ UNCHANGED raceVars
    BY <1>5, AroundHonest
<1>6. CASE CallerCloses
    BY <1>6, AroundHonest DEF CallerCloses
<1>7. CASE UNCHANGED allVars
    BY <1>7, AroundHonest DEF allVars
<1> QED BY <1>1, <1>2, <1>3, <1>4, <1>5, <1>6, <1>7 DEF RaceNext, HostStep

\* "NoAccepted" without an error means that every plan was tried, none accepted
\* and none failed, as long as no plan's error, cleanup or callback wraps
\* ErrNoSuccessfulOutcome: no error and no cancelled worker is lost on the way.
THEOREM RaceIsHonest == NoNestedNone => (RaceSpec => []NoAcceptedIsHonest)
<1> SUFFICES ASSUME NoNestedNone PROVE RaceSpec => []NoAcceptedIsHonest
    OBVIOUS
<1>1. RaceInit => HonestInv
    BY HonestInitInv
<1>2. RaceInv /\ HonestInv /\ [RaceNext]_allVars => HonestInv'
    BY HonestStepInv
<1>3. RaceInv /\ HonestInv => NoAcceptedIsHonest
    <2> SUFFICES ASSUME RaceInv, HonestInv, mpc = "done", status = "NoAccepted", raceErr = {}, NEW p \in 1..Plans
                 PROVE p <= taken /\ ~Accepted(p) /\ run[p].err = {}
        BY DEF NoAcceptedIsHonest
    <2>1. ret = NoneWon /\ ~WorkerFailed /\ ~finalized
        BY DEF HonestInv, NoneInv
    <2>2. \A w \in Branches : bpc[w] = "sent" /\ ~Wins(outcome[w]) /\ failures[w] = {}
        BY <2>1 DEF RaceInv, GroupInv, ChannelInv, CollectorInv, WorkerFailed
    <2>3. taken = Plans
        <3>1. 1 \in Branches
            BY Numbers
        <3> QED BY <2>1, <2>2, <3>1 DEF HonestInv, QuietInv, Quiet
    <2>4. ~WorkerWon /\ \A w \in Branches : ~Carries(w)
        BY <2>2 DEF WorkerWon, Carries, Busy
    <2>5. ~Accepted(p) /\ run[p].err = {}
        BY <2>1, <2>4 DEF HonestInv, AcceptedInv, ErrorInv
    <2> QED BY <2>3, <2>5
<1> QED BY <1>1, <1>2, <1>3, RaceSafe, PTL DEF RaceSpec

=============================================================================
