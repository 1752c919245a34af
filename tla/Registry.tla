------------------------------ MODULE Registry ------------------------------
(***************************************************************************)
(* Route tables as they are built (route_table.go) and the registry that   *)
(* replaces its immutable snapshot on every accepted registration          *)
(* (registry.go), with readers that keep routing on a snapshot they        *)
(* loaded before.  Register and Unregister hold registry.mu from the look  *)
(* at the specs to the Store, and readers only see the Store, so each is   *)
(* one step.  Keys and prefixes are sequences of letters.                  *)
(***************************************************************************)
EXTENDS Integers, Sequences, FiniteSets, SequencesExt

CONSTANTS
    Specs,          \* what callers register: raw id, priority, kind, key, policy
    NormalizeRouteID,   \* raw id -> trimmed id, "" if nothing is left
    Readers,        \* goroutines that dispatch on snapshots
    RequestKeys,    \* keys of requests
    Tables,         \* RouteTables that are mounted into each other
    MaxChanges      \* bound on configuration changes in a behaviour

ASSUME RegistryAssumption ==
    /\ MaxChanges \in Nat
    /\ IsFiniteSet(Tables)
    /\ \A s \in Specs :
        /\ s.raw \in DOMAIN NormalizeRouteID /\ s.priority \in Int
        /\ s.policy \in IF s.kind = "prefix" THEN {"longest", "priority"} ELSE {"none"}
        /\ s.kind = "prefix" => Len(s.key) \in Nat

VARIABLES
    specs,          \* registry.specs: a function on the registered ids
    order,          \* registry.order
    snapshot,       \* registry.snapshot
    held,           \* the snapshot each reader works with
    mounts,         \* pairs of tables, the second mounted into the first
    changes         \* configuration changes so far

registryVars == <<specs, order, snapshot, held, mounts, changes>>

-----------------------------------------------------------------------------
(* Tables *)

prefixLength(e) == IF e.kind = "prefix" THEN Len(e.key) ELSE 0
routeGroup(e) == IF e.kind = "prefix" THEN 0 ELSE 1

\* The first difference of two sequences of numbers decides.
Less(a, b) ==
    \E i \in DOMAIN a : a[i] < b[i] /\ \A j \in 1..(i - 1) : a[j] = b[j]

\* Fault: priority comes before the length of the prefix in every table.
compareRoutesByPriority(l, r, longest) ==
    Less(<<r.priority, routeGroup(l), prefixLength(r)>>, <<l.priority, routeGroup(r), prefixLength(l)>>)

\* compareRoutes(l, r, longest) < 0.
compareRoutes(l, r, longest) ==
    IF longest
    THEN Less(<<routeGroup(l), prefixLength(r), r.priority>>, <<routeGroup(r), prefixLength(l), l.priority>>)
    ELSE Less(<<r.priority, routeGroup(l), prefixLength(r)>>, <<l.priority, routeGroup(r), prefixLength(l)>>)

\* Whether a stable sort puts entry i before entry j.
Before(entries, longest, i, j) ==
    \/ compareRoutes(entries[i], entries[j], longest)
    \/ ~compareRoutes(entries[j], entries[i], longest) /\ i < j

\* How many entries the sort puts before entry i.
Rank(entries, longest, i) == Cardinality({j \in DOMAIN entries : Before(entries, longest, j, i)})

\* The entry that the sort puts in place k.
Placed(entries, longest, k) == CHOOSE i \in DOMAIN entries : Rank(entries, longest, i) = k - 1

\* The stable sort of build.
Sorted(entries, longest) == [k \in DOMAIN entries |-> entries[Placed(entries, longest, k)]]

\* A predicate route without a function takes every request, another one is a
\* function that takes the requests with its key.
predicateMatcher(e, key) == e.kind = "predicate" /\ e.key \in {<<>>, key}
exactMatcher(e, key) == e.kind = "exact" /\ e.key = key
prefixMatcher(e, key) == e.kind = "prefix" /\ IsPrefix(e.key, key)

Matches(e, key) == predicateMatcher(e, key) \/ exactMatcher(e, key) \/ prefixMatcher(e, key)

\* Fault: the static key of the matcher is left out.
staticKeyNone(e) == <<>>

\* The key as the fingerprint sees it: exact keys are framed with their type.
staticKey(e) ==
    CASE e.kind = "exact" -> <<"string", e.key>>
      [] e.kind = "prefix" -> e.key
      [] OTHER -> <<>>

\* fingerprintTree of a table without mounts.  The digest of framed parts is
\* taken to be injective; handlers and matcher functions are not part of it.
fingerprint(routes, longest) ==
    <<"routery-topology-v2", longest,
      [i \in DOMAIN routes |-> <<routes[i].id, routes[i].priority, routes[i].kind, staticKey(routes[i])>>]>>

\* Fault: a table stays among the ancestors after it was built.
AncestorsKept(a, t, s) == a \union {t} \union {u \in Tables \ {s} : <<t, u>> \in mounts}

\* What build of s sees when t, below a, mounts it: t is deleted on return.
Ancestors(a, t, s) == a \union {t}

\* Whether build of t below the path a meets no mount cycle.  Every table has
\* a fallback, so an empty one is no error.
builds[a \in SUBSET Tables] ==
    [t \in Tables |->
        /\ t \notin a
        /\ \A s \in Tables : <<t, s>> \in mounts => builds[Ancestors(a, t, s)][s]]

-----------------------------------------------------------------------------
(* Snapshots *)

emptySnapshot == [routes |-> <<>>, fingerprint |-> <<"empty-route-registry">>]
Conflict == [conflict |-> TRUE]

\* The entries of a table, in the order of their registration.
Entries(ids, table) == [i \in DOMAIN ids |-> table[ids[i]]]

\* The prefix policies of a table.
Policies(ids, table) == {table[ids[i]].policy : i \in DOMAIN ids} \ {"none"}

\* A built table with its fingerprint.
TableSnapshot(routes, longest) == [routes |-> routes, fingerprint |-> fingerprint(routes, longest)]

\* buildRouteTableSnapshot: at most one prefix policy in a table.
buildRouteTableSnapshot(ids, table) ==
    LET longest == "longest" \in Policies(ids, table)
    IN IF ids = <<>> THEN emptySnapshot
       ELSE IF Cardinality(Policies(ids, table)) > 1 THEN Conflict
       ELSE TableSnapshot(Sorted(Entries(ids, table), longest), longest)

\* The place of a registered id in the order.
position(id) == CHOOSE i \in DOMAIN order : order[i] = id

RegistryInit ==
    /\ specs = <<>> /\ order = <<>> /\ snapshot = emptySnapshot
    /\ held = [r \in Readers |-> emptySnapshot]
    /\ mounts = {} /\ changes = 0

-----------------------------------------------------------------------------
\* What a build publishes; one that failed leaves the registry as it was.
Replace(table, ids) ==
    LET built == buildRouteTableSnapshot(ids, table)
    IN /\ IF built = Conflict THEN UNCHANGED <<specs, order, snapshot>>
          ELSE specs' = table /\ order' = ids /\ snapshot' = built
       /\ changes' = changes + 1
       /\ UNCHANGED <<held, mounts>>

\* What NewRouteSpec, ExactRouteSpec, PrefixRouteSpec and LongestPrefixRouteSpec
\* give the registry.
RouteSpec(id, s) == [id |-> id, priority |-> s.priority, kind |-> s.kind, key |-> s.key, policy |-> s.policy]

\* Handlers and matchers are not nil.
validateRouteSpec(s) == NormalizeRouteID[s.raw] # ""

\* Register; an id that is empty or taken after trimming is refused.
Register(s) ==
    LET id == NormalizeRouteID[s.raw]
        table == [i \in DOMAIN specs \union {id} |-> IF i = id THEN RouteSpec(id, s) ELSE specs[i]]
    IN /\ changes < MaxChanges
       /\ validateRouteSpec(s) /\ id \notin DOMAIN specs
       /\ Replace(table, Append(order, id))

\* Unregister; an id has one place in the order, so one place is left out.
Unregister(raw) ==
    LET id == NormalizeRouteID[raw]
        table == [i \in DOMAIN specs \ {id} |-> specs[i]]
    IN /\ changes < MaxChanges
       /\ id \in DOMAIN specs
       /\ Replace(table, RemoveAt(order, position(id)))

\* Snapshot: a reader loads the pointer and keeps routing on what it got.
Load(r) ==
    /\ held[r] # snapshot
    /\ held' = [held EXCEPT ![r] = snapshot]
    /\ UNCHANGED <<specs, order, snapshot, mounts, changes>>

\* Mount on a table that may be part of others already.
Mount(t, s) ==
    /\ changes < MaxChanges
    /\ <<t, s>> \notin mounts
    /\ mounts' = mounts \union {<<t, s>>}
    /\ changes' = changes + 1
    /\ UNCHANGED <<specs, order, snapshot, held>>

RegistryNext ==
    \/ \E s \in Specs : Register(s)
    \/ \E raw \in DOMAIN NormalizeRouteID : Unregister(raw)
    \/ \E r \in Readers : Load(r)
    \/ \E t, s \in Tables : Mount(t, s)

RegistrySpec == RegistryInit /\ [][RegistryNext]_registryVars

-----------------------------------------------------------------------------
\* The places of the routes that a request with key meets on a snapshot; it
\* meets them from the first place on.
Route(shot, key) == {i \in DOMAIN shot.routes : Matches(shot.routes[i], key)}

\* RouteSnapshot.IsStale, asked of the snapshot a reader holds.
IsStale(r) == held[r].fingerprint # snapshot.fingerprint

\* Of the routes es, the ones that the documented order puts in front: in a
\* longest-prefix table the longest prefixes, whatever the priorities, otherwise
\* the ones of the highest priority, prefixes first and the longest of them.
Best(es) ==
    LET prefixes(S) == {e \in S : e.kind = "prefix"}
        longestOf(S) == {e \in S : \A f \in S : Len(e.key) >= Len(f.key)}
        field == IF \E e \in es : e.policy = "longest" THEN longestOf(prefixes(es)) ELSE es
        top == {e \in field : \A f \in field : e.priority >= f.priority}
    IN IF prefixes(top) = {} THEN top ELSE longestOf(prefixes(top))

\* The route a request reaches first is one of the best that match, and of
\* those the one registered first.  Refused registrations and conflicting
\* prefix policies in between change nothing.
FirstRouteWins ==
    \A key \in RequestKeys : \A i \in Route(snapshot, key) :
        (\A j \in Route(snapshot, key) : i <= j) =>
            LET won == snapshot.routes[i]
                best == Best({snapshot.routes[j] : j \in Route(snapshot, key)})
            IN won \in best /\ \A e \in best : position(won.id) <= position(e.id)

\* A reader that asks IsStale and hears no routes every request to the same
\* routes in the same places as the published table, however often the registry
\* changed in between.  The functions of predicates are not part of a
\* fingerprint, so this is said of exact and prefix routes.
FreshMeansSame ==
    \A r \in Readers, key \in RequestKeys : ~IsStale(r) =>
        LET static(shot) == {i \in Route(shot, key) : shot.routes[i].kind # "predicate"}
        IN /\ static(held[r]) = static(snapshot)
           /\ \A i \in static(snapshot) : held[r].routes[i].id = snapshot.routes[i].id

\* The tables below t: the least set that has what is mounted into t and what
\* is mounted into its members.
MountedBelow(t) ==
    {s \in Tables : \A C \in SUBSET Tables :
        (\A u \in C \union {t}, v \in Tables : <<u, v>> \in mounts => v \in C) => s \in C}

\* Build fails with a mount cycle exactly when a table is mounted below itself:
\* no cycle is built, which no dispatch would leave, and a table that is
\* mounted in several places is not taken for one.
BuildIffAcyclic ==
    \A t \in Tables : builds[{}][t] <=> \A s \in MountedBelow(t) \union {t} : s \notin MountedBelow(s)
=============================================================================
