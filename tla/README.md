# TLA+ models of routery

routery is a Go library for routing calls through handlers and middleware, with
policy packages for retrying, admitting and accounting for physical attempts.
These modules model the parts of it that keep state shared between goroutines
or hand resources from one call to the next, TLC checks them on small instances,
and TLAPS proves their safety properties for every value of the constants.

`PROJECT.json` lists the components, the runs, the source lines every definition
stands for, the faults each property was tried against, the hazards and the
theorems.

## The system

| Component | Source | State | Operations |
|---|---|---|---|
| Lifetime | `lifetime.go` | once, closed, hooks, close error | `Close`, `OnClose` |
| Circuit breaker | `circuit_breaker.go` | state, failures, generation, probe flag, openedAt | before, after, abandon |
| Bulkhead | `bulkhead.go` | semaphore channel | call, transfer of the permit to a Lifetime |
| FirstSuccessfulPayload | `smart.go` | branch contexts, result channel, collector, drainer | start, collect, release, drain |
| Fallback, retry, chain, timeout, round robin | `routers.go`, `chain.go`, `discard.go`, `smart.go` | the loop; RoundRobin's counter | call, discard, sleep |
| Route table, router | `route_table.go`, `router.go`, `topology_key.go` | entries, mounts, prefix policy; decisions cached in a call | mount, build, match, dispatch |
| Registry | `registry.go`, `snapshot.go` | specs and order under a writer mutex, atomic snapshot | register, unregister, load, ask for staleness |
| Decision table | `decision_table.go` | immutable cases, the cached answer of a call | decide |
| Attempt coordinator | `policy/attempt/coordinator.go`, `decision.go` | events by identity, budget | `Begin`, `Update`, `Snapshot`, `AuthorizeRepeat` |
| Schedule, cooldowns | `policy/attempt/schedule.go`, `time.go`, `predicate.go` | cooldown map | schedule, wait, extend, prune |
| Boundary, Receipt | `policy/execution/boundary.go` | closed, err, settling, finish | `Run`, `Record`, `Reconcile`, close, settle |
| Sequence | `policy/execution/sequence.go` | the retry loop | run, decide, advance, authorize |
| Race | `policy/execution/race.go` | plan gate, journal, fatal error | `Run`, worker, accept, finalize |
| Quota session | `policy/quota/quota.go` | state, settlement, release, serial token | `Admit`, `Settle`, `Release` |
| Selection, affinity, model policy | `policy/selection.go`, `policy/affinity.go`, `policy/model` | the selection a caller holds: frozen candidates, epochs, pin | select, revalidate, dispatch |
| Transport extensions, observability | `ext/*`, `observability` | bodies and clients of third parties, counters | adapters |

How they interact. A handler returns a result that may own a resource through a
`Lifetime`. Middleware that must act when the resource is released (Bulkhead's
permit, Timeout's cancel, FirstSuccessfulPayload's branch context, the Boundary's
settlement) attaches a callback with `OnClose`. A `Boundary` runs one physical
attempt: it allocates the identity in the `Coordinator`, asks the host for
admission (often a quota `Session`), dispatches, and settles the admission
through the `Receipt`, at return for a value and from the Lifetime callback for
an owned result. `Sequence` repeats Boundary runs one after the other under the
Coordinator's authorization; `Race` runs them concurrently inside
FirstSuccessfulPayload. Handlers compose into a tree of combinators and route
tables; whatever a combinator does not return it must discard, and a cleanup
error ends every repetition around it. A registry replaces the table that
readers route on; a selection is made on descriptors that the host goes on
changing until it is dispatched.

What is hard. Callbacks run with locks released (`Receipt.settle`, `Session`
backend calls); calls complete long after the state that admitted them is gone
(breaker, late losers); resources change owner at return (Lifetime, permits);
acknowledgements are lost (quota); callbacks panic; contexts are cancelled
between two looks at them. The `hazards` in `PROJECT.json` name each place.

## Modules

| Module | Models | Checked by | Proofs |
|---|---|---|---|
| `Ownership` | the contract of a Lifetime, as its users see it | (abstract) | |
| `Lifetime` | `Close`/`OnClose` step by step, with panics | `lifetime` | `LifetimeProofs` |
| `CircuitBreaker` | the middleware's critical sections and the handler's outcome | `breaker` | `CircuitBreakerProofs` |
| `Bulkhead` | the middleware, owned results and their release | `bulkhead` | `LifetimeProofs` |
| `FirstSuccessful` | one call: branches, channel, collector, drainer | `first_successful` | `RaceProofs` |
| `AttemptEvent` | events, their order, and `decide` | with the next two | |
| `Coordinator` | one operation's coordinator and its authorizers | `coordinator` | `SequenceProofs` |
| `Boundary` | one Run, its Receipt, the Lifetime callback and host goroutines | `boundary` | `BoundaryProofs` |
| `Race` | Run, workers, gate and journal; extends `FirstSuccessful` | `race` | `RaceProofs` |
| `QuotaSession` | `Admit`, `Settle`, `Release` against a backend ledger | `quota` | `QuotaSessionProofs` |
| `Sequence` | one `Sequence.Run`, its Receipts and the hosts; extends `Coordinator` | `sequence` | `SequenceProofs` |
| `Dispatch` | one call through a tree of combinators and route tables | `dispatch` | `DispatchProofs` |
| `Registry` | table order, fingerprints, mount cycles, the registry and its readers | `registry` | `DispatchProofs` |
| `Selection` | `Select`, `ValidatePinned`, `policy.Dispatch`, affinity and model policy | `selection` | `SelectionProofs` |

The `MC*` modules only give constants their values. Definitions whose comment
starts with "Fault:" are plausible bugs of the definition that follows them; no
specification uses them. Each property is violated when its fault is put in
place of the correct definition.

**Lifetime.** A closer's `pc` goes cleanup, mark (take the hooks and set closed
under the mutex), drain, returned; `sync.Once` is a three-valued variable, so
followers wait. A panic of the cleanup still marks and drains (both are
deferred); a panic of a callback ends the drain. `Ownership` says what other
modules rely on: a callback runs at most once, only after the cleanup, and only
if it was attached. `Bulkhead`, `FirstSuccessful` and `Boundary` use a Lifetime
only in those terms.

**CircuitBreaker.** Each critical section of `circuitBreakerState` is one step;
the clock is a counter. The history variables `period`, `born` and `trippedAt`
say in which period a call was admitted, independently of the code's `generation`.

**Bulkhead.** A call passes select, permit, running, owned, returned. Lifetimes
can be shared by several calls and closed at any moment, also before `OnClose`
attaches the release.

**FirstSuccessful.** The results channel is a sequence; `select` on a done
context and a ready result may take either. `Deliver` is what a branch goroutine
does with whatever its handler returns.

**AttemptEvent, Coordinator.** An event is its phase, outcome, commit and
completeness facts. Every combination the types allow is offered to `Update`.
An authorizer reads an event, computes evidence outside the lock and presents
it later; `AuthorizeRepeat` compares and decides under the lock.

**Boundary.** Processes share the Receipt's mutex and the settling channel.
`Coordinator.Snapshot` and `Coordinator.Update` inside a Receipt method are two
critical sections of the Coordinator, so a host that uses the Coordinator
directly (`DirectUpdates`) can come between them; `Record` compares its event
with the facts read at the lock ("same"). A host reports only on work that was
started: before that nobody but Run knows the attempt. Finish, CleanupContext,
Dispatch, Fresh and the authorizer may panic: after a panic of CleanupContext
nobody can say what Finish was told (`Lost`), and after one of Fresh or of the
authorizer Run has unwound with the admission `abandoned`.

**Race.** Branch `w` of `FirstSuccessful` is worker `w`. One `Boundary.Run` is a
step that ends in any way `RunResults` lists; errors are the sets of the kinds
they wrap, so that `errors.Join` is union and `errors.Is` is membership. Host
commits of late facts interleave everywhere they can be read.

**QuotaSession.** The backend is external: it applies a request or not, and its
answer may be lost in either case. The ledger is what it holds.

**Sequence.** `run` holds the locals of `Sequence.Run` and its position: check,
preflight, start or authorize/lock/grant, dispatch, value, decide, close,
callback, wait. Every host callback that can take time ends a step, so the clock,
cancellation, late facts and late settlements come in between. The Coordinator's
actions are used as they are. `Receipt.close` of a dispatched attempt is two
steps, its Snapshot (`ReadToClose`) and its Update (`ValueReturns` for a value,
`CallbackCloses` for the callback of a Lifetime), so a host that writes to the
Coordinator can come in between and make the Update fail. A value result then
ends the sequence, as the refusal is a control error; the callback drops it. The
history variable `crossed` holds the attempts this happened to in the callback.
The settlement is part of the second step, and a host that settles an old Receipt
holds its settling channel for as long as it likes.
`authorizeRepeat` is `LockAuthorization` (wait, look at the error, reserve the
Receipt) and `Grant` (clock check and `AuthorizeRepeat`). `Sequence` implements
`Coordinator`: what is proved of the one holds in the other.

**Dispatch.** A composition is a constant tree; `stack` holds one frame per
active combinator with the children tried, its context, its delay and its last
result. `mode` says whether the top frame calls (`try`), looks at a result
(`judge`), discards or sleeps. Leaves return every combination of action, error
and resource. Leaves, matchers and extractors panic with nothing open; a
predicate of a retry or a fallback panics over the result it is judging, which is
then lost (mode `dropped`). A Lifetime is open, closed, or closed with a failed
cleanup that every later Close reports again. Contexts form a chain: the end of
one ends those made below it.

**Registry.** `Register` and `Unregister` are one step each, as they hold the
mutex from the duplicate check to the Store and readers see only the Store.
`compareRoutes`, the stable sort, the matchers and the fingerprint are operators;
the digest is taken to be injective on framed parts. A request meets the places
of a table whose routes match, from the first on; each id has one place in the
order, so `Unregister` leaves out one. `builds` is the recursion of
`RouteTable.build` with its set of ancestors, and `MountedBelow`, which it is
compared with, knows no paths: it is the least set closed under the mounts.

**Selection.** `Select` walks the frozen candidates one step at a time; the host
publishes descriptors (with or without a new fingerprint and new epochs), changes
the pin, lets time pass and cancels between any two steps, and between the
selection, the revalidation and the dispatch. Cost and performance metrics are
one function of measurements, since the code treats them alike.

## Runs

| Run | Instance | What it shows |
|---|---|---|
| `lifetime` | 2 closers, 3 hooks, one may panic | an attached callback runs once the resource is closed; Lifetime implements Ownership |
| `breaker` | 5 calls, threshold 2, timeout 1, 3 instants | one probe at a time; no probe before the full reset timeout of the latest trip; completions from an earlier period change nothing; a probe that ends in any way, a panic included, lowers the flag |
| `bulkhead` | 3 calls, 2 permits, 2 shared lifetimes | channel elements are exactly the permits held by calls and pending releases; every permit comes back |
| `first_successful` | 3 handlers, 6 kinds of result | nothing but its owner ends the winner; every loser is closed, also late; every branch context is cancelled; cancellation ends the call |
| `coordinator` | 3 identities, budget 2, 2 authorizers | a repeat is granted once, on facts current at the grant and safe to repeat; facts never go back |
| `boundary` | Run, callback, 2 host goroutines, one direct update | the last facts told are the recorded ones; NotExecuted is never recorded for dispatched work by the library; admissions are settled; no method hangs |
| `quota` | 3 clients, 2 identities, 2 amounts | one finalization is ever sent; a final state agrees with the ledger; fail-open never leaves a reservation behind; every client returns |
| `race` | 2 workers, 2 plans, 5 kinds of result | NoAccepted hides no failure; losers are closed and journaled; no plan starts after a verdict; acceptance is linearized with fatal errors |
| `sequence` | 3 identities, budget 2, 3 instants, one late settlement | a repeat starts only when the attempt before it is closed (or a host crossed its closing callback) and settled without error and its time has come; Run ends with an honest decision, a complete trace and no forgotten resource; Run returns whatever hosts report |
| `dispatch` | two trees of 7 and 6 nodes, 3 attempts, 3 decisions | nothing stays open but what the caller was given, no timer is forgotten; a panic of a leaf, matcher or extractor leaves nothing, one of a predicate only the result it was judging; a further handler is called only on a live context, with nothing open and no cleanup failed; the backoff never collapses |
| `registry` | 9 registrations under 3 ids, 5 changes, 3 tables, 1 reader | requests reach the route that the documented order names; a snapshot that is not stale routes like the published one; Build refuses exactly the mount cycles |
| `selection` | 2 candidates, 8 descriptors, 5 affinities, 3 instants, one change | Select returns the best eligible candidate of the frozen facts; what is dispatched still qualified and keeps the epochs and the pin it was selected under |

Why the bounds are enough. Each instance has one more actor than the interaction
needs: two closers and a callback that comes late; enough calls to trip the
breaker (two), probe it and have two stale ones left; one call more than
permits; a winner, a loser that is queued and one that is late; two authorizers
and an attempt beyond the budget; two host goroutines meeting a settlement in
progress; a settle, a release and a third call that follows either. Two plans
suffice for `race`, since one worker may take both while the other holds none,
and a second worker is enough to hold a plan that ends late. `CHECK_DEADLOCK
FALSE` is used because every modelled call is made once: when all have returned
the system rests. Symmetry is used only in `coordinator`, which checks no
liveness. In `breaker` the clock stops at `MaxTime`; three instants cover trip,
rest, failed probe and second rest. In `boundary` a host makes at most one
direct update.

In `sequence` one deadline passes and one is beyond the clock, so that Run must
also end without the help of time; a budget of two lets one repeat be granted and
another refused, and the third identity meets an exhausted budget. Its evidence
allows a fallback after NotExecuted, so that an attempt whose closing callback a
host crossed is really repeated. In `dispatch`
`MaxInt` is 7 and the first delay 5, so that the first doubling saturates; the
trees put each combinator below another one that repeats it. In `registry` five
changes are enough to register three routes, remove one and put it back in
another place, or to mount a diamond and a cycle. In `selection` every descriptor
differs from the base one in one respect that decides: an estimate or a quality
that ages, an unsound measurement, a missing capability, a default that stands in.

Fairness. Goroutines inside a library function are scheduled (weak fairness of
their steps). `breaker`, `bulkhead` and `boundary` assume that handlers and host
callbacks end, by returning or panicking; `quota` that a backend call returns;
`bulkhead`, `first_successful` and `boundary` that the owner closes what it was
given ("the same caller/composition owner must close it",
`docs/execution-contracts.md`). `first_successful` does not assume that a handler
ever returns. The release of a permit and of a branch context is a callback of a
Lifetime; its fairness (`bulkhead`, `first_successful`) assumes that no callback
attached before it panics, since such a panic ends the loop of `Close`
(`lifetime.go:54`; `AttachedHookRuns` excepts it too). `sequence` assumes that Run's goroutine is scheduled, that
Finish of a late settlement returns and that the clock advances while it can.
Nobody is obliged to call, to cancel or to record.

### Disagreements with the documentation

The models show five places where the code does not do what a text of the
repository says; the runs check what the code does guarantee.

- `afterRequest` (`circuit_breaker.go:128`) clears the failure count for a call
  that ends with `ActionNext`; the comment at line 28 says that such results
  "never affect breaker counters". `AfterClosed` has the reset.
- A `Coordinator.Update` between the two critical sections of `Receipt.close`
  (`boundary.go:161`) makes close fail; the Receipt stays open and its admission
  unsettled although "Value results finalize at return"
  (`docs/execution-contracts.md`). `ReturnedIsFinal` excludes the case.
- In the Lifetime callback (`boundary.go:262`) the same refusal is dropped, so
  `Sequence` waits and repeats the attempt with its Receipt open and its admission
  unsettled, although "Intermediate resources close before waiting; settlement
  failure blocks repetition" and "Backoff holds no execution reservation"
  (`docs/execution-contracts.md:141`, `:244`). `RepeatsSettled` excepts the
  attempts whose callback a host crossed (`crossed`); without the exception TLC finds the repeat.
- A panic of the second `Fresh` (`boundary.go:240`) or of the authorizer
  (`boundary.go:246`), after admission, unwinds Run without a call of Finish;
  "Admitted-but-not-dispatched attempts record terminal
  NotExecuted and finalize". `AdmissionSettled` excludes it.
- A plan whose own error wraps `ErrNoSuccessfulOutcome` makes `Race.Run`
  (`race.go:134`) report a plain NoAccepted and drop the failures of the other
  plans. The instance of `race` uses errors that do not wrap it.

A predicate of `RetryIf` or `PredicateFallback` that panics (`routers.go:185`,
`smart.go:40`) leaves the result it was judging open, with nobody to close it; no
text says otherwise, and `NothingLeaks` says just that.

## Proofs

Every theorem holds for all values of the constants that satisfy the named
assumptions of the module. The proofs have one shape: an inductive invariant,
`Init => Inv`, `Inv /\ [Next]_vars => Inv'` with a lemma or a step for each
action, and the theorems as consequences. Where the argument is about several
components (the bulkhead's permits and the Lifetime, the coordinator and the
sequence, the group and the race) they share a proof module.

- `LifetimeProofs`. `HooksRunAtMostOnce` is not inductive: it needs that one
  closer is inside once.Do (`OnceInv`), that its position says whether the
  cleanup is over (`PhaseInv`), and that the queue and the drained copy hold
  distinct callbacks that have not run (`QueueInv`, `DrainInv`). The refinement
  of `Ownership` follows step by step from the same invariant. `NoHookLost`, the
  safety half of `AttachedHookRuns`, adds that a callback that has not run is in
  the queue or ahead of the closer's cursor (`LossInv`). For `Bulkhead`
  every step leaves the holders as they are, adds one or removes one, and the
  channel does the same (`Same`, `Taken`, `Returned`).
- `CircuitBreakerProofs`. `ProbeInv` ties a running probe to the half-open state
  and the current generation; `CurrentInv` says that an ordinary call whose
  generation is current was admitted in the closed period that still lasts,
  which is why comparing generations suffices for `StaleCompletionIgnored`.
- `SequenceProofs`. For the Coordinator: a granted attempt has left
  BeforeDispatch and can never be granted again (`GrantInv`); `DecideSafe` is the
  fact about `decide` behind `GrantedOnCurrentFacts`. For Sequence:
  `SequenceRefinesCoordinator` shows that every step of Run, of the hosts and of
  the caller is a Coordinator step or leaves it alone, so `Inv` carries over.
  `SeqInv` adds that nobody touches the round's attempt before its dispatch
  (`AttemptInv`), that every identity used is in the trace or about to be
  (`TraceInv`), that at most the last attempt is open (`OwnedInv`), that the
  attempt to be repeated is closed or crossed, waited for and reserved
  (`PreviousInv`), which needs that the facts a closing callback has read are
  current unless a host crossed it (`AttemptInv`), and when Run holds a view of the Coordinator (`ViewInv`).
  `EndsHonestly` and `RepeatsSettled` follow.
- `QuotaSessionProofs`. `GateInv` (one client past the serial token) and
  `DecisionInv` (everything sent is the one decision the session remembers) give
  `OneFinalization`; `StateInv` gives the agreement with the ledger;
  `UnreservedHoldsNothing` needs in addition that no client can call before
  Admit has answered (`IdleInv`, `AdmitInv`). `TokenHeld` says that the serial
  token is free or with a client inside Settle or Release.
- `BoundaryProofs`. `LockInv` is the exclusion that the mutex and the settling
  channel give together: never both at once. `RunInv` and `KindInv` say which
  process is in which method, `PrivateInv` that nobody else knows the attempt
  before Dispatch, `ReadInv` that what a method has read is current while it
  holds the Receipt, unless a host has used the Coordinator directly, and
  `ToldInv` that with nobody settling Finish has been told the facts.
  `SettledFactsCurrent`, `NotExecutedIsProof` and `ReturnedIsFinal` follow.
  `NoneUnsettled` adds that whoever was to close the Receipt, Run on its way out
  or the Lifetime callback, has closed it when it is done (`EndInv`).
- `DispatchProofs`. For every tree that the constructors can build
  (`TreeAssumption`): no frame's index runs past its handlers (`IndexInv`), the
  result on its way up owns everything that is open (`OpenInv`) and carries a
  failed cleanup as an error (`BrokenInv`), and every live timer belongs to a
  frame or to an open Lifetime (`TimerInv`). `BackoffHolds` is proved for every
  `MaxInt`. For `Registry`: `Before` is a strict total order on the entries of a
  table, and the ranks of such an order are distinct and fill `0..n-1`, so
  `Sorted` puts every entry in exactly one place, in order (`TableSorted`).
  `RegistryInv` says that the order holds each registered id once, that a table
  has one prefix policy, that what is published is the sorted table of the
  registrations, and that a reader holds a table that was built.
  `FirstRouteWins` follows from the two by comparing the lexicographic order of
  `compareRoutes` with the sets of `Best`; `FreshMeansSame` from the fingerprint,
  which determines the id, the kind and the static key of every place.
  `BuildIffAcyclic` compares a recursion with a least closed set. The closed form
  (`SafeAt`: nothing reachable is on the path, and nothing reachable is below
  itself) satisfies the recursion; that `builds` is that closed form is shown with
  a path for which they differ and whose complement is minimal, since the
  recursion only lengthens the path. This least counterexample (`WFMin`, on
  the strict subsets of a finite set) takes the place of an induction.
- `SelectionProofs`. The loop of Select keeps the best of the candidates it has
  seen (`LoopInv`, on `BestOf`); `ChosenInv` keeps that beyond the loop, and
  `PinnedInv` says what ValidatePinned found. `DescriptorAssumption` gives the
  descriptors their Go types and nothing else. The proof that `eligibility` and
  `Qualifies` agree showed that the latter had left out the soundness,
  observation time and task of a mandatory quality; they are part of it now.
- `RaceProofs`. `GroupInv` holds around any handlers: a result is at most once in
  the channel (`ChannelInv`), what the collector returns is out of it and what it
  passed over did not win (`CollectorInv`), the contexts that the release loop
  has passed are cancelled except the winner's (`ReleaseInv`), and an open
  resource is in the channel or with the winner (`OpenInv`). `LeavesNothing` says
  what is left when the drainer has ended; it needs that the Lifetime of an owned
  winner has the cancel function of its context (`HookInv`). Race implements such
  a group (`RaceRefinesGroup`), so both carry over, and `RaceInv` adds that a
  plan is in one worker's hands until it is journaled (`HandInv`, `EntryInv`),
  what Run may rely on at each of its steps (`MainInv`) and that a control error has closed the gate before the cleanup
  (`GateInv`). `NoAcceptedIsHonest` needs a second invariant, `HonestInv`, that
  follows an error from the plan to the joined error: with its worker, collected
  (`ErrorInv`), not lost by a worker that ends quietly (`QuietInv`). It is proved
  under `NoNestedNone`, that no error wraps ErrNoSuccessfulOutcome; without it
  the property is false, as said above.

Assumptions. The bulkhead takes a finite set of calls and the coordinator a
finite set of identities, since a channel and a map hold finitely many. The
tables that are mounted into each other are finitely many, as a program makes
them. One of the deadlines of a sequence is the latest. The others give constants
their types or state what a constructor of the library checks.

Model-checked only: the liveness properties, since fairness and ENABLED are
beyond the prover. What they say of the end of a call, or of what a waiter waits
for, is proved without fairness where it can be said of a state:

- `AttachedHookRuns`: no callback is lost when a Close has returned (`NoHookLost`);
- `LosersClosed`, `ContextsReleased`: when the drainer has ended, nothing is open
  but the winner and no context is forgotten (`LeavesNothing`);
- `AdmissionSettled`: when Run has ended and nothing is open or settling, the
  admission is settled (`NoneUnsettled`);
- `ClientsReturn`: the token that a client waits for is with a client that will
  return it (`TokenHeld`);
- `ProbeReleased` and `PermitReturns`: the probe flag and the permits belong to
  calls or releases that are under way (`SingleProbe`, `PermitsConserved`).

`CancelReturns`, `MethodsReturn` and `RunReturns` have no such half.

## Not modelled

- Builder methods of `RouteTable` other than `Mount`: they append an entry, as
  the registry's build does. Route metadata (`RouteMatch`), explanations and
  events given to sinks carry no control.
- The order of the cases inside one decision table (a loop that takes the first
  match), `Cooldowns` (a map under one mutex whose operations are single steps),
  retry predicates, projections and bindings: sequential code without state that
  two steps could see differently.
- Digests: `FingerprintSHA256` is taken to be injective.
- Transport extensions and observability: adapters around third-party clients and
  counters without control state.
- The quota conformance suite: test support for backends outside the repository.
- `Coordinator.Begin` for more than one operation: coordinators share nothing.
- Argument validation that returns before any state is touched (`Race.validate`,
  nil handlers, nil receivers, malformed timestamps).
- `freezeCandidates`' refusal of duplicate or empty candidate keys (`Selection`
  takes candidates that passed it), and the Route and Scope that `ValidatePinned`
  compares: they are constant for a candidate and a caller.
- RoundRobin's counter: it may be anywhere, so the share each handler gets is not
  stated.
