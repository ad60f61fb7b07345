# Verification of pyrmit

pyrmit is a small authorisation library for Python: an application registers
policies (functions from a principal and a subject to an allow or a deny) on a
`PolicyEngine`, asks it for decisions, has the decisions audited, and guards the
fields of a GraphQL schema or the routes of a FastAPI application with it. This
directory holds TLA+ modules translated from `src/src/pyrmit/`, the TLC
configurations that check them on small instances, and theorems that TLAPS
proves for every instance. Paths such as `guard.py:154` are below
`src/src/pyrmit/`; `PROJECT.json` maps every definition to its lines.

## 1. Inventory

| Part | State it keeps | Operations | Interacts with | Module |
|---|---|---|---|---|
| `Decision`, `DenialSurface`, `AuditOutcome` (`core/decision.py`, `core/audit.py`) | none | construction, classification | everything | `PolicyDecision` |
| Subject-base normalisation (`core/engine.py`) | none | `_normalize_subject_base`, `_check_subject_base` | the engine's constructor and registrations | `SubjectBase` |
| `PolicyEngine` (`core/engine.py`) | `_bindings`, `_subject_id_resolvers`, constructor settings | `policy`, `replace_policy`, `register_subject_id`, `decide`, `adecide` | policy bodies, identity callables, an `AuditStore` it awaits | `PolicyEngine` |
| `AuditStore` protocol (`core/audit.py`) | what was persisted | `write` | the engine, the stores | `AuditStoreContract` |
| `JsonLinesAuditStore` (`audit/jsonlines.py`) | an `asyncio.Lock`, a file, the jobs in the thread pool | `write`, `_append_sync` | event loop, threads, the file system | `JsonLinesAudit` |
| Memory, logging and no-op stores (`audit/`) | a bounded deque, or nothing | `write` | the engine | not modelled |
| `CachedEntitlementProvider` (`entitlements/cached.py`) | `_cache` (an LRU order with TTL), `_inflight` (key to Future) | `entitlements_for` | event loop, an inner provider | `SharedLoads`, `CachedEntitlements` |
| `CompositeEntitlementProvider` (`entitlements/composite.py`) | none between calls | `entitlements_for` (gather) | child providers, a cache several composites share | `CompositeEntitlements` |
| Static, tier, null and stub providers | constants | `entitlements_for` | the composite | in `CompositeEntitlements` |
| Strawberry guard and factory (`adapters/strawberry/`) | `_principal_cache`, shared by all guards | `policy_guard`, `post_resolution_policy_guard`, `resolve_async` | loaders, resolvers, `Lazy`, the engine | `StrawberryGuard` |
| FastAPI dependency (`adapters/fastapi/dependency.py`) | the surface captured when a route is built | `require_policy`, `_dep` | loaders, the `null_mapper`, the engine | `FastAPIDependency` |
| `Lazy` (`core/lazy.py`) | none | `aresolve` | the adapters | in `StrawberryGuard` |
| SQLAlchemy scope (`adapters/sqlalchemy/scope.py`) | none | comparison of compiled SQL | the engine | not modelled |
| Testing helpers (`testing/`) | none | read-only loops | the engine | `assert_policy_registered` in `PolicyEngine` |
| Errors, package surface | none | | | not modelled |

What is hard, and what correctness means, part by part:

* **Engine.** It takes no lock. Registration tests a dict and writes it later, so
  threads interleave in between; `adecide` looks the binding up again after the
  decision, runs the identity callables outside its `try`, and awaits a store
  that may fail, be cancelled, or persist an entry after having failed. It must
  fail closed (only a policy registered for the exact pair, which ran and
  allowed, lets anybody in), keep the trail and the answers in agreement,
  and in deny mode let no allow out unrecorded. A `subject_base` must mean what
  its author wrote, whatever form it was written in.
* **Stores.** A write that returned has persisted its entry, and no line is torn but by a
  write that failed, was cancelled or died. Cancelling a write does not stop its thread;
  the process may die.
* **Cache.** Concurrent misses share one load; values are never older than
  promised, never another key's; failures and cancellations stay where they
  happened; nobody waits for ever; the table keeps its bound.
* **Composite.** Children end in any order, fail, and are cancelled, also by calls
  of another composite that waits in the same cache. A union must be exactly
  what the children that answered granted, and a call is cancelled only for a cause.
* **Guard.** Fields of one request, and requests that share a context, run
  interleaved at four awaits and share one cache of principals; the surface is read
  before the decision and used after it, while bindings may be replaced. No
  principal may be lent to another loader, nor to another user whose context is his
  own, no resolver may run
  and no value may show without an allow, a denial under NOT_FOUND must look
  like an absence.
* **FastAPI dependency.** The surface is captured when a route is built and the
  policy is looked up when a request is decided. The mapper that was
  validated at construction must be there whatever is bound later, and while
  the binding stands the response must follow it.

## 2. Modules and how they correspond to the code

**`PolicyDecision`** has the value types. A reason is a member of a small set.
The library reserves no reason string, so `AppReasons` may contain
`"policy_error"`, and the engine runs do include it. `Decision.detail` is left out:
nothing in the library branches on it.

**`SubjectBase`** has `_normalize_subject_base` and its helpers as operators. An
argument is its shape and the things it names; `GetArgs` is `typing.get_args` of an
alias's value, which is empty for a single class and non-empty for a union and
for a subscripted generic alike. `Admits` is `_check_subject_base`, `Permits` the same
question asked of the argument as it was written; an alias of a subscripted generic
names no class.

**`PolicyEngine`** EXTENDS `SubjectBase` and has one action per operation.
`Constructible` is what `__init__` accepts, and an initial state one of those settings.
`TestPolicy`/`StorePolicy` and `TestResolver`/`StoreResolver` are the two halves of
`policy()` and `register_subject_id()`, between which other threads run; `ReplacePolicy` is
one step (the guard reads only the immutable subject base). A call of `decide` is
one step: one dict lookup by the exact type of the subject, then the body, whose
exception becomes `policy_error`. `adecide` goes through `recording` (the
second lookup and the identity callables: `BuildEntry`, or `EntryRaises`) and
`writing` (`StorePersists`, `WriteReturns`, `WriteRaises`, `Cancel`).
`StorePersists` may also happen after a failed or cancelled write, which is what
a store with a thread of its own does. `decider` and `decision` remember what the
first lookup found. `HotReplacement` says whether registration continues
while requests are served; the code permits it, its docstring advises against it.
`Store` is an instance of `AuditStoreContract` whose writes are the calls of the
engine: the engine implements the client's side of the contract.

**`AuditStoreContract`** is the abstract store: a write that returns has
persisted; one that raised or was cancelled may have or may do so later. Both
`PolicyEngine` and `JsonLinesAudit` are checked against it, which is how the two
fit together.

**`JsonLinesAudit`** has the task (`Write`, `Grant`, `WriteReturns`,
`WriteRaises`, the two cancellations), the thread (`Open`, `WriteLine`, `Close`,
`ThreadFails`) and a `Crash` with restart. The file is the sequence of what
reached it: an entry shorter than the stream's buffer reaches it at `close` as one
piece, a longer one is flushed by `write(line)` and its newline follows at close.
To the contract an entry is persisted when all its bytes are in the file; that they are
a line by themselves is a property apart.
Cancelling the await releases the lock at once while the thread goes on; a job
still queued is withdrawn (`concurrent.futures`). Under `MayFail` a failing
write may leave a part of its bytes.

**`SharedLoads`** is what `CachedEntitlementProvider` promises, without a table,
an in-flight map or futures. **`CachedEntitlements`** is the code: `Hit`, `Follow`
and `Lead` are the synchronous prefix of `entitlements_for` (expired entries
deleted on the way), `LeaderSucceeds`, `LeaderFails` and `LeaderCancelled` are what
follows the inner provider, `FollowerResumes` the wake-up of a follower.
`CancelFollower` cancels the awaited Future itself, since the code does not
shield it; `CancelLeader` is thrown into the inner provider, which may still answer.
A value is known by the time at which the inner provider read it.

**`CompositeEntitlements`** composes calls of a composite with an INSTANCE of
`CachedEntitlements` that all composites share: the child task of call `c` on the cache
is the task `c` of that instance. `Ask` is the start of `gather`, which wraps every
child into a task that has not run yet; `StartLibrary`, `StartRemote` and `StartShared` run a
child to its end or its first await (a stub raises `KeyError` for a lookup it does not know, a
tier provider what its `tier_for` raises), `SharedProceeds` are the steps of the cache,
`Cancel` is `Task.cancel()` on the children, and `Finish` is the loop over the results
(`Combine`), in which a cancelled child decides and a failed one contributes nothing.

**`StrawberryGuard`** has one action per stretch of `resolve_async` between two
awaits. Guards are built by `PolicyGuard` and `PostResolutionPolicyGuard` (which
refuse a number of subject loaders other than one), and by the factory's methods, which fill
in the factory's principal loader and deny handler. `Reuse`, `LoadAtOnce`, `LoadLater` and
`LoadRaises` begin a field (`_resolve_principal`), `PrincipalLoaded` and
`EngineResolved` continue it to the surface and the refused operations (`Enter`),
`ResolverReturns`, `SubjectFetched` and `SubjectAbsent` bring the subject, `Allowed` and
`Denied` enforce the decision, `Abandon` is any await that raises. The engine is
present by its table and its verdicts, looked up by the subject's own type, which need
not be the guard's `subject_type`; in a `Denied` step an allow may have become
`audit_unavailable`.

**`FastAPIDependency`** has `RequirePolicy` (the check of NULL against the mapper, and
the captured surface), `Bind` for the engine's registrations and replacements at any
time, and `_dep` with its three awaits (`Receive`, `PrincipalLoaded`, `SubjectFetched` or
`SubjectAbsent`, `Allowed` or `Denied`, `Abandon`).

The `MC...` modules give the constants their small values. Definitions whose
comment starts with "Slip:" are plausible mistakes in the code; each is put in the
place of the definition it varies, to see that the properties of a run notice.

## 3. Runs

| Run | Instance | Question |
|---|---|---|
| `engine_registration` | 2 registrars for 3 types, one of which both register for, 2 policies, 3 registrations, 1 call, hot replacement, malformed metadata, every form of `subject_base` but the generic alias, well formed and not | Do the tables stay well formed when two threads race for one pair, do they hold only types the `subject_base` names, does a registration fill only an empty slot where it has no rival, does it only add, and which promises survive a table that changes between decision and write? |
| `engine_decisions` | 2 calls, every setting of the constructor that it accepts, 2 types, 3 policies (allow, deny, raise), 2 registrations | Do answers, trail and warnings agree when two calls interleave with a store that persists, fails, is cancelled, or persists late? Does the engine use its store as the contract says? |
| `cache_flights` | 3 tasks, 2 keys, 1 slot, TTL 2, clock to 2 | Do misses share one load, does trouble stay in its flight, does the table keep its bound and order when loads of different keys overlap, are values fresh across expiry and eviction, does every call end, is `SharedLoads` implemented? |
| `composite_cache` | 2 calls, 4 sets of providers (two share the cache, one is empty), TTL 1, a grant that is withdrawn while the clock runs | Are unions exactly what was granted, do cancellations have a cause, does every call end? |
| `jsonl_trouble` | one long entry and two short, cancellation, failure, crash | Are lines in call order, does nothing but trouble tear a line, does every write end, and is the store an `AuditStore` through all that? |
| `guard_fields` | 2 fields, 5 requests (a private context, one two users share, an uncacheable one they share too; all three operations), 4 guards from 2 factories, 3 surfaces, 1 replacement | Are principals the field's own, do resolvers run and values show only when granted, do denials hide what they should? |
| `fastapi_routes` | 2 requests, 2 routes (with and without a mapper), 3 registrations or replacements, a loader that may return another type | Is the mapper there when needed, does a denial look like an absence, do responses follow the binding the route was built with? |
| `engine_never_raises`, `engine_generic_alias` | smaller instances of the engine's | Two statements about the engine that the code does not keep (section 5). |
| `cache_followers_result` | 3 tasks, 1 key | Do followers receive the leader's result whoever else is cancelled? |
| `jsonl_torn_line` | one long entry and one short, cancellation | Is there one object per line? |
| `guard_shared_context` | the instance of `guard_fields` | Can a shared context lend one user's principal to another? |

The runs of the last four rows are expected to fail: each has one property, a sentence of
the repository, and TLC's counterexample is the finding.

**Bounds.** `MaxRegistrations`, `MaxBindings`, `MaxTime` and `MaxReplacements` cap
counters, and a task makes one call. Three registrations are enough to register, replace
and have another thread between a test and its write. Two calls are enough for the
engine's properties because calls share only the tables, which every other action
changes too. Three tasks give a leader and two followers of one key, a leader, a
late leader and a follower, or leaders of two keys that evict each other; with TTL 2 and a clock to 2
an entry is loaded, is hit, expires on the very tick and is loaded again. Two composite calls are a leader and a follower in
the cache, each with children of its own, and TTL 1 with clock 1 has the withdrawn
grant expire. Three writers give a holder and a queue of two, which is the least that can
be overtaken; one of them has a long entry, so that its line can be torn by the others.
Two fields are a cache writer and a cache reader; four guards differ
in loader, handler, phase, opt-out, override and laziness. The users share one context that
remembers principals and one that does not; `PrincipalsAreOwn` promises a field its own
user in the private and in the second. Three bindings register a
route's pair before or after the route is built, and replace it between the loader and
the decision of a request. The two fields of `guard_fields` and the two requests of
`fastapi_routes` are interchangeable (symmetry is sound: no liveness is checked there
and no definition names one of them).

**Deadlock** is not checked: calls end and nobody has to ask again, so every run
legitimately stops. That nothing waits for ever is checked as liveness
(`EveryCallEnds` of the engine, the cache and the composite, `EveryWriteEnds`).

**Fairness.** Weak fairness of the steps the event loop or the pool takes by
itself: resuming a task whose await is over, starting a child task, and running a
job that was submitted. It includes the assumption that the inner provider, the
remote providers, the store and the file system answer in some way (the code has no
timeout around them, so it promises nothing otherwise). Callers, registrars,
cancellations, late persistence, failures as such, crashes and the clock are not fair.
`StrawberryGuard` and `FastAPIDependency` state no fairness, and no liveness is claimed
for them: their waits are all on the host's loaders and resolvers.

## 4. Proofs

The theorems hold for all constants that satisfy the assumptions named in the
modules: any number of calls, tasks, threads, keys, types and policies, any class
hierarchy, any TTL, capacity and bound.

*The subject base* (`SubjectBaseProofs`, from `SubjectBaseAssumption`) has lemmas only:
`NormalizeIsExact` (what was accepted names nothing but classes, and all of them are in the
guard) and `GuardIsTheArgument`, which `TablesStayWellFormed` uses.

*The engine* (`PolicyEngineProofs`, from `EngineAssumption`, `ReasonsAssumption` and
`SubjectBaseAssumption`). `Inv` is the inductive invariant: types; the
registrars are done once a read-only engine serves (`ServingIsQuiet`); what a call has
at each point of `adecide` (`CallsInOrder`); an entry says what was decided and was asked
for (`EntriesRecordDecisions`); an answer is the decision or the denial that
replaced it, with the trace it left (`AnswersAreDecisions`); nothing is persisted
that was not written. The promises are not inductive by themselves: that an allow
in deny mode is recorded, for instance, needs to know that a call still in `writing` was
to be audited, which holds since `adecide` tested it and `Constructible` forces allows
to be audited. There is one lemma per action, with one step per conjunct.
From `Inv` follow `TypeCorrectness`, `FailClosed`, `DenyModeIsCovered`,
`NothingUnrecorded`, `TruthfulTrail` and `ConsistentAnswers`.
`RegistrationInv` (the tables are well formed and what a thread is about to store passed
the guard) gives `TablesStayWellFormed`, under `NoGenericAlias`: no engine is
constructed with the form of `subject_base` that section 5 shows to mean something other than
what was written. `TablesOnlyGrow` needs no assumption. `EngineRefinesStoreContract` shows the refinement: `InitStore` maps
the initial states, `StoreStutters` and `StoreStep` every step, to a step of the
contract or to a stutter. `OneWriterNeverOverwrites` is about the types
only one thread registers for (`Sole`). For a type with two registrars `policy()` may overwrite, since
nothing in the code guards the window between test and write; `engine_registration` has such a
type, and the tables stay well formed all the same. The induction is over two facts about a
thread that has passed its test: what it is about to store is of its own
(`StoringIsOwned`), and its slot is still empty where it has no rival (`SlotStillEmpty`).

*The cache* (`CachedEntitlementsProofs`, from `CacheAssumption`). `Inv` relates tasks to
futures: `_inflight` holds the futures of the tasks that lead (`InflightIsLed`), a call
goes through the Future of a leader for its own key (`FlightsAreLed`), the state of a
Future tells how its flight ended (`FuturesTell`), and a cache entry was loaded for its
key and is dated no later than its value was read (`EntriesWereLoaded`). From it follow
`TypeCorrectness`, `SingleFlight`, `FreshValues` and `ContainedTrouble`. `TableStaysWellFormed`
adds `CacheWellFormed`, from lemmas on what removing, appending and evicting do to
an order without repetitions. `CacheRefinesSharedLoads` is the refinement: the load in
progress for a key is the one whose Future is in `_inflight` (`LoadsInFlight`), and each
action is then one action of `SharedLoads`, a cancellation request a stutter;
`FollowersAreTold` is the little that `Inv` does not say (a follower follows somebody
else, and a Future that failed failed with its leader's answer).

*The FastAPI dependency* (`FastAPIDependencyProofs`, from `DependencyAssumption` and
`ReasonsAssumption`). `Inv` adds to the promises what relates a route to the engine as it
changes: a route that serves has the mapper it may need and, until its pair is bound again,
the surface of its binding (`RoutesAreReady`); a decision is the binding's while that
stands (`DecisionsFollowTheBinding`); and a response is the decision passed on or the denial
of an audit that failed (`ResponsesTellTheDecision`). `MapperIsThere`, `DenialsConceal` and
`RoutesFollowTheirBinding` follow. Once the binding has been replaced the response need not follow
it (section 5). The assumption that `"assertion"` is no detail and no
reason keeps the model's mark of a failed `assert` apart from what a host may send.

*The guard* (`StrawberryGuardProofs`, from `GuardAssumption` and `ReasonsAssumption`). `Inv` says of
each field what it has at each await (`InOrder`), that its decision is a policy's, and the
bound policy's while nobody replaces bindings (`DecidedByRule`), and what its outcome tells of
the way it came (`OutcomeTells`, `RanAuthorised`); and of the fields together that the cache
holds what a loader made for a field of that very context (`CacheIsOwn`), that a load
that ended is remembered (`LoadsAreRemembered`), and that a principal was loaded by a field of
the same context and loader, the field itself where nothing is kept
(`PrincipalsWereLoaded`). The first two are why the promises about
principals are inductive: a hit hands out what the cache holds, so it must be known
where that came from. The third, with the users of a context being one (`OneUser`), gives
`NoBorrowedPrincipals`. From `Inv` follow also `TypeCorrectness`, `LoadsAreShared`,
`ResolversAreAuthorised`, `OnlyGrantedValues` and `DenialsConceal`. The assumption that `None` is
none of the handlers, reasons and messages keeps "nothing yet" apart from an answer.

*The JSON-lines store* (`JsonLinesAuditProofs`, from `JsonLinesAssumption`). `Inv` ties the task to
its thread and to the lock (`TasksInOrder`), the queue to the tasks that wait
(`QueueInOrder`), and the lock to the order of arrival: whoever had the lock arrived before
those who hold it or wait for it (`LockInOrder`), which is what makes `FileInCallOrder`
inductive; `PiecesTell`, `ThreadsTell` and `BodyIsLast` do it for `OnlyTroubleTearsLines`: pieces tell how
far their threads have come and threads which of their pieces are in the file, and after the body of
a task that holds the lock only threads of cancelled tasks have written. From it follow
`LinesInCallOrder` and `TornLinesHaveACause`. `StoreImplementsContract` needs nothing more: a task
returns when its thread is done, a thread that is done has all its pieces in the file (`PersistedAreDone`),
and the file only grows, so each step is one of the contract or a stutter (`ContractStep`). All of
them hold with failures, cancellations and a crash; that lines stay whole is not a theorem,
since it is false (`jsonl_torn_line`).

*The composite* (`CompositeEntitlementsProofs`, from `CompositeAssumption`). The cache below is an
instance, and so is its proof: `CacheProofs` instantiates `CachedEntitlementsProofs`, and the
lemmas `CallsOfTheCache`, `ResumptionsOfTheCache`, `CancellationsOfTheCache` and `TickOfTheCache` say that what
the composite does to the cache are steps of it (`CacheMoves`), so that its `Inv` is kept.
The composite's `Inv` adds which child is where (`ChildrenTell`: the child on the cache runs
exactly when the cache has its task, for the call's lookup), that an ended call is what its
children came to (`UnionsCombine`), and that the cache hands out no value from the future
(`ReadsArePast`). An ended union stays true because answers of the cache are final
(`CacheIsSteady`). `GrantedUnions` and `CancellationsAreCaused` follow with the cache's `ValuesAreFresh` and
`TroubleStaysInTheFlight`. `CompositesShareLoads` is the composition of the refinements: the
composites move the cache only as its own tasks would (`StepsMoveTheCache`), so they see
what `SharedLoads` promises (`SharesLoads`, which is proved and not run: `cache_flights` runs it
for the cache by itself).

`SequenceLemmas` has what the operations on sequences return, which the cache's order and the
store's queue both need.

*Only model-checked:* liveness (`EveryCallEnds` of the engine, the cache and the composite,
`EveryWriteEnds`), because fairness is beyond the prover. Every other property of the passing
runs has a theorem. The type invariant of the store is proved and not run: it is the least of
what `Inv` says.

## 5. Where the code and its documentation part

Each of these has a run with a counterexample.

1. `adecide` can raise (`engine_never_raises`): the identity callables and `AuditEntry`'s own
   validation run outside its `try` (`engine.py:571`), while
   `tests/security/test_fail_closed.py:3-4` says it never does.
2. `type T = list[A]` is accepted as a `subject_base` and means `A` (`engine_generic_alias`;
   `engine.py:378` against 374-376), because `get_args` of a generic looks like
   that of a union.
3. Cancelling one follower cancels the leader's Future and so every other
   follower, although the load succeeds (`cache_followers_result`; `cached.py:87` against 23-25).
4. Two objects on one line (`jsonl_torn_line`; `jsonlines.py:70` against 15): a cancelled
   `write` gives the lock back while its thread goes on, and an entry longer than the
   stream's buffer is written in two pieces. `OnlyTroubleTearsLines` is what does hold.
5. In a context that requests of two users share, one's field decides with the other's
   principal (`guard_shared_context`; `guard.py:145` against 41-43, which says that a shared
   context "cannot leak"). `PrincipalsAreOwn` is what does hold.

Noticed, and not run:

* `policy()` overwrites a binding that another thread made after the duplicate test
  (`engine.py:251` against 242). `tests/property/test_registration_thread_safety.py:12-15` knows
  it and speaks of a single-writer rule that the engine documents; the docstrings of the
  engine have none. `NothingIsOverwritten` is what does hold.
* The entry of an allow carries the binding's denial surface (`engine.py:570` against
  `audit.py:53-54`, "None for allowed entries").
* Two guarded fields whose loads overlap resolve the principal twice (`guard.py:154` against
  356-359). `RepeatedLoadsOverlap` is what does hold.
* A FastAPI route keeps the surface it was built with, also after the binding was
  registered or replaced, where `dependency.py:3-5` speaks of the binding's surface
  (`dependency.py:118`). `ResponsesFollowTheBinding` is stated for routes whose binding still stands.
* After 3, a leader whose load fails raises `CancelledError` in place of the
  failure, from `future.exception()` (`cached.py:114` against 107-108). Cancelling a
  leader cancels its followers, which `cached.py:100-101` concedes and 95-97 denies.
* `composite.py:60-63` takes a cancelled child for "The task cancelled by the
  runtime"; with a shared cache it may be the task of somebody else's call
  (`CancellationHasACause` is what does hold).
* With the cache around a composite, a union degraded by one failure is kept for a
  TTL (`cached.py:17-19`).
* A policy's own `deny("policy_error")` is filed as an error (`engine.py:595-602`).
* When a binding is replaced between the decision of `adecide` and its second lookup, the
  entry carries the surface of a binding that did not decide; and a guard may deny with
  the surface of a binding that is gone (`guard.py:259`). Nothing says which of the two is meant.

## 6. What the models leave out

* One event loop per cache and per store, as asyncio requires of its futures and
  locks. Of `BaseException` only `CancelledError` is modelled, and a policy body does not
  raise it. A body that returns something other than a `Decision`, against its type, is
  left out. A negative `max_entries` is excluded by `CacheAssumption`.
* A provider that raises `CancelledError` by itself is in the composite's module and theorems
  (`InnerCancels`), and in the cache's, but the runs are without it, because `CancellationHasACause` and
  `TroubleStaysInTheFlight` then ask for no other cause of a cancellation.
* The engine's liveness is about its own part: a store that never answers keeps its caller,
  since `adecide` has no timeout.
* "Persisted" means persisted at some time. A `MemoryAuditStore` may evict the
  entry later, and a `NoopAuditStore` returns without persisting: it is outside the
  contract by design, and `DenyModeRecordsAllows` says nothing of an engine that uses it.
* Which victim eviction takes beyond the recorded order is not a property of its own.
* A host's deny handler is a function of the reason and the path of the field; what it
  raises is its own. The collection of dead contexts is left out, because a context that
  was collected is not looked up again. A `Lazy` engine always suspends in the
  model, which covers resolvers that do not.
* In `FastAPIDependency`, response headers. In `CompositeEntitlements`, the predicates of
  `Entitlements`, which only application policies call.

Not modelled, and why:

* *Memory, logging and no-op stores.* Each `write` is one synchronous step; the memory
  store's lock is never held across an await. There is no interleaving to explore, and
  their step is `StorePersists` of `PolicyEngine`.
* *SQLAlchemy scope.* A stateless comparison of two compiled SQL texts for use
  in tests. What could go wrong is in SQLAlchemy's compiler, and a model of the
  comparison without it would be true by its shape.
* *Testing helpers* other than `assert_policy_registered`: read-only loops over `decide`
  and over lists of entries. *Errors and package surface*: exception classes and
  re-exports; that an operation raises and changes nothing is part of its action.
* *Examples and scripts* (`src/examples`, `src/scripts`): programs that use the
  library, and linters of the repository. They are a good part of its lines
  and none of its behaviour.

## 7. Plan

The modules of the plan are written, and every safety property and refinement that a run
checks is proved. What would say more:

1. Action properties of the cache and the guard from the invariants at hand: an answer is
   final, a principal once resolved is kept, an entry is stored only by its leader.
2. An abstract composite over `SharedLoads`, without child tasks and without a cache,
   which `CompositeEntitlements` would implement.
