# Sthira: TLA+ models of the emergency-stay backend

Sthira is a Go backend that gives citizens evacuation guidance, reserves places in
facilities, and publishes signed offline packages that keep working without a network.
This directory holds TLA+ models of its stateful core, the TLC runs that check them and
TLAPS proofs of the results that matter most. Paths below are relative to
`src/backend/internal/`.

## 1. Inventory

| Component | State | Operations | Interacts with | What is hard |
|---|---|---|---|---|
| Stays and inventory (`store/stay.go`) | `stays`, `facility_inventory(held, occupied)` | Reserve, Arrive, Cancel, Expire, Depart, Extend, Transfer, Correct | handlers, expiry worker, audit | counters kept by deltas, several rows per operation, racing requests |
| Expiry worker (`store/expiry.go`) | a batch of ids | Run, Tick | stays | batch read outside a transaction, crashes, several instances |
| Reservation handlers (`httpserver/stay_handlers.go`) | none of their own | create, event, read | sessions, idempotency, stays | idempotent replay inside one transaction |
| Idempotency keys (`store/idempotency.go`) | `idempotency_keys` | Begin, Complete | handlers | lost answers, scope of a key |
| Offline queue (`offlinequeue/queue.go`, `store.go`) | one file per pending reservation | Enqueue, UpdateState, Delete, PurgeCommitted, ResetStuckInFlight | replay worker | crashes, unknown outcomes |
| Replay worker (`offlinequeue/worker.go`, `dispatcher.go`) | the drain in progress, the token store | DrainQueue, Submit | queue, server | timeouts, retries, cancellation |
| Sessions and grants (`store/session.go`, `operatorgrant.go`) | sessions, grants | issue, authenticate, revoke | all handlers | revocation racing a handler |
| Sources (`store/source.go`, `httpserver/operator_handlers.go`) | `sources(state, version)`, authorizations | Transition, Quarantine | publication | optimistic versions, propagation to manifests |
| Publication (`store/publisher.go`, `publication.go`) | `published_manifests`, `published_cards` | Publish, Promote, SetStatus, Quarantine | sources, packages, delivery | a promotion reads, locks and decides in several steps |
| Delivery cache (`offlinedelivery/cache.go`, `types.go`) | entries, calls in flight | GetManifest, GetCard, observers | publication | stale fetches, cancelled leaders, late purges |
| Revision tracker (`offlinedelivery/monotonic.go`) | last manifest of a jurisdiction | ValidateNext, Commit | delivery | check and commit under different locks |
| Delivery handlers (`offlinedelivery/handler.go`, `range.go`) | none | GET manifest, card, resource; byte ranges | cache, client | a range of one version joined to another |
| Offline client (`offlineclient/`) | generation, tombstones, state file, `.part` files | Sync, StateQuery, DownloadResource | delivery | crashes between file writes, clock rollback, resumed downloads |
| Signed formats (`offlinepkg/`, `store/publisher.go`) | two trust stores, published rows | sign, parse, verify, publish | authorities, client | keys revoked or expired on one side only, mixed-up deliveries |
| Resource packs and packages (`offlineresources/`, `opkg/`) | none | AuditRegionalPack, ValidateMapStyle, Validate | client, ingestion | rules over lists that refer to each other |
| Audit chain (`store/audit.go`) | hash chain | Record | every transaction | serialised appends, rollbacks |
| Row locks (`store/*.go` under `Store.InTx`) | locks held | every handler | database | opposing lock orders |
| Voice orchestration (`orchestration/`, `store/scoped.go`) | queues, breakers, correlation map | Process, Transcribe, Synthesize, Acquire, Execute | workers, store | context resolved before inference and used after it; saturation; late results |
| Proposal checks (`middleworker/decode.go`, `orchestration/model_strict.go`, `contracts/`) | none | decode, validateProposal, EnforceScopedContext, ValidateModelOutput | orchestration, guidance | four validators that each leave something to the next |
| Workers (`asrworker/`, `ttsworker/`, `middleworker/`) | job pool, subprocess, audio cache | Dispatch, Synthesize, Shutdown, SendRequest, Get, Put | orchestration | shutdown races, dying subprocesses, stale audio |
| CAP feed (`capfeed/`) | alerts and their revisions, digests seen | Ingest, Expire, CheckAndRecord | guidance | out-of-order and repeated messages |
| Migrator (`src/deploy/go-backend/migrate/`) | `schema_migrations`, lock file | up | database | several hosts, killed runs |
| Scenario preparation (`scenarioprep/`, `catalogue/`) | a workspace and a destination directory | Prepare, Bundle | authors | edits and rival runs between passes |
| Wire contracts, plumbing (`httpjson/`, `httpserver/server.go`, ...) | none | decode, route, log | all | none of their own |

What makes each correct: the inventory counters always agree with the stays and never
exceed capacity; due holds are released, never early; one confirmed intent takes one
place and the citizen is told the truth about it; delivery serves only what its source is
authorised for, and stops serving it within a bound; revisions and tombstones never go
back; the device acts only on what a permitted key signed, and never on a revoked or ended card;
the citizen hears only what was in force when the answer was made; every request, queued call and
pool job gets an answer; transactions take their locks in compatible orders, with one exception, and the audit log verifies; migrations are
applied only upon those before them and bundles handed over whole. `PROJECT.json` lists the components and, line by line, the hazards behind these
properties.

## 2. Plan

Modelled and checked: the modules of section 3. Proved: the results of section 5.

Left are models still thin: the token bucket of the rate limiter, operator sessions, the mirrors of
the offline client, the CAP transport, the byte budget of `MemoryCache`. Liveness stays with TLC (section 5).

## 3. Modules and the code

Every module states its abstraction in its header. Definitions introduced as a *mutation* are
plausible wrong versions of the definition after them; no specification uses them, and they are
kept to show that a property would notice.

**StayLifecycle** models `stays`, the two counters of every inventory row and the batch of each
expiry worker. A `StayStore` method runs in one transaction that locks the stay and the inventory
rows it changes, so a method is one action; an error rolls back and is a stuttering step. The
requests come with arbitrary legal arguments; what a handler refuses before it calls the store
(policy limits, closed sources) is a request that does not happen, and a replay of a completed
idempotency key changes nothing. The clock is abstract; a transaction's `now` may lag by `MaxLag`. A clock that is
ahead is not modelled: such an instance expires holds early by its lead, and nothing in the code
prevents that. Nor is an id whose expiry fails for good (`Tick` would try it in every batch).

**OfflineSubmission** joins four parties: the queue files, the replay worker, the network and the
reservation handler. `entries` is the disk and survives `Crash`; `worker` and `token` do not.
`Transact` is the handler's transaction: authentication, the key row, the context gates, the
snapshot version, capacity, in that order; the key row and the hold commit together. Answers are
the classes `Submit` tells apart. A request the client gave up on is lost or may arrive later
(`strays`). Two things are assumed of the caller: it never deletes an entry whose outcome is
unknown, and it uses an id once.

**Publication** splits transactions where another can come between: an operator's read and its
version-guarded update, and the four steps of `PromoteManifest`. A lock held to the commit is a
guard on the others. One jurisdiction, one package per source. Authorizations expire and packages
are revised or retired at any time. `SetManifestStatus` accepts every status and `QuarantineManifest`
both values, also those that lift a restriction (`publication.go:181` "quarantined or unquarantined",
`:201` lists CURRENT); neither looks at the source. Outside tests they are called with
WITHDRAWN and TRUE only (`publication.go:380, 392`), but the model allows all values: `byHand` records
the rows set so, and the properties say what holds with them.

**DeliveryCache** models a download as `Lookup`, `Join` (leader or waiter), the fetch's
second look, read and put, and `Deliver` or `Cancel`. Lifecycle operations commit and leave a
notice that the observer may handle late or never. Times are ages and remaining lives, so no clock
limits a behaviour; `MaxDelay` bounds only how long a record that was read travels.

An eviction may remove any other entries before a put.

**RevisionTracker** is the two-lock `Commit` of the revision tracker.

### Voice service

**VoicePipeline** follows a request of each of the three endpoints: the handler's refusals, the context
it resolves (two queries of `scoped.go`), admission to each stage, the correlation claims, the worker
calls, the three queries of `SnapshotRevalidate`, rendering and delivery. Packages and approvals change
between any two steps. A revoked approval of a version is not given again: the code has no operation for
it (`store/c03_acceptance_test.go:372-377` does it by SQL). It uses the queues through
**AdmissionContract**, the abstract specification of a slot (granted when one is free, refused only when
none is, given up only when the context is done), which **BoundedQueue** implements: `Contract` is the
INSTANCE with the refinement mapping `Outcome`, and the run `voice_side` checks `Contract!Spec` as a
property of the mutex, condition variable and watcher goroutines of `admission.go`. This is the
composition: the pipeline on the contract, the queue under it.

**CircuitBreaker** is the two-lock `Execute`, with calls that return in a later state than the one
that admitted them. A panic in the called function is not modelled. **AdapterIpc** is the line protocol with a model
subprocess that may hang, answer late, print garbage or die; request ids come from clients or a default
(`orchestrator.go:497`, `synthesize.go:70`) and reach `SendRequest` unchecked, so two calls may be under way
under one id; **WorkerPool** the job channel of the three workers with their
different gates and shutdown orders; **SpeechCache** the TTS audio generated at start and looked up
while the source version advances. **ProposalRules** is stateless: the scoped context and the
validators an action passes, over every bounded action and package, with the guidance list and the
voice-commands endpoint judged against the same package. Guidance lists nothing for a package whose
evidence class it does not serve (`choice.go:155-159`), while the voice context has no such gate; the
agreement is stated for the classes that are served.

### Offline client, artifacts and tools

**ClientSync** keeps the client's four files and two clocks; each file write is a step and the
process may die between any two. `GetActiveCard` may run concurrently with a sync and with itself
(`client.go:112-115` "goroutine-safe for read methods"): each reader loads, judges and writes back the
state it loaded. **ResumableTransfer** joins `downloadStreaming` to the delivery
handlers and `ParseRange` (a 206 without an ETag and a client that asks not to resume are left out). **SignedArtifacts** follows documents from the key holder through the
publisher's and the client's trust stores; a key may be permitted for `*`, and one without a bound
of its validity is unbounded. **PackRules** builds a resource pack and a package entry by
entry and states what its readers rely on. **CapLifecycle** applies alerts in any order.
**Transactions** abstracts each server transaction to the locks it takes in order, with the audit
events it appends. An UPDATE of several rows locks them in any order. Which rows it matches depends on
data the module does not hold, so every set of lower manifests (or cards of the package) is a set a
promotion may supersede, also of other sources; a transition updates all manifests and cards of its source,
or none. **Migration** and **ScenarioPrep** are the two tools that write shared state. An image
holds any interval of revisions: `discoverMigrations` checks gaps and duplicates between staged files, and
nothing checks that the first is 1. `Bundle` reads each package in four passes, and a read may fail
for once in any of them.

## 4. Runs

Bounds are in the `.cfg` files. Deadlock checking is off everywhere because a
system whose budgets are used up and whose stays are all terminal may stop.

| Run | Shows | Why the bounds are enough |
|---|---|---|
| `stay_lifecycle` | counters agree with stays, no overbooking, releases never refused, one successor, row discipline | three stays allow a chain of two transfers and a competitor; two dates make partial ranges; capacities 2 and 1 with parties of 1 and 2 make every refusal happen |
| `stay_expiry` | never early, always resolved | two workers with batches of one race for three stays, with a crash and a lagging clock |
| `offline_replay` | one commit per session and key, true reports, unknown outcomes kept | two entries, keys and payloads, two attempts, two faults, one late request, one new session |
| `offline_verdict` | a failure verdict means no hold; every entry gets a verdict | two entries compete for one place, with two faults and two changes of the server's state; no late request and no cancelled drain, see below |
| `publication` | only operational sources are served, restrictions stick, decisions are on the state seen under a live grant | two revisions and two operators race with a promotion over one source and two package versions, and one row is set by hand to any value (1.3 million states; a second concurrent promotion is covered by the proofs) |
| `delivery` | manifests, and cards that supersede each other, delivered at most `TTL + 2*MaxDelay` after the end; one fetch per key; every waiter answered | two callers and two fetches, leaders cancelled at any time. The bound is tight: one tick less fails |
| `voice_side` | speech delivered was in force after inference; the queue implements its contract; every request, Acquire, subprocess call and pool job is answered; a drained pool owes nothing; the breaker closes again | two requests share a correlation id and one slot per stage while a package changes once; three callers for one slot and one queue place; three breaker callers cross all states; two subprocess calls, both under one request id, with a dying child; two jobs for one goroutine during each worker's shutdown |
| `offline_side` | one property or two for each part listed below | see the table below |

`voice_side` and `offline_side` each hold several parts that share no variable. `machine`, chosen
in the initial state and constant, says which part moves; the others keep an initial value. A
behaviour is thus a behaviour of one part, and a property that mentions only a part's variables is
checked as in a run of that part alone. Fairness in `MCVoiceSide` is the part's own.

| Part of `offline_side` | Shows | Bounds |
|---|---|---|
| `SpeechCache` | `SpokenIsCurrent`: audio spoken is of the version current at its lookup | two keys over budget, two versions, two jobs |
| `ProposalRules` | `AcceptedActionsAreMeant`: the validators together accept only actions about this package, and agree with guidance and the commands endpoint where they should | every action with up to 3 ids, every order of 2 zones; a facility without capacity, a closed or unverified route; each evidence class with the gate open and closed |
| `RevisionTracker` | `NeverRegresses` | two committers, three revisions |
| `Transactions` | `NoWaitCycle`, `ChainUnbroken` | every pair of transaction kinds, two facilities, two dates, three manifests of two sources, two cards, rollbacks. Longer circles are left to the proof |
| `CapLifecycle` | `StateFollowsNewest`, `ReplayRefused` | two revisions of an alert, an update, three cancels, in any order, repeated |
| `ClientSync` | `RevocationsFirst`, `NothingDeadIsCurrent` | two revisions, two readers and a sync, one crash or one clock set back |
| `ResumableTransfer` | `ReturnsOneVersion` | two versions of different length, three faults |
| `SignedArtifacts` | `HeldIsAuthentic` | a key of one jurisdiction that ends and one for `*` without an end; five contents of two jurisdictions, three signatures |
| `PackRules` | `RulesAreSound` | packs of up to three of six descriptors, lists of up to two entries |
| `Migration` | `GrowsByNext` | three migrators on two hosts, an image that is older and one that starts at 2 beside the whole history, histories with a hole |
| `ScenarioPrep` | `HandedOverOnce` | two runs, one edit, one kill or failing read, a draft for each kind of defect |

The modules' type invariants hold on the same instances; the runs list the other properties. Typing
is a part of each inductive invariant of section 5. `offline_side` has 1.8 million states (`ClientSync`
most of them) and takes three minutes, `publication` and `voice_side` about one each. In `offline_side`
the two readers are symmetric.

### Disagreements between the code and its documentation

Each of these runs states what a comment promises and TLC finds the code doing otherwise. The
quotations are in `PROJECT.json`.

| Run | What happens |
|---|---|
| `offline_reauth` | keys are scoped to a session id, so a replay after re-authenticating takes a second hold |
| `publication_quarantine` | an operator transition releases a quarantined source |
| `delivery_reappears` | a fetch in flight caches a withdrawn manifest again, for one TTL |
| `tracker_tombstones` | concurrent commits lose a tombstone |

`offline_verdict` needs assumptions the code does not enforce. A request the client gave up on
must not arrive after a replay was refused (`MaxStrays = 0`): the server keeps no record of a
refused key. No instance without a database may answer (`MaxStoreless = 0`): its 503
`DATA_UNAVAILABLE` is a permanent code for the worker, also when an earlier attempt committed. A
drain is not cancelled during a backoff (`CancelDrains = FALSE`): the entry would stay IN_FLIGHT,
which `PeekPending` skips, until the next restart. `offline_replay` has all three and shows what
still holds with them.

Further observations made while modelling, without a run of their own:

- `Enqueue` compares keys, never ids: an id already on disk is overwritten, also in flight.
- `PromoteManifest` supersedes lower revisions only, so promoting an older revision leaves two
  CURRENT rows; delivery serves the highest, which is what `Served` models.
- `SetManifestStatus(CURRENT)` and `QuarantineManifest(false)` check nothing: with them a withdrawn row, or a
  row of a suspended source, is served again. `ServedIsAuthorised` and `RestrictionSticks` except the rows
  that were set by hand, and only for the row that was.
- Two transactions can deadlock on manifest rows. `PromoteManifest` locks the row's own source and then
  supersedes every lower CURRENT row of the jurisdiction (`publication.go:343-347`), also of sources it has not
  locked; a transition of such a source, or another promotion, updates the same rows in the order the database
  finds them. `publication.go:261` and `publisher.go:299` speak of a strict lock order, which holds
  up to the manifest. PostgreSQL aborts one of the two. `NoWaitCycle` says that this is the only circle, and
  each wait in it is of this kind; with a lock on the source of every row, as for cards, there is none.
- `OnSourceQuarantined` purges manifests only, so the callback for a quarantined card leaves the card
  cached; `PromoteCardWithObserver` passes the new version, not the superseded ones, to
  `OnPackageSuperseded`. The server wires no observer into the delivery handler, so that in production
  the TTL alone bounds staleness, which is what `BoundedStaleness` shows.
- The shared fetch of `CachedSource` uses the context of the caller that started it, so waiters may
  receive that caller's cancellation as their answer.
- `evictToFitLocked` never lowers `targetBytes` in its loop, so a put over the byte budget evicts every
  entry.

Voice service:

- `SnapshotRevalidate`'s second query ignores language and time: one revoked row makes every request
  at that package version stale from then on. Route validity is evaluated only when the context is
  resolved.
- The HTTP client returns `ErrModelTimeout` while the orchestrator tests for
  `context.DeadlineExceeded`, so a worker timeout is answered 503, not 504. Requests without an id
  share one default id per endpoint; of two requests with one id the newest claim does not always
  win; the map of claims never shrinks, and a missing digest leaves its in-flight mark.
- `HIGHLIGHT`, `FIT` and `SET_LAYER` pass `EnforceScopedContext` and are blocked before it.
  `SHOW_ROUTE` does not check which safe zone the route leads to. The commands endpoint knows no
  places and ignores foreign fields. Guidance honours route closures and lists zones of unknown
  capacity; the voice context does neither. `ValidateModelOutputShape` has no caller, and `decode.go`
  announces a duplicate-key check that `encoding/json` does not make.
- A queued call whose context ends before its watcher goroutine reaches its select may leave itself in
  the waiter count for good, so that `Acquire` later refuses with nobody waiting. `AdmissionContract`
  allows it: no slot is free. The breaker's single probe is not guaranteed when calls admitted in CLOSED
  return late; it is not wired into the orchestrator.
- `runtime_ipc.go` says that request ids must be unique among concurrent calls and that an answer may not
  reach a different caller; nothing enforces it. Of two calls under one id the second takes the first's place in
  the pending map: an answer to either goes to the second, the first waits until its deadline, and the
  first one's return removes the second's entry. A late answer to a timed-out call also reaches a later call
  that reuses the id. An over-long line ends the reader without killing the child.
- A send on the closed job channel panics in a window of each shutdown (net/http recovers it and the
  call ends without an answer body). The middle worker's `LoadAndVerify` is called idempotent and
  starts a second pool.
- Pre-generated audio lives one hour and is generated only at start.

Offline client, artifacts and tools:

- Reads that overlap a sync, or each other, write back the state they loaded: the last revision may go back
  and the recorded expiry may be lost, after which a clock set back makes the card usable again
  (`sync.go:18` and `client.go:112` say goroutine-safe). `NothingDeadIsCurrent` therefore speaks of an expiry
  that is on record in what the read loads, and `RevocationsFirst` excepts, in its second part, histories in
  which a read wrote back a replaced state. A manifest of the same revision
  with other bytes is activated silently. After a crash between activation and the state file a
  mirror's older revision is accepted.
- A crash can leave the tombstone sentinel without its file, which `storage.go` calls impossible.
  A `.part` that fails verification is kept though `client.go` says it is removed. A crash between
  `meta.json` and `content.bin` makes an intact earlier resource MISSING.
- An update makes its alert SUPERSEDED and nothing ACTIVE; a cancel that precedes its alert is
  quarantined and lost; the deduplicator's capacity is not a bound. These parts are wired only in tests.
- A manifest whose key is revoked between verification and activation is still activated.
  `AuditRegionalPack` reports an exceeded budget and does not fail. A card's route origins and the
  uniqueness of a package's facility ids are not checked.
- Several migration files are not idempotent though `main.go` says so; a second host's attempt fails
  harmlessly. A killed migrator leaves its psql running after the lock file is free. `verify` runs
  files that contain their own COMMIT.
- An image whose first revision is 2 is applied beside one that holds the whole history: 2 then 3 are
  recorded, and 1 is added later, below them. Within the staged files nothing is skipped.
- A file that cannot be read in the pass that lists the hashes (`bundle.go:167-170`) is copied
  without a hash in the manifest, and a read that fails in the second resolution leaves a finding in a bundle
  whose status stays READY. A package without zones, routes or policy is INVALID (`opkg` rejects it), although
  `prepare.go:35` names these among what makes a workspace INCOMPLETE.
- `bundle.go` says unresolved references refuse the bundle; they are findings and the status stays
  READY. Recorded hashes may differ from the bytes copied when a file is edited during the run.

### Fairness

- `StayLifecycle`: each worker's `Work`; `Run` ticks until its context ends and row locks are
  released at commit. Requests are never assumed to come.
- `OfflineSubmission`: the client drains repeatedly, calls end (they have a timeout), a killed
  client is started again and puts its token back, and a request on the wire is served. Faults
  need no fairness; they are bounded.
- `DeliveryCache`: a fetch that was started goes on (its goroutine runs) and a finished call wakes
  its waiters. Cancellations and observers are never assumed.
- `VoicePipeline`: a request's goroutine goes on, and its context's deadline comes
  (`StageDeadline`); when it has come, a waiting Acquire and a worker call end.
- `BoundedQueue`: goroutines run, and each context ends at its deadline. No slot is assumed to be
  released.
- `CircuitBreaker`: time passes, upstream calls end (they have timeouts) and some caller calls again
  (a refused call has no effect). The upstream is assumed to recover
  only in the premise of `ClosesAgain`.
- `AdapterIpc`: writers, callers and `Close` go on; write and call deadlines come; the reader sees
  the end of a dead child's output. Nothing is assumed of a live child.
- `WorkerPool`: pool goroutines go on, runtime calls end, and a shutdown that began continues.

## 5. Proofs

Eight modules hold proofs. Each proves, for every value of the constants, the properties TLC checks
on small instances: an inductive invariant with one lemma per action, `Spec => []Inv`, and from it
the properties. `theorems` in `PROJECT.json` names the results, with the property each one states.

| Module | Theorems | The invariant, and why it is needed |
|---|---|---|
| `StayLifecycleProofs` | `TypeCorrect`, `PlacesConserved`, `NeverOverbooked`, `AlwaysReleasable`, `RowsDisciplined`, `ExpiryIsDue`, `OneSuccessor` | `IInv`: types, counters agree with stays, capacity stated on the counters, `start <= end`. Conservation alone is not inductive: the guard of `adjustInventory` speaks of counters, and `Extend` allocates only `[end, newEnd)`. `History` adds that a worker's instant is never in the future, and that a row that does not exist continues nothing |
| `OfflineSubmissionProofs` | `OncePerSession`, `CommittedHolds`, `UnknownOutcomesKept`, `FailedLeavesNoHold` | `OInv`: key rows and holds point at each other; the request of a call is a copy of its entry, which stays IN_FLIGHT; request and answer never coexist; an answer OK stands for a hold. `VerdictInv` adds that every hold belongs to an entry that cannot have failed |
| `PublicationProofs` | `ServedAuthorised`, `RestrictionsKept`, `DecisionsOnCurrent` | `PInv`: between its gate and its commit a promotion's source is operational and its rows not withdrawn, because it holds their locks; a CURRENT row of a source that is not operational was set by hand; what an operator saw is the source's state as long as the version is the one read |
| `DeliveryCacheProofs` | `StalenessBounded`, `MissesCoalesced` | `CInv`: how long ago a record ended is bounded by the age of the read that found it, then by what its entry has left to live. A caller waits for a call of its own key; a slot belongs to one leader |
| `TransactionsProofs` | `NoDeadlock`, `ChainNeverBroken` | `LockInv`: what a transaction still takes is not below what it holds in the order key, grant, source, package, stay, manifest, card, inventory (by facility and date), audit. Manifests, and cards, come in any order among themselves. Whoever has a card has its source, so no two transactions meet at the cards of one source; with manifests a circle remains possible, and the theorem says that every wait in it is for a manifest whose source one of the two has not locked. `ChainInv`: the log is a chain also with the events of any one transaction added |
| `VoiceSideProofs` | `SlotsBounded`, `QueueRefines`, `DrainAnswersAll`, `AnswersAreCurrent`, `AnswersAreOwn`, `CallsNotForgotten`, `ProbeNotAbandoned` | `QInv`: `inFlight` counts the holders, and only calls whose context is done leave the waiter map unserved; with it each step of `BoundedQueue` is a step of `AdmissionContract` or a stutter. `PoolInv`: an unanswered admitted call is in the channel or with a goroutine, and goroutines leave only an empty closed channel. `VoiceInv`: a revoked language is never approved again, so what is active at the last query was so at the first. `IpcInv`: an entry of the pending map is of a call that waits with an empty channel, and every such call has its entry unless another was made under its id; a reader that failed has handed an error to every entry and left none; a line in a channel carries the call's own id. `BreakerInv`: the probe flag stands only in HALF_OPEN with a call inside the upstream |
| `RulesProofs` | `PackTypeCorrect`, `RulesSound`, `ChoiceOrder`, `AcceptedMeant` | there is nothing to keep along a behaviour but the shape of the documents (`PackInv`, `ProposalInv`); the work is in what the validators compute, see below |
| `OfflineSideProofs` | one or two for each part, below | |

`StayLifecycleProofs` rests on lemmas about `Heads`, the set of people counted by a row: it is finite
(`HeadsFinite`) and splits into the people of one stay and of the others (`HeadSplit`), so that replacing
one stay changes its cardinality by that stay's contribution (`HeadUpdate`), which `AdjustConserves`
matches with the change of the counter.

| Part of `OfflineSideProofs` | Theorems | Invariant |
|---|---|---|
| `SignedArtifacts` | `HeldAuthentic` | a row and a pending manifest are documents that some key holder signed whole |
| `ClientSync` | `RevocationsPrecede`, `DeadNotShown` | what a running sync has not yet revoked is all that is missing on disk; the recorded revision never runs ahead of the active one; a card in `over` is recorded as expired on disk, and a read that loaded that record judges by it, whatever others write back meanwhile |
| `ResumableTransfer` | `OneVersionReturned` | a part is the beginning of one version, no older than the one its meta file names |
| `Migration` | `LedgerGrowsByNext` | all staged files before the one a running migrator, or an orphaned psql, is at are in the ledger; and when all images start at one revision nothing is above it |
| `CapLifecycle` | `NoReplay`, `FollowsNewest` | every digest let through is in the window or past it; the revisions of an alert are in strict order of `sent` |
| `ScenarioPrep` | `BundlesHandedOverOnce` | what a run holds is what the workspace says as long as nobody has edited it and none of its reads failed |
| `SpeechCache` | `SpeechIsCurrent` | an entry is stored under the version current then, and versions only grow |
| `RevisionTracker` | `RevisionNeverRegresses`, `CardNeverRevoked`, `SequentialKeepsTombstones` | a validated manifest's card is not among its own tombstones. The last theorem holds for one committer: the loss that `tracker_tombstones` shows comes from concurrency alone |

`RulesProofs` is about lists of any length. The prover cannot use an induction principle that takes a
predicate, but induction over a *set* is a first-order statement: `UpTo` says that a set with 0 that
is closed under the next number holds every number up to `n`, and `OverLists` that a set of lists
with the empty list that is closed under appending holds every list. A function defined step by
step exists and is fixed by its steps (`Iterate`, `Determined`). On these rest what
the model's operators compute (the filtered and concatenated lists of `scoped.go`, the scan
of `enforceChoiceOrder`). `ChoiceOrder` says that this scan accepts the selections that keep the
server's order and nothing else. `RulesSound` states the audit's
scans without order (`Acceptable`: ids differ, and entries of one uri agree), shows that a
permutation of the entries keeps the sums by a bijection between the bytes they count, and that a
package which validates is coherent.

`AnswersAreOwn`, `CallsNotForgotten` and `ProbeNotAbandoned` are the safety part of what `voice_side` checks
as liveness (`EveryCallReturns`, `ClosesAgain`): TLC checked them on its own (two calls of one
id; three callers) before they were proved, and they are no property of a run.

**Assumptions.** Each module's named `ASSUME`, which TLC evaluates on the runs' instances. Most say
that bounds are natural numbers. Those that say more: the size of a descriptor is an integer, also a negative
one; no call of the line protocol uses the id `__startup__` (nothing checks it), and no call has the name of a line; the sets of transactions and of queued calls are finite
(`IsFiniteSet`; the cycle-free order is over the waiting ones, the slots are counted); a ledger is a set of
revisions up to `LargestRevision`, the largest value of the `integer` column; the ids of pool calls are
none of the goroutine states; times of CAP documents are integers; drafts have the shape that parsing gives
them. `FailedLeavesNoHold` has three hypotheses, `MaxStrays`, `MaxStoreless` and `MaxRenewals` zero: they are
those of the run `offline_verdict`, and section 4 says why the code needs the first two; the third stands for
the fresh hold after re-authentication that `offline_reauth` shows.

**What the proofs found.** An earlier `NothingDeadIsCurrent` counted among the ended cards also one whose
window had run out when the client judged it, and its invariant could not be made inductive. TLC, on
larger bounds, gave the reason: with the wall clock set back below the high-water mark, `computeFreshness`
fails (`sync.go:118`, shown as UNVERIFIABLE) before it compares the monotonic time (`sync.go:143`), so the
end is not recorded, and after a restart the card is CURRENT or STALE again, whereas `sync.go:72` says that
wall-clock rollback "cannot extend validity or un-expire an expired card". The property now states what
does hold: a card that the client itself has called expired stays so until it is acquired anew.
The proof of `LedgerGrowsByNext` needed the bound on revisions, and that of `StateFollowsNewest` showed that
only distinct `sent` times reach a list, which makes the order of its stable sort unique.

**Only model-checked.** All liveness (TLAPS 1.4.5 proves neither fairness nor `ENABLED`):
`DueHoldsResolved`, `EveryEntryResolved`, `EveryWaiterAnswered`, `EveryRequestAnswered`,
`EveryAcquireReturns`, `EveryCallReturns`, `EveryDispatchReturns`, `ClosesAgain`.
Every safety property and every action property of a passing run is stated by a theorem. The violations of
section 4 are counterexamples of TLC. No module uses a RECURSIVE operator.

## 6. Not modelled

Cryptography, canonical bytes and JSON syntax (what they establish is modelled); prompts, audio and
inference; place search and readiness queries; HTTP headers, CORS, logging and metrics; the token
bucket of the rate limiter; operator sessions and the issuing of grants; `Store.PublishManifest`
(the unsigned path) and the `sourceact` registry, which the server does not use; the CAP transport;
`verify` of the migrator and `report` of scenario preparation; evaluation, load
generation and program start-up; mobile, web and Python clients.
