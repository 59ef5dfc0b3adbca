# RatesAssist: the verification project

RatesAssist is a web application for council rates officers. It finds properties
that are rated wrongly, lets officers (or a language model on their behalf) change
records through two-phase tools, imports rolls, converts strata parents, erases
data subjects on request, and keeps a hash-chained audit trail of every change.

This directory holds TLA+ models of the parts of it that keep state and make
promises, configurations that check them with TLC on small instances, and proofs
that TLAPS checks for every value of the constants. `PROJECT.json` lists the
components, runs, mutants, hazards and theorems and maps every definition to the
lines of code it models. Paths below are relative to `src/`.

    tlc -workers 2 -config MCAuditChain.cfg MCAuditChain.tla    # one run
    tlapm AuditChainProofs.tla                                  # one set of proofs

Contents: 1 the system; 2 the models; 3 the runs; 4 the proofs; 5 what the code
does against its own words; 6 what is not modelled; 7 the plan.

## 1. The system

The web process (`apps/web`, Next.js) serves pages and API routes. Tools run in the
*adapter* (`packages/adapter-demo`), in the same process or in a child over stdio,
on an in-memory `DataStore`. With `RA_USE_DB` the web process also works on Postgres
(`packages/db`): evaluation contexts are read from it and audited mutations go to
it. Pure libraries compute hashes (`audit-core`), scores (`recovery-engine`) and
geometry (`spatial`).

    officer / LLM --> API routes --> tools.ts --> adapter handlers --> DataStore
                          |              (commit tokens)   |              (in memory)
                          |                                +--> in-memory audit store
                          +--> privacy-erasure --> DataStore, then per tenant withAudit
                          +--> clients.ts: evaluation contexts  <--  Postgres
                          |        +--> recovery list: SQL pre-filter --> engine
                          +--> verify-chain route  <-- audit_log  <-- withAudit
                          +--> evidence PDFs --> receipts (Postgres or ring) --> verify route
                          +--> spatial route: rate limiter --> slip.ts cache --> public maps

Each component with its state, its operations, what makes it hard, and what makes
it correct:

**Audit chain writer** (`packages/db/src/audit.ts`, `client.ts`, migration 0002).
State: `audit_log`, per tenant a chain of rows `(prev_hash, row_hash)`, and the
business rows; per transaction its snapshots and locks. Operations: `withAudit`
(snapshot, mutate, snapshot, lock the chain, find its head, insert, commit) and
`recordAuditEvent` (the last four). Hard: every `await` is an interleaving point,
READ COMMITTED shows each statement what others have committed, row locks and
advisory locks are taken in sequence, and any statement may fail. Correct when the
chain never forks, the head query finds the tail (legacy rows notwithstanding),
mutation and audit row appear together or not at all, and no one waits forever.

**Audit chain verifier** (`packages/audit-core/src/index.ts`,
`app/api/audit/verify-chain/route.ts`). No state of its own: it fetches a window,
relinks rows that share a millisecond or carry lagging stamps, and walks the hashes.
Correct when an intact table is never reported broken and a tampered one always is,
at the row concerned.

**In-memory audit store** (`packages/adapter-demo/src/audit/inMemoryAuditStore.ts`,
`handlers/verifyAuditChain.ts`). State: one ring buffer for all tenants, an id index,
each tenant's last hash. Operations: `append` with eviction, two chain reads, the
verification tool. Correct when what survives of a chain is a contiguous suffix of it
and verification does not take its start for tampering or anything else for its start.

**Commit-token store** (`packages/adapter-demo/src/runtime/commitTokens.ts`). State:
a map from token to (mutation, expiry, principal). Operations: `issue` (which sweeps),
`consume` (which refuses the unknown, expired, another operation's and another
principal's). Hard: several outstanding tokens, misuse, and the expiry instant.
Correct when a token commits at most once, only what was previewed, only for its
previewer and in time, and when nobody else can spend it.

**Two-phase tools** (`handlers/workflows.ts`, `addCouncil.ts`, `importRatingRoll.ts`,
`venCtConcession.ts`). State: owners, notes, councils,
properties, strata lifecycles, rate schedules, title records, concession cards, the
in-memory audit. A preview captures a mutation, a
confirm applies it to a store that others have changed since. Correct when nothing
changes that was not previewed, checks made at preview hold at confirm or are made
again, erased people stay erased, the trail accounts for notes, every property has an
owner, a conversion goes through its stages in order, and an import of reference data
stays in its council and year.

**Privacy erasure** (`apps/web/lib/privacy-erasure.ts`). State: per request, where it
is and what it has done; the store's record, a row per tenant, the audit rows.
`eraseOwnerData` takes the footprint from a cached context, authorises, erases the
store's record, then row after row in transactions of their own. Hard: it awaits
between rows, may fail or be cut off in the middle, and runs beside retries and
context refreshes; what a statement outside `withTenant` sees of the rows is a matter
of the database role, as `owners` has forced row-level security. Correct when "ok" means
that no row has details left, a shared owner is out of an officer's reach, and trail and
answers are true.

**Evaluation-context caches** (`apps/web/lib/clients.ts`). State: the process-wide
context with its refreshes in flight, one context per tenant with a TTL. Correct when
what they show is as old as the code says and no older.

**Recovery engine and list** (`packages/recovery-engine/src`, `lib/mismatchSql.ts`,
`app/api/recovery/candidates/route.ts`). The engine is a pure function from a context to
candidates with scores and amounts. Around it: a SQL pre-filter that decides which rows
it sees, the context caches, and a one-entry memo of the last sweep that all sessions
share. Correct when an officer gets a recent list of the own tenant, repeated evidence
does not add up, amounts keep to their ceilings and signs, and the pre-filter loses no
case and changes no verdict.

**Adapter client** (`apps/web/lib/mcp-client.ts`). State: the child process, the start
under way, the history of starts, the calls in flight. Operations: `runMcpTool` over
`getLive` and `spawnLive` (one shared start, back-off, a budget of starts per window),
a time limit per call. Hard: a call that times out may be carried out yet, a child may
hang or die with calls in it, and its successor knows none of its tokens. Correct when
every call is answered, a retry commits nothing twice, and answers other than
"retryable" are final.

**PDF receipts** (`lib/pdfIntegrity.ts`, `lib/pdfReceiptStore.ts`, the two generation
routes and `app/api/verify/pack`). State: a table with a receipt per document, and each
task's ring of audit entries. Hard: two tasks generate one document at a time, the
durable write may fail, tasks restart. Correct when only genuine bytes verify, a
document has one verifying copy, and a delivered copy that is current verifies on
every task.

**Spatial layers and rate limiter** (`packages/spatial/src/slip.ts`, `freshness.ts`,
`app/api/spatial/[layer]`, `lib/rate-limit.ts`). State: the cache with its ETags, the
windows. Hard: overlapping requests share an entry, candidate layers take turns, answers
overtake each other, and the upstream changes meanwhile. Correct when `queriedAt` is a
time at which the layer held what is shown, and a window neither leaks nor refuses early.

The other components are listed in section 6, with the reason they are left out.

Interactions that the models compose: `TwoPhase`, `PropertyRoll` and `CouncilImports`
are built on the token store and proved to drive it as it says; `ErasureService` uses
`withAudit` as the atomic step that `AuditChain` shows it to be; `MCAuditReaders` has the
readers of integrity records: in a deployment one of the two audit readers is live, both
over `HashChain`, and beside them the check of the receipts;
`RecoverySweep` puts pre-filter, caches and memo around `RecoveryEngine`; the spatial
route consults the limiter before the cache; `AdapterClient` runs a two-phase tool in
the child and implements `ToolCalls`.

## 2. The models

| module | models | state | extends / instances |
|---|---|---|---|
| `AuditHash` | the hash values | - | - |
| `AuditLedger` | what `withAudit` promises, atomically | data, ledger | `AuditHash` |
| `AuditChain` | `withAudit`, `recordAuditEvent`, `withTenant` over Postgres, one action per statement | transactions, locks, data, audit_log | `AuditHash`, instances `AuditLedger` |
| `HashChain` | `verifyChain`, `orderByChainLinkage` | - | `AuditHash` |
| `AuditVerify` | the verify-chain route over a growing, perhaps tampered table | clock, table, last answer | `HashChain` |
| `InMemoryAudit` | the ring buffer and `verify_audit_chain` | buffer, index, last hashes | `HashChain` |
| `CommitTokens` | the token store | clock, entries, history | - |
| `TwoPhase` | contact changes, notes, councils, with erasure and the commits to the roll beside them | token store, owners, notes, second records, councils, audit | instances `CommitTokens` |
| `PropertyRoll` | rating-roll import and strata conversion, erasure beside them | token store, properties, owners, lifecycles, audit | instances `CommitTokens` |
| `CouncilImports` | rate-schedule, title and concession-card imports with their parsers | token store, the three Maps, audit | instances `CommitTokens` |
| `ErasureService` | `eraseOwnerData` and the process-wide context, await by await | requests, store, rows, trail, context | - |
| `ToolCalls` | what a caller of `runMcpTool` may rely on | answers, effects | - |
| `AdapterClient` | `runMcpTool`, `getLive`, `spawnLive` over child processes that may fail | start under way, starts, children, calls | instances `ToolCalls` |
| `RecoveryEngine` | signals, score, uplift, the sweep, its statistics | - | - |
| `RecoverySweep` | SQL pre-filter, contexts, memo, the list an officer gets | roll, register, caches, memo | `RecoveryEngine` |
| `PdfReceipts` | generation, receipt store, public verification over several tasks | requests, rings, table | - |
| `SpatialLayers` | `fetchSlipFeatures` behind the spatial route and its limiter | cache, ETags, attempts, windows | - |
| `MC...` | the instances TLC checks; `MCAuditReaders` composes `InMemoryAudit`, `AuditVerify` and `PdfReceipts` | | the module named |
| `...Proofs` | the proofs; `AuditChainProofs` also those of `InMemoryAudit`, `AuditVerify` and `PdfReceipts`, `ErasureServiceProofs` also those of `RecoverySweep`, whose operators have names of their own for that (`MemorySpec`, `RouteSpec`, `ReceiptsSpec`, `SweepSpec`) | | the modules named, `TLAPS` |

Conventions. Names are the source's where TLA+ allows it. An action is one handler
call where the code runs to completion on the event loop, and one statement where it
awaits. An operator above another one of which it is a variant, with a comment of its
own ("A writer that forgets to wait for the advisory lock"), is no part of any
specification: it is a plausible bug, which the mutants of `PROJECT.json` put in
place of the real definition to show that a property would notice.

Abstractions, and why they are sound for what is claimed:

* *Hashes.* A digest is the record of what it digests: two hashes are equal exactly
  when their inputs are. This is collision-freedom of SHA-256, unforgeability of the
  receipts' HMAC and injectivity of the canonical JSON form, all taken on trust; the
  sentinel and the legacy row hash are values no digest equals.
* *Values.* In `AuditChain` the value a call writes is named after the call, so a
  snapshot tells whose write it saw. In `TwoPhase` an owner is three fields, a property
  its notes, and all properties are of one council. In
  `PropertyRoll` a property is its number, council and owner. In `ErasureService` a
  record is "pii", "erased" or absent. In `CouncilImports` a row keeps its key and one
  cell for each rule by which cells are merged; the arrays of a title record (PINs,
  encumbrances) are functions from the line that opens an entry to the entry, which has
  their order. In `SpatialLayers` what a layer holds is a version number.
* *Numbers.* Weights of the engine are integers in hundredths, as in its catalogue.
  Amounts are in units of which `Dollar` make a dollar and time in ticks of which `Year`
  make a year, so that `Math.round` of the uplift and of each arrears figure, and
  fractions of years, are modelled (`Rounded`). The rounding of floating-point arithmetic
  itself is left out.
* *Fresh values.* Tokens and row ids are random in the code; here each is used once.
* *Postgres.* READ COMMITTED is modelled by what a statement sees: the committed
  state when it runs, and its own transaction's writes. UPDATE waits for the row
  lock, `pg_advisory_xact_lock` for its key; both are released at the end of the
  transaction. Two tenants may have one lock key, as `hashtext` has 32 bits. In
  `ErasureService` the policy of `owners` is modelled by whether a read outside
  `withTenant` finds anything (`BypassesRls`).
* *Clocks* are counters with a last value (`MaxTime`, `LastInstant`), where a run stops
  looking. TTLs and windows keep their comparison (`<=` or `<`) at their last instant.
* *Audit rows* of the in-memory tools keep what the properties relate: action, target
  and the snapshots' counts or states; in `TwoPhase` neither actor nor time.

### State and actions against the code

`AuditChain`. `pc[c]` is the last statement call *c* completed. `ReadBefore`, `RunFn`,
`ReadAfter`, `LockTenantChain`, `ReadChainHead`, `InsertRow`, `Commit` are the
statements of `withAudit` in order; `Rollback` stands for a throw, a timeout, a lost
connection or a dead process at any of them. `Heads` is the NOT EXISTS query with its
sentinel filter. `chainLock` is keyed by `LockKey[tenant]`. A committed row is visible
only from `Commit` on, with the mutation.

`HashChain`/`AuditVerify`. `VerifyChain` is the loop of `verifyChain` with its
per-tenant expected hash, `OrderByChainLinkage` the walk with its anchors and what it
does with the remainder. `Respond` is the route: fetch, order, verify, and the
forgiveness of a break at row 0 in a window. `TamperBody` and `DeleteRow` are someone
behind the application's back, once per run.

`InMemoryAudit`. `AppendEntry` is `append` with its eviction and id index;
`lastHashByTenant` is the Map, without an entry for a tenant that never appended.
`ReadChainOrdered` and its all-tenants twin take the newest `limit` rows of a tenant,
or of each in the order in which the buffer first mentions them (`Precedes`); the rows
are given by their places in that order, which is what the proofs reason about.

`CommitTokens`. `Issue` and `Consume`; `Verdict` is the order of consume's checks,
`Gc` the sweep, `Remaining` what a consume leaves in the map. `previews` and `uses`
are history.

`TwoPhase`, `PropertyRoll`, `CouncilImports`. Each tool has a `...Preview` and a
`...Confirm`. A confirm is the whole handler: the consume, the comparison of target and
input that follows it, the re-checks, the write, the audit row. A refused confirm leaves
data alone but has spent its token, as in the code. `EraseOwner` is `eraseOwnerInproc`.
In `TwoPhase` a property that is not on the roll is not found before any token is asked
for (`OnRoll`); `ImportRatingRoll` and `MaterialiseChildren` are the commits to the roll
past their tokens, whose whole handlers `PropertyRoll` has. A replace keeps a record per
line of a file, so a number may have records behind its first (`twice`), and an upsert,
which rebuilds the roll as a Map, brings the last of them to the front. The parsers of
`CouncilImports` run at preview, so the token captures rows that are parsed and, for
titles, folded (`AggregateTitleRowsByVen`: PINs and encumbrances in the order of the
lines that open them); `Upserted` is a loop of `Map.set`, of which the last write to a
key stays.

`ErasureService`. `Start` is everything before the first await. `EraseStore`, then per
council of the footprint `CheckRow` and `EraseRow`, then `Invalidate` and the refresh it
awaits (`RefreshTenant`, `EndRefresh`). `DbFails` is any failing statement, `Restart` the
death of the process: in-memory state returns to the seed, Postgres stays. `First` is
the sorted order of the request loop; the refresh reads tenants in no order, as its
query has none. `CheckRow` goes on without an erasure where the council is no tenant
(`Tenants`), the row is a tombstone, or the read, which is made outside `withTenant`,
does not find the row (`FindsDetails`). Per-tenant contexts, which the erasure does not
touch, are in `RecoverySweep`.

`AdapterClient`. The four disjuncts of `Begin` are the ways through `getLive`: a live
child, a start to share, an exhausted budget, a start of one's own. `StartChild` ends
the back-off, `Connected` and `ConnectFails` the handshake; `TransportError`, `Dies`
and `TimesOut` are the failures, and a child that is given up may still carry out
what it was sent (`Execute`). `Reply` parses what a child answers. Each child has a
token store of its own.

`RecoveryEngine`. One operator per family of signals (`ChangeHits`, ...), then
`EvaluateSignals`, the composite score, the uplift with its arrears, and
`FindMismatchesWithOvertax`. `RecoverySweep`: `ListHit`, `ListMiss`, `ListRead`,
`ListBuilt` and `ListFails` are a read of an officer between its awaits, `AdminList`,
`InvalidateEvaluationContext` and `RefreshEnds` the process-wide context;
`FindCandidates` is the WHERE clause.

`PdfReceipts`. A generation goes through `BeginGeneration`, `Rendered` (or `RenderFails`), with a
database `Upserted` or `UpsertFails`, and `Delivered`; `VerifyPack` is the answer of
the public route on a task, with or without a readable table; `Restart` empties a ring.

`SpatialLayers`. `Ask` takes a place in the limiter's window and sends the conditional
GET or the first candidate; `Reply` is the upstream's answer, which arrives later by
`Unchanged`, `ConditionalEnds`, `Delivered` or `CandidateFails`.

## 3. The runs

Runs that pass:

| run (distinct states) | instance | what it shows |
|---|---|---|
| `audit_chain` (11 800) | three calls on one owner of t1 (two mutations, an event), one mutation in t2, one lock key for both tenants, a legacy row | `ChainLinear`, `HeadIsTail`, `TrailMatchesData`, the liveness property `CallsEnd` and the refinement `ImplementsLedger` |
| `audit_readers` (51 300) | route: three chained rows and a legacy row, ids in any order, two instants, clocks that lag by one, one rewritten or deleted row. Tool: two tenants, a buffer of three, six appends. Receipts: two tasks, two references, two generations, a ring of two, with and without a database | `IntactTablesAreClean`, `TamperingShows`; `SurvivorsAreContiguous`, `OnlyCutsBreak`; `VerifiedMeansGenuine`, `DeliveredCopiesVerify` |
| `commit_tokens` (244 000) | three tokens, two operations, three principals of two councils, TTL 2, four ticks | `SingleUse`, `CommitsOnlyAsPreviewed`, `PreviewStaysUsable` |
| `two_phase` (182 400) | two tokens, two actors, an owner, one code under two names; a property with a note and one that has the number of a strata child of it; a file that lists the first twice and one that lists the other; two commits to the roll | `FieldsChangeOnlyAsPreviewed`, `NoteTrailJoinsUp`, `OneCouncilPerCode` |
| `property_roll` (76 000) | two councils, rolls that share owners and numbers, one parent, four tokens of which two are live at a time | `OwnersAreRegistered`, `StrataTrailIsLegal`, `ImportsRespectErasure`, `PreviewedRowsLand`, `ChildrenAreOnTheRollOnce` |
| `council_imports` (108 600) | two councils, two years, an officer and an admin; files that list keys twice, leave cells blank, name another year or contradict themselves | `CountsJoinUp`, `OrderMattersOnlyBetweenConflicts`, `ImportsStayInTheirScope` |
| `erasure_service` (1 960 200) | two platform administrators, one council officer and a request under a legal hold; three councils, a subject of one council or two, of which one may be no tenant; a restart, an import; a role that bypasses row-level security | `AnsweredMeansErased`, `SharedOwnersAreProtected`, `TrailIsComplete`, `AnswersAreTruthful` |
| `adapter_client` (60 600) | a preview, its confirm and a retry; budget of two starts per window of 4, back-offs 0 and 2, at most four children, seven ticks | `StartsAreLimited`, `RetriesCommitOnce`, `RefusalHasACause`, the liveness property `EveryCallIsAnswered` and the refinement `KeepsThePromise` |
| `recovery_sweep` (140 200) | two officers and the admin, five properties of two councils, feeds with repeated, future and contradictory entries, one change of roll or register | `OfficersListsAreRecent`, `DistinctEvidenceOnly`, `ArrearsWithinCeilings`, `PrefilterKeepsVerdicts` |
| `spatial_layers` (2 492 600) | two requests at a time, a fallback layer, two versions of each layer, TTL, timeout and window of one tick, three ticks | `QueriedAtIsHonest`, `WindowsAreFair` |

`recovery_prefilter` and `erasure_production`, which is `erasure_service` under a role
that row-level security binds, each find a violation (section 5 says of what).

**Why the bounds are enough to be of use.** *Calls:* a fork needs two writers of one
chain; the third shows a chain that goes on after one, an event shows the shorter path,
and the fourth call, in the other tenant under the same key, shows that waiting for a
stranger neither deadlocks nor disturbs. *Verifier:* three chained rows are a start, a
middle and an end, and with two instants and a lag of one they come in every order the
sort can give them; the legacy row has an id in their midst. *Buffer:* six appends into
three places evict everything of one tenant at least once. *Tokens:* the expiry instant,
the tick before it and two after it are reached with TTL 2 and four ticks; a swept, a
live and a used token exist at the same time with three. *TwoPhase:* two outstanding
previews of one owner, property or code are what any of its races needs; of two commits
to the roll the first can leave a second record or take a property off and the second
build on that; one new contact value is enough as each field shows which preview named
it. *Roll:* four tokens are what a conversion through all its stages takes, and with two
of them outstanding a race with another call can be prepared at each stage. *Council
imports:* two live previews are what confirms in the other order need, and a third token
an import over what both left; a preview not confirmed before the tick has run out; title
files for the order property are all of up to three of nine rows, among which each rule
has a pair that agrees and one that does not, and which bring two PINs and two
encumbrances in either order. *Erasure:* two tenants are what "partly erased" needs, the
third council is one without a tenant's row, two administrators what a retry or a race
needs, an officer what a refusal does, and the hold is the refusal of a caller who is
entitled. *Adapter client:* with two starts per window and seven ticks a third start is
asked for before, at and after the end of a window, the back-off of 2 moves a spawn past
the instant it was counted at, and the retry meets the child that timed out as well as
its successor. *Recovery:* an overlap of two builds needs two officers, a stale list a
TTL that passes (one tick) and one change; a dollar is four units, so that figures fall
between dollars and are rounded either way. *PDF:* two generations of one reference are
what supersedes, of two what must not. *Spatial:* an answer is overtaken with two
requests; one limit is enough since another adds only urls of the same layers (the
theorem has any); three ticks let an entry go stale twice. The theorems of section 4 lift
most of these results from their bounds.

**Bounds by name.** `MaxTime` and `LastInstant` stop clocks; `MaxAppends` and `Ids` end
the growth of a chain; `MaxPending` keeps live tokens few; `MaxRestarts`, `MaxStarts`,
`MaxRequests`, `MaxChanges`, `MaxContexts`, `MaxVersions` and `MaxRollWrites` limit
restarts, children, generations, changes of the data, contexts built, versions published
and commits to the roll. `Dollar` and `Year` are the resolution of amounts and of time.
`MAX_ENTRIES` (10 000), `ReadLimit`, `TtlMs` (five minutes), `TtlTicks`, `Window`,
`MaxAttempts`, `Backoff`, `CacheTtlMs`, `TimeoutMs`, `RateLimitWindowMs` and
`RateLimitMax` are the code's own constants, made small.

**Symmetry and views.** `commit_tokens`, `two_phase`, `recovery_sweep` and
`spatial_layers` use symmetry on sets that no operator orders or chooses from (in
`two_phase` actors and council names, but not properties); no liveness is checked there.
`RollView` drops from `PropertyRoll` what no action and no property reads: which token is
which, the history of uses, and audit rows other than those of the parents. `ImportsView`
and `ToolsView` drop from `CouncilImports` and `TwoPhase` which token is which and the
history of uses, which only tell the step at hand from others.

**Deadlock.** `CHECK_DEADLOCK FALSE` stands where a run may end: all calls done, the
clock at its last value, or every token used. That nobody waits for ever is stated as
`CallsEnd` and `EveryCallIsAnswered` instead, for the two components where callers wait.

**Fairness.** Two specifications state any. `AuditChain!FairSpec`: weak fairness of
every statement of a call under way. The handler awaits each statement in turn; Postgres
serves a row lock and an advisory lock in the order of their queues, and whoever holds
one runs to its end (or is cut off by `statement_timeout`, set in `client.ts`). Weak
fairness is enough as a waiting statement stays enabled once it is first in the queue of
a lock that each holder gives back once: calls are finitely many. Nothing obliges a
request to arrive or a transaction to fail, so `Begin` and `Rollback` are not fair.
`AdapterClient!Spec`: the clock goes on, timers that are due fire (the back-off's, each
call's own time limit, the SDK's over the handshake), and nothing is assumed of the
child or of officers: a call is answered although its child may hang for ever. The other
specifications are safety only: handlers that run to completion leave nothing waiting.

## 4. The proofs

All proofs are checked to the last leaf; none is assumed.

**`AuditChainProofs`** proves `TypeCorrect`, `ChainNeverForks`, `HeadQueryFindsTail`,
`TrailAccountsForData` and `Refinement`, for any calls, tenants, targets and lock
keys, from `ChainAssumption` (types of the constants). None of the properties is
inductive alone: that a commit extends the tip needs the head that was read to be
still the tip when the row is inserted. The invariant `IInv` adds

* `LockHeld`: a call between its lock and its end holds the key of its tenant;
* `PrevIsTip`: the head such a call has read is the tip of the chain now - because
  every other writer of the tenant needs that key;
* `RowLockHeld`: a call that has mutated holds the target's row lock;
* `AfterKnown`: its second snapshot is its own write;
* `RowsCommitted`, `IdsUnique`: the log holds rows of committed calls only, and no
  call twice.

`HeadLemma` derives `HeadIsTail` from linearity: each hash is a record that contains
its predecessor's, and a row that is not the last is extended by the next. `Commit` is
the only action that touches a chain, so its lemma is the long one. `Refinement` maps
`Commit` to the ledger's `Record` and every other step to a stutter.

The same module proves the ring buffer right, `EvictionLeavesATail` and
`VerificationTellsCuts`, for any capacity (none assumed), limit and number of tenants.
`MemoryInv` says that the rows of a tenant are numbered and linked in the buffer's
order and that the last of them is what the Map says (`Linked`, `Extended`), which an
eviction keeps as it takes the oldest row of all, hence its tenant's first. An answer is
about a *window*, a set of places closed under later rows of the tenant (`IsWindow`), so
a row in it that is not its tenant's first there follows its predecessor
(`BreaksAreCuts`), and a window that starts at a genesis is numbered from 0 to the last
row appended (`UncutIsWhole`). `ListedIsInOrder` shows that the places come out in the
order of `Precedes`, each once.

And the verify-chain route, `TamperingIsSeen` and `IntactIsClean`, for any ids, legacy
ids, clock and skew, from `RouteAssumption` (ids are numbers, and finitely many).
`RouteInv` says that an answer is the one the route gives of the table as it is, and
`TableInv` that the table is that of the writers but for one row: the rows ever written
are a function from 1 .. n in which each extends the one before (`Written`), the last of
them is the tip, and the chained rows of the table are those, or those with one
rewritten, or all but one (`TableIs`). The rest is about the operators:

* `SortedLists`: a sort by rank lists each row of a finite set once, since ranks in a
  total order are different and fill their range (`RanksArrange`);
* `WalkFollows`: the walk over rows that form a chain is that chain, in whatever order
  the sort had them; by `AnchorOfAChain` it starts where the chain does, at the genesis
  or at the row whose predecessor was cut off;
* `ChainIsOrdered`, `OrderedBreaks`: what is handed to `VerifyChain` is the legacy rows
  and then the chain, and it breaks at the first chained row if that is not the genesis',
  and where a hash is not that of its body, and nowhere else. A rewritten row is
  the only one of that kind (`TamperedChain`);
* `MissingRowsBreak`: a row whose predecessor is not in the table breaks the walk
  wherever it is put, in the walk or in the remainder;
* `WindowOfAChain`: if the rows were stamped in order, a `since` bound leaves the rest
  of the chain from some row on, and if it cuts any off it cuts off the legacy rows
  too, so that the break there is at index 0, the one the route forgives.

And the receipts, `VerifiedIsGenuine` and `DeliveredIsVerified`, for any tasks, users,
references, contents and number of generations, from `PdfAssumption` (`Null` is no
request, receipt or answer). `ReceiptsInv` says that whatever a ring or the table holds
was issued by a generation, in the table under its own reference (`HeldIsIssued`), that a
request is bound to the tenant of its reference (`RequestsAreBound`), and that the write
of a reference applied last is the one its row shows (`LatestIsStored`).

**`CommitTokensProofs`** proves `TypeCorrect`, `OneCommitPerToken`,
`CommitMatchesPreview` and `PreviewIsHonoured`, for any sets, TTL and length of run,
from `TokenAssumption`. The invariant adds that a live entry is what its preview filed
and was never used (`EntriesArePreviews`), and that until it is used or runs out a
preview stays in the map (`LivePreviewsAreEntries`).

**`TwoPhaseProofs`** shows that the handlers refine the token store
(`HandlersUseTheStore`) and instantiates the store's proofs under that mapping, so
that what the store guarantees holds of the tools (`ToolsCommitAsPreviewed`). On top
of it `OneCouncilEver`: registry codes stay apart since the confirm looks again; and
`FieldsAreAsPreviewed`: an ok of consume is a use that was not there before, of the
mutation its preview filed (`OkIsANewUse`), and `Merged` writes no field which that
mutation leaves out. `NotesAreAccountedFor` follows a property through a trail that
every tool appends to, over imports that replace it and strata children made under its
number: each note's row goes on from the count that the last write before it left (or the
seeded one), and the last of all leaves the number on file. What the rows before a place
tell does not change when rows are appended (`EarlierRowsTellTheSame`), and a row that is
last tells what it left (`LastRowTells`); `NotesInv` adds the types of notes and rows and
that second records are of properties on the roll, where an upsert finds them.

**`PropertyRollProofs`** proves `ErasureSurvivesImports` (an erased owner stays erased
in every step, whatever an old preview carries) and `ConversionsAdvance` (a lifecycle
moves one stage on at a time and never leaves a final one), the latter over the store's
invariant, again by instantiation. On top of those:

* `ConversionsAreAccountedFor`: the audit rows of a parent are its history, stage by
  stage (`TrailInv`, `PastEnds`);
* `EveryPropertyHasAnOwner`: `RollInv` says that the roll is a sequence of rows whose
  owners are registered, and an owner, once registered, stays so;
* `ImportsLandOnTheRoll`, of the step: the last row of the file for each number is on
  the roll afterwards, whatever was committed between preview and confirm;
* `ChildrenAreNeverDuplicated`, of the step: of titles listed twice, or brought before
  by a roll file, there is one property afterwards.

What the merges compute is proved of any roll and any file from the *trace* of a fold:
the function from 0 .. n to the values it has on the prefixes of its sequence
(`MapSetTrace`, `AddPropertyTrace`, `KeepTrace`). That a trace exists for the folds of
the community modules, which recurse over sets, is `SetRecursion`. The assumptions are
`RollAssumption` and `RowsAssumption` (rows name people; the seeded roll is finite).

**`CouncilImportsProofs`** proves `ImportsKeepTheirScope` from `ImportsAssumption`, by
the same instantiation. What a confirm writes is bound to its scope at preview: every
parsed rate has the request's year, every folded title the request's council
(`RatesStayInScope`, `TitlesStayInScope`, `CardsStayInScope`), a Map changes at keys
that a row writes only (`OnlyWrittenKeysChange`), and a confirm that writes has spent
its caller's own preview.

`ImportsAreAccountedFor`: the audit rows of a scope join up, each count before being the
last count after, and the last is what the Map holds (`CountsInv`, by `Cardinality` of
the keys written and the keys there); for cards and for upserts of rates, the count after
is the count before and the rows inserted (`UpsertCountsExactly`). It needs
`FilesAssumption`: the schema keeps no card row without a customer.
`AggregationIgnoresOrder`: of a file of which no two rows of a VEN contradict each other,
a preview captures the same contents in any order of its lines: the same records, with
the same cells, PINs and encumbrances, though the arrays come in the order of the lines.
An array is a function of line numbers whose entries are those of the rows, each once
(`LinesOfEntries`, `DifferentEntries`, `ArraysByRows`), so a record's contents are a
function of the rows of its VEN (`UnorderedByVen`), whatever their numbers
(`NumbersDoNotMatter`, `PermutedRows`).

**`ErasureServiceProofs`** proves `TypeCorrect`, `TrailIsKept` and `AnswersAreKept`
from `ErasureAssumption` alone, and `SharedOwnersStayProtected` where the rows are those
of the bundled data's councils that are tenants (`SeedsAgree`; the instance of the run
satisfies it, and so does the code, whose database is seeded from the bundled data and
whose tools write no owner to it). `AnsweredIsErased` assumes `BypassesRls` besides, that
the database role finds rows outside `withTenant`; without it the property is false
(section 5). The first invariant, `TrailInv`, says where a
request may stand (`RequestInv`), that what it tells of itself is what the trail says
(`ToldAsTrailed`), and that no row comes or goes. The second, `ErasedInv`, adds that
the context and every refresh under way give the true footprint (`FootprintIsTrue`)
and that a request which goes on is entitled to and has every row with details still
before it (`RightfullyAdmitted`), from which "ok" with nothing before it is the claim.

**`AdapterClientProofs`** proves `RetriesAreSafe`, `RefusalsAreExplained` and
`ClientKeepsThePromise` (the safety part of the refinement of `ToolCalls`), for any
previews, confirms, budgets, back-offs and number of children. Beside types, the
invariant says that a call is sent once and carried out at most once (`SentOnce`), that
a final answer is what the child made of the call (`AnswersAreOutcomes`), that a token
is in the child that issued it and goes only with its commit (`TokensAreOpen`), and that
a refused confirm found its token committed or not there (`ConfirmsFollow`).

`SpawnsAreLimited` is about the children and not the attempts that `respawnHistory`
counts: a back-off puts a spawn later than its attempt, into another window. `WindowInv`
pairs attempts with spawns (`Alternating`), says how old the spawns are whose attempts
the history has dropped (`ShiftedAreOld`) and that the start under way is late enough for
the process it will spawn (`PendingIsLate`). It needs `StartAssumption`: the back-offs
grow with the attempts in the window, as those of the code do.

**`SpatialLayersProofs`** proves `QueriedAtHolds`, for any layers, limits, requests,
timeouts and lifetimes. The argument follows an answer from the attempt that waits for
it into the cache, and an ETag from the answer that brought it to the 304 that relies on
it: what waits was true when it was sent (`AttemptsInv`), and if the ETag on record is
no longer the one a 304 confirms, it was recorded while that 304 was under way, by an
answer that was young then. That is where the tolerance of two attempts comes from: one
for the answer that delivered the entry, one for a 304 asked for meanwhile; with one
attempt the property is false. `WindowsHold` is about the limiter, for any window and
budget: the requests admitted within the length of a window are those of the window that
is open, which `count` has, and of the one before it (`WindowInv`).

`ListsAreRecent`, in `ErasureServiceProofs`, is about the recovery list
(`OfficersListsAreRecent`), for any officers, roll, register, feeds and lifetime of a
context. The route keeps one memo for all sessions and knows it by the identity of a
context, so `ListInv` says that what an officer reads and caches is the tenant's own
(`ReadingInv`, `CachesInv`), that the tenant's context and the process-wide one never
have the same identity, and that the memo, if it has the identity of the tenant's
context, was swept from it (`MemoOK`). The sweep itself enters by one lemma
(`SweepsList`): each row it lists is of a property of the context it is given.
`SweepAssumption` has it that the platform admin is no officer of a council.

`RepetitionsDoNotCount`, `ArrearsKeepTheirCeilings` and `FilteredVerdictsHold`, of the
same specification, are about what such a list says. `SoundInv` follows rows and feeds
through contexts and memo into it: each list served is one the engine computes from good
data (`GoodContext`, `ListIsSound`). What the engine computes of good data is then a
matter of its operators, for rolls, registers and feeds of any size:

* sums are folds over finite sets, and the proofs have them as functions of the set
  (`SumOfAFunction`): a sum does not depend on what its terms are called
  (`RenamedTerms`), and bounds on terms, with a slack for each, add up (`SumsCompare`).
  Arrears are an annual uplift times the years counted, of which the conservative bound
  has no more than the statutory one (`UpliftHasShares`); each figure is rounded for
  itself, by at most half a dollar (`RoundedIsNear`) and monotonically (`RoundedGrows`), so
  arrears keep to the ceiling given by the rounded uplift but for half a dollar per year
  and half a dollar more (`NearShares`, `SharesAreWithin`, `SharesAreMoney`), and totals
  but for that many times the rows;
* the hits of a property list each signal once, however often the feed has an entry
  (`ChangesAreListed`, `SignalsAreListed`), and of such a list the score is a sum over
  the signals (`ScoreOfAList`), the same for the feed and the repeated feed;
* the tenements of a property in a pre-filtered context tell its signals what those of
  its whole roll do (`AllAlike`), so the hits agree (`HitsOfAlike`) outside the signal
  that compares properties.

They rest on `EngineAssumption` (a year and a dollar have ticks and units; the years of
the engine's bounds; a rate table has a
line, or none, for each land use) and `DataAssumption` (rows and feeds are of the shape their
schemas admit).

Type correctness of `AuditChain`, `CommitTokens` and `ErasureService` is a theorem; it is
part of the invariants of the other proofs, and no run repeats it.

**Induction.** No prover here can instantiate the library's induction theorems, which
take a predicate as a parameter. Where an argument needs induction over data, it is made
of a *set*: the numbers at which a claim fails have a least one (`MinIsLeast`,
`MaxIsLargest`, `Counting`, from `WFMin` of the library), and finite sets are counted by
injections and surjections (`FS_Injection`, `FS_Surjection`). That is how folds over
sequences and sets, greatest and least elements and cardinalities come to be proved. Some
properties are stated by positions (row *j* is the next of its tenant after row *i*)
rather than by sequences selected from a trail, which says the same and can be reasoned
about.

**Model-checked only.** Liveness (`CallsEnd`, `EveryCallIsAnswered`): fairness is out of
the prover's reach, and with it the part of `KeepsThePromise` that says that a call is
answered; its steps are proved. Every invariant and every other action property that a
passing run checks is a theorem.

## 5. What the code does against its own words

Two runs end in a violation, and are findings in `PROJECT.json`:

* `recovery_prefilter`: `mismatchSql.ts:6-7` says that false negatives of the SQL
  pre-filter "(excluded when a signal would fire) are NOT" acceptable, and :28 that no
  implemented signal fires on what it excludes. It keeps rural or vacant land, pensioner
  rebates and live overlays only; change entries, register and title discrepancies, a
  cancelled ABN and an owner's portfolio fire on any land use.
* `erasure_production`: the erasure looks for an owner's row by a select outside
  `withTenant` (`privacy-erasure.ts:426`). Migration 0006 forces row-level security on
  `owners` (lines 147-157), and `client.ts:35` says that such queries "bypass the GUC and
  will return zero rows"; `bootstrap.ts:319-360` refuses a production start under a role
  that the policies do not bind. So the row is not found, the tenant is passed over, and
  the request is answered ok with every row's details kept, though
  `privacy-erasure.ts:28-30` says that the cascade "reaches the owner in EVERY tenant".

The following were met while modelling. The models have each of them, and the properties
are stated so as to allow what the code does; they are no findings of a run.

*Audit.*
* `withAudit` reads its "before" snapshot ahead of the row lock; of two concurrent calls
  on one owner the second records a value the first has already replaced.
  `packages/db/AUDIT.md:31` calls it the "Pre-mutation snapshot".
* A `since` window that starts inside the chain breaks at its first row, the route
  forgives that break, and rows after it are never looked at; `route.ts:59-60` says that
  ok reflects "window-internal chain consistency". `limit` may cut the scan between two
  rows of one millisecond, keep the later one and report a break (`route.ts:278`).
* The in-memory tool reports a break at 0 for every `limit` window
  (`inMemoryAuditStore.ts:187`; 174-175 reads as if such a window verified).
* The verify-chain route queries `audit_log` outside `withTenant` while the table has
  forced row-level security (`route.ts:265`): what it sees depends on the database role.

*Two-phase tools.*
* An expired token is swept by the next call and then answered as unknown
  (`commitTokens.ts:221` before 256-258). A confirm refused after consume has spent
  its token (`workflows.ts:120`, `addCouncil.ts:62`; `commitTokens.ts:14` says
  "consumed on success").
* A contact change previewed before an erasure and confirmed after it puts a phone
  number back onto the tombstone (`workflows.ts:126`), though
  `app/api/privacy/erasure/route.ts:52` says that erasure is irreversible.
  `changedFields` names fields proposed, changed or not (`workflows.ts:144`).
* An import of the roll replaces a property's record by one without notes
  (`importRatingRoll.ts:72`, `data/index.ts:466`). A replace keeps both records of a
  number listed twice, and the next upsert keeps the last of them
  (`data/index.ts:459-461`): notes made meanwhile on the first are lost, though the upsert
  does not list the property and 451-452 speaks of updates and new rows only.
* A roll row with another council's number takes its property over (`data/index.ts:466`);
  452-453 says those are untouched.
* A transition that supplies titles after `children_imported` loses the children's
  assessment numbers (`venCtConcession.ts:1366-1371`).
* `aggregateTitleRowsByVen` calls itself order-independent; some cells take the last
  row's value, others the first's, PINs and encumbrances come in the order of the lines,
  and an incomplete PIN is dropped. `inserted` of a
  replace and of a title import counts rows or records, not new entries. A snapshot may
  overwrite a newer one, as `retrievedAt` is never compared. A customer imported without
  and then with a card is two records.
* None of the three imports reaches the recovery engine, whose titles, cards and rate
  tables are constants of the build. `eraseOwnerInproc` does not touch names in title
  and card records.

*Erasure and contexts.*
* After an erasure is answered, a tenant's cached context shows the subject for up to its
  TTL; `privacy-erasure.ts:344` says reads reflect it at once. A tenant's build that is
  slow caches what it read at its start as if it were fresh.
* Two concurrent erasures both pass the check for a tombstone and both write an audit
  row (`privacy-erasure.ts:426`; 375-377 says a retry adds none).
* For a subject the database knew and the bundled data did not, a platform
  administrator would be answered ok with no row erased (`privacy-erasure.ts:315`,
  339-342). `SeedsAgree` excludes it. A council of the subject without a tenant row is
  passed over (417-421), which has no row to erase.
* The process-wide context is rebuilt from bundled data that is never erased, on a
  synchronous read during a refresh or after a failed one; refreshes of two mutations
  may finish in the other order (`clients.ts:416-430`, 1865-1881). After a restart the
  in-memory store has its seed again, details of erased people included.
* `invalidateEvaluationContextForTenant`, `getEvaluationContextAsync` and
  `persistMutation` have no callers.

*Recovery.*
* The admin's list is memoised by the identity of a context that has no TTL. A zero
  uplift drops a candidate whatever else fires on it. A tenement that is neither E nor P
  can remove the exploration-only signal. The pre-filter changes an owner's portfolio
  counts, though no other verdict.

*Adapter client.* `server.ts:89-91` creates its context without the caller, so that over
the child transport all tokens are bound to the default principal.

*PDF receipts.*
* "Latest generation wins" (`pdfReceiptStore.ts:93-98`) holds of writes, not of
  generations: two upserts may be applied in the other order, and a newer one may fail.
  A copy whose receipt is written but which is never delivered invalidates the one held.
  While reads of the table fail, a task may verify a superseded copy from its ring. The
  route does not tell "no matching record" from "modified".

*Spatial layers and limiter.*
* An overtaken answer (a 304 for what has been replaced since, or an older answer after a
  newer one) puts old features back with a fresh `queriedAt`; if the newer answer brought
  an ETag, every later 304 upholds them (`slip.ts:297`). After one failure of the
  preferred layer the fallback's features are cached and then extended by conditional
  GETs of that layer (`slip.ts:266-308`), and for `miningTenements` the fallback is layer
  0, which the registry itself describes as the MINEDEX sites. Entries are shared by
  limits, so a small limit's answer serves a larger one.
* Refused requests of one client still use up the global window where a route asks that
  first, and `resetAt < now` leaves the last millisecond in the old window.

## 6. What is not modelled, and why

* *Other store state, tool dispatcher, read-only tools, contract schemas*: stateless
  per call, or reads; schemas appear as the sets of inputs the models enumerate.
* *notify_clerk, chat loop, ABN lookup, other map sources*: a request to an external
  service and its answer, or a cache of the shape of those modelled.
* *Authentication and sessions*: decided from a signed cookie alone; the models take a
  session's principal as given.
* *Ratio studies, evidence packs and legal-risk texts of the recovery engine, geometry
  and lag windows*: floating-point statistics and documents. What the latter deliver to
  the engine is an input of its model.
* *Bootstrap, schema, pages, scripts, infrastructure*: run once, or keep no state. They
  are most of the repository's lines: React pages, seed data and generated records.
* Of modelled components: the wording of previews and evidence, attribution fields, body
  checks of routes, row-level security other than on the owners an erasure reads,
  overlays of contexts, paging and filters of lists, `closeMcpClient` (a helper of
  tests), the keys of the rate limiters.

## 7. The plan

Order: the audit chain came first, as every other promise rests on its trail; then the
token store, the tools over it and the erasure service, whose promises are the ones a
council is held to; then the imports, the transport the tools may run over, and what
leaves the system: recovery lists, documents and maps. Done: everything in section 2.
Worth doing next:

1. Abstract specifications for `ErasureService` (an erasure that is one step per
   tenant) and for `AuditVerify` (a verifier that is told what was tampered with).
2. The cache of `abn.ts`, and the compound keys of the rate limiters.
