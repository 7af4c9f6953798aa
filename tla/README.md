# Verification of the secrets gate

This directory holds TLA+ models of the *secrets gate*, the Cloudflare Worker in
`worker/`, the TLC configurations that check them on small instances, and TLAPS
proofs of the properties that hold for every instance.

The gate keeps the secrets of projects, encrypted, in R2; a policy decides who
may do what; every access is a row of a hash-chained audit log in D1; and all of
it is copied to an append-only escrow bucket. No transaction spans R2, D1 and
the storage of a Durable Object, every `await` is a place where the object can
die, and a write whose sender died may still be executed. That is what the
models are about.

## 1. Inventory

| Part | State it keeps | Operations | Talks to |
|---|---|---|---|
| **AuditLogDO** `audit-do.ts`, callers' side `audit.ts` | DO storage: head, intent, abandoned intents, receipts, request ring, pending reconcile, reconcile results, escrow queue. D1: the rows | append, append-batch, reconcile, head, alarm | called by every other part; D1; B2 |
| **ProjectWriterDO** `writer-do.ts`, `manifest.ts` | R2: pointer, manifests, blobs, pointer events. DO storage: pending outcomes and events, escrow queue, alarm | commit (set, import, delete, rewrap), alarm | R2, AuditLogDO, B2 |
| **Project deletion** `admin.ts`, `storage.ts` | none of its own | list and delete a project's R2 objects, page by page | R2, AuditLogDO, *not* the project's writer |
| **Escrow** `escrow.ts` | pending-escrow records with their attempts | enqueue, drain | B2, R2 |
| **Garbage collector** `gc.ts` | none | weekly: delete old unreferenced blobs that are in the replica | R2, B2, AuditLogDO |
| **SchedulerDO** `scheduler-do.ts`, `state-replication.ts` | next fire, alarm | arm, fire: nightly anchor and state copy, weekly GC | the parts above |
| **Policy** `policy.ts` | R2: version slots and pointer; a 60 s cache in each isolate | put, load, authorize | R2 |
| **Read path, dispatch** `index.ts` | burst counters | list, manifest, read (audit before plaintext), write dispatch with retry | all |
| **Machine tokens** `mint.ts`, `token.ts` | deny list in KV | mint, verify, revoke | AuditLogDO |
| **Administration** `admin.ts` | none | policy PUT, rotate plan, token revoke, rewrap loop, scheduler arm, reconcile | all |
| **Identity** `auth.ts`, `identity.ts`, `jose.ts` | JWKS and group caches | authenticate | Cloudflare Access |
| **Envelope** `crypto/*` | none | seal, open, wrap, unwrap | |

Hard behaviours, and what makes each part correct:

* **AuditLogDO.** Crash or lost answer between intent, D1 batch and head commit;
  a batch that lands after its append was given up; retries with the same key;
  rows of older code beyond the head; a reconciliation that dies part-way.
  *Correct* means: the head is always on D1's chain and only grows, a durable key
  is used once, an acknowledged append is in the chain, foreign rows enter it
  only under a pin and are followed by the row that says so, each row is queued
  for the escrow, and no failure blocks the log for good.
* **ProjectWriterDO.** Crash between any two of the eight steps of a commit, R2
  writes of a dead commit that are executed late, an alarm handler interleaved
  with commits, an unserialized deletion, epochs that start over.
  *Correct* means: one linear history, a pointer that resolves, audit rows that
  tell what happened, and an outcome for everything that was answered: its rows, a record
  that will get them, or a refusal for good.
* **Escrow.** One alarm for everything an object retries, a drain that awaits R2
  and B2 between reading a record and deleting it, lost answers, sources that are
  deleted. *Correct*: what was queued is copied or still queued, tried in time, and
  the queue drains once failures stop.
* **Garbage collector.** A set of references read before many awaits, while commits,
  copies to B2 and deletions go on. *Correct*: the collector removes nothing the last 50 manifests refer to, and nothing
  that is not in B2, and each removal has a row.
* **SchedulerDO.** Crashes between task and re-arm, `/arm` in the middle of a task, a
  deploy that switches it off and on. *Correct*: at rest the next due time is armed; each
  state is copied or alerted. A due time that passes during a task is skipped.
* **Policy.** Concurrent PUTs, a PUT that dies between slot and pointer, caches of many
  isolates that age and are filled by overtaken loads. *Correct*: the current policy
  moves version by version and resolves, and nobody decides with one that was replaced
  longer ago than the authz lag.
* **Read path, tokens, administration.** A token that expires or is revoked while it is
  used, a KV store that lags, an audit append that fails. *Correct*: what is answered
  was granted by a policy of the authz lag and by a live token in scope, a revoked token
  stays revoked, and the ledger names every key whose plaintext was given out.
  (Keys that were *written* may be missing: see `Gateway` below.)

## 2. Modules

| Module | What it is |
|---|---|
| `AuditLedger` | what the audit log promises: an append-only log, a key used once, foreign rows only under a pin |
| `AuditChain` | `audit-do.ts`, one action per stretch of code between two awaits; implements `AuditLedger` |
| `AuditChainProofs` | theorems about `AuditChain`: its types, and the head that stays on D1 |
| `AuditLedgerProofs` | theorems about what it promises its callers: `AuditLedger` implemented, once, kept, pinned, queued, not forgotten |
| `MCAuditChain` | its instances for TLC |
| `ProjectWriter` | `writer-do.ts`, with the deletion of a project from `admin.ts` and `storage.ts` |
| `ProjectWriterProofs` | theorems about `ProjectWriter`: its history, its rows, its alarm |
| `ProjectStoreProofs` | theorems about what it leaves in R2: shapes, one manifest an epoch, a pointer that resolves |
| `MCProjectWriter` | its instances for TLC |
| `Glob` | `globMatch` of `policy.ts` as a loop of steps, and what it should compute |
| `GlobProofs` | the theorem that `GlobMatch` computes `Matches`, and in how many turns |
| `Policy` | policy documents, `authorize`, validation, verb expansion, scopes of minted tokens, as pure operators |
| `PolicyRegister` | what the policy store promises: a register of versions whose readers may lag |
| `PolicyStore` | `loadPolicy` and `putPolicy` in several isolates; implements `PolicyRegister` |
| `Gateway` | the requests of `index.ts`, `token.ts`, `mint.ts` and `admin.ts` on top of `PolicyStore` |
| `GatewayProofs` | theorems about `PolicyStore` and `Gateway`: `PolicyRegister` implemented, answers granted, revocation |
| `MCGateway` | its instance for TLC, and the comparison of `GlobMatch` with `Matches` |
| `EscrowOutbox` | the queue of `escrow.ts` and the alarm that drains it, of `writer-do.ts` and `audit-do.ts` |
| `EscrowOutboxProofs` | theorems about `EscrowOutbox` |
| `MCEscrowOutbox` | its instance for TLC |
| `GarbageCollector` | `gc.ts` over a project that commits and is deleted |
| `StateReplication` | the nightly anchor and `state-replication.ts` |
| `Scheduler` | `scheduler-do.ts`, which runs the two tasks above |
| `SchedulerProofs` | theorems about `Scheduler` and its two tasks |
| `MCScheduler` | its instances for TLC |

`PolicyStore` extends `Policy`, which extends `Glob`; `Gateway` extends `PolicyStore`
and shares its handlers; `Scheduler` extends `GarbageCollector` and
`StateReplication`. `AuditChain`, `ProjectWriter`, `Gateway`, `EscrowOutbox` and
`Scheduler` see each other as interfaces: a row is written, refused or unanswered; a
commit answers or does not; an object is stored and queued.

### AuditChain

*Data.* A row's hash covers the previous row's, so `{seq, hash}` is modelled by the
sequence of rows it commits to: the head is a sequence of rows, "the hash is
equal" is equality of sequences, and an end hash verified against D1 is
`IsPrefix(end, d1)`. This assumes SHA-256 to be collision free. A stored row that
does not obey the chain rule has `ok = FALSE`. A payload is the number of rows a
call asks for.

*State.* `head, intent, abandoned, receipts, recent, pending, done` are the
storage keys of lines 159-171; `outbox` is every segment ever queued; `d1` is the
table; `flight` holds batches that D1 has neither executed nor refused, those of
dead senders included; `late` is an INSERT of the pre-intent code. `lock, pc, job,
tail, own` are the memory of the object and vanish in a `Crash`.

*Actions.* `Call`/`CallReconcile` (a request gets the `runExclusive` lock);
`recover`: `ResumeAdoption, ReadTail, AdoptHeld, AbandonIntent, NothingToRecover,
ChainBroken`; `finishReconcile`: `WriteReconcileRow, ReconcileRowWritten,
RecordReconcile`; `appendAt`: `Dedup, Mismatch, PutIntent, SendBatch,
CommitAppend, Conflict, Reply, GiveUp`; `reconcile`: `Lookup, CheckPin,
AdoptOverlap, PutReconcileRecord, RefusePin, AdoptPage`; outside: `LandBatch,
LandLate, Crash`.

*Left out.* Row validation and the size limits (they refuse before anything is
written), the ingest counters, `head`/`status` reads, the push to B2, and an empty
`rows` (`auditAppendBatch` never sends one). The escrow is taken to be configured.
Nothing but this object and the pre-intent code writes the audit table. Two
branches cannot be reached under that assumption: "D1 tail is behind the head"
(line 399) and "pending reconcile does not match the head" (line 565).

### ProjectWriter

*Data.* A manifest names the hash of the one before it, so its hash commits to the
history: it is modelled by `chain`, the sequence of the ids of the commits that
led to it, whose length is the epoch. DEKs are fresh, so blobs and manifests of
different commits differ; a blob is named by commit and key. The pointer's ETag is
its content. Values, padding and ciphers are left out; key versions and KEK ids
are kept.

*State.* R2: `current, manifests, blobs, events`, and `limbo`, the writes of dead
commits that R2 may still execute under the condition they were sent with. DO
storage: `pendingEvents` (by epoch), `pendingOutcomes` (by
`project:epoch:manifestSha`), `alarm`, `queued`. The audit DO and the alerts:
`ledger, refused, alerts`; `refused` are the commits whose outcome batch was answered
with a terminal refusal (400 or 409). Memory: `pc, c` (commit), `apc, al` (alarm handler). `ppc, page`
is the DELETE handler, which runs in the Worker.

*Actions.* The steps of `commit`: `Begin, ReadManifest, RefuseRequest, Attempt,
AttemptFails, PutBlob, PutManifest, SlotTaken, MovePointer, CasLost, Outcome,
PointerEvent, Reply`. `blockConcurrencyWhile` is `pc # "idle"`: while it holds, the
alarm handler neither starts nor resumes, but what it has sent is executed
(`AlarmPutEvent`, `AlarmAppendOutcome` have no such guard). A batch that is refused for
good takes the handler through `AlarmDropRefused` and then `AlarmAlerts`: the code
deletes the record (`writer-do.ts:505`) before it alerts (506), so a crash between the
two leaves neither. An R2 call that throws
out of the commit resets the object, so it is a `Crash`. The platform runs an
alarm again whose handler died. `Deploy` is a crash that may bring the next KEK.
`PurgeBegins .. PurgeEnds, PurgeDies` is the deletion.

*Left out.* Alerts are best effort in the code (`writer-do.ts:470` swallows a failing
webhook); `alerts` holds those that were sent. So nothing that is stated of all
executions rests on `alerts`: `AckedAccounted` and `EventuallySettled` count a refusal
itself as the end of a batch.
The escrow drain in `alarm()` is one step that may leave items; body
validation; the shape of audit rows (an outcome batch is one row here, its
atomicity is `AuditChain`'s subject); time, so that "set the alarm later" is not
distinguished from "set the alarm". A write of a dead *alarm* handler is not in
`limbo`: it is idempotent and its record is still there, so a late execution is
the same as the retry.

### Glob, Policy, PolicyStore, Gateway

*Data.* Names and globs are sequences of characters. A document is a set of rules, for
the loop of `authorize` allows when any rule does and otherwise reports the furthest
dimension reached. A policy is `[version, doc]`; its hash is its content. The project
has keys but no values: `keys` is what the manifest names.

*State.* R2: `slots` (`policy/versions/<n>.json`), `ptr` (`policy/current`), `keys`. Each
isolate: `cache`. KV: `denied`, the times a jti was put on the deny list. `tokens`
(minted claims), `ledger` (rows), `queued` and `refused` (outcome rows of committed
writes that the writer retries, and such that the audit log refused for good), and the
handlers' locals `req, call`. `now` is the
clock; `past`, `answer` and `learned` are read by properties only.

*Actions.* One per R2, KV or DO call with the code up to the next `await`:
`Arrive, VerifyToken, LookupRevoked`, then `LoadCached, LoadPointer, LoadVersion` of
the store, `Route` (the check of each route), and what the route does: `ReadManifest,
AnswerRead, RefuseRead, Dispatch, Mint, Deny, Control` and `PutRead, PutSlot, PutTaken,
PutCas`. `Dispatch` is the writer's commit in one step, with the three ends of its outcome
append (`Outcome`): written, queued, refused - the client gets 200 in each of them
(`writer-do.ts:385-394`); `Drain` is the writer's alarm for a queued batch.
A handler whose next step is not behind an await runs on (`Running`). A
request may be dropped at any of its awaits and an isolate evicted with all its
requests.

*Assumptions* (`StoreAssumption`, `GatewayAssumption`, `LowerAssumption`). A jti is
random, so a request names a token that was minted. KV takes at least a tick to propagate
(`KvLag > 0`); the deny entry outlives the token by more than the clock leeway and one
lookup (`DenyMargin`, 60 s in `token.ts:110`). A load of the policy and a KV read take at
most `LoadMax`: otherwise no bound on the age of a policy would hold. The cache keeps
what it is given for a positive time (`CacheTTL > 0`, 60 s). Keys and the project are
names without `*`, and no key is empty (`KEYNAME_RE`, `PROJECT_RE`); globs are strings, and no
letter's lower case is `*`.

*Left out.* JSON, sizes, ETags, rate limits, bursts and sentinels; the blobs and
envelopes of a read; the rows of denials; whoami, project list and audit head. The six
verbs of `ROTATE_PLAN_VERBS` are two, plaintext read and plaintext written, as the
others are the same acts in bulk or with a header.

### EscrowOutbox

*State.* `source` is R2 under the name, `queue` the records with their attempts,
`alarm` a countdown, `drain` the handler's locals, `replica` B2; `late` and `owed` are
pointer events not in R2 yet and objects of a commit that has not queued them.
A content is the number of the use of its name, since a deleted project's names come
back. `accepted, waited, moved` are histories.

*Actions.* `Store, StoreLate, OutcomeLate, Enqueue, Purge` are the object's callers;
`AlarmFires, PutEvents, List, Read, Push, PushFails, Rearm` the handler. The writes an
object makes to its own storage without other I/O in between are one step, as the
platform keeps or loses them together. The handler awaits R2 and B2, and commits run
meanwhile. `List(FALSE)` is a deploy that lost the B2 credentials.

### GarbageCollector, StateReplication, Scheduler

*State.* The project is short here: `epoch, manifests, blobs` (their ages), `wr` (the
running commit: where it is, what its manifest will refer to, its age), `pushes` and
`replica` (queued for B2, and there), and `ppc, page, taken` (an administrator's DELETE:
where it is, the page it has listed, and, as a history, the blobs it removed). `gc` and
`rep` are the locals of the two tasks, `rows` and `alerts` what they tell. The object:
`pending, alarm`, `fire`, the handler. Time goes in ticks, `clock` is the time of the week.

*Actions.* The project: `BeginCommit, PutBlob, PutManifest, MovePointer, CommitEnds`, one
for each R2 call of a commit that the collector can come between; `PurgeBegins,
PurgeLists, PurgeDeletes, PurgeEnds`, the DELETE page by page; `Escrow`. A DELETE stops
nobody: a commit may begin, put its blob, manifest and pointer between any two pages, and
lose some of them to the next page. It ends when nothing is left, but also when its
Worker dies. The collector: `ReadPointer, ReadManifest, List, CheckEscrow, Judged,
DeleteBlob, DeleteFails, AuditRow, GCEnds, GCThrows`; the replication: `Anchor,
ListStates, GetState, HeadSnapshot, PutSnapshot, PutSnapshotEvent, RepEnds` and its
failures; the object: `Arm, AlarmOff, AlarmFires, Rearm, Crash`. An interrupted handler is
run again by the platform, from the start.

*Bounds of the model* (`CollectorAssumption`, `InTime`). A task and a commit take at most
`TaskMax`, and twice that fits into `Retention` (minutes against the 90 days of
`RETENTION_MS`, `gc.ts:17`); a page of a DELETE is removed in the tick it is listed in.
Without them a commit as old as the retention could bring back a reference to a blob
that was judged.

*Left out.* Other projects (each is collected by itself; a blob's name has its project),
the dates in names of anchors and events, the paging of the collector's own lists, and
writes of a dead commit that land late, which are `ProjectWriter`'s subject: a commit
that dies here has done what it has done. A commit adds at most one blob.

## 3. Runs

| Run | Instance | Shows |
|---|---|---|
| `append` | 2 handlers, one durable key and one request id, payloads of 1 and 2 rows, 2 timestamps, `AbandonedMax` 2, ring of 1, 2 failures, 3 rows | the chain and its callers under crashes, lost answers and late batches; nothing canceled is forgotten or blocks the log while the list has room |
| `reconcile` | 1 handler, 2 durable keys (one with an old receipt without digest), 0-2 legacy rows, intact or not, 1 late INSERT, pages of 1 row, 2 failures | reconciliation and the escrow queue; `AuditChain` implements `AuditLedger`; the inductive invariants `ChainInv` and `LedgerInv` |
| `live` | 2 handlers, 2 keys, 2 legacy rows, 2 failures, `FairSpec` | retried keys are acknowledged in the end |
| `stuck` | `AbandonedMax` 4 as in the code, 5 failures | **violation**: five canceled appends can wedge the log |
| `commit` | 2 commits of set, delete, rewrap; 2 failures; one KEK rotation; one DELETE with pages of 2 objects | the store and its ledger; the inductive invariant `IInv` (2.1 million states) |
| `settle` | a set and an import of 2 keys, 3 failures, escrow on, `FairSpec` | every answered commit gets its rows, unless they are refused for good, and its event |
| `lost` | 1 commit, 1 failure | **violation**: a crash after the CAS leaves a commit without outcome |
| `torn` | 1 commit, 1 failure | **violation**: a crash before the CAS fills the next slot |
| `gate` | 2 requests at once of 12 kinds (read, with and without a token, by the token's owner and another, write, list, delete, mint, revoke, plan, policy PUT), 2 isolates, 2 documents, 3 versions, clock 0-2, 1 failure | authorization under cached policies, revocation, the oracle of offboarding, with outcome rows that are written, queued or refused; `PolicyStore` implements `PolicyRegister` |
| `outbox` | an R2 object and an inline segment, each used up to twice, retry of 2 ticks, handler of at most 1, 3 failures | nothing queued is lost or waits for ever |
| `nightly` | 1 blob, 3 epochs with a window of 2, pages of 1 object, 1 state with 2 contents, a week of 2 days of 2 ticks, 1 failure of any kind, a DELETE among them (2.9 million states) | the alarm chain, the collector, the copies |
| `unaudited` | as `nightly` | **violation**: a removal without row or alert |

*Why these bounds.* `append` needs two calls that overlap a given-up batch, a retry
and a competitor for the same seqs: three rows, two failures and two
distinguishable attempts (`Times`) give all of them, and a ring and a list of
capacity 1 and 2 overflow. Handlers are symmetric and no liveness is checked there.
`reconcile` needs more rows than a page and a failure in the middle of the pages
and one after them. `commit` needs two commits, because each race here is between
one that died or was overtaken and its successor; a second failure lets both
outcomes go unwritten while the project is deleted in between. Pages of two split
the smallest project between its blob, pointer and manifest.
`gate` needs two requests, as each race is between one that decides and one that
changes what it decided with; a revocation and a use, or two PUTs, or a PUT and a read
that loaded before it. One failure gives a slot without a pointer; `FirstPolicies` and
the initial tokens and caches stand for requests that came before. Three ticks let a
cache of 1 tick and a token of 1 tick expire, and the deny entry outlive it.
`outbox`: the second use of a name and a failure for each of the two handlers between
them; a third lets an alert's worth of attempts go by. `nightly`: 3 epochs and a window of 2 let
the blob leave the window, come of age and be collected while a commit or a DELETE is at
any of its steps; after a week of 4 ticks everything is due again, and `TaskMax` of 1 tick
lets the clock move inside a task. One blob is enough for the races of a DELETE: a page
takes it between its put and the pointer, and the commit goes on. That nothing depends on
there being one, or on pages of one, is what the theorems of section 5 show.
`MaxRows` bounds only calls without a durable key, since a durable key adds rows
once. `CHECK_DEADLOCK FALSE` in the `ProjectWriter` runs: with its tries used up
an idle project rests; nobody has to call. The same holds of `gate` after its last
request and of `outbox` with an empty queue. In `nightly` deadlock is checked.

*Fairness.* In `AuditChain` a handler that holds the lock runs on and D1 executes
the batch of a sender that waits (weak fairness); callers and the operator retry
and `runExclusive` is a queue, so one that keeps calling keeps getting its turn
(strong fairness on the calls). In `ProjectWriter` a delivered commit and a set
alarm run (weak fairness), which is what the platform promises for requests and
alarms. In
`EscrowOutbox` time passes, and a due alarm and a running handler go on, R2 and B2
answering (`WF_vars(Tick)`, `WF_vars(Handler)`). Nothing makes the write of a dead object land. Failures are bounded, so
"in the end" means "once failures stop".

*Mutants.* Definitions commented "Mutation:" are plausible bugs of the line below
them; `PROJECT.json` names the run in which each breaks its property. The modules
never use them.

## 4. What the runs found

* `stuck`: all appends that are given up in a row start at the same seq. The object
  keeps the last four intents; when a fifth evicts the first and the first batch
  then lands, D1 has rows no intent covers (append: 503) while other intents start
  at the head (reconcile: 409). No route leads out. CHANGELOG.md:8 and
  `audit-do.ts:21-22` promise that a canceled append does not block the later ones.
  `append` checks the same property with more capacity than failures need, and
  `NeverStuckWithRoom` proves it for every such instance (section 5).
* `lost`: `writer-do.ts:87-88` describes markers that survive a failure after the
  commit is durable. They cover calls that throw, not the death of the object
  between the CAS and the marker.
* `torn`: `docs/architecture.md:240` says a write is one epoch or none. A manifest
  whose CAS never happened keeps its slot, and each later commit is refused with
  412. `putPolicy` recovers from the same state (`policy.ts:375-383`).
* `unaudited`: `gc.ts:12` says every removal writes an audit row, and `gc.ts:133` alerts
  when that fails. `auditDelete` (`scheduler-do.ts:167`) does not look at the status of
  the answer, and the audit object answers a refusal with 503: the removal then has
  neither.

Known limits of the code that the properties state as exceptions: an object stored under
the name of a deleted project's can lose its escrow record when the drain pushes the old
one at that moment (`escrow.ts:255`; `NameUsedOnceIsKept` speaks of names used once); an
outcome or event that fails moves the alarm of waiting records (`writer-do.ts:461`;
`TriedInTime` excepts `moved`); the outcome rows of a write may be queued or refused
after the client got 200, so that a rotate plan misses the key until they are written, or
for good (`writer-do.ts:385-394`; `LearnedIsPlanned` excepts these rows, of writes only);
the alarm deletes the record of a refused batch (`writer-do.ts:505`) before it alerts
(506), so that a crash in between leaves neither, although lines 465-466 say "alert and
stop" (`AckedAccounted` counts the refusal); `/arm` at the moment the alarm is due replaces
it by the next one, and the run that was due does not take place, although
`scheduler-do.ts:101` calls it idempotent;
a due time that passes while a task runs is skipped (`scheduler-do.ts:138`;
`NextDueIsArmed` speaks of the times still to come); a policy slot left by a PUT that died can only be taken
over by the same bytes (`policy.ts:382`).

## 5. Proofs

`AuditChainProofs` proves, for all values of the constants that satisfy the
assumptions of `AuditChain` (bounds are naturals, the legacy sequences are rows):

* `TypeCorrect`: `Spec => []TypeOK`;
* `HeadStaysOnD1`: `Spec => []HeadOnD1`;
* `HeadGrows`: `Spec => HeadOnlyExtends`;
* `IInvHolds`: `Spec => []IInv`, the inductive invariant `IInv == TypeOK /\ ChainInv`.

`HeadOnD1` alone is not inductive. `CommitAppend` commits `own`, so one needs to know
that a batch D1 has confirmed is in D1 (`LandedOnD1`), that it starts at the head
(`OwnStartsAtHead`), and that nobody moved the head meanwhile (`OneAtATime`). A
batch lands on D1 only where it was built, so what is in flight was built on rows
D1 holds (`FlightBuiltOnD1`) - which is also why a batch whose append was given up
can never damage the chain. Pages are committed from `pending.to`, which is on D1
(`PinnedOnD1`), because D1 only grows. The proof has one lemma per group of
actions: what a commit keeps (`CommitKeeps`), what growing D1 keeps (`D1Grows`),
what a change of the in-flight batches keeps (`FlightRows`); `StepIInv` and
`StepExtends` put them together. The first lemmas are facts about prefixes.

`AuditLedgerProofs` proves, under the same assumptions, what the callers rely on:

* `AtMostOnceHolds`, `AckedIsThereHolds`, `ForeignRowsArePinnedHolds`, from
  `LedgerInvHolds`: `Spec => [](IInv /\ LedgerInv)`;
* `Implements`: `Spec => ImplementsLedger`, the refinement of `AuditLedger`;
* `EscrowHoldsChainAlways`: `Spec => []EscrowHoldsChain`;
* `AbandonedKept`: `Spec => [](fails <= AbandonedMax => AbandonedNotForgotten)`;
* `NeverStuckWithRoom`: without late INSERTs of the pre-intent code,
  `Spec => [](fails <= AbandonedMax => NeverStuck)`.

None of these is inductive, because three kinds of rows may still enter the chain that
no handler is working on: those of a held intent, those of a batch D1 may still
execute, and those D1 has beyond the head. `LedgerInv` says of each that it is one whole
call's, with a key no receipt names if it can enter at all, or a pinned suffix.
`HeldOK` says so of the intents and adds that one at the head is the reconcile row if
and only if a reconciliation is owed; `FlightOK` and `BeyondHead` say that what can land
or has landed at the head has an intent to adopt it with, and only legacy rows after it;
`ReceiptsOK` ties receipts and the request ring to the chain and back, which is where
`AtMostOnce` comes from; `PendingOK` and `DoneOK` follow a pin from its record to its
row; `HandlersOK` says what a handler knows at each await. The proof first shows what
the two ways of growing the chain do to the part without handlers (`StoreInv` there):
an intent that becomes part of it and a page that does. All other steps leave the chain
alone.

The refinement maps a commit or an adopted intent to one step of `AuditLedger`, the
record of a reconciliation to the pin, a page to the adoption, the reconcile row to the
closing of the pin, and all else to a stutter. Each step adds to the escrow queue what
it adds to the chain, hence `EscrowHoldsChain`.

`AbandonedKept` counts. Intents are forgotten by the cap on the list, which drops the
oldest. An intent is abandoned only when nobody works on it any more and D1 has not executed
its batch (`Doomed`), which takes a crash or an answer that was lost; so the
list and a doomed intent together are no longer than the failures there were
(`RoomForAbandoned`); with at most `AbandonedMax` of them nothing was dropped. Five
failures with a list of four are the run `stuck`. `NeverStuckWithRoom` needs more: that
what D1 has beyond the head is exactly the batch of some held intent, or that no intent
is held at the head and an operator can pin the rows (`Recoverable`). That is false
if an INSERT of the pre-intent code lands where the batch of a given-up append was to
go: the intents then start at the head and none covers the row, so append and reconcile
both refuse. TLC finds this with one failure and one late INSERT; the theorem therefore
assumes that none is under way (`LateLegacy = {}`), which holds once the old version is
no longer deployed.

`ProjectWriterProofs` proves, for every set of keys and requests and any number of
commits, failures, KEK rotations and deletions:

* `HistoryIsLinear`: `Spec => LinearHistory`;
* `LedgerIsTrue`: `Spec => []LedgerTellsTruth`;
* `AckedIsAccounted`: `Spec => []AckedAccounted`;
* `AttemptsComeFirst`: `Spec => []AttemptFirst`;
* `PendingStaysArmed`: `Spec => []PendingIsArmed`;
* `WriterInvHolds`: `Spec => []WriterInv`, the inductive invariant
  `WriterInv == Shape /\ Truth /\ Account /\ Attempts /\ Armed` (end of
  `ProjectWriter`; TLC checks it in the run `commit` as a part of `IInv`).

Each property fails to be inductive for the same reason: a dead commit's writes are
still in R2's hands (`limbo`). So each part says of them what it says of the running
commit. `Shape`: a late CAS appends its commit's id to the chain it was conditioned
on - hence `LinearHistory`. `Truth`: no denied commit has a late CAS, and the ids of
everything committed, denied or on its way are not the id of a commit that has yet
to reach its CAS; outcome rows come from committed chains through `c`,
`pendingOutcomes` and the handler's list. `Account`: the handler deletes a record
only after its rows are there or were refused for good (`al.done`); that the refusal is
alerted is no part of it, since the alert comes after the deletion and may be lost. `Attempts`: what is sent was announced.
`Armed`: what the running handler has not listed has set the alarm again. The proof
first says, variable by variable, what a step can do (`LedgerSteps`,
`CommittedSteps`, `CommitSteps`, `PendingSteps`, ...), then that each part is kept.

`ProjectStoreProofs` goes on, for the same constants, with what the stores hold:

* `TypeCorrect`: `Spec => []TypeOK`;
* `PointerAlwaysResolves`: `Spec => []PointerResolves`;
* `PinnedCommitsOnce`: `Spec => []PinnedOnce`;
* `StoreInvHolds`: `Spec => []StoreInv`, and `IInvHolds` for
  `IInv == WriterInv /\ StoreInv`.

`StoreInv` says that every chain anywhere - the pointer's, a manifest's, an event's, a
queued outcome's, a late write's - is a history of commits whose ids grow, none begun
after the object's counter (`StoresOK`, `QueuesOK`, `CommitOK`); that an epoch has one
manifest, as slots are put with `onlyIf`, so that a request with `ifEpoch` is committed
once; and, as long as no deletion began, `Ordered`: what an object names was stored
before it. A commit sends its blobs, then its manifest, then the CAS, and a write is
sent only after the one before was answered; so a late CAS names a manifest that is
there, and a late manifest blobs that are there. A deletion breaks `Ordered` on purpose,
which is why `PointerResolves` speaks of projects that were never deleted.

`GlobProofs` proves `GlobMatches`: for every glob and every name,
`GlobMatch(glob, name) <=> Matches(glob, name)`; and `GlobIsFast`: an execution of the
loop has at most `(|name| + 1) * (|glob| + 1)` turns. The invariant of the loop has four
parts: `Shape`; `Sound`, that what is consumed is aligned up to the pointers and up to the
last star; `Complete`, that each alignment is in step with the pointers since the last
star and that star is not before the alignment's - this is why the loop may forget all
stars but the last; and `Progress`, which every turn increases: it moves the glob's pointer
or takes the star one character further. `GlobMatch` is the loop as a recursive function
on states. That there is a function with this equation is shown by one, the smallest set
of states that has every `yes` and every state whose turn leads into it; that the function
is right at every state the invariant allows is shown by a least counterexample: a state
where it is wrong, with fewest turns left, would have a next state where it is wrong too. Names have no `*`: `KEYNAME_RE` and
`PROJECT_RE` admit none, and the loop is wrong for those that do.

`EscrowOutboxProofs` proves, for every set of names, period, duration and number of
failures, `TypeCorrect`, `NamesUsedOnceAreKept`, `AlarmIsSet` and
`RecordsAreTriedInTime` from `IInvHolds`, `Spec => []IInv`, where
`IInv == TypeOK /\ Tracked /\ Covered /\ AlarmWhileRecords /\ NameUsedOnceIsKept /\
Timely`. `Tracked` ties the contents that are under way to the uses of their names, so
that a name used once has one content. `Covered` says what the handler took over from
the alarm: what is queued is listed, or something is left, or an alarm was set since.
`Timely` shares the time a record may wait between the alarm's rest and the handler's
age.

`GatewayProofs` proves, for every set of requests, documents, handlers and isolates, every
clock and every cache lifetime:

* `TypeCorrect`, `PointerAlwaysResolves` and `RevocationHolds`, from `IInvHolds`:
  `Spec => []IInv`;
* `CachesAreRecent`: `Spec => []CacheIsRecent`, from `ReignInvHolds`;
* `Implements`: `Spec => ImplementsRegister`, the refinement of `PolicyRegister`;
* `AnswersAreJustified`: `Spec => []JustifiedByFreshPolicy`;
* `RotatePlanIsComplete`: `Spec => []LearnedIsPlanned`.

`IInv` types the store and the handlers and adds
`Stored` (the pointer's version is there), `Placed` (where a handler is fits what it
serves; at the CAS its slot holds its document, since slots are written once),
`Tokens` (a token is denied only after it was minted, so the deny entry's life covers
the token's) and `Authentic` (a handler's token is its bearer's, and was not denied when
it was looked up, as far as KV had propagated). `RotatePlanIsComplete` says that every key
an identity was given is in its plan, and every key it has written is, or is in a row that
is queued or was refused. It needs that the ledger and `refused` grow, that rows
precede answers, and that a queued batch leaves the queue only for one of the two
(`LedgerStep`).

`ReignInv` is about time. A policy reigned within `lag` before `t` when it was current at
some moment of that span (`Reigned`). What a cache holds reigned within one load before
it was put there (`CachesOK`); what a handler decides with reigned within
`Lag == CacheTTL + LoadMax` before the time it noted (`ReadOK`): at the worst it took an entry as
old as the cache allows, filled by a load as slow as is allowed. For this a load that
has read the pointer and not yet the version must not be overtaken by time
(`now <= began + LoadMax`), and what was replaced must be older than what is current
(`PastOK`). When time
passes or a policy is replaced nothing stops having reigned (`ReignedStays`). The
refinement follows: a CAS is a step of the register, the filling of a cache is a read
that lags at most so much, and everything else stutters.

`AnswersAreJustified` puts these together. Each handler that has passed the check of
its route is entitled, by itself and within its token's scope, by a policy that reigned
within `Lag` before the time it noted (`EntitledInv`); and no token carries a verb a
service may not delegate (`Scoped`). The code decides with `authorize` and globs, the property
speaks of `Grants` and alignments; that they agree (`AllowedIsGranted`) is `GlobMatches`,
applied to projects and to lower-cased keys. Between the check and the answer lie
awaits in which policies are replaced and tokens revoked; the property dates the answer
by the check, as the code does.

`SchedulerProofs` proves, for every set of blobs and states, every retention, calendar,
task length and number of failures that satisfy `CollectorAssumption` and
`SchedulerAssumption`:

* `SpecDoomedStayUnreferenced` and `SpecNothingKeptIsLost`, from `SpecCollectorInv`;
* `SpecNextDueIsArmed`, from `ArmedInv`;
* `SpecReplicatedOrAlerted`, from `ReplicationInv`;
* `SpecTypeOK`.

The collector deletes by a set of referenced blobs it read some time ago, and commits and
the pages of a DELETE go on. A blob is `Live` when a retained manifest refers to it or the
running commit, if it can still win its CAS, is going to. The heart of `CollectorInv` is
`OldIsSeen`: a live blob that is old enough to be deleted has been seen by the collector or
is in a manifest it will still read. What a new manifest refers to is in the manifest
before it, or was put since the collector started or by a commit that had begun by then;
it is then at most twice `TaskMax` old, hence too young. `Commits` says what a
running commit knows: its blob is in R2 before its manifest, what it keeps is referred to
by the current manifest, unless a DELETE has taken the pointer, and what is new
is as young as itself. `Paged` is about DELETE: it comes to the manifests when the pointer
is gone, so if there is a pointer when they go, it is that of a first commit whose blobs
are young. `Judging` says that what is in the list of deletions is not live and, once
confirmed, in B2. `NothingKeptIsLost` follows: the collector takes a blob only if B2 has
it, and what a DELETE takes is in `taken`. The latter is the honest bound of the
promise: a commit that runs against a DELETE can end with a pointer whose manifest names a
blob that the DELETE removed (`storage.ts:128`), and in both models it does.

`ArmedInv` says that an alarm that has not fired yet is set for the first due time still to
come, also while the handler runs, and that an armed object at rest has one. It says
nothing of due times that passed while a task ran or when `/arm` came, which the code
skips. The proof is arithmetic of remainders. It needs that a week is whole days and that
the two due times never coincide.

Only model-checked: the liveness properties `EventuallyAcked`, `EventuallySettled` and
`Settles`, since neither they nor the `ENABLED` in fairness is in the prover's reach
here. `NeverStuck` and `AbandonedNotForgotten` are checked in `append` as they stand and
proved for as many failures as the list of abandoned intents has room for; beyond that
the first is false (`stuck`). TLC also compares `GlobMatch` with `Matches` for all globs and
names up to length 3 when it starts `gate`; the theorem has made that a test of the
definitions only. All other properties of the passing runs are theorems. The inductive
invariants of the audit log (`ChainInv`, `LedgerInv`) and of the writer (`IInv`) are
checked by runs as well; the auxiliary ones of the other components (`ReignInv`,
`EntitledInv`, `CollectorInv`, ...) are stated with their proofs, and no run checks them.

## 6. Open

Worth doing next: a property on the second life of a name - a key that is deleted and set
again starts at version 1 (`writer-do.ts:222`), a reused epoch drops its pointer event
(`writer-do.ts:406`); on the ring of 64 request ids (`audit-do.ts:165`); on a re-wrap that
fails for some projects before the next rotation (`admin.ts:248`); and on the A4 alert,
which fires at exactly three attempts (`escrow.ts:258`). What a single deletion does to
`Ordered`, and when it holds again, is not stated yet.

Not modelled, and why: JWT, JWKS and ciphers (cryptography and I/O; their results
are inputs), the re-wrap loop over all projects (its step is in `ProjectWriter`) and the
assume-policy listing of rotate-plan (it only reads), best-effort counters and alerts,
D1's DDL, response shapes, the scripts and documents under `docs/` that are not part of
the running Worker.
