# Core Memory: models, model checks and proofs

Core Memory is a durable memory for agents: finalized conversation turns become
*beads* in an append-only archive with a rewritable index, through a queue of
side effects; a session is compacted ("flushed") when its host compacts. This
directory holds TLA+ modules of its stateful core, the TLC configurations that
check them, and TLAPS proofs about ten of them. Paths below are relative to
`src/core_memory/` unless they begin with `docs/`.

    tlc -workers 2 -config SideEffectQueue_live.cfg MCSideEffectQueue
    tlapm SideEffectQueueProofs.tla

## 1. Inventory

Everything is files under one root. There is no server of record: adapters (CLI,
HTTP, MCP, framework plugins), workers and operators are processes that read and
write the same files. Two primitives order them, `store_lock` (an advisory lock
on the root) and `atomic_write_json` (write aside and rename). The hard
behaviours come from where the code does *not* use them, and from what is done
between two holds of the lock.

| Component | State it keeps | Operations | Interacts with | Hard behaviour |
|---|---|---|---|---|
| Side-effect outbox `persistence/side_effect_outbox.py`, `runtime/queue/side_effect_queue.py` | queue of rows (key, attempts, retry time, lease), breaker | enqueue, claim, run, settle | every producer; handlers run outside the lock | leases that expire under a running handler, two files written in turn, retries, starvation |
| Bead store `persistence/store_*.py`, `events.py`, `promotion_service.py` | `index.json`, `session-*.jsonl`, `archive.jsonl`, tombstone events | add, supersede, outdate, confirm, review, recall, promote, decide, compact, uncompact, remove, two rebuilds | retrieval lays the archive over the index | a kill between index and archive, rebuilds from partial records, long sequences of legal calls |
| Turn write path `runtime/turn/*`, `runtime/state.py`, `runtime/passes/enrichment.py` | memory-pass state, event log, semantic-write state, envelope files | accept a delivery, claim and run its pass, author, enrich, answer | outbox, bead store | redelivery, races of two adapters, stale receipts, a stage that fails, a bead refused as a duplicate |
| Session flush `runtime/flush/*` | waivers, flush markers, checkpoint beads | barrier, waiver, guard, consolidate, checkpoint, marker | reads the turn path's files, compacts the bead store | everything read may change before it is acted on; one unlocked marker file |
| Compaction queue `runtime/queue/compaction_queue.py` | queue and breaker files, unlocked | enqueue, drain | calls the flush | whole-file writes that cross or tear |
| Semantic index lifecycle `persistence/semantic_lifecycle.py`, `retrieval/semantic_index.py`, `runtime/queue/jobs.py` | manifest, row file, vectors, rebuild queue, build lock | mark dirty, checkpoint, enqueue, full and delta build, lookup | turn path and flush mark it, the job runner and lookups build it | unlocked read-change-write of manifest and queue, stale locks, builds killed between files, a lookup that reads three files |
| Removal, maintenance, graph mirrors | idempotency results, mirror retries | remove, retract, replay | bead store, graph backends | half-done removals, retries |
| Association records `persistence/store_relationship_ops.py`, `store_management_ops.py`, `association/crawler_contract.py` | associations in `index.json`, their events, the crawler's side log | link, judge's write, queue, merge, deactivate, remove a bead, two rebuilds | bead store, review | a log replayed or cleared too soon, a rebuild that read before a deactivation, writes in place |
| Association review `runtime/associations/coverage.py` | run, candidate and decision files, unlocked; jobs in the outbox | queue a run, run, propose, judge, decide | outbox, association records | a judge that answers about what is gone, an operator next to it, records that arrive late |
| Claims `persistence/store_claim_ops.py`, `claim/*` | claims and claim updates in the rows of beads | author, rule, resolve a slot | turn path, dreamer candidates | the order of updates that sit in many beads, duplicates, two resolvers |
| Contradiction review `persistence/dreamer_candidate_store.py`, `runtime/dreamer/candidates.py`, `retrieval/agent.py` | `dreamer-candidates.json`, unlocked | scan on recall, decide, resolve, fork | claims, turn path | whole-file writes that cross or tear, a resolution in four writes, claims that change under a reviewer |
| Goals, decision pass | goal states, decision log | transition, decide | bead store | illegal transition sequences |
| SOUL proposals `soul/store.py`, `soul/dreamer_bridge.py`, `soul/integrity.py` | `revisions.jsonl`, a markdown page per file | propose, approve, reject, apply, bridge findings, check and repair | dreamer candidates | decisions that race, a bridge that asks a language model between reading and writing, repairs from an old check, torn pages |
| Other dreamer candidates, entities, myelination, reauthoring | candidates, alias tables, reward log, cohorts | propose, decide, apply | bead store, outbox | a decision applied twice |
| Recall, ranking, graph traversal | none of its own | query | everything, read only | numeric scoring over text |
| Schema and authoring contracts; adapters and CLI; rolling window; backends | no shared state of their own, or a derived view | validation, transport, rendering | callers and primitives of the above | none that is stateful |

What makes the modelled components correct:

* **outbox** - an accepted item is run at least once and is forgotten only then;
  one pending row per key; a live lease is respected; a breaker has a cause and
  closes; a healthy item gets its turn behind a poisonous one.
* **bead store** - archive first, so that the index can always be rebuilt; detail
  is blanked only when a revision has it; a speculative bead is never class A; a
  class never falls; a rejected, superseded or removed bead is not shown.
* **turn path** - a turn said to be committed has its bead; a bead has the raw
  event it was made of; one bead per turn; a retried turn is committed in the end.
* **flush** - nothing is consolidated without the bead of its latest turn or an
  audited waiver; old pending turns wedge nothing; a turn is flushed once.
* **compaction queue** - a queued flush is kept until run, and is run.
* **semantic index** - builders do not overlap; an answer without a warning is from
  the corpus of that moment; rows of a clean index have their vectors; the index
  catches up with the corpus although marks and requests get lost.
* **associations** - an edge written on judgement has its two beads and one record;
  a completed deactivation is final; what is queued is merged before it is cleared.
* **association review** - nothing is called linked that was never written; what an
  operator decided is not undone by a run that begins later.
* **SOUL proposals** - a proposal is settled once; what is endorsed or a human's is
  never replaced by the agent alone, nor anything but noise by a repair; the page
  follows the log; a finding is proposed once.
* **claims** - a slot is in conflict as the last ruling written says; what was retired
  never becomes current; a ruling is written once.
* **contradiction review** - a candidate that says it was applied has its rulings in the
  store; a claim that is forked keeps its value.

## 2. Modules, and how they follow the code

| Module | Models | Built on |
|---|---|---|
| `DurableWork` | the abstract promise: submit, perform, retire; nothing retired unperformed | |
| `SideEffectQueue` | the outbox with leases, clock, retries, breaker, crashes | implements `DurableWork` |
| `BeadStore` | a bead on its surfaces, every life-cycle operation, removal, rebuilds, what retrieval shows | |
| `TurnWrite` | deliveries of a turn until its receipt, the queued enrichment run | uses the outbox through the promise of `DurableWork` |
| `SessionFlush` | flushers next to the turn path | EXTENDS `TurnWrite` |
| `CompactionQueue` | the unlocked flush queue | implements `DurableWork` when one process at a time uses it |
| `SemanticIndex` | the index files, both builders, the lock, lookups, the worker | |
| `Associations` | every writer of association records, the side log and its merge, the rebuilds | |
| `AssociationReview` | reviewers (queued runs, judgements, proposals, operators) | EXTENDS `Associations` |
| `SoulStore` | the self-model: its revision log and page, callers, bridge runs, repairs | |
| `ClaimReview` | claims, their updates and resolution; recalls and reviews of contradictions | |
| `MC*` | definitions for TLC: sessions, symmetry, views, drafts | the module they are named for |
| `SideEffectQueueProofs`, `BeadStoreProofs`, `CompactionQueueProofs`, `SemanticIndexProofs`, `SoulStoreProofs`, `ClaimReviewProofs` | theorems and proofs | the module they are named for |
| `SessionFlushProofs` | theorems and proofs about `TurnWrite` and `SessionFlush` | both |
| `AssociationReviewProofs` | theorems and proofs about `Associations` and `AssociationReview` | both |

The granularity rule is the same everywhere. What the code does inside one hold
of the store lock is one action. What it does without the lock, or after giving
it up, is an action of its own, so that other processes step in between. Where
one hold of the lock contains several file writes, the action has a second
disjunct in which the process is killed after the first of them.

**SideEffectQueue.** `rows` is the queue file, a function from serial numbers to
rows (rows are only appended, so the number stands for the uuid and gives the
order of the list); `failures` and `openIn` are the state file. `Enqueue` is
`enqueue_side_effect_event` with its duplicate check, `Claim` the first locked
part of `drain_side_effect_queue`, `Run` one call of `process_item`, `Settle` the
second locked part, `TornSettle` a kill between its two files, `Crash` a kill
anywhere else. `Tick` is the clock: times are kept as the seconds left until
them. A drain reads the clock once and computes backoffs from that reading, so
`age[d]` says how stale it is and `Left` what remains of a duration counted from
it. Handlers are reduced to their result; `Poison` are the items that cannot
succeed.

**BeadStore.** `index` is `index.json`; `line[b]` is the last archive line of a
bead, which is all that rebuilds and retrieval use; `revs[b]` are its revisions
in `archive.jsonl`; `tombstones` the `bead_removed` events. Lifecycle operations
(`Change`) write the index and then append a snapshot; decisions and compaction
(`Rewrite`) write the index only; `ArchiveThen` appends a revision and then
rewrites. `rebuild_index` reads outside the lock and is three actions
(`ReadArchive`, `ReadTombstones`, `WriteRebuild`); the projection rebuild holds
the lock and is one (`RebuildProjection`). `Visible` is `build_visible_corpus`.
Confidence classes C, B, A are 0, 1, 2. `verdict` and `retired` are history.

**TurnWrite.** A delivery is a turn id and a body; the body stands for the
envelope and for the bead authored from it. `call[a]` is what an adapter is at in
`process_turn_finalized`: `Replay`/`Accept`, `MarkPending`, `Emit`, `Announce`
follow `maybe_emit_finalize_memory_event`; `Claim`, `NotClaimed`, `Process`,
`ProcessRaises`, `Author` follow `process_turn_finalized_impl`; `ReadStanding`
and `Answer` are `build_turn_finalized_receipt` and the write of what it found.
`Hash` distinguishes an envelope hashed on arrival from one hashed again at
emission, because the code computes both and compares them. `job[w]` is an
enrichment run: `Start`, `Associate` or `StageFails`, `Persist`, `Ack`. `beads`
is a sequence, since the duplicate check looks at the newest `Window` of them.

**SessionFlush.** `flush[f]` is what a flusher is at: `ReadLatest` and
`ReadState` are the barrier's two reads; `DecidePasses`, `DecideLegacy`,
`Refuse`, `Waive` its four ways on; `MarkWaived`, `MarkLegacy` the state written
after it; `Skip`, `Proceed` the once-per-cycle guard; `Consolidate`,
`ConsolidateFails`, `Checkpoint` the flush; `ReadMarkers`, `Truncate`,
`WriteMarkers` the marker file.

**CompactionQueue.** `queue` and `breaker` are the files, `proc[p]` holds the list
and the breaker a process works on in memory. Items are appended and removed and never
moved, so a list is a function from the numbers of its items to whether one failed
before. Every write is two actions,
truncate and fill, because `write_text` does both and `_read_json` reads a
truncated file as an empty one. `KilledAt` says at which steps a process may be
killed (`Crash`).

**SemanticIndex.** `corpus` is what `build_visible_corpus` shows, a text per bead;
the fingerprint in the manifest hashes exactly that, so `manifest.print` is a
corpus. No lock covers `manifest` and `queue`, and each access is one action:
`MarkRead`, `MarkWrite` are `mark_semantic_dirty`, `CheckpointWrite` the
checkpoints, `EnqueueRead`, `EnqueueWrite` `enqueue_semantic_rebuild`. `Acquire`,
`LockHeld`, `FindStale`, `Unlink`, `Recreate`, `Release` are the build lock, with
its reclaiming of a lock older than 300 s. A build computes (`Compute`, or
`ToStore` and `Stored` for a delta), writes its rows in two steps because they are
not written aside, publishes the manifest and consumes the queue. A lookup builds
if there is no index, then reads manifest, rows and corpus in turn, and answers
clean or stale. The worker's `run_async_jobs` reads the queue file twice, here once.
`backend` is fixed by configuration: FAISS vectors are a file that is replaced with
the rows, an external store keeps what an interrupted build put there.

**Associations.** An association id stands for an edge and for who minted it
(`what`). `index` holds the status of each id, the beads, the ids known to be
retracted and the promotion marks; `created`, `retractions`, `removed` are the
event log; `side` the crawler's side log. `Link` and `WriteIfMissing` write the
index and then the event, `Deactivate` likewise, `RemoveBead` the tombstone first.
`QueueAppend`, `QueueLifecycle`, `QueueMark` are `apply_crawler_updates`; a merge
holds the lock from `MergeStart` to `MergeWrite` while rows are still appended,
which takes no lock. `merge_crawler_updates` and the judge's write rewrite
`index.json` in place: `torn` says that the writer was killed at it. `rebuild_index`
is three actions, as in `BeadStore`, but over the association events. `host` says
which of the writers a deployment uses; it is chosen in the initial state, so that
one run covers several.

**AssociationReview.** `latest`, `seen`, `ruled`, `noted` are the last word of the
three append-only files of `coverage.py`. `proc[p]` is what a reviewer is at: a run
(`StartRun`), a judgement of one pending candidate (`StartJudging`) or an operator's
decision (`StartDeciding`). The judge answers outside of any lock (`JudgeAnswers`,
`JudgeFails`), then its decisions are applied one by one against the index as it is
by then (`Apply`: written, already there, refused), noted and recorded (`Note`,
`Finish`). `jobs` are the queued runs, kept by the outbox until a run answers ok.

**SoulStore.** `revs` is `revisions.jsonl`, its rows numbered by their place, and
`Current` the fold of `_current_entries` over the first n of them; `page` is one
markdown file, each entry given by the row it shows. Rows are appended, and the page
rewritten, under the lock, so what is checked before (`Decidable`, `MayApply`,
`Unchanged`) is checked in the same action. Appending a row is one action (a line
written at once); the page is truncated and filled by two more, `Truncate` and
`Fill`, with the lock still held, and `Kill` may come between. `Read` is what a
bridge run does before it asks the language model, `Surface` one proposal it writes
after; `Check` and `Remove` or `Refuse` are the two parts of a repair. Content is
blank or not; the confidence of a finding is the choice among `Drop` and the two
kinds of `Surface`.

**ClaimReview.** `claims` and `updates` are those of one subject and slot, over all
beads; each names the bead whose row it is in. `resolve_current_state` computes rather
than stores, so `Retired`, `Active`, `Current`, `Conflicts`, `Status` are operators;
`StatusIn` is the other resolver, of `claim/resolver.py`. Lists are in the order of the
beads' ids, which are random: `Place` gives it. `AddUpdates` is
`write_claim_updates_to_bead` under the lock, with its duplicate check and its numbers
(`Highwater`); the grounding hash varies only with the bead, so `Key` has the bead in its
place. Turns author claims and rulings (`AuthorClaim`, `EmitAuthored`). `worker[w]` is
what a recall or a review is at: `ScanConflict` and `ScanFile` are
`_conflicts_for_result` and `enqueue_contradiction_pressure_candidates`; `Review`,
`RecordAudit`, `WriteScoped`, `EmitRulings` the contradiction branch of
`decide_dreamer_candidate`, from the copy of the candidates it reads first; `OpenFile`
and `CloseFile` the write of that copy, which empties the file before it fills it. Two
writes that overlap may leave a file that does not parse (`mixed`), and is read as
empty. The audit turn gets a bead or not (`made`); without one the updates go to a row of
the index under the turn's own id. `last` is history.

## 3. Runs

| Run | Configuration | Shows |
|---|---|---|
| `outbox_live` | 2 drains, 3 rows, 1 key, 1 poison, 1 crash; a batch may outlive its lease | unique keys, nothing lost, one run per held lease, live leases respected, refinement of `DurableWork`, healthy items finish |
| `beads_safety` | 1 bead, speculative at birth, 1 revision, 1 crash, both rebuilds | detail kept, speculative ceiling, archive first, while `rebuild_index` reads outside the lock |
| `beads_review` | 1 bead, 1 revision, 1 crash, both rebuilds; restores are current (`CurrentSpec`) | rejection, review and class survive compaction and everything else |
| `turn_safety` | 2 adapters, 1 worker, 2 bodies, every outcome, 1 exception, 1 crash | commit has bead, bead has event, one bead per turn |
| `turn_live` | 2 adapters, 2 workers, 2 worker crashes | a retried turn is committed |
| `flush_session` | 1 flusher, adapter, worker, 2 turns of one session, one older than semantic-write state, 2 bodies, every outcome, overrides, 1 exception, 1 crash | barrier, audited waivers, a committed latest turn is flushed past older pending ones |
| `compaction_one` | 1 process, 4 flushes, 2 poison, killed twice while it does not write the queue file | refinement of `DurableWork`, healthy flushes run |
| `semantic_live` | writer, reader, worker, 2 beads of 2 texts, both vector stores, 1 write, 1 kill or outage | one builder, rows have vectors, clean answers are current, the index catches up |
| `associations` | 2 reviewers, 2 beads, 2 association ids, 1 queued row, 1 kill, 3 starts, 4 hosts | edges anchored, one record per edge, retraction sticks, linked is backed, an operator stands, queued updates arrive |
| `soul_safety` | 1 entry, 5 drafts, 1 bridge run, 2 repairs, 4 rows, 1 kill | settled once, the agent spares what is protected, repairs remove noise, the page follows the log, findings proposed once |
| `claims` | 2 turns, 2 workers, 1 candidate, 1 fork, 2 reviews, 1 kill, every answer | last ruling decides, applied is backed, retries write once, retired stays retired |
| `x_stage_fails` | 1 adapter, 1 worker, 1 exception | expected violation, see section 6 |

Further configurations are kept for a longer look at one component:
`SideEffectQueue_safety` (two-second leases and handlers), `SessionFlush_two` (two
flushers of one turn), `SemanticIndex_safety`
(external store, two writes), `Associations_safety` (three beads, no reviewers) and
`Associations_replay`, which shows with two queued rows and two kills that taking
the rows of a merge again changes nothing (`ReplayIsIdempotent`).

### Bounds

Bounds are constants named `Max...` and appear as guards. Why they suffice:

* *Outbox.* Three rows are a poisonous head, a row claimed in the same batch and
  one left behind it (`MaxItems = 2` is also the code's default). Two drains
  are what a lost lease needs. The exponent, backoff and breaker constants are
  scaled from 8, 300, 3 and 30 to 1, 2, 2 and 1, so that each limit is reached;
  the theorems hold for every value. A batch of three one-second handlers fills a
  lease of three seconds, so claims do expire under running handlers and a second
  drain takes them over. `OneRunPerLease` says that two drains run one item at once
  only when one of them has outlived its lease; that they never do is not promised.
* *Beads.* Beads do not interact in the modelled operations, so one suffices, and
  the theorems cover any set. One revision is enough for every relation between
  index, archive and revision except the second archiving, which section 6 shows.
  The constraint `RebuiltOrCompacted` leaves out states in which `rebuild_index` runs
  while the bead has an archived revision, whose product has tens of millions of
  states; the theorems cover them. `beads_review` keeps to `CurrentSpec`: an
  uncompaction, or a rebuild's late write, does not put back a copy from before a
  review or with a lower class. Without that its properties fail (section 6).
* *Turns.* Two adapters and two bodies give redelivery, supersession and the race;
  two envelopes are the original and a changed one. `Window` is the code's 25
  and is never filled here; section 6 has the case in which it is.
* *Flush.* Two turns in one session make "latest" mean something. One flusher meets
  every step of the turn path; two race with each other in `SessionFlush_two`, with one
  turn, and the theorems hold for any number.
* *Semantic index.* Two beads are the one that is indexed and the one that is
  missed; two texts tell a current row from an old one. One write, in every place
  of a build, a lookup and a request, and one kill give every interleaving a single
  change can meet; `SemanticIndex_safety` has two. Excluded in the run are the
  `Faults` of section 6, each of which breaks a property.
* *Associations.* Two ids are a record and the one that would double it; one row
  and one kill are a merge and its replay. Two beads form one edge: the properties
  speak of the records of an edge and of its two beads, and the theorems hold for
  any number. The hosts are separated because their product adds no step that
  touches what another does, except over the index, which each host has.
* *Review.* Two processes in three starts: a run, an operator next to it, and one
  that begins after. `decided` forgets a decision that somebody was about to
  overwrite (`InHand`), so that `OperatorStands` speaks of what began later.
* *Compaction queue.* One process, since two lose items (section 6): four flushes are
  two poisonous ones that open the breaker in one drain, and two behind them that are
  flushed in one drain, or come while it runs.
* *SOUL.* Entries do not interact, so one suffices. Four rows are a proposal, the
  entry that changes behind it, a decision and one more that must find it settled; or
  a blank entry, a repair of it, what is written meanwhile and a second repair. The
  drafts are a text, endorsed or not, a heading of a human or a machine, and a
  removal. One bridge run at a time: two that overlap break `ProposedOnce` (section 6).
* *Claims.* Slots do not interact except through the file of candidates, whose rows are
  lost or kept whole, so one slot and one candidate suffice. Two turns are the two sides
  of a contradiction; two workers with two reviews are a review and another one, a recall
  next to it, or a retry after a kill. `RandomIds` places the first turn's bead after the
  others, so that the order of beads and the order of writing differ; the theorems hold
  for every order.

`TurnWrite`, `SessionFlush`, `Associations`, `AssociationReview`, `SoulStore` and
`ClaimReview` are checked without deadlock detection: all deliveries may have been made
(`MaxEvents`) and answered, all ids minted and starts used, all rows written, all reviews
begun, and then the system stops. The other modules never stop and are checked with it.

Symmetry is used for adapters, reviewers and workers that no property
and no constant tells apart, in runs without liveness properties. `NoHistory`
is a view without `verdict` and `retired`, which no guard reads and no property
of those runs mentions.

### Fairness

* *Outbox.* Seconds pass and started drains go on (weak). Drains are started again
  and again: one follows every turn and the async job runner drains too. A
  handler that can succeed succeeds if run for ever (strong fairness of
  `Run(d, i, TRUE)` for items outside `Poison`). `HealthyItemsFinish` needs fewer
  poisonous items than `max_items`: with as many, they may fill every batch.
* *Turns.* Calls go on (weak) unless killed, and hosts redeliver what was answered
  retryable (strong). Workers are mortal in `turn_live`, adapters are not: what
  happens when one is killed is a disagreement of section 6 (`RetriedTurnsCommit`).
* *Flush.* Flushers go on and are started again. There is no fairness on waivers,
  exceptions, crashes or deliveries.
* *Semantic index.* A process in an operation goes on; the worker is run again and
  again (`run_async_jobs` by the async runner and autodrain), queries keep coming,
  a lock left by a killed builder gets older than 300 s. Nothing is assumed of
  writers, and the `Faults` do not happen. Without queries nobody would ask for the
  rebuild whose request was lost: `AnswerStale` is what recovers it.
* *Compaction queue.* The same as the flush, with strong fairness for a due drain and for a
  flush that can succeed, since a backoff and an open breaker are left to chance.

## 4. Proofs

The proof modules hold for any constants that meet the named assumptions of
their module: bounds are natural numbers, the poison set consists of row numbers,
no drain is the "nobody" of a free lease, the speculative beads are beads,
deliveries name turns and bodies, the legacy turns are finitely many.
`PowerAssumption` (a power of two is a natural number) is arithmetic the provers
lack, and TLC evaluates it on the instances.

**SideEffectQueueProofs.** The invariant is

    Inv == TypeOK /\ UniqueKeys /\ NothingLost /\ OkayIsExecuted /\ BreakerHasCause

`NothingLost` is not inductive alone: `Settle` removes a row because the drain's
local `okay` says so, so one needs that the row a drain is about to settle with
`okay` was executed (`OkayIsExecuted`). `TypeStep` goes action by action;
`SettledRowsShape` says what a settlement leaves, once for the whole and the torn
one. `TypeCorrect`, `KeysAreUnique`, `NoItemIsLost` and `BreakerIsJustified`
follow. `LeasesAreRespected` is an action property; the case that matters is
`Claim`, which cannot touch a row under a live lease, and the settlement of a
drain that lost its lease, which `Holds` turns into no change. `ClaimsAreExclusive`
(`OneRunPerLease`) rests on `ClaimsAreHeld`: until its reading of the clock is a lease
old, a drain holds every row it has still to settle, and the lease of the row ends when
the reading does.
`QueueImplementsDurableWork` maps rows to their keys: an enqueue is a `Submit`, a
successful run a `Perform`, a settlement the `Retire` of one item or of none, and everything
else leaves the three mapped variables alone (`SamePending`).

**BeadStoreProofs.** The invariant is `Inv == Sound /\ Recoverable /\ AllCovered`.
`Sound` is the type invariant with beads restricted to those that respect the
speculative ceiling, because every surface can become every other: a revision is
uncompacted into the index, an index bead is snapshot to the archive, an archive
line is rebuilt into the index. `Recoverable` adds that what a running rebuild has
read is archived. `AllCovered` adds to `DetailKept` that revisions themselves
satisfy it, since an uncompaction makes them the index bead. There is one lemma
per way of writing (`AddStep`, `ChangeStep`, `RewriteStep`, `ArchiveThenStep`,
`RemoveStep`, `RebuildStep`) and one that each operation uses one of them with a
sound bead. `StoreTypeCorrect`, `SpeculativeIsCapped`, `ArchiveIsFirst` and
`DetailIsKept` follow.

The review properties are theorems of `CurrentSpec`, for the reason given in section 3.
`RejectedStaysHidden` is not inductive: what hides a bead is the review in its archive
line, and that line is a copy of the index bead made by the next operation, or the
source of the next projection. `ReviewInv` therefore says of both surfaces that they
have the decision, unless a kill came between the two writes, and that the archive line
is not ahead of the index in class, which is what makes copying it forward safe.
`DecidesChanges` says of each lifecycle operation that it gives the bead the review it
decides and no lower class; `ReviewSurvives`, `RejectionHides` and `ClassOnlyRises`
follow. `NothingToRestore` shows that the hypothesis is met where nothing is compacted
and only the session projection is rebuilt: then every behaviour is one of `CurrentSpec`.

**SessionFlushProofs, 1: the turn path.** Its lemmas are about `TurnNext` and not about
`Spec`, so that they hold with waivers on file too and serve the second part. After the
types there are three arguments.

* `BeadHasEvent` needs to be followed back from the bead to the delivery:
  `Recorded` adds that a call past `emit`, a queued item and a running job each
  have their event on record (`CallHasEvent`, `QueueHasEvent`, `JobHasEvent`).
  Events are never taken back (`EventsGrow`), so each part only has to be shown of
  the actor that moved.
* `CommittedHasBead` is not inductive, because a receipt writes what it read some
  steps before. `Truthful` adds that what an adapter is about to say of a turn is
  still true (`SayHolds`), which is so because beads and waivers only grow
  (`StaysTrue`); `WaivedOnFile` is there because a receipt copies a waived state.
* `OneBeadPerTurn` is proved for finitely many turns under
  `Cardinality(Turns) <= Window`. If every turn has at most one bead, the beads
  after a given one are of distinct other turns, so there are fewer of them than
  the window is long (`BeadIsRecent`), and a replay finds the bead it would
  duplicate. Without the assumption the property is false, and section 6 shows how.

**SessionFlushProofs, 2: the flush.** Every step is one of the turn path, a quiet or a loud one of
a flusher (`StepKinds`); `FlusherMoves` says where a flusher can come from.
`LatestType` shows that the `CHOOSE` of the latest event has a witness: stamps and
positions are bounded, so both have a largest (by the well-foundedness of <).
`WaiversAreAudited` adds `FlusherHonest` to `Truthful`: what a flusher is about to
record of a turn is true. `BarrierHolds` rests on `FlusherCleared`, that a flusher
past the barrier has a turn with a bead or a waiver, and on `BeadsAreCleared`, that
any bead of a turn, a checkpoint included, means that the turn has its own bead or a
waiver: a legacy turn is let through on any bead that names it. From the same
invariant, `CommittedTurnsAreCleared`: a turn recorded as committed has a bead of its
own or a waiver. A committed turn need not have its authored bead
(`CommittedIsAuthored`, section 6), and `CommitsAreAuthored` says when it has: where no
operator may override the barrier, because then there is no waiver.

**CompactionQueueProofs.** `TypeCorrect` holds for any processes and kills, and needs
that lists hold issued items only and that an enqueue's list is not empty (`Issued`,
`Written`). For the rest there is one process, because two lose items. A drain writes
back a list that it read before it ran the flushes; `Relied` says what this rests on:
what the file has more than the list was flushed, and an enqueue's list is the file with
one item put to it. `OneProcessKeeps` (`QueuedIsKept`) follows if the process is not
killed between truncating the queue file and filling it; with a second process, or with
a kill there, TLC finds the lost item. `QueueImplementsDurableWork` maps the queue to
`Pending`, the list that is being written back, else the file: the truncation of an
enqueue is the `Submit`, that of a drain the `Retire` of all it flushed, a successful
flush the `Perform`. It needs in addition that an enqueue is not killed before it touches
the file, since its id would then be counted and its item pending nowhere.

**SemanticIndexProofs.** Three invariants on top of the types.

* `LockInv`: who is in a section that writes the index holds a lock that is not
  stale, and at most one process is reclaiming. `BuildersAlone` assumes that builds
  end within the age limit (no `"slow"`) and that two processes do not reclaim one
  stale lock together (no `"race"`); with either the property is false.
* `FreshInv`: what a manifest, or somebody's copy of it, has as fingerprint is not
  newer than the corpus, and a builder that is about to publish what it calls current
  has read the current corpus. `Older` is the order in which a corpus changes; the
  fault `"undo"` is what breaks it. `CleanAnswers` follows.
* `VectorInv`: if the manifest, or a copy that somebody may still write back, says
  ready for this corpus, then the vectors of its rows are stored. It has to hold of
  the copies because the manifest is read and written back without a lock.
  `RowsHaveVectors` follows.

**AssociationReviewProofs, 1.** Of the associations, the invariant is `TypeOK` and

* `MergeInv`: while a merge holds the lock its copy has every record of the index, and
  the rows it has taken have arrived in the copy. `UpdatesArrive` is the step from
  this copy to the index.
* `AnchorInv`: `EdgesAreAnchored` of the index and of that copy.
* `GoneInv`: a completed deactivation is known to everybody who could restore the
  record: it is in no copy, no row appends it, and a running rebuild has read it.
* `UniqueInv`: `OneRecordPerEdge` of index and copy, and of what a running rebuild will
  install. For that one has to know that what is logged as created, and neither
  retracted nor removed, is in the index: a new record is compared with the index only.

**AssociationReviewProofs, 2.** Every step of a reviewer is a step of `Associations` or a
kill that leaves the associations alone (`AssociationStep`), so `ReviewKeepsAssociations`
takes over what was proved of them. `BackInv` follows `LinkedIsBacked` back through
the marks of a run and the decisions of an operator to the association, which stays
minted (`Grows`). `OperatorInv` says that a decision which nobody had in hand is what
the candidates file says, and that nobody has such a candidate in hand to judge it
alone or to propose it; a run does not write to that file.

**SoulStoreProofs.** The log only grows, so what an entry was before a row stays what
it was (`PastStays`), and every property of past rows is shown of the new one only. A
row that is appended is `Admissible`: submitted, the decision of an open proposal, or
the removal of a current blank row of a machine. One lemma per kind of caller says so
(`ProposeAdmissible`, `DecisionAdmissible`, `SurfaceAdmissible`, `RemovalAdmissible`), one
per part of the invariant that an admissible row keeps it. The parts are

* `PageInv`: whoever holds the lock is writing the page of the whole log.
* `LinkInv`: what supersedes an applied row is later, applied, and removes its entry. So
  that row is current no more, and a second repair cannot supersede it again
  (`SettledOnce`).
* `NoiseInv`: what a repair has noted was written by a machine; that it is still the
  current row is what `Unchanged` looks at (`RepairRemovesNoise`, by `OneRow`).
* `OnceInv`, only for runs that do not overlap: what a bridge run has still to propose,
  nobody has proposed (`DreamerProposesOnce`).

`SoulTypeCorrect` is the type invariant, which the parts above rest on.

**ClaimReviewProofs.** Claims and updates are never taken back (`Grows`), and everything
a worker relies on is a fact about what is stored, so a copy of the candidates may be as
old as it likes. The parts of `IInv` are

* `RowsOK`, of the file and of every copy: a row is of two stored claims of turns, and
  what it says was applied is in the store. `AppliedBacked` is `RowsOK(file)`.
* `Holds`: a worker past the audit turn has a bead of that turn, and one about to write
  the rulings of a fork has its two scoped claims, with the values of the two sides. A
  ruling dropped as a duplicate has its twin in the same bead (`AddedRows`), which is why
  the bead is part of `Key`.
* `ClaimInv`, `UpdateInv`: ids of claims are unique, and a replacement that is not a
  turn's claim has the value of its target (`ForksKept`). `ForkKeepsValues` also
  holds in the run's instance.

`RetiredStays` follows from `Grows` and from `Current` being chosen among `Active`.

`LastRuling` (`LastRulingDecides`) rests on `Ordered`: the slot has a highest number, and
the ruling written last has a higher one than every ruling of the other kind, in whichever
bead. That a highest number exists has to be part of the invariant, since `Highwater` is a
`CHOOSE` over a growing set; a batch of one or two rulings is numbered from there
(`AddedTyped`, `NextNumbered`), and its duplicates are dropped without leaving a gap that
matters. `NewRulingDecides` (`FreshRulingsDecide`) is what remains true of
`ResolutionCloses` and `PreferredIsCurrent`, which fail (section 6): a resolution that
adds a ruling ends the conflict, and the claim it prefers is the current one if nothing
has retired it. So those two fail by the dropped duplicate and by the retired claim, and
by nothing else. No run has it as a property; TLC finds it true on the bounds of `claims`.

## 5. What is only model-checked, and what is not modelled

Liveness (`HealthyItemsFinish`, `RetriedTurnsCommit`, `LatestCommittedIsFlushed`,
`HealthyFlushesRun`, `IndexCatchesUp`) rests on fairness and `ENABLED`, which the
prover does not handle, and stays with TLC. They are the only properties of passing runs
that no theorem states. Some theorems have a hypothesis beyond the types of the constants:
`CurrentSpec`, the window of `TurnsHaveOneBead`, the absent faults of the index, bridge
runs that do not overlap, no override, the one process of the compaction queue. Section 6
has the traces that break the property without it.
`ReplayIsIdempotent` is about a fold over the side log, an induction over data.

Left out of the modelled components: the inline enrichment path (a configuration
switch, same steps without a queue); delegated repair (another way to the outcome
"authored"); the stages after the bead exists; a failing write of the envelope
file; two envelopes with the same millisecond (the code's order of ties is modelled,
equal stamps are not generated); the flush of a session without finalized turns;
promotion's quality gates, taken as passed; text, scores and timestamps. In the
semantic index: rows of which only metadata changes, a change of embedding provider,
the eager rebuild mode. In the associations: usage counts of edges
(`association/edge_lifecycle.py`), the shortlist's choice of candidates, proposals a
host has already reviewed (`apply_association_proposals` writes through the same
`_write_association_if_missing`). Of removal: the idempotency results, and the
mirrors in graph databases, whose retractions swallow their failures
(`persistence/graph/kuzu_backend.py:131`), so that nothing in this store could tell.

Of SOUL: the life cycle of the findings it is given, the reward of a decision (none of
the bridged findings names an edge, so `reward_dreamer_candidate_decision` skips it),
and the goal that an automatic write endorses first (`_maybe_auto_endorse_goal`).

Of the claims: `as_of`, legacy sidecar files, values and confidences, advisories (never
canonical), the rewards of a resolution. Claims and updates are in `index.json` only, so
that a rebuild, and any writer that does not lock (`write_memory_outcome_to_bead`), may
lose updates: a retraction lost that way is not in this model. The score of a conflict is
taken as above its threshold whenever the scopes are equal. With the defaults it never
is: stored claims have neither `chain_seq` nor `created_at` (schema/models.py:564), and
what is left of the score is at most 0.6, below 0.7. For the same reason
"highest-sequence claim wins" (persistence/store_claim_ops.py:520) sorts by the random ids
of beads, as `Last` does. A resolution that is not known leaves its candidate accepted,
and never offered again.

Goals, other candidates, entities, myelination and reauthoring are not
modelled; the plan below says which come next. Ranking, schema validation and
transports have no state of their own to check, and they are most of the code.

## 6. Disagreements

Each of these configurations makes TLC print a trace on which the code, as
modelled, breaks a sentence of its own documentation. `TurnWrite_x_stage_fails`
is a run of the project. The others are in one `_x.cfg` per module with one property
active: activate the one named instead, with the constants its comment gives.

* **`BeadStore_x.cfg`**, `RemovedIsNotRecalled`
  (retrieval/visible_corpus.py:85): build_visible_corpus overlays every
  session-*.jsonl line and reads no tombstone, so a removed bead whose archive line
  is still admitted is shown to retrieval; docs/public_surface.md:46 says
  tombstoning "retires one mistaken bead from active recall/graph truth".
* **`BeadStore_x.cfg`**, `RemovedStaysOut`
  (persistence/store_projection_ops.py:22): rebuild_index_projection_from_sessions
  puts every bead of the session files back into the index and never reads
  bead_removed events; docs/public_surface.md:46 says removal preserves "the
  `bead_removed` tombstone, association pruning, and rebuild exclusion".
* **`BeadStore_x.cfg`**, `RejectedStaysHidden`
  (persistence/store_compaction_ops.py:122): uncompact restores the whole snapshot
  taken before a rejection, and the next lifecycle write (recall) copies it to the
  archive, so the rejected bead is shown again; docs/approval_workflow.md:33 says a
  rejected bead "is excluded from retrieval unconditionally".
* **`BeadStore_x.cfg`**, `ClassNeverLowers`
  (persistence/store_compaction_ops.py:122): uncompact restores the class of the old
  snapshot, below the class confirmed since, and recall writes it to the archive;
  docs/confidence_class.md:52 says "**Monotonic.** The class never lowers."
* **`BeadStore_x.cfg`**, `SupersededStaysHidden`
  (persistence/store_relationship_ops.py:67): promote sets status promoted without
  looking at the status it replaces, so a superseded bead is admitted again;
  docs/confidence_class.md:53 says an incorrect bead "gets **superseded** (status
  change + supersession chain), which removes it from current-truth retrieval
  entirely".
* **`BeadStore_x.cfg`**, `UncompactRestores`
  (persistence/store_compaction_ops.py:64): a bead archived, promoted and archived
  again by a forced compaction points at a second revision that was taken after its
  detail was blanked, and uncompact restores the empty detail; its docstring
  store_compaction_ops.py:87 says "Restore compacted bead detail from append-only
  archive revisions."
* **`BeadStore_x.cfg`**, `AddedStaysIndexed`
  (persistence/events.py:194): rebuild_index reads the session files outside the
  store lock and then installs what it computed, so a bead added in between leaves
  the index; core_memory/persistence/store.py:37 says "We prefer archive-first for
  bead persistence so rebuild_index() can recover safely".
* **`BeadStore_x.cfg`**, `PromotionIsTerminal`
  (persistence/promotion_service.py:256): decide_promotion writes the promotion to
  index.json only, and a rebuild recomputes the index from archive lines that do not
  have it; docs/contracts/canonical_phase_function_map.md:72 says "**Invariant:**
  promotion is terminal (no demotion/unpromotion)."
* **`TurnWrite_x.cfg`**, `AcceptedIsRecorded`
  (runtime/turn/ingress.py:192): the pass is marked pending before the event is
  emitted; killed in between, every retry finds that pass, returns idempotent_done
  and is answered accepted=true with no event on record;
  docs/adapters/contract.md:135 says "`accepted=true` means the finalized turn was
  durably accepted."
* **`TurnWrite_x.cfg`**, `OneEventPerDelivery`
  (runtime/turn/ingress.py:113): the prior pass is read outside any lock, so two
  deliveries of one envelope both find none and both emit;
  docs/core_adapters_architecture.md:11 says "Exactly one memory event per finalized
  top-level user turn."
* **`TurnWrite_x.cfg`**, `OneEventPerDelivery` (runtime/state.py:287):
  emission hashes the envelope again, now with supersedes_envelope_hash in its
  metadata, and process_memory_event stores that hash, so a retry of a changed turn
  is never recognised and emits again; docs/core_adapters_architecture.md:11 says
  "Exactly one memory event per finalized top-level user turn."
* **`TurnWrite_x.cfg`**, `OneEventPerDelivery`
  (runtime/turn/ingress.py:152): with store_full_text off the envelope is hashed
  over the full text for the comparison and over the redacted text when it is
  emitted, so no retry matches the stored hash;
  docs/core_adapters_architecture.md:11 says "Exactly one memory event per finalized
  top-level user turn."
* **`TurnWrite_x.cfg`**, `OnePassAtATime` (runtime/turn/ingress.py:192): a
  second delivery overwrites a running pass with pending and then claims it while
  the first is still processing;
  docs/reports/session-enrichment-delta-phase1-analysis.md:140 says "This prevents
  concurrent direct processing of the same `{session_id, turn_id}` pass."
* **`TurnWrite_x_stage_fails.cfg`**, `WorkedOffHasBead`
  (runtime/passes/enrichment.py:421): the envelope file that makes a run idempotent
  is written also when the association stage failed, so the retry finds it, reports
  ok and the item leaves the queue with no bead;
  docs/design/F-W1-write-pipeline.md:121 says "When the canonical bead has not
  committed, the semantic receipt remains pending and the durable queue item is
  retryable."
* **`TurnWrite_x.cfg`**, `WorkedOffHasBead`
  (persistence/store_add_helpers.py:146): the duplicate check answers with the bead
  of another turn whose text is similar, so the enrichment run succeeds and no bead
  names the new turn; docs/contracts/canonical_phase_function_map.md:37 says "Ensure
  one current-turn bead is written."
* **`TurnWrite_x.cfg`**, `OneBeadPerTurn`
  (persistence/store_add_bead_ops.py:152): the duplicate check looks at the newest
  dedup_window beads of the session only; an item run again after newer beads were
  written creates a second bead for its turn;
  docs/PRD/agent-led-semantic-write-integrity.md:1014 says "Queue replay is
  idempotent and produces at most one current-turn bead."
* **`TurnWrite_x.cfg`**, `RetriedTurnsCommit` (runtime/turn/ingress.py:155):
  an adapter killed between marking the pass pending and claiming it leaves a
  pending pass; every retry returns idempotent_done before the claim and is answered
  retryable for ever; docs/PRD/agent-led-semantic-write-integrity.md:573 says an
  unresolved write must "preserve sufficient context for an authorized agent to
  retry idempotently".
* **`SessionFlush_x.cfg`**, `CommittedIsAuthored`
  (runtime/flush/flush_state.py:75): the process_flush checkpoint bead carries the
  turn in source_turn_ids, so find_canonical_turn_bead_id takes it for the turn's
  bead and the next receipt of a waived turn records committed;
  docs/PRD/agent-led-semantic-write-integrity.md:765 says "`committed` | Exactly one
  canonical current-turn bead exists".
* **`SessionFlush_x.cfg`**, `OneFlushPerTurn`
  (runtime/flush/flush_flow.py:146): the marker is read before consolidation and
  written after it, with no lock, so two flushes of one session both run;
  docs/contracts/canonical_phase_function_map.md:88 lists a "once-per-cycle guard
  (`already_flushed_for_latest_turn`)".
* **`SessionFlush_x.cfg`**, `FlushIsRemembered`
  (runtime/flush/flush_flow.py:297): the markers of all sessions live in one file
  that is read and written back with no lock, so flushes of two sessions lose one
  marker and that session is flushed again;
  docs/contracts/canonical_phase_function_map.md:88 lists a "once-per-cycle guard
  (`already_flushed_for_latest_turn`)".
* **`SessionFlush_x.cfg`**, `PendingBlocks`
  (runtime/flush/flush_flow.py:73): the absence of a semantic-write state is read at
  line 49 and acted on later without a lock, so the reconciliation writes committed
  over a pending state recorded in between; the comment flush_flow.py:71 says "an
  explicit pending/repair_required state is authoritative and must continue to block
  normal flush."
* **`CompactionQueue_x.cfg`**, `QueuedIsKept`
  (runtime/queue/compaction_queue.py:117): the queue file is read, changed and
  written back with no lock, so an enqueue or a drain next to another one writes
  over it and a queued flush is gone; docs/adapters/openclaw.md:35 says
  after_compaction "Queues flush work; drain happens asynchronously from
  `agent_end`."
* **`CompactionQueue_x.cfg`**, `QueuedIsKept`
  (runtime/queue/compaction_queue.py:42): write_text truncates the queue file before
  it fills it; killed in between, the file reads as empty and every queued flush is
  gone; docs/adapters/openclaw.md:35 says after_compaction "Queues flush work; drain
  happens asynchronously from `agent_end`."
* **`SemanticIndex_x.cfg`**, `RequestsOutlastBuilds`
  (retrieval/semantic_index.py:1328): a build consumes the queue when it is done, with
  every request that was queued while it ran; docs/semantic_backend_modes.md:66 says
  "if the lock is held, rebuild is treated as retryable and queued." The index still
  catches up, by the next stale lookup (`IndexCatchesUp`).
* **`SemanticIndex_x.cfg`**, `OneBuilder` with `Faults = {"race"}` or `{"slow"}`
  (retrieval/semantic_index.py:1078): two processes that find one old lock unlink and
  create it in turn, and the second unlinks the first one's new lock; a build of more
  than 300 s loses its lock; docs/semantic_backend_modes.md:65 says the lock is there
  "to avoid overlapping rebuild writes."
* **`SemanticIndex_x.cfg`**, `FailedBuildIsRetried` (retrieval/semantic_index.py:1247):
  an embedding outage leaves a lexical index that is recorded clean, so that nothing
  builds again although the mode is required; docs/semantic_backend_modes.md:66 calls
  only a held lock retryable.
* **`SemanticIndex_x.cfg`**, `CleanIndexIsComplete` (retrieval/semantic_index.py:921): a
  build killed between its rows and its manifest leaves rows that are not those of
  the fingerprint; lookups do not compare them.
* **`Associations_x.cfg`**, `MergeIsAtomic` (association/crawler_contract.py:665): the
  merge rewrites index.json with write_text, and killed at it leaves a file that does
  not parse; docs/PRD/session-enrichment-delta-slice-b.md:73 says a crash during
  Stage 4 "leaves no half-applied state".
* **`Associations_x.cfg`**, `RebuildKeepsAssociations` (persistence/events.py:246): a
  rebuild restores associations from their events, and merged ones have none.
* **`Associations_x.cfg`**, `RetractedStaysOut`
  (association/crawler_contract.py:668): a merge killed before it clears its log is
  replayed, and appends again what was deactivated in between; a rebuild that had
  read the events before the deactivation does the same.
* **`Associations_x.cfg`**, `NoSecondRecord`
  (persistence/store_relationship_ops.py:102): link() does not look for a record of the
  edge; and a deactivation killed before its event is undone by a rebuild, next to the
  record made since.
* **`AssociationReview_x.cfg`**, `LinkedCandidateIsBacked`
  (runtime/associations/coverage.py:477): decisions are noted as the judge made them,
  so that an acceptance which failed or was quarantined counts as linked.
* **`AssociationReview_x.cfg`**, `RejectedIsNotWritten`
  (runtime/associations/coverage.py:2592): a run shortlists by the beads and not by what
  was decided, so a candidate an operator rejected may be judged and written.
* **`AssociationReview_x.cfg`**, `DeferredIsQueued`
  (runtime/associations/coverage.py:2370): the record "deferred" is appended after the
  job is queued, and may come after the job's "completed".
* **`SoulStore_x.cfg`**, `OwnedIsSkipped` (soul/dreamer_bridge.py:673): the keys that are
  covered are read before the language model is asked, and not looked at again; an entry
  that a human writes meanwhile gets a Dreamer proposal, or is replaced by an automatic
  write; soul/dreamer_bridge.py:526 says "a human/agent revision means the entry is
  authoritatively owned. Either way a new Dreamer proposal for that `(target_file,
  entry_key)` is skipped".
* **`SoulStore_x.cfg`**, `ProposedOnce` with `Bridges = {b1, b2}`
  (soul/dreamer_bridge.py:550): for the same reason two runs that overlap propose one
  finding twice.

* **`ClaimReview_x.cfg`**, `PreferredIsCurrent` (runtime/dreamer/candidates.py:794): the
  ruling is written without looking at the claims as they are by then, and the one
  preferred may be retracted; claim/conflict_review.py:12 says "(A becomes current)".
* **`ClaimReview_x.cfg`**, `ResolutionCloses` (persistence/store_claim_ops.py:318): a pair
  that is marked again and resolved as before gives the same audit turn, bead and
  grounding hash, and the ruling is dropped as a duplicate; docs/TODO.md:234 says "so a
  resolution actually closes the conflict".
* **`ClaimReview_x.cfg`**, `ContestedAreActive` (persistence/store_claim_ops.py:518): all
  claims ever marked in a slot are in conflict again with the next marker, and a recall
  asks about the first two, which may be superseded.
* **`ClaimReview_x.cfg`**, `RulingsAreRecorded` with two workers
  (persistence/dreamer_candidate_store.py:43): a worker writes back the candidates it had
  read before another's decision, or reads the emptied file as none; a candidate whose
  rulings are in the store is pending, or gone.
* **`ClaimReview_x.cfg`**, `ResolversAgree` (claim/resolver.py:81):
  `resolve_all_current_state` takes any marker for a conflict, whatever came after.
* **`ClaimReview_x.cfg`**, `OneForkEach` (runtime/dreamer/candidates.py:690): a fork whose
  review is killed and begun again writes its scoped claims a second time, under new ids.

## 7. Plan

Written, in the order of their weight: outbox, bead store, turn path, flush,
compaction queue, semantic index, associations, association review, SOUL, claims and
their review. Next:

1. `Goals` - the goal state machine and the decision pass.
2. `Removal` - idempotency results that are looked up before and written after the
   lock, retractions and mirror retries, composed with `BeadStore`'s tombstones.
3. `Candidates` - dreamer candidates of other kinds and entity merges, composed with
   the bridge of `SoulStore`.
4. `Usage` - the edge usage log that `fold_edge_usage` reads and truncates, and the
   reward log of myelination.
5. Reauthoring: preview and apply cohorts next to the turn path.

Theorems to add: for further disagreements of section 6 what holds in their place, as
`NewRulingDecides`, `CommitsAreAuthored` and `OneProcessKeeps` do: `OneFlushPerTurn` and
`FlushIsRemembered` for one flusher, `RetractedStaysOut` for merges that are not killed,
`RulingsAreRecorded` for one worker, `AcceptedIsRecorded` without a kill.
