----------------------------- MODULE SemanticIndex -----------------------------
(***************************************************************************)
(* The life of the semantic index of Core Memory:                          *)
(*   core_memory/persistence/semantic_lifecycle.py  (dirty mark, queue)    *)
(*   core_memory/retrieval/semantic_index.py  (build, delta, lookup, lock) *)
(*   core_memory/runtime/queue/jobs.py        (the worker's semantic part) *)
(*                                                                         *)
(* Four files and a vector store describe the visible corpus: the manifest *)
(* (fingerprint, dirty mark, is the vector backend usable), the row file,  *)
(* the rebuild queue (one flag and a mode), the build lock, and the vectors*)
(* (a FAISS file, or an external store).  NO lock covers the manifest and  *)
(* the queue: every writer reads the file, changes its copy and replaces   *)
(* the file.  The build lock keeps builders apart, and nobody else.        *)
(*                                                                         *)
(* Beads are numbered in the order they were created.  What retrieval sees *)
(* of bead b is the text corpus[b], 0 when b is not visible.  The corpus   *)
(* fingerprint hashes exactly that, so the fingerprint is the corpus.      *)
(* Changes that touch only a row's metadata are left out, and so are the   *)
(* scores of the hits.                                                     *)
(***************************************************************************)
EXTENDS Integers, FiniteSets

CONSTANTS
    Writers,      \* processes that change beads, checkpoint turns, ask for work
    Readers,      \* processes that answer queries
    Workers,      \* processes that run run_async_jobs
    NBeads,       \* bound: beads in the corpus
    Texts,        \* bound: versions of a bead's text
    Backends,     \* vector backends to consider: "faiss" (local), "external"
    Required,     \* CORE_MEMORY_CANONICAL_SEMANTIC_MODE = required
    Faults,       \* what the environment may do, see FaultKinds
    MaxWrites,    \* bound: changes, checkpoints and reconcile requests
    MaxFailures,  \* bound: processes killed and embedding outages
    Nobody,       \* there is no lock file
    NoPrint       \* a manifest without fingerprint

(* "undo":    a change may bring back what was visible before              *)
(* "slow":    a build may outlive the 300 s after which its lock is stale  *)
(* "race":    two processes may find the same lock stale at once           *)
(* "outage":  embedding may fail in a full build into an external store    *)
FaultKinds == {"undo", "slow", "race", "outage"}

Procs == Writers \cup Readers \cup Workers
Beads == 1..NBeads
Hidden == 0
Corpora == [Beads -> 0..Texts]
Empty == [b \in Beads |-> Hidden]

ASSUME RolesAssumption ==
    /\ Writers \cap Readers = {}
    /\ Writers \cap Workers = {}
    /\ Readers \cap Workers = {}
ASSUME AbsentAssumption == Nobody \notin Procs /\ NoPrint \notin Corpora
ASSUME SemanticAssumption ==
    /\ NBeads \in Nat \ {0}
    /\ Texts \in Nat \ {0}
    /\ Backends \subseteq {"faiss", "external"}
    /\ Required \in BOOLEAN
    /\ Faults \subseteq FaultKinds
    /\ MaxWrites \in Nat
    /\ MaxFailures \in Nat

Manifest == [there : BOOLEAN, print : Corpora \cup {NoPrint},
             dirty : BOOLEAN, ready : BOOLEAN]

VARIABLES
    backend,   \* configuration: the vector backend of this store
    corpus,    \* corpus[b]: the visible text of bead b
    manifest,  \* manifest.json
    queue,     \* rebuild-queue.json: is a rebuild queued, and in which mode
    made,      \* does rows.jsonl exist
    rows,      \* rows.jsonl
    vectors,   \* vectors[b]: the text whose vector is stored for b
    lock,      \* build.lock: who created it
    stale,     \* is it older than 300 s
    pc,        \* pc[p]: where process p is, "idle" between operations
    after,     \* after[p]: where it goes on when its sub-operation is done
    kind,      \* kind[p]: which of the two builders it runs
    copy,      \* copy[p]: the manifest it has read
    seen,      \* seen[p]: the corpus it indexes, or the rows it has read
    asked,     \* asked[p]: the queue mode it asks for, then the one it will write
    good,      \* good[p]: did it store the vectors
    writes,    \* how many operations writers began
    failures   \* how many kills and outages happened

index == <<made, rows, vectors>>
locked == <<lock, stale>>
data == <<kind, copy, seen, asked, good>>
me == <<pc, after, data>>
counts == <<writes, failures>>
vars == <<backend, corpus, manifest, queue, index, locked, me, counts>>

NoManifest == [there |-> FALSE, print |-> NoPrint, dirty |-> FALSE, ready |-> FALSE]

Init ==
    /\ backend \in Backends
    /\ corpus = [b \in Beads |-> 1]
    /\ manifest = NoManifest
    /\ queue = [queued |-> FALSE, mode |-> "delta"]
    /\ made = FALSE /\ rows = Empty /\ vectors = Empty
    /\ lock = Nobody /\ stale = FALSE
    /\ pc = [p \in Procs |-> "idle"] /\ after = [p \in Procs |-> "idle"]
    /\ kind = [p \in Procs |-> "build"]
    /\ copy = [p \in Procs |-> NoManifest]
    /\ seen = [p \in Procs |-> Empty]
    /\ asked = [p \in Procs |-> "delta"]
    /\ good = [p \in Procs |-> FALSE]
    /\ writes = 0 /\ failures = 0

At(p, label) == pc[p] = label
MoveTo(p, label) == pc' = [pc EXCEPT ![p] = label]
Resume(p, label) == after' = [after EXCEPT ![p] = label]
\* What p no longer needs is forgotten.
Clear(p) ==
    /\ kind' = [kind EXCEPT ![p] = "build"]
    /\ copy' = [copy EXCEPT ![p] = NoManifest]
    /\ seen' = [seen EXCEPT ![p] = Empty]
    /\ asked' = [asked EXCEPT ![p] = "delta"]
    /\ good' = [good EXCEPT ![p] = FALSE]
Goto(p, label) == MoveTo(p, label) /\ UNCHANGED <<after, data>>
\* Enter a sub-operation at label, to come back to return.
Call(p, label, return) == MoveTo(p, label) /\ Resume(p, return) /\ UNCHANGED data
\* Go on at label, only remembering where to return.
Forget(p, label) == MoveTo(p, label) /\ UNCHANGED after /\ Clear(p)
Return(p) == MoveTo(p, after[p]) /\ Resume(p, "idle") /\ Clear(p)
Done(p) == MoveTo(p, "idle") /\ Resume(p, "idle") /\ Clear(p)

\* Every row of r shows what c shows of that bead.
PartOf(r, c) == \A b \in Beads : r[b] = Hidden \/ r[b] = c[b]

-----------------------------------------------------------------------------
(* Writers: mark_semantic_dirty, mark_turn_checkpoint, mark_flush_checkpoint *)

\* Without the fault "undo", a text is new and a hidden bead stays hidden.
NewText(b, v) ==
    /\ v # corpus[b]
    /\ \/ "undo" \in Faults
       \/ corpus[b] # Hidden /\ (v = Hidden \/ v > corpus[b])

Begins(p) ==
    /\ p \in Writers /\ At(p, "idle")
    /\ writes < MaxWrites
    /\ writes' = writes + 1

\* A store operation rewrites index.json under the store lock and then, the
\* lock released, marks the index dirty.
Change(p, b, v) ==
    /\ Begins(p)
    /\ NewText(b, v)
    /\ corpus' = [corpus EXCEPT ![b] = v]
    /\ Call(p, "mark", "markDirty")
    /\ UNCHANGED <<backend, manifest, queue, index, locked, failures>>

\* A turn or a flush records its id in the manifest.
Checkpoint(p) ==
    /\ Begins(p)
    /\ Call(p, "mark", "checkpoint")
    /\ UNCHANGED <<backend, corpus, manifest, queue, index, locked, failures>>

\* enqueue_async_job("semantic-reconcile").
AskReconcile(p) ==
    /\ Begins(p)
    /\ MoveTo(p, "enqueue")
    /\ asked' = [asked EXCEPT ![p] = "reconcile"]
    /\ UNCHANGED <<after, kind, copy, seen, good>>
    /\ UNCHANGED <<backend, corpus, manifest, queue, index, locked, failures>>

\* The manifest is read ...
MarkRead(p) ==
    /\ At(p, "mark")
    /\ copy' = [copy EXCEPT ![p] = manifest]
    /\ MoveTo(p, after[p])
    /\ UNCHANGED <<after, kind, seen, asked, good>>
    /\ UNCHANGED <<backend, corpus, manifest, queue, index, locked, counts>>

\* ... and replaced by the copy with the dirty mark, then work is enqueued.
MarkWrite(p) ==
    /\ At(p, "markDirty")
    /\ manifest' = [there |-> TRUE, print |-> copy[p].print,
                    dirty |-> TRUE, ready |-> copy[p].ready]
    /\ MoveTo(p, "enqueue") /\ Resume(p, "idle") /\ Clear(p)
    /\ UNCHANGED <<backend, corpus, queue, index, locked, counts>>

\* A checkpoint puts the copy back, whatever was written meanwhile.
CheckpointWrite(p) ==
    /\ At(p, "checkpoint")
    /\ manifest' = [there |-> TRUE, print |-> copy[p].print,
                    dirty |-> copy[p].dirty, ready |-> copy[p].ready]
    /\ Done(p)
    /\ UNCHANGED <<backend, corpus, queue, index, locked, counts>>

-----------------------------------------------------------------------------
(* enqueue_semantic_rebuild, called by writers, lookups and builders        *)

\* The queue is read; reconcile sticks ...
EnqueueRead(p) ==
    /\ At(p, "enqueue")
    /\ asked' = [asked EXCEPT ![p] = IF queue.mode = "reconcile" THEN "reconcile" ELSE @]
    /\ MoveTo(p, "enqueueWrite")
    /\ UNCHANGED <<after, kind, copy, seen, good>>
    /\ UNCHANGED <<backend, corpus, manifest, queue, index, locked, counts>>

\* ... and it is written.
EnqueueWrite(p) ==
    /\ At(p, "enqueueWrite")
    /\ queue' = [queued |-> TRUE, mode |-> asked[p]]
    /\ Return(p)
    /\ UNCHANGED <<backend, corpus, manifest, index, locked, counts>>

-----------------------------------------------------------------------------
(* The build lock: _acquire_build_lock, _release_build_lock                 *)

Inside == {"locked", "rows", "rowsEnd", "publish", "consume", "release"}
InSection(p) == pc[p] \in Inside
Reclaiming(p) == pc[p] \in {"reclaim", "recreate"}

Take(p) ==
    /\ lock' = p
    /\ stale' = FALSE
    /\ Goto(p, "locked")
    /\ UNCHANGED <<backend, corpus, manifest, queue, index, counts>>

\* Mutant of Acquire: the lock file is created without O_EXCL.
Mut_Acquire(p) ==
    /\ At(p, "acquire")
    /\ lock = Nobody \/ ~stale
    /\ Take(p)

\* O_CREAT|O_EXCL succeeds: there is no lock file.
Acquire(p) ==
    /\ At(p, "acquire")
    /\ lock = Nobody
    /\ Take(p)

\* The lock file is there and younger than 300 s: leave a request instead.
LockHeld(p) ==
    /\ At(p, "acquire")
    /\ lock # Nobody /\ ~stale
    /\ Forget(p, "enqueue")
    /\ UNCHANGED <<backend, corpus, manifest, queue, index, locked, counts>>

\* It is older: decide to reclaim it,
FindStale(p) ==
    /\ At(p, "acquire")
    /\ lock # Nobody /\ stale
    /\ "race" \in Faults \/ \A o \in Procs : ~Reclaiming(o)
    /\ Goto(p, "reclaim")
    /\ UNCHANGED <<backend, corpus, manifest, queue, index, locked, counts>>

\* remove the file that is there now,
Unlink(p) ==
    /\ At(p, "reclaim")
    /\ lock' = Nobody /\ stale' = FALSE
    /\ Goto(p, "recreate")
    /\ UNCHANGED <<backend, corpus, manifest, queue, index, counts>>

\* and create it anew, unless another process was faster.
Recreate(p) ==
    /\ At(p, "recreate")
    /\ \/ lock = Nobody /\ Take(p)
       \/ /\ lock # Nobody
          /\ Forget(p, "enqueue")
          /\ UNCHANGED <<backend, corpus, manifest, queue, index, locked, counts>>

\* The lock file is removed, whoever created it.
Release(p) ==
    /\ At(p, "release")
    /\ lock' = Nobody /\ stale' = FALSE
    /\ Return(p)
    /\ UNCHANGED <<backend, corpus, manifest, queue, index, counts>>

-----------------------------------------------------------------------------
(* The worker: run_async_jobs                                               *)

\* The queue is read; its mode decides which builder runs.
StartJob(p) ==
    /\ p \in Workers /\ At(p, "idle")
    /\ queue.queued
    /\ kind' = [kind EXCEPT ![p] = IF queue.mode = "reconcile" THEN "build" ELSE "delta"]
    /\ MoveTo(p, "acquire")
    /\ UNCHANGED <<after, copy, seen, asked, good>>
    /\ UNCHANGED <<backend, corpus, manifest, queue, index, locked, counts>>

-----------------------------------------------------------------------------
(* build_semantic_index and apply_semantic_delta, the lock being held       *)

\* There is no delta of a local index: release the lock and build instead.
DeltaUnsupported(p) ==
    /\ At(p, "locked") /\ kind[p] = "delta"
    /\ backend = "faiss"
    /\ lock' = Nobody /\ stale' = FALSE
    /\ kind' = [kind EXCEPT ![p] = "build"]
    /\ MoveTo(p, "acquire")
    /\ UNCHANGED <<after, copy, seen, asked, good>>
    /\ UNCHANGED <<backend, corpus, manifest, queue, index, counts>>

\* Mutant of ToStore: a delta only embeds beads without a row.
Mut_ToStore(p) == {b \in Beads : /\ corpus[b] # Hidden
                                 /\ kind[p] = "build" \/ rows[b] = Hidden}
\* The beads whose vectors the run stores or deletes: a build stores those of
\* all visible beads, a delta looks at what differs from the row file.
ToStore(p) == {b \in Beads : /\ corpus[b] # Hidden
                             /\ kind[p] = "build" \/ rows[b] # corpus[b]}
ToDelete(p) == {b \in Beads : kind[p] = "delta" /\ rows[b] # Hidden /\ corpus[b] = Hidden}
Stored(beads) == [b \in Beads |-> IF b \in beads THEN corpus[b] ELSE vectors[b]]

CanCompute(p) == At(p, "locked") /\ (kind[p] = "build" \/ backend = "external")

\* Read the corpus, embed, store the vectors: a FAISS file is written anew,
\* an external store is updated bead by bead.
Compute(p) ==
    /\ CanCompute(p)
    /\ vectors' = IF backend = "faiss" THEN corpus
                  ELSE Stored(ToStore(p) \cup ToDelete(p))
    /\ seen' = [seen EXCEPT ![p] = corpus]
    /\ good' = [good EXCEPT ![p] = TRUE]
    /\ MoveTo(p, "rows")
    /\ UNCHANGED <<after, kind, copy, asked>>
    /\ UNCHANGED <<backend, corpus, manifest, queue, made, rows, locked, counts>>

\* The provider or the store fails, some vectors being stored already.  A
\* build goes on without vectors; a delta raises, and only releases the lock.
ComputeFails(p, done) ==
    /\ CanCompute(p)
    /\ failures < MaxFailures
    /\ failures' = failures + 1
    /\ IF backend = "faiss" THEN done = {} ELSE done \subseteq ToStore(p)
    /\ kind[p] = "build" /\ backend = "external" => "outage" \in Faults
    /\ vectors' = Stored(done)
    /\ \/ /\ kind[p] = "build"
          /\ seen' = [seen EXCEPT ![p] = corpus]
          /\ MoveTo(p, "rows")
          /\ UNCHANGED <<after, kind, copy, asked, good>>
       \/ /\ kind[p] = "delta"
          /\ Forget(p, "release")
    /\ UNCHANGED <<backend, corpus, manifest, queue, made, rows, locked, writes>>

\* The row file is truncated and written, newest bead first ...
RowsStart(p, n) ==
    /\ At(p, "rows")
    /\ made' = TRUE
    /\ rows' = [b \in Beads |-> IF b > n THEN seen[p][b] ELSE Hidden]
    /\ Goto(p, "rowsEnd")
    /\ UNCHANGED <<backend, corpus, manifest, queue, vectors, locked, counts>>

\* ... to its end.
RowsEnd(p) ==
    /\ At(p, "rowsEnd")
    /\ rows' = seen[p]
    /\ Goto(p, "publish")
    /\ UNCHANGED <<backend, corpus, manifest, queue, made, vectors, locked, counts>>

\* The manifest is replaced: clean, with the fingerprint of these rows.  A
\* build without vectors is an error in required mode: the queue is left as is.
Publish(p) ==
    /\ At(p, "publish")
    /\ manifest' = [there |-> TRUE, print |-> seen[p], dirty |-> FALSE,
                    ready |-> good[p]]
    /\ Forget(p, IF good[p] \/ ~Required \/ seen[p] = Empty
                   THEN "consume" ELSE "release")
    /\ UNCHANGED <<backend, corpus, queue, index, locked, counts>>

\* The queue is emptied of every request, the ones that came during the run too.
Consume(p) ==
    /\ At(p, "consume")
    /\ queue' = [queued |-> FALSE, mode |-> "delta"]
    /\ Goto(p, "release")
    /\ UNCHANGED <<backend, corpus, manifest, index, locked, counts>>

-----------------------------------------------------------------------------
(* semantic_lookup                                                          *)

\* Without manifest or row file: ask for a rebuild, and build.
LookupMissing(p) ==
    /\ p \in Readers /\ At(p, "idle")
    /\ ~manifest.there \/ ~made
    /\ Call(p, "enqueue", "buildMissing")
    /\ UNCHANGED <<backend, corpus, manifest, queue, index, locked, counts>>

\* build_semantic_index on the read path.
BuildOnRead(p) ==
    /\ pc[p] \in {"buildMissing", "buildEmpty"}
    /\ Call(p, "acquire", IF At(p, "buildMissing") THEN "lookup" ELSE "idle")
    /\ UNCHANGED <<backend, corpus, manifest, queue, index, locked, counts>>

\* Read the manifest,
LookupManifest(p) ==
    /\ \/ p \in Readers /\ At(p, "idle") /\ manifest.there /\ made
       \/ At(p, "lookup")
    /\ copy' = [copy EXCEPT ![p] = manifest]
    /\ MoveTo(p, "lookupRows")
    /\ UNCHANGED <<after, kind, seen, asked, good>>
    /\ UNCHANGED <<backend, corpus, manifest, queue, index, locked, counts>>

\* then the rows,
LookupRows(p) ==
    /\ At(p, "lookupRows")
    /\ seen' = [seen EXCEPT ![p] = rows]
    /\ MoveTo(p, "check")
    /\ UNCHANGED <<after, kind, copy, asked, good>>
    /\ UNCHANGED <<backend, corpus, manifest, queue, index, locked, counts>>

\* Mutant of LooksStale: only the dirty mark counts.
Mut_LooksStale(p) == copy[p].dirty
\* then the corpus: is the index of these rows the index of this corpus?
LooksStale(p) == copy[p].dirty \/ copy[p].print # corpus

\* It is: answer from the rows, without a warning.
AnswerClean(p) ==
    /\ At(p, "check")
    /\ seen[p] # Empty
    /\ ~LooksStale(p)
    /\ Done(p)
    /\ UNCHANGED <<backend, corpus, manifest, queue, index, locked, counts>>

\* Mutant of AnswerStale: the answer carries the warning, nothing is enqueued.
Mut_AnswerStale(p) ==
    /\ At(p, "check")
    /\ seen[p] # Empty
    /\ LooksStale(p)
    /\ Done(p)
    /\ UNCHANGED <<backend, corpus, manifest, queue, index, locked, counts>>

\* It is not: answer from the rows all the same, with semantic_index_stale,
\* and ask for a rebuild.
AnswerStale(p) ==
    /\ At(p, "check")
    /\ seen[p] # Empty
    /\ LooksStale(p)
    /\ Forget(p, "enqueue")
    /\ UNCHANGED <<backend, corpus, manifest, queue, index, locked, counts>>

\* There is nothing to answer from: ask for a rebuild, and build.
AnswerEmpty(p) ==
    /\ At(p, "check")
    /\ seen[p] = Empty
    /\ MoveTo(p, "enqueue") /\ Resume(p, "buildEmpty") /\ Clear(p)
    /\ UNCHANGED <<backend, corpus, manifest, queue, index, locked, counts>>

-----------------------------------------------------------------------------
(* The environment                                                          *)

\* A process is killed; a lock file it created stays.
Kill(p) ==
    /\ ~At(p, "idle")
    /\ failures < MaxFailures
    /\ failures' = failures + 1
    /\ Done(p)
    /\ UNCHANGED <<backend, corpus, manifest, queue, index, locked, writes>>

\* 300 s pass.  Without the fault "slow" a live builder is done by then.
LockAges ==
    /\ lock # Nobody /\ ~stale
    /\ "slow" \in Faults \/ \A p \in Procs : ~InSection(p)
    /\ stale' = TRUE
    /\ UNCHANGED <<backend, corpus, manifest, queue, index, lock, me, counts>>

-----------------------------------------------------------------------------
Write(p) ==
    \/ \E b \in Beads, v \in 0..Texts : Change(p, b, v)
    \/ Checkpoint(p) \/ AskReconcile(p)
    \/ MarkRead(p) \/ MarkWrite(p) \/ CheckpointWrite(p)
Enqueue(p) == EnqueueRead(p) \/ EnqueueWrite(p)
Lock(p) ==
    \/ Acquire(p) \/ LockHeld(p) \/ FindStale(p)
    \/ Unlink(p) \/ Recreate(p) \/ Release(p)
Build(p) ==
    \/ StartJob(p) \/ DeltaUnsupported(p) \/ Compute(p)
    \/ \E done \in SUBSET Beads : ComputeFails(p, done)
    \/ \E n \in Beads : RowsStart(p, n)
    \/ RowsEnd(p) \/ Publish(p) \/ Consume(p)
Lookup(p) ==
    \/ LookupMissing(p) \/ BuildOnRead(p) \/ LookupManifest(p) \/ LookupRows(p)
    \/ AnswerClean(p) \/ AnswerStale(p) \/ AnswerEmpty(p)

Next ==
    \/ \E p \in Procs : Write(p) \/ Enqueue(p) \/ Lock(p) \/ Build(p) \/ Lookup(p) \/ Kill(p)
    \/ LockAges

Spec == Init /\ [][Next]_vars

(***************************************************************************)
(* Fairness.  A process that has begun an operation goes on with it; the   *)
(* worker is run again while work is queued (autodrain, the async runner); *)
(* queries keep coming; time passes.  Nobody has to change anything.       *)
(***************************************************************************)
GoesOn(p) ==
    \/ MarkRead(p) \/ MarkWrite(p) \/ CheckpointWrite(p)
    \/ Enqueue(p) \/ Lock(p) \/ Build(p) \/ Lookup(p)
Fairness ==
    /\ \A p \in Procs : WF_vars(GoesOn(p))
    /\ WF_vars(LockAges)

FairSpec == Spec /\ Fairness

-----------------------------------------------------------------------------
(* Properties                                                               *)

Labels == Inside \cup
    {"idle", "mark", "markDirty", "checkpoint", "enqueue", "enqueueWrite", "acquire",
     "reclaim", "recreate", "buildMissing", "buildEmpty", "lookup", "lookupRows", "check"}
\* The shape of the files and of the processes' locals.
TypeOK ==
    /\ backend \in Backends
    /\ corpus \in Corpora
    /\ manifest \in Manifest
    /\ queue \in [queued : BOOLEAN, mode : {"delta", "reconcile"}]
    /\ made \in BOOLEAN /\ rows \in Corpora /\ vectors \in Corpora
    /\ lock \in Procs \cup {Nobody} /\ stale \in BOOLEAN
    /\ pc \in [Procs -> Labels]
    /\ after \in [Procs -> {"idle", "markDirty", "checkpoint", "buildMissing",
                            "buildEmpty", "lookup"}]
    /\ kind \in [Procs -> {"build", "delta"}]
    /\ copy \in [Procs -> Manifest] /\ seen \in [Procs -> Corpora]
    /\ asked \in [Procs -> {"delta", "reconcile"}] /\ good \in [Procs -> BOOLEAN]
    /\ writes \in 0..MaxWrites /\ failures \in 0..MaxFailures

\* _acquire_build_lock keeps builders apart, a killed holder's lock is
\* reclaimed, and the release, which does not look whose lock it removes,
\* never frees the lock of another builder.
OneBuilder == \A p, q \in Procs : InSection(p) /\ InSection(q) => p = q

\* A lookup that answers without semantic_index_stale answers from rows of the
\* corpus as it is at that moment: no removed bead, no old text - although
\* manifest, rows and corpus are read one after the other, dirty marks and
\* requests are lost, and builders are killed between their writes.
CleanAnswersAreCurrent ==
    [][\A p \in Procs : AnswerClean(p) => PartOf(seen[p], corpus)]_vars

\* When the manifest says the index is clean, usable and of this corpus, every
\* row has the vector of its text: whatever an interrupted run stored or left
\* out was stored again, though a delta only looks at the row file.
ReadyRowsHaveVectors ==
    manifest.ready /\ ~manifest.dirty /\ manifest.print = corpus
      => PartOf(rows, vectors)

\* Once writers and failures stop, the manifest comes to describe the corpus and
\* stays so, and no removed bead and no old text is left in the row file - though
\* a request made during a build is thrown away by that build, and a checkpoint
\* may undo what a builder published.
IndexCatchesUp ==
    <>[](/\ manifest.print = corpus /\ ~manifest.dirty
         /\ PartOf(rows, corpus))

-----------------------------------------------------------------------------
(* What does not hold (see README.md, section 6)                            *)

\* A clean index has a row for every visible bead while nobody rewrites it.
CleanIndexIsComplete ==
    manifest.print = corpus /\ ~manifest.dirty /\ (\A p \in Procs : ~InSection(p))
      => rows = corpus

\* A request that was left because the build lock was held is worked on by a
\* run that begins after it: no run empties the queue of a request it did not
\* read the corpus for.
RequestsOutlastBuilds ==
    [][\A p \in Procs : Consume(p) /\ queue.queued => manifest.print = corpus]_vars

\* In required mode an index that failed to build is tried again.
FailedBuildIsRetried == <>[](manifest.ready \/ corpus = Empty)
=============================================================================
