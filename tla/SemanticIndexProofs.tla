-------------------------- MODULE SemanticIndexProofs --------------------------
(***************************************************************************)
(* What SemanticIndex guarantees for any processes, beads and texts, any   *)
(* number of changes, requests, kills and outages, in either backend.      *)
(*                                                                         *)
(* Inv has three parts besides the types.  LockInv: who is inside holds    *)
(* the lock and a stale lock has no live holder.  FreshInv: what any file  *)
(* or process remembers is at most as new as the corpus; so once some      *)
(* manifest carries the fingerprint of the corpus, everything a builder    *)
(* still writes is that corpus.  VectorInv: a row that shows the present   *)
(* text of its bead has the vector of that text.                           *)
(***************************************************************************)
EXTENDS SemanticIndex, TLAPS

\* Process p is between reading the corpus and publishing its index.
Writing(p) == pc[p] \in {"rows", "rowsEnd", "publish"}

LockInv ==
    /\ \A p \in Procs : InSection(p) => lock = p /\ ~stale
    /\ \A p \in Procs : At(p, "reclaim") => lock # Nobody /\ stale
    /\ \A p, q \in Procs : Reclaiming(p) /\ Reclaiming(q) => p = q

\* Corpus c is not newer than d: without "undo" texts grow, hidden stays hidden.
Older(c, d) == \A b \in Beads : d[b] = Hidden \/ (c[b] # Hidden /\ c[b] <= d[b])
\* The rows r hold no text newer than in d.
NotNewer(r, d) == \A b \in Beads : d[b] = Hidden \/ r[b] <= d[b]

\* Some manifest, in the file or in a process's copy, is that of the corpus.
Known == manifest.print = corpus \/ \E p \in Procs : copy[p].print = corpus

FreshInv ==
    /\ manifest.print # NoPrint => Older(manifest.print, corpus)
    /\ \A p \in Procs :
         /\ copy[p].print # NoPrint => Older(copy[p].print, corpus)
         /\ Writing(p) => Older(seen[p], corpus)
         /\ Writing(p) /\ Known => seen[p] = corpus
         /\ At(p, "rowsEnd") => PartOf(rows, seen[p])
         /\ At(p, "publish") => rows = seen[p]
         /\ At(p, "check") /\ copy[p].print = corpus => PartOf(seen[p], corpus)
    /\ Known => PartOf(rows, corpus)

\* What is visible has its vector ...
VectorsDone == \A b \in Beads : corpus[b] # Hidden => vectors[b] = corpus[b]
\* ... and what r shows of the corpus has.
VectorsFor(r) == \A b \in Beads : r[b] # Hidden /\ r[b] = corpus[b] => vectors[b] = corpus[b]

VectorInv ==
    /\ NotNewer(rows, corpus)
    /\ manifest.ready /\ manifest.print = corpus => VectorsDone
    /\ \A p \in Procs :
         /\ copy[p].ready /\ copy[p].print = corpus => VectorsDone
         /\ Writing(p) /\ good[p] /\ seen[p] = corpus => VectorsDone
         /\ Writing(p) /\ backend = "external" => good[p]
         /\ good[p] => Writing(p)
    /\ backend = "external" =>
         /\ VectorsFor(rows)
         /\ \A p \in Procs : Writing(p) => VectorsFor(seen[p])

Inv == TypeOK /\ LockInv /\ FreshInv /\ VectorInv

-----------------------------------------------------------------------------
(* Type correctness                                                         *)

LEMMA Constants ==
    Hidden \in 0..Texts /\ Empty \in Corpora /\ NoManifest \in Manifest
<1>1. Hidden \in 0..Texts /\ Empty \in Corpora
  BY SemanticAssumption DEF Hidden, Empty, Corpora
<1>2. NoManifest \in Manifest
  BY DEF NoManifest, Manifest
<1> QED BY <1>1, <1>2

\* No process and no file remembers anything in the initial states.
LEMMA InitInv == Init => Inv
<1> SUFFICES ASSUME Init PROVE Inv
  OBVIOUS
<1> USE DEF Init
<1>1. TypeOK
  <2>1. corpus \in Corpora /\ backend \in Backends
    BY SemanticAssumption DEF Corpora
  <2>2. manifest \in Manifest /\ rows \in Corpora /\ vectors \in Corpora
    BY Constants
  <2>3. queue \in [queued : BOOLEAN, mode : {"delta", "reconcile"}]
    OBVIOUS
  <2>4. pc \in [Procs -> Labels]
    BY DEF Labels
  <2>5. after \in [Procs -> {"idle", "markDirty", "checkpoint", "buildMissing",
                             "buildEmpty", "lookup"}]
    OBVIOUS
  <2>6. copy \in [Procs -> Manifest] /\ seen \in [Procs -> Corpora]
    BY Constants
  <2>7. /\ kind \in [Procs -> {"build", "delta"}]
        /\ asked \in [Procs -> {"delta", "reconcile"}] /\ good \in [Procs -> BOOLEAN]
    OBVIOUS
  <2>8. writes \in 0..MaxWrites /\ failures \in 0..MaxFailures
    BY SemanticAssumption
  <2>9. lock \in Procs \cup {Nobody} /\ made \in BOOLEAN /\ stale \in BOOLEAN
    OBVIOUS
  <2> QED BY <2>1, <2>2, <2>3, <2>4, <2>5, <2>6, <2>7, <2>8, <2>9 DEF TypeOK
<1>2. LockInv
  BY DEF LockInv, At, InSection, Inside, Reclaiming
<1>3. \A p \in Procs : copy[p].print = NoPrint /\ ~Writing(p) /\ ~good[p]
                      /\ ~At(p, "check") /\ ~At(p, "rowsEnd") /\ ~At(p, "publish")
  BY DEF NoManifest, Writing, At
<1>4. corpus \in Corpora /\ corpus # NoPrint
  BY <1>1, AbsentAssumption DEF TypeOK
<1>5. FreshInv
  BY <1>3, <1>4 DEF FreshInv, NoManifest, Known
<1>6. NotNewer(rows, corpus) /\ VectorsFor(rows)
  BY DEF NotNewer, VectorsFor, Empty, Hidden, Beads
<1>7. VectorInv
  BY <1>3, <1>4, <1>6 DEF VectorInv, NoManifest
<1> QED BY <1>1, <1>2, <1>5, <1>7 DEF Inv

LEMMA TypeStep == TypeOK /\ [Next]_vars => TypeOK'
<1> SUFFICES ASSUME TypeOK, [Next]_vars PROVE TypeOK'
  OBVIOUS
<1> USE Constants, SemanticAssumption
    DEF TypeOK, At, MoveTo, Resume, Clear, Goto, Call, Done, Forget, Return,
        data, index, locked, counts, Labels, Inside
<1>1. ASSUME NEW p \in Procs, NEW b \in Beads, NEW v \in 0..Texts, Change(p, b, v)
      PROVE  TypeOK'
  BY <1>1 DEF Change, Begins, Corpora
<1>2. ASSUME NEW p \in Procs, Checkpoint(p) PROVE TypeOK'
  BY <1>2 DEF Checkpoint, Begins
<1>3. ASSUME NEW p \in Procs, AskReconcile(p) PROVE TypeOK'
  BY <1>3 DEF AskReconcile, Begins
<1>4. ASSUME NEW p \in Procs, MarkRead(p) PROVE TypeOK'
  BY <1>4 DEF MarkRead
<1>5. ASSUME NEW p \in Procs, MarkWrite(p) PROVE TypeOK'
  BY <1>5 DEF MarkWrite, Manifest
<1>6. ASSUME NEW p \in Procs, CheckpointWrite(p) PROVE TypeOK'
  BY <1>6 DEF CheckpointWrite, Manifest
<1>7. ASSUME NEW p \in Procs, EnqueueRead(p) PROVE TypeOK'
  BY <1>7 DEF EnqueueRead
<1>8. ASSUME NEW p \in Procs, EnqueueWrite(p) PROVE TypeOK'
  BY <1>8 DEF EnqueueWrite
<1>9. ASSUME NEW p \in Procs, Acquire(p) PROVE TypeOK'
  BY <1>9 DEF Acquire, Take
<1>10. ASSUME NEW p \in Procs, LockHeld(p) PROVE TypeOK'
  BY <1>10 DEF LockHeld
<1>11. ASSUME NEW p \in Procs, FindStale(p) PROVE TypeOK'
  BY <1>11 DEF FindStale
<1>12. ASSUME NEW p \in Procs, Unlink(p) PROVE TypeOK'
  BY <1>12 DEF Unlink
<1>13. ASSUME NEW p \in Procs, Recreate(p) PROVE TypeOK'
  <2>1. CASE lock = Nobody
    <3>1. Take(p)
      BY <1>13, <2>1 DEF Recreate
    <3> QED BY <3>1 DEF Take
  <2>2. CASE lock # Nobody
    <3>1. /\ Forget(p, "enqueue")
          /\ UNCHANGED <<backend, corpus, manifest, queue, index, locked, counts>>
      BY <1>13, <2>2 DEF Recreate
    <3> QED BY <3>1
  <2> QED BY <2>1, <2>2
<1>14. ASSUME NEW p \in Procs, Release(p) PROVE TypeOK'
  BY <1>14 DEF Release
<1>15. ASSUME NEW p \in Procs, StartJob(p) PROVE TypeOK'
  BY <1>15 DEF StartJob
<1>16. ASSUME NEW p \in Procs, DeltaUnsupported(p) PROVE TypeOK'
  BY <1>16 DEF DeltaUnsupported
<1>17. ASSUME NEW p \in Procs, Compute(p) PROVE TypeOK'
  BY <1>17 DEF Compute, CanCompute, Stored, Corpora
<1>18. ASSUME NEW p \in Procs, NEW done \in SUBSET Beads, ComputeFails(p, done)
      PROVE  TypeOK'
  <2>1. Stored(done) \in Corpora
    BY DEF Stored, Corpora
  <2>2. /\ failures' \in 0..MaxFailures /\ vectors' \in Corpora
        /\ UNCHANGED <<backend, corpus, manifest, queue, made, rows, locked, writes>>
    BY <1>18, <2>1 DEF ComputeFails
  <2>3. CASE kind[p] = "build"
    BY <1>18, <2>2, <2>3 DEF ComputeFails
  <2>4. CASE kind[p] = "delta"
    <3>1. Forget(p, "release")
      BY <1>18, <2>4 DEF ComputeFails
    <3> QED BY <2>2, <3>1
  <2> QED BY <2>3, <2>4
<1>19. ASSUME NEW p \in Procs, NEW n \in Beads, RowsStart(p, n) PROVE TypeOK'
  BY <1>19 DEF RowsStart, Corpora
<1>20. ASSUME NEW p \in Procs, RowsEnd(p) PROVE TypeOK'
  BY <1>20 DEF RowsEnd
<1>21. ASSUME NEW p \in Procs, Publish(p) PROVE TypeOK'
  BY <1>21 DEF Publish, Manifest
<1>22. ASSUME NEW p \in Procs, Consume(p) PROVE TypeOK'
  BY <1>22 DEF Consume
<1>23. ASSUME NEW p \in Procs, LookupMissing(p) PROVE TypeOK'
  BY <1>23 DEF LookupMissing
<1>24. ASSUME NEW p \in Procs, BuildOnRead(p) PROVE TypeOK'
  BY <1>24 DEF BuildOnRead
<1>25. ASSUME NEW p \in Procs, LookupManifest(p) PROVE TypeOK'
  BY <1>25 DEF LookupManifest
<1>26. ASSUME NEW p \in Procs, LookupRows(p) PROVE TypeOK'
  BY <1>26 DEF LookupRows
<1>27. ASSUME NEW p \in Procs, AnswerClean(p) PROVE TypeOK'
  BY <1>27 DEF AnswerClean
<1>28. ASSUME NEW p \in Procs, AnswerStale(p) PROVE TypeOK'
  BY <1>28 DEF AnswerStale
<1>29. ASSUME NEW p \in Procs, AnswerEmpty(p) PROVE TypeOK'
  BY <1>29 DEF AnswerEmpty
<1>30. ASSUME NEW p \in Procs, Kill(p) PROVE TypeOK'
  BY <1>30 DEF Kill
<1>31. ASSUME LockAges PROVE TypeOK'
  BY <1>31 DEF LockAges, me
<1>32. CASE UNCHANGED vars
  BY <1>32 DEF vars, me
<1> QED
  BY <1>1, <1>2, <1>3, <1>4, <1>5, <1>6, <1>7, <1>8, <1>9, <1>10, <1>11,
     <1>12, <1>13, <1>14, <1>15, <1>16, <1>17, <1>18, <1>19, <1>20,
     <1>21, <1>22, <1>23, <1>24, <1>25, <1>26, <1>27, <1>28, <1>29,
     <1>30, <1>31, <1>32
     DEF Next, Write, Enqueue, Lock, Build, Lookup

-----------------------------------------------------------------------------
(* The build lock                                                           *)

\* A step of p that leaves the lock file alone, and neither enters the section
\* nor begins to reclaim.
LEMMA Moved ==
  ASSUME TypeOK, LockInv, NEW p \in Procs, NEW l \in Labels,
         MoveTo(p, l), UNCHANGED locked,
         l \in Inside => InSection(p), l \notin {"reclaim", "recreate"}
  PROVE  LockInv'
<1>1. \A q \in Procs : pc'[q] = IF q = p THEN l ELSE pc[q]
  BY DEF TypeOK, MoveTo
<1>2. /\ \A q \in Procs : InSection(q)' => InSection(q)
      /\ \A q \in Procs : Reclaiming(q)' => Reclaiming(q)
      /\ \A q \in Procs : At(q, "reclaim")' => At(q, "reclaim")
  BY <1>1 DEF InSection, Reclaiming, At
<1> QED BY <1>2 DEF LockInv, locked

\* A process that finds no lock file is alone when it has created one.
LEMMA Taken ==
  ASSUME TypeOK, LockInv, NEW p \in Procs, lock = Nobody, Take(p)
  PROVE  LockInv'
<1>1. \A q \in Procs : pc'[q] = IF q = p THEN "locked" ELSE pc[q]
  BY DEF TypeOK, Take, Goto, MoveTo
<1>2. \A q \in Procs : ~InSection(q) /\ ~At(q, "reclaim")
  BY AbsentAssumption DEF LockInv
<1>3. /\ \A q \in Procs : InSection(q)' => q = p
      /\ \A q \in Procs : ~At(q, "reclaim")'
      /\ \A q \in Procs : Reclaiming(q)' => Reclaiming(q)
  BY <1>1, <1>2 DEF InSection, At, Reclaiming
<1>4. lock' = p /\ stale' = FALSE
  BY DEF Take
<1> QED BY <1>3, <1>4 DEF LockInv

\* The holder leaves the section and removes the lock file.
LEMMA Freed ==
  ASSUME TypeOK, LockInv, NEW p \in Procs, NEW l \in Labels,
         InSection(p), MoveTo(p, l), lock' = Nobody, stale' = FALSE,
         l \notin Inside, l \notin {"reclaim", "recreate"}
  PROVE  LockInv'
<1>1. \A q \in Procs : pc'[q] = IF q = p THEN l ELSE pc[q]
  BY DEF TypeOK, MoveTo
<1>2. \A q \in Procs : ~At(q, "reclaim") /\ (InSection(q) => q = p)
  BY DEF LockInv
<1>3. /\ \A q \in Procs : ~InSection(q)' /\ ~At(q, "reclaim")'
      /\ \A q \in Procs : Reclaiming(q)' => Reclaiming(q)
  BY <1>1, <1>2 DEF InSection, At, Reclaiming
<1> QED BY <1>3 DEF LockInv

LEMMA LockStep ==
  ASSUME "slow" \notin Faults, "race" \notin Faults, TypeOK, LockInv, [Next]_vars
  PROVE  LockInv'
<1> USE DEF TypeOK, Labels, Inside, InSection
<1>1. ASSUME NEW p \in Procs, NEW b \in Beads, NEW v \in 0..Texts, Change(p, b, v)
      PROVE  LockInv'
  <2>1. MoveTo(p, "mark") /\ UNCHANGED locked
    BY <1>1 DEF Change, Call
  <2> QED BY <2>1, Moved
<1>2. ASSUME NEW p \in Procs, Checkpoint(p) PROVE LockInv'
  <2>1. MoveTo(p, "mark") /\ UNCHANGED locked
    BY <1>2 DEF Checkpoint, Call
  <2> QED BY <2>1, Moved
<1>3. ASSUME NEW p \in Procs, AskReconcile(p) PROVE LockInv'
  <2>1. MoveTo(p, "enqueue") /\ UNCHANGED locked
    BY <1>3 DEF AskReconcile
  <2> QED BY <2>1, Moved
<1>4. ASSUME NEW p \in Procs, MarkRead(p) PROVE LockInv'
  <2>1. MoveTo(p, after[p]) /\ UNCHANGED locked
    BY <1>4 DEF MarkRead
  <2> QED BY <2>1, Moved
<1>5. ASSUME NEW p \in Procs, MarkWrite(p) PROVE LockInv'
  <2>1. MoveTo(p, "enqueue") /\ UNCHANGED locked
    BY <1>5 DEF MarkWrite
  <2> QED BY <2>1, Moved
<1>6. ASSUME NEW p \in Procs, CheckpointWrite(p) PROVE LockInv'
  <2>1. MoveTo(p, "idle") /\ UNCHANGED locked
    BY <1>6 DEF CheckpointWrite, Done
  <2> QED BY <2>1, Moved
<1>7. ASSUME NEW p \in Procs, EnqueueRead(p) PROVE LockInv'
  <2>1. MoveTo(p, "enqueueWrite") /\ UNCHANGED locked
    BY <1>7 DEF EnqueueRead
  <2> QED BY <2>1, Moved
<1>8. ASSUME NEW p \in Procs, EnqueueWrite(p) PROVE LockInv'
  <2>1. MoveTo(p, after[p]) /\ UNCHANGED locked
    BY <1>8 DEF EnqueueWrite, Return
  <2> QED BY <2>1, Moved
<1>9. ASSUME NEW p \in Procs, Acquire(p) PROVE LockInv'
  BY <1>9, Taken DEF Acquire
<1>10. ASSUME NEW p \in Procs, LockHeld(p) PROVE LockInv'
  <2>1. MoveTo(p, "enqueue") /\ UNCHANGED locked
    BY <1>10 DEF LockHeld, Forget
  <2> QED BY <2>1, Moved
<1>11. ASSUME NEW p \in Procs, FindStale(p) PROVE LockInv'
  <2>1. /\ lock # Nobody /\ stale /\ UNCHANGED locked
        /\ \A o \in Procs : ~Reclaiming(o)
    BY <1>11 DEF FindStale
  <2>2. \A q \in Procs : pc'[q] = IF q = p THEN "reclaim" ELSE pc[q]
    BY <1>11 DEF FindStale, Goto, MoveTo
  <2>3. \A q \in Procs : (InSection(q)' => InSection(q)) /\ (Reclaiming(q)' => q = p)
    BY <2>1, <2>2 DEF Reclaiming
  <2> QED BY <2>1, <2>3 DEF LockInv, Reclaiming, At, locked
<1>12. ASSUME NEW p \in Procs, Unlink(p) PROVE LockInv'
  <2>1. Reclaiming(p) /\ (\A q \in Procs : ~InSection(q))
    BY <1>12 DEF Unlink, LockInv, Reclaiming, At
  <2>2. \A q \in Procs : pc'[q] = IF q = p THEN "recreate" ELSE pc[q]
    BY <1>12 DEF Unlink, Goto, MoveTo
  <2>3. \A q \in Procs : ~InSection(q)' /\ (Reclaiming(q)' => q = p)
    BY <2>1, <2>2 DEF LockInv, Reclaiming
  <2>4. \A q \in Procs : ~At(q, "reclaim")'
    BY <2>2, <2>3 DEF At, Reclaiming
  <2> QED BY <2>3, <2>4 DEF LockInv
<1>13. ASSUME NEW p \in Procs, Recreate(p) PROVE LockInv'
  <2>1. CASE lock = Nobody
    BY <1>13, <2>1, Taken DEF Recreate
  <2>2. CASE lock # Nobody
    <3>1. MoveTo(p, "enqueue") /\ UNCHANGED locked
      BY <1>13, <2>2 DEF Recreate, Forget
    <3> QED BY <3>1, Moved
  <2> QED BY <2>1, <2>2
<1>14. ASSUME NEW p \in Procs, Release(p) PROVE LockInv'
  <2>1. MoveTo(p, after[p]) /\ lock' = Nobody /\ stale' = FALSE
    BY <1>14 DEF Release, Return
  <2>2. InSection(p)
    BY <1>14 DEF Release, At
  <2> QED BY <2>1, <2>2, Freed
<1>15. ASSUME NEW p \in Procs, StartJob(p) PROVE LockInv'
  <2>1. MoveTo(p, "acquire") /\ UNCHANGED locked
    BY <1>15 DEF StartJob
  <2> QED BY <2>1, Moved
<1>16. ASSUME NEW p \in Procs, DeltaUnsupported(p) PROVE LockInv'
  <2>1. MoveTo(p, "acquire") /\ lock' = Nobody /\ stale' = FALSE
    BY <1>16 DEF DeltaUnsupported
  <2>2. InSection(p)
    BY <1>16 DEF DeltaUnsupported, At
  <2> QED BY <2>1, <2>2, Freed
<1>17. ASSUME NEW p \in Procs, Compute(p) PROVE LockInv'
  <2>1. MoveTo(p, "rows") /\ UNCHANGED locked
    BY <1>17 DEF Compute
  <2>2. InSection(p)
    BY <1>17 DEF Compute, At, CanCompute
  <2> QED BY <2>1, <2>2, Moved
<1>18. ASSUME NEW p \in Procs, NEW done \in SUBSET Beads, ComputeFails(p, done)
      PROVE  LockInv'
  <2>1. PICK l \in {"rows", "release"} : MoveTo(p, l)
    BY <1>18 DEF ComputeFails, Forget
  <2>2. InSection(p) /\ UNCHANGED locked
    BY <1>18 DEF ComputeFails, CanCompute, At
  <2> QED BY <2>1, <2>2, Moved
<1>19. ASSUME NEW p \in Procs, NEW n \in Beads, RowsStart(p, n) PROVE LockInv'
  <2>1. MoveTo(p, "rowsEnd") /\ UNCHANGED locked
    BY <1>19 DEF RowsStart, Goto
  <2>2. InSection(p)
    BY <1>19 DEF RowsStart, At
  <2> QED BY <2>1, <2>2, Moved
<1>20. ASSUME NEW p \in Procs, RowsEnd(p) PROVE LockInv'
  <2>1. MoveTo(p, "publish") /\ UNCHANGED locked
    BY <1>20 DEF RowsEnd, Goto
  <2>2. InSection(p)
    BY <1>20 DEF RowsEnd, At
  <2> QED BY <2>1, <2>2, Moved
<1>21. ASSUME NEW p \in Procs, Publish(p) PROVE LockInv'
  <2>1. PICK l \in {"consume", "release"} : MoveTo(p, l)
    BY <1>21 DEF Publish, Forget
  <2>2. InSection(p) /\ UNCHANGED locked
    BY <1>21 DEF Publish, At
  <2> QED BY <2>1, <2>2, Moved
<1>22. ASSUME NEW p \in Procs, Consume(p) PROVE LockInv'
  <2>1. MoveTo(p, "release") /\ UNCHANGED locked
    BY <1>22 DEF Consume, Goto
  <2>2. InSection(p)
    BY <1>22 DEF Consume, At
  <2> QED BY <2>1, <2>2, Moved
<1>23. ASSUME NEW p \in Procs, LookupMissing(p) PROVE LockInv'
  <2>1. MoveTo(p, "enqueue") /\ UNCHANGED locked
    BY <1>23 DEF LookupMissing, Call
  <2> QED BY <2>1, Moved
<1>24. ASSUME NEW p \in Procs, BuildOnRead(p) PROVE LockInv'
  <2>1. MoveTo(p, "acquire") /\ UNCHANGED locked
    BY <1>24 DEF BuildOnRead, Call
  <2> QED BY <2>1, Moved
<1>25. ASSUME NEW p \in Procs, LookupManifest(p) PROVE LockInv'
  <2>1. MoveTo(p, "lookupRows") /\ UNCHANGED locked
    BY <1>25 DEF LookupManifest
  <2> QED BY <2>1, Moved
<1>26. ASSUME NEW p \in Procs, LookupRows(p) PROVE LockInv'
  <2>1. MoveTo(p, "check") /\ UNCHANGED locked
    BY <1>26 DEF LookupRows
  <2> QED BY <2>1, Moved
<1>27. ASSUME NEW p \in Procs, AnswerClean(p) PROVE LockInv'
  <2>1. MoveTo(p, "idle") /\ UNCHANGED locked
    BY <1>27 DEF AnswerClean, Done
  <2> QED BY <2>1, Moved
<1>28. ASSUME NEW p \in Procs, AnswerStale(p) PROVE LockInv'
  <2>1. MoveTo(p, "enqueue") /\ UNCHANGED locked
    BY <1>28 DEF AnswerStale, Forget
  <2> QED BY <2>1, Moved
<1>29. ASSUME NEW p \in Procs, AnswerEmpty(p) PROVE LockInv'
  <2>1. MoveTo(p, "enqueue") /\ UNCHANGED locked
    BY <1>29 DEF AnswerEmpty
  <2> QED BY <2>1, Moved
<1>30. ASSUME NEW p \in Procs, Kill(p) PROVE LockInv'
  <2>1. MoveTo(p, "idle") /\ UNCHANGED locked
    BY <1>30 DEF Kill, Done
  <2> QED BY <2>1, Moved
<1>31. ASSUME LockAges PROVE LockInv'
  <2>1. /\ lock # Nobody /\ lock' = lock /\ stale' /\ pc' = pc
        /\ \A p \in Procs : ~InSection(p)
    BY <1>31 DEF LockAges, me
  <2> QED BY <2>1 DEF LockInv, Reclaiming, At
<1>32. CASE UNCHANGED vars
  BY <1>32 DEF vars, me, locked, LockInv, Reclaiming, At
<1> QED
  BY <1>1, <1>2, <1>3, <1>4, <1>5, <1>6, <1>7, <1>8, <1>9, <1>10, <1>11,
     <1>12, <1>13, <1>14, <1>15, <1>16, <1>17, <1>18, <1>19, <1>20,
     <1>21, <1>22, <1>23, <1>24, <1>25, <1>26, <1>27, <1>28, <1>29,
     <1>30, <1>31, <1>32
     DEF Next, Write, Enqueue, Lock, Build, Lookup

-----------------------------------------------------------------------------
(* The index and the corpus                                                 *)

\* p touches neither the corpus nor the index nor the manifest, ends outside
\* the steps in between, and remembers at most the manifest.
Quiet(p) ==
    /\ UNCHANGED <<backend, corpus, manifest, made, rows, vectors>>
    /\ \A q \in Procs : q # p => /\ pc'[q] = pc[q] /\ copy'[q] = copy[q]
                                 /\ seen'[q] = seen[q] /\ good'[q] = good[q]
    /\ pc'[p] \notin {"rows", "rowsEnd", "publish", "check"} /\ ~good'[p]
    /\ copy'[p] \in {copy[p], manifest, NoManifest}

LEMMA QuietStep ==
  ASSUME TypeOK, FreshInv, VectorInv, NEW p \in Procs, Quiet(p)
  PROVE  FreshInv' /\ VectorInv'
<1>1. NoManifest.print = NoPrint /\ ~NoManifest.ready /\ corpus # NoPrint
  BY AbsentAssumption DEF TypeOK, NoManifest
<1>2. Known' => Known
  BY <1>1 DEF Quiet, Known
<1>3. ~Writing(p)' /\ ~At(p, "rowsEnd")' /\ ~At(p, "publish")' /\ ~At(p, "check")'
  BY DEF Quiet, Writing, At
<1>4. \A q \in Procs : q # p => (Writing(q)' <=> Writing(q))
  BY DEF Quiet, Writing
<1>5. FreshInv'
  BY <1>1, <1>2, <1>3, <1>4 DEF FreshInv, Quiet, At, PartOf, Older
<1>6. VectorsDone' = VectorsDone /\ VectorsFor(rows)' = VectorsFor(rows)
      /\ NotNewer(rows, corpus)' = NotNewer(rows, corpus)
      /\ \A q \in Procs : q # p => VectorsFor(seen[q])' = VectorsFor(seen[q])
  BY DEF Quiet, VectorsDone, VectorsFor, NotNewer
<1>7. VectorInv'
  BY <1>1, <1>3, <1>4, <1>6 DEF VectorInv, Quiet
<1> QED BY <1>5, <1>7

\* A writer puts its copy of the manifest back.
LEMMA CopyBackStep ==
  ASSUME TypeOK, FreshInv, VectorInv, NEW p \in Procs, MarkWrite(p) \/ CheckpointWrite(p)
  PROVE  FreshInv' /\ VectorInv'
<1>1. NoManifest.print = NoPrint /\ ~NoManifest.ready /\ corpus # NoPrint
  BY AbsentAssumption DEF TypeOK, NoManifest
<1>2. /\ UNCHANGED <<backend, corpus, made, rows, vectors>>
      /\ manifest'.print = copy[p].print /\ manifest'.ready = copy[p].ready
  BY DEF MarkWrite, CheckpointWrite, index
<1>3. /\ pc'[p] \in {"enqueue", "idle"} /\ ~good'[p] /\ copy'[p] = NoManifest
      /\ \A q \in Procs : q # p => /\ pc'[q] = pc[q] /\ copy'[q] = copy[q]
                                   /\ seen'[q] = seen[q] /\ good'[q] = good[q]
  BY DEF MarkWrite, CheckpointWrite, Done, MoveTo, Resume, Clear, TypeOK
<1>4. Known' => Known
  BY <1>1, <1>2, <1>3 DEF Known
<1>5. ~Writing(p)' /\ ~At(p, "rowsEnd")' /\ ~At(p, "publish")' /\ ~At(p, "check")'
  BY <1>3 DEF Writing, At
<1>6. \A q \in Procs : q # p => (Writing(q)' <=> Writing(q))
  BY <1>3 DEF Writing
<1>7. FreshInv'
  BY <1>1, <1>2, <1>3, <1>4, <1>5, <1>6 DEF FreshInv, At, PartOf, Older
<1>8. VectorsDone' = VectorsDone /\ VectorsFor(rows)' = VectorsFor(rows)
      /\ NotNewer(rows, corpus)' = NotNewer(rows, corpus)
      /\ \A q \in Procs : q # p => VectorsFor(seen[q])' = VectorsFor(seen[q])
  BY <1>2, <1>3 DEF VectorsDone, VectorsFor, NotNewer
<1>9. VectorInv'
  BY <1>1, <1>2, <1>3, <1>5, <1>6, <1>8 DEF VectorInv
<1> QED BY <1>7, <1>9

\* A lookup reads the rows: if its copy of the manifest is of this corpus, so
\* are they.
LEMMA RowsReadStep ==
  ASSUME TypeOK, FreshInv, VectorInv, NEW p \in Procs, LookupRows(p)
  PROVE  FreshInv' /\ VectorInv'
<1>1. UNCHANGED <<backend, corpus, manifest, made, rows, vectors, copy, good>>
  BY DEF LookupRows, index
<1>2. /\ pc'[p] = "check" /\ seen'[p] = rows
      /\ \A q \in Procs : q # p => pc'[q] = pc[q] /\ seen'[q] = seen[q]
  BY DEF LookupRows, MoveTo, TypeOK
<1>3. (Known' <=> Known) /\ ~Writing(p) /\ ~Writing(p)'
  BY <1>1, <1>2 DEF Known, LookupRows, Writing, At
<1>4. \A q \in Procs : q # p => (Writing(q)' <=> Writing(q))
  BY <1>2 DEF Writing
<1>5. copy[p].print = corpus => PartOf(rows, corpus)
  BY DEF FreshInv, Known
<1>6. FreshInv'
  BY <1>1, <1>2, <1>3, <1>4, <1>5 DEF FreshInv, At, PartOf, Older
<1>7. VectorsDone' = VectorsDone /\ VectorsFor(rows)' = VectorsFor(rows)
      /\ NotNewer(rows, corpus)' = NotNewer(rows, corpus)
      /\ \A q \in Procs : q # p => VectorsFor(seen[q])' = VectorsFor(seen[q])
  BY <1>1, <1>2 DEF VectorsDone, VectorsFor, NotNewer
<1>8. VectorInv'
  BY <1>1, <1>2, <1>3, <1>4, <1>7 DEF VectorInv
<1> QED BY <1>6, <1>8

\* Without "undo" a changed corpus is one that nothing remembers.
LEMMA ChangeStep ==
  ASSUME "undo" \notin Faults, TypeOK, FreshInv, VectorInv,
         NEW p \in Procs, NEW b \in Beads, NEW v \in 0..Texts, Change(p, b, v)
  PROVE  FreshInv' /\ VectorInv'
<1>1. /\ corpus' = [corpus EXCEPT ![b] = v] /\ corpus' \in Corpora
      /\ corpus[b] # Hidden /\ (v = Hidden \/ v > corpus[b])
  BY DEF Change, NewText, TypeOK, Corpora
<1>2. UNCHANGED <<backend, manifest, made, rows, vectors, copy, seen, good>>
  BY DEF Change, Call, data, index
<1>3. ~Writing(p) /\ ~Writing(p)'
      /\ ~At(p, "rowsEnd")' /\ ~At(p, "publish")' /\ ~At(p, "check")'
      /\ \A q \in Procs : q # p => pc'[q] = pc[q]
  BY DEF Change, Begins, Call, MoveTo, Writing, At, TypeOK
<1>4. \A q \in Procs : q # p => (Writing(q)' <=> Writing(q))
  BY <1>3 DEF Writing
<1>5. ASSUME NEW c \in Corpora, Older(c, corpus) PROVE Older(c, corpus') /\ c # corpus'
  BY <1>1, <1>5 DEF Older, Corpora, Hidden, TypeOK
<1>6. manifest.print # corpus' /\ \A q \in Procs : copy[q].print # corpus'
  <2>1. corpus' # NoPrint
    BY <1>1, AbsentAssumption
  <2>2. manifest.print \in Corpora => manifest.print # corpus'
    BY <1>5, AbsentAssumption DEF FreshInv
  <2>3. \A q \in Procs : copy[q].print \in Corpora => copy[q].print # corpus'
    BY <1>5, AbsentAssumption DEF FreshInv
  <2>4. /\ manifest.print \in Corpora \cup {NoPrint}
        /\ \A q \in Procs : copy[q].print \in Corpora \cup {NoPrint}
    BY DEF TypeOK, Manifest
  <2> QED BY <2>1, <2>2, <2>3, <2>4
<1>7. ~Known'
  BY <1>2, <1>6 DEF Known
<1>8. FreshInv'
  <2>1. manifest'.print # NoPrint => Older(manifest'.print, corpus')
    BY <1>2, <1>5 DEF FreshInv, TypeOK, Manifest
  <2>2. ASSUME NEW q \in Procs
        PROVE  /\ copy'[q].print # NoPrint => Older(copy'[q].print, corpus')
               /\ Writing(q)' => Older(seen'[q], corpus')
    BY <1>2, <1>3, <1>4, <1>5 DEF FreshInv, TypeOK, Manifest
  <2>3. ASSUME NEW q \in Procs
        PROVE  /\ At(q, "rowsEnd")' => PartOf(rows', seen'[q])
               /\ At(q, "publish")' => rows' = seen'[q]
    BY <1>2, <1>3 DEF FreshInv, At, PartOf
  <2> QED BY <1>2, <1>6, <1>7, <2>1, <2>2, <2>3 DEF FreshInv
<1>9. NotNewer(rows, corpus)' /\ (backend = "external" => VectorsFor(rows)')
  BY <1>1, <1>2 DEF VectorInv, NotNewer, VectorsFor, TypeOK, Corpora, Hidden
<1>10. ASSUME NEW q \in Procs, Writing(q)', backend = "external"
       PROVE  VectorsFor(seen[q])'
  <2>1. Older(seen[q], corpus) /\ VectorsFor(seen[q])
    BY <1>3, <1>4, <1>10 DEF FreshInv, VectorInv
  <2> QED BY <1>1, <1>2, <2>1 DEF Older, VectorsFor, TypeOK, Corpora, Hidden
<1>11. ASSUME NEW q \in Procs, Writing(q)' PROVE seen[q] # corpus'
  BY <1>3, <1>4, <1>5, <1>11 DEF FreshInv, TypeOK
<1>12. VectorInv'
  <2>1. ~(manifest'.ready /\ manifest'.print = corpus')
    BY <1>2, <1>6
  <2>2. ASSUME NEW q \in Procs
        PROVE  /\ ~(copy'[q].ready /\ copy'[q].print = corpus')
               /\ ~(Writing(q)' /\ good'[q] /\ seen'[q] = corpus')
               /\ Writing(q)' /\ backend' = "external" => good'[q]
               /\ good'[q] => Writing(q)'
    BY <1>2, <1>3, <1>4, <1>6, <1>11 DEF VectorInv
  <2> QED BY <1>2, <1>9, <1>10, <2>1, <2>2 DEF VectorInv
<1> QED BY <1>8, <1>12

LEMMA Alone ==
  ASSUME LockInv, NEW p \in Procs, InSection(p), NEW q \in Procs, InSection(q)
  PROVE  q = p
BY DEF LockInv

\* A builder has read the corpus and stored a vector for all that is visible:
\* what a delta leaves out is what the rows show, and has its vector.
LEMMA ComputeStep ==
  ASSUME TypeOK, LockInv, FreshInv, VectorInv, NEW p \in Procs, Compute(p)
  PROVE  FreshInv' /\ VectorInv'
<1>1. /\ UNCHANGED <<backend, corpus, manifest, made, rows, copy>>
      /\ seen'[p] = corpus /\ good'[p] = TRUE /\ pc'[p] = "rows"
      /\ \A q \in Procs : q # p => /\ pc'[q] = pc[q] /\ seen'[q] = seen[q]
                                   /\ good'[q] = good[q]
  BY DEF Compute, MoveTo, TypeOK
<1>2. InSection(p) /\ ~Writing(p)
  BY DEF Compute, CanCompute, At, InSection, Inside, Writing
<1>3. \A q \in Procs : q # p => ~Writing(q) /\ ~Writing(q)'
  BY <1>1, <1>2, Alone DEF Writing, InSection, Inside
<1>4. Older(corpus, corpus)
  BY DEF Older, TypeOK, Corpora, Hidden
<1>5. Known' <=> Known
  BY <1>1 DEF Known
<1>6. FreshInv'
  BY <1>1, <1>3, <1>4, <1>5 DEF FreshInv, At, PartOf, Older
<1>7. VectorsDone'
  <2>1. CASE backend = "faiss"
    BY <1>1, <2>1 DEF Compute, VectorsDone
  <2>2. CASE backend # "faiss"
    <3>1. backend = "external"
      BY <2>2, SemanticAssumption DEF TypeOK
    <3>2. \A b \in Beads : corpus[b] # Hidden /\ b \notin ToStore(p) => vectors[b] = corpus[b]
      BY <3>1 DEF VectorInv, VectorsFor, ToStore, TypeOK
    <3>3. vectors' = [b \in Beads |-> IF b \in ToStore(p) \cup ToDelete(p)
                                        THEN corpus[b] ELSE vectors[b]]
      BY <2>2 DEF Compute, Stored
    <3> QED BY <1>1, <3>2, <3>3 DEF VectorsDone
  <2> QED BY <2>1, <2>2
<1>8. VectorsFor(rows)' /\ VectorsFor(seen[p])' /\ NotNewer(rows, corpus)'
  BY <1>1, <1>7 DEF VectorInv, VectorsDone, VectorsFor, NotNewer
<1>9. VectorInv'
  BY <1>1, <1>3, <1>7, <1>8 DEF VectorInv, Writing
<1> QED BY <1>6, <1>9

\* An interrupted run has stored some vectors of the corpus and spoilt none.
LEMMA ComputeFailsStep ==
  ASSUME "outage" \notin Faults, TypeOK, LockInv, FreshInv, VectorInv,
         NEW p \in Procs, NEW done \in SUBSET Beads, ComputeFails(p, done)
  PROVE  FreshInv' /\ VectorInv'
<1>1. /\ UNCHANGED <<backend, corpus, manifest, made, rows>>
      /\ vectors' = [b \in Beads |-> IF b \in done THEN corpus[b] ELSE vectors[b]]
  BY DEF ComputeFails, Stored
<1>2. InSection(p) /\ ~Writing(p) /\ ~good[p]
  BY DEF ComputeFails, CanCompute, At, InSection, Inside, Writing, VectorInv
<1>3. \A q \in Procs : q # p => /\ pc'[q] = pc[q] /\ copy'[q] = copy[q]
                                /\ seen'[q] = seen[q] /\ good'[q] = good[q]
  BY DEF ComputeFails, Forget, Clear, MoveTo, TypeOK
<1>4. \A q \in Procs : q # p => ~Writing(q) /\ ~Writing(q)'
  BY <1>2, <1>3, Alone DEF Writing, InSection, Inside
<1>5. /\ ~good'[p] /\ copy'[p] \in {copy[p], NoManifest}
      /\ \/ pc'[p] = "rows" /\ seen'[p] = corpus /\ backend # "external"
         \/ pc'[p] = "release"
  <2>1. CASE kind[p] = "build"
    BY <1>2, <2>1 DEF ComputeFails, MoveTo, TypeOK
  <2>2. CASE kind[p] = "delta"
    <3>1. Forget(p, "release")
      BY <2>2 DEF ComputeFails
    <3> QED BY <3>1 DEF Forget, Clear, MoveTo, TypeOK
  <2> QED BY <2>1, <2>2 DEF TypeOK
<1>6. NoManifest.print = NoPrint /\ ~NoManifest.ready /\ corpus # NoPrint
  BY AbsentAssumption DEF TypeOK, NoManifest
<1>7. Known' => Known
  BY <1>1, <1>3, <1>5, <1>6 DEF Known
<1>8. Older(corpus, corpus)
  BY DEF Older, TypeOK, Corpora, Hidden
<1>9. /\ ~At(p, "rowsEnd")' /\ ~At(p, "publish")' /\ ~At(p, "check")'
      /\ Writing(p)' => seen'[p] = corpus /\ backend # "external"
  BY <1>5 DEF Writing, At
<1>10. FreshInv'
  BY <1>1, <1>3, <1>4, <1>5, <1>6, <1>7, <1>8, <1>9 DEF FreshInv, At, PartOf, Older
<1>11. /\ VectorsDone => VectorsDone'
       /\ VectorsFor(rows) => VectorsFor(rows)'
       /\ NotNewer(rows, corpus) => NotNewer(rows, corpus)'
  BY <1>1 DEF VectorsDone, VectorsFor, NotNewer
<1>12. VectorInv'
  BY <1>1, <1>3, <1>4, <1>5, <1>6, <1>9, <1>11 DEF VectorInv
<1> QED BY <1>10, <1>12

\* The row file is written from what the builder has read, whole or in part.
LEMMA RowsWrittenStep ==
  ASSUME TypeOK, LockInv, FreshInv, VectorInv, NEW p \in Procs,
         (\E n \in Beads : RowsStart(p, n)) \/ RowsEnd(p)
  PROVE  FreshInv' /\ VectorInv'
<1>1. /\ UNCHANGED <<backend, corpus, manifest, vectors, copy, seen, good>>
      /\ \A b \in Beads : rows'[b] = Hidden \/ rows'[b] = seen[p][b]
      /\ \A q \in Procs : q # p => pc'[q] = pc[q]
  BY DEF RowsStart, RowsEnd, Goto, data, MoveTo, TypeOK, Corpora
<1>2. \/ pc'[p] = "rowsEnd"
      \/ pc'[p] = "publish" /\ rows' = seen[p]
  BY DEF RowsStart, RowsEnd, Goto, MoveTo, TypeOK
<1>3. InSection(p) /\ Writing(p)
  BY DEF RowsStart, RowsEnd, At, InSection, Inside, Writing
<1>4. \A q \in Procs : q # p => ~Writing(q) /\ ~Writing(q)'
  BY <1>1, <1>3, Alone DEF Writing, InSection, Inside
<1>5. (Known' <=> Known) /\ ~At(p, "check")'
  BY <1>1, <1>2 DEF Known, At
<1>6. PartOf(rows', seen[p]) /\ (Known => seen[p] = corpus) /\ Older(seen[p], corpus)
  BY <1>1, <1>3 DEF PartOf, FreshInv
<1>7. FreshInv'
  <2>1. \A q \in Procs : q # p => ~At(q, "rowsEnd")' /\ ~At(q, "publish")'
    BY <1>4 DEF Writing, At
  <2>2. Known' => PartOf(rows', corpus')
    BY <1>1, <1>5, <1>6 
  <2>3. ASSUME NEW q \in Procs
        PROVE  /\ copy'[q].print # NoPrint => Older(copy'[q].print, corpus')
               /\ Writing(q)' => Older(seen'[q], corpus')
               /\ Writing(q)' /\ Known' => seen'[q] = corpus'
               /\ At(q, "rowsEnd")' => PartOf(rows', seen'[q])
               /\ At(q, "publish")' => rows' = seen'[q]
               /\ At(q, "check")' /\ copy'[q].print = corpus' => PartOf(seen'[q], corpus')
    BY <1>1, <1>2, <1>4, <1>5, <1>6, <2>1 DEF FreshInv, At
  <2> QED BY <1>1, <2>2, <2>3 DEF FreshInv
<1>8. NotNewer(rows, corpus)'
  <2>1. \A b \in Beads : corpus[b] \in Nat /\ seen[p][b] \in Nat
    BY SemanticAssumption DEF TypeOK, Corpora
  <2> QED BY <1>1, <1>6, <2>1 DEF NotNewer, Older, Hidden
<1>9. /\ VectorsDone' <=> VectorsDone
      /\ VectorsFor(seen[p]) => VectorsFor(rows)'
      /\ VectorsFor(seen[p]) => VectorsFor(seen[p])'
  BY <1>1 DEF VectorsDone, VectorsFor
<1>10. VectorInv'
  <2>1. manifest'.ready /\ manifest'.print = corpus' => VectorsDone'
    BY <1>1, <1>9 DEF VectorInv
  <2>2. backend' = "external" => VectorsFor(rows)' /\ VectorsFor(seen[p])'
    BY <1>1, <1>3, <1>9 DEF VectorInv
  <2>3. ASSUME NEW q \in Procs
        PROVE  /\ copy'[q].ready /\ copy'[q].print = corpus' => VectorsDone'
               /\ Writing(q)' /\ good'[q] /\ seen'[q] = corpus' => VectorsDone'
               /\ Writing(q)' /\ backend' = "external" => good'[q]
               /\ good'[q] => Writing(q)'
    BY <1>1, <1>2, <1>3, <1>4, <1>9 DEF VectorInv, Writing
  <2> QED BY <1>4, <1>8, <2>1, <2>2, <2>3 DEF VectorInv
<1> QED BY <1>7, <1>10

\* The builder publishes what the row file now holds.
LEMMA PublishStep ==
  ASSUME TypeOK, LockInv, FreshInv, VectorInv, NEW p \in Procs, Publish(p)
  PROVE  FreshInv' /\ VectorInv'
<1>1. /\ UNCHANGED <<backend, corpus, made, rows, vectors>>
      /\ manifest'.print = seen[p] /\ manifest'.ready = good[p]
  BY DEF Publish, index
<1>2. /\ pc'[p] \in {"consume", "release"} /\ ~good'[p] /\ copy'[p] = NoManifest
      /\ \A q \in Procs : q # p => /\ pc'[q] = pc[q] /\ copy'[q] = copy[q]
                                   /\ seen'[q] = seen[q] /\ good'[q] = good[q]
  BY DEF Publish, Forget, Clear, MoveTo, TypeOK
<1>3. InSection(p) /\ Writing(p) /\ rows = seen[p]
  BY DEF Publish, At, InSection, Inside, Writing, FreshInv
<1>4. \A q \in Procs : q # p => ~Writing(q) /\ ~Writing(q)'
  BY <1>2, <1>3, Alone DEF Writing, InSection, Inside
<1>5. ~Writing(p)' /\ ~At(p, "rowsEnd")' /\ ~At(p, "publish")' /\ ~At(p, "check")'
  BY <1>2 DEF Writing, At
<1>6. NoManifest.print = NoPrint /\ ~NoManifest.ready /\ corpus # NoPrint
  BY AbsentAssumption DEF TypeOK, NoManifest
<1>7. Older(seen[p], corpus)
  BY <1>3 DEF FreshInv
<1>8. PartOf(corpus, corpus) /\ (Known' => PartOf(rows, corpus))
  BY <1>1, <1>2, <1>3, <1>6 DEF PartOf, Known, FreshInv
<1>9. FreshInv'
  <2>1. \A q \in Procs : ~At(q, "rowsEnd")' /\ ~At(q, "publish")'
    BY <1>4, <1>5 DEF Writing, At
  <2>2. ASSUME NEW q \in Procs
        PROVE  /\ copy'[q].print # NoPrint => Older(copy'[q].print, corpus')
               /\ At(q, "check")' /\ copy'[q].print = corpus' => PartOf(seen'[q], corpus')
    BY <1>1, <1>2, <1>5, <1>6 DEF FreshInv, At
  <2> QED BY <1>1, <1>4, <1>5, <1>7, <1>8, <2>1, <2>2 DEF FreshInv
<1>10. VectorsDone' = VectorsDone /\ VectorsFor(rows)' = VectorsFor(rows)
       /\ NotNewer(rows, corpus)' = NotNewer(rows, corpus)
  BY <1>1 DEF VectorsDone, VectorsFor, NotNewer
<1>11. VectorInv'
  BY <1>1, <1>2, <1>3, <1>4, <1>5, <1>6, <1>10 DEF VectorInv
<1> QED BY <1>9, <1>11

LEMMA IndexStep ==
  ASSUME "undo" \notin Faults, "outage" \notin Faults,
         TypeOK, LockInv, FreshInv, VectorInv, [Next]_vars
  PROVE  FreshInv' /\ VectorInv'
<1> USE DEF TypeOK, MoveTo, Resume, Clear, Goto, Call, Done, Forget, Return, data, index
<1>1. ASSUME NEW p \in Procs, NEW b \in Beads, NEW v \in 0..Texts, Change(p, b, v)
      PROVE  FreshInv' /\ VectorInv'
  BY <1>1, ChangeStep
<1>2. ASSUME NEW p \in Procs, Checkpoint(p)
      PROVE  FreshInv' /\ VectorInv'
  <2>1. ~good[p]
    BY <1>2 DEF Checkpoint, Begins, VectorInv, Writing, At
  <2>2. Quiet(p)
    BY <1>2, <2>1 DEF Checkpoint, Begins, Quiet
  <2> QED BY <2>2, QuietStep
<1>3. ASSUME NEW p \in Procs, AskReconcile(p)
      PROVE  FreshInv' /\ VectorInv'
  <2>1. ~good[p]
    BY <1>3 DEF AskReconcile, Begins, VectorInv, Writing, At
  <2>2. Quiet(p)
    BY <1>3, <2>1 DEF AskReconcile, Begins, Quiet
  <2> QED BY <2>2, QuietStep
<1>4. ASSUME NEW p \in Procs, MarkRead(p)
      PROVE  FreshInv' /\ VectorInv'
  <2>1. ~good[p]
    BY <1>4 DEF MarkRead, VectorInv, Writing, At
  <2>2. Quiet(p)
    BY <1>4, <2>1 DEF MarkRead, Quiet
  <2> QED BY <2>2, QuietStep
<1>5. ASSUME NEW p \in Procs, MarkWrite(p)
      PROVE  FreshInv' /\ VectorInv'
  BY <1>5, CopyBackStep
<1>6. ASSUME NEW p \in Procs, CheckpointWrite(p)
      PROVE  FreshInv' /\ VectorInv'
  BY <1>6, CopyBackStep
<1>7. ASSUME NEW p \in Procs, EnqueueRead(p)
      PROVE  FreshInv' /\ VectorInv'
  <2>1. ~good[p]
    BY <1>7 DEF EnqueueRead, VectorInv, Writing, At
  <2>2. Quiet(p)
    BY <1>7, <2>1 DEF EnqueueRead, Quiet
  <2> QED BY <2>2, QuietStep
<1>8. ASSUME NEW p \in Procs, EnqueueWrite(p)
      PROVE  FreshInv' /\ VectorInv'
  <2>1. ~good[p]
    BY <1>8 DEF EnqueueWrite, VectorInv, Writing, At
  <2>2. Quiet(p)
    BY <1>8, <2>1 DEF EnqueueWrite, Quiet
  <2> QED BY <2>2, QuietStep
<1>9. ASSUME NEW p \in Procs, Acquire(p)
      PROVE  FreshInv' /\ VectorInv'
  <2>1. ~good[p]
    BY <1>9 DEF Acquire, Take, VectorInv, Writing, At
  <2>2. Quiet(p)
    BY <1>9, <2>1 DEF Acquire, Take, Quiet
  <2> QED BY <2>2, QuietStep
<1>10. ASSUME NEW p \in Procs, LockHeld(p)
      PROVE  FreshInv' /\ VectorInv'
  <2>1. ~good[p]
    BY <1>10 DEF LockHeld, VectorInv, Writing, At
  <2>2. Quiet(p)
    BY <1>10, <2>1 DEF LockHeld, Quiet
  <2> QED BY <2>2, QuietStep
<1>11. ASSUME NEW p \in Procs, FindStale(p)
      PROVE  FreshInv' /\ VectorInv'
  <2>1. ~good[p]
    BY <1>11 DEF FindStale, VectorInv, Writing, At
  <2>2. Quiet(p)
    BY <1>11, <2>1 DEF FindStale, Quiet
  <2> QED BY <2>2, QuietStep
<1>12. ASSUME NEW p \in Procs, Unlink(p)
      PROVE  FreshInv' /\ VectorInv'
  <2>1. ~good[p]
    BY <1>12 DEF Unlink, VectorInv, Writing, At
  <2>2. Quiet(p)
    BY <1>12, <2>1 DEF Unlink, Quiet
  <2> QED BY <2>2, QuietStep
<1>13. ASSUME NEW p \in Procs, Recreate(p)
      PROVE  FreshInv' /\ VectorInv'
  <2>1. ~good[p]
    BY <1>13 DEF Recreate, VectorInv, Writing, At
  <2>2. Take(p) \/ (Forget(p, "enqueue") /\ UNCHANGED <<backend, corpus, manifest, index>>)
    BY <1>13 DEF Recreate
  <2>3. Quiet(p)
    BY <2>1, <2>2 DEF Take, Quiet
  <2> QED BY <2>3, QuietStep
<1>14. ASSUME NEW p \in Procs, Release(p)
      PROVE  FreshInv' /\ VectorInv'
  <2>1. ~good[p]
    BY <1>14 DEF Release, VectorInv, Writing, At
  <2>2. Quiet(p)
    BY <1>14, <2>1 DEF Release, Quiet
  <2> QED BY <2>2, QuietStep
<1>15. ASSUME NEW p \in Procs, StartJob(p)
      PROVE  FreshInv' /\ VectorInv'
  <2>1. ~good[p]
    BY <1>15 DEF StartJob, VectorInv, Writing, At
  <2>2. Quiet(p)
    BY <1>15, <2>1 DEF StartJob, Quiet
  <2> QED BY <2>2, QuietStep
<1>16. ASSUME NEW p \in Procs, DeltaUnsupported(p)
      PROVE  FreshInv' /\ VectorInv'
  <2>1. ~good[p]
    BY <1>16 DEF DeltaUnsupported, VectorInv, Writing, At
  <2>2. Quiet(p)
    BY <1>16, <2>1 DEF DeltaUnsupported, Quiet
  <2> QED BY <2>2, QuietStep
<1>17. ASSUME NEW p \in Procs, Compute(p)
      PROVE  FreshInv' /\ VectorInv'
  BY <1>17, ComputeStep
<1>18. ASSUME NEW p \in Procs, NEW done \in SUBSET Beads, ComputeFails(p, done)
      PROVE  FreshInv' /\ VectorInv'
  BY <1>18, ComputeFailsStep
<1>19. ASSUME NEW p \in Procs, NEW n \in Beads, RowsStart(p, n)
      PROVE  FreshInv' /\ VectorInv'
  BY <1>19, RowsWrittenStep
<1>20. ASSUME NEW p \in Procs, RowsEnd(p)
      PROVE  FreshInv' /\ VectorInv'
  BY <1>20, RowsWrittenStep
<1>21. ASSUME NEW p \in Procs, Publish(p)
      PROVE  FreshInv' /\ VectorInv'
  BY <1>21, PublishStep
<1>22. ASSUME NEW p \in Procs, Consume(p)
      PROVE  FreshInv' /\ VectorInv'
  <2>1. ~good[p]
    BY <1>22 DEF Consume, VectorInv, Writing, At
  <2>2. Quiet(p)
    BY <1>22, <2>1 DEF Consume, Quiet
  <2> QED BY <2>2, QuietStep
<1>23. ASSUME NEW p \in Procs, LookupMissing(p)
      PROVE  FreshInv' /\ VectorInv'
  <2>1. ~good[p]
    BY <1>23 DEF LookupMissing, VectorInv, Writing, At
  <2>2. Quiet(p)
    BY <1>23, <2>1 DEF LookupMissing, Quiet
  <2> QED BY <2>2, QuietStep
<1>24. ASSUME NEW p \in Procs, BuildOnRead(p)
      PROVE  FreshInv' /\ VectorInv'
  <2>1. ~good[p]
    BY <1>24 DEF BuildOnRead, VectorInv, Writing, At
  <2>2. Quiet(p)
    BY <1>24, <2>1 DEF BuildOnRead, Quiet
  <2> QED BY <2>2, QuietStep
<1>25. ASSUME NEW p \in Procs, LookupManifest(p)
      PROVE  FreshInv' /\ VectorInv'
  <2>1. ~good[p]
    BY <1>25 DEF LookupManifest, VectorInv, Writing, At
  <2>2. Quiet(p)
    BY <1>25, <2>1 DEF LookupManifest, Quiet
  <2> QED BY <2>2, QuietStep
<1>26. ASSUME NEW p \in Procs, LookupRows(p)
      PROVE  FreshInv' /\ VectorInv'
  BY <1>26, RowsReadStep
<1>27. ASSUME NEW p \in Procs, AnswerClean(p)
      PROVE  FreshInv' /\ VectorInv'
  <2>1. ~good[p]
    BY <1>27 DEF AnswerClean, VectorInv, Writing, At
  <2>2. Quiet(p)
    BY <1>27, <2>1 DEF AnswerClean, Quiet
  <2> QED BY <2>2, QuietStep
<1>28. ASSUME NEW p \in Procs, AnswerStale(p)
      PROVE  FreshInv' /\ VectorInv'
  <2>1. ~good[p]
    BY <1>28 DEF AnswerStale, VectorInv, Writing, At
  <2>2. Quiet(p)
    BY <1>28, <2>1 DEF AnswerStale, Quiet
  <2> QED BY <2>2, QuietStep
<1>29. ASSUME NEW p \in Procs, AnswerEmpty(p)
      PROVE  FreshInv' /\ VectorInv'
  <2>1. ~good[p]
    BY <1>29 DEF AnswerEmpty, VectorInv, Writing, At
  <2>2. Quiet(p)
    BY <1>29, <2>1 DEF AnswerEmpty, Quiet
  <2> QED BY <2>2, QuietStep
<1>30. ASSUME NEW p \in Procs, Kill(p)
      PROVE  FreshInv' /\ VectorInv'
  <2>1. Quiet(p)
    BY <1>30 DEF Kill, Quiet
  <2> QED BY <2>1, QuietStep
<1>31. ASSUME LockAges PROVE FreshInv' /\ VectorInv'
  BY <1>31 DEF LockAges, me, FreshInv, VectorInv, Known, Writing, At, Older, PartOf,
                  NotNewer, VectorsDone, VectorsFor
<1>32. CASE UNCHANGED vars
  BY <1>32 DEF vars, me, FreshInv, VectorInv, Known, Writing, At, Older, PartOf,
                  NotNewer, VectorsDone, VectorsFor
<1> QED
  BY <1>1, <1>2, <1>3, <1>4, <1>5, <1>6, <1>7, <1>8, <1>9, <1>10, <1>11,
     <1>12, <1>13, <1>14, <1>15, <1>16, <1>17, <1>18, <1>19, <1>20,
     <1>21, <1>22, <1>23, <1>24, <1>25, <1>26, <1>27, <1>28, <1>29,
     <1>30, <1>31, <1>32
     DEF Next, Write, Enqueue, Lock, Build, Lookup

-----------------------------------------------------------------------------
(* Theorems                                                                 *)

\* Every reachable state is well formed, whatever the faults.
THEOREM TypeCorrect == Spec => []TypeOK
<1>1. Init => TypeOK
  BY InitInv DEF Inv
<1> QED BY <1>1, TypeStep, PTL DEF Spec

\* While builds take less than 300 s and no two processes reclaim one stale lock
\* together, _acquire_build_lock lets one builder in at a time: a killed holder's
\* lock is taken over, and no release frees the lock of another builder.
THEOREM BuildersAlone ==
  ASSUME "slow" \notin Faults, "race" \notin Faults
  PROVE  Spec => []OneBuilder
<1> DEFINE L == TypeOK /\ LockInv
<1>1. Init => L
  BY InitInv DEF Inv
<1>2. L /\ [Next]_vars => L'
  BY TypeStep, LockStep
<1>3. L => OneBuilder
  BY DEF LockInv, OneBuilder
<1> QED BY <1>1, <1>2, <1>3, PTL DEF Spec

LEMMA Invariance ==
  ASSUME Faults = {}
  PROVE  Spec => []Inv
<1>1. Inv /\ [Next]_vars => Inv'
  BY TypeStep, LockStep, IndexStep DEF Inv
<1> QED BY InitInv, <1>1, PTL DEF Spec

\* Without those two faults, with new texts only, and if no full build into an
\* external store fails while it embeds: a clean, usable manifest of the present
\* corpus means that every row has the vector of its text, in either backend,
\* with any number of runs killed or failed half-way.
THEOREM RowsHaveVectors ==
  ASSUME Faults = {}
  PROVE  Spec => []ReadyRowsHaveVectors
<1>1. Inv => ReadyRowsHaveVectors
  <2> SUFFICES ASSUME Inv, manifest.ready, manifest.print = corpus
               PROVE  PartOf(rows, vectors)
    BY DEF ReadyRowsHaveVectors
  <2>1. VectorsDone /\ PartOf(rows, corpus)
    BY DEF Inv, VectorInv, FreshInv, Known
  <2> QED BY <2>1 DEF VectorsDone, PartOf
<1> QED BY Invariance, <1>1, PTL

\* Under the same assumptions semantic_lookup answers without its staleness
\* warning only from rows of the corpus of that moment.
THEOREM CleanAnswers ==
  ASSUME Faults = {}
  PROVE  Spec => CleanAnswersAreCurrent
<1>1. Inv => \A p \in Procs : AnswerClean(p) => PartOf(seen[p], corpus)
  BY DEF Inv, FreshInv, AnswerClean, LooksStale
<1>2. Inv /\ [Next]_vars =>
        [\A p \in Procs : AnswerClean(p) => PartOf(seen[p], corpus)]_vars
  BY <1>1
<1> QED BY Invariance, <1>2, PTL DEF Spec, CleanAnswersAreCurrent
=============================================================================
