--------------------------- MODULE BeadStoreProofs ----------------------------
(***************************************************************************)
(* What the bead store keeps for every set of beads, every pattern of      *)
(* rebuilds and kills and any number of revisions.  The invariant says     *)
(* the same thing of every surface a bead can be restored from, because    *)
(* each operation copies beads from one surface to another: Sound for      *)
(* type and speculative ceiling, Covered for the detail.                   *)
(***************************************************************************)
EXTENDS BeadStore, TLAPS

SoundBeads == {c \in Bead : ~(c.class = 2 /\ c.speculative)}
Verdicts == {"none", "pending", "approved", "rejected", "torn"}

Surface(f) == DOMAIN f \subseteq Beads /\ \A b \in DOMAIN f : f[b] \in SoundBeads

\* The type invariant with sound beads for beads.
Sound ==
    /\ Surface(index) /\ Surface(line) /\ Surface(scan.beads)
    /\ revs \in [Beads -> Seq(SoundBeads)]
    /\ \A b \in Beads : Len(revs[b]) <= MaxRevs
    /\ tombstones \subseteq Beads /\ retired \subseteq Beads
    /\ scan.at \in {"idle", "archive", "done"}
    /\ verdict \in [Beads -> Verdicts]
    /\ crashes \in 0..MaxCrashes

\* Archive first, a running rebuild included.
Recoverable == Indexed \subseteq Archived /\ DOMAIN scan.beads \subseteq Archived

HasDetail(b) == \E i \in 1..Len(revs[b]) : revs[b][i].detail

\* Bead b in the state c can be uncompacted: its pointer names a revision, and
\* a detail it lacks is in one.
Held(b, c) == c.ptr <= Len(revs[b]) /\ (~c.detail => HasDetail(b))

Covered(f) == \A b \in DOMAIN f : Held(b, f[b])
CoveredRevs == \A b \in Beads : \A i \in 1..Len(revs[b]) : Held(b, revs[b][i])
AllCovered == Covered(index) /\ Covered(line) /\ Covered(scan.beads) /\ CoveredRevs

Inv == Sound /\ Recoverable /\ AllCovered

-----------------------------------------------------------------------------
(* Surfaces                                                                 *)

LEMMA PutSurface ==
    ASSUME NEW f, Surface(f), NEW b \in Beads, NEW v \in SoundBeads
    PROVE  Surface(Put(f, b, v))
BY DEF Surface, Put

LEMMA ExceptSurface ==
    ASSUME NEW f, Surface(f), NEW b \in DOMAIN f, NEW v \in SoundBeads
    PROVE  Surface([f EXCEPT ![b] = v])
BY DEF Surface

LEMMA RestrictSurface ==
    ASSUME NEW f, Surface(f), NEW S \in SUBSET DOMAIN f
    PROVE  Surface(Restrict(f, S))
BY DEF Surface, Restrict

\* What the lifecycle operations do to a bead: still sound, its detail and its
\* archive pointer untouched.
Keeps(c, d) == d \in SoundBeads /\ d.detail = c.detail /\ d.ptr = c.ptr

LEMMA KeepingChanges ==
    ASSUME NEW c \in SoundBeads
    PROVE  /\ Keeps(c, [c EXCEPT !.status = "superseded"])
           /\ Keeps(c, [c EXCEPT !.status = "outdated"])
           /\ Keeps(c, [c EXCEPT !.review = "pending"])
           /\ Keeps(c, [c EXCEPT !.review = "rejected", !.status = "archived"])
           /\ Keeps(c, [c EXCEPT !.class = Higher(@, 1)])
           /\ Keeps(c, [c EXCEPT !.status = "promoted", !.promo = "promoted"])
<1>1. Higher(c.class, 1) \in 0..2 /\ (Higher(c.class, 1) = 2 => c.class = 2)
    BY DEF SoundBeads, Bead, Higher
<1> QED BY <1>1 DEF Keeps, SoundBeads, Bead

LEMMA KeepingVouched ==
    ASSUME NEW c \in SoundBeads
    PROVE  /\ Keeps(c, Vouched(c))
           /\ Keeps(c, [Vouched(c) EXCEPT !.review = "approved"])
<1> DEFINE w == [c EXCEPT !.class = 2]
           v == [w EXCEPT !.speculative = FALSE]
<1>1. c \in Bead
    BY DEF SoundBeads
<1>2. Vouched(c) = v
    BY <1>1 DEF Bead, Vouched
<1>3. w \in Bead /\ w.detail = c.detail /\ w.ptr = c.ptr
    BY <1>1 DEF Bead
<1> HIDE DEF w
<1>4. v \in Bead /\ ~v.speculative /\ v.detail = w.detail /\ v.ptr = w.ptr
    BY <1>3 DEF Bead
<1> HIDE DEF v
<1>5. v \in SoundBeads
    BY <1>4 DEF SoundBeads
<1>6. Keeps(v, [v EXCEPT !.review = "approved"])
    BY <1>5 DEF Keeps, SoundBeads, Bead
<1> QED BY <1>2, <1>3, <1>4, <1>5, <1>6 DEF Keeps

LEMMA KeepingPromotion ==
    ASSUME NEW c \in SoundBeads
    PROVE  Keeps(c, [c EXCEPT !.status = "promoted", !.promo = "promoted",
                       !.class = Resolve(c.speculative, 2)])
<1>1. /\ Resolve(c.speculative, 2) \in 0..2
      /\ Resolve(c.speculative, 2) = 2 => ~c.speculative
    BY DEF SoundBeads, Bead, Resolve
<1> QED BY <1>1 DEF Keeps, SoundBeads, Bead

\* A decision keeps or replaces the status; an archived bead is left a stub.
LEMMA KeepingDecision ==
    ASSUME NEW c \in SoundBeads,
           NEW s \in {"open", "archived", "promoted", "superseded", "outdated"}
    PROVE  /\ Keeps(c, [c EXCEPT !.promo = "candidate", !.status = s])
           /\ Keeps(c, [c EXCEPT !.status = s])
BY DEF Keeps, SoundBeads, Bead

LEMMA SoundStub ==
    ASSUME NEW c \in SoundBeads, NEW p \in 0..MaxRevs
    PROVE  LET stub == [c EXCEPT !.status = "archived", !.detail = FALSE, !.ptr = p]
           IN  /\ stub \in SoundBeads /\ stub.ptr = p
               /\ Keeps(stub, [stub EXCEPT !.promo = "none"])
<1> DEFINE stub == [c EXCEPT !.status = "archived", !.detail = FALSE, !.ptr = p]
<1>1. stub \in SoundBeads /\ stub.ptr = p
    BY DEF SoundBeads, Bead
<1> HIDE DEF stub
<1>2. Keeps(stub, [stub EXCEPT !.promo = "none"])
    BY <1>1 DEF Keeps, SoundBeads, Bead
<1> QED BY <1>1, <1>2 DEF stub

LEMMA SoundBirth ==
    ASSUME NEW b \in Beads, NEW floor \in 0..2
    PROVE  LET n == NewBead(b, floor)
           IN  n \in SoundBeads /\ n.detail = TRUE /\ n.ptr = 0
<1> DEFINE g == b \in SpeculativeAtBirth
           k == Resolve(g, floor)
           n == [status |-> "open", review |-> "none", class |-> k,
                 speculative |-> g, promo |-> "none", detail |-> TRUE, ptr |-> 0]
<1>1. NewBead(b, floor) = n
    BY DEF NewBead
<1>2. g \in BOOLEAN
    OBVIOUS
<1>3. k \in 0..2 /\ (k = 2 => ~g)
    BY DEF Resolve
<1>4. 0 \in 0..MaxRevs
    BY StoreBounds
<1> HIDE DEF g, k
<1>5. n \in Bead /\ n.class = k /\ n.speculative = g /\ n.detail = TRUE /\ n.ptr = 0
    BY <1>2, <1>3, <1>4 DEF Bead
<1> HIDE DEF n
<1>6. n \in SoundBeads
    BY <1>3, <1>5 DEF SoundBeads
<1> QED BY <1>1, <1>5, <1>6

-----------------------------------------------------------------------------
(* Steps                                                                    *)

USE DEF Indexed, Archived

\* Appending to one bead's revisions: it takes the appended bead for detail
\* if that has some, and no other bead is touched.
LEMMA ArchiveStep ==
    ASSUME Sound, AllCovered, NEW b \in Indexed, Archive(b, index[b]),
           Len(revs[b]) < MaxRevs
    PROVE  /\ revs' \in [Beads -> Seq(SoundBeads)]
           /\ \A x \in Beads : Len(revs'[x]) <= MaxRevs
           /\ \A x \in Beads : \A c \in SoundBeads : Held(x, c) => Held(x, c)'
           /\ HasDetail(b)' /\ Len(revs'[b]) = Len(revs[b]) + 1
           /\ CoveredRevs'
<1> DEFINE n == Len(revs[b]) + 1
<1>1. /\ b \in Beads /\ index[b] \in SoundBeads
      /\ revs[b] \in Seq(SoundBeads) /\ Len(revs[b]) \in Nat
    BY DEF Sound, Surface
<1>2. revs' = [revs EXCEPT ![b] = Append(revs[b], index[b])]
    BY DEF Archive
<1>3. /\ revs'[b] = Append(revs[b], index[b])
      /\ \A x \in Beads \ {b} : revs'[x] = revs[x]
    BY <1>1, <1>2 DEF Sound
<1>4. /\ Append(revs[b], index[b]) \in Seq(SoundBeads)
      /\ Len(revs'[b]) = n /\ revs'[b][n] = index[b]
      /\ \A i \in 1..Len(revs[b]) : revs'[b][i] = revs[b][i]
    BY <1>1, <1>3
<1>5. revs' \in [Beads -> Seq(SoundBeads)]
    BY <1>1, <1>2, <1>4 DEF Sound
<1>6. \A x \in Beads : Len(revs'[x]) <= MaxRevs
    BY <1>1, <1>3, <1>4, StoreBounds DEF Sound
<1>7. \A x \in Beads : HasDetail(x) => HasDetail(x)'
    BY <1>1, <1>3, <1>4 DEF HasDetail
<1>8. HasDetail(b)'
    <2>1. CASE index[b].detail
        BY <2>1, <1>1, <1>4 DEF HasDetail
    <2>2. CASE ~index[b].detail
        BY <2>2, <1>1, <1>7 DEF AllCovered, Covered, Held
    <2> QED BY <2>1, <2>2
<1>9. \A x \in Beads : \A c \in SoundBeads : Held(x, c) => Held(x, c)'
    <2> SUFFICES ASSUME NEW x \in Beads, NEW c \in SoundBeads, Held(x, c)
                 PROVE  Held(x, c)'
        OBVIOUS
    <2>1. c.ptr \in Nat /\ Len(revs[x]) \in Nat
        BY StoreBounds DEF SoundBeads, Bead, Sound
    <2>2. Len(revs[x]) <= Len(revs'[x])
        BY <2>1, <1>1, <1>3, <1>4
    <2>3. c.ptr <= Len(revs'[x])
        BY <2>1, <2>2, <1>5 DEF Held
    <2> QED BY <2>3, <1>7 DEF Held
<1>10. CoveredRevs'
    <2> SUFFICES ASSUME NEW x \in Beads, NEW i \in 1..Len(revs'[x])
                 PROVE  /\ revs'[x][i].ptr <= Len(revs'[x])
                        /\ ~revs'[x][i].detail => HasDetail(x)'
        BY DEF CoveredRevs, Held
    <2>1. CASE x = b /\ i = n
        <3>1. Held(b, index[b])
            BY <1>1 DEF AllCovered, Covered
        <3> QED BY <2>1, <3>1, <1>1, <1>4, <1>9 DEF Held
    <2>2. CASE ~(x = b /\ i = n)
        <3>1. i \in 1..Len(revs[x]) /\ revs'[x][i] = revs[x][i]
            BY <2>2, <1>1, <1>3, <1>4
        <3>2. Held(x, revs[x][i]) /\ revs[x][i] \in SoundBeads
            BY <3>1 DEF AllCovered, CoveredRevs, Sound
        <3> QED BY <3>1, <3>2, <1>9 DEF Held
    <2> QED BY <2>1, <2>2
<1> QED BY <1>4, <1>5, <1>6, <1>8, <1>9, <1>10

\* A lifecycle operation that keeps the detail.
LEMMA ChangeStep ==
    ASSUME Inv, NEW b \in Beads, NEW bead, NEW decision \in Verdicts, NEW retires \in BOOLEAN,
           b \in Indexed => Keeps(index[b], bead), Change(b, bead, decision, retires)
    PROVE  Inv'
<1> USE DEF Inv
<1>1. /\ b \in Indexed /\ bead \in SoundBeads
      /\ Held(b, bead)
    BY DEF Change, Keeps, AllCovered, Covered, Held
<1>2. /\ index' = [index EXCEPT ![b] = bead]
      /\ Indexed' = Indexed /\ index'[b] = bead
      /\ \A x \in Indexed \ {b} : index'[x] = index[x]
      /\ UNCHANGED <<revs, tombstones, scan>>
    BY <1>1 DEF Change
<1>3. \/ line' = line
      \/ line' = Put(line, b, bead)
    BY DEF Change, Snapshot
<1>4. /\ Surface(line')
      /\ \A x \in DOMAIN line' : 
            \/ x = b /\ line'[x] = bead
            \/ x \in Archived /\ line'[x] = line[x]
      /\ Archived \subseteq DOMAIN line'
    <2>1. CASE line' = line
        BY <2>1 DEF Sound, Surface
    <2>2. CASE line' = Put(line, b, bead)
        <3>1. Surface(Put(line, b, bead))
            BY <1>1, PutSurface DEF Sound
        <3> QED BY <2>2, <3>1 DEF Put
    <2> QED BY <2>1, <2>2, <1>3
<1>5. Sound'
    <2>1. Surface(index')
        BY <1>1, <1>2, ExceptSurface DEF Sound
    <2>2. verdict' \in [Beads -> Verdicts] /\ retired' \subseteq Beads /\ crashes' \in 0..MaxCrashes
        <3>1. verdict' \in [Beads -> Verdicts]
            BY DEF Change, Sound, Verdicts
        <3>2. retired' \subseteq Beads
            BY DEF Change, Sound
        <3>3. crashes' \in 0..MaxCrashes
            BY StoreBounds DEF Change, Crashing, Sound
        <3> QED BY <3>1, <3>2, <3>3
    <2> QED BY <1>2, <1>4, <2>1, <2>2 DEF Sound
<1>6. Recoverable'
    BY <1>2, <1>4 DEF Recoverable
<1>7. AllCovered'
    <2>1. \A x, c : Held(x, c)' <=> Held(x, c)
        BY <1>2 DEF HasDetail, Held
    <2>2. Covered(index)'
        BY <1>1, <1>2, <2>1 DEF AllCovered, Covered
    <2>3. Covered(line)'
        BY <1>1, <1>4, <2>1 DEF AllCovered, Covered
    <2>4. Covered(scan.beads)' /\ CoveredRevs'
        BY <1>2, <2>1 DEF AllCovered, Covered, CoveredRevs
    <2> QED BY <2>2, <2>3, <2>4 DEF AllCovered
<1> QED BY <1>5, <1>6, <1>7

\* A decision or an uncompaction: the index alone, with a sound bead whose
\* detail is there or in a revision.
LEMMA RewriteStep ==
    ASSUME Inv, NEW b \in Indexed, NEW bead \in SoundBeads,
           Held(b, bead), Rewrite(b, bead),
           UNCHANGED <<line, revs, tombstones, scan, verdict, retired, crashes>>
    PROVE  Inv'
<1> USE DEF Inv
<1>1. /\ index' = [index EXCEPT ![b] = bead]
      /\ Indexed' = Indexed /\ index'[b] = bead
      /\ \A x \in Indexed \ {b} : index'[x] = index[x]
    BY DEF Rewrite
<1>2. Sound'
    BY <1>1, ExceptSurface DEF Sound
<1>3. Recoverable'
    BY <1>1 DEF Recoverable
<1>4. AllCovered'
    <2>1. \A x, c : Held(x, c)' <=> Held(x, c)
        BY DEF HasDetail, Held
    <2> QED BY <1>1, <2>1 DEF AllCovered, Covered, CoveredRevs
<1> QED BY <1>2, <1>3, <1>4

\* Compaction and the archiving decision.
LEMMA ArchiveThenStep ==
    ASSUME Inv, NEW b \in Indexed, NEW stub \in SoundBeads,
           stub.ptr = Len(revs[b]) + 1, ArchiveThen(b, stub)
    PROVE  Inv'
<1> USE DEF Inv
<1>1. /\ Archive(b, index[b]) /\ Len(revs[b]) < MaxRevs
      /\ UNCHANGED <<line, tombstones, scan, verdict, retired>>
    BY DEF ArchiveThen
<1>2. /\ revs' \in [Beads -> Seq(SoundBeads)]
      /\ \A x \in Beads : Len(revs'[x]) <= MaxRevs
      /\ \A x \in Beads : \A c \in SoundBeads : Held(x, c) => Held(x, c)'
      /\ HasDetail(b)' /\ Len(revs'[b]) = Len(revs[b]) + 1
      /\ CoveredRevs'
    BY <1>1, ArchiveStep
<1>3. /\ Indexed' = Indexed /\ Surface(index')
      /\ \A x \in Indexed : index'[x] = index[x] \/ (x = b /\ index'[x] = stub)
    <2>1. CASE Rewrite(b, stub)
        BY <2>1, ExceptSurface DEF Rewrite, Sound
    <2>2. CASE UNCHANGED index
        BY <2>2 DEF Sound, Surface
    <2> QED BY <2>1, <2>2 DEF ArchiveThen
<1>4. crashes' \in 0..MaxCrashes
    BY StoreBounds DEF ArchiveThen, Crashing, Sound
<1>5. Sound'
    BY <1>1, <1>2, <1>3, <1>4 DEF Sound
<1>6. Recoverable'
    BY <1>1, <1>3 DEF Recoverable
<1>7. AllCovered'
    <2>1. Held(b, stub)'
        <3>1. stub.ptr <= Len(revs'[b])
            BY <1>2 DEF Sound, Surface
        <3> QED BY <1>2, <3>1 DEF Held
    <2>2. Covered(index)'
        BY <1>2, <1>3, <2>1 DEF AllCovered, Covered, Sound, Surface
    <2>3. Covered(line)' /\ Covered(scan.beads)'
        BY <1>1, <1>2 DEF AllCovered, Covered, Sound, Surface
    <2> QED BY <1>2, <2>2, <2>3 DEF AllCovered
<1> QED BY <1>5, <1>6, <1>7

LEMMA AddStep ==
    ASSUME Inv, NEW b \in Beads, NEW floor \in 0..2, AddBead(b, floor)
    PROVE  Inv'
<1> USE DEF Inv
<1> DEFINE n == NewBead(b, floor)
<1>1. n \in SoundBeads /\ Held(b, n)
    <2>1. n \in SoundBeads /\ n.detail = TRUE /\ n.ptr = 0
        BY SoundBirth
    <2> HIDE DEF n
    <2>2. 0 <= Len(revs[b])
        BY DEF Sound
    <2> QED BY <2>1, <2>2 DEF Held
<1> HIDE DEF n
<1>2. /\ line' = Put(line, b, n)
      /\ index' = index \/ index' = Put(index, b, n)
      /\ UNCHANGED <<revs, tombstones, scan, verdict, retired>>
    BY DEF AddBead, n
<1>3. Surface(line') /\ Surface(index')
    BY <1>1, <1>2, PutSurface DEF Sound, Surface
<1>4. /\ DOMAIN line' = Archived \cup {b}
      /\ \A x \in DOMAIN line' : (x = b /\ line'[x] = n) \/ (x \in Archived /\ line'[x] = line[x])
      /\ DOMAIN index' \subseteq Indexed \cup {b}
      /\ \A x \in DOMAIN index' : (x = b /\ index'[x] = n) \/ (x \in Indexed /\ index'[x] = index[x])
    BY <1>2 DEF Put
<1>5. crashes' \in 0..MaxCrashes
    BY StoreBounds DEF AddBead, Crashing, Sound
<1>6. Sound'
    BY <1>2, <1>3, <1>5 DEF Sound
<1>7. Recoverable'
    BY <1>2, <1>4 DEF Recoverable
<1>8. AllCovered'
    <2>1. \A x, c : Held(x, c)' <=> Held(x, c)
        BY <1>2 DEF HasDetail, Held
    <2> QED BY <1>1, <1>2, <1>4, <2>1 DEF AllCovered, Covered, CoveredRevs
<1> QED BY <1>6, <1>7, <1>8

LEMMA RemoveStep ==
    ASSUME Inv, NEW b \in Beads, Remove(b)
    PROVE  Inv'
<1> USE DEF Inv
<1>1. /\ b \in Indexed /\ tombstones' = tombstones \cup {b}
      /\ index' = index \/ index' = Restrict(index, Indexed \ {b})
      /\ UNCHANGED <<line, revs, scan, verdict, retired>>
    BY DEF Remove
<1>2. /\ Surface(index') /\ DOMAIN index' \subseteq Indexed
      /\ \A x \in DOMAIN index' : index'[x] = index[x]
    BY <1>1 DEF Restrict, Sound, Surface
<1>3. crashes' \in 0..MaxCrashes
    BY StoreBounds DEF Remove, Crashing, Sound
<1>4. Sound'
    BY <1>1, <1>2, <1>3 DEF Sound
<1>5. Recoverable'
    BY <1>1, <1>2 DEF Recoverable
<1>6. AllCovered'
    <2>1. \A x, c : Held(x, c)' <=> Held(x, c)
        BY <1>1 DEF HasDetail, Held
    <2> QED BY <1>1, <1>2, <2>1 DEF AllCovered, Covered, CoveredRevs
<1> QED BY <1>4, <1>5, <1>6

\* The steps of rebuild_index copy the archive, drop beads, and install.
LEMMA RebuildStep ==
    ASSUME Inv, ReadArchive \/ ReadTombstones \/ WriteRebuild \/ RebuildProjection
    PROVE  Inv'
<1> USE DEF Inv
<1>1. /\ UNCHANGED <<line, revs, tombstones, verdict, retired, crashes>>
      /\ \A x, c : Held(x, c)' <=> Held(x, c)
    BY DEF ReadArchive, ReadTombstones, WriteRebuild, RebuildProjection, HasDetail, Held
<1>2. /\ Surface(index') /\ Covered(index)'
      /\ DOMAIN index' \subseteq Archived
    <2>1. CASE UNCHANGED index
        BY <1>1, <2>1 DEF Sound, Surface, AllCovered, Covered, Recoverable
    <2>2. CASE index' = scan.beads
        BY <1>1, <2>2 DEF Sound, Surface, AllCovered, Covered, Recoverable
    <2>3. CASE index' = line
        BY <1>1, <2>3 DEF Sound, Surface, AllCovered, Covered
    <2> QED BY <2>1, <2>2, <2>3
        DEF ReadArchive, ReadTombstones, WriteRebuild, RebuildProjection
<1>3. /\ scan'.at \in {"idle", "archive", "done"}
      /\ Surface(scan'.beads) /\ Covered(scan.beads)'
      /\ DOMAIN scan'.beads \subseteq Archived
    <2>1. CASE UNCHANGED scan
        BY <1>1, <2>1 DEF Sound, Surface, AllCovered, Covered, Recoverable
    <2>2. CASE ReadArchive
        BY <1>1, <2>2 DEF ReadArchive, Sound, Surface, AllCovered, Covered
    <2>3. CASE ReadTombstones
        <3>1. /\ scan'.at = "done"
              /\ scan'.beads = Restrict(scan.beads, DOMAIN scan.beads \ tombstones)
            BY <2>3 DEF ReadTombstones
        <3> QED BY <1>1, <3>1 DEF Restrict, Sound, Surface, AllCovered, Covered, Recoverable
    <2>4. CASE WriteRebuild
        <3>1. scan'.at = "idle" /\ DOMAIN scan'.beads = {}
            BY <2>4 DEF WriteRebuild, Idle
        <3> QED BY <3>1 DEF Surface, Covered
    <2> QED BY <2>1, <2>2, <2>3, <2>4 DEF RebuildProjection
<1>4. Sound'
    BY <1>1, <1>2, <1>3 DEF Sound
<1>5. Recoverable'
    BY <1>1, <1>2, <1>3 DEF Recoverable
<1>6. AllCovered'
    BY <1>1, <1>2, <1>3 DEF AllCovered, Covered, CoveredRevs
<1> QED BY <1>4, <1>5, <1>6

LEMMA LifecycleStep ==
    ASSUME Inv, NEW b \in Beads, Lifecycle(b)
    PROVE  Inv'
<1> USE DEF Inv
<1>1. b \in Indexed /\ index[b] \in SoundBeads
    BY DEF Lifecycle, Supersede, MarkOutdated, Confirm, RequestApproval, Approve,
           Reject, Recall, Promote, Change, Sound, Surface
<1>2. verdict[b] \in Verdicts
    BY DEF Sound
<1>3. "pending" \in Verdicts /\ "approved" \in Verdicts /\ "rejected" \in Verdicts
    BY DEF Verdicts
<1>4. CASE Supersede(b)
    BY <1>1, <1>2, <1>4, ChangeStep, KeepingChanges DEF Supersede
<1>5. CASE MarkOutdated(b)
    BY <1>1, <1>2, <1>5, ChangeStep, KeepingChanges DEF MarkOutdated
<1>6. CASE Confirm(b)
    BY <1>1, <1>2, <1>6, ChangeStep, KeepingVouched DEF Confirm
<1>7. CASE RequestApproval(b)
    BY <1>1, <1>3, <1>7, ChangeStep, KeepingChanges DEF RequestApproval
<1>8. CASE Approve(b)
    BY <1>1, <1>3, <1>8, ChangeStep, KeepingVouched DEF Approve
<1>9. CASE Reject(b)
    BY <1>1, <1>3, <1>9, ChangeStep, KeepingChanges DEF Reject
<1>10. CASE Recall(b)
    BY <1>1, <1>2, <1>10, ChangeStep, KeepingChanges DEF Recall
<1>11. CASE Promote(b)
    BY <1>1, <1>2, <1>11, ChangeStep, KeepingPromotion DEF Promote
<1> QED BY <1>4, <1>5, <1>6, <1>7, <1>8, <1>9, <1>10, <1>11 DEF Lifecycle

\* The revision that an uncompaction reads exists.
LEMMA RevisionIsHeld ==
    ASSUME Inv, NEW b \in Indexed, revs[b] # <<>>
    PROVE  Revision(b) \in SoundBeads /\ Held(b, Revision(b))
<1> USE DEF Inv
<1> DEFINE i == IF index[b].ptr > 0 THEN index[b].ptr ELSE Len(revs[b])
<1>1. /\ b \in Beads /\ revs[b] \in Seq(SoundBeads)
      /\ index[b].ptr \in Nat /\ index[b].ptr <= Len(revs[b])
    BY StoreBounds DEF Held, Sound, Surface, SoundBeads, Bead, AllCovered, Covered
<1>2. Len(revs[b]) \in Nat /\ Len(revs[b]) > 0
    BY <1>1
<1>3. i \in 1..Len(revs[b]) /\ Revision(b) = revs[b][i]
    BY <1>1, <1>2 DEF Revision
<1> HIDE DEF i
<1> QED BY <1>1, <1>3 DEF AllCovered, CoveredRevs, Sound

LEMMA DecisionStep ==
    ASSUME Inv, NEW b \in Beads, Decision(b)
    PROVE  Inv'
<1> USE DEF Inv
<1>1. /\ b \in Indexed /\ index[b] \in SoundBeads
      /\ Held(b, index[b])
    BY DEF Decision, DecidePromote, DecideKeep, DecideArchive, Compact, Uncompact,
           Sound, Surface, AllCovered, Covered
<1> DEFINE Statuses == {"open", "archived", "promoted", "superseded", "outdated"}
<1>2. index[b].status \in Statuses
    BY <1>1 DEF SoundBeads, Bead
<1>3. CASE DecidePromote(b)
    <2>1. Keeps(index[b], [index[b] EXCEPT !.status = "promoted", !.promo = "promoted"])
        BY <1>1, KeepingChanges
    <2> QED BY <1>1, <1>3, <2>1, RewriteStep DEF DecidePromote, Keeps, Held
<1>4. CASE DecideKeep(b)
    <2> DEFINE s == IF index[b].status \in {"archived", "superseded"}
                    THEN index[b].status ELSE "open"
               d == [index[b] EXCEPT !.promo = "candidate", !.status = s]
    <2>1. s \in Statuses
        BY <1>2
    <2>2. Rewrite(b, d)
        BY <1>4 DEF DecideKeep
    <2> HIDE DEF s
    <2>3. Keeps(index[b], d)
        BY <1>1, <2>1, KeepingDecision
    <2> HIDE DEF d
    <2> QED BY <1>1, <1>4, <2>2, <2>3, RewriteStep DEF DecideKeep, Keeps, Held
<1>5. ASSUME DecideArchive(b) \/ \E force \in BOOLEAN : Compact(b, force)
      PROVE  Inv'
    <2>1. Len(revs[b]) < MaxRevs
        BY <1>5 DEF DecideArchive, Compact, ArchiveThen
    <2>2. Len(revs[b]) \in Nat
        BY DEF Sound
    <2>3. Len(revs[b]) + 1 \in 0..MaxRevs
        BY <2>1, <2>2, StoreBounds
    <2>4. /\ Stub(b) \in SoundBeads /\ Stub(b).ptr = Len(revs[b]) + 1
          /\ Keeps(Stub(b), [Stub(b) EXCEPT !.promo = "none"])
        BY <1>1, <2>3, SoundStub DEF Stub
    <2> QED BY <1>1, <1>5, <2>4, ArchiveThenStep DEF DecideArchive, Compact, Keeps
<1>6. CASE Uncompact(b)
    <2> DEFINE r == Revision(b)
               s == IF index[b].status = "archived" THEN "open" ELSE index[b].status
               d == [r EXCEPT !.status = s]
    <2>2. r \in SoundBeads /\ Held(b, r)
        BY <1>1, <1>6, RevisionIsHeld DEF Uncompact
    <2>3. s \in Statuses
        BY <1>2
    <2>4. Rewrite(b, d)
        BY <1>6 DEF Uncompact
    <2> HIDE DEF r, s
    <2>5. Keeps(r, d)
        BY <2>2, <2>3, KeepingDecision
    <2>6. Held(b, d)
        BY <2>2, <2>5 DEF Keeps, Held
    <2> HIDE DEF d
    <2> QED BY <1>1, <1>6, <2>4, <2>5, <2>6, RewriteStep DEF Uncompact, Keeps
<1> QED BY <1>3, <1>4, <1>5, <1>6 DEF Decision

-----------------------------------------------------------------------------
(* Reviews and classes, while restores are current                          *)

Reviewed(f) == \A b \in DOMAIN f : verdict[b] # "torn" => f[b].review = verdict[b]

\* Index and archive agree with the decision on a bead, unless a kill tore it;
\* the archive is behind the index in class, never ahead of it.
ReviewInv ==
    /\ Reviewed(index) /\ Reviewed(line)
    /\ \A b \in Indexed : index[b].class >= line[b].class
    /\ \A b \in Beads \ Archived : verdict[b] = "none"

\* What a lifecycle operation with this decision does to review and class.
Decides(c, d, before, decision) ==
    /\ d \in SoundBeads /\ d.class >= c.class
    /\ d.review = decision \/ (decision = before /\ d.review = c.review)

LEMMA DecidesChanges ==
    ASSUME NEW c \in SoundBeads, NEW v
    PROVE  /\ Decides(c, [c EXCEPT !.status = "superseded"], v, v)
           /\ Decides(c, [c EXCEPT !.status = "outdated"], v, v)
           /\ Decides(c, [c EXCEPT !.review = "pending"], v, "pending")
           /\ Decides(c, [c EXCEPT !.review = "rejected", !.status = "archived"],
                      v, "rejected")
           /\ Decides(c, [c EXCEPT !.class = Higher(@, 1)], v, v)
<1>1. /\ Higher(c.class, 1) \in 0..2 /\ Higher(c.class, 1) >= c.class
      /\ Higher(c.class, 1) = 2 => c.class = 2
    BY DEF SoundBeads, Bead, Higher
<1>2. c \in Bead /\ c.class >= c.class /\ (c.class = 2 => ~c.speculative)
    BY DEF SoundBeads, Bead
<1>3. /\ Decides(c, [c EXCEPT !.status = "superseded"], v, v)
      /\ Decides(c, [c EXCEPT !.status = "outdated"], v, v)
      /\ Decides(c, [c EXCEPT !.review = "pending"], v, "pending")
    BY <1>2 DEF Decides, SoundBeads, Bead
<1>4. Decides(c, [c EXCEPT !.review = "rejected", !.status = "archived"], v, "rejected")
    BY <1>2 DEF Decides, SoundBeads, Bead
<1> DEFINE k == Higher(c.class, 1)
<1> HIDE DEF k
<1>5. Decides(c, [c EXCEPT !.class = k], v, v)
    BY <1>1, <1>2 DEF k, Decides, SoundBeads, Bead
<1> QED BY <1>3, <1>4, <1>5 DEF k

LEMMA DecidesVouched ==
    ASSUME NEW c \in SoundBeads, NEW v
    PROVE  /\ Decides(c, Vouched(c), v, v)
           /\ Decides(c, [Vouched(c) EXCEPT !.review = "approved"], v, "approved")
<1> DEFINE w == [c EXCEPT !.class = 2]
           d == [w EXCEPT !.speculative = FALSE]
<1>1. c \in Bead /\ Vouched(c) = d
    BY DEF SoundBeads, Bead, Vouched
<1>2. w \in Bead /\ w.class = 2 /\ w.review = c.review
    BY <1>1 DEF Bead
<1> HIDE DEF w
<1>3. d \in SoundBeads /\ d.class = 2 /\ d.review = c.review
    BY <1>2 DEF SoundBeads, Bead
<1>4. 2 >= c.class
    BY <1>1 DEF Bead
<1> HIDE DEF d
<1>5. Decides(c, d, v, v)
    BY <1>3, <1>4 DEF Decides
<1>6. /\ [d EXCEPT !.review = "approved"] \in SoundBeads
      /\ [d EXCEPT !.review = "approved"].class = 2
      /\ [d EXCEPT !.review = "approved"].review = "approved"
    BY <1>3 DEF SoundBeads, Bead
<1>7. Decides(c, [d EXCEPT !.review = "approved"], v, "approved")
    BY <1>4, <1>6 DEF Decides
<1> QED BY <1>1, <1>5, <1>7

\* Promotion lowers no class because the speculative ceiling was kept before.
LEMMA DecidesPromotion ==
    ASSUME NEW c \in SoundBeads, NEW v
    PROVE  Decides(c, [c EXCEPT !.status = "promoted", !.promo = "promoted",
                         !.class = Resolve(c.speculative, 2)], v, v)
<1> DEFINE k == Resolve(c.speculative, 2)
<1>1. k \in 0..2 /\ k >= c.class /\ (k = 2 => ~c.speculative)
    BY DEF SoundBeads, Bead, Resolve
<1> HIDE DEF k
<1>2. Decides(c, [c EXCEPT !.status = "promoted", !.promo = "promoted", !.class = k], v, v)
    BY <1>1 DEF Decides, SoundBeads, Bead
<1> QED BY <1>2 DEF k

\* A lifecycle operation: both surfaces take the decision, or the index does and
\* the decision is torn.
LEMMA ChangeReview ==
    ASSUME Inv, ReviewInv, NEW b \in Beads, NEW bead, NEW decision, NEW retires \in BOOLEAN,
           b \in Indexed => Decides(index[b], bead, verdict[b], decision),
           Change(b, bead, decision, retires)
    PROVE  ReviewInv' /\ \A x \in Archived : line'[x].class >= line[x].class
<1>1. /\ b \in Indexed /\ b \in Archived /\ Indexed \subseteq Archived
      /\ bead \in SoundBeads /\ bead.class >= index[b].class
      /\ bead.review = decision \/ (decision = verdict[b] /\ bead.review = index[b].review)
    BY DEF Change, Decides, Inv, Recoverable
<1>2. /\ Indexed' = Indexed /\ index'[b] = bead
      /\ \A x \in Indexed \ {b} : index'[x] = index[x]
    BY <1>1 DEF Change
<1>3. /\ \A x \in Archived : line[x].class \in Int
      /\ \A x \in Indexed : index[x].class \in Int
      /\ bead.class \in Int
    BY <1>1 DEF Inv, Sound, Surface, SoundBeads, Bead
<1>4. verdict \in [Beads -> Verdicts] /\ Archived \subseteq Beads
    BY DEF Inv, Sound, Surface
<1>5. CASE Snapshot(b, bead) /\ verdict' = [verdict EXCEPT ![b] = decision]
    <2>1. /\ Archived' = Archived /\ line'[b] = bead
          /\ \A x \in Archived \ {b} : line'[x] = line[x]
        BY <1>1, <1>5 DEF Snapshot, Put
    <2>2. verdict'[b] = decision /\ \A x \in Beads \ {b} : verdict'[x] = verdict[x]
        BY <1>4, <1>5
    <2>3. decision # "torn" => bead.review = decision
        BY <1>1 DEF ReviewInv, Reviewed
    <2>4. Reviewed(index)' /\ Reviewed(line)'
        BY <1>1, <1>2, <1>4, <2>1, <2>2, <2>3 DEF ReviewInv, Reviewed
    <2>5. \A x \in Indexed' : index'[x].class >= line'[x].class
        BY <1>1, <1>2, <1>3, <2>1 DEF ReviewInv
    <2>6. \A x \in Archived : line'[x].class >= line[x].class
        BY <1>1, <1>3, <2>1 DEF ReviewInv
    <2>7. \A x \in Beads \ Archived' : verdict'[x] = "none"
        BY <1>1, <2>1, <2>2 DEF ReviewInv
    <2> QED BY <2>4, <2>5, <2>6, <2>7 DEF ReviewInv
<1>6. CASE /\ verdict' = [verdict EXCEPT ![b] = IF decision = @ THEN @ ELSE "torn"]
           /\ UNCHANGED line
    <2>1. /\ \A x \in Beads \ {b} : verdict'[x] = verdict[x]
          /\ verdict'[b] # "torn" => decision = verdict[b] /\ verdict'[b] = verdict[b]
        BY <1>4, <1>6
    <2>2. Reviewed(index)' /\ Reviewed(line)'
        BY <1>1, <1>2, <1>4, <1>6, <2>1 DEF ReviewInv, Reviewed
    <2>3. \A x \in Indexed' : index'[x].class >= line'[x].class
        BY <1>1, <1>2, <1>3, <1>6 DEF ReviewInv
    <2>4. \A x \in Archived : line'[x].class >= line[x].class
        BY <1>3, <1>6
    <2>5. \A x \in Beads \ Archived' : verdict'[x] = "none"
        BY <1>1, <1>6, <2>1 DEF ReviewInv
    <2> QED BY <2>2, <2>3, <2>4, <2>5 DEF ReviewInv
<1> QED BY <1>5, <1>6 DEF Change

\* A decision, a compaction or an uncompaction: the index alone, its new bead
\* current with the one before.
LEMMA RewriteReview ==
    ASSUME Inv, ReviewInv, NEW b \in Indexed, NEW bead,
           bead \in SoundBeads, Current(bead, index[b]),
           UNCHANGED index \/ Rewrite(b, bead),
           UNCHANGED <<line, verdict>>
    PROVE  ReviewInv'
<1>1. /\ Indexed' = Indexed
      /\ \A x \in Indexed : index'[x] = index[x] \/ (x = b /\ index'[x] = bead)
    BY DEF Rewrite
<1>2. /\ Indexed \subseteq Archived /\ bead.class \in Int
      /\ \A x \in Archived : line[x].class \in Int
      /\ \A x \in Indexed : index[x].class \in Int
    BY DEF Inv, Recoverable, Sound, Surface, SoundBeads, Bead
<1>3. Reviewed(index)'
    BY <1>1 DEF ReviewInv, Reviewed, Current
<1>4. \A x \in Indexed' : index'[x].class >= line'[x].class
    BY <1>1, <1>2 DEF ReviewInv, Current
<1> QED BY <1>3, <1>4 DEF ReviewInv, Reviewed

LEMMA LifecycleReview ==
    ASSUME Inv, ReviewInv, NEW b \in Beads, Lifecycle(b)
    PROVE  ReviewInv' /\ \A x \in Archived : line'[x].class >= line[x].class
<1> DEFINE Goal == ReviewInv' /\ \A x \in Archived : line'[x].class >= line[x].class
<1>1. b \in Indexed /\ index[b] \in SoundBeads
    BY DEF Lifecycle, Supersede, MarkOutdated, Confirm, RequestApproval, Approve,
           Reject, Recall, Promote, Change, Inv, Sound, Surface
<1>3. CASE Supersede(b)
    BY <1>1, <1>3, ChangeReview, DecidesChanges DEF Supersede
<1>4. CASE MarkOutdated(b)
    BY <1>1, <1>4, ChangeReview, DecidesChanges DEF MarkOutdated
<1>5. CASE Confirm(b)
    BY <1>1, <1>5, ChangeReview, DecidesVouched DEF Confirm
<1>6. CASE RequestApproval(b)
    BY <1>1, <1>6, ChangeReview, DecidesChanges DEF RequestApproval
<1>7. CASE Approve(b)
    BY <1>1, <1>7, ChangeReview, DecidesVouched DEF Approve
<1>8. CASE Reject(b)
    BY <1>1, <1>8, ChangeReview, DecidesChanges DEF Reject
<1>9. CASE Recall(b)
    BY <1>1, <1>9, ChangeReview, DecidesChanges DEF Recall
<1>10. CASE Promote(b)
    BY <1>1, <1>10, ChangeReview, DecidesPromotion DEF Promote
<1>11. Goal
    BY <1>3, <1>4, <1>5, <1>6, <1>7, <1>8, <1>9, <1>10 DEF Lifecycle
<1> QED BY <1>11 DEF Goal

LEMMA CurrentKeeps ==
    ASSUME NEW c \in SoundBeads, NEW d, d \in SoundBeads,
           d.review = c.review, d.class = c.class
    PROVE  Current(d, c)
BY DEF Current, SoundBeads, Bead

LEMMA DecisionReview ==
    ASSUME Inv, ReviewInv, NEW b \in Beads, Decision(b), RestoresCurrent
    PROVE  ReviewInv'
<1>1. /\ b \in Indexed /\ index[b] \in SoundBeads
      /\ UNCHANGED <<line, verdict>>
    BY DEF Decision, DecidePromote, DecideKeep, DecideArchive, Compact, Uncompact,
           ArchiveThen, Inv, Sound, Surface
<1> DEFINE Statuses == {"open", "archived", "promoted", "superseded", "outdated"}
<1>2. index[b].status \in Statuses
    BY <1>1 DEF SoundBeads, Bead
<1>3. CASE DecidePromote(b)
    <2> DEFINE d == [index[b] EXCEPT !.status = "promoted", !.promo = "promoted"]
    <2>1. d \in SoundBeads /\ d.review = index[b].review /\ d.class = index[b].class
        BY <1>1 DEF SoundBeads, Bead
    <2>2. Rewrite(b, d)
        BY <1>3 DEF DecidePromote
    <2> HIDE DEF d
    <2> QED BY <1>1, <2>1, <2>2, CurrentKeeps, RewriteReview
<1>4. CASE DecideKeep(b)
    <2> DEFINE s == IF index[b].status \in {"archived", "superseded"}
                    THEN index[b].status ELSE "open"
               d == [index[b] EXCEPT !.promo = "candidate", !.status = s]
    <2>1. s \in Statuses
        BY <1>2
    <2>2. Rewrite(b, d)
        BY <1>4 DEF DecideKeep
    <2> HIDE DEF s
    <2>3. d \in SoundBeads /\ d.review = index[b].review /\ d.class = index[b].class
        BY <1>1, <2>1 DEF SoundBeads, Bead
    <2> HIDE DEF d
    <2> QED BY <1>1, <2>2, <2>3, CurrentKeeps, RewriteReview
<1>5. ASSUME DecideArchive(b) \/ \E force \in BOOLEAN : Compact(b, force)
      PROVE  ReviewInv'
    <2> DEFINE p == Len(revs[b]) + 1
               d == [index[b] EXCEPT !.status = "archived", !.detail = FALSE, !.ptr = p]
               e == [d EXCEPT !.promo = "none"]
    <2>1. p \in 0..MaxRevs
        <3>1. Len(revs[b]) \in Nat /\ Len(revs[b]) < MaxRevs
            BY <1>5 DEF DecideArchive, Compact, ArchiveThen, Inv, Sound
        <3> QED BY <3>1, StoreBounds
    <2>2. UNCHANGED index \/ Rewrite(b, d) \/ Rewrite(b, e)
        BY <1>5 DEF DecideArchive, Compact, ArchiveThen, Stub
    <2> HIDE DEF p
    <2>3. d \in SoundBeads /\ d.review = index[b].review /\ d.class = index[b].class
        BY <1>1, <2>1 DEF SoundBeads, Bead
    <2> HIDE DEF d
    <2>4. e \in SoundBeads /\ e.review = index[b].review /\ e.class = index[b].class
        BY <2>3 DEF SoundBeads, Bead
    <2> HIDE DEF e
    <2> QED BY <1>1, <2>2, <2>3, <2>4, CurrentKeeps, RewriteReview
<1>6. CASE Uncompact(b)
    <2> DEFINE r == Revision(b)
               s == IF index[b].status = "archived" THEN "open" ELSE index[b].status
               d == [r EXCEPT !.status = s]
    <2>1. r \in SoundBeads
        BY <1>1, <1>6, RevisionIsHeld DEF Uncompact
    <2>2. s \in Statuses
        BY <1>2
    <2>3. Rewrite(b, d)
        BY <1>6 DEF Uncompact
    <2>4. Current(r, index[b])
        BY <1>6 DEF RestoresCurrent
    <2> HIDE DEF r, s
    <2>5. d \in SoundBeads /\ d.review = r.review /\ d.class = r.class
        BY <2>1, <2>2 DEF SoundBeads, Bead
    <2>6. Current(d, index[b])
        BY <2>4, <2>5 DEF Current
    <2> HIDE DEF d
    <2> QED BY <1>1, <2>3, <2>5, <2>6, RewriteReview
<1> QED BY <1>3, <1>4, <1>5, <1>6 DEF Decision

\* A rebuild puts in the index copies that agree with the archive: the lines
\* themselves, or the copies of a scan, which are current.
LEMMA RebuildReview ==
    ASSUME Inv, ReviewInv, RestoresCurrent,
           ReadArchive \/ ReadTombstones \/ WriteRebuild \/ RebuildProjection
    PROVE  ReviewInv'
<1>1. UNCHANGED <<line, verdict>>
    BY DEF ReadArchive, ReadTombstones, WriteRebuild, RebuildProjection
<1>2. /\ Archived \subseteq Beads
      /\ \A x \in Archived : line[x].class >= line[x].class
    BY DEF Inv, Sound, Surface, SoundBeads, Bead
<1>3. Reviewed(index)' /\ \A b \in Indexed' : index'[b].class >= line'[b].class
    <2>1. CASE UNCHANGED index
        BY <1>1, <2>1 DEF ReviewInv, Reviewed
    <2>2. CASE WriteRebuild
        BY <1>1, <2>2 DEF WriteRebuild, RestoresCurrent, Current, ReviewInv, Reviewed,
                          Inv, Recoverable
    <2>3. CASE RebuildProjection
        BY <1>1, <1>2, <2>3 DEF RebuildProjection, ReviewInv, Reviewed
    <2> QED BY <2>1, <2>2, <2>3 DEF ReadArchive, ReadTombstones
<1> QED BY <1>1, <1>3 DEF ReviewInv, Reviewed

LEMMA AddReview ==
    ASSUME Inv, ReviewInv, NEW b \in Beads, NEW floor \in 0..2, AddBead(b, floor)
    PROVE  ReviewInv' /\ \A x \in Archived : line'[x].class >= line[x].class
<1> DEFINE n == NewBead(b, floor)
<1>1. n.review = "none" /\ n \in SoundBeads
    BY SoundBirth DEF NewBead
<1>2. n.class \in Int
    BY <1>1 DEF SoundBeads, Bead
<1> HIDE DEF n
<1>3. /\ b \notin Archived \cup Indexed
      /\ line' = Put(line, b, n)
      /\ index' = index \/ index' = Put(index, b, n)
      /\ UNCHANGED verdict
    BY DEF AddBead, n
<1>4. /\ Archived' = Archived \cup {b} /\ line'[b] = n
      /\ \A x \in Archived : line'[x] = line[x]
      /\ Indexed' \subseteq Indexed \cup {b}
      /\ \A x \in Indexed' : (x = b /\ index'[x] = n) \/ (x \in Indexed /\ index'[x] = index[x])
    BY <1>3 DEF Put
<1>5. verdict[b] = "none"
    BY <1>3 DEF ReviewInv
<1>6. \A x \in Archived : line[x].class \in Int
    BY DEF Inv, Sound, Surface, SoundBeads, Bead
<1>7. Reviewed(index)' /\ Reviewed(line)'
    BY <1>1, <1>3, <1>4, <1>5 DEF ReviewInv, Reviewed
<1>8. \A x \in Indexed' : index'[x].class >= line'[x].class
    BY <1>2, <1>3, <1>4 DEF ReviewInv, Inv, Recoverable
<1>9. \A x \in Beads \ Archived' : verdict'[x] = "none"
    BY <1>3, <1>4 DEF ReviewInv
<1> QED BY <1>4, <1>6, <1>7, <1>8, <1>9 DEF ReviewInv

LEMMA RemoveReview ==
    ASSUME Inv, ReviewInv, NEW b \in Beads, Remove(b)
    PROVE  ReviewInv'
<1>1. /\ UNCHANGED <<line, verdict>> /\ Indexed' \subseteq Indexed
      /\ \A x \in Indexed' : index'[x] = index[x]
    BY DEF Remove, Restrict
<1> QED BY <1>1 DEF ReviewInv, Reviewed

\* Every step from a state of both invariants: the review invariant again, and
\* no line falls in class.
LEMMA NextReview ==
    ASSUME Inv, ReviewInv, [Next /\ RestoresCurrent]_vars
    PROVE  ReviewInv' /\ \A x \in Archived : line'[x].class >= line[x].class
<1> DEFINE Monotonic == \A x \in Archived : line'[x].class >= line[x].class
<1>1. \A x \in Archived : line[x].class \in Int
    BY DEF Inv, Sound, Surface, SoundBeads, Bead
<1>2. UNCHANGED line => Monotonic
    BY <1>1
<1> HIDE DEF Monotonic
<1>3. ASSUME NEW b \in Beads, NEW floor \in 0..2, AddBead(b, floor)
      PROVE  ReviewInv' /\ Monotonic
    BY <1>3, AddReview DEF Monotonic
<1>4. ASSUME NEW b \in Beads, Lifecycle(b)
      PROVE  ReviewInv' /\ Monotonic
    BY <1>4, LifecycleReview DEF Monotonic
<1>5. ASSUME NEW b \in Beads, Decision(b), RestoresCurrent
      PROVE  ReviewInv' /\ Monotonic
    <2>1. UNCHANGED line
        BY <1>5 DEF Decision, DecidePromote, DecideKeep, DecideArchive, Compact,
                    Uncompact, ArchiveThen
    <2> QED BY <1>2, <1>5, <2>1, DecisionReview
<1>6. ASSUME NEW b \in Beads, Remove(b)
      PROVE  ReviewInv' /\ Monotonic
    BY <1>2, <1>6, RemoveReview DEF Remove
<1>7. ASSUME ReadArchive \/ ReadTombstones \/ WriteRebuild \/ RebuildProjection,
             RestoresCurrent
      PROVE  ReviewInv' /\ Monotonic
    <2>1. UNCHANGED line
        BY <1>7 DEF ReadArchive, ReadTombstones, WriteRebuild, RebuildProjection
    <2> QED BY <1>2, <1>7, <2>1, RebuildReview
<1>8. ASSUME UNCHANGED vars
      PROVE  ReviewInv' /\ Monotonic
    <2>1. UNCHANGED <<index, line, verdict>>
        BY <1>8 DEF vars
    <2>2. ReviewInv'
        BY <2>1 DEF ReviewInv, Reviewed
    <2> QED BY <1>2, <2>1, <2>2
<1>9. ReviewInv' /\ Monotonic
    BY <1>3, <1>4, <1>5, <1>6, <1>7, <1>8 DEF Next
<1> QED BY <1>9 DEF Monotonic

-----------------------------------------------------------------------------
(* Theorems                                                                 *)

LEMMA InitInv == Init => Inv
<1> SUFFICES ASSUME Init PROVE Inv
    OBVIOUS
<1>1. /\ Indexed = {} /\ Archived = {} /\ scan = Idle
      /\ \A b \in Beads : revs[b] = <<>>
      /\ revs \in [Beads -> Seq(SoundBeads)]
      /\ tombstones = {} /\ retired = {} /\ crashes = 0
    BY DEF Init
<1>2. verdict \in [Beads -> Verdicts]
    BY DEF Init, Verdicts
<1>3. scan.at = "idle" /\ DOMAIN scan.beads = {}
    BY <1>1 DEF Idle
<1>4. Sound
    BY <1>1, <1>2, <1>3, StoreBounds DEF Sound, Surface
<1>5. Recoverable /\ AllCovered
    BY <1>1, <1>3 DEF Recoverable, AllCovered, Covered, CoveredRevs
<1> QED BY <1>4, <1>5 DEF Inv

LEMMA NextInv == Inv /\ [Next]_vars => Inv'
<1> SUFFICES ASSUME Inv, [Next]_vars PROVE Inv'
    OBVIOUS
<1>1. ASSUME NEW b \in Beads, NEW floor \in 0..2, AddBead(b, floor) PROVE Inv'
    BY <1>1, AddStep
<1>2. ASSUME NEW b \in Beads, Lifecycle(b) PROVE Inv'
    BY <1>2, LifecycleStep
<1>3. ASSUME NEW b \in Beads, Decision(b) PROVE Inv'
    BY <1>3, DecisionStep
<1>4. ASSUME NEW b \in Beads, Remove(b) PROVE Inv'
    BY <1>4, RemoveStep
<1>5. CASE ReadArchive \/ ReadTombstones \/ WriteRebuild \/ RebuildProjection
    BY <1>5, RebuildStep
<1>6. CASE UNCHANGED vars
    BY <1>6 DEF vars, Inv, Sound, Surface, Recoverable, AllCovered, Covered,
                CoveredRevs, Held, HasDetail
<1> QED BY <1>1, <1>2, <1>3, <1>4, <1>5, <1>6 DEF Next

\* The invariant of the bead store holds in every reachable state.
THEOREM StoreInvariant == Spec => []Inv
BY InitInv, NextInv, PTL DEF Spec

\* Every variable keeps its type (index, archive, revisions, running rebuild).
THEOREM StoreTypeCorrect == Spec => []TypeOK
<1>1. Inv => TypeOK
    <2> SUFFICES ASSUME Inv PROVE TypeOK
        OBVIOUS
    <2>1. IsSurface(index) /\ IsSurface(line) /\ IsSurface(scan.beads)
        BY DEF Inv, Sound, Surface, SoundBeads, IsSurface
    <2>2. revs \in [Beads -> Seq(Bead)]
        <3>1. SoundBeads \subseteq Bead
            BY DEF SoundBeads
        <3> QED BY <3>1 DEF Inv, Sound
    <2> QED BY <2>1, <2>2 DEF Inv, Sound, Verdicts, TypeOK
<1> QED BY <1>1, StoreInvariant, PTL

\* A speculative bead is class A on no surface it could be restored from, for
\* every order of confirmations, promotions, compactions and rebuilds.
THEOREM SpeculativeIsCapped == Spec => []SpeculativeCeiling
<1>1. Inv => SpeculativeCeiling
    <2> SUFFICES ASSUME Inv, NEW b \in Beads, NEW c \in Copies(b)
                 PROVE  c \in SoundBeads
        BY DEF SpeculativeCeiling, SoundBeads
    <2> QED BY DEF Inv, Sound, Surface, Copies
<1> QED BY <1>1, StoreInvariant, PTL

\* Archive-first: every indexed bead has an archive line, wherever an operation
\* was killed and whatever rebuild ran beside it.
THEOREM ArchiveIsFirst == Spec => []ArchiveFirst
<1>1. Inv => ArchiveFirst
    BY DEF Inv, Recoverable, ArchiveFirst
<1> QED BY <1>1, StoreInvariant, PTL

\* No surface loses a bead's detail before a revision holds it, and no archive
\* pointer dangles.
THEOREM DetailIsKept == Spec => []DetailKept
<1>1. Inv => DetailKept
    <2> SUFFICES ASSUME Inv, NEW b \in Beads, NEW c \in Copies(b)
                 PROVE  Held(b, c)
        BY DEF DetailKept, Held, HasDetail
    <2> QED BY DEF Inv, AllCovered, Covered, CoveredRevs, Copies
<1> QED BY <1>1, StoreInvariant, PTL

\* While restores are current, index, archive and decision agree on every review
\* that no kill tore, and the archive is never ahead of the index in class.
THEOREM ReviewInvariant == CurrentSpec => [](Inv /\ ReviewInv)
<1>1. Init => Inv /\ ReviewInv
    BY InitInv DEF Init, ReviewInv, Reviewed
<1>2. Inv /\ ReviewInv /\ [Next /\ RestoresCurrent]_vars => (Inv /\ ReviewInv)'
    BY NextInv, NextReview
<1> QED BY <1>1, <1>2, PTL DEF CurrentSpec

\* A review decision is the one the index records, after every later operation
\* and kill: only a restore that is not current can take it back.
THEOREM ReviewSurvives == CurrentSpec => []ReviewIsRecorded
<1>1. ReviewInv => ReviewIsRecorded
    BY DEF ReviewInv, Reviewed, ReviewIsRecorded
<1> QED BY <1>1, ReviewInvariant, PTL

\* A rejected bead is not shown again, whatever follows (reject_bead, _admit):
\* only a restore that is not current can bring it back.
THEOREM RejectionHides == CurrentSpec => []RejectedStaysHidden
<1>1. Inv /\ ReviewInv => RejectedStaysHidden
    <2> SUFFICES ASSUME Inv, ReviewInv, NEW b \in Beads, verdict[b] = "rejected"
                 PROVE  ~Visible(b)
        BY DEF RejectedStaysHidden
    <2>1. b \in Archived
        BY DEF ReviewInv
    <2>2. line[b].review = "rejected"
        BY <2>1 DEF ReviewInv, Reviewed
    <2> QED BY <2>1, <2>2 DEF Visible, Admit
<1> QED BY <1>1, ReviewInvariant, PTL

\* raise_confidence_class_for_bead is monotonic, and so is the record: no step
\* lowers the class on an archive line, unless a restore was not current.
THEOREM ClassOnlyRises == CurrentSpec => ClassNeverLowers
<1>1. /\ Inv /\ ReviewInv /\ [Next /\ RestoresCurrent]_vars
      => [\A b \in Archived : line'[b].class >= line[b].class]_vars
    BY NextReview
<1> QED BY <1>1, ReviewInvariant, PTL DEF CurrentSpec, ClassNeverLowers

\* The condition is met where nothing is compacted and rebuild_index, which reads
\* outside the lock, is not used: then every behaviour is one of CurrentSpec.
THEOREM NothingToRestore ==
    ASSUME MaxRevs = 0, "events" \notin Rebuilds
    PROVE  Spec => CurrentSpec
<1> DEFINE Bare == scan.at = "idle" /\ \A b \in Beads : revs[b] = <<>>
<1>1. Init => Bare
    BY DEF Init, Idle
<1>2. Inv /\ Bare /\ [Next]_vars => Bare'
    <2> SUFFICES ASSUME Inv, Bare, [Next]_vars PROVE Bare'
        OBVIOUS
    <2>1. UNCHANGED <<revs, scan>> => Bare'
        OBVIOUS
    <2>2. \A b \in Beads : ~(Len(revs[b]) < MaxRevs)
        OBVIOUS
    <2> HIDE DEF Bare
    <2>3. ASSUME NEW b \in Beads, Lifecycle(b) PROVE UNCHANGED <<revs, scan>>
        BY <2>3 DEF Lifecycle, Supersede, MarkOutdated, Confirm, RequestApproval,
                    Approve, Reject, Recall, Promote, Change
    <2>4. ASSUME NEW b \in Beads, Decision(b) PROVE UNCHANGED <<revs, scan>>
        BY <2>2, <2>4 DEF Decision, DecidePromote, DecideKeep, DecideArchive, Compact,
                          Uncompact, ArchiveThen
    <2>5. ~ReadArchive /\ ~ReadTombstones /\ ~WriteRebuild
        BY DEF ReadArchive, ReadTombstones, WriteRebuild, Bare
    <2> QED BY <2>1, <2>3, <2>4, <2>5 DEF Next, AddBead, Remove, RebuildProjection, vars
<1>3. Bare => RestoresCurrent
    BY DEF RestoresCurrent, Uncompact, WriteRebuild
<1> HIDE DEF Bare
<1>4. Inv /\ Bare /\ [Next]_vars => [Next /\ RestoresCurrent]_vars
    BY <1>3
<1> QED BY <1>1, <1>2, <1>4, InitInv, NextInv, PTL DEF Spec, CurrentSpec
================================================================================
