------------------------------- MODULE BeadStore -------------------------------
(***************************************************************************)
(* The bead store of Core Memory and the two surfaces it keeps for every   *)
(* bead:                                                                   *)
(*   index.json                the projection, rewritten atomically        *)
(*   session-<id>.jsonl        the archive: full snapshots, append-only    *)
(*   archive.jsonl             compaction revisions, append-only           *)
(*   events                    among them the bead_removed tombstones      *)
(* Retrieval (build_visible_corpus) overlays the session archive over the  *)
(* index; the two rebuilds recompute the index from the archive.           *)
(*                                                                         *)
(* A bead is reduced to what governs its life: its status, its review, its *)
(* confidence class (0, 1, 2 for C, B, A), whether it is speculative, its  *)
(* promotion state, whether its detail text is present, and its archive    *)
(* pointer.  Operations run under the store lock and are one action each;  *)
(* a process killed between two of an operation's writes leaves the first  *)
(* of them.  Only rebuild_index reads outside the lock: it is three        *)
(* actions.  Work on many beads (compaction, removal) is taken bead by     *)
(* bead, as a caller naming one bead does: the beads do not interact.      *)
(*                                                                         *)
(* Of a bead's archive lines only the last matters, to the rebuilds (last  *)
(* line wins) and to retrieval: each line is a complete snapshot, and a    *)
(* row that is not admitted is dropped before the next line is merged.     *)
(***************************************************************************)
EXTENDS Integers, Sequences, FiniteSets

CONSTANTS
    Beads,         \* bead ids
    SpeculativeAtBirth,  \* those whose grounding is "speculative"
    Rebuilds,      \* the rebuild commands in use: "events", "sessions"
    MaxRevs,       \* bound: compaction revisions of one bead
    MaxCrashes     \* bound: operations killed half-way

ASSUME BeadsAssumption == SpeculativeAtBirth \subseteq Beads
ASSUME RebuildsAssumption == Rebuilds \subseteq {"events", "sessions"}
ASSUME StoreBounds == MaxRevs \in Nat /\ MaxCrashes \in Nat

VARIABLES
    index,      \* index.json: from the ids in it to beads
    line,       \* the last archive line of each bead that has one
    revs,       \* archive.jsonl: the revisions of each bead, oldest first
    tombstones, \* beads with a bead_removed event
    scan,       \* a running rebuild_index: what it has read, what it computed
    verdict,    \* history: the last review decision on each bead ("torn" if it
                \* was killed half-way)
    retired,    \* history: beads whose supersession was completed
    crashes     \* history: operations killed half-way

vars == <<index, line, revs, tombstones, scan, verdict, retired, crashes>>

Bead == [status: {"open", "archived", "promoted", "superseded", "outdated"},
         review: {"none", "pending", "approved", "rejected"},
         class: 0..2, speculative: BOOLEAN,
         promo: {"none", "candidate", "promoted"},
         detail: BOOLEAN, ptr: 0..MaxRevs]

Indexed == DOMAIN index
Archived == DOMAIN line
Restrict(f, S) == [x \in S |-> f[x]]
Put(f, x, v) == [y \in DOMAIN f \cup {x} |-> IF y = x THEN v ELSE f[y]]
Higher(m, n) == IF m >= n THEN m ELSE n

\* resolve_confidence_class: the class asked for, under the speculative ceiling.
Mut_Resolve(speculative, class) == class
Resolve(speculative, class) == IF speculative /\ class = 2 THEN 1 ELSE class

-----------------------------------------------------------------------------
(* Reading                                                                  *)

\* _admit: what current-truth retrieval shows (system rows aside).
Mut_Admit(b) == b.status \in {"open", "candidate", "promoted", "archived"}
Admit(b) ==
    /\ b.review # "rejected"
    /\ b.status \in {"open", "candidate", "promoted", "archived"}

\* build_visible_corpus: the session archive is laid over the index.
\* (add_bead gives every bead a session, "unknown" if need be.)
Visible(b) ==
    IF b \in Archived THEN Admit(line[b]) ELSE b \in Indexed /\ Admit(index[b])

-----------------------------------------------------------------------------
(* Writing                                                                  *)

\* add_bead_for_store: the archive line is written before the index.
\* Its class starts at the floor its grounding, or the caller, gives it.
NewBead(b, floor) ==
    [status |-> "open", review |-> "none",
     class |-> Resolve(b \in SpeculativeAtBirth, floor),
     speculative |-> b \in SpeculativeAtBirth, promo |-> "none",
     detail |-> TRUE, ptr |-> 0]

Crashing == crashes < MaxCrashes /\ crashes' = crashes + 1

\* Mutant of AddBead: the index first, the archive line after it.
Mut_AddBead(b, floor) ==
    /\ b \notin Archived \cup Indexed
    /\ index' = Put(index, b, NewBead(b, floor))
    /\ \/ line' = Put(line, b, NewBead(b, floor)) /\ UNCHANGED crashes
       \/ UNCHANGED line /\ Crashing
    /\ UNCHANGED <<revs, tombstones, scan, verdict, retired>>

AddBead(b, floor) ==
    /\ b \notin Archived \cup Indexed
    /\ line' = Put(line, b, NewBead(b, floor))
    /\ \/ index' = Put(index, b, NewBead(b, floor)) /\ UNCHANGED crashes
       \/ UNCHANGED index /\ Crashing
    /\ UNCHANGED <<revs, tombstones, scan, verdict, retired>>

\* _append_bead_snapshot, of the bead just written to the index.
Mut_Snapshot(b, bead) == line' = line
Snapshot(b, bead) == line' = Put(line, b, bead)

\* A lifecycle operation: the index, then the archive, then what it decided.
\* Killed in between, it has changed the index only.
Change(b, bead, decision, retires) ==
    /\ b \in Indexed
    /\ index' = [index EXCEPT ![b] = bead]
    /\ \/ /\ Snapshot(b, bead)
          /\ verdict' = [verdict EXCEPT ![b] = decision]
          /\ retired' = IF retires THEN retired \cup {b} ELSE retired
          /\ UNCHANGED crashes
       \/ /\ verdict' = [verdict EXCEPT ![b] = IF decision = @ THEN @ ELSE "torn"]
          /\ UNCHANGED <<line, retired>> /\ Crashing
    /\ UNCHANGED <<revs, tombstones, scan>>

\* Mutant of Vouched: the class is set, the grounding forgotten.
Mut_Vouched(bead) == [bead EXCEPT !.class = 2]
\* confirm and approve: class A, and a speculative bead is now grounded.
Vouched(bead) == [bead EXCEPT !.class = 2, !.speculative = FALSE]

Supersede(b) ==
    Change(b, [index[b] EXCEPT !.status = "superseded"], verdict[b], TRUE)
MarkOutdated(b) ==
    Change(b, [index[b] EXCEPT !.status = "outdated"], verdict[b], FALSE)
Confirm(b) == Change(b, Vouched(index[b]), verdict[b], FALSE)
RequestApproval(b) ==
    Change(b, [index[b] EXCEPT !.review = "pending"], "pending", FALSE)
Approve(b) ==
    Change(b, [Vouched(index[b]) EXCEPT !.review = "approved"], "approved", FALSE)
Reject(b) ==
    Change(b, [index[b] EXCEPT !.review = "rejected", !.status = "archived"],
           "rejected", FALSE)
\* recall raises to B; raise_confidence_class_for_bead never lowers.
Mut_Recall(b) == Change(b, [index[b] EXCEPT !.class = 1], verdict[b], FALSE)
Recall(b) ==
    Change(b, [index[b] EXCEPT !.class = Higher(@, 1)], verdict[b], FALSE)
\* promote_for_store, its quality gates passed: resolve_confidence_class caps
\* a speculative bead at B.
Promote(b) ==
    Change(b, [index[b] EXCEPT !.status = "promoted", !.promo = "promoted",
                 !.class = Resolve(index[b].speculative, 2)],
           verdict[b], FALSE)

Lifecycle(b) ==
    \/ Supersede(b) \/ MarkOutdated(b) \/ Confirm(b) \/ RequestApproval(b)
    \/ Approve(b) \/ Reject(b) \/ Recall(b) \/ Promote(b)

-----------------------------------------------------------------------------
(* Decisions and compaction: these write the index only                     *)

Rewrite(b, bead) == index' = [index EXCEPT ![b] = bead]

\* is_promotion_locked; the status counts only when no state is recorded.
Locked(bead) ==
    bead.promo = "promoted" \/ (bead.promo = "none" /\ bead.status = "promoted")

\* append_archive_snapshot: the whole bead, before it is blanked.
Mut_Archive(b, bead) == revs' = [revs EXCEPT ![b] = Append(@, [bead EXCEPT !.detail = FALSE])]
Archive(b, bead) == revs' = [revs EXCEPT ![b] = Append(@, bead)]

\* What is left in the index of a bead archived under its next revision.
Stub(b) == [index[b] EXCEPT !.status = "archived", !.detail = FALSE,
                            !.ptr = Len(revs[b]) + 1]

\* The revision, then the index; killed in between, only the revision is there.
ArchiveThen(b, stub) ==
    /\ Len(revs[b]) < MaxRevs
    /\ Archive(b, index[b])
    /\ \/ Rewrite(b, stub) /\ UNCHANGED crashes
       \/ UNCHANGED index /\ Crashing
    /\ UNCHANGED <<line, tombstones, scan, verdict, retired>>

DecidePromote(b) ==
    /\ b \in Indexed
    /\ Rewrite(b, [index[b] EXCEPT !.status = "promoted", !.promo = "promoted"])
    /\ UNCHANGED <<line, revs, tombstones, scan, verdict, retired, crashes>>

DecideKeep(b) ==
    /\ b \in Indexed /\ ~Locked(index[b])
    /\ Rewrite(b, [index[b] EXCEPT !.promo = "candidate",
                     !.status = IF @ \in {"archived", "superseded"} THEN @ ELSE "open"])
    /\ UNCHANGED <<line, revs, tombstones, scan, verdict, retired, crashes>>

DecideArchive(b) ==
    /\ b \in Indexed /\ ~Locked(index[b])
    /\ ArchiveThen(b, [Stub(b) EXCEPT !.promo = "none"])

\* compact_for_store.  A flush forces: candidates and promoted beads too.
Compact(b, force) ==
    /\ b \in Indexed
    /\ force \/ (index[b].promo # "candidate" /\ ~Locked(index[b]))
    /\ ~(index[b].status = "archived" /\ index[b].ptr > 0 /\ ~index[b].detail)
    /\ ArchiveThen(b, Stub(b))

\* The revision uncompact reads: the one pointed to, else the last.
Revision(b) == revs[b][IF index[b].ptr > 0 THEN index[b].ptr ELSE Len(revs[b])]

\* uncompact_for_store; also run by retrieval, on archived beads it selected.
Uncompact(b) ==
    /\ b \in Indexed /\ revs[b] # <<>>
    /\ Rewrite(b, [Revision(b) EXCEPT !.status =
                     IF index[b].status = "archived" THEN "open" ELSE index[b].status])
    /\ UNCHANGED <<line, revs, tombstones, scan, verdict, retired, crashes>>

Decision(b) ==
    \/ DecidePromote(b) \/ DecideKeep(b) \/ DecideArchive(b)
    \/ \E force \in BOOLEAN : Compact(b, force)
    \/ Uncompact(b)

-----------------------------------------------------------------------------
(* Removal and the rebuilds                                                 *)

\* remove_beads_for_store: the tombstone, then the index.
Remove(b) ==
    /\ b \in Indexed
    /\ tombstones' = tombstones \cup {b}
    /\ \/ index' = Restrict(index, Indexed \ {b}) /\ UNCHANGED crashes
       \/ UNCHANGED index /\ Crashing
    /\ UNCHANGED <<line, revs, scan, verdict, retired>>

\* rebuild_index: reads the archive, then the tombstones, both outside the
\* lock; then installs its result.  One that dies is one that goes no further.
Idle == [at |-> "idle", beads |-> <<>>]

ReadArchive ==
    /\ "events" \in Rebuilds
    /\ scan' = [at |-> "archive", beads |-> line]
    /\ UNCHANGED <<index, line, revs, tombstones, verdict, retired, crashes>>

ReadTombstones ==
    /\ scan.at = "archive"
    /\ scan' = [at |-> "done",
                beads |-> Restrict(scan.beads, DOMAIN scan.beads \ tombstones)]
    /\ UNCHANGED <<index, line, revs, tombstones, verdict, retired, crashes>>

WriteRebuild ==
    /\ scan.at = "done"
    /\ index' = scan.beads
    /\ scan' = Idle
    /\ UNCHANGED <<line, revs, tombstones, verdict, retired, crashes>>

\* rebuild_index_projection_from_sessions: in the lock, without the tombstones.
RebuildProjection ==
    /\ "sessions" \in Rebuilds
    /\ index' = line
    /\ UNCHANGED <<line, revs, tombstones, scan, verdict, retired, crashes>>

-----------------------------------------------------------------------------
Init ==
    /\ index = <<>> /\ line = <<>>
    /\ revs = [b \in Beads |-> <<>>]
    /\ tombstones = {}
    /\ scan = Idle
    /\ verdict = [b \in Beads |-> "none"]
    /\ retired = {}
    /\ crashes = 0

Next ==
    \/ \E b \in Beads :
         (\E floor \in 0..2 : AddBead(b, floor)) \/ Lifecycle(b) \/ Decision(b) \/ Remove(b)
    \/ ReadArchive \/ ReadTombstones \/ WriteRebuild \/ RebuildProjection

Spec == Init /\ [][Next]_vars

\* A restore is current if the copy that it puts in the index has the review of
\* the one it replaces and no lower class: uncompaction against the index,
\* rebuild_index against the archive as it is when it installs its result.  In
\* general neither is: they are where a review or a class can be lost.
Current(c, d) == c.review = d.review /\ c.class >= d.class
RestoresCurrent ==
    /\ \A b \in Beads : Uncompact(b) => Current(Revision(b), index[b])
    /\ WriteRebuild =>
           \A b \in DOMAIN scan.beads : Current(scan.beads[b], line[b])

\* The store as long as restores are current: nothing decided since the copy.
CurrentSpec == Init /\ [][Next /\ RestoresCurrent]_vars

-----------------------------------------------------------------------------
(* Properties                                                               *)

IsSurface(f) == DOMAIN f \subseteq Beads /\ \A b \in DOMAIN f : f[b] \in Bead

TypeOK ==
    /\ IsSurface(index) /\ IsSurface(line)
    /\ revs \in [Beads -> Seq(Bead)]
    /\ \A b \in Beads : Len(revs[b]) <= MaxRevs
    /\ tombstones \subseteq Beads /\ retired \subseteq Beads
    /\ scan.at \in {"idle", "archive", "done"} /\ IsSurface(scan.beads)
    /\ verdict \in [Beads -> {"none", "pending", "approved", "rejected", "torn"}]
    /\ crashes \in 0..MaxCrashes

\* Every copy of a bead that some operation could still bring back.
Copies(b) ==
    {index[x] : x \in {b} \cap Indexed} \cup {line[x] : x \in {b} \cap Archived}
      \cup {scan.beads[x] : x \in {b} \cap DOMAIN scan.beads}
      \cup {revs[b][i] : i \in 1..Len(revs[b])}

\* A speculative bead is never class A, on any surface it could be restored
\* from: confirming grounds it, promoting it is capped, and no rebuild or
\* uncompaction puts an old grounding beside a new class
\* (resolve_confidence_class, confirm_bead, approve_bead).
SpeculativeCeiling == \A b \in Beads : \A c \in Copies(b) : ~(c.class = 2 /\ c.speculative)

\* Archive first: what is in the index can be rebuilt, whatever was killed.
ArchiveFirst == Indexed \subseteq Archived

\* Compaction blanks a bead's detail only after a revision that holds it is in
\* archive.jsonl: on whichever surface the detail is gone, some revision has
\* it, and an archive pointer names a revision that exists.
DetailKept ==
    \A b \in Beads : \A c \in Copies(b) :
        /\ c.ptr <= Len(revs[b])
        /\ ~c.detail => \E i \in 1..Len(revs[b]) : revs[b][i].detail

\* A bead whose rejection was completed is not shown to retrieval, whatever
\* other lifecycle operation follows or is killed half-way (reject_bead,
\* _admit: "removed from retrieval entirely"), while restores are current.
RejectedStaysHidden == \A b \in Beads : verdict[b] = "rejected" => ~Visible(b)

\* The confidence class on record never falls (raise_confidence_class_for_bead:
\* "Monotonic"), while restores are current.  The record is the archive:
\* retrieval and rebuilds read it.
ClassNeverLowers ==
    [][\A b \in Archived : line'[b].class >= line[b].class]_vars

\* A promotion is terminal: no decision undoes it.
PromotionIsTerminal ==
    [][\A b \in Indexed \cap DOMAIN index' :
         index[b].promo = "promoted" => index'[b].promo = "promoted"]_vars

\* A superseded bead is not shown as current truth.
SupersededStaysHidden == \A b \in retired : ~Visible(b)

\* A removed bead is no longer in active recall.
RemovedIsNotRecalled == \A b \in tombstones : ~Visible(b)

\* A removed bead stays out of the index.
RemovedStaysOut == tombstones \cap Indexed = {}

\* The review decision last taken on a bead is the one the index records, also
\* after a rebuild ("so rebuild_index() preserves the record"), while restores
\* are current.
ReviewIsRecorded ==
    \A b \in Indexed : verdict[b] # "torn" => index[b].review = verdict[b]

\* An added bead that was not removed is in the index.
AddedStaysIndexed == Archived \ tombstones \subseteq Indexed

\* Uncompacting a bead restores its detail.
UncompactRestores ==
    [][\A b \in Beads : Uncompact(b) => index'[b].detail]_vars
=============================================================================
