------------------------------ MODULE Associations ------------------------------
(***************************************************************************)
(* The association records of Core Memory and everything that writes them: *)
(*   persistence/store_relationship_ops.py   link                          *)
(*   runtime/associations/coverage.py        the judge's writes            *)
(*   association/crawler_contract.py         the crawler's side log, merge *)
(*   persistence/store_management_ops.py     deactivation, bead removal    *)
(*   persistence/events.py, store_projection_ops.py    the two rebuilds    *)
(*                                                                         *)
(* index.json holds the beads, their associations and the ids that were    *)
(* retracted.  link and the judge also log an association_created event;   *)
(* the crawler does not: its updates wait in the session's side log and    *)
(* are merged into the index.  rebuild_index knows the events only, the    *)
(* session rebuild keeps the associations of the index it replaces.        *)
(*                                                                         *)
(* Every writer holds the store lock throughout and is one action, with a  *)
(* disjunct for every place between two of its writes where it may be      *)
(* killed.  The merge is taken row by row, for it computes in memory what  *)
(* it writes in one go; while it holds the lock no other writer runs.      *)
(* rebuild_index reads without the lock: it is three actions.              *)
(*                                                                         *)
(* Beads are in the archive from the start.  An edge is its two beads, of  *)
(* one relationship.  A blank status counts as active.  The text, the      *)
(* confidence and the provenance of a record are left out, and with them   *)
(* the rows that fail validation and go to quarantine.                     *)
(***************************************************************************)
EXTENDS Integers, Sequences, FiniteSets

CONSTANTS
    Beads,       \* the beads of the archive
    Session,     \* those of the session whose crawler runs
    Edges,       \* the pairs of beads that are ever associated
    NoBead,      \* a side-log row that is not about a bead
    Hosts,       \* what the host of the store may be using, see Uses
    MaxIds,      \* bound: association ids
    MaxRows,     \* bound: rows waiting in the side log
    MaxCrashes   \* bound: operations killed half-way

(* "link":      it calls link(), which checks nothing                      *)
(* "crawler":   its crawler queues associations and their lifecycle        *)
(* "mark":      its crawler marks beads for promotion                      *)
(* "events", "sessions":    it runs rebuild_index, the session rebuild     *)
(* "review":    it runs the coverage judge (module AssociationReview)      *)
Uses == {"link", "crawler", "mark", "events", "sessions", "review"}
ASSUME HostsAssumption == Hosts \subseteq SUBSET Uses
ASSUME BeadsAssumption == Session \subseteq Beads
ASSUME EdgesAssumption == Edges \subseteq Beads \X Beads
ASSUME NoBeadAssumption == NoBead \notin Beads
ASSUME AssociationBounds ==
    MaxIds \in Nat /\ MaxRows \in Nat /\ MaxCrashes \in Nat

Ids == 1..MaxIds
Statuses == {"absent", "active", "retracted", "superseded"}
Index == [beads : SUBSET Beads, status : [Ids -> Statuses],
          retracted : SUBSET Ids, marks : SUBSET Beads]
Row == [kind : {"mark", "append", "retract", "reaffirm", "supersede"},
        id : 0..MaxIds, new : 0..MaxIds, bead : Beads \cup {NoBead}]

VARIABLES
    host,        \* configuration: what the host uses
    index,       \* index.json
    torn,        \* was its last writer killed while it wrote it in place
    what,        \* what[i]: what association id i stands for, and who minted it
    created,     \* ids with an association_created event
    retractions, \* ids with an association_retracted event
    removed,     \* beads with a bead_removed event
    side,        \* crawler-updates-<session>.jsonl
    merge,       \* the merge that holds the lock: rows taken, its copy of index
    scan,        \* a running rebuild_index: what it has read
    gone,        \* history: ids whose deactivation was completed
    lost,        \* history: ids that a rebuild may bring back
    crashes      \* history: operations killed half-way

events == <<created, retractions, removed>>
ghosts == <<gone, lost>>
vars == <<host, index, torn, what, events, side, merge, scan, ghosts, crashes>>

Minted == 1..Len(what)
Edge(i) == what[i].edge
Present(x) == {i \in Minted : x.status[i] # "absent"}
Ends(e) == {e[1], e[2]}
\* Is there a record of e in x, of any status?
Mut_Recorded(x, e) == \E i \in Minted : x.status[i] = "active" /\ Edge(i) = e
Recorded(x, e) == \E i \in Present(x) : Edge(i) = e

Fresh == [beads |-> Beads, status |-> [i \in Ids |-> "absent"],
          retracted |-> {}, marks |-> {}]
NoMerge == [on |-> FALSE, taken |-> 0, work |-> Fresh]
NoScan == [phase |-> "idle", created |-> {}, retractions |-> {}, removed |-> {}]

Init ==
    /\ host \in Hosts
    /\ index = Fresh /\ torn = FALSE
    /\ what = <<>>
    /\ created = {} /\ retractions = {} /\ removed = {}
    /\ side = <<>>
    /\ merge = NoMerge /\ scan = NoScan
    /\ gone = {} /\ lost = {} /\ crashes = 0

\* A writer takes the store lock and reads the index, which raises if it is torn.
Opens == ~merge.on /\ ~torn
Dies == crashes < MaxCrashes /\ crashes' = crashes + 1
Mint(e, by) == Len(what) < MaxIds /\ what' = Append(what, [edge |-> e, by |-> by])
NewId == Len(what) + 1

-----------------------------------------------------------------------------
(* Writers that log events                                                  *)

\* The index gains the minted record and the event follows; killed between
\* the two, or while a writer that rewrites the file in place is at it.
Record(inPlace) ==
    \/ /\ index' = [index EXCEPT !.status[NewId] = "active"]
       /\ \/ created' = created \cup {NewId} /\ UNCHANGED crashes
          \/ UNCHANGED created /\ Dies
       /\ UNCHANGED torn
    \/ inPlace /\ torn' = TRUE /\ Dies /\ UNCHANGED <<index, created>>

\* link_for_store: looks at neither the beads nor the records there are.
Link(e) ==
    /\ Opens /\ "link" \in host
    /\ Mint(e, "link")
    /\ Record(FALSE)
    /\ UNCHANGED <<retractions, removed, side, merge, scan, ghosts>>

\* _write_association_if_missing.
WriteIfMissing(e) ==
    /\ Opens
    /\ Ends(e) \subseteq index.beads
    /\ ~Recorded(index, e)
    /\ Mint(e, "judge")
    /\ Record(TRUE)
    /\ UNCHANGED <<retractions, removed, side, merge, scan, ghosts>>

\* Is an append row for i waiting, or a rebuild running that may not know
\* that i was retracted?
InFlight(i) ==
    \/ scan.phase # "idle"
    \/ \E k \in 1..Len(side) : side[k].kind = "append" /\ side[k].id = i

\* deactivate_association_for_store: the record leaves the index, its id is
\* remembered there, and the event is logged last.
Deactivate(i) ==
    /\ Opens /\ i \in Present(index)
    /\ index' = [index EXCEPT !.status[i] = "absent", !.retracted = @ \cup {i}]
    /\ \/ /\ retractions' = retractions \cup {i}
          /\ gone' = IF InFlight(i) THEN gone ELSE gone \cup {i}
          /\ UNCHANGED <<lost, crashes>>
       \/ lost' = lost \cup {i} /\ Dies /\ UNCHANGED <<retractions, gone>>
    /\ UNCHANGED <<torn, what, created, removed, side, merge, scan>>

\* remove_beads_for_store: the tombstone is logged, then the bead and the
\* associations it takes part in leave the index.
RemoveBead(b) ==
    /\ Opens /\ b \in index.beads
    /\ removed' = removed \cup {b}
    /\ \/ /\ index' = [index EXCEPT
                !.beads = @ \ {b}, !.marks = @ \ {b},
                !.status = [i \in Ids |->
                    IF i \in Minted /\ b \in Ends(Edge(i)) THEN "absent" ELSE @[i]]]
          /\ UNCHANGED crashes
       \/ UNCHANGED index /\ Dies
    /\ UNCHANGED <<torn, what, created, retractions, side, merge, scan, ghosts>>

-----------------------------------------------------------------------------
(* The crawler: rows are queued in the side log                             *)

Queue(row) ==
    /\ Len(side) < MaxRows
    /\ side' = Append(side, row)
    /\ UNCHANGED <<index, torn, events, merge, scan, ghosts, crashes>>
InScope(x, i) == Ends(Edge(i)) \subseteq x.beads \cap Session

\* apply_crawler_updates, an association: its source is a bead of the session,
\* both ends are in the index, and the index has no record of it.  Rows that
\* wait in the log are not looked at.
QueueAppend(e) ==
    /\ Opens /\ "crawler" \in host
    /\ e[1] \in Session /\ Ends(e) \subseteq index.beads
    /\ ~Recorded(index, e)
    /\ Mint(e, "crawler")
    /\ Queue([kind |-> "append", id |-> NewId, new |-> 0, bead |-> NoBead])

\* apply_crawler_updates, the lifecycle of an association of the session.
QueueLifecycle(i, kind, j) ==
    /\ Opens /\ "crawler" \in host
    /\ i \in Present(index) /\ InScope(index, i)
    /\ kind # "supersede" => j = 0
    /\ j # 0 => j \in Present(index) /\ InScope(index, j)
    /\ Queue([kind |-> kind, id |-> i, new |-> j, bead |-> NoBead])
    /\ UNCHANGED what

\* apply_crawler_updates, a promotion mark.
QueueMark(b) ==
    /\ Opens /\ "mark" \in host
    /\ b \in index.beads \cap Session
    /\ Queue([kind |-> "mark", id |-> 0, new |-> 0, bead |-> b])
    /\ UNCHANGED what

-----------------------------------------------------------------------------
(* merge_crawler_updates                                                    *)

\* An appended association whose beads are there and that no record repeats.
Mut_Appends(x, i) == ~Recorded(x, Edge(i))
Appends(x, i) == Ends(Edge(i)) \subseteq x.beads /\ ~Recorded(x, Edge(i))
\* A supersession may name the association that replaces the old one.
Mut_Replaceable(x, j) == j = 0 \/ (x.status[j] = "active" /\ InScope(x, j))
Replaceable(x, j) == j = 0 \/ (j \in Present(x) /\ InScope(x, j))

\* The status a lifecycle row gives its association.
Verdict(kind) == IF kind = "retract" THEN "retracted" ELSE "active"

\* What row makes of the copy x.
Merged(x, row) ==
    LET i == row.id
        found == i \in Present(x) /\ InScope(x, i)
    IN
    CASE row.kind = "mark" ->
            [x EXCEPT !.marks = @ \cup ({row.bead} \cap x.beads)]
      [] row.kind = "append" /\ Appends(x, i) ->
            [x EXCEPT !.status[i] = "active"]
      [] row.kind \in {"retract", "reaffirm"} /\ found ->
            [x EXCEPT !.status[i] = Verdict(row.kind)]
      [] row.kind = "supersede" /\ found /\ Replaceable(x, row.new) ->
            [x EXCEPT !.status = [k \in Ids |->
                IF k = row.new THEN "active"
                ELSE IF k = i THEN "superseded" ELSE @[k]]]
      [] OTHER -> x

MergeStart ==
    /\ Opens /\ side # <<>>
    /\ merge' = [on |-> TRUE, taken |-> 0, work |-> index]
    /\ UNCHANGED <<index, torn, what, events, side, scan, ghosts, crashes>>

MergeRow ==
    /\ merge.on /\ merge.taken < Len(side)
    /\ merge' = [merge EXCEPT !.taken = @ + 1,
                              !.work = Merged(@, side[merge.taken + 1])]
    /\ UNCHANGED <<index, torn, what, events, side, scan, ghosts, crashes>>

\* All rows taken: index.json is rewritten in place, then the log is cleared
\* and the lock released; killed while writing, or between the two.
Mut_MergeWrite ==
    /\ merge.on /\ merge.taken >= Len(side) - 1
    /\ merge' = NoMerge
    /\ index' = merge.work
    /\ side' = <<>>
    /\ UNCHANGED <<torn, what, events, scan, ghosts, crashes>>
MergeWrite ==
    /\ merge.on /\ merge.taken = Len(side)
    /\ merge' = NoMerge
    /\ \/ index' = merge.work /\ side' = <<>> /\ UNCHANGED <<torn, crashes>>
       \/ index' = merge.work /\ UNCHANGED <<side, torn>> /\ Dies
       \/ torn' = TRUE /\ UNCHANGED <<index, side>> /\ Dies
    /\ UNCHANGED <<what, events, scan, ghosts>>

-----------------------------------------------------------------------------
(* The rebuilds                                                             *)

\* rebuild_index reads the association events (and the bead archives) ...
RebuildRead ==
    /\ "events" \in host /\ scan.phase = "idle"
    /\ scan' = [scan EXCEPT !.phase = "removals", !.created = created,
                            !.retractions = retractions]
    /\ UNCHANGED <<index, torn, what, events, side, merge, ghosts, crashes>>

\* ... then the session event files, where the tombstones are ...
RebuildReadRemovals ==
    /\ scan.phase = "removals"
    /\ scan' = [scan EXCEPT !.phase = "write", !.removed = removed]
    /\ UNCHANGED <<index, torn, what, events, side, merge, ghosts, crashes>>

\* ... and replaces the index, now under the lock, by what it has read.
Mut_Restored == {i \in scan.created : Ends(Edge(i)) \cap scan.removed = {}}
Restored ==
    {i \in scan.created \ scan.retractions : Ends(Edge(i)) \cap scan.removed = {}}
RebuildWrite ==
    /\ scan.phase = "write" /\ ~merge.on
    /\ index' = [beads |-> Beads \ scan.removed,
                 status |-> [i \in Ids |->
                     IF i \in Restored THEN "active" ELSE "absent"],
                 retracted |-> scan.retractions,
                 marks |-> {}]
    /\ torn' = FALSE
    /\ lost' = lost \cup (created \ scan.created)
    /\ scan' = NoScan
    /\ UNCHANGED <<what, events, side, merge, gone, crashes>>

\* rebuild_index_projection_from_sessions_for_store: the beads of the archive,
\* the associations of the index, and nothing else.
RebuildSessions ==
    /\ "sessions" \in host /\ Opens
    /\ index' = [Fresh EXCEPT !.status = index.status]
    /\ UNCHANGED <<torn, what, events, side, merge, scan, ghosts, crashes>>

\* merge_crawler_updates, killed before it writes anything.
MergeDie ==
    /\ merge.on /\ Dies
    /\ merge' = NoMerge
    /\ UNCHANGED <<index, torn, what, events, side, scan, ghosts>>

Step ==
    \/ \E e \in Edges : Link(e) \/ WriteIfMissing(e) \/ QueueAppend(e)
    \/ \E i \in Minted :
        \/ Deactivate(i)
        \/ \E kind \in {"retract", "reaffirm", "supersede"}, j \in 0..Len(what) :
                QueueLifecycle(i, kind, j)
    \/ \E b \in Beads : RemoveBead(b) \/ QueueMark(b)
    \/ MergeStart \/ MergeRow \/ MergeWrite \/ MergeDie
    \/ RebuildRead \/ RebuildReadRemovals \/ RebuildWrite \/ RebuildSessions

Next == Step /\ UNCHANGED host
Spec == Init /\ [][Next]_vars

-----------------------------------------------------------------------------
(* Properties                                                               *)

TypeOK ==
    /\ host \in Hosts /\ index \in Index /\ torn \in BOOLEAN
    /\ what \in Seq([edge : Edges, by : {"link", "judge", "crawler"}])
    /\ Len(what) <= MaxIds
    /\ created \subseteq Minted /\ retractions \subseteq Minted
    /\ removed \subseteq Beads
    /\ side \in Seq(Row) /\ Len(side) <= MaxRows
    /\ merge \in [on : BOOLEAN, taken : 0..Len(side), work : Index]
    /\ scan \in [phase : {"idle", "removals", "write"}, created : SUBSET Minted,
                 retractions : SUBSET Minted, removed : SUBSET Beads]
    /\ gone \subseteq Minted /\ lost \subseteq Minted
    /\ crashes \in 0..MaxCrashes

\* What the judge or the crawler associates are beads of the index, whatever
\* is removed, merged, replayed or rebuilt (link() looks at neither bead).
EdgesAreAnchored ==
    \A i \in Present(index) :
        what[i].by # "link" => Ends(Edge(i)) \subseteq index.beads

\* The judge and the crawler, each looking before it writes, make one record of
\* an edge between them; two can be there only if one of them had left the index
\* by a killed deactivation or a rebuild that raced its writer, and came back.
OneRecordPerEdge ==
    \A i, j \in Present(index) :
        /\ Edge(i) = Edge(j) /\ what[i].by # "link" /\ what[j].by # "link"
        /\ i \notin lost /\ j \notin lost
        => i = j

\* An association whose deactivation was completed, while no rebuild was running
\* and no row for it was waiting in the side log, never comes back: no merge, no
\* rebuild and no replay restores it.
RetractionSticks == ~torn => gone \cap Present(index) = {}

\* A queued update leaves the side log only when the index has what it asked
\* for: the mark is set and the edge recorded, or a bead of it is not there.
Arrived(x, row) ==
    CASE row.kind = "mark" -> row.bead \in x.marks \/ row.bead \notin x.beads
      [] row.kind = "append" ->
            Recorded(x, Edge(row.id)) \/ ~(Ends(Edge(row.id)) \subseteq x.beads)
      [] OTHER -> TRUE
QueuedUpdatesArrive ==
    [][\A k \in 1..Len(side) : Len(side') < k => ~torn' /\ Arrived(index', side[k])]_vars

\* Killed between writing the index and clearing the log, the merge is done
\* again: taking all rows a second time changes nothing.
Replayed[n \in 0..Len(side)] ==
    IF n = 0 THEN merge.work ELSE Merged(Replayed[n - 1], side[n])
ReplayIsIdempotent ==
    merge.on /\ merge.taken = Len(side) => Replayed[Len(side)] = merge.work

-----------------------------------------------------------------------------
(* What does not hold                                                       *)

\* A rebuild keeps the associations whose beads it keeps.  It loses what the
\* crawler merged and the judge's writes that were killed before their event.
RebuildKeepsAssociations ==
    [][scan.phase = "write" /\ scan'.phase = "idle" /\ scan.created = created =>
        \A i \in Present(index) :
            Ends(Edge(i)) \subseteq index'.beads => index'.status[i] # "absent"]_vars

\* An association with a retraction event is not in the index.  The row that
\* appended it, replayed, or a rebuild that had read its events brings it back.
RetractedStaysOut == ~torn => retractions \cap Present(index) = {}

\* No edge has two records.  link() does not look, and a rebuild restores what
\* a killed deactivation had taken out.
NoSecondRecord == \A i, j \in Present(index) : Edge(i) = Edge(j) => i = j

\* A merge that is killed leaves an index that can be read: Stage 4 of the
\* session enrichment "leaves no half-applied state".
MergeIsAtomic == [][merge.on /\ ~merge'.on => ~torn']_vars
=============================================================================
