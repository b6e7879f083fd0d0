------------------------ MODULE AssociationReviewProofs ------------------------
(***************************************************************************)
(* What Associations and AssociationReview guarantee for any processes,    *)
(* beads, edges, hosts and queued runs, and any number of associations,    *)
(* waiting rows, runs, decisions and kills.                                *)
(***************************************************************************)
EXTENDS AssociationReview, TLAPS

(***************************************************************************)
(* 1. The associations.                                                    *)
(*                                                                         *)
(* Inv has four parts besides the types.  MergeInv: nobody touches the     *)
(* index while a merge works on its copy, which has all the records of the *)
(* index and what the rows taken asked for.  AnchorInv: index and copy     *)
(* hold associations of beads they hold.  GoneInv: a completed deactivation *)
(* is in the events of everybody who may restore associations.  UniqueInv: *)
(* whatever is logged as created and not as taken out is in the index, so  *)
(* that what a rebuild has read is as unique as the index was.             *)
(***************************************************************************)

\* Row k of the side log, and the ids that append rows carry.
Appended(i) == \E k \in 1..Len(side) : side[k].kind = "append" /\ side[k].id = i

MergeInv ==
    /\ \A k \in 1..Len(side) : side[k].kind = "append" => side[k].id \in Minted
    /\ \A i \in Ids \ Minted : index.status[i] = "absent"
    /\ merge.on =>
         /\ ~torn
         /\ Present(index) \subseteq Present(merge.work)
         /\ \A i \in Ids \ Minted : merge.work.status[i] = "absent"
         /\ \A k \in 1..merge.taken : Arrived(merge.work, side[k])

\* The associations of x, but those of link(), are of beads of x.
Anchored(x) ==
    \A i \in Present(x) : what[i].by # "link" => Ends(Edge(i)) \subseteq x.beads
AnchorInv == Anchored(index) /\ (merge.on => Anchored(merge.work))

GoneInv ==
    /\ gone \subseteq retractions
    /\ \A i \in gone :
         /\ i \notin Present(index)
         /\ merge.on => i \notin Present(merge.work)
         /\ ~Appended(i)
         /\ scan.phase # "idle" => i \in scan.retractions

\* No two of the associations s are records of one edge.
Unique(s) ==
    \A i, j \in s :
        /\ Edge(i) = Edge(j) /\ what[i].by # "link" /\ what[j].by # "link"
        /\ i \notin lost /\ j \notin lost
        => i = j
\* Associations of beads that are not in bs.
Without(s, bs) == {i \in s : Ends(Edge(i)) \cap bs = {}}
\* The tombstones a running rebuild will find.
Tombstones == IF scan.phase = "write" THEN scan.removed ELSE removed

UniqueInv ==
    /\ Unique(Present(index))
    /\ merge.on => Unique(Present(merge.work))
    /\ Without(created \ (retractions \cup lost), removed) \subseteq Present(index)
    /\ scan.phase # "idle" =>
         /\ scan.created \subseteq created /\ scan.retractions \subseteq retractions
         /\ Unique(Without(scan.created \ scan.retractions, Tombstones))
    /\ scan.phase = "write" => scan.removed \subseteq removed

Inv == TypeOK /\ MergeInv /\ AnchorInv /\ GoneInv /\ UniqueInv

-----------------------------------------------------------------------------
(* What a new id, a row of the side log and a copy of the index are         *)

LEMMA FreshIndex == Fresh \in Index /\ NoMerge.work \in Index
BY DEF Fresh, Index, NoMerge, Statuses

\* A new association gets a new id and leaves the others as they were.
LEMMA Minting ==
    ASSUME TypeOK, NEW e \in Edges, NEW by \in {"link", "judge", "crawler"},
           Mint(e, by)
    PROVE  /\ NewId \in Ids /\ NewId \notin Minted
           /\ Minted' = Minted \cup {NewId}
           /\ \A i \in Minted : what'[i] = what[i]
           /\ what'[NewId] = [edge |-> e, by |-> by]
           /\ what' \in Seq([edge : Edges, by : {"link", "judge", "crawler"}])
           /\ Len(what') <= MaxIds
<1> USE AssociationBounds DEF TypeOK, Mint, NewId, Minted, Ids
<1>1. [edge |-> e, by |-> by] \in [edge : Edges, by : {"link", "judge", "crawler"}]
  OBVIOUS
<1>2. Len(what) \in Nat /\ Len(what) < MaxIds /\ Len(what') = Len(what) + 1
  BY <1>1
<1>3. \A i \in 1..Len(what) : what'[i] = what[i]
  BY <1>1
<1>4. what'[Len(what) + 1] = [edge |-> e, by |-> by]
  BY <1>1
<1>5. what' \in Seq([edge : Edges, by : {"link", "judge", "crawler"}])
  BY <1>1
<1> QED BY <1>2, <1>3, <1>4, <1>5

LEMMA MintedAreIds == TypeOK => Minted \subseteq Ids
BY AssociationBounds DEF TypeOK, Minted, Ids

\* A row takes no association out of the copy, brings at most its own in, and
\* the copy then has what the row asked for.
LEMMA Merging ==
    ASSUME TypeOK, NEW x \in Index, NEW row \in Row,
           row.kind = "append" => row.id \in Minted
    PROVE  /\ Merged(x, row) \in Index
           /\ Merged(x, row).beads = x.beads
           /\ x.marks \subseteq Merged(x, row).marks
           /\ \A i \in Ids : x.status[i] # "absent" => Merged(x, row).status[i] # "absent"
           /\ \A i \in Ids : Merged(x, row).status[i] # "absent" =>
                  \/ x.status[i] # "absent"
                  \/ row.kind = "append" /\ i = row.id /\ Appends(x, i)
           /\ Arrived(Merged(x, row), row)
<1> DEFINE y == Merged(x, row)
           found == row.id \in Present(x) /\ InScope(x, row.id)
<1>0. Minted \subseteq Ids
  BY MintedAreIds
<1> USE DEF Index
<1>1. CASE row.kind = "mark"
  <2>1. y = [x EXCEPT !.marks = @ \cup ({row.bead} \cap x.beads)]
    BY <1>1 DEF Merged
  <2>2. y \in Index /\ (row.bead \in y.marks \/ row.bead \notin y.beads)
    BY <2>1
  <2> QED BY <1>1, <2>1, <2>2 DEF Arrived
<1>2. CASE row.kind = "append" /\ Appends(x, row.id)
  <2>1. y = [x EXCEPT !.status[row.id] = "active"]
    BY <1>2 DEF Merged
  <2>2. row.id \in Ids /\ row.id \in Minted /\ y.status[row.id] = "active"
    BY <1>0, <1>2, <2>1
  <2>3. Recorded(y, Edge(row.id))
    BY <2>2 DEF Recorded, Present
  <2>4. y \in Index
    BY <2>1, <2>2 DEF Statuses
  <2> QED BY <1>2, <2>1, <2>2, <2>3, <2>4 DEF Arrived
<1>3. CASE row.kind \in {"retract", "reaffirm"} /\ found
  <2>1. y = [x EXCEPT !.status[row.id] = Verdict(row.kind)]
    BY <1>3 DEF Merged
  <2>2. Verdict(row.kind) \in Statuses \ {"absent"}
    BY <1>3 DEF Verdict, Statuses
  <2>3. row.id \in Ids /\ x.status[row.id] # "absent"
    BY <1>0, <1>3 DEF Present
  <2>4. y \in Index
    BY <2>1, <2>2, <2>3
  <2> QED BY <1>3, <2>1, <2>2, <2>3, <2>4 DEF Arrived
<1>4. CASE row.kind = "supersede" /\ found /\ Replaceable(x, row.new)
  <2>1. y = [x EXCEPT !.status = [k \in Ids |->
                IF k = row.new THEN "active"
                ELSE IF k = row.id THEN "superseded" ELSE x.status[k]]]
    BY <1>4 DEF Merged
  <2>2. row.id \in Ids /\ x.status[row.id] # "absent"
    BY <1>0, <1>4 DEF Present
  <2>3. row.new \in Ids => x.status[row.new] # "absent"
    BY <1>4 DEF Replaceable, Present, Ids
  <2>4. y \in Index
    BY <2>1 DEF Statuses
  <2> QED BY <1>4, <2>1, <2>2, <2>3, <2>4 DEF Arrived
<1>5. CASE /\ ~(row.kind = "mark")
           /\ ~(row.kind = "append" /\ Appends(x, row.id))
           /\ ~(row.kind \in {"retract", "reaffirm"} /\ found)
           /\ ~(row.kind = "supersede" /\ found /\ Replaceable(x, row.new))
  <2>1. y = x
    BY <1>5 DEF Merged
  <2>2. row.kind = "append" =>
           Recorded(x, Edge(row.id)) \/ ~(Ends(Edge(row.id)) \subseteq x.beads)
    BY <1>5 DEF Appends
  <2> QED BY <1>5, <2>1, <2>2 DEF Arrived
<1> QED BY <1>1, <1>2, <1>3, <1>4, <1>5

-----------------------------------------------------------------------------
(* Type correctness                                                         *)

LEMMA InitInv == Init => Inv
<1> SUFFICES ASSUME Init PROVE Inv
  OBVIOUS
<1> USE FreshIndex, AssociationBounds DEF Init
<1>1. Minted = {} /\ side = <<>> /\ Len(side) = 0 /\ ~merge.on /\ scan.phase = "idle"
  BY DEF Minted, NoMerge, NoScan
<1>2. TypeOK
  <2>1. merge \in [on : BOOLEAN, taken : 0..Len(side), work : Index]
    BY <1>1 DEF NoMerge
  <2>2. scan \in [phase : {"idle", "removals", "write"}, created : SUBSET Minted,
                  retractions : SUBSET Minted, removed : SUBSET Beads]
    BY DEF NoScan
  <2>3. what \in Seq([edge : Edges, by : {"link", "judge", "crawler"}])
        /\ Len(what) <= MaxIds /\ side \in Seq(Row) /\ Len(side) <= MaxRows
    BY <1>1
  <2>4. host \in Hosts /\ torn \in BOOLEAN
    OBVIOUS
  <2>7. crashes \in 0..MaxCrashes
    OBVIOUS
  <2>6. index \in Index
    BY FreshIndex
  <2>5. /\ created \subseteq Minted /\ retractions \subseteq Minted
        /\ removed \subseteq Beads /\ gone \subseteq Minted /\ lost \subseteq Minted
    OBVIOUS
  <2> HIDE DEF Init
  <2> QED BY <2>1, <2>2, <2>3, <2>4, <2>5, <2>6, <2>7 DEF TypeOK
<1>3. Present(index) = {}
  BY <1>1 DEF Present
<1>4. MergeInv
  BY <1>1 DEF MergeInv, Fresh
<1>5. AnchorInv /\ GoneInv
  BY <1>1, <1>3 DEF AnchorInv, Anchored, GoneInv
<1>6. UniqueInv
  BY <1>1, <1>3 DEF UniqueInv, Unique, Without
<1> QED BY <1>2, <1>4, <1>5, <1>6 DEF Inv

\* An id that joins the minted ones leaves every type but its own alone.
LEMMA TypeStep == TypeOK /\ MergeInv /\ [Next]_vars => TypeOK'
<1> SUFFICES ASSUME TypeOK, MergeInv, [Next]_vars PROVE TypeOK'
  OBVIOUS
<1> USE AssociationBounds, BeadsAssumption DEF TypeOK, Dies, ghosts, events
<1>0. Minted \subseteq Ids
  BY MintedAreIds
<1>a. UNCHANGED what => Minted' = Minted
  BY DEF Minted
<1>b. Index' = Index /\ Row' = Row
  OBVIOUS
<1>1. ASSUME NEW e \in Edges, NEW by \in {"link", "judge"}, NEW inPlace \in BOOLEAN,
             ~merge.on, Mint(e, by), Record(inPlace),
             UNCHANGED <<host, retractions, removed, side, merge, scan, ghosts>>
      PROVE  TypeOK'
  <2>1. /\ NewId \in Ids /\ Minted' = Minted \cup {NewId}
        /\ what' \in Seq([edge : Edges, by : {"link", "judge", "crawler"}])
        /\ Len(what') <= MaxIds
    BY <1>1, Minting
  <2>2. index' \in Index
    <3>1. index' = index \/ index' = [index EXCEPT !.status[NewId] = "active"]
      BY <1>1 DEF Record
    <3>2. ASSUME NEW i \in Ids, index' = [index EXCEPT !.status[i] = "active"]
          PROVE  index' \in Index
      BY <3>2 DEF Index, Statuses
    <3> QED BY <2>1, <3>1, <3>2
  <2>6. torn' \in BOOLEAN
    BY <1>1 DEF Record
  <2>3. crashes' \in 0..MaxCrashes
    BY <1>1 DEF Record
  <2>4. created' \subseteq Minted'
    BY <1>1, <2>1 DEF Record
  <2>5. scan' \in [phase : {"idle", "removals", "write"}, created : SUBSET Minted',
                   retractions : SUBSET Minted', removed : SUBSET Beads]
    BY <1>1, <2>1
  <2> QED BY <1>1, <2>1, <2>2, <2>3, <2>4, <2>5, <2>6
<1>2. ASSUME NEW e \in Edges, Link(e), UNCHANGED host PROVE TypeOK'
  BY <1>1, <1>2 DEF Link, Opens
<1>3. ASSUME NEW e \in Edges, WriteIfMissing(e), UNCHANGED host PROVE TypeOK'
  BY <1>1, <1>3 DEF WriteIfMissing, Opens
<1>4. ASSUME NEW row \in Row, Queue(row), UNCHANGED host, ~merge.on,
             Minted \subseteq Minted', Len(what') <= MaxIds,
             what' \in Seq([edge : Edges, by : {"link", "judge", "crawler"}])
      PROVE  TypeOK'
  <2>1. side' \in Seq(Row) /\ Len(side') = Len(side) + 1 /\ Len(side') <= MaxRows
    BY <1>4 DEF Queue
  <2>2. merge' \in [on : BOOLEAN, taken : 0..Len(side'), work : Index]
    BY <1>4, <2>1 DEF Queue
  <2>3. scan' \in [phase : {"idle", "removals", "write"}, created : SUBSET Minted',
                   retractions : SUBSET Minted', removed : SUBSET Beads]
    BY <1>4 DEF Queue
  <2> QED BY <1>4, <2>1, <2>2, <2>3 DEF Queue
<1>5. ASSUME NEW e \in Edges, QueueAppend(e), UNCHANGED host PROVE TypeOK'
  <2>1. /\ NewId \in Ids /\ Minted' = Minted \cup {NewId}
        /\ what' \in Seq([edge : Edges, by : {"link", "judge", "crawler"}])
        /\ Len(what') <= MaxIds
    BY <1>5, Minting DEF QueueAppend
  <2>2. [kind |-> "append", id |-> NewId, new |-> 0, bead |-> NoBead] \in Row
    BY <2>1 DEF Row, Ids
  <2> QED BY <1>4, <1>5, <2>1, <2>2 DEF QueueAppend, Opens
<1>6. ASSUME NEW i \in Minted, NEW kind \in {"retract", "reaffirm", "supersede"},
             NEW j \in 0..Len(what), QueueLifecycle(i, kind, j), UNCHANGED host
      PROVE  TypeOK'
  <2>1. [kind |-> kind, id |-> i, new |-> j, bead |-> NoBead] \in Row
    BY <1>0 DEF Row, Ids
  <2> QED BY <1>4, <1>6, <1>a, <2>1 DEF QueueLifecycle, Opens
<1>7. ASSUME NEW b \in Beads, QueueMark(b), UNCHANGED host PROVE TypeOK'
  <2>1. [kind |-> "mark", id |-> 0, new |-> 0, bead |-> b] \in Row
    BY DEF Row
  <2> QED BY <1>4, <1>7, <1>a, <2>1 DEF QueueMark, Opens
<1>8. ASSUME NEW i \in Minted, Deactivate(i), UNCHANGED host PROVE TypeOK'
  <2>1. index' \in Index
    BY <1>0, <1>8 DEF Deactivate, Index, Statuses
  <2> QED BY <1>8, <1>a, <2>1 DEF Deactivate
<1>9. ASSUME NEW b \in Beads, RemoveBead(b), UNCHANGED host PROVE TypeOK'
  <2>1. index' \in Index
    <3> DEFINE status(i) == IF i \in Minted /\ b \in Ends(Edge(i))
                            THEN "absent" ELSE index.status[i]
    <3>1. \A i \in Ids : status(i) \in Statuses
      BY DEF Index, Statuses
    <3>2. \/ index' = index
          \/ index' = [index EXCEPT !.beads = @ \ {b}, !.marks = @ \ {b},
                                    !.status = [i \in Ids |-> status(i)]]
      BY <1>9 DEF RemoveBead
    <3> HIDE DEF status
    <3>3. [i \in Ids |-> status(i)] \in [Ids -> Statuses]
      BY <3>1
    <3>4. ASSUME NEW f \in [Ids -> Statuses],
                 index' = [index EXCEPT !.beads = @ \ {b}, !.marks = @ \ {b}, !.status = f]
          PROVE  index' \in Index
      BY <3>4 DEF Index
    <3> QED BY <3>2, <3>3, <3>4
  <2> QED BY <1>9, <1>a, <2>1 DEF RemoveBead
<1>10. ASSUME MergeStart, UNCHANGED host PROVE TypeOK'
  BY <1>10, <1>a DEF MergeStart
<1>11. ASSUME MergeRow, UNCHANGED host PROVE TypeOK'
  <2>1. merge.taken + 1 \in 1..Len(side) /\ side[merge.taken + 1] \in Row
    BY <1>11 DEF MergeRow
  <2>2. Merged(merge.work, side[merge.taken + 1]) \in Index
    BY <2>1, Merging DEF MergeInv
  <2>3. merge' \in [on : BOOLEAN, taken : 0..Len(side), work : Index]
    <3>1. /\ merge' = [merge EXCEPT !.taken = merge.taken + 1,
                              !.work = Merged(merge.work, side[merge.taken + 1])]
          /\ merge.taken + 1 \in 0..Len(side)
      BY <1>11, <2>1 DEF MergeRow
    <3>2. ASSUME NEW x \in Index, NEW n \in 0..Len(side),
                 merge' = [merge EXCEPT !.taken = n, !.work = x]
          PROVE  merge' \in [on : BOOLEAN, taken : 0..Len(side), work : Index]
      BY <3>2
    <3> QED BY <2>2, <3>1, <3>2
  <2> QED BY <1>11, <1>a, <2>3 DEF MergeRow
<1>12. ASSUME MergeWrite, UNCHANGED host PROVE TypeOK'
  <2>1. merge' \in [on : BOOLEAN, taken : 0..Len(side'), work : Index]
    BY <1>12, FreshIndex DEF MergeWrite, NoMerge
  <2>2. side' = side \/ side' = <<>>
    BY <1>12 DEF MergeWrite
  <2>3. index' \in Index
    BY <1>12 DEF MergeWrite
  <2>4. torn' \in BOOLEAN
    BY <1>12 DEF MergeWrite
  <2>5. crashes' \in 0..MaxCrashes
    BY <1>12 DEF MergeWrite
  <2>6. side' \in Seq(Row) /\ Len(side') <= MaxRows
    <3>1. CASE side' = side
      BY <3>1
    <3>2. CASE side' = <<>>
      <4>1. <<>> \in Seq(Row) /\ Len(<<>>) = 0 /\ 0 <= MaxRows
        OBVIOUS
      <4> QED BY <3>2, <4>1
    <3> QED BY <2>2, <3>1, <3>2
  <2> QED BY <1>12, <1>a, <2>1, <2>3, <2>4, <2>5, <2>6 DEF MergeWrite
<1>13. ASSUME RebuildRead, UNCHANGED host PROVE TypeOK'
  BY <1>13, <1>a DEF RebuildRead
<1>14. ASSUME RebuildReadRemovals, UNCHANGED host PROVE TypeOK'
  BY <1>14, <1>a DEF RebuildReadRemovals
<1>15. ASSUME RebuildWrite, UNCHANGED host PROVE TypeOK'
  <2>1. index' \in Index
    BY <1>0, <1>15 DEF RebuildWrite, Index, Statuses
  <2> QED BY <1>15, <1>a, <2>1 DEF RebuildWrite, NoScan
<1>16. ASSUME RebuildSessions, UNCHANGED host PROVE TypeOK'
  <2>1. index' \in Index
    BY <1>16 DEF RebuildSessions, Index, Fresh
  <2> QED BY <1>16, <1>a, <2>1 DEF RebuildSessions
<1>17. ASSUME MergeDie, UNCHANGED host PROVE TypeOK'
  BY <1>17, <1>a, FreshIndex DEF MergeDie, NoMerge
<1>18. ASSUME UNCHANGED vars PROVE TypeOK'
  BY <1>18, <1>a DEF vars
<1> QED BY <1>2, <1>3, <1>5, <1>6, <1>7, <1>8, <1>9, <1>10, <1>11, <1>12, <1>13,
          <1>14, <1>15, <1>16, <1>17, <1>18 DEF Next, Step

-----------------------------------------------------------------------------
(* The parts of the invariant                                               *)

\* What Record does to the index, its event and its being torn.
LEMMA Recording ==
    ASSUME TypeOK, NEW inPlace \in BOOLEAN, Record(inPlace), NewId \in Ids
    PROVE  /\ \/ index' = index /\ created' = created
              \/ /\ index' = [index EXCEPT !.status[NewId] = "active"]
                 /\ created' \subseteq created \cup {NewId} /\ created \subseteq created'
           /\ index'.beads = index.beads
           /\ \A i \in Ids : i # NewId => index'.status[i] = index.status[i]
           /\ \A i \in created' : i \in created \/ (i = NewId /\ index'.status[i] = "active")
BY DEF Record, TypeOK, Index, Statuses

LEMMA MergeInvStep == TypeOK /\ MergeInv /\ [Next]_vars => MergeInv'
<1> SUFFICES ASSUME TypeOK, MergeInv, [Next]_vars PROVE MergeInv'
  OBVIOUS
<1> USE DEF MergeInv, ghosts, events, Opens
<1>0. Minted \subseteq Ids
  BY MintedAreIds
<1>a. UNCHANGED what => Minted' = Minted
  BY DEF Minted
\* Nothing of the merge moves, no row is added, at most the new id gets a status.
<1>b. ASSUME ~merge.on, merge' = merge, side' = side, Minted \subseteq Minted',
             \A i \in Ids \ Minted' : index'.status[i] = "absent"
      PROVE  MergeInv'
  BY <1>b
<1>1. ASSUME NEW e \in Edges, NEW by \in {"link", "judge"}, NEW inPlace \in BOOLEAN,
             ~merge.on, Mint(e, by), Record(inPlace), UNCHANGED <<side, merge>>
      PROVE  MergeInv'
  <2>1. NewId \in Ids /\ NewId \notin Minted /\ Minted' = Minted \cup {NewId}
    BY <1>1, Minting
  <2>2. \A i \in Ids \ Minted' : index'.status[i] = "absent"
    BY <1>1, <2>1, Recording
  <2> QED BY <1>1, <1>b, <2>1, <2>2
<1>2. ASSUME NEW e \in Edges, Link(e) PROVE MergeInv'
  BY <1>1, <1>2 DEF Link
<1>3. ASSUME NEW e \in Edges, WriteIfMissing(e) PROVE MergeInv'
  BY <1>1, <1>3 DEF WriteIfMissing
<1>4. ASSUME NEW row \in Row, Queue(row), ~merge.on, Minted \subseteq Minted',
             row.kind = "append" => row.id \in Minted'
      PROVE  MergeInv'
  <2>1. side \in Seq(Row) /\ side' = Append(side, row) /\ index' = index /\ merge' = merge
    BY <1>4 DEF Queue, TypeOK
  <2>2. ASSUME NEW k \in 1..Len(side'), side'[k].kind = "append"
        PROVE  side'[k].id \in Minted'
    <3>1. CASE k \in 1..Len(side)
      BY <1>4, <2>1, <2>2, <3>1
    <3>2. CASE k = Len(side) + 1
      BY <1>4, <2>1, <2>2, <3>2
    <3> QED BY <2>1, <2>2, <3>1, <3>2
  <2> QED BY <1>4, <2>1, <2>2
<1>5. ASSUME NEW e \in Edges, QueueAppend(e) PROVE MergeInv'
  <2>1. NewId \in Ids /\ Minted' = Minted \cup {NewId}
    BY <1>5, Minting DEF QueueAppend
  <2>2. [kind |-> "append", id |-> NewId, new |-> 0, bead |-> NoBead] \in Row
    BY <2>1, AssociationBounds DEF Row, Ids
  <2> QED BY <1>4, <1>5, <2>1, <2>2 DEF QueueAppend
<1>6. ASSUME NEW i \in Minted, NEW kind \in {"retract", "reaffirm", "supersede"},
             NEW j \in 0..Len(what), QueueLifecycle(i, kind, j)
      PROVE  MergeInv'
  <2>1. [kind |-> kind, id |-> i, new |-> j, bead |-> NoBead] \in Row
    BY <1>0, AssociationBounds DEF Row, Ids, TypeOK
  <2> QED BY <1>4, <1>6, <1>a, <2>1 DEF QueueLifecycle
<1>7. ASSUME NEW b \in Beads, QueueMark(b) PROVE MergeInv'
  <2>1. [kind |-> "mark", id |-> 0, new |-> 0, bead |-> b] \in Row
    BY AssociationBounds DEF Row
  <2> QED BY <1>4, <1>7, <1>a, <2>1 DEF QueueMark
<1>8. ASSUME NEW i \in Minted, Deactivate(i) PROVE MergeInv'
  <2>1. \A j \in Ids \ Minted : index'.status[j] = "absent"
    BY <1>8 DEF Deactivate, TypeOK, Index
  <2> QED BY <1>8, <1>a, <1>b, <2>1 DEF Deactivate
<1>9. ASSUME NEW b \in Beads, RemoveBead(b) PROVE MergeInv'
  <2>1. \A j \in Ids \ Minted : index'.status[j] = "absent"
    <3>1. CASE index' = index
      BY <3>1
    <3>2. CASE index' # index
      <4> DEFINE f == [i \in Ids |-> IF i \in Minted /\ b \in Ends(Edge(i))
                                     THEN "absent" ELSE index.status[i]]
      <4>1. index'.status = f
        BY <1>9, <3>2 DEF RemoveBead, TypeOK, Index
      <4> QED BY <4>1
    <3> QED BY <3>1, <3>2
  <2> QED BY <1>9, <1>a, <1>b, <2>1 DEF RemoveBead
<1>10. ASSUME MergeStart PROVE MergeInv'
  BY <1>10, <1>a DEF MergeStart
<1>11. ASSUME MergeRow PROVE MergeInv'
  <2> DEFINE n == merge.taken + 1
             x == merge.work
             y == Merged(x, side[n])
  <2>1. n \in 1..Len(side) /\ side[n] \in Row /\ x \in Index
        /\ (side[n].kind = "append" => side[n].id \in Minted)
    BY <1>11 DEF MergeRow, TypeOK
  <2>2. /\ y.beads = x.beads /\ x.marks \subseteq y.marks
        /\ \A i \in Ids : x.status[i] # "absent" => y.status[i] # "absent"
        /\ \A i \in Ids : y.status[i] # "absent" => x.status[i] # "absent" \/ i \in Minted
        /\ Arrived(y, side[n])
    BY <2>1, Merging
  <2>3. Present(x) \subseteq Present(y)
    BY <1>0, <2>2 DEF Present
  <2>4. \A k \in 1..n : Arrived(y, side[k])
    <3>1. ASSUME NEW k \in 1..merge.taken PROVE Arrived(y, side[k])
      BY <1>11, <2>2, <2>3, <3>1 DEF MergeRow, Arrived, Recorded
    <3> QED BY <2>1, <2>2, <3>1 DEF TypeOK
  <2>5. merge'.on /\ merge'.taken = n /\ merge'.work = y
    BY <1>11 DEF MergeRow, TypeOK
  <2>6. \A i \in Ids \ Minted : y.status[i] = "absent"
    BY <1>11, <2>2 DEF MergeRow
  <2> HIDE DEF n, x, y
  <2>7. \A i \in Present(index) : i \in Present(y)
    BY <1>11, <2>3 DEF MergeRow, x
  <2>8. Present(index)' = Present(index) /\ Present(merge.work)' = Present(y)
    BY <1>11, <1>a, <2>5 DEF MergeRow, Present
  <2>9. \A k \in 1..n : Arrived(merge.work, side[k])'
    BY <1>11, <1>a, <2>4, <2>5 DEF MergeRow, Arrived, Recorded, Present, Edge
  <2> QED BY <1>11, <1>a, <2>5, <2>6, <2>7, <2>8, <2>9 DEF MergeRow
<1>12. ASSUME MergeWrite PROVE MergeInv'
  <2>1. ~merge'.on
    BY <1>12 DEF MergeWrite, NoMerge
  <2>2. side' = side \/ side' = <<>>
    BY <1>12 DEF MergeWrite
  <2>3. \A i \in Ids \ Minted' : index'.status[i] = "absent"
    BY <1>12, <1>a DEF MergeWrite
  <2> QED BY <1>12, <1>a, <2>1, <2>2, <2>3 DEF MergeWrite
<1>13. ASSUME RebuildRead PROVE MergeInv'
  BY <1>13, <1>a DEF RebuildRead, Arrived, Recorded, Present, Edge
<1>14. ASSUME RebuildReadRemovals PROVE MergeInv'
  BY <1>14, <1>a DEF RebuildReadRemovals, Arrived, Recorded, Present, Edge
<1>15. ASSUME RebuildWrite PROVE MergeInv'
  <2>1. \A i \in Ids \ Minted : index'.status[i] = "absent"
    BY <1>15 DEF RebuildWrite, Restored, TypeOK
  <2> QED BY <1>15, <1>a, <1>b, <2>1 DEF RebuildWrite
<1>16. ASSUME RebuildSessions PROVE MergeInv'
  <2>1. index'.status = index.status
    BY <1>16 DEF RebuildSessions, Fresh
  <2> QED BY <1>16, <1>a, <1>b, <2>1 DEF RebuildSessions
<1>17. ASSUME MergeDie PROVE MergeInv'
  BY <1>17, <1>a DEF MergeDie, NoMerge
<1>18. ASSUME UNCHANGED vars PROVE MergeInv'
  BY <1>18, <1>a DEF vars, Arrived, Recorded, Present, Edge
<1> QED BY <1>2, <1>3, <1>5, <1>6, <1>7, <1>8, <1>9, <1>10, <1>11, <1>12, <1>13,
          <1>14, <1>15, <1>16, <1>17, <1>18 DEF Next, Step

\* Associations enter the index, the copy and a rebuilt index with their beads;
\* beads leave with their associations.
LEMMA AnchorInvStep == TypeOK /\ MergeInv /\ AnchorInv /\ [Next]_vars => AnchorInv'
<1> SUFFICES ASSUME TypeOK, MergeInv, AnchorInv, [Next]_vars PROVE AnchorInv'
  OBVIOUS
<1> USE DEF AnchorInv, ghosts, events, Opens
<1>0. Minted \subseteq Ids
  BY MintedAreIds
\* The index gets no association, and keeps the beads of those it has.
<1>a. ASSUME UNCHANGED what, ~merge'.on,
             \A i \in Present(index') : i \in Present(index)
                 /\ (Ends(Edge(i)) \subseteq index.beads => Ends(Edge(i)) \subseteq index'.beads)
      PROVE  AnchorInv'
  BY <1>a DEF Anchored, Present, Minted, Edge
<1>b. ASSUME UNCHANGED <<what, index, merge>> PROVE AnchorInv'
  BY <1>b DEF Anchored, Present, Minted, Edge
<1>1. ASSUME NEW e \in Edges, NEW by \in {"link", "judge"}, NEW inPlace \in BOOLEAN,
             ~merge.on, Mint(e, by), Record(inPlace), UNCHANGED merge,
             by = "link" \/ Ends(e) \subseteq index.beads
      PROVE  AnchorInv'
  <2>1. /\ NewId \in Ids /\ Minted' = Minted \cup {NewId}
        /\ \A i \in Minted : what'[i] = what[i]
        /\ what'[NewId] = [edge |-> e, by |-> by]
    BY <1>1, Minting
  <2>2. index'.beads = index.beads
        /\ \A i \in Ids : i # NewId => index'.status[i] = index.status[i]
    BY <1>1, <2>1, Recording
  <2>3. ASSUME NEW i \in Minted', index'.status[i] # "absent", what'[i].by # "link"
        PROVE  Ends(what'[i].edge) \subseteq index'.beads
    <3>1. CASE i \in Minted /\ i # NewId
      BY <1>0, <2>1, <2>2, <2>3, <3>1 DEF Anchored, Present, Edge
    <3>2. CASE i = NewId
      BY <1>1, <2>1, <2>2, <2>3, <3>2
    <3> QED BY <2>1, <3>1, <3>2
  <2> QED BY <1>1, <2>3 DEF Anchored, Present, Edge
<1>2. ASSUME NEW e \in Edges, Link(e) PROVE AnchorInv'
  BY <1>1, <1>2 DEF Link
<1>3. ASSUME NEW e \in Edges, WriteIfMissing(e) PROVE AnchorInv'
  BY <1>1, <1>3 DEF WriteIfMissing
<1>4. ASSUME NEW e \in Edges, QueueAppend(e) PROVE AnchorInv'
  <2>1. /\ NewId \in Ids /\ NewId \notin Minted /\ Minted' = Minted \cup {NewId}
        /\ \A i \in Minted : what'[i] = what[i]
    BY <1>4, Minting DEF QueueAppend
  <2>2. ~merge.on /\ UNCHANGED <<index, merge>> /\ index.status[NewId] = "absent"
    BY <1>4, <2>1 DEF QueueAppend, Queue, MergeInv
  <2> QED BY <2>1, <2>2 DEF Anchored, Present, Edge
<1>5. ASSUME NEW i \in Minted, NEW kind \in {"retract", "reaffirm", "supersede"},
             NEW j \in 0..Len(what), QueueLifecycle(i, kind, j)
      PROVE  AnchorInv'
  BY <1>5, <1>b DEF QueueLifecycle, Queue
<1>6. ASSUME NEW b \in Beads, QueueMark(b) PROVE AnchorInv'
  BY <1>6, <1>b DEF QueueMark, Queue
<1>7. ASSUME NEW i \in Minted, Deactivate(i) PROVE AnchorInv'
  <2>1. index' = [index EXCEPT !.status[i] = "absent", !.retracted = @ \cup {i}]
    BY <1>7 DEF Deactivate
  <2>2. index'.beads = index.beads /\ index'.status = [index.status EXCEPT ![i] = "absent"]
    BY <2>1 DEF TypeOK, Index
  <2>3. Present(index') \subseteq Present(index)
    BY <1>0, <2>2 DEF Present, TypeOK, Index
  <2> QED BY <1>7, <1>a, <2>2, <2>3 DEF Deactivate
<1>8. ASSUME NEW b \in Beads, RemoveBead(b) PROVE AnchorInv'
  <2> DEFINE f == [i \in Ids |-> IF i \in Minted /\ b \in Ends(Edge(i))
                                 THEN "absent" ELSE index.status[i]]
  <2>1. index' = index \/ (index'.beads = index.beads \ {b} /\ index'.status = f)
    BY <1>8 DEF RemoveBead, TypeOK, Index
  <2>2. CASE index' = index
    BY <1>8, <1>b, <2>2 DEF RemoveBead
  <2>3. CASE index'.beads = index.beads \ {b} /\ index'.status = f
    <3>1. ASSUME NEW i \in Present(index')
          PROVE  i \in Present(index) /\ b \notin Ends(Edge(i))
      <4>1. i \in Minted /\ i \in Ids /\ f[i] # "absent"
        BY <1>0, <2>3, <3>1 DEF Present
      <4> QED BY <4>1 DEF Present
    <3> QED BY <1>8, <1>a, <2>3, <3>1 DEF RemoveBead
  <2> QED BY <2>1, <2>2, <2>3
<1>9. ASSUME MergeStart PROVE AnchorInv'
  BY <1>9 DEF MergeStart, Anchored, Present, Minted, Edge
<1>10. ASSUME MergeRow PROVE AnchorInv'
  <2> DEFINE n == merge.taken + 1
             x == merge.work
             y == Merged(x, side[n])
  <2>1. n \in 1..Len(side) /\ side[n] \in Row /\ x \in Index
        /\ (side[n].kind = "append" => side[n].id \in Minted)
    BY <1>10 DEF MergeRow, TypeOK, MergeInv
  <2>2. /\ y.beads = x.beads
        /\ \A i \in Ids : y.status[i] # "absent" =>
              x.status[i] # "absent" \/ (i = side[n].id /\ Appends(x, i))
    BY <2>1, Merging
  <2>3. Anchored(x) /\ merge'.work = y /\ UNCHANGED <<index, what>>
    BY <1>10 DEF MergeRow, TypeOK
  <2> HIDE DEF n, x, y
  <2>4. Anchored(y)
    BY <1>0, <2>2, <2>3 DEF Anchored, Present, Appends
  <2> QED BY <2>3, <2>4 DEF Anchored, Present, Minted, Edge
<1>11. ASSUME MergeWrite PROVE AnchorInv'
  BY <1>11 DEF MergeWrite, NoMerge, Anchored, Present, Minted, Edge
<1>12. ASSUME RebuildRead PROVE AnchorInv'
  BY <1>12, <1>b DEF RebuildRead
<1>13. ASSUME RebuildReadRemovals PROVE AnchorInv'
  BY <1>13, <1>b DEF RebuildReadRemovals
<1>14. ASSUME RebuildWrite PROVE AnchorInv'
  <2>1. index'.beads = Beads \ scan.removed /\ UNCHANGED <<what, merge>>
        /\ \A i \in Minted : index'.status[i] # "absent" => i \in Restored
    BY <1>0, <1>14 DEF RebuildWrite
  <2>2. ASSUME NEW i \in Minted, i \in Restored PROVE Ends(Edge(i)) \subseteq index'.beads
    <3>1. Edge(i) \in Beads \X Beads
      <4> DEFINE S == [edge : Edges, by : {"link", "judge", "crawler"}]
      <4>1. what[i] \in S
        <5>1. what \in Seq(S)
          BY DEF TypeOK
        <5>2. i \in 1..Len(what)
          BY <2>2 DEF Minted
        <5> HIDE DEF S
        <5> QED BY <5>1, <5>2
      <4> QED BY <4>1, EdgesAssumption DEF Edge
    <3> QED BY <2>1, <2>2, <3>1 DEF Restored, Ends
  <2> QED BY <1>14, <2>1, <2>2 DEF RebuildWrite, Anchored, Present, Minted, Edge
<1>15. ASSUME RebuildSessions PROVE AnchorInv'
  <2>1. index'.status = index.status /\ index'.beads = Beads /\ index.beads \subseteq Beads
    BY <1>15 DEF RebuildSessions, Fresh, TypeOK, Index
  <2> QED BY <1>15, <1>a, <2>1 DEF RebuildSessions, Present
<1>16. ASSUME MergeDie PROVE AnchorInv'
  BY <1>16, <1>a DEF MergeDie, NoMerge
<1>17. ASSUME UNCHANGED vars PROVE AnchorInv'
  BY <1>17, <1>b DEF vars
<1> QED BY <1>2, <1>3, <1>4, <1>5, <1>6, <1>7, <1>8, <1>9, <1>10, <1>11, <1>12, <1>13,
          <1>14, <1>15, <1>16, <1>17 DEF Next, Step

\* A completed deactivation: nothing that may still restore associations has
\* the id without its retraction.
LEMMA GoneInvStep == TypeOK /\ MergeInv /\ GoneInv /\ [Next]_vars => GoneInv'
<1> SUFFICES ASSUME TypeOK, MergeInv, GoneInv, [Next]_vars PROVE GoneInv'
  OBVIOUS
<1> USE DEF GoneInv, ghosts, events, Opens
<1>0. Minted \subseteq Ids /\ gone \subseteq Minted
  BY MintedAreIds DEF TypeOK
\* The index and the copy get no association, the side log no row.
<1>a. ASSUME UNCHANGED <<gone, retractions>>,
             \A i \in gone : index.status[i] = "absent" => index'.status[i] = "absent",
             merge'.on => merge' = merge,
             side' = side \/ side' = <<>>,
             scan' = scan \/ (scan'.phase # "idle" => gone \subseteq scan'.retractions)
      PROVE  GoneInv'
  BY <1>0, <1>a DEF Present, Minted, Appended
<1>1. ASSUME NEW e \in Edges, NEW by \in {"link", "judge"}, NEW inPlace \in BOOLEAN,
             Mint(e, by), Record(inPlace),
             UNCHANGED <<retractions, removed, side, merge, scan, ghosts>>
      PROVE  GoneInv'
  <2>1. NewId \in Ids /\ NewId \notin Minted
    BY <1>1, Minting
  <2>2. \A i \in Ids : i # NewId => index'.status[i] = index.status[i]
    BY <1>1, <2>1, Recording
  <2> QED BY <1>0, <1>1, <1>a, <2>1, <2>2
<1>2. ASSUME NEW e \in Edges, Link(e) PROVE GoneInv'
  BY <1>1, <1>2 DEF Link
<1>3. ASSUME NEW e \in Edges, WriteIfMissing(e) PROVE GoneInv'
  BY <1>1, <1>3 DEF WriteIfMissing
<1>4. ASSUME NEW row, Queue(row), row.kind = "append" => row.id \notin gone
      PROVE  GoneInv'
  <2>1. UNCHANGED <<gone, retractions, index, merge, scan>> /\ side' = Append(side, row)
    BY <1>4 DEF Queue
  <2>2. side \in Seq(Row)
    BY DEF TypeOK
  <2>3. ASSUME NEW i \in gone PROVE ~Appended(i)'
    <3>1. ASSUME NEW k \in 1..Len(side'), side'[k].kind = "append", side'[k].id = i
          PROVE  FALSE
      <4>1. CASE k \in 1..Len(side)
        BY <2>1, <2>2, <2>3, <3>1, <4>1 DEF Appended
      <4>2. CASE k = Len(side) + 1
        BY <1>4, <2>1, <2>2, <2>3, <3>1, <4>2
      <4> QED BY <2>1, <2>2, <3>1, <4>1, <4>2
    <3> QED BY <3>1 DEF Appended
  <2>4. ASSUME NEW i \in gone PROVE i \notin Present(index)' /\ (merge.on => i \notin Present(merge.work)')
    BY <1>0, <2>1, <2>4 DEF Present, Minted
  <2> QED BY <2>1, <2>3, <2>4
<1>5. ASSUME NEW e \in Edges, QueueAppend(e) PROVE GoneInv'
  <2>1. NewId \notin gone
    BY <1>0, <1>5, Minting DEF QueueAppend
  <2> QED BY <1>4, <1>5, <2>1 DEF QueueAppend
<1>6. ASSUME NEW i \in Minted, NEW kind \in {"retract", "reaffirm", "supersede"},
             NEW j \in 0..Len(what), QueueLifecycle(i, kind, j)
      PROVE  GoneInv'
  BY <1>4, <1>6 DEF QueueLifecycle
<1>7. ASSUME NEW b \in Beads, QueueMark(b) PROVE GoneInv'
  BY <1>4, <1>7 DEF QueueMark
<1>8. ASSUME NEW i \in Minted, Deactivate(i) PROVE GoneInv'
  <2>1. /\ index'.status = [index.status EXCEPT ![i] = "absent"]
        /\ index.status \in [Ids -> Statuses]
    BY <1>8 DEF Deactivate, TypeOK, Index
  <2>2. index'.status[i] = "absent" /\ \A j \in gone : index'.status[j] = "absent"
    BY <1>0, <2>1 DEF Present
  <2>3. \A j \in gone' : index'.status[j] = "absent" /\ j \in Minted
    BY <1>0, <1>8, <2>2 DEF Deactivate
  <2>4. ~merge.on /\ UNCHANGED <<what, side, merge, scan>> /\ gone' \subseteq retractions'
    BY <1>8 DEF Deactivate
  <2>5. ASSUME NEW j \in gone'
        PROVE  ~Appended(j) /\ (scan.phase # "idle" => j \in scan.retractions)
    <3>1. CASE j \in gone
      BY <3>1
    <3>2. CASE j \notin gone
      BY <1>8, <2>5, <3>2 DEF Deactivate, InFlight, Appended
    <3> QED BY <3>1, <3>2
  <2>6. \A j \in gone' : j \notin Present(index)' /\ ~Appended(j)'
    BY <2>3, <2>4, <2>5 DEF Present, Appended
  <2> QED BY <2>4, <2>5, <2>6
<1>9. ASSUME NEW b \in Beads, RemoveBead(b) PROVE GoneInv'
  <2> DEFINE f == [i \in Ids |-> IF i \in Minted /\ b \in Ends(Edge(i))
                                 THEN "absent" ELSE index.status[i]]
  <2>1. index' = index \/ index'.status = f
    BY <1>9 DEF RemoveBead, TypeOK, Index
  <2>2. \A i \in gone : index.status[i] = "absent" => index'.status[i] = "absent"
    BY <1>0, <2>1
  <2> QED BY <1>9, <1>a, <2>2 DEF RemoveBead
<1>10. ASSUME MergeStart PROVE GoneInv'
  BY <1>10 DEF MergeStart, Present, Minted, Appended
<1>11. ASSUME MergeRow PROVE GoneInv'
  <2> DEFINE n == merge.taken + 1
             x == merge.work
             y == Merged(x, side[n])
  <2>1. n \in 1..Len(side) /\ side[n] \in Row /\ x \in Index
        /\ (side[n].kind = "append" => side[n].id \in Minted)
    BY <1>11 DEF MergeRow, TypeOK, MergeInv
  <2>2. \A i \in Ids : y.status[i] # "absent" =>
           x.status[i] # "absent" \/ (side[n].kind = "append" /\ i = side[n].id)
    BY <2>1, Merging
  <2>3. merge.on /\ merge'.work = y /\ UNCHANGED <<index, what, side, scan, gone, retractions>>
    BY <1>11 DEF MergeRow, TypeOK
  <2>4. \A i \in gone : x.status[i] = "absent"
    BY <1>0, <1>11 DEF MergeRow, Present
  <2> HIDE DEF n, x, y
  <2>5. ASSUME NEW i \in gone PROVE i \notin Present(y)
    BY <1>0, <2>1, <2>2, <2>4, <2>5 DEF Present, Appended
  <2> QED BY <2>3, <2>5 DEF Present, Minted, Appended
<1>12. ASSUME MergeWrite PROVE GoneInv'
  <2>1. \A i \in gone : index'.status[i] = "absent"
    BY <1>0, <1>12 DEF MergeWrite, Present
  <2> QED BY <1>12, <1>a, <2>1 DEF MergeWrite, NoMerge
<1>13. ASSUME RebuildRead PROVE GoneInv'
  BY <1>13, <1>a DEF RebuildRead, TypeOK
<1>14. ASSUME RebuildReadRemovals PROVE GoneInv'
  BY <1>14, <1>a DEF RebuildReadRemovals, TypeOK
<1>15. ASSUME RebuildWrite PROVE GoneInv'
  <2>1. \A i \in gone : index'.status[i] = "absent"
    BY <1>0, <1>15 DEF RebuildWrite, Restored
  <2> QED BY <1>15, <1>a, <2>1 DEF RebuildWrite, NoScan
<1>16. ASSUME RebuildSessions PROVE GoneInv'
  <2>1. index'.status = index.status
    BY <1>16 DEF RebuildSessions, Fresh
  <2> QED BY <1>16, <1>a, <2>1 DEF RebuildSessions
<1>17. ASSUME MergeDie PROVE GoneInv'
  BY <1>17, <1>a DEF MergeDie, NoMerge
<1>18. ASSUME UNCHANGED vars PROVE GoneInv'
  BY <1>18, <1>a DEF vars
<1> QED BY <1>2, <1>3, <1>5, <1>6, <1>7, <1>8, <1>9, <1>10, <1>11, <1>12, <1>13,
          <1>14, <1>15, <1>16, <1>17, <1>18 DEF Next, Step

\* Records of an edge: one at a time, and a rebuild restores what it had read.
LEMMA UniqueInvStep == TypeOK /\ MergeInv /\ UniqueInv /\ [Next]_vars => UniqueInv'
<1> SUFFICES ASSUME TypeOK, MergeInv, UniqueInv, [Next]_vars PROVE UniqueInv'
  OBVIOUS
<1> USE DEF UniqueInv, ghosts, events, Opens
<1>0. /\ Minted \subseteq Ids
      /\ created \subseteq Minted /\ scan.created \subseteq Minted
      /\ scan.phase \in {"idle", "removals", "write"}
  BY MintedAreIds DEF TypeOK
\* A step that leaves the scan, but for tombstones logged since, as it is.
<1>c. ASSUME \A i \in Minted : what'[i] = what[i], lost \subseteq lost',
             UNCHANGED scan, removed \subseteq removed', created \subseteq created',
             retractions \subseteq retractions'
      PROVE  /\ scan'.phase # "idle" =>
                  /\ scan'.created \subseteq created' /\ scan'.retractions \subseteq retractions'
                  /\ Unique(Without(scan.created \ scan.retractions, Tombstones))'
             /\ scan'.phase = "write" => scan'.removed \subseteq removed'
  <2> DEFINE s == scan.created \ scan.retractions
  <2>1. Tombstones \subseteq Tombstones' /\ s \subseteq Minted
    BY <1>0, <1>c DEF Tombstones
  <2>2. Without(s, Tombstones)' = {i \in s : Ends(what'[i].edge) \cap Tombstones' = {}}
    BY <1>c DEF Without, Edge
  <2>3. Without(s, Tombstones)' \subseteq Without(s, Tombstones)
    BY <1>c, <2>1, <2>2 DEF Without, Edge
  <2>4. Without(s, Tombstones) \subseteq Minted
    BY <2>1 DEF Without
  <2>5. Unique(Without(s, Tombstones)) => Unique(Without(s, Tombstones))'
    <3>1. ASSUME Unique(Without(s, Tombstones)),
                 NEW i \in Without(s, Tombstones)', NEW j \in Without(s, Tombstones)',
                 what'[i].edge = what'[j].edge, what'[i].by # "link", what'[j].by # "link",
                 i \notin lost', j \notin lost'
          PROVE  i = j
      <4>1. /\ i \in Without(s, Tombstones) /\ what'[i] = what[i] /\ i \notin lost
            /\ j \in Without(s, Tombstones) /\ what'[j] = what[j] /\ j \notin lost
        BY <1>c, <2>3, <2>4, <3>1
      <4> HIDE DEF s
      <4> QED BY <3>1, <4>1 DEF Unique, Edge
    <3> QED BY <3>1 DEF Unique, Edge
  <2> QED BY <1>c, <2>5
\* The index keeps some of its associations: all that a rebuild would restore.
<1>d. ASSUME UNCHANGED <<what, created>>, lost \subseteq lost', ~merge'.on,
             UNCHANGED scan, removed \subseteq removed', retractions \subseteq retractions',
             \A i \in Minted : index'.status[i] # "absent" => index.status[i] # "absent",
             \A i \in created \ (retractions' \cup lost') :
                 /\ index.status[i] # "absent"
                 /\ Ends(Edge(i)) \cap removed' = {}
                 => index'.status[i] # "absent"
      PROVE  UniqueInv'
  <2>1. Present(index') \subseteq Present(index) /\ Present(index)' = Present(index')
    BY <1>d DEF Present, Minted
  <2>2. Unique(Present(index))'
    BY <1>d, <2>1 DEF Unique, Edge
  <2>3. ASSUME NEW i \in Without(created \ (retractions \cup lost), removed)'
        PROVE  i \in Present(index)'
    <3>1. i \in created \ (retractions' \cup lost') /\ Ends(Edge(i)) \cap removed' = {}
      BY <1>d, <2>3 DEF Without, Edge
    <3>2. i \in Without(created \ (retractions \cup lost), removed)
      BY <1>d, <3>1 DEF Without
    <3>3. i \in Minted /\ index.status[i] # "absent"
      BY <3>2 DEF Present
    <3> QED BY <1>d, <3>1, <3>3 DEF Present, Minted
  <2> QED BY <1>c, <1>d, <2>2, <2>3
<1>e. ASSUME UNCHANGED <<what, created, retractions, removed, lost, index, scan>>,
             merge'.on => Unique(Present(merge'.work))
      PROVE  UniqueInv'
  BY <1>e DEF Unique, Present, Minted, Edge, Without, Tombstones
<1>1. ASSUME NEW e \in Edges, NEW by \in {"link", "judge"}, NEW inPlace \in BOOLEAN,
             Opens, Mint(e, by), Record(inPlace),
             UNCHANGED <<retractions, removed, side, merge, scan, ghosts>>,
             by = "link" \/ ~Recorded(index, e)
      PROVE  UniqueInv'
  <2>1. /\ NewId \in Ids /\ NewId \notin Minted /\ Minted' = Minted \cup {NewId}
        /\ \A i \in Minted : what'[i] = what[i]
        /\ what'[NewId] = [edge |-> e, by |-> by]
    BY <1>1, Minting
  <2>2. /\ \A i \in Ids : i # NewId => index'.status[i] = index.status[i]
        /\ created \subseteq created'
        /\ \A i \in created' : i \in created \/ (i = NewId /\ index'.status[i] = "active")
    BY <1>1, <2>1, Recording
  <2>3. \A i \in Present(index)' : i \in Present(index) \/ i = NewId
    BY <1>0, <2>1, <2>2 DEF Present
  <2>4. ASSUME NEW i \in Present(index)', NEW j \in Present(index)',
               what'[i].edge = what'[j].edge, what'[i].by # "link", what'[j].by # "link",
               i \notin lost, j \notin lost
        PROVE  i = j
    <3>1. CASE i \in Present(index) /\ j \in Present(index)
      BY <2>1, <2>4, <3>1 DEF Unique, Edge, Present
    <3>2. ASSUME NEW k \in Present(index), what'[k].edge = e, by # "link" PROVE FALSE
      BY <1>1, <2>1, <3>2 DEF Recorded, Edge, Present
    <3> QED BY <2>1, <2>3, <2>4, <3>1, <3>2
  <2>5. Unique(Present(index))'
    BY <1>1, <2>4 DEF Unique, Edge
  <2>6. ASSUME NEW i \in Without(created \ (retractions \cup lost), removed)'
        PROVE  i \in Present(index)'
    <3>1. i \in created' \ (retractions \cup lost) /\ Ends(what'[i].edge) \cap removed = {}
      BY <1>1, <2>6 DEF Without, Edge
    <3>2. CASE i = NewId
      BY <2>1, <2>2, <1>0, <3>1, <3>2 DEF Present
    <3>3. CASE i # NewId
      <4>1. i \in created /\ i \in Minted
        BY <1>0, <2>2, <3>1, <3>3
      <4>2. i \in Present(index)
        BY <2>1, <3>1, <4>1 DEF Without, Edge
      <4> QED BY <1>0, <2>1, <2>2, <3>3, <4>1, <4>2 DEF Present
    <3> QED BY <3>2, <3>3
  <2> QED BY <1>1, <1>c, <2>1, <2>2, <2>5, <2>6
<1>2. ASSUME NEW e \in Edges, Link(e) PROVE UniqueInv'
  BY <1>1, <1>2 DEF Link
<1>3. ASSUME NEW e \in Edges, WriteIfMissing(e) PROVE UniqueInv'
  BY <1>1, <1>3 DEF WriteIfMissing
<1>4. ASSUME NEW e \in Edges, QueueAppend(e) PROVE UniqueInv'
  <2>1. /\ NewId \in Ids /\ NewId \notin Minted /\ Minted' = Minted \cup {NewId}
        /\ \A i \in Minted : what'[i] = what[i]
    BY <1>4, Minting DEF QueueAppend
  <2>2. /\ ~merge.on /\ index.status[NewId] = "absent"
        /\ UNCHANGED <<created, retractions, removed, lost, index, merge, scan>>
    BY <1>4, <2>1 DEF QueueAppend, Queue, MergeInv
  <2>3. Present(index)' = Present(index)
    BY <2>1, <2>2 DEF Present
  <2>4. Unique(Present(index))'
    BY <2>1, <2>2, <2>3 DEF Unique, Edge, Present
  <2>5. Without(created \ (retractions \cup lost), removed)' \subseteq Present(index)'
    BY <1>0, <2>1, <2>2, <2>3 DEF Without, Edge
  <2> QED BY <1>c, <2>1, <2>2, <2>4, <2>5
<1>5. ASSUME NEW i \in Minted, NEW kind \in {"retract", "reaffirm", "supersede"},
             NEW j \in 0..Len(what), QueueLifecycle(i, kind, j)
      PROVE  UniqueInv'
  BY <1>5, <1>e DEF QueueLifecycle, Queue
<1>6. ASSUME NEW b \in Beads, QueueMark(b) PROVE UniqueInv'
  BY <1>6, <1>e DEF QueueMark, Queue
<1>7. ASSUME NEW i \in Minted, Deactivate(i) PROVE UniqueInv'
  <2>1. /\ index'.status = [index.status EXCEPT ![i] = "absent"]
        /\ index.status \in [Ids -> Statuses]
    BY <1>7 DEF Deactivate, TypeOK, Index
  <2>2. /\ UNCHANGED <<what, created, removed, merge, scan>> /\ ~merge.on
        /\ lost \subseteq lost' /\ retractions \subseteq retractions'
        /\ i \in retractions' \cup lost'
    BY <1>7 DEF Deactivate
  <2>3. \A j \in Minted : j # i => index'.status[j] = index.status[j]
    BY <1>0, <2>1
  <2>4. \A j \in Minted : index'.status[j] # "absent" => index.status[j] # "absent"
    BY <1>0, <2>1
  <2>5. \A j \in created \ (retractions' \cup lost') : index'.status[j] = index.status[j]
    BY <1>0, <2>2, <2>3
  <2> QED BY <1>d, <2>2, <2>4, <2>5
<1>8. ASSUME NEW b \in Beads, RemoveBead(b) PROVE UniqueInv'
  <2> DEFINE f == [i \in Ids |-> IF i \in Minted /\ b \in Ends(Edge(i))
                                 THEN "absent" ELSE index.status[i]]
  <2>1. index' = index \/ index'.status = f
    BY <1>8 DEF RemoveBead, TypeOK, Index
  <2>2. /\ UNCHANGED <<what, created, retractions, lost, merge, scan>> /\ ~merge.on
        /\ removed' = removed \cup {b}
    BY <1>8 DEF RemoveBead
  <2>3. \A i \in Minted : index'.status[i] # "absent" => index.status[i] # "absent"
    BY <1>0, <2>1
  <2>4. \A i \in created \ (retractions' \cup lost') :
             index.status[i] # "absent" /\ Ends(Edge(i)) \cap removed' = {}
             => index'.status[i] # "absent"
    BY <1>0, <2>1, <2>2
  <2> QED BY <1>d, <2>2, <2>3, <2>4
<1>9. ASSUME MergeStart PROVE UniqueInv'
  BY <1>9, <1>e DEF MergeStart
<1>10. ASSUME MergeRow PROVE UniqueInv'
  <2> DEFINE n == merge.taken + 1
             x == merge.work
             y == Merged(x, side[n])
  <2>1. n \in 1..Len(side) /\ side[n] \in Row /\ x \in Index
        /\ (side[n].kind = "append" => side[n].id \in Minted)
    BY <1>10 DEF MergeRow, TypeOK, MergeInv
  <2>2. \A i \in Ids : y.status[i] # "absent" =>
              x.status[i] # "absent" \/ (i = side[n].id /\ Appends(x, i))
    BY <2>1, Merging
  <2>3. /\ merge.on /\ Unique(Present(x)) /\ merge'.work = y
        /\ UNCHANGED <<index, what, created, retractions, removed, lost, scan>>
    BY <1>10 DEF MergeRow, TypeOK
  <2> HIDE DEF n, x, y
  <2>4. \A i \in Present(y) : i \in Present(x) \/ (i = side[n].id /\ Appends(x, i))
    BY <1>0, <2>2 DEF Present
  <2>5. Unique(Present(y))
    BY <2>3, <2>4 DEF Unique, Appends, Recorded
  <2> QED BY <1>e, <2>3, <2>5
<1>11. ASSUME MergeWrite PROVE UniqueInv'
  <2>1. UNCHANGED <<what, created, retractions, removed, lost, scan>> /\ ~merge'.on
        /\ merge.on
    BY <1>11 DEF MergeWrite, NoMerge
  <2>2. CASE index' = index
    BY <1>e, <2>1, <2>2
  <2>3. CASE index' = merge.work
    <3>1. Unique(Present(merge.work)) /\ Present(index) \subseteq Present(merge.work)
          /\ Present(index)' = Present(merge.work)
      BY <2>1, <2>3 DEF MergeInv, Present, Minted
    <3>2. Unique(Present(index))'
      BY <2>1, <3>1 DEF Unique, Edge
    <3>3. Without(created \ (retractions \cup lost), removed)' \subseteq Present(index)'
      BY <2>1, <3>1 DEF Without, Edge
    <3> QED BY <1>c, <2>1, <3>2, <3>3
  <2> QED BY <1>11, <2>2, <2>3 DEF MergeWrite
<1>12. ASSUME RebuildRead PROVE UniqueInv'
  <2>1. /\ scan'.phase = "removals" /\ scan'.created = created
        /\ scan'.retractions = retractions /\ scan.phase = "idle"
        /\ UNCHANGED <<index, what, created, retractions, removed, lost, merge>>
    BY <1>12 DEF RebuildRead, TypeOK
  <2>2. \A i \in Without(created \ retractions, removed) :
            i \notin lost => i \in Present(index)
    BY DEF Without
  <2>3. Unique(Without(created \ retractions, removed))
    BY <2>2 DEF Unique
  <2>4. Unique(Without(scan.created \ scan.retractions, Tombstones))'
    BY <2>1, <2>3 DEF Unique, Without, Tombstones, Edge
  <2>5. Unique(Present(index))' /\ (merge.on => Unique(Present(merge.work)))'
        /\ (Without(created \ (retractions \cup lost), removed) \subseteq Present(index))'
    BY <2>1 DEF Unique, Present, Minted, Edge, Without
  <2> QED BY <2>1, <2>4, <2>5
<1>13. ASSUME RebuildReadRemovals PROVE UniqueInv'
  <2>1. /\ scan'.phase = "write" /\ scan'.created = scan.created
        /\ scan'.retractions = scan.retractions /\ scan'.removed = removed
        /\ scan.phase = "removals"
        /\ UNCHANGED <<index, what, created, retractions, removed, lost, merge>>
    BY <1>13 DEF RebuildReadRemovals, TypeOK
  <2>2. Unique(Without(scan.created \ scan.retractions, Tombstones))'
    BY <2>1 DEF Unique, Without, Tombstones, Edge
  <2>3. Unique(Present(index))' /\ (merge.on => Unique(Present(merge.work)))'
        /\ (Without(created \ (retractions \cup lost), removed) \subseteq Present(index))'
    BY <2>1 DEF Unique, Present, Minted, Edge, Without
  <2> QED BY <2>1, <2>2, <2>3
<1>14. ASSUME RebuildWrite PROVE UniqueInv'
  <2>1. /\ \A i \in Ids : index'.status[i] # "absent" <=> i \in Restored
        /\ scan'.phase = "idle" /\ scan.phase = "write" /\ ~merge.on
        /\ lost' = lost \cup (created \ scan.created)
        /\ UNCHANGED <<what, created, retractions, removed, merge>>
    BY <1>14 DEF RebuildWrite, NoScan
  <2>2. Restored = Without(scan.created \ scan.retractions, Tombstones)
    BY <2>1 DEF Restored, Without, Tombstones
  <2>3. Unique(Restored)
    BY <2>1, <2>2
  <2>4. Present(index)' = Restored
    BY <1>0, <2>1 DEF Present, Minted, Restored
  <2>5. Unique(Present(index))'
    BY <2>1, <2>3, <2>4 DEF Unique, Edge
  <2>6. Without(created \ (retractions \cup lost), removed)' \subseteq Restored
    BY <2>1 DEF Without, Restored, Edge
  <2> QED BY <2>1, <2>4, <2>5, <2>6
<1>15. ASSUME RebuildSessions PROVE UniqueInv'
  <2>1. index'.status = index.status
        /\ UNCHANGED <<what, created, retractions, removed, lost, merge, scan>> /\ ~merge.on
    BY <1>15 DEF RebuildSessions, Fresh
  <2> QED BY <1>d, <2>1
<1>16. ASSUME MergeDie PROVE UniqueInv'
  BY <1>16, <1>e DEF MergeDie, NoMerge
<1>17. ASSUME UNCHANGED vars PROVE UniqueInv'
  BY <1>17, <1>e DEF vars
<1> QED BY <1>2, <1>3, <1>4, <1>5, <1>6, <1>7, <1>8, <1>9, <1>10, <1>11, <1>12, <1>13,
          <1>14, <1>15, <1>16, <1>17 DEF Next, Step

LEMMA InvStep == Inv /\ [Next]_vars => Inv'
BY TypeStep, MergeInvStep, AnchorInvStep, GoneInvStep, UniqueInvStep DEF Inv

LEMMA Invariance == Spec => []Inv
<1>1. Init => Inv
  BY InitInv
<1>2. Inv /\ [Next]_vars => Inv'
  BY InvStep
<1> QED BY <1>1, <1>2, PTL DEF Spec

-----------------------------------------------------------------------------
(* The theorems                                                             *)

\* What the invariant says of the index.
LEMMA Consequences ==
    Inv => TypeOK /\ EdgesAreAnchored /\ OneRecordPerEdge /\ RetractionSticks
<1> SUFFICES ASSUME Inv PROVE EdgesAreAnchored /\ OneRecordPerEdge /\ RetractionSticks
  BY DEF Inv
<1>1. EdgesAreAnchored
  BY DEF Inv, AnchorInv, Anchored, EdgesAreAnchored
<1>2. OneRecordPerEdge
  BY DEF Inv, UniqueInv, Unique, OneRecordPerEdge
<1>3. RetractionSticks
  BY DEF Inv, GoneInv, RetractionSticks
<1> QED BY <1>1, <1>2, <1>3

\* Only MergeWrite takes rows from the side log: all of them, taken before.
LEMMA ArrivalStep ==
    Inv /\ [Next]_vars =>
        \A k \in 1..Len(side) : Len(side') < k => ~torn' /\ Arrived(index', side[k])
<1> SUFFICES ASSUME Inv, [Next]_vars, NEW k \in 1..Len(side), Len(side') < k
             PROVE  ~torn' /\ Arrived(index', side[k])
  OBVIOUS
<1>0. side \in Seq(Row) /\ side' # side
  BY DEF Inv, TypeOK
<1>1. MergeWrite
  <2>1. ASSUME NEW row, Queue(row) PROVE FALSE
    BY <1>0, <2>1 DEF Queue
  <2> QED BY <1>0, <2>1 DEF Next, Step, vars, Link, WriteIfMissing, QueueAppend,
        Deactivate, QueueLifecycle, RemoveBead, QueueMark, MergeStart, MergeRow, MergeDie,
        RebuildRead, RebuildReadRemovals, RebuildWrite, RebuildSessions
<1>2. merge.on /\ merge.taken = Len(side) /\ index' = merge.work /\ torn' = torn
  BY <1>0, <1>1 DEF MergeWrite
<1> QED BY <1>2 DEF Inv, MergeInv

\* The records, the side log, a running merge and a running rebuild keep the
\* shape they are written with, for any number of associations and rows.
THEOREM TypeCorrect == Spec => []TypeOK
BY Invariance, Consequences, PTL

\* No judge, crawler, merge or rebuild leaves an association of a bead that is
\* not in the index, however many beads are removed meanwhile.
THEOREM EdgesAnchored == Spec => []EdgesAreAnchored
BY Invariance, Consequences, PTL

\* The judge and the crawler between them make one record of an edge.
THEOREM OneRecord == Spec => []OneRecordPerEdge
BY Invariance, Consequences, PTL

\* A completed deactivation is final: no merge and no rebuild undoes it.
THEOREM DeactivationsStick == Spec => []RetractionSticks
BY Invariance, Consequences, PTL

\* A merge clears the side log only when the index has what its rows asked for.
THEOREM UpdatesArrive == Spec => QueuedUpdatesArrive
<1>1. Inv /\ [Next]_vars =>
        [\A k \in 1..Len(side) : Len(side') < k => ~torn' /\ Arrived(index', side[k])]_vars
  BY ArrivalStep
<1> QED BY <1>1, Invariance, PTL DEF Spec, QueuedUpdatesArrive

(***************************************************************************)
(* 2. The review.                                                          *)
(*                                                                         *)
(* A step of a reviewer is a step of Associations, or a kill that leaves   *)
(* the associations alone: Inv carries over.  BackInv: whoever has marked  *)
(* a bead linked, in the file or in its own results, knows of an           *)
(* association of it.  OperatorInv: a candidate an operator has decided on *)
(* is not in the hands of anybody who would write its status on the        *)
(* strength of what was there before.                                      *)
(***************************************************************************)

Written(c) == \E i \in Minted : Edge(i) = c
Backed(b) == \E i \in Minted : b \in Ends(Edge(i))

BackInv ==
    /\ \A b \in Beads : latest[b] = "linked" => Backed(b)
    /\ \A c \in Edges : decided[c] = "linked" => Written(c)
    /\ \A p \in Reviewers :
         /\ \A b \in Beads : proc[p].marks[b] = "linked" => Backed(b)
         /\ \A c \in proc[p].cands :
                /\ proc[p].kind = "operator" /\ ~proc[p].bad
                /\ c \notin proc[p].todo /\ proc[p].verdict[c] = "accept"
                => Written(c)

OperatorInv ==
    /\ \A p \in Reviewers : proc[p].kind = "operator" =>
         /\ At(p, "apply") \/ (At(p, "record") /\ proc[p].todo = {})
         /\ proc[p].cands \subseteq seen
         /\ \A c \in proc[p].cands : proc[p].verdict[c] \in {"accept", "reject"}
    /\ \A c \in Edges : decided[c] # "none" =>
         /\ decided[c] \in {"linked", "no_supported_links", "failed", "quarantined"}
         /\ ruled[c] = decided[c] /\ c \in seen
         /\ \A q \in Reviewers : c \in proc[q].cands =>
                proc[q].kind # "goal" /\ ~At(q, "propose")

ReviewInv == Inv /\ ReviewTypeOK /\ BackInv /\ OperatorInv

-----------------------------------------------------------------------------
(* Steps of reviewers are steps of Associations                             *)

\* No association is forgotten.
Grows == Minted \subseteq Minted' /\ \A i \in Minted : what'[i] = what[i]

LEMMA NextGrows == TypeOK /\ [Next]_vars => Grows
<1> SUFFICES ASSUME TypeOK, [Next]_vars PROVE Grows
  OBVIOUS
<1>1. ASSUME NEW e \in Edges, NEW by \in {"link", "judge", "crawler"}, Mint(e, by)
      PROVE  Grows
  BY <1>1, Minting DEF Grows
<1>2. CASE what' = what
  BY <1>2 DEF Grows, Minted
<1>3. \/ what' = what
      \/ \E e \in Edges : Mint(e, "link") \/ Mint(e, "judge") \/ Mint(e, "crawler")
  BY DEF Next, Step, vars, Link, WriteIfMissing, QueueAppend,
        Deactivate, QueueLifecycle, RemoveBead, QueueMark, MergeStart, MergeRow, MergeWrite,
        MergeDie, RebuildRead, RebuildReadRemovals, RebuildWrite, RebuildSessions
<1> QED BY <1>1, <1>2, <1>3

\* A kill changes nothing but the count of kills.
LEMMA KillStep ==
    ASSUME Inv, Dies,
           UNCHANGED <<host, index, torn, what, events, side, merge, scan, ghosts>>
    PROVE  Inv' /\ Grows
<1> USE DEF events, ghosts
<1>1. TypeOK'
  <2>1. crashes' \in 0..MaxCrashes
    BY AssociationBounds DEF Inv, TypeOK, Dies
  <2> QED BY <2>1 DEF Inv, TypeOK, Minted
<1>2. MergeInv'
  BY DEF Inv, MergeInv, Minted, Present, Arrived, Recorded, Edge
<1>3. AnchorInv'
  BY DEF Inv, AnchorInv, Anchored, Present, Minted, Edge
<1>4. GoneInv'
  BY DEF Inv, GoneInv, Present, Minted, Appended
<1>5. UniqueInv'
  BY DEF Inv, UniqueInv, Unique, Present, Minted, Edge, Without, Tombstones
<1>6. Grows
  BY DEF Grows, Minted
<1> QED BY <1>1, <1>2, <1>3, <1>4, <1>5, <1>6 DEF Inv

LEMMA AssociationStep == Inv /\ [ReviewNext]_allVars => Inv' /\ Grows
<1> SUFFICES ASSUME Inv, [ReviewNext]_allVars PROVE Inv' /\ Grows
  OBVIOUS
<1>1. CASE [Next]_vars
  BY <1>1, InvStep, NextGrows DEF Inv
<1>2. ASSUME NEW p \in Reviewers, Killed(p) PROVE Inv' /\ Grows
  BY <1>2, KillStep DEF Killed
<1>3. ASSUME NEW p \in Reviewers, NEW c \in Edges, Apply(p, c) PROVE [Next]_vars
  <2>1. ASSUME Write(p, c) PROVE Next
    BY <2>1 DEF Write, Next, Step
  <2> QED BY <1>3, <2>1 DEF Apply, Skip, Refuse
<1>4. \/ [Next]_vars
      \/ \E p \in Reviewers : Killed(p) \/ \E c \in Edges : Apply(p, c)
  BY DEF ReviewNext, Review, allVars, Enqueue, StartRun, RecordQueued, RecordProposal,
         Note, Finish, Propose, StartJudging, StartDeciding, JudgeAnswers, JudgeFails
<1> QED BY <1>1, <1>2, <1>3, <1>4

LEMMA GrowsBacked ==
    ASSUME Grows
    PROVE  /\ \A c : Written(c) => Written(c)'
           /\ \A b : Backed(b) => Backed(b)'
BY DEF Grows, Written, Backed, Edge

-----------------------------------------------------------------------------
(* Type correctness                                                         *)

LEMMA IdleIsWork == Idle \in Work
BY DEF Idle, Work, States, Verdicts

\* A state that is marked is the new one, of a bead it was meant for.
LEMMA Marking ==
    ASSUME NEW marks \in [Beads -> States], NEW bs, NEW state \in States
    PROVE  /\ Mark(marks, bs, state) \in [Beads -> States]
           /\ \A b \in Beads : \/ Mark(marks, bs, state)[b] = marks[b]
                               \/ b \in bs /\ Mark(marks, bs, state)[b] = state
BY DEF Mark

LEMMA Recalling ==
    ASSUME latest \in [Beads -> States], NEW marks \in [Beads -> States]
    PROVE  /\ Recall(marks) \in [Beads -> States]
           /\ \A b \in Beads : Recall(marks)[b] \in {latest[b], marks[b]}
BY DEF Recall

LEMMA Beginning ==
    ASSUME NEW bs, NEW cs
    PROVE  Begun(bs, cs) \in [Beads -> States] /\ \A b \in Beads : Begun(bs, cs)[b] # "linked"
BY DEF Begun, States

\* One process moves, the others stay where they are.
LEMMA Moving ==
    ASSUME ReviewTypeOK, NEW p \in Reviewers, NEW w \in Work, Becomes(p, w)
    PROVE  /\ proc' \in [Reviewers -> Work] /\ proc'[p] = w
           /\ \A q \in Reviewers : q # p => proc'[q] = proc[q]
BY DEF ReviewTypeOK, Becomes

LEMMA MarkedIsWork ==
    ASSUME ReviewTypeOK, NEW p \in Reviewers, NEW c \in Edges, NEW bs, NEW state \in States
    PROVE  /\ Marked(p, c, bs, state) \in Work
           /\ Marked(p, c, bs, state).marks = Mark(proc[p].marks, bs, state)
           /\ Marked(p, c, bs, state).todo = proc[p].todo \ {c}
           /\ Marked(p, c, bs, state).bad = (proc[p].bad \/ state \in {"failed", "quarantined"})
           /\ Marked(p, c, bs, state).at = proc[p].at
           /\ Marked(p, c, bs, state).kind = proc[p].kind
           /\ Marked(p, c, bs, state).beads = proc[p].beads
           /\ Marked(p, c, bs, state).cands = proc[p].cands
           /\ Marked(p, c, bs, state).verdict = proc[p].verdict
<1> DEFINE w == proc[p]
           ms == Mark(proc[p].marks, bs, state)
           bad == proc[p].bad \/ state \in {"failed", "quarantined"}
<1>1. w \in Work
  BY DEF ReviewTypeOK
<1>2. ms \in [Beads -> States]
  BY <1>1, Marking DEF Work
<1>3. bad \in BOOLEAN
  OBVIOUS
<1>4. Marked(p, c, bs, state) = [w EXCEPT !.todo = w.todo \ {c}, !.marks = ms, !.bad = bad]
  BY DEF Marked
<1> HIDE DEF w, ms, bad
<1>5. /\ Marked(p, c, bs, state) \in Work
      /\ Marked(p, c, bs, state).marks = ms
      /\ Marked(p, c, bs, state).todo = w.todo \ {c}
      /\ Marked(p, c, bs, state).bad = bad
      /\ Marked(p, c, bs, state).at = w.at
      /\ Marked(p, c, bs, state).kind = w.kind
      /\ Marked(p, c, bs, state).beads = w.beads
      /\ Marked(p, c, bs, state).cands = w.cands
      /\ Marked(p, c, bs, state).verdict = w.verdict
  BY <1>1, <1>2, <1>3, <1>4 DEF Work
<1> QED BY <1>5 DEF w, ms, bad

-----------------------------------------------------------------------------
(* The invariant                                                            *)

\* What of a process's work the invariant speaks of.
GoodWork(w) ==
    /\ w \in Work
    /\ \A b \in Beads : w.marks[b] = "linked" => Backed(b)
    /\ w.kind = "operator" =>
         /\ w.at = "apply" \/ (w.at = "record" /\ w.todo = {})
         /\ w.cands \subseteq seen
         /\ \A c \in w.cands :
              /\ w.verdict[c] \in {"accept", "reject"}
              /\ ~w.bad /\ c \notin w.todo /\ w.verdict[c] = "accept" => Written(c)
\* Such work does not write the status of c on the strength of what it read.
Leaves(w, c) == c \in w.cands => w.kind # "goal" /\ w.at # "propose"

LEMMA GoodProcesses ==
    ReviewInv => \A p \in Reviewers : GoodWork(proc[p])
BY DEF ReviewInv, ReviewTypeOK, BackInv, OperatorInv, GoodWork, At

LEMMA GoodIdle == GoodWork(Idle) /\ \A c \in Edges : Leaves(Idle, c)
BY IdleIsWork DEF GoodWork, Leaves, Idle

\* Good work stays good while associations are added and candidates seen.
LEMMA GoodStays ==
    ASSUME NEW w, GoodWork(w), Grows, seen \subseteq seen' PROVE GoodWork(w)'
BY GrowsBacked DEF GoodWork

\* One process moves to good work; decisions are kept, withdrawn or well founded.
LEMMA Keeping ==
    ASSUME ReviewInv, Inv', Grows, NEW p \in Reviewers, NEW w \in Work, Becomes(p, w),
           GoodWork(w)', seen \subseteq seen',
           jobs' \subseteq Jobs, latest' \in [Beads -> States], seen' \subseteq Edges,
           ruled' \in [Edges -> States], noted' \in [Edges -> States],
           decided' \in [Edges -> States], starts' \in 0..MaxStarts,
           \A b \in Beads : latest'[b] = "linked" => Backed(b)',
           \A c \in Edges :
               \/ decided'[c] = "none"
               \/ decided'[c] = decided[c] /\ ruled'[c] = ruled[c] /\ Leaves(w, c)
               \/ /\ decided'[c] \in {"linked", "no_supported_links", "failed", "quarantined"}
                  /\ ruled'[c] = decided'[c] /\ c \in seen' /\ Leaves(w, c)
                  /\ \A q \in Reviewers \ {p} : Leaves(proc[q], c)
                  /\ decided'[c] = "linked" => Written(c)'
    PROVE  ReviewInv'
<1>0. /\ proc' \in [Reviewers -> Work] /\ proc'[p] = w
      /\ \A q \in Reviewers : q # p => proc'[q] = proc[q]
  BY Moving DEF ReviewInv
<1>1. ReviewTypeOK'
  BY <1>0 DEF ReviewTypeOK, Inv
<1>2. ASSUME NEW q \in Reviewers
      PROVE  /\ proc'[q] \in Work
             /\ \A b \in Beads : proc'[q].marks[b] = "linked" => Backed(b)'
             /\ proc'[q].kind = "operator" =>
                  /\ proc'[q].at = "apply" \/ (proc'[q].at = "record" /\ proc'[q].todo = {})
                  /\ proc'[q].cands \subseteq seen'
                  /\ \A c \in proc'[q].cands :
                       /\ proc'[q].verdict[c] \in {"accept", "reject"}
                       /\ ~proc'[q].bad /\ c \notin proc'[q].todo
                          /\ proc'[q].verdict[c] = "accept" => Written(c)'
  <2>1. PICK v : v = proc'[q]
    OBVIOUS
  <2>2. GoodWork(v)'
    <3>1. CASE q = p
      BY <1>0, <2>1, <3>1
    <3>2. CASE q # p
      BY <1>0, <2>1, <3>2, GoodProcesses, GoodStays
    <3> QED BY <3>1, <3>2
  <2> QED BY <2>1, <2>2 DEF GoodWork
<1>3. ASSUME NEW c \in Edges
      PROVE  /\ decided'[c] = "linked" => Written(c)'
             /\ decided'[c] # "none" =>
                  /\ decided'[c] \in {"linked", "no_supported_links", "failed", "quarantined"}
                  /\ ruled'[c] = decided'[c] /\ c \in seen'
                  /\ \A q \in Reviewers : Leaves(proc'[q], c)
  <2>1. CASE decided'[c] = decided[c] /\ ruled'[c] = ruled[c] /\ Leaves(w, c)
    <3>1. decided[c] = "linked" => Written(c)'
      BY GrowsBacked DEF ReviewInv, BackInv
    <3>2. decided[c] # "none" =>
            /\ decided[c] \in {"linked", "no_supported_links", "failed", "quarantined"}
            /\ ruled[c] = decided[c] /\ c \in seen
            /\ \A q \in Reviewers : Leaves(proc[q], c)
      BY DEF ReviewInv, OperatorInv, Leaves, At
    <3> QED BY <1>0, <2>1, <3>1, <3>2
  <2>2. CASE ~(decided'[c] = decided[c] /\ ruled'[c] = ruled[c] /\ Leaves(w, c))
    BY <1>0, <2>2
  <2> QED BY <2>1, <2>2
<1>4. BackInv'
  BY <1>2, <1>3 DEF BackInv, GoodWork
<1>5. OperatorInv'
  BY <1>2, <1>3 DEF OperatorInv, GoodWork, Leaves, At
<1> QED BY <1>1, <1>4, <1>5 DEF ReviewInv

\* The same for a step that writes no status and no decision.
LEMMA Moved ==
    ASSUME ReviewInv, Inv', Grows, NEW p \in Reviewers, NEW w \in Work, Becomes(p, w),
           GoodWork(w)', seen \subseteq seen', seen' \subseteq Edges,
           jobs' \subseteq Jobs, latest' \in [Beads -> States], noted' \in [Edges -> States],
           UNCHANGED <<ruled, decided>>, starts' \in 0..MaxStarts,
           \A b \in Beads : latest'[b] = "linked" => Backed(b)',
           \A c \in Edges : decided[c] = "none" \/ Leaves(w, c)
    PROVE  ReviewInv'
BY Keeping DEF ReviewInv, ReviewTypeOK

\* What is said of beads now can only have more associations behind it.
LEMMA LatestStays ==
    ASSUME ReviewInv, Grows, latest' = latest
    PROVE  latest' \in [Beads -> States] /\ \A b \in Beads : latest'[b] = "linked" => Backed(b)'
BY GrowsBacked DEF ReviewInv, ReviewTypeOK, BackInv

\* What a process has in hand as pending was not decided by an operator.
LEMMA InHandUndecided ==
    ASSUME ReviewInv, NEW p \in Reviewers, NEW c \in Edges, c \in proc[p].cands,
           proc[p].kind = "goal" \/ At(p, "propose")
    PROVE  decided[c] = "none"
BY DEF ReviewInv, OperatorInv

LEMMA AssociationsOnly ==
    ASSUME ReviewInv, Inv', Grows, UNCHANGED reviewVars PROVE ReviewInv'
<1> USE DEF reviewVars, files
<1>1. ReviewTypeOK'
  BY DEF ReviewInv, ReviewTypeOK, Inv
<1>2. BackInv'
  BY GrowsBacked DEF ReviewInv, BackInv
<1>3. OperatorInv'
  BY DEF ReviewInv, OperatorInv, At
<1> QED BY <1>1, <1>2, <1>3 DEF ReviewInv

LEMMA StartSteps ==
    ASSUME ReviewInv, Inv', Grows, NEW p \in Reviewers,
           \/ \E bs \in Jobs : Enqueue(p, bs) \/ StartRun(p, bs)
           \/ \E c \in Edges : Propose(p, c) \/ StartJudging(p, c)
           \/ \E c \in Edges, verdict \in Verdicts : StartDeciding(p, c, verdict)
    PROVE  ReviewInv'
<1> USE DEF files
<1>0. /\ jobs \subseteq Jobs /\ seen \subseteq Edges /\ noted \in [Edges -> States]
      /\ latest \in [Beads -> States] /\ starts \in 0..MaxStarts
  BY DEF ReviewInv, ReviewTypeOK
<1>1. Known \subseteq Beads
  BY DEF ReviewInv, Inv, TypeOK, Index, Known
<1>2. Starts => starts' \in 0..MaxStarts
  BY <1>0, StartsAssumption DEF Starts
<1>3. ASSUME NEW bs \in Jobs, Enqueue(p, bs) PROVE ReviewInv'
  <2>1. PICK w : w = [Idle EXCEPT !.at = "queued", !.beads = bs]
    OBVIOUS
  <2>2. w \in Work /\ GoodWork(w)' /\ \A c \in Edges : Leaves(w, c)
    BY <2>1, IdleIsWork, JobsAssumption DEF Work, GoodWork, Leaves, Idle
  <2> QED BY <1>0, <1>2, <1>3, <2>1, <2>2, Moved, LatestStays DEF Enqueue
<1>4. ASSUME NEW job \in Jobs, StartRun(p, job) PROVE ReviewInv'
  <2> DEFINE bs == job \cap Known
             cs == {c \in Edges : Ends(c) \cap bs # {} /\ Ends(c) \subseteq Known}
  <2>1. PICK w : w = [Idle EXCEPT !.at = IF cs = {} THEN "record" ELSE "judge",
                        !.beads = job, !.known = Known, !.cands = cs, !.todo = cs,
                        !.marks = Begun(bs, cs)]
    OBVIOUS
  <2>2. /\ Becomes(p, w) /\ seen' = seen \cup cs /\ UNCHANGED <<jobs, ruled, noted, decided>>
        /\ latest' = [b \in Beads |-> IF b \in bs THEN "pending_judge" ELSE latest[b]]
        /\ starts' \in 0..MaxStarts
    BY <1>2, <1>4, <2>1 DEF StartRun
  <2>3. job \subseteq Beads /\ cs \subseteq Edges /\ Begun(bs, cs) \in [Beads -> States]
        /\ \A b \in Beads : Begun(bs, cs)[b] # "linked"
    BY JobsAssumption, Beginning
  <2>4. /\ w \in Work /\ w.kind = "run" /\ w.at # "propose"
        /\ \A b \in Beads : w.marks[b] # "linked"
    BY <1>1, <2>1, <2>3, IdleIsWork DEF Work, Idle
  <2>5. GoodWork(w)' /\ \A c \in Edges : Leaves(w, c)
    BY <2>4 DEF GoodWork, Leaves
  <2>6. latest' \in [Beads -> States] /\ \A b \in Beads : latest'[b] = "linked" => Backed(b)'
    BY <1>0, <2>2, GrowsBacked DEF ReviewInv, BackInv, States
  <2> HIDE DEF bs, cs
  <2> QED BY <1>0, <2>2, <2>3, <2>4, <2>5, <2>6, Moved
<1>5. ASSUME NEW c \in Edges, Propose(p, c) PROVE ReviewInv'
  <2>1. PICK w : w = [Idle EXCEPT !.at = "propose", !.cands = {c}]
    OBVIOUS
  <2>2. w \in Work /\ GoodWork(w)' /\ \A d \in Edges : d # c => Leaves(w, d)
    BY <2>1, IdleIsWork DEF Work, GoodWork, Leaves, Idle
  <2>3. decided[c] = "none"
    BY <1>5 DEF Propose, ReviewInv, OperatorInv
  <2> QED BY <1>0, <1>2, <1>5, <2>1, <2>2, <2>3, Moved, LatestStays DEF Propose
<1>6. ASSUME NEW c \in Edges, StartJudging(p, c) PROVE ReviewInv'
  <2>1. PICK w : w = [Idle EXCEPT !.at = "judge", !.kind = "goal", !.beads = {c[1]},
                        !.known = Known, !.cands = {c}, !.todo = {c},
                        !.marks = Begun({c[1]}, {c})]
    OBVIOUS
  <2>2. c[1] \in Beads
    BY EdgesAssumption
  <2>3. w \in Work /\ w.kind = "goal" /\ w.cands = {c} /\ w.marks = Begun({c[1]}, {c})
    BY <1>1, <2>1, <2>2, IdleIsWork, Beginning DEF Work
  <2>4. GoodWork(w)' /\ \A d \in Edges : d # c => Leaves(w, d)
    BY <2>3, Beginning DEF GoodWork, Leaves
  <2>5. decided[c] = "none"
    BY <1>6 DEF StartJudging, Awaiting, Status, ReviewInv, OperatorInv
  <2> QED BY <1>0, <1>2, <1>6, <2>1, <2>3, <2>4, <2>5, Moved, LatestStays DEF StartJudging
<1>7. ASSUME NEW c \in Edges, NEW verdict \in Verdicts, StartDeciding(p, c, verdict)
      PROVE  ReviewInv'
  <2>1. PICK w : w = [Idle EXCEPT !.at = "apply", !.kind = "operator", !.beads = {c[1]},
                        !.known = Known, !.cands = {c}, !.todo = {c},
                        !.verdict[c] = verdict, !.marks = Begun({c[1]}, {c})]
    OBVIOUS
  <2>2. c[1] \in Beads
    BY EdgesAssumption
  <2>3. /\ w \in Work /\ w.kind = "operator" /\ w.cands = {c} /\ w.todo = {c}
        /\ w.at = "apply" /\ w.marks = Begun({c[1]}, {c}) /\ w.verdict[c] = verdict
    BY <1>1, <2>1, <2>2, IdleIsWork, Beginning DEF Work
  <2>4. GoodWork(w)' /\ \A d \in Edges : Leaves(w, d)
    <3>1. c \in seen' /\ verdict \in {"accept", "reject"}
      BY <1>7 DEF StartDeciding
    <3>2. \A b \in Beads : w.marks[b] # "linked"
      BY <2>3, Beginning
    <3> QED BY <2>3, <3>1, <3>2 DEF GoodWork, Leaves
  <2> QED BY <1>0, <1>2, <1>7, <2>1, <2>3, <2>4, Moved, LatestStays DEF StartDeciding
<1> QED BY <1>3, <1>4, <1>5, <1>6, <1>7

LEMMA JudgeSteps ==
    ASSUME ReviewInv, Inv', Grows, NEW p \in Reviewers, UNCHANGED starts,
           \/ \E verdicts \in [proc[p].cands -> Verdicts], b \in proc[p].beads,
                 claim \in {"none", "no_supported_links", "linked"} :
                    JudgeAnswers(p, verdicts, b, claim)
           \/ \E state \in {"pending_judge", "judge_failed"} : JudgeFails(p, state)
    PROVE  ReviewInv'
<1> USE DEF files
<1>0. /\ jobs \subseteq Jobs /\ seen \subseteq Edges /\ noted \in [Edges -> States]
      /\ latest \in [Beads -> States] /\ starts \in 0..MaxStarts
      /\ ruled \in [Edges -> States] /\ decided \in [Edges -> States]
      /\ proc[p] \in Work
  BY DEF ReviewInv, ReviewTypeOK
<1>1. ASSUME NEW verdicts \in [proc[p].cands -> Verdicts], NEW b \in proc[p].beads,
             NEW claim \in {"none", "no_supported_links", "linked"},
             JudgeAnswers(p, verdicts, b, claim)
      PROVE  ReviewInv'
  <2> DEFINE v == proc[p]
             vs == [c \in Edges |-> IF c \in v.cands THEN verdicts[c] ELSE "none"]
             ms == Mark(v.marks, {b}, Reviewed(claim))
  <2>1. PICK w : w = [v EXCEPT !.at = "apply", !.verdict = vs, !.marks = ms]
    OBVIOUS
  <2>2. Becomes(p, w) /\ At(p, "judge") /\ UNCHANGED <<jobs, latest, seen, ruled, noted, decided>>
    BY <1>1, <2>1 DEF JudgeAnswers
  <2>3. vs \in [Edges -> Verdicts]
    BY <1>0 DEF Work, Verdicts
  <2>4. Reviewed(claim) \in States /\ Reviewed(claim) # "linked"
    BY <1>1 DEF Reviewed, States
  <2>5. ms \in [Beads -> States]
        /\ \A c \in Beads : ms[c] = v.marks[c] \/ ms[c] = Reviewed(claim)
    BY <1>0, <2>4, Marking DEF Work
  <2>6. \A c \in Beads : v.marks[c] = "linked" => Backed(c)'
    BY GrowsBacked DEF ReviewInv, BackInv
  <2>7. v.kind # "operator" /\ v.at = "judge"
    BY <2>2 DEF ReviewInv, OperatorInv, At
  <2>8. \A c \in Edges : decided[c] = "none" \/ (c \in v.cands => v.kind # "goal")
    BY InHandUndecided
  <2> HIDE DEF v, vs, ms
  <2>9. /\ w \in Work /\ w.at = "apply" /\ w.marks = ms /\ w.kind = v.kind /\ w.cands = v.cands
    BY <1>0, <2>1, <2>3, <2>5 DEF Work, v
  <2>10. GoodWork(w)' /\ \A c \in Edges : decided[c] = "none" \/ Leaves(w, c)
    BY <2>4, <2>5, <2>6, <2>7, <2>8, <2>9 DEF GoodWork, Leaves
  <2> QED BY <1>0, <2>2, <2>9, <2>10, Moved, LatestStays
<1>2. ASSUME NEW state \in {"pending_judge", "judge_failed"}, JudgeFails(p, state)
      PROVE  ReviewInv'
  <2>1. PICK w : w = Idle
    OBVIOUS
  <2>2. w \in Work /\ GoodWork(w)' /\ \A c \in Edges : Leaves(w, c)
    BY <2>1, IdleIsWork DEF GoodWork, Leaves, Idle
  <2>3. Becomes(p, w) /\ UNCHANGED <<seen, decided>>
    BY <1>2, <2>1 DEF JudgeFails
  <2>4. CASE proc[p].kind = "goal"
    <3>1. /\ ruled' = [c \in Edges |-> IF c \in proc[p].cands THEN state ELSE ruled[c]]
          /\ UNCHANGED <<jobs, latest, noted>>
      BY <1>2, <2>4 DEF JudgeFails
    <3>2. ruled' \in [Edges -> States]
      BY <1>0, <3>1 DEF States
    <3>3. \A c \in Edges : decided[c] = "none" \/ ruled'[c] = ruled[c]
      BY <2>4, <3>1, InHandUndecided
    <3> QED BY <1>0, <2>2, <2>3, <3>1, <3>2, <3>3, Keeping, LatestStays
  <2>5. CASE proc[p].kind # "goal"
    <3> DEFINE ms == [b \in Beads |->
                   IF proc[p].marks[b] = "pending_judge" THEN state ELSE proc[p].marks[b]]
    <3>1. /\ noted' = [c \in Edges |-> IF c \in proc[p].cands THEN state ELSE noted[c]]
          /\ latest' = Recall(ms)
          /\ jobs' = IF state = "pending_judge" THEN jobs \ {proc[p].beads} ELSE jobs
          /\ UNCHANGED ruled
      BY <1>2, <2>5 DEF JudgeFails
    <3>2. noted' \in [Edges -> States] /\ jobs' \subseteq Jobs
      BY <1>0, <3>1 DEF States
    <3>3. ms \in [Beads -> States] /\ \A b \in Beads : ms[b] = "linked" => Backed(b)'
      BY <1>0, GrowsBacked DEF ReviewInv, BackInv, Work, States
    <3>4. /\ latest' \in [Beads -> States]
          /\ \A b \in Beads : latest'[b] = "linked" => Backed(b)'
      BY <1>0, <3>1, <3>3, Recalling, GrowsBacked DEF ReviewInv, BackInv
    <3> HIDE DEF ms
    <3> QED BY <1>0, <2>2, <2>3, <3>1, <3>2, <3>4, Moved
  <2> QED BY <2>4, <2>5
<1> QED BY <1>1, <1>2

\* One decision is carried out: linked are marked only ends of written edges.
LEMMA ApplyStep ==
    ASSUME ReviewInv, Inv', Grows, NEW p \in Reviewers, NEW c \in Edges, Apply(p, c),
           UNCHANGED starts
    PROVE  ReviewInv'
<1> USE DEF files
<1> DEFINE v == proc[p]
<1>0. /\ jobs \subseteq Jobs /\ seen \subseteq Edges /\ noted \in [Edges -> States]
      /\ starts \in 0..MaxStarts /\ v \in Work
  BY DEF ReviewInv, ReviewTypeOK
<1>1. At(p, "apply") /\ UNCHANGED <<jobs, latest, seen, ruled, noted, decided>>
  BY DEF Apply
<1>2. /\ \A b \in Beads : v.marks[b] = "linked" => Backed(b)'
      /\ v.kind = "operator" =>
           /\ v.cands \subseteq seen'
           /\ \A d \in v.cands :
                /\ v.verdict[d] \in {"accept", "reject"}
                /\ ~v.bad /\ d \notin v.todo /\ v.verdict[d] = "accept" => Written(d)'
  BY <1>1, GrowsBacked, GoodProcesses DEF GoodWork
<1>3. \A d \in Edges : decided[d] = "none" \/ Leaves(v, d)
  BY <1>1, InHandUndecided DEF Leaves, At
\* Steps that mark something, but nothing linked without an association.
<1>4. ASSUME NEW bs, NEW state \in States, Becomes(p, Marked(p, c, bs, state)),
             state = "linked" => (\A b \in bs \cap Beads : Backed(b)'),
             v.verdict[c] = "accept" => Written(c)' \/ state \in {"failed", "quarantined"}
      PROVE  ReviewInv'
  <2>1. PICK w : w = Marked(p, c, bs, state)
    OBVIOUS
  <2> DEFINE ms == Mark(v.marks, bs, state)
  <2>2. /\ w \in Work /\ w.marks = ms /\ w.todo = v.todo \ {c}
        /\ w.bad = (v.bad \/ state \in {"failed", "quarantined"})
        /\ w.at = "apply" /\ w.kind = v.kind /\ w.cands = v.cands /\ w.verdict = v.verdict
    BY <1>1, <2>1, MarkedIsWork DEF ReviewInv, At
  <2>3. \A b \in Beads : ms[b] = v.marks[b] \/ (b \in bs /\ ms[b] = state)
    BY <1>0, Marking DEF Work
  <2> HIDE DEF v, ms
  <2>4. GoodWork(w)'
    <3>1. \A b \in Beads : w.marks[b] = "linked" => Backed(b)'
      BY <1>2, <1>4, <2>2, <2>3
    <3>2. ASSUME w.kind = "operator", NEW d \in w.cands
          PROVE  /\ w.verdict[d] \in {"accept", "reject"}
                 /\ ~w.bad /\ d \notin w.todo /\ w.verdict[d] = "accept" => Written(d)'
      BY <1>2, <1>4, <2>2, <3>2
    <3> QED BY <1>2, <2>2, <3>1, <3>2 DEF GoodWork
  <2>5. \A d \in Edges : decided[d] = "none" \/ Leaves(w, d)
    BY <1>3, <2>2 DEF Leaves
  <2> QED BY <1>0, <1>1, <1>4, <2>1, <2>2, <2>4, <2>5, Moved, LatestStays
<1>5. CASE Write(p, c)
  <2>1. WriteIfMissing(c) /\ Mint(c, "judge")
    BY <1>5 DEF Write, WriteIfMissing
  <2>2. Written(c)' /\ \A b \in Ends(c) : Backed(b)'
    <3>1. NewId \in Minted' /\ what'[NewId] = [edge |-> c, by |-> "judge"]
      BY <2>1, Minting DEF ReviewInv, Inv
    <3>2. what'[NewId].edge = c
      BY <3>1
    <3> QED BY <3>1, <3>2 DEF Written, Backed, Edge
  <2>3. CASE crashes' = crashes
    <3>1. Becomes(p, Marked(p, c, Ends(c), "linked"))
      BY <1>5, <2>3 DEF Write
    <3> QED BY <1>4, <2>2, <3>1 DEF States
  <2>4. CASE crashes' # crashes
    <3>1. PICK w : w = Idle
      OBVIOUS
    <3>2. w \in Work /\ GoodWork(w)' /\ \A d \in Edges : Leaves(w, d)
      BY <3>1, IdleIsWork DEF GoodWork, Leaves, Idle
    <3>3. Becomes(p, w)
      BY <1>5, <2>4, <3>1 DEF Write
    <3> QED BY <1>0, <1>1, <3>2, <3>3, Moved, LatestStays
  <2> QED BY <2>3, <2>4
<1>6. CASE Skip(p, c)
  <2>1. CASE /\ Ends(c) \subseteq Known /\ Recorded(index, c)
             /\ Becomes(p, Marked(p, c, Ends(c), "linked"))
    <3>1. Written(c) /\ \A b \in Ends(c) : Backed(b)
      BY <2>1 DEF Recorded, Present, Written, Backed
    <3> QED BY <1>4, <2>1, <3>1, GrowsBacked DEF States
  <2>2. CASE Becomes(p, Marked(p, c, {c[1]}, "failed"))
    BY <1>4, <2>2 DEF States
  <2> QED BY <1>6, <2>1, <2>2 DEF Skip
<1>7. CASE Refuse(p, c)
  <2>1. CASE v.verdict[c] = "reject"
    BY <1>4, <1>7, <2>1 DEF Refuse, States
  <2>2. CASE v.verdict[c] = "none"
    <3>1. PICK w : w = [v EXCEPT !.todo = v.todo \ {c}]
      OBVIOUS
    <3>2. Becomes(p, w)
      BY <1>7, <2>2, <3>1 DEF Refuse
    <3> HIDE DEF v
    <3>3. /\ w \in Work /\ w.marks = v.marks /\ w.todo = v.todo \ {c} /\ w.bad = v.bad
          /\ w.at = v.at /\ w.kind = v.kind /\ w.cands = v.cands /\ w.verdict = v.verdict
      BY <1>0, <3>1 DEF Work
    <3>4. v.at = "apply"
      BY <1>1 DEF At, v
    <3>5. GoodWork(w)' /\ \A d \in Edges : decided[d] = "none" \/ Leaves(w, d)
      BY <1>2, <1>3, <2>2, <3>3, <3>4 DEF GoodWork, Leaves
    <3> QED BY <1>0, <1>1, <3>2, <3>3, <3>5, Moved, LatestStays
  <2>3. CASE v.verdict[c] \notin {"reject", "none"}
    BY <1>4, <1>7, <2>3 DEF Refuse, States
  <2> QED BY <2>1, <2>2, <2>3
<1> QED BY <1>5, <1>6, <1>7 DEF Apply

\* Whatever an operator's decision came to, it is not pending, and linked only
\* if the edge was written.
LEMMA Outcomes ==
    ASSUME ReviewInv, NEW p \in Reviewers, NEW c \in Edges
    PROVE  /\ Outcome(p, c) \in States
           /\ proc[p].kind = "operator" /\ At(p, "record") /\ c \in proc[p].cands =>
                /\ Outcome(p, c) \in {"linked", "no_supported_links", "failed", "quarantined"}
                /\ Outcome(p, c) = "linked" => Written(c)
<1>0. proc[p] \in Work /\ c[1] \in Beads
  BY EdgesAssumption DEF ReviewInv, ReviewTypeOK
<1>1. StatusOf(proc[p].verdict[c]) \in {"linked", "no_supported_links", "none"}
  BY DEF StatusOf
<1>2. Outcome(p, c) \in States
  BY <1>0, <1>1 DEF Outcome, Work, States
<1>3. ASSUME proc[p].kind = "operator", At(p, "record"), c \in proc[p].cands
      PROVE  /\ Outcome(p, c) \in {"linked", "no_supported_links", "failed", "quarantined"}
             /\ Outcome(p, c) = "linked" => Written(c)
  <2>1. proc[p].todo = {} /\ proc[p].verdict[c] \in {"accept", "reject"}
    BY <1>3 DEF ReviewInv, OperatorInv, At
  <2>2. ~proc[p].bad /\ proc[p].verdict[c] = "accept" => Written(c)
    BY <1>3, <2>1 DEF ReviewInv, BackInv
  <2>3. proc[p].bad => Outcome(p, c) \in {"failed", "quarantined"}
    BY <1>3 DEF Outcome
  <2>4. ~proc[p].bad => Outcome(p, c) = StatusOf(proc[p].verdict[c])
    BY <1>3 DEF Outcome
  <2>5. StatusOf("accept") = "linked" /\ StatusOf("reject") = "no_supported_links"
    BY DEF StatusOf
  <2> QED BY <2>1, <2>2, <2>3, <2>4, <2>5
<1> QED BY <1>2, <1>3

LEMMA EndSteps ==
    ASSUME ReviewInv, Inv', Grows, NEW p \in Reviewers, UNCHANGED starts,
           RecordQueued(p) \/ RecordProposal(p) \/ Note(p) \/ Finish(p) \/ Killed(p)
    PROVE  ReviewInv'
<1> USE DEF files
<1>0. /\ jobs \subseteq Jobs /\ seen \subseteq Edges /\ noted \in [Edges -> States]
      /\ latest \in [Beads -> States] /\ starts \in 0..MaxStarts
      /\ ruled \in [Edges -> States] /\ decided \in [Edges -> States]
      /\ proc[p] \in Work
  BY DEF ReviewInv, ReviewTypeOK
<1>1. PICK w : w = Idle
  OBVIOUS
<1>2. w \in Work /\ GoodWork(w)' /\ \A c \in Edges : Leaves(w, c)
  BY <1>1, IdleIsWork DEF GoodWork, Leaves, Idle
<1>3. CASE RecordQueued(p)
  <2>1. Becomes(p, w) /\ UNCHANGED <<jobs, seen, ruled, noted, decided>>
        /\ latest' = [b \in Beads |-> IF b \in proc[p].beads THEN "deferred" ELSE latest[b]]
    BY <1>1, <1>3 DEF RecordQueued
  <2>2. latest' \in [Beads -> States] /\ \A b \in Beads : latest'[b] = "linked" => Backed(b)'
    BY <1>0, <2>1, GrowsBacked DEF ReviewInv, BackInv, States
  <2> QED BY <1>0, <1>2, <2>1, <2>2, Moved
<1>4. CASE RecordProposal(p)
  <2>1. /\ Becomes(p, w) /\ UNCHANGED <<jobs, latest, noted, decided>>
        /\ seen' = seen \cup proc[p].cands /\ At(p, "propose")
        /\ ruled' = [c \in Edges |-> IF c \in proc[p].cands THEN "pending_judge" ELSE ruled[c]]
    BY <1>1, <1>4 DEF RecordProposal
  <2>2. seen' \subseteq Edges /\ ruled' \in [Edges -> States]
    BY <1>0, <2>1 DEF Work, States
  <2>3. \A c \in Edges : decided[c] = "none" \/ ruled'[c] = ruled[c]
    BY <2>1, InHandUndecided
  <2> QED BY <1>0, <1>2, <2>1, <2>2, <2>3, Keeping, LatestStays
<1>5. CASE Note(p)
  <2> DEFINE v == proc[p]
  <2>1. PICK x : x = [v EXCEPT !.at = "record"]
    OBVIOUS
  <2>2. /\ Becomes(p, x) /\ UNCHANGED <<jobs, latest, seen, ruled, decided>>
        /\ v.todo = {} /\ v.at = "apply"
        /\ noted' = [c \in Edges |-> IF StatusOf(v.verdict[c]) = "none" THEN noted[c]
                                     ELSE StatusOf(v.verdict[c])]
    BY <1>5, <2>1 DEF Note, At
  <2>3. noted' \in [Edges -> States]
    BY <1>0, <2>2 DEF StatusOf, States
  <2>4. /\ \A b \in Beads : v.marks[b] = "linked" => Backed(b)'
        /\ v.kind = "operator" =>
             /\ v.cands \subseteq seen'
             /\ \A d \in v.cands :
                  /\ v.verdict[d] \in {"accept", "reject"}
                  /\ ~v.bad /\ d \notin v.todo /\ v.verdict[d] = "accept" => Written(d)'
    BY <2>2, GrowsBacked, GoodProcesses DEF GoodWork
  <2>5. \A d \in Edges : decided[d] = "none" \/ Leaves(v, d)
    BY <2>2, InHandUndecided DEF Leaves, At
  <2>6. v \in Work
    BY <1>0
  <2> HIDE DEF v
  <2>7. /\ x \in Work /\ x.marks = v.marks /\ x.todo = v.todo /\ x.bad = v.bad
        /\ x.at = "record" /\ x.kind = v.kind /\ x.cands = v.cands /\ x.verdict = v.verdict
    BY <2>1, <2>6 DEF Work
  <2>8. GoodWork(x)'
    BY <2>2, <2>4, <2>7 DEF GoodWork
  <2>9. \A d \in Edges : decided[d] = "none" \/ Leaves(x, d)
    BY <2>5, <2>7 DEF Leaves
  <2> QED BY <1>0, <2>2, <2>3, <2>7, <2>8, <2>9, Moved, LatestStays
<1>6. CASE Finish(p)
  <2>1. /\ At(p, "record") /\ Becomes(p, w) /\ UNCHANGED <<seen, noted>>
        /\ latest' = Recall(proc[p].marks) /\ jobs' \subseteq Jobs
    BY <1>0, <1>1, <1>6 DEF Finish
  <2>2. latest' \in [Beads -> States] /\ \A b \in Beads : latest'[b] = "linked" => Backed(b)'
    BY <1>0, <2>1, Recalling, GrowsBacked DEF ReviewInv, BackInv, Work
  <2>3. CASE proc[p].kind = "run"
    <3>1. UNCHANGED <<ruled, decided>>
      BY <1>6, <2>3 DEF Finish
    <3> QED BY <1>0, <1>2, <2>1, <2>2, <3>1, Moved
  <2>4. CASE proc[p].kind # "run"
    <3>1. /\ ruled' = [c \in Edges |->
                IF c \in proc[p].cands THEN Outcome(p, c) ELSE ruled[c]]
          /\ decided' = [c \in Edges |->
                IF c \notin proc[p].cands \/ proc[p].kind # "operator" THEN decided[c]
                ELSE IF InHand(c, p) THEN "none" ELSE Outcome(p, c)]
      BY <1>6, <2>4 DEF Finish
    <3>2. ruled' \in [Edges -> States] /\ decided' \in [Edges -> States]
      <4>1. "none" \in States
        BY DEF States
      <4> QED BY <1>0, <3>1, <4>1, Outcomes
    <3>3. ASSUME NEW c \in Edges
          PROVE  \/ decided'[c] = "none"
                 \/ decided'[c] = decided[c] /\ ruled'[c] = ruled[c]
                 \/ /\ decided'[c] \in {"linked", "no_supported_links", "failed", "quarantined"}
                    /\ ruled'[c] = decided'[c] /\ c \in seen'
                    /\ \A q \in Reviewers \ {p} : Leaves(proc[q], c)
                    /\ decided'[c] = "linked" => Written(c)'
      <4>1. CASE c \notin proc[p].cands
        BY <3>1, <4>1
      <4>2. CASE c \in proc[p].cands /\ proc[p].kind # "operator"
        <5>1. proc[p].kind = "goal"
          BY <1>0, <2>4, <4>2 DEF Work
        <5> QED BY <3>1, <4>2, <5>1, InHandUndecided
      <4>3. CASE c \in proc[p].cands /\ proc[p].kind = "operator"
        <5>1. CASE InHand(c, p)
          BY <3>1, <4>3, <5>1
        <5>2. CASE ~InHand(c, p)
          <6>1. decided'[c] = Outcome(p, c) /\ ruled'[c] = Outcome(p, c)
            BY <3>1, <4>3, <5>2
          <6>2. \A q \in Reviewers \ {p} : Leaves(proc[q], c)
            BY <5>2 DEF InHand, Leaves, At
          <6>3. c \in seen'
            BY <2>1, <4>3 DEF ReviewInv, OperatorInv
          <6> QED BY <2>1, <4>3, <6>1, <6>2, <6>3, Outcomes, GrowsBacked
        <5> QED BY <5>1, <5>2
      <4> QED BY <4>1, <4>2, <4>3
    <3> QED BY <1>0, <1>2, <2>1, <2>2, <3>2, <3>3, Keeping
  <2> QED BY <2>3, <2>4
<1>7. CASE Killed(p)
  BY <1>0, <1>1, <1>2, <1>7, Moved, LatestStays DEF Killed
<1> QED BY <1>3, <1>4, <1>5, <1>6, <1>7

LEMMA ReviewStep == ReviewInv /\ [ReviewNext]_allVars => ReviewInv'
<1> SUFFICES ASSUME ReviewInv, [ReviewNext]_allVars PROVE ReviewInv'
  OBVIOUS
<1>1. Inv' /\ Grows
  BY AssociationStep DEF ReviewInv
<1>2. CASE UNCHANGED reviewVars
  BY <1>1, <1>2, AssociationsOnly
<1>3. CASE Review
  <2>1. PICK p \in Reviewers :
        \/ \E bs \in Jobs : Enqueue(p, bs) \/ StartRun(p, bs)
        \/ \E c \in Edges : Propose(p, c) \/ StartJudging(p, c)
        \/ \E c \in Edges, verdict \in Verdicts : StartDeciding(p, c, verdict)
        \/ /\ \/ RecordQueued(p) \/ RecordProposal(p) \/ Note(p) \/ Finish(p) \/ Killed(p)
              \/ \E c \in Edges : Apply(p, c)
              \/ \E verdicts \in [proc[p].cands -> Verdicts], b \in proc[p].beads,
                    claim \in {"none", "no_supported_links", "linked"} :
                       JudgeAnswers(p, verdicts, b, claim)
              \/ \E state \in {"pending_judge", "judge_failed"} : JudgeFails(p, state)
           /\ UNCHANGED starts
    BY <1>3 DEF Review
  <2>2. CASE \/ \E bs \in Jobs : Enqueue(p, bs) \/ StartRun(p, bs)
             \/ \E c \in Edges : Propose(p, c) \/ StartJudging(p, c)
             \/ \E c \in Edges, verdict \in Verdicts : StartDeciding(p, c, verdict)
    BY <1>1, <2>2, StartSteps
  <2>3. CASE UNCHANGED starts /\
             (RecordQueued(p) \/ RecordProposal(p) \/ Note(p) \/ Finish(p) \/ Killed(p))
    BY <1>1, <2>3, EndSteps
  <2>4. CASE UNCHANGED starts /\ \E c \in Edges : Apply(p, c)
    BY <1>1, <2>4, ApplyStep
  <2>5. CASE /\ UNCHANGED starts
             /\ \/ \E verdicts \in [proc[p].cands -> Verdicts], b \in proc[p].beads,
                      claim \in {"none", "no_supported_links", "linked"} :
                         JudgeAnswers(p, verdicts, b, claim)
                \/ \E state \in {"pending_judge", "judge_failed"} : JudgeFails(p, state)
    BY <1>1, <2>5, JudgeSteps
  <2> QED BY <2>1, <2>2, <2>3, <2>4, <2>5
<1> QED BY <1>2, <1>3 DEF ReviewNext, allVars

LEMMA ReviewInitially == ReviewInit => ReviewInv
<1> SUFFICES ASSUME ReviewInit PROVE ReviewInv
  OBVIOUS
<1>1. Inv
  BY InitInv DEF ReviewInit
<1>2. ReviewTypeOK
  BY <1>1, IdleIsWork, StartsAssumption DEF ReviewTypeOK, ReviewInit, Inv, States
<1>3. \A p \in Reviewers : proc[p] = Idle
  BY DEF ReviewInit
<1>4. BackInv
  BY <1>3 DEF BackInv, ReviewInit, Idle
<1>5. OperatorInv
  BY <1>3 DEF OperatorInv, ReviewInit, Idle
<1> QED BY <1>1, <1>2, <1>4, <1>5 DEF ReviewInv

LEMMA ReviewInvariance == ReviewSpec => []ReviewInv
<1>1. ReviewInit => ReviewInv
  BY ReviewInitially
<1>2. ReviewInv /\ [ReviewNext]_allVars => ReviewInv'
  BY ReviewStep
<1> QED BY <1>1, <1>2, PTL DEF ReviewSpec

-----------------------------------------------------------------------------
(* The theorems                                                             *)

\* Every file, process and association keeps its shape, whatever runs.
THEOREM ReviewTypeCorrect == ReviewSpec => []ReviewTypeOK
<1>1. ReviewInv => ReviewTypeOK
  BY DEF ReviewInv
<1> QED BY <1>1, ReviewInvariance, PTL

\* Reviewers leave the associations anchored, unique and retracted for good.
THEOREM ReviewKeepsAssociations ==
    ReviewSpec => [](EdgesAreAnchored /\ OneRecordPerEdge /\ RetractionSticks)
<1>1. ReviewInv => EdgesAreAnchored /\ OneRecordPerEdge /\ RetractionSticks
  BY Consequences DEF ReviewInv
<1> QED BY <1>1, ReviewInvariance, PTL

\* Nothing is recorded as linked that has no association behind it, however
\* many processes judge, decide and remove at once.
THEOREM LinksAreBacked == ReviewSpec => []LinkedIsBacked
<1>1. ReviewInv => LinkedIsBacked
  BY DEF ReviewInv, BackInv, LinkedIsBacked, Written, Backed
<1> QED BY <1>1, ReviewInvariance, PTL

\* The decision of an operator is not overruled by anything begun after it.
THEOREM DecisionsStand == ReviewSpec => []OperatorStands
<1>1. ReviewInv => OperatorStands
  BY DEF ReviewInv, OperatorInv, OperatorStands, Status
<1> QED BY <1>1, ReviewInvariance, PTL
=============================================================================
