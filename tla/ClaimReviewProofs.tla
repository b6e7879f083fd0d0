--------------------------- MODULE ClaimReviewProofs ---------------------------
(***************************************************************************)
(* What ClaimReview guarantees for any turns, workers and order of beads,  *)
(* and any number of candidates, reviews and kills.                        *)
(*                                                                         *)
(* IInv says what every copy of the candidates has in common with the      *)
(* file: each row is of two stored claims of turns, and what it says was   *)
(* applied is in the store.  Claims and updates only grow, so that a copy  *)
(* may be as old as it likes.                                              *)
(***************************************************************************)
EXTENDS ClaimReview, FiniteSetTheorems, TLAPS

CountersOK == raised \in Nat /\ forks \in Nat

\* Ids are unique; a claim is a turn's or of a fork that was counted.
ClaimInv ==
    /\ \A c, d \in claims : c.id = d.id => c = d
    /\ \A c \in claims :
         \/ c.id \in Turns /\ c.scope = "global"
         \/ \E n \in 1..forks, side \in {"a", "b"} :
              c.id = [fork |-> n, side |-> side] /\ c.scope = side

SameValue(id, other) ==
    \E c, d \in claims : c.id = id /\ d.id = other /\ c.value = d.value

UpdateInv ==
    \A u \in updates :
      /\ u.target \in Stored
      /\ u.decision = "conflict" => u.target \in Turns
      /\ u.replacement \notin Turns \cup {None} => SameValue(u.replacement, u.target)

Pair(a, b) == a \in Stored \cap Turns /\ b \in Stored \cap Turns /\ a # b

Verdicts == Updating \cup {"both_valid"}
RowOK(row) == Pair(row.a, row.b) /\ (row.applied # "none" => Backed(row))
Candidate == [id: Nat, a: Turns, b: Turns,
              status: {"pending", "accepted", "rejected", "deferred"},
              review: {"none", "deferred", "resolved"},
              applied: Verdicts \cup {"none"}]
RowsOK(rows) == rows \in Seq(Candidate) /\ \A i \in DOMAIN rows : RowOK(rows[i])

Scanning == [at: {"scan"}, a: Turns, b: Turns]
Auditing == [at: {"audit"}, rows: Seq(Candidate), pos: Nat, choice: Verdicts]
Emitting == [at: {"fork", "emit"}, rows: Seq(Candidate), pos: Nat, choice: Verdicts,
             bead: [turn: [cand: Nat, path: {"resolve", "fork"}], real: BOOLEAN], fork: Nat]
Writing == [at: {"write"}, rows: Seq(Candidate)]
Reject == [at: {"write"}, rows: Seq(Candidate), pos: Nat, choice: Answers]
Closing == [at: {"close"}, rows: Seq(Candidate), mixed: BOOLEAN]

Holds(x) ==
    /\ x \in {Idle} \cup Scanning \cup Auditing \cup Emitting \cup Writing \cup Reject \cup Closing
    /\ x.at = "scan" => Pair(x.a, x.b)
    /\ x.at \in {"audit", "fork", "emit", "write", "close"} => RowsOK(x.rows)
    /\ x.at \in {"audit", "fork", "emit"} => x.pos \in DOMAIN x.rows
    /\ x.at \in {"fork", "emit"} => x.bead \in AuditBeads(x.rows[x.pos].id)
    /\ x.at = "emit" /\ x.choice = "both_valid" =>
         /\ x.fork \in 1..forks
         /\ SameValue([fork |-> x.fork, side |-> "a"], x.rows[x.pos].a)
         /\ SameValue([fork |-> x.fork, side |-> "b"], x.rows[x.pos].b)
    /\ x.at = "fork" => x.choice = "both_valid"
    /\ x.at = "emit" => x.choice \in Verdicts

WorkerInv ==
    /\ DOMAIN worker = Workers
    /\ \A w \in Workers : Holds(worker[w])

IInv ==
    /\ CountersOK
    /\ ClaimInv
    /\ UpdateInv
    /\ RetriesWriteOnce
    /\ RowsOK(file)
    /\ WorkerInv

-----------------------------------------------------------------------------
(* What grows keeps                                                         *)

Grows ==
    /\ claims \subseteq claims'
    /\ updates \subseteq updates'
    /\ forks \in Nat /\ forks' \in Nat /\ forks <= forks'

LEMMA BackedStays ==
    ASSUME Grows
    PROVE  \A row : Backed(row) => Backed(row)'
<1> SUFFICES ASSUME NEW row, Backed(row)
             PROVE  Backed(row)'
  OBVIOUS
<1>1. PICK n \in 0..forks, bead \in AuditBeads(row.id) :
         Written(Rulings(row.applied, row.a, row.b, n), bead)
  BY DEF Backed
<1>2. Written(Rulings(row.applied, row.a, row.b, n), bead)'
  BY <1>1 DEF Written, Grows, Rulings, Ruling, Scoped
<1>3. n \in 0..forks'
  BY <1>1 DEF Grows
<1>4. bead \in AuditBeads(row.id)'
  BY <1>1 DEF AuditBeads, BeadOf, Audit
<1> QED
  BY <1>2, <1>3, <1>4 DEF Backed

LEMMA PairStays ==
    ASSUME Grows
    PROVE  \A a, b : Pair(a, b) => Pair(a, b)'
BY DEF Grows, Pair, Stored

LEMMA SameValueStays ==
    ASSUME Grows
    PROVE  \A a, b : SameValue(a, b) => SameValue(a, b)'
BY DEF Grows, SameValue

LEMMA RowsStay ==
    ASSUME Grows
    PROVE  \A rows : RowsOK(rows) => RowsOK(rows)'
BY BackedStays, PairStays DEF RowsOK, RowOK, Candidate

LEMMA HoldsStays ==
    ASSUME Grows
    PROVE  \A x : Holds(x) => Holds(x)'
<1> SUFFICES ASSUME NEW x, Holds(x)
             PROVE  Holds(x)'
  OBVIOUS
<1>1. x.at \in {"audit", "fork", "emit", "write", "close"} => RowsOK(x.rows)'
  BY RowsStay DEF Holds
<1>2. x.at = "scan" => Pair(x.a, x.b)'
  BY PairStays DEF Holds
<1>3. x.at \in {"fork", "emit"} => (x.bead \in AuditBeads(x.rows[x.pos].id))'
  BY DEF Holds, AuditBeads, BeadOf, Audit
<1>4. x.at = "emit" /\ x.choice = "both_valid" =>
        /\ x.fork \in 1..forks'
        /\ SameValue([fork |-> x.fork, side |-> "a"], x.rows[x.pos].a)'
        /\ SameValue([fork |-> x.fork, side |-> "b"], x.rows[x.pos].b)'
  BY SameValueStays DEF Holds, Grows
<1>5. (x \in {Idle} \cup Scanning \cup Auditing \cup Emitting \cup Writing \cup Reject \cup Closing)'
  BY DEF Holds, Idle, Scanning, Auditing, Emitting, Writing, Reject, Closing,
         Candidate, Verdicts, Updating
<1> QED
  BY <1>1, <1>2, <1>3, <1>4, <1>5 DEF Holds, Verdicts, Updating

\* A step of one worker.
LEMMA WorkersStay ==
    ASSUME WorkerInv, Grows,
           NEW w \in Workers,
           DOMAIN worker' = Workers,
           \A v \in Workers \ {w} : worker'[v] = worker[v],
           Holds(worker[w])'
    PROVE  WorkerInv'
<1>1. \A v \in Workers \ {w} : Holds(worker[v])'
  <2> SUFFICES ASSUME NEW v \in Workers \ {w}
               PROVE  Holds(worker[v])'
    OBVIOUS
  <2>1. Holds(worker[v])
    BY DEF WorkerInv
  <2> DEFINE x == worker'[v]
  <2>2. worker[v] = x
    OBVIOUS
  <2> QED
    BY <2>1, <2>2, HoldsStays
<1> QED
  BY <1>1 DEF WorkerInv

-----------------------------------------------------------------------------
(* What is appended                                                         *)

From(u, ruling, bead) ==
    /\ u.bead = bead
    /\ u.decision = ruling.decision
    /\ u.target = ruling.target
    /\ u.replacement = ruling.replacement

LEMMA AppendedFrom ==
    \A ruling, bead, n : From(Appended(ruling, bead, n), ruling, bead)
BY DEF From, Appended

\* What is added is fresh and from one of the rulings; all of them are there.
LEMMA AddedRows ==
    ASSUME NEW rulings, NEW bead, AddUpdates(rulings, bead)
    PROVE  /\ updates \subseteq updates'
           /\ \A u \in updates' \ updates :
                \E i \in DOMAIN rulings :
                  From(u, rulings[i], bead) /\ Fresh(rulings[i], bead)
           /\ \A u, v \in updates' \ updates :
                (\A i, j \in DOMAIN rulings :
                   From(u, rulings[i], bead) /\ From(v, rulings[j], bead) => i = j) => u = v
           /\ Written(rulings, bead)'
<1> DEFINE new == {i \in DOMAIN rulings : Fresh(rulings[i], bead)}
           Nth(i) == Cardinality({j \in new : j <= i})
           row(i) == Appended(rulings[i], bead, Highwater + Nth(i))
<1>1. updates' = updates \cup {row(i) : i \in new}
  BY DEF AddUpdates
<1>2. \A i \in new : From(row(i), rulings[i], bead)
  BY AppendedFrom
<1>3. \A i \in DOMAIN rulings : i \notin new =>
         \E u \in updates : From(u, rulings[i], bead)
  BY DEF Fresh, Key, Appended, From
<1> HIDE DEF row
<1>4. \A u \in updates' \ updates : \E i \in new : u = row(i)
  BY <1>1
<1>5. \A i \in DOMAIN rulings : \E u \in updates' : From(u, rulings[i], bead)
  BY <1>1, <1>2, <1>3
<1>6. Written(rulings, bead)'
  BY <1>5 DEF Written, From
<1>7. \A u \in updates' \ updates :
        \E i \in DOMAIN rulings : From(u, rulings[i], bead) /\ Fresh(rulings[i], bead)
  BY <1>2, <1>4
<1>8. \A u, v \in updates' \ updates :
        (\A i, j \in DOMAIN rulings :
           From(u, rulings[i], bead) /\ From(v, rulings[j], bead) => i = j) => u = v
  BY <1>2, <1>4
<1> QED
  BY <1>1, <1>6, <1>7, <1>8

Distinct(rulings) ==
    \A i, j \in DOMAIN rulings : rulings[i].target = rulings[j].target => i = j

LEMMA AddedOnce ==
    ASSUME NEW rulings, NEW bead, AddUpdates(rulings, bead),
           Distinct(rulings), RetriesWriteOnce
    PROVE  RetriesWriteOnce'
<1> SUFFICES ASSUME NEW u \in updates', NEW v \in updates', Key(u) = Key(v)
             PROVE  u = v
  BY DEF RetriesWriteOnce, Key
<1>1. CASE u \in updates /\ v \in updates
  BY <1>1 DEF RetriesWriteOnce
<1>2. \A x \in updates, y \in updates' \ updates : Key(x) # Key(y)
  <2> SUFFICES ASSUME NEW x \in updates, NEW y \in updates' \ updates
               PROVE  Key(x) # Key(y)
    OBVIOUS
  <2>1. PICK i \in DOMAIN rulings : From(y, rulings[i], bead) /\ Fresh(rulings[i], bead)
    BY AddedRows
  <2>2. Key(y) = Key(Appended(rulings[i], bead, 0))
    BY <2>1 DEF From, Key, Appended
  <2> QED
    BY <2>1, <2>2 DEF Fresh
<1>3. CASE u \notin updates /\ v \notin updates
  <2>1. \A i, j \in DOMAIN rulings :
          From(u, rulings[i], bead) /\ From(v, rulings[j], bead) => i = j
    BY DEF Distinct, From, Key
  <2> QED
    BY <1>3, <2>1, AddedRows
<1> QED
  BY <1>1, <1>2, <1>3

\* What a batch of rulings has to be about.
Sound(ruling) ==
    /\ ruling.target \in Stored
    /\ ruling.decision = "conflict" => ruling.target \in Turns
    /\ ruling.replacement \notin Turns \cup {None} =>
         SameValue(ruling.replacement, ruling.target)

LEMMA AddedSound ==
    ASSUME NEW rulings, NEW bead, AddUpdates(rulings, bead), UpdateInv, Grows,
           \A i \in DOMAIN rulings : Sound(rulings[i])
    PROVE  UpdateInv'
<1> SUFFICES ASSUME NEW u \in updates'
             PROVE  /\ u.target \in Stored'
                    /\ u.decision = "conflict" => u.target \in Turns
                    /\ u.replacement \notin Turns \cup {None} =>
                         SameValue(u.replacement, u.target)'
  BY DEF UpdateInv
<1>1. Stored \subseteq Stored'
  BY DEF Stored, Grows
<1>2. CASE u \in updates
  BY <1>1, <1>2, SameValueStays DEF UpdateInv
<1>3. CASE u \notin updates
  <2>1. PICK i \in DOMAIN rulings : From(u, rulings[i], bead)
    BY <1>3, AddedRows
  <2> QED
    BY <1>1, <2>1, SameValueStays DEF From, Sound
<1> QED
  BY <1>2, <1>3

-----------------------------------------------------------------------------
(* The order of rulings                                                     *)

\* The slot has a highest number; the last ruling has a higher one than every
\* ruling of the other kind, whichever beads they are in.
Ordered ==
    /\ \A u \in updates : u.seq \in Nat
    /\ \E n \in {0} \cup {u.seq : u \in updates} : \A u \in updates : u.seq <= n
    /\ last = "closing" =>
         \E r \in updates :
           Closes(r) /\ \A u \in updates : u.decision = "conflict" => u.seq < r.seq
    /\ last = "conflict" =>
         \E u \in updates :
           u.decision = "conflict" /\ \A r \in updates : Closes(r) => r.seq < u.seq

\* A batch is one or two rulings of one kind.
Batch(rulings) ==
    /\ DOMAIN rulings \in {1..1, 1..2}
    /\ \A i \in DOMAIN rulings :
         rulings[i].decision \in {"reaffirm", "supersede", "retract", "conflict"}
    /\ \A i, j \in DOMAIN rulings : rulings[i].decision = rulings[j].decision

LEMMA HighwaterTops ==
    ASSUME Ordered
    PROVE  Highwater \in Nat /\ \A u \in updates : u.seq <= Highwater
<1> DEFINE Top(n) == n \in {0} \cup {u.seq : u \in updates} /\ \A u \in updates : u.seq <= n
<1>1. \E n : Top(n)
  BY DEF Ordered
<1>2. Highwater = CHOOSE n : Top(n)
  BY DEF Highwater
<1>3. Top(Highwater)
  BY <1>1, <1>2
<1> QED
  BY <1>3 DEF Ordered

\* The rank of an element among some of the first naturals: at least one, and
\* growing with the element.
LEMMA RankBounds ==
    ASSUME NEW new, new \subseteq 1..2, NEW i \in new
    PROVE  LET Nth(k) == Cardinality({j \in new : j <= k})
           IN  /\ Nth(i) \in Nat /\ Nth(i) >= 1
               /\ \A k \in new : k <= i => Nth(k) <= Nth(i)
<1> DEFINE Upto(k) == {j \in new : j <= k}
<1>1. \A k \in new : IsFiniteSet(Upto(k)) /\ Cardinality(Upto(k)) \in Nat
  <2> SUFFICES ASSUME NEW k \in new
               PROVE  IsFiniteSet(Upto(k)) /\ Cardinality(Upto(k)) \in Nat
    OBVIOUS
  <2> DEFINE two == 2
  <2>1. IsFiniteSet(1..two)
    <3>1. 1 \in Int /\ two \in Int
      OBVIOUS
    <3> HIDE DEF two
    <3> QED
      BY <3>1, FS_Interval
  <2>2. Upto(k) \in SUBSET (1..2)
    OBVIOUS
  <2>3. IsFiniteSet(Upto(k))
    BY <2>1, <2>2, FS_Subset
  <2> QED
    BY <2>3, FS_CardinalityType
<1>2. i \in Upto(i)
  OBVIOUS
<1>3. Cardinality(Upto(i)) # 0
  BY <1>1, <1>2, FS_EmptySet
<1>4. ASSUME NEW k \in new, k <= i
      PROVE  Cardinality(Upto(k)) <= Cardinality(Upto(i))
  <2>1. \A j \in new : j \in Int
    OBVIOUS
  <2>2. \A j \in new : j <= k => j <= i
    BY <1>4, <2>1
  <2>3. Upto(k) \in SUBSET Upto(i)
    BY <2>2
  <2> QED
    BY <1>1, <2>3, FS_Subset
<1>5. Cardinality(Upto(i)) \in Nat /\ Cardinality(Upto(i)) >= 1
  BY <1>1, <1>3
<1> HIDE DEF Upto
<1>6. \A k \in new : k <= i => Cardinality(Upto(k)) <= Cardinality(Upto(i))
  BY <1>4
<1> QED
  BY <1>5, <1>6 DEF Upto

\* What is added is numbered above all that was there.
LEMMA AddedAbove ==
    ASSUME Ordered, NEW rulings, NEW bead, Batch(rulings), AddUpdates(rulings, bead)
    PROVE  /\ \A u \in updates' : u.seq \in Nat
           /\ \A u \in updates' \ updates : \A v \in updates : v.seq < u.seq
           /\ (\E n \in {0} \cup {u.seq : u \in updates} : \A u \in updates : u.seq <= n)'
<1> DEFINE new == {i \in DOMAIN rulings : Fresh(rulings[i], bead)}
           Nth(i) == Cardinality({j \in new : j <= i})
           row(i) == Appended(rulings[i], bead, Highwater + Nth(i))
<1>1. updates' = updates \cup {row(i) : i \in new}
  BY DEF AddUpdates
<1>2. \A i \in new : row(i).seq = Highwater + Nth(i)
  BY DEF Appended
<1>3. new \subseteq 1..2
  BY DEF Batch
<1> HIDE DEF new
<1>4. \A i \in new : /\ Nth(i) \in Nat /\ Nth(i) >= 1
                     /\ \A k \in new : k <= i => Nth(k) <= Nth(i)
  BY <1>3, RankBounds
<1> HIDE DEF Nth, row
<1>5. Highwater \in Nat /\ \A u \in updates : u.seq \in Nat /\ u.seq <= Highwater
  BY HighwaterTops DEF Ordered
<1>6. \A i \in new : row(i).seq \in Nat /\ Highwater < row(i).seq
  BY <1>2, <1>4, <1>5
<1>7. \A u \in updates' : u.seq \in Nat
  BY <1>1, <1>5, <1>6
<1>8. \A u \in updates' \ updates : \A v \in updates : v.seq < u.seq
  <2> SUFFICES ASSUME NEW i \in new, NEW v \in updates
               PROVE  v.seq < row(i).seq
    BY <1>1
  <2> QED
    BY <1>5, <1>6
<1>9. \E n \in {0} \cup {u.seq : u \in updates'} : \A u \in updates' : u.seq <= n
  <2>1. CASE new = {}
    BY <1>1, <2>1 DEF Ordered
  <2>2. CASE new # {}
    <3>1. PICK m \in new : \A k \in new : k <= m
      <4>1. CASE 2 \in new
        BY <1>3, <4>1
      <4>2. CASE 2 \notin new
        <5>1. \A k \in new : k = 1
          BY <1>3, <4>2
        <5> QED
          BY <2>2, <5>1
      <4> QED
        BY <4>1, <4>2
    <3>2. \A k \in new : row(k).seq <= row(m).seq
      BY <1>2, <1>4, <1>5, <3>1
    <3>3. \A u \in updates : u.seq <= row(m).seq
      <4> SUFFICES ASSUME NEW u \in updates
                   PROVE  u.seq <= row(m).seq
        OBVIOUS
      <4> QED
        BY <1>5, <1>6, <3>1
    <3>4. \A u \in updates' : u.seq <= row(m).seq
      BY <1>1, <3>2, <3>3
    <3>5. row(m) \in updates'
      BY <1>1
    <3> QED
      BY <3>4, <3>5
  <2> QED
    BY <2>1, <2>2
<1> QED
  BY <1>7, <1>8, <1>9

\* A batch keeps the order: of its kind if it adds a ruling that tells.
LEMMA AddedOrdered ==
    ASSUME Ordered, NEW rulings, NEW bead, Batch(rulings), AddUpdates(rulings, bead)
    PROVE  Ordered'
<1> DEFINE new == {i \in DOMAIN rulings : Fresh(rulings[i], bead)}
           telling == {i \in new : rulings[i].decision # "reaffirm"}
<1>1. /\ \A u \in updates' : u.seq \in Nat
      /\ \A u \in updates' \ updates : \A v \in updates : v.seq < u.seq
      /\ (\E n \in {0} \cup {u.seq : u \in updates} : \A u \in updates : u.seq <= n)'
  BY AddedAbove
<1>2. /\ updates \subseteq updates'
      /\ \A u \in updates' \ updates :
           \E i \in new : u.decision = rulings[i].decision
  BY AddedRows DEF From
<1>3. \A i \in new : \E u \in updates' \ updates : u.decision = rulings[i].decision
  <2> DEFINE row(i) == Appended(rulings[i], bead, Highwater + Cardinality({j \in new : j <= i}))
  <2>1. updates' = updates \cup {row(i) : i \in new}
    BY DEF AddUpdates
  <2>2. \A i \in new : row(i) \notin updates /\ row(i).decision = rulings[i].decision
    BY DEF Fresh, Key, Appended
  <2> HIDE DEF row, new
  <2> QED
    BY <2>1, <2>2
<1>4. /\ telling = {} => last' = last
      /\ telling # {} /\ (\E i \in telling : Closes(rulings[i])) => last' = "closing"
      /\ telling # {} /\ ~(\E i \in telling : Closes(rulings[i])) => last' = "conflict"
  BY DEF AddUpdates
<1>5. \A i, j \in new : rulings[i].decision = rulings[j].decision
  BY DEF Batch
<1>9. \A i \in new :
        rulings[i].decision \in {"reaffirm", "supersede", "retract", "conflict"}
  BY DEF Batch
<1> HIDE DEF new
<1>6. CASE telling = {}
  <2>1. \A u \in updates' \ updates : u.decision = "reaffirm"
    BY <1>2, <1>6
  <2>2. last' = last
    BY <1>4, <1>6
  <2> QED
    BY <1>1, <1>2, <2>1, <2>2 DEF Ordered, Closes
<1>7. CASE \E i \in telling : Closes(rulings[i])
  <2>1. PICK r \in updates' \ updates : Closes(r)
    BY <1>3, <1>7 DEF Closes
  <2>2. \A u \in updates' : u.decision = "conflict" => u \in updates
    BY <1>2, <1>5, <1>7 DEF Closes
  <2>3. last' = "closing"
    BY <1>4, <1>7
  <2> QED
    BY <1>1, <2>1, <2>2, <2>3 DEF Ordered, Closes
<1>8. CASE telling # {} /\ ~(\E i \in telling : Closes(rulings[i]))
  <2>1. last' = "conflict"
    BY <1>4, <1>8
  <2>2. \A u \in updates' \ updates : ~Closes(u)
    BY <1>2, <1>5, <1>8 DEF Closes
  <2>3. \E i \in new : rulings[i].decision = "conflict"
    BY <1>8, <1>9 DEF Closes
  <2>4. \E u \in updates' \ updates : u.decision = "conflict"
    BY <1>3, <2>3
  <2> QED
    BY <1>1, <2>1, <2>2, <2>4 DEF Ordered, Closes
<1> QED
  BY <1>6, <1>7, <1>8

-----------------------------------------------------------------------------
(* The invariant                                                            *)

LEMMA InitInv == Init => IInv
BY DEF Init, IInv, CountersOK, ClaimInv, UpdateInv, RetriesWriteOnce, RowsOK, WorkerInv,
       Holds, Idle

LEMMA AuthorClaimInv ==
    ASSUME IInv, NEW t \in Turns, AuthorClaim(t)
    PROVE  IInv'
<1>1. Grows
  BY DEF AuthorClaim, Grows, IInv, CountersOK
<1>2. ClaimInv'
  BY DEF AuthorClaim, IInv, ClaimInv, Stored
<1>3. UpdateInv'
  BY <1>1, SameValueStays DEF AuthorClaim, IInv, UpdateInv, Stored
<1>4. RowsOK(file)'
  BY <1>1, RowsStay DEF AuthorClaim, IInv
<1>5. WorkerInv'
  BY <1>1, HoldsStays DEF AuthorClaim, IInv, WorkerInv
<1> QED
  BY <1>2, <1>3, <1>4, <1>5 DEF AuthorClaim, IInv, CountersOK, RetriesWriteOnce, Key

LEMMA EmitAuthoredInv ==
    ASSUME IInv, NEW t \in Turns, EmitAuthored(t)
    PROVE  IInv'
<1>1. PICK rulings \in Authored(t) : AddUpdates(rulings, t)
  BY DEF EmitAuthored
<1>2. Grows
  BY <1>1, AddedRows DEF EmitAuthored, Grows, IInv, CountersOK
<1>3. Distinct(rulings) /\ \A i \in DOMAIN rulings : Sound(rulings[i])
  BY <1>1 DEF EmitAuthored, Authored, Ruling, Distinct, Sound
<1>4. RetriesWriteOnce'
  BY <1>1, <1>3, AddedOnce DEF IInv
<1>5. UpdateInv'
  BY <1>1, <1>2, <1>3, AddedSound DEF IInv
<1>6. RowsOK(file)'
  BY <1>2, RowsStay DEF EmitAuthored, IInv
<1>7. WorkerInv'
  BY <1>2, HoldsStays DEF EmitAuthored, IInv, WorkerInv
<1>8. ClaimInv'
  BY DEF EmitAuthored, IInv, ClaimInv
<1> QED
  BY <1>4, <1>5, <1>6, <1>7, <1>8 DEF EmitAuthored, IInv, CountersOK

\* A step that leaves claims, updates and counters alone.
LEMMA QuietStep ==
    ASSUME IInv, NEW w \in Workers,
           UNCHANGED <<claims, updates, forks>>,
           raised' \in Nat,
           RowsOK(file)',
           DOMAIN worker' = Workers,
           \A v \in Workers \ {w} : worker'[v] = worker[v],
           Holds(worker[w])'
    PROVE  IInv'
<1>1. Grows
  BY DEF Grows, IInv, CountersOK
<1>2. WorkerInv'
  BY <1>1, WorkersStay DEF IInv
<1>3. ClaimInv' /\ UpdateInv' /\ RetriesWriteOnce' /\ CountersOK'
  BY DEF IInv, ClaimInv, UpdateInv, RetriesWriteOnce, CountersOK, Key, Stored, SameValue
<1> QED
  BY <1>2, <1>3 DEF IInv

LEMMA ScanConflictInv ==
    ASSUME IInv, NEW w \in Workers, ScanConflict(w)
    PROVE  IInv'
<1>1. PICK pair \in Contested :
        /\ pair[1].scope = pair[2].scope
        /\ worker' = [worker EXCEPT ![w] =
             [at |-> "scan", a |-> pair[1].id, b |-> pair[2].id]]
  BY DEF ScanConflict
<1>2. pair[1] \in claims /\ pair[2] \in claims /\ pair[1] # pair[2] /\ pair[1].id \in Marked
  BY <1>1 DEF Contested, First, Conflicts
<1>3. pair[1].id \in Turns
  BY <1>2 DEF Marked, IInv, UpdateInv
<1>4. pair[1].scope = "global"
  <2>1. \A n \in 1..forks, side \in {"a", "b"} : pair[1].id # [fork |-> n, side |-> side]
    BY <1>3, ReviewNames DEF IInv, CountersOK
  <2> QED
    BY <1>2, <2>1 DEF IInv, ClaimInv
<1>5. pair[2].id \in Turns
  BY <1>1, <1>2, <1>4 DEF IInv, ClaimInv
<1>6. Pair(pair[1].id, pair[2].id)
  BY <1>2, <1>3, <1>5 DEF Pair, Stored, IInv, ClaimInv
<1>7. worker'[w] = [at |-> "scan", a |-> pair[1].id, b |-> pair[2].id]
  BY <1>1 DEF IInv, WorkerInv
<1>8. Pair(pair[1].id, pair[2].id)'
  BY <1>6 DEF Pair, Stored, ScanConflict
<1>9. Holds(worker[w])'
  BY <1>3, <1>5, <1>7, <1>8 DEF Holds, Scanning, Idle
<1>10. RowsOK(file)'
  <2>1. Grows
    BY DEF ScanConflict, Grows, IInv, CountersOK
  <2> QED
    BY <2>1, RowsStay DEF IInv, ScanConflict
<1> QED
  BY <1>1, <1>9, <1>10, QuietStep DEF ScanConflict, IInv, WorkerInv, CountersOK

LEMMA IdleHolds == Holds(Idle)
BY DEF Holds, Idle

LEMMA ScanFileInv ==
    ASSUME IInv, NEW w \in Workers, ScanFile(w)
    PROVE  IInv'
<1>1. Grows
  BY DEF ScanFile, Grows, IInv, CountersOK
<1>2. RowsOK(file)'
  BY <1>1, RowsStay DEF ScanFile, IInv
<1> DEFINE new == [id |-> raised + 1, a |-> worker[w].a, b |-> worker[w].b,
                   status |-> "pending", review |-> "none", applied |-> "none"]
<1>3. CASE worker' = [worker EXCEPT ![w] = Idle] /\ UNCHANGED raised
  <2>1. worker'[w] = Idle
    BY <1>3 DEF IInv, WorkerInv
  <2>2. Holds(worker[w])'
    BY <2>1, <1>1, IdleHolds, HoldsStays
  <2> QED
    BY <1>2, <1>3, <2>2, QuietStep DEF ScanFile, IInv, WorkerInv, CountersOK
<1>4. CASE /\ raised' = new.id
           /\ worker' = [worker EXCEPT ![w] = [at |-> "write", rows |-> Append(file, new)]]
  <2>1. Pair(worker[w].a, worker[w].b)
    BY DEF ScanFile, IInv, WorkerInv, Holds
  <2>2. new \in Candidate /\ RowOK(new)
    BY <2>1 DEF RowOK, Candidate, Pair, IInv, CountersOK, Verdicts
  <2>3. RowsOK(Append(file, new))
    BY <2>2 DEF RowsOK, IInv
  <2>4. worker'[w] = [at |-> "write", rows |-> Append(file, new)]
    BY <1>4 DEF IInv, WorkerInv
  <2>5. RowsOK(worker[w].rows)'
    BY <2>3, <2>4, <1>1, RowsStay
  <2>6. Holds(worker[w])'
    BY <2>4, <2>5 DEF Holds, Writing, RowsOK, Idle
  <2>7. raised' \in Nat
    BY <1>4 DEF IInv, CountersOK
  <2>8. DOMAIN worker' = Workers /\ \A v \in Workers \ {w} : worker'[v] = worker[v]
    BY <1>4 DEF IInv, WorkerInv
  <2>9. UNCHANGED <<claims, updates, forks>>
    BY DEF ScanFile
  <2> QED
    BY <1>2, <2>6, <2>7, <2>8, <2>9, QuietStep
<1> QED
  BY <1>3, <1>4 DEF ScanFile

LEMMA ReviewInv ==
    ASSUME IInv, NEW w \in Workers, Review(w)
    PROVE  IInv'
<1>1. PICK i \in DOMAIN file, choice \in Answers :
         worker' = [worker EXCEPT ![w] =
           [at |-> IF choice \in Updating \cup {"both_valid"} THEN "audit" ELSE "write",
            rows |-> [file EXCEPT ![i] = Decided(@, choice)],
            pos |-> i, choice |-> choice]]
  BY DEF Review
<1>2. Grows
  BY DEF Review, Grows, IInv, CountersOK
<1>3. RowsOK(file)'
  BY <1>2, RowsStay DEF Review, IInv
<1> DEFINE rows == [file EXCEPT ![i] = Decided(@, choice)]
<1>4. Decided(file[i], choice) \in Candidate /\ RowOK(Decided(file[i], choice))
  <2>1. file[i] \in Candidate /\ Pair(file[i].a, file[i].b)
    BY DEF IInv, RowsOK, RowOK
  <2> DEFINE d == Decided(file[i], choice)
  <2>2. /\ d \in Candidate
        /\ d.a = file[i].a /\ d.b = file[i].b /\ d.applied = "none"
    <3>1. CASE choice = "defer"
      BY <2>1, <3>1 DEF Decided, Candidate
    <3>2. CASE choice = "reject"
      BY <2>1, <3>2 DEF Decided, Candidate
    <3>3. CASE choice = "no_scopes"
      BY <2>1, <3>3 DEF Decided, Candidate
    <3>4. CASE choice \notin {"defer", "reject", "no_scopes"}
      BY <2>1, <3>4 DEF Decided, Candidate
    <3> QED
      BY <3>1, <3>2, <3>3, <3>4
  <2> QED
    BY <2>1, <2>2 DEF RowOK
<1>5. RowsOK(rows)
  BY <1>4 DEF RowsOK, IInv
<1>6. worker'[w] = [at |-> IF choice \in Updating \cup {"both_valid"} THEN "audit" ELSE "write",
                    rows |-> rows, pos |-> i, choice |-> choice]
  BY <1>1 DEF IInv, WorkerInv
<1>7. RowsOK(worker[w].rows)'
  BY <1>2, <1>5, <1>6, RowsStay
<1>8. choice \in Answers
  BY <1>1
<1>9. i \in Nat /\ i \in DOMAIN rows
  BY DEF IInv, RowsOK
<1>10. Holds(worker[w])'
  BY <1>6, <1>7, <1>8, <1>9 DEF Holds, Auditing, Reject, RowsOK, Verdicts, Idle
<1> QED
  BY <1>1, <1>3, <1>10, QuietStep DEF Review, IInv, WorkerInv, CountersOK

LEMMA AtTells ==
    ASSUME NEW x,
           x \in {Idle} \cup Scanning \cup Auditing \cup Emitting \cup Writing
                   \cup Reject \cup Closing
    PROVE  /\ x.at = "audit" => x \in Auditing
           /\ x.at \in {"fork", "emit"} => x \in Emitting
           /\ x.at = "write" => x \in Writing \cup Reject
           /\ x.at = "close" => x \in Closing
<1>1. CASE x = Idle
  BY <1>1 DEF Idle
<1>2. CASE x \in Scanning
  BY <1>2 DEF Scanning
<1>3. CASE x \in Auditing
  BY <1>3 DEF Auditing
<1>4. CASE x \in Emitting
  BY <1>4 DEF Emitting
<1>5. CASE x \in Writing \cup Reject
  BY <1>5 DEF Writing, Reject
<1>6. CASE x \in Closing
  BY <1>6 DEF Closing
<1> QED
  BY <1>1, <1>2, <1>3, <1>4, <1>5, <1>6

LEMMA RowAt ==
    ASSUME NEW rows, RowsOK(rows), NEW i \in DOMAIN rows
    PROVE  rows[i] \in Candidate /\ RowOK(rows[i])
BY DEF RowsOK

LEMMA RecordAuditInv ==
    ASSUME IInv, NEW w \in Workers, RecordAudit(w)
    PROVE  IInv'
<1>1. Grows
  BY DEF RecordAudit, Grows, IInv, CountersOK
<1>2. RowsOK(file)'
  BY <1>1, RowsStay DEF RecordAudit, IInv
<1>3. PICK found \in BOOLEAN :
        worker' = [worker EXCEPT ![w] =
          [at |-> IF worker[w].choice = "both_valid" THEN "fork" ELSE "emit",
           rows |-> worker[w].rows, pos |-> worker[w].pos, choice |-> worker[w].choice,
           bead |-> BeadOf(TurnOf(w), found), fork |-> 0]]
  BY DEF RecordAudit
<1>4. /\ worker[w] \in Auditing
      /\ RowsOK(worker[w].rows)
      /\ worker[w].pos \in DOMAIN worker[w].rows
  <2>1. worker[w].at = "audit" /\ Holds(worker[w])
    BY DEF RecordAudit, IInv, WorkerInv
  <2> QED
    BY <2>1, AtTells DEF Holds
<1>5. worker'[w] = [at |-> IF worker[w].choice = "both_valid" THEN "fork" ELSE "emit",
         rows |-> worker[w].rows, pos |-> worker[w].pos, choice |-> worker[w].choice,
         bead |-> BeadOf(TurnOf(w), found), fork |-> 0]
  BY <1>3 DEF IInv, WorkerInv
<1>6. RowsOK(worker[w].rows)'
  BY <1>1, <1>4, <1>5, RowsStay
<1>7. worker[w].rows[worker[w].pos].id \in Nat
  BY <1>4, RowAt DEF Candidate
<1>8. /\ BeadOf(TurnOf(w), found) \in AuditBeads(worker[w].rows[worker[w].pos].id)
      /\ BeadOf(TurnOf(w), found) \in [turn: [cand: Nat, path: {"resolve", "fork"}], real: BOOLEAN]
  BY <1>3, <1>7 DEF AuditBeads, BeadOf, TurnOf, Target, Path, Audit
<1>9. worker'[w] \in Emitting
  BY <1>4, <1>5, <1>8 DEF Auditing, Emitting
<1>10. Holds(worker[w])'
  <2>1. worker'[w].pos \in DOMAIN worker'[w].rows
    BY <1>4, <1>5
  <2>2. worker'[w].bead \in AuditBeads(worker'[w].rows[worker'[w].pos].id)
    BY <1>5, <1>8
  <2>3. worker'[w].at = "emit" => worker'[w].choice # "both_valid"
    BY <1>5
  <2>4. worker'[w].at = "fork" => worker'[w].choice = "both_valid"
    BY <1>5
  <2>5. worker'[w].at \in {"fork", "emit"} /\ worker'[w].choice \in Verdicts
    BY <1>9 DEF Emitting
  <2>6. (worker[w].bead \in AuditBeads(worker[w].rows[worker[w].pos].id))'
    BY <2>2 DEF AuditBeads, BeadOf, Audit
  <2> QED
    BY <1>6, <1>9, <2>1, <2>6, <2>3, <2>4, <2>5
    DEF Holds, Emitting, Auditing, Candidate, Verdicts, Updating
<1>11. DOMAIN worker' = Workers /\ \A v \in Workers \ {w} : worker'[v] = worker[v]
  BY <1>3 DEF IInv, WorkerInv
<1> QED
  BY <1>2, <1>10, <1>11, QuietStep DEF RecordAudit, IInv, CountersOK

\* The value of a stored claim is that of the only claim of its id.
LEMMA TheValue ==
    ASSUME ClaimInv, NEW c \in claims
    PROVE  ValueOf(c.id) = c.value
BY DEF ValueOf, ClaimInv

LEMMA WriteScopedInv ==
    ASSUME IInv, NEW w \in Workers, WriteScoped(w)
    PROVE  IInv'
<1> DEFINE n == forks + 1
           A == [id |-> Scoped(n, "a"), bead |-> worker[w].bead, scope |-> "a",
                 value |-> ValueOf(Target(w).a)]
           B == [id |-> Scoped(n, "b"), bead |-> worker[w].bead, scope |-> "b",
                 value |-> ValueOf(Target(w).b)]
<1>1. /\ claims' = claims \cup {A, B}
      /\ forks' = n
      /\ worker' = [worker EXCEPT ![w].at = "emit", ![w].fork = n]
  BY DEF WriteScoped
<1>2. forks \in Nat /\ n \in Nat /\ forks < n
  BY DEF IInv, CountersOK
<1>3. Grows
  BY <1>1, <1>2 DEF WriteScoped, Grows
<1>4. RowsOK(file)'
  BY <1>3, RowsStay DEF WriteScoped, IInv
<1>5. A.id \notin Stored /\ B.id \notin Stored /\ A.id # B.id
  <2>1. \A side \in {"a", "b"} : \A c \in claims : c.id # Scoped(n, side)
    <3> SUFFICES ASSUME NEW side \in {"a", "b"}, NEW c \in claims, c.id = Scoped(n, side)
                 PROVE  FALSE
      OBVIOUS
    <3>1. c.id \in [fork: Nat, side: {"a", "b"}] /\ c.id.fork = n
      BY <1>2 DEF Scoped
    <3>2. c.id \notin Turns
      BY <3>1, ReviewNames
    <3>3. PICK k \in 1..forks, s \in {"a", "b"} : c.id = [fork |-> k, side |-> s]
      BY <3>2 DEF IInv, ClaimInv
    <3> QED
      BY <1>2, <3>1, <3>3
  <2> QED
    BY <2>1 DEF Stored, Scoped
<1>6. ClaimInv'
  <2>1. \A c, d \in claims' : c.id = d.id => c = d
    BY <1>1, <1>5 DEF IInv, ClaimInv, Stored
  <2>2. \A c \in {A, B} : \E k \in 1..forks', side \in {"a", "b"} :
           c.id = [fork |-> k, side |-> side] /\ c.scope = side
    BY <1>1, <1>2 DEF Scoped
  <2>3. \A c \in claims :
          \/ c.id \in Turns /\ c.scope = "global"
          \/ \E k \in 1..forks', side \in {"a", "b"} :
               c.id = [fork |-> k, side |-> side] /\ c.scope = side
    BY <1>1, <1>2 DEF IInv, ClaimInv
  <2> QED
    BY <1>1, <2>1, <2>2, <2>3 DEF ClaimInv
<1>7. UpdateInv'
  <2>1. Stored \subseteq Stored'
    BY <1>1 DEF Stored
  <2> QED
    BY <2>1, <1>3, SameValueStays DEF WriteScoped, IInv, UpdateInv
<1>8. /\ worker[w] \in Emitting /\ worker[w].choice = "both_valid"
      /\ RowsOK(worker[w].rows)
      /\ worker[w].pos \in DOMAIN worker[w].rows
      /\ worker[w].bead \in AuditBeads(Target(w).id)
  <2>1. worker[w].at = "fork" /\ Holds(worker[w])
    BY DEF WriteScoped, IInv, WorkerInv
  <2> QED
    BY <2>1, AtTells DEF Holds, Target
<1>9. Pair(Target(w).a, Target(w).b)
  BY <1>8 DEF RowsOK, RowOK, Target
<1>10. /\ \E c, d \in claims' : c.id = [fork |-> n, side |-> "a"] /\ d.id = Target(w).a
                                /\ c.value = d.value
       /\ \E c, d \in claims' : c.id = [fork |-> n, side |-> "b"] /\ d.id = Target(w).b
                                /\ c.value = d.value
  <2>1. PICK c \in claims : c.id = Target(w).a
    BY <1>9 DEF Pair, Stored
  <2>2. PICK d \in claims : d.id = Target(w).b
    BY <1>9 DEF Pair, Stored
  <2>3. A.value = c.value /\ B.value = d.value
    BY <2>1, <2>2, TheValue DEF IInv
  <2> QED
    BY <1>1, <2>1, <2>2, <2>3 DEF Scoped
<1>11. /\ worker'[w].at = "emit" /\ worker'[w].fork = n
       /\ worker'[w].rows = worker[w].rows /\ worker'[w].pos = worker[w].pos
       /\ worker'[w].bead = worker[w].bead /\ worker'[w].choice = "both_valid"
       /\ worker'[w] \in Emitting
  BY <1>1, <1>2, <1>8 DEF IInv, WorkerInv, Emitting
<1>12. RowsOK(worker[w].rows)'
  BY <1>3, <1>8, <1>11, RowsStay
<1>13. /\ SameValue([fork |-> worker[w].fork, side |-> "a"], worker[w].rows[worker[w].pos].a)'
       /\ SameValue([fork |-> worker[w].fork, side |-> "b"], worker[w].rows[worker[w].pos].b)'
  BY <1>10, <1>11 DEF SameValue, Target
<1>14. Holds(worker[w])'
  <2>1. worker'[w].fork \in 1..forks'
    BY <1>1, <1>2, <1>11
  <2>2. worker'[w].pos \in DOMAIN worker'[w].rows
    BY <1>8, <1>11
  <2>3. (worker[w].bead \in AuditBeads(worker[w].rows[worker[w].pos].id))'
    BY <1>8, <1>11 DEF AuditBeads, BeadOf, Audit, Target
  <2> QED
    BY <1>11, <1>12, <1>13, <2>1, <2>2, <2>3
    DEF Holds, Emitting, Candidate, Verdicts, Updating
<1>15. DOMAIN worker' = Workers /\ \A v \in Workers \ {w} : worker'[v] = worker[v]
  BY <1>1 DEF IInv, WorkerInv
<1>16. WorkerInv'
  BY <1>3, <1>14, <1>15, WorkersStay DEF IInv
<1> QED
  BY <1>1, <1>2, <1>4, <1>6, <1>7, <1>16
  DEF WriteScoped, IInv, CountersOK, RetriesWriteOnce, Key

LEMMA RulingsAre ==
    ASSUME NEW a, NEW b, NEW n
    PROVE  /\ Rulings("prefer_a", a, b, n) = <<Ruling("supersede", b, a)>>
           /\ Rulings("prefer_b", a, b, n) = <<Ruling("supersede", a, b)>>
           /\ Rulings("retract_both", a, b, n)
                = <<Ruling("retract", a, None), Ruling("retract", b, None)>>
           /\ Rulings("both_valid", a, b, n)
                = <<Ruling("supersede", a, Scoped(n, "a")), Ruling("supersede", b, Scoped(n, "b"))>>
BY DEF Rulings

LEMMA RulingsSound ==
    ASSUME NEW choice \in Verdicts, NEW a, NEW b, NEW n, Pair(a, b),
           choice = "both_valid" => SameValue(Scoped(n, "a"), a) /\ SameValue(Scoped(n, "b"), b)
    PROVE  /\ Distinct(Rulings(choice, a, b, n))
           /\ \A i \in DOMAIN Rulings(choice, a, b, n) : Sound(Rulings(choice, a, b, n)[i])
<1>1. CASE choice = "prefer_a"
  BY <1>1, RulingsAre DEF Distinct, Sound, Ruling, Pair
<1>2. CASE choice = "prefer_b"
  BY <1>2, RulingsAre DEF Distinct, Sound, Ruling, Pair
<1>3. CASE choice = "retract_both"
  BY <1>3, RulingsAre DEF Distinct, Sound, Ruling, Pair
<1>4. CASE choice = "both_valid"
  BY <1>4, RulingsAre DEF Distinct, Sound, Ruling, Pair
<1> QED
  BY <1>1, <1>2, <1>3, <1>4 DEF Verdicts, Updating

LEMMA EmitRulingsInv ==
    ASSUME IInv, NEW w \in Workers, EmitRulings(w)
    PROVE  IInv'
<1> DEFINE choice == worker[w].choice
           bead == worker[w].bead
           a == Target(w).a
           b == Target(w).b
           fork == worker[w].fork
           rulings == Rulings(choice, a, b, fork)
           row == [Target(w) EXCEPT !.review = "resolved", !.applied = choice]
           rows == [worker[w].rows EXCEPT ![worker[w].pos].review = "resolved",
                                          ![worker[w].pos].applied = choice]
<1>1. Holds(worker[w]) /\ worker[w].at = "emit"
  BY DEF EmitRulings, IInv, WorkerInv
<1>2. /\ worker[w] \in Emitting
      /\ choice \in Verdicts
      /\ RowsOK(worker[w].rows)
      /\ worker[w].pos \in DOMAIN worker[w].rows
      /\ bead \in AuditBeads(Target(w).id)
  BY <1>1, AtTells DEF Holds, Target
<1>3. Pair(a, b) /\ Target(w) \in Candidate
  BY <1>2, RowAt DEF RowOK, Target
<1>4. choice = "both_valid" =>
        fork \in 1..forks /\ SameValue(Scoped(fork, "a"), a) /\ SameValue(Scoped(fork, "b"), b)
  BY <1>1 DEF Holds, Target, Scoped
<1>5. Distinct(rulings) /\ \A i \in DOMAIN rulings : Sound(rulings[i])
  BY <1>2, <1>3, <1>4, RulingsSound
<1>6. AddUpdates(rulings, bead)
  BY DEF EmitRulings
<1>7. Grows
  BY <1>6, AddedRows DEF EmitRulings, Grows, IInv, CountersOK
<1>8. UpdateInv' /\ RetriesWriteOnce'
  BY <1>5, <1>6, <1>7, AddedSound, AddedOnce DEF IInv
<1>9. RowsOK(file)'
  BY <1>7, RowsStay DEF EmitRulings, IInv
<1>10. PICK rs, bd, rw, copy : rs = rulings /\ bd = bead /\ rw = row /\ copy = rows
  OBVIOUS
<1>11. Written(rs, bd)'
  <2>1. AddUpdates(rs, bd)
    BY <1>6, <1>10
  <2> QED
    BY <2>1, AddedRows
<1>12. /\ rw \in Candidate
       /\ rw.applied = choice /\ rw.a = a /\ rw.b = b /\ rw.id = Target(w).id
  BY <1>2, <1>3, <1>10 DEF Candidate
<1>13. Backed(rw)'
  <2>1. \E n \in 0..forks' : rs = Rulings(rw.applied, rw.a, rw.b, n)
    <3>1. CASE choice = "both_valid"
      BY <1>4, <1>7, <1>10, <1>12, <3>1 DEF Grows
    <3>2. CASE choice # "both_valid"
      <4>1. rs = Rulings(rw.applied, rw.a, rw.b, 0)
        BY <1>2, <1>10, <1>12, <3>2, RulingsAre DEF Verdicts, Updating
      <4> QED
        BY <4>1, <1>7 DEF Grows
    <3> QED
      BY <3>1, <3>2
  <2>2. bd \in AuditBeads(rw.id)
    BY <1>2, <1>10, <1>12
  <2> QED
    BY <1>11, <2>1, <2>2 DEF Backed, Rulings, Ruling, Scoped, AuditBeads, BeadOf, Audit
<1>14. RowOK(rw)'
  <2>1. Pair(rw.a, rw.b)
    BY <1>3, <1>12
  <2> QED
    BY <1>7, <1>13, <2>1, PairStays DEF RowOK
<1>15. RowsOK(copy)'
  <2>1. copy = [worker[w].rows EXCEPT ![worker[w].pos] = rw]
    BY <1>2, <1>10 DEF Target, RowsOK
  <2>2. PICK old : old = worker[w].rows
    OBVIOUS
  <2>3. RowsOK(old)'
    BY <1>2, <1>7, <2>2, RowsStay
  <2>4. copy = [old EXCEPT ![worker[w].pos] = rw] /\ worker[w].pos \in DOMAIN old
    BY <1>2, <2>1, <2>2
  <2> QED
    BY <1>12, <1>14, <2>3, <2>4 DEF RowsOK, Candidate
<1>16. worker'[w] = [at |-> "write", rows |-> copy]
  BY <1>10 DEF EmitRulings, IInv, WorkerInv
<1>17. Holds(worker[w])'
  <2>1. RowsOK(worker[w].rows)'
    BY <1>15, <1>16
  <2> QED
    BY <1>16, <2>1 DEF Holds, Writing, RowsOK, Idle
<1>18. DOMAIN worker' = Workers /\ \A v \in Workers \ {w} : worker'[v] = worker[v]
  BY DEF EmitRulings, IInv, WorkerInv
<1>19. WorkerInv'
  BY <1>7, <1>17, <1>18, WorkersStay DEF IInv
<1> QED
  BY <1>8, <1>9, <1>19 DEF EmitRulings, IInv, CountersOK, ClaimInv

LEMMA OpenFileInv ==
    ASSUME IInv, NEW w \in Workers, OpenFile(w)
    PROVE  IInv'
<1>1. Grows
  BY DEF OpenFile, Grows, IInv, CountersOK
<1>2. RowsOK(file)'
  BY DEF OpenFile, RowsOK
<1>3. PICK copy : copy = worker[w].rows
  OBVIOUS
<1>4. RowsOK(copy)
  BY <1>3 DEF OpenFile, IInv, WorkerInv, Holds
<1>5. worker'[w] = [at |-> "close", rows |-> copy, mixed |-> FALSE]
  BY <1>3 DEF OpenFile, IInv, WorkerInv
<1>6. RowsOK(worker[w].rows)'
  BY <1>1, <1>4, <1>5, RowsStay
<1>7. Holds(worker[w])'
  BY <1>5, <1>6 DEF Holds, Closing, RowsOK, Idle
<1> QED
  BY <1>2, <1>7, QuietStep DEF OpenFile, IInv, WorkerInv, CountersOK

LEMMA CloseFileInv ==
    ASSUME IInv, NEW w \in Workers, CloseFile(w)
    PROVE  IInv'
<1>1. Grows
  BY DEF CloseFile, Grows, IInv, CountersOK
<1>2. RowsOK(file)'
  <2>1. PICK copy : copy = worker[w].rows
    OBVIOUS
  <2>2. RowsOK(copy)'
    BY <1>1, <2>1, RowsStay DEF CloseFile, IInv, WorkerInv, Holds
  <2>3. file' = copy \/ file' = <<>>
    BY <2>1 DEF CloseFile
  <2>4. CASE file' = copy
    BY <2>2, <2>4 DEF RowsOK
  <2>5. CASE file' = <<>>
    BY <2>5 DEF RowsOK
  <2> QED
    BY <2>3, <2>4, <2>5
<1>3. WorkerInv'
  <2>1. SUFFICES ASSUME NEW v \in Workers
                 PROVE  Holds(worker[v])'
    BY DEF WorkerInv, CloseFile
  <2>2. PICK x : x = worker[v]
    OBVIOUS
  <2>3. Holds(x) /\ Holds(x)'
    BY <1>1, <2>2, HoldsStays DEF IInv, WorkerInv
  <2>4. CASE worker'[v] = Idle
    BY <1>1, <2>4, IdleHolds, HoldsStays
  <2>5. CASE worker'[v] = x
    BY <2>3, <2>5
  <2>6. CASE x.at = "close" /\ worker'[v] = [x EXCEPT !.mixed = TRUE]
    <3>1. x \in Closing
      BY <2>3, <2>6, AtTells DEF Holds
    <3>2. /\ worker'[v] \in Closing /\ worker'[v].at = "close"
          /\ worker'[v].rows = x.rows
      BY <2>6, <3>1 DEF Closing
    <3>3. RowsOK(worker[v].rows)'
      BY <2>3, <2>6, <3>2 DEF Holds
    <3> QED
      BY <3>2, <3>3 DEF Holds, Closing, Candidate, Verdicts, Updating
  <2> QED
    BY <2>2, <2>4, <2>5, <2>6 DEF CloseFile
<1>4. ClaimInv' /\ UpdateInv' /\ RetriesWriteOnce' /\ CountersOK'
  BY DEF CloseFile, IInv, ClaimInv, UpdateInv, RetriesWriteOnce, CountersOK, Key, Stored,
         SameValue
<1> QED
  BY <1>2, <1>3, <1>4 DEF IInv

LEMMA KillInv ==
    ASSUME IInv, NEW w \in Workers, Kill(w)
    PROVE  IInv'
<1>1. Grows
  BY DEF Kill, Grows, IInv, CountersOK
<1>2. RowsOK(file)'
  BY <1>1, RowsStay DEF Kill, IInv
<1>3. worker'[w] = Idle
  BY DEF Kill, IInv, WorkerInv
<1>4. Holds(worker[w])'
  BY <1>1, <1>3, IdleHolds, HoldsStays
<1> QED
  BY <1>2, <1>4, QuietStep DEF Kill, IInv, WorkerInv, CountersOK

LEMMA NextInv == IInv /\ [Next]_vars => IInv'
<1> SUFFICES ASSUME IInv, [Next]_vars
             PROVE  IInv'
  OBVIOUS
<1>1. CASE TurnStep
  BY <1>1, AuthorClaimInv, EmitAuthoredInv DEF TurnStep
<1>2. ASSUME NEW w \in Workers, Scan(w)
      PROVE  IInv'
  BY <1>2, ScanConflictInv, ScanFileInv DEF Scan
<1>3. ASSUME NEW w \in Workers, Settle(w)
      PROVE  IInv'
  BY <1>3, ReviewInv, RecordAuditInv, WriteScopedInv, EmitRulingsInv DEF Settle
<1>4. ASSUME NEW w \in Workers, WriteFile(w) \/ Kill(w)
      PROVE  IInv'
  BY <1>4, OpenFileInv, CloseFileInv, KillInv DEF WriteFile
<1>5. CASE UNCHANGED vars
  <2>1. Grows
    BY <1>5 DEF vars, Grows, IInv, CountersOK
  <2>2. RowsOK(file)' /\ WorkerInv'
    BY <1>5, <2>1, RowsStay, HoldsStays DEF vars, IInv, WorkerInv
  <2> QED
    BY <1>5, <2>2 DEF vars, IInv, ClaimInv, UpdateInv, RetriesWriteOnce, CountersOK, Key,
                      Stored, SameValue
<1> QED
  BY <1>1, <1>2, <1>3, <1>4, <1>5 DEF Next

LEMMA BatchOfTurn ==
    ASSUME NEW t, NEW rulings \in Authored(t)
    PROVE  Batch(rulings)
BY DEF Authored, Ruling, Batch

LEMMA BatchOfReview ==
    ASSUME NEW choice \in Verdicts, NEW a, NEW b, NEW n
    PROVE  Batch(Rulings(choice, a, b, n))
<1>1. CASE choice = "prefer_a"
  BY <1>1, RulingsAre DEF Batch, Ruling
<1>2. CASE choice = "prefer_b"
  BY <1>2, RulingsAre DEF Batch, Ruling
<1>3. CASE choice = "retract_both"
  BY <1>3, RulingsAre DEF Batch, Ruling
<1>4. CASE choice = "both_valid"
  BY <1>4, RulingsAre DEF Batch, Ruling
<1> QED
  BY <1>1, <1>2, <1>3, <1>4 DEF Verdicts, Updating

LEMMA NextOrdered == IInv /\ Ordered /\ [Next]_vars => Ordered'
<1> SUFFICES ASSUME IInv, Ordered, [Next]_vars
             PROVE  Ordered'
  OBVIOUS
<1>1. ASSUME NEW t \in Turns, EmitAuthored(t)
      PROVE  Ordered'
  <2>1. PICK rulings \in Authored(t) : AddUpdates(rulings, t)
    BY <1>1 DEF EmitAuthored
  <2> QED
    BY <2>1, BatchOfTurn, AddedOrdered
<1>2. ASSUME NEW w \in Workers, EmitRulings(w)
      PROVE  Ordered'
  <2> DEFINE rulings == Rulings(worker[w].choice, Target(w).a, Target(w).b, worker[w].fork)
  <2>1. worker[w].choice \in Verdicts
    BY <1>2 DEF EmitRulings, IInv, WorkerInv, Holds
  <2>2. Batch(rulings)
    BY <2>1, BatchOfReview
  <2>3. AddUpdates(rulings, worker[w].bead)
    BY <1>2 DEF EmitRulings
  <2> QED
    BY <2>2, <2>3, AddedOrdered
<1>3. CASE UNCHANGED <<updates, last>>
  BY <1>3 DEF Ordered, Closes
<1> QED
  BY <1>1, <1>2, <1>3
  DEF Next, TurnStep, AuthorClaim, Scan, ScanConflict, ScanFile, Settle, Review,
      RecordAudit, WriteScoped, WriteFile, OpenFile, CloseFile, Kill, vars

LEMMA Invariance == Spec => []IInv
BY InitInv, NextInv, PTL DEF Spec

LEMMA OrderedDecides == IInv /\ Ordered => LastRulingDecides
<1> SUFFICES ASSUME IInv, Ordered
             PROVE  LastRulingDecides
  OBVIOUS
<1>1. ASSUME last = "closing"
      PROVE  Status # "conflict"
  <2>1. PICK r \in updates :
          Closes(r) /\ \A u \in updates : u.decision = "conflict" => u.seq < r.seq
    BY <1>1 DEF Ordered
  <2>2. CASE \E u \in updates : u.decision = "conflict"
    <3>1. Cleared
      BY <2>1, <2>2 DEF Cleared, Before
    <3> QED
      BY <3>1 DEF Status, Conflicts
  <2>3. CASE ~ \E u \in updates : u.decision = "conflict"
    <3>1. Conflicts = {}
      BY <2>3 DEF Conflicts, Marked
    <3> QED
      BY <3>1 DEF Status
  <2> QED
    BY <2>2, <2>3
<1>2. ASSUME last = "conflict"
      PROVE  Status = "conflict"
  <2>1. PICK u \in updates :
          u.decision = "conflict" /\ \A r \in updates : Closes(r) => r.seq < u.seq
    BY <1>2 DEF Ordered
  <2>2. ~Cleared
    <3> SUFFICES ASSUME NEW r \in updates, Closes(r), Before(u, r)
                 PROVE  FALSE
      BY <2>1 DEF Cleared
    <3>1. r.seq < u.seq /\ r.seq \in Nat /\ u.seq \in Nat
      BY <2>1 DEF Ordered
    <3> QED
      BY <3>1 DEF Before
  <2>3. PICK c \in claims : c.id = u.target
    BY <2>1 DEF IInv, UpdateInv, Stored
  <2>4. c \in Conflicts
    BY <2>1, <2>2, <2>3 DEF Conflicts, Marked
  <2> QED
    BY <2>4 DEF Status
<1> QED
  BY <1>1, <1>2 DEF LastRulingDecides

-----------------------------------------------------------------------------
(* What a new ruling decides                                                *)

LEMMA OneAdded ==
    ASSUME NEW ruling, NEW bead, AddUpdates(<<ruling>>, bead), Fresh(ruling, bead)
    PROVE  updates' = updates \cup {Appended(ruling, bead, Highwater + 1)}
<1> DEFINE rulings == <<ruling>>
           new == {i \in DOMAIN rulings : Fresh(rulings[i], bead)}
           Nth(i) == Cardinality({j \in new : j <= i})
<1>1. updates' = updates \cup {Appended(rulings[i], bead, Highwater + Nth(i)) : i \in new}
  BY DEF AddUpdates
<1>2. new = {1}
  OBVIOUS
<1>3. {j \in new : j <= 1} = {1}
  BY <1>2
<1>4. Nth(1) = 1
  BY <1>3, FS_Singleton
<1> HIDE DEF new, Nth
<1> QED BY <1>1, <1>2, <1>4

\* A supersession numbered above every ruling makes the claim it names the current
\* one, if that was not retired.
LEMMA NamedIsCurrent ==
    ASSUME Ordered, NEW a \in Stored, a # None, ~Retired(a), NEW r,
           claims' = claims, updates' = updates \cup {r},
           r.decision = "supersede", r.target # a, r.replacement = a,
           r.seq \in Nat, \A u \in updates : u.seq < r.seq
    PROVE  {c.id : c \in Current'} = {a}
<1> DEFINE Naming == {u \in updates' : u.decision = "supersede" /\ u.replacement # None}
<1>1. r \in Naming
  OBVIOUS
<1>2. \A u \in Naming : u # r => u.seq \in Nat /\ u.seq < r.seq
  BY DEF Ordered
<1>3. {v \in Naming : \A w \in Naming : ~Before(v, w)} = {r}
  BY <1>1, <1>2 DEF Before
<1>4. LatestReplacement' = {u.replacement : u \in {v \in Naming : \A w \in Naming : ~Before(v, w)}}
  BY DEF LatestReplacement, Before
<1>5. LatestReplacement' = {a}
  BY <1>3, <1>4
<1>6. ~Retired(a)'
  BY DEF Retired, Closes
<1>7. PICK c \in claims' : c.id = a
  BY DEF Stored
<1>8. c \in Active'
  BY <1>6, <1>7 DEF Active
<1>9. Current' = {d \in Active' : d.id \in LatestReplacement'}
  BY <1>5, <1>7, <1>8 DEF Current
<1> QED BY <1>5, <1>7, <1>8, <1>9

LEMMA FreshDecides ==
    ASSUME IInv, Ordered, LastRulingDecides', NEW w \in Workers, EmitRulings(w),
           NEW i \in DOMAIN Rulings(worker[w].choice, Target(w).a, Target(w).b, worker[w].fork),
           Fresh(Rulings(worker[w].choice, Target(w).a, Target(w).b, worker[w].fork)[i],
                 worker[w].bead)
    PROVE  /\ Status' # "conflict"
           /\ worker[w].choice = "prefer_a" /\ ~Retired(Target(w).a)
                => {c.id : c \in Current'} = {Target(w).a}
           /\ worker[w].choice = "prefer_b" /\ ~Retired(Target(w).b)
                => {c.id : c \in Current'} = {Target(w).b}
<1> DEFINE choice == worker[w].choice
           a == Target(w).a
           b == Target(w).b
           bead == worker[w].bead
           rulings == Rulings(choice, a, b, worker[w].fork)
<1>1. choice \in Verdicts /\ Pair(a, b)
  <2>1. Holds(worker[w]) /\ worker[w].at = "emit"
    BY DEF EmitRulings, IInv, WorkerInv
  <2> QED BY <2>1, RowAt DEF Holds, RowOK, Target
<1>2. AddUpdates(rulings, bead) /\ claims' = claims
  BY DEF EmitRulings
<1>3. a \in Stored /\ b \in Stored /\ a # b /\ a # None /\ b # None
  BY <1>1, ReviewNames DEF Pair
<1>4. \A j \in DOMAIN rulings : Closes(rulings[j]) /\ rulings[j].decision # "reaffirm"
  <2>1. CASE choice = "prefer_a"
    BY <2>1, RulingsAre DEF Closes, Ruling
  <2>2. CASE choice = "prefer_b"
    BY <2>2, RulingsAre DEF Closes, Ruling
  <2>3. CASE choice = "retract_both"
    BY <2>3, RulingsAre DEF Closes, Ruling
  <2>4. CASE choice = "both_valid"
    BY <2>4, RulingsAre DEF Closes, Ruling
  <2> QED BY <1>1, <2>1, <2>2, <2>3, <2>4 DEF Verdicts, Updating
<1>5. Highwater \in Nat /\ \A u \in updates : u.seq \in Nat /\ u.seq < Highwater + 1
  BY HighwaterTops DEF Ordered
<1>6. ASSUME NEW keep, NEW drop, keep \in Stored, keep # drop, keep # None, ~Retired(keep),
             rulings = <<Ruling("supersede", drop, keep)>>
      PROVE  {c.id : c \in Current'} = {keep}
  <2> DEFINE ruling == Ruling("supersede", drop, keep)
             r == Appended(ruling, bead, Highwater + 1)
  <2>1. Fresh(ruling, bead)
    BY <1>6
  <2>2. updates' = updates \cup {r}
    BY <1>2, <1>6, <2>1, OneAdded
  <2>3. r.decision = "supersede" /\ r.target = drop /\ r.replacement = keep
        /\ r.seq = Highwater + 1
    BY DEF Appended, Ruling
  <2> HIDE DEF r
  <2> QED BY <1>2, <1>5, <1>6, <2>2, <2>3, NamedIsCurrent
<1>7. Status' # "conflict"
  <2> HIDE DEF rulings
  <2>1. last' = "closing"
    BY <1>2, <1>4 DEF AddUpdates, rulings
  <2> QED BY <2>1 DEF LastRulingDecides
<1>8. choice = "prefer_a" /\ ~Retired(a) => {c.id : c \in Current'} = {a}
  <2>1. choice = "prefer_a" => rulings = <<Ruling("supersede", b, a)>>
    BY RulingsAre
  <2> HIDE DEF rulings, a, b, choice
  <2> QED BY <1>3, <1>6, <2>1
<1>9. choice = "prefer_b" /\ ~Retired(b) => {c.id : c \in Current'} = {b}
  <2>1. choice = "prefer_b" => rulings = <<Ruling("supersede", a, b)>>
    BY RulingsAre
  <2> HIDE DEF rulings, a, b, choice
  <2> QED BY <1>3, <1>6, <2>1
<1> QED BY <1>7, <1>8, <1>9

-----------------------------------------------------------------------------
(* The types                                                                *)

\* Every copy of the candidates holds numbered ones only.
Numbered(rows) == \A i \in DOMAIN rows : rows[i].id \in 1..MaxRows
Copying == {"audit", "fork", "emit", "write", "close"}
CopiesNumbered ==
    /\ Numbered(file)
    /\ \A w \in Workers : worker[w].at \in Copying => Numbered(worker[w].rows)

LEMMA RowsTyped ==
    ASSUME NEW rows \in Seq(Candidate), Numbered(rows)
    PROVE  rows \in Seq(Row)
<1>1. \A i \in DOMAIN rows : rows[i] \in Row
  <2> TAKE i \in DOMAIN rows
  <2>1. rows[i] \in Candidate /\ rows[i].id \in 1..MaxRows
    BY DEF Numbered
  <2> QED BY <2>1 DEF Candidate, Row, ClaimIds, Verdicts
<1> QED BY <1>1

\* An audited candidate that is numbered has its beads among the typed ones.
LEMMA AuditTyped ==
    ASSUME NEW w \in Workers, IInv, CopiesNumbered, worker[w].at \in {"audit", "fork", "emit"}
    PROVE  /\ Target(w).id \in 1..MaxRows
           /\ Target(w).a \in Stored /\ Target(w).b \in Stored
           /\ TurnOf(w) \in AuditTurns
           /\ worker[w].at \in {"fork", "emit"} => worker[w].bead \in Beads
<1>1. Holds(worker[w]) /\ Numbered(worker[w].rows)
  BY DEF IInv, WorkerInv, CopiesNumbered, Copying
<1>2. worker[w].pos \in DOMAIN worker[w].rows /\ RowsOK(worker[w].rows)
  BY <1>1 DEF Holds
<1>3. Target(w).id \in 1..MaxRows
  BY <1>1, <1>2 DEF Numbered, Target
<1>4. Pair(Target(w).a, Target(w).b)
  BY <1>2, RowAt DEF RowOK, Target
<1>5. TurnOf(w) \in AuditTurns
  BY <1>3 DEF TurnOf, Audit, Path, AuditTurns
<1>6. worker[w].at \in {"fork", "emit"} => worker[w].bead \in AuditBeads(Target(w).id)
  BY <1>1 DEF Holds, Target
<1>7. AuditBeads(Target(w).id) \subseteq Beads
  BY <1>3 DEF AuditBeads, BeadOf, Audit, AuditTurns, Beads
<1> QED BY <1>3, <1>4, <1>5, <1>6, <1>7 DEF Pair

LEMMA StoredTyped == claims \subseteq Claim => Stored \subseteq ClaimIds
BY DEF Stored, Claim

LEMMA AddedTyped ==
    ASSUME TypeOK, Ordered', NEW rulings, NEW bead \in Beads, Batch(rulings),
           \A i \in DOMAIN rulings : Sound(rulings[i]),
           AddUpdates(rulings, bead)
    PROVE  updates' \subseteq Update /\ last' \in {"none", "conflict", "closing"}
<1>1. last' \in {"none", "conflict", "closing"}
  BY DEF AddUpdates, TypeOK
<1>2. ASSUME NEW u \in updates' PROVE u \in Update
  <2> DEFINE new == {i \in DOMAIN rulings : Fresh(rulings[i], bead)}
             Nth(i) == Cardinality({j \in new : j <= i})
  <2>1. updates' = updates \cup {Appended(rulings[i], bead, Highwater + Nth(i)) : i \in new}
    BY DEF AddUpdates
  <2>2. CASE u \in updates
    BY <2>2 DEF TypeOK
  <2>3. CASE u \notin updates
    <3> HIDE DEF Nth
    <3>1. PICK i \in DOMAIN rulings : u = Appended(rulings[i], bead, Highwater + Nth(i))
      BY <2>1, <2>3
    <3>2. u.seq \in Nat
      BY DEF Ordered
    <3>3. u.seq = Highwater + Nth(i)
      BY <3>1 DEF Appended
    <3>4. rulings[i].target \in ClaimIds /\ rulings[i].replacement \in ClaimIds \cup {None}
      <4>1. Stored \subseteq ClaimIds
        BY StoredTyped DEF TypeOK
      <4> QED BY <4>1 DEF Sound, SameValue, Stored, ClaimIds
    <3>5. rulings[i].decision \in {"reaffirm", "supersede", "retract", "conflict"}
      BY DEF Batch
    <3> QED BY <3>1, <3>2, <3>3, <3>4, <3>5 DEF Appended, Update
  <2> QED BY <2>2, <2>3
<1> QED BY <1>1, <1>2

\* Numbers are given by ScanFile alone, and kept by all that work on a copy.
LEMMA NextNumbered ==
    ASSUME IInv, TypeOK, CopiesNumbered, [Next]_vars
    PROVE  CopiesNumbered'
<1>1. ASSUME NEW w \in Workers, NEW x,
             worker' = [worker EXCEPT ![w] = x], file' = file,
             x.at \in Copying => Numbered(x.rows)
      PROVE  CopiesNumbered'
  <2>1. worker'[w] = x /\ \A v \in Workers \ {w} : worker'[v] = worker[v]
    BY <1>1 DEF IInv, WorkerInv
  <2> QED BY <1>1, <2>1 DEF CopiesNumbered, Numbered
<1>2. \A w \in Workers :
        worker[w].at \in Copying => Numbered(worker[w].rows) /\ worker[w].rows \in Seq(Candidate)
  BY DEF CopiesNumbered, IInv, WorkerInv, Holds, RowsOK, Copying
<1>3. Numbered(file) /\ file \in Seq(Candidate)
  BY DEF CopiesNumbered, IInv, RowsOK
<1>4. Idle.at \notin Copying
  BY DEF Idle, Copying
<1>5. ASSUME NEW w \in Workers, ScanConflict(w) PROVE CopiesNumbered'
  <2>1. PICK pair \in Contested : worker' = [worker EXCEPT ![w] =
             [at |-> "scan", a |-> pair[1].id, b |-> pair[2].id]]
    BY <1>5 DEF ScanConflict
  <2>2. file' = file
    BY <1>5 DEF ScanConflict
  <2> QED BY <1>1, <2>1, <2>2 DEF Copying
<1>6. ASSUME NEW w \in Workers, ScanFile(w) PROVE CopiesNumbered'
  <2> DEFINE new == [id |-> raised + 1, a |-> worker[w].a, b |-> worker[w].b,
                     status |-> "pending", review |-> "none", applied |-> "none"]
  <2>1. file' = file
    BY <1>6 DEF ScanFile
  <2>2. CASE worker' = [worker EXCEPT ![w] = Idle]
    BY <1>1, <1>4, <2>1, <2>2
  <2>3. CASE /\ raised < MaxRows
             /\ worker' = [worker EXCEPT ![w] = [at |-> "write", rows |-> Append(file, new)]]
    <3>1. new.id \in 1..MaxRows
      BY <2>3, ReviewBounds DEF TypeOK
    <3> HIDE DEF new
    <3>2. Numbered(Append(file, new))
      BY <1>3, <3>1 DEF Numbered
    <3> QED BY <1>1, <2>1, <2>3, <3>2
  <2> QED BY <1>6, <2>2, <2>3 DEF ScanFile
<1>7. ASSUME NEW w \in Workers, Review(w) PROVE CopiesNumbered'
  <2>1. PICK i \in DOMAIN file, choice \in Answers :
          worker' = [worker EXCEPT ![w] =
           [at |-> IF choice \in Updating \cup {"both_valid"} THEN "audit" ELSE "write",
            rows |-> [file EXCEPT ![i] = Decided(@, choice)],
            pos |-> i, choice |-> choice]]
    BY <1>7 DEF Review
  <2>2. Decided(file[i], choice).id = file[i].id
    <3>1. file[i] \in Candidate
      BY <1>3
    <3>2. CASE choice = "defer"
      BY <3>1, <3>2 DEF Decided, Candidate
    <3>3. CASE choice = "reject"
      BY <3>1, <3>3 DEF Decided, Candidate
    <3>4. CASE choice = "no_scopes"
      BY <3>1, <3>4 DEF Decided, Candidate
    <3>5. CASE choice \notin {"defer", "reject", "no_scopes"}
      BY <3>1, <3>5 DEF Decided, Candidate
    <3> QED BY <3>2, <3>3, <3>4, <3>5
  <2>3. Numbered([file EXCEPT ![i] = Decided(@, choice)])
    BY <1>3, <2>2 DEF Numbered
  <2>4. file' = file
    BY <1>7 DEF Review
  <2> DEFINE x == [at |-> IF choice \in Updating \cup {"both_valid"} THEN "audit" ELSE "write",
                   rows |-> [file EXCEPT ![i] = Decided(@, choice)],
                   pos |-> i, choice |-> choice]
  <2>5. x.rows = [file EXCEPT ![i] = Decided(@, choice)] /\ worker' = [worker EXCEPT ![w] = x]
    BY <2>1
  <2> HIDE DEF x
  <2> QED BY <1>1, <2>3, <2>4, <2>5
<1>8. ASSUME NEW w \in Workers, RecordAudit(w) PROVE CopiesNumbered'
  <2>1. PICK made \in BOOLEAN :
          worker' = [worker EXCEPT ![w] =
            [at |-> IF @.choice = "both_valid" THEN "fork" ELSE "emit",
             rows |-> @.rows, pos |-> @.pos, choice |-> @.choice,
             bead |-> BeadOf(TurnOf(w), made \/ TurnOf(w) \in audited), fork |-> 0]]
    BY <1>8 DEF RecordAudit
  <2>2. Numbered(worker[w].rows) /\ file' = file
    BY <1>2, <1>8 DEF RecordAudit, Copying
  <2> QED BY <1>1, <2>1, <2>2
<1>9. ASSUME NEW w \in Workers, WriteScoped(w) PROVE CopiesNumbered'
  <2>1. worker' = [worker EXCEPT ![w] = [worker[w] EXCEPT !.at = "emit", !.fork = forks + 1]]
    BY <1>9 DEF WriteScoped, IInv, WorkerInv
  <2>2. /\ Numbered(worker[w].rows) /\ file' = file
        /\ worker[w] \in Emitting
    BY <1>2, <1>9, AtTells DEF WriteScoped, Copying, IInv, WorkerInv, Holds
  <2>3. [worker[w] EXCEPT !.at = "emit", !.fork = forks + 1].rows = worker[w].rows
    BY <2>2 DEF Emitting
  <2> QED BY <1>1, <2>1, <2>2, <2>3
<1>10. ASSUME NEW w \in Workers, EmitRulings(w) PROVE CopiesNumbered'
  <2> DEFINE rows == [worker[w].rows EXCEPT ![worker[w].pos].review = "resolved",
                                            ![worker[w].pos].applied = worker[w].choice]
  <2>1. worker' = [worker EXCEPT ![w] = [at |-> "write", rows |-> rows]]
    BY <1>10 DEF EmitRulings, IInv, WorkerInv
  <2>2. Numbered(worker[w].rows) /\ worker[w].rows \in Seq(Candidate) /\ file' = file
    BY <1>2, <1>10 DEF EmitRulings, Copying
  <2>3. Numbered(rows)
    BY <2>2 DEF Numbered, Candidate
  <2> QED BY <1>1, <2>1, <2>2, <2>3
<1>11. ASSUME NEW w \in Workers, OpenFile(w) PROVE CopiesNumbered'
  <2>1. worker' = [worker EXCEPT ![w] =
             [at |-> "close", rows |-> worker[w].rows, mixed |-> FALSE]]
    BY <1>11 DEF OpenFile
  <2>2. Numbered(worker[w].rows) /\ Numbered(file')
    BY <1>2, <1>11 DEF OpenFile, Copying, Numbered
  <2>3. worker'[w].rows = worker[w].rows /\ \A v \in Workers \ {w} : worker'[v] = worker[v]
    BY <2>1 DEF IInv, WorkerInv
  <2> QED BY <2>2, <2>3 DEF CopiesNumbered, Numbered
<1>12. ASSUME NEW w \in Workers, CloseFile(w) PROVE CopiesNumbered'
  <2>1. Numbered(file)'
    <3>1. Numbered(worker[w].rows)
      BY <1>2, <1>12 DEF CloseFile, Copying
    <3> QED BY <1>12, <3>1 DEF CloseFile, Numbered
  <2>2. ASSUME NEW v \in Workers, worker'[v].at \in Copying
        PROVE  Numbered(worker[v].rows)'
    <3>1. CASE worker'[v] = Idle
      BY <1>4, <2>2, <3>1
    <3>2. CASE worker'[v] = worker[v]
      BY <1>2, <2>2, <3>2 DEF Numbered
    <3>3. CASE worker[v].at = "close" /\ worker'[v] = [worker[v] EXCEPT !.mixed = TRUE]
      <4>1. worker[v] \in Closing
        BY <3>3, AtTells DEF IInv, WorkerInv, Holds
      <4>2. worker'[v].rows = worker[v].rows
        BY <3>3, <4>1 DEF Closing
      <4> QED BY <1>2, <3>3, <4>2 DEF Numbered, Copying
    <3> QED BY <1>12, <3>1, <3>2, <3>3 DEF CloseFile
  <2> QED BY <2>1, <2>2 DEF CopiesNumbered
<1>13. ASSUME NEW w \in Workers, Kill(w) PROVE CopiesNumbered'
  BY <1>1, <1>4, <1>13 DEF Kill
<1>14. ASSUME UNCHANGED <<file, worker>> PROVE CopiesNumbered'
  BY <1>14 DEF CopiesNumbered, Numbered
<1> QED
  BY <1>5, <1>6, <1>7, <1>8, <1>9, <1>10, <1>11, <1>12, <1>13, <1>14
  DEF Next, TurnStep, AuthorClaim, EmitAuthored, Scan, Settle, WriteFile, vars

LEMMA NextTyped ==
    ASSUME IInv, IInv', Ordered', TypeOK, CopiesNumbered, CopiesNumbered', [Next]_vars
    PROVE  TypeOK'
<1>b. MaxRows \in Nat /\ MaxForks \in Nat /\ MaxReviews \in Nat /\ MaxKills \in Nat
  BY ReviewBounds
<1>f. file' \in Seq(Row)
  <2>1. file' \in Seq(Candidate) /\ Numbered(file')
    BY DEF IInv, RowsOK, CopiesNumbered, Numbered
  <2> QED BY <2>1, RowsTyped
<1>1. ASSUME NEW t \in Turns, AuthorClaim(t) PROVE TypeOK'
  <2>1. [id |-> t, bead |-> t, scope |-> "global", value |-> t] \in Claim
    BY DEF Claim, ClaimIds, Beads
  <2> QED BY <1>1, <2>1 DEF AuthorClaim, TypeOK
<1>2. ASSUME NEW t \in Turns, EmitAuthored(t) PROVE TypeOK'
  <2>1. PICK rulings \in Authored(t) : AddUpdates(rulings, t)
    BY <1>2 DEF EmitAuthored
  <2>2. \A i \in DOMAIN rulings : Sound(rulings[i])
    BY <1>2, <2>1 DEF EmitAuthored, Authored, Ruling, Sound
  <2>3. t \in Beads
    BY DEF Beads
  <2>4. updates' \subseteq Update /\ last' \in {"none", "conflict", "closing"}
    BY <2>1, <2>2, <2>3, BatchOfTurn, AddedTyped
  <2> QED BY <1>2, <2>4 DEF EmitAuthored, TypeOK
<1>3. ASSUME NEW w \in Workers, ScanConflict(w) PROVE TypeOK'
  BY <1>3 DEF ScanConflict, TypeOK
<1>4. ASSUME NEW w \in Workers, ScanFile(w) PROVE TypeOK'
  <2>1. raised' \in 0..MaxRows
    BY <1>4, <1>b DEF ScanFile, TypeOK
  <2> QED BY <1>4, <2>1 DEF ScanFile, TypeOK
<1>5. ASSUME NEW w \in Workers, Review(w) PROVE TypeOK'
  <2>1. reviews' \in 0..MaxReviews
    BY <1>5, <1>b DEF Review, TypeOK
  <2> QED BY <1>5, <2>1 DEF Review, TypeOK
<1>6. ASSUME NEW w \in Workers, RecordAudit(w) PROVE TypeOK'
  <2>1. TurnOf(w) \in AuditTurns
    BY <1>6, AuditTyped DEF RecordAudit
  <2>2. audited' \subseteq AuditTurns
    BY <1>6, <2>1 DEF RecordAudit, TypeOK
  <2> QED BY <1>6, <2>2 DEF RecordAudit, TypeOK
<1>7. ASSUME NEW w \in Workers, WriteScoped(w) PROVE TypeOK'
  <2>1. /\ Target(w).a \in Stored /\ Target(w).b \in Stored
        /\ worker[w].bead \in Beads
    BY <1>7, AuditTyped DEF WriteScoped
  <2>2. ValueOf(Target(w).a) \in Turns /\ ValueOf(Target(w).b) \in Turns
    <3>1. \A id \in Stored : ValueOf(id) \in Turns
      <4> TAKE id \in Stored
      <4>1. PICK c \in claims : c.id = id
        BY DEF Stored
      <4>2. ValueOf(id) = c.value
        BY <4>1, TheValue DEF IInv
      <4> QED BY <4>2 DEF TypeOK, Claim
    <3> QED BY <2>1, <3>1
  <2>3. forks + 1 \in 1..MaxForks /\ forks' = forks + 1
    BY <1>7, <1>b DEF WriteScoped, TypeOK
  <2>4. \A side \in {"a", "b"} : Scoped(forks + 1, side) \in ClaimIds
    BY <2>3 DEF Scoped, ClaimIds
  <2>5. claims' \subseteq Claim
    BY <1>7, <2>1, <2>2, <2>4 DEF WriteScoped, TypeOK, Claim
  <2> QED BY <1>7, <1>b, <2>3, <2>5 DEF WriteScoped, TypeOK
<1>8. ASSUME NEW w \in Workers, EmitRulings(w) PROVE TypeOK'
  <2> DEFINE rulings == Rulings(worker[w].choice, Target(w).a, Target(w).b, worker[w].fork)
  <2>1. Holds(worker[w]) /\ worker[w].at = "emit"
    BY <1>8 DEF EmitRulings, IInv, WorkerInv
  <2>2. worker[w].choice \in Verdicts /\ Pair(Target(w).a, Target(w).b)
    BY <2>1, RowAt DEF Holds, RowOK, Target
  <2>3. worker[w].choice = "both_valid" =>
          /\ SameValue(Scoped(worker[w].fork, "a"), Target(w).a)
          /\ SameValue(Scoped(worker[w].fork, "b"), Target(w).b)
    BY <2>1 DEF Holds, Target, Scoped
  <2>4. Batch(rulings) /\ \A i \in DOMAIN rulings : Sound(rulings[i])
    BY <2>2, <2>3, RulingsSound, BatchOfReview
  <2>5. worker[w].bead \in Beads
    BY <2>1, AuditTyped
  <2>6. AddUpdates(rulings, worker[w].bead)
    BY <1>8 DEF EmitRulings
  <2> HIDE DEF rulings
  <2>7. updates' \subseteq Update /\ last' \in {"none", "conflict", "closing"}
    BY <2>4, <2>5, <2>6, AddedTyped
  <2> QED BY <1>8, <2>7 DEF EmitRulings, TypeOK
<1>9. ASSUME NEW w \in Workers, OpenFile(w) \/ CloseFile(w) PROVE TypeOK'
  BY <1>9, <1>f DEF OpenFile, CloseFile, TypeOK
<1>10. ASSUME NEW w \in Workers, Kill(w) PROVE TypeOK'
  <2>1. kills' \in 0..MaxKills
    BY <1>10, <1>b DEF Kill, TypeOK
  <2> QED BY <1>10, <2>1 DEF Kill, TypeOK
<1>11. ASSUME UNCHANGED vars PROVE TypeOK'
  BY <1>11 DEF vars, TypeOK
<1> QED
  BY <1>1, <1>2, <1>3, <1>4, <1>5, <1>6, <1>7, <1>8, <1>9, <1>10, <1>11
  DEF Next, TurnStep, Scan, Settle, WriteFile

-----------------------------------------------------------------------------
(* The theorems                                                             *)

\* Every claim, ruling, candidate and audit turn keeps its type, in the store and
\* in the file, whichever copy of the candidates is written last.
THEOREM TypeCorrect == Spec => []TypeOK
<1>1. Init => Ordered /\ TypeOK /\ CopiesNumbered
  BY ReviewBounds DEF Init, Ordered, TypeOK, CopiesNumbered, Numbered, Idle, Copying
<1>2. /\ IInv /\ IInv' /\ Ordered /\ TypeOK /\ CopiesNumbered /\ [Next]_vars
      => Ordered' /\ TypeOK' /\ CopiesNumbered'
  BY NextOrdered, NextNumbered, NextTyped
<1> QED
  BY <1>1, <1>2, Invariance, PTL DEF Spec

\* A candidate that says it was applied has its rulings in the store.
THEOREM AppliedBacked == Spec => []AppliedIsBacked
<1>1. IInv => AppliedIsBacked
  BY DEF IInv, RowsOK, RowOK, AppliedIsBacked
<1> QED
  BY <1>1, Invariance, PTL

\* What supersedes a claim in its scope is there, and has its value.
THEOREM ForksKept == Spec => []ForkKeepsValues
<1>1. IInv => ForkKeepsValues
  <2> SUFFICES ASSUME IInv, NEW u \in updates, u.replacement \notin Turns \cup {None}
               PROVE  \E c \in claims : c.id = u.replacement /\ c.value = ValueOf(u.target)
    BY DEF ForkKeepsValues
  <2>1. PICK c \in claims, d \in claims :
          c.id = u.replacement /\ d.id = u.target /\ c.value = d.value
    BY DEF IInv, UpdateInv, SameValue
  <2> QED
    BY <2>1, TheValue DEF IInv
<1> QED
  BY <1>1, Invariance, PTL

\* However often reviews are killed and begun again, no ruling is there twice.
THEOREM WrittenOnce == Spec => []RetriesWriteOnce
BY Invariance, PTL DEF IInv

\* What was retired is never current again.
THEOREM RetiredStays == Spec => RetiredStaysRetired
<1>1. IInv /\ [Next]_vars =>
        [\A c \in claims : Retired(c.id) => c \notin Current']_vars
  <2> SUFFICES ASSUME IInv, Next, NEW c \in claims, Retired(c.id)
               PROVE  c \notin Current'
    OBVIOUS
  <2>1. updates \subseteq updates'
    <3>1. CASE \E t \in Turns : EmitAuthored(t)
      BY <3>1, AddedRows DEF EmitAuthored
    <3>2. CASE \E w \in Workers : EmitRulings(w)
      BY <3>2, AddedRows DEF EmitRulings
    <3>3. CASE UNCHANGED updates
      BY <3>3
    <3> QED
      BY <3>1, <3>2, <3>3
      DEF Next, TurnStep, AuthorClaim, Scan, ScanConflict, ScanFile, Settle, Review,
          RecordAudit, WriteScoped, WriteFile, OpenFile, CloseFile, Kill
  <2>2. Retired(c.id)'
    BY <2>1 DEF Retired, Closes
  <2>3. c \notin Active'
    BY <2>2 DEF Active
  <2>4. Current' \subseteq Active'
    BY DEF Current, Last
  <2> QED
    BY <2>3, <2>4
<1> QED
  BY <1>1, Invariance, PTL DEF Spec, RetiredStaysRetired

\* The slot is in conflict as its last ruling says, in whichever bead it is and
\* wherever the bead's id sorts: it is numbered above all that came before.
THEOREM LastRuling == Spec => []LastRulingDecides
<1>1. Init => Ordered
  BY DEF Init, Ordered
<1>2. IInv /\ Ordered => LastRulingDecides
  BY OrderedDecides
<1> QED
  BY <1>1, <1>2, InitInv, NextInv, NextOrdered, PTL DEF Spec

\* A resolution that adds a ruling closes the conflict, and its preferred claim is
\* then the current one unless it was retired: whatever turns ruled meanwhile, and
\* wherever the beads' ids sort, the new ruling is numbered above all others.
THEOREM NewRulingDecides == Spec => FreshRulingsDecide
<1> DEFINE Decides(w) ==
      LET choice == worker[w].choice
          rulings == Rulings(choice, Target(w).a, Target(w).b, worker[w].fork)
          preferred == IF choice = "prefer_a" THEN Target(w).a ELSE Target(w).b
      IN  /\ worker[w].at = "emit" /\ worker'[w].at = "write"
          /\ \E i \in DOMAIN rulings : Fresh(rulings[i], worker[w].bead)
          => /\ Status' # "conflict"
             /\ choice \in {"prefer_a", "prefer_b"} /\ ~Retired(preferred)
                => {c.id : c \in Current'} = {preferred}
<1>1. IInv /\ Ordered /\ LastRulingDecides' /\ [Next]_vars => [\A w \in Workers : Decides(w)]_vars
  <2> SUFFICES ASSUME IInv, Ordered, LastRulingDecides', Next, NEW w \in Workers,
                      worker[w].at = "emit", worker'[w].at = "write"
               PROVE  Decides(w)
    OBVIOUS
  <2>1. EmitRulings(w)
    <3>1. worker' # worker /\ DOMAIN worker = Workers
      BY DEF IInv, WorkerInv
    <3>2. PICK v \in Workers : Scan(v) \/ Settle(v) \/ WriteFile(v) \/ Kill(v)
      BY <3>1 DEF Next, TurnStep, AuthorClaim, EmitAuthored
    <3>3. CASE CloseFile(v)
      BY <3>3 DEF CloseFile, Idle
    <3>4. CASE ~CloseFile(v)
      <4>1. v = w
        <5>1. \A u \in Workers \ {v} : worker'[u] = worker[u]
          BY <3>1, <3>2, <3>4
          DEF Scan, ScanConflict, ScanFile, Settle, Review, RecordAudit, WriteScoped,
              EmitRulings, WriteFile, OpenFile, Kill
        <5> QED BY <5>1
      <4>2. ~Kill(w) /\ ~Review(w) /\ ~ScanConflict(w)
        BY <3>1 DEF Kill, Review, ScanConflict, Idle
      <4> QED
        BY <3>2, <3>4, <4>1, <4>2
        DEF Scan, ScanFile, Settle, RecordAudit, WriteScoped, WriteFile, OpenFile
    <3> QED BY <3>3, <3>4
  <2> QED BY <2>1, FreshDecides
<1>2. Init => Ordered
  BY DEF Init, Ordered
<1> QED
  BY <1>1, <1>2, InitInv, NextInv, NextOrdered, OrderedDecides, PTL
  DEF Spec, FreshRulingsDecide
===============================================================================
