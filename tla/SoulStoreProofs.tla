---------------------------- MODULE SoulStoreProofs ----------------------------
(***************************************************************************)
(* What SoulStore guarantees for any entries, drafts, bridge runs and      *)
(* repairs, any length of the log and any number of kills.                 *)
(*                                                                         *)
(* The log only grows: what an entry was before row j (Current) stays what *)
(* it was.  PageInv: whoever holds the lock is writing the page of the     *)
(* whole log.  LinkInv: a row supersedes an earlier one, and one that      *)
(* supersedes an applied row removes its entry - so that row is current no *)
(* more, and nothing supersedes it again.  NoiseInv: what a repair has     *)
(* noted was written by a machine.  OnceInv: what a bridge run has still   *)
(* to propose, no run has proposed.                                        *)
(***************************************************************************)
EXTENDS SoulStore, TLAPS

PageInv ==
    /\ lock # Free => lock.page = Fold(revs)
    /\ PageIsCurrent

LinkInv ==
    \A j \in DOMAIN revs :
        /\ revs[j].sup < j
        /\ Repairs(j) => /\ revs[j].op = "remove" /\ revs[j].status = "applied"
                         /\ revs[j].key = revs[revs[j].sup].key

NoiseInv ==
    /\ RepairRemovesNoise
    /\ \A r \in Repairers : \A x \in repair[r] :
          x[2] \in DOMAIN revs /\ revs[x[2]].source \in Machine

IInv ==
    /\ TypeOK /\ PageInv /\ LinkInv /\ SettledOnce /\ AgentSparesProtected /\ NoiseInv

Proposed(k) == \E i \in DOMAIN revs : revs[i].found /\ revs[i].sup = 0 /\ revs[i].key = k

OnceInv ==
    /\ ProposedOnce
    /\ \A b \in Bridges : \A k \in bridge[b] : ~Proposed(k)

-----------------------------------------------------------------------------
(* The log grows                                                            *)

LEMMA Grows ==
    ASSUME NEW log \in Seq(Row), NEW row \in Row
    PROVE  /\ Append(log, row) \in Seq(Row)
           /\ Len(Append(log, row)) = Len(log) + 1
           /\ DOMAIN Append(log, row) = DOMAIN log \cup {Len(log) + 1}
           /\ \A i \in DOMAIN log : Append(log, row)[i] = log[i]
           /\ Append(log, row)[Len(log) + 1] = row
  OBVIOUS

\* What an entry was by the first n rows does not depend on later ones.
LEMMA PastStays ==
    ASSUME NEW log \in Seq(Row), NEW row \in Row, NEW k, NEW n \in 0..Len(log)
    PROVE  Current(Append(log, row), k, n) = Current(log, k, n)
<1>1. \A i \in 1..n : Append(log, row)[i] = log[i]
  BY Grows
<1>2. \A i \in 1..n : Applies(Append(log, row), k, i) <=> Applies(log, k, i)
  BY <1>1 DEF Applies
<1>3. \A i \in 1..n : \A j \in (i + 1)..n : j \in 1..n
  OBVIOUS
<1> QED BY <1>1, <1>2, <1>3 DEF Current

LEMMA FoldIsRows ==
    ASSUME NEW log \in Seq(Row), NEW k \in Keys
    PROVE  /\ Fold(log)[k] = Current(log, k, Len(log))
           /\ Fold(log)[k] \subseteq DOMAIN log
  BY DEF Fold, Current

\* A row that is not applied changes no entry.
LEMMA FoldStays ==
    ASSUME NEW log \in Seq(Row), NEW row \in Row, row.status # "applied"
    PROVE  Fold(Append(log, row)) = Fold(log)
<1> DEFINE n == Len(log)  new == Append(log, row)
<1>1. SUFFICES ASSUME NEW k \in Keys PROVE Current(new, k, n + 1) = Current(log, k, n)
  BY Grows DEF Fold
<1>2. ~Applies(new, k, n + 1)
  BY Grows DEF Applies
<1>3. Current(new, k, n + 1) = Current(new, k, n)
  <2>1. \A i \in 1..n : \A j \in (i + 1)..(n + 1) : j \in (i + 1)..n \/ j = n + 1
    BY Grows
  <2>2. \A i \in 1..n : (i + 1)..n \subseteq (i + 1)..(n + 1)
    BY Grows
  <2>3. \A i : i \in 1..(n + 1) <=> i \in 1..n \/ i = n + 1
    BY Grows
  <2> HIDE DEF n, new
  <2> QED BY <1>2, <2>1, <2>2, <2>3 DEF Current
<1> QED BY <1>3, PastStays

\* An entry is from one row.
LEMMA OneRow ==
    ASSUME NEW log \in Seq(Row), NEW k, NEW n \in Nat,
           NEW i \in Current(log, k, n), NEW j \in Current(log, k, n)
    PROVE  i = j
<1>1. i \in 1..n /\ j \in 1..n /\ Applies(log, k, i) /\ Applies(log, k, j)
  BY DEF Current
<1>2. ~(i < j)
  <2>1. i < j => j \in (i + 1)..n
    BY <1>1
  <2> QED BY <1>1, <2>1 DEF Current
<1>3. ~(j < i)
  <2>1. j < i => i \in (j + 1)..n
    BY <1>1
  <2> QED BY <1>1, <2>1 DEF Current
<1> QED BY <1>1, <1>2, <1>3

-----------------------------------------------------------------------------
(* What a row must be                                                       *)

\* Rows are submitted, or decide a proposal nobody has decided, or remove a
\* blank entry of a machine.
Admissible(row) ==
    /\ row \in Row
    /\ row.auto => ~row.endorsed /\ ~Protected(revs, Fold(revs)[row.key])
    /\ row.sup # 0 =>
          /\ row.sup \in DOMAIN revs
          /\ \/ Decidable(row.sup)
             \/ /\ row.op = "remove" /\ row.status = "applied"
                /\ row.sup \in Fold(revs)[row.key]
                /\ revs[row.sup].blank /\ revs[row.sup].source \in Machine

\* What changing fields of a row leaves alone.
LEMMA FoundRow ==
    ASSUME NEW r \in Row
    PROVE  /\ [r EXCEPT !.found = TRUE] \in Row
           /\ [r EXCEPT !.found = TRUE].key = r.key
           /\ [r EXCEPT !.found = TRUE].sup = r.sup
           /\ [r EXCEPT !.found = TRUE].auto = r.auto
  BY DEF Row

LEMMA RemovalRow ==
    ASSUME NEW r \in Row, NEW i \in 0..MaxRows
    PROVE  /\ [r EXCEPT !.sup = i] \in Row
           /\ [r EXCEPT !.sup = i].sup = i
           /\ [r EXCEPT !.sup = i].key = r.key
           /\ [r EXCEPT !.sup = i].op = r.op
           /\ [r EXCEPT !.sup = i].status = r.status
           /\ [r EXCEPT !.sup = i].auto = r.auto
  BY DEF Row

LEMMA ProposeAdmissible ==
    ASSUME TypeOK, NEW k \in Keys, NEW d \in Drafts, NEW status \in {"proposed", "applied"}
    PROVE  Admissible(NewRow(k, d, status))
<1>1. d \in Draft
  BY SoulDrafts
<1> QED BY <1>1, SoulBounds DEF Admissible, NewRow, Row, Draft

LEMMA DecisionAdmissible ==
    ASSUME TypeOK, NEW i \in DOMAIN revs, Decidable(i),
           NEW status \in {"applied", "rejected"}, NEW auto \in BOOLEAN,
           auto => MayApply(i)
    PROVE  Admissible(Decision(i, status, auto)) /\ Decision(i, status, auto).sup # 0
<1>1. /\ revs[i] \in Row /\ i \in 0..MaxRows /\ i # 0
      /\ status \in {"proposed", "applied", "rejected"}
  BY SoulBounds DEF TypeOK
<1>2. /\ Decision(i, status, auto) \in Row
      /\ Decision(i, status, auto).sup = i
      /\ Decision(i, status, auto).key = revs[i].key
      /\ Decision(i, status, auto).auto = auto
      /\ Decision(i, status, auto).endorsed = revs[i].endorsed
  <2> DEFINE r == revs[i]
  <2>1. r \in Row
    BY <1>1
  <2>2. Decision(i, status, auto) = [r EXCEPT !.status = status, !.sup = i, !.auto = auto]
    BY DEF Decision
  <2> HIDE DEF r
  <2>3. /\ [r EXCEPT !.status = status, !.sup = i, !.auto = auto] \in Row
        /\ [r EXCEPT !.status = status, !.sup = i, !.auto = auto].sup = i
        /\ [r EXCEPT !.status = status, !.sup = i, !.auto = auto].key = r.key
        /\ [r EXCEPT !.status = status, !.sup = i, !.auto = auto].auto = auto
        /\ [r EXCEPT !.status = status, !.sup = i, !.auto = auto].endorsed = r.endorsed
    BY <1>1, <2>1 DEF Row
  <2>4. Decision(i, status, auto).auto = auto
    BY <2>2, <2>3, Zenon
  <2>5. Decision(i, status, auto).endorsed = r.endorsed
    BY <2>2, <2>3, Zenon
  <2> QED BY <2>2, <2>3, <2>4, <2>5 DEF r
<1> QED BY <1>1, <1>2 DEF Admissible, MayApply

LEMMA SurfaceAdmissible ==
    ASSUME TypeOK, NEW k \in Keys, NEW status \in {"proposed", "applied"}
    PROVE  /\ Admissible([NewRow(k, Found, status) EXCEPT !.found = TRUE])
           /\ [NewRow(k, Found, status) EXCEPT !.found = TRUE].key = k
<1> DEFINE r == NewRow(k, Found, status)
<1>1. r \in Row /\ r.key = k /\ r.sup = 0 /\ r.auto = FALSE
  BY SoulBounds DEF NewRow, Found, Row, Sources
<1> HIDE DEF r
<1>2. /\ [r EXCEPT !.found = TRUE] \in Row /\ [r EXCEPT !.found = TRUE].key = k
      /\ [r EXCEPT !.found = TRUE].sup = 0 /\ [r EXCEPT !.found = TRUE].auto = FALSE
  BY <1>1, FoundRow
<1>3. Admissible([r EXCEPT !.found = TRUE])
  BY <1>2 DEF Admissible
<1> QED BY <1>2, <1>3 DEF r

LEMMA RemovalAdmissible ==
    ASSUME TypeOK, NoiseInv, NEW r \in Repairers, NEW x \in repair[r],
           Unchanged(x[1], x[2])
    PROVE  Admissible(Removal(x[1], x[2])) /\ Removal(x[1], x[2]).sup # 0
<1>1. /\ x[1] \in Keys /\ x[2] \in DOMAIN revs /\ x[2] \in 0..MaxRows /\ x[2] # 0
      /\ revs[x[2]].source \in Machine
  BY DEF TypeOK, NoiseInv, Rows
<1> DEFINE t == NewRow(x[1], [op |-> "remove", blank |-> TRUE,
                              source |-> "integrity_check", endorsed |-> FALSE], "applied")
<1>2. t \in Row /\ t.key = x[1] /\ t.op = "remove" /\ t.status = "applied" /\ t.auto = FALSE
  BY <1>1, SoulBounds DEF NewRow, Row, Sources
<1>3. Removal(x[1], x[2]) = [t EXCEPT !.sup = x[2]]
  BY DEF Removal
<1> HIDE DEF t
<1>4. /\ Removal(x[1], x[2]) \in Row /\ Removal(x[1], x[2]).key = x[1]
      /\ Removal(x[1], x[2]).op = "remove" /\ Removal(x[1], x[2]).status = "applied"
      /\ Removal(x[1], x[2]).auto = FALSE /\ Removal(x[1], x[2]).sup = x[2]
  BY <1>1, <1>2, <1>3, RemovalRow
<1> QED BY <1>1, <1>4 DEF Admissible, Unchanged

-----------------------------------------------------------------------------
(* Appending a row keeps each part of the invariant                         *)

LEMMA Appended ==
    ASSUME TypeOK, NEW p \in Processes, NEW row, Admissible(row), Publish(p, row)
    PROVE  /\ revs' = Append(revs, row) /\ revs' \in Seq(Row)
           /\ Len(revs') = Len(revs) + 1 /\ Len(revs') <= MaxRows
           /\ Len(revs) \in Nat /\ DOMAIN revs = 1..Len(revs)
           /\ DOMAIN revs' = DOMAIN revs \cup {Len(revs) + 1}
           /\ \A i \in DOMAIN revs : revs'[i] = revs[i]
           /\ revs'[Len(revs) + 1] = row
           /\ \A i \in DOMAIN revs : Before(i)' = Before(i)
           /\ \A n \in Nat : n = Len(revs) + 1 => Before(n)' = Fold(revs)[row.key]
           /\ Fold(revs') = IF row.status = "applied" THEN Written(row) ELSE Fold(revs)
<1>1. revs \in Seq(Row) /\ row \in Row /\ revs' = Append(revs, row) /\ Len(revs) < MaxRows
  BY DEF TypeOK, Admissible, Publish
<1>2. \A i \in DOMAIN revs : Before(i)' = Before(i)
  <2>1. \A i \in DOMAIN revs : i - 1 \in 0..Len(revs) /\ revs'[i] = revs[i]
    BY <1>1, Grows
  <2> QED BY <1>1, <2>1, PastStays DEF Before
<1>3. ASSUME NEW n \in Nat, n = Len(revs) + 1
      PROVE  Before(n)' = Fold(revs)[row.key]
  <2>1. n - 1 = Len(revs) /\ Len(revs) \in 0..Len(revs) /\ row.key \in Keys
    BY <1>1, <1>3 DEF Row
  <2>2. Before(n)' = Current(revs', row.key, Len(revs))
    BY <1>1, <1>3, <2>1, Grows DEF Before
  <2> QED BY <1>1, <2>1, <2>2, PastStays, FoldIsRows
<1>4. Fold(revs') = IF row.status = "applied" THEN Written(row) ELSE Fold(revs)
  BY <1>1, FoldStays DEF Written
<1> QED BY <1>1, <1>2, <1>3, <1>4, Grows, SoulBounds

\* The same, with a name for the place of the row.
LEMMA NewRowIsLast ==
    ASSUME TypeOK, NEW p \in Processes, NEW row, Admissible(row), Publish(p, row)
    PROVE  \E n \in Nat \ {0} :
        /\ n = Len(revs) + 1 /\ DOMAIN revs = 1..(n - 1) /\ DOMAIN revs' = 1..n
        /\ DOMAIN revs' = DOMAIN revs \cup {n} /\ n \notin DOMAIN revs
        /\ \A i \in DOMAIN revs : revs'[i] = revs[i] /\ Before(i)' = Before(i)
        /\ revs'[n] = row /\ Before(n)' = Fold(revs)[row.key]
<1> DEFINE m == Len(revs) + 1
<1>1. /\ m \in Nat \ {0} /\ DOMAIN revs = 1..(m - 1) /\ m \notin DOMAIN revs
      /\ DOMAIN revs' = 1..m /\ DOMAIN revs' = DOMAIN revs \cup {m}
  <2>1. /\ Len(revs) \in Nat /\ DOMAIN revs = 1..Len(revs)
        /\ DOMAIN revs' = DOMAIN revs \cup {Len(revs) + 1}
    BY Appended
  <2> QED BY <2>1
<1>2. /\ \A i \in DOMAIN revs : revs'[i] = revs[i] /\ Before(i)' = Before(i)
      /\ revs'[m] = row
  BY Appended
<1>3. \A n \in Nat : n = m => Before(n)' = Fold(revs)[row.key]
  BY Appended
<1> QED BY <1>1, <1>2, <1>3

LEMMA FoldIsPage == ASSUME NEW log \in Seq(Row), Len(log) <= MaxRows PROVE Fold(log) \in Pages
  BY SoulBounds DEF Fold, Current, Pages, Rows

LEMMA SupIsRow ==
    ASSUME TypeOK, LinkInv
    PROVE  \A i \in DOMAIN revs :
              /\ revs[i].sup \in Nat /\ revs[i].sup < i
              /\ revs[i].sup # 0 => revs[i].sup \in DOMAIN revs
<1> SUFFICES ASSUME NEW i \in DOMAIN revs
             PROVE  /\ revs[i].sup \in Nat /\ revs[i].sup < i
                    /\ revs[i].sup # 0 => revs[i].sup \in DOMAIN revs
  OBVIOUS
<1>1. revs \in Seq(Row)
  BY DEF TypeOK
<1>2. revs[i] \in Row /\ i \in 1..Len(revs) /\ DOMAIN revs = 1..Len(revs) /\ Len(revs) \in Nat
  BY <1>1
<1>3. revs[i].sup \in Nat /\ revs[i].sup < i
  BY <1>2, SoulBounds DEF Row, LinkInv
<1> QED BY <1>2, <1>3

LEMMA AppendKeepsPage ==
    ASSUME IInv, NEW p \in Processes, NEW row, Admissible(row), Publish(p, row)
    PROVE  /\ PageInv'
           /\ \/ lock' = Free
              \/ lock' \in [by: Processes, at: {"truncate", "fill"}, page: Pages]
<1>1. Fold(revs') \in Pages
  BY Appended, FoldIsPage DEF IInv
<1>2. CASE row.status = "applied"
  <2>1. lock' = [by |-> p, at |-> "truncate", page |-> Fold(revs')]
    BY <1>2, Appended DEF Publish, IInv
  <2>2. lock' # Free
    BY <2>1 DEF Free
  <2> QED BY <1>1, <2>1, <2>2 DEF PageInv, PageIsCurrent
<1>3. CASE row.status # "applied"
  <2>1. lock = Free /\ lock' = Free /\ page' = page /\ late' = late
    BY <1>3 DEF Publish
  <2>2. Fold(revs') = Fold(revs)
    BY <1>3, Appended DEF IInv
  <2>3. Fold(revs)' = Fold(revs')
    BY DEF Fold
  <2> QED BY <2>1, <2>2, <2>3 DEF PageInv, PageIsCurrent, IInv
<1> QED BY <1>2, <1>3

LEMMA AppendKeepsLinks ==
    ASSUME IInv, NEW p \in Processes, NEW row, Admissible(row), Publish(p, row)
    PROVE  LinkInv' /\ SettledOnce'
<1>0. PICK n \in Nat \ {0} :
        /\ n = Len(revs) + 1 /\ DOMAIN revs = 1..(n - 1) /\ DOMAIN revs' = 1..n
        /\ DOMAIN revs' = DOMAIN revs \cup {n} /\ n \notin DOMAIN revs
        /\ \A i \in DOMAIN revs : revs'[i] = revs[i] /\ Before(i)' = Before(i)
        /\ revs'[n] = row /\ Before(n)' = Fold(revs)[row.key]
  BY NewRowIsLast DEF IInv
<1>1. /\ \A i \in DOMAIN revs : i \in Nat /\ i < n /\ i # 0
  BY <1>0
<1>2. \A i \in DOMAIN revs : revs[i].sup \in Nat /\ revs[i].sup < i
  BY SupIsRow DEF IInv
<1>3. \A i \in DOMAIN revs : revs[i].sup # 0 => revs[i].sup \in DOMAIN revs
  BY SupIsRow DEF IInv
<1>4. row.sup < n /\ row.sup \in 0..MaxRows
  BY <1>0, <1>1 DEF Admissible, Row
<1>5. \A i \in DOMAIN revs : Repairs(i)' <=> Repairs(i)
  BY <1>0, <1>1, <1>3 DEF Repairs
<1>6. Repairs(n)' =>
        /\ row.op = "remove" /\ row.status = "applied" /\ row.sup # 0
        /\ row.sup \in DOMAIN revs /\ row.sup \in Fold(revs)[row.key]
  BY <1>0, <1>1 DEF Repairs, Admissible, Decidable
<1>7. \A k \in Keys : \A i \in Fold(revs)[k] : i \in DOMAIN revs /\ Applies(revs, k, i)
  BY FoldIsRows DEF IInv, TypeOK, Current
<1>8. row.key \in Keys
  BY DEF Admissible, Row
<1>9. LinkInv'
  <2>1. Repairs(n)' => row.key = revs[row.sup].key
    BY <1>6, <1>7, <1>8 DEF Applies
  <2>2. ASSUME NEW j \in DOMAIN revs
        PROVE  /\ revs'[j].sup < j
               /\ Repairs(j)' => /\ revs'[j].op = "remove" /\ revs'[j].status = "applied"
                                 /\ revs'[j].key = revs'[revs'[j].sup].key
    BY <1>0, <1>3, <1>5 DEF LinkInv, IInv, Repairs
  <2>3. /\ revs'[n].sup < n
        /\ Repairs(n)' => /\ revs'[n].op = "remove" /\ revs'[n].status = "applied"
                          /\ revs'[n].key = revs'[revs'[n].sup].key
    BY <1>0, <1>4, <1>6, <2>1
  <2> QED BY <1>0, <2>2, <2>3 DEF LinkInv
<1>10. ASSUME NEW j \in DOMAIN revs, revs[j].sup = row.sup, row.sup # 0
       PROVE  FALSE
  <2>1. ~Decidable(row.sup)
    BY <1>0, <1>10 DEF Decidable
  <2>2. row.sup \in Fold(revs)[row.key] /\ Applies(revs, row.key, row.sup)
    BY <1>7, <1>8, <1>10, <2>1 DEF Admissible
  <2>3. Repairs(j)
    BY <1>0, <1>10, <2>2 DEF Repairs, Applies
  <2>4. Applies(revs, row.key, j) /\ row.sup < j
    BY <1>0, <1>10, <2>2, <2>3 DEF IInv, LinkInv, Applies
  <2>5. j \in (row.sup + 1)..Len(revs)
    BY <1>4, <2>4, <1>10 DEF IInv, TypeOK
  <2> QED BY <2>2, <2>4, <2>5, <1>8, FoldIsRows DEF IInv, TypeOK, Current
<1>11. SettledOnce'
  BY <1>0, <1>1, <1>10 DEF SettledOnce, IInv
<1> QED BY <1>9, <1>11

LEMMA AppendKeepsSpared ==
    ASSUME IInv, NEW p \in Processes, NEW row, Admissible(row), Publish(p, row)
    PROVE  AgentSparesProtected'
<1>0. PICK n \in Nat \ {0} :
        /\ n = Len(revs) + 1 /\ DOMAIN revs = 1..(n - 1) /\ DOMAIN revs' = 1..n
        /\ DOMAIN revs' = DOMAIN revs \cup {n} /\ n \notin DOMAIN revs
        /\ \A i \in DOMAIN revs : revs'[i] = revs[i] /\ Before(i)' = Before(i)
        /\ revs'[n] = row /\ Before(n)' = Fold(revs)[row.key]
  BY NewRowIsLast DEF IInv
<1>2. \A j \in DOMAIN revs' : Before(j)' \subseteq DOMAIN revs
  <2>1. \A j \in DOMAIN revs : Before(j) \subseteq 1..(j - 1)
    BY DEF Before, Current
  <2>2. \A j \in DOMAIN revs : 1..(j - 1) \subseteq DOMAIN revs
    BY <1>0
  <2>3. row.key \in Keys /\ revs \in Seq(Row)
    BY DEF Admissible, Row, IInv, TypeOK
  <2>4. Fold(revs)[row.key] \subseteq DOMAIN revs
    BY <2>3, FoldIsRows
  <2> QED BY <1>0, <2>1, <2>2, <2>4
<1>3. \A j \in DOMAIN revs' : Protected(revs, Before(j))' => Protected(revs, Before(j)')
  BY <1>0, <1>2 DEF Protected
<1>4. ASSUME NEW j \in DOMAIN revs, revs'[j].auto
      PROVE  ~revs'[j].endorsed /\ ~Protected(revs, Before(j)')
  BY <1>0, <1>4 DEF IInv, AgentSparesProtected
<1>5. row.auto => ~row.endorsed /\ ~Protected(revs, Before(n)')
  BY <1>0 DEF Admissible
<1> QED BY <1>0, <1>3, <1>4, <1>5 DEF AgentSparesProtected

LEMMA AppendKeepsNoise ==
    ASSUME IInv, NEW p \in Processes, NEW row, Admissible(row), Publish(p, row)
    PROVE  RepairRemovesNoise'
<1>0. PICK n \in Nat \ {0} :
        /\ n = Len(revs) + 1 /\ DOMAIN revs = 1..(n - 1) /\ DOMAIN revs' = 1..n
        /\ DOMAIN revs' = DOMAIN revs \cup {n} /\ n \notin DOMAIN revs
        /\ \A i \in DOMAIN revs : revs'[i] = revs[i] /\ Before(i)' = Before(i)
        /\ revs'[n] = row /\ Before(n)' = Fold(revs)[row.key]
  BY NewRowIsLast DEF IInv
<1>1. /\ \A j \in DOMAIN revs' : j \in DOMAIN revs \/ j = n
      /\ \A j \in DOMAIN revs : revs'[j] = revs[j] /\ Before(j)' = Before(j)
                                 /\ Before(j) \subseteq DOMAIN revs
      /\ revs'[n] = row /\ Before(n)' = Fold(revs)[row.key]
  <2>1. \A j \in DOMAIN revs : Before(j) \subseteq DOMAIN revs
    BY DEF IInv, TypeOK, Before, Current
  <2> QED BY <1>0, <2>1
<1>2. \A j \in DOMAIN revs : Repairs(j)' <=> Repairs(j)
  <2>1. \A i \in DOMAIN revs : revs[i].sup # 0 => revs[i].sup \in DOMAIN revs
    BY SupIsRow DEF IInv
  <2> QED BY <1>1, <2>1 DEF Repairs
<1>3. ASSUME NEW j \in DOMAIN revs, Repairs(j)'
      PROVE  /\ Before(j)' # {}
             /\ \A i \in Before(j)' : revs'[i].blank /\ revs'[i].source \in Machine
  BY <1>1, <1>2, <1>3 DEF IInv, NoiseInv, RepairRemovesNoise
<1>4. ASSUME Repairs(n)'
      PROVE  /\ Before(n)' # {}
             /\ \A i \in Before(n)' : revs'[i].blank /\ revs'[i].source \in Machine
  <2>1. /\ row.sup \in DOMAIN revs /\ row.sup \in Fold(revs)[row.key]
        /\ revs[row.sup].blank /\ revs[row.sup].source \in Machine
    BY <1>1, <1>4 DEF Repairs, Admissible, Decidable
  <2>2. \A i \in Fold(revs)[row.key] : i = row.sup
    <3>1. revs \in Seq(Row) /\ row.key \in Keys /\ Len(revs) \in Nat
      BY DEF IInv, TypeOK, Admissible, Row
    <3> QED BY <2>1, <3>1, OneRow, FoldIsRows
  <2> QED BY <1>1, <2>1, <2>2
<1> QED BY <1>1, <1>3, <1>4 DEF RepairRemovesNoise

\* The rest of memory only shrinks.
LEMMA AppendKeeps ==
    ASSUME IInv, NEW p \in Processes, NEW row, Admissible(row), Publish(p, row),
           bridge' \in [Bridges -> SUBSET Keys],
           repair' \in [Repairers -> SUBSET (Keys \X Rows)],
           \A r \in Repairers : repair'[r] \subseteq repair[r]
    PROVE  IInv'
<1>1. TypeOK'
  BY Appended, AppendKeepsPage DEF IInv, TypeOK, Publish
<1>2. /\ PageInv' /\ LinkInv' /\ SettledOnce' /\ AgentSparesProtected'
      /\ RepairRemovesNoise'
  BY AppendKeepsPage, AppendKeepsLinks, AppendKeepsSpared, AppendKeepsNoise
<1>3. ASSUME NEW r \in Repairers, NEW x \in repair'[r]
      PROVE  x[2] \in DOMAIN revs' /\ revs'[x[2]].source \in Machine
  <2>1. x[2] \in DOMAIN revs /\ revs[x[2]].source \in Machine
    BY DEF IInv, NoiseInv
  <2> QED BY <2>1, Appended DEF IInv
<1> QED BY <1>1, <1>2, <1>3 DEF IInv, NoiseInv

\* What is said of the log alone.
LEMMA LogStays ==
    ASSUME IInv, revs' = revs, TypeOK', PageInv',
           \A r \in Repairers : \A x \in repair'[r] :
              x[2] \in DOMAIN revs /\ revs[x[2]].source \in Machine
    PROVE  IInv'
<1>1. LinkInv' /\ SettledOnce' /\ AgentSparesProtected' /\ RepairRemovesNoise'
  BY DEF IInv, NoiseInv, LinkInv, Repairs, SettledOnce, AgentSparesProtected, Before,
         Protected, Current, Applies, RepairRemovesNoise
<1> QED BY <1>1 DEF IInv, NoiseInv

-----------------------------------------------------------------------------
(* The steps                                                                *)

LEMMA ClientKeeps == ASSUME IInv, Client PROVE IInv'
<1>0. /\ TypeOK /\ "client" \in Processes
  BY DEF IInv, Processes
<1>1. ASSUME bridge' = bridge, repair' = repair, NEW row, Admissible(row),
             Publish("client", row)
      PROVE  IInv'
  BY <1>0, <1>1, AppendKeeps DEF TypeOK
<1>2. ASSUME NEW k \in Keys, NEW d \in Drafts, NEW approval \in BOOLEAN,
             Propose(k, d, approval)
      PROVE  IInv'
  <2>1. (IF approval THEN "proposed" ELSE "applied") \in {"proposed", "applied"}
    OBVIOUS
  <2>2. Admissible(NewRow(k, d, IF approval THEN "proposed" ELSE "applied"))
    BY <1>0, <2>1, ProposeAdmissible
  <2> QED BY <1>1, <1>2, <2>2 DEF Propose
<1>3. ASSUME NEW i \in DOMAIN revs, NEW status \in {"applied", "rejected"}, Decide(i, status)
      PROVE  IInv'
  <2>1. Admissible(Decision(i, status, FALSE))
    BY <1>0, <1>3, DecisionAdmissible DEF Decide
  <2> QED BY <1>1, <1>3, <2>1 DEF Decide
<1>4. ASSUME NEW i \in DOMAIN revs, Apply(i)
      PROVE  IInv'
  <2>1. Admissible(Decision(i, "applied", TRUE))
    BY <1>0, <1>4, DecisionAdmissible DEF Apply
  <2> QED BY <1>1, <1>4, <2>1 DEF Apply
<1> QED BY <1>2, <1>3, <1>4 DEF Client

LEMMA PageStepKeeps == ASSUME IInv, Truncate \/ Fill PROVE IInv'
<1>0. TypeOK /\ revs' = revs /\ bridge' = bridge /\ repair' = repair /\ kills' = kills
  BY DEF IInv, Truncate, Fill
<1>1. Fold(revs)' = Fold(revs)
  BY <1>0 DEF Fold, Current, Applies
<1>2. CASE Truncate
  <2>1. lock # Free /\ lock.at = "truncate"
    BY <1>2 DEF Truncate, Free
  <2>2. lock \in [by: Processes, at: {"truncate", "fill"}, page: Pages]
    BY <1>0, <2>1 DEF TypeOK
  <2>3. /\ lock' \in [by: Processes, at: {"truncate", "fill"}, page: Pages]
        /\ lock'.at = "fill" /\ lock'.page = lock.page
    BY <1>2, <2>2 DEF Truncate
  <2>4. lock' # Free
    BY <2>3 DEF Free
  <2>5. Blank \in Pages
    BY DEF Blank, Pages
  <2>6. TypeOK'
    BY <1>0, <1>2, <2>3, <2>5 DEF TypeOK, Truncate
  <2>7. PageInv'
    BY <1>1, <2>1, <2>3, <2>4 DEF PageInv, PageIsCurrent, IInv
  <2> QED BY <1>0, <2>6, <2>7, LogStays DEF IInv, NoiseInv
<1>3. CASE Fill
  <2>1. lock # Free /\ lock.page = Fold(revs)
    BY <1>3 DEF Fill, Free, IInv, PageInv
  <2>2. TypeOK'
    BY <1>0, <1>3, <2>1 DEF TypeOK, Fill
  <2>3. PageInv'
    BY <1>1, <1>3, <2>1 DEF PageInv, PageIsCurrent, Fill
  <2> QED BY <1>0, <2>2, <2>3, LogStays DEF IInv, NoiseInv
<1> QED BY <1>2, <1>3

LEMMA BridgeKeeps == ASSUME IInv, NEW b \in Bridges, Bridge(b) PROVE IInv'
<1>0. /\ TypeOK /\ b \in Processes
  BY DEF IInv, Processes
<1>1. CASE \E pending \in SUBSET Keys : Read(b, pending)
  <2>1. TypeOK'
    BY <1>0, <1>1 DEF TypeOK, Read
  <2>2. PageInv'
    BY <1>1 DEF Read, PageInv, PageIsCurrent, IInv, Fold, Current, Applies
  <2> QED BY <1>1, <2>1, <2>2, LogStays DEF IInv, NoiseInv, Read
<1>2. ASSUME NEW k \in bridge[b], NEW autoWrite \in BOOLEAN, Surface(b, k, autoWrite)
      PROVE  IInv'
  <2> DEFINE status == IF autoWrite THEN "applied" ELSE "proposed"
  <2>1. k \in Keys /\ status \in {"proposed", "applied"}
    BY <1>0 DEF TypeOK
  <2>2. Admissible([NewRow(k, Found, status) EXCEPT !.found = TRUE])
    BY <1>0, <2>1, SurfaceAdmissible
  <2>3. Publish(b, [NewRow(k, Found, status) EXCEPT !.found = TRUE]) /\ repair' = repair
    BY <1>2 DEF Surface
  <2>4. /\ bridge' \in [Bridges -> SUBSET Keys]
        /\ repair' \in [Repairers -> SUBSET (Keys \X Rows)]
    BY <1>0, <1>2 DEF Surface, TypeOK
  <2> HIDE DEF status
  <2> QED BY <1>0, <2>2, <2>3, <2>4, AppendKeeps
<1>3. ASSUME NEW k \in bridge[b], Drop(b, k)
      PROVE  IInv'
  <2>1. TypeOK'
    BY <1>0, <1>3 DEF TypeOK, Drop
  <2>2. PageInv'
    BY <1>3 DEF Drop, PageInv, PageIsCurrent, IInv, Fold, Current, Applies
  <2> QED BY <1>3, <2>1, <2>2, LogStays DEF IInv, NoiseInv, Drop
<1> QED BY <1>1, <1>2, <1>3 DEF Bridge

LEMMA RepairKeeps == ASSUME IInv, NEW r \in Repairers, Repair(r) PROVE IInv'
<1>0. /\ TypeOK /\ r \in Processes
  BY DEF IInv, Processes
<1>1. CASE Check(r)
  <2>1. Degenerate \in SUBSET (Keys \X Rows)
    <3>1. DOMAIN revs \subseteq Rows
      BY <1>0, SoulBounds DEF TypeOK, Rows
    <3> QED BY <3>1 DEF Degenerate
  <2>2. TypeOK'
    BY <1>0, <1>1, <2>1 DEF TypeOK, Check
  <2>3. PageInv'
    BY <1>1 DEF Check, PageInv, PageIsCurrent, IInv, Fold, Current, Applies
  <2>4. ASSUME NEW q \in Repairers, NEW x \in repair'[q]
        PROVE  x[2] \in DOMAIN revs /\ revs[x[2]].source \in Machine
    <3>1. x \in repair[q] \/ x \in Degenerate
      BY <1>0, <1>1 DEF Check, TypeOK
    <3>2. x \in Degenerate => x[2] \in DOMAIN revs /\ revs[x[2]].source \in Machine
      BY DEF Degenerate
    <3> QED BY <3>1, <3>2 DEF IInv, NoiseInv
  <2> QED BY <1>1, <2>2, <2>3, <2>4, LogStays DEF Check
<1>2. ASSUME NEW x \in repair[r], Remove(r, x[1], x[2])
      PROVE  IInv'
  <2>1. Admissible(Removal(x[1], x[2])) /\ Publish(r, Removal(x[1], x[2]))
    BY <1>2, RemovalAdmissible DEF Remove, IInv
  <2>2. /\ bridge' \in [Bridges -> SUBSET Keys]
        /\ repair' \in [Repairers -> SUBSET (Keys \X Rows)]
        /\ \A q \in Repairers : repair'[q] \subseteq repair[q]
    BY <1>0, <1>2 DEF Remove, TypeOK
  <2> QED BY <1>0, <2>1, <2>2, AppendKeeps
<1>3. ASSUME NEW x \in repair[r], Refuse(r, x[1], x[2])
      PROVE  IInv'
  <2>1. TypeOK' /\ \A q \in Repairers : repair'[q] \subseteq repair[q]
    BY <1>0, <1>3 DEF TypeOK, Refuse
  <2>2. PageInv'
    BY <1>3 DEF Refuse, PageInv, PageIsCurrent, IInv, Fold, Current, Applies
  <2> QED BY <1>3, <2>1, <2>2, LogStays DEF IInv, NoiseInv, Refuse
<1> QED BY <1>1, <1>2, <1>3 DEF Repair

LEMMA KillKeeps == ASSUME IInv, NEW p \in Processes, Kill(p) PROVE IInv'
<1>0. /\ TypeOK /\ revs' = revs /\ page' = page
  BY DEF IInv, Kill
<1>1. \A q \in Repairers : repair'[q] \subseteq repair[q]
  BY <1>0 DEF Kill, TypeOK
<1>2. TypeOK'
  <2>1. kills' \in 0..MaxKills
    BY <1>0, SoulBounds DEF TypeOK, Kill
  <2>0. late' \in BOOLEAN
    BY <1>0, Zenon DEF TypeOK, Kill
  <2>2. bridge' \in [Bridges -> SUBSET Keys]
    BY <1>0 DEF TypeOK, Kill
  <2>3. repair' \in [Repairers -> SUBSET (Keys \X Rows)]
    BY <1>0 DEF TypeOK, Kill
  <2>4. lock' = Free \/ lock' = lock
    BY DEF Kill
  <2> QED BY <1>0, <2>0, <2>1, <2>2, <2>3, <2>4 DEF TypeOK
<1>3. PageInv'
  BY <1>0 DEF Kill, PageInv, PageIsCurrent, IInv, Fold, Current, Applies
<1> QED BY <1>0, <1>1, <1>2, <1>3, LogStays DEF IInv, NoiseInv

LEMMA IInvHolds == Spec => []IInv
<1>1. Init => IInv
  <2> SUFFICES ASSUME Init PROVE IInv
    OBVIOUS
  <2>1. revs = <<>> /\ DOMAIN revs = {} /\ Len(revs) = 0
    BY DEF Init
  <2>2. Fold(revs) = Blank
    BY <2>1 DEF Fold, Blank, Current
  <2>3. Blank \in Pages
    BY DEF Blank, Pages
  <2>4. TypeOK
    <3>1. <<>> \in Seq(Row) /\ 0 <= MaxRows /\ 0 \in 0..MaxKills
      BY SoulBounds
    <3> QED BY <2>1, <2>3, <3>1 DEF Init, TypeOK
  <2> QED BY <2>1, <2>2, <2>4 DEF Init, IInv, PageInv, PageIsCurrent, LinkInv, SettledOnce,
             AgentSparesProtected, NoiseInv, RepairRemovesNoise
<1>2. IInv /\ [Next]_soulVars => IInv'
  <2>1. ASSUME IInv, UNCHANGED soulVars PROVE IInv'
    <3>1. TypeOK' /\ PageInv'
      BY <2>1 DEF soulVars, IInv, TypeOK, PageInv, PageIsCurrent, Fold, Current, Applies
    <3> QED BY <2>1, <3>1, LogStays DEF soulVars, IInv, NoiseInv
  <2> QED BY <2>1, ClientKeeps, PageStepKeeps, BridgeKeeps, RepairKeeps, KillKeeps
          DEF Next, Processes
<1> QED BY <1>1, <1>2, PTL DEF Spec

-----------------------------------------------------------------------------
(* A finding is proposed once                                               *)

LEMMA AppendKeepsOnce ==
    ASSUME IInv, OnceInv, NEW p \in Processes, NEW row, Admissible(row), Publish(p, row),
           \A b \in Bridges : bridge'[b] \subseteq bridge[b],
           row.found /\ row.sup = 0 =>
              ~Proposed(row.key) /\ \A b \in Bridges : row.key \notin bridge'[b]
    PROVE  OnceInv'
<1>0. PICK n \in Nat \ {0} :
        /\ n = Len(revs) + 1 /\ DOMAIN revs = 1..(n - 1) /\ DOMAIN revs' = 1..n
        /\ DOMAIN revs' = DOMAIN revs \cup {n} /\ n \notin DOMAIN revs
        /\ \A i \in DOMAIN revs : revs'[i] = revs[i] /\ Before(i)' = Before(i)
        /\ revs'[n] = row /\ Before(n)' = Fold(revs)[row.key]
  BY NewRowIsLast DEF IInv
<1>1. /\ \A i \in DOMAIN revs' : i \in DOMAIN revs \/ i = n
      /\ \A i \in DOMAIN revs : revs'[i] = revs[i]
      /\ revs'[n] = row
  BY <1>0
<1>2. ProposedOnce'
  BY <1>1 DEF ProposedOnce, OnceInv, Proposed
<1>3. ASSUME NEW b \in Bridges, NEW k \in bridge'[b]
      PROVE  ~Proposed(k)'
  <2>1. ~Proposed(k)
    BY <1>3 DEF OnceInv
  <2> QED BY <1>1, <1>3, <2>1 DEF Proposed
<1> QED BY <1>2, <1>3 DEF OnceInv

LEMMA OnceStays ==
    ASSUME OnceInv, revs' = revs,
           \A b \in Bridges : \A k \in bridge'[b] : k \in bridge[b] \/ k \notin Covered
    PROVE  OnceInv'
<1>1. ProposedOnce'
  BY DEF OnceInv, ProposedOnce
<1>2. ASSUME NEW b \in Bridges, NEW k \in bridge'[b]
      PROVE  ~Proposed(k)'
  BY <1>2 DEF OnceInv, Proposed, Covered
<1> QED BY <1>1, <1>2 DEF OnceInv

LEMMA OnceClient == ASSUME IInv, OnceInv, Client PROVE OnceInv'
<1>0. /\ TypeOK /\ "client" \in Processes
  BY DEF IInv, Processes
<1>1. ASSUME bridge' = bridge, NEW row, Admissible(row), Publish("client", row),
             row.found = FALSE \/ row.sup # 0
      PROVE  OnceInv'
  BY <1>0, <1>1, AppendKeepsOnce
<1>2. ASSUME NEW k \in Keys, NEW d \in Drafts, NEW approval \in BOOLEAN,
             Propose(k, d, approval)
      PROVE  OnceInv'
  <2> DEFINE status == IF approval THEN "proposed" ELSE "applied"
  <2>1. status \in {"proposed", "applied"}
    OBVIOUS
  <2>2. Publish("client", NewRow(k, d, status)) /\ bridge' = bridge
    BY <1>2 DEF Propose
  <2> HIDE DEF status
  <2>3. Admissible(NewRow(k, d, status))
    BY <1>0, <2>1, ProposeAdmissible
  <2>4. NewRow(k, d, status).found = FALSE
    BY DEF NewRow
  <2> QED BY <1>1, <2>2, <2>3, <2>4
<1>3. ASSUME NEW i \in DOMAIN revs, NEW status \in {"applied", "rejected"}, Decide(i, status)
      PROVE  OnceInv'
  <2>1. Admissible(Decision(i, status, FALSE)) /\ Decision(i, status, FALSE).sup # 0
    BY <1>0, <1>3, DecisionAdmissible DEF Decide
  <2> QED BY <1>1, <1>3, <2>1 DEF Decide
<1>4. ASSUME NEW i \in DOMAIN revs, Apply(i)
      PROVE  OnceInv'
  <2>1. Admissible(Decision(i, "applied", TRUE)) /\ Decision(i, "applied", TRUE).sup # 0
    BY <1>0, <1>4, DecisionAdmissible DEF Apply
  <2> QED BY <1>1, <1>4, <2>1 DEF Apply
<1> QED BY <1>2, <1>3, <1>4 DEF Client

\* Only here does it matter that bridge runs do not overlap.
LEMMA OnceSurface ==
    ASSUME \A b, c \in Bridges : b = c,
           IInv, OnceInv, NEW b \in Bridges, NEW k \in bridge[b], NEW autoWrite \in BOOLEAN,
           Surface(b, k, autoWrite)
    PROVE  OnceInv'
<1> DEFINE status == IF autoWrite THEN "applied" ELSE "proposed"
           row == [NewRow(k, Found, status) EXCEPT !.found = TRUE]
<1>1. k \in Keys /\ status \in {"proposed", "applied"} /\ b \in Processes /\ TypeOK
  BY DEF IInv, TypeOK, Processes
<1>2. Publish(b, row)
  BY DEF Surface
<1> HIDE DEF status
<1>3. Admissible(row) /\ row.key = k
  BY <1>1, SurfaceAdmissible
<1>4. \A c \in Bridges : bridge'[c] \subseteq bridge[c] /\ k \notin bridge'[c]
  BY <1>1 DEF Surface, TypeOK
<1>5. ~Proposed(k)
  BY DEF OnceInv
<1> HIDE DEF row
<1> QED BY <1>1, <1>2, <1>3, <1>4, <1>5, AppendKeepsOnce

LEMMA OnceRemove ==
    ASSUME IInv, OnceInv, NEW r \in Repairers, NEW x \in repair[r], Remove(r, x[1], x[2])
    PROVE  OnceInv'
<1>1. Admissible(Removal(x[1], x[2])) /\ Removal(x[1], x[2]).sup # 0
  BY RemovalAdmissible DEF Remove, IInv
<1> QED BY <1>1, AppendKeepsOnce DEF Remove, Processes

LEMMA OnceNext ==
    ASSUME \A b, c \in Bridges : b = c, IInv, OnceInv, [Next]_soulVars
    PROVE  OnceInv'
<1>0. TypeOK
  BY DEF IInv
<1>1. CASE Truncate \/ Fill \/ UNCHANGED soulVars
  BY <1>1, OnceStays DEF Truncate, Fill, soulVars
<1>2. ASSUME NEW b \in Bridges, Bridge(b)
      PROVE  OnceInv'
  <2>1. ASSUME NEW pending \in SUBSET Keys, Read(b, pending)
        PROVE  OnceInv'
    BY <1>0, <2>1, OnceStays DEF Read, TypeOK
  <2>2. ASSUME NEW k \in bridge[b], Drop(b, k)
        PROVE  OnceInv'
    BY <1>0, <2>2, OnceStays DEF Drop, TypeOK
  <2> QED BY <1>2, <2>1, <2>2, OnceSurface DEF Bridge
<1>3. ASSUME NEW r \in Repairers, Repair(r)
      PROVE  OnceInv'
  <2>1. CASE Check(r) \/ \E x \in repair[r] : Refuse(r, x[1], x[2])
    BY <2>1, OnceStays DEF Check, Refuse
  <2> QED BY <1>3, <2>1, OnceRemove DEF Repair
<1>4. ASSUME NEW p, Kill(p)
      PROVE  OnceInv'
  <2>1. revs' = revs /\ \A b \in Bridges : bridge'[b] \subseteq bridge[b]
    BY <1>0, <1>4 DEF Kill, TypeOK
  <2> QED BY <2>1, OnceStays
<1> QED BY <1>1, <1>2, <1>3, <1>4, OnceClient DEF Next

-----------------------------------------------------------------------------
(* What SoulStore guarantees                                                *)

\* The log, the page and what bridge runs, repairs and a writer have read keep
\* their types, whoever is killed.
THEOREM SoulTypeCorrect == Spec => []TypeOK
<1>1. IInv => TypeOK
  BY DEF IInv
<1> QED BY <1>1, IInvHolds, PTL

\* However approvals, rejections and the agent's own applications race, a
\* proposal is settled once, and a repaired entry removed once (_decide,
\* apply_soul_update, remove_entry_if_unchanged).
THEOREM Settled == Spec => []SettledOnce
<1>1. IInv => SettledOnce
  BY DEF IInv
<1> QED BY <1>1, IInvHolds, PTL

\* What an agent applies on its own replaces nothing that is endorsed or a
\* human's, at the time it is applied (apply_soul_update).
THEOREM AgentSpares == Spec => []AgentSparesProtected
<1>1. IInv => AgentSparesProtected
  BY DEF IInv
<1> QED BY <1>1, IInvHolds, PTL

\* Whatever is written between an integrity check and the removals it asks for,
\* only blank entries of a machine are removed (remove_entry_if_unchanged).
THEOREM RepairsSpare == Spec => []RepairRemovesNoise
<1>1. IInv => RepairRemovesNoise
  BY DEF IInv, NoiseInv
<1> QED BY <1>1, IInvHolds, PTL

\* Between writers the page says what the log says, unless its last writer was
\* killed (_write_rendered).
THEOREM PageFollows == Spec => []PageIsCurrent
<1>1. IInv => PageIsCurrent
  BY DEF IInv, PageInv
<1> QED BY <1>1, IInvHolds, PTL

\* If bridge runs never overlap, no finding is proposed twice, whatever became
\* of the first proposal (propose_soul_from_dreamer).
THEOREM DreamerProposesOnce ==
    ASSUME \A b, c \in Bridges : b = c
    PROVE  Spec => []ProposedOnce
<1>1. Init => OnceInv
  BY DEF Init, OnceInv, ProposedOnce
<1>2. IInv /\ OnceInv /\ [Next]_soulVars => OnceInv'
  BY OnceNext
<1>3. OnceInv => ProposedOnce
  BY DEF OnceInv
<1> QED BY <1>1, <1>2, <1>3, IInvHolds, PTL DEF Spec
=============================================================================
