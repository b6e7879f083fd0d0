------------------------------- MODULE SoulStore -------------------------------
(***************************************************************************)
(* The self-model of an agent: soul/store.py, soul/dreamer_bridge.py and   *)
(* soul/integrity.py.                                                      *)
(*                                                                         *)
(* revisions.jsonl is append-only; what it says of an entry is a fold over *)
(* the applied rows.  Rows are appended, and the markdown page rewritten,  *)
(* under the store lock: so is whatever is checked before.  The bridge and *)
(* the integrity repair read without it, think (the bridge asks a language *)
(* model), and write later, one row at a time.                             *)
(*                                                                         *)
(* One subject and one of its five files.  A row's id (uuid4) is its place *)
(* in the log; of its content only whether it is blank is kept.            *)
(*                                                                         *)
(* Candidates are another component's: whichever findings a bridge run     *)
(* finds pending it works on, at most one for a key (what proposes them    *)
(* skips the keys of pending ones).  A decision's reward is left out: none *)
(* of the candidates that are bridged names an edge.                       *)
(***************************************************************************)
EXTENDS Integers, Sequences

CONSTANTS
    Keys,        \* entries of the file
    Drafts,      \* what callers of propose_soul_update submit
    Bridges,     \* runs of propose_soul_from_dreamer that may overlap
    Repairers,   \* runs of soul_integrity_repair that may overlap
    MaxRows,     \* bound: rows of the log
    MaxKills     \* bound: processes killed

Sources == {"human", "agent", "dreamer", "integrity_check"}
Machine == {"dreamer", "integrity_check"}
Draft == [op: {"upsert", "remove"}, blank: BOOLEAN, source: Sources, endorsed: BOOLEAN]

ASSUME SoulBounds == MaxRows \in Nat /\ MaxKills \in Nat
ASSUME SoulDrafts == Drafts \subseteq Draft

VARIABLES
    revs,      \* revisions.jsonl
    page,      \* the markdown file: the row each entry is shown from, if any
    lock,      \* the store lock: who holds it, and the page being written
    bridge,    \* findings each bridge run has yet to propose
    repair,    \* blank entries each repair has yet to remove
    late,      \* history: a writer was killed before the page was whole
    kills      \* history: processes killed

soulVars == <<revs, page, lock, bridge, repair, late, kills>>

Rows == 1..MaxRows
\* sup: supersedes_revision_id; auto: auto_applied; found: the metadata name a
\* Dreamer candidate.
Row == [key: Keys, op: {"upsert", "remove"}, blank: BOOLEAN, source: Sources,
        endorsed: BOOLEAN, status: {"proposed", "applied", "rejected"},
        sup: 0..MaxRows, auto: BOOLEAN, found: BOOLEAN]

Blank == [k \in Keys |-> {}]
Pages == [Keys -> SUBSET Rows]
Free == [by |-> "nobody", at |-> "free", page |-> Blank]

-----------------------------------------------------------------------------
(* The fold of the applied rows                                             *)

Applies(log, k, i) == log[i].key = k /\ log[i].status = "applied"

\* The row that entry k is from, by the first n rows: none, or the last one that
\* was applied to it.
Current(log, k, n) ==
    {i \in 1..n : Applies(log, k, i) /\ log[i].op = "upsert"
                  /\ \A j \in (i + 1)..n : ~Applies(log, k, j)}

Fold(log) == [k \in Keys |-> Current(log, k, Len(log))]

\* An entry that is endorsed or a human's.
Protected(log, entry) == \E i \in entry : log[i].endorsed \/ log[i].source = "human"

-----------------------------------------------------------------------------
(* Writing, under the lock                                                  *)

NewRow(k, d, status) ==
    [key |-> k, op |-> d.op, blank |-> d.blank, source |-> d.source,
     endorsed |-> d.endorsed, status |-> status, sup |-> 0, auto |-> FALSE,
     found |-> FALSE]

\* Mutant of Written: the page is rendered from the rows read before.
Mut_Written(row) == Fold(revs)
\* What an applied row makes of the page.
Written(row) == Fold(Append(revs, row))

\* The row is appended.  If it is applied its writer keeps the lock, to
\* truncate the page and to fill it.
Publish(p, row) ==
    /\ lock = Free /\ Len(revs) < MaxRows
    /\ revs' = Append(revs, row)
    /\ lock' = IF row.status = "applied"
               THEN [by |-> p, at |-> "truncate", page |-> Written(row)]
               ELSE Free
    /\ UNCHANGED <<page, late, kills>>

Truncate ==
    /\ lock.at = "truncate"
    /\ page' = Blank
    /\ lock' = [lock EXCEPT !.at = "fill"]
    /\ UNCHANGED <<revs, bridge, repair, late, kills>>

Fill ==
    /\ lock.at = "fill"
    /\ page' = lock.page
    /\ lock' = Free /\ late' = FALSE
    /\ UNCHANGED <<revs, bridge, repair, kills>>

\* requires_approval or not: applied at once, whatever it replaces.
Propose(k, d, approval) ==
    /\ Publish("client", NewRow(k, d, IF approval THEN "proposed" ELSE "applied"))
    /\ UNCHANGED <<bridge, repair>>

\* Mutant of Decidable: a proposal may be decided again.
Mut_Decidable(i) == revs[i].status = "proposed"
Decidable(i) ==
    /\ revs[i].status = "proposed"
    /\ \A j \in DOMAIN revs : revs[j].sup # i

Decision(i, status, auto) ==
    [revs[i] EXCEPT !.status = status, !.sup = i, !.auto = auto]

\* approve_soul_update, reject_soul_update
Decide(i, status) ==
    /\ Decidable(i)
    /\ Publish("client", Decision(i, status, FALSE))
    /\ UNCHANGED <<bridge, repair>>

\* Mutant of MayApply: only removals are looked at.
Mut_MayApply(i) ==
    /\ ~revs[i].endorsed
    /\ revs[i].op = "remove" => ~Protected(revs, Fold(revs)[revs[i].key])
\* An agent may apply what no human has to look at.
MayApply(i) == ~revs[i].endorsed /\ ~Protected(revs, Fold(revs)[revs[i].key])

\* apply_soul_update
Apply(i) ==
    /\ Decidable(i) /\ MayApply(i)
    /\ Publish("client", Decision(i, "applied", TRUE))
    /\ UNCHANGED <<bridge, repair>>

-----------------------------------------------------------------------------
(* propose_soul_from_dreamer                                                *)

\* Mutant of Covered: a proposal that was rejected covers nothing.
Mut_Covered ==
    {revs[i].key : i \in {j \in DOMAIN revs : revs[j].status = "applied" \/ Decidable(j)}}
\* A key that any row names, whoever wrote it and whatever became of it.
Covered == {revs[i].key : i \in DOMAIN revs}

Read(b, pending) ==
    /\ bridge[b] = {} /\ lock.by # b
    /\ bridge' = [bridge EXCEPT ![b] = pending \ Covered]
    /\ UNCHANGED <<revs, page, lock, repair, late, kills>>

Found == [op |-> "upsert", blank |-> FALSE, source |-> "dreamer", endorsed |-> FALSE]

\* Of high confidence and while automatic mode is not paused, applied at once.
Surface(b, k, autoWrite) ==
    /\ k \in bridge[b]
    /\ Publish(b, [NewRow(k, Found, IF autoWrite THEN "applied" ELSE "proposed")
                   EXCEPT !.found = TRUE])
    /\ bridge' = [bridge EXCEPT ![b] = @ \ {k}]
    /\ UNCHANGED repair

\* Of low confidence.
Drop(b, k) ==
    /\ k \in bridge[b] /\ lock.by # b
    /\ bridge' = [bridge EXCEPT ![b] = @ \ {k}]
    /\ UNCHANGED <<revs, page, lock, repair, late, kills>>

-----------------------------------------------------------------------------
(* soul_integrity_repair                                                    *)

\* Blank entries that a machine wrote, as they are now.
Degenerate ==
    {x \in Keys \X (DOMAIN revs) :
        /\ x[2] \in Fold(revs)[x[1]]
        /\ revs[x[2]].blank /\ revs[x[2]].source \in Machine}

Check(r) ==
    /\ repair[r] = {} /\ lock.by # r
    /\ repair' = [repair EXCEPT ![r] = Degenerate]
    /\ UNCHANGED <<revs, page, lock, bridge, late, kills>>

\* Mutant of Unchanged: the entry is still blank, but may be another's.
Mut_Unchanged(k, i) == \E c \in Fold(revs)[k] : revs[c].blank
Unchanged(k, i) == i \in Fold(revs)[k] /\ revs[i].blank

Removal(k, i) ==
    [NewRow(k, [op |-> "remove", blank |-> TRUE, source |-> "integrity_check",
                endorsed |-> FALSE], "applied")
     EXCEPT !.sup = i]

\* remove_entry_if_unchanged
Remove(r, k, i) ==
    /\ <<k, i>> \in repair[r]
    /\ Unchanged(k, i)
    /\ Publish(r, Removal(k, i))
    /\ repair' = [repair EXCEPT ![r] = @ \ {<<k, i>>}]
    /\ UNCHANGED bridge

Refuse(r, k, i) ==
    /\ <<k, i>> \in repair[r] /\ ~Unchanged(k, i)
    /\ lock = Free
    /\ repair' = [repair EXCEPT ![r] = @ \ {<<k, i>>}]
    /\ UNCHANGED <<revs, page, lock, bridge, late, kills>>

-----------------------------------------------------------------------------
\* A process is killed with what it has in memory; the lock is released.
Kill(p) ==
    /\ kills < MaxKills /\ kills' = kills + 1
    /\ bridge' = IF p \in Bridges THEN [bridge EXCEPT ![p] = {}] ELSE bridge
    /\ repair' = IF p \in Repairers THEN [repair EXCEPT ![p] = {}] ELSE repair
    /\ IF lock.by = p THEN lock' = Free /\ late' = TRUE
                      ELSE UNCHANGED <<lock, late>>
    /\ UNCHANGED <<revs, page>>

Init ==
    /\ revs = <<>> /\ page = Blank /\ lock = Free
    /\ bridge = [b \in Bridges |-> {}]
    /\ repair = [r \in Repairers |-> {}]
    /\ late = FALSE /\ kills = 0

Client ==
    \/ \E k \in Keys, d \in Drafts, approval \in BOOLEAN : Propose(k, d, approval)
    \/ \E i \in DOMAIN revs :
          \/ \E status \in {"applied", "rejected"} : Decide(i, status)
          \/ Apply(i)

Bridge(b) ==
    \/ \E pending \in SUBSET Keys : Read(b, pending)
    \/ \E k \in bridge[b] :
          \/ \E autoWrite \in BOOLEAN : Surface(b, k, autoWrite)
          \/ Drop(b, k)

Repair(r) ==
    \/ Check(r)
    \/ \E x \in repair[r] : Remove(r, x[1], x[2]) \/ Refuse(r, x[1], x[2])

Next ==
    \/ Client \/ Truncate \/ Fill
    \/ \E b \in Bridges : Bridge(b)
    \/ \E r \in Repairers : Repair(r)
    \/ \E p \in {"client"} \cup Bridges \cup Repairers : Kill(p)

Spec == Init /\ [][Next]_soulVars

-----------------------------------------------------------------------------
(* Properties                                                               *)

Processes == {"client"} \cup Bridges \cup Repairers

TypeOK ==
    /\ revs \in Seq(Row) /\ Len(revs) <= MaxRows
    /\ page \in Pages
    /\ \/ lock = Free
       \/ lock \in [by: Processes, at: {"truncate", "fill"}, page: Pages]
    /\ bridge \in [Bridges -> SUBSET Keys]
    /\ repair \in [Repairers -> SUBSET (Keys \X Rows)]
    /\ late \in BOOLEAN /\ kills \in 0..MaxKills

\* However approvals, rejections and the agent's own applications race, a
\* proposal is settled once: what was rejected is never shown, and what was
\* approved is not rejected any more (_decide, apply_soul_update).
SettledOnce ==
    \A i, j \in DOMAIN revs :
        revs[i].sup = revs[j].sup /\ revs[i].sup # 0 => i = j

\* What was the entry of row j's key just before row j.
Before(j) == Current(revs, revs[j].key, j - 1)

\* An agent that applies a proposal on its own never replaces or removes an
\* entry that is endorsed or a human's, also if it became so after the change
\* was proposed (apply_soul_update).
AgentSparesProtected ==
    \A j \in DOMAIN revs :
        revs[j].auto => ~revs[j].endorsed /\ ~Protected(revs, Before(j))

\* A row by which remove_entry_if_unchanged removed an entry: it supersedes a
\* row that is no proposal.
Repairs(j) == revs[j].sup # 0 /\ revs[revs[j].sup].status # "proposed"

\* An integrity repair removes nothing but blank entries that a machine wrote,
\* whatever was written between the check and the removal: "a concurrent upsert
\* can't have its newer content silently removed", nor its heading.
RepairRemovesNoise ==
    \A j \in DOMAIN revs : Repairs(j) =>
        /\ Before(j) # {}
        /\ \A i \in Before(j) : revs[i].blank /\ revs[i].source \in Machine

\* The markdown page says what the log says, unless its writer was killed: and
\* then only until the next row is applied, by whomever.
PageIsCurrent == lock = Free /\ ~late => page = Fold(revs)

\* "Repeated runs never churn duplicate proposals": as long as bridge runs do
\* not overlap, a finding is proposed once, whatever became of the proposal and
\* wherever an earlier run was killed.
ProposedOnce ==
    \A i, j \in DOMAIN revs :
        /\ revs[i].found /\ revs[i].sup = 0
        /\ revs[j].found /\ revs[j].sup = 0
        /\ revs[i].key = revs[j].key
        => i = j

\* "A human/agent revision means the entry is authoritatively owned ... a new
\* Dreamer proposal for that key is skipped."  Does not hold: the bridge looks
\* before it asks the language model, and writes after (dreamer_bridge.py:560,
\* 673).
OwnedIsSkipped ==
    \A j \in DOMAIN revs : revs[j].found /\ revs[j].sup = 0 =>
        \A i \in 1..(j - 1) : revs[i].key # revs[j].key
===============================================================================
