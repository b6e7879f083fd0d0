------------------------------ MODULE ClaimReview ------------------------------
(***************************************************************************)
(* What is held to be true, and who settles a contradiction:               *)
(* persistence/store_claim_ops.py, claim/*.py,                             *)
(* persistence/dreamer_candidate_store.py, the contradiction branch of     *)
(* runtime/dreamer/candidates.py and the scan of retrieval/agent.py.       *)
(*                                                                         *)
(* Claims and claim updates are only added, in the rows of beads, under    *)
(* the store lock; which claim is current is computed when it is asked.    *)
(* Candidates are one file, read and written whole without a lock: a       *)
(* worker - a recall that scans for conflicts, or a review of a candidate  *)
(* - keeps its copy across every other step it takes.                      *)
(*                                                                         *)
(* One subject and slot; the updates name both, and claims of the slot.    *)
(* Left out: legacy sidecar files, as_of, values and confidences, the      *)
(* advisories (never canonical), rewards, the rebuild of the index.  The   *)
(* conflict score is above its threshold when the scopes are the same.     *)
(***************************************************************************)
EXTENDS Integers, Sequences, FiniteSets

CONSTANTS
    Turns,       \* authored turns, each with a bead and a claim of its own
    Place(_),    \* where the id of a bead sorts among the others
    Workers,     \* recalls and reviews that may overlap
    Answers,     \* what reviewers answer
    None,        \* no claim
    MaxRows,     \* bound: candidates raised
    MaxForks,    \* bound: pairs of scoped claims written
    MaxReviews,  \* bound: reviews begun
    MaxKills     \* bound: workers killed

Updating == {"prefer_a", "prefer_b", "retract_both"}

ASSUME ReviewNames ==
    /\ None \notin Turns
    /\ \A t \in Turns : t \notin [fork: Nat, side: {"a", "b"}]
ASSUME ReviewBounds ==
    /\ MaxRows \in Nat /\ MaxForks \in Nat /\ MaxReviews \in Nat /\ MaxKills \in Nat
ASSUME ReviewAnswers ==
    Answers \subseteq Updating \cup {"both_valid", "no_scopes", "defer", "accept", "reject"}

VARIABLES
    claims,    \* the claims of the slot, in the rows of all beads
    updates,   \* the claim updates of the slot, in the rows of all beads
    file,      \* dreamer-candidates.json; <<>> too while it is being written
    worker,    \* what each worker is at
    audited,   \* audit turns that have a bead
    raised,    \* candidates raised so far
    forks,     \* pairs of scoped claims written so far
    reviews,   \* reviews begun
    kills,     \* workers killed
    last       \* history: the last ruling written, reaffirmations aside

vars == <<claims, updates, file, worker, audited, raised, forks, reviews, kills, last>>

\* The audit turn of candidate n, and the bead its updates are put in: the
\* turn's, or a row of the index under the turn's own id when it has none.
Audit(n, path) == [cand |-> n, path |-> path]
BeadOf(turn, real) == [turn |-> turn, real |-> real]
AuditTurns == [cand: 1..MaxRows, path: {"resolve", "fork"}]
Beads == Turns \cup [turn: AuditTurns, real: BOOLEAN]
AuditBeads(n) == {BeadOf(Audit(n, path), real) : path \in {"resolve", "fork"}, real \in BOOLEAN}

\* A turn's claim has the turn's name; the n-th fork writes a claim for each side.
Scoped(n, side) == [fork |-> n, side |-> side]
ClaimIds == Turns \cup [fork: 1..MaxForks, side: {"a", "b"}]
Claim == [id: ClaimIds, bead: Beads, scope: {"global", "a", "b"}, value: Turns]

Update == [decision: {"reaffirm", "supersede", "retract", "conflict"},
           target: ClaimIds, replacement: ClaimIds \cup {None}, bead: Beads, seq: Nat]

Row == [id: 1..MaxRows, a: ClaimIds, b: ClaimIds,
        status: {"pending", "accepted", "rejected", "deferred"},
        review: {"none", "deferred", "resolved"},
        applied: Updating \cup {"none", "both_valid"}]

Idle == [at |-> "idle"]

-----------------------------------------------------------------------------
(* Resolving the slot                                                       *)

Stored == {c.id : c \in claims}
Closes(u) == u.decision \in {"supersede", "retract"}

Retired(id) == \E u \in updates : Closes(u) /\ u.target = id

Before(u, v) ==
    \/ u.seq < v.seq
    \/ u.seq = v.seq /\ u # v /\ Place(u.bead) < Place(v.bead)

\* Claims are listed in the order of their beads' ids, then of their writing.
Earlier(c, d) ==
    \/ Place(c.bead) < Place(d.bead)
    \/ /\ c.bead = d.bead
       /\ c.bead \notin Turns
       /\ \/ c.id.fork < d.id.fork
          \/ c.id.fork = d.id.fork /\ c.scope = "a" /\ d.scope = "b"

First(cs) == {c \in cs : \A d \in cs \ {c} : Earlier(c, d)}
Last(cs) == {c \in cs : \A d \in cs \ {c} : Earlier(d, c)}

Active == {c \in claims : ~Retired(c.id)}

\* What the last supersession in order names, of those that name a replacement.
LatestReplacement ==
    LET naming == {u \in updates : u.decision = "supersede" /\ u.replacement # None}
    IN  {u.replacement : u \in {v \in naming : \A w \in naming : ~Before(v, w)}}

\* Mutant of Current: the named replacement is taken, retired or not.
Mut_Current ==
    LET named == {c \in claims : c.id \in LatestReplacement}
    IN  IF named # {} THEN named ELSE Last(Active)

\* The current claim: none, or one.
Current ==
    LET named == {c \in Active : c.id \in LatestReplacement}
    IN  IF named # {} THEN named ELSE Last(Active)

\* Mutant of Cleared: any supersession or retraction clears any conflict.
Mut_Cleared ==
    (\E r \in updates : Closes(r)) /\ (\E u \in updates : u.decision = "conflict")

Cleared ==
    \E r \in updates :
      /\ Closes(r)
      /\ \E u \in updates : u.decision = "conflict"
      /\ \A u \in updates : u.decision = "conflict" => Before(u, r)

Marked == {u.target : u \in {v \in updates : v.decision = "conflict"}}
Conflicts == IF Cleared THEN {} ELSE {c \in claims : c.id \in Marked}

Status ==
    IF claims = {} THEN "not_found"
    ELSE IF Conflicts # {} THEN "conflict"
    ELSE IF Current # {} THEN "active" ELSE "retracted"

\* resolver.py resolves the whole store, a scope at a time.
StatusIn(scope) ==
    LET here == {c \in claims : c.scope = scope}
    IN  IF \E c \in here : c.id \in Marked THEN "conflict"
        ELSE IF here \cap Active # {} THEN "active" ELSE "retracted"

\* The two claims that a recall reports: the first two in conflict, or the only
\* one and the current one.
Contested ==
    {pair \in claims \X claims :
       LET rest == Conflicts \ {pair[1]}
       IN  /\ pair[1] # pair[2]
           /\ pair[1] \in First(Conflicts)
           /\ pair[2] \in (IF rest # {} THEN First(rest) ELSE Current)}

-----------------------------------------------------------------------------
(* Writing claims and updates, under the store lock                         *)

\* Mutant of Key: rulings of other beads are taken for duplicates.
Mut_Key(u) == <<u.target, u.decision>>

\* The grounding hash stands for the bead: nothing else in it varies.
Key(u) == <<u.target, u.decision, u.replacement, u.bead>>

\* The highest chain_seq of the slot, over all beads.
Highwater ==
    CHOOSE n \in {0} \cup {u.seq : u \in updates} : \A u \in updates : u.seq <= n

Ruling(decision, target, replacement) ==
    [decision |-> decision, target |-> target, replacement |-> replacement]

Appended(ruling, bead, n) ==
    [decision |-> ruling.decision, target |-> ruling.target,
     replacement |-> ruling.replacement, bead |-> bead, seq |-> n]

\* Mutant of Fresh: no duplicate is dropped.
Mut_Fresh(ruling, bead) == TRUE

Fresh(ruling, bead) ==
    Key(Appended(ruling, bead, 0)) \notin {Key(u) : u \in updates}

\* Rows that are not there yet are appended, and numbered.
AddUpdates(rulings, bead) ==
    LET new == {i \in DOMAIN rulings : Fresh(rulings[i], bead)}
        Nth(i) == Cardinality({j \in new : j <= i})
        telling == {i \in new : rulings[i].decision # "reaffirm"}
    IN  /\ updates' = updates \cup
             {Appended(rulings[i], bead, Highwater + Nth(i)) : i \in new}
        /\ last' = IF telling = {} THEN last
                   ELSE IF \E i \in telling : Closes(rulings[i]) THEN "closing"
                   ELSE "conflict"

-----------------------------------------------------------------------------
(* Turns                                                                    *)

\* A turn's bead is stored, with its claim.
AuthorClaim(t) ==
    /\ t \notin Stored
    /\ claims' = claims \cup {[id |-> t, bead |-> t, scope |-> "global", value |-> t]}
    /\ UNCHANGED <<updates, file, worker, audited, raised, forks, reviews, kills, last>>

\* What an agent may have authored beside the claim of turn t.
Authored(t) ==
    LET known == Stored \cap Turns
    IN  {<<Ruling("conflict", c, None), Ruling("conflict", t, None)>> : c \in known \ {t}}
        \cup {<<Ruling("supersede", c, t)>> : c \in known \ {t}}
        \cup {<<Ruling(d, c, None)>> : d \in {"conflict", "retract", "reaffirm"}, c \in known}

\* The decision pass of the turn; a pass that is run again adds nothing.
EmitAuthored(t) ==
    /\ t \in Stored
    /\ \A u \in updates : u.bead # t
    /\ \E rulings \in Authored(t) : AddUpdates(rulings, t)
    /\ UNCHANGED <<claims, file, worker, audited, raised, forks, reviews, kills>>

-----------------------------------------------------------------------------
(* Recalls                                                                  *)

\* The conflict of the slot is read, of two claims of one scope.
ScanConflict(w) ==
    /\ worker[w] = Idle
    /\ \E pair \in Contested :
         /\ pair[1].scope = pair[2].scope
         /\ worker' = [worker EXCEPT ![w] =
              [at |-> "scan", a |-> pair[1].id, b |-> pair[2].id]]
    /\ UNCHANGED <<claims, updates, file, audited, raised, forks, reviews, kills, last>>

RowFor(rows, a, b) == {i \in DOMAIN rows : rows[i].a = a /\ rows[i].b = b}

\* The candidates are read: a new one is added to the copy; a known one is
\* offered to the user, or left alone, and nothing is written.
ScanFile(w) ==
    /\ worker[w].at = "scan"
    /\ LET new == [id |-> raised + 1, a |-> worker[w].a, b |-> worker[w].b,
                   status |-> "pending", review |-> "none", applied |-> "none"]
       IN  IF RowFor(file, new.a, new.b) # {}
           THEN worker' = [worker EXCEPT ![w] = Idle] /\ UNCHANGED raised
           ELSE /\ raised < MaxRows
                /\ raised' = new.id
                /\ worker' = [worker EXCEPT ![w] =
                     [at |-> "write", rows |-> Append(file, new)]]
    /\ UNCHANGED <<claims, updates, file, audited, forks, reviews, kills, last>>

-----------------------------------------------------------------------------
(* Reviews                                                                  *)

Decided(row, choice) ==
    CASE choice = "defer" ->
           [row EXCEPT !.status = "deferred", !.review = "deferred", !.applied = "none"]
      [] choice = "reject" -> [row EXCEPT !.status = "rejected", !.applied = "none"]
      [] choice = "no_scopes" -> [row EXCEPT !.status = "pending", !.applied = "none"]
      [] OTHER -> [row EXCEPT !.status = "accepted", !.applied = "none"]

\* The candidates are read and one of them is decided, in the copy.  An accept
\* that is not to be applied, or names no known resolution, ends here; so does
\* "both valid" without its two scopes.
Review(w) ==
    /\ worker[w] = Idle
    /\ reviews < MaxReviews
    /\ reviews' = reviews + 1
    /\ \E i \in DOMAIN file, choice \in Answers :
         worker' = [worker EXCEPT ![w] =
           [at |-> IF choice \in Updating \cup {"both_valid"} THEN "audit" ELSE "write",
            rows |-> [file EXCEPT ![i] = Decided(@, choice)],
            pos |-> i, choice |-> choice]]
    /\ UNCHANGED <<claims, updates, file, audited, raised, forks, kills, last>>

Target(w) == worker[w].rows[worker[w].pos]
Path(choice) == IF choice = "both_valid" THEN "fork" ELSE "resolve"
TurnOf(w) == Audit(Target(w).id, Path(worker[w].choice))

\* The audit turn is finalized, with a bead or without, and its bead looked up.
RecordAudit(w) ==
    /\ worker[w].at = "audit"
    /\ \E made \in BOOLEAN :
         LET turn == TurnOf(w)
             found == made \/ turn \in audited
         IN  /\ audited' = IF made THEN audited \cup {turn} ELSE audited
             /\ worker' = [worker EXCEPT ![w] =
                  [at |-> IF @.choice = "both_valid" THEN "fork" ELSE "emit",
                   rows |-> @.rows, pos |-> @.pos, choice |-> @.choice,
                   bead |-> BeadOf(turn, found), fork |-> 0]]
    /\ UNCHANGED <<claims, updates, file, raised, forks, reviews, kills, last>>

ValueOf(id) == (CHOOSE c \in claims : c.id = id).value

\* "Both valid": the two values are written again, each in its scope.
WriteScoped(w) ==
    /\ worker[w].at = "fork"
    /\ forks < MaxForks
    /\ forks' = forks + 1
    /\ claims' = claims \cup
         {[id |-> Scoped(forks + 1, "a"), bead |-> worker[w].bead, scope |-> "a",
           value |-> ValueOf(Target(w).a)],
          [id |-> Scoped(forks + 1, "b"), bead |-> worker[w].bead, scope |-> "b",
           value |-> ValueOf(Target(w).b)]}
    /\ worker' = [worker EXCEPT ![w].at = "emit", ![w].fork = forks + 1]
    /\ UNCHANGED <<updates, file, audited, raised, reviews, kills, last>>

Rulings(choice, a, b, fork) ==
    CASE choice = "prefer_a" -> <<Ruling("supersede", b, a)>>
      [] choice = "prefer_b" -> <<Ruling("supersede", a, b)>>
      [] choice = "retract_both" -> <<Ruling("retract", a, None), Ruling("retract", b, None)>>
      [] OTHER -> <<Ruling("supersede", a, Scoped(fork, "a")),
                    Ruling("supersede", b, Scoped(fork, "b"))>>

\* The resolution is written to the store, then to the copy of the candidates.
EmitRulings(w) ==
    /\ worker[w].at = "emit"
    /\ AddUpdates(Rulings(worker[w].choice, Target(w).a, Target(w).b, worker[w].fork),
                  worker[w].bead)
    /\ worker' = [worker EXCEPT ![w] =
         [at |-> "write",
          rows |-> [@.rows EXCEPT ![@.pos].review = "resolved",
                                  ![@.pos].applied = worker[w].choice]]]
    /\ UNCHANGED <<claims, file, audited, raised, forks, reviews, kills>>

-----------------------------------------------------------------------------
(* The file of candidates, and failures                                     *)

\* Opening the file for writing empties it; read_candidates takes an empty or
\* broken file for no candidates.
OpenFile(w) ==
    /\ worker[w].at = "write"
    /\ file' = <<>>
    /\ worker' = [worker EXCEPT ![w] = [at |-> "close", rows |-> worker[w].rows, mixed |-> FALSE]]
    /\ UNCHANGED <<claims, updates, audited, raised, forks, reviews, kills, last>>

\* What was written meanwhile by another may stick out at the end.
CloseFile(w) ==
    /\ worker[w].at = "close"
    /\ \/ file' = worker[w].rows
       \/ worker[w].mixed /\ file' = <<>>
    /\ worker' = [v \in Workers |->
         IF v = w THEN Idle
         ELSE IF worker[v].at = "close" THEN [worker[v] EXCEPT !.mixed = TRUE]
         ELSE worker[v]]
    /\ UNCHANGED <<claims, updates, audited, raised, forks, reviews, kills, last>>

\* A worker is killed, or what it calls raises.
Kill(w) ==
    /\ worker[w] # Idle
    /\ kills < MaxKills
    /\ kills' = kills + 1
    /\ worker' = [worker EXCEPT ![w] = Idle]
    /\ UNCHANGED <<claims, updates, file, audited, raised, forks, reviews, last>>

-----------------------------------------------------------------------------

Init ==
    /\ claims = {} /\ updates = {} /\ file = <<>>
    /\ worker = [w \in Workers |-> Idle]
    /\ audited = {} /\ raised = 0 /\ forks = 0 /\ reviews = 0 /\ kills = 0
    /\ last = "none"

TurnStep == \E t \in Turns : AuthorClaim(t) \/ EmitAuthored(t)
Scan(w) == ScanConflict(w) \/ ScanFile(w)
Settle(w) == Review(w) \/ RecordAudit(w) \/ WriteScoped(w) \/ EmitRulings(w)
WriteFile(w) == OpenFile(w) \/ CloseFile(w)

Next == TurnStep \/ \E w \in Workers : Scan(w) \/ Settle(w) \/ WriteFile(w) \/ Kill(w)

Spec == Init /\ [][Next]_vars

-----------------------------------------------------------------------------
(* Properties                                                               *)

TypeOK ==
    /\ claims \subseteq Claim
    /\ updates \subseteq Update
    /\ file \in Seq(Row)
    /\ audited \subseteq AuditTurns
    /\ raised \in 0..MaxRows /\ forks \in 0..MaxForks
    /\ reviews \in 0..MaxReviews /\ kills \in 0..MaxKills
    /\ last \in {"none", "conflict", "closing"}

\* "a supersede or retract issued after a conflict marker is recognized as
\* resolving it", and a marker issued after them is not: whichever beads the
\* rulings were put in, the slot is in conflict as the last one written says.
LastRulingDecides ==
    /\ last = "closing" => Status # "conflict"
    /\ last = "conflict" => Status = "conflict"

\* "Retraction is permanent": a claim that was retracted or superseded is never
\* the current one, also when it is named as the replacement of another.
RetiredStaysRetired == [][\A c \in claims : Retired(c.id) => c \notin Current']_vars

\* A candidate that says it was applied has its rulings in the store, whoever
\* was killed on the way and whichever copy of the candidates was written last.
Written(rulings, bead) ==
    \A i \in DOMAIN rulings :
      \E u \in updates :
        /\ u.bead = bead
        /\ u.decision = rulings[i].decision
        /\ u.target = rulings[i].target
        /\ u.replacement = rulings[i].replacement

Backed(row) ==
    \E n \in 0..forks, bead \in AuditBeads(row.id) :
      Written(Rulings(row.applied, row.a, row.b, n), bead)

AppliedIsBacked ==
    \A i \in DOMAIN file : file[i].applied # "none" => Backed(file[i])

\* "Both are true, in different contexts": a claim is only superseded by a
\* scoped one that is there, and keeps its value.
ForkKeepsValues ==
    \A u \in updates :
      u.replacement \notin Turns \cup {None} =>
        \E c \in claims : c.id = u.replacement /\ c.value = ValueOf(u.target)

\* A review that is killed and begun again writes no ruling twice.
RetriesWriteOnce == \A u, v \in updates : Key(u) = Key(v) => u = v

\* "B becomes current": the preferred claim is the current one when the review
\* that preferred it is through.
PreferredIsCurrent ==
    [][\A w \in Workers :
         worker[w].at = "emit" /\ worker'[w].at = "write" =>
           /\ worker[w].choice = "prefer_a" => \E c \in Current' : c.id = Target(w).a
           /\ worker[w].choice = "prefer_b" => \E c \in Current' : c.id = Target(w).b]_vars

\* "so a resolution actually closes the conflict".
ResolutionCloses ==
    [][\A w \in Workers :
         worker[w].at = "emit" /\ worker'[w].at = "write" => Status' # "conflict"]_vars

\* What those two fail by is all there is: a resolution that adds a ruling closes
\* the conflict, and the claim it prefers becomes the current one if none retired it.
FreshRulingsDecide ==
    [][\A w \in Workers :
         LET choice == worker[w].choice
             rulings == Rulings(choice, Target(w).a, Target(w).b, worker[w].fork)
             preferred == IF choice = "prefer_a" THEN Target(w).a ELSE Target(w).b
         IN  /\ worker[w].at = "emit" /\ worker'[w].at = "write"
             /\ \E i \in DOMAIN rulings : Fresh(rulings[i], worker[w].bead)
             => /\ Status' # "conflict"
                /\ choice \in {"prefer_a", "prefer_b"} /\ ~Retired(preferred)
                   => {c.id : c \in Current'} = {preferred}]_vars

\* A recall asks about claims between which the choice is open.
ContestedAreActive ==
    \A pair \in Contested : ~Retired(pair[1].id) /\ ~Retired(pair[2].id)

\* review_state, or the status when it has none.
StateOf(row) == IF row.review = "none" THEN row.status ELSE row.review

\* A candidate whose resolution is in the store is not offered as an open one:
\* the decision outlives what other workers write to the file.
RulingsAreRecorded ==
    kills = 0 /\ (\A w \in Workers : worker[w] = Idle) =>
      \A u \in {v \in updates : v.bead \notin Turns} :
        \E i \in DOMAIN file : file[i].id = u.bead.turn.cand /\ StateOf(file[i]) # "pending"

\* The two resolvers agree, where there are no scopes.
ResolversAgree == forks = 0 /\ claims # {} => StatusIn("global") = Status

\* A review of "both valid" writes each value once in its scope.
OneForkEach ==
    \A c, d \in claims :
      c.scope = d.scope /\ c.scope # "global" /\ c.value = d.value /\ c.bead.turn = d.bead.turn => c = d
===============================================================================
