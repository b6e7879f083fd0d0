--------------------------- MODULE AssociationReview ---------------------------
(***************************************************************************)
(* Who decides on associations: runtime/associations/coverage.py.          *)
(*                                                                         *)
(* A coverage run takes some beads, shortlists the pairs they form with    *)
(* other beads (the candidates), asks a judge about them, outside of any   *)
(* lock, and writes the associations the judge supports through            *)
(* _write_association_if_missing of module Associations.  An operator may  *)
(* decide a candidate, and pending candidates may be judged by themselves. *)
(* Runs are queued in the side-effect outbox (module SideEffectQueue),     *)
(* which keeps a run until it has answered ok.                             *)
(*                                                                         *)
(* Three files remember what was decided, append-only and without a lock:  *)
(*   association-runs.jsonl             the state of each bead, last wins   *)
(*   association-judge-decisions.jsonl  decisions on candidates             *)
(*   association-candidates.jsonl       candidates, and statuses that win   *)
(*                                      over any decision                   *)
(* Only the last word each of them has on a bead or candidate is kept here. *)
(*                                                                         *)
(* A candidate is the edge that will be written if it is accepted; the     *)
(* shortlist is every edge that touches the beads of the run.  What makes  *)
(* a decision malformed, the scores and the provenance are left out, as    *)
(* are beads that are not eligible for coverage.                           *)
(***************************************************************************)
EXTENDS Associations

CONSTANTS
    Reviewers,   \* processes: outbox workers, operators, callers
    Jobs,        \* what runs are queued for: sets of beads
    MaxStarts    \* bound: times a process starts something
ASSUME JobsAssumption == Jobs \subseteq SUBSET Beads \ {{}}
ASSUME StartsAssumption == MaxStarts \in Nat

VARIABLES
    jobs,     \* the runs waiting in the outbox, each a set of beads
    latest,   \* association-runs.jsonl: the last state of each bead
    seen,     \* the candidates in association-candidates.jsonl ...
    ruled,    \* ... and the last status it gives each, "none" if it gives none
    noted,    \* association-judge-decisions.jsonl: the status it gives each
    proc,     \* what each process is doing
    decided,  \* history: what an operator decided, see InHand
    starts    \* history: things started

files == <<latest, seen, ruled, noted>>
reviewVars == <<jobs, files, proc, decided, starts>>
allVars == <<vars, reviewVars>>

States == {"none", "deferred", "pending_judge", "no_supported_links",
           "quarantined", "failed", "judge_failed", "linked"}
Verdicts == {"none", "accept", "reject", "malformed"}
Work == [at : {"idle", "queued", "propose", "judge", "apply", "note", "record"},
         kind : {"run", "goal", "operator"},
         beads : SUBSET Beads, known : SUBSET Beads,
         cands : SUBSET Edges, todo : SUBSET Edges,
         verdict : [Edges -> Verdicts], marks : [Beads -> States], bad : BOOLEAN]
Idle == [at |-> "idle", kind |-> "run", beads |-> {}, known |-> {},
         cands |-> {}, todo |-> {}, verdict |-> [c \in Edges |-> "none"],
         marks |-> [b \in Beads |-> "none"], bad |-> FALSE]

ReviewInit ==
    /\ Init
    /\ jobs = {} /\ seen = {}
    /\ latest = [b \in Beads |-> "none"]
    /\ ruled = [c \in Edges |-> "none"] /\ noted = [c \in Edges |-> "none"]
    /\ proc = [p \in Reviewers |-> Idle]
    /\ decided = [c \in Edges |-> "none"]
    /\ starts = 0

Starts == starts < MaxStarts /\ starts' = starts + 1
At(p, at) == proc[p].at = at
Becomes(p, work) == proc' = [proc EXCEPT ![p] = work]
\* _load_index: a torn index is an empty one.
Known == IF torn THEN {} ELSE index.beads
\* _candidate_status_updates: what the candidates file says wins.
Status(c) == IF ruled[c] # "none" THEN ruled[c] ELSE noted[c]

\* mark() in _apply_judge_result: a state gives way to one that ranks as high.
Rank(s) == CASE s = "none" -> 0 [] s = "pending_judge" -> 1
             [] s = "no_supported_links" -> 2 [] s = "quarantined" -> 3
             [] s \in {"failed", "judge_failed"} -> 4 [] OTHER -> 5
Mark(marks, bs, s) ==
    [b \in Beads |-> IF b \in bs /\ Rank(s) >= Rank(marks[b]) THEN s ELSE marks[b]]
\* What the last record says of the beads that marks speak of.
Recall(marks) == [b \in Beads |-> IF marks[b] = "none" THEN latest[b] ELSE marks[b]]

-----------------------------------------------------------------------------
(* Queueing a run, proposing a candidate                                    *)

\* enqueue_association_coverage: the job is in the outbox, where a key keeps
\* it from being there twice, before the record of it is appended.
Enqueue(p, bs) ==
    /\ At(p, "idle") /\ Starts /\ bs \subseteq Known
    /\ jobs' = jobs \cup {bs}
    /\ Becomes(p, [Idle EXCEPT !.at = "queued", !.beads = bs])
    /\ UNCHANGED <<vars, files, decided>>
RecordQueued(p) ==
    /\ At(p, "queued")
    /\ latest' = [b \in Beads |-> IF b \in proc[p].beads THEN "deferred" ELSE latest[b]]
    /\ Becomes(p, Idle)
    /\ UNCHANGED <<vars, jobs, seen, ruled, noted, decided>>

\* enqueue_goal_progress_candidate: looks for the candidate, then appends it.
Propose(p, c) ==
    /\ At(p, "idle") /\ Starts /\ c \notin seen /\ Ends(c) \subseteq Known
    /\ Becomes(p, [Idle EXCEPT !.at = "propose", !.cands = {c}])
    /\ UNCHANGED <<vars, jobs, files, decided>>
RecordProposal(p) ==
    /\ At(p, "propose")
    /\ seen' = seen \cup proc[p].cands
    /\ ruled' = [c \in Edges |-> IF c \in proc[p].cands THEN "pending_judge" ELSE ruled[c]]
    /\ Becomes(p, Idle)
    /\ UNCHANGED <<vars, jobs, latest, noted, decided>>

-----------------------------------------------------------------------------
(* Starting: a run, a judgement of pending candidates, an operator          *)

\* The states a run begins with: a bead without candidates has no links.
Begun(bs, cs) ==
    [b \in Beads |-> IF b \notin bs THEN "none"
                     ELSE IF \E c \in cs : b \in Ends(c) THEN "pending_judge"
                     ELSE "no_supported_links"]

\* run_association_coverage up to the judge.
StartRun(p, job) ==
    LET bs == job \cap Known
        cs == {c \in Edges : Ends(c) \cap bs # {} /\ Ends(c) \subseteq Known}
    IN
    /\ At(p, "idle") /\ Starts /\ job \in jobs /\ bs # {}
    /\ latest' = [b \in Beads |-> IF b \in bs THEN "pending_judge" ELSE latest[b]]
    /\ seen' = seen \cup cs
    /\ Becomes(p, [Idle EXCEPT !.at = IF cs = {} THEN "record" ELSE "judge",
                     !.beads = job, !.known = Known, !.cands = cs, !.todo = cs,
                     !.marks = Begun(bs, cs)])
    /\ UNCHANGED <<vars, jobs, ruled, noted, decided>>

\* judge_association_candidates: of those it is asked for, the pending ones.
Mut_Awaiting(c) == c \in seen
Awaiting(c) == c \in seen /\ Status(c) \in {"none", "pending_judge", "judge_failed"}
StartJudging(p, c) ==
    /\ At(p, "idle") /\ Starts /\ Awaiting(c)
    /\ Becomes(p, [Idle EXCEPT !.at = "judge", !.kind = "goal", !.beads = {c[1]},
                     !.known = Known, !.cands = {c}, !.todo = {c},
                     !.marks = Begun({c[1]}, {c})])
    /\ UNCHANGED <<vars, jobs, files, decided>>

\* decide_association_candidate: an operator's word takes the judge's place.
StartDeciding(p, c, verdict) ==
    /\ At(p, "idle") /\ Starts /\ c \in seen /\ verdict \in {"accept", "reject"}
    /\ Becomes(p, [Idle EXCEPT !.at = "apply", !.kind = "operator", !.beads = {c[1]},
                     !.known = Known, !.cands = {c}, !.todo = {c},
                     !.verdict[c] = verdict, !.marks = Begun({c[1]}, {c})])
    /\ UNCHANGED <<vars, jobs, files, decided>>

-----------------------------------------------------------------------------
(* The judge answers, outside of any lock                                   *)

\* What the judge says of beads is taken, but not that they are linked.
Mut_Reviewed(claim) == claim
Reviewed(claim) == IF claim = "linked" THEN "none" ELSE claim

JudgeAnswers(p, verdicts, b, claim) ==
    /\ At(p, "judge") /\ b \in proc[p].beads
    /\ verdicts \in [proc[p].cands -> Verdicts]
    /\ Becomes(p, [proc[p] EXCEPT !.at = "apply",
                     !.verdict = [c \in Edges |->
                         IF c \in proc[p].cands THEN verdicts[c] ELSE "none"],
                     !.marks = Mark(@, {b}, Reviewed(claim))])
    /\ UNCHANGED <<vars, jobs, files, decided>>

\* The judge cannot be had (pending_judge), or fails.  A run that only has to
\* be repeated has answered ok and leaves the outbox.
JudgeFails(p, state) ==
    /\ At(p, "judge")
    /\ IF proc[p].kind = "goal"
       THEN /\ ruled' = [c \in Edges |-> IF c \in proc[p].cands THEN state ELSE ruled[c]]
            /\ UNCHANGED <<jobs, latest, noted>>
       ELSE /\ noted' = [c \in Edges |-> IF c \in proc[p].cands THEN state ELSE noted[c]]
            /\ latest' = Recall([b \in Beads |->
                   IF proc[p].marks[b] = "pending_judge" THEN state ELSE proc[p].marks[b]])
            /\ jobs' = IF state = "pending_judge" THEN jobs \ {proc[p].beads} ELSE jobs
            /\ UNCHANGED ruled
    /\ Becomes(p, Idle)
    /\ UNCHANGED <<vars, seen, decided>>

-----------------------------------------------------------------------------
(* _apply_judge_result: one decision after the other                        *)

Marked(p, c, bs, state) ==
    [proc[p] EXCEPT !.todo = @ \ {c}, !.marks = Mark(@, bs, state),
                    !.bad = @ \/ state \in {"failed", "quarantined"}]

\* Supported, and found fit to be written.
Writes(p, c) == proc[p].verdict[c] = "accept" /\ Ends(c) \subseteq proc[p].known

\* The write may kill the process (Dies, in WriteIfMissing).
Write(p, c) ==
    /\ Writes(p, c)
    /\ WriteIfMissing(c)
    /\ Becomes(p, IF crashes' = crashes THEN Marked(p, c, Ends(c), "linked") ELSE Idle)
    /\ UNCHANGED host

\* The edge has a record already, a bead has left the index, or it is torn.
Skip(p, c) ==
    /\ Writes(p, c) /\ ~merge.on
    /\ \/ /\ Ends(c) \subseteq Known /\ Recorded(index, c)
          /\ Becomes(p, Marked(p, c, Ends(c), "linked"))
       \/ /\ ~(Ends(c) \subseteq Known)
          /\ Becomes(p, Marked(p, c, {c[1]}, "failed"))
    /\ UNCHANGED vars

\* Nothing to write: a refusal, a decision sent to quarantine, no decision.
Refuse(p, c) ==
    /\ ~Writes(p, c)
    /\ Becomes(p, CASE proc[p].verdict[c] = "reject" ->
                         Marked(p, c, Ends(c) \cap proc[p].beads, "no_supported_links")
                    [] proc[p].verdict[c] = "none" ->
                         [proc[p] EXCEPT !.todo = @ \ {c}]
                    [] OTHER -> Marked(p, c, Ends(c), "quarantined"))
    /\ UNCHANGED vars

Apply(p, c) ==
    /\ At(p, "apply") /\ c \in proc[p].todo
    /\ Write(p, c) \/ Skip(p, c) \/ Refuse(p, c)
    /\ UNCHANGED <<jobs, files, decided>>

\* The decisions are recorded as they were made, not as they fared.
StatusOf(verdict) ==
    CASE verdict \in {"accept", "malformed"} -> "linked"
      [] verdict = "reject" -> "no_supported_links"
      [] OTHER -> "none"
Note(p) ==
    /\ At(p, "apply") /\ proc[p].todo = {}
    /\ noted' = [c \in Edges |->
           IF StatusOf(proc[p].verdict[c]) = "none" THEN noted[c]
           ELSE StatusOf(proc[p].verdict[c])]
    /\ Becomes(p, [proc[p] EXCEPT !.at = "record"])
    /\ UNCHANGED <<vars, jobs, latest, seen, ruled, decided>>

-----------------------------------------------------------------------------
(* The end: bead states are recorded, candidates get their status           *)

\* Somebody is about to write the status of c on the strength of what it read.
InHand(c, p) ==
    \E q \in Reviewers \ {p} :
        c \in proc[q].cands /\ (proc[q].kind = "goal" \/ At(q, "propose"))

\* What an operator's decision came to; a judged candidate has the state of
\* its source bead.
Outcome(p, c) ==
    IF proc[p].kind = "goal" THEN proc[p].marks[c[1]]
    ELSE IF ~proc[p].bad THEN StatusOf(proc[p].verdict[c])
    ELSE IF Ends(c) \subseteq proc[p].known THEN "failed" ELSE "quarantined"

\* The appends to the two files are taken together.
Finish(p) ==
    LET work == proc[p]
        done == ~work.bad /\ \A b \in work.beads : work.marks[b] # "pending_judge"
    IN
    /\ At(p, "record")
    /\ latest' = Recall(work.marks)
    /\ jobs' = IF work.kind = "run" /\ done THEN jobs \ {work.beads} ELSE jobs
    /\ IF work.kind = "run" THEN UNCHANGED <<ruled, decided>>
       ELSE /\ ruled' = [c \in Edges |-> IF c \in work.cands THEN Outcome(p, c) ELSE ruled[c]]
            /\ decided' = [c \in Edges |->
                   IF c \notin work.cands \/ work.kind # "operator" THEN decided[c]
                   ELSE IF InHand(c, p) THEN "none" ELSE Outcome(p, c)]
    /\ Becomes(p, Idle)
    /\ UNCHANGED <<vars, seen, noted>>

\* Killed anywhere else.
Killed(p) ==
    /\ ~At(p, "idle") /\ Dies /\ Becomes(p, Idle)
    /\ UNCHANGED <<host, index, torn, what, events, side, merge, scan, ghosts>>
    /\ UNCHANGED <<jobs, files, decided>>

Review ==
    /\ "review" \in host
    /\ \E p \in Reviewers :
        \/ \E bs \in Jobs : Enqueue(p, bs) \/ StartRun(p, bs)
        \/ \E c \in Edges : Propose(p, c) \/ StartJudging(p, c)
        \/ \E c \in Edges, verdict \in Verdicts : StartDeciding(p, c, verdict)
        \/ /\ \/ RecordQueued(p) \/ RecordProposal(p) \/ Note(p) \/ Finish(p) \/ Killed(p)
              \/ \E c \in Edges : Apply(p, c)
              \/ \E verdicts \in [proc[p].cands -> Verdicts], b \in proc[p].beads,
                    claim \in {"none", "no_supported_links", "linked"} :
                       JudgeAnswers(p, verdicts, b, claim)
              \/ \E state \in {"pending_judge", "judge_failed"} : JudgeFails(p, state)
           /\ UNCHANGED starts

ReviewNext == (Next /\ UNCHANGED reviewVars) \/ Review
ReviewSpec == ReviewInit /\ [][ReviewNext]_allVars

-----------------------------------------------------------------------------
(* Properties                                                               *)

ReviewTypeOK ==
    /\ TypeOK
    /\ jobs \subseteq Jobs
    /\ latest \in [Beads -> States] /\ seen \subseteq Edges
    /\ ruled \in [Edges -> States] /\ noted \in [Edges -> States]
    /\ proc \in [Reviewers -> Work]
    /\ decided \in [Edges -> States]
    /\ starts \in 0..MaxStarts

\* A bead is recorded as linked, and a candidate as accepted by an operator,
\* only if an association of it was written: never on the judge's word alone,
\* and not if the bead was removed while the judge thought.
LinkedIsBacked ==
    /\ \A b \in Beads : latest[b] = "linked" => \E i \in Minted : b \in Ends(Edge(i))
    /\ \A c \in Edges : decided[c] = "linked" => \E i \in Minted : Edge(i) = c

\* What an operator decided on a candidate stands until another operator
\* decides: runs, judgements and proposals that began later do not change its
\* status.  (One that was under way when the operator decided may.)
OperatorStands == \A c \in Edges : decided[c] # "none" => Status(c) = decided[c]

-----------------------------------------------------------------------------
(* What does not hold                                                       *)

\* A candidate shown as linked has an association.  The decision to accept it
\* counts, though the write failed or was quarantined; and a judged candidate
\* is given the state of its source bead, which another candidate may have.
LinkedCandidateIsBacked ==
    \A c \in seen : Status(c) = "linked" => \E i \in Minted : Edge(i) = c

\* A candidate an operator rejected gets no association from the judge.
RejectedIsNotWritten ==
    [][\A c \in Edges : decided[c] = "no_supported_links" /\ decided' = decided =>
         \A i \in 1..Len(what') : what'[i].edge = c => i \in Minted]_allVars

\* A bead that is recorded as deferred has a run waiting for it.
DeferredIsQueued ==
    \A b \in Beads : latest[b] = "deferred" => \E job \in jobs : b \in job
=============================================================================
