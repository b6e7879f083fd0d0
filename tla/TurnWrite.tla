------------------------------- MODULE TurnWrite -------------------------------
(***************************************************************************)
(* One finalized turn's way into memory:                                   *)
(*   runtime/turn/ingress.py, runtime/state.py   accept it, one event      *)
(*   runtime/turn/turn_flow.py                   claim its memory pass     *)
(*   runtime/passes/enrichment.py                write its bead, queued    *)
(*   runtime/turn/receipt.py, semantic_state.py  say how it stands         *)
(*                                                                         *)
(* Any number of adapters may deliver a turn, the same one several times:  *)
(* hosts retry.  What an adapter does takes the store lock file by file,   *)
(* so each file access is an action of its own.  The queue between the     *)
(* turn and its bead is SideEffectQueue, used here through its promise     *)
(* (DurableWork): one pending item per key, run at least once, by one      *)
(* worker at a time.                                                       *)
(*                                                                         *)
(* A delivery is a turn id and a body, which stands for the whole envelope *)
(* and for the bead authored from it.  Beads with the same body are        *)
(* similar (bead_similarity >= 0.9), others are not.  The queued path is   *)
(* modelled, not the inline one of CORE_MEMORY_ENRICHMENT_QUEUE=off.       *)
(***************************************************************************)
EXTENDS Integers, Sequences, FiniteSets

CONSTANTS
    Adapters,     \* processes in process_turn_finalized
    Workers,      \* processes that drain the side-effect queue
    Turns,        \* turn ids
    Bodies,       \* what a turn may be delivered with
    NoBody,       \* no item, no hash
    SessionOf,    \* the session of each turn
    Deliveries,   \* the <<turn, body>> pairs hosts deliver
    Private,      \* bodies delivered with store_full_text off
    Outcomes,     \* what authoring may come to
    Legacy,       \* turns written before semantic-write state existed
    Mortal,       \* the processes that may be killed
    Window,       \* CORE_MEMORY_WRITE_DEDUP_WINDOW
    MaxEvents,    \* bound: envelopes made
    MaxFailures,  \* bound: exceptions
    MaxCrashes    \* bound: processes killed

ASSUME TurnsAssumption ==
    /\ NoBody \notin Bodies
    /\ DOMAIN SessionOf = Turns
    /\ Deliveries \subseteq Turns \X Bodies
    /\ Outcomes \subseteq {"authored", "missing", "invalid"}
    /\ Legacy \subseteq Turns /\ IsFiniteSet(Legacy)
ASSUME TurnBounds ==
    /\ Window \in Nat \ {0}
    /\ MaxEvents \in Nat /\ MaxFailures \in Nat /\ MaxCrashes \in Nat

VARIABLES
    pass,      \* memory-pass-state.json: status and envelope hash of each turn
    events,    \* memory-events.jsonl
    sem,       \* semantic-write-state.json: the status of each turn
    waivers,   \* semantic-flush-waivers.jsonl
    queue,     \* the body of each turn's pending enrichment item
    envelopes, \* turns with an enrichment envelope file
    beads,     \* beads in the order they were created
    call,      \* what each adapter is at
    job,       \* what each worker is at
    stamps,    \* envelopes made: their ts_ms
    worked,    \* history: items that left the queue
    answered,  \* history: turns answered accepted=true
    failures,  \* history: exceptions
    crashes    \* history: processes killed

files == <<pass, events, sem, waivers, queue, envelopes, beads>>
turnVars == <<pass, events, sem, waivers, queue, envelopes, beads, call, job,
              stamps, worked, answered, failures, crashes>>

\* The envelope hash of a body.  Emission hashes the envelope again: by then
\* its metadata names the hash it supersedes, or its text has been redacted.
Hash == [body: Bodies \cup {NoBody}, again: BOOLEAN]
Plain(b) == [body |-> b, again |-> FALSE]

Idle == [at |-> "idle"]
Call == [at: {"mark", "emit", "announce", "claim", "process", "author", "receipt", "answer"},
         turn: Turns, body: Bodies, supersedes: BOOLEAN, stamp: 0..MaxEvents,
         held: Hash, say: {"none", "pending", "repair_required", "committed", "waived"}]
Job == [at: {"associate", "persist", "ack"}, turn: Turns, body: Bodies, ok: BOOLEAN]
TurnBead(t, b) == [type |-> "turn", turn |-> t, body |-> b]

At(a, step) == call[a].at = step
Goto(a, step) == call' = [call EXCEPT ![a].at = step]

-----------------------------------------------------------------------------
(* maybe_emit_finalize_memory_event                                         *)

Begin(t, b, step, supersedes, stamp) ==
    [at |-> step, turn |-> t, body |-> b, supersedes |-> supersedes,
     stamp |-> stamp, held |-> Plain(NoBody), say |-> "none"]

\* The prior pass, read outside the lock, says this envelope was taken.
Known(t, b) == pass[t].hash = Plain(b) /\ pass[t].status \in {"done", "pending"}

\* "idempotent_done": straight to the receipt.
Replay(a, t, b) ==
    /\ At(a, "idle") /\ Known(t, b)
    /\ call' = [call EXCEPT ![a] = Begin(t, b, "receipt", FALSE, 0)]
    /\ UNCHANGED <<files, job, stamps, worked, answered, failures, crashes>>

\* A new envelope, which supersedes the one a finished pass was made from.
Accept(a, t, b) ==
    /\ At(a, "idle") /\ ~Known(t, b) /\ stamps < MaxEvents
    /\ stamps' = stamps + 1
    /\ call' = [call EXCEPT ![a] =
                  Begin(t, b, "mark", pass[t].status = "done", stamps + 1)]
    /\ UNCHANGED <<files, job, worked, answered, failures, crashes>>

MarkPending(a) ==
    /\ At(a, "mark")
    /\ pass' = [pass EXCEPT ![call[a].turn] =
                  [status |-> "pending", hash |-> Plain(call[a].body)]]
    /\ Goto(a, "emit")
    /\ UNCHANGED <<events, sem, waivers, queue, envelopes, beads, job, stamps,
                   worked, answered, failures, crashes>>

\* Mutant of Event: stamped when emitted, not when the envelope was made.
Mut_Event(a) == [turn |-> call[a].turn, body |-> call[a].body, stamp |-> stamps + 1]
Event(a) == [turn |-> call[a].turn, body |-> call[a].body, stamp |-> call[a].stamp]

\* Mutant of Emit: nothing is appended.
Mut_Emit(a) ==
    /\ At(a, "emit") /\ Goto(a, "announce")
    /\ UNCHANGED <<files, job, stamps, worked, answered, failures, crashes>>
\* emit_memory_event: the turn record and the event, in one hold of the lock.
Emit(a) ==
    /\ At(a, "emit")
    /\ events' = Append(events, Event(a))
    /\ Goto(a, "announce")
    /\ UNCHANGED <<pass, sem, waivers, queue, envelopes, beads, job, stamps,
                   worked, answered, failures, crashes>>

Announce(a) ==
    /\ At(a, "announce")
    /\ sem' = [sem EXCEPT ![call[a].turn] = "pending"]
    /\ Goto(a, "claim")
    /\ UNCHANGED <<pass, events, waivers, queue, envelopes, beads, job, stamps,
                   worked, answered, failures, crashes>>

-----------------------------------------------------------------------------
(* process_turn_finalized_impl                                              *)

\* try_claim_memory_pass.  A failed pass is due or not: 5 to 300 seconds.
Claim(a) ==
    LET t == call[a].turn
    IN  /\ At(a, "claim") /\ pass[t].status \in {"pending", "failed"}
        /\ pass' = [pass EXCEPT ![t].status = "running"]
        /\ call' = [call EXCEPT ![a].at = "process", ![a].held = pass[t].hash]
        /\ UNCHANGED <<events, sem, waivers, queue, envelopes, beads, job, stamps,
                       worked, answered, failures, crashes>>

NotClaimed(a) ==
    /\ At(a, "claim") /\ pass[call[a].turn].status # "pending"
    /\ Goto(a, "receipt")
    /\ UNCHANGED <<files, job, stamps, worked, answered, failures, crashes>>

\* process_memory_event marks the pass done, under the hash that was emitted.
Process(a) ==
    /\ At(a, "process")
    /\ pass' = [pass EXCEPT ![call[a].turn] =
          [status |-> "done",
           hash |-> [body |-> call[a].body,
                     again |-> call[a].supersedes \/ call[a].body \in Private]]]
    /\ Goto(a, "author")
    /\ UNCHANGED <<events, sem, waivers, queue, envelopes, beads, job, stamps,
                   worked, answered, failures, crashes>>

\* It raises, before that or after it (append_metric).
ProcessRaises(a) ==
    /\ At(a, "process") \/ At(a, "author")
    /\ failures < MaxFailures /\ failures' = failures + 1
    /\ pass' = [pass EXCEPT ![call[a].turn] =
                  [status |-> "failed", hash |-> call[a].held]]
    /\ Goto(a, "receipt")
    /\ UNCHANGED <<events, sem, waivers, queue, envelopes, beads, job, stamps,
                   worked, answered, crashes>>

\* enqueue_turn_enrichment: the key names the turn; one pending is a duplicate.
Enqueued(t, b) == [queue EXCEPT ![t] = IF @ = NoBody THEN b ELSE @]

\* The agent's updates pass the gate, are missing, or are invalid: gate_blocked.
Author(a, outcome) ==
    /\ At(a, "author") /\ outcome \in Outcomes
    /\ queue' = IF outcome = "authored"
                  THEN Enqueued(call[a].turn, call[a].body) ELSE queue
    /\ call' = [call EXCEPT ![a].at = "receipt",
                  ![a].say = CASE outcome = "missing" -> "pending"
                               [] outcome = "invalid" -> "repair_required"
                               [] OTHER -> "none"]
    /\ UNCHANGED <<pass, events, sem, waivers, envelopes, beads, job, stamps,
                   worked, answered, failures, crashes>>

\* find_canonical_turn_bead_id: some bead of the session names the turn.
HasBead(t) == \E i \in DOMAIN beads : beads[i].turn = t

\* Mutant of Standing: the mechanical pass is taken for the semantic write.
Mut_Standing(t, say) ==
    IF say # "none" THEN say
    ELSE IF pass[t].status = "done" THEN "committed" ELSE "pending"
\* Mutant of Standing: a pending state is answered before the bead is looked up.
Mut_StandingStale(t, say) ==
    IF say # "none" THEN say
    ELSE IF sem[t] = "pending" THEN "pending"
    ELSE IF HasBead(t) THEN "committed" ELSE "pending"
\* build_turn_finalized_receipt: how the turn stands, from unlocked reads.
Standing(t, say) ==
    IF say # "none" THEN say
    ELSE IF HasBead(t) THEN "committed"
    ELSE IF sem[t] = "waived" /\ t \in waivers THEN "waived"
    ELSE IF sem[t] = "repair_required" THEN sem[t]
    ELSE "pending"

ReadStanding(a) ==
    /\ At(a, "receipt")
    /\ call' = [call EXCEPT ![a].at = "answer",
                            ![a].say = Standing(call[a].turn, @)]
    /\ UNCHANGED <<files, job, stamps, worked, answered, failures, crashes>>

\* The receipt is recorded and returned.  accepted=true always: there is an
\* event id, or the reason is idempotent_done.
Answer(a) ==
    /\ At(a, "answer")
    /\ sem' = [sem EXCEPT ![call[a].turn] = call[a].say]
    /\ answered' = answered \cup {call[a].turn}
    /\ call' = [call EXCEPT ![a] = Idle]
    /\ UNCHANGED <<pass, events, waivers, queue, envelopes, beads, job, stamps,
                   worked, failures, crashes>>

AdapterCrash(a) ==
    /\ ~At(a, "idle") /\ a \in Mortal /\ crashes < MaxCrashes
    /\ crashes' = crashes + 1
    /\ call' = [call EXCEPT ![a] = Idle]
    /\ UNCHANGED <<files, job, stamps, worked, answered, failures>>

-----------------------------------------------------------------------------
(* run_turn_enrichment, from the side-effect queue                          *)

Leased(t) == \E w \in Workers : job[w] # Idle /\ job[w].turn = t

\* The idempotency gate: an envelope file ends the run at once, ok.
Start(w, t) ==
    /\ job[w] = Idle /\ queue[t] # NoBody /\ ~Leased(t)
    /\ job' = [job EXCEPT ![w] =
          [at |-> IF t \in envelopes THEN "ack" ELSE "associate",
           turn |-> t, body |-> queue[t], ok |-> TRUE]]
    /\ UNCHANGED <<files, call, stamps, worked, answered, failures, crashes>>

\* The newest Window beads of a turn's session.
Recent(t) ==
    LET InSession(i) == SessionOf[beads[i].turn] = SessionOf[t]
    IN  {i \in DOMAIN beads :
           /\ InSession(i)
           /\ Cardinality({j \in DOMAIN beads : j > i /\ InSession(j)}) < Window}

\* find_recent_duplicate_bead_id: of that type, of the turn or of similar text.
Duplicates(t, b) ==
    {i \in Recent(t) : /\ beads[i].type = "turn"
                       /\ beads[i].turn = t \/ beads[i].body = b}

\* Mutant of AddTurnBead: the duplicate is found, and the bead added anyway.
Mut_AddTurnBead(t, b) == beads' = Append(beads, TurnBead(t, b))
\* add_bead: a duplicate is answered with the id of the bead it repeats.
AddTurnBead(t, b) ==
    beads' = IF Duplicates(t, b) # {} THEN beads ELSE Append(beads, TurnBead(t, b))

\* The stages: the association pass creates the bead ...
Associate(w) ==
    /\ job[w] # Idle /\ job[w].at = "associate"
    /\ AddTurnBead(job[w].turn, job[w].body)
    /\ job' = [job EXCEPT ![w].at = "persist"]
    /\ UNCHANGED <<pass, events, sem, waivers, queue, envelopes, call, stamps,
                   worked, answered, failures, crashes>>

\* ... or it, or a later stage, fails; the others run all the same.
StageFails(w) ==
    /\ job[w] # Idle /\ job[w].at = "associate"
    /\ failures < MaxFailures /\ failures' = failures + 1
    /\ UNCHANGED beads \/ AddTurnBead(job[w].turn, job[w].body)
    /\ job' = [job EXCEPT ![w].at = "persist", ![w].ok = FALSE]
    /\ UNCHANGED <<pass, events, sem, waivers, queue, envelopes, call, stamps,
                   worked, answered, crashes>>

\* The envelope file is written whatever the stages came to.
Persist(w) ==
    /\ job[w] # Idle /\ job[w].at = "persist"
    /\ envelopes' = envelopes \cup {job[w].turn}
    /\ job' = [job EXCEPT ![w].at = "ack"]
    /\ UNCHANGED <<pass, events, sem, waivers, queue, beads, call, stamps,
                   worked, answered, failures, crashes>>

\* Settling the item: done, or kept for a retry.
Ack(w) ==
    LET t == job[w].turn
    IN  /\ job[w] # Idle /\ job[w].at = "ack"
        /\ IF job[w].ok
             THEN /\ queue' = [queue EXCEPT ![t] = NoBody]
                  /\ worked' = worked \cup {<<t, job[w].body>>}
             ELSE UNCHANGED <<queue, worked>>
        /\ job' = [job EXCEPT ![w] = Idle]
        /\ UNCHANGED <<pass, events, sem, waivers, envelopes, beads, call, stamps,
                       answered, failures, crashes>>

WorkerCrash(w) ==
    /\ job[w] # Idle /\ w \in Mortal /\ crashes < MaxCrashes
    /\ crashes' = crashes + 1
    /\ job' = [job EXCEPT ![w] = Idle]
    /\ UNCHANGED <<files, call, stamps, worked, answered, failures>>

-----------------------------------------------------------------------------
Init ==
    /\ pass = [t \in Turns |-> [status |-> IF t \in Legacy THEN "done" ELSE "none",
                                hash |-> Plain(NoBody)]]
    /\ sem = [t \in Turns |-> "none"]
    /\ waivers = {} /\ envelopes = {}
    /\ queue = [t \in Turns |-> NoBody]
    /\ LET old == CHOOSE s \in [1..Cardinality(Legacy) -> Legacy] :
                    \A i, j \in DOMAIN s : s[i] = s[j] => i = j
       IN  /\ events = [i \in DOMAIN old |->
                          [turn |-> old[i], body |-> NoBody, stamp |-> 0]]
           /\ beads = [i \in DOMAIN old |-> TurnBead(old[i], NoBody)]
    /\ call = [a \in Adapters |-> Idle]
    /\ job = [w \in Workers |-> Idle]
    /\ stamps = 0 /\ failures = 0 /\ crashes = 0
    /\ worked = {} /\ answered = {}

Deliver(a) == \E d \in Deliveries : Replay(a, d[1], d[2]) \/ Accept(a, d[1], d[2])
Continue(a) ==
    \/ MarkPending(a) \/ Emit(a) \/ Announce(a) \/ Claim(a) \/ NotClaimed(a)
    \/ Process(a) \/ (\E outcome \in Outcomes : Author(a, outcome))
    \/ ReadStanding(a) \/ Answer(a)
Work(w) ==
    (\E t \in Turns : Start(w, t)) \/ Associate(w) \/ Persist(w) \/ Ack(w)

TurnNext ==
    \/ \E a \in Adapters :
         Deliver(a) \/ Continue(a) \/ ProcessRaises(a) \/ AdapterCrash(a)
    \/ \E w \in Workers : Work(w) \/ StageFails(w) \/ WorkerCrash(w)

Spec == Init /\ [][TurnNext]_turnVars

\* Hosts retry every turn answered retryable, calls return, and the queue is
\* drained after every turn and by the async job runner.
Fairness ==
    /\ \A a \in Adapters : WF_turnVars(Continue(a))
    /\ \A d \in Deliveries :
         SF_turnVars(\E a \in Adapters : Replay(a, d[1], d[2]) \/ Accept(a, d[1], d[2]))
    /\ \A w \in Workers : WF_turnVars(Work(w))

FairSpec == Spec /\ Fairness

-----------------------------------------------------------------------------
(* Properties                                                               *)

EventOf(t) == \E i \in DOMAIN events : events[i].turn = t

TypeOK ==
    /\ pass \in [Turns -> [status: {"none", "pending", "running", "done", "failed"},
                           hash: Hash]]
    /\ events \in Seq([turn: Turns, body: Bodies \cup {NoBody}, stamp: 0..MaxEvents])
    /\ sem \in [Turns -> {"none", "pending", "repair_required", "committed", "waived"}]
    /\ waivers \subseteq Turns /\ envelopes \subseteq Turns /\ answered \subseteq Turns
    /\ queue \in [Turns -> Bodies \cup {NoBody}]
    /\ beads \in Seq([type: {"turn", "process_flush"}, turn: Turns,
                      body: Bodies \cup {NoBody}])
    /\ call \in [Adapters -> {Idle} \cup Call]
    /\ job \in [Workers -> {Idle} \cup Job]
    /\ stamps \in 0..MaxEvents /\ failures \in 0..MaxFailures /\ crashes \in 0..MaxCrashes
    /\ worked \subseteq Turns \X Bodies

\* "Mark committed only when canonical current-turn bead lookup succeeds": no
\* stale receipt, replay or crash ever records a commit without a bead.
CommittedHasBead == \A t \in Turns : sem[t] = "committed" => HasBead(t)

\* Never forget: a bead is only ever made of a delivery whose event is on
\* record, so the raw turn outlives whatever happens to its bead.
BeadHasEvent ==
    \A i \in DOMAIN beads :
      beads[i].type = "turn" =>
        \E j \in DOMAIN events :
          events[j].turn = beads[i].turn /\ events[j].body = beads[i].body

\* "Queue replay is idempotent and produces at most one current-turn bead",
\* whatever is retried, redelivered with another body, or run again after a
\* crash (add_bead's duplicate check, while the first bead is in its window).
OneBeadPerTurn ==
    \A i, j \in DOMAIN beads :
      beads[i].type = "turn" /\ beads[j].type = "turn" /\ beads[i].turn = beads[j].turn
        => i = j

\* An accepted turn whose host retries is committed in the end, by whichever
\* adapter and worker, if nothing raises and no adapter is killed half-way.
RetriedTurnsCommit == \A t \in Turns : EventOf(t) ~> sem[t] = "committed"

\* accepted=true "means the finalized turn was durably accepted".
AcceptedIsRecorded == \A t \in answered : EventOf(t)

\* "Exactly one memory event per finalized top-level user turn."
OneEventPerDelivery ==
    \A i, j \in DOMAIN events :
      events[i].turn = events[j].turn /\ events[i].body = events[j].body => i = j

\* "This prevents concurrent direct processing of the same pass."
OnePassAtATime ==
    \A a, b \in Adapters :
      At(a, "process") /\ At(b, "process") /\ call[a].turn = call[b].turn => a = b

\* "When the canonical bead has not committed, ... the durable queue item is
\* retryable": an item leaves the queue only when its turn has a bead.
WorkedOffHasBead == \A d \in worked : HasBead(d[1])
=============================================================================
