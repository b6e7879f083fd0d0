-------------------------- MODULE SessionFlushProofs --------------------------
(***************************************************************************)
(* Proofs about a session: TurnWrite, and SessionFlush, which extends it.  *)
(*                                                                         *)
(* Of TurnWrite: the types, that a commit has its bead, that a bead has    *)
(* its event, and that a turn has one bead while the duplicate window      *)
(* holds as many beads as there are turns.  These lemmas are about         *)
(* TurnNext, not about Spec: they hold with waivers on file too, and serve *)
(* the processes that SessionFlush adds.                                   *)
(*                                                                         *)
(* Of SessionFlush: the types, that every waived turn has its audit        *)
(* record, and the semantic barrier.                                       *)
(***************************************************************************)
EXTENDS SessionFlush, FiniteSetTheorems, WellFoundedInduction, TLAPS

(***************************************************************************)
(* The turn write path                                                     *)
(***************************************************************************)

EventFor(t, b) == \E j \in DOMAIN events : events[j].turn = t /\ events[j].body = b

\* What is on its way to a bead has its event on record.
CallHasEvent ==
    \A a \in Adapters :
      call[a].at \in {"announce", "claim", "process", "author"} =>
        EventFor(call[a].turn, call[a].body)
QueueHasEvent == \A t \in Turns : queue[t] # NoBody => EventFor(t, queue[t])
JobHasEvent == \A w \in Workers : job[w] # Idle => EventFor(job[w].turn, job[w].body)
Recorded == BeadHasEvent /\ CallHasEvent /\ QueueHasEvent /\ JobHasEvent

\* What an adapter is about to say of a turn is still true of it.
SayHolds ==
    \A a \in Adapters :
      call[a] # Idle =>
        /\ call[a].say = "committed" => HasBead(call[a].turn)
        /\ call[a].say = "waived" => call[a].turn \in waivers
\* No turn stands as waived without an audit record.
WaivedOnFile == \A t \in Turns : sem[t] = "waived" => t \in waivers
Truthful == CommittedHasBead /\ WaivedOnFile /\ SayHolds

-----------------------------------------------------------------------------
(* Types                                                                    *)

Says == {"none", "pending", "repair_required", "committed", "waived"}
CallSteps == {"mark", "emit", "announce", "claim", "process", "author", "receipt", "answer"}
CallsOK == call \in [Adapters -> {Idle} \cup Call]

\* An adapter that is at a step is in a call.
LEMMA InCall ==
    ASSUME CallsOK, NEW a \in Adapters, ~At(a, "idle")
    PROVE  call[a] \in Call /\ call[a] # Idle
<1>1. call[a] # Idle
  BY DEF At, Idle
<1> QED BY <1>1 DEF CallsOK

LEMMA StepType ==
    ASSUME NEW c \in Call, NEW step \in CallSteps
    PROVE  [c EXCEPT !.at = step] \in Call
BY DEF Call, CallSteps

LEMMA SayType ==
    ASSUME NEW c \in Call, NEW step \in CallSteps, NEW say \in Says
    PROVE  [c EXCEPT !.at = step, !.say = say] \in Call
BY DEF Call, CallSteps, Says

LEMMA HeldType ==
    ASSUME NEW c \in Call, NEW step \in CallSteps, NEW held \in Hash
    PROVE  [c EXCEPT !.at = step, !.held = held] \in Call
BY DEF Call, CallSteps

LEMMA BeginType ==
    ASSUME NEW t \in Turns, NEW b \in Bodies, NEW step \in CallSteps,
           NEW supersedes \in BOOLEAN, NEW stamp \in 0..MaxEvents
    PROVE  Begin(t, b, step, supersedes, stamp) \in Call
BY DEF Begin, Call, CallSteps, Hash, Plain

LEMMA GotoType ==
    ASSUME CallsOK, NEW a \in Adapters, ~At(a, "idle"), NEW step \in CallSteps,
           Goto(a, step)
    PROVE  CallsOK'
<1>1. call[a] \in Call
  BY InCall
<1>2. [call[a] EXCEPT !.at = step] \in Call
  BY <1>1, StepType
<1> QED BY <1>2 DEF CallsOK, Goto

\* The next state has the types if each variable does.
PassOK == pass \in [Turns -> [status: {"none", "pending", "running", "done", "failed"},
                              hash: Hash]]
EventsOK == events \in Seq([turn: Turns, body: Bodies \cup {NoBody}, stamp: 0..MaxEvents])
SemOK == sem \in [Turns -> Says]
QueueOK == queue \in [Turns -> Bodies \cup {NoBody}]
BeadsOK == beads \in Seq([type: {"turn", "process_flush"}, turn: Turns,
                          body: Bodies \cup {NoBody}])
JobsOK == job \in [Workers -> {Idle} \cup Job]
SetsOK == /\ waivers \subseteq Turns /\ envelopes \subseteq Turns
          /\ answered \subseteq Turns /\ worked \subseteq Turns \X Bodies
CountsOK == stamps \in 0..MaxEvents /\ failures \in 0..MaxFailures /\ crashes \in 0..MaxCrashes

LEMMA TypeParts ==
    /\ TypeOK <=> /\ PassOK /\ EventsOK /\ SemOK /\ QueueOK /\ BeadsOK
                  /\ CallsOK /\ JobsOK /\ SetsOK /\ CountsOK
    /\ TypeOK' <=> /\ PassOK' /\ EventsOK' /\ SemOK' /\ QueueOK' /\ BeadsOK'
                   /\ CallsOK' /\ JobsOK' /\ SetsOK' /\ CountsOK'
BY DEF TypeOK, PassOK, EventsOK, SemOK, QueueOK, BeadsOK, CallsOK, JobsOK, SetsOK,
       CountsOK, Says

\* The steps of maybe_emit_finalize_memory_event.
LEMMA IngressType ==
    ASSUME TypeOK, NEW a \in Adapters,
           Deliver(a) \/ MarkPending(a) \/ Emit(a) \/ Announce(a)
    PROVE  TypeOK'
<1> USE TypeParts
<1>1. \A d \in Deliveries : d[1] \in Turns /\ d[2] \in Bodies
  BY TurnsAssumption
<1>2. ASSUME NEW d \in Deliveries, Replay(a, d[1], d[2]) PROVE TypeOK'
  <2>1. Begin(d[1], d[2], "receipt", FALSE, 0) \in Call
    BY <1>1, TurnBounds DEF Begin, Call, Hash, Plain
  <2>2. CallsOK'
    BY <1>2, <2>1 DEF Replay, CallsOK
  <2> QED BY <1>2, <2>2 DEF Replay, files, PassOK, EventsOK, SemOK, QueueOK, BeadsOK,
                            JobsOK, SetsOK, CountsOK
<1>3. ASSUME NEW d \in Deliveries, Accept(a, d[1], d[2]) PROVE TypeOK'
  <2>1. stamps + 1 \in 0..MaxEvents
    BY <1>3, TurnBounds DEF Accept, CountsOK
  <2>2. (pass[d[1]].status = "done") \in BOOLEAN
    OBVIOUS
  <2>3. Begin(d[1], d[2], "mark", pass[d[1]].status = "done", stamps + 1) \in Call
    BY <1>1, <2>1, <2>2, BeginType DEF CallSteps
  <2>4. CallsOK'
    BY <1>3, <2>3 DEF Accept, CallsOK
  <2> QED BY <1>3, <2>1, <2>4 DEF Accept, files, PassOK, EventsOK, SemOK, QueueOK,
                                  BeadsOK, JobsOK, SetsOK, CountsOK
<1>4. CASE MarkPending(a)
  <2>1. call[a] \in Call
    BY <1>4, InCall DEF MarkPending, At
  <2>2. CallsOK'
    BY <1>4, GotoType DEF MarkPending, At, CallSteps
  <2>3. PassOK'
    BY <1>4, <2>1 DEF MarkPending, PassOK, Call, Plain, Hash
  <2> QED BY <1>4, <2>2, <2>3 DEF MarkPending, EventsOK, SemOK, QueueOK, BeadsOK,
                                  JobsOK, SetsOK, CountsOK
<1>5. CASE Emit(a)
  <2>1. call[a] \in Call
    BY <1>5, InCall DEF Emit, At
  <2>2. CallsOK'
    BY <1>5, GotoType DEF Emit, At, CallSteps
  <2>3. Event(a) \in [turn: Turns, body: Bodies \cup {NoBody}, stamp: 0..MaxEvents]
    BY <2>1 DEF Event, Call
  <2>4. EventsOK'
    BY <1>5, <2>3 DEF Emit, EventsOK
  <2> QED BY <1>5, <2>2, <2>4 DEF Emit, PassOK, SemOK, QueueOK, BeadsOK,
                                  JobsOK, SetsOK, CountsOK
<1>6. CASE Announce(a)
  <2>1. CallsOK'
    BY <1>6, GotoType DEF Announce, At, CallSteps
  <2>2. SemOK'
    BY <1>6 DEF Announce, SemOK, Says
  <2> QED BY <1>6, <2>1, <2>2 DEF Announce, PassOK, EventsOK, QueueOK, BeadsOK,
                                  JobsOK, SetsOK, CountsOK
<1> QED BY <1>2, <1>3, <1>4, <1>5, <1>6 DEF Deliver

\* The steps of process_turn_finalized_impl and of the receipt.
LEMMA CallType ==
    ASSUME TypeOK, NEW a \in Adapters,
           \/ Claim(a) \/ NotClaimed(a) \/ Process(a) \/ ProcessRaises(a)
           \/ (\E outcome \in Outcomes : Author(a, outcome)) \/ ReadStanding(a)
           \/ Answer(a) \/ AdapterCrash(a)
    PROVE  TypeOK'
<1> USE TypeParts
<1> USE DEF files
<1>1. CASE Claim(a)
  <2>1. call[a] \in Call
    BY <1>1, InCall DEF Claim, At
  <2> DEFINE t == call[a].turn
  <2>2. t \in Turns /\ pass[t].hash \in Hash
    BY <2>1 DEF Call, PassOK
  <2>3. [call[a] EXCEPT !.at = "process", !.held = pass[t].hash] \in Call
    BY <2>1, <2>2, HeldType DEF CallSteps
  <2>4. CallsOK'
    BY <1>1, <2>3 DEF Claim, CallsOK
  <2>5. PassOK'
    BY <1>1, <2>2 DEF Claim, PassOK
  <2> QED BY <1>1, <2>4, <2>5 DEF Claim, EventsOK, SemOK, QueueOK, BeadsOK, JobsOK,
                                  SetsOK, CountsOK
<1>2. CASE NotClaimed(a)
  <2>1. CallsOK'
    BY <1>2, GotoType DEF NotClaimed, At, CallSteps
  <2> QED BY <1>2, <2>1 DEF NotClaimed, PassOK, EventsOK, SemOK, QueueOK, BeadsOK,
                            JobsOK, SetsOK, CountsOK
<1>3. CASE Process(a)
  <2>1. call[a] \in Call
    BY <1>3, InCall DEF Process, At
  <2>2. CallsOK'
    BY <1>3, GotoType DEF Process, At, CallSteps
  <2> DEFINE again == call[a].supersedes \/ call[a].body \in Private
  <2>3. [body |-> call[a].body, again |-> again] \in Hash
    <3>1. again \in BOOLEAN
      BY <2>1 DEF Call
    <3> QED BY <2>1, <3>1 DEF Hash, Call
  <2>4. PassOK'
    BY <1>3, <2>1, <2>3 DEF Process, PassOK, Call
  <2> QED BY <1>3, <2>2, <2>4 DEF Process, EventsOK, SemOK, QueueOK, BeadsOK, JobsOK,
                                  SetsOK, CountsOK
<1>4. CASE ProcessRaises(a)
  <2>1. call[a] \in Call
    BY <1>4, InCall DEF ProcessRaises, At
  <2>2. CallsOK'
    BY <1>4, GotoType DEF ProcessRaises, At, CallSteps
  <2>3. PassOK'
    BY <1>4, <2>1 DEF ProcessRaises, PassOK, Call
  <2>4. CountsOK'
    BY <1>4, TurnBounds DEF ProcessRaises, CountsOK
  <2> QED BY <1>4, <2>2, <2>3, <2>4 DEF ProcessRaises, EventsOK, SemOK, QueueOK,
                                        BeadsOK, JobsOK, SetsOK
<1>5. ASSUME NEW outcome \in Outcomes, Author(a, outcome) PROVE TypeOK'
  <2>1. call[a] \in Call
    BY <1>5, InCall DEF Author, At
  <2> DEFINE say == CASE outcome = "missing" -> "pending"
                      [] outcome = "invalid" -> "repair_required"
                      [] OTHER -> "none"
  <2>2. [call[a] EXCEPT !.at = "receipt", !.say = say] \in Call
    <3>1. say \in Says
      BY DEF Says
    <3> HIDE DEF say
    <3> QED BY <2>1, <3>1, SayType DEF CallSteps
  <2>3. CallsOK'
    BY <1>5, <2>2 DEF Author, CallsOK
  <2>4. QueueOK'
    BY <1>5, <2>1 DEF Author, Enqueued, QueueOK, Call
  <2> QED BY <1>5, <2>3, <2>4 DEF Author, PassOK, EventsOK, SemOK, BeadsOK, JobsOK,
                                  SetsOK, CountsOK
<1>6. CASE ReadStanding(a)
  <2>1. call[a] \in Call
    BY <1>6, InCall DEF ReadStanding, At
  <2> DEFINE say == Standing(call[a].turn, call[a].say)
  <2>2. [call[a] EXCEPT !.at = "answer", !.say = say] \in Call
    <3>1. say \in Says
      BY <2>1 DEF Standing, Says, Call
    <3> HIDE DEF say
    <3> QED BY <2>1, <3>1, SayType DEF CallSteps
  <2>3. CallsOK'
    BY <1>6, <2>2 DEF ReadStanding, CallsOK
  <2> QED BY <1>6, <2>3 DEF ReadStanding, PassOK, EventsOK, SemOK, QueueOK, BeadsOK,
                            JobsOK, SetsOK, CountsOK
<1>7. CASE Answer(a)
  <2>1. call[a] \in Call
    BY <1>7, InCall DEF Answer, At
  <2>2. CallsOK'
    BY <1>7 DEF Answer, CallsOK
  <2>3. SemOK' /\ SetsOK'
    BY <1>7, <2>1 DEF Answer, SemOK, SetsOK, Call, Says
  <2> QED BY <1>7, <2>2, <2>3 DEF Answer, PassOK, EventsOK, QueueOK, BeadsOK, JobsOK,
                                  CountsOK
<1>8. CASE AdapterCrash(a)
  <2>1. CallsOK'
    BY <1>8 DEF AdapterCrash, CallsOK
  <2>2. CountsOK'
    BY <1>8, TurnBounds DEF AdapterCrash, CountsOK
  <2> QED BY <1>8, <2>1, <2>2 DEF AdapterCrash, PassOK, EventsOK, SemOK, QueueOK,
                                  BeadsOK, JobsOK, SetsOK
<1> QED BY <1>1, <1>2, <1>3, <1>4, <1>5, <1>6, <1>7, <1>8

\* The steps of run_turn_enrichment.
LEMMA WorkType ==
    ASSUME TypeOK, NEW w \in Workers, Work(w) \/ StageFails(w) \/ WorkerCrash(w)
    PROVE  TypeOK'
<1> USE TypeParts
<1> USE DEF files
<1>1. ASSUME job[w] # Idle PROVE job[w] \in Job
  BY <1>1 DEF JobsOK
<1>2. ASSUME job[w] \in Job, AddTurnBead(job[w].turn, job[w].body) PROVE BeadsOK'
  <2> DEFINE Bead == [type: {"turn", "process_flush"}, turn: Turns, body: Bodies \cup {NoBody}]
             bead == TurnBead(job[w].turn, job[w].body)
  <2>1. bead \in Bead
    BY <1>2 DEF TurnBead, Job
  <2>2. beads' = beads \/ beads' = Append(beads, bead)
    BY <1>2, ZenonT(30) DEF AddTurnBead
  <2>3. beads \in Seq(Bead)
    BY DEF BeadsOK
  <2> HIDE DEF bead, Bead
  <2>4. beads' \in Seq(Bead)
    BY <2>1, <2>2, <2>3
  <2> QED BY <2>4 DEF BeadsOK, Bead
<1>3. ASSUME job[w] \in Job, NEW step \in {"persist", "ack"}
      PROVE  [job[w] EXCEPT !.at = step] \in Job
  BY <1>3 DEF Job
<1>4. ASSUME NEW t \in Turns, Start(w, t) PROVE TypeOK'
  <2>1. JobsOK'
    BY <1>4 DEF Start, JobsOK, QueueOK, Job
  <2> QED BY <1>4, <2>1 DEF Start, PassOK, EventsOK, SemOK, QueueOK, BeadsOK, CallsOK,
                            SetsOK, CountsOK
<1>5. CASE Associate(w)
  <2>1. JobsOK' /\ BeadsOK'
    BY <1>1, <1>2, <1>3, <1>5 DEF Associate, JobsOK
  <2> QED BY <1>5, <2>1 DEF Associate, PassOK, EventsOK, SemOK, QueueOK, CallsOK,
                            SetsOK, CountsOK
<1>6. CASE StageFails(w)
  <2>1. [job[w] EXCEPT !.at = "persist", !.ok = FALSE] \in Job
    BY <1>1, <1>6 DEF StageFails, Job
  <2>2. JobsOK'
    BY <1>6, <2>1 DEF StageFails, JobsOK
  <2>3. BeadsOK'
    BY <1>1, <1>2, <1>6 DEF StageFails, BeadsOK
  <2>4. CountsOK'
    BY <1>6, TurnBounds DEF StageFails, CountsOK
  <2> QED BY <1>6, <2>2, <2>3, <2>4 DEF StageFails, PassOK, EventsOK, SemOK, QueueOK,
                                        CallsOK, SetsOK
<1>7. CASE Persist(w)
  <2>1. JobsOK' /\ SetsOK'
    BY <1>1, <1>3, <1>7 DEF Persist, JobsOK, SetsOK, Job
  <2> QED BY <1>7, <2>1 DEF Persist, PassOK, EventsOK, SemOK, QueueOK, BeadsOK, CallsOK,
                            CountsOK
<1>8. CASE Ack(w)
  <2>1. JobsOK'
    BY <1>8 DEF Ack, JobsOK
  <2>2. QueueOK' /\ SetsOK'
    BY <1>1, <1>8 DEF Ack, QueueOK, SetsOK, Job
  <2> QED BY <1>8, <2>1, <2>2 DEF Ack, PassOK, EventsOK, SemOK, BeadsOK, CallsOK,
                                  CountsOK
<1>9. CASE WorkerCrash(w)
  <2>1. JobsOK' /\ CountsOK'
    BY <1>9, TurnBounds DEF WorkerCrash, JobsOK, CountsOK
  <2> QED BY <1>9, <2>1 DEF WorkerCrash, PassOK, EventsOK, SemOK, QueueOK, BeadsOK,
                            CallsOK, SetsOK
<1> QED BY <1>4, <1>5, <1>6, <1>7, <1>8, <1>9 DEF Work

LEMMA NextType == TypeOK /\ [TurnNext]_turnVars => TypeOK'
<1> SUFFICES ASSUME TypeOK, [TurnNext]_turnVars PROVE TypeOK'
  OBVIOUS
<1>1. ASSUME NEW a \in Adapters,
             Deliver(a) \/ Continue(a) \/ ProcessRaises(a) \/ AdapterCrash(a)
      PROVE  TypeOK'
  BY <1>1, IngressType, CallType DEF Continue
<1>2. ASSUME NEW w \in Workers, Work(w) \/ StageFails(w) \/ WorkerCrash(w)
      PROVE  TypeOK'
  BY <1>2, WorkType
<1>3. CASE UNCHANGED turnVars
  BY <1>3, TypeParts DEF turnVars, PassOK, EventsOK, SemOK, QueueOK, BeadsOK, CallsOK,
                         JobsOK, SetsOK, CountsOK
<1> QED BY <1>1, <1>2, <1>3 DEF TurnNext

\* The turns of before: some order of them, none twice.
LEMMA InitOld ==
    ASSUME Init
    PROVE  \E n \in Nat : \E old \in [1..n -> Legacy] :
             /\ \A i, j \in 1..n : old[i] = old[j] => i = j
             /\ events = [i \in 1..n |-> [turn |-> old[i], body |-> NoBody, stamp |-> 0]]
             /\ beads = [i \in 1..n |-> TurnBead(old[i], NoBody)]
<1> DEFINE n == Cardinality(Legacy)
           Orders == [1..n -> Legacy]
           Once(s) == \A i, j \in DOMAIN s : s[i] = s[j] => i = j
           old == CHOOSE s \in Orders : Once(s)
<1>1. n \in Nat /\ ExistsBijection(1..n, Legacy)
  BY TurnsAssumption, FS_CardinalityType
<1>2. \E s \in Orders : Once(s)
  <2>1. PICK s \in Bijection(1..n, Legacy) : TRUE
    BY <1>1 DEF ExistsBijection
  <2>2. s \in Orders /\ Once(s)
    BY <2>1 DEF Bijection, Injection, Surjection, IsInjective
  <2> QED BY <2>2
<1>3. old \in Orders /\ Once(old)
  BY <1>2
<1>4. /\ events = [i \in DOMAIN old |-> [turn |-> old[i], body |-> NoBody, stamp |-> 0]]
      /\ beads = [i \in DOMAIN old |-> TurnBead(old[i], NoBody)]
  BY DEF Init
<1> HIDE DEF n, old
<1>5. DOMAIN old = 1..n
  BY <1>3
<1> QED BY <1>1, <1>3, <1>4, <1>5

LEMMA InitType == Init => TypeOK
<1> SUFFICES ASSUME Init PROVE TypeOK
  OBVIOUS
<1>0. PICK n \in Nat : \E old \in [1..n -> Legacy] :
        /\ events = [i \in 1..n |-> [turn |-> old[i], body |-> NoBody, stamp |-> 0]]
        /\ beads = [i \in 1..n |-> TurnBead(old[i], NoBody)]
  BY InitOld
<1>1. PICK old \in [1..n -> Legacy] :
        /\ events = [i \in 1..n |-> [turn |-> old[i], body |-> NoBody, stamp |-> 0]]
        /\ beads = [i \in 1..n |-> TurnBead(old[i], NoBody)]
  BY <1>0
<1>2. EventsOK
  <2> DEFINE Events == [turn: Turns, body: Bodies \cup {NoBody}, stamp: 0..MaxEvents]
             first(i) == [turn |-> old[i], body |-> NoBody, stamp |-> 0]
  <2>1. \A i \in 1..n : first(i) \in Events
    BY TurnsAssumption, TurnBounds
  <2>2. events = [i \in 1..n |-> first(i)]
    BY <1>1
  <2> HIDE DEF Events, first
  <2>3. events \in Seq(Events)
    BY <2>1, <2>2
  <2> QED BY <2>3 DEF EventsOK, Events
<1>3. BeadsOK
  <2>1. \A i \in 1..n : TurnBead(old[i], NoBody)
                 \in [type: {"turn", "process_flush"}, turn: Turns, body: Bodies \cup {NoBody}]
    BY TurnsAssumption DEF TurnBead
  <2> QED BY <1>1, <2>1 DEF BeadsOK
<1>4. PassOK
  BY DEF Init, PassOK, Plain, Hash
<1>5. SemOK /\ QueueOK /\ CallsOK /\ JobsOK /\ SetsOK /\ CountsOK
  BY TurnBounds DEF Init, SemOK, Says, QueueOK, CallsOK, JobsOK, SetsOK, CountsOK
<1> QED BY <1>2, <1>3, <1>4, <1>5, TypeParts

\* Every variable of the turn path keeps its type: deliveries, passes, jobs and
\* receipts, for any adapters, workers, turns and bodies.
THEOREM TurnTypeCorrect == Spec => []TypeOK
<1>1. Init => TypeOK
  BY InitType
<1>2. TypeOK /\ [TurnNext]_turnVars => TypeOK'
  BY NextType
<1> QED BY <1>1, <1>2, PTL DEF Spec

-----------------------------------------------------------------------------
(* Events, beads and waivers are only ever added                            *)

LEMMA EventsGrow ==
    ASSUME TypeOK, [TurnNext]_turnVars, NEW t, NEW b, EventFor(t, b)
    PROVE  EventFor(t, b)'
<1>1. \/ events' = events
      \/ \E a \in Adapters : events' = Append(events, Event(a))
  BY ZenonT(60) DEF TurnNext, turnVars, files, Deliver, Continue, Work, Replay, Accept,
     MarkPending, Emit, Announce, Claim, NotClaimed, Process, ProcessRaises, Author,
     ReadStanding, Answer, AdapterCrash, Start, Associate, StageFails, Persist, Ack,
     WorkerCrash
<1>2. CASE events' = events
  BY <1>2 DEF EventFor
<1>3. ASSUME NEW a \in Adapters, events' = Append(events, Event(a))
      PROVE  EventFor(t, b)'
  <2>1. PICK j \in DOMAIN events : events[j].turn = t /\ events[j].body = b
    BY DEF EventFor
  <2>2. j \in DOMAIN events' /\ events'[j] = events[j]
    BY <1>3, <2>1 DEF TypeOK
  <2> QED BY <2>1, <2>2 DEF EventFor
<1> QED BY <1>1, <1>2, <1>3

\* A step leaves the beads alone, or adds that of a job.
LEMMA BeadSteps ==
    ASSUME TypeOK, [TurnNext]_turnVars
    PROVE  \/ beads' = beads
           \/ \E w \in Workers :
                /\ job[w] # Idle
                /\ Duplicates(job[w].turn, job[w].body) = {}
                /\ beads' = Append(beads, TurnBead(job[w].turn, job[w].body))
BY ZenonT(60) DEF TurnNext, turnVars, files, Deliver, Continue, Work, Replay, Accept,
   MarkPending, Emit, Announce, Claim, NotClaimed, Process, ProcessRaises, Author,
   ReadStanding, Answer, AdapterCrash, Start, Associate, StageFails, Persist, Ack,
   WorkerCrash, AddTurnBead

LEMMA BeadsGrow ==
    ASSUME TypeOK, [TurnNext]_turnVars, NEW t, HasBead(t)
    PROVE  HasBead(t)'
<1>1. CASE beads' = beads
  BY <1>1 DEF HasBead
<1>2. ASSUME NEW b, beads' = Append(beads, b)
      PROVE  HasBead(t)'
  <2>1. PICK i \in DOMAIN beads : beads[i].turn = t
    BY DEF HasBead
  <2>2. i \in DOMAIN beads' /\ beads'[i] = beads[i]
    BY <1>2, <2>1 DEF TypeOK
  <2> QED BY <2>1, <2>2 DEF HasBead
<1> QED BY <1>1, <1>2, BeadSteps

LEMMA WaiversStay == [TurnNext]_turnVars => waivers' = waivers
BY ZenonT(60) DEF TurnNext, turnVars, files, Deliver, Continue, Work, Replay, Accept,
   MarkPending, Emit, Announce, Claim, NotClaimed, Process, ProcessRaises, Author,
   ReadStanding, Answer, AdapterCrash, Start, Associate, StageFails, Persist, Ack,
   WorkerCrash

-----------------------------------------------------------------------------
(* A bead has its event                                                     *)

LEMMA Moved ==
    ASSUME CallsOK, NEW a \in Adapters, ~At(a, "idle"), NEW step, Goto(a, step)
    PROVE  /\ call'[a].at = step
           /\ call'[a].turn = call[a].turn /\ call'[a].body = call[a].body
           /\ call'[a].say = call[a].say
<1>1. call[a] \in Call
  BY InCall
<1>2. call'[a] = [call[a] EXCEPT !.at = step]
  BY DEF Goto, CallsOK
<1> QED BY <1>1, <1>2 DEF Call

\* What changes for an adapter, it has done itself.
LEMMA OwnSteps ==
    ASSUME TypeOK, [TurnNext]_turnVars, NEW a \in Adapters, call'[a] # call[a]
    PROVE  Deliver(a) \/ Continue(a) \/ ProcessRaises(a) \/ AdapterCrash(a)
<1>1. CallsOK
  BY TypeParts
<1>2. ASSUME NEW c \in Adapters, c # a, Deliver(c) PROVE FALSE
  BY <1>1, <1>2 DEF Deliver, Replay, Accept, CallsOK
<1>3. ASSUME NEW c \in Adapters, c # a, Continue(c) PROVE FALSE
  BY <1>1, <1>3 DEF Continue, MarkPending, Emit, Announce, Claim, NotClaimed, Process,
     Author, ReadStanding, Answer, Goto, CallsOK
<1>4. ASSUME NEW c \in Adapters, c # a, ProcessRaises(c) \/ AdapterCrash(c) PROVE FALSE
  BY <1>1, <1>4 DEF ProcessRaises, AdapterCrash, Goto, CallsOK
<1>5. ASSUME NEW w \in Workers, Work(w) \/ StageFails(w) \/ WorkerCrash(w)
      PROVE  call' = call
  BY <1>5 DEF Work, Start, Associate, StageFails, Persist, Ack, WorkerCrash
<1>6. CASE UNCHANGED turnVars
  BY <1>6 DEF turnVars
<1> QED BY <1>2, <1>3, <1>4, <1>5, <1>6 DEF TurnNext

\* An adapter that has come to need an event has just emitted it, or has
\* needed it before.
LEMMA CallHasEventStep ==
    ASSUME TypeOK, CallHasEvent, [TurnNext]_turnVars
    PROVE  CallHasEvent'
<1> DEFINE Needs == {"announce", "claim", "process", "author"}
<1> SUFFICES ASSUME NEW a \in Adapters, call'[a].at \in Needs
             PROVE  EventFor(call[a].turn, call[a].body)'
  BY DEF CallHasEvent
<1>1. CallsOK /\ EventsOK
  BY TypeParts
<1>2. CASE call'[a] = call[a]
  <2>1. EventFor(call[a].turn, call[a].body)
    BY <1>2 DEF CallHasEvent
  <2>2. ASSUME NEW t, NEW b, EventFor(t, b) PROVE EventFor(t, b)'
    BY <2>2, EventsGrow
  <2> QED BY <1>2, <2>1, <2>2 DEF EventFor
<1>3. CASE Emit(a)
  <2>1. events' = Append(events, Event(a)) /\ call'[a].turn = call[a].turn
        /\ call'[a].body = call[a].body
    BY <1>1, <1>3 DEF Emit, Goto, CallsOK
  <2>2. Len(events) + 1 \in DOMAIN events' /\ events'[Len(events) + 1] = Event(a)
    BY <1>1, <2>1 DEF EventsOK
  <2> QED BY <2>1, <2>2 DEF EventFor, Event
<1>4. CASE call'[a] # call[a] /\ ~Emit(a)
  <2>1. /\ call[a].at \in Needs
        /\ call'[a].turn = call[a].turn /\ call'[a].body = call[a].body
    <3>1. ~Deliver(a) /\ ~AdapterCrash(a)
      BY <1>1 DEF Deliver, Replay, Accept, Begin, AdapterCrash, Idle, CallsOK
    <3>2. CASE Continue(a)
      <4>0. ASSUME NEW step, NEW say, call[a] \in Call
            PROVE  [call[a] EXCEPT !.at = step, !.say = say].at = step
        BY <4>0 DEF Call
      <4>1. ~MarkPending(a) /\ ~NotClaimed(a) /\ ~Answer(a)
        BY <1>1, Moved DEF MarkPending, NotClaimed, Answer, At, Idle, CallsOK
      <4>2. ASSUME NEW outcome \in Outcomes, Author(a, outcome) PROVE FALSE
        <5>1. call[a] \in Call
          BY <1>1, <4>2, InCall DEF Author, At
        <5>2. call'[a].at = "receipt"
          BY <1>1, <4>0, <4>2, <5>1 DEF Author, CallsOK
        <5> QED BY <5>2
      <4>3. ~ReadStanding(a)
        <5> SUFFICES ASSUME ReadStanding(a) PROVE FALSE
          OBVIOUS
        <5>1. call[a] \in Call
          BY <1>1, InCall DEF ReadStanding, At
        <5>2. call'[a].at = "answer"
          BY <1>1, <4>0, <5>1 DEF ReadStanding, CallsOK
        <5> QED BY <5>2
      <4>4. CASE Announce(a) \/ Process(a)
        BY <1>1, <4>4, Moved DEF Announce, Process, At
      <4>5. CASE Claim(a)
        <5>1. call[a] \in Call
          BY <1>1, <4>5, InCall DEF Claim, At
        <5> QED BY <1>1, <4>5, <5>1 DEF Claim, At, CallsOK, Call
      <4> QED BY <1>4, <3>2, <4>1, <4>2, <4>3, <4>4, <4>5 DEF Continue
    <3>3. CASE ProcessRaises(a)
      BY <1>1, <3>3 DEF ProcessRaises, Goto, CallsOK
    <3> QED BY <1>4, <3>1, <3>2, <3>3, OwnSteps
  <2>2. EventFor(call[a].turn, call[a].body)
    BY <2>1 DEF CallHasEvent
  <2>3. ASSUME NEW t, NEW b, EventFor(t, b) PROVE EventFor(t, b)'
    BY <2>3, EventsGrow
  <2> QED BY <2>1, <2>2, <2>3 DEF EventFor
<1> QED BY <1>2, <1>3, <1>4

\* Only an adapter that has authored fills the queue, and it has an event.
LEMMA QueueHasEventStep ==
    ASSUME TypeOK, CallHasEvent, QueueHasEvent, [TurnNext]_turnVars
    PROVE  QueueHasEvent'
<1> SUFFICES ASSUME NEW t \in Turns, queue'[t] # NoBody
             PROVE  EventFor(t, queue[t])'
  BY DEF QueueHasEvent
<1>1. QueueOK /\ CallsOK
  BY TypeParts
<1>2. \/ queue' = queue
      \/ \E w \in Workers : queue' = [queue EXCEPT ![job[w].turn] = NoBody]
      \/ \E a \in Adapters :
           At(a, "author") /\ queue' = Enqueued(call[a].turn, call[a].body)
  BY ZenonT(60) DEF TurnNext, turnVars, files, Deliver, Continue, Work, Replay, Accept,
     MarkPending, Emit, Announce, Claim, NotClaimed, Process, ProcessRaises, Author,
     ReadStanding, Answer, AdapterCrash, Start, Associate, StageFails, Persist, Ack,
     WorkerCrash
<1>3. EventFor(t, queue'[t])
  <2>1. ASSUME queue'[t] = queue[t] PROVE EventFor(t, queue'[t])
    BY <2>1 DEF QueueHasEvent
  <2>2. ASSUME NEW w \in Workers, queue' = [queue EXCEPT ![job[w].turn] = NoBody]
        PROVE  queue'[t] = queue[t]
    BY <1>1, <2>2 DEF QueueOK
  <2>3. ASSUME NEW a \in Adapters, At(a, "author"),
               queue' = Enqueued(call[a].turn, call[a].body), queue'[t] # queue[t]
        PROVE  EventFor(t, queue'[t])
    <3>1. t = call[a].turn /\ queue'[t] = call[a].body
      BY <1>1, <2>3 DEF Enqueued, QueueOK
    <3> QED BY <2>3, <3>1 DEF CallHasEvent, At
  <2> QED BY <1>2, <2>1, <2>2, <2>3
<1>4. ASSUME NEW b, EventFor(t, b) PROVE EventFor(t, b)'
  BY <1>4, EventsGrow
<1> QED BY <1>3, <1>4 DEF EventFor

\* A job is of an item of the queue.
LEMMA JobHasEventStep ==
    ASSUME TypeOK, QueueHasEvent, JobHasEvent, [TurnNext]_turnVars
    PROVE  JobHasEvent'
<1> SUFFICES ASSUME NEW w \in Workers, job'[w] # Idle
             PROVE  EventFor(job[w].turn, job[w].body)'
  BY DEF JobHasEvent
<1>1. JobsOK
  BY TypeParts
<1>2. EventFor(job'[w].turn, job'[w].body)
  <2>1. ASSUME job[w] # Idle, job'[w].turn = job[w].turn, job'[w].body = job[w].body
        PROVE  EventFor(job'[w].turn, job'[w].body)
    BY <2>1 DEF JobHasEvent
  <2>2. CASE job' = job
    BY <2>1, <2>2
  <2>3. ASSUME NEW v \in Workers, NEW t \in Turns, Start(v, t)
        PROVE  EventFor(job'[w].turn, job'[w].body)
    <3>1. CASE v = w
      <4>1. job'[w].turn = t /\ job'[w].body = queue[t] /\ queue[t] # NoBody
        BY <1>1, <2>3, <3>1 DEF Start, JobsOK
      <4> QED BY <4>1 DEF QueueHasEvent
    <3>2. CASE v # w
      BY <1>1, <2>1, <2>3, <3>2 DEF Start, JobsOK
    <3> QED BY <3>1, <3>2
  <2>4. ASSUME NEW v \in Workers,
               Associate(v) \/ StageFails(v) \/ Persist(v) \/ Ack(v) \/ WorkerCrash(v)
        PROVE  EventFor(job'[w].turn, job'[w].body)
    <3>1. CASE v = w
      <4>1. job[w] \in Job
        BY <1>1, <2>4, <3>1 DEF Associate, StageFails, Persist, Ack, WorkerCrash, JobsOK
      <4>2. ~Ack(v) /\ ~WorkerCrash(v)
        BY <1>1, <3>1 DEF Ack, WorkerCrash, JobsOK
      <4>3. job'[w].turn = job[w].turn /\ job'[w].body = job[w].body
        BY <1>1, <2>4, <3>1, <4>1, <4>2 DEF Associate, StageFails, Persist, JobsOK, Job
      <4> QED BY <2>1, <2>4, <3>1, <4>2, <4>3 DEF Associate, StageFails, Persist
    <3>2. CASE v # w
      BY <1>1, <2>1, <2>4, <3>2
         DEF Associate, StageFails, Persist, Ack, WorkerCrash, JobsOK
    <3> QED BY <3>1, <3>2
  <2>5. job' = job \/ \E v \in Workers : Work(v) \/ StageFails(v) \/ WorkerCrash(v)
    BY ZenonT(60) DEF TurnNext, turnVars, Deliver, Continue, Replay, Accept, MarkPending,
       Emit, Announce, Claim, NotClaimed, Process, ProcessRaises, Author, ReadStanding,
       Answer, AdapterCrash
  <2> QED BY <2>2, <2>3, <2>4, <2>5 DEF Work
<1>3. ASSUME NEW t, NEW b, EventFor(t, b) PROVE EventFor(t, b)'
  BY <1>3, EventsGrow
<1> QED BY <1>2, <1>3 DEF EventFor

LEMMA BeadHasEventStep ==
    ASSUME TypeOK, JobHasEvent, BeadHasEvent, [TurnNext]_turnVars
    PROVE  BeadHasEvent'
<1> SUFFICES ASSUME NEW i \in DOMAIN beads', beads'[i].type = "turn"
             PROVE  EventFor(beads[i].turn, beads[i].body)'
  BY DEF BeadHasEvent, EventFor
<1>1. BeadsOK
  BY TypeParts
<1>2. EventFor(beads'[i].turn, beads'[i].body)
  <2>1. ASSUME i \in DOMAIN beads, beads'[i] = beads[i]
        PROVE  EventFor(beads'[i].turn, beads'[i].body)
    BY <2>1 DEF BeadHasEvent, EventFor
  <2>2. ASSUME NEW w \in Workers, job[w] # Idle, i \notin DOMAIN beads \/ beads'[i] # beads[i],
               beads' = Append(beads, TurnBead(job[w].turn, job[w].body))
        PROVE  EventFor(beads'[i].turn, beads'[i].body)
    <3>1. beads'[i] = TurnBead(job[w].turn, job[w].body)
      <4> DEFINE bead == TurnBead(job[w].turn, job[w].body)
      <4> HIDE DEF bead
      <4>1. i \in 1..Len(beads) + 1 /\ DOMAIN beads = 1..Len(beads)
        BY <1>1, <2>2 DEF BeadsOK, bead
      <4>2. beads' = Append(beads, bead)
        BY <2>2 DEF bead
      <4>3. beads'[i] = bead
        BY <1>1, <2>2, <4>1, <4>2 DEF BeadsOK
      <4> QED BY <4>3 DEF bead
    <3>2. EventFor(job[w].turn, job[w].body)
      BY <2>2 DEF JobHasEvent
    <3> QED BY <3>1, <3>2 DEF TurnBead
  <2>3. CASE beads' = beads
    BY <2>1, <2>3
  <2> QED BY <2>1, <2>2, <2>3, BeadSteps
<1>3. ASSUME NEW t, NEW b, EventFor(t, b) PROVE EventFor(t, b)'
  BY <1>3, EventsGrow
<1> QED BY <1>2, <1>3 DEF EventFor

LEMMA RecordedStep == TypeOK /\ Recorded /\ [TurnNext]_turnVars => Recorded'
BY CallHasEventStep, QueueHasEventStep, JobHasEventStep, BeadHasEventStep DEF Recorded

LEMMA InitRecorded == Init => Recorded
<1> SUFFICES ASSUME Init PROVE Recorded
  OBVIOUS
<1>1. BeadHasEvent
  <2>1. PICK n \in Nat : \E old \in [1..n -> Legacy] :
          /\ events = [i \in 1..n |-> [turn |-> old[i], body |-> NoBody, stamp |-> 0]]
          /\ beads = [i \in 1..n |-> TurnBead(old[i], NoBody)]
    BY InitOld
  <2> QED BY <2>1 DEF BeadHasEvent, TurnBead
<1>2. CallHasEvent /\ QueueHasEvent /\ JobHasEvent
  BY DEF Init, CallHasEvent, QueueHasEvent, JobHasEvent, Idle
<1> QED BY <1>1, <1>2 DEF Recorded

\* Never forget: whatever is redelivered, retried, run twice or killed, a bead
\* is made of a delivery whose event is on record.
THEOREM BeadsAreRecorded == Spec => []BeadHasEvent
<1>1. Init => TypeOK /\ Recorded
  BY InitType, InitRecorded
<1>2. TypeOK /\ Recorded /\ [TurnNext]_turnVars => (TypeOK /\ Recorded)'
  BY NextType, RecordedStep
<1>3. Recorded => BeadHasEvent
  BY DEF Recorded
<1> QED BY <1>1, <1>2, <1>3, PTL DEF Spec

-----------------------------------------------------------------------------
(* What is said of a turn holds                                             *)

\* What one may say of a turn.
MaySay(t, say) ==
    /\ say = "committed" => HasBead(t)
    /\ say = "waived" => t \in waivers

LEMMA StaysTrue ==
    ASSUME TypeOK, [TurnNext]_turnVars, NEW t, NEW say, MaySay(t, say)
    PROVE  MaySay(t, say)'
BY BeadsGrow, WaiversStay DEF MaySay

\* What an adapter comes to say it has read off the files, or it is neither of
\* the two.
LEMMA SayStep ==
    ASSUME TypeOK, SayHolds, [TurnNext]_turnVars, NEW a \in Adapters, call'[a] # Idle
    PROVE  MaySay(call'[a].turn, call'[a].say)
<1>1. CallsOK
  BY TypeParts
<1>2. ASSUME call[a] # Idle, call'[a].turn = call[a].turn, call'[a].say = call[a].say
      PROVE  MaySay(call'[a].turn, call'[a].say)
  BY <1>2 DEF SayHolds, MaySay
<1>3. CASE call'[a] = call[a]
  BY <1>2, <1>3
<1>4. CASE Deliver(a)
  BY <1>1, <1>4 DEF Deliver, Replay, Accept, Begin, MaySay, CallsOK
<1>5. CASE \/ MarkPending(a) \/ Emit(a) \/ Announce(a) \/ NotClaimed(a) \/ Process(a)
           \/ ProcessRaises(a)
  <2>1. ~At(a, "idle") /\ \E step : Goto(a, step)
    BY <1>5 DEF MarkPending, Emit, Announce, NotClaimed, Process, ProcessRaises, At
  <2> QED BY <1>1, <1>2, <2>1, InCall, Moved
<1>6. CASE Claim(a)
  <2>1. call[a] \in Call /\ call[a] # Idle
    BY <1>1, <1>6, InCall DEF Claim, At
  <2> QED BY <1>1, <1>2, <1>6, <2>1 DEF Claim, CallsOK, Call
<1>7. ASSUME NEW outcome \in Outcomes, Author(a, outcome)
      PROVE  MaySay(call'[a].turn, call'[a].say)
  <2>1. call[a] \in Call
    BY <1>1, <1>7, InCall DEF Author, At
  <2>2. call'[a].say \in {"pending", "repair_required", "none"}
    BY <1>1, <1>7, <2>1 DEF Author, CallsOK, Call
  <2> QED BY <2>2 DEF MaySay
<1>8. CASE ReadStanding(a)
  <2>1. call[a] \in Call /\ call[a] # Idle
    BY <1>1, <1>8, InCall DEF ReadStanding, At
  <2>2. /\ call'[a].turn = call[a].turn
        /\ call'[a].say = Standing(call[a].turn, call[a].say)
    BY <1>1, <1>8, <2>1 DEF ReadStanding, CallsOK, Call
  <2>3. MaySay(call[a].turn, call[a].say)
    BY <2>1 DEF SayHolds, MaySay
  <2> QED BY <2>2, <2>3 DEF Standing, MaySay
<1>9. ~Answer(a) /\ ~AdapterCrash(a)
  BY <1>1 DEF Answer, AdapterCrash, CallsOK
<1> QED BY <1>3, <1>4, <1>5, <1>6, <1>7, <1>8, <1>9, OwnSteps DEF Continue

LEMMA SayHoldsStep ==
    ASSUME TypeOK, SayHolds, [TurnNext]_turnVars
    PROVE  SayHolds'
<1> SUFFICES ASSUME NEW a \in Adapters, call'[a] # Idle
             PROVE  MaySay(call[a].turn, call[a].say)'
  BY DEF SayHolds, MaySay
<1>1. MaySay(call'[a].turn, call'[a].say)
  BY SayStep
<1>2. ASSUME NEW t, NEW say, MaySay(t, say) PROVE MaySay(t, say)'
  BY <1>2, StaysTrue
<1> QED BY <1>1, <1>2 DEF MaySay

\* A state that is recorded is "pending" or what an adapter had to say.
LEMMA SemStep ==
    ASSUME TypeOK, SayHolds, [TurnNext]_turnVars, NEW t \in Turns, sem'[t] # sem[t]
    PROVE  MaySay(t, sem'[t])
<1>1. SemOK /\ CallsOK
  BY TypeParts
<1>2. \/ sem' = sem
      \/ \E a \in Adapters : sem' = [sem EXCEPT ![call[a].turn] = "pending"]
      \/ \E a \in Adapters :
           At(a, "answer") /\ sem' = [sem EXCEPT ![call[a].turn] = call[a].say]
  BY ZenonT(60) DEF TurnNext, turnVars, files, Deliver, Continue, Work, Replay, Accept,
     MarkPending, Emit, Announce, Claim, NotClaimed, Process, ProcessRaises, Author,
     ReadStanding, Answer, AdapterCrash, Start, Associate, StageFails, Persist, Ack,
     WorkerCrash
<1>3. ASSUME NEW a \in Adapters, sem' = [sem EXCEPT ![call[a].turn] = "pending"]
      PROVE  MaySay(t, sem'[t])
  BY <1>1, <1>3 DEF SemOK, MaySay
<1>4. ASSUME NEW a \in Adapters, At(a, "answer"),
             sem' = [sem EXCEPT ![call[a].turn] = call[a].say]
      PROVE  MaySay(t, sem'[t])
  <2>1. call[a] # Idle
    BY <1>1, <1>4, InCall DEF At
  <2>2. t = call[a].turn /\ sem'[t] = call[a].say
    BY <1>1, <1>4 DEF SemOK
  <2> QED BY <2>1, <2>2 DEF SayHolds, MaySay
<1> QED BY <1>2, <1>3, <1>4

LEMMA TruthfulStep == TypeOK /\ Truthful /\ [TurnNext]_turnVars => Truthful'
<1> SUFFICES ASSUME TypeOK, Truthful, [TurnNext]_turnVars PROVE Truthful'
  OBVIOUS
<1>1. SayHolds'
  BY SayHoldsStep DEF Truthful
<1>2. ASSUME NEW t \in Turns PROVE MaySay(t, sem[t])'
  <2>1. MaySay(t, sem'[t])
    <3>1. CASE sem'[t] = sem[t]
      BY <3>1 DEF Truthful, CommittedHasBead, WaivedOnFile, MaySay
    <3>2. CASE sem'[t] # sem[t]
      BY <3>2, SemStep DEF Truthful
    <3> QED BY <3>1, <3>2
  <2>2. ASSUME NEW say, MaySay(t, say) PROVE MaySay(t, say)'
    BY <2>2, StaysTrue
  <2> QED BY <2>1, <2>2 DEF MaySay
<1> QED BY <1>1, <1>2 DEF Truthful, CommittedHasBead, WaivedOnFile, MaySay

LEMMA InitTruthful == Init => Truthful
BY DEF Init, Truthful, CommittedHasBead, WaivedOnFile, SayHolds

\* No receipt, however stale, replayed or interrupted, records a turn as
\* committed that has no bead.
THEOREM CommitsHaveBeads == Spec => []CommittedHasBead
<1>1. Init => TypeOK /\ Truthful
  BY InitType, InitTruthful
<1>2. TypeOK /\ Truthful /\ [TurnNext]_turnVars => (TypeOK /\ Truthful)'
  BY NextType, TruthfulStep
<1>3. Truthful => CommittedHasBead
  BY DEF Truthful
<1> QED BY <1>1, <1>2, <1>3, PTL DEF Spec

-----------------------------------------------------------------------------
(* One bead per turn                                                        *)

LEMMA SeqElement ==
    ASSUME NEW S, NEW s \in Seq(S), NEW i \in DOMAIN s
    PROVE  s[i] \in S
OBVIOUS

\* In this module every bead is a turn's (SessionFlush adds others).
EachTurnOnce ==
    /\ \A i \in DOMAIN beads : beads[i].type = "turn"
    /\ \A i, j \in DOMAIN beads : beads[i].turn = beads[j].turn => i = j

\* With a window no smaller than the number of turns, the bead of a turn never
\* leaves it: the beads after it are of other turns.
LEMMA BeadIsRecent ==
    ASSUME TypeOK, EachTurnOnce, IsFiniteSet(Turns), Cardinality(Turns) <= Window,
           NEW i \in DOMAIN beads
    PROVE  i \in Recent(beads[i].turn)
<1> DEFINE t == beads[i].turn
           Later == {j \in DOMAIN beads : j > i /\ SessionOf[beads[j].turn] = SessionOf[t]}
           Others == Turns \ {t}
           turnOf == [j \in Later |-> beads[j].turn]
<1>0. BeadsOK
  BY TypeParts
<1>1. ASSUME NEW j \in DOMAIN beads PROVE beads[j].turn \in Turns /\ j \in Nat
  <2> DEFINE Bead == [type: {"turn", "process_flush"}, turn: Turns, body: Bodies \cup {NoBody}]
  <2>1. beads[j] \in Bead
    BY <1>0, SeqElement DEF BeadsOK
  <2>2. j \in Nat
    BY <1>0 DEF BeadsOK
  <2> QED BY <2>1, <2>2
<1>2. IsFiniteSet(Others) /\ Cardinality(Others) = Cardinality(Turns) - 1
  BY <1>1, FS_RemoveElement
<1>3. \A j \in Later : beads[j].turn \in Others
  BY <1>1 DEF EachTurnOnce
<1>4. turnOf \in Injection(Later, Others)
  BY <1>3 DEF EachTurnOnce, Injection, IsInjective
<1>5. IsFiniteSet(Later) /\ Cardinality(Later) <= Cardinality(Others)
  BY <1>2, <1>4, FS_Injection DEF ExistsInjection
<1>6. Cardinality(Later) \in Nat /\ Cardinality(Turns) \in Nat
  BY <1>5, FS_CardinalityType
<1>7. Cardinality(Later) < Window
  BY <1>2, <1>5, <1>6, TurnBounds
<1> QED BY <1>7 DEF Recent

LEMMA EachTurnOnceStep ==
    ASSUME TypeOK, EachTurnOnce, IsFiniteSet(Turns), Cardinality(Turns) <= Window,
           [TurnNext]_turnVars
    PROVE  EachTurnOnce'
<1>1. CASE beads' = beads
  BY <1>1 DEF EachTurnOnce
<1>2. ASSUME NEW t, NEW b, Duplicates(t, b) = {}, beads' = Append(beads, TurnBead(t, b))
      PROVE  EachTurnOnce'
  <2>1. \A i \in DOMAIN beads : beads[i].turn # t
    BY <1>2, BeadIsRecent DEF Duplicates, EachTurnOnce
  <2> DEFINE bead == TurnBead(t, b)
             n == Len(beads) + 1
  <2>2. bead.type = "turn" /\ bead.turn = t
    BY DEF TurnBead
  <2> HIDE DEF bead
  <2>3. BeadsOK
    BY TypeParts
  <2>4. /\ DOMAIN beads' = DOMAIN beads \cup {n} /\ n \notin DOMAIN beads
        /\ beads'[n] = bead
        /\ \A i \in DOMAIN beads : beads'[i] = beads[i]
    BY <1>2, <2>3 DEF BeadsOK, bead
  <2> HIDE DEF n
  <2> QED BY <2>1, <2>2, <2>4 DEF EachTurnOnce
<1> QED BY <1>1, <1>2, BeadSteps

LEMMA InitEachTurnOnce == Init => EachTurnOnce
<1> SUFFICES ASSUME Init PROVE EachTurnOnce
  OBVIOUS
<1>1. PICK n \in Nat : \E old \in [1..n -> Legacy] :
        /\ \A i, j \in 1..n : old[i] = old[j] => i = j
        /\ beads = [i \in 1..n |-> TurnBead(old[i], NoBody)]
  BY InitOld
<1> QED BY <1>1 DEF EachTurnOnce, TurnBead

\* A turn has one bead, whatever is retried, redelivered with another body or
\* run again after a crash, if the duplicate window holds as many beads as
\* there are turns (a turn that fell out of it may get a second one).
THEOREM TurnsHaveOneBead ==
    ASSUME IsFiniteSet(Turns), Cardinality(Turns) <= Window
    PROVE  Spec => []OneBeadPerTurn
<1>1. Init => TypeOK /\ EachTurnOnce
  BY InitType, InitEachTurnOnce
<1>2. TypeOK /\ EachTurnOnce /\ [TurnNext]_turnVars => (TypeOK /\ EachTurnOnce)'
  BY NextType, EachTurnOnceStep
<1>3. EachTurnOnce => OneBeadPerTurn
  BY DEF EachTurnOnce, OneBeadPerTurn
<1> QED BY <1>1, <1>2, <1>3, PTL DEF Spec

(***************************************************************************)
(* The flush                                                               *)
(***************************************************************************)

-----------------------------------------------------------------------------
(* The latest turn exists                                                   *)

LEMMA Smallest ==
    ASSUME NEW T \in SUBSET Nat, T # {}
    PROVE  \E m \in T : \A k \in T : m <= k
<1> DEFINE R == OpToRel(<, Nat)
<1>1. PICK m \in T : \A k \in T : <<k, m>> \notin R
  <2>1. IsWellFoundedOn(R, Nat)
    BY NatLessThanWellFounded
  <2> HIDE DEF R
  <2> QED BY <2>1, WFMin
<1>2. \A k \in T : ~(k < m)
  BY <1>1 DEF OpToRel
<1> QED BY <1>2

LEMMA Largest ==
    ASSUME NEW n \in Nat, NEW T \in SUBSET (0..n), T # {}
    PROVE  \E m \in T : \A k \in T : k <= m
<1> DEFINE U == {x \in Nat : n - x \in T}
<1>1. U \in SUBSET Nat /\ U # {}
  <2>1. PICK k \in T : TRUE
    OBVIOUS
  <2>2. n - k \in U
    <3>1. n - (n - k) = k /\ n - k \in Nat
      BY <2>1
    <3> QED BY <3>1
  <2> QED BY <2>2
<1>2. PICK u \in U : \A v \in U : u <= v
  <2> HIDE DEF U
  <2> QED BY <1>1, Smallest
<1>3. ASSUME NEW k \in T PROVE k <= n - u
  <2>1. n - (n - k) = k /\ n - k \in Nat
    OBVIOUS
  <2>2. u <= n - k
    BY <1>2, <2>1
  <2> QED BY <2>2
<1> QED BY <1>2, <1>3

\* Of the events of a session one is latest, and it is of that session.
LEMMA LatestType ==
    ASSUME TypeOK, NEW s \in Sessions, InSession(s) # {}
    PROVE  Latest(s) \in Turns /\ SessionOf[Latest(s)] = s
<1> DEFINE Entry == [turn: Turns, body: Bodies \cup {NoBody}, stamp: 0..MaxEvents]
           S == InSession(s)
           IsLatest(i) == \A j \in S :
             \/ events[j].stamp < events[i].stamp
             \/ events[j].stamp = events[i].stamp /\ j <= i
<1>1. events \in Seq(Entry)
  BY TypeParts DEF EventsOK
<1>2. \A i \in S : events[i].turn \in Turns /\ events[i].stamp \in 0..MaxEvents
                  /\ SessionOf[events[i].turn] = s /\ i \in 0..Len(events)
  <2> TAKE i \in S
  <2>1. i \in DOMAIN events /\ SessionOf[events[i].turn] = s
    BY DEF InSession
  <2>2. events[i] \in Entry
    <3> HIDE DEF Entry
    <3> QED BY <1>1, <2>1, SeqElement
  <2>3. i \in 0..Len(events)
    <3> HIDE DEF Entry
    <3> QED BY <1>1, <2>1
  <2> QED BY <2>1, <2>2, <2>3
<1> DEFINE Stamps == {x \in 0..MaxEvents : \E i \in S : events[i].stamp = x}
<1>3. PICK m \in Stamps : \A x \in Stamps : x <= m
  <2>1. Stamps \in SUBSET (0..MaxEvents) /\ Stamps # {}
    BY <1>2
  <2> HIDE DEF Stamps
  <2> QED BY <2>1, Largest, TurnBounds
<1> DEFINE Last == {i \in S : events[i].stamp = m}
<1>4. PICK i \in Last : \A j \in Last : j <= i
  <2>1. Last \in SUBSET (0..Len(events)) /\ Last # {} /\ Len(events) \in Nat
    BY <1>1, <1>2, <1>3
  <2> HIDE DEF Last
  <2> QED BY <2>1, Largest
<1>5. IsLatest(i)
  <2> SUFFICES ASSUME NEW j \in S
               PROVE  \/ events[j].stamp < events[i].stamp
                      \/ events[j].stamp = events[i].stamp /\ j <= i
    OBVIOUS
  <2>1. events[j].stamp <= m /\ events[i].stamp = m
    BY <1>2, <1>3, <1>4
  <2>2. CASE events[j].stamp = m
    BY <1>4, <2>1, <2>2
  <2>3. CASE events[j].stamp # m
    <3>1. events[j].stamp \in Int /\ m \in Int
      BY <1>2
    <3> QED BY <2>1, <2>3, <3>1
  <2> QED BY <2>2, <2>3
<1>6. \E k \in S : IsLatest(k)
  BY <1>4, <1>5
<1>7. (CHOOSE k \in S : IsLatest(k)) \in S
  BY <1>6
<1>8. Latest(s) = events[CHOOSE k \in S : IsLatest(k)].turn
  BY DEF Latest
<1> HIDE DEF IsLatest, S
<1> QED BY <1>2, <1>7, <1>8

-----------------------------------------------------------------------------
(* Types                                                                    *)

Marks == UNION {[S -> Turns] : S \in SUBSET Sessions}
FlushesOK == flush \in [Flushers -> {Idle} \cup Flush]
FlushVarsOK == FlushesOK /\ markers \in Marks /\ flushed \in [Turns -> 0..2]

LEMMA NoMarks == <<>> \in Marks
<1>1. <<>> \in [{} -> Turns]
  OBVIOUS
<1> QED BY <1>1 DEF Marks

LEMMA InFlush ==
    ASSUME FlushesOK, NEW f \in Flushers, ~Within(f, "idle")
    PROVE  flush[f] \in Flush /\ flush[f].turn \in Turns /\ flush[f].session \in Sessions
<1>1. flush[f] # Idle
  BY DEF Within, Idle
<1> QED BY <1>1 DEF FlushesOK, Flush

\* Advance moves one flusher and keeps what it holds.
LEMMA Advanced ==
    ASSUME FlushesOK, NEW f \in Flushers, ~Within(f, "idle"), NEW step \in FlushSteps,
           Advance(f, step)
    PROVE  /\ FlushesOK'
           /\ flush'[f].at = step /\ flush'[f].turn = flush[f].turn
           /\ flush'[f].seen = flush[f].seen
           /\ \A g \in Flushers \ {f} : flush'[g] = flush[g]
<1>1. flush[f] \in Flush
  BY InFlush
<1>2. flush' = [flush EXCEPT ![f] = [flush[f] EXCEPT !.at = step]]
  BY DEF Advance
<1>3. [flush[f] EXCEPT !.at = step] \in Flush
  BY <1>1 DEF Flush
<1>4. flush'[f] = [flush[f] EXCEPT !.at = step]
  BY <1>2 DEF FlushesOK
<1> QED BY <1>1, <1>2, <1>3, <1>4 DEF FlushesOK, Flush

LEMMA Left_ ==
    ASSUME FlushesOK, NEW f \in Flushers, Leave(f)
    PROVE  /\ FlushesOK' /\ flush'[f] = Idle
           /\ \A g \in Flushers \ {f} : flush'[g] = flush[g]
BY DEF FlushesOK, Leave

\* The steps that touch no file of the turn path.
LEMMA QuietType ==
    ASSUME TypeOK, FlushVarsOK, NEW f \in Flushers,
           \/ (\E s \in Sessions : ReadLatest(f, s)) \/ ReadState(f) \/ DecidePasses(f)
           \/ DecideLegacy(f) \/ Refuse(f) \/ Skip(f) \/ Proceed(f) \/ Consolidate(f)
           \/ ReadMarkers(f) \/ Truncate(f) \/ WriteMarkers(f)
    PROVE  UNCHANGED turnVars /\ FlushVarsOK'
<1> USE DEF FlushVarsOK
<1>1. ASSUME NEW s \in Sessions, ReadLatest(f, s) PROVE UNCHANGED turnVars /\ FlushVarsOK'
  <2> DEFINE begun == [at |-> "state", session |-> s, turn |-> Latest(s), seen |-> "none",
                       recall |-> <<>>]
  <2>1. Latest(s) \in Turns
    BY <1>1, LatestType DEF ReadLatest
  <2>3. begun \in Flush
    BY <2>1, NoMarks DEF Flush, FlushSteps, Marks
  <2> HIDE DEF begun
  <2>4. flush' = [flush EXCEPT ![f] = begun]
    BY <1>1 DEF ReadLatest, begun
  <2> QED BY <1>1, <2>3, <2>4 DEF ReadLatest, FlushesOK
<1>2. CASE ReadState(f)
  <2>1. flush[f] \in Flush /\ sem[flush[f].turn] \in Says
    BY <1>2, InFlush, TypeParts DEF ReadState, Within, SemOK
  <2>2. [flush[f] EXCEPT !.at = "decide", !.seen = sem[flush[f].turn]] \in Flush
    BY <2>1 DEF Flush, FlushSteps, Says
  <2> QED BY <1>2, <2>2 DEF ReadState, FlushesOK
<1>3. CASE DecidePasses(f) \/ DecideLegacy(f) \/ Proceed(f)
  BY <1>3, Advanced DEF DecidePasses, DecideLegacy, Proceed, Within, FlushSteps
<1>4. CASE Refuse(f) \/ Skip(f)
  BY <1>4, Left_ DEF Refuse, Skip
<1>5. CASE Consolidate(f)
  <2>1. FlushesOK'
    BY <1>5, Advanced DEF Consolidate, Within, FlushSteps
  <2>2. flushed' \in [Turns -> 0..2]
    BY <1>5, InFlush DEF Consolidate, Within
  <2> QED BY <1>5, <2>1, <2>2 DEF Consolidate
<1>6. CASE ReadMarkers(f)
  <2>1. flush[f] \in Flush
    BY <1>6, InFlush DEF ReadMarkers, Within
  <2>2. [flush[f] EXCEPT !.at = "truncate", !.recall = markers] \in Flush
    BY <2>1 DEF Flush, FlushSteps, Marks
  <2> QED BY <1>6, <2>2 DEF ReadMarkers, FlushesOK
<1>7. CASE Truncate(f)
  <2>1. FlushesOK'
    BY <1>7, Advanced DEF Truncate, Within, FlushSteps
  <2> QED BY <1>7, <2>1, NoMarks DEF Truncate
<1>8. CASE WriteMarkers(f)
  <2>1. flush[f] \in Flush /\ flush[f].turn \in Turns /\ flush[f].session \in Sessions
    BY <1>8, InFlush DEF WriteMarkers, Within
  <2>2. PICK S \in SUBSET Sessions : flush[f].recall \in [S -> Turns]
    BY <2>1 DEF Flush
  <2>3. markers' \in [S \cup {flush[f].session} -> Turns]
    BY <1>8, <2>1, <2>2 DEF WriteMarkers
  <2>4. markers' \in Marks
    BY <2>1, <2>3 DEF Marks
  <2> QED BY <1>8, <2>4, Left_ DEF WriteMarkers
<1> QED BY <1>1, <1>2, <1>3, <1>4, <1>5, <1>6, <1>7, <1>8

\* The steps that record a waiver, a state, a checkpoint or a failure.
LEMMA LoudType ==
    ASSUME TypeOK, FlushVarsOK, NEW f \in Flushers,
           \/ Waive(f) \/ MarkWaived(f) \/ MarkLegacy(f) \/ Checkpoint(f)
           \/ ConsolidateFails(f) \/ FlusherCrash(f)
    PROVE  TypeOK' /\ FlushVarsOK'
<1> USE TypeParts DEF FlushVarsOK
<1>1. ASSUME ~Within(f, "idle") PROVE flush[f].turn \in Turns
  BY <1>1, InFlush
<1>2. CASE Waive(f)
  <2>1. FlushesOK'
    BY <1>2, Advanced DEF Waive, Within, FlushSteps
  <2>2. SetsOK'
    BY <1>1, <1>2 DEF Waive, Within, SetsOK
  <2> QED BY <1>2, <2>1, <2>2 DEF Waive, PassOK, EventsOK, SemOK, QueueOK, BeadsOK,
                                  CallsOK, JobsOK, CountsOK
<1>3. CASE MarkWaived(f) \/ MarkLegacy(f)
  <2>1. FlushesOK'
    BY <1>3, Advanced DEF MarkWaived, MarkLegacy, Record, Within, FlushSteps
  <2>2. SemOK'
    BY <1>3 DEF MarkWaived, MarkLegacy, Record, SemOK, Says
  <2> QED BY <1>3, <2>1, <2>2 DEF MarkWaived, MarkLegacy, Record, PassOK, EventsOK,
                                  QueueOK, BeadsOK, CallsOK, JobsOK, SetsOK, CountsOK
<1>4. CASE Checkpoint(f)
  <2>1. FlushesOK'
    BY <1>4, Advanced DEF Checkpoint, Within, FlushSteps
  <2> DEFINE Bead == [type: {"turn", "process_flush"}, turn: Turns, body: Bodies \cup {NoBody}]
             bead == [type |-> "process_flush", turn |-> flush[f].turn, body |-> NoBody]
  <2>2. bead \in Bead
    BY <1>1, <1>4 DEF Checkpoint, Within
  <2>3. beads \in Seq(Bead)
    BY DEF BeadsOK
  <2>4. beads' = beads \/ beads' = Append(beads, bead)
    BY <1>4 DEF Checkpoint
  <2>5. beads' \in Seq(Bead)
    <3> HIDE DEF Bead, bead
    <3> QED BY <2>2, <2>3, <2>4
  <2>6. BeadsOK'
    BY <2>5 DEF BeadsOK
  <2> QED BY <1>4, <2>1, <2>6 DEF Checkpoint, PassOK, EventsOK, SemOK, QueueOK, CallsOK,
                                  JobsOK, SetsOK, CountsOK
<1>5. CASE ConsolidateFails(f) \/ FlusherCrash(f)
  <2>1. FlushesOK'
    BY <1>5, Left_ DEF ConsolidateFails, FlusherCrash
  <2>2. CountsOK'
    BY <1>5, TurnBounds DEF ConsolidateFails, FlusherCrash, CountsOK
  <2> QED BY <1>5, <2>1, <2>2 DEF ConsolidateFails, FlusherCrash, files, PassOK, EventsOK,
                                  SemOK, QueueOK, BeadsOK, CallsOK, JobsOK, SetsOK
<1> QED BY <1>2, <1>3, <1>4, <1>5

\* A step of the whole system is one of the turn path, a quiet or a loud one.
Quiet(f) ==
    \/ (\E s \in Sessions : ReadLatest(f, s)) \/ ReadState(f) \/ DecidePasses(f)
    \/ DecideLegacy(f) \/ Refuse(f) \/ Skip(f) \/ Proceed(f) \/ Consolidate(f)
    \/ ReadMarkers(f) \/ Truncate(f) \/ WriteMarkers(f)
Loud(f) ==
    \/ Waive(f) \/ MarkWaived(f) \/ MarkLegacy(f) \/ Checkpoint(f)
    \/ ConsolidateFails(f) \/ FlusherCrash(f)

LEMMA StepKinds ==
    ASSUME [FlushNext]_allVars
    PROVE  \/ [TurnNext]_turnVars /\ UNCHANGED flushVars
           \/ \E f \in Flushers : Quiet(f) \/ Loud(f)
BY DEF FlushNext, FlushStep, Quiet, Loud, allVars

LEMMA UnchangedType ==
    /\ TypeOK /\ UNCHANGED turnVars => TypeOK'
    /\ FlushVarsOK /\ UNCHANGED flushVars => FlushVarsOK'
BY NextType DEF FlushVarsOK, FlushesOK, flushVars

LEMMA FlushTypeStep == TypeOK /\ FlushVarsOK /\ [FlushNext]_allVars => (TypeOK /\ FlushVarsOK)'
<1> SUFFICES ASSUME TypeOK, FlushVarsOK, [FlushNext]_allVars PROVE TypeOK' /\ FlushVarsOK'
  OBVIOUS
<1>1. CASE [TurnNext]_turnVars /\ UNCHANGED flushVars
  BY <1>1, NextType, UnchangedType
<1>2. ASSUME NEW f \in Flushers, Quiet(f) PROVE TypeOK' /\ FlushVarsOK'
  BY <1>2, QuietType, UnchangedType DEF Quiet
<1>3. ASSUME NEW f \in Flushers, Loud(f) PROVE TypeOK' /\ FlushVarsOK'
  BY <1>3, LoudType DEF Loud
<1> QED BY <1>1, <1>2, <1>3, StepKinds

LEMMA InitFlushType == FlushInit => TypeOK /\ FlushVarsOK
BY InitType, NoMarks DEF FlushInit, FlushVarsOK, FlushesOK

\* Types, with any number of flushers next to the turn path.
THEOREM FlushTypeCorrect == FlushSpec => []FlushTypeOK
<1>1. TypeOK /\ FlushVarsOK => FlushTypeOK
  BY DEF FlushVarsOK, FlushesOK, FlushTypeOK, Marks
<1> QED BY <1>1, InitFlushType, FlushTypeStep, PTL DEF FlushSpec

-----------------------------------------------------------------------------
(* Beads and waivers are only ever added                                    *)

LEMMA BeadKept ==
    ASSUME BeadsOK, beads' = beads \/ \E b : beads' = Append(beads, b), NEW i \in DOMAIN beads
    PROVE  i \in DOMAIN beads' /\ beads'[i] = beads[i]
BY DEF BeadsOK

LEMMA FlushGrows ==
    ASSUME TypeOK, [FlushNext]_allVars, NEW t
    PROVE  /\ t \in waivers => t \in waivers'
           /\ HasBead(t) => HasBead(t)'
           /\ HasTurnBead(t) => HasTurnBead(t)'
<1>1. beads' = beads \/ \E b : beads' = Append(beads, b)
  <2>1. CASE [TurnNext]_turnVars
    BY <2>1, BeadSteps
  <2>2. ASSUME NEW f \in Flushers, Quiet(f) PROVE beads' = beads
    BY <2>2 DEF Quiet, turnVars, ReadLatest, ReadState, DecidePasses, DecideLegacy,
       Refuse, Skip, Proceed, Consolidate, ReadMarkers, Truncate, WriteMarkers
  <2>3. ASSUME NEW f \in Flushers, Loud(f)
        PROVE  beads' = beads \/ \E b : beads' = Append(beads, b)
    BY <2>3, ZenonT(30) DEF Loud, Waive, MarkWaived, MarkLegacy, Record, Checkpoint,
       ConsolidateFails, FlusherCrash, files
  <2> QED BY <2>1, <2>2, <2>3, StepKinds
<1>2. \A i \in DOMAIN beads : i \in DOMAIN beads' /\ beads'[i] = beads[i]
  BY <1>1, BeadKept, TypeParts
<1>3. waivers \subseteq waivers'
  <2>1. CASE [TurnNext]_turnVars
    BY <2>1, WaiversStay
  <2>2. ASSUME NEW f \in Flushers, Quiet(f) PROVE waivers' = waivers
    BY <2>2 DEF Quiet, turnVars, ReadLatest, ReadState, DecidePasses, DecideLegacy,
       Refuse, Skip, Proceed, Consolidate, ReadMarkers, Truncate, WriteMarkers
  <2>3. ASSUME NEW f \in Flushers, Loud(f) PROVE waivers \subseteq waivers'
    BY <2>3 DEF Loud, Waive, MarkWaived, MarkLegacy, Record, Checkpoint,
       ConsolidateFails, FlusherCrash, files
  <2> QED BY <2>1, <2>2, <2>3, StepKinds
<1> QED BY <1>2, <1>3 DEF HasBead, HasTurnBead

LEMMA MaySayStays ==
    ASSUME TypeOK, [FlushNext]_allVars, NEW t, NEW say, MaySay(t, say)
    PROVE  MaySay(t, say)'
BY FlushGrows DEF MaySay

-----------------------------------------------------------------------------
(* Every waiver has its audit record                                        *)

\* What a flusher is about to record of a turn is true of it.
FlusherHonest ==
    \A f \in Flushers :
      /\ flush[f].at = "waived" => MaySay(flush[f].turn, "waived")
      /\ flush[f].at = "legacy" => MaySay(flush[f].turn, "committed")

\* Another flusher's step leaves this one alone.
LEMMA OneFlusher ==
    ASSUME FlushVarsOK, NEW f \in Flushers, Quiet(f) \/ Loud(f), NEW g \in Flushers, g # f
    PROVE  flush'[g] = flush[g]
<1>1. FlushesOK
  BY DEF FlushVarsOK
<1>2. CASE Quiet(f)
  BY <1>1, <1>2 DEF Quiet, ReadLatest, ReadState, DecidePasses, DecideLegacy, Refuse,
     Skip, Proceed, Consolidate, ReadMarkers, Truncate, WriteMarkers, Advance, Leave,
     FlushesOK
<1>3. CASE Loud(f)
  BY <1>1, <1>3 DEF Loud, Waive, MarkWaived, MarkLegacy, Record, Checkpoint,
     ConsolidateFails, FlusherCrash, Advance, Leave, FlushesOK
<1> QED BY <1>2, <1>3

\* Where a step takes a flusher, and what it has read on the way.
LEMMA FlusherMoves ==
    ASSUME FlushVarsOK, NEW f \in Flushers, Quiet(f) \/ Loud(f)
    PROVE  \/ flush'[f].at \in {"idle", "state", "decide", "remember", "truncate", "write"}
           \/ /\ flush'[f].turn = flush[f].turn
              /\ \/ flush'[f].at = "guard" /\ Passes(flush[f].turn, flush[f].seen)
                 \/ flush'[f].at = "legacy" /\ HasBead(flush[f].turn)
                 \/ flush'[f].at = "waived" /\ flush[f].turn \in waivers'
                 \/ /\ flush'[f].at \in {"guard", "consolidate", "checkpoint"}
                    /\ flush[f].at \in {"waived", "legacy", "guard", "consolidate"}
<1>1. FlushesOK
  BY DEF FlushVarsOK
<1>2. ASSUME NEW s \in Sessions, ReadLatest(f, s) PROVE flush'[f].at = "state"
  BY <1>1, <1>2 DEF ReadLatest, FlushesOK
<1>3. CASE ReadState(f)
  <2>1. flush[f] \in Flush
    BY <1>1, <1>3, InFlush DEF ReadState, Within
  <2>2. flush'[f] = [flush[f] EXCEPT !.at = "decide", !.seen = sem[flush[f].turn]]
    BY <1>1, <1>3 DEF ReadState, FlushesOK
  <2>3. flush'[f].at = "decide"
    BY <2>1, <2>2 DEF Flush
  <2> QED BY <2>3
<1>4. CASE DecidePasses(f)
  BY <1>1, <1>4, Advanced DEF DecidePasses, Within, FlushSteps
<1>5. CASE DecideLegacy(f)
  BY <1>1, <1>5, Advanced DEF DecideLegacy, Reconciles, Within, FlushSteps
<1>6. CASE Waive(f)
  <2>1. flush[f].turn \in waivers'
    BY <1>6 DEF Waive
  <2> QED BY <1>1, <1>6, <2>1, Advanced DEF Waive, Within, FlushSteps
<1>7. CASE MarkWaived(f) \/ MarkLegacy(f)
  BY <1>1, <1>7, Advanced DEF MarkWaived, MarkLegacy, Record, Within, FlushSteps
<1>8. CASE Proceed(f)
  BY <1>1, <1>8, Advanced DEF Proceed, Within, FlushSteps
<1>9. CASE Consolidate(f)
  BY <1>1, <1>9, Advanced DEF Consolidate, Within, FlushSteps
<1>10. CASE Checkpoint(f)
  BY <1>1, <1>10, Advanced DEF Checkpoint, Within, FlushSteps
<1>11. CASE ReadMarkers(f)
  <2>1. flush[f] \in Flush
    BY <1>1, <1>11, InFlush DEF ReadMarkers, Within
  <2>2. flush'[f] = [flush[f] EXCEPT !.at = "truncate", !.recall = markers]
    BY <1>1, <1>11 DEF ReadMarkers, FlushesOK
  <2>3. flush'[f].at = "truncate"
    BY <2>1, <2>2 DEF Flush
  <2> QED BY <2>3
<1>12. CASE Truncate(f)
  BY <1>1, <1>12, Advanced DEF Truncate, Within, FlushSteps
<1>13. CASE Refuse(f) \/ Skip(f) \/ WriteMarkers(f) \/ ConsolidateFails(f) \/ FlusherCrash(f)
  BY <1>1, <1>13, Left_ DEF Refuse, Skip, WriteMarkers, ConsolidateFails, FlusherCrash, Idle
<1> QED BY <1>2, <1>3, <1>4, <1>5, <1>6, <1>7, <1>8, <1>9, <1>10, <1>11, <1>12, <1>13
        DEF Quiet, Loud

\* A flusher that is about to record something has just read it.
LEMMA HonestStep ==
    ASSUME TypeOK, FlushVarsOK, FlusherHonest, [FlushNext]_allVars
    PROVE  FlusherHonest'
<1> SUFFICES ASSUME NEW g \in Flushers
             PROVE  /\ flush'[g].at = "waived" => MaySay(flush[g].turn, "waived")'
                    /\ flush'[g].at = "legacy" => MaySay(flush[g].turn, "committed")'
  BY DEF FlusherHonest, MaySay
<1>1. ASSUME NEW t, t \in waivers PROVE t \in waivers'
  BY <1>1, FlushGrows
<1>2. ASSUME NEW t, HasBead(t) PROVE HasBead(t)'
  BY <1>2, FlushGrows
<1>3. /\ flush'[g].at = "waived" =>
           flush'[g].turn \in waivers \/ flush'[g].turn \in waivers'
      /\ flush'[g].at = "legacy" => HasBead(flush'[g].turn)
  <2>1. CASE flush'[g] = flush[g]
    BY <2>1 DEF FlusherHonest, MaySay
  <2>2. CASE UNCHANGED flushVars
    BY <2>1, <2>2 DEF flushVars
  <2>3. ASSUME Quiet(g) \/ Loud(g) PROVE <1>3!1 /\ <1>3!2
    BY <2>3, FlusherMoves
  <2>4. ASSUME NEW f \in Flushers, Quiet(f) \/ Loud(f), f # g PROVE flush'[g] = flush[g]
    BY <2>4, OneFlusher
  <2> QED BY <2>1, <2>2, <2>3, <2>4, StepKinds
<1> QED BY <1>1, <1>2, <1>3 DEF MaySay, HasBead

\* What a flusher's step writes of the states is what it holds.
LEMMA FlushSem ==
    ASSUME TypeOK, FlushVarsOK, NEW f \in Flushers, Quiet(f) \/ Loud(f)
    PROVE  /\ call' = call
           /\ \/ sem' = sem
              \/ \E say \in {"waived", "committed"} :
                   /\ flush[f].at = IF say = "waived" THEN "waived" ELSE "legacy"
                   /\ sem' = [sem EXCEPT ![flush[f].turn] = say]
<1>1. CASE Quiet(f)
  <2>1. UNCHANGED turnVars
    BY <1>1 DEF Quiet, turnVars, ReadLatest, ReadState, DecidePasses, DecideLegacy,
       Refuse, Skip, Proceed, Consolidate, ReadMarkers, Truncate, WriteMarkers
  <2> QED BY <2>1 DEF turnVars
<1>2. CASE MarkWaived(f)
  BY <1>2 DEF MarkWaived, Record, Within
<1>3. CASE MarkLegacy(f)
  BY <1>3 DEF MarkLegacy, Record, Within
<1>4. CASE Waive(f) \/ Checkpoint(f) \/ ConsolidateFails(f) \/ FlusherCrash(f)
  BY <1>4 DEF Waive, Checkpoint, ConsolidateFails, FlusherCrash, files
<1> QED BY <1>1, <1>2, <1>3, <1>4 DEF Loud

LEMMA FlushTruthfulStep ==
    ASSUME TypeOK, FlushVarsOK, FlusherHonest, Truthful, [FlushNext]_allVars
    PROVE  Truthful'
<1>1. CASE [TurnNext]_turnVars
  BY <1>1, TruthfulStep
<1>2. ASSUME NEW f \in Flushers, Quiet(f) \/ Loud(f) PROVE Truthful'
  <2>1. call' = call
    BY <1>2, FlushSem
  <2>2. ASSUME NEW t \in Turns PROVE MaySay(t, sem'[t])
    <3>1. MaySay(t, sem[t])
      BY DEF Truthful, CommittedHasBead, WaivedOnFile, MaySay
    <3>2. ASSUME NEW say \in {"waived", "committed"},
                 flush[f].at = IF say = "waived" THEN "waived" ELSE "legacy",
                 sem' = [sem EXCEPT ![flush[f].turn] = say]
          PROVE  MaySay(t, sem'[t])
      <4>1. CASE t = flush[f].turn
        <5>1. sem'[t] = say
          BY <3>2, <4>1, TypeParts DEF SemOK
        <5> QED BY <3>2, <4>1, <5>1 DEF FlusherHonest, MaySay
      <4>2. CASE t # flush[f].turn
        <5>1. sem'[t] = sem[t]
          BY <3>2, <4>2, TypeParts DEF SemOK
        <5> QED BY <3>1, <5>1
      <4> QED BY <4>1, <4>2
    <3> QED BY <1>2, <3>1, <3>2, FlushSem
  <2>3. ASSUME NEW t, NEW say, MaySay(t, say) PROVE MaySay(t, say)'
    BY <2>3, MaySayStays
  <2>4. ASSUME NEW t \in Turns PROVE MaySay(t, sem[t])'
    BY <2>2, <2>3 DEF MaySay
  <2>5. ASSUME NEW a \in Adapters, call[a] # Idle
        PROVE  MaySay(call[a].turn, call[a].say)'
    <3>1. MaySay(call[a].turn, call[a].say)
      BY <2>5 DEF Truthful, SayHolds, MaySay
    <3> QED BY <2>1, <2>3, <3>1 DEF MaySay
  <2> QED BY <2>1, <2>4, <2>5 DEF Truthful, CommittedHasBead, WaivedOnFile, SayHolds, MaySay
<1> QED BY <1>1, <1>2, StepKinds

\* No turn is recorded as waived, by a flush or a receipt, without an audit
\* record: for any number of flushers, adapters and workers.
THEOREM WaiversAreAudited == FlushSpec => []WaiverAudited
<1> DEFINE IInv == TypeOK /\ FlushVarsOK /\ FlusherHonest /\ Truthful
<1>1. FlushInit => IInv
  BY InitFlushType, InitTruthful DEF FlushInit, FlusherHonest, Idle
<1>2. IInv /\ [FlushNext]_allVars => IInv'
  <2> SUFFICES ASSUME IInv, [FlushNext]_allVars PROVE IInv'
    OBVIOUS
  <2> QED BY FlushTypeStep, HonestStep, FlushTruthfulStep
<1>3. IInv => WaiverAudited
  BY DEF Truthful, WaivedOnFile, WaiverAudited
<1> QED BY <1>1, <1>2, <1>3, PTL DEF FlushSpec

-----------------------------------------------------------------------------
(* The semantic barrier                                                     *)

Cleared(t) == HasTurnBead(t) \/ t \in waivers
PastBarrier == {"guard", "legacy", "waived", "consolidate", "checkpoint"}
\* A bead of any kind means that its turn is cleared: DecideLegacy passes on
\* HasBead, which a checkpoint meets too.
BeadsAreCleared == \A i \in DOMAIN beads : Cleared(beads[i].turn)
FlusherCleared == \A f \in Flushers : flush[f].at \in PastBarrier => Cleared(flush[f].turn)

LEMMA ClearedStays ==
    ASSUME TypeOK, [FlushNext]_allVars, NEW t, Cleared(t)
    PROVE  Cleared(t)'
BY FlushGrows DEF Cleared

\* A bead that a step adds is a turn's own, or the checkpoint of a cleared turn.
LEMMA BeadsAreClearedStep ==
    ASSUME TypeOK, FlushVarsOK, BeadsAreCleared, FlusherCleared, [FlushNext]_allVars
    PROVE  BeadsAreCleared'
<1> SUFFICES ASSUME NEW i \in DOMAIN beads' PROVE Cleared(beads[i].turn)'
  BY DEF BeadsAreCleared
<1>1. ASSUME NEW t, Cleared(t) PROVE Cleared(t)'
  BY <1>1, ClearedStays
<1>2. \/ beads'[i].type = "turn"
      \/ Cleared(beads'[i].turn)
  <2>1. \/ i \in DOMAIN beads /\ beads'[i] = beads[i]
        \/ \E w \in Workers : beads'[i] = TurnBead(job[w].turn, job[w].body)
        \/ \E f \in Flushers : flush[f].at = "checkpoint" /\ beads'[i].turn = flush[f].turn
    <3>1. ASSUME NEW b, beads' = Append(beads, b)
          PROVE  (i \in DOMAIN beads /\ beads'[i] = beads[i]) \/ beads'[i] = b
      BY <3>1, TypeParts DEF BeadsOK
    <3>2. CASE beads' = beads
      BY <3>2
    <3>3. CASE [TurnNext]_turnVars
      BY <3>1, <3>2, <3>3, BeadSteps
    <3>4. ASSUME NEW f \in Flushers, Quiet(f) PROVE beads' = beads
      BY <3>4 DEF Quiet, turnVars, ReadLatest, ReadState, DecidePasses, DecideLegacy,
         Refuse, Skip, Proceed, Consolidate, ReadMarkers, Truncate, WriteMarkers
    <3>5. ASSUME NEW f \in Flushers, Loud(f), beads' # beads
          PROVE  /\ flush[f].at = "checkpoint"
                 /\ beads' = Append(beads, [type |-> "process_flush", turn |-> flush[f].turn,
                                            body |-> NoBody])
      BY <3>5, ZenonT(30) DEF Loud, Waive, MarkWaived, MarkLegacy, Record, Checkpoint,
         ConsolidateFails, FlusherCrash, files, Within
    <3>6. ASSUME NEW f \in Flushers, Loud(f), beads' # beads
          PROVE  \/ i \in DOMAIN beads /\ beads'[i] = beads[i]
                 \/ flush[f].at = "checkpoint" /\ beads'[i].turn = flush[f].turn
      <4> DEFINE bead == [type |-> "process_flush", turn |-> flush[f].turn, body |-> NoBody]
      <4>1. flush[f].at = "checkpoint" /\ beads' = Append(beads, bead)
        BY <3>5, <3>6
      <4>2. (i \in DOMAIN beads /\ beads'[i] = beads[i]) \/ beads'[i] = bead
        <5> HIDE DEF bead
        <5> QED BY <3>1, <4>1
      <4> QED BY <4>1, <4>2
    <3> QED BY <3>2, <3>3, <3>4, <3>6, StepKinds
  <2> QED BY <2>1 DEF BeadsAreCleared, FlusherCleared, PastBarrier, TurnBead
<1>3. CASE beads'[i].type = "turn"
  BY <1>3 DEF Cleared, HasTurnBead
<1>4. CASE Cleared(beads'[i].turn)
  BY <1>1, <1>4 DEF Cleared, HasTurnBead
<1> QED BY <1>2, <1>3, <1>4

\* What takes a flusher past the barrier clears its turn.
LEMMA FlusherClearedStep ==
    ASSUME TypeOK, FlushVarsOK, BeadsAreCleared, FlusherCleared, [FlushNext]_allVars
    PROVE  FlusherCleared'
<1> SUFFICES ASSUME NEW g \in Flushers, flush'[g].at \in PastBarrier
             PROVE  Cleared(flush[g].turn)'
  BY DEF FlusherCleared, Cleared, HasTurnBead
<1>1. ASSUME NEW t, Cleared(t) PROVE Cleared(t)'
  BY <1>1, ClearedStays
<1>2. ASSUME NEW t, HasBead(t) PROVE Cleared(t)
  BY <1>2 DEF HasBead, BeadsAreCleared
<1>3. Cleared(flush'[g].turn) \/ flush'[g].turn \in waivers'
  <2>1. CASE flush'[g] = flush[g]
    BY <2>1 DEF FlusherCleared
  <2>2. CASE UNCHANGED flushVars
    BY <2>1, <2>2 DEF flushVars
  <2>3. ASSUME Quiet(g) \/ Loud(g)
        PROVE  Cleared(flush'[g].turn) \/ flush'[g].turn \in waivers'
    <3>1. Passes(flush[g].turn, flush[g].seen) => Cleared(flush[g].turn)
      BY <1>2 DEF Passes, Cleared
    <3>2. flush[g].at \in {"waived", "legacy", "guard", "consolidate"}
            => Cleared(flush[g].turn)
      BY DEF FlusherCleared, PastBarrier
    <3>3. flush'[g].at
            \notin {"idle", "state", "decide", "remember", "truncate", "write"}
      BY DEF PastBarrier
    <3>4. HasBead(flush[g].turn) => Cleared(flush[g].turn)
      BY <1>2
    <3> QED BY <2>3, <3>1, <3>2, <3>3, <3>4, FlusherMoves
  <2>4. ASSUME NEW f \in Flushers, Quiet(f) \/ Loud(f), f # g PROVE flush'[g] = flush[g]
    BY <2>4, OneFlusher
  <2> QED BY <2>1, <2>2, <2>3, <2>4, StepKinds
<1> QED BY <1>1, <1>3 DEF Cleared, HasTurnBead

\* Only a flusher past the barrier consolidates.
LEMMA BarrierStep ==
    ASSUME TypeOK, FlushVarsOK, FlusherCleared, FlushBarrier, [FlushNext]_allVars
    PROVE  FlushBarrier'
<1> SUFFICES ASSUME NEW t \in Turns, flushed'[t] > 0 PROVE Cleared(t)'
  BY DEF FlushBarrier, Cleared, HasTurnBead
<1>1. ASSUME Cleared(t) PROVE Cleared(t)'
  BY <1>1, ClearedStays
<1>2. CASE flushed'[t] = flushed[t]
  BY <1>1, <1>2 DEF FlushBarrier, Cleared
<1>3. ASSUME NEW f \in Flushers, Consolidate(f), flushed'[t] # flushed[t] PROVE Cleared(t)
  <2>1. t = flush[f].turn /\ flush[f].at = "consolidate"
    BY <1>3 DEF Consolidate, Within, FlushVarsOK
  <2> QED BY <2>1 DEF FlusherCleared, PastBarrier
<1>4. ASSUME NEW f \in Flushers, Quiet(f) \/ Loud(f), ~Consolidate(f)
      PROVE  flushed' = flushed
  BY <1>4 DEF Quiet, Loud, ReadLatest, ReadState, DecidePasses, DecideLegacy, Refuse,
     Skip, Proceed, ReadMarkers, Truncate, WriteMarkers, Waive, MarkWaived, MarkLegacy,
     Record, Checkpoint, ConsolidateFails, FlusherCrash
<1>5. CASE UNCHANGED flushVars
  BY <1>2, <1>5 DEF flushVars
<1> QED BY <1>1, <1>2, <1>3, <1>4, <1>5, StepKinds

LEMMA InitCleared == FlushInit => BeadsAreCleared /\ FlusherCleared /\ FlushBarrier
<1> SUFFICES ASSUME FlushInit PROVE BeadsAreCleared /\ FlusherCleared /\ FlushBarrier
  OBVIOUS
<1>1. BeadsAreCleared
  <2>1. PICK n \in Nat : \E old \in [1..n -> Legacy] :
          beads = [i \in 1..n |-> TurnBead(old[i], NoBody)]
    BY InitOld DEF FlushInit
  <2>2. \A i \in DOMAIN beads : beads[i].type = "turn"
    BY <2>1 DEF TurnBead
  <2> QED BY <2>2 DEF BeadsAreCleared, Cleared, HasTurnBead
<1>2. FlusherCleared
  BY DEF FlushInit, FlusherCleared, PastBarrier, Idle
<1>3. FlushBarrier
  BY DEF FlushInit, FlushBarrier
<1> QED BY <1>1, <1>2, <1>3

\* The semantic barrier: no turn is consolidated that has no bead of its own
\* and no waiver, whatever the adapters, the workers and the other flushers do
\* between the barrier's two reads and the consolidation.
THEOREM BarrierHolds == FlushSpec => []FlushBarrier
<1> DEFINE IInv == /\ TypeOK /\ FlushVarsOK
                   /\ BeadsAreCleared /\ FlusherCleared /\ FlushBarrier
<1>1. FlushInit => IInv
  BY InitFlushType, InitCleared
<1>2. IInv /\ [FlushNext]_allVars => IInv'
  <2> SUFFICES ASSUME IInv, [FlushNext]_allVars PROVE IInv'
    OBVIOUS
  <2> QED BY FlushTypeStep, BeadsAreClearedStep, FlusherClearedStep, BarrierStep
<1>3. IInv => FlushBarrier
  OBVIOUS
<1> QED BY <1>1, <1>2, <1>3, PTL DEF FlushSpec

-----------------------------------------------------------------------------
(* What a committed state stands for                                        *)

CommittedIsCleared == \A t \in Turns : sem[t] = "committed" => Cleared(t)

LEMMA ClearedInvariant ==
    FlushSpec => [](/\ TypeOK /\ FlushVarsOK /\ BeadsAreCleared /\ FlusherCleared
                    /\ FlusherHonest /\ Truthful)
<1> DEFINE IInv == /\ TypeOK /\ FlushVarsOK /\ BeadsAreCleared /\ FlusherCleared
                   /\ FlusherHonest /\ Truthful
<1>1. FlushInit => IInv
  BY InitFlushType, InitCleared, InitTruthful DEF FlushInit, FlusherHonest, Idle
<1>2. IInv /\ [FlushNext]_allVars => IInv'
  <2> SUFFICES ASSUME IInv, [FlushNext]_allVars PROVE IInv'
    OBVIOUS
  <2> QED BY FlushTypeStep, BeadsAreClearedStep, FlusherClearedStep, HonestStep,
             FlushTruthfulStep
<1> QED BY <1>1, <1>2, PTL DEF FlushSpec

\* A turn is recorded as committed, by a receipt or by a flush that reconciles an
\* older bead, only if it has the bead of its own or was waived: the checkpoint of
\* a flush, which the lookup takes for a bead too, is of a cleared turn.
THEOREM CommittedTurnsAreCleared == FlushSpec => []CommittedIsCleared
<1>1. BeadsAreCleared /\ Truthful => CommittedIsCleared
  BY DEF Truthful, CommittedHasBead, HasBead, BeadsAreCleared, CommittedIsCleared
<1> QED BY <1>1, ClearedInvariant, PTL

\* Where no operator may override the barrier a committed turn has its bead.  With
\* an override TLC finds a waived turn that is recorded as committed.
THEOREM CommitsAreAuthored ==
    ASSUME MayOverride = FALSE
    PROVE  FlushSpec => []CommittedIsAuthored
<1> DEFINE NoWaivers == waivers = {}
<1>1. FlushInit => NoWaivers
  BY DEF FlushInit, Init
<1>2. NoWaivers /\ [FlushNext]_allVars => NoWaivers'
  <2> SUFFICES ASSUME [FlushNext]_allVars PROVE waivers' = waivers
    OBVIOUS
  <2>1. CASE [TurnNext]_turnVars
    BY <2>1, WaiversStay
  <2>2. ASSUME NEW f \in Flushers, Quiet(f) PROVE waivers' = waivers
    BY <2>2 DEF Quiet, turnVars, ReadLatest, ReadState, DecidePasses, DecideLegacy,
       Refuse, Skip, Proceed, Consolidate, ReadMarkers, Truncate, WriteMarkers
  <2>3. ASSUME NEW f \in Flushers, Loud(f) PROVE waivers' = waivers
    <3>1. ~Waive(f)
      BY DEF Waive
    <3>2. CASE MarkWaived(f) \/ MarkLegacy(f)
      BY <3>2 DEF MarkWaived, MarkLegacy, Record
    <3>3. CASE Checkpoint(f) \/ ConsolidateFails(f) \/ FlusherCrash(f)
      BY <3>3, ZenonT(30) DEF Checkpoint, ConsolidateFails, FlusherCrash, files
    <3> QED BY <2>3, <3>1, <3>2, <3>3 DEF Loud
  <2> QED BY <2>1, <2>2, <2>3, StepKinds
<1>3. NoWaivers /\ CommittedIsCleared => CommittedIsAuthored
  BY DEF CommittedIsCleared, Cleared, CommittedIsAuthored
<1> HIDE DEF NoWaivers
<1> QED BY <1>1, <1>2, <1>3, CommittedTurnsAreCleared, PTL DEF FlushSpec
===============================================================================
