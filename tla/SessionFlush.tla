----------------------------- MODULE SessionFlush -----------------------------
(***************************************************************************)
(* process_flush (runtime/flush/flush_flow.py, flush_state.py), next to    *)
(* the turns that are being written: any number of processes flush, and    *)
(* each file is read and written on its own.                               *)
(*                                                                         *)
(* A flush archives and compacts a session's beads.  It is let through by  *)
(* the semantic barrier: the latest finalized turn of the session has its  *)
(* canonical bead, or an operator waived it.  A marker per session keeps   *)
(* it from running twice for one turn.  A flush of a session that has no   *)
(* finalized turn meets neither and is left out; what consolidation does   *)
(* to the beads is BeadStore's Compact.                                    *)
(***************************************************************************)
EXTENDS TurnWrite

CONSTANTS
    Flushers,      \* processes in process_flush
    MayOverride    \* whether operators pass semantic_override

ASSUME OverrideAssumption == MayOverride \in BOOLEAN

VARIABLES
    flush,     \* what each flusher is at
    markers,   \* flush-state.json: the turn each session was last flushed at
    flushed    \* history: how often each turn was consolidated (0, 1, 2 = more)

flushVars == <<flush, markers, flushed>>
allVars == <<turnVars, flushVars>>

Sessions == {SessionOf[t] : t \in Turns}
FlushSteps == {"state", "decide", "legacy", "waived", "guard", "consolidate",
               "checkpoint", "remember", "truncate", "write"}
\* What a flusher holds; recall is the whole marker file as it read it.
Flush == [at: FlushSteps, session: Sessions, turn: Turns,
          seen: {"none", "pending", "repair_required", "committed", "waived"},
          recall: UNION {[S -> Turns] : S \in SUBSET Sessions}]

Within(f, step) == flush[f].at = step
Advance(f, step) == flush' = [flush EXCEPT ![f].at = step]
Leave(f) == flush' = [flush EXCEPT ![f] = Idle]

-----------------------------------------------------------------------------
(* The semantic barrier                                                     *)

InSession(s) == {i \in DOMAIN events : SessionOf[events[i].turn] = s}
\* latest_finalized_turn: the newest envelope, not the last line.
Latest(s) ==
    events[CHOOSE i \in InSession(s) : \A j \in InSession(s) :
             \/ events[j].stamp < events[i].stamp
             \/ events[j].stamp = events[i].stamp /\ j <= i].turn

ReadLatest(f, s) ==
    /\ Within(f, "idle") /\ InSession(s) # {}
    /\ flush' = [flush EXCEPT ![f] =
          [at |-> "state", session |-> s, turn |-> Latest(s), seen |-> "none",
           recall |-> <<>>]]
    /\ UNCHANGED <<turnVars, markers, flushed>>

ReadState(f) ==
    /\ Within(f, "state")
    /\ flush' = [flush EXCEPT ![f].at = "decide", ![f].seen = sem[flush[f].turn]]
    /\ UNCHANGED <<turnVars, markers, flushed>>

\* Mutants of Passes: a pending state is looked through; older turns count.
Mut_Passes(t, seen) ==
    t \in waivers \/ (HasBead(t) /\ seen = "committed") \/ seen = "pending"
Mut_PassesAll(t, seen) ==
    /\ HasBead(t) /\ seen = "committed"
    /\ \A u \in Turns : SessionOf[u] = SessionOf[t] => sem[u] \in {"none", "committed"}
\* The barrier is met: a waiver is on record, or a bead and a committed state.
Passes(t, seen) == t \in waivers \/ (HasBead(t) /\ seen = "committed")
\* A bead older than semantic-write state: the state is still to be recorded.
Reconciles(t, seen) == t \notin waivers /\ HasBead(t) /\ seen = "none"

DecidePasses(f) ==
    /\ Within(f, "decide") /\ Passes(flush[f].turn, flush[f].seen)
    /\ Advance(f, "guard")
    /\ UNCHANGED <<turnVars, markers, flushed>>

DecideLegacy(f) ==
    /\ Within(f, "decide") /\ Reconciles(flush[f].turn, flush[f].seen)
    /\ Advance(f, "legacy")
    /\ UNCHANGED <<turnVars, markers, flushed>>

Unmet(f) ==
    LET t == flush[f].turn
    IN  ~Passes(t, flush[f].seen) /\ ~Reconciles(t, flush[f].seen)

Refuse(f) ==
    /\ Within(f, "decide") /\ Unmet(f)
    /\ Leave(f)
    /\ UNCHANGED <<turnVars, markers, flushed>>

\* Mutant of Waive: the state is marked, no audit record is written.
Mut_Waive(f) ==
    /\ Within(f, "decide") /\ Unmet(f) /\ MayOverride
    /\ sem' = [sem EXCEPT ![flush[f].turn] = "waived"]
    /\ Advance(f, "waived")
    /\ UNCHANGED <<pass, events, waivers, queue, envelopes, beads, call, job, stamps,
                   worked, answered, failures, crashes, markers, flushed>>
\* record_semantic_flush_waiver: the audit record first ...
Waive(f) ==
    /\ Within(f, "decide") /\ Unmet(f) /\ MayOverride
    /\ waivers' = waivers \cup {flush[f].turn}
    /\ Advance(f, "waived")
    /\ UNCHANGED <<pass, events, sem, queue, envelopes, beads, call, job, stamps,
                   worked, answered, failures, crashes, markers, flushed>>

Record(f, step, status) ==
    /\ Within(f, step)
    /\ sem' = [sem EXCEPT ![flush[f].turn] = status]
    /\ Advance(f, "guard")
    /\ UNCHANGED <<pass, events, waivers, queue, envelopes, beads, call, job, stamps,
                   worked, answered, failures, crashes, markers, flushed>>
\* ... and the status after it.
MarkWaived(f) == Record(f, "waived", "waived")
MarkLegacy(f) == Record(f, "legacy", "committed")

-----------------------------------------------------------------------------
(* The flush itself                                                         *)

AlreadyFlushed(s, t) == s \in DOMAIN markers /\ markers[s] = t

Skip(f) ==
    /\ Within(f, "guard") /\ AlreadyFlushed(flush[f].session, flush[f].turn)
    /\ Leave(f)
    /\ UNCHANGED <<turnVars, markers, flushed>>

Proceed(f) ==
    /\ Within(f, "guard") /\ ~AlreadyFlushed(flush[f].session, flush[f].turn)
    /\ Advance(f, "consolidate")
    /\ UNCHANGED <<turnVars, markers, flushed>>

Consolidate(f) ==
    /\ Within(f, "consolidate")
    /\ flushed' = [flushed EXCEPT ![flush[f].turn] = IF @ = 2 THEN 2 ELSE @ + 1]
    /\ Advance(f, "checkpoint")
    /\ UNCHANGED <<turnVars, markers>>

ConsolidateFails(f) ==
    /\ Within(f, "consolidate")
    /\ failures < MaxFailures /\ failures' = failures + 1
    /\ Leave(f)
    /\ UNCHANGED <<pass, events, sem, waivers, queue, envelopes, beads, call, job,
                   stamps, worked, answered, crashes, markers, flushed>>

Checkpoints(t) ==
    {i \in Recent(t) : beads[i].type = "process_flush" /\ beads[i].turn = t}

\* upsert_process_flush_checkpoint_bead: under a flush_tx_id the session used
\* before (the default one is its own), nothing; else a bead of that turn,
\* unless add_bead finds it a duplicate.
Checkpoint(f) ==
    LET t == flush[f].turn
    IN  /\ Within(f, "checkpoint")
        /\ \/ beads' = IF Checkpoints(t) # {} THEN beads
                       ELSE Append(beads, [type |-> "process_flush", turn |-> t,
                                           body |-> NoBody])
           \/ /\ \E i \in DOMAIN beads :
                   /\ beads[i].type = "process_flush"
                   /\ SessionOf[beads[i].turn] = SessionOf[t]
              /\ UNCHANGED beads
        /\ Advance(f, "remember")
        /\ UNCHANGED <<pass, events, sem, waivers, queue, envelopes, call, job, stamps,
                       worked, answered, failures, crashes, markers, flushed>>

\* The marker: the file is read, truncated, and written, with no lock; a
\* truncated file reads as an empty one.
ReadMarkers(f) ==
    /\ Within(f, "remember")
    /\ flush' = [flush EXCEPT ![f].at = "truncate", ![f].recall = markers]
    /\ UNCHANGED <<turnVars, markers, flushed>>

Truncate(f) ==
    /\ Within(f, "truncate")
    /\ markers' = <<>>
    /\ Advance(f, "write")
    /\ UNCHANGED <<turnVars, flushed>>

WriteMarkers(f) ==
    /\ Within(f, "write")
    /\ markers' = [s \in DOMAIN flush[f].recall \cup {flush[f].session} |->
          IF s = flush[f].session THEN flush[f].turn ELSE flush[f].recall[s]]
    /\ Leave(f)
    /\ UNCHANGED <<turnVars, flushed>>

FlusherCrash(f) ==
    /\ ~Within(f, "idle") /\ f \in Mortal /\ crashes < MaxCrashes
    /\ crashes' = crashes + 1
    /\ Leave(f)
    /\ UNCHANGED <<files, call, job, stamps, worked, answered, failures, markers, flushed>>

-----------------------------------------------------------------------------
FlushInit ==
    /\ Init
    /\ flush = [f \in Flushers |-> Idle]
    /\ markers = <<>>
    /\ flushed = [t \in Turns |-> 0]

FlushStep(f) ==
    \/ (\E s \in Sessions : ReadLatest(f, s))
    \/ ReadState(f) \/ DecidePasses(f) \/ DecideLegacy(f) \/ Refuse(f)
    \/ MarkWaived(f) \/ MarkLegacy(f) \/ Skip(f) \/ Proceed(f)
    \/ Consolidate(f) \/ Checkpoint(f) \/ ReadMarkers(f) \/ Truncate(f) \/ WriteMarkers(f)

FlushNext ==
    \/ TurnNext /\ UNCHANGED flushVars
    \/ \E f \in Flushers :
         FlushStep(f) \/ Waive(f) \/ ConsolidateFails(f) \/ FlusherCrash(f)

FlushSpec == FlushInit /\ [][FlushNext]_allVars

\* As in TurnWrite, and sessions are flushed again and again: a refusal is
\* answered retryable, and every later compaction flushes.
FairFlushSpec ==
    /\ FlushSpec
    /\ \A a \in Adapters : WF_allVars(Continue(a) /\ UNCHANGED flushVars)
    /\ \A w \in Workers : WF_allVars(Work(w) /\ UNCHANGED flushVars)
    /\ \A f \in Flushers : WF_allVars(FlushStep(f))

-----------------------------------------------------------------------------
(* Properties                                                               *)

FlushTypeOK ==
    /\ TypeOK
    /\ flush \in [Flushers -> {Idle} \cup Flush]
    /\ DOMAIN markers \subseteq Sessions
    /\ \A s \in DOMAIN markers : markers[s] \in Turns
    /\ flushed \in [Turns -> 0..2]

HasTurnBead(t) == \E i \in DOMAIN beads : beads[i].type = "turn" /\ beads[i].turn = t

\* "Normal flush refuses a latest turn with no canonical bead": whatever is
\* redelivered, repaired, waived or killed between the barrier's reads and
\* the consolidation, what was flushed has the bead of its turn, or a waiver.
FlushBarrier == \A t \in Turns : flushed[t] > 0 => HasTurnBead(t) \/ t \in waivers

\* "requires an explicit operator override and writes an audit record": no
\* turn is recorded as waived, by a flush or by a receipt, without one.
WaiverAudited == \A t \in Turns : sem[t] = "waived" => t \in waivers

\* "Older pending turns do not wedge": a session whose latest turn stays
\* committed is flushed at it, whatever state its older turns are in.
LatestCommittedIsFlushed ==
    \A t \in Turns :
      LET s == SessionOf[t]
      IN  <>[](InSession(s) # {} /\ Latest(s) = t /\ sem[t] = "committed")
            => <>(flushed[t] > 0)

\* "`committed`: exactly one canonical current-turn bead exists".
CommittedIsAuthored == \A t \in Turns : sem[t] = "committed" => HasTurnBead(t)

\* "once-per-cycle guard": a turn is consolidated once.
OneFlushPerTurn == \A t \in Turns : flushed[t] <= 1

\* ... and it is remembered: once no flusher is at work on a session, its
\* marker is in the file, unless another session's is just being written.
FlushIsRemembered ==
    (\A f \in Flushers : ~Within(f, "write")) =>
      \A t \in Turns :
        flushed[t] > 0 =>
          \/ SessionOf[t] \in DOMAIN markers
          \/ \E f \in Flushers : flush[f] # Idle /\ flush[f].session = SessionOf[t]

\* "an explicit pending/repair_required state is authoritative and must
\* continue to block normal flush": the barrier never writes over one.
PendingBlocks ==
    [][\A f \in Flushers :
         MarkLegacy(f) => sem[flush[f].turn] \notin {"pending", "repair_required"}]_allVars
=============================================================================
