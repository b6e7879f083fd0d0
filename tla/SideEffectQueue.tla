---------------------------- MODULE SideEffectQueue ----------------------------
(***************************************************************************)
(* The durable side-effect outbox of Core Memory:                          *)
(*   core_memory/persistence/side_effect_outbox.py   (files, enqueue)      *)
(*   core_memory/runtime/queue/side_effect_queue.py  (claim, run, settle)  *)
(*                                                                         *)
(* Two files hold it: the queue, a list of rows, and the breaker state.    *)
(* Any process may enqueue; any number of processes drain at once.  Every  *)
(* access is a load-modify-persist under the store lock, so it is one      *)
(* action here, but running an item's handler is not: the lock is dropped  *)
(* between claiming rows, running each, and settling each.                 *)
(*                                                                         *)
(* Identifiers.  Rows are only ever appended, so the uuid of a row is      *)
(* modelled by its serial number and the list order of the queue is the    *)
(* order of its domain.  A lease token is fresh for each claim; a drain    *)
(* settles a row only if the row still holds the token it was claimed      *)
(* with, and a drain never claims the same row twice, so the identity of   *)
(* the drainer tells the tokens apart.                                     *)
(*                                                                         *)
(* Time.  The code compares whole seconds.  next_retry_at, lease_until and *)
(* opened_until are kept as the seconds LEFT until then, 0 once reached    *)
(* (a past instant and the instant 0 are the same to every comparison).    *)
(* drain reads the clock ONCE: age[d] is how many seconds old that reading *)
(* is, which is what a later "now + backoff" is computed from.             *)
(***************************************************************************)
EXTENDS Integers, FiniteSets

CONSTANTS
    Drainers,          \* processes that call drain_side_effect_queue
    Keys,              \* idempotency keys in use
    NoKey,             \* an enqueue without idempotency_key
    Poison,            \* items whose handler can never succeed
    MaxEnqueues,       \* bound: rows ever appended
    MaxCrashes,        \* bound: drainers killed
    MaxItems,          \* the max_items argument of drain
    LeaseSeconds,      \* _CLAIM_LEASE_SECONDS
    MaxBackoff,        \* the 300 of the backoff formula
    MaxExponent,       \* the 8 of the backoff formula
    BreakerThreshold,  \* consecutive failures that open the breaker
    OpenSeconds,       \* how long it stays open
    MaxProcess         \* longest run of one handler, in seconds

Ids == 1..MaxEnqueues

ASSUME NoKeyAssumption == NoKey \notin Keys
ASSUME BoundsAssumption ==
    /\ MaxEnqueues \in Nat \ {0}
    /\ MaxCrashes \in Nat
    /\ MaxItems \in Nat \ {0}
    /\ LeaseSeconds \in Nat \ {0}
    /\ MaxBackoff \in Nat \ {0}
    /\ MaxExponent \in Nat
    /\ BreakerThreshold \in Nat \ {0}
    /\ OpenSeconds \in Nat \ {0}
    /\ MaxProcess \in Nat
\* Arithmetic the provers lack: a power of two is a natural number.
ASSUME PowerAssumption == \A n \in 0..MaxExponent : 2^n \in Nat
ASSUME PoisonAssumption == Poison \subseteq Ids
ASSUME DrainersAssumption == 0 \notin Drainers

Nobody == 0            \* lease_token is None

VARIABLES
    rows,      \* the queue file: a function from the ids in it to rows
    enqueued,  \* how many rows were ever appended
    failures,  \* state file: consecutive_failures
    openIn,    \* state file: seconds until opened_until
    todo,      \* todo[d]: claimed rows that d has not settled yet
    phase,     \* phase[d]: "run" a handler, or "settle" its result
    okay,      \* okay[d]: the result of the last handler d ran
    age,       \* age[d]: how old d's reading of the clock is
    busy,      \* busy[d]: seconds d has spent in the current handler
    executed,  \* history: rows whose handler returned ok at least once
    crashes    \* history: how many drainers were killed

files == <<rows, failures, openIn>>
vars == <<rows, enqueued, failures, openIn, todo, phase, okay, age, busy,
          executed, crashes>>

Smaller(x, y) == IF x <= y THEN x ELSE y
Larger(x, y) == IF x <= y THEN y ELSE x

\* A clock reading older than every duration added to it need not get older.
MaxAge == Larger(LeaseSeconds, Larger(MaxBackoff, OpenSeconds))
\* Seconds from now until "stale now + duration"; 0 when that is past.
Left(duration, d) == Larger(0, duration - age[d])
\* Seconds left, a second later.
Less(x) == Larger(0, x - 1)

Row == [key: Keys \cup {NoKey}, attempts: 0..MaxExponent,
        retryIn: 0..MaxBackoff, leaseIn: 0..LeaseSeconds,
        holder: Drainers \cup {Nobody}]

Queued == DOMAIN rows
Idle(d) == todo[d] = {}
\* The claims are worked off in queue order: i is the one d is at.
IsCurrent(d, i) == i \in todo[d] /\ \A j \in todo[d] : i <= j
Running(d, i) == IsCurrent(d, i) /\ phase[d] = "run"
Leased(i) == rows[i].leaseIn > 0

\* Mutants of Eligible: leases are not looked at; leases never expire.
Mut_EligibleLeased == {i \in Queued : rows[i].retryIn = 0}
Mut_EligibleUnheld ==
    {i \in Queued : rows[i].retryIn = 0 /\ rows[i].holder = Nobody}
\* Rows a drain that starts now may claim, and the first MaxItems of them.
Eligible == {i \in Queued : rows[i].retryIn = 0 /\ ~Leased(i)}
Claims == {i \in Eligible :
             Cardinality({j \in Eligible : j < i}) < MaxItems}

Backoff(attempts) == Smaller(MaxBackoff, 2^Smaller(MaxExponent, attempts))
Without(i) == [j \in Queued \ {i} |-> rows[j]]

Init ==
    /\ rows = [i \in {} |-> 0]
    /\ enqueued = 0
    /\ failures = 0
    /\ openIn = 0
    /\ todo = [d \in Drainers |-> {}]
    /\ phase = [d \in Drainers |-> "run"]
    /\ okay = [d \in Drainers |-> FALSE]
    /\ age = [d \in Drainers |-> 0]
    /\ busy = [d \in Drainers |-> 0]
    /\ executed = {}
    /\ crashes = 0

-----------------------------------------------------------------------------
(* Producers: any process, among them the handlers of other items.          *)

\* Mutant of NewKey: rows that are being worked on do not count.
Mut_NewKey(k) == k = NoKey \/ \A i \in Queued : Leased(i) \/ rows[i].key # k

\* No row of this key is in the queue, leased or not.
NewKey(k) == k = NoKey \/ \A i \in Queued : rows[i].key # k

\* enqueue_side_effect_event, and the outbox function below it: a key that is
\* in the queue is answered "duplicate" and appends nothing.
Enqueue(k) ==
    /\ enqueued < MaxEnqueues
    /\ NewKey(k)
    /\ enqueued' = enqueued + 1
    /\ rows' = [i \in Queued \cup {enqueued + 1} |->
                  IF i = enqueued + 1
                    THEN [key |-> k, attempts |-> 0, retryIn |-> 0,
                          leaseIn |-> 0, holder |-> Nobody]
                    ELSE rows[i]]
    /\ UNCHANGED <<failures, openIn, todo, phase, okay, age, busy, executed, crashes>>

-----------------------------------------------------------------------------
(* drain_side_effect_queue                                                  *)

\* Read the clock; under the lock, return if the breaker is open, else lease
\* the first MaxItems rows that are due and not leased.
Claim(d) ==
    /\ Idle(d)
    /\ openIn = 0
    /\ Claims # {}
    /\ rows' = [i \in Queued |->
                  IF i \in Claims
                    THEN [rows[i] EXCEPT !.leaseIn = LeaseSeconds, !.holder = d]
                    ELSE rows[i]]
    /\ todo' = [todo EXCEPT ![d] = Claims]
    /\ phase' = [phase EXCEPT ![d] = "run"]
    /\ UNCHANGED <<enqueued, failures, openIn, okay, age, busy, executed, crashes>>

\* process_item returns, or raises, outside the lock.  Nothing is looked up
\* before the handler runs: neither the lease of this row nor the breaker.
Run(d, i, ok) ==
    /\ Running(d, i)
    /\ ok => i \notin Poison
    /\ okay' = [okay EXCEPT ![d] = ok]
    /\ executed' = IF ok THEN executed \cup {i} ELSE executed
    /\ phase' = [phase EXCEPT ![d] = "settle"]
    /\ UNCHANGED <<rows, enqueued, failures, openIn, todo, age, busy, crashes>>

\* Mutant of Holds: the row is looked up by its id alone.
Mut_Holds(d, i) == i \in Queued

\* The row the drain claimed is still there under the token it was given.
Holds(d, i) == i \in Queued /\ rows[i].holder = d

\* Mutant of SettledRows: a row is dropped when its retries are used up.
Mut_SettledRows(d, i) ==
    IF ~Holds(d, i) THEN rows
    ELSE IF okay[d] \/ rows[i].attempts = MaxExponent THEN Without(i)
    ELSE [rows EXCEPT ![i].attempts = @ + 1, ![i].retryIn = 1,
                      ![i].leaseIn = 0, ![i].holder = Nobody]

\* What settling i leaves in the queue file ...
SettledRows(d, i) ==
    LET tries == rows[i].attempts + 1
    IN  IF ~Holds(d, i) THEN rows
        ELSE IF okay[d] THEN Without(i)
        ELSE [rows EXCEPT ![i] =
                [key |-> rows[i].key,
                 attempts |-> Smaller(MaxExponent, tries),
                 retryIn |-> Left(Backoff(tries), d),
                 leaseIn |-> 0,
                 holder |-> Nobody]]

\* ... and in the state file (failures is only compared with the threshold).
SettledFailures(d, i) ==
    IF ~Holds(d, i) THEN failures
    ELSE IF okay[d] THEN 0
    ELSE Smaller(BreakerThreshold, failures + 1)
SettledOpenIn(d, i) ==
    IF ~Holds(d, i) THEN openIn
    ELSE IF okay[d] THEN 0
    ELSE IF failures + 1 >= BreakerThreshold THEN Left(OpenSeconds, d)
    ELSE openIn

\* Under the lock: find the row by id and token, then remove it or put it
\* back with a backoff; a row that is no longer ours is left alone.
Settle(d, i) ==
    /\ IsCurrent(d, i)
    /\ phase[d] = "settle"
    /\ rows' = SettledRows(d, i)
    /\ failures' = SettledFailures(d, i)
    /\ openIn' = SettledOpenIn(d, i)
    /\ todo' = [todo EXCEPT ![d] = todo[d] \ {i}]
    /\ phase' = [phase EXCEPT ![d] = "run"]
    /\ okay' = [okay EXCEPT ![d] = FALSE]
    /\ busy' = [busy EXCEPT ![d] = 0]
    /\ age' = [age EXCEPT ![d] = IF todo[d] = {i} THEN 0 ELSE age[d]]
    /\ UNCHANGED <<enqueued, executed, crashes>>

-----------------------------------------------------------------------------
(* The environment                                                          *)

Die(d) ==
    /\ ~Idle(d)
    /\ crashes < MaxCrashes
    /\ crashes' = crashes + 1
    /\ todo' = [todo EXCEPT ![d] = {}]
    /\ phase' = [phase EXCEPT ![d] = "run"]
    /\ okay' = [okay EXCEPT ![d] = FALSE]
    /\ busy' = [busy EXCEPT ![d] = 0]
    /\ age' = [age EXCEPT ![d] = 0]
    /\ UNCHANGED <<enqueued, executed>>

\* A drainer is killed; its leases stay in the queue file.
Crash(d) == Die(d) /\ UNCHANGED files

\* Killed inside persist_side_effect_outbox_locked, between the atomic write
\* of the queue file and that of the state file.
TornSettle(d, i) ==
    /\ IsCurrent(d, i)
    /\ phase[d] = "settle"
    /\ Die(d)
    /\ rows' = SettledRows(d, i)
    /\ UNCHANGED <<failures, openIn>>

\* A second passes.  MaxProcess bounds how long one handler may take.
Tick ==
    /\ \A d \in Drainers : ~Idle(d) => busy[d] < MaxProcess
    /\ rows' = [i \in Queued |->
                  [rows[i] EXCEPT !.retryIn = Less(@), !.leaseIn = Less(@)]]
    /\ openIn' = Less(openIn)
    /\ age' = [d \in Drainers |-> IF Idle(d) THEN age[d]
                                  ELSE Smaller(MaxAge, age[d] + 1)]
    /\ busy' = [d \in Drainers |-> IF Idle(d) THEN busy[d] ELSE busy[d] + 1]
    /\ UNCHANGED <<enqueued, failures, todo, phase, okay, executed, crashes>>

-----------------------------------------------------------------------------
Drain(d) ==
    \/ Claim(d)
    \/ \E i \in todo[d] : Settle(d, i) \/ \E ok \in BOOLEAN : Run(d, i, ok)

Next ==
    \/ \E k \in Keys \cup {NoKey} : Enqueue(k)
    \/ \E d \in Drainers :
         Drain(d) \/ Crash(d) \/ \E i \in todo[d] : TornSettle(d, i)
    \/ Tick

Spec == Init /\ [][Next]_vars

(***************************************************************************)
(* Fairness.  The handlers return and a drain that was started goes on;    *)
(* drains keep being started (after each turn, by the async job runner);   *)
(* seconds pass; and a handler that can succeed does so if it is run again *)
(* and again.  Nothing is assumed about producers or crashes.              *)
(***************************************************************************)
Fairness ==
    /\ WF_vars(Tick)
    /\ \A d \in Drainers :
         /\ WF_vars(Claim(d))
         /\ WF_vars(\E i \in todo[d], ok \in BOOLEAN : Run(d, i, ok))
         /\ WF_vars(\E i \in todo[d] : Settle(d, i))
         /\ \A i \in Ids \ Poison : SF_vars(Run(d, i, TRUE))

FairSpec == Spec /\ Fairness

-----------------------------------------------------------------------------
(* Properties                                                               *)

\* The shape of the two files and of the drainers' locals.
TypeOK ==
    /\ Queued \subseteq 1..enqueued
    /\ rows \in [Queued -> Row]
    /\ enqueued \in 0..MaxEnqueues
    /\ failures \in 0..BreakerThreshold
    /\ openIn \in 0..OpenSeconds
    /\ todo \in [Drainers -> SUBSET (1..enqueued)]
    /\ phase \in [Drainers -> {"run", "settle"}]
    /\ okay \in [Drainers -> BOOLEAN]
    /\ age \in [Drainers -> 0..MaxAge]
    /\ busy \in [Drainers -> 0..MaxProcess]
    /\ executed \subseteq 1..enqueued
    /\ crashes \in 0..MaxCrashes

\* At no time are two pending rows of one idempotency key in the queue,
\* however enqueues, retries and concurrent drains interleave.
UniqueKeys ==
    \A i, j \in Queued :
      rows[i].key = rows[j].key /\ rows[i].key # NoKey => i = j

\* At-least-once: an accepted item is in the queue file until its handler has
\* returned ok; no late settlement, torn write or crash drops an unfinished one.
NothingLost == \A i \in 1..enqueued : i \in Queued \/ i \in executed

\* A lease that has not expired is respected: the row under it can only leave
\* the queue, or change hands, by the settlement of the drain that holds it -
\* never by a drain that lost it to expiry and finished late.
LiveLeaseRespected ==
    [][\A i \in Queued :
         /\ Leased(i)
         /\ i \in Queued' => rows'[i].holder # rows[i].holder
         => \E d \in Drainers :
              /\ rows[i].holder = d
              /\ i \in todo[d]
              /\ i \notin todo'[d]]_vars

\* An open breaker is backed by the failures that opened it: what closes the
\* count closes the breaker, in every interleaving of the drains' settlements.
BreakerHasCause == openIn > 0 => failures = BreakerThreshold

\* Two drains run one item at once only when the lease of one of them has run
\* out while its batch was being worked off: within the lease, whatever else
\* settles, retries or is torn, the claim is the drain's alone.
OneRunPerLease ==
    \A d, e \in Drainers, i \in 1..enqueued :
      Running(d, i) /\ Running(e, i) /\ d # e
        => age[d] >= LeaseSeconds \/ age[e] >= LeaseSeconds

\* A healthy item always leaves the queue, even behind one that fails for
\* ever, trips the breaker and holds leases when its drainer is killed.
HealthyItemsFinish ==
    \A i \in Ids \ Poison : i \in Queued ~> i \notin Queued

Promise == INSTANCE DurableWork WITH
    accepted <- enqueued,
    pending <- [i \in Queued |-> rows[i].key],
    performed <- executed

\* The outbox, with its leases, retries, breaker and crashes, implements
\* at-least-once work: its queue file is the pending set, and its handlers'
\* successes the performed set.
ImplementsDurableWork == Promise!AtLeastOnce
=============================================================================
