------------------------------- MODULE Outbox -------------------------------
(***************************************************************************)
(* The transactional outbox of one workspace (ADR 0049): writers append    *)
(* events inside their own database transactions, and the drains of each   *)
(* consumer read the log forward, below the snapshot horizon, under an     *)
(* advisory lock.                                                          *)
(*                                                                         *)
(* An event is its place in the log, <<txn, n>>: the id Postgres gave the  *)
(* writing transaction, and the rank of the event's uuid inside it.  A row *)
(* is visible once its transaction has finished; an aborted transaction's  *)
(* rows are gone.  A transaction id that is taken without appending stands *)
(* for every other write in the database, the drains' own included.        *)
(*                                                                         *)
(* Time is the flag `resting`: a cursor rests after a failure until its    *)
(* backoff has passed.                                                     *)
(***************************************************************************)
EXTENDS Integers, FiniteSets

CONSTANTS
    Consumers,    \* notify, webhooks, reporting
    Drains,       \* workers that can run a drain job
    Replays,      \* administrators replaying dead letters
    MaxTxn,       \* bound: transaction ids
    MaxPerTxn,    \* bound: events of one transaction
    Batch,        \* DRAIN_BATCH
    MaxFailures,  \* OUTBOX_MAX_FAILURES
    Poison,       \* <<consumer, event>> whose handler always throws
    MaxHiccups,   \* bound: passing failures, crashes and failed replays
    None

Event == (1 .. MaxTxn) \X (1 .. MaxPerTxn)
Start == <<0, 0>>
Position == Event \cup {Start}

ASSUME OutboxAssumption ==
    /\ MaxTxn \in Nat /\ MaxPerTxn \in Nat /\ MaxHiccups \in Nat
    /\ Batch \in Nat \ {0} /\ MaxFailures \in Nat \ {0}
    /\ Poison \subseteq Consumers \X Event
    /\ None \notin Drains \cup Replays \cup Event \cup (Consumers \X Event)
    /\ Drains \cap Replays = {}

VARIABLES
    nextTxn,    \* the next transaction id Postgres assigns
    running,    \* ids of transactions that have written and not finished
    rows,       \* OutboxEvent: rows of running and of finished transactions
    published,  \* history: every event that ever committed
    cursor,     \* EventConsumer.cursorTxn, cursorEventId
    failing,    \* EventConsumer.failingEventId
    failures,   \* EventConsumer.failures
    resting,    \* the backoff of the last recorded failure has not passed
    dead,       \* EventDeadLetter rows of each consumer
    replayed,   \* those with replayedAt set
    applied,    \* history: times the handler's writes for an event committed
    blamed,     \* history: times an event failed alone (counted to MaxFailures)
    lock,       \* holder of the consumer's advisory lock
    pc,         \* where a drain job is
    job,        \* the consumer it drains
    single,     \* it retries its batch event by event
    budget,     \* what is left of that batch
    batch,      \* the events its open transaction read
    target,     \* the dead letter a replay holds FOR UPDATE
    rpc,        \* where a replay is
    hiccups     \* misfortunes so far

log   == <<nextTxn, running, rows, published>>
place == <<cursor, failing, failures, resting>>
fate  == <<dead, replayed, applied, blamed>>
work  == <<pc, job, single, budget, batch>>
admin == <<target, rpc>>
vars  == <<log, place, fate, lock, work, admin, hiccups>>

\* The order the log is read in: ("txn", "id") as a row comparison.
Precedes(p, q) == p[1] < q[1] \/ (p[1] = q[1] /\ p[2] < q[2])

\* Mutant: the read trusts the order of ids alone.
NoHorizon(e) == TRUE

\* "txn" < pg_snapshot_xmin: every transaction that old has finished.
BelowHorizon(e) == \A t \in running : e[1] < t

Readable(c) == {e \in rows : Precedes(cursor[c], e) /\ BelowHorizon(e)}

IsHead(e, S) == e \in S /\ \A f \in S : f = e \/ Precedes(e, f)
Latest(S)    == CHOOSE e \in S : \A f \in S : f = e \/ Precedes(f, e)

\* A read of at most `limit` events returns those up to `last`, in log order.
UpTo(last, c) == {e \in Readable(c) : ~Precedes(last, e)}

IsRead(last, c, limit) ==
    \/ Cardinality(UpTo(last, c)) = limit
    \/ Cardinality(UpTo(last, c)) < limit /\ UpTo(last, c) = Readable(c)

Init ==
    /\ nextTxn = 1 /\ running = {} /\ rows = {} /\ published = {}
    /\ cursor = [c \in Consumers |-> Start]
    /\ failing = [c \in Consumers |-> None]
    /\ failures = [c \in Consumers |-> 0]
    /\ resting = [c \in Consumers |-> FALSE]
    /\ dead = [c \in Consumers |-> {}]
    /\ replayed = [c \in Consumers |-> {}]
    /\ applied = [c \in Consumers |-> [e \in Event |-> 0]]
    /\ blamed = [c \in Consumers |-> [e \in Event |-> 0]]
    /\ lock = [c \in Consumers |-> None]
    /\ pc = [d \in Drains |-> "idle"]
    /\ job \in [Drains -> Consumers]
    /\ single = [d \in Drains |-> FALSE]
    /\ budget = [d \in Drains |-> 0]
    /\ batch = [d \in Drains |-> {}]
    /\ target = [r \in Replays |-> None]
    /\ rpc = [r \in Replays |-> "idle"]
    /\ hiccups = 0

-----------------------------------------------------------------------------
(* Writers.                                                                *)

\* A transaction writes for the first time and is given its id.
BeginWrite ==
    /\ nextTxn <= MaxTxn
    /\ nextTxn' = nextTxn + 1
    /\ running' = running \cup {nextTxn}
    /\ UNCHANGED <<rows, published, place, fate, lock, work, admin, hiccups>>

\* Outbox.append, inside the transaction that makes the change.
Append(t) ==
    /\ t \in running
    /\ \E n \in 1 .. MaxPerTxn :
        /\ <<t, n>> \notin rows
        /\ \A m \in 1 .. n - 1 : <<t, m>> \in rows
        /\ rows' = rows \cup {<<t, n>>}
    /\ UNCHANGED <<nextTxn, running, published, place, fate, lock, work, admin, hiccups>>

Commit(t) ==
    /\ t \in running
    /\ running' = running \ {t}
    /\ published' = published \cup {e \in rows : e[1] = t}
    /\ UNCHANGED <<nextTxn, rows, place, fate, lock, work, admin, hiccups>>

Abort(t) ==
    /\ t \in running
    /\ running' = running \ {t}
    /\ rows' = {e \in rows : e[1] # t}
    /\ UNCHANGED <<nextTxn, published, place, fate, lock, work, admin, hiccups>>

-----------------------------------------------------------------------------
(* A drain: EventRelay.drainSteps, one transaction per step.               *)

StartDrain(d, c) ==
    /\ pc[d] = "idle"
    /\ pc' = [pc EXCEPT ![d] = "step"]
    /\ job' = [job EXCEPT ![d] = c]
    /\ single' = [single EXCEPT ![d] = FALSE]
    /\ budget' = [budget EXCEPT ![d] = Batch]
    /\ UNCHANGED <<log, place, fate, lock, batch, admin, hiccups>>

\* Back to the queue, or to the next event of a batch retried one by one.
AfterStep(d, taken) ==
    /\ budget' = [budget EXCEPT ![d] = IF single[d] THEN @ - taken ELSE 0]
    /\ pc' = [pc EXCEPT ![d] = IF single[d] /\ budget[d] > taken THEN "step" ELSE "idle"]

\* What the step's transaction read first says that this drain is over:
\* another one holds the lock, the cursor rests, or nothing is readable.
NothingToDo(d) ==
    /\ pc[d] = "step"
    /\ \/ lock[job[d]] # None
       \/ resting[job[d]]
       \/ Readable(job[d]) = {}
    /\ pc' = [pc EXCEPT ![d] = "idle"]
    /\ UNCHANGED <<log, place, fate, lock, job, single, budget, batch, admin, hiccups>>

CanStep(d) ==
    /\ pc[d] = "step"
    /\ lock[job[d]] = None
    /\ ~resting[job[d]]

\* Mutant: gives up one failure early.
GivesUpEarly(c) == failures[c] >= MaxFailures - 1 /\ IsHead(failing[c], Readable(c))

GivenUp(c) == failures[c] >= MaxFailures /\ IsHead(failing[c], Readable(c))

\* OutboxRepository.park, then the cursor moves past the event.
Park(d) ==
    LET c == job[d] IN
    /\ CanStep(d)
    /\ GivenUp(c)
    /\ dead' = [dead EXCEPT ![c] = @ \cup {failing[c]}]
    /\ cursor' = [cursor EXCEPT ![c] = failing[c]]
    /\ failing' = [failing EXCEPT ![c] = None]
    /\ failures' = [failures EXCEPT ![c] = 0]
    /\ AfterStep(d, 1)
    /\ UNCHANGED <<log, resting, replayed, applied, blamed, lock, job, single, batch, admin, hiccups>>

\* The lock, the cursor and the read below the horizon; the handler runs next.
Read(d) ==
    LET c == job[d]
        take == IF failures[c] > 0 \/ single[d] THEN 1 ELSE Batch IN
    /\ CanStep(d)
    /\ ~GivenUp(c)
    /\ \E last \in Readable(c) :
        /\ IsRead(last, c, take)
        /\ batch' = [batch EXCEPT ![d] = UpTo(last, c)]
    /\ lock' = [lock EXCEPT ![c] = d]
    /\ pc' = [pc EXCEPT ![d] = "handle"]
    /\ UNCHANGED <<log, place, fate, job, single, budget, admin, hiccups>>

\* The handler returned: its writes and the new cursor commit together.
Handled(d) ==
    LET c == job[d] IN
    /\ pc[d] = "handle"
    /\ \A e \in batch[d] : <<c, e>> \notin Poison
    /\ applied' = [applied EXCEPT ![c] = [e \in Event |-> IF e \in batch[d] THEN @[e] + 1 ELSE @[e]]]
    /\ cursor' = [cursor EXCEPT ![c] = Latest(batch[d])]
    /\ failing' = [failing EXCEPT ![c] = None]
    /\ failures' = [failures EXCEPT ![c] = 0]
    /\ lock' = [lock EXCEPT ![c] = None]
    /\ batch' = [batch EXCEPT ![d] = {}]
    /\ AfterStep(d, Cardinality(batch[d]))
    /\ UNCHANGED <<log, resting, dead, replayed, blamed, job, single, admin, hiccups>>

\* The handler throws: on an event it always chokes on, or just this once.
Throws(d) ==
    \/ \E e \in batch[d] : <<job[d], e>> \in Poison /\ UNCHANGED hiccups
    \/ hiccups < MaxHiccups /\ hiccups' = hiccups + 1

\* It threw on a batch: rolled back, and retried event by event.
BatchFailed(d) ==
    /\ pc[d] = "handle"
    /\ Cardinality(batch[d]) > 1
    /\ Throws(d)
    /\ lock' = [lock EXCEPT ![job[d]] = None]
    /\ single' = [single EXCEPT ![d] = TRUE]
    /\ pc' = [pc EXCEPT ![d] = "step"]
    /\ batch' = [batch EXCEPT ![d] = {}]
    /\ UNCHANGED <<log, place, fate, job, budget, admin>>

\* It threw on one event: rolled back, and that event is to blame.
EventFailed(d) ==
    LET c == job[d] IN
    /\ pc[d] = "handle"
    /\ \E e \in batch[d] :
        /\ batch[d] = {e}
        /\ blamed' = [blamed EXCEPT ![c][e] = IF @ < MaxFailures THEN @ + 1 ELSE @]
    /\ Throws(d)
    /\ lock' = [lock EXCEPT ![c] = None]
    /\ pc' = [pc EXCEPT ![d] = "blame"]
    /\ UNCHANGED <<log, place, dead, replayed, applied, job, single, budget, batch, admin>>

\* Mutant: the comparison of the two places is the wrong way round.
WrongWay(c, e) == Precedes(e, cursor[c])

\* The cursor has not passed the event since it failed.
StillAhead(c, e) == Precedes(cursor[c], e)

\* OutboxRepository.recordFailure counts the failure, in a transaction of its own.
RecordFailure(d) ==
    LET c == job[d] IN
    /\ pc[d] = "blame"
    /\ lock[c] = None
    /\ \E e \in batch[d] :
        /\ StillAhead(c, e)
        /\ failures' = [failures EXCEPT ![c] = IF failing[c] = e THEN @ + 1 ELSE 1]
        /\ failing' = [failing EXCEPT ![c] = e]
    /\ resting' = [resting EXCEPT ![c] = TRUE]
    /\ pc' = [pc EXCEPT ![d] = "idle"]
    /\ batch' = [batch EXCEPT ![d] = {}]
    /\ UNCHANGED <<log, cursor, fate, lock, job, single, budget, admin, hiccups>>

\* ... or records nothing: it lost the lock, or the event is behind the cursor.
RecordNothing(d) ==
    LET c == job[d] IN
    /\ pc[d] = "blame"
    /\ lock[c] # None \/ \E e \in batch[d] : ~StillAhead(c, e)
    /\ pc' = [pc EXCEPT ![d] = "idle"]
    /\ batch' = [batch EXCEPT ![d] = {}]
    /\ UNCHANGED <<log, place, fate, lock, job, single, budget, admin, hiccups>>

\* A transient failure, or the worker's death: the transaction rolls back, the
\* lock goes with it, nobody is blamed, and the job is over.
DrainDies(d) ==
    LET c == job[d] IN
    /\ pc[d] # "idle"
    /\ hiccups < MaxHiccups
    /\ hiccups' = hiccups + 1
    /\ lock' = IF pc[d] = "handle" THEN [lock EXCEPT ![c] = None] ELSE lock
    /\ pc' = [pc EXCEPT ![d] = "idle"]
    /\ batch' = [batch EXCEPT ![d] = {}]
    /\ UNCHANGED <<log, place, fate, job, single, budget, admin>>

BackoffEnds(c) ==
    /\ resting[c]
    /\ resting' = [resting EXCEPT ![c] = FALSE]
    /\ UNCHANGED <<log, cursor, failing, failures, fate, lock, work, admin, hiccups>>

-----------------------------------------------------------------------------
(* Replaying a dead letter: DeadLettersService.replay.                     *)

\* Mutant: a dead letter is replayed again and again.
EveryLetter(c) == dead[c]

Waiting(c) == dead[c] \ replayed[c]

\* lockOne: SELECT ... FOR UPDATE, and refused when already replayed.
ReplayLocks(r, c, e) ==
    /\ rpc[r] = "idle"
    /\ e \in Waiting(c)
    /\ \A q \in Replays : target[q] # <<c, e>>
    /\ target' = [target EXCEPT ![r] = <<c, e>>]
    /\ rpc' = [rpc EXCEPT ![r] = "locked"]
    /\ UNCHANGED <<log, place, fate, lock, work, hiccups>>

\* OutboxRepository.lock waits for a drain of the same consumer.
ReplayRuns(r) ==
    /\ rpc[r] = "locked"
    /\ lock[target[r][1]] = None
    /\ lock' = [lock EXCEPT ![target[r][1]] = r]
    /\ rpc' = [rpc EXCEPT ![r] = "handle"]
    /\ UNCHANGED <<log, place, fate, work, target, hiccups>>

ReplayEnds(r) ==
    /\ lock' = [lock EXCEPT ![target[r][1]] = None]
    /\ target' = [target EXCEPT ![r] = None]
    /\ rpc' = [rpc EXCEPT ![r] = "idle"]

\* The handler succeeded: its writes and replayedAt commit together.
ReplaySucceeds(r) ==
    LET c == target[r][1]
        e == target[r][2] IN
    /\ rpc[r] = "handle"
    /\ applied' = [applied EXCEPT ![c][e] = @ + 1]
    /\ replayed' = [replayed EXCEPT ![c] = @ \cup {e}]
    /\ ReplayEnds(r)
    /\ UNCHANGED <<log, place, dead, blamed, work, hiccups>>

ReplayFails(r) ==
    /\ rpc[r] = "handle"
    /\ hiccups < MaxHiccups
    /\ hiccups' = hiccups + 1
    /\ ReplayEnds(r)
    /\ UNCHANGED <<log, place, fate, work>>

-----------------------------------------------------------------------------
(* Retention: deleteConsumedEventsBefore, one row at a time.               *)

\* Mutant: one consumer having read it is enough.
ReadBySome(e) == \E c \in Consumers : ~Precedes(cursor[c], e)

ReadByAll(e) == \A c \in Consumers : ~Precedes(cursor[c], e)

Retire(e) ==
    /\ e \in rows /\ e[1] \notin running
    /\ ReadByAll(e)
    /\ \A c \in Consumers : e \notin dead[c]
    /\ rows' = rows \ {e}
    /\ UNCHANGED <<nextTxn, running, published, place, fate, lock, work, admin, hiccups>>

-----------------------------------------------------------------------------
Writer == BeginWrite \/ \E t \in running : Append(t) \/ Commit(t) \/ Abort(t)

DrainStep(d) ==
    \/ NothingToDo(d) \/ Park(d) \/ Read(d) \/ Handled(d)
    \/ BatchFailed(d) \/ EventFailed(d) \/ RecordFailure(d) \/ RecordNothing(d)

ReplayStep(r) ==
    \/ \E c \in Consumers, e \in Event : ReplayLocks(r, c, e)
    \/ ReplayRuns(r) \/ ReplaySucceeds(r) \/ ReplayFails(r)

Next ==
    \/ Writer
    \/ \E d \in Drains : DrainStep(d) \/ DrainDies(d) \/ \E c \in Consumers : StartDrain(d, c)
    \/ \E c \in Consumers : BackoffEnds(c)
    \/ \E r \in Replays : ReplayStep(r)
    \/ \E e \in rows : Retire(e)

Spec == Init /\ [][Next]_vars

(***************************************************************************)
(* Fairness.  Postgres and Prisma's timeout finish every transaction, a    *)
(* drain that started runs on, the minute sweep and the first-in-first-out *)
(* queue give every consumer a drain again and again, and time passes.     *)
(* Rolling back and starting the next transaction takes a drain an instant, *)
(* and one refused the lock stays away for RETRY_SOON_MS: a drain is not    *)
(* beaten to the lock in that instant every time, for ever (strong          *)
(* fairness of its next read and of its failure record).                    *)
(***************************************************************************)
Fairness ==
    /\ \A t \in 1 .. MaxTxn : WF_vars(Commit(t) \/ Abort(t))
    /\ \A d \in Drains : 
        /\ WF_vars(DrainStep(d))
        /\ SF_vars(single[d] /\ Read(d)) /\ SF_vars(RecordFailure(d))
    /\ \A c \in Consumers :
        /\ SF_vars(\E d \in Drains : StartDrain(d, c))
        /\ WF_vars(BackoffEnds(c))
    /\ \A r \in Replays : WF_vars(ReplayRuns(r) \/ ReplaySucceeds(r))

FairSpec == Spec /\ Fairness

-----------------------------------------------------------------------------
(* Properties.                                                             *)

\* Every variable keeps its type.
TypeOK ==
    /\ nextTxn \in 1 .. MaxTxn + 1
    /\ running \subseteq 1 .. nextTxn - 1
    /\ rows \subseteq Event /\ published \subseteq Event
    /\ cursor \in [Consumers -> Position]
    /\ failing \in [Consumers -> Event \cup {None}]
    /\ failures \in [Consumers -> Nat]
    /\ resting \in [Consumers -> BOOLEAN]
    /\ dead \in [Consumers -> SUBSET Event]
    /\ replayed \in [Consumers -> SUBSET Event]
    /\ applied \in [Consumers -> [Event -> Nat]]
    /\ blamed \in [Consumers -> [Event -> 0 .. MaxFailures]]
    /\ lock \in [Consumers -> Drains \cup Replays \cup {None}]
    /\ pc \in [Drains -> {"idle", "step", "handle", "blame"}]
    /\ job \in [Drains -> Consumers]
    /\ single \in [Drains -> BOOLEAN]
    /\ budget \in [Drains -> 0 .. Batch]
    /\ batch \in [Drains -> SUBSET Event]
    /\ target \in [Replays -> (Consumers \X Event) \cup {None}]
    /\ rpc \in [Replays -> {"idle", "locked", "handle"}]
    /\ hiccups \in 0 .. MaxHiccups

\* What a consumer is done with: applied, or parked.
Settled(c) == {e \in Event : applied[c][e] > 0} \cup dead[c]

\* A cursor never moves past an event that commits later (ADR 0049): whatever
\* has committed at or before a cursor was handled by that consumer or parked.
NoSkippedEvent ==
    \A c \in Consumers, e \in published :
        ~Precedes(cursor[c], e) => e \in Settled(c)

\* The events an open handler holds are, until it commits, exactly the ones
\* after the cursor: no writer, drain, replay or retention sweep gets between.
BatchIsNext ==
    \A d \in Drains : pc[d] = "handle" =>
        /\ batch[d] # {}
        /\ \A e \in published :
            e \in batch[d] <=> Precedes(cursor[job[d]], e) /\ ~Precedes(Latest(batch[d]), e)

\* A failure is only ever held against the consumer's next event, so the count
\* that leads to a dead letter can neither be dodged nor reach another event.
FailingIsNext ==
    \A c \in Consumers : failing[c] # None =>
        /\ failing[c] \in published \ Settled(c)
        /\ BelowHorizon(failing[c])
        /\ \A e \in published : Precedes(e, failing[c]) => e \in Settled(c)

\* Retention loses nothing (ADR 0049): an event a consumer has still to handle,
\* and one a dead letter points at, is in the table.
NothingLost ==
    \A c \in Consumers :
        /\ published \ Settled(c) \subseteq rows
        /\ dead[c] \subseteq rows

\* An event is parked only after it failed alone MaxFailures times, whatever
\* the drains, crashes and lost races in between.
ParkedAfterMaxFailures ==
    \A c \in Consumers : \A e \in dead[c] : blamed[c][e] = MaxFailures

\* Every committed event is in the end handled or parked by every consumer:
\* again and again, all of them have settled all there is.
EventuallySettled ==
    []<>(\A c \in Consumers : published \subseteq Settled(c))

-----------------------------------------------------------------------------
(***************************************************************************)
(* Why it works: the inductive invariant behind the properties above.      *)
(***************************************************************************)

\* Rows of finished transactions are committed events, and ids are handed out
\* in order, so every unfinished transaction is younger than what it could skip.
LogInOrder ==
    /\ \A e \in rows : e[1] < nextTxn /\ (e[1] \notin running => e \in published)
    /\ \A e \in published : e[1] < nextTxn /\ e[1] \notin running

\* A cursor is below the horizon, and everything settled is behind it.
CursorInOrder ==
    \A c \in Consumers :
        /\ BelowHorizon(cursor[c]) /\ cursor[c][1] < nextTxn
        /\ \A e \in Settled(c) : e \in published /\ ~Precedes(cursor[c], e)

\* A dead letter waits without having taken effect, or was replayed and has.
LettersInOrder ==
    \A c \in Consumers :
        /\ replayed[c] \subseteq dead[c]
        /\ \A e \in dead[c] : applied[c][e] > 0 <=> e \in replayed[c]

\* The advisory lock is held exactly by whoever runs a handler, and a replay
\* holds the row of a letter that still waits, alone.
LocksHeld ==
    /\ \A d \in Drains : pc[d] = "handle" => lock[job[d]] = d
    /\ \A c \in Consumers : lock[c] \in Drains => pc[lock[c]] = "handle" /\ job[lock[c]] = c
    /\ \A r \in Replays :
        /\ rpc[r] = "idle" <=> target[r] = None
        /\ rpc[r] = "handle" => lock[target[r][1]] = r
        /\ rpc[r] # "idle" => target[r][2] \in Waiting(target[r][1])
        /\ \A q \in Replays : q # r /\ target[q] = target[r] => target[r] = None

\* What an open handler holds is below the horizon, to its last event.
BatchInOrder ==
    \A d \in Drains : pc[d] = "handle" =>
        /\ batch[d] \subseteq published
        /\ Latest(batch[d]) \in batch[d]
        /\ BelowHorizon(Latest(batch[d]))

\* Whatever committed before the event about to be blamed is settled.
BlameInOrder ==
    \A d \in Drains : pc[d] = "blame" =>
        LET e == Latest(batch[d]) IN
        /\ e \in published /\ batch[d] = {e}
        /\ BelowHorizon(e)
        /\ \A f \in published : Precedes(f, e) => f \in Settled(job[d])

\* A drain that goes on has some of its batch left, and alone means one by one.
BudgetInOrder ==
    \A d \in Drains :
        /\ pc[d] \in {"step", "handle"} => budget[d] > 0
        /\ pc[d] = "handle" /\ single[d] => Cardinality(batch[d]) = 1

ConsumerInv ==
    /\ LogInOrder /\ CursorInOrder /\ LettersInOrder
    /\ NoSkippedEvent /\ FailingIsNext /\ NothingLost

WorkerInv ==
    /\ LocksHeld /\ BatchIsNext /\ BatchInOrder /\ BlameInOrder /\ BudgetInOrder

IndInv == TypeOK /\ ConsumerInv /\ WorkerInv

\* The promise of the log, in OutboxLog's words.
Log == INSTANCE OutboxLog WITH
    log <- published,
    effects <- applied,
    parked <- [c \in Consumers |-> Waiting(c)]

KeepsItsPromise == Log!Spec
=============================================================================
