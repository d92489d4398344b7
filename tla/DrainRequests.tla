--------------------------- MODULE DrainRequests ----------------------------
(***************************************************************************)
(* Who asks for a drain, and when it runs (ADR 0049): for one consumer of  *)
(* one workspace, the notification Postgres sends on commit, the minute    *)
(* sweep and the drains' own follow-ups set a flag in Redis; whoever set   *)
(* it adds a job, and the job clears the flag as it starts.                *)
(*                                                                         *)
(* Outbox models what a drain does to the log.  Here the log is three      *)
(* counts (committed, below the horizon, read), a drain reads once, and a  *)
(* batch that is retried event by event is a drain that failed.  A delayed *)
(* job waits like any other: delays only say when it is taken.             *)
(***************************************************************************)
EXTENDS Integers, FiniteSets

CONSTANTS
    Listeners,   \* handlers of notifications
    Sweepers,    \* the outbox sweep of this workspace
    Workers,     \* slots that run drain jobs (concurrency)
    Jobs,        \* bound: drain jobs the queue holds at once
    MaxEvents,   \* bound: events that commit
    Batch,       \* DRAIN_BATCH
    Attempts,    \* BullMQ attempts of one job
    MaxThrows,   \* bound: drains that throw
    MaxMishaps,  \* bound: calls Redis refuses, deaths, lost connections, lapsed flags
    None

Actors == Listeners \cup Sweepers \cup Workers

ASSUME DrainRequestsAssumption ==
    /\ MaxEvents \in Nat /\ MaxThrows \in Nat /\ MaxMishaps \in Nat
    /\ Batch \in Nat \ {0} /\ Attempts \in Nat \ {0}
    /\ Jobs \cap Actors = {} /\ None \notin Jobs
    /\ Workers \cap (Listeners \cup Sweepers) = {}

VARIABLES
    tail,       \* events committed
    clear,      \* of those, below the snapshot horizon
    cursor,     \* of those, read by the consumer
    resting,    \* the cursor waits out a failure's backoff
    listening,  \* the listener's connection is up
    wakes,      \* notifications on their way
    flag,       \* outbox:pending:<org>:<consumer>
    waiting,    \* drain jobs waiting, delayed or to be retried
    tries,      \* failed attempts of each job
    stage,      \* where every actor is
    job,        \* the job a worker runs
    upto,       \* how far a running drain has read
    more,       \* it will ask for another
    throws,     \* drains that threw so far
    mishaps     \* misfortunes so far

log   == <<tail, clear, cursor, resting>>
wire  == <<listening, wakes>>
queue == <<waiting, tries>>
reading == <<upto, more>>
run   == <<job, reading>>
vars  == <<log, wire, flag, queue, stage, run, throws, mishaps>>

Init ==
    /\ tail = 0 /\ clear = 0 /\ cursor = 0 /\ resting = FALSE
    /\ listening = TRUE /\ wakes = 0
    /\ flag = FALSE
    /\ waiting = {} /\ tries = [j \in Jobs |-> 0]
    /\ stage = [p \in Actors |-> "idle"]
    /\ job = [w \in Workers |-> None]
    /\ upto = [w \in Workers |-> 0]
    /\ more = [w \in Workers |-> FALSE]
    /\ throws = 0 /\ mishaps = 0

Goto(p, s) == stage' = [stage EXCEPT ![p] = s]

Mishap == mishaps < MaxMishaps /\ mishaps' = mishaps + 1

-----------------------------------------------------------------------------
(* The log, its horizon and the notification.                              *)

\* A commit that appended wakes whoever listens (outbox_wake).
Commit ==
    /\ tail < MaxEvents
    /\ tail' = tail + 1
    /\ wakes' = IF listening THEN wakes + 1 ELSE wakes
    /\ UNCHANGED <<clear, cursor, resting, listening, flag, queue, stage, run, throws, mishaps>>

\* Older transactions end: nobody is told.
HorizonLifts ==
    /\ clear < tail
    /\ clear' \in clear + 1 .. tail
    /\ UNCHANGED <<tail, cursor, resting, wire, flag, queue, stage, run, throws, mishaps>>

BackoffEnds ==
    /\ resting
    /\ resting' = FALSE
    /\ UNCHANGED <<tail, clear, cursor, wire, flag, queue, stage, run, throws, mishaps>>

ConnectionLost ==
    /\ listening
    /\ listening' = FALSE
    /\ wakes' = 0
    /\ Mishap
    /\ UNCHANGED <<log, flag, queue, stage, run, throws>>

\* Connected again; the catch-up it asks for is a sweep.
Reconnects ==
    /\ ~listening
    /\ listening' = TRUE
    /\ UNCHANGED <<log, wakes, flag, queue, stage, run, throws, mishaps>>

-----------------------------------------------------------------------------
(* Asking for a drain: DrainRequests.request.                              *)

\* OutboxListener.wake.
Hears(l) ==
    /\ stage[l] = "idle"
    /\ wakes > 0
    /\ wakes' = wakes - 1
    /\ Goto(l, "due")
    /\ UNCHANGED <<log, listening, flag, queue, run, throws, mishaps>>

\* OutboxSweepService.sweep: the consumer has something left to read.
SweepLooks(s) ==
    /\ stage[s] = "idle"
    /\ cursor < tail
    /\ Goto(s, "due")
    /\ UNCHANGED <<log, wire, flag, queue, run, throws, mishaps>>

\* The request is made; a drain that made it is done, and its job forgotten.
Returns(p) ==
    /\ Goto(p, "idle")
    /\ job' = [w \in Workers |-> IF w = p THEN None ELSE job[w]]
    /\ UNCHANGED reading

\* Mutant: SET without NX.
SetsAnyway(p) ==
    /\ stage[p] = "due"
    /\ flag' = TRUE
    /\ Goto(p, "set")
    /\ UNCHANGED <<log, wire, queue, run, throws, mishaps>>

\* SET NX succeeds.
SetsFlag(p) ==
    /\ stage[p] = "due"
    /\ ~flag
    /\ flag' = TRUE
    /\ Goto(p, "set")
    /\ UNCHANGED <<log, wire, queue, run, throws, mishaps>>

\* Somebody else's request is pending: leave it at that.
FindsFlag(p) ==
    /\ stage[p] = "due"
    /\ flag
    /\ Returns(p)
    /\ UNCHANGED <<log, wire, flag, queue, throws, mishaps>>

Free == {j \in Jobs : j \notin waiting /\ \A w \in Workers : job[w] # j}

Adds(p) ==
    /\ stage[p] = "set"
    /\ Free # {}
    /\ LET j == CHOOSE j \in Free : TRUE IN  \* a fresh uuid
        /\ waiting' = waiting \cup {j}
        /\ tries' = [tries EXCEPT ![j] = 0]
    /\ Returns(p)
    /\ UNCHANGED <<log, wire, flag, throws, mishaps>>

\* The queue refuses the job: the flag is taken back.
AddFails(p) ==
    /\ stage[p] = "set"
    /\ flag' = FALSE
    /\ Mishap
    /\ Returns(p)
    /\ UNCHANGED <<log, wire, queue, throws>>

\* Redis refuses to set the flag or to take it back, or the process dies.
RequestLost(p) ==
    /\ stage[p] \in {"due", "set"}
    /\ Mishap
    /\ Returns(p)
    /\ UNCHANGED <<log, wire, flag, queue, throws>>

\* Mutant: the flag was set without a time to live.
NeverOrphaned == FALSE

\* Nothing is left of the request that set the flag.
Orphaned ==
    /\ waiting = {}
    /\ \A p \in Actors : stage[p] \notin {"set", "taken"}

\* Its time to live runs out: behind a long queue too.
FlagLapses ==
    /\ flag
    /\ flag' = FALSE
    /\ \/ Orphaned /\ UNCHANGED mishaps
       \/ ~Orphaned /\ Mishap
    /\ UNCHANGED <<log, wire, queue, stage, run, throws>>

-----------------------------------------------------------------------------
(* Running one: DrainProcessor.process.                                    *)

Takes(w) ==
    /\ stage[w] = "idle"
    /\ \E j \in waiting :
        /\ waiting' = waiting \ {j}
        /\ job' = [job EXCEPT ![w] = j]
    /\ Goto(w, "taken")
    /\ UNCHANGED <<log, wire, flag, tries, reading, throws, mishaps>>

\* DrainRequests.started: what asks from now on gets a drain of its own.
Started(w) ==
    /\ stage[w] = "taken"
    /\ flag' = FALSE
    /\ Goto(w, "step")
    /\ UNCHANGED <<log, wire, queue, run, throws, mishaps>>

Locked(w) == \E v \in Workers \ {w} : stage[v] = "running"

\* Busy or backing off: come back a moment later.
ComesBack(w) ==
    /\ stage[w] = "step"
    /\ Locked(w) \/ resting
    /\ Goto(w, "due")
    /\ UNCHANGED <<log, wire, flag, queue, run, throws, mishaps>>

\* The job is done, and BullMQ forgets it.
Done(w) == job' = [job EXCEPT ![w] = None]

\* The drain's transaction is over.
StopsReading(w) ==
    /\ upto' = [upto EXCEPT ![w] = 0]
    /\ more' = [more EXCEPT ![w] = FALSE]

\* Mutant: events above the horizon are left to the next wake.
NeverHeldBack(c) == FALSE

HeldBack(c) == c < tail

\* Nothing below the horizon to read.
Idles(w) ==
    /\ stage[w] = "step"
    /\ ~Locked(w) /\ ~resting
    /\ cursor = clear
    /\ Goto(w, IF HeldBack(cursor) THEN "due" ELSE "idle")
    /\ IF HeldBack(cursor) THEN UNCHANGED job ELSE Done(w)
    /\ UNCHANGED <<log, wire, flag, queue, reading, throws, mishaps>>

Smaller(m, n) == IF m <= n THEN m ELSE n

Reads(w) ==
    LET last == Smaller(cursor + Batch, clear) IN
    /\ stage[w] = "step"
    /\ ~Locked(w) /\ ~resting
    /\ cursor < clear
    /\ upto' = [upto EXCEPT ![w] = last]
    /\ more' = [more EXCEPT ![w] = last = cursor + Batch \/ HeldBack(last)]
    /\ Goto(w, "running")
    /\ UNCHANGED <<log, wire, flag, queue, job, throws, mishaps>>

Finishes(w) ==
    /\ stage[w] = "running"
    /\ cursor' = upto[w]
    /\ Goto(w, IF more[w] THEN "due" ELSE "idle")
    /\ IF more[w] THEN UNCHANGED job ELSE Done(w)
    /\ StopsReading(w)
    /\ UNCHANGED <<tail, clear, resting, wire, flag, queue, throws, mishaps>>

\* The drain throws: an event failed and is recorded, or the trouble passes.
\* BullMQ tries the job again while it has attempts left.
Throws(w) ==
    /\ stage[w] = "running"
    /\ throws < MaxThrows /\ throws' = throws + 1
    /\ resting' \in {resting, TRUE}
    /\ tries' = [tries EXCEPT ![job[w]] = @ + 1]
    /\ \/ /\ tries[job[w]] + 1 < Attempts
          /\ waiting' = waiting \cup {job[w]}
          /\ UNCHANGED mishaps
       \/ /\ tries[job[w]] + 1 >= Attempts
          /\ Mishap
          /\ UNCHANGED waiting
    /\ Done(w) /\ StopsReading(w)
    /\ Goto(w, "idle")
    /\ UNCHANGED <<tail, clear, cursor, wire, flag>>

\* The worker dies: BullMQ finds the job stalled and gives it out again.
WorkerDies(w) ==
    /\ stage[w] # "idle"
    /\ Mishap
    /\ waiting' = waiting \cup ({job[w]} \ {None})
    /\ Done(w) /\ StopsReading(w)
    /\ Goto(w, "idle")
    /\ UNCHANGED <<log, wire, flag, tries, throws>>

-----------------------------------------------------------------------------
RequestStep(p) == SetsFlag(p) \/ FindsFlag(p) \/ Adds(p)

DrainStep(w) ==
    \/ RequestStep(w)
    \/ Takes(w) \/ Started(w) \/ ComesBack(w) \/ Idles(w) \/ Reads(w) \/ Finishes(w)

Next ==
    \/ Commit \/ HorizonLifts \/ BackoffEnds \/ ConnectionLost \/ Reconnects \/ FlagLapses
    \/ \E l \in Listeners : Hears(l) \/ RequestStep(l)
    \/ \E s \in Sweepers : SweepLooks(s) \/ RequestStep(s)
    \/ \E w \in Workers : DrainStep(w) \/ Throws(w) \/ WorkerDies(w)
    \/ \E p \in Actors : AddFails(p) \/ RequestLost(p)

Spec == Init /\ [][Next]_vars

(***************************************************************************)
(* Fairness: a process that runs goes on, BullMQ gives jobs out, the sweep *)
(* comes round every minute, time lifts the horizon (Prisma ends every     *)
(* transaction), ends a backoff and lapses a flag, and the listener        *)
(* reconnects.  Commits, failures and misfortunes are nobody's duty.       *)
(***************************************************************************)
Fairness ==
    /\ WF_vars(HorizonLifts) /\ WF_vars(BackoffEnds) /\ WF_vars(Reconnects)
    /\ WF_vars(Orphaned /\ FlagLapses)
    /\ \A l \in Listeners : WF_vars(Hears(l) \/ RequestStep(l))
    /\ \A s \in Sweepers : WF_vars(SweepLooks(s) \/ RequestStep(s))
    /\ \A w \in Workers : WF_vars(DrainStep(w))

FairSpec == Spec /\ Fairness

-----------------------------------------------------------------------------
(* Properties.                                                             *)

\* Every variable keeps its type, and a cursor never passes the horizon.
TypeOK ==
    /\ tail \in 0 .. MaxEvents /\ clear \in 0 .. tail /\ cursor \in 0 .. clear
    /\ resting \in BOOLEAN /\ listening \in BOOLEAN /\ flag \in BOOLEAN
    /\ wakes \in 0 .. tail
    /\ waiting \subseteq Jobs
    /\ tries \in [Jobs -> 0 .. Attempts]
    /\ stage \in [Actors -> {"idle", "due", "set", "taken", "step", "running"}]
    /\ job \in [Workers -> Jobs \cup {None}]
    /\ upto \in [Workers -> 0 .. MaxEvents]
    /\ more \in [Workers -> BOOLEAN]
    /\ throws \in 0 .. MaxThrows /\ mishaps \in 0 .. MaxMishaps

\* Somebody is going to read what the cursor has not passed: a notification or
\* a request on its way, a job, or a drain that reads to the end or comes back.
LookedAfter ==
    \/ wakes > 0 \/ waiting # {}
    \/ \E p \in Actors : stage[p] \in {"due", "set", "taken", "step"}
    \/ \E w \in Workers : stage[w] = "running" /\ (more[w] \/ upto[w] = tail)

\* No wake is lost (ADR 0049): as long as nothing was refused or died, whatever
\* has committed and is unread has somebody to read it, whoever wakes whom
\* while which drain is where; the sweep is not needed.
NoLostWake == mishaps = 0 /\ cursor < tail => LookedAfter

\* Who owns the flag: its setter until the job is added, then the job until the
\* drain it becomes has started.
Owners == waiting \cup {p \in Actors : stage[p] \in {"set", "taken"}}

\* At most one waiting drain per workspace and consumer, as long as no drain
\* threw and nothing went wrong: two wakes never add two jobs.
OneWaitingDrain ==
    throws = 0 /\ mishaps = 0 => \A i, j \in waiting : i = j

\* Whatever is refused, dies or lapses, every committed event is in the end
\* read: the sweep and the flag's time to live make up for a lost request.
EventuallyRead ==
    \A n \in 1 .. MaxEvents : tail >= n ~> cursor >= n

-----------------------------------------------------------------------------
(* Why it works: the inductive invariant behind NoLostWake and             *)
(* OneWaitingDrain.                                                        *)

\* A set flag has an owner: nobody is turned away without a drain to come.
FlagIsOwned == mishaps = 0 /\ flag => Owners # {}

\* Without retries it has one, and a job or its adder has the flag.
OneOwner ==
    throws = 0 /\ mishaps = 0 =>
        /\ \A p, q \in Owners : p = q
        /\ Owners # {} => flag

\* A worker that is not idle has a job, of its own, with attempts left; one that
\* runs a drain is alone and reads past the cursor, to below the horizon.
WorkersInOrder ==
    /\ \A w \in Workers :
        /\ stage[w] = "idle" <=> job[w] = None
        /\ job[w] \notin waiting
        /\ \A v \in Workers \ {w} : job[v] = job[w] => job[w] = None
        /\ stage[w] = "running" =>
            /\ cursor <= upto[w] /\ upto[w] <= clear
            /\ \A v \in Workers : stage[v] = "running" => v = w
    /\ \A j \in Jobs : j \in Free \/ tries[j] < Attempts
    /\ mishaps = 0 => listening
    /\ \A p \in Listeners \cup Sweepers : stage[p] \in {"idle", "due", "set"}

IndInv ==
    /\ TypeOK /\ NoLostWake /\ OneWaitingDrain
    /\ FlagIsOwned /\ OneOwner /\ WorkersInOrder
=============================================================================
