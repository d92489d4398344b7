------------------------------ MODULE Webhooks ------------------------------
(* The delivery of webhooks to one endpoint (src/apps/api/src/webhooks): a     *)
(* row per event, jobs that are only hints, attempts that claim their row      *)
(* with a lease and send outside any transaction, the endpoint's circuit       *)
(* breaker, the sweep under lost jobs, replays, and an admin who turns the     *)
(* endpoint off and on or removes it.                                          *)
(*                                                                             *)
(* Times are relative: a variable holds how many units of 30 s are left until  *)
(* a moment, 0 or less when it has come, and Tick takes one from each.  The    *)
(* 2 s by which a claim may be early is below a unit.  A job carries nothing   *)
(* but its delivery, may run late, early, twice or never, so `jobs' only says  *)
(* which deliveries have one.  A slot is one of the leases on the tenant's     *)
(* in-flight cap; a worker that dies leaves its slot taken until it expires.   *)
(* A worker may stall: its attempt may outlive its claim, and ends all the     *)
(* same.  Its slot would be free by then, so `Slots' is a bound of the model.  *)
EXTENDS Integers, FiniteSets

CONSTANTS
    Deliveries,   \* the deliveries the endpoint's events make
    Slots,        \* the tenant's in-flight cap, as a set
    MaxAttempts,  \* attempts a delivery gets
    Delays,       \* waits between attempts, jitter included
    Lease,        \* what a claim or a probe is held for
    Late,        \* how late a delivery is when the sweep takes its job for lost
    Threshold,    \* consecutive failures that open the circuit
    MinOpen, MaxOpen,
    DisableAfter, \* failing this long turns the endpoint off
    MaxFails, MaxTurns  \* bounds of the model: failures told apart; deaths, stalls, edits and replays together

Closed == -1

VARIABLES
    endpoint,  \* its status and circuit
    row,       \* the delivery rows: status, attempts made, next attempt
    jobs,      \* deliveries with a job in the queue
    slot,      \* the attempts in flight
    turns      \* deaths, stalls, edits and replays so far

webhook_vars == <<endpoint, row, jobs, slot, turns>>

Idle == [pc |-> "free"]
NoRow == [status |-> "none", attempts |-> 0, next |-> 0]
Ended(status, attempts) == [status |-> status, attempts |-> attempts, next |-> 0]

Endpoints == [status : {"ACTIVE", "DISABLED", "removed"}, fails : 0 .. MaxFails,
              open : Closed .. MaxOpen, failing : Closed .. DisableAfter]
Rows == [status : {"none", "PENDING", "SUCCEEDED", "DEAD"},
         attempts : Nat, next : {n \in Int : n >= -Late}]
Working == [pc : {"off", "waiting", "due", "sending", "probing", "dead"}, d : Deliveries,
            age : 0 .. Lease, attempts : Nat, open : Closed .. MaxOpen, overtaken : BOOLEAN]

TypeOK ==
    /\ endpoint \in Endpoints /\ row \in [Deliveries -> Rows]
    /\ jobs \subseteq Deliveries
    /\ slot \in [Slots -> {Idle} \cup Working]
    /\ turns \in 0 .. MaxTurns

Init ==
    /\ endpoint = [status |-> "ACTIVE", fails |-> 0, open |-> Closed, failing |-> Closed]
    /\ row = [d \in Deliveries |-> NoRow]
    /\ jobs = {} /\ slot = [s \in Slots |-> Idle]
    /\ turns = 0

Pending(d) == row[d].status = "PENDING"
InFlight(s) == slot[s].pc \notin {"free", "dead"}
Sending(s) == slot[s].pc \in {"sending", "probing"}

\* An attempt that its claim still covers, and no attempt of the same delivery
\* that outlived its own has written behind its back (overtaken: history).
InTime(s) == InFlight(s) /\ slot[s].age < Lease /\ ~slot[s].overtaken

Turn == turns < MaxTurns /\ turns' = turns + 1

(* A job is added once its transaction has committed: it may never be.         *)
Queues(ds) == jobs' \in {jobs, jobs \cup ds}

---------------------------------------------------------------------------
(* The consumer reads an event while the endpoint listens and writes its row;  *)
(* a replay of the log finds the row there and writes nothing.                 *)
Consume(d) ==
    /\ endpoint.status = "ACTIVE" /\ row[d] = NoRow
    /\ row' = [row EXCEPT ![d].status = "PENDING"]
    /\ Queues({d})
    /\ UNCHANGED <<endpoint, slot, turns>>

\* A claim that asks only whether the delivery is pending.
DueAnyTime(d) == Pending(d)

Due(d) == Pending(d) /\ row[d].next <= 0

(* What the attempt does next, by the endpoint it reads with its claim.        *)
Verdict ==
    CASE endpoint.status # "ACTIVE" -> "off"
      [] endpoint.open > 0          -> "waiting"
      [] endpoint.open = 0          -> "due"
      [] OTHER                      -> "sending"

(* A worker takes a slot and claims the delivery: pending and due, its next    *)
(* attempt moves to the end of the lease, and the attempt goes on with the row *)
(* and the endpoint as it read them.  The job may have had a twin.             *)
Claim(s, d) ==
    /\ d \in jobs /\ slot[s] = Idle /\ Due(d)
    /\ row' = [row EXCEPT ![d].next = Lease]
    /\ slot' = [slot EXCEPT ![s] = [pc |-> Verdict, d |-> d, age |-> 0,
                                   attempts |-> row[d].attempts, open |-> endpoint.open,
                                   overtaken |-> FALSE]]
    /\ jobs' \in {jobs, jobs \ {d}}
    /\ UNCHANGED <<endpoint, turns>>

(* A job whose delivery is not due, ended or gone finds nothing to claim.      *)
Skip(d) ==
    /\ d \in jobs /\ ~Due(d) /\ \E s \in Slots : slot[s] = Idle
    /\ jobs' = jobs \ {d}
    /\ UNCHANGED <<endpoint, row, slot, turns>>

(* The attempt is over, and gives its slot back.                               *)
Rests(s) ==
    slot' = [t \in Slots |->
              IF t = s THEN Idle
              ELSE IF ~InTime(s) /\ InFlight(t) /\ slot[t].d = slot[s].d
                   THEN [slot[t] EXCEPT !.overtaken = TRUE] ELSE slot[t]]

(* The row is marked dead, or put off, only if it is pending still.            *)
GivesUp(s) ==
    LET d == slot[s].d IN
    /\ row' = IF Pending(d) THEN [row EXCEPT ![d] = Ended("DEAD", @.attempts)] ELSE row
    /\ Rests(s)
    /\ UNCHANGED <<endpoint, jobs, turns>>

PutOff(s, until) ==
    LET d == slot[s].d IN
    /\ row' = IF Pending(d) THEN [row EXCEPT ![d].next = until] ELSE row
    /\ Rests(s)
    /\ Queues({d})
    /\ UNCHANGED <<endpoint, turns>>

EndpointIsOff(s) == slot[s].pc = "off" /\ GivesUp(s)

WaitsForCircuit(s) == slot[s].pc = "waiting" /\ PutOff(s, slot[s].open)

\* Whoever finds the circuit open is the probe.
AnyProbe(s) == endpoint.status = "ACTIVE" /\ endpoint.open # Closed

(* The circuit has come due: the attempt that still finds the reopening time   *)
(* it saw moves it a lease ahead of its own start and is the probe; another    *)
(* waits for it.  What others saw is no longer so.                             *)
ProbeIsFree(s) ==
    endpoint.status = "ACTIVE" /\ endpoint.open = slot[s].open /\ endpoint.open # Closed

TakesProbe(s) ==
    /\ slot[s].pc = "due" /\ ProbeIsFree(s)
    /\ endpoint' = [endpoint EXCEPT !.open = Lease - slot[s].age]
    /\ slot' = [t \in Slots |->
                  IF t = s THEN [slot[t] EXCEPT !.pc = "probing"]
                  ELSE IF slot[t].pc = "due" THEN [slot[t] EXCEPT !.open = Closed] ELSE slot[t]]
    /\ UNCHANGED <<row, jobs, turns>>

LosesProbe(s) ==
    /\ slot[s].pc = "due" /\ ~ProbeIsFree(s)
    /\ PutOff(s, Lease - slot[s].age)

(* The key that sealed the signing secret is gone: nothing is sent.            *)
SecretIsLost(s) == Sending(s) /\ GivesUp(s)

---------------------------------------------------------------------------
(* One more failure: at the threshold the circuit opens, each failure after    *)
(* that doubles its time, and failing too long turns the endpoint off.         *)
OpenFor(fails) == IF fails < Threshold THEN Closed
                  ELSE LET long == MinOpen * 2 ^ (fails - Threshold) IN
                       IF long < MaxOpen THEN long ELSE MaxOpen

AfterFailure ==
    LET fails == IF endpoint.fails < MaxFails THEN endpoint.fails + 1 ELSE MaxFails
        since == IF endpoint.failing = Closed THEN 0 ELSE endpoint.failing
    IN [status |-> IF since >= DisableAfter THEN "DISABLED" ELSE "ACTIVE",
        fails |-> fails, open |-> OpenFor(fails), failing |-> since]

AfterSuccess == [status |-> "ACTIVE", fails |-> 0, open |-> Closed, failing |-> Closed]

(* The answer, or its failure, in one transaction: the row takes the outcome   *)
(* whatever it holds, if it is there, and the endpoint, locked and active      *)
(* still, counts it.  The seventh failure is the last.                         *)
Record(s, ok) ==
    LET d == slot[s].d
        made == slot[s].attempts + 1
        again == ~ok /\ made < MaxAttempts
    IN /\ Sending(s)
       /\ \E delay \in IF again THEN Delays ELSE {0} :
            row' = IF row[d].status = "none" THEN row
                   ELSE [row EXCEPT ![d] =
                          [status |-> IF ok THEN "SUCCEEDED" ELSE IF again THEN "PENDING" ELSE "DEAD",
                           attempts |-> @.attempts + 1, next |-> delay]]
       /\ endpoint' = IF endpoint.status # "ACTIVE" THEN endpoint
                      ELSE IF ok THEN AfterSuccess ELSE AfterFailure
       /\ Rests(s)
       /\ IF again THEN Queues({d}) ELSE jobs' = jobs
       /\ UNCHANGED <<turns>>

(* The worker dies and its slot stays taken until it expires, or a transaction *)
(* fails and the slot is given back: the attempt is over, and the queue runs   *)
(* its job again or has given it up.                                           *)
Die(s) ==
    /\ InFlight(s) /\ Turn
    /\ slot' \in {[slot EXCEPT ![s].pc = "dead"], [slot EXCEPT ![s] = Idle]}
    /\ Queues({slot[s].d})
    /\ UNCHANGED <<endpoint, row>>

\* A sweep that looks for what was never attempted.
NeverTried(d) == Pending(d) /\ row[d].attempts = 0 /\ row[d].next <= -Late

Overdue(d) == Pending(d) /\ row[d].next <= -Late

Sweep ==
    /\ \E d \in Deliveries \ jobs : Overdue(d)
    /\ jobs' = jobs \cup {d \in Deliveries : Overdue(d)}
    /\ UNCHANGED <<endpoint, row, slot, turns>>

---------------------------------------------------------------------------
(* The admin turns the endpoint off, or on with a clean slate, or removes it   *)
(* and its deliveries with it.                                                 *)
TurnOff ==
    /\ endpoint.status = "ACTIVE" /\ Turn
    /\ endpoint' = [endpoint EXCEPT !.status = "DISABLED"]
    /\ UNCHANGED <<row, jobs, slot>>

TurnOn ==
    /\ endpoint.status = "DISABLED" /\ Turn
    /\ endpoint' = AfterSuccess
    /\ UNCHANGED <<row, jobs, slot>>

Remove ==
    /\ endpoint.status # "removed" /\ Turn
    /\ endpoint' = [AfterSuccess EXCEPT !.status = "removed"]
    /\ row' = [d \in Deliveries |-> NoRow]
    /\ UNCHANGED <<jobs, slot>>

(* One dead delivery or all of them back into line, their attempts reset.      *)
Replay(ds) ==
    /\ endpoint.status = "ACTIVE" /\ ds # {} /\ Turn
    /\ \A d \in ds : row[d].status = "DEAD"
    /\ row' = [d \in Deliveries |-> IF d \in ds THEN [NoRow EXCEPT !.status = "PENDING"] ELSE row[d]]
    /\ Queues(ds)
    /\ UNCHANGED <<endpoint, slot>>

(* Time passes, and an attempt's age is told apart until its claim is over.  A *)
(* reopening time that lies ahead is not the one a due attempt saw; a dead     *)
(* worker's slot expires.                                                      *)
Sooner(t, least) == IF t > least THEN t - 1 ELSE t

Ages(s) ==
    [slot[s] EXCEPT !.age  = IF @ < Lease THEN @ + 1 ELSE @,
                    !.open = IF @ = Closed \/ (slot[s].pc = "due" /\ endpoint.open > 0) THEN Closed
                             ELSE Sooner(@, 0)]

Outlasted == {s \in Slots : InFlight(s) /\ slot[s].age = Lease - 1}

Tick ==
    /\ IF Outlasted = {} THEN turns' = turns ELSE Turn
    /\ endpoint' = [endpoint EXCEPT !.open = IF @ = Closed THEN @ ELSE Sooner(@, 0),
                                    !.failing = IF @ \in {Closed, DisableAfter} THEN @ ELSE @ + 1]
    /\ row' = [d \in Deliveries |-> IF Pending(d) THEN [row[d] EXCEPT !.next = Sooner(@, -Late)] ELSE row[d]]
    /\ slot' = [s \in Slots |->
                  IF InFlight(s) \/ (slot[s] # Idle /\ slot[s].age = 0) THEN Ages(s) ELSE Idle]
    /\ UNCHANGED jobs

Runs(d) == Skip(d) \/ \E s \in Slots : Claim(s, d)

Finishes(s) ==
    \/ EndpointIsOff(s) \/ WaitsForCircuit(s) \/ TakesProbe(s) \/ LosesProbe(s)
    \/ \E ok \in BOOLEAN : Record(s, ok)

Next ==
    \/ \E d \in Deliveries : Consume(d) \/ Runs(d)
    \/ \E s \in Slots : Finishes(s) \/ SecretIsLost(s) \/ Die(s)
    \/ Sweep \/ TurnOff \/ TurnOn \/ Remove \/ Tick
    \/ \E ds \in SUBSET Deliveries : Replay(ds)

Fairness ==
    /\ WF_webhook_vars(Tick) /\ WF_webhook_vars(Sweep)
    /\ \A s \in Slots : WF_webhook_vars(Finishes(s))
    /\ \A d \in Deliveries : WF_webhook_vars(Runs(d))

Spec == Init /\ [][Next]_webhook_vars /\ Fairness

---------------------------------------------------------------------------
(* An attempt whose claim still covers it is the only such one of its delivery *)
(* in flight, and until it records its outcome the row stays as it claimed it: *)
(* pending, not due, its count of attempts unchanged.  Twin jobs, the sweep    *)
(* and replays notwithstanding, what it records is about the row it read; only *)
(* an attempt that outlived its own claim can write behind its back.           *)
AttemptOwnsItsDelivery ==
    \A s \in Slots : InTime(s) =>
        LET d == slot[s].d IN
        /\ \/ row[d].status = "none"
           \/ Pending(d) /\ row[d].next > 0 /\ row[d].attempts = slot[s].attempts
        /\ \A t \in Slots \ {s} : InTime(t) => slot[t].d # d

(* The circuit holds whichever deliveries of the endpoint end at once: it is   *)
(* open exactly when the failures in a row have reached the threshold, and one *)
(* attempt at a time passes an open circuit, for as long as its probe lasts.   *)
CircuitHolds ==
    /\ endpoint.status = "ACTIVE" => (endpoint.open # Closed <=> endpoint.fails >= Threshold)
    /\ \A s, t \in Slots :
        slot[s].pc = "probing" /\ slot[t].pc = "probing" /\ slot[s].age < Lease /\ slot[t].age < Lease
        => s = t

(* Deliveries end: succeeded, dead or gone with their endpoint, though jobs    *)
(* are lost, workers die or stall and the circuit stays open, until none is    *)
(* pending.                                                                    *)
EventuallyEnds == []<>(\A d \in Deliveries : ~Pending(d))
=============================================================================
