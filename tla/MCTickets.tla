----------------------------- MODULE MCTickets ------------------------------
(* Small instances of Tickets for TLC. *)
EXTENDS Tickets, TLC

CONSTANTS req, agent, admin, owner, q1, q2, s1, s2

\* An incident is an end user's, a problem or a change an agent's.
Raised == [type \in {"INCIDENT", "PROBLEM", "CHANGE"} |-> IF type = "INCIDENT" THEN req ELSE agent]

\* What high and low priority promise, and what an admin makes of it.
Targets(high, low) ==
    LET target == [p \in {"high", "low"} |-> IF p = "high" THEN high ELSE low] IN
    [response |-> target, resolution |-> target]

MCAgreed  == Targets(1, 2)
MCSettled == {MCAgreed}
MCEdited  == {MCAgreed, Targets(2, 2)}
\* The requests are alike.
Alike == Permutations({q1, q2})

\* A bound of the run over all types: a problem or a change keeps its priority,
\* and no time passes before it is resolved. It has no clocks; only the sweep
\* that closes the resolved asks for its time.
Bounded == t.type # "INCIDENT" => t.priority = First /\ (now = 0 \/ t.resolvedAt # None)
=============================================================================
