----------------------------- MODULE OutboxLog -----------------------------
(***************************************************************************)
(* What the outbox promises (ADR 0049), without transactions, cursors,     *)
(* locks or retries: a log that consumers work through in its order, each  *)
(* event taking effect once per consumer or waiting among its dead letters *)
(* to take effect once.                                                    *)
(***************************************************************************)
EXTENDS Integers

CONSTANTS Consumers, Event

VARIABLES
    log,     \* every event that has been published
    effects, \* per consumer, how often each event took effect
    parked   \* per consumer, the dead letters

vars == <<log, effects, parked>>

Before(p, q) == p[1] < q[1] \/ (p[1] = q[1] /\ p[2] < q[2])

Done(c) == {e \in Event : effects[c][e] > 0}
Seen(c) == Done(c) \cup parked[c]

Init ==
    /\ log = {}
    /\ effects = [c \in Consumers |-> [e \in Event |-> 0]]
    /\ parked = [c \in Consumers |-> {}]

\* Events appear after everything any consumer has seen: never behind a reader.
Publish(E) ==
    /\ E \subseteq Event \ log
    /\ \A e \in E, c \in Consumers : \A f \in Seen(c) : Before(f, e)
    /\ log' = log \cup E
    /\ UNCHANGED <<effects, parked>>

\* The consumer's next events, in log order and leaving none out.
IsNext(B, c) ==
    /\ B # {} /\ B \subseteq log \ Seen(c)
    /\ \A e \in B, f \in log \ Seen(c) : Before(f, e) => f \in B

Handle(c, B) ==
    /\ IsNext(B, c)
    /\ effects' = [effects EXCEPT ![c] = [e \in Event |-> IF e \in B THEN 1 ELSE @[e]]]
    /\ UNCHANGED <<log, parked>>

GiveUp(c, e) ==
    /\ IsNext({e}, c)
    /\ parked' = [parked EXCEPT ![c] = @ \cup {e}]
    /\ UNCHANGED <<log, effects>>

\* A dead letter takes effect, once.
Replay(c, e) ==
    /\ e \in parked[c] \ Done(c)
    /\ effects' = [effects EXCEPT ![c][e] = 1]
    /\ parked' = [parked EXCEPT ![c] = @ \ {e}]
    /\ UNCHANGED log

Next ==
    \/ \E E \in SUBSET (Event \ log) : Publish(E)
    \/ \E c \in Consumers :
        \/ \E B \in SUBSET log : Handle(c, B)
        \/ \E e \in log : GiveUp(c, e) \/ Replay(c, e)

Spec == Init /\ [][Next]_vars
=============================================================================
