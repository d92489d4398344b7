------------------------------ MODULE MCRaces ------------------------------
(* Six components whose requests and workers race each other for rows, as one *)
(* instance for TLC: focus names the one a behaviour is about, and the others  *)
(* stay as they were at first.  Members is the module itself, the others are   *)
(* instances.  Their sets share model values so that one symmetry serves all.  *)
EXTENDS Members, TLC

CONSTANTS
    a1, a2, b1, b2, b3, c1, c2,
    Tokens, Refreshes,
    Callers, Body, MaxOutages,
    Deliveries, Slots, MaxAttempts, Delays, Lease, Late, Threshold, MinOpen, MaxOpen,
    DisableAfter, MaxFails, MaxTurns,
    Tickets, Refreshers, MaxVersion, MaxFlags

Alike == Permutations({a1, a2}) \cup Permutations({b1, b2, b3}) \cup Permutations({c1, c2})

\* A token is not the lack of one; bounds are numbers; a circuit is open for no
\* less than a lease (both 60 s at least: deliverer.ts, schedule.ts).
ASSUME RacesAssumption ==
    /\ None \notin Tokens
    /\ MaxOutages \in Nat /\ MaxVersion \in Nat /\ MaxFlags \in Nat
    /\ MaxAttempts \in Nat \ {0} /\ Threshold \in Nat \ {0} /\ Late \in Nat /\ Delays \subseteq Nat
    /\ Lease \in Nat /\ MinOpen \in Nat /\ MaxOpen \in Nat /\ Lease <= MinOpen /\ Lease <= MaxOpen
    /\ DisableAfter \in Nat /\ MaxFails \in Nat /\ MaxTurns \in Nat

\* One request repeats the key with another body.
BodyOf == [r \in Callers |-> IF r = Founder THEN "other" ELSE "same"]

VARIABLES
    focus,
    token, active, barred, refresh, ended, escaped,
    key, caller, claimed, made, half, outages,
    endpoint, row, jobs, slot, turns,
    ticket, fact, unread, parked, refresher,
    dup, link, loose

S == INSTANCE Sessions
K == INSTANCE Idempotency
W == INSTANCE Webhooks
F == INSTANCE Reporting
D == INSTANCE Links WITH Tickets <- Callers, Requests <- Refreshes

sessions == <<token, active, barred, refresh, ended, escaped>>
idempotency == <<key, caller, claimed, made, half, outages>>
webhooks == <<endpoint, row, jobs, slot, turns>>
reporting == <<ticket, fact, unread, parked, refresher>>
links == <<dup, link, loose>>
races_vars == <<focus, vars, sessions, idempotency, webhooks, reporting, links>>

RacesInit ==
    /\ focus \in {"members", "sessions", "idempotency", "webhooks", "reporting", "links"}
    /\ Init /\ S!Init /\ K!Init /\ W!Init /\ F!Init /\ D!Init

InMembers(A)     == focus = "members"     /\ A /\ UNCHANGED <<focus, sessions, idempotency, webhooks, reporting, links>>
InSessions(A)    == focus = "sessions"    /\ A /\ UNCHANGED <<focus, vars, idempotency, webhooks, reporting, links>>
InIdempotency(A) == focus = "idempotency" /\ A /\ UNCHANGED <<focus, vars, sessions, webhooks, reporting, links>>
InWebhooks(A)    == focus = "webhooks"    /\ A /\ UNCHANGED <<focus, vars, sessions, idempotency, reporting, links>>
InReporting(A)   == focus = "reporting"   /\ A /\ UNCHANGED <<focus, vars, sessions, idempotency, webhooks, links>>
InLinks(A)       == focus = "links"       /\ A /\ UNCHANGED <<focus, vars, sessions, idempotency, webhooks, reporting>>

RacesNext ==
    \/ InMembers(Next) \/ InSessions(S!Next) \/ InIdempotency(K!Next) \/ InWebhooks(W!Next)
    \/ InReporting(F!Next) \/ InLinks(D!Next)

\* The bound of the members' runs: a workspace is followed no further than to the
\* loss of its last owner.
Governed == "owner" \notin overruled

RacesSpec == RacesInit /\ [][RacesNext]_races_vars

---------------------------------------------------------------------------
(* AnOwnerRemains and SeatsAreExact are Members'.                              *)

\* Sessions: a session that was ended stays ended, unless a rotation wrote over it.
EndedForGood == S!TypeOK /\ S!EndedForGood

\* Idempotency: one entity at most for all who claimed the key.
OneEntityPerClaim == K!TypeOK /\ K!OneEntityPerClaim

\* Webhooks: an attempt that its claim still covers is its delivery's only one, and
\* its row waits.
AttemptOwnsItsDelivery == W!TypeOK /\ W!AttemptOwnsItsDelivery

\* Webhooks: the circuit is open from the threshold on, and one probe passes it.
CircuitHolds == W!CircuitHolds

\* Reporting: a fact is its ticket's, but for events not yet read.
FactsKeepUp == F!TypeOK /\ F!FactsKeepUp

\* Links: a row points at a survivor, but where a removal came in between.
NoChains == D!TypeOK /\ D!NoChains
=============================================================================
