-------------------------------- MODULE Links --------------------------------
(* Which ticket a duplicate stands for (src/apps/api/src/tickets/              *)
(* links.service.ts, repositories/link.repository.ts): the DUPLICATE_OF rows   *)
(* of one workspace, the requests that add them, and the removals.             *)
(*                                                                             *)
(* An add is one READ COMMITTED transaction of several statements: it locks    *)
(* the two tickets named, looks at the duplicate, follows the other to its     *)
(* survivor one row at a time, and inserts.  The survivor is not one of the    *)
(* tickets it locked; the foreign key's check takes a share of it, no sooner   *)
(* than the insert.  A removal locks no ticket.                                *)
EXTENDS Naturals

CONSTANTS
    Tickets,   \* of one type, an incident or a service request
    Requests,  \* requests that add a link, and may be in flight
    None

VARIABLES
    dup,    \* the rows, as <<duplicate, survivor>>
    link,   \* what each request does next, the ends it was given, and where it has followed to
    loose   \* history: rows that point at a survivor the removals had let go of meanwhile

links_vars == <<dup, link, loose>>

AtRest == [pc |-> "idle", from |-> None, to |-> None, at |-> None]

TypeOK ==
    /\ dup \subseteq Tickets \X Tickets
    /\ link \in [Requests -> [pc : {"idle", "locked", "follows", "inserts", "inserted"},
                              from : Tickets \cup {None}, to : Tickets \cup {None}, at : Tickets \cup {None}]]
    /\ loose \subseteq dup

Init == dup = {} /\ link = [r \in Requests |-> AtRest] /\ loose = {}

(* FOR UPDATE of the two ends, and the foreign keys' FOR KEY SHARE of the row  *)
(* inserted, until the transaction ends.                                       *)
Locked(r) == IF link[r].pc = "idle" THEN {} ELSE {link[r].from, link[r].to}
Shared(r) == IF link[r].pc = "inserted" THEN {link[r].from, link[r].at} ELSE {}

Goes(r, pc) == link' = [link EXCEPT ![r].pc = pc]
Rests(r) == link' = [link EXCEPT ![r] = AtRest]

---------------------------------------------------------------------------
(* Whichever end asked, one ticket is to be the other's duplicate; both are    *)
(* locked, in the order of their ids.                                          *)
Locks(r, a, b) ==
    /\ link[r] = AtRest /\ a # b
    /\ \A q \in Requests \ {r} : {a, b} \cap (Locked(q) \cup Shared(q)) = {}
    /\ link' = [link EXCEPT ![r] = [pc |-> "locked", from |-> a, to |-> b, at |-> b]]
    /\ UNCHANGED <<dup, loose>>

\* The duplicate is already one, or has some of its own.  Mutant: only the first.
IsDuplicate(a) == \E d \in dup : d[1] = a
HasDuplicates(a) == \E d \in dup : d[2] = a
StandsElsewhere(a) == IsDuplicate(a)
Taken(a) == IsDuplicate(a) \/ HasDuplicates(a)

Checks(r) ==
    /\ link[r].pc = "locked"
    /\ IF Taken(link[r].from) THEN Rests(r) ELSE Goes(r, "follows")
    /\ UNCHANGED <<dup, loose>>

(* One hop: a row is read and gone by.                                         *)
Hops(r) ==
    /\ link[r].pc = "follows"
    /\ \E d \in dup : d[1] = link[r].at /\ link' = [link EXCEPT ![r].at = d[2]]
    /\ UNCHANGED <<dup, loose>>

(* The end of the way: the duplicate itself, a ticket the member cannot see,   *)
(* or the survivor.                                                            *)
Arrives(r) ==
    /\ link[r].pc = "follows" /\ ~IsDuplicate(link[r].at)
    /\ \/ link[r].at # link[r].from /\ Goes(r, "inserts")
       \/ (link[r].at = link[r].from \/ link[r].at # link[r].to) /\ Rests(r)
    /\ UNCHANGED <<dup, loose>>

(* The insert waits for the survivor's lock; the index refuses a second row of *)
(* one duplicate.                                                              *)
Inserts(r) ==
    /\ link[r].pc = "inserts"
    /\ \A q \in Requests \ {r} : link[r].at \notin Locked(q)
    /\ IF IsDuplicate(link[r].from) THEN Rests(r) ELSE Goes(r, "inserted")
    /\ UNCHANGED <<dup, loose>>

\* The survivor was named and locked, or still has a duplicate that stands.
Stands(r) == link[r].at = link[r].to \/ \E d \in dup \ loose : d[2] = link[r].at

Commits(r) ==
    /\ link[r].pc = "inserted"
    /\ LET new == <<link[r].from, link[r].at>> IN
       /\ dup' = dup \cup {new}
       /\ loose' = IF Stands(r) THEN loose ELSE loose \cup {new}
    /\ Rests(r)

(* The process dies, the transaction runs out of time or is a deadlock's       *)
(* victim.                                                                     *)
RollsBack(r) == link[r].pc # "idle" /\ Rests(r) /\ UNCHANGED <<dup, loose>>

(* A link is removed, whoever follows it.                                      *)
Removes(d) == d \in dup /\ dup' = dup \ {d} /\ loose' = loose \ {d} /\ UNCHANGED link

Next ==
    \/ \E r \in Requests, a, b \in Tickets : Locks(r, a, b)
    \/ \E r \in Requests :
        Checks(r) \/ Hops(r) \/ Arrives(r) \/ Inserts(r) \/ Commits(r) \/ RollsBack(r)
    \/ \E d \in dup : Removes(d)

Spec == Init /\ [][Next]_links_vars

---------------------------------------------------------------------------
(* A duplicate stands for one survivor, and a survivor for itself              *)
(* (DOMAIN.md:28): no row points at a ticket that is a duplicate, unless the   *)
(* row it was followed by had been removed before the new one was committed.   *)
NoChains ==
    /\ \A d, e \in dup : d[1] = e[1] => d = e
    /\ \A d \in dup \ loose : ~IsDuplicate(d[2])
=============================================================================
