------------------------------ MODULE Members ------------------------------
(***************************************************************************)
(* The members of one workspace, the agent seats they hold and the         *)
(* invitations that bring them in (ADR 0033), with the nightly recount.    *)
(*                                                                         *)
(* A member change locks the organization's row first; an acceptance locks *)
(* its invitation, and the organization only as it commits, when its rows' *)
(* foreign keys ask for it.  Both lock the seat counter when they move it  *)
(* and keep it to the end.  What a transaction wrote is seen when it       *)
(* commits.  The database may end any of them, to resolve a deadlock among *)
(* others: RollsBack.                                                      *)
(*                                                                         *)
(* An ADMIN is an AGENT here, who may ask for a change is left to the      *)
(* permission matrix, and an invitation that expires is one revoked.       *)
(***************************************************************************)
EXTENDS Integers, FiniteSets

CONSTANTS
    People,     \* accounts
    Founder,    \* who created the workspace
    Requests,   \* transactions that can be open at once
    Invites,    \* invitation ids
    Limit,      \* AGENT_SEATS of the plan
    None

Roles  == {"OWNER", "AGENT", "REQUESTER"}
Member == [role : Roles, status : {"ACTIVE", "DISABLED", "REMOVED"}]

\* Who holds the counter's row while the usage recount runs.
Recounting == "recount"

ASSUME MembersAssumption ==
    /\ IsFiniteSet(People) /\ Founder \in People
    /\ None \notin Member \cup {Recounting}
    /\ {None, Recounting} \cap Requests = {}
    /\ Limit \in Nat \ {0}

VARIABLES
    member,   \* Membership, or None: role and status
    seats,    \* UsageCounter AGENT_SEATS
    invite,   \* Invitation while it is pending, or None: who and role
    doing,    \* what each open transaction is about to write
    org,      \* who holds the organization's row
    counter,  \* who holds the counter's row
    counted,  \* what the usage recount has counted
    overruled \* history: what an acceptance wrote over that its reading missed

vars == <<member, seats, invite, doing, org, counter, counted, overruled>>

\* holdsSeat.
HoldsSeat(r) == r # None /\ r.status = "ACTIVE" /\ r.role # "REQUESTER"
Seated       == {p \in People : HoldsSeat(member[p])}
ActiveOwner(r) == r # None /\ r.status = "ACTIVE" /\ r.role = "OWNER"
ActiveOwners == {p \in People : ActiveOwner(member[p])}

Idle == [kind |-> "idle"]

\* Provisioning makes the founder an owner, with a seat.
Init ==
    /\ member = [p \in People |->
                    IF p = Founder THEN [role |-> "OWNER", status |-> "ACTIVE"] ELSE None]
    /\ seats = 1
    /\ invite = [i \in Invites |-> None]
    /\ doing = [q \in Requests |-> Idle]
    /\ org = None /\ counter = None /\ counted = 0 /\ overruled = {}

Begins(q, what) ==
    /\ doing[q] = Idle
    /\ doing' = [doing EXCEPT ![q] = what]

\* The locks of a transaction that ends.
Ends(q) ==
    /\ doing' = [doing EXCEPT ![q] = Idle]
    /\ org' = IF org = q THEN None ELSE org
    /\ counter' = IF counter = q THEN None ELSE counter

-----------------------------------------------------------------------------
(* Changing a member: MembersService.change and what it applies.           *)

\* changeRole, disable, enable, remove.
Outcomes(r) ==
    {[r EXCEPT !.role = role] : role \in Roles \ {r.role}}
    \cup {[r EXCEPT !.status = s] : s \in IF r.status = "ACTIVE" THEN {"DISABLED", "REMOVED"}
                                                                 ELSE {"ACTIVE", "REMOVED"}}

\* Mutant: the organization is not locked.
AnyTime == TRUE

OrgIsFree == org = None

\* assertNotLastOwner: every change of an active owner ends it as one.
KeepsAnOwner(p) == ActiveOwner(member[p]) => Cardinality(ActiveOwners) > 1

ChangeBegins(q, p) ==
    /\ OrgIsFree /\ org' = q
    /\ member[p] # None /\ member[p].status # "REMOVED"
    /\ KeepsAnOwner(p)
    /\ \E after \in Outcomes(member[p]) :
        Begins(q, [kind |-> "change", who |-> p, before |-> member[p], after |-> after, by |-> None])
    /\ UNCHANGED <<member, seats, invite, counter, counted, overruled>>

-----------------------------------------------------------------------------
(* Inviting and accepting.                                                 *)

Outside(p) == member[p] # None => member[p].status = "REMOVED"
Pending(i) == invite[i] # None

\* An acceptance holds the row of the invitation it burns.
Burning(i) == \E q \in Requests : doing[q].kind = "join" /\ doing[q].by = i

\* InvitationsService.create: not a member, and a hint of room; the invitations
\* it will supersede are read now ...
InviteBegins(q, i, p) ==
    /\ invite[i] = None
    /\ \A r \in Requests : doing[r].kind = "invite" => i \notin doing[r].old \cup {doing[r].by}
    /\ Outside(p)
    /\ \E role \in Roles :
        /\ role = "REQUESTER" \/ seats < Limit
        /\ Begins(q, [kind |-> "invite", who |-> p, role |-> role, by |-> i,
                      old |-> {j \in Invites : Pending(j) /\ invite[j].who = p}])
    /\ UNCHANGED <<member, seats, invite, org, counter, counted, overruled>>

\* ... and revoked as the new one is written.
InviteCommits(q) ==
    LET d == doing[q] IN
    /\ d.kind = "invite" /\ OrgIsFree
    /\ \A j \in d.old : ~Burning(j)
    /\ invite' = [j \in Invites |->
        CASE j = d.by    -> [who |-> d.who, role |-> d.role]
          [] j \in d.old -> None
          [] OTHER       -> invite[j]]
    /\ Ends(q)
    /\ UNCHANGED <<member, seats, counted, overruled>>

Revoke(i) ==
    /\ Pending(i) /\ ~Burning(i)
    /\ invite' = [invite EXCEPT ![i] = None]
    /\ UNCHANGED <<member, seats, doing, org, counter, counted, overruled>>

\* join: the invitation is burned, and the membership read without a lock.
JoinBegins(q, i) ==
    LET p == invite[i].who IN
    /\ Pending(i) /\ ~Burning(i)
    /\ Outside(p)
    /\ Begins(q, [kind |-> "join", who |-> p, before |-> member[p], by |-> i,
                  after |-> [role |-> invite[i].role, status |-> "ACTIVE"]])
    /\ UNCHANGED <<member, seats, invite, org, counter, counted, overruled>>

-----------------------------------------------------------------------------
(* What both write.                                                        *)

Seat(r) == IF HoldsSeat(r) THEN 1 ELSE 0

\* Mutant: a new role neither takes nor frees a seat.
MovesWithStatus(d) ==
    /\ d.kind \in {"change", "join"} /\ Seat(d.after) # Seat(d.before)
    /\ d.kind = "change" => d.after.status # d.before.status

\* seatChange, and the acceptance's own consume.
MovesSeats(d) == d.kind \in {"change", "join"} /\ Seat(d.after) # Seat(d.before)

\* The increment's WHERE.
HasRoom(d) == Seat(d.after) > Seat(d.before) => seats < Limit

\* consume or release: the counter's row stays locked to the end.
LocksCounter(q) ==
    /\ MovesSeats(doing[q])
    /\ counter = None /\ HasRoom(doing[q])
    /\ counter' = q
    /\ UNCHANGED <<member, seats, invite, doing, org, counted, overruled>>

\* What is lost when a row that has changed since it was read is written over: a
\* seat the counter has for it already, and a recount under way has counted; the
\* last owner, who was not one when the row was read.
WritesOver(d) ==
    LET now == member[d.who] IN
    IF now = d.before THEN {}
    ELSE (IF HoldsSeat(now) THEN {"seats", "count"} ELSE {})
         \cup (IF ActiveOwners = {d.who} /\ ~ActiveOwner(d.after) THEN {"owner"} ELSE {})

\* The rest of the transaction.  A row that somebody else created meanwhile is a
\* unique violation; a removed member's is reactivated whatever it is by now.
Commits(q) ==
    LET d == doing[q] IN
    /\ d.kind \in {"change", "join"}
    /\ MovesSeats(d) => counter = q
    /\ d.kind = "join" => OrgIsFree /\ (d.before = None => member[d.who] = None)
    /\ member' = [member EXCEPT ![d.who] = d.after]
    /\ seats' = LET n == seats + Seat(d.after) - Seat(d.before) IN
                IF ~MovesSeats(d) THEN seats ELSE IF n < 0 THEN 0 ELSE n
    /\ invite' = IF d.kind = "join" THEN [invite EXCEPT ![d.by] = None] ELSE invite
    /\ overruled' = (overruled \cup WritesOver(d)) \ (IF ActiveOwner(d.after) THEN {"owner"} ELSE {})
    /\ Ends(q)
    /\ UNCHANGED counted

RollsBack(q) ==
    /\ doing[q] # Idle
    /\ Ends(q)
    /\ UNCHANGED <<member, seats, invite, counted, overruled>>

-----------------------------------------------------------------------------
(* The nightly recount.                                                    *)

\* usage-reconcile: lock the counter, count the committed rows, ...
RecountReads ==
    /\ counter = None
    /\ counter' = Recounting
    /\ counted' = Cardinality(Seated)
    /\ overruled' = overruled \ {"count"}
    /\ UNCHANGED <<member, seats, invite, doing, org>>

\* ... and set it.  That repairs it, but for what was written over in between.
RecountSets ==
    /\ counter = Recounting
    /\ counter' = None
    /\ seats' = counted /\ counted' = 0
    /\ overruled' = IF "count" \in overruled THEN overruled ELSE overruled \ {"seats"}
    /\ UNCHANGED <<member, invite, doing, org>>

-----------------------------------------------------------------------------
Works(q) == InviteCommits(q) \/ LocksCounter(q) \/ Commits(q) \/ RollsBack(q)
Recount  == RecountReads \/ RecountSets

Next ==
    \/ \E q \in Requests :
        \/ \E p \in People : ChangeBegins(q, p) \/ \E i \in Invites : InviteBegins(q, i, p)
        \/ \E i \in Invites : JoinBegins(q, i)
        \/ Works(q)
    \/ \E i \in Invites : Revoke(i)
    \/ Recount

Spec == Init /\ [][Next]_vars
-----------------------------------------------------------------------------
(* Properties.                                                             *)

\* What an open transaction is about to write.
Change == [kind : {"change", "join"}, who : People, before : Member \cup {None},
           after : Member, by : Invites \cup {None}]
Invitation == [kind : {"invite"}, who : People, role : Roles, by : Invites, old : SUBSET Invites]

\* Every variable keeps its type, and the counter its limit.
TypeOK ==
    /\ member \in [People -> Member \cup {None}]
    /\ seats \in 0 .. Limit
    /\ invite \in [Invites -> [who : People, role : Roles] \cup {None}]
    /\ doing \in [Requests -> {Idle} \cup Change \cup Invitation]
    /\ org \in Requests \cup {None}
    /\ counter \in Requests \cup {None, Recounting}
    /\ counted \in 0 .. Limit
    /\ overruled \subseteq {"seats", "count", "owner"}

\* A workspace keeps an owner who can act (RBAC.md 6), whichever owners demote,
\* disable and remove each other at once and whoever joins meanwhile.  The one way
\* to lose the last is an acceptance whose person another invitation brought in
\* and somebody promoted since it read the membership: it reactivates the row as
\* it was invited.
AnOwnerRemains == "owner" \notin overruled => ActiveOwners # {}

\* The counter never has fewer seats than members hold, whichever changes,
\* acceptances and recounts overlap; it is exact but after one person's two
\* acceptances at once, until the recount repairs it.
SeatsAreExact ==
    /\ Cardinality(Seated) <= seats
    /\ "seats" \notin overruled => seats = Cardinality(Seated)

-----------------------------------------------------------------------------
(* Why it works: the inductive invariant behind both.                      *)

Changing(q) == doing[q].kind = "change"
Joining(q)  == doing[q].kind = "join"

\* What a change read of the member it writes is so until it commits: it has the
\* organization to itself, and an acceptance commits only when it is free.  What
\* an acceptance read was so when it read it: nobody, or a removed member.
ReadsStillHold ==
    /\ \A q \in Requests : Changing(q) =>
        /\ org = q /\ doing[q].before # None /\ doing[q].before.status # "REMOVED"
        /\ doing[q].before = member[doing[q].who]
    /\ \A q \in Requests : Joining(q) /\ doing[q].before # None =>
        doing[q].before.status = "REMOVED"

\* A change of an owner leaves another.
LeavesAnOwner ==
    \A q \in Requests : Changing(q) /\ ActiveOwner(doing[q].before) =>
        \E p \in People \ {doing[q].who} : ActiveOwner(member[p])

\* Whoever holds the counter moves it, by a seat that is there, or counts what
\* it will set; what a recount missed, the counter misses too.
CounterInOrder ==
    /\ \A q \in Requests : counter = q => MovesSeats(doing[q]) /\ HasRoom(doing[q])
    /\ counter = Recounting =>
        /\ Cardinality(Seated) <= counted
        /\ "count" \notin overruled => counted = Cardinality(Seated)
    /\ "count" \in overruled => "seats" \in overruled

IndInv ==
    /\ TypeOK /\ AnOwnerRemains /\ SeatsAreExact
    /\ ReadsStillHold /\ LeavesAnOwner /\ CounterInOrder
=============================================================================
