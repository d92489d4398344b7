----------------------------- MODULE Lifecycle -----------------------------
(* A workspace's deletion: an owner asks, an owner or an operator changes it   *)
(* back within the window, an operator suspends, an owner erases their         *)
(* account, and past the window and its grace the purge empties the workspace  *)
(* table by table and leaves a tombstone (src/apps/api/src/orgs/provisioning,  *)
(* jobs/purge, platform/backoffice, auth/account).                             *)
(*                                                                             *)
(* `asked' is how many units of time ago deletion was requested, up to the     *)
(* moment the purge may start; a request straddles one unit at most, as an     *)
(* HTTP request against an hour of grace.  The epoch is the one all of the     *)
(* workspace's API tokens share, in Redis: set, no token is taken.             *)
EXTENDS Integers, FiniteSets

CONSTANTS
    Requests,  \* requests of owners and operators that may overlap
    Purgers,   \* purge jobs that may overlap
    Tables,    \* steps of the purge after the objects
    Window,    \* from the request to the purge date
    Grace,     \* from the purge date to the purge
    Heads,    \* active owners at first
    MaxCrashes  \* bound of the model: processes that die

ASSUME WindowAssumption ==
    /\ {Tables, Window, Grace, Heads} \subseteq Nat \ {0} /\ MaxCrashes \in Nat

VARIABLES
    status,   \* Organization.status
    asked,    \* time since deletionRequestedAt
    owners,   \* memberships that are active owners
    content,  \* what the workspace has left: its objects (0) and its tables
    epoch,    \* the workspace's revocation epoch is set
    request,  \* what each request does next
    purge,    \* the step each purge job does next
    crashes

lifecycle_vars == <<status, asked, owners, content, epoch, request, purge, crashes>>

Everything == 0 .. Tables
Due == Window + Grace
Idle == [pc |-> "idle", age |-> 0]
Rest == Tables + 2   \* a purge job at rest

TypeOK ==
    /\ status \in {"ACTIVE", "SUSPENDED", "PENDING_DELETION", "DELETED"}
    /\ asked \in 0 .. Due /\ owners \in 0 .. Heads
    /\ content \subseteq Everything /\ epoch \in BOOLEAN
    /\ request \in [Requests -> [pc : {"idle", "bumps", "checked", "clears"}, age : 0 .. 1]]
    /\ purge \in [Purgers -> 0 .. Rest] /\ crashes \in 0 .. MaxCrashes

Init ==
    /\ status = "ACTIVE" /\ asked = 0 /\ owners = Heads
    /\ content = Everything /\ epoch = FALSE
    /\ request = [r \in Requests |-> Idle]
    /\ purge = [p \in Purgers |-> Rest] /\ crashes = 0

Goes(r, pc) == request' = [request EXCEPT ![r] = [pc |-> pc, age |-> 0]]

---------------------------------------------------------------------------
(* An owner asks for the deletion; once that has committed, the epochs of the  *)
(* members and of the tokens are bumped.                                       *)
Ask(r) ==
    /\ request[r].pc = "idle" /\ status = "ACTIVE" /\ owners > 0
    /\ status' = "PENDING_DELETION" /\ asked' = 0
    /\ Goes(r, "bumps")
    /\ UNCHANGED <<owners, content, epoch, purge, crashes>>

Bump(r) ==
    /\ request[r].pc = "bumps"
    /\ epoch' = TRUE /\ Goes(r, "idle")
    /\ UNCHANGED <<status, asked, owners, content, purge, crashes>>

\* Anything that has not been purged can be changed back.
NotPurged == status # "DELETED"

(* A cancel by an owner, or a restore by an operator, reads the window and     *)
(* that somebody owns the workspace; a restore reads a workspace that is not   *)
(* pending as one whose window has not closed.                                 *)
InWindow == status # "DELETED" /\ (status = "PENDING_DELETION" => asked < Window)

ChangesBack(r) ==
    /\ request[r].pc = "idle" /\ InWindow /\ owners > 0
    /\ Goes(r, "checked")
    /\ UNCHANGED <<status, asked, owners, content, epoch, purge, crashes>>

(* Then the status moves, from pending only.                                   *)
ComesBack(r) ==
    /\ request[r].pc = "checked"
    /\ IF status = "PENDING_DELETION"
       THEN status' = "ACTIVE" /\ asked' = 0 /\ Goes(r, "clears")
       ELSE UNCHANGED <<status, asked>> /\ Goes(r, "idle")
    /\ UNCHANGED <<owners, content, epoch, purge, crashes>>

Clear(r) ==
    /\ request[r].pc = "clears"
    /\ epoch' = FALSE /\ Goes(r, "idle")
    /\ UNCHANGED <<status, asked, owners, content, purge, crashes>>

Suspend ==
    /\ \/ status = "ACTIVE" /\ status' = "SUSPENDED"
       \/ status = "SUSPENDED" /\ status' = "ACTIVE"
    /\ UNCHANGED <<asked, owners, content, epoch, request, purge, crashes>>

(* An owner erases their account, under the organization's lock: the last one  *)
(* stays unless the workspace is on its way out.                               *)
Erase ==
    /\ owners > 0 /\ (status \in {"ACTIVE", "SUSPENDED"} => owners > 1)
    /\ owners' = owners - 1
    /\ UNCHANGED <<status, asked, content, epoch, request, purge, crashes>>

---------------------------------------------------------------------------
\* A purge that starts at the purge date, without the hour's grace.
StartsAtTheDate(p) ==
    /\ purge[p] = Rest /\ status = "PENDING_DELETION" /\ asked >= Window
    /\ purge' = [purge EXCEPT ![p] = 0]
    /\ UNCHANGED <<status, asked, owners, content, epoch, request, crashes>>

(* The purge: it looks at the row, locked, then deletes the objects, then one  *)
(* table per transaction.                                                      *)
Starts(p) ==
    /\ purge[p] = Rest /\ status = "PENDING_DELETION" /\ asked = Due
    /\ purge' = [purge EXCEPT ![p] = 0]
    /\ UNCHANGED <<status, asked, owners, content, epoch, request, crashes>>

Deletes(p) ==
    /\ purge[p] \in Everything
    /\ content' = content \ {purge[p]}
    /\ purge' = [purge EXCEPT ![p] = @ + 1]
    /\ UNCHANGED <<status, asked, owners, epoch, request, crashes>>

(* The tombstone is last, if the workspace is pending still.                   *)
Tombstone(p) ==
    /\ purge[p] = Tables + 1
    /\ status' = IF status = "PENDING_DELETION" THEN "DELETED" ELSE status
    /\ purge' = [purge EXCEPT ![p] = Rest]
    /\ UNCHANGED <<asked, owners, content, epoch, request, crashes>>

(* A process dies between two of its steps; a purge is run again by the queue  *)
(* or by tomorrow's dispatch, from its first step.                             *)
RequestDies(r) ==
    /\ request[r].pc # "idle" /\ crashes < MaxCrashes
    /\ Goes(r, "idle") /\ crashes' = crashes + 1
    /\ UNCHANGED <<status, asked, owners, content, epoch, purge>>

PurgeDies(p) ==
    /\ purge[p] # Rest /\ crashes < MaxCrashes
    /\ purge' = [purge EXCEPT ![p] = Rest] /\ crashes' = crashes + 1
    /\ UNCHANGED <<status, asked, owners, content, epoch, request>>

Tick ==
    /\ \A r \in Requests : request[r].age = 0
    /\ asked' = IF status = "PENDING_DELETION" /\ asked < Due THEN asked + 1 ELSE asked
    /\ request' = [r \in Requests |->
                    IF request[r].pc = "idle" THEN Idle ELSE [request[r] EXCEPT !.age = 1]]
    /\ UNCHANGED <<status, owners, content, epoch, purge, crashes>>

Follows(r) == Bump(r) \/ ComesBack(r) \/ Clear(r)
Purges(p) == Starts(p) \/ Deletes(p) \/ Tombstone(p)

Next ==
    \/ \E r \in Requests : Ask(r) \/ ChangesBack(r) \/ Follows(r) \/ RequestDies(r)
    \/ \E p \in Purgers : Purges(p) \/ PurgeDies(p)
    \/ Suspend \/ Erase \/ Tick

(* A request goes on, time passes, and the purge is dispatched every day and   *)
(* its job run to the end.                                                     *)
Fairness ==
    /\ WF_lifecycle_vars(Tick)
    /\ \A r \in Requests : WF_lifecycle_vars(Follows(r))
    /\ \A p \in Purgers : WF_lifecycle_vars(Purges(p))

Spec == Init /\ [][Next]_lifecycle_vars /\ Fairness

---------------------------------------------------------------------------
(* A workspace that is in use has all its data, and a deleted one has none: no *)
(* cancel, restore or suspension lands beside a purge that has begun, however  *)
(* many of either are under way.                                               *)
NothingIsHalfPurged ==
    /\ status \in {"ACTIVE", "SUSPENDED"} => content = Everything
    /\ status = "DELETED" => content = {}

(* A workspace whose window and grace have passed is purged, whichever process *)
(* dies on the way.                                                            *)
EventuallyPurged == status = "PENDING_DELETION" /\ asked = Due ~> status = "DELETED"
=============================================================================
