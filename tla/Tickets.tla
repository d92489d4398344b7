------------------------------ MODULE Tickets -------------------------------
(***************************************************************************)
(* One ticket and everything that writes it: the transitions of its type's *)
(* table, edits, reassignments and comments, the auto-close sweep and the  *)
(* SLA scan (DOMAIN.md 2 and 4).                                           *)
(*                                                                         *)
(* Every handler reads the row, decides, and writes a patch of it in one   *)
(* transaction, without locking the row: Load and Write are two steps, and *)
(* the patch is what the handler made of the row it read.  The version a   *)
(* versioned write names is the one the client saw; a client that saw      *)
(* another one than the handler reads is refused whatever else happens, so *)
(* the model lets a request in with the version that its handler reads.    *)
(*                                                                         *)
(* Time is counted in minutes.  A team's part is left out of `assign`      *)
(* except that naming one is enough.                                       *)
(***************************************************************************)
EXTENDS Integers, FiniteSets

CONSTANTS
    Types,           \* of INCIDENT (a service request is the same), PROBLEM and CHANGE
    People,          \* memberships that may act on the ticket
    Agents,          \* of those, agents and above
    Admins,          \* of those, admins and owners
    Owners,          \* of those, owners
    Leads,           \* agents and above who lead the ticket's team
    Requester,       \* who raised the ticket, by its type
    Requests,        \* requests that can be open at once
    Scans,           \* runs of the SLA scan that can be open at once
    Priorities, First,  \* priorities, and the one the ticket is created with
    Policies, Agreed, \* targets per priority an admin may set, and the ones in force at first
    Warning,         \* responseWarningMinutes and resolutionWarningMinutes
    AutoCloseAfter,  \* AUTO_CLOSE_DAYS
    ReopenWindow,    \* REOPEN_WINDOW_DAYS
    ReplyRaces,      \* FALSE: replies are kept apart from other writes
    MaxTime,         \* bound: time
    MaxVersion,      \* bound: versions of the ticket
    None

ASSUME TicketsAssumption ==
    /\ Types \subseteq {"INCIDENT", "PROBLEM", "CHANGE"}
    /\ Owners \subseteq Admins /\ Admins \subseteq Agents /\ Agents \subseteq People
    /\ First \in Priorities /\ Leads \subseteq Agents
    /\ \A type \in Types : Requester[type] \in IF type = "INCIDENT" THEN People ELSE Agents
    /\ Agreed \in Policies
    /\ MaxTime \in Nat /\ AutoCloseAfter \in Nat /\ None \notin Nat

VARIABLES
    t,      \* the ticket's row
    policy, \* the workspace's SLA policies for tickets of this type
    now,    \* the clock
    held,   \* what each open request is about to write
    scan,   \* the signals each scan is about to flag
    sweep,  \* what the auto-close sweep is about to close
    told    \* history: signals sent about the running clocks

vars == <<t, policy, now, held, scan, sweep, told>>

-----------------------------------------------------------------------------
(* The table.                                                              *)

\* Mutant: no move asks for a comment.
SilentRow(from, action, to, who, says, guard) ==
    [from |-> from, action |-> action, to |-> to, who |-> who, says |-> FALSE, guard |-> guard]

Row(from, action, to, who, says, guard) ==
    [from |-> from, action |-> action, to |-> to, who |-> who, says |-> says, guard |-> guard]

IncidentTable == {
    Row({"NEW"}, "assign", "ASSIGNED", "agent", FALSE, "none"),
    Row({"NEW", "ASSIGNED"}, "start", "IN_PROGRESS", "worker", FALSE, "none"),
    Row({"IN_PROGRESS"}, "wait", "PENDING", "assignee_or_admin", TRUE, "none"),
    Row({"PENDING"}, "resume", "IN_PROGRESS", "assignee_or_admin", FALSE, "none"),
    Row({"IN_PROGRESS"}, "resolve", "RESOLVED", "assignee_or_admin", TRUE, "none"),
    Row({"RESOLVED"}, "close", "CLOSED", "requester_or_agent", FALSE, "none"),
    Row({"RESOLVED"}, "reopen", "IN_PROGRESS", "requester_or_agent", FALSE, "none"),
    Row({"CLOSED"}, "reopen", "IN_PROGRESS", "requester_or_agent", FALSE, "window"),
    Row({"NEW"}, "cancel", "CANCELLED", "requester_or_agent", FALSE, "none"),
    Row({"ASSIGNED", "IN_PROGRESS", "PENDING"}, "cancel", "CANCELLED", "agent", TRUE, "none")}

ProblemTable == {
    Row({"NEW"}, "assign", "ASSIGNED", "agent", FALSE, "none"),
    Row({"NEW", "ASSIGNED"}, "start", "IN_PROGRESS", "worker", FALSE, "none"),
    Row({"IN_PROGRESS"}, "workaround", "KNOWN_ERROR", "assignee_or_admin", FALSE, "workaround"),
    Row({"IN_PROGRESS", "KNOWN_ERROR"}, "resolve", "RESOLVED", "assignee_or_admin", FALSE, "rootCause"),
    Row({"RESOLVED"}, "close", "CLOSED", "agent", FALSE, "none"),
    Row({"NEW", "ASSIGNED", "IN_PROGRESS", "KNOWN_ERROR"}, "cancel", "CANCELLED", "agent", TRUE, "none")}

ChangeTable == {
    Row({"DRAFT"}, "submit", "AWAITING_APPROVAL", "change_owner", FALSE, "plan"),
    Row({"AWAITING_APPROVAL"}, "approve", "APPROVED", "approver", FALSE, "none"),
    Row({"AWAITING_APPROVAL"}, "reject", "DRAFT", "approver", TRUE, "none"),
    Row({"APPROVED"}, "start", "IN_PROGRESS", "assignee_or_admin", FALSE, "none"),
    Row({"IN_PROGRESS"}, "complete", "IMPLEMENTED", "assignee_or_admin", FALSE, "outcome"),
    Row({"IN_PROGRESS"}, "rollback", "ROLLED_BACK", "assignee_or_admin", FALSE, "outcome"),
    Row({"IMPLEMENTED", "ROLLED_BACK"}, "close", "CLOSED", "agent", FALSE, "none"),
    Row({"DRAFT", "AWAITING_APPROVAL", "APPROVED"}, "cancel", "CANCELLED", "change_owner", FALSE, "none")}

Table(type) == CASE type = "INCIDENT" -> IncidentTable
                 [] type = "PROBLEM"  -> ProblemTable
                 [] type = "CHANGE"   -> ChangeTable

Status(type) == UNION {r.from \cup {r.to} : r \in Table(type)}
Terminal == {"CLOSED", "CANCELLED"}

\* Who decides a change (approvers.ts): everyone who could, and of those the
\* ones it does not involve; the owner of a workspace with nobody else decides
\* alone.
Involved(r) == {Requester[r.type], r.assignee}
Candidates  == Admins \cup Leads
Decides(p, action, r) ==
    \/ p \in Candidates \ Involved(r)
    \/ action = "approve" /\ Candidates = {p} /\ p \in Owners
CanBeDecided(r) ==
    \/ Candidates \ Involved(r) # {}
    \/ Cardinality(Candidates) = 1 /\ Candidates \subseteq Owners

\* mayPerform, and mayDecide for an approver.
May(p, who, action, r) ==
    CASE who = "agent"              -> p \in Agents
      [] who = "assignee_or_admin"  -> p \in Admins \/ (p \in Agents /\ r.assignee = p)
      [] who = "worker"             -> p \in Admins \/ (p \in Agents /\ r.assignee \in {p, None})
      [] who = "requester_or_agent" -> p \in Agents \/ p = Requester[r.type]
      [] who = "change_owner"       -> p \in Admins \/ (p \in Agents /\ p = Requester[r.type])
      [] who = "approver"           -> Decides(p, action, r)

Passes(guard, r, at) ==
    CASE guard = "none"   -> TRUE
      [] guard = "window" -> at <= r.closedAt + ReopenWindow
      [] guard = "plan"   -> r.plan > 0
      [] OTHER            -> guard \in r.facts

-----------------------------------------------------------------------------
(* The clocks: domain/sla.ts.  Problems and changes have no policy.        *)

HasPolicy(type) == type = "INCIDENT"

RespondBy(type, priority) == IF HasPolicy(type) THEN policy.response[priority] ELSE None
ResolveBy(type, priority, origin, paused) ==
    IF HasPolicy(type) THEN origin + policy.resolution[priority] + paused ELSE None

OnResponded(r, at) == IF r.respondedAt = None THEN [respondedAt |-> at] ELSE << >>

OnPause(r, at) == IF r.pausedAt = None THEN [pausedAt |-> at] ELSE << >>

\* Mutant: forgets to move the deadline.
StaleResume(r, at) ==
    IF r.pausedAt = None THEN << >>
    ELSE [pausedAt |-> None, paused |-> r.paused + at - r.pausedAt]

OnResume(r, at) ==
    IF r.pausedAt = None THEN << >>
    ELSE [pausedAt |-> None, paused |-> r.paused + at - r.pausedAt,
          resolveBy |-> ResolveBy(r.type, r.priority, r.origin, r.paused + at - r.pausedAt)]

\* Mutant: the ticket stays closed.
StaysClosed(r, at) ==
    [origin |-> at, paused |-> 0, resolvedAt |-> None, pausedAt |-> None,
     resolveBy |-> ResolveBy(r.type, r.priority, at, 0)]

OnReopen(r, at) ==
    [origin |-> at, paused |-> 0, resolvedAt |-> None, closedAt |-> None, pausedAt |-> None,
     resolutionBreached |-> FALSE, resolutionWarned |-> FALSE,
     resolveBy |-> ResolveBy(r.type, r.priority, at, 0)]

OnPolicyChange(r, priority) ==
    [f \in (IF r.respondedAt = None THEN {"respondBy"} ELSE {})
           \cup (IF r.resolvedAt = None THEN {"resolveBy"} ELSE {}) |->
        IF f = "respondBy" THEN RespondBy(r.type, priority) ELSE ResolveBy(r.type, priority, r.origin, r.paused)]

\* A patch on a row, or a later patch on an earlier one.
With(r, patch) ==
    [f \in DOMAIN r \cup DOMAIN patch |-> IF f \in DOMAIN patch THEN patch[f] ELSE r[f]]

-----------------------------------------------------------------------------
Nothing == [kind |-> "nothing"]

\* onCreate: created at time 0.
Init ==
    /\ policy = Agreed
    /\ \E type \in Types :
       t = [type |-> type, status |-> IF type = "CHANGE" THEN "DRAFT" ELSE "NEW", version |-> 1,
            assignee |-> None, priority |-> First,
            respondedAt |-> None, resolvedAt |-> None, closedAt |-> None,
            pausedAt |-> None, paused |-> 0, origin |-> 0,
            respondBy |-> RespondBy(type, First), resolveBy |-> ResolveBy(type, First, 0, 0),
            responseBreached |-> FALSE, resolutionBreached |-> FALSE,
            responseWarned |-> FALSE, resolutionWarned |-> FALSE,
            facts |-> {}, plan |-> 0, approved |-> 0]
    /\ now = 0
    /\ held = [q \in Requests |-> Nothing]
    /\ scan = [s \in Scans |-> {}]
    /\ sweep = Nothing
    /\ told = [c \in {"response", "resolution"} |-> 0]

Tick == now < MaxTime /\ now' = now + 1 /\ UNCHANGED <<t, policy, held, scan, sweep, told>>

\* SlaPoliciesService.update.
EditPolicy ==
    /\ \E p \in Policies \ {policy} : policy' = p
    /\ UNCHANGED <<t, now, held, scan, sweep, told>>

\* A request has read the row and decided; ReplyRaces says whether a reply may
\* be open while something else is.
Apart(kind) ==
    \/ ReplyRaces
    \/ \A q \in Requests : held[q].kind # "reply" /\ (kind = "reply" => held[q] = Nothing)

Loads(q, p, kind, action, patch) ==
    /\ held[q] = Nothing
    /\ t.version < MaxVersion
    /\ Apart(kind)
    /\ held' = [held EXCEPT ![q] =
        [kind |-> kind, by |-> p, action |-> action, version |-> t.version, patch |-> patch]]
    /\ UNCHANGED <<t, policy, now, scan, sweep, told>>

-----------------------------------------------------------------------------
(* Transitions: TicketsService.applyTransition.                            *)

\* What a public comment and the move itself change; a person who starts
\* unowned work owns it.
Effects(r, p, row, says, to) ==
    LET said  == IF says /\ p \in Agents THEN OnResponded(r, now) ELSE << >>
        moved ==
            CASE row.action = "assign"  -> [assignee |-> to]
              [] row.action = "start"   -> IF r.assignee = None THEN [assignee |-> p] ELSE << >>
              [] row.action = "wait"    -> OnPause(r, now)
              [] row.action = "resume"  -> OnResume(r, now)
              [] row.action = "resolve" -> With(OnResponded(r, now), [resolvedAt |-> now])
              [] row.action = "close"   -> [closedAt |-> now]
              [] row.action = "reopen"  -> OnReopen(r, now)
              [] row.action = "approve" -> [approved |-> r.plan]
              [] row.action \in {"complete", "rollback"} -> [resolvedAt |-> now]
              [] OTHER -> << >> IN
    With(With([status |-> row.to], said), moved)

Transition(q, p) ==
    \E row \in Table(t.type), says \in BOOLEAN, to \in Agents \cup {None} :
        /\ t.status \in row.from
        /\ May(p, row.who, row.action, t)
        /\ Passes(row.guard, t, now)
        /\ row.says => says
        /\ row.action # "assign" => to = None
        /\ row.action = "submit" => CanBeDecided(t)
        /\ Loads(q, p, "move", row.action, Effects(t, p, row, says, to))

-----------------------------------------------------------------------------
(* Edits, reassignments and comments.                                      *)

\* detailFieldsFor: a problem's analysis while it is worked, a change's plan
\* while it is a draft and its outcome once approved.  A known error keeps its
\* workaround.
Details(r) ==
    CASE r.type = "PROBLEM" /\ r.status \in {"NEW", "ASSIGNED", "IN_PROGRESS", "KNOWN_ERROR"} ->
            {[facts |-> S] : S \in {S \in SUBSET {"workaround", "rootCause"} :
                r.status = "KNOWN_ERROR" => "workaround" \in S}}
      [] r.type = "CHANGE" /\ r.status = "DRAFT" -> {[plan |-> n] : n \in 0 .. 2}
      [] r.type = "CHANGE" /\ r.status \in {"APPROVED", "IN_PROGRESS"} ->
            {[facts |-> S] : S \in SUBSET {"outcome"}}
      [] OTHER -> {}

\* TicketsService.update: a new impact or urgency is a new priority and policy.
Edit(q, p) ==
    /\ p \in Agents
    /\ \/ \E n \in Priorities \ {t.priority} :
            Loads(q, p, "edit", "edit", With([priority |-> n], OnPolicyChange(t, n)))
       \/ \E patch \in Details(t) : Loads(q, p, "edit", "edit", patch)

\* Mutant: a change is reassigned while it waits for its decision.
NotOver(r) == r.status \notin Terminal

Reassignable(r) == r.status \notin Terminal \cup {"AWAITING_APPROVAL"}

\* TicketsService.applyAssign, to a person, to a team, or to nobody.
Assign(q, p) ==
    /\ p \in Agents
    /\ Reassignable(t)
    /\ \E to \in Agents \cup {None}, team \in BOOLEAN :
        Loads(q, p, "assign", "assign",
              IF t.status = "NEW" /\ (to # None \/ team)
              THEN [assignee |-> to, status |-> "ASSIGNED"] ELSE [assignee |-> to])

\* CommentsService.addAs, for a public comment: an agent's is the response, the
\* requester's resumes a ticket that waited for it.
Reply(q, p) ==
    LET said    == IF p \in Agents THEN OnResponded(t, now) ELSE << >>
        resumed == IF t.status = "PENDING" /\ p = Requester[t.type]
                   THEN With([status |-> "IN_PROGRESS"], OnResume(t, now)) ELSE << >> IN
    /\ p \in Agents \cup {Requester[t.type]}
    /\ t.status # "CANCELLED"
    /\ DOMAIN With(said, resumed) # {}
    /\ Loads(q, p, "reply", "reply", With(said, resumed))

\* Mutant: the last write wins.
Unversioned(h) == TRUE

\* updateVersioned names the version that was read; a comment's update does not.
Current(h) == h.kind = "reply" \/ h.version = t.version

Moves(q) ==
    t' = [With(t, held[q].patch) EXCEPT !.version = @ + 1]

\* The write, or 409 stale-write.
Write(q) ==
    /\ held[q] # Nothing
    /\ IF Current(held[q])
       THEN /\ Moves(q)
            /\ told' = IF held[q].action = "reopen" THEN [told EXCEPT !["resolution"] = 0] ELSE told
       ELSE UNCHANGED <<t, told>>
    /\ held' = [held EXCEPT ![q] = Nothing]
    /\ UNCHANGED <<policy, now, scan, sweep>>

-----------------------------------------------------------------------------
(* The sweeps.                                                             *)

\* TicketRepository.findResolvedBefore.
Expired(r) ==
    /\ r.status \in {"RESOLVED", "IMPLEMENTED", "ROLLED_BACK"}
    /\ r.resolvedAt + AutoCloseAfter <= now

\* Mutant: it looks for tickets resolved just that long ago, so that one which a
\* late run missed is never found.
SweepReadsToday ==
    /\ sweep = Nothing
    /\ Expired(t) /\ t.resolvedAt + AutoCloseAfter = now
    /\ sweep' = [kind |-> "close", version |-> t.version, patch |-> [status |-> "CLOSED", closedAt |-> now]]
    /\ UNCHANGED <<t, policy, now, held, scan, told>>

SweepReads ==
    /\ sweep = Nothing
    /\ Expired(t)
    /\ sweep' = [kind |-> "close", version |-> t.version, patch |-> [status |-> "CLOSED", closedAt |-> now]]
    /\ UNCHANGED <<t, policy, now, held, scan, told>>

SweepCloses ==
    /\ sweep # Nothing
    /\ IF Current(sweep)
       THEN t' = [With(t, sweep.patch) EXCEPT !.version = @ + 1]
       ELSE UNCHANGED t
    /\ sweep' = Nothing
    /\ UNCHANGED <<policy, now, held, scan, told>>

\* findRunningClocks: an open ticket with a policy.
Open(r) == r.status \in {"NEW", "ASSIGNED", "IN_PROGRESS", "PENDING"} /\ HasPolicy(r.type)

Signal == {"response", "resolution"} \X {"warning", "breach"}

\* Mutant: a clock that was warned about is done with.
QuietOnceWarned(clock, running, origin, by, breached, warned) ==
    IF ~running \/ by = None \/ breached \/ warned THEN {}
    ELSE IF now >= by THEN {<<clock, "breach">>}
    ELSE IF by - Warning > origin /\ now >= by - Warning THEN {<<clock, "warning">>}
    ELSE {}

\* scanSignals for one clock.
Due(clock, running, origin, by, breached, warned) ==
    IF ~running \/ by = None \/ breached THEN {}
    ELSE IF now >= by THEN {<<clock, "breach">>}
    ELSE IF ~warned /\ by - Warning > origin /\ now >= by - Warning THEN {<<clock, "warning">>}
    ELSE {}

Signals(r) ==
    Due("response", r.respondedAt = None /\ r.resolvedAt = None, 0, r.respondBy,
        r.responseBreached, r.responseWarned)
    \cup
    Due("resolution", r.resolvedAt = None /\ r.pausedAt = None, r.origin, r.resolveBy,
        r.resolutionBreached, r.resolutionWarned)

ScanReads(s) ==
    /\ scan[s] = {}
    /\ Open(t) /\ Signals(t) # {}
    /\ scan' = [scan EXCEPT ![s] = Signals(t)]
    /\ UNCHANGED <<t, policy, now, held, sweep, told>>

\* Mutant: the write does not look at the clock again.
StillAnything(r, clock, kind) == TRUE

\* The condition in flagSla's write.
StillUnset(r, clock, kind) ==
    /\ r.resolvedAt = None
    /\ IF clock = "response"
       THEN /\ r.respondedAt = None /\ ~r.responseBreached
            /\ kind = "warning" => ~r.responseWarned
       ELSE /\ r.pausedAt = None /\ ~r.resolutionBreached
            /\ kind = "warning" => ~r.resolutionWarned

Flag(clock, kind) ==
    CASE clock = "response" /\ kind = "breach"    -> [responseBreached |-> TRUE]
      [] clock = "response" /\ kind = "warning"   -> [responseWarned |-> TRUE]
      [] clock = "resolution" /\ kind = "breach"  -> [resolutionBreached |-> TRUE]
      [] clock = "resolution" /\ kind = "warning" -> [resolutionWarned |-> TRUE]

\* flagSla: not a versioned write.
ScanFlags(s) ==
    \E sig \in scan[s] :
        /\ IF StillUnset(t, sig[1], sig[2])
           THEN /\ t' = With(t, Flag(sig[1], sig[2]))
                /\ told' = IF sig[2] = "breach" THEN [told EXCEPT ![sig[1]] = @ + 1] ELSE told
           ELSE UNCHANGED <<t, told>>
        /\ scan' = [scan EXCEPT ![s] = @ \ {sig}]
        /\ UNCHANGED <<policy, now, held, sweep>>

-----------------------------------------------------------------------------
Handler(q, p) == Transition(q, p) \/ Edit(q, p) \/ Assign(q, p) \/ Reply(q, p)

Next ==
    \/ Tick \/ EditPolicy
    \/ \E q \in Requests : Write(q) \/ \E p \in People : Handler(q, p)
    \/ SweepReads \/ SweepCloses
    \/ \E s \in Scans : ScanReads(s) \/ ScanFlags(s)

Spec == Init /\ [][Next]_vars

\* Time passes, an open transaction ends, and both sweeps come round again and
\* again; nobody has to act on the ticket.
Fairness ==
    /\ WF_vars(Tick)
    /\ \A q \in Requests : WF_vars(Write(q))
    /\ WF_vars(SweepReads \/ SweepCloses)
    /\ \A s \in Scans : WF_vars(ScanReads(s) \/ ScanFlags(s))

FairSpec == Spec /\ Fairness
-----------------------------------------------------------------------------
(* Properties.                                                             *)

Instant == 0 .. MaxTime

\* The row keeps its type.
TypeOK ==
    /\ t.type \in Types /\ t.status \in Status(t.type)
    /\ t.version \in 1 .. MaxVersion + Cardinality(Requests) + 1
    /\ t.assignee \in Agents \cup {None} /\ t.priority \in Priorities
    /\ {t.respondedAt, t.resolvedAt, t.closedAt, t.pausedAt} \subseteq Instant \cup {None}
    /\ t.paused \in Instant /\ t.origin \in Instant
    /\ t.respondBy = None <=> ~HasPolicy(t.type)
    /\ {t.responseBreached, t.resolutionBreached, t.responseWarned, t.resolutionWarned} \subseteq BOOLEAN
    /\ t.plan \in 0 .. 2 /\ t.approved \in 0 .. 2

\* The request that a step writes.
Writes(q) == held[q] # Nothing /\ held'[q] = Nothing

\* The table is the rule (transitions.ts): at the moment it is written, every
\* move of the status goes by a row of the table from where the ticket is then,
\* by someone who may make it then; or is an assignment's, the requester's reply
\* to a ticket that waits, or the sweep's close of one resolved long enough ago.
MovesByTheTable ==
    [][t'.status # t.status =>
        \/ /\ sweep # Nothing /\ sweep' = Nothing
           /\ Expired(t) /\ t'.status = "CLOSED"
        \/ \E q \in Requests : Writes(q) /\
            \/ \E row \in Table(t.type) :
                /\ held[q].kind = "move" /\ held[q].action = row.action
                /\ t.status \in row.from /\ t'.status = row.to
                /\ May(held[q].by, row.who, row.action, t)
                /\ row.guard = "window" \/ Passes(row.guard, t, now)
            \/ held[q].kind = "assign" /\ t.status = "NEW" /\ t'.status = "ASSIGNED"
            \/ held[q].kind = "reply" /\ t.status = "PENDING" /\ t'.status = "IN_PROGRESS"]_vars

\* The clocks of an incident stop and pause with its status, whichever
\* handlers raced: no resolved ticket runs, no open one is stopped.
ClocksFollowStatus ==
    t.type = "INCIDENT" =>
        /\ t.resolvedAt # None <=> t.status \in {"RESOLVED", "CLOSED"}
        /\ t.closedAt # None <=> t.status = "CLOSED"
        /\ t.status = "PENDING" => t.pausedAt # None
        /\ t.pausedAt # None => t.status \in {"PENDING", "CANCELLED"}

\* The deadlines of a running clock are the formula of sla.ts of the stored
\* origin, the paused minutes and the policy of the current priority.
DeadlinesAreTheFormula ==
    Open(t) =>
        /\ t.resolveBy = ResolveBy(t.type, t.priority, t.origin, t.paused)
        /\ t.respondedAt = None => t.respondBy = RespondBy(t.type, t.priority)

\* DOMAIN.md 4.2 calls the other state unreachable: a ticket that waits for its
\* requester has been answered.
PendingIsAnswered == t.status = "PENDING" => t.respondedAt # None

\* A breach is told once however many scans found it, until a reopen starts the
\* clock afresh.
BreachIsToldOnce == \A c \in DOMAIN told : told[c] <= 1

\* What was approved is what is carried out (DOMAIN.md 2.3): from approval on,
\* the plan is the one that was approved.
PlanIsTheApprovedOne ==
    t.type = "CHANGE" /\ t.status \notin {"DRAFT", "AWAITING_APPROVAL", "CANCELLED"} =>
        t.plan > 0 /\ t.approved = t.plan

\* A change that waits for a decision has its plan and somebody to decide it.
DecisionIsPossible ==
    t.status = "AWAITING_APPROVAL" => t.plan > 0 /\ CanBeDecided(t)

\* A known error has its workaround and a resolved problem its root cause,
\* whatever edits raced the move.
AnalysisIsThere ==
    t.type = "PROBLEM" =>
        /\ t.status = "KNOWN_ERROR" => "workaround" \in t.facts
        /\ t.status \in {"RESOLVED", "CLOSED"} => "rootCause" \in t.facts

\* What the table asked of a problem or a change when it moved is true of it
\* for as long as it is where it moved to.
StatusHasItsGrounds == AnalysisIsThere /\ PlanIsTheApprovedOne

\* A resolved ticket is closed by the sweep or moved by somebody, and a clock
\* that ran past its deadline is flagged or no longer runs past it.
Overdue(r) == Open(r) /\ r.resolvedAt = None /\ r.pausedAt = None /\ now >= r.resolveBy
EventuallyClosed ==
    Expired(t) ~> ~Expired(t)
EventuallyFlagged ==
    Overdue(t) ~> (t.resolutionBreached \/ ~Overdue(t))

\* DOMAIN.md 2.4: CANCELLED is terminal.
CancelledIsFinal == [][t.status = "CANCELLED" => t'.status = "CANCELLED"]_vars

\* DOMAIN.md 4.1: editing a policy never retargets an open ticket; its time to
\* resolve is another one only when its priority is.
OpenKeepsItsTarget ==
    [][HasPolicy(t.type) /\ t'.resolveBy - t'.origin - t'.paused # t.resolveBy - t.origin - t.paused =>
        t'.priority # t.priority]_vars
=============================================================================
