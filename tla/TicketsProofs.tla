--------------------------- MODULE TicketsProofs ----------------------------
(***************************************************************************)
(* Proofs about Tickets, for every value of its constants.                 *)
(*                                                                         *)
(* What carries the argument: every write of a status, of the facts or of  *)
(* the plan adds one to the version, so a handler whose version is still    *)
(* the row's has read, for all that it decided on, the row it is about to   *)
(* write (HeldInOrder, SweepInOrder).  A flag of the SLA scan is written    *)
(* without a version, and nothing that a handler decides on is a flag.  A   *)
(* reply names no version: what it may write is little (ReplyInOrder), and  *)
(* what the clocks need of it holds when no other request is open beside    *)
(* it (RepliesAlone, ~ReplyRaces).                                         *)
(*                                                                         *)
(* The deadlines have an invariant of their own (DeadlineInv), on top of   *)
(* that one.                                                               *)
(***************************************************************************)
EXTENDS Tickets, TLAPS

USE TicketsAssumption

\* What the SLA scan writes.
Flags == {"responseBreached", "resolutionBreached", "responseWarned", "resolutionWarned"}

\* What handlers decide on, and the properties speak of.
Facts == {"type", "status", "assignee", "facts", "plan", "approved",
          "respondedAt", "resolvedAt", "closedAt", "pausedAt"}

\* A row's columns.
Fields == Facts \cup Flags \cup {"version", "priority", "paused", "origin", "respondBy", "resolveBy"}

-----------------------------------------------------------------------------
(* What holds of a row.                                                    *)

\* Statuses of one type of ticket only, and when the work ended.
StatusInOrder(r) ==
    /\ r.type \in {"INCIDENT", "PROBLEM", "CHANGE"}
    /\ r.status = "PENDING" => r.type = "INCIDENT"
    /\ r.status \in {"IMPLEMENTED", "ROLLED_BACK"} => r.type = "CHANGE"
    /\ r.status \in {"RESOLVED", "IMPLEMENTED", "ROLLED_BACK"} => r.resolvedAt \in Nat

\* A problem's work is written down before its status says so.
Analysed(r) ==
    r.type = "PROBLEM" =>
        /\ r.status = "KNOWN_ERROR" => "workaround" \in r.facts
        /\ r.status \in {"RESOLVED", "CLOSED"} => "rootCause" \in r.facts

\* A change is carried out by its approved plan, or can still be decided.
Planned(r) ==
    /\ r.type = "CHANGE" /\ r.status \notin {"DRAFT", "AWAITING_APPROVAL", "CANCELLED"} =>
        r.plan > 0 /\ r.approved = r.plan
    /\ r.status = "AWAITING_APPROVAL" => r.type = "CHANGE" /\ r.plan > 0 /\ CanBeDecided(r)

\* An incident's clocks follow its status.
Clocked(r) ==
    r.type = "INCIDENT" =>
        /\ r.resolvedAt # None <=> r.status \in {"RESOLVED", "CLOSED"}
        /\ r.closedAt # None <=> r.status = "CLOSED"
        /\ r.status = "PENDING" => r.pausedAt # None
        /\ r.pausedAt # None => r.status \in {"PENDING", "CANCELLED"}

\* A ticket that waits for its requester has been answered.
Answered(r) == r.status = "PENDING" => r.respondedAt # None

\* A row at rest; what the clocks need is promised only without racing replies.
RowInOrder(r) ==
    /\ DOMAIN r = Fields
    /\ StatusInOrder(r) /\ Analysed(r) /\ Planned(r)
    /\ ~ReplyRaces => Clocked(r) /\ Answered(r)

-----------------------------------------------------------------------------
(* What a handler holds.                                                   *)

\* A move of the status that the table, an assignment or a reply makes.
Legal(r, h, at) ==
    LET s == With(r, h.patch) IN
    \/ s.status = r.status
    \/ h.kind = "move" /\ \E row \in Table(r.type) :
        /\ h.action = row.action
        /\ r.status \in row.from /\ s.status = row.to
        /\ May(h.by, row.who, row.action, r)
        /\ row.guard = "window" \/ Passes(row.guard, r, at)
    \/ h.kind = "assign" /\ r.status = "NEW" /\ s.status = "ASSIGNED"

\* What any handler may write.
PatchInOrder(h) ==
    /\ DOMAIN h.patch \subseteq Fields \ {"type", "version", "responseBreached", "responseWarned"}
    /\ "resolutionBreached" \in DOMAIN h.patch => h.action = "reopen"

\* What a reply may write over a row that it has not locked.
ReplyInOrder(r, h) ==
    /\ h.action = "reply"
    /\ DOMAIN h.patch \subseteq {"status", "respondedAt", "pausedAt", "paused", "resolveBy"}
    /\ "respondedAt" \in DOMAIN h.patch => h.patch.respondedAt # None
    /\ IF "status" \in DOMAIN h.patch
       THEN /\ h.patch.status = "IN_PROGRESS" /\ r.type = "INCIDENT"
            /\ ~ReplyRaces => r.status = "PENDING" /\ RowInOrder(With(r, h.patch))
       ELSE "pausedAt" \notin DOMAIN h.patch

\* A handler that could still write knows the row it writes.
RequestInOrder(r, h, at) ==
    /\ h.version \in Nat /\ h.version <= r.version
    /\ h.kind \in {"move", "edit", "assign", "reply"}
    /\ PatchInOrder(h)
    /\ h.kind = "reply" => ReplyInOrder(r, h)
    /\ h.kind # "reply" /\ h.version = r.version => RowInOrder(With(r, h.patch)) /\ Legal(r, h, at)

\* Every open request, and the sweep below, decided on the row or writes nothing.
HeldInOrder == \A q \in Requests : held[q] # Nothing => RequestInOrder(t, held[q], now)

\* The sweep closes what has stayed resolved, or finds another version.
SweepInOrder ==
    sweep # Nothing =>
        /\ sweep.kind = "close" /\ sweep.version \in Nat /\ sweep.version <= t.version
        /\ DOMAIN sweep.patch = {"status", "closedAt"}
        /\ sweep.patch.status = "CLOSED" /\ sweep.patch.closedAt \in Nat
        /\ sweep.version = t.version => Expired(t)

\* A reply that nothing overlaps.
RepliesAlone ==
    ~ReplyRaces => \A q, other \in Requests :
        held[q].kind = "reply" /\ other # q => held[other] = Nothing

\* A breach that was told is on the row.
ToldInOrder ==
    /\ DOMAIN told = {"response", "resolution"}
    /\ told["response"] \in Nat /\ told["resolution"] \in Nat
    /\ told["response"] <= 1 /\ told["resolution"] <= 1
    /\ told["response"] > 0 => t.responseBreached
    /\ told["resolution"] > 0 => t.resolutionBreached

\* A scan flags what it read as signals.
ScanInOrder == DOMAIN scan = Scans /\ \A sc \in Scans : scan[sc] \subseteq Signal

\* The inductive invariant.
IndInv ==
    /\ t.version \in Nat /\ now \in Nat /\ DOMAIN held = Requests
    /\ RowInOrder(t) /\ HeldInOrder /\ SweepInOrder /\ RepliesAlone
    /\ ScanInOrder /\ ToldInOrder

-----------------------------------------------------------------------------
(* Patches and rows.                                                       *)

\* A patched row field by field.
LEMMA WithField ==
    ASSUME NEW r, NEW patch, NEW f \in DOMAIN r
    PROVE  With(r, patch)[f] = IF f \in DOMAIN patch THEN patch[f] ELSE r[f]
  BY DEF With

\* A patch adds no column.
LEMMA WithDomain ==
    ASSUME NEW r, NEW patch, DOMAIN patch \subseteq DOMAIN r
    PROVE  DOMAIN With(r, patch) = DOMAIN r
  BY DEF With

\* Two rows that say the same to whoever decides.
Agree(r, s) == DOMAIN r = Fields /\ DOMAIN s = Fields /\ \A f \in Facts : r[f] = s[f]

\* What agreeing rows have in common.
LEMMA AgreeFields ==
    ASSUME NEW r, NEW s, Agree(r, s)
    PROVE  /\ r.type = s.type /\ r.status = s.status /\ r.assignee = s.assignee
           /\ r.facts = s.facts /\ r.plan = s.plan /\ r.approved = s.approved
           /\ r.respondedAt = s.respondedAt /\ r.resolvedAt = s.resolvedAt
           /\ r.closedAt = s.closedAt /\ r.pausedAt = s.pausedAt
  BY DEF Agree, Facts

\* A flag leaves a row in order.
LEMMA AgreeRow ==
    ASSUME NEW r, NEW s, Agree(r, s), RowInOrder(r)
    PROVE  RowInOrder(s)
<1>1. CanBeDecided(r) <=> CanBeDecided(s)
  BY AgreeFields DEF CanBeDecided, Involved
<1>2. DOMAIN s = Fields
  BY DEF Agree
<1>3. StatusInOrder(s) /\ Analysed(s)
  BY AgreeFields DEF RowInOrder, StatusInOrder, Analysed
<1>4. Planned(s)
  BY <1>1, AgreeFields DEF RowInOrder, Planned
<1>5. ~ReplyRaces => Clocked(s) /\ Answered(s)
  BY AgreeFields DEF RowInOrder, Clocked, Answered
<1> QED  BY <1>2, <1>3, <1>4, <1>5 DEF RowInOrder

\* Patches keep rows agreeing.
LEMMA AgreeWith ==
    ASSUME NEW r, NEW s, Agree(r, s), NEW patch, DOMAIN patch \subseteq Fields
    PROVE  Agree(With(r, patch), With(s, patch))
<1>1. DOMAIN With(r, patch) = Fields /\ DOMAIN With(s, patch) = Fields
  BY WithDomain DEF Agree
<1>2. ASSUME NEW f \in Facts PROVE With(r, patch)[f] = With(s, patch)[f]
  <2>1. f \in DOMAIN r /\ f \in DOMAIN s /\ r[f] = s[f]
    BY DEF Agree, Fields
  <2> QED  BY <2>1, WithField
<1> QED  BY <1>1, <1>2 DEF Agree

\* Who the tables' rows are for.
Who == {"agent", "assignee_or_admin", "worker", "requester_or_agent", "change_owner", "approver"}

\* Every row of a table is for one of them.
LEMMA TableWho ==
    ASSUME NEW type \in {"INCIDENT", "PROBLEM", "CHANGE"}, NEW row \in Table(type)
    PROVE  row.who \in Who
<1>1. CASE type = "INCIDENT"
  BY <1>1 DEF Table, IncidentTable, Row, Who
<1>2. CASE type = "PROBLEM"
  BY <1>2 DEF Table, ProblemTable, Row, Who
<1>3. CASE type = "CHANGE"
  BY <1>3 DEF Table, ChangeTable, Row, Who
<1> QED  BY <1>1, <1>2, <1>3

\* Who may act is told by the facts.
LEMMA AgreeMay ==
    ASSUME NEW r, NEW s, Agree(r, s), NEW p, NEW who \in Who, NEW action, May(p, who, action, r)
    PROVE  May(p, who, action, s)
<1>1. r.assignee = s.assignee /\ r.type = s.type
  BY AgreeFields
<1>2. Requester[r.type] = Requester[s.type]
  BY <1>1
<1>3. Involved(r) = Involved(s)
  BY <1>1, <1>2 DEF Involved
<1>4. Decides(p, action, r) <=> Decides(p, action, s)
  BY <1>3 DEF Decides
<1> QED  BY <1>1, <1>2, <1>4 DEF May, Who

\* So is what a guard asks.
LEMMA AgreePasses ==
    ASSUME NEW r, NEW s, Agree(r, s), NEW guard, NEW at, Passes(guard, r, at)
    PROVE  Passes(guard, s, at)
<1>1. r.facts = s.facts /\ r.plan = s.plan /\ r.closedAt = s.closedAt
  BY AgreeFields
<1> QED  BY <1>1 DEF Passes

\* So is whether a move is by the table.
LEMMA AgreeLegal ==
    ASSUME NEW r, NEW s, Agree(r, s), RowInOrder(r),
           NEW h, DOMAIN h.patch \subseteq Fields, NEW at, Legal(r, h, at)
    PROVE  Legal(s, h, at)
<1>1. r.status = s.status /\ r.type = s.type
  BY AgreeFields
<1>2. With(r, h.patch).status = With(s, h.patch).status
  BY AgreeWith, AgreeFields
<1>3. CASE h.kind = "move" /\ \E row \in Table(r.type) :
        /\ h.action = row.action
        /\ r.status \in row.from /\ With(r, h.patch).status = row.to
        /\ May(h.by, row.who, row.action, r)
        /\ row.guard = "window" \/ Passes(row.guard, r, at)
  <2>1. PICK row \in Table(r.type) :
        /\ h.action = row.action
        /\ r.status \in row.from /\ With(r, h.patch).status = row.to
        /\ May(h.by, row.who, row.action, r)
        /\ row.guard = "window" \/ Passes(row.guard, r, at)
    BY <1>3
  <2>2. May(h.by, row.who, row.action, s)
    BY <2>1, AgreeMay, TableWho DEF RowInOrder, StatusInOrder
  <2>3. row.guard = "window" \/ Passes(row.guard, s, at)
    BY <2>1, AgreePasses
  <2> QED  BY <1>1, <1>2, <1>3, <2>1, <2>2, <2>3 DEF Legal
<1> QED  BY <1>1, <1>2, <1>3 DEF Legal

\* What is not about the version is about the facts.
LEMMA AgreeRequest ==
    ASSUME NEW r, NEW s, Agree(r, s), RowInOrder(r), r.version = s.version, NEW h, NEW at, RequestInOrder(r, h, at)
    PROVE  RequestInOrder(s, h, at)
<1>1. DOMAIN h.patch \subseteq Fields
  BY DEF RequestInOrder, PatchInOrder
<1>2. Agree(With(r, h.patch), With(s, h.patch))
  BY <1>1, AgreeWith
<1>3. RowInOrder(With(r, h.patch)) => RowInOrder(With(s, h.patch))
  BY <1>2, AgreeRow
<1>4. Legal(r, h, at) => Legal(s, h, at)
  BY <1>1, AgreeLegal
<1>5. ReplyInOrder(r, h) => ReplyInOrder(s, h)
  BY <1>3, AgreeFields DEF ReplyInOrder
<1> QED  BY <1>3, <1>4, <1>5 DEF RequestInOrder

\* A write leaves every other handler behind.
LEMMA LaterRequest ==
    ASSUME NEW r, NEW s, r.version \in Nat, s.version = r.version + 1, s.type = r.type,
           NEW h, NEW at, RequestInOrder(r, h, at),
           ReplyRaces \/ h.kind # "reply" \/ "status" \notin DOMAIN h.patch
    PROVE  RequestInOrder(s, h, at)
<1>1. h.version \in Nat /\ h.version <= s.version /\ h.version # s.version
  BY DEF RequestInOrder
<1>2. h.kind = "reply" => ReplyInOrder(s, h)
  BY DEF RequestInOrder, ReplyInOrder
<1> QED  BY <1>1, <1>2 DEF RequestInOrder

-----------------------------------------------------------------------------
(* What a move makes of the row.                                           *)

\* The tables' actions.
Action == {"assign", "start", "wait", "resume", "resolve", "close", "reopen", "cancel", "workaround",
           "submit", "approve", "reject", "complete", "rollback"}

\* Every row of a table is one of them.
LEMMA TableAction ==
    ASSUME NEW type \in {"INCIDENT", "PROBLEM", "CHANGE"}, NEW row \in Table(type)
    PROVE  row.action \in Action
<1>1. CASE type = "INCIDENT"
  BY <1>1 DEF Table, IncidentTable, Row, Action
<1>2. CASE type = "PROBLEM"
  BY <1>2 DEF Table, ProblemTable, Row, Action
<1>3. CASE type = "CHANGE"
  BY <1>3 DEF Table, ChangeTable, Row, Action
<1> QED  BY <1>1, <1>2, <1>3

\* The moves' patches, field by field.
HasEffect(r, p, row, says, e, s) ==
    /\ DOMAIN e \subseteq Fields \ {"type", "version", "responseBreached", "responseWarned"}
    /\ "resolutionBreached" \in DOMAIN e => row.action = "reopen"
    /\ DOMAIN s = Fields
    /\ s.type = r.type /\ s.status = row.to /\ s.facts = r.facts /\ s.plan = r.plan
    /\ row.action \notin {"assign", "start"} => s.assignee = r.assignee
    /\ s.approved = IF row.action = "approve" THEN r.plan ELSE r.approved
    /\ s.resolvedAt = IF row.action \in {"resolve", "complete", "rollback"} THEN now
                      ELSE IF row.action = "reopen" THEN None ELSE r.resolvedAt
    /\ s.closedAt = IF row.action = "close" THEN now
                    ELSE IF row.action = "reopen" THEN None ELSE r.closedAt
    /\ s.pausedAt = IF row.action = "wait" /\ r.pausedAt = None THEN now
                    ELSE IF row.action \in {"resume", "reopen"} THEN None ELSE r.pausedAt
    /\ says /\ p \in Agents => s.respondedAt = r.respondedAt \/ s.respondedAt = now
    /\ says /\ p \in Agents /\ now # None => s.respondedAt # None

\* A move's patch has them.
LEMMA EffectsFields ==
    ASSUME NEW r, DOMAIN r = Fields, NEW p, NEW row, row.action \in Action,
           NEW says \in BOOLEAN, NEW to,
           NEW e, e = Effects(r, p, row, says, to), NEW s, s = With(r, e)
    PROVE  HasEffect(r, p, row, says, e, s)
<1> DEFINE said == IF says /\ p \in Agents THEN OnResponded(r, now) ELSE << >>
           moved ==
            CASE row.action = "assign"  -> [assignee |-> to]
              [] row.action = "start"   -> IF r.assignee = None THEN [assignee |-> p] ELSE << >>
              [] row.action = "wait"    -> OnPause(r, now)
              [] row.action = "resume"  -> OnResume(r, now)
              [] row.action = "resolve" -> With(OnResponded(r, now), [resolvedAt |-> now])
              [] row.action = "close"   -> [closedAt |-> now]
              [] row.action = "reopen"  -> OnReopen(r, now)
              [] row.action = "approve" -> [approved |-> r.plan]
              [] row.action \in {"complete", "rollback"} -> [resolvedAt |-> now]
              [] OTHER -> << >>
           base == With([status |-> row.to], said)
<1>1. e = With(base, moved)
  BY DEF Effects
<1>2. /\ DOMAIN base \subseteq {"status", "respondedAt"} /\ "status" \in DOMAIN base
      /\ base.status = row.to
      /\ "respondedAt" \in DOMAIN base <=> says /\ p \in Agents /\ r.respondedAt = None
      /\ "respondedAt" \in DOMAIN base => base.respondedAt = now
  BY DEF With, OnResponded
<1>3. ASSUME NEW f \in Fields
      PROVE  s[f] = IF f \in DOMAIN moved THEN moved[f] ELSE IF f \in DOMAIN base THEN base[f] ELSE r[f]
  BY <1>1 DEF With
<1>4. DOMAIN e = DOMAIN base \cup DOMAIN moved
  BY <1>1 DEF With
<1>5. ASSUME row.action = "assign" \/ row.action = "start" PROVE DOMAIN moved \subseteq {"assignee"}
  <2>1. CASE row.action = "assign"
    BY <2>1
  <2>2. CASE row.action = "start"
    BY <2>2
  <2> QED  BY <1>5, <2>1, <2>2
<1>6. CASE row.action = "wait"
  <2>1. moved = IF r.pausedAt = None THEN [pausedAt |-> now] ELSE << >>
    BY <1>6 DEF OnPause
  <2>2. CASE r.pausedAt = None
    <3>1. DOMAIN moved = {"pausedAt"} /\ moved.pausedAt = now
      BY <2>1, <2>2
    <3> QED  BY <1>2, <1>3, <1>4, <1>6, <2>2, <3>1 DEF HasEffect, Fields, Facts, Flags, With
  <2>3. CASE r.pausedAt # None
    <3>1. DOMAIN moved = {}
      BY <2>1, <2>3
    <3> QED  BY <1>2, <1>3, <1>4, <1>6, <2>3, <3>1 DEF HasEffect, Fields, Facts, Flags, With
  <2> QED  BY <2>2, <2>3
<1>7. CASE row.action = "resume"
  <2>1. /\ DOMAIN moved \subseteq {"pausedAt", "paused", "resolveBy"}
        /\ "pausedAt" \in DOMAIN moved => moved.pausedAt = None
        /\ "pausedAt" \notin DOMAIN moved => r.pausedAt = None
    BY <1>7 DEF OnResume
  <2> QED  BY <1>2, <1>3, <1>4, <1>7, <2>1 DEF HasEffect, Fields, Facts, Flags, With
<1>8. CASE row.action = "resolve"
  <2>1. /\ DOMAIN moved \subseteq {"respondedAt", "resolvedAt"} /\ "resolvedAt" \in DOMAIN moved
        /\ moved.resolvedAt = now
        /\ "respondedAt" \in DOMAIN moved => moved.respondedAt = now
        /\ "respondedAt" \notin DOMAIN moved => r.respondedAt # None
    BY <1>8 DEF OnResponded, With
  <2> QED  BY <1>2, <1>3, <1>4, <1>8, <2>1 DEF HasEffect, Fields, Facts, Flags, With
<1>9. CASE row.action = "close"
  <2>1. DOMAIN moved = {"closedAt"} /\ moved.closedAt = now
    BY <1>9
  <2> QED  BY <1>2, <1>3, <1>4, <1>9, <2>1 DEF HasEffect, Fields, Facts, Flags, With
<1>10. CASE row.action = "reopen"
  <2>1. /\ DOMAIN moved = {"origin", "paused", "resolvedAt", "closedAt", "pausedAt",
                           "resolutionBreached", "resolutionWarned", "resolveBy"}
        /\ moved.resolvedAt = None /\ moved.closedAt = None /\ moved.pausedAt = None
    BY <1>10 DEF OnReopen
  <2> QED  BY <1>2, <1>3, <1>4, <1>10, <2>1 DEF HasEffect, Fields, Facts, Flags, With
<1>11. CASE row.action = "approve"
  <2>1. DOMAIN moved = {"approved"} /\ moved.approved = r.plan
    BY <1>11
  <2> QED  BY <1>2, <1>3, <1>4, <1>11, <2>1 DEF HasEffect, Fields, Facts, Flags, With
<1>12. ASSUME row.action = "complete" \/ row.action = "rollback"
       PROVE  DOMAIN moved = {"resolvedAt"} /\ moved.resolvedAt = now
  <2>1. CASE row.action = "complete"
    BY <2>1
  <2>2. CASE row.action = "rollback"
    BY <2>2
  <2> QED  BY <1>12, <2>1, <2>2
<1>13. ASSUME row.action \in {"cancel", "workaround", "submit", "reject"} PROVE DOMAIN moved = {}
  BY <1>13
<1>14. CASE row.action = "assign"
  BY <1>2, <1>3, <1>4, <1>5, <1>14 DEF HasEffect, Fields, Facts, Flags, With
<1>15. CASE row.action = "start"
  BY <1>2, <1>3, <1>4, <1>5, <1>15 DEF HasEffect, Fields, Facts, Flags, With
<1>16. CASE row.action = "complete"
  BY <1>2, <1>3, <1>4, <1>12, <1>16 DEF HasEffect, Fields, Facts, Flags, With
<1>17. CASE row.action = "rollback"
  BY <1>2, <1>3, <1>4, <1>12, <1>17 DEF HasEffect, Fields, Facts, Flags, With
<1>18. CASE row.action = "cancel"
  BY <1>2, <1>3, <1>4, <1>13, <1>18 DEF HasEffect, Fields, Facts, Flags, With
<1>19. CASE row.action = "workaround"
  BY <1>2, <1>3, <1>4, <1>13, <1>19 DEF HasEffect, Fields, Facts, Flags, With
<1>20. CASE row.action = "submit"
  BY <1>2, <1>3, <1>4, <1>13, <1>20 DEF HasEffect, Fields, Facts, Flags, With
<1>21. CASE row.action = "reject"
  BY <1>2, <1>3, <1>4, <1>13, <1>21 DEF HasEffect, Fields, Facts, Flags, With
<1> QED  BY <1>6, <1>7, <1>8, <1>9, <1>10, <1>11, <1>14, <1>15, <1>16, <1>17, <1>18, <1>19,
            <1>20, <1>21 DEF Action

-----------------------------------------------------------------------------
(* Handlers decide well on the row they read.                              *)

\* A row of the table, taken by one who may and whose guard passes.
IsTaken(row, p, says, to) ==
    /\ row \in Table(t.type) /\ says \in BOOLEAN
    /\ t.status \in row.from
    /\ May(p, row.who, row.action, t)
    /\ Passes(row.guard, t, now)
    /\ row.says => says
    /\ row.action = "submit" => CanBeDecided(t)

\* A move by an incident's table leaves its row in order.
LEMMA IncidentMoves ==
    ASSUME RowInOrder(t), now \in Nat, t.type = "INCIDENT",
           NEW p, NEW row, NEW says, NEW to, IsTaken(row, p, says, to)
    PROVE  RowInOrder(With(t, Effects(t, p, row, says, to)))
<1> DEFINE e == Effects(t, p, row, says, to)
           s == With(t, e)
<1> HIDE DEF e, s
<1>e. e = Effects(t, p, row, says, to)
  BY DEF e
<1>s. s = With(t, e) /\ DOMAIN t = Fields
  BY DEF s, RowInOrder
<1>1. row \in IncidentTable /\ row.action \in Action /\ says \in BOOLEAN
  BY TableAction DEF IsTaken, Table
<1>0. HasEffect(t, p, row, says, e, s)
  BY <1>e, <1>s, <1>1, EffectsFields
<1>2. /\ DOMAIN s = Fields
      /\ s.type = t.type /\ s.status = row.to
      /\ s.resolvedAt = IF row.action \in {"resolve", "complete", "rollback"} THEN now
                        ELSE IF row.action = "reopen" THEN None ELSE t.resolvedAt
      /\ s.closedAt = IF row.action = "close" THEN now
                      ELSE IF row.action = "reopen" THEN None ELSE t.closedAt
      /\ s.pausedAt = IF row.action = "wait" /\ t.pausedAt = None THEN now
                      ELSE IF row.action \in {"resume", "reopen"} THEN None ELSE t.pausedAt
      /\ says /\ p \in Agents /\ now # None => s.respondedAt # None
  BY <1>0 DEF HasEffect
<1>3. now # None
  OBVIOUS
<1>4. StatusInOrder(s)
  BY <1>1, <1>2 DEF RowInOrder, StatusInOrder, IsTaken, IncidentTable, Row
<1>5. Analysed(s) /\ Planned(s)
  BY <1>1, <1>2 DEF Analysed, Planned, IncidentTable, Row
<1>6. ASSUME ~ReplyRaces PROVE Clocked(s)
  BY <1>1, <1>2, <1>3, <1>6 DEF RowInOrder, Clocked, IsTaken, IncidentTable, Row
<1>7. Answered(s)
  <2> SUFFICES ASSUME s.status = "PENDING" PROVE s.respondedAt # None
    BY DEF Answered
  <2>1. row.who = "assignee_or_admin" /\ row.says
    BY <1>1, <1>2 DEF IncidentTable, Row
  <2>2. p \in Agents
    BY <2>1 DEF IsTaken, May
  <2> QED  BY <1>2, <1>3, <2>1, <2>2 DEF IsTaken
<1> QED  BY <1>2, <1>4, <1>5, <1>6, <1>7 DEF RowInOrder, e, s

\* A move by a problem's table leaves its row in order.
LEMMA ProblemMoves ==
    ASSUME RowInOrder(t), now \in Nat, t.type = "PROBLEM",
           NEW p, NEW row, NEW says, NEW to, IsTaken(row, p, says, to)
    PROVE  RowInOrder(With(t, Effects(t, p, row, says, to)))
<1> DEFINE e == Effects(t, p, row, says, to)
           s == With(t, e)
<1> HIDE DEF e, s
<1>e. e = Effects(t, p, row, says, to)
  BY DEF e
<1>s. s = With(t, e) /\ DOMAIN t = Fields
  BY DEF s, RowInOrder
<1>1. row \in ProblemTable /\ row.action \in Action /\ says \in BOOLEAN
  BY TableAction DEF IsTaken, Table
<1>0. HasEffect(t, p, row, says, e, s)
  BY <1>e, <1>s, <1>1, EffectsFields
<1>2. /\ DOMAIN s = Fields
      /\ s.type = t.type /\ s.status = row.to /\ s.facts = t.facts
      /\ s.resolvedAt = IF row.action \in {"resolve", "complete", "rollback"} THEN now
                        ELSE IF row.action = "reopen" THEN None ELSE t.resolvedAt
  BY <1>0 DEF HasEffect
<1>3. StatusInOrder(s)
  BY <1>1, <1>2 DEF RowInOrder, StatusInOrder, IsTaken, ProblemTable, Row
<1>4. Planned(s) /\ Clocked(s) /\ Answered(s)
  BY <1>1, <1>2 DEF Planned, Clocked, Answered, ProblemTable, Row
<1>5. Analysed(s)
  <2>1. row.to = "KNOWN_ERROR" => row.guard = "workaround"
    BY <1>1 DEF ProblemTable, Row
  <2>2. row.to = "RESOLVED" => row.guard = "rootCause"
    BY <1>1 DEF ProblemTable, Row
  <2>3. row.to = "CLOSED" => t.status = "RESOLVED"
    BY <1>1 DEF IsTaken, ProblemTable, Row
  <2>4. row.guard = "workaround" => "workaround" \in t.facts
    BY DEF IsTaken, Passes
  <2>5. row.guard = "rootCause" => "rootCause" \in t.facts
    BY DEF IsTaken, Passes
  <2> QED  BY <1>2, <2>1, <2>2, <2>3, <2>4, <2>5 DEF Analysed, RowInOrder
<1> QED  BY <1>2, <1>3, <1>4, <1>5 DEF RowInOrder, e, s

\* A move by a change's table leaves its row in order.
LEMMA ChangeMoves ==
    ASSUME RowInOrder(t), now \in Nat, t.type = "CHANGE",
           NEW p, NEW row, NEW says, NEW to, IsTaken(row, p, says, to)
    PROVE  RowInOrder(With(t, Effects(t, p, row, says, to)))
<1> DEFINE e == Effects(t, p, row, says, to)
           s == With(t, e)
<1> HIDE DEF e, s
<1>e. e = Effects(t, p, row, says, to)
  BY DEF e
<1>s. s = With(t, e) /\ DOMAIN t = Fields
  BY DEF s, RowInOrder
<1>1. row \in ChangeTable /\ row.action \in Action /\ says \in BOOLEAN
  BY TableAction DEF IsTaken, Table
<1>0. HasEffect(t, p, row, says, e, s)
  BY <1>e, <1>s, <1>1, EffectsFields
<1>2. /\ DOMAIN s = Fields
      /\ s.type = t.type /\ s.status = row.to /\ s.plan = t.plan
      /\ row.action \notin {"assign", "start"} => s.assignee = t.assignee
      /\ s.approved = IF row.action = "approve" THEN t.plan ELSE t.approved
      /\ s.resolvedAt = IF row.action \in {"resolve", "complete", "rollback"} THEN now
                        ELSE IF row.action = "reopen" THEN None ELSE t.resolvedAt
  BY <1>0 DEF HasEffect
<1>3. StatusInOrder(s)
  BY <1>1, <1>2 DEF RowInOrder, StatusInOrder, IsTaken, ChangeTable, Row
<1>4. Analysed(s) /\ Clocked(s) /\ Answered(s)
  BY <1>1, <1>2 DEF Analysed, Clocked, Answered, ChangeTable, Row
<1>5. Planned(s)
  <2>1. CASE row.action = "submit"
    <3>1. row.guard = "plan" /\ row.to = "AWAITING_APPROVAL"
      BY <1>1, <2>1 DEF ChangeTable, Row
    <3>2. t.plan > 0
      BY <3>1 DEF IsTaken, Passes
    <3>3. CanBeDecided(s)
      BY <1>2, <2>1 DEF IsTaken, CanBeDecided, Involved
    <3> QED  BY <1>2, <3>1, <3>2, <3>3 DEF Planned
  <2>2. CASE row.action = "approve"
    <3>1. t.status = "AWAITING_APPROVAL" /\ row.to = "APPROVED"
      BY <1>1, <2>2 DEF IsTaken, ChangeTable, Row
    <3> QED  BY <1>2, <2>2, <3>1 DEF Planned, RowInOrder
  <2>3. CASE row.action \notin {"submit", "approve"}
    <3>1. /\ row.to # "AWAITING_APPROVAL"
          /\ \/ row.to \in {"DRAFT", "CANCELLED"}
             \/ t.status \in {"APPROVED", "IN_PROGRESS", "IMPLEMENTED", "ROLLED_BACK"}
      BY <1>1, <2>3 DEF IsTaken, ChangeTable, Row
    <3> QED  BY <1>2, <2>3, <3>1 DEF Planned, RowInOrder
  <2> QED  BY <2>1, <2>2, <2>3
<1> QED  BY <1>2, <1>3, <1>4, <1>5 DEF RowInOrder, e, s

\* What a request holds when it has just read.
Fresh(p, kind, action, patch) ==
    [kind |-> kind, by |-> p, action |-> action, version |-> t.version, patch |-> patch]

\* A transition decides well on the row it read.
LEMMA MoveIsInOrder ==
    ASSUME RowInOrder(t), t.version \in Nat, now \in Nat,
           NEW p, NEW row, NEW says, NEW to, IsTaken(row, p, says, to)
    PROVE  RequestInOrder(t, Fresh(p, "move", row.action, Effects(t, p, row, says, to)), now)
<1> DEFINE e == Effects(t, p, row, says, to)
           s == With(t, e)
           h == Fresh(p, "move", row.action, e)
<1> HIDE DEF e, s
<1>e. e = Effects(t, p, row, says, to)
  BY DEF e
<1>s. s = With(t, e) /\ DOMAIN t = Fields
  BY DEF s, RowInOrder
<1>1. row.action \in Action /\ says \in BOOLEAN
  BY TableAction DEF IsTaken, RowInOrder, StatusInOrder
<1>0. HasEffect(t, p, row, says, e, s)
  BY <1>e, <1>s, <1>1, EffectsFields
<1>2. /\ DOMAIN e \subseteq Fields \ {"type", "version", "responseBreached", "responseWarned"}
      /\ "resolutionBreached" \in DOMAIN e => row.action = "reopen"
      /\ s.status = row.to
  BY <1>0 DEF HasEffect
<1>3. RowInOrder(s)
  BY IncidentMoves, ProblemMoves, ChangeMoves DEF RowInOrder, StatusInOrder, e, s
<1>4. /\ h.kind = "move" /\ h.by = p /\ h.action = row.action /\ h.version = t.version /\ h.patch = e
  BY DEF Fresh
<1>5. Legal(t, h, now)
  BY <1>s, <1>2, <1>4 DEF Legal, IsTaken
<1>6. RequestInOrder(t, h, now)
  BY <1>s, <1>2, <1>3, <1>4, <1>5 DEF RequestInOrder, PatchInOrder
<1> QED  BY <1>6 DEF e

\* An edit does.
LEMMA EditIsInOrder ==
    ASSUME RowInOrder(t), t.version \in Nat, now \in Nat, NEW p, NEW patch,
           \/ \E n \in Priorities : patch = With([priority |-> n], OnPolicyChange(t, n))
           \/ patch \in Details(t)
    PROVE  RequestInOrder(t, Fresh(p, "edit", "edit", patch), now)
<1> DEFINE s == With(t, patch)
           h == Fresh(p, "edit", "edit", patch)
<1>1. h.kind = "edit" /\ h.action = "edit" /\ h.version = t.version /\ h.patch = patch
  BY DEF Fresh
<1>2. /\ DOMAIN patch \subseteq {"priority", "respondBy", "resolveBy", "facts", "plan"}
      /\ RowInOrder(s) /\ s.status = t.status
  <2>1. CASE \E n \in Priorities : patch = With([priority |-> n], OnPolicyChange(t, n))
    <3>1. DOMAIN patch \subseteq {"priority", "respondBy", "resolveBy"}
      BY <2>1 DEF With, OnPolicyChange
    <3>2. Agree(t, s)
      BY <3>1, WithField, WithDomain DEF Agree, RowInOrder, Fields, Facts
    <3> QED  BY <3>1, <3>2, AgreeRow, AgreeFields
  <2>2. CASE patch \in Details(t)
    <3>1. \/ /\ t.type = "PROBLEM" /\ t.status \in {"NEW", "ASSIGNED", "IN_PROGRESS", "KNOWN_ERROR"}
             /\ DOMAIN patch = {"facts"} /\ (t.status = "KNOWN_ERROR" => "workaround" \in patch.facts)
          \/ t.type = "CHANGE" /\ t.status = "DRAFT" /\ DOMAIN patch = {"plan"}
          \/ t.type = "CHANGE" /\ t.status \in {"APPROVED", "IN_PROGRESS"} /\ DOMAIN patch = {"facts"}
      BY <2>2 DEF Details
    <3>2. /\ DOMAIN s = Fields /\ DOMAIN patch \subseteq {"facts", "plan"}
          /\ \A f \in Fields \ {"facts", "plan"} : s[f] = t[f]
          /\ s.facts = IF "facts" \in DOMAIN patch THEN patch.facts ELSE t.facts
          /\ s.plan = IF "plan" \in DOMAIN patch THEN patch.plan ELSE t.plan
      <4>1. DOMAIN patch \subseteq {"facts", "plan"}
        BY <3>1
      <4> QED  BY <4>1, WithField, WithDomain DEF RowInOrder, Fields, Facts
    <3>3. s.type = t.type /\ s.status = t.status /\ s.resolvedAt = t.resolvedAt /\ s.approved = t.approved
      BY <3>2 DEF Fields, Facts
    <3>4. StatusInOrder(s)
      BY <3>3 DEF StatusInOrder, RowInOrder
    <3>5. Analysed(s) /\ Planned(s) /\ Clocked(s) /\ Answered(s)
      BY <3>1, <3>2, <3>3 DEF Analysed, Planned, Clocked, Answered, RowInOrder, StatusInOrder
    <3> QED  BY <3>2, <3>3, <3>4, <3>5 DEF RowInOrder
  <2> QED  BY <2>1, <2>2
<1> QED  BY <1>1, <1>2 DEF RequestInOrder, PatchInOrder, Legal, Fields, Facts, Flags

\* An assignment does.
LEMMA AssignIsInOrder ==
    ASSUME RowInOrder(t), t.version \in Nat, now \in Nat, Reassignable(t), NEW p, NEW to, NEW patch,
           \/ patch = [assignee |-> to]
           \/ t.status = "NEW" /\ patch = [assignee |-> to, status |-> "ASSIGNED"]
    PROVE  RequestInOrder(t, Fresh(p, "assign", "assign", patch), now)
<1> DEFINE s == With(t, patch)
           h == Fresh(p, "assign", "assign", patch)
<1>1. h.kind = "assign" /\ h.action = "assign" /\ h.version = t.version /\ h.patch = patch
  BY DEF Fresh
<1>2. /\ DOMAIN patch \subseteq {"assignee", "status"}
      /\ "status" \in DOMAIN patch => t.status = "NEW" /\ patch.status = "ASSIGNED"
  OBVIOUS
<1>3. /\ DOMAIN s = Fields
      /\ \A f \in Fields \ {"assignee", "status"} : s[f] = t[f]
      /\ s.status = t.status \/ (t.status = "NEW" /\ s.status = "ASSIGNED")
  BY <1>2, WithField, WithDomain DEF RowInOrder, Fields, Facts
<1>4. /\ s.type = t.type /\ s.facts = t.facts /\ s.plan = t.plan /\ s.approved = t.approved
      /\ s.respondedAt = t.respondedAt /\ s.resolvedAt = t.resolvedAt
      /\ s.closedAt = t.closedAt /\ s.pausedAt = t.pausedAt
  BY <1>3 DEF Fields, Facts
<1>5. StatusInOrder(s) /\ Analysed(s)
  BY <1>3, <1>4 DEF StatusInOrder, Analysed, RowInOrder
<1>6. Planned(s)
  BY <1>3, <1>4 DEF Planned, RowInOrder, Reassignable
<1>7. ~ReplyRaces => Clocked(s) /\ Answered(s)
  BY <1>3, <1>4 DEF Clocked, Answered, RowInOrder
<1>8. RowInOrder(s)
  BY <1>3, <1>5, <1>6, <1>7 DEF RowInOrder
<1> QED  BY <1>1, <1>2, <1>3, <1>8 DEF RequestInOrder, PatchInOrder, Legal, Fields, Facts, Flags

\* A reply does.
LEMMA ReplyIsInOrder ==
    ASSUME RowInOrder(t), t.version \in Nat, now \in Nat, NEW p, NEW said, NEW resumed,
           said = << >> \/ said = OnResponded(t, now),
           \/ resumed = << >>
           \/ t.status = "PENDING" /\ resumed = With([status |-> "IN_PROGRESS"], OnResume(t, now))
    PROVE  RequestInOrder(t, Fresh(p, "reply", "reply", With(said, resumed)), now)
<1> DEFINE patch == With(said, resumed)
           s == With(t, patch)
           h == Fresh(p, "reply", "reply", patch)
<1>1. h.kind = "reply" /\ h.action = "reply" /\ h.version = t.version /\ h.patch = patch
  BY DEF Fresh
<1>2. DOMAIN said \subseteq {"respondedAt"} /\ ("respondedAt" \in DOMAIN said => said.respondedAt = now)
  BY DEF OnResponded
<1>3. \/ DOMAIN resumed = {}
      \/ /\ t.status = "PENDING"
         /\ DOMAIN resumed \subseteq {"status", "pausedAt", "paused", "resolveBy"}
         /\ "status" \in DOMAIN resumed /\ resumed.status = "IN_PROGRESS"
         /\ "pausedAt" \in DOMAIN resumed => resumed.pausedAt = None
         /\ "pausedAt" \notin DOMAIN resumed => t.pausedAt = None
  BY DEF OnResume, With
<1>4. /\ DOMAIN patch \subseteq {"status", "respondedAt", "pausedAt", "paused", "resolveBy"}
      /\ "respondedAt" \in DOMAIN patch => patch.respondedAt = now
      /\ "status" \in DOMAIN patch => t.status = "PENDING" /\ patch.status = "IN_PROGRESS"
      /\ "status" \in DOMAIN patch /\ "pausedAt" \in DOMAIN patch => patch.pausedAt = None
      /\ "status" \in DOMAIN patch /\ "pausedAt" \notin DOMAIN patch => t.pausedAt = None
      /\ "status" \notin DOMAIN patch => "pausedAt" \notin DOMAIN patch
  BY <1>2, <1>3 DEF With
<1>5. ASSUME "status" \in DOMAIN patch, ~ReplyRaces PROVE RowInOrder(s)
  <2>1. /\ DOMAIN s = Fields
        /\ s.type = t.type /\ s.status = "IN_PROGRESS" /\ s.resolvedAt = t.resolvedAt
        /\ s.closedAt = t.closedAt /\ s.pausedAt = None
    BY <1>4, <1>5, WithField, WithDomain DEF RowInOrder, Fields, Facts
  <2>2. t.type = "INCIDENT"
    BY <1>4, <1>5 DEF RowInOrder, StatusInOrder
  <2> QED  BY <1>4, <1>5, <2>1, <2>2 DEF RowInOrder, StatusInOrder, Analysed, Planned, Clocked, Answered
<1>6. ReplyInOrder(t, h)
  BY <1>1, <1>4, <1>5 DEF ReplyInOrder, RowInOrder, StatusInOrder
<1> QED  BY <1>1, <1>4, <1>6 DEF RequestInOrder, PatchInOrder, Fields, Facts, Flags

-----------------------------------------------------------------------------
(* Every step keeps the invariant.                                         *)

\* A request that has read the row and decided well keeps the invariant.
LEMMA StepLoads ==
    ASSUME IndInv, NEW q \in Requests, NEW p, NEW kind, NEW action, NEW patch,
           Loads(q, p, kind, action, patch),
           RequestInOrder(t, Fresh(p, kind, action, patch), now)
    PROVE  IndInv'
<1> DEFINE h == Fresh(p, kind, action, patch)
<1>1. /\ held' = [held EXCEPT ![q] = h] /\ UNCHANGED <<t, policy, now, scan, sweep, told>>
      /\ h.kind = kind /\ held[q] = Nothing
  BY DEF Loads, Fresh
<1>2. /\ held'[q] = h /\ \A other \in Requests \ {q} : held'[other] = held[other]
      /\ DOMAIN held' = Requests
  BY <1>1 DEF IndInv
<1>3. HeldInOrder'
  BY <1>1, <1>2 DEF IndInv, HeldInOrder
<1>4. RepliesAlone'
  <2> SUFFICES ASSUME ~ReplyRaces, NEW a \in Requests, NEW b \in Requests,
                      held'[a].kind = "reply", b # a
               PROVE  held'[b] = Nothing
    BY DEF RepliesAlone
  <2>1. \A o \in Requests : held[o].kind # "reply" /\ (kind = "reply" => held[o] = Nothing)
    BY DEF Loads, Apart
  <2> QED  BY <1>1, <1>2, <2>1
<1> QED  BY <1>1, <1>2, <1>3, <1>4 DEF IndInv, SweepInOrder, ScanInOrder, ToldInOrder, Expired

\* What somebody reads and decides is in order.
LEMMA StepHandler ==
    ASSUME IndInv, NEW q \in Requests, NEW p \in People, Handler(q, p)
    PROVE  IndInv'
<1>1. RowInOrder(t) /\ t.version \in Nat /\ now \in Nat
  BY DEF IndInv
<1>2. CASE Transition(q, p)
  <2>1. PICK row \in Table(t.type), says \in BOOLEAN, to \in Agents \cup {None} :
        /\ t.status \in row.from
        /\ May(p, row.who, row.action, t)
        /\ Passes(row.guard, t, now)
        /\ row.says => says
        /\ row.action = "submit" => CanBeDecided(t)
        /\ Loads(q, p, "move", row.action, Effects(t, p, row, says, to))
    BY <1>2 DEF Transition
  <2>2. IsTaken(row, p, says, to)
    BY <2>1 DEF IsTaken
  <2> QED  BY <1>1, <2>1, <2>2, MoveIsInOrder, StepLoads
<1>3. CASE Edit(q, p)
  <2>1. PICK patch : /\ Loads(q, p, "edit", "edit", patch)
                     /\ \/ \E n \in Priorities : patch = With([priority |-> n], OnPolicyChange(t, n))
                        \/ patch \in Details(t)
    BY <1>3 DEF Edit
  <2> QED  BY <1>1, <2>1, EditIsInOrder, StepLoads
<1>4. CASE Assign(q, p)
  <2>1. PICK to \in Agents \cup {None}, team \in BOOLEAN :
          Loads(q, p, "assign", "assign",
                IF t.status = "NEW" /\ (to # None \/ team)
                THEN [assignee |-> to, status |-> "ASSIGNED"] ELSE [assignee |-> to])
    BY <1>4 DEF Assign
  <2>2. PICK patch : /\ Loads(q, p, "assign", "assign", patch)
                     /\ \/ patch = [assignee |-> to]
                        \/ t.status = "NEW" /\ patch = [assignee |-> to, status |-> "ASSIGNED"]
    BY <2>1
  <2>3. Reassignable(t)
    BY <1>4 DEF Assign
  <2> QED  BY <1>1, <2>2, <2>3, AssignIsInOrder, StepLoads
<1>5. CASE Reply(q, p)
  <2>1. PICK said, resumed :
          /\ said = << >> \/ said = OnResponded(t, now)
          /\ \/ resumed = << >>
             \/ t.status = "PENDING" /\ resumed = With([status |-> "IN_PROGRESS"], OnResume(t, now))
          /\ Loads(q, p, "reply", "reply", With(said, resumed))
    BY <1>5 DEF Reply
  <2> QED  BY <1>1, <2>1, ReplyIsInOrder, StepLoads
<1> QED  BY <1>2, <1>3, <1>4, <1>5 DEF Handler

\* A versioned write: the row is what the patch makes of it, one version on.
IsWritten(r, patch, s) == s = [With(r, patch) EXCEPT !.version = @ + 1]

\* A written row agrees with the patched one, one version later.
LEMMA RowIsWritten ==
    ASSUME NEW r, DOMAIN r = Fields, r.version \in Nat, NEW patch,
           DOMAIN patch \subseteq Fields \ {"type", "version", "responseBreached", "responseWarned"},
           NEW s, IsWritten(r, patch, s)
    PROVE  /\ Agree(With(r, patch), s) /\ s.version = r.version + 1 /\ s.type = r.type
           /\ s.responseBreached = r.responseBreached
           /\ "resolutionBreached" \notin DOMAIN patch => s.resolutionBreached = r.resolutionBreached
           /\ s.status = IF "status" \in DOMAIN patch THEN patch.status ELSE r.status
<1>1. DOMAIN With(r, patch) = Fields
  BY WithDomain
<1>2. DOMAIN s = Fields /\ \A f \in Fields \ {"version"} : s[f] = With(r, patch)[f]
  BY <1>1 DEF IsWritten
<1>3. Agree(With(r, patch), s)
  BY <1>1, <1>2 DEF Agree, Fields, Facts, Flags
<1>4. \A f \in Fields : With(r, patch)[f] = IF f \in DOMAIN patch THEN patch[f] ELSE r[f]
  BY WithField
<1>5. With(r, patch).version = r.version
  BY <1>4 DEF Fields
<1>6. s.version = r.version + 1
  BY <1>1, <1>5 DEF IsWritten, Fields
<1> QED  BY <1>2, <1>3, <1>4, <1>6 DEF Fields, Facts, Flags

\* What a request that may write makes of the row.
LEMMA WrittenRow ==
    ASSUME RowInOrder(t), NEW h, RequestInOrder(t, h, now), Current(h)
    PROVE  RowInOrder(With(t, h.patch))
<1> DEFINE s == With(t, h.patch)
<1>1. CASE h.kind # "reply"
  BY <1>1 DEF RequestInOrder, Current
<1>2. CASE h.kind = "reply"
  <2>1. ReplyInOrder(t, h)
    BY <1>2 DEF RequestInOrder
  <2>2. /\ DOMAIN t = Fields /\ DOMAIN h.patch \subseteq {"status", "respondedAt", "pausedAt", "paused", "resolveBy"}
    BY <2>1 DEF ReplyInOrder, RowInOrder
  <2>3. /\ DOMAIN s = Fields
        /\ \A f \in Fields : s[f] = IF f \in DOMAIN h.patch THEN h.patch[f] ELSE t[f]
    BY <2>2, WithField, WithDomain DEF Fields, Facts, Flags
  <2>4. s.type = t.type /\ s.facts = t.facts /\ s.plan = t.plan /\ s.approved = t.approved
        /\ s.assignee = t.assignee /\ s.resolvedAt = t.resolvedAt /\ s.closedAt = t.closedAt
    BY <2>2, <2>3 DEF Fields, Facts
  <2>5. CASE "status" \in DOMAIN h.patch
    <3>1. s.status = "IN_PROGRESS" /\ t.type = "INCIDENT"
      BY <2>1, <2>3, <2>5 DEF ReplyInOrder, Fields, Facts
    <3>2. StatusInOrder(s) /\ Analysed(s) /\ Planned(s)
      BY <2>4, <3>1 DEF StatusInOrder, Analysed, Planned
    <3> QED  BY <2>1, <2>3, <2>5, <3>2 DEF ReplyInOrder, RowInOrder
  <2>6. CASE "status" \notin DOMAIN h.patch
    <3>1. s.status = t.status /\ s.pausedAt = t.pausedAt
      BY <2>1, <2>3, <2>6 DEF ReplyInOrder, Fields, Facts
    <3>2. s.respondedAt # None \/ s.respondedAt = t.respondedAt
      BY <2>1, <2>3 DEF ReplyInOrder, Fields, Facts
    <3>3. StatusInOrder(s) /\ Analysed(s)
      BY <2>4, <3>1 DEF RowInOrder, StatusInOrder, Analysed
    <3>4. Planned(s)
      BY <2>4, <3>1 DEF RowInOrder, Planned, CanBeDecided, Involved
    <3>5. ~ReplyRaces => Clocked(s) /\ Answered(s)
      BY <2>4, <3>1, <3>2 DEF RowInOrder, Clocked, Answered
    <3> QED  BY <2>3, <3>3, <3>4, <3>5 DEF RowInOrder
  <2> QED  BY <2>5, <2>6
<1> QED  BY <1>1, <1>2

\* After a write nobody else who read before it is current, but for a reply.
LEMMA StepWrite ==
    ASSUME IndInv, NEW q \in Requests, Write(q)
    PROVE  IndInv'
<1>1. held[q] # Nothing /\ held' = [held EXCEPT ![q] = Nothing] /\ UNCHANGED <<policy, now, scan, sweep>>
  BY DEF Write
<1>2. /\ DOMAIN held' = Requests /\ held'[q] = Nothing
      /\ \A o \in Requests \ {q} : held'[o] = held[o]
  BY <1>1 DEF IndInv
<1>3. RepliesAlone'
  BY <1>2 DEF IndInv, RepliesAlone, Nothing
<1>4. RequestInOrder(t, held[q], now)
  BY <1>1 DEF IndInv, HeldInOrder
<1>5. CASE ~Current(held[q])
  <2>1. UNCHANGED <<t, told>>
    BY <1>5 DEF Write
  <2> QED  BY <1>1, <1>2, <1>3, <2>1
       DEF IndInv, HeldInOrder, SweepInOrder, ScanInOrder, ToldInOrder, Expired
<1>6. CASE Current(held[q])
  <2> DEFINE h == held[q]
  <2>1. /\ t' = [With(t, h.patch) EXCEPT !.version = @ + 1]
        /\ told' = IF h.action = "reopen" THEN [told EXCEPT !["resolution"] = 0] ELSE told
    BY <1>6 DEF Write, Moves
  <2>2. DOMAIN t = Fields /\ t.version \in Nat /\ PatchInOrder(h)
    BY <1>4 DEF IndInv, RowInOrder, RequestInOrder
  <2>3. /\ Agree(With(t, h.patch), t') /\ t'.version = t.version + 1 /\ t'.type = t.type
        /\ t'.responseBreached = t.responseBreached
        /\ "resolutionBreached" \notin DOMAIN h.patch => t'.resolutionBreached = t.resolutionBreached
    <3>1. IsWritten(t, h.patch, t')
      BY <2>1 DEF IsWritten
    <3> QED  BY <2>2, <3>1, RowIsWritten DEF PatchInOrder
  <2>4. RowInOrder(t')
    BY <1>4, <1>6, <2>3, WrittenRow, AgreeRow DEF IndInv
  <2>5. HeldInOrder'
    <3> SUFFICES ASSUME NEW o \in Requests, held'[o] # Nothing
                 PROVE  RequestInOrder(t', held'[o], now')
      BY DEF HeldInOrder
    <3>1. o # q /\ held'[o] = held[o] /\ now' = now /\ RequestInOrder(t, held[o], now)
      BY <1>1, <1>2 DEF IndInv, HeldInOrder
    <3>2. ReplyRaces \/ held[o].kind # "reply"
      BY <1>1, <3>1 DEF IndInv, RepliesAlone
    <3> QED  BY <2>2, <2>3, <3>1, <3>2, LaterRequest
  <2>6. SweepInOrder'
    BY <1>1, <2>2, <2>3 DEF IndInv, SweepInOrder
  <2>7. ToldInOrder'
    BY <2>1, <2>2, <2>3 DEF IndInv, ToldInOrder, PatchInOrder
  <2> QED  BY <1>1, <1>2, <1>3, <2>2, <2>3, <2>4, <2>5, <2>6, <2>7 DEF IndInv, ScanInOrder
<1> QED  BY <1>5, <1>6

\* The sweep reads a ticket that is resolved long enough.
LEMMA StepSweepReads ==
    ASSUME IndInv, SweepReads
    PROVE  IndInv'
<1>1. /\ sweep' = [kind |-> "close", version |-> t.version, patch |-> [status |-> "CLOSED", closedAt |-> now]]
      /\ Expired(t) /\ UNCHANGED <<t, policy, now, held, scan, told>>
  BY DEF SweepReads
<1>2. SweepInOrder'
  BY <1>1 DEF IndInv, SweepInOrder, Expired
<1> QED  BY <1>1, <1>2 DEF IndInv, HeldInOrder, RepliesAlone, ScanInOrder, ToldInOrder

\* A sweep that still knows the row closes it.
LEMMA StepSweepCloses ==
    ASSUME IndInv, SweepCloses
    PROVE  IndInv'
<1>1. sweep # Nothing /\ sweep' = Nothing /\ UNCHANGED <<policy, now, held, scan, told>>
  BY DEF SweepCloses
<1>2. CASE ~Current(sweep)
  <2>1. UNCHANGED t
    BY <1>2 DEF SweepCloses
  <2> QED  BY <1>1, <2>1 DEF IndInv, HeldInOrder, RepliesAlone, SweepInOrder, ScanInOrder, ToldInOrder
<1>3. CASE Current(sweep)
  <2> DEFINE s == With(t, sweep.patch)
  <2>1. /\ Expired(t) /\ DOMAIN sweep.patch = {"status", "closedAt"}
        /\ sweep.patch.status = "CLOSED" /\ sweep.patch.closedAt \in Nat
    BY <1>1, <1>3 DEF IndInv, SweepInOrder, Current
  <2>2. DOMAIN t = Fields /\ t.version \in Nat /\ RowInOrder(t)
    BY DEF IndInv, RowInOrder
  <2>3. IsWritten(t, sweep.patch, t')
    BY <1>3 DEF SweepCloses, IsWritten
  <2>4. DOMAIN sweep.patch \subseteq Fields \ {"type", "version", "responseBreached", "responseWarned"}
    BY <2>1 DEF Fields, Facts, Flags
  <2>5. /\ Agree(s, t') /\ t'.version = t.version + 1 /\ t'.type = t.type
        /\ t'.responseBreached = t.responseBreached /\ t'.resolutionBreached = t.resolutionBreached
    BY <2>1, <2>2, <2>3, <2>4, RowIsWritten
  <2>6. RowInOrder(s)
    <3>1. DOMAIN s = Fields /\ \A f \in Fields : s[f] = IF f \in DOMAIN sweep.patch THEN sweep.patch[f] ELSE t[f]
      BY <2>2, <2>4, WithField, WithDomain
    <3>2. /\ s.type = t.type /\ s.status = "CLOSED" /\ s.facts = t.facts /\ s.plan = t.plan
          /\ s.approved = t.approved /\ s.resolvedAt = t.resolvedAt /\ s.closedAt # None
          /\ s.pausedAt = t.pausedAt
      BY <2>1, <3>1 DEF Fields, Facts
    <3>3. /\ t.status \in {"RESOLVED", "IMPLEMENTED", "ROLLED_BACK"} /\ t.resolvedAt \in Nat
          /\ t.status \in {"IMPLEMENTED", "ROLLED_BACK"} => t.type = "CHANGE"
      BY <2>1, <2>2 DEF Expired, RowInOrder, StatusInOrder
    <3>4. StatusInOrder(s) /\ Analysed(s) /\ Planned(s) /\ Answered(s)
      BY <2>2, <3>2, <3>3 DEF RowInOrder, StatusInOrder, Analysed, Planned, Answered
    <3>5. ~ReplyRaces => Clocked(s)
      BY <2>2, <3>2, <3>3 DEF RowInOrder, Clocked
    <3> QED  BY <3>1, <3>4, <3>5 DEF RowInOrder
  <2>7. RowInOrder(t')
    BY <2>5, <2>6, AgreeRow
  <2>8. HeldInOrder'
    <3> SUFFICES ASSUME NEW o \in Requests, held[o] # Nothing
                 PROVE  RequestInOrder(t', held[o], now)
      BY <1>1 DEF HeldInOrder
    <3>1. RequestInOrder(t, held[o], now)
      BY DEF IndInv, HeldInOrder
    <3>2. ReplyRaces \/ held[o].kind # "reply" \/ "status" \notin DOMAIN held[o].patch
      BY <2>1, <3>1 DEF RequestInOrder, ReplyInOrder, Expired
    <3> QED  BY <2>2, <2>5, <3>1, <3>2, LaterRequest
  <2> QED  BY <1>1, <2>2, <2>5, <2>7, <2>8
       DEF IndInv, RepliesAlone, SweepInOrder, ScanInOrder, ToldInOrder
<1> QED  BY <1>2, <1>3

\* A scan's read keeps the invariant.
LEMMA StepScanReads ==
    ASSUME IndInv, NEW sc \in Scans, ScanReads(sc)
    PROVE  IndInv'
<1>1. scan' = [scan EXCEPT ![sc] = Signals(t)] /\ UNCHANGED <<t, policy, now, held, sweep, told>>
  BY DEF ScanReads
<1>2. Signals(t) \subseteq Signal
  BY DEF Signals, Due, Signal
<1>3. ScanInOrder'
  BY <1>1, <1>2 DEF IndInv, ScanInOrder
<1> QED  BY <1>1, <1>3 DEF IndInv, HeldInOrder, RepliesAlone, SweepInOrder, ToldInOrder, Expired

\* A flag is nothing anybody decides on.
LEMMA FlagAgrees ==
    ASSUME NEW r, DOMAIN r = Fields, NEW f \in Flags, NEW patch, DOMAIN patch = {f}
    PROVE  Agree(r, With(r, patch)) /\ With(r, patch).version = r.version
<1>1. DOMAIN patch \subseteq Fields /\ f \notin Facts /\ f # "version"
  BY DEF Fields, Flags, Facts
<1> QED  BY <1>1, WithField, WithDomain DEF Agree, Fields

\* A scan's write keeps the invariant.
LEMMA StepScanFlags ==
    ASSUME IndInv, NEW sc \in Scans, ScanFlags(sc)
    PROVE  IndInv'
<1>1. PICK sig \in scan[sc] :
        /\ IF StillUnset(t, sig[1], sig[2])
           THEN /\ t' = With(t, Flag(sig[1], sig[2]))
                /\ told' = IF sig[2] = "breach" THEN [told EXCEPT ![sig[1]] = @ + 1] ELSE told
           ELSE UNCHANGED <<t, told>>
        /\ scan' = [scan EXCEPT ![sc] = @ \ {sig}]
        /\ UNCHANGED <<policy, now, held, sweep>>
  BY DEF ScanFlags
<1>2. sig[1] \in {"response", "resolution"} /\ sig[2] \in {"warning", "breach"}
  BY DEF IndInv, ScanInOrder, Signal
<1>3. ScanInOrder'
  BY <1>1 DEF IndInv, ScanInOrder
<1>4. CASE ~StillUnset(t, sig[1], sig[2])
  <2>1. UNCHANGED <<t, told>>
    BY <1>1, <1>4
  <2> QED  BY <1>1, <1>3, <2>1 DEF IndInv, HeldInOrder, RepliesAlone, SweepInOrder, ToldInOrder, Expired
<1>5. CASE StillUnset(t, sig[1], sig[2])
  <2> DEFINE patch == Flag(sig[1], sig[2])
  <2>1. /\ t' = With(t, patch)
        /\ told' = IF sig[2] = "breach" THEN [told EXCEPT ![sig[1]] = @ + 1] ELSE told
    BY <1>1, <1>5
  <2>2. /\ sig[1] = "response" /\ sig[2] = "breach" => patch = [responseBreached |-> TRUE]
        /\ sig[1] = "response" /\ sig[2] = "warning" => patch = [responseWarned |-> TRUE]
        /\ sig[1] = "resolution" /\ sig[2] = "breach" => patch = [resolutionBreached |-> TRUE]
        /\ sig[1] = "resolution" /\ sig[2] = "warning" => patch = [resolutionWarned |-> TRUE]
    BY <1>2 DEF Flag
  <2>3. \E f \in Flags : DOMAIN patch = {f}
    BY <1>2, <2>2 DEF Flags
  <2>4. DOMAIN t = Fields /\ RowInOrder(t)
    BY DEF IndInv, RowInOrder
  <2>5. Agree(t, t') /\ t'.version = t.version
    BY <2>1, <2>3, <2>4, FlagAgrees
  <2>6. RowInOrder(t')
    BY <2>4, <2>5, AgreeRow
  <2>7. HeldInOrder'
    BY <1>1, <2>4, <2>5, AgreeRequest DEF IndInv, HeldInOrder
  <2>8. SweepInOrder'
    BY <1>1, <2>5, AgreeFields DEF IndInv, SweepInOrder, Expired
  <2>9. /\ t'.responseBreached = IF "responseBreached" \in DOMAIN patch THEN patch.responseBreached ELSE t.responseBreached
        /\ t'.resolutionBreached =
             IF "resolutionBreached" \in DOMAIN patch THEN patch.resolutionBreached ELSE t.resolutionBreached
    BY <2>1, <2>4, WithField DEF Fields, Flags
  <2>10. ToldInOrder'
    <3>1. CASE sig[2] = "warning"
      BY <1>2, <2>1, <2>2, <2>9, <3>1 DEF IndInv, ToldInOrder
    <3>2. CASE sig[1] = "response" /\ sig[2] = "breach"
      <4>1. told["response"] = 0
        BY <1>5, <3>2 DEF IndInv, ToldInOrder, StillUnset
      <4> QED  BY <2>1, <2>2, <2>9, <3>2, <4>1 DEF IndInv, ToldInOrder
    <3>3. CASE sig[1] = "resolution" /\ sig[2] = "breach"
      <4>1. told["resolution"] = 0
        BY <1>5, <3>3 DEF IndInv, ToldInOrder, StillUnset
      <4> QED  BY <2>1, <2>2, <2>9, <3>3, <4>1 DEF IndInv, ToldInOrder
    <3> QED  BY <1>2, <3>1, <3>2, <3>3
  <2> QED  BY <1>1, <1>3, <2>5, <2>6, <2>7, <2>8, <2>10 DEF IndInv, RepliesAlone
<1> QED  BY <1>4, <1>5

\* Time makes no move illegal that was not about the window.
LEMMA StepTick ==
    ASSUME IndInv, Tick
    PROVE  IndInv'
<1>1. now \in Nat /\ now' = now + 1 /\ UNCHANGED <<t, policy, held, scan, sweep, told>>
  BY DEF Tick, IndInv
<1>2. \A h : Legal(t, h, now) => Legal(t, h, now')
  BY DEF Legal, Passes
<1>3. HeldInOrder'
  BY <1>1, <1>2 DEF IndInv, HeldInOrder, RequestInOrder
<1>4. SweepInOrder'
  <2>1. Expired(t) => Expired(t)'
    BY <1>1 DEF IndInv, RowInOrder, StatusInOrder, Expired
  <2> QED  BY <1>1, <2>1 DEF IndInv, SweepInOrder
<1> QED  BY <1>1, <1>3, <1>4 DEF IndInv, RepliesAlone, ScanInOrder, ToldInOrder

\* Nobody decides on a deadline, or on what it is computed from.
LEMMA StepEditPolicy ==
    ASSUME IndInv, EditPolicy \/ UNCHANGED vars
    PROVE  IndInv'
<1>1. UNCHANGED <<t, now, held, scan, sweep, told>>
  BY DEF EditPolicy, vars
<1> QED  BY <1>1 DEF IndInv, HeldInOrder, RepliesAlone, SweepInOrder, ScanInOrder, ToldInOrder, Expired

-----------------------------------------------------------------------------
(* The invariant holds of every behaviour.                                 *)

\* A new ticket is in order.
LEMMA IndInvInit == Init => IndInv
<1> SUFFICES ASSUME Init PROVE IndInv
  OBVIOUS
<1>1. /\ DOMAIN t = Fields /\ t.version = 1
      /\ t.type \in {"INCIDENT", "PROBLEM", "CHANGE"} /\ t.status \in {"NEW", "DRAFT"}
      /\ t.type = "CHANGE" => t.status = "DRAFT"
      /\ t.resolvedAt = None /\ t.closedAt = None /\ t.pausedAt = None
  BY DEF Init, Fields, Facts, Flags
<1>2. RowInOrder(t)
  BY <1>1 DEF RowInOrder, StatusInOrder, Analysed, Planned, Clocked, Answered
<1>3. held = [q \in Requests |-> Nothing] /\ sweep = Nothing /\ now = 0
  BY DEF Init
<1>4. HeldInOrder /\ RepliesAlone /\ SweepInOrder
  BY <1>3 DEF HeldInOrder, RepliesAlone, SweepInOrder, Nothing
<1>5. ScanInOrder /\ ToldInOrder
  BY DEF Init, ScanInOrder, ToldInOrder
<1> QED  BY <1>1, <1>2, <1>3, <1>4, <1>5 DEF IndInv

\* Every action keeps the invariant.
LEMMA IndInvNext == IndInv /\ [Next]_vars => IndInv'
<1> SUFFICES ASSUME IndInv, [Next]_vars PROVE IndInv'
  OBVIOUS
<1>1. CASE Tick
  BY <1>1, StepTick
<1>2. CASE EditPolicy \/ UNCHANGED vars
  BY <1>2, StepEditPolicy
<1>3. ASSUME NEW q \in Requests, Write(q) \/ \E p \in People : Handler(q, p)
      PROVE  IndInv'
  BY <1>3, StepWrite, StepHandler
<1>4. CASE SweepReads \/ SweepCloses
  BY <1>4, StepSweepReads, StepSweepCloses
<1>5. ASSUME NEW sc \in Scans, ScanReads(sc) \/ ScanFlags(sc)
      PROVE  IndInv'
  BY <1>5, StepScanReads, StepScanFlags
<1> QED  BY <1>1, <1>2, <1>3, <1>4, <1>5 DEF Next

\* The inductive invariant holds in every reachable state, for any number of
\* people, requests and scans, any policies and any bounds.
THEOREM Invariance == Spec => []IndInv
  BY IndInvInit, IndInvNext, PTL DEF Spec

\* A known error keeps its workaround, a resolved problem its root cause and an
\* approved change its plan, though edits race moves, and replies race both.
THEOREM GroundsStand == Spec => []StatusHasItsGrounds
<1>1. IndInv => AnalysisIsThere
  BY DEF IndInv, RowInOrder, Analysed, AnalysisIsThere
<1>2. IndInv => PlanIsTheApprovedOne
  BY DEF IndInv, RowInOrder, Planned, PlanIsTheApprovedOne
<1>3. IndInv => StatusHasItsGrounds
  BY <1>1, <1>2 DEF StatusHasItsGrounds
<1> QED  BY <1>3, Invariance, PTL

\* A change that waits for approval has somebody who may decide it.
THEOREM SomebodyDecides == Spec => []DecisionIsPossible
<1>1. IndInv => DecisionIsPossible
  BY DEF IndInv, RowInOrder, Planned, DecisionIsPossible
<1> QED  BY <1>1, Invariance, PTL

\* A breach is told once, however many scans overlap.
THEOREM ToldOnce == Spec => []BreachIsToldOnce
<1>1. IndInv => BreachIsToldOnce
  BY DEF IndInv, ToldInOrder, BreachIsToldOnce
<1> QED  BY <1>1, Invariance, PTL

\* An incident's clocks follow its status, as long as no reply overlaps another
\* request.
THEOREM ClocksFollow ==
    ASSUME ~ReplyRaces
    PROVE  Spec => []ClocksFollowStatus
<1>1. IndInv => ClocksFollowStatus
  BY DEF IndInv, RowInOrder, Clocked, ClocksFollowStatus
<1> QED  BY <1>1, Invariance, PTL

\* A ticket that waits for its requester has been answered, under the same
\* condition.
THEOREM WaitingIsAnswered ==
    ASSUME ~ReplyRaces
    PROVE  Spec => []PendingIsAnswered
<1>1. IndInv => PendingIsAnswered
  BY DEF IndInv, RowInOrder, Answered, PendingIsAnswered
<1> QED  BY <1>1, Invariance, PTL

\* Every step is by the table at the moment it is written.
LEMMA StepByTheTable ==
    ASSUME ~ReplyRaces, IndInv, [Next]_vars, t'.status # t.status
    PROVE  \/ /\ sweep # Nothing /\ sweep' = Nothing
              /\ Expired(t) /\ t'.status = "CLOSED"
           \/ \E q \in Requests : Writes(q) /\
               \/ \E row \in Table(t.type) :
                   /\ held[q].kind = "move" /\ held[q].action = row.action
                   /\ t.status \in row.from /\ t'.status = row.to
                   /\ May(held[q].by, row.who, row.action, t)
                   /\ row.guard = "window" \/ Passes(row.guard, t, now)
               \/ held[q].kind = "assign" /\ t.status = "NEW" /\ t'.status = "ASSIGNED"
               \/ held[q].kind = "reply" /\ t.status = "PENDING" /\ t'.status = "IN_PROGRESS"
<1>1. CASE SweepCloses
  <2>1. /\ sweep # Nothing /\ sweep' = Nothing /\ Current(sweep)
        /\ IsWritten(t, sweep.patch, t')
    BY <1>1 DEF SweepCloses, IsWritten
  <2>2. /\ Expired(t) /\ DOMAIN sweep.patch = {"status", "closedAt"} /\ sweep.patch.status = "CLOSED"
    BY <2>1 DEF IndInv, SweepInOrder, Current
  <2>3. DOMAIN sweep.patch \subseteq Fields \ {"type", "version", "responseBreached", "responseWarned"}
    BY <2>2 DEF Fields, Facts, Flags
  <2>4. t'.status = "CLOSED"
    BY <2>1, <2>2, <2>3, RowIsWritten DEF IndInv, RowInOrder
  <2> QED  BY <2>1, <2>2, <2>4
<1>2. ASSUME NEW q \in Requests, Write(q)
      PROVE  Writes(q) /\
               (\/ \E row \in Table(t.type) :
                   /\ held[q].kind = "move" /\ held[q].action = row.action
                   /\ t.status \in row.from /\ t'.status = row.to
                   /\ May(held[q].by, row.who, row.action, t)
                   /\ row.guard = "window" \/ Passes(row.guard, t, now)
                \/ held[q].kind = "assign" /\ t.status = "NEW" /\ t'.status = "ASSIGNED"
                \/ held[q].kind = "reply" /\ t.status = "PENDING" /\ t'.status = "IN_PROGRESS")
  <2> DEFINE h == held[q]
  <2>1. /\ h # Nothing /\ Current(h) /\ IsWritten(t, h.patch, t') /\ held' = [held EXCEPT ![q] = Nothing]
    BY <1>2 DEF Write, Moves, IsWritten
  <2>2. Writes(q)
    BY <2>1 DEF IndInv, Writes
  <2>3. RequestInOrder(t, h, now)
    BY <2>1 DEF IndInv, HeldInOrder
  <2>4. DOMAIN t = Fields /\ t.version \in Nat /\ PatchInOrder(h)
    BY <2>3 DEF IndInv, RowInOrder, RequestInOrder
  <2>5. /\ Agree(With(t, h.patch), t')
        /\ t'.status = IF "status" \in DOMAIN h.patch THEN h.patch.status ELSE t.status
    BY <2>1, <2>4, RowIsWritten DEF PatchInOrder
  <2>6. t'.status = With(t, h.patch).status
    BY <2>5, AgreeFields
  <2>7. CASE h.kind = "reply"
    BY <2>2, <2>3, <2>5, <2>7 DEF RequestInOrder, ReplyInOrder
  <2>8. CASE h.kind # "reply"
    <3>1. Legal(t, h, now)
      BY <2>1, <2>3, <2>8 DEF RequestInOrder, Current
    <3> QED  BY <2>2, <2>6, <3>1 DEF Legal
  <2> QED  BY <2>7, <2>8
<1>3. ASSUME NEW sc \in Scans, ScanFlags(sc) PROVE FALSE
  <2>1. PICK sig \in scan[sc] : t' = t \/ t' = With(t, Flag(sig[1], sig[2]))
    BY <1>3 DEF ScanFlags
  <2>2. sig[1] \in {"response", "resolution"} /\ sig[2] \in {"warning", "breach"}
    BY DEF IndInv, ScanInOrder, Signal
  <2>3. \E f \in Flags : DOMAIN Flag(sig[1], sig[2]) = {f}
    BY <2>2 DEF Flag, Flags
  <2>4. With(t, Flag(sig[1], sig[2])).status = t.status
    BY <2>3, FlagAgrees, AgreeFields DEF IndInv, RowInOrder
  <2> QED  BY <2>1, <2>4
<1>4. CASE Tick \/ EditPolicy \/ SweepReads \/ UNCHANGED vars
  BY <1>4 DEF Tick, EditPolicy, SweepReads, vars
<1>5. ASSUME NEW q \in Requests, NEW p \in People, Handler(q, p) PROVE FALSE
  <2>1. CASE Transition(q, p)
    BY <2>1 DEF Transition, Loads
  <2>2. CASE Edit(q, p)
    BY <2>2 DEF Edit, Loads
  <2>3. CASE Assign(q, p)
    BY <2>3 DEF Assign, Loads
  <2>4. CASE Reply(q, p)
    BY <2>4 DEF Reply, Loads
  <2> QED  BY <1>5, <2>1, <2>2, <2>3, <2>4 DEF Handler
<1>6. ASSUME NEW sc \in Scans, ScanReads(sc) PROVE FALSE
  BY <1>6 DEF ScanReads
<1>7. CASE \E q \in Requests : Write(q) \/ \E p \in People : Handler(q, p)
  <2>1. PICK q \in Requests : Write(q) \/ \E p \in People : Handler(q, p)
    BY <1>7
  <2>2. Write(q)
    BY <2>1, <1>5
  <2> QED  BY <1>2, <2>2
<1>8. CASE \E sc \in Scans : ScanReads(sc) \/ ScanFlags(sc)
  BY <1>3, <1>6, <1>8
<1> QED  BY <1>1, <1>4, <1>7, <1>8 DEF Next

\* The table is the rule at the moment of the write, for any people, policies
\* and number of requests, as long as no reply overlaps another request.
THEOREM MovesGoByTheTable ==
    ASSUME ~ReplyRaces
    PROVE  Spec => MovesByTheTable
<1>1. IndInv /\ [Next]_vars =>
        [t'.status # t.status =>
            \/ /\ sweep # Nothing /\ sweep' = Nothing
               /\ Expired(t) /\ t'.status = "CLOSED"
            \/ \E q \in Requests : Writes(q) /\
                \/ \E row \in Table(t.type) :
                    /\ held[q].kind = "move" /\ held[q].action = row.action
                    /\ t.status \in row.from /\ t'.status = row.to
                    /\ May(held[q].by, row.who, row.action, t)
                    /\ row.guard = "window" \/ Passes(row.guard, t, now)
                \/ held[q].kind = "assign" /\ t.status = "NEW" /\ t'.status = "ASSIGNED"
                \/ held[q].kind = "reply" /\ t.status = "PENDING" /\ t'.status = "IN_PROGRESS"]_vars
  BY StepByTheTable
<1> QED  BY <1>1, Invariance, PTL DEF Spec, MovesByTheTable

-----------------------------------------------------------------------------
(* Deadlines, when no reply overlaps another request and the policy is      *)
(* settled: an edit of the policy retargets nothing, so that its deadlines  *)
(* are another policy's until the ticket is next touched (DOMAIN.md 4.1).   *)

\* What the deadlines are computed from, and the deadlines.
Terms == {"type", "priority", "origin", "paused", "respondBy", "resolveBy"}

\* A clock that has not stopped has the deadline of the formula.
Punctual(r) ==
    HasPolicy(r.type) =>
        /\ r.resolvedAt = None => r.resolveBy = ResolveBy(r.type, r.priority, r.origin, r.paused)
        /\ r.respondedAt = None => r.respondBy = RespondBy(r.type, r.priority)

\* So has the row, and so will it have when a handler that still can has
\* written: the formula's terms are nowhere written without the deadline.
DeadlineInv ==
    /\ policy = Agreed
    /\ Punctual(t)
    /\ \A q \in Requests : held[q] # Nothing /\ Current(held[q]) => Punctual(With(t, held[q].patch))

\* The columns that matter to a deadline.
Timed == Terms \cup {"respondedAt", "resolvedAt"}

\* Rows that agree on them are punctual together.
SameTimes(r, s) == DOMAIN r = Fields /\ DOMAIN s = Fields /\ \A f \in Timed : r[f] = s[f]

\* The deadlines are a matter of those columns.
LEMMA SamePunctual ==
    ASSUME NEW r, NEW s, SameTimes(r, s), Punctual(r)
    PROVE  Punctual(s)
<1>1. /\ r.type = s.type /\ r.priority = s.priority /\ r.origin = s.origin /\ r.paused = s.paused
      /\ r.respondBy = s.respondBy /\ r.resolveBy = s.resolveBy
      /\ r.respondedAt = s.respondedAt /\ r.resolvedAt = s.resolvedAt
  BY DEF SameTimes, Timed, Terms
<1> QED  BY <1>1 DEF Punctual

\* Patched alike, they still agree.
LEMMA SameWith ==
    ASSUME NEW r, NEW s, SameTimes(r, s), NEW patch, DOMAIN patch \subseteq Fields
    PROVE  SameTimes(With(r, patch), With(s, patch))
<1>1. DOMAIN With(r, patch) = Fields /\ DOMAIN With(s, patch) = Fields
  BY WithDomain DEF SameTimes
<1>2. ASSUME NEW f \in Timed PROVE With(r, patch)[f] = With(s, patch)[f]
  <2>1. f \in DOMAIN r /\ f \in DOMAIN s /\ r[f] = s[f]
    BY DEF SameTimes, Timed, Terms, Fields, Facts
  <2> QED  BY <2>1, WithField
<1> QED  BY <1>1, <1>2 DEF SameTimes

\* A patch that leaves the terms alone, and a clock at most stops.
Untimed(patch) ==
    /\ DOMAIN patch \subseteq Fields \ Terms
    /\ "respondedAt" \in DOMAIN patch => patch.respondedAt # None
    /\ "resolvedAt" \in DOMAIN patch => patch.resolvedAt # None

\* It leaves the deadlines right.
LEMMA UntimedPunctual ==
    ASSUME NEW r, DOMAIN r = Fields, Punctual(r), NEW patch, Untimed(patch)
    PROVE  Punctual(With(r, patch))
<1> DEFINE s == With(r, patch)
<1>1. \A f \in Fields : s[f] = IF f \in DOMAIN patch THEN patch[f] ELSE r[f]
  BY WithField
<1>2. /\ s.type = r.type /\ s.priority = r.priority /\ s.origin = r.origin /\ s.paused = r.paused
      /\ s.respondBy = r.respondBy /\ s.resolveBy = r.resolveBy
  BY <1>1 DEF Untimed, Terms, Fields, Facts
<1>3. /\ s.respondedAt = None => r.respondedAt = None
      /\ s.resolvedAt = None => r.resolvedAt = None
  BY <1>1 DEF Untimed, Fields, Facts
<1> QED  BY <1>2, <1>3 DEF Punctual

\* A patch that sets the time to resolve by the formula, and no other term but
\* the ones the formula asks for.
Retimed(r, patch) ==
    /\ DOMAIN patch \subseteq Fields \ {"type", "priority", "respondBy"}
    /\ "resolveBy" \in DOMAIN patch /\ "paused" \in DOMAIN patch
    /\ patch.resolveBy =
         ResolveBy(r.type, r.priority,
                   IF "origin" \in DOMAIN patch THEN patch.origin ELSE r.origin, patch.paused)
    /\ "respondedAt" \in DOMAIN patch => patch.respondedAt # None

\* It makes the deadlines right.
LEMMA RetimedPunctual ==
    ASSUME NEW r, DOMAIN r = Fields, Punctual(r), NEW patch, Retimed(r, patch)
    PROVE  Punctual(With(r, patch))
<1> DEFINE s == With(r, patch)
<1>1. \A f \in Fields : s[f] = IF f \in DOMAIN patch THEN patch[f] ELSE r[f]
  BY WithField
<1>2. /\ s.type = r.type /\ s.priority = r.priority /\ s.respondBy = r.respondBy
      /\ s.origin = IF "origin" \in DOMAIN patch THEN patch.origin ELSE r.origin
      /\ s.paused = patch.paused /\ s.resolveBy = patch.resolveBy
  BY <1>1 DEF Retimed, Fields, Facts
<1>3. s.respondedAt = None => r.respondedAt = None
  BY <1>1 DEF Retimed, Fields, Facts
<1> QED  BY <1>2, <1>3 DEF Punctual, Retimed

\* A resumed clock is retimed, or was not paused.
LEMMA ResumeRetimes ==
    ASSUME NEW r
    PROVE  OnResume(r, now) = << >> \/ Retimed(r, OnResume(r, now))
  BY DEF OnResume, Retimed, Fields, Facts, Flags

\* A reopened one is retimed.
LEMMA ReopenRetimes ==
    ASSUME NEW r
    PROVE  Retimed(r, OnReopen(r, now))
  BY DEF OnReopen, Retimed, Fields, Facts, Flags

\* A move of the status and an answer along with it.
LEMMA RetimedWith ==
    ASSUME NEW r, NEW base, Untimed(base), DOMAIN base \subseteq {"status", "respondedAt"},
           NEW moved, Retimed(r, moved)
    PROVE  Retimed(r, With(base, moved))
<1> DEFINE e == With(base, moved)
<1>1. DOMAIN e = DOMAIN base \cup DOMAIN moved
  BY DEF With
<1>2. \A f \in DOMAIN e : e[f] = IF f \in DOMAIN moved THEN moved[f] ELSE base[f]
  BY DEF With
<1>3. DOMAIN e \subseteq Fields \ {"type", "priority", "respondBy"}
  BY <1>1 DEF Retimed, Fields, Facts
<1>4. /\ "resolveBy" \in DOMAIN e /\ "paused" \in DOMAIN e
      /\ e.resolveBy = moved.resolveBy /\ e.paused = moved.paused
      /\ "origin" \in DOMAIN e <=> "origin" \in DOMAIN moved
      /\ "origin" \in DOMAIN e => e.origin = moved.origin
  BY <1>1, <1>2 DEF Retimed
<1>5. "respondedAt" \in DOMAIN e => e.respondedAt # None
  BY <1>1, <1>2 DEF Retimed, Untimed
<1> QED  BY <1>3, <1>4, <1>5 DEF Retimed

\* Patches that leave the terms alone do so together.
LEMMA UntimedWith ==
    ASSUME NEW base, Untimed(base), NEW moved, Untimed(moved)
    PROVE  Untimed(With(base, moved))
<1> DEFINE e == With(base, moved)
<1>1. DOMAIN e = DOMAIN base \cup DOMAIN moved
  BY DEF With
<1>2. \A f \in DOMAIN e : e[f] = IF f \in DOMAIN moved THEN moved[f] ELSE base[f]
  BY DEF With
<1> QED  BY <1>1, <1>2 DEF Untimed

\* An answer stops a clock and nothing else.
LEMMA RespondedUntimed ==
    ASSUME NEW r, now \in Nat
    PROVE  Untimed(OnResponded(r, now)) /\ DOMAIN OnResponded(r, now) \subseteq {"respondedAt"}
<1>1. now # None
  OBVIOUS
<1> QED  BY <1>1 DEF OnResponded, Untimed, Fields, Facts, Terms

\* Nothing patched is nothing timed.
LEMMA NothingUntimed ==
    Untimed(<< >>) /\ DOMAIN << >> = {}
  BY DEF Untimed

\* A move keeps the deadlines right.
LEMMA MovePunctual ==
    ASSUME DOMAIN t = Fields, Punctual(t), now \in Nat,
           NEW p, NEW row, row.action \in Action, NEW says \in BOOLEAN, NEW to
    PROVE  Punctual(With(t, Effects(t, p, row, says, to)))
<1> DEFINE said == IF says /\ p \in Agents THEN OnResponded(t, now) ELSE << >>
           moved ==
            CASE row.action = "assign"  -> [assignee |-> to]
              [] row.action = "start"   -> IF t.assignee = None THEN [assignee |-> p] ELSE << >>
              [] row.action = "wait"    -> OnPause(t, now)
              [] row.action = "resume"  -> OnResume(t, now)
              [] row.action = "resolve" -> With(OnResponded(t, now), [resolvedAt |-> now])
              [] row.action = "close"   -> [closedAt |-> now]
              [] row.action = "reopen"  -> OnReopen(t, now)
              [] row.action = "approve" -> [approved |-> t.plan]
              [] row.action \in {"complete", "rollback"} -> [resolvedAt |-> now]
              [] OTHER -> << >>
           first == [status |-> row.to]
           base == With(first, said)
<1>1. Effects(t, p, row, says, to) = With(base, moved)
  BY DEF Effects
<1>2. now # None
  OBVIOUS
<1>3. Untimed(said) /\ DOMAIN said \subseteq {"respondedAt"}
  BY RespondedUntimed, NothingUntimed
<1>4. Untimed(first) /\ DOMAIN first = {"status"}
  BY DEF Untimed, Fields, Facts, Terms
<1>5. Untimed(base) /\ DOMAIN base \subseteq {"status", "respondedAt"}
  <2>1. DOMAIN base = DOMAIN first \cup DOMAIN said
    BY DEF With
  <2> QED  BY <1>3, <1>4, <2>1, UntimedWith
<1>6. Untimed(moved) \/ Retimed(t, moved)
  <2>1. CASE row.action = "assign"
    <3>1. moved = [assignee |-> to]
      BY <2>1
    <3> QED  BY <3>1 DEF Untimed, Fields, Facts, Terms
  <2>2. CASE row.action = "start"
    <3>1. moved = [assignee |-> p] \/ moved = << >>
      BY <2>2
    <3>2. Untimed([assignee |-> p])
      BY DEF Untimed, Fields, Facts, Terms
    <3> QED  BY <3>1, <3>2, NothingUntimed
  <2>3. CASE row.action = "wait"
    <3>1. moved = [pausedAt |-> now] \/ moved = << >>
      BY <2>3 DEF OnPause
    <3>2. Untimed([pausedAt |-> now])
      BY DEF Untimed, Fields, Facts, Terms
    <3> QED  BY <3>1, <3>2, NothingUntimed
  <2>4. CASE row.action = "resume"
    <3>1. moved = OnResume(t, now)
      BY <2>4
    <3> QED  BY <3>1, ResumeRetimes, NothingUntimed
  <2>5. CASE row.action = "resolve"
    <3>1. moved = With(OnResponded(t, now), [resolvedAt |-> now])
      BY <2>5
    <3>2. Untimed([resolvedAt |-> now])
      BY <1>2 DEF Untimed, Fields, Facts, Terms
    <3> QED  BY <3>1, <3>2, RespondedUntimed, UntimedWith
  <2>6. CASE row.action = "close"
    <3>1. moved = [closedAt |-> now]
      BY <2>6
    <3> QED  BY <3>1 DEF Untimed, Fields, Facts, Terms
  <2>7. CASE row.action = "reopen"
    <3>1. moved = OnReopen(t, now)
      BY <2>7
    <3> QED  BY <3>1, ReopenRetimes
  <2>8. CASE row.action = "approve"
    <3>1. moved = [approved |-> t.plan]
      BY <2>8
    <3> QED  BY <3>1 DEF Untimed, Fields, Facts, Terms
  <2>9. CASE row.action = "complete" \/ row.action = "rollback"
    <3>1. CASE row.action = "complete"
      <4>1. moved = [resolvedAt |-> now]
        BY <3>1
      <4> QED  BY <1>2, <4>1 DEF Untimed, Fields, Facts, Terms
    <3>2. CASE row.action = "rollback"
      <4>1. moved = [resolvedAt |-> now]
        BY <3>2
      <4> QED  BY <1>2, <4>1 DEF Untimed, Fields, Facts, Terms
    <3> QED  BY <2>9, <3>1, <3>2
  <2>10. CASE row.action \in {"cancel", "workaround", "submit", "reject"}
    <3>1. moved = << >>
      BY <2>10
    <3> QED  BY <3>1, NothingUntimed
  <2> QED  BY <2>1, <2>2, <2>3, <2>4, <2>5, <2>6, <2>7, <2>8, <2>9, <2>10 DEF Action
<1> HIDE DEF said, moved, first, base
<1>7. Untimed(With(base, moved)) \/ Retimed(t, With(base, moved))
  BY <1>5, <1>6, UntimedWith, RetimedWith
<1> QED  BY <1>1, <1>7, UntimedPunctual, RetimedPunctual

\* A new priority takes its targets along where a clock still runs.
LEMMA PriorityPunctual ==
    ASSUME DOMAIN t = Fields, NEW n
    PROVE  Punctual(With(t, With([priority |-> n], OnPolicyChange(t, n))))
<1> DEFINE patch == With([priority |-> n], OnPolicyChange(t, n))
           s == With(t, patch)
<1>1. /\ DOMAIN patch \subseteq {"priority", "respondBy", "resolveBy"}
      /\ "priority" \in DOMAIN patch /\ patch.priority = n
      /\ t.respondedAt = None =>
           "respondBy" \in DOMAIN patch /\ patch.respondBy = RespondBy(t.type, n)
      /\ t.resolvedAt = None =>
           "resolveBy" \in DOMAIN patch /\ patch.resolveBy = ResolveBy(t.type, n, t.origin, t.paused)
  BY DEF With, OnPolicyChange
<1>2. \A f \in Fields : s[f] = IF f \in DOMAIN patch THEN patch[f] ELSE t[f]
  BY WithField
<1>3. /\ s.type = t.type /\ s.priority = n /\ s.origin = t.origin /\ s.paused = t.paused
      /\ s.respondedAt = t.respondedAt /\ s.resolvedAt = t.resolvedAt
      /\ "respondBy" \in DOMAIN patch => s.respondBy = patch.respondBy
      /\ "resolveBy" \in DOMAIN patch => s.resolveBy = patch.resolveBy
  BY <1>1, <1>2 DEF Fields, Facts
<1> QED  BY <1>1, <1>3 DEF Punctual

\* A detail of a problem or a change is no term.
LEMMA DetailsUntimed ==
    ASSUME NEW patch \in Details(t)
    PROVE  Untimed(patch)
<1>1. DOMAIN patch = {"facts"} \/ DOMAIN patch = {"plan"}
  BY DEF Details
<1> QED  BY <1>1 DEF Untimed, Fields, Facts, Terms

\* An assignment touches none.
LEMMA AssignUntimed ==
    ASSUME NEW to, NEW patch,
           patch = [assignee |-> to] \/ patch = [assignee |-> to, status |-> "ASSIGNED"]
    PROVE  Untimed(patch)
<1>1. DOMAIN patch \subseteq {"assignee", "status"}
  OBVIOUS
<1> QED  BY <1>1 DEF Untimed, Fields, Facts, Terms

\* A reply stops the response clock, or resumes the other one, or both.
LEMMA ReplyPunctual ==
    ASSUME DOMAIN t = Fields, Punctual(t), now \in Nat, NEW said, NEW resumed,
           said = << >> \/ said = OnResponded(t, now),
           resumed = << >> \/ resumed = With([status |-> "IN_PROGRESS"], OnResume(t, now))
    PROVE  Punctual(With(t, With(said, resumed)))
<1> DEFINE back == [status |-> "IN_PROGRESS"]
<1>1. Untimed(said) /\ DOMAIN said \subseteq {"status", "respondedAt"}
  BY RespondedUntimed, NothingUntimed
<1>2. Untimed(back) /\ DOMAIN back \subseteq {"status", "respondedAt"}
  BY DEF Untimed, Fields, Facts, Terms
<1>3. Untimed(resumed) \/ Retimed(t, resumed)
  BY <1>2, NothingUntimed, ResumeRetimes, UntimedWith, RetimedWith
<1>4. Untimed(With(said, resumed)) \/ Retimed(t, With(said, resumed))
  BY <1>1, <1>3, UntimedWith, RetimedWith
<1> QED  BY <1>4, UntimedPunctual, RetimedPunctual

\* A request that has read the row and is about to leave it punctual.
LEMMA LoadsPunctual ==
    ASSUME IndInv, DeadlineInv, NEW q \in Requests, NEW p, NEW kind, NEW action, NEW patch,
           Loads(q, p, kind, action, patch), Punctual(With(t, patch))
    PROVE  DeadlineInv'
<1> DEFINE h == Fresh(p, kind, action, patch)
<1>1. /\ held' = [held EXCEPT ![q] = h] /\ UNCHANGED <<t, policy, now, scan, sweep, told>>
      /\ h.patch = patch
  BY DEF Loads, Fresh
<1>2. held'[q] = h /\ \A other \in Requests \ {q} : held'[other] = held[other]
  BY <1>1 DEF IndInv
<1>3. policy' = Agreed /\ Punctual(t)'
  BY <1>1 DEF DeadlineInv, Punctual, ResolveBy, RespondBy
<1>4. ASSUME NEW other \in Requests, (held[other] # Nothing /\ Current(held[other]))'
      PROVE  Punctual(With(t, held[other].patch))'
  <2>1. CASE other = q
    <3>1. held'[other].patch = patch /\ t' = t /\ policy' = policy
      BY <1>1, <1>2, <2>1
    <3> QED  BY <3>1 DEF Punctual, ResolveBy, RespondBy
  <2>2. CASE other # q
    <3>1. held'[other] = held[other] /\ Current(held[other])
      BY <1>1, <1>2, <1>4, <2>2 DEF Current
    <3>2. Punctual(With(t, held[other].patch))
      BY <1>4, <3>1 DEF DeadlineInv
    <3> QED  BY <1>1, <3>1, <3>2 DEF Punctual, ResolveBy, RespondBy
  <2> QED  BY <2>1, <2>2
<1> QED  BY <1>3, <1>4 DEF DeadlineInv

\* Every handler leaves the deadlines right.
LEMMA HandlerPunctual ==
    ASSUME IndInv, DeadlineInv, NEW q \in Requests, NEW p \in People, Handler(q, p)
    PROVE  DeadlineInv'
<1>1. DOMAIN t = Fields /\ Punctual(t) /\ now \in Nat /\ t.type \in {"INCIDENT", "PROBLEM", "CHANGE"}
  BY DEF IndInv, RowInOrder, StatusInOrder, DeadlineInv
<1>2. CASE Transition(q, p)
  <2>1. PICK row \in Table(t.type), says \in BOOLEAN, to \in Agents \cup {None} :
          Loads(q, p, "move", row.action, Effects(t, p, row, says, to))
    BY <1>2 DEF Transition
  <2>2. row.action \in Action
    BY <1>1, TableAction
  <2> QED  BY <1>1, <2>1, <2>2, MovePunctual, LoadsPunctual
<1>3. CASE Edit(q, p)
  <2>1. PICK patch : /\ Loads(q, p, "edit", "edit", patch)
                     /\ \/ \E n \in Priorities : patch = With([priority |-> n], OnPolicyChange(t, n))
                        \/ patch \in Details(t)
    BY <1>3 DEF Edit
  <2>2. Punctual(With(t, patch))
    BY <1>1, <2>1, PriorityPunctual, DetailsUntimed, UntimedPunctual
  <2> QED  BY <2>1, <2>2, LoadsPunctual
<1>4. CASE Assign(q, p)
  <2>1. PICK to, patch : /\ Loads(q, p, "assign", "assign", patch)
                         /\ patch = [assignee |-> to] \/ patch = [assignee |-> to, status |-> "ASSIGNED"]
    BY <1>4 DEF Assign
  <2> QED  BY <1>1, <2>1, AssignUntimed, UntimedPunctual, LoadsPunctual
<1>5. CASE Reply(q, p)
  <2>1. PICK said, resumed :
          /\ said = << >> \/ said = OnResponded(t, now)
          /\ resumed = << >> \/ resumed = With([status |-> "IN_PROGRESS"], OnResume(t, now))
          /\ Loads(q, p, "reply", "reply", With(said, resumed))
    BY <1>5 DEF Reply
  <2> QED  BY <1>1, <2>1, ReplyPunctual, LoadsPunctual
<1> QED  BY <1>2, <1>3, <1>4, <1>5 DEF Handler

\* A version on changes no term.
LEMMA WrittenPunctual ==
    ASSUME NEW r, DOMAIN r = Fields, NEW patch, DOMAIN patch \subseteq Fields,
           NEW s, IsWritten(r, patch, s), Punctual(With(r, patch))
    PROVE  Punctual(s)
<1>1. DOMAIN With(r, patch) = Fields
  BY WithDomain
<1>2. SameTimes(With(r, patch), s)
  BY <1>1 DEF IsWritten, SameTimes, Timed, Terms, Fields, Facts
<1> QED  BY <1>2, SamePunctual

\* The write of a request: a handler that read before it is late, and no reply
\* is open beside it.
LEMMA WritePunctual ==
    ASSUME ~ReplyRaces, IndInv, DeadlineInv, NEW q \in Requests, Write(q)
    PROVE  DeadlineInv'
<1>1. held[q] # Nothing /\ held' = [held EXCEPT ![q] = Nothing] /\ policy' = policy
  BY DEF Write
<1>2. held'[q] = Nothing /\ \A other \in Requests \ {q} : held'[other] = held[other]
  BY <1>1 DEF IndInv
<1>3. policy' = Agreed
  BY <1>1 DEF DeadlineInv
<1>4. DOMAIN t = Fields /\ t.version \in Nat
  BY DEF IndInv, RowInOrder
<1>5. CASE ~Current(held[q])
  <2>1. t' = t
    BY <1>5 DEF Write
  <2>2. Punctual(t)'
    BY <1>1, <2>1 DEF DeadlineInv, Punctual, ResolveBy, RespondBy
  <2>3. ASSUME NEW other \in Requests, (held[other] # Nothing /\ Current(held[other]))'
        PROVE  Punctual(With(t, held[other].patch))'
    <3>1. held'[other] = held[other] /\ held[other] # Nothing /\ Current(held[other])
      BY <1>2, <2>1, <2>3 DEF Current
    <3>2. Punctual(With(t, held[other].patch))
      BY <3>1 DEF DeadlineInv
    <3> QED  BY <1>1, <2>1, <3>1, <3>2 DEF Punctual, ResolveBy, RespondBy
  <2> QED  BY <1>3, <2>2, <2>3 DEF DeadlineInv
<1>6. CASE Current(held[q])
  <2> DEFINE h == held[q]
  <2>1. IsWritten(t, h.patch, t')
    BY <1>6 DEF Write, Moves, IsWritten
  <2>2. DOMAIN h.patch \subseteq Fields \ {"type", "version", "responseBreached", "responseWarned"}
    BY <1>1 DEF IndInv, HeldInOrder, RequestInOrder, PatchInOrder
  <2>3. t'.version = t.version + 1
    BY <1>4, <2>1, <2>2, RowIsWritten
  <2>4. Punctual(With(t, h.patch))
    BY <1>1, <1>6 DEF DeadlineInv
  <2>5. Punctual(t')
    BY <1>4, <2>1, <2>2, <2>4, WrittenPunctual
  <2>6. Punctual(t)'
    BY <1>1, <2>5 DEF Punctual, ResolveBy, RespondBy
  <2>7. ASSUME NEW other \in Requests, (held[other] # Nothing /\ Current(held[other]))'
        PROVE  FALSE
    <3>1. other # q /\ held'[other] = held[other] /\ held[other] # Nothing
      BY <1>2, <2>7
    <3>2. held[other].kind # "reply"
      BY <1>1, <3>1 DEF IndInv, RepliesAlone
    <3>3. held[other].version \in Nat /\ held[other].version <= t.version
      BY <3>1 DEF IndInv, HeldInOrder, RequestInOrder
    <3> QED  BY <1>4, <2>3, <2>7, <3>1, <3>2, <3>3 DEF Current
  <2> QED  BY <1>3, <2>6, <2>7 DEF DeadlineInv
<1> QED  BY <1>5, <1>6

\* What only the sweep and the scan write is no term, and leaves whoever is
\* still current as punctual as before.
LEMMA QuietPunctual ==
    ASSUME IndInv, DeadlineInv, SameTimes(t, t'), policy' = policy, held' = held,
           t'.version = t.version \/ t'.version = t.version + 1
    PROVE  DeadlineInv'
<1>1. policy' = Agreed
  BY DEF DeadlineInv
<1>2. Punctual(t)'
  <2>1. Punctual(t')
    BY SamePunctual DEF DeadlineInv
  <2> QED  BY <2>1 DEF Punctual, ResolveBy, RespondBy
<1>3. ASSUME NEW q \in Requests, (held[q] # Nothing /\ Current(held[q]))'
      PROVE  Punctual(With(t, held[q].patch))'
  <2>1. held[q] # Nothing
    BY <1>3
  <2>2. RequestInOrder(t, held[q], now) /\ t.version \in Nat
    BY <2>1 DEF IndInv, HeldInOrder
  <2>3. Current(held[q])
    BY <1>3, <2>2 DEF Current, RequestInOrder
  <2>4. Punctual(With(t, held[q].patch))
    BY <2>1, <2>3 DEF DeadlineInv
  <2>5. DOMAIN held[q].patch \subseteq Fields
    BY <2>2 DEF RequestInOrder, PatchInOrder
  <2>6. Punctual(With(t', held[q].patch))
    BY <2>4, <2>5, SameWith, SamePunctual
  <2> QED  BY <2>6 DEF Punctual, ResolveBy, RespondBy
<1> QED  BY <1>1, <1>2, <1>3 DEF DeadlineInv

\* The sweep closes a ticket whose clocks have stopped.
LEMMA SweepPunctual ==
    ASSUME IndInv, DeadlineInv, SweepCloses
    PROVE  DeadlineInv'
<1>1. sweep # Nothing /\ policy' = policy /\ held' = held
  BY DEF SweepCloses
<1>2. DOMAIN t = Fields /\ t.version \in Nat
  BY DEF IndInv, RowInOrder
<1>3. CASE ~Current(sweep)
  <2>1. t' = t
    BY <1>3 DEF SweepCloses
  <2>2. SameTimes(t, t') /\ t'.version = t.version
    BY <1>2, <2>1 DEF SameTimes
  <2> QED  BY <1>1, <2>2, QuietPunctual
<1>4. CASE Current(sweep)
  <2>1. DOMAIN sweep.patch = {"status", "closedAt"}
    BY <1>1 DEF IndInv, SweepInOrder
  <2>2. IsWritten(t, sweep.patch, t')
    BY <1>4 DEF SweepCloses, IsWritten
  <2>3. DOMAIN sweep.patch \subseteq Fields \ {"type", "version", "responseBreached", "responseWarned"}
    BY <2>1 DEF Fields, Facts, Flags
  <2>4. t'.version = t.version + 1
    BY <1>2, <2>2, <2>3, RowIsWritten
  <2>5. DOMAIN With(t, sweep.patch) = Fields /\ \A f \in Timed : With(t, sweep.patch)[f] = t[f]
    BY <1>2, <2>1, <2>3, WithField, WithDomain DEF Timed, Terms, Fields, Facts
  <2>6. SameTimes(t, t')
    BY <1>2, <2>2, <2>5 DEF IsWritten, SameTimes, Timed, Terms
  <2> QED  BY <1>1, <2>4, <2>6, QuietPunctual
<1> QED  BY <1>3, <1>4

\* A flag is none of the terms.
LEMMA FlagTimes ==
    ASSUME NEW r, DOMAIN r = Fields, NEW f \in Flags, NEW patch, DOMAIN patch = {f}
    PROVE  SameTimes(r, With(r, patch))
<1>1. f \in Fields /\ f \notin Timed /\ Timed \subseteq Fields
  BY DEF Flags, Fields, Timed, Terms, Facts
<1> QED  BY <1>1, WithField, WithDomain DEF SameTimes

\* So a scan's write leaves the deadlines right.
LEMMA FlagPunctual ==
    ASSUME IndInv, DeadlineInv, NEW sc \in Scans, ScanFlags(sc)
    PROVE  DeadlineInv'
<1>1. PICK sig \in scan[sc] :
        /\ t' = t \/ t' = With(t, Flag(sig[1], sig[2]))
        /\ UNCHANGED <<policy, now, held, sweep>>
  BY DEF ScanFlags
<1>2. sig[1] \in {"response", "resolution"} /\ sig[2] \in {"warning", "breach"}
  BY DEF IndInv, ScanInOrder, Signal
<1>3. \E f \in Flags : DOMAIN Flag(sig[1], sig[2]) = {f}
  BY <1>2 DEF Flag, Flags
<1>4. DOMAIN t = Fields
  BY DEF IndInv, RowInOrder
<1>5. /\ With(t, Flag(sig[1], sig[2])).version = t.version
      /\ SameTimes(t, With(t, Flag(sig[1], sig[2])))
  BY <1>3, <1>4, FlagAgrees, FlagTimes
<1>6. SameTimes(t, t') /\ t'.version = t.version
  BY <1>1, <1>4, <1>5 DEF SameTimes
<1> QED  BY <1>1, <1>6, QuietPunctual

\* A new ticket has the deadlines of the formula.
LEMMA DeadlineInit == Init => DeadlineInv
<1> SUFFICES ASSUME Init PROVE DeadlineInv
  OBVIOUS
<1>1. policy = Agreed /\ \A q \in Requests : held[q] = Nothing
  BY DEF Init
<1>2. Punctual(t)
  BY DEF Init, Punctual
<1> QED  BY <1>1, <1>2 DEF DeadlineInv

\* Every action leaves the deadlines right.
LEMMA DeadlineNext ==
    ASSUME ~ReplyRaces, Policies = {Agreed}, IndInv, DeadlineInv, [Next]_vars
    PROVE  DeadlineInv'
<1>1. CASE Tick \/ SweepReads \/ UNCHANGED vars
  <2>1. UNCHANGED <<t, policy, held>>
    BY <1>1 DEF Tick, SweepReads, vars
  <2>2. SameTimes(t, t') /\ t'.version = t.version
    BY <2>1 DEF IndInv, RowInOrder, SameTimes
  <2> QED  BY <2>1, <2>2, QuietPunctual
<1>2. CASE EditPolicy
  BY <1>2 DEF EditPolicy, DeadlineInv
<1>3. ASSUME NEW q \in Requests, Write(q) \/ \E p \in People : Handler(q, p)
      PROVE  DeadlineInv'
  BY <1>3, WritePunctual, HandlerPunctual
<1>4. CASE SweepCloses
  BY <1>4, SweepPunctual
<1>5. ASSUME NEW sc \in Scans, ScanReads(sc) \/ ScanFlags(sc)
      PROVE  DeadlineInv'
  <2>1. CASE ScanReads(sc)
    <3>1. UNCHANGED <<t, policy, held>>
      BY <2>1 DEF ScanReads
    <3>2. SameTimes(t, t') /\ t'.version = t.version
      BY <3>1 DEF IndInv, RowInOrder, SameTimes
    <3> QED  BY <3>1, <3>2, QuietPunctual
  <2> QED  BY <1>5, <2>1, FlagPunctual
<1> QED  BY <1>1, <1>2, <1>3, <1>4, <1>5 DEF Next

\* The deadlines of a running clock are the formula of sla.ts of the row they
\* stand in, whichever edits, moves and replies raced, as long as no reply
\* overlaps another request and the policy is settled.
THEOREM DeadlinesHold ==
    ASSUME ~ReplyRaces, Policies = {Agreed}
    PROVE  Spec => []DeadlinesAreTheFormula
<1>1. IndInv /\ DeadlineInv /\ [Next]_vars => DeadlineInv'
  BY DeadlineNext
<1>2. IndInv /\ DeadlineInv => DeadlinesAreTheFormula
  <2> SUFFICES ASSUME IndInv, DeadlineInv, Open(t) PROVE DeadlinesAreTheFormula
    BY DEF DeadlinesAreTheFormula
  <2>1. t.type = "INCIDENT" /\ t.resolvedAt = None
    BY DEF Open, HasPolicy, IndInv, RowInOrder, Clocked
  <2> QED  BY <2>1 DEF DeadlineInv, Punctual, HasPolicy, DeadlinesAreTheFormula
<1> QED  BY <1>1, <1>2, DeadlineInit, Invariance, PTL DEF Spec

=============================================================================
