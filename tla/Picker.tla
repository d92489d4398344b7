------------------------------- MODULE Picker -------------------------------
(* The workspace picker of one workspace: a row per person that repeats their  *)
(* membership's standing and what the organization is called, written by every *)
(* change in its own transaction, and the nightly reconcile that recomputes    *)
(* the rows (src/apps/api/src/memberships/projections, members.service.ts,     *)
(* acceptance, auth/account).                                                  *)
(*                                                                             *)
(* A change is one action: it holds the organization's lock from its read to   *)
(* its commit.  One that reaches a row which the reconcile has deleted and     *)
(* not yet committed waits for it and then finds the row it waited for gone,   *)
(* and the one created in its place is not among those its statement sees:     *)
(* `late' is the rows a change that waited will miss.                          *)
EXTENDS Naturals

CONSTANTS People, Founder, MaxChanges

VARIABLES
    standing,   \* Membership, of each person: none, its status, or erased
    name,       \* Organization: name, slug and status, as the edit they are from
    rows,       \* UserOrgIndex
    join,       \* the organization as each acceptance under way has read it
    reconcile,  \* what the reconcile has read
    late,
    changes

picker_vars == <<standing, name, rows, join, reconcile, late, changes>>

Names == 0 .. MaxChanges
Unread == MaxChanges + 1
NoRow == [standing |-> "none", name |-> Unread]
Row(s, n) == [standing |-> s, name |-> n]
Shown == {"ACTIVE", "DISABLED", "REMOVED"}
AtRest == [pc |-> "idle"]

Listed == [standing : Shown, name : Names]
Rows == {NoRow} \cup Listed
Standings == Shown \cup {"none", "erased"}

TypeOK ==
    /\ standing \in [People -> Standings] /\ name \in Names
    /\ rows \in [People -> Rows] /\ join \in [People -> Names \cup {Unread}]
    /\ reconcile \in {AtRest} \cup [pc : {"rows"}, rows : [People -> Rows]]
         \cup [pc : {"name"}, rows : [People -> Rows], name : Names]
         \cup [pc : {"plan"}, rows : [People -> Rows], want : [People -> Rows]]
    /\ late \subseteq People /\ changes \in 0 .. MaxChanges

(* A row for everybody who is or was a member, none for an invited or an       *)
(* erased one.                                                                 *)
ExpectedRows(s, n) == [p \in People |-> IF s[p] \in Shown THEN Row(s[p], n) ELSE NoRow]

Init ==
    /\ standing = [p \in People |-> IF p = Founder THEN "ACTIVE" ELSE "none"] /\ name = 0
    /\ rows = ExpectedRows(standing, name)
    /\ join = [p \in People |-> Unread]
    /\ reconcile = AtRest /\ late = {} /\ changes = 0

Changes == changes < MaxChanges /\ changes' = changes + 1

(* An update of the rows of some people: those that are there, and not late.   *)
Mirror(who, edit) ==
    /\ rows' = [p \in People |-> IF p \in who \ late /\ rows[p] # NoRow THEN edit[rows[p]] ELSE rows[p]]
    /\ late' = {}

---------------------------------------------------------------------------
Disable(p) == standing[p] = "ACTIVE" /\ standing' = [standing EXCEPT ![p] = "DISABLED"]
Enable(p)  == standing[p] = "DISABLED" /\ standing' = [standing EXCEPT ![p] = "ACTIVE"]
Remove(p)  == standing[p] \in {"ACTIVE", "DISABLED"} /\ standing' = [standing EXCEPT ![p] = "REMOVED"]

(* A change of a member mirrors what it changed.                               *)
ChangesMember(p) ==
    /\ Changes /\ (Disable(p) \/ Enable(p) \/ Remove(p))
    /\ Mirror({p}, [row \in Listed |-> [row EXCEPT !.standing = standing'[p]]])
    /\ UNCHANGED <<name, join, reconcile>>

(* The organization is renamed, or its status moves.                           *)
ChangesOrganization ==
    /\ Changes /\ name' = name + 1
    /\ Mirror(People, [row \in Listed |-> [row EXCEPT !.name = name']])
    /\ UNCHANGED <<standing, join, reconcile>>

(* An acceptance resolves its invitation and the organization, and joins in a  *)
(* later transaction, which writes the row whatever it holds.                  *)
Resolves(p) ==
    /\ standing[p] \in {"none", "REMOVED"} /\ join' = [join EXCEPT ![p] = name]
    /\ UNCHANGED <<standing, name, rows, reconcile, late, changes>>

Joins(p) ==
    /\ Changes /\ join[p] # Unread /\ standing[p] \in {"none", "REMOVED"}
    /\ standing' = [standing EXCEPT ![p] = "ACTIVE"]
    /\ rows' = [rows EXCEPT ![p] = Row("ACTIVE", join[p])]
    /\ join' = [join EXCEPT ![p] = Unread]
    /\ late' = {}
    /\ UNCHANGED <<name, reconcile>>

(* A person erases their account: out of the workspace first, the rows of the  *)
(* account with the account itself at the end.                                 *)
Erases(p) ==
    /\ Changes /\ standing[p] \in Shown
    /\ standing' = [standing EXCEPT ![p] = "erased"]
    /\ Mirror({p}, [row \in Listed |-> [row EXCEPT !.standing = "REMOVED"]])
    /\ UNCHANGED <<name, join, reconcile>>

Tombstones(p) ==
    /\ standing[p] = "erased" /\ rows[p] # NoRow /\ p \notin late
    /\ rows' = [rows EXCEPT ![p] = NoRow]
    /\ UNCHANGED <<standing, name, join, reconcile, late, changes>>

---------------------------------------------------------------------------
(* The reconcile reads the rows, then the organization, then the members, and  *)
(* plans.                                                                      *)
ReadsRows ==
    /\ reconcile = AtRest
    /\ reconcile' = [pc |-> "rows", rows |-> rows]
    /\ late' = {}
    /\ UNCHANGED <<standing, name, rows, join, changes>>

ReadsName ==
    /\ reconcile.pc = "rows"
    /\ reconcile' = [pc |-> "name", rows |-> reconcile.rows, name |-> name]
    /\ UNCHANGED <<standing, name, rows, join, late, changes>>

ReadsMembers ==
    /\ reconcile.pc = "name"
    /\ reconcile' = [pc |-> "plan", rows |-> reconcile.rows, want |-> ExpectedRows(standing, reconcile.name)]
    /\ UNCHANGED <<standing, name, rows, join, late, changes>>

(* What is missing is created unless it has come meanwhile, what differs is    *)
(* deleted and created, what nobody stands behind is deleted; a change may     *)
(* have waited for the deleted ones.                                           *)
ToCreate(p) == reconcile.rows[p] = NoRow /\ reconcile.want[p] # NoRow
\* A row counts as the same if its standing is.
StandsOtherwise(p) ==
    NoRow \notin {reconcile.rows[p], reconcile.want[p]}
        /\ reconcile.rows[p].standing # reconcile.want[p].standing

ToReplace(p) == NoRow \notin {reconcile.rows[p], reconcile.want[p]} /\ reconcile.rows[p] # reconcile.want[p]
ToRemove(p) == reconcile.rows[p] # NoRow /\ reconcile.want[p] = NoRow

Planned(p) ==
    IF ToReplace(p) \/ ToRemove(p) \/ (ToCreate(p) /\ rows[p] = NoRow) THEN reconcile.want[p] ELSE rows[p]

Writes ==
    /\ reconcile.pc = "plan"
    /\ rows' = [p \in People |-> Planned(p)]
    /\ late' \in {{}, {p \in People : rows[p] # NoRow /\ (ToReplace(p) \/ ToRemove(p))}}
    /\ reconcile' = AtRest
    /\ UNCHANGED <<standing, name, join, changes>>

(* Until it commits nothing is seen of it, so it may as well fail at its end.  *)
RollsBack ==
    /\ reconcile.pc = "plan" /\ reconcile' = AtRest
    /\ UNCHANGED <<standing, name, rows, join, late, changes>>

Reconciles == ReadsRows \/ ReadsName \/ ReadsMembers \/ Writes

Next ==
    \/ \E p \in People : ChangesMember(p) \/ Resolves(p) \/ Joins(p) \/ Erases(p) \/ Tombstones(p)
    \/ ChangesOrganization \/ Reconciles \/ RollsBack

(* The reconcile runs every night, and does not fail every night.              *)
Fairness == WF_picker_vars(Reconciles) /\ SF_picker_vars(Writes)

Spec == Init /\ [][Next]_picker_vars /\ Fairness

---------------------------------------------------------------------------
(* When the changes have ended the picker repeats the source: whatever a       *)
(* change, an acceptance or an earlier reconcile has left in it, a reconcile   *)
(* that meets no change puts right, and none puts wrong again.                 *)
PickerSettles == <>[](rows = ExpectedRows(standing, name))
=============================================================================
