----------------------------- MODULE RacesProofs -----------------------------
(* What holds of the components of MCRaces for every value of their constants: *)
(* each is proved of the component's own steps, and then of the composition,   *)
(* in which a component's variables change by its own steps alone.             *)
EXTENDS MCRaces, FiniteSetTheorems, TLAPS

SP == INSTANCE SessionsProofs
DP == INSTANCE LinksProofs WITH Tickets <- Callers, Requests <- Refreshes

---------------------------------------------------------------------------
(* Members: an owner remains and the seat counter counts who holds a seat, for  *)
(* every number of people, requests and invitations, one person's acceptances   *)
(* at once among them: what those write over is the only exception.             *)

\* The two sets the invariant counts are finite.
LEMMA CountedFinite ==
    /\ IsFiniteSet(Seated) /\ IsFiniteSet(ActiveOwners)
    /\ Cardinality(Seated) \in Nat /\ Cardinality(ActiveOwners) \in Nat
<1>1. Seated \subseteq People /\ ActiveOwners \subseteq People
  BY DEF Seated, ActiveOwners
<1> QED  BY <1>1, MembersAssumption, FS_Subset, FS_CardinalityType

\* The founder alone.
LEMMA IndInvInit == Init => IndInv
<1> SUFFICES ASSUME Init PROVE IndInv
  OBVIOUS
<1> DEFINE owner == [role |-> "OWNER", status |-> "ACTIVE"]
<1>1. owner \in Member /\ owner # None /\ Founder \in People
  BY MembersAssumption DEF Member, Roles
<1>2. Seated = {Founder} /\ ActiveOwners = {Founder}
  BY <1>1 DEF Init, Seated, ActiveOwners, HoldsSeat, ActiveOwner
<1>3. Cardinality(Seated) = 1
  BY <1>2, FS_Singleton
<1>4. TypeOK
  BY <1>1, MembersAssumption DEF Init, TypeOK, Idle
<1>5. ReadsStillHold /\ LeavesAnOwner
  BY DEF Init, ReadsStillHold, LeavesAnOwner, Changing, Joining, Idle
<1>6. CounterInOrder
  BY MembersAssumption DEF Init, CounterInOrder
<1> QED
  BY <1>2, <1>3, <1>4, <1>5, <1>6 DEF Init, IndInv, AnOwnerRemains, SeatsAreExact

\* What a step that leaves the members and the counter alone, and forgives nothing
\* that was written over, has to keep.
LEMMA Quiet ==
    ASSUME IndInv, TypeOK', ReadsStillHold', LeavesAnOwner', CounterInOrder',
           UNCHANGED <<member, seats>>, overruled \cap {"seats", "owner"} \subseteq overruled'
    PROVE  IndInv'
<1>1. Seated' = Seated /\ ActiveOwners' = ActiveOwners
  BY DEF Seated, ActiveOwners, HoldsSeat, ActiveOwner
<1> QED
  BY <1>1 DEF IndInv, AnOwnerRemains, SeatsAreExact

\* A change locks the organization, and leaves an owner if it takes one.
LEMMA StepChangeBegins ==
    ASSUME IndInv, NEW q \in Requests, NEW p \in People, ChangeBegins(q, p)
    PROVE  IndInv'
<1> USE MembersAssumption DEF IndInv
<1>1. PICK after \in Outcomes(member[p]) :
        Begins(q, [kind |-> "change", who |-> p, before |-> member[p],
                   after |-> after, by |-> None])
  BY DEF ChangeBegins
<1> DEFINE d == [kind |-> "change", who |-> p, before |-> member[p],
                 after |-> after, by |-> None]
<1>2. doing[q] = Idle /\ doing' = [doing EXCEPT ![q] = d] /\ org = None /\ org' = q
      /\ UNCHANGED <<member, seats, invite, counter, counted, overruled>>
  BY <1>1 DEF Begins, ChangeBegins, OrgIsFree
<1>3. member[p] \in Member /\ member[p].status # "REMOVED"
  BY DEF TypeOK, ChangeBegins
<1>4. after \in Member
  BY <1>3 DEF Outcomes, Member
<1>5. TypeOK'
  BY <1>2, <1>3, <1>4 DEF TypeOK, Change
<1>6. \A r \in Requests : doing'[r] = IF r = q THEN d ELSE doing[r]
  BY <1>2 DEF TypeOK
<1>7. ReadsStillHold'
  BY <1>2, <1>3, <1>6 DEF ReadsStillHold, Changing, Joining, TypeOK, Idle
<1>8. LeavesAnOwner'
  <2>1. ASSUME ActiveOwner(member[p])
        PROVE  \E o \in People \ {p} : ActiveOwner(member[o])
    <3>1. Cardinality(ActiveOwners) > 1
      BY <2>1 DEF ChangeBegins, KeepsAnOwner
    <3>2. IsFiniteSet({p}) /\ Cardinality({p}) = 1
      BY FS_Singleton
    <3>3. ASSUME ActiveOwners \in SUBSET {p}
          PROVE  Cardinality(ActiveOwners) <= 1
      <4>1. Cardinality(ActiveOwners) <= Cardinality({p})
        BY <3>2, <3>3, FS_Subset
      <4> QED  BY <3>2, <4>1
    <3> QED  BY <3>1, <3>3, CountedFinite DEF ActiveOwners
  <2>2. \A r \in Requests \ {q} : ~Changing(r)
    BY <1>2 DEF ReadsStillHold
  <2>3. \A o \in People : ActiveOwner(member[o])' <=> ActiveOwner(member[o])
    BY <1>2 DEF ActiveOwner
  <2>4. ActiveOwner(doing[q].before)' <=> ActiveOwner(member[p])
    BY <1>6 DEF ActiveOwner
  <2> QED  BY <1>2, <1>6, <2>1, <2>2, <2>3, <2>4 DEF LeavesAnOwner, Changing
<1>9. CounterInOrder'
  BY <1>2, <1>6 DEF CounterInOrder, MovesSeats, HasRoom, Seated, Idle
<1> QED  BY <1>2, <1>5, <1>7, <1>8, <1>9, Quiet

\* An invitation is prepared.
LEMMA StepInviteBegins ==
    ASSUME IndInv, NEW q \in Requests, NEW i \in Invites, NEW p \in People,
           InviteBegins(q, i, p)
    PROVE  IndInv'
<1> USE MembersAssumption DEF IndInv
<1> DEFINE d(role) == [kind |-> "invite", who |-> p, role |-> role, by |-> i,
                       old |-> {j \in Invites : Pending(j) /\ invite[j].who = p}]
<1>1. PICK role \in Roles : Begins(q, d(role))
  BY DEF InviteBegins
<1>2. doing[q] = Idle /\ doing' = [doing EXCEPT ![q] = d(role)]
      /\ UNCHANGED <<member, seats, invite, org, counter, counted, overruled>>
  BY <1>1 DEF Begins, InviteBegins
<1>3. d(role) \in Invitation
  BY DEF Invitation
<1>4. TypeOK'
  BY <1>2, <1>3 DEF TypeOK
<1>5. \A r \in Requests : doing'[r] = IF r = q THEN d(role) ELSE doing[r]
  BY <1>2 DEF TypeOK
<1>6. ReadsStillHold'
  BY <1>2, <1>5 DEF ReadsStillHold, Changing, Joining
<1>7. LeavesAnOwner'
  BY <1>2, <1>5 DEF LeavesAnOwner, Changing, ActiveOwner
<1>8. CounterInOrder'
  BY <1>2, <1>5 DEF CounterInOrder, MovesSeats, HasRoom, Seated, Idle
<1> QED  BY <1>2, <1>4, <1>6, <1>7, <1>8, Quiet

\* A transaction ends without touching a member.
LEMMA EndsQuietly ==
    ASSUME IndInv, NEW q \in Requests, Ends(q),
           UNCHANGED <<member, seats, counted, overruled>>,
           invite' \in [Invites -> [who : People, role : Roles] \cup {None}]
    PROVE  IndInv'
<1> USE MembersAssumption DEF IndInv
<1>1. \A r \in Requests : doing'[r] = IF r = q THEN Idle ELSE doing[r]
  BY DEF TypeOK, Ends
<1>2. TypeOK'
  BY DEF TypeOK, Ends
<1>3. ReadsStillHold'
  BY <1>1 DEF ReadsStillHold, Changing, Joining, Ends, Idle
<1>4. LeavesAnOwner'
  BY <1>1 DEF LeavesAnOwner, Changing, ActiveOwner, Idle
<1>5. CounterInOrder'
  BY <1>1 DEF CounterInOrder, MovesSeats, HasRoom, Seated, Ends
<1> QED  BY <1>2, <1>3, <1>4, <1>5, Quiet

\* A new invitation.
LEMMA StepInviteCommits ==
    ASSUME IndInv, NEW q \in Requests, InviteCommits(q)
    PROVE  IndInv'
<1>1. doing[q] \in Invitation
  BY MembersAssumption DEF IndInv, TypeOK, InviteCommits, Idle, Change
<1>2. invite' \in [Invites -> [who : People, role : Roles] \cup {None}]
  BY <1>1 DEF IndInv, TypeOK, InviteCommits, Invitation
<1> QED  BY <1>2, EndsQuietly DEF InviteCommits

\* A request that fails.
LEMMA StepRollsBack ==
    ASSUME IndInv, NEW q \in Requests, RollsBack(q)
    PROVE  IndInv'
<1>1. invite' \in [Invites -> [who : People, role : Roles] \cup {None}]
  BY DEF IndInv, TypeOK, RollsBack
<1> QED  BY <1>1, EndsQuietly DEF RollsBack

\* An invitation is revoked: no member and no seat changes.
LEMMA StepRevoke ==
    ASSUME IndInv, NEW i \in Invites, Revoke(i)
    PROVE  IndInv'
<1> USE DEF IndInv
<1>1. UNCHANGED <<member, seats, doing, org, counter, counted, overruled>>
  BY DEF Revoke
<1>2. TypeOK'
  BY DEF TypeOK, Revoke
<1>3. ReadsStillHold' /\ LeavesAnOwner' /\ CounterInOrder'
  BY <1>1 DEF ReadsStillHold, LeavesAnOwner, CounterInOrder, Changing, Joining,
    ActiveOwner, MovesSeats, HasRoom, Seated
<1> QED  BY <1>1, <1>2, <1>3, Quiet

\* Somebody outside accepts.
LEMMA StepJoinBegins ==
    ASSUME IndInv, NEW q \in Requests, NEW i \in Invites, JoinBegins(q, i)
    PROVE  IndInv'
<1> USE MembersAssumption DEF IndInv
<1> DEFINE p == invite[i].who
           d == [kind |-> "join", who |-> p, before |-> member[p], by |-> i,
                 after |-> [role |-> invite[i].role, status |-> "ACTIVE"]]
<1>1. doing[q] = Idle /\ doing' = [doing EXCEPT ![q] = d]
      /\ UNCHANGED <<member, seats, invite, org, counter, counted, overruled>>
  BY DEF Begins, JoinBegins
<1>2. p \in People /\ invite[i].role \in Roles
  BY DEF TypeOK, JoinBegins, Pending
<1>3. d \in Change
  BY <1>2 DEF TypeOK, Change, Member
<1>4. TypeOK'
  BY <1>1, <1>3 DEF TypeOK
<1>5. \A r \in Requests : doing'[r] = IF r = q THEN d ELSE doing[r]
  BY <1>1 DEF TypeOK
<1>6. ReadsStillHold'
  <2>1. member[p] # None => member[p].status = "REMOVED"
    BY DEF JoinBegins, Outside
  <2> QED  BY <1>1, <1>5, <2>1 DEF ReadsStillHold, Changing, Joining, Idle
<1>7. LeavesAnOwner'
  BY <1>1, <1>5 DEF LeavesAnOwner, Changing, ActiveOwner
<1>8. CounterInOrder'
  BY <1>1, <1>5 DEF CounterInOrder, MovesSeats, HasRoom, Seated, Idle
<1> QED  BY <1>1, <1>4, <1>6, <1>7, <1>8, Quiet

\* The counter is taken by who moves it, with room for one more.
LEMMA StepLocksCounter ==
    ASSUME IndInv, NEW q \in Requests, LocksCounter(q)
    PROVE  IndInv'
<1> USE MembersAssumption DEF IndInv
<1>1. UNCHANGED <<member, seats, invite, doing, org, counted, overruled>> /\ counter' = q
  BY DEF LocksCounter
<1>2. TypeOK'
  BY <1>1 DEF TypeOK
<1>3. ReadsStillHold' /\ LeavesAnOwner'
  BY <1>1 DEF ReadsStillHold, LeavesAnOwner, Changing, Joining, ActiveOwner
<1>4. CounterInOrder'
  BY <1>1 DEF CounterInOrder, LocksCounter, MovesSeats, HasRoom
<1> QED  BY <1>1, <1>2, <1>3, <1>4, Quiet

\* What the recount counts is no more than the counter says already.
LEMMA StepRecountReads ==
    ASSUME IndInv, RecountReads
    PROVE  IndInv'
<1> USE MembersAssumption DEF IndInv
<1>1. UNCHANGED <<member, seats, invite, doing, org>> /\ counter' = Recounting
      /\ counted' = Cardinality(Seated) /\ overruled' = overruled \ {"count"}
  BY DEF RecountReads
<1>2. TypeOK'
  BY <1>1, CountedFinite DEF TypeOK, SeatsAreExact
<1>3. ReadsStillHold' /\ LeavesAnOwner'
  BY <1>1 DEF ReadsStillHold, LeavesAnOwner, Changing, Joining, ActiveOwner
<1>4. CounterInOrder'
  <2>1. Cardinality(Seated)' = Cardinality(Seated) /\ Cardinality(Seated) \in Nat
    BY <1>1, CountedFinite DEF Seated, HoldsSeat
  <2>2. "count" \notin overruled' /\ \A r \in Requests : counter' # r
    BY <1>1
  <2> QED  BY <1>1, <2>1, <2>2 DEF CounterInOrder
<1> QED  BY <1>1, <1>2, <1>3, <1>4, Quiet

\* The reconciliation writes what it counted: the counter is exact again, but for
\* what was written over while it ran.
LEMMA StepRecountSets ==
    ASSUME IndInv, RecountSets
    PROVE  IndInv'
<1> USE MembersAssumption DEF IndInv
<1>1. UNCHANGED <<member, invite, doing, org>> /\ counter' = None /\ counted' = 0
      /\ seats' = counted
      /\ overruled' = IF "count" \in overruled THEN overruled ELSE overruled \ {"seats"}
  BY DEF RecountSets
<1>2. /\ Cardinality(Seated) <= counted
      /\ "count" \notin overruled => counted = Cardinality(Seated)
      /\ "count" \in overruled => "seats" \in overruled
  BY DEF RecountSets, CounterInOrder
<1>3. Seated' = Seated /\ ActiveOwners' = ActiveOwners
  BY <1>1 DEF Seated, ActiveOwners, HoldsSeat, ActiveOwner
<1>4. TypeOK'
  BY <1>1 DEF TypeOK
<1>5. ReadsStillHold' /\ LeavesAnOwner'
  BY <1>1 DEF ReadsStillHold, LeavesAnOwner, Changing, Joining, ActiveOwner
<1>6. CounterInOrder'
  BY <1>1, <1>2 DEF CounterInOrder
<1>7. SeatsAreExact'
  BY <1>1, <1>2, <1>3 DEF SeatsAreExact
<1>8. AnOwnerRemains'
  BY <1>1, <1>3 DEF AnOwnerRemains
<1> QED  BY <1>4, <1>5, <1>6, <1>7, <1>8

\* One member's row is written: the sets that are counted gain or lose them.
LEMMA OneRow ==
    ASSUME TypeOK, NEW p \in People, NEW r \in Member \cup {None},
           member' = [member EXCEPT ![p] = r]
    PROVE  /\ Cardinality(Seated)' = Cardinality(Seated) + Seat(r) - Seat(member[p])
           /\ \A o \in People \ {p} : ActiveOwner(member[o]) => o \in ActiveOwners'
           /\ ActiveOwner(r) => p \in ActiveOwners'
<1>1. \A o \in People : member'[o] = IF o = p THEN r ELSE member[o]
  BY DEF TypeOK
<1>2. Seated' = IF HoldsSeat(r) THEN Seated \cup {p} ELSE Seated \ {p}
  BY <1>1 DEF Seated, HoldsSeat
<1>3. p \in Seated <=> HoldsSeat(member[p])
  BY DEF Seated
<1>4. Cardinality(Seated)' = Cardinality(Seated) + Seat(r) - Seat(member[p])
  <2>1. Cardinality(Seated)' = Cardinality(Seated')
    OBVIOUS
  <2>2. CASE HoldsSeat(r)
    <3>1. Cardinality(Seated \cup {p}) =
            IF p \in Seated THEN Cardinality(Seated) ELSE Cardinality(Seated) + 1
      BY CountedFinite, FS_AddElement
    <3> QED  BY <1>2, <1>3, <2>1, <2>2, <3>1, CountedFinite DEF Seat
  <2>3. CASE ~HoldsSeat(r)
    <3>1. Cardinality(Seated \ {p}) =
            IF p \in Seated THEN Cardinality(Seated) - 1 ELSE Cardinality(Seated)
      BY CountedFinite, FS_RemoveElement
    <3> QED  BY <1>2, <1>3, <2>1, <2>3, <3>1, CountedFinite DEF Seat
  <2> QED  BY <2>2, <2>3
<1> QED  BY <1>1, <1>4 DEF ActiveOwners, ActiveOwner

\* A change or an acceptance commits.  What a change read is still so; what an
\* acceptance read held no seat and was no owner, and where the row has changed
\* since, the counter gains a seat too many at most, and an owner that is written
\* over is not the last, or is written down.
LEMMA StepCommits ==
    ASSUME IndInv, NEW q \in Requests, Commits(q)
    PROVE  IndInv'
<1> USE MembersAssumption DEF IndInv
<1> DEFINE d == doing[q]
           now == member[d.who]
<1>1. d \in Change /\ (Changing(q) \/ Joining(q))
  BY DEF TypeOK, Commits, Invitation, Idle, Changing, Joining
<1>2. d.who \in People /\ d.after \in Member /\ d.before \in Member \cup {None}
  BY <1>1 DEF Change
<1>3. /\ member' = [member EXCEPT ![d.who] = d.after] /\ counted' = counted
      /\ overruled' = (overruled \cup WritesOver(d))
                        \ (IF ActiveOwner(d.after) THEN {"owner"} ELSE {})
  BY DEF Commits
<1>4. \A r \in Requests : doing'[r] = IF r = q THEN Idle ELSE doing[r]
  BY DEF TypeOK, Commits, Ends
<1>5. /\ Changing(q) => d.before = now
      /\ Joining(q) => ~HoldsSeat(d.before) /\ ~ActiveOwner(d.before)
  BY DEF ReadsStillHold, HoldsSeat, ActiveOwner
<1>6. /\ Seat(d.after) \in {0, 1} /\ Seat(d.before) \in {0, 1} /\ Seat(now) \in {0, 1}
      /\ Seat(d.before) <= Seat(now)
      /\ WritesOver(d) \cap {"seats", "count"} = {} => Seat(d.before) = Seat(now)
      /\ "count" \in WritesOver(d) => "seats" \in WritesOver(d)
  BY <1>1, <1>5 DEF Seat, WritesOver
<1>7. Cardinality(Seated)' = Cardinality(Seated) + Seat(d.after) - Seat(now)
  BY <1>2, <1>3, OneRow
<1>8. Cardinality(Seated)' \in Nat /\ Cardinality(Seated) \in Nat
  <2>1. IsFiniteSet(Seated')
    <3>1. Seated' \subseteq People
      BY DEF Seated
    <3> QED  BY <3>1, FS_Subset
  <2>2. Cardinality(Seated') \in Nat
    BY <2>1, FS_CardinalityType
  <2> QED  BY <2>2, CountedFinite
<1>9. seats \in Nat /\ Limit \in Nat /\ seats <= Limit /\ Cardinality(Seated) <= seats
  BY DEF TypeOK, SeatsAreExact
<1>10. seats' = seats + Seat(d.after) - Seat(d.before)
  <2>1. CASE MovesSeats(d)
    <3>1. seats' = LET n == seats + Seat(d.after) - Seat(d.before) IN
                   IF n < 0 THEN 0 ELSE n
      BY <2>1 DEF Commits
    <3> HIDE DEF d, now
    <3> QED  BY <1>6, <1>7, <1>8, <1>9, <3>1
  <2>2. CASE ~MovesSeats(d)
    <3>1. seats' = seats
      BY <2>2 DEF Commits
    <3>2. Seat(d.after) = Seat(d.before)
      BY <1>1, <2>2 DEF MovesSeats, Changing, Joining
    <3> HIDE DEF d, now
    <3> QED  BY <1>6, <1>9, <3>1, <3>2
  <2> QED  BY <2>1, <2>2
<1>11. /\ "seats" \notin overruled' => "seats" \notin overruled /\ "seats" \notin WritesOver(d)
       /\ "count" \notin overruled' => "count" \notin overruled /\ "count" \notin WritesOver(d)
       /\ "count" \in overruled' => "seats" \in overruled'
  BY <1>3, <1>6 DEF CounterInOrder
<1>12. "seats" \in WritesOver(d) <=> "count" \in WritesOver(d)
  BY DEF WritesOver
<1>13. SeatsAreExact'
  <2>1. Cardinality(Seated)' <= seats'
    <3> HIDE DEF d, now
    <3> QED  BY <1>6, <1>7, <1>8, <1>9, <1>10
  <2>2. ASSUME "seats" \notin overruled' PROVE seats' = Cardinality(Seated)'
    <3>1. Seat(d.before) = Seat(now)
      BY <1>6, <1>11, <1>12, <2>2
    <3>2. seats = Cardinality(Seated)
      BY <1>11, <2>2 DEF SeatsAreExact
    <3> HIDE DEF d, now
    <3> QED  BY <1>6, <1>7, <1>8, <1>10, <3>1, <3>2
  <2> QED  BY <2>1, <2>2 DEF SeatsAreExact
<1>14. TypeOK'
  <2>1. seats' \in 0 .. Limit
    <3>1. Seat(d.after) > Seat(d.before) => seats < Limit
      BY <1>1, <1>6 DEF Commits, MovesSeats, CounterInOrder, HasRoom, Changing, Joining
    <3> HIDE DEF d, now
    <3> QED  BY <1>6, <1>7, <1>8, <1>9, <1>10, <3>1
  <2>2. member' \in [People -> Member \cup {None}]
    BY <1>2, <1>3 DEF TypeOK
  <2>3. invite' \in [Invites -> [who : People, role : Roles] \cup {None}]
    BY DEF TypeOK, Commits
  <2>4. overruled' \subseteq {"seats", "count", "owner"}
    BY <1>3 DEF TypeOK, WritesOver
  <2> QED  BY <1>3, <2>1, <2>2, <2>3, <2>4 DEF TypeOK, Commits, Ends
<1>15. \A r \in Requests \ {q} : ~Changing(r)
  BY <1>1 DEF ReadsStillHold, Commits, OrgIsFree, Changing, Joining
<1>16. ReadsStillHold'
  BY <1>4, <1>15 DEF ReadsStillHold, Changing, Joining, Idle
<1>17. AnOwnerRemains'
  <2>1. CASE ActiveOwner(d.after)
    BY <1>2, <1>3, <2>1, OneRow DEF AnOwnerRemains
  <2>2. ASSUME NEW o \in People \ {d.who}, ActiveOwner(member[o]) PROVE AnOwnerRemains'
    BY <1>2, <1>3, <2>2, OneRow DEF AnOwnerRemains
  <2>3. CASE ~ActiveOwner(d.after) /\ ActiveOwners = {d.who}
    <3>1. ActiveOwner(now)
      BY <2>3 DEF ActiveOwners
    <3>2. CASE Changing(q)
      BY <1>5, <2>2, <3>1, <3>2 DEF LeavesAnOwner
    <3>3. CASE Joining(q)
      <4>1. "owner" \in WritesOver(d)
        BY <1>5, <2>3, <3>1, <3>3 DEF WritesOver
      <4> QED  BY <1>3, <2>3, <4>1 DEF AnOwnerRemains
    <3> QED  BY <1>1, <3>2, <3>3
  <2>4. CASE ~ActiveOwner(d.after) /\ ActiveOwners # {d.who} /\ "owner" \notin overruled
    <3>1. PICK o \in ActiveOwners : o # d.who
      BY <2>4 DEF AnOwnerRemains
    <3> QED  BY <2>2, <3>1 DEF ActiveOwners
  <2>5. CASE ~ActiveOwner(d.after) /\ "owner" \in overruled
    BY <1>3, <2>5 DEF AnOwnerRemains
  <2> QED  BY <2>1, <2>3, <2>4, <2>5
<1>18. LeavesAnOwner'
  BY <1>4, <1>15 DEF LeavesAnOwner, Changing, Idle
<1>19. CounterInOrder'
  <2>1. \A r \in Requests \ {q} : counter' = r => ~MovesSeats(d) /\ counter = r
    BY DEF Commits, Ends
  <2>2. ~MovesSeats(d) => seats' = seats /\ Seat(d.after) = Seat(d.before)
    BY <1>1 DEF Commits, MovesSeats, Changing, Joining
  <2>3. \A r \in Requests \ {q} : counter' = r => MovesSeats(doing[r])' /\ HasRoom(doing[r])'
    BY <1>4, <2>1, <2>2 DEF CounterInOrder, MovesSeats, HasRoom, Seat, HoldsSeat
  <2>4. counter' # q
    BY DEF Commits, Ends
  <2>5. counter' = Recounting => counter = Recounting /\ ~MovesSeats(d)
    BY DEF Commits, Ends
  <2>6. ASSUME counter' = Recounting
        PROVE  /\ Cardinality(Seated)' <= counted
               /\ "count" \notin overruled' => counted = Cardinality(Seated)'
    <3>1. /\ Cardinality(Seated) <= counted /\ counted \in Nat
          /\ "count" \notin overruled => counted = Cardinality(Seated)
      BY <2>5, <2>6 DEF CounterInOrder, TypeOK
    <3>2. Seat(d.after) = Seat(d.before)
      BY <2>2, <2>5, <2>6
    <3>3. "count" \notin overruled' => "count" \notin overruled /\ Seat(d.before) = Seat(now)
      BY <1>6, <1>11, <1>12
    <3> HIDE DEF d, now
    <3> QED  BY <1>6, <1>7, <1>8, <3>1, <3>2, <3>3
  <2> QED  BY <1>3, <1>11, <2>3, <2>4, <2>6 DEF CounterInOrder
<1> QED  BY <1>13, <1>14, <1>16, <1>17, <1>18, <1>19

\* Every step keeps the invariant.
LEMMA IndInvNext ==
    ASSUME IndInv, [Next]_vars
    PROVE  IndInv'
<1>1. CASE UNCHANGED vars
  BY <1>1 DEF vars, IndInv, TypeOK, AnOwnerRemains, SeatsAreExact, ReadsStillHold,
    LeavesAnOwner, CounterInOrder, Changing, Joining, ActiveOwner, ActiveOwners,
    MovesSeats, HasRoom, Seated
<1>2. ASSUME NEW q \in Requests, NEW p \in People, ChangeBegins(q, p)
      PROVE  IndInv'
  BY <1>2, StepChangeBegins
<1>3. ASSUME NEW q \in Requests, NEW i \in Invites, NEW p \in People, InviteBegins(q, i, p)
      PROVE  IndInv'
  BY <1>3, StepInviteBegins
<1>4. ASSUME NEW q \in Requests, NEW i \in Invites, JoinBegins(q, i)
      PROVE  IndInv'
  BY <1>4, StepJoinBegins
<1>5. ASSUME NEW q \in Requests, Works(q)
      PROVE  IndInv'
  BY <1>5, StepInviteCommits, StepLocksCounter, StepCommits, StepRollsBack DEF Works
<1>6. ASSUME NEW i \in Invites, Revoke(i)
      PROVE  IndInv'
  BY <1>6, StepRevoke
<1>7. CASE Recount
  BY <1>7, StepRecountReads, StepRecountSets DEF Recount
<1> QED  BY <1>1, <1>2, <1>3, <1>4, <1>5, <1>6, <1>7 DEF Next

\* The inductive invariant holds throughout.
THEOREM Invariance == Spec => []IndInv
<1>1. IndInv /\ [Next]_vars => IndInv'
  BY IndInvNext
<1> QED  BY IndInvInit, <1>1, PTL DEF Spec

\* Every variable keeps its type, and the counter never passes the plan's limit.
THEOREM TypeCorrect == Spec => []TypeOK
<1>1. IndInv => TypeOK
  BY DEF IndInv
<1> QED  BY Invariance, <1>1, PTL

\* A workspace keeps an owner who can act, whoever demotes, disables and removes
\* whom at once (assertNotLastOwner), unless an acceptance wrote over the last one
\* with the membership it had read removed (reactivate).
THEOREM OwnerStays == Spec => []AnOwnerRemains
<1>1. IndInv => AnOwnerRemains
  BY DEF IndInv
<1> QED  BY Invariance, <1>1, PTL

\* The seat counter never counts fewer than the members that hold a seat, in any
\* state, and is exact unless an acceptance wrote over a seat since the last
\* recount began.
THEOREM SeatsStayExact == Spec => []SeatsAreExact
<1>1. IndInv => SeatsAreExact
  BY DEF IndInv
<1> QED  BY Invariance, <1>1, PTL

---------------------------------------------------------------------------
\* A step of the composition is a step of each component, or leaves it alone.
LEMMA StepOfEach ==
    ASSUME [RacesNext]_races_vars
    PROVE  /\ [S!Next]_(S!session_vars) /\ [K!Next]_(K!idempotency_vars) /\ [W!Next]_(W!webhook_vars)
           /\ [F!Next]_(F!reporting_vars) /\ [D!Next]_(D!links_vars) /\ [Next]_vars
  BY DEF RacesNext, races_vars, sessions, idempotency, webhooks, reporting, links,
         S!session_vars, K!idempotency_vars, W!webhook_vars, F!reporting_vars, D!links_vars,
         InMembers, InSessions, InIdempotency, InWebhooks, InReporting, InLinks

\* The instance of Links that is composed and the one that is proved about take the same steps.
LEMMA SameLinks == (D!Init <=> DP!Init) /\ ([D!Next]_(D!links_vars) <=> [DP!Next]_(DP!links_vars))
  BY DEF D!Init, DP!Init, D!AtRest, DP!AtRest, D!links_vars, DP!links_vars, D!Next, DP!Next,
     D!Locks, D!Checks, D!Hops, D!Arrives, D!Inserts, D!Commits, D!RollsBack, D!Removes,
     D!Locked, D!Shared, D!Goes, D!Rests, D!IsDuplicate, D!HasDuplicates, D!Taken, D!Stands,
     DP!Locks, DP!Checks, DP!Hops, DP!Arrives, DP!Inserts, DP!Commits, DP!RollsBack, DP!Removes,
     DP!Locked, DP!Shared, DP!Goes, DP!Rests, DP!IsDuplicate, DP!HasDuplicates, DP!Taken, DP!Stands

\* So do the two instances of Sessions.
LEMMA SameSessions == (S!Init <=> SP!Init) /\ ([S!Next]_(S!session_vars) <=> [SP!Next]_(SP!session_vars))
  BY DEF S!Init, S!NoToken, S!AtRest, S!Fresh, S!Identity, S!Sessions, S!Escapes, S!Revoke, S!Ends,
     S!Login, S!Admits, S!Open, S!Presents, S!Stands, S!Refuses, S!Rotates, S!WalkReads,
     S!WalkRevokes, S!Logout, S!Reach, S!Everywhere, S!EndsSso, S!Expires, S!Disables,
     S!Requires, S!Next, S!session_vars,
     SP!Init, SP!NoToken, SP!AtRest, SP!Fresh, SP!Identity, SP!Sessions, SP!Escapes, SP!Revoke, SP!Ends,
     SP!Login, SP!Admits, SP!Open, SP!Presents, SP!Stands, SP!Refuses, SP!Rotates,
     SP!WalkReads, SP!WalkRevokes, SP!Logout, SP!Reach, SP!Everywhere, SP!EndsSso, SP!Expires,
     SP!Disables, SP!Requires, SP!Next, SP!session_vars

\* The row of a duplicate points at a survivor, beside all the others; excepted are
\* rows whose survivor was found over a row that was removed before they were
\* written, where the code does chain.
THEOREM DuplicatesDoNotChain == RacesSpec => []NoChains
<1>1. RacesSpec => DP!Spec
  BY StepOfEach, SameLinks, PTL DEF RacesSpec, RacesInit, DP!Spec
<1>2. DP!TypeOK /\ DP!NoChains => NoChains
  BY DEF NoChains, D!TypeOK, D!NoChains, DP!TypeOK, DP!NoChains, D!IsDuplicate, DP!IsDuplicate
<1>3. DP!Spec => []DP!TypeOK /\ []DP!NoChains
  BY DP!LinksTypes, DP!DuplicatesDoNotChain
<1> QED  BY <1>1, <1>2, <1>3, PTL

\* A session that was ended stays ended, beside all the others, whichever requests
\* work on it at once; only a rotation that wrote over its token's end is excepted.
THEOREM EndedStaysEnded == RacesSpec => []EndedForGood
<1>1. RacesSpec => SP!Spec
  BY StepOfEach, SameSessions, PTL DEF RacesSpec, RacesInit, SP!Spec
<1>2. SP!TypeOK /\ SP!EndedForGood => EndedForGood
  <2>1. SP!TypeOK => S!TypeOK
    BY DEF S!TypeOK, SP!TypeOK
  <2>2. SP!Walked = S!Walked
    BY DEF S!Walked, SP!Walked
  <2>3. SP!EndedForGood => S!EndedForGood
    BY <2>2 DEF S!EndedForGood, SP!EndedForGood
  <2> QED  BY <2>1, <2>3 DEF EndedForGood
<1>3. SP!NoneIsNoToken
  BY RacesAssumption DEF SP!NoneIsNoToken
<1>4. SP!Spec => []SP!TypeOK
  BY <1>3, SP!SessionsTypes
<1>5. SP!Spec => []SP!EndedForGood
  BY <1>3, SP!EndedStaysEnded
<1> QED  BY <1>1, <1>2, <1>4, <1>5, PTL

---------------------------------------------------------------------------
(* Idempotency: whoever claimed the key and is not done with it, or is done    *)
(* and keeps it, is the only one, because the key is not free.                 *)

\* It claimed the key and was not refused.
Holder(r) == r \in claimed /\ caller[r] # "refused"

\* A key that somebody holds is not free, and one holds it.
KeyIsHeld ==
    /\ \A r \in Callers : Holder(r) => key # K!NoSlot
    /\ \A r, q \in Callers : Holder(r) /\ Holder(q) => r = q

\* What a request has done by the step it is at.
CallersInOrder ==
    \A r \in Callers :
        /\ caller[r] \in {"new", "reads"} => r \notin claimed
        /\ caller[r] \in {"new", "reads", "handles"} => r \notin made
        /\ caller[r] \in {"stores", "frees"} => r \in claimed
        /\ caller[r] \in {"frees", "refused"} /\ r \in made \cap claimed => r \in half

ClaimInv == K!TypeOK /\ KeyIsHeld /\ CallersInOrder

\* No key is claimed at first.
LEMMA ClaimInit == K!Init => ClaimInv
  BY RacesAssumption DEF K!Init, ClaimInv, K!TypeOK, KeyIsHeld, CallersInOrder, Holder, K!NoSlot

\* Every step of a caller keeps the invariant of the keys.
LEMMA ClaimStep ==
    ASSUME ClaimInv, NEW r \in Callers,
           \/ K!Claims(r) \/ K!ClaimFails(r) \/ K!Reads(r) \/ K!ReadFails(r) \/ K!Commits(r)
           \/ K!Fails(r) \/ K!Stores(r) \/ K!Frees(r) \/ K!Dies(r)
    PROVE  ClaimInv'
<1>1. K!TypeOK /\ KeyIsHeld /\ CallersInOrder
  BY DEF ClaimInv
<1> USE DEF K!Goes, K!Hold, K!NoSlot, K!Outage
<1>2. CASE K!Claims(r)
  <2>1. K!TypeOK'
    BY <1>1, <1>2 DEF K!Claims, K!TypeOK, K!Bodies
  <2>2. KeyIsHeld'
    BY <1>1, <1>2 DEF K!Claims, K!TypeOK, KeyIsHeld, Holder
  <2>3. CallersInOrder'
    BY <1>1, <1>2 DEF K!Claims, K!TypeOK, CallersInOrder
  <2> QED  BY <2>1, <2>2, <2>3 DEF ClaimInv
<1>3. CASE K!ClaimFails(r)
  <2>1. K!TypeOK'
    BY <1>1, <1>3, RacesAssumption DEF K!ClaimFails, K!TypeOK, K!Bodies
  <2>2. KeyIsHeld'
    BY <1>1, <1>3 DEF K!ClaimFails, K!TypeOK, KeyIsHeld, Holder, CallersInOrder
  <2>3. CallersInOrder'
    BY <1>1, <1>3 DEF K!ClaimFails, K!TypeOK, CallersInOrder
  <2> QED  BY <2>1, <2>2, <2>3 DEF ClaimInv
<1>4. CASE K!Reads(r)
  <2>1. K!TypeOK'
    BY <1>1, <1>4, RacesAssumption DEF K!Reads, K!TypeOK, K!Bodies
  <2>2. KeyIsHeld'
    BY <1>1, <1>4 DEF K!Reads, K!TypeOK, KeyIsHeld, Holder, CallersInOrder
  <2>3. CallersInOrder'
    BY <1>1, <1>4 DEF K!Reads, K!TypeOK, CallersInOrder
  <2> QED  BY <2>1, <2>2, <2>3 DEF ClaimInv
<1>5. CASE K!ReadFails(r)
  <2>1. K!TypeOK'
    BY <1>1, <1>5, RacesAssumption DEF K!ReadFails, K!TypeOK, K!Bodies
  <2>2. KeyIsHeld'
    BY <1>1, <1>5 DEF K!ReadFails, K!TypeOK, KeyIsHeld, Holder, CallersInOrder
  <2>3. CallersInOrder'
    BY <1>1, <1>5 DEF K!ReadFails, K!TypeOK, CallersInOrder
  <2> QED  BY <2>1, <2>2, <2>3 DEF ClaimInv
<1>6. CASE K!Commits(r)
  <2>1. K!TypeOK'
    BY <1>1, <1>6, RacesAssumption DEF K!Commits, K!TypeOK, K!Bodies
  <2>2. KeyIsHeld'
    BY <1>1, <1>6 DEF K!Commits, K!TypeOK, KeyIsHeld, Holder, CallersInOrder
  <2>3. CallersInOrder'
    BY <1>1, <1>6 DEF K!Commits, K!TypeOK, CallersInOrder
  <2> QED  BY <2>1, <2>2, <2>3 DEF ClaimInv
<1>7. CASE K!Fails(r)
  <2>1. K!TypeOK'
    BY <1>1, <1>7, RacesAssumption DEF K!Fails, K!TypeOK, K!Bodies
  <2>2. KeyIsHeld'
    BY <1>1, <1>7 DEF K!Fails, K!TypeOK, KeyIsHeld, Holder, CallersInOrder
  <2>3. CallersInOrder'
    BY <1>1, <1>7 DEF K!Fails, K!TypeOK, CallersInOrder
  <2> QED  BY <2>1, <2>2, <2>3 DEF ClaimInv
<1>8. CASE K!Stores(r)
  <2>1. K!TypeOK'
    BY <1>1, <1>8, RacesAssumption DEF K!Stores, K!TypeOK, K!Bodies
  <2>2. KeyIsHeld'
    BY <1>1, <1>8 DEF K!Stores, K!TypeOK, KeyIsHeld, Holder, CallersInOrder
  <2>3. CallersInOrder'
    BY <1>1, <1>8 DEF K!Stores, K!TypeOK, CallersInOrder
  <2> QED  BY <2>1, <2>2, <2>3 DEF ClaimInv
<1>9. CASE K!Frees(r)
  <2>1. K!TypeOK'
    BY <1>1, <1>9, RacesAssumption DEF K!Frees, K!TypeOK, K!Bodies
  <2>2. KeyIsHeld'
    BY <1>1, <1>9 DEF K!Frees, K!TypeOK, KeyIsHeld, Holder, CallersInOrder
  <2>3. CallersInOrder'
    BY <1>1, <1>9 DEF K!Frees, K!TypeOK, CallersInOrder
  <2> QED  BY <2>1, <2>2, <2>3 DEF ClaimInv
<1>10. CASE K!Dies(r)
  <2>1. K!TypeOK'
    BY <1>1, <1>10, RacesAssumption DEF K!Dies, K!TypeOK, K!Bodies
  <2>2. KeyIsHeld'
    BY <1>1, <1>10 DEF K!Dies, K!TypeOK, KeyIsHeld, Holder, CallersInOrder
  <2>3. CallersInOrder'
    BY <1>1, <1>10 DEF K!Dies, K!TypeOK, CallersInOrder
  <2> QED  BY <2>1, <2>2, <2>3 DEF ClaimInv
<1> QED  BY <1>2, <1>3, <1>4, <1>5, <1>6, <1>7, <1>8, <1>9, <1>10

\* One entity, however many requests repeat the key, die, fail or find Redis
\* gone (IdempotencyInterceptor): for any number of requests and outages.
THEOREM OneEntity == RacesSpec => []OneEntityPerClaim
<1>1. RacesInit => ClaimInv
  BY ClaimInit DEF RacesInit
<1>2. ClaimInv /\ [RacesNext]_races_vars => ClaimInv'
  <2> SUFFICES ASSUME ClaimInv, [K!Next]_(K!idempotency_vars) PROVE ClaimInv'
    BY StepOfEach
  <2>1. CASE K!Next
    BY <2>1, ClaimStep DEF K!Next
  <2>2. CASE UNCHANGED K!idempotency_vars
    BY <2>2 DEF K!idempotency_vars, ClaimInv, K!TypeOK, KeyIsHeld, CallersInOrder, Holder
  <2> QED  BY <2>1, <2>2
<1>3. ClaimInv => OneEntityPerClaim
  BY DEF ClaimInv, OneEntityPerClaim, K!TypeOK, K!OneEntityPerClaim, KeyIsHeld, CallersInOrder, Holder
<1> QED  BY <1>1, <1>2, <1>3, PTL DEF RacesSpec

---------------------------------------------------------------------------
(* Reporting: one refresher at a time; no event is ahead of its ticket, so one *)
(* that comes after a read is none of the batch.                               *)

\* The advisory lock is one refresher's.
RefreshersAlone ==
    /\ refresher = [w \in Refreshers |-> refresher[w]]
    /\ \A v, w \in Refreshers : F!Holds(v) /\ F!Holds(w) => v = w

\* An earlier state of a ticket, or the same.
NotAhead(row1, row2) == row1.version <= row2.version /\ row1.flags <= row2.flags

\* Events and facts were their tickets once.
NothingAhead ==
    /\ \A e \in unread \cup parked : NotAhead(e[2], ticket[e[1]])
    /\ \A c \in Tickets : fact[c].version <= ticket[c].version

\* What was read is the ticket still, or an event has come since.
ReadIsRecent(work) ==
    /\ DOMAIN work.read \subseteq Tickets
    /\ \A e \in work.batch : e[1] \in DOMAIN work.read
    /\ \A c \in DOMAIN work.read : work.read[c].version <= ticket[c].version
    /\ \A c \in DOMAIN work.read : work.read[c] # ticket[c] => <<c, ticket[c]>> \in unread \ work.batch

\* So for whoever is about to write facts.
ReadsAreRecent ==
    \A w \in Refreshers : refresher[w].pc = "upsert" => ReadIsRecent(refresher[w])

ReportInv ==
    F!TypeOK /\ RefreshersAlone /\ NothingAhead /\ ReadsAreRecent /\ F!FactsKeepUp

\* Nothing is reported at first.
LEMMA ReportInit == F!Init => ReportInv
<1> SUFFICES ASSUME F!Init PROVE ReportInv  OBVIOUS
<1> USE DEF F!Init, F!AtRest, F!Absent
<1>1. F!TypeOK
  BY RacesAssumption DEF F!TypeOK, F!Row
<1>2. RefreshersAlone
  BY DEF RefreshersAlone, F!Holds
<1>3. NothingAhead /\ ReadsAreRecent /\ F!FactsKeepUp
  BY DEF NothingAhead, ReadsAreRecent, F!FactsKeepUp
<1> QED  BY <1>1, <1>2, <1>3 DEF ReportInv

\* A ticket is written: it moves ahead, and so does its event.
LEMMA CommitsKeeps ==
    ASSUME ReportInv, NEW c \in Tickets, NEW moved \in F!Row, F!Commits(c, moved),
           NotAhead(ticket[c], moved), moved # ticket[c]
    PROVE  ReportInv'
<1>1. F!TypeOK /\ RefreshersAlone /\ NothingAhead /\ ReadsAreRecent /\ F!FactsKeepUp
  BY DEF ReportInv
<1>2. /\ ticket' = [ticket EXCEPT ![c] = moved] /\ unread' = unread \cup {<<c, moved>>}
      /\ UNCHANGED <<fact, parked, refresher>>
  BY DEF F!Commits
<1>3. ticket \in [Tickets -> F!Row] /\ ticket[c] \in F!Row
  BY <1>1 DEF F!TypeOK
<1>4. F!TypeOK'
  BY <1>1, <1>2 DEF F!TypeOK, F!AtRest
<1>5. RefreshersAlone'
  BY <1>1, <1>2 DEF RefreshersAlone, F!Holds
<1>6. NothingAhead'
  <2>1. ASSUME NEW e \in (unread \cup parked)'
        PROVE  NotAhead(e[2], ticket'[e[1]])
    <3>1. CASE e \in unread \cup parked
      <4>1. NotAhead(e[2], ticket[e[1]]) /\ e[1] \in Tickets /\ e[2] \in F!Row /\ ticket[e[1]] \in F!Row
        BY <1>1, <1>3, <3>1 DEF NothingAhead, F!TypeOK
      <4> QED  BY <1>2, <1>3, <4>1 DEF NotAhead, F!Row
    <3>2. CASE e = <<c, moved>>
      BY <1>2, <1>3, <3>2 DEF NotAhead, F!Row
    <3> QED  BY <1>2, <2>1, <3>1, <3>2
  <2>2. ASSUME NEW b \in Tickets PROVE fact'[b].version <= ticket'[b].version
    BY <1>1, <1>2, <1>3 DEF NothingAhead, F!TypeOK, NotAhead, F!Row
  <2> QED  BY <2>1, <2>2 DEF NothingAhead
<1>7. \A e \in unread \cup parked : e # <<c, moved>>
  <2> SUFFICES ASSUME NEW e \in unread \cup parked, e = <<c, moved>> PROVE FALSE
    OBVIOUS
  <2>1. NotAhead(moved, ticket[c])
    BY <1>1 DEF NothingAhead
  <2>2. moved.version = ticket[c].version /\ moved.flags = ticket[c].flags
    BY <1>3, <2>1, RacesAssumption DEF NotAhead, F!Row
  <2> QED  BY <1>3, <2>2 DEF F!Row
<1>8. ReadsAreRecent'
  <2> SUFFICES ASSUME NEW w \in Refreshers, refresher[w].pc = "upsert"
               PROVE  ReadIsRecent(refresher[w])'
    BY <1>2 DEF ReadsAreRecent
  <2>1. ReadIsRecent(refresher[w])
    BY <1>1 DEF ReadsAreRecent
  <2>2. refresher[w].batch \subseteq unread \cup parked
    BY <1>1 DEF F!TypeOK, F!AtRest
  <2>3. ASSUME NEW b \in DOMAIN refresher[w].read
        PROVE  /\ refresher[w].read[b].version <= ticket'[b].version
               /\ refresher[w].read[b] # ticket'[b] => <<b, ticket'[b]>> \in unread' \ refresher[w].batch
    <3>1. refresher[w].read[b].version <= ticket[b].version /\ refresher[w].read[b] \in F!Row
      BY <1>1, <2>1 DEF ReadIsRecent, F!TypeOK, F!AtRest
    <3>2. CASE b = c
      BY <1>2, <1>3, <1>7, <2>2, <3>1, <3>2, RacesAssumption DEF NotAhead, F!Row
    <3>3. CASE b # c
      BY <1>2, <1>3, <2>1, <3>1, <3>3 DEF ReadIsRecent
    <3> QED  BY <3>2, <3>3
  <2> QED  BY <1>2, <2>1, <2>3 DEF ReadIsRecent
<1>9. F!FactsKeepUp'
  <2> SUFFICES ASSUME NEW b \in Tickets
               PROVE  fact[b] = ticket'[b] \/ \E e \in unread' \cup parked : e[1] = b
    BY <1>2 DEF F!FactsKeepUp
  <2>1. CASE b = c
    <3>1. <<c, moved>> \in unread' /\ <<c, moved>>[1] = b
      BY <1>2, <2>1
    <3> QED  BY <3>1
  <2>2. CASE b # c
    BY <1>1, <1>2, <1>3, <2>2 DEF F!FactsKeepUp
  <2> QED  BY <2>1, <2>2
<1> QED  BY <1>4, <1>5, <1>6, <1>8, <1>9 DEF ReportInv

\* A refresher goes on, and nothing else changes.
LEMMA RefresherKeeps ==
    ASSUME ReportInv, NEW w \in Refreshers, NEW to,
           F!Goes(w, to), UNCHANGED <<ticket, fact, unread, parked>>,
           \/ to \in {F!AtRest, [pc |-> "pages"]}
           \/ to.pc = "sources" /\ to.batch \subseteq unread \cup parked
           \/ /\ to.pc = "upsert" /\ to.batch \subseteq unread \cup parked
              /\ to.read \in [DOMAIN to.read -> F!Row] /\ ReadIsRecent(to),
           F!LockIsFree \/ F!Holds(w)
    PROVE  ReportInv'
<1>1. F!TypeOK /\ RefreshersAlone /\ NothingAhead /\ ReadsAreRecent /\ F!FactsKeepUp
  BY DEF ReportInv
<1>2. /\ refresher' = [refresher EXCEPT ![w] = to] /\ refresher'[w] = to
      /\ \A v \in Refreshers : v # w => refresher'[v] = refresher[v]
  BY <1>1 DEF RefreshersAlone, F!Goes
<1>3. F!TypeOK'
  BY <1>1, <1>2 DEF F!TypeOK
<1>4. RefreshersAlone'
  BY <1>1, <1>2 DEF RefreshersAlone, F!Holds, F!LockIsFree
<1>5. NothingAhead' /\ F!FactsKeepUp'
  BY <1>1 DEF NothingAhead, F!FactsKeepUp
<1>6. ReadsAreRecent'
  BY <1>1, <1>2 DEF ReadsAreRecent, ReadIsRecent, F!AtRest
<1> QED  BY <1>3, <1>4, <1>5, <1>6 DEF ReportInv

\* A refresher takes a batch: it has read nothing yet.
LEMMA TakesBatchKeeps ==
    ASSUME ReportInv, NEW w \in Refreshers, F!TakesBatch(w) PROVE ReportInv'
<1>1. PICK batch \in (SUBSET unread \ {{}}) \cup {{e} : e \in parked} :
          F!Goes(w, [pc |-> "sources", batch |-> batch])
  BY DEF F!TakesBatch
<1>2. batch \subseteq unread \cup parked
  OBVIOUS
<1> DEFINE to == [pc |-> "sources", batch |-> batch]
<1>3. to.pc = "sources" /\ to.batch = batch
  OBVIOUS
<1> HIDE DEF to
<1> QED  BY <1>1, <1>2, <1>3, RefresherKeeps DEF F!TakesBatch, to

\* It reads the tickets its batch names.
LEMMA ReadsSourcesKeeps ==
    ASSUME ReportInv, NEW w \in Refreshers, F!ReadsSources(w) PROVE ReportInv'
<1> DEFINE named == {e[1] : e \in refresher[w].batch}
           to == [pc |-> "upsert", batch |-> refresher[w].batch, read |-> [c \in named |-> ticket[c]]]
<1>1. refresher[w].pc = "sources" /\ F!Goes(w, to) /\ UNCHANGED <<ticket, fact, unread, parked>>
  BY DEF F!ReadsSources
<1>2. refresher[w].batch \subseteq unread \cup parked /\ named \subseteq Tickets /\ ticket \in [Tickets -> F!Row]
  BY <1>1 DEF ReportInv, F!TypeOK, F!AtRest
<1>3. to.pc = "upsert" /\ to.batch = refresher[w].batch /\ to.read = [c \in named |-> ticket[c]]
  OBVIOUS
<1>4. to.read \in [DOMAIN to.read -> F!Row] /\ ReadIsRecent(to)
  <2>1. DOMAIN to.read = named /\ to.read \in [named -> F!Row]
    BY <1>2, <1>3
  <2>2. \A c \in named : to.read[c] = ticket[c] /\ ticket[c].version <= ticket[c].version
    BY <1>2, <1>3, RacesAssumption DEF F!Row
  <2>3. \A e \in to.batch : e[1] \in named
    BY <1>3
  <2> QED  BY <1>2, <2>1, <2>2, <2>3 DEF ReadIsRecent
<1>5. F!Holds(w)
  BY <1>1 DEF F!Holds, F!AtRest
<1> HIDE DEF to, named
<1> QED  BY <1>1, <1>2, <1>3, <1>4, <1>5, RefresherKeeps

\* A rebuild reads a page of tickets, and keeps those whose fact is another.
LEMMA ReadsPageKeeps ==
    ASSUME ReportInv, NEW w \in Refreshers, F!ReadsPage(w) PROVE ReportInv'
<1>1. PICK page \in SUBSET {c \in Tickets : ticket[c] # F!Absent} :
          LET changed == {c \in page : fact[c] # ticket[c]} IN
          F!Goes(w, [pc |-> "upsert", batch |-> {}, read |-> [c \in changed |-> ticket[c]]])
  BY DEF F!ReadsPage
<1> DEFINE changed == {c \in page : fact[c] # ticket[c]}
           to == [pc |-> "upsert", batch |-> {}, read |-> [c \in changed |-> ticket[c]]]
<1>2. refresher[w].pc = "pages" /\ F!Goes(w, to) /\ UNCHANGED <<ticket, fact, unread, parked>>
  BY <1>1 DEF F!ReadsPage
<1>3. changed \subseteq Tickets /\ ticket \in [Tickets -> F!Row]
  BY DEF ReportInv, F!TypeOK
<1>4. to.pc = "upsert" /\ to.batch = {} /\ to.read = [c \in changed |-> ticket[c]]
  OBVIOUS
<1>5. to.read \in [DOMAIN to.read -> F!Row] /\ ReadIsRecent(to)
  <2>1. DOMAIN to.read = changed /\ to.read \in [changed -> F!Row]
    BY <1>3, <1>4
  <2>2. \A c \in changed : to.read[c] = ticket[c] /\ ticket[c].version <= ticket[c].version
    BY <1>3, <1>4, RacesAssumption DEF F!Row
  <2> QED  BY <1>3, <1>4, <2>1, <2>2 DEF ReadIsRecent
<1>6. F!Holds(w)
  BY <1>2 DEF F!Holds, F!AtRest
<1> HIDE DEF to, changed
<1> QED  BY <1>2, <1>4, <1>5, <1>6, RefresherKeeps

\* The facts are written: what was read is the ticket, or its newer event stays.
LEMMA UpsertsKeeps ==
    ASSUME ReportInv, NEW w \in Refreshers, F!Upserts(w) PROVE ReportInv'
<1> DEFINE read == refresher[w].read
           batch == refresher[w].batch
<1>1. F!TypeOK /\ RefreshersAlone /\ NothingAhead /\ ReadsAreRecent /\ F!FactsKeepUp
  BY DEF ReportInv
<1>2. /\ refresher[w].pc = "upsert" /\ unread' = unread \ batch /\ parked' = parked \ batch
      /\ refresher' = [refresher EXCEPT ![w] = F!AtRest] /\ ticket' = ticket
      /\ fact' = [c \in Tickets |->
                    IF c \in DOMAIN read /\ fact[c].version <= read[c].version THEN read[c] ELSE fact[c]]
  BY DEF F!Upserts, F!Goes
<1>3. ReadIsRecent(refresher[w]) /\ read \in [DOMAIN read -> F!Row] /\ F!Holds(w)
  BY <1>1, <1>2 DEF ReadsAreRecent, F!TypeOK, F!AtRest, F!Holds
<1>4. /\ refresher'[w] = F!AtRest
      /\ \A v \in Refreshers : v # w => refresher'[v] = F!AtRest
  BY <1>1, <1>2, <1>3 DEF RefreshersAlone, F!Holds
<1>5. fact \in [Tickets -> F!Row] /\ ticket \in [Tickets -> F!Row] /\ fact' \in [Tickets -> F!Row]
  BY <1>1, <1>2, <1>3 DEF F!TypeOK
<1>6. F!TypeOK'
  BY <1>1, <1>2, <1>4, <1>5 DEF F!TypeOK
<1>7. RefreshersAlone' /\ ReadsAreRecent'
  BY <1>1, <1>2, <1>4 DEF RefreshersAlone, ReadsAreRecent, F!Holds, F!AtRest
<1>8. \A c \in DOMAIN read : c \in Tickets /\ (read[c] = ticket[c] \/ <<c, ticket[c]>> \in unread')
  BY <1>2, <1>3 DEF ReadIsRecent
<1>9. NothingAhead'
  <2>1. \A c \in DOMAIN read : read[c].version <= ticket[c].version
    BY <1>3 DEF ReadIsRecent
  <2> QED  BY <1>1, <1>2, <1>3, <1>5, <2>1 DEF NothingAhead, F!Row
<1>10. F!FactsKeepUp'
  <2> SUFFICES ASSUME NEW c \in Tickets
               PROVE  fact'[c] = ticket[c] \/ \E e \in (unread \cup parked)' : e[1] = c
    BY <1>2 DEF F!FactsKeepUp
  <2>1. CASE c \in DOMAIN read
    <3>1. CASE read[c] = ticket[c]
      BY <1>1, <1>2, <2>1, <3>1 DEF NothingAhead
    <3>2. CASE <<c, ticket[c]>> \in unread'
      BY <3>2
    <3> QED  BY <1>8, <2>1, <3>1, <3>2
  <2>2. CASE c \notin DOMAIN read
    <3>1. \A e \in batch : e[1] # c
      BY <1>3, <2>2 DEF ReadIsRecent
    <3> QED  BY <1>1, <1>2, <2>2, <3>1 DEF F!FactsKeepUp
  <2> QED  BY <2>1, <2>2
<1> QED  BY <1>6, <1>7, <1>9, <1>10 DEF ReportInv

\* An event that failed too often is set aside, where a retry finds it.
LEMMA ParksKeeps ==
    ASSUME ReportInv, NEW e \in unread, F!Parks(e) PROVE ReportInv'
<1>1. F!TypeOK /\ RefreshersAlone /\ NothingAhead /\ ReadsAreRecent /\ F!FactsKeepUp
  BY DEF ReportInv
<1>2. /\ \A w \in Refreshers : refresher[w] = F!AtRest
      /\ unread' = unread \ {e} /\ parked' = parked \cup {e} /\ UNCHANGED <<ticket, fact, refresher>>
  BY DEF F!Parks, F!LockIsFree, F!Holds
<1>3. F!TypeOK'
  BY <1>1, <1>2 DEF F!TypeOK
<1>4. RefreshersAlone' /\ ReadsAreRecent'
  BY <1>1, <1>2 DEF RefreshersAlone, ReadsAreRecent, F!Holds, F!AtRest
<1>5. NothingAhead' /\ F!FactsKeepUp'
  BY <1>1, <1>2 DEF NothingAhead, F!FactsKeepUp
<1> QED  BY <1>3, <1>4, <1>5 DEF ReportInv

\* Every step keeps the invariant of the facts.
LEMMA ReportNext == ASSUME ReportInv, [F!Next]_(F!reporting_vars) PROVE ReportInv'
<1>1. F!TypeOK
  BY DEF ReportInv
<1>2. ASSUME NEW c \in Tickets, F!Edits(c) PROVE ReportInv'
  <2> DEFINE moved == [ticket[c] EXCEPT !.version = @ + 1]
  <2>1. ticket[c] \in F!Row /\ ticket[c].version < MaxVersion /\ F!Commits(c, moved)
    BY <1>1, <1>2 DEF F!Edits, F!TypeOK
  <2>2. moved \in F!Row /\ NotAhead(ticket[c], moved) /\ moved # ticket[c]
    BY <2>1, RacesAssumption DEF F!Row, NotAhead
  <2> HIDE DEF moved
  <2> QED  BY <2>1, <2>2, CommitsKeeps
<1>3. ASSUME NEW c \in Tickets, F!FlagsSla(c) PROVE ReportInv'
  <2> DEFINE moved == [ticket[c] EXCEPT !.flags = @ + 1]
  <2>1. ticket[c] \in F!Row /\ ticket[c].flags < MaxFlags /\ F!Commits(c, moved)
    BY <1>1, <1>3 DEF F!FlagsSla, F!TypeOK
  <2>2. moved \in F!Row /\ NotAhead(ticket[c], moved) /\ moved # ticket[c]
    BY <2>1, RacesAssumption DEF F!Row, NotAhead
  <2> HIDE DEF moved
  <2> QED  BY <2>1, <2>2, CommitsKeeps
<1>4. ASSUME NEW w \in Refreshers, F!TakesPage(w) PROVE ReportInv'
  BY <1>4, RefresherKeeps DEF F!TakesPage
<1>5. ASSUME NEW w \in Refreshers, F!RollsBack(w) PROVE ReportInv'
  BY <1>5, RefresherKeeps DEF F!RollsBack, F!Holds
<1>6. CASE UNCHANGED F!reporting_vars
  BY <1>6 DEF F!reporting_vars, ReportInv, F!TypeOK, RefreshersAlone, NothingAhead, NotAhead, ReadsAreRecent,
              ReadIsRecent, F!FactsKeepUp, F!Holds
<1> QED
  BY <1>2, <1>3, <1>4, <1>5, <1>6, TakesBatchKeeps, ReadsSourcesKeeps, ReadsPageKeeps, UpsertsKeeps, ParksKeeps
  DEF F!Next

\* A fact is its ticket's but for events that are unread or parked
\* (ReportingConsumer, the nightly reconcile), for any number of tickets,
\* events, drains, replays and reconciles.
THEOREM FactsFollow == RacesSpec => []FactsKeepUp
<1>1. RacesInit => ReportInv
  BY ReportInit DEF RacesInit
<1>2. ReportInv /\ [RacesNext]_races_vars => ReportInv'
  BY StepOfEach, ReportNext
<1>3. ReportInv => FactsKeepUp
  BY DEF ReportInv, FactsKeepUp
<1> QED  BY <1>1, <1>2, <1>3, PTL DEF RacesSpec
---------------------------------------------------------------------------
(* Webhooks: while an attempt's claim covers it nothing else has a claim on    *)
(* its row; an attempt that outlived its own is followed by its writes.        *)

\* The attempt's row is as it claimed it, or is gone with its endpoint.
RowWaits(s) ==
    \/ row[slot[s].d].status = "none" /\ endpoint.status = "removed"
    \/ /\ W!Pending(slot[s].d)
       /\ row[slot[s].d].next = Lease - slot[s].age /\ row[slot[s].d].attempts = slot[s].attempts

\* So is the row of every attempt that its claim covers.
RowsWait == \A s \in Slots : W!InTime(s) => RowWaits(s)

\* No two such attempts work on one delivery.
NoTwins == \A s, t \in Slots : W!InTime(s) /\ W!InTime(t) /\ slot[s].d = slot[t].d => s = t

\* What an attempt that waits, or means to probe, read of the circuit.
SlotsRead ==
    \A s \in Slots : /\ slot[s].pc = "due" => slot[s].open \in {0, W!Closed}
                     /\ slot[s].pc = "waiting" => slot[s].open >= 0

\* The circuit is open when the failures in a row reach the threshold.
CircuitIsRight == endpoint.status = "ACTIVE" => (endpoint.open # W!Closed <=> endpoint.fails >= Threshold)

\* An attempt past an open circuit for which its probe lasts still.
Probes(s) == slot[s].pc = "probing" /\ slot[s].age < Lease

\* There is one at most, and the circuit stays open for as long as its probe.
OneProbe ==
    /\ \A s, t \in Slots : Probes(s) /\ Probes(t) => s = t
    /\ \A s \in Slots : Probes(s) => endpoint.open = W!Closed \/ endpoint.open >= Lease - slot[s].age

WebhookInv == W!TypeOK /\ RowsWait /\ NoTwins /\ SlotsRead /\ CircuitIsRight /\ OneProbe

\* Nothing is to be delivered at first.
LEMMA WebhookInit == W!Init => WebhookInv
  BY RacesAssumption DEF W!Init, W!NoRow, W!Idle, WebhookInv, W!TypeOK, W!Endpoints, W!Rows, W!Working, W!Closed,
     RowsWait, NoTwins, SlotsRead, CircuitIsRight, OneProbe, Probes, W!InTime, W!InFlight, W!Pending

\* A power of two counts the subsets of a set, so it is a positive number.
LEMMA PowersOfTwo == ASSUME NEW n \in Nat PROVE 2 ^ n \in Nat \ {0}
<1>1. IsFiniteSet(1 .. n) /\ Cardinality(1 .. n) = n
  BY FS_Interval
<1>2. IsFiniteSet(SUBSET (1 .. n)) /\ Cardinality(SUBSET (1 .. n)) = 2 ^ n
  BY <1>1, FS_SUBSET
<1>3. 2 ^ n \in Nat
  BY <1>2, FS_CardinalityType
<1>4. SUBSET (1 .. n) # {}
  OBVIOUS
<1>5. 2 ^ n # 0
  BY <1>2, <1>4, FS_EmptySet
<1> QED  BY <1>3, <1>5

\* The circuit stays closed below the threshold, and otherwise opens for as long
\* as a lease at least.
LEMMA OpensLongEnough ==
    ASSUME NEW n \in Nat
    PROVE  /\ n < Threshold => W!OpenFor(n) = W!Closed
           /\ n >= Threshold => W!OpenFor(n) \in Lease .. MaxOpen
<1>1. CASE n < Threshold
  BY <1>1, RacesAssumption DEF W!OpenFor
<1>2. CASE n >= Threshold
  <2> DEFINE p == 2 ^ (n - Threshold)
  <2>1. p \in Nat \ {0}
    BY <1>2, RacesAssumption, PowersOfTwo
  <2> HIDE DEF p
  <2>2. MinOpen * p \in Int /\ MinOpen * p >= Lease
    BY <2>1, RacesAssumption
  <2>3. W!OpenFor(n) = IF MinOpen * p < MaxOpen THEN MinOpen * p ELSE MaxOpen
    BY <1>2, RacesAssumption DEF W!OpenFor, p
  <2> QED  BY <1>2, <2>2, <2>3, RacesAssumption
<1> QED  BY <1>1, <1>2, RacesAssumption

\* An attempt that ends frees its slot and leaves others' rows alone, or it had
\* outlived its claim and the others are overtaken.
LEMMA AttemptEnds ==
    ASSUME WebhookInv, NEW s \in Slots, W!InFlight(s), NEW r \in W!Rows,
           row' = row \/ row' = [row EXCEPT ![slot[s].d] = r],
           W!Rests(s), jobs' \subseteq Deliveries, turns' = turns,
           \/ endpoint' = endpoint
           \/ /\ endpoint.status = "ACTIVE" /\ endpoint' \in W!Endpoints
              /\ endpoint'.open # W!Closed <=> endpoint'.fails >= Threshold
              /\ endpoint'.open = W!Closed \/ endpoint'.open >= Lease
    PROVE  WebhookInv'
<1>1. W!TypeOK /\ RowsWait /\ NoTwins /\ SlotsRead /\ CircuitIsRight /\ OneProbe
  BY DEF WebhookInv
<1>2. slot[s] \in W!Working
  BY <1>1 DEF W!TypeOK, W!InFlight, W!Idle
<1>3. slot'[s] = W!Idle /\ slot'[s].pc = "free"
  BY DEF W!Rests, W!Idle
<1>4. ASSUME NEW t \in Slots, t # s
      PROVE  /\ slot'[t] \in {W!Idle} \cup W!Working /\ slot'[t].pc = slot[t].pc
             /\ W!InFlight(t) => slot'[t].age = slot[t].age /\ slot'[t].open = slot[t].open
             /\ ~W!InFlight(t) => slot'[t] = slot[t]
             /\ slot'[t] = slot[t] \/ slot'[t].overtaken
             /\ ~W!InTime(s) /\ W!InFlight(t) /\ slot[t].d = slot[s].d => slot'[t].overtaken
  <2>1. slot'[t] = IF ~W!InTime(s) /\ W!InFlight(t) /\ slot[t].d = slot[s].d
                   THEN [slot[t] EXCEPT !.overtaken = TRUE] ELSE slot[t]
    BY <1>4 DEF W!Rests
  <2>2. slot[t] \in {W!Idle} \cup W!Working
    BY <1>1 DEF W!TypeOK
  <2>3. CASE W!InFlight(t)
    <3>1. slot[t] \in W!Working
      BY <2>2, <2>3 DEF W!InFlight, W!Idle
    <3> QED  BY <2>1, <2>3, <3>1 DEF W!Working
  <2> QED  BY <2>1, <2>2, <2>3
<1>5. W!TypeOK'
  <2>1. slot' \in [Slots -> {W!Idle} \cup W!Working]
    <3>1. \A t \in Slots : slot'[t] \in {W!Idle} \cup W!Working
      BY <1>3, <1>4
    <3>2. slot' = [t \in Slots |-> slot'[t]]
      BY DEF W!Rests
    <3> QED  BY <3>1, <3>2
  <2> QED  BY <1>1, <1>2, <2>1 DEF W!TypeOK, W!Working
<1>6. ASSUME NEW t \in Slots, W!InTime(t)'
      PROVE  /\ t # s /\ W!InTime(t) /\ slot'[t] = slot[t]
             /\ slot[t].d \in Deliveries /\ slot[t].d # slot[s].d
             /\ row'[slot[t].d] = row[slot[t].d]
  <2>1. t # s
    BY <1>3, <1>6 DEF W!InTime, W!InFlight
  <2>2. W!InFlight(t) /\ slot'[t] = slot[t] /\ W!InTime(t)
    BY <1>4, <1>6, <2>1 DEF W!InTime, W!InFlight
  <2>3. slot[t] \in W!Working
    BY <2>2, <1>1 DEF W!TypeOK, W!InFlight, W!Idle
  <2>4. slot[t].d # slot[s].d
    <3>1. W!InTime(s) => slot[t].d # slot[s].d
      BY <1>1, <2>1, <2>2 DEF NoTwins
    <3>2. ~slot'[t].overtaken
      BY <1>6 DEF W!InTime
    <3> QED  BY <1>4, <2>1, <2>2, <3>1, <3>2
  <2>5. slot[t].d \in Deliveries
    BY <2>3 DEF W!Working
  <2> QED  BY <2>1, <2>2, <2>4, <2>5, <1>1 DEF W!TypeOK
<1>7. RowsWait'
  BY <1>1, <1>6 DEF RowsWait, RowWaits, W!Pending
<1>8. NoTwins'
  BY <1>1, <1>6 DEF NoTwins
<1>9. SlotsRead'
  BY <1>1, <1>3, <1>4 DEF SlotsRead, W!InFlight
<1>10. CircuitIsRight'
  BY <1>1 DEF CircuitIsRight
<1>11. OneProbe'
  <2>1. \A t \in Slots : Probes(t)' => Probes(t) /\ slot'[t].age = slot[t].age
    BY <1>3, <1>4 DEF Probes, W!InFlight
  <2>2. \A t \in Slots : Probes(t) => slot[t].age \in 0 .. Lease
    BY <1>1 DEF Probes, W!TypeOK, W!Working, W!Idle
  <2>3. ASSUME NEW t \in Slots, Probes(t)'
        PROVE  endpoint'.open = W!Closed \/ endpoint'.open >= Lease - slot'[t].age
    <3>1. Probes(t) /\ slot'[t].age = slot[t].age /\ slot[t].age \in 0 .. Lease
      BY <2>1, <2>2, <2>3
    <3>2. CASE endpoint' = endpoint
      BY <1>1, <3>1, <3>2 DEF OneProbe
    <3>3. CASE endpoint' \in W!Endpoints /\ (endpoint'.open = W!Closed \/ endpoint'.open >= Lease)
      BY <3>1, <3>3, RacesAssumption DEF W!Endpoints, W!Closed
    <3> QED  BY <3>2, <3>3
  <2> QED  BY <2>1, <2>3, <1>1 DEF OneProbe
<1> QED  BY <1>5, <1>7, <1>8, <1>9, <1>10, <1>11 DEF WebhookInv

\* A job comes or goes: nothing but the queue changes.
LEMMA JobsChange ==
    ASSUME WebhookInv, jobs' \subseteq Deliveries, UNCHANGED <<endpoint, row, slot, turns>>
    PROVE  WebhookInv'
<1>1. W!TypeOK /\ RowsWait /\ NoTwins /\ SlotsRead /\ CircuitIsRight /\ OneProbe
  BY DEF WebhookInv
<1>2. W!TypeOK'
  BY <1>1, RacesAssumption DEF W!TypeOK, W!Endpoints, W!Rows, W!Working, W!Idle, W!NoRow, W!Closed
<1>4. RowsWait'
  BY <1>1, RacesAssumption DEF RowsWait, RowWaits, W!InTime, W!InFlight, W!Pending, W!TypeOK
<1>5. NoTwins'
  BY <1>1, RacesAssumption DEF NoTwins, W!InTime, W!InFlight, W!TypeOK
<1>6. SlotsRead'
  BY <1>1, RacesAssumption DEF SlotsRead, W!TypeOK
<1>7. CircuitIsRight'
  BY <1>1, RacesAssumption DEF CircuitIsRight, W!TypeOK
<1>8. OneProbe'
  BY <1>1, RacesAssumption DEF OneProbe, Probes, W!TypeOK
<1> QED  BY <1>2, <1>4, <1>5, <1>6, <1>7, <1>8 DEF WebhookInv

\* A delivery is written only while the endpoint is active, so no attempt has it.
LEMMA ConsumeStep ==
    ASSUME WebhookInv, NEW d \in Deliveries, W!Consume(d)
    PROVE  WebhookInv'
<1>1. W!TypeOK /\ RowsWait /\ NoTwins /\ SlotsRead /\ CircuitIsRight /\ OneProbe
  BY DEF WebhookInv
<1> USE DEF W!Consume, W!Queues
<1>2. W!TypeOK'
  BY <1>1, RacesAssumption DEF W!TypeOK, W!Endpoints, W!Rows, W!Working, W!Idle, W!NoRow, W!Closed
<1>4. RowsWait'
  BY <1>1, RacesAssumption DEF RowsWait, RowWaits, W!InTime, W!InFlight, W!Pending, W!TypeOK, W!NoRow, W!Working, W!Idle
<1>5. NoTwins'
  BY <1>1, RacesAssumption DEF NoTwins, W!InTime, W!InFlight, W!TypeOK
<1>6. SlotsRead'
  BY <1>1, RacesAssumption DEF SlotsRead, W!TypeOK
<1>7. CircuitIsRight'
  BY <1>1, RacesAssumption DEF CircuitIsRight, W!TypeOK
<1>8. OneProbe'
  BY <1>1, RacesAssumption DEF OneProbe, Probes, W!TypeOK
<1> QED  BY <1>2, <1>4, <1>5, <1>6, <1>7, <1>8 DEF WebhookInv

\* A claim finds the row due, so nobody else is at it.
LEMMA AttemptClaims ==
    ASSUME WebhookInv, NEW s \in Slots, NEW d \in Deliveries, W!Claim(s, d)
    PROVE  WebhookInv'
<1>1. W!TypeOK /\ RowsWait /\ NoTwins /\ SlotsRead /\ CircuitIsRight /\ OneProbe
  BY DEF WebhookInv
<1> USE DEF W!Claim, W!Due, W!Verdict
<1>2. W!TypeOK'
  BY <1>1, RacesAssumption DEF W!TypeOK, W!Endpoints, W!Rows, W!Working, W!Idle, W!NoRow, W!Closed
<1>4. RowsWait'
  BY <1>1, RacesAssumption DEF RowsWait, RowWaits, W!InTime, W!InFlight, W!Pending, W!TypeOK, W!Working, W!Idle, W!Rows
<1>5. NoTwins'
  BY <1>1, RacesAssumption DEF NoTwins, W!InTime, W!InFlight, W!TypeOK, RowsWait, RowWaits, W!Pending, W!Working, W!Idle
<1>6. SlotsRead'
  BY <1>1, RacesAssumption DEF SlotsRead, W!TypeOK, W!Endpoints
<1>7. CircuitIsRight'
  BY <1>1, RacesAssumption DEF CircuitIsRight, W!TypeOK
<1>8. OneProbe'
  BY <1>1, RacesAssumption DEF OneProbe, Probes, W!TypeOK, W!Endpoints
<1> QED  BY <1>2, <1>4, <1>5, <1>6, <1>7, <1>8 DEF WebhookInv

\* The probe takes its lease on the circuit from the one who saw it due.
LEMMA TakesProbeStep ==
    ASSUME WebhookInv, NEW s \in Slots, W!TakesProbe(s)
    PROVE  WebhookInv'
<1>1. W!TypeOK /\ RowsWait /\ NoTwins /\ SlotsRead /\ CircuitIsRight /\ OneProbe
  BY DEF WebhookInv
<1>2. /\ slot[s] \in W!Working /\ slot[s].pc = "due" /\ endpoint \in W!Endpoints
      /\ endpoint.status = "ACTIVE" /\ endpoint.open = 0 /\ row' = row
      /\ endpoint' = [endpoint EXCEPT !.open = Lease - slot[s].age] /\ slot[s].age \in 0 .. Lease
  BY <1>1 DEF W!TypeOK, W!TakesProbe, W!ProbeIsFree, SlotsRead, W!Idle, W!Working, W!Closed
<1>3. /\ endpoint' \in W!Endpoints /\ endpoint'.status = "ACTIVE" /\ endpoint'.fails = endpoint.fails
      /\ endpoint'.open = Lease - slot[s].age /\ endpoint'.open # W!Closed
  BY <1>2, RacesAssumption DEF W!Endpoints, W!Closed
<1>4. ASSUME NEW t \in Slots
      PROVE  /\ slot'[t] \in {W!Idle} \cup W!Working
             /\ W!InFlight(t)' <=> W!InFlight(t)
             /\ W!InFlight(t) => /\ slot'[t].d = slot[t].d /\ slot'[t].age = slot[t].age
                                 /\ slot'[t].attempts = slot[t].attempts
                                 /\ slot'[t].overtaken = slot[t].overtaken
             /\ slot'[t].pc = "due" => slot'[t].open = W!Closed
             /\ slot'[t].pc = "waiting" => slot'[t] = slot[t]
             /\ slot'[t].pc = "probing" => t = s \/ slot'[t] = slot[t]
  <2>1. slot[t] \in {W!Idle} \cup W!Working
    BY <1>1 DEF W!TypeOK
  <2>2. slot'[t] = IF t = s THEN [slot[t] EXCEPT !.pc = "probing"]
                   ELSE IF slot[t].pc = "due" THEN [slot[t] EXCEPT !.open = W!Closed] ELSE slot[t]
    BY DEF W!TakesProbe
  <2>3. CASE t = s
    BY <1>2, <2>2, <2>3 DEF W!Working, W!InFlight
  <2>4. CASE t # s /\ slot[t].pc = "due"
    <3>1. slot[t] \in W!Working
      BY <2>1, <2>4 DEF W!Idle
    <3>2. slot'[t] = [slot[t] EXCEPT !.open = W!Closed]
      BY <2>2, <2>4
    <3> QED  BY <2>4, <3>1, <3>2, RacesAssumption DEF W!Working, W!InFlight, W!Closed
  <2>5. CASE t # s /\ slot[t].pc # "due"
    BY <2>1, <2>2, <2>5 DEF W!InFlight
  <2> QED  BY <2>3, <2>4, <2>5
<1>5. W!TypeOK'
  <2>1. slot' = [t \in Slots |-> slot'[t]]
    BY DEF W!TakesProbe
  <2>2. slot' \in [Slots -> {W!Idle} \cup W!Working]
    BY <1>4, <2>1
  <2> QED  BY <1>1, <1>3, <2>2 DEF W!TypeOK, W!TakesProbe
<1>6. \A t \in Slots : W!InTime(t)' => /\ W!InTime(t) /\ slot'[t].d = slot[t].d /\ slot'[t].age = slot[t].age
                                       /\ slot'[t].attempts = slot[t].attempts
  BY <1>4 DEF W!InTime
<1>7. RowsWait'
  BY <1>1, <1>2, <1>3, <1>6 DEF RowsWait, RowWaits, W!Pending
<1>8. NoTwins'
  BY <1>1, <1>6 DEF NoTwins
<1>9. SlotsRead'
  BY <1>1, <1>4 DEF SlotsRead
<1>10. CircuitIsRight'
  BY <1>1, <1>2, <1>3 DEF CircuitIsRight, W!Closed
<1>11. OneProbe'
  <2>1. \A t \in Slots : ~Probes(t)
    BY <1>1, <1>2, RacesAssumption DEF OneProbe, Probes, W!TypeOK, W!Working, W!Idle, W!Closed
  <2>2. \A t \in Slots : Probes(t)' => t = s
    BY <1>4, <2>1 DEF Probes
  <2>3. slot'[s].age = slot[s].age
    BY <1>2, <1>4 DEF W!InFlight
  <2> QED  BY <1>2, <1>3, <2>2, <2>3 DEF OneProbe, W!Endpoints, W!Closed
<1> QED  BY <1>5, <1>7, <1>8, <1>9, <1>10, <1>11 DEF WebhookInv

\* The admin turns the endpoint off.
LEMMA TurnOffStep ==
    ASSUME WebhookInv, W!TurnOff
    PROVE  WebhookInv'
<1>1. W!TypeOK /\ RowsWait /\ NoTwins /\ SlotsRead /\ CircuitIsRight /\ OneProbe
  BY DEF WebhookInv
<1> USE DEF W!TurnOff, W!Turn
<1>2. W!TypeOK'
  BY <1>1, RacesAssumption DEF W!TypeOK, W!Endpoints, W!Rows, W!Working, W!Idle, W!NoRow, W!Closed
<1>4. RowsWait'
  BY <1>1, RacesAssumption DEF RowsWait, RowWaits, W!InTime, W!InFlight, W!Pending, W!TypeOK
<1>5. NoTwins'
  BY <1>1, RacesAssumption DEF NoTwins, W!InTime, W!InFlight, W!TypeOK
<1>6. SlotsRead'
  BY <1>1, RacesAssumption DEF SlotsRead, W!TypeOK
<1>7. CircuitIsRight'
  BY <1>1, RacesAssumption DEF CircuitIsRight, W!TypeOK
<1>8. OneProbe'
  BY <1>1, RacesAssumption DEF OneProbe, Probes, W!TypeOK
<1> QED  BY <1>2, <1>4, <1>5, <1>6, <1>7, <1>8 DEF WebhookInv

\* The admin turns the endpoint on with a clean slate.
LEMMA TurnOnStep ==
    ASSUME WebhookInv, W!TurnOn
    PROVE  WebhookInv'
<1>1. W!TypeOK /\ RowsWait /\ NoTwins /\ SlotsRead /\ CircuitIsRight /\ OneProbe
  BY DEF WebhookInv
<1> USE DEF W!TurnOn, W!Turn, W!AfterSuccess
<1>2. W!TypeOK'
  BY <1>1, RacesAssumption DEF W!TypeOK, W!Endpoints, W!Rows, W!Working, W!Idle, W!NoRow, W!Closed
<1>4. RowsWait'
  BY <1>1, RacesAssumption DEF RowsWait, RowWaits, W!InTime, W!InFlight, W!Pending, W!TypeOK
<1>5. NoTwins'
  BY <1>1, RacesAssumption DEF NoTwins, W!InTime, W!InFlight, W!TypeOK
<1>6. SlotsRead'
  BY <1>1, RacesAssumption DEF SlotsRead, W!TypeOK
<1>7. CircuitIsRight'
  BY <1>1, RacesAssumption DEF CircuitIsRight, W!TypeOK, W!Closed
<1>8. OneProbe'
  BY <1>1, RacesAssumption DEF OneProbe, Probes, W!TypeOK, W!Closed
<1> QED  BY <1>2, <1>4, <1>5, <1>6, <1>7, <1>8 DEF WebhookInv

\* The admin removes the endpoint and its deliveries, those in flight too.
LEMMA RemoveStep ==
    ASSUME WebhookInv, W!Remove
    PROVE  WebhookInv'
<1>1. W!TypeOK /\ RowsWait /\ NoTwins /\ SlotsRead /\ CircuitIsRight /\ OneProbe
  BY DEF WebhookInv
<1> USE DEF W!Remove, W!Turn, W!AfterSuccess, W!NoRow
<1>2. W!TypeOK'
  BY <1>1, RacesAssumption DEF W!TypeOK, W!Endpoints, W!Rows, W!Working, W!Idle, W!NoRow, W!Closed
<1>4. RowsWait'
  BY <1>1, RacesAssumption DEF RowsWait, RowWaits, W!InTime, W!InFlight, W!Pending, W!TypeOK, W!Working, W!Idle
<1>5. NoTwins'
  BY <1>1, RacesAssumption DEF NoTwins, W!InTime, W!InFlight, W!TypeOK
<1>6. SlotsRead'
  BY <1>1, RacesAssumption DEF SlotsRead, W!TypeOK
<1>7. CircuitIsRight'
  BY <1>1, RacesAssumption DEF CircuitIsRight, W!TypeOK
<1>8. OneProbe'
  BY <1>1, RacesAssumption DEF OneProbe, Probes, W!TypeOK
<1> QED  BY <1>2, <1>4, <1>5, <1>6, <1>7, <1>8 DEF WebhookInv

\* A replay takes dead deliveries, which no attempt has.
LEMMA ReplayStep ==
    ASSUME WebhookInv, NEW ds \in SUBSET Deliveries, W!Replay(ds)
    PROVE  WebhookInv'
<1>1. W!TypeOK /\ RowsWait /\ NoTwins /\ SlotsRead /\ CircuitIsRight /\ OneProbe
  BY DEF WebhookInv
<1> USE DEF W!Replay, W!Turn, W!Queues, W!NoRow
<1>2. W!TypeOK'
  BY <1>1, RacesAssumption DEF W!TypeOK, W!Endpoints, W!Rows, W!Working, W!Idle, W!NoRow, W!Closed
<1>4. RowsWait'
  BY <1>1, RacesAssumption DEF RowsWait, RowWaits, W!InTime, W!InFlight, W!Pending, W!TypeOK, W!Working, W!Idle
<1>5. NoTwins'
  BY <1>1, RacesAssumption DEF NoTwins, W!InTime, W!InFlight, W!TypeOK
<1>6. SlotsRead'
  BY <1>1, RacesAssumption DEF SlotsRead, W!TypeOK
<1>7. CircuitIsRight'
  BY <1>1, RacesAssumption DEF CircuitIsRight, W!TypeOK
<1>8. OneProbe'
  BY <1>1, RacesAssumption DEF OneProbe, Probes, W!TypeOK
<1> QED  BY <1>2, <1>4, <1>5, <1>6, <1>7, <1>8 DEF WebhookInv

\* Time passes: attempts grow older, and the claims they hold with them.
LEMMA TickStep ==
    ASSUME WebhookInv, W!Tick
    PROVE  WebhookInv'
<1>1. W!TypeOK /\ RowsWait /\ NoTwins /\ SlotsRead /\ CircuitIsRight /\ OneProbe
  BY DEF WebhookInv
<1>2. ASSUME NEW s \in Slots, slot[s] \in W!Working
      PROVE  /\ W!Ages(s) \in W!Working
             /\ W!Ages(s).pc = slot[s].pc /\ W!Ages(s).d = slot[s].d
             /\ W!Ages(s).attempts = slot[s].attempts /\ W!Ages(s).overtaken = slot[s].overtaken
             /\ W!Ages(s).age < Lease => slot[s].age \in 0 .. Lease - 1 /\ W!Ages(s).age = slot[s].age + 1
             /\ slot[s].open \in {0, W!Closed} => W!Ages(s).open \in {0, W!Closed}
             /\ slot[s].open >= 0 /\ slot[s].pc # "due" => W!Ages(s).open >= 0
  <2> DEFINE a == IF slot[s].age < Lease THEN slot[s].age + 1 ELSE slot[s].age
             o == IF slot[s].open = W!Closed \/ (slot[s].pc = "due" /\ endpoint.open > 0) THEN W!Closed
                  ELSE W!Sooner(slot[s].open, 0)
  <2>1. W!Ages(s) = [slot[s] EXCEPT !.age = a, !.open = o]
    BY <1>2 DEF W!Ages, W!Working
  <2>2. slot[s].age \in 0 .. Lease /\ slot[s].open \in W!Closed .. MaxOpen
    BY <1>2 DEF W!Working
  <2>3. a \in 0 .. Lease /\ (a < Lease => slot[s].age \in 0 .. Lease - 1 /\ a = slot[s].age + 1)
    BY <2>2, RacesAssumption
  <2>4. /\ o \in W!Closed .. MaxOpen
        /\ slot[s].open \in {0, W!Closed} => o \in {0, W!Closed}
        /\ slot[s].open >= 0 /\ slot[s].pc # "due" => o >= 0
    BY <2>2, RacesAssumption DEF W!Sooner, W!Closed
  <2> HIDE DEF a, o
  <2> QED  BY <1>2, <2>1, <2>3, <2>4 DEF W!Working
<1>3. ASSUME NEW s \in Slots, W!InFlight(s)
      PROVE  slot[s] \in W!Working /\ slot'[s] = W!Ages(s) /\ slot'[s] \in W!Working /\ slot'[s].pc = slot[s].pc
  <2>1. slot[s] \in W!Working
    BY <1>1, <1>3 DEF W!TypeOK, W!InFlight, W!Idle
  <2>2. slot'[s] = W!Ages(s)
    BY <1>3 DEF W!Tick
  <2> QED  BY <1>2, <2>1, <2>2
<1>4. ASSUME NEW s \in Slots, ~W!InFlight(s)
      PROVE  slot'[s] \in {W!Idle} \cup W!Working /\ slot'[s].pc \in {"free", "dead"}
  <2>1. slot'[s] = IF slot[s] # W!Idle /\ slot[s].age = 0 THEN W!Ages(s) ELSE W!Idle
    BY <1>4 DEF W!Tick
  <2>2. slot[s] # W!Idle => slot[s] \in W!Working
    BY <1>1 DEF W!TypeOK
  <2>3. slot[s].pc \in {"free", "dead"}
    BY <1>4 DEF W!InFlight
  <2> QED  BY <1>2, <2>1, <2>2, <2>3 DEF W!Idle
<1>5. \A s \in Slots : slot'[s].pc \in {"due", "waiting", "probing"} =>
         slot[s] \in W!Working /\ slot'[s] = W!Ages(s) /\ slot'[s].pc = slot[s].pc
  BY <1>3, <1>4
<1>6. ASSUME NEW s \in Slots, W!InTime(s)'
      PROVE  /\ W!InTime(s) /\ slot'[s].d = slot[s].d /\ slot[s].d \in Deliveries
             /\ slot'[s].attempts = slot[s].attempts
             /\ slot[s].age \in 0 .. Lease - 1 /\ slot'[s].age = slot[s].age + 1
  <2>1. W!InFlight(s)
    BY <1>4, <1>6 DEF W!InTime, W!InFlight
  <2>2. slot[s] \in W!Working /\ slot'[s] = W!Ages(s)
    BY <1>3, <2>1
  <2>3. slot'[s].age < Lease /\ ~slot'[s].overtaken
    BY <1>6 DEF W!InTime
  <2>4. /\ slot'[s].d = slot[s].d /\ slot'[s].attempts = slot[s].attempts
        /\ slot'[s].overtaken = slot[s].overtaken
        /\ slot[s].age \in 0 .. Lease - 1 /\ slot'[s].age = slot[s].age + 1
    BY <1>2, <2>2, <2>3
  <2>5. slot[s].d \in Deliveries
    BY <2>2 DEF W!Working
  <2> QED  BY <2>1, <2>3, <2>4, <2>5, RacesAssumption DEF W!InTime
<1>7. ASSUME NEW d \in Deliveries
      PROVE  /\ row[d] \in W!Rows /\ row'[d] \in W!Rows
             /\ row'[d].status = row[d].status /\ row'[d].attempts = row[d].attempts
             /\ W!Pending(d) /\ row[d].next > 0 => row'[d].next = row[d].next - 1
  <2>1. row[d] \in W!Rows
    BY <1>1 DEF W!TypeOK
  <2>2. row'[d] = IF W!Pending(d) THEN [row[d] EXCEPT !.next = W!Sooner(@, -Late)] ELSE row[d]
    BY DEF W!Tick
  <2> QED  BY <2>1, <2>2, RacesAssumption DEF W!Rows, W!Sooner, W!Pending
<1>8. /\ endpoint' \in W!Endpoints /\ endpoint'.status = endpoint.status /\ endpoint'.fails = endpoint.fails
      /\ endpoint.open \in W!Closed .. MaxOpen
      /\ endpoint'.open = W!Closed <=> endpoint.open = W!Closed
      /\ endpoint.open > 0 => endpoint'.open = endpoint.open - 1
  <2>1. endpoint \in W!Endpoints
    BY <1>1 DEF W!TypeOK
  <2> DEFINE o == IF endpoint.open = W!Closed THEN endpoint.open ELSE W!Sooner(endpoint.open, 0)
             f == IF endpoint.failing \in {W!Closed, DisableAfter} THEN endpoint.failing ELSE endpoint.failing + 1
  <2>2. endpoint' = [endpoint EXCEPT !.open = o, !.failing = f]
    BY <2>1 DEF W!Tick, W!Endpoints
  <2>3. /\ o \in W!Closed .. MaxOpen /\ (o = W!Closed <=> endpoint.open = W!Closed)
        /\ (endpoint.open > 0 => o = endpoint.open - 1)
    BY <2>1, RacesAssumption DEF W!Endpoints, W!Closed, W!Sooner
  <2>4. f \in W!Closed .. DisableAfter
    BY <2>1, RacesAssumption DEF W!Endpoints, W!Closed
  <2> HIDE DEF o, f
  <2> QED  BY <2>1, <2>2, <2>3, <2>4 DEF W!Endpoints
<1>9. W!TypeOK'
  <2>1. row' \in [Deliveries -> W!Rows]
    BY <1>7 DEF W!Tick
  <2>2. slot' \in [Slots -> {W!Idle} \cup W!Working]
    <3>1. \A s \in Slots : slot'[s] \in {W!Idle} \cup W!Working
      BY <1>3, <1>4
    <3>2. slot' = [s \in Slots |-> slot'[s]]
      BY DEF W!Tick
    <3> QED  BY <3>1, <3>2
  <2>3. turns' \in 0 .. MaxTurns /\ jobs' = jobs
    BY <1>1, RacesAssumption DEF W!TypeOK, W!Tick, W!Turn
  <2> QED  BY <1>1, <1>8, <2>1, <2>2, <2>3 DEF W!TypeOK
<1>10. RowsWait'
  <2> SUFFICES ASSUME NEW s \in Slots, W!InTime(s)'  PROVE RowWaits(s)'
    BY DEF RowsWait
  <2>1. /\ W!InTime(s) /\ slot'[s].d = slot[s].d /\ slot[s].d \in Deliveries
        /\ slot'[s].attempts = slot[s].attempts
        /\ slot[s].age \in 0 .. Lease - 1 /\ slot'[s].age = slot[s].age + 1
    BY <1>6
  <2>2. RowWaits(s)
    BY <1>1, <2>1 DEF RowsWait
  <2>3. CASE row[slot[s].d].status = "none" /\ endpoint.status = "removed"
    BY <1>7, <1>8, <2>1, <2>3 DEF RowWaits
  <2>4. CASE /\ W!Pending(slot[s].d)
             /\ row[slot[s].d].next = Lease - slot[s].age /\ row[slot[s].d].attempts = slot[s].attempts
    <3>1. row[slot[s].d].next > 0
      BY <2>1, <2>4, RacesAssumption
    <3>2. /\ row'[slot[s].d].status = "PENDING" /\ row'[slot[s].d].attempts = slot'[s].attempts
          /\ row'[slot[s].d].next = row[slot[s].d].next - 1
      BY <1>7, <2>1, <2>4, <3>1 DEF W!Pending
    <3>3. row'[slot[s].d].next = Lease - slot'[s].age
      BY <2>1, <2>4, <3>2, RacesAssumption
    <3> QED  BY <2>1, <3>2, <3>3 DEF RowWaits, W!Pending
  <2> QED  BY <2>2, <2>3, <2>4 DEF RowWaits
<1>11. NoTwins'
  BY <1>1, <1>6 DEF NoTwins
<1>12. SlotsRead'
  BY <1>1, <1>2, <1>5 DEF SlotsRead
<1>13. CircuitIsRight'
  BY <1>1, <1>8 DEF CircuitIsRight
<1>14. OneProbe'
  <2>1. ASSUME NEW s \in Slots, Probes(s)'
        PROVE  Probes(s) /\ slot[s].age \in 0 .. Lease - 1 /\ slot'[s].age = slot[s].age + 1
    BY <1>2, <1>5, <2>1, RacesAssumption DEF Probes
  <2>2. ASSUME NEW s \in Slots, Probes(s)'
        PROVE  endpoint'.open = W!Closed \/ endpoint'.open >= Lease - slot'[s].age
    <3>1. endpoint.open = W!Closed \/ endpoint.open >= Lease - slot[s].age
      BY <1>1, <2>1, <2>2 DEF OneProbe
    <3> QED  BY <1>8, <2>1, <2>2, <3>1, RacesAssumption DEF W!Closed
  <2> QED  BY <1>1, <2>1, <2>2 DEF OneProbe
<1> QED  BY <1>9, <1>10, <1>11, <1>12, <1>13, <1>14 DEF WebhookInv

\* An attempt that gives up marks its row dead, one that puts it off moves it.
LEMMA GivesUpStep == ASSUME WebhookInv, NEW s \in Slots, W!InFlight(s), W!GivesUp(s) PROVE WebhookInv'
<1>1. W!TypeOK /\ slot[s] \in W!Working
  BY DEF WebhookInv, W!TypeOK, W!InFlight, W!Idle
<1> DEFINE r == W!Ended("DEAD", row[slot[s].d].attempts)
<1>2. r \in W!Rows
  BY <1>1, RacesAssumption DEF W!TypeOK, W!Rows, W!Working, W!Ended
<1>3. row' = row \/ row' = [row EXCEPT ![slot[s].d] = r]
  BY DEF W!GivesUp
<1>4. W!Rests(s) /\ jobs' \subseteq Deliveries /\ turns' = turns /\ endpoint' = endpoint
  BY <1>1 DEF W!GivesUp, W!TypeOK
<1> HIDE DEF r
<1> QED  BY <1>2, <1>3, <1>4, AttemptEnds

\* An attempt that may not call yet is queued again and costs no try.
LEMMA PutOffStep ==
    ASSUME WebhookInv, NEW s \in Slots, W!InFlight(s), NEW until \in Nat, W!PutOff(s, until)
    PROVE  WebhookInv'
<1>1. W!TypeOK /\ slot[s] \in W!Working
  BY DEF WebhookInv, W!TypeOK, W!InFlight, W!Idle
<1>2. W!Rests(s) /\ jobs' \subseteq Deliveries /\ turns' = turns /\ endpoint' = endpoint
  BY <1>1 DEF W!PutOff, W!TypeOK, W!Queues, W!Working
<1> DEFINE r == [row[slot[s].d] EXCEPT !.next = until]
<1>3. r \in W!Rows
  BY <1>1, RacesAssumption DEF W!TypeOK, W!Working, W!Rows
<1>4. row' = row \/ row' = [row EXCEPT ![slot[s].d] = r]
  BY <1>1 DEF W!PutOff
<1> HIDE DEF r
<1> QED  BY <1>2, <1>3, <1>4, AttemptEnds

\* What a failure makes of an active endpoint.
LEMMA FailureCounts ==
    ASSUME W!TypeOK
    PROVE  /\ W!AfterFailure \in W!Endpoints
           /\ W!AfterFailure.open # W!Closed <=> W!AfterFailure.fails >= Threshold
           /\ W!AfterFailure.open = W!Closed \/ W!AfterFailure.open >= Lease
<1> DEFINE fails == IF endpoint.fails < MaxFails THEN endpoint.fails + 1 ELSE MaxFails
           since == IF endpoint.failing = W!Closed THEN 0 ELSE endpoint.failing
<1>1. fails \in 0 .. MaxFails /\ since \in 0 .. DisableAfter
  BY RacesAssumption DEF W!TypeOK, W!Endpoints, W!Closed
<1>2. W!AfterFailure = [status |-> IF since >= DisableAfter THEN "DISABLED" ELSE "ACTIVE",
                        fails |-> fails, open |-> W!OpenFor(fails), failing |-> since]
  BY DEF W!AfterFailure
<1> HIDE DEF fails, since
<1>3. /\ fails < Threshold => W!OpenFor(fails) = W!Closed
      /\ fails >= Threshold => W!OpenFor(fails) \in Lease .. MaxOpen
  BY <1>1, OpensLongEnough
<1> QED  BY <1>1, <1>2, <1>3, RacesAssumption DEF W!Endpoints, W!Closed

\* The outcome, recorded: the row counts one attempt more, the endpoint one
\* failure more or a clean slate.
LEMMA RecordStep ==
    ASSUME WebhookInv, NEW s \in Slots, NEW ok \in BOOLEAN, W!Record(s, ok)
    PROVE  WebhookInv'
<1>1. W!TypeOK /\ W!InFlight(s) /\ slot[s] \in W!Working
  BY DEF WebhookInv, W!TypeOK, W!InFlight, W!Idle, W!Record, W!Sending
<1>2. W!Rests(s) /\ jobs' \subseteq Deliveries /\ turns' = turns
  BY <1>1 DEF W!Record, W!TypeOK, W!Queues, W!Working
<1>3. \/ endpoint' = endpoint
      \/ /\ endpoint.status = "ACTIVE" /\ endpoint' \in W!Endpoints
         /\ endpoint'.open # W!Closed <=> endpoint'.fails >= Threshold
         /\ endpoint'.open = W!Closed \/ endpoint'.open >= Lease
  <2>1. endpoint.status # "ACTIVE" => endpoint' = endpoint
    BY DEF W!Record
  <2>2. endpoint.status = "ACTIVE" /\ ok => endpoint' = W!AfterSuccess
    BY DEF W!Record
  <2>3. endpoint.status = "ACTIVE" /\ ~ok => endpoint' = W!AfterFailure
    BY DEF W!Record
  <2>4. /\ W!AfterSuccess \in W!Endpoints
        /\ W!AfterSuccess.open # W!Closed <=> W!AfterSuccess.fails >= Threshold
        /\ W!AfterSuccess.open = W!Closed
    BY RacesAssumption DEF W!AfterSuccess, W!Endpoints, W!Closed
  <2> QED  BY <1>1, <2>1, <2>2, <2>3, <2>4, FailureCounts
<1>4. slot[s].d \in Deliveries /\ row[slot[s].d] \in W!Rows
  BY <1>1 DEF W!TypeOK, W!Working
<1>5. CASE row[slot[s].d].status = "none"
  <2> DEFINE r == W!NoRow
  <2>1. r \in W!Rows
    BY RacesAssumption DEF W!Rows, W!NoRow
  <2>2. row' = row
    BY <1>5 DEF W!Record
  <2> HIDE DEF r
  <2> QED  BY <1>1, <1>2, <1>3, <2>1, <2>2, AttemptEnds
<1>6. CASE row[slot[s].d].status # "none"
  <2> DEFINE again == ~ok /\ slot[s].attempts + 1 < MaxAttempts
             r(delay) == [status |-> IF ok THEN "SUCCEEDED" ELSE IF again THEN "PENDING" ELSE "DEAD",
                          attempts |-> row[slot[s].d].attempts + 1, next |-> delay]
  <2>1. PICK delay \in IF again THEN Delays ELSE {0} : row' = [row EXCEPT ![slot[s].d] = r(delay)]
    BY <1>4, <1>6 DEF W!Record
  <2>2. delay \in Nat
    BY RacesAssumption
  <2>3. r(delay) \in W!Rows
    BY <1>4, <2>2, RacesAssumption DEF W!Rows
  <2> HIDE DEF r, again
  <2> QED  BY <1>1, <1>2, <1>3, <2>1, <2>3, AttemptEnds
<1> QED  BY <1>5, <1>6

\* A worker that dies leaves a slot that is nobody's, or gives it back.
LEMMA DieStep == ASSUME WebhookInv, NEW s \in Slots, W!Die(s) PROVE WebhookInv'
<1>1. W!TypeOK /\ RowsWait /\ NoTwins /\ SlotsRead /\ CircuitIsRight /\ OneProbe
  BY DEF WebhookInv
<1>2. W!InFlight(s) /\ slot[s] \in W!Working
  BY <1>1 DEF W!TypeOK, W!InFlight, W!Idle, W!Die
<1>3. slot'[s].pc \in {"free", "dead"} /\ slot'[s] \in {W!Idle} \cup W!Working
  BY <1>1, <1>2 DEF W!Die, W!TypeOK, W!Idle, W!Working
<1>4. \A t \in Slots : t # s => slot'[t] = slot[t]
  BY <1>1 DEF W!Die, W!TypeOK
<1>5. \A t \in Slots : W!InTime(t)' => t # s /\ W!InTime(t) /\ slot'[t] = slot[t]
  BY <1>3, <1>4 DEF W!InTime, W!InFlight
<1>6. endpoint' = endpoint /\ row' = row
  BY DEF W!Die
<1>7. W!TypeOK'
  <2>1. slot' \in [Slots -> {W!Idle} \cup W!Working]
    BY <1>1, <1>2 DEF W!TypeOK, W!Die, W!Working, W!Idle
  <2> QED  BY <1>1, <1>2, <2>1, RacesAssumption DEF W!TypeOK, W!Die, W!Turn, W!Queues, W!Working
<1>8. CircuitIsRight'
  BY <1>1, <1>6 DEF CircuitIsRight
<1>9. RowsWait' /\ NoTwins'
  BY <1>1, <1>5, <1>6 DEF RowsWait, RowWaits, W!Pending, NoTwins
<1>10. SlotsRead'
  BY <1>1, <1>3, <1>4 DEF SlotsRead
<1>11. OneProbe'
  <2>1. \A t \in Slots : slot'[t].pc = "probing" => slot[t].pc = "probing" /\ slot'[t] = slot[t]
    BY <1>3, <1>4
  <2> QED  BY <1>1, <1>6, <2>1 DEF OneProbe, Probes
<1> QED  BY <1>7, <1>8, <1>9, <1>10, <1>11 DEF WebhookInv

\* Every step keeps the invariant of the deliveries.
LEMMA WebhookStep == WebhookInv /\ [W!Next]_(W!webhook_vars) => WebhookInv'
<1> SUFFICES ASSUME WebhookInv, [W!Next]_(W!webhook_vars)  PROVE WebhookInv'
  OBVIOUS
<1>1. W!TypeOK
  BY DEF WebhookInv
<1>2. CASE \E d \in Deliveries : W!Consume(d) \/ W!Runs(d)
  <2>1. ASSUME NEW d \in Deliveries, W!Skip(d)  PROVE WebhookInv'
    BY <1>1, <2>1, JobsChange DEF W!Skip, W!TypeOK
  <2> QED  BY <1>2, <2>1, ConsumeStep, AttemptClaims DEF W!Runs
<1>3. CASE \E s \in Slots : W!Finishes(s) \/ W!SecretIsLost(s) \/ W!Die(s)
  <2>1. PICK s \in Slots : W!Finishes(s) \/ W!SecretIsLost(s) \/ W!Die(s)
    BY <1>3
  <2>2. CASE W!EndpointIsOff(s) \/ W!SecretIsLost(s)
    BY <2>2, GivesUpStep DEF W!EndpointIsOff, W!SecretIsLost, W!Sending, W!InFlight
  <2>3. CASE W!WaitsForCircuit(s)
    <3>1. W!InFlight(s) /\ slot[s].open \in Nat
      BY <1>1, <2>3 DEF W!WaitsForCircuit, W!InFlight, W!TypeOK, W!Idle, W!Working, WebhookInv, SlotsRead
    <3> QED  BY <2>3, <3>1, PutOffStep DEF W!WaitsForCircuit
  <2>4. CASE W!LosesProbe(s)
    <3>1. W!InFlight(s) /\ Lease - slot[s].age \in Nat
      BY <1>1, <2>4, RacesAssumption DEF W!LosesProbe, W!InFlight, W!TypeOK, W!Idle, W!Working
    <3> QED  BY <2>4, <3>1, PutOffStep DEF W!LosesProbe
  <2> QED  BY <2>1, <2>2, <2>3, <2>4, TakesProbeStep, RecordStep, DieStep DEF W!Finishes
<1>4. CASE W!Sweep
  BY <1>1, <1>4, JobsChange DEF W!Sweep, W!TypeOK
<1>5. CASE \E ds \in SUBSET Deliveries : W!Replay(ds)
  BY <1>5, ReplayStep
<1>6. CASE UNCHANGED W!webhook_vars
  BY <1>1, <1>6, JobsChange DEF W!webhook_vars, W!TypeOK
<1> QED  BY <1>2, <1>3, <1>4, <1>5, <1>6, TurnOffStep, TurnOnStep, RemoveStep, TickStep DEF W!Next

\* Webhooks: twin jobs, the sweep, replays and deaths notwithstanding, an attempt
\* that its claim still covers is its delivery's only such one and its row waits
\* for it, whatever the numbers of slots and deliveries; excepted is what an
\* attempt that outlived its claim has overtaken.
THEOREM AttemptsOwnTheirDeliveries == RacesSpec => []AttemptOwnsItsDelivery
<1>1. RacesSpec => W!Init /\ [][W!Next]_(W!webhook_vars)
  BY StepOfEach, PTL DEF RacesSpec, RacesInit
<1>2. WebhookInv => AttemptOwnsItsDelivery
  <2> SUFFICES ASSUME WebhookInv  PROVE AttemptOwnsItsDelivery
    OBVIOUS
  <2>1. ASSUME NEW s \in Slots, W!InTime(s)
        PROVE  /\ \/ row[slot[s].d].status = "none"
                  \/ /\ W!Pending(slot[s].d) /\ row[slot[s].d].next > 0
                     /\ row[slot[s].d].attempts = slot[s].attempts
               /\ \A t \in Slots \ {s} : W!InTime(t) => slot[t].d # slot[s].d
    <3>1. slot[s] \in W!Working
      BY <2>1 DEF WebhookInv, W!TypeOK, W!InTime, W!InFlight, W!Idle
    <3> QED  BY <2>1, <3>1, RacesAssumption DEF WebhookInv, RowsWait, RowWaits, NoTwins, W!InTime, W!Working
  <2> QED  BY <2>1 DEF AttemptOwnsItsDelivery, W!AttemptOwnsItsDelivery, WebhookInv
<1> QED  BY <1>1, <1>2, WebhookInit, WebhookStep, PTL

\* Webhooks: the endpoint's circuit is open exactly from the threshold on, in
\* whichever order its attempts end, and one probe at a time passes it, for as
\* long as its lease on the circuit lasts.
THEOREM OneProbeAtATime == RacesSpec => []CircuitHolds
<1>1. RacesSpec => W!Init /\ [][W!Next]_(W!webhook_vars)
  BY StepOfEach, PTL DEF RacesSpec, RacesInit
<1>2. WebhookInv => CircuitHolds
  BY DEF WebhookInv, CircuitIsRight, OneProbe, Probes, CircuitHolds, W!CircuitHolds
<1> QED  BY <1>1, <1>2, WebhookInit, WebhookStep, PTL
=============================================================================
