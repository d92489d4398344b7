----------------------------- MODULE LinksProofs -----------------------------
(* That duplicates do not chain, for any number of tickets and requests.  A    *)
(* survivor that no request has locked is kept from becoming a duplicate by    *)
(* the row that led to it, so the argument needs that row: see loose.          *)
EXTENDS Links, TLAPS

Record == [pc : {"idle", "locked", "follows", "inserts", "inserted"},
           from : Tickets \cup {None}, to : Tickets \cup {None}, at : Tickets \cup {None}]

\* A request in flight has its ends, and inserts no row of a ticket to itself.
InFlight ==
    \A r \in Requests : link[r].pc # "idle" =>
        /\ link[r].from \in Tickets /\ link[r].to \in Tickets /\ link[r].at \in Tickets
        /\ link[r].pc \in {"inserts", "inserted"} => link[r].at # link[r].from

\* Row locks keep requests apart, and a share waits for a lock.
LocksApart ==
    \A r, q \in Requests : r # q => Locked(r) \cap (Locked(q) \cup Shared(q)) = {}

\* What was found of the duplicate under its lock is still so.
StillFree ==
    \A r \in Requests :
        link[r].pc \in {"follows", "inserts", "inserted"} => ~Taken(link[r].from)

\* A survivor that was named is locked, and stays one.
TipHeld ==
    \A r \in Requests :
        link[r].pc \in {"inserts", "inserted"} /\ link[r].at = link[r].to => ~IsDuplicate(link[r].at)

IndInv == TypeOK /\ InFlight /\ LocksApart /\ StillFree /\ TipHeld /\ NoChains

---------------------------------------------------------------------------
\* Nothing is linked: the invariant holds at the start.
LEMMA InitInvariant == Init => IndInv
<1> SUFFICES ASSUME Init PROVE IndInv  OBVIOUS
<1>1. AtRest \in Record /\ AtRest.pc = "idle"
  BY DEF AtRest, Record
<1>2. TypeOK
  BY <1>1 DEF Init, TypeOK, Record
<1>3. \A r \in Requests : link[r].pc = "idle"
  BY <1>1 DEF Init
<1>4. InFlight /\ LocksApart /\ StillFree /\ TipHeld
  BY <1>3 DEF InFlight, LocksApart, StillFree, TipHeld, Locked, Shared
<1>5. NoChains
  BY DEF Init, NoChains
<1> QED  BY <1>2, <1>4, <1>5 DEF IndInv

\* A step of one request that writes no row keeps the invariant, if what it now
\* holds and knows is in order.
LEMMA RequestKeeps ==
    ASSUME IndInv, NEW r \in Requests, NEW to \in Record,
           link' = [link EXCEPT ![r] = to], UNCHANGED <<dup, loose>>,
           to.pc # "idle" =>
              /\ to.from \in Tickets /\ to.to \in Tickets /\ to.at \in Tickets
              /\ to.pc \in {"inserts", "inserted"} => to.at # to.from
              /\ \A q \in Requests \ {r} : {to.from, to.to} \cap (Locked(q) \cup Shared(q)) = {}
              /\ to.pc = "inserted" => \A q \in Requests \ {r} : to.at \notin Locked(q)
              /\ to.pc \in {"follows", "inserts", "inserted"} => ~Taken(to.from)
              /\ to.pc \in {"inserts", "inserted"} /\ to.at = to.to => ~IsDuplicate(to.at)
    PROVE  IndInv'
<1>1. link'[r] = to /\ \A q \in Requests : q # r => link'[q] = link[q]
  BY DEF IndInv, TypeOK
<1>2. TypeOK'
  BY DEF IndInv, TypeOK, Record
<1>3. InFlight'
  BY <1>1 DEF IndInv, InFlight
<1>4. /\ \A q \in Requests \ {r} : Locked(q)' = Locked(q) /\ Shared(q)' = Shared(q)
      /\ Locked(r)' = IF to.pc = "idle" THEN {} ELSE {to.from, to.to}
      /\ Shared(r)' = IF to.pc = "inserted" THEN {to.from, to.at} ELSE {}
  BY <1>1 DEF Locked, Shared
<1>5. LocksApart'
  <2> SUFFICES ASSUME NEW p \in Requests, NEW q \in Requests, p # q
               PROVE  Locked(p)' \cap (Locked(q)' \cup Shared(q)') = {}
    BY DEF LocksApart
  <2>1. CASE p = r
    BY <1>4, <2>1
  <2>2. CASE q = r
    <3>1. Locked(p)' = Locked(p)
      BY <1>4, <2>2
    <3>2. CASE to.pc = "idle"
      BY <1>4, <2>2, <3>2
    <3>3. CASE to.pc # "idle"
      <4>1. to.from \notin Locked(p) /\ to.to \notin Locked(p)
        BY <2>2, <3>3
      <4>2. to.pc = "inserted" => to.at \notin Locked(p)
        BY <2>2, <3>3
      <4> QED  BY <1>4, <2>2, <3>1, <3>3, <4>1, <4>2
    <3> QED  BY <3>2, <3>3
  <2>3. CASE p # r /\ q # r
    BY <1>4, <2>3 DEF IndInv, LocksApart
  <2> QED  BY <2>1, <2>2, <2>3
<1>6. \A a : (Taken(a)' <=> Taken(a)) /\ (IsDuplicate(a)' <=> IsDuplicate(a))
  BY DEF Taken, IsDuplicate, HasDuplicates
<1>7. StillFree'
  BY <1>1, <1>6 DEF IndInv, StillFree, Taken, IsDuplicate, HasDuplicates
<1>8. TipHeld'
  BY <1>1, <1>6 DEF IndInv, TipHeld, IsDuplicate
<1>9. NoChains'
  BY DEF IndInv, NoChains, IsDuplicate
<1> QED  BY <1>2, <1>3, <1>5, <1>7, <1>8, <1>9 DEF IndInv

\* What a request in flight holds and knows, as one fact.
LEMMA AtWork ==
    ASSUME IndInv, NEW r \in Requests, link[r].pc # "idle"
    PROVE  /\ link[r] \in Record
           /\ link[r].from \in Tickets /\ link[r].to \in Tickets /\ link[r].at \in Tickets
           /\ link[r].pc \in {"inserts", "inserted"} => link[r].at # link[r].from
           /\ \A q \in Requests \ {r} : {link[r].from, link[r].to} \cap (Locked(q) \cup Shared(q)) = {}
           /\ link[r].pc \in {"follows", "inserts", "inserted"} => ~Taken(link[r].from)
           /\ link[r].pc \in {"inserts", "inserted"} /\ link[r].at = link[r].to => ~IsDuplicate(link[r].at)
<1>1. Locked(r) = {link[r].from, link[r].to}
  BY DEF Locked
<1>2. \A q \in Requests \ {r} : {link[r].from, link[r].to} \cap (Locked(q) \cup Shared(q)) = {}
  BY <1>1 DEF IndInv, LocksApart
<1>3. link[r] \in Record
  BY DEF IndInv, TypeOK, Record
<1>4. /\ link[r].from \in Tickets /\ link[r].to \in Tickets /\ link[r].at \in Tickets
      /\ link[r].pc \in {"inserts", "inserted"} => link[r].at # link[r].from
  BY DEF IndInv, InFlight
<1>5. link[r].pc \in {"follows", "inserts", "inserted"} => ~Taken(link[r].from)
  BY DEF IndInv, StillFree
<1>6. link[r].pc \in {"inserts", "inserted"} /\ link[r].at = link[r].to => ~IsDuplicate(link[r].at)
  BY DEF IndInv, TipHeld
<1> QED  BY <1>2, <1>3, <1>4, <1>5, <1>6

\* A request that is refused, rolls back or has nothing to do lets go of all.
LEMMA RestKeeps ==
    ASSUME IndInv, NEW r \in Requests, Rests(r), UNCHANGED <<dup, loose>>
    PROVE  IndInv'
<1>1. AtRest \in Record /\ AtRest.pc = "idle"
  BY DEF AtRest, Record
<1> QED  BY <1>1, RequestKeeps DEF Rests

\* Locks are taken when nobody holds what they cover.
LEMMA LocksKeeps ==
    ASSUME IndInv, NEW r \in Requests, NEW a \in Tickets, NEW b \in Tickets, Locks(r, a, b)
    PROVE  IndInv'
<1> DEFINE to == [pc |-> "locked", from |-> a, to |-> b, at |-> b]
<1>1. to \in Record /\ to.pc = "locked" /\ to.from = a /\ to.to = b /\ to.at = b
  BY DEF Record
<1>2. link' = [link EXCEPT ![r] = to] /\ UNCHANGED <<dup, loose>>
  BY DEF Locks
<1>3. \A q \in Requests \ {r} : {a, b} \cap (Locked(q) \cup Shared(q)) = {}
  BY DEF Locks
<1> HIDE DEF to
<1> QED  BY <1>1, <1>2, <1>3, RequestKeeps

\* What is looked at under the lock is what is remembered of it.
LEMMA ChecksKeeps ==
    ASSUME IndInv, NEW r \in Requests, Checks(r)
    PROVE  IndInv'
<1>1. link[r].pc = "locked" /\ UNCHANGED <<dup, loose>>
  BY DEF Checks
<1>2. CASE Taken(link[r].from)
  BY <1>1, <1>2, RestKeeps DEF Checks
<1>3. CASE ~Taken(link[r].from)
  <2> DEFINE to == [link[r] EXCEPT !.pc = "follows"]
  <2>1. link' = [link EXCEPT ![r] = to]
    BY <1>3 DEF Checks, Goes, IndInv, TypeOK
  <2>2. /\ link[r] \in Record
        /\ link[r].from \in Tickets /\ link[r].to \in Tickets /\ link[r].at \in Tickets
        /\ \A q \in Requests \ {r} : {link[r].from, link[r].to} \cap (Locked(q) \cup Shared(q)) = {}
    BY <1>1, AtWork
  <2>3. /\ to \in Record /\ to.pc = "follows" /\ to.from = link[r].from
        /\ to.to = link[r].to /\ to.at = link[r].at
    BY <2>2 DEF Record
  <2> HIDE DEF to
  <2> QED  BY <1>1, <1>3, <2>1, <2>2, <2>3, RequestKeeps
<1> QED  BY <1>2, <1>3

\* A hop moves only how far a request has followed.
LEMMA HopsKeeps ==
    ASSUME IndInv, NEW r \in Requests, Hops(r)
    PROVE  IndInv'
<1>1. link[r].pc = "follows" /\ UNCHANGED <<dup, loose>>
  BY DEF Hops
<1>2. PICK d \in dup : link' = [link EXCEPT ![r].at = d[2]]
  BY DEF Hops
<1>3. d[2] \in Tickets
  BY DEF IndInv, TypeOK
<1> DEFINE to == [link[r] EXCEPT !.at = d[2]]
<1>4. link' = [link EXCEPT ![r] = to]
  BY <1>2 DEF IndInv, TypeOK
<1>5. /\ link[r] \in Record
      /\ link[r].from \in Tickets /\ link[r].to \in Tickets /\ ~Taken(link[r].from)
      /\ \A q \in Requests \ {r} : {link[r].from, link[r].to} \cap (Locked(q) \cup Shared(q)) = {}
  BY <1>1, AtWork
<1>6. /\ to \in Record /\ to.pc = "follows" /\ to.from = link[r].from
      /\ to.to = link[r].to /\ to.at = d[2]
  BY <1>1, <1>3, <1>5 DEF Record
<1> HIDE DEF to
<1> QED  BY <1>1, <1>3, <1>4, <1>5, <1>6, RequestKeeps

\* At the end of the way there is no duplicate.
LEMMA ArrivesKeeps ==
    ASSUME IndInv, NEW r \in Requests, Arrives(r)
    PROVE  IndInv'
<1>1. link[r].pc = "follows" /\ ~IsDuplicate(link[r].at) /\ UNCHANGED <<dup, loose>>
  BY DEF Arrives
<1>2. CASE Rests(r)
  BY <1>1, <1>2, RestKeeps
<1>3. CASE link[r].at # link[r].from /\ Goes(r, "inserts")
  <2> DEFINE to == [link[r] EXCEPT !.pc = "inserts"]
  <2>1. link' = [link EXCEPT ![r] = to]
    BY <1>3 DEF Goes, IndInv, TypeOK
  <2>2. /\ link[r] \in Record /\ ~Taken(link[r].from)
        /\ link[r].from \in Tickets /\ link[r].to \in Tickets /\ link[r].at \in Tickets
        /\ \A q \in Requests \ {r} : {link[r].from, link[r].to} \cap (Locked(q) \cup Shared(q)) = {}
    BY <1>1, AtWork
  <2>3. /\ to \in Record /\ to.pc = "inserts" /\ to.from = link[r].from
        /\ to.to = link[r].to /\ to.at = link[r].at
    BY <2>2 DEF Record
  <2> HIDE DEF to
  <2> QED  BY <1>1, <1>3, <2>1, <2>2, <2>3, RequestKeeps
<1> QED  BY <1>2, <1>3 DEF Arrives

\* The insert's share of the survivor is nobody's lock.
LEMMA InsertsKeeps ==
    ASSUME IndInv, NEW r \in Requests, Inserts(r)
    PROVE  IndInv'
<1>1. /\ link[r].pc = "inserts" /\ UNCHANGED <<dup, loose>>
      /\ \A q \in Requests \ {r} : link[r].at \notin Locked(q)
  BY DEF Inserts
<1>2. CASE Rests(r)
  BY <1>1, <1>2, RestKeeps
<1>3. CASE Goes(r, "inserted")
  <2> DEFINE to == [link[r] EXCEPT !.pc = "inserted"]
  <2>1. link' = [link EXCEPT ![r] = to]
    BY <1>3 DEF Goes, IndInv, TypeOK
  <2>2. /\ link[r] \in Record /\ ~Taken(link[r].from) /\ link[r].at # link[r].from
        /\ link[r].from \in Tickets /\ link[r].to \in Tickets /\ link[r].at \in Tickets
        /\ \A q \in Requests \ {r} : {link[r].from, link[r].to} \cap (Locked(q) \cup Shared(q)) = {}
        /\ link[r].at = link[r].to => ~IsDuplicate(link[r].at)
    BY <1>1, AtWork
  <2>3. /\ to \in Record /\ to.pc = "inserted" /\ to.from = link[r].from
        /\ to.to = link[r].to /\ to.at = link[r].at
    BY <2>2 DEF Record
  <2> HIDE DEF to
  <2> QED  BY <1>1, <2>1, <2>2, <2>3, RequestKeeps
<1> QED  BY <1>2, <1>3 DEF Inserts

---------------------------------------------------------------------------
\* The row that is committed starts at a ticket nothing points at, and ends at
\* one that is no duplicate, or is loose.
LEMMA CommitsKeeps ==
    ASSUME IndInv, NEW r \in Requests, Commits(r)
    PROVE  IndInv'
<1> DEFINE f == link[r].from
           s == link[r].at
           new == <<f, s>>
<1>1. /\ link[r].pc = "inserted" /\ dup' = dup \cup {new}
      /\ loose' = (IF Stands(r) THEN loose ELSE loose \cup {new})
      /\ link' = [link EXCEPT ![r] = AtRest]
  BY DEF Commits, Rests
<1>2. /\ f \in Tickets /\ s \in Tickets /\ s # f /\ ~Taken(f)
      /\ s = link[r].to => ~IsDuplicate(s)
  BY <1>1, AtWork
<1>3. AtRest \in Record /\ AtRest.pc = "idle"
  BY DEF AtRest, Record
<1>4. /\ link \in [Requests -> Record] /\ loose \subseteq dup
      /\ dup \subseteq Tickets \X Tickets
  BY DEF IndInv, TypeOK, Record
<1>5. link'[r].pc = "idle" /\ \A q \in Requests : q # r => link'[q] = link[q]
  BY <1>1, <1>3, <1>4
<1>6. TypeOK'
  <2>1. link' \in [Requests -> Record]
    BY <1>1, <1>3, <1>4
  <2>2. dup' \subseteq Tickets \X Tickets /\ loose' \subseteq dup'
    BY <1>1, <1>2, <1>4
  <2> QED  BY <2>1, <2>2 DEF TypeOK, Record
<1>7. Locked(r) = {f, link[r].to} /\ Shared(r) = {f, s}
  BY <1>1 DEF Locked, Shared
<1>8. /\ \A q \in Requests \ {r} : Locked(q)' = Locked(q) /\ Shared(q)' = Shared(q)
      /\ Locked(r)' = {} /\ Shared(r)' = {}
  BY <1>5 DEF Locked, Shared
<1>9. LocksApart'
  BY <1>8 DEF IndInv, LocksApart
<1>10. InFlight'
  BY <1>5 DEF IndInv, InFlight
<1>11. \A q \in Requests \ {r} : f \notin Locked(q) /\ s \notin Locked(q)
  BY <1>7 DEF IndInv, LocksApart
<1>12. \A a : a # f /\ a # s => (Taken(a)' => Taken(a))
  BY <1>1 DEF Taken, IsDuplicate, HasDuplicates
<1>13. \A a : a # f => (IsDuplicate(a)' => IsDuplicate(a))
  BY <1>1 DEF IsDuplicate
<1>14. StillFree'
  <2> SUFFICES ASSUME NEW q \in Requests, link'[q].pc \in {"follows", "inserts", "inserted"}
               PROVE  ~Taken(link[q].from)'
    BY DEF StillFree
  <2>1. q # r /\ link'[q] = link[q]
    BY <1>5
  <2>2. link[q].from \in Locked(q)
    BY <2>1 DEF Locked
  <2>3. ~Taken(link[q].from)
    BY <2>1 DEF IndInv, StillFree
  <2>4. ~Taken(link[q].from)'
    BY <1>1, <1>11, <2>1, <2>2, <2>3 DEF Taken, IsDuplicate, HasDuplicates
  <2> QED  BY <2>4
<1>15. TipHeld'
  <2> SUFFICES ASSUME NEW q \in Requests, link'[q].pc \in {"inserts", "inserted"},
                      link'[q].at = link'[q].to,
                      NEW d \in dup', d[1] = link'[q].at
               PROVE  FALSE
    BY DEF TipHeld, IsDuplicate
  <2>1. q # r /\ link'[q] = link[q]
    BY <1>5
  <2>2. link[q].at \in Locked(q) /\ ~IsDuplicate(link[q].at)
    BY <2>1 DEF Locked, IndInv, TipHeld
  <2>3. d \in dup \/ d[1] = f
    BY <1>1
  <2> QED  BY <1>11, <2>1, <2>2, <2>3 DEF IsDuplicate
<1>16. NoChains'
  <2>1. \A d \in dup : d[1] # f /\ d[2] # f
    BY <1>2 DEF Taken, IsDuplicate, HasDuplicates
  <2>2. \A d, e \in dup' : d[1] = e[1] => d = e
    BY <1>1, <2>1 DEF IndInv, NoChains
  <2>3. ASSUME NEW d \in dup' \ loose', NEW e \in dup', e[1] = d[2]
        PROVE  FALSE
    <3>1. CASE d \in dup
      <4>1. d \in dup \ loose
        BY <1>1, <2>3, <3>1
      <4>2. e \in dup \/ e = new
        BY <1>1, <2>3
      <4>3. CASE e = new
        BY <2>1, <2>3, <3>1, <4>3
      <4>4. CASE e \in dup
        BY <2>3, <4>1, <4>4 DEF IndInv, NoChains, IsDuplicate
      <4> QED  BY <4>2, <4>3, <4>4
    <3>2. CASE d \notin dup
      <4>1. d = new /\ Stands(r)
        BY <1>1, <2>3, <3>2
      <4>2. ~IsDuplicate(s)
        BY <1>2, <4>1 DEF Stands, IndInv, NoChains
      <4>3. e \in dup
        BY <1>1, <1>2, <2>3, <4>1
      <4> QED  BY <2>3, <4>1, <4>2, <4>3 DEF IsDuplicate
    <3> QED  BY <3>1, <3>2
  <2> QED  BY <2>2, <2>3 DEF NoChains, IsDuplicate
<1> QED  BY <1>6, <1>9, <1>10, <1>14, <1>15, <1>16 DEF IndInv

\* A removal makes no ticket a duplicate.
LEMMA RemovesKeeps ==
    ASSUME IndInv, NEW d \in dup, Removes(d)
    PROVE  IndInv'
<1>1. dup' = dup \ {d} /\ loose' = loose \ {d} /\ link' = link
  BY DEF Removes
<1>2. TypeOK'
  BY <1>1 DEF IndInv, TypeOK
<1>3. InFlight' /\ LocksApart'
  BY <1>1 DEF IndInv, InFlight, LocksApart, Locked, Shared
<1>4. StillFree'
  BY <1>1 DEF IndInv, StillFree, Taken, IsDuplicate, HasDuplicates
<1>5. TipHeld'
  BY <1>1 DEF IndInv, TipHeld, IsDuplicate
<1>6. NoChains'
  <2>1. dup' \ loose' \subseteq dup \ loose
    BY <1>1
  <2> QED  BY <1>1, <2>1 DEF IndInv, NoChains, IsDuplicate
<1> QED  BY <1>2, <1>3, <1>4, <1>5, <1>6 DEF IndInv

\* Every step keeps the invariant.
LEMMA NextKeeps == IndInv /\ [Next]_links_vars => IndInv'
<1> SUFFICES ASSUME IndInv, [Next]_links_vars PROVE IndInv'
  OBVIOUS
<1>1. ASSUME NEW r \in Requests, NEW a \in Tickets, NEW b \in Tickets, Locks(r, a, b) PROVE IndInv'
  BY <1>1, LocksKeeps
<1>2. ASSUME NEW r \in Requests, Checks(r) PROVE IndInv'
  BY <1>2, ChecksKeeps
<1>3. ASSUME NEW r \in Requests, Hops(r) PROVE IndInv'
  BY <1>3, HopsKeeps
<1>4. ASSUME NEW r \in Requests, Arrives(r) PROVE IndInv'
  BY <1>4, ArrivesKeeps
<1>5. ASSUME NEW r \in Requests, Inserts(r) PROVE IndInv'
  BY <1>5, InsertsKeeps
<1>6. ASSUME NEW r \in Requests, Commits(r) PROVE IndInv'
  BY <1>6, CommitsKeeps
<1>7. ASSUME NEW r \in Requests, RollsBack(r) PROVE IndInv'
  BY <1>7, RestKeeps DEF RollsBack
<1>8. ASSUME NEW d \in dup, Removes(d) PROVE IndInv'
  BY <1>8, RemovesKeeps
<1>9. CASE UNCHANGED links_vars
  BY <1>9 DEF links_vars, IndInv, TypeOK, InFlight, LocksApart, Locked, Shared, StillFree,
              TipHeld, NoChains, Taken, IsDuplicate, HasDuplicates
<1> QED
  BY <1>1, <1>2, <1>3, <1>4, <1>5, <1>6, <1>7, <1>8, <1>9 DEF Next

\* The invariant holds of every behaviour, whatever is removed under way.
THEOREM LinksInvariance == Spec => []IndInv
<1>1. Init => IndInv
  BY InitInvariant
<1>2. IndInv /\ [Next]_links_vars => IndInv'
  BY NextKeeps
<1> QED  BY <1>1, <1>2, PTL DEF Spec

\* Types: rows join tickets, requests are where they are said to be.
THEOREM LinksTypes == Spec => []TypeOK
<1>1. IndInv => TypeOK
  BY DEF IndInv
<1> QED  BY <1>1, LinksInvariance, PTL

\* Duplicates do not chain (LinksService.toSurvivor), for any number of tickets
\* and requests, but behind a row whose own way to its survivor was removed.
THEOREM DuplicatesDoNotChain == Spec => []NoChains
<1>1. IndInv => NoChains
  BY DEF IndInv
<1> QED  BY <1>1, LinksInvariance, PTL
=============================================================================
