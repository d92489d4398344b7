--------------------------- MODULE OutboxProofs ---------------------------
(***************************************************************************)
(* Proofs about Outbox, for every value of its constants.                  *)
(*                                                                         *)
(* One lemma per action shows that it keeps the inductive invariant; the   *)
(* safety properties follow, and a second group of lemmas shows that each  *)
(* step is a step of OutboxLog or invisible to it.  The two facts that     *)
(* carry the argument: a transaction still running is younger than every   *)
(* cursor and every open batch (so what it publishes is read later), and   *)
(* the advisory lock keeps the cursor where the open batch begins.         *)
(***************************************************************************)
EXTENDS Outbox, FiniteSetTheorems, TLAPS

USE OutboxAssumption DEF log, place, fate, work, admin, Position, IndInv,
    ConsumerInv, WorkerInv, BelowHorizon, Settled

\* A place in the log is a pair of naturals.
LEMMA PairFacts ==
    \A p \in Position : p[1] \in Nat /\ p[2] \in Nat /\ p = <<p[1], p[2]>>
  BY OutboxAssumption DEF Position, Event, Start

\* The order of the log is total.
LEMMA PrecedesOrder ==
    \A p, q, r \in Position :
        /\ ~Precedes(p, p)
        /\ Precedes(p, q) /\ Precedes(q, r) => Precedes(p, r)
        /\ p = q \/ Precedes(p, q) \/ Precedes(q, p)
  BY PairFacts DEF Precedes

\* The event after all others of a set is its latest.
LEMMA LatestIs ==
    ASSUME NEW S \in SUBSET Position, NEW x \in S, \A f \in S : f = x \/ Precedes(f, x)
    PROVE  Latest(S) = x
<1>1. \A y \in S : (\A f \in S : f = y \/ Precedes(f, y)) => y = x
  BY PrecedesOrder
<1> QED BY <1>1 DEF Latest

\* Within the bounds there are finitely many events.
LEMMA EventsFinite == IsFiniteSet(Event)
<1>1. 1 \in Int /\ MaxTxn \in Int /\ MaxPerTxn \in Int
  OBVIOUS
<1>2. IsFiniteSet(1 .. MaxTxn)
  BY <1>1, FS_Interval, Zenon
<1>3. IsFiniteSet(1 .. MaxPerTxn)
  BY <1>1, FS_Interval, Zenon
<1> QED  BY <1>2, <1>3, FS_Product DEF Event

\* A new transaction is younger than every cursor.
LEMMA StepBeginWrite ==
    ASSUME IndInv, BeginWrite
    PROVE  IndInv'
<1>1. TypeOK'
  BY DEF TypeOK, BeginWrite
<1>2. ConsumerInv'
  <2>1. LogInOrder'
    BY DEF TypeOK, LogInOrder, BeginWrite, Event
  <2>2. CursorInOrder'
    <3>1. \A c \in Consumers : cursor[c][1] \in Nat /\ cursor[c][1] < nextTxn
      BY PairFacts DEF TypeOK, CursorInOrder
    <3>2. \A c \in Consumers : BelowHorizon(cursor[c])'
      BY <3>1 DEF TypeOK, CursorInOrder, BeginWrite
    <3>3. \A c \in Consumers : (cursor[c][1] < nextTxn)'
      BY <3>1 DEF TypeOK, BeginWrite
    <3> QED  BY <3>2, <3>3 DEF CursorInOrder, BeginWrite
  <2>3. (LettersInOrder /\ NoSkippedEvent /\ NothingLost)'
    BY DEF LettersInOrder, NoSkippedEvent, NothingLost, BeginWrite
  <2>4. FailingIsNext'
    BY DEF TypeOK, LogInOrder, FailingIsNext, BeginWrite, Event
  <2> QED  BY <2>1, <2>2, <2>3, <2>4
<1>3. LocksHeld'
  BY DEF LocksHeld, Waiting, BeginWrite
<1>4. (BatchIsNext /\ BatchInOrder)'
  BY DEF LogInOrder, BatchIsNext, BatchInOrder, BeginWrite
<1>5. BlameInOrder'
  BY DEF LogInOrder, BlameInOrder, BeginWrite
<1>6. BudgetInOrder'
  BY DEF TypeOK, BudgetInOrder, BeginWrite
<1> QED  BY <1>1, <1>2, <1>3, <1>4, <1>5, <1>6

\* Rows of an unfinished transaction are seen by nobody.
LEMMA StepAppend ==
    ASSUME IndInv, NEW t \in running, Append(t)
    PROVE  IndInv'
<1>1. TypeOK'
  <2>1. PICK n \in 1 .. MaxPerTxn : rows' = rows \cup {<<t, n>>}
    BY DEF Append
  <2>2. t \in 1 .. MaxTxn
    BY DEF TypeOK
  <2>3. <<t, n>> \in Event
    BY <2>2 DEF Event
  <2> QED  BY <2>1, <2>3 DEF TypeOK, Append
<1>2. ConsumerInv'
  BY DEF TypeOK, LogInOrder, CursorInOrder, LettersInOrder, NoSkippedEvent,
      FailingIsNext, NothingLost, Append
<1>3. LocksHeld'
  BY DEF LocksHeld, Waiting, Append
<1>4. (BatchIsNext /\ BatchInOrder)'
  BY DEF BatchIsNext, BatchInOrder, Append
<1>5. BlameInOrder'
  BY DEF BlameInOrder, Append
<1>6. BudgetInOrder'
  BY DEF TypeOK, BudgetInOrder, Append
<1> QED  BY <1>1, <1>2, <1>3, <1>4, <1>5, <1>6

\* What a commit publishes lies after every cursor, open batch and failing event.
LEMMA StepCommit ==
    ASSUME IndInv, NEW t \in running, Commit(t)
    PROVE  IndInv'
<1>1. TypeOK'
  BY DEF TypeOK, Commit
<1>2. ConsumerInv'
  <2> DEFINE new == {e \in rows : e[1] = t}
  <2>1. new \subseteq Event /\ published' = published \cup new
    BY DEF TypeOK, Commit
  <2>2. (LogInOrder /\ CursorInOrder /\ LettersInOrder /\ NothingLost)'
    BY DEF LogInOrder, CursorInOrder, LettersInOrder, NothingLost, Commit
  <2>3. NoSkippedEvent'
    <3>1. \A c \in Consumers, e \in new : Precedes(cursor[c], e)
      BY DEF CursorInOrder, Precedes
    <3> QED  BY <2>1, <3>1 DEF NoSkippedEvent, Commit
  <2>4. FailingIsNext'
    <3>1. \A c \in Consumers, e \in new : failing[c] # None => ~Precedes(e, failing[c])
      <4> SUFFICES ASSUME NEW c \in Consumers, NEW e \in new, failing[c] # None
                   PROVE  ~Precedes(e, failing[c])
        OBVIOUS
      <4>1. failing[c] \in Event /\ failing[c][1] < e[1]
        BY DEF TypeOK, FailingIsNext
      <4> QED  BY <2>1, <4>1, PairFacts DEF Precedes
    <3> QED  BY <2>1, <3>1 DEF TypeOK, FailingIsNext, Commit
  <2> QED  BY <2>2, <2>3, <2>4
<1>3. LocksHeld'
  BY DEF LocksHeld, Waiting, Commit
<1>4. (BatchIsNext /\ BatchInOrder)'
  <2> SUFFICES ASSUME NEW d \in Drains, pc[d] = "handle"
               PROVE  \A e \in {f \in rows : f[1] = t} :
                        e \notin batch[d] /\ Precedes(Latest(batch[d]), e)
                                          /\ ~Precedes(e, Latest(batch[d]))
    BY DEF BatchIsNext, BatchInOrder, Commit
  <2>1. batch[d] \subseteq published /\ Latest(batch[d]) \in Event
    BY DEF TypeOK, BatchInOrder
  <2>2. Latest(batch[d])[1] < t
    BY DEF BatchInOrder
  <2> QED  BY <2>1, <2>2, PairFacts DEF TypeOK, LogInOrder, Precedes
<1>5. BlameInOrder'
  <2> SUFFICES ASSUME NEW d \in Drains, pc[d] = "blame",
                      NEW e \in {f \in rows : f[1] = t}
               PROVE  ~Precedes(e, Latest(batch[d]))
    BY DEF BlameInOrder, Commit
  <2>1. Latest(batch[d]) \in Event /\ Latest(batch[d])[1] < t /\ e \in Event
    BY DEF TypeOK, BlameInOrder
  <2> QED  BY <2>1, PairFacts DEF Precedes
<1>6. BudgetInOrder'
  BY DEF TypeOK, BudgetInOrder, Commit
<1> QED  BY <1>1, <1>2, <1>3, <1>4, <1>5, <1>6

\* An abort only takes away what nobody saw.
LEMMA StepAbort ==
    ASSUME IndInv, NEW t \in running, Abort(t)
    PROVE  IndInv'
<1>1. TypeOK'
  BY DEF TypeOK, Abort
<1>2. ConsumerInv'
  BY DEF LogInOrder, CursorInOrder, LettersInOrder, NoSkippedEvent, FailingIsNext,
      NothingLost, Abort
<1>3. LocksHeld'
  BY DEF LocksHeld, Waiting, Abort
<1>4. (BatchIsNext /\ BatchInOrder)'
  BY DEF BatchIsNext, BatchInOrder, Abort
<1>5. BlameInOrder'
  BY DEF BlameInOrder, Abort
<1>6. BudgetInOrder'
  BY DEF TypeOK, BudgetInOrder, Abort
<1> QED  BY <1>1, <1>2, <1>3, <1>4, <1>5, <1>6

\* A drain that finds nothing to do changes nothing.
LEMMA StepNothingToDo ==
    ASSUME IndInv, NEW d \in Drains, NothingToDo(d)
    PROVE  IndInv'
<1>1. TypeOK'
  BY DEF TypeOK, NothingToDo, Readable
<1>2. ConsumerInv'
  BY DEF LogInOrder, CursorInOrder, LettersInOrder, NoSkippedEvent, FailingIsNext,
      NothingLost, NothingToDo
<1>3. LocksHeld'
  BY DEF LocksHeld, Waiting, NothingToDo
<1>4. (BatchIsNext /\ BatchInOrder)'
  BY DEF BatchIsNext, BatchInOrder, NothingToDo
<1>5. BlameInOrder'
  BY DEF BlameInOrder, NothingToDo
<1>6. BudgetInOrder'
  BY DEF TypeOK, BudgetInOrder, NothingToDo, Readable
<1> QED  BY <1>1, <1>2, <1>3, <1>4, <1>5, <1>6

\* Parking moves the cursor by the one event that is parked.
LEMMA StepPark ==
    ASSUME IndInv, NEW d \in Drains, Park(d)
    PROVE  IndInv'
<1>1. TypeOK'
  <2>1. failing[job[d]] \in Event
    BY DEF TypeOK, Park, GivenUp, IsHead, Readable
  <2>2. (budget \in [Drains -> 0 .. Batch] /\ pc \in [Drains -> {"idle", "step", "handle", "blame"}])'
    BY DEF TypeOK, BudgetInOrder, Park, AfterStep, CanStep
  <2> QED  BY <2>1, <2>2 DEF TypeOK, Park, AfterStep
<1>2. ConsumerInv'
  <2> DEFINE c == job[d]
             e == failing[c]
  <2>1. c \in Consumers /\ e \in Event /\ e # None
    BY DEF TypeOK, Park, GivenUp, IsHead, Readable
  <2>2. /\ e \in published \ Settled(c) /\ BelowHorizon(e)
        /\ \A f \in published : Precedes(f, e) => f \in Settled(c)
    BY <2>1 DEF FailingIsNext
  <2>3. e \in rows /\ e[1] < nextTxn /\ Precedes(cursor[c], e)
    BY DEF LogInOrder, Park, GivenUp, IsHead, Readable
  <2>4. cursor' = [cursor EXCEPT ![c] = e] /\ dead' = [dead EXCEPT ![c] = @ \cup {e}]
    BY DEF Park
  <2>5. LogInOrder'
    BY DEF LogInOrder, Park
  <2>6. CursorInOrder'
    <3>1. \A k \in Consumers \ {c} : cursor'[k] = cursor[k] /\ Settled(k)' = Settled(k)
      BY <2>1, <2>4 DEF TypeOK, Park
    <3>2. cursor'[c] = e /\ Settled(c)' = Settled(c) \cup {e}
      BY <2>1, <2>4 DEF TypeOK, Park
    <3>3. \A f \in Settled(c) \cup {e} : f \in published /\ ~Precedes(e, f)
      <4> SUFFICES ASSUME NEW f \in Settled(c) PROVE f \in published /\ ~Precedes(e, f)
        BY <2>1, <2>2, PrecedesOrder
      <4>1. f \in published /\ ~Precedes(cursor[c], f)
        BY <2>1 DEF CursorInOrder
      <4> QED  BY <2>1, <2>3, <4>1, PrecedesOrder DEF TypeOK
    <3>4. UNCHANGED <<running, nextTxn, published, job>>
      BY DEF Park
    <3>5. ASSUME NEW k \in Consumers
          PROVE  (/\ BelowHorizon(cursor[k]) /\ cursor[k][1] < nextTxn
                  /\ \A f \in Settled(k) : f \in published /\ ~Precedes(cursor[k], f))'
      <4>1. CASE k = c
        BY <2>2, <2>3, <3>2, <3>3, <3>4, <4>1
      <4>2. CASE k # c
        BY <3>1, <3>4, <4>2 DEF CursorInOrder
      <4> QED  BY <4>1, <4>2
    <3> QED  BY <3>5 DEF CursorInOrder
  <2>7. LettersInOrder'
    BY <2>1, <2>2 DEF LettersInOrder, Park
  <2>8. NoSkippedEvent'
    <3>1. \A f \in published : ~Precedes(e, f) => f \in Settled(c) \cup {e}
      BY <2>1, <2>2, PrecedesOrder DEF TypeOK
    <3> QED  BY <3>1 DEF TypeOK, NoSkippedEvent, Park
  <2>9. (FailingIsNext /\ NothingLost)'
    BY <2>3 DEF TypeOK, FailingIsNext, NothingLost, Park
  <2> QED  BY <2>5, <2>6, <2>7, <2>8, <2>9
<1>3. LocksHeld'
  BY DEF LocksHeld, Waiting, Park, AfterStep, CanStep
<1>4. (BatchIsNext /\ BatchInOrder)'
  BY DEF LocksHeld, BatchIsNext, BatchInOrder, Park, AfterStep, CanStep
<1>5. BlameInOrder'
  BY DEF BlameInOrder, Park, AfterStep
<1>6. BudgetInOrder'
  BY DEF TypeOK, BudgetInOrder, Park, AfterStep
<1> QED  BY <1>1, <1>2, <1>3, <1>4, <1>5, <1>6

\* A read takes exactly the events up to its last, and they are all that can ever be there.
LEMMA StepRead ==
    ASSUME IndInv, NEW d \in Drains, Read(d)
    PROVE  IndInv'
<1>1. TypeOK'
  BY DEF TypeOK, Read, UpTo, Readable
<1>2. ConsumerInv'
  BY DEF LogInOrder, CursorInOrder, LettersInOrder, NoSkippedEvent, FailingIsNext,
      NothingLost, Read
<1>3. LocksHeld'
  BY DEF TypeOK, LocksHeld, Waiting, Read, CanStep
<1>4. (BatchIsNext /\ BatchInOrder)'
  <2> DEFINE c == job[d]
  <2>1. PICK last \in Readable(c) : batch' = [batch EXCEPT ![d] = UpTo(last, c)]
    BY DEF Read
  <2>2. c \in Consumers /\ cursor[c] \in Position /\ last \in Event /\ UpTo(last, c) \subseteq Event
    BY DEF TypeOK, Readable, UpTo
  <2>3. Readable(c) = {e \in published : Precedes(cursor[c], e) /\ BelowHorizon(e)}
    <3>1. \A e \in published : Precedes(cursor[c], e) => e \in rows
      BY <2>2 DEF NothingLost, CursorInOrder
    <3>2. \A e \in rows : BelowHorizon(e) => e \in published
      BY <2>2, PairFacts DEF TypeOK, LogInOrder
    <3> QED  BY <3>1, <3>2 DEF Readable, TypeOK, LogInOrder
  <2>4. \A e \in published : Precedes(cursor[c], e) /\ ~Precedes(last, e) => BelowHorizon(e)
    BY <2>2, <2>3, PairFacts DEF TypeOK, Precedes
  <2>5. UpTo(last, c) = {e \in published : Precedes(cursor[c], e) /\ ~Precedes(last, e)}
    BY <2>3, <2>4 DEF UpTo
  <2>6. last \in UpTo(last, c) /\ \A f \in UpTo(last, c) : f = last \/ Precedes(f, last)
    BY <2>2, PrecedesOrder DEF UpTo
  <2>7. Latest(UpTo(last, c)) = last
    BY <2>2, <2>6, LatestIs
  <2>8. batch'[d] = UpTo(last, c) /\ Latest(batch[d])' = last
    BY <2>1, <2>7 DEF TypeOK
  <2>9. /\ pc' = [pc EXCEPT ![d] = "handle"]
        /\ \A b \in Drains \ {d} : batch'[b] = batch[b]
        /\ UNCHANGED <<published, cursor, job, running>>
        /\ \A b \in Drains : pc'[b] = "handle" => b = d \/ pc[b] = "handle"
    BY <2>1 DEF TypeOK, Read
  <2>10. BatchIsNext'
    <3> SUFFICES ASSUME NEW b \in Drains, (pc[b] = "handle")'
                 PROVE  (/\ batch[b] # {}
                         /\ \A e \in published : e \in batch[b] <=>
                              Precedes(cursor[job[b]], e) /\ ~Precedes(Latest(batch[b]), e))'
      BY DEF BatchIsNext
    <3>1. CASE b = d
      BY <2>5, <2>6, <2>8, <2>9, <3>1
    <3>2. CASE b # d
      BY <2>9, <3>2 DEF BatchIsNext
    <3> QED  BY <3>1, <3>2
  <2>11. BatchInOrder'
    <3> SUFFICES ASSUME NEW b \in Drains, (pc[b] = "handle")'
                 PROVE  (/\ batch[b] \subseteq published
                         /\ Latest(batch[b]) \in batch[b]
                         /\ BelowHorizon(Latest(batch[b])))'
      BY DEF BatchInOrder
    <3>1. CASE b = d
      BY <2>3, <2>5, <2>6, <2>8, <2>9, <3>1
    <3>2. CASE b # d
      BY <2>9, <3>2 DEF BatchInOrder
    <3> QED  BY <3>1, <3>2
  <2> QED  BY <2>10, <2>11
<1>5. BlameInOrder'
  BY DEF BlameInOrder, Read, CanStep
<1>6. BudgetInOrder'
  <2> DEFINE c == job[d]
  <2>1. PICK last \in Readable(c) :
            /\ IsRead(last, c, IF failures[c] > 0 \/ single[d] THEN 1 ELSE Batch)
            /\ batch' = [batch EXCEPT ![d] = UpTo(last, c)]
    BY DEF Read
  <2>2. ASSUME single[d] PROVE Cardinality(UpTo(last, c)) = 1
    <3>1. last \in UpTo(last, c) /\ UpTo(last, c) \subseteq Event
      BY PrecedesOrder DEF TypeOK, Readable, UpTo
    <3>2. Cardinality(UpTo(last, c)) \in Nat /\ Cardinality(UpTo(last, c)) # 0
      BY <3>1, EventsFinite, FS_Subset, FS_CardinalityType, FS_EmptySet
    <3> QED  BY <2>1, <2>2, <3>2 DEF IsRead
  <2> QED  BY <2>1, <2>2 DEF TypeOK, BudgetInOrder, Read, CanStep
<1> QED  BY <1>1, <1>2, <1>3, <1>4, <1>5, <1>6

\* A commit moves the cursor exactly past what was handled.
LEMMA StepHandled ==
    ASSUME IndInv, NEW d \in Drains, Handled(d)
    PROVE  IndInv'
<1>1. TypeOK'
  <2>1. Latest(batch[d]) \in Event /\ job[d] \in Consumers
    BY DEF TypeOK, BatchInOrder, Handled
  <2>2. (budget \in [Drains -> 0 .. Batch] /\ pc \in [Drains -> {"idle", "step", "handle", "blame"}])'
    BY DEF TypeOK, BudgetInOrder, Handled, AfterStep
  <2>3. applied' \in [Consumers -> [Event -> Nat]]
    BY <2>1 DEF TypeOK, Handled
  <2> QED  BY <2>1, <2>2, <2>3 DEF TypeOK, Handled
<1>2. ConsumerInv'
  <2> DEFINE c == job[d]
             last == Latest(batch[d])
  <2>1. /\ c \in Consumers /\ last \in published /\ last \in Event
        /\ BelowHorizon(last) /\ last[1] < nextTxn /\ batch[d] \subseteq published
    BY DEF TypeOK, BatchInOrder, LogInOrder, Handled
  <2>2. \A e \in published : e \in batch[d] <=> Precedes(cursor[c], e) /\ ~Precedes(last, e)
    BY DEF BatchIsNext, Handled
  <2>3. /\ cursor' = [cursor EXCEPT ![c] = last]
        /\ UNCHANGED <<log, dead, replayed, job>>
        /\ failing' = [failing EXCEPT ![c] = None]
    BY DEF Handled
  <2>4. /\ Settled(c)' = Settled(c) \cup batch[d]
        /\ \A k \in Consumers \ {c} : Settled(k)' = Settled(k) /\ cursor'[k] = cursor[k] /\ applied'[k] = applied[k]
        /\ \A e \in Event \ batch[d] : applied'[c][e] = applied[c][e]
    BY <2>1, <2>3 DEF TypeOK, Handled
  <2>5. \A e \in batch[d] : e \notin Settled(c)
    BY <2>1, <2>2 DEF CursorInOrder
  <2>6. LogInOrder'
    BY <2>3 DEF LogInOrder
  <2>7. CursorInOrder'
    <3>1. \A f \in Settled(c) \cup batch[d] : f \in published /\ ~Precedes(last, f)
      <4>1. \A f \in Settled(c) : f \in published /\ ~Precedes(cursor[c], f)
        BY <2>1 DEF CursorInOrder
      <4>2. Precedes(cursor[c], last)
        BY <2>1, <2>2 DEF BatchInOrder, Handled
      <4> QED  BY <2>1, <2>2, <4>1, <4>2, PrecedesOrder DEF TypeOK
    <3>2. ASSUME NEW k \in Consumers
          PROVE  (/\ BelowHorizon(cursor[k]) /\ cursor[k][1] < nextTxn
                  /\ \A f \in Settled(k) : f \in published /\ ~Precedes(cursor[k], f))'
      <4>1. CASE k = c
        BY <2>1, <2>3, <2>4, <3>1, <4>1 DEF TypeOK
      <4>2. CASE k # c
        BY <2>3, <2>4, <4>2 DEF CursorInOrder
      <4> QED  BY <4>1, <4>2
    <3> QED  BY <3>2 DEF CursorInOrder
  <2>8. LettersInOrder'
    <3> SUFFICES ASSUME NEW k \in Consumers
                 PROVE  (/\ replayed[k] \subseteq dead[k]
                         /\ \A e \in dead[k] : applied[k][e] > 0 <=> e \in replayed[k])'
      BY DEF LettersInOrder
    <3>1. CASE k = c
      <4>1. \A e \in dead[c] : e \in Event \ batch[d]
        BY <2>1, <2>5 DEF TypeOK
      <4> QED  BY <2>3, <2>4, <4>1 DEF LettersInOrder
    <3>2. CASE k # c
      BY <2>3, <2>4, <3>2 DEF LettersInOrder
    <3> QED  BY <3>1, <3>2
  <2>9. NoSkippedEvent'
    BY <2>2, <2>3, <2>4 DEF NoSkippedEvent
  <2>10. FailingIsNext'
    <3> SUFFICES ASSUME NEW k \in Consumers \ {c}, failing[k] # None
                 PROVE  (/\ failing[k] \in published \ Settled(k)
                         /\ BelowHorizon(failing[k])
                         /\ \A e \in published : Precedes(e, failing[k]) => e \in Settled(k))'
      BY <2>1, <2>3 DEF TypeOK, FailingIsNext
    <3> QED  BY <2>1, <2>3, <2>4 DEF TypeOK, FailingIsNext
  <2>11. NothingLost'
    <3>1. ASSUME NEW k \in Consumers PROVE Settled(k) \subseteq Settled(k)'
      <4>1. CASE k = c
        BY <2>3, <2>4, <4>1
      <4>2. CASE k # c
        BY <2>4, <4>2
      <4> QED  BY <4>1, <4>2
    <3> QED  BY <2>3, <3>1 DEF NothingLost
  <2> QED  BY <2>6, <2>7, <2>8, <2>9, <2>10, <2>11
<1>3. LocksHeld'
  BY DEF TypeOK, LocksHeld, Waiting, Handled, AfterStep
<1>4. (BatchIsNext /\ BatchInOrder)'
  BY DEF TypeOK, LocksHeld, BatchIsNext, BatchInOrder, Handled, AfterStep
<1>5. BlameInOrder'
  BY DEF TypeOK, BlameInOrder, Handled, AfterStep
<1>6. BudgetInOrder'
  BY DEF TypeOK, BudgetInOrder, Handled, AfterStep
<1> QED  BY <1>1, <1>2, <1>3, <1>4, <1>5, <1>6

\* A batch that fails is rolled back whole.
LEMMA StepBatchFailed ==
    ASSUME IndInv, NEW d \in Drains, BatchFailed(d)
    PROVE  IndInv'
<1>1. TypeOK'
  <2>1. hiccups' = hiccups \/ (hiccups < MaxHiccups /\ hiccups' = hiccups + 1)
    BY DEF BatchFailed, Throws
  <2> QED  BY <2>1 DEF TypeOK, BatchFailed
<1>2. ConsumerInv'
  BY DEF LogInOrder, CursorInOrder, LettersInOrder, NoSkippedEvent, FailingIsNext,
      NothingLost, BatchFailed
<1>3. LocksHeld'
  BY DEF TypeOK, LocksHeld, Waiting, BatchFailed
<1>4. (BatchIsNext /\ BatchInOrder)'
  BY DEF TypeOK, BatchIsNext, BatchInOrder, BatchFailed
<1>5. BlameInOrder'
  BY DEF BlameInOrder, BatchFailed
<1>6. BudgetInOrder'
  BY DEF TypeOK, BudgetInOrder, BatchFailed, Throws
<1> QED  BY <1>1, <1>2, <1>3, <1>4, <1>5, <1>6

\* An event that fails alone is the next one.
LEMMA StepEventFailed ==
    ASSUME IndInv, NEW d \in Drains, EventFailed(d)
    PROVE  IndInv'
<1>1. TypeOK'
  BY DEF TypeOK, EventFailed, Throws
<1>2. ConsumerInv'
  BY DEF LogInOrder, CursorInOrder, LettersInOrder, NoSkippedEvent, FailingIsNext,
      NothingLost, EventFailed
<1>3. LocksHeld'
  BY DEF TypeOK, LocksHeld, Waiting, EventFailed
<1>4. (BatchIsNext /\ BatchInOrder)'
  BY DEF BatchIsNext, BatchInOrder, EventFailed
<1>5. BlameInOrder'
  <2> DEFINE e == Latest(batch[d])
  <2>1. e \in published /\ BelowHorizon(e) /\ batch[d] = {e}
    BY DEF BatchInOrder, EventFailed
  <2>2. \A f \in published : Precedes(f, e) => f \in Settled(job[d])
    <3> SUFFICES ASSUME NEW f \in published, Precedes(f, e), Precedes(cursor[job[d]], f)
                 PROVE  FALSE
      BY DEF TypeOK, NoSkippedEvent
    <3>1. f \in batch[d]
      <4>1. ~Precedes(e, f)
        BY <2>1, PrecedesOrder DEF TypeOK
      <4> QED  BY <4>1 DEF BatchIsNext, EventFailed
    <3> QED  BY <2>1, <3>1, PrecedesOrder DEF TypeOK
  <2>3. /\ pc' = [pc EXCEPT ![d] = "blame"]
        /\ UNCHANGED <<published, running, job, batch, applied, dead>>
    BY DEF EventFailed
  <2> QED  BY <2>1, <2>2, <2>3 DEF TypeOK, BlameInOrder
<1>6. BudgetInOrder'
  BY DEF TypeOK, BudgetInOrder, EventFailed, Throws
<1> QED  BY <1>1, <1>2, <1>3, <1>4, <1>5, <1>6

\* A recorded failure is of the next event: the cursor is still before it.
LEMMA StepRecordFailure ==
    ASSUME IndInv, NEW d \in Drains, RecordFailure(d)
    PROVE  IndInv'
<1>1. TypeOK'
  BY DEF TypeOK, RecordFailure, StillAhead
<1>2. ConsumerInv'
  BY DEF LogInOrder, CursorInOrder, LettersInOrder, NoSkippedEvent, FailingIsNext,
      NothingLost, BlameInOrder, RecordFailure, StillAhead
<1>3. LocksHeld'
  BY DEF LocksHeld, Waiting, RecordFailure
<1>4. (BatchIsNext /\ BatchInOrder)'
  BY DEF BatchIsNext, BatchInOrder, RecordFailure
<1>5. BlameInOrder'
  BY DEF TypeOK, BlameInOrder, RecordFailure
<1>6. BudgetInOrder'
  BY DEF TypeOK, BudgetInOrder, RecordFailure, StillAhead
<1> QED  BY <1>1, <1>2, <1>3, <1>4, <1>5, <1>6

\* A failure that comes too late is dropped.
LEMMA StepRecordNothing ==
    ASSUME IndInv, NEW d \in Drains, RecordNothing(d)
    PROVE  IndInv'
<1>1. TypeOK'
  BY DEF TypeOK, RecordNothing, StillAhead
<1>2. ConsumerInv'
  BY DEF LogInOrder, CursorInOrder, LettersInOrder, NoSkippedEvent, FailingIsNext,
      NothingLost, RecordNothing
<1>3. LocksHeld'
  BY DEF LocksHeld, Waiting, RecordNothing
<1>4. (BatchIsNext /\ BatchInOrder)'
  BY DEF BatchIsNext, BatchInOrder, RecordNothing
<1>5. BlameInOrder'
  BY DEF TypeOK, BlameInOrder, RecordNothing
<1>6. BudgetInOrder'
  BY DEF TypeOK, BudgetInOrder, RecordNothing, StillAhead
<1> QED  BY <1>1, <1>2, <1>3, <1>4, <1>5, <1>6

\* A drain that dies leaves nothing behind, not even the lock.
LEMMA StepDrainDies ==
    ASSUME IndInv, NEW d \in Drains, DrainDies(d)
    PROVE  IndInv'
<1>1. TypeOK'
  BY DEF TypeOK, DrainDies
<1>2. ConsumerInv'
  BY DEF LogInOrder, CursorInOrder, LettersInOrder, NoSkippedEvent, FailingIsNext,
      NothingLost, DrainDies
<1>3. LocksHeld'
  BY DEF TypeOK, LocksHeld, Waiting, DrainDies
<1>4. (BatchIsNext /\ BatchInOrder)'
  BY DEF TypeOK, BatchIsNext, BatchInOrder, DrainDies
<1>5. BlameInOrder'
  BY DEF TypeOK, BlameInOrder, DrainDies
<1>6. BudgetInOrder'
  BY DEF TypeOK, BudgetInOrder, DrainDies
<1> QED  BY <1>1, <1>2, <1>3, <1>4, <1>5, <1>6

\* A drain starts with its whole budget.
LEMMA StepStartDrain ==
    ASSUME IndInv, NEW d \in Drains, NEW c \in Consumers, StartDrain(d, c)
    PROVE  IndInv'
<1>1. TypeOK'
  BY DEF TypeOK, StartDrain
<1>2. ConsumerInv'
  BY DEF LogInOrder, CursorInOrder, LettersInOrder, NoSkippedEvent, FailingIsNext,
      NothingLost, StartDrain
<1>3. LocksHeld'
  BY DEF LocksHeld, Waiting, StartDrain
<1>4. (BatchIsNext /\ BatchInOrder)'
  BY DEF BatchIsNext, BatchInOrder, StartDrain
<1>5. BlameInOrder'
  BY DEF BlameInOrder, StartDrain
<1>6. BudgetInOrder'
  BY DEF TypeOK, BudgetInOrder, StartDrain
<1> QED  BY <1>1, <1>2, <1>3, <1>4, <1>5, <1>6

\* Time alone moves nothing.
LEMMA StepBackoffEnds ==
    ASSUME IndInv, NEW c \in Consumers, BackoffEnds(c)
    PROVE  IndInv'
<1>1. TypeOK'
  BY DEF TypeOK, BackoffEnds
<1>2. ConsumerInv'
  BY DEF LogInOrder, CursorInOrder, LettersInOrder, NoSkippedEvent, FailingIsNext,
      NothingLost, BackoffEnds
<1>3. LocksHeld'
  BY DEF LocksHeld, Waiting, BackoffEnds
<1>4. (BatchIsNext /\ BatchInOrder)'
  BY DEF BatchIsNext, BatchInOrder, BackoffEnds
<1>5. BlameInOrder'
  BY DEF BlameInOrder, BackoffEnds
<1>6. BudgetInOrder'
  BY DEF TypeOK, BudgetInOrder, BackoffEnds
<1> QED  BY <1>1, <1>2, <1>3, <1>4, <1>5, <1>6

\* The row lock is exclusive.
LEMMA StepReplayLocks ==
    ASSUME IndInv, NEW r \in Replays, NEW c \in Consumers, NEW e \in Event, ReplayLocks(r, c, e)
    PROVE  IndInv'
<1>1. TypeOK'
  BY DEF TypeOK, ReplayLocks, Waiting
<1>2. ConsumerInv'
  BY DEF LogInOrder, CursorInOrder, LettersInOrder, NoSkippedEvent, FailingIsNext,
      NothingLost, ReplayLocks
<1>3. LocksHeld'
  <2>1. target' = [target EXCEPT ![r] = <<c, e>>] /\ rpc' = [rpc EXCEPT ![r] = "locked"]
    BY DEF ReplayLocks
  <2>2. <<c, e>> # None /\ e \in Waiting(c) /\ \A q \in Replays : target[q] # <<c, e>>
    BY DEF ReplayLocks
  <2>3. \A k \in Consumers : Waiting(k)' = Waiting(k)
    BY DEF Waiting, ReplayLocks
  <2>4. UNCHANGED <<lock, pc, job>>
    BY DEF ReplayLocks
  <2>5. \A q \in Replays : rpc[q] # "idle" => target[q] \in Consumers \X Event
    BY DEF TypeOK, LocksHeld
  <2>6. target[r] = None /\ rpc[r] = "idle"
    BY DEF LocksHeld, ReplayLocks
  <2>7. ASSUME NEW q \in Replays
        PROVE  (/\ rpc[q] = "idle" <=> target[q] = None
                /\ rpc[q] = "handle" => lock[target[q][1]] = q
                /\ rpc[q] # "idle" => target[q][2] \in Waiting(target[q][1])
                /\ \A k \in Replays : k # q /\ target[k] = target[q] => target[q] = None)'
    <3>1. CASE q = r
      BY <2>1, <2>2, <2>3, <3>1 DEF TypeOK
    <3>2. CASE q # r
      <4>1. target'[q] = target[q] /\ rpc'[q] = rpc[q]
        BY <2>1, <3>2 DEF TypeOK
      <4>2. rpc[q] # "idle" => target[q][1] \in Consumers
        BY <2>5
      <4>3. \A k \in Replays : k # q /\ target'[k] = target[q] => target[q] = None
        <5>1. target'[r] # target[q]
          BY <2>1, <2>2 DEF TypeOK
        <5>2. \A k \in Replays \ {r} : target'[k] = target[k]
          BY <2>1 DEF TypeOK
        <5> QED  BY <5>1, <5>2 DEF LocksHeld
      <4> QED  BY <2>3, <2>4, <4>1, <4>2, <4>3 DEF LocksHeld
    <3> QED  BY <3>1, <3>2
  <2> QED  BY <2>4, <2>7 DEF LocksHeld
<1>4. (BatchIsNext /\ BatchInOrder)'
  BY DEF BatchIsNext, BatchInOrder, ReplayLocks
<1>5. BlameInOrder'
  BY DEF BlameInOrder, ReplayLocks
<1>6. BudgetInOrder'
  BY DEF TypeOK, BudgetInOrder, ReplayLocks, Waiting
<1> QED  BY <1>1, <1>2, <1>3, <1>4, <1>5, <1>6

\* A replay takes the lock only when it is free.
LEMMA StepReplayRuns ==
    ASSUME IndInv, NEW r \in Replays, ReplayRuns(r)
    PROVE  IndInv'
<1>1. TypeOK'
  BY DEF TypeOK, ReplayRuns
<1>2. ConsumerInv'
  BY DEF LogInOrder, CursorInOrder, LettersInOrder, NoSkippedEvent, FailingIsNext,
      NothingLost, ReplayRuns
<1>3. LocksHeld'
  BY DEF TypeOK, LocksHeld, Waiting, ReplayRuns
<1>4. (BatchIsNext /\ BatchInOrder)'
  BY DEF BatchIsNext, BatchInOrder, ReplayRuns
<1>5. BlameInOrder'
  BY DEF BlameInOrder, ReplayRuns
<1>6. BudgetInOrder'
  BY DEF TypeOK, BudgetInOrder, ReplayRuns
<1> QED  BY <1>1, <1>2, <1>3, <1>4, <1>5, <1>6

\* A replayed letter takes effect and leaves the waiting ones together.
LEMMA StepReplaySucceeds ==
    ASSUME IndInv, NEW r \in Replays, ReplaySucceeds(r)
    PROVE  IndInv'
<1>1. TypeOK'
  <2>1. target[r] \in Consumers \X Event
    BY DEF TypeOK, LocksHeld, ReplaySucceeds
  <2> QED  BY <2>1 DEF TypeOK, ReplaySucceeds, ReplayEnds
<1>2. ConsumerInv'
  <2> DEFINE c == target[r][1]
             e == target[r][2]
  <2>1. c \in Consumers /\ e \in Event /\ e \in dead[c] /\ e \notin replayed[c]
    BY DEF TypeOK, LocksHeld, Waiting, ReplaySucceeds
  <2>2. /\ applied' = [applied EXCEPT ![c][e] = @ + 1]
        /\ replayed' = [replayed EXCEPT ![c] = @ \cup {e}]
        /\ UNCHANGED <<log, place, dead>>
    BY DEF ReplaySucceeds
  <2>3. \A k \in Consumers : Settled(k)' = Settled(k)
    BY <2>1, <2>2 DEF TypeOK
  <2>4. (LogInOrder /\ CursorInOrder /\ NoSkippedEvent /\ FailingIsNext /\ NothingLost)'
    BY <2>2, <2>3 DEF LogInOrder, CursorInOrder, NoSkippedEvent, FailingIsNext,
        NothingLost
  <2>5. LettersInOrder'
    BY <2>1, <2>2 DEF TypeOK, LettersInOrder
  <2> QED  BY <2>4, <2>5
<1>3. LocksHeld'
  <2>1. \A q \in Replays : rpc[q] # "idle" => target[q] \in Consumers \X Event
    BY DEF TypeOK, LocksHeld
  <2>2. target[r] \in Consumers \X Event /\ \A q \in Replays \ {r} : rpc[q] # "idle" => target[q] # target[r]
    BY <2>1 DEF LocksHeld, ReplaySucceeds
  <2>3. ASSUME NEW q \in Replays \ {r}, rpc[q] # "idle"
        PROVE  (target[q][2] \in Waiting(target[q][1]))'
    <3>1. target'[q] = target[q] /\ target[q][2] \in Waiting(target[q][1])
      BY <2>3 DEF TypeOK, LocksHeld, ReplaySucceeds, ReplayEnds
    <3>2. target[q] # target[r] /\ target[q] \in Consumers \X Event
      BY <2>1, <2>2, <2>3
    <3>3. target[q][1] # target[r][1] \/ target[q][2] # target[r][2]
      BY <2>2, <3>2
    <3>4. /\ replayed' = [replayed EXCEPT ![target[r][1]] = @ \cup {target[r][2]}]
          /\ UNCHANGED dead
      BY DEF ReplaySucceeds
    <3> QED  BY <3>1, <3>3, <3>4 DEF Waiting
  <2> QED  BY <2>3 DEF TypeOK, LocksHeld, ReplaySucceeds, ReplayEnds
<1>4. (BatchIsNext /\ BatchInOrder)'
  BY DEF BatchIsNext, BatchInOrder, ReplaySucceeds
<1>5. BlameInOrder'
  BY DEF TypeOK, BlameInOrder, ReplaySucceeds
<1>6. BudgetInOrder'
  BY DEF TypeOK, BudgetInOrder, ReplaySucceeds, ReplayEnds
<1> QED  BY <1>1, <1>2, <1>3, <1>4, <1>5, <1>6

\* A failed replay leaves the letter as it was.
LEMMA StepReplayFails ==
    ASSUME IndInv, NEW r \in Replays, ReplayFails(r)
    PROVE  IndInv'
<1>1. TypeOK'
  BY DEF TypeOK, ReplayFails, ReplayEnds, LocksHeld
<1>2. ConsumerInv'
  BY DEF LogInOrder, CursorInOrder, LettersInOrder, NoSkippedEvent, FailingIsNext,
      NothingLost, ReplayFails
<1>3. LocksHeld'
  BY DEF TypeOK, LocksHeld, Waiting, ReplayFails, ReplayEnds
<1>4. (BatchIsNext /\ BatchInOrder)'
  BY DEF BatchIsNext, BatchInOrder, ReplayFails
<1>5. BlameInOrder'
  BY DEF BlameInOrder, ReplayFails
<1>6. BudgetInOrder'
  BY DEF TypeOK, BudgetInOrder, ReplayFails, ReplayEnds
<1> QED  BY <1>1, <1>2, <1>3, <1>4, <1>5, <1>6

\* A retired event is settled by every consumer and no letter's.
LEMMA StepRetire ==
    ASSUME IndInv, NEW e \in rows, Retire(e)
    PROVE  IndInv'
<1>1. TypeOK'
  BY DEF TypeOK, Retire, ReadByAll
<1>2. ConsumerInv'
  BY PairFacts, PrecedesOrder
    DEF LogInOrder, CursorInOrder, LettersInOrder, NoSkippedEvent,
        FailingIsNext, NothingLost, TypeOK, LocksHeld, BatchIsNext, Retire, ReadByAll
<1>3. LocksHeld'
  BY DEF TypeOK, LettersInOrder, LocksHeld, Waiting, Retire
<1>4. (BatchIsNext /\ BatchInOrder)'
  BY DEF TypeOK, LocksHeld, BatchIsNext, BatchInOrder, Retire, ReadByAll
<1>5. BlameInOrder'
  BY DEF TypeOK, BlameInOrder, Retire, ReadByAll
<1>6. BudgetInOrder'
  BY DEF TypeOK, BudgetInOrder, Retire, ReadByAll
<1> QED  BY <1>1, <1>2, <1>3, <1>4, <1>5, <1>6

-----------------------------------------------------------------------------
(* The invariant holds of every behaviour.                                 *)

\* The invariant holds at the start.
LEMMA IndInvInit == Init => IndInv
<1> SUFFICES ASSUME Init PROVE IndInv
  OBVIOUS
<1>1. TypeOK
  BY DEF Init, TypeOK
<1>2. ConsumerInv
  BY PairFacts DEF Init, LogInOrder, CursorInOrder, LettersInOrder,
    NoSkippedEvent, FailingIsNext, NothingLost, Start
<1>3. WorkerInv
  BY DEF Init, LocksHeld, BatchIsNext, BatchInOrder, BlameInOrder, BudgetInOrder
<1> QED  BY <1>1, <1>2, <1>3

\* ... when nothing happens ...
LEMMA IndInvStutter == IndInv /\ UNCHANGED vars => IndInv'
<1> SUFFICES ASSUME IndInv, UNCHANGED vars PROVE IndInv'
  OBVIOUS
<1>1. (TypeOK /\ ConsumerInv)'
  BY DEF vars, TypeOK, LogInOrder, CursorInOrder, LettersInOrder,
    NoSkippedEvent, FailingIsNext, NothingLost
<1>2. WorkerInv'
  BY DEF vars, LocksHeld, BatchIsNext, BatchInOrder, BlameInOrder, BudgetInOrder,
        Waiting
<1> QED  BY <1>1, <1>2

\* ... and after every step.
LEMMA IndInvNext == IndInv /\ [Next]_vars => IndInv'
<1> SUFFICES ASSUME IndInv, [Next]_vars PROVE IndInv'
  OBVIOUS
<1>1. CASE Writer
  BY <1>1, StepBeginWrite, StepAppend, StepCommit, StepAbort DEF Writer
<1>2. ASSUME NEW d \in Drains, DrainStep(d) PROVE IndInv'
  BY <1>2, StepNothingToDo, StepPark, StepRead, StepHandled, StepBatchFailed,
    StepEventFailed, StepRecordFailure, StepRecordNothing DEF DrainStep
<1>3. ASSUME NEW d \in Drains, DrainDies(d) \/ \E c \in Consumers : StartDrain(d, c)
      PROVE  IndInv'
  BY <1>3, StepDrainDies, StepStartDrain
<1>4. ASSUME NEW c \in Consumers, BackoffEnds(c) PROVE IndInv'
  BY <1>4, StepBackoffEnds
<1>5. ASSUME NEW r \in Replays, ReplayStep(r) PROVE IndInv'
  BY <1>5, StepReplayLocks, StepReplayRuns, StepReplaySucceeds, StepReplayFails
    DEF ReplayStep
<1>6. ASSUME NEW e \in rows, Retire(e) PROVE IndInv'
  BY <1>6, StepRetire
<1>7. CASE UNCHANGED vars
  BY <1>7, IndInvStutter
<1> QED  BY <1>1, <1>2, <1>3, <1>4, <1>5, <1>6, <1>7 DEF Next

\* The inductive invariant holds in every reachable state, for any number of
\* consumers, drains, administrators, transactions and events.
THEOREM Invariance == Spec => []IndInv
  BY IndInvInit, IndInvNext, PTL DEF Spec

\* Every variable keeps its type.
THEOREM TypeCorrect == Spec => []TypeOK
<1>1. IndInv => TypeOK
  OBVIOUS
<1> QED  BY <1>1, Invariance, PTL

\* No consumer's cursor ever moves past an event that commits later.
THEOREM NothingSkipped == Spec => []NoSkippedEvent
<1>1. IndInv => NoSkippedEvent
  OBVIOUS
<1> QED  BY <1>1, Invariance, PTL

\* What an open handler holds stays exactly what follows the cursor.
THEOREM BatchStaysNext == Spec => []BatchIsNext
<1>1. IndInv => BatchIsNext
  OBVIOUS
<1> QED  BY <1>1, Invariance, PTL

\* A failure is only ever held against the consumer's next event.
THEOREM FailingStaysNext == Spec => []FailingIsNext
<1>1. IndInv => FailingIsNext
  OBVIOUS
<1> QED  BY <1>1, Invariance, PTL

\* Retention never deletes an event that a consumer or a dead letter needs.
THEOREM RetentionIsSafe == Spec => []NothingLost
<1>1. IndInv => NothingLost
  OBVIOUS
<1> QED  BY <1>1, Invariance, PTL

-----------------------------------------------------------------------------
(* The outbox implements its promise.                                      *)

\* What the promise counts as seen is what the outbox has settled.
LEMMA SeenIsSettled == IndInv => \A c \in Consumers : Log!Seen(c) = Settled(c)
<1> SUFFICES ASSUME IndInv, NEW c \in Consumers
             PROVE  \A e : e \in Log!Seen(c) <=> e \in Settled(c)
  OBVIOUS
<1>1. \A e \in dead[c] : e \in Event /\ (applied[c][e] > 0 <=> e \in replayed[c])
  BY DEF TypeOK, LettersInOrder
<1>2. \A e : e \in Log!Seen(c) <=> (e \in Event /\ applied[c][e] > 0) \/ e \in Waiting(c)
  BY DEF Log!Seen, Log!Done
<1>3. \A e : e \in Settled(c) <=> (e \in Event /\ applied[c][e] > 0) \/ e \in dead[c]
  OBVIOUS
<1> QED  BY <1>1, <1>2, <1>3 DEF Waiting

\* The order of positions is the one of the promise.
LEMMA BeforeIsPrecedes == \A p, q \in Position : Log!Before(p, q) <=> Precedes(p, q)
  BY DEF Log!Before, Precedes

\* What none of the promise's variables show is a stutter of the promise.
LEMMA Unseen == UNCHANGED <<published, applied, dead, replayed>> => UNCHANGED Log!vars
  BY DEF Log!vars, Waiting

\* A commit publishes its events after everything any consumer has seen.
LEMMA CommitPublishes ==
    ASSUME IndInv, NEW t \in running, Commit(t)
    PROVE  Log!Next
<1> DEFINE new == {e \in rows : e[1] = t}
<1>1. new \in SUBSET (Event \ published)
  BY DEF TypeOK, LogInOrder
<1>2. \A e \in new, c \in Consumers : \A f \in Log!Seen(c) : Log!Before(f, e)
  <2> SUFFICES ASSUME NEW e \in new, NEW c \in Consumers, NEW f \in Settled(c)
               PROVE  Precedes(f, e)
    <3>1. \A e \in new, c \in Consumers : \A f \in Settled(c) :
              e \in Position /\ f \in Position
      BY DEF TypeOK
    <3> QED  BY <3>1, SeenIsSettled, BeforeIsPrecedes
  <2>1. Precedes(cursor[c], e) /\ ~Precedes(cursor[c], f)
    BY DEF CursorInOrder, Precedes
  <2> QED  BY <2>1, PrecedesOrder DEF TypeOK
<1>3. Log!Publish(new)
  BY <1>1, <1>2 DEF Log!Publish, Commit, Waiting
<1> QED  BY <1>1, <1>3 DEF Log!Next

\* A handled batch is the consumer's next events, none of them seen before.
LEMMA HandledHandles ==
    ASSUME IndInv, NEW d \in Drains, Handled(d)
    PROVE  Log!Next
<1> DEFINE c == job[d]
           last == Latest(batch[d])
<1>1. c \in Consumers /\ last \in Event /\ batch[d] \in SUBSET published /\ batch[d] # {}
  BY DEF TypeOK, BatchIsNext, BatchInOrder, Handled
<1>2. \A e \in published : e \in batch[d] <=> Precedes(cursor[c], e) /\ ~Precedes(last, e)
  BY DEF BatchIsNext, Handled
<1>3. \A e \in batch[d] : e \notin Settled(c)
  BY <1>1, <1>2 DEF CursorInOrder
<1>4. \A e \in batch[d], f \in published \ Settled(c) : Precedes(f, e) => f \in batch[d]
  <2> SUFFICES ASSUME NEW e \in batch[d], NEW f \in published \ Settled(c), Precedes(f, e)
               PROVE  Precedes(cursor[c], f) /\ ~Precedes(last, f)
    BY <1>2
  <2>1. Precedes(cursor[c], f)
    BY <1>1 DEF NoSkippedEvent
  <2>2. ~Precedes(last, e)
    BY <1>1, <1>2
  <2> QED  BY <1>1, <2>1, <2>2, PrecedesOrder DEF TypeOK
<1>5. Log!IsNext(batch[d], c)
  BY <1>1, <1>3, <1>4, SeenIsSettled, BeforeIsPrecedes DEF Log!IsNext, TypeOK
<1>6. applied' = [applied EXCEPT ![c] = [e \in Event |-> IF e \in batch[d] THEN 1 ELSE @[e]]]
  <2>1. \A e \in batch[d] : e \in Event /\ applied[c][e] = 0
    BY <1>1, <1>3 DEF TypeOK
  <2>2. applied' = [applied EXCEPT ![c] = [e \in Event |-> IF e \in batch[d] THEN @[e] + 1 ELSE @[e]]]
    BY DEF Handled
  <2>3. [e \in Event |-> IF e \in batch[d] THEN applied[c][e] + 1 ELSE applied[c][e]]
          = [e \in Event |-> IF e \in batch[d] THEN 1 ELSE applied[c][e]]
    BY <2>1
  <2> QED  BY <1>1, <2>2, <2>3 DEF TypeOK
<1>7. Log!Handle(c, batch[d])
  BY <1>5, <1>6 DEF Log!Handle, Handled, Waiting
<1> QED  BY <1>1, <1>7 DEF Log!Next

\* A parked event is the consumer's next.
LEMMA ParkGivesUp ==
    ASSUME IndInv, NEW d \in Drains, Park(d)
    PROVE  Log!Next
<1> DEFINE c == job[d]
           e == failing[c]
<1>1. c \in Consumers /\ e \in Event /\ e # None
  BY DEF TypeOK, Park, GivenUp, IsHead, Readable
<1>2. /\ e \in published \ Settled(c)
      /\ \A f \in published : Precedes(f, e) => f \in Settled(c)
  BY <1>1 DEF FailingIsNext
<1>3. Log!IsNext({e}, c)
  BY <1>1, <1>2, SeenIsSettled, BeforeIsPrecedes DEF Log!IsNext, TypeOK
<1>4. [k \in Consumers |-> Waiting(k)]' = [[k \in Consumers |-> Waiting(k)] EXCEPT ![c] = @ \cup {e}]
  <2>1. e \notin replayed[c]
    BY <1>1, <1>2 DEF LettersInOrder
  <2>2. dead' = [dead EXCEPT ![c] = @ \cup {e}] /\ replayed' = replayed
    BY DEF Park
  <2>3. \A k \in Consumers : Waiting(k)' = IF k = c THEN Waiting(c) \cup {e} ELSE Waiting(k)
    BY <1>1, <2>1, <2>2 DEF TypeOK, Waiting
  <2> QED  BY <2>3
<1>5. Log!GiveUp(c, e)
  BY <1>3, <1>4 DEF Log!GiveUp, Park
<1> QED  BY <1>1, <1>2, <1>5 DEF Log!Next

\* A replay gives a waiting dead letter its one effect.
LEMMA ReplayReplays ==
    ASSUME IndInv, NEW r \in Replays, ReplaySucceeds(r)
    PROVE  Log!Next
<1> DEFINE c == target[r][1]
           e == target[r][2]
<1>1. c \in Consumers /\ e \in Event /\ e \in Waiting(c)
  BY DEF TypeOK, LocksHeld, ReplaySucceeds
<1>2. applied[c][e] = 0 /\ e \in published
  BY <1>1 DEF TypeOK, LettersInOrder, CursorInOrder, Waiting
<1>3. applied' = [applied EXCEPT ![c][e] = 1]
  BY <1>1, <1>2 DEF TypeOK, ReplaySucceeds
<1>4. [k \in Consumers |-> Waiting(k)]' = [[k \in Consumers |-> Waiting(k)] EXCEPT ![c] = @ \ {e}]
  <2>1. replayed' = [replayed EXCEPT ![c] = @ \cup {e}] /\ dead' = dead
    BY DEF ReplaySucceeds
  <2>2. \A k \in Consumers : Waiting(k)' = IF k = c THEN Waiting(c) \ {e} ELSE Waiting(k)
    BY <1>1, <2>1 DEF TypeOK, Waiting
  <2> QED  BY <2>2
<1>5. Log!Replay(c, e)
  BY <1>1, <1>2, <1>3, <1>4 DEF Log!Replay, Log!Done, ReplaySucceeds
<1> QED  BY <1>1, <1>2, <1>5 DEF Log!Next

\* Every step of the outbox is a step of the log it promises, or a stutter.
LEMMA StepImplements == IndInv /\ [Next]_vars => [Log!Next]_(Log!vars)
<1> SUFFICES ASSUME IndInv, [Next]_vars
             PROVE  Log!Next \/ UNCHANGED Log!vars
  OBVIOUS
<1>1. CASE Writer
  BY <1>1, CommitPublishes, Unseen DEF Writer, BeginWrite, Append, Abort
<1>2. ASSUME NEW d \in Drains, DrainStep(d) PROVE Log!Next \/ UNCHANGED Log!vars
  BY <1>2, HandledHandles, ParkGivesUp, Unseen
    DEF DrainStep, NothingToDo, Read, BatchFailed, EventFailed, RecordFailure, RecordNothing
<1>3. ASSUME NEW d \in Drains, DrainDies(d) \/ \E c \in Consumers : StartDrain(d, c)
      PROVE  UNCHANGED Log!vars
  BY <1>3, Unseen DEF DrainDies, StartDrain
<1>4. ASSUME NEW r \in Replays, ReplayStep(r) PROVE Log!Next \/ UNCHANGED Log!vars
  BY <1>4, ReplayReplays, Unseen
    DEF ReplayStep, ReplayLocks, ReplayRuns, ReplayFails
<1>5. ASSUME \/ \E c \in Consumers : BackoffEnds(c)
             \/ \E e \in rows : Retire(e)
             \/ UNCHANGED vars
      PROVE  UNCHANGED Log!vars
  BY <1>5, Unseen DEF BackoffEnds, Retire, vars
<1> QED  BY <1>1, <1>2, <1>3, <1>4, <1>5 DEF Next

\* The outbox is the log it promises to be: each committed event takes effect
\* once per consumer, in log order, or waits in the dead letters to do so once.
THEOREM Implements == Spec => KeepsItsPromise
<1>1. Init => Log!Init
  BY DEF Init, Log!Init, Waiting
<1> QED  BY <1>1, StepImplements, Invariance, PTL
  DEF Spec, Log!Spec, KeepsItsPromise

-----------------------------------------------------------------------------
(* A dead letter has failed alone as often as it may.                      *)

\* Drains that have seen the event fail alone and have yet to record it.
Blaming(c, e) == {d \in Drains : pc[d] = "blame" /\ job[d] = c /\ e \in batch[d]}

\* The failures a consumer's row holds against an event.
HeldAgainst(c, e) == IF failing[c] = e THEN failures[c] ELSE 0

\* What is counted, or about to be, against one event.
IsCounted(c, e) ==
    \/ blamed[c][e] = MaxFailures
    \/ HeldAgainst(c, e) + Cardinality(Blaming(c, e)) <= blamed[c][e]

\* A failure is counted once at most, and only one that happened.
BlameIsCounted == \A c \in Consumers, e \in Event : IsCounted(c, e)

BlameInv == IndInv /\ BlameIsCounted /\ ParkedAfterMaxFailures

\* What is counted is a number, and grows with the drains that blame.
LEMMA CountFacts ==
    ASSUME IsFiniteSet(Drains), TypeOK, NEW c \in Consumers, NEW e \in Event
    PROVE  /\ HeldAgainst(c, e) \in Nat /\ blamed[c][e] \in 0 .. MaxFailures
           /\ IsFiniteSet(Blaming(c, e)) /\ Cardinality(Blaming(c, e)) \in Nat
<1>1. HeldAgainst(c, e) \in Nat /\ blamed[c][e] \in 0 .. MaxFailures
  BY DEF TypeOK, HeldAgainst
<1>2. Blaming(c, e) \subseteq Drains
  BY DEF Blaming
<1> QED  BY <1>1, <1>2, FS_Subset, FS_CardinalityType

\* A step that adds no failure and no blaming drain keeps the count.
LEMMA CountKept ==
    ASSUME IsFiniteSet(Drains), TypeOK, TypeOK', NEW c \in Consumers, NEW e \in Event, IsCounted(c, e),
           blamed'[c][e] = blamed[c][e],
           Blaming(c, e)' \subseteq Blaming(c, e),
           failing'[c] = e => failing[c] = e /\ failures'[c] = failures[c]
    PROVE  IsCounted(c, e)'
<1>1. HeldAgainst(c, e)' <= HeldAgainst(c, e)
  BY DEF HeldAgainst, TypeOK
<1>2. Cardinality(Blaming(c, e)') <= Cardinality(Blaming(c, e))
  BY CountFacts, FS_Subset
<1>3. /\ HeldAgainst(c, e) \in Nat /\ blamed[c][e] \in Nat /\ Cardinality(Blaming(c, e)) \in Nat
  BY CountFacts
<1>4. /\ HeldAgainst(c, e)' \in Nat /\ Cardinality(Blaming(c, e)') \in Nat
  <2>1. HeldAgainst(c, e)' \in Nat
    BY DEF TypeOK, HeldAgainst
  <2>2. Cardinality(Blaming(c, e)') \in Nat
    BY CountFacts, FS_Subset, FS_CardinalityType
  <2> QED  BY <2>1, <2>2
<1> QED  BY <1>1, <1>2, <1>3, <1>4 DEF IsCounted

\* Of the steps that record nothing, none adds to what is counted.
LEMMA BlameQuiet ==
    ASSUME IsFiniteSet(Drains), BlameInv, IndInv',
           UNCHANGED <<blamed, dead>>,
           \A d \in Drains : pc'[d] = "blame" =>
               pc[d] = "blame" /\ job'[d] = job[d] /\ batch'[d] = batch[d],
           \A c \in Consumers : failing'[c] # None => failing'[c] = failing[c] /\ failures'[c] = failures[c]
    PROVE  BlameInv'
<1>1. ParkedAfterMaxFailures'
  BY DEF BlameInv, ParkedAfterMaxFailures
<1>2. ASSUME NEW c \in Consumers, NEW e \in Event PROVE IsCounted(c, e)'
  <2>1. Blaming(c, e)' \subseteq Blaming(c, e)
    BY DEF Blaming
  <2>2. failing'[c] = e => failing[c] = e /\ failures'[c] = failures[c]
    OBVIOUS
  <2>3. IsCounted(c, e)
    BY DEF BlameInv, BlameIsCounted
  <2> QED  BY <2>1, <2>2, <2>3, CountKept DEF BlameInv
<1> QED  BY <1>1, <1>2 DEF BlameInv, BlameIsCounted

\* A failure is blamed before it is recorded.
LEMMA BlameEventFailed ==
    ASSUME IsFiniteSet(Drains), BlameInv, IndInv', NEW d \in Drains, EventFailed(d)
    PROVE  BlameInv'
<1>1. PICK x \in batch[d] :
        /\ batch[d] = {x}
        /\ blamed' = [blamed EXCEPT ![job[d]][x] = IF @ < MaxFailures THEN @ + 1 ELSE @]
  BY DEF EventFailed
<1>2. job[d] \in Consumers /\ x \in Event
  BY <1>1 DEF BlameInv, TypeOK
<1>3. /\ pc' = [pc EXCEPT ![d] = "blame"] /\ pc[d] = "handle"
      /\ UNCHANGED <<failing, failures, job, batch, dead>>
  BY DEF EventFailed, BlameInv, FailingIsNext
<1>4. ASSUME NEW c \in Consumers, NEW e \in Event
      PROVE  /\ blamed[c][e] \in 0 .. MaxFailures
             /\ blamed'[c][e] = IF c = job[d] /\ e = x /\ blamed[c][e] < MaxFailures
                                THEN blamed[c][e] + 1 ELSE blamed[c][e]
  BY <1>1, <1>2 DEF BlameInv, TypeOK
<1>5. ParkedAfterMaxFailures'
  <2> SUFFICES ASSUME NEW c \in Consumers, NEW e \in dead'[c]
               PROVE  blamed'[c][e] = MaxFailures
    BY DEF ParkedAfterMaxFailures
  <2>1. e \in dead[c] /\ e \in Event
    BY <1>3 DEF BlameInv, TypeOK
  <2>2. blamed[c][e] = MaxFailures
    BY <2>1 DEF BlameInv, ParkedAfterMaxFailures
  <2> QED  BY <1>4, <2>1, <2>2
<1>6. ASSUME NEW c \in Consumers, NEW e \in Event PROVE IsCounted(c, e)'
  <2>1. IsCounted(c, e)
    BY DEF BlameInv, BlameIsCounted
  <2>2. CASE c = job[d] /\ e = x
    <3>1. Blaming(c, e)' = Blaming(c, e) \cup {d} /\ d \notin Blaming(c, e)
      BY <1>1, <1>3, <2>2 DEF Blaming, BlameInv, TypeOK
    <3>2. HeldAgainst(c, e)' = HeldAgainst(c, e)
      BY <1>3 DEF HeldAgainst
    <3>3. Cardinality(Blaming(c, e)') = Cardinality(Blaming(c, e)) + 1
      BY <3>1, CountFacts, FS_AddElement DEF BlameInv
    <3>4. HeldAgainst(c, e) \in Nat /\ Cardinality(Blaming(c, e)) \in Nat
      BY CountFacts DEF BlameInv
    <3> QED  BY <1>4, <2>1, <2>2, <3>2, <3>3, <3>4 DEF IsCounted
  <2>3. CASE ~(c = job[d] /\ e = x)
    <3>1. Blaming(c, e)' \subseteq Blaming(c, e)
      BY <1>1, <1>3, <2>3 DEF Blaming, BlameInv, TypeOK
    <3>2. blamed'[c][e] = blamed[c][e]
      BY <1>4, <2>3
    <3> QED  BY <1>3, <2>1, <3>1, <3>2, CountKept DEF BlameInv
  <2> QED  BY <2>2, <2>3
<1> QED  BY <1>5, <1>6 DEF BlameInv, BlameIsCounted

\* Recording it takes it from the drain and adds it to the row.
LEMMA BlameRecordFailure ==
    ASSUME IsFiniteSet(Drains), BlameInv, IndInv', NEW d \in Drains, RecordFailure(d)
    PROVE  BlameInv'
<1>1. PICK x \in batch[d] :
        /\ failures' = [failures EXCEPT ![job[d]] = IF failing[job[d]] = x THEN @ + 1 ELSE 1]
        /\ failing' = [failing EXCEPT ![job[d]] = x]
  BY DEF RecordFailure
<1>2. job[d] \in Consumers /\ x \in Event /\ batch[d] = {x}
  BY <1>1 DEF BlameInv, TypeOK, BlameInOrder, RecordFailure
<1>3. /\ pc' = [pc EXCEPT ![d] = "idle"] /\ batch' = [batch EXCEPT ![d] = {}] /\ pc[d] = "blame"
      /\ UNCHANGED <<job, dead, blamed>>
  BY DEF RecordFailure
<1>4. ParkedAfterMaxFailures'
  BY <1>3 DEF BlameInv, ParkedAfterMaxFailures
<1>5. ASSUME NEW c \in Consumers, NEW e \in Event PROVE IsCounted(c, e)'
  <2>1. IsCounted(c, e)
    BY DEF BlameInv, BlameIsCounted
  <2>2. CASE c = job[d] /\ e = x
    <3>1. Blaming(c, e)' = Blaming(c, e) \ {d} /\ d \in Blaming(c, e)
      BY <1>1, <1>2, <1>3, <2>2 DEF Blaming, BlameInv, TypeOK
    <3>2. HeldAgainst(c, e)' <= HeldAgainst(c, e) + 1 /\ HeldAgainst(c, e)' \in Nat
      BY <1>1, <1>2, <2>2 DEF HeldAgainst, BlameInv, TypeOK
    <3>3. Cardinality(Blaming(c, e)') = Cardinality(Blaming(c, e)) - 1
      BY <3>1, CountFacts, FS_RemoveElement DEF BlameInv
    <3>4. /\ HeldAgainst(c, e) \in Nat /\ Cardinality(Blaming(c, e)) \in Nat
          /\ blamed[c][e] \in Nat /\ blamed'[c][e] = blamed[c][e]
      BY <1>3, CountFacts DEF BlameInv
    <3> QED  BY <2>1, <3>2, <3>3, <3>4 DEF IsCounted
  <2>3. CASE ~(c = job[d] /\ e = x)
    <3>1. Blaming(c, e)' \subseteq Blaming(c, e)
      BY <1>1, <1>3, <2>3 DEF Blaming, BlameInv, TypeOK
    <3>2. failing'[c] = e => failing[c] = e /\ failures'[c] = failures[c]
      BY <1>1, <1>2, <2>3 DEF BlameInv, TypeOK
    <3> QED  BY <1>3, <2>1, <3>1, <3>2, CountKept DEF BlameInv
  <2> QED  BY <2>2, <2>3
<1> QED  BY <1>4, <1>5 DEF BlameInv, BlameIsCounted

\* What is parked has its failures recorded, so they happened.
LEMMA BlamePark ==
    ASSUME IsFiniteSet(Drains), BlameInv, IndInv', NEW d \in Drains, Park(d)
    PROVE  BlameInv'
<1> DEFINE k == job[d]
           x == failing[k]
<1>1. k \in Consumers /\ x \in Event /\ failures[k] >= MaxFailures
  BY DEF BlameInv, TypeOK, Park, GivenUp, IsHead, Readable
<1>2. blamed[k][x] = MaxFailures
  <2>1. IsCounted(k, x) /\ HeldAgainst(k, x) = failures[k]
    BY <1>1 DEF BlameInv, BlameIsCounted, HeldAgainst
  <2>2. /\ HeldAgainst(k, x) \in Nat /\ blamed[k][x] \in 0 .. MaxFailures
        /\ Cardinality(Blaming(k, x)) \in Nat
    BY <1>1, CountFacts DEF BlameInv
  <2> QED  BY <1>1, <2>1, <2>2 DEF IsCounted
<1>3. /\ dead' = [dead EXCEPT ![k] = @ \cup {x}] /\ failing' = [failing EXCEPT ![k] = None]
      /\ failures' = [failures EXCEPT ![k] = 0]
      /\ UNCHANGED <<blamed, job, batch>>
      /\ pc[d] = "step" /\ pc' = [pc EXCEPT ![d] = IF single[d] /\ budget[d] > 1 THEN "step" ELSE "idle"]
  BY DEF Park, AfterStep, CanStep
<1>4. ParkedAfterMaxFailures'
  BY <1>1, <1>2, <1>3 DEF BlameInv, ParkedAfterMaxFailures, TypeOK
<1>5. ASSUME NEW c \in Consumers, NEW e \in Event PROVE IsCounted(c, e)'
  <2>1. Blaming(c, e)' \subseteq Blaming(c, e)
    BY <1>3 DEF Blaming, BlameInv, TypeOK
  <2>2. failing'[c] = e => failing[c] = e /\ failures'[c] = failures[c]
    BY <1>3 DEF BlameInv, TypeOK
  <2>3. IsCounted(c, e)
    BY DEF BlameInv, BlameIsCounted
  <2> QED  BY <1>3, <2>1, <2>2, <2>3, CountKept DEF BlameInv
<1> QED  BY <1>4, <1>5 DEF BlameInv, BlameIsCounted

\* A commit clears the row's failures, and the rest neither blames nor records.
LEMMA BlameRest ==
    ASSUME IsFiniteSet(Drains), BlameInv, IndInv', [Next]_vars,
           \A d \in Drains : ~EventFailed(d) /\ ~RecordFailure(d) /\ ~Park(d)
    PROVE  BlameInv'
<1>1. CASE Writer
  BY <1>1, BlameQuiet DEF Writer, BeginWrite, Append, Commit, Abort
<1>2. ASSUME NEW d \in Drains, DrainStep(d) PROVE BlameInv'
  <2>1. CASE Handled(d)
    BY <2>1, BlameQuiet DEF BlameInv, TypeOK, Handled, AfterStep
  <2>2. CASE NothingToDo(d)
    BY <2>2, BlameQuiet DEF BlameInv, TypeOK, NothingToDo
  <2>3. CASE Read(d)
    BY <2>3, BlameQuiet DEF BlameInv, TypeOK, Read, CanStep
  <2>4. CASE BatchFailed(d)
    BY <2>4, BlameQuiet DEF BlameInv, TypeOK, BatchFailed
  <2>5. CASE RecordNothing(d)
    BY <2>5, BlameQuiet DEF BlameInv, TypeOK, RecordNothing
  <2> QED  BY <1>2, <2>1, <2>2, <2>3, <2>4, <2>5 DEF DrainStep
<1>3. ASSUME NEW d \in Drains, DrainDies(d) \/ \E c \in Consumers : StartDrain(d, c)
      PROVE  BlameInv'
  BY <1>3, BlameQuiet DEF BlameInv, TypeOK, DrainDies, StartDrain
<1>4. ASSUME NEW r \in Replays, ReplayStep(r) PROVE BlameInv'
  BY <1>4, BlameQuiet DEF ReplayStep, ReplayLocks, ReplayRuns, ReplaySucceeds, ReplayFails
<1>5. ASSUME \/ \E c \in Consumers : BackoffEnds(c)
             \/ \E e \in rows : Retire(e)
             \/ UNCHANGED vars
      PROVE  BlameInv'
  BY <1>5, BlameQuiet DEF BackoffEnds, Retire, vars
<1> QED  BY <1>1, <1>2, <1>3, <1>4, <1>5 DEF Next

\* Nothing is parked early: a dead letter has failed alone MaxFailures times,
\* for any number of drains that fail, record late, or lose a record.
THEOREM ParkedLate ==
    ASSUME IsFiniteSet(Drains)
    PROVE  Spec => []ParkedAfterMaxFailures
<1>1. Init => BlameInv
  <2> SUFFICES ASSUME Init PROVE BlameInv
    OBVIOUS
  <2>1. \A c \in Consumers, e \in Event : Blaming(c, e) = {}
    BY DEF Init, Blaming
  <2>2. \A c \in Consumers, e \in Event : HeldAgainst(c, e) = 0 /\ blamed[c][e] = 0
    BY DEF Init, HeldAgainst
  <2>3. BlameIsCounted
    <3>1. \A c \in Consumers, e \in Event : Cardinality(Blaming(c, e)) = 0
      BY <2>1, FS_EmptySet
    <3> QED  BY <2>2, <3>1 DEF BlameIsCounted, IsCounted
  <2>4. ParkedAfterMaxFailures
    BY DEF Init, ParkedAfterMaxFailures
  <2> QED  BY <2>3, <2>4, IndInvInit DEF BlameInv
<1>2. BlameInv /\ [Next]_vars => BlameInv'
  <2> SUFFICES ASSUME BlameInv, [Next]_vars PROVE BlameInv'
    OBVIOUS
  <2>1. IndInv'
    BY IndInvNext DEF BlameInv
  <2> QED  BY <2>1, BlameEventFailed, BlameRecordFailure, BlamePark, BlameRest
<1>3. BlameInv => ParkedAfterMaxFailures
  BY DEF BlameInv
<1> QED  BY <1>1, <1>2, <1>3, PTL DEF Spec

=============================================================================
