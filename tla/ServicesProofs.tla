--------------------------- MODULE ServicesProofs ---------------------------
(* What holds of the components of MCServices for every value of their         *)
(* constants.                                                                  *)
(*                                                                             *)
(* The workspace is whole or gone, for any number of requests, purge jobs,     *)
(* tables and crashes, and any window with a grace after it.  What keeps a     *)
(* change of mind and a purge apart is the grace: a request that passed the    *)
(* check of the window has aged by one unit at most when its write commits, so *)
(* the purge cannot have been due.                                             *)
(*                                                                             *)
(* Exports and the intake are proved of their own steps first, and then of the *)
(* composition, in which their variables change by those alone.                *)
EXTENDS MCServices, FiniteSetTheorems, TLAPS

Doomed == status = "DELETED" \/ (status = "PENDING_DELETION" /\ asked = Due)

\* A purge job at work finds the workspace past its grace, and stays so.
PurgeIsDue == \A p \in Purgers : purge[p] # Rest => Doomed

\* A request that has checked the window is one unit past it at most.
CheckHolds ==
    \A r \in Requests : request[r].pc = "checked" /\ status = "PENDING_DELETION"
                          => asked <= Window - 1 + request[r].age

\* What a purge job has passed is gone.
PassedIsGone ==
    \A p \in Purgers : \A t \in Everything : purge[p] # Rest /\ purge[p] > t => t \notin content

\* Only a workspace past its grace has lost anything.
WholeUntilDue == content # Everything => Doomed

DeletedIsEmpty == status = "DELETED" => content = {}

IndInv == TypeOK /\ PurgeIsDue /\ CheckHolds /\ PassedIsGone /\ WholeUntilDue /\ DeletedIsEmpty

---------------------------------------------------------------------------
\* The bounds the constants give.
LEMMA Bounds == /\ Tables \in Nat /\ Tables > 0 /\ Window \in Nat /\ Window > 0
                /\ Grace \in Nat /\ Grace > 0 /\ Heads \in Nat /\ MaxCrashes \in Nat
                /\ Due \in Nat /\ Due > Window /\ Rest \in Nat
  <1>1. Tables \in Nat \ {0} /\ Window \in Nat \ {0} /\ Grace \in Nat \ {0} /\ Heads \in Nat \ {0}
    BY WindowAssumption
  <1>2. QED  BY <1>1, WindowAssumption DEF Due, Rest

\* Everything holds at first.
LEMMA InitInvariant == Init => IndInv
  <1> SUFFICES ASSUME Init PROVE IndInv  OBVIOUS
  <1> USE Bounds
  <1>1. TypeOK
    <2>1. asked \in 0 .. Due /\ owners \in 0 .. Heads /\ crashes \in 0 .. MaxCrashes
      BY DEF Init
    <2>2. purge \in [Purgers -> 0 .. Rest]  BY DEF Init
    <2>3. Idle \in [pc : {"idle", "bumps", "checked", "clears"}, age : 0 .. 1]  BY DEF Idle
    <2>4. QED  BY <2>1, <2>2, <2>3 DEF TypeOK, Init
  <1>2. PurgeIsDue  BY DEF PurgeIsDue, Init
  <1>3. CheckHolds  BY DEF CheckHolds, Init
  <1>4. PassedIsGone  BY DEF PassedIsGone, Init
  <1>5. WholeUntilDue /\ DeletedIsEmpty  BY DEF WholeUntilDue, DeletedIsEmpty, Init
  <1>6. QED  BY <1>1, <1>2, <1>3, <1>4, <1>5 DEF IndInv

\* A step of a request keeps the types, if what it turns to is a state of one.
LEMMA RequestGoes ==
    ASSUME TypeOK, NEW r \in Requests, NEW pc \in {"idle", "bumps", "checked", "clears"}, Goes(r, pc)
    PROVE  /\ request' \in [Requests -> [pc : {"idle", "bumps", "checked", "clears"}, age : 0 .. 1]]
           /\ request'[r] = [pc |-> pc, age |-> 0]
           /\ \A q \in Requests \ {r} : request'[q] = request[q]
  BY DEF TypeOK, Goes

---------------------------------------------------------------------------
\* A deletion is asked for of a workspace in use, whole and with no purge under way.
LEMMA AskStep ==
    ASSUME IndInv, NEW r \in Requests, Ask(r)
    PROVE  IndInv'
  <1> USE Bounds
  <1>1. /\ status = "ACTIVE" /\ ~Doomed /\ status' = "PENDING_DELETION" /\ asked' = 0
        /\ UNCHANGED <<owners, content, epoch, purge, crashes>> /\ Goes(r, "bumps")
    BY DEF Ask, Doomed
  <1>2. TypeOK'
    BY <1>1, RequestGoes, 0 \in 0 .. Due DEF IndInv, TypeOK
  <1>3. \A p \in Purgers : purge[p] = Rest
    BY <1>1 DEF IndInv, PurgeIsDue
  <1>4. PurgeIsDue' /\ PassedIsGone'
    BY <1>1, <1>3 DEF PurgeIsDue, PassedIsGone, Rest
  <1>5. CheckHolds'
    BY <1>1, <1>2 DEF CheckHolds, TypeOK
  <1>6. WholeUntilDue' /\ DeletedIsEmpty'
    BY <1>1 DEF IndInv, WholeUntilDue, DeletedIsEmpty, Everything
  <1>7. QED  BY <1>2, <1>4, <1>5, <1>6 DEF IndInv

\* What a request does that leaves the status and the data alone.
LEMMA RequestOnly ==
    ASSUME IndInv, NEW r \in Requests, NEW pc \in {"idle", "bumps", "checked", "clears"}, Goes(r, pc),
           pc = "checked" => InWindow, epoch' \in BOOLEAN, crashes' \in 0 .. MaxCrashes,
           UNCHANGED <<status, asked, owners, content, purge>>
    PROVE  IndInv'
  <1> USE Bounds
  <1>1. TypeOK'  BY RequestGoes DEF IndInv, TypeOK
  <1>2. CheckHolds'
    <2> SUFFICES ASSUME NEW q \in Requests, request'[q].pc = "checked", status' = "PENDING_DELETION"
                 PROVE  asked' <= Window - 1 + request'[q].age
      BY DEF CheckHolds
    <2>1. CASE q = r
      <3>1. pc = "checked" /\ request'[q].age = 0  BY <2>1, RequestGoes DEF IndInv
      <3>2. asked < Window  BY <3>1 DEF InWindow
      <3>3. QED  BY <3>1, <3>2 DEF IndInv, TypeOK
    <2>2. CASE q # r
      BY <2>2, RequestGoes DEF IndInv, CheckHolds
    <2>3. QED  BY <2>1, <2>2
  <1>3. PurgeIsDue' /\ PassedIsGone' /\ WholeUntilDue' /\ DeletedIsEmpty'
    BY DEF IndInv, PurgeIsDue, PassedIsGone, WholeUntilDue, DeletedIsEmpty, Doomed, Everything, Rest, Due
  <1>4. QED  BY <1>1, <1>2, <1>3 DEF IndInv

\* A request that comes back finds no purge due, so none under way.
LEMMA ComesBackStep ==
    ASSUME IndInv, NEW r \in Requests, ComesBack(r)
    PROVE  IndInv'
  <1> USE Bounds
  <1>1. CASE status = "PENDING_DELETION"
    <2>1. /\ request[r].pc = "checked" /\ status' = "ACTIVE" /\ asked' = 0 /\ Goes(r, "clears")
          /\ UNCHANGED <<owners, content, epoch, purge, crashes>>
      BY <1>1 DEF ComesBack
    <2>2. asked <= Window - 1 + request[r].age /\ request[r].age \in 0 .. 1
      BY <1>1, <2>1 DEF IndInv, CheckHolds, TypeOK
    <2>3. asked # Due  BY <2>2 DEF Due, IndInv, TypeOK
    <2>4. ~Doomed  BY <1>1, <2>3 DEF Doomed
    <2>5. TypeOK'  BY <2>1, RequestGoes, 0 \in 0 .. Due DEF IndInv, TypeOK
    <2>6. PurgeIsDue' /\ PassedIsGone'
      BY <2>1, <2>4 DEF IndInv, PurgeIsDue, PassedIsGone, Rest
    <2>7. CheckHolds' /\ WholeUntilDue' /\ DeletedIsEmpty'
      BY <2>1, <2>4 DEF IndInv, CheckHolds, WholeUntilDue, DeletedIsEmpty, Everything
    <2>8. QED  BY <2>5, <2>6, <2>7 DEF IndInv
  <1>2. CASE status # "PENDING_DELETION"
    <2>1. Goes(r, "idle") /\ UNCHANGED <<status, asked, owners, content, epoch, purge, crashes>>
      BY <1>2 DEF ComesBack
    <2>2. epoch' \in BOOLEAN /\ crashes' \in 0 .. MaxCrashes
      BY <2>1 DEF IndInv, TypeOK
    <2>3. QED  BY <2>1, <2>2, RequestOnly
  <1>3. QED  BY <1>1, <1>2

\* Everything else a request does.
LEMMA RequestStep ==
    ASSUME IndInv, NEW r \in Requests,
           ChangesBack(r) \/ Bump(r) \/ Clear(r) \/ RequestDies(r)
    PROVE  IndInv'
  <1>1. /\ \E pc \in {"idle", "checked"} : Goes(r, pc) /\ (pc = "checked" => InWindow)
        /\ UNCHANGED <<status, asked, owners, content, purge>>
    BY DEF ChangesBack, Bump, Clear, RequestDies
  <1>2. epoch \in BOOLEAN /\ crashes \in 0 .. MaxCrashes  BY DEF IndInv, TypeOK
  <1>3. epoch' \in BOOLEAN
    BY <1>2, Zenon DEF ChangesBack, Bump, Clear, RequestDies
  <1>4. crashes' \in 0 .. MaxCrashes
    BY <1>2, Bounds DEF ChangesBack, Bump, Clear, RequestDies
  <1>5. QED  BY <1>1, <1>3, <1>4, RequestOnly

---------------------------------------------------------------------------
\* Suspension and erasure touch neither a doomed workspace nor its data.
LEMMA SuspendOrEraseStep ==
    ASSUME IndInv, Suspend \/ Erase
    PROVE  IndInv'
  <1> USE Bounds
  <1>1. /\ UNCHANGED <<asked, content, request, purge, crashes, epoch>>
        /\ \/ status' = status
           \/ {status, status'} \subseteq {"ACTIVE", "SUSPENDED"}
    BY DEF Suspend, Erase
  <1>2. TypeOK'  BY DEF IndInv, TypeOK, Suspend, Erase
  <1>3. Doomed <=> Doomed'  BY <1>1 DEF Doomed, Due
  <1>4. PurgeIsDue' /\ PassedIsGone'
    BY <1>1, <1>3 DEF IndInv, PurgeIsDue, PassedIsGone, Rest, Everything
  <1>5. CheckHolds' /\ WholeUntilDue' /\ DeletedIsEmpty'
    BY <1>1, <1>3 DEF IndInv, CheckHolds, WholeUntilDue, DeletedIsEmpty, Everything
  <1>6. QED  BY <1>2, <1>4, <1>5 DEF IndInv

\* Time passes; a request that has checked the window has it pass once.
LEMMA TickStep ==
    ASSUME IndInv, Tick
    PROVE  IndInv'
  <1> USE Bounds
  <1>1. /\ UNCHANGED <<status, content, purge>> /\ asked \in 0 .. Due
        /\ asked' = IF status = "PENDING_DELETION" /\ asked < Due THEN asked + 1 ELSE asked
        /\ \A r \in Requests : request[r].age = 0
    BY DEF Tick, IndInv, TypeOK
  <1>2. TypeOK'
    <2>1. asked' \in 0 .. Due  BY <1>1
    <2>2. request' \in [Requests -> [pc : {"idle", "bumps", "checked", "clears"}, age : 0 .. 1]]
      BY DEF Tick, IndInv, TypeOK, Idle
    <2>3. QED  BY <2>1, <2>2 DEF Tick, IndInv, TypeOK
  <1>3. Doomed => Doomed'  BY <1>1 DEF Doomed, Due
  <1>4. CheckHolds'
    <2> SUFFICES ASSUME NEW r \in Requests, request'[r].pc = "checked", status' = "PENDING_DELETION"
                 PROVE  asked' <= Window - 1 + request'[r].age
      BY DEF CheckHolds
    <2>1. request[r].pc = "checked" /\ request'[r].age = 1
      BY DEF Tick, Idle, IndInv, TypeOK
    <2>2. asked <= Window - 1 + request[r].age /\ request[r].age = 0
      BY <1>1, <2>1 DEF IndInv, CheckHolds
    <2>3. QED  BY <1>1, <2>1, <2>2
  <1>5. PurgeIsDue' /\ PassedIsGone'
    BY <1>1, <1>3 DEF IndInv, PurgeIsDue, PassedIsGone, Rest, Everything
  <1>6. WholeUntilDue' /\ DeletedIsEmpty'
    BY <1>1, <1>3 DEF IndInv, WholeUntilDue, DeletedIsEmpty, Everything
  <1>7. QED  BY <1>2, <1>4, <1>5, <1>6 DEF IndInv

---------------------------------------------------------------------------
\* What a purge job's step that leaves the data alone has to keep.
LEMMA PurgeOnly ==
    ASSUME IndInv, NEW p \in Purgers, NEW s \in {0, Rest}, purge' = [purge EXCEPT ![p] = s],
           s = 0 => Doomed, crashes' \in 0 .. MaxCrashes,
           UNCHANGED <<status, asked, owners, content, epoch, request>>
    PROVE  IndInv'
  <1> USE Bounds
  <1>1. TypeOK'  BY DEF IndInv, TypeOK, Rest
  <1>2. Doomed <=> Doomed'  BY DEF Doomed, Due
  <1>3. PurgeIsDue'
    BY <1>2 DEF IndInv, TypeOK, PurgeIsDue, Rest
  <1>4. PassedIsGone'
    BY DEF IndInv, TypeOK, PassedIsGone, Rest, Everything
  <1>5. CheckHolds' /\ WholeUntilDue' /\ DeletedIsEmpty'
    BY <1>2 DEF IndInv, CheckHolds, WholeUntilDue, DeletedIsEmpty, Everything
  <1>6. QED  BY <1>1, <1>3, <1>4, <1>5 DEF IndInv

\* A job deletes a table and has passed it.
LEMMA DeletesStep ==
    ASSUME IndInv, NEW p \in Purgers, Deletes(p)
    PROVE  IndInv'
  <1> USE Bounds
  <1>1. /\ purge[p] \in 0 .. Tables /\ content' = content \ {purge[p]}
        /\ purge' = [purge EXCEPT ![p] = purge[p] + 1] /\ content \subseteq 0 .. Tables
        /\ UNCHANGED <<status, asked, owners, epoch, request, crashes>>
        /\ purge \in [Purgers -> 0 .. Rest]
    BY DEF Deletes, IndInv, TypeOK, Everything
  <1>2. Doomed /\ Doomed'
    BY <1>1 DEF Doomed, Due, IndInv, PurgeIsDue, Rest
  <1>3. TypeOK'
    <2>1. purge' \in [Purgers -> 0 .. Rest]  BY <1>1 DEF Rest
    <2>2. content' \subseteq Everything  BY <1>1 DEF Everything
    <2>3. QED  BY <1>1, <2>1, <2>2 DEF IndInv, TypeOK
  <1>4. PassedIsGone'
    <2> SUFFICES ASSUME NEW q \in Purgers, NEW t \in Everything, purge'[q] # Rest, purge'[q] > t
                 PROVE  t \notin content'
      BY DEF PassedIsGone, Everything, Rest
    <2>1. CASE q # p
      BY <1>1, <2>1 DEF IndInv, PassedIsGone
    <2>2. CASE q = p
      BY <1>1, <2>2 DEF IndInv, PassedIsGone, Rest, Everything
    <2>3. QED  BY <2>1, <2>2
  <1>5. PurgeIsDue' /\ WholeUntilDue'  BY <1>2 DEF PurgeIsDue, WholeUntilDue
  <1>6. CheckHolds' /\ DeletedIsEmpty'
    BY <1>1 DEF IndInv, CheckHolds, DeletedIsEmpty
  <1>7. QED  BY <1>3, <1>4, <1>5, <1>6 DEF IndInv

\* A job that has passed every table leaves the tombstone.
LEMMA TombstoneStep ==
    ASSUME IndInv, NEW p \in Purgers, Tombstone(p)
    PROVE  IndInv'
  <1> USE Bounds
  <1>1. /\ purge[p] = Tables + 1 /\ purge' = [purge EXCEPT ![p] = Rest]
        /\ UNCHANGED <<asked, owners, content, epoch, request, crashes>>
        /\ purge \in [Purgers -> 0 .. Rest]
    BY DEF Tombstone, IndInv, TypeOK
  <1>2. Doomed  BY <1>1 DEF IndInv, PurgeIsDue, Rest
  <1>3. status' = "DELETED"  BY <1>2 DEF Tombstone, Doomed
  <1>4. content = {}
    BY <1>1 DEF IndInv, PassedIsGone, Rest, Everything, TypeOK
  <1>5. TypeOK'  BY <1>1, <1>3 DEF IndInv, TypeOK, Rest
  <1>6. PurgeIsDue' /\ CheckHolds' /\ WholeUntilDue' /\ DeletedIsEmpty'
    BY <1>1, <1>3, <1>4 DEF PurgeIsDue, CheckHolds, WholeUntilDue, DeletedIsEmpty, Doomed
  <1>7. PassedIsGone'  BY <1>1, <1>4 DEF PassedIsGone
  <1>8. QED  BY <1>5, <1>6, <1>7 DEF IndInv

\* Every step of a purge job.
LEMMA PurgeStep ==
    ASSUME IndInv, NEW p \in Purgers, Purges(p) \/ PurgeDies(p)
    PROVE  IndInv'
  <1>1. CASE Starts(p)
    <2>1. Doomed /\ crashes' \in 0 .. MaxCrashes
      BY <1>1 DEF Starts, Doomed, IndInv, TypeOK
    <2>2. QED  BY <1>1, <2>1, PurgeOnly DEF Starts
  <1>2. CASE Deletes(p)  BY <1>2, DeletesStep
  <1>3. CASE Tombstone(p)  BY <1>3, TombstoneStep
  <1>4. CASE PurgeDies(p)
    <2>1. crashes' \in 0 .. MaxCrashes  BY <1>4, Bounds DEF PurgeDies, IndInv, TypeOK
    <2>2. Rest # 0  BY Bounds DEF Rest
    <2>3. QED  BY <1>4, <2>1, <2>2, PurgeOnly DEF PurgeDies
  <1>5. QED  BY <1>1, <1>2, <1>3, <1>4 DEF Purges

\* The invariant is inductive.
LEMMA StepInvariant == IndInv /\ [Next]_lifecycle_vars => IndInv'
  <1> SUFFICES ASSUME IndInv, [Next]_lifecycle_vars PROVE IndInv'  OBVIOUS
  <1>1. CASE UNCHANGED lifecycle_vars
    BY <1>1 DEF lifecycle_vars, IndInv, TypeOK, PurgeIsDue, CheckHolds, PassedIsGone,
                WholeUntilDue, DeletedIsEmpty, Doomed
  <1>2. CASE Next
    BY <1>2, AskStep, ComesBackStep, RequestStep, PurgeStep, SuspendOrEraseStep, TickStep
    DEF Next, Follows
  <1>3. QED  BY <1>1, <1>2

\* The invariant of the module: types, and that a purge only works past the grace.
THEOREM LifecycleInvariant == Spec => []IndInv
  BY InitInvariant, StepInvariant, PTL DEF Spec

\* The types of the module's state.
THEOREM LifecycleTypes == Spec => []TypeOK
  <1>1. IndInv => TypeOK  BY DEF IndInv
  <1>2. QED  BY <1>1, LifecycleInvariant, PTL

(* A workspace in use is whole and a deleted one is empty: no cancel, restore  *)
(* or suspension lands beside a purge that has begun                           *)
(* (org-purge.ts, org-deletion.service.ts).                                    *)
THEOREM NeverHalfPurged == Spec => []NothingIsHalfPurged
  <1>1. IndInv => NothingIsHalfPurged
    BY DEF IndInv, NothingIsHalfPurged, WholeUntilDue, DeletedIsEmpty, Doomed
  <1>2. QED  BY <1>1, LifecycleInvariant, PTL

---------------------------------------------------------------------------
\* A step of the composition is a step of each component, or leaves it alone.
LEMMA StepOfEach ==
    ASSUME [ServicesNext]_all_vars
    PROVE  [X!Next]_(X!export_vars) /\ [M!Next]_(M!inbound_vars) /\ [P!Next]_(P!picker_vars)
  BY DEF ServicesNext, all_vars, lifecycle_vars, webhooks, picker, exports, inbound,
         InLifecycle, InWebhooks, InPicker, InExports, InInbound, X!export_vars, M!inbound_vars,
         P!picker_vars

---------------------------------------------------------------------------
(* Exports: an export counts from when it is asked for until it fails, and one  *)
(* that failed never counts again, so one at most is younger than a cooldown.   *)

\* A worker that is not free is at an export.
BuildersInOrder ==
    \A v \in Workers : IF builder[v].pc = "free" THEN builder[v] = X!Free ELSE builder[v].at \in Archives

ExportInv == X!TypeOK /\ BuildersInOrder /\ X!OneExportADay

\* No export was asked for at first.
LEMMA ExportInit == X!Init => ExportInv
  BY ServicesAssumption DEF X!Init, X!Free, X!Rows, X!Working, ExportInv, X!TypeOK, BuildersInOrder, X!OneExportADay, X!Counted

\* A row with another status and another time left, field by field.
LEMMA RowWith ==
    ASSUME NEW was \in X!Rows, NEW to, NEW left, NEW now, now = [was EXCEPT !.status = to, !.left = left]
    PROVE  now = [status |-> to, age |-> was.age, left |-> left]
  BY DEF X!Rows

\* A row that moves keeps its age, and counts no more than it did.
LEMMA RowMoves ==
    ASSUME X!TypeOK, X!OneExportADay, NEW e \in Archives, NEW from,
           NEW to \in {"RUNNING", "READY", "FAILED", "EXPIRED"},
           from \cap {"none", "FAILED"} = {}, X!Moves(e, from, to)
    PROVE  /\ export' \in [Archives -> X!Rows]
           /\ X!OneExportADay'
<1>1. export' \in [Archives -> X!Rows]
  <2> DEFINE left == IF to = "READY" THEN LinkLasts ELSE export[e].left
             r == [status |-> to, age |-> export[e].age, left |-> left]
  <2>1. export[e] \in X!Rows
    BY DEF X!TypeOK
  <2>2. left \in 0 .. LinkLasts
    BY <2>1, ServicesAssumption DEF X!Rows
  <2>3. export' = [export EXCEPT ![e] = r] \/ export' = export
    <3>1. CASE export[e].status \notin from
      BY <3>1 DEF X!Moves
    <3>2. CASE export[e].status \in from
      <4>1. export' = [export EXCEPT ![e] = [export[e] EXCEPT !.status = to, !.left = left]]
        BY <2>1, <3>2 DEF X!Moves, X!TypeOK, X!Rows
      <4> HIDE DEF left
      <4>2. [export[e] EXCEPT !.status = to, !.left = left] = r
        BY <2>1, RowWith
      <4> QED  BY <4>1, <4>2
    <3> QED  BY <3>1, <3>2
  <2> HIDE DEF left
  <2>4. r \in X!Rows
    BY <2>1, <2>2 DEF X!Rows
  <2> HIDE DEF r
  <2> QED  BY <2>3, <2>4 DEF X!TypeOK
<1>2. \A f \in Archives : export'[f].age = export[f].age /\ (X!Counted(f)' => X!Counted(f))
  BY DEF X!TypeOK, X!Moves, X!Counted
<1> QED  BY <1>1, <1>2 DEF X!OneExportADay

\* What leaves the rows alone leaves what counts.
LEMMA SameExports == ASSUME X!OneExportADay, UNCHANGED export PROVE X!OneExportADay'
  BY DEF X!OneExportADay, X!Counted

\* A new export finds every other that counts a cooldown old.
LEMMA AsksStep == ASSUME ExportInv, NEW e \in Archives, X!Asks(e) PROVE ExportInv'
<1>1. X!TypeOK'
  BY ServicesAssumption DEF ExportInv, X!TypeOK, X!Rows, X!Asks, X!Mishap
<1>2. X!OneExportADay'
  BY DEF ExportInv, X!TypeOK, X!Rows, X!Asks, X!OneExportADay, X!Counted
<1>3. BuildersInOrder'
  BY DEF ExportInv, X!Asks, BuildersInOrder
<1> QED  BY <1>1, <1>2, <1>3 DEF ExportInv

\* A worker starts on a queued export.
LEMMA StartsStep == ASSUME ExportInv, NEW v \in Workers, NEW e \in Archives, X!Starts(v, e) PROVE ExportInv'
<1>1. X!TypeOK /\ BuildersInOrder /\ X!OneExportADay
  BY DEF ExportInv
<1>2. /\ export' \in [Archives -> X!Rows]
      /\ X!OneExportADay'
  BY <1>1, RowMoves DEF X!Starts
<1>3. X!TypeOK'
  <2>1. builder' \in [Workers -> X!Working]
    BY <1>1 DEF X!TypeOK, X!Starts, X!Working
  <2>2. task' \in [Archives -> {"none", "queued", "taken"}]
    BY <1>1 DEF X!TypeOK, X!Starts
  <2> QED  BY <1>1, <1>2, <2>1, <2>2 DEF X!TypeOK, X!Starts, X!Rows, X!Working
<1>4. BuildersInOrder'
  BY <1>1 DEF X!TypeOK, X!Starts, BuildersInOrder
<1> QED  BY <1>2, <1>3, <1>4 DEF ExportInv

\* A worker's step changes its own state, and its export's row by a move at most.
LEMMA BuilderStep ==
    ASSUME ExportInv, NEW v \in Workers,
           \/ X!Builds(v) \/ X!IsReady(v) \/ X!Fails(v) \/ X!BuildFails(v)
           \/ X!ReadyFails(v) \/ X!Dies(v) \/ X!FallsSilent(v)
    PROVE  ExportInv'
<1>1. X!TypeOK /\ BuildersInOrder /\ X!OneExportADay
  BY DEF ExportInv
<1>2. builder[v].at \in Archives
  BY <1>1 DEF BuildersInOrder, X!Free, X!Builds, X!IsReady, X!Fails, X!BuildFails, X!ReadyFails, X!Dies, X!FallsSilent
<1>3. /\ export' \in [Archives -> X!Rows]
      /\ X!OneExportADay'
  <2>1. CASE X!IsReady(v)
    BY <1>1, <1>2, <2>1, RowMoves DEF X!IsReady
  <2>2. CASE X!Fails(v)
    BY <1>1, <1>2, <2>2, RowMoves DEF X!Fails
  <2>3. CASE UNCHANGED export
    BY <1>1, <2>3, SameExports DEF X!TypeOK
  <2> QED  BY <2>1, <2>2, <2>3 DEF X!Builds, X!BuildFails, X!ReadyFails, X!Dies, X!FallsSilent
<1>4. builder' \in [Workers -> X!Working]
  BY <1>1 DEF X!TypeOK, X!Working, X!Free, X!Then, X!Finishes, X!Builds, X!IsReady, X!Fails, X!BuildFails, X!ReadyFails,
     X!Dies, X!FallsSilent
<1>5. task' \in [Archives -> {"none", "queued", "taken"}]
  BY <1>1, <1>2 DEF X!TypeOK, X!Finishes, X!Builds, X!IsReady, X!Fails, X!BuildFails, X!ReadyFails,
     X!Dies, X!FallsSilent
<1>6. archive' \subseteq Archives /\ sweep' = sweep /\ failures' \in 0 .. MaxFailures
  BY <1>1, <1>2, ServicesAssumption DEF X!TypeOK, X!Mishap, X!Builds, X!IsReady, X!Fails, X!BuildFails,
     X!ReadyFails, X!Dies, X!FallsSilent
<1>7. X!TypeOK'
  BY <1>1, <1>3, <1>4, <1>5, <1>6 DEF X!TypeOK
<1>8. BuildersInOrder'
  BY <1>1, <1>2 DEF X!TypeOK, X!Working, BuildersInOrder, X!Free, X!Then, X!Finishes, X!Builds, X!IsReady, X!Fails,
     X!BuildFails, X!ReadyFails, X!Dies, X!FallsSilent
<1> QED  BY <1>3, <1>7, <1>8 DEF ExportInv

\* The sweep takes an expired archive away, or fails to.
LEMMA SweepStep ==
    ASSUME ExportInv, X!Sweeps \/ X!SweepFails
    PROVE  ExportInv'
<1>1. X!TypeOK /\ BuildersInOrder /\ X!OneExportADay
  BY DEF ExportInv
<1>2. /\ export' \in [Archives -> X!Rows]
      /\ X!OneExportADay'
  <2>1. CASE X!SweepExpires
    BY <1>1, <2>1, RowMoves DEF X!SweepExpires, X!TypeOK
  <2>2. CASE UNCHANGED export
    BY <1>1, <2>2, SameExports DEF X!TypeOK
  <2> QED  BY <2>1, <2>2 DEF X!Sweeps, X!SweepRemoves, X!SweepFails
<1>3. X!TypeOK'
  BY <1>1, <1>2, ServicesAssumption DEF X!TypeOK, X!Sweeps, X!SweepRemoves, X!SweepExpires, X!SweepFails, X!Mishap
<1>4. BuildersInOrder'
  BY <1>1 DEF BuildersInOrder, X!Sweeps, X!SweepRemoves, X!SweepExpires, X!SweepFails
<1> QED  BY <1>2, <1>3, <1>4 DEF ExportInv

\* Time passes: ages only grow, up to the cooldown.
LEMMA AgesStep == ASSUME ExportInv, X!Tick PROVE ExportInv'
<1>1. X!TypeOK /\ BuildersInOrder /\ X!OneExportADay
  BY DEF ExportInv
<1>2. ASSUME NEW e \in Archives
      PROVE  /\ export'[e] \in X!Rows
             /\ export'[e].status = export[e].status /\ export'[e].age >= export[e].age
  <2> DEFINE was == export[e]
             age == IF was.status = "none" \/ was.age = Cooldown THEN was.age ELSE was.age + 1
             left == IF was.status = "READY" /\ was.left > 0 THEN was.left - 1 ELSE was.left
  <2>1. was \in X!Rows
    BY <1>1 DEF X!TypeOK
  <2>2. export'[e] = [was EXCEPT !.age = age, !.left = left]
    BY <2>1 DEF X!Tick, X!Rows
  <2>3. age \in 0 .. Cooldown /\ left \in 0 .. LinkLasts /\ age >= was.age
    BY <2>1, ServicesAssumption DEF X!Rows
  <2> HIDE DEF age, left
  <2>4. export'[e] = [status |-> was.status, age |-> age, left |-> left]
    BY <2>1, <2>2 DEF X!Rows
  <2> QED  BY <2>1, <2>3, <2>4 DEF X!Rows
<1>3. export' \in [Archives -> X!Rows]
  <2>1. export' = [e \in Archives |-> export'[e]]
    BY DEF X!Tick
  <2> QED  BY <1>2, <2>1
<1>4. X!TypeOK'
  <2>1. builder' \in [Workers -> X!Working]
    <3>1. builder' = [v \in Workers |-> IF builder[v] = X!Free THEN X!Free ELSE [builder[v] EXCEPT !.age = 1]]
      BY DEF X!Tick
    <3>2. \A v \in Workers : builder[v] \in X!Working /\ [builder[v] EXCEPT !.age = 1] \in X!Working
      BY <1>1 DEF X!TypeOK, X!Working
    <3> QED  BY <3>1, <3>2
  <2> QED  BY <1>1, <1>3, <2>1 DEF X!TypeOK, X!Tick, X!Rows, X!Working
<1>5. X!OneExportADay'
  <2>1. \A e \in Archives : export[e].age \in Nat /\ export'[e].age \in Nat
    BY <1>1, <1>2, ServicesAssumption DEF X!TypeOK, X!Rows
  <2>2. \A e \in Archives : X!Counted(e)' /\ export'[e].age < Cooldown => X!Counted(e) /\ export[e].age < Cooldown
    BY <1>2, <2>1, ServicesAssumption DEF X!Counted
  <2> QED  BY <1>1, <2>2 DEF X!OneExportADay
<1>6. BuildersInOrder'
  BY <1>1 DEF X!TypeOK, X!Working, X!Tick, X!Free, BuildersInOrder
<1> QED  BY <1>4, <1>5, <1>6 DEF ExportInv

\* Every step keeps the invariant of the exports.
LEMMA ExportStep == ExportInv /\ [X!Next]_(X!export_vars) => ExportInv'
<1> SUFFICES ASSUME ExportInv, [X!Next]_(X!export_vars)  PROVE ExportInv'
  OBVIOUS
<1>1. CASE UNCHANGED X!export_vars
  BY <1>1, SameExports DEF ExportInv, X!export_vars, X!TypeOK, BuildersInOrder
<1> QED  BY <1>1, AsksStep, StartsStep, BuilderStep, SweepStep, AgesStep DEF X!Next, X!GoesOn

\* Exports: a workspace has one export at most that counts within the cooldown,
\* for every number of workers, deaths and jobs given out twice.
THEOREM OneExportWithinCooldown == ServicesSpec => []OneExportADay
<1>1. ServicesSpec => X!Init /\ [][X!Next]_(X!export_vars)
  BY StepOfEach, PTL DEF ServicesSpec, ServicesInit
<1>2. ExportInv => OneExportADay
  BY DEF ExportInv, OneExportADay
<1> QED  BY <1>1, <1>2, ExportInit, ExportStep, PTL

---------------------------------------------------------------------------
(* Inbound: the row says that something was made of its message, and nothing    *)
(* takes that back.                                                             *)

\* A job that is not over has an attempt left.
AttemptsInOrder == \A c \in Copies : intake[c].pc # "over" => intake[c].left > 0

InboundInv == M!TypeOK /\ AttemptsInOrder /\ M!ActsOnce

\* Nothing has come of the message yet.
LEMMA InboundInit == M!Init => InboundInv
<1> SUFFICES ASSUME M!Init PROVE InboundInv
  OBVIOUS
<1>2. message \in M!Messages /\ message.outcome = "none"
  BY DEF M!Init, M!NoRow, M!Unclaimed, M!Messages
<1>3. intake \in [Copies -> M!Jobs] /\ AttemptsInOrder
  BY ServicesAssumption DEF M!Init, M!Jobs, AttemptsInOrder
<1>4. M!TypeOK
  BY <1>2, <1>3, ServicesAssumption DEF M!Init, M!TypeOK
<1>5. M!ActsOnce
  BY <1>2 DEF M!Init, M!ActsOnce
<1> QED  BY <1>3, <1>4, <1>5 DEF InboundInv

\* A job that goes on keeps its attempts, one that retries has one less.
LEMMA JobGoes ==
    ASSUME M!TypeOK, AttemptsInOrder, NEW c \in Copies,
           NEW pc \in {"waits", "tries", "claims", "decides", "settles", "over"},
           intake[c].pc # "over" \/ pc = "over", M!Goes(c, pc)
    PROVE  AttemptsInOrder' /\ intake' \in [Copies -> M!Jobs]
<1>1. intake \in [Copies -> M!Jobs]
  BY DEF M!TypeOK
<1> QED  BY <1>1 DEF M!Goes, AttemptsInOrder, M!Jobs

\* So does one that tries to take the row over.
LEMMA JobTries ==
    ASSUME M!TypeOK, AttemptsInOrder, NEW c \in Copies, intake[c].pc # "over", NEW copy \in Copies \cup {None},
           intake' = [intake EXCEPT ![c] = [pc |-> "tries", left |-> intake[c].left, read |-> copy]]
    PROVE  AttemptsInOrder' /\ intake' \in [Copies -> M!Jobs]
<1>1. intake \in [Copies -> M!Jobs]
  BY DEF M!TypeOK
<1> QED  BY <1>1 DEF AttemptsInOrder, M!Jobs

\* A job that failed has a try less, or is over.
LEMMA JobRetries ==
    ASSUME M!TypeOK, AttemptsInOrder, NEW c \in Copies, intake[c].pc # "over", M!Retries(c)
    PROVE  AttemptsInOrder' /\ intake' \in [Copies -> M!Jobs]
<1>1. intake \in [Copies -> M!Jobs] /\ intake[c].left \in 1 .. Attempts
  BY ServicesAssumption DEF M!TypeOK, M!Jobs, AttemptsInOrder
<1> QED  BY <1>1, ServicesAssumption DEF M!Retries, M!Last, AttemptsInOrder, M!Jobs

\* A fresh claim is one of its ages.
LEMMA Claimed == 0 \in 0 .. 3
  OBVIOUS

\* Only the outcome and the claim of a row change, unless a copy takes it over.
LEMMA RowChanges ==
    ASSUME M!TypeOK, NEW o \in {"none", "RECEIVED", "ACTED", "FAILED", "UNAUTHENTICATED", "REFUSED"},
           NEW n \in 0 .. 3, message' = [message EXCEPT !.outcome = o, !.claim = n]
    PROVE  message' \in M!Messages /\ message'.outcome = o
<1>1. message \in M!Messages
  BY DEF M!TypeOK
<1>2. message' = [outcome |-> o, claim |-> n, raw |-> message.raw, pass |-> message.pass]
  BY <1>1 DEF M!Messages
<1>3. message.raw \in Copies \cup {None} /\ message.pass \in BOOLEAN
  BY <1>1 DEF M!Messages
<1> QED  BY <1>2, <1>3 DEF M!Messages, M!Unacted, M!Refusals, M!Unclaimed

\* A new outcome leaves the claim.
LEMMA SameClaim ==
    ASSUME M!TypeOK, NEW o
    PROVE  /\ [message EXCEPT !.outcome = o] = [message EXCEPT !.outcome = o, !.claim = message.claim]
           /\ message.claim \in 0 .. 3
  BY DEF M!TypeOK, M!Messages, M!Unclaimed

\* A new claim leaves the outcome.
LEMMA SameOutcome ==
    ASSUME M!TypeOK, NEW n
    PROVE  /\ [message EXCEPT !.claim = n] = [message EXCEPT !.outcome = message.outcome, !.claim = n]
           /\ message.outcome \in {"none", "RECEIVED", "ACTED", "FAILED", "UNAUTHENTICATED", "REFUSED"}
           /\ message.claim \in 0 .. 3
  BY DEF M!TypeOK, M!Messages, M!Unclaimed, M!Unacted, M!Refusals

\* A row that lets go of its message says what it said of what was made of it.
LEMMA RowLetsGo ==
    ASSUME M!TypeOK, NEW c \in Copies, M!LetsGo(c)
    PROVE  /\ message' \in M!Messages
           /\ message'.outcome = "ACTED" <=> message.outcome = "ACTED"
           /\ M!Retries(c)
<1>1. message \in M!Messages
  BY DEF M!TypeOK
<1>2. CASE message.outcome # "RECEIVED"
  BY <1>1, <1>2 DEF M!LetsGo
<1>3. CASE message.outcome = "RECEIVED" /\ M!Last(c)
  <2>1. message' = [message EXCEPT !.outcome = "FAILED", !.claim = 0]
    BY <1>3 DEF M!LetsGo
  <2> QED  BY <1>1, <1>3, <2>1, RowChanges DEF M!LetsGo
<1>4. CASE message.outcome = "RECEIVED" /\ ~M!Last(c)
  BY <1>1, <1>4 DEF M!LetsGo, M!Messages, M!Unclaimed
<1> QED  BY <1>2, <1>3, <1>4

\* One step of one copy's job.
LEMMA JobStep ==
    ASSUME InboundInv, NEW c \in Copies, M!Delivers(c) \/ M!GoesOn(c) \/ M!Errs(c) \/ M!Dies(c)
    PROVE  InboundInv'
<1>1. M!TypeOK /\ AttemptsInOrder /\ M!ActsOnce
  BY DEF InboundInv
<1>2. CASE M!Delivers(c)
  <2>1. AttemptsInOrder' /\ intake' \in [Copies -> M!Jobs]
    BY <1>1, <1>2, JobGoes DEF M!Delivers, M!TypeOK, AttemptsInOrder
  <2> QED  BY <1>1, <1>2, <2>1, ServicesAssumption DEF M!Delivers, M!Fault, InboundInv, M!TypeOK, M!ActsOnce
<1>3. CASE M!Receives(c) \/ M!TakesOver(c)
  <2>1. intake[c].pc # "over"
    BY <1>3 DEF M!Receives, M!TakesOver
  <2>2. message.raw \in Copies \cup {None}
    BY <1>1 DEF M!TypeOK, M!Messages
  <2>3. \/ intake' = [intake EXCEPT ![c] = [pc |-> "tries", left |-> intake[c].left, read |-> message.raw]]
        \/ M!Goes(c, "claims")
        \/ M!Goes(c, "over")
    BY <1>3 DEF M!Receives, M!TakesOver
  <2>4. AttemptsInOrder' /\ intake' \in [Copies -> M!Jobs]
    BY <1>1, <2>1, <2>2, <2>3, JobGoes, JobTries
  <2>5. message' \in M!Messages /\ raw' \subseteq Copies /\ made' = made /\ faults' \in 0 .. MaxFaults
    <3>1. M!Received(c) \in M!Messages
      BY DEF M!Received, M!Messages, M!Unclaimed
    <3> QED  BY <1>1, <1>3, <3>1, ServicesAssumption DEF M!Receives, M!TakesOver, M!Fault, M!TypeOK
  <2>6. message'.outcome = "ACTED" <=> message.outcome = "ACTED"
    BY <1>3 DEF M!Receives, M!TakesOver, M!Received, M!Unacted, M!Refusals
  <2> QED  BY <1>1, <2>4, <2>5, <2>6 DEF InboundInv, M!TypeOK, M!ActsOnce
<1>4. CASE M!IsMissing(c)
  <2>1. AttemptsInOrder' /\ intake' \in [Copies -> M!Jobs]
    BY <1>1, <1>4, JobGoes DEF M!IsMissing
  <2> QED  BY <1>1, <1>4, <2>1 DEF M!IsMissing, InboundInv, M!TypeOK, M!ActsOnce
<1>5. CASE M!Claims(c)
  <2>1. AttemptsInOrder' /\ intake' \in [Copies -> M!Jobs]
    BY <1>1, <1>5, JobGoes DEF M!Claims
  <2>2. message' \in M!Messages /\ message'.outcome = message.outcome
    <3>1. message' = [message EXCEPT !.outcome = message.outcome, !.claim = 0]
      BY <1>1, <1>5, SameOutcome DEF M!Claims
    <3> QED  BY <1>1, <3>1, SameOutcome, RowChanges, Claimed
  <2> QED  BY <1>1, <1>5, <2>1, <2>2 DEF M!Claims, InboundInv, M!TypeOK, M!ActsOnce
<1>6. CASE M!IsBusy(c)
  <2>1. AttemptsInOrder' /\ intake' \in [Copies -> M!Jobs]
    BY <1>1, <1>6, JobRetries DEF M!IsBusy
  <2> QED  BY <1>1, <1>6, <2>1 DEF M!IsBusy, InboundInv, M!TypeOK, M!ActsOnce
<1>7. CASE M!Refuses(c)
  <2>1. CASE message.outcome \in {"ACTED", "none"}
    BY <1>1, <1>7, <2>1, RowLetsGo, JobRetries DEF M!Refuses, InboundInv, M!TypeOK, M!ActsOnce
  <2>2. CASE message.outcome \notin {"ACTED", "none"}
    <3>1. AttemptsInOrder' /\ intake' \in [Copies -> M!Jobs]
      BY <1>1, <1>7, <2>2, JobGoes DEF M!Refuses
    <3>2. message' \in M!Messages /\ message'.outcome # "ACTED"
      <4>1. PICK o \in {"UNAUTHENTICATED", "REFUSED"} : message' = [message EXCEPT !.outcome = o, !.claim = 0]
        BY <1>7, <2>2 DEF M!Refuses
      <4> QED  BY <1>1, <4>1, RowChanges, Claimed
    <3> QED  BY <1>1, <1>7, <2>2, <3>1, <3>2 DEF M!Refuses, InboundInv, M!TypeOK, M!ActsOnce
  <2> QED  BY <2>1, <2>2
<1>8. CASE M!Acts(c)
  <2>1. CASE message.outcome = "RECEIVED" /\ message.pass
    <3>1. AttemptsInOrder' /\ intake' \in [Copies -> M!Jobs]
      BY <1>1, <1>8, <2>1, JobGoes DEF M!Acts
    <3>3. made' = 1 /\ message' = [message EXCEPT !.outcome = "ACTED"]
      BY <1>1, <1>8, <2>1 DEF M!Acts, M!ActsOnce
    <3>4. M!TypeOK'
      <4>1. message' = [message EXCEPT !.outcome = "ACTED", !.claim = message.claim] /\ message.claim \in 0 .. 3
        BY <1>1, <3>3, SameClaim
      <4> QED  BY <1>1, <1>8, <3>1, <3>3, <4>1, RowChanges DEF M!Acts, M!TypeOK
    <3>5. M!ActsOnce'
      BY <1>1, <3>3 DEF M!TypeOK, M!ActsOnce
    <3> QED  BY <3>1, <3>4, <3>5 DEF InboundInv
  <2>2. CASE ~(message.outcome = "RECEIVED" /\ message.pass)
    BY <1>1, <1>8, <2>2, RowLetsGo, JobRetries DEF M!Acts, InboundInv, M!TypeOK, M!ActsOnce
  <2> QED  BY <2>1, <2>2
<1>9. CASE M!Settles(c)
  <2>1. AttemptsInOrder' /\ intake' \in [Copies -> M!Jobs]
    BY <1>1, <1>9, JobGoes DEF M!Settles
  <2>2. message' \in M!Messages /\ message'.outcome = message.outcome
    <3>1. message' = [message EXCEPT !.outcome = message.outcome, !.claim = 0]
      BY <1>1, <1>9, SameOutcome DEF M!Settles
    <3> QED  BY <1>1, <3>1, SameOutcome, RowChanges, Claimed
  <2> QED  BY <1>1, <1>9, <2>1, <2>2 DEF M!Settles, InboundInv, M!TypeOK, M!ActsOnce
<1>10. CASE M!Errs(c)
  BY <1>1, <1>10, RowLetsGo, JobRetries, ServicesAssumption DEF M!Errs, M!Fault, InboundInv, M!TypeOK, M!ActsOnce
<1>11. CASE M!Dies(c)
  <2>1. AttemptsInOrder' /\ intake' \in [Copies -> M!Jobs]
    BY <1>1, <1>11, JobGoes DEF M!Dies
  <2> QED  BY <1>1, <1>11, <2>1, ServicesAssumption DEF M!Dies, M!Fault, InboundInv, M!TypeOK, M!ActsOnce
<1> QED  BY <1>2, <1>3, <1>4, <1>5, <1>6, <1>7, <1>8, <1>9, <1>10, <1>11 DEF M!GoesOn

\* Every step keeps the invariant of the message.
LEMMA InboundStep == InboundInv /\ [M!Next]_(M!inbound_vars) => InboundInv'
<1> SUFFICES ASSUME InboundInv, [M!Next]_(M!inbound_vars)  PROVE InboundInv'
  OBVIOUS
<1>1. CASE M!SweepFails
  <2>1. message' \in M!Messages /\ message'.outcome = "FAILED"
    BY <1>1, RowChanges DEF M!SweepFails, InboundInv
  <2> QED  BY <1>1, <2>1 DEF M!SweepFails, InboundInv, M!TypeOK, AttemptsInOrder, M!ActsOnce
<1>2. CASE M!SweepForgets
  <2>1. M!NoRow \in M!Messages /\ M!NoRow.outcome = "none"
    BY DEF M!NoRow, M!Messages, M!Unclaimed
  <2> QED  BY <1>2, <2>1 DEF M!SweepForgets, InboundInv, M!TypeOK, AttemptsInOrder, M!ActsOnce, M!Unacted, M!Refusals
<1>3. CASE M!Tick
  <2>1. message' \in M!Messages /\ message'.outcome = message.outcome
    <3>1. M!TypeOK /\ message.claim \in 0 .. 3
      BY SameOutcome DEF InboundInv
    <3>3. message.claim + 1 \in 0 .. 3
      BY <1>3, <3>1 DEF M!Tick
    <3>2. message' = [message EXCEPT !.outcome = message.outcome, !.claim = message.claim + 1]
      BY <1>3, <3>1, SameOutcome DEF M!Tick
    <3> QED  BY <3>1, <3>2, <3>3, SameOutcome, RowChanges
  <2> QED  BY <1>3, <2>1 DEF M!Tick, InboundInv, M!TypeOK, AttemptsInOrder, M!ActsOnce
<1>4. CASE UNCHANGED M!inbound_vars
  BY <1>4 DEF M!inbound_vars, InboundInv, M!TypeOK, AttemptsInOrder, M!ActsOnce
<1> QED  BY <1>1, <1>2, <1>3, <1>4, JobStep DEF M!Next

\* Inbound: a message becomes one ticket or reply, exactly if its row says so, for
\* every number of deliveries, attempts and faults.
THEOREM MessageActsOnce == ServicesSpec => []ActsOnce
<1>1. ServicesSpec => M!Init /\ [][M!Next]_(M!inbound_vars)
  BY StepOfEach, PTL DEF ServicesSpec, ServicesInit
<1>2. InboundInv => ActsOnce
  BY DEF InboundInv, ActsOnce
<1> QED  BY <1>1, <1>2, InboundInit, InboundStep, PTL

---------------------------------------------------------------------------
(* Picker: its rows and what the reconcile has read keep their types; what the  *)
(* picker promises is that it settles, which is liveness.                       *)

\* Each new name is a change.
PickerInv == P!TypeOK /\ name <= changes

\* Rows that repeat some standings and a name are of their type.
LEMMA ExpectedAreRows ==
    ASSUME NEW s \in [People -> P!Standings], NEW n \in P!Names
    PROVE  P!ExpectedRows(s, n) \in [People -> P!Rows]
  BY DEF P!ExpectedRows, P!Rows, P!Listed, P!Row, P!Standings, P!Shown

\* Rows that a change mirrors are of their type.
LEMMA MirrorKeeps ==
    ASSUME P!TypeOK, NEW who, NEW edit \in [P!Listed -> P!Listed], P!Mirror(who, edit)
    PROVE  rows' \in [People -> P!Rows] /\ late' \subseteq People
<1>1. \A p \in People : rows[p] # P!NoRow => rows[p] \in P!Listed
  BY DEF P!TypeOK, P!Rows
<1> QED  BY <1>1 DEF P!Mirror, P!TypeOK, P!Rows

\* A listed row with another standing or another name is one.
LEMMA ListedWith ==
    ASSUME NEW r \in P!Listed, NEW st \in P!Shown, NEW n \in P!Names
    PROVE  [r EXCEPT !.standing = st] \in P!Listed /\ [r EXCEPT !.name = n] \in P!Listed
  BY DEF P!Listed

\* The picker starts with the founder's row.
LEMMA PickerInit == P!Init => PickerInv
<1> SUFFICES ASSUME P!Init PROVE PickerInv
  OBVIOUS
<1>1. standing \in [People -> P!Standings] /\ name \in P!Names /\ name <= changes
  BY ServicesAssumption DEF P!Init, P!Standings, P!Shown, P!Names
<1> QED  BY <1>1, ExpectedAreRows, ServicesAssumption DEF PickerInv, P!Init, P!TypeOK, P!AtRest, P!Unread

\* A change keeps the types.
LEMMA ChangeKeeps ==
    ASSUME PickerInv, P!ChangesOrganization \/ \E p \in People : P!ChangesMember(p) \/ P!Erases(p)
    PROVE  PickerInv'
<1>0. P!TypeOK /\ name <= changes
  BY DEF PickerInv
<1>1. /\ changes \in 0 .. MaxChanges /\ changes < MaxChanges /\ changes' = changes + 1
      /\ UNCHANGED <<join, reconcile>>
  BY <1>0 DEF P!TypeOK, P!ChangesOrganization, P!ChangesMember, P!Erases, P!Changes
<1>2. changes' \in 0 .. MaxChanges
  BY <1>1, ServicesAssumption
<1>3. ASSUME NEW p \in People, P!ChangesMember(p) PROVE PickerInv'
  <2>1. standing' \in [People -> P!Standings] /\ standing'[p] \in P!Shown /\ name' = name
    BY <1>0, <1>3 DEF P!ChangesMember, P!Disable, P!Enable, P!Remove, P!TypeOK, P!Standings, P!Shown
  <2>2. [r \in P!Listed |-> [r EXCEPT !.standing = standing'[p]]] \in [P!Listed -> P!Listed]
    BY <2>1 DEF P!Listed
  <2>3. rows' \in [People -> P!Rows] /\ late' \subseteq People
    BY <1>0, <1>3, <2>2, MirrorKeeps DEF P!ChangesMember
  <2>4. name' <= changes'
    BY <1>0, <1>1, <2>1 DEF P!TypeOK, P!Names
  <2> QED  BY <1>0, <1>1, <1>2, <2>1, <2>3, <2>4 DEF PickerInv, P!TypeOK
<1>4. ASSUME NEW p \in People, P!Erases(p) PROVE PickerInv'
  <2>1. standing' \in [People -> P!Standings] /\ name' = name
    BY <1>0, <1>4 DEF P!Erases, P!TypeOK, P!Standings
  <2>2. [r \in P!Listed |-> [r EXCEPT !.standing = "REMOVED"]] \in [P!Listed -> P!Listed]
    BY DEF P!Listed, P!Shown
  <2>3. rows' \in [People -> P!Rows] /\ late' \subseteq People
    BY <1>0, <1>4, <2>2, MirrorKeeps DEF P!Erases
  <2>4. name' <= changes'
    BY <1>0, <1>1, <2>1 DEF P!TypeOK, P!Names
  <2> QED  BY <1>0, <1>1, <1>2, <2>1, <2>3, <2>4 DEF PickerInv, P!TypeOK
<1>5. CASE P!ChangesOrganization
  <2>1. standing' = standing /\ name' = name + 1
    BY <1>5 DEF P!ChangesOrganization
  <2>2. name' \in P!Names /\ name' <= changes'
    <3>1. name \in 0 .. MaxChanges /\ name <= changes /\ changes \in 0 .. MaxChanges /\ changes < MaxChanges
      BY <1>0, <1>1 DEF P!TypeOK, P!Names
    <3>2. name' = name + 1 /\ changes' = changes + 1 /\ MaxChanges \in Nat
      BY <1>1, <2>1, ServicesAssumption
    <3>3. name + 1 \in 0 .. MaxChanges /\ name + 1 <= changes + 1
      BY <3>1, <3>2
    <3> QED  BY <3>2, <3>3 DEF P!Names
  <2>3. [r \in P!Listed |-> [r EXCEPT !.name = name']] \in [P!Listed -> P!Listed]
    BY <2>2 DEF P!Listed
  <2>4. rows' \in [People -> P!Rows] /\ late' \subseteq People
    BY <1>0, <1>5, <2>3, MirrorKeeps DEF P!ChangesOrganization
  <2> QED  BY <1>0, <1>1, <1>2, <2>1, <2>2, <2>4 DEF PickerInv, P!TypeOK
<1> QED  BY <1>3, <1>4, <1>5

\* An acceptance and the end of an account do.
LEMMA JoinKeeps ==
    ASSUME PickerInv, NEW p \in People, P!Resolves(p) \/ P!Joins(p) \/ P!Tombstones(p)
    PROVE  PickerInv'
<1>0. P!TypeOK /\ name <= changes
  BY DEF PickerInv
<1>1. CASE P!Resolves(p)
  BY <1>0, <1>1 DEF P!Resolves, P!TypeOK, PickerInv
<1>2. CASE P!Joins(p)
  <2>1. /\ standing' = [standing EXCEPT ![p] = "ACTIVE"] /\ rows' = [rows EXCEPT ![p] = P!Row("ACTIVE", join[p])]
        /\ join' = [join EXCEPT ![p] = P!Unread] /\ late' = {} /\ UNCHANGED <<name, reconcile>>
        /\ changes < MaxChanges /\ changes' = changes + 1 /\ join[p] # P!Unread
    BY <1>2 DEF P!Joins, P!Changes
  <2>2. P!Row("ACTIVE", join[p]) \in P!Rows
    BY <1>0, <2>1 DEF P!TypeOK, P!Row, P!Rows, P!Listed, P!Shown
  <2>3. changes' \in 0 .. MaxChanges /\ name' <= changes'
    BY <1>0, <2>1, ServicesAssumption DEF P!TypeOK, P!Names
  <2>4. standing' \in [People -> P!Standings]
    BY <1>0, <2>1 DEF P!TypeOK, P!Standings, P!Shown
  <2> QED  BY <1>0, <2>1, <2>2, <2>3, <2>4 DEF PickerInv, P!TypeOK
<1>3. CASE P!Tombstones(p)
  BY <1>0, <1>3 DEF P!Tombstones, P!TypeOK, P!Rows, PickerInv
<1> QED  BY <1>1, <1>2, <1>3

\* What the reconcile holds.
Reconciling ==
    {P!AtRest} \cup [pc : {"rows"}, rows : [People -> P!Rows]]
      \cup [pc : {"name"}, rows : [People -> P!Rows], name : P!Names]
      \cup [pc : {"plan"}, rows : [People -> P!Rows], want : [People -> P!Rows]]

\* It holds what it has read so far.
LEMMA ReconcileHolds ==
    ASSUME reconcile \in Reconciling
    PROVE  /\ reconcile.pc = "rows" => reconcile.rows \in [People -> P!Rows]
           /\ reconcile.pc = "name" => reconcile.rows \in [People -> P!Rows] /\ reconcile.name \in P!Names
           /\ reconcile.pc = "plan" => reconcile.rows \in [People -> P!Rows] /\ reconcile.want \in [People -> P!Rows]
  BY DEF Reconciling, P!AtRest

\* The reconcile reads and writes rows.
LEMMA ReconcileKeeps ==
    ASSUME PickerInv, P!Reconciles \/ P!RollsBack
    PROVE  PickerInv'
<1>0. P!TypeOK /\ name <= changes /\ reconcile \in Reconciling
  BY DEF PickerInv, P!TypeOK, Reconciling
<1>1. UNCHANGED <<standing, name, join, changes>>
  BY DEF P!Reconciles, P!ReadsRows, P!ReadsName, P!ReadsMembers, P!Writes, P!RollsBack
<1>2. rows' \in [People -> P!Rows] /\ late' \subseteq People
  <2>1. CASE P!Writes
    BY <1>0, <2>1, ReconcileHolds DEF P!Writes, P!Planned, P!TypeOK
  <2>2. CASE ~P!Writes
    BY <1>0, <2>2 DEF P!Reconciles, P!ReadsRows, P!ReadsName, P!ReadsMembers, P!RollsBack, P!TypeOK
  <2> QED  BY <2>1, <2>2
<1>3. reconcile' \in Reconciling
  <2>1. CASE P!ReadsRows
    BY <1>0, <2>1 DEF P!ReadsRows, P!TypeOK, Reconciling
  <2>2. CASE P!ReadsName
    BY <1>0, <2>2, ReconcileHolds DEF P!ReadsName, P!TypeOK, Reconciling
  <2>3. CASE P!ReadsMembers
    <3>1. P!ExpectedRows(standing, reconcile.name) \in [People -> P!Rows]
      BY <1>0, <2>3, ReconcileHolds, ExpectedAreRows DEF P!ReadsMembers, P!TypeOK
    <3> QED  BY <1>0, <2>3, <3>1, ReconcileHolds DEF P!ReadsMembers, Reconciling
  <2>4. CASE P!Writes \/ P!RollsBack
    BY <2>4 DEF P!Writes, P!RollsBack, Reconciling
  <2> QED  BY <2>1, <2>2, <2>3, <2>4 DEF P!Reconciles
<1> QED  BY <1>0, <1>1, <1>2, <1>3 DEF PickerInv, P!TypeOK, Reconciling

\* The picker keeps its types, whatever changes, acceptances and erasures meet
\* the reconcile.
THEOREM PickerTypes == ServicesSpec => []P!TypeOK
<1>1. ServicesSpec => P!Init /\ [][P!Next]_(P!picker_vars)
  BY StepOfEach, PTL DEF ServicesSpec, ServicesInit
<1>2. PickerInv /\ [P!Next]_(P!picker_vars) => PickerInv'
  <2> SUFFICES ASSUME PickerInv, [P!Next]_(P!picker_vars) PROVE PickerInv'
    OBVIOUS
  <2>1. CASE UNCHANGED P!picker_vars
    BY <2>1 DEF PickerInv, P!TypeOK, P!picker_vars
  <2> QED  BY <2>1, ChangeKeeps, JoinKeeps, ReconcileKeeps DEF P!Next
<1>3. PickerInv => P!TypeOK
  BY DEF PickerInv
<1> QED  BY <1>1, <1>2, <1>3, PickerInit, PTL

=============================================================================
