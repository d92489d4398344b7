------------------------ MODULE DrainRequestsProofs -------------------------
(* Proofs about DrainRequests, for every number of workers, jobs and events. *)
EXTENDS DrainRequests, TLAPS

\* Commit keeps the invariant.
LEMMA StepCommit ==
    ASSUME IndInv, Commit
    PROVE  IndInv'
<1> USE DrainRequestsAssumption DEF IndInv, Actors, log, wire, queue, run, reading
<1>1. TypeOK'
  <2>1. {resting', listening', flag'} \subseteq BOOLEAN
    BY Zenon DEF Commit, TypeOK
  <2>2. tail' \in 0 .. MaxEvents /\ clear' \in 0 .. tail' /\ cursor' \in 0 .. clear' /\ wakes' \in 0 .. tail'
    BY DEF Commit, TypeOK
  <2>3. waiting' \subseteq Jobs /\ tries' \in [Jobs -> 0 .. Attempts] /\ job' \in [Workers -> Jobs \cup {None}]
    BY DEF Commit, TypeOK
  <2>4. stage' \in [Actors -> {"idle", "due", "set", "taken", "step", "running"}]
    BY DEF Commit, TypeOK
  <2>5. upto' \in [Workers -> 0 .. MaxEvents] /\ more' \in [Workers -> BOOLEAN]
    BY DEF Commit, TypeOK
  <2>6. throws' \in 0 .. MaxThrows /\ mishaps' \in 0 .. MaxMishaps
    BY DEF Commit, TypeOK
  <2>. QED  BY <2>1, <2>2, <2>3, <2>4, <2>5, <2>6 DEF TypeOK
<1>2. NoLostWake'
  BY SMTT(30)
    DEF Commit, TypeOK, NoLostWake, FlagIsOwned, WorkersInOrder, LookedAfter, Owners
<1>3. FlagIsOwned'
  BY SMTT(30) DEF Commit, TypeOK, FlagIsOwned, WorkersInOrder, Owners
<1>4. OneOwner'
  BY SMTT(30) DEF Commit, TypeOK, OneOwner, WorkersInOrder, Owners
<1>5. WorkersInOrder'
  BY SMTT(30) DEF Commit, TypeOK, WorkersInOrder, Free
<1>6. OneWaitingDrain'
  BY <1>4 DEF OneWaitingDrain, OneOwner, Owners
<1>. QED  BY <1>1, <1>2, <1>3, <1>4, <1>5, <1>6

\* HorizonLifts keeps the invariant.
LEMMA StepHorizonLifts ==
    ASSUME IndInv, HorizonLifts
    PROVE  IndInv'
<1> USE DrainRequestsAssumption DEF IndInv, Actors, log, wire, queue, run, reading
<1>1. TypeOK'
  BY SMTT(30) DEF HorizonLifts, TypeOK
<1>2. NoLostWake'
  BY SMTT(30)
    DEF HorizonLifts, TypeOK, NoLostWake, FlagIsOwned, WorkersInOrder, LookedAfter,
        Owners
<1>3. FlagIsOwned'
  BY SMTT(30) DEF HorizonLifts, TypeOK, FlagIsOwned, WorkersInOrder, Owners
<1>4. OneOwner'
  BY SMTT(30) DEF HorizonLifts, TypeOK, OneOwner, WorkersInOrder, Owners
<1>5. WorkersInOrder'
  BY SMTT(30) DEF HorizonLifts, TypeOK, WorkersInOrder, Free
<1>6. OneWaitingDrain'
  BY <1>4 DEF OneWaitingDrain, OneOwner, Owners
<1>. QED  BY <1>1, <1>2, <1>3, <1>4, <1>5, <1>6

\* BackoffEnds keeps the invariant.
LEMMA StepBackoffEnds ==
    ASSUME IndInv, BackoffEnds
    PROVE  IndInv'
<1> USE DrainRequestsAssumption DEF IndInv, Actors, log, wire, queue, run, reading
<1>1. TypeOK'
  <2>1. {resting', listening', flag'} \subseteq BOOLEAN
    BY Zenon DEF BackoffEnds, TypeOK
  <2>2. tail' \in 0 .. MaxEvents /\ clear' \in 0 .. tail' /\ cursor' \in 0 .. clear' /\ wakes' \in 0 .. tail'
    BY DEF BackoffEnds, TypeOK
  <2>3. waiting' \subseteq Jobs /\ tries' \in [Jobs -> 0 .. Attempts] /\ job' \in [Workers -> Jobs \cup {None}]
    BY DEF BackoffEnds, TypeOK
  <2>4. stage' \in [Actors -> {"idle", "due", "set", "taken", "step", "running"}]
    BY DEF BackoffEnds, TypeOK
  <2>5. upto' \in [Workers -> 0 .. MaxEvents] /\ more' \in [Workers -> BOOLEAN]
    BY DEF BackoffEnds, TypeOK
  <2>6. throws' \in 0 .. MaxThrows /\ mishaps' \in 0 .. MaxMishaps
    BY DEF BackoffEnds, TypeOK
  <2>. QED  BY <2>1, <2>2, <2>3, <2>4, <2>5, <2>6 DEF TypeOK
<1>2. NoLostWake'
  BY SMTT(30)
    DEF BackoffEnds, TypeOK, NoLostWake, FlagIsOwned, WorkersInOrder, LookedAfter,
        Owners
<1>3. FlagIsOwned'
  BY SMTT(30) DEF BackoffEnds, TypeOK, FlagIsOwned, WorkersInOrder, Owners
<1>4. OneOwner'
  BY SMTT(30) DEF BackoffEnds, TypeOK, OneOwner, WorkersInOrder, Owners
<1>5. WorkersInOrder'
  BY SMTT(30) DEF BackoffEnds, TypeOK, WorkersInOrder, Free
<1>6. OneWaitingDrain'
  BY <1>4 DEF OneWaitingDrain, OneOwner, Owners
<1>. QED  BY <1>1, <1>2, <1>3, <1>4, <1>5, <1>6

\* ConnectionLost keeps the invariant.
LEMMA StepConnectionLost ==
    ASSUME IndInv, ConnectionLost
    PROVE  IndInv'
<1> USE DrainRequestsAssumption DEF IndInv, Actors, log, wire, queue, run, reading
<1>1. TypeOK'
  <2>1. {resting', listening', flag'} \subseteq BOOLEAN
    BY Zenon DEF ConnectionLost, Mishap, TypeOK
  <2>2. tail' \in 0 .. MaxEvents /\ clear' \in 0 .. tail' /\ cursor' \in 0 .. clear' /\ wakes' \in 0 .. tail'
    BY DEF ConnectionLost, Mishap, TypeOK
  <2>3. waiting' \subseteq Jobs /\ tries' \in [Jobs -> 0 .. Attempts] /\ job' \in [Workers -> Jobs \cup {None}]
    BY DEF ConnectionLost, Mishap, TypeOK
  <2>4. stage' \in [Actors -> {"idle", "due", "set", "taken", "step", "running"}]
    BY DEF ConnectionLost, Mishap, TypeOK
  <2>5. upto' \in [Workers -> 0 .. MaxEvents] /\ more' \in [Workers -> BOOLEAN]
    BY DEF ConnectionLost, Mishap, TypeOK
  <2>6. throws' \in 0 .. MaxThrows /\ mishaps' \in 0 .. MaxMishaps
    BY DEF ConnectionLost, Mishap, TypeOK
  <2>. QED  BY <2>1, <2>2, <2>3, <2>4, <2>5, <2>6 DEF TypeOK
<1>2. NoLostWake'
  BY SMTT(30)
    DEF ConnectionLost, Mishap, TypeOK, NoLostWake, FlagIsOwned, WorkersInOrder,
        LookedAfter, Owners
<1>3. FlagIsOwned'
  BY SMTT(30)
    DEF ConnectionLost, Mishap, TypeOK, FlagIsOwned, WorkersInOrder, Owners
<1>4. OneOwner'
  BY SMTT(30) DEF ConnectionLost, Mishap, TypeOK, OneOwner, WorkersInOrder, Owners
<1>5. WorkersInOrder'
  BY SMTT(30) DEF ConnectionLost, Mishap, TypeOK, WorkersInOrder, Free
<1>6. OneWaitingDrain'
  BY <1>4 DEF OneWaitingDrain, OneOwner, Owners
<1>. QED  BY <1>1, <1>2, <1>3, <1>4, <1>5, <1>6

\* Reconnects keeps the invariant.
LEMMA StepReconnects ==
    ASSUME IndInv, Reconnects
    PROVE  IndInv'
<1> USE DrainRequestsAssumption DEF IndInv, Actors, log, wire, queue, run, reading
<1>1. TypeOK'
  BY SMTT(30) DEF Reconnects, TypeOK
<1>2. NoLostWake'
  BY SMTT(30)
    DEF Reconnects, TypeOK, NoLostWake, FlagIsOwned, WorkersInOrder, LookedAfter,
        Owners
<1>3. FlagIsOwned'
  BY SMTT(30) DEF Reconnects, TypeOK, FlagIsOwned, WorkersInOrder, Owners
<1>4. OneOwner'
  BY SMTT(30) DEF Reconnects, TypeOK, OneOwner, WorkersInOrder, Owners
<1>5. WorkersInOrder'
  BY SMTT(30) DEF Reconnects, TypeOK, WorkersInOrder, Free
<1>6. OneWaitingDrain'
  BY <1>4 DEF OneWaitingDrain, OneOwner, Owners
<1>. QED  BY <1>1, <1>2, <1>3, <1>4, <1>5, <1>6

\* FlagLapses keeps the invariant.
LEMMA StepFlagLapses ==
    ASSUME IndInv, FlagLapses
    PROVE  IndInv'
<1> USE DrainRequestsAssumption DEF IndInv, Actors, log, wire, queue, run, reading
<1>1. TypeOK'
  <2>1. {resting', listening', flag'} \subseteq BOOLEAN
    BY Zenon DEF FlagLapses, Orphaned, Mishap, TypeOK
  <2>2. tail' \in 0 .. MaxEvents /\ clear' \in 0 .. tail' /\ cursor' \in 0 .. clear' /\ wakes' \in 0 .. tail'
    BY DEF FlagLapses, Orphaned, Mishap, TypeOK
  <2>3. waiting' \subseteq Jobs /\ tries' \in [Jobs -> 0 .. Attempts] /\ job' \in [Workers -> Jobs \cup {None}]
    BY DEF FlagLapses, Orphaned, Mishap, TypeOK
  <2>4. stage' \in [Actors -> {"idle", "due", "set", "taken", "step", "running"}]
    BY DEF FlagLapses, Orphaned, Mishap, TypeOK
  <2>5. upto' \in [Workers -> 0 .. MaxEvents] /\ more' \in [Workers -> BOOLEAN]
    BY DEF FlagLapses, Orphaned, Mishap, TypeOK
  <2>6. throws' \in 0 .. MaxThrows /\ mishaps' \in 0 .. MaxMishaps
    BY DEF FlagLapses, Orphaned, Mishap, TypeOK
  <2>. QED  BY <2>1, <2>2, <2>3, <2>4, <2>5, <2>6 DEF TypeOK
<1>2. NoLostWake'
  BY SMTT(30)
    DEF FlagLapses, Orphaned, Mishap, TypeOK, NoLostWake, FlagIsOwned,
        WorkersInOrder, LookedAfter, Owners
<1>3. FlagIsOwned'
  BY SMTT(30)
    DEF FlagLapses, Orphaned, Mishap, TypeOK, FlagIsOwned, WorkersInOrder, Owners
<1>4. OneOwner'
  BY SMTT(30)
    DEF FlagLapses, Orphaned, Mishap, TypeOK, OneOwner, WorkersInOrder, Owners
<1>5. WorkersInOrder'
  BY SMTT(30) DEF FlagLapses, Orphaned, Mishap, TypeOK, WorkersInOrder, Free
<1>6. OneWaitingDrain'
  BY <1>4 DEF OneWaitingDrain, OneOwner, Owners
<1>. QED  BY <1>1, <1>2, <1>3, <1>4, <1>5, <1>6

\* Hears keeps the invariant.
LEMMA StepHears ==
    ASSUME IndInv, NEW l \in Listeners, Hears(l)
    PROVE  IndInv'
<1> USE DrainRequestsAssumption DEF IndInv, Actors, log, wire, queue, run, reading
<1>1. TypeOK'
  BY SMTT(30) DEF Hears, Goto, TypeOK
<1>2. NoLostWake'
  BY SMTT(30)
    DEF Hears, Goto, TypeOK, NoLostWake, FlagIsOwned, WorkersInOrder, LookedAfter,
        Owners
<1>3. FlagIsOwned'
  BY SMTT(30) DEF Hears, Goto, TypeOK, FlagIsOwned, WorkersInOrder, Owners
<1>4. OneOwner'
  BY SMTT(30) DEF Hears, Goto, TypeOK, OneOwner, WorkersInOrder, Owners
<1>5. WorkersInOrder'
  BY SMTT(30) DEF Hears, Goto, TypeOK, WorkersInOrder, Free
<1>6. OneWaitingDrain'
  BY <1>4 DEF OneWaitingDrain, OneOwner, Owners
<1>. QED  BY <1>1, <1>2, <1>3, <1>4, <1>5, <1>6

\* SweepLooks keeps the invariant.
LEMMA StepSweepLooks ==
    ASSUME IndInv, NEW s \in Sweepers, SweepLooks(s)
    PROVE  IndInv'
<1> USE DrainRequestsAssumption DEF IndInv, Actors, log, wire, queue, run, reading
<1>1. TypeOK'
  BY SMTT(30) DEF SweepLooks, Goto, TypeOK
<1>2. NoLostWake'
  BY SMTT(30)
    DEF SweepLooks, Goto, TypeOK, NoLostWake, FlagIsOwned, WorkersInOrder,
        LookedAfter, Owners
<1>3. FlagIsOwned'
  BY SMTT(30) DEF SweepLooks, Goto, TypeOK, FlagIsOwned, WorkersInOrder, Owners
<1>4. OneOwner'
  BY SMTT(30) DEF SweepLooks, Goto, TypeOK, OneOwner, WorkersInOrder, Owners
<1>5. WorkersInOrder'
  BY SMTT(30) DEF SweepLooks, Goto, TypeOK, WorkersInOrder, Free
<1>6. OneWaitingDrain'
  BY <1>4 DEF OneWaitingDrain, OneOwner, Owners
<1>. QED  BY <1>1, <1>2, <1>3, <1>4, <1>5, <1>6

\* SetsFlag keeps the invariant.
LEMMA StepSetsFlag ==
    ASSUME IndInv, NEW p \in Actors, SetsFlag(p)
    PROVE  IndInv'
<1> USE DrainRequestsAssumption DEF IndInv, Actors, log, wire, queue, run, reading
<1>1. TypeOK'
  BY SMTT(30) DEF SetsFlag, Goto, TypeOK
<1>2. NoLostWake'
  BY SMTT(30)
    DEF SetsFlag, Goto, TypeOK, NoLostWake, FlagIsOwned, WorkersInOrder,
        LookedAfter, Owners
<1>3. FlagIsOwned'
  BY SMTT(30) DEF SetsFlag, Goto, TypeOK, FlagIsOwned, WorkersInOrder, Owners
<1>4. OneOwner'
  BY SMTT(30) DEF SetsFlag, Goto, TypeOK, OneOwner, WorkersInOrder, Owners
<1>5. WorkersInOrder'
  BY SMTT(30) DEF SetsFlag, Goto, TypeOK, WorkersInOrder, Free
<1>6. OneWaitingDrain'
  BY <1>4 DEF OneWaitingDrain, OneOwner, Owners
<1>. QED  BY <1>1, <1>2, <1>3, <1>4, <1>5, <1>6

\* FindsFlag keeps the invariant.
LEMMA StepFindsFlag ==
    ASSUME IndInv, NEW p \in Actors, FindsFlag(p)
    PROVE  IndInv'
<1> USE DrainRequestsAssumption DEF IndInv, Actors, log, wire, queue, run, reading
<1>1. TypeOK'
  BY SMTT(30) DEF FindsFlag, Goto, Returns, TypeOK
<1>2. NoLostWake'
  BY SMTT(30)
    DEF FindsFlag, Goto, Returns, TypeOK, NoLostWake, FlagIsOwned, WorkersInOrder,
        LookedAfter, Owners
<1>3. FlagIsOwned'
  BY SMTT(30)
    DEF FindsFlag, Goto, Returns, TypeOK, FlagIsOwned, WorkersInOrder, Owners
<1>4. OneOwner'
  BY SMTT(30) DEF FindsFlag, Goto, Returns, TypeOK, OneOwner, WorkersInOrder, Owners
<1>5. WorkersInOrder'
  BY SMTT(30) DEF FindsFlag, Goto, Returns, TypeOK, WorkersInOrder, Free
<1>6. OneWaitingDrain'
  BY <1>4 DEF OneWaitingDrain, OneOwner, Owners
<1>. QED  BY <1>1, <1>2, <1>3, <1>4, <1>5, <1>6

\* Adds keeps the invariant.
LEMMA StepAdds ==
    ASSUME IndInv, NEW p \in Actors, Adds(p)
    PROVE  IndInv'
<1> USE DrainRequestsAssumption DEF IndInv, Actors, log, wire, queue, run, reading
<1>1. TypeOK'
  BY SMTT(30) DEF Adds, Goto, Returns, Free, TypeOK
<1>2. NoLostWake'
  BY SMTT(30)
    DEF Adds, Goto, Returns, Free, TypeOK, NoLostWake, FlagIsOwned, WorkersInOrder,
        LookedAfter, Owners
<1>3. FlagIsOwned'
  BY SMTT(30)
    DEF Adds, Goto, Returns, Free, TypeOK, FlagIsOwned, WorkersInOrder, Owners
<1>4. OneOwner'
  <2> DEFINE j == CHOOSE j \in Free : TRUE
  <2>1. j \in Jobs /\ waiting' = waiting \cup {j} /\ stage' = [stage EXCEPT ![p] = "idle"]
    BY DEF Adds, Returns, Goto, Free
  <2>2. UNCHANGED <<flag, throws, mishaps>>
    BY DEF Adds
  <2> SUFFICES ASSUME throws = 0, mishaps = 0
               PROVE  flag /\ \A q \in Owners' : q = j
    BY <2>2 DEF OneOwner
  <2> HIDE DEF j
  <2>3. p \in Owners /\ flag /\ \A q \in Owners : q = p
    BY DEF Adds, OneOwner, Owners
  <2>4. waiting = {}
    BY <2>3 DEF Owners, TypeOK, WorkersInOrder
  <2>5. Owners' = {j}
    BY <2>1, <2>3, <2>4 DEF Owners, TypeOK
  <2>. QED  BY <2>3, <2>5
<1>5. WorkersInOrder'
  BY SMTT(30) DEF Adds, Goto, Returns, Free, TypeOK, WorkersInOrder
<1>6. OneWaitingDrain'
  BY <1>4 DEF OneWaitingDrain, OneOwner, Owners
<1>. QED  BY <1>1, <1>2, <1>3, <1>4, <1>5, <1>6

\* AddFails keeps the invariant.
LEMMA StepAddFails ==
    ASSUME IndInv, NEW p \in Actors, AddFails(p)
    PROVE  IndInv'
<1> USE DrainRequestsAssumption DEF IndInv, Actors, log, wire, queue, run, reading
<1>1. TypeOK'
  <2>1. {resting', listening', flag'} \subseteq BOOLEAN
    BY Zenon DEF AddFails, Returns, Mishap, TypeOK
  <2>2. tail' \in 0 .. MaxEvents /\ clear' \in 0 .. tail' /\ cursor' \in 0 .. clear' /\ wakes' \in 0 .. tail'
    BY DEF AddFails, Goto, Returns, Mishap, TypeOK
  <2>3. waiting' \subseteq Jobs /\ tries' \in [Jobs -> 0 .. Attempts] /\ job' \in [Workers -> Jobs \cup {None}]
    BY DEF AddFails, Goto, Returns, Mishap, TypeOK
  <2>4. stage' \in [Actors -> {"idle", "due", "set", "taken", "step", "running"}]
    BY DEF AddFails, Goto, Returns, Mishap, TypeOK
  <2>5. upto' \in [Workers -> 0 .. MaxEvents] /\ more' \in [Workers -> BOOLEAN]
    BY DEF AddFails, Goto, Returns, Mishap, TypeOK
  <2>6. throws' \in 0 .. MaxThrows /\ mishaps' \in 0 .. MaxMishaps
    BY DEF AddFails, Goto, Returns, Mishap, TypeOK
  <2>. QED  BY <2>1, <2>2, <2>3, <2>4, <2>5, <2>6 DEF TypeOK
<1>2. NoLostWake'
  BY SMTT(30)
    DEF AddFails, Goto, Returns, Mishap, TypeOK, NoLostWake, FlagIsOwned,
        WorkersInOrder, LookedAfter, Owners
<1>3. FlagIsOwned'
  BY SMTT(30)
    DEF AddFails, Goto, Returns, Mishap, TypeOK, FlagIsOwned, WorkersInOrder, Owners
<1>4. OneOwner'
  BY SMTT(30)
    DEF AddFails, Goto, Returns, Mishap, TypeOK, OneOwner, WorkersInOrder, Owners
<1>5. WorkersInOrder'
  BY SMTT(30) DEF AddFails, Goto, Returns, Mishap, TypeOK, WorkersInOrder, Free
<1>6. OneWaitingDrain'
  BY <1>4 DEF OneWaitingDrain, OneOwner, Owners
<1>. QED  BY <1>1, <1>2, <1>3, <1>4, <1>5, <1>6

\* RequestLost keeps the invariant.
LEMMA StepRequestLost ==
    ASSUME IndInv, NEW p \in Actors, RequestLost(p)
    PROVE  IndInv'
<1> USE DrainRequestsAssumption DEF IndInv, Actors, log, wire, queue, run, reading
<1>1. TypeOK'
  BY SMTT(30) DEF RequestLost, Goto, Returns, Mishap, TypeOK
<1>2. NoLostWake'
  BY SMTT(30)
    DEF RequestLost, Goto, Returns, Mishap, TypeOK, NoLostWake, FlagIsOwned,
        WorkersInOrder, LookedAfter, Owners
<1>3. FlagIsOwned'
  BY SMTT(30)
    DEF RequestLost, Goto, Returns, Mishap, TypeOK, FlagIsOwned, WorkersInOrder,
        Owners
<1>4. OneOwner'
  BY SMTT(30)
    DEF RequestLost, Goto, Returns, Mishap, TypeOK, OneOwner, WorkersInOrder, Owners
<1>5. WorkersInOrder'
  BY SMTT(30) DEF RequestLost, Goto, Returns, Mishap, TypeOK, WorkersInOrder, Free
<1>6. OneWaitingDrain'
  BY <1>4 DEF OneWaitingDrain, OneOwner, Owners
<1>. QED  BY <1>1, <1>2, <1>3, <1>4, <1>5, <1>6

\* Takes keeps the invariant.
LEMMA StepTakes ==
    ASSUME IndInv, NEW w \in Workers, Takes(w)
    PROVE  IndInv'
<1> USE DrainRequestsAssumption DEF IndInv, Actors, log, wire, queue, run, reading
<1>1. TypeOK'
  BY SMTT(30) DEF Takes, Goto, TypeOK
<1>2. NoLostWake'
  BY SMTT(30)
    DEF Takes, Goto, TypeOK, NoLostWake, FlagIsOwned, WorkersInOrder, LookedAfter,
        Owners
<1>3. FlagIsOwned'
  BY SMTT(30) DEF Takes, Goto, TypeOK, FlagIsOwned, WorkersInOrder, Owners
<1>4. OneOwner'
  BY SMTT(30) DEF Takes, Goto, TypeOK, OneOwner, WorkersInOrder, Owners
<1>5. WorkersInOrder'
  BY SMTT(30) DEF Takes, Goto, TypeOK, WorkersInOrder, Free
<1>6. OneWaitingDrain'
  BY <1>4 DEF OneWaitingDrain, OneOwner, Owners
<1>. QED  BY <1>1, <1>2, <1>3, <1>4, <1>5, <1>6

\* Started keeps the invariant.
LEMMA StepStarted ==
    ASSUME IndInv, NEW w \in Workers, Started(w)
    PROVE  IndInv'
<1> USE DrainRequestsAssumption DEF IndInv, Actors, log, wire, queue, run, reading
<1>1. TypeOK'
  <2>1. {resting', listening', flag'} \subseteq BOOLEAN
    BY Zenon DEF Started, TypeOK
  <2>2. tail' \in 0 .. MaxEvents /\ clear' \in 0 .. tail' /\ cursor' \in 0 .. clear' /\ wakes' \in 0 .. tail'
    BY DEF Started, Goto, TypeOK
  <2>3. waiting' \subseteq Jobs /\ tries' \in [Jobs -> 0 .. Attempts] /\ job' \in [Workers -> Jobs \cup {None}]
    BY DEF Started, Goto, TypeOK
  <2>4. stage' \in [Actors -> {"idle", "due", "set", "taken", "step", "running"}]
    BY DEF Started, Goto, TypeOK
  <2>5. upto' \in [Workers -> 0 .. MaxEvents] /\ more' \in [Workers -> BOOLEAN]
    BY DEF Started, Goto, TypeOK
  <2>6. throws' \in 0 .. MaxThrows /\ mishaps' \in 0 .. MaxMishaps
    BY DEF Started, Goto, TypeOK
  <2>. QED  BY <2>1, <2>2, <2>3, <2>4, <2>5, <2>6 DEF TypeOK
<1>2. NoLostWake'
  BY SMTT(30)
    DEF Started, Goto, TypeOK, NoLostWake, FlagIsOwned, WorkersInOrder,
        LookedAfter, Owners
<1>3. FlagIsOwned'
  BY SMTT(30) DEF Started, Goto, TypeOK, FlagIsOwned, WorkersInOrder, Owners
<1>4. OneOwner'
  BY SMTT(30) DEF Started, Goto, TypeOK, OneOwner, WorkersInOrder, Owners
<1>5. WorkersInOrder'
  BY SMTT(30) DEF Started, Goto, TypeOK, WorkersInOrder, Free
<1>6. OneWaitingDrain'
  BY <1>4 DEF OneWaitingDrain, OneOwner, Owners
<1>. QED  BY <1>1, <1>2, <1>3, <1>4, <1>5, <1>6

\* ComesBack keeps the invariant.
LEMMA StepComesBack ==
    ASSUME IndInv, NEW w \in Workers, ComesBack(w)
    PROVE  IndInv'
<1> USE DrainRequestsAssumption DEF IndInv, Actors, log, wire, queue, run, reading
<1>1. TypeOK'
  BY SMTT(30) DEF ComesBack, Goto, Locked, TypeOK
<1>2. NoLostWake'
  BY SMTT(30)
    DEF ComesBack, Goto, Locked, TypeOK, NoLostWake, FlagIsOwned, WorkersInOrder,
        LookedAfter, Owners
<1>3. FlagIsOwned'
  BY SMTT(30)
    DEF ComesBack, Goto, Locked, TypeOK, FlagIsOwned, WorkersInOrder, Owners
<1>4. OneOwner'
  BY SMTT(30) DEF ComesBack, Goto, Locked, TypeOK, OneOwner, WorkersInOrder, Owners
<1>5. WorkersInOrder'
  BY SMTT(30) DEF ComesBack, Goto, Locked, TypeOK, WorkersInOrder, Free
<1>6. OneWaitingDrain'
  BY <1>4 DEF OneWaitingDrain, OneOwner, Owners
<1>. QED  BY <1>1, <1>2, <1>3, <1>4, <1>5, <1>6

\* Idles keeps the invariant.
LEMMA StepIdles ==
    ASSUME IndInv, NEW w \in Workers, Idles(w)
    PROVE  IndInv'
<1> USE DrainRequestsAssumption DEF IndInv, Actors, log, wire, queue, run, reading
<1>1. TypeOK'
  BY SMTT(30) DEF Idles, Goto, Done, HeldBack, Locked, TypeOK
<1>2. NoLostWake'
  BY SMTT(30)
    DEF Idles, Goto, Done, HeldBack, Locked, TypeOK, NoLostWake, FlagIsOwned,
        WorkersInOrder, LookedAfter, Owners
<1>3. FlagIsOwned'
  BY SMTT(30)
    DEF Idles, Goto, Done, HeldBack, Locked, TypeOK, FlagIsOwned, WorkersInOrder,
        Owners
<1>4. OneOwner'
  BY SMTT(30)
    DEF Idles, Goto, Done, HeldBack, Locked, TypeOK, OneOwner, WorkersInOrder,
        Owners
<1>5. WorkersInOrder'
  BY SMTT(30) DEF Idles, Goto, Done, HeldBack, Locked, TypeOK, WorkersInOrder, Free
<1>6. OneWaitingDrain'
  BY <1>4 DEF OneWaitingDrain, OneOwner, Owners
<1>. QED  BY <1>1, <1>2, <1>3, <1>4, <1>5, <1>6

\* Reads keeps the invariant.
LEMMA StepReads ==
    ASSUME IndInv, NEW w \in Workers, Reads(w)
    PROVE  IndInv'
<1> USE DrainRequestsAssumption DEF IndInv, Actors, log, wire, queue, run, reading
<1>1. TypeOK'
  BY SMTT(30) DEF Reads, Goto, Smaller, HeldBack, Locked, TypeOK
<1>2. NoLostWake'
  <2> DEFINE last == Smaller(cursor + Batch, clear)
  <2>1. upto'[w] = last /\ (last = cursor + Batch \/ last < tail => more'[w]) /\ stage'[w] = "running"
    BY DEF Reads, HeldBack, Goto, TypeOK
  <2>2. last \in 0 .. tail /\ tail' = tail
    BY DEF Reads, Smaller, TypeOK
  <2>3. more'[w] \/ upto'[w] = tail'
    <3> HIDE DEF last
    <3>. QED  BY <2>1, <2>2 DEF TypeOK
  <2>. QED  BY <2>1, <2>3 DEF NoLostWake, LookedAfter
<1>3. FlagIsOwned'
  BY SMTT(30)
    DEF Reads, Goto, Smaller, HeldBack, Locked, TypeOK, FlagIsOwned,
        WorkersInOrder, Owners
<1>4. OneOwner'
  BY SMTT(30)
    DEF Reads, Goto, Smaller, HeldBack, Locked, TypeOK, OneOwner, WorkersInOrder,
        Owners
<1>5. WorkersInOrder'
  BY SMTT(30)
    DEF Reads, Goto, Smaller, HeldBack, Locked, TypeOK, WorkersInOrder, Free
<1>6. OneWaitingDrain'
  BY <1>4 DEF OneWaitingDrain, OneOwner, Owners
<1>. QED  BY <1>1, <1>2, <1>3, <1>4, <1>5, <1>6

\* Finishes keeps the invariant.
LEMMA StepFinishes ==
    ASSUME IndInv, NEW w \in Workers, Finishes(w)
    PROVE  IndInv'
<1> USE DrainRequestsAssumption DEF IndInv, Actors, log, wire, queue, run, reading
<1>1. TypeOK'
  BY SMTT(30) DEF Finishes, Goto, Done, StopsReading, TypeOK, WorkersInOrder, Free
<1>2. NoLostWake'
  BY SMTT(30)
    DEF Finishes, Goto, Done, StopsReading, TypeOK, NoLostWake, FlagIsOwned,
        WorkersInOrder, LookedAfter, Owners
<1>3. FlagIsOwned'
  BY SMTT(30)
    DEF Finishes, Goto, Done, StopsReading, TypeOK, FlagIsOwned, WorkersInOrder,
        Owners
<1>4. OneOwner'
  BY SMTT(30)
    DEF Finishes, Goto, Done, StopsReading, TypeOK, OneOwner, WorkersInOrder, Owners
<1>5. WorkersInOrder'
  BY SMTT(30) DEF Finishes, Goto, Done, StopsReading, TypeOK, WorkersInOrder, Free
<1>6. OneWaitingDrain'
  BY <1>4 DEF OneWaitingDrain, OneOwner, Owners
<1>. QED  BY <1>1, <1>2, <1>3, <1>4, <1>5, <1>6

\* Throws keeps the invariant.
LEMMA StepThrows ==
    ASSUME IndInv, NEW w \in Workers, Throws(w)
    PROVE  IndInv'
<1> USE DrainRequestsAssumption DEF IndInv, Actors, log, wire, queue, run, reading
<1>1. TypeOK'
  <2>1. {resting', listening', flag'} \subseteq BOOLEAN
    BY Zenon DEF Throws, Done, StopsReading, Mishap, TypeOK
  <2>2. tail' \in 0 .. MaxEvents /\ clear' \in 0 .. tail' /\ cursor' \in 0 .. clear' /\ wakes' \in 0 .. tail'
    BY DEF Throws, Goto, Done, StopsReading, Mishap, TypeOK
  <2>3. waiting' \subseteq Jobs /\ tries' \in [Jobs -> 0 .. Attempts] /\ job' \in [Workers -> Jobs \cup {None}]
    BY DEF Throws, Goto, Done, StopsReading, Mishap, TypeOK, WorkersInOrder, Free
  <2>4. stage' \in [Actors -> {"idle", "due", "set", "taken", "step", "running"}]
    BY DEF Throws, Goto, Done, StopsReading, Mishap, TypeOK
  <2>5. upto' \in [Workers -> 0 .. MaxEvents] /\ more' \in [Workers -> BOOLEAN]
    BY DEF Throws, Goto, Done, StopsReading, Mishap, TypeOK
  <2>6. throws' \in 0 .. MaxThrows /\ mishaps' \in 0 .. MaxMishaps
    BY DEF Throws, Goto, Done, StopsReading, Mishap, TypeOK
  <2>. QED  BY <2>1, <2>2, <2>3, <2>4, <2>5, <2>6 DEF TypeOK
<1>2. NoLostWake'
  BY SMTT(30)
    DEF Throws, Goto, Done, StopsReading, Mishap, TypeOK, NoLostWake, FlagIsOwned,
        WorkersInOrder, LookedAfter, Owners
<1>3. FlagIsOwned'
  BY SMTT(30)
    DEF Throws, Goto, Done, StopsReading, Mishap, TypeOK, FlagIsOwned,
        WorkersInOrder, Owners
<1>4. OneOwner'
  BY SMTT(30)
    DEF Throws, Goto, Done, StopsReading, Mishap, TypeOK, OneOwner, WorkersInOrder,
        Owners
<1>5. WorkersInOrder'
  <2>1. job[w] \in Jobs
    BY DEF Throws, WorkersInOrder, TypeOK
  <2>2. \A v \in Workers : v # w => job[v] # job[w]
    BY <2>1 DEF WorkersInOrder
  <2>3. waiting' \subseteq waiting \cup {job[w]}
    BY DEF Throws
  <2>4. stage' = [stage EXCEPT ![w] = "idle"] /\ job' = [job EXCEPT ![w] = None]
    BY DEF Throws, Goto, Done
  <2>5. UNCHANGED <<cursor, clear, listening>> /\ upto' = [upto EXCEPT ![w] = 0]
        /\ (mishaps' = 0 => mishaps = 0)
    BY DEF Throws, StopsReading, Mishap, TypeOK
  <2>6. \A i \in Jobs : i \in Free' \/ tries'[i] < Attempts
    BY <2>1, <2>2 DEF Throws, Done, Free, WorkersInOrder, TypeOK
  <2>. QED  BY <2>1, <2>2, <2>3, <2>4, <2>5, <2>6 DEF WorkersInOrder, TypeOK
<1>6. OneWaitingDrain'
  BY <1>4 DEF OneWaitingDrain, OneOwner, Owners
<1>. QED  BY <1>1, <1>2, <1>3, <1>4, <1>5, <1>6

\* WorkerDies keeps the invariant.
LEMMA StepWorkerDies ==
    ASSUME IndInv, NEW w \in Workers, WorkerDies(w)
    PROVE  IndInv'
<1> USE DrainRequestsAssumption DEF IndInv, Actors, log, wire, queue, run, reading
<1>1. TypeOK'
  BY SMTT(30)
    DEF WorkerDies, Goto, Done, StopsReading, Mishap, TypeOK, WorkersInOrder, Free
<1>2. NoLostWake'
  BY SMTT(30)
    DEF WorkerDies, Goto, Done, StopsReading, Mishap, TypeOK, NoLostWake,
        FlagIsOwned, WorkersInOrder, LookedAfter, Owners
<1>3. FlagIsOwned'
  BY SMTT(30)
    DEF WorkerDies, Goto, Done, StopsReading, Mishap, TypeOK, FlagIsOwned,
        WorkersInOrder, Owners
<1>4. OneOwner'
  BY SMTT(30)
    DEF WorkerDies, Goto, Done, StopsReading, Mishap, TypeOK, OneOwner,
        WorkersInOrder, Owners
<1>5. WorkersInOrder'
  <2>1. job[w] \in Jobs
    BY DEF WorkerDies, WorkersInOrder, TypeOK
  <2>2. \A v \in Workers : v # w => job[v] # job[w]
    BY <2>1 DEF WorkersInOrder
  <2>3. waiting' = waiting \cup {job[w]}
    BY <2>1 DEF WorkerDies
  <2>4. stage' = [stage EXCEPT ![w] = "idle"] /\ job' = [job EXCEPT ![w] = None]
    BY DEF WorkerDies, Goto, Done
  <2>5. UNCHANGED <<cursor, clear, listening>> /\ upto' = [upto EXCEPT ![w] = 0]
        /\ (mishaps' = 0 => mishaps = 0)
    BY DEF WorkerDies, StopsReading, Mishap, TypeOK
  <2>6. \A i \in Jobs : i \in Free' \/ tries'[i] < Attempts
    BY <2>1, <2>2 DEF WorkerDies, Done, Free, WorkersInOrder, TypeOK
  <2>. QED  BY <2>1, <2>2, <2>3, <2>4, <2>5, <2>6 DEF WorkersInOrder, TypeOK
<1>6. OneWaitingDrain'
  BY <1>4 DEF OneWaitingDrain, OneOwner, Owners
<1>. QED  BY <1>1, <1>2, <1>3, <1>4, <1>5, <1>6

\* The invariant holds at the start.
LEMMA IndInvInit == Init => IndInv
<1> SUFFICES ASSUME Init PROVE IndInv
  OBVIOUS
<1> USE DrainRequestsAssumption DEF Init
<1>1. {resting, listening, flag} \subseteq BOOLEAN
  BY Zenon
<1>2. TypeOK
  BY <1>1 DEF TypeOK, Actors
<1>3. Owners = {}
  BY DEF Owners, Actors
<1>. QED
  BY <1>2, <1>3
    DEF IndInv, NoLostWake, OneWaitingDrain, FlagIsOwned, OneOwner, WorkersInOrder,
        Actors

\* A step that changes nothing keeps the invariant.
LEMMA IndInvStutter == IndInv /\ UNCHANGED vars => IndInv'
  BY SMTT(30)
    DEF vars, log, wire, queue, run, reading, IndInv, TypeOK, NoLostWake,
        OneWaitingDrain,
      FlagIsOwned, OneOwner, WorkersInOrder, LookedAfter, Owners, Actors, Free

\* Every step keeps the invariant.
LEMMA IndInvNext == IndInv /\ [Next]_vars => IndInv'
<1> SUFFICES ASSUME IndInv, [Next]_vars PROVE IndInv'
  OBVIOUS
<1> USE DEF Actors
<1>1. CASE Commit
  BY <1>1, StepCommit
<1>2. CASE HorizonLifts
  BY <1>2, StepHorizonLifts
<1>3. CASE BackoffEnds
  BY <1>3, StepBackoffEnds
<1>4. CASE ConnectionLost
  BY <1>4, StepConnectionLost
<1>5. CASE Reconnects
  BY <1>5, StepReconnects
<1>6. CASE FlagLapses
  BY <1>6, StepFlagLapses
<1>7. ASSUME NEW l \in Listeners, Hears(l) PROVE IndInv'
  BY <1>7, StepHears
<1>8. ASSUME NEW s \in Sweepers, SweepLooks(s) PROVE IndInv'
  BY <1>8, StepSweepLooks
<1>9. ASSUME NEW p \in Actors, SetsFlag(p) PROVE IndInv'
  BY <1>9, StepSetsFlag
<1>10. ASSUME NEW p \in Actors, FindsFlag(p) PROVE IndInv'
  BY <1>10, StepFindsFlag
<1>11. ASSUME NEW p \in Actors, Adds(p) PROVE IndInv'
  BY <1>11, StepAdds
<1>12. ASSUME NEW p \in Actors, AddFails(p) PROVE IndInv'
  BY <1>12, StepAddFails
<1>13. ASSUME NEW p \in Actors, RequestLost(p) PROVE IndInv'
  BY <1>13, StepRequestLost
<1>14. ASSUME NEW w \in Workers, Takes(w) PROVE IndInv'
  BY <1>14, StepTakes
<1>15. ASSUME NEW w \in Workers, Started(w) PROVE IndInv'
  BY <1>15, StepStarted
<1>16. ASSUME NEW w \in Workers, ComesBack(w) PROVE IndInv'
  BY <1>16, StepComesBack
<1>17. ASSUME NEW w \in Workers, Idles(w) PROVE IndInv'
  BY <1>17, StepIdles
<1>18. ASSUME NEW w \in Workers, Reads(w) PROVE IndInv'
  BY <1>18, StepReads
<1>19. ASSUME NEW w \in Workers, Finishes(w) PROVE IndInv'
  BY <1>19, StepFinishes
<1>20. ASSUME NEW w \in Workers, Throws(w) PROVE IndInv'
  BY <1>20, StepThrows
<1>21. ASSUME NEW w \in Workers, WorkerDies(w) PROVE IndInv'
  BY <1>21, StepWorkerDies
<1>22. CASE UNCHANGED vars
  BY <1>22, IndInvStutter
<1>. QED
  BY <1>1, <1>2, <1>3, <1>4, <1>5, <1>6, <1>7, <1>8, <1>9, <1>10, <1>11, <1>12,
        <1>13, <1>14, <1>15, <1>16, <1>17, <1>18, <1>19, <1>20, <1>21, <1>22
    DEF Next, RequestStep, DrainStep

\* The inductive invariant holds throughout.
THEOREM Invariance == Spec => []IndInv
<1>1. Init => IndInv
  BY IndInvInit
<1>2. IndInv /\ [Next]_vars => IndInv'
  BY IndInvNext
<1>. QED  BY <1>1, <1>2, PTL DEF Spec

\* Every variable keeps its type.
THEOREM TypeCorrect == Spec => []TypeOK
<1>1. IndInv => TypeOK
  BY DEF IndInv
<1>. QED  BY Invariance, <1>1, PTL

\* No wake is lost while nothing is refused or dies: a request that finds the
\* flag set is served by the flag's owner, which has not read yet.
THEOREM WakesAreKept == Spec => []NoLostWake
<1>1. IndInv => NoLostWake
  BY DEF IndInv
<1>. QED  BY Invariance, <1>1, PTL

\* Two wakes never add two jobs, while no drain throws and nothing goes wrong.
THEOREM OneDrainWaits == Spec => []OneWaitingDrain
<1>1. IndInv => OneWaitingDrain
  BY DEF IndInv
<1>. QED  BY Invariance, <1>1, PTL
=============================================================================
