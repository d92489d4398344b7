---------------------------- MODULE PortalProofs ----------------------------
(***************************************************************************)
(* What holds of the two components of MCPortal for every value of their   *)
(* constants.                                                              *)
(*                                                                         *)
(* Attachments: quota, rows and objects agree, for every number of         *)
(* uploads, handlers, deaths and lost deletes.                             *)
(*                                                                         *)
(* The live stream: an open tab shows every note, or the note's hint, the  *)
(* end of its stream or a read of the inbox is on its way to it, for every *)
(* number of tabs, streams and outages.  Most of the invariant says which  *)
(* stream serves which tab and which entry it has joined (SharedEntry,     *)
(* CommandsInOrder, TabsOfStreams, StreamsOfTabs), and that nothing        *)
(* follows the end of a stream on its tab's line (EndComesLast).           *)
(***************************************************************************)
EXTENDS MCPortal, Sequences, FiniteSetTheorems, SequenceTheorems, TLAPS

RowStates == {"none", "pending", "ready", "gone"}
Places == {"idle", "sniff", "copy", "clear", "mark", "ingest", "sweep", "unlink"}

\* The part of the invariant that relates handlers, rows and objects.
InOrder ==
    /\ KeepsItsObject /\ NoOrphan
    /\ BusyHaveUploads /\ CompletionsInOrder /\ RemovalsInOrder /\ IngestsInOrder

\* The rows that hold quota can be counted.
LEMMA HeldFinite == IsFiniteSet(Held) /\ Cardinality(Held) \in Nat
<1>1. Held \subseteq Uploads
  BY DEF Held
<1> QED  BY <1>1, AttachmentsAssumption, FS_Subset, FS_CardinalityType

\* A row that does not change hands holds what it held.
LEMMA SameRows ==
    ASSUME QuotaIsExact, UNCHANGED <<row, used>>
    PROVE  QuotaIsExact'
<1>1. Held' = Held
  BY DEF Held
<1> QED  BY <1>1 DEF QuotaIsExact

\* One row changes: it is counted, or not any more, or as before.
LEMMA OneRow ==
    ASSUME TypeOK, NEW u \in Uploads, NEW s \in RowStates,
           row' = [row EXCEPT ![u] = s]
    PROVE  Cardinality(Held)' =
             IF s \in {"pending", "ready"}
             THEN IF row[u] \in {"pending", "ready"}
                  THEN Cardinality(Held) ELSE Cardinality(Held) + 1
             ELSE IF row[u] \in {"pending", "ready"}
                  THEN Cardinality(Held) - 1 ELSE Cardinality(Held)
<1>1. Held' = IF s \in {"pending", "ready"} THEN Held \cup {u} ELSE Held \ {u}
  BY DEF Held, TypeOK
<1>2. u \in Held <=> row[u] \in {"pending", "ready"}
  BY DEF Held
<1>3. Cardinality(Held)' = Cardinality(Held')
  OBVIOUS
<1>4. Cardinality(Held \cup {u}) =
        IF u \in Held THEN Cardinality(Held) ELSE Cardinality(Held) + 1
  BY HeldFinite, FS_AddElement
<1>5. Cardinality(Held \ {u}) =
        IF u \in Held THEN Cardinality(Held) - 1 ELSE Cardinality(Held)
  BY HeldFinite, FS_RemoveElement
<1> QED  BY <1>1, <1>2, <1>3, <1>4, <1>5

\* A row that is counted is counted in `used`.
LEMMA HeldIsUsed ==
    ASSUME TypeOK, QuotaIsExact, NEW u \in Uploads, row[u] \in {"pending", "ready"}
    PROVE  used >= 1
<1>1. u \in Held
  BY DEF Held
<1>2. Cardinality(Held) # 0
  BY <1>1, HeldFinite, FS_EmptySet
<1> QED  BY <1>2, HeldFinite DEF QuotaIsExact

\* A handler's step moves that handler alone.
LEMMA GotoMoves ==
    ASSUME TypeOK, NEW r \in Requests, NEW place \in Places, Goto(r, place)
    PROVE  /\ at' \in [Requests -> Places] /\ of' \in [Requests -> Uploads \cup {None}]
           /\ \A q \in Requests : at'[q] = IF q = r THEN place ELSE at[q]
           /\ \A q \in Requests :
                of'[q] = IF q = r /\ place = "idle" THEN None ELSE of[q]
BY DEF TypeOK, Goto, Places

\* A handler that begins leaves every other where it is.
LEMMA BeginMoves ==
    ASSUME TypeOK, NEW r \in Requests, NEW u \in Uploads, NEW place \in Places,
           Begin(r, u, place)
    PROVE  /\ at' \in [Requests -> Places] /\ of' \in [Requests -> Uploads \cup {None}]
           /\ at[r] = "idle"
           /\ \A q \in Requests : at'[q] = IF q = r THEN place ELSE at[q]
           /\ \A q \in Requests : of'[q] = IF q = r THEN u ELSE of[q]
BY DEF TypeOK, Begin, Places

\* Nothing is uploaded at first.
LEMMA IndInvInit == Init => IndInv
<1> SUFFICES ASSUME Init PROVE IndInv
  OBVIOUS
<1>1. TypeOK
  BY AttachmentsAssumption DEF Init, TypeOK
<1>2. QuotaIsExact
  <2>1. Held = {}
    BY DEF Init, Held
  <2> QED  BY <2>1, FS_EmptySet DEF Init, QuotaIsExact
<1>3. InOrder
  BY DEF Init, InOrder, KeepsItsObject, NoOrphan, BusyHaveUploads, CompletionsInOrder,
    RemovalsInOrder, IngestsInOrder, Completing
<1> QED  BY <1>1, <1>2, <1>3 DEF IndInv, InOrder

-----------------------------------------------------------------------------
(* The rows and objects a browser upload makes.                            *)

\* A presigned upload takes its place in the quota.
LEMMA StepPresign ==
    ASSUME IndInv, NEW u \in Uploads, Presign(u)
    PROVE  IndInv'
<1> USE AttachmentsAssumption DEF IndInv, Presign, Unused, Consume
<1>1. \A v \in Uploads : row'[v] = IF v = u THEN "pending" ELSE row[v]
  BY DEF TypeOK
<1>2. TypeOK'
  BY DEF TypeOK
<1>3. QuotaIsExact'
  BY OneRow DEF QuotaIsExact, RowStates
<1>4. KeepsItsObject' /\ NoOrphan'
  BY <1>1 DEF TypeOK, KeepsItsObject, NoOrphan
<1>5. BusyHaveUploads'
  BY DEF BusyHaveUploads
<1>6. \A q \in Requests : of[q] # None => row'[of[q]] = row[of[q]]
  BY <1>1 DEF TypeOK
<1>7. CompletionsInOrder' /\ RemovalsInOrder' /\ IngestsInOrder'
  BY <1>6 DEF BusyHaveUploads, CompletionsInOrder, RemovalsInOrder, IngestsInOrder, Completing
<1> QED  BY <1>2, <1>3, <1>4, <1>5, <1>7

\* A PUT and the passing of time touch nothing the invariant relates.
LEMMA StepOutside ==
    ASSUME IndInv, NEW u \in Uploads, Put(u) \/ Ages(u)
    PROVE  IndInv'
<1> USE DEF IndInv, Put, Ages
<1>1. UNCHANGED <<row, final, used, at, of, mishaps, doubled>>
  OBVIOUS
<1>2. TypeOK'
  BY DEF TypeOK
<1>3. QuotaIsExact'
  BY <1>1, SameRows
<1>4. KeepsItsObject' /\ NoOrphan' /\ BusyHaveUploads'
  BY <1>1 DEF KeepsItsObject, NoOrphan, BusyHaveUploads
<1>5. CompletionsInOrder' /\ RemovalsInOrder' /\ IngestsInOrder'
  BY <1>1 DEF CompletionsInOrder, RemovalsInOrder, IngestsInOrder, Completing
<1> QED  BY <1>2, <1>3, <1>4, <1>5

\* The first read of a completion: alone, or counted as doubled.
LEMMA StepCompleteReads ==
    ASSUME IndInv, NEW r \in Requests, NEW u \in Uploads, CompleteReads(r, u)
    PROVE  IndInv'
<1> USE AttachmentsAssumption DEF IndInv
<1>1. /\ at' \in [Requests -> Places] /\ of' \in [Requests -> Uploads \cup {None}]
      /\ at[r] = "idle"
      /\ \A q \in Requests : at'[q] = IF q = r THEN "sniff" ELSE at[q]
      /\ \A q \in Requests : of'[q] = IF q = r THEN u ELSE of[q]
  BY BeginMoves DEF CompleteReads, Places
<1>2. /\ row[u] = "pending" /\ doubled \subseteq doubled' /\ doubled' \subseteq Uploads
      /\ UNCHANGED <<row, age, staged, final, used, mishaps>>
      /\ u \notin doubled' => \A q \in Requests : at[q] \in Completing => of[q] # u
  BY DEF CompleteReads, TypeOK
<1>3. TypeOK'
  BY <1>1, <1>2 DEF TypeOK, Places
<1>4. QuotaIsExact'
  BY <1>2, SameRows
<1>5. KeepsItsObject' /\ NoOrphan'
  BY <1>1, <1>2 DEF KeepsItsObject, NoOrphan
<1>6. BusyHaveUploads'
  BY <1>1 DEF BusyHaveUploads
<1>7. CompletionsInOrder'
  BY <1>1, <1>2 DEF CompletionsInOrder, Completing
<1>8. RemovalsInOrder' /\ IngestsInOrder'
  BY <1>1, <1>2 DEF RemovalsInOrder, IngestsInOrder
<1> QED  BY <1>3, <1>4, <1>5, <1>6, <1>7, <1>8

\* The staged bytes are looked at, and refused or not.
LEMMA StepSniffs ==
    ASSUME IndInv, NEW r \in Requests, Sniffed(r) \/ Refused(r)
    PROVE  IndInv'
<1> USE AttachmentsAssumption DEF IndInv
<1> DEFINE place == at'[r]
<1>1. /\ at[r] = "sniff" /\ \E p \in {"idle", "copy"} : Goto(r, p)
      /\ UNCHANGED <<row, age, final, used, doubled>>
  BY DEF Sniffed, Refused
<1>2. /\ at' \in [Requests -> Places] /\ of' \in [Requests -> Uploads \cup {None}]
      /\ place \in {"idle", "copy"}
      /\ \A q \in Requests \ {r} : at'[q] = at[q] /\ of'[q] = of[q]
      /\ of'[r] = IF place = "idle" THEN None ELSE of[r]
  BY <1>1, GotoMoves DEF Places
<1>3. staged' \in SUBSET Uploads /\ mishaps' \in 0 .. MaxMishaps /\ (mishaps' = 0 => mishaps = 0)
  BY DEF TypeOK, Sniffed, Refused, RemoveObject
<1>4. TypeOK'
  BY <1>1, <1>2, <1>3 DEF TypeOK, Places
<1>5. QuotaIsExact'
  BY <1>1, SameRows
<1>6. KeepsItsObject' /\ NoOrphan'
  BY <1>1, <1>2, <1>3 DEF KeepsItsObject, NoOrphan
<1>7. BusyHaveUploads'
  BY <1>1, <1>2 DEF BusyHaveUploads
<1>8. CompletionsInOrder'
  BY <1>1, <1>2 DEF CompletionsInOrder, Completing
<1>9. RemovalsInOrder' /\ IngestsInOrder'
  BY <1>1, <1>2 DEF BusyHaveUploads, RemovalsInOrder, IngestsInOrder
<1> QED  BY <1>4, <1>5, <1>6, <1>7, <1>8, <1>9

\* The copy: from here on its object is there, or the completion has ended.
LEMMA StepCopied ==
    ASSUME IndInv, NEW r \in Requests, Copied(r)
    PROVE  IndInv'
<1> USE AttachmentsAssumption DEF IndInv
<1> DEFINE place == at'[r]
<1>1. /\ at[r] = "copy" /\ of[r] \in Uploads
      /\ UNCHANGED <<row, age, staged, used, mishaps, doubled>>
  BY DEF Copied, BusyHaveUploads, TypeOK
<1>2. /\ at' \in [Requests -> Places] /\ of' \in [Requests -> Uploads \cup {None}]
      /\ \A q \in Requests \ {r} : at'[q] = at[q] /\ of'[q] = of[q]
      /\ \/ place = "clear" /\ of'[r] = of[r] /\ final' = final \cup {of[r]}
         \/ place = "idle" /\ of'[r] = None /\ final' = final
  BY GotoMoves DEF Copied, Places
<1>3. TypeOK'
  BY <1>1, <1>2 DEF TypeOK, Places
<1>4. QuotaIsExact'
  BY <1>1, SameRows
<1>5. KeepsItsObject' /\ NoOrphan'
  BY <1>1, <1>2 DEF KeepsItsObject, NoOrphan
<1>6. BusyHaveUploads'
  BY <1>1, <1>2 DEF BusyHaveUploads
<1>7. CompletionsInOrder'
  BY <1>1, <1>2 DEF CompletionsInOrder, Completing
<1>8. RemovalsInOrder' /\ IngestsInOrder'
  BY <1>1, <1>2 DEF BusyHaveUploads, RemovalsInOrder, IngestsInOrder
<1> QED  BY <1>3, <1>4, <1>5, <1>6, <1>7, <1>8

\* A completion clears the staging object.
LEMMA StepClearedStaging ==
    ASSUME IndInv, NEW r \in Requests, ClearedStaging(r)
    PROVE  IndInv'
<1> USE AttachmentsAssumption DEF IndInv
<1>1. at[r] = "clear" /\ UNCHANGED <<row, age, final, used, doubled>>
  BY DEF ClearedStaging
<1>2. /\ at' \in [Requests -> Places] /\ of' = of
      /\ \A q \in Requests : at'[q] = IF q = r THEN "mark" ELSE at[q]
  BY GotoMoves DEF ClearedStaging, Goto, Places
<1>3. staged' \in SUBSET Uploads /\ mishaps' \in 0 .. MaxMishaps /\ (mishaps' = 0 => mishaps = 0)
  BY DEF TypeOK, ClearedStaging, RemoveObject
<1>4. TypeOK'
  BY <1>1, <1>2, <1>3 DEF TypeOK, Places
<1>5. QuotaIsExact'
  BY <1>1, SameRows
<1>6. KeepsItsObject' /\ NoOrphan'
  BY <1>1, <1>2, <1>3 DEF KeepsItsObject, NoOrphan
<1>7. BusyHaveUploads'
  BY <1>1, <1>2 DEF BusyHaveUploads
<1>8. CompletionsInOrder'
  BY <1>1, <1>2 DEF CompletionsInOrder, Completing
<1>9. RemovalsInOrder' /\ IngestsInOrder'
  BY <1>1, <1>2 DEF BusyHaveUploads, RemovalsInOrder, IngestsInOrder
<1> QED  BY <1>4, <1>5, <1>6, <1>7, <1>8, <1>9

\* The row becomes READY: it was pending, so no handler is removing its object.
LEMMA StepMarkedReady ==
    ASSUME IndInv, NEW r \in Requests, MarkedReady(r)
    PROVE  IndInv'
<1> USE AttachmentsAssumption DEF IndInv
<1> DEFINE u == of[r]
<1>1. /\ at[r] = "mark" /\ u \in Uploads /\ row[u] = "pending"
      /\ row' = [row EXCEPT ![u] = "ready"]
      /\ UNCHANGED <<age, staged, final, used, mishaps, doubled>>
  BY DEF MarkedReady, Markable, BusyHaveUploads, TypeOK
<1>2. /\ at' \in [Requests -> Places] /\ of' \in [Requests -> Uploads \cup {None}]
      /\ \A q \in Requests : at'[q] = IF q = r THEN "idle" ELSE at[q]
      /\ \A q \in Requests : of'[q] = IF q = r THEN None ELSE of[q]
  BY GotoMoves DEF MarkedReady, Places
<1>3. \A v \in Uploads : row'[v] = IF v = u THEN "ready" ELSE row[v]
  BY <1>1 DEF TypeOK
<1>4. TypeOK'
  BY <1>1, <1>2 DEF TypeOK, Places
<1>5. QuotaIsExact'
  BY <1>1, OneRow DEF QuotaIsExact, RowStates
<1>6. u \notin doubled => u \in final
  BY <1>1 DEF CompletionsInOrder, Completing
<1>7. KeepsItsObject'
  BY <1>1, <1>3, <1>6 DEF KeepsItsObject
<1>8. NoOrphan'
  BY <1>1, <1>2, <1>3 DEF TypeOK, NoOrphan
<1>9. BusyHaveUploads'
  BY <1>2 DEF BusyHaveUploads
<1>10. \A q \in Requests \ {r} : at[q] # "idle" => of[q] \in Uploads
  BY DEF BusyHaveUploads, TypeOK
<1>11. CompletionsInOrder'
  BY <1>1, <1>2, <1>3, <1>10 DEF CompletionsInOrder, Completing
<1>12. RemovalsInOrder' /\ IngestsInOrder'
  BY <1>1, <1>2, <1>3, <1>10 DEF RemovalsInOrder, IngestsInOrder
<1> QED  BY <1>4, <1>5, <1>7, <1>8, <1>9, <1>11, <1>12

\* A completion that finds its row gone removes what it copied.
LEMMA StepMarkRefused ==
    ASSUME IndInv, NEW r \in Requests, MarkRefused(r)
    PROVE  IndInv'
<1> USE AttachmentsAssumption DEF IndInv
<1>1. /\ at[r] = "mark" /\ row[of[r]] # "pending"
      /\ UNCHANGED <<row, age, staged, final, used, mishaps, doubled>>
  BY DEF MarkRefused, Markable
<1>2. /\ at' \in [Requests -> Places] /\ of' = of
      /\ \A q \in Requests : at'[q] = IF q = r THEN "unlink" ELSE at[q]
  BY GotoMoves DEF MarkRefused, Goto, Places
<1>3. TypeOK'
  BY <1>1, <1>2 DEF TypeOK, Places
<1>4. QuotaIsExact'
  BY <1>1, SameRows
<1>5. KeepsItsObject' /\ NoOrphan'
  BY <1>1, <1>2 DEF KeepsItsObject, NoOrphan
<1>6. BusyHaveUploads'
  BY <1>1, <1>2 DEF BusyHaveUploads
<1>7. CompletionsInOrder'
  BY <1>1, <1>2 DEF CompletionsInOrder, Completing
<1>8. of[r] \notin doubled => row[of[r]] = "gone"
  BY <1>1 DEF CompletionsInOrder, Completing
<1>9. RemovalsInOrder' /\ IngestsInOrder'
  BY <1>1, <1>2, <1>8 DEF RemovalsInOrder, IngestsInOrder
<1> QED  BY <1>3, <1>4, <1>5, <1>6, <1>7, <1>9

-----------------------------------------------------------------------------
(* Mail files, removals, the sweep and deaths.                             *)

\* A file from an email puts its object first.
LEMMA StepIngestPuts ==
    ASSUME IndInv, NEW r \in Requests, NEW u \in Uploads, IngestPuts(r, u)
    PROVE  IndInv'
<1> USE AttachmentsAssumption DEF IndInv
<1>1. /\ at' \in [Requests -> Places] /\ of' \in [Requests -> Uploads \cup {None}]
      /\ at[r] = "idle"
      /\ \A q \in Requests : at'[q] = IF q = r THEN "ingest" ELSE at[q]
      /\ \A q \in Requests : of'[q] = IF q = r THEN u ELSE of[q]
  BY BeginMoves DEF IngestPuts, Places
<1>2. /\ row[u] = "none" /\ \A q \in Requests : of[q] # u
      /\ final' = final \cup {u}
      /\ UNCHANGED <<row, age, staged, used, mishaps, doubled>>
  BY DEF IngestPuts, Unused
<1>3. TypeOK'
  BY <1>1, <1>2 DEF TypeOK, Places
<1>4. QuotaIsExact'
  BY <1>2, SameRows
<1>5. KeepsItsObject' /\ NoOrphan'
  BY <1>1, <1>2 DEF KeepsItsObject, NoOrphan
<1>6. BusyHaveUploads'
  BY <1>1 DEF BusyHaveUploads
<1>7. CompletionsInOrder'
  BY <1>1, <1>2 DEF CompletionsInOrder, Completing
<1>8. RemovalsInOrder' /\ IngestsInOrder'
  BY <1>1, <1>2 DEF RemovalsInOrder, IngestsInOrder
<1> QED  BY <1>3, <1>4, <1>5, <1>6, <1>7, <1>8

\* The stored file's row takes its quota, or the file has no row for good.
LEMMA StepIngestEnds ==
    ASSUME IndInv, NEW r \in Requests, IngestSucceeds(r) \/ IngestFails(r)
    PROVE  IndInv'
<1> USE AttachmentsAssumption DEF IndInv
<1> DEFINE u == of[r]
           place == at'[r]
<1>1. /\ at[r] = "ingest" /\ u \in Uploads /\ row[u] = "none" /\ u \in final
      /\ \A q \in Requests \ {r} : of[q] # u
      /\ UNCHANGED <<staged, final, mishaps, doubled>>
  BY DEF IngestSucceeds, IngestFails, IngestsInOrder, BusyHaveUploads, TypeOK
<1>2. /\ at' \in [Requests -> Places] /\ of' \in [Requests -> Uploads \cup {None}]
      /\ \A q \in Requests \ {r} : at'[q] = at[q] /\ of'[q] = of[q]
      /\ \/ /\ place = "idle" /\ of'[r] = None
            /\ row' = [row EXCEPT ![u] = "ready"]
            /\ used < Limit /\ used' = used + 1
         \/ /\ place = "unlink" /\ of'[r] = u
            /\ row' = [row EXCEPT ![u] = "gone"]
            /\ used' = used
  BY GotoMoves DEF IngestSucceeds, IngestFails, Consume, Places
<1>3. \A v \in Uploads : row'[v] = IF v # u THEN row[v]
                                  ELSE IF place = "idle" THEN "ready" ELSE "gone"
  BY <1>1, <1>2 DEF TypeOK
<1>4. age' \in [Uploads -> {"fresh", "expired", "old"}]
  BY DEF TypeOK, IngestSucceeds, IngestFails
<1>5. TypeOK'
  BY <1>1, <1>2, <1>4 DEF TypeOK, Places
<1>6. QuotaIsExact'
  BY <1>1, <1>2, OneRow DEF QuotaIsExact, RowStates
<1>7. KeepsItsObject' /\ NoOrphan'
  BY <1>1, <1>2, <1>3 DEF TypeOK, KeepsItsObject, NoOrphan
<1>8. BusyHaveUploads'
  BY <1>1, <1>2 DEF BusyHaveUploads
<1>9. \A q \in Requests \ {r} : at[q] # "idle" => of[q] \in Uploads /\ row'[of[q]] = row[of[q]]
  BY <1>1, <1>3 DEF BusyHaveUploads, TypeOK
<1>10. CompletionsInOrder'
  BY <1>1, <1>2, <1>9 DEF CompletionsInOrder, Completing
<1>11. RemovalsInOrder' /\ IngestsInOrder'
  BY <1>1, <1>2, <1>3, <1>9 DEF RemovalsInOrder, IngestsInOrder
<1> QED  BY <1>5, <1>6, <1>7, <1>8, <1>10, <1>11

\* A row that held quota goes, with its quota, before its objects.
LEMMA StepRowGoes ==
    ASSUME IndInv, NEW r \in Requests, NEW u \in Uploads,
           Remove(r, u) \/ SweepTakes(r, u)
    PROVE  IndInv'
<1> USE AttachmentsAssumption DEF IndInv
<1> DEFINE place == at'[r]
<1>1. /\ row[u] \in {"pending", "ready"} /\ row' = [row EXCEPT ![u] = "gone"]
      /\ UNCHANGED <<age, staged, final, mishaps, doubled>>
  BY DEF Remove, Deletable, SweepTakes, Abandoned
<1>2. /\ at' \in [Requests -> Places] /\ of' \in [Requests -> Uploads \cup {None}]
      /\ at[r] = "idle" /\ place \in {"sweep", "unlink"}
      /\ \A q \in Requests \ {r} : at'[q] = at[q]
      /\ \A q \in Requests : of'[q] = IF q = r THEN u ELSE of[q]
  BY BeginMoves DEF Remove, SweepTakes, Places
<1>3. \A v \in Uploads : row'[v] = IF v = u THEN "gone" ELSE row[v]
  BY <1>1 DEF TypeOK
<1>4. used' = used - 1 /\ used \in 0 .. Limit /\ used >= 1
  BY <1>1, HeldIsUsed DEF Remove, SweepTakes, Release, TypeOK
<1>5. TypeOK'
  BY <1>1, <1>2, <1>4 DEF TypeOK, Places
<1>6. QuotaIsExact'
  BY <1>1, <1>4, OneRow DEF QuotaIsExact, RowStates
<1>7. KeepsItsObject' /\ NoOrphan'
  BY <1>1, <1>2, <1>3 DEF TypeOK, KeepsItsObject, NoOrphan
<1>8. BusyHaveUploads'
  BY <1>2 DEF BusyHaveUploads
<1>9. \A q \in Requests \ {r} : at[q] # "idle" =>
          of[q] \in Uploads /\ (row'[of[q]] = row[of[q]] \/ (of[q] = u /\ row'[u] = "gone"))
  BY <1>3 DEF BusyHaveUploads, TypeOK
<1>10. CompletionsInOrder'
  BY <1>1, <1>2, <1>9 DEF CompletionsInOrder, Completing
<1>11. RemovalsInOrder'
  BY <1>1, <1>2, <1>3, <1>9 DEF RemovalsInOrder
<1>12. IngestsInOrder'
  BY <1>1, <1>2, <1>3, <1>9 DEF IngestsInOrder
<1> QED  BY <1>5, <1>6, <1>7, <1>8, <1>10, <1>11, <1>12

\* The last delete: the row went before.
LEMMA StepUnlinked ==
    ASSUME IndInv, NEW r \in Requests, Unlinked(r)
    PROVE  IndInv'
<1> USE AttachmentsAssumption DEF IndInv
<1> DEFINE u == of[r]
<1>1. /\ at[r] = "unlink" /\ u \in Uploads
      /\ UNCHANGED <<row, age, staged, used, doubled>>
  BY DEF Unlinked, BusyHaveUploads, TypeOK
<1>2. /\ at' \in [Requests -> Places] /\ of' \in [Requests -> Uploads \cup {None}]
      /\ \A q \in Requests : at'[q] = IF q = r THEN "idle" ELSE at[q]
      /\ \A q \in Requests : of'[q] = IF q = r THEN None ELSE of[q]
  BY GotoMoves DEF Unlinked, Places
<1>3. /\ final' \subseteq final /\ final \ {u} \subseteq final'
      /\ mishaps' \in 0 .. MaxMishaps
      /\ mishaps' = 0 => mishaps = 0 /\ u \notin final'
  BY DEF TypeOK, Unlinked, RemoveObject
<1>4. u \notin doubled => row[u] = "gone"
  BY <1>1 DEF RemovalsInOrder
<1>5. TypeOK'
  BY <1>1, <1>2, <1>3 DEF TypeOK, Places
<1>6. QuotaIsExact'
  BY <1>1, SameRows
<1>7. KeepsItsObject'
  BY <1>1, <1>3, <1>4 DEF KeepsItsObject
<1>8. NoOrphan'
  BY <1>1, <1>2, <1>3 DEF NoOrphan
<1>9. BusyHaveUploads'
  BY <1>2 DEF BusyHaveUploads
<1>10. \A q \in Requests \ {r} : at[q] # "idle" => of[q] \in Uploads
  BY DEF BusyHaveUploads, TypeOK
<1>11. CompletionsInOrder'
  BY <1>1, <1>2, <1>3, <1>4, <1>10 DEF CompletionsInOrder, Completing
<1>12. RemovalsInOrder'
  BY <1>1, <1>2 DEF RemovalsInOrder
<1>13. IngestsInOrder'
  BY <1>1, <1>2, <1>3, <1>10 DEF IngestsInOrder
<1> QED  BY <1>5, <1>6, <1>7, <1>8, <1>9, <1>11, <1>12, <1>13

\* The sweep clears the staging object of the row it deleted.
LEMMA StepSweepClears ==
    ASSUME IndInv, NEW r \in Requests, SweepClears(r)
    PROVE  IndInv'
<1> USE AttachmentsAssumption DEF IndInv
<1>1. at[r] = "sweep" /\ UNCHANGED <<row, age, final, used, doubled>>
  BY DEF SweepClears
<1>2. /\ at' \in [Requests -> Places] /\ of' = of
      /\ \A q \in Requests : at'[q] = IF q = r THEN "unlink" ELSE at[q]
  BY GotoMoves DEF SweepClears, Goto, Places
<1>3. staged' \in SUBSET Uploads /\ mishaps' \in 0 .. MaxMishaps /\ (mishaps' = 0 => mishaps = 0)
  BY DEF TypeOK, SweepClears, RemoveObject
<1>4. TypeOK'
  BY <1>1, <1>2, <1>3 DEF TypeOK, Places
<1>5. QuotaIsExact'
  BY <1>1, SameRows
<1>6. KeepsItsObject' /\ NoOrphan'
  BY <1>1, <1>2, <1>3 DEF KeepsItsObject, NoOrphan
<1>7. BusyHaveUploads'
  BY <1>1, <1>2 DEF BusyHaveUploads
<1>8. CompletionsInOrder'
  BY <1>1, <1>2 DEF CompletionsInOrder, Completing
<1>9. RemovalsInOrder' /\ IngestsInOrder'
  BY <1>1, <1>2 DEF RemovalsInOrder, IngestsInOrder
<1> QED  BY <1>4, <1>5, <1>6, <1>7, <1>8, <1>9

\* A handler dies: what it held is an orphan, and excused.
LEMMA StepDies ==
    ASSUME IndInv, NEW r \in Requests, Dies(r)
    PROVE  IndInv'
<1> USE AttachmentsAssumption DEF IndInv
<1>1. /\ mishaps' \in 0 .. MaxMishaps /\ mishaps' # 0
      /\ UNCHANGED <<row, age, staged, final, used, doubled>>
  BY DEF Dies, TypeOK
<1>2. /\ at' \in [Requests -> Places] /\ of' \in [Requests -> Uploads \cup {None}]
      /\ \A q \in Requests : at'[q] = IF q = r THEN "idle" ELSE at[q]
      /\ \A q \in Requests : of'[q] = IF q = r THEN None ELSE of[q]
  BY GotoMoves DEF Dies, Places
<1>3. TypeOK'
  BY <1>1, <1>2 DEF TypeOK, Places
<1>4. QuotaIsExact'
  BY <1>1, SameRows
<1>5. KeepsItsObject' /\ NoOrphan' /\ BusyHaveUploads'
  BY <1>1, <1>2 DEF KeepsItsObject, NoOrphan, BusyHaveUploads
<1>6. CompletionsInOrder'
  BY <1>1, <1>2 DEF CompletionsInOrder, Completing
<1>7. RemovalsInOrder' /\ IngestsInOrder'
  BY <1>1, <1>2 DEF BusyHaveUploads, TypeOK, RemovalsInOrder, IngestsInOrder
<1> QED  BY <1>3, <1>4, <1>5, <1>6, <1>7

-----------------------------------------------------------------------------
\* Every step keeps the invariant.
LEMMA IndInvNext == IndInv /\ [Next]_vars => IndInv'
<1> SUFFICES ASSUME IndInv, [Next]_vars PROVE IndInv'
  OBVIOUS
<1>1. CASE UNCHANGED vars
  BY <1>1, SameRows DEF vars, IndInv, TypeOK, KeepsItsObject, NoOrphan, BusyHaveUploads,
    CompletionsInOrder, RemovalsInOrder, IngestsInOrder, Completing
<1>2. ASSUME NEW u \in Uploads, Presign(u) \/ Put(u) \/ Ages(u)
      PROVE  IndInv'
  BY <1>2, StepPresign, StepOutside
<1>3. ASSUME NEW u \in Uploads, NEW r \in Requests,
             CompleteReads(r, u) \/ IngestPuts(r, u) \/ Remove(r, u) \/ SweepTakes(r, u)
      PROVE  IndInv'
  BY <1>3, StepCompleteReads, StepIngestPuts, StepRowGoes
<1>4. ASSUME NEW r \in Requests, Handler(r)
      PROVE  IndInv'
  BY <1>4, StepSniffs, StepCopied, StepClearedStaging, StepMarkedReady, StepMarkRefused,
    StepIngestEnds, StepSweepClears, StepUnlinked DEF Handler
<1>5. ASSUME NEW r \in Requests, Dies(r)
      PROVE  IndInv'
  BY <1>5, StepDies
<1> QED  BY <1>1, <1>2, <1>3, <1>4, <1>5 DEF Next

\* The inductive invariant holds throughout.
THEOREM Invariance == Spec => []IndInv
BY IndInvInit, IndInvNext, PTL DEF Spec

\* Every variable keeps its type, and the storage counter never passes the limit.
THEOREM TypeCorrect == Spec => []TypeOK
<1>1. IndInv => TypeOK
  BY DEF IndInv
<1> QED  BY Invariance, <1>1, PTL

\* The storage counter is the rows it counts, however an upload ends and whoever
\* races to end it.
THEOREM QuotaStaysExact == Spec => []QuotaIsExact
<1>1. IndInv => QuotaIsExact
  BY DEF IndInv
<1> QED  BY Invariance, <1>1, PTL

\* A READY row has its object, unless two requests completed it at once.
THEOREM ObjectStays == Spec => []KeepsItsObject
<1>1. IndInv => KeepsItsObject
  BY DEF IndInv
<1> QED  BY Invariance, <1>1, PTL

\* Without a death or a refused delete, no object is left that nothing points at
\* and nobody is about to remove.
THEOREM NothingOrphaned == Spec => []NoOrphan
<1>1. IndInv => NoOrphan
  BY DEF IndInv
<1> QED  BY Invariance, <1>1, PTL

\* Quota does not come back while an unfinished upload's URL still works.
THEOREM WritablePaid == Spec => PaidWhileWritable
<1> DEFINE Paid == \A u \in Uploads :
             row[u] = "pending" /\ age[u] = "fresh" => row'[u] \in {"pending", "ready"}
<1>1. ASSUME IndInv, [Next]_vars, NEW u \in Uploads,
             row[u] = "pending", age[u] = "fresh"
      PROVE  row'[u] \in {"pending", "ready"}
  <2> USE <1>1
  <2>1. CASE UNCHANGED vars
    BY <2>1 DEF vars
  <2>2. ASSUME NEW v \in Uploads, Presign(v) \/ Put(v) \/ Ages(v)
        PROVE  row'[u] \in {"pending", "ready"}
    BY <2>2 DEF Presign, Put, Ages, Unused, IndInv, TypeOK
  <2>3. ASSUME NEW v \in Uploads, NEW r \in Requests,
               CompleteReads(r, v) \/ IngestPuts(r, v) \/ Remove(r, v) \/ SweepTakes(r, v)
        PROVE  row'[u] \in {"pending", "ready"}
    BY <2>3 DEF CompleteReads, IngestPuts, Remove, Deletable, SweepTakes, Abandoned,
      IndInv, TypeOK
  <2>4. ASSUME NEW r \in Requests, Handler(r)
        PROVE  row'[u] \in {"pending", "ready"}
    <3>1. CASE MarkedReady(r)
      BY <3>1 DEF MarkedReady, IndInv, TypeOK
    <3>2. CASE IngestSucceeds(r) \/ IngestFails(r)
      BY <3>2 DEF IngestSucceeds, IngestFails, IndInv, TypeOK, IngestsInOrder
    <3>3. CASE UNCHANGED row
      BY <3>3
    <3> QED
      BY <2>4, <3>1, <3>2, <3>3 DEF Handler, Sniffed, Refused, Copied, ClearedStaging,
        MarkRefused, SweepClears, Unlinked
  <2>5. ASSUME NEW r \in Requests, Dies(r)
        PROVE  row'[u] \in {"pending", "ready"}
    BY <2>5 DEF Dies
  <2> QED  BY <2>1, <2>2, <2>3, <2>4, <2>5 DEF Next
<1>2. IndInv /\ [Next]_vars => [Paid]_vars
  BY <1>1
<1> QED  BY Invariance, <1>2, PTL DEF Spec, PaidWhileWritable

---------------------------------------------------------------------------
\* What a sequence holds after an element is added, taken or left out.
LEMMA HeldByAppend ==
    ASSUME NEW S, NEW q \in Seq(S), NEW x \in S
    PROVE  T!ToSet(Append(q, x)) = T!ToSet(q) \cup {x}
<1>1. DOMAIN Append(q, x) = 1 .. Len(q) + 1 /\ DOMAIN q = 1 .. Len(q)
  OBVIOUS
<1>2. \A i \in 1 .. Len(q) : Append(q, x)[i] = q[i]
  OBVIOUS
<1>3. Append(q, x)[Len(q) + 1] = x /\ Len(q) + 1 \in 1 .. Len(q) + 1 /\ Len(q) \in Nat
  OBVIOUS
<1>4. \A i \in 1 .. Len(q) + 1 : i \in 1 .. Len(q) \/ i = Len(q) + 1
  BY <1>3
<1>5. \A i \in 1 .. Len(q) : i \in 1 .. Len(q) + 1
  BY <1>3
<1>6. ASSUME NEW y \in T!ToSet(q) \cup {x} PROVE y \in T!ToSet(Append(q, x))
  BY <1>1, <1>2, <1>3, <1>5 DEF T!ToSet
<1>7. ASSUME NEW y \in T!ToSet(Append(q, x)) PROVE y \in T!ToSet(q) \cup {x}
  BY <1>1, <1>2, <1>3, <1>4 DEF T!ToSet
<1> QED  BY <1>6, <1>7

\* What a sequence holds is its head and what its tail holds.
LEMMA HeldByTail ==
    ASSUME NEW S, NEW q \in Seq(S), q # << >>
    PROVE  T!ToSet(q) = {Head(q)} \cup T!ToSet(Tail(q))
<1>1. DOMAIN q = 1 .. Len(q) /\ DOMAIN Tail(q) = 1 .. Len(q) - 1 /\ Len(q) \in Nat \ {0} /\ Head(q) = q[1]
  OBVIOUS
<1>2. \A i \in 1 .. Len(q) - 1 : Tail(q)[i] = q[i + 1] /\ i + 1 \in 1 .. Len(q)
  OBVIOUS
<1>3. \A i \in 1 .. Len(q) : i = 1 \/ (i - 1 \in 1 .. Len(q) - 1 /\ q[i] = Tail(q)[i - 1])
  OBVIOUS
<1>4. ASSUME NEW y \in T!ToSet(q) PROVE y \in {Head(q)} \cup T!ToSet(Tail(q))
  BY <1>1, <1>3 DEF T!ToSet
<1>5. ASSUME NEW y \in {Head(q)} \cup T!ToSet(Tail(q)) PROVE y \in T!ToSet(q)
  BY <1>1, <1>2 DEF T!ToSet
<1> QED  BY <1>4, <1>5

\* What two sequences hold, joined.
LEMMA HeldByConcat ==
    ASSUME NEW S, NEW q \in Seq(S), NEW r \in Seq(S)
    PROVE  T!ToSet(q \o r) = T!ToSet(q) \cup T!ToSet(r)
<1>1. /\ DOMAIN q = 1 .. Len(q) /\ DOMAIN r = 1 .. Len(r) /\ DOMAIN (q \o r) = 1 .. Len(q) + Len(r)
      /\ Len(q) \in Nat /\ Len(r) \in Nat
  OBVIOUS
<1>2. \A i \in 1 .. Len(q) : (q \o r)[i] = q[i] /\ i \in 1 .. Len(q) + Len(r)
  OBVIOUS
<1>3. \A i \in 1 .. Len(r) : (q \o r)[Len(q) + i] = r[i] /\ Len(q) + i \in 1 .. Len(q) + Len(r)
  OBVIOUS
<1>4. \A i \in 1 .. Len(q) + Len(r) : i \in 1 .. Len(q) \/ (i - Len(q) \in 1 .. Len(r) /\ (q \o r)[i] = r[i - Len(q)])
  OBVIOUS
<1>5. ASSUME NEW y \in T!ToSet(q \o r) PROVE y \in T!ToSet(q) \cup T!ToSet(r)
  BY <1>1, <1>2, <1>4 DEF T!ToSet
<1>6. ASSUME NEW y \in T!ToSet(q) PROVE y \in T!ToSet(q \o r)
  BY <1>1, <1>2 DEF T!ToSet
<1>7. ASSUME NEW y \in T!ToSet(r) PROVE y \in T!ToSet(q \o r)
  BY <1>1, <1>3 DEF T!ToSet
<1> QED  BY <1>5, <1>6, <1>7

\* What is left after the k-th of n.
LEMMA LastsLeft ==
    ASSUME NEW n \in Nat, NEW k \in 1 .. n
    PROVE  n - (k + 1) + 1 = n - k /\ (~(k + 1 <= n) => n - k = 0)
OBVIOUS

\* One place less of a sequence without repetitions holds one element less.
LEMMA HeldByRemoveAt ==
    ASSUME NEW S, NEW q \in Seq(S), NEW k \in 1 .. Len(q),
           \A i, j \in 1 .. Len(q) : q[i] = q[j] => i = j
    PROVE  LET r == T!RemoveAt(q, k) IN
           /\ r \in Seq(S) /\ Len(r) = Len(q) - 1 /\ T!ToSet(r) = T!ToSet(q) \ {q[k]}
           /\ \A i, j \in 1 .. Len(r) : r[i] = r[j] => i = j
<1> DEFINE r == T!RemoveAt(q, k)
<1>1. Len(q) \in Nat \ {0} /\ DOMAIN q = 1 .. Len(q)
  OBVIOUS
<1>2. /\ r \in Seq(S) /\ Len(r) = Len(q) - 1 /\ DOMAIN r = 1 .. Len(q) - 1
      /\ \A i \in 1 .. Len(q) - 1 : r[i] = IF i < k THEN q[i] ELSE q[i + 1]
  <2> DEFINE a == SubSeq(q, 1, k - 1)
             b == SubSeq(q, k + 1, Len(q))
  <2>1. a \in Seq(S) /\ Len(a) = k - 1 /\ \A i \in 1 .. k - 1 : a[i] = q[i]
    BY <1>1, SubSeqProperties
  <2>2. b \in Seq(S) /\ Len(b) = Len(q) - k /\ \A i \in 1 .. Len(q) - k : b[i] = q[k + i]
    <3>1. k + 1 \in Int /\ Len(q) \in Int /\ \A i \in k + 1 .. Len(q) : q[i] \in S
      BY <1>1
    <3> HIDE DEF b
    <3>2. /\ b \in Seq(S) /\ Len(b) = IF k + 1 <= Len(q) THEN Len(q) - (k + 1) + 1 ELSE 0
          /\ \A i \in 1 .. Len(q) - (k + 1) + 1 : b[i] = q[(k + 1) + i - 1]
      BY <3>1, SubSeqProperties DEF b
    <3>3. Len(q) - (k + 1) + 1 = Len(q) - k /\ (~(k + 1 <= Len(q)) => Len(q) - k = 0)
      BY <1>1, LastsLeft
    <3>4. Len(b) = Len(q) - k
      BY <3>2, <3>3
    <3>5. ASSUME NEW i \in 1 .. Len(q) - k PROVE b[i] = q[k + i]
      <4>1. b[i] = q[(k + 1) + i - 1]
        BY <3>2, <3>3
      <4>2. (k + 1) + i - 1 = k + i
        BY <1>1
      <4> QED  BY <4>1, <4>2
    <3> QED  BY <3>2, <3>4, <3>5
  <2>3. r = a \o b
    BY DEF T!RemoveAt
  <2> HIDE DEF a, b, r
  <2>4. r \in Seq(S) /\ Len(r) = Len(q) - 1 /\ DOMAIN r = 1 .. Len(q) - 1
    <3>1. a \o b \in Seq(S) /\ Len(a \o b) = Len(a) + Len(b)
      BY <2>1, <2>2, ConcatProperties
    <3>2. Len(r) = Len(q) - 1
      BY <1>1, <2>1, <2>2, <2>3, <3>1
    <3> QED  BY <2>3, <3>1, <3>2, LenProperties
  <2>5. ASSUME NEW i \in 1 .. Len(q) - 1 PROVE r[i] = IF i < k THEN q[i] ELSE q[i + 1]
    <3>1. CASE i < k
      BY <1>1, <2>1, <2>2, <2>3, <3>1
    <3>2. CASE ~(i < k)
      <4>1. r[i] = b[i - (k - 1)]
        BY <1>1, <2>1, <2>2, <2>3, <3>2
      <4>2. i - (k - 1) \in 1 .. Len(q) - k /\ k + (i - (k - 1)) = i + 1
        BY <1>1, <3>2
      <4> QED  BY <2>2, <3>2, <4>1, <4>2
    <3> QED  BY <3>1, <3>2
  <2> QED  BY <2>4, <2>5
<1> HIDE DEF r
<1>3. \A i, j \in 1 .. Len(r) : r[i] = r[j] => i = j
  BY <1>1, <1>2
<1>4. ASSUME NEW y \in T!ToSet(r) PROVE y \in T!ToSet(q) \ {q[k]}
  BY <1>1, <1>2 DEF T!ToSet
<1>5. ASSUME NEW y \in T!ToSet(q) \ {q[k]} PROVE y \in T!ToSet(r)
  <2>1. PICK i \in 1 .. Len(q) : y = q[i]
    BY <1>1 DEF T!ToSet
  <2>2. CASE i < k
    <3>1. i \in 1 .. Len(q) - 1 /\ r[i] = y
      BY <1>1, <1>2, <2>1, <2>2
    <3> QED  BY <1>2, <3>1 DEF T!ToSet
  <2>3. CASE i > k
    <3>1. i - 1 \in 1 .. Len(q) - 1 /\ r[i - 1] = y
      BY <1>1, <1>2, <2>1, <2>3
    <3> QED  BY <1>2, <3>1 DEF T!ToSet
  <2> QED  BY <1>1, <2>1, <2>2, <2>3
<1>6. T!ToSet(r) = T!ToSet(q) \ {q[k]}
  BY <1>4, <1>5
<1> QED  BY <1>2, <1>3, <1>6 DEF r

\* Of a sequence without doubles, the rest does not hold its head, and a new
\* element added to it is no double.
LEMMA TailOnce ==
    ASSUME NEW S, NEW q \in Seq(S), q # << >>, \A i, j \in 1 .. Len(q) : q[i] = q[j] => i = j
    PROVE  /\ Tail(q) \in Seq(S) /\ Len(Tail(q)) = Len(q) - 1 /\ Head(q) \in S
           /\ T!ToSet(Tail(q)) = T!ToSet(q) \ {Head(q)}
           /\ \A i, j \in 1 .. Len(Tail(q)) : Tail(q)[i] = Tail(q)[j] => i = j
<1>1. /\ Tail(q) \in Seq(S) /\ Len(Tail(q)) = Len(q) - 1 /\ Head(q) \in S /\ Len(q) \in Nat \ {0}
      /\ Head(q) = q[1] /\ \A i \in 1 .. Len(q) - 1 : Tail(q)[i] = q[i + 1] /\ i + 1 \in 1 .. Len(q)
  OBVIOUS
<1>2. Head(q) \notin T!ToSet(Tail(q))
  BY <1>1 DEF T!ToSet
<1>3. \A i, j \in 1 .. Len(Tail(q)) : Tail(q)[i] = Tail(q)[j] => i = j
  BY <1>1
<1> QED  BY <1>1, <1>2, <1>3, HeldByTail

\* A sequence without repetitions stays one when a new element is appended.
LEMMA AppendOnce ==
    ASSUME NEW S, NEW q \in Seq(S), NEW x \in S \ T!ToSet(q), \A i, j \in 1 .. Len(q) : q[i] = q[j] => i = j
    PROVE  \A i, j \in 1 .. Len(Append(q, x)) : Append(q, x)[i] = Append(q, x)[j] => i = j
<1>1. /\ Len(Append(q, x)) = Len(q) + 1 /\ Len(q) \in Nat /\ Append(q, x)[Len(q) + 1] = x
      /\ \A i \in 1 .. Len(q) : Append(q, x)[i] = q[i] /\ q[i] # x
  BY DEF T!ToSet
<1> QED  BY <1>1

---------------------------------------------------------------------------
(* The live stream.                                                            *)

(* One entry for the channel, and all who hold a stream listen on it: whoever   *)
(* has got past its SUBSCRIBE holds an entry that Redis has answered.           *)
SharedEntry ==
    \A s \in Streams :
        IF stream[s].pc = "free" THEN s \notin channel.listeners
        ELSE /\ s \in channel.listeners /\ channel.by \in Streams /\ stream[s].entry = channel.by
             /\ stream[s].pc # "joins" => channel.ready

(* Redis has no command to answer while the entry is ready; otherwise the last  *)
(* is its SUBSCRIBE, if there is one, and those before it are UNSUBSCRIBEs.     *)
CommandsInOrder ==
    LET sent == redis.commands IN
    /\ channel.ready => sent = << >> /\ redis.subscribed /\ channel.by # None
    /\ ~channel.ready /\ channel.by # None =>
         /\ sent # << >> /\ sent[Len(sent)] = channel.by
         /\ \A i \in 1 .. Len(sent) - 1 : sent[i] = "unsubscribe"
    /\ channel.by = None => \A i \in 1 .. Len(sent) : sent[i] = "unsubscribe"

(* A stream that has a tab is its tab's only one, its tab waits for it or reads *)
(* it, and has not been told that it is over.                                   *)
Attached(s, t) ==
    /\ stream[s].pc # "free" /\ tab[t].pc # "off"
    /\ stream[s].pc # "live" => tab[t].pc = "opening" /\ line[t] = << >>
    /\ T!End \notin T!ToSet(line[t])
    /\ \A r \in Streams : stream[r].tab = t => r = s

TabsOfStreams == \A s \in Streams : \A t \in Tabs : stream[s].tab = t => Attached(s, t)

(* A tab that is not off has a stream, or is about to read that it is over.     *)
StreamsOfTabs ==
    \A t \in Tabs :
        IF tab[t].pc = "off" THEN line[t] = << >>
        ELSE T!End \in T!ToSet(line[t]) \/ \E s \in Streams : stream[s].tab = t

EndComesLast == \A t \in Tabs : \A i \in 1 .. Len(line[t]) - 1 : line[t][i] # T!End

EachOnce == \A i, j \in 1 .. Len(mine) : mine[i] = mine[j] => i = j

Structure == SharedEntry /\ CommandsInOrder /\ TabsOfStreams /\ StreamsOfTabs /\ EndComesLast /\ EachOnce

StreamInv == T!TypeOK /\ Structure /\ T!NothingGoesUnnoticed

Steps == {"free", "joins", "reads", "opens", "live"}
TabState == [pc : {"off", "opening", "open"}, mark : Notes \cup {0}, asked : BOOLEAN]

\* The types of a stream and of a tab, field by field, and what a change of a
\* field leaves of the others.
LEMMA ServingFields ==
    ASSUME NEW x \in T!Serving
    PROVE  /\ x.pc \in Steps /\ x.tab \in Tabs \cup {None} /\ x.mark \in Notes \cup {0}
           /\ x.replay \in Seq(notes) /\ x.entry \in Streams \cup {None}
BY DEF T!Serving, T!NoMark, Steps

\* A serving record made of the right parts.
LEMMA ServingMade ==
    ASSUME NEW pc \in Steps, NEW t \in Tabs \cup {None}, NEW m \in Notes \cup {0},
           NEW q \in Seq(notes), NEW e \in Streams \cup {None}
    PROVE  [pc |-> pc, tab |-> t, mark |-> m, replay |-> q, entry |-> e] \in T!Serving
BY DEF T!Serving, T!NoMark, Steps

\* Updates of a serving record, written out.
LEMMA ServingChanges ==
    ASSUME NEW x \in T!Serving, NEW pc, NEW q
    PROVE  /\ [x EXCEPT !.pc = pc] = [pc |-> pc, tab |-> x.tab, mark |-> x.mark, replay |-> x.replay, entry |-> x.entry]
           /\ [x EXCEPT !.pc = pc, !.replay = q] =
                [pc |-> pc, tab |-> x.tab, mark |-> x.mark, replay |-> q, entry |-> x.entry]
           /\ [x EXCEPT !.tab = None] =
                [pc |-> x.pc, tab |-> None, mark |-> x.mark, replay |-> x.replay, entry |-> x.entry]
<1>1. [x EXCEPT !.pc = pc] = [pc |-> pc, tab |-> x.tab, mark |-> x.mark, replay |-> x.replay, entry |-> x.entry]
  BY DEF T!Serving
<1>2. ASSUME NEW y, y = [x EXCEPT !.pc = pc, !.replay = q]
      PROVE  y = [pc |-> pc, tab |-> x.tab, mark |-> x.mark, replay |-> q, entry |-> x.entry]
  BY <1>2 DEF T!Serving
<1>3. [x EXCEPT !.tab = None] =
        [pc |-> x.pc, tab |-> None, mark |-> x.mark, replay |-> x.replay, entry |-> x.entry]
  BY DEF T!Serving
<1> QED  BY <1>1, <1>2, <1>3

\* A free stream serves nobody.
LEMMA FreeServes ==
    /\ T!Free \in T!Serving /\ T!Free.pc = "free" /\ T!Free.tab = None /\ T!Free.entry = None
BY EmptySeq DEF T!Free, T!Serving, T!NoMark

\* A tab's fields.
LEMMA TabFields ==
    ASSUME NEW x \in TabState
    PROVE  x.pc \in {"off", "opening", "open"} /\ x.mark \in Notes \cup {0} /\ x.asked \in BOOLEAN
BY DEF TabState

\* A tab that has asked, written out.
LEMMA TabAsks ==
    ASSUME NEW x \in TabState, NEW a \in BOOLEAN, NEW y, y = [x EXCEPT !.asked = a]
    PROVE  y = [pc |-> x.pc, mark |-> x.mark, asked |-> a]
BY DEF TabState

\* A tab's record made of the right parts.
LEMMA TabMade ==
    ASSUME NEW pc \in {"off", "opening", "open"}, NEW m \in Notes \cup {0}, NEW a \in BOOLEAN
    PROVE  [pc |-> pc, mark |-> m, asked |-> a] \in TabState
BY DEF TabState

\* The variables' types, one by one.
LEMMA StreamTypes ==
    ASSUME T!TypeOK
    PROVE  /\ notes \subseteq Notes /\ untold \subseteq notes /\ missed \subseteq notes
           /\ channel.by \in Streams \cup {None} /\ channel.ready \in BOOLEAN /\ channel.listeners \subseteq Streams
           /\ redis.subscribed \in BOOLEAN /\ redis.commands \in Seq(Streams \cup {"unsubscribe"})
           /\ stream \in [Streams -> T!Serving]
           /\ mine \in Seq(Streams) /\ T!ToSet(mine) = {s \in Streams : stream[s].pc = "live"} /\ Len(mine) <= Cap
           /\ tab \in [Tabs -> TabState]
           /\ line \in [Tabs -> Seq(T!Frames)] /\ shown \in [Tabs -> SUBSET notes]
           /\ outages \in 0 .. MaxOutages
BY DEF T!TypeOK, TabState, T!NoMark

\* No stream is open at first.
LEMMA StreamInit == T!Init => StreamInv
<1> SUFFICES ASSUME T!Init PROVE StreamInv
  OBVIOUS
<1> USE PortalAssumption DEF T!Init, T!NoEntry, T!Free, T!NoMark
<1>1. << >> \in Seq(T!Frames) /\ << >> \in Seq(Streams) /\ << >> \in Seq(Streams \cup {"unsubscribe"}) /\ << >> \in Seq(notes)
      /\ Len(<< >>) = 0
  BY EmptySeq
<1>2. T!ToSet(<< >>) = {}
  BY DEF T!ToSet
<1>3. stream \in [Streams -> T!Serving] /\ \A s \in Streams : stream[s].pc = "free" /\ stream[s].tab = None
  BY FreeServes
<1>4. T!TypeOK
  BY <1>1, <1>2, <1>3 DEF T!TypeOK
<1>5. SharedEntry /\ CommandsInOrder /\ TabsOfStreams
  BY <1>1, <1>3 DEF SharedEntry, CommandsInOrder, TabsOfStreams
<1>6. StreamsOfTabs /\ EndComesLast /\ EachOnce
  BY <1>1 DEF StreamsOfTabs, EndComesLast, EachOnce
<1>7. T!NothingGoesUnnoticed
  BY DEF T!NothingGoesUnnoticed
<1> QED  BY <1>4, <1>5, <1>6, <1>7 DEF StreamInv, Structure

\* What a frame or a stream may be depends on the rows alone.
LEMMA TypesStay == notes' = notes => T!Frames' = T!Frames /\ T!Serving' = T!Serving
BY DEF T!Frames, T!Serving

\* Outages are counted up to their bound.
LEMMA OutageCounts ==
    ASSUME T!TypeOK, T!Outage
    PROVE  outages' \in 0 .. MaxOutages
BY PortalAssumption DEF T!TypeOK, T!Outage

\* The structure is about these variables alone.
LEMMA StructureStays ==
    ASSUME Structure, UNCHANGED <<channel, redis, stream, mine, tab, line>>
    PROVE  Structure'
BY DEF Structure, SharedEntry, CommandsInOrder, TabsOfStreams, Attached, StreamsOfTabs, EndComesLast, EachOnce

\* A step of the attachments is none of the stream.
LEMMA StreamStutters ==
    ASSUME StreamInv, UNCHANGED stream_vars
    PROVE  StreamInv'
<1>1. Structure'
  BY StructureStays DEF StreamInv, stream_vars
<1>2. T!TypeOK'
  BY DEF StreamInv, stream_vars, T!TypeOK, T!Frames, T!Serving
<1>3. T!NothingGoesUnnoticed'
  BY DEF StreamInv, stream_vars, T!NothingGoesUnnoticed
<1> QED  BY <1>1, <1>2, <1>3 DEF StreamInv

\* A committed row is yet to be published.
LEMMA StepWrites ==
    ASSUME StreamInv, NEW n \in Notes, T!Writes(n)
    PROVE  StreamInv'
<1>1. /\ notes' = notes \cup {n} /\ untold' = untold \cup {n}
      /\ UNCHANGED <<missed, channel, redis, stream, mine, tab, line, shown, outages>>
  BY DEF T!Writes
<1>2. Structure'
  BY <1>1, StructureStays DEF StreamInv
<1>3. T!TypeOK /\ notes \subseteq notes'
  BY <1>1 DEF StreamInv
<1>4. stream' \in [Streams -> T!Serving']
  <2>1. \A q \in Seq(notes) : q \in Seq(notes')
    BY <1>3, SeqMonotonic
  <2>2. \A x \in T!Serving : x \in T!Serving'
    BY <2>1 DEF T!Serving
  <2> QED  BY <1>1, <1>3, <2>2, StreamTypes
<1>5. line' \in [Tabs -> Seq(T!Frames')]
  <2>1. T!Frames \subseteq T!Frames'
    BY <1>3 DEF T!Frames
  <2>2. \A q \in Seq(T!Frames) : q \in Seq(T!Frames')
    BY <2>1, SeqMonotonic
  <2> QED  BY <1>1, <1>3, <2>2, StreamTypes
<1>6. T!TypeOK'
  BY <1>1, <1>3, <1>4, <1>5 DEF T!TypeOK
<1>7. T!NothingGoesUnnoticed'
  BY <1>1 DEF StreamInv, T!NothingGoesUnnoticed
<1> QED  BY <1>2, <1>6, <1>7 DEF StreamInv

\* The hint is lost, and the note counted as missed.
LEMMA StepPublishFails ==
    ASSUME StreamInv, NEW n \in Notes, T!PublishFails(n)
    PROVE  StreamInv'
<1>1. /\ n \in untold /\ untold' = untold \ {n} /\ missed' = missed \cup {n}
      /\ T!Outage
      /\ UNCHANGED <<notes, channel, redis, stream, mine, tab, line, shown>>
  BY DEF T!PublishFails
<1>2. Structure'
  BY <1>1, StructureStays DEF StreamInv
<1>3. T!TypeOK'
  BY <1>1, OutageCounts, TypesStay DEF StreamInv, T!TypeOK
<1>4. T!NothingGoesUnnoticed'
  BY <1>1 DEF StreamInv, T!NothingGoesUnnoticed
<1> QED  BY <1>2, <1>3, <1>4 DEF StreamInv

\* One tab moves.
LEMMA TabMoves ==
    ASSUME T!TypeOK, NEW t \in Tabs, NEW x \in TabState, tab' = [tab EXCEPT ![t] = x]
    PROVE  tab' \in [Tabs -> TabState] /\ \A u \in Tabs : tab'[u] = IF u = t THEN x ELSE tab[u]
BY StreamTypes

\* A tab that forgets its mark, or reads the inbox, is where it was.
LEMMA StructureOfTabs ==
    ASSUME Structure, \A u \in Tabs : tab'[u].pc = tab[u].pc, UNCHANGED <<channel, redis, stream, mine, line>>
    PROVE  Structure'
<1>1. SharedEntry' /\ CommandsInOrder' /\ EndComesLast' /\ EachOnce'
  BY DEF Structure, SharedEntry, CommandsInOrder, EndComesLast, EachOnce
<1>2. TabsOfStreams' /\ StreamsOfTabs'
  BY DEF Structure, TabsOfStreams, Attached, StreamsOfTabs
<1> QED  BY <1>1, <1>2 DEF Structure

\* A tab starts over with a stream that has seen no id.
LEMMA StepRecovers ==
    ASSUME StreamInv, NEW t \in Tabs, T!Recovers(t)
    PROVE  StreamInv'
<1> DEFINE x == [tab[t] EXCEPT !.mark = 0]
<1>1. /\ tab' = [tab EXCEPT ![t] = x] /\ T!TypeOK
      /\ UNCHANGED <<notes, untold, missed, channel, redis, stream, mine, line, shown, outages>>
  BY DEF T!Recovers, T!NoMark, StreamInv
<1>2. x = [pc |-> tab[t].pc, mark |-> 0, asked |-> tab[t].asked] /\ x \in TabState
  <2>1. tab[t] \in TabState /\ 0 \in Notes \cup {0}
    BY <1>1, StreamTypes
  <2>2. tab[t].pc \in {"off", "opening", "open"} /\ tab[t].asked \in BOOLEAN
    BY <2>1, TabFields
  <2>3. x = [pc |-> tab[t].pc, mark |-> 0, asked |-> tab[t].asked]
    BY <2>1 DEF TabState
  <2> QED  BY <2>1, <2>2, <2>3, TabMade
<1> HIDE DEF x
<1>3. tab' \in [Tabs -> TabState] /\ \A u \in Tabs : tab'[u] = IF u = t THEN x ELSE tab[u]
  BY <1>1, <1>2, TabMoves
<1>4. \A u \in Tabs : tab'[u].pc = tab[u].pc /\ tab'[u].asked = tab[u].asked
  BY <1>2, <1>3
<1>5. Structure'
  BY <1>1, <1>4, StructureOfTabs DEF StreamInv
<1>6. T!TypeOK'
  BY <1>1, <1>3, TypesStay DEF T!TypeOK, TabState, T!NoMark
<1>7. T!NothingGoesUnnoticed'
  BY <1>1, <1>4 DEF StreamInv, T!NothingGoesUnnoticed, T!Hint
<1> QED  BY <1>5, <1>6, <1>7 DEF StreamInv

\* The inbox is read: the tab shows all there is.
LEMMA StepRefetches ==
    ASSUME StreamInv, NEW t \in Tabs, T!Refetches(t)
    PROVE  StreamInv'
<1> DEFINE x == [tab[t] EXCEPT !.asked = FALSE]
<1>1. /\ tab' = [tab EXCEPT ![t] = x] /\ T!TypeOK /\ shown' = [shown EXCEPT ![t] = notes]
      /\ UNCHANGED <<notes, untold, missed, channel, redis, stream, mine, line, outages>>
  BY DEF T!Refetches, StreamInv
<1>2. x = [pc |-> tab[t].pc, mark |-> tab[t].mark, asked |-> FALSE] /\ x \in TabState
  <2>1. tab[t] \in TabState /\ FALSE \in BOOLEAN
    BY <1>1, StreamTypes
  <2>2. tab[t].pc \in {"off", "opening", "open"} /\ tab[t].mark \in Notes \cup {0}
    BY <2>1, TabFields
  <2>3. x = [pc |-> tab[t].pc, mark |-> tab[t].mark, asked |-> FALSE]
    BY <2>1, TabAsks
  <2> QED  BY <2>1, <2>2, <2>3, TabMade
<1> HIDE DEF x
<1>3. tab' \in [Tabs -> TabState] /\ \A u \in Tabs : tab'[u] = IF u = t THEN x ELSE tab[u]
  BY <1>1, <1>2, TabMoves
<1>4. shown' \in [Tabs -> SUBSET notes] /\ \A u \in Tabs : shown'[u] = IF u = t THEN notes ELSE shown[u]
  BY <1>1, StreamTypes
<1>5. Structure'
  BY <1>1, <1>2, <1>3, StructureOfTabs DEF StreamInv
<1>6. T!TypeOK'
  BY <1>1, <1>3, <1>4, TypesStay DEF T!TypeOK, TabState, T!NoMark
<1>7. T!NothingGoesUnnoticed'
  BY <1>1, <1>3, <1>4 DEF StreamInv, T!NothingGoesUnnoticed, T!Hint
<1> QED  BY <1>5, <1>6, <1>7 DEF StreamInv

\* The published hint: every tab with an open stream hears it, for its stream
\* listens on an entry that Redis has answered.
LEMMA StepPublishes ==
    ASSUME StreamInv, NEW n \in Notes, T!Publishes(n)
    PROVE  StreamInv'
<1> DEFINE hears(t) == redis.subscribed /\ T!Hears(t)
<1>1. /\ n \in untold /\ untold' = untold \ {n} /\ T!TypeOK /\ n \in notes
      /\ UNCHANGED <<notes, missed, channel, redis, stream, mine, tab, shown, outages>>
      /\ \A t \in Tabs : line'[t] = IF hears(t) THEN Append(line[t], T!Hint(n)) ELSE line[t]
  BY DEF T!Publishes, T!TypeOK, StreamInv
<1>2. /\ T!Hint(n) \in T!Frames /\ T!Hint(n) # T!End /\ \A t \in Tabs : line[t] \in Seq(T!Frames)
      /\ line' = [t \in Tabs |-> IF hears(t) THEN Append(line[t], T!Hint(n)) ELSE line[t]]
  BY <1>1, StreamTypes DEF T!Frames, T!Hint, T!End, T!Publishes
<1>3. \A t \in Tabs : T!ToSet(line'[t]) = IF hears(t) THEN T!ToSet(line[t]) \cup {T!Hint(n)} ELSE T!ToSet(line[t])
  <2> SUFFICES ASSUME NEW t \in Tabs
               PROVE  T!ToSet(line'[t]) = IF hears(t) THEN T!ToSet(line[t]) \cup {T!Hint(n)} ELSE T!ToSet(line[t])
    OBVIOUS
  <2> HIDE DEF hears
  <2>1. T!ToSet(Append(line[t], T!Hint(n))) = T!ToSet(line[t]) \cup {T!Hint(n)}
    BY <1>2, HeldByAppend
  <2>2. line'[t] = IF hears(t) THEN Append(line[t], T!Hint(n)) ELSE line[t]
    BY <1>1
  <2> QED  BY <2>1, <2>2
<1>4. \A t \in Tabs : T!Hears(t) =>
        \E s \in Streams : stream[s].tab = t /\ stream[s].pc = "live" /\ Attached(s, t)
  BY <1>1, StreamTypes DEF T!Hears, StreamInv, Structure, TabsOfStreams
<1> HIDE DEF hears
<1>5. line' \in [Tabs -> Seq(T!Frames)]
  BY <1>2
<1>6. T!TypeOK'
  BY <1>1, <1>5, TypesStay DEF T!TypeOK
<1>7. SharedEntry' /\ CommandsInOrder' /\ EachOnce'
  BY <1>1 DEF StreamInv, Structure, SharedEntry, CommandsInOrder, EachOnce
<1>8. TabsOfStreams'
  <2> SUFFICES ASSUME NEW s \in Streams, NEW t \in Tabs, stream[s].tab = t PROVE Attached(s, t)'
    BY <1>1 DEF TabsOfStreams
  <2>1. Attached(s, t)
    BY DEF StreamInv, Structure, TabsOfStreams
  <2>2. stream[s].pc # "live" => line'[t] = << >>
    BY <1>1, <1>4, <2>1 DEF Attached, hears
  <2>3. T!End \notin T!ToSet(line'[t])
    BY <1>2, <1>3, <2>1 DEF Attached
  <2> QED  BY <1>1, <2>1, <2>2, <2>3 DEF Attached
<1>9. StreamsOfTabs'
  <2> SUFFICES ASSUME NEW t \in Tabs
               PROVE  IF tab[t].pc = "off" THEN line'[t] = << >>
                      ELSE T!End \in T!ToSet(line'[t]) \/ \E s \in Streams : stream[s].tab = t
    BY <1>1 DEF StreamsOfTabs
  <2>1. tab[t].pc = "off" => line[t] = << >> /\ ~hears(t)
    BY <1>4 DEF StreamInv, Structure, StreamsOfTabs, Attached, hears
  <2>2. tab[t].pc # "off" => T!End \in T!ToSet(line[t]) \/ \E s \in Streams : stream[s].tab = t
    BY DEF StreamInv, Structure, StreamsOfTabs
  <2> QED  BY <1>1, <1>3, <2>1, <2>2
<1>10. EndComesLast'
  <2> SUFFICES ASSUME NEW t \in Tabs, NEW i \in 1 .. Len(line'[t]) - 1 PROVE line'[t][i] # T!End
    BY DEF EndComesLast
  <2>1. CASE hears(t)
    <3>1. T!End \notin T!ToSet(line'[t])
      <4>1. T!Hears(t)
        BY <2>1 DEF hears
      <4>2. T!End \notin T!ToSet(line[t])
        BY <1>4, <4>1 DEF Attached
      <4> QED  BY <1>2, <1>3, <2>1, <4>2
    <3>2. line'[t] \in Seq(T!Frames) /\ i \in 1 .. Len(line'[t]) /\ DOMAIN line'[t] = 1 .. Len(line'[t])
      BY <1>5
    <3> QED  BY <3>1, <3>2 DEF T!ToSet
  <2>2. CASE ~hears(t)
    BY <1>1, <2>2 DEF StreamInv, Structure, EndComesLast
  <2> QED  BY <2>1, <2>2
<1>11. T!NothingGoesUnnoticed'
  <2> SUFFICES ASSUME NEW t \in Tabs, NEW m \in notes \ (shown[t] \cup untold' \cup missed), tab[t].pc = "open", ~tab[t].asked
               PROVE  T!Hint(m) \in T!ToSet(line'[t]) \/ T!End \in T!ToSet(line'[t])
    BY <1>1 DEF T!NothingGoesUnnoticed
  <2>1. CASE m # n
    <3>1. T!Hint(m) \in T!ToSet(line[t]) \/ T!End \in T!ToSet(line[t])
      BY <1>1, <2>1 DEF StreamInv, T!NothingGoesUnnoticed
    <3> QED  BY <1>3, <3>1
  <2>2. CASE m = n /\ T!End \in T!ToSet(line[t])
    BY <1>3, <2>2
  <2>3. CASE m = n /\ T!End \notin T!ToSet(line[t])
    <3>1. PICK s \in Streams : stream[s].tab = t
      BY <2>3 DEF StreamInv, Structure, StreamsOfTabs
    <3>2. Attached(s, t) /\ stream[s].pc = "live"
      BY <3>1 DEF StreamInv, Structure, TabsOfStreams, Attached
    <3>3. s \in channel.listeners /\ channel.ready /\ redis.subscribed
      BY <3>2 DEF StreamInv, Structure, SharedEntry, CommandsInOrder
    <3>4. hears(t)
      BY <3>1, <3>2, <3>3 DEF hears, T!Hears
    <3> QED  BY <1>3, <2>3, <3>4
  <2> QED  BY <2>1, <2>2, <2>3
<1> QED  BY <1>6, <1>7, <1>8, <1>9, <1>10, <1>11 DEF StreamInv, Structure

---------------------------------------------------------------------------
\* The channel's entry, and what Redis has to answer.
Entries == [by : Streams \cup {None}, ready : BOOLEAN, listeners : SUBSET Streams]
Commands == Streams \cup {"unsubscribe"}

\* A channel entry that turned ready, written out.
LEMMA EntryChanges ==
    ASSUME NEW c \in Entries, NEW b \in BOOLEAN, NEW y, y = [c EXCEPT !.ready = b]
    PROVE  y = [by |-> c.by, ready |-> b, listeners |-> c.listeners]
BY DEF Entries

\* A free stream has no tab.
LEMMA FreeHasNoTab ==
    ASSUME T!TypeOK, TabsOfStreams, NEW s \in Streams, stream[s].pc = "free"
    PROVE  stream[s].tab = None
<1>1. stream[s].tab \in Tabs \cup {None}
  BY StreamTypes, ServingFields
<1> QED  BY <1>1 DEF TabsOfStreams, Attached

\* The next command is the entry's SUBSCRIBE, which is then the only one and
\* what all streams wait for, or an UNSUBSCRIBE, which none waits for.
LEMMA NextCommand ==
    ASSUME T!TypeOK, SharedEntry, CommandsInOrder, redis.commands # << >>
    PROVE  LET e == Head(redis.commands)
               rest == Tail(redis.commands) IN
           /\ ~channel.ready /\ rest \in Seq(Commands)
           /\ \/ /\ e = channel.by /\ channel.by \in Streams /\ rest = << >>
                 /\ T!Joined(e) = {s \in Streams : stream[s].pc # "free"}
              \/ /\ e = "unsubscribe" /\ e # channel.by /\ T!Joined(e) = {}
                 /\ channel.by # None =>
                      /\ rest # << >> /\ rest[Len(rest)] = channel.by
                      /\ \A i \in 1 .. Len(rest) - 1 : rest[i] = "unsubscribe"
                 /\ channel.by = None => \A i \in 1 .. Len(rest) : rest[i] = "unsubscribe"
<1> DEFINE sent == redis.commands
           e == Head(sent)
           rest == Tail(sent)
<1>1. /\ sent \in Seq(Commands) /\ sent # << >> /\ ~channel.ready
      /\ channel.by \in Streams \cup {None} /\ channel.by # "unsubscribe"
  BY StreamTypes, PortalAssumption DEF CommandsInOrder, Commands
<1>2. /\ channel.by # None => sent[Len(sent)] = channel.by /\ \A i \in 1 .. Len(sent) - 1 : sent[i] = "unsubscribe"
      /\ channel.by = None => \A i \in 1 .. Len(sent) : sent[i] = "unsubscribe"
  BY <1>1 DEF CommandsInOrder
<1> HIDE DEF sent
<1>3. /\ rest \in Seq(Commands) /\ Len(rest) = Len(sent) - 1 /\ Len(sent) \in Nat \ {0} /\ e = sent[1]
      /\ \A i \in 1 .. Len(sent) - 1 : rest[i] = sent[i + 1] /\ i + 1 \in 1 .. Len(sent)
  BY <1>1
<1>4. \A s \in Streams : stream[s].pc # "free" =>
        stream[s].entry = channel.by /\ channel.by \in Streams /\ stream[s].pc = "joins"
  BY <1>1 DEF SharedEntry
<1> HIDE DEF e, rest
<1>5. CASE channel.by # None /\ Len(sent) = 1
  <2>1. e = channel.by /\ channel.by \in Streams /\ Len(rest) = 0
    BY <1>1, <1>2, <1>3, <1>5
  <2>2. rest = << >>
    BY <1>3, <2>1, EmptySeq
  <2>3. T!Joined(e) = {s \in Streams : stream[s].pc # "free"}
    BY <1>4, <2>1 DEF T!Joined
  <2> QED  BY <1>1, <1>3, <2>1, <2>2, <2>3 DEF e, rest, sent
<1>6. CASE ~(channel.by # None /\ Len(sent) = 1)
  <2>1. e = "unsubscribe" /\ e # channel.by
    BY <1>1, <1>2, <1>3, <1>6
  <2>2. T!Joined(e) = {}
    BY <1>4, <2>1 DEF T!Joined
  <2>3. channel.by = None => \A i \in 1 .. Len(rest) : rest[i] = "unsubscribe"
    BY <1>2, <1>3
  <2>4. ASSUME channel.by # None
        PROVE  /\ rest # << >> /\ rest[Len(rest)] = channel.by
               /\ \A i \in 1 .. Len(rest) - 1 : rest[i] = "unsubscribe"
    <3>1. Len(rest) \in Nat \ {0} /\ Len(rest) \in 1 .. Len(sent) - 1 /\ Len(rest) + 1 = Len(sent)
      BY <1>3, <1>6, <2>4
    <3>2. rest # << >>
      BY <3>1, EmptySeq
    <3>3. rest[Len(rest)] = channel.by
      BY <1>2, <1>3, <2>4, <3>1
    <3>4. ASSUME NEW i \in 1 .. Len(rest) - 1 PROVE rest[i] = "unsubscribe"
      <4>1. i \in 1 .. Len(sent) - 1 /\ i + 1 \in 1 .. Len(sent) - 1
        BY <1>3, <3>1
      <4> QED  BY <1>2, <1>3, <2>4, <4>1
    <3> QED  BY <3>2, <3>3, <3>4
  <2> QED  BY <1>1, <1>3, <2>1, <2>2, <2>3, <2>4 DEF e, rest, sent
<1> QED  BY <1>5, <1>6

\* Redis answers: the entry is ready, and all who waited for it read on.
LEMMA StepAnswers ==
    ASSUME StreamInv, T!Answers
    PROVE  StreamInv'
<1> DEFINE e == Head(redis.commands)
           rest == Tail(redis.commands)
<1>1. /\ redis.commands # << >> /\ T!TypeOK /\ Structure
      /\ redis' = [subscribed |-> e # "unsubscribe", commands |-> rest]
      /\ channel' = [channel EXCEPT !.ready = @ \/ e = channel.by]
      /\ stream' = [s \in Streams |-> IF s \in T!Joined(e) THEN [stream[s] EXCEPT !.pc = "reads"] ELSE stream[s]]
      /\ UNCHANGED <<notes, untold, missed, mine, tab, line, shown, outages>>
  BY DEF T!Answers, StreamInv
<1>2. /\ ~channel.ready /\ rest \in Seq(Commands)
      /\ \/ /\ e = channel.by /\ channel.by \in Streams /\ rest = << >>
            /\ T!Joined(e) = {s \in Streams : stream[s].pc # "free"}
         \/ /\ e = "unsubscribe" /\ e # channel.by /\ T!Joined(e) = {}
            /\ channel.by # None =>
                 /\ rest # << >> /\ rest[Len(rest)] = channel.by
                 /\ \A i \in 1 .. Len(rest) - 1 : rest[i] = "unsubscribe"
            /\ channel.by = None => \A i \in 1 .. Len(rest) : rest[i] = "unsubscribe"
  BY <1>1, NextCommand DEF Structure
<1> DEFINE joined == T!Joined(e)
<1>3. \A s \in Streams : s \in joined => stream[s].pc = "joins"
  BY DEF T!Joined
<1>4. \A s \in Streams : stream[s] \in T!Serving
  BY <1>1, StreamTypes
<1> HIDE DEF e, rest, joined
<1>5. channel' = [by |-> channel.by, ready |-> e = channel.by, listeners |-> channel.listeners]
  <2>1. channel \in Entries /\ channel' = [channel EXCEPT !.ready = e = channel.by]
    BY <1>1, <1>2 DEF T!TypeOK, Entries
  <2>2. (e = channel.by) \in BOOLEAN
    OBVIOUS
  <2> QED  BY <2>1, <2>2, EntryChanges
<1>6. \A s \in Streams :
        /\ stream'[s].tab = stream[s].tab /\ stream'[s].entry = stream[s].entry /\ stream'[s] \in T!Serving
        /\ stream'[s].pc = IF s \in joined THEN "reads" ELSE stream[s].pc
  <2> SUFFICES ASSUME NEW s \in Streams
               PROVE  /\ stream'[s].tab = stream[s].tab /\ stream'[s].entry = stream[s].entry /\ stream'[s] \in T!Serving
                      /\ stream'[s].pc = IF s \in joined THEN "reads" ELSE stream[s].pc
    OBVIOUS
  <2>1. stream'[s] = IF s \in joined THEN [stream[s] EXCEPT !.pc = "reads"] ELSE stream[s]
    BY <1>1 DEF joined
  <2>2. CASE s \in joined
    <3>1. stream'[s] = [pc |-> "reads", tab |-> stream[s].tab, mark |-> stream[s].mark,
                        replay |-> stream[s].replay, entry |-> stream[s].entry]
      BY <1>4, <2>1, <2>2, ServingChanges
    <3>2. "reads" \in Steps
      BY DEF Steps
    <3> QED  BY <1>4, <2>2, <3>1, <3>2, ServingFields, ServingMade
  <2>3. CASE s \notin joined
    BY <1>4, <2>1, <2>3
  <2> QED  BY <2>2, <2>3
<1>7. redis'.commands = rest /\ redis'.subscribed = (e # "unsubscribe")
  BY <1>1
<1>8. {s \in Streams : stream'[s].pc = "live"} = {s \in Streams : stream[s].pc = "live"}
  BY <1>3, <1>6
<1>9. stream' \in [Streams -> T!Serving]
  BY <1>1, <1>6
<1>10. T!TypeOK'
  <2>1. channel' \in Entries
    BY <1>1, <1>5, StreamTypes DEF Entries
  <2>2. redis' \in [subscribed : BOOLEAN, commands : Seq(Commands)]
    BY <1>1, <1>2
  <2> QED  BY <1>1, <1>8, <1>9, <2>1, <2>2, TypesStay DEF T!TypeOK, Entries, Commands
<1>11. SharedEntry'
  <2> SUFFICES ASSUME NEW s \in Streams
               PROVE  IF stream'[s].pc = "free" THEN s \notin channel'.listeners
                      ELSE /\ s \in channel'.listeners /\ channel'.by \in Streams /\ stream'[s].entry = channel'.by
                           /\ stream'[s].pc # "joins" => channel'.ready
    BY DEF SharedEntry
  <2>1. channel'.by = channel.by /\ channel'.ready = (e = channel.by) /\ channel'.listeners = channel.listeners
    BY <1>5
  <2>2. IF stream[s].pc = "free" THEN s \notin channel.listeners
        ELSE s \in channel.listeners /\ channel.by \in Streams /\ stream[s].entry = channel.by /\ stream[s].pc = "joins"
    BY <1>1, <1>2 DEF Structure, SharedEntry
  <2>3. stream[s].pc # "free" => IF e = channel.by THEN s \in joined ELSE s \notin joined
    BY <1>2 DEF joined
  <2>4. s \in joined => stream[s].pc # "free"
    BY <1>3
  <2> QED  BY <1>6, <2>1, <2>2, <2>3, <2>4
<1>12. CommandsInOrder'
  <2>1. channel'.by = channel.by /\ channel'.ready = (e = channel.by)
    BY <1>5
  <2>2. channel.by \in Streams => channel.by # None /\ channel.by # "unsubscribe"
    BY PortalAssumption
  <2>3. channel'.ready => rest = << >> /\ redis'.subscribed /\ channel'.by # None
    BY <1>2, <1>7, <2>1, <2>2
  <2>4. ~channel'.ready /\ channel'.by # None =>
          rest # << >> /\ rest[Len(rest)] = channel'.by /\ \A i \in 1 .. Len(rest) - 1 : rest[i] = "unsubscribe"
    BY <1>2, <2>1
  <2>5. channel'.by = None => \A i \in 1 .. Len(rest) : rest[i] = "unsubscribe"
    BY <1>2, <2>1, <2>2
  <2> QED  BY <1>7, <2>3, <2>4, <2>5 DEF CommandsInOrder
<1>13. TabsOfStreams' /\ StreamsOfTabs' /\ EndComesLast' /\ EachOnce'
  <2>1. \A s \in Streams, t \in Tabs : Attached(s, t) => Attached(s, t)'
    BY <1>1, <1>3, <1>6 DEF Attached
  <2> QED  BY <1>1, <1>6, <2>1 DEF Structure, TabsOfStreams, StreamsOfTabs, EndComesLast, EachOnce
<1>14. T!NothingGoesUnnoticed'
  BY <1>1 DEF StreamInv, T!NothingGoesUnnoticed
<1> QED  BY <1>10, <1>11, <1>12, <1>13, <1>14 DEF StreamInv, Structure

\* A request that is refused frees its stream, and its tab starts over.
LEMMA RefusedMoves ==
    ASSUME T!TypeOK, NEW S \in SUBSET Streams, T!Refused(S)
    PROVE  /\ stream' \in [Streams -> T!Serving] /\ tab' \in [Tabs -> TabState]
           /\ \A s \in Streams : stream'[s] = IF s \in S THEN T!Free ELSE stream[s]
           /\ \A t \in Tabs : IF t \in T!TabsOf(S) THEN tab'[t].pc = "off" ELSE tab'[t] = tab[t]
<1>1. /\ stream' = [s \in Streams |-> IF s \in S THEN T!Free ELSE stream[s]]
      /\ tab' = [t \in Tabs |-> IF t \in T!TabsOf(S) THEN [tab[t] EXCEPT !.pc = "off", !.mark = 0] ELSE tab[t]]
  BY DEF T!Refused, T!NoMark
<1>2. \A s \in Streams : stream[s] \in T!Serving
  BY StreamTypes
<1>3. ASSUME NEW t \in Tabs
      PROVE  tab'[t] \in TabState /\ IF t \in T!TabsOf(S) THEN tab'[t].pc = "off" ELSE tab'[t] = tab[t]
  <2>1. tab'[t] = IF t \in T!TabsOf(S) THEN [tab[t] EXCEPT !.pc = "off", !.mark = 0] ELSE tab[t]
    BY <1>1
  <2>2. tab[t] \in TabState
    BY StreamTypes
  <2>3. CASE t \in T!TabsOf(S)
    <3>1. tab'[t] = [tab[t] EXCEPT !.pc = "off", !.mark = 0]
      BY <2>1, <2>3
    <3>2. tab'[t] = [pc |-> "off", mark |-> 0, asked |-> tab[t].asked]
      BY <2>2, <3>1 DEF TabState
    <3>3. tab[t].asked \in BOOLEAN
      BY <2>2, TabFields
    <3> QED  BY <2>3, <3>2, <3>3, TabMade
  <2> QED  BY <2>1, <2>2, <2>3
<1>4. tab' \in [Tabs -> TabState]
  BY <1>1, <1>3
<1>5. stream' \in [Streams -> T!Serving] /\ \A s \in Streams : stream'[s] = IF s \in S THEN T!Free ELSE stream[s]
  BY <1>1, <1>2, FreeServes
<1> QED  BY <1>3, <1>4, <1>5

\* Refused streams were not live: what holds of live ones and of the lines stands.
LEMMA RefusedKeeps ==
    ASSUME StreamInv, NEW S \in SUBSET Streams, \A s \in S : stream[s].pc \in {"joins", "reads"}, T!Refused(S),
           UNCHANGED <<notes, untold, missed, mine, line, shown>>
    PROVE  /\ TabsOfStreams' /\ StreamsOfTabs' /\ EndComesLast' /\ EachOnce' /\ T!NothingGoesUnnoticed'
           /\ {s \in Streams : stream'[s].pc = "live"} = {s \in Streams : stream[s].pc = "live"}
<1>1. /\ T!TypeOK /\ Structure /\ None \notin Tabs
      /\ \A s \in Streams : stream'[s] = IF s \in S THEN T!Free ELSE stream[s]
      /\ \A t \in Tabs : IF t \in T!TabsOf(S) THEN tab'[t].pc = "off" ELSE tab'[t] = tab[t]
  BY RefusedMoves, PortalAssumption DEF StreamInv
<1>2. T!Free.pc = "free" /\ T!Free.tab = None
  BY FreeServes
<1>3. \A t \in Tabs : t \in T!TabsOf(S) <=> \E s \in S : stream[s].tab = t
  BY <1>1 DEF T!TabsOf
<1>4. \A s \in S, t \in Tabs : stream[s].tab = t => line[t] = << >>
  BY <1>1 DEF Structure, TabsOfStreams, Attached
<1>5. TabsOfStreams'
  <2> SUFFICES ASSUME NEW s \in Streams, NEW t \in Tabs, stream'[s].tab = t PROVE Attached(s, t)'
    BY DEF TabsOfStreams
  <2>1. s \notin S /\ stream'[s] = stream[s]
    BY <1>1, <1>2
  <2>2. Attached(s, t)
    BY <1>1, <2>1 DEF Structure, TabsOfStreams
  <2>3. tab'[t] = tab[t]
    BY <1>1, <1>3, <2>1, <2>2 DEF Attached
  <2>4. \A r \in Streams : stream'[r].tab = t => r = s
    BY <1>1, <1>2, <2>2 DEF Attached
  <2> QED  BY <2>1, <2>2, <2>3, <2>4 DEF Attached
<1>6. StreamsOfTabs'
  <2> SUFFICES ASSUME NEW t \in Tabs
               PROVE  IF tab'[t].pc = "off" THEN line[t] = << >>
                      ELSE T!End \in T!ToSet(line[t]) \/ \E s \in Streams : stream'[s].tab = t
    BY DEF StreamsOfTabs
  <2>1. CASE t \in T!TabsOf(S)
    BY <1>1, <1>3, <1>4, <2>1
  <2>2. CASE t \notin T!TabsOf(S)
    BY <1>1, <1>3, <2>2 DEF Structure, StreamsOfTabs
  <2> QED  BY <2>1, <2>2
<1>7. EndComesLast' /\ EachOnce'
  BY <1>1 DEF Structure, EndComesLast, EachOnce
<1>8. T!NothingGoesUnnoticed'
  <2>1. \A t \in Tabs : tab'[t].pc = "open" => tab'[t] = tab[t]
    BY <1>1
  <2> QED  BY <2>1 DEF StreamInv, T!NothingGoesUnnoticed, T!Hint
<1>9. {s \in Streams : stream'[s].pc = "live"} = {s \in Streams : stream[s].pc = "live"}
  BY <1>1, <1>2
<1> QED  BY <1>5, <1>6, <1>7, <1>8, <1>9

\* A SUBSCRIBE that fails takes the entry along, and refuses all who wait for
\* it; an UNSUBSCRIBE is let be.
LEMMA StepFails ==
    ASSUME StreamInv, T!Fails
    PROVE  StreamInv'
<1> DEFINE e == Head(redis.commands)
           rest == Tail(redis.commands)
           joined == T!Joined(e)
<1>1. /\ redis.commands # << >> /\ T!TypeOK /\ Structure /\ T!Outage
      /\ redis' = [redis EXCEPT !.commands = rest]
      /\ channel' = IF e = channel.by THEN T!NoEntry ELSE channel
      /\ T!Refused(joined)
      /\ UNCHANGED <<notes, untold, missed, mine, line, shown>>
  BY DEF T!Fails, T!Forgotten, StreamInv
<1>2. /\ ~channel.ready /\ rest \in Seq(Commands)
      /\ \/ /\ e = channel.by /\ channel.by \in Streams /\ rest = << >>
            /\ joined = {s \in Streams : stream[s].pc # "free"}
         \/ /\ e = "unsubscribe" /\ e # channel.by /\ joined = {}
            /\ channel.by # None =>
                 /\ rest # << >> /\ rest[Len(rest)] = channel.by
                 /\ \A i \in 1 .. Len(rest) - 1 : rest[i] = "unsubscribe"
            /\ channel.by = None => \A i \in 1 .. Len(rest) : rest[i] = "unsubscribe"
  BY <1>1, NextCommand DEF Structure
<1>3. joined \in SUBSET Streams /\ \A s \in joined : stream[s].pc \in {"joins", "reads"}
  BY DEF T!Joined
<1> HIDE DEF e, rest, joined
<1>4. /\ TabsOfStreams' /\ StreamsOfTabs' /\ EndComesLast' /\ EachOnce' /\ T!NothingGoesUnnoticed'
      /\ {s \in Streams : stream'[s].pc = "live"} = {s \in Streams : stream[s].pc = "live"}
  BY <1>1, <1>3, RefusedKeeps
<1>5. /\ stream' \in [Streams -> T!Serving] /\ tab' \in [Tabs -> TabState]
      /\ \A s \in Streams : stream'[s] = IF s \in joined THEN T!Free ELSE stream[s]
  BY <1>1, <1>3, RefusedMoves
<1>6. /\ redis' \in [subscribed : BOOLEAN, commands : Seq(Commands)] /\ redis'.commands = rest
  BY <1>1, <1>2, StreamTypes DEF T!TypeOK, Commands
<1>7. channel' \in Entries /\ T!NoEntry.by = None /\ T!NoEntry.ready = FALSE /\ T!NoEntry.listeners = {}
  BY <1>1 DEF T!TypeOK, Entries, T!NoEntry
<1>8. T!TypeOK'
  BY <1>1, <1>4, <1>5, <1>6, <1>7, TypesStay, OutageCounts DEF T!TypeOK, Entries, Commands, TabState, T!NoMark
<1>9. CASE e = channel.by
  <2>1. /\ channel' = T!NoEntry /\ rest = << >>
        /\ joined = {s \in Streams : stream[s].pc # "free"}
    BY <1>1, <1>2, <1>9
  <2>2. \A s \in Streams : stream'[s].pc = "free"
    BY <1>5, <2>1, FreeServes
  <2>3. SharedEntry'
    BY <1>7, <2>1, <2>2 DEF SharedEntry
  <2>4. CommandsInOrder'
    BY <1>6, <1>7, <2>1, EmptySeq DEF CommandsInOrder
  <2> QED  BY <1>4, <1>8, <2>3, <2>4 DEF StreamInv, Structure
<1>10. CASE e # channel.by
  <2>1. channel' = channel /\ joined = {}
    BY <1>1, <1>2, <1>10
  <2>2. \A s \in Streams : stream'[s] = stream[s]
    BY <1>5, <2>1
  <2>3. SharedEntry'
    BY <1>1, <2>1, <2>2 DEF Structure, SharedEntry
  <2>4. CommandsInOrder'
    BY <1>2, <1>6, <1>10, <2>1 DEF CommandsInOrder
  <2> QED  BY <1>4, <1>8, <2>3, <2>4 DEF StreamInv, Structure
<1> QED  BY <1>9, <1>10

---------------------------------------------------------------------------
\* One stream moves.
LEMMA StreamMoves ==
    ASSUME T!TypeOK, NEW s \in Streams, NEW x \in T!Serving, stream' = [stream EXCEPT ![s] = x]
    PROVE  stream' \in [Streams -> T!Serving] /\ \A r \in Streams : stream'[r] = IF r = s THEN x ELSE stream[r]
BY StreamTypes

\* Whoever stops listening leaves the entry to the others, or takes it along as
\* the last.
LEMMA LeavesEntry ==
    ASSUME T!TypeOK, Structure, NEW s \in Streams, stream[s].pc \in {"reads", "live"}, T!Unsubscribes(s),
           stream'[s].pc = "free", \A r \in Streams \ {s} : stream'[r] = stream[r]
    PROVE  /\ channel' \in Entries /\ redis' \in [subscribed : BOOLEAN, commands : Seq(Commands)]
           /\ SharedEntry' /\ CommandsInOrder'
<1> DEFINE left == channel.listeners \ {s}
<1>1. /\ channel \in Entries /\ redis \in [subscribed : BOOLEAN, commands : Seq(Commands)]
      /\ channel.by \in Streams /\ channel.by # None /\ stream[s].entry = channel.by /\ channel.ready
      /\ redis.commands = << >> /\ redis.subscribed
  BY PortalAssumption DEF T!TypeOK, Entries, Commands, Structure, SharedEntry, CommandsInOrder
<1>2. \A r \in Streams : stream'[r].pc # "free" => r # s /\ stream'[r] = stream[r] /\ r \in left
  BY DEF Structure, SharedEntry
<1>3. CASE left = {}
  <2>1. channel' = T!NoEntry /\ redis' = [redis EXCEPT !.commands = Append(@, "unsubscribe")]
    BY <1>1, <1>3 DEF T!Unsubscribes
  <2>2. channel' \in Entries /\ channel'.by = None /\ channel'.ready = FALSE /\ channel'.listeners = {}
    BY <2>1 DEF T!NoEntry, Entries
  <2>3. redis' \in [subscribed : BOOLEAN, commands : Seq(Commands)] /\ redis'.commands = <<"unsubscribe">>
    <3>1. <<"unsubscribe">> \in Seq(Commands)
      BY DEF Commands
    <3>2. Append(<< >>, "unsubscribe") = <<"unsubscribe">>
      OBVIOUS
    <3>3. redis' = [subscribed |-> redis.subscribed, commands |-> <<"unsubscribe">>]
      BY <1>1, <2>1, <3>2
    <3> QED  BY <1>1, <3>1, <3>3
  <2>4. SharedEntry'
    BY <1>2, <1>3, <2>2 DEF SharedEntry
  <2>5. CommandsInOrder'
    BY <2>2, <2>3 DEF CommandsInOrder
  <2> QED  BY <2>2, <2>3, <2>4, <2>5
<1>4. CASE left # {}
  <2>1. channel' = [channel EXCEPT !.listeners = left] /\ redis' = redis
    BY <1>4 DEF T!Unsubscribes
  <2>2. channel' = [by |-> channel.by, ready |-> channel.ready, listeners |-> left]
    BY <1>1, <2>1 DEF Entries
  <2>3. channel' \in Entries
    BY <1>1, <2>2 DEF Entries
  <2>4. channel'.by = channel.by /\ channel'.ready = channel.ready /\ channel'.listeners = left
    BY <2>2
  <2>5. SharedEntry'
    <3> SUFFICES ASSUME NEW r \in Streams
                 PROVE  IF stream'[r].pc = "free" THEN r \notin left
                        ELSE /\ r \in left /\ channel.by \in Streams /\ stream'[r].entry = channel.by
                             /\ stream'[r].pc # "joins" => channel.ready
      BY <2>4 DEF SharedEntry
    <3>1. CASE r = s
      BY <3>1
    <3>2. CASE r # s
      BY <1>2, <3>2 DEF Structure, SharedEntry
    <3> QED  BY <3>1, <3>2
  <2>6. CommandsInOrder'
    BY <1>1, <2>1, <2>4 DEF CommandsInOrder
  <2> QED  BY <1>1, <2>1, <2>3, <2>5, <2>6
<1> QED  BY <1>3, <1>4

\* The read of the replay fails.
LEMMA StepReplayFails ==
    ASSUME StreamInv, NEW s \in Streams, T!ReplayFails(s)
    PROVE  StreamInv'
<1>1. /\ T!TypeOK /\ Structure /\ stream[s].pc = "reads" /\ T!Outage /\ T!Unsubscribes(s) /\ T!Refused({s})
      /\ UNCHANGED <<notes, untold, missed, mine, line, shown>>
  BY DEF T!ReplayFails, StreamInv
<1>2. {s} \in SUBSET Streams /\ \A r \in {s} : stream[r].pc \in {"joins", "reads"}
  BY <1>1
<1>3. /\ TabsOfStreams' /\ StreamsOfTabs' /\ EndComesLast' /\ EachOnce' /\ T!NothingGoesUnnoticed'
      /\ {r \in Streams : stream'[r].pc = "live"} = {r \in Streams : stream[r].pc = "live"}
  BY <1>1, <1>2, RefusedKeeps
<1>4. /\ stream' \in [Streams -> T!Serving] /\ tab' \in [Tabs -> TabState]
      /\ \A r \in Streams : stream'[r] = IF r \in {s} THEN T!Free ELSE stream[r]
  BY <1>1, <1>2, RefusedMoves
<1>5. stream'[s].pc = "free" /\ \A r \in Streams \ {s} : stream'[r] = stream[r]
  BY <1>4, FreeServes
<1>6. /\ channel' \in Entries /\ redis' \in [subscribed : BOOLEAN, commands : Seq(Commands)]
      /\ SharedEntry' /\ CommandsInOrder'
  BY <1>1, <1>5, LeavesEntry
<1>7. T!TypeOK'
  BY <1>1, <1>3, <1>4, <1>6, TypesStay, OutageCounts DEF T!TypeOK, Entries, Commands, TabState, T!NoMark
<1> QED  BY <1>3, <1>6, <1>7 DEF StreamInv, Structure

\* The replay is read: rows of the inbox.
LEMMA StepSendsMissed ==
    ASSUME StreamInv, NEW s \in Streams, T!SendsMissed(s)
    PROVE  StreamInv'
<1>1. PICK replay \in T!Since(stream[s].mark) : stream' = [stream EXCEPT ![s].pc = "opens", ![s].replay = replay]
  BY DEF T!SendsMissed
<1>2. /\ T!TypeOK /\ Structure /\ stream[s].pc = "reads" /\ stream[s] \in T!Serving
      /\ UNCHANGED <<notes, untold, missed, channel, redis, mine, tab, line, shown, outages>>
  BY StreamTypes DEF T!SendsMissed, StreamInv
<1>3. replay \in Seq(notes)
  <2> DEFINE after == {n \in notes : n > stream[s].mark}
  <2>1. replay = << >> \/ replay \in T!BoundedSeq(after, ReplayLimit)
    BY <1>1 DEF T!Since
  <2>2. ASSUME replay \in T!BoundedSeq(after, ReplayLimit) PROVE replay \in Seq(notes)
    <3>1. PICK m \in 0 .. ReplayLimit : replay \in [1 .. m -> after]
      BY <2>2 DEF T!BoundedSeq, T!SeqOf
    <3>2. m \in Nat /\ replay \in [1 .. m -> notes]
      BY <3>1, PortalAssumption
    <3> QED  BY <3>2, SeqDef
  <2> QED  BY <2>1, <2>2, EmptySeq
<1> DEFINE x == [pc |-> "opens", tab |-> stream[s].tab, mark |-> stream[s].mark, replay |-> replay, entry |-> stream[s].entry]
<1>4. stream' = [stream EXCEPT ![s] = x]
  <2> DEFINE y == [stream[s] EXCEPT !.pc = "opens", !.replay = replay]
  <2>1. stream' = [stream EXCEPT ![s] = y]
    BY <1>1
  <2>2. y = x
    BY <1>2, ServingChanges
  <2> QED  BY <2>1, <2>2
<1>5. x \in T!Serving
  BY <1>2, <1>3, ServingFields, ServingMade DEF Steps
<1>6. x.pc = "opens" /\ x.tab = stream[s].tab /\ x.entry = stream[s].entry
  OBVIOUS
<1> HIDE DEF x
<1>7. stream' \in [Streams -> T!Serving] /\ \A r \in Streams : stream'[r] = IF r = s THEN x ELSE stream[r]
  BY <1>2, <1>4, <1>5, StreamMoves
<1>8. \A r \in Streams :
        /\ stream'[r].tab = stream[r].tab /\ stream'[r].entry = stream[r].entry
        /\ stream'[r].pc = IF r = s THEN "opens" ELSE stream[r].pc
  BY <1>6, <1>7
<1>9. T!TypeOK'
  <2>1. {r \in Streams : stream'[r].pc = "live"} = {r \in Streams : stream[r].pc = "live"}
    BY <1>2, <1>8
  <2> QED  BY <1>2, <1>7, <2>1, TypesStay DEF T!TypeOK
<1>10. Structure'
  <2>1. SharedEntry'
    BY <1>2, <1>8 DEF Structure, SharedEntry
  <2>2. \A r \in Streams, t \in Tabs : Attached(r, t) => Attached(r, t)'
    BY <1>2, <1>8 DEF Attached
  <2> QED
    BY <1>2, <1>8, <2>1, <2>2 DEF Structure, CommandsInOrder, TabsOfStreams, StreamsOfTabs, EndComesLast, EachOnce
<1>11. T!NothingGoesUnnoticed'
  BY <1>2 DEF StreamInv, T!NothingGoesUnnoticed
<1> QED  BY <1>9, <1>10, <1>11 DEF StreamInv

\* A tab opens a stream, and joins a subscription or asks for one.
LEMMA StepOpens ==
    ASSUME StreamInv, NEW t \in Tabs, NEW s \in Streams, T!Opens(t, s)
    PROVE  StreamInv'
<1> DEFINE e == IF channel.by = None THEN s ELSE channel.by
           x == [pc |-> IF channel.ready THEN "reads" ELSE "joins", tab |-> t, mark |-> tab[t].mark,
                 replay |-> << >>, entry |-> e]
<1>1. /\ T!TypeOK /\ Structure /\ tab[t].pc = "off" /\ stream[s].pc = "free"
      /\ tab' = [tab EXCEPT ![t].pc = "opening"]
      /\ channel' = [channel EXCEPT !.by = e, !.listeners = @ \cup {s}]
      /\ redis' = IF channel.by = None THEN [redis EXCEPT !.commands = Append(@, s)] ELSE redis
      /\ stream' = [stream EXCEPT ![s] = [T!Free EXCEPT !.tab = t, !.entry = e, !.mark = tab[t].mark,
                                                        !.pc = IF channel.ready THEN "reads" ELSE "joins"]]
      /\ UNCHANGED <<notes, untold, missed, mine, line, shown, outages>>
  BY DEF T!Opens, StreamInv
<1>2. /\ channel \in Entries /\ redis \in [subscribed : BOOLEAN, commands : Seq(Commands)] /\ tab[t] \in TabState
      /\ None \notin Streams \cup Tabs /\ line[t] = << >> /\ e \in Streams /\ e # None
      /\ channel.by = None => \A r \in Streams : stream[r].pc = "free"
      /\ channel.ready => channel.by # None
  BY <1>1, StreamTypes, PortalAssumption
  DEF T!TypeOK, Entries, Commands, Structure, SharedEntry, CommandsInOrder, StreamsOfTabs
<1>3. channel' = [by |-> e, ready |-> channel.ready, listeners |-> channel.listeners \cup {s}]
  <2> HIDE DEF e
  <2> QED  BY <1>1, <1>2 DEF Entries
<1>4. stream' = [stream EXCEPT ![s] = x] /\ x \in T!Serving
  <2> DEFINE p == IF channel.ready THEN "reads" ELSE "joins"
  <2> HIDE DEF e, p
  <2>1. ASSUME NEW y, y = [T!Free EXCEPT !.tab = t, !.entry = e, !.mark = tab[t].mark, !.pc = p]
        PROVE  y = [pc |-> p, tab |-> t, mark |-> tab[t].mark, replay |-> << >>, entry |-> e]
    BY <2>1 DEF T!Free
  <2>2. stream' = [stream EXCEPT ![s] = [pc |-> p, tab |-> t, mark |-> tab[t].mark, replay |-> << >>, entry |-> e]]
    BY <1>1, <2>1 DEF p
  <2>3. p \in Steps /\ << >> \in Seq(notes) /\ tab[t].mark \in Notes \cup {0}
    BY <1>2, EmptySeq, TabFields DEF p, Steps
  <2>4. [pc |-> p, tab |-> t, mark |-> tab[t].mark, replay |-> << >>, entry |-> e] \in T!Serving
    BY <1>2, <2>3, ServingMade
  <2> QED  BY <2>2, <2>4 DEF p
<1>5. x.pc = (IF channel.ready THEN "reads" ELSE "joins") /\ x.tab = t /\ x.entry = e
  OBVIOUS
<1> HIDE DEF x
<1>6. stream' \in [Streams -> T!Serving] /\ \A r \in Streams : stream'[r] = IF r = s THEN x ELSE stream[r]
  BY <1>1, <1>4, StreamMoves
<1>7. tab' \in [Tabs -> TabState] /\ \A u \in Tabs : IF u = t THEN tab'[u].pc = "opening" ELSE tab'[u] = tab[u]
  <2> DEFINE y == [pc |-> "opening", mark |-> tab[t].mark, asked |-> tab[t].asked]
  <2>1. tab' = [tab EXCEPT ![t] = [tab[t] EXCEPT !.pc = "opening"]]
    BY <1>1
  <2>2. [tab[t] EXCEPT !.pc = "opening"] = y
    BY <1>2 DEF TabState
  <2>3. y \in TabState /\ y.pc = "opening"
    BY <1>2, TabFields, TabMade
  <2> HIDE DEF y
  <2>4. tab' = [tab EXCEPT ![t] = y]
    BY <2>1, <2>2
  <2> QED  BY <1>1, <2>3, <2>4, TabMoves
<1> HIDE DEF e
<1>8. channel'.by = e /\ channel'.ready = channel.ready /\ channel'.listeners = channel.listeners \cup {s} /\ channel' \in Entries
  BY <1>2, <1>3 DEF Entries
<1>9. redis' \in [subscribed : BOOLEAN, commands : Seq(Commands)]
  BY <1>1, <1>2 DEF Commands
<1>10. T!TypeOK'
  <2>1. {r \in Streams : stream'[r].pc = "live"} = {r \in Streams : stream[r].pc = "live"}
    BY <1>1, <1>5, <1>6
  <2> QED  BY <1>1, <1>6, <1>7, <1>8, <1>9, <2>1, TypesStay DEF T!TypeOK, Entries, Commands, TabState, T!NoMark
<1>11. SharedEntry'
  <2> SUFFICES ASSUME NEW r \in Streams
               PROVE  IF stream'[r].pc = "free" THEN r \notin channel'.listeners
                      ELSE /\ r \in channel'.listeners /\ channel'.by \in Streams /\ stream'[r].entry = channel'.by
                           /\ stream'[r].pc # "joins" => channel'.ready
    BY DEF SharedEntry
  <2>1. CASE r = s
    BY <1>2, <1>5, <1>6, <1>8, <2>1
  <2>2. CASE r # s
    BY <1>1, <1>2, <1>6, <1>8, <2>2 DEF Structure, SharedEntry, e
  <2> QED  BY <2>1, <2>2
<1>12. CommandsInOrder'
  <2>1. CASE channel.by = None
    <3> DEFINE sent == redis.commands
    <3>1. redis'.commands = Append(sent, s) /\ sent \in Seq(Commands) /\ s \in Commands /\ ~channel.ready /\ e = s
      BY <1>1, <1>2, <2>1 DEF Commands, e
    <3>2. \A i \in 1 .. Len(sent) : sent[i] = "unsubscribe"
      BY <1>1, <2>1 DEF Structure, CommandsInOrder
    <3> HIDE DEF sent
    <3>3. /\ Append(sent, s) # << >> /\ Append(sent, s)[Len(Append(sent, s))] = s
          /\ Len(Append(sent, s)) - 1 = Len(sent) /\ \A i \in 1 .. Len(sent) : Append(sent, s)[i] = sent[i]
      BY <3>1
    <3> QED  BY <1>2, <1>8, <3>1, <3>2, <3>3 DEF CommandsInOrder
  <2>2. CASE channel.by # None
    BY <1>1, <1>8, <2>2 DEF Structure, CommandsInOrder, e
  <2> QED  BY <2>1, <2>2
<1>13. \A r \in Streams : stream[r].tab # t
  BY <1>1 DEF Structure, TabsOfStreams, Attached
<1>14. TabsOfStreams'
  <2> SUFFICES ASSUME NEW r \in Streams, NEW u \in Tabs, stream'[r].tab = u PROVE Attached(r, u)'
    BY DEF TabsOfStreams
  <2>1. CASE r = s
    <3>1. u = t /\ stream'[s].pc \in {"reads", "joins"}
      BY <1>5, <1>6, <2>1
    <3>2. T!End \notin T!ToSet(line'[t])
      BY <1>1, <1>2 DEF T!ToSet
    <3>3. \A q \in Streams : stream'[q].tab = t => q = s
      BY <1>6, <1>13
    <3> QED  BY <1>1, <1>2, <1>7, <2>1, <3>1, <3>2, <3>3 DEF Attached
  <2>2. CASE r # s
    <3>1. stream'[r] = stream[r] /\ u # t /\ Attached(r, u)
      BY <1>1, <1>6, <1>13, <2>2 DEF Structure, TabsOfStreams
    <3>2. \A q \in Streams : stream'[q].tab = u => q = r
      BY <1>5, <1>6, <3>1 DEF Attached
    <3> QED  BY <1>1, <1>7, <3>1, <3>2 DEF Attached
  <2> QED  BY <2>1, <2>2
<1>15. StreamsOfTabs'
  <2> SUFFICES ASSUME NEW u \in Tabs
               PROVE  IF tab'[u].pc = "off" THEN line[u] = << >>
                      ELSE T!End \in T!ToSet(line[u]) \/ \E r \in Streams : stream'[r].tab = u
    BY <1>1 DEF StreamsOfTabs
  <2>1. CASE u = t
    BY <1>5, <1>6, <1>7, <2>1
  <2>2. CASE u # t
    <3>1. \A r \in Streams : stream[r].tab = u => stream'[r].tab = u
      BY <1>1, <1>6, FreeHasNoTab, <1>2 DEF Structure
    <3> QED  BY <1>1, <1>7, <2>2, <3>1 DEF Structure, StreamsOfTabs
  <2> QED  BY <2>1, <2>2
<1>16. EndComesLast' /\ EachOnce'
  BY <1>1 DEF Structure, EndComesLast, EachOnce
<1>17. T!NothingGoesUnnoticed'
  <2>1. \A u \in Tabs : tab'[u].pc = "open" => tab'[u] = tab[u]
    BY <1>7
  <2> QED  BY <1>1, <2>1 DEF StreamInv, T!NothingGoesUnnoticed, T!Hint
<1> QED  BY <1>10, <1>11, <1>12, <1>14, <1>15, <1>16, <1>17 DEF StreamInv, Structure

---------------------------------------------------------------------------
\* A frame is one of three kinds.
LEMMA FrameKinds ==
    ASSUME NEW f \in T!Frames
    PROVE  /\ T!Open # T!End
           /\ f = T!Open \/ f = T!End \/ (f # T!Open /\ f # T!End /\ f.id \in notes)
BY DEF T!Frames, T!Open, T!End, T!Hint

\* The first of more than one is not the last.
LEMMA FirstOfMany ==
    ASSUME NEW n \in Nat \ {0}, n # 1
    PROVE  1 \in 1 .. n - 1
OBVIOUS

\* The tab reads a frame: the end is the last one.
LEMMA StepReceives ==
    ASSUME StreamInv, NEW t \in Tabs, T!Receives(t)
    PROVE  StreamInv'
<1> DEFINE f == Head(line[t])
           rest == Tail(line[t])
<1>1. /\ T!TypeOK /\ Structure /\ line[t] # << >> /\ line[t] \in Seq(T!Frames) /\ tab[t] \in TabState
      /\ line' = [line EXCEPT ![t] = rest]
      /\ UNCHANGED <<notes, untold, missed, channel, redis, stream, mine, shown, outages>>
  BY StreamTypes DEF T!Receives, StreamInv
<1>2. /\ f \in T!Frames /\ rest \in Seq(T!Frames) /\ T!ToSet(line[t]) = {f} \cup T!ToSet(rest)
      /\ Len(rest) = Len(line[t]) - 1 /\ f = line[t][1]
      /\ Len(line[t]) \in Nat \ {0} /\ \A i \in 1 .. Len(rest) : rest[i] = line[t][i + 1]
  BY <1>1, HeldByTail
<1>3. f = T!End => rest = << >>
  <2>1. \A i \in 1 .. Len(line[t]) - 1 : line[t][i] # T!End
    BY <1>1 DEF Structure, EndComesLast
  <2> HIDE DEF f, rest
  <2>2. ASSUME Len(line[t]) # 1 PROVE 1 \in 1 .. Len(line[t]) - 1
    BY <1>2, <2>2, FirstOfMany
  <2>3. f = T!End => Len(line[t]) = 1
    BY <1>2, <2>1, <2>2
  <2>4. f = T!End => Len(rest) = 0
    BY <1>2, <2>3
  <2> QED  BY <1>2, <2>4, EmptySeq
<1>4. tab[t].pc # "off"
  BY <1>1 DEF Structure, StreamsOfTabs
<1>5. /\ tab' \in [Tabs -> TabState] /\ \A u \in Tabs \ {t} : tab'[u] = tab[u]
      /\ IF f = T!End THEN tab'[t].pc = "off" ELSE tab'[t].pc # "off" /\ tab'[t].asked
  <2> DEFINE opened == [tab[t] EXCEPT !.pc = "open", !.asked = TRUE]
             ended == [tab[t] EXCEPT !.pc = "off"]
             told == [tab[t] EXCEPT !.asked = TRUE, !.mark = f.id]
  <2>1. tab' = [tab EXCEPT ![t] = CASE f = T!Open -> opened [] f = T!End -> ended [] OTHER -> told]
    BY DEF T!Receives
  <2> HIDE DEF f, opened, ended, told
  <2>2. CASE f = T!Open
    <3> DEFINE x == [pc |-> "open", mark |-> tab[t].mark, asked |-> TRUE]
    <3>1. ASSUME NEW y, y = [tab[t] EXCEPT !.pc = "open", !.asked = TRUE] PROVE y = x
      BY <1>1, <3>1 DEF TabState
    <3>2. x \in TabState /\ x.pc = "open" /\ x.asked
      BY <1>1, TabFields, TabMade
    <3> HIDE DEF x
    <3>3. opened = x
      BY <3>1 DEF opened
    <3>4. f # T!End
      BY <1>2, <2>2, FrameKinds
    <3>5. tab' = [tab EXCEPT ![t] = x]
      BY <2>1, <2>2, <3>3, <3>4
    <3> QED  BY <1>1, <2>2, <3>2, <3>4, <3>5, TabMoves
  <2>3. CASE f = T!End
    <3> DEFINE x == [pc |-> "off", mark |-> tab[t].mark, asked |-> tab[t].asked]
    <3>1. ASSUME NEW y, y = [tab[t] EXCEPT !.pc = "off"] PROVE y = x
      BY <1>1, <3>1 DEF TabState
    <3>2. x \in TabState /\ x.pc = "off"
      BY <1>1, TabFields, TabMade
    <3> HIDE DEF x
    <3>3. ended = x
      BY <3>1 DEF ended
    <3>4. f # T!Open
      BY <1>2, <2>3, FrameKinds
    <3>5. tab' = [tab EXCEPT ![t] = x]
      BY <2>1, <2>3, <3>3, <3>4
    <3> QED  BY <1>1, <2>3, <3>2, <3>5, TabMoves
  <2>4. CASE f # T!Open /\ f # T!End
    <3> DEFINE x == [pc |-> tab[t].pc, mark |-> f.id, asked |-> TRUE]
    <3>1. ASSUME NEW y, y = [tab[t] EXCEPT !.asked = TRUE, !.mark = f.id] PROVE y = x
      BY <1>1, <3>1 DEF TabState
    <3>2. f.id \in Notes \cup {0}
      BY <1>1, <1>2, <2>4, FrameKinds, StreamTypes
    <3>3. x \in TabState /\ x.pc = tab[t].pc /\ x.asked
      BY <1>1, <3>2, TabFields, TabMade
    <3> HIDE DEF x
    <3>4. told = x
      BY <3>1 DEF told
    <3>5. tab' = [tab EXCEPT ![t] = x]
      BY <2>1, <2>4, <3>4
    <3> QED  BY <1>1, <1>4, <2>4, <3>3, <3>5, TabMoves
  <2> QED  BY <2>2, <2>3, <2>4
<1>6. line' \in [Tabs -> Seq(T!Frames)] /\ \A u \in Tabs : line'[u] = IF u = t THEN rest ELSE line[u]
  BY <1>1, <1>2, StreamTypes
<1> HIDE DEF f, rest
<1>7. T!TypeOK'
  BY <1>1, <1>5, <1>6, TypesStay DEF T!TypeOK, TabState, T!NoMark
<1>8. SharedEntry' /\ CommandsInOrder' /\ EachOnce'
  BY <1>1 DEF Structure, SharedEntry, CommandsInOrder, EachOnce
<1>9. TabsOfStreams'
  <2> SUFFICES ASSUME NEW s \in Streams, NEW u \in Tabs, stream[s].tab = u PROVE Attached(s, u)'
    BY <1>1 DEF TabsOfStreams
  <2>1. Attached(s, u)
    BY <1>1 DEF Structure, TabsOfStreams
  <2>2. CASE u = t
    BY <1>1, <1>2, <1>5, <1>6, <2>1, <2>2 DEF Attached
  <2>3. CASE u # t
    BY <1>1, <1>5, <1>6, <2>1, <2>3 DEF Attached
  <2> QED  BY <2>2, <2>3
<1>10. StreamsOfTabs'
  <2> SUFFICES ASSUME NEW u \in Tabs
               PROVE  IF tab'[u].pc = "off" THEN line'[u] = << >>
                      ELSE T!End \in T!ToSet(line'[u]) \/ \E s \in Streams : stream[s].tab = u
    BY <1>1 DEF StreamsOfTabs
  <2>1. CASE u = t
    BY <1>1, <1>2, <1>3, <1>4, <1>5, <1>6, <2>1 DEF Structure, StreamsOfTabs
  <2>2. CASE u # t
    BY <1>1, <1>5, <1>6, <2>2 DEF Structure, StreamsOfTabs
  <2> QED  BY <2>1, <2>2
<1>11. EndComesLast'
  <2> SUFFICES ASSUME NEW u \in Tabs, NEW i \in 1 .. Len(line'[u]) - 1 PROVE line'[u][i] # T!End
    BY DEF EndComesLast
  <2>1. CASE u = t
    <3>1. i \in 1 .. Len(rest) /\ i + 1 \in 1 .. Len(line[t]) - 1
      BY <1>2, <1>6, <2>1
    <3> QED  BY <1>1, <1>2, <1>6, <2>1, <3>1 DEF Structure, EndComesLast
  <2>2. CASE u # t
    BY <1>1, <1>6, <2>2 DEF Structure, EndComesLast
  <2> QED  BY <2>1, <2>2
<1>12. T!NothingGoesUnnoticed'
  <2> SUFFICES ASSUME NEW u \in Tabs, NEW m \in notes \ (shown[u] \cup untold \cup missed), tab'[u].pc = "open", ~tab'[u].asked
               PROVE  T!Hint(m) \in T!ToSet(line'[u]) \/ T!End \in T!ToSet(line'[u])
    BY <1>1 DEF T!NothingGoesUnnoticed
  <2>1. u # t
    BY <1>5
  <2> QED  BY <1>5, <1>6, <2>1 DEF StreamInv, T!NothingGoesUnnoticed
<1> QED  BY <1>7, <1>8, <1>9, <1>10, <1>11, <1>12 DEF StreamInv, Structure

\* The connection breaks: the tab is off, and a stream left without a tab.
LEMMA StepBreaks ==
    ASSUME StreamInv, NEW t \in Tabs, T!Breaks(t)
    PROVE  StreamInv'
<1>1. /\ T!TypeOK /\ Structure /\ T!Outage /\ tab[t] \in TabState /\ None \notin Tabs
      /\ tab' = [tab EXCEPT ![t].pc = "off"]
      /\ line' = [line EXCEPT ![t] = << >>]
      /\ stream' = [s \in Streams |-> IF stream[s].tab = t THEN [stream[s] EXCEPT !.tab = None] ELSE stream[s]]
      /\ UNCHANGED <<notes, untold, missed, channel, redis, mine, shown>>
  BY StreamTypes, PortalAssumption DEF T!Breaks, StreamInv
<1>2. tab' \in [Tabs -> TabState] /\ \A u \in Tabs : IF u = t THEN tab'[u].pc = "off" ELSE tab'[u] = tab[u]
  <2> DEFINE y == [pc |-> "off", mark |-> tab[t].mark, asked |-> tab[t].asked]
  <2>1. tab' = [tab EXCEPT ![t] = [tab[t] EXCEPT !.pc = "off"]]
    BY <1>1
  <2>2. [tab[t] EXCEPT !.pc = "off"] = y
    BY <1>1 DEF TabState
  <2>3. y \in TabState /\ y.pc = "off"
    BY <1>1, TabFields, TabMade
  <2> HIDE DEF y
  <2>4. tab' = [tab EXCEPT ![t] = y]
    BY <2>1, <2>2
  <2> QED  BY <1>1, <2>3, <2>4, TabMoves
<1>3. line' \in [Tabs -> Seq(T!Frames)] /\ \A u \in Tabs : line'[u] = IF u = t THEN << >> ELSE line[u]
  BY <1>1, StreamTypes, EmptySeq
<1>4. ASSUME NEW s \in Streams
      PROVE  /\ stream'[s] \in T!Serving
             /\ stream'[s].pc = stream[s].pc /\ stream'[s].entry = stream[s].entry
             /\ stream'[s].tab = IF stream[s].tab = t THEN None ELSE stream[s].tab
  <2>1. stream'[s] = IF stream[s].tab = t THEN [stream[s] EXCEPT !.tab = None] ELSE stream[s]
    BY <1>1
  <2>2. stream[s] \in T!Serving
    BY <1>1, StreamTypes
  <2>3. CASE stream[s].tab = t
    <3>1. stream'[s] = [pc |-> stream[s].pc, tab |-> None, mark |-> stream[s].mark,
                        replay |-> stream[s].replay, entry |-> stream[s].entry]
      BY <2>1, <2>2, <2>3, ServingChanges
    <3>2. /\ stream[s].pc \in Steps /\ None \in Tabs \cup {None} /\ stream[s].mark \in Notes \cup {0}
          /\ stream[s].replay \in Seq(notes) /\ stream[s].entry \in Streams \cup {None}
      BY <2>2, ServingFields
    <3>3. stream'[s] \in T!Serving
      BY <3>1, <3>2, ServingMade
    <3> QED  BY <2>3, <3>1, <3>3
  <2> QED  BY <2>1, <2>2, <2>3
<1>5. stream' \in [Streams -> T!Serving]
  BY <1>1, <1>4
<1>6. T!TypeOK'
  <2>1. {s \in Streams : stream'[s].pc = "live"} = {s \in Streams : stream[s].pc = "live"}
    BY <1>4
  <2> QED  BY <1>1, <1>2, <1>3, <1>5, <2>1, TypesStay, OutageCounts DEF T!TypeOK, TabState, T!NoMark
<1>7. SharedEntry' /\ CommandsInOrder' /\ EachOnce'
  BY <1>1, <1>4 DEF Structure, SharedEntry, CommandsInOrder, EachOnce
<1>8. TabsOfStreams'
  <2> SUFFICES ASSUME NEW s \in Streams, NEW u \in Tabs, stream'[s].tab = u PROVE Attached(s, u)'
    BY DEF TabsOfStreams
  <2>1. u # t /\ Attached(s, u)
    BY <1>1, <1>4 DEF Structure, TabsOfStreams
  <2>2. \A r \in Streams : stream'[r].tab = u => r = s
    BY <1>1, <1>4, <2>1 DEF Attached
  <2> QED  BY <1>2, <1>3, <1>4, <2>1, <2>2 DEF Attached
<1>9. StreamsOfTabs'
  BY <1>1, <1>2, <1>3, <1>4 DEF Structure, StreamsOfTabs
<1>10. EndComesLast'
  <2> SUFFICES ASSUME NEW u \in Tabs, NEW i \in 1 .. Len(line'[u]) - 1 PROVE line'[u][i] # T!End
    BY DEF EndComesLast
  <2>1. CASE u = t
    BY <1>3, <2>1, EmptySeq
  <2>2. CASE u # t
    BY <1>1, <1>3, <2>2 DEF Structure, EndComesLast
  <2> QED  BY <2>1, <2>2
<1>11. T!NothingGoesUnnoticed'
  BY <1>1, <1>2, <1>3 DEF StreamInv, T!NothingGoesUnnoticed, T!Hint
<1> QED  BY <1>6, <1>7, <1>8, <1>9, <1>10, <1>11 DEF StreamInv, Structure

---------------------------------------------------------------------------
\* What the server writes to a tab is added to its line.
LEMMA Writing ==
    ASSUME NEW L \in [Tabs -> Seq(T!Frames)], NEW t \in Tabs \cup {None}, NEW q \in Seq(T!Frames)
    PROVE  /\ T!Wrote(L, t, q) \in [Tabs -> Seq(T!Frames)]
           /\ \A u \in Tabs : T!Wrote(L, t, q)[u] = IF u = t THEN L[u] \o q ELSE L[u]
<1>1. CASE t = None
  BY <1>1, PortalAssumption DEF T!Wrote
<1>2. CASE t # None
  <2>1. t \in Tabs /\ T!Wrote(L, t, q) = [L EXCEPT ![t] = @ \o q] /\ L[t] \o q \in Seq(T!Frames)
    BY <1>2, ConcatProperties DEF T!Wrote
  <2> QED  BY <2>1
<1> QED  BY <1>1, <1>2

\* The last frame on a tab's line.
LEMMA LineEnds ==
    ASSUME line \in [Tabs -> Seq(T!Frames)], NEW b \in Tabs \cup {None}, line' = T!Wrote(line, b, <<T!End>>)
    PROVE  /\ line' \in [Tabs -> Seq(T!Frames)]
           /\ \A u \in Tabs : line'[u] = IF u = b THEN line[u] \o <<T!End>> ELSE line[u]
<1>1. <<T!End>> \in Seq(T!Frames)
  BY DEF T!Frames
<1> QED  BY <1>1, Writing

\* The end of a stream, told to a tab that has not heard of it: the last of its
\* line.
LEMMA EndIsLast ==
    ASSUME NEW q \in Seq(T!Frames), T!End \notin T!ToSet(q)
    PROVE  /\ q \o <<T!End>> \in Seq(T!Frames)
           /\ T!ToSet(q \o <<T!End>>) = T!ToSet(q) \cup {T!End}
           /\ \A i \in 1 .. Len(q \o <<T!End>>) - 1 : (q \o <<T!End>>)[i] # T!End
<1> DEFINE one == <<T!End>>
<1>1. one \in Seq(T!Frames) /\ Len(one) = 1 /\ one[1] = T!End /\ DOMAIN one = {1}
  BY DEF T!Frames
<1>2. T!ToSet(one) = {T!End}
  BY <1>1 DEF T!ToSet
<1> HIDE DEF one
<1>3. q \o one \in Seq(T!Frames) /\ T!ToSet(q \o one) = T!ToSet(q) \cup {T!End}
  BY <1>1, <1>2, ConcatProperties, HeldByConcat
<1>4. Len(q \o one) - 1 = Len(q) /\ \A i \in 1 .. Len(q) : (q \o one)[i] = q[i]
  <2>1. /\ Len(q \o one) = Len(q) + Len(one)
        /\ \A i \in 1 .. Len(q) + Len(one) : (q \o one)[i] = IF i <= Len(q) THEN q[i] ELSE one[i - Len(q)]
    BY <1>1, ConcatProperties
  <2>2. Len(q) \in Nat
    OBVIOUS
  <2> QED  BY <1>1, <2>1, <2>2
<1>5. \A i \in 1 .. Len(q) : q[i] # T!End
  BY DEF T!ToSet
<1> QED  BY <1>3, <1>4, <1>5 DEF one

\* A live stream ends, and its tab is told: what the streams and tabs are then.
LEMMA EndsWell ==
    ASSUME T!TypeOK, Structure, NEW s \in Streams, stream[s].pc = "live",
           stream' = [stream EXCEPT ![s] = T!Free], line' = T!Wrote(line, stream[s].tab, <<T!End>>), UNCHANGED <<notes, tab>>
    PROVE  /\ stream' \in [Streams -> T!Serving] /\ line' \in [Tabs -> Seq(T!Frames)]
           /\ \A r \in Streams : stream'[r] = IF r = s THEN T!Free ELSE stream[r]
           /\ TabsOfStreams' /\ StreamsOfTabs' /\ EndComesLast'
           /\ \A t \in Tabs : T!ToSet(line[t]) \subseteq T!ToSet(line'[t])
<1> DEFINE b == stream[s].tab
<1>1. stream' \in [Streams -> T!Serving] /\ \A r \in Streams : stream'[r] = IF r = s THEN T!Free ELSE stream[r]
  BY FreeServes, StreamMoves
<1>2. b \in Tabs \cup {None} /\ line \in [Tabs -> Seq(T!Frames)] /\ None \notin Tabs /\ T!Free.tab = None /\ T!Free.pc = "free"
  BY StreamTypes, ServingFields, PortalAssumption, FreeServes
<1>3. <<T!End>> \in Seq(T!Frames) /\ line' = T!Wrote(line, b, <<T!End>>)
  BY DEF T!Frames
<1> HIDE DEF b
<1>4. /\ line' \in [Tabs -> Seq(T!Frames)]
      /\ \A u \in Tabs : line'[u] = IF u = b THEN line[u] \o <<T!End>> ELSE line[u]
  BY <1>2, <1>3, LineEnds
<1>5. b \in Tabs => T!End \notin T!ToSet(line[b]) /\ \A r \in Streams : stream[r].tab = b => r = s
  BY DEF Structure, TabsOfStreams, Attached, b
<1>6. \A u \in Tabs : T!ToSet(line'[u]) = IF u = b THEN T!ToSet(line[u]) \cup {T!End} ELSE T!ToSet(line[u])
  BY <1>2, <1>4, <1>5, EndIsLast
<1>7. TabsOfStreams'
  <2> SUFFICES ASSUME NEW r \in Streams, NEW u \in Tabs, stream'[r].tab = u PROVE Attached(r, u)'
    BY DEF TabsOfStreams
  <2>1. r # s /\ stream'[r] = stream[r]
    BY <1>1, <1>2
  <2>2. Attached(r, u)
    BY <2>1 DEF Structure, TabsOfStreams
  <2>3. u # b
    BY <1>5, <2>1
  <2>4. line'[u] = line[u]
    BY <1>4, <2>3
  <2>5. \A q \in Streams : stream'[q].tab = u => q = r
    BY <1>1, <1>2, <2>2 DEF Attached
  <2> QED  BY <2>1, <2>2, <2>4, <2>5 DEF Attached
<1>8. StreamsOfTabs'
  <2> SUFFICES ASSUME NEW u \in Tabs
               PROVE  IF tab[u].pc = "off" THEN line'[u] = << >>
                      ELSE T!End \in T!ToSet(line'[u]) \/ \E r \in Streams : stream'[r].tab = u
    BY DEF StreamsOfTabs
  <2>1. CASE u = b
    <3>1. tab[u].pc # "off"
      BY <2>1 DEF Structure, TabsOfStreams, Attached, b
    <3> QED  BY <1>6, <2>1, <3>1
  <2>2. CASE u # b
    <3>1. \A r \in Streams : stream[r].tab = u => stream'[r].tab = u
      BY <1>1, <2>2 DEF b
    <3> QED  BY <1>4, <2>2, <3>1 DEF Structure, StreamsOfTabs
  <2> QED  BY <2>1, <2>2
<1>9. EndComesLast'
  <2> SUFFICES ASSUME NEW u \in Tabs, NEW i \in 1 .. Len(line'[u]) - 1 PROVE line'[u][i] # T!End
    BY DEF EndComesLast
  <2>1. CASE u = b
    BY <1>2, <1>4, <1>5, <2>1, EndIsLast
  <2>2. CASE u # b
    BY <1>4, <2>2 DEF Structure, EndComesLast
  <2> QED  BY <2>1, <2>2
<1> QED  BY <1>1, <1>4, <1>6, <1>7, <1>8, <1>9

\* A live stream ends, and its tab is told so last.
LEMMA StepEnds ==
    ASSUME StreamInv, NEW s \in Streams, T!Ends(s)
    PROVE  StreamInv'
<1>1. /\ T!TypeOK /\ Structure /\ stream[s].pc = "live" /\ T!Unsubscribes(s)
      /\ stream' = [stream EXCEPT ![s] = T!Free] /\ line' = T!Wrote(line, stream[s].tab, <<T!End>>)
      /\ UNCHANGED <<notes, untold, missed, tab, shown, outages>>
  BY DEF T!Ends, StreamInv
<1>2. PICK k \in DOMAIN mine : mine[k] = s /\ mine' = T!RemoveAt(mine, k)
  BY DEF T!Ends
<1>3. /\ stream' \in [Streams -> T!Serving] /\ line' \in [Tabs -> Seq(T!Frames)]
      /\ \A r \in Streams : stream'[r] = IF r = s THEN T!Free ELSE stream[r]
      /\ TabsOfStreams' /\ StreamsOfTabs' /\ EndComesLast'
      /\ \A t \in Tabs : T!ToSet(line[t]) \subseteq T!ToSet(line'[t])
  BY <1>1, EndsWell
<1>4. /\ channel' \in Entries /\ redis' \in [subscribed : BOOLEAN, commands : Seq(Commands)]
      /\ SharedEntry' /\ CommandsInOrder'
  <2>1. stream'[s].pc = "free" /\ \A r \in Streams \ {s} : stream'[r] = stream[r]
    BY <1>3, FreeServes
  <2> QED  BY <1>1, <2>1, LeavesEntry
<1>5. /\ mine' \in Seq(Streams) /\ Len(mine') = Len(mine) - 1 /\ T!ToSet(mine') = T!ToSet(mine) \ {s}
      /\ \A i, j \in 1 .. Len(mine') : mine'[i] = mine'[j] => i = j
  <2>1. mine \in Seq(Streams) /\ k \in 1 .. Len(mine) /\ \A i, j \in 1 .. Len(mine) : mine[i] = mine[j] => i = j
    BY <1>1, <1>2, StreamTypes DEF Structure, EachOnce
  <2> QED  BY <1>2, <2>1, HeldByRemoveAt
<1>6. T!TypeOK'
  <2>1. T!ToSet(mine') = {r \in Streams : stream'[r].pc = "live"}
    BY <1>1, <1>3, <1>5, StreamTypes, FreeServes
  <2>2. Len(mine') <= Cap
    BY <1>1, <1>5, StreamTypes, PortalAssumption
  <2> QED  BY <1>1, <1>3, <1>4, <1>5, <2>1, <2>2, TypesStay DEF T!TypeOK, Entries, Commands
<1>7. T!NothingGoesUnnoticed'
  <2> SUFFICES ASSUME NEW u \in Tabs, NEW m \in notes \ (shown[u] \cup untold \cup missed), tab[u].pc = "open", ~tab[u].asked
               PROVE  T!Hint(m) \in T!ToSet(line'[u]) \/ T!End \in T!ToSet(line'[u])
    BY <1>1 DEF T!NothingGoesUnnoticed
  <2> QED  BY <1>3 DEF StreamInv, T!NothingGoesUnnoticed
<1> QED  BY <1>3, <1>4, <1>5, <1>6, <1>7 DEF StreamInv, Structure, EachOnce

\* What a response begins with: no end.
LEMMA Beginning ==
    ASSUME NEW replay \in Seq(notes)
    PROVE  LET q == <<T!Open>> \o [i \in DOMAIN replay |-> T!Hint(replay[i])] IN
           q \in Seq(T!Frames) /\ T!End \notin T!ToSet(q)
<1> DEFINE hints == [i \in DOMAIN replay |-> T!Hint(replay[i])]
           one == <<T!Open>>
<1>1. one \in Seq(T!Frames) /\ T!End \notin T!ToSet(one)
  BY DEF T!Frames, T!Open, T!End, T!ToSet
<1>2. hints \in Seq(T!Frames) /\ T!End \notin T!ToSet(hints)
  <2>1. DOMAIN replay = 1 .. Len(replay) /\ Len(replay) \in Nat /\ \A i \in 1 .. Len(replay) : replay[i] \in notes
    OBVIOUS
  <2>2. \A n \in notes : T!Hint(n) \in T!Frames /\ T!Hint(n) # T!End
    BY DEF T!Frames, T!Hint, T!End
  <2>3. /\ hints \in [1 .. Len(replay) -> T!Frames] /\ DOMAIN hints = 1 .. Len(replay)
        /\ \A i \in 1 .. Len(replay) : hints[i] # T!End
    BY <2>1, <2>2
  <2> HIDE DEF hints
  <2>4. hints \in Seq(T!Frames)
    BY <2>1, <2>3, SeqDef
  <2> QED  BY <2>3, <2>4 DEF T!ToSet
<1> HIDE DEF hints, one
<1>3. one \o hints \in Seq(T!Frames) /\ T!End \notin T!ToSet(one \o hints)
  BY <1>1, <1>2, ConcatProperties, HeldByConcat
<1> QED  BY <1>3 DEF hints, one

\* The lines after a stream went live in another's place: its tab's holds what
\* the response begins with, the other's tab is told that it is over.
LEMMA LinesOfBoth ==
    ASSUME line \in [Tabs -> Seq(T!Frames)], NEW b \in Tabs \cup {None}, NEW c \in Tabs \cup {None},
           b = c => b = None, NEW q \in Seq(T!Frames), line' = T!Wrote(T!Wrote(line, b, q), c, <<T!End>>)
    PROVE  /\ line' \in [Tabs -> Seq(T!Frames)]
           /\ \A u \in Tabs : line'[u] = IF u = b THEN line[u] \o q ELSE IF u = c THEN line[u] \o <<T!End>> ELSE line[u]
<1> DEFINE begun == T!Wrote(line, b, q)
<1>1. begun \in [Tabs -> Seq(T!Frames)] /\ \A u \in Tabs : begun[u] = IF u = b THEN line[u] \o q ELSE line[u]
  BY Writing
<1> DEFINE one == <<T!End>>
<1>2. one \in Seq(T!Frames) /\ line' = T!Wrote(begun, c, one)
  BY DEF T!Frames
<1> HIDE DEF begun, one
<1>3. T!Wrote(begun, c, one) \in [Tabs -> Seq(T!Frames)]
      /\ \A u \in Tabs : T!Wrote(begun, c, one)[u] = IF u = c THEN begun[u] \o one ELSE begun[u]
  BY <1>1, <1>2, Writing
<1> QED  BY <1>1, <1>2, <1>3, PortalAssumption DEF one

\* A stream goes live, and the oldest ends if the member has as many as it may:
\* what the streams, the tabs and the entry are then.
LEMMA GoesLiveWell ==
    ASSUME T!TypeOK, Structure, NEW s \in Streams, stream[s].pc = "opens",
           NEW gone \in SUBSET Streams, \A r \in gone : stream[r].pc = "live",
           NEW c \in Tabs \cup {None}, NEW q \in Seq(T!Frames), T!End \notin T!ToSet(q),
           \A r \in gone : stream[r].tab = c, gone = {} => c = None,
           \A r \in Streams \ {s} : stream'[r] = IF r \in gone THEN T!Free ELSE stream[r],
           stream'[s].pc = "live", stream'[s].tab = stream[s].tab, stream'[s].entry = stream[s].entry,
           channel' = [channel EXCEPT !.listeners = @ \ gone], redis' = redis, tab' = tab,
           \A u \in Tabs : line'[u] = IF u = stream[s].tab THEN line[u] \o q
                                      ELSE IF u = c THEN line[u] \o <<T!End>> ELSE line[u]
    PROVE  /\ channel' \in Entries /\ SharedEntry' /\ CommandsInOrder'
           /\ TabsOfStreams' /\ StreamsOfTabs' /\ EndComesLast'
           /\ \A t \in Tabs : T!ToSet(line[t]) \subseteq T!ToSet(line'[t])
<1> DEFINE b == stream[s].tab
<1>1. /\ s \notin gone /\ b \in Tabs \cup {None} /\ None \notin Tabs /\ T!Free.pc = "free" /\ T!Free.tab = None
      /\ channel \in Entries /\ \A u \in Tabs : line[u] \in Seq(T!Frames)
  BY StreamTypes, ServingFields, PortalAssumption, FreeServes DEF T!TypeOK, Entries
<1>2. b \in Tabs => tab[b].pc = "opening" /\ line[b] = << >> /\ \A r \in Streams : stream[r].tab = b => r = s
  BY DEF Structure, TabsOfStreams, Attached
<1>3. c \in Tabs => /\ T!End \notin T!ToSet(line[c]) /\ c # b /\ tab[c].pc # "off"
                    /\ \A r \in Streams : stream[r].tab = c => r \in gone
  BY <1>1, <1>2 DEF Structure, TabsOfStreams, Attached
<1> HIDE DEF b
<1>4. \A u \in Tabs : line'[u] = IF u = b THEN q ELSE IF u = c THEN line[u] \o <<T!End>> ELSE line[u]
  <2> SUFFICES ASSUME NEW u \in Tabs
               PROVE  line'[u] = IF u = b THEN q ELSE IF u = c THEN line[u] \o <<T!End>> ELSE line[u]
    OBVIOUS
  <2>1. CASE u = b
    BY <1>2, <2>1, ConcatEmptySeq DEF b
  <2>2. CASE u # b
    BY <2>2 DEF b
  <2> QED  BY <2>1, <2>2
<1>5. channel' \in Entries /\ channel'.by = channel.by /\ channel'.ready = channel.ready /\ channel'.listeners = channel.listeners \ gone
  <2>1. channel' = [by |-> channel.by, ready |-> channel.ready, listeners |-> channel.listeners \ gone]
    BY <1>1 DEF Entries
  <2> QED  BY <1>1, <2>1 DEF Entries
<1>6. SharedEntry'
  <2> SUFFICES ASSUME NEW r \in Streams
               PROVE  IF stream'[r].pc = "free" THEN r \notin channel'.listeners
                      ELSE /\ r \in channel'.listeners /\ channel'.by \in Streams /\ stream'[r].entry = channel'.by
                           /\ stream'[r].pc # "joins" => channel'.ready
    BY DEF SharedEntry
  <2>1. CASE r = s
    BY <1>1, <1>5, <2>1 DEF Structure, SharedEntry
  <2>2. CASE r \in gone
    BY <1>1, <1>5, <2>2
  <2>3. CASE r # s /\ r \notin gone
    BY <1>5, <2>3 DEF Structure, SharedEntry
  <2> QED  BY <2>1, <2>2, <2>3
<1>7. CommandsInOrder'
  BY <1>5 DEF Structure, CommandsInOrder
<1>8. TabsOfStreams'
  <2> SUFFICES ASSUME NEW r \in Streams, NEW u \in Tabs, stream'[r].tab = u PROVE Attached(r, u)'
    BY DEF TabsOfStreams
  <2>1. r \notin gone /\ stream[r].tab = u
    BY <1>1
  <2>2. Attached(r, u)
    BY <2>1 DEF Structure, TabsOfStreams
  <2>3. \A p \in Streams : stream'[p].tab = u => p = r
    BY <1>1, <2>2 DEF Attached
  <2>4. u # c
    BY <1>3, <2>1
  <2>5. CASE r = s
    BY <1>4, <2>1, <2>2, <2>3, <2>5 DEF Attached, b
  <2>6. CASE r # s
    <3>1. u # b
      BY <1>2, <2>1, <2>6
    <3> QED  BY <1>4, <2>1, <2>2, <2>3, <2>4, <2>6, <3>1 DEF Attached
  <2> QED  BY <2>5, <2>6
<1>9. \A t \in Tabs : T!ToSet(line[t]) \subseteq T!ToSet(line'[t]) /\ (t = c => T!End \in T!ToSet(line'[t]))
  <2> SUFFICES ASSUME NEW t \in Tabs
               PROVE  T!ToSet(line[t]) \subseteq T!ToSet(line'[t]) /\ (t = c => T!End \in T!ToSet(line'[t]))
    OBVIOUS
  <2>1. CASE t = b
    <3>1. T!ToSet(line[t]) = {} /\ t # c
      BY <1>2, <1>3, <2>1 DEF T!ToSet
    <3> QED  BY <3>1
  <2>2. CASE t # b /\ t = c
    BY <1>1, <1>3, <1>4, <2>2, EndIsLast
  <2>3. CASE t # b /\ t # c
    BY <1>4, <2>3
  <2> QED  BY <2>1, <2>2, <2>3
<1>10. StreamsOfTabs'
  <2> SUFFICES ASSUME NEW u \in Tabs
               PROVE  IF tab[u].pc = "off" THEN line'[u] = << >>
                      ELSE T!End \in T!ToSet(line'[u]) \/ \E r \in Streams : stream'[r].tab = u
    BY DEF StreamsOfTabs
  <2>1. CASE tab[u].pc = "off"
    <3>1. u # b /\ u # c
      BY <1>2, <1>3, <2>1
    <3> QED  BY <1>4, <2>1, <3>1 DEF Structure, StreamsOfTabs
  <2>2. CASE tab[u].pc # "off" /\ T!End \in T!ToSet(line[u])
    BY <1>9, <2>2
  <2>3. CASE tab[u].pc # "off" /\ T!End \notin T!ToSet(line[u])
    <3>1. PICK r \in Streams : stream[r].tab = u
      BY <2>3 DEF Structure, StreamsOfTabs
    <3>2. CASE r \in gone
      BY <1>9, <2>3, <3>1, <3>2
    <3>3. CASE r \notin gone
      BY <2>3, <3>1, <3>3
    <3> QED  BY <3>2, <3>3
  <2> QED  BY <2>1, <2>2, <2>3
<1>11. EndComesLast'
  <2> SUFFICES ASSUME NEW u \in Tabs, NEW i \in 1 .. Len(line'[u]) - 1 PROVE line'[u][i] # T!End
    BY DEF EndComesLast
  <2>1. CASE u = b
    <3>1. i \in 1 .. Len(q) /\ DOMAIN q = 1 .. Len(q)
      BY <1>4, <2>1
    <3> QED  BY <1>4, <2>1, <3>1 DEF T!ToSet
  <2>2. CASE u # b /\ u = c
    <3>1. line'[u] = line[u] \o <<T!End>>
      BY <1>4, <2>2
    <3>2. \A j \in 1 .. Len(line[u] \o <<T!End>>) - 1 : (line[u] \o <<T!End>>)[j] # T!End
      BY <1>1, <1>3, <2>2, EndIsLast
    <3> QED  BY <3>1, <3>2
  <2>3. CASE u # b /\ u # c
    BY <1>4, <2>3 DEF Structure, EndComesLast
  <2> QED  BY <2>1, <2>2, <2>3
<1> QED  BY <1>5, <1>6, <1>7, <1>8, <1>9, <1>10, <1>11

\* A stream goes live, and past the cap the oldest ends.
LEMMA StepGoesLive ==
    ASSUME StreamInv, NEW s \in Streams, T!GoesLive(s)
    PROVE  StreamInv'
<1> DEFINE full == Len(mine) = Cap
           gone == IF full THEN {Head(mine)} ELSE {}
           b == stream[s].tab
           c == IF full THEN stream[Head(mine)].tab ELSE None
           q == <<T!Open>> \o [i \in DOMAIN stream[s].replay |-> T!Hint(stream[s].replay[i])]
           ended == [r \in Streams |-> IF r \in gone THEN T!Free ELSE stream[r]]
           x == [pc |-> "live", tab |-> stream[s].tab, mark |-> stream[s].mark, replay |-> << >>, entry |-> stream[s].entry]
<1>1. /\ T!TypeOK /\ Structure /\ stream[s].pc = "opens" /\ stream[s] \in T!Serving
      /\ UNCHANGED <<notes, untold, missed, redis, tab, shown, outages>>
  BY StreamTypes DEF T!GoesLive, StreamInv
<1>2. /\ stream' = [ended EXCEPT ![s].pc = "live", ![s].replay = << >>]
      /\ mine' = Append(IF gone = {} THEN mine ELSE Tail(mine), s)
      /\ channel' = [channel EXCEPT !.listeners = @ \ gone]
      /\ line' = IF gone = {} THEN T!Wrote(line, b, q) ELSE T!Wrote(T!Wrote(line, b, q), stream[Head(mine)].tab, <<T!End>>)
  BY DEF T!GoesLive
<1>3. full => mine # << >> /\ Head(mine) \in Streams /\ stream[Head(mine)].pc = "live" /\ Head(mine) # s
  <2> SUFFICES ASSUME full PROVE mine # << >> /\ Head(mine) \in Streams /\ stream[Head(mine)].pc = "live" /\ Head(mine) # s
    OBVIOUS
  <2>1. mine \in Seq(Streams) /\ mine # << >>
    BY <1>1, StreamTypes, PortalAssumption, EmptySeq
  <2>2. Head(mine) \in T!ToSet(mine)
    BY <2>1, HeldByTail
  <2> QED  BY <1>1, <2>1, <2>2, StreamTypes
<1>4. \A r \in gone : r \in Streams /\ stream[r].pc = "live" /\ r # s /\ stream[r].tab = c
  BY <1>3
<1>5. gone = {} => c = None /\ ~full
  OBVIOUS
<1>6. b \in Tabs \cup {None} /\ c \in Tabs \cup {None}
  BY <1>1, <1>3, StreamTypes, ServingFields
<1>7. q \in Seq(T!Frames) /\ T!End \notin T!ToSet(q)
  <2>1. stream[s].replay \in Seq(notes)
    BY <1>1, ServingFields
  <2> QED  BY <2>1, Beginning
<1>8. x \in T!Serving /\ x.pc = "live" /\ x.tab = stream[s].tab /\ x.entry = stream[s].entry
  <2>1. "live" \in Steps /\ << >> \in Seq(notes)
    BY EmptySeq DEF Steps
  <2> QED  BY <1>1, <2>1, ServingFields, ServingMade
<1> HIDE DEF q, x
<1>9. /\ stream' \in [Streams -> T!Serving] /\ stream'[s] = x
      /\ \A r \in Streams \ {s} : stream'[r] = IF r \in gone THEN T!Free ELSE stream[r]
  <2>1. ended \in [Streams -> T!Serving] /\ \A r \in Streams : ended[r] = IF r \in gone THEN T!Free ELSE stream[r]
    BY <1>1, StreamTypes, FreeServes
  <2>2. ended[s] = stream[s]
    BY <1>4, <2>1
  <2> HIDE DEF ended, gone
  <2> DEFINE y == [ended[s] EXCEPT !.pc = "live", !.replay = << >>]
  <2>3. stream' = [ended EXCEPT ![s] = y]
    BY <1>2
  <2>4. [stream[s] EXCEPT !.pc = "live", !.replay = << >>] = x
    BY <1>1, ServingChanges DEF x
  <2>5. y = x
    BY <2>2, <2>4
  <2> HIDE DEF y
  <2> QED  BY <1>8, <2>1, <2>3, <2>5
<1>10. /\ line' \in [Tabs -> Seq(T!Frames)]
       /\ \A u \in Tabs : line'[u] = IF u = b THEN line[u] \o q ELSE IF u = c THEN line[u] \o <<T!End>> ELSE line[u]
  <2>1. line \in [Tabs -> Seq(T!Frames)]
    BY <1>1, StreamTypes
  <2>2. b = c => b = None
    <3>1. b \in Tabs => \A r \in Streams : stream[r].tab = b => r = s
      BY <1>1 DEF Structure, TabsOfStreams, Attached
    <3> QED  BY <1>3, <1>6, <3>1
  <2>3. CASE full
    <3>1. line' = T!Wrote(T!Wrote(line, b, q), c, <<T!End>>)
      BY <1>2, <2>3
    <3> HIDE DEF b, c
    <3> QED  BY <1>6, <1>7, <2>1, <2>2, <3>1, LinesOfBoth
  <2>4. CASE ~full
    <3>1. line' = T!Wrote(line, b, q) /\ c = None
      BY <1>2, <2>4
    <3> HIDE DEF b, c
    <3>2. T!Wrote(line, b, q) \in [Tabs -> Seq(T!Frames)] /\ \A u \in Tabs : T!Wrote(line, b, q)[u] = IF u = b THEN line[u] \o q ELSE line[u]
      BY <1>6, <1>7, <2>1, Writing
    <3> QED  BY <3>1, <3>2, PortalAssumption
  <2> QED  BY <2>3, <2>4
<1>11. /\ channel' \in Entries /\ SharedEntry' /\ CommandsInOrder'
       /\ TabsOfStreams' /\ StreamsOfTabs' /\ EndComesLast'
       /\ \A t \in Tabs : T!ToSet(line[t]) \subseteq T!ToSet(line'[t])
  <2>1. gone \in SUBSET Streams /\ \A r \in gone : stream[r].pc = "live" /\ stream[r].tab = c
    BY <1>4
  <2>2. stream'[s].pc = "live" /\ stream'[s].tab = stream[s].tab /\ stream'[s].entry = stream[s].entry
    BY <1>8, <1>9
  <2>3. \A u \in Tabs : line'[u] = IF u = stream[s].tab THEN line[u] \o q ELSE IF u = c THEN line[u] \o <<T!End>> ELSE line[u]
    BY <1>10
  <2>4. T!TypeOK /\ Structure /\ stream[s].pc = "opens" /\ redis' = redis /\ tab' = tab
    BY <1>1
  <2>5. channel' = [channel EXCEPT !.listeners = @ \ gone]
    BY <1>2
  <2>6. gone = {} => c = None
    BY <1>5
  <2>7. c \in Tabs \cup {None}
    BY <1>6
  <2>8. \A r \in Streams \ {s} : stream'[r] = IF r \in gone THEN T!Free ELSE stream[r]
    BY <1>9
  <2> HIDE DEF gone, c, b
  <2> QED  BY <1>7, <2>1, <2>2, <2>3, <2>4, <2>5, <2>6, <2>7, <2>8, GoesLiveWell
<1>12. /\ mine' \in Seq(Streams) /\ Len(mine') <= Cap /\ EachOnce'
       /\ T!ToSet(mine') = (T!ToSet(mine) \ gone) \cup {s}
  <2> DEFINE m == IF gone = {} THEN mine ELSE Tail(mine)
  <2>1. mine \in Seq(Streams) /\ s \notin T!ToSet(mine) /\ Len(mine) <= Cap /\ \A i, j \in 1 .. Len(mine) : mine[i] = mine[j] => i = j
    BY <1>1, StreamTypes DEF Structure, EachOnce
  <2>2. /\ m \in Seq(Streams) /\ Len(m) + 1 <= Cap /\ T!ToSet(m) = T!ToSet(mine) \ gone
        /\ \A i, j \in 1 .. Len(m) : m[i] = m[j] => i = j
    <3>1. CASE full
      <4>1. m = Tail(mine) /\ gone = {Head(mine)}
        BY <3>1
      <4>2. mine # << >>
        BY <1>3, <3>1
      <4> HIDE DEF m, gone
      <4>3. /\ Tail(mine) \in Seq(Streams) /\ Len(Tail(mine)) = Len(mine) - 1 /\ T!ToSet(Tail(mine)) = T!ToSet(mine) \ {Head(mine)}
            /\ \A i, j \in 1 .. Len(Tail(mine)) : Tail(mine)[i] = Tail(mine)[j] => i = j
        BY <2>1, <4>2, TailOnce
      <4>4. Len(Tail(mine)) + 1 <= Cap
        BY <3>1, <4>3, PortalAssumption
      <4> QED  BY <4>1, <4>3, <4>4
    <3>2. CASE ~full
      <4>1. m = mine /\ gone = {}
        BY <3>2
      <4>2. Len(mine) + 1 <= Cap
        BY <2>1, <3>2, PortalAssumption
      <4> HIDE DEF m, gone
      <4> QED  BY <2>1, <4>1, <4>2
    <3> QED  BY <3>1, <3>2
  <2>3. mine' = Append(m, s)
    BY <1>2
  <2> HIDE DEF m, gone
  <2>4. s \in Streams \ T!ToSet(m)
    BY <2>1, <2>2
  <2>5. Append(m, s) \in Seq(Streams) /\ Len(Append(m, s)) = Len(m) + 1
    BY <2>2
  <2>6. T!ToSet(Append(m, s)) = T!ToSet(m) \cup {s}
    BY <2>2, HeldByAppend
  <2>7. \A i, j \in 1 .. Len(Append(m, s)) : Append(m, s)[i] = Append(m, s)[j] => i = j
    BY <2>2, <2>4, AppendOnce
  <2> QED  BY <2>2, <2>3, <2>5, <2>6, <2>7 DEF EachOnce
<1> HIDE DEF gone, b, c, ended
<1>13. T!TypeOK'
  <2>1. T!ToSet(mine') = {r \in Streams : stream'[r].pc = "live"}
    <3>1. T!ToSet(mine) = {r \in Streams : stream[r].pc = "live"} /\ T!Free.pc = "free"
      BY <1>1, StreamTypes, FreeServes
    <3> QED  BY <1>4, <1>8, <1>9, <1>12, <3>1
  <2> QED  BY <1>1, <1>9, <1>10, <1>11, <1>12, <2>1, TypesStay DEF T!TypeOK, Entries
<1>14. T!NothingGoesUnnoticed'
  <2> SUFFICES ASSUME NEW u \in Tabs, NEW m \in notes \ (shown[u] \cup untold \cup missed), tab[u].pc = "open", ~tab[u].asked
               PROVE  T!Hint(m) \in T!ToSet(line'[u]) \/ T!End \in T!ToSet(line'[u])
    BY <1>1 DEF T!NothingGoesUnnoticed
  <2> QED  BY <1>11 DEF StreamInv, T!NothingGoesUnnoticed
<1> QED  BY <1>11, <1>12, <1>13, <1>14 DEF StreamInv, Structure

---------------------------------------------------------------------------
\* Every step of the stream keeps its invariant.
LEMMA StreamStep == StreamInv /\ T!Next => StreamInv'
<1> SUFFICES ASSUME StreamInv, T!Next PROVE StreamInv'
  OBVIOUS
<1>1. ASSUME NEW n \in Notes, T!Writes(n) \/ T!Publishes(n) \/ T!PublishFails(n)
      PROVE  StreamInv'
  BY <1>1, StepWrites, StepPublishes, StepPublishFails
<1>2. CASE T!Answers \/ T!Fails
  BY <1>2, StepAnswers, StepFails
<1>3. ASSUME NEW t \in Tabs, NEW s \in Streams, T!Opens(t, s)
      PROVE  StreamInv'
  BY <1>3, StepOpens
<1>4. ASSUME NEW s \in Streams, T!Opening(s) \/ T!ReplayFails(s) \/ T!Ends(s)
      PROVE  StreamInv'
  BY <1>4, StepSendsMissed, StepGoesLive, StepReplayFails, StepEnds DEF T!Opening
<1>5. ASSUME NEW t \in Tabs, T!Receives(t) \/ T!Breaks(t) \/ T!Recovers(t) \/ T!Refetches(t)
      PROVE  StreamInv'
  BY <1>5, StepReceives, StepBreaks, StepRecovers, StepRefetches
<1> QED  BY <1>1, <1>2, <1>3, <1>4, <1>5 DEF T!Next

\* An open tab shows every note, or is about to hear of it, whatever streams it
\* has and whoever shares the channel.
THEOREM NotesAreNoticed == BothSpec => []NothingGoesUnnoticed
<1>1. BothInit => StreamInv
  BY StreamInit DEF BothInit
<1>2. StreamInv /\ [BothNext]_all_vars => StreamInv'
  <2> SUFFICES ASSUME StreamInv, [BothNext]_all_vars PROVE StreamInv'
    OBVIOUS
  <2>1. CASE InStream(T!Next)
    BY <2>1, StreamStep DEF InStream
  <2>2. CASE InAttachments(Next) \/ UNCHANGED all_vars
    <3>1. UNCHANGED stream_vars
      BY <2>2 DEF InAttachments, all_vars
    <3> QED  BY <3>1, StreamStutters
  <2> QED  BY <2>1, <2>2 DEF BothNext
<1>3. StreamInv => NothingGoesUnnoticed
  BY DEF StreamInv, NothingGoesUnnoticed
<1> QED  BY <1>1, <1>2, <1>3, PTL DEF BothSpec

=============================================================================
