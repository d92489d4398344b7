---------------------------- MODULE Attachments ----------------------------
(***************************************************************************)
(* Ticket attachments (ADR 0005, ADR 0038): a row that holds storage quota *)
(* and up to two objects in the bucket, kept in step by requests and by    *)
(* the hourly sweep, which can only change rows in transactions and        *)
(* objects one at a time, before or after them.                            *)
(*                                                                         *)
(* Every upload is one unit of storage.  Time is an upload's age: its URL  *)
(* works while it is fresh, and the sweep abandons it once it is old.      *)
(* That every storage call may fail, and every process die between two     *)
(* calls, is counted in `mishaps`.                                         *)
(***************************************************************************)
EXTENDS Integers, FiniteSets

CONSTANTS
    Uploads,     \* attachment ids
    Requests,    \* handlers that may run at the same time
    Limit,       \* STORAGE_BYTES of the plan
    MaxMishaps,  \* bound: deaths and lost deletes
    None

ASSUME AttachmentsAssumption ==
    /\ Limit \in Nat /\ MaxMishaps \in Nat
    /\ IsFiniteSet(Uploads) /\ None \notin Uploads

VARIABLES
    row,      \* the Attachment row: none, PENDING, READY, or gone
    age,      \* time since its presign
    staged,   \* objects under staging/
    final,    \* objects at their final key
    used,     \* UsageCounter STORAGE_BYTES
    at,       \* where a handler is
    of,       \* the upload it works on, or None
    mishaps,
    doubled   \* history: uploads that two requests were completing at once

vars == <<row, age, staged, final, used, at, of, mishaps, doubled>>

Held == {u \in Uploads : row[u] \in {"pending", "ready"}}

Init ==
    /\ row = [u \in Uploads |-> "none"]
    /\ age = [u \in Uploads |-> "fresh"]
    /\ staged = {} /\ final = {}
    /\ used = 0
    /\ at = [r \in Requests |-> "idle"]
    /\ of = [r \in Requests |-> None]
    /\ mishaps = 0
    /\ doubled = {}

\* An id and a storage key nobody has used: both come from a new uuid.
Unused(u) == row[u] = "none" /\ u \notin final /\ \A q \in Requests : of[q] # u

Goto(r, place) ==
    /\ at' = [at EXCEPT ![r] = place]
    /\ of' = IF place = "idle" THEN [of EXCEPT ![r] = None] ELSE of

Begin(r, u, place) ==
    /\ at[r] = "idle"
    /\ at' = [at EXCEPT ![r] = place]
    /\ of' = [of EXCEPT ![r] = u]

\* QuotaService.consume: the increment fits under the limit, or all rolls back.
Consume == used < Limit /\ used' = used + 1

\* QuotaService.release, floored at zero.
Release == used' = IF used >= 1 THEN used - 1 ELSE 0

\* A delete that storage refuses is logged and forgotten.
RemoveObject(objects, u) ==
    \/ objects' = objects \ {u} /\ UNCHANGED mishaps
    \/ mishaps < MaxMishaps /\ mishaps' = mishaps + 1 /\ UNCHANGED objects

-----------------------------------------------------------------------------
(* A browser upload.                                                       *)

Presign(u) ==
    /\ Unused(u)
    /\ Consume
    /\ row' = [row EXCEPT ![u] = "pending"]
    /\ UNCHANGED <<age, staged, final, at, of, mishaps, doubled>>

\* The browser's PUT, as often as it likes while the URL works.
Put(u) ==
    /\ row[u] # "none" /\ age[u] = "fresh"
    /\ staged' = staged \cup {u}
    /\ UNCHANGED <<row, age, final, used, at, of, mishaps, doubled>>

Ages(u) ==
    /\ row[u] # "none" /\ age[u] # "old"
    /\ age' = [age EXCEPT ![u] = IF @ = "fresh" THEN "expired" ELSE "old"]
    /\ UNCHANGED <<row, staged, final, used, at, of, mishaps, doubled>>

\* Where a completion is between its first read and its last write.
Completing == {"sniff", "copy", "clear", "mark"}

\* complete: the row is read, outside any transaction.
CompleteReads(r, u) ==
    /\ row[u] = "pending"
    /\ Begin(r, u, "sniff")
    /\ doubled' = IF \E q \in Requests : of[q] = u /\ at[q] \in Completing
                  THEN doubled \cup {u} ELSE doubled
    /\ UNCHANGED <<row, age, staged, final, used, mishaps>>

\* The staged bytes are the declared file, or nothing is there.
Sniffed(r) ==
    /\ at[r] = "sniff"
    /\ Goto(r, IF of[r] \in staged THEN "copy" ELSE "idle")
    /\ UNCHANGED <<row, age, staged, final, used, mishaps, doubled>>

\* They are not: they go, and the row waits for the sweep.
Refused(r) ==
    /\ at[r] = "sniff" /\ of[r] \in staged
    /\ RemoveObject(staged, of[r])
    /\ Goto(r, "idle")
    /\ UNCHANGED <<row, age, final, used, doubled>>

\* A copy of an object that has gone meanwhile throws.
Copied(r) ==
    /\ at[r] = "copy"
    /\ final' = IF of[r] \in staged THEN final \cup {of[r]} ELSE final
    /\ Goto(r, IF of[r] \in staged THEN "clear" ELSE "idle")
    /\ UNCHANGED <<row, age, staged, used, mishaps, doubled>>

ClearedStaging(r) ==
    /\ at[r] = "clear"
    /\ RemoveObject(staged, of[r])
    /\ Goto(r, "mark")
    /\ UNCHANGED <<row, age, final, used, doubled>>

\* Mutant: the update names the row alone.
AnyRow(u) == TRUE

\* The row markReady's update finds.
Markable(u) == row[u] = "pending"

MarkedReady(r) ==
    /\ at[r] = "mark" /\ Markable(of[r])
    /\ row' = [row EXCEPT ![of[r]] = "ready"]
    /\ Goto(r, "idle")
    /\ UNCHANGED <<age, staged, final, used, mishaps, doubled>>

\* Mutant: the copy of a swept row is left where it is.
LeavesTheCopy(r) ==
    /\ at[r] = "mark" /\ ~Markable(of[r])
    /\ Goto(r, "idle")
    /\ UNCHANGED <<row, age, staged, final, used, mishaps, doubled>>

\* It was not pending any more: the copy is removed with it.
MarkRefused(r) ==
    /\ at[r] = "mark" /\ ~Markable(of[r])
    /\ Goto(r, "unlink")
    /\ UNCHANGED <<row, age, staged, final, used, mishaps, doubled>>

-----------------------------------------------------------------------------
(* A file from an email, a deletion, and the sweep.                        *)

\* ingest: the object first, ...
IngestPuts(r, u) ==
    /\ Unused(u)
    /\ Begin(r, u, "ingest")
    /\ final' = final \cup {u}
    /\ UNCHANGED <<row, age, staged, used, mishaps, doubled>>

\* ... then the row, READY at once, and its quota; ...
IngestSucceeds(r) ==
    /\ at[r] = "ingest"
    /\ Consume
    /\ row' = [row EXCEPT ![of[r]] = "ready"]
    /\ age' = [age EXCEPT ![of[r]] = "old"]
    /\ Goto(r, "idle")
    /\ UNCHANGED <<staged, final, mishaps, doubled>>

\* ... or, when the transaction fails (no room, no right), the object goes.
IngestFails(r) ==
    /\ at[r] = "ingest"
    /\ Goto(r, "unlink")
    /\ row' = [row EXCEPT ![of[r]] = "gone"]
    /\ UNCHANGED <<age, staged, final, used, mishaps, doubled>>

\* Mutant: that the row was there to delete is not looked at.
DeletedOrNot(u) == row[u] \in {"ready", "gone"}

\* The row is READY, and this transaction is the one that deletes it.
Deletable(u) == row[u] = "ready"

\* remove: a READY row and its quota in one transaction, the object after it.
Remove(r, u) ==
    /\ Deletable(u)
    /\ Begin(r, u, "unlink")
    /\ row' = [row EXCEPT ![u] = "gone"]
    /\ Release
    /\ UNCHANGED <<age, staged, final, mishaps, doubled>>

\* The last delete of a removal, of a refused completion, of a failed ingest.
Unlinked(r) ==
    /\ at[r] = "unlink"
    /\ RemoveObject(final, of[r])
    /\ Goto(r, "idle")
    /\ UNCHANGED <<row, age, staged, used, doubled>>

\* Mutant: the age is compared the wrong way round.
Newborn(u) == row[u] = "pending" /\ age[u] = "fresh"

\* An upload PENDING for an hour, twelve times the life of its URL.
Abandoned(u) == row[u] = "pending" /\ age[u] = "old"

SweepTakes(r, u) ==
    /\ Abandoned(u)
    /\ Begin(r, u, "sweep")
    /\ row' = [row EXCEPT ![u] = "gone"]
    /\ Release
    /\ UNCHANGED <<age, staged, final, mishaps, doubled>>

\* The objects go after it commits, the staging key first.
SweepClears(r) ==
    /\ at[r] = "sweep"
    /\ RemoveObject(staged, of[r])
    /\ Goto(r, "unlink")
    /\ UNCHANGED <<row, age, final, used, doubled>>

\* A process dies between two calls.
Dies(r) ==
    /\ at[r] # "idle"
    /\ mishaps < MaxMishaps /\ mishaps' = mishaps + 1
    /\ Goto(r, "idle")
    /\ UNCHANGED <<row, age, staged, final, used, doubled>>

-----------------------------------------------------------------------------
Handler(r) ==
    \/ Sniffed(r) \/ Refused(r) \/ Copied(r) \/ ClearedStaging(r)
    \/ MarkedReady(r) \/ MarkRefused(r)
    \/ IngestSucceeds(r) \/ IngestFails(r)
    \/ SweepClears(r) \/ Unlinked(r)

Next ==
    \/ \E u \in Uploads :
        \/ Presign(u) \/ Put(u) \/ Ages(u)
        \/ \E r \in Requests :
            CompleteReads(r, u) \/ IngestPuts(r, u) \/ Remove(r, u) \/ SweepTakes(r, u)
    \/ \E r \in Requests : Handler(r) \/ Dies(r)

Spec == Init /\ [][Next]_vars

\* Time passes, handlers run on, and the sweep comes back every hour.
FairSpec ==
    /\ Spec
    /\ \A u \in Uploads :
        /\ WF_vars(Ages(u))
        /\ SF_vars(\E r \in Requests : SweepTakes(r, u))
    /\ \A r \in Requests : WF_vars(Handler(r))

-----------------------------------------------------------------------------
(* Properties.                                                             *)

\* Every variable keeps its type.
TypeOK ==
    /\ row \in [Uploads -> {"none", "pending", "ready", "gone"}]
    /\ age \in [Uploads -> {"fresh", "expired", "old"}]
    /\ staged \subseteq Uploads /\ final \subseteq Uploads
    /\ used \in 0 .. Limit
    /\ at \in [Requests -> {"idle", "sniff", "copy", "clear", "mark",
                            "ingest", "sweep", "unlink"}]
    /\ of \in [Requests -> Uploads \cup {None}]
    /\ mishaps \in 0 .. MaxMishaps
    /\ doubled \subseteq Uploads

\* The counter is the rows it counts, whichever way an upload ends and
\* whoever races to end it: no unit is released twice or kept for nothing.
QuotaIsExact == used = Cardinality(Held)

\* "Never a row pointing at nothing" (attachments.service.ts:279): a READY row
\* has its object.
ReadyHasObject == \A u \in Uploads : row[u] = "ready" => u \in final

\* It does, whatever the sweep, deletions and deaths do to it, as long as no two
\* requests complete one upload at the same time.
KeepsItsObject ==
    \A u \in Uploads \ doubled : row[u] = "ready" => u \in final

\* An object at a final key is a READY row's, or a handler is about to make it
\* one or remove it; only a death or a refused delete leaves an orphan.
NoOrphan ==
    mishaps = 0 => \A u \in final :
        \/ row[u] = "ready"
        \/ \E r \in Requests :
            of[r] = u /\ at[r] \in {"clear", "mark", "ingest", "sweep", "unlink"}

\* No quota comes back while an unfinished upload's URL still works: the bytes
\* it could store are paid for (ADR 0038).  `gone` without READY is the sweep's.
PaidWhileWritable ==
    [][\A u \in Uploads :
        row[u] = "pending" /\ age[u] = "fresh" => row'[u] \in {"pending", "ready"}]_vars

\* An unfinished upload is completed or abandoned in the end.
EventuallySettled ==
    \A u \in Uploads : row[u] = "pending" ~> row[u] # "pending"

-----------------------------------------------------------------------------
(* Why it works: the inductive invariant behind the safety properties.     *)

\* A handler that is not idle has its upload.
BusyHaveUploads == \A r \in Requests : at[r] = "idle" <=> of[r] = None

\* A completion nobody doubled is alone, and from its copy on has its object;
\* only the sweep takes its row.
CompletionsInOrder ==
    \A r \in Requests : at[r] \in Completing /\ of[r] \notin doubled =>
        /\ row[of[r]] \in {"pending", "gone"}
        /\ at[r] \in {"clear", "mark"} /\ row[of[r]] = "pending" => of[r] \in final
        /\ \A q \in Requests \ {r} : at[q] \in Completing => of[q] # of[r]

\* An object is removed only after its row.
RemovalsInOrder ==
    \A r \in Requests :
        at[r] \in {"sweep", "unlink"} /\ of[r] \notin doubled => row[of[r]] = "gone"

\* A mail file's object is stored, and nobody else's, until its row is.
IngestsInOrder ==
    \A r \in Requests : at[r] = "ingest" =>
        /\ row[of[r]] = "none" /\ of[r] \in final
        /\ \A q \in Requests \ {r} : of[q] # of[r]

IndInv ==
    /\ TypeOK /\ QuotaIsExact /\ KeepsItsObject /\ NoOrphan
    /\ BusyHaveUploads /\ CompletionsInOrder /\ RemovalsInOrder /\ IngestsInOrder
=============================================================================
