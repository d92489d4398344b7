------------------------------ MODULE Exports ------------------------------
(* A workspace's exports (src/apps/api/src/exports, jobs/maintenance/          *)
(* retention-sweep.ts): a row per export, a job that builds the archive and    *)
(* moves the row, and the sweep that removes the archive once its link has     *)
(* lapsed.                                                                     *)
(*                                                                             *)
(* The archive's key is the export's, so all who build one write one object.   *)
(* A job whose worker dies or falls silent is given out again, and a silent    *)
(* worker may still be at work.  Time is in halves of the day that both the    *)
(* allowance and a link last; a build straddles one at most.                   *)
EXTENDS Naturals, FiniteSets

CONSTANTS
    Archives,   \* exports that may be asked for
    Builders,   \* workers
    Nobody,
    Cooldown, LinkLasts,
    MaxFailures  \* bound of the model: what fails, dies or falls silent

VARIABLES
    export,   \* the rows: status, time since it was asked for, time left of its link
    archive,  \* the objects in the bucket
    task,      \* the job of each export
    builder,  \* what each worker does next, and for which export
    sweep,    \* the export whose row the retention sweep moves next
    failures

export_vars == <<export, archive, task, builder, sweep, failures>>

Free == [pc |-> "free", at |-> Nobody, age |-> 0]

Rows == [status : {"none", "QUEUED", "RUNNING", "READY", "FAILED", "EXPIRED"},
         age : 0 .. Cooldown, left : 0 .. LinkLasts]
Working == [pc : {"free", "build", "ready", "fail"}, at : Archives \cup {Nobody}, age : 0 .. 1]

TypeOK ==
    /\ export \in [Archives -> Rows]
    /\ archive \subseteq Archives /\ task \in [Archives -> {"none", "queued", "taken"}]
    /\ builder \in [Builders -> Working]
    /\ sweep \in Archives \cup {Nobody} /\ failures \in 0 .. MaxFailures

Init ==
    /\ export = [e \in Archives |-> [status |-> "none", age |-> 0, left |-> 0]]
    /\ archive = {} /\ task = [e \in Archives |-> "none"]
    /\ builder = [w \in Builders |-> Free]
    /\ sweep = Nobody /\ failures = 0

Mishap == failures < MaxFailures /\ failures' = failures + 1

(* A move names the statuses it starts from, or nothing happens.               *)
Moves(e, from, to) ==
    export' = IF export[e].status \in from
              THEN [export EXCEPT ![e].status = to, ![e].left = IF to = "READY" THEN LinkLasts ELSE @]
              ELSE export

Counted(e) == export[e].status \notin {"none", "FAILED"}

---------------------------------------------------------------------------
(* An owner asks, under the organization's lock: the newest export that has    *)
(* not failed is a day old.  The job is added when that has committed.         *)
Asks(e) ==
    /\ export[e].status = "none"
    /\ \A f \in Archives : Counted(f) => export[f].age = Cooldown
    /\ export' = [export EXCEPT ![e] = [status |-> "QUEUED", age |-> 0, left |-> 0]]
    /\ \/ task' = [task EXCEPT ![e] = "queued"] /\ UNCHANGED failures
       \/ Mishap /\ UNCHANGED task
    /\ UNCHANGED <<archive, builder, sweep>>

(* A worker takes the job and starts, unless the export has ended.             *)
Starts(w, e) ==
    /\ builder[w] = Free /\ task[e] = "queued"
    /\ Moves(e, {"QUEUED", "RUNNING"}, "RUNNING")
    /\ IF export[e].status \in {"QUEUED", "RUNNING"}
       THEN /\ builder' = [builder EXCEPT ![w] = [pc |-> "build", at |-> e, age |-> 0]]
            /\ task' = [task EXCEPT ![e] = "taken"]
       ELSE task' = [task EXCEPT ![e] = "none"] /\ UNCHANGED builder
    /\ UNCHANGED <<archive, sweep, failures>>

Then(w, pc) == builder' = [builder EXCEPT ![w].pc = pc]

(* The job is done, unless it was given out again to somebody.                 *)
Finishes(w) ==
    /\ builder' = [builder EXCEPT ![w] = Free]
    /\ task' = [task EXCEPT ![builder[w].at] = IF @ = "queued" THEN "queued" ELSE "none"]

Builds(w) ==
    /\ builder[w].pc = "build"
    /\ archive' = archive \cup {builder[w].at} /\ Then(w, "ready")
    /\ UNCHANGED <<export, task, sweep, failures>>

(* A build that fails removes what is under its key, if it can.                *)
BuildFails(w) ==
    /\ builder[w].pc = "build" /\ Mishap
    /\ archive' \in {archive, archive \ {builder[w].at}} /\ Then(w, "fail")
    /\ UNCHANGED <<export, task, sweep>>

\* A move to READY from wherever the row is.
ReadyFromAnywhere(w) ==
    /\ builder[w].pc = "ready"
    /\ Moves(builder[w].at, {"RUNNING", "FAILED", "EXPIRED"}, "READY") /\ Finishes(w)
    /\ UNCHANGED <<archive, sweep, failures>>

IsReady(w) ==
    /\ builder[w].pc = "ready"
    /\ Moves(builder[w].at, {"RUNNING"}, "READY") /\ Finishes(w)
    /\ UNCHANGED <<archive, sweep, failures>>

ReadyFails(w) ==
    /\ builder[w].pc = "ready" /\ Mishap /\ Then(w, "fail")
    /\ UNCHANGED <<export, archive, task, sweep>>

Fails(w) ==
    /\ builder[w].pc = "fail"
    /\ Moves(builder[w].at, {"QUEUED", "RUNNING"}, "FAILED") /\ Finishes(w)
    /\ UNCHANGED <<archive, sweep, failures>>

(* A worker dies and its job is given out again or has been once too often, or *)
(* it falls silent and its job is given out while it is still at work.         *)
Dies(w) ==
    /\ builder[w] # Free /\ Mishap
    /\ builder' = [builder EXCEPT ![w] = Free]
    /\ task' \in {[task EXCEPT ![builder[w].at] = s] : s \in {"none", "queued"}}
    /\ UNCHANGED <<export, archive, sweep>>

FallsSilent(w) ==
    /\ builder[w] # Free /\ task[builder[w].at] = "taken" /\ Mishap
    /\ task' = [task EXCEPT ![builder[w].at] = "queued"]
    /\ UNCHANGED <<export, archive, builder, sweep>>

---------------------------------------------------------------------------
(* The sweep removes the archive of an export whose link has lapsed, then      *)
(* moves the row; what it leaves is swept tomorrow.                            *)
Lapsed(e) == export[e].status = "READY" /\ export[e].left = 0

\* A sweep that moves the row and leaves the archive.
SweepLeaves(e) ==
    /\ sweep = Nobody /\ Lapsed(e) /\ sweep' = e
    /\ UNCHANGED <<export, archive, task, builder, failures>>

SweepRemoves(e) ==
    /\ sweep = Nobody /\ Lapsed(e)
    /\ archive' = archive \ {e} /\ sweep' = e
    /\ UNCHANGED <<export, task, builder, failures>>

SweepExpires ==
    /\ sweep # Nobody
    /\ Moves(sweep, {"READY"}, "EXPIRED") /\ sweep' = Nobody
    /\ UNCHANGED <<archive, task, builder, failures>>

SweepFails ==
    /\ sweep # Nobody /\ Mishap /\ sweep' = Nobody
    /\ UNCHANGED <<export, archive, task, builder>>

Tick ==
    /\ \A w \in Builders : builder[w] = Free \/ builder[w].age = 0
    /\ export' = [e \in Archives |->
                   LET row == export[e] IN
                   [row EXCEPT !.age = IF row.status = "none" \/ @ = Cooldown THEN @ ELSE @ + 1,
                               !.left = IF row.status = "READY" /\ @ > 0 THEN @ - 1 ELSE @]]
    /\ builder' = [w \in Builders |-> IF builder[w] = Free THEN Free ELSE [builder[w] EXCEPT !.age = 1]]
    /\ UNCHANGED <<archive, task, sweep, failures>>

GoesOn(w) == Builds(w) \/ IsReady(w) \/ Fails(w)
Sweeps == SweepExpires \/ \E e \in Archives : SweepRemoves(e)

Next ==
    \/ \E e \in Archives : Asks(e) \/ \E w \in Builders : Starts(w, e)
    \/ \E w \in Builders : GoesOn(w) \/ BuildFails(w) \/ ReadyFails(w) \/ Dies(w) \/ FallsSilent(w)
    \/ Sweeps \/ SweepFails \/ Tick

(* Time passes, workers go on, and the sweep comes round every day.            *)
Fairness == WF_export_vars(Tick) /\ WF_export_vars(Sweeps) /\ \A w \in Builders : WF_export_vars(GoesOn(w))

Spec == Init /\ [][Next]_export_vars /\ Fairness

---------------------------------------------------------------------------
(* Within one cooldown at most one export counts, though exports fail, are     *)
(* built twice over and are asked for again: a row that has failed, and so no  *)
(* longer holds the cooldown, never comes back.                                *)
OneExportADay ==
    \A e, f \in Archives : Counted(e) /\ Counted(f) /\ export[e].age < Cooldown /\ export[f].age < Cooldown => e = f

(* An export that was ready expires, its archive removed, though the sweep may *)
(* fail between the two.                                                       *)
ArchiveLapses ==
    \A e \in Archives : export[e].status = "READY" ~> export[e].status = "EXPIRED" /\ e \notin archive
=============================================================================
