----------------------------- MODULE MCServices -----------------------------
(* Five components that work by themselves, each set going by a job, a sweep   *)
(* or a clock, as one instance for TLC: focus names the one a behaviour is     *)
(* about, and the others stay as they were at first.  Lifecycle is the module  *)
(* itself, the others are instances; each component's fairness is its own.     *)
EXTENDS Lifecycle, FiniteSets

CONSTANTS
    Workers,
    Deliveries, MaxAttempts, Delays, Lease, Late, Threshold, MinOpen, MaxOpen,
    DisableAfter, MaxFails, MaxTurns,
    People, Founder, MaxChanges,
    Archives, Nobody, Cooldown, LinkLasts, MaxFailures,
    Copies, Forged, None, Attempts, MaxFaults

\* A worker is at some export or none, a message's deliveries can be counted,
\* a job has an attempt, somebody founded the workspace, and durations and bounds
\* are numbers.
ASSUME ServicesAssumption ==
    /\ Nobody \notin Archives /\ Cooldown \in Nat /\ LinkLasts \in Nat /\ MaxFailures \in Nat
    /\ IsFiniteSet(Copies) /\ Attempts \in Nat \ {0} /\ MaxFaults \in Nat
    /\ Founder \in People /\ MaxChanges \in Nat

VARIABLES
    focus,
    endpoint, row, jobs, slot, turns,
    standing, name, rows, join, reconcile, late, changes,
    export, archive, task, builder, sweep, failures,
    message, raw, intake, made, faults

W == INSTANCE Webhooks WITH Slots <- Workers
P == INSTANCE Picker
X == INSTANCE Exports WITH Builders <- Workers
M == INSTANCE Inbound

webhooks == <<endpoint, row, jobs, slot, turns>>
picker == <<standing, name, rows, join, reconcile, late, changes>>
exports == <<export, archive, task, builder, sweep, failures>>
inbound == <<message, raw, intake, made, faults>>
all_vars == <<focus, lifecycle_vars, webhooks, picker, exports, inbound>>

ServicesInit ==
    /\ focus \in {"lifecycle", "webhooks", "picker", "exports", "inbound"}
    /\ Init /\ W!Init /\ P!Init /\ X!Init /\ M!Init

InLifecycle(A) == focus = "lifecycle" /\ A /\ UNCHANGED <<focus, webhooks, picker, exports, inbound>>
InWebhooks(A)  == focus = "webhooks"  /\ A /\ UNCHANGED <<focus, lifecycle_vars, picker, exports, inbound>>
InPicker(A)    == focus = "picker"    /\ A /\ UNCHANGED <<focus, lifecycle_vars, webhooks, exports, inbound>>
InExports(A)   == focus = "exports"   /\ A /\ UNCHANGED <<focus, lifecycle_vars, webhooks, picker, inbound>>
InInbound(A)   == focus = "inbound"   /\ A /\ UNCHANGED <<focus, lifecycle_vars, webhooks, picker, exports>>

ServicesNext ==
    \/ InLifecycle(Next) \/ InWebhooks(W!Next) \/ InPicker(P!Next)
    \/ InExports(X!Next) \/ InInbound(M!Next)

\* One component moves in a behaviour, so theirs can share a conjunct.
Clocks == InWebhooks(W!Tick) \/ InLifecycle(Tick) \/ InExports(X!Tick) \/ InInbound(M!Tick)
Sweeps == InWebhooks(W!Sweep) \/ InPicker(P!Reconciles) \/ InExports(X!Sweeps) \/ InInbound(M!SweepFails)

ServicesFairness ==
    /\ WF_all_vars(Clocks) /\ WF_all_vars(Sweeps) /\ SF_all_vars(InPicker(P!Writes))
    /\ \A v \in Workers : WF_all_vars(InWebhooks(W!Finishes(v)) \/ InExports(X!GoesOn(v)))
    /\ \A g \in Purgers : WF_all_vars(InLifecycle(Purges(g)))
    /\ \A r \in Requests : WF_all_vars(InLifecycle(Follows(r)))
    /\ \A d \in Deliveries : WF_all_vars(InWebhooks(W!Runs(d)))
    /\ \A c \in Copies : WF_all_vars(InInbound(M!GoesOn(c)))

ServicesSpec == ServicesInit /\ [][ServicesNext]_all_vars /\ ServicesFairness

---------------------------------------------------------------------------
(* NothingIsHalfPurged and EventuallyPurged are Lifecycle's.                   *)

\* Webhooks: deliveries end, until none is pending.
EventuallyEnds == W!EventuallyEnds

\* Picker: in the end the picker repeats the source.
PickerSettles == P!PickerSettles

\* Exports: one export at most counts within a cooldown.
OneExportADay == X!TypeOK /\ X!OneExportADay

\* Exports: an archive whose link has lapsed is removed and its row expires.
ArchiveLapses == X!ArchiveLapses

\* Inbound: a message becomes one ticket or reply, exactly if its row says so.
ActsOnce == M!TypeOK /\ M!ActsOnce

\* Inbound: a received message is decided or failed.
EventuallyDecided == M!EventuallyDecided
=============================================================================
