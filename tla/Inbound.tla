------------------------------ MODULE Inbound ------------------------------
(* A mail that comes in (src/apps/api/src/inbound): every delivery of it       *)
(* stores a raw copy and queues a job; the jobs share the message's row, which *)
(* one of them at a time claims, and one turns into a ticket or a reply in the *)
(* transaction that marks the row.  The sweep settles what nobody will finish  *)
(* and drops what has been kept long enough.                                   *)
(*                                                                             *)
(* All copies bear one Message-ID; the forged ones do not pass DMARC.  A claim *)
(* is fresh, stale after a minute and abandoned after ten; a worker may be     *)
(* slower than that.                                                           *)
EXTENDS Naturals, FiniteSets

CONSTANTS
    Copies, Forged,
    None,
    Attempts,  \* of a job
    MaxFaults  \* bound of the model: what fails or dies

VARIABLES
    message,    \* the message's row: what became of it, the claim's age, its raw copy,
                \* and whether the copy it was made from passed
    raw,        \* raw copies in the bucket
    intake,     \* each copy's job: what it does next, the attempts it has left, the raw
                \* copy of the row it read
    made,       \* tickets and replies made of the message
    faults

inbound_vars == <<message, raw, intake, made, faults>>

Unclaimed == 3
NoRow == [outcome |-> "none", claim |-> Unclaimed, raw |-> None, pass |-> FALSE]
Refusals == {"UNAUTHENTICATED", "REFUSED"}
Unacted == Refusals \cup {"FAILED"}

Messages == [outcome : Unacted \cup {"none", "RECEIVED", "ACTED"}, claim : 0 .. Unclaimed,
             raw : Copies \cup {None}, pass : BOOLEAN]
Jobs == [pc : {"none", "waits", "tries", "claims", "decides", "settles", "over"},
         left : 0 .. Attempts, read : Copies \cup {None}]

TypeOK ==
    /\ message \in Messages /\ raw \subseteq Copies
    /\ intake \in [Copies -> Jobs]
    /\ made \in Nat /\ faults \in 0 .. MaxFaults

Init ==
    /\ message = NoRow /\ raw = {}
    /\ intake = [c \in Copies |-> [pc |-> "none", left |-> Attempts, read |-> None]]
    /\ made = 0 /\ faults = 0

Fault == faults < MaxFaults /\ faults' = faults + 1
Goes(c, pc) == intake' = [intake EXCEPT ![c] = [pc |-> pc, left |-> @.left, read |-> None]]

(* The attempt fails, and the job has another or it has not.                   *)
Last(c) == intake[c].left = 1
Retries(c) ==
    intake' = [intake EXCEPT ![c] = [pc |-> IF Last(c) THEN "over" ELSE "waits", left |-> @.left - 1, read |-> None]]

---------------------------------------------------------------------------
(* A delivery stores its copy and adds its job, if it gets that far; the       *)
(* provider may deliver the same again, to the same key and job.               *)
Delivers(c) ==
    /\ intake[c].pc = "none"
    /\ raw' = raw \cup {c}
    /\ \/ Goes(c, "waits") /\ UNCHANGED faults
       \/ Fault /\ UNCHANGED intake
    /\ UNCHANGED <<message, made>>

(* The job records the message, unless it is recorded, and reads its row: one  *)
(* that is received is to be claimed, one that nothing was made of to be taken *)
(* over if the copy passes, and another is a duplicate.                        *)
Received(c) == [outcome |-> "RECEIVED", claim |-> Unclaimed, raw |-> c, pass |-> c \notin Forged]

Receives(c) ==
    /\ intake[c].pc = "waits" /\ c \in raw
    /\ message' = IF message.outcome = "none" THEN Received(c) ELSE message
    /\ IF message'.outcome \in Unacted /\ c \notin Forged
       THEN intake' = [intake EXCEPT ![c] = [pc |-> "tries", left |-> @.left, read |-> message.raw]]
       ELSE Goes(c, IF message'.outcome = "RECEIVED" THEN "claims" ELSE "over")
    /\ UNCHANGED <<raw, made, faults>>

(* If nothing was made of it still, the row begins anew, and the copy it bore  *)
(* when it was read goes, unless its removal fails; the loser of two takes it  *)
(* for a duplicate.                                                            *)
TakesOver(c) ==
    /\ intake[c].pc = "tries"
    /\ IF message.outcome \in Unacted
       THEN /\ message' = Received(c) /\ Goes(c, "claims")
            /\ \/ raw' = raw \ ({intake[c].read} \ {c}) /\ UNCHANGED faults
               \/ Fault /\ UNCHANGED raw
       ELSE Goes(c, "over") /\ UNCHANGED <<message, raw, faults>>
    /\ UNCHANGED made

IsMissing(c) ==
    /\ intake[c].pc = "waits" /\ c \notin raw
    /\ Goes(c, "over")
    /\ UNCHANGED <<message, raw, made, faults>>

(* A message that is received still and not in other hands, or in hands that   *)
(* have held it for a minute.                                                  *)
Claimable == message.outcome = "RECEIVED" /\ message.claim > 0

Claims(c) ==
    /\ intake[c].pc = "claims" /\ Claimable
    /\ message' = [message EXCEPT !.claim = 0] /\ Goes(c, "decides")
    /\ UNCHANGED <<raw, made, faults>>

IsBusy(c) ==
    /\ intake[c].pc = "claims" /\ ~Claimable
    /\ Retries(c)
    /\ UNCHANGED <<message, raw, made, faults>>

(* An attempt that fails after its claim settles the message or lets it go, if *)
(* it is received still, whoever holds it by now.                              *)
LetsGo(c) ==
    /\ message' = IF message.outcome # "RECEIVED" THEN message
              ELSE IF Last(c) THEN [message EXCEPT !.outcome = "FAILED", !.claim = 0]
              ELSE [message EXCEPT !.claim = Unclaimed]
    /\ Retries(c)

(* A refusal is written whatever the row says; only the database keeps one     *)
(* with a ticket from being a refusal, and then the attempt fails.             *)
Refuses(c) ==
    /\ intake[c].pc = "decides"
    /\ IF message.outcome \in {"ACTED", "none"} THEN LetsGo(c)
       ELSE /\ message' = [message EXCEPT !.outcome = IF c \in Forged THEN "UNAUTHENTICATED" ELSE "REFUSED", !.claim = 0]
            /\ Goes(c, "over")
    /\ UNCHANGED <<raw, made, faults>>

\* The mark is set on whatever the row holds.
ActsRegardless(c) ==
    /\ intake[c].pc = "decides" /\ c \notin Forged
    /\ IF message.pass
       THEN message' = [message EXCEPT !.outcome = "ACTED"] /\ made' = made + 1 /\ Goes(c, "settles")
       ELSE LetsGo(c) /\ UNCHANGED made
    /\ UNCHANGED <<raw, faults>>

(* The ticket or the reply and the mark on the row, or neither; the database   *)
(* takes the mark only on a row whose copy passed.                             *)
Acts(c) ==
    /\ intake[c].pc = "decides" /\ c \notin Forged
    /\ IF message.outcome = "RECEIVED" /\ message.pass
       THEN message' = [message EXCEPT !.outcome = "ACTED"] /\ made' = made + 1 /\ Goes(c, "settles")
       ELSE LetsGo(c) /\ UNCHANGED made
    /\ UNCHANGED <<raw, faults>>

(* The files are stored as well as can be and the row says it is done.         *)
Settles(c) ==
    /\ intake[c].pc = "settles"
    /\ message' = [message EXCEPT !.claim = 0] /\ Goes(c, "over")
    /\ UNCHANGED <<raw, made, faults>>

Errs(c) ==
    /\ intake[c].pc \in {"decides", "settles"} /\ Fault
    /\ LetsGo(c)
    /\ UNCHANGED <<raw, made>>

(* The worker dies, and its job is given out again or has been once too often. *)
Dies(c) ==
    /\ intake[c].pc \in {"tries", "claims", "decides", "settles"} /\ Fault
    /\ \E pc \in {"waits", "over"} : Goes(c, pc)
    /\ UNCHANGED <<message, raw, made>>

---------------------------------------------------------------------------
\* A sweep that looks for abandoned claims alone.
SweepFailsClaimed ==
    /\ message.outcome = "RECEIVED" /\ message.claim = 2
    /\ message' = [message EXCEPT !.outcome = "FAILED", !.claim = 0]
    /\ UNCHANGED <<raw, intake, made, faults>>

(* The hourly sweep fails a message whose claim is abandoned, or that was      *)
(* never claimed and is an hour old.                                           *)
SweepFails ==
    /\ message.outcome = "RECEIVED" /\ message.claim \in {2, Unclaimed}
    /\ message' = [message EXCEPT !.outcome = "FAILED", !.claim = 0]
    /\ UNCHANGED <<raw, intake, made, faults>>

(* After thirty days a settled message's copy goes, and after ninety the row   *)
(* of one nothing was made of.                                                 *)
AtRest == \A c \in Copies : intake[c].pc \in {"none", "over"}

SweepForgets ==
    /\ AtRest /\ message.outcome \notin {"none", "RECEIVED"}
    /\ \/ message.raw \in raw /\ raw' = raw \ {message.raw} /\ UNCHANGED message
       \/ message.raw \notin raw /\ message.outcome \in Unacted /\ message' = NoRow /\ UNCHANGED raw
    /\ UNCHANGED <<intake, made, faults>>

Tick ==
    /\ message.outcome = "RECEIVED" /\ message.claim < 2
    /\ message' = [message EXCEPT !.claim = @ + 1]
    /\ UNCHANGED <<raw, intake, made, faults>>

GoesOn(c) ==
    Receives(c) \/ TakesOver(c) \/ IsMissing(c) \/ Claims(c) \/ IsBusy(c) \/ Refuses(c) \/ Acts(c) \/ Settles(c)

Next ==
    \/ \E c \in Copies : Delivers(c) \/ GoesOn(c) \/ Errs(c) \/ Dies(c)
    \/ SweepFails \/ SweepForgets \/ Tick

(* Jobs go on, time passes, and the sweep comes round every hour.              *)
Fairness ==
    /\ WF_inbound_vars(Tick) /\ WF_inbound_vars(SweepFails)
    /\ \A c \in Copies : WF_inbound_vars(GoesOn(c))

Spec == Init /\ [][Next]_inbound_vars /\ Fairness

---------------------------------------------------------------------------
(* A message becomes one ticket or one reply, and exactly if its row says so,  *)
(* however often it is delivered, whoever takes over a slow worker's claim,    *)
(* and wherever a job dies.                                                    *)
ActsOnce == made = IF message.outcome = "ACTED" THEN 1 ELSE 0

(* A message that was received is decided, or failed by the sweep.             *)
EventuallyDecided == message.outcome = "RECEIVED" ~> message.outcome # "RECEIVED"
=============================================================================
