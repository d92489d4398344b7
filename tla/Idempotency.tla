---------------------------- MODULE Idempotency ----------------------------
(* One Idempotency-Key of one actor on one route (src/apps/api/src/common/     *)
(* idempotency/idempotency.ts): a key in Redis that the first request claims   *)
(* and fills with its answer, and the retries that find it.                    *)
(*                                                                             *)
(* A handler commits, fails, or commits and fails afterwards.  A call to Redis *)
(* that fails is an outage.                                                    *)
EXTENDS Naturals, FiniteSets

CONSTANTS
    Callers,    \* requests that bear the key
    Body,        \* what each of them asks for
    None,
    MaxOutages   \* bound of the model: calls to Redis that fail, processes that die

VARIABLES
    key,       \* the key: free, pending or done, for a body
    caller,    \* what each request does next
    claimed,    \* requests that hold or held the claim
    made,       \* requests whose handler has committed an entity
    half,       \* those whose handler failed after its commit
    outages

idempotency_vars == <<key, caller, claimed, made, half, outages>>

Bodies == {Body[r] : r \in Callers}
NoSlot == [state |-> "free", body |-> None]

TypeOK ==
    /\ key \in {NoSlot} \cup [state : {"pending", "done"}, body : Bodies]
    /\ caller \in [Callers -> {"new", "reads", "handles", "stores", "frees", "answered", "refused", "dead"}]
    /\ claimed \subseteq Callers /\ made \subseteq Callers /\ half \subseteq made
    /\ outages \in 0 .. MaxOutages

Init ==
    /\ key = NoSlot /\ caller = [r \in Callers |-> "new"]
    /\ claimed = {} /\ made = {} /\ half = {} /\ outages = 0

Goes(r, pc) == caller' = [caller EXCEPT ![r] = pc]
Outage == outages < MaxOutages /\ outages' = outages + 1
Hold(state, r) == [state |-> state, body |-> Body[r]]

---------------------------------------------------------------------------
(* A request claims the key if it is free.                                     *)
Claims(r) ==
    /\ caller[r] = "new"
    /\ IF key = NoSlot
       THEN key' = Hold("pending", r) /\ claimed' = claimed \cup {r} /\ Goes(r, "handles")
       ELSE UNCHANGED <<key, claimed>> /\ Goes(r, "reads")
    /\ UNCHANGED <<made, half, outages>>

(* Redis cannot be reached, and the request goes on without a claim, which the *)
(* call may have set all the same.                                             *)
ClaimFails(r) ==
    /\ caller[r] = "new" /\ Outage /\ Goes(r, "handles")
    /\ key' \in {key, IF key = NoSlot THEN Hold("pending", r) ELSE key}
    /\ UNCHANGED <<claimed, made, half>>

(* The key was taken a moment ago: gone by now, the request goes on without    *)
(* it; of another request or pending still, it is refused; done, it is the     *)
(* answer.                                                                     *)
Reads(r) ==
    /\ caller[r] = "reads"
    /\ Goes(r, CASE key = NoSlot -> "handles"
                 [] key = Hold("done", r) -> "answered"
                 [] OTHER -> "refused")
    /\ UNCHANGED <<key, claimed, made, half, outages>>

ReadFails(r) ==
    /\ caller[r] = "reads" /\ Outage /\ Goes(r, "handles")
    /\ UNCHANGED <<key, claimed, made, half>>

Commits(r) ==
    /\ caller[r] = "handles" /\ made' = made \cup {r}
    /\ \/ Goes(r, IF r \in claimed THEN "stores" ELSE "answered") /\ UNCHANGED half
       \/ Goes(r, IF r \in claimed THEN "frees" ELSE "refused") /\ half' = half \cup {r}
    /\ UNCHANGED <<key, claimed, outages>>

\* A handler that fails frees the key, whoever holds it.
FailsAndFrees(r) ==
    /\ caller[r] = "handles" /\ Goes(r, "frees")
    /\ UNCHANGED <<key, claimed, made, half, outages>>

Fails(r) ==
    /\ caller[r] = "handles"
    /\ Goes(r, IF r \in claimed THEN "frees" ELSE "refused")
    /\ UNCHANGED <<key, claimed, made, half, outages>>

(* The one that claimed the key stores its answer or, having failed, frees the *)
(* key; either may come to nothing.                                            *)
Stores(r) ==
    /\ caller[r] = "stores" /\ Goes(r, "answered")
    /\ \/ key' = Hold("done", r) /\ UNCHANGED outages
       \/ Outage /\ UNCHANGED key
    /\ UNCHANGED <<claimed, made, half>>

Frees(r) ==
    /\ caller[r] = "frees" /\ Goes(r, "refused")
    /\ \/ key' = NoSlot /\ UNCHANGED outages
       \/ Outage /\ UNCHANGED key
    /\ UNCHANGED <<claimed, made, half>>

Dies(r) ==
    /\ caller[r] \in {"handles", "stores", "frees"} /\ Outage /\ Goes(r, "dead")
    /\ UNCHANGED <<key, claimed, made, half>>

Next == \E r \in Callers :
    \/ Claims(r) \/ ClaimFails(r) \/ Reads(r) \/ ReadFails(r)
    \/ Commits(r) \/ Fails(r) \/ Stores(r) \/ Frees(r) \/ Dies(r)

Spec == Init /\ [][Next]_idempotency_vars

---------------------------------------------------------------------------
(* Of the requests that claimed the key, one at most made an entity and        *)
(* answered for it, whoever failed, was refused or died in between.            *)
OneEntityPerClaim == \A r, s \in (made \cap claimed) \ half : r = s
=============================================================================
