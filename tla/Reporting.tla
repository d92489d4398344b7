----------------------------- MODULE Reporting -----------------------------
(* The reporting facts (src/apps/api/src/reporting): one row per ticket that   *)
(* repeats what the ticket says, refreshed by the outbox's reporting consumer  *)
(* for the tickets its events name, and rebuilt page by page by the nightly    *)
(* reconcile, which holds the consumer's lock for each page.                   *)
(*                                                                             *)
(* What a fact says is a ticket's version and the flags the SLA scan set on    *)
(* it, which move no version.  Outbox is behind the events: whichever a drain  *)
(* reads it handles, or parks one that keeps failing, which an administrator   *)
(* may replay.                                                                 *)
EXTENDS Naturals

CONSTANTS
    Tickets,
    Refreshers,           \* drains, replays and reconciles
    MaxVersion, MaxFlags  \* bounds of the model

VARIABLES
    ticket,     \* each ticket's row, version 0 before it is created
    fact,       \* TicketFact, the row it repeats
    unread,     \* events past the consumer's cursor: a ticket, and what it had become
    parked,     \* dead letters of the consumer that wait to be replayed
    refresher   \* what each one does next

reporting_vars == <<ticket, fact, unread, parked, refresher>>

Row == [version : 0 .. MaxVersion, flags : 0 .. MaxFlags]
Absent == [version |-> 0, flags |-> 0]
AtRest == [pc |-> "rest"]

TypeOK ==
    /\ ticket \in [Tickets -> Row] /\ fact \in [Tickets -> Row]
    /\ unread \subseteq Tickets \X Row /\ parked \subseteq Tickets \X Row
    /\ \A w \in Refreshers :
        \/ refresher[w] \in {AtRest, [pc |-> "pages"]}
        \/ refresher[w].pc = "sources" /\ refresher[w].batch \subseteq unread \cup parked
        \/ /\ refresher[w].pc = "upsert" /\ refresher[w].batch \subseteq unread \cup parked
           /\ refresher[w].read \in [DOMAIN refresher[w].read -> Row]

Init ==
    /\ ticket = [k \in Tickets |-> Absent] /\ fact = ticket
    /\ unread = {} /\ parked = {}
    /\ refresher = [w \in Refreshers |-> AtRest]

---------------------------------------------------------------------------
(* A write of a ticket and the event that names it commit together.            *)
Commits(k, row) ==
    /\ ticket' = [ticket EXCEPT ![k] = row]
    /\ unread' = unread \cup {<<k, row>>}
    /\ UNCHANGED <<fact, parked, refresher>>

Edits(k) ==
    /\ ticket[k].version < MaxVersion
    /\ Commits(k, [ticket[k] EXCEPT !.version = @ + 1])

FlagsSla(k) ==
    /\ ticket[k] # Absent /\ ticket[k].flags < MaxFlags
    /\ Commits(k, [ticket[k] EXCEPT !.flags = @ + 1])

---------------------------------------------------------------------------
\* A lock that a reconcile does not take.
HoldsForEvents(w) ==
    refresher[w].pc = "sources" \/ (refresher[w].pc = "upsert" /\ refresher[w].batch # {})

(* The advisory lock of the reporting consumer, from a transaction's first     *)
(* statement to its last.                                                      *)
Holds(w) == refresher[w] # AtRest
LockIsFree == \A w \in Refreshers : ~Holds(w)

Goes(w, to) == refresher' = [refresher EXCEPT ![w] = to]

(* A drain takes the lock and reads a batch of events, or a replay one of the  *)
(* dead letters.                                                               *)
TakesBatch(w) ==
    /\ refresher[w] = AtRest /\ LockIsFree
    /\ \E batch \in (SUBSET unread \ {{}}) \cup {{e} : e \in parked} :
        Goes(w, [pc |-> "sources", batch |-> batch])
    /\ UNCHANGED <<ticket, fact, unread, parked>>

(* The tickets the batch names, as they are by then.                           *)
ReadsSources(w) ==
    /\ refresher[w].pc = "sources"
    /\ LET named == {e[1] : e \in refresher[w].batch} IN
       Goes(w, [pc |-> "upsert", batch |-> refresher[w].batch, read |-> [k \in named |-> ticket[k]]])
    /\ UNCHANGED <<ticket, fact, unread, parked>>

TakesPage(w) ==
    /\ refresher[w] = AtRest /\ LockIsFree
    /\ Goes(w, [pc |-> "pages"])
    /\ UNCHANGED <<ticket, fact, unread, parked>>

(* A page of the tickets there are: those whose fact says something else.      *)
ReadsPage(w) ==
    /\ refresher[w].pc = "pages"
    /\ \E page \in SUBSET {k \in Tickets : ticket[k] # Absent} :
        LET changed == {k \in page : fact[k] # ticket[k]} IN
        Goes(w, [pc |-> "upsert", batch |-> {}, read |-> [k \in changed |-> ticket[k]]])
    /\ UNCHANGED <<ticket, fact, unread, parked>>

(* The facts, unless one is of a later version, and what the batch was taken   *)
(* for: the cursor past it, or the dead letter replayed.                       *)
Upserts(w) ==
    /\ refresher[w].pc = "upsert"
    /\ LET read == refresher[w].read IN
       fact' = [k \in Tickets |->
                 IF k \in DOMAIN read /\ fact[k].version <= read[k].version THEN read[k] ELSE fact[k]]
    /\ unread' = unread \ refresher[w].batch
    /\ parked' = parked \ refresher[w].batch
    /\ Goes(w, AtRest)
    /\ UNCHANGED ticket

(* The transaction rolls back.                                                 *)
RollsBack(w) ==
    /\ refresher[w] # AtRest
    /\ Goes(w, AtRest)
    /\ UNCHANGED <<ticket, fact, unread, parked>>

(* An event that keeps failing is parked.                                      *)
Parks(e) ==
    /\ LockIsFree
    /\ unread' = unread \ {e} /\ parked' = parked \cup {e}
    /\ UNCHANGED <<ticket, fact, refresher>>

Next ==
    \/ \E k \in Tickets : Edits(k) \/ FlagsSla(k)
    \/ \E w \in Refreshers :
        TakesBatch(w) \/ ReadsSources(w) \/ TakesPage(w) \/ ReadsPage(w) \/ Upserts(w) \/ RollsBack(w)
    \/ \E e \in unread : Parks(e)

Spec == Init /\ [][Next]_reporting_vars

---------------------------------------------------------------------------
(* A fact differs from its ticket only while an event that names the ticket    *)
(* is unread or parked: no reconcile, replay or late drain puts an older state *)
(* back, though the scan's flags move no version to tell them apart by.        *)
FactsKeepUp ==
    \A k \in Tickets : fact[k] = ticket[k] \/ \E e \in unread \cup parked : e[1] = k
=============================================================================
