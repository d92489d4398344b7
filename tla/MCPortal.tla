------------------------------ MODULE MCPortal ------------------------------
(* What a browser in the portal takes part in, on small instances for TLC:     *)
(* uploads to object storage (Attachments, the module itself) and the live     *)
(* stream (Stream, an instance).  Focus names the one a behaviour is about,    *)
(* and the other stays as it was at first.                                     *)
EXTENDS Attachments

CONSTANTS
    u1, u2, r1, r2,
    Notes, Tabs, Streams, ReplayLimit, Cap, MaxOutages

\* A note is numbered from 1, a stream is neither a command nor the lack of one,
\* and a member may have one at least.
ASSUME PortalAssumption ==
    /\ Notes \subseteq Nat \ {0} /\ ReplayLimit \in Nat /\ Cap \in Nat \ {0} /\ MaxOutages \in Nat
    /\ None \notin Streams \cup Tabs \cup {"unsubscribe"} /\ "unsubscribe" \notin Streams

VARIABLES
    focus,
    notes, untold, missed, channel, redis, stream, mine, tab, line, shown, outages

T == INSTANCE Stream WITH rows <- notes

stream_vars == <<notes, untold, missed, channel, redis, stream, mine, tab, line, shown, outages>>
all_vars == <<focus, vars, stream_vars>>

BothInit == focus \in {"attachments", "stream"} /\ Init /\ T!Init

InAttachments(A) == focus = "attachments" /\ A /\ UNCHANGED <<focus, stream_vars>>
InStream(A) == focus = "stream" /\ A /\ UNCHANGED <<focus, vars>>

BothNext == InAttachments(Next) \/ InStream(T!Next)

\* Attachments' fairness and Stream's, each about its own behaviours.
AttachmentsFairness ==
    /\ \A u \in Uploads :
        /\ WF_all_vars(InAttachments(Ages(u)))
        /\ SF_all_vars(InAttachments(\E r \in Requests : SweepTakes(r, u)))
    /\ \A r \in Requests : WF_all_vars(InAttachments(Handler(r)))

StreamFairness ==
    /\ WF_all_vars(InStream(T!Answers))
    /\ \A n \in Notes : WF_all_vars(InStream(T!Publishes(n)))
    /\ \A s \in Streams : WF_all_vars(InStream(T!Opening(s))) /\ WF_all_vars(InStream(T!Ends(s)))
    /\ \A b \in Tabs :
        /\ WF_all_vars(InStream(\E s \in Streams : T!Opens(b, s)))
        /\ WF_all_vars(InStream(T!Receives(b))) /\ WF_all_vars(InStream(T!Refetches(b)))

BothSpec == BothInit /\ [][BothNext]_all_vars /\ AttachmentsFairness /\ StreamFairness

---------------------------------------------------------------------------
(* The properties of attachments are Attachments'.                             *)

\* Stream: an open tab shows every note, or is about to hear of it.
NothingGoesUnnoticed == T!TypeOK /\ T!NothingGoesUnnoticed

\* Stream: in the end every tab shows every note.
TabsCatchUp == T!TabsCatchUp
=============================================================================
