------------------------------- MODULE Stream -------------------------------
(* The live stream of one member's notifications, end to end: the consumer     *)
(* that writes a row and publishes it once committed, the channel that one     *)
(* API process listens on for all its streams, the streams, and the browser's  *)
(* tabs, which take a frame for a hint and read the inbox (src/apps/api/src/   *)
(* notifications, common/http/sse.ts, src/apps/app/lib/live.ts).               *)
(*                                                                             *)
(* A note is a row of its own (what later folds into a row is left out); notes *)
(* are numbered in the order of their updatedAt and may commit in another.     *)
(* Redis answers a connection's commands in their order; a message reaches the *)
(* process when it is published.                                               *)
EXTENDS Naturals, Sequences, SequencesExt

CONSTANTS
    Notes,        \* 1 .. n
    Tabs,         \* the member's tabs
    Streams,      \* streams the process may hold at once
    None,
    ReplayLimit, Cap,
    MaxOutages    \* bound of the model: what fails or is cut off

VARIABLES
    rows,      \* notes committed
    untold,    \* those the consumer has yet to publish
    missed,    \* those whose publishing failed
    channel,   \* the process's entry for the workspace's channel
    redis,     \* whether Redis has the channel subscribed, and the commands it has to answer
    stream,    \* what each stream does next, for which tab, from which mark
    mine,      \* the member's streams in the order they were registered
    tab,       \* each tab's connection, the last id it has seen, and whether it must read the inbox
    line,      \* what the server has written and the tab not yet read
    shown,     \* the inbox as each tab last read it
    outages

stream_vars == <<rows, untold, missed, channel, redis, stream, mine, tab, line, shown, outages>>

NoMark == 0
NoEntry == [by |-> None, ready |-> FALSE, listeners |-> {}]
Open == [event |-> "open", id |-> NoMark]
End == [event |-> "end", id |-> NoMark]
Hint(n) == [event |-> "notification", id |-> n]
Free == [pc |-> "free", tab |-> None, mark |-> NoMark, replay |-> << >>, entry |-> None]

Frames == {Open, End} \cup {Hint(n) : n \in rows}
Serving == [pc : {"free", "joins", "reads", "opens", "live"}, tab : Tabs \cup {None},
            mark : Notes \cup {NoMark}, replay : Seq(rows), entry : Streams \cup {None}]

TypeOK ==
    /\ rows \subseteq Notes /\ untold \subseteq rows /\ missed \subseteq rows
    /\ channel \in [by : Streams \cup {None}, ready : BOOLEAN, listeners : SUBSET Streams]
    /\ redis \in [subscribed : BOOLEAN, commands : Seq(Streams \cup {"unsubscribe"})]
    /\ stream \in [Streams -> Serving]
    /\ mine \in Seq(Streams) /\ ToSet(mine) = {s \in Streams : stream[s].pc = "live"} /\ Len(mine) <= Cap
    /\ tab \in [Tabs -> [pc : {"off", "opening", "open"}, mark : Notes \cup {NoMark}, asked : BOOLEAN]]
    /\ line \in [Tabs -> Seq(Frames)] /\ shown \in [Tabs -> SUBSET rows]
    /\ outages \in 0 .. MaxOutages

Init ==
    /\ rows = {} /\ untold = {} /\ missed = {}
    /\ channel = NoEntry /\ redis = [subscribed |-> FALSE, commands |-> << >>]
    /\ stream = [s \in Streams |-> Free] /\ mine = << >>
    /\ tab = [t \in Tabs |-> [pc |-> "off", mark |-> NoMark, asked |-> FALSE]]
    /\ line = [t \in Tabs |-> << >>] /\ shown = [t \in Tabs |-> {}]
    /\ outages = 0

Outage == outages < MaxOutages /\ outages' = outages + 1

---------------------------------------------------------------------------
(* The consumer and the channel.                                               *)

\* NotifyConsumer's transaction commits a row.
Writes(n) ==
    /\ n \notin rows
    /\ rows' = rows \cup {n} /\ untold' = untold \cup {n}
    /\ UNCHANGED <<missed, channel, redis, stream, mine, tab, line, shown, outages>>

\* A listener passes the message to its stream, which nobody reads before it is
\* live.
Hears(t) == \E s \in channel.listeners : stream[s].pc = "live" /\ stream[s].tab = t

Publishes(n) ==
    /\ n \in untold
    /\ untold' = untold \ {n}
    /\ line' = [t \in Tabs |-> IF redis.subscribed /\ Hears(t) THEN Append(line[t], Hint(n)) ELSE line[t]]
    /\ UNCHANGED <<rows, missed, channel, redis, stream, mine, tab, shown, outages>>

\* publish never throws: the hint is lost.
PublishFails(n) ==
    /\ n \in untold /\ Outage
    /\ untold' = untold \ {n} /\ missed' = missed \cup {n}
    /\ UNCHANGED <<rows, channel, redis, stream, mine, tab, line, shown>>

\* The streams that wait for an entry's SUBSCRIBE.
Joined(e) == {s \in Streams : stream[s].pc = "joins" /\ stream[s].entry = e}
TabsOf(S) == {stream[s].tab : s \in S} \ {None}

\* The server refuses the request, or ends it with an error: the browser gives
\* up, and the tab starts over without the last id.
Refused(S) ==
    /\ stream' = [s \in Streams |-> IF s \in S THEN Free ELSE stream[s]]
    /\ tab' = [t \in Tabs |-> IF t \in TabsOf(S) THEN [tab[t] EXCEPT !.pc = "off", !.mark = NoMark] ELSE tab[t]]

\* Redis answers the next command.
Answers ==
    /\ redis.commands # << >>
    /\ LET e == Head(redis.commands) IN
       /\ redis' = [subscribed |-> e # "unsubscribe", commands |-> Tail(redis.commands)]
       /\ channel' = [channel EXCEPT !.ready = @ \/ e = channel.by]
       /\ stream' = [s \in Streams |-> IF s \in Joined(e) THEN [stream[s] EXCEPT !.pc = "reads"] ELSE stream[s]]
    /\ UNCHANGED <<rows, untold, missed, mine, tab, line, shown, outages>>

\* A SUBSCRIBE that fails takes its entry with it; an UNSUBSCRIBE is let be.
\* Mutant: the entry stays, and later streams wait on it.
Kept(e) == channel
Forgotten(e) == IF e = channel.by THEN NoEntry ELSE channel

Fails ==
    /\ redis.commands # << >> /\ Outage
    /\ LET e == Head(redis.commands) IN
       /\ redis' = [redis EXCEPT !.commands = Tail(@)]
       /\ channel' = Forgotten(e)
       /\ Refused(Joined(e))
    /\ UNCHANGED <<rows, untold, missed, mine, line, shown>>

---------------------------------------------------------------------------
(* Streams.                                                                    *)

\* StreamBus.subscribe on a request's behalf: the listener is registered before
\* the wait.
Opens(t, s) ==
    /\ tab[t].pc = "off" /\ stream[s].pc = "free"
    /\ tab' = [tab EXCEPT ![t].pc = "opening"]
    /\ LET e == IF channel.by = None THEN s ELSE channel.by IN
       /\ channel' = [channel EXCEPT !.by = e, !.listeners = @ \cup {s}]
       /\ redis' = IF channel.by = None THEN [redis EXCEPT !.commands = Append(@, s)] ELSE redis
       /\ stream' = [stream EXCEPT ![s] = [Free EXCEPT !.tab = t, !.entry = e, !.mark = tab[t].mark,
                                                       !.pc = IF channel.ready THEN "reads" ELSE "joins"]]
    /\ UNCHANGED <<rows, untold, missed, mine, line, shown, outages>>

\* What came after the mark, oldest first and no more than the limit: the rows
\* left out come after those sent, and only the limit leaves any out.
Since(mark) ==
    LET after == {n \in rows : n > mark} IN
    IF mark = NoMark THEN {<< >>}
    ELSE {replay \in BoundedSeq(after, ReplayLimit) :
            /\ \A i, j \in DOMAIN replay : i < j => replay[i] < replay[j]
            /\ \A n \in after \ ToSet(replay) :
                 Len(replay) = ReplayLimit /\ \A i \in DOMAIN replay : replay[i] < n}

SendsMissed(s) ==
    /\ stream[s].pc = "reads"
    /\ \E replay \in Since(stream[s].mark) :
         stream' = [stream EXCEPT ![s].pc = "opens", ![s].replay = replay]
    /\ UNCHANGED <<rows, untold, missed, channel, redis, mine, tab, line, shown, outages>>

\* The unsubscribe that a subscribe returned.  Mutant: whoever leaves takes the
\* channel along.
LeavesAlone(s) ==
    /\ channel' = NoEntry
    /\ redis' = [redis EXCEPT !.commands = Append(@, "unsubscribe")]

Unsubscribes(s) ==
    LET left == channel.listeners \ {s} IN
    IF left = {} /\ channel.by = stream[s].entry
    THEN /\ channel' = NoEntry
         /\ redis' = [redis EXCEPT !.commands = Append(@, "unsubscribe")]
    ELSE channel' = [channel EXCEPT !.listeners = left] /\ UNCHANGED redis

ReplayFails(s) ==
    /\ stream[s].pc = "reads" /\ stream[s].mark # NoMark /\ Outage
    /\ Unsubscribes(s) /\ Refused({s})
    /\ UNCHANGED <<rows, untold, missed, mine, line, shown>>

Wrote(lines, t, frames) == IF t = None THEN lines ELSE [lines EXCEPT ![t] = @ \o frames]

\* The response begins, with the replay; past the cap the oldest stream ends.
GoesLive(s) ==
    /\ stream[s].pc = "opens"
    /\ LET oldest == IF Len(mine) = Cap THEN {Head(mine)} ELSE {}
           ended == [r \in Streams |-> IF r \in oldest THEN Free ELSE stream[r]]
           begun == Wrote(line, stream[s].tab, <<Open>> \o [i \in DOMAIN stream[s].replay |-> Hint(stream[s].replay[i])])
       IN
       /\ stream' = [ended EXCEPT ![s].pc = "live", ![s].replay = << >>]
       /\ mine' = Append(IF oldest = {} THEN mine ELSE Tail(mine), s)
       /\ channel' = [channel EXCEPT !.listeners = @ \ oldest]
       /\ line' = IF oldest = {} THEN begun ELSE Wrote(begun, stream[Head(mine)].tab, <<End>>)
    /\ UNCHANGED <<rows, untold, missed, redis, tab, shown, outages>>

\* A stream ends: its time is over, its member no longer stands, or its client
\* is behind or gone.
Ends(s) ==
    /\ stream[s].pc = "live"
    /\ Unsubscribes(s)
    /\ stream' = [stream EXCEPT ![s] = Free]
    /\ \E i \in DOMAIN mine : mine[i] = s /\ mine' = RemoveAt(mine, i)
    /\ line' = Wrote(line, stream[s].tab, <<End>>)
    /\ UNCHANGED <<rows, untold, missed, tab, shown, outages>>

---------------------------------------------------------------------------
(* The tab.                                                                    *)

\* Every open and every notification invalidates the inbox.
Receives(t) ==
    /\ line[t] # << >>
    /\ line' = [line EXCEPT ![t] = Tail(@)]
    /\ tab' = [tab EXCEPT ![t] =
        CASE Head(line[t]) = Open -> [@ EXCEPT !.pc = "open", !.asked = TRUE]
          [] Head(line[t]) = End -> [@ EXCEPT !.pc = "off"]
          [] OTHER                   -> [@ EXCEPT !.asked = TRUE, !.mark = Head(line[t]).id]]
    /\ UNCHANGED <<rows, untold, missed, channel, redis, stream, mine, shown, outages>>

\* The connection breaks.  A server still opening the stream has not begun to
\* watch for that, and goes on.
Breaks(t) ==
    /\ tab[t].pc # "off" /\ Outage
    /\ tab' = [tab EXCEPT ![t].pc = "off"]
    /\ line' = [line EXCEPT ![t] = << >>]
    /\ stream' = [s \in Streams |-> IF stream[s].tab = t THEN [stream[s] EXCEPT !.tab = None] ELSE stream[s]]
    /\ UNCHANGED <<rows, untold, missed, channel, redis, mine, shown>>

\* The browser's own reconnect is refused: the session is refreshed and another
\* EventSource opened, which has seen no id.
Recovers(t) ==
    /\ tab[t].pc = "off" /\ tab[t].mark # NoMark
    /\ tab' = [tab EXCEPT ![t].mark = NoMark]
    /\ UNCHANGED <<rows, untold, missed, channel, redis, stream, mine, line, shown, outages>>

\* The inbox is read again; a read that an invalidation overtakes is dropped.
Refetches(t) ==
    /\ tab[t].asked
    /\ shown' = [shown EXCEPT ![t] = rows]
    /\ tab' = [tab EXCEPT ![t].asked = FALSE]
    /\ UNCHANGED <<rows, untold, missed, channel, redis, stream, mine, line, outages>>

---------------------------------------------------------------------------
Opening(s) == SendsMissed(s) \/ GoesLive(s)

Next ==
    \/ \E n \in Notes : Writes(n) \/ Publishes(n) \/ PublishFails(n)
    \/ Answers \/ Fails
    \/ \E t \in Tabs, s \in Streams : Opens(t, s)
    \/ \E s \in Streams : Opening(s) \/ ReplayFails(s) \/ Ends(s)
    \/ \E t \in Tabs : Receives(t) \/ Breaks(t) \/ Recovers(t) \/ Refetches(t)

\* The consumer publishes what it committed, Redis and the database answer, a
\* stream's time runs out, and a tab keeps connecting and reading.
Fairness ==
    /\ WF_stream_vars(Answers)
    /\ \A n \in Notes : WF_stream_vars(Publishes(n))
    /\ \A s \in Streams : WF_stream_vars(Opening(s)) /\ WF_stream_vars(Ends(s))
    /\ \A t \in Tabs :
        /\ WF_stream_vars(\E s \in Streams : Opens(t, s))
        /\ WF_stream_vars(Receives(t)) /\ WF_stream_vars(Refetches(t))

Spec == Init /\ [][Next]_stream_vars /\ Fairness

---------------------------------------------------------------------------
(* A tab with an open stream shows every note there is, unless its hint is     *)
(* still on its way, was lost in an outage, or the tab is about to read the    *)
(* inbox: streams that share the channel's entry, join it while it is being    *)
(* subscribed or leave it beside others do not take each other's messages, and *)
(* what falls between a replay and the first live frame is read on opening.    *)
NothingGoesUnnoticed ==
    \A t \in Tabs : \A n \in rows \ (shown[t] \cup untold \cup missed) :
        tab[t].pc = "open" => tab[t].asked \/ {Hint(n), End} \cap ToSet(line[t]) # {}

(* Every note is shown on every tab in the end, whatever was lost on the way.  *)
TabsCatchUp == \A t \in Tabs, n \in Notes : n \in rows ~> n \in shown[t]

(* notification-stream.service.ts: "Subscribe before reading the replay, so    *)
(* nothing lands in the gap".  A stream that goes live with a mark has sent,   *)
(* in its replay, whatever came after the mark and was published by then.      *)
NothingInTheGap ==
    [][\A s \in Streams, t \in Tabs :
        stream[s].pc = "opens" /\ stream'[s].pc = "live" /\ stream[s].tab = t /\ stream[s].mark # NoMark =>
            \A n \in rows \ (untold \cup missed) : n > stream[s].mark => Hint(n) \in ToSet(line'[t])]_stream_vars
=============================================================================
