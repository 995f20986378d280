--------------------------- MODULE SessionEvents ---------------------------
(***************************************************************************)
(* The event stream of one session: a run publishes numbered events to a   *)
(* broadcast hub and then to a replay buffer, and clients follow them over *)
(* SSE (daemon/run_loop.rs, get_session_events) or over the WebSocket pump *)
(* (daemon/ws_push.rs, event_pump).  Publishing is two steps, joining a    *)
(* stream is two steps, the hub and the buffer forget, connections drop    *)
(* and the daemon restarts; a client that comes back resumes from the last *)
(* number it saw.                                                          *)
(*                                                                         *)
(* An event is its sequence number; 0 in the hub is an event of another    *)
(* session.  One task publishes a session's events (its run), so a second  *)
(* event is sent only after the first is in the buffer.  The last three    *)
(* variables are history: what the client has been given or told to fetch, *)
(* whether its cursor is of an earlier daemon, and what the stream lost    *)
(* without telling it.                                                     *)
(***************************************************************************)
EXTENDS Integers, Sequences, FiniteSets

CONSTANTS
    SseClients,     \* connections of GET /sessions/:id/events
    WsClients,      \* connections of GET /ws
    BufferCap,      \* daemon.event_buffer_capacity
    HubCap,         \* capacity of the broadcast channel
    ReplayBatch,    \* REPLAY_BATCH of the pump
    MaxSeq,         \* bound: events of the session in one daemon's life
    MaxNoise,       \* bound: events of other sessions
    MaxDrops,       \* bound: lost connections
    MaxRestarts     \* bound: daemon restarts

ASSUME EventsAssumption ==
    /\ BufferCap \in Nat \ {0} /\ HubCap \in Nat \ {0} /\ ReplayBatch \in Nat \ {0}
    /\ MaxSeq \in Nat
    /\ SseClients \cap WsClients = {}

VARIABLES nextSeq, flight, buffer, hub, conn, once, cursor, drops, lives,
          known, stale, blind

eventVars == <<nextSeq, flight, buffer, hub, conn, once, cursor, drops, lives,
               known, stale, blind>>

EventClients == SseClients \cup WsClients
history == <<known, stale, blind>>
client == <<once, cursor>>

\* No after= parameter: a client's first subscription.
Live == -1

\* A connection: off; reading (the buffer is being or has been consulted);
\* on (waiting for the hub); lagged (the hub has dropped events it had not
\* taken); drain (a WebSocket pump about to forward its backlog).  seam is
\* seam_seq of SSE and SubState.delivered of the pump, tail its snapshot_tail,
\* sub whether the pump has a subscription for the session.
Off == [at |-> "off", pos |-> 0, seam |-> 0, tail |-> 0, pending |-> <<>>, sub |-> FALSE]

EventSeqs == 1..MaxSeq
SeqsIn(s) == {s[i] : i \in 1..Len(s)} \ {0}
Bigger(a, b) == IF a > b THEN a ELSE b
Smaller(a, b) == IF a < b THEN a ELSE b

(***************************************************************************)
(* The replay buffer.                                                      *)
(***************************************************************************)
oldest_seq == buffer[1]
latest_seq(default) == IF buffer = <<>> THEN default ELSE buffer[Len(buffer)]
\* A filter; the numbers grow, so what it keeps is the end of the buffer.
events_after(after) ==
    LET first == CHOOSE i \in 1..(Len(buffer) + 1) :
                    \A j \in 1..Len(buffer) : buffer[j] > after <=> j >= i
    IN SubSeq(buffer, first, Len(buffer))

\* Wrong: never evicts.
PushedUnbounded(n) == Append(buffer, n)

Pushed(n) == Append(IF Len(buffer) = BufferCap THEN Tail(buffer) ELSE buffer, n)

PlanReplay(from, after) ==
    IF after = Live THEN [kind |-> "live", events |-> <<>>, latest |-> 0]
    ELSE IF buffer # <<>> /\ after >= latest_seq(0)
         THEN [kind |-> "current", events |-> <<>>, latest |-> 0]
         ELSE IF buffer # <<>> /\ from
              THEN [kind |-> "replay", events |-> events_after(after), latest |-> 0]
              ELSE [kind |-> "sync_lost", events |-> <<>>, latest |-> latest_seq(0)]

\* Wrong: replays although the event right after the cursor is gone.
CatchUpOffByOne(after) == PlanReplay(after + 2 >= oldest_seq, after)

plan_catch_up(after) == PlanReplay(after + 1 >= oldest_seq, after)

\* The sequence number up to which live events are duplicates.
SeamOf(plan, after) ==
    CASE plan.kind = "replay" ->
            IF plan.events = <<>> THEN 0 ELSE plan.events[Len(plan.events)]
      [] plan.kind = "sync_lost" -> plan.latest
      [] OTHER -> Bigger(after, 0)

(***************************************************************************)
(* The client: a reader that remembers the last number it saw and resumes  *)
(* from it on every connection but its first.                              *)
(***************************************************************************)
After(c) == IF once[c] THEN cursor[c] ELSE Live

\* The events of sequence ns reach the client.
Given(c, ns) ==
    /\ cursor' = [cursor EXCEPT ![c] = IF ns = <<>> THEN @ ELSE ns[Len(ns)]]
    /\ known' = [known EXCEPT ![c] = @ \cup SeqsIn(ns)]

(***************************************************************************)
(* Publishing.                                                             *)
(***************************************************************************)
EventsInit ==
    /\ nextSeq = 1 /\ flight = 0 /\ buffer = <<>> /\ hub = <<>>
    /\ conn = [c \in EventClients |-> Off]
    /\ once = [c \in EventClients |-> FALSE]
    /\ cursor = [c \in EventClients |-> 0]
    /\ drops = 0 /\ lives = 0
    /\ known = [c \in EventClients |-> {}]
    /\ stale = [c \in EventClients |-> FALSE]
    /\ blind = [c \in EventClients |-> {}]

\* publish, first half: the event is on the hub and not yet in the buffer.
publish ==
    /\ flight = 0 /\ nextSeq <= MaxSeq
    /\ hub' = Append(hub, nextSeq)
    /\ flight' = nextSeq
    /\ nextSeq' = nextSeq + 1
    /\ UNCHANGED <<buffer, conn, client, drops, lives, history>>

\* publish, second half.
push ==
    /\ flight # 0
    /\ buffer' = Pushed(flight)
    /\ flight' = 0
    /\ UNCHANGED <<nextSeq, hub, conn, client, drops, lives, history>>

OtherSession ==
    /\ Cardinality({i \in 1..Len(hub) : hub[i] = 0}) < MaxNoise
    /\ hub' = Append(hub, 0)
    /\ UNCHANGED <<nextSeq, flight, buffer, conn, client, drops, lives, history>>

(***************************************************************************)
(* Both kinds of connection.                                               *)
(***************************************************************************)
Behind(c) == Len(hub) - conn[c].pos
Overrun(c) == Behind(c) > HubCap

\* A subscription starts for a client with the cursor after, its receiver at
\* pos: either the client is told to resync, or it takes what it has for
\* granted.  A cursor of an earlier daemon hides this one's first events.
Subscribed(c, lost, seam, after, pos) ==
    /\ once' = [once EXCEPT ![c] = TRUE]
    /\ stale' = [stale EXCEPT ![c] = FALSE]
    /\ known' = [known EXCEPT ![c] = @ \cup
            (IF lost THEN 1..seam
             ELSE IF after = Live THEN SeqsIn(SubSeq(hub, 1, pos))
             ELSE IF stale[c] THEN {} ELSE 1..after)]

Hidden(c, after) == IF stale[c] /\ after # Live THEN 1..after ELSE {}
InFlight == {flight} \ {0}

\* plan_lagged_resync: the buffer's latest number becomes the seam, and the
\* client is told.  An event still on its way to the buffer may be gone.
Resynced(c, keep) ==
    LET latest == latest_seq(conn[c].seam) IN
    /\ conn' = [conn EXCEPT ![c] = [@ EXCEPT !.at = "on", !.seam = latest,
                                            !.tail = IF keep THEN conn[c].tail ELSE latest,
                                            !.pending = <<>>]]
    /\ cursor' = [cursor EXCEPT ![c] = latest]
    /\ known' = [known EXCEPT ![c] = @ \cup 1..latest]
    /\ blind' = [blind EXCEPT ![c] = @ \cup InFlight]

\* The client goes away; its cursor stays with it.
Disconnect(c) ==
    /\ conn[c].at # "off" /\ drops < MaxDrops
    /\ conn' = [conn EXCEPT ![c] = Off]
    /\ drops' = drops + 1
    /\ UNCHANGED <<nextSeq, flight, buffer, hub, client, lives, history>>

\* The receiver finds that the hub has overwritten what it had not taken.
Lagged(c) ==
    /\ conn[c].at = "on" /\ Overrun(c)
    /\ conn' = [conn EXCEPT ![c].at = "lagged", ![c].pos = Len(hub) - HubCap]
    /\ UNCHANGED <<nextSeq, flight, buffer, hub, client, drops, lives, history>>

\* Counters, buffer and hub live as long as the process.
Restart ==
    /\ lives < MaxRestarts
    /\ lives' = lives + 1
    /\ nextSeq' = 1 /\ flight' = 0 /\ buffer' = <<>> /\ hub' = <<>>
    /\ conn' = [c \in EventClients |-> Off]
    /\ stale' = once
    /\ known' = [c \in EventClients |-> {}]
    /\ blind' = [c \in EventClients |-> {}]
    /\ UNCHANGED <<client, drops>>

(***************************************************************************)
(* Server-sent events.                                                     *)
(***************************************************************************)
\* subscribe_session_events decides on what the buffer holds now ...
SseRead(c) ==
    LET plan == plan_catch_up(After(c)) IN
    /\ conn[c].at = "off"
    /\ conn' = [conn EXCEPT ![c] =
           [at |-> "reading", pos |-> Len(hub), seam |-> SeamOf(plan, After(c)), tail |-> 0,
            pending |-> plan.events, sub |-> plan.kind = "sync_lost"]]
    /\ blind' = [blind EXCEPT ![c] = @ \cup InFlight \cup Hidden(c, After(c))]
    /\ UNCHANGED <<nextSeq, flight, buffer, hub, client, drops, lives, known, stale>>

\* ... and then joins the hub.  What was sent in between is in neither.
SseAttach(c) ==
    LET k == conn[c] IN
    /\ k.at = "reading"
    /\ conn' = [conn EXCEPT ![c] = [k EXCEPT !.at = "replay", !.pos = Len(hub)]]
    /\ Subscribed(c, k.sub, k.seam, After(c), Len(hub))
    /\ blind' = [blind EXCEPT ![c] = @ \cup SeqsIn(SubSeq(hub, k.pos + 1, Len(hub)))]
    /\ cursor' = [cursor EXCEPT ![c] = IF k.sub THEN k.seam ELSE @]
    /\ UNCHANGED <<nextSeq, flight, buffer, hub, drops, lives>>

\* get_session_events sends the replay and goes on to the live events.
SseReplay(c) ==
    /\ conn[c].at = "replay"
    /\ conn' = [conn EXCEPT ![c] = [@ EXCEPT !.at = "on", !.pending = <<>>, !.sub = TRUE]]
    /\ Given(c, conn[c].pending)
    /\ UNCHANGED <<nextSeq, flight, buffer, hub, once, drops, lives, stale, blind>>

SseDuplicate(c, n) == n = 0 \/ n <= conn[c].seam

SseRecv(c) ==
    /\ conn[c].at = "on" /\ Behind(c) \in 1..HubCap
    /\ LET n == hub[conn[c].pos + 1] IN
       IF SseDuplicate(c, n)
       THEN /\ conn' = [conn EXCEPT ![c].pos = @ + 1]
            /\ UNCHANGED <<cursor, known>>
       ELSE /\ conn' = [conn EXCEPT ![c].pos = @ + 1, ![c].seam = n]
            /\ Given(c, <<n>>)
    /\ UNCHANGED <<nextSeq, flight, buffer, hub, once, drops, lives, stale, blind>>

SseResync(c) ==
    /\ conn[c].at = "lagged"
    /\ Resynced(c, TRUE)
    /\ UNCHANGED <<nextSeq, flight, buffer, hub, once, drops, lives, stale>>

(***************************************************************************)
(* The WebSocket pump: one receiver, joined when the socket opens; a       *)
(* backlog per subscription, forwarded at most ReplayBatch at a time       *)
(* before every select.                                                    *)
(***************************************************************************)
WsConnect(c) ==
    /\ conn[c].at = "off"
    /\ conn' = [conn EXCEPT ![c] = [Off EXCEPT !.at = "on", !.pos = Len(hub)]]
    /\ UNCHANGED <<nextSeq, flight, buffer, hub, client, drops, lives, history>>

\* The select is biased: a control message is taken only when the receiver
\* had nothing.
WsControl(c) ==
    /\ conn[c].at = "on" /\ conn[c].pos = Len(hub)
    /\ conn' = [conn EXCEPT ![c].at = "reading"]
    /\ UNCHANGED <<nextSeq, flight, buffer, hub, client, drops, lives, history>>

\* Subscribe: the decision becomes the whole new subscription; a replay
\* becomes its backlog.
WsSubscribe(c) ==
    LET after == After(c)
        plan == plan_catch_up(after)
        lost == plan.kind = "sync_lost"
        seam == SeamOf(plan, after)
    IN
    /\ conn[c].at = "reading"
    /\ conn' = [conn EXCEPT ![c] =
           [at |-> "drain", pos |-> @.pos, sub |-> TRUE, pending |-> plan.events,
            seam |-> IF plan.kind = "replay" THEN 0 ELSE seam,
            tail |-> IF plan.kind \in {"replay", "sync_lost"} THEN seam ELSE 0]]
    /\ Subscribed(c, lost, seam, after, conn[c].pos)
    /\ blind' = [blind EXCEPT ![c] = @ \cup InFlight \cup Hidden(c, after)]
    /\ cursor' = [cursor EXCEPT ![c] = IF lost THEN seam ELSE @]
    /\ UNCHANGED <<nextSeq, flight, buffer, hub, drops, lives>>

WsUnsubscribe(c) ==
    /\ conn[c].at = "reading" /\ conn[c].sub
    /\ conn' = [conn EXCEPT ![c] = [@ EXCEPT !.at = "drain", !.sub = FALSE, !.pending = <<>>,
                                            !.seam = 0, !.tail = 0]]
    /\ UNCHANGED <<nextSeq, flight, buffer, hub, client, drops, lives, history>>

WsDuplicate(c, n) == n = 0 \/ ~ conn[c].sub \/ n <= conn[c].tail \/ n <= conn[c].seam

\* Wrong: a live event goes out at once, before the backlog.
WsRecvOvertakes(c) ==
    /\ conn[c].at = "on" /\ Behind(c) \in 1..HubCap
    /\ LET n == hub[conn[c].pos + 1]
           k == [conn[c] EXCEPT !.pos = @ + 1, !.at = "drain"]
       IN IF WsDuplicate(c, n)
          THEN conn' = [conn EXCEPT ![c] = k] /\ UNCHANGED <<cursor, known>>
          ELSE conn' = [conn EXCEPT ![c] = [k EXCEPT !.seam = n]] /\ Given(c, <<n>>)
    /\ UNCHANGED <<nextSeq, flight, buffer, hub, once, drops, lives, stale, blind>>

\* A live event overtakes nothing: it joins the backlog while there is one.
WsRecv(c) ==
    /\ conn[c].at = "on" /\ Behind(c) \in 1..HubCap
    /\ LET n == hub[conn[c].pos + 1]
           k == [conn[c] EXCEPT !.pos = @ + 1, !.at = "drain"]
       IN IF WsDuplicate(c, n)
          THEN conn' = [conn EXCEPT ![c] = k] /\ UNCHANGED <<cursor, known>>
          ELSE IF k.pending = <<>>
          THEN conn' = [conn EXCEPT ![c] = [k EXCEPT !.seam = n]] /\ Given(c, <<n>>)
          ELSE conn' = [conn EXCEPT ![c] = [k EXCEPT !.pending = Append(k.pending, n)]]
               /\ UNCHANGED <<cursor, known>>
    /\ UNCHANGED <<nextSeq, flight, buffer, hub, once, drops, lives, stale, blind>>

\* Lagged resyncs the connection's subscription, if it has one.
WsResync(c) ==
    /\ conn[c].at = "lagged"
    /\ IF conn[c].sub
       THEN Resynced(c, FALSE)
       ELSE conn' = [conn EXCEPT ![c].at = "on"] /\ UNCHANGED <<cursor, known, blind>>
    /\ UNCHANGED <<nextSeq, flight, buffer, hub, once, drops, lives, stale>>

\* Wrong: without the zero sleep the pump parks on the hubs.
WsParks(c) == FALSE

\* Nothing on the hub and a backlog: the zero sleep turns the loop.
WsSpin(c) ==
    /\ conn[c].at = "on" /\ conn[c].pending # <<>> /\ conn[c].pos = Len(hub)
    /\ conn' = [conn EXCEPT ![c].at = "drain"]
    /\ UNCHANGED <<nextSeq, flight, buffer, hub, client, drops, lives, history>>

drain_pending(c) ==
    LET k == conn[c]
        n == Smaller(ReplayBatch, Len(k.pending))
        sent == SubSeq(k.pending, 1, n)
    IN
    /\ k.at = "drain"
    /\ conn' = [conn EXCEPT ![c] = [k EXCEPT !.at = "on",
            !.pending = SubSeq(k.pending, n + 1, Len(k.pending)),
            !.seam = IF n = 0 THEN k.seam ELSE sent[n]]]
    /\ Given(c, sent)
    /\ UNCHANGED <<nextSeq, flight, buffer, hub, once, drops, lives, stale, blind>>

(***************************************************************************)
(* The stream.                                                             *)
(***************************************************************************)
SseStep(c) == SseAttach(c) \/ SseReplay(c) \/ SseRecv(c) \/ Lagged(c) \/ SseResync(c)
WsStep(c) ==
    \/ WsSubscribe(c) \/ WsRecv(c) \/ Lagged(c) \/ WsResync(c)
    \/ WsSpin(c) \/ drain_pending(c)

EventSource == publish \/ push \/ OtherSession \/ Restart

EventClient(c) ==
    \/ Disconnect(c)
    \/ c \in SseClients /\ (SseRead(c) \/ SseStep(c))
    \/ c \in WsClients /\ (WsConnect(c) \/ WsControl(c) \/ WsUnsubscribe(c) \/ WsStep(c))

(***************************************************************************)
(* Properties.                                                             *)
(***************************************************************************)
ConnStates == [at : {"off", "reading", "replay", "on", "lagged", "drain"}, pos : Nat,
               seam : Nat, tail : Nat, pending : Seq(EventSeqs), sub : BOOLEAN]

\* The buffer keeps the newest BufferCap events in order and without a gap, up
\* to the one in flight; a connection's receiver is within the hub and its
\* backlog is in order.
EventsTypeOK ==
    /\ nextSeq \in 1..(MaxSeq + 1) /\ flight \in {0, nextSeq - 1}
    /\ hub \in Seq(0..MaxSeq) /\ conn \in [EventClients -> ConnStates]
    /\ Len(buffer) = Smaller(BufferCap, nextSeq - 1 - (IF flight = 0 THEN 0 ELSE 1))
    /\ \A i \in 1..Len(buffer) :
          buffer[i] = nextSeq - (IF flight = 0 THEN 1 ELSE 2) - (Len(buffer) - i)
    /\ \A c \in EventClients :
          /\ conn[c].pos <= Len(hub)
          /\ \A i \in 2..Len(conn[c].pending) : conn[c].pending[i] > conn[c].pending[i - 1]

\* A connection that follows the session, and is not in the middle of
\* joining or resyncing.
Following(c) == conn[c].sub /\ conn[c].at \in {"on", "drain"}

\* Nothing disappears without a word: whatever a following connection has
\* taken from the hub reached the client, waits in its backlog, was covered by
\* its cursor, or was announced as lost (sync_lost).  The exceptions are the
\* events of blind: sent between reading the buffer and joining the hub, on
\* their way to the buffer when it was read, or hidden by a cursor that an
\* earlier daemon gave out.
NoSilentLoss ==
    \A c \in EventClients : Following(c) =>
        SeqsIn(SubSeq(hub, 1, conn[c].pos))
            \subseteq known[c] \cup blind[c] \cup SeqsIn(conn[c].pending)

\* A stream is sound at both ends: the buffer has no gap to replay from, and what
\* a connection has been given leaves none it was not told of.
StreamsSound == EventsTypeOK /\ NoSilentLoss

\* Replay and live events neither overlap nor overtake each other: within a
\* connection and across reconnections the numbers sent to a client only grow,
\* except where a sync_lost tells it to start over.
DeliveredInOrder ==
    [][\A c \in EventClients :
          cursor'[c] < cursor[c] => conn[c].at \in {"reading", "lagged"}]_eventVars

\* The connection has forwarded all there is.
CaughtUp(c) == conn[c].at = "on" /\ conn[c].pos = Len(hub) /\ conn[c].pending = <<>>

\* A subscribed client catches up: whatever arrives while a backlog drains, the
\* pump neither parks on it nor starves it.
EventsArrive == \A c \in EventClients : conn[c].sub ~> (~ conn[c].sub \/ CaughtUp(c))
=============================================================================
