------------------------------- MODULE ChatBus -------------------------------
(***************************************************************************)
(* The chat bus and the /v2/chat connections that subscribe to it:         *)
(* src/orchestrator/chat_bus/bus.py (class ChatBus) and the connection     *)
(* handling of src/orchestrator/main.py (chat).                            *)
(*                                                                         *)
(* Everything here runs on the one event-loop thread, so a step is what    *)
(* runs between two awaits: accepting a connection up to the end of its    *)
(* replay, one publish to every subscriber, a handler's finally clause.    *)
(* publish flushes each session at once; the bounded queue a batch may     *)
(* build up before it is flushed is modelled in ChatSession.               *)
(*                                                                         *)
(* The bus registers sessions by sessionId, so two connections of one      *)
(* device (the old one's death not noticed yet) share one registration.    *)
(***************************************************************************)
EXTENDS Integers, FiniteSets, Sequences, SequencesExt, Listings

CONSTANTS
    Conns,          \* WebSocket connections, each used once
    Sids,           \* sessionIds
    SidOf,          \* connection -> the sessionId in its URL
    Msgs,           \* ChatMessages, by messageId
    Calls,          \* ConfirmationRequests, by callId
    NoConn,
    REPLAY_MAX,     \* replay buffer: how many messages
    REPLAY_WINDOW,  \* replay buffer: how old a message may be
    MaxDelay,       \* bound: how old a message may be when it is published
    TickSize,       \* bound: by how much the clock advances at once
    MaxNow,         \* bound: the clock stops here
    Leaving,        \* bound: the connections that may lose their link
    Twice           \* bound: the messages that may reach publish twice

ASSUME BusAssumption ==
    /\ SidOf \in [Conns -> Sids]
    /\ NoConn \notin Conns
    /\ REPLAY_MAX \in Nat \ {0}
    /\ REPLAY_WINDOW \in Nat
    /\ MaxDelay \in Nat
    /\ TickSize \in Nat \ {0} /\ MaxNow \in Nat

VARIABLES
    sessions,    \* ChatBus._sessions: sessionId -> registered connection
    handler,     \* connection -> state of its chat() coroutine
    buffer,      \* ChatBus._buffer
    pending,     \* ChatBus._pending_confirmations, by callId
    offered,     \* callIds published so far (each is published once)
    made,        \* message -> its ts, -1 before it is published
    log,         \* observation: messages in the order they were first published
    wire,        \* connection -> everything handed to its transport
    seen,        \* connection -> Session._seen_ids
    now

vars == <<sessions, handler, buffer, pending, offered, made, log, wire, seen, now>>

ChannelList == [kind |-> "ChannelList"]
ReplayDone == [kind |-> "ReplayDone"]

\* A frame published live is stamped with the session it originates from; a
\* replayed one is not.
Live(kind, id) == [kind |-> kind, id |-> id, stamped |-> TRUE]
Replayed(kind, id) == [kind |-> kind, id |-> id, stamped |-> FALSE]
Presence(sid, state) == [kind |-> "Presence", id |-> sid, state |-> state]

Init ==
    /\ sessions = [sid \in Sids |-> NoConn]
    /\ handler = [c \in Conns |-> "new"]
    /\ buffer = <<>>
    /\ pending = {}
    /\ offered = {}
    /\ made = [m \in Msgs |-> -1]
    /\ log = <<>>
    /\ wire = [c \in Conns |-> <<>>]
    /\ seen = [c \in Conns |-> {}]
    /\ now = 0

-----------------------------------------------------------------------------
(* publish: record, then enqueue and flush for every registered session.   *)

Registered == {sessions[sid] : sid \in Sids} \ {NoConn}

Fresh(buf, ts) == {k \in DOMAIN buf : ts[buf[k]] >= now - REPLAY_WINDOW}

\* Mutant: the cap keeps the oldest.
Evicted_newest(buf, ts) ==
    LET fresh == Fresh(buf, ts)
    IN  Picked(buf, {k \in fresh : Cardinality({j \in fresh : j <= k}) <= REPLAY_MAX})

\* _evict_buffer: the window first, then the cap.
Evicted(buf, ts) ==
    LET fresh == Fresh(buf, ts)
    IN  Picked(buf, {k \in fresh : Cardinality({j \in fresh : k <= j}) <= REPLAY_MAX})

\* _append_to_buffer: a message already held is not stored twice.
Recorded(m) == IF Contains(buffer, m) THEN buffer ELSE Evicted(Append(buffer, m), made')

\* Fan a non-message event out to a set of registered connections.
FanOut(event, conns) ==
    wire' = [c \in Conns |-> IF c \in conns THEN Append(wire[c], event) ELSE wire[c]]

\* Mutant: no deduplication.
FanOutMessage_again(m) ==
    /\ wire' = [c \in Conns |-> IF c \in Registered THEN Append(wire[c], Live("ChatMessage", m))
                                ELSE wire[c]]
    /\ UNCHANGED seen

\* Fan a message out: each Session drops a messageId it has queued before.
FanOutMessage(m) ==
    /\ wire' = [c \in Conns |-> IF c \in Registered /\ m \notin seen[c]
                                THEN Append(wire[c], Live("ChatMessage", m)) ELSE wire[c]]
    /\ seen' = [c \in Conns |-> IF c \in Registered THEN seen[c] \cup {m} ELSE seen[c]]

\* publish of a ChatMessage with the timestamp its producer, a run in a worker
\* thread, gave it before.  A message may reach publish twice, streamed and
\* drained, in quick succession: while the buffer still holds it.
PublishMessage(m, ts) ==
    /\ ts <= now /\ now - ts <= MaxDelay
    /\ Contains(log, m) => m \in Twice /\ ts = made[m] /\ Contains(buffer, m)
    /\ made' = [made EXCEPT ![m] = ts]
    /\ buffer' = Recorded(m)
    /\ log' = IF Contains(log, m) THEN log ELSE Append(log, m)
    /\ FanOutMessage(m)
    /\ UNCHANGED <<sessions, handler, pending, offered, now>>

\* publish of a ConfirmationRequest, under a fresh callId.
PublishRequest(call) ==
    /\ call \notin offered
    /\ offered' = offered \cup {call}
    /\ pending' = pending \cup {call}
    /\ FanOut(Live("ConfirmationRequest", call), Registered)
    /\ UNCHANGED <<sessions, handler, buffer, made, log, seen, now>>

\* resolve_confirmation, once the chat handler has resumed the engine.
Resolve(call) ==
    /\ call \in pending
    /\ pending' = pending \ {call}
    /\ UNCHANGED <<sessions, handler, buffer, offered, made, log, wire, seen, now>>

-----------------------------------------------------------------------------
(* Connections.                                                            *)

\* Mutant: in the order of publication.
ByTs_published(buf) == buf

\* sorted by ts; the sort is stable.
ByTs(buf) ==
    LET before == {p \in (DOMAIN buf) \X (DOMAIN buf) :
                     \/ made[buf[p[1]]] < made[buf[p[2]]]
                     \/ made[buf[p[1]]] = made[buf[p[2]]] /\ p[1] < p[2]}
        at == Listed(DOMAIN buf, before)
    IN  [k \in DOMAIN at |-> buf[at[k]]]

\* Mutant: the open cards are forgotten.
Replay_messages ==
    LET messages == ByTs(Evicted(buffer, made))
    IN  <<ChannelList>> \o [k \in DOMAIN messages |-> Replayed("ChatMessage", messages[k])]
          \o <<ReplayDone>>

\* replay: sent straight to the transport, past the queue and its dedup.
Replay ==
    LET messages == ByTs(Evicted(buffer, made))
        cards    == SetToSeq(pending)
    IN  <<ChannelList>> \o [k \in DOMAIN messages |-> Replayed("ChatMessage", messages[k])]
          \o [k \in DOMAIN cards |-> Replayed("ConfirmationRequest", cards[k])] \o <<ReplayDone>>

\* chat(), from accept to the end of the replay: subscribe, which tells the
\* OTHER sessions, then replay to this one.
Connect(c) ==
    LET sid == SidOf[c]
    IN  /\ handler[c] = "new"
        /\ handler' = [handler EXCEPT ![c] = "serving"]
        /\ sessions' = [sessions EXCEPT ![sid] = c]
        /\ wire' = [d \in Conns |->
                      IF d = c THEN Replay
                      ELSE IF d \in Registered /\ SidOf[d] # sid
                      THEN Append(wire[d], Presence(sid, "online")) ELSE wire[d]]
        /\ buffer' = Evicted(buffer, made)
        /\ UNCHANGED <<pending, offered, made, log, seen, now>>

\* The client is gone; the handler, awaiting a run or a dead link, does not know.
LinkLost(c) ==
    /\ c \in Leaving /\ handler[c] = "serving"
    /\ handler' = [handler EXCEPT ![c] = "lost"]
    /\ UNCHANGED <<sessions, buffer, pending, offered, made, log, wire, seen, now>>

\* chat()'s finally clause: unsubscribe whatever is registered under the id.
Finish(c) ==
    LET sid == SidOf[c]
    IN  /\ handler[c] = "lost"
        /\ handler' = [handler EXCEPT ![c] = "closed"]
        /\ sessions' = [sessions EXCEPT ![sid] = NoConn]
        /\ IF sessions[sid] = NoConn THEN UNCHANGED wire
           ELSE FanOut(Presence(sid, "offline"), {d \in Registered : SidOf[d] # sid})
        /\ UNCHANGED <<buffer, pending, offered, made, log, seen, now>>

Tick ==
    /\ now + TickSize <= MaxNow
    /\ now' = now + TickSize
    /\ UNCHANGED <<sessions, handler, buffer, pending, offered, made, log, wire, seen>>

Next ==
    \/ \E m \in Msgs, ts \in 0..MaxNow : PublishMessage(m, ts)
    \/ \E call \in Calls : PublishRequest(call) \/ Resolve(call)
    \/ \E c \in Conns : Connect(c) \/ LinkLost(c) \/ Finish(c)
    \/ Tick

Spec == Init /\ [][Next]_vars

-----------------------------------------------------------------------------
TypeOK ==
    /\ sessions \in [Sids -> Conns \cup {NoConn}]
    /\ \A sid \in Sids : sessions[sid] # NoConn => SidOf[sessions[sid]] = sid
    /\ handler \in [Conns -> {"new", "serving", "lost", "closed"}]
    /\ buffer \in Seq(Msgs) /\ Len(buffer) <= REPLAY_MAX
    /\ log \in Seq(Msgs) /\ ToSet(buffer) \subseteq ToSet(log)
    /\ pending \subseteq offered /\ offered \subseteq Calls
    /\ made \in [Msgs -> -1..MaxNow]
    /\ seen \in [Conns -> SUBSET Msgs]
    /\ now \in 0..MaxNow

Sent(c, kind, id) ==
    Contains(wire[c], Live(kind, id)) \/ Contains(wire[c], Replayed(kind, id))

(* A subscribed device misses nothing: whatever was published before,       *)
(* during or between its connections, it has been sent every message the    *)
(* replay buffer holds and every card that still awaits an answer           *)
(* (bus.py publish and replay; specs/04 section 6).                         *)
NoGap ==
    \A c \in Registered :
        /\ \A m \in ToSet(buffer) : Sent(c, "ChatMessage", m)
        /\ \A call \in pending : Sent(c, "ConfirmationRequest", call)

DoneAt(c) == SelectInSeq(wire[c], LAMBDA e : e = ReplayDone)

(* A connection opens with the replay handshake in contract order, and no   *)
(* publication, presence or duplicate slips in before ReplayDone            *)
(* (bus.py:266-271 and 357-363).                                            *)
HandshakeFirst ==
    \A c \in Conns : wire[c] # <<>> =>
        LET rank(e) == CASE e.kind = "ChannelList" -> 1 [] e.kind = "ChatMessage" -> 2
                         [] e.kind = "ConfirmationRequest" -> 3
                         [] e.kind = "ReplayDone" -> 4 [] OTHER -> 5
            head == SubSeq(wire[c], 1, DoneAt(c))
        IN  /\ head # <<>> /\ head[1] = ChannelList
            /\ \A k \in 1..(Len(head) - 1) :
                  \/ rank(head[k]) < rank(head[k + 1])
                  \/ rank(head[k]) = 2 /\ rank(head[k + 1]) = 2
                       /\ made[head[k].id] <= made[head[k + 1].id]
                  \/ rank(head[k]) = 3 /\ rank(head[k + 1]) = 3

(* Live delivery is idempotent: after its replay a connection is sent a     *)
(* message at most once, although the graph may publish it twice.           *)
LiveOnce ==
    \A c \in Conns : \A j, k \in (DoneAt(c) + 1)..Len(wire[c]) :
        j < k /\ wire[c][j].kind = "ChatMessage" => wire[c][j] # wire[c][k]

(* The buffer forgets nothing too early: each of the last REPLAY_MAX        *)
(* messages published is in it, once, unless it has left the time window.   *)
RecentKept ==
    /\ IsInjective(buffer)
    /\ \A k \in 1..Len(log) :
          k > Len(log) - REPLAY_MAX /\ made[log[k]] >= now - REPLAY_WINDOW
            => Contains(buffer, log[k])

(* specs/04_chat_bus_protocol.md:164 -- after its ReplayDone a client goes  *)
(* on rendering new events: the connection a device opened last stays       *)
(* subscribed until that connection ends.                                   *)
ServedWhileConnected ==
    [][ \A sid \in Sids : sessions[sid] # NoConn /\ handler'[sessions[sid]] = "serving"
          => sessions'[sid] # NoConn ]_vars
=============================================================================
