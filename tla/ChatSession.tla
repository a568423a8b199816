----------------------------- MODULE ChatSession -----------------------------
(***************************************************************************)
(* One subscriber of the chat bus, from publish to the rendered message:   *)
(* chat_bus/bus.py (class Session with its bounded queue, publish and      *)
(* publish_many seen from one session, class ClientMessageStore) and       *)
(* chat_bus/ws.py (the transport).                                         *)
(*                                                                         *)
(* A single publish is flushed at once; publish_many queues a whole batch  *)
(* first, and only then can the queue fill up.  Nothing else runs on the   *)
(* event loop during a batch.  A streamed message is a ChatMessage and     *)
(* then Deltas ChannelUpdates, the last of them marked done.               *)
(***************************************************************************)
EXTENDS Integers, FiniteSets, Sequences, SequencesExt, Listings

CONSTANTS
    Streamed, Whole,   \* ChatMessages that are streamed, and those that are not
    Deltas,            \* ChannelUpdates of a streamed message
    Cards,             \* ConfirmationRequests
    max_queue,         \* Session.max_queue
    MaxLinks           \* bound: connections of the client

ASSUME SessionAssumption ==
    /\ Streamed \cap Whole = {}
    /\ Deltas \in Nat \ {0} /\ max_queue \in Nat \ {0} /\ MaxLinks \in Nat

VARIABLES
    bus,       \* [log: the events published, batch: a publish_many is under way]
    chat,      \* the Session: [queue, seen_ids, dropped_count]
    wire,      \* [frames: what its transport was handed, sent: how many are out,
               \*  replayed: how many were the replay]
    since,     \* observation: the events published since this connection's replay
    store,     \* ClientMessageStore: [order, body, done, orphans]
    links      \* connections so far, and whether the present one is up

chatVars == <<bus, chat, wire, since, store, links>>

Message(m) == [kind |-> "ChatMessage", id |-> m, n |-> 0]
Update(m, n) == [kind |-> "ChannelUpdate", id |-> m, n |-> n]
Card(c) == [kind |-> "ConfirmationRequest", id |-> c, n |-> 0]
Notice(dropped) == [kind |-> "BackpressureNotice", id |-> "notice", n |-> dropped]

IsMessage(e) == e.kind = "ChatMessage"
IsUpdate(e) == e.kind = "ChannelUpdate"

\* The messages of a sequence of events.
Messages(seq) == Picked(seq, {i \in DOMAIN seq : IsMessage(seq[i])})

NewSession == [queue |-> <<>>, seen_ids |-> {}, dropped_count |-> 0]

ChatInit ==
    /\ bus = [log |-> <<>>, batch |-> FALSE]
    /\ chat = NewSession
    /\ wire = [frames |-> <<>>, sent |-> 0, replayed |-> 0]
    /\ since = <<>>
    /\ store = [order |-> <<>>, body |-> <<>>, done |-> {}, orphans |-> <<>>]
    /\ links = [count |-> 1, up |-> TRUE]

-----------------------------------------------------------------------------
(* Session.enqueue                                                         *)

Updates(queue) == {i \in DOMAIN queue : IsUpdate(queue[i])}
NonMessages(queue) == {i \in DOMAIN queue : ~ IsMessage(queue[i])}
Oldest(hits) == CHOOSE i \in hits : \A j \in hits : i <= j

Put(s, e) == [s EXCEPT !.queue = Append(@, e)]
Drop(s) == [s EXCEPT !.dropped_count = @ + 1]
Evict(s, i) == [Drop(s) EXCEPT !.queue = RemoveAt(@, i)]

\* Mutant: what is not a message goes first, oldest first.
Victims_any(queue) == NonMessages(queue)

\* What a full queue gives up first: its updates; without one, whatever is
\* not a message.
Victims(queue) == IF Updates(queue) # {} THEN Updates(queue) ELSE NonMessages(queue)

\* An event that finds the queue full takes the place of a victim; an update
\* that finds no other update is turned away; and if there is nothing but
\* messages, the queue grows by one.
enqueue(s, e) ==
    LET new == IF IsMessage(e) THEN [s EXCEPT !.seen_ids = @ \cup {e.id}] ELSE s
        full == Len(s.queue) >= max_queue
    IN  IF IsMessage(e) /\ e.id \in s.seen_ids THEN s
        ELSE IF full /\ IsUpdate(e) /\ Updates(s.queue) = {} THEN Drop(new)
        ELSE IF full /\ Victims(s.queue) # {} THEN Put(Evict(new, Oldest(Victims(s.queue))), e)
        ELSE Put(new, e)

\* Mutant: only an event that was itself turned away is reported.
WithNotice_refused(s, e) ==
    LET after == enqueue(s, e)
    IN  IF after.dropped_count > s.dropped_count /\ ~ Contains(after.queue, e)
        THEN enqueue(after, Notice(after.dropped_count)) ELSE after

\* publish to one session.  take_backpressure_notice never forgets the burst,
\* so that after one drop every event is followed by a notice.
WithNotice(s, e) ==
    LET after == enqueue(s, e)
    IN  IF after.dropped_count > 0 THEN enqueue(after, Notice(after.dropped_count)) ELSE after

Flushed(s) == [s EXCEPT !.queue = <<>>]

\* What the producers may publish next: each event once (a message published
\* twice is the matter of ChatBus), and the parts of a message in order.
Due(e) ==
    /\ ~ Contains(bus.log, e)
    /\ IsUpdate(e) =>
          Contains(bus.log, IF e.n = 1 THEN Message(e.id) ELSE Update(e.id, e.n - 1))

Events ==
    {Message(m) : m \in Streamed \cup Whole} \cup {Card(c) : c \in Cards}
        \cup {Update(m, n) : m \in Streamed, n \in 1..Deltas}

\* publish(e), or one event of a publish_many, which does not flush yet.
Publish(e, flush) ==
    /\ Due(e)
    /\ bus.batch => ~ flush
    /\ bus' = [log |-> Append(bus.log, e), batch |-> ~ flush]
    /\ IF links.up
       THEN LET s == WithNotice(chat, e)
            IN  /\ chat' = IF flush THEN Flushed(s) ELSE s
                /\ wire' = IF flush THEN [wire EXCEPT !.frames = @ \o s.queue] ELSE wire
                /\ since' = Append(since, e)
       ELSE UNCHANGED <<chat, wire, since>>
    /\ UNCHANGED <<store, links>>

\* The end of publish_many.
FlushBatch ==
    /\ bus.batch
    /\ bus' = [bus EXCEPT !.batch = FALSE]
    /\ chat' = Flushed(chat)
    /\ wire' = [wire EXCEPT !.frames = @ \o chat.queue]
    /\ UNCHANGED <<since, store, links>>

-----------------------------------------------------------------------------
\* The link dies with frames in flight, and the Session dies with it.
LinkLost ==
    /\ links.up /\ ~ bus.batch /\ links.count < MaxLinks
    /\ links' = [links EXCEPT !.up = FALSE]
    /\ chat' = NewSession
    /\ wire' = [frames |-> <<>>, sent |-> 0, replayed |-> 0]
    /\ UNCHANGED <<bus, since, store>>

\* A new connection: the replay hands the buffered messages, from the oldest
\* that is still held, straight to the transport (see ChatBus).
Reconnect ==
    /\ ~ links.up /\ ~ bus.batch
    /\ links' = [count |-> links.count + 1, up |-> TRUE]
    /\ LET held == Messages(bus.log)
       IN  \E oldest \in 1..(Len(held) + 1) :
             wire' = [frames |-> SubSeq(held, oldest, Len(held)), sent |-> 0,
                      replayed |-> Len(held) - oldest + 1]
    /\ since' = <<>>
    /\ UNCHANGED <<bus, chat, store>>

-----------------------------------------------------------------------------
(* ClientMessageStore                                                      *)

\* _apply_update
Applied(st, u) ==
    IF u.id \in st.done THEN st
    ELSE [st EXCEPT !.body[u.id] = Append(@, u.n),
                    !.done = IF u.n = Deltas THEN @ \cup {u.id} ELSE @]

\* Mutant: a message that is known is stored again.
Arrived_again(st, m) ==
    [st EXCEPT !.order = Append(@, m), !.done = IF m \in Whole THEN @ \cup {m} ELSE @,
               !.body = [k \in DOMAIN @ \cup {m} |-> IF k = m THEN <<>> ELSE @[k]]]

\* The orphans that _ingest_message applies to a new message, one after the
\* other: none to a whole one, and none after the last delta.
Applicable(orphans, m) ==
    {i \in DOMAIN orphans :
        /\ orphans[i].id = m /\ m \notin Whole
        /\ \A j \in 1..(i - 1) : orphans[j] # Update(m, Deltas)}

\* _ingest_message: a new one picks up the updates that came before it.
Arrived(st, m) ==
    LET picked == Picked(st.orphans, Applicable(st.orphans, m))
        body == [k \in DOMAIN picked |-> picked[k].n]
    IN  IF Contains(st.order, m) THEN st
        ELSE [order |-> Append(st.order, m),
              body |-> [k \in DOMAIN st.body \cup {m} |-> IF k = m THEN body ELSE st.body[k]],
              done |-> IF m \in Whole \/ Contains(body, Deltas) THEN st.done \cup {m} ELSE st.done,
              orphans |-> Picked(st.orphans, {i \in DOMAIN st.orphans : st.orphans[i].id # m})]

ingest(st, e) ==
    CASE IsMessage(e) -> Arrived(st, e.id)
      [] IsUpdate(e) -> IF Contains(st.order, e.id) THEN Applied(st, e)
                        ELSE [st EXCEPT !.orphans = Append(@, e)]
      [] OTHER -> st

\* The writer sends the next frame, and the client takes it in.
WriterSends ==
    /\ links.up /\ ~ bus.batch /\ wire.sent < Len(wire.frames)
    /\ wire' = [wire EXCEPT !.sent = @ + 1]
    /\ store' = ingest(store, wire.frames[wire.sent + 1])
    /\ UNCHANGED <<bus, chat, since, links>>

\* sweep_orphans: those that have waited two seconds, the first to come.
SweepOrphans ==
    /\ store.orphans # <<>>
    /\ \E old \in 1..Len(store.orphans) :
          store' = [store EXCEPT !.orphans = SubSeq(@, old + 1, Len(@))]
    /\ UNCHANGED <<bus, chat, wire, since, links>>

ChatNext ==
    \/ \E e \in Events, flush \in BOOLEAN : Publish(e, flush)
    \/ FlushBatch \/ LinkLost \/ Reconnect \/ WriterSends \/ SweepOrphans

-----------------------------------------------------------------------------
Given == wire.frames \o chat.queue
SinceReplay == SubSeq(Given, wire.replayed + 1, Len(Given))
LastNotice ==
    LET notices == {i \in DOMAIN Given : Given[i].kind = "BackpressureNotice"}
    IN  IF notices = {} THEN 0 ELSE Given[CHOOSE i \in notices : \A j \in notices : j <= i].n

(* However full its queue gets, a subscriber is given every message that   *)
(* was published while it was connected, in that order; of all that it is  *)
(* not given, the last notice counts all but one at most: the event that   *)
(* this notice itself pushed out (bus.py:108-185, :303-314).               *)
OnlyToldLosses ==
    links.up =>
        /\ Messages(since) = Messages(SinceReplay)
        /\ Cardinality(ToSet(since) \ ToSet(Given)) <= LastNotice + 1
        /\ LastNotice = 0 => ToSet(since) \subseteq ToSet(Given)

(* A confirmation card is given up to make room only when no update of a   *)
(* streamed message was left to give up (bus.py:75-77, :128-158).          *)
CardsOutliveUpdates ==
    [][\A e \in ToSet(chat.queue) :
          e.kind = "ConfirmationRequest" /\ ~ Contains(wire'.frames \o chat'.queue, e) =>
              Updates(chat'.queue) = {}]_chatVars

(* What the client shows of a message is its text in order and nothing     *)
(* twice, through backpressure, lost links and replays; and all of it, for *)
(* a client that was there from the start, lost nothing and has received   *)
(* everything (bus.py:427-501).                                            *)
BodiesInOrder ==
    /\ \A i, j \in DOMAIN store.order : store.order[i] = store.order[j] => i = j
    /\ \A m \in DOMAIN store.body :
          \A i, j \in DOMAIN store.body[m] : i < j => store.body[m][i] < store.body[m][j]
    /\ links.count = 1 /\ links.up /\ chat.dropped_count = 0 /\ ~ bus.batch
         /\ wire.sent = Len(wire.frames) =>
           \A m \in Streamed, n \in 1..Deltas :
              Contains(bus.log, Update(m, n)) => Contains(store.body[m], n)
=============================================================================
