------------------------------ MODULE Observer ------------------------------
(***************************************************************************)
(* The observer: src/observer/observer/ingest.py (ingest_loop, normalize)  *)
(* and store.py (the events table), composed with the chat bus it taps.    *)
(*                                                                         *)
(* The observer is an ordinary /v2/chat client, one connection at a time.  *)
(* It stores every frame as it reads it; the unique dedup_key makes the    *)
(* frames the bus sends again on each reconnect harmless.  The database    *)
(* outlives the connections and the process.                               *)
(***************************************************************************)
EXTENDS ChatBus

CONSTANTS
    Taps,         \* the connections of Conns that the observer opens, one after another
    LegacyRows,   \* what databases of an older observer may hold
    MaxFails      \* bound: inserts that fail

ASSUME ObserverAssumption ==
    /\ Taps \subseteq Conns /\ MaxFails \in Nat
    /\ \A table \in LegacyRows : table \in Seq({table[k] : k \in DOMAIN table})

VARIABLES
    rows,         \* the events table, in id order
    read,         \* connection -> frames of its wire the observer has read
    failed        \* observation: events whose insert failed, as <<kind, id>>

observerVars == <<rows, read, failed>>
allVars == <<vars, observerVars>>

\* _DROP_KINDS
DropKinds == {"ChannelList", "ReplayDone"}

\* _dedup_key_for: only what the bus replays has a key.
dedup_key(event) ==
    IF event.kind \in {"ChatMessage", "ConfirmationRequest"}
    THEN <<event.kind, event.id>> ELSE <<>>

\* normalize: an event without a session tag is taken for the observer's own.
normalize(event) ==
    [key |-> dedup_key(event),
     session |-> IF event.kind = "Presence" \/ event.stamped THEN "origin" ELSE "default"]

\* _migrate: of the rows with one key the first stays.
Migrated(table) ==
    Picked(table, {k \in DOMAIN table :
                     \/ table[k].key = <<>>
                     \/ \A j \in 1..(k - 1) : table[j].key # table[k].key})

\* Mutant: every delivery becomes a row.
insert_event_always(table, row) == Append(table, row)

\* insert_event: INSERT OR IGNORE under the unique dedup_key.
insert_event(table, row) ==
    IF row.key # <<>> /\ \E k \in DOMAIN table : table[k].key = row.key
    THEN table ELSE Append(table, row)

ObserverInit ==
    /\ Init
    /\ rows \in {Migrated(table) : table \in LegacyRows}
    /\ read = [c \in Conns |-> 0]
    /\ failed = {}

\* ingest_loop connects only once its previous connection is over.
TapConnect(c) ==
    /\ c \in Taps
    /\ \A d \in Taps : handler[d] # "serving"
    /\ Connect(c)
    /\ UNCHANGED observerVars

NextFrame(c) == wire[c][read[c] + 1]

Unread(c) == c \in Taps /\ handler[c] = "serving" /\ read[c] < Len(wire[c])

\* The async for body: normalize and insert, or drop.
Ingest(c) ==
    /\ Unread(c)
    /\ read' = [read EXCEPT ![c] = @ + 1]
    /\ rows' = IF NextFrame(c).kind \in DropKinds THEN rows
               ELSE insert_event(rows, normalize(NextFrame(c)))
    /\ UNCHANGED <<vars, failed>>

\* persist_event raises (a locked or full database): logged, the frame is gone.
IngestFails(c) ==
    /\ Unread(c)
    /\ NextFrame(c).kind \notin DropKinds
    /\ Cardinality(failed) < MaxFails
    /\ read' = [read EXCEPT ![c] = @ + 1]
    /\ failed' = failed \cup {dedup_key(NextFrame(c))}
    /\ UNCHANGED <<vars, rows>>

\* Everything else the bus and its other clients do.
BusStep ==
    /\ \/ \E m \in Msgs, ts \in 0..MaxNow : PublishMessage(m, ts)
       \/ \E call \in Calls : PublishRequest(call) \/ Resolve(call)
       \/ \E c \in Conns \ Taps : Connect(c)
       \/ \E c \in Conns : LinkLost(c) \/ Finish(c)
       \/ Tick
    /\ UNCHANGED observerVars

ObserverNext ==
    \/ BusStep
    \/ \E c \in Taps : TapConnect(c) \/ Ingest(c) \/ IngestFails(c)

ObserverSpec == ObserverInit /\ [][ObserverNext]_allVars

-----------------------------------------------------------------------------
Stored(key) == \E k \in DOMAIN rows : rows[k].key = key

(* A flapping connection never inflates the counts: a message or a card has *)
(* one row however often it was streamed, drained and replayed, and         *)
(* whatever an older observer left in the database (ingest.py:200-204,      *)
(* store.py:121-128).                                                       *)
OneRowEach ==
    \A j, k \in DOMAIN rows : j < k /\ rows[j].key # <<>> => rows[j].key # rows[k].key

(* Once it has caught up with its connection the observer knows everything  *)
(* the bus can still replay: each buffered message and each open card has   *)
(* its row, although earlier connections died with frames in flight; only   *)
(* an insert that failed may leave a hole.                                  *)
CaughtUpKnowsAll ==
    \A c \in Taps \cap Registered :
        handler[c] = "serving" /\ read[c] = Len(wire[c]) =>
            /\ \A m \in ToSet(buffer) : LET key == <<"ChatMessage", m>>
                                        IN  Stored(key) \/ key \in failed
            /\ \A call \in pending : LET key == <<"ConfirmationRequest", call>>
                                     IN  Stored(key) \/ key \in failed
=============================================================================
