----------------------------- MODULE EventStream -----------------------------
(***************************************************************************)
(* How the events of a session's runs reach the chat bus:                  *)
(* src/orchestrator/graph/engine.py (_streaming, _emit and the appends to  *)
(* state.outboundEvents) and src/orchestrator/main.py                      *)
(* (_make_loop_publisher, _take_undrained and the chat and live hooks).    *)
(*                                                                         *)
(* A run executes in a worker thread.  It only appends some events (cards, *)
(* markers, the consensus); others it also streams at once through the     *)
(* engine's sink, which queues a publication on the event loop.  When the  *)
(* run has returned, its handler, back on the loop, drains what was not    *)
(* streamed.  All runs of a session share one engine and one ForgeState,   *)
(* so a run on /v2/live, or on a second /v2/chat connection, meets the     *)
(* sink and the two collections of the first.  Worker threads interleave   *)
(* with each other and with the loop between any two of the steps below;   *)
(* what runs on the loop excludes only what else runs on the loop.         *)
(*                                                                         *)
(* Events are numbered as they are made.  A collection is a set of them    *)
(* and so is a batch: no event is ever appended twice, and the order       *)
(* within a batch is that in which they were made.                         *)
(***************************************************************************)
EXTENDS Naturals, FiniteSets, Sequences

CONSTANTS
    Threads,      \* handlers whose runs may overlap
    NoSink,       \* GraphDeps.emit, which main.py leaves a no-op
    MaxEvents,    \* bound: events made
    MaxRuns       \* bound: runs started

ASSUME StreamAssumption ==
    /\ NoSink \notin Threads
    /\ MaxEvents \in Nat /\ MaxRuns \in Nat

VARIABLES
    outbound,     \* ForgeState.outboundEvents
    streamed,     \* ForgeState.streamedEvents
    sink,         \* GraphEngine._emit_sink: whose emit it is
    prev,         \* thread -> the sink _streaming restores when its run ends
    pc,           \* thread -> where its handler is
    hand,         \* thread -> the event it is emitting
    taken,        \* thread -> the events its drain has filtered out
    loop,         \* call_soon_threadsafe queue: the batches to publish
    published,    \* observation: the batches in the order the bus saw them
    made,         \* observation: events made so far, numbered in order
    plain,        \* observation: those appended without being streamed
    runs,
    overlapped,   \* observation: two handlers were busy at the same time
    undrained     \* observation: a run raised or was abandoned before its drain

collections == <<outbound, streamed>>
observations == <<published, made, plain, overlapped, undrained>>
vars == <<collections, sink, prev, pc, hand, taken, loop, observations, runs>>

Init ==
    /\ outbound = {}
    /\ streamed = {}
    /\ sink = NoSink
    /\ prev = [t \in Threads |-> NoSink]
    /\ pc = [t \in Threads |-> "idle"]
    /\ hand = [t \in Threads |-> 0]
    /\ taken = [t \in Threads |-> {}]
    /\ loop = <<>>
    /\ published = <<>>
    /\ made = 0
    /\ plain = {}
    /\ runs = 0
    /\ overlapped = FALSE
    /\ undrained = FALSE

Goto(t, place) == pc' = [pc EXCEPT ![t] = place]

-----------------------------------------------------------------------------
(* A run, in its worker thread.                                            *)

\* run or resume, up to the first node: _streaming installs this run's sink.
Enter(t) ==
    /\ pc[t] = "idle" /\ runs < MaxRuns
    /\ runs' = runs + 1
    /\ prev' = [prev EXCEPT ![t] = sink]
    /\ sink' = t
    /\ overlapped' = (overlapped \/ \E u \in Threads : pc[u] # "idle")
    /\ Goto(t, "running")
    /\ UNCHANGED <<collections, hand, taken, loop, published, made, plain, undrained>>

\* state.outboundEvents.append(...) of a card, a marker or the consensus.
Note(t) ==
    /\ pc[t] = "running" /\ made < MaxEvents
    /\ made' = made + 1
    /\ plain' = plain \cup {made + 1}
    /\ outbound' = outbound \cup {made + 1}
    /\ UNCHANGED <<streamed, sink, prev, pc, hand, taken, loop, published, runs,
                   overlapped, undrained>>

\* _emit appends,
EmitAppend(t) ==
    /\ pc[t] = "running" /\ made < MaxEvents
    /\ made' = made + 1
    /\ outbound' = outbound \cup {made + 1}
    /\ hand' = [hand EXCEPT ![t] = made + 1]
    /\ Goto(t, "appended")
    /\ UNCHANGED <<streamed, sink, prev, taken, loop, published, plain, runs,
                   overlapped, undrained>>

\* Mutant: the event is sent but not remembered.
EmitMark_forgotten(t) ==
    /\ pc[t] = "appended"
    /\ Goto(t, "marked")
    /\ UNCHANGED <<collections, sink, prev, hand, taken, loop, observations, runs>>

\* records the event as streamed,
EmitMark(t) ==
    /\ pc[t] = "appended"
    /\ streamed' = streamed \cup {hand[t]}
    /\ Goto(t, "marked")
    /\ UNCHANGED <<outbound, sink, prev, hand, taken, loop, observations, runs>>

\* and calls the sink: whichever is installed, or the no-op.
EmitSend(t) ==
    /\ pc[t] = "marked"
    /\ loop' = IF sink = NoSink THEN loop ELSE Append(loop, {hand[t]})
    /\ hand' = [hand EXCEPT ![t] = 0]
    /\ Goto(t, "running")
    /\ UNCHANGED <<collections, sink, prev, taken, observations, runs>>

\* The run ends, by returning or by raising: _streaming restores the old sink.
\* After an exception, or when the handler was cancelled, nobody drains.
Exit(t, drains) ==
    /\ pc[t] = "running"
    /\ sink' = prev[t]
    /\ Goto(t, IF drains THEN "returned" ELSE "idle")
    /\ undrained' = (undrained \/ ~drains)
    /\ UNCHANGED <<collections, prev, hand, taken, loop, published, made, plain, runs,
                   overlapped>>

-----------------------------------------------------------------------------
(* The event loop: one callback or one drain at a time.                    *)

LoopFree == \A t \in Threads : pc[t] \notin {"filtered", "cleared"}

\* drain, _take_undrained: nothing to do, or filter,
DrainFilter(t) ==
    /\ pc[t] = "returned" /\ LoopFree
    /\ IF outbound = {} THEN Goto(t, "idle") /\ UNCHANGED taken
       ELSE /\ Goto(t, "filtered")
            /\ taken' = [taken EXCEPT ![t] = outbound \ streamed]
    /\ UNCHANGED <<collections, sink, prev, hand, loop, observations, runs>>

\* Mutant: the events stay where they are.
DrainClear_kept(t) ==
    /\ pc[t] = "filtered"
    /\ Goto(t, "cleared")
    /\ UNCHANGED <<collections, sink, prev, hand, taken, loop, observations, runs>>

\* clear the one collection,
DrainClear(t) ==
    /\ pc[t] = "filtered"
    /\ outbound' = {}
    /\ Goto(t, "cleared")
    /\ UNCHANGED <<streamed, sink, prev, hand, taken, loop, observations, runs>>

\* then the other, and queue the rest for publication.
DrainPublish(t) ==
    /\ pc[t] = "cleared"
    /\ streamed' = {}
    /\ loop' = IF taken[t] = {} THEN loop ELSE Append(loop, taken[t])
    /\ taken' = [taken EXCEPT ![t] = {}]
    /\ Goto(t, "idle")
    /\ UNCHANGED <<outbound, sink, prev, hand, observations, runs>>

\* The loop runs the next queued bus.publish or bus.publish_many.
Publish ==
    /\ loop # <<>> /\ LoopFree
    /\ published' = Append(published, Head(loop))
    /\ loop' = Tail(loop)
    /\ UNCHANGED <<collections, sink, prev, pc, hand, taken, made, plain, runs,
                   overlapped, undrained>>

-----------------------------------------------------------------------------
Next ==
    \/ \E t \in Threads :
         \/ Enter(t) \/ Note(t)
         \/ EmitAppend(t) \/ EmitMark(t) \/ EmitSend(t)
         \/ \E drains \in BOOLEAN : Exit(t, drains)
         \/ DrainFilter(t) \/ DrainClear(t) \/ DrainPublish(t)
    \/ Publish

Spec == Init /\ [][Next]_vars

-----------------------------------------------------------------------------
Events == 1..made

\* How many of the batches have the event in them.
Count(batches, e) == Cardinality({k \in DOMAIN batches : e \in batches[k]})

\* Publications of an event, done and queued, and those still to be queued.
Times(e) == Count(published \o loop, e)
Queued(e) == Cardinality({t \in Threads : e \in taken[t]})

\* All runs are over and the loop has nothing left to publish.
Quiet == loop = <<>> /\ \A t \in Threads : pc[t] = "idle"

(* A card goes out at most once, however runs, drains and the loop          *)
(* interleave: a card published twice is a card the operator could answer   *)
(* twice, and the bus does not deduplicate cards as it does messages        *)
(* (main.py _take_undrained, bus.py Session._is_duplicate).                 *)
CardsOnce == \A e \in plain : Times(e) + Queued(e) <= 1

(* No event of any kind is published a third time: the streamed copy and    *)
(* one drained copy, which the bus drops, are all there is.                 *)
AtMostTwice == \A e \in Events : Times(e) + Queued(e) <= 2

(* main.py:78-82 for a session used by one run at a time: when all is done  *)
(* every event was published exactly once, unless its run raised or was     *)
(* abandoned; then it may still be waiting for the next drain.              *)
OnceWhenAlone ==
    Quiet /\ ~overlapped =>
        \A e \in Events : \/ Times(e) = 1
                          \/ undrained /\ Times(e) = 0 /\ e \in outbound

(* main.py:78-82 without the condition: each event is published exactly     *)
(* once.  Nothing a run streams may be lost to the runs around it.          *)
NothingLost == Quiet => \A e \in Events : Times(e) >= 1 \/ e \in outbound
=============================================================================
