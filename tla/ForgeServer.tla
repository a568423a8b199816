----------------------------- MODULE ForgeServer -----------------------------
(***************************************************************************)
(* The confirmation cards of a server with several sessions: each session  *)
(* has an engine of its own that opens and closes cards (main.get_ctx,     *)
(* engine._safety, engine.resume), while one bus shows every card to every *)
(* client and remembers those it has to show again (main.chat, ChatBus).   *)
(*                                                                         *)
(* Worker threads run the engine; handlers, drains and publications share  *)
(* the event loop.  An engine is reduced to its cards: which step is asked *)
(* about, and how many may be open, is the matter of GraphEngine; the rest *)
(* of a connection is that of ChatBus.                                     *)
(***************************************************************************)
EXTENDS Sequences

CONSTANTS
    SessionIds,    \* sessions
    Sockets,       \* connections to /v2/chat, each used once
    SessionOf,     \* socket -> its sessionId
    CallIds        \* bound: the cards that are ever offered

ASSUME ServerAssumption ==
    /\ SessionOf \in [Sockets -> SessionIds]
    /\ "none" \notin SessionIds

VARIABLES
    ctxs,          \* _sessions: session -> [open, answered, outbox] of its ForgeState
    unanswered,    \* ChatBus._pending_confirmations
    draining,      \* _take_undrained, between its two steps: [sid, calls, later]
    callbacks,     \* the loop's call_soon queue: the cards of each publish_many
    registered,    \* ChatBus._sessions, as the sockets the bus sends to
    chats,         \* socket -> [pc, call]: its handler, and the card it answers
    shown,         \* socket -> the cards its client has been sent
    foreign,       \* observation: cards another session's client has answered
    lost           \* observation: cards offered between the two steps of a drain

serverVars ==
    <<ctxs, unanswered, draining, callbacks, registered, chats, shown, foreign, lost>>

NoDrain == [sid |-> "none", calls |-> {}, later |-> FALSE]

\* The loop is between two callbacks or coroutine steps.
LoopFree == draining = NoDrain

Plain(pc) == [pc |-> pc, call |-> "none"]

ServerInit ==
    /\ ctxs = [sid \in SessionIds |-> [open |-> {}, answered |-> {}, outbox |-> {}]]
    /\ unanswered = {} /\ draining = NoDrain /\ callbacks = <<>>
    /\ registered = {} /\ foreign = {} /\ lost = {}
    /\ chats = [s \in Sockets |-> Plain("new")]
    /\ shown = [s \in Sockets |-> {}]

Offered == UNION {ctxs[sid].open \cup ctxs[sid].answered : sid \in SessionIds}

-----------------------------------------------------------------------------
\* bus.publish of cards: recorded, and sent to every client.
Published(calls) ==
    /\ unanswered' = unanswered \cup calls
    /\ shown' = [s \in Sockets |-> IF s \in registered THEN shown[s] \cup calls ELSE shown[s]]

\* _take_undrained: the events are filtered out of the outbox,
TakeUndrained(sid, later) ==
    draining' = [sid |-> sid, calls |-> ctxs[sid].outbox, later |-> later]

\* and the outbox is cleared, with what a worker thread has just put into it.
\* They are published at once, or at a later turn of the loop.
OutboxCleared ==
    /\ ~LoopFree
    /\ draining' = NoDrain
    /\ ctxs' = [ctxs EXCEPT ![draining.sid].outbox = {}]
    /\ IF draining.later
       THEN /\ callbacks' = IF draining.calls = {} THEN callbacks
                            ELSE Append(callbacks, draining.calls)
            /\ UNCHANGED <<unanswered, shown>>
       ELSE Published(draining.calls) /\ UNCHANGED callbacks
    /\ UNCHANGED <<registered, chats, foreign, lost>>

LoopPublishes ==
    /\ LoopFree /\ callbacks # <<>>
    /\ Published(Head(callbacks))
    /\ callbacks' = Tail(callbacks)
    /\ UNCHANGED <<ctxs, draining, registered, chats, foreign, lost>>

\* /v2/live's hooks drain later, /v2/snapshot at once.
OthersDrainCards(sid) ==
    /\ LoopFree
    /\ \E later \in BOOLEAN : TakeUndrained(sid, later)
    /\ UNCHANGED <<ctxs, unanswered, callbacks, registered, chats, shown, foreign, lost>>

\* A run of the session, for /v2/chat or /v2/live, asks the operator in its
\* worker thread: a card under a fresh id.
Offers(sid, call) ==
    /\ call \notin Offered
    /\ ctxs' = [ctxs EXCEPT ![sid].open = @ \cup {call}, ![sid].outbox = @ \cup {call}]
    /\ lost' = IF draining.sid = sid THEN lost \cup {call} ELSE lost
    /\ UNCHANGED <<unanswered, draining, callbacks, registered, chats, shown, foreign>>

-----------------------------------------------------------------------------
(* chat()                                                                  *)

Goes(s, pc) == chats' = [chats EXCEPT ![s] = Plain(pc)]

\* Mutant: the engine's replay_pending runs for each connection, beside the bus's replay.
Opens_replaying(s) ==
    /\ LoopFree /\ chats[s].pc = "new"
    /\ Goes(s, "receiving")
    /\ registered' = {r \in registered : SessionOf[r] # SessionOf[s]} \cup {s}
    /\ shown' = [shown EXCEPT ![s] = unanswered]
    /\ ctxs' = [ctxs EXCEPT ![SessionOf[s]].outbox = @ \cup ctxs[SessionOf[s]].open]
    /\ UNCHANGED <<unanswered, draining, callbacks, foreign, lost>>

\* subscribe, in the place of the session's earlier connection, and replay.
Opens(s) ==
    /\ LoopFree /\ chats[s].pc = "new"
    /\ Goes(s, "receiving")
    /\ registered' = {r \in registered : SessionOf[r] # SessionOf[s]} \cup {s}
    /\ shown' = [shown EXCEPT ![s] = unanswered]
    /\ UNCHANGED <<ctxs, unanswered, draining, callbacks, foreign, lost>>

\* A ChatMessage is a run, and then a drain.
Asks(s) ==
    /\ LoopFree /\ chats[s].pc = "receiving"
    /\ Goes(s, "running")
    /\ UNCHANGED <<ctxs, unanswered, draining, callbacks, registered, shown, foreign, lost>>

RunReturned(s) ==
    /\ LoopFree /\ chats[s].pc = "running"
    /\ TakeUndrained(SessionOf[s], TRUE)
    /\ Goes(s, "receiving")
    /\ UNCHANGED <<ctxs, unanswered, callbacks, registered, shown, foreign, lost>>

\* The client answers a card that it has on its screen.
Replies(s, call) ==
    /\ LoopFree /\ chats[s].pc = "receiving" /\ call \in shown[s]
    /\ chats' = [chats EXCEPT ![s] = [pc |-> "resuming", call |-> call]]
    /\ UNCHANGED <<ctxs, unanswered, draining, callbacks, registered, shown, foreign, lost>>

\* engine.resume in a worker thread, which knows its own session's open cards only.
Resumed(s) ==
    LET sid == SessionOf[s]
        call == chats[s].call
    IN  /\ chats[s].pc = "resuming"
        /\ chats' = [chats EXCEPT ![s].pc = "resumed"]
        /\ IF call \in ctxs[sid].open
           THEN ctxs' = [ctxs EXCEPT ![sid].open = @ \ {call}, ![sid].answered = @ \cup {call}]
           ELSE UNCHANGED ctxs
        /\ foreign' = IF call \in ctxs[sid].open \cup ctxs[sid].answered THEN foreign
                      ELSE foreign \cup {call}
        /\ UNCHANGED <<unanswered, draining, callbacks, registered, shown, lost>>

\* Back on the loop: resolve_confirmation, whatever resume found, and drain.
Resolves(s) ==
    /\ LoopFree /\ chats[s].pc = "resumed"
    /\ unanswered' = unanswered \ {chats[s].call}
    /\ TakeUndrained(SessionOf[s], TRUE)
    /\ Goes(s, "receiving")
    /\ UNCHANGED <<ctxs, callbacks, registered, shown, foreign, lost>>

\* Mutant: what was not drained goes with the connection.
Ends_clearing(s) ==
    /\ LoopFree /\ chats[s].pc \in {"receiving", "running"}
    /\ Goes(s, "closed")
    /\ registered' = {r \in registered : SessionOf[r] # SessionOf[s]}
    /\ ctxs' = [ctxs EXCEPT ![SessionOf[s]].outbox = {}]
    /\ UNCHANGED <<unanswered, draining, callbacks, shown, foreign, lost>>

\* The client leaves, or the run or a malformed answer raises: the finally
\* clause unsubscribes the session, and nothing is drained.
Ends(s) ==
    /\ LoopFree /\ chats[s].pc \in {"receiving", "running"}
    /\ Goes(s, "closed")
    /\ registered' = {r \in registered : SessionOf[r] # SessionOf[s]}
    /\ UNCHANGED <<ctxs, unanswered, draining, callbacks, shown, foreign, lost>>

ServerNext ==
    \/ OutboxCleared \/ LoopPublishes
    \/ \E sid \in SessionIds :
          OthersDrainCards(sid) \/ \E call \in CallIds : Offers(sid, call)
    \/ \E s \in Sockets :
          \/ Opens(s) \/ Asks(s) \/ RunReturned(s) \/ Resumed(s) \/ Resolves(s) \/ Ends(s)
          \/ \E call \in CallIds : Replies(s, call)

ServerSpec == ServerInit /\ [][ServerNext]_serverVars

-----------------------------------------------------------------------------
\* Cards that a later step of the loop, or the next drain, will publish.
OnTheWay(sid) == ctxs[sid].outbox \cup UNION {callbacks[i] : i \in DOMAIN callbacks}

(* What the operator still has to answer is never forgotten: an open card  *)
(* is remembered for the next reconnect or on its way to the bus, although *)
(* runs may raise, connections end and drains race.  Two exceptions are    *)
(* stated: a client of another session, to whom the bus shows the card     *)
(* too, has answered it; or it was offered between the two steps of a      *)
(* drain (specs/04:163, main.py:93-104, :322-329, bus.py:348-351).         *)
OpenCardsReoffered ==
    \A sid \in SessionIds :
        ctxs[sid].open \subseteq unanswered \cup OnTheWay(sid) \cup foreign \cup lost

(* What the operator has answered is not asked again: the bus remembers an *)
(* answered card only while the handler of some answer to it has yet to    *)
(* come back to the loop, and no drain will publish it once more           *)
(* (main.py:324-329, bus.py:348-351).                                      *)
AnsweredNotReoffered ==
    \A sid \in SessionIds, call \in CallIds :
        call \in ctxs[sid].answered =>
            /\ call \notin OnTheWay(sid)
            /\ call \in unanswered => \E s \in Sockets : chats[s] = [pc |-> "resumed", call |-> call]
=============================================================================
