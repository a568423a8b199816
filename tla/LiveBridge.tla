----------------------------- MODULE LiveBridge -----------------------------
(***************************************************************************)
(* The /v2/live media socket: its handler (main.live, _live_session), the  *)
(* duplex bridge to a Gemini Live session (live/bridge.py, session.py),    *)
(* the receive loop that routes what Live says and calls into the graph,   *)
(* and the worker threads in which the graph runs.  Handler, receive loop  *)
(* and send tasks are coroutines of one event loop.                        *)
(*                                                                         *)
(* The graph's run is GraphEngine's matter and its outbox EventStream's:   *)
(* here a run is a thread whose events have to be drained when it ends.    *)
(***************************************************************************)
EXTENDS Integers, Sequences

CONSTANTS
    MaxFrames,     \* bound: frames of the client on one connection
    MaxPieces,     \* bound: transcript pieces that Live sends on one connection
    MaxRuns,       \* bound: runs of the graph
    MaxVisits      \* bound: connections of the client

ASSUME LiveAssumption ==
    MaxFrames \in Nat /\ MaxPieces \in Nat /\ MaxRuns \in Nat /\ MaxVisits \in Nat \ {0}

VARIABLES
    handler,    \* new | connecting | stub | loop | closing | done
    linked,     \* the client holds its end of the socket
    presence,   \* what /v2/live last announced
    session,    \* none | open | closed
    recv,       \* receive_loop: none | receiving | transcript | guild | schematic
                \*               | ended | cancelled
    sent,       \* frames received from the client, by the kind they are prefixed with
    tasks,      \* _send_tasks: frames on their way
    took,       \* the session: [frame, slot] in the order of arrival
    heard,      \* pieces with words in them that Live has sent, a number
    pending,    \* _pending_out_transcript: how many pieces, and the numbers of those
                \* with words in them
    routed,     \* pieces handed to on_transcript
    runs,       \* worker threads: [status, left], left once nobody awaits it
    visits      \* connections so far

liveVars == <<handler, linked, presence, session, recv, sent, tasks, took, heard, pending,
              routed, runs, visits>>
media == <<sent, tasks, took>>
talk == <<heard, pending, routed>>
socket == <<handler, linked, presence, session, visits>>

MediaKinds == {"audio", "video"}
NoPieces == [pieces |-> 0, words |-> <<>>]

LiveInit ==
    /\ handler = "done" /\ linked = FALSE /\ presence = "none"
    /\ session = "none" /\ recv = "none"
    /\ sent = <<>> /\ tasks = {} /\ took = <<>>
    /\ heard = 0 /\ pending = NoPieces /\ routed = <<>>
    /\ runs = <<>> /\ visits = 0

-----------------------------------------------------------------------------
(* The handler                                                             *)

\* The client connects, perhaps again: a handler, a bridge and a session of its own.
Connect ==
    /\ handler = "done" /\ visits < MaxVisits
    /\ visits' = visits + 1 /\ handler' = "new" /\ linked' = TRUE
    /\ session' = "none" /\ recv' = "none"
    /\ UNCHANGED <<presence, runs>> /\ UNCHANGED <<media, talk>>

\* No session id or no token: closed before anything is announced.
Refuse ==
    /\ handler = "new"
    /\ handler' = "done" /\ linked' = FALSE
    /\ UNCHANGED <<presence, session, recv, visits, runs>> /\ UNCHANGED <<media, talk>>

Accept ==
    /\ handler = "new"
    /\ handler' = "connecting" /\ presence' = "online"
    /\ UNCHANGED <<linked, session, recv, visits, runs>> /\ UNCHANGED <<media, talk>>

Connected ==
    /\ handler = "connecting"
    /\ handler' = "loop" /\ session' = "open" /\ recv' = "receiving"
    /\ UNCHANGED <<linked, presence, visits, runs>> /\ UNCHANGED <<media, talk>>

\* No key, no google-genai, or connect raises: accept but drain.
ConnectFails ==
    /\ handler = "connecting"
    /\ handler' = "stub"
    /\ UNCHANGED <<linked, presence, session, recv, visits, runs>> /\ UNCHANGED <<media, talk>>

\* A binary frame arrives (_parse_live_frame; forward; _enqueue_media).  One
\* with an unknown first byte is dropped, and the stub's sink keeps none.
ClientFrame(kind) ==
    /\ handler = "loop" /\ Len(sent) < MaxFrames
    /\ sent' = Append(sent, kind)
    /\ tasks' = tasks \cup {Len(sent')}
    /\ UNCHANGED <<took, recv, runs>> /\ UNCHANGED <<socket, talk>>

\* Mutant: every chunk is audio, the defect that session.py:154 remembers.
send_media_audio(kind) == "audio"

send_media(kind) == IF kind = "video" THEN "video" ELSE "audio"

\* A send task runs: the session takes the frame, or it is closed or raises,
\* which nobody hears of.
Sends(frame) ==
    /\ frame \in tasks
    /\ tasks' = tasks \ {frame}
    /\ took' \in {took} \cup IF session = "open"
                             THEN {Append(took, [frame |-> frame, slot |-> send_media(sent[frame])])}
                             ELSE {}
    /\ UNCHANGED <<sent, recv, runs>> /\ UNCHANGED <<socket, talk>>

ClientLeaves ==
    /\ linked /\ handler # "done"
    /\ linked' = FALSE
    /\ UNCHANGED <<handler, presence, session, recv, visits, runs>> /\ UNCHANGED <<media, talk>>

InGraph == recv \in {"transcript", "guild"}
Active == recv \in {"receiving", "transcript", "guild", "schematic"}

\* Mutant: the receive loop is left to finish what it is doing.
Leave_patient ==
    /\ handler = "loop" /\ ~linked
    /\ handler' = "closing"
    /\ recv' = IF recv = "receiving" THEN "cancelled" ELSE recv
    /\ UNCHANGED <<linked, presence, session, visits, runs>> /\ UNCHANGED <<media, talk>>

\* The disconnect is received: recv.cancel().  A thread that recv awaited
\* runs on, and nobody awaits it any more.
Leave ==
    /\ handler = "loop" /\ ~linked
    /\ handler' = "closing"
    /\ recv' = IF Active THEN "cancelled" ELSE recv
    /\ runs' = IF InGraph THEN [runs EXCEPT ![Len(runs)].left = TRUE] ELSE runs
    /\ UNCHANGED <<linked, presence, session, visits>> /\ UNCHANGED <<media, talk>>

BridgeGone ==
    /\ sent' = <<>> /\ tasks' = {} /\ took' = <<>>
    /\ heard' = 0 /\ pending' = NoPieces /\ routed' = <<>>

\* recv is joined, aclose cancels the send tasks and closes the session.  When
\* recv had raised, `async with` closes it and the handler falls back to the
\* drain loop, which ends at once on a socket that is gone.
Close ==
    /\ handler = "closing" /\ ~Active
    /\ handler' = "done" /\ presence' = "offline" /\ session' = "closed"
    /\ BridgeGone
    /\ UNCHANGED <<linked, recv, visits, runs>>

LeaveStub ==
    /\ handler = "stub" /\ ~linked
    /\ handler' = "done" /\ presence' = "offline"
    /\ BridgeGone
    /\ UNCHANGED <<linked, session, recv, visits, runs>>

-----------------------------------------------------------------------------
(* receive_loop: what the Live session sends                               *)

\* Mutant: the buffer is cleared once the graph has answered.
Cleared_late(all) == all

Cleared(all) == NoPieces

StartRun ==
    /\ Len(runs) < MaxRuns
    /\ runs' = Append(runs, [status |-> "running", left |-> FALSE])

\* _handle_final_transcript: the utterance goes to the graph, a blank one nowhere.
HandleFinal(all) ==
    /\ pending' = Cleared(all)
    /\ IF all.words = <<>> THEN UNCHANGED <<routed, recv, runs>>
       ELSE /\ routed' = routed \o all.words
            /\ recv' = "transcript"
            /\ StartRun

\* A piece of the output transcription, with words or blank, perhaps the last.
Piece(blank, final) ==
    LET all == [pieces |-> pending.pieces + 1,
                words |-> IF blank THEN pending.words ELSE Append(pending.words, heard + 1)]
    IN  /\ recv = "receiving"
        /\ pending.pieces < MaxPieces /\ (blank \/ heard < MaxPieces)
        /\ heard' = IF blank THEN heard ELSE heard + 1
        /\ IF final THEN HandleFinal(all)
           ELSE pending' = all /\ UNCHANGED <<routed, recv, runs>>
        /\ UNCHANGED <<socket, media>>

TurnComplete ==
    /\ recv = "receiving" /\ pending.pieces # 0
    /\ HandleFinal(pending)
    /\ UNCHANGED heard /\ UNCHANGED <<socket, media>>

\* on_tool_call: a schematic tool goes to the shared seam, anything else to the guild.
ToolCall(schematic) ==
    /\ recv = "receiving"
    /\ IF schematic THEN recv' = "schematic" /\ UNCHANGED runs
       ELSE recv' = "guild" /\ StartRun
    /\ UNCHANGED <<socket, media, talk>>

\* The iterator ends (the handler takes no notice) or raises, as an audio
\* chunk for a client that has left does.
StreamEnds ==
    /\ recv = "receiving"
    /\ recv' = "ended"
    /\ UNCHANGED runs /\ UNCHANGED <<socket, media, talk>>

-----------------------------------------------------------------------------
(* The runs                                                                *)

\* The thread of a run ends or raises; it may as well never end.
RunEnds(r) ==
    /\ runs[r].status = "running"
    /\ \E status \in {"done", "raised"} : runs' = [runs EXCEPT ![r].status = status]
    /\ UNCHANGED recv /\ UNCHANGED <<socket, media, talk>>

\* Mutant: the hook trusts in what was streamed while the run went on.
Drained_streamed(all) == all

\* drain(ctx.state): what every run so far has left in the outbox.
Drained(all) ==
    [r \in DOMAIN all |-> IF all[r].status = "running" THEN all[r]
                          ELSE [all[r] EXCEPT !.status = "drained"]]

\* The hook resumes: it drains and answers Live; a run that raised is not
\* drained, the bridge swallows what it raised.
HookReturns ==
    /\ InGraph /\ runs[Len(runs)].status # "running"
    /\ recv' = "receiving"
    /\ runs' = IF runs[Len(runs)].status = "raised" THEN runs ELSE Drained(runs)
    /\ UNCHANGED <<socket, media, talk>>

\* The schematic tool answers, with an error if it raised.
SchematicReturns ==
    /\ recv = "schematic"
    /\ recv' = "receiving"
    /\ UNCHANGED runs /\ UNCHANGED <<socket, media, talk>>

\* The same session's /v2/chat or /v2/snapshot drains the same outbox.
OthersDrain ==
    /\ runs' = Drained(runs)
    /\ UNCHANGED recv /\ UNCHANGED <<socket, media, talk>>

HandlerStep ==
    Refuse \/ Accept \/ Connected \/ ConnectFails \/ Leave \/ Close \/ LeaveStub

LiveNext ==
    \/ HandlerStep
    \/ \E kind \in MediaKinds : ClientFrame(kind)
    \/ \E frame \in tasks : Sends(frame)
    \/ ClientLeaves \/ Connect
    \/ \E blank, final \in BOOLEAN : Piece(blank, final)
    \/ TurnComplete \/ StreamEnds
    \/ \E schematic \in BOOLEAN : ToolCall(schematic)
    \/ \E r \in DOMAIN runs : RunEnds(r)
    \/ HookReturns \/ SchematicReturns \/ OthersDrain

LiveSpec == LiveInit /\ [][LiveNext]_liveVars

\* The event loop runs the handler, and connecting answers or raises.  Nothing
\* is assumed of Live, of the threads or of the client.
LiveFairness == WF_liveVars(HandlerStep)

-----------------------------------------------------------------------------
(* Every word Live transcribes is routed into the graph once and in order, *)
(* whether its run returns, raises or is cut off by the disconnect: a turn *)
(* of the receive loop leaves nothing behind to be routed with the next    *)
(* utterance (bridge.py:249-270).                                          *)
TranscriptsRoutedOnce ==
    routed \o pending.words = [i \in 1..heard |-> i]

(* The events of a finished run stay behind in the outbox only while its   *)
(* hook has not resumed, or because the connection was left meanwhile      *)
(* (main.py:408-412, :444-446).                                            *)
RunsDrained ==
    \A r \in DOMAIN runs :
        runs[r].status = "done" /\ ~runs[r].left => InGraph /\ r = Len(runs)

(* The session receives each frame once at most, and in the slot of the    *)
(* kind its client gave it, whatever is in flight (session.py:145-167).    *)
MediaInItsSlot ==
    /\ \A i \in DOMAIN took : took[i].slot = sent[took[i].frame]
    /\ \A i, j \in DOMAIN took : took[i].frame = took[j].frame => i = j

(* When the client leaves, the handler ends and the operator goes offline, *)
(* although a run may never end (main.py:511-515, :572-579).               *)
DisconnectsEnd == ~linked ~> handler = "done" /\ presence # "online"
=============================================================================
