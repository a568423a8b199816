---------------------------- MODULE ServiceProofs ----------------------------
(***************************************************************************)
(* Of four parts of the server, for every value of their constants: the    *)
(* cards of several sessions (ForgeServer), the environments of the SMEs   *)
(* (SmeEnvironments), the live socket (LiveBridge) and one subscriber of   *)
(* the chat bus (ChatSession).  The parts share no state; each has its own *)
(* inductive invariant.                                                    *)
(***************************************************************************)
EXTENDS ForgeServer, SmeEnvironments, LiveBridge, ChatSession, SequenceLemmas,
        FiniteSetTheorems, TLAPS

-----------------------------------------------------------------------------
(* ForgeServer                                                             *)

Chats ==
    [Sockets -> [pc: {"new", "receiving", "running", "resuming", "resumed", "closed"},
                 call: CallIds \cup {"none"}]]

ServerType ==
    /\ ctxs \in [SessionIds -> [open: SUBSET CallIds, answered: SUBSET CallIds,
                                outbox: SUBSET CallIds]]
    /\ callbacks \in Seq(SUBSET CallIds)
    /\ draining.calls \in SUBSET CallIds
    /\ ~LoopFree => draining.sid \in SessionIds
    /\ unanswered \in SUBSET CallIds
    /\ chats \in Chats
    /\ shown \in [Sockets -> SUBSET CallIds]

\* A card belongs to the session that offered it, and is open or answered.
OwnCards ==
    /\ \A sid \in SessionIds : ctxs[sid].open \cap ctxs[sid].answered = {}
    /\ \A sid, other \in SessionIds : sid # other =>
          (ctxs[sid].open \cup ctxs[sid].answered)
              \cap (ctxs[other].open \cup ctxs[other].answered) = {}
    /\ \A sid \in SessionIds : ctxs[sid].outbox \subseteq ctxs[sid].open

\* The cards in a queue of batches; no card is in two of them.
In(queue) == UNION {queue[i] : i \in DOMAIN queue}
Apart(queue) == \A i, j \in DOMAIN queue : i # j => queue[i] \cap queue[j] = {}

\* What the loop has yet to publish.
Waiting == In(callbacks)

\* A card waits in one place, and nobody has seen it before it is published.
OncePublished ==
    /\ Apart(callbacks)
    /\ \A sid \in SessionIds : ctxs[sid].outbox \cap Waiting = {}
    /\ Waiting \cup unanswered \subseteq Offered
    /\ \A s \in Sockets : shown[s] \subseteq Offered
    /\ \A call \in Waiting : \A sid \in SessionIds : call \notin ctxs[sid].answered
    /\ \A call \in Waiting \cup UNION {ctxs[sid].outbox : sid \in SessionIds} :
          /\ call \notin unanswered
          /\ \A s \in Sockets : call \notin shown[s]

\* Between the two steps of a drain: what will be published is in the outbox,
\* and what is in the outbox will be published but for the cards just lost.
DrainInv ==
    ~LoopFree => /\ draining.calls \subseteq ctxs[draining.sid].outbox
                 /\ ctxs[draining.sid].outbox \subseteq draining.calls \cup lost

\* An answer concerns a card its client was sent; once resume is over, its
\* own session has recorded it unless the card was another's.
AnswerInv ==
    \A s \in Sockets :
        /\ chats[s].pc \in {"resuming", "resumed"} => chats[s].call \in shown[s]
        /\ chats[s].pc = "resumed" =>
              chats[s].call \in ctxs[SessionOf[s]].answered \cup foreign

\* The handler of an answer to the card has yet to come back to the loop.
ComesBack(call) == \E s \in Sockets : chats[s] = [pc |-> "resumed", call |-> call]

ServerInv ==
    /\ ServerType /\ OwnCards /\ OncePublished /\ DrainInv /\ AnswerInv
    /\ OpenCardsReoffered /\ AnsweredNotReoffered

-----------------------------------------------------------------------------
LEMMA BatchQueued ==
    ASSUME NEW S, NEW queue \in Seq(S), NEW batch \in S
    PROVE  /\ In(Append(queue, batch)) = In(queue) \cup batch
           /\ Apart(queue) /\ batch \cap In(queue) = {} => Apart(Append(queue, batch))
  <1> DEFINE longer == Append(queue, batch)
             n == Len(queue)
  <1>1. /\ n \in Nat /\ DOMAIN queue = 1..n /\ DOMAIN longer = 1..(n + 1)
        /\ \A i \in 1..n : longer[i] = queue[i]
        /\ longer[n + 1] = batch
    OBVIOUS
  <1>2. \A i \in DOMAIN longer : i \in DOMAIN queue \/ i = n + 1
    BY <1>1
  <1>3. n + 1 \in DOMAIN longer /\ n + 1 \notin DOMAIN queue /\ DOMAIN queue \subseteq DOMAIN longer
    BY <1>1
  <1> HIDE DEF longer, n
  <1>4. In(longer) = In(queue) \cup batch
    BY <1>1, <1>2, <1>3 DEF In
  <1>5. ASSUME Apart(queue), batch \cap In(queue) = {}
        PROVE  Apart(longer)
    BY <1>1, <1>2, <1>3, <1>5 DEF Apart, In
  <1>6. QED
    BY <1>4, <1>5 DEF longer

LEMMA BatchTaken ==
    ASSUME NEW S, NEW queue \in Seq(S), queue # <<>>
    PROVE  /\ In(queue) = In(Tail(queue)) \cup Head(queue)
           /\ Apart(queue) => Apart(Tail(queue)) /\ Head(queue) \cap In(Tail(queue)) = {}
  <1> DEFINE rest == Tail(queue)
             n == Len(rest)
  <1>1. /\ n \in Nat /\ DOMAIN queue = 1..(n + 1) /\ DOMAIN rest = 1..n
        /\ \A i \in 1..n : rest[i] = queue[i + 1]
        /\ Head(queue) = queue[1]
    OBVIOUS
  <1>2. \A i \in DOMAIN queue : i = 1 \/ (i - 1 \in DOMAIN rest /\ rest[i - 1] = queue[i])
    BY <1>1
  <1>3. /\ 1 \in DOMAIN queue
        /\ \A i \in DOMAIN rest : i + 1 \in DOMAIN queue /\ i + 1 # 1 /\ rest[i] = queue[i + 1]
    BY <1>1
  <1>4. \A i, j \in DOMAIN rest : i # j => i + 1 # j + 1
    BY <1>1
  <1> HIDE DEF rest, n
  <1>5. In(queue) = In(rest) \cup Head(queue)
    <2>1. \A i \in DOMAIN queue : queue[i] \subseteq In(rest) \cup Head(queue)
      BY <1>1, <1>2 DEF In
    <2>2. \A i \in DOMAIN rest : rest[i] \subseteq In(queue)
      BY <1>3 DEF In
    <2>3. Head(queue) \subseteq In(queue)
      BY <1>1, <1>3 DEF In
    <2>4. QED
      BY <2>1, <2>2, <2>3 DEF In
  <1>6. ASSUME Apart(queue)
        PROVE  Apart(rest) /\ Head(queue) \cap In(rest) = {}
    <2>1. Apart(rest)
      BY <1>3, <1>4, <1>6 DEF Apart
    <2>2. \A i \in DOMAIN rest : Head(queue) \cap rest[i] = {}
      BY <1>1, <1>3, <1>6 DEF Apart
    <2>3. QED
      BY <2>1, <2>2 DEF In
  <1>7. QED
    BY <1>5, <1>6 DEF rest

\* The two halves of AnsweredNotReoffered.
LEMMA AnsweredHalves ==
    AnsweredNotReoffered <=>
        \A sid \in SessionIds, call \in CallIds :
            call \in ctxs[sid].answered =>
                call \notin OnTheWay(sid) /\ (call \in unanswered => ComesBack(call))
  BY Zenon DEF AnsweredNotReoffered, ComesBack

LEMMA ServerInvInit == ServerInit => ServerInv
  <1> SUFFICES ASSUME ServerInit PROVE ServerInv
    OBVIOUS
  <1>1. DOMAIN callbacks = {} /\ Waiting = {}
    BY DEF ServerInit, Waiting, In
  <1>2. ServerType
    BY DEF ServerInit, ServerType, Chats, Plain, LoopFree, NoDrain
  <1>3. OwnCards /\ OncePublished /\ AnswerInv
    BY <1>1, <1>2 DEF ServerInit, OwnCards, OncePublished, AnswerInv, Plain, Apart
  <1>4. DrainInv
    BY DEF ServerInit, DrainInv, LoopFree
  <1>5. OpenCardsReoffered /\ AnsweredNotReoffered
    BY DEF ServerInit, OpenCardsReoffered, AnsweredNotReoffered
  <1>6. QED
    BY <1>2, <1>3, <1>4, <1>5 DEF ServerInv

-----------------------------------------------------------------------------
\* A step of the loop that begins a drain, beside what else it does.
LEMMA BeginsDrain ==
    ASSUME ServerInv, LoopFree, NEW sid \in SessionIds, NEW later \in BOOLEAN,
           TakeUndrained(sid, later), UNCHANGED <<ctxs, lost>>
    PROVE  DrainInv' /\ ~LoopFree' /\ draining'.sid \in SessionIds
                     /\ draining'.calls \in SUBSET CallIds
  <1>1. draining' = [sid |-> sid, calls |-> ctxs[sid].outbox, later |-> later]
    BY DEF TakeUndrained
  <1>2. sid # "none"
    BY ServerAssumption
  <1>3. ~LoopFree'
    BY <1>1, <1>2 DEF LoopFree, NoDrain
  <1>4. QED
    BY <1>1, <1>3 DEF DrainInv, ServerInv, ServerType

LEMMA OutboxClearedStep ==
    ASSUME ServerInv, OutboxCleared
    PROVE  ServerInv'
  <1> DEFINE sid == draining.sid
             calls == draining.calls
  <1>1. /\ sid \in SessionIds /\ calls \in SUBSET CallIds
        /\ calls \subseteq ctxs[sid].outbox
        /\ ctxs[sid].outbox \subseteq calls \cup lost
    BY DEF ServerInv, ServerType, DrainInv, OutboxCleared
  <1>2. /\ ctxs' = [ctxs EXCEPT ![sid].outbox = {}]
        /\ draining' = NoDrain
        /\ UNCHANGED <<registered, chats, foreign, lost>>
    BY DEF OutboxCleared
  <1>3. /\ \A s \in SessionIds : /\ ctxs'[s].open = ctxs[s].open
                                /\ ctxs'[s].answered = ctxs[s].answered
                                /\ ctxs'[s].outbox = IF s = sid THEN {} ELSE ctxs[s].outbox
        /\ ctxs' \in [SessionIds -> [open: SUBSET CallIds, answered: SUBSET CallIds,
                                     outbox: SUBSET CallIds]]
    BY <1>1, <1>2 DEF ServerInv, ServerType
  <1>4. LoopFree' /\ DrainInv'
    BY <1>2 DEF LoopFree, DrainInv
  <1>5. Offered' = Offered
    BY <1>3 DEF Offered
  <1>a. \A s \in SessionIds : calls \cap ctxs[s].answered = {}
    BY <1>1, Zenon DEF ServerInv, OwnCards
  <1>b. /\ \A s \in SessionIds : OnTheWay(s) = ctxs[s].outbox \cup Waiting
        /\ \A s \in SessionIds : OnTheWay(s)' = ctxs'[s].outbox \cup Waiting'
    BY DEF OnTheWay, Waiting, In
  <1>6. CASE draining.later
    <2>1. UNCHANGED <<unanswered, shown>>
      BY <1>6 DEF OutboxCleared
    <2>2. calls \cap Waiting = {}
      BY <1>1 DEF ServerInv, OncePublished
    <2>3. callbacks' \in Seq(SUBSET CallIds) /\ Apart(callbacks') /\ Waiting' = Waiting \cup calls
      <3>1. callbacks \in Seq(SUBSET CallIds) /\ Apart(callbacks)
        BY DEF ServerInv, ServerType, OncePublished
      <3>2. CASE calls = {}
        BY <1>6, <3>1, <3>2 DEF OutboxCleared, Waiting
      <3>3. CASE calls # {}
        <4>1. callbacks' = Append(callbacks, calls)
          BY <1>6, <3>3 DEF OutboxCleared
        <4>2. QED
          BY <1>1, <2>2, <3>1, <4>1, BatchQueued DEF Waiting
      <3>4. QED
        BY <3>2, <3>3
    <2>4. ServerType'
      BY <1>2, <1>3, <1>4, <2>1, <2>3 DEF ServerInv, ServerType, NoDrain
    <2>5. OwnCards' /\ AnswerInv'
      BY <1>1, <1>2, <1>3, <2>1 DEF ServerInv, OwnCards, AnswerInv, ServerType
    <2>6. OncePublished'
      BY <1>1, <1>3, <1>5, <2>1, <2>2, <2>3 DEF ServerInv, OncePublished, OwnCards, Offered
    <2>7. OpenCardsReoffered'
      BY <1>1, <1>2, <1>3, <1>b, <2>1, <2>3 DEF ServerInv, OpenCardsReoffered
    <2>8. AnsweredNotReoffered'
      <3>1. \A call : ComesBack(call)' <=> ComesBack(call)
        BY <1>2 DEF ComesBack
      <3>2. AnsweredNotReoffered
        BY DEF ServerInv
      <3>3. ASSUME NEW s \in SessionIds, NEW call \in CallIds, call \in ctxs'[s].answered
            PROVE  call \notin OnTheWay(s)' /\ (call \in unanswered' => ComesBack(call)')
        BY <1>3, <1>a, <1>b, <2>1, <2>3, <3>1, <3>2, <3>3, AnsweredHalves
      <3>4. QED
        BY <3>3, Zenon DEF AnsweredNotReoffered, ComesBack
    <2>9. QED
      BY <1>4, <2>4, <2>5, <2>6, <2>7, <2>8 DEF ServerInv
  <1>7. CASE ~draining.later
    <2>1. Published(calls) /\ UNCHANGED callbacks
      BY <1>7 DEF OutboxCleared
    <2>2. Waiting' = Waiting /\ unanswered' = unanswered \cup calls
      BY <2>1 DEF Waiting, Published
    <2>3. \A s \in Sockets : shown'[s] \subseteq shown[s] \cup calls /\ shown[s] \subseteq shown'[s]
      BY <2>1 DEF Published, ServerInv, ServerType
    <2>4. ServerType'
      BY <1>1, <1>2, <1>3, <1>4, <2>1 DEF ServerInv, ServerType, NoDrain, Published
    <2>5. OwnCards' /\ AnswerInv'
      BY <1>1, <1>2, <1>3, <2>3 DEF ServerInv, OwnCards, AnswerInv, ServerType
    <2>6. OncePublished'
      BY <1>1, <1>3, <1>5, <2>1, <2>2, <2>3 DEF ServerInv, OncePublished, OwnCards, Offered
    <2>7. OpenCardsReoffered'
      BY <1>1, <1>2, <1>3, <1>b, <2>1, <2>2 DEF ServerInv, OpenCardsReoffered
    <2>8. AnsweredNotReoffered'
      <3>1. \A call : ComesBack(call)' <=> ComesBack(call)
        BY <1>2 DEF ComesBack
      <3>2. AnsweredNotReoffered
        BY DEF ServerInv
      <3>3. ASSUME NEW s \in SessionIds, NEW call \in CallIds, call \in ctxs'[s].answered
            PROVE  call \notin OnTheWay(s)' /\ (call \in unanswered' => ComesBack(call)')
        BY <1>3, <1>a, <1>b, <2>1, <2>2, <3>1, <3>2, <3>3, AnsweredHalves
      <3>4. QED
        BY <3>3, Zenon DEF AnsweredNotReoffered, ComesBack
    <2>9. QED
      BY <1>4, <2>4, <2>5, <2>6, <2>7, <2>8 DEF ServerInv
  <1>8. QED
    BY <1>6, <1>7

LEMMA LoopPublishesStep ==
    ASSUME ServerInv, LoopPublishes
    PROVE  ServerInv'
  <1> DEFINE calls == Head(callbacks)
  <1>1. /\ Published(calls) /\ callbacks' = Tail(callbacks)
        /\ UNCHANGED <<ctxs, draining, registered, chats, foreign, lost>>
    BY DEF LoopPublishes
  <1>2. /\ callbacks \in Seq(SUBSET CallIds) /\ callbacks # <<>> /\ Apart(callbacks)
        /\ callbacks' \in Seq(SUBSET CallIds) /\ calls \in SUBSET CallIds
    BY <1>1 DEF LoopPublishes, ServerInv, ServerType, OncePublished
  <1>3. /\ Waiting = Waiting' \cup calls /\ calls \cap Waiting' = {}
        /\ Apart(callbacks')
    BY <1>1, <1>2, BatchTaken, Zenon DEF Waiting
  <1>4. /\ unanswered' = unanswered \cup calls
        /\ \A s \in Sockets : shown'[s] \subseteq shown[s] \cup calls /\ shown[s] \subseteq shown'[s]
    BY <1>1 DEF Published, ServerInv, ServerType
  <1> HIDE DEF calls
  <1>5. ServerType'
    BY <1>1, <1>2 DEF ServerInv, ServerType, Published, LoopFree
  <1>6. OwnCards' /\ AnswerInv' /\ DrainInv' /\ Offered' = Offered
    BY <1>1, <1>4 DEF ServerInv, OwnCards, AnswerInv, DrainInv, LoopFree, Offered
  <1>7. OncePublished'
    BY <1>1, <1>3, <1>4, <1>6 DEF ServerInv, OncePublished
  <1>8. /\ \A s \in SessionIds : OnTheWay(s) = ctxs[s].outbox \cup Waiting
        /\ \A s \in SessionIds : OnTheWay(s)' = ctxs'[s].outbox \cup Waiting'
    BY DEF OnTheWay, Waiting, In
  <1>9. OpenCardsReoffered'
    BY <1>1, <1>3, <1>4, <1>8 DEF ServerInv, OpenCardsReoffered
  <1>10. AnsweredNotReoffered'
    <2>1. \A call : ComesBack(call)' <=> ComesBack(call)
      BY <1>1 DEF ComesBack
    <2>2. \A s \in SessionIds : calls \cap ctxs[s].answered = {}
      BY <1>3 DEF ServerInv, OncePublished
    <2>3. ASSUME NEW s \in SessionIds, NEW call \in CallIds, call \in ctxs'[s].answered
          PROVE  call \notin OnTheWay(s)' /\ (call \in unanswered' => ComesBack(call)')
      BY <1>1, <1>3, <1>4, <1>8, <2>1, <2>2, <2>3, AnsweredHalves DEF ServerInv
    <2>4. QED
      BY <2>3, Zenon DEF AnsweredNotReoffered, ComesBack
  <1>11. QED
    BY <1>5, <1>6, <1>7, <1>9, <1>10 DEF ServerInv

(* A step that moves no card: it may send a client what the bus remembers, *)
(* and begin a drain.                                                      *)
LEMMA QuietServerStep ==
    ASSUME ServerInv, UNCHANGED <<ctxs, callbacks, unanswered, foreign, lost>>,
           ServerType', AnswerInv', DrainInv',
           \A s \in Sockets : shown'[s] \subseteq shown[s] \cup unanswered,
           \A call : ComesBack(call) => ComesBack(call)'
    PROVE  ServerInv'
  <1>1. OwnCards' /\ Offered' = Offered /\ Waiting' = Waiting
    BY DEF ServerInv, OwnCards, Offered, Waiting
  <1>2. OncePublished'
    BY <1>1 DEF ServerInv, OncePublished
  <1>3. OpenCardsReoffered'
    BY DEF ServerInv, OpenCardsReoffered, OnTheWay
  <1>4. AnsweredNotReoffered'
    <2>1. \A s \in SessionIds : OnTheWay(s)' = OnTheWay(s)
      BY DEF OnTheWay
    <2>2. ASSUME NEW s \in SessionIds, NEW call \in CallIds, call \in ctxs'[s].answered
          PROVE  call \notin OnTheWay(s)' /\ (call \in unanswered' => ComesBack(call)')
      BY <2>1, <2>2, AnsweredHalves DEF ServerInv
    <2>3. QED
      BY <2>2, Zenon DEF AnsweredNotReoffered, ComesBack
  <1>5. QED
    BY <1>1, <1>2, <1>3, <1>4 DEF ServerInv

LEMMA OthersDrainCardsStep ==
    ASSUME ServerInv, NEW sid \in SessionIds, OthersDrainCards(sid)
    PROVE  ServerInv'
  <1>1. PICK later \in BOOLEAN : TakeUndrained(sid, later)
    BY DEF OthersDrainCards
  <1>2. LoopFree /\ UNCHANGED <<ctxs, unanswered, callbacks, registered, chats, shown, foreign, lost>>
    BY DEF OthersDrainCards
  <1>3. DrainInv' /\ ~LoopFree' /\ draining'.sid \in SessionIds /\ draining'.calls \in SUBSET CallIds
    BY <1>1, <1>2, BeginsDrain
  <1>4. ServerType' /\ AnswerInv'
    BY <1>2, <1>3 DEF ServerInv, ServerType, AnswerInv
  <1>5. \A call : ComesBack(call) => ComesBack(call)'
    BY <1>2 DEF ComesBack
  <1>6. QED
    BY <1>2, <1>3, <1>4, <1>5, QuietServerStep

\* A handler goes from one place to another that is not after an answer.
LEMMA GoesQuietly ==
    ASSUME ServerInv, NEW s \in Sockets, chats[s].pc # "resumed",
           NEW pc \in {"receiving", "running", "closed"}, Goes(s, pc)
    PROVE  /\ chats' \in Chats
           /\ \A r \in Sockets : chats'[r] = IF r = s THEN Plain(pc) ELSE chats[r]
           /\ \A call : ComesBack(call) => ComesBack(call)'
  <1>1. chats' = [chats EXCEPT ![s] = Plain(pc)] /\ Plain(pc).pc = pc
    BY DEF Goes, Plain
  <1>2. \A r \in Sockets : chats'[r] = IF r = s THEN Plain(pc) ELSE chats[r]
    BY <1>1 DEF ServerInv, ServerType, Chats
  <1>3. \A call : ComesBack(call) => ComesBack(call)'
    BY <1>2 DEF ComesBack
  <1>4. QED
    BY <1>1, <1>2, <1>3 DEF ServerInv, ServerType, Chats, Plain

LEMMA HandlerSteps ==
    ASSUME ServerInv, NEW s \in Sockets, Opens(s) \/ Asks(s) \/ RunReturned(s) \/ Ends(s)
    PROVE  ServerInv'
  <1>1. CASE Opens(s)
    <2>1. /\ Goes(s, "receiving") /\ chats[s].pc = "new" /\ shown' = [shown EXCEPT ![s] = unanswered]
          /\ UNCHANGED <<ctxs, unanswered, draining, callbacks, foreign, lost>>
      BY <1>1 DEF Opens
    <2>2. /\ \A r \in Sockets : chats'[r] = IF r = s THEN Plain("receiving") ELSE chats[r]
          /\ \A call : ComesBack(call) => ComesBack(call)'
          /\ chats' \in Chats
      BY <2>1, GoesQuietly
    <2>3. \A r \in Sockets : shown'[r] = IF r = s THEN unanswered ELSE shown[r]
      BY <2>1 DEF ServerInv, ServerType
    <2>4. ServerType' /\ AnswerInv' /\ DrainInv'
      BY <2>1, <2>2, <2>3 DEF ServerInv, ServerType, AnswerInv, DrainInv, LoopFree, Plain
    <2>5. QED
      BY <2>1, <2>2, <2>3, <2>4, QuietServerStep
  <1>2. CASE Asks(s)
    <2>1. /\ Goes(s, "running") /\ chats[s].pc = "receiving"
          /\ UNCHANGED <<ctxs, unanswered, draining, callbacks, shown, foreign, lost>>
      BY <1>2 DEF Asks
    <2>2. /\ \A r \in Sockets : chats'[r] = IF r = s THEN Plain("running") ELSE chats[r]
          /\ \A call : ComesBack(call) => ComesBack(call)'
          /\ chats' \in Chats
      BY <2>1, GoesQuietly
    <2>3. ServerType' /\ AnswerInv' /\ DrainInv'
      BY <2>1, <2>2 DEF ServerInv, ServerType, AnswerInv, DrainInv, LoopFree, Plain
    <2>4. QED
      BY <2>1, <2>2, <2>3, QuietServerStep
  <1>3. CASE RunReturned(s)
    <2>1. /\ Goes(s, "receiving") /\ chats[s].pc = "running" /\ LoopFree
          /\ TakeUndrained(SessionOf[s], TRUE)
          /\ UNCHANGED <<ctxs, unanswered, callbacks, shown, foreign, lost>>
      BY <1>3 DEF RunReturned
    <2>2. /\ \A r \in Sockets : chats'[r] = IF r = s THEN Plain("receiving") ELSE chats[r]
          /\ \A call : ComesBack(call) => ComesBack(call)'
          /\ chats' \in Chats
      BY <2>1, GoesQuietly
    <2>3. DrainInv' /\ ~LoopFree' /\ draining'.sid \in SessionIds /\ draining'.calls \in SUBSET CallIds
      BY <2>1, BeginsDrain, ServerAssumption
    <2>4. ServerType' /\ AnswerInv'
      BY <2>1, <2>2, <2>3 DEF ServerInv, ServerType, AnswerInv, Plain
    <2>5. QED
      BY <2>1, <2>2, <2>3, <2>4, QuietServerStep
  <1>4. CASE Ends(s)
    <2>1. /\ Goes(s, "closed") /\ chats[s].pc # "resumed"
          /\ UNCHANGED <<ctxs, unanswered, draining, callbacks, shown, foreign, lost>>
      BY <1>4 DEF Ends
    <2>2. /\ \A r \in Sockets : chats'[r] = IF r = s THEN Plain("closed") ELSE chats[r]
          /\ \A call : ComesBack(call) => ComesBack(call)'
          /\ chats' \in Chats
      BY <2>1, GoesQuietly
    <2>3. ServerType' /\ AnswerInv' /\ DrainInv'
      BY <2>1, <2>2 DEF ServerInv, ServerType, AnswerInv, DrainInv, LoopFree, Plain
    <2>4. QED
      BY <2>1, <2>2, <2>3, QuietServerStep
  <1>5. QED
    BY <1>1, <1>2, <1>3, <1>4

LEMMA OffersStep ==
    ASSUME ServerInv, NEW sid \in SessionIds, NEW call \in CallIds, Offers(sid, call)
    PROVE  ServerInv'
  <1>1. /\ call \notin Offered
        /\ ctxs' = [ctxs EXCEPT ![sid].open = @ \cup {call}, ![sid].outbox = @ \cup {call}]
        /\ lost' = IF draining.sid = sid THEN lost \cup {call} ELSE lost
        /\ UNCHANGED <<unanswered, draining, callbacks, registered, chats, shown, foreign>>
    BY DEF Offers
  <1>2. /\ \A s \in SessionIds :
              /\ ctxs'[s].open = IF s = sid THEN ctxs[s].open \cup {call} ELSE ctxs[s].open
              /\ ctxs'[s].answered = ctxs[s].answered
              /\ ctxs'[s].outbox = IF s = sid THEN ctxs[s].outbox \cup {call} ELSE ctxs[s].outbox
        /\ ctxs' \in [SessionIds -> [open: SUBSET CallIds, answered: SUBSET CallIds,
                                     outbox: SUBSET CallIds]]
    BY <1>1 DEF ServerInv, ServerType
  <1>3. /\ Offered' = Offered \cup {call}
        /\ \A s \in SessionIds : call \notin ctxs[s].open \cup ctxs[s].answered
    BY <1>1, <1>2 DEF Offered
  <1>4. Waiting' = Waiting
    BY <1>1 DEF Waiting
  <1>5. ServerType' /\ AnswerInv' /\ OwnCards'
    BY <1>1, <1>2, <1>3 DEF ServerInv, ServerType, AnswerInv, OwnCards, LoopFree, Chats
  <1>6. OncePublished'
    BY <1>1, <1>2, <1>3, <1>4 DEF ServerInv, OncePublished
  <1>7. DrainInv'
    BY <1>1, <1>2 DEF ServerInv, ServerType, DrainInv, LoopFree
  <1>8. OpenCardsReoffered'
    BY <1>1, <1>2 DEF ServerInv, OpenCardsReoffered, OnTheWay
  <1>9. AnsweredNotReoffered'
    <2>1. \A c : ComesBack(c)' <=> ComesBack(c)
      BY <1>1 DEF ComesBack
    <2>2. \A s \in SessionIds : OnTheWay(s)' \subseteq OnTheWay(s) \cup {call}
      BY <1>1, <1>2 DEF OnTheWay
    <2>3. ASSUME NEW s \in SessionIds, NEW c \in CallIds, c \in ctxs'[s].answered
          PROVE  c \notin OnTheWay(s)' /\ (c \in unanswered' => ComesBack(c)')
      <3>1. c # call /\ c \in ctxs[s].answered
        BY <1>2, <1>3, <2>3
      <3>2. QED
        BY <1>1, <2>1, <2>2, <3>1, AnsweredHalves DEF ServerInv
    <2>4. QED
      BY <2>3, Zenon DEF AnsweredNotReoffered, ComesBack
  <1>10. QED
    BY <1>5, <1>6, <1>7, <1>8, <1>9 DEF ServerInv

LEMMA RepliesStep ==
    ASSUME ServerInv, NEW s \in Sockets, NEW call \in CallIds, Replies(s, call)
    PROVE  ServerInv'
  <1>1. /\ chats[s].pc = "receiving" /\ call \in shown[s]
        /\ chats' = [chats EXCEPT ![s] = [pc |-> "resuming", call |-> call]]
        /\ UNCHANGED <<ctxs, unanswered, draining, callbacks, registered, shown, foreign, lost>>
    BY DEF Replies
  <1>2. /\ chats' \in Chats
        /\ \A r \in Sockets : chats'[r] = IF r = s THEN [pc |-> "resuming", call |-> call] ELSE chats[r]
    BY <1>1 DEF ServerInv, ServerType, Chats
  <1>3. ServerType' /\ AnswerInv' /\ DrainInv'
    BY <1>1, <1>2 DEF ServerInv, ServerType, AnswerInv, DrainInv, LoopFree
  <1>4. \A c : ComesBack(c) => ComesBack(c)'
    BY <1>1, <1>2 DEF ComesBack
  <1>5. QED
    BY <1>1, <1>3, <1>4, QuietServerStep

LEMMA ResumedStep ==
    ASSUME ServerInv, NEW s \in Sockets, Resumed(s)
    PROVE  ServerInv'
  <1> DEFINE sid == SessionOf[s]
  <1>0. PICK call : call = chats[s].call
    OBVIOUS
  <1>1. /\ chats[s].pc = "resuming"
        /\ chats' = [chats EXCEPT ![s].pc = "resumed"]
        /\ UNCHANGED <<unanswered, draining, callbacks, registered, shown, lost>>
        /\ foreign' = IF call \in ctxs[sid].open \cup ctxs[sid].answered THEN foreign
                      ELSE foreign \cup {call}
    BY <1>0 DEF Resumed
  <1>2. sid \in SessionIds /\ call \in shown[s] /\ call \in CallIds
    BY <1>0, <1>1, ServerAssumption DEF ServerInv, ServerType, Chats, AnswerInv
  <1>3. /\ chats' \in Chats
        /\ \A r \in Sockets : chats'[r] = IF r = s THEN [pc |-> "resumed", call |-> call] ELSE chats[r]
    BY <1>0, <1>1, <1>2 DEF ServerInv, ServerType, Chats
  <1>4. /\ \A r \in SessionIds :
              /\ ctxs'[r].open = IF r = sid THEN ctxs[r].open \ {call} ELSE ctxs[r].open
              /\ ctxs'[r].answered = IF r = sid /\ call \in ctxs[sid].open
                                     THEN ctxs[r].answered \cup {call} ELSE ctxs[r].answered
              /\ ctxs'[r].outbox = ctxs[r].outbox
        /\ ctxs' \in [SessionIds -> [open: SUBSET CallIds, answered: SUBSET CallIds,
                                     outbox: SUBSET CallIds]]
    <2>1. CASE call \in ctxs[sid].open
      <3>1. ctxs' = [ctxs EXCEPT ![sid].open = @ \ {call}, ![sid].answered = @ \cup {call}]
        BY <1>0, <2>1 DEF Resumed
      <3>2. QED
        BY <1>2, <2>1, <3>1 DEF ServerInv, ServerType
    <2>2. CASE call \notin ctxs[sid].open
      <3>1. ctxs' = ctxs
        BY <1>0, <2>2 DEF Resumed
      <3>2. QED
        BY <1>2, <2>2, <3>1 DEF ServerInv, ServerType
    <2>3. QED
      BY <2>1, <2>2
  <1>5. /\ Waiting' = Waiting
        /\ \A r \in SessionIds : /\ ctxs'[r].open \cup ctxs'[r].answered = ctxs[r].open \cup ctxs[r].answered
                                /\ ctxs[r].answered \subseteq ctxs'[r].answered
    BY <1>1, <1>4 DEF Waiting
  <1>5a. Offered' = Offered
    BY <1>5 DEF Offered
  \* The card has been shown: it waits nowhere.
  <1>6. call \notin Waiting /\ \A r \in SessionIds : call \notin ctxs[r].outbox
    BY <1>2 DEF ServerInv, OncePublished
  <1> HIDE DEF sid
  <1>7. ServerType'
    BY <1>1, <1>3, <1>4 DEF ServerInv, ServerType, LoopFree
  <1>8. OwnCards'
    <2>1. \A r \in SessionIds : ctxs'[r].open \cap ctxs'[r].answered = {}
      BY <1>4 DEF ServerInv, OwnCards
    <2>2. \A r \in SessionIds : ctxs'[r].outbox \subseteq ctxs'[r].open
      <3>1. ASSUME NEW r \in SessionIds PROVE ctxs'[r].outbox \subseteq ctxs'[r].open
        <4>1. ctxs[r].outbox \subseteq ctxs[r].open /\ call \notin ctxs[r].outbox
          BY <1>6 DEF ServerInv, OwnCards
        <4>2. ctxs'[r].outbox = ctxs[r].outbox /\ ctxs[r].open \ {call} \subseteq ctxs'[r].open
          BY <1>4
        <4>3. QED
          BY <4>1, <4>2
      <3>2. QED
        BY <3>1
    <2>3. QED
      BY <1>5, <2>1, <2>2 DEF ServerInv, OwnCards
  <1>9. OncePublished'
    <2>1. \A c \in Waiting : \A r \in SessionIds : c \notin ctxs'[r].answered
      <3>1. \A c \in Waiting : \A r \in SessionIds : c \notin ctxs[r].answered
        BY DEF ServerInv, OncePublished
      <3>2. \A r \in SessionIds : ctxs'[r].answered \subseteq ctxs[r].answered \cup {call}
        BY <1>4
      <3>3. QED
        BY <1>6, <3>1, <3>2
    <2>2. \A r \in SessionIds : ctxs'[r].outbox = ctxs[r].outbox
      BY <1>4
    <2>3. UNION {ctxs'[r].outbox : r \in SessionIds} = UNION {ctxs[r].outbox : r \in SessionIds}
      BY <2>2
    <2>4. QED
      BY <1>1, <1>5, <1>5a, <2>1, <2>2, <2>3 DEF ServerInv, OncePublished
  <1>10. DrainInv'
    BY <1>1, <1>4 DEF ServerInv, ServerType, DrainInv, LoopFree
  <1>11. AnswerInv'
    <2>1. call \in ctxs'[sid].answered \cup foreign'
      BY <1>1, <1>2, <1>4, <1>5
    <2>2. \A r \in Sockets : SessionOf[r] \in SessionIds
      BY ServerAssumption
    <2>3. QED
      BY <1>1, <1>2, <1>3, <1>5, <2>1, <2>2 DEF ServerInv, AnswerInv, sid
  <1>12. /\ \A r \in SessionIds : OnTheWay(r)' = OnTheWay(r)
         /\ \A r \in SessionIds : OnTheWay(r) = ctxs[r].outbox \cup Waiting
    <2>1. \A r \in SessionIds : OnTheWay(r) = ctxs[r].outbox \cup Waiting
      BY Zenon DEF OnTheWay, Waiting, In
    <2>2. \A r \in SessionIds : OnTheWay(r)' = ctxs'[r].outbox \cup Waiting'
      BY Zenon DEF OnTheWay, Waiting, In
    <2>3. \A r \in SessionIds : ctxs'[r].outbox = ctxs[r].outbox
      BY <1>4
    <2>4. QED
      BY ONLY <1>5, <2>1, <2>2, <2>3
  <1>13. OpenCardsReoffered'
    <2>1. ASSUME NEW r \in SessionIds
          PROVE  ctxs'[r].open \subseteq unanswered' \cup OnTheWay(r)' \cup foreign' \cup lost'
      <3>1. ctxs'[r].open \subseteq ctxs[r].open
        BY <1>4
      <3>2. ctxs[r].open \subseteq unanswered \cup OnTheWay(r) \cup foreign \cup lost
        BY DEF ServerInv, OpenCardsReoffered
      <3>3. OnTheWay(r)' = OnTheWay(r)
        BY <1>12
      <3>4. unanswered' = unanswered /\ lost' = lost /\ foreign \subseteq foreign'
        BY <1>1
      <3>5. QED
        BY <3>1, <3>2, <3>3, <3>4
    <2>2. QED
      BY <2>1 DEF OpenCardsReoffered
  <1>14. AnsweredNotReoffered'
    <2>1. ComesBack(call)' /\ \A c : ComesBack(c) => ComesBack(c)'
      BY <1>1, <1>3 DEF ComesBack
    <2>2. ASSUME NEW r \in SessionIds, NEW c \in CallIds, c \in ctxs'[r].answered
          PROVE  c \notin OnTheWay(r)' /\ (c \in unanswered' => ComesBack(c)')
      <3>1. CASE c = call
        BY <1>6, <1>12, <2>1, <2>2, <3>1
      <3>2. CASE c # call
        <4>1. c \in ctxs[r].answered
          BY <1>4, <2>2, <3>2
        <4>2. QED
          BY <1>1, <1>12, <2>1, <4>1, AnsweredHalves DEF ServerInv
      <3>3. QED
        BY <3>1, <3>2
    <2>3. QED
      BY <2>2, Zenon DEF AnsweredNotReoffered, ComesBack
  <1>15. QED
    BY <1>7, <1>8, <1>9, <1>10, <1>11, <1>13, <1>14 DEF ServerInv

LEMMA ResolvesStep ==
    ASSUME ServerInv, NEW s \in Sockets, Resolves(s)
    PROVE  ServerInv'
  <1>0. PICK call : call = chats[s].call
    OBVIOUS
  <1>1. /\ LoopFree /\ chats[s].pc = "resumed" /\ unanswered' = unanswered \ {call}
        /\ TakeUndrained(SessionOf[s], TRUE) /\ chats' = [chats EXCEPT ![s] = Plain("receiving")]
        /\ UNCHANGED <<ctxs, callbacks, registered, shown, foreign, lost>>
    BY <1>0 DEF Resolves, Goes
  <1>2. /\ chats' \in Chats
        /\ \A r \in Sockets : chats'[r] = IF r = s THEN Plain("receiving") ELSE chats[r]
    BY <1>1 DEF ServerInv, ServerType, Chats, Plain
  <1>3. /\ SessionOf[s] \in SessionIds
        /\ call \in ctxs[SessionOf[s]].answered \cup foreign
    BY <1>0, <1>1, ServerAssumption DEF ServerInv, AnswerInv
  <1>4. DrainInv' /\ ~LoopFree' /\ draining'.sid \in SessionIds /\ draining'.calls \in SUBSET CallIds
    BY <1>1, <1>3, BeginsDrain
  <1>5. Waiting' = Waiting /\ Offered' = Offered
    BY <1>1 DEF Waiting, Offered
  <1>6. ServerType' /\ AnswerInv' /\ OwnCards'
    BY <1>1, <1>2, <1>4 DEF ServerInv, ServerType, AnswerInv, OwnCards, Plain
  <1>7. OncePublished'
    BY <1>1, <1>5 DEF ServerInv, OncePublished
  <1>8. OpenCardsReoffered'
    <2>1. \A r \in SessionIds : call \in ctxs[r].open => call \in foreign
      BY <1>3 DEF ServerInv, OwnCards
    <2>2. QED
      BY <1>1, <2>1 DEF ServerInv, OpenCardsReoffered, OnTheWay
  <1>9. AnsweredNotReoffered'
    <2>1. \A c : c # call /\ ComesBack(c) => ComesBack(c)'
      BY <1>0, <1>2 DEF ComesBack
    <2>2. \A r \in SessionIds : OnTheWay(r)' = OnTheWay(r)
      BY <1>1 DEF OnTheWay
    <2>3. ASSUME NEW r \in SessionIds, NEW c \in CallIds, c \in ctxs'[r].answered
          PROVE  c \notin OnTheWay(r)' /\ (c \in unanswered' => ComesBack(c)')
      BY <1>1, <2>1, <2>2, <2>3, AnsweredHalves DEF ServerInv
    <2>4. QED
      BY <2>3, Zenon DEF AnsweredNotReoffered, ComesBack
  <1>10. QED
    BY <1>4, <1>6, <1>7, <1>8, <1>9 DEF ServerInv

LEMMA ServerInvStep == ServerInv /\ [ServerNext]_serverVars => ServerInv'
  <1> SUFFICES ASSUME ServerInv, [ServerNext]_serverVars
               PROVE  ServerInv'
    OBVIOUS
  <1>1. CASE OutboxCleared
    BY <1>1, OutboxClearedStep
  <1>2. CASE LoopPublishes
    BY <1>2, LoopPublishesStep
  <1>3. ASSUME NEW sid \in SessionIds, OthersDrainCards(sid)
        PROVE  ServerInv'
    BY <1>3, OthersDrainCardsStep
  <1>4. ASSUME NEW sid \in SessionIds, NEW call \in CallIds, Offers(sid, call)
        PROVE  ServerInv'
    BY <1>4, OffersStep
  <1>5. ASSUME NEW s \in Sockets, Opens(s) \/ Asks(s) \/ RunReturned(s) \/ Ends(s)
        PROVE  ServerInv'
    BY <1>5, HandlerSteps
  <1>6. ASSUME NEW s \in Sockets, NEW call \in CallIds, Replies(s, call)
        PROVE  ServerInv'
    BY <1>6, RepliesStep
  <1>7. ASSUME NEW s \in Sockets, Resumed(s)
        PROVE  ServerInv'
    BY <1>7, ResumedStep
  <1>8. ASSUME NEW s \in Sockets, Resolves(s)
        PROVE  ServerInv'
    BY <1>8, ResolvesStep
  <1>9. CASE UNCHANGED serverVars
    <2>1. ServerType' /\ AnswerInv' /\ DrainInv'
      BY <1>9 DEF serverVars, ServerInv, ServerType, AnswerInv, DrainInv, LoopFree
    <2>2. \A call : ComesBack(call) => ComesBack(call)'
      BY <1>9 DEF serverVars, ComesBack
    <2>3. QED
      BY <1>9, <2>1, <2>2, QuietServerStep DEF serverVars
  <1>10. QED
    BY <1>1, <1>2, <1>3, <1>4, <1>5, <1>6, <1>7, <1>8, <1>9 DEF ServerNext

(* For every set of sessions, connections and cards: an open card is       *)
(* remembered by the bus or on its way to it, unless another session's     *)
(* client has answered it or it fell between the two steps of a drain      *)
(* (main.py:93-104, :322-329).                                             *)
THEOREM OpenCardsAlwaysReoffered == ServerSpec => []OpenCardsReoffered
  <1>1. ServerInv => OpenCardsReoffered
    BY DEF ServerInv
  <1>2. QED
    BY ServerInvInit, ServerInvStep, <1>1, PTL DEF ServerSpec

(* For every set of sessions, connections and cards: the bus remembers an  *)
(* answered card only until the handler of an answer is back on the loop,  *)
(* and no drain publishes it again (main.py:324-329).                      *)
THEOREM AnsweredCardsNeverReoffered == ServerSpec => []AnsweredNotReoffered
  <1>1. ServerInv => AnsweredNotReoffered
    BY DEF ServerInv
  <1>2. QED
    BY ServerInvInit, ServerInvStep, <1>1, PTL DEF ServerSpec

-----------------------------------------------------------------------------
(* SmeEnvironments                                                         *)

Callers == Summoners \cup Warmers

Places ==
    [pc: {"idle", "locking", "creating", "tools", "computing", "hung", "concluding"},
     slot: Slots \cup {"none"}]

Turns == [path: {"none", "gather", "flash"}, rounds: Nat, env: Nat]

SmeType ==
    /\ envs \in [Slots -> Nat]
    /\ holder \in [{"_sandbox_lock", "_sme_env_lock"} -> Callers \cup {Nobody}]
    /\ created \in Seq(Slots)
    /\ at \in [Callers -> Places]
    /\ turn \in [Summoners -> Turns]

\* The cache knows what was created, and for what: this is why an
\* environment is never created twice.
CacheInv ==
    /\ \A i \in DOMAIN created : envs[created[i]] = i
    /\ \A slot \in Slots :
          envs[slot] # 0 => envs[slot] \in DOMAIN created /\ created[envs[slot]] = slot
    /\ \A t \in Summoners :
          turn[t].env # 0 => turn[t].env \in DOMAIN created /\ created[turn[t].env] = SmeOf[t]

\* A place of caller c that claims nothing of the cache: a summon wants the
\* environment of its own SME or the sandbox.
Unclaimed(c, place) ==
    /\ place \in Places /\ place.pc # "creating"
    /\ place.pc = "locking" =>
          place.slot \in Slots /\ (c \in Summoners => place.slot \in {SmeOf[c], "sandbox"})

\* Who is creating holds the lock of a slot for which there is nothing yet.
LockInv ==
    \A c \in Callers :
        \/ Unclaimed(c, at[c])
        \/ /\ at[c].pc = "creating" /\ at[c].slot \in Slots
           /\ c \in Summoners => at[c].slot \in {SmeOf[c], "sandbox"}
           /\ holder[LockOf(at[c].slot)] = c
           /\ envs[at[c].slot] = 0

SmeInv == SmeType /\ CacheInv /\ LockInv

LEMMA SmeInvInit == SmeInit => SmeInv
  <1> SUFFICES ASSUME SmeInit PROVE SmeInv
    OBVIOUS
  <1>1. SmeType
    BY SMT DEF SmeInit, SmeType, Callers, Places, Turns, Idle, NoTurn
  <1>2. CacheInv
    BY DEF SmeInit, CacheInv, NoTurn
  <1>3. LockInv
    BY <1>1 DEF SmeInit, LockInv, Unclaimed, Idle, SmeType, Callers
  <1>4. QED
    BY <1>1, <1>2, <1>3 DEF SmeInv

(* A step that creates nothing and takes no lock: callers may move, and a  *)
(* summon may go on with the environment that the cache has for its SME.   *)
LEMMA QuietSmeStep ==
    ASSUME SmeInv, UNCHANGED <<envs, holder, created>>,
           at' \in [Callers -> Places], turn' \in [Summoners -> Turns],
           \A c \in Callers : at'[c] = at[c] \/ Unclaimed(c, at'[c]),
           \A t \in Summoners : turn'[t].env \in {0, turn[t].env, envs[SmeOf[t]]}
    PROVE  SmeInv'
  <1>1. SmeType'
    BY DEF SmeInv, SmeType
  <1>2. CacheInv'
    <2>1. \A t \in Summoners : SmeOf[t] \in Slots
      BY SmeAssumption DEF Slots
    <2>2. ASSUME NEW t \in Summoners, turn'[t].env # 0
          PROVE  turn'[t].env \in DOMAIN created /\ created[turn'[t].env] = SmeOf[t]
      BY <2>1, <2>2 DEF SmeInv, CacheInv
    <2>3. QED
      BY <2>2 DEF SmeInv, CacheInv
  <1>3. LockInv'
    <2>1. ASSUME NEW c \in Callers
          PROVE  \/ Unclaimed(c, at'[c])
                 \/ /\ at'[c].pc = "creating" /\ at'[c].slot \in Slots
                    /\ c \in Summoners => at'[c].slot \in {SmeOf[c], "sandbox"}
                    /\ holder'[LockOf(at'[c].slot)] = c
                    /\ envs'[at'[c].slot] = 0
      BY DEF SmeInv, LockInv
    <2>2. QED
      BY <2>1 DEF LockInv, Unclaimed
  <1>4. QED
    BY <1>1, <1>2, <1>3 DEF SmeInv

\* What the caller does with the environment, in the two ways it goes on.
LEMMA GoesOnEffect ==
    ASSUME SmeInv, NEW c \in Callers, NEW slot \in Slots, NEW env \in Nat,
           c \in Summoners => slot \in {SmeOf[c], "sandbox"},
           GoesOn(c, slot, env)
    PROVE  /\ at' \in [Callers -> Places] /\ turn' \in [Summoners -> Turns]
           /\ \A d \in Callers : d # c => at'[d] = at[d]
           /\ Unclaimed(c, at'[c])
           /\ \A t \in Summoners :
                 turn'[t].env = turn[t].env \/ (t = c /\ turn'[t].env = env /\ slot = SmeOf[t])
  <1>1. at \in [Callers -> Places] /\ turn \in [Summoners -> Turns]
    BY DEF SmeInv, SmeType
  <1>2. CASE c \in Warmers
    <2>1. at' = [at EXCEPT ![c] = Idle] /\ turn' = turn
      BY <1>2, SmeAssumption DEF GoesOn, Warmers
    <2>2. QED
      BY <1>1, <2>1 DEF Places, Idle, Unclaimed
  <1>3. CASE c \notin Warmers /\ slot = "sandbox"
    <2>1. c \in Summoners
      BY <1>3 DEF Callers
    <2>2. Go(c, IF env = 0 THEN "tools" ELSE "computing") /\ turn' = turn
      BY <1>3, <2>1 DEF GoesOn
    <2>3. QED
      BY <1>1, <2>2 DEF Places, Unclaimed, Go
  <1>4. CASE c \notin Warmers /\ slot # "sandbox"
    <2>1. c \in Summoners /\ slot = SmeOf[c]
      BY <1>4 DEF Callers
    <2>2. /\ Go(c, "tools")
          /\ turn' = [turn EXCEPT ![c] =
                [path |-> IF env = 0 THEN "flash" ELSE "gather", rounds |-> 0, env |-> env]]
      BY <1>4, <2>1 DEF GoesOn
    <2>3. /\ at' \in [Callers -> Places] /\ Unclaimed(c, at'[c])
          /\ \A d \in Callers : d # c => at'[d] = at[d]
      BY <1>1, <2>2 DEF Places, Unclaimed, Go
    <2>4. /\ turn' \in [Summoners -> Turns]
          /\ \A t \in Summoners : turn'[t].env = IF t = c THEN env ELSE turn[t].env
      BY <1>1, <2>1, <2>2 DEF Turns
    <2>5. QED
      BY <2>1, <2>3, <2>4
  <1>5. QED
    BY <1>2, <1>3, <1>4

\* The look outside the lock.
LEMMA WantStep ==
    ASSUME SmeInv, NEW c \in Callers, NEW slot \in Slots,
           c \in Summoners => slot \in {SmeOf[c], "sandbox"},
           Want(c, slot), UNCHANGED <<envs, holder, created>>
    PROVE  SmeInv'
  <1>1. at \in [Callers -> Places] /\ turn \in [Summoners -> Turns] /\ envs[slot] \in Nat
    BY DEF SmeInv, SmeType
  <1>2. CASE envs[slot] # 0
    <2>1. GoesOn(c, slot, envs[slot])
      BY <1>2 DEF Want
    <2>2. QED
      BY <1>1, <2>1, GoesOnEffect, QuietSmeStep
  <1>3. CASE envs[slot] = 0
    <2>1. at' = [at EXCEPT ![c] = [pc |-> "locking", slot |-> slot]] /\ turn' = turn
      BY <1>3 DEF Want
    <2>2. /\ at' \in [Callers -> Places] /\ Unclaimed(c, at'[c])
          /\ \A d \in Callers : d # c => at'[d] = at[d]
      BY <1>1, <2>1 DEF Places, Unclaimed
    <2>3. QED
      BY <1>1, <2>1, <2>2, QuietSmeStep
  <1>4. QED
    BY <1>2, <1>3

LEMMA LockStep ==
    ASSUME SmeInv, NEW c \in Callers, Lock(c)
    PROVE  SmeInv'
  <1>1. PICK slot : slot = at[c].slot
    OBVIOUS
  <1>2. /\ at[c].pc = "locking" /\ holder[LockOf(slot)] = Nobody
        /\ UNCHANGED <<enabled, envs, created, reclaimed>>
    BY <1>1 DEF Lock
  <1>3. slot \in Slots /\ (c \in Summoners => slot \in {SmeOf[c], "sandbox"})
    BY <1>1, <1>2 DEF SmeInv, LockInv, Unclaimed
  <1>4. at \in [Callers -> Places] /\ turn \in [Summoners -> Turns] /\ envs[slot] \in Nat
    BY <1>3 DEF SmeInv, SmeType
  <1>5. CASE envs[slot] # 0
    <2>1. GoesOn(c, slot, envs[slot]) /\ holder' = holder
      BY <1>1, <1>5 DEF Lock, LookAgain
    <2>2. QED
      BY <1>2, <1>3, <1>4, <2>1, GoesOnEffect, QuietSmeStep
  <1>6. CASE envs[slot] = 0
    <2>1. /\ at' = [at EXCEPT ![c].pc = "creating"]
          /\ holder' = [holder EXCEPT ![LockOf(slot)] = c]
          /\ turn' = turn
      BY <1>1, <1>6 DEF Lock, LookAgain
    <2>2. /\ at' \in [Callers -> Places]
          /\ at'[c].pc = "creating" /\ at'[c].slot = slot
          /\ \A d \in Callers : d # c => at'[d] = at[d]
      BY <1>1, <1>4, <2>1 DEF Places
    <2>3. LockOf(slot) \in {"_sandbox_lock", "_sme_env_lock"}
      BY DEF LockOf
    <2>4. /\ holder' \in [{"_sandbox_lock", "_sme_env_lock"} -> Callers \cup {Nobody}]
          /\ holder'[LockOf(slot)] = c
          /\ \A lock \in {"_sandbox_lock", "_sme_env_lock"} :
                lock # LockOf(slot) => holder'[lock] = holder[lock]
      BY <2>1, <2>3 DEF SmeInv, SmeType
    <2>5. SmeType' /\ CacheInv'
      BY <1>2, <2>1, <2>2, <2>4 DEF SmeInv, SmeType, CacheInv
    <2>6. ASSUME NEW d \in Callers, d # c
          PROVE  \/ Unclaimed(d, at'[d])
                 \/ /\ at'[d].pc = "creating" /\ at'[d].slot \in Slots
                    /\ d \in Summoners => at'[d].slot \in {SmeOf[d], "sandbox"}
                    /\ holder'[LockOf(at'[d].slot)] = d
                    /\ envs'[at'[d].slot] = 0
      <3>1. CASE Unclaimed(d, at[d])
        BY <2>2, <2>6, <3>1
      <3>2. CASE ~Unclaimed(d, at[d])
        <4>1. /\ at[d].pc = "creating" /\ at[d].slot \in Slots
              /\ d \in Summoners => at[d].slot \in {SmeOf[d], "sandbox"}
              /\ holder[LockOf(at[d].slot)] = d
              /\ envs[at[d].slot] = 0
          BY <3>2 DEF SmeInv, LockInv
        \* Nobody else holds the lock that was free.
        <4>2. d # Nobody
          BY SmeAssumption DEF Callers, Warmers, Nobody
        <4>3. /\ LockOf(at[d].slot) \in {"_sandbox_lock", "_sme_env_lock"}
              /\ LockOf(at[d].slot) # LockOf(slot)
          BY <1>2, <4>1, <4>2 DEF LockOf
        <4>4. QED
          BY <1>2, <2>2, <2>4, <2>6, <4>1, <4>3
      <3>3. QED
        BY <3>1, <3>2
    <2>7. LockInv'
      BY <1>2, <1>3, <1>6, <2>2, <2>4, <2>6 DEF LockInv, Unclaimed
    <2>8. QED
      BY <2>5, <2>7 DEF SmeInv
  <1>7. QED
    BY <1>4, <1>5, <1>6

LEMMA CreatesStep ==
    ASSUME SmeInv, NEW c \in Callers, Creates(c)
    PROVE  SmeInv'
  <1>1. PICK slot : slot = at[c].slot
    OBVIOUS
  <1>2. at[c].pc = "creating" /\ holder' = [holder EXCEPT ![LockOf(slot)] = Nobody]
    BY <1>1 DEF Creates
  <1>3. /\ slot \in Slots /\ (c \in Summoners => slot \in {SmeOf[c], "sandbox"})
        /\ holder[LockOf(slot)] = c /\ envs[slot] = 0
    BY <1>1, <1>2 DEF SmeInv, LockInv, Unclaimed
  <1>4. LockOf(slot) \in {"_sandbox_lock", "_sme_env_lock"}
    BY DEF LockOf
  <1>5. /\ holder' \in [{"_sandbox_lock", "_sme_env_lock"} -> Callers \cup {Nobody}]
        /\ \A lock \in {"_sandbox_lock", "_sme_env_lock"} :
              lock # LockOf(slot) => holder'[lock] = holder[lock]
    BY <1>2, <1>4 DEF SmeInv, SmeType
  \* Another who is creating holds the other lock, and wants another slot.
  <1>6. ASSUME NEW d \in Callers, d # c, ~Unclaimed(d, at[d])
        PROVE  /\ at[d].pc = "creating" /\ at[d].slot \in Slots /\ at[d].slot # slot
               /\ d \in Summoners => at[d].slot \in {SmeOf[d], "sandbox"}
               /\ holder'[LockOf(at[d].slot)] = d
               /\ envs[at[d].slot] = 0
    <2>1. /\ at[d].pc = "creating" /\ at[d].slot \in Slots
          /\ d \in Summoners => at[d].slot \in {SmeOf[d], "sandbox"}
          /\ holder[LockOf(at[d].slot)] = d
          /\ envs[at[d].slot] = 0
      BY <1>6 DEF SmeInv, LockInv
    <2>2. LockOf(at[d].slot) \in {"_sandbox_lock", "_sme_env_lock"}
      BY DEF LockOf
    <2>3. at[d].slot # slot /\ LockOf(at[d].slot) # LockOf(slot)
      BY <1>3, <1>6, <2>1
    <2>4. QED
      BY <1>5, <2>1, <2>2, <2>3
  <1>7. PICK env \in Nat :
          /\ GoesOn(c, slot, env)
          /\ \/ env = Len(created) + 1 /\ created' = Append(created, slot)
                  /\ envs' = [envs EXCEPT ![slot] = Len(created) + 1]
             \/ env = 0 /\ UNCHANGED <<created, envs>>
    <2>1. Len(created) + 1 \in Nat
      BY DEF SmeInv, SmeType
    <2>2. QED
      BY <1>1, <2>1 DEF Creates
  <1>8. /\ at' \in [Callers -> Places] /\ turn' \in [Summoners -> Turns]
        /\ \A d \in Callers : d # c => at'[d] = at[d]
        /\ Unclaimed(c, at'[c])
        /\ \A t \in Summoners :
              turn'[t].env = turn[t].env \/ (t = c /\ turn'[t].env = env /\ slot = SmeOf[t])
    BY <1>3, <1>7, GoesOnEffect
  <1>9. CASE env = 0 /\ UNCHANGED <<created, envs>>
    <2>1. SmeType' /\ CacheInv'
      BY <1>5, <1>8, <1>9 DEF SmeInv, SmeType, CacheInv
    <2>2. LockInv'
      BY <1>6, <1>8, <1>9 DEF LockInv, Unclaimed
    <2>3. QED
      BY <2>1, <2>2 DEF SmeInv
  <1>10. CASE /\ env = Len(created) + 1 /\ created' = Append(created, slot)
              /\ envs' = [envs EXCEPT ![slot] = Len(created) + 1]
    <2>1. created \in Seq(Slots) /\ envs \in [Slots -> Nat]
      BY DEF SmeInv, SmeType
    <2>2. /\ created' \in Seq(Slots)
          /\ DOMAIN created = 1..Len(created) /\ DOMAIN created' = 1..(Len(created) + 1)
          /\ created'[env] = slot /\ \A i \in DOMAIN created : created'[i] = created[i]
          /\ env \in Nat \ {0}
      BY <1>3, <1>10, <2>1
    <2>3. /\ envs' \in [Slots -> Nat]
          /\ \A s \in Slots : envs'[s] = IF s = slot THEN env ELSE envs[s]
      BY <1>3, <1>10, <2>1, <2>2
    <2>4. SmeType'
      BY <1>5, <1>8, <2>2, <2>3 DEF SmeInv, SmeType
    <2>5. \A i \in DOMAIN created : created[i] \in Slots /\ created[i] # slot
      BY <1>3, <2>1, <2>2 DEF SmeInv, CacheInv
    <2>6. CacheInv'
      <3>0. /\ \A i \in DOMAIN created : envs[created[i]] = i
            /\ \A s \in Slots :
                  envs[s] # 0 => envs[s] \in DOMAIN created /\ created[envs[s]] = s
            /\ \A t \in Summoners :
                  turn[t].env # 0 => /\ turn[t].env \in DOMAIN created
                                     /\ created[turn[t].env] = SmeOf[t]
        BY DEF SmeInv, CacheInv
      <3>a. /\ env \in DOMAIN created'
            /\ \A i \in DOMAIN created : i \in DOMAIN created'
            /\ \A i \in DOMAIN created' : i = env \/ i \in DOMAIN created
        BY <2>1, <2>2, <1>10
      <3>1. ASSUME NEW i \in DOMAIN created'
            PROVE  envs'[created'[i]] = i
        <4>1. CASE i = env
          BY <2>2, <2>3, <4>1, <1>3
        <4>2. CASE i \in DOMAIN created
          BY <2>2, <2>3, <2>5, <3>0, <4>2
        <4>3. QED
          BY <3>a, <4>1, <4>2
      <3>2. ASSUME NEW s \in Slots, envs'[s] # 0
            PROVE  envs'[s] \in DOMAIN created' /\ created'[envs'[s]] = s
        <4>1. CASE s = slot
          BY <2>2, <2>3, <3>a, <4>1
        <4>2. CASE s # slot
          <5>1. envs'[s] = envs[s] /\ envs[s] \in DOMAIN created /\ created[envs[s]] = s
            BY <2>3, <3>0, <3>2, <4>2
          <5>2. QED
            BY <2>2, <3>a, <5>1
        <4>3. QED
          BY <4>1, <4>2
      <3>3. ASSUME NEW t \in Summoners, turn'[t].env # 0
            PROVE  turn'[t].env \in DOMAIN created' /\ created'[turn'[t].env] = SmeOf[t]
        <4>1. CASE turn'[t].env = turn[t].env
          BY <2>2, <3>0, <3>a, <3>3, <4>1
        <4>2. CASE turn'[t].env = env /\ slot = SmeOf[t]
          BY <2>2, <3>a, <4>2
        <4>3. QED
          BY <1>8, <4>1, <4>2
      <3>4. QED
        BY <3>1, <3>2, <3>3 DEF CacheInv
    <2>7. LockInv'
      BY <1>6, <1>8, <2>3 DEF LockInv, Unclaimed
    <2>8. QED
      BY <2>4, <2>6, <2>7 DEF SmeInv
  <1>11. QED
    BY <1>7, <1>9, <1>10

(* The steps of one summon that neither look for an environment of its own *)
(* nor create one.                                                         *)
LEMMA SummonerSteps ==
    ASSUME SmeInv, NEW t \in Summoners, SummonStep(t) \/ Hangs(t)
    PROVE  SmeInv'
  <1>1. at \in [Callers -> Places] /\ turn \in [Summoners -> Turns] /\ t \in Callers
    BY DEF SmeInv, SmeType, Callers
  <1>2. PICK pc \in {"idle", "locking", "tools", "computing", "hung", "concluding"},
             slot \in {"none", "sandbox"}, new \in Turns :
          /\ pc = "locking" => slot = "sandbox"
          /\ at' = at \/ at' = [at EXCEPT ![t] = [pc |-> pc, slot |-> slot]]
          /\ turn' = turn \/ turn' = [turn EXCEPT ![t] = new]
          /\ new.env \in {0, turn[t].env}
          /\ UNCHANGED <<envs, holder, created>>
    <2>1. /\ turn[t] \in Turns /\ NoTurn \in Turns /\ NoTurn.env = 0
          /\ [turn[t] EXCEPT !.rounds = @ + 1] \in Turns
          /\ [turn[t] EXCEPT !.rounds = 0] \in Turns
          /\ [NoTurn EXCEPT !.path = "flash"] \in Turns
          /\ [turn[t] EXCEPT !.rounds = @ + 1].env = turn[t].env
          /\ [turn[t] EXCEPT !.rounds = 0].env = turn[t].env
          /\ [NoTurn EXCEPT !.path = "flash"].env = 0
      BY <1>1 DEF Turns, NoTurn
    <2>2. CASE Computes(t)
      BY <2>1, <2>2 DEF Computes, Go
    <2>3. CASE LooksUp(t)
      BY <2>1, <2>3 DEF LooksUp
    <2>4. CASE HeardEnough(t)
      BY <2>1, <2>4 DEF HeardEnough, Go
    <2>5. CASE Fails(t)
      BY <2>1, <2>5 DEF Fails, Answers, Idle, Go
    <2>6. CASE Concludes(t)
      BY <2>1, <2>6 DEF Concludes, Answers, Idle
    <2>7. CASE Computed(t)
      BY <2>1, <2>7 DEF Computed, Go
    <2>8. CASE TimesOut(t)
      BY <2>1, <2>8 DEF TimesOut, Go
    <2>9. CASE Hangs(t)
      BY <2>1, <2>9 DEF Hangs, Go
    <2>10. QED
      BY <2>2, <2>3, <2>4, <2>5, <2>6, <2>7, <2>8, <2>9 DEF SummonStep
  <1>3. /\ at' \in [Callers -> Places]
        /\ \A c \in Callers : at'[c] = at[c] \/ Unclaimed(c, at'[c])
    BY <1>1, <1>2 DEF Places, Slots, Unclaimed
  <1>4. /\ turn' \in [Summoners -> Turns]
        /\ \A u \in Summoners : turn'[u].env \in {0, turn[u].env}
    BY <1>1, <1>2
  <1>5. QED
    BY <1>2, <1>3, <1>4, QuietSmeStep

LEMMA SmeInvStep == SmeInv /\ [SmeNext]_smeVars => SmeInv'
  <1> SUFFICES ASSUME SmeInv, [SmeNext]_smeVars PROVE SmeInv'
    OBVIOUS
  <1>1. /\ at \in [Callers -> Places] /\ turn \in [Summoners -> Turns]
        /\ \A sme \in Smes : sme \in Slots
        /\ "sandbox" \in Slots /\ SmeOf \in [Summoners -> Smes]
    BY SmeAssumption DEF SmeInv, SmeType, Slots
  <1>2. CASE \E c \in Callers : Lock(c) \/ Creates(c)
    BY <1>2, LockStep, CreatesStep
  <1>3. ASSUME NEW t \in Summoners, Summon(t)
        PROVE  SmeInv'
    <2>1. t \in Callers /\ SmeOf[t] \in Slots /\ UNCHANGED <<envs, holder, created>>
      BY <1>1, <1>3 DEF Callers, Summon
    <2>2. CASE enabled
      BY <1>3, <2>1, <2>2, WantStep DEF Summon
    <2>3. CASE ~enabled
      <3>1. Go(t, "tools") /\ turn' = [turn EXCEPT ![t].path = "flash"]
        BY <1>3, <2>3 DEF Summon
      <3>2. /\ at' \in [Callers -> Places]
            /\ \A c \in Callers : at'[c] = at[c] \/ Unclaimed(c, at'[c])
        BY <1>1, <2>1, <3>1 DEF Go, Places, Unclaimed
      <3>3. /\ turn' \in [Summoners -> Turns]
            /\ \A u \in Summoners : turn'[u].env = turn[u].env
        BY <1>1, <3>1 DEF Turns
      <3>4. QED
        BY <2>1, <3>2, <3>3, QuietSmeStep
    <2>4. QED
      BY <2>2, <2>3
  <1>4. CASE \E t \in Summoners : SummonStep(t) \/ Hangs(t)
    BY <1>4, SummonerSteps
  <1>5. CASE \E sme \in Smes : Prewarm(sme)
    <2>1. "prewarm" \in Callers /\ "prewarm" \notin Summoners
      BY SmeAssumption DEF Callers, Warmers
    <2>2. QED
      BY <1>1, <1>5, <2>1, WantStep DEF Prewarm
  <1>6. CASE KeepWarm
    <2>1. "keepwarm" \in Callers /\ "keepwarm" \notin Summoners
      BY SmeAssumption DEF Callers, Warmers
    <2>2. QED
      BY <1>1, <1>6, <2>1, WantStep DEF KeepWarm
  <1>7. CASE (\E env \in DOMAIN created : Reclaimed(env)) \/ UNCHANGED smeVars
    <2>1. UNCHANGED <<envs, holder, created, at, turn>>
      BY <1>7 DEF Reclaimed, smeVars
    <2>2. QED
      BY <1>1, <2>1, QuietSmeStep
  <1>8. QED
    BY <1>2, <1>3, <1>4, <1>5, <1>6, <1>7 DEF SmeNext, Callers

(* However many threads summon, and however prewarm and keepwarm race      *)
(* them, one environment at most is ever created for an SME and one for    *)
(* the sandbox, and a summon reasons in its own SME's                      *)
(* (genai_seams.py:234-239, :992-1035).                                    *)
THEOREM OneEnvForEach == SmeSpec => []OneEnvEach
  <1>1. SmeInv => OneEnvEach
    BY DEF SmeInv, CacheInv, OneEnvEach
  <1>2. QED
    BY SmeInvInit, SmeInvStep, <1>1, PTL DEF SmeSpec

-----------------------------------------------------------------------------
(* LiveBridge                                                              *)

Frames == DOMAIN sent

Runs == [status: {"running", "done", "raised", "drained"}, left: BOOLEAN]

LiveType ==
    /\ sent \in Seq(MediaKinds) /\ tasks \subseteq Frames
    /\ took \in Seq([frame: Nat, slot: MediaKinds])
    /\ heard \in Nat /\ routed \in Seq(Nat)
    /\ pending \in [pieces: Nat, words: Seq(Nat)]
    /\ runs \in Seq(Runs)

\* A frame that the session took is on its way no more.
MediaInv ==
    /\ \A i \in DOMAIN took :
          /\ took[i].frame \in Frames \ tasks
          /\ took[i].slot = sent[took[i].frame]
    /\ \A i, j \in DOMAIN took : took[i].frame = took[j].frame => i = j

\* Whoever leaves the receive loop cancels it, and a run that has left
\* something or still may is the last, with its hook waiting for it.
RunsInv ==
    /\ Active => handler = "loop"
    /\ InGraph => runs # <<>>
    /\ \A r \in DOMAIN runs :
          runs[r].status \in {"running", "done"} /\ ~runs[r].left =>
              InGraph /\ r = Len(runs)

LiveInv == LiveType /\ MediaInv /\ RunsInv /\ TranscriptsRoutedOnce

LEMMA LiveInvInit == LiveInit => LiveInv
  <1> SUFFICES ASSUME LiveInit PROVE LiveInv
    OBVIOUS
  <1>1. LiveType /\ MediaInv /\ RunsInv
    BY DEF LiveInit, LiveType, MediaInv, RunsInv, Frames, NoPieces, Active, InGraph
  <1>2. TranscriptsRoutedOnce
    BY DEF LiveInit, TranscriptsRoutedOnce, NoPieces
  <1>3. QED
    BY <1>1, <1>2 DEF LiveInv

\* What the media of a connection, and what Live says on it, have to do with
\* nothing else.
LEMMA MediaStep ==
    ASSUME LiveInv,
           \/ UNCHANGED media
           \/ sent' = <<>> /\ tasks' = {} /\ took' = <<>>
           \/ \E kind \in MediaKinds : ClientFrame(kind)
           \/ \E frame \in tasks : Sends(frame)
    PROVE  /\ sent' \in Seq(MediaKinds) /\ tasks' \subseteq Frames'
           /\ took' \in Seq([frame: Nat, slot: MediaKinds])
           /\ MediaInv'
  <1>1. /\ sent \in Seq(MediaKinds) /\ tasks \subseteq Frames
        /\ took \in Seq([frame: Nat, slot: MediaKinds])
        /\ \A i \in DOMAIN took :
              took[i].frame \in Frames \ tasks /\ took[i].slot = sent[took[i].frame]
        /\ \A i, j \in DOMAIN took : took[i].frame = took[j].frame => i = j
    BY DEF LiveInv, LiveType, MediaInv
  <1>2. CASE UNCHANGED media
    BY <1>1, <1>2 DEF media, MediaInv, Frames
  <1>3. CASE sent' = <<>> /\ tasks' = {} /\ took' = <<>>
    BY <1>3 DEF MediaInv, Frames
  <1>4. ASSUME NEW kind \in MediaKinds, ClientFrame(kind)
        PROVE  /\ sent' \in Seq(MediaKinds) /\ tasks' \subseteq Frames'
               /\ took' \in Seq([frame: Nat, slot: MediaKinds])
               /\ MediaInv'
    <2>1. sent' = Append(sent, kind) /\ tasks' = tasks \cup {Len(sent')} /\ took' = took
      BY <1>4 DEF ClientFrame
    <2>2. /\ sent' \in Seq(MediaKinds) /\ Len(sent') = Len(sent) + 1
          /\ DOMAIN sent = 1..Len(sent) /\ DOMAIN sent' = 1..(Len(sent) + 1)
          /\ \A i \in DOMAIN sent : sent'[i] = sent[i]
          /\ Len(sent') \notin DOMAIN sent
      BY <1>1, <2>1
    <2>3. tasks' \subseteq Frames'
      BY <1>1, <2>1, <2>2 DEF Frames
    <2>4. ASSUME NEW i \in DOMAIN took
          PROVE  /\ took[i].frame \in DOMAIN sent' /\ took[i].frame \notin tasks'
                 /\ took[i].slot = sent'[took[i].frame]
      BY <1>1, <2>1, <2>2 DEF Frames
    <2>5. QED
      BY <1>1, <2>1, <2>2, <2>3, <2>4 DEF MediaInv, Frames
  <1>5. ASSUME NEW frame \in tasks, Sends(frame)
        PROVE  /\ sent' \in Seq(MediaKinds) /\ tasks' \subseteq Frames'
               /\ took' \in Seq([frame: Nat, slot: MediaKinds])
               /\ MediaInv'
    <2>1. /\ sent' = sent /\ tasks' = tasks \ {frame}
          /\ \/ took' = took
             \/ took' = Append(took, [frame |-> frame, slot |-> send_media(sent[frame])])
      BY <1>5 DEF Sends
    <2>2. frame \in Nat /\ sent[frame] \in MediaKinds /\ send_media(sent[frame]) = sent[frame]
      BY <1>1 DEF Frames, MediaKinds, send_media
    <2>3. CASE took' = took
      BY <1>1, <2>1, <2>3 DEF MediaInv, Frames
    <2>4. CASE took' = Append(took, [frame |-> frame, slot |-> send_media(sent[frame])])
      <3>1. /\ took' \in Seq([frame: Nat, slot: MediaKinds])
            /\ DOMAIN took = 1..Len(took) /\ DOMAIN took' = 1..(Len(took) + 1)
            /\ Len(took) \in Nat
            /\ \A i \in DOMAIN took : took'[i] = took[i]
            /\ took'[Len(took) + 1] = [frame |-> frame, slot |-> sent[frame]]
        BY <1>1, <2>2, <2>4
      <3>2. \A i \in DOMAIN took : took[i].frame # frame
        BY <1>1
      <3>3. ASSUME NEW i \in DOMAIN took'
            PROVE  /\ took'[i].frame \in Frames \ tasks'
                   /\ took'[i].slot = sent[took'[i].frame]
        BY <1>1, <2>1, <3>1
      <3>4. ASSUME NEW i \in DOMAIN took', NEW j \in DOMAIN took',
                   took'[i].frame = took'[j].frame
            PROVE  i = j
        <4>1. CASE i \in DOMAIN took /\ j \in DOMAIN took
          BY <1>1, <3>1, <3>4, <4>1
        <4>2. CASE i = Len(took) + 1 /\ j \in DOMAIN took
          BY <3>1, <3>2, <3>4, <4>2
        <4>3. CASE i \in DOMAIN took /\ j = Len(took) + 1
          BY <3>1, <3>2, <3>4, <4>3
        <4>4. QED
          BY <3>1, <4>1, <4>2, <4>3
      <3>5. QED
        BY <1>1, <2>1, <3>1, <3>3, <3>4 DEF MediaInv, Frames
    <2>5. QED
      BY <2>1, <2>3, <2>4
  <1>6. QED
    BY <1>2, <1>3, <1>4, <1>5

\* What Live says.
LEMMA TalkStep ==
    ASSUME LiveInv,
           \/ UNCHANGED talk
           \/ heard' = 0 /\ pending' = NoPieces /\ routed' = <<>>
           \/ \E blank, final \in BOOLEAN : Piece(blank, final)
           \/ TurnComplete
    PROVE  /\ heard' \in Nat /\ routed' \in Seq(Nat)
           /\ pending' \in [pieces: Nat, words: Seq(Nat)]
           /\ TranscriptsRoutedOnce'
  <1>1. /\ heard \in Nat /\ routed \in Seq(Nat) /\ pending \in [pieces: Nat, words: Seq(Nat)]
        /\ routed \o pending.words = [i \in 1..heard |-> i]
    BY DEF LiveInv, LiveType, TranscriptsRoutedOnce
  <1>2. CASE UNCHANGED talk
    BY <1>1, <1>2 DEF talk, TranscriptsRoutedOnce
  <1>3. CASE heard' = 0 /\ pending' = NoPieces /\ routed' = <<>>
    BY <1>3 DEF NoPieces, TranscriptsRoutedOnce
  \* Routed at once or kept, the same words follow what was routed before.
  <1>4. ASSUME NEW all \in [pieces: Nat, words: Seq(Nat)], heard' \in Nat,
               routed \o all.words = [i \in 1..heard' |-> i],
               HandleFinal(all) \/ (pending' = all /\ routed' = routed)
        PROVE  /\ routed' \in Seq(Nat) /\ pending' \in [pieces: Nat, words: Seq(Nat)]
               /\ TranscriptsRoutedOnce'
    <2>1. CASE HandleFinal(all)
      <3>1. pending' = NoPieces /\ routed' = routed \o all.words
        BY <1>1, <2>1 DEF HandleFinal, Cleared
      <3>2. routed' \o <<>> = routed'
        BY <1>1, <1>4, <3>1
      <3>3. QED
        BY <1>1, <1>4, <3>1, <3>2 DEF NoPieces, TranscriptsRoutedOnce
    <2>2. CASE pending' = all /\ routed' = routed
      BY <1>1, <1>4, <2>2 DEF TranscriptsRoutedOnce
    <2>3. QED
      BY <1>4, <2>1, <2>2
  <1>5. ASSUME NEW blank \in BOOLEAN, NEW final \in BOOLEAN, Piece(blank, final)
        PROVE  /\ heard' \in Nat /\ routed' \in Seq(Nat)
               /\ pending' \in [pieces: Nat, words: Seq(Nat)]
               /\ TranscriptsRoutedOnce'
    <2>1. PICK all : all =
            [pieces |-> pending.pieces + 1,
             words |-> IF blank THEN pending.words ELSE Append(pending.words, heard + 1)]
      OBVIOUS
    <2>2. /\ heard' = IF blank THEN heard ELSE heard + 1
          /\ HandleFinal(all) \/ (pending' = all /\ routed' = routed)
      BY <1>5, <2>1 DEF Piece
    <2>3. all \in [pieces: Nat, words: Seq(Nat)] /\ heard' \in Nat
      BY <1>1, <2>1, <2>2
    <2>4. routed \o all.words = [i \in 1..heard' |-> i]
      <3>1. CASE blank
        BY <1>1, <2>1, <2>2, <3>1
      <3>2. CASE ~blank
        <4>1. all.words = Append(pending.words, heard + 1) /\ heard' = heard + 1
          BY <2>1, <2>2, <3>2
        <4>2. routed \o Append(pending.words, heard + 1)
                = Append(routed \o pending.words, heard + 1)
          <5>1. pending.words \in Seq(Nat) /\ heard + 1 \in Nat
            BY <1>1
          <5>2. routed \in Seq(Nat)
            BY <1>1
          <5>3. QED
            BY ONLY <5>1, <5>2, AppendLast, SMTT(20)
        <4>3. Append([i \in 1..heard |-> i], heard + 1) = [i \in 1..(heard + 1) |-> i]
          <5>1. heard \in Nat
            BY <1>1
          <5>2. QED
            BY ONLY <5>1
        <4>4. QED
          BY <1>1, <4>1, <4>2, <4>3
      <3>3. QED
        BY <3>1, <3>2
    <2>5. QED
      BY <1>4, <2>2, <2>3, <2>4
  <1>6. CASE TurnComplete
    <2>1. HandleFinal(pending) /\ heard' = heard
      BY <1>6 DEF TurnComplete
    <2>2. QED
      BY <1>1, <1>4, <2>1
  <1>7. QED
    BY <1>2, <1>3, <1>5, <1>6

LEMMA RunFields ==
    ASSUME NEW run \in Runs, NEW status \in {"done", "raised"}
    PROVE  /\ [run EXCEPT !.status = status] \in Runs
           /\ [run EXCEPT !.status = status].left = run.left
           /\ [run EXCEPT !.left = TRUE] \in Runs
           /\ [run EXCEPT !.left = TRUE].left
  BY DEF Runs

LEMMA RunChanged ==
    ASSUME NEW all \in Seq(Runs), NEW r \in DOMAIN all, NEW run \in Runs,
           NEW new, new = [all EXCEPT ![r] = run]
    PROVE  /\ new \in Seq(Runs) /\ DOMAIN new = DOMAIN all /\ Len(new) = Len(all)
           /\ new # <<>> /\ new[r] = run
           /\ \A q \in DOMAIN all : q # r => new[q] = all[q]
  OBVIOUS

\* What the receive loop, its threads and the handler do to the runs.
LEMMA RunsStep ==
    ASSUME LiveInv, [LiveNext]_liveVars
    PROVE  runs' \in Seq(Runs) /\ RunsInv'
  <1>1. /\ runs \in Seq(Runs)
        /\ Active => handler = "loop"
        /\ InGraph => runs # <<>>
        /\ \A r \in DOMAIN runs :
              runs[r].status \in {"running", "done"} /\ ~runs[r].left =>
                  InGraph /\ r = Len(runs)
    BY DEF LiveInv, LiveType, RunsInv
  <1>2. ASSUME runs' = runs, recv' = recv, handler' = handler
        PROVE  runs' \in Seq(Runs) /\ RunsInv'
    BY <1>1, <1>2 DEF RunsInv, Active, InGraph
  <1>3. ASSUME recv = "receiving", handler' = handler, recv' \in {"transcript", "guild"}, StartRun
        PROVE  runs' \in Seq(Runs) /\ RunsInv'
    <2>1. runs' = Append(runs, [status |-> "running", left |-> FALSE])
      BY <1>3 DEF StartRun
    <2>2. /\ runs' \in Seq(Runs) /\ runs' # <<>> /\ Len(runs') = Len(runs) + 1
          /\ \A r \in DOMAIN runs' : r \in DOMAIN runs \/ r = Len(runs')
          /\ \A r \in DOMAIN runs : runs'[r] = runs[r]
      <3>1. PICK run \in Runs : run = [status |-> "running", left |-> FALSE]
        BY DEF Runs
      <3>2. QED
        BY <1>1, <2>1, <3>1
    <2>3. QED
      BY <1>1, <1>3, <2>2 DEF RunsInv, Active, InGraph
  <1>4. ASSUME recv = "receiving", handler' = handler, runs' = runs,
               recv' \in {"receiving", "schematic", "ended"}
        PROVE  runs' \in Seq(Runs) /\ RunsInv'
    BY <1>1, <1>4 DEF RunsInv, Active, InGraph
  \* Draining ends what is done.
  <1>5. ASSUME runs' = Drained(runs)
        PROVE  /\ runs' \in Seq(Runs) /\ DOMAIN runs' = DOMAIN runs /\ Len(runs') = Len(runs)
               /\ \A r \in DOMAIN runs :
                     /\ runs'[r].left = runs[r].left
                     /\ runs'[r].status = IF runs[r].status = "running" THEN "running" ELSE "drained"
    <2>1. ASSUME NEW r \in DOMAIN runs
          PROVE  /\ runs'[r] \in Runs
                 /\ runs'[r].left = runs[r].left
                 /\ runs'[r].status = IF runs[r].status = "running" THEN "running" ELSE "drained"
      <3>1. PICK run \in Runs : run = runs[r]
        BY <1>1
      <3>2. runs'[r] = IF run.status = "running" THEN run ELSE [run EXCEPT !.status = "drained"]
        BY <1>5, <3>1 DEF Drained
      <3>3. /\ [run EXCEPT !.status = "drained"] \in Runs
            /\ [run EXCEPT !.status = "drained"].left = run.left
            /\ [run EXCEPT !.status = "drained"].status = "drained"
        BY DEF Runs
      <3>4. QED
        BY <3>1, <3>2, <3>3
    <2>2. /\ DOMAIN runs' = DOMAIN runs /\ DOMAIN runs = 1..Len(runs) /\ Len(runs) \in Nat
          /\ runs' = [r \in 1..Len(runs) |-> runs'[r]]
      BY <1>1, <1>5 DEF Drained
    <2>3. runs' \in Seq(Runs) /\ Len(runs') = Len(runs)
      <3>1. \A i \in 1..Len(runs) : runs'[i] \in Runs
        BY <2>1, <2>2
      <3>2. PICK f \in [1..Len(runs) -> Runs] : runs' = f
        BY <2>2, <3>1
      <3>3. QED
        BY <2>2, <3>2
    <2>4. QED
      BY <2>1, <2>2, <2>3
  <1>6. CASE HandlerStep \/ Connect \/ ClientLeaves
    <2>1. CASE Refuse \/ Accept \/ Connected \/ ConnectFails \/ Close \/ LeaveStub \/ Connect \/ ClientLeaves
      <3>1. /\ runs' = runs
            /\ recv' \in {recv, "receiving", "none"}
            /\ ~InGraph \/ (recv' = recv /\ handler' = handler)
        BY <1>1, <2>1 DEF Refuse, Accept, Connected, ConnectFails, Close, LeaveStub, Connect,
              ClientLeaves, Active, InGraph
      <3>2. Active' => handler' = "loop"
        BY <1>1, <2>1 DEF Refuse, Accept, Connected, ConnectFails, Close, LeaveStub, Connect,
              ClientLeaves, Active
      <3>3. QED
        BY <1>1, <3>1, <3>2 DEF RunsInv, InGraph
    <2>2. CASE Leave
      <3>1. /\ handler' = "closing" /\ recv' = IF Active THEN "cancelled" ELSE recv
            /\ runs' = IF InGraph THEN [runs EXCEPT ![Len(runs)].left = TRUE] ELSE runs
        BY <2>2 DEF Leave
      <3>2. ~Active' /\ ~InGraph'
        BY <3>1 DEF Active, InGraph
      <3>3. CASE InGraph
        <4>1. Len(runs) \in DOMAIN runs
          BY <1>1, <3>3
        <4>2. /\ runs' \in Seq(Runs) /\ DOMAIN runs' = DOMAIN runs
              /\ runs'[Len(runs)].left
              /\ \A r \in DOMAIN runs : r # Len(runs) => runs'[r] = runs[r]
          <5>1. PICK old \in Runs : old = runs[Len(runs)]
            BY <1>1, <4>1
          <5>2. PICK run \in Runs : run = [old EXCEPT !.left = TRUE] /\ run.left
            BY RunFields, Zenon
          <5>3. runs \in Seq(Runs) /\ runs' = [runs EXCEPT ![Len(runs)] = run]
            BY <1>1, <3>1, <3>3, <5>1, <5>2
          <5>4. QED
            BY <4>1, <5>2, <5>3, RunChanged
        <4>3. QED
          BY <1>1, <3>2, <4>2 DEF RunsInv
      <3>4. CASE ~InGraph
        BY <1>1, <3>1, <3>2, <3>4 DEF RunsInv
      <3>5. QED
        BY <3>3, <3>4
    <2>3. QED
      BY <1>6, <2>1, <2>2 DEF HandlerStep
  <1>7. CASE \/ \E kind \in MediaKinds : ClientFrame(kind)
             \/ \E frame \in tasks : Sends(frame)
             \/ UNCHANGED liveVars
    BY <1>2, <1>7 DEF ClientFrame, Sends, socket, liveVars
  <1>8. CASE \/ \E blank, final \in BOOLEAN : Piece(blank, final)
             \/ TurnComplete \/ StreamEnds
             \/ \E schematic \in BOOLEAN : ToolCall(schematic)
    <2>1. recv = "receiving" /\ handler' = handler
      BY <1>8 DEF Piece, TurnComplete, StreamEnds, ToolCall, socket
    <2>2. \/ recv' \in {"transcript", "guild"} /\ StartRun
          \/ recv' \in {"receiving", "schematic", "ended"} /\ runs' = runs
      BY <1>8, <2>1 DEF Piece, TurnComplete, StreamEnds, ToolCall, HandleFinal
    <2>3. QED
      BY <1>3, <1>4, <2>1, <2>2
  <1>9. CASE \E r \in DOMAIN runs : RunEnds(r)
    <2>1. PICK r \in DOMAIN runs : RunEnds(r)
      BY <1>9
    <2>2. PICK status \in {"done", "raised"} : runs' = [runs EXCEPT ![r].status = status]
      BY <2>1 DEF RunEnds
    <2>3. runs[r].status = "running" /\ recv' = recv /\ handler' = handler
      BY <2>1 DEF RunEnds, socket
    <2>4. /\ runs' \in Seq(Runs) /\ DOMAIN runs' = DOMAIN runs /\ Len(runs') = Len(runs)
          /\ runs' # <<>>
          /\ runs'[r].left = runs[r].left
          /\ \A q \in DOMAIN runs : q # r => runs'[q] = runs[q]
      <3>1. PICK old \in Runs : old = runs[r]
        BY <1>1
      <3>2. PICK run \in Runs : run = [old EXCEPT !.status = status] /\ run.left = old.left
        BY RunFields, Zenon
      <3>3. runs \in Seq(Runs) /\ runs' = [runs EXCEPT ![r] = run]
        BY <1>1, <2>2, <3>1, <3>2
      <3>4. /\ runs' \in Seq(Runs) /\ DOMAIN runs' = DOMAIN runs /\ Len(runs') = Len(runs)
            /\ runs' # <<>> /\ runs'[r] = run
            /\ \A q \in DOMAIN runs : q # r => runs'[q] = runs[q]
        BY <2>1, <3>2, <3>3, RunChanged
      <3>5. QED
        BY <3>1, <3>2, <3>4
    <2>5. QED
      BY <1>1, <2>3, <2>4 DEF RunsInv, Active, InGraph
  <1>10. CASE HookReturns
    <2>1. /\ InGraph /\ runs[Len(runs)].status # "running"
          /\ recv' = "receiving" /\ handler' = handler
          /\ runs' = IF runs[Len(runs)].status = "raised" THEN runs ELSE Drained(runs)
      BY <1>10 DEF HookReturns, socket
    <2>2. CASE runs[Len(runs)].status = "raised"
      BY <1>1, <2>1, <2>2 DEF RunsInv, Active, InGraph
    <2>3. CASE runs[Len(runs)].status # "raised"
      BY <1>1, <1>5, <2>1, <2>3 DEF RunsInv, Active, InGraph
    <2>4. QED
      BY <2>2, <2>3
  <1>11. CASE SchematicReturns
    BY <1>1, <1>11 DEF SchematicReturns, socket, RunsInv, Active, InGraph
  <1>12. CASE OthersDrain
    <2>1. runs' = Drained(runs) /\ recv' = recv /\ handler' = handler
      BY <1>12 DEF OthersDrain, socket
    <2>2. runs # <<>> => runs' # <<>>
      BY <1>1, <1>5, <2>1
    <2>3. QED
      BY <1>1, <1>5, <2>1, <2>2 DEF RunsInv, Active, InGraph
  <1>13. QED
    BY <1>6, <1>7, <1>8, <1>9, <1>10, <1>11, <1>12 DEF LiveNext

LEMMA LiveInvStep == LiveInv /\ [LiveNext]_liveVars => LiveInv'
  <1> SUFFICES ASSUME LiveInv, [LiveNext]_liveVars PROVE LiveInv'
    OBVIOUS
  <1>1. \/ UNCHANGED media
        \/ sent' = <<>> /\ tasks' = {} /\ took' = <<>>
        \/ \E kind \in MediaKinds : ClientFrame(kind)
        \/ \E frame \in tasks : Sends(frame)
    BY DEF LiveNext, HandlerStep, Refuse, Accept, Connected, ConnectFails, Leave, Close,
          LeaveStub, BridgeGone, ClientLeaves, Connect, Piece, TurnComplete, StreamEnds,
          ToolCall, RunEnds, HookReturns, SchematicReturns, OthersDrain, liveVars, media
  <1>2. \/ UNCHANGED talk
        \/ heard' = 0 /\ pending' = NoPieces /\ routed' = <<>>
        \/ \E blank, final \in BOOLEAN : Piece(blank, final)
        \/ TurnComplete
    BY DEF LiveNext, HandlerStep, Refuse, Accept, Connected, ConnectFails, Leave, Close,
          LeaveStub, BridgeGone, ClientLeaves, Connect, ClientFrame, Sends, StreamEnds,
          ToolCall, RunEnds, HookReturns, SchematicReturns, OthersDrain, liveVars, talk
  <1>3. QED
    BY <1>1, <1>2, MediaStep, TalkStep, RunsStep DEF LiveInv, LiveType

LEMMA LiveInvAlways == LiveSpec => []LiveInv
  BY LiveInvInit, LiveInvStep, PTL DEF LiveSpec

(* Every word that Live transcribes on a connection is routed into the     *)
(* graph once and in order, whatever becomes of its run and whenever the   *)
(* client leaves (bridge.py:249-270).                                      *)
THEOREM WordsRoutedOnce == LiveSpec => []TranscriptsRoutedOnce
  BY LiveInvAlways, PTL DEF LiveInv

(* What a finished run has left in the outbox stays there only until its   *)
(* hook resumes, or for good when the connection was left meanwhile        *)
(* (main.py:408-412, :444-446).                                            *)
THEOREM FinishedRunsDrained == LiveSpec => []RunsDrained
  <1>1. LiveInv => RunsDrained
    BY DEF LiveInv, RunsInv, RunsDrained
  <1>2. QED
    BY LiveInvAlways, <1>1, PTL

(* The Live session is given each frame once at most, and in the slot of   *)
(* the kind that its client prefixed it with (session.py:145-167).         *)
THEOREM FramesInTheirSlot == LiveSpec => []MediaInItsSlot
  <1>1. LiveInv => MediaInItsSlot
    BY DEF LiveInv, MediaInv, MediaInItsSlot
  <1>2. QED
    BY LiveInvAlways, <1>1, PTL

-----------------------------------------------------------------------------
(* ChatSession                                                             *)
(*                                                                         *)
(* A subscriber is handed what its transport was given and, behind it, its *)
(* queue (Given).  An event that is enqueued is appended to that sequence, *)
(* or takes the place of one thing in it that is no message, or is turned  *)
(* away; so what is handed over is a selection, in order, of what was      *)
(* published, with the messages all in it and the rest counted.  The       *)
(* client in its turn has of each message what comes before all that is    *)
(* still to be sent of it.                                                 *)

Notices == [kind: {"BackpressureNotice"}, id: {"notice"}, n: Nat]
Outgoing == Events \cup Notices
ChatSessions == [queue: Seq(Outgoing), seen_ids: SUBSET (Streamed \cup Whole), dropped_count: Nat]

(* What the queue gives up leaves the rest in order.                        *)
LEMMA Removed ==
    ASSUME NEW T, NEW q \in Seq(T), NEW i \in DOMAIN q
    PROVE  /\ RemoveAt(q, i) \in Seq(T)
           /\ Len(RemoveAt(q, i)) = Len(q) - 1
           /\ \A k \in 1..(i - 1) : RemoveAt(q, i)[k] = q[k]
           /\ \A k \in i..(Len(q) - 1) : RemoveAt(q, i)[k] = q[k + 1]
  <1> DEFINE a == SubSeq(q, 1, i - 1)
             b == SubSeq(q, i + 1, Len(q))
  <1>1. Len(q) \in Nat /\ i \in 1..Len(q)
    OBVIOUS
  <1>2. /\ a \in Seq(T) /\ Len(a) = i - 1
        /\ \A k \in 1..(i - 1) : a[k] = q[k]
    OBVIOUS
  <1>3. /\ b \in Seq(T) /\ Len(b) = Len(q) - i
        /\ \A k \in 1..(Len(q) - i) : b[k] = q[k + i]
    OBVIOUS
  <1> HIDE DEF a, b
  <1>4. /\ a \o b \in Seq(T) /\ Len(a \o b) = Len(a) + Len(b)
        /\ \A k \in 1..Len(a) + Len(b) :
              (a \o b)[k] = IF k <= Len(a) THEN a[k] ELSE b[k - Len(a)]
    <2>1. a \in Seq(T) /\ b \in Seq(T)
      BY <1>2, <1>3
    <2>2. QED
      BY ONLY <2>1, ConcatProperties
  <1>5. \A k \in 1..(i - 1) : (a \o b)[k] = q[k]
    BY <1>1, <1>2, <1>3, <1>4, SMTT(20)
  <1>6. ASSUME NEW k \in i..(Len(q) - 1) PROVE (a \o b)[k] = q[k + 1]
    <2>1. k \in 1..Len(a) + Len(b) /\ ~(k <= Len(a)) /\ Len(a) = i - 1
      BY <1>1, <1>2, <1>3
    <2>2. (a \o b)[k] = b[k - (i - 1)]
      BY <1>4, <2>1
    <2>3. b[k - (i - 1)] = q[k - (i - 1) + i]
      BY <1>1, <1>3
    <2>4. k - (i - 1) + i = k + 1
      BY <1>1
    <2>5. QED
      BY <2>2, <2>3, <2>4
  <1>7. RemoveAt(q, i) = a \o b
    BY DEF RemoveAt, a, b
  <1>8. Len(a \o b) = Len(q) - 1
    BY <1>1, <1>2, <1>3, <1>4
  <1>9. QED
    BY <1>4, <1>5, <1>6, <1>7, <1>8

LEMMA RemovedBehind ==
    ASSUME NEW T, NEW a \in Seq(T), NEW q \in Seq(T), NEW i \in DOMAIN q
    PROVE  a \o RemoveAt(q, i) = RemoveAt(a \o q, Len(a) + i)
  <1> DEFINE left == a \o RemoveAt(q, i)
             whole == a \o q
             right == RemoveAt(whole, Len(a) + i)
  <1>1. /\ Len(a) \in Nat /\ Len(q) \in Nat /\ i \in 1..Len(q)
        /\ whole \in Seq(T) /\ Len(whole) = Len(a) + Len(q)
        /\ Len(a) + i \in DOMAIN whole
    OBVIOUS
  <1>2. \A k \in 1..Len(whole) : whole[k] = IF k <= Len(a) THEN a[k] ELSE q[k - Len(a)]
    OBVIOUS
  <1> HIDE DEF whole
  <1>3. /\ right \in Seq(T) /\ Len(right) = Len(whole) - 1
        /\ \A k \in 1..(Len(a) + i - 1) : right[k] = whole[k]
        /\ \A k \in (Len(a) + i)..(Len(whole) - 1) : right[k] = whole[k + 1]
    <2>1. Len(a) + i - 1 = Len(a) + i - 1 /\ Len(a) + i \in DOMAIN whole /\ whole \in Seq(T)
      BY <1>1
    <2>2. QED
      BY ONLY <2>1, Removed
  <1> DEFINE rest == RemoveAt(q, i)
  <1>4. /\ rest \in Seq(T) /\ Len(rest) = Len(q) - 1
        /\ \A k \in 1..(i - 1) : rest[k] = q[k]
        /\ \A k \in i..(Len(q) - 1) : rest[k] = q[k + 1]
    BY <1>1, Removed
  <1> HIDE DEF rest
  <1>5. /\ a \o rest \in Seq(T) /\ Len(a \o rest) = Len(a) + Len(rest)
        /\ \A k \in 1..Len(a) + Len(rest) :
              (a \o rest)[k] = IF k <= Len(a) THEN a[k] ELSE rest[k - Len(a)]
    <2>1. a \in Seq(T) /\ rest \in Seq(T)
      BY <1>4
    <2>2. QED
      BY ONLY <2>1, ConcatProperties
  <1> HIDE DEF right
  <1>6. ASSUME NEW k \in 1..(Len(a) + Len(rest)) PROVE (a \o rest)[k] = right[k]
    <2>1. CASE k <= Len(a)
      <3>1. (a \o rest)[k] = a[k]
        BY <1>5, <2>1
      <3>2. k \in 1..(Len(a) + i - 1) /\ k \in 1..Len(whole)
        BY <1>1, <1>4, <2>1
      <3>3. right[k] = whole[k]
        BY <1>3, <3>2
      <3>4. whole[k] = a[k]
        BY <1>2, <2>1, <3>2
      <3>5. QED
        BY <3>1, <3>3, <3>4
    <2>2. CASE k > Len(a) /\ k - Len(a) < i
      <3>1. (a \o rest)[k] = q[k - Len(a)]
        <4>1. (a \o rest)[k] = rest[k - Len(a)]
          BY <1>1, <1>5, <2>2
        <4>2. k - Len(a) \in 1..(i - 1)
          BY <1>1, <1>4, <2>2
        <4>3. QED
          BY <1>4, <4>1, <4>2
      <3>2. right[k] = whole[k]
        BY <1>1, <1>3, <1>4, <2>2
      <3>3. QED
        BY <1>1, <1>2, <1>4, <2>2, <3>1, <3>2
    <2>3. CASE k > Len(a) /\ k - Len(a) >= i
      <3>1. (a \o rest)[k] = q[k - Len(a) + 1]
        BY <1>1, <1>4, <1>5, <2>3, SMTT(20)
      <3>2. right[k] = whole[k + 1]
        BY <1>1, <1>3, <1>4, <2>3
      <3>3. whole[k + 1] = q[k + 1 - Len(a)]
        <4>1. k + 1 \in 1..Len(whole) /\ ~(k + 1 <= Len(a))
          BY <1>1, <1>4, <2>3
        <4>2. QED
          BY <1>2, <4>1
      <3>4. k - Len(a) + 1 = k + 1 - Len(a)
        BY <1>1
      <3>5. QED
        BY <3>1, <3>2, <3>3, <3>4
    <2>4. QED
      BY <1>1, <2>1, <2>2, <2>3
  <1>7. a \o rest = right
    <2>1. Len(a \o rest) = Len(right) /\ Len(a \o rest) = Len(a) + Len(rest)
      BY <1>1, <1>3, <1>4, <1>5
    <2>2. QED
      BY <1>3, <1>5, <1>6, <2>1, SeqEqual
  <1>8. QED
    BY <1>7 DEF rest, right, whole

(* The part behind the first r of a sequence, when one is taken out of it   *)
(* or appended to it.                                                       *)
Behind(seq, r) == SubSeq(seq, r + 1, Len(seq))

LEMMA BehindIs ==
    ASSUME NEW T, NEW seq \in Seq(T), NEW r \in 0..Len(seq)
    PROVE  /\ Behind(seq, r) \in Seq(T)
           /\ Len(Behind(seq, r)) = Len(seq) - r
           /\ \A k \in 1..(Len(seq) - r) : Behind(seq, r)[k] = seq[k + r]
  <1>1. Len(seq) \in Nat /\ r + 1 \in 1..(Len(seq) + 1)
    OBVIOUS
  <1>2. \A k \in (r + 1)..Len(seq) : seq[k] \in T
    OBVIOUS
  <1>3. SubSeq(seq, r + 1, Len(seq)) = [k \in 1..(Len(seq) - r) |-> seq[k + r]]
    OBVIOUS
  <1>4. QED
    BY <1>1, <1>2, <1>3 DEF Behind

LEMMA BehindAppend ==
    ASSUME NEW T, NEW seq \in Seq(T), NEW r \in 0..Len(seq), NEW e \in T
    PROVE  Behind(Append(seq, e), r) = Append(Behind(seq, r), e)
  <1> DEFINE longer == Append(seq, e)
             left == Behind(longer, r)
             right == Append(Behind(seq, r), e)
  <1>1. /\ longer \in Seq(T) /\ Len(longer) = Len(seq) + 1 /\ longer[Len(seq) + 1] = e
        /\ \A k \in 1..Len(seq) : longer[k] = seq[k]
        /\ Len(seq) \in Nat /\ r \in 0..Len(longer)
    OBVIOUS
  <1> HIDE DEF longer
  <1>2. /\ left \in Seq(T) /\ Len(left) = Len(longer) - r
        /\ \A k \in 1..(Len(longer) - r) : left[k] = longer[k + r]
    BY <1>1, BehindIs
  <1> DEFINE b == Behind(seq, r)
  <1>3. /\ b \in Seq(T) /\ Len(b) = Len(seq) - r
        /\ \A k \in 1..(Len(seq) - r) : b[k] = seq[k + r]
    BY BehindIs
  <1> HIDE DEF left, b
  <1>4. /\ Append(b, e) \in Seq(T) /\ Len(Append(b, e)) = Len(b) + 1
        /\ Append(b, e)[Len(b) + 1] = e
        /\ \A k \in 1..Len(b) : Append(b, e)[k] = b[k]
    BY <1>3
  <1>5. ASSUME NEW k \in 1..Len(left) PROVE left[k] = Append(b, e)[k]
    <2>1. left[k] = longer[k + r] /\ k \in 1..(Len(seq) + 1 - r)
      BY <1>1, <1>2
    <2>2. CASE k = Len(seq) + 1 - r
      <3>1. k + r = Len(seq) + 1 /\ k = Len(b) + 1
        BY <1>1, <1>3, <2>2
      <3>2. QED
        BY <1>1, <1>4, <2>1, <3>1
    <2>3. CASE k \in 1..(Len(seq) - r)
      <3>1. k + r \in 1..Len(seq) /\ k \in 1..Len(b)
        BY <1>1, <1>3, <2>3
      <3>2. longer[k + r] = seq[k + r] /\ b[k] = seq[k + r]
        BY <1>1, <1>3, <2>3, <3>1
      <3>3. QED
        BY <1>4, <2>1, <3>1, <3>2
    <2>4. k = Len(seq) + 1 - r \/ k \in 1..(Len(seq) - r)
      BY <1>1, <2>1
    <2>5. QED
      BY <2>2, <2>3, <2>4
  <1>6. left = Append(b, e)
    <2>1. Len(left) = Len(Append(b, e))
      BY <1>1, <1>2, <1>3, <1>4
    <2>2. QED
      BY <1>2, <1>4, <1>5, <2>1, SeqEqual
  <1>7. QED
    BY <1>6 DEF left, longer, b

LEMMA BehindRemoved ==
    ASSUME NEW T, NEW seq \in Seq(T), NEW r \in 0..Len(seq), NEW i \in (r + 1)..Len(seq)
    PROVE  Behind(RemoveAt(seq, i), r) = RemoveAt(Behind(seq, r), i - r)
  <1> DEFINE rest == RemoveAt(seq, i)
             b == Behind(seq, r)
             left == Behind(rest, r)
             right == RemoveAt(b, i - r)
  <1>1. /\ Len(seq) \in Nat /\ i \in DOMAIN seq /\ r \in Nat
    OBVIOUS
  <1>2. /\ rest \in Seq(T) /\ Len(rest) = Len(seq) - 1
        /\ \A k \in 1..(i - 1) : rest[k] = seq[k]
        /\ \A k \in i..(Len(seq) - 1) : rest[k] = seq[k + 1]
    BY <1>1, Removed
  <1>3. /\ b \in Seq(T) /\ Len(b) = Len(seq) - r
        /\ \A k \in 1..(Len(seq) - r) : b[k] = seq[k + r]
    BY BehindIs
  <1> HIDE DEF rest, b
  <1>4. /\ left \in Seq(T) /\ Len(left) = Len(rest) - r
        /\ \A k \in 1..(Len(rest) - r) : left[k] = rest[k + r]
    <2>1. r \in 0..Len(rest)
      BY <1>1, <1>2
    <2>2. QED
      BY <1>2, <2>1, BehindIs
  <1>5. /\ right \in Seq(T) /\ Len(right) = Len(b) - 1
        /\ \A k \in 1..(i - r - 1) : right[k] = b[k]
        /\ \A k \in (i - r)..(Len(b) - 1) : right[k] = b[k + 1]
    <2>1. i - r \in DOMAIN b
      BY <1>1, <1>3
    <2>2. QED
      BY <1>3, <2>1, Removed
  <1> HIDE DEF left, right
  <1>6. Len(left) = Len(right)
    BY <1>1, <1>2, <1>3, <1>4, <1>5
  <1>7. ASSUME NEW k \in 1..Len(left) PROVE left[k] = right[k]
    <2>1. left[k] = rest[k + r]
      BY <1>4
    <2>2. CASE k + r < i
      <3>1. left[k] = seq[k + r]
        <4>1. k \in Nat /\ k >= 1
          BY <1>1, <1>2, <1>4
        <4>2. k + r \in 1..(i - 1)
          BY ONLY <1>1, <2>2, <4>1, r \in Nat, i \in (r + 1)..Len(seq)
        <4>3. QED
          BY <1>2, <2>1, <4>2
      <3>2. right[k] = b[k]
        BY <1>1, <1>2, <1>4, <1>5, <2>2
      <3>3. QED
        BY <1>1, <1>2, <1>3, <1>4, <3>1, <3>2
    <2>3. CASE k + r >= i
      <3>1. left[k] = seq[k + r + 1]
        BY <1>1, <1>2, <1>4, <2>1, <2>3
      <3>2. right[k] = b[k + 1]
        <4>1. k \in (i - r)..(Len(b) - 1)
          BY <1>1, <1>2, <1>3, <1>4, <2>3
        <4>2. QED
          BY <1>5, <4>1
      <3>3. b[k + 1] = seq[k + 1 + r]
        BY <1>1, <1>2, <1>3, <1>4
      <3>4. k + r + 1 = k + 1 + r
        BY <1>1
      <3>5. QED
        BY <3>1, <3>2, <3>3, <3>4
    <2>4. QED
      BY <1>1, <2>2, <2>3
  <1>8. left = right
    BY <1>4, <1>5, <1>6, <1>7, SeqEqual
  <1>9. QED
    BY <1>8 DEF left, right, rest, b

-----------------------------------------------------------------------------
(* Messages are picked in order, and what is no message does not count.     *)
LEMMA MessagesAppend ==
    ASSUME NEW T, NEW seq \in Seq(T), NEW e \in T
    PROVE  /\ IsMessage(e) => Messages(Append(seq, e)) = Append(Messages(seq), e)
           /\ ~IsMessage(e) => Messages(Append(seq, e)) = Messages(seq)
  <1> DEFINE P == {i \in DOMAIN seq : IsMessage(seq[i])}
             Q == {i \in DOMAIN Append(seq, e) : IsMessage(Append(seq, e)[i])}
  <1>1. P \subseteq DOMAIN seq
    OBVIOUS
  <1>2. Q = IF IsMessage(e) THEN P \cup {Len(seq) + 1} ELSE P
    OBVIOUS
  <1>3. /\ Messages(seq) = Picked(seq, P)
        /\ Messages(Append(seq, e)) = Picked(Append(seq, e), Q)
    BY DEF Messages
  <1> HIDE DEF P, Q
  <1>4. /\ Picked(Append(seq, e), P) = Picked(seq, P)
        /\ Picked(Append(seq, e), P \cup {Len(seq) + 1}) = Append(Picked(seq, P), e)
    BY <1>1, PickedAppend
  <1>5. CASE IsMessage(e)
    BY <1>2, <1>3, <1>4, <1>5
  <1>6. CASE ~IsMessage(e)
    BY <1>2, <1>3, <1>4, <1>6
  <1>7. QED
    BY <1>5, <1>6

LEMMA MessagesRemoved ==
    ASSUME NEW T, NEW seq \in Seq(T), NEW i \in DOMAIN seq, ~IsMessage(seq[i])
    PROVE  Messages(RemoveAt(seq, i)) = Messages(seq)
  <1> DEFINE rest == RemoveAt(seq, i)
             P == {k \in DOMAIN seq : IsMessage(seq[k])}
             Q == {k \in DOMAIN rest : IsMessage(rest[k])}
             h == [k \in P |-> IF k < i THEN k ELSE k - 1]
  <1>1. Messages(seq) = Picked(seq, P) /\ Messages(rest) = Picked(rest, Q)
    BY DEF Messages
  <1>2. /\ rest \in Seq(T) /\ Len(rest) = Len(seq) - 1
        /\ \A k \in 1..(i - 1) : rest[k] = seq[k]
        /\ \A k \in i..(Len(seq) - 1) : rest[k] = seq[k + 1]
    BY Removed
  <1>3. Len(seq) \in Nat /\ DOMAIN seq = 1..Len(seq) /\ i \in 1..Len(seq)
    OBVIOUS
  <1> HIDE DEF rest
  <1>4. DOMAIN rest = 1..(Len(seq) - 1)
    BY <1>2
  <1>5. ASSUME NEW k \in P PROVE h[k] \in Q /\ rest[h[k]] = seq[k]
    <2>1. k \in 1..Len(seq) /\ k # i /\ IsMessage(seq[k])
      BY <1>3
    <2>2. CASE k < i
      <3>1. h[k] = k /\ k \in 1..(i - 1) /\ k \in DOMAIN rest
        BY <1>3, <1>4, <2>1, <2>2
      <3>2. QED
        BY <1>2, <2>1, <3>1
    <2>3. CASE ~(k < i)
      <3>1. h[k] = k - 1 /\ k - 1 \in i..(Len(seq) - 1) /\ k - 1 \in DOMAIN rest /\ k - 1 + 1 = k
        BY <1>3, <1>4, <2>1, <2>3
      <3>2. QED
        BY <1>2, <2>1, <3>1
    <2>4. QED
      BY <2>2, <2>3
  <1>6. ASSUME NEW q \in Q PROVE \E k \in P : h[k] = q
    <2>1. q \in 1..(Len(seq) - 1) /\ IsMessage(rest[q])
      BY <1>4
    <2>2. CASE q < i
      <3>1. q \in P
        BY <1>2, <1>3, <2>1, <2>2
      <3>2. h[q] = q
        BY <2>2, <3>1
      <3>3. QED
        BY <3>1, <3>2
    <2>3. CASE ~(q < i)
      <3>1. q + 1 \in P
        BY <1>2, <1>3, <2>1, <2>3
      <3>2. h[q + 1] = q
        BY <1>3, <2>1, <2>3, <3>1
      <3>3. QED
        BY <3>1, <3>2
    <2>4. QED
      BY <2>2, <2>3
  <1>7. \A x, y \in P : x < y => h[x] < h[y]
    BY <1>3
  <1>8. P \subseteq DOMAIN seq /\ Q \subseteq DOMAIN rest /\ h \in [P -> Q]
    BY <1>5
  <1> HIDE DEF P, Q, h
  <1>9. /\ \A q \in Q : \E k \in P : h[k] = q
        /\ \A k \in P : rest[h[k]] = seq[k]
    BY <1>5, <1>6
  <1>10. Picked(rest, Q) = Picked(seq, P)
    BY <1>2, <1>7, <1>8, <1>9, SamePicked
  <1>11. QED
    BY <1>1, <1>10 DEF rest

-----------------------------------------------------------------------------
(* Session.enqueue                                                          *)

LEMMA OldestIs ==
    ASSUME NEW hits, hits \subseteq Nat, hits # {}
    PROVE  Oldest(hits) \in hits
  BY Smallest DEF Oldest

\* What enqueue may do to the queue: append the event, or append it in place
\* of a queued one that is no message, or turn an update away.
Put1(s, e, after) ==
    /\ after.queue = Append(s.queue, e)
    /\ after.dropped_count = s.dropped_count
Swapped(s, e, after) ==
    /\ \E i \in DOMAIN s.queue :
          /\ ~IsMessage(s.queue[i])
          /\ IsUpdate(s.queue[i]) \/ (Updates(s.queue) = {} /\ ~IsUpdate(e))
          /\ after.queue = Append(RemoveAt(s.queue, i), e)
    /\ after.dropped_count = s.dropped_count + 1
TurnedAway(s, e, after) ==
    /\ IsUpdate(e) /\ Updates(s.queue) = {}
    /\ after.queue = s.queue
    /\ after.dropped_count = s.dropped_count + 1

LEMMA EnqueueIs ==
    ASSUME NEW s \in ChatSessions, NEW e \in Outgoing, IsMessage(e) => e.id \notin s.seen_ids
    PROVE  /\ enqueue(s, e) \in ChatSessions
           /\ enqueue(s, e).seen_ids = IF IsMessage(e) THEN s.seen_ids \cup {e.id} ELSE s.seen_ids
           /\ \/ Put1(s, e, enqueue(s, e))
              \/ Swapped(s, e, enqueue(s, e))
              \/ TurnedAway(s, e, enqueue(s, e))
  <1> DEFINE new == IF IsMessage(e) THEN [s EXCEPT !.seen_ids = @ \cup {e.id}] ELSE s
             after == enqueue(s, e)
  <1>1. IsMessage(e) => e.id \in Streamed \cup Whole
    BY DEF IsMessage, Outgoing, Events, Notices, Message, Card, Update
  <1>2. /\ new \in ChatSessions /\ new.queue = s.queue /\ new.dropped_count = s.dropped_count
        /\ new.seen_ids = IF IsMessage(e) THEN s.seen_ids \cup {e.id} ELSE s.seen_ids
    BY <1>1 DEF ChatSessions
  <1>3. /\ s.queue \in Seq(Outgoing) /\ s.dropped_count \in Nat
        /\ Append(s.queue, e) \in Seq(Outgoing)
    BY DEF ChatSessions
  <1>4. \/ after = Put(new, e)
        \/ IsUpdate(e) /\ Updates(s.queue) = {} /\ after = Drop(new)
        \/ /\ Victims(s.queue) # {} /\ ~(IsUpdate(e) /\ Updates(s.queue) = {})
           /\ after = Put(Evict(new, Oldest(Victims(s.queue))), e)
    BY DEF enqueue
  <1> HIDE DEF new, after
  <1>5. /\ Put(new, e) \in ChatSessions
        /\ Put(new, e).seen_ids = new.seen_ids
        /\ Put1(s, e, Put(new, e))
    BY <1>2, <1>3 DEF ChatSessions, Put, Put1
  <1>6. /\ Drop(new) \in ChatSessions
        /\ Drop(new).seen_ids = new.seen_ids
        /\ IsUpdate(e) /\ Updates(s.queue) = {} => TurnedAway(s, e, Drop(new))
    BY <1>2, <1>3 DEF ChatSessions, Drop, TurnedAway
  <1> DEFINE i == Oldest(Victims(s.queue))
             evicted == Put(Evict(new, i), e)
  <1>7. ASSUME Victims(s.queue) # {}, ~(IsUpdate(e) /\ Updates(s.queue) = {})
        PROVE  /\ evicted \in ChatSessions
               /\ evicted.seen_ids = new.seen_ids
               /\ Swapped(s, e, evicted)
    <2>1. Victims(s.queue) \subseteq Nat
      BY <1>3 DEF Victims, Updates, NonMessages
    <2>2. i \in Victims(s.queue)
      BY <1>7, <2>1, OldestIs
    <2>3. /\ i \in DOMAIN s.queue /\ ~IsMessage(s.queue[i])
          /\ IsUpdate(s.queue[i]) \/ (Updates(s.queue) = {} /\ ~IsUpdate(e))
      BY <1>7, <2>2 DEF Victims, Updates, NonMessages, IsUpdate, IsMessage
    <2> HIDE DEF i
    <2>4. RemoveAt(s.queue, i) \in Seq(Outgoing)
      BY <1>3, <2>3, Removed
    <2>5. PICK ids : ids = new.seen_ids
      OBVIOUS
    <2>6. evicted = [queue |-> Append(RemoveAt(s.queue, i), e), seen_ids |-> ids,
                     dropped_count |-> s.dropped_count + 1]
      <3>1. new = [queue |-> s.queue, seen_ids |-> ids, dropped_count |-> s.dropped_count]
        BY <1>2, <2>5 DEF ChatSessions
      <3>2. Drop(new) = [queue |-> s.queue, seen_ids |-> ids, dropped_count |-> s.dropped_count + 1]
        BY <3>1 DEF Drop
      <3>3. Evict(new, i) = [queue |-> RemoveAt(s.queue, i), seen_ids |-> ids,
                             dropped_count |-> s.dropped_count + 1]
        BY <3>2 DEF Evict
      <3>4. QED
        BY <3>3 DEF Put, evicted
    <2> HIDE DEF evicted
    <2>7. Append(RemoveAt(s.queue, i), e) \in Seq(Outgoing)
      BY <2>4
    <2>8. /\ evicted \in ChatSessions /\ evicted.seen_ids = new.seen_ids
          /\ evicted.queue = Append(RemoveAt(s.queue, i), e)
          /\ evicted.dropped_count = s.dropped_count + 1
      <3>1. new.seen_ids \in SUBSET (Streamed \cup Whole) /\ s.dropped_count + 1 \in Nat
        BY <1>2, <1>3 DEF ChatSessions
      <3>2. QED
        BY <2>5, <2>6, <2>7, <3>1 DEF ChatSessions
    <2>9. QED
      BY <2>3, <2>8 DEF Swapped
  <1> HIDE DEF evicted, i
  <1>8. QED
    BY <1>2, <1>4, <1>5, <1>6, <1>7 DEF after, evicted, i

-----------------------------------------------------------------------------
\* The second sequence has what the first has, in order, and not earlier.
Selected(h, g) ==
    \E f \in [DOMAIN h -> DOMAIN g] :
        /\ \A j, k \in DOMAIN h : j < k => f[j] < f[k]
        /\ \A k \in DOMAIN h : h[k] = g[f[k]] /\ f[k] >= k

\* Nothing, or one thing, of the second sequence is missing in the first.
AllBut(h, g, x) == \A k \in DOMAIN g : g[k] = x \/ \E j \in DOMAIN h : h[j] = g[k]

\* e was handed over besides g, or one thing is missing and is counted.
Charged(h, g, e, d, more) ==
    \/ h = Append(g, e) /\ more = d
    \/ more = d + 1 /\ \E x : AllBut(h, Append(g, e), x)

LEMMA SelectedSelf ==
    ASSUME NEW T, NEW g \in Seq(T)
    PROVE  Selected(g, g)
  <1> DEFINE f == [k \in DOMAIN g |-> k]
  <1>1. /\ f \in [DOMAIN g -> DOMAIN g]
        /\ \A j, k \in DOMAIN g : j < k => f[j] < f[k]
        /\ \A k \in DOMAIN g : g[k] = g[f[k]] /\ f[k] >= k
    OBVIOUS
  <1>2. QED
    BY <1>1 DEF Selected

LEMMA SelectedAppend ==
    ASSUME NEW T, NEW g \in Seq(T), NEW e \in T
    PROVE  Selected(g, Append(g, e))
  <1> DEFINE f == [k \in DOMAIN g |-> k]
             longer == Append(g, e)
  <1>1. DOMAIN g = 1..Len(g) /\ DOMAIN longer = 1..(Len(g) + 1) /\ Len(g) \in Nat
    OBVIOUS
  <1>2. \A k \in DOMAIN g : g[k] = longer[k]
    OBVIOUS
  <1> HIDE DEF longer
  <1>3. /\ f \in [DOMAIN g -> DOMAIN longer]
        /\ \A j, k \in DOMAIN g : j < k => f[j] < f[k]
        /\ \A k \in DOMAIN g : g[k] = longer[f[k]] /\ f[k] >= k
    BY <1>1, <1>2
  <1>4. QED
    BY <1>3 DEF Selected, longer

LEMMA SelectedTwice ==
    ASSUME NEW T, NEW a \in Seq(T), NEW b \in Seq(T), NEW c \in Seq(T),
           Selected(a, b), Selected(b, c)
    PROVE  Selected(a, c)
  <1>1. PICK f \in [DOMAIN a -> DOMAIN b] :
           /\ \A j, k \in DOMAIN a : j < k => f[j] < f[k]
           /\ \A k \in DOMAIN a : a[k] = b[f[k]] /\ f[k] >= k
    BY DEF Selected
  <1>2. PICK g \in [DOMAIN b -> DOMAIN c] :
           /\ \A j, k \in DOMAIN b : j < k => g[j] < g[k]
           /\ \A k \in DOMAIN b : b[k] = c[g[k]] /\ g[k] >= k
    BY DEF Selected
  <1> DEFINE h == [k \in DOMAIN a |-> g[f[k]]]
  <1>3. h \in [DOMAIN a -> DOMAIN c]
    BY <1>1, <1>2
  <1>4. \A j, k \in DOMAIN a : j < k => h[j] < h[k]
    BY <1>1, <1>2
  <1>5. ASSUME NEW k \in DOMAIN a PROVE a[k] = c[h[k]] /\ h[k] >= k
    <2>1. f[k] \in DOMAIN b /\ a[k] = b[f[k]] /\ f[k] >= k
      BY <1>1
    <2>2. b[f[k]] = c[g[f[k]]] /\ g[f[k]] >= f[k]
      BY <1>2, <2>1
    <2>3. k \in Nat /\ f[k] \in Nat /\ g[f[k]] \in Nat
      BY <1>2, <2>1
    <2>4. QED
      BY <2>1, <2>2, <2>3
  <1> HIDE DEF h
  <1>6. QED
    BY <1>3, <1>4, <1>5 DEF Selected

(* The same element may be appended to both.                                *)
LEMMA SelectedGrows ==
    ASSUME NEW T, NEW a \in Seq(T), NEW b \in Seq(T), NEW e \in T, Selected(a, b)
    PROVE  Selected(Append(a, e), Append(b, e))
  <1>1. PICK f \in [DOMAIN a -> DOMAIN b] :
           /\ \A j, k \in DOMAIN a : j < k => f[j] < f[k]
           /\ \A k \in DOMAIN a : a[k] = b[f[k]] /\ f[k] >= k
    BY DEF Selected
  <1> DEFINE n == Len(a)
             x == Append(a, e)
             y == Append(b, e)
             h == [k \in 1..(n + 1) |-> IF k = n + 1 THEN Len(b) + 1 ELSE f[k]]
  <1>2. /\ DOMAIN a = 1..n /\ DOMAIN b = 1..Len(b) /\ n \in Nat /\ Len(b) \in Nat
        /\ DOMAIN x = 1..(n + 1) /\ DOMAIN y = 1..(Len(b) + 1)
        /\ \A k \in 1..n : x[k] = a[k]
        /\ \A k \in 1..Len(b) : y[k] = b[k]
        /\ x[n + 1] = e /\ y[Len(b) + 1] = e
    OBVIOUS
  <1> HIDE DEF x, y, n
  <1>3. \A k \in 1..n : f[k] \in 1..Len(b) /\ f[k] >= k
    BY <1>1, <1>2
  <1>4. \A k \in 1..(n + 1) : k = n + 1 \/ k \in 1..n
    BY <1>2
  <1>5. h[n + 1] = Len(b) + 1 /\ \A k \in 1..n : h[k] = f[k]
    BY <1>2
  <1>6. h \in [1..(n + 1) -> 1..(Len(b) + 1)]
    BY <1>2, <1>3, <1>4
  <1>7. n <= Len(b)
    <2>1. CASE n = 0
      BY <1>2, <2>1
    <2>2. CASE n # 0
      <3>1. n \in 1..n
        BY <1>2, <2>2
      <3>2. QED
        BY <1>2, <1>3, <3>1
    <2>3. QED
      BY <2>1, <2>2
  <1> HIDE DEF h
  <1>8. ASSUME NEW j \in 1..(n + 1), NEW k \in 1..(n + 1), j < k PROVE h[j] < h[k]
    <2>1. j \in 1..n /\ h[j] = f[j] /\ f[j] \in 1..Len(b)
      BY <1>2, <1>3, <1>4, <1>5, <1>8
    <2>2. CASE k = n + 1
      BY <1>2, <1>5, <2>1, <2>2
    <2>3. CASE k \in 1..n
      BY <1>1, <1>2, <1>5, <1>8, <2>1, <2>3
    <2>4. QED
      BY <1>4, <2>2, <2>3
  <1>9. ASSUME NEW k \in 1..(n + 1) PROVE x[k] = y[h[k]] /\ h[k] >= k
    <2>1. CASE k = n + 1
      BY <1>2, <1>5, <1>7, <2>1
    <2>2. CASE k \in 1..n
      BY <1>1, <1>2, <1>3, <1>5, <2>2
    <2>3. QED
      BY <1>4, <2>1, <2>2
  <1>10. QED
    BY <1>2, <1>6, <1>8, <1>9 DEF Selected, x, y

LEMMA SelectedRemoved ==
    ASSUME NEW T, NEW g \in Seq(T), NEW i \in DOMAIN g
    PROVE  Selected(RemoveAt(g, i), g)
  <1> DEFINE rest == RemoveAt(g, i)
             f == [k \in DOMAIN rest |-> IF k < i THEN k ELSE k + 1]
  <1>1. /\ rest \in Seq(T) /\ Len(rest) = Len(g) - 1
        /\ \A k \in 1..(i - 1) : rest[k] = g[k]
        /\ \A k \in i..(Len(g) - 1) : rest[k] = g[k + 1]
    BY Removed
  <1>2. Len(g) \in Nat /\ DOMAIN g = 1..Len(g) /\ i \in 1..Len(g)
    OBVIOUS
  <1> HIDE DEF rest
  <1>3. DOMAIN rest = 1..(Len(g) - 1)
    BY <1>1
  <1>4. f \in [DOMAIN rest -> DOMAIN g]
    BY <1>2, <1>3
  <1>5. \A j, k \in DOMAIN rest : j < k => f[j] < f[k]
    BY <1>2, <1>3
  <1>6. ASSUME NEW k \in DOMAIN rest PROVE rest[k] = g[f[k]] /\ f[k] >= k
    <2>1. k \in 1..(Len(g) - 1) /\ f[k] = IF k < i THEN k ELSE k + 1
      BY <1>3
    <2> HIDE DEF f
    <2>2. CASE k < i
      <3>1. k \in 1..(i - 1)
        BY <1>2, <2>1, <2>2
      <3>2. QED
        BY <1>1, <2>1, <2>2, <3>1
    <2>3. CASE ~(k < i)
      <3>1. k \in i..(Len(g) - 1)
        BY <1>2, <2>1, <2>3
      <3>2. QED
        BY <1>1, <2>1, <2>3, <3>1
    <2>4. QED
      BY <2>2, <2>3
  <1> HIDE DEF f
  <1>7. QED
    BY <1>4, <1>5, <1>6 DEF Selected, rest

LEMMA RemovedAllBut ==
    ASSUME NEW T, NEW g \in Seq(T), NEW i \in DOMAIN g, NEW e \in T
    PROVE  AllBut(Append(RemoveAt(g, i), e), Append(g, e), g[i])
  <1> DEFINE rest == RemoveAt(g, i)
             h == Append(rest, e)
             longer == Append(g, e)
  <1>1. /\ rest \in Seq(T) /\ Len(rest) = Len(g) - 1
        /\ \A k \in 1..(i - 1) : rest[k] = g[k]
        /\ \A k \in i..(Len(g) - 1) : rest[k] = g[k + 1]
    BY Removed
  <1>2. /\ Len(g) \in Nat /\ i \in 1..Len(g)
        /\ DOMAIN longer = 1..(Len(g) + 1) /\ longer[Len(g) + 1] = e
        /\ \A k \in 1..Len(g) : longer[k] = g[k]
    OBVIOUS
  <1> HIDE DEF rest
  <1>3. /\ DOMAIN h = 1..Len(g) /\ h[Len(g)] = e
        /\ \A k \in 1..(Len(g) - 1) : h[k] = rest[k]
    BY <1>1, <1>2
  <1> HIDE DEF h, longer
  <1>4. ASSUME NEW k \in DOMAIN longer, longer[k] # g[i]
        PROVE  \E j \in DOMAIN h : h[j] = longer[k]
    <2>1. k = Len(g) + 1 \/ (k \in 1..Len(g) /\ k # i)
      BY <1>2, <1>4
    <2>2. CASE k = Len(g) + 1
      <3>1. Len(g) \in DOMAIN h /\ h[Len(g)] = longer[k]
        BY <1>2, <1>3, <2>2
      <3>2. QED
        BY <3>1
    <2>3. CASE k \in 1..Len(g) /\ k < i
      <3>1. k \in 1..(i - 1) /\ k \in 1..(Len(g) - 1)
        BY <1>2, <2>3
      <3>2. k \in DOMAIN h /\ h[k] = longer[k]
        BY <1>1, <1>2, <1>3, <2>3, <3>1
      <3>3. QED
        BY <3>2
    <2>4. CASE k \in 1..Len(g) /\ k > i
      <3>1. k - 1 \in i..(Len(g) - 1) /\ k - 1 \in 1..(Len(g) - 1) /\ k - 1 + 1 = k
        BY <1>2, <2>4
      <3>2. k - 1 \in DOMAIN h
        BY <1>2, <1>3, <3>1
      <3>3. h[k - 1] = longer[k]
        BY <1>1, <1>2, <1>3, <2>4, <3>1
      <3>4. QED
        BY <3>2, <3>3
    <2>5. QED
      BY <1>2, <2>1, <2>2, <2>3, <2>4
  <1>5. QED
    BY <1>4 DEF AllBut, h, longer, rest

(* Taking one thing that is no message out of what was handed over, and     *)
(* handing over another, is as good as handing it over besides.             *)
LEMMA SwapHands ==
    ASSUME NEW g \in Seq(Outgoing), NEW r \in 0..Len(g), NEW i \in (r + 1)..Len(g),
           ~IsMessage(g[i]), NEW e \in Outgoing
    PROVE  /\ Append(RemoveAt(g, i), e) \in Seq(Outgoing)
           /\ Len(Append(RemoveAt(g, i), e)) = Len(g)
           /\ Messages(Behind(Append(RemoveAt(g, i), e), r)) = Messages(Behind(Append(g, e), r))
           /\ Selected(Append(RemoveAt(g, i), e), Append(g, e))
           /\ Append(RemoveAt(g, i), e)[Len(g)] = e
  <1> DEFINE rest == RemoveAt(g, i)
             b == Behind(g, r)
  <1>1. Len(g) \in Nat /\ r \in Nat /\ i \in DOMAIN g /\ i \in 1..Len(g)
    OBVIOUS
  <1>2. rest \in Seq(Outgoing) /\ Len(rest) = Len(g) - 1
    BY <1>1, Removed
  <1>3. Behind(rest, r) = RemoveAt(b, i - r)
    BY BehindRemoved
  <1>4. b \in Seq(Outgoing) /\ Len(b) = Len(g) - r /\ b[i - r] = g[i]
    <2>1. /\ b \in Seq(Outgoing) /\ Len(b) = Len(g) - r
          /\ \A k \in 1..(Len(g) - r) : b[k] = g[k + r]
      BY BehindIs
    <2> HIDE DEF b
    <2>2. i - r \in 1..(Len(g) - r) /\ i - r + r = i
      BY <1>1
    <2>3. QED
      BY <2>1, <2>2
  <1>5. Behind(Append(g, e), r) = Append(b, e)
    BY BehindAppend
  <1>6. Selected(rest, g)
    BY <1>1, SelectedRemoved
  <1> HIDE DEF rest, b
  <1>7. Behind(Append(rest, e), r) = Append(RemoveAt(b, i - r), e)
    <2>1. r \in 0..Len(rest)
      BY <1>1, <1>2
    <2>2. QED
      BY <1>2, <1>3, <2>1, BehindAppend
  <1>8. i - r \in DOMAIN b /\ ~IsMessage(b[i - r])
    BY <1>1, <1>4
  <1>9. Messages(RemoveAt(b, i - r)) = Messages(b) /\ RemoveAt(b, i - r) \in Seq(Outgoing)
    BY <1>4, <1>8, MessagesRemoved, Removed
  <1>10. Messages(Append(RemoveAt(b, i - r), e)) = Messages(Append(b, e))
    <2> DEFINE c == RemoveAt(b, i - r)
    <2>1. c \in Seq(Outgoing) /\ Messages(c) = Messages(b)
      BY <1>9
    <2> HIDE DEF c
    <2>2. /\ IsMessage(e) => Messages(Append(c, e)) = Append(Messages(c), e)
          /\ ~IsMessage(e) => Messages(Append(c, e)) = Messages(c)
      BY <2>1, MessagesAppend
    <2>3. /\ IsMessage(e) => Messages(Append(b, e)) = Append(Messages(b), e)
          /\ ~IsMessage(e) => Messages(Append(b, e)) = Messages(b)
      BY <1>4, MessagesAppend
    <2>4. Messages(Append(c, e)) = Messages(Append(b, e))
      BY <2>1, <2>2, <2>3
    <2>5. QED
      BY <2>4 DEF c
  <1>11. Selected(Append(rest, e), Append(g, e))
    BY <1>2, <1>6, SelectedGrows
  <1>12. /\ Append(rest, e) \in Seq(Outgoing) /\ Len(Append(rest, e)) = Len(g)
         /\ Append(rest, e)[Len(g)] = e
    BY <1>1, <1>2
  <1>13. QED
    BY <1>5, <1>7, <1>10, <1>11, <1>12 DEF rest

\* The session s enqueues e behind what its transport was handed.
Handing(s, e, a, r, g, h) ==
    /\ s \in ChatSessions /\ e \in Outgoing /\ (IsMessage(e) => e.id \notin s.seen_ids)
    /\ a \in Seq(Outgoing) /\ r \in 0..Len(a)
    /\ g = a \o s.queue /\ h = a \o enqueue(s, e).queue

(* What one event does to all that a connection was handed: the messages    *)
(* are those published, one thing at most is missing, and it is counted.    *)
LEMMA EnqueueHands ==
    ASSUME NEW s, NEW e, NEW a, NEW r, NEW g, NEW h, Handing(s, e, a, r, g, h)
    PROVE  /\ g \in Seq(Outgoing) /\ h \in Seq(Outgoing)
           /\ r \in 0..Len(g) /\ r \in 0..Len(h)
           /\ Messages(Behind(h, r)) = Messages(Behind(Append(g, e), r))
           /\ Selected(h, Append(g, e))
           /\ ~IsUpdate(e) => h # <<>> /\ h[Len(h)] = e
           /\ Charged(h, g, e, s.dropped_count, enqueue(s, e).dropped_count)
  <1> DEFINE q == s.queue
             after == enqueue(s, e)
  <1>0. /\ s \in ChatSessions /\ e \in Outgoing /\ (IsMessage(e) => e.id \notin s.seen_ids)
        /\ a \in Seq(Outgoing) /\ r \in 0..Len(a)
        /\ g = a \o s.queue /\ h = a \o enqueue(s, e).queue
    BY DEF Handing
  <1> USE <1>0
  <1>1. /\ after \in ChatSessions
        /\ Put1(s, e, after) \/ Swapped(s, e, after) \/ TurnedAway(s, e, after)
    BY EnqueueIs
  <1>2. q \in Seq(Outgoing) /\ after.queue \in Seq(Outgoing)
    BY <1>1 DEF ChatSessions
  <1>3. h = a \o after.queue
    OBVIOUS
  <1> HIDE DEF after
  <1>4. /\ g \in Seq(Outgoing) /\ h \in Seq(Outgoing)
        /\ Len(g) = Len(a) + Len(q) /\ Len(h) = Len(a) + Len(after.queue)
        /\ Len(a) \in Nat /\ Len(q) \in Nat /\ Len(after.queue) \in Nat
        /\ \A k \in 1..Len(q) : g[Len(a) + k] = q[k]
    BY <1>2, <1>3
  <1>5. r \in 0..Len(g) /\ r \in 0..Len(h)
    BY <1>4
  <1>6. CASE Put1(s, e, after)
    <2>1. h = Append(g, e) /\ after.dropped_count = s.dropped_count
      <3>1. a \o Append(q, e) = Append(a \o q, e)
        BY <1>2, AppendLast, SMTT(20)
      <3>2. QED
        BY <1>3, <1>6, <3>1 DEF Put1
    <2>2. Selected(h, Append(g, e))
      <3>1. h \in Seq(Outgoing)
        BY <1>4
      <3>2. Selected(h, h)
        BY ONLY <3>1, SelectedSelf
      <3>3. QED
        BY ONLY <2>1, <3>2
    <2>3. h # <<>> /\ h[Len(h)] = e
      <3>1. g \in Seq(Outgoing) /\ e \in Outgoing
        BY <1>4
      <3>2. QED
        BY ONLY <2>1, <3>1
    <2>4. QED
      BY <1>4, <1>5, <2>1, <2>2, <2>3 DEF after, Charged
  <1>7. CASE Swapped(s, e, after)
    <2>1. PICK k \in DOMAIN q : ~IsMessage(q[k]) /\ after.queue = Append(RemoveAt(q, k), e)
      BY <1>7 DEF Swapped
    <2>2. PICK i \in (r + 1)..Len(g) : i = Len(a) + k
      <3>1. k \in 1..Len(q)
        BY <1>2, <2>1
      <3>2. Len(a) + k \in (r + 1)..Len(g)
        BY <1>4, <3>1
      <3>3. QED
        BY <3>2
    <2>3. g[i] = q[k]
      <3>1. k \in 1..Len(q)
        BY <1>2, <2>1
      <3>2. QED
        BY <1>4, <2>2, <3>1
    <2>4. h = Append(RemoveAt(g, i), e)
      <3>1. a \o RemoveAt(q, k) = RemoveAt(a \o q, Len(a) + k) /\ RemoveAt(q, k) \in Seq(Outgoing)
        BY <1>2, <2>1, RemovedBehind, Removed
      <3>2. a \o Append(RemoveAt(q, k), e) = Append(a \o RemoveAt(q, k), e)
        BY <3>1, AppendLast
      <3>3. QED
        BY <1>3, <2>1, <2>2, <3>1, <3>2
    <2>5. /\ Len(h) = Len(g)
          /\ Messages(Behind(h, r)) = Messages(Behind(Append(g, e), r))
          /\ Selected(h, Append(g, e))
          /\ h[Len(g)] = e
      <3>1. ~IsMessage(g[i])
        BY <2>1, <2>3
      <3>2. g \in Seq(Outgoing) /\ r \in 0..Len(g)
        BY <1>4, <1>5
      <3>3. LET swapped == Append(RemoveAt(g, i), e)
            IN  /\ Len(swapped) = Len(g)
                /\ Messages(Behind(swapped, r)) = Messages(Behind(Append(g, e), r))
                /\ Selected(swapped, Append(g, e))
                /\ swapped[Len(g)] = e
        BY ONLY <3>1, <3>2, i \in (r + 1)..Len(g), e \in Outgoing, SwapHands
      <3>4. QED
        BY ONLY <2>4, <3>3
    <2>6. AllBut(h, Append(g, e), g[i])
      <3>1. i \in DOMAIN g /\ g \in Seq(Outgoing)
        BY <1>4, <1>5
      <3>2. AllBut(Append(RemoveAt(g, i), e), Append(g, e), g[i])
        BY ONLY <3>1, e \in Outgoing, RemovedAllBut
      <3>3. QED
        BY ONLY <2>4, <3>2
    <2>7. h # <<>>
      BY <1>4, <1>5, <2>2, <2>5
    <2>8. after.dropped_count = s.dropped_count + 1
      BY <1>7 DEF Swapped
    <2>9. QED
      BY <1>4, <1>5, <2>5, <2>6, <2>7, <2>8 DEF after, Charged
  <1>8. CASE TurnedAway(s, e, after)
    <2>1. h = g /\ IsUpdate(e) /\ after.dropped_count = s.dropped_count + 1
      BY <1>3, <1>8 DEF TurnedAway
    <2>2. ~IsMessage(e)
      BY <2>1 DEF IsUpdate, IsMessage
    <2>3. Behind(g, r) \in Seq(Outgoing) /\ Behind(Append(g, e), r) = Append(Behind(g, r), e)
      <3>1. g \in Seq(Outgoing) /\ r \in 0..Len(g)
        BY <1>4, <1>5
      <3>2. QED
        BY ONLY <3>1, e \in Outgoing, BehindIs, BehindAppend
    <2>4. Messages(Append(Behind(g, r), e)) = Messages(Behind(g, r))
      BY <2>2, <2>3, MessagesAppend
    <2>5. Selected(h, Append(g, e))
      BY <1>4, <2>1, SelectedAppend
    <2>6. AllBut(h, Append(g, e), e)
      <3>1. /\ DOMAIN Append(g, e) = 1..(Len(g) + 1) /\ Append(g, e)[Len(g) + 1] = e
            /\ \A k \in 1..Len(g) : Append(g, e)[k] = g[k]
            /\ DOMAIN g = 1..Len(g) /\ Len(g) \in Nat
        BY <1>4
      <3>2. ASSUME NEW k \in DOMAIN Append(g, e), Append(g, e)[k] # e
            PROVE  \E j \in DOMAIN g : g[j] = Append(g, e)[k]
        <4>1. k \in 1..Len(g)
          <5>1. k \in 1..(Len(g) + 1) /\ k # Len(g) + 1 /\ Len(g) \in Nat
            BY <3>1, <3>2
          <5>2. QED
            BY ONLY <5>1
        <4>2. k \in DOMAIN g /\ g[k] = Append(g, e)[k]
          BY <3>1, <4>1
        <4>3. QED
          BY ONLY <4>2
      <3>3. AllBut(g, Append(g, e), e)
        BY ONLY <3>2 DEF AllBut
      <3>4. QED
        BY <2>1, <3>3
    <2>7. QED
      BY <1>4, <1>5, <2>1, <2>3, <2>4, <2>5, <2>6 DEF after, Charged
  <1>9. QED
    BY <1>1, <1>6, <1>7, <1>8

-----------------------------------------------------------------------------
(* What a subscriber was told and what it was handed.                       *)

\* At most d of the things told are not among those handed over.
Counted(told, g, d) ==
    /\ IsFiniteSet(ToSet(told) \ ToSet(g))
    /\ Cardinality(ToSet(told) \ ToSet(g)) <= d

\* Drops are reported by the last thing handed over, all but one.
Reported(g, d) ==
    IF d = 0 THEN \A i \in DOMAIN g : g[i] \notin Notices
    ELSE /\ g # <<>> /\ g[Len(g)] \in Notices
         /\ g[Len(g)].n >= 1 /\ d <= g[Len(g)].n + 1

LEMMA ToSetAppend ==
    ASSUME NEW T, NEW seq \in Seq(T), NEW e \in T
    PROVE  ToSet(Append(seq, e)) = ToSet(seq) \cup {e}
  <1>1. /\ DOMAIN Append(seq, e) = 1..(Len(seq) + 1) /\ Append(seq, e)[Len(seq) + 1] = e
        /\ \A k \in 1..Len(seq) : Append(seq, e)[k] = seq[k]
        /\ DOMAIN seq = 1..Len(seq) /\ Len(seq) \in Nat
    OBVIOUS
  <1>2. ASSUME NEW y \in ToSet(seq) PROVE y \in ToSet(Append(seq, e))
    <2>1. PICK k \in 1..Len(seq) : seq[k] = y
      BY <1>1 DEF ToSet
    <2>2. k \in DOMAIN Append(seq, e) /\ Append(seq, e)[k] = y
      BY <1>1, <2>1
    <2>3. QED
      BY <2>2 DEF ToSet
  <1>3. e \in ToSet(Append(seq, e))
    <2>1. Len(seq) + 1 \in DOMAIN Append(seq, e)
      BY <1>1
    <2>2. QED
      BY <1>1, <2>1 DEF ToSet
  <1>4. ASSUME NEW y \in ToSet(Append(seq, e)) PROVE y \in ToSet(seq) \/ y = e
    <2>1. PICK k \in 1..(Len(seq) + 1) : Append(seq, e)[k] = y
      BY <1>1 DEF ToSet
    <2>2. CASE k = Len(seq) + 1
      BY <1>1, <2>1, <2>2
    <2>3. CASE k \in 1..Len(seq)
      BY <1>1, <2>1, <2>3 DEF ToSet
    <2>4. QED
      BY <1>1, <2>1, <2>2, <2>3
  <1>5. QED
    BY <1>2, <1>3, <1>4

\* One more thing is lost at most when all but one is still there.
LEMMA CountedOne ==
    ASSUME NEW told, NEW more, NEW T, NEW g \in Seq(T), NEW e \in T, NEW h, NEW x,
           NEW d \in Nat, Counted(told, g, d),
           ToSet(more) \subseteq ToSet(told) \cup {e},
           AllBut(h, Append(g, e), x)
    PROVE  Counted(more, h, d + 1)
  <1> DEFINE L == ToSet(told) \ ToSet(g)
             M == ToSet(more) \ ToSet(h)
  <1>1. ToSet(Append(g, e)) = ToSet(g) \cup {e}
    BY ToSetAppend
  <1>2. \A y \in ToSet(g) \cup {e} : y = x \/ y \in ToSet(h)
    <2>1. \A y \in ToSet(Append(g, e)) : y = x \/ y \in ToSet(h)
      BY DEF AllBut, ToSet
    <2>2. QED
      BY <1>1, <2>1
  <1>3. M \subseteq L \cup {x}
    BY <1>2
  <1>4. IsFiniteSet(L) /\ Cardinality(L) \in Nat /\ Cardinality(L) <= d
    BY FS_CardinalityType DEF Counted
  <1> HIDE DEF L, M
  <1>5. /\ IsFiniteSet(L \cup {x})
        /\ Cardinality(L \cup {x}) = IF x \in L THEN Cardinality(L) ELSE Cardinality(L) + 1
    BY <1>4, FS_AddElement
  <1>6. IsFiniteSet(M) /\ Cardinality(M) <= Cardinality(L \cup {x}) /\ Cardinality(M) \in Nat
    BY <1>3, <1>5, FS_Subset, FS_CardinalityType
  <1>7. Cardinality(M) <= d + 1
    BY <1>4, <1>5, <1>6
  <1>8. QED
    BY <1>6, <1>7 DEF Counted, M

LEMMA CountedNone ==
    ASSUME NEW told, NEW more, NEW T, NEW g \in Seq(T), NEW e \in T,
           NEW d \in Nat, Counted(told, g, d),
           ToSet(more) \subseteq ToSet(told) \cup {e}
    PROVE  Counted(more, Append(g, e), d)
  <1> DEFINE L == ToSet(told) \ ToSet(g)
             M == ToSet(more) \ ToSet(Append(g, e))
  <1>1. ToSet(Append(g, e)) = ToSet(g) \cup {e}
    BY ToSetAppend
  <1>2. M \in SUBSET L
    BY <1>1
  <1>3. IsFiniteSet(L) /\ Cardinality(L) \in Nat /\ Cardinality(L) <= d
    BY FS_CardinalityType DEF Counted
  <1> HIDE DEF L, M
  <1>4. IsFiniteSet(M) /\ Cardinality(M) <= Cardinality(L) /\ Cardinality(M) \in Nat
    BY <1>2, <1>3, FS_Subset, FS_CardinalityType
  <1>5. Cardinality(M) <= d
    BY <1>3, <1>4
  <1>6. QED
    BY <1>4, <1>5 DEF Counted, M

LEMMA CountedCharged ==
    ASSUME NEW told, NEW more, NEW T, NEW g \in Seq(T), NEW e \in T, NEW h,
           NEW d \in Nat, NEW after, Counted(told, g, d),
           ToSet(more) \subseteq ToSet(told) \cup {e},
           Charged(h, g, e, d, after)
    PROVE  Counted(more, h, after)
  <1>1. CASE h = Append(g, e) /\ after = d
    BY <1>1, CountedNone
  <1>2. CASE after = d + 1 /\ \E x : AllBut(h, Append(g, e), x)
    <2>1. PICK x : AllBut(h, Append(g, e), x)
      BY <1>2
    <2>2. Counted(more, h, d + 1)
      BY <2>1, CountedOne
    <2>3. QED
      BY <1>2, <2>2
  <1>3. QED
    BY <1>1, <1>2 DEF Charged

\* The session s is offered e, behind what its transport was handed and told.
Offering(s, e, a, r, told, after, g, h) ==
    /\ s \in ChatSessions /\ e \in Events /\ (IsMessage(e) => e.id \notin s.seen_ids)
    /\ a \in Seq(Outgoing) /\ r \in 0..Len(a) /\ told \in Seq(Events)
    /\ after = WithNotice(s, e) /\ g = a \o s.queue /\ h = a \o after.queue
    /\ Counted(told, g, s.dropped_count) /\ Reported(g, s.dropped_count)
    /\ Messages(Behind(g, r)) = Messages(told)

LEMMA NoticeHands ==
    ASSUME NEW s, NEW e, NEW a, NEW r, NEW told, NEW after, NEW g, NEW h,
           Offering(s, e, a, r, told, after, g, h)
    PROVE  /\ after \in ChatSessions
           /\ after.seen_ids \subseteq s.seen_ids \cup (IF IsMessage(e) THEN {e.id} ELSE {})
           /\ g \in Seq(Outgoing) /\ h \in Seq(Outgoing)
           /\ Messages(Behind(h, r)) = Messages(Append(told, e))
           /\ Counted(Append(told, e), h, after.dropped_count)
           /\ Reported(h, after.dropped_count)
           /\ \E n \in Nat : Selected(h, Append(Append(g, e), Notice(n)))
           /\ after.dropped_count = 0 => s.dropped_count = 0 /\ h = Append(g, e)
  <1> DEFINE s1 == enqueue(s, e)
             m == a \o s1.queue
             notice == Notice(s1.dropped_count)
  <1>0. /\ s \in ChatSessions /\ e \in Events /\ (IsMessage(e) => e.id \notin s.seen_ids)
        /\ a \in Seq(Outgoing) /\ r \in 0..Len(a) /\ told \in Seq(Events)
        /\ after = WithNotice(s, e) /\ g = a \o s.queue /\ h = a \o after.queue
        /\ Counted(told, g, s.dropped_count) /\ Reported(g, s.dropped_count)
        /\ Messages(Behind(g, r)) = Messages(told)
    BY DEF Offering
  <1> USE <1>0
  <1>1. e \in Outgoing /\ e \notin Notices
    BY DEF Outgoing, Notices, Events, Message, Update, Card
  <1>2. /\ s1 \in ChatSessions
        /\ s1.seen_ids = IF IsMessage(e) THEN s.seen_ids \cup {e.id} ELSE s.seen_ids
    BY <1>1, EnqueueIs
  <1>3. PICK m1 : m1 = m
    OBVIOUS
  <1>4. /\ g \in Seq(Outgoing) /\ m1 \in Seq(Outgoing)
        /\ r \in 0..Len(g) /\ r \in 0..Len(m1)
        /\ Messages(Behind(m1, r)) = Messages(Behind(Append(g, e), r))
        /\ Selected(m1, Append(g, e))
        /\ Charged(m1, g, e, s.dropped_count, s1.dropped_count)
    <2>1. Handing(s, e, a, r, g, m1)
      BY <1>1, <1>3 DEF Handing
    <2>2. QED
      BY ONLY <2>1, EnqueueHands
  <1>5. s.dropped_count \in Nat /\ s1.dropped_count \in Nat
    BY <1>2 DEF ChatSessions
  <1>6. Messages(Behind(m1, r)) = Messages(Append(told, e))
    <2>1. Behind(Append(g, e), r) = Append(Behind(g, r), e) /\ Behind(g, r) \in Seq(Outgoing)
      <3>1. g \in Seq(Outgoing) /\ e \in Outgoing /\ r \in 0..Len(g)
        BY <1>1, <1>4
      <3>2. QED
        BY ONLY <3>1, BehindAppend, BehindIs
    <2>2. /\ IsMessage(e) => Messages(Append(Behind(g, r), e)) = Append(Messages(Behind(g, r)), e)
          /\ ~IsMessage(e) => Messages(Append(Behind(g, r), e)) = Messages(Behind(g, r))
      BY <1>1, <2>1, MessagesAppend
    <2>3. /\ IsMessage(e) => Messages(Append(told, e)) = Append(Messages(told), e)
          /\ ~IsMessage(e) => Messages(Append(told, e)) = Messages(told)
      BY MessagesAppend
    <2>4. QED
      BY <1>4, <2>1, <2>2, <2>3
  <1>7. ToSet(Append(told, e)) = ToSet(told) \cup {e}
    BY ToSetAppend
  <1>8. Counted(Append(told, e), m1, s1.dropped_count)
    <2>1. /\ ToSet(Append(told, e)) \subseteq ToSet(told) \cup {e}
          /\ g \in Seq(Outgoing) /\ e \in Outgoing
          /\ Charged(m1, g, e, s.dropped_count, s1.dropped_count)
      BY <1>1, <1>4, <1>7
    <2> HIDE DEF s1
    <2>2. QED
      BY ONLY <1>5, <2>1, Counted(told, g, s.dropped_count), CountedCharged
  <1> HIDE DEF s1
  <1>9. CASE s1.dropped_count = 0
    <2>1. after = s1 /\ h = m1
      BY <1>3, <1>9 DEF WithNotice, s1
    <2>2. m1 = Append(g, e) /\ s.dropped_count = 0
      BY <1>4, <1>5, <1>9 DEF Charged
    <2>3. Reported(h, 0)
      <3>1. \A i \in DOMAIN g : g[i] \notin Notices
        BY <2>2 DEF Reported
      <3>2. ASSUME NEW i \in DOMAIN Append(g, e) PROVE Append(g, e)[i] \notin Notices
        <4>1. /\ DOMAIN Append(g, e) = 1..(Len(g) + 1) /\ Append(g, e)[Len(g) + 1] = e
              /\ \A k \in 1..Len(g) : Append(g, e)[k] = g[k]
              /\ DOMAIN g = 1..Len(g) /\ Len(g) \in Nat
          BY <1>1, <1>4
        <4>2. i \in 1..(Len(g) + 1) /\ Len(g) \in Nat
          BY <3>2, <4>1
        <4>3. i = Len(g) + 1 \/ i \in 1..Len(g)
          BY ONLY <4>2
        <4>4. QED
          BY <1>1, <3>1, <4>1, <4>3
      <3>3. QED
        BY <2>1, <2>2, <3>2 DEF Reported
    <2>4. \E n \in Nat : Selected(h, Append(Append(g, e), Notice(n)))
      <3>1. Append(g, e) \in Seq(Outgoing) /\ Notice(0) \in Outgoing
        BY <1>1, <1>4 DEF Notice, Notices, Outgoing
      <3>2. Selected(Append(g, e), Append(Append(g, e), Notice(0)))
        BY <3>1, SelectedAppend
      <3>3. Selected(h, Append(Append(g, e), Notice(0))) /\ 0 \in Nat
        BY <2>1, <2>2, <3>2
      <3>4. QED
        BY ONLY <3>3
    <2>5. QED
      BY <1>2, <1>4, <1>6, <1>8, <1>9, <2>1, <2>2, <2>3, <2>4
  <1>10. CASE s1.dropped_count # 0
    <2>1. after = enqueue(s1, notice)
      BY <1>5, <1>10 DEF WithNotice, s1
    <2>2. /\ notice \in Outgoing /\ notice \in Notices /\ ~IsMessage(notice) /\ ~IsUpdate(notice)
          /\ notice.n = s1.dropped_count
      BY <1>5 DEF Notice, Notices, Outgoing, IsMessage, IsUpdate
    <2> HIDE DEF notice
    <2>3. after \in ChatSessions /\ after.seen_ids = s1.seen_ids
      BY <1>2, <2>1, <2>2, EnqueueIs
    <2>4. /\ h \in Seq(Outgoing)
          /\ Messages(Behind(h, r)) = Messages(Behind(Append(m1, notice), r))
          /\ Selected(h, Append(m1, notice))
          /\ h # <<>> /\ h[Len(h)] = notice
          /\ Charged(h, m1, notice, s1.dropped_count, after.dropped_count)
      <3>1. Handing(s1, notice, a, r, m1, h)
        BY <1>2, <1>3, <2>1, <2>2 DEF Handing
      <3>2. QED
        BY ONLY <2>1, <2>2, <3>1, EnqueueHands
    <2>5. Messages(Behind(h, r)) = Messages(Append(told, e))
      <3>1. Behind(Append(m1, notice), r) = Append(Behind(m1, r), notice)
        BY <1>4, <2>2, BehindAppend
      <3>2. Behind(m1, r) \in Seq(Outgoing)
        BY <1>4, BehindIs
      <3>3. Messages(Append(Behind(m1, r), notice)) = Messages(Behind(m1, r))
        BY <2>2, <3>2, MessagesAppend
      <3>4. QED
        BY <1>6, <2>4, <3>1, <3>3
    <2>6. Counted(Append(told, e), h, after.dropped_count)
      <3>1. ToSet(Append(told, e)) \subseteq ToSet(Append(told, e)) \cup {notice}
        OBVIOUS
      <3>2. m1 \in Seq(Outgoing)
        BY <1>4
      <3>3. Charged(h, m1, notice, s1.dropped_count, after.dropped_count)
        BY <2>4
      <3>4. QED
        BY ONLY <1>5, <1>8, <2>2, <3>1, <3>2, <3>3, CountedCharged
    <2>7. after.dropped_count # 0 /\ Reported(h, after.dropped_count)
      <3>1. after.dropped_count \in {s1.dropped_count, s1.dropped_count + 1}
        BY <2>4 DEF Charged
      <3>2. notice.n >= 1 /\ after.dropped_count <= notice.n + 1 /\ after.dropped_count # 0
        BY <1>5, <1>10, <2>2, <3>1
      <3>3. QED
        BY <2>2, <2>4, <3>2 DEF Reported
    <2>8. \E n \in Nat : Selected(h, Append(Append(g, e), Notice(n)))
      <3>1. Append(g, e) \in Seq(Outgoing) /\ Append(m1, notice) \in Seq(Outgoing)
            /\ Append(Append(g, e), notice) \in Seq(Outgoing)
        BY <1>1, <1>4, <2>2
      <3>2. Selected(Append(m1, notice), Append(Append(g, e), notice))
        BY <1>4, <2>2, <3>1, SelectedGrows
      <3>3. Selected(h, Append(Append(g, e), notice))
        BY <2>4, <3>1, <3>2, SelectedTwice
      <3>4. QED
        BY <1>5, <3>3 DEF notice
    <2>9. QED
      BY <1>2, <1>4, <2>3, <2>4, <2>5, <2>6, <2>7, <2>8
  <1>11. QED
    BY <1>9, <1>10

-----------------------------------------------------------------------------
(* The invariants of the subscriber.                                        *)

Ids == Streamed \cup Whole

ChatType ==
    /\ bus \in [log: Seq(Events), batch: BOOLEAN]
    /\ chat \in ChatSessions
    /\ wire \in [frames: Seq(Outgoing), sent: Nat, replayed: Nat]
    /\ since \in Seq(Events)
    /\ links \in [count: Nat \ {0}, up: BOOLEAN]

Rising(seq) ==
    \A i, j \in DOMAIN seq :
        i < j /\ IsUpdate(seq[i]) /\ IsUpdate(seq[j]) /\ seq[i].id = seq[j].id => seq[i].n < seq[j].n

\* The parts of a message are published in order, after the message.
LogInv ==
    /\ IsInjective(bus.log)
    /\ Rising(bus.log)
    /\ \A i \in DOMAIN bus.log : IsUpdate(bus.log[i]) =>
         /\ \A k \in 1..bus.log[i].n : Contains(bus.log, Update(bus.log[i].id, k))
         /\ \E j \in 1..(i - 1) : bus.log[j] = Message(bus.log[i].id)

\* So they are handed over.
GivenInv ==
    /\ wire.sent <= Len(wire.frames) /\ wire.replayed <= Len(wire.frames)
    /\ Rising(Given)
    /\ \A i \in DOMAIN Given : Given[i] \in Notices \/ Contains(bus.log, Given[i])
    /\ \A m \in chat.seen_ids : Contains(bus.log, Message(m))
    /\ ~links.up => chat = NewSession /\ wire.frames = <<>>
    /\ ~bus.batch => chat.queue = <<>>

LossInv ==
    links.up => /\ Messages(since) = Messages(SinceReplay)
                /\ Counted(since, Given, chat.dropped_count)
                /\ Reported(Given, chat.dropped_count)

PublishInv == ChatType /\ LogInv /\ GivenInv /\ LossInv

LEMMA EventKinds ==
    ASSUME NEW e \in Events
    PROVE  /\ e \in Outgoing /\ e \notin Notices
           /\ e = [kind |-> e.kind, id |-> e.id, n |-> e.n]
           /\ e.n \in Nat
           /\ IsMessage(e) => e.id \in Ids /\ e = Message(e.id)
           /\ IsUpdate(e) => e.id \in Streamed /\ e.n \in 1..Deltas /\ e = Update(e.id, e.n)
           /\ ~(IsMessage(e) /\ IsUpdate(e))
  BY SessionAssumption DEF Outgoing, Notices, Events, Message, Update, Card, IsMessage, IsUpdate, Ids

LEMMA NoticeKinds ==
    /\ \A n \in Nat : Notice(n) \in Notices
    /\ \A e \in Notices : ~IsMessage(e) /\ ~IsUpdate(e) /\ e.kind = "BackpressureNotice"
    /\ \A e \in Events : e.kind # "BackpressureNotice"
  BY DEF Notices, Notice, IsMessage, IsUpdate, Events, Message, Update, Card

LEMMA AppendIs ==
    ASSUME NEW T, NEW seq \in Seq(T), NEW e \in T
    PROVE  /\ Append(seq, e) \in Seq(T) /\ Len(seq) \in Nat
           /\ DOMAIN seq = 1..Len(seq) /\ DOMAIN Append(seq, e) = 1..(Len(seq) + 1)
           /\ Append(seq, e)[Len(seq) + 1] = e
           /\ \A k \in 1..Len(seq) : Append(seq, e)[k] = seq[k]
           /\ \A k \in 1..(Len(seq) + 1) : k \in 1..Len(seq) \/ k = Len(seq) + 1
  OBVIOUS

LEMMA ContainsAppend ==
    ASSUME NEW T, NEW seq \in Seq(T), NEW e \in T, NEW x
    PROVE  Contains(Append(seq, e), x) <=> Contains(seq, x) \/ x = e
  <1>1. /\ Len(seq) \in Nat
        /\ DOMAIN seq = 1..Len(seq) /\ DOMAIN Append(seq, e) = 1..(Len(seq) + 1)
        /\ Append(seq, e)[Len(seq) + 1] = e
        /\ \A k \in 1..Len(seq) : Append(seq, e)[k] = seq[k]
        /\ \A k \in 1..(Len(seq) + 1) : k \in 1..Len(seq) \/ k = Len(seq) + 1
    BY AppendIs
  <1> DEFINE longer == Append(seq, e)
  <1> HIDE DEF longer
  <1>2. /\ Len(seq) + 1 \in DOMAIN longer /\ longer[Len(seq) + 1] = e
        /\ \A k \in 1..Len(seq) : k \in DOMAIN longer /\ longer[k] = seq[k]
        /\ \A k \in DOMAIN longer : k \in 1..Len(seq) \/ k = Len(seq) + 1
    BY <1>1 DEF longer
  <1>3. Contains(longer, x) => Contains(seq, x) \/ x = e
    BY <1>1, <1>2 DEF Contains
  <1>4. Contains(seq, x) \/ x = e => Contains(longer, x)
    BY <1>1, <1>2 DEF Contains
  <1>5. QED
    BY <1>3, <1>4 DEF longer

(* Publishing keeps the log in order.                                       *)
LEMMA LogGrows ==
    ASSUME ChatType, LogInv, NEW e \in Events, Due(e), bus'.log = Append(bus.log, e)
    PROVE  /\ LogInv'
           /\ \A i \in DOMAIN bus.log :
                IsUpdate(e) /\ IsUpdate(bus.log[i]) /\ bus.log[i].id = e.id => bus.log[i].n < e.n
  <1> DEFINE log == bus.log
             longer == Append(bus.log, e)
  <1>1. /\ log \in Seq(Events) /\ longer \in Seq(Events) /\ Len(log) \in Nat
        /\ DOMAIN log = 1..Len(log) /\ DOMAIN longer = 1..(Len(log) + 1)
        /\ longer[Len(log) + 1] = e
        /\ \A k \in 1..Len(log) : longer[k] = log[k]
        /\ \A k \in 1..(Len(log) + 1) : k \in 1..Len(log) \/ k = Len(log) + 1
    <2>1. log \in Seq(Events)
      BY DEF ChatType
    <2> HIDE DEF log
    <2>2. QED
      BY <2>1, AppendIs DEF log
  <1>2. /\ ~Contains(log, e)
        /\ IsUpdate(e) => /\ e.n \in 1..Deltas /\ e = Update(e.id, e.n)
                          /\ Contains(log, IF e.n = 1 THEN Message(e.id) ELSE Update(e.id, e.n - 1))
    BY EventKinds DEF Due
  <1>3. \A x : Contains(longer, x) <=> Contains(log, x) \/ x = e
    <2> SUFFICES ASSUME NEW x PROVE Contains(longer, x) <=> Contains(log, x) \/ x = e
      OBVIOUS
    <2>1. QED
      BY <1>1, ContainsAppend
  <1>4. \A i \in 1..Len(log) : log[i] \in Events
    BY <1>1
  <1> HIDE DEF log, longer
  <1>5. /\ \A i, j \in 1..Len(log) : log[i] = log[j] => i = j
        /\ Rising(log)
        /\ \A i \in 1..Len(log) : IsUpdate(log[i]) =>
             /\ \A k \in 1..log[i].n : Contains(log, Update(log[i].id, k))
             /\ \E j \in 1..(i - 1) : log[j] = Message(log[i].id)
    BY <1>1 DEF LogInv, IsInjective, log
  <1>6. \A i \in 1..Len(log) : log[i] # e
    BY <1>1, <1>2 DEF Contains
  <1>7. ASSUME NEW i \in 1..Len(log), IsUpdate(e), IsUpdate(log[i]), log[i].id = e.id
        PROVE  log[i].n < e.n
    <2>1. log[i].n \in 1..Deltas /\ log[i] = Update(e.id, log[i].n) /\ e.n \in 1..Deltas
      BY <1>2, <1>4, <1>7, EventKinds
    <2>2. SUFFICES ASSUME log[i].n >= e.n PROVE FALSE
      BY <2>1
    <2>3. e.n \in 1..log[i].n
      BY <2>1, <2>2
    <2>4. Contains(log, Update(e.id, e.n))
      BY <1>5, <1>7, <2>3
    <2>5. QED
      BY <1>2, <1>7, <2>4
  <1>8. \A i, j \in 1..(Len(log) + 1) : longer[i] = longer[j] => i = j
    <2> SUFFICES ASSUME NEW i \in 1..(Len(log) + 1), NEW j \in 1..(Len(log) + 1),
                        longer[i] = longer[j]
                 PROVE  i = j
      OBVIOUS
    <2>1. CASE i \in 1..Len(log) /\ j \in 1..Len(log)
      BY <1>1, <1>5, <2>1
    <2>2. CASE i = Len(log) + 1 /\ j \in 1..Len(log)
      BY <1>1, <1>6, <2>2
    <2>3. CASE j = Len(log) + 1 /\ i \in 1..Len(log)
      BY <1>1, <1>6, <2>3
    <2>4. QED
      BY <1>1, <2>1, <2>2, <2>3
  <1>9. Rising(longer)
    <2> SUFFICES ASSUME NEW i \in 1..(Len(log) + 1), NEW j \in 1..(Len(log) + 1), i < j,
                        IsUpdate(longer[i]), IsUpdate(longer[j]), longer[i].id = longer[j].id
                 PROVE  longer[i].n < longer[j].n
      BY <1>1 DEF Rising
    <2>1. i \in 1..Len(log)
      BY <1>1
    <2>2. CASE j \in 1..Len(log)
      BY <1>1, <1>5, <2>1, <2>2 DEF Rising
    <2>3. CASE j = Len(log) + 1
      BY <1>1, <1>7, <2>1, <2>3
    <2>4. QED
      BY <1>1, <2>2, <2>3
  <1>10. ASSUME NEW i \in 1..(Len(log) + 1), IsUpdate(longer[i])
         PROVE  /\ \A k \in 1..longer[i].n : Contains(longer, Update(longer[i].id, k))
                /\ \E j \in 1..(i - 1) : longer[j] = Message(longer[i].id)
    <2>1. CASE i \in 1..Len(log)
      <3>1. longer[i] = log[i] /\ IsUpdate(log[i])
        BY <1>1, <1>10, <2>1
      <3>2. PICK j \in 1..(i - 1) : log[j] = Message(log[i].id)
        BY <1>5, <2>1, <3>1
      <3>3. longer[j] = log[j]
        BY <1>1, <2>1, <3>2
      <3>4. \A k \in 1..log[i].n : Contains(log, Update(log[i].id, k))
        BY <1>5, <2>1, <3>1
      <3>5. QED
        BY <1>3, <3>1, <3>2, <3>3, <3>4
    <2>2. CASE i = Len(log) + 1
      <3>1. longer[i] = e /\ IsUpdate(e)
        BY <1>1, <1>10, <2>2
      <3>2. CASE e.n = 1
        <4>1. PICK j \in 1..Len(log) : log[j] = Message(e.id)
          BY <1>1, <1>2, <3>1, <3>2 DEF Contains
        <4>2. j \in 1..(i - 1) /\ longer[j] = Message(longer[i].id)
          BY <1>1, <2>2, <3>1, <4>1
        <4>3. \A k \in 1..e.n : Update(e.id, k) = e
          BY <1>2, <3>1, <3>2
        <4>4. QED
          BY <1>3, <3>1, <4>2, <4>3
      <3>3. CASE e.n # 1
        <4>1. PICK p \in 1..Len(log) : log[p] = Update(e.id, e.n - 1)
          BY <1>1, <1>2, <3>1, <3>3 DEF Contains
        <4>2. IsUpdate(log[p]) /\ log[p].id = e.id /\ log[p].n = e.n - 1
          BY <4>1 DEF Update, IsUpdate
        <4>3. PICK j \in 1..(p - 1) : log[j] = Message(e.id)
          BY <1>5, <4>2
        <4>4. j \in 1..(i - 1) /\ longer[j] = Message(longer[i].id)
          BY <1>1, <2>2, <3>1, <4>3
        <4>5. \A k \in 1..(e.n - 1) : Contains(log, Update(e.id, k))
          BY <1>5, <4>2
        <4>6. \A k \in 1..e.n : k \in 1..(e.n - 1) \/ Update(e.id, k) = e
          BY <1>2, <3>1
        <4>7. QED
          BY <1>3, <3>1, <4>4, <4>5, <4>6
      <3>4. QED
        BY <3>2, <3>3
    <2>3. QED
      BY <1>1, <2>1, <2>2
  <1>11. bus'.log = longer
    BY DEF longer
  <1>12. LogInv'
    BY <1>1, <1>8, <1>9, <1>10, <1>11 DEF LogInv, IsInjective
  <1>13. QED
    BY <1>1, <1>7, <1>12 DEF log

LEMMA EmptyBehind ==
    ASSUME NEW T, NEW seq \in Seq(T)
    PROVE  seq \o <<>> = seq
  <1>1. /\ seq \o <<>> \in Seq(T) /\ Len(seq \o <<>>) = Len(seq)
        /\ \A k \in 1..Len(seq) : (seq \o <<>>)[k] = seq[k]
    OBVIOUS
  <1>2. QED
    BY <1>1, SeqEqual

(* An update behind those of its message keeps the order, and so does what  *)
(* is no update.                                                            *)
LEMMA RisingAppend ==
    ASSUME NEW T, NEW g \in Seq(T), NEW e \in T, Rising(g),
           \A i \in DOMAIN g :
              IsUpdate(e) /\ IsUpdate(g[i]) /\ g[i].id = e.id => g[i].n < e.n
    PROVE  Rising(Append(g, e))
  <1> DEFINE longer == Append(g, e)
  <1>1. /\ Len(g) \in Nat
        /\ DOMAIN g = 1..Len(g) /\ DOMAIN longer = 1..(Len(g) + 1)
        /\ longer[Len(g) + 1] = e
        /\ \A k \in 1..Len(g) : longer[k] = g[k]
        /\ \A k \in 1..(Len(g) + 1) : k \in 1..Len(g) \/ k = Len(g) + 1
    BY AppendIs
  <1> HIDE DEF longer
  <1>2. SUFFICES ASSUME NEW i \in 1..(Len(g) + 1), NEW j \in 1..(Len(g) + 1), i < j,
                        IsUpdate(longer[i]), IsUpdate(longer[j]), longer[i].id = longer[j].id
                 PROVE  longer[i].n < longer[j].n
    BY <1>1 DEF Rising, longer
  <1>3. i \in 1..Len(g)
    BY <1>1, <1>2
  <1>4. CASE j \in 1..Len(g)
    BY <1>1, <1>2, <1>3, <1>4 DEF Rising
  <1>5. CASE j = Len(g) + 1
    BY <1>1, <1>2, <1>3, <1>5
  <1>6. QED
    BY <1>1, <1>4, <1>5

(* A selection from what rises does rise.                                   *)
LEMMA RisingSelected ==
    ASSUME NEW h, NEW g, Rising(g), Selected(h, g)
    PROVE  Rising(h)
  <1>1. PICK f \in [DOMAIN h -> DOMAIN g] :
           /\ \A j, k \in DOMAIN h : j < k => f[j] < f[k]
           /\ \A k \in DOMAIN h : h[k] = g[f[k]] /\ f[k] >= k
    BY DEF Selected
  <1>2. QED
    BY <1>1 DEF Rising

(* What a connection is handed when e is published: besides a notice only   *)
(* what it was handed before, and e; in order, if e comes in order.         *)
LEMMA HandedInOrder ==
    ASSUME NEW g \in Seq(Outgoing), Rising(g), NEW e \in Events, NEW n \in Nat,
           \A i \in DOMAIN g :
              IsUpdate(e) /\ IsUpdate(g[i]) /\ g[i].id = e.id => g[i].n < e.n,
           NEW h, Selected(h, Append(Append(g, e), Notice(n)))
    PROVE  /\ Rising(h)
           /\ \A k \in DOMAIN h :
                 h[k] \in Notices \/ h[k] = e \/ \E j \in DOMAIN g : h[k] = g[j]
  <1> DEFINE ge == Append(g, e)
             notice == Notice(n)
             all == Append(ge, notice)
  <1>1. e \in Outgoing /\ notice \in Notices /\ notice \in Outgoing /\ ~IsUpdate(notice)
    BY EventKinds, NoticeKinds DEF Outgoing
  <1>2. ge \in Seq(Outgoing) /\ Rising(ge)
    BY <1>1, RisingAppend
  <1>3. /\ Len(g) \in Nat /\ DOMAIN g = 1..Len(g)
        /\ DOMAIN ge = 1..(Len(g) + 1) /\ Len(ge) = Len(g) + 1
        /\ ge[Len(g) + 1] = e
        /\ \A k \in 1..Len(g) : ge[k] = g[k]
        /\ \A k \in 1..(Len(g) + 1) : k \in 1..Len(g) \/ k = Len(g) + 1
    BY <1>1, AppendIs
  <1> HIDE DEF ge, notice
  <1>4. Rising(all)
    BY <1>1, <1>2, RisingAppend
  <1>5. /\ DOMAIN all = 1..(Len(ge) + 1) /\ all[Len(ge) + 1] = notice
        /\ \A k \in 1..Len(ge) : all[k] = ge[k]
        /\ \A k \in 1..(Len(ge) + 1) : k \in 1..Len(ge) \/ k = Len(ge) + 1
    BY <1>1, <1>2, AppendIs
  <1>6. Selected(h, all)
    BY DEF ge, notice
  <1> HIDE DEF all
  <1>7. Rising(h)
    BY <1>4, <1>6, RisingSelected
  <1>8. ASSUME NEW k \in DOMAIN h
        PROVE  h[k] \in Notices \/ h[k] = e \/ \E j \in DOMAIN g : h[k] = g[j]
    <2>1. PICK j \in DOMAIN all : h[k] = all[j]
      BY <1>6 DEF Selected
    <2>2. j \in 1..Len(ge) \/ j = Len(ge) + 1
      BY <1>5, <2>1
    <2>3. j \in 1..Len(g) \/ j = Len(g) + 1 \/ j = Len(ge) + 1
      BY <1>3, <2>2
    <2>4. CASE j \in 1..Len(g)
      <3>1. j \in 1..Len(ge)
        BY <1>3, <2>4
      <3>2. h[k] = g[j] /\ j \in DOMAIN g
        BY <1>3, <1>5, <2>1, <2>4, <3>1
      <3>3. QED
        BY <3>2
    <2>5. CASE j = Len(g) + 1
      <3>1. j \in 1..Len(ge)
        BY <1>3, <2>5
      <3>2. h[k] = e
        BY <1>3, <1>5, <2>1, <2>5, <3>1
      <3>3. QED
        BY <3>2
    <2>6. CASE j = Len(ge) + 1
      BY <1>1, <1>5, <2>1, <2>6
    <2>7. QED
      BY <2>3, <2>4, <2>5, <2>6
  <1>9. QED
    BY <1>7, <1>8

(* The messages of a sequence are in it.                                    *)
LEMMA MessagesAre ==
    ASSUME NEW T, NEW seq \in Seq(T)
    PROVE  /\ Messages(seq) \in Seq(T)
           /\ \A k \in DOMAIN Messages(seq) :
                 IsMessage(Messages(seq)[k]) /\ Contains(seq, Messages(seq)[k])
  <1> DEFINE P == {i \in DOMAIN seq : IsMessage(seq[i])}
             n == Cardinality(P)
             picked == Picked(seq, P)
  <1>1. /\ n \in Nat /\ picked \in Seq(T) /\ Len(picked) = n
        /\ \E pos \in Bijection(1..n, P) :
              /\ \A j, k \in 1..n : j < k => pos[j] < pos[k]
              /\ \A k \in 1..n : picked[k] = seq[pos[k]]
    <2>1. P \subseteq DOMAIN seq
      OBVIOUS
    <2> HIDE DEF P
    <2>2. QED
      BY <2>1, PickedPlaces
  <1> HIDE DEF n, picked
  <1>2. PICK pos \in Bijection(1..n, P) : \A k \in 1..n : picked[k] = seq[pos[k]]
    BY <1>1
  <1>3. \A k \in 1..n : pos[k] \in P
    BY DEF Bijection, Injection
  <1>4. DOMAIN picked = 1..n
    BY <1>1
  <1>5. \A k \in 1..n : IsMessage(picked[k]) /\ Contains(seq, picked[k])
    BY <1>2, <1>3 DEF Contains
  <1>6. QED
    BY <1>1, <1>4, <1>5 DEF picked, Messages

LEMMA FlushedIs ==
    ASSUME NEW s \in ChatSessions
    PROVE  /\ [s EXCEPT !.queue = <<>>] \in ChatSessions
           /\ [s EXCEPT !.queue = <<>>].queue = <<>>
           /\ [s EXCEPT !.queue = <<>>].seen_ids = s.seen_ids
           /\ [s EXCEPT !.queue = <<>>].dropped_count = s.dropped_count
  <1>1. PICK ids, d : ids = s.seen_ids /\ d = s.dropped_count
    OBVIOUS
  <1>2. ids \in SUBSET (Streamed \cup Whole) /\ d \in Nat
    BY <1>1 DEF ChatSessions
  <1>3. PICK none : none = <<>>
    OBVIOUS
  <1>4. none \in Seq(Outgoing)
    BY <1>3
  <1>5. [s EXCEPT !.queue = none] = [queue |-> none, seen_ids |-> ids, dropped_count |-> d]
    BY <1>1 DEF ChatSessions
  <1>6. [queue |-> none, seen_ids |-> ids, dropped_count |-> d] \in ChatSessions
    BY <1>2, <1>4 DEF ChatSessions
  <1>7. QED
    BY <1>1, <1>3, <1>5, <1>6

LEMMA PublishKeeps ==
    ASSUME PublishInv, NEW e \in Events, NEW flush \in BOOLEAN, Publish(e, flush)
    PROVE  /\ PublishInv' /\ wire'.sent = wire.sent
           /\ ~links.up => Given' = Given
           /\ links.up => /\ \E n \in Nat : Selected(Given', Append(Append(Given, e), Notice(n)))
                          /\ chat'.dropped_count = 0 =>
                                chat.dropped_count = 0 /\ Given' = Append(Given, e)
  <1> USE DEF PublishInv
  <1>1. /\ bus.log \in Seq(Events) /\ bus' = [log |-> Append(bus.log, e), batch |-> ~flush]
        /\ links' = links /\ Due(e)
    BY DEF ChatType, Publish
  <1>2. bus'.log = Append(bus.log, e) /\ bus'.batch = ~flush
    BY <1>1
  <1>3. /\ LogInv'
        /\ \A i \in DOMAIN bus.log :
             IsUpdate(e) /\ IsUpdate(bus.log[i]) /\ bus.log[i].id = e.id => bus.log[i].n < e.n
    BY <1>1, <1>2, LogGrows
  <1>4. \A x : Contains(bus'.log, x) <=> Contains(bus.log, x) \/ x = e
    <2> SUFFICES ASSUME NEW x PROVE Contains(bus'.log, x) <=> Contains(bus.log, x) \/ x = e
      OBVIOUS
    <2>1. Contains(Append(bus.log, e), x) <=> Contains(bus.log, x) \/ x = e
      BY <1>1, ContainsAppend
    <2>2. QED
      BY <1>2, <2>1
  <1>5. bus' \in [log: Seq(Events), batch: BOOLEAN]
    BY <1>1
  <1>6. CASE ~links.up
    <2>1. chat' = chat /\ wire' = wire /\ since' = since
      BY <1>6 DEF Publish
    <2>2. Given' = Given
      BY <2>1 DEF Given
    <2>3. ChatType'
      BY <1>1, <1>5, <2>1 DEF ChatType
    <2>4. GivenInv'
      <3>1. chat.queue = <<>>
        BY <1>6 DEF GivenInv, NewSession
      <3>2. \A i \in DOMAIN Given : Given[i] \in Notices \/ Contains(bus'.log, Given[i])
        BY <1>4 DEF GivenInv
      <3>3. \A m \in chat.seen_ids : Contains(bus'.log, Message(m))
        BY <1>4 DEF GivenInv
      <3>4. QED
        BY <1>1, <2>1, <2>2, <3>1, <3>2, <3>3 DEF GivenInv
    <2>5. LossInv'
      BY <1>1, <1>6 DEF LossInv
    <2>6. QED
      BY <1>3, <1>6, <2>1, <2>2, <2>3, <2>4, <2>5
  <1>7. CASE links.up
    <2>1. PICK s : s = WithNotice(chat, e)
      OBVIOUS
    <2>2. /\ chat' = IF flush THEN Flushed(s) ELSE s
          /\ wire' = IF flush THEN [wire EXCEPT !.frames = @ \o s.queue] ELSE wire
          /\ since' = Append(since, e)
      BY <1>7, <2>1 DEF Publish
    <2>3. PICK a : a = wire.frames
      OBVIOUS
    <2>4. PICK r : r = wire.replayed
      OBVIOUS
    <2>5. /\ a \in Seq(Outgoing) /\ r \in 0..Len(a) /\ since \in Seq(Events)
          /\ chat \in ChatSessions /\ chat.queue \in Seq(Outgoing)
          /\ wire = [frames |-> a, sent |-> wire.sent, replayed |-> r]
          /\ wire.sent \in 0..Len(a)
      BY <2>3, <2>4 DEF ChatType, GivenInv, ChatSessions
    <2>6. PICK g : g = a \o chat.queue
      OBVIOUS
    <2>7. PICK h : h = a \o s.queue
      OBVIOUS
    <2>8. Given = g /\ SinceReplay = Behind(g, r)
      BY <2>3, <2>4, <2>6 DEF Given, SinceReplay, Behind
    <2>9. IsMessage(e) => e.id \notin chat.seen_ids
      <3>1. SUFFICES ASSUME IsMessage(e), e.id \in chat.seen_ids PROVE FALSE
        OBVIOUS
      <3>2. Contains(bus.log, Message(e.id)) /\ e = Message(e.id)
        BY <3>1, EventKinds DEF GivenInv
      <3>3. QED
        BY <1>1, <3>2 DEF Due
    <2>10. /\ Counted(since, g, chat.dropped_count) /\ Reported(g, chat.dropped_count)
           /\ Messages(Behind(g, r)) = Messages(since)
      BY <1>7, <2>8 DEF LossInv
    <2>11. /\ s \in ChatSessions
           /\ s.seen_ids \subseteq chat.seen_ids \cup (IF IsMessage(e) THEN {e.id} ELSE {})
           /\ g \in Seq(Outgoing) /\ h \in Seq(Outgoing)
           /\ Messages(Behind(h, r)) = Messages(Append(since, e))
           /\ Counted(Append(since, e), h, s.dropped_count)
           /\ Reported(h, s.dropped_count)
           /\ \E n \in Nat : Selected(h, Append(Append(g, e), Notice(n)))
           /\ s.dropped_count = 0 => chat.dropped_count = 0 /\ h = Append(g, e)
      <3>1. Offering(chat, e, a, r, since, s, g, h)
        BY <2>1, <2>5, <2>6, <2>7, <2>9, <2>10 DEF Offering
      <3>2. QED
        BY ONLY <3>1, NoticeHands
    <2>12. PICK n \in Nat : Selected(h, Append(Append(g, e), Notice(n)))
      BY <2>11
    <2>13. /\ Rising(h)
           /\ \A k \in DOMAIN h :
                 h[k] \in Notices \/ h[k] = e \/ \E j \in DOMAIN g : h[k] = g[j]
      <3>1. Rising(g) /\ \A i \in DOMAIN g : g[i] \in Notices \/ Contains(bus.log, g[i])
        BY <2>8 DEF GivenInv
      <3>2. \A i \in DOMAIN g :
              IsUpdate(e) /\ IsUpdate(g[i]) /\ g[i].id = e.id => g[i].n < e.n
        <4>1. SUFFICES ASSUME NEW i \in DOMAIN g, IsUpdate(e), IsUpdate(g[i]), g[i].id = e.id
                       PROVE  g[i].n < e.n
          OBVIOUS
        <4>2. Contains(bus.log, g[i])
          BY <3>1, <4>1, NoticeKinds
        <4>3. PICK j \in DOMAIN bus.log : bus.log[j] = g[i]
          BY <4>2 DEF Contains
        <4>4. QED
          BY <1>3, <4>1, <4>3
      <3>3. QED
        BY <2>11, <2>12, <3>1, <3>2, HandedInOrder
    <2>14. /\ chat' \in ChatSessions
           /\ chat'.queue = (IF flush THEN <<>> ELSE s.queue)
           /\ chat'.seen_ids = s.seen_ids /\ chat'.dropped_count = s.dropped_count
      <3>1. CASE flush
        <4>1. chat' = [s EXCEPT !.queue = <<>>]
          BY <2>2, <3>1 DEF Flushed
        <4>2. QED
          BY <2>11, <3>1, <4>1, FlushedIs
      <3>2. CASE ~flush
        BY <2>2, <2>11, <3>2
      <3>3. QED
        BY <3>1, <3>2
    <2>15. /\ wire' = [frames |-> (IF flush THEN h ELSE a), sent |-> wire.sent, replayed |-> r]
      <3>1. CASE flush
        <4>1. wire' = [wire EXCEPT !.frames = @ \o s.queue]
          BY <2>2, <3>1
        <4>2. wire' = [frames |-> a \o s.queue, sent |-> wire.sent, replayed |-> r]
          <5>1. PICK w : w = wire
            OBVIOUS
          <5>2. PICK x : x = w.sent
            OBVIOUS
          <5>3. w = [frames |-> a, sent |-> x, replayed |-> r]
            BY <2>5, <5>1, <5>2
          <5>4. wire' = [w EXCEPT !.frames = a \o s.queue]
            BY <2>3, <4>1, <5>1
          <5>5. wire' = [frames |-> a \o s.queue, sent |-> x, replayed |-> r]
            BY <5>3, <5>4
          <5>6. QED
            BY <5>1, <5>2, <5>5
        <4>3. QED
          BY <2>7, <3>1, <4>2
      <3>2. CASE ~flush
        BY <2>2, <2>5, <3>2
      <3>3. QED
        BY <3>1, <3>2
    <2>16. s.queue \in Seq(Outgoing)
      BY <2>11 DEF ChatSessions
    <2>17. Given' = h
      <3>1. CASE flush
        <4>1. Given' = h \o <<>>
          BY <2>14, <2>15, <3>1 DEF Given
        <4>2. QED
          BY <2>11, <4>1, EmptyBehind
      <3>2. CASE ~flush
        BY <2>7, <2>14, <2>15, <3>2 DEF Given
      <3>3. QED
        BY <3>1, <3>2
    <2>18. /\ wire' \in [frames: Seq(Outgoing), sent: Nat, replayed: Nat]
           /\ wire'.sent <= Len(wire'.frames) /\ wire'.replayed <= Len(wire'.frames)
      <3>1. Len(h) >= Len(a) /\ Len(a) \in Nat /\ Len(h) \in Nat
        BY <2>5, <2>7, <2>11, <2>16
      <3>2. wire.sent \in Nat /\ r \in Nat /\ wire.sent <= Len(h) /\ r <= Len(h)
            /\ wire.sent <= Len(a) /\ r <= Len(a)
        BY <2>5, <3>1
      <3>3. QED
        BY <2>5, <2>11, <2>15, <3>2
    <2>19. ChatType'
      <3>1. since' \in Seq(Events)
        BY <2>2, <2>5
      <3>2. QED
        BY <1>1, <1>5, <2>14, <2>18, <3>1 DEF ChatType
    <2>20. GivenInv'
      <3>1. \A i \in DOMAIN h : h[i] \in Notices \/ Contains(bus'.log, h[i])
        <4>1. SUFFICES ASSUME NEW i \in DOMAIN h, h[i] \notin Notices, h[i] # e
                       PROVE  Contains(bus'.log, h[i])
          BY <1>4
        <4>2. PICK j \in DOMAIN g : h[i] = g[j]
          BY <2>13, <4>1
        <4>3. Contains(bus.log, g[j])
          BY <2>8, <4>1, <4>2 DEF GivenInv
        <4>4. QED
          BY <1>4, <4>2, <4>3
      <3>2. \A m \in chat'.seen_ids : Contains(bus'.log, Message(m))
        <4>1. SUFFICES ASSUME NEW m \in s.seen_ids PROVE Contains(bus'.log, Message(m))
          BY <2>14
        <4>2. CASE m \in chat.seen_ids
          BY <1>4, <4>2 DEF GivenInv
        <4>3. CASE IsMessage(e) /\ m = e.id
          BY <1>4, <4>3, EventKinds
        <4>4. QED
          BY <2>11, <4>2, <4>3
      <3>3. ~links'.up => chat' = NewSession /\ wire'.frames = <<>>
        BY <1>1, <1>7
      <3>4. ~bus'.batch => chat'.queue = <<>>
        BY <1>2, <2>14
      <3>5. QED
        BY <2>13, <2>17, <2>18, <3>1, <3>2, <3>3, <3>4 DEF GivenInv
    <2>21. LossInv'
      <3>1. SinceReplay' = Behind(h, r)
        BY <2>15, <2>17 DEF SinceReplay, Behind
      <3>2. QED
        BY <2>2, <2>11, <2>14, <2>17, <3>1 DEF LossInv
    <2>22. QED
      BY <1>3, <1>7, <2>8, <2>11, <2>14, <2>15, <2>17, <2>19, <2>20, <2>21
  <1>8. QED
    BY <1>6, <1>7

(* The greatest of the places that holds a notice.                          *)
LEMMA LastNoticeIs ==
    ASSUME Given \in Seq(Outgoing), NEW d \in Nat, Reported(Given, d)
    PROVE  /\ LastNotice \in Nat
           /\ IF d = 0 THEN LastNotice = 0 ELSE LastNotice >= 1 /\ d <= LastNotice + 1
  <1>1. PICK g : g = Given
    OBVIOUS
  <1> DEFINE notices == {i \in DOMAIN g : g[i].kind = "BackpressureNotice"}
             last == CHOOSE i \in notices : \A j \in notices : j <= i
  <1>2. /\ LastNotice = IF notices = {} THEN 0 ELSE g[last].n
    BY <1>1 DEF LastNotice
  <1>3. g \in Seq(Outgoing) /\ Reported(g, d) /\ DOMAIN g = 1..Len(g) /\ Len(g) \in Nat
    BY <1>1
  <1>4. CASE d = 0
    <2>1. \A i \in DOMAIN g : g[i] \in Events
      BY <1>3, <1>4 DEF Reported, Outgoing
    <2>2. notices = {}
      BY <2>1, NoticeKinds
    <2>3. QED
      BY <1>2, <1>4, <2>2
  <1>5. CASE d # 0
    <2>1. g # <<>> /\ g[Len(g)] \in Notices /\ g[Len(g)].n >= 1 /\ d <= g[Len(g)].n + 1
      BY <1>3, <1>5 DEF Reported
    <2>2. Len(g) \in notices
      <3>1. Len(g) \in DOMAIN g
        BY <1>3, <2>1
      <3>2. QED
        BY <2>1, <3>1, NoticeKinds
    <2>3. \A j \in notices : j \in Nat /\ j <= Len(g)
      BY <1>3
    <2> HIDE DEF notices
    <2>4. last \in notices /\ \A j \in notices : j <= last
      BY <2>2, <2>3
    <2>5. last = Len(g)
      <3> HIDE DEF last
      <3>1. last \in Nat /\ last <= Len(g) /\ Len(g) <= last
        BY <2>2, <2>3, <2>4
      <3>2. Len(g) \in Nat
        BY <1>3
      <3>3. QED
        BY ONLY <3>1, <3>2
    <2> HIDE DEF last
    <2>6. LastNotice = g[Len(g)].n
      BY <1>2, <2>2, <2>5
    <2>7. g[Len(g)].n \in Nat
      BY <2>1 DEF Notices
    <2>8. QED
      BY <1>5, <2>1, <2>6, <2>7
  <1>6. QED
    BY <1>4, <1>5

LEMMA LossesTold ==
    ASSUME PublishInv
    PROVE  OnlyToldLosses
  <1>1. SUFFICES ASSUME links.up PROVE OnlyToldLosses
    BY DEF OnlyToldLosses
  <1>2. /\ Messages(since) = Messages(SinceReplay)
        /\ Counted(since, Given, chat.dropped_count)
        /\ Reported(Given, chat.dropped_count)
    BY <1>1 DEF PublishInv, LossInv
  <1>3. Given \in Seq(Outgoing) /\ chat.dropped_count \in Nat
    BY DEF PublishInv, ChatType, ChatSessions, Given
  <1>4. /\ LastNotice \in Nat
        /\ IF chat.dropped_count = 0 THEN LastNotice = 0
           ELSE LastNotice >= 1 /\ chat.dropped_count <= LastNotice + 1
    BY <1>2, <1>3, LastNoticeIs
  <1> DEFINE missing == ToSet(since) \ ToSet(Given)
  <1>5. IsFiniteSet(missing) /\ Cardinality(missing) <= chat.dropped_count
    BY <1>2 DEF Counted
  <1> HIDE DEF missing
  <1>6. Cardinality(missing) \in Nat
    BY <1>5, FS_CardinalityType
  <1>8. Cardinality(missing) <= LastNotice + 1
    BY <1>3, <1>4, <1>5, <1>6
  <1>9. LastNotice = 0 => missing = {}
    <2>1. LastNotice = 0 => chat.dropped_count = 0
      BY <1>4
    <2>2. LastNotice = 0 => Cardinality(missing) = 0
      BY <1>5, <1>6, <2>1
    <2>3. QED
      BY <1>5, <2>2, FS_EmptySet
  <1>10. QED
    BY <1>2, <1>8, <1>9 DEF OnlyToldLosses, missing

-----------------------------------------------------------------------------
LEMMA ChatStarts ==
    ASSUME ChatInit
    PROVE  PublishInv
  <1>1. /\ bus = [log |-> <<>>, batch |-> FALSE]
        /\ chat = [queue |-> <<>>, seen_ids |-> {}, dropped_count |-> 0]
        /\ wire = [frames |-> <<>>, sent |-> 0, replayed |-> 0]
        /\ since = <<>> /\ links = [count |-> 1, up |-> TRUE]
    BY DEF ChatInit, NewSession
  <1>2. PICK none : none = <<>>
    OBVIOUS
  <1>3. /\ none \in Seq(Events) /\ none \in Seq(Outgoing) /\ Len(none) = 0 /\ DOMAIN none = {}
        /\ none \o none = none
    BY <1>2
  <1>4. ChatType
    BY <1>1, <1>2, <1>3 DEF ChatType, ChatSessions
  <1>5. Given = none
    BY <1>1, <1>2, <1>3 DEF Given
  <1>6. LogInv
    BY <1>1, <1>2, <1>3 DEF LogInv, IsInjective, Rising
  <1>7. GivenInv
    BY <1>1, <1>2, <1>3, <1>5 DEF GivenInv, Rising
  <1>8. SinceReplay = none
    <2>1. SinceReplay = SubSeq(none, 1, 0)
      BY <1>1, <1>3, <1>5 DEF SinceReplay
    <2>2. QED
      BY <1>2, <1>3, <2>1
  <1>9. Counted(none, none, 0) /\ Reported(none, 0)
    <2>1. ToSet(none) \ ToSet(none) = {}
      OBVIOUS
    <2>2. QED
      BY <1>3, <2>1, FS_EmptySet DEF Counted, Reported
  <1>10. LossInv
    BY <1>1, <1>2, <1>5, <1>8, <1>9 DEF LossInv
  <1>11. QED
    BY <1>4, <1>6, <1>7, <1>10 DEF PublishInv

LEMMA ChatKeeps ==
    ASSUME PublishInv, [ChatNext]_chatVars
    PROVE  PublishInv'
  <1> USE DEF PublishInv
  <1>1. CASE \E e \in Events, flush \in BOOLEAN : Publish(e, flush)
    BY <1>1, PublishKeeps
  <1>2. CASE FlushBatch
    <2>1. /\ bus' = [bus EXCEPT !.batch = FALSE] /\ chat' = [chat EXCEPT !.queue = <<>>]
          /\ wire' = [wire EXCEPT !.frames = @ \o chat.queue]
          /\ UNCHANGED <<since, links>>
      BY <1>2 DEF FlushBatch, Flushed
    <2>2. PICK c : c = chat'
      OBVIOUS
    <2>3. /\ c \in ChatSessions /\ c.queue = <<>>
          /\ c.seen_ids = chat.seen_ids /\ c.dropped_count = chat.dropped_count
      <3>1. chat \in ChatSessions
        BY DEF ChatType
      <3>2. QED
        BY <2>1, <2>2, <3>1, FlushedIs
    <2>4. PICK g, a, upto, r : g = Given /\ a = wire.frames /\ upto = wire.sent /\ r = wire.replayed
      OBVIOUS
    <2>5. /\ a \in Seq(Outgoing) /\ upto \in Nat /\ r \in Nat
          /\ chat.queue \in Seq(Outgoing)
          /\ wire = [frames |-> a, sent |-> upto, replayed |-> r]
          /\ g = a \o chat.queue
      BY <2>4 DEF ChatType, ChatSessions, Given
    <2>6. /\ g \in Seq(Outgoing) /\ Len(g) >= Len(a) /\ Len(g) \in Nat /\ Len(a) \in Nat
          /\ upto <= Len(a) /\ r <= Len(a)
      <3>1. upto <= Len(a) /\ r <= Len(a)
        BY <2>4 DEF GivenInv
      <3>2. PICK q : q = chat.queue
        OBVIOUS
      <3>3. q \in Seq(Outgoing) /\ g = a \o q
        BY <2>5, <3>2
      <3>4. g \in Seq(Outgoing) /\ Len(g) = Len(a) + Len(q)
        BY <2>5, <3>3
      <3>5. QED
        BY <2>5, <3>1, <3>3, <3>4
    <2>7. wire' = [frames |-> g, sent |-> upto, replayed |-> r]
      <3>1. wire' = [wire EXCEPT !.frames = g]
        BY <2>1, <2>4 DEF Given
      <3>2. QED
        BY <2>5, <3>1
    <2>8. Given' = g
      <3>1. Given' = g \o <<>>
        BY <2>2, <2>3, <2>7 DEF Given
      <3>2. QED
        BY <2>6, <3>1, EmptyBehind
    <2>9. bus'.log = bus.log /\ bus' \in [log: Seq(Events), batch: BOOLEAN]
      BY <2>1 DEF ChatType
    <2>10. ChatType'
      BY <2>1, <2>2, <2>3, <2>5, <2>6, <2>7, <2>9 DEF ChatType
    <2>11. LogInv'
      BY <2>9 DEF LogInv
    <2>12. GivenInv'
      <3>1. upto <= Len(g) /\ r <= Len(g)
        BY <2>5, <2>6
      <3>2. ~links'.up => chat' = NewSession /\ wire'.frames = <<>>
        <4>1. ASSUME ~links.up PROVE c = NewSession /\ g = <<>>
          <5>1. chat = NewSession /\ a = <<>> /\ chat.queue = <<>>
            BY <2>4, <4>1 DEF GivenInv, NewSession
          <5>2. c = NewSession
            BY <2>1, <2>2, <5>1 DEF NewSession
          <5>3. g = <<>>
            BY <2>5, <5>1
          <5>4. QED
            BY <5>2, <5>3
        <4>2. QED
          BY <2>1, <2>2, <2>7, <4>1
      <3>3. QED
        BY <2>2, <2>3, <2>4, <2>7, <2>8, <2>9, <3>1, <3>2 DEF GivenInv
    <2>13. LossInv'
      <3>1. SinceReplay' = SinceReplay
        BY <2>4, <2>7, <2>8 DEF SinceReplay
      <3>2. QED
        BY <2>1, <2>2, <2>3, <2>4, <2>8, <3>1 DEF LossInv
    <2>14. QED
      BY <2>10, <2>11, <2>12, <2>13
  <1>3. CASE LinkLost
    <2>1. /\ links' = [links EXCEPT !.up = FALSE]
          /\ chat' = [queue |-> <<>>, seen_ids |-> {}, dropped_count |-> 0]
          /\ wire' = [frames |-> <<>>, sent |-> 0, replayed |-> 0]
          /\ bus' = bus /\ since' = since
      BY <1>3 DEF LinkLost, NewSession
    <2>2. PICK none : none = <<>>
      OBVIOUS
    <2>3. none \in Seq(Outgoing) /\ Len(none) = 0 /\ DOMAIN none = {} /\ none \o none = none
      BY <2>2
    <2>4. Given' = none
      BY <2>1, <2>2, <2>3 DEF Given
    <2>5. links' \in [count: Nat \ {0}, up: BOOLEAN] /\ ~links'.up
      BY <2>1 DEF ChatType
    <2>6. ChatType'
      BY <2>1, <2>2, <2>3, <2>5 DEF ChatType, ChatSessions
    <2>7. LogInv'
      BY <2>1 DEF LogInv
    <2>8. GivenInv'
      BY <2>1, <2>2, <2>3, <2>4 DEF GivenInv, Rising, NewSession
    <2>9. LossInv'
      BY <2>5 DEF LossInv
    <2>10. QED
      BY <2>6, <2>7, <2>8, <2>9
  <1>4. CASE Reconnect
    <2>1. /\ ~links.up /\ links' = [count |-> links.count + 1, up |-> TRUE]
          /\ since' = <<>> /\ bus' = bus /\ chat' = chat
      BY <1>4 DEF Reconnect
    <2>2. PICK held : held = Messages(bus.log)
      OBVIOUS
    <2>3. PICK oldest \in 1..(Len(held) + 1) :
             wire' = [frames |-> SubSeq(held, oldest, Len(held)), sent |-> 0,
                      replayed |-> Len(held) - oldest + 1]
      BY <1>4, <2>2 DEF Reconnect
    <2>4. /\ held \in Seq(Events)
          /\ \A k \in DOMAIN held : IsMessage(held[k]) /\ Contains(bus.log, held[k])
      <3>1. bus.log \in Seq(Events)
        BY DEF ChatType
      <3>2. QED
        BY <2>2, <3>1, MessagesAre
    <2>5. PICK sub : sub = SubSeq(held, oldest, Len(held))
      OBVIOUS
    <2>6. /\ sub \in Seq(Events) /\ Len(sub) = Len(held) - oldest + 1 /\ Len(sub) \in Nat
          /\ \A k \in DOMAIN sub : IsMessage(sub[k]) /\ Contains(bus.log, sub[k])
      <3>1. /\ Len(held) \in Nat
            /\ sub = [k \in 1..(Len(held) - oldest + 1) |-> held[k + oldest - 1]]
            /\ \A k \in oldest..Len(held) : held[k] \in Events
        BY <2>4, <2>5
      <3>2. \A k \in 1..(Len(held) - oldest + 1) : k + oldest - 1 \in oldest..Len(held)
                                                   /\ k + oldest - 1 \in DOMAIN held
        BY <2>4, <3>1
      <3>3. QED
        BY <2>4, <3>1, <3>2
    <2>7. sub \in Seq(Outgoing)
      BY <2>6 DEF Outgoing
    <2>8. wire' = [frames |-> sub, sent |-> 0, replayed |-> Len(sub)]
      BY <2>3, <2>5, <2>6
    <2>9. chat = NewSession /\ chat.queue = <<>> /\ chat.dropped_count = 0
      BY <2>1 DEF GivenInv, NewSession
    <2>10. Given' = sub
      <3>1. Given' = sub \o <<>>
        BY <2>1, <2>8, <2>9 DEF Given
      <3>2. QED
        BY <2>7, <3>1, EmptyBehind
    <2>11. links' \in [count: Nat \ {0}, up: BOOLEAN] /\ links'.up
      BY <2>1 DEF ChatType
    <2>12. PICK none : none = <<>>
      OBVIOUS
    <2>13. none \in Seq(Events) /\ Len(none) = 0 /\ DOMAIN none = {}
      BY <2>12
    <2>14. ChatType'
      <3>1. wire' \in [frames: Seq(Outgoing), sent: Nat, replayed: Nat]
        BY <2>6, <2>7, <2>8
      <3>2. since' \in Seq(Events)
        BY <2>1, <2>12, <2>13
      <3>3. QED
        BY <2>1, <2>11, <3>1, <3>2 DEF ChatType
    <2>15. LogInv'
      BY <2>1 DEF LogInv
    <2>16. GivenInv'
      <3>1. Rising(sub)
        BY <2>6 DEF Rising, IsMessage, IsUpdate
      <3>2. QED
        BY <2>1, <2>6, <2>8, <2>9, <2>10, <2>11, <3>1 DEF GivenInv
    <2>17. LossInv'
      <3>1. SinceReplay' = none
        <4>1. SinceReplay' = SubSeq(sub, Len(sub) + 1, Len(sub))
          BY <2>8, <2>10 DEF SinceReplay
        <4>2. QED
          BY <2>6, <2>12, <4>1
      <3>2. ToSet(none) \ ToSet(sub) = {}
        BY <2>13 DEF ToSet
      <3>3. Counted(none, sub, 0)
        BY <3>2, FS_EmptySet DEF Counted
      <3>4. Reported(sub, 0)
        <4>1. \A k \in DOMAIN sub : sub[k] \notin Notices
          BY <2>6, NoticeKinds
        <4>2. QED
          BY <4>1 DEF Reported
      <3>5. QED
        BY <2>1, <2>9, <2>10, <2>12, <3>1, <3>3, <3>4 DEF LossInv
    <2>18. QED
      BY <2>14, <2>15, <2>16, <2>17
  <1>5. CASE WriterSends
    <2>1. /\ wire.sent < Len(wire.frames) /\ wire' = [wire EXCEPT !.sent = @ + 1]
          /\ UNCHANGED <<bus, chat, since, links>>
      BY <1>5 DEF WriterSends
    <2>2. PICK a, upto, r : a = wire.frames /\ upto = wire.sent /\ r = wire.replayed
      OBVIOUS
    <2>3. /\ a \in Seq(Outgoing) /\ upto \in Nat /\ r \in Nat
          /\ wire = [frames |-> a, sent |-> upto, replayed |-> r]
      BY <2>2 DEF ChatType
    <2>4. wire' = [frames |-> a, sent |-> upto + 1, replayed |-> r]
      BY <2>1, <2>3
    <2>5. upto + 1 <= Len(a)
      BY <2>1, <2>2, <2>3
    <2>6. Given' = Given /\ SinceReplay' = SinceReplay
      BY <2>1, <2>2, <2>4 DEF Given, SinceReplay
    <2>7. ChatType'
      BY <2>1, <2>3, <2>4 DEF ChatType
    <2>8. LogInv'
      BY <2>1 DEF LogInv
    <2>9. GivenInv'
      BY <2>1, <2>2, <2>3, <2>4, <2>5, <2>6 DEF GivenInv
    <2>10. LossInv'
      BY <2>1, <2>6 DEF LossInv
    <2>11. QED
      BY <2>7, <2>8, <2>9, <2>10
  <1>6. CASE SweepOrphans \/ UNCHANGED chatVars
    <2>1. UNCHANGED <<bus, chat, wire, since, links>>
      BY <1>6 DEF SweepOrphans, chatVars
    <2>2. Given' = Given /\ SinceReplay' = SinceReplay
      BY <2>1 DEF Given, SinceReplay
    <2>3. ChatType' /\ LogInv'
      BY <2>1 DEF ChatType, LogInv
    <2>4. GivenInv' /\ LossInv'
      BY <2>1, <2>2 DEF GivenInv, LossInv
    <2>5. QED
      BY <2>3, <2>4
  <1>7. QED
    BY <1>1, <1>2, <1>3, <1>4, <1>5, <1>6 DEF ChatNext

(* Whatever is published, and in whatever batches, a connected subscriber  *)
(* is handed every message in order, and the last notice counts all that   *)
(* it was not handed but one (Session.enqueue, ChatBus.publish and         *)
(* publish_many).                                                          *)
THEOREM OnlyToldLossesHolds ==
    ChatInit /\ [][ChatNext]_chatVars => []OnlyToldLosses
  <1>1. ChatInit => PublishInv
    BY ChatStarts
  <1>2. PublishInv /\ [ChatNext]_chatVars => PublishInv'
    BY ChatKeeps
  <1>3. PublishInv => OnlyToldLosses
    BY LossesTold
  <1>4. QED
    BY <1>1, <1>2, <1>3, PTL

-----------------------------------------------------------------------------
(* ClientMessageStore                                                       *)

Growing(seq) == \A i, j \in DOMAIN seq : i < j => seq[i] < seq[j]

\* The updates of message m that are still to be sent come after the n-th.
Ahead(g, upto, m, n) ==
    \A j \in DOMAIN g : j > upto /\ IsUpdate(g[j]) /\ g[j].id = m => n < g[j].n

StoreOf(st) ==
    /\ st = [order |-> st.order, body |-> st.body, done |-> st.done, orphans |-> st.orphans]
    /\ st.order \in Seq(Ids)
    /\ st.body \in [ToSet(st.order) -> Seq(1..Deltas)]
    /\ st.done \subseteq ToSet(st.order)
    /\ st.orphans \in Seq({e \in Events : IsUpdate(e)})

BodyIn(st, m, log, g, upto) ==
    /\ Growing(st.body[m])
    /\ \A k \in ToSet(st.body[m]) : Contains(log, Update(m, k)) /\ Ahead(g, upto, m, k)
    /\ m \in st.done /\ m \in Streamed => Contains(st.body[m], Deltas)

OrphanIn(st, e, log, g, upto) ==
    Contains(log, e) /\ ~Contains(st.order, e.id) /\ Ahead(g, upto, e.id, e.n)

\* What the client has of a message was published, in order, and comes before
\* all that is still to be sent of it; so does what waits for its message.
BodyInv(st, log, g, upto) ==
    /\ IsInjective(st.order)
    /\ \A m \in ToSet(st.order) : BodyIn(st, m, log, g, upto)
    /\ Rising(st.orphans)
    /\ \A i \in DOMAIN st.orphans : OrphanIn(st, st.orphans[i], log, g, upto)

(* Other logs and other frames do no harm that leave what is to come behind *)
(* what has been.                                                           *)
LEMMA BodiesKept ==
    ASSUME NEW st, StoreOf(st), NEW log, NEW g, NEW upto, BodyInv(st, log, g, upto),
           NEW more, NEW h, NEW reach,
           \A x : Contains(log, x) => Contains(more, x),
           \A m, k : Contains(log, Update(m, k)) /\ Ahead(g, upto, m, k) => Ahead(h, reach, m, k)
    PROVE  BodyInv(st, more, h, reach)
  <1>1. \A m \in ToSet(st.order) : BodyIn(st, m, more, h, reach)
    BY DEF BodyInv, BodyIn
  <1>2. ASSUME NEW i \in DOMAIN st.orphans
        PROVE  OrphanIn(st, st.orphans[i], more, h, reach)
    <2>1. st.orphans[i] \in Events /\ IsUpdate(st.orphans[i])
      BY DEF StoreOf
    <2>2. st.orphans[i] = Update(st.orphans[i].id, st.orphans[i].n)
      BY <2>1, EventKinds
    <2>3. OrphanIn(st, st.orphans[i], log, g, upto)
      BY DEF BodyInv
    <2>4. QED
      BY <2>2, <2>3 DEF OrphanIn
  <1>3. QED
    BY <1>1, <1>2 DEF BodyInv

\* The frame x is the next one to be sent.
Taking(st, x, log, g, upto) ==
    /\ StoreOf(st) /\ BodyInv(st, log, g, upto)
    /\ g \in Seq(Outgoing) /\ Rising(g) /\ upto \in Nat /\ upto + 1 \in DOMAIN g
    /\ x = g[upto + 1] /\ x \in Events /\ Contains(log, x)

LEMMA TakingIs ==
    ASSUME NEW st, NEW x, NEW log, NEW g, NEW upto, Taking(st, x, log, g, upto)
    PROVE  /\ \A m, k : Ahead(g, upto, m, k) => Ahead(g, upto + 1, m, k)
           /\ IsUpdate(x) => Ahead(g, upto + 1, x.id, x.n)
           /\ \A k : IsUpdate(x) /\ Ahead(g, upto, x.id, k) => k < x.n
           /\ BodyInv(st, log, g, upto + 1)
  <1>1. upto \in Nat /\ DOMAIN g = 1..Len(g) /\ Len(g) \in Nat /\ upto + 1 \in DOMAIN g
        /\ x = g[upto + 1] /\ Rising(g)
    BY DEF Taking
  <1>2. \A j \in DOMAIN g : j > upto + 1 => j > upto
    BY <1>1
  <1>3. \A m, k : Ahead(g, upto, m, k) => Ahead(g, upto + 1, m, k)
    BY <1>2 DEF Ahead
  <1>4. IsUpdate(x) => Ahead(g, upto + 1, x.id, x.n)
    <2>1. \A j \in DOMAIN g : j > upto + 1 => upto + 1 < j
      BY <1>1
    <2>2. QED
      BY <1>1, <2>1 DEF Ahead, Rising
  <1>5. \A k : IsUpdate(x) /\ Ahead(g, upto, x.id, k) => k < x.n
    <2>1. upto + 1 > upto
      BY <1>1
    <2>2. QED
      BY <1>1, <2>1 DEF Ahead
  <1>6. BodyInv(st, log, g, upto + 1)
    BY <1>3, BodiesKept DEF Taking
  <1>7. QED
    BY <1>3, <1>4, <1>5, <1>6

LEMMA GrowingAppend ==
    ASSUME NEW T, T \subseteq Nat, NEW seq \in Seq(T), NEW n \in T, Growing(seq),
           \A k \in ToSet(seq) : k < n
    PROVE  Growing(Append(seq, n))
  <1> DEFINE longer == Append(seq, n)
  <1>1. /\ Len(seq) \in Nat
        /\ DOMAIN seq = 1..Len(seq) /\ DOMAIN longer = 1..(Len(seq) + 1)
        /\ longer[Len(seq) + 1] = n
        /\ \A k \in 1..Len(seq) : longer[k] = seq[k]
        /\ \A k \in 1..(Len(seq) + 1) : k \in 1..Len(seq) \/ k = Len(seq) + 1
    BY AppendIs
  <1> HIDE DEF longer
  <1>2. SUFFICES ASSUME NEW i \in 1..(Len(seq) + 1), NEW j \in 1..(Len(seq) + 1), i < j
                 PROVE  longer[i] < longer[j]
    BY <1>1 DEF Growing, longer
  <1>3. i \in 1..Len(seq)
    BY <1>1, <1>2
  <1>4. CASE j \in 1..Len(seq)
    BY <1>1, <1>2, <1>3, <1>4 DEF Growing
  <1>5. CASE j = Len(seq) + 1
    <2>1. seq[i] \in ToSet(seq)
      BY <1>1, <1>3 DEF ToSet
    <2>2. QED
      BY <1>1, <1>3, <1>5, <2>1
  <1>6. QED
    BY <1>1, <1>4, <1>5

(* An update of a known message.                                            *)
LEMMA AppliedKeeps ==
    ASSUME NEW st, NEW x, NEW log, NEW g, NEW upto, Taking(st, x, log, g, upto),
           IsUpdate(x), Contains(st.order, x.id)
    PROVE  /\ StoreOf(Applied(st, x)) /\ BodyInv(Applied(st, x), log, g, upto + 1)
           /\ Applied(st, x).order = st.order
           /\ \A m \in ToSet(st.order) : \A k \in ToSet(st.body[m]) :
                 k \in ToSet(Applied(st, x).body[m])
           /\ x.n \in ToSet(Applied(st, x).body[x.id])
  <1>1. /\ \A m, k : Ahead(g, upto, m, k) => Ahead(g, upto + 1, m, k)
        /\ Ahead(g, upto + 1, x.id, x.n)
        /\ \A k : Ahead(g, upto, x.id, k) => k < x.n
        /\ BodyInv(st, log, g, upto + 1)
    BY TakingIs
  <1>2. /\ x.id \in Streamed /\ x.n \in 1..Deltas /\ x = Update(x.id, x.n) /\ Contains(log, x)
    BY EventKinds DEF Taking
  <1>3. x.id \in ToSet(st.order)
    BY DEF Contains, ToSet
  <1>4. StoreOf(st) /\ BodyInv(st, log, g, upto)
    BY DEF Taking
  <1>5. PICK order, body, done, orphans :
           /\ order = st.order /\ body = st.body /\ done = st.done /\ orphans = st.orphans
    OBVIOUS
  <1>6. /\ st = [order |-> order, body |-> body, done |-> done, orphans |-> orphans]
        /\ order \in Seq(Ids) /\ body \in [ToSet(order) -> Seq(1..Deltas)]
        /\ done \subseteq ToSet(order) /\ orphans \in Seq({e \in Events : IsUpdate(e)})
    BY <1>4, <1>5 DEF StoreOf
  <1>7. /\ Growing(body[x.id])
        /\ \A k \in ToSet(body[x.id]) : Contains(log, Update(x.id, k)) /\ Ahead(g, upto, x.id, k)
        /\ x.id \in done => Contains(body[x.id], Deltas)
    BY <1>2, <1>3, <1>4, <1>5 DEF BodyInv, BodyIn
  <1>8. x.id \notin done
    <2>1. SUFFICES ASSUME x.id \in done PROVE FALSE
      OBVIOUS
    <2>2. Deltas \in ToSet(body[x.id])
      BY <1>7, <2>1 DEF Contains, ToSet
    <2>3. Deltas < x.n
      BY <1>1, <1>7, <2>2
    <2>4. QED
      BY <1>2, <2>3, SessionAssumption
  <1> DEFINE longer == Append(body[x.id], x.n)
             bodies == [body EXCEPT ![x.id] = longer]
             finished == IF x.n = Deltas THEN done \cup {x.id} ELSE done
  <1>9. Applied(st, x) = [order |-> order, body |-> bodies, done |-> finished, orphans |-> orphans]
    BY <1>5, <1>6, <1>8 DEF Applied
  <1>10. /\ body[x.id] \in Seq(1..Deltas) /\ longer \in Seq(1..Deltas)
         /\ ToSet(longer) = ToSet(body[x.id]) \cup {x.n}
         /\ Growing(longer)
    <2>1. body[x.id] \in Seq(1..Deltas)
      BY <1>3, <1>5, <1>6
    <2>2. \A k \in ToSet(body[x.id]) : k < x.n
      BY <1>1, <1>7
    <2>3. 1..Deltas \subseteq Nat
      BY SessionAssumption
    <2>4. PICK b : b = body[x.id]
      OBVIOUS
    <2>5. /\ Append(b, x.n) \in Seq(1..Deltas)
          /\ ToSet(Append(b, x.n)) = ToSet(b) \cup {x.n}
      <3>1. PICK T, n : T = 1..Deltas /\ n = x.n
        OBVIOUS
      <3>2. b \in Seq(T) /\ n \in T
        BY <1>2, <2>1, <2>4, <3>1
      <3>3. Append(b, n) \in Seq(T) /\ ToSet(Append(b, n)) = ToSet(b) \cup {n}
        BY <3>2, ToSetAppend
      <3>4. QED
        BY <3>1, <3>3
    <2>6. Growing(Append(b, x.n))
      BY <1>2, <1>7, <2>1, <2>2, <2>3, <2>4, GrowingAppend
    <2>7. QED
      BY <2>1, <2>4, <2>5, <2>6
  <1>11. /\ bodies \in [ToSet(order) -> Seq(1..Deltas)]
         /\ bodies[x.id] = longer
         /\ \A m \in ToSet(order) : m # x.id => bodies[m] = body[m]
    <2> HIDE DEF longer
    <2>1. QED
      BY <1>3, <1>5, <1>6, <1>10
  <1>12. PICK new : new = Applied(st, x)
    OBVIOUS
  <1> HIDE DEF longer, bodies
  <1>13. /\ new.order = order /\ new.body = bodies /\ new.done = finished /\ new.orphans = orphans
         /\ new = [order |-> order, body |-> bodies, done |-> finished, orphans |-> orphans]
    BY <1>9, <1>12
  <1>14. StoreOf(new)
    <2>1. finished \subseteq ToSet(order)
      BY <1>3, <1>5, <1>6
    <2>2. QED
      BY <1>6, <1>11, <1>13, <2>1 DEF StoreOf
  <1>15. ASSUME NEW m \in ToSet(order) PROVE BodyIn(new, m, log, g, upto + 1)
    <2>1. CASE m = x.id
      <3>1. \A k \in ToSet(longer) : Contains(log, Update(m, k)) /\ Ahead(g, upto + 1, m, k)
        BY <1>1, <1>2, <1>7, <1>10, <2>1
      <3>2. m \in finished => Contains(longer, Deltas)
        <4>1. m \in finished => x.n = Deltas
          BY <1>8, <2>1
        <4>2. x.n \in ToSet(longer)
          BY <1>10
        <4>3. QED
          BY <4>1, <4>2 DEF Contains, ToSet
      <3>3. QED
        BY <1>10, <1>11, <1>13, <2>1, <3>1, <3>2 DEF BodyIn
    <2>2. CASE m # x.id
      <3>1. BodyIn(st, m, log, g, upto + 1)
        BY <1>1, <1>5 DEF BodyInv
      <3>2. m \in finished => m \in done
        BY <2>2
      <3>3. QED
        BY <1>5, <1>11, <1>13, <2>2, <3>1, <3>2 DEF BodyIn
    <2>3. QED
      BY <2>1, <2>2
  <1>16. \A i \in DOMAIN orphans : OrphanIn(new, orphans[i], log, g, upto + 1)
    BY <1>1, <1>5, <1>13 DEF BodyInv, OrphanIn
  <1>17. BodyInv(new, log, g, upto + 1)
    BY <1>4, <1>5, <1>13, <1>15, <1>16 DEF BodyInv
  <1>18. \A m \in ToSet(order) : \A k \in ToSet(body[m]) : k \in ToSet(bodies[m])
    BY <1>10, <1>11
  <1>19. x.n \in ToSet(bodies[x.id])
    BY <1>10, <1>11
  <1>20. QED
    BY <1>5, <1>12, <1>13, <1>14, <1>17, <1>18, <1>19

(* An update that comes before its message.                                 *)
LEMMA OrphanedKeeps ==
    ASSUME NEW st, NEW x, NEW log, NEW g, NEW upto, Taking(st, x, log, g, upto),
           IsUpdate(x), ~Contains(st.order, x.id),
           NEW new, new = [st EXCEPT !.orphans = Append(@, x)]
    PROVE  /\ StoreOf(new) /\ BodyInv(new, log, g, upto + 1)
           /\ new.order = st.order /\ new.body = st.body
  <1>1. /\ \A m, k : Ahead(g, upto, m, k) => Ahead(g, upto + 1, m, k)
        /\ Ahead(g, upto + 1, x.id, x.n)
        /\ \A k : Ahead(g, upto, x.id, k) => k < x.n
        /\ BodyInv(st, log, g, upto + 1)
    BY TakingIs
  <1>2. StoreOf(st) /\ BodyInv(st, log, g, upto) /\ Contains(log, x) /\ x \in Events
    BY DEF Taking
  <1>3. PICK order, body, done, orphans :
           /\ order = st.order /\ body = st.body /\ done = st.done /\ orphans = st.orphans
    OBVIOUS
  <1> DEFINE U == {e \in Events : IsUpdate(e)}
             longer == Append(orphans, x)
  <1>4. /\ st = [order |-> order, body |-> body, done |-> done, orphans |-> orphans]
        /\ orphans \in Seq(U) /\ x \in U
    BY <1>2, <1>3 DEF StoreOf
  <1>5. new = [order |-> order, body |-> body, done |-> done, orphans |-> longer]
    BY <1>3, <1>4
  <1> HIDE DEF U
  <1>6. /\ longer \in Seq(U) /\ Len(orphans) \in Nat
        /\ DOMAIN orphans = 1..Len(orphans) /\ DOMAIN longer = 1..(Len(orphans) + 1)
        /\ longer[Len(orphans) + 1] = x
        /\ \A k \in 1..Len(orphans) : longer[k] = orphans[k]
        /\ \A k \in 1..(Len(orphans) + 1) : k \in 1..Len(orphans) \/ k = Len(orphans) + 1
    BY <1>4, AppendIs
  <1>7. Rising(longer)
    <2>1. Rising(orphans)
      BY <1>2, <1>3 DEF BodyInv
    <2>2. \A i \in DOMAIN orphans :
            IsUpdate(x) /\ IsUpdate(orphans[i]) /\ orphans[i].id = x.id => orphans[i].n < x.n
      BY <1>1, <1>2, <1>3 DEF BodyInv, OrphanIn
    <2>3. QED
      BY <1>4, <2>1, <2>2, RisingAppend
  <1> HIDE DEF longer
  <1>8. /\ new.order = order /\ new.body = body /\ new.done = done /\ new.orphans = longer
    BY <1>5
  <1>9. StoreOf(new)
    BY <1>2, <1>3, <1>5, <1>6, <1>8 DEF StoreOf, U
  <1>10. ASSUME NEW i \in DOMAIN longer PROVE OrphanIn(new, longer[i], log, g, upto + 1)
    <2>1. CASE i \in 1..Len(orphans)
      <3>1. OrphanIn(st, orphans[i], log, g, upto + 1)
        BY <1>1, <1>3, <1>6, <2>1 DEF BodyInv
      <3>2. QED
        BY <1>3, <1>6, <1>8, <2>1, <3>1 DEF OrphanIn
    <2>2. CASE i = Len(orphans) + 1
      BY <1>1, <1>2, <1>3, <1>6, <1>8, <2>2 DEF OrphanIn
    <2>3. QED
      BY <1>6, <2>1, <2>2
  <1>11. \A m \in ToSet(order) : BodyIn(new, m, log, g, upto + 1)
    BY <1>1, <1>3, <1>8 DEF BodyInv, BodyIn
  <1>12. QED
    BY <1>2, <1>3, <1>7, <1>8, <1>9, <1>10, <1>11 DEF BodyInv

(* A selection of what rises does rise.                                     *)
LEMMA PickedRises ==
    ASSUME NEW T, NEW seq \in Seq(T), NEW P, P \subseteq DOMAIN seq, Rising(seq)
    PROVE  /\ Picked(seq, P) \in Seq(T) /\ Rising(Picked(seq, P))
           /\ \A k \in DOMAIN Picked(seq, P) : \E i \in P : Picked(seq, P)[k] = seq[i]
  <1> DEFINE n == Cardinality(P)
             picked == Picked(seq, P)
  <1>1. /\ n \in Nat /\ picked \in Seq(T) /\ Len(picked) = n
        /\ \E pos \in Bijection(1..n, P) :
              /\ \A j, k \in 1..n : j < k => pos[j] < pos[k]
              /\ \A k \in 1..n : picked[k] = seq[pos[k]]
    BY PickedPlaces
  <1> HIDE DEF n, picked
  <1>2. PICK pos \in Bijection(1..n, P) :
              /\ \A j, k \in 1..n : j < k => pos[j] < pos[k]
              /\ \A k \in 1..n : picked[k] = seq[pos[k]]
    BY <1>1
  <1>3. \A k \in 1..n : pos[k] \in P
    BY DEF Bijection, Injection
  <1>4. DOMAIN picked = 1..n
    BY <1>1
  <1>5. Rising(picked)
    BY <1>2, <1>3, <1>4 DEF Rising
  <1>6. \A k \in DOMAIN picked : \E i \in P : picked[k] = seq[i]
    BY <1>2, <1>3, <1>4
  <1>7. QED
    BY <1>1, <1>5, <1>6 DEF picked

(* A new message takes the updates that came before it.                     *)
LEMMA ArrivedKeeps ==
    ASSUME NEW st, NEW x, NEW log, NEW g, NEW upto, Taking(st, x, log, g, upto), IsMessage(x)
    PROVE  /\ StoreOf(Arrived(st, x.id)) /\ BodyInv(Arrived(st, x.id), log, g, upto + 1)
           /\ ToSet(Arrived(st, x.id).order) = ToSet(st.order) \cup {x.id}
           /\ \A m \in ToSet(st.order) : Arrived(st, x.id).body[m] = st.body[m]
  <1>1. /\ \A m, k : Ahead(g, upto, m, k) => Ahead(g, upto + 1, m, k)
        /\ BodyInv(st, log, g, upto + 1)
    BY TakingIs
  <1>2. StoreOf(st) /\ BodyInv(st, log, g, upto) /\ x \in Events
    BY DEF Taking
  <1>3. PICK m : m = x.id
    OBVIOUS
  <1>4. m \in Ids
    BY <1>2, <1>3, EventKinds
  <1>5. CASE Contains(st.order, m)
    <2>1. Arrived(st, m) = st
      BY <1>5 DEF Arrived
    <2>2. m \in ToSet(st.order)
      BY <1>5 DEF Contains, ToSet
    <2>3. QED
      BY <1>1, <1>2, <1>3, <2>1, <2>2
  <1>6. CASE ~Contains(st.order, m)
    <2>1. PICK order, body, done, orphans :
             /\ order = st.order /\ body = st.body /\ done = st.done /\ orphans = st.orphans
      OBVIOUS
    <2> DEFINE U == {e \in Events : IsUpdate(e)}
               P == Applicable(orphans, m)
               Q == {i \in DOMAIN orphans : orphans[i].id # m}
               picked == Picked(orphans, P)
               text == [k \in DOMAIN picked |-> picked[k].n]
               rest == Picked(orphans, Q)
               longer == Append(order, m)
               bodies == [k \in DOMAIN body \cup {m} |-> IF k = m THEN text ELSE body[k]]
               finished == IF m \in Whole \/ Contains(text, Deltas) THEN done \cup {m} ELSE done
    <2>2. /\ order \in Seq(Ids) /\ body \in [ToSet(order) -> Seq(1..Deltas)]
          /\ done \subseteq ToSet(order) /\ orphans \in Seq(U)
          /\ IsInjective(order) /\ Rising(orphans)
      BY <1>2, <2>1 DEF StoreOf, BodyInv
    <2>3. Arrived(st, m) = [order |-> longer, body |-> bodies, done |-> finished, orphans |-> rest]
      BY <1>6, <2>1 DEF Arrived
    <2>4. m \notin ToSet(order)
      <3>1. ToSet(order) = {order[i] : i \in DOMAIN order}
        BY DEF ToSet
      <3>2. QED
        BY <1>6, <2>1, <3>1 DEF Contains
    <2>5. /\ P \subseteq DOMAIN orphans /\ Q \subseteq DOMAIN orphans
          /\ \A i \in P : orphans[i].id = m
          /\ \A i \in Q : orphans[i].id # m
      BY DEF Applicable
    <2> HIDE DEF P, Q, U
    <2>6. /\ picked \in Seq(U) /\ Rising(picked)
          /\ \A k \in DOMAIN picked : \E i \in P : picked[k] = orphans[i]
      BY <2>2, <2>5, PickedRises
    <2>7. /\ rest \in Seq(U) /\ Rising(rest)
          /\ \A k \in DOMAIN rest : \E i \in Q : rest[k] = orphans[i]
      BY <2>2, <2>5, PickedRises
    <2> HIDE DEF picked, rest
    <2>8. \A i \in DOMAIN orphans : /\ Contains(log, orphans[i])
                                    /\ ~Contains(order, orphans[i].id)
                                    /\ Ahead(g, upto + 1, orphans[i].id, orphans[i].n)
      BY <1>1, <2>1 DEF BodyInv, OrphanIn
    <2>9. \A k \in DOMAIN picked :
             /\ picked[k] \in Events /\ IsUpdate(picked[k]) /\ picked[k].id = m
             /\ picked[k].n \in 1..Deltas /\ picked[k] = Update(m, picked[k].n)
             /\ Contains(log, picked[k]) /\ Ahead(g, upto + 1, m, picked[k].n)
      <3> SUFFICES ASSUME NEW k \in DOMAIN picked
                   PROVE  /\ picked[k] \in Events /\ IsUpdate(picked[k]) /\ picked[k].id = m
                          /\ picked[k].n \in 1..Deltas /\ picked[k] = Update(m, picked[k].n)
                          /\ Contains(log, picked[k]) /\ Ahead(g, upto + 1, m, picked[k].n)
        OBVIOUS
      <3>1. PICK i \in P : picked[k] = orphans[i]
        BY <2>6
      <3>2. picked[k] \in Events /\ IsUpdate(picked[k]) /\ picked[k].id = m
        BY <2>5, <2>6, <3>1 DEF U
      <3>3. i \in DOMAIN orphans
        BY <2>5
      <3>4. Contains(log, picked[k]) /\ Ahead(g, upto + 1, m, picked[k].n)
        BY <2>8, <3>1, <3>2, <3>3
      <3>5. QED
        BY <3>2, <3>4, EventKinds
    <2>10. /\ text \in Seq(1..Deltas) /\ DOMAIN text = DOMAIN picked
           /\ \A k \in DOMAIN text : text[k] = picked[k].n
      <3>1. DOMAIN picked = 1..Len(picked) /\ Len(picked) \in Nat
        BY <2>6
      <3>2. QED
        BY <2>9, <3>1
    <2> HIDE DEF text
    <2>11. Growing(text)
      BY <2>6, <2>9, <2>10 DEF Growing, Rising
    <2>12. \A k \in ToSet(text) : Contains(log, Update(m, k)) /\ Ahead(g, upto + 1, m, k)
      <3> SUFFICES ASSUME NEW k \in ToSet(text)
                   PROVE  Contains(log, Update(m, k)) /\ Ahead(g, upto + 1, m, k)
        OBVIOUS
      <3>1. PICK i \in DOMAIN text : text[i] = k
        BY DEF ToSet
      <3>2. QED
        BY <2>9, <2>10, <3>1
    <2>13. /\ longer \in Seq(Ids) /\ ToSet(longer) = ToSet(order) \cup {m}
      BY <1>4, <2>2, ToSetAppend
    <2>14. IsInjective(longer)
      <3>1. /\ Len(order) \in Nat
            /\ DOMAIN order = 1..Len(order) /\ DOMAIN longer = 1..(Len(order) + 1)
            /\ longer[Len(order) + 1] = m
            /\ \A k \in 1..Len(order) : longer[k] = order[k]
            /\ \A k \in 1..(Len(order) + 1) : k \in 1..Len(order) \/ k = Len(order) + 1
        BY <1>4, <2>2, AppendIs
      <3>2. \A k \in 1..Len(order) : order[k] # m
        BY <2>4, <3>1 DEF ToSet
      <3> HIDE DEF longer
      <3>3. SUFFICES ASSUME NEW i \in 1..(Len(order) + 1), NEW j \in 1..(Len(order) + 1),
                            longer[i] = longer[j]
                     PROVE  i = j
        BY <3>1 DEF IsInjective
      <3>4. CASE i \in 1..Len(order) /\ j \in 1..Len(order)
        BY <2>2, <3>1, <3>3, <3>4 DEF IsInjective
      <3>5. CASE i = Len(order) + 1 /\ j \in 1..Len(order)
        BY <3>1, <3>2, <3>3, <3>5
      <3>6. CASE j = Len(order) + 1 /\ i \in 1..Len(order)
        BY <3>1, <3>2, <3>3, <3>6
      <3>7. QED
        BY <3>1, <3>4, <3>5, <3>6
    <2> HIDE DEF longer
    <2>15. /\ bodies \in [ToSet(longer) -> Seq(1..Deltas)]
           /\ bodies[m] = text
           /\ \A k \in ToSet(order) : bodies[k] = body[k]
      BY <2>2, <2>4, <2>10, <2>13
    <2>16. finished \subseteq ToSet(longer) /\ \A k \in finished : k \in done \/ k = m
      BY <2>2, <2>13
    <2>17. m \in finished /\ m \in Streamed => Contains(text, Deltas)
      <3>1. m \notin done
        BY <2>2, <2>4
      <3>2. m \in Streamed => m \notin Whole
        BY SessionAssumption
      <3>3. QED
        BY <3>1, <3>2
    <2>18. PICK new : new = Arrived(st, m)
      OBVIOUS
    <2> HIDE DEF bodies, finished
    <2>19. /\ new = [order |-> longer, body |-> bodies, done |-> finished, orphans |-> rest]
           /\ new.order = longer /\ new.body = bodies /\ new.done = finished /\ new.orphans = rest
      BY <2>3, <2>18
    <2>20. StoreOf(new)
      BY <2>7, <2>13, <2>15, <2>16, <2>19 DEF StoreOf, U
    <2>21. ASSUME NEW k \in ToSet(longer) PROVE BodyIn(new, k, log, g, upto + 1)
      <3>1. CASE k = m
        BY <2>11, <2>12, <2>15, <2>17, <2>19, <3>1 DEF BodyIn
      <3>2. CASE k # m
        <4>1. k \in ToSet(order)
          BY <2>13, <3>2
        <4>2. BodyIn(st, k, log, g, upto + 1)
          BY <1>1, <2>1, <4>1 DEF BodyInv
        <4>3. k \in finished => k \in done
          BY <2>16, <3>2
        <4>4. QED
          BY <2>1, <2>15, <2>19, <4>1, <4>2, <4>3 DEF BodyIn
      <3>3. QED
        BY <3>1, <3>2
    <2>22. ASSUME NEW k \in DOMAIN rest PROVE OrphanIn(new, rest[k], log, g, upto + 1)
      <3>1. PICK i \in Q : rest[k] = orphans[i]
        BY <2>7
      <3>2. i \in DOMAIN orphans /\ orphans[i].id # m
        BY <2>5
      <3>3. rest[k].id \notin ToSet(order)
        <4>1. ~Contains(order, orphans[i].id)
          BY <2>8, <3>2
        <4>2. QED
          BY <3>1, <4>1 DEF Contains, ToSet
      <3>4. rest[k].id \notin ToSet(longer)
        BY <2>13, <3>1, <3>2, <3>3
      <3>5. ~Contains(longer, rest[k].id)
        BY <3>4 DEF Contains, ToSet
      <3>6. QED
        BY <2>8, <2>19, <3>1, <3>2, <3>5 DEF OrphanIn
    <2>23. BodyInv(new, log, g, upto + 1)
      BY <2>7, <2>14, <2>19, <2>21, <2>22 DEF BodyInv
    <2>24. QED
      BY <1>3, <2>1, <2>13, <2>15, <2>18, <2>19, <2>20, <2>23
  <1>7. QED
    BY <1>5, <1>6

\* Nothing that the client has is lost.
Grown(st, new) ==
    /\ ToSet(st.order) \subseteq ToSet(new.order)
    /\ \A m \in ToSet(st.order) : ToSet(st.body[m]) \subseteq ToSet(new.body[m])

(* Whatever the next frame is, the client keeps its messages in order.      *)
LEMMA IngestKeeps ==
    ASSUME NEW st, NEW log, NEW g \in Seq(Outgoing), NEW upto \in Nat, NEW x,
           StoreOf(st), BodyInv(st, log, g, upto), Rising(g), upto + 1 \in DOMAIN g,
           x = g[upto + 1], x \in Notices \/ Contains(log, x)
    PROVE  /\ StoreOf(ingest(st, x)) /\ BodyInv(ingest(st, x), log, g, upto + 1)
           /\ Grown(st, ingest(st, x))
           /\ IsMessage(x) => x.id \in ToSet(ingest(st, x).order)
           /\ IsUpdate(x) /\ Contains(st.order, x.id) =>
                 x.n \in ToSet(ingest(st, x).body[x.id])
  <1>1. x \in Outgoing
    OBVIOUS
  <1>2. CASE IsMessage(x)
    <2>1. Taking(st, x, log, g, upto) /\ ~IsUpdate(x)
      BY <1>1, <1>2, NoticeKinds, EventKinds DEF Taking, Outgoing
    <2>2. ingest(st, x) = Arrived(st, x.id)
      BY <1>2, <2>1 DEF ingest
    <2>3. /\ StoreOf(Arrived(st, x.id)) /\ BodyInv(Arrived(st, x.id), log, g, upto + 1)
          /\ ToSet(Arrived(st, x.id).order) = ToSet(st.order) \cup {x.id}
          /\ \A m \in ToSet(st.order) : Arrived(st, x.id).body[m] = st.body[m]
      BY <1>2, <2>1, ArrivedKeeps
    <2>4. QED
      BY <2>1, <2>2, <2>3 DEF Grown
  <1>3. CASE IsUpdate(x) /\ Contains(st.order, x.id)
    <2>1. Taking(st, x, log, g, upto) /\ ~IsMessage(x)
      BY <1>1, <1>3, NoticeKinds, EventKinds DEF Taking, Outgoing
    <2>2. ingest(st, x) = Applied(st, x)
      BY <1>3, <2>1 DEF ingest
    <2>3. /\ StoreOf(Applied(st, x)) /\ BodyInv(Applied(st, x), log, g, upto + 1)
          /\ Applied(st, x).order = st.order
          /\ \A m \in ToSet(st.order) : \A k \in ToSet(st.body[m]) :
                k \in ToSet(Applied(st, x).body[m])
          /\ x.n \in ToSet(Applied(st, x).body[x.id])
      BY <1>3, <2>1, AppliedKeeps
    <2>4. QED
      BY <2>1, <2>2, <2>3 DEF Grown
  <1>4. CASE IsUpdate(x) /\ ~Contains(st.order, x.id)
    <2>1. Taking(st, x, log, g, upto) /\ ~IsMessage(x)
      BY <1>1, <1>4, NoticeKinds, EventKinds DEF Taking, Outgoing
    <2>2. PICK new : new = [st EXCEPT !.orphans = Append(@, x)]
      OBVIOUS
    <2>3. ingest(st, x) = new
      BY <1>4, <2>1, <2>2 DEF ingest
    <2>4. /\ StoreOf(new) /\ BodyInv(new, log, g, upto + 1)
          /\ new.order = st.order /\ new.body = st.body
      BY <1>4, <2>1, <2>2, OrphanedKeeps
    <2>5. QED
      BY <1>4, <2>1, <2>3, <2>4 DEF Grown
  <1>5. CASE ~IsMessage(x) /\ ~IsUpdate(x)
    <2>1. ingest(st, x) = st
      BY <1>5 DEF ingest
    <2>2. \A m, k : Ahead(g, upto, m, k) => Ahead(g, upto + 1, m, k)
      <3>1. \A j \in DOMAIN g : j \in Nat /\ (j > upto + 1 => j > upto)
        OBVIOUS
      <3>2. QED
        BY <3>1 DEF Ahead
    <2>3. BodyInv(st, log, g, upto + 1)
      BY <2>2, BodiesKept
    <2>4. QED
      BY <1>5, <2>1, <2>3 DEF Grown
  <1>6. QED
    BY <1>2, <1>3, <1>4, <1>5
-----------------------------------------------------------------------------
StoreInv == StoreOf(store) /\ BodyInv(store, bus.log, Given, wire.sent)

Ingested(st, x) ==
    /\ IsMessage(x) => x.id \in ToSet(st.order)
    /\ IsUpdate(x) => x.id \in ToSet(st.order) /\ x.n \in ToSet(st.body[x.id])

\* On its first connection, and while it has lost nothing, the client is
\* handed the log, and has taken in what was sent.
FirstInv ==
    links.count = 1 /\ links.up /\ chat.dropped_count = 0 =>
        Given = bus.log /\ \A i \in 1..wire.sent : Ingested(store, bus.log[i])

(* What is handed over when e is published comes after what was published.  *)
LEMMA AheadSelected ==
    ASSUME NEW g \in Seq(Outgoing), NEW e \in Events, NEW n \in Nat, NEW h, NEW upto \in Nat,
           Selected(h, Append(Append(g, e), Notice(n))), NEW log \in Seq(Events),
           \A i \in DOMAIN log :
              IsUpdate(e) /\ IsUpdate(log[i]) /\ log[i].id = e.id => log[i].n < e.n,
           NEW m, NEW k, Contains(log, Update(m, k)), Ahead(g, upto, m, k),
           DOMAIN h \subseteq Nat
    PROVE  Ahead(h, upto, m, k)
  <1> DEFINE ge == Append(g, e)
             notice == Notice(n)
             all == Append(ge, notice)
  <1>1. e \in Outgoing /\ notice \in Outgoing /\ ~IsUpdate(notice)
    BY EventKinds, NoticeKinds DEF Outgoing
  <1>2. /\ ge \in Seq(Outgoing) /\ Len(g) \in Nat /\ DOMAIN g = 1..Len(g)
        /\ DOMAIN ge = 1..(Len(g) + 1) /\ Len(ge) = Len(g) + 1
        /\ ge[Len(g) + 1] = e
        /\ \A i \in 1..Len(g) : ge[i] = g[i]
        /\ \A i \in 1..(Len(g) + 1) : i \in 1..Len(g) \/ i = Len(g) + 1
    BY <1>1, AppendIs
  <1> HIDE DEF ge, notice
  <1>3. /\ DOMAIN all = 1..(Len(ge) + 1) /\ all[Len(ge) + 1] = notice
        /\ \A i \in 1..Len(ge) : all[i] = ge[i]
        /\ \A i \in 1..(Len(ge) + 1) : i \in 1..Len(ge) \/ i = Len(ge) + 1
    BY <1>1, <1>2, AppendIs
  <1>4. Selected(h, all)
    BY DEF ge, notice
  <1> HIDE DEF all
  <1>5. SUFFICES ASSUME NEW j \in DOMAIN h, j > upto, IsUpdate(h[j]), h[j].id = m
                 PROVE  k < h[j].n
    BY DEF Ahead
  <1>6. PICK i \in DOMAIN all : h[j] = all[i] /\ i >= j
    BY <1>4 DEF Selected
  <1>7. i \in Nat /\ j \in Nat /\ i > upto
    BY <1>2, <1>3, <1>5, <1>6
  <1>8. i \in 1..Len(ge) \/ i = Len(ge) + 1
    BY <1>3, <1>6
  <1>9. i \in 1..Len(g) \/ i = Len(g) + 1 \/ i = Len(ge) + 1
    BY <1>2, <1>8
  <1>10. CASE i \in 1..Len(g)
    <2>1. i \in 1..Len(ge)
      BY <1>2, <1>10
    <2>2. h[j] = g[i] /\ i \in DOMAIN g
      BY <1>2, <1>3, <1>6, <1>10, <2>1
    <2>3. QED
      BY <1>5, <1>7, <2>2 DEF Ahead
  <1>11. CASE i = Len(g) + 1
    <2>1. i \in 1..Len(ge)
      BY <1>2, <1>11
    <2>2. h[j] = e
      BY <1>2, <1>3, <1>6, <1>11, <2>1
    <2>3. PICK p \in DOMAIN log : log[p] = Update(m, k)
      BY DEF Contains
    <2>4. IsUpdate(log[p]) /\ log[p].id = m /\ log[p].n = k
      BY <2>3 DEF IsUpdate, Update
    <2>5. QED
      BY <1>5, <2>2, <2>4
  <1>12. CASE i = Len(ge) + 1
    BY <1>1, <1>3, <1>5, <1>6, <1>12
  <1>13. QED
    BY <1>9, <1>10, <1>11, <1>12

LEMMA StorePublish ==
    ASSUME PublishInv, StoreInv, FirstInv,
           NEW e \in Events, NEW flush \in BOOLEAN, Publish(e, flush)
    PROVE  StoreInv' /\ FirstInv'
  <1>1. /\ PublishInv' /\ wire'.sent = wire.sent
        /\ ~links.up => Given' = Given
        /\ links.up => /\ \E n \in Nat : Selected(Given', Append(Append(Given, e), Notice(n)))
                       /\ chat'.dropped_count = 0 =>
                             chat.dropped_count = 0 /\ Given' = Append(Given, e)
    BY PublishKeeps
  <1>2. /\ bus' = [log |-> Append(bus.log, e), batch |-> ~flush]
        /\ store' = store /\ links' = links /\ Due(e)
    BY DEF Publish
  <1>3. /\ bus.log \in Seq(Events) /\ bus'.log = Append(bus.log, e)
        /\ wire.sent \in Nat /\ Given \in Seq(Outgoing) /\ Given' \in Seq(Outgoing)
        /\ wire.sent <= Len(Given)
    <2>1. /\ wire.frames \in Seq(Outgoing) /\ chat.queue \in Seq(Outgoing)
          /\ wire'.frames \in Seq(Outgoing) /\ chat'.queue \in Seq(Outgoing)
      BY <1>1 DEF PublishInv, ChatType, ChatSessions
    <2>2. wire.sent \in Nat /\ wire.sent <= Len(wire.frames)
      BY DEF PublishInv, ChatType, GivenInv
    <2>3. PICK a, q : a = wire.frames /\ q = chat.queue
      OBVIOUS
    <2>4. /\ Len(a) \in Nat /\ Len(q) \in Nat /\ a \o q \in Seq(Outgoing)
          /\ Len(a \o q) = Len(a) + Len(q)
      BY <2>1, <2>3
    <2>5. wire.sent <= Len(Given) /\ Given \in Seq(Outgoing)
      <3>1. Given = a \o q
        BY <2>3 DEF Given
      <3>2. wire.sent \in Nat /\ wire.sent <= Len(a)
        BY <2>2, <2>3
      <3>3. PICK g, upto : g = a \o q /\ upto = wire.sent
        OBVIOUS
      <3>4. upto <= Len(g) /\ g \in Seq(Outgoing)
        BY <2>4, <3>2, <3>3
      <3>5. QED
        BY <3>1, <3>3, <3>4
    <2>6. Given' \in Seq(Outgoing)
      BY <2>1 DEF Given
    <2>7. bus.log \in Seq(Events) /\ bus'.log = Append(bus.log, e)
      BY <1>2 DEF PublishInv, ChatType
    <2>8. QED
      BY <2>2, <2>5, <2>6, <2>7
  <1>4. \A i \in DOMAIN bus.log :
             IsUpdate(e) /\ IsUpdate(bus.log[i]) /\ bus.log[i].id = e.id => bus.log[i].n < e.n
    BY <1>2, <1>3, LogGrows DEF PublishInv
  <1>5. \A x : Contains(bus.log, x) => Contains(bus'.log, x)
    <2> SUFFICES ASSUME NEW x, Contains(bus.log, x) PROVE Contains(bus'.log, x)
      OBVIOUS
    <2>1. Contains(Append(bus.log, e), x)
      BY <1>3, ContainsAppend
    <2>2. QED
      BY <1>3, <2>1
  <1>6. \A m, k : Contains(bus.log, Update(m, k)) /\ Ahead(Given, wire.sent, m, k)
                     => Ahead(Given', wire.sent, m, k)
    <2>1. CASE ~links.up
      BY <1>1, <2>1
    <2>2. CASE links.up
      <3>1. PICK n \in Nat : Selected(Given', Append(Append(Given, e), Notice(n)))
        BY <1>1, <2>2
      <3>2. PICK g, h, upto, log : g = Given /\ h = Given' /\ upto = wire.sent /\ log = bus.log
        OBVIOUS
      <3>3. /\ g \in Seq(Outgoing) /\ upto \in Nat /\ log \in Seq(Events)
            /\ Selected(h, Append(Append(g, e), Notice(n))) /\ DOMAIN h \subseteq Nat
            /\ \A i \in DOMAIN log :
                  IsUpdate(e) /\ IsUpdate(log[i]) /\ log[i].id = e.id => log[i].n < e.n
        BY <1>3, <1>4, <3>1, <3>2
      <3>4. \A m, k : Contains(log, Update(m, k)) /\ Ahead(g, upto, m, k) => Ahead(h, upto, m, k)
        BY ONLY <3>3, e \in Events, n \in Nat, AheadSelected
      <3>5. QED
        BY <3>2, <3>4
    <2>3. QED
      BY <2>1, <2>2
  <1>7. StoreInv'
    <2>1. StoreOf(store) /\ BodyInv(store, bus.log, Given, wire.sent)
      BY DEF StoreInv
    <2>2. BodyInv(store, bus'.log, Given', wire.sent)
      BY <1>5, <1>6, <2>1, BodiesKept
    <2>3. QED
      BY <1>1, <1>2, <2>1, <2>2 DEF StoreInv
  <1>8. FirstInv'
    <2>1. SUFFICES ASSUME links.count = 1, links.up, chat'.dropped_count = 0
                   PROVE  /\ Given' = bus'.log
                          /\ \A i \in 1..wire.sent : Ingested(store, bus'.log[i])
      BY <1>1, <1>2 DEF FirstInv
    <2>2. chat.dropped_count = 0 /\ Given' = Append(Given, e)
      BY <1>1, <2>1
    <2>3. Given = bus.log /\ \A i \in 1..wire.sent : Ingested(store, bus.log[i])
      BY <2>1, <2>2 DEF FirstInv
    <2>4. \A i \in 1..wire.sent : Append(bus.log, e)[i] = bus.log[i]
      BY <1>3, <2>3
    <2>5. QED
      BY <1>3, <2>2, <2>3, <2>4
  <1>9. QED
    BY <1>7, <1>8

LEMMA StoreKeeps ==
    ASSUME PublishInv, StoreInv, FirstInv, [ChatNext]_chatVars
    PROVE  StoreInv' /\ FirstInv'
  <1>0. PublishInv'
    BY ChatKeeps
  <1>1. CASE \E e \in Events, flush \in BOOLEAN : Publish(e, flush)
    BY <1>1, StorePublish
  <1>2. CASE FlushBatch
    <2>1. /\ bus' = [bus EXCEPT !.batch = FALSE] /\ chat' = [chat EXCEPT !.queue = <<>>]
          /\ wire' = [wire EXCEPT !.frames = @ \o chat.queue]
          /\ UNCHANGED <<store, links>>
      BY <1>2 DEF FlushBatch, Flushed
    <2>2. /\ chat \in ChatSessions
          /\ wire \in [frames: Seq(Outgoing), sent: Nat, replayed: Nat]
          /\ bus \in [log: Seq(Events), batch: BOOLEAN]
          /\ chat.queue \in Seq(Outgoing)
      BY DEF PublishInv, ChatType, ChatSessions
    <2>3. /\ wire'.sent = wire.sent /\ wire'.frames = wire.frames \o chat.queue
          /\ bus'.log = bus.log
      BY <2>1, <2>2
    <2>4. chat'.queue = <<>> /\ chat'.dropped_count = chat.dropped_count
      BY <2>1, <2>2, FlushedIs
    <2>5. Given' = Given
      <3>1. Given' = Given \o <<>>
        BY <2>3, <2>4 DEF Given
      <3>2. Given \in Seq(Outgoing)
        BY <2>2 DEF Given
      <3>3. QED
        BY <3>1, <3>2, EmptyBehind
    <2>6. QED
      BY <2>1, <2>3, <2>4, <2>5 DEF StoreInv, FirstInv
  <1>3. CASE LinkLost
    <2>1. /\ links' = [links EXCEPT !.up = FALSE]
          /\ chat' = [queue |-> <<>>, seen_ids |-> {}, dropped_count |-> 0]
          /\ wire' = [frames |-> <<>>, sent |-> 0, replayed |-> 0]
          /\ bus' = bus /\ store' = store
      BY <1>3 DEF LinkLost, NewSession
    <2>2. DOMAIN Given' = {}
      BY <2>1 DEF Given
    <2>3. \A m, k : Ahead(Given', wire'.sent, m, k)
      BY <2>2 DEF Ahead
    <2>4. StoreInv'
      <3>1. BodyInv(store, bus.log, Given', wire'.sent)
        BY <2>3, BodiesKept DEF StoreInv
      <3>2. QED
        BY <2>1, <3>1 DEF StoreInv
    <2>5. ~links'.up
      BY <2>1 DEF PublishInv, ChatType
    <2>6. QED
      BY <2>4, <2>5 DEF FirstInv
  <1>4. CASE Reconnect
    <2>1. /\ links' = [count |-> links.count + 1, up |-> TRUE]
          /\ bus' = bus /\ chat' = chat /\ store' = store /\ ~links.up
      BY <1>4 DEF Reconnect
    <2>2. PICK held : held = Messages(bus.log)
      OBVIOUS
    <2>3. PICK oldest \in 1..(Len(held) + 1) :
             wire' = [frames |-> SubSeq(held, oldest, Len(held)), sent |-> 0,
                      replayed |-> Len(held) - oldest + 1]
      BY <1>4, <2>2 DEF Reconnect
    <2>4. held \in Seq(Events) /\ \A k \in DOMAIN held : IsMessage(held[k])
      <3>1. bus.log \in Seq(Events)
        BY DEF PublishInv, ChatType
      <3>2. QED
        BY <2>2, <3>1, MessagesAre
    <2>5. PICK sub : sub = SubSeq(held, oldest, Len(held))
      OBVIOUS
    <2>6. sub \in Seq(Events) /\ \A k \in DOMAIN sub : IsMessage(sub[k])
      <3>1. /\ Len(held) \in Nat
            /\ sub = [k \in 1..(Len(held) - oldest + 1) |-> held[k + oldest - 1]]
            /\ \A k \in oldest..Len(held) : held[k] \in Events
        BY <2>4, <2>5
      <3>2. \A k \in 1..(Len(held) - oldest + 1) : k + oldest - 1 \in oldest..Len(held)
                                                   /\ k + oldest - 1 \in DOMAIN held
        BY <2>4, <3>1
      <3>3. QED
        BY <2>4, <3>1, <3>2
    <2>7. Given' = sub
      <3>1. chat.queue = <<>>
        BY <2>1 DEF PublishInv, GivenInv, NewSession
      <3>2. Given' = sub \o <<>>
        BY <2>1, <2>3, <2>5, <3>1 DEF Given
      <3>3. QED
        BY <2>6, <3>2, EmptyBehind
    <2>8. \A m, k : Ahead(Given', wire'.sent, m, k)
      BY <2>6, <2>7 DEF Ahead, IsMessage, IsUpdate
    <2>9. StoreInv'
      <3>1. BodyInv(store, bus.log, Given', wire'.sent)
        BY <2>8, BodiesKept DEF StoreInv
      <3>2. QED
        BY <2>1, <3>1 DEF StoreInv
    <2>10. links'.count # 1
      BY <2>1 DEF PublishInv, ChatType
    <2>11. QED
      BY <2>9, <2>10 DEF FirstInv
  <1>5. CASE WriterSends
    <2>1. /\ wire.sent < Len(wire.frames) /\ wire' = [wire EXCEPT !.sent = @ + 1]
          /\ store' = ingest(store, wire.frames[wire.sent + 1])
          /\ UNCHANGED <<bus, chat, links>>
      BY <1>5 DEF WriterSends
    <2>2. PICK a, q, upto, st, log : /\ a = wire.frames /\ q = chat.queue /\ upto = wire.sent
                                     /\ st = store /\ log = bus.log
      OBVIOUS
    <2>3. /\ a \in Seq(Outgoing) /\ q \in Seq(Outgoing) /\ upto \in Nat
          /\ log \in Seq(Events)
          /\ wire \in [frames: Seq(Outgoing), sent: Nat, replayed: Nat]
      BY <2>2 DEF PublishInv, ChatType, ChatSessions
    <2>4. wire'.sent = upto + 1 /\ wire'.frames = a
      BY <2>1, <2>2, <2>3
    <2>5. PICK g : g = a \o q
      OBVIOUS
    <2>6. /\ g \in Seq(Outgoing) /\ upto + 1 \in DOMAIN a /\ upto + 1 \in DOMAIN g
          /\ g[upto + 1] = a[upto + 1]
      BY <2>1, <2>2, <2>3, <2>5
    <2>7. Given = g /\ Given' = g
      BY <2>1, <2>2, <2>4, <2>5 DEF Given
    <2>8. PICK x : x = g[upto + 1]
      OBVIOUS
    <2>9. x \in Notices \/ Contains(log, x)
      BY <2>2, <2>6, <2>7, <2>8 DEF PublishInv, GivenInv
    <2>10. StoreOf(st) /\ BodyInv(st, log, g, upto) /\ Rising(g)
      BY <2>2, <2>7 DEF StoreInv, PublishInv, GivenInv
    <2>11. PICK new : new = ingest(st, x)
      OBVIOUS
    <2>12. /\ StoreOf(new) /\ BodyInv(new, log, g, upto + 1) /\ Grown(st, new)
           /\ IsMessage(x) => x.id \in ToSet(new.order)
           /\ IsUpdate(x) /\ Contains(st.order, x.id) => x.n \in ToSet(new.body[x.id])
      BY <2>3, <2>6, <2>8, <2>9, <2>10, <2>11, IngestKeeps
    <2>13. store' = new /\ bus'.log = log
      BY <2>1, <2>2, <2>6, <2>8, <2>11
    <2>14. StoreInv'
      BY <2>4, <2>7, <2>12, <2>13 DEF StoreInv
    <2>15. FirstInv'
      <3>1. SUFFICES ASSUME links.count = 1, links.up, chat.dropped_count = 0
                     PROVE  g = log /\ \A i \in 1..(upto + 1) : Ingested(new, log[i])
        BY <2>1, <2>4, <2>7, <2>13 DEF FirstInv
      <3>2. g = log /\ \A i \in 1..upto : Ingested(st, log[i])
        BY <2>2, <2>7, <3>1 DEF FirstInv
      <3>3. ASSUME NEW i \in 1..(upto + 1) PROVE Ingested(new, log[i])
        <4>1. CASE i \in 1..upto
          BY <2>12, <3>2, <4>1 DEF Ingested, Grown
        <4>2. CASE i = upto + 1
          <5>1. log[i] = x
            BY <2>8, <3>2, <4>2
          <5>2. ASSUME IsUpdate(x)
                PROVE  x.id \in ToSet(st.order)
            <6>1. \E j \in 1..(i - 1) : log[j] = Message(x.id)
              <7>1. i \in DOMAIN log
                BY <2>6, <3>2, <4>2
              <7>2. QED
                BY <2>2, <5>1, <5>2, <7>1 DEF PublishInv, LogInv
            <6>2. PICK j \in 1..(i - 1) : log[j] = Message(x.id)
              BY <6>1
            <6>3. j \in 1..upto
              BY <2>3, <4>2
            <6>4. Ingested(st, Message(x.id))
              BY <3>2, <6>2, <6>3
            <6>5. QED
              BY <6>4 DEF Ingested, IsMessage, Message
          <5>3. ASSUME IsUpdate(x)
                PROVE  x.id \in ToSet(new.order) /\ x.n \in ToSet(new.body[x.id])
            <6>1. Contains(st.order, x.id)
              BY <5>2, <5>3 DEF Contains, ToSet
            <6>2. QED
              BY <2>12, <5>2, <5>3, <6>1 DEF Grown
          <5>4. QED
            BY <2>12, <5>1, <5>3 DEF Ingested
        <4>3. i \in 1..upto \/ i = upto + 1
          BY <2>3
        <4>4. QED
          BY <4>1, <4>2, <4>3
      <3>4. QED
        BY <3>2, <3>3
    <2>16. QED
      BY <2>14, <2>15
  <1>6. CASE SweepOrphans
    <2>1. PICK old \in 1..Len(store.orphans) :
             store' = [store EXCEPT !.orphans = SubSeq(@, old + 1, Len(@))]
      BY <1>6 DEF SweepOrphans
    <2>2. UNCHANGED <<bus, chat, wire, since, links>>
      BY <1>6 DEF SweepOrphans
    <2>3. PICK order, body, done, orphans :
             /\ order = store.order /\ body = store.body /\ done = store.done
             /\ orphans = store.orphans
      OBVIOUS
    <2> DEFINE U == {e \in Events : IsUpdate(e)}
    <2>4. /\ store = [order |-> order, body |-> body, done |-> done, orphans |-> orphans]
          /\ orphans \in Seq(U) /\ Rising(orphans)
      BY <2>3 DEF StoreInv, StoreOf, BodyInv
    <2> HIDE DEF U
    <2>5. PICK rest : rest = SubSeq(orphans, old + 1, Len(orphans))
      OBVIOUS
    <2>6. old \in 1..Len(orphans) /\ Len(orphans) \in Nat
      BY <2>3, <2>4
    <2>7. /\ rest \in Seq(U) /\ Len(rest) = Len(orphans) - old
          /\ \A k \in 1..(Len(orphans) - old) : rest[k] = orphans[k + old]
      <3>1. Behind(orphans, old) = rest
        BY <2>5 DEF Behind
      <3>2. old \in 0..Len(orphans)
        BY <2>6
      <3>3. QED
        BY <2>4, <3>1, <3>2, BehindIs
    <2>8. DOMAIN rest = 1..(Len(orphans) - old)
      BY <2>7
    <2>9. /\ \A k \in DOMAIN rest : k + old \in DOMAIN orphans /\ rest[k] = orphans[k + old]
      BY <2>4, <2>6, <2>7, <2>8
    <2>10. \A j, k \in DOMAIN rest : j < k => j + old < k + old
      BY <2>6, <2>8
    <2>11. Rising(rest)
      BY <2>4, <2>9, <2>10 DEF Rising
    <2>12. PICK new : new = store'
      OBVIOUS
    <2>13. /\ new = [order |-> order, body |-> body, done |-> done, orphans |-> rest]
           /\ new.order = order /\ new.body = body /\ new.done = done /\ new.orphans = rest
      BY <2>1, <2>3, <2>4, <2>5, <2>12
    <2>14. StoreOf(new)
      BY <2>3, <2>7, <2>13 DEF StoreInv, StoreOf, U
    <2>15. \A m \in ToSet(order) : BodyIn(new, m, bus.log, Given, wire.sent)
      BY <2>3, <2>13 DEF StoreInv, BodyInv, BodyIn
    <2>16. \A k \in DOMAIN rest : OrphanIn(new, rest[k], bus.log, Given, wire.sent)
      BY <2>3, <2>9, <2>13 DEF StoreInv, BodyInv, OrphanIn
    <2>17. BodyInv(new, bus.log, Given, wire.sent)
      BY <2>3, <2>11, <2>13, <2>15, <2>16 DEF StoreInv, BodyInv
    <2>18. Given' = Given
      BY <2>2 DEF Given
    <2>19. StoreInv'
      BY <2>2, <2>12, <2>14, <2>17, <2>18 DEF StoreInv
    <2>20. \A i \in 1..wire.sent : Ingested(store, bus.log[i]) => Ingested(new, bus.log[i])
      BY <2>3, <2>13 DEF Ingested
    <2>21. FirstInv'
      BY <2>2, <2>12, <2>18, <2>20 DEF FirstInv
    <2>22. QED
      BY <2>19, <2>21
  <1>7. CASE UNCHANGED chatVars
    <2>1. UNCHANGED <<bus, chat, wire, since, store, links>>
      BY <1>7 DEF chatVars
    <2>2. QED
      BY <2>1 DEF StoreInv, FirstInv, Given
  <1>8. QED
    BY <1>1, <1>2, <1>3, <1>4, <1>5, <1>6, <1>7 DEF ChatNext

LEMMA StoreStarts ==
    ASSUME ChatInit
    PROVE  StoreInv /\ FirstInv
  <1>1. /\ store = [order |-> <<>>, body |-> <<>>, done |-> {}, orphans |-> <<>>]
        /\ bus.log = <<>> /\ wire.sent = 0 /\ wire.frames = <<>> /\ chat.queue = <<>>
    BY DEF ChatInit, NewSession
  <1>2. ToSet(<<>>) = {}
    BY DEF ToSet
  <1>3. PICK none : none = <<>>
    OBVIOUS
  <1>4. /\ none \in Seq(Ids) /\ none \in Seq({e \in Events : IsUpdate(e)}) /\ DOMAIN none = {}
        /\ none \in [{} -> Seq(1..Deltas)] /\ none \o none = none
    BY <1>3
  <1>5. StoreOf(store)
    BY <1>1, <1>2, <1>3, <1>4 DEF StoreOf
  <1>6. BodyInv(store, bus.log, Given, wire.sent)
    BY <1>1, <1>2, <1>3, <1>4 DEF BodyInv, Rising, IsInjective
  <1>7. Given = bus.log
    BY <1>1, <1>3, <1>4 DEF Given
  <1>8. QED
    BY <1>1, <1>5, <1>6, <1>7 DEF StoreInv, FirstInv

LEMMA BodiesOrdered ==
    ASSUME PublishInv, StoreInv, FirstInv
    PROVE  BodiesInOrder
  <1>1. /\ store.order \in Seq(Ids) /\ DOMAIN store.body = ToSet(store.order)
        /\ IsInjective(store.order)
        /\ \A m \in ToSet(store.order) : Growing(store.body[m])
    BY DEF StoreInv, StoreOf, BodyInv, BodyIn
  <1>2. \A i, j \in DOMAIN store.order : store.order[i] = store.order[j] => i = j
    BY <1>1 DEF IsInjective
  <1>3. \A m \in DOMAIN store.body :
           \A i, j \in DOMAIN store.body[m] : i < j => store.body[m][i] < store.body[m][j]
    BY <1>1 DEF Growing
  <1>4. ASSUME links.count = 1, links.up, chat.dropped_count = 0, ~bus.batch,
               wire.sent = Len(wire.frames),
               NEW m \in Streamed, NEW n \in 1..Deltas, Contains(bus.log, Update(m, n))
        PROVE  Contains(store.body[m], n)
    <2>1. chat.queue = <<>> /\ wire.frames \in Seq(Outgoing)
      BY <1>4 DEF PublishInv, GivenInv, ChatType
    <2>2. Given = wire.frames
      BY <2>1, EmptyBehind DEF Given
    <2>3. wire.frames = bus.log /\ \A i \in 1..wire.sent : Ingested(store, bus.log[i])
      BY <1>4, <2>2 DEF FirstInv
    <2>4. PICK i \in DOMAIN bus.log : bus.log[i] = Update(m, n)
      BY <1>4 DEF Contains
    <2>5. i \in 1..wire.sent
      BY <1>4, <2>1, <2>3, <2>4
    <2>6. Ingested(store, Update(m, n))
      BY <2>3, <2>4, <2>5
    <2>7. n \in ToSet(store.body[m])
      BY <2>6 DEF Ingested, IsUpdate, Update
    <2>8. QED
      BY <2>7 DEF Contains, ToSet
  <1>5. QED
    BY <1>2, <1>3, <1>4 DEF BodiesInOrder

(* The client shows each message once and its text in order, whatever was  *)
(* dropped, replayed or swept; and all of it, when nothing was dropped     *)
(* (ClientMessageStore).                                                   *)
THEOREM BodiesInOrderHolds ==
    ChatInit /\ [][ChatNext]_chatVars => []BodiesInOrder
  <1> DEFINE Inv == PublishInv /\ StoreInv /\ FirstInv
  <1>1. ChatInit => Inv
    BY ChatStarts, StoreStarts
  <1>2. Inv /\ [ChatNext]_chatVars => Inv'
    BY ChatKeeps, StoreKeeps
  <1>3. Inv => BodiesInOrder
    BY BodiesOrdered
  <1>4. QED
    BY <1>1, <1>2, <1>3, PTL

-----------------------------------------------------------------------------
IsCard(e) == e.kind = "ConfirmationRequest"

(* A card that an event pushes out of the queue leaves no update in it, and *)
(* none comes in but an update.                                             *)
LEMMA CardGivenUp ==
    ASSUME NEW s \in ChatSessions, NEW e \in Outgoing, IsMessage(e) => e.id \notin s.seen_ids
    PROVE  /\ Updates(s.queue) = {} /\ ~IsUpdate(e) => Updates(enqueue(s, e).queue) = {}
           /\ \A c \in ToSet(s.queue) :
                IsCard(c) /\ c \notin ToSet(enqueue(s, e).queue) =>
                   Updates(s.queue) = {} /\ ~IsUpdate(e)
  <1>1. \/ Put1(s, e, enqueue(s, e))
        \/ Swapped(s, e, enqueue(s, e))
        \/ TurnedAway(s, e, enqueue(s, e))
    BY EnqueueIs
  <1>2. PICK q, r : q = s.queue /\ r = enqueue(s, e).queue
    OBVIOUS
  <1>3. q \in Seq(Outgoing)
    BY <1>2 DEF ChatSessions
  <1>4. Updates(q) = {} => \A k \in DOMAIN q : ~IsUpdate(q[k])
    BY DEF Updates
  <1>5. CASE Put1(s, e, enqueue(s, e))
    <2>1. r = Append(q, e)
      BY <1>2, <1>5 DEF Put1
    <2>2. ToSet(r) = ToSet(q) \cup {e}
      BY <1>3, <2>1, ToSetAppend
    <2>3. Updates(q) = {} /\ ~IsUpdate(e) => Updates(r) = {}
      BY <1>4, <2>2 DEF Updates, ToSet
    <2>4. QED
      BY <1>2, <2>2, <2>3
  <1>6. CASE Swapped(s, e, enqueue(s, e))
    <2>1. PICK i \in DOMAIN q :
            /\ IsUpdate(q[i]) \/ (Updates(q) = {} /\ ~IsUpdate(e))
            /\ r = Append(RemoveAt(q, i), e)
      BY <1>2, <1>6 DEF Swapped
    <2>2. PICK rest : rest = RemoveAt(q, i)
      OBVIOUS
    <2>3. /\ rest \in Seq(Outgoing) /\ Len(rest) = Len(q) - 1
          /\ \A k \in 1..(i - 1) : rest[k] = q[k]
          /\ \A k \in i..(Len(q) - 1) : rest[k] = q[k + 1]
      BY <1>3, <2>2, Removed
    <2>4. /\ DOMAIN q = 1..Len(q) /\ Len(q) \in Nat /\ i \in 1..Len(q)
          /\ DOMAIN rest = 1..(Len(q) - 1)
      BY <1>3, <2>3
    <2>5. \A k \in DOMAIN rest : \E j \in DOMAIN q : rest[k] = q[j]
      <3> SUFFICES ASSUME NEW k \in DOMAIN rest PROVE \E j \in DOMAIN q : rest[k] = q[j]
        OBVIOUS
      <3>1. CASE k < i
        <4>1. k \in DOMAIN q /\ rest[k] = q[k]
          BY <2>3, <2>4, <3>1
        <4>2. QED
          BY <4>1
      <3>2. CASE ~(k < i)
        <4>1. k + 1 \in DOMAIN q /\ rest[k] = q[k + 1]
          BY <2>3, <2>4, <3>2
        <4>2. QED
          BY <4>1
      <3>3. QED
        BY <3>1, <3>2
    <2>6. \A j \in DOMAIN q : j # i => q[j] \in ToSet(rest)
      <3> SUFFICES ASSUME NEW j \in DOMAIN q, j # i PROVE q[j] \in ToSet(rest)
        OBVIOUS
      <3>1. CASE j < i
        <4>1. j \in DOMAIN rest /\ rest[j] = q[j]
          BY <2>3, <2>4, <3>1
        <4>2. QED
          BY <4>1 DEF ToSet
      <3>2. CASE ~(j < i)
        <4>1. j - 1 \in DOMAIN rest /\ j - 1 \in i..(Len(q) - 1) /\ j - 1 + 1 = j
          BY <2>4, <3>2
        <4>2. rest[j - 1] = q[j]
          BY <2>3, <4>1
        <4>3. QED
          BY <4>1, <4>2 DEF ToSet
      <3>3. QED
        BY <3>1, <3>2
    <2>7. ToSet(r) = ToSet(rest) \cup {e}
      BY <2>1, <2>2, <2>3, ToSetAppend
    <2>8. Updates(q) = {} /\ ~IsUpdate(e) => Updates(r) = {}
      <3>1. SUFFICES ASSUME Updates(q) = {}, ~IsUpdate(e), NEW y \in ToSet(r), IsUpdate(y)
                     PROVE  FALSE
        BY DEF Updates, ToSet
      <3>2. y \in ToSet(rest)
        BY <2>7, <3>1
      <3>3. PICK k \in DOMAIN rest : rest[k] = y
        BY <3>2 DEF ToSet
      <3>4. QED
        BY <1>4, <2>5, <3>1, <3>3
    <2>9. ASSUME NEW c \in ToSet(q), IsCard(c), c \notin ToSet(r)
          PROVE  Updates(q) = {} /\ ~IsUpdate(e)
      <3>1. PICK j \in DOMAIN q : q[j] = c
        BY DEF ToSet
      <3>2. j = i
        BY <2>6, <2>7, <2>9, <3>1
      <3>3. ~IsUpdate(q[i])
        BY <2>9, <3>1, <3>2 DEF IsCard, IsUpdate
      <3>4. QED
        BY <2>1, <3>3
    <2>10. QED
      BY <1>2, <2>8, <2>9
  <1>7. CASE TurnedAway(s, e, enqueue(s, e))
    <2>1. r = q
      BY <1>2, <1>7 DEF TurnedAway
    <2>2. QED
      BY <1>2, <2>1
  <1>8. QED
    BY <1>1, <1>5, <1>6, <1>7

LEMMA CardsKept ==
    ASSUME PublishInv, [ChatNext]_chatVars, NEW c \in ToSet(chat.queue), IsCard(c),
           ~Contains(wire'.frames \o chat'.queue, c)
    PROVE  Updates(chat'.queue) = {}
  <1>1. PublishInv'
    BY ChatKeeps
  <1>2. PICK a, q : a = wire'.frames /\ q = chat'.queue
    OBVIOUS
  <1>3. a \in Seq(Outgoing) /\ q \in Seq(Outgoing)
    BY <1>1, <1>2 DEF PublishInv, ChatType, ChatSessions
  <1>4. c \notin ToSet(q)
    <2>1. /\ Len(a) \in Nat /\ Len(q) \in Nat /\ DOMAIN q = 1..Len(q)
          /\ \A k \in 1..Len(q) : Len(a) + k \in DOMAIN (a \o q) /\ (a \o q)[Len(a) + k] = q[k]
      BY <1>3
    <2>2. SUFFICES ASSUME NEW k \in 1..Len(q), q[k] = c PROVE FALSE
      BY <2>1 DEF ToSet
    <2>3. Contains(a \o q, c)
      BY <2>1, <2>2 DEF Contains
    <2>4. QED
      BY <1>2, <2>3
  <1>5. Updates(<<>>) = {}
    BY DEF Updates
  <1>6. ASSUME NEW e \in Events, NEW flush \in BOOLEAN, Publish(e, flush)
        PROVE  Updates(q) = {}
    <2>1. CASE ~links.up
      <3>1. chat' = chat
        BY <1>6, <2>1 DEF Publish
      <3>2. QED
        BY <1>2, <1>4, <3>1
    <2>2. CASE links.up /\ flush
      <3>1. bus' = [log |-> Append(bus.log, e), batch |-> FALSE]
        BY <1>6, <2>2 DEF Publish
      <3>2. q = <<>>
        BY <1>1, <1>2, <3>1 DEF PublishInv, GivenInv
      <3>3. QED
        BY <1>5, <3>2
    <2>3. CASE links.up /\ ~flush
      <3>1. PICK s, s1 : s = chat /\ s1 = enqueue(s, e)
        OBVIOUS
      <3>2. chat' = WithNotice(s, e) /\ Due(e)
        BY <1>6, <2>3, <3>1 DEF Publish
      <3>3. s \in ChatSessions /\ e \in Outgoing /\ c \in ToSet(s.queue)
        BY <3>1 DEF PublishInv, ChatType, Outgoing
      <3>4. IsMessage(e) => e.id \notin s.seen_ids
        <4>1. SUFFICES ASSUME IsMessage(e), e.id \in chat.seen_ids PROVE FALSE
          BY <3>1
        <4>2. Contains(bus.log, Message(e.id)) /\ e = Message(e.id)
          BY <4>1, EventKinds DEF PublishInv, GivenInv
        <4>3. QED
          BY <3>2, <4>2 DEF Due
      <3>5. /\ s1 \in ChatSessions
            /\ Updates(s.queue) = {} /\ ~IsUpdate(e) => Updates(s1.queue) = {}
            /\ c \notin ToSet(s1.queue) => Updates(s.queue) = {} /\ ~IsUpdate(e)
        BY <3>1, <3>3, <3>4, CardGivenUp, EnqueueIs
      <3>6. PICK n : n = Notice(s1.dropped_count)
        OBVIOUS
      <3>7. n \in Outgoing /\ ~IsMessage(n) /\ ~IsUpdate(n)
        BY <3>5, <3>6, NoticeKinds DEF ChatSessions, Outgoing
      <3>8. CASE chat' = s1
        BY <1>2, <1>4, <3>5, <3>8
      <3>9. CASE chat' = enqueue(s1, n)
        <4>1. /\ Updates(s1.queue) = {} => Updates(q) = {}
              /\ c \in ToSet(s1.queue) => Updates(s1.queue) = {}
          BY <1>2, <1>4, <3>5, <3>7, <3>9, CardGivenUp
        <4>2. QED
          BY <3>5, <4>1
      <3>10. chat' = s1 \/ chat' = enqueue(s1, n)
        BY <3>1, <3>2, <3>6 DEF WithNotice
      <3>11. QED
        BY <3>8, <3>9, <3>10
    <2>4. QED
      BY <2>1, <2>2, <2>3
  <1>7. CASE FlushBatch
    <2>1. q = <<>>
      BY <1>1, <1>2, <1>7 DEF FlushBatch, PublishInv, GivenInv, ChatType
    <2>2. QED
      BY <1>2, <1>5, <2>1
  <1>8. CASE LinkLost
    <2>1. q = <<>>
      BY <1>2, <1>8 DEF LinkLost, NewSession
    <2>2. QED
      BY <1>2, <1>5, <2>1
  <1>9. CASE chat' = chat
    BY <1>2, <1>4, <1>9
  <1>10. Reconnect \/ WriterSends \/ SweepOrphans \/ UNCHANGED chatVars => chat' = chat
    BY DEF Reconnect, WriterSends, SweepOrphans, chatVars
  <1>11. QED
    BY <1>2, <1>6, <1>7, <1>8, <1>9, <1>10 DEF ChatNext

(* A confirmation card leaves a full queue only when no update is left in  *)
(* it (Session.enqueue).                                                   *)
THEOREM CardsOutliveUpdatesHolds ==
    ChatInit /\ [][ChatNext]_chatVars => CardsOutliveUpdates
  <1> DEFINE Kept ==
        \A e \in ToSet(chat.queue) :
           e.kind = "ConfirmationRequest" /\ ~Contains(wire'.frames \o chat'.queue, e) =>
              Updates(chat'.queue) = {}
  <1>1. ChatInit => PublishInv
    BY ChatStarts
  <1>2. PublishInv /\ [ChatNext]_chatVars => PublishInv'
    BY ChatKeeps
  <1>3. PublishInv /\ [ChatNext]_chatVars => [Kept]_chatVars
    BY CardsKept DEF IsCard
  <1>4. QED
    BY <1>1, <1>2, <1>3, PTL DEF CardsOutliveUpdates
=============================================================================
