----------------------------- MODULE GraphEngine -----------------------------
(***************************************************************************)
(* The deliberation graph of one operator session:                         *)
(* src/orchestrator/graph/engine.py over the ForgeState of state.py.       *)
(*                                                                         *)
(* A run goes supervisor -> summon -> merge -> dissent (at most two more   *)
(* rounds) -> safety gate; resume applies the operator's answer to one     *)
(* card.  Every engine method is synchronous, but main.py calls run and    *)
(* resume in worker threads for /v2/chat and /v2/live on the SAME engine   *)
(* and state, so the calls of different threads interleave; one step here  *)
(* is one node, one collected SME, one gated action or one answer.         *)
(* GateThreads has the gate's counters at the finer grain at which two     *)
(* answers of a session may lose an update.                                *)
(*                                                                         *)
(* ForgeState and the GateSession live as long as the session, nothing     *)
(* resets them between runs.                                               *)
(***************************************************************************)
EXTENDS SafetyGate, Sequences, Listings

CONSTANTS
    Threads,       \* worker threads that execute run()
    ChatThreads,   \* those that also execute resume(): the /v2/chat handlers
    Rosters,       \* sequences of SMEs the supervisor may summon
    Claims,        \* SME -> the responses it may give, [kept, actions]
    CallIds,       \* ids for confirmation requests (fresh ULIDs)
    MaxRuns        \* bound: runs started

ASSUME ChatThreadsAssumption == ChatThreads \subseteq Threads

\* The supervisor summons SMEs it knows, and they propose steps.
ASSUME ClaimsAssumption ==
    /\ Rosters \subseteq Seq(DOMAIN Claims)
    /\ \A sme \in DOMAIN Claims : \A response \in Claims[sme] :
          response.kept \in BOOLEAN /\ response.actions \in Seq(Steps)

CROSS_EXAM_CAP == 2

VARIABLES
    pendingSummon,         \* roster of the latest summon
    smeResponses,          \* dict smeId -> response, in insertion order
    mergedOpinion,         \* its proposedActions, each with its invoker (None: <<>>)
    crossExamRound,
    pendingConfirmations,  \* callIds of the open confirmation requests
    cards,                 \* every ConfirmationRequest emitted: callId -> its step
    approvedActions,
    outcome,               \* audit: callId -> "done" or "skipped"
    gate,                  \* GateSession
    pc,                    \* thread -> node it is about to execute
    todo,                  \* thread -> SMEs still to collect, or actions still to gate
    status,                \* thread -> RunResult.status of its last call
    runs

state == <<pendingSummon, smeResponses, mergedOpinion, crossExamRound, approvedActions>>
cardVars == <<pendingConfirmations, cards, outcome>>
control == <<pc, todo, status>>
vars == <<state, cardVars, gate, control, runs>>

Init ==
    /\ pendingSummon = <<>>
    /\ smeResponses = <<>>
    /\ mergedOpinion = <<>>
    /\ crossExamRound = 0
    /\ approvedActions = <<>>
    /\ pendingConfirmations = {}
    /\ cards = <<>>
    /\ outcome = <<>>
    /\ gate = GateSession(FALSE)
    /\ pc = [t \in Threads |-> "idle"]
    /\ todo = [t \in Threads |-> <<>>]
    /\ status = [t \in Threads |-> "none"]
    /\ runs = 0

Return(t, result) ==
    /\ pc' = [pc EXCEPT ![t] = "idle"]
    /\ todo' = [todo EXCEPT ![t] = <<>>]
    /\ status' = [status EXCEPT ![t] = result]

\* f with x mapped to y: a dict assignment.
With(f, x, y) == [z \in DOMAIN f \cup {x} |-> IF z = x THEN y ELSE f[z]]

-----------------------------------------------------------------------------
(* run(): the nodes.                                                       *)

\* The supervisor finds no need for the guild: the live speaker replies.
DirectReply(t) ==
    /\ pc[t] = "idle" /\ runs < MaxRuns
    /\ runs' = runs + 1
    /\ Return(t, "direct_reply")
    /\ UNCHANGED <<state, cardVars, gate>>

Summon(t, roster) ==
    /\ pc[t] = "idle" /\ runs < MaxRuns
    /\ runs' = runs + 1
    /\ pendingSummon' = roster
    /\ pc' = [pc EXCEPT ![t] = "summon"]
    /\ UNCHANGED <<smeResponses, mergedOpinion, crossExamRound, approvedActions,
                   cardVars, gate, todo, status>>

\* _parallel_summon: start the SME workers.
FanOut(t) ==
    /\ pc[t] = "summon"
    /\ pc' = [pc EXCEPT ![t] = "collect"]
    /\ todo' = [todo EXCEPT ![t] = pendingSummon]
    /\ UNCHANGED <<state, cardVars, gate, status, runs>>

Placeholder == [kept |-> FALSE, actions |-> <<>>]

\* _parallel_summon: the next SME of the roster answers, fails or times out.
Collect(t, response) ==
    /\ pc[t] = "collect" /\ todo[t] # <<>>
    /\ LET sme   == Head(todo[t])
           entry == [sme |-> sme, kept |-> response.kept, actions |-> response.actions]
           known == {k \in DOMAIN smeResponses : smeResponses[k].sme = sme}
       IN  /\ response \in Claims[sme] \cup {Placeholder}
           /\ smeResponses' = IF known = {} THEN Append(smeResponses, entry)
                              ELSE [k \in DOMAIN smeResponses |->
                                      IF k \in known THEN entry ELSE smeResponses[k]]
    /\ todo' = [todo EXCEPT ![t] = Tail(@)]
    /\ UNCHANGED <<pendingSummon, mergedOpinion, crossExamRound, approvedActions,
                   cardVars, gate, pc, status, runs>>

\* What the confident responses propose: <<response, action>>, and its order.
Proposals ==
    UNION {{k} \X DOMAIN smeResponses[k].actions :
              k \in {j \in DOMAIN smeResponses : smeResponses[j].kept}}
Proposed(p) == smeResponses[p[1]].actions[p[2]]
Precedes == {pq \in Proposals \X Proposals :
                LET p == pq[1]
                    q == pq[2]
                IN  p[1] < q[1] \/ (p[1] = q[1] /\ p[2] < q[2])}

\* In that order, the first of those with the same tool and arguments.
Merged ==
    LET first(p) == \A q \in Proposals : sig(Proposed(q)) = sig(Proposed(p)) => <<q, p>> \notin Precedes
        merged   == Listed({p \in Proposals : first(p)}, Precedes)
    IN  [k \in DOMAIN merged |->
            [step |-> Proposed(merged[k]), invoker |-> smeResponses[merged[k][1]].sme]]

\* _aggregate then _safe(_merge): if merge_fn raises the previous opinion stays.
Merge(t) ==
    /\ pc[t] = "collect" /\ todo[t] = <<>>
    /\ mergedOpinion' \in {Merged, mergedOpinion}
    /\ pc' = [pc EXCEPT ![t] = "dissent"]
    /\ UNCHANGED <<pendingSummon, smeResponses, crossExamRound, approvedActions,
                   cardVars, gate, todo, status, runs>>

\* Mutant: one round too many.
CrossExamine_late(t) ==
    /\ pc[t] = "dissent"
    /\ crossExamRound <= CROSS_EXAM_CAP
    /\ crossExamRound' = crossExamRound + 1
    /\ pc' = [pc EXCEPT ![t] = "summon"]
    /\ UNCHANGED <<pendingSummon, smeResponses, mergedOpinion, approvedActions,
                   cardVars, gate, todo, status, runs>>

\* Mutant: the rounds are not counted.
CrossExamine_uncounted(t) ==
    /\ pc[t] = "dissent"
    /\ crossExamRound < CROSS_EXAM_CAP
    /\ pc' = [pc EXCEPT ![t] = "summon"]
    /\ UNCHANGED <<state, cardVars, gate, todo, status, runs>>

\* _dissent asks for another round and the cap allows it.
CrossExamine(t) ==
    /\ pc[t] = "dissent"
    /\ crossExamRound < CROSS_EXAM_CAP
    /\ crossExamRound' = crossExamRound + 1
    /\ pc' = [pc EXCEPT ![t] = "summon"]
    /\ UNCHANGED <<pendingSummon, smeResponses, mergedOpinion, approvedActions,
                   cardVars, gate, todo, status, runs>>

\* _dissent converged, or the cap is reached; _safety takes the opinion.
Converge(t) ==
    /\ pc[t] = "dissent"
    /\ IF mergedOpinion = <<>> THEN Return(t, "complete")
       ELSE /\ pc' = [pc EXCEPT ![t] = "safety"]
            /\ todo' = [todo EXCEPT ![t] = mergedOpinion]
            /\ UNCHANGED status
    /\ UNCHANGED <<state, cardVars, gate, runs>>

Answer(t) == Evaluate(Head(todo[t]).step, Head(todo[t]).invoker, gate, FALSE, 0)

\* Mutant: the id of an answered card is used again.
NewCallId_reused == CHOOSE c \in CallIds : c \notin pendingConfirmations

NewCallId == CHOOSE c \in CallIds : c \notin DOMAIN cards

\* _safety, one action: confirm opens a card.
GateConfirm(t) ==
    /\ pc[t] = "safety" /\ todo[t] # <<>>
    /\ Answer(t).decision = "confirm"
    /\ CallIds \ DOMAIN cards # {}
    /\ cards' = With(cards, NewCallId, Head(todo[t]).step)
    /\ pendingConfirmations' = pendingConfirmations \cup {NewCallId}
    /\ gate' = Answer(t).session
    /\ todo' = [todo EXCEPT ![t] = Tail(@)]
    /\ UNCHANGED <<state, outcome, pc, status, runs>>

\* _safety, one action: shown at once (allow), or nothing comes of it.
GateOther(t) ==
    /\ pc[t] = "safety" /\ todo[t] # <<>>
    /\ Answer(t).decision \in {"allow", "deny", "queued", "suppressed"}
    /\ approvedActions' = IF Answer(t).decision = "allow"
                          THEN Append(approvedActions, Head(todo[t]).step)
                          ELSE approvedActions
    /\ gate' = Answer(t).session
    /\ todo' = [todo EXCEPT ![t] = Tail(@)]
    /\ UNCHANGED <<pendingSummon, smeResponses, mergedOpinion, crossExamRound,
                   cardVars, pc, status, runs>>

\* _safety, one action: the gate raises and so does run(); no envelope here.
GateRaises(t) ==
    /\ pc[t] = "safety" /\ todo[t] # <<>>
    /\ Answer(t).decision = "raise"
    /\ Return(t, "raised")
    /\ UNCHANGED <<state, cardVars, gate, runs>>

GateDone(t) ==
    /\ pc[t] = "safety" /\ todo[t] = <<>>
    /\ Return(t, IF pendingConfirmations # {} THEN "paused" ELSE "complete")
    /\ UNCHANGED <<state, cardVars, gate, runs>>

-----------------------------------------------------------------------------
(* resume(): the operator's answer.                                        *)

\* Mutant: whatever the latest opinion proposes first.
Behind_latest(c) == IF mergedOpinion = <<>> THEN {} ELSE {mergedOpinion[1].step}

\* The action behind a card: the first of the opinion with the card's summary.
Behind(c) ==
    LET hits == {k \in DOMAIN mergedOpinion : mergedOpinion[k].step.summary = cards[c].summary}
    IN  IF hits = {} THEN {}
        ELSE {mergedOpinion[CHOOSE k \in hits : \A l \in hits : k <= l].step}

Resume(t, c, approved) ==
    /\ pc[t] = "idle"
    /\ c \in pendingConfirmations
    /\ pendingConfirmations' = pendingConfirmations \ {c}
    /\ outcome' = With(outcome, c, IF approved THEN "done" ELSE "skipped")
    /\ IF approved /\ Behind(c) # {}
       THEN /\ approvedActions' = Append(approvedActions, CHOOSE a \in Behind(c) : TRUE)
            /\ UNCHANGED gate
       ELSE /\ gate' = IF Behind(c) = {} THEN gate
                       ELSE record_skip(gate, CHOOSE a \in Behind(c) : TRUE)
            /\ UNCHANGED approvedActions
    /\ status' = [status EXCEPT ![t] = IF pendingConfirmations' # {} THEN "paused"
                                       ELSE "complete"]
    /\ UNCHANGED <<pendingSummon, smeResponses, mergedOpinion, crossExamRound,
                   cards, pc, todo, runs>>

\* An answer to a card no longer open: a second tap, or the other channel's.
ResumeUnknown(t, c) ==
    /\ pc[t] = "idle"
    /\ c \in DOMAIN cards \ pendingConfirmations
    /\ status' = [status EXCEPT ![t] = "paused"]
    /\ UNCHANGED <<state, cardVars, gate, pc, todo, runs>>

-----------------------------------------------------------------------------
RunStep(t) ==
    \/ FanOut(t)
    \/ \E sme \in DOMAIN Claims :
          \E response \in Claims[sme] \cup {Placeholder} : Collect(t, response)
    \/ Merge(t) \/ CrossExamine(t) \/ Converge(t)
    \/ GateConfirm(t) \/ GateOther(t) \/ GateRaises(t) \/ GateDone(t)

Next ==
    \/ \E t \in Threads :
         \/ DirectReply(t)
         \/ \E roster \in Rosters : Summon(t, roster)
         \/ RunStep(t)
    \/ \E t \in ChatThreads, c \in CallIds :
         \/ \E approved \in BOOLEAN : Resume(t, c, approved)
         \/ ResumeUnknown(t, c)

Spec == Init /\ [][Next]_vars

\* A worker thread keeps executing: every SME is awaited for at most SME_WAIT_S.
FairSpec == Spec /\ \A t \in Threads : WF_vars(RunStep(t))

-----------------------------------------------------------------------------
(* Every variable keeps its type; the dictionaries only hold known ids.     *)
TypeOK ==
    /\ pendingSummon \in Rosters \cup {<<>>}
    /\ \A k \in DOMAIN mergedOpinion : mergedOpinion[k].step \in Steps
    /\ \A k \in DOMAIN approvedActions : approvedActions[k] \in Steps
    /\ crossExamRound \in 0..CROSS_EXAM_CAP
    /\ pendingConfirmations \subseteq DOMAIN cards
    /\ DOMAIN cards \subseteq CallIds
    /\ DOMAIN outcome \subseteq DOMAIN cards
    /\ gate \in GateSessionType
    /\ pc \in [Threads -> {"idle", "summon", "collect", "dissent", "safety"}]

(* The number of cards open in the session is covered by the gate's own     *)
(* count of them, which the gate keeps within MAX_PENDING: no interleaving  *)
(* of gated steps and answers lets a fourth card through, and none uncounts *)
(* a card that is still open (engine.py:376-383, gate.py:220-226, 244-247), *)
(* as long as nothing comes between the statements of one record_skip:      *)
(* OpenCovered of GateThreads says what remains of it then.                 *)
PendingCovered ==
    /\ Cardinality(pendingConfirmations) <= gate.pending_count
    /\ gate.pending_count <= MAX_PENDING

(* The engine keeps the ledger's promise: cards are fresh, at most three    *)
(* are open, each is answered once, whichever thread asks or answers.       *)
Ledger == INSTANCE ConfirmationLedger WITH
    Cards <- CallIds, MaxOpen <- MAX_PENDING,
    open <- pendingConfirmations, answered <- DOMAIN outcome

ImplementsLedger == Ledger!Spec

(* A step enters approvedActions only because the gate allows it outright   *)
(* at that moment, or because the operator just said yes to a card that was *)
(* open and showed that very step: one approval for one card.               *)
ApprovedByConsent ==
    [][ approvedActions' # approvedActions =>
          \E a \in Steps :
            /\ approvedActions' = Append(approvedActions, a)
            /\ \/ \E t \in Threads : /\ pc[t] = "safety" /\ todo[t] # <<>>
                                     /\ Head(todo[t]).step = a
                                     /\ Answer(t).decision = "allow"
               \/ \E c \in pendingConfirmations \ pendingConfirmations' :
                     cards[c] = a /\ outcome'[c] = "done" ]_vars

OpenCardsOf(s) == {c \in pendingConfirmations : sig(cards[c]) = s}

(* Skipping works: once a step was skipped twice it is not offered again,   *)
(* so that even with every card of the session showing that step the        *)
(* operator is asked to skip it at most MAX_PENDING + 1 times in all.       *)
SkipsEnd ==
    \A s \in Sigs : gate.skips[s] + Cardinality(OpenCardsOf(s)) <= MAX_PENDING + 1

(* Every run returns: cross-examination ends although dissent never does,   *)
(* hung SMEs are abandoned, and no answer or other run can hold it up.      *)
RunsFinish == \A t \in Threads : pc[t] # "idle" ~> pc[t] = "idle"

-----------------------------------------------------------------------------
(* What docs and comments of the repository say that the code does not do.  *)

(* gate.py:26 and specs/03:98 -- the limit is on SIMULTANEOUS pending       *)
(* confirmations: a step is only queued while three cards are open.         *)
QueuedOnlyWhenFull ==
    \A t \in Threads :
        pc[t] = "safety" /\ todo[t] # <<>> /\ Answer(t).decision = "queued"
          => Cardinality(pendingConfirmations) = MAX_PENDING
=============================================================================
