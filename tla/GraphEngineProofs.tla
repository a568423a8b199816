-------------------------- MODULE GraphEngineProofs --------------------------
(***************************************************************************)
(* For every set of threads, steps, SMEs, rosters and responses: the cards *)
(* open in a session are covered by the gate's count of them, which never  *)
(* passes MAX_PENDING, and the engine implements the confirmation ledger.  *)
(*                                                                         *)
(* PendingCovered is not inductive: an answer must not be counted twice    *)
(* and a fresh card must be new, which takes that open and answered cards  *)
(* are disjoint sets of emitted ones.  CardInv adds that.                  *)
(***************************************************************************)
EXTENDS GraphEngine, SafetyGateLemmas, SequenceLemmas, FiniteSetTheorems, TLAPS

CardInv ==
    /\ DOMAIN cards \subseteq CallIds
    /\ pendingConfirmations \subseteq DOMAIN cards
    /\ DOMAIN outcome \subseteq DOMAIN cards
    /\ pendingConfirmations \cap DOMAIN outcome = {}
    /\ IsFiniteSet(pendingConfirmations)

IInv ==
    /\ gate \in GateSessionType
    /\ CardInv
    /\ PendingCovered

-----------------------------------------------------------------------------
(* The gate counts a confirmation exactly when it answers "confirm", which  *)
(* it does only below the limit (SafetyGate._confirm).                      *)
LEMMA AnswerCounts ==
    ASSUME gate \in GateSessionType, NEW t
    PROVE  /\ Answer(t).session \in GateSessionType
           /\ Answer(t).decision = "confirm" =>
                /\ gate.pending_count < MAX_PENDING
                /\ Answer(t).session.pending_count = gate.pending_count + 1
           /\ Answer(t).decision # "confirm" =>
                Answer(t).session.pending_count = gate.pending_count
  <1> DEFINE p == Head(todo[t])
             halt == FALSE
             r == Evaluate(p.step, p.invoker, gate, halt, 0)
  <1>1. Answer(t) = r
    BY DEF Answer
  <1> HIDE DEF p, halt
  <1>2. /\ r.session \in GateSessionType
        /\ r.decision = "confirm" =>
             /\ gate.pending_count < MAX_PENDING
             /\ r.session.pending_count = gate.pending_count + 1
        /\ r.decision # "confirm" => r.session.pending_count = gate.pending_count
    BY EvaluateCounts
  <1> HIDE DEF r
  <1>3. QED
    BY <1>1, <1>2

(* It counts no skips, and asks about nothing that was skipped twice.      *)
LEMMA AnswerSkips ==
    ASSUME gate \in GateSessionType, NEW t
    PROVE  /\ Answer(t).session.skips = gate.skips
           /\ Answer(t).decision = "confirm" => ~skipped_often(Head(todo[t]).step, gate)
  <1> DEFINE p == Head(todo[t])
             halt == FALSE
             r == Evaluate(p.step, p.invoker, gate, halt, 0)
  <1>1. Answer(t) = r /\ ~halt
    BY DEF Answer
  <1> HIDE DEF p, halt
  <1>2. /\ r.session.skips = gate.skips
        /\ r.decision = "confirm" => ~skipped_often(p.step, gate)
    BY <1>1, EvaluateSkips
  <1> HIDE DEF r
  <1>3. QED
    BY <1>1, <1>2 DEF p

-----------------------------------------------------------------------------
LEMMA InitCards == Init => IInv
  <1> SUFFICES ASSUME Init PROVE IInv
    OBVIOUS
  <1>1. gate \in GateSessionType /\ gate.pending_count = 0
    BY DEF Init, GateSession, GateSessionType, Undocumented
  <1>2. /\ IsFiniteSet(pendingConfirmations)
        /\ Cardinality(pendingConfirmations) = 0
        /\ pendingConfirmations = {}
    BY FS_EmptySet DEF Init
  <1>3. DOMAIN outcome = {} /\ DOMAIN cards = {}
    BY DEF Init
  <1>4. QED
    BY <1>1, <1>2, <1>3 DEF IInv, CardInv, PendingCovered, MAX_PENDING

(* A step that touches neither the cards nor the gate. *)
LEMMA QuietStep ==
    ASSUME IInv, UNCHANGED <<cardVars, gate>>
    PROVE  IInv'
  BY DEF IInv, CardInv, PendingCovered, cardVars

(* The gate opens a card under an id that was not used before. *)
LEMMA GateConfirmStep ==
    ASSUME IInv, NEW t \in Threads, GateConfirm(t)
    PROVE  /\ IInv'
           /\ Ledger!Offer(NewCallId)
  <1> DEFINE c == NewCallId
  <1>1. c \in CallIds /\ c \notin DOMAIN cards
    BY DEF GateConfirm, NewCallId
  <1>2. DOMAIN cards' = DOMAIN cards \cup {c}
    BY DEF GateConfirm, With
  <1>3. /\ pendingConfirmations' = pendingConfirmations \cup {c}
        /\ outcome' = outcome
    BY DEF GateConfirm
  <1>4. /\ gate' \in GateSessionType
        /\ gate.pending_count < MAX_PENDING
        /\ gate'.pending_count = gate.pending_count + 1
    <2>1. gate' = Answer(t).session /\ Answer(t).decision = "confirm"
      BY DEF GateConfirm
    <2>2. QED
      BY <2>1, AnswerCounts DEF IInv
  <1> HIDE DEF c
  <1>5. /\ IsFiniteSet(pendingConfirmations')
        /\ Cardinality(pendingConfirmations') = Cardinality(pendingConfirmations) + 1
    BY <1>1, <1>3, FS_AddElement DEF IInv, CardInv
  <1>6. /\ Cardinality(pendingConfirmations) \in Nat
        /\ gate.pending_count \in Nat
    BY FS_CardinalityType DEF IInv, CardInv, GateSessionType
  <1>7. CardInv'
    BY <1>1, <1>2, <1>3, <1>5 DEF IInv, CardInv
  <1>8. PendingCovered'
    BY <1>4, <1>5, <1>6 DEF IInv, PendingCovered, MAX_PENDING
  <1>9. Ledger!Offer(c)
    <2>1. c \notin pendingConfirmations \cup DOMAIN outcome
      BY <1>1 DEF IInv, CardInv
    <2>2. Cardinality(pendingConfirmations) < MAX_PENDING
      BY <1>4, <1>6 DEF IInv, PendingCovered, MAX_PENDING
    <2>3. (DOMAIN outcome)' = DOMAIN outcome
      BY <1>3
    <2>4. c \in CallIds \ (pendingConfirmations \cup DOMAIN outcome)
      BY <1>1, <2>1
    <2>5. Ledger!Cardinality(pendingConfirmations) = Cardinality(pendingConfirmations)
      BY DEF Cardinality, Ledger!Cardinality
    <2>6. QED
      BY <1>3, <2>2, <2>3, <2>4, <2>5 DEF Ledger!Offer
  <1>10. QED
    BY <1>4, <1>7, <1>8, <1>9 DEF IInv, c

(* An answer closes the card it names, for good. *)
LEMMA ResumeStep ==
    ASSUME IInv, NEW t, NEW c, NEW approved, Resume(t, c, approved)
    PROVE  /\ IInv'
           /\ Ledger!Answer(c)
  <1>1. /\ c \in pendingConfirmations
        /\ pendingConfirmations' = pendingConfirmations \ {c}
        /\ DOMAIN outcome' = DOMAIN outcome \cup {c}
        /\ cards' = cards
    BY DEF Resume, With
  <1>2. /\ IsFiniteSet(pendingConfirmations')
        /\ Cardinality(pendingConfirmations') = Cardinality(pendingConfirmations) - 1
    BY <1>1, FS_RemoveElement DEF IInv, CardInv
  <1>3. /\ Cardinality(pendingConfirmations) \in Nat
        /\ gate.pending_count \in Nat
    BY FS_CardinalityType DEF IInv, CardInv, GateSessionType
  <1>4. \/ gate' = gate
        \/ \E a : gate' = record_skip(gate, a)
    BY DEF Resume
  <1>5. /\ gate' \in GateSessionType
        /\ \/ gate'.pending_count = gate.pending_count
           \/ gate'.pending_count = IF gate.pending_count > 0 THEN gate.pending_count - 1 ELSE 0
    BY <1>4, RecordSkipCounts DEF IInv
  <1>6. CardInv'
    BY <1>1, <1>2 DEF IInv, CardInv
  <1>7. PendingCovered'
    BY <1>2, <1>3, <1>5 DEF IInv, PendingCovered, MAX_PENDING
  <1>8. QED
    BY <1>1, <1>5, <1>6, <1>7 DEF IInv, Ledger!Answer

(* Any other gated action leaves the gate's count as it is. *)
LEMMA GateOtherStep ==
    ASSUME IInv, NEW t \in Threads, GateOther(t)
    PROVE  IInv' /\ UNCHANGED cardVars
  <1>1. UNCHANGED cardVars
    BY DEF GateOther
  <1>2. /\ gate' \in GateSessionType
        /\ gate'.pending_count = gate.pending_count
    <2>1. gate' = Answer(t).session /\ Answer(t).decision # "confirm"
      BY DEF GateOther
    <2>2. QED
      BY <2>1, AnswerCounts DEF IInv
  <1>3. QED
    BY <1>1, <1>2 DEF IInv, CardInv, PendingCovered, cardVars

LedgerVars == <<pendingConfirmations, DOMAIN outcome>>

(* Every step keeps the invariant and is a step of the ledger or a stutter. *)
LEMMA NextCards ==
    ASSUME IInv, [Next]_vars
    PROVE  /\ IInv'
           /\ [Ledger!Next]_LedgerVars
  <1> USE DEF LedgerVars
  <1>1. CASE UNCHANGED vars
    BY <1>1, QuietStep DEF vars, cardVars
  <1>2. ASSUME NEW t \in Threads, GateConfirm(t)
        PROVE  IInv' /\ Ledger!Next
    <2>1. NewCallId \in CallIds
      BY <1>2 DEF GateConfirm, NewCallId
    <2>2. QED
      BY <1>2, <2>1, GateConfirmStep DEF Ledger!Next
  <1>3. ASSUME NEW t \in ChatThreads, NEW c \in CallIds, NEW approved \in BOOLEAN,
               Resume(t, c, approved)
        PROVE  IInv' /\ Ledger!Next
    BY <1>3, ResumeStep DEF Ledger!Next
  <1>4. ASSUME NEW t \in Threads, GateOther(t)
        PROVE  IInv' /\ UNCHANGED LedgerVars
    BY <1>4, GateOtherStep DEF cardVars
  <1>5. ASSUME NEW t \in Threads,
               \/ DirectReply(t)
               \/ \E roster \in Rosters : Summon(t, roster)
               \/ FanOut(t)
               \/ \E sme \in DOMAIN Claims :
                     \E response \in Claims[sme] \cup {Placeholder} : Collect(t, response)
               \/ Merge(t) \/ CrossExamine(t) \/ Converge(t)
               \/ GateRaises(t) \/ GateDone(t)
        PROVE  IInv' /\ UNCHANGED LedgerVars
    <2>1. UNCHANGED <<cardVars, gate>>
      BY <1>5 DEF DirectReply, Summon, FanOut, Collect, Merge, CrossExamine, Converge,
                  GateRaises, GateDone
    <2>2. QED
      BY <2>1, QuietStep DEF cardVars
  <1>6. ASSUME NEW t \in ChatThreads, NEW c \in CallIds, ResumeUnknown(t, c)
        PROVE  IInv' /\ UNCHANGED LedgerVars
    BY <1>6, QuietStep DEF ResumeUnknown, cardVars
  <1>7. QED
    BY <1>1, <1>2, <1>3, <1>4, <1>5, <1>6 DEF Next, RunStep

-----------------------------------------------------------------------------
(* The open cards of a session are covered by the gate's count, which stays *)
(* within MAX_PENDING, under every interleaving of runs and answers         *)
(* (engine.py _safety and _resume, gate.py _confirm and record_skip).       *)
THEOREM OpenCardsBounded == Spec => []PendingCovered
  <1>1. IInv => PendingCovered
    BY DEF IInv
  <1>2. IInv /\ [Next]_vars => IInv'
    BY NextCards
  <1>3. QED
    BY InitCards, <1>1, <1>2, PTL DEF Spec

(* The engine implements the confirmation ledger: fresh cards, at most      *)
(* MAX_PENDING open, each answered once (specs/03 sections 2 and 3.3).      *)
THEOREM EngineImplementsLedger == Spec => ImplementsLedger
  <1>1. Init => Ledger!Init
    BY DEF Init, Ledger!Init
  <1>2. IInv /\ [Next]_vars => IInv' /\ [Ledger!Next]_<<pendingConfirmations, DOMAIN outcome>>
    BY NextCards DEF LedgerVars
  <1>3. QED
    BY InitCards, <1>1, <1>2, PTL DEF Spec, ImplementsLedger, Ledger!Spec

-----------------------------------------------------------------------------
(* What the variables hold.                                                *)

Responses == [sme: DOMAIN Claims, kept: BOOLEAN, actions: Seq(Steps)]
Opinions == [step: Steps, invoker: DOMAIN Claims]

DataInv ==
    /\ pendingSummon \in Rosters \cup {<<>>}
    /\ smeResponses \in Seq(Responses)
    /\ mergedOpinion \in Seq(Opinions)
    /\ crossExamRound \in 0..CROSS_EXAM_CAP
    /\ approvedActions \in Seq(Steps)
    /\ pc \in [Threads -> {"idle", "summon", "collect", "dissent", "safety"}]
    /\ DOMAIN todo = Threads
    /\ \A t \in Threads : pc[t] = "collect" => todo[t] \in Seq(DOMAIN Claims)
    /\ \A t \in Threads : pc[t] = "safety" => todo[t] \in Seq(Opinions)
    /\ \A c \in DOMAIN cards : cards[c] \in Steps

(* The merged opinion proposes steps, each with the SME that proposed it.  *)
LEMMA MergedType ==
    ASSUME smeResponses \in Seq(Responses)
    PROVE  Merged \in Seq(Opinions)
  <1> DEFINE K == {j \in DOMAIN smeResponses : smeResponses[j].kept}
             f == [k \in K |-> {k} \X DOMAIN smeResponses[k].actions]
             firsts == {p \in Proposals :
                          \A q \in Proposals : sig(Proposed(q)) = sig(Proposed(p)) => <<q, p>> \notin Precedes}
             merged == Listed(firsts, Precedes)
  <1>1. \A k \in DOMAIN smeResponses : smeResponses[k] \in Responses /\ k \in Nat
    OBVIOUS
  <1>2. \A p \in Proposals : /\ p[1] \in DOMAIN smeResponses
                             /\ p[2] \in DOMAIN smeResponses[p[1]].actions
                             /\ p = <<p[1], p[2]>>
    BY DEF Proposals
  <1>3. \A p \in Proposals : p[1] \in Nat /\ p[2] \in Nat /\ Proposed(p) \in Steps
    BY <1>1, <1>2 DEF Proposed, Responses
  <1>4. IsFiniteSet(Proposals)
    <2>1. IsFiniteSet(K)
      <3>1. DOMAIN smeResponses = 1..Len(smeResponses) /\ Len(smeResponses) \in Nat
        OBVIOUS
      <3>2. IsFiniteSet(1..Len(smeResponses))
        BY <3>1, FS_Interval
      <3>3. K \in SUBSET (1..Len(smeResponses))
        BY <3>1
      <3>4. QED
        BY <3>2, <3>3, FS_Subset
    <2>2. ASSUME NEW k \in K PROVE IsFiniteSet(f[k])
      <3>1. PICK D : D = DOMAIN smeResponses[k].actions
        OBVIOUS
      <3>2. smeResponses[k].actions \in Seq(Steps)
        BY <1>1 DEF Responses
      <3>3. D = 1..Len(smeResponses[k].actions) /\ Len(smeResponses[k].actions) \in Nat
        BY <3>1, <3>2
      <3>4. IsFiniteSet(D)
        BY <3>3, FS_Interval
      <3>5. IsFiniteSet({k})
        BY FS_Singleton
      <3>6. IsFiniteSet({k} \X D)
        BY <3>4, <3>5, FS_Product
      <3>7. QED
        BY <3>1, <3>6
    <2>3. Proposals = UNION {f[k] : k \in K}
      BY DEF Proposals
    <2> HIDE DEF K, f
    <2>4. QED
      BY <2>1, <2>2, <2>3, FamilyFinite
  <1>5. Orders(Precedes, Proposals)
    BY <1>2, <1>3 DEF Orders, Precedes
  <1>6. /\ IsFiniteSet(firsts) /\ Orders(Precedes, firsts)
        /\ \A p \in firsts : p \in Proposals
    BY <1>4, <1>5, FS_Subset DEF Orders
  <1>7. PICK n \in Nat : merged \in [1..n -> firsts]
    <2> HIDE DEF firsts
    <2>1. /\ Cardinality(firsts) \in Nat
          /\ Listed(firsts, Precedes) \in Bijection(1..Cardinality(firsts), firsts)
      BY <1>6, ListedOnce
    <2>2. QED
      BY <2>1 DEF Bijection, Injection
  <1>8. Merged = [k \in 1..n |-> [step |-> Proposed(merged[k]), invoker |-> smeResponses[merged[k][1]].sme]]
    BY <1>7 DEF Merged
  <1>9. \A k \in 1..n : /\ Proposed(merged[k]) \in Steps
                        /\ smeResponses[merged[k][1]].sme \in DOMAIN Claims
    <2>1. \A p \in firsts : Proposed(p) \in Steps /\ smeResponses[p[1]].sme \in DOMAIN Claims
      BY <1>1, <1>2, <1>3, <1>6 DEF Responses
    <2> HIDE DEF firsts
    <2>2. QED
      BY <1>7, <2>1
  <1>10. QED
    BY <1>8, <1>9 DEF Opinions

LEMMA DataInit == Init => DataInv
  BY DEF Init, DataInv, CROSS_EXAM_CAP

LEMMA ResumeData ==
    ASSUME DataInv, NEW t \in Threads, NEW c, NEW approved \in BOOLEAN, Resume(t, c, approved),
           c \in DOMAIN cards
    PROVE  /\ \A a \in Behind(c) : a \in Steps /\ a.summary = cards[c].summary
           /\ approvedActions' \in Seq(Steps)
  <1>1. \A k \in DOMAIN mergedOpinion : mergedOpinion[k].step \in Steps /\ k \in Nat
    <2>1. \A k \in DOMAIN mergedOpinion : mergedOpinion[k] \in Opinions /\ k \in Nat
      BY DEF DataInv
    <2>2. QED
      BY <2>1 DEF Opinions
  <1>2. ASSUME NEW a \in Behind(c) PROVE a \in Steps /\ a.summary = cards[c].summary
    <2> DEFINE hits == {k \in DOMAIN mergedOpinion :
                          mergedOpinion[k].step.summary = cards[c].summary}
    <2>1. hits # {} /\ a = mergedOpinion[CHOOSE k \in hits : \A l \in hits : k <= l].step
      BY <1>2 DEF Behind
    <2>2. hits \subseteq Nat
      BY <1>1
    <2>3. \E k \in hits : \A l \in hits : k <= l
      <3> HIDE DEF hits
      <3>1. QED
        BY <2>1, <2>2, Smallest
    <2> HIDE DEF hits
    <2>4. (CHOOSE k \in hits : \A l \in hits : k <= l) \in hits
      BY <2>3
    <2>5. QED
      BY <1>1, <2>1, <2>4 DEF hits
  <1>3. approvedActions' = approvedActions
        \/ \E a \in Behind(c) : approvedActions' = Append(approvedActions, a)
    BY DEF Resume
  <1>4. approvedActions \in Seq(Steps) /\ \A a \in Steps : Append(approvedActions, a) \in Seq(Steps)
    BY DEF DataInv
  <1>5. approvedActions' \in Seq(Steps)
    BY <1>2, <1>3, <1>4, Zenon
  <1>6. QED
    BY <1>2, <1>5

LEMMA DataStep ==
    ASSUME IInv, DataInv, [Next]_vars
    PROVE  DataInv'
  <1> USE DEF DataInv
  <1>1. ASSUME NEW t \in Threads, DirectReply(t) PROVE DataInv'
    BY <1>1 DEF DirectReply, Return, state, cardVars
  <1>2. ASSUME NEW t \in Threads, NEW roster \in Rosters, Summon(t, roster) PROVE DataInv'
    BY <1>2 DEF Summon, cardVars
  <1>3. ASSUME NEW t \in Threads, FanOut(t) PROVE DataInv'
    <2>1. pendingSummon \in Rosters \/ pendingSummon = <<>>
      OBVIOUS
    <2>2. Rosters \subseteq Seq(DOMAIN Claims)
      BY ClaimsAssumption
    <2>3. pendingSummon \in Seq(DOMAIN Claims)
      <3>1. CASE pendingSummon \in Rosters
        BY <2>2, <3>1, Zenon
      <3>2. CASE pendingSummon = <<>>
        BY <3>2
      <3>3. QED
        BY <2>1, <3>1, <3>2
    <2>4. QED
      BY <1>3, <2>3 DEF FanOut, state, cardVars
  <1>4. ASSUME NEW t \in Threads, NEW response, Collect(t, response) PROVE DataInv'
    <2>1. PICK sme : sme = Head(todo[t])
      OBVIOUS
    <2>2. todo[t] \in Seq(DOMAIN Claims) /\ sme \in DOMAIN Claims /\ Tail(todo[t]) \in Seq(DOMAIN Claims)
      BY <1>4, <2>1 DEF Collect
    <2>3. PICK entry : entry = [sme |-> sme, kept |-> response.kept, actions |-> response.actions]
      OBVIOUS
    <2>4. entry \in Responses
      <3>1. response \in Claims[sme] \/ response = Placeholder
        BY <1>4, <2>1 DEF Collect
      <3>2. response.kept \in BOOLEAN /\ response.actions \in Seq(Steps)
        <4>1. CASE response \in Claims[sme]
          BY <2>2, <4>1, ClaimsAssumption
        <4>2. CASE response = Placeholder
          BY <4>2 DEF Placeholder
        <4>3. QED
          BY <3>1, <4>1, <4>2
      <3>3. QED
        BY <2>2, <2>3, <3>2 DEF Responses
    <2>5. \/ smeResponses' = Append(smeResponses, entry)
          \/ \E known : smeResponses' = [k \in DOMAIN smeResponses |->
                                           IF k \in known THEN entry ELSE smeResponses[k]]
      BY <1>4, <2>1, <2>3 DEF Collect
    <2>6. smeResponses' \in Seq(Responses)
      <3>1. CASE smeResponses' = Append(smeResponses, entry)
        BY <2>4, <3>1
      <3>2. ASSUME NEW known,
                   smeResponses' = [k \in DOMAIN smeResponses |->
                                      IF k \in known THEN entry ELSE smeResponses[k]]
            PROVE  smeResponses' \in Seq(Responses)
        <4>1. \A k \in DOMAIN smeResponses : smeResponses[k] \in Responses
          OBVIOUS
        <4>2. PICK n : n = Len(smeResponses)
          OBVIOUS
        <4>3. n \in Nat /\ DOMAIN smeResponses = 1..n
          BY <4>2
        <4>4. smeResponses' \in [1..n -> Responses]
          BY <2>4, <3>2, <4>1, <4>3
        <4>5. QED
          BY <4>3, <4>4
      <3>3. QED
        BY <2>5, <3>1, <3>2
    <2>7. QED
      BY <1>4, <2>2, <2>6 DEF Collect, cardVars
  <1>5. ASSUME NEW t \in Threads, Merge(t) PROVE DataInv'
    <2>1. mergedOpinion' \in Seq(Opinions)
      BY <1>5, MergedType DEF Merge
    <2>2. QED
      BY <1>5, <2>1 DEF Merge, cardVars
  <1>6. ASSUME NEW t \in Threads, CrossExamine(t) PROVE DataInv'
    BY <1>6 DEF CrossExamine, cardVars, CROSS_EXAM_CAP
  <1>7. ASSUME NEW t \in Threads, Converge(t) PROVE DataInv'
    BY <1>7 DEF Converge, Return, state, cardVars
  \* What a thread gates is a step.
  <1>8. ASSUME NEW t \in Threads, pc[t] = "safety", todo[t] # <<>>
        PROVE  Head(todo[t]).step \in Steps /\ Tail(todo[t]) \in Seq(Opinions)
    <2>1. Head(todo[t]) \in Opinions /\ Tail(todo[t]) \in Seq(Opinions)
      BY <1>8
    <2>2. QED
      BY <2>1 DEF Opinions
  <1>9. ASSUME NEW t \in Threads, GateConfirm(t) PROVE DataInv'
    <2>1. /\ Head(todo[t]).step \in Steps /\ Tail(todo[t]) \in Seq(Opinions)
          /\ DOMAIN cards' = DOMAIN cards \cup {NewCallId}
          /\ \A c \in DOMAIN cards' : cards'[c] = Head(todo[t]).step \/ (c \in DOMAIN cards /\ cards'[c] = cards[c])
      BY <1>8, <1>9 DEF GateConfirm, With
    <2>2. \A c \in DOMAIN cards' : cards'[c] \in Steps
      BY <2>1
    <2>3. QED
      BY <1>9, <2>1, <2>2 DEF GateConfirm, state
  <1>10. ASSUME NEW t \in Threads, GateOther(t) PROVE DataInv'
    <2>1. approvedActions' \in Seq(Steps)
      BY <1>8, <1>10 DEF GateOther
    <2>2. QED
      BY <1>8, <1>10, <2>1 DEF GateOther, cardVars
  <1>11. ASSUME NEW t \in Threads, GateRaises(t) \/ GateDone(t) PROVE DataInv'
    BY <1>11 DEF GateRaises, GateDone, Return, state, cardVars
  <1>12. ASSUME NEW t \in Threads, NEW c, NEW approved \in BOOLEAN, Resume(t, c, approved)
         PROVE  DataInv'
    <2>1. approvedActions' \in Seq(Steps)
      BY <1>12, ResumeData DEF Resume, IInv, CardInv
    <2>2. QED
      BY <1>12, <2>1 DEF Resume
  <1>13. ASSUME NEW t \in Threads, NEW c, ResumeUnknown(t, c) PROVE DataInv'
    BY <1>13 DEF ResumeUnknown, state, cardVars
  <1>14. CASE UNCHANGED vars
    BY <1>14 DEF vars, state, cardVars, control
  <1>15. QED
    BY <1>1, <1>2, <1>3, <1>4, <1>5, <1>6, <1>7, <1>9, <1>10, <1>11, <1>12, <1>13, <1>14,
       ChatThreadsAssumption DEF Next, RunStep

(* The engine's variables hold what they should, whatever the SMEs answer   *)
(* (TypeOK): the steps of the opinion, of the cards and of the approvals    *)
(* are steps some SME proposed, and no third round of cross-examination     *)
(* starts.                                                                  *)
THEOREM EngineTypeCorrect == Spec => []TypeOK
  <1>1. IInv /\ DataInv => TypeOK
    <2> SUFFICES ASSUME IInv, DataInv PROVE TypeOK
      OBVIOUS
    <2>1. /\ \A k \in DOMAIN mergedOpinion : mergedOpinion[k] \in Opinions
          /\ \A k \in DOMAIN approvedActions : approvedActions[k] \in Steps
      BY DEF DataInv
    <2>2. \A k \in DOMAIN mergedOpinion : mergedOpinion[k].step \in Steps
      BY <2>1 DEF Opinions
    <2>3. QED
      BY <2>1, <2>2 DEF IInv, DataInv, CardInv, TypeOK
  <1>2. IInv /\ DataInv /\ [Next]_vars => IInv' /\ DataInv'
    BY NextCards, DataStep
  <1>3. QED
    BY InitCards, DataInit, <1>1, <1>2, PTL DEF Spec

-----------------------------------------------------------------------------
(* Answers reach the step the operator was shown as long as no two steps    *)
(* are described in the same words, which resume goes by.                   *)

WordsTellArguments == \A a, b \in Steps : a.summary = b.summary => sig(a) = sig(b)
WordsTellSteps == \A a, b \in Steps : a.summary = b.summary => a = b

(* A step leaves the skips and the open cards of a signature within their   *)
(* bound: the gate opens a card only for what was skipped at most once, and *)
(* a skip takes the card with it.                                           *)
LEMMA SkipsStep ==
    ASSUME WordsTellArguments, IInv, DataInv, SkipsEnd, [Next]_vars
    PROVE  SkipsEnd'
  <1>1. /\ gate \in GateSessionType /\ gate.skips \in [Sigs -> Nat] /\ gate.pending_count \in Nat
        /\ IsFiniteSet(pendingConfirmations)
        /\ pendingConfirmations \subseteq DOMAIN cards
        /\ \A c \in DOMAIN cards : cards[c] \in Steps
    BY DEF IInv, CardInv, GateSessionType, DataInv
  <1>2. ASSUME NEW s
        PROVE  /\ IsFiniteSet(OpenCardsOf(s)) /\ Cardinality(OpenCardsOf(s)) \in Nat
               /\ Cardinality(OpenCardsOf(s)) <= gate.pending_count
    <2>1. OpenCardsOf(s) \in SUBSET pendingConfirmations
      BY DEF OpenCardsOf
    <2>2. /\ IsFiniteSet(OpenCardsOf(s))
          /\ Cardinality(OpenCardsOf(s)) <= Cardinality(pendingConfirmations)
      BY <1>1, <2>1, FS_Subset
    <2>3. Cardinality(pendingConfirmations) <= gate.pending_count
      BY DEF IInv, PendingCovered
    <2>4. Cardinality(OpenCardsOf(s)) \in Nat /\ Cardinality(pendingConfirmations) \in Nat
      BY <1>1, <2>2, FS_CardinalityType
    <2>5. QED
      BY <1>1, <2>2, <2>3, <2>4
  <1>3. ASSUME NEW t \in Threads, GateConfirm(t) PROVE SkipsEnd'
    <2> DEFINE step == Head(todo[t]).step
               c == NewCallId
    <2>1. /\ cards' = With(cards, c, step) /\ pendingConfirmations' = pendingConfirmations \cup {c}
          /\ c \notin DOMAIN cards /\ gate' = Answer(t).session /\ Answer(t).decision = "confirm"
      BY <1>3 DEF GateConfirm, NewCallId
    <2>2. /\ gate'.skips = gate.skips
          /\ gate.skips[sig(step)] < 2 /\ gate.pending_count < MAX_PENDING
      <3>1. gate'.skips = gate.skips /\ ~skipped_often(step, gate)
        BY <1>1, <2>1, AnswerSkips
      <3>2. gate.pending_count < MAX_PENDING
        BY <1>1, <2>1, AnswerCounts
      <3>3. step \in Steps
        <4>1. Head(todo[t]) \in Opinions
          BY <1>3 DEF GateConfirm, DataInv
        <4>2. QED
          BY <4>1 DEF Opinions
      <3>4. gate.skips[sig(step)] \in Nat
        BY <1>1, <3>3 DEF Sigs
      <3>5. QED
        BY <3>1, <3>2, <3>4 DEF skipped_often
    <2> HIDE DEF step, c
    <2>3. ASSUME NEW s \in Sigs
          PROVE  gate'.skips[s] + Cardinality(OpenCardsOf(s)') <= MAX_PENDING + 1
      <3>1. CASE s = sig(step)
        <4>1. OpenCardsOf(s)' = OpenCardsOf(s) \cup {c} /\ c \notin OpenCardsOf(s)
          BY <1>1, <2>1, <3>1 DEF OpenCardsOf, With
        <4>2. Cardinality(OpenCardsOf(s)') = Cardinality(OpenCardsOf(s)) + 1
          BY <1>2, <4>1, FS_AddElement
        <4>3. gate.skips[s] \in Nat
          BY <1>1
        <4>4. QED
          BY <1>1, <1>2, <2>2, <3>1, <4>2, <4>3 DEF MAX_PENDING
      <3>2. CASE s # sig(step)
        <4>1. OpenCardsOf(s)' = OpenCardsOf(s)
          BY <1>1, <2>1, <3>2 DEF OpenCardsOf, With
        <4>2. QED
          BY <2>2, <4>1 DEF SkipsEnd
      <3>3. QED
        BY <3>1, <3>2
    <2>4. QED
      BY <2>3 DEF SkipsEnd
  <1>4. ASSUME NEW t \in Threads, NEW c, NEW approved \in BOOLEAN, Resume(t, c, approved)
        PROVE  SkipsEnd'
    <2>1. /\ c \in pendingConfirmations /\ pendingConfirmations' = pendingConfirmations \ {c}
          /\ cards' = cards
      BY <1>4 DEF Resume
    <2>2. \/ gate' = gate
          \/ \E a \in Behind(c) : gate' = record_skip(gate, a)
      BY <1>4 DEF Resume
    <2>3. \A a \in Behind(c) : sig(a) = sig(cards[c])
      BY <1>1, <1>4, <2>1, ResumeData DEF WordsTellArguments
    <2>4. ASSUME NEW s \in Sigs
          PROVE  gate'.skips[s] + Cardinality(OpenCardsOf(s)') <= MAX_PENDING + 1
      <3>1. gate.skips[s] \in Nat /\ gate.skips[s] + Cardinality(OpenCardsOf(s)) <= MAX_PENDING + 1
        BY <1>1 DEF SkipsEnd
      <3>2. CASE s = sig(cards[c])
        <4>1. OpenCardsOf(s)' = OpenCardsOf(s) \ {c} /\ c \in OpenCardsOf(s)
          BY <2>1, <3>2 DEF OpenCardsOf
        <4>2. Cardinality(OpenCardsOf(s)') = Cardinality(OpenCardsOf(s)) - 1
          BY <1>2, <4>1, FS_RemoveElement
        <4>3. gate'.skips[s] = gate.skips[s] \/ gate'.skips[s] = gate.skips[s] + 1
          <5>1. ASSUME NEW a \in Behind(c), gate' = record_skip(gate, a)
                PROVE  gate'.skips = [gate.skips EXCEPT ![sig(a)] = @ + 1]
            BY <1>1, <5>1, RecordSkipSkips
          <5>2. QED
            BY <1>1, <2>2, <5>1
        <4>4. QED
          BY <1>2, <3>1, <4>2, <4>3 DEF MAX_PENDING
      <3>3. CASE s # sig(cards[c])
        <4>1. OpenCardsOf(s)' = OpenCardsOf(s)
          BY <2>1, <3>3 DEF OpenCardsOf
        <4>2. gate'.skips[s] = gate.skips[s]
          <5>1. ASSUME NEW a \in Behind(c), gate' = record_skip(gate, a)
                PROVE  gate'.skips = [gate.skips EXCEPT ![sig(a)] = @ + 1] /\ sig(a) # s
            BY <1>1, <2>3, <3>3, <5>1, RecordSkipSkips
          <5>2. QED
            BY <1>1, <2>2, <5>1
        <4>3. QED
          BY <3>1, <4>1, <4>2
      <3>4. QED
        BY <3>2, <3>3
    <2>5. QED
      BY <2>4 DEF SkipsEnd
  <1>5. ASSUME UNCHANGED cardVars, gate'.skips = gate.skips PROVE SkipsEnd'
    BY <1>5 DEF SkipsEnd, OpenCardsOf, cardVars
  <1>6. ASSUME NEW t \in Threads, GateOther(t) PROVE SkipsEnd'
    <2>1. gate' = Answer(t).session /\ UNCHANGED cardVars
      BY <1>6 DEF GateOther
    <2>2. gate'.skips = gate.skips
      BY <1>1, <2>1, AnswerSkips
    <2>3. QED
      BY <1>5, <2>1, <2>2
  <1>7. ASSUME NEW t \in Threads,
               \/ DirectReply(t)
               \/ \E roster \in Rosters : Summon(t, roster)
               \/ FanOut(t)
               \/ \E sme \in DOMAIN Claims :
                     \E response \in Claims[sme] \cup {Placeholder} : Collect(t, response)
               \/ Merge(t) \/ CrossExamine(t) \/ Converge(t)
               \/ GateRaises(t) \/ GateDone(t)
               \/ \E c \in CallIds : ResumeUnknown(t, c)
        PROVE  SkipsEnd'
    <2>1. UNCHANGED <<cardVars, gate>>
      BY <1>7 DEF DirectReply, Summon, FanOut, Collect, Merge, CrossExamine, Converge,
                  GateRaises, GateDone, ResumeUnknown
    <2>2. QED
      BY <1>5, <2>1
  <1>8. CASE UNCHANGED vars
    BY <1>5, <1>8 DEF vars, cardVars
  <1>9. QED
    BY <1>3, <1>4, <1>6, <1>7, <1>8, ChatThreadsAssumption DEF Next, RunStep

(* Skipping works (SkipsEnd): a step is offered, and can be skipped, at     *)
(* most MAX_PENDING + 1 times, provided its words tell its arguments;       *)
(* otherwise a skip may be counted against another step.                    *)
THEOREM SkippingEnds ==
    ASSUME WordsTellArguments
    PROVE  Spec => []SkipsEnd
  <1>1. Init => SkipsEnd
    <2> SUFFICES ASSUME Init, NEW s \in Sigs
                 PROVE  gate.skips[s] + Cardinality(OpenCardsOf(s)) <= MAX_PENDING + 1
      BY DEF SkipsEnd
    <2>1. OpenCardsOf(s) = {} /\ gate.skips[s] = 0
      BY DEF Init, OpenCardsOf, GateSession
    <2>2. QED
      BY <2>1, FS_EmptySet DEF MAX_PENDING
  <1>2. IInv /\ DataInv /\ SkipsEnd /\ [Next]_vars => IInv' /\ DataInv' /\ SkipsEnd'
    BY NextCards, DataStep, SkipsStep
  <1>3. QED
    BY InitCards, DataInit, <1>1, <1>2, PTL DEF Spec

(* Nothing is approved without consent (ApprovedByConsent): a step becomes  *)
(* approved because the gate allows it there and then, or because the       *)
(* operator said yes to the card that showed it, provided no two steps are  *)
(* described in the same words.                                             *)
THEOREM ApprovalsNeedConsent ==
    ASSUME WordsTellSteps
    PROVE  Spec => ApprovedByConsent
  <1> DEFINE Consented ==
        approvedActions' # approvedActions =>
          \E a \in Steps :
            /\ approvedActions' = Append(approvedActions, a)
            /\ \/ \E t \in Threads : /\ pc[t] = "safety" /\ todo[t] # <<>>
                                     /\ Head(todo[t]).step = a
                                     /\ Answer(t).decision = "allow"
               \/ \E c \in pendingConfirmations \ pendingConfirmations' :
                     cards[c] = a /\ outcome'[c] = "done"
  <1>1. IInv /\ DataInv /\ [Next]_vars => [Consented]_vars
    <2> SUFFICES ASSUME IInv, DataInv, [Next]_vars, approvedActions' # approvedActions
                 PROVE  Consented
      OBVIOUS
    <2>1. \/ \E t \in Threads : GateOther(t)
          \/ \E t \in ChatThreads, c \in CallIds : \E approved \in BOOLEAN : Resume(t, c, approved)
      BY DEF Next, RunStep, DirectReply, Summon, FanOut, Collect, Merge, CrossExamine, Converge,
             GateConfirm, GateRaises, GateDone, ResumeUnknown, state, vars
    <2>2. ASSUME NEW t \in Threads, GateOther(t) PROVE Consented
      <3>1. Head(todo[t]) \in Opinions
        BY <2>2 DEF GateOther, DataInv
      <3>2. Head(todo[t]).step \in Steps
        BY <3>1 DEF Opinions
      <3>3. /\ pc[t] = "safety" /\ todo[t] # <<>> /\ Answer(t).decision = "allow"
            /\ approvedActions' = Append(approvedActions, Head(todo[t]).step)
        BY <2>2 DEF GateOther
      <3>4. QED
        BY <3>2, <3>3
    <2>3. ASSUME NEW t \in ChatThreads, NEW c, NEW approved \in BOOLEAN, Resume(t, c, approved)
          PROVE  Consented
      <3>1. /\ c \in pendingConfirmations /\ c \notin pendingConfirmations'
            /\ approved /\ Behind(c) # {}
            /\ approvedActions' = Append(approvedActions, CHOOSE a \in Behind(c) : TRUE)
            /\ outcome' = With(outcome, c, "done")
        BY <2>3 DEF Resume
      <3>2. c \in DOMAIN cards /\ cards[c] \in Steps
        BY <3>1 DEF IInv, CardInv, DataInv
      <3>3. PICK a \in Behind(c) : approvedActions' = Append(approvedActions, a)
        BY <3>1
      <3>4. a \in Steps /\ a.summary = cards[c].summary
        BY <2>3, <3>2, ResumeData, ChatThreadsAssumption
      <3>5. a = cards[c] /\ outcome'[c] = "done"
        BY <3>1, <3>2, <3>4 DEF WordsTellSteps, With
      <3>6. QED
        BY <3>1, <3>3, <3>4, <3>5
    <2>4. QED
      BY <2>1, <2>2, <2>3
  <1>2. IInv /\ DataInv /\ [Next]_vars => IInv' /\ DataInv'
    BY NextCards, DataStep
  <1>3. QED
    BY InitCards, DataInit, <1>1, <1>2, PTL DEF Spec, ApprovedByConsent
=============================================================================
