-------------------------- MODULE SafetyGateLemmas --------------------------
(***************************************************************************)
(* What the gate's two operations do to a GateSession, for every step,     *)
(* invoker and time.                                                       *)
(***************************************************************************)
EXTENDS SafetyGate, TLAPS

(* The gate counts a confirmation exactly when it answers "confirm", which  *)
(* it does only below the limit; no other answer changes the count          *)
(* (SafetyGate._confirm, _halt).                                            *)
LEMMA EvaluateCounts ==
    ASSUME NEW session \in GateSessionType, NEW a, NEW invoker,
           NEW sentinel_halt, NEW now \in Int
    PROVE  /\ Evaluate(a, invoker, session, sentinel_halt, now).session \in GateSessionType
           /\ Evaluate(a, invoker, session, sentinel_halt, now).decision = "confirm" =>
                /\ session.pending_count < MAX_PENDING
                /\ Evaluate(a, invoker, session, sentinel_halt, now).session.pending_count
                     = session.pending_count + 1
           /\ Evaluate(a, invoker, session, sentinel_halt, now).decision # "confirm" =>
                Evaluate(a, invoker, session, sentinel_halt, now).session.pending_count
                  = session.pending_count
  <1> DEFINE v == verdict(a, invoker, session, sentinel_halt, now)
             r == Evaluate(a, invoker, session, sentinel_halt, now)
             full == session.pending_count >= MAX_PENDING
  <1>1. /\ r.decision =
             (IF v.decision = "confirm" /\ full THEN "queued" ELSE v.decision)
        /\ r.session = (IF v.decision = "confirm" /\ ~full
                        THEN [session EXCEPT !.pending_count = @ + 1]
                        ELSE IF v.decision = "halt_bypass"
                        THEN [session EXCEPT !.last_halt = now]
                        ELSE session)
    BY DEF Evaluate
  <1> HIDE DEF v, r
  <1> DEFINE Counted == /\ r.session \in GateSessionType
                        /\ r.decision = "confirm" =>
                             /\ session.pending_count < MAX_PENDING
                             /\ r.session.pending_count = session.pending_count + 1
                        /\ r.decision # "confirm" =>
                             r.session.pending_count = session.pending_count
  <1>2. CASE v.decision = "confirm" /\ ~full
    <2>1. Counted
      BY <1>1, <1>2 DEF GateSessionType, MAX_PENDING
    <2>2. QED
      BY <2>1 DEF r
  <1>3. CASE v.decision = "confirm" /\ full
    <2>1. Counted
      BY <1>1, <1>3 DEF GateSessionType, MAX_PENDING
    <2>2. QED
      BY <2>1 DEF r
  <1>4. CASE v.decision # "confirm"
    <2>1. Counted
      BY <1>1, <1>4 DEF GateSessionType, MAX_PENDING
    <2>2. QED
      BY <2>1 DEF r
  <1>5. QED
    BY <1>2, <1>3, <1>4

(* record_skip takes back at most one, and never below zero. *)
LEMMA RecordSkipCounts ==
    ASSUME NEW session \in GateSessionType, NEW a
    PROVE  /\ record_skip(session, a) \in GateSessionType
           /\ record_skip(session, a).pending_count =
                IF session.pending_count > 0 THEN session.pending_count - 1 ELSE 0
  <1> DEFINE r == record_skip(session, a)
             skips == [session.skips EXCEPT ![sig(a)] = @ + 1]
             count == IF session.pending_count > 0 THEN session.pending_count - 1 ELSE 0
  <1>1. session.skips \in [Sigs -> Nat] /\ session.pending_count \in Nat
    BY DEF GateSessionType
  <1>2. skips \in [Sigs -> Nat]
    <2>1. CASE sig(a) \in Sigs
      BY <1>1, <2>1
    <2>2. CASE sig(a) \notin Sigs
      BY <1>1, <2>2
    <2>3. QED
      BY <2>1, <2>2
  <1>3. count \in Nat
    BY <1>1
  <1>4. r = [session EXCEPT !.skips = skips, !.pending_count = count]
    BY DEF record_skip, GateSessionType
  <1> HIDE DEF r, skips, count
  <1>5. r \in GateSessionType /\ r.pending_count = count
    BY <1>2, <1>3, <1>4 DEF GateSessionType
  <1>6. QED
    BY <1>5 DEF r, count

(* Outside a HALT the gate asks only about a step that was skipped at most  *)
(* once, and it counts no skips itself (SafetyGate.evaluate).               *)
LEMMA EvaluateSkips ==
    ASSUME NEW session \in GateSessionType, NEW a, NEW invoker,
           NEW sentinel_halt, ~sentinel_halt, NEW now
    PROVE  /\ Evaluate(a, invoker, session, sentinel_halt, now).session.skips = session.skips
           /\ Evaluate(a, invoker, session, sentinel_halt, now).decision = "confirm" =>
                ~skipped_often(a, session)
  <1> DEFINE v == verdict(a, invoker, session, sentinel_halt, now)
             r == Evaluate(a, invoker, session, sentinel_halt, now)
             full == session.pending_count >= MAX_PENDING
  <1>1. /\ r.decision = (IF v.decision = "confirm" /\ full THEN "queued" ELSE v.decision)
        /\ r.session = (IF v.decision = "confirm" /\ ~full
                        THEN [session EXCEPT !.pending_count = @ + 1]
                        ELSE IF v.decision = "halt_bypass"
                        THEN [session EXCEPT !.last_halt = now]
                        ELSE session)
    BY DEF Evaluate
  <1>2. v.decision = "confirm" => ~skipped_often(a, session)
    <2>1. CASE skipped_often(a, session)
      BY <2>1 DEF verdict, V
    <2>2. QED
      BY <2>1
  <1> HIDE DEF v, r, full
  <1>3. r.session.skips = session.skips
    BY <1>1 DEF GateSessionType
  <1>4. r.decision = "confirm" => ~skipped_often(a, session)
    BY <1>1, <1>2
  <1>5. QED
    BY <1>3, <1>4 DEF r

(* record_skip counts one skip, of that step.                              *)
LEMMA RecordSkipSkips ==
    ASSUME NEW session \in GateSessionType, NEW a
    PROVE  record_skip(session, a).skips = [session.skips EXCEPT ![sig(a)] = @ + 1]
  BY DEF record_skip, GateSessionType
=============================================================================
