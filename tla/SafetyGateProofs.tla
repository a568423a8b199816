-------------------------- MODULE SafetyGateProofs --------------------------
(***************************************************************************)
(* For every board profile, every set of steps and SMEs and every clock:   *)
(* the safety gate keeps its session's type and its limit on open cards,   *)
(* shows HALT takeovers at their cadence, allows no setpoint silently that *)
(* the board does not document, and is never weakened by a declared risk.  *)
(*                                                                         *)
(* The cadence is a property of steps.  It needs the invariant that the    *)
(* gate's last_halt is the time at which a takeover was last shown.        *)
(***************************************************************************)
EXTENDS SafetyGateSession, SafetyGateLemmas

HaltInv ==
    /\ TypeOK
    /\ shownAt = gate.last_halt

-----------------------------------------------------------------------------
\* A takeover was shown less than HALT_WINDOW ago.
Coalesced(session, t) ==
    session.last_halt # Undocumented /\ t - session.last_halt < HALT_WINDOW

\* What the gate answers to a HALT raised by the sentinel.
HaltEvaluation(a, session, t) == Evaluate(a, "@sentinel", session, TRUE, t)

(* A HALT call either is coalesced and changes nothing, or is shown and     *)
(* noted, according to the window (SafetyGate._halt).                       *)
LEMMA HaltAnswer ==
    ASSUME NEW a, a.tool = "disable_psu_output",
           NEW session \in GateSessionType, NEW t \in Int
    PROVE  /\ HaltEvaluation(a, session, t).decision
                = (IF Coalesced(session, t) THEN "suppressed" ELSE "halt_bypass")
           /\ HaltEvaluation(a, session, t).session \in GateSessionType
           /\ HaltEvaluation(a, session, t).session.pending_count
                = session.pending_count
           /\ HaltEvaluation(a, session, t).session.last_halt
                = (IF Coalesced(session, t) THEN session.last_halt ELSE t)
  <1> DEFINE r == HaltEvaluation(a, session, t)
  <1>1. /\ r.decision = (IF Coalesced(session, t) THEN "suppressed" ELSE "halt_bypass")
        /\ r.session = (IF Coalesced(session, t) THEN session
                        ELSE [session EXCEPT !.last_halt = t])
    BY DEF HaltEvaluation, Evaluate, verdict, V, Coalesced
  <1> HIDE DEF r
  <1>2. /\ r.session \in GateSessionType
        /\ r.session.pending_count = session.pending_count
        /\ r.session.last_halt = (IF Coalesced(session, t) THEN session.last_halt ELSE t)
    <2>1. CASE Coalesced(session, t)
      BY <1>1, <2>1
    <2>2. CASE ~Coalesced(session, t)
      BY <1>1, <2>2 DEF GateSessionType
    <2>3. QED
      BY <2>1, <2>2
  <1>3. QED
    BY <1>1, <1>2 DEF r

LEMMA InitHalt == Init => HaltInv
  <1> SUFFICES ASSUME Init PROVE HaltInv
    OBVIOUS
  <1>1. PICK psu \in BOOLEAN : gate = GateSession(psu)
    BY DEF Init
  <1>2. /\ gate \in GateSessionType
        /\ gate.pending_count = 0 /\ gate.last_halt = Undocumented
    BY <1>1 DEF GateSession, GateSessionType, Undocumented
  <1>3. QED
    BY <1>2, ClockAssumption DEF Init, HaltInv, TypeOK, MAX_PENDING

LEMMA NextHalt == HaltInv /\ [Next]_vars => HaltInv'
  <1> SUFFICES ASSUME HaltInv, [Next]_vars PROVE HaltInv'
    OBVIOUS
  <1>0. /\ gate \in GateSessionType /\ gate.pending_count <= MAX_PENDING
        /\ now \in 0..MaxNow /\ now \in Int /\ MaxNow \in Nat
        /\ shownAt = gate.last_halt
    BY ClockAssumption DEF HaltInv, TypeOK
  <1>1. ASSUME NEW a \in Steps, NEW invoker \in Invokers, EvaluateCall(a, invoker)
        PROVE  HaltInv'
    <2> DEFINE halt == FALSE
               r == Evaluate(a, invoker, gate, halt, now)
    <2>1. gate' = r.session /\ answer' = "none" /\ UNCHANGED <<now, shownAt>>
      BY <1>1 DEF EvaluateCall
    <2>2. r.session.last_halt = gate.last_halt
      <3> DEFINE v == verdict(a, invoker, gate, halt, now)
      <3>1. v.decision # "halt_bypass"
        BY DEF verdict, V, classify, set_psu, needs_psu_off
      <3> HIDE DEF v
      <3>2. r.session \in {gate, [gate EXCEPT !.pending_count = @ + 1]}
        BY <3>1 DEF Evaluate, v
      <3>3. QED
        BY <3>2, <1>0 DEF GateSessionType
    <2> HIDE DEF halt
    <2>3. /\ r.session \in GateSessionType
          /\ \/ r.session.pending_count = gate.pending_count
             \/ /\ gate.pending_count < MAX_PENDING
                /\ r.session.pending_count = gate.pending_count + 1
      BY <1>0, EvaluateCounts
    <2> HIDE DEF r
    <2>4. r.session.pending_count <= MAX_PENDING
      BY <1>0, <2>3 DEF GateSessionType, MAX_PENDING
    <2>5. QED
      BY <1>0, <2>1, <2>2, <2>3, <2>4 DEF HaltInv, TypeOK
  <1>2. ASSUME NEW a \in Steps, HaltCall(a)
        PROVE  HaltInv'
    <2> DEFINE r == HaltEvaluation(a, gate, now)
    <2>1. /\ a.tool = "disable_psu_output" /\ UNCHANGED now
          /\ gate' = r.session /\ answer' = r.decision
          /\ shownAt' = IF r.decision = "halt_bypass" THEN now ELSE shownAt
      BY <1>2 DEF HaltCall, HaltEvaluation
    <2>2. /\ r.decision = (IF Coalesced(gate, now) THEN "suppressed" ELSE "halt_bypass")
          /\ r.session \in GateSessionType
          /\ r.session.pending_count = gate.pending_count
          /\ r.session.last_halt = (IF Coalesced(gate, now) THEN gate.last_halt ELSE now)
      BY <1>0, <2>1, HaltAnswer
    <2> HIDE DEF r
    <2>3. r.decision \in {"suppressed", "halt_bypass"} /\ shownAt' = r.session.last_halt
      BY <1>0, <2>1, <2>2
    <2>4. QED
      BY <1>0, <2>1, <2>2, <2>3 DEF HaltInv, TypeOK
  <1>3. ASSUME NEW a \in SkipSteps, RecordSkipCall(a)
        PROVE  HaltInv'
    <2>1. /\ gate' = record_skip(gate, a)
          /\ answer' = "none" /\ UNCHANGED <<now, shownAt>>
      BY <1>3 DEF RecordSkipCall
    <2>2. /\ gate' \in GateSessionType
          /\ gate'.pending_count =
               IF gate.pending_count > 0 THEN gate.pending_count - 1 ELSE 0
      BY <1>0, <2>1, RecordSkipCounts
    <2>3. gate'.last_halt = gate.last_halt
      BY <1>0, <2>1 DEF record_skip, GateSessionType
    <2>4. gate'.pending_count <= MAX_PENDING
      BY <1>0, <2>2 DEF GateSessionType, MAX_PENDING
    <2>5. QED
      BY <1>0, <2>1, <2>2, <2>3, <2>4 DEF HaltInv, TypeOK
  <1>4. ASSUME NEW d \in TickSizes, Tick(d)
        PROVE  HaltInv'
    BY <1>0, <1>4, ClockAssumption DEF Tick, HaltInv, TypeOK
  <1>5. CASE UNCHANGED vars
    BY <1>5 DEF vars, HaltInv, TypeOK
  <1>6. QED
    BY <1>1, <1>2, <1>3, <1>4, <1>5 DEF Next

-----------------------------------------------------------------------------
(* The session's safety state keeps its type and never counts more than     *)
(* MAX_PENDING open confirmations, under any calls (SafetyGate._confirm).   *)
THEOREM GateTypeCorrect == Spec => []TypeOK
  <1>1. Spec => []HaltInv
    BY InitHalt, NextHalt, PTL DEF Spec
  <1>2. HaltInv => TypeOK
    BY DEF HaltInv
  <1>3. QED
    BY <1>1, <1>2, PTL

(* One step of the cadence: only a HALT call leaves an answer, and it       *)
(* answers by the time since shownAt.                                       *)
LEMMA HaltStep ==
    ASSUME HaltInv, [Next]_vars
    PROVE  [ answer' # "none" /\ UNCHANGED now =>
               (answer' = "halt_bypass"
                  <=> shownAt = Undocumented \/ now - shownAt >= HALT_WINDOW) ]_vars
  <1> SUFFICES ASSUME Next, answer' # "none"
               PROVE  answer' = "halt_bypass"
                        <=> shownAt = Undocumented \/ now - shownAt >= HALT_WINDOW
    OBVIOUS
  <1>1. PICK a \in Steps : HaltCall(a)
    BY DEF Next, EvaluateCall, RecordSkipCall, Tick
  <1>2. /\ a.tool = "disable_psu_output"
        /\ answer' = HaltEvaluation(a, gate, now).decision
    BY <1>1 DEF HaltCall, HaltEvaluation
  <1>3. gate \in GateSessionType /\ now \in Int /\ shownAt = gate.last_halt
    BY ClockAssumption DEF HaltInv, TypeOK
  <1>4. answer' = IF Coalesced(gate, now) THEN "suppressed" ELSE "halt_bypass"
    BY <1>2, <1>3, HaltAnswer
  <1>5. gate.last_halt \in Int
    BY <1>3 DEF GateSessionType
  <1>6. Coalesced(gate, now)
          <=> ~(shownAt = Undocumented \/ now - shownAt >= HALT_WINDOW)
    BY <1>3, <1>5 DEF Coalesced, HALT_WINDOW, Undocumented
  <1>7. QED
    BY <1>4, <1>6

(* A takeover is shown exactly when none was shown in the last HALT_WINDOW  *)
(* seconds, whatever is pending, skipped or repeated in between.            *)
THEOREM HaltCadenceHolds == Spec => HaltCadence
  <1>1. Spec => []HaltInv
    BY InitHalt, NextHalt, PTL DEF Spec
  <1>2. QED
    BY <1>1, HaltStep, PTL DEF Spec, HaltCadence

(* A set_psu step that is allowed passed every rule of _classify_set_psu,   *)
(* and its base risk, its fallback and its declared risk were all LOW.      *)
LEMMA SilentSetpoint ==
    ASSUME NEW a \in StepType, a.tool = "set_psu", a.actor = "operator",
           NEW invoker, NEW halt, halt = FALSE,
           NEW session \in GateSessionType, NEW t \in Int,
           Evaluate(a, invoker, session, halt, t).decision = "allow"
    PROVE  /\ invoker = "@power"
           /\ a.risk = "LOW"
           /\ a.volts <= 50 /\ a.amps <= 5
           /\ found(a.target)
           /\ ~OverLimit(a)
  <1>1. verdict(a, invoker, session, halt, t).decision = "allow"
    BY DEF Evaluate
  <1>2. /\ invoker_allowed(a.tool, invoker)
        /\ classify(a, session).decision = "allow"
    BY <1>1 DEF verdict, V, ReadOnlyTools, DENY_TOOLS
  <1>3. invoker = "@power"
    BY <1>2 DEF invoker_allowed, AnyoneTools, ReadOnlyTools, INVOKABLE_BY
  <1>4. set_psu(a).decision = "allow"
    BY <1>2 DEF classify, V
  <1> DEFINE base == IF found(a.target) THEN set_psu_base(a)
                     ELSE risk_max(set_psu_base(a), "MEDIUM")
             risk == risk_max(base, a.risk)
  <1>5. ~OverLimit(a) /\ risk = "LOW"
    BY <1>4 DEF set_psu, V
  <1>6. a.risk \in Risks /\ a.volts \in Int /\ a.amps \in Int
    BY DEF StepType
  <1>7. set_psu_base(a) \in Risks
    BY DEF set_psu_base, Risks
  <1>8. \A r, s \in Risks : risk_max(r, s) \in Risks
                          /\ (risk_max(r, s) = "LOW" => r = "LOW" /\ s = "LOW")
    BY DEF risk_max, RiskRank, Risks
  <1>9. base \in Risks
    BY <1>7, <1>8 DEF Risks
  <1>10. base = "LOW" /\ a.risk = "LOW"
    BY <1>5, <1>6, <1>8, <1>9
  <1>11. found(a.target) /\ set_psu_base(a) = "LOW"
    BY <1>7, <1>8, <1>10 DEF Risks
  <1>12. a.volts <= 50 /\ a.amps <= 5
    BY <1>6, <1>11 DEF set_psu_base
  <1>13. QED
    BY <1>3, <1>5, <1>10, <1>11, <1>12

(* In every state of the session, whatever was proposed, skipped or is      *)
(* pending, only a documented, low, undoubted setpoint is allowed without a *)
(* confirmation (SafetyGate._classify_set_psu).                             *)
THEOREM SilentSetpointsHold == Spec => []SilentSetpointsAreDocumented
  <1>1. Spec => []HaltInv
    BY InitHalt, NextHalt, PTL DEF Spec
  <1>2. HaltInv => SilentSetpointsAreDocumented
    <2> SUFFICES ASSUME HaltInv, NEW a \in Steps, NEW invoker \in Invokers,
                        a.tool = "set_psu", a.actor = "operator",
                        Evaluate(a, invoker, gate, FALSE, now).decision = "allow"
                 PROVE  /\ invoker = "@power"
                        /\ a.risk = "LOW"
                        /\ a.volts <= 50 /\ a.amps <= 5
                        /\ found(a.target)
                        /\ ~OverLimit(a)
      BY DEF SilentSetpointsAreDocumented
    <2> DEFINE halt == FALSE
    <2>1. gate \in GateSessionType /\ now \in Int /\ a \in StepType
      BY ClockAssumption, StepsAssumption DEF HaltInv, TypeOK
    <2>2. halt = FALSE /\ Evaluate(a, invoker, gate, halt, now).decision = "allow"
      OBVIOUS
    <2> HIDE DEF halt
    <2>3. QED
      BY <2>1, <2>2, SilentSetpoint
  <1>3. QED
    BY <1>1, <1>2, PTL

\* The verdict of a call that raises no HALT.
CallVerdict(a, invoker, session, t) == verdict(a, invoker, session, FALSE, t).decision

\* b is a, declared at least as risky.
Riskier(a, b) ==
    /\ b.tool = a.tool /\ b.actor = a.actor /\ b.setpoint = a.setpoint
    /\ b.volts = a.volts /\ b.amps = a.amps /\ b.target = a.target
    /\ b.baud = a.baud /\ b.dangerous = a.dangerous /\ b.cited = a.cited
    /\ RiskRank[b.risk] >= RiskRank[a.risk]

(* A riskier declaration leaves the verdict alone, or turns a silent        *)
(* setpoint into a confirmation.                                            *)
LEMMA RiskierVerdict ==
    ASSUME NEW a \in StepType, NEW b \in StepType,
           Riskier(a, b), NEW invoker, NEW session, NEW t
    PROVE  \/ CallVerdict(b, invoker, session, t) = CallVerdict(a, invoker, session, t)
           \/ /\ CallVerdict(b, invoker, session, t) = "confirm"
              /\ CallVerdict(a, invoker, session, t) = "allow"
  <1>1. a.risk \in Risks /\ b.risk \in Risks
    BY DEF StepType
  <1>2. \A base \in Risks :
          /\ risk_max(base, a.risk) \in Risks
          /\ risk_max(base, b.risk) \in Risks
          /\ risk_max(base, b.risk) = "LOW" => risk_max(base, a.risk) = "LOW"
    BY <1>1 DEF Riskier, risk_max, RiskRank, Risks
  <1> DEFINE base == IF found(a.target) THEN set_psu_base(a)
                     ELSE risk_max(set_psu_base(a), "MEDIUM")
  <1>3. base \in Risks
    BY DEF set_psu_base, risk_max, RiskRank, Risks
  <1>4. set_psu_base(b) = set_psu_base(a) /\ OverLimit(b) = OverLimit(a)
    BY DEF Riskier, set_psu_base, OverLimit
  <1>5. /\ set_psu(a).decision =
             IF a.setpoint = "garbled" THEN "raise" ELSE IF OverLimit(a) THEN "deny"
             ELSE IF risk_max(base, a.risk) = "LOW" THEN "allow" ELSE "confirm"
        /\ set_psu(b).decision =
             IF a.setpoint = "garbled" THEN "raise" ELSE IF OverLimit(a) THEN "deny"
             ELSE IF risk_max(base, b.risk) = "LOW" THEN "allow" ELSE "confirm"
    <2>1. /\ set_psu(a).decision =
             IF a.setpoint = "garbled" THEN "raise" ELSE IF OverLimit(a) THEN "deny"
             ELSE IF risk_max(base, a.risk) = "LOW" THEN "allow" ELSE "confirm"
      BY DEF set_psu, V
    <2>2. set_psu(b).decision =
             IF a.setpoint = "garbled" THEN "raise" ELSE IF OverLimit(b) THEN "deny"
             ELSE IF risk_max(base, b.risk) = "LOW" THEN "allow" ELSE "confirm"
      BY <1>4 DEF Riskier, set_psu, V
    <2>3. QED
      BY <1>4, <2>1, <2>2
  <1> HIDE DEF base
  <1>6. \/ set_psu(b).decision = set_psu(a).decision
        \/ set_psu(b).decision = "confirm" /\ set_psu(a).decision = "allow"
    BY <1>2, <1>3, <1>5
  <1>7. \/ classify(b, session).decision = classify(a, session).decision
        \/ /\ classify(b, session).decision = "confirm"
           /\ classify(a, session).decision = "allow"
    <2>1. has_numeric_setpoint(b) <=> has_numeric_setpoint(a)
      BY DEF Riskier, has_numeric_setpoint
    <2>2. needs_psu_off(b, session).decision = needs_psu_off(a, session).decision
      BY DEF Riskier, needs_psu_off, V
    <2>3. QED
      BY <1>6, <2>1, <2>2 DEF Riskier, classify, V
  <1>8. sig(b) = sig(a)
    BY DEF Riskier, sig
  <1>9. skipped_often(b, session) <=> skipped_often(a, session)
    BY <1>8 DEF skipped_often
  <1>10. QED
    BY <1>7, <1>9 DEF Riskier, CallVerdict, verdict, V

(* Evaluate keeps that order: the limit on open confirmations depends on    *)
(* the session alone.                                                       *)
LEMMA RiskierAnswer ==
    ASSUME NEW a \in StepType, NEW r \in Risks, RiskRank[r] >= RiskRank[a.risk],
           NEW invoker, NEW halt, halt = FALSE, NEW session, NEW t
    PROVE  strength[Evaluate([a EXCEPT !.risk = r], invoker, session, halt, t).decision]
             >= strength[Evaluate(a, invoker, session, halt, t).decision]
  <1> DEFINE b == [a EXCEPT !.risk = r]
             va == CallVerdict(a, invoker, session, t)
             vb == CallVerdict(b, invoker, session, t)
             full == session.pending_count >= MAX_PENDING
             ea == Evaluate(a, invoker, session, halt, t).decision
             eb == Evaluate(b, invoker, session, halt, t).decision
  <1>1. b \in StepType /\ Riskier(a, b)
    BY DEF StepType, Riskier
  <1>2. va \in Decisions
    <2>1. classify(a, session).decision \in {"allow", "confirm", "deny", "raise"}
      BY DEF classify, set_psu, needs_psu_off, V
    <2>2. QED
      BY <2>1 DEF CallVerdict, verdict, V, Decisions
  <1>3. /\ ea = (IF va = "confirm" /\ full THEN "queued" ELSE va)
        /\ eb = (IF vb = "confirm" /\ full THEN "queued" ELSE vb)
    BY DEF Evaluate, CallVerdict
  <1> HIDE DEF b
  <1>4. vb = va \/ (vb = "confirm" /\ va = "allow")
    BY <1>1, RiskierVerdict
  <1> HIDE DEF va, vb, ea, eb, full
  <1>5. strength[eb] >= strength[ea]
    <2>1. CASE vb = va
      <3>1. eb = ea /\ ea \in Decisions
        BY <1>2, <1>3, <2>1 DEF Decisions
      <3>2. QED
        BY <3>1 DEF strength, Decisions
    <2>2. CASE vb = "confirm" /\ va = "allow"
      <3>1. ea = "allow" /\ eb \in {"confirm", "queued"}
        BY <1>3, <2>2
      <3>2. QED
        BY <3>1 DEF strength
    <2>3. QED
      BY <1>4, <2>1, <2>2
  <1>6. QED
    BY <1>5 DEF b, ea, eb

(* Declaring more risk never weakens the gate's answer, in any state of the *)
(* session and for any step, known invoker or not (gate._risk_max).         *)
THEOREM ElevationHolds == Spec => []ElevationNeverWeakens
  <1>1. Spec => []HaltInv
    BY InitHalt, NextHalt, PTL DEF Spec
  <1>2. HaltInv => ElevationNeverWeakens
    <2> SUFFICES ASSUME NEW a \in Steps, NEW invoker \in Invokers, NEW r \in Risks,
                        RiskRank[r] >= RiskRank[a.risk]
                 PROVE  strength[Evaluate([a EXCEPT !.risk = r], invoker, gate, FALSE, now).decision]
                          >= strength[Evaluate(a, invoker, gate, FALSE, now).decision]
      BY DEF ElevationNeverWeakens
    <2> DEFINE halt == FALSE
    <2>1. a \in StepType /\ halt = FALSE
      BY StepsAssumption
    <2> HIDE DEF halt
    <2>2. strength[Evaluate([a EXCEPT !.risk = r], invoker, gate, halt, now).decision]
            >= strength[Evaluate(a, invoker, gate, halt, now).decision]
      BY <2>1, RiskierAnswer
    <2>3. QED
      BY <2>2 DEF halt
  <1>3. QED
    BY <1>1, <1>2, PTL
=============================================================================
