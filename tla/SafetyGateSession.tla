-------------------------- MODULE SafetyGateSession --------------------------
(***************************************************************************)
(* One GateSession under an arbitrary sequence of gate calls: evaluate of  *)
(* any step from any invoker, with or without the sentinel's HALT flag,    *)
(* record_skip, and the monotonic clock moving on.  answer and shownAt are *)
(* observations: what the latest HALT evaluation returned ("none" after    *)
(* any other call), and when the last HALT takeover was shown.             *)
(***************************************************************************)
EXTENDS SafetyGate

CONSTANTS
    TickSizes,    \* by how many seconds the clock may advance at once
    MaxNow,       \* bound: the clock stops here
    SkipSteps,    \* bound: the steps the operator ever skips
    MaxSkips      \* bound: skips recorded of one signature

ASSUME ClockAssumption == TickSizes \subseteq Nat /\ MaxNow \in Nat

VARIABLES gate, now, answer, shownAt

vars == <<gate, now, answer, shownAt>>

Init ==
    /\ gate \in {GateSession(psu) : psu \in BOOLEAN}
    /\ now = 0
    /\ answer = "none"
    /\ shownAt = Undocumented

\* SafetyGate.evaluate(action, invoker, session)
EvaluateCall(a, invoker) ==
    /\ gate' = Evaluate(a, invoker, gate, FALSE, now).session
    /\ answer' = "none"
    /\ UNCHANGED <<now, shownAt>>

\* SafetyGate.evaluate(disable_psu_output, "@sentinel", session, sentinel_halt=True)
HaltCall(a) ==
    LET r == Evaluate(a, "@sentinel", gate, TRUE, now)
    IN  /\ a.tool = "disable_psu_output"
        /\ gate' = r.session
        /\ answer' = r.decision
        /\ shownAt' = IF r.decision = "halt_bypass" THEN now ELSE shownAt
        /\ UNCHANGED now

\* SafetyGate.record_skip(session, action)
RecordSkipCall(a) ==
    /\ gate.skips[sig(a)] < MaxSkips
    /\ gate' = record_skip(gate, a)
    /\ answer' = "none"
    /\ UNCHANGED <<now, shownAt>>

Tick(d) ==
    /\ now + d <= MaxNow
    /\ now' = now + d
    /\ answer' = "none"
    /\ UNCHANGED <<gate, shownAt>>

Next ==
    \/ \E a \in Steps, invoker \in Invokers : EvaluateCall(a, invoker)
    \/ \E a \in Steps : HaltCall(a)
    \/ \E a \in SkipSteps : RecordSkipCall(a)
    \/ \E d \in TickSizes : Tick(d)

Spec == Init /\ [][Next]_vars

-----------------------------------------------------------------------------
(* The session's safety state keeps its type, and never counts more open    *)
(* confirmations than MAX_PENDING.                                          *)
TypeOK ==
    /\ gate \in GateSessionType
    /\ gate.pending_count <= MAX_PENDING
    /\ now \in 0..MaxNow
    /\ answer \in {"none", "halt_bypass", "suppressed"}

(* A voltage or current step reaches the operator without a confirmation    *)
(* only when it is inside the low band, inside a limit the board profile    *)
(* documents, and proposed by a known SME in its lane: whatever order the   *)
(* gate's provenance, limit, fallback and elevation rules are applied in,   *)
(* and whatever was skipped or is pending.                                  *)
SilentSetpointsAreDocumented ==
    \A a \in Steps, invoker \in Invokers :
        a.tool = "set_psu" /\ a.actor = "operator"
          /\ Evaluate(a, invoker, gate, FALSE, now).decision = "allow" =>
            /\ invoker = "@power"
            /\ a.risk = "LOW"
            /\ a.volts <= 50 /\ a.amps <= 5
            /\ found(a.target)
            /\ ~OverLimit(a)

strength == [allow |-> 0, halt_bypass |-> 0, suppressed |-> 1, confirm |-> 2,
             queued |-> 2, deny |-> 3, raise |-> 3]

(* Raising the risk an SME declares never weakens the gate's answer: of two *)
(* steps that differ only in it, the riskier is not allowed where the other *)
(* was to be confirmed, nor surfaced where the other was denied.            *)
ElevationNeverWeakens ==
    \A a \in Steps, invoker \in Invokers, r \in Risks :
        RiskRank[r] >= RiskRank[a.risk] =>
            strength[Evaluate([a EXCEPT !.risk = r], invoker, gate, FALSE, now).decision]
              >= strength[Evaluate(a, invoker, gate, FALSE, now).decision]

(* The sentinel's HALT takeover is shown exactly when none was shown in the *)
(* last 60 seconds.  A hazard reported over and over is coalesced, but the  *)
(* coalesced reports do not push the next takeover further away, and no     *)
(* backlog of pending or skipped steps holds it back.                       *)
HaltCadence ==
    [][ answer' # "none" /\ UNCHANGED now =>
        (answer' = "halt_bypass"
           <=> shownAt = Undocumented \/ now - shownAt >= HALT_WINDOW) ]_vars
=============================================================================
