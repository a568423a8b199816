----------------------------- MODULE SafetyGate -----------------------------
(***************************************************************************)
(* The safety gate: src/orchestrator/safety/gate.py and matrix.py.         *)
(*                                                                         *)
(* Given one proposed step, the SME that proposes it and the session's     *)
(* mutable safety state, the gate answers allow, confirm, deny, queued,    *)
(* suppressed or halt_bypass.  It executes nothing.  Evaluate is a pure    *)
(* function that returns the answer together with the next session state;  *)
(* GraphEngine uses it once per merged step.  The state machine at the end *)
(* drives it with an arbitrary sequence of calls.                          *)
(*                                                                         *)
(* A step is a record: tool and actor; the JSON arguments reduced to what  *)
(* the gate reads of them (a voltage/current setpoint in tenths of V and   *)
(* A, the target net, a baud rate, a dangerous serial payload); the        *)
(* citation; and the risk the SME declares.  A setpoint is "none" (neither *)
(* key present), "numbers", or "garbled": a key whose value float() will   *)
(* not convert, such as "3.3V".                                            *)
(***************************************************************************)
EXTENDS Integers, FiniteSets

CONSTANTS
    Steps,        \* the steps the SMEs may propose
    Invokers,     \* the SME ids they may be proposed under, known or not
    NetLimits     \* board profile: net -> [v, i], a documented maximum or Undocumented

Undocumented == -1

Risks == {"LOW", "MEDIUM", "HIGH"}

StepType ==
    [tool: STRING, actor: {"operator", "guild"},
     setpoint: {"none", "numbers", "garbled"}, volts: Int, amps: Int, target: STRING,
     baud: BOOLEAN, dangerous: BOOLEAN, cited: BOOLEAN, risk: Risks, summary: STRING]

\* Every step carries the fields the gate reads.
ASSUME StepsAssumption == Steps \subseteq StepType

-----------------------------------------------------------------------------
(* The matrix as data (matrix.py).                                         *)

DEFAULT_ROSTER ==
    {"@power", "@signal", "@firmware", "@layout", "@librarian", "@sourcing",
     "@reverse", "@sentinel", "@scribe", "@tutor", "LiveSpeaker", "@user", "user"}

ReadOnlyTools ==
    {"lookup_datasheet", "lookup_board_doc", "get_documented_limit",
     "web_fetch", "summon_guild", "request_snapshot"}

AnyoneTools == (ReadOnlyTools \ {"summon_guild"}) \cup {"request_human_confirmation"}

\* Which SMEs may recommend a tool that not everyone may.
INVOKABLE_BY ==
    [probe_net          |-> {"@power", "@signal", "@firmware", "@sentinel"},
     inspect_closeup    |-> {"@reverse", "@signal", "@power"},
     set_psu            |-> {"@power"},
     enable_psu_output  |-> {"@power"},
     disable_psu_output |-> {"@power", "@sentinel"},
     serial_send        |-> {"@firmware"},
     flash_mcu          |-> {"@firmware"},
     reflow_pin         |-> {"@reverse", "@signal"},
     summon_guild       |-> {"LiveSpeaker"},
     publish_report     |-> {"@scribe", "@user", "user"},
     order_parts        |-> {"@sourcing"}]       \* "sourcing.order_parts"

AUTO_ALLOW == ReadOnlyTools \cup {"probe_net", "inspect_closeup", "disable_psu_output"}
DENY_TOOLS == {"order_parts"}
VALUE_BEARING == {"set_psu", "serial_send", "flash_mcu"}

\* A tool the matrix does not know is invokable by nobody.
invoker_allowed(tool, invoker) ==
    \/ tool \in AnyoneTools
    \/ tool \in DOMAIN INVOKABLE_BY /\ invoker \in INVOKABLE_BY[tool]

RiskRank == [LOW |-> 0, MEDIUM |-> 1, HIGH |-> 2, HALT |-> 3]
risk_max(r, s) == IF RiskRank[s] > RiskRank[r] THEN s ELSE r

-----------------------------------------------------------------------------
(* Documented limits: KnowledgeAdapter -> LimitResolver._from_net.  A net  *)
(* is found when the profile documents at least one of its two maxima.     *)

found(target) ==
    /\ target \in DOMAIN NetLimits
    /\ NetLimits[target] # [v |-> Undocumented, i |-> Undocumented]

DEFAULT_MAX_V == 120     \* 12.0 V and 1.0 A, in tenths
DEFAULT_MAX_I == 10

max_v(target) == IF found(target) /\ NetLimits[target].v # Undocumented
                 THEN NetLimits[target].v ELSE DEFAULT_MAX_V
max_i(target) == IF found(target) /\ NetLimits[target].i # Undocumented
                 THEN NetLimits[target].i ELSE DEFAULT_MAX_I

OverLimit(a) == a.volts > max_v(a.target) \/ a.amps > max_i(a.target)

-----------------------------------------------------------------------------
(* The gate.                                                               *)

MAX_PENDING == 3
HALT_WINDOW == 60

\* A verdict, before the limit on pending confirmations is applied.
V(decision, risk) == [decision |-> decision, risk |-> risk]

has_numeric_setpoint(a) ==
    \/ a.tool = "set_psu" /\ a.setpoint # "none"
    \/ a.tool = "serial_send" /\ a.baud

set_psu_base(a) ==
    IF a.volts > 120 \/ a.amps > 10 THEN "HIGH"
    ELSE IF a.volts > 50 \/ a.amps > 5 THEN "MEDIUM" ELSE "LOW"

\* Mutant: the declared risk is looked at before the limits.
set_psu_risk_first(a) ==
    LET risk == risk_max(set_psu_base(a), a.risk)
    IN  IF a.setpoint = "garbled" THEN V("raise", "HIGH")
        ELSE IF risk # "LOW" THEN V("confirm", risk)
        ELSE IF OverLimit(a) THEN V("deny", "HIGH") ELSE V("allow", "LOW")

\* Mutant: a net without a documented limit is trusted like one with.
set_psu_trusting(a) ==
    LET risk == risk_max(set_psu_base(a), a.risk)
    IN  IF a.setpoint = "garbled" THEN V("raise", "HIGH")
        ELSE IF OverLimit(a) THEN V("deny", "HIGH")
        ELSE IF risk = "LOW" THEN V("allow", "LOW") ELSE V("confirm", risk)

\* float() of a garbled setpoint raises out of the gate.
set_psu(a) ==
    LET risk == risk_max(IF found(a.target) THEN set_psu_base(a)
                         ELSE risk_max(set_psu_base(a), "MEDIUM"), a.risk)
    IN  IF a.setpoint = "garbled" THEN V("raise", "HIGH")
        ELSE IF OverLimit(a) THEN V("deny", "HIGH")
        ELSE IF risk = "LOW" THEN V("allow", "LOW") ELSE V("confirm", risk)

\* flash_mcu and reflow_pin need the bench supply off.
needs_psu_off(a, session) ==
    IF session.psu_output_on THEN V("deny", "HIGH")
    ELSE V("confirm", risk_max("HIGH", a.risk))

classify(a, session) ==
    IF a.tool \in VALUE_BEARING /\ has_numeric_setpoint(a) /\ ~a.cited
    THEN V("confirm", risk_max("MEDIUM", a.risk))
    ELSE IF a.tool = "set_psu" THEN set_psu(a)
    ELSE IF a.tool = "serial_send"
    THEN IF a.dangerous THEN V("confirm", risk_max("HIGH", a.risk))
         ELSE V("allow", risk_max("LOW", a.risk))
    ELSE IF a.tool \in {"flash_mcu", "reflow_pin"} THEN needs_psu_off(a, session)
    ELSE IF a.tool \in AUTO_ALLOW THEN V("allow", risk_max("LOW", a.risk))
    ELSE V("confirm", risk_max("MEDIUM", a.risk))

\* _sig: the tool and its arguments, the identity of a repeated proposal.
sig(a) == <<a.tool, a.setpoint, a.volts, a.amps, a.target, a.baud, a.dangerous>>
Sigs == {sig(a) : a \in Steps}

\* Mutant: one skip too many.
skipped_often_late(a, session) == session.skips[sig(a)] > 2

\* The operator skipped this very step twice before.
skipped_often(a, session) == session.skips[sig(a)] >= 2

verdict(a, invoker, session, sentinel_halt, now) ==
    IF sentinel_halt /\ invoker = "@sentinel" /\ a.tool = "disable_psu_output"
    THEN V(IF session.last_halt # Undocumented /\ now - session.last_halt < HALT_WINDOW
           THEN "suppressed" ELSE "halt_bypass", "HALT")
    ELSE IF a.actor = "guild" \/ a.tool \in ReadOnlyTools THEN V("allow", "LOW")
    ELSE IF invoker \notin DEFAULT_ROSTER \/ ~invoker_allowed(a.tool, invoker)
    THEN V("deny", a.risk)
    ELSE IF skipped_often(a, session) THEN V("suppressed", a.risk)
    ELSE IF a.tool \in DENY_TOOLS THEN V("confirm", "MEDIUM")
    ELSE classify(a, session)

\* Mutant: a coalesced HALT restarts the window.
Evaluate_restarting(a, invoker, session, sentinel_halt, now) ==
    LET v == verdict(a, invoker, session, sentinel_halt, now)
    IN  [decision |-> v.decision, risk |-> v.risk,
         session  |-> IF v.risk = "HALT" THEN [session EXCEPT !.last_halt = now]
                      ELSE session]

\* _confirm: beyond MAX_PENDING open confirmations the step is "queued".
Evaluate(a, invoker, session, sentinel_halt, now) ==
    LET v == verdict(a, invoker, session, sentinel_halt, now)
        full == session.pending_count >= MAX_PENDING
    IN  [decision |-> IF v.decision = "confirm" /\ full THEN "queued" ELSE v.decision,
         risk     |-> v.risk,
         session  |-> IF v.decision = "confirm" /\ ~full
                      THEN [session EXCEPT !.pending_count = @ + 1]
                      ELSE IF v.decision = "halt_bypass"
                      THEN [session EXCEPT !.last_halt = now]
                      ELSE session]

\* Mutant: one skip makes the gate forget every open confirmation.
record_skip_reset(session, a) ==
    [session EXCEPT !.skips[sig(a)] = @ + 1, !.pending_count = 0]

record_skip(session, a) ==
    [session EXCEPT !.skips[sig(a)] = @ + 1,
                    !.pending_count = IF @ > 0 THEN @ - 1 ELSE 0]

GateSession(psu) ==
    [psu_output_on |-> psu, pending_count |-> 0,
     skips |-> [s \in Sigs |-> 0], last_halt |-> Undocumented]

GateSessionType ==
    [psu_output_on: BOOLEAN, pending_count: Nat,
     skips: [Sigs -> Nat], last_halt: Int]

Decisions == {"allow", "confirm", "deny", "halt_bypass", "queued", "suppressed", "raise"}
=============================================================================
