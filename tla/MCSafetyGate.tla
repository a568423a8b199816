---------------------------- MODULE MCSafetyGate ----------------------------
(* A board that documents 30 V on J3 (as the bundled demo board does) and   *)
(* 3.3 V on VIO, and one step for every way through the gate.               *)
EXTENDS SafetyGateSession

MCNetLimits == [J3 |-> [v |-> 300, i |-> Undocumented],
                VIO |-> [v |-> 33, i |-> 5],
                GND |-> [v |-> Undocumented, i |-> Undocumented]]

Step(tool, risk) ==
    [tool |-> tool, actor |-> "operator", setpoint |-> "none", volts |-> 0, amps |-> 0,
     target |-> "", baud |-> FALSE, dangerous |-> FALSE, cited |-> TRUE,
     risk |-> risk, summary |-> tool]

SetPsu(volts, target) ==
    [Step("set_psu", "LOW") EXCEPT !.setpoint = "numbers", !.volts = volts,
                                   !.amps = 2, !.target = target]

MCSteps ==
    {SetPsu(30, "J3"), SetPsu(300, "J3"), SetPsu(350, "J3"), SetPsu(40, "VIO"), SetPsu(30, "GND"),
     [SetPsu(30, "J3") EXCEPT !.risk = "HIGH"],
     [SetPsu(30, "J3") EXCEPT !.cited = FALSE],
     [SetPsu(30, "J3") EXCEPT !.setpoint = "garbled", !.volts = 0, !.amps = 0],
     Step("probe_net", "LOW"), Step("disable_psu_output", "LOW"),
     Step("enable_psu_output", "MEDIUM"), Step("flash_mcu", "LOW"),
     Step("order_parts", "LOW"), Step("unheard_of", "LOW"),
     [Step("serial_send", "LOW") EXCEPT !.dangerous = TRUE],
     [Step("lookup_datasheet", "LOW") EXCEPT !.actor = "guild"]}

MCInvokers == {"@power", "@sentinel", "@firmware", "@stranger"}

MCSkipSteps == {Step("disable_psu_output", "LOW"), SetPsu(300, "J3")}
=============================================================================
