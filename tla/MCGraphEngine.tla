--------------------------- MODULE MCGraphEngine ---------------------------
(* Two SMEs and a handful of steps that take different ways through the     *)
(* gate; the cfgs choose the responses that make their question bite.       *)
EXTENDS GraphEngine, TLC

MCNetLimits == [J3 |-> [v |-> 300, i |-> Undocumented]]

Step(tool, risk, summary) ==
    [tool |-> tool, actor |-> "operator", setpoint |-> "none", volts |-> 0, amps |-> 0,
     target |-> "", baud |-> FALSE, dangerous |-> FALSE, cited |-> TRUE,
     risk |-> risk, summary |-> summary]

Psu(volts, summary) ==
    [Step("set_psu", "LOW", summary) EXCEPT !.setpoint = "numbers", !.volts = volts,
                                            !.target = "J3"]

Probe   == Step("probe_net", "LOW", "probe VIO")                \* allow
Set10V  == Psu(100, "set the PSU to 10 V")                      \* confirm
Enable  == Step("enable_psu_output", "LOW", "enable the PSU")   \* confirm
Set40V  == Psu(400, "set the PSU to 40 V")                      \* deny
Garbled == [Set10V EXCEPT !.setpoint = "garbled", !.volts = 0]  \* raise
Set40VSameWords == Psu(400, "set the PSU to 10 V")              \* deny

Says(actions) == [kept |-> TRUE, actions |-> actions]

OneThread == {"chat"}
TwoThreads == {"chat", "live"}
OneChat == {"chat"}
PowerRosters == {<<"@power">>}
GuildRosters == {<<"@power">>, <<"@firmware", "@power">>}

\* A long session: a step that is proposed run after run, once out of its lane.
LongSteps == {Enable, Probe, Set40V, Garbled}
LongClaims == ("@power" :> {Says(<<Enable>>), Says(<<Probe, Set40V, Garbled>>)})
              @@ ("@firmware" :> {Says(<<Enable>>)})

\* Two threads and an SME that changes its mind.
PairSteps == {Set10V, Enable, Probe}
PairClaims == "@power" :> {Says(<<Set10V, Enable>>), Says(<<Probe, Set10V>>)}

\* One step that has to be confirmed, proposed again after every approval.
OneStep == {Enable}
OneStepClaims == "@power" :> {Says(<<Enable>>)}

\* Two steps an SME describes in the same words.
SameWordsSteps == {Set40VSameWords, Set10V}
SameWordsClaims == "@power" :> {Says(<<Set40VSameWords, Set10V>>)}
=============================================================================
