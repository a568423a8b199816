----------------------------- MODULE MCServices -----------------------------
(* Three services that share no state in the code, checked side by side:    *)
(* every behaviour is one of a single service, and the others rest.         *)
EXTENDS ChatSession, SmeEnvironments, LiveBridge

VARIABLE service

MCSmeOf == [t \in Summoners |-> "@power"]

Init ==
    /\ service \in {"chat", "smes", "live"}
    /\ ChatInit /\ SmeInit /\ LiveInit
    /\ service # "smes" => enabled

Next ==
    \/ service = "chat" /\ ChatNext /\ UNCHANGED <<service, smeVars, liveVars>>
    \/ service = "smes" /\ SmeNext /\ UNCHANGED <<service, chatVars, liveVars>>
    \/ service = "live" /\ LiveNext /\ UNCHANGED <<service, chatVars, smeVars>>

Spec ==
    Init /\ [][Next]_<<service, chatVars, smeVars, liveVars>> /\ SmeFairness /\ LiveFairness
=============================================================================
