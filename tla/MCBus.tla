-------------------------------- MODULE MCBus --------------------------------
(* The bus with its connections (MCChatBus), the observer on two of them    *)
(* (Observer), and the cards of a server of two sessions (ForgeServer):     *)
(* each behaviour is one of these, and the others rest.                     *)
EXTENDS MCChatBus, Observer, ForgeServer

VARIABLE part

MCTaps == {a1, a2}
MCSessionOf == [s \in Sockets |-> IF s = "b1" THEN "B" ELSE "A"]

\* The tables of older observers: none, and one that stored a replay again.
Row(key) == [key |-> key, session |-> "default"]
MCLegacyRows ==
    {<<>>, <<Row(<<"ChatMessage", 0>>), Row(<<>>), Row(<<"ChatMessage", 0>>)>>}

BusInit ==
    /\ ObserverInit /\ ServerInit
    /\ part \in {"bus", "observer", "server"}
    /\ part # "observer" => rows = <<>>

\* The third connection is there before the first event; the two of the device,
\* or of the observer, come at any time.
\* The observer sees three messages, cards and ticks, each message published
\* when it is made.
BusNext ==
    \/ /\ part = "bus" /\ Next /\ UNCHANGED <<part, observerVars, serverVars>>
       /\ handler[ob] = "new" => log' = <<>> /\ offered' = {}
    \/ /\ part = "observer" /\ ObserverNext /\ UNCHANGED <<part, serverVars>>
       /\ handler[ob] = "new" => log' = <<>> /\ offered' = {}
       /\ Len(log') + Cardinality(offered') + (IF now' = 0 THEN 0 ELSE 1) <= 3
       /\ \A m \in Msgs : made'[m] \in {made[m], now}
    \/ part = "server" /\ ServerNext /\ UNCHANGED <<part, allVars>>

BusSpec == BusInit /\ [][BusNext]_<<part, allVars, serverVars>>
=============================================================================
