-------------------------- MODULE MCSessionThreads --------------------------
(* What the threads of a session do to its state between statements: the    *)
(* events' way to the bus (MCEventStream), and the gate's counters          *)
(* (MCGateThreads).  The two have no variable in common: each behaviour is  *)
(* one of either, and the other rests.  Fresh ids are given out in order:   *)
(* which they are makes no difference to anything.                          *)
EXTENDS MCEventStream, MCGateThreads

CONSTANT MaxCards

VARIABLE side

MCCardIds == 1..MaxCards

ThreadsInit == Init /\ GateInit /\ side \in {"events", "counters"}

ThreadsNext ==
    \/ side = "events" /\ Next /\ UNCHANGED <<side, gateVars>>
    \/ /\ side = "counters" /\ GateNext /\ UNCHANGED <<side, vars>>
       /\ offered' \in {1..n : n \in 0..MaxCards}

ThreadsSpec == ThreadsInit /\ [][ThreadsNext]_<<side, vars, gateVars>>
=============================================================================
