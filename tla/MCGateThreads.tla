---------------------------- MODULE MCGateThreads ----------------------------
(* The run of one thread beside the answers of two, each of which may also  *)
(* run.                                                                     *)
EXTENDS GateThreads, TLC

MCWorkers == {"live", "chat1", "chat2"}
MCResumers == {"chat1", "chat2"}
MCSigs == {"set_psu", "enable"}

Symmetric == Permutations(CardIds)
=============================================================================
