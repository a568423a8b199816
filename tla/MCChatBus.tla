----------------------------- MODULE MCChatBus -----------------------------
(* A bench whose device may connect twice, beside the observer.  The        *)
(* messages are interchangeable but for m1, which may be published twice.   *)
EXTENDS ChatBus

CONSTANTS a1, a2, ob, m1, m2, m3

MCConns == {a1, a2, ob}
MCSids == {"bench", "observer"}
MCSidOf == [c \in Conns |-> IF c = ob THEN "observer" ELSE "bench"]
MCMsgs == {m1, m2, m3}
MCSymmetry == Permutations({m2, m3})
=============================================================================
