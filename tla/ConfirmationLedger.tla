-------------------------- MODULE ConfirmationLedger --------------------------
(***************************************************************************)
(* What the orchestrator promises of the steps it asks the operator to     *)
(* confirm (specs/03_safety_gate_matrix.md sections 2 and 3.3): a card is  *)
(* offered under a fresh id, at most MaxOpen cards are open at a time, an  *)
(* open card is answered once ("I did it" or "Skip", whichever channel is  *)
(* first), and an answered card is never opened again.                     *)
(*                                                                         *)
(* GraphEngine implements one ledger per session.                          *)
(***************************************************************************)
EXTENDS Naturals, FiniteSets

CONSTANTS Cards, MaxOpen

VARIABLES open, answered

TypeInv == open \subseteq Cards /\ answered \subseteq Cards

Init == open = {} /\ answered = {}

Offer(c) ==
    /\ c \in Cards \ (open \cup answered)
    /\ Cardinality(open) < MaxOpen
    /\ open' = open \cup {c}
    /\ UNCHANGED answered

Answer(c) ==
    /\ c \in open
    /\ open' = open \ {c}
    /\ answered' = answered \cup {c}

Next == \E c \in Cards : Offer(c) \/ Answer(c)

Spec == Init /\ [][Next]_<<open, answered>>
=============================================================================
