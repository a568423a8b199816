----------------------------- MODULE GateThreads -----------------------------
(***************************************************************************)
(* The counters of one GateSession (safety/gate.py) under the worker       *)
(* threads of its operator session, which share it without a lock.         *)
(*                                                                         *)
(* GraphEngine takes evaluate with the card it opens, and resume with the  *)
(* skip it records, as one step each.  This module has the steps that      *)
(* another thread can come between.  CPython (3.12 and later) switches     *)
(* threads at calls and backward jumps, so that the test of pending_count  *)
(* and its increment in _confirm are one step; but record_skip calls get   *)
(* before it stores the one counter, and max before it stores the other.   *)
(***************************************************************************)
EXTENDS Naturals, FiniteSets

CONSTANTS
    Workers,    \* worker threads with a run or an answer of the session
    Resumers,   \* those with an answer: the /v2/chat handlers'
    Sigs,       \* (tool, args) of the proposed steps
    CardIds     \* bound: confirmation requests, by their fresh ids

ASSUME WorkersAssumption ==
    /\ IsFiniteSet(Workers) /\ IsFiniteSet(CardIds)
    /\ Resumers \subseteq Workers
    /\ "none" \notin Sigs

MAX_PENDING == 3

VARIABLES
    pending_count,          \* GateSession.pending_count
    skip_counts,            \* GateSession._skip_counts
    pendingConfirmations,   \* ForgeState.pendingConfirmations, as their ids
    offered,                \* the ids given out so far
    at,          \* worker -> [pc, sig, read]: where it is, on which step, the value it read
    skipped,     \* observation: sig -> the skips the operator sent for it
    overwritten  \* observation: increments made while a record_skip was about to
                 \* store the count it had read before them

gateVars == <<pending_count, skip_counts, pendingConfirmations, offered, at,
              skipped, overwritten>>

GateInit ==
    /\ pending_count = 0
    /\ skip_counts = [s \in Sigs |-> 0]
    /\ pendingConfirmations = {} /\ offered = {}
    /\ at = [w \in Workers |-> [pc |-> "idle", sig |-> "none", read |-> 0]]
    /\ skipped = [s \in Sigs |-> 0]
    /\ overwritten = 0

Moves(w, pc, s, value) == at' = [at EXCEPT ![w] = [pc |-> pc, sig |-> s, read |-> value]]

-----------------------------------------------------------------------------
(* _safety in a run: evaluate, and the card it asks for.  Whatever else    *)
(* evaluate answers reads and writes neither counter after the denylist.   *)

\* evaluate: the step is not on the session's skip denylist.
Evaluates(w, s) ==
    /\ at[w].pc = "idle"
    /\ skip_counts[s] < 2
    /\ Moves(w, "confirm", s, 0)
    /\ UNCHANGED <<pending_count, skip_counts, pendingConfirmations, offered,
                   skipped, overwritten>>

\* _confirm at the limit: the step is queued.
Queues(w) ==
    /\ at[w].pc = "confirm"
    /\ pending_count >= MAX_PENDING
    /\ Moves(w, "idle", "none", 0)
    /\ UNCHANGED <<pending_count, skip_counts, pendingConfirmations, offered,
                   skipped, overwritten>>

\* _confirm below the limit.
Confirms(w) ==
    /\ at[w].pc = "confirm"
    /\ pending_count < MAX_PENDING
    /\ pending_count' = pending_count + 1
    /\ overwritten' = IF \E v \in Workers : at[v].pc = "stored"
                      THEN overwritten + 1 ELSE overwritten
    /\ Moves(w, "card", at[w].sig, 0)
    /\ UNCHANGED <<skip_counts, pendingConfirmations, offered, skipped>>

\* The engine makes the request and opens it under a fresh id.
OpensCard(w, c) ==
    /\ at[w].pc = "card"
    /\ c \notin offered
    /\ offered' = offered \cup {c}
    /\ pendingConfirmations' = pendingConfirmations \cup {c}
    /\ Moves(w, "idle", "none", 0)
    /\ UNCHANGED <<pending_count, skip_counts, skipped, overwritten>>

-----------------------------------------------------------------------------
(* _resume: the card is popped first.                                      *)

\* Mutant: an approved step is recorded as skipped, too.
Settles_recorded(w, c) ==
    /\ at[w].pc = "idle"
    /\ c \in pendingConfirmations
    /\ pendingConfirmations' = pendingConfirmations \ {c}
    /\ \E s \in Sigs : Moves(w, "skip", s, 0)
    /\ UNCHANGED <<pending_count, skip_counts, offered, skipped, overwritten>>

\* Approved, or no action of the opinion has the card's words: the gate is not told.
Settles(w, c) ==
    /\ at[w].pc = "idle"
    /\ c \in pendingConfirmations
    /\ pendingConfirmations' = pendingConfirmations \ {c}
    /\ UNCHANGED <<pending_count, skip_counts, offered, at, skipped, overwritten>>

\* Mutant: the early return for a card that is no longer open is missing.
Skips_unchecked(w, c, s) ==
    /\ at[w].pc = "idle"
    /\ c \in offered
    /\ pendingConfirmations' = pendingConfirmations \ {c}
    /\ skipped' = [skipped EXCEPT ![s] = @ + 1]
    /\ Moves(w, "skip", s, 0)
    /\ UNCHANGED <<pending_count, skip_counts, offered, overwritten>>

\* Skipped; the first action of the opinion with the card's words is recorded.
Skips(w, c, s) ==
    /\ at[w].pc = "idle"
    /\ c \in pendingConfirmations
    /\ pendingConfirmations' = pendingConfirmations \ {c}
    /\ skipped' = [skipped EXCEPT ![s] = @ + 1]
    /\ Moves(w, "skip", s, 0)
    /\ UNCHANGED <<pending_count, skip_counts, offered, overwritten>>

\* record_skip: get reads how often the step was skipped ...
ReadsSkips(w) ==
    /\ at[w].pc = "skip"
    /\ Moves(w, "read", at[w].sig, skip_counts[at[w].sig])
    /\ UNCHANGED <<pending_count, skip_counts, pendingConfirmations, offered,
                   skipped, overwritten>>

\* ... one more is stored, and the count of open cards is read for max ...
StoresSkips(w) ==
    /\ at[w].pc = "read"
    /\ skip_counts' = [skip_counts EXCEPT ![at[w].sig] = at[w].read + 1]
    /\ Moves(w, "stored", at[w].sig, pending_count)
    /\ UNCHANGED <<pending_count, pendingConfirmations, offered, skipped, overwritten>>

\* ... and one less is stored, whatever the count has become by then.
StoresCount(w) ==
    /\ at[w].pc = "stored"
    /\ pending_count' = IF at[w].read = 0 THEN 0 ELSE at[w].read - 1
    /\ Moves(w, "idle", "none", 0)
    /\ UNCHANGED <<skip_counts, pendingConfirmations, offered, skipped, overwritten>>

GateNext ==
    \/ \E w \in Workers :
          \/ \E s \in Sigs : Evaluates(w, s)
          \/ Queues(w) \/ Confirms(w)
          \/ \E c \in CardIds : OpensCard(w, c)
    \/ \E w \in Resumers :
          \/ \E c \in CardIds : Settles(w, c) \/ \E s \in Sigs : Skips(w, c, s)
          \/ ReadsSkips(w) \/ StoresSkips(w) \/ StoresCount(w)

GateSpec == GateInit /\ [][GateNext]_gateVars

-----------------------------------------------------------------------------
(* However the threads interleave, the open cards exceed the gate's count  *)
(* of them by at most the increments that a record_skip lost: where none   *)
(* was lost there are never more than MAX_PENDING, and each lost one lets  *)
(* at most one card more through (gate.py:220-226, :247).                  *)
OpenCovered ==
    /\ Cardinality(pendingConfirmations) <= pending_count + overwritten
    /\ pending_count <= MAX_PENDING

(* A race between two skips can lose one but never invents one: a step is  *)
(* suppressed only after the operator has skipped it that often            *)
(* (gate.py:116-118, :246).                                                *)
NoPhantomSkips == \A s \in Sigs : skip_counts[s] <= skipped[s]

-----------------------------------------------------------------------------
(* What docs of the repository say that the code does not do.              *)

(* specs/03:98 -- at most three confirmations are pending at a time.       *)
AtMostThreePending == Cardinality(pendingConfirmations) <= MAX_PENDING
=============================================================================
