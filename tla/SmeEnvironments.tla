--------------------------- MODULE SmeEnvironments ---------------------------
(***************************************************************************)
(* How one SME is summoned (genai_seams.real_summon_one): a managed agent  *)
(* in an environment of its own that first gathers facts through tools,    *)
(* else the Flash tool loop, else a stub; the environments, created once   *)
(* and cached under a lock; the computations that run in one shared        *)
(* sandbox and are abandoned when they take too long; and the tasks that   *)
(* create environments ahead and keep them warm (main.py).                 *)
(*                                                                         *)
(* Callers are worker threads.  What a tool returns is the matter of       *)
(* KnowledgeAdapter and BenchLookups, what becomes of an SmeResponse that  *)
(* of GraphEngine.  A ping changes nothing here, whether it succeeds or    *)
(* raises, so keepwarm_sme_envs is no action and keepwarm_ping only what   *)
(* it provisions.  The process has a key: without one each call raises and *)
(* the stub answers.                                                       *)
(***************************************************************************)
EXTENDS Integers, FiniteSets, Sequences

CONSTANTS
    Smes,          \* SME_ROSTER
    Summoners,     \* worker threads of the fan-outs
    SmeOf,         \* which SME a thread summons
    MAX_TOOL_ROUNDS,
    MaxDeaths      \* bound: environments the provider reclaims

ASSUME SmeAssumption ==
    /\ SmeOf \in [Summoners -> Smes]
    /\ "sandbox" \notin Smes
    /\ Summoners \cap {"prewarm", "keepwarm", "nobody"} = {}
    /\ MAX_TOOL_ROUNDS \in Nat \ {0} /\ MaxDeaths \in Nat

VARIABLES
    enabled,    \* _sme_sandbox_enabled: no FORGE_SME_USE_SANDBOX=0
    envs,       \* _sandbox_env_id and _sme_env: slot -> environment, 0 for none
    holder,     \* who holds _sandbox_lock and _sme_env_lock
    created,    \* the provider: the slot each environment was created for
    reclaimed,  \* the provider: environments that are gone
    at,         \* caller -> [pc, slot]: where it is, and the slot it wants
    turn        \* thread -> its summon: [path, rounds, env]

smeVars == <<enabled, envs, holder, created, reclaimed, at, turn>>

Slots == Smes \cup {"sandbox"}
LockOf(slot) == IF slot = "sandbox" THEN "_sandbox_lock" ELSE "_sme_env_lock"
Warmers == {"prewarm", "keepwarm"}
Nobody == "nobody"
Idle == [pc |-> "idle", slot |-> "none"]
NoTurn == [path |-> "none", rounds |-> 0, env |-> 0]

SmeInit ==
    /\ enabled \in BOOLEAN
    /\ envs = [slot \in Slots |-> 0]
    /\ holder = [lock \in {"_sandbox_lock", "_sme_env_lock"} |-> Nobody]
    /\ created = <<>> /\ reclaimed = {}
    /\ at = [c \in Summoners \cup Warmers |-> Idle]
    /\ turn = [t \in Summoners |-> NoTurn]

Go(c, pc) == at' = [at EXCEPT ![c] = [pc |-> pc, slot |-> "none"]]

-----------------------------------------------------------------------------
(* _get_sandbox_id and _get_sme_env: look, take the lock, look again,      *)
(* create.  With the environment (0: none) the caller goes on:             *)

GoesOn(c, slot, env) ==
    CASE c \in Warmers -> at' = [at EXCEPT ![c] = Idle] /\ UNCHANGED turn
      [] c \in Summoners /\ slot = "sandbox" ->
            Go(c, IF env = 0 THEN "tools" ELSE "computing") /\ UNCHANGED turn
      [] OTHER -> /\ Go(c, "tools")
                  /\ turn' = [turn EXCEPT ![c] =
                        [path |-> IF env = 0 THEN "flash" ELSE "gather", rounds |-> 0, env |-> env]]

\* The look outside the lock.
Want(c, slot) ==
    IF envs[slot] # 0 THEN GoesOn(c, slot, envs[slot])
    ELSE at' = [at EXCEPT ![c] = [pc |-> "locking", slot |-> slot]] /\ UNCHANGED turn

\* Mutant: the winner of the race is not noticed.
LookAgain_blind(c) == FALSE

LookAgain(c) == envs[at[c].slot] # 0

Lock(c) ==
    /\ at[c].pc = "locking"
    /\ holder[LockOf(at[c].slot)] = Nobody
    /\ IF LookAgain(c)
       THEN GoesOn(c, at[c].slot, envs[at[c].slot]) /\ UNCHANGED holder
       ELSE /\ at' = [at EXCEPT ![c].pc = "creating"]
            /\ holder' = [holder EXCEPT ![LockOf(at[c].slot)] = c]
            /\ UNCHANGED turn
    /\ UNCHANGED <<enabled, envs, created, reclaimed>>

\* The provider answers with an environment, or without one, or raises.
Creates(c) ==
    LET slot == at[c].slot
    IN  /\ at[c].pc = "creating"
        /\ holder' = [holder EXCEPT ![LockOf(slot)] = Nobody]
        /\ \/ /\ created' = Append(created, slot)
              /\ envs' = [envs EXCEPT ![slot] = Len(created) + 1]
              /\ GoesOn(c, slot, Len(created) + 1)
           \/ GoesOn(c, slot, 0) /\ UNCHANGED <<created, envs>>
        /\ UNCHANGED <<enabled, reclaimed>>

-----------------------------------------------------------------------------
(* real_summon_one                                                         *)

Summon(t) ==
    /\ at[t].pc = "idle"
    /\ IF enabled THEN Want(t, SmeOf[t])
       ELSE Go(t, "tools") /\ turn' = [turn EXCEPT ![t].path = "flash"]
    /\ UNCHANGED <<enabled, envs, holder, created, reclaimed>>

\* One answer of the model in a tool loop (_gather_grounding_via_tools or
\* _run_sme_tool_loop): it wants a tool or has heard enough.  A tool call that
\* computes looks for the sandbox; a lookup only takes its round.
Computes(t) ==
    /\ at[t].pc = "tools" /\ turn[t].rounds < MAX_TOOL_ROUNDS
    /\ IF envs["sandbox"] # 0 THEN Go(t, "computing")
       ELSE at' = [at EXCEPT ![t] = [pc |-> "locking", slot |-> "sandbox"]]
    /\ turn' = [turn EXCEPT ![t].rounds = @ + 1]
    /\ UNCHANGED <<enabled, envs, holder, created, reclaimed>>

LooksUp(t) ==
    /\ at[t].pc = "tools" /\ turn[t].rounds < MAX_TOOL_ROUNDS
    /\ turn' = [turn EXCEPT ![t].rounds = @ + 1]
    /\ UNCHANGED <<enabled, envs, holder, created, reclaimed, at>>

HeardEnough(t) ==
    /\ at[t].pc = "tools"
    /\ Go(t, "concluding")
    /\ turn' = [turn EXCEPT ![t].rounds = 0]
    /\ UNCHANGED <<enabled, envs, holder, created, reclaimed>>

Answers(t) ==
    /\ at' = [at EXCEPT ![t] = Idle]
    /\ turn' = [turn EXCEPT ![t] = NoTurn]

\* A call or a tool raises: the agent's turn falls back to Flash, Flash to the stub.
Fails(t) ==
    /\ at[t].pc \in {"tools", "concluding"}
    /\ IF turn[t].path = "gather"
       THEN Go(t, "tools") /\ turn' = [turn EXCEPT ![t] = [NoTurn EXCEPT !.path = "flash"]]
       ELSE Answers(t)
    /\ UNCHANGED <<enabled, envs, holder, created, reclaimed>>

\* The final call: the agent's in its environment, or Flash's.  An answer out
\* of which no SmeResponse can be built ends in the stub on either path.
Concludes(t) ==
    /\ at[t].pc = "concluding"
    /\ turn[t].path = "gather" => turn[t].env \notin reclaimed
    /\ Answers(t)
    /\ UNCHANGED <<enabled, envs, holder, created, reclaimed>>

-----------------------------------------------------------------------------
(* run_analysis: the computation runs in a thread of its own.              *)

\* It ends, with a result or without.
Computed(t) ==
    /\ at[t].pc = "computing"
    /\ Go(t, "tools")
    /\ UNCHANGED <<enabled, envs, holder, created, reclaimed, turn>>

\* The sandbox stops answering: it will never end.
Hangs(t) ==
    /\ at[t].pc = "computing"
    /\ Go(t, "hung")
    /\ UNCHANGED <<enabled, envs, holder, created, reclaimed, turn>>

\* Mutant: the executor is shut down with wait=True, as leaving a
\* `with ThreadPoolExecutor()` does, and joins the computation.
TimesOut_joined(t) == Computed(t)

\* SANDBOX_ANALYSIS_TIMEOUT_S: the caller goes on and does not join it.
TimesOut(t) ==
    /\ at[t].pc \in {"computing", "hung"}
    /\ Go(t, "tools")
    /\ UNCHANGED <<enabled, envs, holder, created, reclaimed, turn>>

-----------------------------------------------------------------------------
(* The background tasks, and the provider                                  *)

\* prewarm_smes passes over the roster once, past what is provisioned.
Prewarm(sme) ==
    /\ enabled /\ at["prewarm"].pc = "idle" /\ envs[sme] = 0
    /\ Want("prewarm", sme)
    /\ UNCHANGED <<enabled, envs, holder, created, reclaimed>>

KeepWarm ==
    /\ at["keepwarm"].pc = "idle"
    /\ Want("keepwarm", "sandbox")
    /\ UNCHANGED <<enabled, envs, holder, created, reclaimed>>

\* The provider reclaims an SME's environment; _sme_env keeps its id.
Reclaimed(env) ==
    /\ env \notin reclaimed /\ created[env] # "sandbox"
    /\ Cardinality(reclaimed) < MaxDeaths
    /\ reclaimed' = reclaimed \cup {env}
    /\ UNCHANGED <<enabled, envs, holder, created, at, turn>>

SummonStep(t) ==
    Computes(t) \/ LooksUp(t) \/ HeardEnough(t) \/ Fails(t) \/ Concludes(t)
        \/ Computed(t) \/ TimesOut(t)

SmeNext ==
    \/ \E c \in Summoners \cup Warmers : Lock(c) \/ Creates(c)
    \/ \E t \in Summoners : Summon(t) \/ SummonStep(t) \/ Hangs(t)
    \/ \E sme \in Smes : Prewarm(sme)
    \/ KeepWarm
    \/ \E env \in DOMAIN created : Reclaimed(env)

SmeSpec == SmeInit /\ [][SmeNext]_smeVars

\* Threads run; a call to a model or to the provider answers or raises (a
\* computation need not, but its caller's clock runs); a lock that is freed
\* again and again is got by everyone who waits for it.
SmeFairness ==
    /\ \A c \in Summoners \cup Warmers : SF_smeVars(Lock(c)) /\ WF_smeVars(Creates(c))
    /\ \A t \in Summoners : WF_smeVars(SummonStep(t))

-----------------------------------------------------------------------------
(* However summons, prewarm and keepwarm race, one environment at most is  *)
(* ever created for an SME and one for the sandbox, although creating one  *)
(* takes a minute and may fail; and an SME reasons in its own              *)
(* (genai_seams.py:234-239, :992-1035).                                    *)
OneEnvEach ==
    /\ \A i, j \in DOMAIN created : created[i] = created[j] => i = j
    /\ \A t \in Summoners : turn[t].env # 0 => created[turn[t].env] = SmeOf[t]

(* Every summon returns, with the stub if need be: whether creation fails, *)
(* the environment is gone, or a computation never ends                    *)
(* (genai_seams.py:357-359, :1386-1389).                                   *)
SummonsReturn ==
    \A t \in Summoners : at[t].pc # "idle" ~> at[t].pc = "idle"
=============================================================================
