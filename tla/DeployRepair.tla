----------------------------- MODULE DeployRepair -----------------------------
(***************************************************************************)
(* What DEPLOY does after its first attempt has failed (stages_py.py): a   *)
(* loop over the built-in strategies of deploy_repair.py, then up to       *)
(* AgentAttempts proposals of a language model (deploy_repair_agent.py).   *)
(* Every attempt is a container that is started, watched and, if it fails, *)
(* removed (module RunPipeline); here only how it failed matters, which is *)
(* any of the classes the logs can show.                                   *)
(*                                                                         *)
(* A plan is [engine, trust, len, gguf]: engine.json's engine and the      *)
(* vllm_args the strategies touch; len 0 is a max_model_len not given.     *)
(***************************************************************************)
EXTENDS Naturals, Sequences, SequencesExt, FiniteSets

CONSTANTS
    StartLens,      \* max_model_len of ENGINE_SELECT's plans
    AgentAttempts   \* cfg.deploy_repair_agent_attempts, 0: agent disabled

ASSUME RepairAssumption == StartLens \subseteq Nat /\ AgentAttempts \in Nat

Engines == {"vllm", "sglang", "transformers"}
Accelerated == {"vllm", "sglang"}

\* _ENGINE_IMAGES.
ImageOf(engine) == CASE engine = "vllm" -> "vllm:v0.11.0"
                     [] engine = "sglang" -> "sglang" [] OTHER -> "runner:v10"

\* classify, by the attempt's error_kind; docker_api has no logs to look at.
EarlyExit == {"gguf_needs_file_path", "model_type_unknown", "trust_remote_code_required",
              "oom", "missing_dep", "cuda_arch_mismatch", "unsupported_dtype", "other_early_exit"}
InferenceBroken == {"inference_not_implemented", "inference_other_5xx"}
classify == EarlyExit \cup InferenceBroken \cup {"image_pull", "port_in_use"}

VARIABLES
    rpc,        \* "start", "first", "propose", "try", "agent", "ok", "failed"
    rplan,      \* the running plan
    rimage,     \* the image of the last attempt
    failure,    \* the last failure: [engine, image, class]
    fresh,      \* the proposals of this iteration still to be tried
    seen,       \* seen_strategies
    tries,      \* the attempts: [plan, image, by], by: a strategy, or "initial", "agent"
    calls       \* agent proposals asked for

repairVars == <<rpc, rplan, rimage, failure, fresh, seen, tries, calls>>

Plain == [engine |-> "vllm", trust |-> FALSE, len |-> 0, gguf |-> FALSE]
NoFailure == [engine |-> "vllm", image |-> "vllm:v0.11.0", class |-> "none"]

RepairInit ==
    /\ rpc = "start"
    /\ rplan = Plain
    /\ rimage = "vllm:v0.11.0"
    /\ failure = NoFailure
    /\ fresh = {}
    /\ seen = {}
    /\ tries = <<>>
    /\ calls = 0

-----------------------------------------------------------------------------
(* The strategies: applicable to a plan and a failure, and the plan each makes *)

LongEnough(p) == p.len = 0 \/ p.len > 1024
Halved(p) == IF p.len = 0 THEN 4096 ELSE IF p.len \div 2 < 1024 THEN 1024 ELSE p.len \div 2

Applies(s, p, f) ==
    CASE s = "add_trust_remote_code" ->
            f.engine \in Accelerated /\ f.class # "gguf_needs_file_path" /\ ~p.trust
      [] s = "use_gguf_file_path" -> f.engine = "vllm" /\ f.class = "gguf_needs_file_path"
      [] s = "lower_max_model_len" ->
            f.engine \in Accelerated /\ f.class \in {"oom", "other_early_exit"} /\ LongEnough(p)
      [] s = "swap_vllm_image_latest" ->
            /\ ~(f.image = "vllm:latest" /\ f.engine = "vllm")
            /\ \/ f.class \in InferenceBroken
               \/ /\ f.class \in {"model_type_unknown", "cuda_arch_mismatch", "missing_dep",
                                  "other_early_exit"}
                  /\ f.engine = "vllm"
      [] s = "swap_engine_sglang" ->
            /\ f.engine # "sglang"
            /\ f.class \in InferenceBroken \cup {"model_type_unknown", "unsupported_dtype",
                                                 "other_early_exit"}
      [] OTHER -> f.engine \in Accelerated

NewPlan(s, p) ==
    CASE s = "add_trust_remote_code" -> [p EXCEPT !.trust = TRUE]
      [] s = "use_gguf_file_path" -> [p EXCEPT !.gguf = TRUE]
      [] s = "lower_max_model_len" -> [p EXCEPT !.len = Halved(p)]
      [] s = "swap_vllm_image_latest" -> [p EXCEPT !.engine = "vllm"]
      [] s = "swap_engine_sglang" -> [p EXCEPT !.engine = "sglang"]
      [] OTHER -> [p EXCEPT !.engine = "transformers"]

BUILTIN_STRATEGIES ==
    <<"add_trust_remote_code", "use_gguf_file_path", "lower_max_model_len",
      "swap_vllm_image_latest", "swap_engine_sglang", "swap_engine_transformers">>

Strategies == ToSet(BUILTIN_STRATEGIES)

\* In the order of BUILTIN_STRATEGIES, which TryProposal keeps to.
propose_attempts(p, f) ==
    {[name |-> s, plan |-> NewPlan(s, p)] : s \in {t \in Strategies : Applies(t, p, f)}}

Position(s) == CHOOSE i \in DOMAIN BUILTIN_STRATEGIES : BUILTIN_STRATEGIES[i] = s

-----------------------------------------------------------------------------
(* execute_deploy after the bind mount is known *)

Attempted(p, image, by) ==
    tries' = Append(tries, [plan |-> p, image |-> image, by |-> by])

\* A container can list its models and fail to infer, or die, or not start.
FailsWith(c, engine, image) ==
    failure' = [engine |-> engine, image |-> image, class |-> c]

StartDeploy ==
    /\ rpc = "start"
    /\ \E e \in {"vllm", "transformers"}, n \in StartLens :
          /\ rplan' = [Plain EXCEPT !.engine = e, !.len = n]
          /\ rimage' = ImageOf(e)
    /\ rpc' = "first"
    /\ UNCHANGED <<failure, fresh, seen, tries, calls>>

\* A port that is taken is not repaired.
FirstAttempt ==
    /\ rpc = "first"
    /\ Attempted(rplan, rimage, "initial")
    /\ \/ rpc' = "ok" /\ UNCHANGED failure
       \/ \E c \in classify :
             /\ FailsWith(c, rplan.engine, rimage)
             /\ rpc' = IF c = "port_in_use" THEN "failed" ELSE "propose"
    /\ UNCHANGED <<rplan, rimage, fresh, seen, calls>>

\* Mutant: proposals are not compared with earlier ones.
NotSeen_All(q) == q

NotSeen(q) == {x \in q : x.name \notin seen}

\* One turn of the while loop proposes once, for the failure it starts with;
\* max_iterations (8) exceeds the number of strategies and is never reached.
ProposeRound ==
    /\ rpc = "propose"
    /\ fresh' = NotSeen(propose_attempts(rplan, failure))
    /\ rpc' = IF fresh' # {} THEN "try" ELSE IF AgentAttempts > 0 THEN "agent" ELSE "failed"
    /\ UNCHANGED <<rplan, rimage, failure, seen, tries, calls>>

\* The image of an attempt: the strategy's own, or the engine's.
ImageFor(x) == IF x.name = "swap_vllm_image_latest" THEN "vllm:latest" ELSE ImageOf(x.plan.engine)

\* The for loop goes through the list it has, whatever the attempts now say.
TryProposal ==
    /\ rpc = "try"
    /\ \E x \in fresh :
          /\ \A y \in fresh : Position(x.name) <= Position(y.name)
          /\ seen' = seen \cup {x.name}
          /\ Attempted(x.plan, ImageFor(x), x.name)
          /\ rplan' = x.plan
          /\ rimage' = ImageFor(x)
          /\ \/ rpc' = "ok" /\ fresh' = {} /\ UNCHANGED failure
             \/ /\ \E c \in classify : FailsWith(c, x.plan.engine, ImageFor(x))
                /\ fresh' = fresh \ {x}
                /\ rpc' = IF fresh' = {} THEN "propose" ELSE "try"
    /\ UNCHANGED calls

-----------------------------------------------------------------------------
(* _attempt_agent_repair *)

\* A proposal that parses: any of its fields may be null.
AgentProposals ==
    [engine : Engines \cup {"null"}, image : {"null", "vllm:latest", "runner:v10"},
     args : {"null", "trust_remote_code"}]

ArgsAfter(p, q) == IF q.args = "null" THEN p ELSE [p EXCEPT !.trust = TRUE]

\* Mutant: only a proposal of nothing is a no-op.
_is_noop_AllNull(q) == q.engine = "null" /\ q.args = "null" /\ q.image = "null"

_is_noop(q) ==
    /\ q.engine \in {"null", rplan.engine}
    /\ q.image \in {"null", rimage}
    /\ ArgsAfter(rplan, q) = rplan

\* An error, an answer that does not parse or a no-op costs an attempt.
AgentCall ==
    /\ rpc = "agent"
    /\ calls < AgentAttempts
    /\ calls' = calls + 1
    /\ \/ /\ UNCHANGED <<rplan, rimage, failure, tries, rpc>>
       \/ \E q \in AgentProposals :
             /\ ~_is_noop(q)
             /\ LET engine == IF q.engine = "null" THEN rplan.engine ELSE q.engine
                    image == IF q.image = "null" THEN ImageOf(engine) ELSE q.image
                    p == [ArgsAfter(rplan, q) EXCEPT !.engine = engine]
                IN /\ Attempted(p, image, "agent")
                   /\ rplan' = p
                   /\ rimage' = image
                   /\ \/ rpc' = "ok" /\ UNCHANGED failure
                      \/ /\ FailsWith("other_early_exit", engine, image)
                         /\ UNCHANGED rpc
    /\ UNCHANGED <<fresh, seen>>

AgentExhausted ==
    /\ rpc = "agent"
    /\ calls = AgentAttempts
    /\ rpc' = "failed"
    /\ UNCHANGED <<rplan, rimage, failure, fresh, seen, tries, calls>>

RepairNext ==
    \/ StartDeploy
    \/ FirstAttempt
    \/ ProposeRound
    \/ TryProposal
    \/ AgentCall
    \/ AgentExhausted

RepairSpec == RepairInit /\ [][RepairNext]_repairVars

-----------------------------------------------------------------------------
(* Properties *)

\* The variables keep their types.
RepairTypeOK ==
    /\ rpc \in {"start", "first", "propose", "try", "agent", "ok", "failed"}
    /\ rplan \in [engine : Engines, trust : BOOLEAN, len : Nat, gguf : BOOLEAN]
    /\ failure.class \in classify \cup {"none"}
    /\ seen \subseteq Strategies /\ calls \in 0..AgentAttempts

\* _try_once: the command of transformers takes no vllm_args.
Started(p) == IF p.engine = "transformers" THEN [Plain EXCEPT !.engine = "transformers"] ELSE p
Config(t) == <<Started(t.plan), t.image>>

\* No two attempts of the rule-based repair start the same container, but for
\* one: a deploy that began on transformers may end by returning to it.
NoConfigTwice ==
    \A i, j \in 1..Len(tries) :
        (i < j /\ tries[i].by # "agent" /\ tries[j].by # "agent" /\ Config(tries[i]) = Config(tries[j]))
            => i = 1 /\ tries[i].plan.engine = "transformers"

\* The agent never has the container started again that has just failed, but for
\* one: on transformers a proposal of other arguments passes for a change.
AgentChangesSomething ==
    \A i \in 2..Len(tries) :
        (tries[i].by = "agent" /\ Config(tries[i]) = Config(tries[i - 1]))
            => tries[i].plan.engine = "transformers" /\ tries[i].plan # tries[i - 1].plan

=============================================================================
