----------------------------- MODULE RunPipeline -----------------------------
(***************************************************************************)
(* The evaluation pipeline of the orchestrator: run_pipeline and the loop, *)
(* sweep, run and resume commands of orchestrator/main.py, the two-step    *)
(* save_run of orchestrator/store.py, and the docker containers that the   *)
(* DEPLOY, READY_WAIT, CAPABILITY and CLEANUP stages start, query and      *)
(* remove.                                                                 *)
(*                                                                         *)
(* The index row and state.json are two files: save_run replaces the first *)
(* (here: state) and then upserts the second (here: index), and a process  *)
(* can die in between.  Containers are detached: they survive the process  *)
(* that started them.                                                      *)
(***************************************************************************)
EXTENDS Naturals, Sequences, FiniteSets

CONSTANTS
    Runs,               \* run ids, one queue entry each
    None,               \* "no run"
    Loop,               \* the heyi-eval-orchestrator service
    Operators,          \* shells in which an operator types `run` or `resume`
    Pipeline,           \* the stages of a run, in order
    Light,              \* runs whose engine stays under the 1024 MiB idle threshold
    Ungated,            \* runs whose suite passes the broken-endpoint gate unanswered
    Abortable,          \* runs in whose state.json somebody may set abort_flag
    MaxDeployAttempts,  \* first attempt, repair strategies and agent proposals
    MaxCrashes,         \* bound: how often processes die
    DockerFaults,       \* BOOLEAN: the docker daemon may refuse a removal
    OutboxFaults,       \* BOOLEAN: appending to notify_outbox.jsonl may raise
    Overlap             \* BOOLEAN: a command may run beside the service

StageName == {"DISCOVER", "CURATE", "METADATA", "ENGINE_SELECT", "STAGE_MODEL",
              "DEPLOY", "READY_WAIT", "CAPABILITY", "PERF_BENCH", "SHOWCASE",
              "CLEANUP"}

STAGES_IN_ORDER == <<"DISCOVER", "CURATE", "METADATA", "ENGINE_SELECT",
                     "STAGE_MODEL", "DEPLOY", "READY_WAIT", "CAPABILITY",
                     "PERF_BENCH", "SHOWCASE", "CLEANUP">>

RUN_LEVEL_STAGES ==
    {"DISCOVER", "CURATE", "METADATA", "ENGINE_SELECT", "STAGE_MODEL"}

\* What the run-level restart of run_pipeline resets: STAGE_MODEL is not in it.
RestartedStages == RUN_LEVEL_STAGES \ {"STAGE_MODEL"}

\* The executors that may answer extra.aborted: not a model / oversize, the
\* disk gate, the GPU gate.
SkippableStages == {"ENGINE_SELECT", "STAGE_MODEL", "DEPLOY"}

StageStatus == {"pending", "in_progress", "ok", "failed", "skipped"}
RunStatus == {"pending", "in_progress", "ok", "failed", "aborted"}
Terminal == {"ok", "failed", "aborted"}

Procs == {Loop} \cup Operators

ASSUME PipelineAssumption ==
    /\ Pipeline \in Seq(StageName)
    /\ Len(Pipeline) > 0
    /\ Pipeline[Len(Pipeline)] = "CLEANUP"
    /\ \A i, j \in 1..Len(Pipeline) : Pipeline[i] = Pipeline[j] => i = j

ASSUME ConstantAssumption ==
    /\ None \notin Runs
    /\ Loop \notin Operators
    /\ MaxDeployAttempts \in Nat \ {0}
    /\ MaxCrashes \in Nat
    /\ DockerFaults \in BOOLEAN
    /\ OutboxFaults \in BOOLEAN
    /\ Overlap \in BOOLEAN

VARIABLES
    (* on disk *)
    state,       \* state[r]: runs/<r>/state.json
    index,       \* index[r]: the status column of r's row in runs.sqlite
    backlog,     \* runs whose line is still in queue.jsonl
    (* on the docker host *)
    container,   \* container[r]: the e9-* container labelled with r
    capability,  \* capability[r]: whose container answered r's capability suite
    (* in the memory of a process *)
    pc,          \* pc[p]: where p is in its program
    cur,         \* cur[p]: the run p is executing
    obj,         \* obj[p]: p's Run object
    idx,         \* idx[p]: the position of the current stage in Pipeline
    attempt,     \* attempt[p]: deploy attempts made so far
    unflushed,   \* unflushed[p]: p has replaced state.json, not yet the row
    todo,        \* todo[p]: runs still to sweep or to resume
    copy,        \* copy[p]: the Run objects `resume` read when it started
    (* bound *)
    crashes      \* processes that have died so far

disk == <<state, index, backlog>>
host == <<container, capability>>
memory == <<pc, cur, obj, idx, attempt, unflushed, todo, copy>>
vars == <<disk, host, memory, crashes>>

-----------------------------------------------------------------------------
(* Run objects (state_machine.py) *)

FreshRun == [status |-> "pending", abort |-> FALSE,
             stages |-> [s \in StageName |-> "pending"]]

\* state.json does not exist yet.
NoFile == [FreshRun EXCEPT !.status = "absent"]

Mark(run, s, st) == [run EXCEPT !.stages[s] = st]
Ended(run, st) == [run EXCEPT !.status = st]

needs_full_restart(run) ==
    /\ run.stages["DEPLOY"] # "ok"
    /\ \E s \in RUN_LEVEL_STAGES : run.stages[s] = "failed"

\* The reset loop of run_pipeline (whose docstring says that it resets them all).
Restarted(run) ==
    [run EXCEPT !.stages =
        [s \in StageName |->
            IF s \in RestartedStages /\ run.stages[s] # "ok"
            THEN "pending" ELSE run.stages[s]]]

-----------------------------------------------------------------------------
(* Processes *)

At(p, l) == pc[p] = l /\ ~unflushed[p]

Stage(p) == Pipeline[idx[p]]

\* First half of save_run: state.json is replaced by the Run object.
Save(p, run) ==
    /\ state' = [state EXCEPT ![cur[p]] = run]
    /\ obj' = [obj EXCEPT ![p] = run]
    /\ unflushed' = [unflushed EXCEPT ![p] = TRUE]

Goto(p, l) == pc' = [pc EXCEPT ![p] = l]

FlushIndex_InsertOnly(p) ==
    /\ unflushed[p]
    /\ index' = [index EXCEPT ![cur[p]] = IF @ = "absent" THEN obj[p].status ELSE @]
    /\ unflushed' = [unflushed EXCEPT ![p] = FALSE]
    /\ UNCHANGED <<state, backlog, host, pc, cur, obj, idx, attempt, todo, copy,
                   crashes>>

\* Second half of save_run: the row is upserted.
FlushIndex(p) ==
    /\ unflushed[p]
    /\ index' = [index EXCEPT ![cur[p]] = obj[p].status]
    /\ unflushed' = [unflushed EXCEPT ![p] = FALSE]
    /\ UNCHANGED <<state, backlog, host, pc, cur, obj, idx, attempt, todo, copy,
                   crashes>>

\* p's memory after it has given up its run, and continues at l.
Release(p, l) ==
    /\ Goto(p, l)
    /\ cur' = [cur EXCEPT ![p] = None]
    /\ obj' = [obj EXCEPT ![p] = FreshRun]
    /\ idx' = [idx EXCEPT ![p] = 1]
    /\ attempt' = [attempt EXCEPT ![p] = 0]
    /\ unflushed' = [unflushed EXCEPT ![p] = FALSE]

\* p's process ends: everything it had in memory is gone.
Exit(p) ==
    /\ Release(p, "down")
    /\ todo' = [todo EXCEPT ![p] = {}]
    /\ copy' = [copy EXCEPT ![p] = [r \in Runs |-> NoFile]]

Crash(p) ==
    /\ pc[p] # "down"
    /\ crashes < MaxCrashes
    /\ crashes' = crashes + 1
    /\ Exit(p)
    /\ UNCHANGED <<disk, host>>

-----------------------------------------------------------------------------
(* The service: cmd_loop and its start-up sweep *)

Orphans_LongStaleOnly == {}

\* The rows that say in_progress; force_all leaves their age out of it.
Orphans == {r \in Runs : index[r] = "in_progress"}

\* systemd starts the service, which begins with the sweep.
StartLoop ==
    /\ pc[Loop] = "down"
    /\ Overlap \/ \A o \in Operators : pc[o] = "down"
    /\ Goto(Loop, "sweep")
    /\ todo' = [todo EXCEPT ![Loop] = Orphans]
    /\ UNCHANGED <<disk, host, cur, obj, idx, attempt, unflushed, copy, crashes>>

\* get_run: state.json of a listed run is loaded and marked ABORTED in memory.
SweepLoad ==
    /\ At(Loop, "sweep")
    /\ \E r \in todo[Loop] :
        /\ cur' = [cur EXCEPT ![Loop] = r]
        /\ obj' = [obj EXCEPT ![Loop] = Ended(state[r], "aborted")]
        /\ todo' = [todo EXCEPT ![Loop] = @ \ {r}]
    /\ Goto(Loop, "swept")
    /\ UNCHANGED <<disk, host, idx, attempt, unflushed, copy, crashes>>

SweepSave ==
    /\ At(Loop, "swept")
    /\ Save(Loop, obj[Loop])
    /\ Goto(Loop, "sweep")
    /\ UNCHANGED <<index, backlog, host, cur, idx, attempt, todo, copy, crashes>>

SweepDone_AfterFirst ==
    /\ At(Loop, "sweep")
    /\ Release(Loop, "idle")
    /\ UNCHANGED <<disk, host, todo, copy, crashes>>

SweepDone ==
    /\ At(Loop, "sweep")
    /\ todo[Loop] = {}
    /\ Release(Loop, "idle")
    /\ UNCHANGED <<disk, host, todo, copy, crashes>>

\* The queue is empty: sleep and poll again.
IdlePoll ==
    /\ At(Loop, "idle")
    /\ backlog = {}
    /\ UNCHANGED vars

\* pop_one, by the loop or by the `run` command.
Pop(p) ==
    /\ \/ p = Loop /\ At(p, "idle")
       \/ p \in Operators /\ At(p, "down") /\ (Overlap \/ pc[Loop] = "down")
    /\ \E r \in backlog :
        /\ backlog' = backlog \ {r}
        /\ cur' = [cur EXCEPT ![p] = r]
    /\ Goto(p, "popped")
    /\ UNCHANGED <<state, index, host, obj, idx, attempt, unflushed, todo, copy,
                   crashes>>

\* Run(...); store.save_run(run)
Register(p) ==
    /\ At(p, "popped")
    /\ Save(p, FreshRun)
    /\ Goto(p, "registered")
    /\ UNCHANGED <<index, backlog, host, cur, idx, attempt, todo, copy, crashes>>

\* run_pipeline has returned.
Return(p) ==
    /\ At(p, "end")
    /\ Release(p, IF p = Loop THEN "idle" ELSE "resume")
    /\ UNCHANGED <<disk, host, todo, copy, crashes>>

\* An exception leaves run_pipeline.  The loop records FAILED and goes on; a
\* command dies with a traceback.
Catastrophe(p) ==
    IF p = Loop
    THEN /\ Save(p, Ended(obj[p], "failed"))
         /\ Goto(p, "end")
         /\ UNCHANGED <<index, backlog, cur, idx, attempt, todo, copy>>
    ELSE /\ Exit(p)
         /\ UNCHANGED disk

-----------------------------------------------------------------------------
(* The `resume` command: cmd_resume *)

StartResume(o) ==
    /\ At(o, "down")
    /\ Overlap \/ pc[Loop] = "down"
    /\ \E r \in Runs : state[r].status = "in_progress"
    /\ Goto(o, "resume")
    /\ todo' = [todo EXCEPT ![o] = {r \in Runs : state[r].status = "in_progress"}]
    /\ copy' = [copy EXCEPT ![o] = state]
    /\ UNCHANGED <<disk, host, cur, obj, idx, attempt, unflushed, crashes>>

ResumeNext(o) ==
    /\ At(o, "resume")
    /\ \E r \in todo[o] :
        /\ cur' = [cur EXCEPT ![o] = r]
        /\ obj' = [obj EXCEPT ![o] = copy[o][r]]
        /\ todo' = [todo EXCEPT ![o] = @ \ {r}]
    /\ Goto(o, "registered")
    /\ UNCHANGED <<disk, host, idx, attempt, unflushed, copy, crashes>>

ResumeDone(o) ==
    /\ At(o, "resume")
    /\ todo[o] = {}
    /\ Exit(o)
    /\ UNCHANGED <<disk, host, crashes>>

\* Nothing in the program sets abort_flag: it is read back from state.json, so
\* only an edit of that file can set it.
EditAbortFlag(r) ==
    /\ r \in Abortable
    /\ state[r].status = "in_progress"
    /\ ~state[r].abort
    /\ \A p \in Procs : pc[p] = "down"
    /\ state' = [state EXCEPT ![r].abort = TRUE]
    /\ UNCHANGED <<index, backlog, host, memory, crashes>>

-----------------------------------------------------------------------------
(* run_pipeline *)

Begin(p) ==
    /\ At(p, "registered")
    /\ Save(p, Ended(obj[p], "in_progress"))
    /\ Goto(p, "announce")
    /\ UNCHANGED <<index, backlog, host, cur, idx, attempt, todo, copy, crashes>>

\* notify.run_started, then the run-level restart where it is due.
Announce(p) ==
    /\ At(p, "announce")
    /\ \/ OutboxFaults /\ Catastrophe(p)
       \/ /\ needs_full_restart(obj[p])
          /\ Save(p, Restarted(obj[p]))
          /\ Goto(p, "stage")
          /\ UNCHANGED <<index, backlog, cur, idx, attempt, todo, copy>>
       \/ /\ ~needs_full_restart(obj[p])
          /\ Goto(p, "stage")
          /\ UNCHANGED <<disk, cur, obj, idx, attempt, unflushed, todo, copy>>
    /\ UNCHANGED <<host, crashes>>

AbortByFlag(p) ==
    /\ At(p, "stage")
    /\ idx[p] <= Len(Pipeline)
    /\ obj[p].abort
    /\ Save(p, Ended(obj[p], "aborted"))
    /\ Goto(p, "end")
    /\ UNCHANGED <<index, backlog, host, cur, idx, attempt, todo, copy, crashes>>

Settled_Attempted(p) == obj[p].stages[Stage(p)] # "pending"
Settled_RunLevelOnly(p) ==
    obj[p].stages[Stage(p)] = "ok" /\ Stage(p) \in RUN_LEVEL_STAGES
Settled_OkOrSkipped(p) == obj[p].stages[Stage(p)] \in {"ok", "skipped"}

\* The checkpoint test: only OK is skipped, every other status runs (again).
Settled(p) == obj[p].stages[Stage(p)] = "ok"

PassOver(p) ==
    /\ At(p, "stage")
    /\ idx[p] <= Len(Pipeline)
    /\ ~obj[p].abort
    /\ Settled(p)
    /\ idx' = [idx EXCEPT ![p] = @ + 1]
    /\ UNCHANGED <<disk, host, pc, cur, obj, attempt, unflushed, todo, copy, crashes>>

StartStage(p) ==
    /\ At(p, "stage")
    /\ idx[p] <= Len(Pipeline)
    /\ ~obj[p].abort
    /\ ~Settled(p)
    /\ Save(p, Mark(obj[p], Stage(p), "in_progress"))
    /\ Goto(p, "exec")
    /\ UNCHANGED <<index, backlog, host, cur, idx, attempt, todo, copy, crashes>>

FinishOk(p) ==
    /\ At(p, "stage")
    /\ idx[p] > Len(Pipeline)
    /\ Save(p, Ended(obj[p], "ok"))
    /\ Goto(p, "reported")
    /\ UNCHANGED <<index, backlog, host, cur, idx, attempt, todo, copy, crashes>>

\* notify.run_completed / notify.run_failed, not guarded by a try.
Notify(p) ==
    /\ At(p, "reported")
    /\ \/ OutboxFaults /\ Catastrophe(p)
       \/ /\ Goto(p, "end")
          /\ UNCHANGED <<disk, cur, obj, idx, attempt, unflushed, todo, copy>>
    /\ UNCHANGED <<host, crashes>>

-----------------------------------------------------------------------------
(* Stage outcomes: _execute_stage_real around execute_stage *)

MarkOk(p) ==
    /\ Save(p, Mark(obj[p], Stage(p), "ok"))
    /\ idx' = [idx EXCEPT ![p] = @ + 1]
    /\ attempt' = [attempt EXCEPT ![p] = 0]
    /\ Goto(p, "stage")
    /\ UNCHANGED <<index, backlog, cur, todo, copy, crashes>>

\* The stage raised or returned ok=False.
MarkFailed(p) ==
    /\ Save(p, Mark(obj[p], Stage(p), "failed"))
    /\ attempt' = [attempt EXCEPT ![p] = 0]
    /\ Goto(p, "failed")
    /\ UNCHANGED <<index, backlog, cur, idx, todo, copy, crashes>>

\* Containers that answer on the one engine port, host-networked.
Serving == {r \in Runs : container[r] = "serving"}

\* nvidia-smi shows every eval GPU below the idle threshold.
GpusIdle == Serving \subseteq Light

\* DISCOVER .. STAGE_MODEL, PERF_BENCH, SHOWCASE.
PlainStageOk(p) ==
    /\ At(p, "exec")
    /\ Stage(p) \notin {"DEPLOY", "READY_WAIT", "CAPABILITY", "CLEANUP"}
    /\ MarkOk(p)
    /\ UNCHANGED host

\* /v1/models on the engine port lists a model while r's own container has not
\* been seen dead.
ReadyWaitOk(p) ==
    /\ At(p, "exec")
    /\ Stage(p) = "READY_WAIT"
    /\ container[cur[p]] \in {"up", "serving"}
    /\ Serving # {}
    /\ MarkOk(p)
    /\ UNCHANGED host

\* The suite is sent to the engine port; with no answer at all it passes only
\* if the broken-endpoint gate does not see that: it has fewer than four items,
\* or fails with two error signatures (module Scoring has the gate).
CapabilityOk(p) ==
    /\ At(p, "exec")
    /\ Stage(p) = "CAPABILITY"
    /\ \/ \E r \in Serving : capability' = [capability EXCEPT ![cur[p]] = r]
       \/ /\ Serving = {}
          /\ cur[p] \in Ungated
          /\ capability' = [capability EXCEPT ![cur[p]] = None]
    /\ MarkOk(p)
    /\ UNCHANGED container

StageFails(p) ==
    /\ At(p, "exec")
    /\ Stage(p) = "CLEANUP" => DockerFaults
    /\ MarkFailed(p)
    /\ UNCHANGED host

StageSkips(p) ==
    /\ At(p, "exec")
    /\ Stage(p) \in SkippableStages
    /\ Save(p, Mark(obj[p], Stage(p), "skipped"))
    /\ Goto(p, "skipped")
    /\ UNCHANGED <<index, backlog, host, cur, idx, attempt, todo, copy, crashes>>

-----------------------------------------------------------------------------
(* DEPLOY: execute_deploy, its _try_once and its repair loop.  The GPU gate
   is passed once, before the first attempt. *)

MayRespawn_Always(p) == TRUE

\* Strategies are tried once each, in at most max_iterations rounds, then a
\* bounded number of agent proposals: which ones is module DeployRepair, here
\* MaxDeployAttempts stands for how many.
MayRespawn(p) == attempt[p] < MaxDeployAttempts

\* _reuse_or_recreate force-removes the run's own container, then docker is
\* asked for a new one.  The image may be missing, the API may refuse before
\* or after creating it; a container that could not be removed keeps the name.
DeploySpawn(p) ==
    /\ \/ At(p, "exec") /\ Stage(p) = "DEPLOY" /\ GpusIdle
       \/ At(p, "repairing") /\ MayRespawn(p)
    /\ attempt' = [attempt EXCEPT ![p] = @ + 1]
    /\ \/ /\ container' = [container EXCEPT ![cur[p]] = "up"]
          /\ Goto(p, "deploying")
       \/ /\ \/ \E c \in {"none", "exited"} :
                    container' = [container EXCEPT ![cur[p]] = c]
             \/ DockerFaults /\ UNCHANGED container
          /\ Goto(p, "repairing")
    /\ UNCHANGED <<disk, capability, cur, obj, idx, unflushed, todo, copy, crashes>>

\* The container died in the early-crash window, or lists a model but refuses
\* the inference probe: it is removed, a refusal to remove it is swallowed.
DeployAttemptFails(p) ==
    /\ At(p, "deploying")
    /\ \/ container' = [container EXCEPT ![cur[p]] = "none"]
       \/ DockerFaults /\ UNCHANGED container
    /\ Goto(p, "repairing")
    /\ UNCHANGED <<disk, capability, cur, obj, idx, attempt, unflushed, todo, copy,
                   crashes>>

DeployOk(p) ==
    /\ At(p, "deploying")
    /\ container[cur[p]] \in {"up", "serving"}
    /\ MarkOk(p)
    /\ UNCHANGED host

\* No (further) strategy or agent proposal applies.
DeployFails(p) ==
    /\ At(p, "repairing")
    /\ MarkFailed(p)
    /\ UNCHANGED host

-----------------------------------------------------------------------------
(* CLEANUP: execute_cleanup, as the last stage ("exec"), after a failed stage
   ("unwind") and after a graceful skip ("rollback") *)

Cleaning(p) ==
    \/ At(p, "exec") /\ Stage(p) = "CLEANUP"
    \/ At(p, "unwind")
    \/ At(p, "rollback")

\* Where run_pipeline goes on once the best-effort CLEANUP has been recorded.
AfterCleanup(p) == IF pc[p] = "unwind" THEN "unwound" ELSE "end"

Removed_Unchecked(p) == TRUE

\* No container labelled with the run is left: len(failed) == 0.
Removed(p) == container[cur[p]] = "none"

CleanupRemoves(p) ==
    /\ Cleaning(p)
    /\ ~Removed(p)
    /\ container' = [container EXCEPT ![cur[p]] = "none"]
    /\ UNCHANGED <<disk, capability, memory, crashes>>

CleanupOk(p) ==
    /\ Cleaning(p)
    /\ Removed(p)
    /\ IF pc[p] = "exec"
       THEN MarkOk(p)
       ELSE /\ Save(p, Mark(obj[p], "CLEANUP", "ok"))
            /\ Goto(p, AfterCleanup(p))
            /\ UNCHANGED <<index, backlog, cur, idx, attempt, todo, copy, crashes>>
    /\ UNCHANGED host

\* The failure of a best-effort CLEANUP is recorded, then swallowed.
BestEffortCleanupFails(p) ==
    /\ Cleaning(p) /\ pc[p] # "exec"
    /\ DockerFaults
    /\ Save(p, Mark(obj[p], "CLEANUP", "failed"))
    /\ Goto(p, AfterCleanup(p))
    /\ UNCHANGED <<index, backlog, host, cur, idx, attempt, todo, copy, crashes>>

CleanupDue_AfterDeploy(p) == obj[p].stages["DEPLOY"] = "ok" /\ Stage(p) # "CLEANUP"

\* A failed run is cleaned up, unless CLEANUP is what failed or is already ok.
CleanupDue(p) == Stage(p) # "CLEANUP" /\ obj[p].stages["CLEANUP"] # "ok"

Unwind(p) ==
    /\ At(p, "failed")
    /\ CleanupDue(p)
    /\ Save(p, Mark(obj[p], "CLEANUP", "in_progress"))
    /\ Goto(p, "unwind")
    /\ UNCHANGED <<index, backlog, host, cur, idx, attempt, todo, copy, crashes>>

RecordFailure(p) ==
    /\ \/ At(p, "unwound")
       \/ At(p, "failed") /\ ~CleanupDue(p)
    /\ Save(p, Ended(obj[p], "failed"))
    /\ Goto(p, "reported")
    /\ UNCHANGED <<index, backlog, host, cur, idx, attempt, todo, copy, crashes>>

\* The GracefulSkip handler: ABORTED is saved first, CLEANUP comes after it.
RecordSkip(p) ==
    /\ At(p, "skipped")
    /\ Save(p, Ended(obj[p], "aborted"))
    /\ Goto(p, "aborted")
    /\ UNCHANGED <<index, backlog, host, cur, idx, attempt, todo, copy, crashes>>

Rollback(p) ==
    /\ At(p, "aborted")
    /\ IF obj[p].stages["CLEANUP"] \notin {"ok", "skipped"}
       THEN /\ Save(p, Mark(obj[p], "CLEANUP", "in_progress"))
            /\ Goto(p, "rollback")
            /\ UNCHANGED <<index, backlog>>
       ELSE /\ Goto(p, "end")
            /\ UNCHANGED <<disk, obj, unflushed>>
    /\ UNCHANGED <<host, cur, idx, attempt, todo, copy, crashes>>

-----------------------------------------------------------------------------
(* The engines in the containers *)

\* The engine has loaded its model and binds the one engine port.
ContainerReady(r) ==
    /\ container[r] = "up"
    /\ Serving = {}
    /\ container' = [container EXCEPT ![r] = "serving"]
    /\ UNCHANGED <<disk, capability, memory, crashes>>

ContainerDies(r) ==
    /\ container[r] \in {"up", "serving"}
    /\ container' = [container EXCEPT ![r] = "exited"]
    /\ UNCHANGED <<disk, capability, memory, crashes>>

-----------------------------------------------------------------------------
(* The specification *)

Init ==
    /\ state = [r \in Runs |-> NoFile]
    /\ index = [r \in Runs |-> "absent"]
    /\ backlog = Runs
    /\ container = [r \in Runs |-> "none"]
    /\ capability = [r \in Runs |-> None]
    /\ pc = [p \in Procs |-> "down"]
    /\ cur = [p \in Procs |-> None]
    /\ obj = [p \in Procs |-> FreshRun]
    /\ idx = [p \in Procs |-> 1]
    /\ attempt = [p \in Procs |-> 0]
    /\ unflushed = [p \in Procs |-> FALSE]
    /\ todo = [p \in Procs |-> {}]
    /\ copy = [p \in Procs |-> [r \in Runs |-> NoFile]]
    /\ crashes = 0

\* run_pipeline for the run p has taken or loaded.
RunPipeline(p) ==
    \/ Begin(p) \/ Announce(p)
    \/ AbortByFlag(p) \/ PassOver(p) \/ StartStage(p) \/ FinishOk(p) \/ Notify(p)
    \/ PlainStageOk(p) \/ ReadyWaitOk(p) \/ CapabilityOk(p)
    \/ StageFails(p) \/ StageSkips(p)
    \/ DeploySpawn(p) \/ DeployAttemptFails(p) \/ DeployOk(p) \/ DeployFails(p)
    \/ CleanupRemoves(p) \/ CleanupOk(p) \/ BestEffortCleanupFails(p)
    \/ Unwind(p) \/ RecordFailure(p) \/ RecordSkip(p) \/ Rollback(p)

ProcessStep(p) ==
    \/ FlushIndex(p) \/ Pop(p) \/ Register(p) \/ RunPipeline(p) \/ Return(p)

LoopStep ==
    \/ StartLoop \/ SweepLoad \/ SweepSave \/ SweepDone \/ IdlePoll
    \/ ProcessStep(Loop)

OperatorStep(o) ==
    \/ StartResume(o) \/ ResumeNext(o) \/ ResumeDone(o)
    \/ ProcessStep(o)

Environment ==
    \/ \E r \in Runs : ContainerReady(r) \/ ContainerDies(r) \/ EditAbortFlag(r)
    \/ \E p \in Procs : Crash(p)

Next == LoopStep \/ (\E o \in Operators : OperatorStep(o)) \/ Environment

Spec == Init /\ [][Next]_vars

\* systemd restarts the service (Restart=on-failure), and every stage of a run
\* ends: each has a timeout, and the repair loop is bounded.
FairSpec == Spec /\ WF_vars(LoopStep)

-----------------------------------------------------------------------------
(* Properties *)

RunObject == [status : RunStatus \cup {"absent"}, abort : BOOLEAN,
              stages : [StageName -> StageStatus]]

Location == {"down", "sweep", "swept", "idle", "popped", "registered", "announce",
             "stage", "exec", "deploying", "repairing", "failed", "unwind",
             "unwound", "skipped", "aborted", "rollback", "reported", "end",
             "resume"}

\* Types, and the bound on the deploy attempts of one DEPLOY stage: the repair
\* loop of execute_deploy never restarts a container more often than that.
TypeOK ==
    /\ state \in [Runs -> RunObject]
    /\ index \in [Runs -> RunStatus \cup {"absent"}]
    /\ backlog \subseteq Runs
    /\ container \in [Runs -> {"none", "up", "serving", "exited"}]
    /\ capability \in [Runs -> Runs \cup {None}]
    /\ pc \in [Procs -> Location]
    /\ cur \in [Procs -> Runs \cup {None}]
    /\ obj \in [Procs -> RunObject]
    /\ idx \in [Procs -> 1..(Len(Pipeline) + 1)]
    /\ attempt \in [Procs -> 0..MaxDeployAttempts]
    /\ unflushed \in [Procs -> BOOLEAN]
    /\ todo \in [Procs -> SUBSET Runs]
    /\ copy \in [Procs -> [Runs -> RunObject]]
    /\ crashes \in 0..MaxCrashes

Executing(r) == \E p \in Procs : cur[p] = r

Ran(r) == state[r].status \in Terminal /\ ~Executing(r)

Lifecycle == INSTANCE RunLifecycle WITH status <- index

\* The rows of runs.sqlite, written by two-step saves, crashes, the sweep and
\* the catastrophic handler of cmd_loop, show their readers a run lifecycle.
ImplementsLifecycle == Lifecycle!Spec

\* Once the sweep of cmd_loop is over, row and state.json agree on every run
\* nobody executes, up to the two windows save_run leaves to a crash before the
\* run's first rows: those rows are never repaired, but no later row is wrong.
IndexMatchesState ==
    pc[Loop] \notin {"down", "sweep", "swept"} =>
        \A r \in Runs :
            \/ Executing(r)
            \/ index[r] = state[r].status
            \/ index[r] = "pending" /\ state[r].status = "in_progress"
            \/ index[r] = "absent" /\ state[r].status = "pending"

\* A run whose state.json says OK went through every stage of the pipeline, and
\* has left no container behind, whatever attempts, repairs and crashes it took.
OkLeavesNothing ==
    \A r \in Runs :
        state[r].status = "ok" =>
            /\ \A i \in 1..Len(Pipeline) : state[r].stages[Pipeline[i]] = "ok"
            /\ container[r] = "none"

\* A row that says in_progress does not stay that way: the pipeline ends, or the
\* process dies and the sweep of its successor ends the run.
EveryRunEnds ==
    \A r \in Runs : index[r] = "in_progress" ~> index[r] \in Terminal

\* Without crashes, a run that is over leaves a container on the docker host
\* only if its own CLEANUP recorded that it could not remove it.
LeakOnlyIfCleanupFailed ==
    \A r \in Runs :
        Ran(r) /\ container[r] # "none" => state[r].stages["CLEANUP"] = "failed"

\* Without crashes, a capability score is measured on another run's model only
\* if that other run's CLEANUP recorded a failure.
ForeignOnlyAfterLeak ==
    \A r, q \in Runs :
        capability[r] = q /\ q # r => state[q].stages["CLEANUP"] = "failed"

\* "DEPLOY result is preserved" (state_machine.py): no resume, retry, crash or
\* sweep takes a stage back that state.json says is OK, DEPLOY and what comes
\* after it above all.  A run-level stage may be taken back by the restart of a
\* run whose run-level stages failed, which is what the documentation announces.
StageOkStays ==
    [][\A r \in Runs, s \in StageName :
          state[r].stages[s] = "ok" =>
              \/ state'[r].stages[s] = "ok"
              \/ s \in RUN_LEVEL_STAGES /\ needs_full_restart(state[r])]_state

\* The checkpoints form a prefix of the pipeline (CLEANUP apart, which also runs
\* after failures): a resumed run never has a stage OK behind one that is not.
StagesInOrder ==
    \A r \in Runs : \A i, j \in 1..(Len(Pipeline) - 1) :
        i < j /\ state[r].stages[Pipeline[j]] = "ok" =>
            state[r].stages[Pipeline[i]] = "ok"

\* However often a run was killed, resumed and restarted, OK means every stage.
OkMeansEveryStageOk ==
    \A r \in Runs :
        state[r].status = "ok" =>
            \A i \in 1..Len(Pipeline) : state[r].stages[Pipeline[i]] = "ok"

\* state_machine.py: "CLEANUP is idempotent and always runs (best-effort) on
\* terminal transitions".  A run that is over and still has its container has at
\* least tried.
CleanupRunsOnTerminal ==
    \A r \in Runs :
        Ran(r) /\ container[r] # "none" => state[r].stages["CLEANUP"] # "pending"

\* state_machine.py: a process "can crash and recover by scanning state.json
\* files": a run in the index as pending is eventually run.
PendingEventuallyRuns ==
    \A r \in Runs : index[r] = "pending" ~> index[r] \in Terminal

\* main.py on the sweep: what is in_progress at startup "cannot be making
\* progress, because the orchestrator is the only writer".
SweptRunsAreDead ==
    pc[Loop] = "swept" => \A o \in Operators : cur[o] # cur[Loop]

\* store.py: state.json is the "truth", the index is for queries.  A run that
\* state.json says is OK stays that.
OkIsFinal ==
    [][\A r \in Runs : state[r].status = "ok" => state'[r].status = "ok"]_state

=============================================================================
