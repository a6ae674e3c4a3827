# heyi-eval-v10: verification project

TLA+ models of the orchestrator of heyi-eval-v10, the TLC runs that check them,
and the theorems TLAPS proves about them. All paths are relative to the
repository (`src/...`); line numbers are in `PROJECT.json` under `map`.

    tlc -workers 2 -config MCRunPipeline_crash.cfg MCRunPipeline
    tlc -workers 2 -config MCStages.cfg MCStages
    tlc -workers 2 -config MCServices.cfg MCServices
    tlapm RunCheckpointProofs.tla        # and the other *Proofs modules

## 1. The system

The orchestrator takes models (hf ids) from a queue and evaluates each one in a
*run*: eleven stages, from looking the model up to removing the docker
container that served it. State is kept in files, an SQLite index, and docker
containers that outlive the process that started them.

| Component | State it keeps | Operations | What makes it correct |
|---|---|---|---|
| Run pipeline: `orchestrator/main.py`, `state_machine.py`, `store.py` | `runs/<id>/state.json`, row in `runs.sqlite`, Run object in memory | `run_pipeline`, `save_run`, sweep, `loop`, `run`, `resume` | a run has one life; OK means every stage; row and file agree; no row stays in_progress |
| Container stages: `stages_py.py` | docker containers labelled with the run, the one engine port, GPU memory | DEPLOY with repair loop, READY_WAIT, CLEANUP | no container outlives its run; a run is measured on its own engine; the repair loop ends |
| Job queue: `enqueue`, `pop_one` in `main.py` | `queue.jsonl` | enqueue with dedup and recency tests, pop by the service and by `run` | no job twice, none lost, in order, one active job per model |
| Curation: CURATE in `stages.py`, `curator/`, `heyi_engine/client.py` | `curated/<hf_id>.json` and its one temporary file | look up, ask an engine, write and rename; `curator enrich`, `curator batch` | a card is whole, and a good one stays |
| Planning: METADATA and ENGINE_SELECT in `stages.py` | `_meta/metadata.json`, `_meta/engine.json` | merge, pick engine and shards, estimate size and files | the gates that read one size or one list of files agree |
| Model cache: `model_stager.py`, `cache_evictor.py`, `tools/evict_eval_cache.py` | directories of weights, download threads | stage, time out, verify, clean up, enforce the quota, evict by hand | nothing in use is evicted; what is staged is the whole model |
| Deploy repair: `deploy_repair.py`, `cc_agent/deploy_repair_agent.py` | the plan and image of the last attempt, strategies seen | classify, propose, try, ask an agent | no configuration twice, the agent changes something |
| Measuring: `capability.py`, `llm_judge.py`, `perf_bench.py`, `cc_agent/showcase_runner.py` | artifacts; threads of the burst | choose categories, request, score, gate, report; TTFT, burst; plan, evaluate, grade | reports say when they are short; a dead engine is not a pass |
| Agent lanes and driver: `project_lane.py`, `skill_lane.py`, `agent_driver/` | rows of two SQLite files, the lease of one container, agents in it, a watchdog thread | enqueue, drain, gate, lease, stream, kill, recycle | every row ends; DONE means that the agent is gone |
| Agent unit: `agent_runner.py`, `agent_audit*.py`, `deploy/agent-sandbox/` | spec.json, the systemd unit, outbox, audit rows | write the spec, start, wait, harvest, summarise | an ok result is of its own payload and spec |
| Discovery: `discover/tracker.py`, `main.py` | `candidates.jsonl`, `cursor.json` | curated, backfill and incremental scans, `--reset` | no model is missed silently |
| Backup: `backup/` | snapshot directories, `latest`, `last_backup.txt` | copy, publish, prune | a whole snapshot survives; "ok" means a fresh one |
| Notify, validators, panel, transformers runner, other feeds of discovery | artifacts, outbox lines | I/O and pure functions | |

**Interaction.** A systemd timer runs `discover enqueue` every fifteen minutes;
operators type `enqueue`. Both append to `queue.jsonl`. The service
(`orchestrator loop`) pops a line, registers a run (state.json, then row) and
calls `run_pipeline`, which saves the run after every transition. A restart of
the service first sweeps the rows that say in_progress. `run` and `resume` do
the same work from a shell. The panel and the dedup read the rows. Inside a
run the stages hand files to each other (the card, `metadata.json`,
`engine.json`, the staged directory, `deploy.json`, the reports); the card and
the directory outlive the run and are shared with other processes. The lanes,
the agent unit, discovery and the backup are services of their own, each
started by its timer or unit.

**What is hard.** The queue file has no lock and is rewritten by its readers;
`save_run` is two writes; containers survive crashes; every stage has several
ways to fail and three different places run CLEANUP; a resumed run mixes old
checkpoints with a new execution; all engines share one port. A download thread
cannot be stopped and an evictor deletes, file by file, what it classified
earlier; the cards have several writers and no lock; a watchdog thread kills by
pattern in a container two lanes share; a systemd unit may still be active from
the call before, and its state may be unreadable; discovery writes two files, a
pass may stop in any page, and the hub changes under it; the newest snapshot may
be incomplete. `PROJECT.json` lists each hazard at its line.

## 2. The modules

**RunPipeline** models `run_pipeline` for any set of runs, executed by the
service (`Loop`) and by operators' commands (`Operators`).

| In the model | In the code |
|---|---|
| `state[r]`, `index[r]`, `backlog` | state.json, the status column, lines still queued |
| `container[r]`, `capability[r]` | the run's e9-* container (none, up, serving, exited); whose container answered its suite |
| `pc`, `cur`, `obj`, `idx`, `attempt`, `todo`, `copy` | memory of a process: its place, its run and Run object, the stage loop, deploy attempts, the rows to sweep or resume |
| `unflushed[p]` | between the two halves of `save_run`: `Save` replaces state.json, `FlushIndex` upserts the row; nothing else of p happens in between, but p can die there |
| `Crash(p)` | SIGKILL, OOM, restart, KeyboardInterrupt: memory gone, disk and containers kept |
| `Catastrophe(p)` | an exception leaves `run_pipeline` (an outbox append that raises): the service records FAILED, a command dies |
| `Cleaning` with `CleanupRemoves`, `CleanupOk`, `BestEffortCleanupFails` | `execute_cleanup`, called as the last stage, after a failed stage and after a graceful skip |
| `DeploySpawn`, `DeployAttemptFails`, `DeployOk`, `DeployFails` | `execute_deploy`: the GPU gate (passed once), each attempt, removal of a failed one, the outcome |
| `ContainerReady`, `ContainerDies` | the engine in the container (external); the one port is bound by at most one engine |

Left out: the contents of artifacts and notifications, the pre-flight gate and
heartbeat (they only delay `Pop`), the daily counters, failures of SQLite or of
the disk inside `save_run`, and the `limit=200` of the sweep's query.
`StageStatus.TIMED_OUT` is passed by no caller and is left out.

**RunLifecycle** is the abstract specification the index promises its readers:
a row appears as pending, is in_progress once and alone, ends once.
`RunPipeline!ImplementsLifecycle` is its `Spec` under `status <- index`.

**JobQueue** models `enqueue` as its reads (queue, index, recency) and its
append, and `pop_one` as read, truncation, and write, for the service (`Loop`)
and for `run` commands (`Hands`, each typed once: a bound). `PopWrite` writes the
rest at offset 0 over whatever was appended meanwhile: the text below it is
overwritten, of the line where it ends a fragment (`Garbled`) may stay, and later
lines are whole (lines may have any width, so `Overwritten` is a set). History
variables: `exposed`, the jobs appended during a pop, or held by a consumer that
died before their row said in_progress (a `run`'s also later, since nobody
restarts it); `clashed`, those in the file or in a pop when a second pop began.
The 30-day and the 12-hour window may begin at any row (`Recent`). Of a run the
saves remain: pending, in_progress at each stage, its end; "failed" stands for
aborted too, which the dedup treats alike. `resume` is RunPipeline's.

**ModelCache**: processes that stage one model at a time (`Executors`, also two of
one model: `resume` and a swept run get past the dedup) and the eviction command
(`Tool`). A repository is `Shards` files, each written as a ledger entry and
renamed; `Weighs` are those `_has_weight_file` counts, by suffix down to the third
level or by name. `GiveUpDownload` may leave a *zombie*, the thread that goes on
writing (`ZombieStep`), and `_cleanup_partial` removes what is there. A removal is
one `RemoveFile` per file and `RemoveAll`, and may stop after any of them. An
evictor classifies all directories and then removes them one by one (`EvictNext`);
`unseen` remembers the runs it did not know of: those that began afterwards, and
those that were `swept` then. `_sweep_orphan_in_progress` ends every row in
progress: that of a process that was killed (`stuck`), and that of a live one,
which says in_progress again at its next save (`SaveRun`). Sizes are counted in
directories.

**Curation**: curators of one model. `write_curated` is open (which empties the
file), write, rename, all on the one temporary file. A handle follows its file
through the rename of another writer, as on POSIX. The content of a card is
good, degraded (the engine failed), empty, or mixed (of two writers). `engine_up`
changes at any time.

**ModelPlan** and **DeployRepair** are decisions: every repository of a set
through METADATA, ENGINE_SELECT and the stager's reading of the same record;
every failure class at every attempt through the strategies and the agent.
Sizes are `[n, unit]` in the order they are written. A file has a kind and lies
above or below the depth to which the stager looks (`deep`). `tries` is the history of
attempts; `Started` is what a plan starts, which for transformers is the same
whatever its arguments.

**Scoring**: CAPABILITY, PERF_BENCH and SHOWCASE of one run. The model under
test answers each request in any way its endpoint can; `tally` counts items and
error signatures, `item_scorers` are the registry's and those the data files put in
their place, `expired` is the deadline, `burst.flying` the concurrent
requests without an answer.

**AgentLanes**: two lanes over one container. `lpc`, `todo`, `cur`, `lease` are
a drain process; `watchdog`, `box` its thread; `late` the killers that outlive
their run; `agents` the processes in the container. JUDGE is passed through at
once, and is part of `StoreResult`.

**Discover**: two passes with a cursor each in memory, one model per page. A model
that is published or updated (`Publish`, `Update`) becomes the newest of the hub,
in front of what a pass that has begun to read will still be given: `missed` of
the pass. A curated pass does not ask whether a model is private or gated, the
other modes do (`Gated`, `OffModality`). `torn` is a last line without its end.
`dropped`, `swallowed`, `purged` are history: the ways a model can be lost that the
code has.

**AgentUnit**: one run id. An *activation* is a start of the unit. `ran`,
`exits`, `audit` and `outbox` are kept by activation, so that a result can be
compared with what it quotes. The script reads the spec twice (`ReadMode`,
`ReadCommand`) while a call may write it (`open_spec` empties it); a spec it cannot
read makes it run its built-in probe (`probed`). `Wait` and `Status` are two
`systemctl show`: one that fails prints nothing, which `Wait` takes for the end of
the unit (`blind`).

**Backup**: time in ticks; a snapshot is `[ts, mtime, data, meta]`: copied to the
end, and with its `backup_meta.json`.

**MCRunPipeline**, **MCJobQueue** instantiate the first three modules.
**MCStages** holds ModelCache, Curation, ModelPlan, DeployRepair, Scoring,
**MCServices** AgentLanes, Discover, AgentUnit, Backup. These components share
no variable: in the code they meet in files that one has finished before the
next begins (the order of stages is RunPipeline's), or not at all. So a
behaviour of MCStages or MCServices moves one of them, chosen at the start by
`focus`; interleaving them would multiply the states and show nothing.
**MCPerf** is Scoring with three TTFT samples.

The theorems are in eight modules. Of RunPipeline: **RunPipelineProofs** (types),
**RunOutcomeProofs** (what OK means), **RunIndexProofs** (rows, files and the
refinement), **RunLeakProofs** (containers), **RunCheckpointProofs** (stages
under resume). Of the rest: **JobQueueProofs**, **StagesProofs** (the modules of
MCStages) and **ServicesProofs** (those of MCServices).

## 3. The runs

| Run | Question | Result |
|---|---|---|
| `pipeline_crash` | Two runs, up to two crashes of the service at any step, two deploy attempts, five stages (one of each kind the model distinguishes): types; row = file after the sweep; OK leaves nothing; the rows refine RunLifecycle; every in_progress row ends | holds |
| `pipeline_faults` | Two runs, all eleven stages, three deploy attempts, a docker daemon and an outbox that may refuse, no crash: who can leak a container, and whose model answers the suite | holds |
| `pipeline_resume` | One run, all stages, three crashes, `resume` and `run` in a shell (not beside the service), docker and outbox faults, abort flag set by hand: checkpoints form a prefix, none is lost but by the announced restart of the run-level stages, OK means all (109,124 states) | holds |
| `queue_races` | Two models, a timer, the service and one `run` beside it, three jobs, one crash of a consumer: each job popped once and in order, but for overlapping pops; rows in progress; explained losses; progress (1,042,540 states) | holds |
| `pipeline_leak` | `state_machine.py:13`: CLEANUP "always runs (best-effort) on terminal transitions" | violated: the sweep ends orphans without it |
| `pipeline_pending` | `state_machine.py:15-16`: crash and recover by scanning state.json | violated: a crash before IN_PROGRESS leaves the run pending for ever |
| `pipeline_overlap` | `main.py:585-587`: a swept run cannot be making progress | violated when `run` or `resume` works beside the service |
| `pipeline_truth` | `store.py:81`: state.json is the truth | violated: a crash inside the `save_run` of an OK run makes the sweep write ABORTED over it |
| `queue_dedup` | `heyi-eval-enqueue.timer:11-12`: dedup prevents double runs | violated: a popped model has neither line nor row |
| `stages` | see below (1,638,872 states) | holds |
| `services` | see below (590,729 states) | holds |
| `perf_percentile` | `panel/server.py:2925` shows "TTFT (p95)" beside the median | violated: the samples are not sorted |

`stages` asks, of what each stage leaves to the next:
- *InUseTakenOnlyByStalePlan*, *StagedIsCompleteOrExplained*: weights vanish
  under a run only by an evictor that classified before the run began or while a
  restart of the loop had declared it aborted, or by the clean-up of a failed
  download into the same directory; an incomplete model is staged only in a
  directory of two models of one name, beside another download, or where a
  download or a removal was cut short. The exceptions are in the code: the
  classify-then-delete loop, `force_all`, the basename, the abandoned thread, and
  `_has_weight_file`, to which any one file of weights is enough.
- *TornOnlyByTwoWriters*, *GoodCardLostOnlyByRaceOrRefresh*: a death never tears
  a card, two writers may; a good card is lost to a slow curator with a failing
  engine. A torn card is never mended: a stage enriches afresh without writing,
  the batch skips a file that exists.
- *LargeModelsAreGated*, *GateAgreesWithStager*: two readings of one size and of
  one list of files agree but for the kinds the property names: a manifest without
  weights, `.ckpt` with a tokenizer, files below the third level of directories,
  GGUF without the one quantisation that is fetched.
- *NoConfigTwice*, *AgentChangesSomething*: the repair chain starts a container
  again only when it began on transformers and comes back to it by way of vllm or
  sglang; the agent only when the engine is transformers and it proposes arguments,
  which that engine's command does not take.
- *ShortReportSaysSo*, *SinglePurposeIsMeasured*, *SilentEngineIsCaught*,
  *StragglersAreWarned*: a report, the category of a model's one purpose, the
  gate of a dead endpoint and the warning of the burst. The gate misses an engine whose silence shows as
  two signatures of similar weight: the property says so.

`services` asks:
- *StrandedOnlyByCrash*, *DoneMeansAgentGone*, *EveryRunEnds* of the lanes. A run
  whose process died is never taken up again; a run that ended by its budget
  between two chunks leaves its agent running; a lane is blocked for ever when
  the one kill of the watchdog is lost.
- *SeenHasRow*, *NothingMissedSilently* of discovery. What breaks them is listed:
  a line continued after a crash, a `--reset` cut short or beside another pass,
  a scan that failed in a later page, a model published or updated during a scan
  (its `last_run_ts` is the end of the scan, and the listing is newest first).
- *OkMeansRan*, *OkIsForThisSpec*, *OkQuotesItself* of the agent unit. The
  exceptions: a `systemctl show` that failed while the call waited (all three), a
  call that joins a unit still active from a timed-out call, the built-in probe
  (the spec), a refused end row or a failed harvest (what is quoted).
- *HealthIsHonest*, *RestorePointKept* of the backup. Retention keeps the newest
  directory; when that is one a crash left incomplete, the last whole snapshot
  can be removed.

**Exceptions are behaviour.** Where a property says "unless", the exception is
what the code does, and the run would fail without it: a row whose process died in
the middle (`project_lane.py:731`), a paginator that fails or is overtaken
(`tracker.py:668`, `:722`), a row behind a torn line (`tracker.py:734`), a newest
snapshot that is incomplete (`retention.py:58`), an unreadable unit or spec. These
hazards are admitted, not excluded; what such a property shows is that no
interleaving adds another. The outbox append after OK (`main.py:399`) is covered by
no run: the service then rewrites an OK run to FAILED, and `pipeline_truth` leaves
outbox failures out so that its trace is the crash.

Differences between text and code seen here and not made a run of their own:
- `main.py:252-253` says that a restart "reset[s] all run-level stages back to
  PENDING", and `state_machine.py:9` to restart "the whole run from DISCOVER on
  retry"; the code (`main.py:275-277`) visits four of them and resets only those
  that are not OK, so a retry goes on at the first stage that is not done. Either
  is compatible with *StageOkStays*, which exempts the announced restart.
- `agent_runner.py:142-143` has a result ok "iff systemd terminated with status=0";
  `_systemctl_show` (188-202) never looks at its exit code, and 224-226 take no
  output for a unit that has ended. With an `ExecMainStatus` of an earlier
  activation and its audit row, a unit that still runs is reported ok.
- `cc_agent/deploy_repair_agent.py:37-38` refuses a proposal that changes nothing;
  its no-op test (291-306) takes new `vllm_args` for a change also under
  transformers, whose command ignores them (`stages_py.py:567-569`).
- `validator.py:123` wants non-empty results of a CAPABILITY that is ok, a suite
  whose deadline has passed is ok with none.
- `snapshot.py:219` speaks of the previous successful snapshot and takes the newest
  directory.
- `config.py:41` names zhipu as the default provider, line 35 sets yunwu.

The watchdog's `pkill -f` runs in the container both lanes use
(`exec_runner.py:465`): it ends the other lane's agent too, which `WatchdogKills` has.

**Bounds and why they suffice.** Runs meet only through the port, the GPUs and
the slot of the consumer, so two runs show every interaction; two crashes let
the sweep itself die and be repeated, three let a resumed run be killed and
resumed again. Deploy attempts: one ordinary and one or two repairs; the
repair loop has no state but the attempt number. Three jobs let the queue hold
a rest while one is popped and one is appended. `MaxCrashes`,
`MaxDeployAttempts`, `MaxJobs` and the one `run` typed are the only bounds; only the
second is in the code: strategies are tried once each and agent proposals are
limited, which DeployRepair has in detail and RunPipeline as a number
(`MayRespawn`). `Light` and `Ungated` choose one run below the GPU idle threshold
and one whose suite gets past the gate for a broken endpoint though nobody answered
(fewer than four items, or two signatures: Scoring has the gate itself), so both
sides of these gates occur. In `queue_races` one enqueuer is enough for every race
with a pop; two enqueuers only append, and the theorems are for any number.
Symmetry is not used: the runs differ.

In `stages`: four models in two directories (two organisations' models of each
name, one oversize, one without a size), two executors, one of them the service
that sweeps, and the command; two shards, of which for two models only one
counts as weights; two stagings, one abandonment or kill: a download can be
joined, a directory shared, a plan overtaken. The quota is zero, so that every
staging evicts. Three cards looked for by three curators give every pair of
writers. `MCRepos` holds every set of nine kinds of file near the top, every set
of eight kinds near the top and further down, every way a tag, modality and
library name an engine, and every way a size is written. `MCProfiles` has models
with a scorer, without one, of one purpose and of none. Two items a category
make suites of two items up to more than eight, so the gates of four items and
of four fifths are met and missed; two concurrent requests, two showcase items.
`StartLens` holds "not given", the floor, and a length that can be halved.

In `services`: three runs, two of one project and one of a skill; drains of two
so that a row waits; a recycle after one lease; one fault of the lanes. Two
models on the hub, one of them gated, two ticks of its clock, two passes, one page
for an incremental pass and three for a backfill; one fault: the first pass
completes the cursor, the second is overtaken or looks behind it. Models of an
unwanted modality never reach a cursor and would only widen the hub; the theorem
has them. Two calls of the unit with two faults, so that the second meets what the
first has left. Five ticks of backups that are healthy for one and kept for
two, with two faults: a failed pass, and a crash whose directory is the newest.

**Deadlock** is checked in the pipeline runs. In the queue runs the system
stops once `MaxJobs` jobs are accepted and run (a bound), so it is not; in
`stages` and `services` likewise (a run is planned, scored or repaired once,
and calls and ticks are bounded).

**Fairness.** `WF_vars(LoopStep)` and `WF_vars(Consume)`: the service keeps
stepping. systemd restarts it (`Restart=on-failure`), each stage has a timeout,
each poll loop a budget, the repair loop a bound, and the sleep of an idle loop
ends. Nothing is assumed of operators, timers, engines or of crashes, except
that crashes are finitely many (`MaxCrashes`). The pre-flight gate can hold the
intake of jobs back for as long as the engine is unhealthy: `EveryJobRuns`
is a statement about times when it is not, `EveryRunEnds` does not depend on
it. In `services`, `WF_vars` of each lane's process and of its watchdog thread:
the timer starts a drain while rows are pending, the process goes on by itself,
and a thread that sleeps wakes up. Nothing is assumed of the agent, which may be
silent for ever: a chunk that ends the loop is not among the fair steps.

## 4. The proofs

Every invariant and action property of the passing runs is a theorem, and so is
the refinement of RunLifecycle, for every number of runs, models, processes,
attempts, crashes and faults; only the liveness properties are not.
`PROJECT.json` lists the theorem of each property. Besides the assumptions the
modules state of their constants, a theorem has only the hypotheses named below.
Each inductive invariant was an invariant of a TLC run on the bounds of section
3 before it was proved; the distinct states are given. A proof has one lemma for
each action (or a few that move the same process), and a theorem only combines
*Init*, *Step* and "the invariant gives the property".

**The pipeline.** `TypeOK` is not inductive: an index beyond the pipeline or a
missing `cur` would break the next step. `TInv` adds `Placed`: a process at a
location of `run_pipeline` has a run, one inside a stage has an index within
the pipeline, and attempts are counted only inside DEPLOY.

| Theorem | Hypotheses | Invariant, and what it adds |
|---|---|---|
| `TypeCorrect` | none | `TInv` |
| `OkRunsLeaveNothing` | `Operators = {}` | `OInv`: `Owned` (the Run object in memory is the state.json), `Open` (it says OK only once the end was saved), `Prefix`, `CleanupLast` (behind an OK CLEANUP there is no container) (85,478 states) |
| `RowsMatchFiles`, `RowsImplementLifecycle` | `Operators = {}`; `OutboxFaults => MaxCrashes = 0`, and for the refinement `OutboxFaults = FALSE` | `XInv`: what the row says at each place of the service, before and after the flush of a save; which rows the sweep has still to end (85,478 states) |
| `LeaksAreRecorded`, `ForeignScoresAreLeaks` | `Operators = {}`, `MaxCrashes = 0` | `LInv`: on each way out of the stages CLEANUP is still to be tried, has removed the container, or has failed; any other run with a container, and any that answered for another, is over and its CLEANUP says failed (48,643) |
| `CheckpointsInOrder`, `OkIsEarned`, `CheckpointsStay` | `TakingTurns` | `CInv`: one process at a time; the checkpoints of state.json and of every copy in memory are a prefix, and copies have those of the file (`InStep`); a process is behind checkpoints only and never executes one again (`Walk`) (109,124) |

Why the hypotheses are needed: a resumed run may find CLEANUP already OK from
its failed attempt and skip it, after a DEPLOY that it did repeat (`Operators`).
An outbox that raises turns a reported OK into FAILED, which no lifecycle
allows, and a crash between the halves of that save is never repaired, since the
sweep looks at rows that say in_progress. The sweep does not clean up, so a
crash can leak (`pipeline_leak`). `TakingTurns` (one shell, and no command
beside the service) is what the comment at `main.py:585-587` takes for granted:
two processes work on two copies of one run, and the second to save takes back
the checkpoints the first has saved. `CheckpointsStay` has no other exception
than the restart `main.py:252-253` announces, which may take back the run-level
stages of a run in which one has failed.

**JobQueueProofs** (`QueueTypeCorrect`, `PoppedOnce`, `SlotIsHeld`,
`FirstInFirstOut`, `NoOtherLoss`; no hypotheses; 1,042,540 states) is for any
number of enqueuers, jobs, crashes and of consumers: the service and every `run`
beside it call `pop_one` on one file without a lock. When a second pop reads
while another has not finished, the jobs in the file and in the pops under way
are put into `clashed`; that a job runs once, in its turn, and is not lost, is
claimed of the others only. `JInv` has four parts besides the types. *Order*:
what has been popped, the lines a pop has read and the file ascend, and in this
order, apart from fragments and the clashed. *Clash*: two pops that overlap have
read clashed jobs only. *Slot*: a consumer holds lines exactly while it pops,
and the row in progress is its own or waits for the sweep. *Loss*: what a pop is
about to overwrite without having read it is exposed or clashed.

**StagesProofs** (1,638,872 states for its five invariants together).
*Curation*: until two have written at a time, one curator at most is between its
open and its rename, and the temporary file holds what that one has put there.
*Planning*: METADATA wrote one of its two readings of the repository, and a plan
has the parallelism of that reading and fits the pool. Files have a name the
stager counts or not, and a depth its scan reaches or not. `ManyGpusMeanASize`
has the hypothesis `PoolSize < 4`: the code's default pool has three GPUs
(`config.py:278-283`); with four, a size only written "1T" is neither oversize
nor read by the stager's gate. *Repair*: each strategy leaves a mark of its own
on the plan or the image (`Marked`), no attempt bears the mark of a strategy not
yet seen, but for the engine the deploy began with, and a proposal bears that of
its own and of no other unseen strategy; so what a proposal starts, no attempt
before it has started. An attempt is compared by what is started (`Started`):
the arguments of vLLM are not part of it under transformers, and there an agent
that changes only these is the exception of `AgentChangesSomething`, as in the
code. *Measuring*: the categories still queued are missing in the report, and of
the others one is missing or cut exactly when the report says so; a silent
engine has passed nothing, and its items are all in two error counts, so one
count alone is more than four fifths. *Cache*: whoever runs in a directory an
evictor has planned was not in the rows it read (`unseen`): it came later, or a
sweep had ended its row while it lived on; where no download or removal was cut
short or met another, a model nobody downloads is there as a whole or not at
all, and a download has written the shards before its own (`Settled`).

**ServicesProofs** (590,729 states for its five invariants together). *Lanes*: a
busy process works on a run of its own lane whose row says how far, some process
works on every row under way that was not abandoned, and a result that is to be
stored as done has no agent. *Agent unit*: an exit code 0 has evidence (the
outbox and an end row, or its refusal) and is that of the call's own spec or of
the probe that runs when the spec cannot be read; a call that has seen the unit
stop is about the last activation, and one that took a failed `systemctl show`
for it (`blind`) is the exception the three theorems name. *Backup*: directories
have names of their own, that of the pass at work is the newest, and the
snapshot `last_backup.txt` names is whole and there, or older than what is kept.
*Discovery*: what a cursor knows has a row, will get one from its own pass, or
is accounted for (`DiscoverInv`); a paginated pass has read the newest first, so
that what it has not noticed when it stops is older than its cutoff, which an
earlier complete cursor answers for (`MissInv`). A model that is published or
updated while a pass reads moves to the front, behind the reader: `missed` names
it, as a gap of the code. A cursor may know private and gated models, since the
curated mode does not filter them; it knows none of another modality
(`ServicesTypeCorrect`). `NothingIsMissed` has the hypothesis
`ResetsBesideCurated`: beside a pass that may `--reset`, as one by hand, only
curated passes run, as the daemon does. Two paginated passes, one of them
resetting, break the property: the one that had loaded the old cursor saves it
over the reset, and what it had left to earlier passes is in no file any more.

**Only model-checked.** `EveryRunEnds` (of the pipeline and of the lanes) and
`EveryJobRuns`: liveness under fairness, and ENABLED, are beyond the prover.
Outside the hypotheses above nothing is claimed, by a run or by a theorem. The
helpers of Scoring's `_summarize` sort and fold; `P95AtLeastP50` is evaluated by
TLC alone, and its run ends in a counterexample, as those of all findings do.

## 5. Not modelled

The panel (read-only views), the validators (schema checks of one document),
the transformers runner (an engine, external), `ccr_bridge.py` (writes a
configuration before an agent starts), the feeds of discovery other than the
hub (one document each, mapped to an enqueue), the model cache of the engine
client (every caller names its model), two calls for one run id of the agent
unit at once, texts, prompts and artifacts' layout, throughput figures.

## 6. Plan

1. To prove: the containers of the pipeline with crashes, as what the docker
   host may hold (one container for each run the sweep has ended and one for each
   CLEANUP that failed); that a swept run is dead when processes take turns,
   which is the positive side of `pipeline_overlap`; that an OK is final
   without crashes, operators and a raising outbox, the positive side
   of `pipeline_truth`; and that two jobs of one model are active only
   if one was in the consumer's hand, the positive side of `queue_dedup`. Each needs a property of its own that a run checks first.
2. To state: what a resumed run may leave behind, and how much work it repeats.
