-------------------------- MODULE RunPipelineProofs --------------------------
(***************************************************************************)
(* Theorems about RunPipeline, for every value of its constants.           *)
(***************************************************************************)
EXTENDS RunPipeline, TLAPS

-----------------------------------------------------------------------------
(* Run objects *)

LEMMA MarkType ==
    ASSUME NEW run \in RunObject, NEW s \in StageName, NEW st \in StageStatus
    PROVE  /\ Mark(run, s, st) \in RunObject
           /\ Mark(run, s, st).status = run.status
           /\ Mark(run, s, st).stages[s] = st
           /\ \A t \in StageName \ {s} : Mark(run, s, st).stages[t] = run.stages[t]
  BY DEF Mark, RunObject

LEMMA EndedType ==
    ASSUME NEW run \in RunObject, NEW st \in RunStatus
    PROVE  /\ Ended(run, st) \in RunObject
           /\ Ended(run, st).status = st
           /\ Ended(run, st).stages = run.stages
  BY DEF Ended, RunObject

LEMMA AbortType ==
    ASSUME NEW run \in RunObject
    PROVE  [run EXCEPT !.abort = TRUE] \in RunObject
  BY DEF RunObject

LEMMA RestartedType ==
    ASSUME NEW run \in RunObject
    PROVE  /\ Restarted(run) \in RunObject
           /\ Restarted(run).status = run.status
           /\ Restarted(run).stages["CLEANUP"] = run.stages["CLEANUP"]
  BY DEF Restarted, RunObject, RestartedStages, RUN_LEVEL_STAGES, StageStatus, StageName

LEMMA FreshType ==
    /\ FreshRun \in RunObject
    /\ NoFile \in RunObject
    /\ FreshRun.status = "pending"
    /\ FreshRun.stages["CLEANUP"] = "pending"
  BY DEF FreshRun, NoFile, RunObject, RunStatus, StageStatus, StageName

LEMMA PipelineLength ==
    /\ Len(Pipeline) \in Nat \ {0}
    /\ \A i \in 1..Len(Pipeline) : Pipeline[i] \in StageName
  BY PipelineAssumption

-----------------------------------------------------------------------------
(* Type correctness.  TypeOK is not inductive: the step that moves to the   *)
(* next stage needs to know that there is one, a save that there is a run,  *)
(* and the first deploy attempt that the counter of the last one is gone.   *)

Idling == {"down", "sweep", "idle", "resume"}

InStage == {"exec", "deploying", "repairing", "failed", "skipped"}

Placed ==
    \A p \in Procs :
        /\ pc[p] \notin Idling => cur[p] \in Runs
        /\ unflushed[p] => cur[p] \in Runs
        /\ pc[p] \in InStage => idx[p] <= Len(Pipeline)
        /\ pc[p] \notin {"deploying", "repairing"} => attempt[p] = 0

TInv == TypeOK /\ Placed

LEMMA InitType == Init => TInv
<1> SUFFICES ASSUME Init PROVE TInv
  OBVIOUS
<1> USE FreshType, PipelineLength, ConstantAssumption
<1>1. TypeOK
  BY DEF Init, TypeOK, Location, RunStatus, Procs
<1>2. Placed
  BY DEF Init, Placed, Idling, InStage
<1> QED
  BY <1>1, <1>2 DEF TInv


\* What the shared parts of the actions do to the types.
LEMMA SaveType ==
    ASSUME TInv, NEW p \in Procs, NEW run \in RunObject, cur[p] \in Runs, Save(p, run)
    PROVE  /\ state' \in [Runs -> RunObject]
           /\ obj' \in [Procs -> RunObject]
           /\ unflushed' \in [Procs -> BOOLEAN]
           /\ state'[cur[p]] = run
           /\ obj'[p] = run
           /\ \A q \in Procs \ {p} : unflushed'[q] = unflushed[q] /\ obj'[q] = obj[q]
           /\ \A r \in Runs \ {cur[p]} : state'[r] = state[r]
  BY DEF Save, TInv, TypeOK

LEMMA GotoType ==
    ASSUME TInv, NEW p \in Procs, NEW l \in Location, Goto(p, l)
    PROVE  /\ pc' \in [Procs -> Location]
           /\ pc'[p] = l
           /\ \A q \in Procs \ {p} : pc'[q] = pc[q]
  BY DEF Goto, TInv, TypeOK

LEMMA ReleaseType ==
    ASSUME TInv, NEW p \in Procs, NEW l \in Idling, Release(p, l),
           UNCHANGED <<disk, host, todo, copy>>, crashes' \in 0..MaxCrashes
    PROVE  TInv'
<1> USE FreshType, PipelineLength, ConstantAssumption
<1>1. l \in Location
  BY DEF Idling, Location
<1>2. TypeOK'
  BY <1>1 DEF Release, Goto, TInv, TypeOK, disk, host
<1>3. Placed'
  BY <1>1 DEF Release, Goto, TInv, TypeOK, Placed, Idling, InStage
<1> QED
  BY <1>2, <1>3 DEF TInv

LEMMA ExitType ==
    ASSUME TInv, NEW p \in Procs, Exit(p), UNCHANGED <<disk, host>>,
           crashes' \in 0..MaxCrashes
    PROVE  TInv'
<1> USE FreshType, PipelineLength, ConstantAssumption
<1>1. TypeOK'
  BY DEF Exit, Release, Goto, TInv, TypeOK, disk, host, Location
<1>2. Placed'
  BY DEF Exit, Release, Goto, TInv, TypeOK, Placed, Idling, InStage, Location
<1> QED
  BY <1>1, <1>2 DEF TInv

\* A step that saves and goes to a location where no stage is being executed.
LEMMA SaveStep ==
    ASSUME TInv, NEW p \in Procs, NEW run \in RunObject, NEW l \in Location,
           l \notin {"deploying", "repairing"},
           cur[p] \in Runs, Save(p, run), Goto(p, l),
           idx' \in [Procs -> 1..(Len(Pipeline) + 1)],
           l \in InStage => idx'[p] <= Len(Pipeline),
           attempt' \in [Procs -> 0..MaxDeployAttempts], attempt'[p] = 0,
           \A q \in Procs \ {p} : idx'[q] = idx[q] /\ attempt'[q] = attempt[q],
           capability' \in [Runs -> Runs \cup {None}],
           UNCHANGED <<index, backlog, container, cur, todo, copy, crashes>>
    PROVE  TInv'
<1>1. TypeOK'
  BY SaveType, GotoType DEF TInv, TypeOK, host
<1>2. Placed'
  BY SMTT(30), SaveType, GotoType DEF TInv, TypeOK, Placed
<1> QED
  BY <1>1, <1>2 DEF TInv


\* ... and one that saves nothing and keeps the run.
LEMMA MoveStep ==
    ASSUME TInv, NEW p \in Procs, NEW l \in Location \ Idling, Goto(p, l),
           cur[p] \in Runs,
           idx' \in [Procs -> 1..(Len(Pipeline) + 1)],
           l \in InStage => idx'[p] <= Len(Pipeline),
           attempt' \in [Procs -> 0..MaxDeployAttempts],
           l \notin {"deploying", "repairing"} => attempt'[p] = 0,
           \A q \in Procs \ {p} : idx'[q] = idx[q] /\ attempt'[q] = attempt[q],
           container' \in [Runs -> {"none", "up", "serving", "exited"}],
           UNCHANGED <<disk, capability, cur, obj, unflushed, todo, copy, crashes>>
    PROVE  TInv'
<1>1. /\ pc' \in [Procs -> Location]
      /\ pc'[p] = l
      /\ \A q \in Procs \ {p} : pc'[q] = pc[q]
  BY GotoType
<1>2. TypeOK'
  BY <1>1 DEF TInv, TypeOK, disk
<1>3. Placed'
  <2> SUFFICES ASSUME NEW q \in Procs
               PROVE  /\ pc'[q] \notin Idling => cur'[q] \in Runs
                      /\ unflushed'[q] => cur'[q] \in Runs
                      /\ pc'[q] \in InStage => idx'[q] <= Len(Pipeline)'
                      /\ pc'[q] \notin {"deploying", "repairing"} => attempt'[q] = 0
    BY DEF Placed
  <2>1. CASE q = p
    BY <1>1, <2>1
  <2>2. CASE q # p
    BY <1>1, <2>2 DEF TInv, Placed
  <2> QED
    BY <2>1, <2>2
<1> QED
  BY <1>2, <1>3 DEF TInv

LEMMA InStageFacts ==
    ASSUME TInv, NEW p \in Procs, pc[p] \in InStage
    PROVE  /\ idx[p] \in 1..Len(Pipeline)
           /\ Stage(p) = Pipeline[idx[p]]
           /\ Stage(p) \in StageName
           /\ cur[p] \in Runs
           /\ obj[p] \in RunObject
<1>1. idx[p] \in 1..Len(Pipeline)
  BY PipelineLength DEF TInv, TypeOK, Placed
<1>2. cur[p] \in Runs /\ obj[p] \in RunObject
  BY DEF TInv, TypeOK, Placed, InStage, Idling
<1> QED
  BY <1>1, <1>2, PipelineLength DEF Stage

LEMMA MarkOkType ==
    ASSUME TInv, NEW p \in Procs, At(p, "exec") \/ At(p, "deploying"), MarkOk(p),
           capability' \in [Runs -> Runs \cup {None}], UNCHANGED container
    PROVE  TInv'
<1>1. Stage(p) \in StageName /\ cur[p] \in Runs /\ idx[p] \in 1..Len(Pipeline)
  BY InStageFacts DEF At, InStage
<1>2. Mark(obj[p], Stage(p), "ok") \in RunObject
  BY <1>1, MarkType DEF TInv, TypeOK, StageStatus
<1>3. /\ idx' \in [Procs -> 1..(Len(Pipeline) + 1)]
      /\ attempt' \in [Procs -> 0..MaxDeployAttempts]
      /\ attempt'[p] = 0
      /\ \A q \in Procs \ {p} : idx'[q] = idx[q] /\ attempt'[q] = attempt[q]
  BY <1>1, PipelineLength, ConstantAssumption DEF MarkOk, TInv, TypeOK
<1> QED
  BY <1>1, <1>2, <1>3, SaveStep DEF MarkOk, Location, InStage

LEMMA MarkFailedType ==
    ASSUME TInv, NEW p \in Procs, At(p, "exec") \/ At(p, "repairing"), MarkFailed(p),
           UNCHANGED host
    PROVE  TInv'
<1>1. Stage(p) \in StageName /\ cur[p] \in Runs /\ idx[p] \in 1..Len(Pipeline)
  BY InStageFacts DEF At, InStage
<1>2. Mark(obj[p], Stage(p), "failed") \in RunObject
  BY <1>1, MarkType DEF TInv, TypeOK, StageStatus
<1>3. /\ attempt' \in [Procs -> 0..MaxDeployAttempts]
      /\ attempt'[p] = 0
      /\ \A q \in Procs \ {p} : attempt'[q] = attempt[q]
  BY ConstantAssumption DEF MarkFailed, TInv, TypeOK
<1> QED
  <2>1. /\ idx' = idx /\ idx' \in [Procs -> 1..(Len(Pipeline) + 1)]
        /\ capability' \in [Runs -> Runs \cup {None}]
        /\ UNCHANGED <<index, backlog, container, cur, todo, copy, crashes>>
    BY DEF MarkFailed, TInv, TypeOK, host
  <2>2. Save(p, Mark(obj[p], Stage(p), "failed")) /\ Goto(p, "failed")
    BY DEF MarkFailed
  <2>3. "failed" \in Location \ {"deploying", "repairing"} /\ idx'[p] <= Len(Pipeline)
    BY <1>1, <2>1, PipelineLength DEF Location
  <2> QED
    BY <1>1, <1>2, <1>3, <2>1, <2>2, <2>3, SaveStep

LEMMA CatastropheType ==
    ASSUME TInv, NEW p \in Procs, At(p, "announce") \/ At(p, "reported"),
           Catastrophe(p), UNCHANGED <<host, crashes>>
    PROVE  TInv'
<1>1. CASE p = Loop
  <2>1. cur[p] \in Runs /\ attempt[p] = 0
    BY DEF At, TInv, Placed, Idling
  <2>2. Ended(obj[p], "failed") \in RunObject
    BY EndedType DEF TInv, TypeOK, RunStatus
  <2> QED
    BY <1>1, <2>1, <2>2, SaveStep DEF Catastrophe, Location, InStage, TInv, TypeOK, host
<1>2. CASE p # Loop
  BY <1>2, ExitType DEF Catastrophe, TInv, TypeOK
<1> QED
  BY <1>1, <1>2

-----------------------------------------------------------------------------
(* The service and the commands *)

LEMMA ServiceType ==
    ASSUME TInv,
           StartLoop \/ SweepLoad \/ SweepSave \/ SweepDone \/ IdlePoll
    PROVE  TInv'
<1> Loop \in Procs
  BY DEF Procs
<1>1. CASE StartLoop
  <2>1. TypeOK'
    BY <1>1 DEF StartLoop, Orphans, Goto, TInv, TypeOK, Location, disk, host
  <2>2. Placed'
    BY <1>1 DEF StartLoop, Goto, TInv, TypeOK, Placed, Idling, InStage
  <2> QED
    BY <2>1, <2>2 DEF TInv
<1>2. CASE SweepLoad
  <2>1. PICK r \in Runs :
          /\ cur' = [cur EXCEPT ![Loop] = r]
          /\ obj' = [obj EXCEPT ![Loop] = Ended(state[r], "aborted")]
          /\ todo' = [todo EXCEPT ![Loop] = @ \ {r}]
    BY <1>2 DEF SweepLoad, TInv, TypeOK
  <2>2. Ended(state[r], "aborted") \in RunObject
    BY EndedType DEF TInv, TypeOK, RunStatus
  <2>3. TypeOK'
    BY <1>2, <2>1, <2>2 DEF SweepLoad, Goto, TInv, TypeOK, Location, disk, host
  <2>4. Placed'
    BY <1>2, <2>1 DEF SweepLoad, At, Goto, TInv, TypeOK, Placed, Idling, InStage
  <2> QED
    BY <2>3, <2>4 DEF TInv
<1>3. CASE SweepSave
  <2>1. cur[Loop] \in Runs /\ attempt[Loop] = 0 /\ obj[Loop] \in RunObject
    BY <1>3 DEF SweepSave, At, TInv, TypeOK, Placed, Idling
  <2> QED
    BY <1>3, <2>1, SaveStep DEF SweepSave, Location, InStage, TInv, TypeOK, host
<1>4. CASE SweepDone
  BY <1>4, ReleaseType DEF SweepDone, Idling, TInv, TypeOK
<1>5. CASE IdlePoll
  BY <1>5 DEF IdlePoll, vars, disk, host, memory, TInv, TypeOK, Placed
<1> QED
  BY <1>1, <1>2, <1>3, <1>4, <1>5


LEMMA QueueType ==
    ASSUME TInv, NEW p \in Procs, Pop(p) \/ Register(p) \/ FlushIndex(p) \/ Return(p)
    PROVE  TInv'
<1>1. CASE Pop(p)
  <2>1. PICK r \in backlog : backlog' = backlog \ {r} /\ cur' = [cur EXCEPT ![p] = r]
    BY <1>1 DEF Pop
  <2>2. r \in Runs /\ Goto(p, "popped") /\ pc[p] \notin {"deploying", "repairing"}
    BY <1>1, <2>1 DEF Pop, At, TInv, TypeOK
  <2>3. /\ pc' \in [Procs -> Location]
        /\ pc'[p] = "popped"
        /\ \A q \in Procs \ {p} : pc'[q] = pc[q]
    BY <2>2, GotoType DEF Location
  <2>4. TypeOK'
    BY <1>1, <2>1, <2>2, <2>3 DEF Pop, TInv, TypeOK, host
  <2>5. Placed'
    BY <1>1, <2>1, <2>2, <2>3 DEF Pop, TInv, TypeOK, Placed, InStage
  <2> QED
    BY <2>4, <2>5 DEF TInv
<1>2. CASE Register(p)
  <2>1. cur[p] \in Runs /\ attempt[p] = 0
    BY <1>2 DEF Register, At, TInv, Placed, Idling
  <2> QED
    BY <1>2, <2>1, FreshType, SaveStep
       DEF Register, Location, InStage, TInv, TypeOK, host
<1>3. CASE FlushIndex(p)
  <2>1. cur[p] \in Runs /\ obj[p].status \in RunStatus \cup {"absent"}
    BY <1>3 DEF FlushIndex, TInv, TypeOK, Placed, RunObject
  <2>2. TypeOK'
    BY <1>3, <2>1 DEF FlushIndex, TInv, TypeOK, host
  <2>3. Placed'
    BY <1>3 DEF FlushIndex, TInv, TypeOK, Placed
  <2> QED
    BY <2>2, <2>3 DEF TInv
<1>4. CASE Return(p)
  BY <1>4, ReleaseType DEF Return, Idling, TInv, TypeOK
<1> QED
  BY <1>1, <1>2, <1>3, <1>4

LEMMA ResumeType ==
    ASSUME TInv, NEW o \in Operators, StartResume(o) \/ ResumeNext(o) \/ ResumeDone(o)
    PROVE  TInv'
<1> o \in Procs
  BY DEF Procs
<1>1. CASE StartResume(o)
  <2>1. TypeOK'
    BY <1>1 DEF StartResume, Goto, TInv, TypeOK, Location, disk, host
  <2>2. Placed'
    BY <1>1 DEF StartResume, At, Goto, TInv, TypeOK, Placed, Idling, InStage
  <2> QED
    BY <2>1, <2>2 DEF TInv
<1>2. CASE ResumeNext(o)
  <2>1. PICK r \in Runs :
          /\ cur' = [cur EXCEPT ![o] = r]
          /\ obj' = [obj EXCEPT ![o] = copy[o][r]]
          /\ todo' = [todo EXCEPT ![o] = @ \ {r}]
    BY <1>2 DEF ResumeNext, TInv, TypeOK
  <2>2. TypeOK'
    BY <1>2, <2>1 DEF ResumeNext, Goto, TInv, TypeOK, Location, disk, host
  <2>3. Placed'
    BY <1>2, <2>1 DEF ResumeNext, At, Goto, TInv, TypeOK, Placed, Idling, InStage
  <2> QED
    BY <2>2, <2>3 DEF TInv
<1>3. CASE ResumeDone(o)
  BY <1>3, ExitType DEF ResumeDone, TInv, TypeOK
<1> QED
  BY <1>1, <1>2, <1>3

LEMMA EnvironmentType ==
    ASSUME TInv, Environment
    PROVE  TInv'
<1>1. ASSUME NEW r \in Runs, ContainerReady(r) \/ ContainerDies(r)
      PROVE  TInv'
  <2>1. container' \in [Runs -> {"none", "up", "serving", "exited"}]
    BY <1>1 DEF ContainerReady, ContainerDies, TInv, TypeOK
  <2> QED
    BY <1>1, <2>1
       DEF ContainerReady, ContainerDies, TInv, TypeOK, Placed, disk, memory
<1>2. ASSUME NEW r \in Runs, EditAbortFlag(r)
      PROVE  TInv'
  <2>1. state' \in [Runs -> RunObject]
    <3>1. [state[r] EXCEPT !.abort = TRUE] \in RunObject
      BY AbortType DEF TInv, TypeOK
    <3>2. state' = [state EXCEPT ![r] = [state[r] EXCEPT !.abort = TRUE]]
      BY <1>2 DEF EditAbortFlag
    <3> QED
      BY <3>1, <3>2 DEF TInv, TypeOK
  <2> QED
    BY <1>2, <2>1 DEF EditAbortFlag, TInv, TypeOK, Placed, host, memory
<1>3. ASSUME NEW p \in Procs, Crash(p)
      PROVE  TInv'
  BY <1>3, ExitType, ConstantAssumption DEF Crash, TInv, TypeOK
<1> QED
  BY <1>1, <1>2, <1>3 DEF Environment


-----------------------------------------------------------------------------
(* run_pipeline *)

LEMMA WalkType ==
    ASSUME TInv, NEW p \in Procs,
           \/ Begin(p) \/ Announce(p) \/ AbortByFlag(p) \/ PassOver(p)
           \/ StartStage(p) \/ FinishOk(p) \/ Notify(p)
    PROVE  TInv'
<1>1. At(p, "registered") \/ At(p, "announce") \/ At(p, "stage") \/ At(p, "reported")
  BY DEF Begin, Announce, AbortByFlag, PassOver, StartStage, FinishOk, Notify
<1>2. /\ cur[p] \in Runs /\ attempt[p] = 0 /\ obj[p] \in RunObject
      /\ attempt \in [Procs -> 0..MaxDeployAttempts]
      /\ idx \in [Procs -> 1..(Len(Pipeline) + 1)]
      /\ container \in [Runs -> {"none", "up", "serving", "exited"}]
      /\ capability \in [Runs -> Runs \cup {None}]
  BY <1>1 DEF At, TInv, TypeOK, Placed, Idling
<1>3. CASE Begin(p)
  BY <1>2, <1>3, EndedType, SaveStep DEF Begin, Location, InStage, RunStatus, host
<1>4. CASE Announce(p)
  <2>1. CASE OutboxFaults /\ Catastrophe(p)
    BY <1>4, <2>1, CatastropheType DEF Announce
  <2>2. CASE /\ needs_full_restart(obj[p])
             /\ Save(p, Restarted(obj[p]))
             /\ Goto(p, "stage")
             /\ UNCHANGED <<index, backlog, cur, idx, attempt, todo, copy>>
    BY <1>2, <1>4, <2>2, RestartedType, SaveStep
       DEF Announce, Location, InStage, host
  <2>3. CASE /\ ~needs_full_restart(obj[p])
             /\ Goto(p, "stage")
             /\ UNCHANGED <<disk, cur, obj, idx, attempt, unflushed, todo, copy>>
    BY <1>2, <1>4, <2>3, MoveStep DEF Announce, Location, Idling, InStage, host
  <2> QED
    BY <1>4, <2>1, <2>2, <2>3 DEF Announce
<1>5. CASE AbortByFlag(p)
  BY <1>2, <1>5, EndedType, SaveStep DEF AbortByFlag, Location, InStage, RunStatus, host
<1>6. CASE PassOver(p)
  <2>1. /\ idx' \in [Procs -> 1..(Len(Pipeline) + 1)]
        /\ \A q \in Procs \ {p} : idx'[q] = idx[q]
    BY <1>2, <1>6, PipelineLength DEF PassOver
  <2>2. TypeOK'
    BY <1>6, <2>1 DEF PassOver, TInv, TypeOK, disk, host
  <2>3. Placed'
    BY <1>6, <2>1 DEF PassOver, At, TInv, Placed, InStage
  <2> QED
    BY <2>2, <2>3 DEF TInv
<1>7. CASE StartStage(p)
  <2>1. Stage(p) \in StageName
    BY <1>2, <1>7, PipelineLength DEF StartStage, Stage
  <2>2. Mark(obj[p], Stage(p), "in_progress") \in RunObject
    BY <1>2, <2>1, MarkType DEF StageStatus
  <2> QED
    BY <1>2, <1>7, <2>2, SaveStep DEF StartStage, Location, host
<1>8. CASE FinishOk(p)
  BY <1>2, <1>8, EndedType, SaveStep DEF FinishOk, Location, InStage, RunStatus, host
<1>9. CASE Notify(p)
  <2>1. CASE OutboxFaults /\ Catastrophe(p)
    BY <1>9, <2>1, CatastropheType DEF Notify
  <2>2. CASE Goto(p, "end") /\ UNCHANGED <<disk, cur, obj, idx, attempt, unflushed,
                                           todo, copy>>
    BY <1>2, <1>9, <2>2, MoveStep DEF Notify, Location, Idling, InStage, host
  <2> QED
    BY <1>9, <2>1, <2>2 DEF Notify
<1> QED
  BY <1>3, <1>4, <1>5, <1>6, <1>7, <1>8, <1>9

LEMMA OutcomeType ==
    ASSUME TInv, NEW p \in Procs,
           \/ PlainStageOk(p) \/ ReadyWaitOk(p) \/ CapabilityOk(p)
           \/ StageFails(p) \/ StageSkips(p)
    PROVE  TInv'
<1>1. At(p, "exec") /\ pc[p] \in InStage
  BY DEF PlainStageOk, ReadyWaitOk, CapabilityOk, StageFails, StageSkips, At, InStage
<1>2. CASE PlainStageOk(p) \/ ReadyWaitOk(p)
  BY <1>1, <1>2, MarkOkType DEF PlainStageOk, ReadyWaitOk, host, TInv, TypeOK
<1>3. CASE CapabilityOk(p)
  <2>1. capability' \in [Runs -> Runs \cup {None}]
    BY <1>3 DEF CapabilityOk, Serving, TInv, TypeOK
  <2> QED
    BY <1>1, <1>3, <2>1, MarkOkType DEF CapabilityOk
<1>4. CASE StageFails(p)
  BY <1>1, <1>4, MarkFailedType DEF StageFails
<1>5. CASE StageSkips(p)
  <2>1. Mark(obj[p], Stage(p), "skipped") \in RunObject
    BY <1>1, InStageFacts, MarkType DEF StageStatus
  <2>2. /\ cur[p] \in Runs /\ attempt[p] = 0 /\ idx[p] <= Len(Pipeline)
        /\ attempt \in [Procs -> 0..MaxDeployAttempts]
        /\ idx \in [Procs -> 1..(Len(Pipeline) + 1)]
        /\ capability \in [Runs -> Runs \cup {None}]
    BY <1>1, InStageFacts DEF At, TInv, TypeOK, Placed
  <2> QED
    BY <1>5, <2>1, <2>2, SaveStep DEF StageSkips, Location, host
<1> QED
  BY <1>2, <1>3, <1>4, <1>5

LEMMA DeployType ==
    ASSUME TInv, NEW p \in Procs,
           DeploySpawn(p) \/ DeployAttemptFails(p) \/ DeployOk(p) \/ DeployFails(p)
    PROVE  TInv'
<1>1. pc[p] \in InStage /\ pc[p] \in {"exec", "deploying", "repairing"}
  BY DEF DeploySpawn, DeployAttemptFails, DeployOk, DeployFails, At, InStage
<1>2. /\ cur[p] \in Runs /\ idx[p] <= Len(Pipeline)
      /\ attempt \in [Procs -> 0..MaxDeployAttempts]
      /\ idx \in [Procs -> 1..(Len(Pipeline) + 1)]
      /\ container \in [Runs -> {"none", "up", "serving", "exited"}]
  BY <1>1, InStageFacts DEF TInv, TypeOK
<1>3. CASE DeploySpawn(p)
  <2>1. attempt[p] < MaxDeployAttempts
    BY <1>3, ConstantAssumption DEF DeploySpawn, At, MayRespawn, TInv, Placed
  <2>2. /\ attempt' \in [Procs -> 0..MaxDeployAttempts]
        /\ \A q \in Procs \ {p} : attempt'[q] = attempt[q]
    BY <1>2, <1>3, <2>1, ConstantAssumption DEF DeploySpawn
  <2>3. container' \in [Runs -> {"none", "up", "serving", "exited"}]
    BY <1>2, <1>3 DEF DeploySpawn
  <2>4. PICK l \in {"deploying", "repairing"} : Goto(p, l)
    BY <1>3 DEF DeploySpawn
  <2> QED
    BY <1>2, <1>3, <2>2, <2>3, <2>4, MoveStep DEF DeploySpawn, Location, Idling
<1>4. CASE DeployAttemptFails(p)
  <2>1. container' \in [Runs -> {"none", "up", "serving", "exited"}]
    BY <1>2, <1>4 DEF DeployAttemptFails
  <2> QED
    BY <1>2, <1>4, <2>1, MoveStep DEF DeployAttemptFails, Location, Idling
<1>5. CASE DeployOk(p)
  BY <1>5, MarkOkType DEF DeployOk, host, TInv, TypeOK
<1>6. CASE DeployFails(p)
  BY <1>6, MarkFailedType DEF DeployFails
<1> QED
  BY <1>3, <1>4, <1>5, <1>6


LEMMA CleanupType ==
    ASSUME TInv, NEW p \in Procs,
           CleanupRemoves(p) \/ CleanupOk(p) \/ BestEffortCleanupFails(p)
    PROVE  TInv'
<1>1. /\ Cleaning(p)
      /\ pc[p] \in {"exec", "unwind", "rollback"}
      /\ pc[p] = "exec" => At(p, "exec")
  BY DEF CleanupRemoves, CleanupOk, BestEffortCleanupFails, Cleaning, At
<1>2. /\ cur[p] \in Runs /\ attempt[p] = 0 /\ obj[p] \in RunObject
      /\ attempt \in [Procs -> 0..MaxDeployAttempts]
      /\ idx \in [Procs -> 1..(Len(Pipeline) + 1)]
      /\ container \in [Runs -> {"none", "up", "serving", "exited"}]
      /\ capability \in [Runs -> Runs \cup {None}]
  BY <1>1 DEF TInv, TypeOK, Placed, Idling
<1>3. /\ Mark(obj[p], "CLEANUP", "ok") \in RunObject
      /\ Mark(obj[p], "CLEANUP", "failed") \in RunObject
  BY <1>2, MarkType DEF StageName, StageStatus
<1>4. /\ AfterCleanup(p) \in Location \ {"deploying", "repairing"}
      /\ AfterCleanup(p) \notin InStage
  BY DEF AfterCleanup, Location, InStage
<1>5. CASE CleanupRemoves(p)
  <2>1. container' \in [Runs -> {"none", "up", "serving", "exited"}]
    BY <1>2, <1>5 DEF CleanupRemoves
  <2> QED
    BY <1>5, <2>1 DEF CleanupRemoves, TInv, TypeOK, Placed, disk, memory
<1>6. CASE CleanupOk(p)
  <2>1. CASE pc[p] = "exec"
    BY <1>1, <1>2, <1>6, <2>1, MarkOkType DEF CleanupOk, host
  <2>2. CASE pc[p] # "exec"
    BY <1>2, <1>3, <1>4, <1>6, <2>2, SaveStep DEF CleanupOk, host
  <2> QED
    BY <2>1, <2>2
<1>7. CASE BestEffortCleanupFails(p)
  BY <1>2, <1>3, <1>4, <1>7, SaveStep DEF BestEffortCleanupFails, host
<1> QED
  BY <1>5, <1>6, <1>7

LEMMA UnwindType ==
    ASSUME TInv, NEW p \in Procs,
           Unwind(p) \/ RecordFailure(p) \/ RecordSkip(p) \/ Rollback(p)
    PROVE  TInv'
<1>1. pc[p] \in {"failed", "unwound", "skipped", "aborted"}
  BY DEF Unwind, RecordFailure, RecordSkip, Rollback, At
<1>2. /\ cur[p] \in Runs /\ attempt[p] = 0 /\ obj[p] \in RunObject
      /\ attempt \in [Procs -> 0..MaxDeployAttempts]
      /\ idx \in [Procs -> 1..(Len(Pipeline) + 1)]
      /\ container \in [Runs -> {"none", "up", "serving", "exited"}]
      /\ capability \in [Runs -> Runs \cup {None}]
  BY <1>1 DEF TInv, TypeOK, Placed, Idling
<1>3. Mark(obj[p], "CLEANUP", "in_progress") \in RunObject
  BY <1>2, MarkType DEF StageName, StageStatus
<1>4. CASE Unwind(p)
  BY <1>2, <1>3, <1>4, SaveStep DEF Unwind, Location, InStage, host
<1>5. CASE RecordFailure(p)
  BY <1>2, <1>5, EndedType, SaveStep DEF RecordFailure, Location, InStage, RunStatus, host
<1>6. CASE RecordSkip(p)
  BY <1>2, <1>6, EndedType, SaveStep DEF RecordSkip, Location, InStage, RunStatus, host
<1>7. CASE Rollback(p)
  <2>1. CASE obj[p].stages["CLEANUP"] \notin {"ok", "skipped"}
    BY <1>2, <1>3, <1>7, <2>1, SaveStep DEF Rollback, Location, InStage, host
  <2>2. CASE obj[p].stages["CLEANUP"] \in {"ok", "skipped"}
    BY <1>2, <1>7, <2>2, MoveStep DEF Rollback, Location, Idling, InStage, host
  <2> QED
    BY <2>1, <2>2
<1> QED
  BY <1>4, <1>5, <1>6, <1>7

LEMMA ProcessType ==
    ASSUME TInv, NEW p \in Procs, ProcessStep(p)
    PROVE  TInv'
  BY QueueType, WalkType, OutcomeType, DeployType, CleanupType, UnwindType
     DEF ProcessStep, RunPipeline

LEMMA StepType == TInv /\ [Next]_vars => TInv'
<1> SUFFICES ASSUME TInv, [Next]_vars PROVE TInv'
  OBVIOUS
<1>1. CASE LoopStep
  BY <1>1, ServiceType, ProcessType DEF LoopStep, Procs
<1>2. ASSUME NEW o \in Operators, OperatorStep(o)
      PROVE  TInv'
  BY <1>2, ResumeType, ProcessType DEF OperatorStep, Procs
<1>3. CASE Environment
  BY <1>3, EnvironmentType
<1>4. CASE UNCHANGED vars
  BY <1>4 DEF vars, disk, host, memory, TInv, TypeOK, Placed
<1> QED
  BY <1>1, <1>2, <1>3, <1>4 DEF Next

LEMMA TypeInvariance == Spec => []TInv
  BY InitType, StepType, PTL DEF Spec

\* The variables keep their types, and no DEPLOY stage starts a container more
\* than MaxDeployAttempts times, for any set of runs, operators, pipeline and
\* whatever faults, crashes and overlaps are allowed.
THEOREM TypeCorrect == Spec => []TypeOK
<1>1. TInv => TypeOK
  BY DEF TInv
<1> QED
  BY <1>1, TypeInvariance, PTL

=============================================================================
