--------------------------- MODULE RunOutcomeProofs ---------------------------
(***************************************************************************)
(* OkLeavesNothing for every set of runs, pipeline and number of crashes,  *)
(* when cmd_loop is the only process that executes runs.                   *)
(***************************************************************************)
EXTENDS RunPipelineProofs

-----------------------------------------------------------------------------
(* The inductive invariant *)

\* Before the run ends.
Walking == {"registered", "announce", "stage", "exec", "deploying", "repairing"}
Unfinished == Walking \cup {"failed", "skipped", "unwind", "unwound"}
Owning == Unfinished \cup {"aborted", "rollback", "reported", "end"}

\* What the loop has in memory is what it has last saved.
Owned == pc[Loop] \in Owning => state[cur[Loop]] = obj[Loop]

\* The run is not over before its end has been saved.
Open ==
    /\ pc[Loop] \in Unfinished => obj[Loop].status \in {"pending", "in_progress"}
    /\ pc[Loop] \in {"swept", "aborted", "rollback"} => obj[Loop].status = "aborted"

\* The loop always starts a run at the first stage, and every stage behind it
\* is ok.
Prefix ==
    /\ pc[Loop] \in {"down", "sweep", "swept", "idle", "popped", "registered", "announce"}
          => idx[Loop] = 1
    /\ pc[Loop] \in Walking =>
          \A i \in 1..Len(Pipeline) :
              i < idx[Loop] => obj[Loop].stages[Pipeline[i]] = "ok"

\* CLEANUP is not ok before it is reached, and when it is there is no container;
\* deploy attempts belong to DEPLOY.
CleanupLast ==
    /\ pc[Loop] \in {"deploying", "repairing"} => Pipeline[idx[Loop]] = "DEPLOY"
    /\ pc[Loop] \in Walking /\ idx[Loop] <= Len(Pipeline)
          => obj[Loop].stages["CLEANUP"] # "ok"
    /\ pc[Loop] = "stage" /\ idx[Loop] > Len(Pipeline)
          => container[cur[Loop]] = "none"

OInv == Owned /\ Open /\ Prefix /\ CleanupLast /\ OkLeavesNothing

LEMMA LoopIn == Loop \in Procs
  BY DEF Procs

LEMMA InitOutcome == Init => OInv
<1> SUFFICES ASSUME Init PROVE OInv
  OBVIOUS
<1> USE LoopIn
<1>1. Owned /\ Open /\ Prefix /\ CleanupLast
  BY PipelineLength DEF Init, Owned, Open, Prefix, CleanupLast, Walking, Unfinished, Owning
<1>2. OkLeavesNothing
  BY FreshType DEF Init, OkLeavesNothing, NoFile, FreshRun
<1> QED
  BY <1>1, <1>2 DEF OInv

\* The only things a step can do to the runs that are over.
LEMMA SaveOutcome ==
    ASSUME TInv, OInv, NEW run \in RunObject, cur[Loop] \in Runs, Save(Loop, run),
           run.status # "ok", UNCHANGED container
    PROVE  /\ OkLeavesNothing'
           /\ state'[cur[Loop]] = run
           /\ obj'[Loop] = run
<1>1. /\ state'[cur[Loop]] = run
      /\ obj'[Loop] = run
      /\ \A r \in Runs \ {cur[Loop]} : state'[r] = state[r]
  BY LoopIn, SaveType
<1> QED
  BY <1>1 DEF OInv, OkLeavesNothing

LEMMA SpawnOutcome ==
    ASSUME TInv, OInv, cur[Loop] \in Runs, pc[Loop] \in Unfinished,
           \A r \in Runs \ {cur[Loop]} : container'[r] = container[r],
           UNCHANGED state
    PROVE  OkLeavesNothing'
  BY DEF OInv, OkLeavesNothing, Owned, Open, Owning

\* A stage that is ok moves the prefix by one; at CLEANUP the container is gone.
LEMMA MarkOkOutcome ==
    ASSUME TInv, OInv, At(Loop, "exec") \/ At(Loop, "deploying"), MarkOk(Loop),
           Stage(Loop) = "CLEANUP" => container[cur[Loop]] = "none",
           UNCHANGED container
    PROVE  OInv'
<1> DEFINE i == idx[Loop]
           run == Mark(obj[Loop], Stage(Loop), "ok")
<1> USE LoopIn
<1>1. /\ i \in 1..Len(Pipeline) /\ Stage(Loop) = Pipeline[i]
      /\ Stage(Loop) \in StageName /\ cur[Loop] \in Runs /\ obj[Loop] \in RunObject
  BY InStageFacts DEF At, InStage
<1>2. /\ run \in RunObject
      /\ run.status = obj[Loop].status
      /\ run.stages[Stage(Loop)] = "ok"
      /\ \A t \in StageName \ {Stage(Loop)} : run.stages[t] = obj[Loop].stages[t]
  BY <1>1, MarkType DEF StageStatus
<1>3. /\ obj[Loop].status \in {"pending", "in_progress"}
      /\ obj[Loop].stages["CLEANUP"] # "ok"
      /\ \A k \in 1..Len(Pipeline) : k < i => obj[Loop].stages[Pipeline[k]] = "ok"
  BY <1>1 DEF OInv, Open, Prefix, CleanupLast, At, Walking, Unfinished
<1>4. /\ OkLeavesNothing' /\ state'[cur[Loop]] = run /\ obj'[Loop] = run
  <2> HIDE DEF run
  <2>1. Save(Loop, run) /\ run.status # "ok"
    BY <1>2, <1>3 DEF MarkOk, run
  <2> QED
    BY <1>1, <1>2, <2>1, SaveOutcome
<1>5. pc'[Loop] = "stage" /\ idx'[Loop] = i + 1 /\ cur' = cur
  BY DEF MarkOk, Goto, TInv, TypeOK
<1>6. Owned' /\ Open'
  BY <1>2, <1>3, <1>4, <1>5 DEF Owned, Open, Unfinished, Walking
<1>7. Prefix'
  <2>1. \A k \in 1..Len(Pipeline) : k < i + 1 => run.stages[Pipeline[k]] = "ok"
    BY <1>1, <1>2, <1>3, PipelineLength
  <2> QED
    BY <1>4, <1>5, <2>1 DEF Prefix
<1>8. CleanupLast'
  <2>1. CASE i = Len(Pipeline)
    BY <1>1, <1>5, <2>1, PipelineLength, PipelineAssumption DEF CleanupLast
  <2>2. CASE i # Len(Pipeline)
    <3>1. Stage(Loop) # "CLEANUP"
      BY <1>1, <2>2, PipelineLength, PipelineAssumption
    <3>2. run.stages["CLEANUP"] # "ok"
      BY <1>2, <1>3, <3>1 DEF StageName
    <3> QED
      BY <1>1, <1>4, <1>5, <2>2, <3>2, PipelineLength DEF CleanupLast
  <2> QED
    BY <2>1, <2>2
<1> QED
  BY <1>4, <1>6, <1>7, <1>8 DEF OInv

\* A save that leaves the walk through the stages for good.
LEMMA LeaveOutcome ==
    ASSUME TInv, OInv, NEW run \in RunObject,
           NEW l \in Location \ (Walking \cup Idling \cup {"popped"}),
           cur[Loop] \in Runs, Save(Loop, run), Goto(Loop, l),
           run.status # "ok",
           l \in Unfinished => run.status \in {"pending", "in_progress"},
           l \in {"swept", "aborted", "rollback"} => run.status = "aborted",
           l # "swept", UNCHANGED <<container, cur>>
    PROVE  OInv'
<1> USE LoopIn
<1>1. pc'[Loop] = l
  BY GotoType
<1>2. OkLeavesNothing' /\ state'[cur[Loop]] = run /\ obj'[Loop] = run
  BY SaveOutcome
<1>3. Owned' /\ Open'
  BY <1>1, <1>2 DEF Owned, Open
<1>4. Prefix' /\ CleanupLast'
  BY <1>1 DEF Prefix, CleanupLast, Walking, Idling
<1> QED
  BY <1>2, <1>3, <1>4 DEF OInv


LEMMA ReleaseOutcome ==
    ASSUME TInv, OInv, NEW l \in Idling, Release(Loop, l), UNCHANGED <<state, container>>
    PROVE  OInv'
<1> USE LoopIn
<1>1. pc'[Loop] = l /\ idx'[Loop] = 1
  BY DEF Release, Goto, TInv, TypeOK
<1>2. Owned' /\ Open' /\ Prefix' /\ CleanupLast'
  BY <1>1 DEF Owned, Open, Prefix, CleanupLast, Walking, Unfinished, Owning, Idling
<1> QED
  BY <1>2 DEF OInv, OkLeavesNothing

LEMMA ServiceOutcome ==
    ASSUME TInv, OInv,
           StartLoop \/ SweepLoad \/ SweepSave \/ SweepDone \/ IdlePoll
    PROVE  OInv'
<1> USE LoopIn
<1>1. CASE StartLoop
  <2>1. pc'[Loop] = "sweep" /\ pc[Loop] = "down"
    BY <1>1 DEF StartLoop, Goto, TInv, TypeOK
  <2>2. Owned' /\ Open' /\ Prefix' /\ CleanupLast'
    BY <1>1, <2>1 DEF StartLoop, OInv, Owned, Open, Prefix, CleanupLast,
                      Walking, Unfinished, Owning
  <2> QED
    BY <1>1, <2>2 DEF StartLoop, OInv, OkLeavesNothing, disk, host
<1>2. CASE SweepLoad
  <2>1. pc'[Loop] = "swept" /\ pc[Loop] = "sweep"
    BY <1>2 DEF SweepLoad, At, Goto, TInv, TypeOK
  <2>2. obj'[Loop].status = "aborted"
    BY <1>2, EndedType DEF SweepLoad, TInv, TypeOK, RunStatus
  <2>3. Owned' /\ Open' /\ Prefix' /\ CleanupLast'
    BY <1>2, <2>1, <2>2 DEF SweepLoad, OInv, Owned, Open, Prefix, CleanupLast,
                            Walking, Unfinished, Owning
  <2> QED
    BY <1>2, <2>3 DEF SweepLoad, OInv, OkLeavesNothing, disk, host
<1>3. CASE SweepSave
  <2>1. pc'[Loop] = "sweep" /\ pc[Loop] = "swept" /\ cur[Loop] \in Runs
    BY <1>3 DEF SweepSave, At, Goto, TInv, TypeOK, Placed, Idling
  <2>2. obj[Loop].status = "aborted" /\ obj[Loop] \in RunObject
    BY <2>1 DEF OInv, Open, TInv, TypeOK
  <2>3. OkLeavesNothing'
    BY <1>3, <2>1, <2>2, SaveOutcome DEF SweepSave, host
  <2>4. Owned' /\ Open' /\ Prefix' /\ CleanupLast'
    BY <1>3, <2>1 DEF SweepSave, OInv, Owned, Open, Prefix, CleanupLast,
                      Walking, Unfinished, Owning
  <2> QED
    BY <2>3, <2>4 DEF OInv
<1>4. CASE SweepDone
  BY <1>4, ReleaseOutcome DEF SweepDone, Idling, disk, host
<1>5. CASE IdlePoll
  BY <1>5 DEF IdlePoll, vars, disk, host, memory, OInv, OkLeavesNothing,
              Owned, Open, Prefix, CleanupLast
<1> QED
  BY <1>1, <1>2, <1>3, <1>4, <1>5

LEMMA QueueOutcome ==
    ASSUME TInv, OInv,
           Pop(Loop) \/ Register(Loop) \/ FlushIndex(Loop) \/ Return(Loop)
    PROVE  OInv'
<1> USE LoopIn
<1>1. CASE Pop(Loop)
  <2>1. pc'[Loop] = "popped" /\ pc[Loop] \in {"idle", "down"}
    BY <1>1 DEF Pop, At, Goto, TInv, TypeOK
  <2>2. Owned' /\ Open' /\ Prefix' /\ CleanupLast'
    BY <1>1, <2>1 DEF Pop, OInv, Owned, Open, Prefix, CleanupLast,
                      Walking, Unfinished, Owning
  <2> QED
    BY <1>1, <2>2 DEF Pop, OInv, OkLeavesNothing, host
<1>2. CASE Register(Loop)
  <2>1. pc'[Loop] = "registered" /\ pc[Loop] = "popped" /\ cur[Loop] \in Runs
    BY <1>2 DEF Register, At, Goto, TInv, TypeOK, Placed, Idling
  <2>2. OkLeavesNothing' /\ state'[cur[Loop]] = FreshRun /\ obj'[Loop] = FreshRun
    BY <1>2, <2>1, FreshType, SaveOutcome DEF Register, host
  <2>3. Owned' /\ Open'
    BY <1>2, <2>1, <2>2, FreshType DEF Register, Owned, Open, Walking, Unfinished
  <2>4. idx'[Loop] = 1
    BY <1>2, <2>1 DEF Register, OInv, Prefix
  <2>5. Prefix' /\ CleanupLast'
    BY <2>1, <2>2, <2>4, FreshType DEF Prefix, CleanupLast
  <2> QED
    BY <2>2, <2>3, <2>5 DEF OInv
<1>3. CASE FlushIndex(Loop)
  BY <1>3 DEF FlushIndex, OInv, OkLeavesNothing, Owned, Open, Prefix, CleanupLast, host
<1>4. CASE Return(Loop)
  BY <1>4, ReleaseOutcome DEF Return, Idling, disk, host
<1> QED
  BY <1>1, <1>2, <1>3, <1>4

LEMMA CatastropheOutcome ==
    ASSUME TInv, OInv, At(Loop, "announce") \/ At(Loop, "reported"),
           Catastrophe(Loop), UNCHANGED host
    PROVE  OInv'
<1> USE LoopIn
<1>1. cur[Loop] \in Runs /\ obj[Loop] \in RunObject
  BY DEF At, TInv, TypeOK, Placed, Idling
<1>2. /\ Ended(obj[Loop], "failed") \in RunObject
      /\ Ended(obj[Loop], "failed").status = "failed"
  BY <1>1, EndedType DEF RunStatus
<1>3. "end" \in Location \ (Walking \cup Idling \cup {"popped"}) /\ "end" \notin Unfinished
  BY DEF Location, Walking, Idling, Unfinished
<1>4. /\ Save(Loop, Ended(obj[Loop], "failed")) /\ Goto(Loop, "end")
      /\ UNCHANGED <<container, cur>>
  BY DEF Catastrophe, host
<1> QED
  BY <1>1, <1>2, <1>3, <1>4, LeaveOutcome


LEMMA WalkOutcome ==
    ASSUME TInv, OInv,
           \/ Begin(Loop) \/ Announce(Loop) \/ AbortByFlag(Loop) \/ PassOver(Loop)
           \/ StartStage(Loop) \/ FinishOk(Loop) \/ Notify(Loop)
    PROVE  OInv'
<1> USE LoopIn
<1>1. At(Loop, "registered") \/ At(Loop, "announce") \/ At(Loop, "stage")
         \/ At(Loop, "reported")
  BY DEF Begin, Announce, AbortByFlag, PassOver, StartStage, FinishOk, Notify
<1>2. /\ cur[Loop] \in Runs /\ obj[Loop] \in RunObject
      /\ idx[Loop] \in 1..(Len(Pipeline) + 1)
  BY <1>1 DEF At, TInv, TypeOK, Placed, Idling
<1>3. CASE Begin(Loop)
  <2> DEFINE run == Ended(obj[Loop], "in_progress")
  <2>1. /\ run \in RunObject /\ run.status = "in_progress"
        /\ run.stages = obj[Loop].stages
    BY <1>2, EndedType DEF RunStatus
  <2> HIDE DEF run
  <2>2. Save(Loop, run) /\ Goto(Loop, "announce") /\ UNCHANGED <<container, cur, idx>>
    BY <1>3 DEF Begin, host, run
  <2>3. OkLeavesNothing' /\ state'[cur[Loop]] = run /\ obj'[Loop] = run
    BY <1>2, <2>1, <2>2, SaveOutcome
  <2>4. pc'[Loop] = "announce" /\ pc[Loop] = "registered"
    BY <1>3, <2>2 DEF Begin, At, Goto, TInv, TypeOK
  <2>5. Owned' /\ Open'
    BY <2>1, <2>2, <2>3, <2>4 DEF Owned, Open
  <2>6. Prefix' /\ CleanupLast'
    BY <2>1, <2>2, <2>3, <2>4 DEF OInv, Prefix, CleanupLast, Walking
  <2> QED
    BY <2>3, <2>5, <2>6 DEF OInv
<1>4. CASE Announce(Loop)
  <2>1. CASE OutboxFaults /\ Catastrophe(Loop)
    BY <1>4, <2>1, CatastropheOutcome DEF Announce
  <2>2. pc[Loop] = "announce" /\ idx[Loop] = 1
    BY <1>4 DEF Announce, At, OInv, Prefix
  <2>3. CASE /\ needs_full_restart(obj[Loop])
             /\ Save(Loop, Restarted(obj[Loop]))
             /\ Goto(Loop, "stage")
             /\ UNCHANGED <<index, backlog, cur, idx, attempt, todo, copy>>
    <3> DEFINE run == Restarted(obj[Loop])
    <3>1. /\ run \in RunObject /\ run.status = obj[Loop].status
          /\ run.stages["CLEANUP"] = obj[Loop].stages["CLEANUP"]
      BY <1>2, RestartedType
    <3> HIDE DEF run
    <3>2. Save(Loop, run) /\ pc'[Loop] = "stage" /\ UNCHANGED <<container, cur, idx>>
      BY <1>4, <2>3 DEF Announce, Goto, host, run, TInv, TypeOK
    <3>3. run.status \in {"pending", "in_progress"}
      BY <2>2, <3>1 DEF OInv, Open, Unfinished, Walking
    <3>4. OkLeavesNothing' /\ state'[cur[Loop]] = run /\ obj'[Loop] = run
      BY <1>2, <3>1, <3>2, <3>3, SaveOutcome
    <3>5. Owned' /\ Open'
      BY <3>2, <3>3, <3>4 DEF Owned, Open
    <3>6. Prefix' /\ CleanupLast'
      BY <2>2, <3>1, <3>2, <3>4, PipelineLength DEF OInv, Prefix, CleanupLast, Walking
    <3> QED
      BY <3>4, <3>5, <3>6 DEF OInv
  <2>4. CASE /\ ~needs_full_restart(obj[Loop])
             /\ Goto(Loop, "stage")
             /\ UNCHANGED <<disk, cur, obj, idx, attempt, unflushed, todo, copy>>
    <3>1. pc'[Loop] = "stage"
      BY <2>4 DEF Goto, TInv, TypeOK
    <3>2. Owned' /\ Open' /\ Prefix' /\ CleanupLast'
      BY <1>4, <2>2, <2>4, <3>1, PipelineLength
         DEF Announce, OInv, Owned, Open, Prefix, CleanupLast,
             Walking, Unfinished, Owning, disk, host
    <3> QED
      BY <1>4, <2>4, <3>2 DEF Announce, OInv, OkLeavesNothing, disk, host
  <2> QED
    BY <1>4, <2>1, <2>3, <2>4 DEF Announce
<1>5. CASE AbortByFlag(Loop)
  <2>1. /\ Ended(obj[Loop], "aborted") \in RunObject
        /\ Ended(obj[Loop], "aborted").status = "aborted"
    BY <1>2, EndedType DEF RunStatus
  <2>2. "end" \in Location \ (Walking \cup Idling \cup {"popped"})
        /\ "end" \notin Unfinished
    BY DEF Location, Walking, Idling, Unfinished
  <2> QED
    BY <1>2, <1>5, <2>1, <2>2, LeaveOutcome DEF AbortByFlag, host
<1>6. CASE PassOver(Loop)
  <2>1. /\ pc[Loop] = "stage" /\ pc' = pc
        /\ idx[Loop] \in 1..Len(Pipeline) /\ idx'[Loop] = idx[Loop] + 1
        /\ obj[Loop].stages[Pipeline[idx[Loop]]] = "ok"
        /\ UNCHANGED <<state, container, obj, cur>>
    BY <1>2, <1>6, PipelineLength
       DEF PassOver, At, Settled, Stage, disk, host, TInv, TypeOK
  <2>2. idx[Loop] # Len(Pipeline)
    BY <2>1, PipelineAssumption DEF OInv, CleanupLast, Walking
  <2>3. Prefix'
    BY <2>1, PipelineLength DEF OInv, Prefix, Walking
  <2>4. CleanupLast'
    BY <2>1, <2>2, PipelineLength DEF OInv, CleanupLast, Walking
  <2> QED
    BY <2>1, <2>3, <2>4 DEF OInv, Owned, Open, OkLeavesNothing
<1>7. CASE StartStage(Loop)
  <2> DEFINE run == Mark(obj[Loop], Stage(Loop), "in_progress")
  <2>1. /\ pc[Loop] = "stage" /\ idx[Loop] \in 1..Len(Pipeline)
        /\ Stage(Loop) = Pipeline[idx[Loop]] /\ Stage(Loop) \in StageName
    BY <1>2, <1>7, PipelineLength DEF StartStage, At, Stage
  <2>2. /\ run \in RunObject /\ run.status = obj[Loop].status
        /\ run.stages[Stage(Loop)] = "in_progress"
        /\ \A t \in StageName \ {Stage(Loop)} : run.stages[t] = obj[Loop].stages[t]
    <3>1. "in_progress" \in StageStatus
      BY DEF StageStatus
    <3> QED
      BY <1>2, <2>1, <3>1, MarkType
  <2> HIDE DEF run
  <2>3. Save(Loop, run) /\ pc'[Loop] = "exec" /\ UNCHANGED <<container, cur, idx>>
    BY <1>7 DEF StartStage, Goto, host, run, TInv, TypeOK
  <2>4. run.status \in {"pending", "in_progress"}
    BY <2>1, <2>2 DEF OInv, Open, Unfinished, Walking
  <2>5. OkLeavesNothing' /\ state'[cur[Loop]] = run /\ obj'[Loop] = run
    BY <1>2, <2>2, <2>3, <2>4, SaveOutcome
  <2>6. Owned' /\ Open'
    BY <2>3, <2>4, <2>5 DEF Owned, Open
  <2>7. Prefix'
    <3>1. \A k \in 1..Len(Pipeline) :
             k < idx[Loop] => /\ obj[Loop].stages[Pipeline[k]] = "ok"
                              /\ Pipeline[k] \in StageName \ {Stage(Loop)}
      BY <2>1, PipelineLength, PipelineAssumption DEF OInv, Prefix, Walking
    <3> QED
      BY <2>2, <2>3, <2>5, <3>1 DEF Prefix
  <2>8. CleanupLast'
    BY <2>1, <2>2, <2>3, <2>5 DEF OInv, CleanupLast, Walking, StageName
  <2> QED
    BY <2>5, <2>6, <2>7, <2>8 DEF OInv
<1>8. CASE FinishOk(Loop)
  <2> DEFINE run == Ended(obj[Loop], "ok")
  <2>1. /\ run \in RunObject /\ run.status = "ok" /\ run.stages = obj[Loop].stages
    BY <1>2, EndedType DEF RunStatus
  <2> HIDE DEF run
  <2>2. /\ Save(Loop, run) /\ pc'[Loop] = "reported" /\ pc[Loop] = "stage"
        /\ idx[Loop] > Len(Pipeline) /\ UNCHANGED <<container, cur, idx>>
    BY <1>8 DEF FinishOk, At, Goto, host, run, TInv, TypeOK
  <2>3. /\ state'[cur[Loop]] = run /\ obj'[Loop] = run
        /\ \A r \in Runs \ {cur[Loop]} : state'[r] = state[r]
    BY <1>2, <2>1, <2>2, SaveType
  <2>4. /\ \A i \in 1..Len(Pipeline) : run.stages[Pipeline[i]] = "ok"
        /\ container[cur[Loop]] = "none"
    BY <1>2, <2>1, <2>2, PipelineLength DEF OInv, Prefix, CleanupLast, Walking
  <2>5. OkLeavesNothing'
    BY <2>2, <2>3, <2>4 DEF OInv, OkLeavesNothing
  <2>6. Owned' /\ Open' /\ Prefix' /\ CleanupLast'
    BY <2>2, <2>3 DEF Owned, Open, Prefix, CleanupLast, Walking, Unfinished
  <2> QED
    BY <2>5, <2>6 DEF OInv
<1>9. CASE Notify(Loop)
  <2>1. CASE OutboxFaults /\ Catastrophe(Loop)
    BY <1>9, <2>1, CatastropheOutcome DEF Notify
  <2>2. CASE Goto(Loop, "end") /\ UNCHANGED <<disk, cur, obj, idx, attempt, unflushed,
                                              todo, copy>>
    <3>1. pc'[Loop] = "end" /\ pc[Loop] = "reported"
      BY <1>9, <2>2 DEF Notify, At, Goto, TInv, TypeOK
    <3>2. Owned' /\ Open' /\ Prefix' /\ CleanupLast'
      BY <2>2, <3>1 DEF OInv, Owned, Open, Prefix, CleanupLast,
                        Walking, Unfinished, Owning, disk
    <3> QED
      BY <1>9, <2>2, <3>2 DEF Notify, OInv, OkLeavesNothing, disk, host
  <2> QED
    BY <1>9, <2>1, <2>2 DEF Notify
<1> QED
  BY <1>3, <1>4, <1>5, <1>6, <1>7, <1>8, <1>9


LEMMA MarkFailedOutcome ==
    ASSUME TInv, OInv, At(Loop, "exec") \/ At(Loop, "repairing"), MarkFailed(Loop),
           UNCHANGED container
    PROVE  OInv'
<1> USE LoopIn
<1>1. /\ Stage(Loop) \in StageName /\ cur[Loop] \in Runs /\ obj[Loop] \in RunObject
      /\ obj[Loop].status \in {"pending", "in_progress"}
  BY InStageFacts DEF At, InStage, OInv, Open, Unfinished, Walking
<1>2. /\ Mark(obj[Loop], Stage(Loop), "failed") \in RunObject
      /\ Mark(obj[Loop], Stage(Loop), "failed").status = obj[Loop].status
  <2>1. "failed" \in StageStatus
    BY DEF StageStatus
  <2> QED
    BY <1>1, <2>1, MarkType
<1>3. "failed" \in Location \ (Walking \cup Idling \cup {"popped"})
  BY DEF Location, Walking, Idling
<1> QED
  BY <1>1, <1>2, <1>3, LeaveOutcome DEF MarkFailed

LEMMA StageOutcome ==
    ASSUME TInv, OInv,
           \/ PlainStageOk(Loop) \/ ReadyWaitOk(Loop) \/ CapabilityOk(Loop)
           \/ StageFails(Loop) \/ StageSkips(Loop)
    PROVE  OInv'
<1> USE LoopIn
<1>1. CASE PlainStageOk(Loop) \/ ReadyWaitOk(Loop) \/ CapabilityOk(Loop)
  <2>1. At(Loop, "exec") /\ MarkOk(Loop) /\ Stage(Loop) # "CLEANUP" /\ UNCHANGED container
    BY <1>1 DEF PlainStageOk, ReadyWaitOk, CapabilityOk, host
  <2> QED
    BY <2>1, MarkOkOutcome
<1>2. CASE StageFails(Loop)
  BY <1>2, MarkFailedOutcome DEF StageFails, host
<1>3. CASE StageSkips(Loop)
  <2>1. /\ Stage(Loop) \in StageName /\ cur[Loop] \in Runs /\ obj[Loop] \in RunObject
        /\ obj[Loop].status \in {"pending", "in_progress"}
    BY <1>3, InStageFacts DEF StageSkips, At, InStage, OInv, Open, Unfinished, Walking
  <2>2. /\ Mark(obj[Loop], Stage(Loop), "skipped") \in RunObject
        /\ Mark(obj[Loop], Stage(Loop), "skipped").status = obj[Loop].status
    <3>1. "skipped" \in StageStatus
      BY DEF StageStatus
    <3> QED
      BY <2>1, <3>1, MarkType
  <2>3. "skipped" \in Location \ (Walking \cup Idling \cup {"popped"})
    BY DEF Location, Walking, Idling
  <2> QED
    BY <1>3, <2>1, <2>2, <2>3, LeaveOutcome DEF StageSkips, host
<1> QED
  BY <1>1, <1>2, <1>3

\* DEPLOY creates and removes the container of a run that is not over.
LEMMA DeployOutcome ==
    ASSUME TInv, OInv,
           \/ DeploySpawn(Loop) \/ DeployAttemptFails(Loop)
           \/ DeployOk(Loop) \/ DeployFails(Loop)
    PROVE  OInv'
<1> USE LoopIn
<1>1. CASE DeploySpawn(Loop) \/ DeployAttemptFails(Loop)
  <2>1. /\ pc[Loop] \in {"exec", "deploying", "repairing"}
        /\ pc'[Loop] \in {"deploying", "repairing"}
        /\ UNCHANGED <<state, cur, obj, idx>>
    BY <1>1 DEF DeploySpawn, DeployAttemptFails, At, Goto, disk, TInv, TypeOK
  <2>2. /\ cur[Loop] \in Runs
        /\ \A r \in Runs \ {cur[Loop]} : container'[r] = container[r]
    BY <1>1, <2>1 DEF DeploySpawn, DeployAttemptFails, TInv, TypeOK, Placed, Idling
  <2>3. OkLeavesNothing'
    BY <2>1, <2>2, SpawnOutcome DEF Unfinished, Walking
  <2>4. Pipeline[idx[Loop]] = "DEPLOY"
    BY <1>1 DEF DeploySpawn, DeployAttemptFails, At, Stage, OInv, CleanupLast
  <2>5. Owned' /\ Open' /\ Prefix' /\ CleanupLast'
    BY <2>1, <2>4 DEF OInv, Owned, Open, Prefix, CleanupLast, Walking, Unfinished, Owning
  <2> QED
    BY <2>3, <2>5 DEF OInv
<1>2. CASE DeployOk(Loop)
  <2>1. Stage(Loop) # "CLEANUP"
    BY <1>2 DEF DeployOk, At, Stage, OInv, CleanupLast
  <2> QED
    BY <1>2, <2>1, MarkOkOutcome DEF DeployOk, host
<1>3. CASE DeployFails(Loop)
  BY <1>3, MarkFailedOutcome DEF DeployFails, host
<1> QED
  BY <1>1, <1>2, <1>3


LEMMA CleanupOutcome ==
    ASSUME TInv, OInv,
           CleanupRemoves(Loop) \/ CleanupOk(Loop) \/ BestEffortCleanupFails(Loop)
    PROVE  OInv'
<1> USE LoopIn
<1>1. /\ pc[Loop] \in {"exec", "unwind", "rollback"}
      /\ pc[Loop] = "exec" => At(Loop, "exec")
  BY DEF CleanupRemoves, CleanupOk, BestEffortCleanupFails, Cleaning, At
<1>2. cur[Loop] \in Runs /\ obj[Loop] \in RunObject
  BY <1>1 DEF TInv, TypeOK, Placed, Idling
<1>3. CASE CleanupRemoves(Loop)
  <2>1. /\ container' = [container EXCEPT ![cur[Loop]] = "none"]
        /\ UNCHANGED <<state, pc, cur, obj, idx>>
    BY <1>3 DEF CleanupRemoves, disk, memory
  <2>2. OkLeavesNothing'
    BY ZenonT(40), <1>2, <2>1 DEF OInv, OkLeavesNothing, TInv, TypeOK
  <2>3. Owned' /\ Open' /\ Prefix' /\ CleanupLast'
    BY <1>1, <2>1 DEF OInv, Owned, Open, Prefix, CleanupLast
  <2> QED
    BY <2>2, <2>3 DEF OInv
<1>4. CASE CleanupOk(Loop) /\ pc[Loop] = "exec"
  BY <1>1, <1>4, MarkOkOutcome DEF CleanupOk, Removed, host
<1>5. ASSUME NEW st \in {"ok", "failed"}, pc[Loop] # "exec",
             Save(Loop, Mark(obj[Loop], "CLEANUP", st)), Goto(Loop, AfterCleanup(Loop)),
             UNCHANGED <<container, cur>>
      PROVE  OInv'
  <2> DEFINE run == Mark(obj[Loop], "CLEANUP", st)
  <2>1. "CLEANUP" \in StageName /\ st \in StageStatus
    BY DEF StageName, StageStatus
  <2>2. run \in RunObject /\ run.status = obj[Loop].status
    BY <1>2, <2>1, MarkType
  <2> HIDE DEF run
  <2>3. CASE pc[Loop] = "unwind"
    <3>1. AfterCleanup(Loop) = "unwound" /\ run.status \in {"pending", "in_progress"}
      BY <2>2, <2>3 DEF AfterCleanup, OInv, Open, Unfinished
    <3>2. "unwound" \in Location \ (Walking \cup Idling \cup {"popped"})
      BY DEF Location, Walking, Idling
    <3> QED
      BY <1>2, <1>5, <2>2, <3>1, <3>2, LeaveOutcome DEF run
  <2>4. CASE pc[Loop] = "rollback"
    <3>1. AfterCleanup(Loop) = "end" /\ run.status = "aborted"
      BY <2>2, <2>4 DEF AfterCleanup, OInv, Open
    <3>2. /\ "end" \in Location \ (Walking \cup Idling \cup {"popped"})
          /\ "end" \notin Unfinished
      BY DEF Location, Walking, Idling, Unfinished
    <3> QED
      BY <1>2, <1>5, <2>2, <3>1, <3>2, LeaveOutcome DEF run
  <2> QED
    BY <1>1, <1>5, <2>3, <2>4
<1>6. CASE CleanupOk(Loop) /\ pc[Loop] # "exec"
  BY <1>5, <1>6 DEF CleanupOk, host
<1>7. CASE BestEffortCleanupFails(Loop)
  BY <1>5, <1>7 DEF BestEffortCleanupFails, host
<1> QED
  BY <1>3, <1>4, <1>6, <1>7

LEMMA UnwindOutcome ==
    ASSUME TInv, OInv,
           Unwind(Loop) \/ RecordFailure(Loop) \/ RecordSkip(Loop) \/ Rollback(Loop)
    PROVE  OInv'
<1> USE LoopIn
<1>1. pc[Loop] \in {"failed", "unwound", "skipped", "aborted"}
  BY DEF Unwind, RecordFailure, RecordSkip, Rollback, At
<1>2. cur[Loop] \in Runs /\ obj[Loop] \in RunObject
  BY <1>1 DEF TInv, TypeOK, Placed, Idling
<1>3. /\ Mark(obj[Loop], "CLEANUP", "in_progress") \in RunObject
      /\ Mark(obj[Loop], "CLEANUP", "in_progress").status = obj[Loop].status
  <2>1. "CLEANUP" \in StageName /\ "in_progress" \in StageStatus
    BY DEF StageName, StageStatus
  <2> QED
    BY <1>2, <2>1, MarkType
<1>4. \A st \in {"failed", "aborted"} :
         Ended(obj[Loop], st) \in RunObject /\ Ended(obj[Loop], st).status = st
  BY <1>2, EndedType DEF RunStatus
<1>5. {"unwind", "reported", "aborted", "rollback", "end"}
         \subseteq Location \ (Walking \cup Idling \cup {"popped"})
  BY DEF Location, Walking, Idling
<1>6. {"reported", "aborted", "rollback", "end"} \cap Unfinished = {}
  BY DEF Unfinished, Walking
<1>7. CASE Unwind(Loop)
  <2>1. obj[Loop].status \in {"pending", "in_progress"}
    BY <1>7 DEF Unwind, At, OInv, Open, Unfinished
  <2> QED
    BY <1>2, <1>3, <1>5, <1>7, <2>1, LeaveOutcome DEF Unwind, host
<1>8. CASE RecordFailure(Loop)
  BY <1>2, <1>4, <1>5, <1>6, <1>8, LeaveOutcome DEF RecordFailure, host
<1>9. CASE RecordSkip(Loop)
  BY <1>2, <1>4, <1>5, <1>6, <1>9, LeaveOutcome DEF RecordSkip, host
<1>10. CASE Rollback(Loop)
  <2>1. pc[Loop] = "aborted" /\ obj[Loop].status = "aborted"
    BY <1>10 DEF Rollback, At, OInv, Open
  <2>2. CASE obj[Loop].stages["CLEANUP"] \notin {"ok", "skipped"}
    BY <1>2, <1>3, <1>5, <1>6, <1>10, <2>1, <2>2, LeaveOutcome DEF Rollback, host
  <2>3. CASE obj[Loop].stages["CLEANUP"] \in {"ok", "skipped"}
    <3>1. /\ pc'[Loop] = "end"
          /\ UNCHANGED <<state, container, cur, obj>>
      BY <1>10, <2>3 DEF Rollback, Goto, disk, host, TInv, TypeOK
    <3>2. Owned' /\ Open' /\ Prefix' /\ CleanupLast'
      BY <2>1, <3>1 DEF OInv, Owned, Open, Prefix, CleanupLast,
                        Walking, Unfinished, Owning
    <3> QED
      BY <3>1, <3>2 DEF OInv, OkLeavesNothing
  <2> QED
    BY <2>2, <2>3
<1> QED
  BY <1>7, <1>8, <1>9, <1>10

LEMMA EnvironmentOutcome ==
    ASSUME TInv, OInv, Operators = {}, Environment
    PROVE  OInv'
<1> USE LoopIn
<1>1. ASSUME NEW r \in Runs, ContainerReady(r) \/ ContainerDies(r)
      PROVE  OInv'
  <2>1. /\ container[r] # "none"
        /\ \A q \in Runs \ {r} : container'[q] = container[q]
        /\ UNCHANGED <<state, pc, cur, obj, idx>>
    BY <1>1 DEF ContainerReady, ContainerDies, disk, memory, TInv, TypeOK
  <2>2. pc[Loop] = "stage" => cur[Loop] \in Runs
    BY DEF TInv, Placed, Idling
  <2> QED
    BY <2>1, <2>2 DEF OInv, Owned, Open, Prefix, CleanupLast, OkLeavesNothing
<1>2. ASSUME NEW r \in Runs, EditAbortFlag(r)
      PROVE  OInv'
  <2>1. pc[Loop] = "down" /\ UNCHANGED <<container, pc, cur, obj, idx>>
    BY <1>2 DEF EditAbortFlag, host, memory
  <2>2. \A q \in Runs : /\ state'[q].status = state[q].status
                        /\ state'[q].stages = state[q].stages
    <3>1. state' = [state EXCEPT ![r] = [state[r] EXCEPT !.abort = TRUE]]
      BY <1>2 DEF EditAbortFlag
    <3>2. /\ [state[r] EXCEPT !.abort = TRUE].status = state[r].status
          /\ [state[r] EXCEPT !.abort = TRUE].stages = state[r].stages
      BY DEF TInv, TypeOK, RunObject
    <3> QED
      BY <3>1, <3>2 DEF TInv, TypeOK
  <2>3. Owned' /\ Open' /\ Prefix' /\ CleanupLast'
    BY <2>1 DEF OInv, Owned, Open, Prefix, CleanupLast, Walking, Unfinished, Owning
  <2> QED
    BY <2>1, <2>2, <2>3 DEF OInv, OkLeavesNothing
<1>3. ASSUME NEW p \in Procs, Crash(p)
      PROVE  OInv'
  <2>1. p = Loop
    BY DEF Procs
  <2> QED
    BY <1>3, <2>1, ReleaseOutcome DEF Crash, Exit, Idling, disk, host
<1> QED
  BY <1>1, <1>2, <1>3 DEF Environment

LEMMA StepOutcome ==
    ASSUME Operators = {}
    PROVE  TInv /\ OInv /\ [Next]_vars => OInv'
<1> SUFFICES ASSUME TInv, OInv, [Next]_vars PROVE OInv'
  OBVIOUS
<1>1. CASE LoopStep
  BY <1>1, ServiceOutcome, QueueOutcome, WalkOutcome, StageOutcome, DeployOutcome,
     CleanupOutcome, UnwindOutcome DEF LoopStep, ProcessStep, RunPipeline
<1>2. CASE Environment
  BY <1>2, EnvironmentOutcome
<1>3. CASE UNCHANGED vars
  BY <1>3 DEF vars, disk, host, memory, OInv, OkLeavesNothing,
              Owned, Open, Prefix, CleanupLast
<1> QED
  BY <1>1, <1>2, <1>3 DEF Next

\* As long as cmd_loop is the only process that executes runs, a run whose
\* state.json says OK has been through every stage of its pipeline and has no
\* container left, however many runs there are, however often the loop dies and
\* whatever docker and the outbox refuse.
THEOREM OkRunsLeaveNothing ==
    ASSUME Operators = {}
    PROVE  Spec => []OkLeavesNothing
<1>1. OInv => OkLeavesNothing
  BY DEF OInv
<1>2. TInv /\ OInv /\ [Next]_vars => OInv'
  BY StepOutcome
<1> QED
  BY <1>1, <1>2, InitOutcome, TypeInvariance, PTL DEF Spec

=============================================================================
