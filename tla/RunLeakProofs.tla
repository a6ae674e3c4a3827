----------------------------- MODULE RunLeakProofs -----------------------------
(***************************************************************************)
(* The containers a run leaves behind, and what they do to the runs after  *)
(* it, for every set of runs, pipeline and docker host, as long as no      *)
(* process dies and cmd_loop is the only one that executes runs.           *)
(***************************************************************************)
EXTENDS RunIndexProofs

-----------------------------------------------------------------------------
(* The inductive invariant, on top of TInv, OInv and XInv *)

\* Where no process dies the sweep finds nothing, and nobody gets to edit the
\* abort flag of a run: the service is only down before it has ever started.
Undisturbed ==
    /\ todo[Loop] = {} /\ pc[Loop] # "swept" /\ ~obj[Loop].abort
    /\ pc[Loop] = "sweep" => cur[Loop] \notin Runs
    /\ pc[Loop] = "down" =>
          \A r \in Runs : index[r] = "absent" /\ state[r].status = "absent"

\* The container of the run being executed.  On each way out of the stages
\* CLEANUP is still to be tried, or it has removed it, or has failed.
Held ==
    /\ pc[Loop] \in {"popped", "registered", "announce"} => container[cur[Loop]] = "none"
    /\ obj[Loop].stages["CLEANUP"] # "skipped"
    /\ pc[Loop] \in {"failed", "skipped", "aborted"} => obj[Loop].stages["CLEANUP"] # "ok"
    /\ pc[Loop] = "failed" /\ Pipeline[idx[Loop]] = "CLEANUP" =>
          obj[Loop].stages["CLEANUP"] = "failed"
    /\ pc[Loop] \in {"unwound", "reported", "end"} =>
          container[cur[Loop]] = "none" \/ obj[Loop].stages["CLEANUP"] = "failed"

\* The containers of the other runs.
Left ==
    \A r \in Runs \ {cur[Loop]} :
        \/ container[r] = "none"
        \/ r \notin backlog /\ state[r].stages["CLEANUP"] = "failed"

\* A run whose container has answered for another one is over.
Borrowed ==
    \A r, q \in Runs :
        capability[r] = q /\ q # r =>
            q # cur[Loop] /\ q \notin backlog /\ state[q].stages["CLEANUP"] = "failed"

LInv == Undisturbed /\ Held /\ Left /\ Borrowed

\* The abort flag is only ever copied.
LEMMA AbortKept ==
    ASSUME NEW run \in RunObject
    PROVE  /\ \A s \in StageName, st \in StageStatus : Mark(run, s, st).abort = run.abort
           /\ \A st \in RunStatus : Ended(run, st).abort = run.abort
           /\ Restarted(run).abort = run.abort
           /\ ~FreshRun.abort
  BY DEF Mark, Ended, Restarted, FreshRun, RunObject

LEMMA InitLeak == Init => LInv
<1> SUFFICES ASSUME Init PROVE LInv
  OBVIOUS
<1> USE LoopIn
<1>1. Undisturbed
  BY ConstantAssumption DEF Init, Undisturbed, NoFile, FreshRun
<1>2. Held
  BY FreshType DEF Init, Held
<1>3. Left /\ Borrowed
  BY ConstantAssumption DEF Init, Left, Borrowed
<1> QED
  BY <1>1, <1>2, <1>3 DEF LInv

\* A save of the run in the loop's hands.
LEMMA SaveLeak ==
    ASSUME TInv, LInv, NEW run \in RunObject,
           NEW l \in Location \ {"down", "sweep", "swept", "popped"},
           cur[Loop] \in Runs, cur[Loop] \notin backlog,
           Save(Loop, run), Goto(Loop, l), UNCHANGED <<backlog, container, cur, todo>>,
           l = "failed" => UNCHANGED idx,
           ~run.abort, run.stages["CLEANUP"] # "skipped",
           l \in {"registered", "announce"} => container[cur[Loop]] = "none",
           l \in {"failed", "skipped", "aborted"} => run.stages["CLEANUP"] # "ok",
           l = "failed" /\ Pipeline[idx[Loop]] = "CLEANUP" =>
              run.stages["CLEANUP"] = "failed",
           l \in {"unwound", "reported", "end"} =>
              container[cur[Loop]] = "none" \/ run.stages["CLEANUP"] = "failed"
    PROVE  Undisturbed' /\ Held' /\ Left' /\ (UNCHANGED capability => Borrowed')
<1> USE LoopIn
<1>1. /\ obj'[Loop] = run /\ pc'[Loop] = l
      /\ \A r \in Runs \ {cur[Loop]} : state'[r] = state[r]
  BY SaveType, GotoType
<1>2. Undisturbed' /\ Held'
  BY <1>1 DEF LInv, Undisturbed, Held
<1>3. Left' /\ (UNCHANGED capability => Borrowed')
  BY <1>1 DEF LInv, Left, Borrowed
<1> QED
  BY <1>2, <1>3

\* The loop has done with its run.
LEMMA ReleaseLeak ==
    ASSUME TInv, OInv, XInv, LInv, Release(Loop, "idle"),
           At(Loop, "end") \/ At(Loop, "sweep"),
           UNCHANGED <<state, index, backlog, container, capability, todo>>
    PROVE  LInv'
<1> USE LoopIn
<1>1. /\ pc'[Loop] = "idle" /\ cur'[Loop] = None /\ obj'[Loop] = FreshRun
      /\ None \notin Runs
  BY ConstantAssumption DEF Release, Goto, TInv, TypeOK
<1>2. Undisturbed' /\ Held'
  BY <1>1, FreshType, AbortKept DEF LInv, Undisturbed, Held
<1>3. Left'
  <2>1. CASE At(Loop, "sweep")
    BY <1>1, <2>1 DEF At, LInv, Undisturbed, Left
  <2>2. CASE At(Loop, "end")
    <3>1. cur[Loop] \notin backlog
      BY <2>2, InHand DEF At, Ending
    <3>2. \/ container[cur[Loop]] = "none"
          \/ state[cur[Loop]].stages["CLEANUP"] = "failed"
      BY <2>2 DEF At, LInv, Held, OInv, Owned, Owning
    <3> QED
      BY <1>1, <3>1, <3>2 DEF LInv, Left
  <2> QED
    BY <2>1, <2>2
<1>4. Borrowed'
  BY <1>1 DEF LInv, Borrowed
<1> QED
  BY <1>2, <1>3, <1>4 DEF LInv


-----------------------------------------------------------------------------
(* The actions *)

LEMMA ServiceLeak ==
    ASSUME TInv, OInv, XInv, LInv,
           StartLoop \/ SweepLoad \/ SweepSave \/ SweepDone \/ IdlePoll
    PROVE  LInv'
<1> USE LoopIn
<1>1. CASE StartLoop
  <2>1. /\ pc[Loop] = "down" /\ pc'[Loop] = "sweep" /\ todo'[Loop] = Orphans
        /\ UNCHANGED <<state, index, backlog, container, capability, cur, obj, idx>>
    BY <1>1 DEF StartLoop, Goto, disk, host, TInv, TypeOK
  <2>2. Orphans = {} /\ cur[Loop] \notin Runs
    BY <2>1 DEF LInv, Undisturbed, Orphans, XInv, Sweeping
  <2>3. Undisturbed' /\ Held' /\ Left' /\ Borrowed'
    BY <2>1, <2>2 DEF LInv, Undisturbed, Held, Left, Borrowed
  <2> QED
    BY <2>3 DEF LInv
<1>2. CASE SweepLoad \/ SweepSave
  BY <1>2 DEF SweepLoad, SweepSave, At, LInv, Undisturbed
<1>3. CASE SweepDone
  BY <1>3, ReleaseLeak DEF SweepDone, disk, host
<1>4. CASE IdlePoll
  BY <1>4 DEF IdlePoll, vars, disk, host, memory, LInv, Undisturbed, Held, Left, Borrowed
<1> QED
  BY <1>1, <1>2, <1>3, <1>4

LEMMA QueueLeak ==
    ASSUME TInv, OInv, XInv, LInv,
           Pop(Loop) \/ Register(Loop) \/ FlushIndex(Loop) \/ Return(Loop)
    PROVE  LInv'
<1> USE LoopIn
<1>1. CASE Pop(Loop)
  <2>1. PICK r \in backlog : backlog' = backlog \ {r} /\ cur' = [cur EXCEPT ![Loop] = r]
    BY <1>1 DEF Pop
  <2>2. /\ pc[Loop] = "idle" /\ pc'[Loop] = "popped" /\ cur'[Loop] = r
        /\ UNCHANGED <<state, index, container, capability, obj, idx, todo>>
    BY <1>1, <2>1, ConstantAssumption DEF Pop, At, Goto, host, TInv, TypeOK
  <2>3. cur[Loop] \notin Runs /\ r \in Runs /\ container[r] = "none"
    BY <2>2 DEF XInv, Sweeping, LInv, Left, TInv, TypeOK
  <2>4. Undisturbed' /\ Held' /\ Left' /\ Borrowed'
    BY <2>1, <2>2, <2>3 DEF LInv, Undisturbed, Held, Left, Borrowed
  <2> QED
    BY <2>4 DEF LInv
<1>2. CASE Register(Loop)
  <2>1. /\ pc[Loop] = "popped" /\ cur[Loop] \in Runs /\ cur[Loop] \notin backlog
        /\ container[cur[Loop]] = "none"
    BY <1>2, InHand DEF Register, At, LInv, Held
  <2>2. Save(Loop, FreshRun) /\ UNCHANGED <<backlog, container, capability, cur, todo>>
    BY <1>2 DEF Register, host
  <2>3. Goto(Loop, "registered") /\ "registered" \in Location
    BY <1>2 DEF Register, Location
  <2> QED
    BY <2>1, <2>2, <2>3, FreshType, AbortKept, SaveLeak DEF LInv
<1>3. CASE FlushIndex(Loop)
  <2>1. /\ pc[Loop] # "down"
        /\ UNCHANGED <<state, backlog, container, capability, pc, cur, obj, idx, todo>>
    BY <1>3 DEF FlushIndex, host, XInv, Sweeping
  <2>2. Undisturbed' /\ Held' /\ Left' /\ Borrowed'
    BY <2>1 DEF LInv, Undisturbed, Held, Left, Borrowed
  <2> QED
    BY <2>2 DEF LInv
<1>4. CASE Return(Loop)
  BY <1>4, ReleaseLeak DEF Return, disk, host
<1> QED
  BY <1>1, <1>2, <1>3, <1>4

\* A location change without a save.
LEMMA MoveLeak ==
    ASSUME TInv, LInv, NEW l \in {"stage", "end", "deploying", "repairing"},
           pc' = [pc EXCEPT ![Loop] = l],
           cur[Loop] \in Runs,
           \A r \in Runs \ {cur[Loop]} : container'[r] = container[r],
           l = "end" =>
              container'[cur[Loop]] = "none" \/ obj[Loop].stages["CLEANUP"] = "failed",
           UNCHANGED <<state, index, backlog, capability, cur, obj, todo>>
    PROVE  LInv'
<1> USE LoopIn
<1>1. pc'[Loop] = l
  BY DEF TInv, TypeOK
<1>2. Undisturbed' /\ Held' /\ Left' /\ Borrowed'
  BY <1>1 DEF LInv, Undisturbed, Held, Left, Borrowed
<1> QED
  BY <1>2 DEF LInv

LEMMA CatastropheLeak ==
    ASSUME TInv, OInv, XInv, LInv, At(Loop, "announce") \/ At(Loop, "reported"),
           Catastrophe(Loop), UNCHANGED host
    PROVE  LInv'
<1> USE LoopIn
<1>1. cur[Loop] \in Runs /\ obj[Loop] \in RunObject /\ cur[Loop] \notin backlog
  BY InHand DEF At, Ending
<1> DEFINE run == Ended(obj[Loop], "failed")
<1>2. run \in RunObject /\ run.stages = obj[Loop].stages /\ run.abort = obj[Loop].abort
  BY <1>1, EndedType, AbortKept DEF RunStatus
<1>3. /\ Save(Loop, run) /\ Goto(Loop, "end") /\ "end" \in Location
      /\ UNCHANGED <<backlog, container, capability, cur, todo>>
  BY DEF Catastrophe, host, Location
<1>4. \/ container[cur[Loop]] = "none"
      \/ obj[Loop].stages["CLEANUP"] = "failed"
  BY DEF At, LInv, Held
<1> HIDE DEF run
<1>5. ~run.abort /\ run.stages["CLEANUP"] # "skipped"
  BY <1>2 DEF LInv, Undisturbed, Held
<1> QED
  BY <1>1, <1>2, <1>3, <1>4, <1>5, SaveLeak DEF LInv


LEMMA WalkLeak ==
    ASSUME TInv, OInv, XInv, LInv,
           \/ Begin(Loop) \/ Announce(Loop) \/ AbortByFlag(Loop) \/ PassOver(Loop)
           \/ StartStage(Loop) \/ FinishOk(Loop) \/ Notify(Loop)
    PROVE  LInv'
<1> USE LoopIn
<1>1. pc[Loop] \in {"registered", "announce", "stage", "reported"}
  BY DEF Begin, Announce, AbortByFlag, PassOver, StartStage, FinishOk, Notify, At
<1>2. /\ cur[Loop] \in Runs /\ obj[Loop] \in RunObject /\ cur[Loop] \notin backlog
      /\ idx[Loop] \in 1..(Len(Pipeline) + 1)
  BY <1>1, InHand DEF Doing, Ending, TInv, TypeOK
<1>3. ~obj[Loop].abort /\ obj[Loop].stages["CLEANUP"] # "skipped"
  BY DEF LInv, Undisturbed, Held
<1>4. {"announce", "stage", "exec", "reported", "end"}
         \subseteq Location \ {"down", "sweep", "swept", "popped"}
  BY DEF Location
<1>5. CASE Begin(Loop)
  <2> DEFINE run == Ended(obj[Loop], "in_progress")
  <2>1. run \in RunObject /\ run.stages = obj[Loop].stages /\ run.abort = obj[Loop].abort
    BY <1>2, EndedType, AbortKept DEF RunStatus
  <2>2. /\ Save(Loop, run) /\ Goto(Loop, "announce") /\ container[cur[Loop]] = "none"
        /\ UNCHANGED <<backlog, container, capability, cur, todo>>
    BY <1>5 DEF Begin, At, host, LInv, Held
  <2> HIDE DEF run
  <2> QED
    BY <1>2, <1>3, <1>4, <2>1, <2>2, SaveLeak DEF LInv
<1>6. CASE Announce(Loop)
  <2>1. CASE OutboxFaults /\ Catastrophe(Loop)
    BY <1>6, <2>1, CatastropheLeak DEF Announce
  <2>2. CASE /\ needs_full_restart(obj[Loop])
             /\ Save(Loop, Restarted(obj[Loop]))
             /\ Goto(Loop, "stage")
             /\ UNCHANGED <<index, backlog, cur, idx, attempt, todo, copy>>
    <3>1. /\ Restarted(obj[Loop]) \in RunObject
          /\ ~Restarted(obj[Loop]).abort
          /\ Restarted(obj[Loop]).stages["CLEANUP"] # "skipped"
      BY <1>2, <1>3, RestartedType, AbortKept
    <3>2. UNCHANGED <<backlog, container, capability, cur, todo>>
      BY <1>6, <2>2 DEF Announce, host
    <3> QED
      BY <1>2, <1>4, <2>2, <3>1, <3>2, SaveLeak DEF LInv
  <2>3. CASE /\ ~needs_full_restart(obj[Loop])
             /\ Goto(Loop, "stage")
             /\ UNCHANGED <<disk, cur, obj, idx, attempt, unflushed, todo, copy>>
    BY <1>2, <1>6, <2>3, MoveLeak DEF Announce, Goto, disk, host
  <2> QED
    BY <1>6, <2>1, <2>2, <2>3 DEF Announce
<1>7. CASE AbortByFlag(Loop)
  BY <1>3, <1>7 DEF AbortByFlag
<1>8. CASE PassOver(Loop)
  <2>1. pc[Loop] = "stage" /\ UNCHANGED <<disk, host, pc, cur, obj, todo>>
    BY <1>8 DEF PassOver, At
  <2>2. Undisturbed' /\ Held' /\ Left' /\ Borrowed'
    BY <2>1 DEF LInv, Undisturbed, Held, Left, Borrowed, disk, host
  <2> QED
    BY <2>2 DEF LInv
<1>9. CASE StartStage(Loop)
  <2> DEFINE run == Mark(obj[Loop], Stage(Loop), "in_progress")
  <2>1. Stage(Loop) \in StageName /\ "in_progress" \in StageStatus
    BY <1>2, <1>9, PipelineLength DEF StartStage, Stage, StageStatus
  <2>2. /\ run \in RunObject /\ run.abort = obj[Loop].abort
        /\ run.stages["CLEANUP"] \in {obj[Loop].stages["CLEANUP"], "in_progress"}
    <3>1. /\ run \in RunObject /\ run.abort = obj[Loop].abort
          /\ run.stages[Stage(Loop)] = "in_progress"
          /\ \A t \in StageName \ {Stage(Loop)} : run.stages[t] = obj[Loop].stages[t]
      BY <1>2, <2>1, MarkType, AbortKept
    <3>2. "CLEANUP" \in StageName
      BY DEF StageName
    <3> HIDE DEF run
    <3> QED
      BY <3>1, <3>2
  <2>3. /\ Save(Loop, run) /\ Goto(Loop, "exec")
        /\ UNCHANGED <<backlog, container, capability, cur, todo>>
    BY <1>9 DEF StartStage, host
  <2> HIDE DEF run
  <2> QED
    BY <1>2, <1>3, <1>4, <2>2, <2>3, SaveLeak DEF LInv
<1>10. CASE FinishOk(Loop)
  <2> DEFINE run == Ended(obj[Loop], "ok")
  <2>1. run \in RunObject /\ run.stages = obj[Loop].stages /\ run.abort = obj[Loop].abort
    BY <1>2, EndedType, AbortKept DEF RunStatus
  <2>2. /\ Save(Loop, run) /\ Goto(Loop, "reported") /\ container[cur[Loop]] = "none"
        /\ UNCHANGED <<backlog, container, capability, cur, todo>>
    BY <1>10 DEF FinishOk, At, host, OInv, CleanupLast
  <2> HIDE DEF run
  <2> QED
    BY <1>2, <1>3, <1>4, <2>1, <2>2, SaveLeak DEF LInv
<1>11. CASE Notify(Loop)
  <2>1. CASE OutboxFaults /\ Catastrophe(Loop)
    BY <1>11, <2>1, CatastropheLeak DEF Notify
  <2>2. CASE Goto(Loop, "end") /\ UNCHANGED <<disk, cur, obj, idx, attempt, unflushed,
                                              todo, copy>>
    <3>1. \/ container[cur[Loop]] = "none"
          \/ obj[Loop].stages["CLEANUP"] = "failed"
      BY <1>11 DEF Notify, At, LInv, Held
    <3> QED
      BY <1>2, <1>11, <2>2, <3>1, MoveLeak DEF Notify, Goto, disk, host
  <2> QED
    BY <1>11, <2>1, <2>2 DEF Notify
<1> QED
  BY <1>5, <1>6, <1>7, <1>8, <1>9, <1>10, <1>11


\* A stage that is ok, failed or skipped.  CLEANUP cannot be skipped, and is ok
\* only once the container is gone.
LEMMA MarkLeak ==
    ASSUME TInv, OInv, XInv, LInv, pc[Loop] \in {"exec", "deploying", "repairing"},
           NEW st \in {"ok", "failed", "skipped"}, NEW l \in {"stage", "failed", "skipped"},
           Save(Loop, Mark(obj[Loop], Stage(Loop), st)), Goto(Loop, l),
           UNCHANGED <<backlog, container, cur, todo>>,
           l = "stage" <=> st = "ok",
           l = "failed" <=> st = "failed" /\ UNCHANGED idx,
           l = "skipped" => Stage(Loop) \in SkippableStages
    PROVE  Undisturbed' /\ Held' /\ Left' /\ (UNCHANGED capability => Borrowed')
<1> USE LoopIn
<1> DEFINE run == Mark(obj[Loop], Stage(Loop), st)
<1>1. /\ Stage(Loop) \in StageName /\ cur[Loop] \in Runs /\ obj[Loop] \in RunObject
      /\ Stage(Loop) = Pipeline[idx[Loop]] /\ idx[Loop] \in 1..Len(Pipeline)
      /\ cur[Loop] \notin backlog
  BY InStageFacts, InHand DEF InStage, Doing
<1>2. /\ run \in RunObject /\ run.abort = obj[Loop].abort
      /\ run.stages[Stage(Loop)] = st
      /\ \A t \in StageName \ {Stage(Loop)} : run.stages[t] = obj[Loop].stages[t]
  <2>1. st \in StageStatus
    BY DEF StageStatus
  <2> QED
    BY <1>1, <2>1, MarkType, AbortKept
<1>3. /\ obj[Loop].stages["CLEANUP"] \notin {"ok", "skipped"} /\ ~obj[Loop].abort
      /\ "CLEANUP" \in StageName /\ "CLEANUP" \notin SkippableStages
  BY <1>1 DEF OInv, CleanupLast, Walking, LInv, Undisturbed, Held, StageName,
              SkippableStages
<1>4. Save(Loop, run) /\ l \in Location \ {"down", "sweep", "swept", "popped"}
  BY DEF Location
<1> HIDE DEF run
<1>5. run.stages["CLEANUP"] \in {obj[Loop].stages["CLEANUP"], st}
  BY <1>2, <1>3
<1>6. CASE st = "ok"
  BY <1>1, <1>2, <1>3, <1>4, <1>5, <1>6, SaveLeak
<1>7. CASE l = "failed"
  BY <1>1, <1>2, <1>3, <1>4, <1>5, <1>7, SaveLeak
<1>8. CASE l = "skipped"
  <2>1. Stage(Loop) # "CLEANUP"
    BY <1>3, <1>8
  <2>2. run.stages["CLEANUP"] = obj[Loop].stages["CLEANUP"]
    BY <1>2, <1>3, <2>1
  <2> QED
    BY <1>1, <1>2, <1>3, <1>4, <1>8, <2>2, SaveLeak
<1> QED
  BY <1>6, <1>7, <1>8

LEMMA StageLeak ==
    ASSUME TInv, OInv, XInv, LInv,
           \/ PlainStageOk(Loop) \/ ReadyWaitOk(Loop) \/ CapabilityOk(Loop)
           \/ StageFails(Loop) \/ StageSkips(Loop)
    PROVE  LInv'
<1> USE LoopIn
<1>1. pc[Loop] = "exec"
  BY DEF PlainStageOk, ReadyWaitOk, CapabilityOk, StageFails, StageSkips, At
<1>2. CASE PlainStageOk(Loop) \/ ReadyWaitOk(Loop)
  BY <1>1, <1>2, MarkLeak DEF PlainStageOk, ReadyWaitOk, MarkOk, host, LInv
<1>3. CASE CapabilityOk(Loop)
  <2>1. /\ cur[Loop] \in Runs /\ MarkOk(Loop) /\ UNCHANGED <<container, cur, backlog>>
        /\ Stage(Loop) = "CAPABILITY" /\ Stage(Loop) \in StageName
        /\ obj[Loop] \in RunObject
    BY <1>1, <1>3, InStageFacts DEF CapabilityOk, MarkOk, InStage
  <2>2. Undisturbed' /\ Held' /\ Left'
    BY <1>1, <2>1, MarkLeak DEF MarkOk
  <2>3. PICK w \in Serving \cup {None} : capability' = [capability EXCEPT ![cur[Loop]] = w]
    BY <1>3 DEF CapabilityOk
  <2>4. /\ capability'[cur[Loop]] = w
        /\ \A r \in Runs \ {cur[Loop]} : capability'[r] = capability[r]
        /\ \A r \in Runs \ {cur[Loop]} : state'[r] = state[r]
    BY <2>1, <2>3 DEF MarkOk, Save, TInv, TypeOK
  <2>5. \A q \in Runs \ {cur[Loop]} :
           q = w => q \notin backlog /\ state[q].stages["CLEANUP"] = "failed"
    BY ConstantAssumption DEF Serving, LInv, Left
  <2>6. Borrowed'
    BY <2>1, <2>4, <2>5 DEF LInv, Borrowed
  <2> QED
    BY <2>2, <2>6 DEF LInv
<1>4. CASE StageFails(Loop)
  BY <1>1, <1>4, MarkLeak DEF StageFails, MarkFailed, host, LInv
<1>5. CASE StageSkips(Loop)
  BY <1>1, <1>5, MarkLeak DEF StageSkips, host, LInv
<1> QED
  BY <1>2, <1>3, <1>4, <1>5

LEMMA DeployLeak ==
    ASSUME TInv, OInv, XInv, LInv,
           \/ DeploySpawn(Loop) \/ DeployAttemptFails(Loop)
           \/ DeployOk(Loop) \/ DeployFails(Loop)
    PROVE  LInv'
<1> USE LoopIn
<1>1. /\ pc[Loop] \in {"exec", "deploying", "repairing"}
      /\ cur[Loop] \in Runs
  <2>1. pc[Loop] \in {"exec", "deploying", "repairing"}
    BY DEF DeploySpawn, DeployAttemptFails, DeployOk, DeployFails, At
  <2> QED
    BY <2>1, InHand DEF Doing
<1>2. CASE DeploySpawn(Loop) \/ DeployAttemptFails(Loop)
  <2>1. PICK l \in {"deploying", "repairing"} : pc' = [pc EXCEPT ![Loop] = l]
    BY <1>2 DEF DeploySpawn, DeployAttemptFails, Goto
  <2>2. \A r \in Runs \ {cur[Loop]} : container'[r] = container[r]
    BY <1>1, <1>2 DEF DeploySpawn, DeployAttemptFails, TInv, TypeOK
  <2> QED
    BY <1>1, <1>2, <2>1, <2>2, MoveLeak DEF DeploySpawn, DeployAttemptFails, disk
<1>3. CASE DeployOk(Loop)
  BY <1>1, <1>3, MarkLeak DEF DeployOk, MarkOk, host, LInv
<1>4. CASE DeployFails(Loop)
  BY <1>1, <1>4, MarkLeak DEF DeployFails, MarkFailed, host, LInv
<1> QED
  BY <1>2, <1>3, <1>4


LEMMA CleanupLeak ==
    ASSUME TInv, OInv, XInv, LInv,
           \/ CleanupRemoves(Loop) \/ CleanupOk(Loop) \/ BestEffortCleanupFails(Loop)
    PROVE  LInv'
<1> USE LoopIn
<1>1. pc[Loop] \in {"exec", "unwind", "rollback"}
  BY DEF CleanupRemoves, CleanupOk, BestEffortCleanupFails, Cleaning, At
<1>2. cur[Loop] \in Runs /\ cur[Loop] \notin backlog /\ obj[Loop] \in RunObject
  BY <1>1, InHand DEF Doing, Ending
<1>3. CASE CleanupRemoves(Loop)
  <2>1. /\ container'[cur[Loop]] = "none"
        /\ \A r \in Runs \ {cur[Loop]} : container'[r] = container[r]
        /\ UNCHANGED <<state, index, backlog, capability, pc, cur, obj, idx, todo>>
    BY <1>2, <1>3 DEF CleanupRemoves, disk, memory, TInv, TypeOK
  <2>2. Undisturbed' /\ Held' /\ Left' /\ Borrowed'
    BY <1>1, <2>1 DEF LInv, Undisturbed, Held, Left, Borrowed
  <2> QED
    BY <2>2 DEF LInv
<1>4. CASE CleanupOk(Loop) /\ pc[Loop] = "exec"
  BY <1>4, MarkLeak DEF CleanupOk, MarkOk, host, LInv
<1>5. ASSUME NEW st \in {"ok", "failed"}, pc[Loop] # "exec",
             Save(Loop, Mark(obj[Loop], "CLEANUP", st)), Goto(Loop, AfterCleanup(Loop)),
             st = "ok" => container[cur[Loop]] = "none",
             UNCHANGED <<backlog, container, capability, cur, todo>>
      PROVE  LInv'
  <2> DEFINE run == Mark(obj[Loop], "CLEANUP", st)
  <2>1. "CLEANUP" \in StageName /\ st \in StageStatus
    BY DEF StageName, StageStatus
  <2>2. run \in RunObject /\ run.abort = obj[Loop].abort /\ run.stages["CLEANUP"] = st
    BY <1>2, <2>1, MarkType, AbortKept
  <2>3. ~obj[Loop].abort
    BY DEF LInv, Undisturbed
  <2>4. AfterCleanup(Loop) \in {"unwound", "end"}
        /\ {"unwound", "end"} \subseteq Location \ {"down", "sweep", "swept", "popped"}
    BY DEF AfterCleanup, Location
  <2> HIDE DEF run
  <2> QED
    BY <1>2, <1>5, <2>2, <2>3, <2>4, SaveLeak DEF run, LInv
<1>6. CASE CleanupOk(Loop) /\ pc[Loop] # "exec"
  BY <1>5, <1>6 DEF CleanupOk, Removed, host
<1>7. CASE BestEffortCleanupFails(Loop)
  BY <1>5, <1>7 DEF BestEffortCleanupFails, host
<1> QED
  BY <1>3, <1>4, <1>6, <1>7

LEMMA UnwindLeak ==
    ASSUME TInv, OInv, XInv, LInv,
           Unwind(Loop) \/ RecordFailure(Loop) \/ RecordSkip(Loop) \/ Rollback(Loop)
    PROVE  LInv'
<1> USE LoopIn
<1>1. pc[Loop] \in {"failed", "unwound", "skipped", "aborted"}
  BY DEF Unwind, RecordFailure, RecordSkip, Rollback, At
<1>2. cur[Loop] \in Runs /\ cur[Loop] \notin backlog /\ obj[Loop] \in RunObject
  BY <1>1, InHand DEF Doing, Ending
<1>3. ~obj[Loop].abort /\ obj[Loop].stages["CLEANUP"] # "skipped"
  BY DEF LInv, Undisturbed, Held
<1>4. {"unwind", "reported", "aborted", "rollback", "end"}
         \subseteq Location \ {"down", "sweep", "swept", "popped"}
  BY DEF Location
<1>5. CASE Unwind(Loop) \/ (Rollback(Loop) /\ obj[Loop].stages["CLEANUP"] \notin {"ok", "skipped"})
  <2> DEFINE run == Mark(obj[Loop], "CLEANUP", "in_progress")
  <2>1. "CLEANUP" \in StageName /\ "in_progress" \in StageStatus
    BY DEF StageName, StageStatus
  <2>2. /\ run \in RunObject /\ run.abort = obj[Loop].abort
        /\ run.stages["CLEANUP"] = "in_progress"
    BY <1>2, <2>1, MarkType, AbortKept
  <2>3. PICK l \in {"unwind", "rollback"} : Goto(Loop, l)
    BY <1>5 DEF Unwind, Rollback
  <2>4. Save(Loop, run) /\ UNCHANGED <<backlog, container, capability, cur, todo>>
    BY <1>5 DEF Unwind, Rollback, host
  <2> HIDE DEF run
  <2> QED
    BY <1>2, <1>3, <1>4, <2>2, <2>3, <2>4, SaveLeak DEF LInv
<1>6. ASSUME NEW st \in {"failed", "aborted"}, NEW l \in {"reported", "aborted"},
             Save(Loop, Ended(obj[Loop], st)), Goto(Loop, l),
             UNCHANGED <<backlog, container, capability, cur, todo>>,
             l = "reported" =>
                container[cur[Loop]] = "none" \/ obj[Loop].stages["CLEANUP"] = "failed",
             l = "aborted" => obj[Loop].stages["CLEANUP"] # "ok"
      PROVE  LInv'
  <2> DEFINE run == Ended(obj[Loop], st)
  <2>1. st \in RunStatus
    BY DEF RunStatus
  <2>2. run \in RunObject /\ run.abort = obj[Loop].abort /\ run.stages = obj[Loop].stages
    BY <1>2, <2>1, EndedType, AbortKept
  <2> HIDE DEF run
  <2> QED
    BY <1>2, <1>3, <1>4, <1>6, <2>2, SaveLeak DEF run, LInv
<1>7. CASE RecordFailure(Loop)
  <2>1. \/ container[cur[Loop]] = "none"
        \/ obj[Loop].stages["CLEANUP"] = "failed"
    BY <1>7 DEF RecordFailure, At, CleanupDue, Stage, LInv, Held
  <2> QED
    BY <1>6, <1>7, <2>1 DEF RecordFailure, host
<1>8. CASE RecordSkip(Loop)
  <2>1. obj[Loop].stages["CLEANUP"] # "ok"
    BY <1>8 DEF RecordSkip, At, LInv, Held
  <2> QED
    BY <1>6, <1>8, <2>1 DEF RecordSkip, host
<1>9. CASE Rollback(Loop)
  <2>1. obj[Loop].stages["CLEANUP"] \notin {"ok", "skipped"}
    BY <1>3, <1>9 DEF Rollback, At, LInv, Held
  <2> QED
    BY <1>5, <1>9, <2>1
<1> QED
  BY <1>5, <1>7, <1>8, <1>9

LEMMA EnvironmentLeak ==
    ASSUME Operators = {}, MaxCrashes = 0, TInv, OInv, XInv, LInv, Environment
    PROVE  LInv'
<1> USE LoopIn
<1>1. ASSUME NEW r \in Runs, ContainerReady(r) \/ ContainerDies(r)
      PROVE  LInv'
  <2>1. /\ container[r] # "none"
        /\ \A q \in Runs \ {r} : container'[q] = container[q]
        /\ UNCHANGED <<state, index, backlog, capability, pc, cur, obj, idx, todo>>
    BY <1>1 DEF ContainerReady, ContainerDies, disk, memory, TInv, TypeOK
  <2>2. pc[Loop] \in {"popped", "registered", "announce", "unwound", "reported", "end"} =>
           cur[Loop] \in Runs
    BY DEF TInv, Placed, Idling
  <2>3. Undisturbed' /\ Held' /\ Left' /\ Borrowed'
    BY <2>1, <2>2 DEF LInv, Undisturbed, Held, Left, Borrowed
  <2> QED
    BY <2>3 DEF LInv
<1>2. ASSUME NEW r \in Runs, EditAbortFlag(r)
      PROVE  FALSE
  BY <1>2 DEF EditAbortFlag, LInv, Undisturbed
<1>3. ASSUME NEW p \in Procs, Crash(p)
      PROVE  FALSE
  BY <1>3 DEF Crash, TInv, TypeOK
<1> QED
  BY <1>1, <1>2, <1>3 DEF Environment

LEMMA StepLeak ==
    ASSUME Operators = {}, MaxCrashes = 0
    PROVE  TInv /\ OInv /\ XInv /\ LInv /\ [Next]_vars => LInv'
<1> SUFFICES ASSUME TInv, OInv, XInv, LInv, [Next]_vars PROVE LInv'
  OBVIOUS
<1>1. CASE LoopStep
  BY <1>1, ServiceLeak, QueueLeak, WalkLeak, StageLeak, DeployLeak, CleanupLeak, UnwindLeak
     DEF LoopStep, ProcessStep, RunPipeline
<1>2. CASE Environment
  BY <1>2, EnvironmentLeak
<1>3. CASE UNCHANGED vars
  BY <1>3 DEF vars, disk, host, memory, LInv, Undisturbed, Held, Left, Borrowed
<1> QED
  BY <1>1, <1>2, <1>3 DEF Next

LEMMA LeakInvariance ==
    ASSUME Operators = {}, MaxCrashes = 0
    PROVE  Spec => []LInv
<1>1. TInv /\ OInv /\ XInv /\ LInv /\ [Next]_vars => LInv'
  BY StepLeak
<1>2. Spec => [](TInv /\ OInv /\ XInv)
  BY IndexInvariance
<1> QED
  BY <1>1, <1>2, InitLeak, PTL DEF Spec

-----------------------------------------------------------------------------
(* The theorems *)

\* Where no process dies, a run that is over has left a container behind only if
\* its own CLEANUP says failed, whichever of the many ways out of run_pipeline it
\* took: the end, a failed stage, a graceful skip, or an exception.
THEOREM LeaksAreRecorded ==
    ASSUME Operators = {}, MaxCrashes = 0
    PROVE  Spec => []LeakOnlyIfCleanupFailed
<1>1. LInv => LeakOnlyIfCleanupFailed
  BY LoopIn DEF LInv, Left, LeakOnlyIfCleanupFailed, Ran, Executing
<1> QED
  BY <1>1, LeakInvariance, PTL

\* Where no process dies, the suite of a run is answered by the container of
\* another run only if that one's CLEANUP says failed.
THEOREM ForeignScoresAreLeaks ==
    ASSUME Operators = {}, MaxCrashes = 0
    PROVE  Spec => []ForeignOnlyAfterLeak
<1>1. LInv => ForeignOnlyAfterLeak
  BY DEF LInv, Borrowed, ForeignOnlyAfterLeak
<1> QED
  BY <1>1, LeakInvariance, PTL

=============================================================================
