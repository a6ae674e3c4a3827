---------------------------- MODULE RunIndexProofs ----------------------------
(***************************************************************************)
(* The rows of runs.sqlite against the state.json files, and against the   *)
(* life of a run that module RunLifecycle promises, for every set of runs, *)
(* pipeline and number of crashes, when cmd_loop is the only process that  *)
(* executes runs.                                                          *)
(***************************************************************************)
EXTENDS RunOutcomeProofs

-----------------------------------------------------------------------------
(* The inductive invariant, on top of TInv and OInv *)

\* Row and file of a run nobody executes.
Agrees(r) ==
    \/ index[r] = state[r].status
    \/ index[r] = "pending" /\ state[r].status = "in_progress"
    \/ index[r] = "absent" /\ state[r].status = "pending"

\* A queued run has neither file nor row, and it is popped once.
Queued ==
    /\ \A r \in backlog : index[r] = "absent" /\ state[r].status = "absent"
    /\ pc[Loop] = "popped" =>
          /\ cur[Loop] \notin backlog /\ ~unflushed[Loop]
          /\ index[cur[Loop]] = "absent" /\ state[cur[Loop]].status = "absent"

Doing == {"stage", "exec", "deploying", "repairing", "failed", "skipped", "unwind",
          "unwound"}
Ending == {"aborted", "rollback", "reported", "end"}

\* What the row of the run being executed says, before and after the flush.  An
\* outbox that raises after the end of a run was reported changes the outcome.
Recorded ==
    /\ pc[Loop] = "registered" =>
          /\ obj[Loop].status = "pending"
          /\ index[cur[Loop]] = IF unflushed[Loop] THEN "absent" ELSE "pending"
    /\ pc[Loop] = "announce" =>
          /\ obj[Loop].status = "in_progress"
          /\ index[cur[Loop]] = IF unflushed[Loop] THEN "pending" ELSE "in_progress"
    /\ pc[Loop] \in Doing =>
          obj[Loop].status = "in_progress" /\ index[cur[Loop]] = "in_progress"
    /\ pc[Loop] \in Ending =>
          /\ obj[Loop].status \in Terminal
          /\ \/ index[cur[Loop]] = obj[Loop].status
             \/ unflushed[Loop] /\ (index[cur[Loop]] = "in_progress" \/ OutboxFaults)

\* The sweep has an orphan in its list, in its hands, or it has ended it.
Sweeping ==
    /\ pc[Loop] \notin {"sweep", "swept"} => todo[Loop] = {}
    /\ \A r \in todo[Loop] : index[r] = "in_progress"
    /\ pc[Loop] = "swept" \/ (pc[Loop] = "sweep" /\ unflushed[Loop]) =>
          /\ cur[Loop] \notin todo[Loop]
          /\ index[cur[Loop]] = "in_progress"
          /\ obj[Loop].status = "aborted"
    /\ pc[Loop] = "sweep" /\ unflushed[Loop] => state[cur[Loop]] = obj[Loop]
    /\ pc[Loop] \in {"swept", "idle", "down"} => ~unflushed[Loop]
    /\ pc[Loop] \in {"idle", "down"} => cur[Loop] \notin Runs
    /\ pc[Loop] # "resume"

\* While no process lives, a row may be an orphan; afterwards only those the
\* sweep has still to end and the run in the loop's hands can differ.
Others ==
    \A r \in Runs :
        IF pc[Loop] = "down" THEN Agrees(r) \/ index[r] = "in_progress"
        ELSE \/ r \in todo[Loop]
             \/ r = cur[Loop] /\ (unflushed[Loop] \/ pc[Loop] # "sweep")
             \/ Agrees(r) /\ index[r] # "in_progress"

XInv == Queued /\ Recorded /\ Sweeping /\ Others

LEMMA InitIndex == Init => XInv
<1> SUFFICES ASSUME Init PROVE XInv
  OBVIOUS
<1> USE LoopIn
<1>1. Queued /\ Recorded /\ Sweeping
  BY FreshType, ConstantAssumption
     DEF Init, Queued, Recorded, Sweeping, Doing, Ending, NoFile, FreshRun
<1>2. Others
  BY DEF Init, Others, Agrees, NoFile, FreshRun
<1> QED
  BY <1>1, <1>2 DEF XInv


\* A save of the run in the loop's hands, after the sweep.
LEMMA SaveIndex ==
    ASSUME TInv, XInv, NEW run \in RunObject,
           NEW l \in {"registered", "announce"} \cup Doing \cup Ending,
           cur[Loop] \in Runs, cur[Loop] \notin backlog,
           pc[Loop] \notin {"down", "sweep", "swept"},
           Save(Loop, run), Goto(Loop, l), UNCHANGED <<index, backlog, cur, todo>>,
           l = "registered" => run.status = "pending" /\ index[cur[Loop]] = "absent",
           l = "announce" => run.status = "in_progress" /\ index[cur[Loop]] = "pending",
           l \in Doing =>
              run.status = "in_progress" /\ index[cur[Loop]] = "in_progress",
           l \in Ending =>
              /\ run.status \in Terminal
              /\ \/ index[cur[Loop]] \in {run.status, "in_progress"}
                 \/ OutboxFaults
    PROVE  XInv'
<1> USE LoopIn
<1>1. /\ obj'[Loop] = run /\ unflushed'[Loop] /\ pc'[Loop] = l
      /\ \A r \in Runs \ {cur[Loop]} : state'[r] = state[r]
      /\ backlog \subseteq Runs
  BY SaveType DEF Save, Goto, TInv, TypeOK
<1>2. Queued' /\ Sweeping'
  BY <1>1 DEF XInv, Queued, Sweeping, Doing, Ending
<1>3. Recorded'
  BY <1>1 DEF Recorded, Doing, Ending
<1>4. Others'
  BY <1>1 DEF XInv, Others, Agrees, Doing, Ending
<1> QED
  BY <1>2, <1>3, <1>4 DEF XInv

\* The loop gives its run up, or dies.
LEMMA ReleaseIndex ==
    ASSUME OutboxFaults => MaxCrashes = 0, TInv, OInv, XInv, NEW l \in {"idle", "down"},
           Release(Loop, l), UNCHANGED <<state, index, backlog>>, todo'[Loop] = {},
           \/ l = "idle" /\ At(Loop, "end")
           \/ l = "idle" /\ At(Loop, "sweep") /\ todo[Loop] = {}
           \/ l = "down" /\ MaxCrashes # 0
    PROVE  XInv'
<1> USE LoopIn
<1>1. pc'[Loop] = l /\ ~unflushed'[Loop] /\ cur'[Loop] = None
  BY DEF Release, Goto, TInv, TypeOK
<1>2. Queued' /\ Recorded' /\ Sweeping'
  BY <1>1, ConstantAssumption DEF XInv, Queued, Recorded, Sweeping, Doing, Ending
<1>3. ASSUME NEW r \in Runs, r # cur[Loop], r \notin todo[Loop]
      PROVE  \/ pc[Loop] = "down" /\ index[r] = "in_progress"
             \/ Agrees(r) /\ (pc[Loop] = "down" \/ index[r] # "in_progress")
  BY <1>3 DEF XInv, Others
<1>4. CASE At(Loop, "end")
  <2>1. \/ cur[Loop] \in Runs /\ index[cur[Loop]] = state[cur[Loop]].status
           /\ index[cur[Loop]] \in Terminal
        \/ cur[Loop] \notin Runs
    BY <1>4 DEF At, XInv, Recorded, Ending, OInv, Owned, Owning
  <2>2. todo[Loop] = {} /\ pc[Loop] = "end"
    BY <1>4 DEF At, XInv, Sweeping
  <2>3. \A r \in Runs : Agrees(r) /\ index[r] # "in_progress"
    BY <1>3, <2>1, <2>2 DEF Agrees, Terminal
  <2> QED
    BY <1>1, <1>2, <2>3 DEF XInv, Others, Agrees
<1>5. CASE At(Loop, "sweep") /\ todo[Loop] = {}
  BY <1>1, <1>2, <1>5 DEF At, XInv, Others, Agrees
<1>6. CASE l = "down" /\ MaxCrashes # 0
  <2>1. ASSUME NEW r \in Runs, r = cur[Loop]
        PROVE  Agrees(r) \/ index[r] = "in_progress"
    <3>1. CASE pc[Loop] \in {"registered", "announce"} \cup Doing \cup Ending
      <4>1. state[r] = obj[Loop]
        BY <2>1, <3>1 DEF OInv, Owned, Owning, Unfinished, Walking, Doing, Ending
      <4> QED
        BY <1>6, <2>1, <3>1, <4>1 DEF XInv, Recorded, Agrees
    <3>2. CASE pc[Loop] \in {"popped", "swept", "sweep", "down"}
      BY <2>1, <3>2 DEF XInv, Queued, Sweeping, Others, Agrees
    <3>3. CASE pc[Loop] \in {"idle", "resume"}
      BY <2>1, <3>3 DEF XInv, Sweeping, TInv, TypeOK
    <3> QED
      BY <3>1, <3>2, <3>3 DEF TInv, TypeOK, Location, Doing, Ending
  <2>2. \A r \in todo[Loop] : index[r] = "in_progress"
    BY DEF XInv, Sweeping
  <2>3. \A r \in Runs : Agrees(r) \/ index[r] = "in_progress"
    BY <1>3, <2>1, <2>2
  <2> QED
    BY <1>1, <1>2, <1>6, <2>3 DEF XInv, Others, Agrees
<1> QED
  BY <1>4, <1>5, <1>6


\* The run in the loop's hands after the sweep.
LEMMA InHand ==
    ASSUME TInv, OInv, XInv,
           pc[Loop] \in {"popped", "registered", "announce"} \cup Doing \cup Ending
    PROVE  /\ cur[Loop] \in Runs /\ cur[Loop] \notin backlog
           /\ obj[Loop] \in RunObject
           /\ todo[Loop] = {}
           /\ pc[Loop] \notin {"down", "sweep", "swept", "idle", "resume"}
<1> USE LoopIn
<1>1. cur[Loop] \in Runs /\ obj[Loop] \in RunObject
  BY DEF TInv, TypeOK, Placed, Idling, Doing, Ending
<1>2. cur[Loop] \notin backlog
  <2>1. CASE pc[Loop] = "popped"
    BY <2>1 DEF XInv, Queued
  <2>2. CASE pc[Loop] \in {"registered", "announce"} \cup Doing \cup Ending
    <3>1. state[cur[Loop]] = obj[Loop]
      BY <2>2 DEF OInv, Owned, Owning, Unfinished, Walking, Doing, Ending
    <3>2. obj[Loop].status # "absent"
      BY <2>2 DEF XInv, Recorded, Terminal
    <3> QED
      BY <3>1, <3>2 DEF XInv, Queued
  <2> QED
    BY <2>1, <2>2
<1> QED
  BY <1>1, <1>2 DEF XInv, Sweeping, Doing, Ending

\* A transition of a stage: the run stays in_progress, in its row as well.
LEMMA DoingIndex ==
    ASSUME TInv, OInv, XInv, pc[Loop] \in Doing,
           NEW run \in RunObject, NEW l \in Doing, run.status = obj[Loop].status,
           Save(Loop, run), Goto(Loop, l), UNCHANGED <<index, backlog, cur, todo>>
    PROVE  XInv'
<1>1. run.status = "in_progress" /\ index[cur[Loop]] = "in_progress"
  BY DEF XInv, Recorded
<1>2. l \notin {"registered", "announce"} \cup Ending
  BY DEF Doing, Ending
<1> QED
  BY <1>1, <1>2, InHand, SaveIndex

\* The end of a run is saved.
LEMMA EndingIndex ==
    ASSUME TInv, OInv, XInv, pc[Loop] \in Doing \cup Ending,
           NEW run \in RunObject, NEW l \in Ending, run.status \in Terminal,
           \/ pc[Loop] \in Doing
           \/ pc[Loop] \in Ending /\ (run.status = obj[Loop].status \/ OutboxFaults),
           Save(Loop, run), Goto(Loop, l), UNCHANGED <<index, backlog, cur, todo>>
    PROVE  XInv'
<1>1. index[cur[Loop]] \in {run.status, "in_progress"} \/ OutboxFaults
  BY DEF XInv, Recorded
<1>2. l \notin {"registered", "announce"} \cup Doing
  BY DEF Doing, Ending
<1> QED
  BY <1>1, <1>2, InHand, SaveIndex

\* A step that saves nothing.
LEMMA MoveIndex ==
    ASSUME TInv, XInv, NEW l,
           \/ l \in Doing
              /\ (pc[Loop] \in Doing \/ (pc[Loop] = "announce" /\ ~unflushed[Loop]))
           \/ l \in Ending /\ pc[Loop] \in Ending,
           pc' = [pc EXCEPT ![Loop] = l],
           UNCHANGED <<state, index, backlog, cur, obj, unflushed, todo>>
    PROVE  XInv'
<1> USE LoopIn
<1>1. pc'[Loop] = l
  BY DEF TInv, TypeOK
<1>2. Queued' /\ Recorded' /\ Sweeping' /\ Others'
  BY <1>1 DEF XInv, Queued, Recorded, Sweeping, Others, Agrees, Doing, Ending
<1> QED
  BY <1>2 DEF XInv

\* A step that leaves everything of XInv alone.
LEMMA SameIndex ==
    ASSUME XInv, UNCHANGED <<state, index, backlog, pc, cur, obj, unflushed, todo>>
    PROVE  XInv'
  BY DEF XInv, Queued, Recorded, Sweeping, Others, Agrees


-----------------------------------------------------------------------------
(* The actions *)

LEMMA ServiceIndex ==
    ASSUME OutboxFaults => MaxCrashes = 0, TInv, OInv, XInv,
           StartLoop \/ SweepLoad \/ SweepSave \/ SweepDone \/ IdlePoll
    PROVE  XInv'
<1> USE LoopIn
<1>1. CASE StartLoop
  <2>1. /\ pc[Loop] = "down" /\ pc'[Loop] = "sweep" /\ todo'[Loop] = Orphans
        /\ UNCHANGED <<state, index, backlog, cur, obj, unflushed>>
    BY <1>1 DEF StartLoop, Goto, disk, TInv, TypeOK
  <2>2. Queued' /\ Recorded' /\ Sweeping'
    BY <2>1 DEF XInv, Queued, Recorded, Sweeping, Orphans, Doing, Ending
  <2>3. Others'
    BY <2>1 DEF XInv, Others, Agrees, Orphans
  <2> QED
    BY <2>2, <2>3 DEF XInv
<1>2. CASE SweepLoad
  <2>1. PICK r \in todo[Loop] :
          /\ cur' = [cur EXCEPT ![Loop] = r]
          /\ obj' = [obj EXCEPT ![Loop] = Ended(state[r], "aborted")]
          /\ todo' = [todo EXCEPT ![Loop] = @ \ {r}]
    BY <1>2 DEF SweepLoad
  <2>2. /\ pc[Loop] = "sweep" /\ pc'[Loop] = "swept" /\ ~unflushed[Loop]
        /\ cur'[Loop] = r /\ obj'[Loop].status = "aborted"
        /\ todo'[Loop] = todo[Loop] \ {r} /\ r \in Runs
        /\ UNCHANGED <<state, index, backlog, unflushed>>
    BY <1>2, <2>1, EndedType DEF SweepLoad, At, Goto, disk, TInv, TypeOK, RunStatus
  <2>3. Queued' /\ Recorded' /\ Sweeping'
    BY <2>2 DEF XInv, Queued, Recorded, Sweeping, Doing, Ending
  <2>4. Others'
    BY <2>2 DEF XInv, Others, Agrees
  <2> QED
    BY <2>3, <2>4 DEF XInv
<1>3. CASE SweepSave
  <2>1. /\ pc[Loop] = "swept" /\ pc'[Loop] = "sweep" /\ cur[Loop] \in Runs
        /\ obj[Loop] \in RunObject /\ Save(Loop, obj[Loop])
        /\ UNCHANGED <<index, backlog, cur, todo>>
    BY <1>3 DEF SweepSave, At, Goto, TInv, TypeOK, Placed, Idling
  <2>2. /\ state'[cur[Loop]] = obj[Loop] /\ obj'[Loop] = obj[Loop] /\ unflushed'[Loop]
        /\ \A r \in Runs \ {cur[Loop]} : state'[r] = state[r]
        /\ backlog \subseteq Runs
    BY <2>1, SaveType DEF Save, TInv, TypeOK
  <2>3. Queued' /\ Recorded' /\ Sweeping'
    BY <2>1, <2>2 DEF XInv, Queued, Recorded, Sweeping, Doing, Ending
  <2>4. Others'
    BY <2>1, <2>2 DEF XInv, Others, Agrees
  <2> QED
    BY <2>3, <2>4 DEF XInv
<1>4. CASE SweepDone
  BY <1>4, ReleaseIndex DEF SweepDone, disk
<1>5. CASE IdlePoll
  BY <1>5, SameIndex DEF IdlePoll, vars, disk, memory
<1> QED
  BY <1>1, <1>2, <1>3, <1>4, <1>5

\* The second half of save_run: the only step that changes a row.
LEMMA FlushIndexIndex ==
    ASSUME TInv, OInv, XInv, FlushIndex(Loop)
    PROVE  XInv'
<1> USE LoopIn
<1>1. /\ unflushed[Loop] /\ ~unflushed'[Loop] /\ cur[Loop] \in Runs
      /\ index' = [index EXCEPT ![cur[Loop]] = obj[Loop].status]
      /\ UNCHANGED <<state, backlog, pc, cur, obj, todo>>
  BY DEF FlushIndex, TInv, TypeOK, Placed
<1>2. /\ index'[cur[Loop]] = obj[Loop].status
      /\ \A r \in Runs \ {cur[Loop]} : index'[r] = index[r]
  BY <1>1 DEF TInv, TypeOK
<1>3. \/ pc[Loop] = "sweep"
      \/ pc[Loop] \in {"registered", "announce"} \cup Doing \cup Ending
  BY <1>1 DEF XInv, Queued, Sweeping, Doing, Ending, TInv, TypeOK, Location
<1>4. state[cur[Loop]] = obj[Loop]
  BY <1>1, <1>3 DEF OInv, Owned, Owning, Unfinished, Walking, Doing, Ending,
                    XInv, Sweeping
<1>5. cur[Loop] \notin backlog
  BY <1>1, <1>3, InHand DEF XInv, Queued, Sweeping
<1>6. Queued'
  BY <1>1, <1>2, <1>3, <1>5 DEF XInv, Queued, TInv, TypeOK, Doing, Ending
<1>7. Recorded'
  BY <1>1, <1>2, <1>3 DEF XInv, Recorded, Doing, Ending
<1>8. Sweeping'
  <2>1. todo[Loop] \subseteq Runs /\ cur[Loop] \notin todo[Loop]
    BY <1>1, <1>3, InHand DEF XInv, Sweeping, TInv, TypeOK
  <2> QED
    BY <1>1, <1>2, <1>3, <2>1 DEF XInv, Sweeping, Doing, Ending
<1>9. Others'
  BY <1>1, <1>2, <1>3, <1>4 DEF XInv, Others, Agrees, Sweeping, Doing, Ending
<1> QED
  BY <1>6, <1>7, <1>8, <1>9 DEF XInv

LEMMA QueueIndex ==
    ASSUME OutboxFaults => MaxCrashes = 0, TInv, OInv, XInv,
           Pop(Loop) \/ Register(Loop) \/ Return(Loop)
    PROVE  XInv'
<1> USE LoopIn
<1>1. CASE Pop(Loop)
  <2>1. PICK r \in backlog : backlog' = backlog \ {r} /\ cur' = [cur EXCEPT ![Loop] = r]
    BY <1>1 DEF Pop
  <2>2. /\ pc[Loop] = "idle" /\ pc'[Loop] = "popped" /\ ~unflushed[Loop]
        /\ cur'[Loop] = r /\ UNCHANGED <<state, index, obj, unflushed, todo>>
    BY <1>1, <2>1, ConstantAssumption DEF Pop, At, Goto, TInv, TypeOK
  <2>3. Queued' /\ Recorded' /\ Sweeping'
    BY <2>1, <2>2 DEF XInv, Queued, Recorded, Sweeping, Doing, Ending
  <2>4. Others'
    BY <2>2 DEF XInv, Others, Agrees, Sweeping
  <2> QED
    BY <2>3, <2>4 DEF XInv
<1>2. CASE Register(Loop)
  <2>1. /\ pc[Loop] = "popped" /\ index[cur[Loop]] = "absent"
        /\ Save(Loop, FreshRun) /\ Goto(Loop, "registered")
        /\ UNCHANGED <<index, backlog, cur, todo>>
    BY <1>2 DEF Register, At, XInv, Queued
  <2>2. "registered" \notin Doing \cup Ending
    BY DEF Doing, Ending
  <2> QED
    BY <2>1, <2>2, FreshType, InHand, SaveIndex
<1>3. CASE Return(Loop)
  <2>1. todo[Loop] = {}
    BY <1>3 DEF Return, At, XInv, Sweeping
  <2> QED
    BY <1>3, <2>1, ReleaseIndex DEF Return, disk
<1> QED
  BY <1>1, <1>2, <1>3

LEMMA CatastropheIndex ==
    ASSUME TInv, OInv, XInv, OutboxFaults,
           At(Loop, "announce") \/ At(Loop, "reported"), Catastrophe(Loop)
    PROVE  XInv'
<1> USE LoopIn
<1>1. cur[Loop] \in Runs /\ obj[Loop] \in RunObject /\ cur[Loop] \notin backlog
      /\ pc[Loop] \in {"announce", "reported"}
  BY InHand DEF At, Doing, Ending
<1>2. /\ Ended(obj[Loop], "failed") \in RunObject
      /\ Ended(obj[Loop], "failed").status \in Terminal
  BY <1>1, EndedType DEF RunStatus, Terminal
<1>3. "end" \in Ending \ ({"registered", "announce"} \cup Doing)
  BY DEF Doing, Ending
<1>4. /\ Save(Loop, Ended(obj[Loop], "failed")) /\ Goto(Loop, "end")
      /\ UNCHANGED <<index, backlog, cur, todo>>
  BY DEF Catastrophe
<1> QED
  BY <1>1, <1>2, <1>3, <1>4, SaveIndex


LEMMA WalkIndex ==
    ASSUME TInv, OInv, XInv,
           \/ Begin(Loop) \/ Announce(Loop) \/ AbortByFlag(Loop) \/ PassOver(Loop)
           \/ StartStage(Loop) \/ FinishOk(Loop) \/ Notify(Loop)
    PROVE  XInv'
<1> USE LoopIn
<1>1. pc[Loop] \in {"registered", "announce", "stage", "reported"} /\ ~unflushed[Loop]
  BY DEF Begin, Announce, AbortByFlag, PassOver, StartStage, FinishOk, Notify, At
<1>2. /\ cur[Loop] \in Runs /\ obj[Loop] \in RunObject /\ cur[Loop] \notin backlog
      /\ todo[Loop] = {} /\ pc[Loop] \notin {"down", "sweep", "swept"}
      /\ idx[Loop] \in 1..(Len(Pipeline) + 1)
  BY <1>1, InHand DEF Doing, Ending, TInv, TypeOK
<1>3. CASE Begin(Loop)
  <2>1. /\ Ended(obj[Loop], "in_progress") \in RunObject
        /\ Ended(obj[Loop], "in_progress").status = "in_progress"
    BY <1>2, EndedType DEF RunStatus
  <2>2. index[cur[Loop]] = "pending"
    BY <1>3 DEF Begin, At, XInv, Recorded
  <2>3. "announce" \notin {"registered"} \cup Doing \cup Ending
    BY DEF Doing, Ending
  <2>4. /\ Save(Loop, Ended(obj[Loop], "in_progress")) /\ Goto(Loop, "announce")
        /\ UNCHANGED <<index, backlog, cur, todo>>
    BY <1>3 DEF Begin
  <2> QED
    BY <1>2, <2>1, <2>2, <2>3, <2>4, SaveIndex
<1>4. CASE Announce(Loop)
  <2>1. CASE OutboxFaults /\ Catastrophe(Loop)
    BY <1>4, <2>1, CatastropheIndex DEF Announce
  <2>2. /\ pc[Loop] = "announce" /\ obj[Loop].status = "in_progress"
        /\ index[cur[Loop]] = "in_progress"
    BY <1>4 DEF Announce, At, XInv, Recorded
  <2>3. "stage" \in Doing \ ({"registered", "announce"} \cup Ending)
    BY DEF Doing, Ending
  <2>4. CASE /\ needs_full_restart(obj[Loop])
             /\ Save(Loop, Restarted(obj[Loop]))
             /\ Goto(Loop, "stage")
             /\ UNCHANGED <<index, backlog, cur, idx, attempt, todo, copy>>
    BY <1>2, <2>2, <2>3, <2>4, RestartedType, SaveIndex
  <2>5. CASE /\ ~needs_full_restart(obj[Loop])
             /\ Goto(Loop, "stage")
             /\ UNCHANGED <<disk, cur, obj, idx, attempt, unflushed, todo, copy>>
    BY <1>1, <2>2, <2>3, <2>5, MoveIndex DEF Goto, disk
  <2> QED
    BY <1>4, <2>1, <2>4, <2>5 DEF Announce
<1>5. CASE AbortByFlag(Loop)
  <2>1. /\ Ended(obj[Loop], "aborted") \in RunObject
        /\ Ended(obj[Loop], "aborted").status \in Terminal
    BY <1>2, EndedType DEF RunStatus, Terminal
  <2> QED
    BY <1>5, <2>1, EndingIndex DEF AbortByFlag, At, Doing, Ending
<1>6. CASE PassOver(Loop)
  BY <1>6, SameIndex DEF PassOver, disk
<1>7. CASE StartStage(Loop)
  <2>1. Stage(Loop) \in StageName
    BY <1>2, <1>7, PipelineLength DEF StartStage, Stage
  <2>2. /\ Mark(obj[Loop], Stage(Loop), "in_progress") \in RunObject
        /\ Mark(obj[Loop], Stage(Loop), "in_progress").status = obj[Loop].status
    <3>1. "in_progress" \in StageStatus
      BY DEF StageStatus
    <3> QED
      BY <1>2, <2>1, <3>1, MarkType
  <2> QED
    BY <1>7, <2>2, DoingIndex DEF StartStage, At, Doing
<1>8. CASE FinishOk(Loop)
  <2>1. /\ Ended(obj[Loop], "ok") \in RunObject
        /\ Ended(obj[Loop], "ok").status \in Terminal
    BY <1>2, EndedType DEF RunStatus, Terminal
  <2> QED
    BY <1>8, <2>1, EndingIndex DEF FinishOk, At, Doing, Ending
<1>9. CASE Notify(Loop)
  <2>1. CASE OutboxFaults /\ Catastrophe(Loop)
    BY <1>9, <2>1, CatastropheIndex DEF Notify
  <2>2. CASE Goto(Loop, "end") /\ UNCHANGED <<disk, cur, obj, idx, attempt, unflushed,
                                             todo, copy>>
    BY <1>9, <2>2, MoveIndex DEF Notify, At, Goto, Ending, disk
  <2> QED
    BY <1>9, <2>1, <2>2 DEF Notify
<1> QED
  BY <1>3, <1>4, <1>5, <1>6, <1>7, <1>8, <1>9

\* What a stage comes to, and the attempts of DEPLOY.
LEMMA StageIndex ==
    ASSUME TInv, OInv, XInv,
           \/ PlainStageOk(Loop) \/ ReadyWaitOk(Loop) \/ CapabilityOk(Loop)
           \/ StageFails(Loop) \/ StageSkips(Loop)
           \/ DeploySpawn(Loop) \/ DeployAttemptFails(Loop)
           \/ DeployOk(Loop) \/ DeployFails(Loop)
    PROVE  XInv'
<1> USE LoopIn
<1>1. pc[Loop] \in {"exec", "deploying", "repairing"}
  BY DEF PlainStageOk, ReadyWaitOk, CapabilityOk, StageFails, StageSkips, DeploySpawn,
         DeployAttemptFails, DeployOk, DeployFails, At
<1>2. Stage(Loop) \in StageName /\ obj[Loop] \in RunObject
  BY <1>1, InStageFacts DEF InStage
<1>3. \A st \in StageStatus :
         /\ Mark(obj[Loop], Stage(Loop), st) \in RunObject
         /\ Mark(obj[Loop], Stage(Loop), st).status = obj[Loop].status
  BY <1>2, MarkType
<1>4. pc[Loop] \in Doing /\ {"stage", "failed", "skipped", "deploying", "repairing"} \subseteq Doing
      /\ {"ok", "failed", "skipped"} \subseteq StageStatus
  BY <1>1 DEF Doing, StageStatus
<1>5. CASE MarkOk(Loop)
  BY <1>3, <1>4, <1>5, DoingIndex DEF MarkOk
<1>6. CASE MarkFailed(Loop)
  BY <1>3, <1>4, <1>6, DoingIndex DEF MarkFailed
<1>7. CASE StageSkips(Loop)
  BY <1>3, <1>4, <1>7, DoingIndex DEF StageSkips
<1>8. CASE DeploySpawn(Loop) \/ DeployAttemptFails(Loop)
  <2>1. PICK l \in {"deploying", "repairing"} : Goto(Loop, l)
    BY <1>8 DEF DeploySpawn, DeployAttemptFails
  <2> QED
    BY <1>4, <1>8, <2>1, MoveIndex DEF DeploySpawn, DeployAttemptFails, Goto, disk
<1> QED
  BY <1>5, <1>6, <1>7, <1>8
     DEF PlainStageOk, ReadyWaitOk, CapabilityOk, StageFails, DeployOk, DeployFails

LEMMA CleanupIndex ==
    ASSUME TInv, OInv, XInv,
           \/ CleanupRemoves(Loop) \/ CleanupOk(Loop) \/ BestEffortCleanupFails(Loop)
    PROVE  XInv'
<1> USE LoopIn
<1>1. pc[Loop] \in {"exec", "unwind", "rollback"}
  BY DEF CleanupRemoves, CleanupOk, BestEffortCleanupFails, Cleaning, At
<1>2. cur[Loop] \in Runs /\ obj[Loop] \in RunObject
  BY <1>1, InHand DEF Doing, Ending
<1>3. CASE CleanupRemoves(Loop)
  BY <1>3, SameIndex DEF CleanupRemoves, disk, memory
<1>4. CASE CleanupOk(Loop) /\ pc[Loop] = "exec"
  <2>1. Stage(Loop) \in StageName /\ "ok" \in StageStatus
    BY <1>1, <1>4, InStageFacts DEF InStage, StageStatus
  <2> QED
    BY <1>2, <1>4, <2>1, MarkType, DoingIndex DEF CleanupOk, MarkOk, Doing
<1>5. ASSUME NEW st \in {"ok", "failed"}, pc[Loop] # "exec",
             Save(Loop, Mark(obj[Loop], "CLEANUP", st)), Goto(Loop, AfterCleanup(Loop)),
             UNCHANGED <<index, backlog, cur, todo>>
      PROVE  XInv'
  <2> DEFINE run == Mark(obj[Loop], "CLEANUP", st)
  <2>1. "CLEANUP" \in StageName /\ st \in StageStatus
    BY DEF StageName, StageStatus
  <2>2. run \in RunObject /\ run.status = obj[Loop].status
    BY <1>2, <2>1, MarkType
  <2> HIDE DEF run
  <2>3. CASE pc[Loop] = "unwind"
    <3>1. AfterCleanup(Loop) = "unwound" /\ pc[Loop] \in Doing /\ "unwound" \in Doing
      BY <2>3 DEF AfterCleanup, Doing
    <3> QED
      BY <1>5, <2>2, <3>1, DoingIndex DEF run
  <2>4. CASE pc[Loop] = "rollback"
    <3>1. AfterCleanup(Loop) = "end" /\ pc[Loop] \in Ending /\ "end" \in Ending
      BY <2>4 DEF AfterCleanup, Ending
    <3>2. run.status \in Terminal
      BY <2>2, <3>1 DEF XInv, Recorded
    <3> QED
      BY <1>5, <2>2, <3>1, <3>2, EndingIndex DEF run
  <2> QED
    BY <1>1, <1>5, <2>3, <2>4
<1>6. CASE CleanupOk(Loop) /\ pc[Loop] # "exec"
  BY <1>5, <1>6 DEF CleanupOk
<1>7. CASE BestEffortCleanupFails(Loop)
  BY <1>5, <1>7 DEF BestEffortCleanupFails
<1> QED
  BY <1>3, <1>4, <1>6, <1>7

LEMMA UnwindIndex ==
    ASSUME TInv, OInv, XInv,
           Unwind(Loop) \/ RecordFailure(Loop) \/ RecordSkip(Loop) \/ Rollback(Loop)
    PROVE  XInv'
<1> USE LoopIn
<1>1. pc[Loop] \in {"failed", "unwound", "skipped", "aborted"}
  BY DEF Unwind, RecordFailure, RecordSkip, Rollback, At
<1>2. cur[Loop] \in Runs /\ obj[Loop] \in RunObject
  BY <1>1, InHand DEF Doing, Ending
<1>3. /\ Mark(obj[Loop], "CLEANUP", "in_progress") \in RunObject
      /\ Mark(obj[Loop], "CLEANUP", "in_progress").status = obj[Loop].status
  <2>1. "CLEANUP" \in StageName /\ "in_progress" \in StageStatus
    BY DEF StageName, StageStatus
  <2> QED
    BY <1>2, <2>1, MarkType
<1>4. \A st \in {"failed", "aborted"} :
         Ended(obj[Loop], st) \in RunObject /\ Ended(obj[Loop], st).status = st
  BY <1>2, EndedType DEF RunStatus
<1>5. /\ {"failed", "unwound", "skipped", "unwind"} \subseteq Doing
      /\ {"aborted", "rollback", "reported", "end"} \subseteq Ending
      /\ {"failed", "aborted"} \subseteq Terminal
  BY DEF Doing, Ending, Terminal
<1>6. CASE Unwind(Loop)
  BY <1>3, <1>5, <1>6, DoingIndex DEF Unwind, At
<1>7. CASE RecordFailure(Loop)
  BY <1>4, <1>5, <1>7, EndingIndex DEF RecordFailure, At
<1>8. CASE RecordSkip(Loop)
  BY <1>4, <1>5, <1>8, EndingIndex DEF RecordSkip, At
<1>9. CASE Rollback(Loop)
  <2>1. pc[Loop] \in Ending /\ obj[Loop].status \in Terminal
    BY <1>5, <1>9 DEF Rollback, At, XInv, Recorded
  <2>2. CASE obj[Loop].stages["CLEANUP"] \notin {"ok", "skipped"}
    BY <1>3, <1>5, <1>9, <2>1, <2>2, EndingIndex DEF Rollback
  <2>3. CASE obj[Loop].stages["CLEANUP"] \in {"ok", "skipped"}
    BY <1>5, <1>9, <2>1, <2>3, MoveIndex DEF Rollback, Goto, disk
  <2> QED
    BY <2>2, <2>3
<1> QED
  BY <1>6, <1>7, <1>8, <1>9

LEMMA EnvironmentIndex ==
    ASSUME Operators = {}, OutboxFaults => MaxCrashes = 0, TInv, OInv, XInv, Environment
    PROVE  XInv'
<1> USE LoopIn
<1>1. ASSUME NEW r \in Runs, ContainerReady(r) \/ ContainerDies(r)
      PROVE  XInv'
  BY <1>1, SameIndex DEF ContainerReady, ContainerDies, disk, memory
<1>2. ASSUME NEW r \in Runs, EditAbortFlag(r)
      PROVE  XInv'
  <2>1. pc[Loop] = "down" /\ UNCHANGED <<index, backlog, pc, cur, obj, unflushed, todo>>
    BY <1>2 DEF EditAbortFlag, memory
  <2>2. \A q \in Runs : state'[q].status = state[q].status
    <3>1. state' = [state EXCEPT ![r] = [state[r] EXCEPT !.abort = TRUE]]
      BY <1>2 DEF EditAbortFlag
    <3>2. [state[r] EXCEPT !.abort = TRUE].status = state[r].status
      BY DEF TInv, TypeOK, RunObject
    <3> QED
      BY <3>1, <3>2 DEF TInv, TypeOK
  <2>3. backlog \subseteq Runs
    BY DEF TInv, TypeOK
  <2>4. Queued' /\ Recorded' /\ Sweeping' /\ Others'
    BY <2>1, <2>2, <2>3 DEF XInv, Queued, Recorded, Sweeping, Others, Agrees, Doing, Ending
  <2> QED
    BY <2>4 DEF XInv
<1>3. ASSUME NEW p \in Procs, Crash(p)
      PROVE  XInv'
  <2>1. p = Loop
    BY DEF Procs
  <2>2. MaxCrashes # 0
    BY <1>3, ConstantAssumption DEF Crash, TInv, TypeOK
  <2>3. todo'[Loop] = {} /\ Release(Loop, "down") /\ UNCHANGED <<state, index, backlog>>
    BY <1>3, <2>1 DEF Crash, Exit, disk, TInv, TypeOK
  <2> QED
    BY <2>2, <2>3, ReleaseIndex
<1> QED
  BY <1>1, <1>2, <1>3 DEF Environment

LEMMA StepIndex ==
    ASSUME Operators = {}, OutboxFaults => MaxCrashes = 0
    PROVE  TInv /\ OInv /\ XInv /\ [Next]_vars => XInv'
<1> SUFFICES ASSUME TInv, OInv, XInv, [Next]_vars PROVE XInv'
  OBVIOUS
<1>1. CASE LoopStep
  BY <1>1, ServiceIndex, FlushIndexIndex, QueueIndex, WalkIndex, StageIndex,
     CleanupIndex, UnwindIndex DEF LoopStep, ProcessStep, RunPipeline
<1>2. CASE Environment
  BY <1>2, EnvironmentIndex
<1>3. CASE UNCHANGED vars
  BY <1>3, SameIndex DEF vars, disk, memory
<1> QED
  BY <1>1, <1>2, <1>3 DEF Next

LEMMA IndexInvariance ==
    ASSUME Operators = {}, OutboxFaults => MaxCrashes = 0
    PROVE  Spec => [](TInv /\ OInv /\ XInv)
<1>1. TInv /\ OInv /\ [Next]_vars => OInv'
  BY StepOutcome
<1>2. TInv /\ OInv /\ XInv /\ [Next]_vars => XInv'
  BY StepIndex
<1> QED
  BY <1>1, <1>2, InitOutcome, InitIndex, TypeInvariance, PTL DEF Spec

-----------------------------------------------------------------------------
(* The theorems *)

\* Once cmd_loop has swept, row and file of a run nobody executes agree, up to
\* the two windows of a crash before a run's first rows, however often the loop
\* has died.  An outbox that raises is only allowed where no process dies: the
\* save of its FAILED over a reported OK, torn by a crash, is never repaired.
THEOREM RowsMatchFiles ==
    ASSUME Operators = {}, OutboxFaults => MaxCrashes = 0
    PROVE  Spec => []IndexMatchesState
<1>1. TInv /\ OInv /\ XInv => IndexMatchesState
  <2> SUFFICES ASSUME TInv, OInv, XInv, pc[Loop] \notin {"down", "sweep", "swept"},
                      NEW r \in Runs, ~Executing(r)
               PROVE  Agrees(r)
    BY DEF IndexMatchesState, Agrees
  <2>1. r # cur[Loop] /\ r \notin todo[Loop]
    BY LoopIn DEF Executing, XInv, Sweeping
  <2> QED
    BY <2>1 DEF XInv, Others
<1> QED
  BY <1>1, IndexInvariance, PTL

\* No step but the second half of a save touches a row.
LEMMA OnlyFlushWrites ==
    ASSUME Operators = {}, [Next]_vars, index' # index
    PROVE  FlushIndex(Loop)
<1>1. CASE LoopStep
  <2>1. CASE StartLoop \/ SweepLoad \/ SweepSave \/ SweepDone \/ IdlePoll
    BY <2>1 DEF StartLoop, SweepLoad, SweepSave, SweepDone, IdlePoll, vars, disk
  <2>2. CASE Pop(Loop) \/ Register(Loop) \/ Return(Loop)
    BY <2>2 DEF Pop, Register, Return, disk
  <2>3. CASE RunPipeline(Loop)
    <3>1. CASE \/ Begin(Loop) \/ Announce(Loop) \/ AbortByFlag(Loop) \/ PassOver(Loop)
               \/ StartStage(Loop) \/ FinishOk(Loop) \/ Notify(Loop)
      BY <3>1 DEF Begin, Announce, AbortByFlag, PassOver, StartStage, FinishOk, Notify,
                  Catastrophe, disk
    <3>2. CASE \/ PlainStageOk(Loop) \/ ReadyWaitOk(Loop) \/ CapabilityOk(Loop)
               \/ StageFails(Loop) \/ StageSkips(Loop)
               \/ DeploySpawn(Loop) \/ DeployAttemptFails(Loop)
               \/ DeployOk(Loop) \/ DeployFails(Loop)
      BY <3>2 DEF PlainStageOk, ReadyWaitOk, CapabilityOk, StageFails, StageSkips,
                  DeploySpawn, DeployAttemptFails, DeployOk, DeployFails, MarkOk,
                  MarkFailed, disk
    <3>3. CASE \/ CleanupRemoves(Loop) \/ CleanupOk(Loop) \/ BestEffortCleanupFails(Loop)
               \/ Unwind(Loop) \/ RecordFailure(Loop) \/ RecordSkip(Loop)
               \/ Rollback(Loop)
      BY <3>3 DEF CleanupRemoves, CleanupOk, BestEffortCleanupFails, MarkOk, Unwind,
                  RecordFailure, RecordSkip, Rollback, disk
    <3> QED
      BY <2>3, <3>1, <3>2, <3>3 DEF RunPipeline
  <2> QED
    BY <1>1, <2>1, <2>2, <2>3 DEF LoopStep, ProcessStep
<1>2. CASE Environment
  BY <1>2 DEF Environment, ContainerReady, ContainerDies, EditAbortFlag, Crash, disk
<1>3. CASE UNCHANGED vars
  BY <1>3 DEF vars, disk
<1> QED
  BY <1>1, <1>2, <1>3 DEF Next

\* A flush is one step of the life of the run in the loop's hands, or repeats
\* its row.
LEMMA FlushRefines ==
    ASSUME OutboxFaults = FALSE, TInv, XInv, FlushIndex(Loop)
    PROVE  [Lifecycle!Next]_index
<1> USE LoopIn
<1> DEFINE r == cur[Loop]
<1>1. /\ unflushed[Loop] /\ r \in Runs
      /\ index' = [index EXCEPT ![r] = obj[Loop].status]
      /\ index \in [Runs -> RunStatus \cup {"absent"}]
  BY DEF FlushIndex, TInv, TypeOK, Placed
<1> HIDE DEF r
<1>2. CASE obj[Loop].status = index[r]
  BY <1>1, <1>2
<1>3. CASE pc[Loop] = "registered" /\ obj[Loop].status # index[r]
  <2>1. Lifecycle!Register(r)
    BY <1>1, <1>3 DEF XInv, Recorded, r, Lifecycle!Register
  <2> QED
    BY <1>1, <2>1 DEF Lifecycle!Next
<1>4. CASE pc[Loop] = "announce" /\ obj[Loop].status # index[r]
  <2>1. index[r] = "pending" /\ obj[Loop].status = "in_progress"
    BY <1>1, <1>4 DEF XInv, Recorded, r
  <2>2. \A q \in Runs : index[q] # "in_progress"
    BY <1>4, <2>1 DEF XInv, Others, Sweeping, r
  <2>3. Lifecycle!Begin(r)
    BY <1>1, <2>1, <2>2 DEF Lifecycle!Begin
  <2> QED
    BY <1>1, <2>3 DEF Lifecycle!Next
<1>5. CASE pc[Loop] \in Doing \cup Ending \cup {"sweep"} /\ obj[Loop].status # index[r]
  <2>1. index[r] = "in_progress" /\ obj[Loop].status \in Terminal
    BY <1>1, <1>5 DEF XInv, Recorded, Sweeping, Terminal, r
  <2>2. Lifecycle!End(r)
    BY <1>1, <2>1 DEF Lifecycle!End, Lifecycle!Terminal, Terminal
  <2> QED
    BY <1>1, <2>2 DEF Lifecycle!Next
<1>6. pc[Loop] \in {"registered", "announce", "sweep"} \cup Doing \cup Ending
  BY <1>1 DEF XInv, Queued, Sweeping, Doing, Ending, TInv, TypeOK, Location
<1> QED
  BY <1>2, <1>3, <1>4, <1>5, <1>6

\* The rows of runs.sqlite live the life module RunLifecycle promises, for every
\* number of runs and crashes: a run enters as pending, is in_progress once and
\* alone, and its end is final.  Where the outbox may raise this is false: a
\* reported OK becomes FAILED.
THEOREM RowsImplementLifecycle ==
    ASSUME Operators = {}, OutboxFaults = FALSE
    PROVE  Spec => ImplementsLifecycle
<1>1. Init => Lifecycle!Init
  BY DEF Init, Lifecycle!Init
<1>2. TInv /\ XInv /\ [Next]_vars => [Lifecycle!Next]_index
  <2> SUFFICES ASSUME TInv, XInv, [Next]_vars, index' # index
               PROVE  [Lifecycle!Next]_index
    OBVIOUS
  <2> QED
    BY OnlyFlushWrites, FlushRefines
<1>3. Spec => [](TInv /\ OInv /\ XInv)
  BY IndexInvariance
<1> QED
  BY <1>1, <1>2, <1>3, PTL DEF Spec, ImplementsLifecycle, Lifecycle!Spec

=============================================================================
