-------------------------- MODULE RunCheckpointProofs --------------------------
(***************************************************************************)
(* The checkpoints of a run, the stages its state.json says are ok, for    *)
(* every set of runs, pipeline, number of crashes and faults of docker and *)
(* the outbox, when the service and one operator's `run` and `resume` take *)
(* turns.                                                                  *)
(***************************************************************************)
EXTENDS RunPipelineProofs

\* A command is typed only while the service is down, in one shell.  Two shells,
\* or a command beside the service, write the same state.json: a run loaded
\* before the other's last save takes its checkpoints back.
TakingTurns == ~Overlap /\ \A o1, o2 \in Operators : o1 = o2

-----------------------------------------------------------------------------
(* The checkpoints of a run *)

Oks(run) == {s \in StageName : run.stages[s] = "ok"}

\* Checkpoints are a prefix of the pipeline, all of it where the run is ok.
Sound(run) ==
    /\ run.status = "ok" => \A i \in 1..Len(Pipeline) : Pipeline[i] \in Oks(run)
    /\ \A i, j \in 1..(Len(Pipeline) - 1) :
          i < j /\ Pipeline[j] \in Oks(run) => Pipeline[i] \in Oks(run)

LEMMA OksMark ==
    ASSUME NEW run \in RunObject, NEW s \in StageName, NEW st \in StageStatus
    PROVE  Oks(Mark(run, s, st)) = IF st = "ok" THEN Oks(run) \cup {s} ELSE Oks(run) \ {s}
<1> DEFINE new == Mark(run, s, st)
<1>1. new.stages[s] = st /\ \A t \in StageName \ {s} : new.stages[t] = run.stages[t]
  BY MarkType
<1> HIDE DEF new
<1> QED
  BY <1>1 DEF Oks, new

LEMMA OksEnded ==
    ASSUME NEW run \in RunObject, NEW st \in RunStatus
    PROVE  Oks(Ended(run, st)) = Oks(run)
  BY EndedType DEF Oks

LEMMA OksRestarted ==
    ASSUME NEW run \in RunObject
    PROVE  Oks(Restarted(run)) = Oks(run)
  BY DEF Oks, Restarted, RunObject

LEMMA OksFresh == Oks(FreshRun) = {} /\ Oks(NoFile) = {} /\ Sound(FreshRun) /\ Sound(NoFile)
<1>1. \A s \in StageName : FreshRun.stages[s] = "pending" /\ NoFile.stages[s] = "pending"
  BY DEF FreshRun, NoFile
<1>2. FreshRun.status = "pending" /\ NoFile.status = "absent"
  BY DEF FreshRun, NoFile
<1>3. Oks(FreshRun) = {} /\ Oks(NoFile) = {}
  BY <1>1 DEF Oks
<1> QED
  BY <1>2, <1>3 DEF Sound

\* Only the end ok asks for all the checkpoints.
LEMMA SoundSame ==
    ASSUME NEW run, NEW new, Sound(run), Oks(new) = Oks(run),
           new.status \in {run.status} \cup (RunStatus \ {"ok"})
    PROVE  Sound(new)
  BY DEF Sound

\* A stage that is ok after all the stages before it, or CLEANUP, which may be ok
\* after a failure as well.
LEMMA SoundNext ==
    ASSUME NEW run, NEW new, NEW i \in 1..Len(Pipeline), Sound(run),
           new.status = run.status, Oks(new) = Oks(run) \cup {Pipeline[i]},
           \/ i = Len(Pipeline)
           \/ \A k \in 1..Len(Pipeline) : k < i => Pipeline[k] \in Oks(run)
    PROVE  Sound(new)
<1>1. ASSUME NEW k \in 1..(Len(Pipeline) - 1), NEW j \in 1..(Len(Pipeline) - 1),
             k < j, Pipeline[j] \in Oks(new)
      PROVE  Pipeline[k] \in Oks(new)
  <2>1. k \in 1..Len(Pipeline) /\ j \in 1..Len(Pipeline)
    BY PipelineLength
  <2>2. CASE j = i
    BY <1>1, <2>1, <2>2, PipelineLength
  <2>3. CASE j # i
    <3>1. Pipeline[j] # Pipeline[i]
      BY <2>1, <2>3, PipelineAssumption
    <3> QED
      BY <1>1, <3>1 DEF Sound
  <2> QED
    BY <2>2, <2>3
<1> QED
  BY <1>1 DEF Sound

-----------------------------------------------------------------------------
(* The inductive invariant *)

Alone == \A p, q \in Procs : p # q => pc[p] = "down" \/ pc[q] = "down"

AllSound ==
    /\ \A r \in Runs : Sound(state[r])
    /\ \A p \in Procs : Sound(obj[p]) /\ \A r \in Runs : Sound(copy[p][r])

\* A run in the queue has not begun, and nobody else has it.
Fresh ==
    /\ \A r \in backlog :
          index[r] = "absent" /\ state[r].status = "absent" /\ Oks(state[r]) = {}
    /\ \A p \in Procs :
          /\ cur[p] \notin backlog \cup todo[p]
          /\ todo[p] \cap backlog = {}
          /\ pc[p] = "popped" => Oks(state[cur[p]]) = {}
          /\ pc[p] \in {"down", "idle", "resume"} => cur[p] \notin Runs

Carrying == {"swept", "registered", "announce", "stage", "exec", "deploying",
             "repairing", "failed", "skipped", "unwind", "unwound", "aborted",
             "rollback", "reported", "end"}

\* No process works on a stale copy: what it has in memory has the checkpoints
\* that are on disk.
InStep ==
    \A p \in Procs :
        /\ pc[p] = "down" => todo[p] = {}
        /\ pc[p] \in Carrying => Oks(obj[p]) = Oks(state[cur[p]])
        /\ p # Loop => \A r \in todo[p] : Oks(copy[p][r]) = Oks(state[r])

Starting == {"down", "sweep", "swept", "idle", "popped", "registered", "announce",
             "resume"}
OnStage == {"exec", "deploying", "repairing"}

\* A process is behind checkpoints only, and never executes one again.
Walk ==
    \A p \in Procs :
        /\ pc[p] \in Starting => idx[p] = 1
        /\ pc[p] \in {"stage"} \cup OnStage =>
              \A i \in 1..Len(Pipeline) : i < idx[p] => Pipeline[i] \in Oks(obj[p])
        /\ pc[p] \in OnStage => Pipeline[idx[p]] \notin Oks(obj[p])
        /\ pc[p] \in {"unwind", "rollback"} => "CLEANUP" \notin Oks(obj[p])

CInv == Alone /\ AllSound /\ Fresh /\ InStep /\ Walk

\* No step takes a checkpoint, not even the restart of the run-level stages.
Kept == \A r \in Runs : Oks(state[r]) \subseteq Oks(state'[r])

LEMMA InitCheckpoint == Init => CInv
<1> SUFFICES ASSUME Init PROVE CInv
  OBVIOUS
<1> USE OksFresh, ConstantAssumption
<1>1. Alone /\ AllSound /\ InStep
  BY DEF Init, Alone, AllSound, InStep, Carrying
<1>2. Fresh
  BY DEF Init, Fresh, NoFile, FreshRun
<1>3. Walk
  BY DEF Init, Walk, OnStage
<1> QED
  BY <1>1, <1>2, <1>3 DEF CInv


\* A save that loses no checkpoint.
LEMMA SaveCheckpoint ==
    ASSUME TInv, CInv, NEW p \in Procs, NEW run \in RunObject,
           NEW l \in (Carrying \ {"swept"}) \cup {"sweep"},
           pc[p] # "down", cur[p] \in Runs, Save(p, run), Goto(p, l),
           UNCHANGED <<index, backlog, cur, todo, copy>>,
           \A q \in Procs \ {p} : idx'[q] = idx[q],
           Sound(run), Oks(state[cur[p]]) \subseteq Oks(run),
           l \in Starting => idx'[p] = 1,
           l \in {"stage"} \cup OnStage =>
              \A i \in 1..Len(Pipeline) : i < idx'[p] => Pipeline[i] \in Oks(run),
           l \in OnStage => Pipeline[idx'[p]] \notin Oks(run),
           l \in {"unwind", "rollback"} => "CLEANUP" \notin Oks(run)
    PROVE  CInv' /\ Kept
<1>1. /\ state'[cur[p]] = run /\ obj'[p] = run /\ pc'[p] = l
      /\ \A q \in Procs \ {p} : obj'[q] = obj[q] /\ pc'[q] = pc[q] /\ pc[q] = "down"
      /\ \A r \in Runs \ {cur[p]} : state'[r] = state[r]
      /\ l \in Location \ {"down", "popped"}
  <2>1. l \in Location \ {"down", "popped"}
    BY DEF Carrying, Location
  <2> QED
    BY <2>1, SaveType, GotoType DEF CInv, Alone
<1>2. Alone'
  BY <1>1 DEF Alone
<1>3. AllSound'
  BY <1>1 DEF CInv, AllSound
<1>4. Fresh'
  BY ZenonT(40), <1>1 DEF CInv, Fresh, TInv, TypeOK, Carrying
<1>5. InStep'
  <2> SUFFICES ASSUME NEW q \in Procs
               PROVE  /\ pc'[q] = "down" => todo[q] = {}
                      /\ pc'[q] \in Carrying => Oks(obj'[q]) = Oks(state'[cur[q]])
                      /\ q # Loop => \A r \in todo[q] : Oks(copy[q][r]) = Oks(state'[r])
    BY DEF InStep
  <2>1. CASE q = p
    <3>1. \A r \in todo[p] : state'[r] = state[r]
      BY <1>1 DEF CInv, Fresh, TInv, TypeOK
    <3> QED
      BY <1>1, <2>1, <3>1 DEF CInv, InStep
  <2>2. CASE q # p
    BY <1>1, <2>2 DEF CInv, InStep, Carrying
  <2> QED
    BY <2>1, <2>2
<1>6. Walk'
  BY <1>1 DEF CInv, Walk, OnStage
<1>7. Kept
  BY <1>1 DEF Kept
<1> QED
  BY <1>2, <1>3, <1>4, <1>5, <1>6, <1>7 DEF CInv

\* A save that leaves the checkpoints as they are, and does not end the run ok.
LEMMA SameCheckpoint ==
    ASSUME TInv, CInv, NEW p \in Procs, pc[p] \in Carrying, NEW run \in RunObject,
           NEW l \in (Carrying \ {"swept"}) \cup {"sweep"},
           Save(p, run), Goto(p, l), UNCHANGED <<index, backlog, cur, todo, copy, idx>>,
           Oks(run) = Oks(obj[p]), run.status \in {obj[p].status} \cup (RunStatus \ {"ok"}),
           l \in Starting => pc[p] \in Starting,
           l \in {"stage"} \cup OnStage =>
              \/ pc[p] \in {"stage"} \cup OnStage
              \/ pc[p] \in Starting,
           l \in OnStage => Pipeline[idx[p]] \notin Oks(run),
           l \in {"unwind", "rollback"} => "CLEANUP" \notin Oks(run)
    PROVE  CInv' /\ Kept
<1>1. /\ pc[p] # "down" /\ cur[p] \in Runs /\ Oks(obj[p]) = Oks(state[cur[p]])
      /\ Sound(obj[p])
  BY DEF CInv, InStep, AllSound, Carrying, TInv, TypeOK, Placed, Idling
<1>2. Sound(run)
  BY <1>1, SoundSame
<1>3. pc[p] \in Starting => idx[p] = 1
  BY DEF CInv, Walk
<1>4. pc[p] \in {"stage"} \cup OnStage \cup Starting =>
         \A i \in 1..Len(Pipeline) : i < idx[p] => Pipeline[i] \in Oks(obj[p])
  BY <1>3, PipelineLength DEF CInv, Walk
<1> QED
  BY <1>1, <1>2, <1>3, <1>4, SaveCheckpoint

\* A step of the process with a run that saves nothing.
LEMMA MoveCheckpoint ==
    ASSUME TInv, CInv, NEW p \in Procs, pc[p] \in Carrying, NEW l \in Carrying,
           pc' = [pc EXCEPT ![p] = l], pc[p] # "swept",
           UNCHANGED <<state, index, backlog, cur, obj, todo, copy, idx>>,
           l \notin Starting \cup {"unwind", "rollback"},
           l = "stage" => pc[p] = "announce",
           l \in OnStage => pc[p] \in OnStage
    PROVE  CInv' /\ Kept
<1>1. /\ pc'[p] = l /\ pc[p] # "down"
      /\ \A q \in Procs \ {p} : pc'[q] = pc[q]
  BY DEF TInv, TypeOK, Carrying
<1>2. Alone'
  BY <1>1 DEF CInv, Alone
<1>3. AllSound' /\ Fresh' /\ InStep'
  BY <1>1 DEF CInv, AllSound, Fresh, InStep, Carrying
<1>4. Walk'
  <2>1. l = "stage" => idx[p] = 1
    BY DEF CInv, Walk, Starting
  <2> QED
    BY <1>1, <2>1, PipelineLength DEF CInv, Walk, OnStage
<1> QED
  BY <1>2, <1>3, <1>4 DEF CInv, Kept

\* A process gives its run up, or dies.
LEMMA ReleaseCheckpoint ==
    ASSUME TInv, CInv, NEW p \in Procs, NEW l \in Idling, Release(p, l),
           pc[p] # "down", UNCHANGED <<state, index, backlog>>,
           \/ UNCHANGED <<todo, copy>> /\ l # "down"
           \/ /\ todo' = [todo EXCEPT ![p] = {}]
              /\ copy' = [copy EXCEPT ![p] = [r \in Runs |-> NoFile]]
    PROVE  CInv' /\ Kept
<1>1. /\ pc'[p] = l /\ cur'[p] = None /\ obj'[p] = FreshRun /\ idx'[p] = 1
      /\ todo'[p] \in {todo[p], {}} /\ (l = "down" => todo'[p] = {})
      /\ copy'[p] \in {copy[p], [r \in Runs |-> NoFile]}
      /\ \A q \in Procs \ {p} :
            /\ pc'[q] = pc[q] /\ pc[q] = "down" /\ cur'[q] = cur[q] /\ obj'[q] = obj[q]
            /\ idx'[q] = idx[q] /\ todo'[q] = todo[q] /\ copy'[q] = copy[q]
  BY DEF Release, Goto, TInv, TypeOK, CInv, Alone
<1>2. None \notin Runs /\ backlog \subseteq Runs /\ todo[p] \subseteq Runs
  BY ConstantAssumption DEF TInv, TypeOK
<1>3. Alone'
  BY <1>1 DEF CInv, Alone
<1>4. AllSound'
  BY <1>1, OksFresh DEF CInv, AllSound
<1>5. Fresh'
  BY <1>1, <1>2 DEF CInv, Fresh, Idling
<1>6. InStep'
  <2>1. l \notin Carrying
    BY DEF Idling, Carrying
  <2>2. copy'[p] = copy[p] \/ todo'[p] = {}
    BY DEF TInv, TypeOK
  <2> QED
    BY <1>1, <2>1, <2>2 DEF CInv, InStep
<1>7. Walk'
  BY <1>1 DEF CInv, Walk, Idling, OnStage
<1> QED
  BY <1>3, <1>4, <1>5, <1>6, <1>7 DEF CInv, Kept


-----------------------------------------------------------------------------
(* The actions *)

LEMMA LoopProc == Loop \in Procs /\ \A o \in Operators : o \in Procs /\ o # Loop
  BY ConstantAssumption DEF Procs

\* The others are down while one process lives.
LEMMA WakeAlone ==
    ASSUME TInv, CInv, TakingTurns, NEW p \in Procs, NEW l, pc[p] # "down" \/
              (IF p = Loop THEN \A o \in Operators : pc[o] = "down" ELSE pc[Loop] = "down"),
           pc' = [pc EXCEPT ![p] = l]
    PROVE  /\ Alone'
           /\ \A q \in Procs \ {p} : pc'[q] = "down" /\ pc[q] = "down"
<1>1. \A q \in Procs \ {p} : pc[q] = "down"
  BY LoopProc DEF TakingTurns, CInv, Alone, Procs
<1>2. \A q \in Procs \ {p} : pc'[q] = pc[q]
  BY DEF TInv, TypeOK
<1> QED
  BY <1>1, <1>2 DEF Alone

LEMMA ServiceCheckpoint ==
    ASSUME TInv, CInv, TakingTurns,
           StartLoop \/ SweepLoad \/ SweepSave \/ SweepDone \/ IdlePoll
    PROVE  CInv' /\ Kept
<1> USE LoopProc
<1>1. CASE StartLoop
  <2>1. /\ pc[Loop] = "down" /\ pc'[Loop] = "sweep" /\ todo'[Loop] = Orphans
        /\ \A q \in Procs \ {Loop} : pc'[q] = pc[q] /\ todo'[q] = todo[q]
        /\ UNCHANGED <<state, index, backlog, cur, obj, idx, copy>>
    BY <1>1 DEF StartLoop, Goto, disk, TInv, TypeOK
  <2>2. Alone'
    BY <1>1, WakeAlone DEF StartLoop, Goto, TakingTurns
  <2>3. AllSound' /\ Walk'
    BY <2>1 DEF CInv, AllSound, Walk, Starting, OnStage
  <2>4. Fresh'
    <3>1. Orphans \cap backlog = {} /\ cur[Loop] \notin Orphans
      <4>1. cur[Loop] \notin Runs
        BY <2>1 DEF CInv, Fresh
      <4> QED
        BY <4>1 DEF Orphans, CInv, Fresh
    <3> QED
      BY <2>1, <3>1 DEF CInv, Fresh
  <2>5. InStep'
    BY <2>1 DEF CInv, InStep, Carrying
  <2> QED
    BY <2>1, <2>2, <2>3, <2>4, <2>5 DEF CInv, Kept
<1>2. CASE SweepLoad
  <2>1. PICK r \in todo[Loop] :
          /\ cur' = [cur EXCEPT ![Loop] = r]
          /\ obj' = [obj EXCEPT ![Loop] = Ended(state[r], "aborted")]
          /\ todo' = [todo EXCEPT ![Loop] = @ \ {r}]
    BY <1>2 DEF SweepLoad
  <2>2. /\ pc[Loop] = "sweep" /\ pc'[Loop] = "swept" /\ r \in Runs /\ cur'[Loop] = r
        /\ obj'[Loop] = Ended(state[r], "aborted") /\ todo'[Loop] = todo[Loop] \ {r}
        /\ \A q \in Procs \ {Loop} :
              pc'[q] = pc[q] /\ cur'[q] = cur[q] /\ obj'[q] = obj[q] /\ todo'[q] = todo[q]
        /\ UNCHANGED <<state, index, backlog, idx, copy>>
    BY <1>2, <2>1 DEF SweepLoad, At, Goto, disk, TInv, TypeOK
  <2>3. /\ Oks(obj'[Loop]) = Oks(state[r])
        /\ obj'[Loop].status = "aborted" /\ "aborted" \in RunStatus
    BY <2>2, OksEnded, EndedType DEF TInv, TypeOK, RunStatus
  <2>4. Alone' /\ Walk'
    BY <2>2 DEF CInv, Alone, Walk, Starting, OnStage
  <2>5. AllSound'
    <3>1. Sound(obj'[Loop])
      BY <2>2, <2>3, SoundSame DEF CInv, AllSound
    <3> QED
      BY <2>2, <3>1 DEF CInv, AllSound
  <2>6. Fresh'
    BY <2>2 DEF CInv, Fresh
  <2>7. InStep'
    BY <2>2, <2>3 DEF CInv, InStep
  <2> QED
    BY <2>2, <2>4, <2>5, <2>6, <2>7 DEF CInv, Kept
<1>3. CASE SweepSave
  <2>1. /\ pc[Loop] = "swept" /\ obj[Loop] \in RunObject
        /\ Save(Loop, obj[Loop]) /\ Goto(Loop, "sweep")
        /\ UNCHANGED <<index, backlog, cur, idx, todo, copy>>
    BY <1>3 DEF SweepSave, At, TInv, TypeOK
  <2>2. {"sweep", "swept"} \subseteq Starting /\ "swept" \in Carrying /\ "sweep" \notin OnStage
    BY DEF Starting, Carrying, OnStage
  <2> QED
    BY <2>1, <2>2, SameCheckpoint
<1>4. CASE SweepDone
  BY <1>4, ReleaseCheckpoint DEF SweepDone, At, Idling, disk
<1>5. CASE IdlePoll
  BY <1>5 DEF IdlePoll, vars, disk, memory, CInv, Alone, AllSound, Fresh, InStep, Walk, Kept
<1> QED
  BY <1>1, <1>2, <1>3, <1>4, <1>5

LEMMA QueueCheckpoint ==
    ASSUME TInv, CInv, TakingTurns, NEW p \in Procs,
           Pop(p) \/ Register(p) \/ FlushIndex(p) \/ Return(p)
    PROVE  CInv' /\ Kept
<1> USE LoopProc
<1>1. CASE Pop(p)
  <2>1. PICK r \in backlog : backlog' = backlog \ {r} /\ cur' = [cur EXCEPT ![p] = r]
    BY <1>1 DEF Pop
  <2>2. /\ pc[p] \in {"idle", "down"} /\ pc'[p] = "popped" /\ cur'[p] = r /\ r \in Runs
        /\ \A q \in Procs \ {p} : pc'[q] = pc[q] /\ cur'[q] = cur[q]
        /\ UNCHANGED <<state, index, obj, idx, todo, copy>>
    BY <1>1, <2>1 DEF Pop, At, Goto, TInv, TypeOK
  <2>3. Alone'
    BY <1>1, WakeAlone DEF Pop, At, Goto, TakingTurns
  <2>4. AllSound' /\ Walk'
    BY <2>2 DEF CInv, AllSound, Walk, Starting, OnStage
  <2>5. Fresh'
    BY <2>1, <2>2 DEF CInv, Fresh
  <2>6. InStep'
    BY <2>2 DEF CInv, InStep, Carrying
  <2> QED
    BY <2>2, <2>3, <2>4, <2>5, <2>6 DEF CInv, Kept
<1>2. CASE Register(p)
  <2>1. /\ pc[p] = "popped" /\ cur[p] \in Runs /\ idx[p] = 1 /\ Oks(state[cur[p]]) = {}
    BY <1>2 DEF Register, At, CInv, Fresh, Walk, Starting, TInv, Placed, Idling
  <2>2. "registered" \in Carrying \ ({"swept", "stage"} \cup OnStage)
    BY DEF Carrying, OnStage
  <2> QED
    BY <1>2, <2>1, <2>2, FreshType, OksFresh, SaveCheckpoint DEF Register
<1>3. CASE FlushIndex(p)
  <2>1. /\ cur[p] \in Runs /\ cur[p] \notin backlog
        /\ \A r \in backlog : index'[r] = index[r]
        /\ UNCHANGED <<state, backlog, pc, cur, obj, idx, todo, copy>>
    BY <1>3 DEF FlushIndex, TInv, TypeOK, Placed, CInv, Fresh
  <2>2. Fresh'
    BY <2>1 DEF CInv, Fresh
  <2> QED
    BY <2>1, <2>2 DEF CInv, Alone, AllSound, InStep, Walk, Kept
<1>4. CASE Return(p)
  <2>1. PICK l \in {"idle", "resume"} : Release(p, l)
    BY <1>4 DEF Return
  <2> QED
    BY <1>4, <2>1, ReleaseCheckpoint DEF Return, At, Idling, disk
<1> QED
  BY <1>1, <1>2, <1>3, <1>4


LEMMA ExitCheckpoint ==
    ASSUME TInv, CInv, NEW p \in Procs, pc[p] # "down", Exit(p),
           UNCHANGED <<state, index, backlog>>
    PROVE  CInv' /\ Kept
  BY ReleaseCheckpoint DEF Exit, Idling

LEMMA ResumeCheckpoint ==
    ASSUME TInv, CInv, TakingTurns, NEW o \in Operators,
           StartResume(o) \/ ResumeNext(o) \/ ResumeDone(o)
    PROVE  CInv' /\ Kept
<1> USE LoopProc
<1>1. CASE StartResume(o)
  <2>1. /\ pc[o] = "down" /\ pc'[o] = "resume" /\ copy'[o] = state
        /\ todo'[o] = {r \in Runs : state[r].status = "in_progress"}
        /\ \A q \in Procs \ {o} : pc'[q] = pc[q] /\ todo'[q] = todo[q] /\ copy'[q] = copy[q]
        /\ UNCHANGED <<state, index, backlog, cur, obj, idx>>
    BY <1>1 DEF StartResume, At, Goto, disk, TInv, TypeOK
  <2>2. Alone'
    BY <1>1, WakeAlone DEF StartResume, Goto, TakingTurns
  <2>3. AllSound' /\ Walk'
    BY <2>1 DEF CInv, AllSound, Walk, Starting, OnStage
  <2>4. Fresh'
    BY <2>1 DEF CInv, Fresh
  <2>5. InStep'
    BY <2>1 DEF CInv, InStep, Carrying
  <2> QED
    BY <2>1, <2>2, <2>3, <2>4, <2>5 DEF CInv, Kept
<1>2. CASE ResumeNext(o)
  <2>1. PICK r \in todo[o] :
          /\ cur' = [cur EXCEPT ![o] = r]
          /\ obj' = [obj EXCEPT ![o] = copy[o][r]]
          /\ todo' = [todo EXCEPT ![o] = @ \ {r}]
    BY <1>2 DEF ResumeNext
  <2>2. /\ pc[o] = "resume" /\ pc'[o] = "registered" /\ r \in Runs /\ cur'[o] = r
        /\ obj'[o] = copy[o][r] /\ todo'[o] = todo[o] \ {r}
        /\ \A q \in Procs \ {o} :
              pc'[q] = pc[q] /\ cur'[q] = cur[q] /\ obj'[q] = obj[q] /\ todo'[q] = todo[q]
        /\ UNCHANGED <<state, index, backlog, idx, copy>>
    BY <1>2, <2>1 DEF ResumeNext, At, Goto, disk, TInv, TypeOK
  <2>3. Alone' /\ AllSound' /\ Fresh' /\ InStep'
    BY <2>2 DEF CInv, Alone, AllSound, Fresh, InStep
  <2>4. Walk'
    BY <2>2 DEF CInv, Walk, Starting, OnStage
  <2> QED
    BY <2>2, <2>3, <2>4 DEF CInv, Kept
<1>3. CASE ResumeDone(o)
  BY <1>3, ExitCheckpoint DEF ResumeDone, At, disk
<1> QED
  BY <1>1, <1>2, <1>3

LEMMA CatastropheCheckpoint ==
    ASSUME TInv, CInv, NEW p \in Procs, At(p, "announce") \/ At(p, "reported"),
           Catastrophe(p)
    PROVE  CInv' /\ Kept
<1>1. /\ obj[p] \in RunObject /\ pc[p] # "down" /\ pc[p] \in Carrying
      /\ "end" \in Carrying \ ({"swept"} \cup Starting \cup {"stage"} \cup OnStage)
  BY DEF At, TInv, TypeOK, Carrying, Starting, OnStage
<1>2. CASE p = Loop
  <2>1. /\ Oks(Ended(obj[p], "failed")) = Oks(obj[p])
        /\ Ended(obj[p], "failed") \in RunObject
        /\ Ended(obj[p], "failed").status \in RunStatus \ {"ok"}
    BY <1>1, OksEnded, EndedType DEF RunStatus
  <2>2. /\ Save(p, Ended(obj[p], "failed")) /\ Goto(p, "end")
        /\ UNCHANGED <<index, backlog, cur, idx, todo, copy>>
    BY <1>2 DEF Catastrophe
  <2> QED
    BY <1>1, <2>1, <2>2, SameCheckpoint
<1>3. CASE p # Loop
  BY <1>1, <1>3, ExitCheckpoint DEF Catastrophe, disk
<1> QED
  BY <1>2, <1>3

\* A stage that was not ok stays so, whatever else its mark becomes.
LEMMA RemarkCheckpoint ==
    ASSUME TInv, CInv, NEW p \in Procs, pc[p] \in Carrying \ {"swept"},
           NEW s \in StageName, NEW st \in StageStatus \ {"ok"}, s \notin Oks(obj[p]),
           NEW l \in Carrying \ ({"swept"} \cup Starting),
           Save(p, Mark(obj[p], s, st)), Goto(p, l),
           UNCHANGED <<index, backlog, cur, idx, todo, copy>>,
           l \in {"stage"} \cup OnStage => pc[p] \in {"stage"} \cup OnStage,
           l \in OnStage => Pipeline[idx[p]] \notin Oks(obj[p]),
           l \in {"unwind", "rollback"} => s = "CLEANUP"
    PROVE  CInv' /\ Kept
<1> DEFINE run == Mark(obj[p], s, st)
<1>1. obj[p] \in RunObject
  BY DEF TInv, TypeOK
<1>2. run \in RunObject /\ Oks(run) = Oks(obj[p]) /\ run.status = obj[p].status
  <2>1. run \in RunObject /\ run.status = obj[p].status
    BY <1>1, MarkType
  <2>2. Oks(run) = Oks(obj[p]) \ {s}
    BY <1>1, OksMark
  <2> QED
    BY <2>1, <2>2
<1> HIDE DEF run
<1> QED
  BY <1>2, SameCheckpoint DEF run

\* The stage at hand is ok: everything behind the next one is.
LEMMA MarkOkCheckpoint ==
    ASSUME TInv, CInv, NEW p \in Procs, pc[p] \in {"exec", "deploying"}, MarkOk(p)
    PROVE  CInv' /\ Kept
<1> DEFINE run == Mark(obj[p], Stage(p), "ok")
<1>1. /\ idx[p] \in 1..Len(Pipeline) /\ Stage(p) = Pipeline[idx[p]]
      /\ Stage(p) \in StageName /\ cur[p] \in Runs /\ obj[p] \in RunObject
  BY InStageFacts DEF InStage
<1>2. /\ run \in RunObject /\ run.status = obj[p].status
      /\ Oks(run) = Oks(obj[p]) \cup {Pipeline[idx[p]]}
  <2>1. "ok" \in StageStatus
    BY DEF StageStatus
  <2>2. run \in RunObject /\ run.status = obj[p].status
    BY <1>1, <2>1, MarkType
  <2>3. Oks(run) = Oks(obj[p]) \cup {Stage(p)}
    BY <1>1, <2>1, OksMark
  <2> QED
    BY <1>1, <2>2, <2>3
<1>3. /\ \A i \in 1..Len(Pipeline) : i < idx[p] => Pipeline[i] \in Oks(obj[p])
      /\ Sound(obj[p]) /\ Oks(obj[p]) = Oks(state[cur[p]])
  BY DEF CInv, Walk, OnStage, AllSound, InStep, Carrying
<1> HIDE DEF run
<1>4. Sound(run)
  BY <1>1, <1>2, <1>3, SoundNext
<1>5. /\ Save(p, run) /\ Goto(p, "stage") /\ idx'[p] = idx[p] + 1
      /\ \A q \in Procs \ {p} : idx'[q] = idx[q]
      /\ UNCHANGED <<index, backlog, cur, todo, copy>>
  BY DEF MarkOk, run, TInv, TypeOK
<1>6. \A i \in 1..Len(Pipeline) : i < idx'[p] => Pipeline[i] \in Oks(run)
  BY <1>1, <1>2, <1>3, <1>5, PipelineLength
<1>7. "stage" \in Carrying \ ({"swept"} \cup Starting \cup OnStage)
  BY DEF Carrying, Starting, OnStage
<1> QED
  BY <1>1, <1>2, <1>3, <1>4, <1>5, <1>6, <1>7, SaveCheckpoint


LEMMA WalkCheckpoint ==
    ASSUME TInv, CInv, NEW p \in Procs,
           \/ Begin(p) \/ Announce(p) \/ AbortByFlag(p) \/ PassOver(p)
           \/ StartStage(p) \/ FinishOk(p) \/ Notify(p)
    PROVE  CInv' /\ Kept
<1>1. pc[p] \in {"registered", "announce", "stage", "reported"}
  BY DEF Begin, Announce, AbortByFlag, PassOver, StartStage, FinishOk, Notify, At
<1>2. /\ cur[p] \in Runs /\ obj[p] \in RunObject /\ pc[p] # "down"
      /\ pc[p] \in Carrying \ {"swept"} /\ idx[p] \in 1..(Len(Pipeline) + 1)
  BY <1>1 DEF TInv, TypeOK, Placed, Idling, Carrying
<1>3. /\ {"announce", "stage", "exec", "reported", "end"} \subseteq Carrying \ {"swept"}
      /\ {"registered", "announce"} \subseteq Starting
      /\ {"stage", "exec", "reported", "end"} \cap Starting = {}
      /\ "exec" \in OnStage
      /\ {"announce", "stage", "reported", "end"} \cap OnStage = {}
  BY DEF Carrying, Starting, OnStage
<1>4. ASSUME NEW st \in RunStatus
      PROVE  Ended(obj[p], st) \in RunObject /\ Ended(obj[p], st).status = st
             /\ Oks(Ended(obj[p], st)) = Oks(obj[p])
  BY <1>2, EndedType, OksEnded
<1>5. {"in_progress", "ok", "failed", "aborted"} \subseteq RunStatus
  BY DEF RunStatus
<1>6. CASE Begin(p)
  BY <1>2, <1>3, <1>4, <1>5, <1>6, SameCheckpoint DEF Begin, At
<1>7. CASE Announce(p)
  <2>1. CASE OutboxFaults /\ Catastrophe(p)
    BY <1>7, <2>1, CatastropheCheckpoint DEF Announce
  <2>2. CASE /\ needs_full_restart(obj[p])
             /\ Save(p, Restarted(obj[p]))
             /\ Goto(p, "stage")
             /\ UNCHANGED <<index, backlog, cur, idx, attempt, todo, copy>>
    <3>1. /\ Restarted(obj[p]) \in RunObject
          /\ Restarted(obj[p]).status = obj[p].status
          /\ Oks(Restarted(obj[p])) = Oks(obj[p])
      BY <1>2, RestartedType, OksRestarted
    <3> QED
      BY <1>2, <1>3, <1>7, <2>2, <3>1, SameCheckpoint DEF Announce, At
  <2>3. CASE /\ ~needs_full_restart(obj[p])
             /\ Goto(p, "stage")
             /\ UNCHANGED <<disk, cur, obj, idx, attempt, unflushed, todo, copy>>
    BY <1>2, <1>3, <1>7, <2>3, MoveCheckpoint DEF Announce, At, Goto, disk
  <2> QED
    BY <1>7, <2>1, <2>2, <2>3 DEF Announce
<1>8. CASE AbortByFlag(p)
  BY <1>2, <1>3, <1>4, <1>5, <1>8, SameCheckpoint DEF AbortByFlag
<1>9. CASE PassOver(p)
  <2>1. /\ pc[p] = "stage" /\ idx'[p] = idx[p] + 1 /\ idx[p] \in 1..Len(Pipeline)
        /\ Pipeline[idx[p]] \in Oks(obj[p])
        /\ \A q \in Procs \ {p} : idx'[q] = idx[q]
        /\ UNCHANGED <<state, index, backlog, pc, cur, obj, todo, copy>>
    BY <1>2, <1>9, PipelineLength
       DEF PassOver, At, Settled, Stage, Oks, disk, TInv, TypeOK
  <2>2. Walk'
    <3>1. \A i \in 1..Len(Pipeline) : i < idx'[p] => Pipeline[i] \in Oks(obj[p])
      BY <2>1, PipelineLength DEF CInv, Walk
    <3> QED
      BY <2>1, <3>1 DEF CInv, Walk, Starting, OnStage
  <2>3. Alone' /\ AllSound' /\ Fresh' /\ InStep'
    BY <2>1 DEF CInv, Alone, AllSound, Fresh, InStep
  <2> QED
    BY <2>1, <2>2, <2>3 DEF CInv, Kept
<1>10. CASE StartStage(p)
  <2>1. /\ Stage(p) \in StageName /\ "in_progress" \in StageStatus \ {"ok"}
        /\ Stage(p) \notin Oks(obj[p]) /\ Stage(p) = Pipeline[idx[p]]
    BY <1>2, <1>10, PipelineLength DEF StartStage, Settled, Stage, StageStatus, Oks
  <2> QED
    BY <1>2, <1>3, <1>10, <2>1, RemarkCheckpoint DEF StartStage, At
<1>11. CASE FinishOk(p)
  <2>1. /\ pc[p] = "stage" /\ idx[p] > Len(Pipeline)
        /\ Save(p, Ended(obj[p], "ok")) /\ Goto(p, "reported")
        /\ UNCHANGED <<index, backlog, cur, idx, todo, copy>>
    BY <1>11 DEF FinishOk, At
  <2>2. \A i \in 1..Len(Pipeline) : Pipeline[i] \in Oks(obj[p])
    BY <1>2, <2>1, PipelineLength DEF CInv, Walk
  <2>3. Sound(obj[p]) /\ Oks(obj[p]) = Oks(state[cur[p]])
    BY <1>2 DEF CInv, AllSound, InStep
  <2>4. Sound(Ended(obj[p], "ok"))
    BY <1>4, <1>5, <2>2, <2>3 DEF Sound
  <2> QED
    BY <1>2, <1>3, <1>4, <1>5, <2>1, <2>3, <2>4, SaveCheckpoint
<1>12. CASE Notify(p)
  <2>1. CASE OutboxFaults /\ Catastrophe(p)
    BY <1>12, <2>1, CatastropheCheckpoint DEF Notify
  <2>2. CASE Goto(p, "end") /\ UNCHANGED <<disk, cur, obj, idx, attempt, unflushed,
                                          todo, copy>>
    BY <1>2, <1>3, <1>12, <2>2, MoveCheckpoint DEF Notify, Goto, disk
  <2> QED
    BY <1>12, <2>1, <2>2 DEF Notify
<1> QED
  BY <1>6, <1>7, <1>8, <1>9, <1>10, <1>11, <1>12

LEMMA StageCheckpoint ==
    ASSUME TInv, CInv, NEW p \in Procs,
           \/ PlainStageOk(p) \/ ReadyWaitOk(p) \/ CapabilityOk(p)
           \/ StageFails(p) \/ StageSkips(p)
           \/ DeploySpawn(p) \/ DeployAttemptFails(p) \/ DeployOk(p) \/ DeployFails(p)
    PROVE  CInv' /\ Kept
<1>1. pc[p] \in OnStage
  BY DEF PlainStageOk, ReadyWaitOk, CapabilityOk, StageFails, StageSkips, DeploySpawn,
         DeployAttemptFails, DeployOk, DeployFails, At, OnStage
<1>2. /\ Stage(p) \in StageName /\ Stage(p) \notin Oks(obj[p])
      /\ pc[p] \in Carrying \ {"swept"}
  BY <1>1, InStageFacts DEF InStage, OnStage, CInv, Walk, Carrying
<1>3. /\ {"failed", "skipped"} \subseteq StageStatus \ {"ok"}
      /\ {"failed", "skipped"} \subseteq Carrying \ ({"swept"} \cup Starting)
      /\ {"failed", "skipped"} \cap ({"stage"} \cup OnStage) = {}
      /\ {"deploying", "repairing"} \subseteq (Carrying \cap OnStage) \ Starting
      /\ "stage" \notin OnStage
  BY DEF StageStatus, Carrying, Starting, OnStage
<1>4. CASE PlainStageOk(p) \/ ReadyWaitOk(p) \/ CapabilityOk(p) \/ DeployOk(p)
  BY <1>4, MarkOkCheckpoint DEF PlainStageOk, ReadyWaitOk, CapabilityOk, DeployOk, At
<1>5. CASE StageFails(p) \/ DeployFails(p)
  <2>1. MarkFailed(p)
    BY <1>5 DEF StageFails, DeployFails
  <2> QED
    BY <1>2, <1>3, <2>1, RemarkCheckpoint DEF MarkFailed
<1>6. CASE StageSkips(p)
  BY <1>2, <1>3, <1>6, RemarkCheckpoint DEF StageSkips
<1>7. CASE DeploySpawn(p) \/ DeployAttemptFails(p)
  <2>1. PICK l \in {"deploying", "repairing"} : pc' = [pc EXCEPT ![p] = l]
    BY <1>7 DEF DeploySpawn, DeployAttemptFails, Goto
  <2> QED
    BY <1>1, <1>2, <1>3, <1>7, <2>1, MoveCheckpoint DEF DeploySpawn, DeployAttemptFails, disk
<1> QED
  BY <1>4, <1>5, <1>6, <1>7

LEMMA CleanupCheckpoint ==
    ASSUME TInv, CInv, NEW p \in Procs,
           \/ CleanupRemoves(p) \/ CleanupOk(p) \/ BestEffortCleanupFails(p)
           \/ Unwind(p) \/ RecordFailure(p) \/ RecordSkip(p) \/ Rollback(p)
    PROVE  CInv' /\ Kept
<1>1. pc[p] \in {"exec", "unwind", "rollback", "failed", "unwound", "skipped", "aborted"}
  BY DEF CleanupRemoves, CleanupOk, BestEffortCleanupFails, Cleaning, At,
         Unwind, RecordFailure, RecordSkip, Rollback
<1>2. /\ obj[p] \in RunObject /\ pc[p] \in Carrying \ ({"swept"} \cup Starting)
      /\ cur[p] \in Runs /\ pc[p] # "down"
  BY <1>1 DEF TInv, TypeOK, Placed, Idling, Carrying, Starting
<1>3. /\ "CLEANUP" \in StageName /\ {"failed", "in_progress"} \subseteq StageStatus \ {"ok"}
      /\ "ok" \in StageStatus /\ {"failed", "aborted"} \subseteq RunStatus \ {"ok"}
      /\ {"unwind", "unwound", "rollback", "reported", "aborted", "end"}
            \subseteq Carrying \ ({"swept", "stage"} \cup Starting \cup OnStage)
  BY DEF StageName, StageStatus, RunStatus, Carrying, Starting, OnStage
<1>4. AfterCleanup(p) \in {"unwound", "end"}
  BY DEF AfterCleanup
<1>5. \A st \in {"failed", "aborted"} :
         /\ Ended(obj[p], st) \in RunObject /\ Ended(obj[p], st).status = st
         /\ Oks(Ended(obj[p], st)) = Oks(obj[p])
  BY <1>2, <1>3, EndedType, OksEnded
<1>6. CASE CleanupRemoves(p)
  BY SMTT(30), <1>6 DEF CleanupRemoves, disk, memory, CInv, Alone, AllSound, Fresh, InStep, Walk, Kept
<1>7. CASE CleanupOk(p)
  <2>1. CASE pc[p] = "exec"
    BY <1>7, <2>1, MarkOkCheckpoint DEF CleanupOk
  <2>2. CASE pc[p] # "exec"
    <3> DEFINE run == Mark(obj[p], "CLEANUP", "ok")
    <3>1. /\ Save(p, run) /\ Goto(p, AfterCleanup(p))
          /\ UNCHANGED <<index, backlog, cur, idx, todo, copy>>
      BY <1>7, <2>2 DEF CleanupOk
    <3>2. run \in RunObject /\ run.status = obj[p].status
      BY <1>2, <1>3, MarkType
    <3>3. Oks(run) = Oks(obj[p]) \cup {"CLEANUP"}
      BY <1>2, <1>3, OksMark
    <3>4. "CLEANUP" = Pipeline[Len(Pipeline)] /\ Len(Pipeline) \in 1..Len(Pipeline)
      BY PipelineLength, PipelineAssumption
    <3>5. Sound(obj[p]) /\ Oks(obj[p]) = Oks(state[cur[p]])
      BY <1>2 DEF CInv, AllSound, InStep
    <3> HIDE DEF run
    <3>6. Sound(run)
      BY <3>2, <3>3, <3>4, <3>5, SoundNext
    <3> QED
      BY <1>2, <1>3, <1>4, <3>1, <3>2, <3>3, <3>5, <3>6, SaveCheckpoint
  <2> QED
    BY <2>1, <2>2
<1>8. CASE BestEffortCleanupFails(p)
  <2>1. "CLEANUP" \notin Oks(obj[p])
    BY <1>8 DEF BestEffortCleanupFails, Cleaning, At, CInv, Walk
  <2> QED
    BY <1>2, <1>3, <1>4, <1>8, <2>1, RemarkCheckpoint DEF BestEffortCleanupFails
<1>9. CASE Unwind(p)
  <2>1. "CLEANUP" \notin Oks(obj[p])
    BY <1>9 DEF Unwind, CleanupDue, Oks
  <2> QED
    BY <1>2, <1>3, <1>9, <2>1, RemarkCheckpoint DEF Unwind
<1>10. CASE RecordFailure(p)
  BY <1>2, <1>3, <1>5, <1>10, SameCheckpoint DEF RecordFailure
<1>11. CASE RecordSkip(p)
  BY <1>2, <1>3, <1>5, <1>11, SameCheckpoint DEF RecordSkip
<1>12. CASE Rollback(p)
  <2>1. CASE obj[p].stages["CLEANUP"] \notin {"ok", "skipped"}
    <3>1. "CLEANUP" \notin Oks(obj[p])
      BY <2>1 DEF Oks
    <3> QED
      BY <1>2, <1>3, <1>12, <2>1, <3>1, RemarkCheckpoint DEF Rollback
  <2>2. CASE obj[p].stages["CLEANUP"] \in {"ok", "skipped"}
    BY <1>2, <1>3, <1>12, <2>2, MoveCheckpoint DEF Rollback, Goto, disk
  <2> QED
    BY <2>1, <2>2
<1> QED
  BY <1>6, <1>7, <1>8, <1>9, <1>10, <1>11, <1>12


LEMMA EnvironmentCheckpoint ==
    ASSUME TInv, CInv, Environment
    PROVE  CInv' /\ Kept
<1>1. ASSUME NEW r \in Runs, ContainerReady(r) \/ ContainerDies(r)
      PROVE  CInv' /\ Kept
  <2>1. UNCHANGED <<state, index, backlog, pc, cur, obj, idx, todo, copy>>
    BY <1>1 DEF ContainerReady, ContainerDies, disk, memory
  <2>2. Alone' /\ AllSound' /\ Kept
    BY <2>1 DEF CInv, Alone, AllSound, Kept
  <2>3. Fresh' /\ InStep'
    BY <2>1 DEF CInv, Fresh, InStep
  <2>4. Walk'
    BY <2>1 DEF CInv, Walk
  <2> QED
    BY <2>2, <2>3, <2>4 DEF CInv
<1>2. ASSUME NEW r \in Runs, EditAbortFlag(r)
      PROVE  CInv' /\ Kept
  <2>1. /\ \A p \in Procs : pc[p] = "down"
        /\ UNCHANGED <<index, backlog, pc, cur, obj, idx, todo, copy>>
    BY <1>2 DEF EditAbortFlag, memory
  <2>2. \A q \in Runs : /\ state'[q].status = state[q].status
                        /\ Oks(state'[q]) = Oks(state[q])
    <3> DEFINE run == [state[r] EXCEPT !.abort = TRUE]
    <3>1. run.status = state[r].status /\ run.stages = state[r].stages
      BY DEF TInv, TypeOK, RunObject
    <3>2. Oks(run) = Oks(state[r])
      BY <3>1 DEF Oks
    <3>3. state' = [state EXCEPT ![r] = run]
      BY <1>2 DEF EditAbortFlag
    <3> HIDE DEF run
    <3> QED
      BY <3>1, <3>2, <3>3 DEF TInv, TypeOK
  <2>3. AllSound'
    <3>1. \A q \in Runs : Sound(state'[q])
      BY <2>2, SoundSame DEF CInv, AllSound
    <3> QED
      BY <2>1, <3>1 DEF CInv, AllSound
  <2>4. Alone' /\ Walk'
    BY <2>1 DEF CInv, Alone, Walk
  <2>5. Fresh'
    BY <2>1, <2>2 DEF CInv, Fresh, TInv, TypeOK
  <2>6. InStep'
    BY <2>1 DEF CInv, InStep, Carrying
  <2> QED
    BY <2>2, <2>3, <2>4, <2>5, <2>6 DEF CInv, Kept
<1>3. ASSUME NEW p \in Procs, Crash(p)
      PROVE  CInv' /\ Kept
  BY <1>3, ExitCheckpoint DEF Crash, disk
<1> QED
  BY <1>1, <1>2, <1>3 DEF Environment

LEMMA StepCheckpoint ==
    ASSUME TakingTurns
    PROVE  TInv /\ CInv /\ [Next]_vars => CInv' /\ Kept
<1> SUFFICES ASSUME TInv, CInv, [Next]_vars PROVE CInv' /\ Kept
  OBVIOUS
<1> USE LoopProc
<1>1. ASSUME NEW p \in Procs, ProcessStep(p)
      PROVE  CInv' /\ Kept
  BY <1>1, QueueCheckpoint, WalkCheckpoint, StageCheckpoint, CleanupCheckpoint
     DEF ProcessStep, RunPipeline
<1>2. CASE LoopStep
  BY <1>1, <1>2, ServiceCheckpoint DEF LoopStep
<1>3. ASSUME NEW o \in Operators, OperatorStep(o)
      PROVE  CInv' /\ Kept
  BY <1>1, <1>3, ResumeCheckpoint DEF OperatorStep
<1>4. CASE Environment
  BY <1>4, EnvironmentCheckpoint
<1>5. CASE UNCHANGED vars
  BY <1>5 DEF vars, disk, memory, CInv, Alone, AllSound, Fresh, InStep, Walk, Kept
<1> QED
  BY <1>2, <1>3, <1>4, <1>5 DEF Next

LEMMA CheckpointInvariance ==
    ASSUME TakingTurns
    PROVE  Spec => [](TInv /\ CInv)
<1>1. TInv /\ CInv /\ [Next]_vars => CInv'
  BY StepCheckpoint
<1> QED
  BY <1>1, InitCheckpoint, TypeInvariance, PTL DEF Spec

-----------------------------------------------------------------------------
(* The theorems *)

\* The stages a state.json says are ok are a prefix of the pipeline, CLEANUP
\* apart, however often the run was killed, restarted from its run-level stages,
\* swept and resumed.
THEOREM CheckpointsInOrder ==
    ASSUME TakingTurns
    PROVE  Spec => []StagesInOrder
<1>1. TInv /\ CInv => StagesInOrder
  <2> SUFFICES ASSUME TInv, CInv, NEW r \in Runs,
                      NEW i \in 1..(Len(Pipeline) - 1), NEW j \in 1..(Len(Pipeline) - 1),
                      i < j, state[r].stages[Pipeline[j]] = "ok"
               PROVE  state[r].stages[Pipeline[i]] = "ok"
    BY DEF StagesInOrder
  <2>1. Pipeline[i] \in StageName /\ Pipeline[j] \in StageName
    BY PipelineLength
  <2> QED
    BY <2>1 DEF CInv, AllSound, Sound, Oks
<1> QED
  BY <1>1, CheckpointInvariance, PTL

\* A run whose state.json says ok has been through every stage, by whichever of
\* the service and the commands, in however many lives.
THEOREM OkIsEarned ==
    ASSUME TakingTurns
    PROVE  Spec => []OkMeansEveryStageOk
<1>1. TInv /\ CInv => OkMeansEveryStageOk
  BY PipelineLength DEF CInv, AllSound, Sound, Oks, OkMeansEveryStageOk
<1> QED
  BY <1>1, CheckpointInvariance, PTL

\* No step of the service, of a command, of a crash or of an edit of abort_flag
\* takes a checkpoint back (Kept), apart from those a restart of the run-level
\* stages is said to take.
THEOREM CheckpointsStay ==
    ASSUME TakingTurns
    PROVE  Spec => StageOkStays
<1>1. TInv /\ CInv /\ [Next]_vars =>
         [\A r \in Runs, s \in StageName :
             state[r].stages[s] = "ok" =>
                 \/ state'[r].stages[s] = "ok"
                 \/ s \in RUN_LEVEL_STAGES /\ needs_full_restart(state[r])]_state
  BY StepCheckpoint DEF Kept, Oks
<1> QED
  BY <1>1, CheckpointInvariance, PTL DEF Spec, StageOkStays

=============================================================================
