------------------------------ MODULE ModelCache ------------------------------
(***************************************************************************)
(* The directory of downloaded weights: STAGE_MODEL (model_stager.py), the *)
(* quota it enforces first (cache_evictor.py) and the operator's command   *)
(* that evicts by hand (tools/evict_eval_cache.py).  Executors are the     *)
(* processes that run pipelines, at most one run each; the command is one  *)
(* more evictor.  Nothing locks a directory: an evictor classifies all of  *)
(* them, then removes them one by one and file by file; a download that    *)
(* exceeds its budget is abandoned, and its thread goes on writing.        *)
(*                                                                         *)
(* A model's repository has Shards files.  hf_hub_download writes file i   *)
(* as a ".incomplete" ledger entry (tmp) and renames it.                   *)
(***************************************************************************)
EXTENDS Naturals, FiniteSets

CONSTANTS
    CacheModels,     \* hf_ids
    CacheDirs,       \* directory names below model_cache_root
    hf_local_dir,    \* [CacheModels -> CacheDirs]: the part after the "/"
    Oversize,        \* models ENGINE_SELECT has planned as metadata_only
    Unsized,         \* models whose size cannot be estimated
    Executors,       \* pipeline processes: the loop, and those of run and resume
    Service,         \* the executor that is the loop, and sweeps when it starts
    Tool,            \* the operator's command
    NoModel,         \* "no run"
    Shards,          \* files of a repository
    Weighs,          \* files that count as weights, by suffix and depth or by name
    Quota,           \* quota_bytes, in directories
    MaxStagings,     \* bound: runs begun
    MaxAbandoned     \* bound: downloads abandoned, processes killed

Evictors == Executors \cup {Tool}
Shard == CacheModels \X (1..Shards)

ASSUME CacheAssumption ==
    /\ IsFiniteSet(CacheDirs)
    /\ hf_local_dir \in [CacheModels -> CacheDirs]
    /\ Oversize \subseteq CacheModels /\ Unsized \subseteq CacheModels
    /\ Service \in Executors /\ Weighs \subseteq Shard
    /\ Tool \notin Executors /\ NoModel \notin CacheModels
    /\ {Shards, Quota, MaxStagings, MaxAbandoned} \subseteq Nat

VARIABLES
    dir,        \* dir[d]: [kind, shards, tmp, fresh]
    ended,      \* ended[m]: the statuses of the ended runs of m
    stuck,      \* models whose row is in_progress without a process
    run,        \* run[e]: the model e evaluates, or NoModel
    spc,        \* spc[e]: where e is in ensure_model_staged, or later
    part,       \* part[e]: the shard e's download is at
    zombies,    \* downloads whose executor has given up: [model, part]
    plan,       \* plan[v]: what evictor v still means to remove, [dir, class]
    need,       \* need[v]: how many directories v still has to free
    begun,      \* runs begun
    swept,      \* executors whose run a restart has declared aborted, and which go on
    unseen,     \* unseen[v]: executors whose run v's classification did not know of
    disturbed   \* dirs in which a download or a removal was cut short, or met another (history)

cacheVars == <<dir, ended, stuck, run, spc, part, zombies, plan, need, begun,
               swept, unseen, disturbed>>

Absent == [kind |-> "absent", shards |-> {}, tmp |-> {}, fresh |-> FALSE]
MadeDir == [Absent EXCEPT !.kind = "dir", !.fresh = TRUE]
Target(e) == hf_local_dir[run[e]]

CacheInit ==
    /\ dir = [d \in CacheDirs |-> Absent]
    /\ ended = [m \in CacheModels |-> {}]
    /\ stuck = {}
    /\ run = [e \in Executors |-> NoModel]
    /\ spc = [e \in Executors |-> "idle"]
    /\ part = [e \in Executors |-> 0]
    /\ zombies = {}
    /\ plan = [v \in Evictors |-> {}]
    /\ need = [v \in Evictors |-> 0]
    /\ begun = 0
    /\ swept = {}
    /\ unseen = [v \in Evictors |-> {}]
    /\ disturbed = {}

-----------------------------------------------------------------------------
(* ensure_model_staged, one run of one executor *)

\* A file that counts as weights, and no ledger entry of an unfinished one.  A
\* manifest is asked for only where such an entry exists, so it never decides.
_has_weight_file(d) == dir[d].shards \cap Weighs # {} /\ dir[d].tmp = {}

AllOf(m) == {m} \X (1..Shards)

At(e, l) == run[e] # NoModel /\ spc[e] = l
Goto(e, l) == spc' = [spc EXCEPT ![e] = l]

\* The run ends with status s; its row says so.
Leave(e, s) ==
    /\ ended' = [ended EXCEPT ![run[e]] = @ \cup {s}]
    /\ run' = [run EXCEPT ![e] = NoModel]
    /\ Goto(e, "idle")
    /\ part' = [part EXCEPT ![e] = 0]
    /\ plan' = [plan EXCEPT ![e] = {}]
    /\ need' = [need EXCEPT ![e] = 0]
    /\ swept' = swept \ {e}
    /\ unseen' = [unseen EXCEPT ![e] = {}]
    /\ UNCHANGED <<stuck, zombies, begun>>

\* Any model: the dedup of enqueue does not see a run that is resumed, one that
\* was swept, or one enqueued at the same moment.
BeginStaging(e) ==
    /\ run[e] = NoModel
    /\ begun < MaxStagings
    /\ begun' = begun + 1
    /\ \E m \in CacheModels : run' = [run EXCEPT ![e] = m]
    /\ Goto(e, "check")
    /\ unseen' = [v \in Evictors |-> IF plan[v] = {} THEN {} ELSE unseen[v] \cup {e}]
    /\ UNCHANGED <<dir, ended, stuck, part, zombies, plan, need, swept, disturbed>>

\* The save at a stage's start or end: state.json says in_progress again.
SaveRun(e) ==
    /\ e \in swept
    /\ At(e, "check") \/ At(e, "staged")
    /\ swept' = swept \ {e}
    /\ UNCHANGED <<dir, ended, stuck, run, spc, part, zombies, plan, need, begun, unseen, disturbed>>

\* STAGE_MODEL ends well, and the run is saved.
Stage(e) ==
    /\ _has_weight_file(Target(e))
    /\ Goto(e, "staged")
    /\ swept' = swept \ {e}
    /\ UNCHANGED <<dir, ended, stuck, run, part, zombies, plan, need, begun, unseen, disturbed>>

SkipOversize(e) ==
    /\ At(e, "check")
    /\ run[e] \in Oversize
    /\ Leave(e, "aborted")
    /\ UNCHANGED <<dir, disturbed>>

AlreadyStaged(e) ==
    /\ At(e, "check")
    /\ run[e] \notin Oversize
    /\ Stage(e)

-----------------------------------------------------------------------------
(* find_evictable and enforce_quota *)

InProgress(d) == \E m \in CacheModels :
    hf_local_dir[m] = d /\ (m \in stuck \/ \E e \in Executors \ swept : run[e] = m)

StatusesOf(d) ==
    UNION {ended[m] : m \in {k \in CacheModels : hf_local_dir[k] = d}}
    \cup {"aborted" : e \in {o \in swept : Target(o) = d}}

Present == {d \in CacheDirs : dir[d].kind # "absent"}

\* Without the look at the runs in progress; mutant: it is all there is.
Class_AnyOk(d) ==
    IF dir[d].fresh THEN "in_progress"
    ELSE IF "ok" \in StatusesOf(d) THEN "safe"
    ELSE IF StatusesOf(d) \cap {"failed", "aborted"} # {} THEN "failed_only" ELSE "orphan"

\* The status of a directory: any run of its basename counts.
Class(d) == IF InProgress(d) THEN "in_progress" ELSE Class_AnyOk(d)

Entries == {[dir |-> d, class |-> Class(d)] : d \in Present}

Evictable == {x \in Entries : x.class # "in_progress"}

Rank(x) == CASE x.class = "orphan" -> 0 [] x.class = "failed_only" -> 1 [] OTHER -> 2

Excess == IF Cardinality(Present) > Quota THEN Cardinality(Present) - Quota ELSE 0

\* v means to remove n of these directories, not knowing of some runs; it has
\* done when none is left.
PlanTo(v, entries, n, unknown) ==
    LET rest == IF n = 0 THEN {} ELSE entries
    IN /\ plan' = [plan EXCEPT ![v] = rest]
       /\ need' = [need EXCEPT ![v] = IF rest = {} THEN 0 ELSE n]
       /\ unseen' = [unseen EXCEPT ![v] = IF rest = {} THEN {} ELSE unknown]

\* Some download other than e's own writes to d.
Downloading(d, e) ==
    \/ \E o \in Executors \ {e} : At(o, "download") /\ Target(o) = d
    \/ \E z \in zombies : hf_local_dir[z.model] = d

Without(r, f) == [r EXCEPT !.shards = @ \ {f}, !.tmp = @ \ {f}, !.fresh = TRUE]

\* rmtree has removed one file, in whatever order the directory lists them; it
\* goes on, or an OSError or the end of the process leaves it at that.
RemoveFile(d) ==
    /\ dir[d].kind = "dir"
    /\ \E f \in dir[d].shards \cup dir[d].tmp :
          dir' = [dir EXCEPT ![d] = Without(@, f)]
    /\ disturbed' = disturbed \cup {d}

\* rmtree ends; it refuses a symbolic link.
RemoveAll(d, v) ==
    /\ dir[d].kind = "dir"
    /\ dir' = [dir EXCEPT ![d] = Absent]
    /\ disturbed' = IF Downloading(d, v) THEN disturbed \cup {d} ELSE disturbed \ {d}

\* The next directory in the order (class, mtime); the mtimes are any. One that
\* is refused, or gone, frees nothing.
EvictNext(v) ==
    /\ \E x \in plan[v] :
          /\ \A y \in plan[v] : Rank(x) <= Rank(y)
          /\ \/ RemoveFile(x.dir) /\ UNCHANGED <<plan, need, unseen>>
             \/ RemoveAll(x.dir, v) /\ PlanTo(v, plan[v] \ {x}, need[v] - 1, unseen[v])
             \/ UNCHANGED <<dir, disturbed>> /\ PlanTo(v, plan[v] \ {x}, need[v], unseen[v])
    /\ UNCHANGED <<ended, stuck, run, spc, part, zombies, begun, swept>>

Enforce(e) ==
    /\ At(e, "check")
    /\ run[e] \notin Oversize
    /\ ~_has_weight_file(Target(e))
    /\ PlanTo(e, Evictable, Excess, swept)
    /\ Goto(e, "evict")
    /\ UNCHANGED <<dir, ended, stuck, run, part, zombies, begun, swept, disturbed>>

EvictForStaging(e) == At(e, "evict") /\ EvictNext(e)

\* evict_eval_cache --apply, and --drop-all-safe, which spares failed_only.
ToolClassify ==
    /\ plan[Tool] = {}
    /\ \/ PlanTo(Tool, Evictable, Excess, swept)
       \/ PlanTo(Tool, {x \in Entries : x.class \in {"safe", "orphan"}}, Cardinality(CacheDirs), swept)
    /\ plan'[Tool] # {}
    /\ UNCHANGED <<dir, ended, stuck, run, spc, part, zombies, begun, swept, disturbed>>

ToolEvict == EvictNext(Tool)

-----------------------------------------------------------------------------
(* The headroom gate and the download *)

\* The gate asks the disk only when the size is known; the disk is shared
\* with everything else on the host, so it may be full at any time.
Headroom(e) ==
    /\ At(e, "evict")
    /\ plan[e] = {}
    /\ \/ /\ run[e] \notin Unsized
          /\ Leave(e, "aborted")
          /\ UNCHANGED <<dir, disturbed>>
       \/ /\ Goto(e, "download")
          /\ part' = [part EXCEPT ![e] = 1]
          /\ dir' = [dir EXCEPT ![Target(e)] = IF @.kind = "absent" THEN MadeDir ELSE @]
          /\ disturbed' = IF Downloading(Target(e), e) THEN disturbed \cup {Target(e)} ELSE disturbed
          /\ UNCHANGED <<ended, stuck, run, zombies, plan, need, begun, swept, unseen>>

\* A download's write: it opens the ledger entry of its shard (making the
\* directory if it is gone), or renames it.
Wrote(d, s) ==
    IF s \in dir[d].tmp
    THEN [dir EXCEPT ![d].tmp = @ \ {s}, ![d].shards = @ \cup {s}, ![d].fresh = TRUE]
    ELSE IF dir[d].kind = "absent"
    THEN [dir EXCEPT ![d] = [MadeDir EXCEPT !.tmp = {s}]]
    ELSE [dir EXCEPT ![d].tmp = @ \cup {s}]

\* The shard a download goes to after this write; one that is there is kept.
After(d, s, i) == IF s \in dir[d].tmp \cup dir[d].shards THEN i + 1 ELSE i

DownloadStep(e) ==
    /\ At(e, "download")
    /\ part[e] \in 1..Shards
    /\ LET d == Target(e)
           s == <<run[e], part[e]>> IN
       /\ dir[d].kind # "link"
       /\ dir' = IF s \in dir[d].shards THEN dir ELSE Wrote(d, s)
       /\ part' = [part EXCEPT ![e] = After(d, s, @)]
    /\ UNCHANGED <<ended, stuck, run, spc, zombies, plan, need, begun, swept, unseen, disturbed>>

ZombieStep(z) ==
    LET d == hf_local_dir[z.model]
        s == <<z.model, z.part>> IN
    /\ zombies' = IF z.part > Shards \/ dir[d].kind = "link" THEN zombies \ {z}
                  ELSE (zombies \ {z}) \cup {[z EXCEPT !.part = After(d, s, z.part)]}
    /\ dir' = IF z.part > Shards \/ dir[d].kind = "link" \/ s \in dir[d].shards
              THEN dir ELSE Wrote(d, s)
    /\ UNCHANGED <<ended, stuck, run, spc, part, plan, need, begun, swept, unseen, disturbed>>

\* The download raises, or its wall-clock budget ends and its thread stays; what
\* it has written is there until the removal that follows.
GiveUpDownload(e) ==
    /\ At(e, "download")
    /\ \/ UNCHANGED zombies
       \/ /\ Cardinality(zombies) + Cardinality(stuck) < MaxAbandoned
          /\ zombies' = zombies \cup {[model |-> run[e], part |-> part[e]]}
    /\ Goto(e, "cleanup")
    /\ part' = [part EXCEPT ![e] = 0]
    /\ disturbed' = disturbed \cup {Target(e)}
    /\ UNCHANGED <<dir, ended, stuck, run, plan, need, begun, swept, unseen>>

\* rmtree of the target, whoever made it; a refusal is swallowed.
_cleanup_partial(e) ==
    /\ At(e, "cleanup")
    /\ \/ /\ RemoveFile(Target(e))
          /\ UNCHANGED <<ended, stuck, run, spc, part, zombies, plan, need, begun, swept, unseen>>
       \/ /\ RemoveAll(Target(e), e) \/ UNCHANGED <<dir, disturbed>>
          /\ Leave(e, "failed")

\* snapshot_download returns: every shard is written; or the patterns match
\* no weights; or the hub filled its own cache, and an empty target becomes a
\* link to it.
DownloadReturns(e) ==
    /\ At(e, "download")
    /\ <<run[e], part[e]>> \notin dir[Target(e)].tmp
    /\ \/ /\ part[e] \in {1, Shards + 1}
          /\ UNCHANGED dir
       \/ /\ part[e] = 1 /\ AllOf(run[e]) \cap Weighs # {}
          /\ dir[Target(e)].kind = "absent" \/ dir[Target(e)] = [Absent EXCEPT !.kind = "dir",
                                                     !.fresh = dir[Target(e)].fresh]
          /\ dir' = [dir EXCEPT ![Target(e)] = [@ EXCEPT !.kind = "link", !.shards = AllOf(run[e])]]
    /\ Goto(e, "verify")
    /\ part' = [part EXCEPT ![e] = 0]
    /\ UNCHANGED <<ended, stuck, run, zombies, plan, need, begun, swept, unseen, disturbed>>

\* Mutant: a download that returned is believed.
VerifyStaged_Trusting(e) ==
    /\ At(e, "verify")
    /\ Goto(e, "staged")
    /\ swept' = swept \ {e}
    /\ UNCHANGED <<dir, ended, stuck, run, part, zombies, plan, need, begun, unseen, disturbed>>

VerifyStaged(e) ==
    /\ At(e, "verify")
    /\ \/ Stage(e)
       \/ /\ ~_has_weight_file(Target(e))
          /\ Goto(e, "cleanup")
          /\ UNCHANGED <<dir, ended, stuck, run, part, zombies, plan, need, begun, swept, unseen, disturbed>>

-----------------------------------------------------------------------------
(* The rest of the run, crashes, time *)

\* DEPLOY to CLEANUP: the weights are bind-mounted and left where they are.
EndRun(e) ==
    /\ At(e, "staged")
    /\ \E s \in {"ok", "failed"} : Leave(e, s)
    /\ UNCHANGED <<dir, disturbed>>

\* The row of a swept run says aborted, that of another one stays in progress.
Killed(e) ==
    /\ run[e] # NoModel
    /\ Cardinality(zombies) + Cardinality(stuck) < MaxAbandoned
    /\ IF e \in swept
       THEN ended' = [ended EXCEPT ![run[e]] = @ \cup {"aborted"}] /\ UNCHANGED stuck
       ELSE stuck' = stuck \cup {run[e]} /\ UNCHANGED ended
    /\ run' = [run EXCEPT ![e] = NoModel]
    /\ Goto(e, "idle")
    /\ part' = [part EXCEPT ![e] = 0]
    /\ plan' = [plan EXCEPT ![e] = {}]
    /\ need' = [need EXCEPT ![e] = 0]
    /\ swept' = swept \ {e}
    /\ disturbed' = IF spc[e] = "download" THEN disturbed \cup {Target(e)} ELSE disturbed
    /\ UNCHANGED <<dir, zombies, begun, unseen>>

\* The loop, when it starts: every row in progress, also that of a run another
\* process is at.
_sweep_orphan_in_progress ==
    /\ run[Service] = NoModel
    /\ \/ /\ \E m \in stuck :
                /\ stuck' = stuck \ {m}
                /\ ended' = [ended EXCEPT ![m] = @ \cup {"aborted"}]
          /\ UNCHANGED swept
       \/ /\ \E e \in Executors : run[e] # NoModel /\ swept' = swept \cup {e}
          /\ UNCHANGED <<stuck, ended>>
    /\ UNCHANGED <<dir, run, spc, part, zombies, plan, need, begun, unseen, disturbed>>

\* The grace period of a directory runs out (30 minutes since its mtime).
GraceEnds(d) ==
    /\ dir[d].fresh
    /\ dir' = [dir EXCEPT ![d].fresh = FALSE]
    /\ UNCHANGED <<ended, stuck, run, spc, part, zombies, plan, need, begun, swept, unseen, disturbed>>

StageStep(e) ==
    \/ BeginStaging(e)
    \/ SaveRun(e)
    \/ SkipOversize(e)
    \/ AlreadyStaged(e)
    \/ Enforce(e)
    \/ EvictForStaging(e)
    \/ Headroom(e)
    \/ DownloadStep(e)
    \/ GiveUpDownload(e)
    \/ _cleanup_partial(e)
    \/ DownloadReturns(e)
    \/ VerifyStaged(e)
    \/ EndRun(e)
    \/ Killed(e)

CacheNext ==
    \/ \E e \in Executors : StageStep(e)
    \/ \E z \in zombies : ZombieStep(z)
    \/ \E d \in CacheDirs : GraceEnds(d)
    \/ _sweep_orphan_in_progress
    \/ ToolClassify
    \/ ToolEvict

CacheSpec == CacheInit /\ [][CacheNext]_cacheVars

-----------------------------------------------------------------------------
(* Properties *)

DirRecord == [kind : {"absent", "dir", "link"}, shards : SUBSET Shard,
              tmp : SUBSET Shard, fresh : BOOLEAN]
Classes == {"safe", "failed_only", "orphan"}

\* The variables keep their types.
CacheTypeOK ==
    /\ dir \in [CacheDirs -> DirRecord]
    /\ ended \in [CacheModels -> SUBSET {"ok", "failed", "aborted"}]
    /\ stuck \subseteq CacheModels
    /\ run \in [Executors -> CacheModels \cup {NoModel}]
    /\ spc \in [Executors -> {"idle", "check", "evict", "download", "cleanup", "verify", "staged"}]
    /\ part \in [Executors -> 0..(Shards + 1)]
    /\ zombies \subseteq [model : CacheModels, part : 1..(Shards + 1)]
    /\ plan \in [Evictors -> SUBSET [dir : CacheDirs, class : Classes]]
    /\ need \in [Evictors -> Nat]
    /\ begun \in 0..MaxStagings
    /\ swept \subseteq Executors
    /\ unseen \in [Evictors -> SUBSET Executors]
    /\ disturbed \subseteq CacheDirs

\* Weights that a run is using are removed from under it only by an evictor
\* that did not know of the run when it classified the directories, because the
\* run began afterwards or a restart of the loop had declared it aborted, or by
\* the cleanup of a failed download into the same directory; never by an evictor
\* that could have known.
InUseTakenOnlyByStalePlan ==
    [][\A e \in Executors :
          (At(e, "staged") /\ dir[Target(e)].shards \ dir'[Target(e)].shards # {})
             => \/ \E v \in Evictors : e \in unseen[v] /\ EvictNext(v)
                \/ \E o \in Executors \ {e} : At(o, "cleanup") /\ Target(o) = Target(e)]_cacheVars

\* A run leaves STAGE_MODEL without all of its own model's files only where a
\* model of the same directory name has left some of its own, where another process
\* is still downloading into the directory, or where a download into it was killed,
\* abandoned or joined by a second one, or a removal was cut short, and no removal
\* has been completed since.
StagedIsCompleteOrExplained ==
    [][\A e \in Executors :
          (run[e] # NoModel /\ spc[e] # "staged" /\ spc'[e] = "staged")
             => \/ AllOf(run[e]) \subseteq dir[Target(e)].shards
                \/ Target(e) \in disturbed \/ Downloading(Target(e), e)
                \/ \E s \in dir[Target(e)].shards : s[1] # run[e]]_cacheVars

=============================================================================
