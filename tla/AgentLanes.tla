------------------------------ MODULE AgentLanes ------------------------------
(***************************************************************************)
(* The project and the skill lane (project_lane.py, skill_lane.py) and the *)
(* agent driver they share (agent_driver/). Each lane is a systemd oneshot *)
(* that drains its queue in series, with a pool of its own over ONE        *)
(* container that both units name, so that two agents may run in it at     *)
(* once and the watchdog of one, which kills by pattern, kills both.       *)
(*                                                                         *)
(* A run is a row of the lane's sqlite index. (Its state.json, written     *)
(* just before the row, is read only for a row that is pending.)           *)
(***************************************************************************)
EXTENDS Naturals, FiniteSets

CONSTANTS
    Lanes,         \* "project", "skill"
    LaneRuns,      \* runs that may be enqueued
    LaneOf,        \* [LaneRuns -> Lanes]
    TargetOf,      \* [LaneRuns -> full_id]
    Limit,         \* --limit of a drain
    RecycleAfter,  \* max_runs_before_recycle
    MaxLaneFaults  \* bound on crashes, docker errors and failed removals

ASSUME LaneAssumption ==
    /\ LaneOf \in [LaneRuns -> Lanes]
    /\ Limit \in Nat \ {0} /\ RecycleAfter \in Nat \ {0} /\ MaxLaneFaults \in Nat

\* ProjectStatus and SkillStatus. "refused" stands for the gate's verdicts that
\* count as completed (oversize, no_readme, needs_gpu), "unreachable" for those
\* that do not (not_found, preflight_error, skill_file_missing, ..._empty), and
\* for judge_unavailable.
Ended == {"done", "refused", "unreachable", "report_parse_error", "budget_exceeded",
          "timeout", "sandbox_dead", "skill_clone_attempt"}
Working == {"gate", "agent_run"}
Completed(lane) == IF lane = "project" THEN {"done", "refused"} ELSE {"done"}
GateStops(lane) == IF lane = "project" THEN {"refused", "unreachable"} ELSE {"unreachable"}
Nobody == "nobody"

VARIABLES
    row,        \* run -> status in the index, "none" before it is enqueued
    lpc,        \* lane -> where its process is; "idle" between two drains
    todo,       \* lane -> runs of this drain still to be executed
    cur,        \* lane -> the run that is executed
    lease,      \* lane -> run_id of the pool's only container handle
    leases,     \* lane -> run_count of the handle
    agents,     \* runs whose agent process lives in the container
    box,        \* lane -> budget_breached_box
    watchdog,   \* lane -> "off", "armed", "killing"
    late,       \* lanes with a killer of an earlier run still to come
    final,      \* lane -> the status the run will end with
    abandoned,  \* runs whose process died
    unkilled,   \* runs whose only kill was lost on its way to docker
    lfaults     \* faults so far

lanes == <<lpc, todo, cur, lease, leases, box, watchdog, late, final>>
laneVars == <<row, lanes, agents, abandoned, unkilled, lfaults>>

LaneInit ==
    /\ row = [r \in LaneRuns |-> "none"] /\ lpc = [l \in Lanes |-> "idle"]
    /\ todo = [l \in Lanes |-> {}] /\ cur = [l \in Lanes |-> Nobody]
    /\ lease = [l \in Lanes |-> Nobody] /\ leases = [l \in Lanes |-> 0]
    /\ agents = {} /\ box = [l \in Lanes |-> "ok"] /\ watchdog = [l \in Lanes |-> "off"]
    /\ late = {} /\ final = [l \in Lanes |-> "ok"] /\ abandoned = {} /\ unkilled = {}
    /\ lfaults = 0

-----------------------------------------------------------------------------
(* The stores *)

_recently_completed(r) ==
    \E q \in LaneRuns : TargetOf[q] = TargetOf[r] /\ row[q] \in Completed(LaneOf[r])

\* enqueue, of the discovery side or by hand (skip_if_recent_hours=0, which
\* finds nothing recent). A target that is pending or running is no obstacle.
Enqueue(r, byHand) ==
    /\ row[r] = "none"
    /\ byHand \/ ~_recently_completed(r)
    /\ row' = [row EXCEPT ![r] = "pending"]
    /\ UNCHANGED <<lanes, agents, abandoned, unkilled, lfaults>>

update_status(l, status) == row' = [row EXCEPT ![cur[l]] = status]

LaneFault == lfaults < MaxLaneFaults /\ lfaults' = lfaults + 1

\* A process that dies leaves its pool, its threads and its list; the agent in
\* the container and the row stay.
Dies(l) ==
    /\ lpc[l] \notin {"idle", "pick"} /\ LaneFault
    /\ abandoned' = abandoned \cup {cur[l]}
    /\ lpc' = [lpc EXCEPT ![l] = "idle"] /\ todo' = [todo EXCEPT ![l] = {}]
    /\ cur' = [cur EXCEPT ![l] = Nobody] /\ lease' = [lease EXCEPT ![l] = Nobody]
    /\ leases' = [leases EXCEPT ![l] = 0] /\ late' = late \ {l}
    /\ box' = [box EXCEPT ![l] = "ok"] /\ watchdog' = [watchdog EXCEPT ![l] = "off"]
    /\ final' = [final EXCEPT ![l] = "ok"]
    /\ UNCHANGED <<row, agents, unkilled>>

-----------------------------------------------------------------------------
(* One drain: run_pending and execute_run *)

Pending(l) == {r \in LaneRuns : LaneOf[r] = l /\ row[r] = "pending"}

\* The timer starts the unit: a new process, a new pool, the rows pending now,
\* as many as the limit allows (the oldest ones, an order left open here).
StartDrain(l) ==
    /\ lpc[l] = "idle" /\ Pending(l) # {}
    /\ \E batch \in SUBSET Pending(l) :
        /\ Cardinality(batch) = (IF Cardinality(Pending(l)) < Limit
                                 THEN Cardinality(Pending(l)) ELSE Limit)
        /\ todo' = [todo EXCEPT ![l] = batch]
    /\ lpc' = [lpc EXCEPT ![l] = "pick"]
    /\ UNCHANGED <<row, cur, lease, leases, agents, box, watchdog, late, final, abandoned,
                   unkilled, lfaults>>

\* The next of the list enters its gate.
PickRun(l) ==
    /\ lpc[l] = "pick"
    /\ \E r \in todo[l] :
        /\ cur' = [cur EXCEPT ![l] = r] /\ todo' = [todo EXCEPT ![l] = @ \ {r}]
        /\ row' = [row EXCEPT ![r] = "gate"]
    /\ lpc' = [lpc EXCEPT ![l] = "gate"]
    /\ UNCHANGED <<lease, leases, agents, box, watchdog, late, final, abandoned, unkilled, lfaults>>

\* The list is done: the process ends, with its pool and its daemon threads.
EndDrain(l) ==
    /\ lpc[l] = "pick" /\ todo[l] = {}
    /\ lpc' = [lpc EXCEPT ![l] = "idle"] /\ cur' = [cur EXCEPT ![l] = Nobody]
    /\ lease' = [lease EXCEPT ![l] = Nobody] /\ leases' = [leases EXCEPT ![l] = 0]
    /\ late' = late \ {l}
    /\ UNCHANGED <<row, todo, agents, box, watchdog, final, abandoned, unkilled, lfaults>>

\* preflight, local_gate: stopped here, or on to the agent.
Gate(l) ==
    /\ lpc[l] = "gate"
    /\ \/ \E s \in GateStops(l) : update_status(l, s) /\ lpc' = [lpc EXCEPT ![l] = "pick"]
       \/ update_status(l, "agent_run") /\ lpc' = [lpc EXCEPT ![l] = "acquire"]
    /\ UNCHANGED <<todo, cur, lease, leases, agents, box, watchdog, late, final, abandoned,
                   unkilled, lfaults>>

\* Mutant: run_pending logs what went wrong and goes on.
after_fatal_LogOnly(status) == status

\* What run_pending makes of an exception of execute_run.
after_fatal(status) == "sandbox_dead"

\* An exception that execute_run lets out: the gate's HTTP call reset by the
\* peer, or PoolBusy, when an earlier release has failed and the handle of the
\* only container still has its run_id.
Fatal(l) ==
    /\ \/ lpc[l] = "gate" /\ LaneFault
       \/ lpc[l] = "acquire" /\ lease[l] # Nobody /\ UNCHANGED lfaults
    /\ update_status(l, after_fatal(row[cur[l]]))
    /\ lpc' = [lpc EXCEPT ![l] = "pick"]
    /\ UNCHANGED <<todo, cur, lease, leases, agents, box, watchdog, late, final, abandoned, unkilled>>

-----------------------------------------------------------------------------
(* run_agent *)

\* Mutant: one lease too many.
due_OffByOne(l) == leases[l] > RecycleAfter

\* _maybe_recycle, before the lease is counted.
due(l) == leases[l] >= RecycleAfter

\* acquire: recycle when due (the restart ends every agent of the container),
\* make the run directory, take the lease; then the watchdog is armed and the
\* agent started.
Acquire(l) ==
    /\ lpc[l] = "acquire" /\ lease[l] = Nobody
    /\ agents' = (IF due(l) THEN {} ELSE agents) \cup {cur[l]}
    /\ leases' = [leases EXCEPT ![l] = (IF due(l) THEN 0 ELSE @) + 1]
    /\ lease' = [lease EXCEPT ![l] = cur[l]]
    /\ watchdog' = [watchdog EXCEPT ![l] = "armed"]
    /\ lpc' = [lpc EXCEPT ![l] = "stream"]
    /\ UNCHANGED <<row, todo, cur, box, late, final, abandoned, unkilled, lfaults>>

\* The recycle fails (ContainerUnhealthy): docker's restart raises, before or
\* after it has ended the agents, or the container is not healthy in time, with
\* its count at 0 already, so that the next run is given it as it is. run_agent
\* reports a dead sandbox, there is no lease to give back.
AcquireFails(l) ==
    /\ lpc[l] = "acquire" /\ lease[l] = Nobody /\ due(l) /\ LaneFault
    /\ \/ agents' \in {agents, {}} /\ UNCHANGED leases
       \/ agents' = {} /\ leases' = [leases EXCEPT ![l] = 0]
    /\ final' = [final EXCEPT ![l] = "sandbox_dead"]
    /\ lpc' = [lpc EXCEPT ![l] = "store"]
    /\ UNCHANGED <<row, todo, cur, lease, box, watchdog, late, abandoned, unkilled>>

\* An agent comes to its end; nothing says that it must.
AgentExits(r) ==
    /\ r \in agents
    /\ agents' = agents \ {r}
    /\ UNCHANGED <<row, lanes, abandoned, unkilled, lfaults>>

\* Mutant: the budget is looked at between two chunks only.
breached_NoPoll(l) == FALSE

\* What the watchdog polls every HEYI_EVAL_WATCHDOG_POLL_S until it is stopped:
\* the clock passes the budget some time.
breached(l) == lpc[l] = "stream"

\* The watchdog thread: the box first, the killer after it.
WatchdogPolls(l) ==
    /\ watchdog[l] = "armed" /\ breached(l)
    /\ box' = [box EXCEPT ![l] = "timeout"]
    /\ watchdog' = [watchdog EXCEPT ![l] = "killing"]
    /\ UNCHANGED <<row, lpc, todo, cur, lease, leases, agents, late, final, abandoned, unkilled,
                   lfaults>>

\* pkill -f 'claude --print' in the container: whoever runs there. A killer
\* that was slow may come when its own run is over and another has begun; an
\* error of docker is swallowed, and the watchdog does not try again.
WatchdogKills(l) ==
    /\ watchdog[l] = "killing" \/ l \in late
    /\ \/ agents' = {} /\ UNCHANGED <<unkilled, lfaults>>
       \/ /\ watchdog[l] = "killing" /\ LaneFault
          /\ unkilled' = unkilled \cup {cur[l]} /\ UNCHANGED agents
    /\ watchdog' = [watchdog EXCEPT ![l] = IF @ = "killing" THEN "off" ELSE @]
    /\ late' = late \ {l}
    /\ UNCHANGED <<row, lpc, todo, cur, lease, leases, box, final, abandoned>>

\* Mutant: what the loop found is forgotten unless the watchdog found it too.
streamed_BoxOnly(boxed, found) == boxed

\* The decision _stream_and_track returns: what ended the loop, or the box.
streamed(boxed, found) == IF found = "ok" THEN boxed ELSE found

\* How the loop ends: the stream is at its end since the agent is; a chunk
\* finds the box filled or a budget passed, and the loop is left WITHOUT
\* killing the agent; or docker raises.
LoopEnds(l, found) ==
    CASE found = "ok" -> cur[l] \notin agents
      [] found = "timeout" -> cur[l] \in agents
      [] found = "budget_exceeded" -> cur[l] \in agents /\ box[l] = "ok"
      [] OTHER -> lfaults < MaxLaneFaults

\* _agent_outcome_to_status of the report the agent printed: it may claim any
\* outcome, also those that are for the lane to find.
Reported(l) ==
    {"done", "report_parse_error", "budget_exceeded", "timeout", "sandbox_dead"}
        \cup (IF l = "skill" THEN {"skill_clone_attempt"} ELSE {"refused", "unreachable"})

\* What run_agent makes of it: a dead sandbox, a budget, or a report.
Verdict(l, found) ==
    IF found = "raised" THEN {"sandbox_dead"}
    ELSE IF streamed(box[l], found) # "ok" THEN {streamed(box[l], found)}
    ELSE Reported(l)

\* The watchdog is stopped; a killer that takes more than the two seconds of
\* the join is still to come. The finally removes the run directory and frees
\* the handle; when the removal raises, this is logged and the handle stays.
StreamEnds(l, found) ==
    /\ lpc[l] = "stream"
    /\ \E removed \in BOOLEAN :
        /\ LoopEnds(l, found) /\ (removed \/ (found # "raised" /\ lfaults < MaxLaneFaults))
        /\ lfaults' = lfaults + (IF found = "raised" \/ ~removed THEN 1 ELSE 0)
        /\ lease' = [lease EXCEPT ![l] = IF removed THEN Nobody ELSE @]
        /\ \E s \in Verdict(l, found) : final' = [final EXCEPT ![l] = s]
    /\ late' = IF watchdog[l] = "killing" THEN late \cup {l} ELSE late
    /\ watchdog' = [watchdog EXCEPT ![l] = "off"] /\ box' = [box EXCEPT ![l] = "ok"]
    /\ lpc' = [lpc EXCEPT ![l] = "store"]
    /\ UNCHANGED <<row, todo, cur, leases, agents, abandoned, unkilled>>

\* write_report_artifacts and the last update_status (for a run with a report
\* JUDGE, and DONE at once). The skill lane first looks for a clone in agent.log.
StoreResult(l) ==
    /\ lpc[l] = "store"
    /\ \E s \in {final[l]} \cup (IF l = "skill" THEN {"skill_clone_attempt"} ELSE {}) :
        update_status(l, s)
    /\ final' = [final EXCEPT ![l] = "ok"]
    /\ lpc' = [lpc EXCEPT ![l] = "pick"]
    /\ UNCHANGED <<todo, cur, lease, leases, agents, box, watchdog, late, abandoned, unkilled,
                   lfaults>>

\* The steps the lane's process takes by itself, and those of its watchdog
\* thread. A chunk that ends the loop is not among them: the agent may be silent.
ProcessStep(l) ==
    \/ StartDrain(l) \/ PickRun(l) \/ EndDrain(l) \/ Gate(l) \/ Fatal(l)
    \/ Acquire(l) \/ AcquireFails(l) \/ StreamEnds(l, "ok") \/ StoreResult(l)
WatchdogStep(l) == WatchdogPolls(l) \/ WatchdogKills(l)

LaneNext ==
    \/ \E r \in LaneRuns : \E byHand \in BOOLEAN : Enqueue(r, byHand)
    \/ \E r \in LaneRuns : AgentExits(r)
    \/ \E l \in Lanes : ProcessStep(l) \/ WatchdogStep(l) \/ Dies(l)
    \/ \E l \in Lanes, found \in {"timeout", "budget_exceeded", "raised"} : StreamEnds(l, found)

LaneSpec == LaneInit /\ [][LaneNext]_laneVars

-----------------------------------------------------------------------------
(* Properties *)

\* The variables keep their types; a container is recycled in time.
LaneTypeOK ==
    /\ row \in [LaneRuns -> {"none", "pending"} \cup Working \cup Ended]
    /\ agents \subseteq LaneRuns /\ lfaults \in 0..MaxLaneFaults
    /\ \A l \in Lanes : /\ cur[l] \in LaneRuns \cup {Nobody}
                        /\ lease[l] \in LaneRuns \cup {Nobody}
                        /\ leases[l] \in 0..RecycleAfter

\* A row whose status is neither pending nor final, and that no process works
\* on, was left by a process that died: nothing else can strand a run, which
\* no later drain would ever list again.
StrandedOnlyByCrash ==
    \A r \in LaneRuns :
        (row[r] \in Working /\ \A l \in Lanes : cur[l] # r \/ lpc[l] = "pick") => r \in abandoned

\* A run that is DONE has no agent in the container any more. (One that ended
\* by a budget found between two chunks may have: nobody kills that agent.)
DoneMeansAgentGone == \A r \in LaneRuns : row[r] = "done" => r \notin agents

\* Every run that is enqueued comes to an end, even when its agent falls silent
\* for ever: the watchdog sees to it. Unless its process died, or the one kill
\* the watchdog sends was lost: then the lane may be blocked for ever, with the
\* runs that wait behind the silent one.
EveryRunEnds ==
    \A r \in LaneRuns : row[r] = "pending" ~>
        \/ row[r] \in Ended \/ r \in abandoned
        \/ \E q \in unkilled : LaneOf[q] = LaneOf[r]

=============================================================================
