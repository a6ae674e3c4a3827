----------------------------- MODULE MCServices -----------------------------
(* What runs beside the evaluation pipeline: the agent lanes, discovery, the *)
(* sandboxed agent unit and the backup, on small instances. They share no    *)
(* state (the lanes' queue is filled by discovery, of which AgentLanes has   *)
(* the enqueuing), so a behaviour is one of one component, chosen by `focus`.*)
EXTENDS AgentLanes, Discover, AgentUnit, Backup

VARIABLE focus

vars == <<focus, laneVars, discoverVars, unitVars, backupVars>>

Init ==
    /\ LaneInit /\ UnitInit /\ BackupInit
    /\ \/ focus = "discover" /\ DiscoverInit
       \/ /\ focus \in {"lanes", "unit", "backup"}
          /\ DiscoverInit /\ \A m \in HubModels : modified[m] = 0

Next ==
    /\ UNCHANGED focus
    /\ \/ focus = "lanes" /\ LaneNext /\ UNCHANGED <<discoverVars, unitVars, backupVars>>
       \/ focus = "discover" /\ DiscoverNext /\ UNCHANGED <<laneVars, unitVars, backupVars>>
       \/ focus = "unit" /\ UnitNext /\ UNCHANGED <<laneVars, discoverVars, backupVars>>
       \/ focus = "backup" /\ BackupNext /\ UNCHANGED <<laneVars, discoverVars, unitVars>>

\* The scheduler runs a lane's process and its watchdog thread.
Turn(step) == focus = "lanes" /\ step /\ UNCHANGED <<focus, discoverVars, unitVars, backupVars>>

Fairness ==
    \A l \in Lanes : WF_vars(Turn(ProcessStep(l))) /\ WF_vars(Turn(WatchdogStep(l)))

Spec == Init /\ [][Next]_vars /\ Fairness

\* The type invariant of the component that moves; the others are as in Init.
ServicesTypeOK ==
    CASE focus = "lanes" -> LaneTypeOK
      [] focus = "discover" -> DiscoverTypeOK
      [] focus = "unit" -> UnitTypeOK
      [] focus = "backup" -> BackupTypeOK

-----------------------------------------------------------------------------
(* The instance *)

\* Two runs of one project, one of a skill.
MCLaneOf == [r \in LaneRuns |-> IF r = "k1" THEN "skill" ELSE "project"]
MCTargetOf == [r \in LaneRuns |-> IF r = "k1" THEN "b" ELSE "a"]

\* The daemon's unit is `discover loop` in curated mode; by hand, the mode is
\* left to the cursor.
MCModes == [p \in Passes |-> IF p = "daemon" THEN {"curated"} ELSE {"auto"}]
MCPages == [mode \in {"backfill", "incremental"} |-> IF mode = "backfill" THEN 3 ELSE 1]

=============================================================================
