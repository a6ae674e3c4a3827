----------------------------- MODULE RunLifecycle -----------------------------
(***************************************************************************)
(* What the index of runs promises to its readers (the panel, the dedup of *)
(* enqueue, `status`): a run appears as pending, is in_progress at most    *)
(* once and alone, and ends in one final status.  This is RunStatus of     *)
(* state_machine.py with the concurrency of one run that                   *)
(* docs/INVARIANTS.md asks for; RunPipeline is shown to implement it.      *)
(***************************************************************************)
CONSTANT Runs

VARIABLE status

Terminal == {"ok", "failed", "aborted"}

Init == status = [r \in Runs |-> "absent"]

Register(r) ==
    /\ status[r] = "absent"
    /\ status' = [status EXCEPT ![r] = "pending"]

Begin(r) ==
    /\ status[r] = "pending"
    /\ \A q \in Runs : status[q] # "in_progress"
    /\ status' = [status EXCEPT ![r] = "in_progress"]

End(r) ==
    /\ status[r] = "in_progress"
    /\ \E s \in Terminal : status' = [status EXCEPT ![r] = s]

Next == \E r \in Runs : Register(r) \/ Begin(r) \/ End(r)

Spec == Init /\ [][Next]_status

=============================================================================
