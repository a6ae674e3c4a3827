------------------------------ MODULE AgentUnit -------------------------------
(***************************************************************************)
(* The sandboxed agent: orchestrator/agent_runner.py invokes a systemd     *)
(* unit per run id (deploy/agent-sandbox/, heyi-eval-agent@.service) that  *)
(* audits itself through agent_audit_daemon.py. One run id is modelled; it *)
(* may be invoked again, also when a call timed out and left the unit      *)
(* active. (Two calls for one run id at the same time are left out.)       *)
(***************************************************************************)
EXTENDS Naturals, Sequences, SequencesExt

CONSTANTS
    MaxInvocations,  \* bound on the calls
    MaxUnitFaults    \* bound on daemon stops, failed helpers, RuntimeMaxSec, bad reads

ASSUME UnitAssumption == MaxInvocations \in Nat /\ MaxUnitFaults \in Nat

Killed == 15       \* ExecMainStatus of a unit that RuntimeMaxSec has ended
BadSpec == 64      \* exit code of the run script that cannot parse its spec
NoAudit == 65      \* exit code of the run script without a begin row
NotYet == 66       \* exit code of the payload of mode claude_code
None == 99         \* no exit code
Codes == {0, 1, BadSpec, NoAudit, NotYet, Killed}
SpecModes == {"smoke", "claude_code"}

VARIABLES
    spec,        \* spec.json: the invocation that wrote it or 0, its mode, and whether
                 \* it is whole
    unit,        \* ActiveState, ExecMainStatus, place of the run script, its mode, begin row
    exits,       \* activation -> its exit code, None while it runs
    ran,         \* activation -> invocation whose command it has read, or 0
    probed,      \* activations that ran the built-in probe in place of a spec
    audit,       \* begin rows: activation, and the exit code of the end row or None
    listening,   \* the audit daemon accepts connections
    outbox,      \* run_meta.json in the agent's home: its activation, or 0
    harvested,   \* run_meta.json in the run directory: its activation, or 0
    inv,         \* the call of invoke_agent, or the last one
    refused,     \* activations whose end row the daemon did not take
    invocations, ufaults

unitVars == <<spec, unit, exits, ran, probed, audit, listening, outbox, harvested, inv, refused,
              invocations, ufaults>>
records == <<exits, ran, probed>>
sandbox == <<unit, records, audit, listening, outbox, refused>>

Idle == [pc |-> "idle", no |-> 0, mode |-> "smoke", act |-> 0, code |-> 0, ok |-> FALSE,
         quoted |-> 0, meta |-> 0, joined |-> FALSE, failed |-> FALSE, blind |-> FALSE]

UnitInit ==
    /\ spec = [no |-> 0, mode |-> "smoke", whole |-> TRUE]
    /\ exits = <<>> /\ ran = <<>> /\ probed = {} /\ audit = <<>> /\ listening = TRUE
    /\ unit = [state |-> "inactive", status |-> 0, at |-> "none", mode |-> "smoke", row |-> 0,
               code |-> 0]
    /\ outbox = 0 /\ harvested = 0 /\ inv = Idle /\ refused = {}
    /\ invocations = 0 /\ ufaults = 0

Act == Len(exits)
Calling == inv.pc \notin {"idle", "done"}
UnitFault == ufaults < MaxUnitFaults /\ ufaults' = ufaults + 1

-----------------------------------------------------------------------------
(* The unit: heyi-eval-agent-run *)

Running(place) == unit.state = "active" /\ unit.at = place

\* The script reads the mode from spec.json. A spec it cannot read is no error: it
\* runs a smoke probe of its own.
ReadMode ==
    /\ Running("spec")
    /\ \/ /\ IF spec.no = 0 THEN UNCHANGED ufaults ELSE UnitFault
          /\ unit' = [unit EXCEPT !.at = "begin", !.mode = "smoke"]
          /\ probed' = probed \cup {Act}
       \/ /\ spec.no # 0 /\ ~spec.whole /\ UNCHANGED <<probed, ufaults>>
          /\ unit' = [unit EXCEPT !.at = "exit", !.code = BadSpec]
       \/ /\ spec.no # 0 /\ spec.whole /\ UNCHANGED <<probed, ufaults>>
          /\ unit' = [unit EXCEPT !.at = IF spec.mode = "smoke" THEN "command" ELSE "begin",
                                  !.mode = spec.mode]
    /\ UNCHANGED <<spec, exits, ran, audit, listening, outbox, harvested, inv, refused, invocations>>

\* It opens the file again for the command, which only a smoke spec has.
ReadCommand ==
    /\ Running("command")
    /\ IF spec.whole /\ spec.mode = "smoke"
       THEN /\ ran' = [ran EXCEPT ![Act] = spec.no]
            /\ unit' = [unit EXCEPT !.at = "begin"]
       ELSE /\ unit' = [unit EXCEPT !.at = "exit", !.code = BadSpec] /\ UNCHANGED ran
    /\ UNCHANGED <<spec, exits, probed, audit, listening, outbox, harvested, inv, refused,
                   invocations, ufaults>>

\* record_command through the daemon; without a begin row nothing is run.
BeginAudit ==
    /\ Running("begin")
    /\ IF listening
       THEN /\ audit' = Append(audit, [act |-> Act, end |-> None])
            /\ unit' = [unit EXCEPT !.at = "payload", !.row = Len(audit) + 1]
       ELSE /\ unit' = [unit EXCEPT !.at = "exit", !.code = NoAudit] /\ UNCHANGED audit
    /\ UNCHANGED <<spec, records, listening, outbox, harvested, inv, refused, invocations, ufaults>>

\* The payload, and run_meta.json over the one an earlier activation left:
\* heyi-eval-agent-prepare wipes the work directory only.
Payload ==
    /\ Running("payload")
    /\ \E code \in IF unit.mode = "smoke" THEN {0, 1} ELSE {NotYet} :
          unit' = [unit EXCEPT !.at = "end", !.code = code]
    /\ outbox' = Act
    /\ UNCHANGED <<spec, records, audit, listening, harvested, inv, refused, invocations, ufaults>>

\* record_result; when it fails the script warns and goes on.
EndAudit ==
    /\ Running("end")
    /\ IF listening THEN audit' = [audit EXCEPT ![unit.row].end = unit.code] /\ UNCHANGED refused
                    ELSE refused' = refused \cup {Act} /\ UNCHANGED audit
    /\ unit' = [unit EXCEPT !.at = "exit"]
    /\ UNCHANGED <<spec, records, listening, outbox, harvested, inv, invocations, ufaults>>

Finished(code) ==
    /\ unit' = [unit EXCEPT !.state = IF code = 0 THEN "inactive" ELSE "failed", !.status = code,
                            !.at = "none", !.row = 0, !.code = 0]
    /\ exits' = [exits EXCEPT ![Act] = code]
    /\ UNCHANGED <<spec, ran, probed, audit, listening, outbox, harvested, inv, refused, invocations,
                   ufaults>>

UnitExits == Running("exit") /\ Finished(unit.code)

\* RuntimeMaxSec: SIGTERM, and the unit is deactivating until it is gone.
RuntimeMax ==
    /\ unit.state = "active" /\ UnitFault
    /\ unit' = [unit EXCEPT !.state = "deactivating"]
    /\ UNCHANGED <<spec, records, audit, listening, outbox, harvested, inv, refused, invocations>>

UnitKilled == unit.state = "deactivating" /\ Finished(Killed)

\* The daemon stops, and serves again.
DaemonStops ==
    /\ listening /\ UnitFault /\ listening' = FALSE
    /\ UNCHANGED <<spec, unit, records, audit, outbox, harvested, inv, refused, invocations>>

DaemonServes ==
    /\ ~listening /\ listening' = TRUE
    /\ UNCHANGED <<spec, unit, records, audit, outbox, harvested, inv, refused, invocations, ufaults>>

-----------------------------------------------------------------------------
(* invoke_agent *)

\* Mutant: the unit is started before the spec is written.
first_of_invoke_Start == "start"

first_of_invoke == "spec"

NextOfInvoke(this, other) == IF this = first_of_invoke THEN other ELSE "wait"

\* A call begins, with a spec of either mode.
Invoke ==
    /\ ~Calling /\ invocations < MaxInvocations
    /\ invocations' = invocations + 1
    /\ \E mode \in SpecModes :
          inv' = [Idle EXCEPT !.pc = first_of_invoke, !.no = invocations + 1, !.mode = mode]
    /\ UNCHANGED <<spec, sandbox, harvested, ufaults>>

\* write_spec: write_text truncates spec.json, then fills it.
open_spec ==
    /\ inv.pc = "spec"
    /\ spec' = [spec EXCEPT !.whole = FALSE]
    /\ inv' = [inv EXCEPT !.pc = "write"]
    /\ UNCHANGED <<sandbox, harvested, invocations, ufaults>>

write_spec ==
    /\ inv.pc = "write"
    /\ spec' = [no |-> inv.no, mode |-> inv.mode, whole |-> TRUE]
    /\ inv' = [inv EXCEPT !.pc = NextOfInvoke("spec", "start")]
    /\ UNCHANGED <<sandbox, harvested, invocations, ufaults>>

\* systemctl start: a new activation, or nothing when the unit is active. While
\* it is deactivating the job waits. A start that fails is raised.
StartUnit ==
    /\ inv.pc = "start"
    /\ \/ /\ unit.state = "active" /\ UNCHANGED <<unit, exits, ran, ufaults>>
          /\ inv' = [inv EXCEPT !.pc = NextOfInvoke("start", "spec"), !.joined = TRUE]
       \/ /\ unit.state \in {"inactive", "failed"} /\ UNCHANGED ufaults
          /\ unit' = [unit EXCEPT !.state = "active", !.status = 0, !.at = "spec"]
          /\ exits' = Append(exits, None) /\ ran' = Append(ran, 0)
          /\ inv' = [inv EXCEPT !.pc = NextOfInvoke("start", "spec")]
       \/ /\ UnitFault /\ UNCHANGED <<unit, exits, ran>>
          /\ inv' = Idle
    /\ UNCHANGED <<spec, probed, audit, listening, outbox, harvested, refused, invocations>>

\* Mutant: a unit that is being stopped counts as stopped.
still_running_NotDeactivating(state) == state \in {"activating", "active", "reloading"}

still_running(state) == state \in {"activating", "active", "reloading", "deactivating"}

\* _wait_for_inactive sees the end of the unit, or raises and leaves it as it is.
\* _systemctl_show has no exit code: when it fails it prints nothing, which is none
\* of the running states, and the call goes on as if the unit had ended.
Wait ==
    /\ inv.pc = "wait"
    /\ \/ ~still_running(unit.state) /\ UNCHANGED ufaults
          /\ inv' = [inv EXCEPT !.pc = "status", !.act = Act]
       \/ still_running(unit.state) /\ UNCHANGED ufaults
          /\ inv' = Idle
       \/ UnitFault
          /\ inv' = [inv EXCEPT !.pc = "status", !.act = Act, !.blind = TRUE]
    /\ UNCHANGED <<spec, sandbox, harvested, invocations>>

\* ExecMainStatus, when it can be had.
Status ==
    /\ inv.pc = "status"
    /\ \/ UNCHANGED ufaults /\ inv' = [inv EXCEPT !.pc = "harvest", !.code = unit.status]
       \/ UnitFault /\ inv' = [inv EXCEPT !.pc = "harvest", !.code = None]
    /\ UNCHANGED <<spec, sandbox, harvested, invocations>>

\* The outbox; a helper that fails leaves what is there.
Harvest ==
    /\ inv.pc = "harvest"
    /\ \/ harvested' = (IF outbox = 0 THEN harvested ELSE outbox) /\ UNCHANGED ufaults
          /\ inv' = [inv EXCEPT !.pc = "summary"]
       \/ UnitFault /\ UNCHANGED harvested
          /\ inv' = [inv EXCEPT !.pc = "summary", !.failed = TRUE]
    /\ UNCHANGED <<spec, sandbox, invocations>>

\* Mutant: the oldest rows of the run id instead of the newest.
query_recent_Oldest == audit

\* The begin rows of the run id, newest first, with their ends.
query_recent == Reverse(audit)

\* Of the four newest rows, those that have an end.
collect_audit_summary == {i \in 1..Len(audit) : i <= 4 /\ query_recent[i].end # None}

\* The newest of these, whichever activation it belongs to.
newest(ended) == query_recent[Min(ended)]

is_ok(code, ended) == code = 0 /\ ended # {} /\ newest(ended).end = 0

Summary ==
    /\ inv.pc = "summary"
    /\ LET ended == collect_audit_summary IN
        inv' = [inv EXCEPT !.pc = "done", !.ok = is_ok(inv.code, ended),
                           !.quoted = IF ended = {} THEN 0 ELSE newest(ended).act,
                           !.meta = harvested]
    /\ UNCHANGED <<spec, sandbox, harvested, invocations, ufaults>>

UnitNext ==
    \/ ReadMode \/ ReadCommand \/ BeginAudit \/ Payload \/ EndAudit \/ UnitExits \/ RuntimeMax \/ UnitKilled
    \/ DaemonStops \/ DaemonServes
    \/ Invoke \/ open_spec \/ write_spec \/ StartUnit \/ Wait \/ Status \/ Harvest \/ Summary

UnitSpec == UnitInit /\ [][UnitNext]_unitVars

-----------------------------------------------------------------------------
(* Properties *)

\* The variables keep their types.
UnitTypeOK ==
    /\ spec.no \in Nat /\ spec.mode \in SpecModes
    /\ unit.state \in {"inactive", "failed", "active", "deactivating"} /\ unit.status \in Codes
    /\ Len(ran) = Act /\ probed \subseteq 1..Act
    /\ \A n \in DOMAIN exits : exits[n] \in Codes \cup {None}
    /\ outbox \in 0..Act /\ harvested \in 0..Act /\ refused \subseteq 1..Act

Ok == inv.pc = "done" /\ inv.ok

\* A result that is ok is that of a payload that has ended with 0, unless the
\* state of the unit could not be read: never of a unit that was still being
\* stopped, with the audit rows of an earlier attempt.
OkMeansRan == Ok /\ ~inv.blind => exits[inv.act] = 0

\* What was run is what the call asked for, unless the script could not read
\* spec.json or the unit was still active from a call that timed out: starting it
\* again does nothing. A claude_code spec is never ok.
OkIsForThisSpec ==
    Ok /\ ~inv.joined /\ ~inv.blind /\ inv.act \notin probed =>
        ran[inv.act] = inv.no /\ inv.mode = "smoke"

\* The audit row and the run_meta.json an ok result quotes are those of its own
\* activation, unless the daemon refused the end row, the harvest failed or the
\* state of the unit could not be read.
OkQuotesItself ==
    Ok /\ ~inv.blind =>
        /\ inv.quoted = inv.act \/ inv.act \in refused
        /\ inv.meta = inv.act \/ inv.failed

=============================================================================
