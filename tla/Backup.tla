-------------------------------- MODULE Backup --------------------------------
(***************************************************************************)
(* `python -m backup` (backup/): a timer starts it every half hour; it     *)
(* copies the data directory into a new directory named by the time        *)
(* (snapshot.py), then removes the old ones (retention.py), also when the  *)
(* copy has failed. Time is counted in ticks; a pass takes at least one.   *)
(***************************************************************************)
EXTENDS Naturals

CONSTANTS
    HealthyFor,       \* _HEALTH_OK_S, in ticks
    KeepFor,          \* keep_days, in ticks
    MaxTicks,         \* bound on the clock
    MaxBackupFaults   \* bound on crashes, failed copies and failed removals

ASSUME BackupAssumption ==
    /\ {HealthyFor, KeepFor, MaxTicks, MaxBackupFaults} \subseteq Nat
    /\ HealthyFor <= KeepFor /\ MaxTicks > 0

VARIABLES
    now,          \* the clock
    snaps,        \* the directories with a snapshot's name: [ts, mtime, data, meta]: data
                  \* when the copy is complete, meta when backup_meta.json is
    bpc,          \* where the pass is: "idle", "copy", "meta", "link", "text", "prune"
    snapshot_ts,  \* the name of the directory it makes
    last_backup,  \* last_backup.txt, 0 when it is absent or cannot be read
    latest,       \* what the link `latest` names, 0 when there is none
    bfaults

backupVars == <<now, snaps, bpc, snapshot_ts, last_backup, latest, bfaults>>

BackupInit ==
    /\ now = 1 /\ snaps = {} /\ bpc = "idle" /\ snapshot_ts = 0
    /\ last_backup = 0 /\ latest = 0 /\ bfaults = 0

HalfHour ==
    /\ now < MaxTicks /\ now' = now + 1
    /\ UNCHANGED <<snaps, bpc, snapshot_ts, last_backup, latest, bfaults>>

BackupFault == bfaults < MaxBackupFaults /\ bfaults' = bfaults + 1

-----------------------------------------------------------------------------
(* take_snapshot *)

Mine == {s \in snaps : s.ts = snapshot_ts}

\* The directory of this pass as it is after a step.
Made(mtime, data, meta) ==
    (snaps \ Mine) \cup {[ts |-> snapshot_ts, mtime |-> mtime, data |-> data, meta |-> meta]}

\* No two passes are made in one second, so that no directory of this name is
\* there; an overlap of the directories or a missing source end the pass early.
Begin ==
    /\ bpc = "idle" /\ \A s \in snaps : s.ts < now
    /\ \/ /\ snapshot_ts' = now /\ bpc' = "copy"
          /\ snaps' = snaps \cup {[ts |-> now, mtime |-> now, data |-> FALSE, meta |-> FALSE]}
          /\ UNCHANGED bfaults
       \/ /\ BackupFault /\ bpc' = "prune" /\ UNCHANGED <<snaps, snapshot_ts>>
    /\ UNCHANGED <<now, last_backup, latest>>

\* Mutant: rsync's exit code is not looked at.
copied_AnyExit(returncode) == TRUE

copied(returncode) == returncode = 0

\* rmtree with ignore_errors: what it cannot remove stays, and is not whole.
CleanUp == snaps' = snaps \ Mine \/ snaps' = Made(now, FALSE, FALSE)

\* rsync -a gives the directory the times of its source.
Copy(returncode) ==
    /\ bpc = "copy"
    /\ \/ /\ copied(returncode)
          /\ \E mtime \in 0..now : snaps' = Made(mtime, returncode = 0, FALSE)
          /\ bpc' = "meta"
       \/ ~copied(returncode) /\ CleanUp /\ bpc' = "prune"
    /\ IF returncode = 0 THEN UNCHANGED bfaults ELSE BackupFault
    /\ UNCHANGED <<now, snapshot_ts, last_backup, latest>>

\* backup_meta.json; writing it touches the directory. A directory whose pass
\* dies before is not a snapshot.
WriteMeta ==
    /\ bpc = "meta"
    /\ \/ /\ \E s \in Mine : snaps' = Made(now, s.data, TRUE)
          /\ bpc' = "link" /\ UNCHANGED bfaults
       \/ BackupFault /\ CleanUp /\ bpc' = "prune"
    /\ UNCHANGED <<now, snapshot_ts, last_backup, latest>>

\* The link is replaced by a rename; a failure keeps the snapshot.
_atomic_symlink ==
    /\ bpc = "link"
    /\ \/ latest' = snapshot_ts /\ bpc' = "text" /\ UNCHANGED bfaults
       \/ BackupFault /\ bpc' = "prune" /\ UNCHANGED latest
    /\ UNCHANGED <<now, snaps, snapshot_ts, last_backup>>

\* last_backup.txt is written in place.
WriteLastBackup ==
    /\ bpc = "text"
    /\ \/ last_backup' = snapshot_ts /\ UNCHANGED bfaults
       \/ BackupFault /\ last_backup' \in {0, last_backup}
    /\ bpc' = "prune"
    /\ UNCHANGED <<now, snaps, snapshot_ts, latest>>

-----------------------------------------------------------------------------
(* prune_old_snapshots *)

\* Mutant: nothing is kept for being the last one.
forced_keep_None == {}

\* Always kept: the last directory by name.
forced_keep == {s \in snaps : \A t \in snaps : t.ts <= s.ts}

Old == {s \in snaps \ forced_keep : s.mtime + KeepFor < now}

Broken(some) == {[ts |-> s.ts, mtime |-> now, data |-> FALSE, meta |-> FALSE] : s \in some}

\* Each is removed; one removal may fail, before or after some files are gone.
Prune ==
    /\ bpc = "prune"
    /\ \/ snaps' = snaps \ Old /\ UNCHANGED bfaults
       \/ \E s \in Old : BackupFault /\ snaps' \in {snaps \ (Old \ {s}), (snaps \ Old) \cup Broken({s})}
    /\ bpc' = "idle" /\ snapshot_ts' = 0
    /\ UNCHANGED <<now, last_backup, latest>>

\* The process dies (the unit's TimeoutStartSec is the inner timeout of rsync):
\* at any step, in the middle of a removal, of a copy or of the text file.
BackupDies ==
    /\ bpc # "idle" /\ BackupFault
    /\ \/ UNCHANGED snaps
       \/ bpc = "prune" /\ \E gone \in SUBSET Old, s \in Old : snaps' = (snaps \ (gone \cup {s})) \cup Broken({s})
    /\ last_backup' \in {last_backup} \cup (IF bpc = "text" THEN {0} ELSE {})
    /\ bpc' = "idle" /\ snapshot_ts' = 0
    /\ UNCHANGED <<now, latest>>

BackupNext ==
    \/ HalfHour \/ Begin \/ WriteMeta \/ _atomic_symlink \/ WriteLastBackup \/ Prune \/ BackupDies
    \/ \E returncode \in {0, 1} : Copy(returncode)

BackupSpec == BackupInit /\ [][BackupNext]_backupVars

-----------------------------------------------------------------------------
(* Properties *)

\* read_backup_state: what the panel shows.
health == IF last_backup # 0 /\ snaps # {} /\ now <= last_backup + HealthyFor THEN "ok" ELSE "not ok"

\* The variables keep their types.
BackupTypeOK ==
    /\ snaps \subseteq [ts : 1..MaxTicks, mtime : 0..MaxTicks, data : BOOLEAN, meta : BOOLEAN]
    /\ bpc \in {"idle", "copy", "meta", "link", "text", "prune"}
    /\ last_backup \in 0..MaxTicks /\ latest \in 0..MaxTicks

\* A directory counts when it is copied to the end and has its backup_meta.json.
Restorable == {s \in snaps : s.data /\ s.meta}

\* "ok" on the panel means that a whole snapshot of the last hour is there.
HealthIsHonest ==
    health = "ok" => \E s \in Restorable : now <= s.ts + HealthyFor

\* However long the passes have failed, the last whole snapshot is not removed
\* (R3: "the pipeline can survive 1-week downtime without losing its only
\* restore point"), unless the newest directory is one a crash or a failed
\* clean-up left incomplete: that one is kept in its place.
RestorePointKept ==
    [][Restorable # {} /\ Restorable' = {} => \E s \in snaps \ Restorable : \A t \in snaps : t.ts <= s.ts]_backupVars

=============================================================================
