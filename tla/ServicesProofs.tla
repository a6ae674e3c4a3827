---------------------------- MODULE ServicesProofs ----------------------------
(***************************************************************************)
(* What runs beside the pipeline, for every number of lanes, runs, passes, *)
(* models, calls and faults: the agent lanes, discovery, the sandboxed     *)
(* agent unit and the backup. Each part has an inductive invariant of its  *)
(* own.                                                                    *)
(***************************************************************************)
EXTENDS MCServices, WellFoundedInduction, TLAPS

-----------------------------------------------------------------------------

(* The lanes *)

AtWork == {"gate", "acquire", "stream", "store"}
LanePlace == {"idle", "pick"} \cup AtWork

LaneTypes ==
    /\ row \in [LaneRuns -> {"none", "pending"} \cup Working \cup Ended]
    /\ lpc \in [Lanes -> LanePlace]
    /\ todo \in [Lanes -> SUBSET LaneRuns]
    /\ cur \in [Lanes -> LaneRuns \cup {Nobody}]
    /\ lease \in [Lanes -> LaneRuns \cup {Nobody}]
    /\ leases \in [Lanes -> 0..RecycleAfter]
    /\ agents \subseteq LaneRuns /\ late \subseteq Lanes
    /\ box \in [Lanes -> {"ok", "timeout"}]
    /\ watchdog \in [Lanes -> {"off", "armed", "killing"}]
    /\ final \in [Lanes -> {"ok"} \cup Ended]
    /\ lfaults \in 0..MaxLaneFaults

\* A busy process works on a run of its own lane, and the row says how far.
Busy(l) ==
    lpc[l] \in AtWork =>
        /\ cur[l] \in LaneRuns /\ LaneOf[cur[l]] = l
        /\ row[cur[l]] = IF lpc[l] = "gate" THEN "gate" ELSE "agent_run"

\* Some process works on every run that is under way and not abandoned.
WorkedOn ==
    \A r \in LaneRuns :
        row[r] \in Working /\ r \notin abandoned => \E l \in Lanes : lpc[l] \in AtWork /\ cur[l] = r

LaneInv ==
    /\ LaneTypes
    /\ \A l \in Lanes :
          /\ Busy(l)
          /\ todo[l] \subseteq Pending(l)
          /\ final[l] = "ok" <=> lpc[l] # "store"
          /\ final[l] = "done" => cur[l] \notin agents
    /\ WorkedOn
    /\ DoneMeansAgentGone

-----------------------------------------------------------------------------
(* Discovery *)

Cursor == [known : SUBSET (HubModels \ OffModality), last : 0..MaxTime, complete : BOOLEAN]
Pass == [pc : {"idle", "purge", "load", "read", "end", "append", "save"},
         mode : {"curated", "backfill", "incremental", "auto"}, mem : Cursor,
         new : SUBSET (HubModels \ OffModality), got : SUBSET HubModels, cut : BOOLEAN,
         finished : BOOLEAN, missed : SUBSET HubModels]

DiscoverTypes ==
    /\ clock \in FromDate..MaxTime /\ modified \in [HubModels -> 0..MaxTime]
    /\ rows \subseteq HubModels /\ torn \in BOOLEAN /\ cursor \in Cursor
    /\ pass \in [Passes -> Pass]
    /\ \A p \in Passes : pass[p].new \subseteq pass[p].mem.known

Accounted == rows \cup swallowed \cup purged

\* What the cursor of a live pass knows has a row or will have one.
DiscoverInv ==
    /\ DiscoverTypes
    /\ cursor.known \subseteq Accounted
    /\ \A p \in Passes :
          /\ pass[p].pc \in {"read", "end", "append"} =>
                pass[p].mem.known \subseteq Accounted \cup pass[p].new
          /\ pass[p].pc = "save" => pass[p].mem.known \subseteq Accounted
          /\ pass[p].pc = "read" /\ pass[p].mode = "curated" => pass[p].new = {}

\* A pass that reads or writes, and of the hub what it should have a row for.
Scanning == {"read", "end", "append", "save"}
Wanted == Hub \ Unwanted
Excused == Accounted \cup dropped

\* What a cursor has left behind, where a pass stops, and what it has not seen.
Behind(c) == {m \in Wanted : FromDate <= modified[m] /\ modified[m] < c.last}
Cutoff(s) == IF s.mode = "incremental" /\ s.mem.last > 0 THEN s.mem.last ELSE FromDate
Unnoticed(s) == Wanted \ (s.mem.known \cup s.missed)

\* A paginator delivers the newest first.
ReadInOrder(s) ==
    /\ s.got \subseteq Hub /\ s.got \cap Wanted \subseteq s.mem.known
    /\ \A m \in Hub \ (s.got \cup s.missed), n \in s.got : modified[m] <= modified[n]

\* A curated pass notices nothing and says so; any other that was not cut short
\* has noticed all that is not older than its cutoff.
Watched(p, s) ==
    /\ s.mem.last <= clock
    /\ s.pc = "purge" => p \in Resetters
    /\ s.pc \in Scanning /\ ModesOf[p] \subseteq {"curated"} => s.mode = "curated"
    /\ s.mode = "curated" =>
          /\ s.pc = "end" => s.cut
          /\ s.pc \in {"append", "save"} => Unnoticed(s) \cap Behind(s.mem) = {}
    /\ s.mode # "curated" =>
          /\ s.pc \in Scanning /\ s.mem.complete => Unnoticed(s) \cap Behind(s.mem) \subseteq Excused
          /\ s.pc = "read" => ReadInOrder(s)
          /\ s.pc = "end" /\ s.finished => s.mode = "backfill"
          /\ s.pc = "end" /\ ~s.cut => \A m \in Unnoticed(s) : modified[m] < Cutoff(s)

MissInv ==
    /\ \A m \in HubModels : modified[m] <= clock
    /\ cursor.last <= clock /\ (cursor.complete => Behind(cursor) \subseteq Excused)
    /\ \A p \in Passes : Watched(p, pass[p])
-----------------------------------------------------------------------------
(* The agent unit *)

AuditRow == [act : Nat, end : Codes \cup {None}]

SpecRecord == [no : Nat, mode : SpecModes, whole : BOOLEAN]
UnitRecord ==
    [state : {"inactive", "failed", "active", "deactivating"}, status : Codes,
     at : {"none", "spec", "command", "begin", "payload", "end", "exit"}, mode : SpecModes,
     row : Nat, code : Codes]
CallRecord ==
    [pc : {"idle", "spec", "write", "start", "wait", "status", "harvest", "summary", "done"},
     no : Nat, mode : SpecModes, act : Nat, code : Codes \cup {None}, ok : BOOLEAN, quoted : Nat,
     meta : Nat, joined : BOOLEAN, failed : BOOLEAN, blind : BOOLEAN]

UnitTypes ==
    /\ spec \in SpecRecord /\ invocations \in Nat /\ ufaults \in Nat /\ listening \in BOOLEAN
    /\ exits \in Seq(Codes \cup {None}) /\ ran \in Seq(Nat) /\ probed \subseteq 1..Act
    /\ audit \in Seq(AuditRow)
    /\ unit \in UnitRecord /\ inv \in CallRecord
    /\ outbox \in 0..Act /\ harvested \in 0..Act /\ refused \subseteq 1..Act

Stopped == unit.state \in {"inactive", "failed"}
Reading == Running("spec") \/ Running("command")

\* What the current activation has left when its payload has ended with code.
Evidence(code) ==
    /\ outbox = Act
    /\ \/ Act \in refused
       \/ audit # <<>> /\ audit[Len(audit)].act = Act /\ audit[Len(audit)].end = code

\* One activation at a time: the last exit code, spec and begin row are its own.
Activation ==
    /\ ~Stopped => Act > 0
    /\ unit.state = "active" => unit.at # "none"
    /\ Stopped /\ Act > 0 => exits[Act] = unit.status
    /\ Len(ran) = Act
    /\ \A i \in 1..Len(audit) : audit[i].act \in 1..Act
    /\ \A i \in 1..Len(audit) : audit[i].act = Act => ~Reading /\ ~Running("begin")
    /\ Running("payload") \/ Running("end") =>
          /\ unit.row = Len(audit) /\ audit # <<>> /\ audit[unit.row].act = Act
    /\ Running("end") => outbox = Act
    /\ Running("exit") /\ unit.code = 0 => Evidence(0)
    /\ Stopped /\ Act > 0 /\ unit.status = 0 => Evidence(0)

\* The activation runs the command of the present call, or the probe; one that has
\* come, or may come, to an exit code of 0 does.
OwnSpec == (ran[Act] = inv.no /\ inv.mode = "smoke") \/ Act \in probed
Earned ==
    /\ Running("begin") \/ Running("payload") => unit.mode # "smoke" \/ OwnSpec
    /\ Running("end") \/ Running("exit") => unit.code # 0 \/ OwnSpec
    /\ Stopped => unit.status # 0 \/ OwnSpec

\* A call that has seen the unit stop is about its last activation.
Called == {"wait", "status", "harvest", "summary", "done"}
Invocation ==
    /\ inv.pc \in {"start"} \cup Called => spec.no = inv.no /\ spec.mode = inv.mode
    /\ inv.pc \in {"spec", "write", "start"} => ~inv.joined /\ ~inv.blind
    /\ inv.pc \in Called => Act > 0 /\ (inv.joined \/ inv.blind \/ Earned)
    /\ inv.pc \in Called \ {"wait"} => inv.blind \/ (Stopped /\ inv.act = Act)
    /\ inv.pc \in {"harvest", "summary", "done"} =>
          inv.blind \/ inv.code = None \/ inv.code = unit.status
    /\ inv.pc \in {"summary", "done"} =>
          inv.blind \/ inv.failed \/ outbox = 0 \/ harvested = outbox
    /\ Ok => inv.code = 0 /\ OkQuotesItself

UnitInv == UnitTypes /\ Activation /\ Invocation

-----------------------------------------------------------------------------
(* The backup *)

Stamps == {s.ts : s \in snaps}

BackupTypes ==
    /\ now \in 1..MaxTicks /\ bfaults \in 0..MaxBackupFaults
    /\ snaps \subseteq [ts : 1..MaxTicks, mtime : 0..MaxTicks, data : BOOLEAN, meta : BOOLEAN]
    /\ bpc \in {"idle", "copy", "meta", "link", "text", "prune"}
    /\ snapshot_ts \in 0..now /\ last_backup \in 0..now /\ latest \in 0..now

Making == bpc \in {"copy", "meta", "link", "text"}

\* Directories have names of their own; the one a pass makes is the newest.
Names ==
    /\ \A s, t \in snaps : s.ts = t.ts => s = t
    /\ \A s \in snaps : s.ts <= now
    /\ \A T \in SUBSET Stamps : T = {} \/ \E m \in T : \A t \in T : t <= m
    /\ Making => snapshot_ts > 0 /\ snapshot_ts \in Stamps /\ \A t \in Stamps : t <= snapshot_ts
    /\ bpc \in {"copy", "meta"} => \A s \in Mine : ~s.meta
    /\ bpc \in {"meta", "link", "text"} => \A s \in Mine : s.data
    /\ bpc \in {"link", "text"} => \A s \in Mine : s.meta /\ s.mtime >= s.ts
    /\ bpc \in {"copy", "meta", "link", "text"} => last_backup < snapshot_ts

\* The snapshot last_backup.txt names is there and whole, or it is too old for
\* the panel.
Backed ==
    last_backup > 0 =>
        \/ last_backup + KeepFor < now
        \/ \E s \in snaps : s.ts = last_backup /\ s.data /\ s.meta /\ s.mtime >= s.ts

BackupInv == BackupTypes /\ Names /\ Backed

-----------------------------------------------------------------------------
(* The lanes: proofs *)

LEMMA InitLanes == LaneInit => LaneInv
<1> SUFFICES ASSUME LaneInit PROVE LaneInv
  OBVIOUS
<1>1. LaneTypes
  BY LaneAssumption DEF LaneInit, LaneTypes, LanePlace, AtWork
<1> QED
  BY <1>1 DEF LaneInit, LaneInv, Busy, AtWork, Pending, WorkedOn, DoneMeansAgentGone, Working

\* A step that moves no process.
LEMMA LaneRowsKept ==
    ASSUME LaneInv, LaneTypes', UNCHANGED <<lpc, todo, cur, final>>,
           agents' \subseteq agents, abandoned \subseteq abandoned',
           \A r \in LaneRuns : row'[r] = row[r] \/ (row[r] = "none" /\ row'[r] = "pending")
    PROVE  LaneInv'
<1>1. \A l \in Lanes : Busy(l)'
  BY DEF LaneInv, Busy
<1>2. \A l \in Lanes : todo'[l] \subseteq Pending(l)'
  BY DEF LaneInv, LaneTypes, Pending
<1>3. WorkedOn'
  BY DEF LaneInv, WorkedOn, Working
<1>4. DoneMeansAgentGone'
  BY DEF LaneInv, DoneMeansAgentGone
<1> QED
  BY <1>1, <1>2, <1>3, <1>4 DEF LaneInv

\* A step of the process of lane l, which may be the one that settles its run.
LEMMA LaneMoves ==
    ASSUME LaneInv, LaneTypes', NEW l \in Lanes,
           \A k \in Lanes \ {l} :
              /\ lpc'[k] = lpc[k] /\ todo'[k] = todo[k]
              /\ cur'[k] = cur[k] /\ final'[k] = final[k],
           \A r \in LaneRuns : row'[r] # row[r] =>
              LaneOf[r] = l /\ (row[r] # "pending" \/ r \notin todo'[l]),
           todo'[l] \subseteq todo[l] \/ todo'[l] \subseteq Pending(l),
           agents' \subseteq agents \cup {r \in LaneRuns : LaneOf[r] = l},
           Busy(l)', final'[l] = "ok" <=> lpc'[l] # "store",
           final'[l] = "done" => cur'[l] \notin agents',
           WorkedOn', DoneMeansAgentGone'
    PROVE  LaneInv'
<1> SUFFICES ASSUME NEW k \in Lanes
             PROVE  /\ Busy(k)' /\ todo'[k] \subseteq Pending(k)'
                    /\ final'[k] = "ok" <=> lpc'[k] # "store"
                    /\ final'[k] = "done" => cur'[k] \notin agents'
  BY DEF LaneInv
<1>1. CASE k = l
  <2>1. todo'[l] \subseteq Pending(l)
    BY DEF LaneInv
  <2>2. todo'[l] \subseteq Pending(l)'
    BY <2>1 DEF Pending
  <2> QED
    BY <1>1, <2>2
<1>2. CASE k # l
  <2>1. \A r \in LaneRuns : LaneOf[r] = k => row'[r] = row[r]
    BY <1>2
  <2>2. Busy(k)'
    BY <1>2, <2>1 DEF LaneInv, Busy
  <2>3. todo'[k] \subseteq Pending(k)'
    BY <1>2, <2>1 DEF LaneInv, Pending
  <2>4. ASSUME final'[k] = "done" PROVE cur'[k] \notin agents'
    <3>1. lpc[k] = "store" /\ LaneOf[cur[k]] = k /\ cur[k] \notin agents
      BY <1>2, <2>4 DEF LaneInv, Busy, AtWork
    <3> QED
      BY <1>2, <3>1
  <2> QED
    BY <1>2, <2>2, <2>3, <2>4 DEF LaneInv
<1> QED
  BY <1>1, <1>2

LEMMA OutsideLanes ==
    ASSUME LaneInv,
           \/ \E r \in LaneRuns : \E byHand \in BOOLEAN : Enqueue(r, byHand)
           \/ \E r \in LaneRuns : AgentExits(r)
           \/ \E l \in Lanes : WatchdogStep(l)
    PROVE  LaneInv'
<1>1. CASE \E r \in LaneRuns : \E byHand \in BOOLEAN : Enqueue(r, byHand)
  <2>1. PICK r \in LaneRuns : row[r] = "none" /\ row' = [row EXCEPT ![r] = "pending"]
    BY <1>1 DEF Enqueue
  <2>2. UNCHANGED <<lanes, agents, abandoned, unkilled, lfaults>>
    BY <1>1 DEF Enqueue
  <2>3. LaneTypes'
    BY <2>1, <2>2 DEF LaneInv, LaneTypes, lanes
  <2> QED
    BY <2>1, <2>2, <2>3, LaneRowsKept DEF lanes, LaneInv, LaneTypes
<1>2. CASE \E r \in LaneRuns : AgentExits(r)
  <2>1. agents' \subseteq agents /\ UNCHANGED <<row, lanes, abandoned, unkilled, lfaults>>
    BY <1>2 DEF AgentExits
  <2>2. LaneTypes'
    BY <2>1 DEF LaneInv, LaneTypes, lanes
  <2> QED
    BY <2>1, <2>2, LaneRowsKept DEF lanes
<1>3. CASE \E l \in Lanes : WatchdogStep(l)
  <2>1. PICK l \in Lanes : WatchdogPolls(l) \/ WatchdogKills(l)
    BY <1>3 DEF WatchdogStep
  <2>2. /\ UNCHANGED <<row, lpc, todo, cur, lease, leases, final, abandoned>>
        /\ agents' \subseteq agents
    BY <2>1 DEF WatchdogPolls, WatchdogKills
  <2>3. /\ box' \in [Lanes -> {"ok", "timeout"}] /\ late' \subseteq Lanes
        /\ watchdog' \in [Lanes -> {"off", "armed", "killing"}] /\ lfaults' \in 0..MaxLaneFaults
    BY <2>1, LaneAssumption DEF WatchdogPolls, WatchdogKills, LaneFault, LaneInv, LaneTypes
  <2>4. LaneTypes'
    BY <2>2, <2>3 DEF LaneInv, LaneTypes
  <2> QED
    BY <2>2, <2>4, LaneRowsKept
<1> QED
  BY <1>1, <1>2, <1>3

\* The death of a process abandons the run it was busy with.
LEMMA DyingLane ==
    ASSUME LaneInv, NEW l \in Lanes, Dies(l)
    PROVE  LaneInv'
<1>1. /\ lpc[l] \notin {"idle", "pick"} /\ UNCHANGED <<row, agents>>
      /\ abandoned' = abandoned \cup {cur[l]}
      /\ lpc' = [lpc EXCEPT ![l] = "idle"] /\ todo' = [todo EXCEPT ![l] = {}]
      /\ cur' = [cur EXCEPT ![l] = Nobody] /\ final' = [final EXCEPT ![l] = "ok"]
  BY DEF Dies
<1>2. LaneTypes'
  BY LaneAssumption DEF Dies, LaneFault, LaneInv, LaneTypes, LanePlace, AtWork
<1>3. WorkedOn'
  BY <1>1 DEF LaneInv, LaneTypes, WorkedOn, AtWork, LanePlace
<1>4. /\ lpc'[l] = "idle" /\ todo'[l] = {} /\ final'[l] = "ok"
      /\ \A k \in Lanes \ {l} : /\ lpc'[k] = lpc[k] /\ todo'[k] = todo[k]
                                /\ cur'[k] = cur[k] /\ final'[k] = final[k]
  BY <1>1 DEF LaneInv, LaneTypes
<1>5. Busy(l)' /\ DoneMeansAgentGone'
  BY <1>1, <1>4 DEF Busy, AtWork, LaneInv, DoneMeansAgentGone
<1> QED
  BY <1>1, <1>2, <1>3, <1>4, <1>5, LaneMoves

\* A drain begins, takes its next run, or ends.
LEMMA DrainingLane ==
    ASSUME LaneInv, NEW l \in Lanes, StartDrain(l) \/ PickRun(l) \/ EndDrain(l)
    PROVE  LaneInv'
<1>1. UNCHANGED <<agents, final, abandoned>> /\ lpc[l] \in {"idle", "pick"}
  BY DEF StartDrain, PickRun, EndDrain
<1>2. CASE StartDrain(l)
  <2>1. /\ lpc' = [lpc EXCEPT ![l] = "pick"] /\ UNCHANGED <<row, cur, final>> /\ lpc[l] = "idle"
        /\ \E batch \in SUBSET Pending(l) : todo' = [todo EXCEPT ![l] = batch]
    BY <1>2 DEF StartDrain
  <2>2. LaneTypes'
    BY <1>2 DEF StartDrain, LaneInv, LaneTypes, LanePlace, AtWork, Pending
  <2>3. /\ lpc'[l] = "pick" /\ todo'[l] \subseteq Pending(l) /\ final'[l] = "ok"
        /\ \A k \in Lanes \ {l} : lpc'[k] = lpc[k] /\ todo'[k] = todo[k]
    BY <2>1 DEF LaneInv, LaneTypes
  <2>4. Busy(l)' /\ DoneMeansAgentGone'
    BY <1>1, <2>1, <2>3 DEF Busy, AtWork, LaneInv, DoneMeansAgentGone
  <2>5. WorkedOn'
    BY <1>1, <2>1, <2>3 DEF WorkedOn, AtWork, LaneInv
  <2> QED
    BY <1>1, <2>1, <2>2, <2>3, <2>4, <2>5, LaneMoves
<1>3. CASE PickRun(l)
  <2>1. PICK r \in todo[l] :
           /\ cur' = [cur EXCEPT ![l] = r] /\ todo' = [todo EXCEPT ![l] = @ \ {r}]
           /\ row' = [row EXCEPT ![r] = "gate"]
    BY <1>3 DEF PickRun
  <2>2. lpc[l] = "pick" /\ lpc' = [lpc EXCEPT ![l] = "gate"]
    BY <1>3 DEF PickRun
  <2>3. r \in LaneRuns /\ LaneOf[r] = l /\ row[r] = "pending"
    BY DEF LaneInv, Pending
  <2>4. /\ lpc'[l] = "gate" /\ cur'[l] = r /\ todo'[l] = todo[l] \ {r} /\ row'[r] = "gate"
        /\ \A q \in LaneRuns \ {r} : row'[q] = row[q]
        /\ \A k \in Lanes \ {l} : lpc'[k] = lpc[k] /\ todo'[k] = todo[k] /\ cur'[k] = cur[k]
    BY <2>1, <2>2, <2>3 DEF LaneInv, LaneTypes
  <2>5. LaneTypes'
    BY <1>3, <2>1, <2>3 DEF PickRun, LaneInv, LaneTypes, LanePlace, AtWork, Working
  <2>6. Busy(l)' /\ DoneMeansAgentGone'
    BY <1>1, <2>3, <2>4 DEF Busy, AtWork, LaneInv, DoneMeansAgentGone
  <2>7. WorkedOn'
    BY <1>1, <2>2, <2>4 DEF LaneInv, WorkedOn, AtWork
  <2> QED
    <3>1. final'[l] = "ok"
      BY <1>1, <2>2 DEF LaneInv
    <3>2. todo'[l] \subseteq todo[l] /\ r \notin todo'[l]
      BY <2>4
    <3> QED
      BY <1>1, <2>3, <2>4, <2>5, <2>6, <2>7, <3>1, <3>2, LaneMoves
<1>4. CASE EndDrain(l)
  <2>1. /\ lpc[l] = "pick" /\ todo[l] = {} /\ UNCHANGED <<row, todo>>
        /\ lpc' = [lpc EXCEPT ![l] = "idle"] /\ cur' = [cur EXCEPT ![l] = Nobody]
    BY <1>4 DEF EndDrain
  <2>2. LaneTypes'
    BY <1>4, LaneAssumption DEF EndDrain, LaneInv, LaneTypes, LanePlace, AtWork
  <2>3. /\ lpc'[l] = "idle" /\ final'[l] = "ok"
        /\ \A k \in Lanes \ {l} : lpc'[k] = lpc[k] /\ cur'[k] = cur[k]
    BY <1>1, <2>1 DEF LaneInv, LaneTypes
  <2>4. Busy(l)' /\ DoneMeansAgentGone'
    BY <1>1, <2>1, <2>3 DEF Busy, AtWork, LaneInv, DoneMeansAgentGone
  <2>5. WorkedOn'
    BY <1>1, <2>1, <2>3 DEF LaneInv, WorkedOn, AtWork
  <2> QED
    BY <1>1, <2>1, <2>2, <2>3, <2>4, <2>5, LaneMoves
<1> QED
  BY <1>2, <1>3, <1>4

\* A process that goes on with its run, or has settled it: the row is that of
\* the run it works on, and only its own agent is started.
LEMMA LaneGoesOn ==
    ASSUME LaneInv, LaneTypes', NEW l \in Lanes, lpc[l] \in AtWork, NEW s, NEW t, NEW pc,
           row' = [row EXCEPT ![cur[l]] = s], lpc' = [lpc EXCEPT ![l] = pc],
           final' = [final EXCEPT ![l] = t], UNCHANGED <<todo, cur, abandoned>>,
           \/ pc \in {"acquire", "stream", "store"} /\ s = "agent_run"
           \/ pc = "pick" /\ s \in Ended,
           t = "ok" <=> pc # "store",
           agents' \subseteq agents \cup (IF s = "agent_run" THEN {cur[l]} ELSE {}),
           s = "done" \/ t = "done" => cur[l] \notin agents'
    PROVE  LaneInv'
<1> DEFINE r == cur[l]
<1>1. r \in LaneRuns /\ LaneOf[r] = l /\ row[r] \in Working
  BY DEF LaneInv, Busy, Working
<1>2. /\ row'[r] = s /\ lpc'[l] = pc /\ final'[l] = t
      /\ \A q \in LaneRuns \ {r} : row'[q] = row[q]
      /\ \A k \in Lanes \ {l} : lpc'[k] = lpc[k] /\ final'[k] = final[k]
  BY <1>1 DEF LaneInv, LaneTypes
<1>3. Busy(l)'
  BY <1>1, <1>2 DEF Busy, AtWork
<1>4. WorkedOn'
  <2> SUFFICES ASSUME NEW q \in LaneRuns, row'[q] \in Working, q \notin abandoned
               PROVE  \E k \in Lanes : lpc'[k] \in AtWork /\ cur'[k] = q
    BY DEF WorkedOn
  <2>1. CASE q = r
    <3>1. pc \in AtWork
      BY <1>2, <2>1 DEF Working, Ended, AtWork
    <3> QED
      BY <1>2, <2>1, <3>1
  <2>2. CASE q # r
    BY <1>2, <2>2 DEF LaneInv, WorkedOn
  <2> QED
    BY <2>1, <2>2
<1>5. DoneMeansAgentGone'
  <2> SUFFICES ASSUME NEW q \in LaneRuns, row'[q] = "done" PROVE q \notin agents'
    BY DEF DoneMeansAgentGone
  <2>1. CASE q = r
    BY <1>2, <2>1
  <2>2. CASE q # r
    BY <1>2, <2>2 DEF LaneInv, DoneMeansAgentGone
  <2> QED
    BY <2>1, <2>2
<1>6. \A q \in LaneRuns : row'[q] # row[q] => LaneOf[q] = l /\ row[q] # "pending"
  BY <1>1, <1>2 DEF Working
<1>7. agents' \subseteq agents \cup {q \in LaneRuns : LaneOf[q] = l}
  BY <1>1
<1> QED
  BY <1>2, <1>3, <1>4, <1>5, <1>6, <1>7, LaneMoves

LEMMA GatedLane ==
    ASSUME LaneInv, NEW l \in Lanes, Gate(l) \/ Fatal(l)
    PROVE  LaneInv'
<1>1. /\ lpc[l] \in AtWork /\ UNCHANGED <<todo, cur, abandoned, final, agents>>
      /\ final' = [final EXCEPT ![l] = "ok"]
  BY DEF Gate, Fatal, AtWork, LaneInv, LaneTypes
<1>2. ASSUME NEW s, NEW pc, row' = [row EXCEPT ![cur[l]] = s], lpc' = [lpc EXCEPT ![l] = pc],
             \/ s = "agent_run" /\ pc = "acquire"
             \/ s \in Ended \ {"done"} /\ pc = "pick"
      PROVE  LaneInv'
  <2>1. LaneTypes'
    <3>1. s \in Working \cup Ended /\ pc \in LanePlace
      BY <1>2 DEF Working, LanePlace, AtWork
    <3>2. /\ UNCHANGED <<lease, leases, agents, box, watchdog, late>>
          /\ lfaults' \in 0..MaxLaneFaults
      BY LaneAssumption DEF Gate, Fatal, LaneFault, LaneInv, LaneTypes
    <3> QED
      BY <1>1, <1>2, <3>1, <3>2 DEF LaneInv, LaneTypes
  <2> QED
    BY <1>1, <1>2, <2>1, LaneGoesOn DEF Ended
<1>3. CASE Gate(l)
  <2>1. ASSUME NEW s \in GateStops(l), update_status(l, s), lpc' = [lpc EXCEPT ![l] = "pick"]
        PROVE  LaneInv'
    <3>1. s \in Ended \ {"done"}
      BY DEF GateStops, Ended
    <3> QED
      BY <1>2, <2>1, <3>1 DEF update_status
  <2>2. ASSUME update_status(l, "agent_run"), lpc' = [lpc EXCEPT ![l] = "acquire"]
        PROVE  LaneInv'
    BY <1>2, <2>2 DEF update_status
  <2>3. \/ \E s \in GateStops(l) : update_status(l, s) /\ lpc' = [lpc EXCEPT ![l] = "pick"]
        \/ update_status(l, "agent_run") /\ lpc' = [lpc EXCEPT ![l] = "acquire"]
    BY <1>3 DEF Gate
  <2> QED
    BY <2>1, <2>2, <2>3
<1>4. CASE Fatal(l)
  <2>1. "sandbox_dead" \in Ended \ {"done"}
    BY DEF Ended
  <2>2. row' = [row EXCEPT ![cur[l]] = "sandbox_dead"] /\ lpc' = [lpc EXCEPT ![l] = "pick"]
    BY <1>4 DEF Fatal, after_fatal, update_status
  <2> QED
    BY <1>2, <2>1, <2>2
<1> QED
  BY <1>3, <1>4

LEMMA AcquiringLane ==
    ASSUME LaneInv, NEW l \in Lanes, Acquire(l) \/ AcquireFails(l)
    PROVE  LaneInv'
<1>1. /\ lpc[l] = "acquire" /\ UNCHANGED <<row, todo, cur, abandoned>>
      /\ agents' \subseteq agents \cup {cur[l]}
  BY DEF Acquire, AcquireFails
<1>2. cur[l] \in LaneRuns /\ row[cur[l]] = "agent_run" /\ final[l] = "ok" /\ lpc[l] \in AtWork
  BY <1>1 DEF LaneInv, Busy, AtWork
<1>3. row' = [row EXCEPT ![cur[l]] = "agent_run"]
  BY <1>1, <1>2 DEF LaneInv, LaneTypes
<1>4. LaneTypes'
  BY <1>2, LaneAssumption
     DEF Acquire, AcquireFails, due, LaneFault, LaneInv, LaneTypes, LanePlace, AtWork, Ended
<1>5. CASE Acquire(l)
  <2>1. lpc' = [lpc EXCEPT ![l] = "stream"] /\ final' = [final EXCEPT ![l] = "ok"]
    BY <1>2, <1>5 DEF Acquire, LaneInv, LaneTypes
  <2> QED
    BY <1>1, <1>2, <1>3, <1>4, <2>1, LaneGoesOn
<1>6. CASE AcquireFails(l)
  <2>1. lpc' = [lpc EXCEPT ![l] = "store"] /\ final' = [final EXCEPT ![l] = "sandbox_dead"]
    BY <1>6 DEF AcquireFails
  <2> QED
    BY <1>1, <1>2, <1>3, <1>4, <2>1, LaneGoesOn
<1> QED
  BY <1>5, <1>6

\* A run is found done only at the end of its agent's stream.
LEMMA StreamedLane ==
    ASSUME LaneInv, NEW l \in Lanes, NEW found, StreamEnds(l, found),
           found \in {"ok", "timeout", "budget_exceeded", "raised"}
    PROVE  LaneInv'
<1>1. /\ lpc[l] = "stream" /\ lpc' = [lpc EXCEPT ![l] = "store"] /\ LoopEnds(l, found)
      /\ UNCHANGED <<row, todo, cur, agents, abandoned>>
  BY DEF StreamEnds
<1>2. PICK t \in Verdict(l, found) : final' = [final EXCEPT ![l] = t]
  BY DEF StreamEnds
<1>3. cur[l] \in LaneRuns /\ row[cur[l]] = "agent_run" /\ lpc[l] \in AtWork
  BY <1>1 DEF LaneInv, Busy, AtWork
<1>4. row' = [row EXCEPT ![cur[l]] = "agent_run"]
  BY <1>1, <1>3 DEF LaneInv, LaneTypes
<1>5. box[l] \in {"ok", "timeout"}
  BY DEF LaneInv, LaneTypes
<1>6. t \in Ended /\ (t = "done" => cur[l] \notin agents)
  BY <1>1, <1>5 DEF Verdict, Reported, streamed, LoopEnds, Ended
<1>7. LaneTypes'
  <2>1. lfaults' \in 0..MaxLaneFaults
    BY LaneAssumption DEF StreamEnds, LoopEnds, LaneInv, LaneTypes
  <2>2. /\ lease' \in [Lanes -> LaneRuns \cup {Nobody}] /\ late' \subseteq Lanes
        /\ watchdog' \in [Lanes -> {"off", "armed", "killing"}]
        /\ box' \in [Lanes -> {"ok", "timeout"}] /\ leases' = leases
    BY DEF StreamEnds, LaneInv, LaneTypes
  <2> QED
    BY <1>1, <1>2, <1>6, <2>1, <2>2 DEF LaneInv, LaneTypes, LanePlace, AtWork
<1> QED
  BY <1>1, <1>2, <1>3, <1>4, <1>6, <1>7, LaneGoesOn DEF Ended

LEMMA StoringLane ==
    ASSUME LaneInv, NEW l \in Lanes, StoreResult(l)
    PROVE  LaneInv'
<1>1. /\ lpc[l] = "store" /\ lpc' = [lpc EXCEPT ![l] = "pick"] /\ final' = [final EXCEPT ![l] = "ok"]
      /\ UNCHANGED <<todo, cur, agents, abandoned>>
  BY DEF StoreResult
<1>2. PICK s \in {final[l], "skill_clone_attempt"} : row' = [row EXCEPT ![cur[l]] = s]
  BY DEF StoreResult, update_status
<1>3. s \in Ended /\ (s = "done" => cur[l] \notin agents) /\ lpc[l] \in AtWork
  BY <1>1 DEF LaneInv, LaneTypes, Ended, AtWork
<1>4. LaneTypes'
  BY <1>1, <1>2, <1>3 DEF StoreResult, LaneInv, LaneTypes, LanePlace
<1> QED
  BY <1>1, <1>2, <1>3, <1>4, LaneGoesOn DEF Ended

LEMMA LaneStep == LaneInv /\ [LaneNext]_laneVars => LaneInv'
<1> SUFFICES ASSUME LaneInv, [LaneNext]_laneVars PROVE LaneInv'
  OBVIOUS
<1>1. CASE LaneNext
  <2>1. ASSUME NEW l \in Lanes, ProcessStep(l) PROVE LaneInv'
    BY <2>1, DrainingLane, GatedLane, AcquiringLane, StreamedLane, StoringLane DEF ProcessStep
  <2>2. ASSUME NEW l \in Lanes, Dies(l) PROVE LaneInv'
    BY <2>2, DyingLane
  <2>3. ASSUME NEW l \in Lanes, NEW found \in {"timeout", "budget_exceeded", "raised"},
               StreamEnds(l, found)
        PROVE  LaneInv'
    BY <2>3, StreamedLane
  <2> QED
    BY <1>1, <2>1, <2>2, <2>3, OutsideLanes DEF LaneNext
<1>2. CASE UNCHANGED laneVars
  BY <1>2 DEF laneVars, lanes, LaneInv, LaneTypes, Busy, Pending, WorkedOn, DoneMeansAgentGone
<1> QED
  BY <1>1, <1>2

LEMMA LaneInvariance == LaneSpec => []LaneInv
  BY InitLanes, LaneStep, PTL DEF LaneSpec

\* A run that is neither pending nor final and that no process works on was
\* left by a process that died: none is stranded by an exception of the gate,
\* a container that is not healthy, a busy pool or a result that is no report.
THEOREM NobodyElseStrands == LaneSpec => []StrandedOnlyByCrash
<1>1. LaneInv => StrandedOnlyByCrash
  BY DEF LaneInv, WorkedOn, AtWork, StrandedOnlyByCrash
<1> QED
  BY LaneInvariance, <1>1, PTL

\* A run is DONE only when its agent has left the container: not after a budget
\* found between two chunks, nor while the watchdog's kill is on its way.
THEOREM DoneAgentsAreGone == LaneSpec => []DoneMeansAgentGone
<1>1. LaneInv => DoneMeansAgentGone
  BY DEF LaneInv
<1> QED
  BY LaneInvariance, <1>1, PTL

-----------------------------------------------------------------------------
(* Discovery: proofs *)

LEMMA NoPassType ==
    /\ NoCursor \in Cursor /\ NoCursor.known = {}
    /\ NoPass \in Pass /\ NoPass.pc = "idle" /\ NoPass.new = {} /\ NoPass.mem = NoCursor
<1>1. NoCursor \in Cursor /\ NoCursor.known = {}
  BY DiscoverAssumption DEF NoCursor, Cursor
<1> QED
  BY <1>1 DEF NoPass, Pass

LEMMA InitDiscover == DiscoverInit => DiscoverInv
<1> SUFFICES ASSUME DiscoverInit PROVE DiscoverInv
  OBVIOUS
<1>2. modified \in [HubModels -> 0..MaxTime] /\ clock \in FromDate..MaxTime
  BY DiscoverAssumption DEF DiscoverInit
<1>3. DiscoverTypes
  BY <1>2, NoPassType DEF DiscoverInit, DiscoverTypes
<1>4. cursor.known = {} /\ \A p \in Passes : pass[p].pc = "idle"
  BY NoPassType DEF DiscoverInit
<1> QED
  BY <1>3, <1>4 DEF DiscoverInv

\* What a pass knows when it has read, and what it owes a row.
Settled(q) ==
    /\ q.pc \in {"read", "end", "append"} => q.mem.known \subseteq Accounted \cup q.new
    /\ q.pc = "save" => q.mem.known \subseteq Accounted
    /\ q.pc = "read" /\ q.mode = "curated" => q.new = {}

\* A step of pass p under which nothing that is accounted for is forgotten.
LEMMA PassMoves ==
    ASSUME DiscoverInv, NEW p \in Passes, pass' = [pass EXCEPT ![p] = pass'[p]],
           pass'[p] \in Pass, pass'[p].new \subseteq pass'[p].mem.known, Settled(pass[p])',
           UNCHANGED <<clock, modified>>, rows' \subseteq HubModels, torn' \in BOOLEAN,
           cursor' \in Cursor, cursor'.known \subseteq Accounted',
           \A m \in Accounted : m \in Accounted' \/ \A r \in Passes \ {p} :
              pass[r].pc = "idle" \/ m \notin pass[r].mem.known
    PROVE  DiscoverInv'
<1>1. /\ pass' \in [Passes -> Pass]
      /\ \A r \in Passes \ {p} : pass'[r] = pass[r]
  BY DEF DiscoverInv, DiscoverTypes
<1>2. DiscoverTypes'
  BY <1>1 DEF DiscoverInv, DiscoverTypes
<1>3. ASSUME NEW r \in Passes PROVE Settled(pass[r])'
  <2>1. CASE r = p
    BY <2>1
  <2>2. CASE r # p
    <3>1. pass'[r] = pass[r] /\ Settled(pass[r])
      BY <1>1, <2>2 DEF DiscoverInv, Settled
    <3> QED
      BY <2>2, <3>1 DEF Settled
  <2> QED
    BY <2>1, <2>2
<1> QED
  BY <1>2, <1>3 DEF DiscoverInv, Settled

\* The same, for a step that only moves the pass or takes it forward.
LEMMA PassScans ==
    ASSUME DiscoverInv, NEW p \in Passes, NEW q \in Pass, pass' = [pass EXCEPT ![p] = q],
           UNCHANGED <<clock, modified, files, excuses>>,
           q.new \subseteq q.mem.known,
           \/ q.pc \notin {"read", "end", "append", "save"}
           \/ /\ q.pc # "save" /\ q.mem.known \subseteq Accounted \cup q.new
              /\ q.pc = "read" /\ q.mode = "curated" => q.new = {}
    PROVE  DiscoverInv'
<1>1. pass'[p] = q /\ UNCHANGED <<rows, torn, cursor, swallowed, purged>>
  BY DEF DiscoverInv, DiscoverTypes, files, excuses
<1>2. Accounted' = Accounted
  BY <1>1 DEF Accounted
<1>3. Settled(pass[p])'
  BY <1>1, <1>2 DEF Settled
<1>4. rows' \subseteq HubModels /\ torn' \in BOOLEAN /\ cursor' \in Cursor
  BY <1>1 DEF DiscoverInv, DiscoverTypes
<1>5. cursor'.known \subseteq Accounted'
  BY <1>1, <1>2 DEF DiscoverInv
<1> QED
  BY <1>1, <1>2, <1>3, <1>4, <1>5, PassMoves

LEMMA HubDiscover ==
    ASSUME DiscoverInv, Tick \/ \E m \in HubModels : Publish(m) \/ Update(m)
    PROVE  DiscoverInv'
<1>1. UNCHANGED <<rows, torn, cursor, swallowed, purged>>
  BY DEF Tick, Publish, Update, Touched, files, excuses
<1>2. CASE Tick
  <2>1. clock' \in FromDate..MaxTime /\ UNCHANGED <<modified, pass>>
    BY <1>2, DiscoverAssumption DEF Tick, DiscoverInv, DiscoverTypes
  <2> QED
    BY <1>1, <2>1 DEF DiscoverInv, DiscoverTypes, Accounted
<1>3. CASE \E m \in HubModels : Publish(m) \/ Update(m)
  <2>1. PICK m \in HubModels : Touched(m)
    BY <1>3 DEF Publish, Update
  <2>2. modified' \in [HubModels -> 0..MaxTime] /\ clock' = clock
    BY <2>1, DiscoverAssumption DEF Touched, DiscoverInv, DiscoverTypes
  <2>3. ASSUME NEW p \in Passes
        PROVE  /\ pass'[p] \in Pass /\ pass'[p].pc = pass[p].pc
               /\ pass'[p].mem = pass[p].mem /\ pass'[p].new = pass[p].new
               /\ pass'[p].mode = pass[p].mode
    <3>1. pass[p] \in Pass
      BY DEF DiscoverInv, DiscoverTypes
    <3>2. pass'[p] = pass[p] \/ pass'[p] = [pass[p] EXCEPT !.missed = @ \cup {m}]
      BY <2>1 DEF Touched
    <3> QED
      BY <3>1, <3>2 DEF Pass
  <2>4. pass' \in [Passes -> Pass]
    <3>1. pass' = [p \in Passes |-> pass'[p]]
      BY <2>1 DEF Touched
    <3> QED
      BY <2>3, <3>1
  <2>5. DiscoverTypes'
    BY <1>1, <2>2, <2>3, <2>4 DEF DiscoverInv, DiscoverTypes
  <2> QED
    BY <1>1, <2>3, <2>5 DEF DiscoverInv, Accounted
<1> QED
  BY <1>2, <1>3

\* --reset: what loses its row is accounted for as purged; when the cursor goes
\* as well, only what another pass still knows has to be.
LEMMA PurgeDiscover ==
    ASSUME DiscoverInv, NEW p \in Passes, PurgeCandidates(p) \/ PurgeCursor(p)
    PROVE  DiscoverInv'
<1>1. pass[p] \in Pass /\ pass[p].new \subseteq pass[p].mem.known /\ cursor \in Cursor
      /\ p \in DOMAIN pass
  BY DEF DiscoverInv, DiscoverTypes
<1>2. CASE PurgeCandidates(p)
  <2>1. /\ pass' = [pass EXCEPT ![p].pc = "purge"] /\ Accounted' = Accounted
        /\ rows' = {} /\ torn' = FALSE /\ UNCHANGED <<clock, modified, cursor>>
    BY <1>2 DEF PurgeCandidates, Accounted
  <2>2. /\ pass' = [pass EXCEPT ![p] = pass'[p]]
        /\ pass'[p] = [pass[p] EXCEPT !.pc = "purge"]
    BY <1>1, <2>1
  <2>3. /\ pass'[p] \in Pass /\ pass'[p].pc = "purge"
        /\ pass'[p].new \subseteq pass'[p].mem.known
    BY <1>1, <2>2 DEF Pass
  <2>4. Settled(pass[p])'
    BY <2>3 DEF Settled
  <2>5. cursor'.known \subseteq Accounted'
    BY <2>1 DEF DiscoverInv
  <2> QED
    BY <1>1, <2>1, <2>2, <2>3, <2>4, <2>5, PassMoves
<1>3. CASE PurgeCursor(p)
  <2>1. /\ pass' = [pass EXCEPT ![p] = [NoPass EXCEPT !.pc = "load"]] /\ cursor' = NoCursor
        /\ UNCHANGED <<clock, modified, rows, torn, swallowed>>
        /\ purged' = {m \in purged : \E r \in Passes \ {p} : Live(r) /\ m \in pass[r].mem.known}
    BY <1>3 DEF PurgeCursor
  <2>2. /\ pass' = [pass EXCEPT ![p] = pass'[p]]
        /\ pass'[p] = [NoPass EXCEPT !.pc = "load"]
    BY <1>1, <2>1
  <2>3. /\ pass'[p] \in Pass /\ pass'[p].pc = "load"
        /\ pass'[p].new \subseteq pass'[p].mem.known
    BY <2>2, NoPassType DEF Pass
  <2>4. Settled(pass[p])' /\ cursor'.known = {} /\ cursor' \in Cursor
    BY <2>1, <2>3, NoPassType DEF Settled
  <2>5. \A m \in Accounted : m \in Accounted' \/ \A r \in Passes \ {p} :
           pass[r].pc = "idle" \/ m \notin pass[r].mem.known
    BY <2>1 DEF Accounted, Live
  <2>6. rows' \subseteq HubModels /\ torn' \in BOOLEAN
    BY <2>1 DEF DiscoverInv, DiscoverTypes
  <2> QED
    BY <2>1, <2>2, <2>3, <2>4, <2>5, <2>6, PassMoves
<1> QED
  BY <1>2, <1>3

\* The scan: what it adds to the cursor in memory it also adds to the new ones.
LEMMA ScanDiscover ==
    ASSUME DiscoverInv, NEW p \in Passes,
           Load(p) \/ ScanCurated(p) \/ ReadModel(p) \/ ReadEnds(p) \/ EndScan(p)
    PROVE  DiscoverInv'
<1> DEFINE q == pass[p]
<1>1. /\ q \in Pass /\ q.new \subseteq q.mem.known /\ cursor \in Cursor /\ p \in DOMAIN pass
      /\ q.pc \in {"read", "end"} => q.mem.known \subseteq Accounted \cup q.new
      /\ q.mem \in Cursor
  BY DEF DiscoverInv, DiscoverTypes, Pass
<1>2. UNCHANGED <<clock, modified, files, excuses>>
  BY DEF Load, ScanCurated, ReadModel, ReadEnds, EndScan
<1>3. CASE Load(p)
  <2>1. PICK mode \in ModesOf[p] :
           pass' = [pass EXCEPT ![p] = [NoPass EXCEPT
               !.pc = "read", !.mem = cursor,
               !.mode = IF mode # "auto" THEN mode
                          ELSE IF cursor.complete THEN "incremental" ELSE "backfill"]]
    BY <1>3 DEF Load
  <2>2. mode \in {"curated", "backfill", "incremental", "auto"}
    BY DiscoverAssumption
  <2> DEFINE m == IF mode # "auto" THEN mode
                    ELSE IF cursor.complete THEN "incremental" ELSE "backfill"
             n == [NoPass EXCEPT !.pc = "read", !.mem = cursor, !.mode = m]
  <2>3. pass' = [pass EXCEPT ![p] = n]
    BY <2>1
  <2>4. m \in {"curated", "backfill", "incremental", "auto"}
    BY <2>2
  <2> HIDE DEF m
  <2>5. n \in Pass /\ n.pc = "read" /\ n.mem = cursor /\ n.new = {}
    BY <1>1, <2>4, NoPassType DEF Pass
  <2>6. n.mem.known \subseteq Accounted \cup n.new
    BY <2>5 DEF DiscoverInv
  <2> HIDE DEF n
  <2> QED
    BY <1>2, <2>3, <2>5, <2>6, PassScans
<1>4. CASE ScanCurated(p)
  <2>1. PICK new \in SUBSET (HubModels \ OffModality) :
           pass' = [pass EXCEPT ![p].new = new, ![p].mem.known = @ \cup new,
                                ![p].cut = TRUE, ![p].pc = "end"]
    BY <1>4, DiscoverAssumption DEF ScanCurated, Hub
  <2> DEFINE n == [q EXCEPT !.new = new, !.mem.known = @ \cup new, !.cut = TRUE, !.pc = "end"]
  <2>2. pass' = [pass EXCEPT ![p] = n]
    BY <1>1, <2>1
  <2>3. n \in Pass /\ n.pc = "end" /\ n.mem.known = q.mem.known \cup new /\ n.new = new
    BY <1>1 DEF Pass, Cursor
  <2>4. q.mem.known \subseteq Accounted
    BY <1>4 DEF ScanCurated, DiscoverInv
  <2> HIDE DEF n
  <2> QED
    BY <1>1, <1>2, <2>2, <2>3, <2>4, PassScans
<1>5. CASE ReadModel(p)
  <2>1. PICK m \in HubModels :
           \/ \E f \in BOOLEAN :
                 pass' = [pass EXCEPT ![p].got = @ \cup {m}, ![p].pc = "end", ![p].finished = f]
           \/ LET new == {m} \ (Unwanted \cup pass[p].mem.known) IN
                 pass' = [pass EXCEPT ![p].got = @ \cup {m}, ![p].new = @ \cup new,
                                      ![p].mem.known = @ \cup new]
    BY <1>5 DEF ReadModel, NextOnes, Following, Hub
  <2>2. q.pc = "read" /\ q.mode # "curated"
    BY <1>5 DEF ReadModel, Paging
  <2>3. ASSUME NEW f \in BOOLEAN,
               pass' = [pass EXCEPT ![p].got = @ \cup {m}, ![p].pc = "end", ![p].finished = f]
        PROVE  DiscoverInv'
    <3> DEFINE n == [q EXCEPT !.got = @ \cup {m}, !.pc = "end", !.finished = f]
    <3>1. pass' = [pass EXCEPT ![p] = n]
      BY <1>1, <2>3
    <3>2. n \in Pass /\ n.pc = "end" /\ n.mem = q.mem /\ n.new = q.new
      BY <1>1, <2>3 DEF Pass
    <3> HIDE DEF n
    <3> QED
      BY <1>1, <1>2, <2>2, <3>1, <3>2, PassScans
  <2>4. ASSUME NEW new, new = {m} \ (Unwanted \cup pass[p].mem.known),
               pass' = [pass EXCEPT ![p].got = @ \cup {m}, ![p].new = @ \cup new,
                                    ![p].mem.known = @ \cup new]
        PROVE  DiscoverInv'
    <3> DEFINE n == [q EXCEPT !.got = @ \cup {m}, !.new = @ \cup new, !.mem.known = @ \cup new]
    <3>1. pass' = [pass EXCEPT ![p] = n]
      BY <1>1, <2>4
    <3>2. /\ n \in Pass /\ n.pc = "read" /\ n.mode = q.mode
          /\ n.mem.known = q.mem.known \cup new /\ n.new = q.new \cup new
      BY <1>1, <2>2, <2>4 DEF Pass, Cursor, Unwanted
    <3> HIDE DEF n
    <3> QED
      BY <1>1, <1>2, <2>2, <3>1, <3>2, PassScans
  <2> QED
    BY <2>1, <2>3, <2>4
<1>6. CASE ReadEnds(p)
  <2>1. PICK cut \in BOOLEAN, f \in BOOLEAN :
           pass' = [pass EXCEPT ![p].pc = "end", ![p].cut = cut, ![p].finished = f]
    BY <1>6 DEF ReadEnds
  <2> DEFINE n == [q EXCEPT !.pc = "end", !.cut = cut, !.finished = f]
  <2>2. pass' = [pass EXCEPT ![p] = n]
    BY <1>1, <2>1
  <2>3. n \in Pass /\ n.pc = "end" /\ n.mem = q.mem /\ n.new = q.new
    BY <1>1 DEF Pass
  <2>4. q.pc = "read"
    BY <1>6 DEF ReadEnds, Paging
  <2> HIDE DEF n
  <2> QED
    BY <1>1, <1>2, <2>2, <2>3, <2>4, PassScans
<1>7. CASE EndScan(p)
  <2>1. PICK left \in SUBSET HubModels, c \in BOOLEAN :
           pass' = [pass EXCEPT ![p].pc = "append", ![p].mem.last = clock, ![p].missed = left,
                                ![p].mem.complete = c]
    <3>1. /\ q.missed \subseteq HubModels /\ q.mem.complete \in BOOLEAN
          /\ q.finished \in BOOLEAN
      BY <1>1 DEF Pass, Cursor
    <3> QED
      BY <1>7, <3>1 DEF EndScan, writes_first, Hub
  <2> DEFINE n == [q EXCEPT !.pc = "append", !.mem.last = clock, !.missed = left,
                            !.mem.complete = c]
  <2>2. pass' = [pass EXCEPT ![p] = n]
    BY <1>1, <2>1
  <2>3. clock \in 0..MaxTime
    BY DiscoverAssumption DEF DiscoverInv, DiscoverTypes
  <2>4. n \in Pass /\ n.pc = "append" /\ n.mem.known = q.mem.known /\ n.new = q.new
    BY <1>1, <2>3 DEF Pass, Cursor
  <2>5. q.pc = "end"
    BY <1>7 DEF EndScan
  <2> HIDE DEF n
  <2> QED
    BY <1>1, <1>2, <2>2, <2>4, <2>5, PassScans
<1> QED
  BY <1>3, <1>4, <1>5, <1>6, <1>7

\* Whatever is written has a row or is known to be swallowed by a torn line.
LEMMA WrittenRows ==
    ASSUME NEW ids, Written(ids), purged' = purged
    PROVE  Accounted \cup ids \subseteq Accounted' /\ rows' \subseteq rows \cup ids
  BY DEF Written, Accounted

LEMMA EndDiscover ==
    ASSUME DiscoverInv, NEW p \in Passes, AppendRows(p) \/ Save(p) \/ Crash(p)
    PROVE  DiscoverInv'
<1> DEFINE q == pass[p]
<1>1. /\ q \in Pass /\ q.new \subseteq q.mem.known /\ p \in DOMAIN pass
      /\ q.mem \in Cursor /\ q.new \subseteq HubModels
      /\ rows \subseteq HubModels /\ torn \in BOOLEAN /\ cursor \in Cursor
      /\ cursor.known \subseteq Accounted
  BY DEF DiscoverInv, DiscoverTypes, Pass
<1>2. UNCHANGED <<clock, modified, purged>>
  BY DEF AppendRows, Save, Crash
<1>3. CASE AppendRows(p)
  <2> DEFINE n == [q EXCEPT !.pc = "save"]
  <2>1. /\ q.pc = "append" /\ Written(q.new) /\ cursor' = cursor
        /\ pass' = [pass EXCEPT ![p] = n] /\ torn' \in BOOLEAN
    BY <1>1, <1>3 DEF AppendRows, AfterWrite, writes_first
  <2>2. /\ pass'[p] = n /\ pass' = [pass EXCEPT ![p] = pass'[p]]
        /\ n \in Pass /\ n.pc = "save" /\ n.mem = q.mem /\ n.new = q.new
    BY <1>1, <2>1 DEF Pass
  <2> HIDE DEF n
  <2>3. Accounted \cup q.new \subseteq Accounted' /\ rows' \subseteq HubModels
    BY <1>1, <1>2, <2>1, WrittenRows
  <2>4. q.mem.known \subseteq Accounted \cup q.new
    BY <2>1 DEF DiscoverInv
  <2>5. Settled(pass[p])'
    BY <2>2, <2>3, <2>4 DEF Settled
  <2> QED
    BY <1>1, <1>2, <2>1, <2>2, <2>3, <2>5, PassMoves
<1>4. CASE Save(p)
  <2>1. /\ q.pc = "save" /\ cursor' = q.mem /\ pass' = [pass EXCEPT ![p] = NoPass]
        /\ UNCHANGED <<rows, torn, swallowed>>
    BY <1>4 DEF Save, AfterWrite, writes_first
  <2>2. /\ pass'[p] = NoPass /\ pass' = [pass EXCEPT ![p] = pass'[p]] /\ Accounted' = Accounted
    BY <1>1, <1>2, <2>1 DEF Accounted
  <2>3. q.mem.known \subseteq Accounted
    BY <2>1 DEF DiscoverInv
  <2>4. Settled(pass[p])' /\ pass'[p] \in Pass /\ pass'[p].new \subseteq pass'[p].mem.known
    BY <2>2, NoPassType DEF Settled
  <2> QED
    BY <1>1, <1>2, <2>1, <2>2, <2>3, <2>4, PassMoves
<1>5. CASE Crash(p)
  <2>1. /\ pass' = [pass EXCEPT ![p] = NoPass] /\ cursor' = cursor
        /\ \/ UNCHANGED <<rows, torn, swallowed>>
           \/ \E some \in SUBSET q.new : Written(some) /\ torn' \in BOOLEAN
    BY <1>1, <1>5 DEF Crash
  <2>2. /\ pass'[p] = NoPass /\ pass' = [pass EXCEPT ![p] = pass'[p]]
    BY <1>1, <2>1
  <2>3. Accounted \subseteq Accounted' /\ rows' \subseteq HubModels /\ torn' \in BOOLEAN
    <3>1. CASE UNCHANGED <<rows, torn, swallowed>>
      BY <1>1, <1>2, <3>1 DEF Accounted
    <3>2. CASE \E some \in SUBSET q.new : Written(some) /\ torn' \in BOOLEAN
      BY <1>1, <1>2, <3>2, WrittenRows
    <3> QED
      BY <2>1, <3>1, <3>2
  <2>4. Settled(pass[p])' /\ pass'[p] \in Pass /\ pass'[p].new \subseteq pass'[p].mem.known
    BY <2>2, NoPassType DEF Settled
  <2> QED
    BY <1>1, <1>2, <2>1, <2>2, <2>3, <2>4, PassMoves
<1> QED
  BY <1>3, <1>4, <1>5

LEMMA DiscoverStep == DiscoverInv /\ [DiscoverNext]_discoverVars => DiscoverInv'
<1> SUFFICES ASSUME DiscoverInv, [DiscoverNext]_discoverVars PROVE DiscoverInv'
  OBVIOUS
<1>1. CASE DiscoverNext
  BY <1>1, HubDiscover, PurgeDiscover, ScanDiscover, EndDiscover DEF DiscoverNext
<1>2. CASE UNCHANGED discoverVars
  BY <1>2 DEF discoverVars, DiscoverInv, DiscoverTypes, Accounted
<1> QED
  BY <1>1, <1>2

\* A model that cursor.json marks as seen has a row in candidates.jsonl, however
\* the daemon and passes by hand overlap and wherever they die: only a torn line
\* or a --reset beside another pass costs a row.
THEOREM SeenModelsHaveRows == DiscoverSpec => []SeenHasRow
<1>1. DiscoverInv => SeenHasRow
  BY DEF DiscoverInv, Accounted, SeenHasRow
<1> QED
  BY InitDiscover, DiscoverStep, <1>1, PTL DEF DiscoverSpec

\* --reset is for passes beside which only curated ones run, as the daemon does.
ResetsBesideCurated ==
    \A r \in Resetters : \A p \in Passes \ {r} : ModesOf[p] \subseteq {"curated"}

LEMMA InitMiss == DiscoverInit => MissInv
<1> SUFFICES ASSUME DiscoverInit PROVE MissInv
  OBVIOUS
<1>1. clock \in Nat /\ cursor = NoCursor /\ \A p \in Passes : pass[p] = NoPass
  BY DiscoverAssumption DEF DiscoverInit
<1>2. cursor.last <= clock /\ ~cursor.complete /\ NoPass.mem.last <= clock
  BY <1>1 DEF NoCursor, NoPass
<1>3. NoPass.pc = "idle" /\ NoPass.mode = "auto"
  BY DEF NoPass
<1>4. \A p \in Passes : Watched(p, NoPass)
  BY <1>2, <1>3 DEF Watched, Scanning
<1>5. \A m \in HubModels : modified[m] <= clock
  BY DiscoverAssumption DEF DiscoverInit
<1> QED
  BY <1>1, <1>2, <1>4, <1>5 DEF MissInv

\* A pass that is not reading or writing has nothing to watch.
LEMMA RestingPass ==
    ASSUME NEW p \in Passes, NEW s, s.pc \notin Scanning, s.mem.last <= clock,
           s.pc = "purge" => p \in Resetters
    PROVE  Watched(p, s)
  BY DEF Watched, Scanning

\* A step of pass p under which no excuse is forgotten.
LEMMA ExcusesGrow ==
    ASSUME DiscoverInv, MissInv, NEW p \in Passes, pass' = [pass EXCEPT ![p] = pass'[p]],
           UNCHANGED <<clock, modified>>, Excused \subseteq Excused', Watched(p, pass[p])',
           cursor' # cursor =>
              cursor'.last <= clock /\ (cursor'.complete => Behind(cursor') \subseteq Excused')
    PROVE  MissInv'
<1>1. Wanted' = Wanted /\ Hub' = Hub
  BY DEF Wanted, Hub
<1>2. cursor'.last <= clock' /\ (cursor'.complete => Behind(cursor)' \subseteq Excused')
  BY <1>1 DEF MissInv, Behind
<1>3. ASSUME NEW r \in Passes PROVE Watched(r, pass[r])'
  <2>1. CASE r = p
    BY <2>1
  <2>2. CASE r # p
    <3>1. pass'[r] = pass[r] /\ Watched(r, pass[r])
      BY <2>2 DEF MissInv, DiscoverInv, DiscoverTypes
    <3> DEFINE s == pass[r]
    <3>2. /\ Unnoticed(s)' = Unnoticed(s) /\ Behind(s.mem)' = Behind(s.mem)
          /\ Cutoff(s)' = Cutoff(s) /\ ReadInOrder(s)' = ReadInOrder(s)
      BY <1>1, <3>1 DEF Unnoticed, Behind, Cutoff, ReadInOrder
    <3> QED
      BY <3>1, <3>2 DEF Watched
  <2> QED
    BY <2>1, <2>2
<1> QED
  BY <1>2, <1>3 DEF MissInv

\* The hub's clock, and a model published or updated while some passes read: it
\* is not behind any cursor, and a pass that reads may miss it.
LEMMA HubMiss ==
    ASSUME DiscoverInv, MissInv, Tick \/ \E m \in HubModels : Publish(m) \/ Update(m)
    PROVE  MissInv'
<1>1. UNCHANGED <<rows, cursor, swallowed, purged>>
  BY DEF Tick, Publish, Update, Touched, files, excuses
<1>2. Accounted' = Accounted
  BY <1>1 DEF Accounted
<1>3. /\ clock \in Nat /\ modified \in [HubModels -> Nat] /\ cursor.last \in Nat
      /\ \A p \in Passes : pass[p] \in Pass /\ pass[p].mem.last \in Nat
  BY DiscoverAssumption DEF DiscoverInv, DiscoverTypes, Pass, Cursor
<1>4. CASE Tick
  <2>1. clock' = clock + 1 /\ UNCHANGED <<modified, pass>>
    BY <1>4 DEF Tick
  <2>0. Excused' = Excused
    BY <1>2, <1>4 DEF Tick, Excused, excuses
  <2>2. Wanted' = Wanted /\ Hub' = Hub
    BY <2>1 DEF Wanted, Hub
  <2>3. ASSUME NEW p \in Passes PROVE Watched(p, pass[p])'
    <3> DEFINE s == pass[p]
    <3>1. Watched(p, s) /\ s' = s
      BY <2>1 DEF MissInv
    <3>3. s.mem.last <= clock'
      BY <1>3, <2>1, <3>1 DEF Watched
    <3>2. /\ Unnoticed(s)' = Unnoticed(s) /\ Behind(s.mem)' = Behind(s.mem)
          /\ Cutoff(s)' = Cutoff(s) /\ ReadInOrder(s)' = ReadInOrder(s)
      BY <2>1, <2>2 DEF Unnoticed, Behind, Cutoff, ReadInOrder
    <3> QED
      BY <2>0, <2>1, <3>1, <3>2, <3>3 DEF Watched
  <2>4. /\ cursor'.last <= clock' /\ Behind(cursor)' = Behind(cursor)
        /\ \A m \in HubModels : modified'[m] <= clock'
    BY <1>1, <1>3, <2>1, <2>2 DEF MissInv, Behind
  <2> QED
    BY <1>1, <2>0, <2>3, <2>4 DEF MissInv
<1>5. CASE \E m \in HubModels : Publish(m) \/ Update(m)
  <2>1. PICK m \in HubModels : Touched(m)
    BY <1>5 DEF Publish, Update
  <2>2. /\ modified' = [modified EXCEPT ![m] = clock] /\ clock' = clock
        /\ clock > 0 /\ modified'[m] = clock /\ modified[m] <= clock'
        /\ \A n \in HubModels \ {m} : modified'[n] = modified[n]
    BY <1>3, <2>1, DiscoverAssumption DEF Touched, DiscoverInv, DiscoverTypes, MissInv
  <2>3. Hub' = Hub \cup {m} /\ Wanted' \subseteq Wanted \cup {m} /\ Hub \subseteq HubModels
    BY <1>3, <2>2 DEF Hub, Wanted
  <2>4. ASSUME NEW c, c.last \in Nat, c.last <= clock
        PROVE  m \notin Behind(c)' /\ Behind(c)' \subseteq Behind(c)
    BY <1>3, <2>2, <2>3, <2>4 DEF Behind, Wanted
  <2>5. Excused \ {m} \subseteq Excused'
    BY <1>2, <2>1 DEF Touched, Excused
  <2>6. ASSUME NEW p \in Passes PROVE Watched(p, pass[p])'
    <3> DEFINE s == pass[p]
               t == [s EXCEPT !.missed = @ \cup {m}]
               owes == s.pc = "end" \/ (s.pc = "read" /\ s.got # {})
    <3>1. Watched(p, s) /\ s \in Pass /\ s.mem.last \in Nat
      BY <1>3 DEF MissInv
    <3>2. s' = IF owes THEN t ELSE s
      BY <2>1 DEF Touched
    <3>3. /\ s'.pc = s.pc /\ s'.mem = s.mem /\ s'.mode = s.mode /\ s'.got = s.got
          /\ s'.cut = s.cut /\ s'.finished = s.finished
          /\ s'.missed = IF owes THEN s.missed \cup {m} ELSE s.missed
      BY <3>1, <3>2 DEF Pass
    <3> HIDE DEF t
    <3>4. Unnoticed(s)' \subseteq Unnoticed(s) \cup {m} /\ (owes => m \notin Unnoticed(s)')
      BY <2>3, <3>3 DEF Unnoticed
    <3>5. m \notin Behind(s.mem)' /\ Behind(s.mem)' \subseteq Behind(s.mem)
      <4>1. s.mem.last <= clock /\ (s.mem)' = s.mem
        BY <3>1, <3>3 DEF Watched
      <4> QED
        BY <2>4, <3>1, <4>1 DEF Behind
    <3>6. Cutoff(s)' = Cutoff(s)
      BY <3>3 DEF Cutoff
    <3>7. s.pc = "read" /\ ReadInOrder(s) => ReadInOrder(s)'
      <4>1. CASE s.got = {}
        BY <3>3, <4>1 DEF ReadInOrder
      <4>2. CASE s.pc = "read" /\ s.got # {} /\ ReadInOrder(s)
        <5>1. s'.got \subseteq Hub' /\ (s'.got \cap Wanted \subseteq s'.mem.known)
          BY <2>3, <3>3, <4>2 DEF ReadInOrder
        <5>2. s'.got \cap Wanted' \subseteq s'.mem.known
          <6>1. m \in s.got => (m \in Wanted' => m \in Wanted)
            BY <2>3, <4>2 DEF ReadInOrder, Wanted
          <6> QED
            BY <2>3, <3>3, <5>1, <6>1
        <5>3. ASSUME NEW x \in Hub' \ (s'.got \cup s'.missed), NEW y \in s'.got
              PROVE  modified'[x] <= modified'[y]
          <6>1. /\ x # m /\ x \in Hub \ (s.got \cup s.missed) /\ modified'[x] = modified[x]
                /\ y \in s.got /\ y \in HubModels
            BY <2>2, <2>3, <3>3, <4>2, <5>3 DEF ReadInOrder
          <6>2. modified[x] <= modified[y] /\ modified[y] <= modified'[y]
            BY <1>3, <2>2, <4>2, <6>1 DEF ReadInOrder
          <6> QED
            BY <1>3, <2>2, <2>3, <6>1, <6>2
        <5> QED
          BY <5>1, <5>2, <5>3 DEF ReadInOrder
      <4> QED
        BY <4>1, <4>2
    <3>8. s.pc = "end" => \A n \in Unnoticed(s)' : n \in Unnoticed(s) /\ modified'[n] = modified[n]
      BY <2>2, <2>3, <3>4 DEF Unnoticed, Wanted
    <3>9. /\ Unnoticed(s)' \cap Behind(s.mem)' \subseteq Unnoticed(s) \cap Behind(s.mem)
          /\ (Unnoticed(s) \cap Behind(s.mem) \subseteq Excused
                => Unnoticed(s)' \cap Behind(s.mem)' \subseteq Excused')
      BY <2>5, <3>4, <3>5
    <3> QED
      BY <2>2, <3>1, <3>3, <3>6, <3>7, <3>8, <3>9 DEF Watched, Scanning
  <2>7. cursor'.last <= clock' /\ (cursor'.complete => Behind(cursor)' \subseteq Excused')
    <3>1. m \notin Behind(cursor)' /\ Behind(cursor)' \subseteq Behind(cursor)
      BY <1>1, <1>3, <2>4 DEF MissInv, Behind
    <3> QED
      BY <1>1, <2>2, <2>5, <3>1 DEF MissInv
  <2>8. \A n \in HubModels : modified'[n] <= clock'
    BY <1>3, <2>2 DEF MissInv
  <2> QED
    BY <2>6, <2>7, <2>8 DEF MissInv
<1> QED
  BY <1>4, <1>5

LEMMA PurgeMiss ==
    ASSUME ResetsBesideCurated, DiscoverInv, MissInv, NEW p \in Passes,
           PurgeCandidates(p) \/ PurgeCursor(p)
    PROVE  MissInv'
<1>1. /\ pass[p] \in Pass /\ p \in DOMAIN pass /\ Watched(p, pass[p])
      /\ clock \in Nat
  BY DiscoverAssumption DEF DiscoverInv, DiscoverTypes, MissInv
<1>2. CASE PurgeCandidates(p)
  <2>1. /\ pass' = [pass EXCEPT ![p].pc = "purge"] /\ p \in Resetters
        /\ Excused' = Excused /\ UNCHANGED <<clock, modified, cursor>>
    BY <1>2 DEF PurgeCandidates, Excused, Accounted
  <2>2. /\ pass' = [pass EXCEPT ![p] = pass'[p]]
        /\ pass'[p] = [pass[p] EXCEPT !.pc = "purge"]
    BY <1>1, <2>1
  <2>3. pass'[p].pc = "purge" /\ pass'[p].mem = pass[p].mem
    BY <1>1, <2>2 DEF Pass
  <2>4. Watched(p, pass[p])'
    BY <1>1, <2>1, <2>3 DEF Watched, Scanning
  <2> QED
    BY <2>1, <2>2, <2>4, ExcusesGrow
<1>3. CASE PurgeCursor(p)
  <2>1. /\ pass' = [pass EXCEPT ![p] = [NoPass EXCEPT !.pc = "load"]] /\ cursor' = NoCursor
        /\ UNCHANGED <<clock, modified>> /\ pass[p].pc = "purge"
    BY <1>3 DEF PurgeCursor
  <2>2. p \in Resetters
    BY <1>1, <2>1 DEF Watched
  <2>3. /\ cursor'.last <= clock' /\ ~cursor'.complete
        /\ \A m \in HubModels : modified'[m] <= clock'
    BY <1>1, <2>1 DEF NoCursor, MissInv
  <2>4. ASSUME NEW r \in Passes PROVE Watched(r, pass[r])'
    <3>1. CASE r = p
      <4>1. pass'[r] = [NoPass EXCEPT !.pc = "load"]
        BY <1>1, <2>1, <3>1
      <4>2. pass'[r].pc = "load" /\ pass'[r].mem = NoCursor
        BY <4>1, NoPassType DEF NoPass
      <4>3. pass'[r].mem.last <= clock'
        BY <1>1, <2>1, <4>2 DEF NoCursor
      <4> QED
        BY <4>2, <4>3 DEF Watched, Scanning
    <3>2. CASE r # p
      <4>1. /\ pass'[r] = pass[r] /\ Watched(r, pass[r]) /\ ModesOf[r] \subseteq {"curated"}
        BY <2>1, <2>2, <3>2 DEF ResetsBesideCurated, MissInv, DiscoverInv, DiscoverTypes
      <4>2. /\ Unnoticed(pass[r])' = Unnoticed(pass[r])
            /\ Behind(pass[r].mem)' = Behind(pass[r].mem)
        BY <2>1, <4>1 DEF Unnoticed, Behind, Wanted, Hub
      <4> QED
        BY <2>1, <4>1, <4>2 DEF Watched, Scanning
    <3> QED
      BY <3>1, <3>2
  <2> QED
    BY <2>3, <2>4 DEF MissInv
<1> QED
  BY <1>2, <1>3

\* A pass that goes on to n; what it owes is in Watched(p, n).
LEMMA ScansOn ==
    ASSUME DiscoverInv, MissInv, NEW p \in Passes, NEW n, pass' = [pass EXCEPT ![p] = n],
           UNCHANGED <<clock, modified, files, excuses>>, Watched(p, n)
    PROVE  MissInv'
<1>1. /\ pass'[p] = n /\ Excused' = Excused /\ cursor' = cursor
      /\ pass' = [pass EXCEPT ![p] = pass'[p]]
  BY DEF DiscoverInv, DiscoverTypes, files, excuses, Excused, Accounted
<1>2. Wanted' = Wanted /\ Hub' = Hub
  BY DEF Wanted, Hub
<1>3. /\ Unnoticed(pass[p])' = Unnoticed(n) /\ Behind(pass[p].mem)' = Behind(n.mem)
      /\ Cutoff(pass[p])' = Cutoff(n) /\ ReadInOrder(pass[p])' = ReadInOrder(n)
  BY <1>1, <1>2 DEF Unnoticed, Behind, Cutoff, ReadInOrder
<1>4. Watched(p, pass[p])'
  BY <1>1, <1>3 DEF Watched
<1> QED
  BY <1>1, <1>4, ExcusesGrow

LEMMA LoadMiss ==
    ASSUME DiscoverInv, MissInv, NEW p \in Passes, Load(p)
    PROVE  MissInv'
<1>1. PICK mode \in ModesOf[p] :
         pass' = [pass EXCEPT ![p] = [NoPass EXCEPT
             !.pc = "read", !.mem = cursor,
             !.mode = IF mode # "auto" THEN mode
                        ELSE IF cursor.complete THEN "incremental" ELSE "backfill"]]
  BY DEF Load
<1> DEFINE m == IF mode # "auto" THEN mode
                  ELSE IF cursor.complete THEN "incremental" ELSE "backfill"
           n == [NoPass EXCEPT !.pc = "read", !.mem = cursor, !.mode = m]
<1>2. pass' = [pass EXCEPT ![p] = n] /\ UNCHANGED <<clock, modified, files, excuses>>
  BY <1>1 DEF Load
<1>3. ASSUME ModesOf[p] \subseteq {"curated"} PROVE m = "curated"
  <2>1. mode = "curated"
    BY <1>3
  <2> QED
    BY <2>1
<1> HIDE DEF m
<1>4. /\ n.pc = "read" /\ n.mem = cursor /\ n.mode = m /\ n.got = {} /\ n.missed = {}
  BY DEF NoPass
<1>5. ReadInOrder(n)
  BY <1>4 DEF ReadInOrder
<1>6. cursor.last <= clock /\ (cursor.complete => Behind(n.mem) \subseteq Excused)
  BY <1>4 DEF MissInv
<1> HIDE DEF n
<1>7. Watched(p, n)
  BY <1>3, <1>4, <1>5, <1>6 DEF Watched
<1> QED
  BY <1>2, <1>7, ScansOn

LEMMA CuratedMiss ==
    ASSUME DiscoverInv, MissInv, NEW p \in Passes, ScanCurated(p)
    PROVE  MissInv'
<1> DEFINE q == pass[p]
<1>1. PICK new \in SUBSET (HubModels \ OffModality) :
         pass' = [pass EXCEPT ![p].new = new, ![p].mem.known = @ \cup new,
                              ![p].cut = TRUE, ![p].pc = "end"]
  BY DiscoverAssumption DEF ScanCurated, Hub
<1> DEFINE n == [q EXCEPT !.new = new, !.mem.known = @ \cup new, !.cut = TRUE, !.pc = "end"]
<1>2. q \in Pass /\ q.mem \in Cursor /\ p \in DOMAIN pass /\ Watched(p, q)
  BY DEF DiscoverInv, DiscoverTypes, Pass, MissInv
<1>3. pass' = [pass EXCEPT ![p] = n]
  BY <1>1, <1>2
<1>7. UNCHANGED <<clock, modified, files, excuses>>
  BY DEF ScanCurated
<1>4. n.pc = "end" /\ n.cut /\ n.mode = q.mode /\ n.mem.last = q.mem.last
  BY <1>2 DEF Pass, Cursor
<1>5. q.mode = "curated"
  BY DEF ScanCurated
<1> HIDE DEF n
<1>6. Watched(p, n)
  BY <1>2, <1>4, <1>5 DEF Watched, Scanning
<1> QED
  BY <1>3, <1>6, <1>7, ScansOn

\* What a paginator has not delivered, and has not moved since it began, follows.
LEMMA UnnoticedFollows ==
    ASSUME NEW p \in Passes, ReadInOrder(pass[p])
    PROVE  /\ Unnoticed(pass[p]) \subseteq Following(p)
           /\ Hub \ (pass[p].got \cup pass[p].missed) \subseteq Following(p)
  BY DEF ReadInOrder, Unnoticed, Following, Wanted

LEMMA ReadMiss ==
    ASSUME DiscoverInv, MissInv, NEW p \in Passes, ReadModel(p)
    PROVE  MissInv'
<1> DEFINE q == pass[p]
<1>1. /\ q \in Pass /\ q.mem \in Cursor /\ p \in DOMAIN pass /\ Watched(p, q)
      /\ modified \in [HubModels -> Nat] /\ FromDate \in Nat /\ q.mem.last \in Nat
  BY DiscoverAssumption DEF DiscoverInv, DiscoverTypes, Pass, Cursor, MissInv
<1>2. /\ q.pc = "read" /\ q.mode # "curated"
      /\ UNCHANGED <<clock, modified, files, excuses>>
  BY DEF ReadModel, Paging
<1>3. PICK m \in NextOnes(p) :
         IF too_old(p, m)
         THEN pass' = [pass EXCEPT ![p].got = @ \cup {m}, ![p].pc = "end",
                                   ![p].finished = pass[p].mode = "backfill"]
         ELSE LET new == {m} \ (Unwanted \cup pass[p].mem.known) IN
              pass' = [pass EXCEPT ![p].got = @ \cup {m}, ![p].new = @ \cup new,
                                   ![p].mem.known = @ \cup new]
  BY DEF ReadModel
<1>4. m \in Hub /\ \A x \in Following(p) : modified[x] <= modified[m]
  BY <1>3 DEF NextOnes, Following
<1>5. ReadInOrder(q)
  BY <1>1, <1>2 DEF Watched
<1>6. /\ \A x \in Unnoticed(q) : modified[x] <= modified[m]
      /\ \A x \in Hub \ (q.got \cup q.missed) : modified[x] <= modified[m]
  BY <1>4, <1>5, UnnoticedFollows
<1>7. CASE too_old(p, m)
  <2> DEFINE n == [q EXCEPT !.got = @ \cup {m}, !.pc = "end",
                            !.finished = q.mode = "backfill"]
  <2>1. pass' = [pass EXCEPT ![p] = n]
    BY <1>1, <1>3, <1>7
  <2>2. /\ n.pc = "end" /\ n.mem = q.mem /\ n.mode = q.mode /\ n.missed = q.missed
        /\ n.finished = (q.mode = "backfill")
    BY <1>1 DEF Pass
  <2> HIDE DEF n
  <2>3. Unnoticed(n) = Unnoticed(q) /\ Cutoff(n) = Cutoff(q)
    BY <2>2 DEF Unnoticed, Cutoff
  <2>4. modified[m] < Cutoff(q)
    BY <1>7 DEF too_old, Cutoff
  <2>5. \A x \in Unnoticed(q) : modified[x] < Cutoff(q)
    <3>1. Cutoff(q) \in Nat /\ Unnoticed(q) \subseteq HubModels /\ m \in HubModels
      BY <1>1, <1>4 DEF Cutoff, Unnoticed, Wanted, Hub
    <3> QED
      BY <1>1, <1>6, <2>4, <3>1
  <2>6. Watched(p, n)
    BY <1>1, <1>2, <2>2, <2>3, <2>5 DEF Watched, Scanning
  <2> QED
    BY <1>2, <2>1, <2>6, ScansOn
<1>8. CASE ~too_old(p, m)
  <2> DEFINE new == {m} \ (Unwanted \cup q.mem.known)
             n == [q EXCEPT !.got = @ \cup {m}, !.new = @ \cup new, !.mem.known = @ \cup new]
  <2>1. pass' = [pass EXCEPT ![p] = n]
    BY <1>1, <1>3, <1>8
  <2>2. /\ n.pc = "read" /\ n.mem.known = q.mem.known \cup new /\ n.mode = q.mode
        /\ n.mem.last = q.mem.last /\ n.mem.complete = q.mem.complete
        /\ n.missed = q.missed /\ n.got = q.got \cup {m}
    BY <1>1, <1>2 DEF Pass, Cursor
  <2> HIDE DEF n
  <2>3. Unnoticed(n) \subseteq Unnoticed(q) /\ Behind(n.mem) = Behind(q.mem)
    BY <2>2 DEF Unnoticed, Behind
  <2>4. ReadInOrder(n)
    <3>1. n.got \subseteq Hub /\ n.got \cap Wanted \subseteq n.mem.known
      BY <1>4, <1>5, <2>2 DEF ReadInOrder, Wanted
    <3>2. ASSUME NEW x \in Hub \ (n.got \cup n.missed), NEW y \in n.got
          PROVE  modified[x] <= modified[y]
      BY <1>5, <1>6, <2>2, <3>2 DEF ReadInOrder
    <3> QED
      BY <3>1, <3>2 DEF ReadInOrder
  <2>5. Watched(p, n)
    BY <1>1, <1>2, <2>2, <2>3, <2>4 DEF Watched, Scanning
  <2> QED
    BY <1>2, <2>1, <2>5, ScansOn
<1> QED
  BY <1>7, <1>8

\* Of the models that follow the paginator gives the latest, if there is one.
LEMMA NextIfAny ==
    ASSUME DiscoverInv, NEW p \in Passes, NextOnes(p) = {}
    PROVE  Following(p) = {}
<1> DEFINE T == {modified[m] : m \in Following(p)}
           D == {MaxTime - t : t \in T}
<1>1. MaxTime \in Nat /\ modified \in [HubModels -> 0..MaxTime]
  BY DiscoverAssumption DEF DiscoverInv, DiscoverTypes
<1>2. T \subseteq 0..MaxTime
  BY <1>1 DEF Following, Hub
<1>3. ASSUME Following(p) # {} PROVE FALSE
  <2>1. D \in SUBSET Nat /\ D # {}
    BY <1>1, <1>2, <1>3
  <2>2. PICK d \in D : \A e \in D : d <= e
    <3> HIDE DEF D
    <3>1. PICK d \in D : \A e \in D : ~(<<e, d>> \in OpToRel(<, Nat))
      BY <2>1, NatLessThanWellFounded, WFMin
    <3>2. ASSUME NEW e \in D PROVE d <= e
      <4>1. <<e, d>> \in Nat \X Nat /\ ~(e < d)
        BY <2>1, <3>1 DEF OpToRel
      <4> QED
        BY <4>1
    <3> QED
      BY <3>2
  <2>3. PICK m \in Following(p) : d = MaxTime - modified[m]
    BY <2>2
  <2>4. ASSUME NEW n \in Following(p) PROVE modified[n] <= modified[m]
    <3>1. d <= MaxTime - modified[n]
      BY <2>2, <2>4
    <3>2. modified[n] \in T /\ modified[m] \in T
      BY <2>3
    <3> QED
      BY <1>1, <1>2, <2>3, <3>1, <3>2
  <2> QED
    BY <2>3, <2>4 DEF NextOnes
<1> QED
  BY <1>3

LEMMA EndsMiss ==
    ASSUME DiscoverInv, MissInv, NEW p \in Passes, ReadEnds(p)
    PROVE  MissInv'
<1> DEFINE q == pass[p]
<1>1. q \in Pass /\ p \in DOMAIN pass /\ Watched(p, q)
  BY DEF DiscoverInv, DiscoverTypes, MissInv
<1>2. /\ q.pc = "read" /\ q.mode # "curated"
      /\ UNCHANGED <<clock, modified, files, excuses>>
  BY DEF ReadEnds, Paging
<1>3. PICK cut \in BOOLEAN :
         /\ ~cut => NextOnes(p) = {}
         /\ pass' = [pass EXCEPT ![p].pc = "end", ![p].cut = cut,
                      ![p].finished = pass[p].mode = "backfill" /\ pass[p].got = {}]
  BY DEF ReadEnds
<1> DEFINE n == [q EXCEPT !.pc = "end", !.cut = cut,
                          !.finished = q.mode = "backfill" /\ q.got = {}]
<1>4. pass' = [pass EXCEPT ![p] = n]
  BY <1>1, <1>3
<1>5. /\ n.pc = "end" /\ n.mem = q.mem /\ n.mode = q.mode /\ n.missed = q.missed /\ n.cut = cut
      /\ n.finished => q.mode = "backfill"
  BY <1>1 DEF Pass
<1> HIDE DEF n
<1>6. Unnoticed(n) = Unnoticed(q)
  BY <1>5 DEF Unnoticed
<1>7. ~cut => Unnoticed(q) = {}
  <2>1. ReadInOrder(q)
    BY <1>1, <1>2 DEF Watched
  <2> QED
    BY <1>3, <2>1, UnnoticedFollows, NextIfAny
<1>8. Watched(p, n)
  BY <1>1, <1>2, <1>5, <1>6, <1>7 DEF Watched, Scanning
<1> QED
  BY <1>2, <1>4, <1>8, ScansOn

\* last_run_ts moves to now: what was unnoticed is behind the old one already,
\* unless the pass was cut short and has been told what it missed.
LEMMA ClosingMiss ==
    ASSUME DiscoverInv, MissInv, NEW p \in Passes, EndScan(p)
    PROVE  MissInv'
<1> DEFINE q == pass[p]
           left == {m \in Hub \ (Unwanted \cup q.mem.known) : q.cut}
                     \cup (q.missed \ q.mem.known)
           n == [q EXCEPT !.pc = "append", !.mem.last = clock, !.missed = left,
                          !.mem.complete = @ \/ q.finished]
<1>1. /\ q \in Pass /\ q.mem \in Cursor /\ p \in DOMAIN pass /\ Watched(p, q)
      /\ clock \in Nat /\ FromDate \in Nat /\ q.mem.last \in Nat
      /\ modified \in [HubModels -> Nat]
  BY DiscoverAssumption DEF DiscoverInv, DiscoverTypes, Pass, Cursor, MissInv
<1>2. q.pc = "end"
  BY DEF EndScan
<1>3. UNCHANGED <<clock, modified, files, excuses>>
  BY DEF EndScan
<1>4. pass' = [pass EXCEPT ![p] = n]
  BY <1>1 DEF EndScan, writes_first
<1>5. /\ n.pc = "append" /\ n.mem.known = q.mem.known /\ n.mem.last = clock /\ n.mode = q.mode
      /\ n.mem.complete = (q.mem.complete \/ q.finished) /\ n.missed = left
  BY <1>1 DEF Pass, Cursor
<1> HIDE DEF n
<1>6. q.cut => Unnoticed(n) = {}
  BY <1>5 DEF Unnoticed, Wanted
<1>7. Unnoticed(n) \subseteq Unnoticed(q)
  BY <1>5 DEF Unnoticed
<1>8. ASSUME q.mode # "curated", n.mem.complete, NEW m \in Unnoticed(n), m \in Behind(n.mem)
      PROVE  m \in Excused
  <2>1. ~q.cut
    BY <1>6, <1>8
  <2>2. m \in Unnoticed(q) /\ modified[m] < Cutoff(q)
    BY <1>1, <1>2, <1>7, <1>8, <2>1 DEF Watched
  <2>3. m \in Wanted /\ FromDate <= modified[m] /\ modified[m] \in Nat
    BY <1>1, <1>8 DEF Behind, Wanted, Hub
  <2>4. q.mode = "incremental" /\ m \in Behind(q.mem)
    BY <1>1, <2>2, <2>3 DEF Cutoff, Behind
  <2>5. q.mem.complete
    BY <1>1, <1>2, <1>5, <1>8, <2>4 DEF Watched
  <2> QED
    BY <1>1, <1>2, <1>8, <2>2, <2>4, <2>5 DEF Watched, Scanning
<1>9. Watched(p, n)
  BY <1>1, <1>2, <1>5, <1>6, <1>8 DEF Watched, Scanning
<1> QED
  BY <1>3, <1>4, <1>9, ScansOn

\* Rows that are written excuse no less than before.
LEMMA WrittenExcuses ==
    ASSUME NEW ids, Written(ids), UNCHANGED <<purged, dropped>>
    PROVE  Excused \subseteq Excused'
  BY DEF Written, Excused, Accounted

LEMMA WriteMiss ==
    ASSUME DiscoverInv, MissInv, NEW p \in Passes, AppendRows(p) \/ Save(p) \/ Crash(p)
    PROVE  MissInv'
<1> DEFINE q == pass[p]
<1>1. q \in Pass /\ p \in DOMAIN pass /\ Watched(p, q) /\ clock \in Nat
  BY DiscoverAssumption DEF DiscoverInv, DiscoverTypes, MissInv
<1>2. UNCHANGED <<clock, modified>>
  BY DEF AppendRows, Save, Crash
<1>3. Wanted' = Wanted
  BY <1>2 DEF Wanted, Hub
<1>4. Watched(p, NoPass)'
  BY <1>1, <1>2 DEF Watched, Scanning, NoPass, NoCursor
<1>5. CASE AppendRows(p)
  <2> DEFINE n == [q EXCEPT !.pc = "save"]
  <2>1. /\ q.pc = "append" /\ Written(q.new) /\ UNCHANGED <<cursor, dropped, purged>>
        /\ pass' = [pass EXCEPT ![p] = n]
    BY <1>5 DEF AppendRows, AfterWrite, writes_first
  <2>2. /\ pass'[p] = n /\ pass' = [pass EXCEPT ![p] = pass'[p]]
        /\ n.pc = "save" /\ n.mem = q.mem /\ n.mode = q.mode /\ n.missed = q.missed
    BY <1>1, <2>1 DEF Pass
  <2> HIDE DEF n
  <2>3. Excused \subseteq Excused'
    BY <2>1, WrittenExcuses
  <2>4. /\ Unnoticed(pass[p])' = Unnoticed(q)
        /\ Behind(pass[p].mem)' = Behind(q.mem)
    BY <1>2, <1>3, <2>2 DEF Unnoticed, Behind
  <2>5. Watched(p, pass[p])'
    BY <1>1, <1>2, <2>1, <2>2, <2>3, <2>4 DEF Watched, Scanning
  <2> QED
    BY <1>2, <2>1, <2>2, <2>3, <2>5, ExcusesGrow
<1>6. CASE Save(p)
  <2>1. /\ q.pc = "save" /\ cursor' = q.mem /\ pass' = [pass EXCEPT ![p] = NoPass]
        /\ dropped' = (dropped \cup q.missed) \ rows /\ UNCHANGED <<rows, swallowed, purged>>
    BY <1>6 DEF Save, AfterWrite, writes_first
  <2>2. Excused \subseteq Excused' /\ q.missed \subseteq Excused' /\ Accounted' = Accounted
    BY <2>1 DEF Excused, Accounted
  <2>3. q.mem.known \subseteq Excused'
    BY <2>1, <2>2 DEF DiscoverInv, Excused
  <2>4. q.mem.complete => Unnoticed(q) \cap Behind(q.mem) \subseteq Excused
    BY <1>1, <2>1 DEF Watched, Scanning
  <2>5. q.mem.complete => Behind(cursor') \subseteq Excused'
    BY <2>1, <2>2, <2>3, <2>4 DEF Unnoticed, Behind
  <2>6. pass'[p] = NoPass /\ pass' = [pass EXCEPT ![p] = pass'[p]] /\ q.mem.last <= clock
    BY <1>1, <2>1 DEF Watched
  <2> QED
    BY <1>2, <1>4, <2>1, <2>2, <2>5, <2>6, ExcusesGrow
<1>7. CASE Crash(p)
  <2>1. /\ pass' = [pass EXCEPT ![p] = NoPass] /\ UNCHANGED <<cursor, dropped, purged>>
        /\ \/ UNCHANGED <<rows, torn, swallowed>>
           \/ \E some \in SUBSET q.new : Written(some)
    BY <1>7 DEF Crash
  <2>2. pass'[p] = NoPass /\ pass' = [pass EXCEPT ![p] = pass'[p]]
    BY <1>1, <2>1
  <2>3. Excused \subseteq Excused'
    <3>1. CASE UNCHANGED <<rows, torn, swallowed>>
      BY <2>1, <3>1 DEF Excused, Accounted
    <3>2. CASE \E some \in SUBSET q.new : Written(some)
      BY <2>1, <3>2, WrittenExcuses
    <3> QED
      BY <2>1, <3>1, <3>2
  <2> QED
    BY <1>2, <1>4, <2>1, <2>2, <2>3, ExcusesGrow
<1> QED
  BY <1>5, <1>6, <1>7

LEMMA MissStep ==
    ASSUME ResetsBesideCurated, DiscoverInv, MissInv, [DiscoverNext]_discoverVars
    PROVE  MissInv'
<1>1. CASE DiscoverNext
  BY <1>1, HubMiss, PurgeMiss, LoadMiss, CuratedMiss, ReadMiss, EndsMiss, ClosingMiss, WriteMiss
     DEF DiscoverNext
<1>2. CASE UNCHANGED discoverVars
  BY <1>2 DEF discoverVars, MissInv, Watched, Excused, Accounted, Behind, Wanted, Hub, Cutoff,
              Unnoticed, ReadInOrder
<1> QED
  BY <1>1, <1>2

\* What last_run_ts has left behind has a row or was left by a pass known to
\* have been cut short, curated or overtaken: a paginated pass that reads to its
\* cutoff misses nothing, however passes overlap and wherever they die.
THEOREM NothingIsMissed ==
    ASSUME ResetsBesideCurated
    PROVE  DiscoverSpec => []NothingMissedSilently
<1>1. DiscoverInit => DiscoverInv /\ MissInv
  BY InitDiscover, InitMiss
<1>2. DiscoverInv /\ MissInv /\ [DiscoverNext]_discoverVars => (DiscoverInv /\ MissInv)'
  BY DiscoverStep, MissStep
<1>3. DiscoverInv /\ MissInv => NothingMissedSilently
  BY DEF MissInv, Behind, Wanted, Excused, Accounted, NothingMissedSilently
<1> QED
  BY <1>1, <1>2, <1>3, PTL DEF DiscoverSpec

-----------------------------------------------------------------------------
(* The agent unit: proofs *)

LEMMA InitUnit == UnitInit => UnitInv
<1> SUFFICES ASSUME UnitInit PROVE UnitInv
  OBVIOUS
<1>1. UnitTypes
  <2>1. /\ spec \in SpecRecord /\ invocations \in Nat /\ ufaults \in Nat /\ listening \in BOOLEAN
        /\ exits = <<>> /\ ran = <<>> /\ audit = <<>> /\ outbox = 0 /\ harvested = 0
        /\ probed = {} /\ refused = {}
    BY DEF UnitInit, SpecRecord, SpecModes
  <2>2. unit \in UnitRecord
    BY DEF UnitInit, UnitRecord, Codes, SpecModes
  <2>3. inv \in CallRecord
    BY DEF UnitInit, CallRecord, Idle, Codes, SpecModes
  <2> QED
    BY <2>1, <2>2, <2>3 DEF UnitTypes, Act
<1> QED
  BY <1>1 DEF UnitInit, UnitInv, Act, Activation, Running, Reading, Stopped, Evidence, Invocation,
              Idle, Ok, Called

\* The fields of the records.
LEMMA UnitFields ==
    ASSUME UnitTypes
    PROVE  /\ Act \in Nat /\ Len(audit) \in Nat /\ Len(ran) \in Nat
           /\ unit.state \in {"inactive", "failed", "active", "deactivating"}
           /\ unit.status \in Codes /\ unit.row \in Nat /\ unit.code \in Codes
           /\ unit.at \in {"none", "spec", "command", "begin", "payload", "end", "exit"}
           /\ unit.mode \in SpecModes /\ inv.mode \in SpecModes
           /\ inv.no \in Nat /\ inv.code \in Codes \cup {None}
           /\ spec.no \in Nat /\ spec.mode \in SpecModes
<1>1. Act \in Nat /\ Len(audit) \in Nat /\ Len(ran) \in Nat
  BY DEF UnitTypes, Act
<1>2. /\ unit.state \in {"inactive", "failed", "active", "deactivating"}
      /\ unit.status \in Codes /\ unit.row \in Nat /\ unit.code \in Codes
      /\ unit.at \in {"none", "spec", "command", "begin", "payload", "end", "exit"}
      /\ unit.mode \in SpecModes
  BY DEF UnitTypes, UnitRecord
<1>3. inv.mode \in SpecModes /\ inv.no \in Nat /\ inv.code \in Codes \cup {None}
  BY DEF UnitTypes, CallRecord
<1>4. spec.no \in Nat /\ spec.mode \in SpecModes
  BY DEF UnitTypes, SpecRecord
<1> QED
  BY <1>1, <1>2, <1>3, <1>4

\* A step of the unit keeps what the call knows, when it keeps the activation
\* earned: a call that has seen the unit stop is not about a unit that moves.
LEMMA UnitActs ==
    ASSUME UnitInv, UnitTypes', Activation', ~Stopped,
           UNCHANGED <<spec, inv, harvested, invocations>>, Act' = Act,
           Earned /\ inv.pc \in Called => Earned'
    PROVE  UnitInv'
<1>1. inv.pc \in Called \ {"wait"} => inv.blind
  BY DEF UnitInv, Invocation
<1>2. Ok' <=> Ok
  BY DEF Ok
<1>3. Invocation'
  BY <1>1, <1>2 DEF UnitInv, Invocation, Ok, OkQuotesItself, Called
<1> QED
  BY <1>3 DEF UnitInv

\* The script reads its spec: of the call's command, the probe, or nothing.
LEMMA ReadingUnit ==
    ASSUME UnitInv, ReadMode \/ ReadCommand
    PROVE  UnitInv'
<1>1. /\ Reading /\ unit.state = "active"
      /\ UNCHANGED <<spec, exits, audit, listening, outbox, harvested, inv, refused, invocations>>
  BY DEF ReadMode, ReadCommand, Reading, Running
<1>2. /\ Act' = Act /\ Act \in Nat /\ ~Stopped /\ Act > 0 /\ Len(ran) = Act /\ Act \in 1..Act
      /\ unit \in UnitRecord /\ ran \in Seq(Nat) /\ probed \subseteq 1..Act /\ ufaults \in Nat
      /\ spec.no \in Nat /\ spec.mode \in SpecModes
  BY <1>1, UnitFields DEF Act, UnitInv, UnitTypes, Activation, Stopped
<1>3. ASSUME unit' \in UnitRecord, unit'.state = "active", unit'.row = unit.row,
             \/ unit'.at \in {"command", "begin"}
             \/ unit'.at = "exit" /\ unit'.code # 0,
             ran' \in Seq(Nat), Len(ran') = Len(ran), probed' \subseteq 1..Act, ufaults' \in Nat,
             inv.pc \in Called /\ unit'.at = "begin" => unit'.mode # "smoke" \/ OwnSpec'
      PROVE  UnitInv'
  <2>1. UnitTypes'
    BY <1>1, <1>2, <1>3 DEF UnitInv, UnitTypes
  <2>2. /\ ~Stopped' /\ ~Running("payload")' /\ ~Running("end")'
        /\ (Running("exit") /\ unit.code = 0 => FALSE)'
    BY <1>3 DEF Stopped, Running
  <2>3. \A i \in 1..Len(audit) : audit[i].act # Act
    BY <1>1 DEF UnitInv, Activation
  <2>4. Activation'
    BY <1>1, <1>2, <1>3, <2>2, <2>3 DEF UnitInv, Activation, Running
  <2>5. inv.pc \in Called => Earned'
    BY <1>3, <2>2 DEF Earned, Running
  <2> QED
    BY <1>1, <1>2, <2>1, <2>4, <2>5, UnitActs
<1>4. 0 # BadSpec /\ BadSpec \in Codes /\ "smoke" \in SpecModes
  BY DEF BadSpec, Codes, SpecModes
<1>5. CASE ReadMode /\ unit' = [unit EXCEPT !.at = "begin", !.mode = "smoke"]
                    /\ probed' = probed \cup {Act} /\ ufaults' \in Nat
  <2>1. /\ unit' \in UnitRecord /\ unit'.state = "active" /\ unit'.row = unit.row
        /\ unit'.at = "begin"
    BY <1>1, <1>2, <1>4, <1>5 DEF UnitRecord
  <2>2. ran' = ran /\ probed' \subseteq 1..Act
    BY <1>2, <1>5 DEF ReadMode
  <2>3. OwnSpec'
    BY <1>2, <1>5 DEF OwnSpec
  <2> QED
    BY <1>2, <1>3, <1>5, <2>1, <2>2, <2>3
<1>6. CASE unit' = [unit EXCEPT !.at = "exit", !.code = BadSpec]
           /\ UNCHANGED <<ran, probed, ufaults>>
  <2>1. /\ unit' \in UnitRecord /\ unit'.state = "active" /\ unit'.row = unit.row
        /\ unit'.at = "exit" /\ unit'.code # 0
    BY <1>1, <1>2, <1>4, <1>6 DEF UnitRecord
  <2> QED
    BY <1>2, <1>3, <1>6, <2>1
<1>7. CASE /\ unit' = [unit EXCEPT !.at = IF spec.mode = "smoke" THEN "command" ELSE "begin",
                                   !.mode = spec.mode]
           /\ UNCHANGED <<ran, probed, ufaults>>
  <2>1. /\ unit' \in UnitRecord /\ unit'.state = "active" /\ unit'.row = unit.row
        /\ unit'.at \in {"command", "begin"}
        /\ unit'.at = "begin" => unit'.mode # "smoke"
    BY <1>1, <1>2, <1>7 DEF UnitRecord
  <2> QED
    BY <1>2, <1>3, <1>7, <2>1
<1>8. CASE /\ spec.mode = "smoke" /\ ran' = [ran EXCEPT ![Act] = spec.no]
           /\ unit' = [unit EXCEPT !.at = "begin"] /\ UNCHANGED <<probed, ufaults>>
  <2>1. /\ unit' \in UnitRecord /\ unit'.state = "active" /\ unit'.row = unit.row
        /\ unit'.at = "begin"
    BY <1>1, <1>2, <1>8 DEF UnitRecord
  <2>2. ran' \in Seq(Nat) /\ Len(ran') = Len(ran) /\ ran'[Act] = spec.no
    BY <1>2, <1>8
  <2>3. inv.pc \in Called => OwnSpec'
    BY <1>1, <1>2, <1>8, <2>2 DEF UnitInv, Invocation, OwnSpec
  <2> QED
    BY <1>2, <1>3, <1>8, <2>1, <2>2, <2>3
<1>9. CASE ReadMode
  <2>1. (IF spec.no = 0 THEN UNCHANGED ufaults ELSE UnitFault) => ufaults' \in Nat
    BY <1>2 DEF UnitFault
  <2> QED
    BY <1>5, <1>6, <1>7, <1>9, <2>1 DEF ReadMode
<1>10. CASE ReadCommand
  BY <1>6, <1>8, <1>10 DEF ReadCommand
<1> QED
  BY <1>9, <1>10

\* The begin row; without one nothing is run.
LEMMA BeginningUnit ==
    ASSUME UnitInv, BeginAudit
    PROVE  UnitInv'
<1>1. /\ Running("begin") /\ unit.state = "active"
      /\ UNCHANGED <<spec, exits, ran, probed, listening, outbox, harvested, inv, refused,
                     invocations, ufaults>>
  BY DEF BeginAudit, records, Running
<1>2. Act' = Act /\ Act \in Nat /\ ~Stopped /\ Act > 0 /\ unit \in UnitRecord
  BY <1>1, UnitFields DEF Act, UnitInv, UnitTypes, Activation, Stopped
<1>3. OwnSpec' <=> OwnSpec
  BY <1>1, <1>2 DEF OwnSpec
<1>4. CASE listening
  <2>1. /\ audit' = Append(audit, [act |-> Act, end |-> None])
        /\ unit' = [unit EXCEPT !.at = "payload", !.row = Len(audit) + 1]
    BY <1>4 DEF BeginAudit
  <2>2. /\ [act |-> Act, end |-> None] \in AuditRow /\ Len(audit) \in Nat
        /\ audit \in Seq(AuditRow)
    BY <1>2, UnitFields DEF AuditRow, UnitInv, UnitTypes
  <2>3. /\ audit' \in Seq(AuditRow) /\ Len(audit') = Len(audit) + 1 /\ audit' # <<>>
        /\ audit'[Len(audit) + 1].act = Act
        /\ \A i \in 1..Len(audit) : audit'[i] = audit[i]
    BY <2>1, <2>2
  <2>4. /\ unit' \in UnitRecord /\ unit'.state = "active" /\ unit'.at = "payload"
        /\ unit'.row = Len(audit') /\ unit'.mode = unit.mode
    <3>1. Len(audit) + 1 \in Nat
      BY <2>2
    <3> QED
      BY <1>1, <1>2, <2>1, <2>3, <3>1 DEF UnitRecord
  <2>5. UnitTypes'
    BY <1>1, <1>2, <2>3, <2>4 DEF UnitInv, UnitTypes
  <2>6. Activation'
    <3>1. \A i \in 1..Len(audit') : audit'[i].act \in 1..Act
      BY <1>2, <2>2, <2>3 DEF UnitInv, Activation
    <3> QED
      BY <1>1, <1>2, <2>3, <2>4, <3>1 DEF UnitInv, Activation, Running, Reading, Stopped
  <2>7. Earned => Earned'
    BY <1>1, <1>3, <2>4 DEF Earned, Running, Stopped
  <2> QED
    BY <1>1, <1>2, <2>5, <2>6, <2>7, UnitActs
<1>5. CASE ~listening
  <2>1. unit' = [unit EXCEPT !.at = "exit", !.code = NoAudit] /\ UNCHANGED audit
    BY <1>5 DEF BeginAudit
  <2>2. NoAudit \in Codes /\ NoAudit # 0
    BY DEF Codes, NoAudit
  <2>3. unit' \in UnitRecord /\ unit'.state = "active" /\ unit'.at = "exit" /\ unit'.code # 0
    BY <1>1, <1>2, <2>1, <2>2 DEF UnitRecord
  <2>4. UnitTypes'
    BY <1>1, <1>2, <2>1, <2>3 DEF UnitInv, UnitTypes
  <2>5. Activation'
    BY <1>1, <1>2, <2>1, <2>3 DEF UnitInv, Activation, Running, Reading, Stopped
  <2>6. Earned'
    BY <2>3 DEF Earned, Running, Stopped
  <2> QED
    BY <1>1, <1>2, <2>4, <2>5, <2>6, UnitActs
<1> QED
  BY <1>4, <1>5

\* The payload, then the end row, unless the daemon does not take it.
LEMMA EndingUnit ==
    ASSUME UnitInv, Payload \/ EndAudit
    PROVE  UnitInv'
<1>1. /\ Running("payload") \/ Running("end")
      /\ UNCHANGED <<spec, exits, ran, probed, listening, harvested, inv, invocations, ufaults>>
  BY DEF Payload, EndAudit, records
<1>2. /\ Act' = Act /\ Act \in Nat /\ ~Stopped /\ Act > 0 /\ Len(ran) = Act
      /\ unit.row = Len(audit) /\ audit # <<>> /\ audit[unit.row].act = Act
      /\ audit \in Seq(AuditRow) /\ Len(audit) \in Nat /\ unit.row \in 1..Len(audit)
  BY <1>1, UnitFields DEF Act, UnitInv, UnitTypes, Activation, Running, Stopped
<1>3. OwnSpec' <=> OwnSpec
  BY <1>1, <1>2 DEF OwnSpec
<1>4. CASE Payload
  <2>1. /\ outbox' = Act /\ UNCHANGED <<audit, refused>> /\ unit.state = "active"
        /\ unit.at = "payload"
    BY <1>4 DEF Payload, Running, records
  <2>2. /\ unit' \in UnitRecord /\ unit'.state = "active" /\ unit'.at = "end"
        /\ unit'.row = unit.row /\ (unit'.code = 0 => unit.mode = "smoke")
    <3>1. PICK code \in (IF unit.mode = "smoke" THEN {0, 1} ELSE {NotYet}) :
             unit' = [unit EXCEPT !.at = "end", !.code = code]
      BY <1>4 DEF Payload
    <3>2. code \in Codes /\ (code = 0 => unit.mode = "smoke")
      BY <3>1 DEF Codes, NotYet
    <3> QED
      BY <2>1, <3>1, <3>2 DEF UnitInv, UnitTypes, UnitRecord
  <2>3. UnitTypes'
    BY <1>1, <1>2, <2>1, <2>2 DEF UnitInv, UnitTypes
  <2>4. Activation'
    BY <1>1, <1>2, <2>1, <2>2 DEF UnitInv, Activation, Running, Reading, Stopped
  <2>5. Earned => Earned'
    BY <1>3, <2>1, <2>2 DEF Earned, Running, Stopped
  <2> QED
    BY <1>1, <1>2, <2>3, <2>4, <2>5, UnitActs
<1>5. CASE EndAudit
  <2>1. /\ unit.state = "active" /\ unit.at = "end" /\ outbox = Act /\ outbox' = outbox
        /\ unit' = [unit EXCEPT !.at = "exit"]
    BY <1>5 DEF EndAudit, Running, UnitInv, Activation
  <2>2. /\ unit' \in UnitRecord /\ unit'.state = "active" /\ unit'.at = "exit"
        /\ unit'.code = unit.code /\ unit.code \in Codes
    BY <2>1 DEF UnitInv, UnitTypes, UnitRecord
  <2>3. /\ audit' \in Seq(AuditRow) /\ Len(audit') = Len(audit)
        /\ \A i \in 1..Len(audit) : audit'[i].act = audit[i].act
        /\ refused' \subseteq 1..Act
        /\ Act \in refused' \/ audit'[Len(audit)].end = unit.code
    <3>1. CASE listening
      <4>1. audit' = [audit EXCEPT ![unit.row].end = unit.code] /\ refused' = refused
        BY <1>5, <3>1 DEF EndAudit
      <4>2. /\ audit[unit.row] \in AuditRow
            /\ audit'[unit.row] = [audit[unit.row] EXCEPT !.end = unit.code]
            /\ \A i \in 1..Len(audit) : i # unit.row => audit'[i] = audit[i]
        BY <1>2, <4>1
      <4>3. [audit[unit.row] EXCEPT !.end = unit.code] \in AuditRow
        BY <2>2, <4>2 DEF AuditRow
      <4>4. /\ audit' \in Seq(AuditRow) /\ Len(audit') = Len(audit)
            /\ audit'[unit.row].end = unit.code /\ audit'[unit.row].act = audit[unit.row].act
        BY <1>2, <4>1, <4>2, <4>3 DEF AuditRow
      <4> QED
        BY <1>2, <4>1, <4>2, <4>4 DEF UnitInv, UnitTypes
    <3>2. CASE ~listening
      <4>1. refused' = refused \cup {Act} /\ audit' = audit
        BY <1>5, <3>2 DEF EndAudit
      <4> QED
        BY <1>2, <4>1 DEF UnitInv, UnitTypes
    <3> QED
      BY <3>1, <3>2
  <2>4. UnitTypes'
    BY <1>1, <1>2, <2>1, <2>2, <2>3 DEF UnitInv, UnitTypes
  <2>5. audit' # <<>> /\ audit'[Len(audit)].act = Act
    BY <1>2, <2>3
  <2>6. Activation'
    BY <1>1, <1>2, <2>1, <2>2, <2>3, <2>5
       DEF UnitInv, Activation, Running, Reading, Stopped, Evidence
  <2>7. Earned => Earned'
    BY <1>3, <2>1, <2>2 DEF Earned, Running, Stopped
  <2> QED
    BY <1>1, <1>2, <2>4, <2>6, <2>7, UnitActs
<1> QED
  BY <1>4, <1>5

\* The unit comes to its end: with the code of its payload, or killed.
LEMMA StoppingUnit ==
    ASSUME UnitInv, UnitExits \/ RuntimeMax \/ UnitKilled
    PROVE  UnitInv'
<1>1. /\ UNCHANGED <<spec, ran, probed, audit, listening, outbox, harvested, inv, refused,
                     invocations>>
      /\ ~Stopped /\ Act \in Nat /\ Act > 0 /\ unit \in UnitRecord
      /\ exits \in Seq(Codes \cup {None}) /\ Act = Len(exits) /\ unit.code \in Codes
  BY UnitFields
     DEF UnitExits, RuntimeMax, UnitKilled, Finished, Running, Stopped, Act, UnitInv, UnitTypes,
         Activation, records
<1>2. CASE RuntimeMax
  <2>1. /\ unit' = [unit EXCEPT !.state = "deactivating"] /\ exits' = exits
        /\ ufaults' = ufaults + 1
    BY <1>2 DEF RuntimeMax, UnitFault, records
  <2>2. unit' \in UnitRecord /\ unit'.state = "deactivating" /\ Act' = Act /\ ufaults' \in Nat
    <3>1. unit' \in UnitRecord /\ unit'.state = "deactivating"
      BY <1>1, <2>1 DEF UnitRecord
    <3>2. Act' = Act
      BY <2>1 DEF Act
    <3>3. ufaults' \in Nat
      BY <2>1 DEF UnitInv, UnitTypes
    <3> QED
      BY <3>1, <3>2, <3>3
  <2>3. UnitTypes'
    BY <1>1, <2>1, <2>2 DEF UnitInv, UnitTypes
  <2>4. Activation'
    BY <1>1, <2>1, <2>2 DEF UnitInv, Activation, Running, Reading, Stopped
  <2>5. Earned'
    BY <2>2 DEF Earned, Running, Stopped
  <2> QED
    BY <1>1, <2>2, <2>3, <2>4, <2>5, UnitActs
<1>3. ASSUME NEW code \in Codes, Finished(code), ufaults' = ufaults,
             code = 0 => Evidence(0) /\ Running("exit") /\ unit.code = 0
      PROVE  UnitInv'
  <2>1. /\ unit' = [unit EXCEPT !.state = IF code = 0 THEN "inactive" ELSE "failed",
                                !.status = code, !.at = "none", !.row = 0, !.code = 0]
        /\ exits' = [exits EXCEPT ![Act] = code]
    BY <1>3 DEF Finished
  <2>2. /\ unit' \in UnitRecord /\ unit'.state \in {"inactive", "failed"} /\ unit'.status = code
        /\ 0 \in Codes
    BY <1>1, <2>1 DEF UnitRecord, Codes
  <2>3. exits' \in Seq(Codes \cup {None}) /\ Len(exits') = Len(exits) /\ exits'[Act] = code
    BY <1>1, <2>1
  <2>4. Act' = Act
    BY <2>3 DEF Act
  <2>5. UnitTypes'
    BY <1>1, <1>3, <2>2, <2>3, <2>4 DEF UnitInv, UnitTypes
  <2>6. Evidence(0)' <=> Evidence(0)
    BY <1>1, <2>4 DEF Evidence
  <2>7. Activation'
    BY <1>1, <1>3, <2>2, <2>3, <2>4, <2>6 DEF UnitInv, Activation, Running, Reading, Stopped
  <2>8. Earned => Earned'
    BY <1>1, <1>3, <2>2, <2>4 DEF Earned, OwnSpec, Running, Stopped
  <2> QED
    BY <1>1, <2>4, <2>5, <2>7, <2>8, UnitActs
<1>4. CASE UnitExits
  <2>1. /\ Finished(unit.code) /\ ufaults' = ufaults
        /\ (unit.code = 0 => Evidence(0) /\ Running("exit"))
    BY <1>4 DEF UnitExits, Finished, UnitInv, Activation
  <2> QED
    BY <1>1, <1>3, <2>1
<1>5. CASE UnitKilled
  <2>1. Finished(Killed) /\ ufaults' = ufaults /\ Killed # 0 /\ Killed \in Codes
    BY <1>5 DEF UnitKilled, Finished, Killed, Codes
  <2> QED
    BY <1>3, <2>1
<1> QED
  BY <1>2, <1>4, <1>5

LEMMA DaemonUnit ==
    ASSUME UnitInv, DaemonStops \/ DaemonServes
    PROVE  UnitInv'
<1>1. /\ UNCHANGED <<spec, unit, records, audit, outbox, harvested, inv, refused, invocations>>
      /\ ufaults' \in Nat /\ listening' \in BOOLEAN
  <2>1. ufaults \in Nat
    BY DEF UnitInv, UnitTypes
  <2>2. CASE DaemonStops
    <3>1. ufaults' \in Nat
      BY <2>1, <2>2 DEF DaemonStops, UnitFault
    <3>2. listening' \in BOOLEAN
      BY <2>2, Zenon DEF DaemonStops
    <3> QED
      BY <2>2, <3>1, <3>2 DEF DaemonStops
  <2>3. CASE DaemonServes
    BY <2>1, <2>3 DEF DaemonServes
  <2> QED
    BY <2>2, <2>3
<1>2. UnitTypes' /\ Activation'
  BY <1>1 DEF UnitInv, UnitTypes, Activation, Act, Running, Reading, Stopped, Evidence, records
<1>3. Invocation'
  BY <1>1 DEF UnitInv, Invocation, Act, Running, Stopped, Ok, OkQuotesItself, Earned, OwnSpec,
              Called, records
<1> QED
  BY <1>2, <1>3 DEF UnitInv

\* A step of invoke_agent that leaves the unit alone keeps what is said of it.
LEMMA CallActs ==
    ASSUME UnitInv, UNCHANGED sandbox, invocations' \in Nat, ufaults' \in Nat,
           spec' \in SpecRecord, inv' \in CallRecord, harvested' \in 0..Act
    PROVE  UnitTypes' /\ Activation' /\ Act' = Act
BY DEF UnitInv, UnitTypes, Activation, Act, Running, Reading, Stopped, Evidence, sandbox, records

\* invoke_agent up to the start of the unit.
LEMMA CallingUnit ==
    ASSUME UnitInv, Invoke \/ open_spec \/ write_spec
    PROVE  UnitInv'
<1>1. /\ UNCHANGED <<sandbox, harvested, ufaults>> /\ invocations \in Nat /\ ufaults \in Nat
      /\ spec \in SpecRecord /\ inv \in CallRecord /\ harvested \in 0..Act
  BY DEF Invoke, open_spec, write_spec, UnitInv, UnitTypes
<1>2. /\ inv' \in CallRecord /\ invocations' \in Nat /\ spec' \in SpecRecord
      /\ inv'.pc \in {"spec", "write", "start"} /\ ~inv'.joined /\ ~inv'.blind
      /\ inv'.pc = "start" => spec'.no = inv'.no /\ spec'.mode = inv'.mode
  <2>1. CASE Invoke
    <3>1. Idle \in CallRecord
      BY DEF Idle, CallRecord, Codes, SpecModes
    <3>2. PICK mode \in SpecModes :
             inv' = [Idle EXCEPT !.pc = "spec", !.no = invocations + 1, !.mode = mode]
      BY <2>1 DEF Invoke, first_of_invoke
    <3>3. inv' \in CallRecord /\ inv'.pc = "spec" /\ ~inv'.joined /\ ~inv'.blind
      <4>1. invocations + 1 \in Nat
        BY <1>1
      <4> DEFINE i == Idle
      <4>2. i \in CallRecord /\ ~i.joined /\ ~i.blind
            /\ inv' = [i EXCEPT !.pc = "spec", !.no = invocations + 1, !.mode = mode]
        BY <3>1, <3>2 DEF Idle
      <4> HIDE DEF i
      <4> QED
        BY <4>1, <4>2 DEF CallRecord
    <3> QED
      <4>1. invocations' = invocations + 1 /\ spec' = spec
        BY <2>1 DEF Invoke
      <4> QED
        BY <1>1, <3>3, <4>1
  <2>2. CASE open_spec
    <3>1. inv' = [inv EXCEPT !.pc = "write"] /\ spec' = [spec EXCEPT !.whole = FALSE]
          /\ invocations' = invocations
      BY <2>2 DEF open_spec
    <3>2. ~inv.joined /\ ~inv.blind
      BY <2>2 DEF open_spec, UnitInv, Invocation
    <3> QED
      BY <1>1, <3>1, <3>2 DEF CallRecord, SpecRecord
  <2>3. CASE write_spec
    <3>1. /\ inv' = [inv EXCEPT !.pc = "start"] /\ invocations' = invocations
          /\ spec' = [no |-> inv.no, mode |-> inv.mode, whole |-> TRUE]
      BY <2>3 DEF write_spec, NextOfInvoke, first_of_invoke
    <3>2. ~inv.joined /\ ~inv.blind
      BY <2>3 DEF write_spec, UnitInv, Invocation
    <3> QED
      BY <1>1, <3>1, <3>2 DEF CallRecord, SpecRecord
  <2> QED
    BY <2>1, <2>2, <2>3
<1>3. UnitTypes' /\ Activation'
  BY <1>1, <1>2, CallActs
<1>4. Invocation'
  BY <1>2 DEF Invocation, Ok, Called
<1> QED
  BY <1>3, <1>4 DEF UnitInv

\* systemctl start: an activation of its own, or none beside the active one.
LEMMA StartingUnit ==
    ASSUME UnitInv, StartUnit
    PROVE  UnitInv'
<1>1. /\ inv.pc = "start" /\ spec.no = inv.no /\ spec.mode = inv.mode /\ ~inv.joined /\ ~inv.blind
      /\ UNCHANGED <<spec, probed, audit, listening, outbox, harvested, refused, invocations>>
  BY DEF StartUnit, UnitInv, Invocation
<1>2. /\ inv \in CallRecord /\ unit \in UnitRecord /\ Act \in Nat /\ Len(exits) = Act
      /\ exits \in Seq(Codes \cup {None}) /\ ran \in Seq(Nat) /\ ufaults \in Nat
      /\ spec \in SpecRecord /\ invocations \in Nat /\ harvested \in 0..Act
  BY <1>1, UnitFields DEF UnitInv, UnitTypes, Act
<1>3. CASE unit.state = "active" /\ UNCHANGED <<unit, exits, ran, ufaults>>
           /\ inv' = [inv EXCEPT !.pc = "wait", !.joined = TRUE]
  <2>1. inv' \in CallRecord /\ inv'.pc = "wait" /\ inv'.no = inv.no /\ inv'.joined
        /\ inv'.mode = inv.mode
    BY <1>2, <1>3 DEF CallRecord
  <2>2. UNCHANGED sandbox /\ Act > 0
    BY <1>1, <1>3 DEF sandbox, records, UnitInv, Activation, Stopped
  <2>3. UnitTypes' /\ Activation' /\ Act' = Act
    BY <1>1, <1>2, <1>3, <2>1, <2>2, CallActs
  <2>4. Invocation'
    BY <1>1, <2>1, <2>2, <2>3 DEF Invocation, Ok, Called
  <2> QED
    BY <2>3, <2>4 DEF UnitInv
<1>4. CASE /\ unit.state \in {"inactive", "failed"} /\ UNCHANGED ufaults
           /\ unit' = [unit EXCEPT !.state = "active", !.status = 0, !.at = "spec"]
           /\ exits' = Append(exits, None) /\ ran' = Append(ran, 0)
           /\ inv' = [inv EXCEPT !.pc = "wait"]
  <2>1. inv' \in CallRecord /\ inv'.pc = "wait" /\ inv'.no = inv.no /\ inv'.mode = inv.mode
    BY <1>2, <1>4 DEF CallRecord
  <2>2. /\ unit' \in UnitRecord /\ unit'.state = "active" /\ unit'.at = "spec" /\ 0 \in Codes
    BY <1>2, <1>4 DEF UnitRecord, Codes
  <2>3. exits' \in Seq(Codes \cup {None}) /\ Act' = Act + 1
    BY <1>2, <1>4 DEF Act
  <2>4. Len(ran) = Act /\ ran' \in Seq(Nat) /\ Len(ran') = Act'
    BY <1>2, <1>4, <2>3 DEF UnitInv, Activation
  <2>5. UnitTypes'
    BY <1>1, <1>2, <1>4, <2>1, <2>2, <2>3, <2>4 DEF UnitInv, UnitTypes
  <2>6. \A i \in 1..Len(audit) : audit[i].act \in 1..Act'  /\ audit[i].act # Act'
    BY <1>2, <2>3 DEF UnitInv, Activation
  <2>7. Activation'
    BY <1>1, <1>2, <2>2, <2>3, <2>4, <2>6 DEF Activation, Running, Stopped
  <2>8. Earned'
    BY <2>2 DEF Earned, Running, Stopped
  <2>9. Invocation'
    BY <1>1, <1>2, <2>1, <2>3, <2>8 DEF Invocation, Ok, Called
  <2> QED
    BY <2>5, <2>7, <2>9 DEF UnitInv
<1>5. CASE UnitFault /\ UNCHANGED <<unit, exits, ran>> /\ inv' = Idle
  <2>1. Idle \in CallRecord /\ Idle.pc = "idle" /\ ufaults' \in Nat
    BY <1>2, <1>5 DEF Idle, CallRecord, Codes, SpecModes, UnitFault
  <2>2. UnitTypes' /\ Activation'
    BY <1>1, <1>2, <1>5, <2>1, CallActs DEF sandbox, records
  <2>3. Invocation'
    BY <1>5, <2>1 DEF Invocation, Ok, Called
  <2> QED
    BY <2>2, <2>3 DEF UnitInv
<1> QED
  BY <1>3, <1>4, <1>5 DEF StartUnit, NextOfInvoke, first_of_invoke

\* The call sees the unit stopped, or gives up and leaves it as it is, or goes on
\* without having seen anything.
LEMMA WaitingUnit ==
    ASSUME UnitInv, Wait
    PROVE  UnitInv'
<1>1. inv.pc = "wait" /\ UNCHANGED <<spec, sandbox, harvested, invocations>>
  BY DEF Wait
<1>2. /\ inv \in CallRecord /\ unit \in UnitRecord /\ Act \in Nat /\ Act > 0 /\ spec.no = inv.no
      /\ spec.mode = inv.mode
      /\ inv.joined \/ inv.blind \/ Earned
      /\ unit.state \in {"inactive", "failed", "active", "deactivating"}
      /\ spec \in SpecRecord /\ invocations \in Nat /\ harvested \in 0..Act /\ ufaults \in Nat
  BY <1>1, UnitFields DEF UnitInv, UnitTypes, Invocation, Called
<1>3. CASE inv' = Idle /\ UNCHANGED ufaults
  <2>1. Idle \in CallRecord /\ Idle.pc = "idle"
    BY DEF Idle, CallRecord, Codes, SpecModes
  <2>2. UnitTypes' /\ Activation'
    BY <1>1, <1>2, <1>3, <2>1, CallActs
  <2>3. Invocation'
    BY <1>3, <2>1 DEF Invocation, Ok, Called
  <2> QED
    BY <2>2, <2>3 DEF UnitInv
<1>4. ASSUME inv' \in CallRecord, inv'.pc = "status", inv'.act = Act, inv'.no = inv.no,
             inv'.mode = inv.mode, inv'.joined = inv.joined, ufaults' \in Nat,
             inv'.blind \/ (Stopped /\ ~inv.blind)
      PROVE  UnitInv'
  <2>1. UnitTypes' /\ Activation' /\ Act' = Act
    BY <1>1, <1>2, <1>4, CallActs
  <2>2. inv'.joined \/ inv'.blind \/ Earned'
    <3>1. Earned => Earned'
      BY <1>1, <1>4, <2>1 DEF Earned, OwnSpec, Running, Stopped, sandbox, records
    <3> QED
      BY <1>2, <1>4, <3>1
  <2>3. inv'.blind \/ Stopped'
    BY <1>1, <1>4 DEF Stopped, sandbox
  <2>4. Invocation'
    BY <1>1, <1>2, <1>4, <2>1, <2>2, <2>3 DEF Invocation, Ok, Called
  <2> QED
    BY <2>1, <2>4 DEF UnitInv
<1>5. CASE ~still_running(unit.state) /\ inv' = [inv EXCEPT !.pc = "status", !.act = Act]
           /\ UNCHANGED ufaults
  <2>1. Stopped
    BY <1>2, <1>5 DEF still_running, Stopped
  <2>2. /\ inv' \in CallRecord /\ inv'.pc = "status" /\ inv'.act = Act /\ inv'.no = inv.no
        /\ inv'.joined = inv.joined /\ inv'.mode = inv.mode /\ inv'.blind = inv.blind
    BY <1>2, <1>5 DEF CallRecord
  <2> QED
    BY <1>2, <1>4, <1>5, <2>1, <2>2
<1>6. CASE UnitFault /\ inv' = [inv EXCEPT !.pc = "status", !.act = Act, !.blind = TRUE]
  <2>1. /\ inv' \in CallRecord /\ inv'.pc = "status" /\ inv'.act = Act /\ inv'.no = inv.no
        /\ inv'.joined = inv.joined /\ inv'.mode = inv.mode /\ inv'.blind
    BY <1>2, <1>6 DEF CallRecord
  <2>2. ufaults' \in Nat
    BY <1>2, <1>6 DEF UnitFault
  <2> QED
    BY <1>4, <2>1, <2>2
<1> QED
  BY <1>3, <1>5, <1>6 DEF Wait

\* ExecMainStatus and the outbox, of a unit that has stopped or of any.
LEMMA HarvestingUnit ==
    ASSUME UnitInv, Status \/ Harvest
    PROVE  UnitInv'
<1>1. inv.pc \in {"status", "harvest"} /\ UNCHANGED <<spec, sandbox, invocations>>
  BY DEF Status, Harvest
<1>2. /\ inv \in CallRecord /\ unit.status \in Codes /\ Act \in Nat
      /\ outbox \in 0..Act /\ harvested \in 0..Act /\ ufaults \in Nat /\ spec \in SpecRecord
      /\ invocations \in Nat
  BY <1>1, UnitFields DEF UnitInv, UnitTypes
<1>3. ASSUME inv' \in CallRecord, inv'.pc \in {"harvest", "summary"}, harvested' \in 0..Act,
             inv'.act = inv.act, inv'.no = inv.no, inv'.mode = inv.mode,
             inv'.joined = inv.joined, inv'.blind = inv.blind, ufaults' \in Nat,
             \/ inv'.code = None \/ inv'.code = unit.status
             \/ inv.pc = "harvest" /\ inv'.code = inv.code,
             inv'.pc = "summary" => inv'.failed \/ outbox = 0 \/ harvested' = outbox
      PROVE  UnitInv'
  <2>1. UnitTypes' /\ Activation' /\ Act' = Act
    BY <1>1, <1>2, <1>3, CallActs
  <2>2. UNCHANGED <<unit, ran, probed, outbox>>
    BY <1>1 DEF sandbox, records
  <2>3. inv'.joined \/ inv'.blind \/ Earned'
    <3>1. Earned => Earned'
      BY <1>3, <2>1, <2>2 DEF Earned, OwnSpec, Running, Stopped
    <3> QED
      BY <1>1, <1>3, <3>1 DEF UnitInv, Invocation, Called
  <2>4. inv'.blind \/ (Stopped' /\ inv'.act = Act)
    BY <1>1, <1>3, <2>2 DEF UnitInv, Invocation, Called, Stopped
  <2>5. inv'.blind \/ inv'.code = None \/ inv'.code = unit'.status
    BY <1>1, <1>3, <2>2 DEF UnitInv, Invocation
  <2>6. Invocation'
    BY <1>1, <1>3, <2>1, <2>2, <2>3, <2>4, <2>5 DEF UnitInv, Invocation, Ok, Called
  <2> QED
    BY <2>1, <2>6 DEF UnitInv
<1>4. CASE Status
  <2>1. PICK code \in Codes \cup {None} :
           /\ code \in {None, unit.status} /\ inv' = [inv EXCEPT !.pc = "harvest", !.code = code]
           /\ ufaults' \in Nat /\ harvested' = harvested
    <3>1. CASE UNCHANGED ufaults /\ inv' = [inv EXCEPT !.pc = "harvest", !.code = unit.status]
      BY <1>2, <1>4, <3>1 DEF Status
    <3>2. CASE UnitFault /\ inv' = [inv EXCEPT !.pc = "harvest", !.code = None]
      <4>1. ufaults' \in Nat /\ harvested' = harvested
        BY <1>2, <1>4, <3>2 DEF Status, UnitFault
      <4> WITNESS None \in Codes \cup {None}
      <4> QED
        BY <3>2, <4>1
    <3> QED
      BY <1>4, <3>1, <3>2 DEF Status
  <2>2. /\ inv' \in CallRecord /\ inv'.pc = "harvest" /\ inv'.code = code
        /\ inv'.act = inv.act /\ inv'.no = inv.no /\ inv'.mode = inv.mode
        /\ inv'.joined = inv.joined /\ inv'.blind = inv.blind
    BY <1>2, <2>1 DEF CallRecord
  <2> QED
    BY <1>2, <1>3, <2>1, <2>2
<1>5. CASE Harvest
  <2>1. CASE /\ harvested' = (IF outbox = 0 THEN harvested ELSE outbox) /\ UNCHANGED ufaults
             /\ inv' = [inv EXCEPT !.pc = "summary"]
    <3>1. /\ inv' \in CallRecord /\ inv'.pc = "summary" /\ inv'.code = inv.code
          /\ inv'.act = inv.act /\ inv'.no = inv.no /\ inv'.mode = inv.mode
          /\ inv'.joined = inv.joined /\ inv'.blind = inv.blind
      BY <1>2, <2>1 DEF CallRecord
    <3>2. harvested' \in 0..Act /\ (outbox = 0 \/ harvested' = outbox) /\ inv.pc = "harvest"
      BY <1>2, <1>5, <2>1 DEF Harvest
    <3> QED
      BY <1>2, <1>3, <2>1, <3>1, <3>2
  <2>2. CASE UnitFault /\ UNCHANGED harvested /\ inv' = [inv EXCEPT !.pc = "summary", !.failed = TRUE]
    <3>1. /\ inv' \in CallRecord /\ inv'.pc = "summary" /\ inv'.code = inv.code /\ inv'.failed
          /\ inv'.act = inv.act /\ inv'.no = inv.no /\ inv'.mode = inv.mode
          /\ inv'.joined = inv.joined /\ inv'.blind = inv.blind
      BY <1>2, <2>2 DEF CallRecord
    <3>2. ufaults' \in Nat /\ inv.pc = "harvest"
      BY <1>2, <1>5, <2>2 DEF UnitFault, Harvest
    <3> QED
      BY <1>2, <1>3, <2>2, <3>1, <3>2
  <2> QED
    BY <1>5, <2>1, <2>2 DEF Harvest
<1> QED
  BY <1>4, <1>5

\* The newest ended row is that of the activation the call has seen to its end,
\* when the daemon has taken it.
LEMMA NewestRow ==
    ASSUME UnitTypes, audit # <<>>, audit[Len(audit)].end # None
    PROVE  collect_audit_summary # {} /\ newest(collect_audit_summary) = audit[Len(audit)]
<1>1. audit \in Seq(AuditRow) /\ Len(audit) \in Nat /\ Len(audit) > 0
  BY UnitFields DEF UnitTypes
<1>2. query_recent[1] = audit[Len(audit)]
  BY <1>1 DEF query_recent, Reverse
<1>3. 1 \in collect_audit_summary /\ \A i \in collect_audit_summary : i \in Nat /\ i >= 1
  BY <1>1, <1>2 DEF collect_audit_summary
<1>4. Min(collect_audit_summary) = 1
  BY <1>3 DEF Min
<1> QED
  BY <1>2, <1>3, <1>4 DEF newest

LEMMA QuotedRow ==
    ASSUME UnitTypes, collect_audit_summary # {}
    PROVE  newest(collect_audit_summary) \in AuditRow
<1>1. audit \in Seq(AuditRow) /\ Len(audit) \in Nat
  BY UnitFields DEF UnitTypes
<1>2. PICK ended : ended = collect_audit_summary
  OBVIOUS
<1>3. ended # {} /\ \A i \in ended : i \in 1..Len(audit) /\ (i = 1 \/ i = 2 \/ i = 3 \/ i = 4)
  BY <1>1, <1>2 DEF collect_audit_summary
<1>4. \E m \in ended : \A k \in ended : m <= k
  <2>1. CASE 1 \in ended
    BY <1>3, <2>1
  <2>2. CASE 1 \notin ended /\ 2 \in ended
    BY <1>3, <2>2
  <2>3. CASE 1 \notin ended /\ 2 \notin ended /\ 3 \in ended
    BY <1>3, <2>3
  <2>4. CASE 1 \notin ended /\ 2 \notin ended /\ 3 \notin ended
    BY <1>3, <2>4
  <2> QED
    BY <2>1, <2>2, <2>3, <2>4
<1>5. PICK m \in 1..Len(audit) : m = Min(ended)
  <2>1. Min(ended) \in ended
    BY <1>4 DEF Min
  <2> QED
    BY <1>3, <2>1
<1>6. query_recent[m] = audit[(Len(audit) - m) + 1] /\ (Len(audit) - m) + 1 \in 1..Len(audit)
  BY <1>1 DEF query_recent, Reverse
<1> QED
  BY <1>1, <1>2, <1>5, <1>6 DEF newest

LEMMA SummingUnit ==
    ASSUME UnitInv, Summary
    PROVE  UnitInv'
<1> DEFINE ended == collect_audit_summary
<1>1. /\ inv.pc = "summary" /\ UNCHANGED <<spec, sandbox, harvested, invocations, ufaults>>
      /\ inv' = [inv EXCEPT !.pc = "done", !.ok = is_ok(inv.code, ended),
                            !.quoted = IF ended = {} THEN 0 ELSE newest(ended).act,
                            !.meta = harvested]
  BY DEF Summary
<1>2. /\ inv \in CallRecord /\ Act \in Nat /\ spec \in SpecRecord /\ Act > 0
      /\ inv.blind \/ inv.code = None \/ inv.code = unit.status
      /\ inv.blind \/ (Stopped /\ inv.act = Act)
      /\ inv.joined \/ inv.blind \/ Earned
      /\ inv.blind \/ inv.failed \/ outbox = 0 \/ harvested = outbox
      /\ outbox \in 0..Act /\ harvested \in 0..Act /\ UnitTypes /\ invocations \in Nat
      /\ ufaults \in Nat
  BY <1>1, UnitFields DEF UnitInv, UnitTypes, Invocation, Called
<1>3. PICK ok \in BOOLEAN : ok = is_ok(inv.code, ended)
  BY DEF is_ok
<1>4. PICK quoted \in Nat : quoted = IF ended = {} THEN 0 ELSE newest(ended).act
  <2>1. (IF ended = {} THEN 0 ELSE newest(ended).act) \in Nat
    BY <1>2, QuotedRow DEF AuditRow
  <2> QED
    BY <2>1
<1> HIDE DEF ended
<1>5. /\ inv' \in CallRecord /\ inv'.pc = "done" /\ inv'.act = inv.act /\ inv'.no = inv.no
      /\ inv'.joined = inv.joined /\ inv'.code = inv.code /\ inv'.failed = inv.failed
      /\ inv'.ok = ok /\ inv'.meta = harvested /\ inv'.quoted = quoted
      /\ inv'.mode = inv.mode /\ inv'.blind = inv.blind
  <2>1. inv' = [inv EXCEPT !.pc = "done", !.ok = ok, !.quoted = quoted, !.meta = harvested]
    BY <1>1, <1>3, <1>4
  <2>2. harvested \in Nat
    BY <1>2
  <2> QED
    BY <1>2, <2>1, <2>2 DEF CallRecord
<1>6. UnitTypes' /\ Activation' /\ Act' = Act
  BY <1>1, <1>2, <1>5, CallActs
<1>7. ASSUME ok, ~inv.blind
      PROVE  (quoted = Act \/ Act \in refused) /\ (harvested = Act \/ inv.failed)
  <2>1. inv.code = 0
    BY <1>3, <1>7 DEF is_ok
  <2>2. Stopped /\ unit.status = 0
    BY <1>2, <1>7, <2>1 DEF None
  <2>3. Evidence(0)
    BY <1>2, <2>2 DEF UnitInv, Activation
  <2>4. CASE audit # <<>> /\ audit[Len(audit)].act = Act /\ audit[Len(audit)].end = 0
    <3>1. ended # {} /\ newest(ended) = audit[Len(audit)]
      BY <1>2, <2>4, NewestRow DEF ended, None
    <3> QED
      BY <1>2, <1>4, <1>7, <2>3, <2>4, <3>1 DEF Evidence
  <2>5. CASE Act \in refused
    BY <1>2, <1>7, <2>3, <2>5 DEF Evidence
  <2> QED
    BY <2>3, <2>4, <2>5 DEF Evidence
<1>8. ok => inv.code = 0
  BY <1>3 DEF is_ok
<1>9. UNCHANGED <<unit, ran, probed, outbox, refused>>
  BY <1>1 DEF sandbox, records
<1>10. inv'.joined \/ inv'.blind \/ Earned'
  <2>1. Earned => Earned'
    BY <1>5, <1>6, <1>9 DEF Earned, OwnSpec, Running, Stopped
  <2> QED
    BY <1>2, <1>5, <2>1
<1>11. Ok' => inv'.code = 0 /\ OkQuotesItself'
  BY <1>2, <1>5, <1>7, <1>8, <1>9 DEF Ok, OkQuotesItself
<1>12. Invocation'
  <2>1. spec'.no = inv'.no /\ spec'.mode = inv'.mode
    BY <1>1, <1>5 DEF UnitInv, Invocation, Called
  <2> QED
    BY <1>1, <1>2, <1>5, <1>6, <1>9, <1>10, <1>11, <2>1 DEF Invocation, Called, Stopped
<1> QED
  BY <1>6, <1>12 DEF UnitInv

LEMMA UnitStep == UnitInv /\ [UnitNext]_unitVars => UnitInv'
<1> SUFFICES ASSUME UnitInv, [UnitNext]_unitVars PROVE UnitInv'
  OBVIOUS
<1>1. CASE UnitNext
  BY <1>1, ReadingUnit, BeginningUnit, EndingUnit, StoppingUnit, DaemonUnit, CallingUnit,
     StartingUnit, WaitingUnit, HarvestingUnit, SummingUnit DEF UnitNext
<1>2. CASE UNCHANGED unitVars
  BY <1>2 DEF unitVars, UnitInv, UnitTypes, Activation, Invocation, Act, Running, Reading, Stopped,
              Evidence, Earned, OwnSpec, Called, Ok, OkQuotesItself
<1> QED
  BY <1>1, <1>2

LEMMA UnitInvariance == UnitSpec => []UnitInv
  BY InitUnit, UnitStep, PTL DEF UnitSpec

\* An ok result whose call has read the unit's state: the activation is over, with 0.
LEMMA OkCall ==
    ASSUME UnitInv, Ok, ~inv.blind
    PROVE  inv.act = Act /\ Act > 0 /\ Stopped /\ unit.status = 0 /\ (inv.joined \/ Earned)
<1>1. inv.pc = "done" /\ inv.code = 0
  BY DEF UnitInv, Invocation, Ok
<1> QED
  BY <1>1 DEF UnitInv, Invocation, Called, None

\* invoke_agent reports ok only for a payload that has ended with 0: not for a
\* unit that RuntimeMaxSec is still stopping, not with an earlier exit code. The
\* call whose systemctl show failed is the exception the property names.
THEOREM OkPayloadsRan == UnitSpec => []OkMeansRan
<1>1. UnitInv => OkMeansRan
  BY OkCall DEF OkMeansRan, UnitInv, Activation
<1> QED
  BY UnitInvariance, <1>1, PTL

\* What an ok call has run is the spec it has written, however the two reads of the
\* script fall between the writes of calls, unless the script could not read it, the
\* unit was still active from a call that timed out, or its state could not be read.
THEOREM OkRanThisSpec == UnitSpec => []OkIsForThisSpec
<1>1. UnitInv => OkIsForThisSpec
  BY OkCall DEF OkIsForThisSpec, Earned, OwnSpec
<1> QED
  BY UnitInvariance, <1>1, PTL

\* An ok result quotes the audit row and the run_meta.json of its own
\* activation, in spite of the rows and files that earlier ones have left.
THEOREM OkQuotesOwnAudit == UnitSpec => []OkQuotesItself
<1>1. UnitInv => OkQuotesItself
  BY DEF UnitInv, Invocation, OkQuotesItself
<1> QED
  BY UnitInvariance, <1>1, PTL

-----------------------------------------------------------------------------
(* The backup: proofs *)

Snapshot == [ts : 1..MaxTicks, mtime : 0..MaxTicks, data : BOOLEAN, meta : BOOLEAN]

LEMMA InitBackup == BackupInit => BackupInv
<1> SUFFICES ASSUME BackupInit PROVE BackupInv
  OBVIOUS
<1>1. BackupTypes
  BY BackupAssumption DEF BackupInit, BackupTypes
<1>2. Names /\ Backed
  BY DEF BackupInit, Names, Backed, Stamps, Making
<1> QED
  BY <1>1, <1>2 DEF BackupInv

LEMMA Ticks ==
    ASSUME BackupTypes
    PROVE  /\ now \in Nat /\ now >= 1 /\ now <= MaxTicks /\ MaxTicks \in Nat
           /\ snapshot_ts \in Nat /\ snapshot_ts <= now /\ last_backup \in Nat
           /\ KeepFor \in Nat /\ HealthyFor \in Nat /\ HealthyFor <= KeepFor
           /\ MaxBackupFaults \in Nat /\ bfaults \in Nat
           /\ \A s \in snaps : s \in Snapshot /\ s.ts \in Nat /\ s.mtime \in Nat
  BY BackupAssumption DEF BackupTypes, Snapshot

\* Of some directories the newest.
LEMMA Newest ==
    ASSUME BackupInv, snaps # {}
    PROVE  \E s \in snaps : \A t \in snaps : t.ts <= s.ts
<1>1. PICK m \in Stamps : \A t \in Stamps : t <= m
  <2>1. Stamps # {} /\ Stamps \in SUBSET Stamps
    BY DEF Stamps
  <2> QED
    BY <2>1 DEF BackupInv, Names
<1> QED
  BY <1>1 DEF Stamps

\* A step that changes nothing but the directory of this pass.
LEMMA OwnDirectory ==
    ASSUME BackupInv, Making, UNCHANGED <<now, snapshot_ts, last_backup, latest>>,
           NEW mtime \in 0..now, NEW data \in BOOLEAN, NEW meta \in BOOLEAN,
           \/ snaps' = snaps \ Mine
           \/ snaps' = Made(mtime, data, meta),
           bfaults' \in 0..MaxBackupFaults,
           \/ bpc' = "prune"
           \/ /\ bpc' \in {"meta", "link"} /\ data /\ snaps' = Made(mtime, data, meta)
              /\ meta = (bpc' = "link") /\ (meta => mtime = now)
    PROVE  /\ BackupInv'
           /\ \A s \in snaps : s.ts # snapshot_ts => s \in snaps'
<1> DEFINE n == [ts |-> snapshot_ts, mtime |-> mtime, data |-> data, meta |-> meta]
<1>1. n \in Snapshot /\ n.ts = snapshot_ts /\ n.mtime = mtime /\ n.data = data /\ n.meta = meta
      /\ snapshot_ts \in Stamps /\ snapshot_ts \in 1..now
  BY Ticks DEF Snapshot, BackupInv, BackupTypes, Names
<1>2. \A s : s \in snaps' => (s \in snaps /\ s.ts # snapshot_ts) \/ (s = n /\ snaps' = Made(mtime, data, meta))
  BY DEF Made, Mine
<1>3. \A s \in snaps : s.ts # snapshot_ts => s \in snaps'
  BY DEF Made, Mine
<1>4. snaps' = Made(mtime, data, meta) => n \in snaps'
  BY DEF Made
<1> HIDE DEF n
<1>5. Stamps' \subseteq Stamps
  BY <1>1, <1>2 DEF Stamps
<1>6. BackupTypes'
  BY <1>1, <1>2, Ticks DEF BackupInv, BackupTypes, Snapshot
<1>7. Names'
  <2>1. \A s, t \in snaps' : s.ts = t.ts => s = t
    BY <1>1, <1>2 DEF BackupInv, Names
  <2>2. \A s \in snaps' : s.ts <= now
    BY <1>1, <1>2, Ticks DEF BackupInv, Names
  <2>3. \A T \in SUBSET Stamps' : T = {} \/ \E m \in T : \A t \in T : t <= m
    BY <1>5 DEF BackupInv, Names
  <2>4. bpc' # "prune" => snapshot_ts \in Stamps'
    BY <1>1, <1>4 DEF Stamps
  <2>5. \A s \in snaps' : s.ts = snapshot_ts => s = n
    BY <1>2
  <2>6. \A t \in Stamps' : t <= snapshot_ts
    BY <1>5 DEF BackupInv, Names
  <2>7. last_backup < snapshot_ts
    BY DEF BackupInv, Names, Making
  <2> QED
    BY <1>1, <2>1, <2>2, <2>3, <2>4, <2>5, <2>6, <2>7, Ticks DEF BackupInv, Names, Making, Mine
<1>8. Backed'
  <2>1. last_backup < snapshot_ts
    BY DEF BackupInv, Names, Making
  <2> QED
    BY <1>3, <2>1, Ticks DEF BackupInv, Backed
<1> QED
  BY <1>3, <1>6, <1>7, <1>8 DEF BackupInv

\* A whole snapshot is not lost, or the newest directory is not whole.
Kept ==
    Restorable # {} /\ Restorable' = {} => \E s \in snaps \ Restorable : \A t \in snaps : t.ts <= s.ts

LEMMA CopyBackup ==
    ASSUME BackupInv, (\E returncode \in {0, 1} : Copy(returncode)) \/ WriteMeta
    PROVE  BackupInv' /\ Kept
<1>1. /\ bpc \in {"copy", "meta"} /\ Making /\ now \in Nat
      /\ UNCHANGED <<now, snapshot_ts, last_backup, latest>>
  BY Ticks DEF Copy, WriteMeta, Making, BackupInv
<1>2. bfaults' \in 0..MaxBackupFaults
  <2>1. bfaults' = bfaults \/ BackupFault
    BY DEF Copy, WriteMeta
  <2> QED
    BY <2>1, Ticks DEF BackupFault, BackupInv, BackupTypes
<1> DEFINE Kin == BackupInv' /\ \A s \in snaps : s.ts # snapshot_ts => s \in snaps'
<1>3. ASSUME NEW mtime \in 0..now, NEW data \in BOOLEAN, NEW meta \in BOOLEAN,
             snaps' = snaps \ Mine \/ snaps' = Made(mtime, data, meta),
             \/ bpc' = "prune"
             \/ /\ bpc' \in {"meta", "link"} /\ data /\ snaps' = Made(mtime, data, meta)
                /\ meta = (bpc' = "link") /\ (meta => mtime = now)
      PROVE  Kin
  BY <1>1, <1>2, <1>3, OwnDirectory
<1> HIDE DEF Kin
<1>c. ASSUME CleanUp, bpc' = "prune" PROVE Kin
  <2>1. now \in 0..now /\ FALSE \in BOOLEAN
    BY <1>1
  <2>2. snaps' = snaps \ Mine \/ snaps' = Made(now, FALSE, FALSE)
    BY <1>c DEF CleanUp
  <2> QED
    BY <1>3, <1>c, <2>1, <2>2
<1>4. Kin
  <2>1. CASE \E returncode \in {0, 1} : Copy(returncode)
    <3>1. PICK returncode \in {0, 1} : Copy(returncode)
      BY <2>1
    <3>2. CASE copied(returncode)
      <4>1. PICK mtime \in 0..now : snaps' = Made(mtime, TRUE, FALSE)
        BY <3>1, <3>2 DEF Copy, copied
      <4>2. bpc' = "meta"
        BY <3>1, <3>2 DEF Copy
      <4> QED
        BY <1>3, <4>1, <4>2
    <3>3. CASE ~copied(returncode)
      BY <1>c, <3>1, <3>3 DEF Copy
    <3> QED
      BY <3>2, <3>3
  <2>2. CASE WriteMeta
    <3>1. CASE (\E s \in Mine : snaps' = Made(now, s.data, TRUE)) /\ bpc' = "link"
      <4>1. PICK s \in Mine : snaps' = Made(now, s.data, TRUE)
        BY <3>1
      <4>2. s.data = TRUE
        <5>1. bpc = "meta" /\ s \in snaps
          BY <2>2 DEF WriteMeta, Mine
        <5>2. s.data /\ s \in Snapshot
          BY <5>1, Ticks DEF BackupInv, Names
        <5> QED
          BY <5>2 DEF Snapshot
      <4>3. Made(now, s.data, TRUE) = Made(now, TRUE, TRUE)
        <5>1. ASSUME NEW b, b = TRUE PROVE Made(now, b, TRUE) = Made(now, TRUE, TRUE)
          BY <5>1, Zenon
        <5> QED
          BY <4>2, <5>1
      <4>4. snaps' = Made(now, TRUE, TRUE)
        BY <4>1, <4>3
      <4>5. now \in 0..now
        BY <1>1
      <4> QED
        BY <1>3, <3>1, <4>4, <4>5
    <3>2. CASE CleanUp /\ bpc' = "prune"
      BY <1>c, <3>2
    <3> QED
      BY <2>2, <3>1, <3>2 DEF WriteMeta
  <2> QED
    BY <2>1, <2>2
<1>5. Restorable \subseteq Restorable'
  <2> SUFFICES ASSUME NEW s \in Restorable PROVE s \in Restorable'
    OBVIOUS
  <2>1. s \in snaps /\ s.data /\ s.meta /\ s.ts # snapshot_ts
    BY <1>1 DEF Restorable, BackupInv, Names, Mine
  <2> QED
    BY <1>1, <1>4, <2>1 DEF Restorable, Kin
<1> QED
  BY <1>4, <1>5 DEF Kept, Kin

\* A step that removes no directory and tears none.
LEMMA NothingRemoved ==
    ASSUME snaps \subseteq snaps'
    PROVE  Kept
  BY DEF Kept, Restorable

LEMMA BeginBackup ==
    ASSUME BackupInv, Begin
    PROVE  BackupInv' /\ Kept
<1>1. /\ bpc = "idle" /\ (\A s \in snaps : s.ts < now)
      /\ UNCHANGED <<now, last_backup, latest>>
      /\ bfaults' \in 0..MaxBackupFaults
  BY Ticks DEF Begin, BackupFault, BackupInv, BackupTypes
<1>2. CASE bpc' = "prune" /\ UNCHANGED <<snaps, snapshot_ts>>
  <2>1. Kept
    BY <1>2, NothingRemoved
  <2> QED
    BY <1>1, <1>2, <2>1 DEF BackupInv, BackupTypes, Names, Backed, Stamps, Making, Mine
<1>3. ASSUME snapshot_ts' = now, bpc' = "copy",
             snaps' = snaps \cup {[ts |-> now, mtime |-> now, data |-> FALSE, meta |-> FALSE]}
      PROVE  BackupInv' /\ Kept
  <2> DEFINE n == [ts |-> now, mtime |-> now, data |-> FALSE, meta |-> FALSE]
  <2>1. n \in Snapshot /\ n.ts = now /\ n.meta = FALSE
    BY Ticks DEF Snapshot, BackupInv
  <2>2. snaps' = snaps \cup {n}
    BY <1>3
  <2> HIDE DEF n
  <2>3. Stamps' = Stamps \cup {now} /\ \A t \in Stamps : t < now
    BY <1>1, <2>1, <2>2 DEF Stamps
  <2>4. BackupTypes'
    BY <1>1, <1>3, <2>1, <2>2, Ticks DEF BackupInv, BackupTypes, Snapshot
  <2>5. last_backup < now
    BY <1>1, Ticks DEF BackupInv, Backed
  <2>6. Names'
    <3>1. \A s, t \in snaps' : s.ts = t.ts => s = t
      BY <1>1, <2>1, <2>2, Ticks DEF BackupInv, Names
    <3>2. \A s \in snaps' : s.ts <= now
      BY <2>1, <2>2, Ticks DEF BackupInv, Names
    <3>3. \A t \in Stamps' : t <= now
      BY <2>3, <3>2 DEF Stamps
    <3>4. \A T \in SUBSET Stamps' : T = {} \/ \E m \in T : \A t \in T : t <= m
      <4> SUFFICES ASSUME NEW T \in SUBSET Stamps', T # {}
                   PROVE  \E m \in T : \A t \in T : t <= m
        OBVIOUS
      <4>1. CASE now \in T
        BY <3>3, <4>1
      <4>2. CASE now \notin T
        BY <2>3, <4>2 DEF BackupInv, Names
      <4> QED
        BY <4>1, <4>2
    <3>5. \A s \in Mine' : s = n
      BY <1>1, <1>3, <2>1, <2>2, Ticks DEF Mine, BackupInv
    <3> QED
      BY <1>1, <1>3, <2>1, <2>3, <2>5, <3>1, <3>2, <3>3, <3>4, <3>5, Ticks
      DEF BackupInv, Names, Making
  <2>7. Backed'
    BY <1>1, <2>2 DEF BackupInv, Backed
  <2>8. Kept
    BY <1>3, <2>2, NothingRemoved
  <2> QED
    BY <2>4, <2>6, <2>7, <2>8 DEF BackupInv
<1> QED
  BY <1>2, <1>3 DEF Begin

LEMMA RecordBackup ==
    ASSUME BackupInv, HalfHour \/ _atomic_symlink \/ WriteLastBackup
    PROVE  BackupInv' /\ Kept
<1>1. snaps' = snaps /\ snapshot_ts' = snapshot_ts /\ Stamps' = Stamps
  BY DEF HalfHour, _atomic_symlink, WriteLastBackup, Stamps
<1>2. CASE HalfHour
  <2>1. /\ now' = now + 1 /\ now < MaxTicks
        /\ UNCHANGED <<bpc, last_backup, latest, bfaults>>
    BY <1>2 DEF HalfHour
  <2>2. BackupTypes'
    BY <1>1, <2>1, Ticks DEF BackupInv, BackupTypes
  <2>3. Names'
    <3>1. \A s \in snaps' : s.ts <= now'
      BY <1>1, <2>1, Ticks DEF BackupInv, Names
    <3> QED
      BY <1>1, <2>1, <3>1 DEF BackupInv, Names, Making, Mine
  <2>4. Backed'
    BY <1>1, <2>1, Ticks DEF BackupInv, Backed
  <2>5. Kept
    BY <1>1, <2>1 DEF Kept, Restorable
  <2> QED
    BY <2>2, <2>3, <2>4, <2>5 DEF BackupInv
<1>3. CASE _atomic_symlink
  <2>1. /\ bpc = "link" /\ bpc' \in {"text", "prune"}
        /\ UNCHANGED <<now, last_backup>> /\ latest' \in {latest, snapshot_ts}
        /\ bfaults' \in 0..MaxBackupFaults
    BY <1>3, Ticks DEF _atomic_symlink, BackupFault, BackupInv, BackupTypes
  <2>2. BackupTypes'
    BY <1>1, <2>1 DEF BackupInv, BackupTypes
  <2>3. Names' /\ Backed'
    BY <1>1, <2>1 DEF BackupInv, Names, Making, Mine, Backed
  <2>4. Kept
    BY <1>1, <2>1, NothingRemoved
  <2> QED
    BY <2>2, <2>3, <2>4 DEF BackupInv
<1>4. CASE WriteLastBackup
  <2>1. /\ bpc = "text" /\ bpc' = "prune"
        /\ UNCHANGED <<now, latest>> /\ last_backup' \in {0, last_backup, snapshot_ts}
        /\ bfaults' \in 0..MaxBackupFaults
    BY <1>4, Ticks DEF WriteLastBackup, BackupFault, BackupInv, BackupTypes
  <2>2. BackupTypes'
    BY <1>1, <2>1, Ticks DEF BackupInv, BackupTypes
  <2>3. Names'
    BY <1>1, <2>1 DEF BackupInv, Names, Making, Mine
  <2>4. \E s \in snaps : s.ts = snapshot_ts /\ s.data /\ s.meta /\ s.mtime >= s.ts
    <3>1. PICK s \in snaps : s.ts = snapshot_ts
      BY <2>1 DEF BackupInv, Names, Making, Stamps
    <3> QED
      BY <2>1, <3>1 DEF BackupInv, Names, Mine
  <2>5. Backed'
    BY <1>1, <2>1, <2>4 DEF BackupInv, Backed
  <2>6. Kept
    BY <1>1, <2>1, NothingRemoved
  <2> QED
    BY <2>2, <2>3, <2>5, <2>6 DEF BackupInv
<1> QED
  BY <1>2, <1>3, <1>4

\* The removals: all of what is gone is old, and so is what is torn.
LEMMA Removal ==
    ASSUME BackupInv, bpc = "prune", bpc' = "idle", snapshot_ts' = 0,
           UNCHANGED <<now, last_backup, latest>>, bfaults' \in 0..MaxBackupFaults,
           NEW gone \in SUBSET Old, NEW half \in SUBSET gone,
           snaps' = (snaps \ gone) \cup Broken(half)
    PROVE  BackupInv' /\ Kept
<1>1. \A s \in gone : s \in snaps /\ s \in Snapshot /\ s.mtime + KeepFor < now /\ s \notin forced_keep
  BY Ticks DEF Old, BackupInv
<1>2. \A b \in Broken(half) : /\ b \in Snapshot /\ ~b.data /\ b \notin snaps \ gone
                              /\ \E s \in half : b = [ts |-> s.ts, mtime |-> now, data |-> FALSE, meta |-> FALSE]
  <2> SUFFICES ASSUME NEW s \in half
               PROVE  LET b == [ts |-> s.ts, mtime |-> now, data |-> FALSE, meta |-> FALSE]
                      IN  b \in Snapshot /\ b \notin snaps \ gone
    BY DEF Broken
  <2>1. s \in gone /\ s \in snaps /\ s \in Snapshot
    BY <1>1
  <2>2. [ts |-> s.ts, mtime |-> now, data |-> FALSE, meta |-> FALSE] \in Snapshot
    BY <2>1, Ticks DEF Snapshot, BackupInv, BackupTypes
  <2>3. \A t \in snaps \ gone : t.ts # s.ts
    BY <2>1 DEF BackupInv, Names
  <2> QED
    BY <2>2, <2>3
<1>3. \A b \in snaps' : \E s \in snaps : b.ts = s.ts
  BY <1>1, <1>2
<1>s. Stamps' \subseteq Stamps
  BY <1>3 DEF Stamps
<1>4. BackupTypes'
  <2>1. snaps' \subseteq Snapshot
    BY <1>2, Ticks DEF BackupInv
  <2> QED
    BY <2>1, Ticks DEF BackupInv, BackupTypes, Snapshot
<1>5. Names'
  <2>1. \A s, t \in snaps' : s.ts = t.ts => s = t
    <3>1. \A s, t \in snaps \ gone : s.ts = t.ts => s = t
      BY DEF BackupInv, Names
    <3>2. \A s \in snaps \ gone, t \in Broken(half) : s.ts # t.ts
      BY <1>1, <1>2 DEF BackupInv, Names
    <3>3. \A s, t \in Broken(half) : s.ts = t.ts => s = t
      <4>1. \A s \in Broken(half) : s = [ts |-> s.ts, mtime |-> now, data |-> FALSE, meta |-> FALSE]
        BY <1>2
      <4> QED
        BY <4>1
    <3> QED
      BY <3>1, <3>2, <3>3
  <2>2. \A s \in snaps' : s.ts <= now
    BY <1>3 DEF BackupInv, Names
  <2> QED
    BY <1>s, <2>1, <2>2 DEF BackupInv, Names, Making
<1>6. Backed'
  <2> SUFFICES ASSUME last_backup > 0, ~(last_backup + KeepFor < now)
               PROVE  \E s \in snaps' : s.ts = last_backup /\ s.data /\ s.meta /\ s.mtime >= s.ts
    BY DEF Backed
  <2>1. PICK s \in snaps : s.ts = last_backup /\ s.data /\ s.meta /\ s.mtime >= s.ts
    BY DEF BackupInv, Backed
  <2>2. s \notin gone
    BY <1>1, <2>1, Ticks DEF BackupInv
  <2> QED
    BY <2>1, <2>2
<1>7. Kept
  <2> SUFFICES ASSUME Restorable # {}, Restorable' = {}
               PROVE  \E s \in snaps \ Restorable : \A t \in snaps : t.ts <= s.ts
    BY DEF Kept
  <2>1. PICK s \in snaps : \A t \in snaps : t.ts <= s.ts
    BY Newest DEF Restorable
  <2>2. s \in snaps'
    BY <1>1, <2>1 DEF forced_keep
  <2>3. s \notin Restorable
    BY <2>2 DEF Restorable
  <2> QED
    BY <2>1, <2>3
<1> QED
  BY <1>4, <1>5, <1>6, <1>7 DEF BackupInv

LEMMA PruneBackup ==
    ASSUME BackupInv, Prune
    PROVE  BackupInv' /\ Kept
<1>1. /\ bpc = "prune" /\ bpc' = "idle" /\ snapshot_ts' = 0
      /\ UNCHANGED <<now, last_backup, latest>> /\ bfaults' \in 0..MaxBackupFaults
  <2>1. bfaults' = bfaults \/ BackupFault
    BY DEF Prune
  <2> QED
    BY <2>1, Ticks DEF Prune, BackupFault, BackupInv, BackupTypes
<1>2. ASSUME NEW gone \in SUBSET Old, NEW half \in SUBSET gone,
             snaps' = (snaps \ gone) \cup Broken(half)
      PROVE  BackupInv' /\ Kept
  BY <1>1, <1>2, Removal
<1>e. Broken({}) = {} /\ Old \in SUBSET Old /\ \A S : {} \in SUBSET S
  BY DEF Broken
<1>3. CASE snaps' = snaps \ Old
  <2>1. snaps' = (snaps \ Old) \cup Broken({})
    BY <1>e, <1>3
  <2> QED
    BY <1>2, <1>e, <2>1
<1>4. ASSUME NEW s \in Old, snaps' = snaps \ (Old \ {s}) PROVE BackupInv' /\ Kept
  <2>1. snaps' = (snaps \ (Old \ {s})) \cup Broken({}) /\ Old \ {s} \in SUBSET Old
    BY <1>e, <1>4
  <2> QED
    BY <1>2, <1>e, <2>1
<1>5. ASSUME NEW s \in Old, snaps' = (snaps \ Old) \cup Broken({s}) PROVE BackupInv' /\ Kept
  <2>1. {s} \in SUBSET Old
    OBVIOUS
  <2> QED
    BY <1>2, <1>5, <1>e, <2>1
<1> QED
  BY <1>3, <1>4, <1>5 DEF Prune

LEMMA DyingBackup ==
    ASSUME BackupInv, BackupDies
    PROVE  BackupInv' /\ Kept
<1>1. /\ bpc # "idle" /\ bpc' = "idle" /\ snapshot_ts' = 0 /\ UNCHANGED <<now, latest>>
      /\ bfaults' \in 0..MaxBackupFaults
      /\ last_backup' \in {0, last_backup} /\ (bpc = "prune" => last_backup' = last_backup)
  BY Ticks DEF BackupDies, BackupFault, BackupInv, BackupTypes
<1>2. CASE snaps' = snaps
  <2>1. BackupTypes'
    BY <1>1, <1>2, Ticks DEF BackupInv, BackupTypes
  <2>2. Names' /\ Backed'
    BY <1>1, <1>2 DEF BackupInv, Names, Making, Backed, Stamps
  <2>3. Kept
    BY <1>1, <1>2, NothingRemoved
  <2> QED
    BY <2>1, <2>2, <2>3 DEF BackupInv
<1>3. ASSUME bpc = "prune", NEW gone \in SUBSET Old, NEW s \in Old,
             snaps' = (snaps \ (gone \cup {s})) \cup Broken({s})
      PROVE  BackupInv' /\ Kept
  <2>1. gone \cup {s} \in SUBSET Old /\ {s} \in SUBSET (gone \cup {s})
    BY <1>3
  <2> QED
    BY <1>1, <1>3, <2>1, Removal
<1> QED
  BY <1>2, <1>3 DEF BackupDies

LEMMA BackupStep == BackupInv /\ [BackupNext]_backupVars => BackupInv' /\ Kept
<1> SUFFICES ASSUME BackupInv, [BackupNext]_backupVars PROVE BackupInv' /\ Kept
  OBVIOUS
<1>1. CASE BackupNext
  BY <1>1, CopyBackup, BeginBackup, RecordBackup, PruneBackup, DyingBackup DEF BackupNext
<1>2. CASE UNCHANGED backupVars
  BY <1>2 DEF backupVars, BackupInv, BackupTypes, Names, Backed, Stamps, Making, Mine, Kept, Restorable
<1> QED
  BY <1>1, <1>2

LEMMA BackupInvariance == BackupSpec => []BackupInv
  BY InitBackup, BackupStep, PTL DEF BackupSpec

\* "ok" on the panel is honest: whatever passes have failed, died or torn, a
\* whole snapshot no older than the panel's limit is in the directory.
THEOREM OkHealthIsHonest == BackupSpec => []HealthIsHonest
<1>1. BackupInv => HealthIsHonest
  <2> SUFFICES ASSUME BackupInv, health = "ok"
               PROVE  \E s \in Restorable : now <= s.ts + HealthyFor
    BY DEF HealthIsHonest
  <2>1. last_backup # 0 /\ now <= last_backup + HealthyFor
    BY DEF health
  <2>2. last_backup > 0 /\ ~(last_backup + KeepFor < now)
    BY <2>1, Ticks DEF BackupInv
  <2>3. PICK s \in snaps : s.ts = last_backup /\ s.data /\ s.meta
    BY <2>2 DEF BackupInv, Backed
  <2> QED
    BY <2>1, <2>3 DEF Restorable
<1> QED
  BY BackupInvariance, <1>1, PTL

\* No step loses the last restore point, except in favour of a newest directory
\* that a crash or a failed clean-up has left incomplete.
THEOREM RestorePointStays == BackupSpec => RestorePointKept
<1>1. BackupInv /\ [BackupNext]_backupVars => [Kept]_backupVars
  BY BackupStep
<1>2. BackupSpec => [][Kept]_backupVars
  BY BackupInvariance, <1>1, PTL DEF BackupSpec
<1> QED
  BY <1>2 DEF RestorePointKept, Kept

-----------------------------------------------------------------------------
(* All of them: proofs *)

ServicesInv ==
    /\ focus \in {"lanes", "discover", "unit", "backup"}
    /\ LaneInv /\ DiscoverInv /\ UnitInv /\ BackupInv

LEMMA InitServices == Init => ServicesInv
  BY InitLanes, InitDiscover, InitUnit, InitBackup DEF Init, ServicesInv

LEMMA ServicesStep == ServicesInv /\ [Next]_vars => ServicesInv'
<1> SUFFICES ASSUME ServicesInv, [Next]_vars PROVE ServicesInv'
  OBVIOUS
<1>1. [LaneNext]_laneVars /\ [DiscoverNext]_discoverVars
      /\ [UnitNext]_unitVars /\ [BackupNext]_backupVars /\ focus' = focus
  BY DEF Next, vars
<1> QED
  BY <1>1, LaneStep, DiscoverStep, UnitStep, BackupStep DEF ServicesInv

\* The variables keep their types, whichever of the components moves.
THEOREM ServicesTypeCorrect == Spec => []ServicesTypeOK
<1>1. ServicesInv => ServicesTypeOK
  <2> SUFFICES ASSUME ServicesInv PROVE ServicesTypeOK
    OBVIOUS
  <2>1. LaneTypeOK
    BY DEF ServicesInv, LaneInv, LaneTypes, LaneTypeOK
  <2>2. DiscoverTypeOK
    BY DEF ServicesInv, DiscoverInv, DiscoverTypes, DiscoverTypeOK, Cursor
  <2>3. UnitTypeOK
    BY DEF ServicesInv, UnitInv, UnitTypes, UnitRecord, SpecRecord, Activation, UnitTypeOK
  <2>4. BackupTypeOK
    BY Ticks DEF ServicesInv, BackupInv, BackupTypes, BackupTypeOK
  <2> QED
    BY <2>1, <2>2, <2>3, <2>4 DEF ServicesInv, ServicesTypeOK
<1> QED
  BY InitServices, ServicesStep, <1>1, PTL DEF Spec

=============================================================================
