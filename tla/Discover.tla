------------------------------- MODULE Discover -------------------------------
(***************************************************************************)
(* Discovery (discover/): passes over the model hub that append what they  *)
(* have not seen to candidates.jsonl and then save a cursor. Nothing is    *)
(* locked: the daemon (curated) and a pass by hand share both files.       *)
(***************************************************************************)
EXTENDS Naturals, FiniteSets

CONSTANTS
    Passes,       \* the daemon, a pass by hand
    ModesOf,      \* Passes -> subset of {"curated", "backfill", "incremental", "auto"}
    Resetters,    \* the passes that may be called with --reset
    HubModels,    \* models the hub has or will have
    OffModality,  \* of these, those whose modality no pass wants
    Gated,        \* of these, the private and gated ones, which a curated pass takes
    Curated,      \* of these, those of whitelisted organisations or trending
    FromDate,     \* config.from_date, in ticks of the hub's clock
    MaxTime,      \* bound on that clock
    MaxPages,     \* mode -> pages a paginator reads at most, one model a page
    MaxRounds,    \* bound on the passes made
    MaxPassFaults \* bound on crashes and failed requests

ASSUME DiscoverAssumption ==
    /\ FromDate \in Nat \ {0} /\ MaxTime \in Nat /\ MaxTime >= FromDate
    /\ OffModality \subseteq HubModels /\ Gated \subseteq HubModels /\ Curated \subseteq HubModels
    /\ ModesOf \in [Passes -> SUBSET {"curated", "backfill", "incremental", "auto"}]

VARIABLES
    clock,
    modified,   \* model -> its latest lastModified on the hub, 0 before it is published
    rows,       \* models with a row in candidates.jsonl
    torn,       \* the last line of candidates.jsonl is incomplete
    cursor,     \* cursor.json
    pass,       \* pass -> where it is, its cursor in memory, what it found
    dropped,    \* models some pass left behind though it moved last_run_ts
    swallowed,  \* models whose row was written on to a torn line
    purged,     \* models whose rows --reset removed under another's cursor
    rounds,     \* passes made
    dfaults

discoverVars == <<clock, modified, rows, torn, cursor, pass, dropped, swallowed, purged, rounds, dfaults>>
files == <<rows, torn, cursor>>
excuses == <<dropped, swallowed, purged>>

NoCursor == [known |-> {}, last |-> 0, complete |-> FALSE]
NoPass == [pc |-> "idle", mode |-> "auto", mem |-> NoCursor, new |-> {}, got |-> {},
           cut |-> FALSE, finished |-> FALSE, missed |-> {}]

DiscoverInit ==
    /\ clock = FromDate /\ modified \in [HubModels -> {0, FromDate - 1, FromDate}]
    /\ rows = {} /\ torn = FALSE /\ cursor = NoCursor
    /\ pass = [p \in Passes |-> NoPass]
    /\ dropped = {} /\ swallowed = {} /\ purged = {} /\ rounds = 0 /\ dfaults = 0

Hub == {m \in HubModels : modified[m] > 0}
Unwanted == OffModality \cup Gated    \* by backfill and incremental
PassFault == dfaults < MaxPassFaults /\ dfaults' = dfaults + 1
Live(p) == pass[p].pc # "idle"

\* A model that is published or updated is the newest of the hub from now on: it
\* is in front of what a pass that has begun to read will be given next.
Touched(m) ==
    /\ modified' = [modified EXCEPT ![m] = clock]
    /\ pass' = [p \in Passes |->
          IF pass[p].pc = "end" \/ (pass[p].pc = "read" /\ pass[p].got # {})
          THEN [pass[p] EXCEPT !.missed = @ \cup {m}] ELSE pass[p]]
    /\ dropped' = dropped \ {m}
    /\ UNCHANGED <<clock, files, swallowed, purged, rounds, dfaults>>

Publish(m) == m \notin Hub /\ Touched(m)
Update(m) == m \in Hub /\ Touched(m)

Tick ==
    /\ clock < MaxTime /\ clock' = clock + 1
    /\ UNCHANGED <<modified, files, pass, excuses, rounds, dfaults>>

-----------------------------------------------------------------------------
(* cmd_once *)

\* --reset: candidates.jsonl is unlinked, then cursor.json.
PurgeCandidates(p) ==
    /\ ~Live(p) /\ p \in Resetters
    /\ purged' = purged \cup rows
    /\ rows' = {} /\ torn' = FALSE
    /\ pass' = [pass EXCEPT ![p].pc = "purge"]
    /\ UNCHANGED <<clock, modified, cursor, dropped, swallowed, rounds, dfaults>>

PurgeCursor(p) ==
    /\ pass[p].pc = "purge"
    /\ cursor' = NoCursor
    /\ purged' = {m \in purged : \E q \in Passes \ {p} : Live(q) /\ m \in pass[q].mem.known}
    /\ pass' = [pass EXCEPT ![p] = [NoPass EXCEPT !.pc = "load"]]
    /\ UNCHANGED <<clock, modified, rows, torn, dropped, swallowed, rounds, dfaults>>

\* load_cursor, and the mode of the pass.
Load(p) ==
    /\ pass[p].pc \in {"idle", "load"} /\ rounds < MaxRounds /\ rounds' = rounds + 1
    /\ \E mode \in ModesOf[p] :
        pass' = [pass EXCEPT ![p] = [NoPass EXCEPT
            !.pc = "read", !.mem = cursor,
            !.mode = IF mode # "auto" THEN mode
                     ELSE IF cursor.complete THEN "incremental" ELSE "backfill"]]
    /\ UNCHANGED <<clock, modified, files, excuses, dfaults>>

\* scan_round: every listing it makes may fail, is limited, or leaves out what
\* is not popular enough today; what it wants and does not know yet is new. It
\* does not ask whether a model is private or gated.
ScanCurated(p) ==
    /\ pass[p].pc = "read" /\ pass[p].mode = "curated"
    /\ \E listed \in SUBSET (Curated \cap Hub) :
        LET new == {m \in listed \ OffModality : modified[m] >= FromDate} \ pass[p].mem.known
        IN pass' = [pass EXCEPT ![p].new = new, ![p].mem.known = @ \cup new,
                                ![p].cut = TRUE, ![p].pc = "end"]
    /\ UNCHANGED <<clock, modified, files, excuses, rounds, dfaults>>

\* Mutant: an incremental pass that stops at models of the cutoff's own second.
too_old_AtCutoff(p, m) ==
    modified[m] <= (IF pass[p].mode = "incremental" /\ pass[p].mem.last > 0
                    THEN pass[p].mem.last ELSE FromDate)

\* Where scan_backfill and scan_incremental stop, newest first.
too_old(p, m) ==
    modified[m] < (IF pass[p].mode = "incremental" /\ pass[p].mem.last > 0
                   THEN pass[p].mem.last ELSE FromDate)

\* What the paginator gives next: pages go on from the last model delivered.
Following(p) == Hub \ (pass[p].got \cup pass[p].missed)
NextOnes(p) == {m \in Following(p) : \A n \in Following(p) : modified[n] <= modified[m]}
Paging(p) == pass[p].pc = "read" /\ pass[p].mode # "curated"

ReadModel(p) ==
    /\ Paging(p) /\ Cardinality(pass[p].got) < MaxPages[pass[p].mode]
    /\ \E m \in NextOnes(p) :
        IF too_old(p, m)
        THEN pass' = [pass EXCEPT ![p].got = @ \cup {m}, ![p].pc = "end",
                                  ![p].finished = pass[p].mode = "backfill"]
        ELSE LET new == {m} \ (Unwanted \cup pass[p].mem.known) IN
             pass' = [pass EXCEPT ![p].got = @ \cup {m},
                                  ![p].new = @ \cup new, ![p].mem.known = @ \cup new]
    /\ UNCHANGED <<clock, modified, files, excuses, rounds, dfaults>>

\* The paginator returns, and does not say why: no more models, a request that
\* failed for good, or max_pages. A backfill that saw no model has finished.
ReadEnds(p) ==
    /\ Paging(p)
    /\ \E cut \in BOOLEAN :
        /\ IF cut THEN \/ Cardinality(pass[p].got) = MaxPages[pass[p].mode] /\ UNCHANGED dfaults
                       \/ Cardinality(pass[p].got) < MaxPages[pass[p].mode] /\ PassFault
                  ELSE NextOnes(p) = {} /\ UNCHANGED dfaults
        /\ pass' = [pass EXCEPT ![p].pc = "end", ![p].cut = cut,
                                ![p].finished = pass[p].mode = "backfill" /\ pass[p].got = {}]
    /\ UNCHANGED <<clock, modified, files, excuses, rounds>>

\* Mutant: the cursor is saved before the rows are appended.
writes_first_Cursor == "save"

\* cmd_once appends, then saves.
writes_first == "append"

AfterWrite(p, this, other) == IF this = writes_first THEN [pass[p] EXCEPT !.pc = other] ELSE NoPass

\* The cursor in memory at the end of the scan: last_run_ts is now, whatever
\* the listing showed and when it began.
EndScan(p) ==
    /\ pass[p].pc = "end"
    /\ LET left == {m \in Hub \ (Unwanted \cup pass[p].mem.known) : pass[p].cut}
                     \cup (pass[p].missed \ pass[p].mem.known)
       IN pass' = [pass EXCEPT ![p].pc = writes_first, ![p].mem.last = clock, ![p].missed = left,
                               ![p].mem.complete = @ \/ pass[p].finished]
    /\ UNCHANGED <<clock, modified, files, excuses, rounds, dfaults>>

\* Rows reach the file; the first one is lost when it continues a torn line.
Written(ids) ==
    \E first \in IF torn /\ ids # {} THEN {{m} : m \in ids} ELSE {{}} :
        /\ rows' = rows \cup (ids \ first)
        /\ swallowed' = (swallowed \ (ids \ first)) \cup (first \ rows)

\* append_candidates: the rows reach the file and the disk.
AppendRows(p) ==
    /\ pass[p].pc = "append"
    /\ Written(pass[p].new)
    /\ torn' = (torn /\ pass[p].new = {})
    /\ pass' = [pass EXCEPT ![p] = AfterWrite(p, "append", "save")]
    /\ UNCHANGED <<clock, modified, cursor, dropped, purged, rounds, dfaults>>

\* save_cursor: the file is replaced. What another pass has saved meanwhile is
\* forgotten.
Save(p) ==
    /\ pass[p].pc = "save"
    /\ cursor' = pass[p].mem
    /\ dropped' = (dropped \cup pass[p].missed) \ rows
    /\ pass' = [pass EXCEPT ![p] = AfterWrite(p, "save", "append")]
    /\ UNCHANGED <<clock, modified, rows, torn, swallowed, purged, rounds, dfaults>>

\* The process dies: between the two unlinks, in the scan, in the middle of the
\* rows (the last one may be incomplete), or before the cursor is saved.
Crash(p) ==
    /\ Live(p) /\ PassFault
    /\ IF pass[p].pc = "append"
       THEN \E some \in SUBSET pass[p].new :
                Written(some) /\ torn' \in {torn /\ some = {}, pass[p].new # some}
       ELSE UNCHANGED <<rows, torn, swallowed>>
    /\ pass' = [pass EXCEPT ![p] = NoPass]
    /\ UNCHANGED <<clock, modified, cursor, dropped, purged, rounds>>

DiscoverNext ==
    \/ Tick \/ \E m \in HubModels : Publish(m) \/ Update(m)
    \/ \E p \in Passes : \/ PurgeCandidates(p) \/ PurgeCursor(p) \/ Load(p) \/ ScanCurated(p)
                         \/ ReadModel(p) \/ ReadEnds(p) \/ EndScan(p) \/ AppendRows(p)
                         \/ Save(p) \/ Crash(p)

DiscoverSpec == DiscoverInit /\ [][DiscoverNext]_discoverVars

-----------------------------------------------------------------------------
(* Properties *)

\* The variables keep their types.
DiscoverTypeOK ==
    /\ clock \in FromDate..MaxTime /\ modified \in [HubModels -> 0..MaxTime]
    /\ rows \subseteq HubModels /\ torn \in BOOLEAN
    /\ cursor.known \subseteq HubModels \ OffModality /\ cursor.last \in 0..MaxTime
    /\ \A p \in Passes : pass[p].new \subseteq pass[p].mem.known

\* What the cursor says was seen has a row, in spite of crashes: a model in
\* `seen` without one is never found again. Only a row written on to a line
\* that a crash left incomplete, or a --reset that was cut short or overlapped
\* with another pass, breaks this.
SeenHasRow == \A m \in cursor.known \ rows : m \in swallowed \cup purged

\* A model that no later incremental pass will look at, since it is older than
\* last_run_ts, has a row, unless some pass moved last_run_ts past it: one that
\* was cut short, a curated one, or one that was reading when the model was last
\* published or updated.
NothingMissedSilently ==
    (cursor.complete /\ \A p \in Passes : ~Live(p)) =>
        \A m \in Hub \ (Unwanted \cup rows) :
            FromDate <= modified[m] /\ modified[m] < cursor.last
                => m \in dropped \cup swallowed \cup purged

=============================================================================
