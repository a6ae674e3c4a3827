------------------------------- MODULE JobQueue -------------------------------
(***************************************************************************)
(* queue.jsonl between its enqueuers (the quarter-hourly timer, which runs *)
(* `discover.main enqueue` with skip_if_recent, operators typing `enqueue` *)
(* and the panel) and its consumers: the service, cmd_loop, and `run`,     *)
(* which an operator types to consume one job; enqueue and pop_one of      *)
(* orchestrator/main.py.  Nothing locks the file: an enqueuer reads it,    *)
(* reads the index twice or more and appends; a consumer reads it all,     *)
(* truncates it and writes back all lines but the first.                   *)
(*                                                                         *)
(* Runs are numbered in the order of their enqueue.  What a run does       *)
(* between in_progress and its end, and `resume`, are module RunPipeline.  *)
(***************************************************************************)
EXTENDS Naturals, Sequences, SequencesExt

CONSTANTS
    Models,      \* hf_ids
    Timers,      \* enqueuers that pass skip_if_recent=True
    Shells,      \* enqueuers that pass skip_if_recent=False
    Loop,        \* the consumer that is the service
    Hands,       \* the commands `run`, each of which is typed once
    None,        \* "no model"
    Garbled,     \* a line that is not JSON
    MaxJobs,     \* bound: jobs enqueued
    MaxCrashes   \* bound: how often a consumer dies

Enqueuers == Timers \cup Shells
Consumers == {Loop} \cup Hands
Jobs == 1..MaxJobs
Active == {"pending", "in_progress"}
Ended == {"ok", "failed"}   \* failed is also aborted, which the dedup treats alike

ASSUME QueueAssumption ==
    /\ None \notin Models /\ Loop \notin Hands
    /\ Garbled \notin Jobs
    /\ MaxJobs \in Nat
    /\ MaxCrashes \in Nat

VARIABLES
    queue,     \* the lines of queue.jsonl
    rows,      \* the runs of the index, oldest first: [run, status]
    model,     \* model[j]: the hf_id job j was enqueued for
    accepted,  \* number of run ids that enqueue has returned
    epc,       \* epc[e]: where enqueuer e is in enqueue
    wanted,    \* wanted[e]: the hf_id e is asked to add
    pending,   \* pending[e]: the hf_ids e has read in the queue
    cpc,       \* cpc[c]: where consumer c is in cmd_loop or cmd_run
    lines,     \* lines[c]: the lines pop_one has read
    hand,      \* hand[c]: the job c has popped, 0: none
    crashes,   \* how often a consumer has died
    popped,    \* the jobs popped so far, in that order (history)
    exposed,   \* jobs appended during a pop, or held by a consumer that died (history)
    clashed    \* jobs in the file or in a pop when a second pop began (history)

file == <<queue, rows>>
enqueuer == <<model, accepted, epc, wanted, pending>>
consumer == <<cpc, lines, hand>>
history == <<popped, exposed, clashed>>
vars == <<file, enqueuer, consumer, crashes, history>>

-----------------------------------------------------------------------------
(* enqueue *)

\* The jobs of some lines, of those that are JSON.
Ids(s) == ToSet(s) \ {Garbled}

hf_ids_in_queue == {model[j] : j \in Ids(queue)}

hf_ids_in_progress ==
    {model[rows[i].run] : i \in {k \in 1..Len(rows) : rows[k].status \in Active}}

\* The rows of m in a recency window, 30 days or 12 hours, whose first is the n-th.
Recent(m, n) == {i \in n..Len(rows) : model[rows[i].run] = m}

has_recent_successful_run(m, n) == \E i \in Recent(m, n) : rows[i].status = "ok"

\* The most recent row decides.
has_recent_failed_run(m, n) ==
    \E i \in Recent(m, n) :
        /\ rows[i].status = "failed"
        /\ \A k \in Recent(m, n) : k <= i

Step(e, l) == epc' = [epc EXCEPT ![e] = l]

ReadQueue(e) ==
    /\ epc[e] = "idle"
    /\ accepted < MaxJobs
    /\ \E m \in Models : wanted' = [wanted EXCEPT ![e] = m]
    /\ pending' = [pending EXCEPT ![e] = hf_ids_in_queue]
    /\ Step(e, "rows")
    /\ UNCHANGED <<file, model, accepted, consumer, crashes, history>>

GiveUp(e) ==
    /\ Step(e, "idle")
    /\ wanted' = [wanted EXCEPT ![e] = None]
    /\ pending' = [pending EXCEPT ![e] = {}]

\* The dedup decides on the union of two reads at different times, once.
ReadIndex(e) ==
    /\ epc[e] = "rows"
    /\ \/ /\ wanted[e] \in pending[e] \cup hf_ids_in_progress
          /\ GiveUp(e)
       \/ /\ wanted[e] \notin pending[e] \cup hf_ids_in_progress
          /\ Step(e, IF e \in Timers THEN "recent_ok" ELSE "append")
          /\ pending' = [pending EXCEPT ![e] = {}]
          /\ UNCHANGED wanted
    /\ UNCHANGED <<file, model, accepted, consumer, crashes, history>>

\* Time passes: the window may begin at any row.
CheckRecent(e) ==
    \E n \in 1..(Len(rows) + 1) :
        /\ \/ /\ epc[e] = "recent_ok"
              /\ IF has_recent_successful_run(wanted[e], n)
                 THEN GiveUp(e)
                 ELSE Step(e, "recent_failed") /\ UNCHANGED <<wanted, pending>>
           \/ /\ epc[e] = "recent_failed"
              /\ IF has_recent_failed_run(wanted[e], n)
                 THEN GiveUp(e)
                 ELSE Step(e, "append") /\ UNCHANGED <<wanted, pending>>
        /\ UNCHANGED <<file, model, accepted, consumer, crashes, history>>

Added_Truncating(q, j) == <<j>>
Added_InFront(q, j) == <<j>> \o q

\* queue.jsonl after an append of job j's line.
Added(q, j) == Append(q, j)

\* The consumers between pop_one's read and its write.
Popping == {c \in Consumers : cpc[c] \in {"read", "truncated"}}

AppendLine(e) ==
    /\ epc[e] = "append"
    /\ accepted < MaxJobs
    /\ accepted' = accepted + 1
    /\ model' = [model EXCEPT ![accepted'] = wanted[e]]
    /\ queue' = Added(queue, accepted')
    /\ exposed' = IF Popping # {} THEN exposed \cup {accepted'} ELSE exposed
    /\ GiveUp(e)
    /\ UNCHANGED <<rows, consumer, crashes, popped, clashed>>

-----------------------------------------------------------------------------
(* A consumer: pop_one, the registration of the run, and its end *)

At(c, l) == cpc[c] = l
Goto(c, l) == cpc' = [cpc EXCEPT ![c] = l]

\* cmd_loop goes on with the next job, cmd_run returns.
Leave(c) == Goto(c, IF c = Loop THEN "idle" ELSE "done")

\* read_text().splitlines(); with no line there is nothing to do.
PopRead(c) ==
    /\ At(c, "idle")
    /\ queue # <<>>
    /\ lines' = [lines EXCEPT ![c] = queue]
    /\ Goto(c, "read")
    /\ clashed' = IF Popping = {} THEN clashed
                  ELSE clashed \cup Ids(queue) \cup UNION {Ids(lines[o]) : o \in Popping}
    /\ UNCHANGED <<file, enqueuer, hand, crashes, popped, exposed>>

\* write_text opens the file for writing.
PopTruncate(c) ==
    /\ At(c, "read")
    /\ queue' = <<>>
    /\ Goto(c, "truncated")
    /\ UNCHANGED <<rows, enqueuer, lines, hand, crashes, history>>

Rest_WithHead(l) == l

\* The lines that are written back.
Rest(l) == Tail(l)

\* The rest r is written at offset 0, over the first bytes of whatever is in the
\* file by then: of the line where it ends a fragment may stay, and the lines
\* after that one are whole.  (The widths of lines are any.)
Overwritten(r, q) ==
    UNION {{r \o f \o SubSeq(q, k + 1, Len(q)) : f \in {<<>>, <<Garbled>>}} : k \in 1..Len(q)}

IsJson_Unchecked(l) == TRUE

\* json.loads of the head.
IsJson(l) == l # Garbled

\* An empty rest writes nothing.  A head that is not JSON is dropped.
PopWrite(c) ==
    LET r == Rest(lines[c]) IN
    /\ At(c, "truncated")
    /\ IF r = <<>> THEN UNCHANGED queue
       ELSE IF queue = <<>> THEN queue' = r
       ELSE queue' \in Overwritten(r, queue)
    /\ lines' = [lines EXCEPT ![c] = <<>>]
    /\ IF IsJson(Head(lines[c]))
       THEN /\ Goto(c, "popped")
            /\ hand' = [hand EXCEPT ![c] = Head(lines[c])]
            /\ popped' = Append(popped, Head(lines[c]))
       ELSE Leave(c) /\ UNCHANGED <<hand, popped>>
    /\ UNCHANGED <<rows, enqueuer, crashes, exposed, clashed>>

\* save_run: the row of run j, which is inserted when there is none.
Saved(j, s) ==
    IF \E i \in 1..Len(rows) : rows[i].run = j
    THEN [i \in 1..Len(rows) |->
             IF rows[i].run = j THEN [rows[i] EXCEPT !.status = s] ELSE rows[i]]
    ELSE Append(rows, [run |-> j, status |-> s])

\* store.save_run(Run(...)): the row appears as pending.
Register(c) ==
    /\ At(c, "popped")
    /\ rows' = Saved(hand[c], "pending")
    /\ Goto(c, "registered")
    /\ UNCHANGED <<queue, enqueuer, lines, hand, crashes, history>>

\* run_pipeline saves the run as in_progress, at its start and at each stage.
Save(c) ==
    /\ At(c, "registered") \/ At(c, "running")
    /\ rows' = Saved(hand[c], "in_progress")
    /\ Goto(c, "running")
    /\ UNCHANGED <<queue, enqueuer, lines, hand, crashes, history>>

End_Dangling(c) ==
    /\ At(c, "running")
    /\ UNCHANGED rows
    /\ Leave(c)
    /\ hand' = [hand EXCEPT ![c] = 0]
    /\ UNCHANGED <<queue, enqueuer, lines, crashes, history>>

\* run_pipeline returns, or raises and cmd_loop records it as failed.
End(c) ==
    /\ At(c, "running")
    /\ \E s \in Ended : rows' = Saved(hand[c], s)
    /\ Leave(c)
    /\ hand' = [hand EXCEPT ![c] = 0]
    /\ UNCHANGED <<queue, enqueuer, lines, crashes, history>>

\* Jobs that live in c's memory only, whose row is still pending, or whose row
\* nobody sweeps when c dies.
Held(c) ==
    IF At(c, "truncated") THEN Ids(lines[c])
    ELSE IF At(c, "popped") \/ At(c, "registered") \/ (c # Loop /\ At(c, "running"))
    THEN {hand[c]} ELSE {}

\* The end of a process: of the service, or of a `run` (which an exception of
\* run_pipeline ends too).
Crash(c) ==
    /\ ~At(c, "down") /\ (c \in Hands => ~At(c, "idle") /\ ~At(c, "done"))
    /\ crashes < MaxCrashes
    /\ crashes' = crashes + 1
    /\ exposed' = exposed \cup Held(c)
    /\ Goto(c, IF c = Loop THEN "down" ELSE "done")
    /\ lines' = [lines EXCEPT ![c] = <<>>]
    /\ hand' = [hand EXCEPT ![c] = 0]
    /\ UNCHANGED <<file, enqueuer, popped, clashed>>

Restart_StaleOnly ==
    /\ At(Loop, "down")
    /\ Goto(Loop, "idle")
    /\ UNCHANGED <<file, enqueuer, lines, hand, crashes, history>>

\* systemd restarts cmd_loop, whose sweep aborts every row in_progress, also that
\* of a `run` under way.
Restart ==
    /\ At(Loop, "down")
    /\ Goto(Loop, "idle")
    /\ rows' = [i \in 1..Len(rows) |->
                   IF rows[i].status = "in_progress"
                   THEN [rows[i] EXCEPT !.status = "failed"] ELSE rows[i]]
    /\ UNCHANGED <<queue, enqueuer, lines, hand, crashes, history>>

-----------------------------------------------------------------------------
Init ==
    /\ queue = <<>> /\ rows = <<>>
    /\ model = [j \in Jobs |-> None]
    /\ accepted = 0
    /\ epc = [e \in Enqueuers |-> "idle"]
    /\ wanted = [e \in Enqueuers |-> None]
    /\ pending = [e \in Enqueuers |-> {}]
    /\ cpc = [c \in Consumers |-> IF c = Loop THEN "down" ELSE "idle"]
    /\ lines = [c \in Consumers |-> <<>>]
    /\ hand = [c \in Consumers |-> 0]
    /\ crashes = 0
    /\ popped = <<>> /\ exposed = {} /\ clashed = {}

Enqueue(e) == ReadQueue(e) \/ ReadIndex(e) \/ CheckRecent(e) \/ AppendLine(e)

\* What a consumer that has read the queue goes on to do.
Proceed(c) == PopTruncate(c) \/ PopWrite(c) \/ Register(c) \/ Save(c) \/ End(c)

Next ==
    \/ \E e \in Enqueuers : Enqueue(e)
    \/ \E c \in Consumers : PopRead(c) \/ Proceed(c) \/ Crash(c)
    \/ Restart

Spec == Init /\ [][Next]_vars

\* systemd keeps cmd_loop running and every run ends (module RunPipeline); nobody
\* has to type `run`.
FairSpec ==
    /\ Spec
    /\ WF_vars(PopRead(Loop) \/ Restart)
    /\ \A c \in Consumers : WF_vars(Proceed(c))

-----------------------------------------------------------------------------
(* Properties *)

Run(i) == rows[i].run

TypeOK ==
    /\ ToSet(queue) \cup UNION {ToSet(lines[c]) : c \in Consumers} \subseteq 1..accepted \cup {Garbled}
    /\ \A i \in 1..Len(rows) :
          Run(i) \in 1..accepted /\ rows[i].status \in Active \cup Ended
    /\ \A j \in Jobs : model[j] \in Models <=> j <= accepted
    /\ epc \in [Enqueuers -> {"idle", "rows", "recent_ok", "recent_failed", "append"}]
    /\ \A e \in Enqueuers : epc[e] # "idle" => wanted[e] \in Models
    /\ pending \in [Enqueuers -> SUBSET Models]
    /\ cpc \in [Consumers -> {"down", "idle", "read", "truncated", "popped", "registered",
                          "running", "done"}]
    /\ hand \in [Consumers -> 0..accepted]
    /\ ToSet(popped) \cup exposed \cup clashed \subseteq 1..accepted

\* pop_one hands a run id out at most once, and one it has handed out is not in
\* the queue any more, through truncations, overwrites, crashes and restarts:
\* except to two pops that overlapped, of the loop and of a `run`.
EachJobRunsOnce ==
    \A i \in 1..Len(popped) :
        \/ popped[i] \in clashed
        \/ /\ popped[i] \notin ToSet(queue)
           /\ \A k \in 1..Len(popped) : popped[i] = popped[k] => i = k

\* A row in_progress is that of a run some consumer is at, or one the loop sweeps
\* when it is restarted: it is down, or a `run` died (and the row keeps its slot
\* until then).
InProgressIsRunning ==
    \A i \in 1..Len(rows) :
        rows[i].status = "in_progress" =>
            \/ \E c \in Consumers : cpc[c] = "running" /\ hand[c] = Run(i)
            \/ cpc[Loop] = "down"
            \/ Run(i) \in exposed

\* Jobs are popped in the order in which enqueue accepted them, except where two
\* pops overlapped.
RunsInEnqueueOrder ==
    \A i, k \in 1..Len(popped) :
        i < k => popped[i] < popped[k] \/ popped[i] \in clashed \/ popped[k] \in clashed

\* The only ways to lose an accepted job: its line is appended while a pop_one is
\* between its read and its write, two of these overlap, or a consumer dies with
\* the line in memory.
LossIsExplained ==
    \A j \in 1..accepted :
        \/ j \in ToSet(queue) \cup exposed \cup clashed
        \/ \E c \in Consumers : j \in Held(c)
        \/ \E i \in 1..Len(rows) : Run(i) = j

\* An accepted job ends in a final row, unless its line was appended during a pop,
\* two pops overlapped at it, or its consumer died between the pop of it and the
\* start of its run (of a `run`: its end).  A loop that dies later is no excuse:
\* its sweep ends the row.
EveryJobRuns ==
    \A j \in Jobs :
        j <= accepted ~> \/ j \in exposed \cup clashed
                         \/ \E i \in 1..Len(rows) : Run(i) = j /\ rows[i].status \in Ended

\* heyi-eval-enqueue.timer: "the dedup logic in orchestrator.enqueue prevents
\* double-runs of the same hf_id".
OneActiveJobPerModel ==
    \A j, k \in Jobs \cap (ToSet(queue) \cup {hand[c] : c \in Consumers}) :
        model[j] = model[k] => j = k

=============================================================================
