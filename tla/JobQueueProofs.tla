---------------------------- MODULE JobQueueProofs ----------------------------
(***************************************************************************)
(* queue.jsonl and the index, for every number of models, enqueuers, jobs, *)
(* `run` commands and deaths of consumers.                                 *)
(***************************************************************************)
EXTENDS JobQueue, TLAPS

-----------------------------------------------------------------------------
(* Sequences of lines *)

LEMMA Elements ==
    ASSUME NEW S, NEW s \in Seq(S)
    PROVE  /\ ToSet(s) \subseteq S
           /\ \A x : x \in ToSet(s) <=> \E i \in 1..Len(s) : s[i] = x
<1>1. DOMAIN s = 1..Len(s)
  OBVIOUS
<1> QED
  BY <1>1 DEF ToSet

LEMMA AppendElements ==
    ASSUME NEW S, NEW s \in Seq(S), NEW x \in S
    PROVE  /\ Append(s, x) \in Seq(S) /\ Append(s, x) # <<>>
           /\ Len(Append(s, x)) = Len(s) + 1
           /\ Append(s, x)[Len(s) + 1] = x
           /\ \A i \in 1..Len(s) : Append(s, x)[i] = s[i]
           /\ ToSet(Append(s, x)) = ToSet(s) \cup {x}
<1>1. /\ Append(s, x) \in Seq(S) /\ Append(s, x) # <<>>
      /\ Len(Append(s, x)) = Len(s) + 1 /\ Len(s) \in Nat
      /\ Append(s, x)[Len(s) + 1] = x
      /\ \A i \in 1..Len(s) : Append(s, x)[i] = s[i]
  OBVIOUS
<1>2. \A y : y \in ToSet(Append(s, x)) <=> y \in ToSet(s) \/ y = x
  <2>1. \A y : y \in ToSet(s) <=> \E i \in 1..Len(s) : s[i] = y
    BY Elements
  <2>2. \A y : y \in ToSet(Append(s, x)) <=>
                  \E i \in 1..Len(Append(s, x)) : Append(s, x)[i] = y
    BY <1>1, Elements
  <2>3. ASSUME NEW y
        PROVE  (\E i \in 1..Len(Append(s, x)) : Append(s, x)[i] = y) <=>
                  (\E i \in 1..Len(s) : s[i] = y) \/ y = x
    BY <1>1
  <2> QED
    BY <2>1, <2>2, <2>3
<1> QED
  BY <1>1, <1>2

LEMMA TailElements ==
    ASSUME NEW S, NEW s \in Seq(S), s # <<>>
    PROVE  /\ Tail(s) \in Seq(S) /\ Head(s) \in S /\ Head(s) = s[1]
           /\ Len(Tail(s)) = Len(s) - 1
           /\ \A i \in 1..Len(Tail(s)) : Tail(s)[i] = s[i + 1]
           /\ ToSet(s) = {Head(s)} \cup ToSet(Tail(s))
<1>1. /\ Tail(s) \in Seq(S) /\ Head(s) \in S /\ Head(s) = s[1]
      /\ Len(s) \in Nat \ {0} /\ Len(Tail(s)) = Len(s) - 1
      /\ \A i \in 1..Len(Tail(s)) : Tail(s)[i] = s[i + 1]
  OBVIOUS
<1> DEFINE t == Tail(s)
<1>2. /\ t \in Seq(S) /\ Len(s) \in Nat \ {0} /\ Len(t) = Len(s) - 1 /\ Head(s) = s[1]
      /\ \A i \in 1..Len(t) : t[i] = s[i + 1]
  BY <1>1
<1> HIDE DEF t
<1>3. \A y : y \in ToSet(s) <=> y = Head(s) \/ y \in ToSet(t)
  <2>1. \A y : y \in ToSet(s) <=> \E i \in 1..Len(s) : s[i] = y
    BY Elements
  <2>2. \A y : y \in ToSet(t) <=> \E i \in 1..Len(t) : t[i] = y
    BY <1>2, Elements
  <2>3. \A i \in 1..Len(s) : i = 1 \/ (i - 1 \in 1..Len(t) /\ t[i - 1] = s[i])
    BY <1>2
  <2>4. 1 \in 1..Len(s) /\ \A i \in 1..Len(t) : i + 1 \in 1..Len(s)
    BY <1>2
  <2> QED
    BY <1>2, <2>1, <2>2, <2>3, <2>4
<1> QED
  BY <1>1, <1>3 DEF t

LEMMA NoElements == ToSet(<<>>) = {}
  BY DEF ToSet

LEMMA ConcatElements ==
    ASSUME NEW S, NEW a \in Seq(S), NEW b \in Seq(S)
    PROVE  /\ a \o b \in Seq(S) /\ Len(a \o b) = Len(a) + Len(b)
           /\ \A i \in 1..Len(a) : (a \o b)[i] = a[i]
           /\ \A i \in 1..Len(b) : (a \o b)[Len(a) + i] = b[i]
           /\ ToSet(a \o b) = ToSet(a) \cup ToSet(b)
<1>1. /\ a \o b \in Seq(S) /\ Len(a \o b) = Len(a) + Len(b) /\ Len(a) \in Nat /\ Len(b) \in Nat
      /\ \A i \in 1..Len(a) : (a \o b)[i] = a[i]
      /\ \A i \in 1..Len(b) : (a \o b)[Len(a) + i] = b[i]
  OBVIOUS
<1> DEFINE t == a \o b
<1> HIDE DEF t
<1>2. \A y : y \in ToSet(t) <=> y \in ToSet(a) \/ y \in ToSet(b)
  <2>1. /\ t \in Seq(S) /\ Len(t) = Len(a) + Len(b)
        /\ \A i \in 1..Len(a) : t[i] = a[i]
        /\ \A i \in 1..Len(b) : t[Len(a) + i] = b[i]
    BY <1>1 DEF t
  <2>2. \A y : y \in ToSet(a) <=> \E i \in 1..Len(a) : a[i] = y
    BY Elements
  <2>3. \A y : y \in ToSet(b) <=> \E i \in 1..Len(b) : b[i] = y
    BY Elements
  <2>4. \A y : y \in ToSet(t) <=> \E i \in 1..Len(t) : t[i] = y
    BY <2>1, Elements
  <2>5. \A i \in 1..Len(t) : i \in 1..Len(a) \/ (i - Len(a) \in 1..Len(b) /\ t[i] = b[i - Len(a)])
    <3> SUFFICES ASSUME NEW i \in 1..Len(t), i \notin 1..Len(a)
                 PROVE  i - Len(a) \in 1..Len(b) /\ t[i] = b[i - Len(a)]
      OBVIOUS
    <3>1. i - Len(a) \in 1..Len(b) /\ Len(a) + (i - Len(a)) = i
      BY <1>1, <2>1
    <3> QED
      BY <2>1, <3>1
  <2>6. /\ \A i \in 1..Len(a) : i \in 1..Len(t)
        /\ \A i \in 1..Len(b) : Len(a) + i \in 1..Len(t)
    BY <1>1, <2>1
  <2> QED
    BY <2>1, <2>2, <2>3, <2>4, <2>5, <2>6
<1> QED
  BY <1>1, <1>2 DEF t

-----------------------------------------------------------------------------
(* The inductive invariant *)

Lines == (1..accepted) \cup {Garbled}
Row == [run : 1..accepted, status : Active \cup Ended]
EnqueuerLocation == {"idle", "rows", "recent_ok", "recent_failed", "append"}
ConsumerLocation == {"down", "idle", "read", "truncated", "popped", "registered", "running", "done"}

EnqueuerTypes ==
    /\ epc \in [Enqueuers -> EnqueuerLocation]
    /\ wanted \in [Enqueuers -> Models \cup {None}]
    /\ \A e \in Enqueuers : epc[e] # "idle" => wanted[e] \in Models
    /\ pending \in [Enqueuers -> SUBSET Models]

Types ==
    /\ accepted \in 0..MaxJobs /\ crashes \in 0..MaxCrashes
    /\ queue \in Seq(Lines) /\ lines \in [Consumers -> Seq(Lines)] /\ rows \in Seq(Row)
    /\ model \in [Jobs -> Models \cup {None}]
    /\ \A j \in Jobs : model[j] \in Models <=> j <= accepted
    /\ cpc \in [Consumers -> ConsumerLocation]
    /\ hand \in [Consumers -> 0..accepted]
    /\ popped \in Seq(1..accepted)
    /\ exposed \subseteq 1..accepted /\ clashed \subseteq 1..accepted

Before(S, T) == \A i \in S, j \in T : i < j

\* In order, apart from fragments and from the jobs U.
Ordered(s, U) ==
    \A i, k \in 1..Len(s) :
        i < k /\ s[i] \notin U \cup {Garbled} /\ s[k] \notin U \cup {Garbled} => s[i] < s[k]

\* What has been popped, what a pop has read and what is still in the file are in
\* the order of their enqueue, whatever of it a pop has overwritten, apart from
\* the jobs of pops that overlapped.
Order ==
    /\ Ordered(queue, clashed) /\ Ordered(popped, clashed)
    /\ Before(ToSet(popped) \ clashed, Ids(queue) \ clashed)
    /\ \A c \in Popping :
          /\ Ordered(lines[c], clashed)
          /\ Before(ToSet(popped) \ clashed, Ids(lines[c]) \ clashed)
          /\ cpc[c] = "truncated" => Before(Ids(lines[c]) \ clashed, Ids(queue) \ clashed)

\* Two pops overlap in jobs that are known to clash.
Clash == \A c, o \in Popping : c # o => Ids(lines[c]) \subseteq clashed

HasRow(j) == \E i \in 1..Len(rows) : Run(i) = j

\* A consumer holds lines while it pops, and then a job.
Slot ==
    /\ \A c \in Consumers :
          /\ lines[c] # <<>> <=> c \in Popping
          /\ cpc[c] \in {"popped", "registered", "running"} => hand[c] \in 1..accepted
          /\ cpc[c] \in {"registered", "running"} => HasRow(hand[c])
    /\ InProgressIsRunning

\* What a pop is about to overwrite is exposed, or has clashed.
Loss ==
    /\ LossIsExplained
    /\ \A c \in Consumers :
          /\ cpc[c] = "read" => Ids(queue) \subseteq Ids(lines[c]) \cup exposed \cup clashed
          /\ cpc[c] = "truncated" => Ids(queue) \subseteq exposed \cup clashed

JInv == EnqueuerTypes /\ Types /\ Order /\ Clash /\ Slot /\ Loss

LEMMA IdsAreJobs ==
    ASSUME Types
    PROVE  /\ Ids(queue) \subseteq 1..accepted
           /\ \A c \in Consumers : Ids(lines[c]) \subseteq 1..accepted
           /\ 1..accepted \subseteq Jobs /\ Garbled \notin 1..accepted
           /\ ToSet(popped) \subseteq 1..accepted /\ accepted \in Nat
           /\ \A i \in 1..Len(rows) : Run(i) \in 1..accepted
<1>1. /\ ToSet(queue) \subseteq Lines /\ \A c \in Consumers : ToSet(lines[c]) \subseteq Lines
      /\ ToSet(popped) \subseteq 1..accepted
  BY Elements DEF Types
<1>2. \A i \in 1..Len(rows) : Run(i) \in 1..accepted
  <2>1. \A i \in 1..Len(rows) : rows[i] \in Row
    BY DEF Types
  <2> QED
    BY <2>1 DEF Run, Row
<1>3. 1..accepted \subseteq Jobs /\ accepted \in Nat
  BY QueueAssumption DEF Types, Jobs
<1> QED
  BY <1>1, <1>2, <1>3, QueueAssumption DEF Ids, Lines

LEMMA InitQueue == Init => JInv
<1> SUFFICES ASSUME Init PROVE JInv
  OBVIOUS
<1>1. EnqueuerTypes
  BY DEF Init, EnqueuerTypes, EnqueuerLocation
<1>2. Types
  BY QueueAssumption DEF Init, Types, Jobs, Consumers, ConsumerLocation
<1>3. Popping = {}
  BY DEF Init, Popping, Consumers
<1>4. Order /\ Clash
  BY <1>3, NoElements DEF Init, Order, Clash, Ordered, Before, Ids
<1>5. Slot
  BY <1>3 DEF Init, Slot, InProgressIsRunning, Consumers
<1>6. Loss
  BY DEF Init, Loss, LossIsExplained, Consumers
<1> QED
  BY <1>1, <1>2, <1>4, <1>5, <1>6 DEF JInv

\* A step that moves no line and no row.
LEMMA SameQueue ==
    ASSUME JInv, UNCHANGED <<queue, rows, cpc, lines, hand, accepted, popped, exposed, clashed>>
    PROVE  /\ Order' /\ Clash' /\ Slot' /\ Loss'
           /\ UNCHANGED <<model, crashes>> => Types'
<1>1. Popping' = Popping
  BY DEF Popping
<1>2. Order' /\ Clash'
  BY <1>1 DEF JInv, Order, Clash, Ordered, Before, Ids
<1>3. Slot' /\ Loss'
  <2>1. \A c : Held(c)' = Held(c)
    BY DEF Held, At, Ids
  <2> QED
    BY <1>1, <2>1 DEF JInv, Slot, InProgressIsRunning, HasRow, Run, Loss, LossIsExplained, Ids
<1>4. UNCHANGED <<model, crashes>> => Types'
  BY DEF JInv, Types, Lines, Row
<1> QED
  BY <1>2, <1>3, <1>4

-----------------------------------------------------------------------------
(* The enqueuers *)

LEMMA EnqueueQueue ==
    ASSUME JInv, NEW e \in Enqueuers, ReadQueue(e) \/ ReadIndex(e) \/ CheckRecent(e)
    PROVE  JInv'
<1>1. UNCHANGED <<queue, rows, cpc, lines, hand, accepted, popped, exposed, clashed, model, crashes>>
  BY DEF ReadQueue, ReadIndex, CheckRecent, file, consumer, history
<1>2. Types' /\ Order' /\ Clash' /\ Slot' /\ Loss'
  BY <1>1, SameQueue
<1>3. CASE ReadQueue(e)
  <2>1. hf_ids_in_queue \subseteq Models
    <3>1. \A j \in Ids(queue) : model[j] \in Models
      BY IdsAreJobs DEF JInv, Types
    <3> QED
      BY <3>1 DEF hf_ids_in_queue
  <2> QED
    BY <1>2, <1>3, <2>1 DEF ReadQueue, Step, JInv, EnqueuerTypes, EnqueuerLocation
<1>4. CASE ReadIndex(e) \/ CheckRecent(e)
  <2>1. \/ GiveUp(e)
        \/ /\ UNCHANGED wanted /\ epc[e] # "idle"
           /\ pending' = pending \/ pending' = [pending EXCEPT ![e] = {}]
           /\ \E l \in {"recent_ok", "recent_failed", "append"} : Step(e, l)
    BY <1>4 DEF ReadIndex, CheckRecent
  <2> QED
    BY <1>2, <2>1 DEF Step, GiveUp, JInv, EnqueuerTypes, EnqueuerLocation
<1> QED
  BY <1>3, <1>4

LEMMA SeqWider ==
    ASSUME NEW S, NEW T, NEW s \in Seq(S), S \subseteq T
    PROVE  s \in Seq(T)
  OBVIOUS

\* The new job is newer than everything there is.
LEMMA AppendQueue ==
    ASSUME JInv, NEW e \in Enqueuers, AppendLine(e)
    PROVE  JInv'
<1> DEFINE n == accepted + 1
<1>1. /\ accepted \in Nat /\ n \in Nat /\ accepted < MaxJobs /\ accepted' = n
      /\ queue' = Append(queue, n) /\ model' = [model EXCEPT ![n] = wanted[e]]
      /\ wanted[e] \in Models /\ n \in Jobs /\ 1..accepted \subseteq 1..n
      /\ UNCHANGED <<rows, cpc, lines, hand, crashes, popped, clashed>>
      /\ exposed' = IF Popping # {} THEN exposed \cup {n} ELSE exposed
  BY QueueAssumption DEF AppendLine, Added, consumer, JInv, EnqueuerTypes, Types, Jobs
<1> HIDE DEF n
<1>2. /\ n = accepted + 1 /\ n # Garbled /\ Lines \subseteq Lines' /\ Row \subseteq Row'
      /\ Popping' = Popping
  BY <1>1, QueueAssumption DEF n, Lines, Row, Popping
<1>3. /\ queue' \in Seq(Lines') /\ lines' \in [Consumers -> Seq(Lines')] /\ rows' \in Seq(Row')
      /\ popped' \in Seq(1..n)
      /\ Len(queue') = Len(queue) + 1 /\ queue'[Len(queue) + 1] = n
      /\ \A i \in 1..Len(queue) : queue'[i] = queue[i]
      /\ ToSet(queue') = ToSet(queue) \cup {n} /\ Len(queue) \in Nat
  <2>1. /\ queue \in Seq(Lines') /\ lines \in [Consumers -> Seq(Lines')] /\ rows \in Seq(Row')
        /\ popped \in Seq(1..n)
    <3>1. /\ queue \in Seq(Lines) /\ lines \in [Consumers -> Seq(Lines)] /\ rows \in Seq(Row)
          /\ popped \in Seq(1..accepted)
      BY DEF JInv, Types
    <3>2. Seq(Lines) \subseteq Seq(Lines') /\ Seq(Row) \subseteq Seq(Row')
          /\ Seq(1..accepted) \subseteq Seq(1..n)
      BY <1>1, <1>2, SeqWider, Zenon
    <3> QED
      BY <3>1, <3>2
  <2>2. n \in Lines'
    BY <1>1, <1>2 DEF Lines
  <2> QED
    BY <1>1, <2>1, <2>2, AppendElements
<1>4. EnqueuerTypes'
  BY DEF AppendLine, GiveUp, Step, JInv, EnqueuerTypes, EnqueuerLocation
<1>5. Types'
  <2>1. \A j \in Jobs : model'[j] \in Models <=> j <= n
    BY <1>1, <1>2 DEF JInv, Types, Jobs
  <2>2. hand' \in [Consumers -> 0..n] /\ exposed' \subseteq 1..n /\ clashed' \subseteq 1..n
    BY <1>1, <1>2 DEF JInv, Types
  <2>3. model' \in [Jobs -> Models \cup {None}] /\ cpc' \in [Consumers -> ConsumerLocation]
        /\ accepted' \in 0..MaxJobs /\ crashes' \in 0..MaxCrashes
    BY <1>1, <1>2, QueueAssumption DEF JInv, Types
  <2> QED
    BY <1>1, <1>2, <1>3, <2>1, <2>2, <2>3 DEF Types
<1>6. /\ Ids(queue') = Ids(queue) \cup {n} /\ \A j \in 1..accepted : j < n
      /\ \A c \in Consumers : Ids(lines'[c]) = Ids(lines[c])
  BY <1>1, <1>2, <1>3 DEF Ids
<1>7. Order'
  <2>1. Ordered(queue', clashed)
    <3>1. \A i \in 1..Len(queue) : queue[i] = Garbled \/ queue[i] < n
      BY <1>6 DEF JInv, Types, Lines
    <3> SUFFICES ASSUME NEW i \in 1..Len(queue'), NEW k \in 1..Len(queue'), i < k,
                        queue'[i] \notin clashed \cup {Garbled},
                        queue'[k] \notin clashed \cup {Garbled}
                 PROVE  queue'[i] < queue'[k]
      BY DEF Ordered
    <3>2. i \in 1..Len(queue) /\ (k \in 1..Len(queue) \/ k = Len(queue) + 1)
      BY SMTT(30), <1>3
    <3>3. CASE k \in 1..Len(queue)
      BY <1>3, <3>2, <3>3 DEF Ordered, JInv, Order
    <3>4. CASE k = Len(queue) + 1
      BY <1>3, <3>1, <3>2, <3>4
    <3> QED
      BY <3>2, <3>3, <3>4
  <2>2. Before(ToSet(popped) \ clashed, Ids(queue') \ clashed)
    BY <1>6, IdsAreJobs DEF JInv, Order, Before
  <2>3. \A c \in Popping : cpc[c] = "truncated" => Before(Ids(lines[c]) \ clashed, Ids(queue') \ clashed)
    BY <1>6, IdsAreJobs DEF JInv, Order, Before, Popping
  <2> QED
    BY <1>1, <1>2, <1>6, <2>1, <2>2, <2>3 DEF Order, JInv, Popping
<1>8. Clash' /\ Slot'
  <2>1. \A c \in Consumers : hand[c] \in 1..accepted => hand[c] \in 1..n
    BY <1>1
  <2> QED
    BY <1>1, <1>2, <1>6, <2>1 DEF JInv, Clash, Slot, InProgressIsRunning, HasRow, Run, Popping
<1>9. Loss'
  <2>1. 1..n = 1..accepted \cup {n} /\ \A c \in Consumers : Held(c)' = Held(c)
    BY <1>1, <1>2 DEF Held, At, Ids
  <2>2. LossIsExplained'
    <3>1. n \in ToSet(queue') /\ ToSet(queue) \subseteq ToSet(queue') /\ exposed \subseteq exposed'
      BY <1>1, <1>3
    <3>2. ASSUME NEW j \in 1..accepted
          PROVE  \/ j \in ToSet(queue') \cup exposed' \cup clashed'
                 \/ \E c \in Consumers : j \in Held(c)'
                 \/ \E i \in 1..Len(rows) : rows[i].run = j
      BY <1>1, <2>1, <3>1 DEF JInv, Loss, LossIsExplained, Run
    <3>3. accepted' = n /\ rows' = rows
      BY <1>1
    <3> QED
      BY <2>1, <3>1, <3>2, <3>3 DEF LossIsExplained, Run
  <2>3. \A c \in Consumers : cpc[c] \in {"read", "truncated"} => n \in exposed'
    BY <1>1 DEF Popping
  <2> QED
    BY <1>1, <1>6, <2>2, <2>3 DEF JInv, Loss
<1> QED
  BY <1>4, <1>5, <1>7, <1>8, <1>9 DEF JInv

-----------------------------------------------------------------------------
(* pop_one *)

LEMMA ReadQueueLines ==
    ASSUME JInv, NEW c \in Consumers, PopRead(c)
    PROVE  JInv'
<1>1. /\ cpc[c] = "idle" /\ queue # <<>>
      /\ lines' = [lines EXCEPT ![c] = queue] /\ cpc' = [cpc EXCEPT ![c] = "read"]
      /\ clashed' = IF Popping = {} THEN clashed
                    ELSE clashed \cup Ids(queue) \cup UNION {Ids(lines[o]) : o \in Popping}
      /\ UNCHANGED <<queue, rows, model, accepted, epc, wanted, pending, hand, crashes, popped, exposed>>
  BY DEF PopRead, At, Goto, file, enqueuer
<1>2. /\ Lines' = Lines /\ Row' = Row /\ clashed \subseteq clashed'
      /\ lines'[c] = queue /\ cpc'[c] = "read" /\ c \notin Popping /\ Popping' = Popping \cup {c}
      /\ \A o \in Consumers : o # c => lines'[o] = lines[o] /\ cpc'[o] = cpc[o]
  BY <1>1 DEF Lines, Row, Popping, JInv, Types
<1>3. EnqueuerTypes'
  BY <1>1 DEF JInv, EnqueuerTypes
<1>4. Types'
  <2>1. clashed' \subseteq 1..accepted
    BY <1>1, IdsAreJobs DEF JInv, Types, Popping
  <2> QED
    BY <1>1, <1>2, <2>1 DEF JInv, Types, ConsumerLocation
<1>5. Order'
  <2>1. ASSUME NEW s, Ordered(s, clashed) PROVE Ordered(s, clashed')
    BY <1>2, <2>1 DEF Ordered
  <2>2. ASSUME NEW S, NEW T, Before(S \ clashed, T \ clashed) PROVE Before(S \ clashed', T \ clashed')
    BY <1>2, <2>2 DEF Before
  <2>3. Ordered(queue, clashed') /\ Ordered(popped, clashed')
        /\ Before(ToSet(popped) \ clashed', Ids(queue) \ clashed')
    BY <2>1, <2>2 DEF JInv, Order
  <2>4. ASSUME NEW o \in Popping
        PROVE  /\ o # c /\ Ordered(lines[o], clashed')
               /\ Before(ToSet(popped) \ clashed', Ids(lines[o]) \ clashed')
               /\ cpc[o] = "truncated" => Before(Ids(lines[o]) \ clashed', Ids(queue) \ clashed')
    BY <1>2, <2>1, <2>2 DEF JInv, Order
  <2> QED
    BY <1>1, <1>2, <2>3, <2>4 DEF Order, Popping
<1>6. Clash'
  <2>1. ASSUME NEW o \in Popping
        PROVE  Ids(queue) \subseteq clashed' /\ Ids(lines[o]) \subseteq clashed'
    BY <1>1
  <2> QED
    BY <1>2, <2>1 DEF Clash, Popping
<1>7. Slot'
  BY <1>1, <1>2 DEF JInv, Slot, InProgressIsRunning, HasRow, Run
<1>8. Loss'
  <2>1. \A o \in Consumers : Held(o)' = Held(o)
    BY <1>1, <1>2 DEF Held, At, Ids
  <2> QED
    BY <1>1, <1>2, <2>1 DEF JInv, Loss, LossIsExplained, Run
<1> QED
  BY <1>3, <1>4, <1>5, <1>6, <1>7, <1>8 DEF JInv

LEMMA TruncateQueue ==
    ASSUME JInv, NEW c \in Consumers, PopTruncate(c)
    PROVE  JInv'
<1>1. /\ cpc[c] = "read" /\ queue' = <<>> /\ cpc' = [cpc EXCEPT ![c] = "truncated"]
      /\ UNCHANGED <<rows, model, accepted, epc, wanted, pending, lines, hand, crashes, popped,
                     exposed, clashed>>
  BY DEF PopTruncate, At, Goto, enqueuer, history
<1>2. /\ Lines' = Lines /\ Row' = Row /\ Popping' = Popping /\ c \in Popping
      /\ Ids(queue') = {} /\ ToSet(queue') = {} /\ <<>> \in Seq(Lines)
      /\ \A o \in Consumers : o # c => cpc'[o] = cpc[o]
  BY <1>1, NoElements DEF Lines, Row, Popping, JInv, Types, Ids
<1>3. EnqueuerTypes' /\ Types'
  BY <1>1, <1>2 DEF JInv, EnqueuerTypes, Types, ConsumerLocation
<1>4. Order' /\ Clash'
  <2>1. Ordered(queue', clashed)
    BY <1>1 DEF Ordered
  <2> QED
    BY <1>1, <1>2, <2>1 DEF JInv, Order, Clash, Before, Popping
<1>5. Slot'
  BY <1>1, <1>2 DEF JInv, Slot, InProgressIsRunning, HasRow, Run, Types
<1>6. Loss'
  <2>1. Held(c) = {} /\ Held(c)' = Ids(lines[c]) /\ \A o \in Consumers : o # c => Held(o)' = Held(o)
    BY <1>1, <1>2 DEF Held, At, Ids, JInv, Types
  <2>2. \A j \in 1..accepted : j \in ToSet(queue) => j \in Held(c)' \cup exposed \cup clashed
    BY <1>1, <2>1, IdsAreJobs DEF JInv, Loss, Ids
  <2>3. LossIsExplained'
    BY <1>1, <2>1, <2>2 DEF JInv, Loss, LossIsExplained, Run
  <2> QED
    BY <1>1, <1>2, <2>3 DEF JInv, Loss
<1> QED
  BY <1>3, <1>4, <1>5, <1>6 DEF JInv

\* The file after a rest has been written over it, or into it.
LEMMA WhatIsLeft ==
    ASSUME NEW S, Garbled \in S, NEW r \in Seq(S), NEW q \in Seq(S), NEW U,
           NEW s, s \in Overwritten(r, q) \/ (s = r /\ q = <<>>),
           \A x \in S \ {Garbled} : x \in Int,
           Ordered(r, U), Ordered(q, U), Before(Ids(r) \ U, Ids(q) \ U)
    PROVE  /\ s \in Seq(S) /\ Ordered(s, U)
           /\ ToSet(r) \subseteq ToSet(s) /\ Ids(s) \subseteq Ids(r) \cup Ids(q)
<1>1. CASE s = r
  BY <1>1 DEF Ids
<1>2. ASSUME NEW k \in 1..Len(q), NEW f \in {<<>>, <<Garbled>>}, s = r \o f \o SubSeq(q, k + 1, Len(q))
      PROVE  /\ s \in Seq(S) /\ Ordered(s, U)
             /\ ToSet(r) \subseteq ToSet(s) /\ Ids(s) \subseteq Ids(r) \cup Ids(q)
  <2> DEFINE t == SubSeq(q, k + 1, Len(q))
  <2>1. /\ t \in Seq(S) /\ Len(t) = Len(q) - k /\ Len(q) \in Nat
        /\ \A i \in 1..Len(t) : t[i] = q[i + k] /\ i + k \in 1..Len(q)
    BY <1>2
  <2>2. f \in Seq(S) /\ Len(f) \in {0, 1} /\ \A i \in 1..Len(f) : f[i] = Garbled
    <3>1. CASE f = <<>>
      BY <3>1
    <3>2. CASE f = <<Garbled>>
      BY <3>2
    <3> QED
      BY <1>2, <3>1, <3>2
  <2> HIDE DEF t
  <2>3. s = (r \o f) \o t
    BY <1>2 DEF t
  <2> DEFINE a == r \o f
  <2>4. /\ a \in Seq(S) /\ Len(a) = Len(r) + Len(f) /\ Len(r) \in Nat
        /\ \A i \in 1..Len(r) : a[i] = r[i]
        /\ \A i \in 1..Len(f) : a[Len(r) + i] = f[i]
        /\ ToSet(a) = ToSet(r) \cup ToSet(f)
    BY <2>2, ConcatElements
  <2>5. \A i \in 1..Len(a) : i \in 1..Len(r) \/ a[i] = Garbled
    <3> SUFFICES ASSUME NEW i \in 1..Len(a), i \notin 1..Len(r) PROVE a[i] = Garbled
      OBVIOUS
    <3>1. i - Len(r) \in 1..Len(f) /\ i = Len(r) + (i - Len(r))
      BY <2>2, <2>4
    <3> QED
      BY <2>2, <2>4, <3>1
  <2>10. s = a \o t
    BY <2>3
  <2> HIDE DEF a
  <2>6. /\ s \in Seq(S) /\ Len(s) = Len(a) + Len(t)
        /\ \A i \in 1..Len(a) : s[i] = a[i]
        /\ \A i \in 1..Len(t) : s[Len(a) + i] = t[i]
        /\ ToSet(s) = ToSet(a) \cup ToSet(t)
    <3>1. /\ a \o t \in Seq(S) /\ Len(a \o t) = Len(a) + Len(t)
          /\ \A i \in 1..Len(a) : (a \o t)[i] = a[i]
          /\ \A i \in 1..Len(t) : (a \o t)[Len(a) + i] = t[i]
          /\ ToSet(a \o t) = ToSet(a) \cup ToSet(t)
      <4>1. a \in Seq(S) /\ t \in Seq(S)
        BY <2>1, <2>4
      <4> QED
        BY ONLY <4>1, ConcatElements, Zenon
    <3> QED
      BY <2>10, <3>1
  <2>7. ToSet(f) \subseteq {Garbled} /\ ToSet(t) \subseteq ToSet(q)
    <3>1. \A y : y \in ToSet(f) <=> \E i \in 1..Len(f) : f[i] = y
      BY <2>2, Elements
    <3>2. \A y : y \in ToSet(t) <=> \E i \in 1..Len(t) : t[i] = y
      BY <2>1, Elements
    <3>3. \A y : y \in ToSet(q) <=> \E i \in 1..Len(q) : q[i] = y
      BY Elements
    <3> QED
      BY <2>1, <2>2, <3>1, <3>2, <3>3
  <2>8. Ordered(s, U)
    <3> SUFFICES ASSUME NEW i \in 1..Len(s), NEW m \in 1..Len(s), i < m,
                        s[i] \notin U \cup {Garbled}, s[m] \notin U \cup {Garbled}
                 PROVE  s[i] < s[m]
      BY DEF Ordered
    <3>1. \A x \in 1..Len(s) : x \in 1..Len(a) \/ (x - Len(a) \in 1..Len(t) /\ x = Len(a) + (x - Len(a)))
      BY <2>1, <2>4, <2>2, <2>6
    <3>2. CASE m \in 1..Len(a)
      <4>1. i \in 1..Len(a) /\ s[i] = a[i] /\ s[m] = a[m]
        BY <2>6, <3>2
      <4>2. i \in 1..Len(r) /\ m \in 1..Len(r) /\ s[i] = r[i] /\ s[m] = r[m]
        BY <2>4, <2>5, <3>2, <4>1
      <4> QED
        BY <4>2 DEF Ordered
    <3>3. CASE m - Len(a) \in 1..Len(t) /\ m = Len(a) + (m - Len(a))
      <4> DEFINE y == m - Len(a)
      <4>1. y \in 1..Len(t) /\ s[m] = t[y] /\ t[y] = q[y + k] /\ y + k \in 1..Len(q)
        BY <2>1, <2>6, <3>3
      <4>2. CASE i \in 1..Len(a)
        <5>1. i \in 1..Len(r) /\ s[i] = r[i]
          BY <2>4, <2>5, <2>6, <4>2
        <5>2. s[i] \in Ids(r) \ U /\ s[m] \in Ids(q) \ U
          <6>1. \A z : z \in ToSet(r) <=> \E x \in 1..Len(r) : r[x] = z
            BY Elements
          <6>2. \A z : z \in ToSet(q) <=> \E x \in 1..Len(q) : q[x] = z
            BY Elements
          <6> QED
            BY <4>1, <5>1, <6>1, <6>2 DEF Ids
        <5> QED
          BY <5>2 DEF Before
      <4>3. CASE i - Len(a) \in 1..Len(t) /\ i = Len(a) + (i - Len(a))
        <5> DEFINE x == i - Len(a)
        <5>1. x \in 1..Len(t) /\ s[i] = t[x] /\ t[x] = q[x + k] /\ x + k \in 1..Len(q)
          BY <2>1, <2>6, <4>3
        <5>2. x + k < y + k
          BY <2>4, <2>2
        <5> HIDE DEF x, y
        <5> QED
          BY <4>1, <5>1, <5>2 DEF Ordered
      <4> QED
        BY <3>1, <4>2, <4>3
    <3> QED
      BY <3>1, <3>2, <3>3
  <2> QED
    BY <2>4, <2>6, <2>7, <2>8 DEF Ids
<1>3. CASE s \in Overwritten(r, q)
  <2>1. \E k \in 1..Len(q), f \in {<<>>, <<Garbled>>} : s = r \o f \o SubSeq(q, k + 1, Len(q))
    BY <1>3 DEF Overwritten
  <2> QED
    BY <1>2, <2>1
<1> QED
  BY <1>1, <1>3

LEMMA WriteQueue ==
    ASSUME JInv, NEW c \in Consumers, PopWrite(c)
    PROVE  JInv'
<1> DEFINE l == lines[c]
           h == Head(l)
           r == Tail(l)
<1>1. /\ cpc[c] = "truncated" /\ c \in Popping /\ l # <<>> /\ l \in Seq(Lines) /\ queue \in Seq(Lines)
      /\ \/ r = <<>> /\ queue' = queue
         \/ r # <<>> /\ (queue' \in Overwritten(r, queue) \/ (queue' = r /\ queue = <<>>))
      /\ lines' = [lines EXCEPT ![c] = <<>>]
      /\ UNCHANGED <<rows, model, accepted, epc, wanted, pending, crashes, exposed, clashed>>
  BY DEF PopWrite, Rest, At, enqueuer, Popping, JInv, Slot, Types
<1>2. \/ /\ h # Garbled /\ cpc' = [cpc EXCEPT ![c] = "popped"]
         /\ hand' = [hand EXCEPT ![c] = h] /\ popped' = Append(popped, h)
      \/ /\ h = Garbled /\ UNCHANGED <<hand, popped>>
         /\ \E p \in {"idle", "done"} : cpc' = [cpc EXCEPT ![c] = p]
  BY DEF PopWrite, IsJson, Goto, Leave
<1>3. /\ r \in Seq(Lines) /\ h \in Lines /\ h = l[1] /\ Len(r) = Len(l) - 1 /\ Len(l) \in Nat
      /\ \A i \in 1..Len(r) : r[i] = l[i + 1]
      /\ ToSet(l) = {h} \cup ToSet(r)
  BY <1>1, TailElements
<1> HIDE DEF l, h, r
<1>4. /\ Lines' = Lines /\ Row' = Row /\ <<>> \in Seq(Lines) /\ lines[c] = l /\ lines'[c] = <<>>
      /\ Popping' = Popping \ {c}
      /\ h # Garbled => (h \in 1..accepted /\ h \in Ids(l))
      /\ \A o \in Consumers : o # c => lines'[o] = lines[o] /\ cpc'[o] = cpc[o] /\ hand'[o] = hand[o]
      /\ Ids(l) = (Ids(r) \cup {h}) \ {Garbled}
  BY <1>1, <1>2, <1>3 DEF Lines, Row, Popping, JInv, Types, Ids, l
<1>5. /\ queue' \in Seq(Lines) /\ Ordered(queue', clashed)
      /\ ToSet(r) \subseteq ToSet(queue') /\ Ids(queue') \subseteq Ids(r) \cup Ids(queue)
  <2>1. Ordered(l, clashed) /\ Ordered(queue, clashed)
        /\ Before(Ids(l) \ clashed, Ids(queue) \ clashed)
    BY <1>1, <1>4 DEF JInv, Order
  <2>2. CASE r = <<>> /\ queue' = queue
    BY <1>1, <2>1, <2>2, NoElements
  <2>3. CASE queue' \in Overwritten(r, queue) \/ (queue' = r /\ queue = <<>>)
    <3>1. Ordered(r, clashed)
      <4>1. \A i \in 1..Len(r) : i + 1 \in 1..Len(l)
        BY <1>3
      <4> QED
        BY <1>3, <2>1, <4>1 DEF Ordered
    <3>2. Before(Ids(r) \ clashed, Ids(queue) \ clashed)
      BY <1>3, <2>1 DEF Before, Ids
    <3>3. Garbled \in Lines /\ \A x \in Lines \ {Garbled} : x \in Int
      BY DEF Lines
    <3> QED
      BY <1>1, <1>3, <2>1, <2>3, <3>1, <3>2, <3>3, WhatIsLeft
  <2> QED
    BY <1>1, <2>2, <2>3
<1>6. /\ popped' \in Seq(1..accepted)
      /\ ToSet(popped') = ToSet(popped) \cup ({h} \ {Garbled})
      /\ Ordered(popped', clashed)
  <2>1. CASE h = Garbled
    BY <1>2, <2>1 DEF JInv, Types, Order
  <2>2. CASE h # Garbled
    <3>1. popped \in Seq(1..accepted) /\ h \in 1..accepted
      BY <1>4, <2>2 DEF JInv, Types
    <3>2. /\ popped' \in Seq(1..accepted) /\ Len(popped') = Len(popped) + 1 /\ Len(popped) \in Nat
          /\ popped'[Len(popped) + 1] = h
          /\ \A i \in 1..Len(popped) : popped'[i] = popped[i]
          /\ ToSet(popped') = ToSet(popped) \cup {h}
      <4>1. popped' = Append(popped, h)
        BY <1>2, <2>2
      <4>2. PICK N : N = 1..accepted
        OBVIOUS
      <4>3. popped \in Seq(N) /\ h \in N
        BY <3>1, <4>2
      <4>4. /\ Append(popped, h) \in Seq(N)
            /\ Len(Append(popped, h)) = Len(popped) + 1
            /\ Append(popped, h)[Len(popped) + 1] = h
            /\ \A i \in 1..Len(popped) : Append(popped, h)[i] = popped[i]
            /\ ToSet(Append(popped, h)) = ToSet(popped) \cup {h}
        BY <4>3, AppendElements
      <4> QED
        BY <4>1, <4>2, <4>3, <4>4
    <3>3. Before(ToSet(popped) \ clashed, Ids(l) \ clashed)
      BY <1>1, <1>4 DEF JInv, Order
    <3>4. Ordered(popped', clashed)
      <4> SUFFICES ASSUME NEW i \in 1..Len(popped'), NEW k \in 1..Len(popped'), i < k,
                          popped'[i] \notin clashed \cup {Garbled},
                          popped'[k] \notin clashed \cup {Garbled}
                   PROVE  popped'[i] < popped'[k]
        BY DEF Ordered
      <4>1. i \in 1..Len(popped) /\ (k \in 1..Len(popped) \/ k = Len(popped) + 1)
        BY SMTT(30), <3>2
      <4>2. CASE k \in 1..Len(popped)
        BY <3>2, <4>1, <4>2 DEF Ordered, JInv, Order
      <4>3. CASE k = Len(popped) + 1
        <5>1. popped[i] \in ToSet(popped)
          BY <3>1, <4>1, Elements
        <5>2. popped'[k] = h /\ popped'[i] = popped[i] /\ h \in Ids(l)
          BY <1>4, <2>2, <3>2, <4>1, <4>3
        <5> QED
          BY <3>3, <5>1, <5>2 DEF Before
      <4> QED
        BY <4>1, <4>2, <4>3
    <3> QED
      BY <2>2, <3>2, <3>4
  <2> QED
    BY <2>1, <2>2
<1>7. EnqueuerTypes' /\ Types'
  <2>1. EnqueuerTypes'
    BY <1>1 DEF JInv, EnqueuerTypes
  <2>2. /\ hand' \in [Consumers -> 0..accepted] /\ cpc' \in [Consumers -> ConsumerLocation]
        /\ lines' \in [Consumers -> Seq(Lines)]
    <3>1. h # Garbled => h \in 0..accepted
      BY <1>4
    <3> QED
      BY <1>1, <1>2, <1>4, <3>1 DEF JInv, Types, ConsumerLocation
  <2> QED
    BY <1>1, <1>4, <1>5, <1>6, <2>1, <2>2 DEF JInv, Types
<1>8. Order'
  <2>1. Before(ToSet(popped') \ clashed, Ids(queue') \ clashed)
    <3>1. Before(ToSet(popped) \ clashed, Ids(l) \ clashed)
          /\ Before(ToSet(popped) \ clashed, Ids(queue) \ clashed)
          /\ Before(Ids(l) \ clashed, Ids(queue) \ clashed)
      BY <1>1, <1>4 DEF JInv, Order
    <3>2. ASSUME h # Garbled, h \notin clashed, NEW j \in Ids(r) \ clashed PROVE h < j
      <4>1. PICK i \in 1..Len(r) : r[i] = j
        BY <1>3, Elements DEF Ids
      <4>2. l[i + 1] = j /\ i + 1 \in 1..Len(l) /\ 1 \in 1..Len(l) /\ 1 < i + 1 /\ l[1] = h
        BY <1>3, <4>1
      <4>3. Ordered(l, clashed) /\ j # Garbled
        BY <1>1, <1>4, <3>2 DEF JInv, Order, Ids
      <4> QED
        BY <3>2, <4>2, <4>3 DEF Ordered
    <3> SUFFICES ASSUME NEW i \in ToSet(popped') \ clashed, NEW j \in Ids(queue') \ clashed
                 PROVE  i < j
      BY DEF Before
    <3>3. (j \in Ids(r) \/ j \in Ids(queue)) /\ (i \in ToSet(popped) \/ (i = h /\ h # Garbled))
      BY <1>5, <1>6
    <3>4. Ids(r) \subseteq Ids(l) /\ (h # Garbled => h \in Ids(l))
      BY <1>4, <1>3 DEF Ids
    <3>5. CASE i \in ToSet(popped)
      BY <3>1, <3>3, <3>4, <3>5 DEF Before
    <3>6. CASE i = h /\ h # Garbled
      BY <3>1, <3>2, <3>3, <3>4, <3>6 DEF Before
    <3> QED
      BY <3>3, <3>5, <3>6
  <2>2. ASSUME NEW o \in Popping, o # c
        PROVE  /\ Ordered(lines[o], clashed) /\ Ids(lines[o]) \ clashed = {}
    BY <1>1, <2>2 DEF JInv, Order, Clash
  <2> QED
    BY <1>1, <1>4, <1>5, <1>6, <2>1, <2>2 DEF Order, Before, Popping
<1>9. Clash'
  BY <1>1, <1>4 DEF JInv, Clash, Popping
<1>10. Slot'
  <2>1. /\ lines'[c] = <<>> /\ c \notin Popping'
        /\ cpc'[c] \in {"popped", "idle", "done"}
        /\ cpc'[c] = "popped" => hand'[c] \in 1..accepted
    BY <1>2, <1>4 DEF JInv, Types
  <2>2. InProgressIsRunning'
    <3>1. \A o \in Consumers : cpc[o] = "running" => cpc'[o] = "running" /\ hand'[o] = hand[o]
      BY <1>1, <1>4
    <3>2. cpc[Loop] = "down" => cpc'[Loop] = "down"
      BY <1>1, <1>4 DEF Consumers
    <3> QED
      BY <1>1, <3>1, <3>2 DEF JInv, Slot, InProgressIsRunning, Run
  <2> QED
    BY <1>1, <1>4, <2>1, <2>2 DEF JInv, Slot, HasRow, Run, Popping
<1>11. Loss'
  <2>1. /\ Held(c) = Ids(l)
        /\ h # Garbled => h \in Held(c)'
        /\ \A o \in Consumers : o # c => Held(o)' = Held(o)
    BY <1>1, <1>2, <1>4 DEF Held, At, Ids, JInv, Types
  <2>2. \A j \in 1..accepted : j \in ToSet(queue) => j \in exposed \cup clashed
    BY <1>1, IdsAreJobs DEF JInv, Loss, Ids
  <2>3. \A j \in Ids(l) : j \in Held(c)' \/ j \in ToSet(queue')
    BY <1>4, <1>5, <2>1 DEF Ids
  <2>4. LossIsExplained'
    BY <1>1, <2>1, <2>2, <2>3 DEF JInv, Loss, LossIsExplained, Run
  <2>5. ASSUME NEW o \in Consumers, o # c, cpc[o] \in {"read", "truncated"}
        PROVE  Ids(queue') \subseteq Ids(queue) \cup clashed
    <3>1. o \in Popping
      BY <2>5 DEF Popping
    <3>2. Ids(l) \subseteq clashed
      BY <1>1, <1>4, <2>5, <3>1 DEF JInv, Clash
    <3>3. Ids(r) \subseteq Ids(l)
      BY <1>3 DEF Ids
    <3> QED
      BY <1>5, <3>2, <3>3
  <2> QED
    BY <1>1, <1>2, <1>4, <2>4, <2>5 DEF JInv, Loss, Types
<1> QED
  BY <1>7, <1>8, <1>9, <1>10, <1>11 DEF JInv

-----------------------------------------------------------------------------
(* The run of a popped job *)

\* What save_run leaves: a row of the run with the status, and the other rows.
LEMMA SavedRows ==
    ASSUME rows \in Seq(Row), NEW j \in 1..accepted, NEW s \in Active \cup Ended,
           rows' = Saved(j, s)
    PROVE  /\ rows' \in Seq(Row) /\ HasRow(j)'
           /\ \A k \in 1..accepted : HasRow(k) => HasRow(k)'
           /\ \A i \in 1..Len(rows') :
                 \/ rows'[i].run = j /\ rows'[i].status = s
                 \/ i \in 1..Len(rows) /\ rows'[i] = rows[i] /\ rows[i].run # j
<1>1. \A i \in 1..Len(rows) : rows[i] \in Row /\ [rows[i] EXCEPT !.status = s] \in Row
                              /\ [rows[i] EXCEPT !.status = s].run = rows[i].run
                              /\ [rows[i] EXCEPT !.status = s].status = s
  <2>1. \A i \in 1..Len(rows) : rows[i] \in Row
    OBVIOUS
  <2>2. \A w \in Row : /\ [w EXCEPT !.status = s] \in Row
                       /\ [w EXCEPT !.status = s].run = w.run /\ [w EXCEPT !.status = s].status = s
    BY DEF Row
  <2> QED
    BY <2>1, <2>2
<1>2. CASE \E i \in 1..Len(rows) : rows[i].run = j
  <2>1. rows' = [i \in 1..Len(rows) |->
                    IF rows[i].run = j THEN [rows[i] EXCEPT !.status = s] ELSE rows[i]]
    BY <1>2 DEF Saved
  <2>2. rows' \in Seq(Row) /\ Len(rows') = Len(rows)
    BY <1>1, <2>1
  <2>3. \A i \in 1..Len(rows) : /\ rows'[i].run = rows[i].run
                                /\ rows[i].run = j => rows'[i].status = s
                                /\ rows[i].run # j => rows'[i] = rows[i]
    BY <1>1, <2>1
  <2> QED
    BY <1>2, <2>2, <2>3 DEF HasRow, Run
<1>3. CASE ~\E i \in 1..Len(rows) : rows[i].run = j
  <2> DEFINE w == [run |-> j, status |-> s]
  <2>1. rows' = Append(rows, w) /\ w \in Row /\ w.run = j /\ w.status = s
    BY <1>3 DEF Saved, Row
  <2> HIDE DEF w
  <2>2. /\ rows' \in Seq(Row) /\ Len(rows') = Len(rows) + 1 /\ Len(rows) \in Nat
        /\ rows'[Len(rows) + 1] = w
        /\ \A i \in 1..Len(rows) : rows'[i] = rows[i]
    BY <2>1, AppendElements
  <2>3. /\ \A i \in 1..Len(rows') : i \in 1..Len(rows) \/ i = Len(rows) + 1
        /\ Len(rows) + 1 \in 1..Len(rows') /\ \A i \in 1..Len(rows) : i \in 1..Len(rows')
    BY <2>2
  <2>4. HasRow(j)' /\ \A k \in 1..accepted : HasRow(k) => HasRow(k)'
    BY <2>1, <2>2, <2>3 DEF HasRow, Run
  <2>5. ASSUME NEW i \in 1..Len(rows')
        PROVE  \/ rows'[i].run = j /\ rows'[i].status = s
               \/ i \in 1..Len(rows) /\ rows'[i] = rows[i] /\ rows[i].run # j
    BY <1>3, <2>1, <2>2, <2>3
  <2> QED
    BY <2>2, <2>4, <2>5
<1> QED
  BY <1>2, <1>3

\* A step that leaves the file and the pops alone, and loses no row.
LEMMA SettleQueue ==
    ASSUME JInv, NEW c \in Consumers,
           rows' \in Seq(Row), \A j \in 1..accepted : HasRow(j) => HasRow(j)',
           UNCHANGED <<queue, enqueuer, lines, crashes, history>>,
           cpc' \in [Consumers -> ConsumerLocation], hand' \in [Consumers -> 0..accepted],
           \A o \in Consumers : o # c => cpc'[o] = cpc[o] /\ hand'[o] = hand[o],
           cpc[c] \notin {"read", "truncated"}, cpc'[c] \notin {"read", "truncated"},
           cpc'[c] \in {"popped", "registered", "running"} => hand'[c] \in 1..accepted,
           (cpc[c] \in {"registered", "running"} => HasRow(hand[c]))',
           \A j \in Held(c) : j \in Held(c)' \/ HasRow(j)',
           InProgressIsRunning'
    PROVE  JInv'
<1>1. UNCHANGED <<queue, model, accepted, epc, wanted, pending, lines, crashes, popped, exposed, clashed>>
  BY DEF enqueuer, history
<1>2. Lines' = Lines /\ Row' = Row /\ Popping' = Popping /\ c \notin Popping
  BY <1>1 DEF Lines, Row, Popping
<1>3. EnqueuerTypes' /\ Types'
  BY <1>1, <1>2 DEF JInv, EnqueuerTypes, Types
<1>4. Order' /\ Clash'
  BY <1>1, <1>2 DEF JInv, Order, Clash, Popping
<1>6. Slot'
  <2>1. ASSUME NEW o \in Consumers
        PROVE  /\ lines'[o] # <<>> <=> o \in Popping'
               /\ (cpc[o] \in {"popped", "registered", "running"} => hand[o] \in 1..accepted)'
               /\ (cpc[o] \in {"registered", "running"} => HasRow(hand[o]))'
    <3>1. CASE o = c
      BY <1>1, <1>2, <3>1 DEF JInv, Slot
    <3>2. CASE o # c
      <4>1. PICK j : j = hand[o]
        OBVIOUS
      <4>2. cpc'[o] = cpc[o] /\ hand'[o] = j
        BY <3>2, <4>1
      <4>3. cpc[o] \in {"popped", "registered", "running"} => j \in 1..accepted
        BY <4>1 DEF JInv, Slot
      <4>4. cpc[o] \in {"registered", "running"} => HasRow(j)'
        BY <4>1, <4>3 DEF JInv, Slot
      <4>5. HasRow(j)' => HasRow(hand[o])'
        BY <4>2 DEF HasRow
      <4> QED
        BY <1>1, <1>2, <4>2, <4>3, <4>4, <4>5 DEF JInv, Slot
    <3> QED
      BY <3>1, <3>2
  <2> QED
    BY <2>1 DEF Slot
<1>7. Loss'
  <2>1. \A o \in Consumers : o # c => Held(o)' = Held(o)
    BY <1>1 DEF Held, At, Ids
  <2>2. LossIsExplained'
    <3> SUFFICES ASSUME NEW j \in 1..accepted
                 PROVE  \/ j \in ToSet(queue) \cup exposed \cup clashed
                        \/ \E o \in Consumers : j \in Held(o)'
                        \/ HasRow(j)'
      BY <1>1 DEF LossIsExplained, HasRow
    <3>1. \/ j \in ToSet(queue) \cup exposed \cup clashed
          \/ \E o \in Consumers : j \in Held(o)
          \/ HasRow(j)
      BY DEF JInv, Loss, LossIsExplained, HasRow
    <3> QED
      BY <2>1, <3>1
  <2> QED
    BY <1>1, <2>2 DEF JInv, Loss
<1> QED
  BY <1>3, <1>4, <1>6, <1>7 DEF JInv

LEMMA RunQueue ==
    ASSUME JInv, NEW c \in Consumers, Register(c) \/ Save(c) \/ End(c)
    PROVE  JInv'
<1>1. /\ cpc[c] \in {"popped", "registered", "running"} /\ hand[c] \in 1..accepted
      /\ rows \in Seq(Row) /\ cpc \in [Consumers -> ConsumerLocation]
      /\ hand \in [Consumers -> 0..accepted] /\ accepted \in Nat
  BY DEF Register, Save, End, At, JInv, Slot, Types
<1>11. PICK j \in 1..accepted : j = hand[c]
  BY <1>1
<1>2. PICK s \in Active \cup Ended :
         /\ rows' = Saved(j, s)
         /\ \/ s = "pending" /\ cpc[c] = "popped" /\ cpc' = [cpc EXCEPT ![c] = "registered"] /\ hand' = hand
            \/ s = "in_progress" /\ cpc' = [cpc EXCEPT ![c] = "running"] /\ hand' = hand
            \/ /\ s \in Ended /\ \E p \in {"idle", "done"} : cpc' = [cpc EXCEPT ![c] = p]
               /\ hand' = [hand EXCEPT ![c] = 0]
  BY <1>11 DEF Register, Save, End, Goto, Leave, At, Active
<1>3. UNCHANGED <<queue, enqueuer, lines, crashes, history>>
  BY DEF Register, Save, End
<1>4. /\ rows' \in Seq(Row) /\ HasRow(j)' /\ \A k \in 1..accepted : HasRow(k) => HasRow(k)'
      /\ \A i \in 1..Len(rows') :
            \/ rows'[i].run = j /\ rows'[i].status = s
            \/ i \in 1..Len(rows) /\ rows'[i] = rows[i] /\ rows[i].run # j
  BY <1>1, <1>2, SavedRows
<1>5. /\ cpc' \in [Consumers -> ConsumerLocation] /\ hand' \in [Consumers -> 0..accepted]
      /\ \A o \in Consumers : o # c => cpc'[o] = cpc[o] /\ hand'[o] = hand[o]
      /\ cpc'[c] \in {"registered", "running", "idle", "done"}
      /\ cpc'[c] \in {"registered", "running"} => hand'[c] = j
  BY <1>1, <1>11, <1>2 DEF ConsumerLocation
<1>6. \A k \in Held(c) : HasRow(k)'
  BY <1>1, <1>11, <1>4 DEF Held, At
<1>9. (cpc[c] \in {"registered", "running"} => HasRow(hand[c]))'
  BY <1>4, <1>5 DEF HasRow
<1>7. InProgressIsRunning'
  <2> SUFFICES ASSUME NEW i \in 1..Len(rows'), rows'[i].status = "in_progress"
               PROVE  \/ \E o \in Consumers : cpc'[o] = "running" /\ hand'[o] = rows'[i].run
                      \/ cpc'[Loop] = "down"
                      \/ rows'[i].run \in exposed'
    BY DEF InProgressIsRunning, Run
  <2>1. CASE rows'[i].run = j /\ rows'[i].status = s
    <3>1. cpc'[c] = "running" /\ hand'[c] = j
      BY <1>1, <1>11, <1>2, <2>1 DEF Ended
    <3> QED
      BY <2>1, <3>1
  <2>2. CASE i \in 1..Len(rows) /\ rows'[i] = rows[i] /\ rows[i].run # j
    <3>1. /\ rows[i].status = "in_progress" /\ rows'[i].run = rows[i].run
          /\ exposed' = exposed
      BY <1>3, <2>2 DEF history
    <3>2. cpc[Loop] = "down" => cpc'[Loop] = "down"
      BY <1>1, <1>5 DEF Consumers
    <3>3. \/ \E o \in Consumers : cpc[o] = "running" /\ hand[o] = rows[i].run
          \/ cpc[Loop] = "down"
          \/ rows[i].run \in exposed
      BY <2>2, <3>1 DEF JInv, Slot, InProgressIsRunning, Run
    <3> QED
      BY <1>5, <1>11, <2>2, <3>1, <3>2, <3>3
  <2> QED
    BY <1>4, <2>1, <2>2
<1>8. UNCHANGED accepted
  BY <1>3 DEF enqueuer
<1>10. cpc'[c] \in {"popped", "registered", "running"} => hand'[c] \in 1..accepted
  BY <1>5
<1> QED
  BY <1>1, <1>3, <1>4, <1>5, <1>6, <1>7, <1>9, <1>10, SettleQueue

LEMMA RestartQueue ==
    ASSUME JInv, Restart
    PROVE  JInv'
<1>1. /\ cpc[Loop] = "down" /\ cpc' = [cpc EXCEPT ![Loop] = "idle"] /\ Loop \in Consumers
      /\ rows \in Seq(Row) /\ \A i \in 1..Len(rows) : rows[i] \in Row
      /\ UNCHANGED <<queue, enqueuer, lines, hand, crashes, history>>
  BY DEF Restart, At, Goto, JInv, Types, Consumers
<1> DEFINE Swept(i) == IF rows[i].status = "in_progress"
                       THEN [rows[i] EXCEPT !.status = "failed"] ELSE rows[i]
<1>2. \A i \in 1..Len(rows) :
         Swept(i) \in Row /\ Swept(i).run = rows[i].run /\ Swept(i).status # "in_progress"
  BY <1>1 DEF Row, Active, Ended
<1>3. rows' = [i \in 1..Len(rows) |-> Swept(i)]
  BY DEF Restart
<1> HIDE DEF Swept
<1>4. rows' \in Seq(Row) /\ Len(rows') = Len(rows) /\ \A i \in 1..Len(rows) : rows'[i] = Swept(i)
  BY <1>1, <1>2, <1>3
<1>5. \A j \in 1..accepted : HasRow(j) => HasRow(j)'
  BY <1>2, <1>4 DEF HasRow, Run
<1>6. InProgressIsRunning'
  BY <1>2, <1>4 DEF InProgressIsRunning
<1>7. /\ cpc' \in [Consumers -> ConsumerLocation] /\ hand' \in [Consumers -> 0..accepted]
      /\ \A o \in Consumers : o # Loop => cpc'[o] = cpc[o] /\ hand'[o] = hand[o]
      /\ cpc'[Loop] = "idle" /\ Held(Loop) = {}
  BY <1>1 DEF JInv, Types, ConsumerLocation, Held, At
<1> QED
  BY <1>1, <1>4, <1>5, <1>6, <1>7, SettleQueue

\* What the consumer held is exposed.
LEMMA CrashQueue ==
    ASSUME JInv, NEW c \in Consumers, Crash(c)
    PROVE  JInv'
<1>1. /\ exposed' = exposed \cup Held(c) /\ crashes' = crashes + 1 /\ crashes < MaxCrashes
      /\ cpc' = [cpc EXCEPT ![c] = IF c = Loop THEN "down" ELSE "done"]
      /\ lines' = [lines EXCEPT ![c] = <<>>] /\ hand' = [hand EXCEPT ![c] = 0]
      /\ UNCHANGED <<queue, rows, model, accepted, epc, wanted, pending, popped, clashed>>
  BY DEF Crash, Goto, file, enqueuer
<1>2. /\ Lines' = Lines /\ Row' = Row /\ <<>> \in Seq(Lines) /\ Popping' = Popping \ {c}
      /\ lines'[c] = <<>> /\ hand'[c] = 0
      /\ cpc'[c] = IF c = Loop THEN "down" ELSE "done"
      /\ \A o \in Consumers : o # c => lines'[o] = lines[o] /\ cpc'[o] = cpc[o] /\ hand'[o] = hand[o]
  BY <1>1 DEF Lines, Row, Popping, JInv, Types
<1>3. Held(c) \subseteq 1..accepted
  BY IdsAreJobs DEF Held, At, JInv, Slot
<1>4. EnqueuerTypes' /\ Types'
  <2>1. crashes' \in 0..MaxCrashes /\ 0 \in 0..accepted
    BY <1>1, IdsAreJobs, QueueAssumption DEF JInv, Types
  <2> QED
    BY <1>1, <1>2, <1>3, <2>1 DEF JInv, EnqueuerTypes, Types, ConsumerLocation
<1>5. Order' /\ Clash'
  BY <1>1, <1>2 DEF JInv, Order, Clash, Popping
<1>6. Slot'
  <2>1. InProgressIsRunning'
    <3> SUFFICES ASSUME NEW i \in 1..Len(rows), rows[i].status = "in_progress"
                 PROVE  \/ \E o \in Consumers : cpc'[o] = "running" /\ hand'[o] = Run(i)
                        \/ cpc'[Loop] = "down"
                        \/ Run(i) \in exposed'
      BY <1>1 DEF InProgressIsRunning, Run
    <3>1. CASE c = Loop
      BY <1>2, <3>1
    <3>2. CASE c # Loop
      <4>1. cpc[c] = "running" => hand[c] \in exposed'
        BY <1>1, <3>2 DEF Held, At
      <4> QED
        BY <1>1, <1>2, <3>2, <4>1 DEF JInv, Slot, InProgressIsRunning, Consumers
    <3> QED
      BY <3>1, <3>2
  <2> QED
    BY <1>1, <1>2, <2>1 DEF JInv, Slot, HasRow, Run
<1>7. Loss'
  <2>1. \A o \in Consumers : o # c => Held(o)' = Held(o)
    BY <1>1, <1>2 DEF Held, At, Ids
  <2>2. LossIsExplained'
    BY <1>1, <2>1 DEF JInv, Loss, LossIsExplained, Run
  <2> QED
    BY <1>1, <1>2, <2>2 DEF JInv, Loss
<1> QED
  BY <1>4, <1>5, <1>6, <1>7 DEF JInv

-----------------------------------------------------------------------------
(* Theorems *)

LEMMA QueueInvariance == Spec => []JInv
<1>1. JInv /\ [Next]_vars => JInv'
  <2> SUFFICES ASSUME JInv, [Next]_vars PROVE JInv'
    OBVIOUS
  <2>1. ASSUME NEW e \in Enqueuers, Enqueue(e) PROVE JInv'
    BY <2>1, EnqueueQueue, AppendQueue DEF Enqueue
  <2>2. ASSUME NEW c \in Consumers, PopRead(c) \/ Proceed(c) \/ Crash(c) PROVE JInv'
    BY <2>2, ReadQueueLines, TruncateQueue, WriteQueue, RunQueue, CrashQueue DEF Proceed
  <2>3. CASE Restart
    BY <2>3, RestartQueue
  <2>4. CASE UNCHANGED vars
    <3>1. UNCHANGED <<queue, rows, cpc, lines, hand, accepted, popped, exposed, clashed, model,
                      crashes, epc, wanted, pending>>
      BY <2>4 DEF vars, file, enqueuer, consumer, history
    <3>2. Types' /\ Order' /\ Clash' /\ Slot' /\ Loss'
      BY <3>1, SameQueue
    <3>3. EnqueuerTypes'
      BY <3>1 DEF JInv, EnqueuerTypes
    <3> QED
      BY <3>2, <3>3 DEF JInv
  <2> QED
    BY <2>1, <2>2, <2>3, <2>4 DEF Next
<1> QED
  BY InitQueue, <1>1, PTL DEF Spec

\* The queue, the index and the local state of enqueue and pop_one hold only
\* run ids that enqueue has returned, apart from lines that an overwrite has
\* garbled, which are never popped; every enqueuer under way is about a model.
THEOREM QueueTypeCorrect == Spec => []TypeOK
<1>1. JInv => TypeOK
  <2> SUFFICES ASSUME JInv PROVE TypeOK
    OBVIOUS
  <2>1. ToSet(queue) \subseteq Lines /\ \A c \in Consumers : ToSet(lines[c]) \subseteq Lines
    BY Elements DEF JInv, Types
  <2>2. \A i \in 1..Len(rows) : rows[i] \in Row
    BY DEF JInv, Types
  <2>3. ToSet(popped) \subseteq 1..accepted
    BY IdsAreJobs DEF JInv
  <2> QED
    BY <2>1, <2>2, <2>3
       DEF JInv, EnqueuerTypes, EnqueuerLocation, ConsumerLocation, Types, Lines, Row, Run, TypeOK
<1> QED
  BY QueueInvariance, <1>1, PTL

\* pop_one hands a run id out at most once although nothing locks queue.jsonl,
\* except where the loop and a `run` (or two of them) pop at the same time:
\* whatever it truncates, overwrites or drops in a crash, what is left in the
\* file is newer than every job popped before.
THEOREM PoppedOnce == Spec => []EachJobRunsOnce
<1>1. JInv => EachJobRunsOnce
  <2> SUFFICES ASSUME JInv, NEW i \in 1..Len(popped), popped[i] \notin clashed
               PROVE  /\ popped[i] \notin ToSet(queue)
                      /\ \A k \in 1..Len(popped) : popped[i] = popped[k] => i = k
    BY DEF EachJobRunsOnce
  <2>1. popped[i] \in ToSet(popped) /\ popped[i] \in 1..accepted /\ popped[i] # Garbled
    BY Elements, IdsAreJobs DEF JInv, Types
  <2>2. ~(popped[i] < popped[i])
    BY <2>1
  <2>3. popped[i] \notin ToSet(queue)
    BY <2>1, <2>2 DEF JInv, Order, Before, Ids
  <2>4. ASSUME NEW k \in 1..Len(popped), popped[i] = popped[k] PROVE i = k
    <3>1. i \in Int /\ k \in Int /\ (i < k \/ k < i \/ i = k)
      OBVIOUS
    <3> QED
      BY <2>1, <2>2, <2>4, <3>1 DEF JInv, Order, Ordered
  <2> QED
    BY <2>3, <2>4
<1> QED
  BY QueueInvariance, <1>1, PTL

\* A row in_progress is that of a run some consumer is at, or the loop will end
\* it when it is restarted: no row keeps the slot for ever once it has been.
THEOREM SlotIsHeld == Spec => []InProgressIsRunning
<1>1. JInv => InProgressIsRunning
  BY DEF JInv, Slot
<1> QED
  BY QueueInvariance, <1>1, PTL

\* Jobs are popped in the order in which enqueue accepted them, though pop_one
\* writes the rest of the queue over lines appended meanwhile, except where two
\* pops overlapped.
THEOREM FirstInFirstOut == Spec => []RunsInEnqueueOrder
<1>1. JInv => RunsInEnqueueOrder
  <2>1. JInv => \A i \in 1..Len(popped) : popped[i] # Garbled
    BY QueueAssumption, IdsAreJobs DEF JInv, Types
  <2> QED
    BY <2>1 DEF JInv, Order, Ordered, RunsInEnqueueOrder
<1> QED
  BY QueueInvariance, <1>1, PTL

\* A job that enqueue has accepted is lost in three ways only: appended between
\* the read and the write of a pop_one, in the hands of two overlapping ones, or
\* held by a consumer that dies.
THEOREM NoOtherLoss == Spec => []LossIsExplained
<1>1. JInv => LossIsExplained
  BY DEF JInv, Loss
<1> QED
  BY QueueInvariance, <1>1, PTL

=============================================================================
