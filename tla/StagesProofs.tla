----------------------------- MODULE StagesProofs -----------------------------
(***************************************************************************)
(* The stages between submission and report, for every number of curators, *)
(* repositories, executors, attempts and items. Each part has an inductive *)
(* invariant of its own.                                                   *)
(***************************************************************************)
EXTENDS MCStages, FiniteSetTheorems, WellFoundedInduction, TLAPS

-----------------------------------------------------------------------------
(* The directories of weights *)

\* The shards of model m in its directory, by number, and who downloads it.
Have(m) == {i \in 1..Shards : <<m, i>> \in dir[hf_local_dir[m]].shards}
Loading(m) == {e \in Executors : At(e, "download") /\ run[e] = m}

\* Only an executor that looks for room has a plan; whoever runs in a planned
\* directory was unknown when the plan was made.
PlansApart ==
    /\ \A v \in Evictors : plan[v] # {} => need[v] > 0
    /\ \A e \in Executors : /\ run[e] = NoModel <=> spc[e] = "idle"
                            /\ spc[e] # "evict" => plan[e] = {}
                            /\ spc[e] = "download" => part[e] \in 1..(Shards + 1)
    /\ \A v \in Evictors, e \in Executors :
          \A x \in plan[v] : run[e] # NoModel /\ Target(e) = x.dir => e \in unseen[v]

\* A model nobody downloads is there as a whole or not at all; its one download
\* has written the shards before the one it is at.
Settled(m) ==
    \/ Have(m) = 1..Shards
    \/ Have(m) = {} /\ Loading(m) = {}
    \/ \E e \in Executors : Loading(m) = {e} /\ Have(m) = 1..(part[e] - 1)

\* That is so where every download ran undisturbed.
Undisturbed ==
    /\ \A z \in zombies : hf_local_dir[z.model] \in disturbed
    /\ \A m \in CacheModels : hf_local_dir[m] \notin disturbed => Settled(m)

CacheInv ==
    /\ CacheTypeOK
    /\ \A d \in CacheDirs : dir[d].kind = "absent" => dir[d] = Absent
    /\ PlansApart
    /\ Undisturbed

-----------------------------------------------------------------------------
(* The card *)

Looking == {"probe", "fetch", "call"}
Writing == {"write", "replace"}

CurationTypes ==
    /\ card \in Contents /\ tmp \in Contents
    /\ handle \in [Curators -> {"none", "tmp", "card", "unlinked"}]
    /\ kpc \in [Curators -> {"idle", "open", "done"} \cup Looking \cup Writing]
    /\ draft \in [Curators -> Contents \cup {"kept"}]
    /\ asked \in 0..MaxCards
    /\ overtaken \in [Curators -> BOOLEAN] /\ together \in BOOLEAN

\* As long as no two have written at a time, the temporary file is the one
\* writer's, and the card is whole.
OneWriter ==
    /\ card \in {"none", "good", "degraded"}
    /\ \A j, k \in Curators : kpc[j] \in Writing /\ kpc[k] \in Writing => j = k
    /\ \A k \in Curators :
          /\ kpc[k] = "write" => handle[k] = "tmp" /\ tmp = "empty"
          /\ kpc[k] = "replace" => tmp = draft[k]
          /\ kpc[k] # "write" => handle[k] = "none"

CurationInv ==
    /\ CurationTypes
    /\ ~together => OneWriter
    /\ \A k \in Curators :
          /\ kpc[k] \in {"open"} \cup Writing => draft[k] \in {"good", "degraded"}
          /\ (/\ k \notin Refreshers /\ draft[k] # "kept" /\ card = "good"
              /\ kpc[k] \in {"open"} \cup Looking \cup Writing) => overtaken[k] \/ together

-----------------------------------------------------------------------------
(* The plan *)

\* What METADATA wrote is one of the two readings of the repository; a plan
\* that is not skipped has the parallelism of that reading, and fits the pool.
PlanInv ==
    /\ PlanTypeOK
    /\ ppc # "start" => repo \in Repos
    /\ ppc \in {"select", "planned"} => metadata \in {Merged("good"), Merged("degraded")}
    /\ ppc \in {"start", "metadata", "select"} => engine = NoPlan
    /\ Planned => /\ engine.tp = _vllm_args_hint(metadata) /\ ~oversize(engine.tp)
                  /\ _is_runnable_model_repo(metadata.siblings)

-----------------------------------------------------------------------------
(* The repair of a deploy *)

Plan == [engine : Engines, trust : BOOLEAN, len : Nat, gguf : BOOLEAN]
Images == {"vllm:v0.11.0", "vllm:latest", "sglang", "runner:v10"}
Try == [plan : Plan, image : Images, by : Strategies \cup {"initial", "agent"}]
Proposal == [name : Strategies, plan : Plan]

RepairTypes ==
    /\ rpc \in {"start", "first", "propose", "try", "agent", "ok", "failed"}
    /\ rplan \in Plan /\ rimage \in Images
    /\ failure \in [engine : Engines, image : Images, class : classify \cup {"none"}]
    /\ fresh \subseteq Proposal /\ seen \subseteq Strategies
    /\ tries \in Seq(Try) /\ calls \in 0..AgentAttempts

\* What only strategy s brings into a configuration that began with length len.
Marked(s, p, image, len) ==
    CASE s = "add_trust_remote_code" -> p.trust
      [] s = "use_gguf_file_path" -> p.gguf
      [] s = "lower_max_model_len" -> p.len # len
      [] s = "swap_vllm_image_latest" -> image = "vllm:latest"
      [] s = "swap_engine_sglang" -> p.engine = "sglang"
      [] OTHER -> p.engine = "transformers"

\* The running configuration is that of the last attempt.
RunsLast ==
    /\ tries # <<>>
    /\ rplan = tries[Len(tries)].plan /\ rimage = tries[Len(tries)].image

\* A strategy that was not used has left no mark, but for an engine the deploy
\* has begun with; a proposal bears the mark of its own strategy, not of others.
Repairing ==
    /\ RunsLast
    /\ failure.engine = rplan.engine /\ failure.image = rimage
    /\ \A i \in 1..Len(tries), s \in Strategies \ seen :
          Marked(s, tries[i].plan, tries[i].image, tries[1].plan.len)
             => i = 1 /\ s = "swap_engine_transformers"

Proposed ==
    /\ tries # <<>>
    /\ \A x \in fresh : /\ x.name \notin seen
                        /\ x.plan.engine = "transformers" => x.name = "swap_engine_transformers"
                        /\ \A s \in Strategies \ seen :
                              Marked(s, x.plan, ImageFor(x), tries[1].plan.len) <=> s = x.name
    /\ \A x, y \in fresh : x.name = y.name => x = y

RepairInv ==
    /\ RepairTypes
    /\ rpc = "start" => rplan = Plain
    /\ rpc \in {"start", "first"} => tries = <<>> /\ seen = {} /\ calls = 0
    /\ rpc = "first" => ~rplan.trust /\ ~rplan.gguf /\ rplan.engine # "sglang" /\ rimage = ImageOf(rplan.engine)
    /\ rpc \in {"propose", "try"} => Repairing
    /\ rpc = "try" => Proposed
    /\ rpc # "try" => fresh = {}
    /\ rpc = "agent" => RunsLast
    /\ NoConfigTwice
    /\ AgentChangesSomething

-----------------------------------------------------------------------------
(* What is measured *)

Places == DOMAIN CATEGORY_REGISTRY
NameAt(i) == CATEGORY_REGISTRY[i].name
Tally == [total : Nat, pass : Nat, errors : [Errors -> Nat]]
Measuring == {"suite", "category", "scored"}

ScoreTypes ==
    /\ mpc \in {"start", "perf", "burst", "plan", "eval", "grade", "end"} \cup Measuring
    /\ queue \subseteq Places /\ left \in Nat /\ tally \in Tally
    /\ expired \in BOOLEAN /\ aborted \in BOOLEAN /\ silent \in BOOLEAN /\ warned \in BOOLEAN
    /\ burst \in [flying : Nat, ok : Nat, failed : Nat]
    /\ ScoreTypeOK

\* The categories still to be run are missing in the report; of the others
\* one is missing or cut short exactly when the report says so.
Reported ==
    /\ \A i \in queue : report[NameAt(i)] = "missing"
    /\ aborted <=> \E i \in Places \ queue : report[NameAt(i)] \in {"missing", "cut"}

\* A category of the model's one purpose is to be run, or was.
OnPurpose ==
    profile.pipeline \in SinglePurpose \ {"audio-classification"} =>
        \E i \in Places : /\ CATEGORY_REGISTRY[i].tag \in _pipeline_tag_to_capability_tags(profile.pipeline)
                          /\ report[NameAt(i)] # "na"

\* Silence shows as one of two errors in every item.
SilentItems ==
    silent => tally.pass = 0 /\ tally.errors["refused"] + tally.errors["http_0"] = tally.total

ScoreInv ==
    /\ ScoreTypes
    /\ mpc = "start" => ~aborted /\ tally = NoTally
    /\ mpc \in Measuring => Reported /\ OnPurpose /\ SilentItems
    /\ mpc = "category" => queue # {}
    /\ mpc = "scored" => queue = {} /\ (capability = "ok" => ~endpoint_broken(tally))
    /\ mpc \in {"start", "perf"} \cup Measuring => burst = NoBurst
    /\ mpc \in {"start", "perf", "burst"} \cup Measuring => perf = "none"
    /\ mpc = "burst" \/ perf = "measured" => burst.flying + burst.ok + burst.failed = Burst
    /\ StragglersAreWarned

-----------------------------------------------------------------------------
(* The card: proofs *)

LEMMA InitCuration == CurationInit => CurationInv
<1> SUFFICES ASSUME CurationInit PROVE CurationInv
  OBVIOUS
<1>1. CurationTypes
  <2>1. overtaken \in [Curators -> BOOLEAN] /\ together \in BOOLEAN
    BY DEF CurationInit
  <2>2. kpc \in [Curators -> {"idle", "open", "done"} \cup Looking \cup Writing]
    BY DEF CurationInit
  <2>3. asked \in 0..MaxCards
    BY CurationAssumption DEF CurationInit
  <2> QED
    BY <2>1, <2>2, <2>3 DEF CurationInit, CurationTypes, Contents
<1>2. OneWriter /\ \A k \in Curators : kpc[k] \notin {"open"} \cup Looking \cup Writing
  BY DEF CurationInit, OneWriter, Looking, Writing
<1> QED
  BY <1>1, <1>2 DEF CurationInv

LEMMA LookingUp ==
    ASSUME CurationInv, NEW k \in Curators, Look(k)
    PROVE  CurationInv'
<1>1. CurationTypes'
  BY CurationAssumption
  DEF CurationInv, CurationTypes, Look, AfterLook, cards, Contents, Looking, Writing
<1>2. ~together' => OneWriter'
  BY DEF CurationInv, CurationTypes, OneWriter, Look, AfterLook, cards, Looking, Writing
<1>3. ASSUME NEW j \in Curators
      PROVE  /\ kpc'[j] \in {"open"} \cup Writing => draft'[j] \in {"good", "degraded"}
             /\ (/\ j \notin Refreshers /\ draft'[j] # "kept" /\ card' = "good"
                 /\ kpc'[j] \in {"open"} \cup Looking \cup Writing) => overtaken'[j] \/ together'
  <2>1. CASE j # k
    BY <2>1 DEF CurationInv, CurationTypes, Look, cards
  <2>2. CASE j = k /\ MustAsk(k)
    BY <2>2 DEF CurationInv, CurationTypes, Look, MustAsk, AfterLook, cards, Writing, Looking, Contents
  <2>3. CASE j = k /\ ~MustAsk(k)
    BY <2>3 DEF CurationInv, CurationTypes, Look, MustAsk, cards, Writing, Looking
  <2> QED
    BY <2>1, <2>2, <2>3
<1> QED
  BY <1>1, <1>2, <1>3 DEF CurationInv

LEMMA Drafting ==
    ASSUME CurationInv, NEW k \in Curators, kpc[k] \in Looking,
           \/ \E c \in {"good", "degraded"} : Drafted(k, c)
           \/ kpc' \in {[kpc EXCEPT ![k] = next] : next \in Looking} /\ UNCHANGED draft,
           UNCHANGED <<cards, engine_up, asked, overtaken, together>>
    PROVE  CurationInv'
<1>1. CurationTypes'
  BY DEF CurationInv, CurationTypes, Drafted, cards, Contents, Looking, Writing
<1>2. ~together' => OneWriter'
  BY DEF CurationInv, CurationTypes, OneWriter, Drafted, cards, Looking, Writing
<1>3. ASSUME NEW j \in Curators
      PROVE  /\ kpc'[j] \in {"open"} \cup Writing => draft'[j] \in {"good", "degraded"}
             /\ (/\ j \notin Refreshers /\ draft'[j] # "kept" /\ card' = "good"
                 /\ kpc'[j] \in {"open"} \cup Looking \cup Writing) => overtaken'[j] \/ together'
  BY DEF CurationInv, CurationTypes, Drafted, cards, Looking, Writing
<1> QED
  BY <1>1, <1>2, <1>3 DEF CurationInv

LEMMA Asking ==
    ASSUME CurationInv, NEW k \in Curators, probe_engine(k) \/ fetch_modelcard(k) \/ call(k)
    PROVE  CurationInv'
<1>1. CASE probe_engine(k)
  <2>1. /\ kpc[k] \in Looking /\ UNCHANGED <<cards, engine_up, asked, overtaken, together>>
        /\ \/ Drafted(k, "degraded")
           \/ kpc' = [kpc EXCEPT ![k] = "fetch"] /\ UNCHANGED draft
    BY <1>1 DEF probe_engine, Looking
  <2> QED
    BY <2>1, Drafting DEF Looking
<1>2. CASE fetch_modelcard(k)
  <2>1. /\ kpc[k] \in Looking /\ UNCHANGED <<cards, engine_up, asked, overtaken, together>>
        /\ \/ Drafted(k, "degraded")
           \/ kpc' = [kpc EXCEPT ![k] = "call"] /\ UNCHANGED draft
    BY <1>2 DEF fetch_modelcard, Looking
  <2> QED
    BY <2>1, Drafting DEF Looking
<1>3. CASE call(k)
  <2>1. /\ kpc[k] \in Looking /\ UNCHANGED <<cards, engine_up, asked, overtaken, together>>
        /\ \E c \in {"good", "degraded"} : Drafted(k, c)
    BY <1>3 DEF call, Looking
  <2> QED
    BY <2>1, Drafting
<1> QED
  BY <1>1, <1>2, <1>3

LEMMA OpeningTmp ==
    ASSUME CurationInv, NEW k \in Curators, OpenTmp(k)
    PROVE  CurationInv'
<1>1. tmp' = "empty" /\ card' = card /\ handle' = [handle EXCEPT ![k] = "tmp"]
  BY DEF OpenTmp, Empties, written_file
<1>2. CurationTypes'
  BY <1>1 DEF CurationInv, CurationTypes, OpenTmp, Contents, Looking, Writing
<1>3. ASSUME ~together' PROVE OneWriter'
  <2>1. OneWriter /\ \A j \in Curators \ {k} : kpc[j] \notin Writing
    BY <1>3 DEF CurationInv, OpenTmp, Writing
  <2>2. /\ handle'[k] = "tmp" /\ kpc'[k] = "write"
        /\ \A j \in Curators \ {k} : handle'[j] = handle[j] /\ kpc'[j] = kpc[j]
    BY <1>1 DEF CurationInv, CurationTypes, OpenTmp
  <2> QED
    BY <1>1, <2>1, <2>2 DEF OneWriter, Writing
<1>4. ASSUME NEW j \in Curators
      PROVE  /\ kpc'[j] \in {"open"} \cup Writing => draft'[j] \in {"good", "degraded"}
             /\ (/\ j \notin Refreshers /\ draft'[j] # "kept" /\ card' = "good"
                 /\ kpc'[j] \in {"open"} \cup Looking \cup Writing) => overtaken'[j] \/ together'
  BY <1>1 DEF CurationInv, CurationTypes, OpenTmp, Looking, Writing
<1> QED
  BY <1>2, <1>3, <1>4 DEF CurationInv

LEMMA WritingTmp ==
    ASSUME CurationInv, NEW k \in Curators, WriteTmp(k)
    PROVE  CurationInv' /\ (~together => card' = card)
<1>1. kpc[k] = "write" /\ draft[k] \in {"good", "degraded"}
  BY DEF CurationInv, WriteTmp, Writing
<1>2. CurationTypes'
  BY <1>1 DEF CurationInv, CurationTypes, WriteTmp, Over, Contents, Looking, Writing
<1>3. ~together => tmp' = draft[k] /\ card' = card
  BY <1>1 DEF CurationInv, OneWriter, WriteTmp, Over
<1>4. ~together' => OneWriter'
  BY <1>1, <1>3 DEF CurationInv, CurationTypes, OneWriter, WriteTmp, Writing
<1>5. ASSUME NEW j \in Curators
      PROVE  /\ kpc'[j] \in {"open"} \cup Writing => draft'[j] \in {"good", "degraded"}
             /\ (/\ j \notin Refreshers /\ draft'[j] # "kept" /\ card' = "good"
                 /\ kpc'[j] \in {"open"} \cup Looking \cup Writing) => overtaken'[j] \/ together'
  BY <1>1, <1>3 DEF CurationInv, CurationTypes, WriteTmp, Looking, Writing
<1> QED
  BY <1>2, <1>3, <1>4, <1>5 DEF CurationInv

LEMMA Replacing ==
    ASSUME CurationInv, NEW k \in Curators, Replace(k)
    PROVE  /\ CurationInv'
           /\ ~together /\ card = "good" /\ card' # "good" => k \in Refreshers \/ overtaken[k]
<1>1. kpc[k] = "replace" /\ draft[k] \in {"good", "degraded"} /\ kpc'[k] # "replace"
      /\ UNCHANGED <<draft, engine_up, asked, together>>
      /\ \A j \in Curators : kpc'[j] = IF j = k THEN IF k \in Stages THEN "done" ELSE "idle" ELSE kpc[j]
  BY DEF CurationInv, CurationTypes, Replace, Written, Writing
<1>2. ~together => tmp = draft[k] /\ \A j \in Curators : handle[j] = "none"
  BY <1>1 DEF CurationInv, OneWriter, Writing
<1>3. CurationTypes'
  <2>1. kpc' \in [Curators -> {"idle", "open", "done"} \cup Looking \cup Writing]
    BY DEF CurationInv, CurationTypes, Replace, Written
  <2>2. card' \in Contents /\ tmp' \in Contents
    BY DEF CurationInv, CurationTypes, Replace, cards, Contents
  <2>3. handle' \in [Curators -> {"none", "tmp", "card", "unlinked"}]
    BY DEF CurationInv, CurationTypes, Replace, cards
  <2>4. overtaken' \in [Curators -> BOOLEAN]
    BY DEF CurationInv, CurationTypes, Replace
  <2> QED
    BY <1>1, <2>1, <2>2, <2>3, <2>4 DEF CurationInv, CurationTypes
<1>4. ~together' => OneWriter'
  <2>1. CASE tmp # "none" /\ card' = tmp /\ handle' = [j \in Curators |-> CASE handle[j] = "tmp" -> "card"
                                             [] handle[j] = "card" -> "unlinked"
                                             [] OTHER -> handle[j]]
    BY <1>1, <1>2, <2>1 DEF CurationInv, OneWriter, Writing
  <2>2. CASE UNCHANGED cards
    BY <1>1, <1>2, <2>2 DEF CurationInv, OneWriter, Writing, cards
  <2> QED
    BY <2>1, <2>2 DEF Replace
<1>5. ASSUME NEW j \in Curators
      PROVE  /\ kpc'[j] \in {"open"} \cup Writing => draft'[j] \in {"good", "degraded"}
             /\ (/\ j \notin Refreshers /\ draft'[j] # "kept" /\ card' = "good"
                 /\ kpc'[j] \in {"open"} \cup Looking \cup Writing) => overtaken'[j] \/ together'
  <2>1. CASE j = k
    BY <1>1, <2>1 DEF Looking, Writing
  <2>2. CASE j # k /\ card' = tmp /\ overtaken' = [i \in Curators |-> overtaken[i] \/ (i # k /\ tmp = "good")]
    BY <1>1, <2>2 DEF CurationInv, CurationTypes
  <2>3. CASE j # k /\ UNCHANGED <<cards, overtaken>>
    BY <1>1, <2>3 DEF CurationInv, cards
  <2> QED
    BY <2>1, <2>2, <2>3 DEF Replace
<1>6. ~together /\ card = "good" /\ card' # "good" => k \in Refreshers \/ overtaken[k]
  BY <1>1 DEF CurationInv, Writing
<1> QED
  BY <1>3, <1>4, <1>5, <1>6 DEF CurationInv

LEMMA LeavingCard ==
    ASSUME CurationInv, NEW k \in Curators, CardUsed(k) \/ CuratorDies(k)
    PROVE  CurationInv'
<1>1. /\ kpc' = [kpc EXCEPT ![k] = "idle"] /\ draft' = [draft EXCEPT ![k] = "none"]
      /\ handle' = handle \/ handle' = [handle EXCEPT ![k] = "none"]
      /\ kpc[k] = "write" => handle' = [handle EXCEPT ![k] = "none"]
      /\ UNCHANGED <<card, tmp, asked, overtaken, together>>
  BY DEF CardUsed, CuratorDies, cards
<1>2. CurationTypes'
  BY <1>1 DEF CurationInv, CurationTypes, Contents
<1>3. ~together' => OneWriter'
  BY <1>1 DEF CurationInv, CurationTypes, OneWriter, Writing
<1>4. ASSUME NEW j \in Curators
      PROVE  /\ kpc'[j] \in {"open"} \cup Writing => draft'[j] \in {"good", "degraded"}
             /\ (/\ j \notin Refreshers /\ draft'[j] # "kept" /\ card' = "good"
                 /\ kpc'[j] \in {"open"} \cup Looking \cup Writing) => overtaken'[j] \/ together'
  BY <1>1 DEF CurationInv, CurationTypes, Looking, Writing
<1> QED
  BY <1>2, <1>3, <1>4 DEF CurationInv

\* A good card is lost to a second writer, to a refresh, or to one that looked
\* before it was there.
LostWithReason ==
    (card = "good" /\ card' # "good")
       => \/ together
          \/ \E k \in Curators : /\ kpc[k] = "replace" /\ kpc'[k] # "replace"
                                 /\ k \in Refreshers \/ overtaken[k]

LEMMA CurationStep == CurationInv /\ [CurationNext]_curationVars => CurationInv' /\ LostWithReason
<1> SUFFICES ASSUME CurationInv, [CurationNext]_curationVars PROVE CurationInv' /\ LostWithReason
  OBVIOUS
<1>1. CASE EngineChanges \/ UNCHANGED curationVars
  <2>1. UNCHANGED <<card, tmp, handle, kpc, draft, asked, overtaken, together>>
    BY <1>1 DEF EngineChanges, curationVars, cards
  <2> QED
    BY <2>1 DEF CurationInv, CurationTypes, OneWriter, LostWithReason
<1>2. ASSUME NEW k \in Curators, Look(k) \/ probe_engine(k) \/ fetch_modelcard(k) \/ call(k)
                                 \/ OpenTmp(k) \/ CardUsed(k) \/ CuratorDies(k)
      PROVE  CurationInv' /\ LostWithReason
  <2>1. card' = card
    BY <1>2 DEF Look, probe_engine, fetch_modelcard, call, OpenTmp, Empties, written_file, CardUsed,
                CuratorDies, cards
  <2>2. CurationInv'
    BY <1>2, LookingUp, Asking, OpeningTmp, LeavingCard
  <2> QED
    BY <2>1, <2>2 DEF LostWithReason
<1>3. ASSUME NEW k \in Curators, WriteTmp(k) PROVE CurationInv' /\ LostWithReason
  BY <1>3, WritingTmp DEF LostWithReason
<1>4. ASSUME NEW k \in Curators, Replace(k) PROVE CurationInv' /\ LostWithReason
  <2>1. kpc[k] = "replace" /\ kpc'[k] # "replace"
    BY <1>4 DEF Replace, Written, CurationInv, CurationTypes
  <2> QED
    BY <1>4, <2>1, Replacing DEF LostWithReason
<1> QED
  BY <1>1, <1>2, <1>3, <1>4 DEF CurationNext

LEMMA CurationInvariance == CurationSpec => []CurationInv
  BY InitCuration, CurationStep, PTL DEF CurationSpec

\* A cached card that cannot be read comes only from two curators that wrote
\* at the same time through the one temporary file, never from one that was
\* killed while it wrote.
THEOREM OneWriterTearsNothing == CurationSpec => []TornOnlyByTwoWriters
<1>1. CurationInv => TornOnlyByTwoWriters
  BY DEF CurationInv, OneWriter, TornOnlyByTwoWriters
<1> QED
  BY CurationInvariance, <1>1, PTL

\* A good card in the cache is lost only to a refresh, to a curator that had
\* looked before it was there, or after two have written at the same time.
THEOREM GoodCardsStay == CurationSpec => GoodCardLostOnlyByRaceOrRefresh
<1>1. CurationInv /\ [CurationNext]_curationVars => [LostWithReason]_curationVars
  BY CurationStep
<1>2. CurationSpec => [][LostWithReason]_curationVars
  BY CurationInvariance, <1>1, PTL DEF CurationSpec
<1> QED
  BY <1>2 DEF GoodCardLostOnlyByRaceOrRefresh, LostWithReason

-----------------------------------------------------------------------------
(* Least and greatest numbers: proofs *)

LEMMA Least ==
    ASSUME NEW S, S \subseteq Nat, S # {}
    PROVE  Min(S) \in S /\ \A y \in S : Min(S) <= y
<1>1. PICK x \in S : \A y \in S : ~(<<y, x>> \in OpToRel(<, Nat))
  BY NatLessThanWellFounded, WFMin
<1>2. \A y \in S : x <= y
  <2> SUFFICES ASSUME NEW y \in S PROVE x <= y
    OBVIOUS
  <2>1. <<y, x>> \in Nat \X Nat /\ ~(y < x)
    BY <1>1 DEF OpToRel
  <2> QED
    BY <2>1
<1> QED
  BY <1>1, <1>2 DEF Min

\* Of the values at the positions of a sequence one is the greatest.
LEMMA Greatest ==
    ASSUME NEW n \in Nat, n > 0, NEW f \in [1..n -> Nat]
    PROVE  LET S == {f[i] : i \in 1..n} IN Max(S) \in S /\ \A y \in S : y <= Max(S)
<1> DEFINE Top(k) == \E i \in 1..k : \A j \in 1..k : f[j] <= f[i]
           Bad == {b \in 1..n : ~Top(b)}
<1>1. ASSUME Bad # {} PROVE FALSE
  <2> DEFINE k == Min(Bad)
  <2>1. k \in Bad /\ \A y \in Bad : k <= y
    <3>1. Bad \subseteq Nat
      OBVIOUS
    <3> HIDE DEF Bad
    <3> QED
      BY <1>1, <3>1, Least
  <2>2. k \in 1..n /\ ~Top(k)
    BY <2>1
  <2>3. \A y \in 1..n : y < k => Top(y)
    <3> HIDE DEF k, Top
    <3>1. k \in 1..n /\ \A y \in 1..n : ~Top(y) => k <= y
      BY <2>1
    <3> QED
      BY <3>1
  <2> HIDE DEF k
  <2>4. k # 1
    <3>1. Top(1)
      BY <2>2
    <3> QED
      BY <2>2, <3>1
  <2>5. Top(k - 1)
    <3>1. k - 1 \in 1..n /\ k - 1 < k
      BY <2>2, <2>4
    <3> QED
      BY <2>3, <3>1
  <2>6. PICK i \in 1..(k - 1) : \A j \in 1..(k - 1) : f[j] <= f[i]
    BY <2>5
  <2>7. i \in 1..k /\ k \in 1..k /\ f[i] \in Nat /\ f[k] \in Nat
        /\ \A j \in 1..k : f[j] \in Nat /\ (j \in 1..(k - 1) \/ j = k)
    BY <2>2, <2>6
  <2>8. CASE f[k] <= f[i]
    <3>1. \A j \in 1..k : f[j] <= f[i]
      BY <2>6, <2>7, <2>8
    <3> QED
      BY <2>2, <2>7, <3>1
  <2>9. CASE f[i] <= f[k]
    <3>1. \A j \in 1..k : f[j] <= f[k]
      BY <2>6, <2>7, <2>9
    <3> QED
      BY <2>2, <2>7, <3>1
  <2> QED
    BY <2>7, <2>8, <2>9
<1>2. Top(n)
  <2>1. n \in 1..n
    OBVIOUS
  <2> QED
    BY <1>1, <2>1
<1>3. PICK i \in 1..n : \A j \in 1..n : f[j] <= f[i]
  BY <1>2
<1> QED
  BY <1>3 DEF Max

-----------------------------------------------------------------------------
(* The plan: proofs *)

\* The largest of some sizes is one of them.
LEMMA LargestIsASize ==
    ASSUME NEW s \in Seq(Size), s # <<>>
    PROVE  \E i \in 1..Len(s) : Largest(s) = Billions(s[i])
<1>1. Len(s) \in Nat /\ Len(s) > 0 /\ DOMAIN s = 1..Len(s) /\ \A i \in 1..Len(s) : s[i] \in Size
  OBVIOUS
<1> DEFINE f == [i \in 1..Len(s) |-> Billions(s[i])]
<1>2. f \in [1..Len(s) -> Nat]
  BY <1>1 DEF Billions, Size
<1>3. {Billions(x) : x \in ToSet(s)} = {f[i] : i \in 1..Len(s)}
  BY <1>1 DEF ToSet
<1>4. Max({f[i] : i \in 1..Len(s)}) \in {f[i] : i \in 1..Len(s)}
  BY <1>1, <1>2, Greatest
<1>5. Largest(s) = Max({f[i] : i \in 1..Len(s)})
  BY <1>3 DEF Largest
<1> QED
  BY <1>4, <1>5

\* A size that asks for two GPUs, and for fewer than four, is in billions.
LEMMA SizedInBillions ==
    ASSUME NEW s \in Seq(Size), TpFor(Largest(s)) > 1, TpFor(Largest(s)) < 4
    PROVE  FirstB(s) \in 1..Len(s) /\ s[FirstB(s)].n > 0 /\ s[FirstB(s)].n \in Nat
<1>1. Largest(s) >= 28 /\ ~(Largest(s) >= 65)
  BY DEF TpFor
<1>2. s # <<>>
  BY <1>1 DEF Largest
<1>3. PICK i \in 1..Len(s) : Largest(s) = Billions(s[i])
  BY <1>2, LargestIsASize
<1>4. s[i].unit = "b"
  <2>1. s[i] \in Size
    OBVIOUS
  <2> QED
    BY <1>1, <1>3, <2>1 DEF Billions, Size
<1> DEFINE I == {j \in 1..Len(s) : s[j].unit = "b"}
<1>5. FirstB(s) = Min(I) /\ I # {} /\ I \subseteq Nat
  BY <1>4 DEF FirstB, SelectInSeq
<1>6. FirstB(s) \in I
  BY <1>5, Least
<1>7. FirstB(s) \in 1..Len(s) /\ s[FirstB(s)] \in Size
  BY <1>6
<1> QED
  BY <1>7 DEF Size

LEMMA InitPlan == PlanInit => PlanInv
  BY DEF PlanInit, PlanInv, PlanTypeOK, NoPlan, Planned

LEMMA PlanStep == PlanInv /\ [PlanNext]_planVars => PlanInv'
<1> SUFFICES ASSUME PlanInv, [PlanNext]_planVars PROVE PlanInv'
  OBVIOUS
<1>1. CASE ChooseRepo
  BY <1>1 DEF ChooseRepo, PlanInv, PlanTypeOK, NoPlan, Planned
<1>2. CASE WriteMetadata
  BY <1>2 DEF WriteMetadata, PlanInv, PlanTypeOK, NoPlan, Planned, Merged
<1>3. CASE SelectEngine
  <2>1. _vllm_args_hint(metadata) \in {1, 2, 4}
    BY DEF _vllm_args_hint, TpFor
  <2>2. _pick_engine(metadata.modality, metadata.tag, metadata.library) \in {"vllm", "transformers"}
    BY DEF _pick_engine
  <2>3. /\ PlanTypeOK' /\ repo' = repo /\ metadata' = metadata /\ ppc' = "planned" /\ repo \in Repos
        /\ engine'.skip = "none" =>
              /\ engine'.tp = _vllm_args_hint(metadata) /\ ~oversize(_vllm_args_hint(metadata))
              /\ _is_runnable_model_repo(metadata.siblings)
    BY <1>3, <2>1, <2>2 DEF SelectEngine, PlanInv, PlanTypeOK
  <2>4. metadata \in {Merged("good"), Merged("degraded")}
    BY <1>3 DEF SelectEngine, PlanInv
  <2> QED
    BY <2>3, <2>4 DEF PlanInv, Planned, Merged, _vllm_args_hint, _extract_b, oversize
<1>4. CASE UNCHANGED planVars
  BY <1>4 DEF planVars, PlanInv, PlanTypeOK, Planned, Merged, _vllm_args_hint, _extract_b, oversize
<1> QED
  BY <1>1, <1>2, <1>3, <1>4 DEF PlanNext

LEMMA PlanInvariance == PlanSpec => []PlanInv
  BY InitPlan, PlanStep, PTL DEF PlanSpec

\* Whatever leaves ENGINE_SELECT with more than one GPU has a size for the
\* stager's headroom gate, as long as the pool has fewer than four GPUs: with
\* four, a size that is only written "1T" is neither oversize nor read.
THEOREM ManyGpusMeanASize ==
    ASSUME PoolSize < 4
    PROVE  PlanSpec => []LargeModelsAreGated
<1>1. PlanInv => LargeModelsAreGated
  <2> SUFFICES ASSUME PlanInv, Planned, engine.tp > 1
               PROVE  _estimate_size_bytes(metadata) > 0
    BY DEF LargeModelsAreGated
  <2>1. /\ repo \in Repos /\ metadata \in {Merged("good"), Merged("degraded")}
        /\ engine.tp = TpFor(_extract_b(metadata)) /\ engine.tp \in {1, 2, 4} /\ ~(engine.tp > PoolSize)
    BY DEF PlanInv, PlanTypeOK, Planned, _vllm_args_hint, oversize
  <2>2. TpFor(_extract_b(metadata)) > 1 /\ TpFor(_extract_b(metadata)) < 4
    BY <2>1, PlanAssumption
  <2>3. metadata.param_count \in Seq(Size) /\ repo.name \in Seq(Size)
    <3>1. repo.card.params \in Seq(Size) /\ repo.name \in Seq(Size) /\ <<>> \in Seq(Size)
      BY <2>1, PlanAssumption
    <3>2. Merged("good").param_count = repo.card.params /\ Merged("degraded").param_count = <<>>
      BY DEF Merged
    <3> QED
      BY <2>1, <3>1, <3>2
  <2>4. CASE metadata.param_count # <<>>
    <3>1. FirstB(metadata.param_count) \in 1..Len(metadata.param_count)
          /\ metadata.param_count[FirstB(metadata.param_count)].n > 0
          /\ metadata.param_count[FirstB(metadata.param_count)].n \in Nat
      BY <2>2, <2>3, <2>4, SizedInBillions DEF _extract_b
    <3> QED
      BY <3>1 DEF _estimate_size_bytes
  <2>5. CASE metadata.param_count = <<>>
    <3>1. FirstB(repo.name) \in 1..Len(repo.name) /\ repo.name[FirstB(repo.name)].n > 0
          /\ repo.name[FirstB(repo.name)].n \in Nat
      BY <2>2, <2>3, <2>5, SizedInBillions DEF _extract_b
    <3>2. FirstB(<<>>) = 0
      BY DEF FirstB, SelectInSeq
    <3> QED
      BY <2>5, <3>1, <3>2 DEF _estimate_size_bytes
  <2> QED
    BY <2>4, <2>5
<1> QED
  BY PlanInvariance, <1>1, PTL

\* A repository that ENGINE_SELECT passes with its files known yields weights
\* to the stager, but for four kinds: a manifest, whatever is beside it; .ckpt
\* weights with a tokenizer; weights below the third level of directories; a
\* GGUF repository without the one quantisation that is fetched.
THEOREM PassedReposAreStaged == PlanSpec => []GateAgreesWithStager
<1>1. PlanInv => GateAgreesWithStager
  <2> DEFINE files == metadata.siblings
  <2> SUFFICES ASSUME PlanInv, Planned, files # {},
                      Kinds(files) \cap Manifests = {},
                      ~({"ckpt", "tokenizer"} \subseteq Kinds(files)),
                      \A f \in files : ~f.deep,
                      ~(_looks_like_gguf_repo(metadata) /\ "gguf-q4" \notin Kinds(files))
               PROVE  WillStage
    BY DEF GateAgreesWithStager
  <2>1. files = repo.files
    <3>1. metadata \in {Merged("good"), Merged("degraded")}
      BY DEF PlanInv, Planned
    <3>2. Merged("good").siblings \in {repo.files, {}} /\ Merged("degraded").siblings \in {repo.files, {}}
      BY DEF Merged
    <3> QED
      BY <3>1, <3>2
  <2>2. _is_runnable_model_repo(files)
    BY DEF PlanInv
  <2>3. PICK f \in files : /\ f.kind \in {"gguf-q4", "gguf-other", "mlpackage", "onnx", "safetensors"}
                           /\ _looks_like_gguf_repo(metadata) => f.kind = "gguf-q4"
    BY <2>2 DEF _is_runnable_model_repo, Kinds, Weights
  <2>4. Weight(f) /\ f \in _compute_allow_patterns(metadata)
    BY <2>1, <2>3 DEF Weight, _compute_allow_patterns
  <2> QED
    BY <2>4 DEF WillStage
<1> QED
  BY PlanInvariance, <1>1, PTL

-----------------------------------------------------------------------------
(* The repair of a deploy: proofs *)

LEMMA SixStrategies ==
    Strategies = {"add_trust_remote_code", "use_gguf_file_path", "lower_max_model_len",
                  "swap_vllm_image_latest", "swap_engine_sglang", "swap_engine_transformers"}
<1>1. DOMAIN BUILTIN_STRATEGIES = {1, 2, 3, 4, 5, 6}
  BY DEF BUILTIN_STRATEGIES
<1> QED
  BY <1>1 DEF Strategies, ToSet, BUILTIN_STRATEGIES

LEMMA InitRepair == RepairInit => RepairInv
<1> SUFFICES ASSUME RepairInit PROVE RepairInv
  OBVIOUS
<1>1. RepairTypes
  BY RepairAssumption DEF RepairInit, RepairTypes, Plain, NoFailure, Plan, Images, Engines
<1> QED
  BY <1>1 DEF RepairInit, RepairInv, NoConfigTwice, AgentChangesSomething

LEMMA ImagesOfEngines == \A e \in Engines : ImageOf(e) \in Images /\ ImageOf(e) # "vllm:latest"
  BY DEF Engines, ImageOf, Images

\* A plan that a strategy makes.
LEMMA NewPlans ==
    ASSUME NEW s \in Strategies, NEW p \in Plan
    PROVE  /\ NewPlan(s, p) \in Plan
           /\ NewPlan(s, p).trust = (p.trust \/ s = "add_trust_remote_code")
           /\ NewPlan(s, p).gguf = (p.gguf \/ s = "use_gguf_file_path")
           /\ NewPlan(s, p).len = IF s = "lower_max_model_len" THEN Halved(p) ELSE p.len
           /\ NewPlan(s, p).engine = CASE s = "swap_vllm_image_latest" -> "vllm"
                                       [] s = "swap_engine_sglang" -> "sglang"
                                       [] s = "swap_engine_transformers" -> "transformers"
                                       [] OTHER -> p.engine
<1>1. p \in [engine : Engines, trust : BOOLEAN, len : Nat, gguf : BOOLEAN]
  BY DEF Plan
<1>2. Halved(p) \in Nat
  BY <1>1 DEF Halved
<1> QED
  BY <1>1, <1>2, SixStrategies DEF NewPlan, Plan, Engines

LEMMA ShorterPlan ==
    ASSUME NEW p \in Plan, LongEnough(p)
    PROVE  Halved(p) # p.len
  BY DEF LongEnough, Halved, Plan

\* One more attempt: what is new in it is compared with every earlier one.
LEMMA OneMoreTry ==
    ASSUME NEW t \in Try, tries \in Seq(Try), tries' = Append(tries, t)
    PROVE  /\ tries' \in Seq(Try) /\ Len(tries') = Len(tries) + 1 /\ Len(tries) \in Nat
           /\ tries'[Len(tries) + 1] = t
           /\ \A i \in 1..Len(tries) : tries'[i] = tries[i]
           /\ \A i \in 1..Len(tries') : i \in 1..Len(tries) \/ i = Len(tries) + 1
  OBVIOUS

\* The same container is one of the same engine, and of the same plan unless
\* that engine is transformers.
LEMMA SameEngine ==
    ASSUME NEW t \in Try, NEW u \in Try, Config(t) = Config(u)
    PROVE  /\ t.plan.engine = u.plan.engine /\ t.image = u.image
           /\ t.plan = u.plan \/ t.plan.engine = "transformers"
<1>1. Started(t.plan) = Started(u.plan) /\ t.image = u.image
  BY DEF Config
<1>2. t.plan \in Plan /\ u.plan \in Plan
  BY DEF Try
<1>3. \A p \in Plan : Started(p).engine = p.engine
  BY DEF Started, Plan, Plain
<1>4. t.plan.engine = u.plan.engine
  BY <1>1, <1>2, <1>3
<1> QED
  BY <1>1, <1>4 DEF Started

LEMMA Unrepeated ==
    ASSUME NEW t \in Try, tries \in Seq(Try), tries' = Append(tries, t), NoConfigTwice,
           \/ t.by = "agent"
           \/ \A i \in 1..Len(tries) :
                 Config(tries[i]) = Config(t) => i = 1 /\ t.plan.engine = "transformers"
    PROVE  NoConfigTwice'
<1> SUFFICES ASSUME NEW i \in 1..Len(tries'), NEW j \in 1..Len(tries'),
                    i < j, tries'[i].by # "agent", tries'[j].by # "agent",
                    Config(tries'[i]) = Config(tries'[j])
             PROVE  i = 1 /\ tries'[i].plan.engine = "transformers"
  BY DEF NoConfigTwice, Config, Started
<1>1. i \in 1..Len(tries) /\ tries'[i] = tries[i]
  BY OneMoreTry
<1>2. CASE j \in 1..Len(tries)
  <2>1. tries'[j] = tries[j]
    BY <1>2, OneMoreTry
  <2> QED
    BY <1>1, <1>2, <2>1 DEF NoConfigTwice
<1>3. CASE j = Len(tries) + 1
  <2>1. tries'[j] = t
    BY <1>3, OneMoreTry
  <2>2. tries[i].plan.engine = t.plan.engine
    BY <1>1, <2>1, SameEngine
  <2> QED
    BY <1>1, <2>1, <2>2
<1> QED
  BY <1>2, <1>3, OneMoreTry

LEMMA AgentMoved ==
    ASSUME NEW t \in Try, tries \in Seq(Try), tries' = Append(tries, t), AgentChangesSomething,
           t.by = "agent" => tries # <<>> /\ (t.plan # tries[Len(tries)].plan
                                                \/ t.image # tries[Len(tries)].image)
    PROVE  AgentChangesSomething'
<1> SUFFICES ASSUME NEW i \in 2..Len(tries'), tries'[i].by = "agent",
                    Config(tries'[i]) = Config(tries'[i - 1])
             PROVE  tries'[i].plan.engine = "transformers" /\ tries'[i].plan # tries'[i - 1].plan
  BY DEF AgentChangesSomething, Config, Started
<1>1. i - 1 \in 1..Len(tries) /\ tries'[i - 1] = tries[i - 1]
  <2>1. i - 1 \in 1..Len(tries)
    BY OneMoreTry
  <2> QED
    BY <2>1, OneMoreTry
<1>2. CASE i \in 1..Len(tries)
  <2>1. tries'[i] = tries[i] /\ i \in 2..Len(tries)
    BY <1>2, OneMoreTry
  <2> QED
    BY <1>1, <2>1 DEF AgentChangesSomething
<1>3. CASE i = Len(tries) + 1
  <2>1. tries'[i] = t /\ i - 1 = Len(tries) /\ tries # <<>> /\ tries[Len(tries)] \in Try
    BY <1>1, <1>3, OneMoreTry
  <2> QED
    BY <1>1, <2>1, SameEngine
<1> QED
  BY <1>2, <1>3, OneMoreTry

LEMMA StartingDeploy ==
    ASSUME RepairInv, StartDeploy
    PROVE  RepairInv'
<1>1. PICK e \in {"vllm", "transformers"}, n \in StartLens :
         rplan' = [Plain EXCEPT !.engine = e, !.len = n] /\ rimage' = ImageOf(e)
  BY DEF StartDeploy
<1>2. rplan' = [engine |-> e, trust |-> FALSE, len |-> n, gguf |-> FALSE]
  BY <1>1 DEF Plain
<1>3. RepairTypes'
  BY <1>1, <1>2, ImagesOfEngines, RepairAssumption
  DEF RepairInv, RepairTypes, StartDeploy, Plan, Engines, Images
<1>4. NoConfigTwice' /\ AgentChangesSomething'
  BY DEF RepairInv, StartDeploy, NoConfigTwice, AgentChangesSomething
<1>5. ~rplan'.trust /\ ~rplan'.gguf /\ rplan'.engine # "sglang" /\ rimage' = ImageOf(rplan'.engine)
  <2>1. rplan'.trust = FALSE /\ rplan'.gguf = FALSE /\ rplan'.engine = e
    BY <1>2
  <2> QED
    BY <1>1, <2>1
<1>6. rpc' = "first" /\ tries' = <<>> /\ seen' = {} /\ calls' = 0 /\ fresh' = {}
  BY DEF RepairInv, StartDeploy
<1> QED
  BY <1>3, <1>4, <1>5, <1>6 DEF RepairInv

LEMMA TryingFirst ==
    ASSUME RepairInv, FirstAttempt
    PROVE  RepairInv'
<1> DEFINE t == [plan |-> rplan, image |-> rimage, by |-> "initial"]
<1>1. /\ rpc = "first" /\ tries = <<>> /\ seen = {} /\ fresh = {} /\ calls = 0
      /\ t \in Try /\ t.plan = rplan /\ t.image = rimage /\ t.by = "initial"
      /\ tries' = Append(tries, t) /\ rpc' \in {"ok", "failed", "propose"}
      /\ UNCHANGED <<rplan, rimage, fresh, seen, calls>>
  BY DEF RepairInv, FirstAttempt, Attempted, RepairTypes, Try
<1> HIDE DEF t
<1>2. tries' = <<t>> /\ Len(tries') = 1 /\ tries'[1] = t /\ tries' # <<>>
  BY <1>1
<1>3. RepairTypes'
  BY <1>1, OneMoreTry DEF RepairInv, RepairTypes, FirstAttempt, FailsWith, Plan
<1>4. NoConfigTwice'
  BY <1>1, Unrepeated DEF RepairInv, RepairTypes
<1>5. AgentChangesSomething'
  BY <1>1, AgentMoved DEF RepairInv, RepairTypes
<1>6. rpc' = "propose" => Repairing'
  <2> SUFFICES ASSUME rpc' = "propose" PROVE Repairing'
    OBVIOUS
  <2>1. RunsLast'
    BY <1>1, <1>2 DEF RunsLast
  <2>2. failure'.engine = rplan.engine /\ failure'.image = rimage
    BY DEF FirstAttempt, FailsWith
  <2>3. ASSUME NEW s \in Strategies, Marked(s, rplan, rimage, rplan.len)
        PROVE  s = "swap_engine_transformers"
    BY <1>1, <2>3, SixStrategies, ImagesOfEngines DEF RepairInv, RepairTypes, Marked, Plan
  <2> QED
    BY <1>1, <1>2, <2>1, <2>2, <2>3 DEF Repairing
<1> QED
  BY <1>1, <1>3, <1>4, <1>5, <1>6 DEF RepairInv

\* The proposals of a round bear the mark of their own strategy only.
LEMMA ProposingRound ==
    ASSUME RepairInv, ProposeRound
    PROVE  RepairInv'
<1>1. /\ rpc = "propose" /\ rpc' \in {"try", "agent", "failed"} /\ (rpc' = "try" <=> fresh' # {})
      /\ fresh' = NotSeen(propose_attempts(rplan, failure))
      /\ UNCHANGED <<rplan, rimage, failure, seen, tries, calls>>
  BY DEF ProposeRound
<1>2. Repairing /\ rplan \in Plan /\ tries # <<>>
  BY <1>1 DEF RepairInv, RepairTypes, Repairing, RunsLast
<1>3. \A x \in fresh' : /\ x.name \in Strategies \ seen /\ Applies(x.name, rplan, failure)
                        /\ x = [name |-> x.name, plan |-> NewPlan(x.name, rplan)]
  BY <1>1 DEF NotSeen, propose_attempts
<1>4. RepairTypes'
  BY <1>1, <1>2, <1>3, NewPlans DEF RepairInv, RepairTypes, Proposal
<1>5. NoConfigTwice' /\ AgentChangesSomething' /\ Repairing' /\ RunsLast'
  BY <1>1, <1>2 DEF RepairInv, NoConfigTwice, AgentChangesSomething, Config, Started, Repairing, RunsLast
<1> DEFINE len == tries[1].plan.len
<1>6. ASSUME NEW s \in Strategies \ seen, s # "swap_engine_transformers"
      PROVE  ~Marked(s, rplan, rimage, len)
  <2>1. Len(tries) \in 1..Len(tries)
    BY <1>2 DEF RepairInv, RepairTypes
  <2> QED
    BY <1>2, <1>6, <2>1 DEF Repairing, RunsLast
<1>7. ASSUME NEW x \in fresh', NEW s \in Strategies \ seen
      PROVE  /\ Marked(s, x.plan, ImageFor(x), len) <=> s = x.name
             /\ x.plan.engine = "transformers" => x.name = "swap_engine_transformers"
  <2> DEFINE n == x.name
             p == x.plan
  <2>1. /\ n \in Strategies \ seen /\ Applies(n, rplan, failure) /\ p = NewPlan(n, rplan)
        /\ n \in Strategies /\ failure.engine = rplan.engine
    BY <1>2, <1>3, <1>7 DEF Repairing
  <2>2. /\ p \in Plan
        /\ p.trust = (rplan.trust \/ n = "add_trust_remote_code")
        /\ p.gguf = (rplan.gguf \/ n = "use_gguf_file_path")
        /\ p.len = IF n = "lower_max_model_len" THEN Halved(rplan) ELSE rplan.len
        /\ p.engine = CASE n = "swap_vllm_image_latest" -> "vllm"
                        [] n = "swap_engine_sglang" -> "sglang"
                        [] n = "swap_engine_transformers" -> "transformers"
                        [] OTHER -> rplan.engine
    BY <1>2, <2>1, NewPlans
  <2>3. ImageFor(x) = "vllm:latest" <=> n = "swap_vllm_image_latest"
    BY <2>2, ImagesOfEngines DEF ImageFor, Plan
  <2>4. n = "lower_max_model_len" => Halved(rplan) # rplan.len
    BY <1>2, <2>1, ShorterPlan DEF Applies
  <2>5. rplan.engine = "transformers" =>
           n \in {"swap_vllm_image_latest", "swap_engine_sglang"}
    BY <2>1, SixStrategies DEF Applies, Accelerated
  <2> HIDE DEF n, p
  <2>6. p.engine = "transformers" => n = "swap_engine_transformers"
    <3>1. CASE rplan.engine = "transformers"
      BY <2>2, <2>5, <3>1
    <3>2. CASE rplan.engine # "transformers"
      BY <2>2, <3>2
    <3> QED
      BY <3>1, <3>2
  <2>7. Marked(s, x.plan, ImageFor(x), len) <=> s = x.name
    <3>1. CASE s = "add_trust_remote_code"
      BY <1>6, <2>2, <3>1 DEF Marked, n, p
    <3>2. CASE s = "use_gguf_file_path"
      BY <1>6, <2>2, <3>2 DEF Marked, n, p
    <3>3. CASE s = "lower_max_model_len"
      BY <1>6, <2>2, <2>4, <3>3 DEF Marked, n, p
    <3>4. CASE s = "swap_vllm_image_latest"
      BY <2>3, <3>4 DEF Marked, n, p
    <3>5. CASE s = "swap_engine_sglang"
      BY <1>6, <2>2, <3>5 DEF Marked, n, p
    <3>6. CASE s = "swap_engine_transformers"
      BY <2>2, <2>5, <3>6 DEF Marked, n, p
    <3> QED
      BY <3>1, <3>2, <3>3, <3>4, <3>5, <3>6, SixStrategies
  <2> QED
    BY <2>6, <2>7 DEF n, p
<1>8. Proposed'
  BY <1>1, <1>2, <1>3, <1>7 DEF Proposed, ImageFor
<1> QED
  BY <1>1, <1>2, <1>4, <1>5, <1>8 DEF RepairInv

LEMMA TryingProposal ==
    ASSUME RepairInv, TryProposal
    PROVE  RepairInv'
<1>1. PICK x \in fresh :
         /\ seen' = seen \cup {x.name} /\ Attempted(x.plan, ImageFor(x), x.name)
         /\ rplan' = x.plan /\ rimage' = ImageFor(x)
         /\ \/ rpc' = "ok" /\ fresh' = {} /\ UNCHANGED failure
            \/ /\ \E c \in classify : FailsWith(c, x.plan.engine, ImageFor(x))
               /\ fresh' = fresh \ {x}
               /\ rpc' = IF fresh' = {} THEN "propose" ELSE "try"
  BY DEF TryProposal
<1>2. rpc = "try" /\ calls' = calls /\ Repairing /\ Proposed /\ x \in Proposal
      /\ x.name \in Strategies \ seen /\ x.plan \in Plan /\ ImageFor(x) \in Images
  <2>1. rpc = "try" /\ calls' = calls
    BY DEF TryProposal
  <2>2. Repairing /\ Proposed /\ x \in Proposal
    BY <2>1 DEF RepairInv, RepairTypes
  <2> QED
    BY <2>1, <2>2, ImagesOfEngines DEF Proposal, Proposed, ImageFor, Plan, Images
<1> DEFINE t == [plan |-> x.plan, image |-> ImageFor(x), by |-> x.name]
<1>3. /\ t \in Try /\ t.plan = x.plan /\ t.image = ImageFor(x) /\ t.by = x.name
      /\ tries' = Append(tries, t) /\ tries \in Seq(Try) /\ tries # <<>>
  BY <1>1, <1>2 DEF Attempted, Try, RepairInv, RepairTypes, Proposed
<1> HIDE DEF t
<1>4. RepairTypes'
  BY <1>1, <1>2, <1>3, OneMoreTry DEF RepairInv, RepairTypes, FailsWith, Proposal, Plan
<1>5. tries'[1] = tries[1] /\ Len(tries) >= 1
  BY <1>3
<1>6. \A i \in 1..Len(tries) : Config(tries[i]) = Config(t) => i = 1 /\ t.plan.engine = "transformers"
  <2> SUFFICES ASSUME NEW i \in 1..Len(tries), Config(tries[i]) = Config(t)
               PROVE  i = 1 /\ t.plan.engine = "transformers"
    OBVIOUS
  <2>1. /\ tries[i].plan.engine = x.plan.engine /\ tries[i].image = ImageFor(x)
        /\ tries[i].plan = x.plan \/ x.plan.engine = "transformers"
    BY <1>3, SameEngine
  <2>2. Marked(x.name, x.plan, ImageFor(x), tries[1].plan.len)
    BY <1>2 DEF Proposed
  <2>3. i = 1 /\ x.name = "swap_engine_transformers"
    <3>1. CASE tries[i].plan = x.plan
      BY <1>2, <2>1, <2>2, <3>1 DEF Repairing
    <3>2. CASE x.plan.engine = "transformers"
      <4>1. Marked("swap_engine_transformers", tries[i].plan, tries[i].image, tries[1].plan.len)
        BY <2>1, <3>2 DEF Marked
      <4>2. x.name = "swap_engine_transformers"
        BY <1>2, <3>2 DEF Proposed
      <4> QED
        BY <1>2, <4>1, <4>2 DEF Repairing
    <3> QED
      BY <2>1, <3>1, <3>2
  <2>4. x.plan.engine = "transformers"
    BY <2>2, <2>3 DEF Marked
  <2> QED
    BY <1>3, <2>3, <2>4
<1>7. NoConfigTwice'
  BY <1>3, <1>6, Unrepeated DEF RepairInv
<1>8. AgentChangesSomething'
  <2>1. t.by # "agent"
    BY <1>2, <1>3, SixStrategies
  <2> QED
    BY <1>3, <2>1, AgentMoved DEF RepairInv
<1>9. RunsLast'
  BY <1>1, <1>3, OneMoreTry DEF RunsLast
<1>10. rpc' \in {"propose", "try"} => Repairing'
  <2>1. rpc' \in {"propose", "try"} => failure'.engine = rplan'.engine /\ failure'.image = rimage'
    BY <1>1 DEF FailsWith
  <2>2. ASSUME NEW i \in 1..Len(tries'), NEW s \in Strategies \ seen',
               Marked(s, tries'[i].plan, tries'[i].image, tries'[1].plan.len)
        PROVE  i = 1 /\ s = "swap_engine_transformers"
    <3>1. s \in Strategies \ seen /\ s # x.name
      BY <1>1
    <3>2. CASE i \in 1..Len(tries)
      <4>1. tries'[i] = tries[i]
        BY <1>3, <3>2, OneMoreTry
      <4> QED
        BY <1>2, <1>5, <2>2, <3>1, <3>2, <4>1 DEF Repairing
    <3>3. CASE i = Len(tries) + 1
      <4>1. tries'[i] = t
        BY <1>3, <3>3, OneMoreTry
      <4> QED
        BY <1>2, <1>3, <1>5, <2>2, <3>1, <4>1 DEF Proposed
    <3> QED
      BY <1>3, <3>2, <3>3, OneMoreTry
  <2> QED
    BY <1>9, <2>1, <2>2 DEF Repairing
<1>11. rpc' = "try" => Proposed'
  <2> SUFFICES ASSUME rpc' = "try" PROVE Proposed'
    OBVIOUS
  <2>1. fresh' = fresh \ {x}
    BY <1>1
  <2>2. tries' # <<>>
    BY <1>3
  <2>3. \A y \in fresh' : /\ y.name \notin seen' /\ y \in fresh
                          /\ y.plan.engine = "transformers" => y.name = "swap_engine_transformers"
    BY <1>1, <2>1, <1>2 DEF Proposed
  <2>4. ASSUME NEW y \in fresh', NEW s \in Strategies \ seen'
        PROVE  Marked(s, y.plan, ImageFor(y), tries'[1].plan.len) <=> s = y.name
    BY <1>1, <1>2, <1>5, <2>3 DEF Proposed
  <2> QED
    BY <1>2, <2>2, <2>3, <2>4 DEF Proposed, ImageFor
<1>12. rpc' \in {"ok", "propose", "try"} /\ (rpc' # "try" => fresh' = {})
  BY <1>1
<1> QED
  BY <1>4, <1>7, <1>8, <1>10, <1>11, <1>12 DEF RepairInv

LEMMA AskingAgent ==
    ASSUME RepairInv, AgentCall \/ AgentExhausted
    PROVE  RepairInv'
<1>1. /\ rpc = "agent" /\ fresh = {} /\ UNCHANGED <<fresh, seen>> /\ RunsLast
      /\ calls' \in 0..AgentAttempts
  BY RepairAssumption DEF AgentCall, AgentExhausted, RepairInv, RepairTypes
<1>2. CASE UNCHANGED <<rplan, rimage, failure, tries>> /\ rpc' \in {"agent", "failed"}
  BY <1>1, <1>2 DEF RepairInv, RepairTypes, NoConfigTwice, AgentChangesSomething, Config, Started, RunsLast
<1>3. ASSUME NEW q \in AgentProposals, ~_is_noop(q),
             LET eng == IF q.engine = "null" THEN rplan.engine ELSE q.engine
                 image == IF q.image = "null" THEN ImageOf(eng) ELSE q.image
                 p == [ArgsAfter(rplan, q) EXCEPT !.engine = eng]
             IN /\ Attempted(p, image, "agent")
                /\ rplan' = p
                /\ rimage' = image
                /\ \/ rpc' = "ok" /\ UNCHANGED failure
                   \/ FailsWith("other_early_exit", eng, image) /\ UNCHANGED rpc
      PROVE  RepairInv'
  <2> DEFINE eng == IF q.engine = "null" THEN rplan.engine ELSE q.engine
             image == IF q.image = "null" THEN ImageOf(eng) ELSE q.image
             p == [ArgsAfter(rplan, q) EXCEPT !.engine = eng]
             t == [plan |-> p, image |-> image, by |-> "agent"]
  <2>1. /\ tries' = Append(tries, t) /\ rplan' = p /\ rimage' = image
        /\ rpc' \in {"ok", "agent"}
        /\ failure' \in {failure, [engine |-> eng, image |-> image, class |-> "other_early_exit"]}
    BY <1>1, <1>3 DEF Attempted, FailsWith
  <2>2. rplan \in Plan /\ rimage \in Images /\ tries \in Seq(Try) /\ NoConfigTwice /\ AgentChangesSomething
    BY DEF RepairInv, RepairTypes
  <2>3. ArgsAfter(rplan, q) \in Plan /\ ArgsAfter(rplan, q).engine = rplan.engine
    BY <2>2 DEF ArgsAfter, Plan
  <2>4. eng \in Engines
    BY <1>3, <2>2 DEF AgentProposals, Plan
  <2>5. image \in Images
    BY <1>3, <2>4, ImagesOfEngines DEF AgentProposals, Images
  <2>6. p \in Plan /\ p.engine = eng /\ p.trust = ArgsAfter(rplan, q).trust
    BY <2>3, <2>4 DEF Plan
  <2>7. t \in Try /\ t.plan = p /\ t.image = image /\ t.by = "agent"
    BY <2>5, <2>6 DEF Try
  <2>8. p # rplan \/ image # rimage
    <3>1. CASE q.engine \notin {"null", rplan.engine}
      BY <2>6, <3>1
    <3>2. CASE q.image \notin {"null", rimage}
      BY <3>2
    <3>3. CASE ArgsAfter(rplan, q) # rplan
      <4>1. ArgsAfter(rplan, q).trust = TRUE /\ rplan.trust = FALSE
        BY <2>2, <3>3 DEF ArgsAfter, Plan
      <4> QED
        BY <2>6, <4>1
    <3> QED
      BY <1>3, <3>1, <3>2, <3>3 DEF _is_noop
  <2> HIDE DEF t, p, image, eng
  <2>9. tries' \in Seq(Try) /\ RunsLast' /\ tries # <<>>
    BY <1>1, <2>1, <2>2, <2>7, OneMoreTry DEF RunsLast
  <2>10. NoConfigTwice'
    BY <2>1, <2>2, <2>7, Unrepeated
  <2>11. AgentChangesSomething'
    <3>1. t.plan # tries[Len(tries)].plan \/ t.image # tries[Len(tries)].image
      BY <1>1, <2>7, <2>8 DEF RunsLast
    <3> QED
      BY <2>1, <2>2, <2>7, <2>9, <3>1, AgentMoved
  <2>12. RepairTypes'
    BY <1>1, <2>1, <2>4, <2>5, <2>6, <2>9 DEF RepairInv, RepairTypes, classify, EarlyExit
  <2> QED
    BY <1>1, <2>1, <2>9, <2>10, <2>11, <2>12 DEF RepairInv
<1> QED
  BY <1>1, <1>2, <1>3 DEF AgentCall, AgentExhausted

LEMMA RepairStep == RepairInv /\ [RepairNext]_repairVars => RepairInv'
<1> SUFFICES ASSUME RepairInv, [RepairNext]_repairVars PROVE RepairInv'
  OBVIOUS
<1>1. CASE RepairNext
  BY <1>1, StartingDeploy, TryingFirst, ProposingRound, TryingProposal, AskingAgent DEF RepairNext
<1>2. CASE UNCHANGED repairVars
  BY <1>2 DEF repairVars, RepairInv, RepairTypes, Repairing, Proposed, RunsLast, NoConfigTwice,
              AgentChangesSomething, Config, Started, ImageFor
<1> QED
  BY <1>1, <1>2

LEMMA RepairInvariance == RepairSpec => []RepairInv
  BY InitRepair, RepairStep, PTL DEF RepairSpec

\* Each attempt of the rule-based repair starts a configuration that none
\* before it has started, but for a return to the engine the deploy began with.
THEOREM RepairNeverRepeats == RepairSpec => []NoConfigTwice
<1>1. RepairInv => NoConfigTwice
  BY DEF RepairInv
<1> QED
  BY RepairInvariance, <1>1, PTL

\* Whatever the language model proposes, the container that has just failed is
\* not started again, unless all that is proposed is arguments for transformers.
THEOREM AgentNeverRepeats == RepairSpec => []AgentChangesSomething
<1>1. RepairInv => AgentChangesSomething
  BY DEF RepairInv
<1> QED
  BY RepairInvariance, <1>1, PTL

-----------------------------------------------------------------------------
(* What is measured: proofs *)

LEMMA Registry ==
    /\ Places = 1..13 /\ Len(CATEGORY_REGISTRY) = 13
    /\ NameAt(1) = "text_reasoning" /\ NameAt(2) = "code_gen" /\ NameAt(3) = "code_repair"
    /\ NameAt(4) = "code_complete" /\ NameAt(5) = "vision" /\ NameAt(6) = "ocr" /\ NameAt(7) = "asr"
    /\ NameAt(8) = "video_understanding" /\ NameAt(9) = "music_understanding" /\ NameAt(10) = "tts"
    /\ NameAt(11) = "image_gen" /\ NameAt(12) = "video_gen" /\ NameAt(13) = "music_gen"
  BY DEF Places, NameAt, CATEGORY_REGISTRY, Category

\* The categories that no chat serves, which one purpose asks for.
LEMMA Makers ==
    /\ CATEGORY_REGISTRY[7].tag = "asr" /\ CATEGORY_REGISTRY[7].dispatcher = "asr_transcribe"
    /\ CATEGORY_REGISTRY[10].tag = "tts" /\ CATEGORY_REGISTRY[10].dispatcher = "tts_speech"
    /\ CATEGORY_REGISTRY[11].tag = "image_gen" /\ CATEGORY_REGISTRY[11].dispatcher = "image_gen"
    /\ CATEGORY_REGISTRY[12].tag = "video_gen" /\ CATEGORY_REGISTRY[12].dispatcher = "unwired"
    /\ CATEGORY_REGISTRY[13].tag = "music_gen" /\ CATEGORY_REGISTRY[13].dispatcher = "unwired"
  BY DEF CATEGORY_REGISTRY, Category

LEMMA NamesDiffer == \A i, j \in Places : NameAt(i) = NameAt(j) => i = j
<1> SUFFICES ASSUME NEW i \in 1..13, NEW j \in 1..13, NameAt(i) = NameAt(j) PROVE i = j
  BY Registry
<1>1. \A k \in 1..13 : k \in {1, 2, 3, 4, 5, 6, 7, 8, 9, 10, 11, 12, 13}
  OBVIOUS
<1> QED
  BY <1>1, Registry

LEMMA RegistryNames == _registry_by_name = {NameAt(i) : i \in Places}
  BY DEF _registry_by_name, ToSet, NameAt, Places

LEMMA NothingCounted ==
    /\ NoTally \in Tally /\ NoTally.total = 0 /\ NoTally.pass = 0
    /\ NoTally.errors["refused"] + NoTally.errors["http_0"] = 0 /\ InError(NoTally) = 0
<1>1. NoTally \in Tally /\ NoTally.total = 0 /\ NoTally.pass = 0
      /\ \A e \in Errors : NoTally.errors[e] = 0
  BY DEF NoTally, Tally
<1>2. /\ NoTally.errors["refused"] = 0 /\ NoTally.errors["http_NN"] = 0 /\ NoTally.errors["http_0"] = 0
      /\ NoTally.errors["parse"] = 0 /\ NoTally.errors["fixture"] = 0
      /\ NoTally.errors["dispatcher_not_wired"] = 0
  BY <1>1 DEF Errors
<1> QED
  BY <1>1, <1>2 DEF InError

LEMMA InitScore == ScoreInit => ScoreInv
<1> SUFFICES ASSUME ScoreInit PROVE ScoreInv
  OBVIOUS
<1>1. tally \in Tally /\ burst \in [flying : Nat, ok : Nat, failed : Nat]
  BY DEF ScoreInit, NoTally, Tally, NoBurst
<1>2. ScoreTypeOK
  <2>1. tally.pass + InError(tally) <= tally.total
    <3>1. tally = NoTally
      BY DEF ScoreInit
    <3>2. InError(tally) = InError(NoTally)
      BY <3>1
    <3> QED
      BY <3>1, <3>2, NothingCounted
  <2>2. report \in [_registry_by_name -> {"missing", "na", "no_items", "run", "cut"}]
    BY DEF ScoreInit, EmptyReport
  <2>3. burst.flying + burst.ok + burst.failed \in {0, Burst}
    BY DEF ScoreInit, NoBurst
  <2> QED
    BY <2>1, <2>2, <2>3 DEF ScoreInit, ScoreTypeOK
<1> QED
  BY <1>1, <1>2 DEF ScoreInit, ScoreInv, ScoreTypes, Measuring, StragglersAreWarned

\* The pipeline's one purpose is among the tags, whatever the curator says.
LEMMA PurposeIsRead ==
    ASSUME NEW p, p.pipeline \in SinglePurpose
    PROVE  _pipeline_tag_to_capability_tags(p.pipeline) \subseteq _read_capability_tags(p)
<1>1. _pipeline_tag_to_capability_tags(p.pipeline) # {}
  BY DEF SinglePurpose, _pipeline_tag_to_capability_tags
<1> QED
  BY <1>1 DEF _read_capability_tags

LEMMA PurposeHasPlace ==
    ASSUME NEW pipeline \in SinglePurpose \ {"audio-classification"}
    PROVE  \E i \in {7, 10, 11, 12, 13} :
              /\ CATEGORY_REGISTRY[i].tag \in _pipeline_tag_to_capability_tags(pipeline)
              /\ i \in Places /\ NameAt(i) \notin _CHAT_BASED_CATEGORIES
<1>1. \E i \in {7, 10, 11, 12, 13} :
         CATEGORY_REGISTRY[i].tag \in _pipeline_tag_to_capability_tags(pipeline)
  BY Makers DEF SinglePurpose, _pipeline_tag_to_capability_tags
<1>2. ASSUME NEW i \in {7, 10, 11, 12, 13}
      PROVE  i \in Places /\ NameAt(i) \notin _CHAT_BASED_CATEGORIES
  <2>1. i \in Places /\ CATEGORY_REGISTRY[i].dispatcher \notin {"text_chat", "media_chat"}
    BY Makers, Registry
  <2>2. \A c \in ToSet(CATEGORY_REGISTRY) : \E j \in Places : c = CATEGORY_REGISTRY[j]
    BY DEF ToSet, Places
  <2> QED
    BY <2>1, <2>2, NamesDiffer DEF _CHAT_BASED_CATEGORIES, NameAt
<1> QED
  BY <1>1, <1>2

LEMMA StartingSuite ==
    ASSUME ScoreInv, NEW p \in Profiles, NEW deployed \in BOOLEAN, StartSuite(p, deployed)
    PROVE  ScoreInv'
<1>1. /\ mpc = "start" /\ tally = NoTally /\ ~aborted /\ burst = NoBurst /\ perf = "none"
      /\ UNCHANGED <<left, expired, tally, aborted, silent, perfVars, showVars>>
  BY DEF StartSuite, ScoreInv
<1>2. UNCHANGED <<left, expired, tally, aborted, silent, ttft, burst, warned, perf, items, showcase>>
  BY <1>1 DEF perfVars, showVars
<1>3. CASE deployed
  <2> DEFINE t == _read_capability_tags(p)
             q == _select_applicable_categories(t, p.pipeline)
  <2>1. /\ mpc' = "suite" /\ profile' = p /\ queue' = q /\ capability' = capability
        /\ report' = [c \in _registry_by_name |->
                         IF c \in {CATEGORY_REGISTRY[i].name : i \in q} THEN "missing" ELSE "na"]
    BY <1>3 DEF StartSuite
  <2>2. q \subseteq Places
    BY DEF _select_applicable_categories, Places
  <2>q. \A i \in Places : i \in q <=> /\ CATEGORY_REGISTRY[i].tag \in t
                                      /\ ~(p.pipeline \in SinglePurpose /\ NameAt(i) \in _CHAT_BASED_CATEGORIES)
    BY DEF _select_applicable_categories, Places, NameAt
  <2> HIDE DEF q, t
  <2>3. \A i \in Places : report'[NameAt(i)] = IF i \in q THEN "missing" ELSE "na"
    <3>1. ASSUME NEW i \in Places PROVE NameAt(i) \in {CATEGORY_REGISTRY[j].name : j \in q} <=> i \in q
      BY <2>2, NamesDiffer DEF NameAt
    <3> QED
      BY <2>1, <3>1, RegistryNames
  <2>4. ScoreTypes'
    BY <1>2, <2>1, <2>2 DEF ScoreInv, ScoreTypes, ScoreTypeOK, Measuring, InError
  <2>5. Reported'
    <3>1. \A i \in queue' : report'[NameAt(i)] = "missing"
      BY <2>1, <2>2, <2>3
    <3>2. \A i \in Places \ queue' : report'[NameAt(i)] = "na"
      BY <2>1, <2>3
    <3> QED
      BY <1>1, <1>2, <3>1, <3>2 DEF Reported
  <2>6. OnPurpose'
    <3> SUFFICES ASSUME p.pipeline \in SinglePurpose \ {"audio-classification"}
                 PROVE  \E i \in Places :
                           /\ CATEGORY_REGISTRY[i].tag \in _pipeline_tag_to_capability_tags(p.pipeline)
                           /\ report'[NameAt(i)] # "na"
      BY <2>1 DEF OnPurpose
    <3>1. PICK i \in {7, 10, 11, 12, 13} :
             /\ CATEGORY_REGISTRY[i].tag \in _pipeline_tag_to_capability_tags(p.pipeline)
             /\ i \in Places /\ NameAt(i) \notin _CHAT_BASED_CATEGORIES
      BY PurposeHasPlace
    <3>2. CATEGORY_REGISTRY[i].tag \in t
      BY <3>1, PurposeIsRead DEF t
    <3>3. i \in q
      BY <2>q, <3>1, <3>2
    <3> QED
      BY <2>3, <3>1, <3>3
  <2>7. SilentItems'
    BY <1>1, <1>2, NothingCounted DEF SilentItems
  <2> QED
    BY <1>1, <1>2, <2>1, <2>4, <2>5, <2>6, <2>7 DEF ScoreInv, Measuring, StragglersAreWarned
<1>4. CASE ~deployed
  <2>1. mpc' = "end" /\ capability' = "missing_artifact" /\ UNCHANGED <<queue, report>>
    BY <1>4 DEF StartSuite
  <2>2. ScoreTypes'
    BY <1>2, <2>1 DEF ScoreInv, ScoreTypes, ScoreTypeOK, Measuring, InError
  <2> QED
    BY <1>1, <1>2, <2>1, <2>2 DEF ScoreInv, Measuring, StragglersAreWarned
<1> QED
  BY <1>3, <1>4

\* The category that is next has a place in the queue, and a name of its own.
LEMMA CurrentCategory ==
    ASSUME ScoreTypes, queue # {}
    PROVE  /\ Min(queue) \in queue /\ Min(queue) \in Places /\ current.name = NameAt(Min(queue))
           /\ current.name \in _registry_by_name
           /\ \A i \in Places : NameAt(i) = current.name <=> i = Min(queue)
<1>1. queue \subseteq Nat
  BY Registry DEF ScoreTypes
<1>2. Min(queue) \in queue /\ Min(queue) \in Places
  BY <1>1, Least DEF ScoreTypes
<1> QED
  BY <1>2, NamesDiffer, RegistryNames DEF current, NameAt

\* The category that is being run gets its place in the report.
LEMMA ReportingCategory ==
    ASSUME ScoreTypes, Reported, OnPurpose, queue # {}, queue' = queue \ {Min(queue)}, profile' = profile,
           NEW how \in {"no_items", "run", "cut"},
           report' = [report EXCEPT ![current.name] = how],
           aborted' = (aborted \/ how = "cut")
    PROVE  /\ Reported' /\ OnPurpose' /\ queue' \subseteq Places
           /\ report' \in [_registry_by_name -> {"missing", "na", "no_items", "run", "cut"}]
<1>1. report \in [_registry_by_name -> {"missing", "na", "no_items", "run", "cut"}] /\ queue \subseteq Places
  BY DEF ScoreTypes, ScoreTypeOK
<1>2. \A i \in Places : report'[NameAt(i)] = IF i = Min(queue) THEN how ELSE report[NameAt(i)]
  BY <1>1, CurrentCategory, RegistryNames
<1>3. Min(queue) \in queue /\ Min(queue) \in Places
  BY CurrentCategory
<1>4. Reported'
  BY <1>1, <1>2, <1>3 DEF Reported
<1>5. OnPurpose'
  BY <1>2 DEF OnPurpose
<1> QED
  BY <1>1, <1>4, <1>5

LEMMA TakingCategory ==
    ASSUME ScoreInv, NEW n \in {0, ItemsPer}, TakeCategory(n)
    PROVE  ScoreInv'
<1>1. /\ mpc = "suite" /\ queue # {} /\ ScoreTypes /\ Reported /\ OnPurpose /\ SilentItems
      /\ burst = NoBurst /\ perf = "none"
      /\ UNCHANGED <<profile, tags, expired, tally, silent, capability, ttft, burst, warned, perf, items, showcase>>
  BY DEF TakeCategory, ScoreInv, Measuring, perfVars, showVars
<1>2. CASE expired
  <2>1. aborted' = TRUE /\ queue' = {} /\ UNCHANGED <<mpc, left, report>>
    BY <1>2 DEF TakeCategory
  <2>2. Reported'
    <3>1. Min(queue) \in queue /\ Min(queue) \in Places
      BY <1>1, CurrentCategory
    <3> QED
      BY <1>1, <2>1, <3>1 DEF Reported
  <2>3. ScoreTypes'
    BY <1>1, <2>1 DEF ScoreTypes, ScoreTypeOK, InError
  <2> QED
    BY <1>1, <2>1, <2>2, <2>3 DEF ScoreInv, Measuring, OnPurpose, SilentItems, StragglersAreWarned
<1>3. CASE ~expired /\ n = 0
  <2>1. /\ report' = [report EXCEPT ![current.name] = "no_items"]
        /\ queue' = queue \ {Min(queue)} /\ UNCHANGED <<mpc, left, aborted>>
    BY <1>3 DEF TakeCategory
  <2>2. /\ Reported' /\ OnPurpose' /\ queue' \subseteq Places
        /\ report' \in [_registry_by_name -> {"missing", "na", "no_items", "run", "cut"}]
    <3>1. aborted' = (aborted \/ "no_items" = "cut")
      BY <1>1, <2>1 DEF ScoreTypes
    <3> QED
      BY <1>1, <2>1, <3>1, ReportingCategory
  <2>3. ScoreTypes'
    BY <1>1, <2>1, <2>2 DEF ScoreTypes, ScoreTypeOK, InError
  <2> QED
    BY <1>1, <2>1, <2>2, <2>3 DEF ScoreInv, Measuring, SilentItems, StragglersAreWarned
<1>4. CASE ~expired /\ n # 0
  <2>1. mpc' = "category" /\ left' = n /\ UNCHANGED <<queue, report, aborted>>
    BY <1>4 DEF TakeCategory
  <2>2. n \in Nat
    BY ScoringAssumption
  <2>3. ScoreTypes'
    BY <1>1, <2>1, <2>2 DEF ScoreTypes, ScoreTypeOK, InError, Measuring
  <2> QED
    BY <1>1, <2>1, <2>3 DEF ScoreInv, Measuring, Reported, OnPurpose, SilentItems, StragglersAreWarned
<1> QED
  BY <1>2, <1>3, <1>4

LEMMA ClosingCategory ==
    ASSUME ScoreInv, CloseCategory
    PROVE  ScoreInv'
<1>1. /\ mpc = "category" /\ queue # {} /\ ScoreTypes /\ Reported /\ OnPurpose /\ SilentItems
      /\ burst = NoBurst /\ perf = "none"
      /\ queue' = queue \ {Min(queue)} /\ left' = 0 /\ mpc' = "suite"
      /\ UNCHANGED <<profile, tags, expired, tally, silent, capability, ttft, burst, warned, perf, items, showcase>>
  BY DEF CloseCategory, ScoreInv, Measuring, perfVars, showVars
<1> DEFINE how == IF left > 0 THEN "cut" ELSE "run"
<1>2. how \in {"no_items", "run", "cut"} /\ report' = [report EXCEPT ![current.name] = how]
  BY DEF CloseCategory
<1>3. aborted' = (aborted \/ how = "cut")
  BY DEF CloseCategory, cut_short
<1> HIDE DEF how
<1>4. /\ Reported' /\ OnPurpose' /\ queue' \subseteq Places
      /\ report' \in [_registry_by_name -> {"missing", "na", "no_items", "run", "cut"}]
  BY <1>1, <1>2, <1>3, ReportingCategory
<1>5. ScoreTypes'
  BY <1>1, <1>3, <1>4 DEF ScoreTypes, ScoreTypeOK, InError, Measuring
<1> QED
  BY <1>1, <1>4, <1>5 DEF ScoreInv, Measuring, SilentItems, StragglersAreWarned

LEMMA PassingDeadline ==
    ASSUME ScoreInv, Deadline
    PROVE  ScoreInv'
<1>1. /\ mpc \in {"suite", "category"} /\ expired' = TRUE
      /\ UNCHANGED <<mpc, profile, tags, queue, left, tally, report, aborted, silent, capability,
                     ttft, burst, warned, perf, items, showcase>>
  BY DEF Deadline, perfVars, showVars
<1> QED
  BY <1>1 DEF ScoreInv, ScoreTypes, ScoreTypeOK, InError, Reported, OnPurpose, SilentItems, Measuring,
              StragglersAreWarned

\* An item that passes is not in error, and has not been met with silence.
LEMMA PassesWithoutError ==
    ASSUME NEW c \in ToSet(CATEGORY_REGISTRY), NEW o \in dispatch(c.dispatcher),
           NEW s, NEW passes \in Verdicts(s, o)
    PROVE  passes \in BOOLEAN /\ (passes => o.error \notin Errors)
<1>1. o.error = "" \/ o.answer = ""
  <2>1. \A e, a : o = Outcome(e, a) => o.error = e /\ o.answer = a
    BY DEF Outcome
  <2>2. o \in Texts => o.error = ""
    BY <2>1, Zenon DEF Texts
  <2>3. CASE c.dispatcher \in {"text_chat", "media_chat", "asr_transcribe"}
    BY Zenon, <2>1, <2>2, <2>3 DEF dispatch
  <2>4. CASE c.dispatcher = "tts_speech"
    BY Zenon, <2>1, <2>4 DEF dispatch
  <2>5. CASE c.dispatcher = "image_gen"
    BY Zenon, <2>1, <2>5 DEF dispatch
  <2>6. CASE c.dispatcher \notin {"text_chat", "media_chat", "asr_transcribe", "tts_speech", "image_gen"}
    BY Zenon, <2>1, <2>6 DEF dispatch
  <2> QED
    BY Zenon, <2>3, <2>4, <2>5, <2>6
<1>2. scorer_may_pass(s, o) \in BOOLEAN
  BY Zenon DEF scorer_may_pass
<1>3. scorer_may_pass(s, o) => o.error = ""
  BY <1>1, Zenon DEF scorer_may_pass
<1>4. "" \notin Errors
  BY Zenon DEF Errors
<1> QED
  BY <1>2, <1>3, <1>4, Zenon DEF Verdicts

LEMMA RunningItem ==
    ASSUME ScoreInv, RunItem
    PROVE  ScoreInv'
<1>1. /\ mpc = "category" /\ queue # {} /\ ScoreTypes /\ Reported /\ OnPurpose /\ SilentItems
      /\ burst = NoBurst /\ perf = "none" /\ left > 0 /\ left' = left - 1
      /\ UNCHANGED <<mpc, profile, tags, queue, expired, report, aborted, capability,
                     ttft, burst, warned, perf, items, showcase>>
  BY DEF RunItem, ScoreInv, Measuring, perfVars, showVars
<1>2. PICK o \in dispatch(current.dispatcher), s \in item_scorers(current) : \E passes \in Verdicts(s, o) :
         /\ tally' = [total |-> tally.total + 1,
                      pass |-> tally.pass + (IF passes THEN 1 ELSE 0),
                      errors |-> [e \in Errors |-> tally.errors[e] + (IF e = o.error THEN 1 ELSE 0)]]
         /\ silent' = (silent /\ o.error \in Silent)
  BY DEF RunItem
<1>p. PICK passes \in Verdicts(s, o) :
         /\ tally' = [total |-> tally.total + 1,
                      pass |-> tally.pass + (IF passes THEN 1 ELSE 0),
                      errors |-> [e \in Errors |-> tally.errors[e] + (IF e = o.error THEN 1 ELSE 0)]]
         /\ silent' = (silent /\ o.error \in Silent)
  BY <1>2
<1>3. passes \in BOOLEAN /\ (passes => o.error \notin Errors)
  <2>1. current \in ToSet(CATEGORY_REGISTRY)
    BY <1>1, CurrentCategory DEF current, ToSet, Places
  <2> QED
    BY <2>1, PassesWithoutError
<1> DEFINE n == IF passes THEN 1 ELSE 0
           m(e) == IF e = o.error THEN 1 ELSE 0
<1>4. n \in Nat /\ n <= 1 /\ (o.error \in Errors => n = 0)
  <2>1. CASE passes
    BY <1>3, <2>1
  <2>2. CASE ~passes
    BY <2>2
  <2> QED
    BY <2>1, <2>2
<1>e. \A e : m(e) \in Nat /\ (m(e) = 1 \/ m(e) = 0) /\ (m(e) = 1 <=> e = o.error)
  OBVIOUS
<1>5. /\ tally.total \in Nat /\ tally.pass \in Nat /\ \A e \in Errors : tally.errors[e] \in Nat
      /\ tally.pass + InError(tally) <= tally.total
  BY <1>1 DEF ScoreTypes, ScoreTypeOK, Tally
<1>6. /\ tally' = [total |-> tally.total + 1, pass |-> tally.pass + n,
                    errors |-> [e \in Errors |-> tally.errors[e] + m(e)]]
      /\ tally'.total = tally.total + 1 /\ tally'.pass = tally.pass + n
      /\ \A e \in Errors : tally'.errors[e] = tally.errors[e] + m(e)
  BY <1>p
<1>7. tally' \in Tally
  <2>1. [e \in Errors |-> tally.errors[e] + m(e)] \in [Errors -> Nat]
    BY <1>5, <1>e
  <2>2. tally.total + 1 \in Nat /\ tally.pass + n \in Nat
    BY <1>4, <1>5
  <2> HIDE DEF n
  <2> QED
    BY <1>6, <2>1, <2>2 DEF Tally
<1>8. n + (m("refused") + m("http_NN") + m("http_0") + m("parse") + m("fixture")
             + m("dispatcher_not_wired")) <= 1
  <2>1. CASE o.error \in Errors
    BY <1>4, <2>1
  <2>2. CASE o.error \notin Errors
    BY <1>4, <2>2 DEF Errors
  <2> QED
    BY <2>1, <2>2
<1> HIDE DEF n, m
<1>9. tally'.pass + InError(tally') <= tally'.total
  <2>1. /\ tally'.errors["refused"] = tally.errors["refused"] + m("refused")
        /\ tally'.errors["http_NN"] = tally.errors["http_NN"] + m("http_NN")
        /\ tally'.errors["http_0"] = tally.errors["http_0"] + m("http_0")
        /\ tally'.errors["parse"] = tally.errors["parse"] + m("parse")
        /\ tally'.errors["fixture"] = tally.errors["fixture"] + m("fixture")
        /\ tally'.errors["dispatcher_not_wired"]
              = tally.errors["dispatcher_not_wired"] + m("dispatcher_not_wired")
    BY <1>6 DEF Errors
  <2>2. /\ tally.errors["refused"] \in Nat /\ tally.errors["http_NN"] \in Nat
        /\ tally.errors["http_0"] \in Nat /\ tally.errors["parse"] \in Nat
        /\ tally.errors["fixture"] \in Nat /\ tally.errors["dispatcher_not_wired"] \in Nat
    BY <1>5 DEF Errors
  <2>3. m("refused") \in Nat /\ m("http_NN") \in Nat /\ m("http_0") \in Nat
        /\ m("parse") \in Nat /\ m("fixture") \in Nat /\ m("dispatcher_not_wired") \in Nat
    BY <1>e
  <2>4. tally'.total = tally.total + 1 /\ tally'.pass = tally.pass + n
        /\ tally.total \in Nat /\ tally.pass \in Nat /\ tally.pass + InError(tally) <= tally.total /\ n \in Nat
    BY <1>4, <1>5, <1>6
  <2>5. InError(tally') = InError(tally) + (m("refused") + m("http_NN") + m("http_0") + m("parse")
                                              + m("fixture") + m("dispatcher_not_wired"))
    BY <2>1, <2>2, <2>3 DEF InError
  <2>6. InError(tally) \in Nat
    BY <2>2 DEF InError
  <2> QED
    BY <1>8, <2>3, <2>4, <2>5, <2>6
<1>10. SilentItems'
  <2> SUFFICES ASSUME silent' PROVE /\ tally'.pass = 0
                                    /\ tally'.errors["refused"] + tally'.errors["http_0"] = tally'.total
    BY DEF SilentItems
  <2>1. silent /\ o.error \in Silent
    BY <1>p
  <2>2. tally.pass = 0 /\ tally.errors["refused"] + tally.errors["http_0"] = tally.total
    BY <1>1, <2>1 DEF SilentItems
  <2>3. m("refused") + m("http_0") = 1 /\ n = 0
    BY <1>4, <2>1 DEF Silent, Errors, m
  <2>4. /\ tally'.errors["refused"] = tally.errors["refused"] + m("refused")
        /\ tally'.errors["http_0"] = tally.errors["http_0"] + m("http_0")
        /\ tally.errors["refused"] \in Nat /\ tally.errors["http_0"] \in Nat
    BY <1>5, <1>6 DEF Errors
  <2>5. tally'.total = tally.total + 1 /\ tally'.pass = tally.pass + n
    BY <1>6
  <2>6. m("refused") \in Nat /\ m("http_0") \in Nat
    BY <1>e
  <2> QED
    BY <2>2, <2>3, <2>4, <2>5, <2>6
<1>11. ScoreTypes'
  <2>1. silent' \in BOOLEAN /\ left' \in Nat
    BY <1>1, <1>p DEF ScoreTypes
  <2> QED
    BY <1>1, <1>7, <1>9, <2>1 DEF ScoreTypes, ScoreTypeOK
<1> QED
  BY <1>1, <1>10, <1>11 DEF ScoreInv, Reported, OnPurpose, Measuring, StragglersAreWarned

LEMMA LeavingSuite ==
    ASSUME ScoreInv, SuiteRaises \/ FinishSuite \/ NextStage
    PROVE  ScoreInv'
<1>1. CASE FinishSuite
  <2>1. /\ mpc = "suite" /\ queue = {} /\ mpc' = "scored" /\ burst = NoBurst /\ perf = "none"
        /\ UNCHANGED <<profile, tags, queue, left, expired, tally, report, aborted, silent,
                       ttft, burst, warned, perf, items, showcase>>
        /\ capability' = IF endpoint_broken(tally) THEN "capability_endpoint_broken" ELSE "ok"
    BY <1>1 DEF FinishSuite, ScoreInv, perfVars, showVars, Measuring
  <2>2. capability' = "ok" => ~endpoint_broken(tally)
    BY <2>1
  <2>3. ScoreTypes'
    BY <2>1 DEF ScoreInv, ScoreTypes, ScoreTypeOK, InError, Measuring
  <2>4. endpoint_broken(tally)' <=> endpoint_broken(tally)
    BY <2>1 DEF endpoint_broken
  <2> QED
    BY <2>1, <2>2, <2>3, <2>4
    DEF ScoreInv, Reported, OnPurpose, SilentItems, Measuring, StragglersAreWarned
<1>2. CASE SuiteRaises \/ NextStage
  <2>1. /\ mpc' \in {"perf", "end"} /\ queue' = {} /\ left' = 0 /\ tally' = NoTally /\ report' = EmptyReport
        /\ expired' \in BOOLEAN /\ aborted' \in BOOLEAN /\ silent' \in BOOLEAN
        /\ capability' \in {capability, "raised"}
        /\ UNCHANGED <<ttft, burst, warned, perf, items, showcase>>
        /\ burst = NoBurst /\ perf = "none"
    BY <1>2 DEF SuiteRaises, NextStage, ScoreInv, ScoreTypes, perfVars, showVars, Measuring
  <2>2. tally'.pass + InError(tally') <= tally'.total /\ tally' \in Tally
    BY <2>1, NothingCounted
  <2>3. ScoreTypes'
    BY <2>1, <2>2 DEF ScoreInv, ScoreTypes, ScoreTypeOK, EmptyReport
  <2> QED
    BY <2>1, <2>3 DEF ScoreInv, Measuring, StragglersAreWarned
<1> QED
  BY <1>1, <1>2

LEMMA BenchStep ==
    ASSUME ScoreInv, SkipPerf \/ (\E ms \in 0..2 : MeasureTtft(ms)) \/ FinishPerf
                     \/ (\E ok \in BOOLEAN : WorkerEnds(ok))
    PROVE  ScoreInv'
<1>1. UNCHANGED <<profile, tags, queue, left, expired, tally, report, aborted, silent, capability,
                  items, showcase>>
  BY DEF SkipPerf, MeasureTtft, FinishPerf, WorkerEnds, suiteVars, showVars
<1>2. UNCHANGED <<tally.pass + InError(tally), tally.total>>
  BY <1>1
<1>3. CASE SkipPerf
  <2>1. /\ mpc = "perf" /\ perf' = "not_applicable" /\ mpc' = "plan" /\ UNCHANGED <<burst, warned>>
    BY <1>3 DEF SkipPerf
  <2> QED
    BY <1>1, <1>2, <2>1 DEF ScoreInv, ScoreTypes, ScoreTypeOK, Measuring, StragglersAreWarned
<1>4. CASE \E ms \in 0..2 : MeasureTtft(ms)
  <2>1. /\ mpc = "perf" /\ UNCHANGED <<warned, perf>>
        /\ \/ UNCHANGED <<mpc, burst>>
           \/ burst' = [NoBurst EXCEPT !.flying = Burst] /\ mpc' = "burst"
    BY <1>4 DEF MeasureTtft
  <2>2. burst' \in [flying : Nat, ok : Nat, failed : Nat]
        /\ (mpc' = "burst" => burst'.flying + burst'.ok + burst'.failed = Burst)
        /\ (mpc' = "perf" => burst' = NoBurst)
        /\ burst'.flying + burst'.ok + burst'.failed \in {0, Burst}
        /\ mpc' \in {"perf", "burst"} /\ perf = "none"
    BY <2>1, ScoringAssumption DEF ScoreInv, ScoreTypes, ScoreTypeOK, NoBurst
  <2> QED
    BY <1>1, <1>2, <2>1, <2>2 DEF ScoreInv, ScoreTypes, ScoreTypeOK, Measuring, StragglersAreWarned
<1>5. CASE FinishPerf
  <2>1. /\ mpc = "burst" /\ warned' = incomplete(burst) /\ perf' = "measured" /\ mpc' = "plan"
        /\ UNCHANGED burst /\ burst \in [flying : Nat, ok : Nat, failed : Nat]
        /\ burst.flying + burst.ok + burst.failed = Burst
    BY <1>5 DEF FinishPerf, ScoreInv, ScoreTypes
  <2>2. warned' = (burst.ok < Burst)
    BY <2>1 DEF incomplete
  <2>3. warned' \in BOOLEAN
    BY <2>2
  <2>4. burst.flying > 0 => burst.ok < Burst
    BY <2>1, ScoringAssumption
  <2> QED
    BY <1>1, <1>2, <2>1, <2>2, <2>3, <2>4 DEF ScoreInv, ScoreTypes, ScoreTypeOK, Measuring, StragglersAreWarned
<1>6. CASE \E ok \in BOOLEAN : WorkerEnds(ok)
  <2>1. PICK ok \in BOOLEAN : WorkerEnds(ok)
    BY <1>6
  <2>2. /\ burst.flying > 0 /\ mpc \in {"burst", "plan", "eval", "grade"}
        /\ burst' = [flying |-> burst.flying - 1,
                     ok |-> burst.ok + (IF ok THEN 1 ELSE 0),
                     failed |-> burst.failed + (IF ok THEN 0 ELSE 1)]
        /\ UNCHANGED <<mpc, warned, perf>> /\ burst \in [flying : Nat, ok : Nat, failed : Nat]
    BY <2>1 DEF WorkerEnds, ScoreInv, ScoreTypes
  <2>3. /\ burst' \in [flying : Nat, ok : Nat, failed : Nat]
        /\ burst'.flying + burst'.ok + burst'.failed = burst.flying + burst.ok + burst.failed
        /\ (burst'.flying > 0 => burst.flying > 0)
    BY <2>2
  <2> QED
    BY <1>1, <1>2, <2>2, <2>3 DEF ScoreInv, ScoreTypes, ScoreTypeOK, Measuring, StragglersAreWarned
<1> QED
  BY <1>3, <1>4, <1>5, <1>6

LEMMA ShowcaseStep ==
    ASSUME ScoreInv, \/ \E raw \in Plans : PlanShowcase(raw)
                     \/ PlanFails
                     \/ \E comment \in {"", "refused", "http", "parse"} : EvalItem(comment)
                     \/ \E summary \in {"graded", "fallback"} : Grade(summary)
    PROVE  ScoreInv'
<1>1. /\ mpc \in {"plan", "eval", "grade"} /\ mpc' \in {"eval", "grade", "end"}
      /\ showcase' \in {showcase, "planning_failed", "graded", "fallback"}
      /\ UNCHANGED <<profile, tags, queue, left, expired, tally, report, aborted, silent, capability,
                     ttft, burst, warned, perf>>
  BY DEF PlanShowcase, PlanFails, EvalItem, Grade, suiteVars, perfVars
<1>2. UNCHANGED <<tally.pass + InError(tally), tally.total>>
  BY <1>1
<1>4. ScoreTypeOK'
  BY <1>1, <1>2 DEF ScoreInv, ScoreTypes, ScoreTypeOK
<1>3. ScoreTypes'
  BY <1>1, <1>4 DEF ScoreInv, ScoreTypes
<1> QED
  BY <1>1, <1>3 DEF ScoreInv, Measuring, StragglersAreWarned

LEMMA ScoreStep == ScoreInv /\ [ScoreNext]_scoreVars => ScoreInv'
<1> SUFFICES ASSUME ScoreInv, [ScoreNext]_scoreVars PROVE ScoreInv'
  OBVIOUS
<1>1. CASE ScoreNext
  BY <1>1, StartingSuite, PassingDeadline, TakingCategory, RunningItem, LeavingSuite, ClosingCategory,
     BenchStep, ShowcaseStep DEF ScoreNext
<1>2. CASE UNCHANGED scoreVars
  BY <1>2 DEF scoreVars, ScoreInv, ScoreTypes, ScoreTypeOK, InError, Reported, OnPurpose, SilentItems,
              endpoint_broken, StragglersAreWarned
<1> QED
  BY <1>1, <1>2

LEMMA ScoreInvariance == ScoreSpec => []ScoreInv
  BY InitScore, ScoreStep, PTL DEF ScoreSpec

\* A finished capability report in which a category is missing or cut short
\* says that it was cut short, and no other report says so.
THEOREM ShortReportsAreMarked == ScoreSpec => []ShortReportSaysSo
<1>1. ScoreInv => ShortReportSaysSo
  <2> SUFFICES ASSUME ScoreInv, mpc = "scored"
               PROVE  (\E c \in _registry_by_name : report[c] \in {"missing", "cut"}) <=> aborted
    BY DEF ShortReportSaysSo
  <2>1. Reported /\ queue = {}
    BY DEF ScoreInv, Measuring
  <2> QED
    BY <2>1, RegistryNames DEF Reported
<1> QED
  BY ScoreInvariance, <1>1, PTL

\* A model of one purpose is measured on that purpose, whatever tags the
\* curator gave it.
THEOREM OnePurposeIsMeasured == ScoreSpec => []SinglePurposeIsMeasured
<1>1. ScoreInv => SinglePurposeIsMeasured
  <2> SUFFICES ASSUME ScoreInv, mpc = "scored", profile.pipeline \in SinglePurpose \ {"audio-classification"}
               PROVE  \E c \in ToSet(CATEGORY_REGISTRY) :
                         /\ c.tag \in _pipeline_tag_to_capability_tags(profile.pipeline)
                         /\ report[c.name] # "na"
    BY DEF SinglePurposeIsMeasured
  <2>1. PICK i \in Places : /\ CATEGORY_REGISTRY[i].tag \in _pipeline_tag_to_capability_tags(profile.pipeline)
                            /\ report[NameAt(i)] # "na"
    BY DEF ScoreInv, Measuring, OnPurpose
  <2>2. CATEGORY_REGISTRY[i] \in ToSet(CATEGORY_REGISTRY)
    BY DEF ToSet, Places
  <2> QED
    BY <2>1, <2>2 DEF NameAt
<1> QED
  BY ScoreInvariance, <1>1, PTL

\* An engine that answered none of four requests or more does not get an ok
\* report, unless its silence shows in two texts, each of some items.
THEOREM SilenceIsCaught == ScoreSpec => []SilentEngineIsCaught
<1>1. ScoreInv => SilentEngineIsCaught
  <2> SUFFICES ASSUME ScoreInv, mpc = "scored", silent, tally.total >= 4, capability = "ok",
                      NEW sig \in Silent, ~(tally.errors[sig] > 0)
               PROVE  FALSE
    BY DEF SilentEngineIsCaught
  <2>1. /\ tally.pass = 0 /\ tally.errors["refused"] + tally.errors["http_0"] = tally.total
        /\ ~endpoint_broken(tally) /\ tally \in Tally
    BY DEF ScoreInv, ScoreTypes, Measuring, SilentItems
  <2>2. tally.errors["refused"] \in Nat /\ tally.errors["http_0"] \in Nat /\ tally.total \in Nat
    BY <2>1 DEF Tally, Errors
  <2>3. tally.errors["refused"] = tally.total \/ tally.errors["http_0"] = tally.total
    BY <2>1, <2>2 DEF Silent
  <2>4. endpoint_broken(tally)
    BY <2>1, <2>2, <2>3 DEF endpoint_broken, MIN_ITEMS_FOR_GATE, Errors
  <2> QED
    BY <2>1, <2>4
<1> QED
  BY ScoreInvariance, <1>1, PTL

\* Requests of the burst that still run when the bench has ended are announced
\* by a warning in its result.
THEOREM RunningRequestsAreWarned == ScoreSpec => []StragglersAreWarned
<1>1. ScoreInv => StragglersAreWarned
  BY DEF ScoreInv
<1> QED
  BY ScoreInvariance, <1>1, PTL

-----------------------------------------------------------------------------
(* The directories of weights: proofs *)

LEMMA Sizes == /\ Shards \in Nat /\ MaxStagings \in Nat /\ MaxAbandoned \in Nat /\ Quota \in Nat
               /\ \A S \in SUBSET CacheDirs : Cardinality(S) \in Nat
<1>1. \A S \in SUBSET CacheDirs : IsFiniteSet(S)
  BY CacheAssumption, FS_Subset
<1> QED
  BY <1>1, CacheAssumption, FS_CardinalityType

LEMMA TwoDirs == Absent \in DirRecord /\ MadeDir \in DirRecord /\ Absent.shards = {} /\ Absent.tmp = {}
                 /\ MadeDir.shards = {} /\ MadeDir.kind = "dir" /\ Absent.kind = "absent" /\ ~Absent.fresh
  BY DEF Absent, MadeDir, DirRecord

\* A run has a model, and the model a directory.
LEMMA RunHasTarget ==
    ASSUME CacheTypeOK, NEW e \in Executors, run[e] # NoModel
    PROVE  run[e] \in CacheModels /\ Target(e) \in CacheDirs /\ Target(e) = hf_local_dir[run[e]]
  BY CacheAssumption DEF CacheTypeOK, Target

LEMMA InitCache == CacheInit => CacheInv
<1> SUFFICES ASSUME CacheInit PROVE CacheInv
  OBVIOUS
<1>1. CacheTypeOK
  BY TwoDirs, Sizes DEF CacheInit, CacheTypeOK
<1>2. \A m \in CacheModels : Have(m) = {} /\ Loading(m) = {}
  BY TwoDirs, CacheAssumption DEF CacheInit, Have, Loading, At
<1>3. Undisturbed
  BY <1>2 DEF CacheInit, Undisturbed, Settled
<1>4. PlansApart
  BY DEF CacheInit, PlansApart, Evictors
<1> QED
  BY <1>1, <1>3, <1>4 DEF CacheInit, CacheInv

\* Nothing changes for a model whose shards and downloads stay as they are.
LEMMA StillSettled ==
    ASSUME NEW m \in CacheModels, Settled(m),
           dir'[hf_local_dir[m]].shards = dir[hf_local_dir[m]].shards,
           \A e \in Executors : /\ (At(e, "download") /\ run[e] = m)' <=> At(e, "download") /\ run[e] = m
                                /\ At(e, "download") /\ run[e] = m => part'[e] = part[e]
    PROVE  Settled(m)'
<1>1. Have(m)' = Have(m)
  BY DEF Have
<1>2. Loading(m)' = Loading(m)
  BY DEF Loading
<1>3. \A e \in Executors : Loading(m) = {e} => part'[e] = part[e]
  BY DEF Loading
<1> QED
  BY <1>1, <1>2, <1>3 DEF Settled

\* Nothing was lost: the directories keep their shards, the downloads go on.
LEMMA NothingMoved ==
    ASSUME CacheTypeOK, Undisturbed, zombies' \subseteq zombies, disturbed \subseteq disturbed',
           \A d \in CacheDirs : dir'[d].shards = dir[d].shards,
           \A e \in Executors : /\ At(e, "download")' <=> At(e, "download")
                                /\ At(e, "download") => run'[e] = run[e] /\ part'[e] = part[e]
    PROVE  Undisturbed'
<1>1. ASSUME NEW m \in CacheModels, hf_local_dir[m] \notin disturbed'
      PROVE  Settled(m)'
  <2>1. Settled(m)
    BY <1>1 DEF Undisturbed
  <2>2. dir'[hf_local_dir[m]].shards = dir[hf_local_dir[m]].shards
    BY CacheAssumption
  <2>3. \A e \in Executors : (At(e, "download") /\ run[e] = m)' <=> At(e, "download") /\ run[e] = m
    OBVIOUS
  <2> QED
    BY <2>1, <2>2, <2>3, StillSettled
<1> QED
  BY <1>1 DEF Undisturbed

LEMMA BeginningRun ==
    ASSUME CacheInv, NEW e \in Executors, BeginStaging(e)
    PROVE  CacheInv'
<1>1. PICK m \in CacheModels : run' = [run EXCEPT ![e] = m]
  BY DEF BeginStaging
<1>2. /\ run[e] = NoModel /\ begun < MaxStagings /\ begun' = begun + 1 /\ spc' = [spc EXCEPT ![e] = "check"]
      /\ unseen' = [v \in Evictors |-> IF plan[v] = {} THEN {} ELSE unseen[v] \cup {e}]
      /\ UNCHANGED <<dir, ended, stuck, part, zombies, plan, need, swept, disturbed>>
  BY DEF BeginStaging, Goto
<1>3. m # NoModel /\ spc[e] = "idle"
  BY <1>2, CacheAssumption DEF CacheInv, PlansApart
<1>4. CacheTypeOK'
  BY <1>1, <1>2, Sizes DEF CacheInv, CacheTypeOK
<1>5. PlansApart'
  <2>1. \A v \in Evictors, o \in Executors :
           \A x \in plan[v] : run'[o] # NoModel /\ hf_local_dir[run'[o]] = x.dir => o \in unseen'[v]
    BY <1>1, <1>2 DEF CacheInv, PlansApart, CacheTypeOK, Target, Evictors
  <2> QED
    BY <1>1, <1>2, <1>3, <2>1 DEF CacheInv, PlansApart, CacheTypeOK, Target
<1>6. Undisturbed'
  BY <1>1, <1>2, <1>3, NothingMoved DEF CacheInv, CacheTypeOK, At
<1> QED
  BY <1>2, <1>4, <1>5, <1>6 DEF CacheInv

\* A run that leaves, or whose process is killed, takes its plan along.
LEMMA RunLeaves ==
    ASSUME CacheTypeOK, PlansApart, NEW e \in Executors, run[e] # NoModel,
           run' = [run EXCEPT ![e] = NoModel], spc' = [spc EXCEPT ![e] = "idle"],
           plan' = [plan EXCEPT ![e] = {}], need' = [need EXCEPT ![e] = 0],
           unseen' \in {unseen, [unseen EXCEPT ![e] = {}]}, part' = [part EXCEPT ![e] = 0]
    PROVE  PlansApart'
<1>1. \A o \in Executors : o # e => run'[o] = run[o] /\ spc'[o] = spc[o] /\ plan'[o] = plan[o] /\ part'[o] = part[o]
  BY DEF CacheTypeOK, Evictors
<1>2. run'[e] = NoModel /\ spc'[e] = "idle" /\ plan'[e] = {}
  BY DEF CacheTypeOK, Evictors
<1>3. ASSUME NEW v \in Evictors, NEW o \in Executors, NEW x \in plan'[v],
             run'[o] # NoModel, hf_local_dir[run'[o]] = x.dir
      PROVE  o \in unseen'[v]
  <2>1. v # e /\ plan'[v] = plan[v] /\ unseen'[v] = unseen[v]
    BY <1>2, <1>3 DEF CacheTypeOK
  <2>2. o # e
    BY <1>2, <1>3
  <2> QED
    BY <1>1, <1>3, <2>1, <2>2 DEF PlansApart, Target
<1>4. \A v \in Evictors : plan'[v] # {} => need'[v] > 0
  BY <1>2 DEF PlansApart, CacheTypeOK
<1> QED
  BY <1>1, <1>2, <1>3, <1>4 DEF PlansApart, Target

LEMMA LeaveTypes ==
    ASSUME CacheTypeOK, PlansApart, NEW e \in Executors, run[e] # NoModel,
           NEW s \in {"ok", "failed", "aborted"}, Leave(e, s),
           dir' \in [CacheDirs -> DirRecord], disturbed' \subseteq CacheDirs
    PROVE  CacheTypeOK' /\ PlansApart'
<1>1. /\ ended' = [ended EXCEPT ![run[e]] = @ \cup {s}] /\ run' = [run EXCEPT ![e] = NoModel]
      /\ spc' = [spc EXCEPT ![e] = "idle"] /\ part' = [part EXCEPT ![e] = 0]
      /\ plan' = [plan EXCEPT ![e] = {}] /\ need' = [need EXCEPT ![e] = 0]
      /\ swept' = swept \ {e} /\ unseen' = [unseen EXCEPT ![e] = {}] /\ UNCHANGED <<stuck, zombies, begun>>
  BY DEF Leave, Goto
<1>2. e \in Evictors /\ 0 \in 0..(Shards + 1)
  BY Sizes DEF Evictors
<1>3. CacheTypeOK'
  BY <1>1, <1>2, RunHasTarget DEF CacheTypeOK
<1> QED
  BY <1>1, <1>3, RunLeaves

\* A run that leaves without downloading leaves the directories alone.
LEMMA LeavingQuietly ==
    ASSUME CacheInv, NEW e \in Executors, run[e] # NoModel, spc[e] # "download",
           NEW s \in {"ok", "failed", "aborted"}, Leave(e, s), UNCHANGED <<dir, disturbed>>
    PROVE  CacheInv'
<1>1. CacheTypeOK' /\ PlansApart'
  BY LeaveTypes DEF CacheInv, CacheTypeOK
<1>2. Undisturbed'
  <2>1. run' = [run EXCEPT ![e] = NoModel] /\ spc' = [spc EXCEPT ![e] = "idle"]
        /\ part' = [part EXCEPT ![e] = 0] /\ UNCHANGED zombies
    BY DEF Leave, Goto
  <2> QED
    BY <2>1, NothingMoved DEF CacheInv, CacheTypeOK, At
<1> QED
  BY <1>1, <1>2 DEF CacheInv

\* What an evictor means to remove, no run was using whose row is in progress.
LEMMA EvictableIsUnused ==
    ASSUME NEW x \in Evictable
    PROVE  /\ x \in [dir : CacheDirs, class : Classes]
           /\ \A m \in CacheModels, e \in Executors \ swept : hf_local_dir[m] = x.dir => run[e] # m
<1>1. PICK d \in Present : x = [dir |-> d, class |-> Class(d)]
  BY DEF Evictable, Entries
<1>2. x.dir = d /\ x.class = Class(d) /\ x.class # "in_progress" /\ d \in CacheDirs
  BY <1>1 DEF Evictable, Present
<1>3. ~InProgress(d) /\ Class(d) \in Classes
  BY <1>2 DEF Class, Class_AnyOk, Classes
<1> QED
  BY <1>1, <1>2, <1>3 DEF InProgress

\* What an evictor holds once it has made a plan.
LEMMA PlanMade ==
    ASSUME CacheTypeOK, NEW v \in Evictors, NEW P \in SUBSET [dir : CacheDirs, class : Classes],
           NEW n \in Nat, NEW U \in SUBSET Executors, PlanTo(v, P, n, U)
    PROVE  /\ plan' \in [Evictors -> SUBSET [dir : CacheDirs, class : Classes]]
           /\ need' \in [Evictors -> Nat] /\ unseen' \in [Evictors -> SUBSET Executors]
           /\ \A w \in Evictors \ {v} :
                 plan'[w] = plan[w] /\ need'[w] = need[w] /\ unseen'[w] = unseen[w]
           /\ plan'[v] \subseteq P
           /\ plan'[v] # {} => need'[v] > 0 /\ unseen'[v] = U
<1> DEFINE rest == IF n = 0 THEN {} ELSE P
<1>1. /\ plan' = [plan EXCEPT ![v] = rest] /\ need' = [need EXCEPT ![v] = IF rest = {} THEN 0 ELSE n]
      /\ unseen' = [unseen EXCEPT ![v] = IF rest = {} THEN {} ELSE U]
  BY DEF PlanTo
<1>2. rest \subseteq P /\ rest \in SUBSET [dir : CacheDirs, class : Classes] /\ (rest # {} => n > 0)
  OBVIOUS
<1> HIDE DEF rest
<1> QED
  BY <1>1, <1>2 DEF CacheTypeOK

\* An evictor that has just classified plans for directories without a run, as
\* far as the rows say.
LEMMA Planning ==
    ASSUME CacheInv, NEW v \in Evictors, NEW n \in Nat,
           NEW P \in SUBSET [dir : CacheDirs, class : Classes], P \subseteq Evictable,
           PlanTo(v, P, n, swept),
           UNCHANGED <<dir, ended, stuck, run, part, zombies, begun, swept, disturbed>>,
           \/ v = Tool /\ UNCHANGED spc
           \/ v \in Executors /\ At(v, "check") /\ spc' = [spc EXCEPT ![v] = "evict"]
    PROVE  CacheInv'
<1>1. /\ plan' \in [Evictors -> SUBSET [dir : CacheDirs, class : Classes]]
      /\ need' \in [Evictors -> Nat] /\ unseen' \in [Evictors -> SUBSET Executors]
      /\ \A w \in Evictors \ {v} :
            plan'[w] = plan[w] /\ need'[w] = need[w] /\ unseen'[w] = unseen[w]
      /\ plan'[v] \subseteq P
      /\ plan'[v] # {} => need'[v] > 0 /\ unseen'[v] = swept
  <2>1. swept \in SUBSET Executors
    BY DEF CacheInv, CacheTypeOK
  <2>2. CacheTypeOK
    BY DEF CacheInv
  <2>3. /\ plan' \in [Evictors -> SUBSET [dir : CacheDirs, class : Classes]]
        /\ need' \in [Evictors -> Nat] /\ unseen' \in [Evictors -> SUBSET Executors]
        /\ \A w \in Evictors \ {v} :
              plan'[w] = plan[w] /\ need'[w] = need[w] /\ unseen'[w] = unseen[w]
    BY <2>1, <2>2, PlanMade
  <2>4. /\ plan'[v] = IF n = 0 THEN {} ELSE P
        /\ need'[v] = IF plan'[v] = {} THEN 0 ELSE n
        /\ unseen'[v] = IF plan'[v] = {} THEN {} ELSE swept
    BY <2>2 DEF PlanTo, CacheTypeOK
  <2> QED
    BY <2>3, <2>4
<1>2. CacheTypeOK'
  BY <1>1 DEF CacheInv, CacheTypeOK
<1>3. PlansApart'
  <2>1. ASSUME NEW w \in Evictors, NEW e \in Executors, NEW x \in plan'[w],
               run'[e] # NoModel, hf_local_dir[run'[e]] = x.dir
        PROVE  e \in unseen'[w]
    <3>1. CASE w = v
      <4>1. x \in Evictable /\ run[e] \in CacheModels /\ unseen'[v] = swept
        BY <1>1, <2>1, <3>1 DEF CacheInv, CacheTypeOK
      <4> QED
        BY <2>1, <3>1, <4>1, EvictableIsUnused
    <3>2. CASE w # v
      BY <1>1, <2>1, <3>2 DEF CacheInv, CacheTypeOK, PlansApart, Target
    <3> QED
      BY <3>1, <3>2
  <2>2. \A e \in Executors : /\ run'[e] = NoModel <=> spc'[e] = "idle"
                             /\ spc'[e] # "evict" => plan'[e] = {}
                             /\ spc'[e] = "download" => part'[e] \in 1..(Shards + 1)
    BY <1>1, CacheAssumption DEF CacheInv, CacheTypeOK, PlansApart, At, Evictors
  <2>3. \A w \in Evictors : plan'[w] # {} => need'[w] > 0
    BY <1>1 DEF CacheInv, PlansApart
  <2> QED
    BY <2>1, <2>2, <2>3 DEF CacheInv, PlansApart, Target
<1>4. Undisturbed'
  <2>1. \A e \in Executors : /\ At(e, "download")' <=> At(e, "download")
                             /\ At(e, "download") => run'[e] = run[e] /\ part'[e] = part[e]
    BY DEF CacheInv, CacheTypeOK, At
  <2>2. zombies' \subseteq zombies /\ disturbed \subseteq disturbed'
        /\ \A d \in CacheDirs : dir'[d].shards = dir[d].shards
    OBVIOUS
  <2>3. CacheTypeOK /\ Undisturbed
    BY DEF CacheInv
  <2> QED
    BY <2>1, <2>2, <2>3, NothingMoved DEF At
<1> QED
  BY <1>2, <1>3, <1>4 DEF CacheInv

LEMMA Enforcing ==
    ASSUME CacheInv, NEW e \in Executors, Enforce(e)
    PROVE  CacheInv'
<1>1. Excess \in Nat /\ e \in Evictors
  BY Sizes DEF Excess, Present, Evictors
<1>2. /\ At(e, "check") /\ spc' = [spc EXCEPT ![e] = "evict"] /\ PlanTo(e, Evictable, Excess, swept)
      /\ UNCHANGED <<dir, ended, stuck, run, part, zombies, begun, swept, disturbed>>
  BY DEF Enforce, Goto
<1> QED
  BY <1>1, <1>2, EvictableIsUnused, Planning

LEMMA ToolPlanning ==
    ASSUME CacheInv, ToolClassify
    PROVE  CacheInv'
<1>1. Excess \in Nat /\ Cardinality(CacheDirs) \in Nat /\ Tool \in Evictors
  BY Sizes DEF Excess, Present, Evictors
<1>2. UNCHANGED <<dir, ended, stuck, run, spc, part, zombies, begun, swept, disturbed>>
  BY DEF ToolClassify
<1>3. {x \in Entries : x.class \in {"safe", "orphan"}} \subseteq Evictable
  BY DEF Evictable
<1>4. PICK P \in SUBSET Evictable, n \in Nat : PlanTo(Tool, P, n, swept)
  BY <1>1, <1>3 DEF ToolClassify
<1>5. P \in SUBSET [dir : CacheDirs, class : Classes] /\ P \subseteq Evictable
  BY EvictableIsUnused
<1> QED
  BY <1>1, <1>2, <1>4, <1>5, Planning

\* A directory is removed: its models have no shards, and whoever downloads
\* into it is disturbed.
LEMMA Removing ==
    ASSUME CacheInv, NEW d \in CacheDirs, NEW v,
           dir' = [dir EXCEPT ![d] = Absent],
           disturbed' = IF Downloading(d, v) THEN disturbed \cup {d} ELSE disturbed \ {d},
           zombies' = zombies,
           \A e \in Executors : IF e = v THEN ~At(e, "download")'
                                ELSE UNCHANGED <<spc[e], run[e], part[e]>>,
           v \in Executors /\ At(v, "download") => Target(v) = d
    PROVE  /\ dir' \in [CacheDirs -> DirRecord] /\ disturbed' \subseteq CacheDirs
           /\ \A c \in CacheDirs : dir'[c].kind = "absent" => dir'[c] = Absent
           /\ Undisturbed'
<1>1. dir' \in [CacheDirs -> DirRecord] /\ disturbed' \subseteq CacheDirs
  BY TwoDirs DEF CacheInv, CacheTypeOK
<1>2. \A c \in CacheDirs : dir'[c].kind = "absent" => dir'[c] = Absent
  BY DEF CacheInv, CacheTypeOK
<1>3. ASSUME NEW m \in CacheModels, hf_local_dir[m] \notin disturbed'
      PROVE  Settled(m)'
  <2>1. hf_local_dir[m] \in CacheDirs /\ m # NoModel
    BY CacheAssumption
  <2>2. CASE hf_local_dir[m] = d
    <3>1. Have(m)' = {}
      BY <2>1, <2>2, TwoDirs DEF Have, CacheInv, CacheTypeOK
    <3>2. ~Downloading(d, v)
      BY <1>3, <2>2
    <3>3. \A e \in Executors : ~(At(e, "download") /\ run[e] = m)'
      BY <2>2, <3>2 DEF Downloading, At, Target
    <3> QED
      BY <3>1, <3>3 DEF Settled, Loading
  <2>3. CASE hf_local_dir[m] # d
    <3>1. dir'[hf_local_dir[m]].shards = dir[hf_local_dir[m]].shards
      BY <2>1, <2>3 DEF CacheInv, CacheTypeOK
    <3>2. ASSUME NEW e \in Executors
          PROVE  /\ (At(e, "download") /\ run[e] = m)' <=> At(e, "download") /\ run[e] = m
                 /\ At(e, "download") /\ run[e] = m => part'[e] = part[e]
      BY <2>3 DEF At, Target
    <3>3. Settled(m)
      BY <1>3, <2>3 DEF CacheInv, Undisturbed
    <3> QED
      BY <3>1, <3>2, <3>3, StillSettled
  <2> QED
    BY <2>2, <2>3
<1>4. \A z \in zombies' : hf_local_dir[z.model] \in disturbed'
  BY DEF Downloading, CacheInv, Undisturbed
<1>5. Undisturbed'
  BY <1>3, <1>4 DEF Undisturbed
<1> QED
  BY <1>1, <1>2, <1>5

\* One file of a directory is removed; whatever is left is known to be disturbed.
LEMMA RemovingFile ==
    ASSUME CacheInv, NEW d \in CacheDirs, RemoveFile(d), UNCHANGED <<run, spc, part, zombies>>
    PROVE  /\ dir' \in [CacheDirs -> DirRecord] /\ disturbed' \subseteq CacheDirs
           /\ \A c \in CacheDirs : dir'[c].kind = "absent" => dir'[c] = Absent
           /\ \A c \in CacheDirs : dir'[c].kind = dir[c].kind
           /\ Undisturbed'
<1>1. PICK f \in dir[d].shards \cup dir[d].tmp :
         /\ dir' = [dir EXCEPT ![d] = Without(dir[d], f)]
         /\ disturbed' = disturbed \cup {d} /\ dir[d].kind = "dir"
  BY DEF RemoveFile
<1>2. /\ dir'[d] \in DirRecord /\ dir'[d].kind = "dir"
      /\ \A c \in CacheDirs \ {d} : dir'[c] = dir[c]
  <2>1. dir \in [CacheDirs -> DirRecord]
    BY DEF CacheInv, CacheTypeOK
  <2>2. Without(dir[d], f) \in DirRecord /\ Without(dir[d], f).kind = "dir"
    BY <1>1, <2>1 DEF DirRecord, Without
  <2> QED
    BY <1>1, <2>1, <2>2
<1>3. dir' \in [CacheDirs -> DirRecord]
  <2>1. dir \in [CacheDirs -> DirRecord]
    BY DEF CacheInv, CacheTypeOK
  <2>2. DOMAIN dir' = CacheDirs /\ dir' = [c \in CacheDirs |-> dir'[c]]
    BY <1>1, <2>1
  <2>3. \A c \in CacheDirs : dir'[c] \in DirRecord
    BY <1>2, <2>1
  <2> QED
    BY <2>2, <2>3
<1>4. ASSUME NEW m \in CacheModels, hf_local_dir[m] \notin disturbed'
      PROVE  Settled(m)'
  <2>1. dir'[hf_local_dir[m]] = dir[hf_local_dir[m]] /\ Settled(m)
    BY <1>1, <1>2, <1>4, CacheAssumption DEF CacheInv, Undisturbed
  <2> QED
    BY <2>1, StillSettled DEF At
<1>5. \A z \in zombies' : hf_local_dir[z.model] \in disturbed'
  BY <1>1 DEF CacheInv, Undisturbed
<1> QED
  BY <1>1, <1>2, <1>3, <1>4, <1>5 DEF CacheInv, CacheTypeOK, Undisturbed

LEMMA Evicting ==
    ASSUME CacheInv, NEW v \in Evictors, EvictNext(v),
           v \in Executors => At(v, "evict")
    PROVE  CacheInv'
<1>1. UNCHANGED <<ended, stuck, run, spc, part, zombies, begun, swept>>
  BY DEF EvictNext
<1>2. PICK x \in plan[v] :
         \/ RemoveFile(x.dir) /\ UNCHANGED <<plan, need, unseen>>
         \/ RemoveAll(x.dir, v) /\ PlanTo(v, plan[v] \ {x}, need[v] - 1, unseen[v])
         \/ UNCHANGED <<dir, disturbed>> /\ PlanTo(v, plan[v] \ {x}, need[v], unseen[v])
  BY DEF EvictNext
<1>3. x.dir \in CacheDirs /\ need[v] - 1 \in Nat /\ need[v] \in Nat
      /\ plan[v] \ {x} \in SUBSET [dir : CacheDirs, class : Classes] /\ unseen[v] \in SUBSET Executors
  BY <1>2 DEF CacheInv, CacheTypeOK, PlansApart
<1>4. /\ plan' \in [Evictors -> SUBSET [dir : CacheDirs, class : Classes]]
      /\ need' \in [Evictors -> Nat] /\ unseen' \in [Evictors -> SUBSET Executors]
      /\ \A w \in Evictors : /\ plan'[w] \subseteq plan[w]
                             /\ plan'[w] # {} => need'[w] > 0 /\ unseen'[w] = unseen[w]
  <2>1. CASE UNCHANGED <<plan, need, unseen>>
    BY <2>1 DEF CacheInv, CacheTypeOK, PlansApart
  <2>2. ASSUME NEW n \in Nat, PlanTo(v, plan[v] \ {x}, n, unseen[v])
        PROVE  /\ plan' \in [Evictors -> SUBSET [dir : CacheDirs, class : Classes]]
               /\ need' \in [Evictors -> Nat] /\ unseen' \in [Evictors -> SUBSET Executors]
               /\ \A w \in Evictors : /\ plan'[w] \subseteq plan[w]
                                      /\ plan'[w] # {} => need'[w] > 0 /\ unseen'[w] = unseen[w]
    <3>1. CacheTypeOK /\ \A w \in Evictors : plan[w] # {} => need[w] > 0
      BY DEF CacheInv, PlansApart
    <3>2. /\ plan' \in [Evictors -> SUBSET [dir : CacheDirs, class : Classes]]
          /\ need' \in [Evictors -> Nat] /\ unseen' \in [Evictors -> SUBSET Executors]
          /\ \A w \in Evictors \ {v} :
                plan'[w] = plan[w] /\ need'[w] = need[w] /\ unseen'[w] = unseen[w]
          /\ plan'[v] \subseteq plan[v] \ {x}
          /\ plan'[v] # {} => need'[v] > 0 /\ unseen'[v] = unseen[v]
      BY ONLY <1>3, <2>2, <3>1, PlanMade
    <3> QED
      BY <3>1, <3>2
  <2> QED
    BY <1>2, <1>3, <2>1, <2>2
<1>5. PlansApart'
  <2>1. \A e \in Executors : plan[e] = {} => plan'[e] = {}
    BY <1>4 DEF Evictors
  <2>2. \A w \in Evictors, e \in Executors :
           \A x1 \in plan'[w] : run'[e] # NoModel /\ Target(e)' = x1.dir => e \in unseen'[w]
    BY <1>1, <1>4 DEF CacheInv, PlansApart, Target
  <2> QED
    BY <1>1, <1>4, <2>1, <2>2 DEF CacheInv, PlansApart
<1>6. /\ dir' \in [CacheDirs -> DirRecord] /\ disturbed' \subseteq CacheDirs
      /\ \A c \in CacheDirs : dir'[c].kind = "absent" => dir'[c] = Absent
      /\ Undisturbed'
  <2>1. CASE RemoveFile(x.dir)
    BY <1>1, <1>3, <2>1, RemovingFile
  <2>2. CASE RemoveAll(x.dir, v)
    <3>1. /\ \A e \in Executors : IF e = v THEN ~At(e, "download")'
                                  ELSE UNCHANGED <<spc[e], run[e], part[e]>>
          /\ v \in Executors /\ At(v, "download") => Target(v) = x.dir
      BY <1>1 DEF At
    <3>2. dir' = [dir EXCEPT ![x.dir] = Absent]
          /\ disturbed' = IF Downloading(x.dir, v) THEN disturbed \cup {x.dir} ELSE disturbed \ {x.dir}
      BY <2>2 DEF RemoveAll
    <3> QED
      BY <1>1, <1>3, <3>1, <3>2, Removing
  <2>3. CASE UNCHANGED <<dir, disturbed>>
    <3>1. Undisturbed'
      BY <1>1, <2>3, NothingMoved DEF CacheInv, At
    <3> QED
      BY <2>3, <3>1 DEF CacheInv, CacheTypeOK
  <2> QED
    BY <1>2, <2>1, <2>2, <2>3
<1> QED
  BY <1>1, <1>4, <1>5, <1>6 DEF CacheInv, CacheTypeOK

LEMMA StartingDownload ==
    ASSUME CacheInv, NEW e \in Executors, At(e, "evict"), Goto(e, "download"),
           part' = [part EXCEPT ![e] = 1],
           dir' = [dir EXCEPT ![Target(e)] = IF @.kind = "absent" THEN MadeDir ELSE @],
           plan[e] = {},
           disturbed' = IF Downloading(Target(e), e) THEN disturbed \cup {Target(e)} ELSE disturbed,
           UNCHANGED <<ended, stuck, run, zombies, plan, need, begun, swept, unseen>>
    PROVE  CacheInv'
<1>1. run[e] \in CacheModels /\ Target(e) \in CacheDirs /\ Target(e) = hf_local_dir[run[e]]
      /\ e \in Evictors /\ 1 \in 0..(Shards + 1) /\ spc' = [spc EXCEPT ![e] = "download"]
  BY RunHasTarget, Sizes DEF At, CacheInv, Evictors, Goto
<1>2. CacheTypeOK'
  BY <1>1, TwoDirs DEF CacheInv, CacheTypeOK
<1>3. \A d \in CacheDirs : /\ dir'[d].shards = dir[d].shards
                           /\ dir'[d].kind = "absent" => dir'[d] = Absent
  BY <1>1, TwoDirs DEF CacheInv, CacheTypeOK
<1>4. PlansApart'
  <2>1. \A o \in Executors : /\ run'[o] = NoModel <=> spc'[o] = "idle"
                             /\ spc'[o] # "evict" => plan'[o] = {}
                             /\ spc'[o] = "download" => part'[o] \in 1..(Shards + 1)
    BY <1>1, Sizes DEF CacheInv, CacheTypeOK, PlansApart, At
  <2> QED
    BY <2>1 DEF CacheInv, PlansApart, Target
<1>5. ASSUME NEW m \in CacheModels, hf_local_dir[m] \notin disturbed'
      PROVE  Settled(m)'
  <2>1. Settled(m) /\ Have(m)' = Have(m) /\ m # NoModel
    BY <1>3, <1>5, CacheAssumption DEF CacheInv, Undisturbed, Have
  <2>2. CASE m = run[e]
    <3>1. Loading(m) = {}
      <4>1. e \notin Loading(m)
        BY DEF Loading, At
      <4>2. ~Downloading(Target(e), e)
        BY <1>1, <1>5, <2>2
      <4> QED
        BY <1>1, <2>2, <4>1, <4>2 DEF Loading, Downloading, At, Target
    <3>2. Loading(m)' = {e} /\ part'[e] = 1
      <4>1. e \in Loading(m)' /\ part'[e] = 1
        BY <1>1, <2>2 DEF Loading, At, CacheInv, CacheTypeOK
      <4>2. \A o \in Executors \ {e} : o \in Loading(m)' => o \in Loading(m)
        BY <1>1 DEF Loading, At, CacheInv, CacheTypeOK
      <4>3. Loading(m)' \subseteq Executors
        BY DEF Loading
      <4> QED
        BY <3>1, <4>1, <4>2, <4>3
    <3>3. Have(m) = 1..Shards \/ Have(m) = {}
      BY <2>1, <3>1 DEF Settled
    <3>4. 1..(1 - 1) = {}
      OBVIOUS
    <3> QED
      BY <2>1, <3>2, <3>3, <3>4 DEF Settled
  <2>3. CASE m # run[e]
    <3>1. \A o \in Executors : /\ (At(o, "download") /\ run[o] = m)' <=> At(o, "download") /\ run[o] = m
                               /\ At(o, "download") /\ run[o] = m => part'[o] = part[o]
      BY <1>1, <2>3 DEF At, CacheInv, CacheTypeOK
    <3>2. dir'[hf_local_dir[m]].shards = dir[hf_local_dir[m]].shards
      BY <1>3, CacheAssumption
    <3> QED
      BY <2>1, <3>1, <3>2, StillSettled
  <2> QED
    BY <2>2, <2>3
<1>6. Undisturbed'
  BY <1>5 DEF CacheInv, Undisturbed
<1> QED
  BY <1>2, <1>3, <1>4, <1>6 DEF CacheInv

LEMMA AskingForRoom ==
    ASSUME CacheInv, NEW e \in Executors, Headroom(e)
    PROVE  CacheInv'
<1>1. At(e, "evict")
  BY DEF Headroom
<1>2. CASE Leave(e, "aborted") /\ UNCHANGED <<dir, disturbed>>
  BY <1>1, <1>2, LeavingQuietly DEF At
<1>3. CASE ~(Leave(e, "aborted") /\ UNCHANGED <<dir, disturbed>>)
  BY <1>1, <1>3, StartingDownload DEF Headroom
<1> QED
  BY <1>2, <1>3

\* A download's write adds its shard, once the ledger has it, and no other.
LEMMA WritesItsShard ==
    ASSUME CacheTypeOK, \A d \in CacheDirs : dir[d].kind = "absent" => dir[d] = Absent,
           NEW d \in CacheDirs, NEW s \in Shard,
           dir' = IF s \in dir[d].shards THEN dir ELSE Wrote(d, s)
    PROVE  /\ dir' \in [CacheDirs -> DirRecord]
           /\ \A c \in CacheDirs : dir'[c].kind = "absent" => dir'[c] = Absent
           /\ \A c \in CacheDirs \ {d} : dir'[c] = dir[c]
           /\ dir'[d].shards = IF s \in dir[d].tmp THEN dir[d].shards \cup {s} ELSE dir[d].shards
           /\ dir[d].kind # "absent" => dir'[d].kind # "absent"
<1>1. CASE s \in dir[d].shards
  BY <1>1 DEF CacheTypeOK
<1>2. CASE s \notin dir[d].shards /\ s \in dir[d].tmp
  <2>1. dir' = [dir EXCEPT ![d].tmp = @ \ {s}, ![d].shards = @ \cup {s}, ![d].fresh = TRUE]
    BY <1>2 DEF Wrote
  <2>2. dir[d].kind # "absent" /\ dir[d] \in DirRecord
    BY <1>2, TwoDirs DEF CacheTypeOK
  <2>3. /\ dir'[d] \in DirRecord /\ dir'[d].kind = dir[d].kind /\ dir'[d].shards = dir[d].shards \cup {s}
        /\ \A c \in CacheDirs \ {d} : dir'[c] = dir[c]
    BY <2>1, <2>2 DEF CacheTypeOK, DirRecord
  <2>4. dir' \in [CacheDirs -> DirRecord]
    BY <2>1, <2>3 DEF CacheTypeOK
  <2> QED
    BY <1>2, <2>2, <2>3, <2>4
<1>3. CASE s \notin dir[d].shards /\ s \notin dir[d].tmp /\ dir[d].kind = "absent"
  <2>1. dir' = [dir EXCEPT ![d] = [MadeDir EXCEPT !.tmp = {s}]]
    BY <1>3 DEF Wrote
  <2>2. /\ [MadeDir EXCEPT !.tmp = {s}] \in DirRecord /\ [MadeDir EXCEPT !.tmp = {s}].kind = "dir"
        /\ [MadeDir EXCEPT !.tmp = {s}].shards = {}
    BY DEF MadeDir, Absent, DirRecord
  <2> QED
    BY <1>3, <2>1, <2>2, TwoDirs DEF CacheTypeOK
<1>4. CASE s \notin dir[d].shards /\ s \notin dir[d].tmp /\ dir[d].kind # "absent"
  <2>1. dir' = [dir EXCEPT ![d].tmp = @ \cup {s}]
    BY <1>4 DEF Wrote
  <2>2. /\ dir'[d] \in DirRecord /\ dir'[d].kind = dir[d].kind /\ dir'[d].shards = dir[d].shards
        /\ \A c \in CacheDirs \ {d} : dir'[c] = dir[c]
    BY <2>1 DEF CacheTypeOK, DirRecord
  <2>3. dir' \in [CacheDirs -> DirRecord]
    BY <2>1, <2>2 DEF CacheTypeOK
  <2> QED
    BY <1>4, <2>2, <2>3
<1> QED
  BY <1>1, <1>2, <1>3, <1>4

LEMMA DownloadingShard ==
    ASSUME CacheInv, NEW e \in Executors, DownloadStep(e)
    PROVE  CacheInv'
<1> DEFINE d == Target(e)
           i == part[e]
           s == <<run[e], i>>
<1>1. /\ At(e, "download") /\ i \in 1..Shards
      /\ dir' = IF s \in dir[d].shards THEN dir ELSE Wrote(d, s)
      /\ part' = [part EXCEPT ![e] = After(d, s, @)]
      /\ UNCHANGED <<ended, stuck, run, spc, zombies, plan, need, begun, swept, unseen, disturbed>>
  BY DEF DownloadStep
<1>2. /\ run[e] \in CacheModels /\ run[e] # NoModel /\ d \in CacheDirs /\ d = hf_local_dir[run[e]]
      /\ s \in Shard /\ i \in Nat
  BY <1>1, RunHasTarget, Sizes DEF At, CacheInv, Shard
<1> HIDE DEF d
<1>3. /\ dir' \in [CacheDirs -> DirRecord]
      /\ \A c \in CacheDirs : dir'[c].kind = "absent" => dir'[c] = Absent
      /\ \A c \in CacheDirs \ {d} : dir'[c] = dir[c]
      /\ dir'[d].shards = IF s \in dir[d].tmp THEN dir[d].shards \cup {s} ELSE dir[d].shards
  BY <1>1, <1>2, WritesItsShard DEF CacheInv
<1>4. /\ part'[e] = IF s \in dir[d].tmp \cup dir[d].shards THEN i + 1 ELSE i
      /\ \A o \in Executors : o # e => part'[o] = part[o]
      /\ part'[e] \in 0..(Shards + 1) /\ part' \in [Executors -> 0..(Shards + 1)]
  <2>1. After(d, s, i) = IF s \in dir[d].tmp \cup dir[d].shards THEN i + 1 ELSE i
    BY DEF After
  <2>2. After(d, s, i) \in 0..(Shards + 1)
    BY <1>1, <1>2, <2>1, Sizes
  <2> QED
    BY <1>1, <2>1, <2>2 DEF CacheInv, CacheTypeOK
<1>5. CacheTypeOK' /\ PlansApart'
  <2>1. CacheTypeOK'
    BY <1>1, <1>3, <1>4 DEF CacheInv, CacheTypeOK
  <2>2. \A o \in Executors : spc[o] = "download" => part'[o] \in 1..(Shards + 1)
    BY <1>1, <1>2, <1>4, Sizes DEF CacheInv, PlansApart
  <2>3. PlansApart'
    BY <1>1, <2>2 DEF CacheInv, PlansApart, Target
  <2> QED
    BY <2>1, <2>3
<1>6. ASSUME NEW m \in CacheModels, hf_local_dir[m] \notin disturbed
      PROVE  Settled(m)'
  <2>1. Settled(m)
    BY <1>6 DEF CacheInv, Undisturbed
  <2>2. CASE m = run[e]
    <3>1. e \in Loading(m) /\ Loading(m)' = Loading(m)
      BY <1>1, <1>2, <2>2 DEF Loading, At
    <3>2. \A j \in 1..Shards : <<m, j>> = s <=> j = i
      BY <2>2
    <3>3. Have(m)' = IF s \in dir[d].tmp THEN Have(m) \cup {i} ELSE Have(m)
      <4>1. hf_local_dir[m] = d
        BY <1>2, <2>2
      <4> QED
        BY <1>1, <1>3, <2>2, <3>2, <4>1 DEF Have
    <3>4. i \in Have(m) <=> s \in dir[d].shards
      BY <1>1, <1>2, <2>2 DEF Have
    <3>5. CASE Have(m) = 1..Shards
      BY <1>1, <3>3, <3>5 DEF Settled
    <3>6. CASE Loading(m) = {e} /\ Have(m) = 1..(i - 1)
      <4>1. i \notin Have(m) /\ (1..(i - 1)) \cup {i} = 1..((i + 1) - 1)
        BY <1>1, <1>2, <3>6
      <4>2. Have(m)' = 1..(part'[e] - 1)
        <5>1. s \notin dir[d].shards
          BY <3>4, <4>1
        <5>2. CASE s \in dir[d].tmp
          <6>1. part'[e] = i + 1 /\ Have(m)' = Have(m) \cup {i}
            BY <1>4, <3>3, <5>2
          <6> QED
            BY <3>6, <4>1, <6>1
        <5>3. CASE s \notin dir[d].tmp
          <6>1. part'[e] = i /\ Have(m)' = Have(m)
            BY <1>4, <3>3, <5>1, <5>3
          <6> QED
            BY <3>6, <6>1
        <5> QED
          BY <5>2, <5>3
      <4> QED
        BY <3>1, <3>6, <4>2 DEF Settled
    <3> QED
      BY <2>1, <3>1, <3>5, <3>6 DEF Settled
  <2>3. CASE m # run[e]
    <3>1. \A j \in 1..Shards : <<m, j>> # s
      BY <2>3
    <3>2. Have(m)' = Have(m)
      BY <1>3, <3>1, CacheAssumption DEF Have
    <3>3. Loading(m)' = Loading(m) /\ \A o \in Executors : Loading(m) = {o} => part'[o] = part[o]
      BY <1>1, <1>4, <2>3 DEF Loading, At
    <3> QED
      BY <2>1, <3>2, <3>3 DEF Settled
  <2> QED
    BY <2>2, <2>3
<1>7. Undisturbed'
  BY <1>1, <1>6 DEF CacheInv, Undisturbed
<1> QED
  BY <1>3, <1>5, <1>7 DEF CacheInv

LEMMA ZombieWriting ==
    ASSUME CacheInv, NEW z \in zombies, ZombieStep(z)
    PROVE  CacheInv'
<1> DEFINE d == hf_local_dir[z.model]
           s == <<z.model, z.part>>
<1>1. /\ zombies' = IF z.part > Shards \/ dir[d].kind = "link" THEN zombies \ {z}
                    ELSE (zombies \ {z}) \cup {[z EXCEPT !.part = After(d, s, z.part)]}
      /\ dir' = IF z.part > Shards \/ dir[d].kind = "link" \/ s \in dir[d].shards
                THEN dir ELSE Wrote(d, s)
      /\ UNCHANGED <<ended, stuck, run, spc, part, plan, need, begun, swept, unseen, disturbed>>
  BY DEF ZombieStep
<1>2. z.model \in CacheModels /\ z.part \in 1..(Shards + 1) /\ d \in CacheDirs /\ d \in disturbed
      /\ z \in [model : CacheModels, part : 1..(Shards + 1)]
  BY CacheAssumption DEF CacheInv, CacheTypeOK, Undisturbed
<1>3. PlansApart'
  BY <1>1 DEF CacheInv, PlansApart, Target
<1>4. CASE z.part > Shards \/ dir[d].kind = "link"
  <2>1. UNCHANGED dir /\ zombies' \subseteq zombies
    BY <1>1, <1>4
  <2>2. Undisturbed'
    BY <1>1, <2>1, NothingMoved DEF CacheInv, At
  <2> QED
    BY <1>1, <1>3, <2>1, <2>2 DEF CacheInv, CacheTypeOK
<1>5. CASE ~(z.part > Shards \/ dir[d].kind = "link")
  <2> DEFINE y == [z EXCEPT !.part = After(d, s, z.part)]
  <2>1. zombies' = (zombies \ {z}) \cup {y} /\ dir' = IF s \in dir[d].shards THEN dir ELSE Wrote(d, s)
    BY <1>1, <1>5
  <2>2. After(d, s, z.part) \in 1..(Shards + 1) /\ s \in Shard
    BY <1>2, <1>5, Sizes DEF After, Shard
  <2>3. y \in [model : CacheModels, part : 1..(Shards + 1)] /\ y.model = z.model
    BY <1>2, <2>2
  <2> HIDE DEF y
  <2>4. zombies' \subseteq [model : CacheModels, part : 1..(Shards + 1)]
        /\ \A x \in zombies' : hf_local_dir[x.model] \in disturbed
    BY <1>2, <2>1, <2>3 DEF CacheInv, CacheTypeOK, Undisturbed
  <2> HIDE DEF d, s
  <2>5. /\ dir' \in [CacheDirs -> DirRecord]
        /\ \A c \in CacheDirs : dir'[c].kind = "absent" => dir'[c] = Absent
        /\ \A c \in CacheDirs \ {d} : dir'[c] = dir[c]
    BY <1>2, <2>1, <2>2, WritesItsShard DEF CacheInv
  <2>6. ASSUME NEW m \in CacheModels, hf_local_dir[m] \notin disturbed
        PROVE  Settled(m)'
    <3>1. dir'[hf_local_dir[m]] = dir[hf_local_dir[m]] /\ Settled(m)
      BY <1>2, <2>5, <2>6, CacheAssumption DEF CacheInv, Undisturbed
    <3> QED
      BY <1>1, <3>1, StillSettled DEF At
  <2> QED
    BY <1>1, <1>3, <2>4, <2>5, <2>6 DEF CacheInv, CacheTypeOK, Undisturbed
<1> QED
  BY <1>4, <1>5

\* What a download leaves behind that failed or was given up is known to be
\* disturbed.
LEMMA GivingUp ==
    ASSUME CacheInv, NEW e \in Executors, GiveUpDownload(e)
    PROVE  CacheInv'
<1>1. /\ At(e, "download") /\ spc' = [spc EXCEPT ![e] = "cleanup"]
      /\ part' = [part EXCEPT ![e] = 0] /\ disturbed' = disturbed \cup {Target(e)}
      /\ zombies' \in {zombies, zombies \cup {[model |-> run[e], part |-> part[e]]}}
      /\ UNCHANGED <<dir, ended, stuck, run, plan, need, begun, swept, unseen>>
  BY DEF GiveUpDownload, Goto
<1>2. /\ Target(e) \in CacheDirs /\ Target(e) = hf_local_dir[run[e]] /\ run[e] \in CacheModels
      /\ run[e] # NoModel /\ part[e] \in 1..(Shards + 1) /\ plan[e] = {}
  BY <1>1, RunHasTarget DEF CacheInv, At, PlansApart
<1>3. CacheTypeOK'
  BY <1>1, <1>2, Sizes DEF CacheInv, CacheTypeOK
<1>4. PlansApart'
  BY <1>1, <1>2 DEF CacheInv, CacheTypeOK, PlansApart, Target
<1>5. ASSUME NEW m \in CacheModels, hf_local_dir[m] \notin disturbed'
      PROVE  Settled(m)'
  <2>1. Settled(m) /\ m # run[e]
    BY <1>1, <1>2, <1>5 DEF CacheInv, Undisturbed
  <2>2. \A o \in Executors : /\ (At(o, "download") /\ run[o] = m)' <=> At(o, "download") /\ run[o] = m
                             /\ At(o, "download") /\ run[o] = m => part'[o] = part[o]
    BY <1>1, <2>1 DEF At, CacheInv, CacheTypeOK
  <2> QED
    BY <1>1, <2>1, <2>2, StillSettled
<1>6. \A z \in zombies' : hf_local_dir[z.model] \in disturbed'
  BY <1>1, <1>2 DEF CacheInv, Undisturbed
<1> QED
  BY <1>1, <1>3, <1>4, <1>5, <1>6 DEF CacheInv, Undisturbed

LEMMA CleaningUp ==
    ASSUME CacheInv, NEW e \in Executors, _cleanup_partial(e)
    PROVE  CacheInv'
<1>1. Target(e) \in CacheDirs /\ run[e] # NoModel /\ spc[e] = "cleanup"
  BY RunHasTarget DEF CacheInv, _cleanup_partial, At
<1>2. CASE RemoveFile(Target(e)) /\ UNCHANGED <<ended, stuck, run, spc, part, zombies, plan, need, begun, swept, unseen>>
  <2>1. /\ dir' \in [CacheDirs -> DirRecord] /\ disturbed' \subseteq CacheDirs
        /\ \A c \in CacheDirs : dir'[c].kind = "absent" => dir'[c] = Absent
        /\ Undisturbed'
    BY <1>1, <1>2, RemovingFile
  <2> QED
    BY <1>2, <2>1 DEF CacheInv, CacheTypeOK, PlansApart, Target
<1>3. CASE UNCHANGED <<dir, disturbed>> /\ Leave(e, "failed")
  BY <1>1, <1>3, LeavingQuietly
<1>4. CASE RemoveAll(Target(e), e) /\ Leave(e, "failed")
  <2>1. /\ run' = [run EXCEPT ![e] = NoModel] /\ spc' = [spc EXCEPT ![e] = "idle"]
        /\ part' = [part EXCEPT ![e] = 0] /\ zombies' = zombies
    BY <1>4 DEF Leave, Goto
  <2>2. \A o \in Executors : IF o = e THEN ~At(o, "download")'
                             ELSE UNCHANGED <<spc[o], run[o], part[o]>>
    BY <2>1 DEF CacheInv, CacheTypeOK, At
  <2>3. /\ dir' = [dir EXCEPT ![Target(e)] = Absent]
        /\ disturbed' = IF Downloading(Target(e), e) THEN disturbed \cup {Target(e)} ELSE disturbed \ {Target(e)}
    BY <1>4 DEF RemoveAll
  <2>4. /\ dir' \in [CacheDirs -> DirRecord] /\ disturbed' \subseteq CacheDirs
        /\ \A c \in CacheDirs : dir'[c].kind = "absent" => dir'[c] = Absent
        /\ Undisturbed'
    BY <1>1, <2>1, <2>2, <2>3, Removing
  <2>5. CacheTypeOK' /\ PlansApart'
    BY <1>1, <1>4, <2>4, LeaveTypes DEF CacheInv
  <2> QED
    BY <2>4, <2>5 DEF CacheInv
<1> QED
  BY <1>2, <1>3, <1>4 DEF _cleanup_partial

LEMMA ReturningDownload ==
    ASSUME CacheInv, NEW e \in Executors, DownloadReturns(e)
    PROVE  CacheInv'
<1> DEFINE d == Target(e)
<1>1. /\ At(e, "download") /\ spc' = [spc EXCEPT ![e] = "verify"] /\ part' = [part EXCEPT ![e] = 0]
      /\ UNCHANGED <<ended, stuck, run, zombies, plan, need, begun, swept, unseen, disturbed>>
  BY DEF DownloadReturns, Goto
<1>2. /\ d \in CacheDirs /\ d = hf_local_dir[run[e]] /\ run[e] \in CacheModels /\ run[e] # NoModel
      /\ dir[d] \in DirRecord
  BY <1>1, RunHasTarget DEF CacheInv, At, CacheTypeOK
<1>3. \/ part[e] \in {1, Shards + 1} /\ UNCHANGED dir
      \/ /\ part[e] = 1 /\ dir[d].shards = {}
         /\ dir' = [dir EXCEPT ![d] = [@ EXCEPT !.kind = "link", !.shards = AllOf(run[e])]]
  <2>1. dir[d].kind = "absent" => dir[d].shards = {}
    BY <1>2, TwoDirs DEF CacheInv
  <2>2. \A f : [Absent EXCEPT !.kind = "dir", !.fresh = f].shards = {}
    BY DEF Absent
  <2> QED
    BY <2>1, <2>2 DEF DownloadReturns
<1> HIDE DEF d
<1>4. AllOf(run[e]) \subseteq Shard
  BY <1>2 DEF AllOf, Shard
<1>5. /\ dir' \in [CacheDirs -> DirRecord]
      /\ \A c \in CacheDirs : dir'[c].kind = "absent" => dir'[c] = Absent
      /\ \A c \in CacheDirs \ {d} : dir'[c] = dir[c]
      /\ dir'[d].shards \in {dir[d].shards, AllOf(run[e])}
  <2>1. CASE UNCHANGED dir
    BY <2>1 DEF CacheInv, CacheTypeOK
  <2>2. CASE dir' = [dir EXCEPT ![d] = [@ EXCEPT !.kind = "link", !.shards = AllOf(run[e])]]
    <3>1. dir'[d] \in DirRecord /\ dir'[d].kind = "link" /\ dir'[d].shards = AllOf(run[e])
      BY <1>2, <1>4, <2>2 DEF DirRecord, CacheInv, CacheTypeOK
    <3> QED
      BY <2>2, <3>1 DEF CacheInv, CacheTypeOK
  <2> QED
    BY <1>3, <2>1, <2>2
<1>6. CacheTypeOK' /\ PlansApart'
  <2>1. plan[e] = {}
    BY <1>1 DEF CacheInv, PlansApart, At
  <2>2. CacheTypeOK'
    BY <1>1, <1>5, Sizes DEF CacheInv, CacheTypeOK
  <2>3. \A o \in Executors : /\ run[o] = NoModel <=> spc'[o] = "idle"
                             /\ spc'[o] # "evict" => plan[o] = {}
                             /\ spc'[o] = "download" => part'[o] \in 1..(Shards + 1)
    BY <1>1, <1>2, <2>1 DEF CacheInv, CacheTypeOK, PlansApart
  <2> QED
    BY <1>1, <2>2, <2>3 DEF CacheInv, PlansApart, Target
<1>7. ASSUME NEW m \in CacheModels, hf_local_dir[m] \notin disturbed
      PROVE  Settled(m)'
  <2>1. Settled(m)
    BY <1>7 DEF CacheInv, Undisturbed
  <2>2. CASE m = run[e]
    <3>1. hf_local_dir[m] = d
      BY <1>2, <2>2
    <3>2. e \in Loading(m) /\ Loading(m)' = Loading(m) \ {e}
      BY <1>1, <1>2, <2>2 DEF Loading, At, CacheInv, CacheTypeOK
    <3>3. CASE UNCHANGED dir /\ part[e] \in {1, Shards + 1}
      <4>1. Have(m) = 1..Shards \/ (Loading(m) = {e} /\ Have(m) = 1..(part[e] - 1))
        BY <2>1, <3>2 DEF Settled
      <4>2. 1..((Shards + 1) - 1) = 1..Shards /\ 1..(1 - 1) = {}
        BY Sizes
      <4>3. Have(m) = 1..Shards \/ (Have(m) = {} /\ Loading(m) = {e})
        BY <3>3, <4>1, <4>2
      <4>4. Have(m)' = Have(m)
        BY <3>3 DEF Have
      <4> QED
        BY <3>2, <4>3, <4>4 DEF Settled
    <3>4. CASE dir' = [dir EXCEPT ![d] = [@ EXCEPT !.kind = "link", !.shards = AllOf(run[e])]]
      <4>1. dir'[d].shards = AllOf(m)
        BY <1>2, <2>2, <3>4 DEF DirRecord, CacheInv, CacheTypeOK
      <4>2. Have(m)' = 1..Shards
        BY <3>1, <4>1 DEF Have, AllOf
      <4> QED
        BY <4>2 DEF Settled
    <3> QED
      BY <1>3, <3>3, <3>4
  <2>3. CASE m # run[e]
    <3>1. hf_local_dir[m] \in CacheDirs
      BY CacheAssumption
    <3>2. Have(m)' = Have(m)
      <4>1. CASE UNCHANGED dir
        BY <4>1 DEF Have
      <4>2. CASE hf_local_dir[m] # d
        BY <1>5, <3>1, <4>2 DEF Have
      <4>3. CASE hf_local_dir[m] = d /\ ~UNCHANGED dir
        <5>1. dir[d].shards = {} /\ dir'[d].shards \in {{}, AllOf(run[e])}
          BY <1>3, <1>5, <4>3
        <5>2. \A i \in 1..Shards : <<m, i>> \notin AllOf(run[e])
          BY <2>3 DEF AllOf
        <5> QED
          BY <4>3, <5>1, <5>2 DEF Have
      <4> QED
        BY <4>1, <4>2, <4>3
    <3>3. Loading(m)' = Loading(m) /\ \A o \in Executors : Loading(m) = {o} => part'[o] = part[o]
      BY <1>1, <2>3 DEF Loading, At, CacheInv, CacheTypeOK
    <3> QED
      BY <2>1, <3>2, <3>3 DEF Settled
  <2> QED
    BY <2>2, <2>3
<1> QED
  BY <1>1, <1>5, <1>6, <1>7 DEF CacheInv, Undisturbed

\* An executor that goes from one place to the next with nothing changed.
LEMMA GoingOn ==
    ASSUME CacheInv, NEW e \in Executors, run[e] # NoModel, spc[e] \in {"check", "verify"},
           Goto(e, "staged") \/ Goto(e, "cleanup"), swept' \subseteq swept,
           UNCHANGED <<dir, ended, stuck, run, part, zombies, plan, need, begun, unseen, disturbed>>
    PROVE  CacheInv'
<1>1. PICK l \in {"staged", "cleanup"} : spc' = [spc EXCEPT ![e] = l] /\ plan[e] = {}
  BY DEF Goto, CacheInv, PlansApart
<1>2. CacheTypeOK'
  BY <1>1 DEF CacheInv, CacheTypeOK
<1>3. PlansApart'
  BY <1>1 DEF CacheInv, CacheTypeOK, PlansApart, Target
<1>4. \A o \in Executors : At(o, "download")' <=> At(o, "download")
  BY <1>1 DEF At, CacheInv, CacheTypeOK
<1>5. Undisturbed'
  BY <1>4, NothingMoved DEF CacheInv, At
<1> QED
  BY <1>2, <1>3, <1>5 DEF CacheInv

LEMMA EndingStage ==
    ASSUME CacheInv, NEW e \in Executors,
           SkipOversize(e) \/ AlreadyStaged(e) \/ VerifyStaged(e) \/ EndRun(e) \/ SaveRun(e)
    PROVE  CacheInv'
<1>1. CASE SkipOversize(e)
  BY <1>1, LeavingQuietly DEF SkipOversize, At
<1>2. CASE EndRun(e)
  <2>1. PICK s \in {"ok", "failed"} : Leave(e, s)
    BY <1>2 DEF EndRun
  <2> QED
    BY <1>2, <2>1, LeavingQuietly DEF EndRun, At
<1>3. CASE AlreadyStaged(e)
  BY <1>3, GoingOn DEF AlreadyStaged, Stage, At
<1>4. CASE VerifyStaged(e)
  BY <1>4, GoingOn DEF VerifyStaged, Stage, At
<1>5. CASE SaveRun(e)
  <2>1. /\ swept' \subseteq swept
        /\ UNCHANGED <<dir, ended, stuck, run, spc, part, zombies, plan, need, begun, unseen, disturbed>>
    BY <1>5 DEF SaveRun
  <2>2. Undisturbed'
    BY <2>1, NothingMoved DEF CacheInv, At
  <2> QED
    BY <2>1, <2>2 DEF CacheInv, CacheTypeOK, PlansApart, Target
<1> QED
  BY <1>1, <1>2, <1>3, <1>4, <1>5

LEMMA KillingRun ==
    ASSUME CacheInv, NEW e \in Executors, Killed(e)
    PROVE  CacheInv'
<1>1. /\ run[e] # NoModel /\ run' = [run EXCEPT ![e] = NoModel] /\ spc' = [spc EXCEPT ![e] = "idle"]
      /\ \/ ended' = [ended EXCEPT ![run[e]] = @ \cup {"aborted"}] /\ UNCHANGED stuck
         \/ stuck' = stuck \cup {run[e]} /\ UNCHANGED ended
      /\ part' = [part EXCEPT ![e] = 0]
      /\ plan' = [plan EXCEPT ![e] = {}] /\ need' = [need EXCEPT ![e] = 0] /\ swept' = swept \ {e}
      /\ disturbed' = IF spc[e] = "download" THEN disturbed \cup {Target(e)} ELSE disturbed
      /\ UNCHANGED <<dir, zombies, begun, unseen>>
  BY DEF Killed, Goto
<1>2. /\ Target(e) \in CacheDirs /\ Target(e) = hf_local_dir[run[e]] /\ run[e] \in CacheModels
      /\ e \in Evictors
  BY <1>1, RunHasTarget DEF CacheInv, Evictors
<1>3. CacheTypeOK'
  BY <1>1, <1>2, Sizes DEF CacheInv, CacheTypeOK
<1>4. PlansApart'
  BY <1>1, RunLeaves DEF CacheInv
<1>5. ASSUME NEW m \in CacheModels, hf_local_dir[m] \notin disturbed'
      PROVE  Settled(m)'
  <2>1. Settled(m) /\ m # NoModel
    BY <1>1, <1>5, CacheAssumption DEF CacheInv, Undisturbed
  <2>2. m # run[e] \/ spc[e] # "download"
    BY <1>1, <1>2, <1>5
  <2>3. \A o \in Executors : /\ (At(o, "download") /\ run[o] = m)' <=> At(o, "download") /\ run[o] = m
                             /\ At(o, "download") /\ run[o] = m => part'[o] = part[o]
    BY <1>1, <2>1, <2>2 DEF At, CacheInv, CacheTypeOK
  <2> QED
    BY <1>1, <2>1, <2>3, StillSettled
<1> QED
  BY <1>1, <1>3, <1>4, <1>5 DEF CacheInv, Undisturbed

LEMMA PassingTime ==
    ASSUME CacheInv, _sweep_orphan_in_progress \/ \E d \in CacheDirs : GraceEnds(d)
    PROVE  CacheInv'
<1>1. UNCHANGED <<run, spc, part, zombies, plan, need, begun, unseen, disturbed>>
  BY DEF _sweep_orphan_in_progress, GraceEnds
<1>2. /\ dir' \in [CacheDirs -> DirRecord]
      /\ \A d \in CacheDirs : /\ dir'[d].shards = dir[d].shards
                              /\ dir'[d].kind = "absent" => dir'[d] = Absent
      /\ CacheTypeOK'
  <2>1. CASE _sweep_orphan_in_progress
    BY <2>1 DEF _sweep_orphan_in_progress, CacheInv, CacheTypeOK
  <2>2. CASE \E d \in CacheDirs : GraceEnds(d)
    <3>1. PICK d \in CacheDirs : dir[d].fresh /\ dir' = [dir EXCEPT ![d].fresh = FALSE] /\ UNCHANGED <<ended, stuck, swept>>
      BY <2>2 DEF GraceEnds
    <3>2. dir[d].kind # "absent" /\ dir[d] \in DirRecord
      BY <3>1, TwoDirs DEF CacheInv, CacheTypeOK
    <3>3. dir'[d] \in DirRecord /\ dir'[d].kind = dir[d].kind /\ dir'[d].shards = dir[d].shards
          /\ \A c \in CacheDirs \ {d} : dir'[c] = dir[c]
      BY <3>1, <3>2 DEF CacheInv, CacheTypeOK, DirRecord
    <3>4. dir' \in [CacheDirs -> DirRecord]
      BY <3>1, <3>3 DEF CacheInv, CacheTypeOK
    <3> QED
      BY <1>1, <3>1, <3>2, <3>3, <3>4 DEF CacheInv, CacheTypeOK
  <2> QED
    BY <2>1, <2>2
<1>3. PlansApart'
  BY <1>1 DEF CacheInv, PlansApart, Target
<1>4. Undisturbed'
  BY <1>1, <1>2, NothingMoved DEF CacheInv, At
<1> QED
  BY <1>2, <1>3, <1>4 DEF CacheInv

LEMMA CacheStep == CacheInv /\ [CacheNext]_cacheVars => CacheInv'
<1> SUFFICES ASSUME CacheInv, [CacheNext]_cacheVars PROVE CacheInv'
  OBVIOUS
<1>1. ASSUME NEW e \in Executors, StageStep(e) PROVE CacheInv'
  <2>1. CASE EvictForStaging(e)
    BY <2>1, Evicting DEF EvictForStaging, Evictors
  <2> QED
    BY <1>1, <2>1, BeginningRun, EndingStage, Enforcing, AskingForRoom, DownloadingShard, GivingUp,
       CleaningUp, ReturningDownload, KillingRun DEF StageStep
<1>2. CASE ToolEvict
  BY <1>2, CacheAssumption, Evicting DEF ToolEvict, Evictors
<1>3. CASE UNCHANGED cacheVars
  <2>1. UNCHANGED <<dir, ended, stuck, run, spc, part, zombies, plan, need, begun, swept, unseen, disturbed>>
    BY <1>3 DEF cacheVars
  <2>2. Undisturbed'
    BY <2>1, NothingMoved DEF CacheInv, At
  <2> QED
    BY <2>1, <2>2 DEF CacheInv, CacheTypeOK, PlansApart, Target
<1> QED
  BY <1>1, <1>2, <1>3, ZombieWriting, PassingTime, ToolPlanning DEF CacheNext

LEMMA CacheInvariance == CacheSpec => []CacheInv
  BY InitCache, CacheStep, PTL DEF CacheSpec

\* The weights of a run that uses them.
TakenWithReason ==
    \A e \in Executors :
        (At(e, "staged") /\ dir[Target(e)].shards \ dir'[Target(e)].shards # {})
           => \/ \E v \in Evictors : e \in unseen[v] /\ EvictNext(v)
              \/ \E o \in Executors \ {e} : At(o, "cleanup") /\ Target(o) = Target(e)

\* A file of a directory is removed by an evictor that planned to, or by the
\* cleanup of a download into it.
LEMMA WhoRemoves ==
    ASSUME CacheInv, CacheNext, NEW d \in CacheDirs, dir[d].shards \ dir'[d].shards # {}
    PROVE  \/ \E v \in Evictors : EvictNext(v) /\ \E x \in plan[v] : x.dir = d
           \/ \E o \in Executors : At(o, "cleanup") /\ Target(o) = d
<1>1. ASSUME NEW c \in CacheDirs, NEW v, RemoveFile(c) \/ RemoveAll(c, v)
      PROVE  c = d
  BY <1>1 DEF RemoveFile, RemoveAll, CacheInv, CacheTypeOK
<1>2. ASSUME NEW v \in Evictors, EvictNext(v)
      PROVE  \E x \in plan[v] : x.dir = d
  <2>1. PICK x \in plan[v] : RemoveFile(x.dir) \/ RemoveAll(x.dir, v) \/ UNCHANGED dir
    BY <1>2 DEF EvictNext
  <2>2. x.dir \in CacheDirs
    BY DEF CacheInv, CacheTypeOK
  <2> QED
    BY <1>1, <2>1, <2>2
<1>3. ASSUME NEW e \in Executors, StageStep(e), ~EvictForStaging(e)
      PROVE  At(e, "cleanup") /\ Target(e) = d
  <2>1. CASE Headroom(e)
    <3>1. Target(e) \in CacheDirs
      BY <2>1, RunHasTarget DEF Headroom, At, CacheInv
    <3>2. UNCHANGED dir \/ dir' = [dir EXCEPT ![Target(e)] = IF @.kind = "absent" THEN MadeDir ELSE @]
      BY <2>1 DEF Headroom
    <3>3. \A c \in CacheDirs : dir'[c].shards = dir[c].shards
      BY <3>1, <3>2, TwoDirs DEF CacheInv, CacheTypeOK
    <3> QED
      BY <3>3
  <2>2. CASE DownloadStep(e)
    <3>1. /\ At(e, "download") /\ part[e] \in 1..Shards
          /\ dir' = IF <<run[e], part[e]>> \in dir[Target(e)].shards THEN dir
                    ELSE Wrote(Target(e), <<run[e], part[e]>>)
      BY <2>2 DEF DownloadStep
    <3>2. Target(e) \in CacheDirs /\ <<run[e], part[e]>> \in Shard
      BY <3>1, RunHasTarget DEF At, CacheInv, Shard
    <3>3. /\ \A c \in CacheDirs \ {Target(e)} : dir'[c] = dir[c]
          /\ dir[Target(e)].shards \subseteq dir'[Target(e)].shards
      BY <3>1, <3>2, WritesItsShard DEF CacheInv
    <3> QED
      BY <3>3
  <2>3. CASE DownloadReturns(e)
    <3>1. Target(e) \in CacheDirs /\ dir[Target(e)] \in DirRecord
      BY <2>3, RunHasTarget DEF DownloadReturns, At, CacheInv, CacheTypeOK
    <3>2. \/ UNCHANGED dir
          \/ /\ dir[Target(e)].shards = {}
             /\ dir' = [dir EXCEPT ![Target(e)] = [@ EXCEPT !.kind = "link", !.shards = AllOf(run[e])]]
      BY <2>3, <3>1, TwoDirs DEF DownloadReturns, CacheInv, Absent
    <3> QED
      BY <3>1, <3>2 DEF CacheInv, CacheTypeOK
  <2>4. CASE _cleanup_partial(e)
    <3>1. At(e, "cleanup") /\ Target(e) \in CacheDirs
      BY <2>4, RunHasTarget DEF _cleanup_partial, At, CacheInv
    <3>2. RemoveFile(Target(e)) \/ RemoveAll(Target(e), e) \/ UNCHANGED dir
      BY <2>4 DEF _cleanup_partial
    <3> QED
      BY <1>1, <3>1, <3>2
  <2>5. CASE UNCHANGED dir
    BY <2>5
  <2> QED
    BY <1>3, <2>1, <2>2, <2>3, <2>4, <2>5
    DEF StageStep, BeginStaging, SaveRun, SkipOversize, AlreadyStaged, Stage, Enforce, GiveUpDownload,
        VerifyStaged, EndRun, Killed
<1>4. ASSUME NEW z \in zombies, ZombieStep(z)
      PROVE  FALSE
  <2> DEFINE c == hf_local_dir[z.model]
             s == <<z.model, z.part>>
  <2>1. CASE UNCHANGED dir
    BY <2>1
  <2>2. CASE ~UNCHANGED dir
    <3>1. dir' = (IF s \in dir[c].shards THEN dir ELSE Wrote(c, s)) /\ ~(z.part > Shards)
      BY <1>4, <2>2 DEF ZombieStep
    <3>2. c \in CacheDirs /\ s \in Shard
      BY <3>1, CacheAssumption, Sizes DEF CacheInv, CacheTypeOK, Shard
    <3> HIDE DEF c, s
    <3>3. /\ \A b \in CacheDirs \ {c} : dir'[b] = dir[b]
          /\ dir[c].shards \subseteq dir'[c].shards
      BY <3>1, <3>2, WritesItsShard DEF CacheInv
    <3> QED
      BY <3>3
  <2> QED
    BY <2>1, <2>2
<1>5. ASSUME NEW c \in CacheDirs, GraceEnds(c)
      PROVE  FALSE
  <2>1. dir' = [dir EXCEPT ![c].fresh = FALSE] /\ dir \in [CacheDirs -> DirRecord]
    BY <1>5 DEF GraceEnds, CacheInv, CacheTypeOK
  <2>2. dir'[d].shards = dir[d].shards
    BY <2>1 DEF DirRecord
  <2> QED
    BY <2>2
<1>6. CASE _sweep_orphan_in_progress \/ ToolClassify
  BY <1>6 DEF _sweep_orphan_in_progress, ToolClassify
<1>7. Tool \in Evictors /\ Executors \subseteq Evictors
  BY DEF Evictors
<1> QED
  BY <1>2, <1>3, <1>4, <1>5, <1>6, <1>7 DEF CacheNext, StageStep, EvictForStaging, ToolEvict

\* Weights in use are removed only by an evictor that did not know of the run
\* when it classified, since the run began later or a restart of the loop had
\* swept its row, or by the cleanup of a failed download into that directory.
THEOREM UsedWeightsStay == CacheSpec => InUseTakenOnlyByStalePlan
<1>1. CacheInv /\ [CacheNext]_cacheVars => [TakenWithReason]_cacheVars
  <2> SUFFICES ASSUME CacheInv, CacheNext, NEW e \in Executors,
                      At(e, "staged"), dir[Target(e)].shards \ dir'[Target(e)].shards # {}
               PROVE  \/ \E v \in Evictors : e \in unseen[v] /\ EvictNext(v)
                      \/ \E o \in Executors \ {e} : At(o, "cleanup") /\ Target(o) = Target(e)
    BY DEF TakenWithReason
  <2>1. Target(e) \in CacheDirs /\ run[e] # NoModel /\ spc[e] = "staged"
    BY RunHasTarget DEF At, CacheInv
  <2>2. CASE \E v \in Evictors : EvictNext(v) /\ \E x \in plan[v] : x.dir = Target(e)
    BY <2>1, <2>2 DEF CacheInv, PlansApart
  <2>3. CASE \E o \in Executors : At(o, "cleanup") /\ Target(o) = Target(e)
    BY <2>1, <2>3 DEF At
  <2> QED
    BY <2>1, <2>2, <2>3, WhoRemoves
<1>2. CacheSpec => [][TakenWithReason]_cacheVars
  BY CacheInvariance, <1>1, PTL DEF CacheSpec
<1> QED
  BY <1>2 DEF InUseTakenOnlyByStalePlan, TakenWithReason

\* What a run is given that leaves STAGE_MODEL.
CompleteOrExplained ==
    \A e \in Executors :
        (run[e] # NoModel /\ spc[e] # "staged" /\ spc'[e] = "staged")
           => \/ AllOf(run[e]) \subseteq dir[Target(e)].shards
              \/ Target(e) \in disturbed \/ Downloading(Target(e), e)
              \/ \E s \in dir[Target(e)].shards : s[1] # run[e]

\* A run that goes on to its deploy has all of its model's files, unless a
\* download or removal was disturbed there, another download still writes there,
\* or another model left files in it.
THEOREM StagedIsComplete == CacheSpec => StagedIsCompleteOrExplained
<1>1. CacheInv /\ [CacheNext]_cacheVars => [CompleteOrExplained]_cacheVars
  <2> SUFFICES ASSUME CacheInv, CacheNext, NEW e \in Executors,
                      run[e] # NoModel, spc[e] # "staged", spc'[e] = "staged",
                      Target(e) \notin disturbed, ~Downloading(Target(e), e), \A s \in dir[Target(e)].shards : s[1] = run[e]
               PROVE  AllOf(run[e]) \subseteq dir[Target(e)].shards
    BY DEF CompleteOrExplained
  <2>1. AlreadyStaged(e) \/ VerifyStaged(e)
    <3>1. ASSUME NEW o \in Executors, StageStep(o), o # e
          PROVE  spc'[e] = spc[e]
      BY <3>1 DEF StageStep, BeginStaging, SaveRun, SkipOversize, AlreadyStaged, Stage, Enforce, EvictForStaging,
                  EvictNext, Headroom, DownloadStep, GiveUpDownload, _cleanup_partial, DownloadReturns,
                  VerifyStaged, EndRun, Killed, Leave, Goto, CacheInv, CacheTypeOK
    <3>2. CASE StageStep(e)
      BY <3>2 DEF StageStep, BeginStaging, SaveRun, SkipOversize, AlreadyStaged, Stage, Enforce, EvictForStaging,
                  EvictNext, Headroom, DownloadStep, GiveUpDownload, _cleanup_partial, DownloadReturns,
                  VerifyStaged, EndRun, Killed, Leave, Goto, CacheInv, CacheTypeOK
    <3>3. (\E z \in zombies : ZombieStep(z)) \/ (\E d \in CacheDirs : GraceEnds(d))
             \/ _sweep_orphan_in_progress \/ ToolClassify \/ ToolEvict => spc'[e] = spc[e]
      BY DEF ZombieStep, GraceEnds, _sweep_orphan_in_progress, ToolClassify, ToolEvict, EvictNext
    <3> QED
      BY <3>1, <3>2, <3>3 DEF CacheNext
  <2>2. _has_weight_file(Target(e)) /\ spc[e] # "download"
    <3>1. Goto(e, "cleanup") => spc'[e] # "staged"
      BY DEF Goto, CacheInv, CacheTypeOK
    <3> QED
      BY <2>1, <3>1 DEF AlreadyStaged, VerifyStaged, Stage, At
  <2>3. /\ run[e] \in CacheModels /\ Target(e) \in CacheDirs /\ Target(e) = hf_local_dir[run[e]]
        /\ Settled(run[e])
    BY RunHasTarget DEF CacheInv, Undisturbed
  <2>4. PICK s \in dir[Target(e)].shards : s \in Shard /\ s[1] = run[e]
    BY <2>2, <2>3 DEF _has_weight_file, CacheInv, CacheTypeOK, DirRecord
  <2>5. s[2] \in Have(run[e])
    BY <2>3, <2>4 DEF Have, Shard
  <2>6. Loading(run[e]) = {}
    BY <2>2, <2>3 DEF Loading, Downloading, At, Target
  <2>7. Have(run[e]) = 1..Shards
    BY <2>3, <2>5, <2>6 DEF Settled
  <2> QED
    BY <2>3, <2>7 DEF Have, AllOf
<1>2. CacheSpec => [][CompleteOrExplained]_cacheVars
  BY CacheInvariance, <1>1, PTL DEF CacheSpec
<1> QED
  BY <1>2 DEF StagedIsCompleteOrExplained, CompleteOrExplained

-----------------------------------------------------------------------------
(* All of the stages: proofs *)

StagesInv ==
    /\ focus \in {"cache", "curation", "plan", "repair", "scoring"}
    /\ CacheInv /\ CurationInv /\ PlanInv /\ RepairInv /\ ScoreInv

LEMMA InitStages == Init => StagesInv
  BY InitCache, InitCuration, InitPlan, InitRepair, InitScore DEF Init, StagesInv

LEMMA StagesStep == StagesInv /\ [Next]_vars => StagesInv'
<1> SUFFICES ASSUME StagesInv, [Next]_vars PROVE StagesInv'
  OBVIOUS
<1>1. /\ focus' = focus
      /\ [CacheNext]_cacheVars /\ [CurationNext]_curationVars /\ [PlanNext]_planVars
      /\ [RepairNext]_repairVars /\ [ScoreNext]_scoreVars
  BY DEF Next, vars
<1> QED
  BY <1>1, CacheStep, CurationStep, PlanStep, RepairStep, ScoreStep DEF StagesInv

\* The variables keep their types, whichever of the stages moves.
THEOREM StagesTypeCorrect == Spec => []StagesTypeOK
<1>1. StagesInv => StagesTypeOK
  <2> SUFFICES ASSUME StagesInv PROVE StagesTypeOK
    OBVIOUS
  <2>1. CacheTypeOK /\ PlanTypeOK
    BY DEF StagesInv, CacheInv, PlanInv
  <2>2. ScoreTypeOK
    BY DEF StagesInv, ScoreInv, ScoreTypes
  <2>3. CurationTypeOK
    BY DEF StagesInv, CurationInv, CurationTypes, CurationTypeOK, Looking, Writing
  <2>4. RepairTypeOK
    BY DEF StagesInv, RepairInv, RepairTypes, RepairTypeOK, Plan
  <2> QED
    BY <2>1, <2>2, <2>3, <2>4 DEF StagesInv, StagesTypeOK
<1> QED
  BY InitStages, StagesStep, <1>1, PTL DEF Spec

=============================================================================
