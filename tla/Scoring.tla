-------------------------------- MODULE Scoring --------------------------------
(***************************************************************************)
(* What is measured of a deployed model: CAPABILITY (capability.py), its   *)
(* judges (llm_judge.py), PERF_BENCH (perf_bench.py) and SHOWCASE          *)
(* (showcase_runner.py), one after the other, as execute_stage calls them. *)
(* The model under test is a set of answers: each request is answered in   *)
(* any way its endpoint can answer. Between two stages only what the later *)
(* one reads is kept (the tags, and perf threads that are still running).  *)
(***************************************************************************)
EXTENDS Naturals, Sequences, SequencesExt, FiniteSets, FiniteSetsExt

CONSTANTS
    Profiles,   \* [curated, pipeline, modalities]: curated.json's capability_tags
                \* and modalities, metadata.json's pipeline_tag
    ItemsPer,   \* well-formed items of a category's JSONL file
    Runs,       \* n_ttft_runs
    Burst,      \* n_concurrent
    NItems,     \* n_items of the showcase
    PlanIds     \* ids a planner may give; "" is an item without one

ASSUME ScoringAssumption ==
    /\ ItemsPer \in Nat /\ Runs \in Nat /\ Burst \in Nat /\ NItems \in Nat \ {0}

-----------------------------------------------------------------------------
(* The categories and which of them apply *)

Category(name, dispatcher, scorer, tag) ==
    [name |-> name, dispatcher |-> dispatcher, scorer |-> scorer, tag |-> tag]

CATEGORY_REGISTRY ==
    << Category("text_reasoning", "text_chat", "substring", "text"),
       Category("code_gen", "text_chat", "substring", "code"),
       Category("code_repair", "text_chat", "substring", "code"),
       Category("code_complete", "text_chat", "substring", "code"),
       Category("vision", "media_chat", "substring", "vision"),
       Category("ocr", "media_chat", "substring", "vision"),
       Category("asr", "asr_transcribe", "substring", "asr"),
       Category("video_understanding", "media_chat", "substring", "video"),
       Category("music_understanding", "media_chat", "substring", "audio"),
       Category("tts", "tts_speech", "output_validity", "tts"),
       Category("image_gen", "image_gen", "llm_judge", "image_gen"),
       Category("video_gen", "unwired", "llm_judge", "video_gen"),
       Category("music_gen", "unwired", "output_validity", "music_gen") >>

_registry_by_name == {c.name : c \in ToSet(CATEGORY_REGISTRY)}

\* _SINGLE_PURPOSE_PIPELINE_TAGS and ..._NO_CHAT are the same set.
SinglePurpose ==
    {"automatic-speech-recognition", "audio-classification", "text-to-speech",
     "text-to-audio", "text-to-image", "image-to-image", "inpainting",
     "text-to-video", "image-to-video", "video-to-video"}

_CHAT_BASED_CATEGORIES ==
    {c.name : c \in {d \in ToSet(CATEGORY_REGISTRY) : d.dispatcher \in {"text_chat", "media_chat"}}}

_pipeline_tag_to_capability_tags(tag) ==
    CASE tag \in {"text-generation", "summarization", "fill-mask"} -> {"text", "code"}
      [] tag \in {"image-text-to-text", "visual-question-answering"} -> {"text", "code", "vision"}
      [] tag = "image-to-text" -> {"text", "vision"}
      [] tag = "video-to-text" -> {"text", "video"}
      [] tag = "any-to-any" -> {"text", "code", "vision", "audio", "asr"}
      [] tag = "automatic-speech-recognition" -> {"asr"}
      [] tag = "audio-classification" -> {"audio"}
      [] tag = "text-to-speech" -> {"tts"}
      [] tag \in {"text-to-image", "image-to-image", "inpainting"} -> {"image_gen"}
      [] tag \in {"text-to-video", "image-to-video", "video-to-video"} -> {"video_gen"}
      [] tag = "text-to-audio" -> {"music_gen"}
      [] tag \in {"feature-extraction", "sentence-similarity"} -> {"embedding"}
      [] OTHER -> {}

_infer_tags_from_modalities(modalities) ==
    {"text", "code"} \cup (IF modalities \cap {"image", "vision"} # {} THEN {"vision"} ELSE {})
                     \cup (IF "audio" \in modalities THEN {"audio", "asr"} ELSE {})
                     \cup (modalities \cap {"video"})

\* Mutant: what the curator says is all there is.
_read_capability_tags_CuratorOnly(p) ==
    IF p.curated # {} THEN p.curated ELSE _pipeline_tag_to_capability_tags(p.pipeline)

_read_capability_tags(p) ==
    LET inferred == _pipeline_tag_to_capability_tags(p.pipeline)
    IN  CASE p.curated # {} -> p.curated \cup (IF p.pipeline \in SinglePurpose THEN inferred ELSE {})
          [] p.curated = {} /\ inferred # {} -> inferred
          [] p.curated = {} /\ inferred = {} /\ p.modalities # {} -> _infer_tags_from_modalities(p.modalities)
          [] OTHER -> {"text"}

\* Their positions in the registry, which is the order they are run in.
_select_applicable_categories(t, pipeline) ==
    {i \in DOMAIN CATEGORY_REGISTRY :
        /\ CATEGORY_REGISTRY[i].tag \in t
        /\ ~(pipeline \in SinglePurpose /\ CATEGORY_REGISTRY[i].name \in _CHAT_BASED_CATEGORIES)}

-----------------------------------------------------------------------------
(* One item: the request, the error it leaves, the score *)

\* What a dispatcher can leave in an item, [error, answer]: the engine refuses
\* or times out, answers an HTTP error or not in JSON, or answers; the text is
\* empty, wrong or right. The dispatchers that ask for bytes turn status 0
\* into "http 0"; image_gen's POST maps every error to status 0. A fixture
\* that cannot be read is an error of the item.
Outcome(error, answer) == [error |-> error, answer |-> answer]
Texts == {Outcome("", a) : a \in {"empty", "wrong", "right"}}
dispatch(dispatcher) ==
    CASE dispatcher = "text_chat" -> Texts \cup {Outcome("refused", ""), Outcome("http_NN", ""), Outcome("parse", "")}
      [] dispatcher = "media_chat" -> Texts \cup {Outcome("refused", ""), Outcome("http_NN", ""), Outcome("fixture", "")}
      [] dispatcher = "asr_transcribe" -> Texts \cup {Outcome("refused", ""), Outcome("http_NN", ""), Outcome("fixture", "")}
      [] dispatcher = "tts_speech" -> {Outcome("", "small"), Outcome("", "right"), Outcome("http_0", ""), Outcome("http_NN", "")}
      [] dispatcher = "image_gen" -> {Outcome("", "wrong"), Outcome("", "right"), Outcome("http_0", ""), Outcome("http_NN", "")}
      [] OTHER -> {Outcome("dispatcher_not_wired", "")}

\* The outcomes of an engine that does not listen.
Silent == {"refused", "http_0"}

\* Mutant: a transcript that was never made is not empty.
scorer_may_pass_ErrorsToo(scorer, o) ==
    CASE scorer = "substring" -> o.answer = "right"
      [] scorer = "non_empty_output" -> o.answer # "empty"
      [] scorer = "output_validity" -> o.error = "" /\ o.answer = "right"
      [] OTHER -> o.error = "" /\ o.answer # ""

\* The scorers on those outcomes; llm_judge asks the judge model, which may
\* fail (a False verdict) or be wrong, and whose reply, when it is not JSON at
\* the HTTP level, is an exception nobody catches.
scorer_may_pass(scorer, o) ==
    CASE scorer = "substring" -> o.answer = "right"
      [] scorer = "non_empty_output" -> o.error = "" /\ o.answer # "empty"
      [] scorer = "output_validity" -> o.error = "" /\ o.answer = "right"
      [] OTHER -> o.error = "" /\ o.answer # ""

\* The scorers of a category's items: the data files override that of the
\* registry for every item of two categories, and for some of a third.
item_scorers(c) ==
    CASE c.name \in {"asr", "music_understanding"} -> {"non_empty_output"}
      [] c.name = "video_understanding" -> {c.scorer, "non_empty_output"}
      [] OTHER -> {c.scorer}

Verdicts(scorer, o) ==
    IF scorer = "llm_judge" /\ scorer_may_pass(scorer, o) THEN BOOLEAN
    ELSE {scorer_may_pass(scorer, o)}

VARIABLES
    mpc,        \* where the three stages are
    profile,    \* the run's curated.json and metadata.json
    tags,       \* the capability tags read from them
    queue,      \* applicable categories still to be run, by position
    left,       \* items left in the category that is being run
    expired,    \* cfg.capability_timeout_s has passed
    tally,      \* [total, pass, errors]: the items, and those in error by signature
    report,     \* categories_out: name -> "na", "no_items", "run", "cut"
    aborted,    \* overall_aborted
    silent,     \* every request so far found nobody listening
    capability, \* the CAPABILITY result
    ttft,       \* TTFT samples, and the requests that gave none
    burst,      \* [flying, ok, failed] of the concurrent requests
    warned,     \* perf_bench.json warns about the burst
    perf,       \* the PERF_BENCH result
    items,      \* the showcase's items
    showcase    \* the SHOWCASE result

scoreVars == <<mpc, profile, tags, queue, left, expired, tally, report, aborted, silent,
               capability, ttft, burst, warned, perf, items, showcase>>
suiteVars == <<profile, tags, queue, left, expired, tally, report, aborted, silent, capability>>
perfVars  == <<ttft, burst, warned, perf>>
showVars  == <<items, showcase>>

Errors == {"refused", "http_NN", "http_0", "parse", "fixture", "dispatcher_not_wired"}
NoTally == [total |-> 0, pass |-> 0, errors |-> [e \in Errors |-> 0]]
NoProfile == [curated |-> {}, pipeline |-> "", modalities |-> {}]
EmptyReport == [c \in _registry_by_name |-> "missing"]
NoBurst == [flying |-> 0, ok |-> 0, failed |-> 0]

ScoreInit ==
    /\ mpc = "start" /\ profile = NoProfile /\ tags = {}
    /\ queue = {} /\ left = 0 /\ expired = FALSE
    /\ tally = NoTally /\ report = EmptyReport
    /\ aborted = FALSE /\ silent = TRUE /\ capability = "none"
    /\ ttft = [samples |-> <<>>, asked |-> 0] /\ burst = NoBurst
    /\ warned = FALSE /\ perf = "none"
    /\ items = <<>> /\ showcase = "none"

-----------------------------------------------------------------------------
(* CAPABILITY *)

\* execute_capability up to its loop; without deploy.json it ends at once.
StartSuite(p, deployed) ==
    /\ mpc = "start"
    /\ IF deployed
       THEN LET t == _read_capability_tags(p)
                q == _select_applicable_categories(t, p.pipeline)
            IN  /\ mpc' = "suite"
                /\ profile' = p /\ tags' = t /\ queue' = q
                /\ report' = [c \in _registry_by_name |->
                                IF c \in {CATEGORY_REGISTRY[i].name : i \in q} THEN "missing" ELSE "na"]
                /\ UNCHANGED capability
       ELSE /\ mpc' = "end"
            /\ capability' = "missing_artifact"
            /\ UNCHANGED <<profile, tags, queue, report>>
    /\ UNCHANGED <<left, expired, tally, aborted, silent, perfVars, showVars>>

Deadline ==
    /\ mpc \in {"suite", "category"} /\ ~expired
    /\ expired' = TRUE
    /\ UNCHANGED <<mpc, profile, tags, queue, left, tally, report, aborted, silent, capability, perfVars, showVars>>

\* The category that is next, or being run.
current == CATEGORY_REGISTRY[Min(queue)]

\* The deadline is looked at before each category; the categories left are
\* not put into categories_out.
TakeCategory(n) ==
    /\ mpc = "suite" /\ queue # {}
    /\ IF expired
       THEN aborted' = TRUE /\ queue' = {} /\ UNCHANGED <<mpc, left, report>>
       ELSE IF n = 0
       THEN /\ report' = [report EXCEPT ![current.name] = "no_items"]
            /\ queue' = queue \ {Min(queue)} /\ UNCHANGED <<mpc, left, aborted>>
       ELSE mpc' = "category" /\ left' = n /\ UNCHANGED <<queue, report, aborted>>
    /\ UNCHANGED <<profile, tags, expired, tally, silent, capability, perfVars, showVars>>

\* One turn of _run_category_items: dispatch, judge, score, record. Once the
\* loop has ended, by the deadline or for want of items, the category closes.
RunItem ==
    /\ mpc = "category" /\ left > 0 /\ ~expired
    /\ \E o \in dispatch(current.dispatcher), s \in item_scorers(current) : \E passes \in Verdicts(s, o) :
        /\ tally' = [total |-> tally.total + 1,
                     pass |-> tally.pass + (IF passes THEN 1 ELSE 0),
                     errors |-> [e \in Errors |-> tally.errors[e] + (IF e = o.error THEN 1 ELSE 0)]]
        /\ silent' = (silent /\ o.error \in Silent)
    /\ left' = left - 1
    /\ UNCHANGED <<mpc, profile, tags, queue, expired, report, aborted, capability, perfVars, showVars>>

\* What nobody catches inside an item: a chat body whose choices are no
\* objects, an audio fixture that cannot be read, a judge's HTTP reply that is
\* not JSON. It raises through the suite and the stage; no report is written.
SuiteRaises ==
    /\ mpc = "category" /\ left > 0 /\ ~expired
    /\ current.dispatcher \notin {"tts_speech", "unwired"}
    /\ mpc' = "end" /\ capability' = "raised"
    /\ queue' = {} /\ left' = 0 /\ report' = EmptyReport /\ tally' = NoTally
    /\ UNCHANGED <<profile, tags, expired, aborted, silent, perfVars, showVars>>

\* Mutant: only a category without a single item run counts as cut short.
cut_short_WholeOnly(n) == n = ItemsPer

cut_short(n) == n > 0

CloseCategory ==
    /\ mpc = "category" /\ (left = 0 \/ expired)
    /\ report' = [report EXCEPT ![current.name] = IF left > 0 THEN "cut" ELSE "run"]
    /\ aborted' = (aborted \/ cut_short(left))
    /\ queue' = queue \ {Min(queue)} /\ left' = 0 /\ mpc' = "suite"
    /\ UNCHANGED <<profile, tags, expired, tally, silent, capability, perfVars, showVars>>

MIN_ITEMS_FOR_GATE == 4

\* Mutant: more than the suite of a small modality is asked for.
endpoint_broken_LargerSuites(t) ==
    /\ t.total > MIN_ITEMS_FOR_GATE /\ t.pass = 0
    /\ \E sig \in Errors : 5 * t.errors[sig] >= 4 * t.total

\* The broken-endpoint gate. The signature of an error is its text with every
\* number of two digits or more replaced: all HTTP errors are one, "http 0"
\* and the refusal of a chat request are others.
endpoint_broken(t) ==
    /\ t.total >= MIN_ITEMS_FOR_GATE /\ t.pass = 0
    /\ \E sig \in Errors : 5 * t.errors[sig] >= 4 * t.total

FinishSuite ==
    /\ mpc = "suite" /\ queue = {}
    /\ capability' = IF endpoint_broken(tally) THEN "capability_endpoint_broken" ELSE "ok"
    /\ mpc' = "scored"
    /\ UNCHANGED <<profile, tags, queue, left, expired, tally, report, aborted, silent, perfVars, showVars>>

\* The pipeline goes on to PERF_BENCH after a stage that was ok (RunPipeline);
\* the locals of CAPABILITY are gone, the tags will be read again.
NextStage ==
    /\ mpc = "scored"
    /\ mpc' = IF capability = "ok" THEN "perf" ELSE "end"
    /\ queue' = {} /\ left' = 0 /\ expired' = FALSE /\ tally' = NoTally
    /\ report' = EmptyReport /\ aborted' = FALSE /\ silent' = TRUE /\ profile' = NoProfile
    /\ UNCHANGED <<tags, capability, perfVars, showVars>>

-----------------------------------------------------------------------------
(* PERF_BENCH *)

SkipPerf ==
    /\ mpc = "perf" /\ "text" \notin tags
    /\ perf' = "not_applicable" /\ mpc' = "plan"
    /\ UNCHANGED <<suiteVars, ttft, burst, warned, showVars>>

\* _measure_ttft: Runs requests, each a sample or a warning; then the burst is
\* started. (The single-request throughput is measured in between, alike.)
MeasureTtft(ms) ==
    /\ mpc = "perf" /\ "text" \in tags
    /\ IF ttft.asked < Runs
       THEN /\ ttft' = [samples |-> IF ms = 0 THEN ttft.samples ELSE Append(ttft.samples, ms),
                        asked |-> ttft.asked + 1]
            /\ UNCHANGED <<mpc, burst>>
       ELSE /\ ms = 0
            /\ burst' = [NoBurst EXCEPT !.flying = Burst]
            /\ mpc' = "burst" /\ UNCHANGED ttft
    /\ UNCHANGED <<suiteVars, warned, perf, showVars>>

\* A worker thread of the burst answers; it may do so long after the stage,
\* which joins each thread for timeout_s + 10 s only.
WorkerEnds(ok) ==
    /\ burst.flying > 0 /\ mpc \in {"burst", "plan", "eval", "grade"}
    /\ burst' = [flying |-> burst.flying - 1,
                 ok |-> burst.ok + (IF ok THEN 1 ELSE 0),
                 failed |-> burst.failed + (IF ok THEN 0 ELSE 1)]
    /\ UNCHANGED <<mpc, suiteVars, ttft, warned, perf, showVars>>

\* Mutant: only the requests that came back with an error are counted.
incomplete_FailuresOnly(b) == b.failed > 0

incomplete(b) == b.ok < Burst

\* The joins are over, all threads done or given up; what is in the result
\* queue is counted, VRAM is read, perf_bench.json written.
FinishPerf ==
    /\ mpc = "burst"
    /\ warned' = incomplete(burst)
    /\ perf' = "measured" /\ mpc' = "plan"
    /\ UNCHANGED <<suiteVars, ttft, burst, showVars>>

\* _summarize of the TTFT samples, in the order they were measured.
Median(s) ==
    LET n == Len(s)
        sorted == SortSeq(s, <=)
    IN  IF n % 2 = 1 THEN 2 * sorted[(n + 1) \div 2] ELSE sorted[n \div 2] + sorted[n \div 2 + 1]
_summarize(s) ==
    IF s = <<>> THEN [n |-> 0]
    ELSE [n |-> Len(s), twice_p50 |-> Median(s), p95 |-> s[(95 * (Len(s) - 1)) \div 100 + 1]]

-----------------------------------------------------------------------------
(* SHOWCASE *)

\* The planner's reply: an exception of the engine client, or items, none of
\* them when the text has no array that parses. _normalize_item drops an item
\* with no id or prompt; _dedup keeps the first of an id; one default item
\* stands for an empty plan.
_normalize_item(raw) == SelectSeq(raw, LAMBDA id: id # "")
_dedup(s) == FoldLeft(LAMBDA kept, id: IF id \in ToSet(kept) THEN kept ELSE Append(kept, id), <<>>, s)
planned(raw) ==
    LET plan == _normalize_item(raw)
        all  == _dedup(IF plan = <<>> THEN <<"fallback-explain-yourself">> ELSE plan)
    IN  SubSeq(all, 1, IF Len(all) < NItems THEN Len(all) ELSE NItems)

PlanShowcase(raw) ==
    /\ mpc = "plan"
    /\ items' = [i \in DOMAIN planned(raw) |-> [id |-> planned(raw)[i], comment |-> "pending"]]
    /\ mpc' = "eval"
    /\ UNCHANGED <<suiteVars, perfVars, showcase>>

PlanFails ==
    /\ mpc = "plan"
    /\ showcase' = "planning_failed" /\ mpc' = "end"
    /\ UNCHANGED <<suiteVars, perfVars, items>>

\* _run_eval of the next item: an answer, or a comment about its absence.
EvalItem(comment) ==
    /\ mpc = "eval"
    /\ \E i \in DOMAIN items :
        /\ items[i].comment = "pending" /\ \A j \in 1..(i - 1) : items[j].comment # "pending"
        /\ items' = [items EXCEPT ![i].comment = comment]
        /\ mpc' = IF i = Len(items) THEN "grade" ELSE "eval"
    /\ UNCHANGED <<suiteVars, perfVars, showcase>>

\* _grade_summary falls back to a text of its own when the grader fails or
\* says nothing; _first_impression may stay away. The report is written.
Grade(summary) ==
    /\ mpc = "grade"
    /\ showcase' = summary /\ mpc' = "end"
    /\ UNCHANGED <<suiteVars, perfVars, items>>

Plans == UNION {[1..n -> PlanIds] : n \in 0..(NItems + 1)}

ScoreNext ==
    \/ \E p \in Profiles : \E deployed \in BOOLEAN : StartSuite(p, deployed)
    \/ Deadline
    \/ \E n \in {0, ItemsPer} : TakeCategory(n)
    \/ RunItem
    \/ SuiteRaises
    \/ CloseCategory
    \/ FinishSuite
    \/ NextStage
    \/ SkipPerf
    \/ \E ms \in 0..2 : MeasureTtft(ms)
    \/ \E ok \in BOOLEAN : WorkerEnds(ok)
    \/ FinishPerf
    \/ \E raw \in Plans : PlanShowcase(raw)
    \/ PlanFails
    \/ \E comment \in {"", "refused", "http", "parse"} : EvalItem(comment)
    \/ \E summary \in {"graded", "fallback"} : Grade(summary)

ScoreSpec == ScoreInit /\ [][ScoreNext]_scoreVars

-----------------------------------------------------------------------------
(* Properties *)

InError(t) ==
    t.errors["refused"] + t.errors["http_NN"] + t.errors["http_0"]
        + t.errors["parse"] + t.errors["fixture"] + t.errors["dispatcher_not_wired"]

\* The report's states, the counters and the results are what the code writes.
ScoreTypeOK ==
    /\ tally.pass + InError(tally) <= tally.total
    /\ report \in [_registry_by_name -> {"missing", "na", "no_items", "run", "cut"}]
    /\ capability \in {"none", "ok", "missing_artifact", "capability_endpoint_broken", "raised"}
    /\ burst.flying + burst.ok + burst.failed \in {0, Burst}
    /\ showcase \in {"none", "planning_failed", "graded", "fallback"}

\* A category a finished report does not mention was lost to the deadline, and
\* the report says that it was cut short: a reader never takes a shortened
\* suite for a whole one.
ShortReportSaysSo ==
    mpc = "scored" =>
        ((\E c \in _registry_by_name : report[c] \in {"missing", "cut"}) <=> aborted)

\* Whatever the curator's tags say (they are merged with the pipeline's, while
\* the chat categories are skipped), a category of the purpose of a model of one
\* purpose applies to it, if with no items or too late to be run;
\* audio-classification is excepted: its only category is a chat.
SinglePurposeIsMeasured ==
    (mpc = "scored" /\ profile.pipeline \in SinglePurpose \ {"audio-classification"}) =>
        \E c \in ToSet(CATEGORY_REGISTRY) :
            /\ c.tag \in _pipeline_tag_to_capability_tags(profile.pipeline)
            /\ report[c.name] # "na"

\* When nobody listened to any of four requests or more, CAPABILITY is not ok,
\* unless the silence shows as two texts, neither of them four fifths of the
\* items: the refusal of a chat, and the "http 0" of an endpoint for bytes.
SilentEngineIsCaught ==
    (mpc = "scored" /\ silent /\ tally.total >= 4 /\ capability = "ok") =>
        \A sig \in Silent : tally.errors[sig] > 0

\* A request of the burst that is still running when PERF_BENCH has ended, and
\* then shares the engine with SHOWCASE, is announced by a warning.
StragglersAreWarned == (perf = "measured" /\ burst.flying > 0) => warned

\* The 95th percentile the panel shows next to the median is not below it.
P95AtLeastP50 ==
    (perf = "measured" /\ ttft.samples # <<>>) =>
        2 * _summarize(ttft.samples).p95 >= _summarize(ttft.samples).twice_p50

=============================================================================
