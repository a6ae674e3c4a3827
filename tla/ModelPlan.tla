------------------------------ MODULE ModelPlan ------------------------------
(***************************************************************************)
(* From a card to a plan: METADATA merges the card (module Curation) with  *)
(* the hub's record, ENGINE_SELECT picks the engine and the tensor         *)
(* parallelism (stages.py), and the stager derives from the same record    *)
(* what it will download and how much room that takes (model_stager.py).   *)
(***************************************************************************)
EXTENDS Naturals, Sequences, SequencesExt, FiniteSetsExt

CONSTANTS
    Repos,        \* hub repositories: [card, hub, tag, library, files, name, named_gguf]
    NoRepo,       \* "not chosen yet"
    PoolSize      \* len(cfg.eval_gpus)

\* A size as it stands in a text: n billions ("b") or thousands of billions ("t").
Size == [n : Nat \ {0}, unit : {"b", "t"}]

ASSUME PlanAssumption ==
    /\ NoRepo \notin Repos /\ PoolSize \in Nat
    /\ \A r \in Repos : r.card.params \in Seq(Size) /\ r.name \in Seq(Size)

VARIABLES
    repo,      \* the repository planned
    ppc,       \* the stage that is next: "start", "metadata", "select", "planned"
    metadata,  \* _meta/metadata.json
    engine     \* _meta/engine.json

planVars == <<repo, ppc, metadata, engine>>

NoPlan == [engine |-> "none", tp |-> 1, skip |-> "none"]

PlanInit ==
    /\ repo = NoRepo
    /\ ppc = "start"
    /\ metadata = NoRepo
    /\ engine = NoPlan

\* The run of a model reaches METADATA; what its repository holds is any of Repos.
ChooseRepo ==
    /\ ppc = "start"
    /\ \E r \in Repos : repo' = r
    /\ ppc' = "metadata"
    /\ UNCHANGED <<metadata, engine>>

-----------------------------------------------------------------------------
(* METADATA *)

_pipeline_to_modalities(tag) ==
    CASE tag \in {"text-generation", "translation"} -> "text"
      [] tag \in {"text-to-image"} -> "image"
      [] tag \in {"text-to-video"} -> "video"
      [] tag \in {"automatic-speech-recognition", "text-to-speech"} -> "audio"
      [] tag \in {"image-text-to-text", "any-to-any"} -> "text"
      [] OTHER -> "unknown"

\* A degraded card has no modalities and no parameter count; an unreachable
\* hub gives no tag, library or files.
Merged(c) ==
    LET good == c = "good"
        tag == IF repo.hub THEN repo.tag ELSE ""
    IN [modality |-> IF good /\ repo.card.modality # "none" THEN repo.card.modality
                     ELSE _pipeline_to_modalities(tag),
        tag |-> tag,
        library |-> IF repo.hub THEN repo.library ELSE "",
        siblings |-> IF repo.hub THEN repo.files ELSE {},
        param_count |-> IF good THEN repo.card.params ELSE <<>>]

WriteMetadata ==
    /\ ppc = "metadata"
    /\ \E c \in {"good", "degraded"} : metadata' = Merged(c)
    /\ ppc' = "select"
    /\ UNCHANGED <<repo, engine>>

-----------------------------------------------------------------------------
(* ENGINE_SELECT *)

\* A file of a repository: its kind, and whether it lies below the third level
\* of directories. "safetensors" stands for .bin, .pt and .pth as well, "ckpt"
\* for .msgpack, "index" for the two lists of shards.
Kinds(files) == {f.kind : f \in files}

Manifests == {"config.json", "model_index.json"}
Weights == {"safetensors", "ckpt"}

\* The gate looks at names, wherever they lie.
_is_runnable_model_repo(files) ==
    \/ files = {}
    \/ Kinds(files) \cap (Manifests \cup {"gguf-q4", "gguf-other", "mlpackage", "onnx"}) # {}
    \/ "tokenizer" \in Kinds(files) /\ Kinds(files) \cap Weights # {}

Audio == {"automatic-speech-recognition", "text-to-speech"}
Diffusion == {"text-to-image", "text-to-video"}

\* Audio and diffusion tags first, then the modality, then the library.
_pick_engine(modality, tag, library) ==
    LET text == \/ modality \in {"text", "code"}
                \/ tag \in {"text-generation", "image-text-to-text", "any-to-any"}
    IN  IF \/ tag \in Audio \cup Diffusion
           \/ ~text /\ (library = "diffusers" \/ modality = "audio")
        THEN "transformers" ELSE "vllm"

\* Of the sizes in a text the largest one counts.
Billions(x) == IF x.unit = "t" THEN 1000 * x.n ELSE x.n

Largest(sizes) == IF sizes = <<>> THEN 0 ELSE Max({Billions(x) : x \in ToSet(sizes)})

_extract_b(md) == IF md.param_count # <<>> THEN Largest(md.param_count) ELSE Largest(repo.name)

TpFor(b) == IF b >= 65 THEN 4 ELSE IF b >= 28 THEN 2 ELSE 1

_vllm_args_hint(md) == TpFor(_extract_b(md))

\* Mutant: every model is tried.
oversize_Never(tp) == FALSE

\* The pool cannot hold so many shards.
oversize(tp) == tp > PoolSize

SelectEngine ==
    /\ ppc = "select"
    /\ LET tp == _vllm_args_hint(metadata)
           runnable == _is_runnable_model_repo(metadata.siblings)
           chosen == _pick_engine(metadata.modality, metadata.tag, metadata.library)
       IN engine' = IF ~runnable
                    THEN [engine |-> "metadata_only", tp |-> 1, skip |-> "not_a_model"]
                    ELSE IF oversize(tp)
                    THEN [engine |-> "metadata_only", tp |-> tp, skip |-> "oversize"]
                    ELSE [engine |-> chosen, tp |-> tp, skip |-> "none"]
    /\ ppc' = "planned"
    /\ UNCHANGED <<repo, metadata>>

-----------------------------------------------------------------------------
(* What the stager will make of the plan *)

\* The size is the first "<n>B" of the parameter count, or else of the hf_id,
\* at two bytes a parameter; metadata.json lists file names only, so neither
\* the hub's byte counts nor a GGUF majority is ever seen.
FirstB(sizes) == SelectInSeq(sizes, LAMBDA x : x.unit = "b")

_estimate_size_bytes(md) ==
    IF FirstB(md.param_count) # 0 THEN 2 * md.param_count[FirstB(md.param_count)].n
    ELSE IF FirstB(repo.name) # 0 THEN 2 * repo.name[FirstB(repo.name)].n ELSE 0

_looks_like_gguf_repo(md) == repo.named_gguf \/ md.library = "gguf"

\* The files a download with the computed patterns brings.
_compute_allow_patterns(md) ==
    IF _looks_like_gguf_repo(md)
    THEN {f \in repo.files : f.kind \in Manifests \cup {"index", "gguf-q4", "tokenizer"}}
    ELSE repo.files

\* Mutant: without the weights that are directories.
Weight_FilesOnly(f) == ~f.deep /\ f.kind \in {"safetensors", "gguf-q4", "gguf-other", "onnx", "index"}

\* What _has_weight_file counts: it knows neither .ckpt nor .msgpack, takes a
\* list of shards at the top for weights, and looks three levels deep.
Weight(f) == ~f.deep /\ f.kind \in {"safetensors", "gguf-q4", "gguf-other", "onnx", "mlpackage", "index"}

WillStage == \E f \in _compute_allow_patterns(metadata) : Weight(f)

PlanNext == ChooseRepo \/ WriteMetadata \/ SelectEngine

PlanSpec == PlanInit /\ [][PlanNext]_planVars

-----------------------------------------------------------------------------
(* Properties *)

Planned == ppc = "planned" /\ engine.skip = "none"

\* The variables keep their types.
PlanTypeOK ==
    /\ repo \in Repos \cup {NoRepo}
    /\ ppc \in {"start", "metadata", "select", "planned"}
    /\ engine \in [engine : {"none", "vllm", "transformers", "metadata_only"},
                   tp : {1, 2, 4}, skip : {"none", "not_a_model", "oversize"}]

\* Two readings of one size agree where it matters: whatever leaves
\* ENGINE_SELECT with more than one GPU, because its parameters were counted,
\* has a size for the stager's headroom gate; a size the stager cannot read
\* ("1T") is oversize for the pool.
LargeModelsAreGated ==
    (Planned /\ engine.tp > 1) => _estimate_size_bytes(metadata) > 0

\* ENGINE_SELECT's test of a repository and the stager's test of a download
\* agree on every repository whose files are known, but for four kinds: a
\* manifest, whatever is beside it; .ckpt weights with a tokenizer; weights
\* below the third level of directories; and a GGUF repository without the
\* one quantisation that is fetched.
GateAgreesWithStager ==
    LET files == metadata.siblings
    IN (Planned /\ files # {}) =>
        \/ WillStage
        \/ Kinds(files) \cap Manifests # {}
        \/ {"ckpt", "tokenizer"} \subseteq Kinds(files)
        \/ \E f \in files : f.deep
        \/ _looks_like_gguf_repo(metadata) /\ "gguf-q4" \notin Kinds(files)

=============================================================================
