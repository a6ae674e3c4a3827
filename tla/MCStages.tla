------------------------------ MODULE MCStages ------------------------------
(* The stages between submission and report, each with whatever it shares   *)
(* with other processes, on small instances. They meet in files that one    *)
(* has finished before the next one begins (RunPipeline orders them), so a  *)
(* behaviour is one of one component, chosen by `focus`.                    *)
EXTENDS ModelCache, Curation, ModelPlan, DeployRepair, Scoring

VARIABLE focus

vars == <<focus, cacheVars, curationVars, planVars, repairVars, scoreVars>>

Init ==
    /\ focus \in {"cache", "curation", "plan", "repair", "scoring"}
    /\ CacheInit /\ CurationInit /\ PlanInit /\ RepairInit /\ ScoreInit

Next ==
    /\ UNCHANGED focus
    /\ \/ /\ focus = "cache" /\ CacheNext
          /\ UNCHANGED <<curationVars, planVars, repairVars, scoreVars>>
       \/ /\ focus = "curation" /\ CurationNext
          /\ UNCHANGED <<cacheVars, planVars, repairVars, scoreVars>>
       \/ /\ focus = "plan" /\ PlanNext
          /\ UNCHANGED <<cacheVars, curationVars, repairVars, scoreVars>>
       \/ /\ focus = "repair" /\ RepairNext
          /\ UNCHANGED <<cacheVars, curationVars, planVars, scoreVars>>
       \/ /\ focus = "scoring" /\ ScoreNext
          /\ UNCHANGED <<cacheVars, curationVars, planVars, repairVars>>

Spec == Init /\ [][Next]_vars

\* The type invariant of the component that moves; the others are as in Init.
StagesTypeOK ==
    CASE focus = "cache" -> CacheTypeOK
      [] focus = "curation" -> CurationTypeOK
      [] focus = "plan" -> PlanTypeOK
      [] focus = "repair" -> RepairTypeOK
      [] focus = "scoring" -> ScoreTypeOK

-----------------------------------------------------------------------------
(* The instance *)

\* m1 and m2, of two organisations, have one name and so one directory.
MCDirOf == [m \in CacheModels |-> IF m \in {"o1/m", "o2/m"} THEN "m" ELSE "n"]

\* Of o1/n one file counts as weights, the other lies too deep; so with o2/m.
MCWeighs == Shard \ {<<"o1/n", 1>>, <<"o2/m", 2>>}

\* Sizes, repositories.
B(n) == [n |-> n, unit |-> "b"]
T(n) == [n |-> n, unit |-> "t"]
Repository(modality, params, hub, tag, library, files, sizes, gguf) ==
    [card |-> [modality |-> modality, params |-> params], hub |-> hub, tag |-> tag,
     library |-> library, files |-> files, name |-> sizes, named_gguf |-> gguf]

\* Files of these kinds near the top of a repository, and further down.
Shallow(kinds) == {[kind |-> k, deep |-> FALSE] : k \in kinds}
Deep(kinds) == {[kind |-> k, deep |-> TRUE] : k \in kinds}

FileSets ==
    SUBSET Shallow({"config.json", "gguf-q4", "gguf-other", "onnx", "mlpackage", "tokenizer",
                    "safetensors", "ckpt", "index"})
    \cup SUBSET (Shallow({"tokenizer", "gguf-other", "safetensors", "index"})
                 \cup Deep({"config.json", "gguf-q4", "mlpackage", "safetensors"}))

\* Every set of files; every way a tag, a modality and a library name an
\* engine; every way a size is written.
MCRepos ==
    {Repository("text", <<B(7)>>, TRUE, "text-generation", library, files, <<>>, FALSE) :
        library \in {"", "gguf"}, files \in FileSets}
    \cup {Repository(modality, <<>>, hub, tag, library, Shallow({"config.json"}), <<>>, FALSE) :
        modality \in {"none", "audio"}, hub \in BOOLEAN, library \in {"", "diffusers"},
        tag \in {"text-to-image", "text-to-speech", "any-to-any", ""}}
    \cup {Repository("text", params, TRUE, "", "", Shallow({"safetensors", "tokenizer"}), sizes, gguf) :
        params \in {<<>>, <<B(32)>>, <<B(22), B(70)>>, <<T(1)>>}, gguf \in BOOLEAN,
        sizes \in {<<>>, <<B(8)>>, <<T(1)>>, <<B(3), B(30)>>}}

\* Models with a scorer, without one, of one purpose, and of none.
Profile(curated, pipeline, modalities) ==
    [curated |-> curated, pipeline |-> pipeline, modalities |-> modalities]
MCProfiles ==
    {Profile({"text", "tts"}, "", {}), Profile({"text"}, "text-to-audio", {}),
     Profile({}, "text-to-image", {}), Profile({}, "feature-extraction", {}),
     Profile({}, "", {"audio"}), Profile({"text"}, "audio-classification", {}),
     Profile({}, "", {}), Profile({"text", "video"}, "text-to-speech", {}),
     Profile({}, "text-generation", {}), Profile({"vision"}, "any-to-any", {"text"}),
     Profile({"text"}, "automatic-speech-recognition", {})}

=============================================================================
