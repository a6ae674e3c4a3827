------------------------------- MODULE Curation -------------------------------
(***************************************************************************)
(* The card of a model: CURATE asks a language model for it (stages.py,    *)
(* curator/, heyi_engine/client.py) and caches it for ever.  Curators      *)
(* write one cache file: the CURATE stage and `curator batch` only when it *)
(* is absent, `curator enrich` and batch --refresh always.  Nothing is     *)
(* locked, and all write through one temporary file.  What is then made of *)
(* the card is module ModelPlan.                                           *)
(***************************************************************************)
EXTENDS Naturals

CONSTANTS
    Stages,       \* pipelines in their CURATE stage, of one model
    Batches,      \* `curator batch`
    Refreshers,   \* `curator enrich` and `curator batch --refresh`
    MaxCards      \* bound: cards looked for

Curators == Stages \cup Batches \cup Refreshers

ASSUME CurationAssumption ==
    /\ Stages \cap (Batches \cup Refreshers) = {} /\ Batches \cap Refreshers = {}
    /\ MaxCards \in Nat

VARIABLES
    card,      \* curated/<hf_id>.json: "none", "good", "degraded", "empty" or "mixed"
    tmp,       \* curated/<hf_id>.json.tmp, the same
    handle,    \* handle[k]: the file k has open: "none", "tmp", "card" or "unlinked"
    kpc,       \* kpc[k]: where curator k is
    draft,     \* draft[k]: the card k uses or is about to write
    engine_up, \* the engine lists its models / knows the one it is asked for
    asked,     \* cards looked for
    overtaken, \* overtaken[k]: another wrote a good card since k looked (history)
    together   \* two curators have written at the same time (history)

curationVars == <<card, tmp, handle, kpc, draft, engine_up, asked, overtaken, together>>
cards == <<card, tmp, handle>>

CurationInit ==
    /\ card = "none" /\ tmp = "none"
    /\ handle = [k \in Curators |-> "none"]
    /\ kpc = [k \in Curators |-> "idle"]
    /\ draft = [k \in Curators |-> "none"]
    /\ engine_up = [lists |-> FALSE, knows |-> FALSE]
    /\ asked = 0
    /\ overtaken = [k \in Curators |-> FALSE]
    /\ together = FALSE

-----------------------------------------------------------------------------
(* CURATE, curator enrich and curator batch *)

\* Mutant: the cache is not looked at.
MustAsk_Always(k) == TRUE

\* The batch skips a file that exists, the stage a file that it can read.
MustAsk(k) ==
    \/ k \in Refreshers
    \/ card = "none"
    \/ k \in Stages /\ card \in {"empty", "mixed"}

\* The stage probes a local engine before it asks; a cloud provider, or a cache
\* file it cannot read, sends it to the hub at once.
AfterLook(k) == IF k \in Stages /\ card = "none" THEN {"probe", "fetch"} ELSE {"fetch"}

Look(k) ==
    /\ kpc[k] = "idle"
    /\ asked < MaxCards
    /\ asked' = asked + 1
    /\ overtaken' = [overtaken EXCEPT ![k] = FALSE]
    /\ \/ /\ MustAsk(k)
          /\ \E next \in AfterLook(k) : kpc' = [kpc EXCEPT ![k] = next]
          /\ draft' = [draft EXCEPT ![k] = IF k \in Stages /\ card # "none" THEN "kept" ELSE "none"]
       \/ /\ ~MustAsk(k)
          /\ kpc' = [kpc EXCEPT ![k] = IF k \in Stages THEN "done" ELSE "idle"]
          /\ draft' = [draft EXCEPT ![k] = IF k \in Stages THEN card ELSE "none"]
    /\ UNCHANGED <<cards, engine_up, together>>

\* A card is made. The stage that found an unreadable file ("kept") uses its
\* card, and leaves the file as it is.
Drafted(k, c) ==
    /\ draft' = [draft EXCEPT ![k] = c]
    /\ kpc' = [kpc EXCEPT ![k] = IF draft[k] = "kept" THEN "done" ELSE "open"]

\* The pre-flight probe: a dead engine costs the card.
probe_engine(k) ==
    /\ kpc[k] = "probe"
    /\ IF ~engine_up.lists THEN Drafted(k, "degraded")
       ELSE kpc' = [kpc EXCEPT ![k] = "fetch"] /\ UNCHANGED draft
    /\ UNCHANGED <<cards, engine_up, asked, overtaken, together>>

fetch_modelcard(k) ==
    /\ kpc[k] = "fetch"
    /\ \/ Drafted(k, "degraded")
       \/ kpc' = [kpc EXCEPT ![k] = "call"] /\ UNCHANGED draft
    /\ UNCHANGED <<cards, engine_up, asked, overtaken, together>>

\* call: the model is asked for by its configured name. An HTTP error, no
\* connection, no JSON around the answer or none in it degrade the card alike.
call(k) ==
    /\ kpc[k] = "call"
    /\ \E c \in IF engine_up.knows THEN {"good", "degraded"} ELSE {"degraded"} : Drafted(k, c)
    /\ UNCHANGED <<cards, engine_up, asked, overtaken, together>>

\* Mutant: write_curated writes the file itself.
written_file_Direct == "card"

written_file == "tmp"

Empties(file) == IF file = "tmp" THEN tmp' = "empty" /\ UNCHANGED card
                                 ELSE card' = "empty" /\ UNCHANGED tmp

\* write_text opens: the file of another writer is emptied under its hands.
OpenTmp(k) ==
    /\ kpc[k] = "open"
    /\ Empties(written_file)
    /\ handle' = [handle EXCEPT ![k] = written_file]
    /\ kpc' = [kpc EXCEPT ![k] = "write"]
    /\ together' = (together \/ \E j \in Curators \ {k} : kpc[j] \in {"write", "replace"})
    /\ UNCHANGED <<draft, engine_up, asked, overtaken>>

\* What k's text becomes on top of what is there.
Over(k, content) == IF content = "empty" THEN {draft[k]} ELSE {draft[k], "mixed"}

\* ... writes, wherever the file is by now.
WriteTmp(k) ==
    /\ kpc[k] = "write"
    /\ CASE handle[k] = "tmp" -> tmp' \in Over(k, tmp) /\ UNCHANGED card
         [] handle[k] = "card" -> card' \in Over(k, card) /\ UNCHANGED tmp
         [] OTHER -> UNCHANGED <<card, tmp>>
    /\ handle' = [handle EXCEPT ![k] = "none"]
    /\ kpc' = [kpc EXCEPT ![k] = "replace"]
    /\ UNCHANGED <<draft, engine_up, asked, overtaken, together>>

Written(k) == kpc' = [kpc EXCEPT ![k] = IF k \in Stages THEN "done" ELSE "idle"]

\* The rename; when another's rename was first there is nothing to rename, an
\* error that the stage and the batch go on after. A failure of another kind
\* is the stage's to swallow too.
Replace(k) ==
    /\ kpc[k] = "replace"
    /\ Written(k)
    /\ \/ /\ tmp # "none"
          /\ card' = tmp /\ tmp' = "none"
          /\ handle' = [j \in Curators |-> CASE handle[j] = "tmp" -> "card"
                                             [] handle[j] = "card" -> "unlinked"
                                             [] OTHER -> handle[j]]
          /\ overtaken' = [j \in Curators |-> overtaken[j] \/ (j # k /\ tmp = "good")]
       \/ UNCHANGED <<cards, overtaken>>
    /\ UNCHANGED <<draft, engine_up, asked, together>>

\* The stage copies the card into its run.
CardUsed(k) ==
    /\ kpc[k] = "done"
    /\ kpc' = [kpc EXCEPT ![k] = "idle"]
    /\ draft' = [draft EXCEPT ![k] = "none"]
    /\ UNCHANGED <<cards, engine_up, asked, overtaken, together>>

\* A curator's process is killed; what it has written stays.
CuratorDies(k) ==
    /\ kpc[k] # "idle"
    /\ kpc' = [kpc EXCEPT ![k] = "idle"]
    /\ handle' = [handle EXCEPT ![k] = "none"]
    /\ draft' = [draft EXCEPT ![k] = "none"]
    /\ UNCHANGED <<card, tmp, engine_up, asked, overtaken, together>>

\* The engine is down, serves, or serves another model than the configured one.
EngineChanges ==
    /\ \E lists, knows \in BOOLEAN : (knows => lists) /\ engine_up' = [lists |-> lists, knows |-> knows]
    /\ engine_up' # engine_up
    /\ UNCHANGED <<cards, kpc, draft, asked, overtaken, together>>

CurationNext ==
    \/ EngineChanges
    \/ \E k \in Curators :
          \/ Look(k)
          \/ probe_engine(k)
          \/ fetch_modelcard(k)
          \/ call(k)
          \/ OpenTmp(k)
          \/ WriteTmp(k)
          \/ Replace(k)
          \/ CardUsed(k)
          \/ CuratorDies(k)

CurationSpec == CurationInit /\ [][CurationNext]_curationVars

-----------------------------------------------------------------------------
(* Properties *)

Contents == {"none", "good", "degraded", "empty", "mixed"}

\* The variables keep their types.
CurationTypeOK ==
    /\ card \in Contents /\ tmp \in Contents
    /\ handle \in [Curators -> {"none", "tmp", "card", "unlinked"}]
    /\ kpc \in [Curators -> {"idle", "probe", "fetch", "call", "open", "write", "replace", "done"}]
    /\ draft \in [Curators -> Contents \cup {"kept"}]
    /\ asked \in 0..MaxCards

\* A cached card that cannot be read, which no stage ever mends and the batch
\* takes for curated, comes only from two curators that wrote at the same time
\* through the one temporary file; never from one that was killed.
TornOnlyByTwoWriters == card \in {"empty", "mixed"} => together

\* A good card in the cache, which every later run of the model reuses, is
\* lost only to a curator that was told to refresh it, that had looked before
\* the good card was written and asked a failing engine meanwhile, or that wrote
\* at the same time as another.
GoodCardLostOnlyByRaceOrRefresh ==
    [][(card = "good" /\ card' # "good")
          => \/ together
             \/ \E k \in Curators : /\ kpc[k] = "replace" /\ kpc'[k] # "replace"
                                    /\ k \in Refreshers \/ overtaken[k]]_curationVars

=============================================================================
