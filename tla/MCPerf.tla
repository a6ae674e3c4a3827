-------------------------------- MODULE MCPerf --------------------------------
(* PERF_BENCH of one text model, with enough TTFT samples for a percentile. *)
EXTENDS Scoring

MCProfiles == {[curated |-> {"text"}, pipeline |-> "text-generation", modalities |-> {}]}

=============================================================================
