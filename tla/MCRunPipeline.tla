---------------------------- MODULE MCRunPipeline ----------------------------
(***************************************************************************)
(* Instances of RunPipeline for TLC.                                       *)
(***************************************************************************)
EXTENDS RunPipeline

CONSTANTS r1, r2, cli

\* A pipeline with one stage of each kind the model distinguishes.
ShortPipeline == <<"ENGINE_SELECT", "DEPLOY", "READY_WAIT", "CAPABILITY", "CLEANUP">>

=============================================================================
