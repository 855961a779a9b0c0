-------------------------- MODULE MCReleasePipeline --------------------------
(***************************************************************************)
(* Model-checking instance of ReleasePipeline: two runs of the workflow,   *)
(* that may get one tag or two, and three states of the source, the second *)
(* of which is broken.                                                     *)
(***************************************************************************)
EXTENDS ReleasePipeline

CONSTANTS i1, i2
=============================================================================
