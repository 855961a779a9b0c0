--------------------------- MODULE MCIdpLifecycle ---------------------------
(***************************************************************************)
(* Model-checking instance of IdpLifecycle: every cloud and both APIs, and *)
(* one run of the workflow, whose push may race with that of the script.   *)
(***************************************************************************)
EXTENDS IdpLifecycle

CONSTANT i1
=============================================================================
