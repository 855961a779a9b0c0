---------------------------- MODULE MCE2ESuites ----------------------------
(***************************************************************************)
(* Model-checking instances of E2ESuites: its sets are those of the        *)
(* repository, so the configurations only choose what people do.           *)
(***************************************************************************)
EXTENDS E2ESuites

\* scripts/run-e2e-tests.sh, once.
OnceBoth == <<Suites, {}>>

\* One suite, and the same suite again.
Twice == {<<{s}, {s}>> : s \in Suites}

Once        == {OnceBoth}
OnceOrTwice == Once \cup Twice
=============================================================================
