-------------------------- MODULE MCRequestTracing --------------------------
(***************************************************************************)
(* Model-checking instance of RequestTracing.  One request may ask for     *)
(* anything, Fibonacci numbers up to 3 included, in an int of two bits,    *)
(* -2..1, which overflows at 3.  (The parameter may be larger than such an *)
(* int: it is only ever made smaller.)  The other one asks for all the     *)
(* rest, with one recursion.  The queue is full long before a computation  *)
(* ends.                                                                   *)
(***************************************************************************)
EXTENDS RequestTracing

CONSTANTS r1, r2

MCNumbers == -1..3
MCFib == [n \in MCNumbers |-> <<-1, 0, 1, 1, -2>>[n + 2]]
MCMayAsk(r) == IF r = r1 THEN Ask ELSE {a \in Ask : a.number \in {Bad, 1}}
=============================================================================
