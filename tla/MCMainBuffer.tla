---------------------------- MODULE MCMainBuffer ----------------------------
(***************************************************************************)
(* Model values and symmetry for the runs of MainBuffer.                   *)
(***************************************************************************)
EXTENDS MainBuffer, TLC

CONSTANTS c1, c2, rec, main, voip

TwoCalls == {c1, c2}
TwoThreads == {main, voip}

\* The invariants treat the calls alike and the threads alike.
Symmetry == Permutations({c1, c2}) \cup Permutations({main, voip})
==============================================================================
