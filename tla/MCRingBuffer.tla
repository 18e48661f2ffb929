---------------------------- MODULE MCRingBuffer ----------------------------
(***************************************************************************)
(* Model values for the ring buffer runs.  The readers are not in a        *)
(* SYMMETRY set: the runs check temporal formulas.                         *)
(***************************************************************************)
EXTENDS RingBuffer

CONSTANTS r1, r2

TwoReaders == {r1, r2}
==============================================================================
