--------------------------- MODULE MCTamperEvidence ---------------------------
(***************************************************************************)
(* Four events over three processes: a chain of two on each side of a      *)
(* restart, with room for a failed save and for a state file that cannot   *)
(* be read.                                                                *)
(***************************************************************************)
EXTENDS TamperEvidence, TLC

Interchangeable == Permutations(Events)
=============================================================================
