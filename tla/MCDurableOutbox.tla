--------------------------- MODULE MCDurableOutbox ---------------------------
(***************************************************************************)
(* Three events: a line cut short, the one glued to it and one after them, *)
(* against batches of one and of several lines.                            *)
(***************************************************************************)
EXTENDS DurableOutbox, TLC

Interchangeable == Permutations(Events)
=============================================================================
