---------------------------- MODULE MCEventQueue ----------------------------
(***************************************************************************)
(* Five pushes into a buffer of two: enough for a full buffer of every mix *)
(* of classes, for two replacements in a row and for more important events *)
(* than fit.                                                               *)
(***************************************************************************)
EXTENDS EventQueue
=============================================================================
