------------------------- MODULE MCRequestLifecycle -------------------------
(***************************************************************************)
(* Two calls below or beside a request, each an operation, a span or a     *)
(* round trip, in every order in which they start and end, with the        *)
(* contexts of one another and with one that has ids set by hand.          *)
(***************************************************************************)
EXTENDS RequestLifecycle, TLC

\* A trace with its span and no request id: one id is given, the other made.
MCHeaders == {[request |-> None, trace |-> "in", span |-> "remote",
               path |-> <<>>, hand |-> FALSE]}

MCGiven == {"hand"}

Interchangeable == Permutations(Calls)
=============================================================================
