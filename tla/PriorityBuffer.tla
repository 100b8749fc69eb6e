--------------------------- MODULE PriorityBuffer ---------------------------
(***************************************************************************)
(* What the local buffer promises (README.md:1023-1032), without positions *)
(* and without a rule for which of several debug or info events goes: a    *)
(* bounded set; when it is full an offer costs one event, and that event   *)
(* is an important one only if nothing else could go.                      *)
(***************************************************************************)
EXTENDS Naturals, FiniteSets

CONSTANTS Events, Debug, Info, BufferSize

VARIABLES content, taken, lost

vars == <<content, taken, lost>>

Droppable == Debug \cup Info

Init == content = {} /\ taken = {} /\ lost = {}

Store(e) ==
    /\ Cardinality(content) < BufferSize
    /\ content' = content \cup {e}
    /\ UNCHANGED lost

GiveUp(e) ==
    /\ Cardinality(content) = BufferSize
    /\ \E d \in content \cup {e} :
          /\ d \in Droppable \/ (content \cup {e}) \cap Droppable = {}
          /\ content' = (content \cup {e}) \ {d}
          /\ lost' = lost \cup {d}

Offer(e) ==
    /\ e \notin content \cup taken \cup lost
    /\ Store(e) \/ GiveUp(e)
    /\ UNCHANGED taken

Take ==
    /\ \E S \in (SUBSET content) \ {{}} :
          /\ content' = content \ S
          /\ taken' = taken \cup S
    /\ UNCHANGED lost

Next == (\E e \in Events : Offer(e)) \/ Take

Spec == Init /\ [][Next]_vars
=============================================================================
