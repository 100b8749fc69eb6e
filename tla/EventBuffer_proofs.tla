------------------------- MODULE EventBuffer_proofs -------------------------
(***************************************************************************)
(* What the operations of the buffer return, for every sequence of events: *)
(* the lemmas the proofs about the queue and the client rest on.           *)
(***************************************************************************)
EXTENDS EventBuffer, FiniteSetTheorems, WellFoundedInduction, TLAPS

\* A nonempty finite set of naturals has a least element, which First picks
\* (indexOfDroppable, queue.go:75-82, returns the first index).
LEMMA FirstIsLeast ==
    ASSUME NEW I \in SUBSET Nat, IsFiniteSet(I), I # {}
    PROVE  First(I) \in I /\ \A j \in I : First(I) <= j
<1> DEFINE UpTo(i) == {j \in I : j <= i}
           T == {UpTo(i) : i \in I}
<1>1. T \subseteq FiniteSubsetsOf(I) /\ T # {}
  <2>1. FiniteSubsetsOf(I) = SUBSET I
    BY FS_FiniteSubsetsOfFinite
  <2>2. T \subseteq SUBSET I
    OBVIOUS
  <2>3. T # {}
    <3>1. PICK i \in I : TRUE
      OBVIOUS
    <3>2. UpTo(i) \in T
      OBVIOUS
    <3> QED  BY <3>2
  <2> QED  BY <2>1, <2>2, <2>3
<1>2. IsWellFoundedOn(StrictSubsetOrdering(I), FiniteSubsetsOf(I))
  BY FS_StrictSubsetOrderingWellFounded
<1>3. \E X \in T : \A Y \in T : ~ (<<Y, X>> \in StrictSubsetOrdering(I))
  <2> HIDE DEF T
  <2> QED  BY <1>1, <1>2, WFMin
<1>4. PICK i \in I : \A k \in I :
          ~ (<<UpTo(k), UpTo(i)>> \in StrictSubsetOrdering(I))
  BY <1>3
<1>5. \A k \in I : i <= k
  <2> SUFFICES ASSUME NEW k \in I, k < i  PROVE FALSE
    OBVIOUS
  <2>1. UpTo(k) \in SUBSET I /\ UpTo(i) \in SUBSET I
    OBVIOUS
  <2>2. UpTo(k) \subseteq UpTo(i)
    <3>1. k \in Nat /\ i \in Nat
      OBVIOUS
    <3>2. \A j \in I : j \in Nat /\ (j <= k => j <= i)
      BY <3>1
    <3> QED  BY <3>2
  <2>3. i \in UpTo(i) /\ i \notin UpTo(k)
    OBVIOUS
  <2> HIDE DEF UpTo
  <2>4. <<UpTo(k), UpTo(i)>> \in StrictSubsetOrdering(I)
    BY <2>1, <2>2, <2>3 DEF StrictSubsetOrdering
  <2> QED  BY <1>4, <2>4
<1> QED  BY <1>5 DEF First

\* The event given up for an important one is in the buffer and is a debug or
\* info event; it is a debug event when there is one (queue.go:38-47).
LEMMA VictimIsDroppable ==
    ASSUME NEW q \in Seq(Events), IndexesOf(q, Debug \cup Info) # {}
    PROVE  /\ Victim(q) \in DOMAIN q
           /\ q[Victim(q)] \in Debug \cup Info
           /\ IndexesOf(q, Debug) # {} => q[Victim(q)] \in Debug
<1>1. DOMAIN q = 1..Len(q) /\ Len(q) \in Nat
  OBVIOUS
<1>2. ASSUME NEW C, IndexesOf(q, C) # {}
      PROVE  First(IndexesOf(q, C)) \in DOMAIN q /\ q[First(IndexesOf(q, C))] \in C
  <2>1. IndexesOf(q, C) \subseteq 1..Len(q)
    BY <1>1 DEF IndexesOf
  <2>2. IsFiniteSet(1..Len(q))
    BY <1>1, FS_Interval
  <2>3. IsFiniteSet(IndexesOf(q, C)) /\ IndexesOf(q, C) \in SUBSET Nat
    BY <1>1, <2>1, <2>2, FS_Subset
  <2>4. First(IndexesOf(q, C)) \in IndexesOf(q, C)
    BY <1>2, <2>3, FirstIsLeast
  <2> QED  BY <2>4 DEF IndexesOf
<1>3. IndexesOf(q, Debug) # {} \/ IndexesOf(q, Info) # {}
  BY DEF IndexesOf
<1>4. CASE IndexesOf(q, Debug) # {}
  BY <1>2, <1>4 DEF Victim
<1>5. CASE IndexesOf(q, Debug) = {}
  BY <1>2, <1>3, <1>5 DEF Victim
<1> QED  BY <1>4, <1>5

\* push with room: one event more, at the end (queue.go:28-31).
LEMMA AppendStores ==
    ASSUME NEW q \in Seq(Events), NEW e \in Events, HasRoom(q)
    PROVE  /\ AppendBack(q, e) \in Seq(Events)
           /\ Len(AppendBack(q, e)) = Len(q) + 1
           /\ Len(AppendBack(q, e)) <= BufferSize
           /\ Content(AppendBack(q, e)) = Content(q) \cup {e}
<1>1. /\ Append(q, e) \in Seq(Events)
      /\ Len(Append(q, e)) = Len(q) + 1
      /\ Append(q, e)[Len(q) + 1] = e
      /\ \A i \in DOMAIN q : Append(q, e)[i] = q[i]
  OBVIOUS
<1>2. DOMAIN Append(q, e) = DOMAIN q \cup {Len(q) + 1}
  OBVIOUS
<1>3. Content(Append(q, e)) = Content(q) \cup {e}
  BY <1>1, <1>2 DEF Content
<1>4. Len(q) + 1 <= BufferSize
  BY BufferAssumption DEF HasRoom
<1> QED  BY <1>1, <1>3, <1>4 DEF AppendBack

\* push into a full buffer in the place of another event: the length stays,
\* the new event is in, and no third event comes in (queue.go:38-47).
LEMMA ReplaceStores ==
    ASSUME NEW q \in Seq(Events), NEW e \in Events, CanReplace(q, e)
    PROVE  /\ Replaced(q, e) \in Seq(Events)
           /\ Len(Replaced(q, e)) = Len(q)
           /\ Content(Replaced(q, e)) \subseteq Content(q) \cup {e}
           /\ q[Victim(q)] \in Content(q)
<1>1. Victim(q) \in DOMAIN q
  BY VictimIsDroppable DEF CanReplace
<1> HIDE DEF Victim
<1> QED  BY <1>1 DEF Replaced, Content

\* drain takes at least one event of a buffer that holds one, and splits the
\* buffer: nothing is dropped and nothing comes in (queue.go:56-66).
LEMMA DrainSplits ==
    ASSUME NEW q \in Seq(Events), NEW max \in Nat, q # <<>>
    PROVE  /\ Drained(q, max) \in Seq(Events)
           /\ Remainder(q, max) \in Seq(Events)
           /\ Len(Remainder(q, max)) < Len(q)
           /\ Content(q) = Content(Drained(q, max)) \cup Content(Remainder(q, max))
<1> DEFINE n == DrainCount(q, max)
<1>1. n \in 1..Len(q)
  BY DEF DrainCount
<1>2. /\ Drained(q, max) = SubSeq(q, 1, n)
      /\ Remainder(q, max) = SubSeq(q, n + 1, Len(q))
  BY DEF Drained, Remainder
<1> HIDE DEF n
<1>3. /\ SubSeq(q, 1, n) \in Seq(Events)
      /\ Len(SubSeq(q, 1, n)) = n
      /\ \A i \in 1..n : SubSeq(q, 1, n)[i] = q[i]
  BY <1>1
<1>4. /\ SubSeq(q, n + 1, Len(q)) \in Seq(Events)
      /\ Len(SubSeq(q, n + 1, Len(q))) = Len(q) - n
      /\ \A i \in 1..(Len(q) - n) : SubSeq(q, n + 1, Len(q))[i] = q[n + i]
  BY <1>1
<1>5. Content(q) = Content(SubSeq(q, 1, n)) \cup Content(SubSeq(q, n + 1, Len(q)))
  <2>1. ASSUME NEW i \in DOMAIN q
        PROVE  q[i] \in Content(SubSeq(q, 1, n)) \cup Content(SubSeq(q, n + 1, Len(q)))
    <3>1. CASE i <= n
      BY <1>1, <1>3, <3>1 DEF Content
    <3>2. CASE i > n
      <4>1. i - n \in 1..(Len(q) - n) /\ n + (i - n) = i
        BY <1>1, <3>2
      <4>2. SubSeq(q, n + 1, Len(q))[i - n] = q[i]
        BY <1>4, <4>1
      <4> QED  BY <1>4, <4>1, <4>2 DEF Content
    <3> QED  BY <1>1, <3>1, <3>2
  <2>2. Content(SubSeq(q, 1, n)) \subseteq Content(q)
    BY <1>1, <1>3 DEF Content
  <2>3. Content(SubSeq(q, n + 1, Len(q))) \subseteq Content(q)
    BY <1>1, <1>4 DEF Content
  <2> QED  BY <2>1, <2>2, <2>3 DEF Content
<1> QED  BY <1>1, <1>2, <1>3, <1>4, <1>5

\* The batch drain copies out and what it leaves make up the buffer.
LEMMA DrainJoins ==
    ASSUME NEW q \in Seq(Events), NEW max \in Nat, q # <<>>
    PROVE  /\ Drained(q, max) \o Remainder(q, max) = q
           /\ Drained(q, max) \in Seq(Events) /\ Remainder(q, max) \in Seq(Events)
           /\ Len(q) = Len(Drained(q, max)) + Len(Remainder(q, max))
<1> DEFINE n == DrainCount(q, max)
<1>1. n \in 1..Len(q)
  BY DEF DrainCount
<1> HIDE DEF n
<1>2. SubSeq(q, 1, n) \o SubSeq(q, n + 1, Len(q)) = q
  BY <1>1
<1>3. /\ SubSeq(q, 1, n) \in Seq(Events) /\ SubSeq(q, n + 1, Len(q)) \in Seq(Events)
      /\ Len(SubSeq(q, 1, n)) = n /\ Len(SubSeq(q, n + 1, Len(q))) = Len(q) - n
  BY <1>1
<1>4. Len(q) = Len(SubSeq(q, 1, n)) + Len(SubSeq(q, n + 1, Len(q)))
  BY <1>1, <1>3
<1> QED  BY <1>2, <1>3, <1>4 DEF n, Drained, Remainder

\* No event stands at two places of a sequence.
Distinct(s) == \A i, j \in DOMAIN s : s[i] = s[j] => i = j

\* A sequence without repetitions holds as many events as it is long.
LEMMA DistinctCardinality ==
    ASSUME NEW q \in Seq(Events), Distinct(q)
    PROVE  Cardinality(Content(q)) = Len(q)
<1>1. q \in Bijection(1..Len(q), Content(q))
  BY DEF Distinct, Content, Bijection, Injection, Surjection, IsInjective
<1>2. ExistsBijection(1..Len(q), Content(q))
  BY <1>1 DEF ExistsBijection
<1>3. Len(q) \in Nat
  OBVIOUS
<1>4. IsFiniteSet(1..Len(q)) /\ Cardinality(1..Len(q)) = Len(q)
  BY <1>3, FS_Interval
<1> QED  BY <1>2, <1>4, FS_Bijection

LEMMA AppendCounts ==
    ASSUME NEW s \in Seq(Events), NEW e \in Events
    PROVE  /\ Content(Append(s, e)) = Content(s) \cup {e}
           /\ Distinct(s) /\ e \notin Content(s) => Distinct(Append(s, e))
<1>1. /\ DOMAIN Append(s, e) = DOMAIN s \cup {Len(s) + 1}
      /\ Append(s, e)[Len(s) + 1] = e
      /\ \A i \in DOMAIN s : Append(s, e)[i] = s[i]
  OBVIOUS
<1> QED  BY <1>1 DEF Content, Distinct

LEMMA PutCounts ==
    ASSUME NEW s \in Seq(Events), NEW e \in Events, NEW k \in DOMAIN s,
           Distinct(s), e \notin Content(s)
    PROVE  /\ Content([s EXCEPT ![k] = e]) = (Content(s) \ {s[k]}) \cup {e}
           /\ Distinct([s EXCEPT ![k] = e])
<1> DEFINE t == [s EXCEPT ![k] = e]
<1>1. /\ DOMAIN t = DOMAIN s
      /\ t[k] = e
      /\ \A i \in DOMAIN s : i # k => t[i] = s[i]
  OBVIOUS
<1> HIDE DEF t
<1>2. Content(t) = (Content(s) \ {s[k]}) \cup {e}
  BY <1>1 DEF Content, Distinct
<1>3. Distinct(t)
  BY <1>1 DEF Content, Distinct
<1> QED  BY <1>2, <1>3 DEF t

\* A concatenation holds what its parts hold.
LEMMA ConcatCounts ==
    ASSUME NEW s \in Seq(Events), NEW q \in Seq(Events)
    PROVE  /\ Content(s \o q) = Content(s) \cup Content(q)
           /\ Distinct(s \o q) => /\ Distinct(s) /\ Distinct(q)
                                 /\ Content(s) \cap Content(q) = {}
<1> DEFINE w == s \o q
<1>1. /\ DOMAIN s = 1..Len(s) /\ DOMAIN q = 1..Len(q)
      /\ Len(s) \in Nat /\ Len(q) \in Nat
      /\ DOMAIN w = 1..(Len(s) + Len(q))
      /\ \A i \in 1..Len(s) : w[i] = s[i]
      /\ \A i \in 1..Len(q) : w[Len(s) + i] = q[i]
  OBVIOUS
<1> HIDE DEF w
<1>2. \A i \in DOMAIN w : i \in DOMAIN s \/ i - Len(s) \in DOMAIN q
  BY <1>1
<1>3. /\ \A i \in DOMAIN s : i \in DOMAIN w
      /\ \A i \in DOMAIN q : Len(s) + i \in DOMAIN w
  BY <1>1
<1>4. Content(w) \subseteq Content(s) \cup Content(q)
  <2>1. ASSUME NEW i \in DOMAIN w  PROVE w[i] \in Content(s) \cup Content(q)
    <3>1. CASE i \in DOMAIN s
      BY <1>1, <3>1 DEF Content
    <3>2. CASE i - Len(s) \in DOMAIN q
      <4>1. i = Len(s) + (i - Len(s))
        BY <1>1
      <4>2. w[i] = q[i - Len(s)]
        BY <1>1, <3>2, <4>1
      <4> QED  BY <3>2, <4>2 DEF Content
    <3> QED  BY <1>2, <3>1, <3>2
  <2> QED  BY <2>1 DEF Content
<1>5. Content(s) \subseteq Content(w) /\ Content(q) \subseteq Content(w)
  BY <1>1, <1>3 DEF Content
<1>6. ASSUME Distinct(w)
      PROVE  Distinct(s) /\ Distinct(q) /\ Content(s) \cap Content(q) = {}
  <2>1. ASSUME NEW i \in DOMAIN q, NEW j \in DOMAIN q, q[i] = q[j]  PROVE i = j
    BY <1>1, <1>3, <1>6, <2>1 DEF Distinct
  <2>2. ASSUME NEW i \in DOMAIN s, NEW j \in DOMAIN q  PROVE s[i] # q[j]
    BY <1>1, <1>3, <1>6 DEF Distinct
  <2>3. ASSUME NEW i \in DOMAIN s, NEW j \in DOMAIN s, s[i] = s[j]  PROVE i = j
    BY <1>1, <1>3, <1>6, <2>3 DEF Distinct
  <2> QED  BY <2>1, <2>2, <2>3 DEF Distinct, Content
<1> QED  BY <1>4, <1>5, <1>6 DEF w
=============================================================================
