------------------------ MODULE PreparedEvents_proofs ------------------------
(***************************************************************************)
(* What is kept of what the application passes in: an event, through       *)
(* defaults, redaction and limits, and the body of a request.              *)
(***************************************************************************)
EXTENDS EventReporting_proofs

-----------------------------------------------------------------------------
(* Texts                                                                   *)

\* Some number of a bounded set is the largest.
LEMMA MaxIsGreatest ==
    ASSUME NEW n \in Nat, NEW I \in SUBSET (0..n), I # {}
    PROVE  Max(I) \in I /\ \A j \in I : j <= Max(I)
<1> DEFINE J == {n - i : i \in I}
<1>1. J \in SUBSET Nat /\ J # {} /\ \A j \in J : j <= n
  <2>1. \A i \in I : n - i \in Nat /\ n - i <= n
    OBVIOUS
  <2> QED  BY <2>1
<1>2. IsFiniteSet(J)
  BY <1>1, FS_BoundedSetOfNaturals
<1> HIDE DEF J
<1>3. Min(J) \in J /\ \A j \in J : Min(J) <= j
  BY <1>1, <1>2, MinIsLeast
<1>4. PICK i \in I : Min(J) = n - i
  BY <1>3 DEF J
<1>5. \A j \in I : n - i <= n - j
  BY <1>3, <1>4 DEF J
<1>6. \A j \in I : i >= j
  BY <1>5
<1>7. \E x \in I : \A y \in I : x >= y
  BY <1>6
<1>8. Max(I) \in I /\ \A y \in I : Max(I) >= y
  BY <1>7 DEF Max
<1> QED  BY <1>8

\* The runes of a text, those that the client adds among them.
Runes == STRING \cup {".", "~", "R", "t", "q"}

Clean == Runes \ {"y"}          \* not secret

\* Texts over some runes are texts over more of them.
LEMMA SeqGrows ==
    ASSUME NEW A, NEW B, A \subseteq B
    PROVE  Seq(A) \subseteq Seq(B)
<1> SUFFICES ASSUME NEW s \in Seq(A)  PROVE s \in Seq(B)
  OBVIOUS
<1>1. Len(s) \in Nat /\ s \in [1..Len(s) -> A]
  OBVIOUS
<1>2. s \in [1..Len(s) -> B]
  BY <1>1
<1> QED  BY <1>1, <1>2

\* What the application passes in, and what is clean, are runes.
LEMMA TextsAreRunes ==
    /\ Seq(STRING) \subseteq Seq(Runes) /\ Seq(Clean) \subseteq Seq(Runes)
<1>1. STRING \subseteq Runes /\ Clean \subseteq Runes
  BY DEF Runes, Clean
<1> QED  BY <1>1, SeqGrows

LEMMA RangeOf == \A f, x : x \in Range(f) <=> \E i \in DOMAIN f : x = f[i]
BY DEF Range

\* Without "y" in it, a text is clean.
LEMMA CleanTexts == \A t \in Seq(Runes) : t \in Seq(Clean) <=> "y" \notin Range(t)
<1> TAKE t \in Seq(Runes)
<1>1. Len(t) \in Nat /\ t \in [1..Len(t) -> Runes]
  OBVIOUS
<1>2. ASSUME "y" \notin Range(t)  PROVE t \in Seq(Clean)
  <2>1. \A i \in 1..Len(t) : t[i] \in Clean
    BY <1>1, <1>2, RangeOf DEF Clean
  <2>2. t \in [1..Len(t) -> Clean]
    BY <1>1, <2>1
  <2> QED  BY <1>1, <2>2
<1>3. ASSUME t \in Seq(Clean)  PROVE "y" \notin Range(t)
  <2>1. \A i \in DOMAIN t : t[i] \in Clean
    BY <1>3
  <2> QED  BY <2>1, RangeOf DEF Clean
<1> QED  BY <1>2, <1>3

\* "w" counts twice, in a text and in its parts.
LEMMA BytesAdd ==
    ASSUME NEW s \in Seq(Runes), NEW t \in Seq(Runes)
    PROVE  /\ Bytes(s) \in Nat
           /\ Bytes(s \o t) = Bytes(s) + Bytes(t)
<1> DEFINE Wide(u) == {i \in DOMAIN u : u[i] = "w"}
           moved == {Len(s) + i : i \in Wide(t)}
<1>1. /\ DOMAIN s = 1..Len(s) /\ DOMAIN t = 1..Len(t)
      /\ Len(s) \in Nat /\ Len(t) \in Nat
      /\ Len(s \o t) = Len(s) + Len(t)
      /\ DOMAIN (s \o t) = 1..(Len(s) + Len(t))
      /\ \A i \in 1..Len(s) : (s \o t)[i] = s[i]
      /\ \A i \in 1..Len(t) : (s \o t)[Len(s) + i] = t[i]
  OBVIOUS
<1>2. IsFiniteSet(Wide(s)) /\ IsFiniteSet(Wide(t))
  <2>1. IsFiniteSet(1..Len(s)) /\ IsFiniteSet(1..Len(t))
    BY <1>1, FS_Interval
  <2>2. Wide(s) \in SUBSET (1..Len(s)) /\ Wide(t) \in SUBSET (1..Len(t))
    BY <1>1
  <2> QED  BY <2>1, <2>2, FS_Subset
<1>3. Cardinality(Wide(s)) \in Nat /\ Cardinality(Wide(t)) \in Nat
  BY <1>2, FS_CardinalityType
<1>4. IsFiniteSet(moved) /\ Cardinality(moved) = Cardinality(Wide(t))
  <2> DEFINE shift == [i \in Wide(t) |-> Len(s) + i]
  <2>1. shift \in Bijection(Wide(t), moved)
    <3>1. \A i \in Wide(t) : i \in Nat
      BY <1>1
    <3>2. shift \in [Wide(t) -> moved]
      OBVIOUS
    <3>3. \A i, j \in Wide(t) : shift[i] = shift[j] => i = j
      BY <1>1, <3>1
    <3>4. \A m \in moved : \E i \in Wide(t) : shift[i] = m
      OBVIOUS
    <3> HIDE DEF shift, moved, Wide
    <3> QED  BY <3>2, <3>3, <3>4
             DEF Bijection, Injection, Surjection, IsInjective
  <2>2. ExistsBijection(Wide(t), moved)
    BY <2>1 DEF ExistsBijection
  <2> HIDE DEF Wide, moved
  <2> QED  BY <1>2, <2>2, FS_Bijection
<1>5. Wide(s \o t) = Wide(s) \cup moved
  <2>1. \A i \in 1..(Len(s) + Len(t)) :
           i \in 1..Len(s) \/ (i - Len(s) \in 1..Len(t)
                               /\ i = Len(s) + (i - Len(s)))
    BY <1>1
  <2>2. ASSUME NEW i \in Wide(s \o t)  PROVE i \in Wide(s) \cup moved
    <3>1. i \in 1..(Len(s) + Len(t)) /\ (s \o t)[i] = "w"
      BY <1>1
    <3>2. CASE i \in 1..Len(s)
      BY <1>1, <3>1, <3>2
    <3>3. CASE i - Len(s) \in 1..Len(t) /\ i = Len(s) + (i - Len(s))
      <4> DEFINE j == i - Len(s)
      <4>1. j \in 1..Len(t) /\ i = Len(s) + j
        BY <3>3
      <4> HIDE DEF j
      <4>2. t[j] = "w"
        BY <1>1, <3>1, <4>1
      <4> QED  BY <1>1, <4>1, <4>2
    <3> QED  BY <2>1, <3>1, <3>2, <3>3
  <2>3. ASSUME NEW i \in Wide(s)  PROVE i \in Wide(s \o t)
    <3>1. i \in 1..Len(s) /\ s[i] = "w"
      BY <1>1
    <3>2. i \in 1..(Len(s) + Len(t)) /\ (s \o t)[i] = "w"
      BY <1>1, <3>1
    <3> QED  BY <1>1, <3>2
  <2>4. ASSUME NEW i \in Wide(t)  PROVE Len(s) + i \in Wide(s \o t)
    <3>1. i \in 1..Len(t) /\ t[i] = "w"
      BY <1>1
    <3>2. Len(s) + i \in 1..(Len(s) + Len(t)) /\ (s \o t)[Len(s) + i] = "w"
      BY <1>1, <3>1
    <3> QED  BY <1>1, <3>2
  <2> HIDE DEF Wide
  <2> QED  BY <2>2, <2>3, <2>4
<1>6. Wide(s) \cap moved = {}
  BY <1>1
<1>7. Cardinality(Wide(s \o t)) = Cardinality(Wide(s)) + Cardinality(Wide(t))
  <2> HIDE DEF Wide, moved
  <2>1. Cardinality(Wide(s) \cup moved) =
           Cardinality(Wide(s)) + Cardinality(moved)
               - Cardinality(Wide(s) \cap moved)
    BY <1>2, <1>4, FS_Union
  <2>2. Cardinality(Wide(s) \cap moved) = 0
    BY <1>6, FS_EmptySet
  <2> QED  BY <1>3, <1>4, <1>5, <2>1, <2>2
<1>8. /\ Bytes(s) = Len(s) + Cardinality(Wide(s))
      /\ Bytes(t) = Len(t) + Cardinality(Wide(t))
      /\ Bytes(s \o t) = Len(s \o t) + Cardinality(Wide(s \o t))
  BY DEF Bytes
<1> HIDE DEF Wide
<1> QED  BY <1>1, <1>3, <1>7, <1>8

\* The texts whose size the limits look at.
LEMMA BytesOfFew ==
    /\ Bytes(<<>>) = 0 /\ Bytes(TruncatedSuffix) = 2
    /\ \A rune : Bytes(<<rune>>) = Width(rune)
    /\ TruncatedSuffix \in Seq(Runes) /\ <<>> \in Seq(Runes)
<1> DEFINE Wide(u) == {i \in DOMAIN u : u[i] = "w"}
<1>1. Wide(<<>>) = {} /\ Wide(TruncatedSuffix) = {}
  BY DEF TruncatedSuffix
<1>2. \A rune : Wide(<<rune>>) = IF rune = "w" THEN {1} ELSE {}
  OBVIOUS
<1>3. Len(<<>>) = 0 /\ Len(TruncatedSuffix) = 2 /\ \A rune : Len(<<rune>>) = 1
  BY DEF TruncatedSuffix
<1>4. Cardinality({}) = 0 /\ Cardinality({1}) = 1
  BY FS_EmptySet, FS_Singleton
<1>5. \A u : Bytes(u) = Len(u) + Cardinality(Wide(u))
  BY DEF Bytes
<1> HIDE DEF Wide
<1>6. Bytes(<<>>) = 0 /\ Bytes(TruncatedSuffix) = 2
  <2>1. Bytes(<<>>) = Len(<<>>) + Cardinality(Wide(<<>>))
    BY <1>5
  <2>2. Cardinality(Wide(<<>>)) = 0
    BY <1>1, <1>4
  <2>3. Bytes(TruncatedSuffix)
           = Len(TruncatedSuffix) + Cardinality(Wide(TruncatedSuffix))
    BY <1>5
  <2>4. Bytes(TruncatedSuffix) = 2
    BY <1>1, <1>3, <1>4, <2>3
  <2>5. Bytes(<<>>) = 0
    BY <1>3, <2>1, <2>2
  <2> QED  BY <2>4, <2>5
<1>7. ASSUME NEW rune  PROVE Bytes(<<rune>>) = Width(rune)
  <2>1. Bytes(<<rune>>) = 1 + Cardinality(Wide(<<rune>>))
    BY <1>3, <1>5
  <2>2. CASE rune = "w"
    <3>1. Cardinality(Wide(<<rune>>)) = 1
      BY <1>2, <1>4, <2>2
    <3> QED  BY <2>1, <2>2, <3>1 DEF Width
  <2>3. CASE rune # "w"
    <3>1. Cardinality(Wide(<<rune>>)) = 0
      BY <1>2, <1>4, <2>3
    <3> QED  BY <2>1, <2>3, <3>1 DEF Width
  <2> QED  BY <2>2, <2>3
<1>8. TruncatedSuffix \in Seq(Runes) /\ <<>> \in Seq(Runes)
  <2>1. "." \in Runes /\ "~" \in Runes
    BY DEF Runes
  <2> QED  BY <2>1 DEF TruncatedSuffix
<1> QED  BY <1>6, <1>7, <1>8

\* A longer prefix has the bytes of one more rune.
LEMMA BytesGrow ==
    ASSUME NEW text \in Seq(Runes), NEW n \in 1..Len(text)
    PROVE  /\ SubSeq(text, 1, n) \in Seq(Runes)
           /\ Bytes(SubSeq(text, 1, n))
                 = Bytes(SubSeq(text, 1, n - 1)) + Width(text[n])
<1>1. Len(text) \in Nat
  BY LenProperties
<1>2. SubSeq(text, 1, n - 1) \in Seq(Runes) /\ SubSeq(text, 1, n) \in Seq(Runes)
  BY <1>1
<1>3. SubSeq(text, n, n) = <<text[n]>> /\ <<text[n]>> \in Seq(Runes)
  <2>1. text[n] \in Runes
    BY <1>1
  <2>2. n \in Nat /\ n <= Len(text) /\ Len(SubSeq(text, n, n)) = 1
        /\ SubSeq(text, n, n)[1] = text[n] /\ SubSeq(text, n, n) \in Seq(Runes)
    BY <1>1
  <2>3. ASSUME NEW t \in Seq(Runes), Len(t) = 1  PROVE t = <<t[1]>>
    BY <2>3
  <2>4. SubSeq(text, n, n) = <<SubSeq(text, n, n)[1]>>
    BY <2>2, <2>3
  <2>5. <<text[n]>> \in Seq(Runes)
    BY <2>1
  <2> QED  BY <2>2, <2>4, <2>5
<1>4. SubSeq(text, 1, n - 1) \o SubSeq(text, n, n) = SubSeq(text, 1, n)
  <2>1. /\ 1 \in 1..Len(text) + 1 /\ n - 1 \in 1 - 1..Len(text)
        /\ n \in n - 1..Len(text) /\ n = (n - 1) + 1
    BY <1>1
  <2>2. SubSeq(text, 1, n - 1) \o SubSeq(text, (n - 1) + 1, n)
           = SubSeq(text, 1, n)
    BY <2>1, ConcatAdjacentSubSeq
  <2> QED  BY <2>1, <2>2
<1>5. Bytes(SubSeq(text, 1, n - 1) \o <<text[n]>>)
         = Bytes(SubSeq(text, 1, n - 1)) + Bytes(<<text[n]>>)
  BY <1>2, <1>3, BytesAdd
<1>6. Bytes(<<text[n]>>) = Width(text[n])
  BY BytesOfFew
<1> QED  BY <1>2, <1>3, <1>4, <1>5, <1>6

\* What a text is cut to fits, and one rune more would not (limit.go:165-179).
LEMMA PrefixFits ==
    ASSUME NEW text \in Seq(Runes), NEW max \in Nat \ {0}, Bytes(text) > max
    PROVE  \E n \in 0..Len(text) - 1 :
              /\ ValidStringPrefix(text, max) = SubSeq(text, 1, n)
              /\ Bytes(SubSeq(text, 1, n)) <= max
              /\ Bytes(SubSeq(text, 1, n)) + Width(text[n + 1]) > max
<1> DEFINE Upto(n) == Bytes(SubSeq(text, 1, n))
           I == {n \in DOMAIN text : Bytes(SubSeq(text, 1, n - 1)) <= max}
<1>1. Len(text) \in Nat /\ DOMAIN text = 1..Len(text)
      /\ SubSeq(text, 1, Len(text)) = text /\ SubSeq(text, 1, 0) = <<>>
  BY LenProperties, SubSeqFull
<1>2. Bytes(text) \in Nat /\ Bytes(<<>>) = 0
  BY BytesAdd, BytesOfFew
<1>3. Len(text) # 0
  BY <1>1, <1>2
<1>4. I \in SUBSET (0..Len(text)) /\ 1 \in I
  <2>1. Bytes(SubSeq(text, 1, 1 - 1)) <= max
    <3>1. SubSeq(text, 1, 1 - 1) = <<>>
      BY <1>1
    <3>2. Bytes(SubSeq(text, 1, 1 - 1)) = 0
      BY <1>2, <3>1
    <3> QED  BY <3>2
  <2>2. 1 \in DOMAIN text
    BY <1>1, <1>3
  <2>3. I \subseteq DOMAIN text
    OBVIOUS
  <2> QED  BY <1>1, <2>1, <2>2, <2>3
<1>5. Max(I) \in I /\ \A j \in I : j <= Max(I)
  <2> HIDE DEF I
  <2> QED  BY <1>1, <1>4, MaxIsGreatest
<1>6. ValidStringPrefix(text, max) = SubSeq(text, 1, Max(I) - 1)
  <2>1. ~ (max <= 0) /\ ~ (Bytes(text) <= max)
    BY <1>2
  <2> QED  BY <2>1 DEF ValidStringPrefix
<1> DEFINE m == Max(I)
<1>7. m \in 1..Len(text) /\ Upto(m - 1) <= max /\ \A j \in I : j <= m
  BY <1>1, <1>5
<1> HIDE DEF m
<1>8. Upto(m) = Upto(m - 1) + Width(text[m])
  BY <1>7, BytesGrow
<1>9. Upto(m) > max
  <2>1. CASE m = Len(text)
    BY <1>1, <2>1
  <2>2. CASE m # Len(text)
    <3>1. m + 1 \in DOMAIN text /\ (m + 1) - 1 = m /\ ~ (m + 1 <= m)
      <4>1. m \in Nat /\ m <= Len(text)
        BY <1>1, <1>7
      <4>2. Len(text) \in Nat
        BY <1>1
      <4>3. \A k \in Nat : k <= Len(text) /\ k # Len(text) => k + 1 \in 1..Len(text)
        BY <4>2
      <4>4. m + 1 \in 1..Len(text)
        BY <2>2, <4>1, <4>3
      <4> QED  BY <1>1, <4>1, <4>4
    <3>2. ~ (Bytes(SubSeq(text, 1, (m + 1) - 1)) <= max)
      <4>1. m + 1 \notin I
        BY <1>1, <1>7, <3>1
      <4> QED  BY <3>1, <4>1
    <3>3. Upto(m) \in Nat
      BY <1>7, BytesGrow, BytesAdd
    <3> QED  BY <3>1, <3>2, <3>3
  <2> QED  BY <2>1, <2>2
<1>10. m - 1 \in 0..Len(text) - 1 /\ (m - 1) + 1 = m
  BY <1>1, <1>7
<1>11. ValidStringPrefix(text, max) = SubSeq(text, 1, m - 1)
  BY <1>6 DEF m
<1> QED  BY <1>7, <1>8, <1>9, <1>10, <1>11

\* limitString: the text, or as much of it as fits and the suffix
\* (limit.go:150-179).
LEMMA TruncateCuts ==
    ASSUME NEW X \in SUBSET Runes, {".", "~"} \subseteq X, NEW text \in Seq(X)
    PROVE  /\ Truncate(text) \in Seq(X)
           /\ Cut(text, Truncate(text))
           /\ MaxStringBytes > 0 => Bytes(Truncate(text)) <= MaxStringBytes
<1>1. text \in Seq(Runes) /\ Len(text) \in Nat
  BY LenProperties
<1>2. Bytes(text) \in Nat /\ MaxStringBytes \in Nat /\ Bytes(TruncatedSuffix) = 2
      /\ TruncatedSuffix \in Seq(X)
  BY <1>1, BytesAdd, BytesOfFew, PreparationAssumption DEF TruncatedSuffix
<1>3. CASE MaxStringBytes = 0 \/ Bytes(text) <= MaxStringBytes
  <2>1. Truncate(text) = text
    BY <1>3 DEF Truncate
  <2> QED  BY <1>2, <1>3, <2>1 DEF Cut
<1>4. CASE ~ (MaxStringBytes = 0 \/ Bytes(text) <= MaxStringBytes)
  <2>1. MaxStringBytes \in 1..Bytes(text) - 1
    BY <1>2, <1>4
  <2>2. CASE MaxStringBytes <= 2
    <3>1. Truncate(text) = ValidStringPrefix(text, MaxStringBytes)
      BY <1>2, <1>4, <2>2 DEF Truncate
    <3>2. PICK n \in 0..Len(text) - 1 :
              /\ Truncate(text) = SubSeq(text, 1, n)
              /\ Bytes(SubSeq(text, 1, n)) <= MaxStringBytes
              /\ Bytes(SubSeq(text, 1, n)) + Width(text[n + 1]) > MaxStringBytes
      <4>1. MaxStringBytes \in Nat \ {0} /\ Bytes(text) > MaxStringBytes
        BY <1>2, <2>1
      <4> QED  BY <1>1, <3>1, <4>1, PrefixFits
    <3>3. SubSeq(text, 1, n) \in Seq(X)
      BY <1>1
    <3>4. SubSeq(text, 1, n) \o <<>> = SubSeq(text, 1, n)
      BY <3>3, ConcatEmptySeq
    <3>5. Cut(text, Truncate(text))
      BY <1>2, <2>1, <2>2, <3>2, <3>4 DEF Cut
    <3> QED  BY <3>2, <3>3, <3>5
  <2>3. CASE ~ (MaxStringBytes <= 2)
    <3> DEFINE max == MaxStringBytes - 2
    <3>1. Truncate(text) = ValidStringPrefix(text, max) \o TruncatedSuffix
      BY <1>2, <1>4, <2>3 DEF Truncate
    <3>2. max \in Nat \ {0} /\ Bytes(text) > max
      BY <1>2, <2>1, <2>3
    <3> HIDE DEF max
    <3>3. PICK n \in 0..Len(text) - 1 :
              /\ ValidStringPrefix(text, max) = SubSeq(text, 1, n)
              /\ Bytes(SubSeq(text, 1, n)) <= max
              /\ Bytes(SubSeq(text, 1, n)) + Width(text[n + 1]) > max
      BY <1>1, <3>2, PrefixFits
    <3>4. SubSeq(text, 1, n) \in Seq(X) /\ SubSeq(text, 1, n) \in Seq(Runes)
      BY <1>1
    <3> DEFINE cut == SubSeq(text, 1, n)
               new == cut \o TruncatedSuffix
    <3>5. Bytes(new) = Bytes(cut) + 2 /\ Bytes(cut) \in Nat
      BY <1>2, <3>4, BytesAdd, BytesOfFew
    <3>6. new \in Seq(X)
      BY <1>2, <3>4, ConcatProperties
    <3>7. TruncatedSuffix # <<>>
      BY DEF TruncatedSuffix
    <3>8. Bytes(new) <= MaxStringBytes
          /\ Bytes(new) + Width(text[n + 1]) > MaxStringBytes
      <4>1. Width(text[n + 1]) \in Nat
        BY DEF Width
      <4> QED  BY <1>2, <3>3, <3>5, <4>1 DEF max
    <3>9. Truncate(text) = new
      BY <3>1, <3>3
    <3> HIDE DEF new
    <3>10. Cut(text, new)
      BY <1>2, <2>1, <3>3, <3>7, <3>8 DEF Cut, new
    <3> QED  BY <3>6, <3>8, <3>9, <3>10
  <2> QED  BY <2>2, <2>3
<1> QED  BY <1>3, <1>4

\* Induction over the naturals, of a set.
LEMMA NatSteps ==
    ASSUME NEW S \in SUBSET Nat, 0 \in S, \A n \in S : n + 1 \in S
    PROVE  S = Nat
<1> SUFFICES ASSUME NEW n \in Nat, n \notin S  PROVE FALSE
  OBVIOUS
<1> DEFINE I == {i \in Nat : i \notin S /\ i <= n}
<1>1. n \in I /\ I \in SUBSET Nat /\ \A i \in I : i <= n
  OBVIOUS
<1>2. IsFiniteSet(I)
  BY <1>1, FS_BoundedSetOfNaturals
<1>3. Min(I) \in I /\ \A j \in I : Min(I) <= j
  BY <1>1, <1>2, MinIsLeast
<1>4. PICK m \in I : \A j \in I : m <= j
  BY <1>3
<1>5. m # 0 /\ m - 1 \in Nat /\ m - 1 <= n
  BY <1>4
<1>6. m - 1 \notin I
  BY <1>4, <1>5
<1>7. m - 1 \in S
  BY <1>5, <1>6
<1> QED  BY <1>4, <1>7

\* FlattenSeq is defined by recursion over the sequences: it exists, and
\* what it joins are runes of theirs.
LEMMA FlattenedRunes ==
    ASSUME NEW X, NEW n \in Nat, NEW seqs \in [1..n -> Seq(X)]
    PROVE  FlattenSeq(seqs) \in Seq(X)
<1> DEFINE Sum(g, i) == IF i = 1 THEN seqs[i] ELSE g[i - 1] \o seqs[i]
           f == CHOOSE g : g = [i \in 1..n |-> Sum(g, i)]
<1>1. Len(seqs) = n /\ seqs \in Seq(Seq(X))
  OBVIOUS
<1>2. CASE n = 0
  <2>1. seqs \in Seq(X)
    BY <1>2
  <2> QED  BY <1>1, <1>2, <2>1 DEF FlattenSeq
<1>3. CASE n # 0
  <2>1. FlattenSeq(seqs) = f[n]
    BY <1>1, <1>3 DEF FlattenSeq
  <2>2. \E g : g = [i \in 1..n |-> Sum(g, i)]
    <3> DEFINE Exists(m) == \E g \in [1..m -> Seq(X)] :
                               \A i \in 1..m : g[i] = Sum(g, i)
               S == {m \in Nat : m > n \/ Exists(m)}
    <3>1. 0 \in S
      <4>1. [i \in 1..0 |-> <<>>] \in [1..0 -> Seq(X)]
        OBVIOUS
      <4>2. \A i \in 1..0 : FALSE
        OBVIOUS
      <4> HIDE DEF Sum
      <4>3. Exists(0)
        BY <4>1, <4>2
      <4> HIDE DEF Exists
      <4> QED  BY <4>3
    <3>2. ASSUME NEW m \in S, m + 1 <= n  PROVE m + 1 \in S
      <4>1. m \in Nat /\ ~ (m > n)
        BY <3>2
      <4>2. PICK g \in [1..m -> Seq(X)] : \A i \in 1..m : g[i] = Sum(g, i)
        BY <4>1
      <4> DEFINE h == [i \in 1..m + 1 |-> IF i <= m THEN g[i] ELSE Sum(g, i)]
      <4>3. seqs[m + 1] \in Seq(X)
        BY <3>2, <4>1
      <4>4. Sum(g, m + 1) \in Seq(X)
        <5>1. CASE m = 0
          BY <4>3, <5>1
        <5>2. CASE m # 0
          <6>1. g[m] \in Seq(X)
            BY <4>1, <5>2
          <6>2. g[m] \o seqs[m + 1] \in Seq(X)
            BY <4>3, <6>1, ConcatProperties
          <6> QED  BY <4>1, <5>2, <6>2
        <5> QED  BY <5>1, <5>2
      <4>5. h \in [1..m + 1 -> Seq(X)]
        <5>1. \A i \in 1..m + 1 : i <= m => i \in 1..m
          BY <4>1
        <5>2. \A i \in 1..m + 1 : ~ (i <= m) => i = m + 1
          BY <4>1
        <5> HIDE DEF Sum
        <5> QED  BY <4>4, <5>1, <5>2
      <4>6. \A i \in 1..m + 1 : h[i] = Sum(h, i)
        <5> TAKE i \in 1..m + 1
        <5>1. i # 1 => i - 1 \in 1..m /\ h[i - 1] = g[i - 1]
          BY <4>1
        <5>2. Sum(h, i) = Sum(g, i)
          BY <5>1
        <5>3. h[i] = Sum(g, i)
          <6>1. CASE i <= m
            <7>1. i \in 1..m /\ h[i] = g[i]
              BY <4>1, <6>1
            <7> HIDE DEF Sum
            <7> QED  BY <4>2, <7>1
          <6>2. CASE ~ (i <= m)
            BY <6>2
          <6> QED  BY <6>1, <6>2
        <5> QED  BY <5>2, <5>3
      <4> HIDE DEF h, Sum
      <4>7. Exists(m + 1)
        BY <4>5, <4>6
      <4> HIDE DEF Exists
      <4> QED  BY <4>1, <4>7
    <3>3. ASSUME NEW m \in S, ~ (m + 1 <= n)  PROVE m + 1 \in S
      BY <3>3
    <3>4. S \in SUBSET Nat
      OBVIOUS
    <3> HIDE DEF S
    <3>5. n \in S
      BY <3>1, <3>2, <3>3, <3>4, NatSteps
    <3>6. PICK g \in [1..n -> Seq(X)] : \A i \in 1..n : g[i] = Sum(g, i)
      BY <3>5 DEF S
    <3> HIDE DEF Sum
    <3>7. g = [i \in 1..n |-> Sum(g, i)]
      BY <3>6
    <3> QED  BY <3>7
  <2>3. f = [i \in 1..n |-> Sum(f, i)]
    <3> HIDE DEF Sum
    <3> QED  BY <2>2
  <2> HIDE DEF f
  <2> DEFINE S == {m \in Nat : m + 1 <= n => f[m + 1] \in Seq(X)}
  <2>4. 0 \in S
    BY <1>3, <2>3
  <2>5. ASSUME NEW m \in S  PROVE m + 1 \in S
    <3>1. m \in Nat
      OBVIOUS
    <3>2. ASSUME m + 2 <= n  PROVE f[m + 2] \in Seq(X)
      <4>1. f[m + 2] = f[m + 1] \o seqs[m + 2]
        <5>1. m + 2 \in 1..n /\ m + 2 # 1 /\ (m + 2) - 1 = m + 1
          BY <3>1, <3>2
        <5>2. f[m + 2] = Sum(f, m + 2)
          BY <2>3, <5>1
        <5> QED  BY <5>1, <5>2
      <4>2. f[m + 1] \in Seq(X) /\ seqs[m + 2] \in Seq(X)
        BY <3>1, <3>2
      <4> QED  BY <4>1, <4>2, ConcatProperties
    <3> QED  BY <3>1, <3>2
  <2>6. S \in SUBSET Nat
    OBVIOUS
  <2>7. n - 1 \in S
    <3>1. n - 1 \in Nat
      BY <1>3
    <3> HIDE DEF S
    <3> QED  BY <2>4, <2>5, <2>6, <3>1, NatSteps
  <2> QED  BY <1>3, <2>1, <2>7
<1> QED  BY <1>2, <1>3

\* RedactString adds no runes but those of the mask (redaction.go:133-146).
LEMMA RedactedRunes ==
    ASSUME NEW X, "R" \in X, NEW text \in Seq(X)
    PROVE  RedactString(text) \in Seq(X) /\ RedactedValue \in Seq(X)
<1>1. Len(text) \in Nat /\ DOMAIN text = 1..Len(text)
  BY LenProperties
<1>2. RedactedValue \in Seq(X)
  BY DEF RedactedValue
<1> DEFINE parts == [i \in DOMAIN text |->
                       IF text[i] = "x" THEN RedactedValue ELSE <<text[i]>>]
<1>3. parts \in [1..Len(text) -> Seq(X)]
  <2>1. ASSUME NEW i \in 1..Len(text)  PROVE <<text[i]>> \in Seq(X)
    <3>1. text[i] \in X
      BY <1>1
    <3> QED  BY <3>1
  <2> QED  BY <1>1, <1>2, <2>1
<1> HIDE DEF parts
<1>4. FlattenSeq(parts) \in Seq(X)
  BY <1>1, <1>3, FlattenedRunes
<1> QED  BY <1>2, <1>4 DEF RedactString, parts

-----------------------------------------------------------------------------
(* Values                                                                  *)

\* limitLeaf and RedactValue keep the kind of a leaf and look at its texts.
LEMMA LeafTexts ==
    ASSUME NEW leaf
    PROVE  /\ \A t \in Texts(LimitLeaf(leaf)) : \E s \in Texts(leaf) : t = Truncate(s)
           /\ \A t \in Texts(RedactLeaf(leaf)) :
                 \E s \in Texts(leaf) : t = s \/ t = RedactString(s)
           /\ LimitLeaf(leaf).kind = leaf.kind
           /\ RedactLeaf(leaf).kind = leaf.kind
<1>1. CASE leaf.kind = "text"
  <2>1. Texts(leaf) = {leaf.text}
    BY <1>1 DEF Texts
  <2>2. LimitLeaf(leaf) = Text(Truncate(leaf.text))
        /\ RedactLeaf(leaf) = Text(RedactString(leaf.text))
    BY <1>1 DEF LimitLeaf, RedactLeaf
  <2>3. \A t : Texts(Text(t)) = {t} /\ Text(t).kind = "text"
    BY DEF Texts, Text
  <2> QED  BY <1>1, <2>1, <2>2, <2>3
<1>2. CASE leaf.kind = "strings"
  <2>1. Texts(leaf) = Range(leaf.items)
    BY <1>2 DEF Texts
  <2> DEFINE cut == [i \in DOMAIN leaf.items |-> Truncate(leaf.items[i])]
  <2>2. LimitLeaf(leaf) = Strings(cut) /\ RedactLeaf(leaf) = leaf
    BY <1>2 DEF LimitLeaf, RedactLeaf
  <2>3. \A s : Texts(Strings(s)) = Range(s) /\ Strings(s).kind = "strings"
    BY DEF Texts, Strings
  <2>4. \A t \in Range(cut) : \E s \in Range(leaf.items) : t = Truncate(s)
    BY RangeOf
  <2> HIDE DEF cut
  <2> QED  BY <1>2, <2>1, <2>2, <2>3, <2>4
<1>3. CASE leaf.kind \notin {"text", "strings"}
  <2>1. Texts(leaf) = {} /\ LimitLeaf(leaf) = leaf /\ RedactLeaf(leaf) = leaf
    BY <1>3 DEF Texts, LimitLeaf, RedactLeaf
  <2> QED  BY <2>1
<1> QED  BY <1>1, <1>2, <1>3

\* The texts of a value, by its kind.
LEMMA ValueTexts ==
    ASSUME NEW v
    PROVE  /\ v.kind = "fields" =>
                 AllTexts(v) = DOMAIN v.fields
                    \cup UNION {Texts(v.fields[k]) : k \in DOMAIN v.fields}
           /\ v.kind = "list" =>
                 AllTexts(v) = UNION {Texts(v.items[i]) : i \in DOMAIN v.items}
           /\ v.kind = "changes" =>
                 AllTexts(v) = UNION {Texts(v.items[i].old) \cup Texts(v.items[i].new) :
                                         i \in DOMAIN v.items}
           /\ v.kind \notin {"fields", "list", "changes"} => AllTexts(v) = Texts(v)
<1>1. CASE v.kind = "fields"
  <2>1. Leaves(v) = Range(v.fields)
    BY <1>1 DEF Leaves
  <2>2. \A leaf : leaf \in Leaves(v) <=> \E k \in DOMAIN v.fields : leaf = v.fields[k]
    BY <2>1, RangeOf
  <2>3. UNION {Texts(leaf) : leaf \in Leaves(v)}
           = UNION {Texts(v.fields[k]) : k \in DOMAIN v.fields}
    BY <2>2
  <2> QED  BY <1>1, <2>3 DEF AllTexts
<1>2. CASE v.kind = "list"
  <2>1. Leaves(v) = Range(v.items)
    BY <1>2 DEF Leaves
  <2>2. \A leaf : leaf \in Leaves(v) <=> \E i \in DOMAIN v.items : leaf = v.items[i]
    BY <2>1, RangeOf
  <2>3. UNION {Texts(leaf) : leaf \in Leaves(v)}
           = UNION {Texts(v.items[i]) : i \in DOMAIN v.items}
    BY <2>2
  <2> QED  BY <1>2, <2>3 DEF AllTexts
<1>3. CASE v.kind = "changes"
  <2>1. Leaves(v) = UNION {{c.old, c.new} : c \in Range(v.items)}
    BY <1>3 DEF Leaves
  <2>2. \A leaf : leaf \in Leaves(v) <=>
           \E i \in DOMAIN v.items : leaf = v.items[i].old \/ leaf = v.items[i].new
    BY <2>1, RangeOf
  <2>3. UNION {Texts(leaf) : leaf \in Leaves(v)}
           = UNION {Texts(v.items[i].old) \cup Texts(v.items[i].new) :
                       i \in DOMAIN v.items}
    BY <2>2
  <2> QED  BY <1>3, <2>3 DEF AllTexts
<1>4. CASE v.kind \notin {"fields", "list", "changes"}
  <2>1. Leaves(v) = {v}
    BY <1>4 DEF Leaves
  <2> QED  BY <1>4, <2>1 DEF AllTexts
<1> QED  BY <1>1, <1>2, <1>3, <1>4

\* Redaction and limits return a typed leaf as it is, and make none.
LEMMA LeafUnseen ==
    ASSUME NEW leaf
    PROVE  Unseen(LimitLeaf(leaf)) = Unseen(leaf)
           /\ Unseen(RedactLeaf(leaf)) = Unseen(leaf)
<1>1. CASE leaf.kind = "text"
  <2>1. \A t : Unseen(Text(t)) = {}
    BY DEF Unseen, Text
  <2> QED  BY <1>1, <2>1 DEF LimitLeaf, RedactLeaf, Unseen
<1>2. CASE leaf.kind = "strings"
  <2>1. \A s : Unseen(Strings(s)) = {}
    BY DEF Unseen, Strings
  <2> QED  BY <1>2, <2>1 DEF LimitLeaf, RedactLeaf, Unseen
<1>3. CASE leaf.kind \notin {"text", "strings"}
  BY <1>3 DEF LimitLeaf, RedactLeaf
<1> QED  BY <1>1, <1>2, <1>3

\* What no step looks at in a value, by its kind.
LEMMA ValueUnseen ==
    ASSUME NEW v
    PROVE  /\ v.kind = "fields" =>
                 AllUnseen(v) = UNION {Unseen(v.fields[k]) : k \in DOMAIN v.fields}
           /\ v.kind = "list" =>
                 AllUnseen(v) = UNION {Unseen(v.items[i]) : i \in DOMAIN v.items}
           /\ v.kind = "changes" =>
                 AllUnseen(v) = UNION {Unseen(v.items[i].old) \cup Unseen(v.items[i].new) :
                                          i \in DOMAIN v.items}
           /\ v.kind \notin {"fields", "list", "changes"} => AllUnseen(v) = Unseen(v)
<1>1. CASE v.kind = "fields"
  <2>1. Leaves(v) = Range(v.fields)
    BY <1>1 DEF Leaves
  <2>2. \A leaf : leaf \in Leaves(v) <=> \E k \in DOMAIN v.fields : leaf = v.fields[k]
    BY <2>1, RangeOf
  <2>3. UNION {Unseen(leaf) : leaf \in Leaves(v)}
           = UNION {Unseen(v.fields[k]) : k \in DOMAIN v.fields}
    BY <2>2
  <2> QED  BY <1>1, <2>3 DEF AllUnseen
<1>2. CASE v.kind = "list"
  <2>1. Leaves(v) = Range(v.items)
    BY <1>2 DEF Leaves
  <2>2. \A leaf : leaf \in Leaves(v) <=> \E i \in DOMAIN v.items : leaf = v.items[i]
    BY <2>1, RangeOf
  <2>3. UNION {Unseen(leaf) : leaf \in Leaves(v)}
           = UNION {Unseen(v.items[i]) : i \in DOMAIN v.items}
    BY <2>2
  <2> QED  BY <1>2, <2>3 DEF AllUnseen
<1>3. CASE v.kind = "changes"
  <2>1. Leaves(v) = UNION {{c.old, c.new} : c \in Range(v.items)}
    BY <1>3 DEF Leaves
  <2>2. \A leaf : leaf \in Leaves(v) <=>
           \E i \in DOMAIN v.items : leaf = v.items[i].old \/ leaf = v.items[i].new
    BY <2>1, RangeOf
  <2>3. UNION {Unseen(leaf) : leaf \in Leaves(v)}
           = UNION {Unseen(v.items[i].old) \cup Unseen(v.items[i].new) :
                       i \in DOMAIN v.items}
    BY <2>2
  <2> QED  BY <1>3, <2>3 DEF AllUnseen
<1>4. CASE v.kind \notin {"fields", "list", "changes"}
  <2>1. Leaves(v) = {v}
    BY <1>4 DEF Leaves
  <2> QED  BY <1>4, <2>1 DEF AllUnseen
<1> QED  BY <1>1, <1>2, <1>3, <1>4

\* Limits leave what is typed, or take all of it away (limit.go:107-148).
LEMMA LimitedUnseen ==
    ASSUME NEW v, NEW r \in LimitValue(v)
    PROVE  AllUnseen(r) \subseteq AllUnseen(v)
<1>1. CASE v.kind = "fields"
  <2>1. PICK f \in LimitFieldsMap(v.fields) : r = Fields(f)
    BY <1>1 DEF LimitValue
  <2>2. r.kind = "fields" /\ r.fields = f
    BY <2>1 DEF Fields
  <2>3. \A k \in DOMAIN f : \E j \in DOMAIN v.fields :
           f[k] = LimitLeaf(v.fields[j])
    BY DEF LimitFieldsMap
  <2>4. \A k \in DOMAIN f : \E j \in DOMAIN v.fields :
           Unseen(f[k]) = Unseen(v.fields[j])
    BY <2>3, LeafUnseen
  <2> QED  BY <1>1, <2>2, <2>4, ValueUnseen
<1>2. CASE v.kind = "list"
  <2> DEFINE items == [i \in DOMAIN v.items |-> LimitLeaf(v.items[i])]
  <2>1. r = List(items)
    BY <1>2 DEF LimitValue
  <2>2. r.kind = "list" /\ r.items = items
    BY <2>1 DEF List
  <2>3. \A i \in DOMAIN items : Unseen(items[i]) = Unseen(v.items[i])
    BY LeafUnseen
  <2> QED  BY <1>2, <2>2, <2>3, ValueUnseen
<1>3. CASE v.kind = "changes"
  <2> DEFINE items == [i \in DOMAIN v.items |->
                         [field |-> Truncate(v.items[i].field),
                          old |-> LimitLeaf(v.items[i].old),
                          new |-> LimitLeaf(v.items[i].new)]]
  <2>1. r = Changes(items)
    BY <1>3 DEF LimitValue
  <2>2. r.kind = "changes" /\ r.items = items
    BY <2>1 DEF Changes
  <2>3. \A i \in DOMAIN items : /\ Unseen(items[i].old) = Unseen(v.items[i].old)
                                /\ Unseen(items[i].new) = Unseen(v.items[i].new)
    BY LeafUnseen
  <2>4. DOMAIN items = DOMAIN v.items
    OBVIOUS
  <2> HIDE DEF items
  <2> QED  BY <1>3, <2>2, <2>3, <2>4, ValueUnseen
<1>4. CASE v.kind \notin {"fields", "list", "changes"}
  <2>1. r = LimitLeaf(v)
    BY <1>4 DEF LimitValue
  <2>2. AllUnseen(r) = Unseen(r) /\ AllUnseen(v) = Unseen(v)
    BY <1>4, <2>1, LeafTexts, ValueUnseen
  <2> QED  BY <2>1, <2>2, LeafUnseen
<1> QED  BY <1>1, <1>2, <1>3, <1>4

\* Every text of a limited value is a truncated one (limit.go:110-148).
LEMMA LimitedTexts ==
    ASSUME NEW v, NEW r \in LimitValue(v), NEW t \in AllTexts(r)
    PROVE  \E s \in AllTexts(v) : t = Truncate(s)
<1>1. CASE v.kind = "fields"
  <2>1. PICK f \in LimitFieldsMap(v.fields) : r = Fields(f)
    BY <1>1 DEF LimitValue
  <2>2. r.kind = "fields" /\ r.fields = f
    BY <2>1 DEF Fields
  <2>3. /\ DOMAIN f = {Truncate(k) : k \in DOMAIN v.fields}
        /\ \A k \in DOMAIN f : \E j \in DOMAIN v.fields :
              f[k] = LimitLeaf(v.fields[j])
    BY DEF LimitFieldsMap
  <2>4. t \in DOMAIN f \/ \E k \in DOMAIN f : t \in Texts(f[k])
    BY <2>2, ValueTexts
  <2>5. CASE t \in DOMAIN f
    BY <1>1, <2>3, <2>5, ValueTexts
  <2>6. CASE \E k \in DOMAIN f : t \in Texts(f[k])
    <3>1. PICK k \in DOMAIN f : t \in Texts(f[k])
      BY <2>6
    <3>2. PICK j \in DOMAIN v.fields : f[k] = LimitLeaf(v.fields[j])
      BY <2>3
    <3>3. \E s \in Texts(v.fields[j]) : t = Truncate(s)
      BY <3>1, <3>2, LeafTexts
    <3> QED  BY <1>1, <3>3, ValueTexts
  <2> QED  BY <2>4, <2>5, <2>6
<1>2. CASE v.kind = "list"
  <2> DEFINE items == [i \in DOMAIN v.items |-> LimitLeaf(v.items[i])]
  <2>1. r = List(items)
    BY <1>2 DEF LimitValue
  <2>2. r.kind = "list" /\ r.items = items
    BY <2>1 DEF List
  <2>3. PICK i \in DOMAIN v.items : t \in Texts(LimitLeaf(v.items[i]))
    BY <2>2, ValueTexts
  <2>4. \E s \in Texts(v.items[i]) : t = Truncate(s)
    BY <2>3, LeafTexts
  <2> QED  BY <1>2, <2>4, ValueTexts
<1>3. CASE v.kind = "changes"
  <2> DEFINE items == [i \in DOMAIN v.items |->
                         [field |-> Truncate(v.items[i].field),
                          old |-> LimitLeaf(v.items[i].old),
                          new |-> LimitLeaf(v.items[i].new)]]
  <2>1. r = Changes(items)
    BY <1>3 DEF LimitValue
  <2>2. r.kind = "changes" /\ r.items = items
    BY <2>1 DEF Changes
  <2>3. PICK i \in DOMAIN v.items :
           t \in Texts(LimitLeaf(v.items[i].old)) \cup Texts(LimitLeaf(v.items[i].new))
    BY <2>2, ValueTexts
  <2>4. \E s \in Texts(v.items[i].old) \cup Texts(v.items[i].new) : t = Truncate(s)
    BY <2>3, LeafTexts
  <2> QED  BY <1>3, <2>4, ValueTexts
<1>4. CASE v.kind \notin {"fields", "list", "changes"}
  <2>1. r = LimitLeaf(v)
    BY <1>4 DEF LimitValue
  <2>2. AllTexts(r) = Texts(r) /\ AllTexts(v) = Texts(v)
    BY <1>4, <2>1, LeafTexts, ValueTexts
  <2> QED  BY <2>1, <2>2, LeafTexts
<1> QED  BY <1>1, <1>2, <1>3, <1>4

\* A field of metadata, data or an audit value, as it is left by limitEvent.
LEMMA LimitedJSON ==
    ASSUME NEW v, NEW max \in Nat, NEW r \in LimitJSONValue(v, max)
    PROVE  /\ JSONSize(r) <= max
           /\ \A t \in AllTexts(r) :
                 t = <<"t">> \/ \E s \in AllTexts(v) : t = Truncate(s)
           /\ AllUnseen(r) \subseteq AllUnseen(v)
<1>1. PICK limited \in LimitValue(v) :
         r = IF JSONSize(limited) <= max THEN limited
             ELSE IF JSONSize(Placeholder) <= max THEN Placeholder ELSE Nil
  BY DEF LimitJSONValue
<1>2. JSONSize(Nil) = 0
  BY DEF JSONSize
<1>3. AllTexts(Nil) = {}
  BY ValueTexts DEF Nil, Texts
<1>4. AllTexts(Placeholder) = {<<"t">>}
  <2>1. /\ Placeholder.kind = "fields" /\ DOMAIN Placeholder.fields = {<<"t">>}
        /\ Placeholder.fields[<<"t">>] = Number
    BY DEF Placeholder, Fields
  <2>2. Texts(Number) = {}
    BY DEF Number, Texts
  <2> QED  BY <2>1, <2>2, ValueTexts
<1>5. AllUnseen(Nil) = {} /\ AllUnseen(Placeholder) = {}
  <2>1. /\ Placeholder.kind = "fields" /\ DOMAIN Placeholder.fields = {<<"t">>}
        /\ Placeholder.fields[<<"t">>] = Number
    BY DEF Placeholder, Fields
  <2>2. Unseen(Number) = {} /\ Unseen(Nil) = {}
    BY DEF Number, Nil, Unseen
  <2>3. Nil.kind = "nil"
    BY DEF Nil
  <2> QED  BY <2>1, <2>2, <2>3, ValueUnseen
<1> QED  BY <1>1, <1>2, <1>3, <1>4, <1>5, LimitedTexts, LimitedUnseen

\* A text of a redacted value was one that no sensitive key names.
LEMMA ShownTexts ==
    ASSUME NEW v, NEW t \in AllTexts(RedactValue(v)),
           v.kind = "changes" =>
              \A c \in Range(v.items) : DOMAIN c = {"field", "old", "new"}
    PROVE  t = RedactedValue \/ \E s \in Exposed(v) : t = s \/ t = RedactString(s)
<1>1. \A name, leaf : Named(name, leaf) = IF IsSensitiveKey(name)
                         THEN Text(RedactedValue) ELSE RedactLeaf(leaf)
  BY DEF Named
<1>2. Texts(Text(RedactedValue)) = {RedactedValue} /\ Texts(Nil) = {}
  BY DEF Texts, Text, Nil
<1>3. CASE v.kind = "fields"
  <2> DEFINE fields == [k \in DOMAIN v.fields |-> Named(k, v.fields[k])]
  <2>1. RedactValue(v) = Fields(fields)
    BY <1>3 DEF RedactValue
  <2>2. RedactValue(v).kind = "fields" /\ RedactValue(v).fields = fields
    BY <2>1 DEF Fields
  <2>3. DOMAIN v.fields \cup UNION {Texts(v.fields[k]) :
                k \in {k \in DOMAIN v.fields : ~IsSensitiveKey(k)}}
           \subseteq Exposed(v)
    BY <1>3 DEF Exposed, Written
  <2>4. t \in DOMAIN v.fields
        \/ \E k \in DOMAIN v.fields : t \in Texts(Named(k, v.fields[k]))
    BY <2>2, ValueTexts
  <2>5. ASSUME NEW k \in DOMAIN v.fields, t \in Texts(Named(k, v.fields[k])),
               ~IsSensitiveKey(k)
        PROVE  \E s \in Exposed(v) : t = s \/ t = RedactString(s)
    <3>1. \E s \in Texts(v.fields[k]) : t = s \/ t = RedactString(s)
      BY <1>1, <2>5, LeafTexts
    <3> QED  BY <2>3, <2>5, <3>1
  <2>6. ASSUME NEW k \in DOMAIN v.fields, t \in Texts(Named(k, v.fields[k])),
               IsSensitiveKey(k)
        PROVE  t = RedactedValue
    BY <1>1, <1>2, <2>6
  <2> QED  BY <2>3, <2>4, <2>5, <2>6
<1>4. CASE v.kind = "list"
  <2> DEFINE items == [i \in DOMAIN v.items |-> RedactLeaf(v.items[i])]
  <2>1. RedactValue(v) = List(items)
    BY <1>4 DEF RedactValue
  <2>2. RedactValue(v).kind = "list" /\ RedactValue(v).items = items
    BY <2>1 DEF List
  <2>3. PICK i \in DOMAIN v.items : t \in Texts(RedactLeaf(v.items[i]))
    BY <2>2, ValueTexts
  <2>4. \E s \in Texts(v.items[i]) : t = s \/ t = RedactString(s)
    BY <2>3, LeafTexts
  <2>5. AllTexts(v) \subseteq Exposed(v)
    BY <1>4 DEF Exposed, AllTexts, Written
  <2> QED  BY <1>4, <2>4, <2>5, ValueTexts
<1>5. CASE v.kind = "changes"
  <2> DEFINE items == [i \in DOMAIN v.items |->
                [v.items[i] EXCEPT !.old = RedactNamedLeaf(v.items[i].field, @),
                                   !.new = RedactNamedLeaf(v.items[i].field, @)]]
  <2>1. RedactValue(v) = Changes(items)
    BY <1>5 DEF RedactValue
  <2>2. /\ DOMAIN items = DOMAIN v.items
         /\ \A i \in DOMAIN v.items :
               items[i] = [v.items[i] EXCEPT
                              !.old = RedactNamedLeaf(v.items[i].field, @),
                              !.new = RedactNamedLeaf(v.items[i].field, @)]
    OBVIOUS
  <2> HIDE DEF items
  <2>3. RedactValue(v).kind = "changes" /\ RedactValue(v).items = items
    BY <2>1 DEF Changes
  <2>4. PICK i \in DOMAIN items : t \in Texts(items[i].old) \cup Texts(items[i].new)
    BY <2>3, ValueTexts
  <2> DEFINE c == v.items[i]
  <2>5. c \in Range(v.items)
    BY <2>4, <2>2, RangeOf
  <2>6. DOMAIN c = {"field", "old", "new"}
    BY <1>5, <2>5
  <2>7. items[i] = [c EXCEPT !.old = RedactNamedLeaf(c.field, @),
                             !.new = RedactNamedLeaf(c.field, @)]
    BY <2>4, <2>2
  <2> HIDE DEF c
  <2>8. /\ items[i].old = RedactNamedLeaf(c.field, c.old)
        /\ items[i].new = RedactNamedLeaf(c.field, c.new)
    BY <2>6, <2>7
  <2>9. PICK leaf \in {c.old, c.new} : t \in Texts(RedactNamedLeaf(c.field, leaf))
    BY <2>4, <2>8
  <2>10. leaf # Nil /\ t \in Texts(Named(c.field, leaf))
    BY <1>2, <2>9 DEF RedactNamedLeaf
  <2>11. CASE IsSensitiveKey(c.field)
    BY <1>1, <1>2, <2>10, <2>11
  <2>12. CASE ~IsSensitiveKey(c.field)
    <3>1. \E s \in Texts(leaf) : t = s \/ t = RedactString(s)
      BY <1>1, <2>10, <2>12, LeafTexts
    <3>2. Texts(leaf) \subseteq Exposed(v)
      <4>1. UNION {Texts(d.old) \cup Texts(d.new) :
                d \in {d \in Range(v.items) : ~IsSensitiveKey(d.field)}}
               \subseteq Exposed(v)
        BY <1>5 DEF Exposed, Written
      <4> QED  BY <2>5, <2>9, <2>12, <4>1
    <3> QED  BY <3>1, <3>2
  <2> QED  BY <2>11, <2>12
<1>6. CASE v.kind \notin {"fields", "list", "changes"}
  <2>1. RedactValue(v) = RedactLeaf(v) /\ AllTexts(v) \subseteq Exposed(v)
    <3>1. Exposed(v) = UNION {Written(leaf) : leaf \in Leaves(v)}
      BY <1>6 DEF Exposed
    <3>2. AllTexts(v) \subseteq Exposed(v)
      BY <1>6, <3>1 DEF AllTexts, Written
    <3>3. RedactValue(v) = RedactLeaf(v)
      BY <1>6 DEF RedactValue
    <3> QED  BY <3>2, <3>3
  <2>2. AllTexts(RedactLeaf(v)) = Texts(RedactLeaf(v)) /\ AllTexts(v) = Texts(v)
    BY <1>6, LeafTexts, ValueTexts
  <2> QED  BY <2>1, <2>2, LeafTexts
<1> QED  BY <1>3, <1>4, <1>5, <1>6

\* What stands in a typed value of a redacted one, no sensitive key names that
\* redaction sees.
LEMMA ShownUnseen ==
    ASSUME NEW v,
           v.kind = "changes" =>
              \A c \in Range(v.items) : DOMAIN c = {"field", "old", "new"}
    PROVE  AllUnseen(RedactValue(v)) \subseteq Exposed(v)
<1>1. \A name, leaf : Unseen(Named(name, leaf)) =
                         IF IsSensitiveKey(name) THEN {} ELSE Unseen(leaf)
  <2>1. Unseen(Text(RedactedValue)) = {}
    BY DEF Unseen, Text
  <2> QED  BY <2>1, LeafUnseen DEF Named
<1>2. Unseen(Nil) = {}
  BY DEF Unseen, Nil
<1>3. CASE v.kind = "fields"
  <2> DEFINE fields == [k \in DOMAIN v.fields |-> Named(k, v.fields[k])]
  <2>1. RedactValue(v) = Fields(fields)
    BY <1>3 DEF RedactValue
  <2>2. RedactValue(v).kind = "fields" /\ RedactValue(v).fields = fields
    BY <2>1 DEF Fields
  <2>3. UNION {Unseen(v.fields[k]) :
           k \in {k \in DOMAIN v.fields : ~IsSensitiveKey(k)}} \subseteq Exposed(v)
    BY <1>3 DEF Exposed, Written
  <2>4. AllUnseen(RedactValue(v)) = UNION {Unseen(fields[k]) : k \in DOMAIN fields}
    BY <2>2, ValueUnseen
  <2>5. \A k \in DOMAIN fields : k \in DOMAIN v.fields /\ Unseen(fields[k]) =
                IF IsSensitiveKey(k) THEN {} ELSE Unseen(v.fields[k])
    BY <1>1
  <2> HIDE DEF fields
  <2> QED  BY <2>3, <2>4, <2>5
<1>4. CASE v.kind = "list"
  <2> DEFINE items == [i \in DOMAIN v.items |-> RedactLeaf(v.items[i])]
  <2>1. RedactValue(v) = List(items)
    BY <1>4 DEF RedactValue
  <2>2. RedactValue(v).kind = "list" /\ RedactValue(v).items = items
    BY <2>1 DEF List
  <2>3. AllUnseen(v) \subseteq Exposed(v)
    BY <1>4 DEF Exposed, AllUnseen, Written
  <2>4. AllUnseen(RedactValue(v)) = UNION {Unseen(items[i]) : i \in DOMAIN items}
    BY <2>2, ValueUnseen
  <2>5. AllUnseen(v) = UNION {Unseen(v.items[i]) : i \in DOMAIN v.items}
    BY <1>4, ValueUnseen
  <2>6. \A i \in DOMAIN items :
           i \in DOMAIN v.items /\ Unseen(items[i]) = Unseen(v.items[i])
    BY LeafUnseen
  <2> HIDE DEF items
  <2> QED  BY <2>3, <2>4, <2>5, <2>6
<1>5. CASE v.kind = "changes"
  <2> DEFINE items == [i \in DOMAIN v.items |->
                [v.items[i] EXCEPT !.old = RedactNamedLeaf(v.items[i].field, @),
                                   !.new = RedactNamedLeaf(v.items[i].field, @)]]
  <2>1. RedactValue(v) = Changes(items)
    BY <1>5 DEF RedactValue
  <2>2. /\ DOMAIN items = DOMAIN v.items
         /\ \A i \in DOMAIN v.items :
               items[i] = [v.items[i] EXCEPT
                              !.old = RedactNamedLeaf(v.items[i].field, @),
                              !.new = RedactNamedLeaf(v.items[i].field, @)]
    OBVIOUS
  <2> HIDE DEF items
  <2>3. RedactValue(v).kind = "changes" /\ RedactValue(v).items = items
    BY <2>1 DEF Changes
  <2>4. ASSUME NEW i \in DOMAIN items
        PROVE  Unseen(items[i].old) \cup Unseen(items[i].new) \subseteq Exposed(v)
    <3> DEFINE c == v.items[i]
    <3>1. c \in Range(v.items)
      BY <2>2, RangeOf
    <3>2. DOMAIN c = {"field", "old", "new"}
      BY <1>5, <3>1
    <3>3. items[i] = [c EXCEPT !.old = RedactNamedLeaf(c.field, @),
                               !.new = RedactNamedLeaf(c.field, @)]
      BY <2>2
    <3> HIDE DEF c
    <3>4. /\ items[i].old = RedactNamedLeaf(c.field, c.old)
          /\ items[i].new = RedactNamedLeaf(c.field, c.new)
      BY <3>2, <3>3
    <3>5. \A leaf : Unseen(RedactNamedLeaf(c.field, leaf))
                       \subseteq IF IsSensitiveKey(c.field) THEN {} ELSE Unseen(leaf)
      BY <1>1, <1>2 DEF RedactNamedLeaf
    <3>6. ~IsSensitiveKey(c.field) => Unseen(c.old) \cup Unseen(c.new) \subseteq Exposed(v)
      <4>1. UNION {Unseen(d.old) \cup Unseen(d.new) :
                d \in {d \in Range(v.items) : ~IsSensitiveKey(d.field)}}
               \subseteq Exposed(v)
        BY <1>5 DEF Exposed, Written
      <4> QED  BY <3>1, <4>1
    <3> QED  BY <3>4, <3>5, <3>6
  <2>5. AllUnseen(RedactValue(v)) = UNION {Unseen(items[i].old) \cup Unseen(items[i].new) :
                                              i \in DOMAIN items}
    BY <2>3, ValueUnseen
  <2> QED  BY <2>4, <2>5
<1>6. CASE v.kind \notin {"fields", "list", "changes"}
  <2>1. RedactValue(v) = RedactLeaf(v) /\ AllUnseen(v) \subseteq Exposed(v)
    <3>1. Exposed(v) = UNION {Written(leaf) : leaf \in Leaves(v)}
      BY <1>6 DEF Exposed
    <3>2. AllUnseen(v) \subseteq Exposed(v)
      BY <1>6, <3>1 DEF AllUnseen, Written
    <3>3. RedactValue(v) = RedactLeaf(v)
      BY <1>6 DEF RedactValue
    <3> QED  BY <3>2, <3>3
  <2>2. AllUnseen(RedactLeaf(v)) = Unseen(RedactLeaf(v)) /\ AllUnseen(v) = Unseen(v)
    BY <1>6, LeafTexts, ValueUnseen
  <2> QED  BY <2>1, <2>2, LeafUnseen
<1> QED  BY <1>3, <1>4, <1>5, <1>6

\* What is exposed is part of the value.
LEMMA ExposedTexts == \A v : Exposed(v) \subseteq AllTexts(v) \cup AllUnseen(v)
<1> SUFFICES ASSUME NEW v  PROVE Exposed(v) \subseteq AllTexts(v) \cup AllUnseen(v)
  OBVIOUS
<1>1. CASE v.kind = "fields"
  <2>1. Exposed(v) = DOMAIN v.fields \cup UNION {Written(v.fields[k]) :
                        k \in {k \in DOMAIN v.fields : ~IsSensitiveKey(k)}}
    BY <1>1 DEF Exposed
  <2> QED  BY <1>1, <2>1, ValueTexts, ValueUnseen DEF Written
<1>2. CASE v.kind = "changes"
  <2>1. Exposed(v) = UNION {Written(c.old) \cup Written(c.new) :
                c \in {c \in Range(v.items) : ~IsSensitiveKey(c.field)}}
    BY <1>2 DEF Exposed
  <2> QED  BY <1>2, <2>1, RangeOf, ValueTexts, ValueUnseen DEF Written
<1>3. CASE v.kind \notin {"fields", "changes"}
  BY <1>3 DEF Exposed, Written, AllTexts, AllUnseen
<1> QED  BY <1>1, <1>2, <1>3

-----------------------------------------------------------------------------
(* Events                                                                  *)

\* An event that brings a key and no id has the key for its id.
Keyed(from, now) == OnlyKeyed(from) => now.text["eventID"] = KeyOf(from)

\* An event a call makes: what a text may be is said of Runes.
Shaped(e) ==
    /\ DOMAIN e = EventFields /\ e = [f \in EventFields |-> e[f]]
    /\ e.text \in [TextFields -> Seq(STRING)]
    /\ \A v \in Untyped(e) :
          /\ AllTexts(v) \cup AllUnseen(v) \subseteq Seq(Runes)
          /\ v.kind = "changes" =>
                \A c \in Range(v.items) : DOMAIN c = {"field", "old", "new"}
Guarded(e) ==
    \A v \in ExposedValues(e) : \A t \in Exposed(v) : "y" \notin Range(t)

\* withDefaults gives the event its id (client.go:232-256); the limits do
\* not look at the other texts it changes.
LEMMA DefaultsKeep ==
    ASSUME NEW e, DOMAIN e = EventFields, DOMAIN e.text = TextFields, NEW id
    PROVE  LET d == WithDefaults(e, id)
           IN  /\ DOMAIN d = EventFields /\ DOMAIN d.text = TextFields
               /\ d.metadata = e.metadata /\ d.data = e.data
               /\ d.changes = e.changes
               /\ d.oldValue = e.oldValue /\ d.newValue = e.newValue
               /\ \A f \in TextFields \ (Unlimited \cup {"idempotencyKey"}) :
                     d.text[f] = e.text[f]
               /\ d.text["fieldName"] = e.text["fieldName"]
               /\ Keyed(e, d)
<1> DEFINE key == Trim(e.text["idempotencyKey"])
           new == Default(Default(e.text["eventID"], key), id)
           text == [f \in DOMAIN e.text |->
              CASE f = "idempotencyKey" -> Default(key, new)
                [] f = "eventID" -> new
                [] f = "occurredAt" -> Default(e.text[f], <<"t">>)
                [] f \in {"environment", "service"} ->
                       Default(e.text[f], <<"c">>)
                [] OTHER -> e.text[f]]
           d == WithDefaults(e, id)
<1>1. d = [e EXCEPT !.text = text]
  BY DEF WithDefaults
<1>2. OnlyKeyed(e) => new = KeyOf(e)
  BY DEF OnlyKeyed, KeyOf, Default
<1> HIDE DEF key, new
<1>3. /\ DOMAIN text = TextFields /\ text["eventID"] = new
      /\ \A f \in TextFields \ (Unlimited \cup {"idempotencyKey"}) :
            text[f] = e.text[f]
      /\ text["fieldName"] = e.text["fieldName"]
  BY DEF Unlimited, TextFields
<1> HIDE DEF text, d
<1>4. /\ d.text = text /\ DOMAIN d = EventFields
      /\ d.metadata = e.metadata /\ d.data = e.data
      /\ d.changes = e.changes
      /\ d.oldValue = e.oldValue /\ d.newValue = e.newValue
  BY <1>1 DEF EventFields
<1> QED  BY <1>2, <1>3, <1>4 DEF d, Keyed

\* redactEvent, field by field (redaction.go:166-177).
LEMMA RedactionParts ==
    ASSUME NEW d, DOMAIN d = EventFields, DOMAIN d.text = TextFields
    PROVE  LET r == RedactEvent(d)
           IN  /\ DOMAIN r = EventFields /\ DOMAIN r.text = TextFields
               /\ \A f \in TextFields :
                     r.text[f] = IF f \in RedactedTexts
                                 THEN RedactString(d.text[f]) ELSE d.text[f]
               /\ r.metadata = RedactValue(d.metadata)
               /\ r.data = RedactValue(d.data)
               /\ r.changes = RedactValue(d.changes)
               /\ r.oldValue = RedactNamedValue(d.text["fieldName"], d.oldValue)
               /\ r.newValue = RedactNamedValue(d.text["fieldName"], d.newValue)
<1> DEFINE text == [f \in DOMAIN d.text |-> IF f \in RedactedTexts
                                            THEN RedactString(d.text[f])
                                            ELSE d.text[f]]
           old == RedactNamedValue(d.text["fieldName"], d.oldValue)
           new == RedactNamedValue(d.text["fieldName"], d.newValue)
           r == RedactEvent(d)
<1>1. r = [d EXCEPT !.text = text, !.metadata = RedactValue(@),
                    !.data = RedactValue(@), !.changes = RedactValue(@),
                    !.oldValue = old, !.newValue = new]
  BY DEF RedactEvent
<1>2. DOMAIN text = TextFields /\ \A f \in TextFields :
           text[f] = IF f \in RedactedTexts THEN RedactString(d.text[f])
                                            ELSE d.text[f]
  OBVIOUS
<1> HIDE DEF text, old, new, r
<1>3. /\ DOMAIN r = EventFields /\ r.text = text
      /\ r.metadata = RedactValue(d.metadata) /\ r.data = RedactValue(d.data)
      /\ r.changes = RedactValue(d.changes) /\ r.oldValue = old
      /\ r.newValue = new
  BY <1>1 DEF EventFields
<1> QED  BY <1>2, <1>3 DEF old, new, r

\* limitEvent, field by field (limit.go:28-70).
LEMMA LimitParts ==
    ASSUME NEW r, DOMAIN r = EventFields, DOMAIN r.text = TextFields,
           NEW l \in LimitedForms(r)
    PROVE  /\ \A f \in TextFields :
                 l.text[f] = IF f \in Unlimited THEN r.text[f]
                             ELSE Truncate(r.text[f])
           /\ l.metadata \in LimitJSONValue(r.metadata, MaxMetadataBytes)
           /\ l.data \in LimitJSONValue(r.data, MaxDataBytes)
           /\ l.changes \in LimitJSONValue(r.changes, MaxAuditValueBytes)
           /\ l.oldValue \in LimitJSONValue(r.oldValue, MaxAuditValueBytes)
           /\ l.newValue \in LimitJSONValue(r.newValue, MaxAuditValueBytes)
<1> DEFINE text == [f \in DOMAIN r.text |-> IF f \in Unlimited THEN r.text[f]
                                            ELSE Truncate(r.text[f])]
           limited == [metadata : LimitJSONValue(r.metadata, MaxMetadataBytes),
                       data : LimitJSONValue(r.data, MaxDataBytes),
                       changes : LimitJSONValue(r.changes, MaxAuditValueBytes),
                       oldValue : LimitJSONValue(r.oldValue, MaxAuditValueBytes),
                       newValue : LimitJSONValue(r.newValue, MaxAuditValueBytes)]
<1>1. PICK v \in limited : l = [f \in DOMAIN r |-> CASE f = "text" -> text
                                                    [] f \in DOMAIN v -> v[f]
                                                    [] OTHER -> r[f]]
  BY DEF LimitedForms
<1>2. \A f \in TextFields : text[f] = IF f \in Unlimited THEN r.text[f]
                                      ELSE Truncate(r.text[f])
  OBVIOUS
<1> HIDE DEF text
<1>3. /\ DOMAIN v = {"metadata", "data", "changes", "oldValue", "newValue"}
      /\ v.metadata \in LimitJSONValue(r.metadata, MaxMetadataBytes)
      /\ v.data \in LimitJSONValue(r.data, MaxDataBytes)
      /\ v.changes \in LimitJSONValue(r.changes, MaxAuditValueBytes)
      /\ v.oldValue \in LimitJSONValue(r.oldValue, MaxAuditValueBytes)
      /\ v.newValue \in LimitJSONValue(r.newValue, MaxAuditValueBytes)
  OBVIOUS
<1> HIDE DEF limited
<1>4. /\ l.text = text /\ l.metadata = v.metadata /\ l.data = v.data
      /\ l.changes = v.changes /\ l.oldValue = v.oldValue
      /\ l.newValue = v.newValue
  BY <1>1, <1>3 DEF EventFields
<1> QED  BY <1>2, <1>3, <1>4

\* A text of metadata, data or changes once redacted and limited.
LEMMA ShownFits ==
    ASSUME NEW X \in SUBSET Runes, {".", "~", "R", "t"} \subseteq X,
           NEW v, Exposed(v) \subseteq Seq(X),
           v.kind = "changes" =>
              \A c \in Range(v.items) : DOMAIN c = {"field", "old", "new"},
           NEW max \in Nat, NEW r \in LimitJSONValue(RedactValue(v), max),
           NEW t \in AllTexts(r)
    PROVE  t \in Seq(X) /\ (MaxStringBytes > 0 => Bytes(t) <= MaxStringBytes)
<1>1. CASE t = <<"t">>
  <2>1. Bytes(t) = 1
    BY <1>1, BytesOfFew DEF Width
  <2>2. MaxStringBytes \in Nat
    BY PreparationAssumption
  <2>3. t \in Seq(X)
    BY <1>1
  <2> QED  BY <2>1, <2>2, <2>3
<1>2. CASE \E s \in AllTexts(RedactValue(v)) : t = Truncate(s)
  <2>1. PICK s \in AllTexts(RedactValue(v)) : t = Truncate(s)
    BY <1>2
  <2>2. s \in Seq(X)
    <3>1. s = RedactedValue \/ \E u \in Exposed(v) : s = u \/ s = RedactString(u)
      BY ShownTexts
    <3>2. \A u \in Exposed(v) : RedactString(u) \in Seq(X)
      BY RedactedRunes
    <3>3. RedactedValue \in Seq(X)
      BY DEF RedactedValue
    <3> QED  BY <3>1, <3>2, <3>3
  <2> QED  BY <2>1, <2>2, TruncateCuts
<1> QED  BY <1>1, <1>2, LimitedJSON

\* The same of OldValue and NewValue, which FieldName may hide.
LEMMA NamedFits ==
    ASSUME NEW X \in SUBSET Runes, {".", "~", "R", "t"} \subseteq X,
           NEW name, NEW v, IsSensitiveKey(name) \/ Exposed(v) \subseteq Seq(X),
           v.kind = "changes" =>
              \A c \in Range(v.items) : DOMAIN c = {"field", "old", "new"},
           NEW max \in Nat,
           NEW r \in LimitJSONValue(RedactNamedValue(name, v), max),
           NEW t \in AllTexts(r)
    PROVE  t \in Seq(X) /\ (MaxStringBytes > 0 => Bytes(t) <= MaxStringBytes)
<1>1. CASE v = Nil
  <2>1. RedactNamedValue(name, v) = RedactValue(v)
    BY <1>1 DEF RedactNamedValue, RedactValue, RedactLeaf, Nil
  <2>2. Exposed(v) = {}
    <3>1. AllTexts(Nil) = {} /\ AllUnseen(Nil) = {}
      BY ValueTexts, ValueUnseen DEF Nil, Texts, Unseen
    <3> QED  BY <1>1, <3>1, ExposedTexts
  <2> QED  BY <2>1, <2>2, ShownFits
<1>2. CASE v # Nil /\ IsSensitiveKey(name)
  <2>1. RedactNamedValue(name, v) = Text(RedactedValue)
    BY <1>2 DEF RedactNamedValue
  <2>2. AllTexts(Text(RedactedValue)) = {RedactedValue}
    BY ValueTexts DEF Text, Texts
  <2>3. t = <<"t">> \/ t = Truncate(RedactedValue)
    BY <2>1, <2>2, LimitedJSON
  <2>4. RedactedValue \in Seq(X) /\ <<"t">> \in Seq(X)
    BY DEF RedactedValue
  <2>5. Bytes(<<"t">>) = 1 /\ MaxStringBytes \in Nat
    BY BytesOfFew, PreparationAssumption DEF Width
  <2>6. CASE t = <<"t">>
    BY <2>4, <2>5, <2>6
  <2>7. CASE t = Truncate(RedactedValue)
    BY <2>4, <2>7, TruncateCuts
  <2> QED  BY <2>3, <2>6, <2>7
<1>3. CASE v # Nil /\ ~IsSensitiveKey(name)
  <2>1. RedactNamedValue(name, v) = RedactValue(v)
    BY <1>3 DEF RedactNamedValue
  <2> QED  BY <1>3, <2>1, ShownFits
<1> QED  BY <1>1, <1>2, <1>3

\* What no step looks at in a value that FieldName may hide is exposed.
LEMMA NamedUnseen ==
    ASSUME NEW name, NEW v,
           v.kind = "changes" =>
              \A c \in Range(v.items) : DOMAIN c = {"field", "old", "new"}
    PROVE  AllUnseen(RedactNamedValue(name, v))
              \subseteq IF IsSensitiveKey(name) THEN {} ELSE Exposed(v)
<1>1. AllUnseen(Nil) = {} /\ AllUnseen(Text(RedactedValue)) = {}
  BY ValueUnseen DEF Nil, Text, Unseen
<1> QED  BY <1>1, ShownUnseen DEF RedactNamedValue

\* What leaves the limits is as its metadata, its data and its audit values
\* were, whatever the set of runes their exposed texts are made of.
LEMMA PreparedTexts ==
    ASSUME NEW e, Shaped(e), NEW id,
           NEW l \in LimitedForms(RedactEvent(WithDefaults(e, id))),
           NEW X \in SUBSET Runes, {".", "~", "R", "t"} \subseteq X,
           \A v \in ExposedValues(e) : Exposed(v) \subseteq Seq(X)
    PROVE  \A v \in Untyped(l) :
              /\ AllUnseen(v) \subseteq Seq(X)
              /\ \A t \in AllTexts(v) :
                    t \in Seq(X) /\ (MaxStringBytes > 0 => Bytes(t) <= MaxStringBytes)
<1> DEFINE d == WithDefaults(e, id)
           r == RedactEvent(d)
           name == e.text["fieldName"]
           Regular(v) == v.kind = "changes" =>
              \A c \in Range(v.items) : DOMAIN c = {"field", "old", "new"}
           Brief(v) == \A t \in AllTexts(v) :
              t \in Seq(X) /\ (MaxStringBytes > 0 => Bytes(t) <= MaxStringBytes)
<1>1. /\ DOMAIN d = EventFields /\ DOMAIN d.text = TextFields
      /\ d.metadata = e.metadata /\ d.data = e.data /\ d.changes = e.changes
      /\ d.oldValue = e.oldValue /\ d.newValue = e.newValue
      /\ d.text["fieldName"] = name
  BY DefaultsKeep DEF Shaped
<1> HIDE DEF d
<1>2. /\ DOMAIN r = EventFields /\ DOMAIN r.text = TextFields
      /\ r.metadata = RedactValue(e.metadata) /\ r.data = RedactValue(e.data)
      /\ r.changes = RedactValue(e.changes)
      /\ r.oldValue = RedactNamedValue(name, e.oldValue)
      /\ r.newValue = RedactNamedValue(name, e.newValue)
  BY <1>1, RedactionParts
<1>3. l \in LimitedForms(r)
  BY DEF d
<1> HIDE DEF r
<1>4. /\ l.metadata \in LimitJSONValue(r.metadata, MaxMetadataBytes)
      /\ l.data \in LimitJSONValue(r.data, MaxDataBytes)
      /\ l.changes \in LimitJSONValue(r.changes, MaxAuditValueBytes)
      /\ l.oldValue \in LimitJSONValue(r.oldValue, MaxAuditValueBytes)
      /\ l.newValue \in LimitJSONValue(r.newValue, MaxAuditValueBytes)
  BY <1>2, <1>3, LimitParts
<1>5. /\ Regular(e.metadata) /\ Regular(e.data) /\ Regular(e.changes)
      /\ Regular(e.oldValue) /\ Regular(e.newValue)
  BY DEF Shaped, Untyped
<1>6. /\ Exposed(e.metadata) \subseteq Seq(X) /\ Exposed(e.data) \subseteq Seq(X)
      /\ Exposed(e.changes) \subseteq Seq(X)
      /\ IsSensitiveKey(name) \/ Exposed(e.oldValue) \subseteq Seq(X)
      /\ IsSensitiveKey(name) \/ Exposed(e.newValue) \subseteq Seq(X)
  BY DEF ExposedValues
<1>7. /\ MaxMetadataBytes \in Nat /\ MaxDataBytes \in Nat
      /\ MaxAuditValueBytes \in Nat
  BY PreparationAssumption
<1> HIDE DEF name
<1>8. Brief(l.metadata)
  BY <1>2, <1>4, <1>5, <1>6, <1>7, ShownFits
<1>9. Brief(l.data)
  BY <1>2, <1>4, <1>5, <1>6, <1>7, ShownFits
<1>10. Brief(l.changes)
  BY <1>2, <1>4, <1>5, <1>6, <1>7, ShownFits
<1>11. Brief(l.oldValue)
  BY <1>2, <1>4, <1>5, <1>6, <1>7, NamedFits
<1>12. Brief(l.newValue)
  BY <1>2, <1>4, <1>5, <1>6, <1>7, NamedFits
<1> HIDE DEF Brief
<1>13. \A v \in Untyped(l) : Brief(v)
  BY <1>8, <1>9, <1>10, <1>11, <1>12 DEF Untyped
<1>14. /\ AllUnseen(l.metadata) \subseteq AllUnseen(r.metadata)
       /\ AllUnseen(l.data) \subseteq AllUnseen(r.data)
       /\ AllUnseen(l.changes) \subseteq AllUnseen(r.changes)
       /\ AllUnseen(l.oldValue) \subseteq AllUnseen(r.oldValue)
       /\ AllUnseen(l.newValue) \subseteq AllUnseen(r.newValue)
  BY <1>4, <1>7, LimitedJSON
<1>15. /\ AllUnseen(r.metadata) \subseteq Seq(X) /\ AllUnseen(r.data) \subseteq Seq(X)
       /\ AllUnseen(r.changes) \subseteq Seq(X)
  BY <1>2, <1>5, <1>6, ShownUnseen
<1>16. AllUnseen(r.oldValue) \subseteq Seq(X) /\ AllUnseen(r.newValue) \subseteq Seq(X)
  BY <1>2, <1>5, <1>6, NamedUnseen
<1>17. \A v \in Untyped(l) : AllUnseen(v) \subseteq Seq(X)
  BY <1>14, <1>15, <1>16 DEF Untyped
<1> QED  BY <1>13, <1>17 DEF Brief

\* Neither redaction nor limits touch EventID.
LEMMA PreparedKeyed ==
    ASSUME NEW e, Shaped(e), NEW id,
           NEW l \in LimitedForms(RedactEvent(WithDefaults(e, id)))
    PROVE  Keyed(e, l)
<1> DEFINE d == WithDefaults(e, id)
           r == RedactEvent(d)
<1>1. DOMAIN d = EventFields /\ DOMAIN d.text = TextFields /\ Keyed(e, d)
  BY DefaultsKeep DEF Shaped
<1> HIDE DEF d
<1>2. "eventID" \in TextFields /\ "eventID" \notin RedactedTexts
      /\ "eventID" \in Unlimited
  BY DEF TextFields, RedactedTexts, Unlimited
<1>3. /\ DOMAIN r = EventFields /\ DOMAIN r.text = TextFields
      /\ r.text["eventID"] = d.text["eventID"]
  BY <1>1, <1>2, RedactionParts
<1>4. l \in LimitedForms(r)
  BY DEF d
<1> HIDE DEF r
<1>5. l.text["eventID"] = r.text["eventID"]
  BY <1>2, <1>3, <1>4, LimitParts
<1> QED  BY <1>1, <1>3, <1>5 DEF Keyed

\* What limitEvent returns without an error is within the limits.
LEMMA PreparedFits ==
    ASSUME NEW e, Shaped(e), NEW id,
           NEW l \in LimitedForms(RedactEvent(WithDefaults(e, id))),
           LimitError(l) = "ok"
    PROVE  Fits(e, l)
<1> DEFINE d == WithDefaults(e, id)
           r == RedactEvent(d)
           cut == TextFields \ (Unlimited \cup {"idempotencyKey"})
<1>1. /\ DOMAIN d = EventFields /\ DOMAIN d.text = TextFields
      /\ \A f \in cut : d.text[f] = e.text[f]
  BY DefaultsKeep DEF Shaped
<1> HIDE DEF d
<1>2. /\ DOMAIN r = EventFields /\ DOMAIN r.text = TextFields
      /\ \A f \in TextFields : r.text[f] = IF f \in RedactedTexts
                                  THEN RedactString(d.text[f]) ELSE d.text[f]
  BY <1>1, RedactionParts
<1>3. l \in LimitedForms(r)
  BY DEF d
<1> HIDE DEF r
<1>4. /\ \A f \in cut : l.text[f] = Truncate(r.text[f])
      /\ l.metadata \in LimitJSONValue(r.metadata, MaxMetadataBytes)
      /\ l.data \in LimitJSONValue(r.data, MaxDataBytes)
      /\ l.changes \in LimitJSONValue(r.changes, MaxAuditValueBytes)
      /\ l.oldValue \in LimitJSONValue(r.oldValue, MaxAuditValueBytes)
      /\ l.newValue \in LimitJSONValue(r.newValue, MaxAuditValueBytes)
  BY <1>2, <1>3, LimitParts
<1>5. /\ JSONSize(l.data) <= MaxDataBytes /\ JSONSize(l.metadata) <= MaxMetadataBytes
      /\ \A v \in {l.changes, l.oldValue, l.newValue} :
            JSONSize(v) <= MaxAuditValueBytes
  BY <1>4, LimitedJSON, PreparationAssumption
<1>6. EventSize(l) <= MaxEventBytes
  BY DEF LimitError
<1>7. ASSUME NEW f \in cut
      PROVE  Cut(IF f \in RedactedTexts THEN RedactString(e.text[f])
                                        ELSE e.text[f], l.text[f])
  <2>1. e.text[f] \in Seq(Runes)
    BY TextsAreRunes DEF Shaped
  <2>2. r.text[f] = IF f \in RedactedTexts THEN RedactString(e.text[f])
                                           ELSE e.text[f]
    BY <1>1, <1>2
  <2>3. {".", "~", "R"} \subseteq Runes
    BY DEF Runes
  <2>4. r.text[f] \in Seq(Runes)
    BY <2>1, <2>2, <2>3, RedactedRunes
  <2>5. l.text[f] = Truncate(r.text[f])
    BY <1>4
  <2>6. Cut(r.text[f], Truncate(r.text[f]))
    BY <2>3, <2>4, TruncateCuts
  <2> QED  BY <2>2, <2>5, <2>6
<1>8. MaxStringBytes > 0 =>
         \A v \in Untyped(l) : \A t \in AllTexts(v) : Bytes(t) <= MaxStringBytes
  <2>1. {".", "~", "R", "t"} \subseteq Runes
    BY DEF Runes
  <2>2. \A v \in ExposedValues(e) : Exposed(v) \subseteq Seq(Runes)
    BY ExposedTexts DEF Shaped, ExposedValues, Untyped
  <2> QED  BY <2>1, <2>2, PreparedTexts
<1> QED  BY <1>5, <1>6, <1>7, <1>8 DEF Fits

\* What a sensitive key named is masked before the key may be cut.
LEMMA PreparedHides ==
    ASSUME NEW e, Shaped(e), Guarded(e), NEW id,
           NEW l \in LimitedForms(RedactEvent(WithDefaults(e, id)))
    PROVE  Hides(l)
<1>1. Clean \in SUBSET Runes /\ {".", "~", "R", "t"} \subseteq Clean
  BY DEF Clean, Runes
<1>2. \A v \in ExposedValues(e) : Exposed(v) \subseteq Seq(Runes)
  BY ExposedTexts DEF Shaped, ExposedValues, Untyped
<1>3. \A v \in ExposedValues(e) : Exposed(v) \subseteq Seq(Clean)
  BY <1>2, CleanTexts DEF Guarded
<1>4. \A v \in Untyped(l) : \A t \in AllTexts(v) \cup AllUnseen(v) : t \in Seq(Clean)
  BY <1>1, <1>3, PreparedTexts
<1> QED  BY <1>4, TextsAreRunes, CleanTexts DEF Hides

-----------------------------------------------------------------------------
(* The body of a request                                                     *)

\* What is buffered is a prefix of the body, whatever the limit and wherever
\* reading fails, so that what is put back is the body
\* (bodycapture.go:44-61).
LEMMA BufferIsPrefix ==
    ASSUME NEW X, NEW b \in Seq(X), NEW option \in Int
    PROVE  \E m \in 0..Len(b) : Buffer(b, option) = SubSeq(b, 1, m)
<1>1. Len(b) \in Nat
  BY LenProperties
<1> DEFINE limit == Successor(MaxBytes(option))
           n == IF limit < 0 THEN 0
                ELSE IF limit > Len(b) THEN Len(b) ELSE limit
           errors == {i \in 1..n : b[i] = "!"}
           m == IF errors = {} THEN n ELSE Min(errors) - 1
<1>2. limit \in Int
  BY CaptureAssumption DEF Successor, MaxBytes
<1> HIDE DEF limit
<1>3. n \in 0..Len(b)
  BY <1>1, <1>2
<1> HIDE DEF n
<1>4. errors # {} => Min(errors) \in 1..n
  <2>1. IsFiniteSet(1..n) /\ 1..n \subseteq Nat /\ errors \subseteq 1..n
    BY <1>3, FS_Interval
  <2>2. IsFiniteSet(errors) /\ errors \in SUBSET Nat
    BY <2>1, FS_Subset
  <2> HIDE DEF errors
  <2> QED  BY <2>1, <2>2, MinIsLeast
<1> HIDE DEF errors
<1>5. m \in 0..Len(b)
  BY <1>1, <1>3, <1>4
<1>6. Buffer(b, option) = SubSeq(b, 1, m)
  BY DEF Buffer, ReadLimited, limit, n, errors
<1> QED  BY <1>5, <1>6

\* What is put back is the body.
LEMMA RestoredIsBody ==
    ASSUME NEW b \in Seq(STRING), NEW option \in Int
    PROVE  Restored(b, option) = b
<1>1. Len(b) \in Nat
  BY LenProperties
<1>2. PICK m \in 0..Len(b) : Buffer(b, option) = SubSeq(b, 1, m)
  BY BufferIsPrefix
<1>3. Len(SubSeq(b, 1, m)) = m
  BY <1>1, ElementOfSeq, SubSeqProperties
<1>4. SubSeq(b, 1, m) \o SubSeq(b, m + 1, Len(b)) = SubSeq(b, 1, Len(b))
  <2>1. /\ 1 \in 1..Len(b) + 1 /\ m \in 1 - 1..Len(b)
        /\ Len(b) \in m..Len(b)
    BY <1>1
  <2> QED  BY <2>1, ConcatAdjacentSubSeq
<1> QED  BY <1>2, <1>3, <1>4, SubSeqFull DEF Restored

\* What is captured is made of the body.
LEMMA CapturedIsOfBody ==
    ASSUME NEW X, NEW b \in Seq(X), NEW option \in Int
    PROVE  Captured(b, option) \in Seq(X)
<1>1. PICK m \in 0..Len(b) : Buffer(b, option) = SubSeq(b, 1, m)
  BY BufferIsPrefix
<1> DEFINE buffer == Buffer(b, option)
<1>2. buffer \in Seq(X)
  BY <1>1
<1>3. MaxBytes(option) \in Nat
  BY CaptureAssumption DEF MaxBytes
<1> HIDE DEF buffer
<1>4. Len(buffer) > MaxBytes(option) =>
         SubSeq(buffer, 1, MaxBytes(option)) \in Seq(X)
  BY <1>2, <1>3
<1>5. <<>> \in Seq(X)
  OBVIOUS
<1>6. \/ Captured(b, option) = <<>> \/ Captured(b, option) = buffer
      \/ /\ Len(buffer) > MaxBytes(option)
         /\ Captured(b, option) = SubSeq(buffer, 1, MaxBytes(option))
  BY DEF Captured, buffer
<1> QED  BY <1>2, <1>4, <1>5, <1>6

\* The calls still to make are calls, and no secret is left in a body.
Requests ==
    /\ todo \in [Callers -> Seq(CallSet)]
    /\ body \in [Callers -> [whole : Seq(STRING), read : Seq(STRING),
                             left : Seq(STRING \ {"y"})]]
    /\ BodyKept

\* The body of a request is clean.
LEMMA SpokenTexts == Seq(STRING \ {"y"}) \subseteq Seq(STRING) \cap Seq(Clean)
<1>1. STRING \ {"y"} \subseteq STRING /\ STRING \ {"y"} \subseteq Clean
  BY DEF Clean, Runes
<1> QED  BY <1>1, SeqGrows

\* The next call of a caller is a call.
LEMMA NextCall ==
    ASSUME NEW c \in Callers, Requests, todo[c] # <<>>
    PROVE  Head(todo[c]) \in CallSet /\ Tail(todo[c]) \in Seq(CallSet)
BY HeadTailProperties DEF Requests

\* A call that passes an event in names one.
LEMMA SendCalls ==
    ASSUME NEW c \in Callers, Requests, Calls(c, "send")
    PROVE  Head(todo[c]).event \in DOMAIN Content /\ Head(todo[c]).option \in Int
<1>1. todo[c] # <<>> /\ Head(todo[c]).do = "send"
  BY DEF Calls
<1>2. Head(todo[c]) \in CallSet
  BY <1>1, NextCall
<1> QED  BY <1>1, <1>2 DEF CallSet, HealthCall, CloseCall

\* The first bodies have not been read.
LEMMA InitRequests == Init => Requests
<1> SUFFICES ASSUME Init PROVE Requests
  OBVIOUS
<1>1. PICK s \in Scenarios :
         /\ todo = [c \in Callers |-> s[c].calls]
         /\ body = [c \in Callers |-> [whole |-> s[c].body, read |-> <<>>,
                                       left |-> s[c].body]]
  BY DEF Init
<1>2. \A c \in Callers : s[c].calls \in Seq(CallSet) /\ s[c].body \in Seq(STRING)
  BY ReportingAssumption
<1>3. \A c \in Callers : s[c].body \in Seq(STRING \ {"y"})
  <2>1. ASSUME NEW b \in Seq(STRING), "y" \notin Range(b)
        PROVE  b \in Seq(STRING \ {"y"})
    <3>1. Len(b) \in Nat /\ b \in [1..Len(b) -> STRING]
      OBVIOUS
    <3>2. b \in [1..Len(b) -> STRING \ {"y"}]
      BY <2>1, <3>1, RangeOf
    <3> QED  BY <3>1, <3>2
  <2> QED  BY <1>2, <2>1, SecretsAssumption
<1>4. <<>> \in Seq(STRING) /\ \A t \in Seq(STRING) : <<>> \o t = t
  BY EmptySeq, ConcatEmptySeq
<1> QED  BY <1>1, <1>2, <1>3, <1>4 DEF Requests, BodyKept

\* One body changes, and is still what it was.
LEMMA BodyChanges ==
    ASSUME Requests, NEW c \in Callers, todo' = todo,
           NEW read \in Seq(STRING), NEW left \in Seq(STRING \ {"y"}),
           read \o left = body[c].read \o body[c].left,
           body' = [body EXCEPT ![c] = [whole |-> body[c].whole, read |-> read,
                                        left |-> left]]
    PROVE  Requests'
BY DEF Requests, BodyKept

\* No step loses a part of a body: one disjunct of Next after the other.
LEMMA NextRequests == Requests /\ [Next]_vars => Requests'
<1> SUFFICES ASSUME Requests, [Next]_vars  PROVE Requests'
  OBVIOUS
<1>1. ASSUME UNCHANGED <<todo, body>>  PROVE Requests'
  BY <1>1 DEF Requests, BodyKept
<1>2. ASSUME NEW c \in Callers, todo[c] # <<>>, UNCHANGED body,
             todo' = [todo EXCEPT ![c] = Tail(@)]
      PROVE  Requests'
  BY <1>2, NextCall DEF Requests, BodyKept
<1>3. \A c \in Callers :
         /\ body[c].read \in Seq(STRING) /\ body[c].left \in Seq(STRING)
         /\ body[c].left \in Seq(STRING \ {"y"})
         /\ body[c] = [whole |-> body[c].whole, read |-> body[c].read,
                       left |-> body[c].left]
  BY SpokenTexts DEF Requests
<1>4. ASSUME NEW c \in Callers, Begin(c)  PROVE Requests'
  <2>1. todo[c] # <<>> /\ todo' = [todo EXCEPT ![c] = Tail(@)]
    BY <1>4 DEF Begin, Calls
  <2>2. CASE Head(todo[c]).captures
    <3>1. Head(todo[c]).option \in Int
      BY <1>4, SendCalls DEF Begin
    <3>2. Restored(body[c].left, Head(todo[c]).option) = body[c].left
      BY <1>3, <3>1, RestoredIsBody
    <3>3. body' = [body EXCEPT ![c].left = body[c].left]
      BY <1>4, <2>2, <3>2 DEF Begin
    <3>4. body' = body
      BY <1>3, <3>3 DEF Requests
    <3> QED  BY <1>2, <2>1, <3>4
  <2>3. CASE ~Head(todo[c]).captures
    BY <1>2, <1>4, <2>1, <2>3 DEF Begin
  <2> QED  BY <2>2, <2>3
<1>5. ASSUME NEW c \in Callers, ReadBody(c)  PROVE Requests'
  <2> DEFINE left == body[c].left
             X == STRING \ {"y"}
  <2>1. PICK n \in 1..Len(left) :
           body' = [body EXCEPT ![c] =
                      [whole |-> @.whole, read |-> @.read \o SubSeq(left, 1, n),
                       left |-> SubSeq(@.left, n + 1, Len(@.left))]]
    BY <1>5 DEF ReadBody
  <2> DEFINE front == SubSeq(left, 1, n)
             rest == SubSeq(left, n + 1, Len(left))
             read == body[c].read
  <2>2. left \in Seq(X) /\ left \in Seq(STRING) /\ Len(left) \in Nat
        /\ read \in Seq(STRING)
    BY <1>3, LenProperties
  <2> HIDE DEF X
  <2>3. front \in Seq(STRING) /\ rest \in Seq(STRING) /\ rest \in Seq(X)
    BY <2>2
  <2>4. front \o rest = left
    <3>1. /\ 1 \in 1..Len(left) + 1 /\ n \in 1 - 1..Len(left)
          /\ Len(left) \in n..Len(left)
      BY <2>2
    <3>2. front \o rest = SubSeq(left, 1, Len(left))
      BY <2>2, <3>1, ConcatAdjacentSubSeq
    <3> QED  BY <2>2, <3>2, SubSeqFull
  <2>5. body' = [body EXCEPT ![c] = [whole |-> body[c].whole,
                                     read |-> read \o front, left |-> rest]]
    BY <2>1 DEF Requests
  <2> HIDE DEF front, rest
  <2>6. read \o front \in Seq(STRING)
    BY <2>2, <2>3, ConcatProperties
  <2>7. (read \o front) \o rest = read \o left
    <3>1. \A r, s, t \in Seq(STRING) : (r \o s) \o t = r \o (s \o t)
      BY ConcatAssociative
    <3> HIDE DEF read, left
    <3>2. (read \o front) \o rest = read \o (front \o rest)
      BY <2>2, <2>3, <3>1
    <3> QED  BY <2>4, <3>2
  <2>8. todo' = todo
    BY <1>5 DEF ReadBody
  <2> QED  BY <2>3, <2>5, <2>6, <2>7, <2>8, BodyChanges DEF X
<1>6. ASSUME NEW g \in Goroutines, Step(g)  PROVE Requests'
  BY <1>1, <1>6 DEF Step, AddStep, SetErrorStep, UnlockStep, TellStep, ReadStep,
                    dataVars
<1>7. ASSUME NEW c \in Callers, Seal(c) \/ Push(c) \/ SendSync(c)
      PROVE  Requests'
  BY <1>1, <1>7 DEF Seal, Push, SendSync, dataVars
<1>8. ASSUME NEW c \in Callers, Health(c) \/ Close(c)  PROVE Requests'
  BY <1>2, <1>8 DEF Health, Close, Calls
<1>9. CASE SendBatch
  BY <1>1, <1>9 DEF SendBatch
<1>10. CASE UNCHANGED vars
  BY <1>1, <1>10 DEF vars
<1> QED  BY <1>4, <1>5, <1>6, <1>7, <1>8, <1>9, <1>10 DEF Next, Stopped

\* README.md:378-, bodycapture.go:44-61: the handler reads the whole body in
\* order, however often it is captured and wherever reading fails.
THEOREM BodiesAreKept == Spec => []BodyKept
<1>1. Requests => BodyKept
  BY DEF Requests
<1> QED  BY <1>1, InitRequests, NextRequests, PTL DEF Spec

-----------------------------------------------------------------------------
(* The events that get past prepareEvent                                     *)

Prepared(from, now) == Keyed(from, now) /\ Fits(from, now) /\ Hides(now)

Contents ==
    /\ event = [c \in Callers |-> event[c]]
    /\ \A c \in Callers :
          pc[c] = "seal" => Prepared(event[c].from, event[c].now)
    /\ \A p \in passed : Prepared(p.from, p.now)

\* What is captured of a body joins the data of the event.
LEMMA BuiltIsShaped ==
    ASSUME NEW c \in Callers, Requests, Calls(c, "send")
    PROVE  Shaped(Built(c)) /\ Guarded(Built(c))
<1> DEFINE given == Content[Head(todo[c]).event]
           captured == Captured(body[c].left, Head(todo[c]).option)
           key == <<"q">>
           old == IF given.data = Nil THEN <<>> ELSE given.data.fields
           fields == [k \in DOMAIN old \cup {key} |->
                        IF k = key THEN Text(captured) ELSE old[k]]
           data == Fields(fields)
<1>1. Head(todo[c]).event \in DOMAIN Content /\ Head(todo[c]).option \in Int
  BY SendCalls
<1>2. IsEvent(given) /\ Guarded(given)
  BY <1>1, ReportingAssumption, SecretsAssumption DEF Guarded
<1>3. Shaped(given)
  BY <1>2, TextsAreRunes DEF IsEvent, Shaped
<1>4. captured \in Seq(Clean) /\ key \in Seq(Clean)
  <2>1. body[c].left \in Seq(Clean)
    BY SpokenTexts DEF Requests
  <2>2. "q" \in Clean
    BY DEF Clean, Runes
  <2>3. captured \in Seq(Clean)
    BY <1>1, <2>1, CapturedIsOfBody
  <2> QED  BY <2>2, <2>3
<1>5. Built(c) = given \/ Built(c) = [given EXCEPT !.data = data]
  BY DEF Built
<1> HIDE DEF captured, key
<1>6. data.kind = "fields" /\ data.fields = fields
  BY DEF Fields
<1>7. \A k \in DOMAIN fields :
         \/ k = key /\ fields[k] = Text(captured)
         \/ /\ given.data.kind = "fields" /\ k \in DOMAIN given.data.fields
            /\ fields[k] = given.data.fields[k]
  <2>1. given.data = Nil \/ given.data.kind = "fields"
    BY <1>2 DEF IsEvent
  <2>2. CASE given.data = Nil
    <3>1. old = <<>> /\ DOMAIN old = {}
      BY <2>2
    <3> QED  BY <3>1
  <2>3. CASE given.data # Nil /\ given.data.kind = "fields"
    <3>1. old = given.data.fields
      BY <2>3
    <3> HIDE DEF given
    <3> QED  BY <2>3, <3>1
  <2> QED  BY <2>1, <2>2, <2>3
<1>8. Texts(Text(captured)) = {captured} /\ Unseen(Text(captured)) = {}
  BY DEF Texts, Unseen, Text
<1> HIDE DEF fields, data, given
<1>9. /\ AllTexts(data) \subseteq AllTexts(given.data) \cup {key, captured}
      /\ AllUnseen(data) \subseteq AllUnseen(given.data)
  BY <1>6, <1>7, <1>8, ValueTexts, ValueUnseen
<1>10. Exposed(data) \subseteq Exposed(given.data) \cup {key, captured}
  <2>1. Exposed(data) = DOMAIN fields \cup UNION {Written(fields[k]) :
                           k \in {k \in DOMAIN fields : ~IsSensitiveKey(k)}}
    BY <1>6 DEF Exposed
  <2>2. given.data.kind = "fields" =>
           Exposed(given.data) = DOMAIN given.data.fields \cup
              UNION {Written(given.data.fields[k]) :
                 k \in {k \in DOMAIN given.data.fields : ~IsSensitiveKey(k)}}
    BY DEF Exposed
  <2>3. Written(Text(captured)) = {captured}
    BY <1>8 DEF Written
  <2> QED  BY <1>7, <2>1, <2>2, <2>3
<1> DEFINE with == [given EXCEPT !.data = data]
<1>11. /\ DOMAIN given = EventFields
       /\ with.text = given.text /\ with.metadata = given.metadata
       /\ with.data = data /\ with.changes = given.changes
       /\ with.oldValue = given.oldValue /\ with.newValue = given.newValue
       /\ DOMAIN with = EventFields /\ with = [f \in EventFields |-> with[f]]
  BY <1>3 DEF Shaped, EventFields
<1> HIDE DEF with
<1>12. AllTexts(data) \cup AllUnseen(data) \subseteq Seq(Runes)
  <2>1. AllTexts(given.data) \cup AllUnseen(given.data) \subseteq Seq(Runes)
    BY <1>3 DEF Shaped, Untyped
  <2> QED  BY <1>4, <1>9, <2>1, TextsAreRunes
<1>13. Shaped(with)
  <2>1. data.kind # "changes"
    BY <1>6
  <2>2. \A v \in Untyped(with) : v = data \/ v \in Untyped(given)
    BY <1>11 DEF Untyped
  <2> QED  BY <1>3, <1>11, <1>12, <2>1, <2>2 DEF Shaped
<1>14. Guarded(with)
  <2>1. \A v \in ExposedValues(with) : v = data \/ v \in ExposedValues(given)
    BY <1>11 DEF ExposedValues
  <2>2. \A t \in {key, captured} : "y" \notin Range(t)
    BY <1>4, CleanTexts, TextsAreRunes
  <2>3. \A t \in Exposed(given.data) : "y" \notin Range(t)
    BY <1>2 DEF Guarded, ExposedValues
  <2> QED  BY <1>2, <1>10, <2>1, <2>2, <2>3 DEF Guarded
<1> QED  BY <1>2, <1>3, <1>5, <1>13, <1>14 DEF with

\* What Begin takes as the event of the call.
LEMMA LimitedIsPrepared ==
    ASSUME NEW c \in Callers, Requests, Calls(c, "send"),
           NEW limited \in Limited(c), LimitError(limited) = "ok"
    PROVE  Prepared(Built(c), limited)
<1>1. limited \in LimitedForms(RedactEvent(WithDefaults(Built(c), NewID(c))))
  BY DEF Limited, BeforeLimit
<1>2. Shaped(Built(c)) /\ Guarded(Built(c))
  BY BuiltIsShaped
<1>3. Keyed(Built(c), limited)
  BY <1>1, <1>2, PreparedKeyed
<1>4. Fits(Built(c), limited)
  BY <1>1, <1>2, PreparedFits
<1>5. Hides(limited)
  BY <1>1, <1>2, PreparedHides
<1> QED  BY <1>3, <1>4, <1>5 DEF Prepared

\* No event is on its way at first.
LEMMA InitContents == Init => Contents
BY DEF Init, Contents, Goroutines

\* Only Begin makes an event, and only Seal lets it pass.
LEMMA NextContents == TypeOK /\ Requests /\ Contents /\ [Next]_vars => Contents'
<1> SUFFICES ASSUME TypeOK, Requests, Contents, [Next]_vars  PROVE Contents'
  OBVIOUS
<1>1. pc \in [Goroutines -> {"idle", "seal", "push", "post"}]
      /\ Callers \subseteq Goroutines
  BY DEF TypeOK, Goroutines
<1>2. ASSUME NEW g \in Goroutines, Step(g)  PROVE Contents'
  BY <1>2 DEF Step, AddStep, SetErrorStep, UnlockStep, TellStep, ReadStep,
              dataVars, Contents
<1>3. ASSUME NEW c \in Callers, Begin(c)  PROVE Contents'
  <2>1. Calls(c, "send") /\ passed' = passed
    BY <1>3 DEF Begin
  <2>2. CASE event' = event /\ \E list : Go(c, list, "idle")
    BY <1>1, <2>1, <2>2 DEF Contents, Go
  <2>3. CASE \E limited \in Limited(c) : \E list :
                /\ LimitError(limited) = "ok" /\ Go(c, list, "seal")
                /\ event' = [event EXCEPT ![c] =
                                [from |-> Built(c), now |-> limited,
                                 sync |-> Head(todo[c]).sync]]
    <3>1. PICK limited \in Limited(c) : \E list :
                /\ LimitError(limited) = "ok" /\ Go(c, list, "seal")
                /\ event' = [event EXCEPT ![c] =
                                [from |-> Built(c), now |-> limited,
                                 sync |-> Head(todo[c]).sync]]
      BY <2>3
    <3>2. PICK list :
                /\ LimitError(limited) = "ok" /\ Go(c, list, "seal")
                /\ event' = [event EXCEPT ![c] =
                                [from |-> Built(c), now |-> limited,
                                 sync |-> Head(todo[c]).sync]]
      BY <3>1
    <3>3. Prepared(Built(c), limited)
      BY <2>1, <3>2, LimitedIsPrepared
    <3>4. event'[c].from = Built(c) /\ event'[c].now = limited
          /\ event' = [d \in Callers |-> event'[d]]
          /\ \A d \in Callers \ {c} : event'[d] = event[d]
      BY <3>2 DEF Contents
    <3>5. \A d \in Callers \ {c} : pc'[d] = pc[d]
      BY <1>1, <3>2 DEF Go
    <3> QED  BY <2>1, <3>3, <3>4, <3>5 DEF Contents
  <2> QED  BY <1>3, <2>2, <2>3 DEF Begin
<1>4. ASSUME NEW c \in Callers, Seal(c)  PROVE Contents'
  <2>1. /\ event' = [event EXCEPT ![c] = <<>>] /\ pc[c] = "seal"
    BY <1>4 DEF Seal, At
  <2>2. \E list, decision : decision \in {"idle", "post", "push"}
                            /\ Go(c, list, decision)
    <3>1. (IF event[c].sync THEN "post" ELSE "push") \in {"post", "push"}
      OBVIOUS
    <3>2. \/ Go(c, <<>>, IF event[c].sync THEN "post" ELSE "push")
          \/ \E list : Go(c, list, "idle")
      BY <1>4 DEF Seal
    <3> QED  BY <3>1, <3>2
  <2>3. \A p \in passed' : p \in passed \/ p = [from |-> event[c].from,
                                               now |-> event[c].now]
    BY <1>4 DEF Seal
  <2>4. \A p \in passed' : Prepared(p.from, p.now)
    BY <2>1, <2>3 DEF Contents
  <2>5. \A d \in Callers : pc'[d] = "seal" => d # c /\ pc[d] = "seal"
    BY <1>1, <2>2 DEF Go
  <2> QED  BY <2>1, <2>4, <2>5 DEF Contents
<1>5. ASSUME NEW c \in Callers, Push(c) \/ SendSync(c)  PROVE Contents'
  <2>1. /\ UNCHANGED <<event, passed>>
        /\ \E list : Go(c, list, "idle")
    BY <1>5 DEF Push, SendSync, Outcome, dataVars
  <2> QED  BY <1>1, <2>1 DEF Contents, Go
<1>6. ASSUME NEW c \in Callers, ReadBody(c)  PROVE Contents'
  BY <1>6 DEF ReadBody, Contents
<1>7. ASSUME NEW c \in Callers, Health(c) \/ Close(c)  PROVE Contents'
  <2>1. /\ UNCHANGED <<event, passed>>
        /\ UNCHANGED pc \/ \E list : Go(c, list, "idle")
    BY <1>7 DEF Health, Close
  <2> QED  BY <1>1, <2>1 DEF Contents, Go
<1>8. CASE SendBatch
  <2>1. /\ UNCHANGED <<event, passed>>
        /\ \E list : Go(Worker, list, "idle")
    BY <1>8 DEF SendBatch, Outcome
  <2> QED  BY <1>1, <2>1 DEF Contents, Go
<1>9. CASE UNCHANGED vars
  BY <1>9 DEF vars, Contents
<1> QED  BY <1>2, <1>3, <1>4, <1>5, <1>6, <1>7, <1>8, <1>9 DEF Next, Stopped

\* The invariant of the specification.
LEMMA EventsArePrepared == Spec => []Contents
<1>1. Spec => []TypeOK
  BY TypeCorrect
<1> QED  BY <1>1, InitRequests, NextRequests, InitContents, NextContents, PTL
         DEF Spec

\* README.md:243-246, client.go:224-241: the id an event is recognised by is
\* fixed before redaction and limits, which leave it alone.
THEOREM KeysDecideEvents == Spec => []KeyDecidesEvent
<1>1. Contents => KeyDecidesEvent
  BY DEF Contents, Prepared, Keyed, KeyDecidesEvent
<1> QED  BY <1>1, EventsArePrepared, PTL

\* README.md:214-219, limit.go:27-179: an event that gets past prepareEvent is
\* within the limit of the event and of each of its structured fields, typed
\* values included; each text that limitEvent looks at is within MaxStringBytes,
\* and what a text field was cut to is all of it that fits.
THEOREM AcceptedEventsFit == Spec => []AcceptedFits
<1>1. Contents => AcceptedFits
  BY DEF Contents, Prepared, AcceptedFits
<1> QED  BY <1>1, EventsArePrepared, PTL

\* README.md:958-, redaction.go:58-160: what a sensitive key that redaction sees
\* names is masked, whatever the type of the value; redaction comes before the
\* limits (client.go:209-212), so that no cut hides such a key from it.  Of the
\* keys inside a typed value nothing is said: they are not seen.
THEOREM SecretsAreGone == Spec => []KeyedSecretsGone
<1>1. Contents => KeyedSecretsGone
  BY DEF Contents, Prepared, KeyedSecretsGone
<1> QED  BY <1>1, EventsArePrepared, PTL
=============================================================================
