------------------------ MODULE DurableOutbox_proofs ------------------------
(***************************************************************************)
(* Theorems about the outbox file.                                         *)
(***************************************************************************)
EXTENDS DurableOutbox, FiniteSetTheorems, TLAPS

-----------------------------------------------------------------------------
(* What a write and a copy do to the lines                                   *)

LEMMA NothingReadable == Whole(<<>>) = {} /\ Readable(<<>>) = {}
  BY DEF Readable, Whole

\* A write adds one line or changes the last one, which was not ended.
LEMMA WrittenLines ==
    ASSUME NEW f \in Seq(Lines), NEW e \in Events, NEW whole \in BOOLEAN,
           NEW ended \in BOOLEAN, NEW g, g = Written(f, e, whole, ended)
    PROVE  /\ g \in Seq(Lines)
           /\ Glues(g) <=> ~ended
           /\ \A i \in DOMAIN g : \/ i \in DOMAIN f /\ g[i] = f[i]
                                  \/ g[i].id = e /\ g[i].ended = ended
           /\ Readable(g) \subseteq Readable(f) \cup {e}
           /\ ~Glues(f) => /\ Readable(f) \subseteq Readable(g)
                           /\ whole => e \in Readable(g)
           /\ Glues(f) => Readable(f) \ {Last(f).id} \subseteq Readable(g)
<1>1. CASE Glues(f)
  <2> DEFINE l == [id |-> e, whole |-> FALSE, ended |-> ended]
  <2>1. f # <<>> /\ Len(f) \in Nat \ {0} /\ Front(f) \in Seq(Lines)
        /\ Len(Front(f)) = Len(f) - 1
        /\ \A i \in 1..Len(f) - 1 : Front(f)[i] = f[i]
    <3>1. f # <<>> /\ Len(f) \in Nat \ {0}
      BY <1>1 DEF Glues
    <3>2. Front(f) = SubSeq(f, 1, Len(f) - 1)
      BY DEF Front
    <3>3. SubSeq(f, 1, Len(f) - 1) \in Seq(Lines)
      BY <3>1
    <3>4. /\ Len(SubSeq(f, 1, Len(f) - 1)) = Len(f) - 1
          /\ \A i \in 1..Len(f) - 1 : SubSeq(f, 1, Len(f) - 1)[i] = f[i]
      <4> DEFINE n == Len(f) - 1
      <4>1. n \in Nat /\ n <= Len(f)
        BY <3>1
      <4> HIDE DEF n
      <4>2. /\ Len(SubSeq(f, 1, n)) = n
            /\ \A i \in 1..n : SubSeq(f, 1, n)[i] = f[i]
        BY <4>1
      <4> QED  BY <4>2 DEF n
    <3> QED  BY <3>1, <3>2, <3>3, <3>4
  <2>2. l \in Lines /\ l.id = e /\ l.whole = FALSE /\ l.ended = ended
    BY DEF Lines
  <2>3. g = Front(f) \o <<l>>
    BY <1>1 DEF Written
  <2> HIDE DEF l
  <2>4. /\ g \in Seq(Lines) /\ Len(g) = Len(f) /\ g[Len(g)] = l
        /\ \A i \in 1..Len(f) - 1 : g[i] = f[i]
    BY <2>1, <2>2, <2>3
  <2>5. Glues(g) <=> ~ended
    BY <2>1, <2>2, <2>4 DEF Glues, Last
  <2>6. \A i \in DOMAIN g : \/ i \in DOMAIN f /\ g[i] = f[i]
                            \/ g[i].id = e /\ g[i].ended = ended
    BY <2>1, <2>2, <2>4
  <2>7. Whole(g) = Whole(f) \ {Len(f)}
    BY <2>1, <2>2, <2>4 DEF Whole
  <2>8. Whole(f) \subseteq 1..Len(f)
    BY DEF Whole
  <2>9. \A i \in Whole(g) : g[i] = f[i]
    BY <2>1, <2>4, <2>7, <2>8
  <2>10. Readable(g) \subseteq Readable(f)
    BY <2>7, <2>9 DEF Readable
  <2>11. Readable(f) \ {Last(f).id} \subseteq Readable(g)
    BY <2>7, <2>9 DEF Readable, Last
  <2> QED  BY <1>1, <2>4, <2>5, <2>6, <2>10, <2>11
<1>2. CASE ~Glues(f)
  <2> DEFINE l == [id |-> e, whole |-> whole, ended |-> ended]
  <2>2. l \in Lines /\ l.id = e /\ l.whole = whole /\ l.ended = ended
    BY DEF Lines
  <2>3. g = f \o <<l>>
    BY <1>2 DEF Written
  <2> HIDE DEF l
  <2>4. /\ g \in Seq(Lines) /\ Len(g) = Len(f) + 1 /\ g[Len(g)] = l
        /\ \A i \in 1..Len(f) : g[i] = f[i]
    BY <2>2, <2>3
  <2>5. Glues(g) <=> ~ended
    BY <2>2, <2>4 DEF Glues, Last
  <2>6. \A i \in DOMAIN g : \/ i \in DOMAIN f /\ g[i] = f[i]
                            \/ g[i].id = e /\ g[i].ended = ended
    BY <2>2, <2>4
  <2>7. /\ Whole(f) \subseteq Whole(g) /\ Whole(g) \subseteq Whole(f) \cup {Len(g)}
        /\ whole => Len(g) \in Whole(g)
    BY <2>2, <2>4 DEF Whole
  <2>8. Whole(f) \subseteq 1..Len(f)
    BY DEF Whole
  <2>9. \A i \in Whole(f) : g[i] = f[i]
    BY <2>4, <2>8
  <2>10. Readable(f) \subseteq Readable(g)
    BY <2>7, <2>9 DEF Readable
  <2>11. Readable(g) \subseteq Readable(f) \cup {e}
    BY <2>2, <2>4, <2>7, <2>9 DEF Readable
  <2>12. whole => e \in Readable(g)
    BY <2>2, <2>4, <2>7 DEF Readable
  <2> QED  BY <1>2, <2>4, <2>5, <2>6, <2>10, <2>11, <2>12
<1> QED  BY <1>1, <1>2

\* The places of a finite set of lines are the numbers from one to its size.
LEMMA PlacesCount ==
    ASSUME NEW K \in SUBSET Nat, IsFiniteSet(K)
    PROVE  /\ Cardinality(K) \in Nat
           /\ \A n \in 1..Cardinality(K) : \E i \in K : Place(i, K) = n
           /\ \A i \in K : Place(i, K) \in 1..Cardinality(K)
           /\ \A i, j \in K : Place(i, K) = Place(j, K) => i = j
<1> DEFINE Upto(i) == {k \in K : k <= i}
<1>1. \A i \in K : /\ IsFiniteSet(Upto(i)) /\ Cardinality(Upto(i)) \in Nat
                   /\ Cardinality(Upto(i)) <= Cardinality(K)
  BY FS_Subset, FS_CardinalityType
<1>2. Cardinality(K) \in Nat
  BY FS_CardinalityType
<1>3. \A i \in K : Cardinality(Upto(i)) # 0
  <2> SUFFICES ASSUME NEW i \in K  PROVE Cardinality(Upto(i)) # 0
    OBVIOUS
  <2>1. i \in Nat /\ i <= i
    OBVIOUS
  <2>2. Upto(i) # {}
    BY <2>1
  <2> QED  BY <1>1, <2>2, FS_EmptySet
<1>4. \A i, j \in K : i < j => Cardinality(Upto(i)) < Cardinality(Upto(j))
  <2> SUFFICES ASSUME NEW i \in K, NEW j \in K, i < j
               PROVE  Cardinality(Upto(i)) < Cardinality(Upto(j))
    OBVIOUS
  <2>0. i \in Nat /\ j \in Nat /\ \A k \in K : k \in Nat
    OBVIOUS
  <2>1. Upto(i) \subseteq Upto(j) /\ j \in Upto(j) /\ j \notin Upto(i)
    <3>1. \A k \in K : k <= i => k <= j
      BY <2>0
    <3>2. j <= j /\ ~(j <= i)
      BY <2>0
    <3> QED  BY <3>1, <3>2
  <2>2. Upto(i) # Upto(j)
    BY <2>1
  <2> HIDE DEF Upto
  <2>3. Cardinality(Upto(i)) <= Cardinality(Upto(j))
        /\ (Cardinality(Upto(i)) = Cardinality(Upto(j)) => Upto(i) = Upto(j))
    BY <1>1, <2>1, FS_Subset
  <2> QED  BY <1>1, <2>2, <2>3
<1>5. \A i \in K : Place(i, K) = Cardinality(Upto(i))
  BY DEF Place
<1> HIDE DEF Upto
<1>6. \A i, j \in K : Place(i, K) = Place(j, K) => i = j
  BY <1>1, <1>4, <1>5
<1>7. \A i \in K : Place(i, K) \in 1..Cardinality(K)
  BY <1>1, <1>2, <1>3, <1>5
<1>8. \A n \in 1..Cardinality(K) : \E i \in K : Place(i, K) = n
  <2> DEFINE p == [i \in K |-> Place(i, K)]
  <2>1. p \in Injection(K, 1..Cardinality(K))
    BY <1>6, <1>7 DEF Injection, IsInjective
  <2>2. IsFiniteSet(1..Cardinality(K)) /\ Cardinality(1..Cardinality(K)) = Cardinality(K)
    BY <1>2, FS_Interval
  <2>3. p \in Surjection(K, 1..Cardinality(K))
    BY <2>1, <2>2, FS_Injection
  <2> QED  BY <2>3 DEF Surjection
<1> QED  BY <1>2, <1>6, <1>7, <1>8

\* Remove keeps exactly the lines that are not named, and each of them is ended.
LEMMA KeptLines ==
    ASSUME NEW f \in Seq(Lines), NEW ids \in SUBSET Events, NEW g,
           g = Kept(f, ids)
    PROVE  /\ g \in Seq(Lines)
           /\ \A n \in DOMAIN g : g[n].ended /\ \E i \in DOMAIN f : g[n].id = f[i].id
           /\ Readable(g) = Readable(f) \ ids
<1> DEFINE K == Copied(f, ids)
           At(n) == CHOOSE j \in K : Place(j, K) = n
           l(i) == [f[i] EXCEPT !.ended = TRUE]
<1>1. K \in SUBSET Nat /\ IsFiniteSet(K) /\ K \subseteq DOMAIN f
  <2>1. K \subseteq 1..Len(f) /\ Len(f) \in Nat
    BY DEF Copied
  <2>2. IsFiniteSet(1..Len(f))
    BY <2>1, FS_Interval
  <2> QED  BY <2>1, <2>2, FS_Subset
<1>2. \A i \in K : ~Named(f[i], ids) /\ f[i] \in Lines
  BY <1>1 DEF Copied
<1>3. \A i \in DOMAIN f \ K : f[i].whole => f[i].id \in ids
  BY DEF Copied, Named
<1>4. g = [n \in 1..Cardinality(K) |-> l(At(n))]
  BY DEF Kept
<1>5. \A i \in K : /\ l(i) \in Lines /\ l(i).ended
                   /\ l(i).id = f[i].id /\ l(i).whole = f[i].whole
  BY <1>2 DEF Lines
<1> HIDE DEF K, l
<1>6. Cardinality(K) \in Nat
  BY <1>1, PlacesCount
<1>7. \A n \in 1..Cardinality(K) : At(n) \in K
  BY <1>1, PlacesCount
<1>8. \A i \in K : \E n \in 1..Cardinality(K) : At(n) = i
  <2> SUFFICES ASSUME NEW i \in K  PROVE \E n \in 1..Cardinality(K) : At(n) = i
    OBVIOUS
  <2>1. Place(i, K) \in 1..Cardinality(K)
    BY <1>1, PlacesCount
  <2>2. /\ At(Place(i, K)) \in K
        /\ Place(At(Place(i, K)), K) = Place(i, K)
    OBVIOUS
  <2>3. At(Place(i, K)) = i
    BY <1>1, <2>2, PlacesCount
  <2> QED  BY <2>1, <2>3
<1> HIDE DEF At
<1>9. /\ DOMAIN g = 1..Cardinality(K)
      /\ \A n \in 1..Cardinality(K) : g[n] = l(At(n))
  BY <1>4
<1>10. g \in Seq(Lines)
  BY <1>4, <1>5, <1>6, <1>7
<1>11. \A n \in DOMAIN g : g[n].ended /\ \E i \in DOMAIN f : g[n].id = f[i].id
  BY <1>1, <1>5, <1>7, <1>9
<1>12. Readable(g) \subseteq Readable(f) \ ids
  <2> SUFFICES ASSUME NEW n \in Whole(g)  PROVE g[n].id \in Readable(f) \ ids
    BY DEF Readable
  <2>1. n \in 1..Cardinality(K) /\ g[n].whole
    BY <1>9 DEF Whole
  <2>2. At(n) \in K /\ f[At(n)].whole /\ g[n].id = f[At(n)].id
    BY <1>5, <1>7, <1>9, <2>1
  <2>3. At(n) \in Whole(f)
    BY <1>1, <2>2 DEF Whole
  <2>4. f[At(n)].id \notin ids
    BY <1>2, <2>2 DEF Named
  <2> QED  BY <2>2, <2>3, <2>4 DEF Readable
<1>13. Readable(f) \ ids \subseteq Readable(g)
  <2> SUFFICES ASSUME NEW i \in Whole(f), f[i].id \notin ids
               PROVE  f[i].id \in Readable(g)
    BY DEF Readable
  <2>1. i \in K /\ f[i].whole
    BY <1>3 DEF Whole
  <2>2. PICK n \in 1..Cardinality(K) : At(n) = i
    BY <1>8, <2>1
  <2>3. g[n].whole /\ g[n].id = f[i].id /\ n \in DOMAIN g
    BY <1>5, <1>9, <2>1, <2>2
  <2> QED  BY <2>3 DEF Readable, Whole
<1> QED  BY <1>10, <1>11, <1>12, <1>13

-----------------------------------------------------------------------------
(* The invariant                                                             *)

\* What the lines and the worker's batch are made of.
Filed ==
    /\ worker.ids \subseteq tried
    /\ \A i \in DOMAIN file : file[i].id \in tried
    /\ \A i \in DOMAIN temp : temp[i].id \in tried
    /\ \A i \in DOMAIN Visible : Visible[i].ended \/ Visible[i].id \notin acked

\* What a Remove in progress has done so far.
Removing ==
    /\ worker.pc \in {"swap", "rename"} => worker.ids \subseteq asked
    /\ worker.pc = "swap" => temp = Kept(file, worker.ids)
    /\ worker.pc = "rename" => /\ file = <<>>
                               /\ worker.ids \cap Readable(temp) = {}

\* A cut costs one event: one that is missing, or the one that will be glued to
\* a last line without its end.
Paid ==
    /\ Cardinality(Missing) <= cuts
    /\ Glues(Visible) => Cardinality(Missing) < cuts

OutboxInv == Filed /\ Removing /\ RemovedStaysRemoved /\ Paid

LEMMA MissingIsFinite ==
    ASSUME TypeOK
    PROVE  IsFiniteSet(Missing) /\ Cardinality(Missing) \in Nat
  BY OutboxAssumption, FS_Subset, FS_CardinalityType DEF TypeOK, Missing

LEMMA FewerMissing ==
    ASSUME TypeOK, Missing' \subseteq Missing
    PROVE  /\ Cardinality(Missing') \in Nat
           /\ Cardinality(Missing') <= Cardinality(Missing)
  BY MissingIsFinite, FS_Subset, FS_CardinalityType


LEMMA TypeStep ==
    ASSUME TypeOK, OutboxInv, [Next]_vars
    PROVE  TypeOK'
<1>1. /\ file \in Seq(Lines) /\ temp \in Seq(Lines)
      /\ worker \in [pc : {"idle", "sending", "swap", "rename"}, ids : SUBSET Events]
      /\ buffered \subseteq tried /\ tried \subseteq Events /\ acked \subseteq tried
      /\ asked \subseteq tried /\ removed \subseteq asked /\ lost \subseteq tried
      /\ cuts \in 0..MaxCuts /\ faults \in 0..MaxFaults /\ crashes \in 0..MaxCrashes
      /\ Unlocked => temp = <<>>
      /\ orphans \in 0..(crashes + faults)
  BY DEF TypeOK
<1>2. /\ worker.ids \subseteq tried
      /\ Readable(temp) \subseteq tried
      /\ worker.pc = "swap" => worker.ids \subseteq asked
      /\ worker.pc = "rename" => worker.ids \subseteq asked
  BY DEF OutboxInv, Filed, Removing, Readable, Whole
<1>3. MaxCuts \in Nat /\ MaxFaults \in Nat /\ MaxCrashes \in Nat
  BY OutboxAssumption
<1>4. /\ IdleWorker \in [pc : {"idle", "sending", "swap", "rename"}, ids : SUBSET Events]
      /\ IdleWorker.pc = "idle" /\ <<>> \in Seq(Lines)
  BY DEF IdleWorker
<1>a. ASSUME NEW n \in Nat, DiscardTemp(n), crashes' \in 0..MaxCrashes,
             crashes' = crashes
      PROVE  /\ temp' = <<>> /\ temp' \in Seq(Lines) /\ faults' \in 0..MaxFaults
             /\ orphans' \in 0..(crashes' + faults')
  <2>1. PICK m \in {0, 1} : /\ faults + n + m <= MaxFaults
                            /\ faults' = faults + n + m
                            /\ orphans' = orphans + m
    BY <1>a DEF DiscardTemp
  <2>2. temp' = <<>> /\ temp' \in Seq(Lines)
    BY <1>4, <1>a DEF DiscardTemp
  <2>3. faults' \in 0..MaxFaults /\ orphans' \in 0..(crashes' + faults')
    BY <1>1, <1>3, <1>a, <2>1
  <2> QED  BY <2>2, <2>3
<1>5. ASSUME NEW e \in Events, AppendWhole(e)  PROVE TypeOK'
  <2>1. file' \in Seq(Lines)
    BY <1>1, <1>5, WrittenLines DEF AppendWhole
  <2> QED  BY <1>1, <1>5, <2>1 DEF AppendWhole, Appended, TypeOK, Unlocked, bounds
<1>6. ASSUME NEW e \in Events, AppendFails(e)  PROVE TypeOK'
  <2>1. /\ UNCHANGED <<file, temp, orphans, worker, acked, asked, removed, lost, cuts, crashes>>
        /\ tried' = tried \cup {e} /\ buffered' = buffered \cup {e}
    BY <1>6 DEF AppendFails, Appended
  <2>2. faults' \in 0..MaxFaults /\ orphans' \in 0..(crashes' + faults')
    BY <1>1, <1>3, <1>6, <2>1 DEF AppendFails, Fault
  <2> QED  BY <1>1, <2>1, <2>2 DEF TypeOK, Unlocked
<1>7. ASSUME NEW e \in Events, AppendCut(e)  PROVE TypeOK'
  <2>1. file' \in Seq(Lines)
    <3>1. PICK whole \in BOOLEAN : file' = Written(file, e, whole, FALSE)
      BY <1>7 DEF AppendCut
    <3> QED  BY <1>1, <3>1, WrittenLines
  <2>2. cuts' \in 0..MaxCuts /\ UNCHANGED <<temp, orphans, worker, acked, asked, removed, lost, faults, crashes>>
    BY <1>1, <1>3, <1>7 DEF AppendCut
  <2>3. /\ tried' = tried \cup {e} /\ buffered' = buffered \cup {e}
    BY <1>7 DEF AppendCut, Appended
  <2> QED  BY <1>1, <2>1, <2>2, <2>3 DEF TypeOK, Unlocked
<1>8. ASSUME NEW e \in Events, TakeQueued(e)  PROVE TypeOK'
  BY <1>1, <1>8 DEF TakeQueued, TypeOK, Unlocked, bounds, ghosts
<1>9. CASE PeekBatch
  <2>1. Peek(file) \in SUBSET Events
    <3>1. \A i \in Whole(file) : file[i].id \in Events
      <4>1. \A i \in DOMAIN file : file[i] \in Lines
        BY <1>1
      <4> QED  BY <4>1 DEF Whole, Lines
    <3> QED  BY <3>1 DEF Peek
  <2> QED  BY <1>1, <1>9, <2>1 DEF PeekBatch, TypeOK, Unlocked, bounds, ghosts
<1>10. CASE CopyKept
  <2>1. Kept(file, worker.ids) \in Seq(Lines)
    BY <1>1, KeptLines
  <2>2. worker.pc = "sending" /\ temp = <<>>
    BY <1>1, <1>10 DEF CopyKept, Unlocked
  <2>3. /\ asked' = asked \cup worker.ids
        /\ UNCHANGED <<file, buffered, tried, acked, lost, cuts, crashes>>
    BY <1>10 DEF CopyKept
  <2>4. \/ /\ worker' = IdleWorker /\ removed' = removed \cup worker.ids
           /\ UNCHANGED <<temp, orphans, faults>>
        \/ /\ temp' = Kept(file, worker.ids)
           /\ worker' = [worker EXCEPT !.pc = "swap"]
           /\ UNCHANGED <<orphans, removed, faults>>
        \/ /\ worker' = IdleWorker /\ DiscardTemp(1) /\ UNCHANGED removed
    BY <1>10 DEF CopyKept
  <2>5. /\ worker' \in [pc : {"idle", "sending", "swap", "rename"}, ids : SUBSET Events]
        /\ temp' \in Seq(Lines)
        /\ Unlocked' => temp' = <<>>
        /\ removed' \subseteq asked' /\ faults' \in 0..MaxFaults
        /\ orphans' \in 0..(crashes' + faults')
    BY <1>1, <1>4, <1>a, <2>1, <2>2, <2>3, <2>4 DEF Unlocked
  <2>6. asked' \subseteq tried'
    BY <1>1, <1>2, <2>3
  <2>7. /\ file' \in Seq(Lines) /\ buffered' \subseteq tried' /\ tried' \subseteq Events
        /\ acked' \subseteq tried' /\ lost' \subseteq tried'
        /\ cuts' \in 0..MaxCuts /\ crashes' \in 0..MaxCrashes
    BY <1>1, <2>3
  <2> QED  BY <2>5, <2>6, <2>7 DEF TypeOK
<1>11. CASE RemoveTarget
  <2>1. /\ UNCHANGED <<buffered, tried, acked, asked, lost, cuts, crashes>>
        /\ worker.pc = "swap" /\ file' = <<>>
    BY <1>11 DEF RemoveTarget
  <2>2. \/ /\ DiscardTemp(0) /\ worker' = IdleWorker
           /\ removed' = removed \cup worker.ids
        \/ /\ worker' = [worker EXCEPT !.pc = "rename"]
           /\ UNCHANGED <<temp, orphans, removed, faults>>
    BY <1>11 DEF RemoveTarget
  <2>3. /\ temp' \in Seq(Lines) /\ faults' \in 0..MaxFaults
        /\ orphans' \in 0..(crashes' + faults')
        /\ worker' \in [pc : {"idle", "sending", "swap", "rename"}, ids : SUBSET Events]
        /\ Unlocked' => temp' = <<>>
        /\ removed' \subseteq asked
    BY <1>1, <1>2, <1>4, <1>a, <2>1, <2>2 DEF Unlocked
  <2> QED  BY <1>1, <1>4, <2>1, <2>3 DEF TypeOK
<1>12. CASE Rename
  BY <1>1, <1>2, <1>4, <1>12 DEF Rename, TypeOK, Unlocked, bounds
<1>13. CASE SendFails
  <2>1. temp = <<>> /\ UNCHANGED <<file, temp, orphans, buffered, ghosts, cuts, crashes>>
        /\ worker' = IdleWorker
    BY <1>1, <1>13 DEF SendFails, Unlocked
  <2>2. faults' \in 0..MaxFaults /\ orphans' \in 0..(crashes' + faults')
    BY <1>1, <1>3, <1>13, <2>1 DEF SendFails, Fault
  <2> QED  BY <1>1, <1>4, <2>1, <2>2 DEF TypeOK, Unlocked, ghosts
<1>14. CASE RemoveTargetFails
  <2>1. /\ UNCHANGED <<file, buffered, ghosts, cuts, crashes>>
        /\ worker' = IdleWorker /\ DiscardTemp(1)
    BY <1>14 DEF RemoveTargetFails
  <2>2. /\ temp' = <<>> /\ temp' \in Seq(Lines) /\ faults' \in 0..MaxFaults
        /\ orphans' \in 0..(crashes' + faults')
    BY <1>1, <1>a, <2>1
  <2> QED  BY <1>1, <1>4, <2>1, <2>2 DEF TypeOK, Unlocked, ghosts
<1>15. CASE RenameFails
  <2>1. /\ UNCHANGED <<file, buffered, tried, acked, asked, removed, cuts, crashes>>
        /\ worker' = IdleWorker /\ DiscardTemp(1) /\ lost' = lost \cup Readable(temp)
    BY <1>15 DEF RenameFails
  <2>2. /\ temp' = <<>> /\ temp' \in Seq(Lines) /\ faults' \in 0..MaxFaults
        /\ orphans' \in 0..(crashes' + faults')
    BY <1>1, <1>a, <2>1
  <2> QED  BY <1>1, <1>2, <1>4, <2>1, <2>2 DEF TypeOK, Unlocked
<1>16. CASE Crash
  <2>1. /\ UNCHANGED <<file, tried, acked, asked, removed, cuts, faults>>
        /\ worker' = IdleWorker /\ temp' = <<>> /\ buffered' = {}
        /\ lost' = lost \/ lost' = lost \cup Readable(temp)
    BY <1>16 DEF Crash
  <2>2. crashes' = crashes + 1 /\ crashes' \in 0..MaxCrashes
    BY <1>1, <1>3, <1>16 DEF Crash
  <2>3. orphans' \in 0..(crashes' + faults')
    <3>1. PICK left \in {0, 1} : orphans' = orphans + left
      BY <1>16 DEF Crash
    <3> QED  BY <1>1, <1>3, <2>1, <2>2, <3>1
  <2> QED  BY <1>1, <1>2, <1>4, <2>1, <2>2, <2>3 DEF TypeOK, Unlocked
<1>17. CASE UNCHANGED vars
  BY <1>1, <1>17 DEF vars, TypeOK, Unlocked, ghosts, bounds
<1> QED  BY <1>5, <1>6, <1>7, <1>8, <1>9, <1>10, <1>11, <1>12, <1>13, <1>14, <1>15,
            <1>16, <1>17 DEF Next, WorkerStep

LEMMA LastLine ==
    ASSUME TypeOK, OutboxInv, Unlocked
    PROVE  /\ Visible = file /\ temp = <<>> /\ worker.pc \in {"idle", "sending"}
           /\ Glues(file) => Last(file).id \notin acked
<1>1. Visible = file /\ temp = <<>> /\ worker.pc \in {"idle", "sending"}
  BY DEF TypeOK, Unlocked, Visible
<1>2. ASSUME Glues(file)  PROVE Last(file).id \notin acked
  <2>1. Len(file) \in DOMAIN file /\ ~file[Len(file)].ended
    BY <1>2 DEF Glues, Last, TypeOK
  <2> QED  BY <1>1, <2>1 DEF OutboxInv, Filed, Last
<1> QED  BY <1>1, <1>2

\* An Append that writes, in full (whole, ended, acknowledged) or cut short.
LEMMA WriteStep ==
    ASSUME TypeOK, OutboxInv, NEW e \in Events, Appended(e),
           NEW whole \in BOOLEAN, NEW ended \in BOOLEAN,
           file' = Written(file, e, whole, ended),
           UNCHANGED <<temp, worker, asked, removed, lost>>,
           \/ whole /\ ended /\ acked' = acked \cup {e} /\ cuts' = cuts
           \/ ~ended /\ acked' = acked /\ cuts' = cuts + 1
    PROVE  OutboxInv'
<1>1. /\ Unlocked /\ e \notin tried /\ tried' = tried \cup {e}
      /\ acked \subseteq tried /\ asked \subseteq tried /\ removed \subseteq tried
      /\ file \in Seq(Lines) /\ cuts \in Nat
  BY OutboxAssumption DEF Appended, TypeOK
<1>2. /\ worker.ids \subseteq tried
      /\ \A i \in DOMAIN file : file[i].id \in tried
      /\ \A i \in DOMAIN file : file[i].ended \/ file[i].id \notin acked
      /\ removed \cap Readable(file) = {}
  BY <1>1, LastLine DEF OutboxInv, Filed, RemovedStaysRemoved
<1>3. /\ Visible = file /\ Visible' = file' /\ temp = <<>>
      /\ worker.pc \in {"idle", "sending"}
      /\ Glues(file) => Last(file).id \notin acked
  BY <1>1, LastLine DEF Visible
<1>4. /\ Glues(file') <=> ~ended
      /\ \A i \in DOMAIN file' : \/ i \in DOMAIN file /\ file'[i] = file[i]
                                 \/ file'[i].id = e /\ file'[i].ended = ended
      /\ Readable(file') \subseteq Readable(file) \cup {e}
      /\ ~Glues(file) => /\ Readable(file) \subseteq Readable(file')
                         /\ whole => e \in Readable(file')
      /\ Glues(file) => Readable(file) \ {Last(file).id} \subseteq Readable(file')
  BY <1>1, WrittenLines
<1>5. Filed'
  <2>1. \A i \in DOMAIN file' : file'[i].id \in tried'
    BY <1>1, <1>2, <1>4
  <2>2. \A i \in DOMAIN file' : file'[i].ended \/ file'[i].id \notin acked'
    BY <1>1, <1>2, <1>4
  <2> QED  BY <1>1, <1>2, <1>3, <2>1, <2>2 DEF Filed
<1>6. Removing' /\ RemovedStaysRemoved'
  BY <1>1, <1>2, <1>3, <1>4 DEF Removing, RemovedStaysRemoved
<1>7. Paid'
  <2> SUFFICES /\ Cardinality(Missing') <= cuts'
               /\ Glues(file') => Cardinality(Missing') < cuts'
    BY <1>3 DEF Paid
  <2>1. /\ Cardinality(Missing) <= cuts
        /\ Glues(file) => Cardinality(Missing) < cuts
    BY <1>3 DEF OutboxInv, Paid
  <2>2. /\ Missing = acked \ (asked \cup lost \cup Readable(file))
        /\ Missing' = acked' \ (asked \cup lost \cup Readable(file'))
    BY <1>3 DEF Missing
  <2>3. IsFiniteSet(Missing) /\ Cardinality(Missing) \in Nat
    BY MissingIsFinite
  <2>4. CASE ~ended
    <3>1. Missing' \subseteq Missing
      BY <1>3, <1>4, <2>2, <2>4
    <3>2. Cardinality(Missing') \in Nat /\ Cardinality(Missing') <= Cardinality(Missing)
      BY <3>1, FewerMissing
    <3> QED  BY <1>1, <2>1, <2>3, <2>4, <3>2
  <2>5. CASE ended /\ Glues(file)
    <3>1. Missing' \subseteq Missing \cup {e}
      BY <1>3, <1>4, <2>2, <2>5
    <3>2. /\ IsFiniteSet(Missing \cup {e})
          /\ Cardinality(Missing \cup {e}) <= Cardinality(Missing) + 1
      <4>1. /\ IsFiniteSet(Missing \cup {e})
            /\ Cardinality(Missing \cup {e}) =
                   IF e \in Missing THEN Cardinality(Missing) ELSE Cardinality(Missing) + 1
        BY <2>3, FS_AddElement
      <4> QED  BY <2>3, <4>1
    <3>3. /\ Cardinality(Missing') <= Cardinality(Missing \cup {e})
          /\ Cardinality(Missing') \in Nat /\ Cardinality(Missing \cup {e}) \in Nat
      BY <3>1, <3>2, FS_Subset, FS_CardinalityType
    <3>4. ~Glues(file') /\ cuts' = cuts
      BY <1>4, <2>5
    <3>5. Cardinality(Missing) + 1 <= cuts
      BY <1>1, <2>1, <2>3, <2>5
    <3>6. Cardinality(Missing') <= cuts
      BY <1>1, <2>3, <3>2, <3>3, <3>5
    <3> QED  BY <3>4, <3>6
  <2>6. CASE ended /\ ~Glues(file)
    <3>1. Missing' \subseteq Missing
      BY <1>3, <1>4, <2>2, <2>6
    <3>2. Cardinality(Missing') \in Nat /\ Cardinality(Missing') <= Cardinality(Missing)
      BY <3>1, FewerMissing
    <3>3. ~Glues(file') /\ cuts' = cuts
      BY <1>4, <2>6
    <3> QED  BY <1>1, <2>1, <2>3, <3>2, <3>3
  <2> QED  BY <2>4, <2>5, <2>6
<1> QED  BY <1>5, <1>6, <1>7 DEF OutboxInv

\* A step that appends nothing and after which a reader finds what it found, but
\* for events that a Remove was called with or an interrupted replacement took.
LEMMA OtherStep ==
    ASSUME TypeOK, OutboxInv, Filed', Removing',
           removed' \cap Readable(Visible') = {},
           UNCHANGED <<acked, cuts>>, asked \subseteq asked', lost \subseteq lost',
           Readable(Visible) \subseteq Readable(Visible') \cup asked' \cup lost',
           Glues(Visible') => Glues(Visible)
    PROVE  OutboxInv'
<1>1. Paid'
  <2> SUFFICES /\ Cardinality(Missing') <= cuts
               /\ Glues(Visible') => Cardinality(Missing') < cuts
    BY DEF Paid
  <2>1. Missing' \subseteq Missing
    BY DEF Missing
  <2>2. cuts \in Nat /\ Cardinality(Missing) \in Nat
    BY OutboxAssumption, MissingIsFinite DEF TypeOK
  <2> QED  BY <2>1, <2>2, FewerMissing DEF OutboxInv, Paid
<1> QED  BY <1>1 DEF OutboxInv, RemovedStaysRemoved

LEMMA OutboxStep ==
    ASSUME TypeOK, OutboxInv, [Next]_vars
    PROVE  OutboxInv'
<1>1. /\ file \in Seq(Lines) /\ worker.ids \in SUBSET Events
      /\ worker \in [pc : {"idle", "sending", "swap", "rename"}, ids : SUBSET Events]
      /\ removed \subseteq asked /\ asked \subseteq tried
      /\ worker.pc \in {"idle", "sending"} => temp = <<>>
  BY DEF TypeOK, Unlocked
<1>2. /\ worker.ids \subseteq tried
      /\ \A i \in DOMAIN file : file[i].id \in tried
      /\ \A i \in DOMAIN temp : temp[i].id \in tried
      /\ \A i \in DOMAIN Visible : Visible[i].ended \/ Visible[i].id \notin acked
      /\ worker.pc \in {"swap", "rename"} => worker.ids \subseteq asked
      /\ worker.pc = "swap" => temp = Kept(file, worker.ids)
      /\ worker.pc = "rename" => file = <<>> /\ worker.ids \cap Readable(temp) = {}
      /\ removed \cap Readable(Visible) = {}
  BY DEF OutboxInv, Filed, Removing, RemovedStaysRemoved
<1>3. IdleWorker.pc = "idle" /\ IdleWorker.ids = {}
  BY DEF IdleWorker
<1>4. ~Glues(<<>>) /\ Readable(<<>>) = {} /\ DOMAIN <<>> = {}
  BY NothingReadable DEF Glues
<1>5. ASSUME NEW e \in Events, AppendWhole(e)  PROVE OutboxInv'
  BY <1>5, WriteStep DEF AppendWhole, bounds
<1>6. ASSUME NEW e \in Events, AppendFails(e)  PROVE OutboxInv'
  <2>1. UNCHANGED <<file, temp, worker, acked, asked, removed, lost, cuts>>
        /\ tried \subseteq tried'
    BY <1>6 DEF AppendFails, Appended
  <2>2. Visible' = Visible
    BY <2>1 DEF Visible
  <2>3. Filed' /\ Removing'
    BY <1>2, <2>1, <2>2 DEF Filed, Removing
  <2> QED  BY <1>2, <2>1, <2>2, <2>3, OtherStep
<1>7. ASSUME NEW e \in Events, AppendCut(e)  PROVE OutboxInv'
  <2>1. PICK whole \in BOOLEAN : file' = Written(file, e, whole, FALSE)
    BY <1>7 DEF AppendCut
  <2> QED  BY <1>7, <2>1, WriteStep DEF AppendCut
<1>8. ASSUME NEW e \in Events, TakeQueued(e)  PROVE OutboxInv'
  <2>1. UNCHANGED <<file, temp, tried, acked, asked, removed, lost, cuts>>
        /\ worker.pc = "idle" /\ worker'.pc = "sending" /\ worker'.ids \subseteq tried
    BY <1>8 DEF TakeQueued, ghosts, bounds, TypeOK
  <2>2. Visible' = Visible
    BY <2>1 DEF Visible
  <2>3. Filed' /\ Removing'
    BY <1>2, <2>1, <2>2 DEF Filed, Removing
  <2> QED  BY <1>2, <2>1, <2>2, <2>3, OtherStep
<1>9. CASE PeekBatch
  <2>1. UNCHANGED <<file, temp, tried, acked, asked, removed, lost, cuts>>
        /\ worker.pc = "idle" /\ worker'.pc = "sending" /\ worker'.ids = Peek(file)
    BY <1>9 DEF PeekBatch, ghosts, bounds
  <2>2. Visible' = Visible
    BY <2>1 DEF Visible
  <2>3. Peek(file) \subseteq tried
    BY <1>2 DEF Peek, Whole
  <2>4. Filed' /\ Removing'
    BY <1>2, <2>1, <2>2, <2>3 DEF Filed, Removing
  <2> QED  BY <1>2, <2>1, <2>2, <2>4, OtherStep
<1>10. CASE SendFails
  <2>1. UNCHANGED <<file, temp, tried, acked, asked, removed, lost, cuts>>
        /\ worker.pc = "sending" /\ worker' = IdleWorker
    BY <1>10 DEF SendFails, ghosts
  <2>2. Visible' = Visible
    BY <1>3, <2>1 DEF Visible
  <2>3. Filed' /\ Removing'
    BY <1>2, <1>3, <2>1, <2>2 DEF Filed, Removing
  <2> QED  BY <1>2, <2>1, <2>2, <2>3, OtherStep
<1>11. CASE CopyKept
  <2>1. /\ UNCHANGED <<file, tried, acked, lost, cuts>>
        /\ worker.pc = "sending" /\ asked' = asked \cup worker.ids
    BY <1>11 DEF CopyKept
  <2>2. CASE file = <<>> /\ worker' = IdleWorker /\ removed' = removed \cup worker.ids
             /\ temp' = temp
    <3>1. Visible' = file /\ Visible = file
      BY <1>3, <2>1, <2>2 DEF Visible
    <3>2. Filed' /\ Removing'
      BY <1>2, <1>3, <1>4, <2>1, <2>2, <3>1 DEF Filed, Removing
    <3> QED  BY <1>4, <2>1, <2>2, <3>1, <3>2, OtherStep
  <2>3. CASE temp' = Kept(file, worker.ids) /\ worker' = [worker EXCEPT !.pc = "swap"]
             /\ removed' = removed
    <3>1. worker'.pc = "swap" /\ worker'.ids = worker.ids
      BY <1>1, <2>3
    <3>2. Visible' = file /\ Visible = file
      BY <2>1, <3>1 DEF Visible
    <3>3. \A i \in DOMAIN temp' : temp'[i].id \in tried
      <4>1. \A n \in DOMAIN temp' : \E i \in DOMAIN file : temp'[n].id = file[i].id
        BY <1>1, <2>3, KeptLines
      <4> QED  BY <1>2, <4>1
    <3>4. Filed' /\ Removing'
      BY <1>2, <2>1, <2>3, <3>1, <3>2, <3>3 DEF Filed, Removing
    <3> QED  BY <1>2, <2>1, <2>3, <3>2, <3>4, OtherStep
  <2>4. CASE worker' = IdleWorker /\ temp' = temp /\ removed' = removed
    <3>1. Visible' = file /\ Visible = file
      BY <1>3, <2>1, <2>4 DEF Visible
    <3>2. Filed' /\ Removing'
      BY <1>2, <1>3, <2>1, <2>4, <3>1 DEF Filed, Removing
    <3> QED  BY <1>2, <2>1, <2>4, <3>1, <3>2, OtherStep
  <2> QED  BY <1>1, <1>11, <2>2, <2>3, <2>4 DEF CopyKept, DiscardTemp
<1>12. CASE RemoveTarget
  <2>1. /\ UNCHANGED <<temp, tried, acked, asked, lost, cuts>>
        /\ worker.pc = "swap" /\ file' = <<>>
    BY <1>12 DEF RemoveTarget, DiscardTemp
  <2>2. Visible = file /\ worker.ids \subseteq asked /\ temp = Kept(file, worker.ids)
    BY <1>2, <2>1 DEF Visible
  <2>3. /\ \A n \in DOMAIN temp : temp[n].ended
        /\ Readable(temp) = Readable(file) \ worker.ids
    BY <1>1, <2>2, KeptLines
  <2>4. CASE temp = <<>> /\ worker' = IdleWorker /\ removed' = removed \cup worker.ids
    <3>1. Visible' = <<>>
      BY <1>3, <2>1, <2>4 DEF Visible
    <3>2. Filed' /\ Removing'
      BY <1>2, <1>3, <1>4, <2>1, <2>4, <3>1 DEF Filed, Removing
    <3>3. Readable(file) \subseteq asked
      BY <1>4, <2>2, <2>3, <2>4
    <3> QED  BY <1>4, <2>1, <2>2, <3>1, <3>2, <3>3, OtherStep
  <2>5. CASE worker' = [worker EXCEPT !.pc = "rename"] /\ removed' = removed
    <3>1. worker'.pc = "rename" /\ worker'.ids = worker.ids
      BY <1>1, <2>5
    <3>2. Visible' = temp
      BY <2>1, <3>1 DEF Visible
    <3>3. Filed' /\ Removing'
      BY <1>2, <1>4, <2>1, <2>2, <2>3, <3>1, <3>2 DEF Filed, Removing
    <3>4. ~Glues(temp)
      BY <2>3 DEF Glues, Last, TypeOK
    <3> QED  BY <1>2, <2>1, <2>2, <2>3, <2>5, <3>2, <3>3, <3>4, OtherStep
  <2> QED  BY <1>12, <2>4, <2>5 DEF RemoveTarget
<1>13. CASE RemoveTargetFails
  <2>1. /\ UNCHANGED <<file, tried, acked, asked, removed, lost, cuts>>
        /\ worker.pc = "swap" /\ worker' = IdleWorker /\ temp' = <<>>
    BY <1>13 DEF RemoveTargetFails, DiscardTemp, ghosts
  <2>2. Visible' = file /\ Visible = file
    BY <1>3, <2>1 DEF Visible
  <2>3. Filed' /\ Removing'
    BY <1>2, <1>3, <1>4, <2>1, <2>2 DEF Filed, Removing
  <2> QED  BY <1>2, <2>1, <2>2, <2>3, OtherStep
<1>14. CASE Rename
  <2>1. /\ UNCHANGED <<tried, acked, asked, lost, cuts>>
        /\ worker.pc = "rename" /\ worker' = IdleWorker /\ file' = temp /\ temp' = <<>>
        /\ removed' = removed \cup worker.ids
    BY <1>14 DEF Rename, bounds
  <2>2. Visible' = temp /\ Visible = temp
    BY <1>3, <2>1 DEF Visible
  <2>3. Filed' /\ Removing'
    BY <1>2, <1>3, <1>4, <2>1, <2>2 DEF Filed, Removing
  <2> QED  BY <1>2, <2>1, <2>2, <2>3, OtherStep
<1>15. CASE RenameFails
  <2>1. /\ UNCHANGED <<file, tried, acked, asked, removed, cuts>>
        /\ worker.pc = "rename" /\ worker' = IdleWorker /\ temp' = <<>>
        /\ lost' = lost \cup Readable(temp)
    BY <1>15 DEF RenameFails, DiscardTemp, ghosts
  <2>2. Visible' = <<>> /\ Visible = temp
    BY <1>2, <1>3, <2>1 DEF Visible
  <2>3. Filed' /\ Removing'
    BY <1>2, <1>3, <1>4, <2>1, <2>2 DEF Filed, Removing
  <2> QED  BY <1>4, <2>1, <2>2, <2>3, OtherStep
<1>16. CASE Crash
  <2>1. /\ UNCHANGED <<file, tried, acked, asked, removed, cuts>>
        /\ worker' = IdleWorker /\ temp' = <<>>
        /\ lost' = IF worker.pc = "rename" THEN lost \cup Readable(temp) ELSE lost
    BY <1>16 DEF Crash
  <2>2. /\ Visible' = file /\ (worker.pc # "rename" => Visible = file)
        /\ worker.pc = "rename" => Visible = temp /\ file = <<>>
    BY <1>2, <1>3, <2>1 DEF Visible
  <2>3. /\ \A i \in DOMAIN file : file[i].ended \/ file[i].id \notin acked
        /\ removed \cap Readable(file) = {}
    BY <1>2, <1>4, <2>2
  <2>4. Filed' /\ Removing'
    BY <1>2, <1>3, <1>4, <2>1, <2>2, <2>3 DEF Filed, Removing
  <2>5. /\ lost \subseteq lost'
        /\ Readable(Visible) \subseteq Readable(Visible') \cup lost'
        /\ Glues(Visible') => Glues(Visible)
    BY <1>4, <2>1, <2>2
  <2> QED  BY <2>1, <2>2, <2>3, <2>4, <2>5, OtherStep
<1>17. CASE UNCHANGED vars
  BY <1>17 DEF vars, ghosts, bounds, OutboxInv, Filed, Removing, RemovedStaysRemoved,
               Paid, Visible, Missing
<1> QED  BY <1>5, <1>6, <1>7, <1>8, <1>9, <1>10, <1>11, <1>12, <1>13, <1>14, <1>15,
            <1>16, <1>17 DEF Next, WorkerStep

-----------------------------------------------------------------------------

LEMMA OutboxInit == Init => TypeOK /\ OutboxInv
<1> SUFFICES ASSUME Init  PROVE TypeOK /\ OutboxInv
  OBVIOUS
<1>1. IdleWorker \in [pc : {"idle", "sending", "swap", "rename"}, ids : SUBSET Events]
      /\ IdleWorker.pc = "idle" /\ IdleWorker.ids = {}
  BY DEF IdleWorker
<1>2. TypeOK
  <2>1. MaxCuts \in Nat /\ MaxFaults \in Nat /\ MaxCrashes \in Nat
    BY OutboxAssumption
  <2>2. /\ cuts \in 0..MaxCuts /\ faults \in 0..MaxFaults
        /\ crashes \in 0..MaxCrashes
    BY <2>1 DEF Init
  <2>3. file \in Seq(Lines) /\ temp \in Seq(Lines)
    BY DEF Init
  <2>4. orphans \in 0..(crashes + faults)
    BY DEF Init
  <2> QED  BY <1>1, <2>2, <2>3, <2>4 DEF Init, TypeOK
<1>3. Visible = <<>> /\ Missing = {}
  BY <1>1 DEF Init, Visible, Missing
<1>4. ~Glues(<<>>) /\ DOMAIN <<>> = {}
  BY DEF Glues
<1>5. Filed /\ Removing /\ RemovedStaysRemoved
  BY <1>1, <1>3, <1>4 DEF Init, Filed, Removing, RemovedStaysRemoved
<1>6. Paid
  BY <1>3, <1>4, FS_EmptySet DEF Init, Paid
<1> QED  BY <1>2, <1>5, <1>6 DEF OutboxInv

LEMMA OutboxInvariant == Spec => [](TypeOK /\ OutboxInv)
<1>1. TypeOK /\ OutboxInv /\ [Next]_vars => (TypeOK /\ OutboxInv)'
  BY TypeStep, OutboxStep
<1> QED  BY <1>1, OutboxInit, PTL DEF Spec

\* outbox.go:25-163: the lines, the temporary file and the worker's batch are well
\* typed; outside a Remove the only temporary files on the disk are those that a crash
\* or an ignored deletion error left there, at most one for each.
THEOREM TypeCorrect == Spec => []TypeOK
  BY OutboxInvariant, PTL

\* outbox.go:41-46, 121-135: besides what an interrupted replacement takes, at most
\* one acknowledged event is lost for every write cut short, however writes, copies,
\* failures and crashes follow one another.
THEOREM CutsCostOneEvent == Spec => []CutCostsOneEvent
<1>1. OutboxInv => CutCostsOneEvent
  BY DEF OutboxInv, Paid, CutCostsOneEvent
<1> QED  BY <1>1, OutboxInvariant, PTL

\* outbox.go:85-163: what a Remove that returned nil removed is never read again.
THEOREM RemovedIsGone == Spec => []RemovedStaysRemoved
<1>1. OutboxInv => RemovedStaysRemoved
  BY DEF OutboxInv
<1> QED  BY <1>1, OutboxInvariant, PTL
=============================================================================
