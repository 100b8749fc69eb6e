------------------------- MODULE EventQueue_proofs -------------------------
(***************************************************************************)
(* Theorems about eventQueue for every set of events and every capacity:   *)
(* its variables keep their types and the buffer its bound, push and drain *)
(* account for every event once, keep the order of the events, and lose    *)
(* what matters least.                                                     *)
(***************************************************************************)
EXTENDS EventQueue, EventBuffer_proofs, SequenceTheorems

-----------------------------------------------------------------------------
(* Type correctness *)

LEMMA TypeInit == Init => TypeOK
BY BufferAssumption DEF Init, TypeOK

LEMMA TypeStep == TypeOK /\ [Next]_vars => TypeOK'
<1> SUFFICES ASSUME TypeOK, [Next]_vars  PROVE TypeOK'
  OBVIOUS
<1> USE DEF TypeOK
<1>1. ASSUME NEW e \in Events, Push(e)  PROVE TypeOK'
  <2>1. log' \in Seq(Events) /\ out' \in Seq(Events)
    BY <1>1 DEF Push
  <2>2. CASE PushAppend(e)
    BY <2>1, <2>2, AppendStores DEF PushAppend
  <2>3. CASE PushReplace(e)
    <3>1. queue[Victim(queue)] \in Events
      BY <2>3, VictimIsDroppable, BufferAssumption DEF PushReplace, CanReplace
    <3>2. queue' \in Seq(Events) /\ Len(queue') <= BufferSize
      BY <2>3, ReplaceStores DEF PushReplace
    <3> QED  BY <2>1, <2>3, <3>1, <3>2 DEF PushReplace
  <2>4. CASE PushRefuse(e)
    BY <2>1, <2>4 DEF PushRefuse
  <2> QED  BY <1>1, <2>2, <2>3, <2>4 DEF Push
<1>2. ASSUME NEW max \in 0..MaxDrain, Drain(max)  PROVE TypeOK'
  <2>1. max \in Nat
    BY DrainAssumption
  <2>2. /\ Drained(queue, max) \in Seq(Events)
        /\ Remainder(queue, max) \in Seq(Events)
        /\ Len(Remainder(queue, max)) < Len(queue)
    BY <1>2, <2>1, DrainSplits DEF Drain
  <2>3. Len(queue') <= BufferSize
    BY <1>2, <2>2, BufferAssumption DEF Drain
  <2> QED  BY <1>2, <2>2, <2>3 DEF Drain
<1>3. CASE UNCHANGED vars
  BY <1>3 DEF vars
<1> QED  BY <1>1, <1>2, <1>3 DEF Next

\* The buffer of queue.go never outgrows its capacity, and what it holds, has
\* handed out and has reported as dropped are events that were pushed to it.
THEOREM TypeCorrect == Spec => []TypeOK
<1>1. Init => TypeOK
  BY TypeInit
<1>2. TypeOK /\ [Next]_vars => TypeOK'
  BY TypeStep
<1> QED  BY <1>1, <1>2, PTL DEF Spec

-----------------------------------------------------------------------------
(* Every push is accounted for *)

\* Appending to the second of two sequences appends to both together.
LEMMA AppendToBoth ==
    ASSUME NEW s \in Seq(Events), NEW q \in Seq(Events), NEW e \in Events
    PROVE  s \o Append(q, e) = Append(s \o q, e)
OBVIOUS

\* What drain takes off the front of the buffer comes to the end of what the
\* worker has got (queue.go:62-65): the two together stay as they are.
LEMMA DrainKeepsBoth ==
    ASSUME NEW s \in Seq(Events), NEW q \in Seq(Events), NEW max \in Nat,
           q # <<>>
    PROVE  (s \o Drained(q, max)) \o Remainder(q, max) = s \o q
<1> DEFINE a == Drained(q, max)
           b == Remainder(q, max)
<1>1. a \o b = q
  BY DrainJoins
<1>2. a \in Seq(Events) /\ b \in Seq(Events)
  BY DrainSplits
<1> HIDE DEF a, b
<1>3. (s \o a) \o b = s \o (a \o b)
  BY <1>2, ConcatAssociative
<1> QED  BY <1>1, <1>3 DEF a, b

\* Replacing in the second of two sequences replaces in both together.
LEMMA PutInBoth ==
    ASSUME NEW s \in Seq(Events), NEW q \in Seq(Events), NEW e \in Events,
           NEW k \in DOMAIN q
    PROVE  /\ Len(s) + k \in DOMAIN (s \o q)
           /\ (s \o q)[Len(s) + k] = q[k]
           /\ s \o [q EXCEPT ![k] = e] = [s \o q EXCEPT ![Len(s) + k] = e]
<1> DEFINE r == [q EXCEPT ![k] = e]
           w == s \o q
           both == [w EXCEPT ![Len(s) + k] = e]
<1>1. /\ k \in 1..Len(q) /\ DOMAIN q = 1..Len(q)
      /\ Len(s) \in Nat /\ Len(q) \in Nat
  OBVIOUS
<1>2. /\ w \in Seq(Events)
      /\ Len(w) = Len(s) + Len(q)
      /\ DOMAIN w = 1..(Len(s) + Len(q))
      /\ \A i \in 1..(Len(s) + Len(q)) :
            w[i] = IF i <= Len(s) THEN s[i] ELSE q[i - Len(s)]
  OBVIOUS
<1> HIDE DEF w
<1>3. Len(s) + k \in DOMAIN w /\ w[Len(s) + k] = q[k]
  BY <1>1, <1>2
<1>4. /\ r \in Seq(Events) /\ Len(r) = Len(q)
      /\ \A i \in 1..Len(q) : r[i] = IF i = k THEN e ELSE q[i]
  OBVIOUS
<1>5. /\ both \in Seq(Events) /\ Len(both) = Len(s) + Len(q)
      /\ \A i \in 1..(Len(s) + Len(q)) :
            both[i] = IF i = Len(s) + k THEN e ELSE w[i]
  BY <1>2
<1> HIDE DEF r, both
<1>6. /\ s \o r \in Seq(Events) /\ Len(s \o r) = Len(s) + Len(q)
      /\ \A i \in 1..(Len(s) + Len(q)) :
            (s \o r)[i] = IF i <= Len(s) THEN s[i] ELSE r[i - Len(s)]
  BY <1>1, <1>4
<1>7. ASSUME NEW i \in 1..(Len(s) + Len(q))  PROVE (s \o r)[i] = both[i]
  <2>1. CASE i <= Len(s)
    BY <1>1, <1>2, <1>5, <1>6, <2>1
  <2>2. CASE i > Len(s)
    <3>1. i - Len(s) \in 1..Len(q) /\ (i - Len(s) = k <=> i = Len(s) + k)
      BY <1>1, <2>2
    <3>2. (s \o r)[i] = r[i - Len(s)] /\ w[i] = q[i - Len(s)]
      BY <1>1, <1>2, <1>6, <2>2
    <3> QED  BY <1>4, <1>5, <3>1, <3>2
  <2>3. i <= Len(s) \/ i > Len(s)
    BY <1>1
  <2> QED  BY <2>1, <2>2, <2>3
<1>8. s \o r = both
  <2> DEFINE u == s \o r
  <2>1. /\ u \in Seq(Events) /\ Len(u) = Len(both)
        /\ \A i \in 1..Len(u) : u[i] = both[i]
    BY <1>5, <1>6, <1>7
  <2> HIDE DEF u
  <2>2. u = both
    BY <1>5, <2>1, SeqEqual
  <2> QED  BY <2>2 DEF u
<1> QED  BY <1>3, <1>8 DEF r, both, w

LEMMA AccountedStep ==
    TypeOK /\ EveryPushAccounted /\ [Next]_vars => EveryPushAccounted'
<1> SUFFICES ASSUME TypeOK, EveryPushAccounted, [Next]_vars
             PROVE  EveryPushAccounted'
  OBVIOUS
<1> DEFINE line == out \o queue
<1>1. /\ Content(log) = Content(line) \cup lost
      /\ Content(line) \cap lost = {}
      /\ Distinct(line)
  BY DEF EveryPushAccounted, Distinct
<1>2. line \in Seq(Events)
  BY DEF TypeOK
<1>3. SUFFICES /\ Content(log') = Content(line') \cup lost'
               /\ Content(line') \cap lost' = {}
               /\ Distinct(line')
  BY DEF EveryPushAccounted, Distinct, Content
<1>4. ASSUME NEW e \in Events, Push(e)
      PROVE  /\ Content(log') = Content(line') \cup lost'
             /\ Content(line') \cap lost' = {}
             /\ Distinct(line')
  <2>1. /\ Content(log') = Content(log) \cup {e}
        /\ out' = out
        /\ e \notin Content(line) /\ e \notin lost
    BY <1>1, <1>4, AppendCounts DEF Push, TypeOK
  <2>2. CASE PushAppend(e)
    <3>1. line' = Append(line, e) /\ lost' = lost
      BY <2>1, <2>2, AppendToBoth DEF PushAppend, AppendBack, TypeOK
    <3>2. /\ Content(line') = Content(line) \cup {e}
          /\ Distinct(line')
      BY <1>1, <1>2, <2>1, <3>1, AppendCounts
    <3> QED  BY <1>1, <2>1, <3>1, <3>2
  <2>3. CASE PushReplace(e)
    <3> DEFINE v == Victim(queue)
               k == Len(out) + v
    <3>1. v \in DOMAIN queue
      BY <2>3, VictimIsDroppable DEF PushReplace, CanReplace, TypeOK
    <3>2. queue' = [queue EXCEPT ![v] = e] /\ lost' = lost \cup {queue[v]}
      BY <2>3 DEF PushReplace, Replaced
    <3> HIDE DEF v
    <3>3. /\ k \in DOMAIN line
          /\ line[k] = queue[v]
          /\ line' = [line EXCEPT ![k] = e]
      <4>1. out \in Seq(Events) /\ queue \in Seq(Events)
        BY DEF TypeOK
      <4>2. line' = out \o [queue EXCEPT ![v] = e]
        BY <2>1, <3>2
      <4> QED  BY <3>1, <4>1, <4>2, PutInBoth
    <3> HIDE DEF k, line
    <3>4. /\ Content(line') = (Content(line) \ {line[k]}) \cup {e}
          /\ Distinct(line')
      BY <1>1, <1>2, <2>1, <3>3, PutCounts
    <3>5. line[k] \in Content(line)
      BY <3>3 DEF Content
    <3> QED  BY <1>1, <2>1, <3>2, <3>3, <3>4, <3>5
  <2>4. CASE PushRefuse(e)
    <3>1. line' = line /\ lost' = lost \cup {e}
      BY <2>1, <2>4 DEF PushRefuse
    <3> QED  BY <1>1, <2>1, <3>1
  <2> QED  BY <1>4, <2>2, <2>3, <2>4 DEF Push
<1>5. ASSUME NEW max \in 0..MaxDrain, Drain(max)
      PROVE  /\ Content(log') = Content(line') \cup lost'
             /\ Content(line') \cap lost' = {}
             /\ Distinct(line')
  <2>1. max \in Nat /\ queue # <<>> /\ out \in Seq(Events) /\ queue \in Seq(Events)
    BY <1>5, DrainAssumption DEF Drain, TypeOK
  <2>2. line' = (out \o Drained(queue, max)) \o Remainder(queue, max)
    BY <1>5 DEF Drain
  <2>3. line' = line
    BY <2>1, <2>2, DrainKeepsBoth
  <2> QED  BY <1>1, <1>5, <2>3 DEF Drain
<1>6. CASE UNCHANGED vars
  BY <1>1, <1>6 DEF vars
<1> QED  BY <1>4, <1>5, <1>6 DEF Next

\* Whatever is pushed and drained, and in whatever order, every pushed event
\* is once in the buffer, the worker's batches or the drop reports: push
\* (queue.go:25-50) and drain (queue.go:52-67) lose and double nothing.
THEOREM PushesAccounted == Spec => []EveryPushAccounted
<1>1. Init => EveryPushAccounted
  BY DEF Init, EveryPushAccounted, Content
<1>2. TypeOK /\ EveryPushAccounted /\ [Next]_vars => EveryPushAccounted'
  BY AccountedStep
<1> QED  BY <1>1, <1>2, TypeCorrect, PTL DEF Spec

-----------------------------------------------------------------------------
(* The buffer keeps its promise *)

LEMMA SameCardinality ==
    ASSUME NEW S
    PROVE  Promise!Cardinality(S) = Cardinality(S)
BY DEF Promise!Cardinality, Cardinality, Promise!IsFiniteSet, IsFiniteSet

LEMMA PromiseStep ==
    TypeOK /\ EveryPushAccounted /\ [Next]_vars => [Promise!Next]_(Promise!vars)
<1> SUFFICES ASSUME TypeOK, EveryPushAccounted, [Next]_vars
             PROVE  [Promise!Next]_(Promise!vars)
  OBVIOUS
<1>1. /\ queue \in Seq(Events) /\ out \in Seq(Events) /\ log \in Seq(Events)
      /\ Len(queue) <= BufferSize
  BY DEF TypeOK
<1>2. /\ Distinct(out \o queue)
      /\ Content(log) = Content(out \o queue) \cup lost
  BY DEF EveryPushAccounted, Distinct
<1>3. /\ Distinct(queue)
      /\ Content(log) = Content(queue) \cup Content(out) \cup lost
      /\ Cardinality(Content(queue)) = Len(queue)
  BY <1>1, <1>2, ConcatCounts, DistinctCardinality
<1> /\ Content(queue)' = Content(queue')
    /\ Content(out)' = Content(out')
  BY DEF Content
<1>4. ASSUME NEW e \in Events, Push(e)  PROVE Promise!Offer(e)
  <2>1. /\ e \notin Content(queue) \cup Content(out) \cup lost
        /\ Content(out)' = Content(out)
    BY <1>3, <1>4 DEF Push
  <2>2. CASE PushAppend(e)
    <3>1. /\ Content(queue)' = Content(queue) \cup {e}
          /\ lost' = lost
          /\ Len(queue) < BufferSize
      BY <1>1, <2>2, AppendCounts DEF PushAppend, AppendBack, HasRoom
    <3>2. Promise!Store(e)
      BY <1>3, <3>1, SameCardinality DEF Promise!Store
    <3> QED  BY <2>1, <3>2 DEF Promise!Offer
  <2>3. ASSUME ~HasRoom(queue)  PROVE Cardinality(Content(queue)) = BufferSize
    BY <1>1, <1>3, <2>3, BufferAssumption DEF HasRoom
  <2>4. CASE PushReplace(e)
    <3> DEFINE v == Victim(queue)
    <3>1. v \in DOMAIN queue /\ queue[v] \in Debug \cup Info
      BY <1>1, <2>4, VictimIsDroppable DEF PushReplace, CanReplace
    <3>2. /\ queue' = [queue EXCEPT ![v] = e]
          /\ lost' = lost \cup {queue[v]}
          /\ ~HasRoom(queue)
      BY <2>4 DEF PushReplace, Replaced
    <3> HIDE DEF v
    <3>3. queue[v] \in Content(queue)
      BY <3>1 DEF Content
    <3>4. Content([queue EXCEPT ![v] = e]) = (Content(queue) \ {queue[v]}) \cup {e}
      BY <1>1, <1>3, <2>1, <3>1, PutCounts
    <3>5. Content(queue)' = (Content(queue) \cup {e}) \ {queue[v]}
      BY <2>1, <3>2, <3>3, <3>4
    <3>6. Promise!GiveUp(e)
      BY <2>3, <3>1, <3>2, <3>3, <3>5, SameCardinality
         DEF Promise!GiveUp, Promise!Droppable
    <3> QED  BY <2>1, <3>6 DEF Promise!Offer
  <2>5. CASE PushRefuse(e)
    <3>1. /\ Content(queue)' = (Content(queue) \cup {e}) \ {e}
          /\ lost' = lost \cup {e}
          /\ ~HasRoom(queue)
      BY <2>1, <2>5 DEF PushRefuse
    <3>2. \/ e \in Debug \cup Info
          \/ (Content(queue) \cup {e}) \cap (Debug \cup Info) = {}
      BY <2>5 DEF PushRefuse, CanReplace, IsDroppable, IndexesOf, Content
    <3>3. Promise!GiveUp(e)
      BY <2>3, <3>1, <3>2, SameCardinality
         DEF Promise!GiveUp, Promise!Droppable
    <3> QED  BY <2>1, <3>3 DEF Promise!Offer
  <2> QED  BY <1>4, <2>2, <2>4, <2>5 DEF Push
<1>5. ASSUME NEW max \in 0..MaxDrain, Drain(max)  PROVE Promise!Take
  <2> DEFINE a == Drained(queue, max)
             b == Remainder(queue, max)
  <2>1. max \in Nat /\ queue # <<>>
    BY <1>5, DrainAssumption DEF Drain
  <2>2. a \in Seq(Events) /\ b \in Seq(Events) /\ Len(b) < Len(queue)
    BY <1>1, <2>1, DrainSplits
  <2>3. a \o b = queue
    BY <1>1, <2>1, DrainJoins
  <2>4. out' = out \o a /\ queue' = b /\ lost' = lost
    BY <1>5 DEF Drain
  <2> HIDE DEF a, b
  <2>5. /\ Content(queue) = Content(a) \cup Content(b)
        /\ Content(a) \cap Content(b) = {}
    BY <1>3, <2>2, <2>3, ConcatCounts
  <2>6. /\ Content(queue)' = Content(queue) \ Content(a)
        /\ Content(out)' = Content(out) \cup Content(a)
    BY <1>1, <2>2, <2>4, <2>5, ConcatCounts
  <2>7. Content(a) # {}
    <3>1. a # <<>>
      BY <1>1, <2>2, <2>3
    <3>2. 1 \in DOMAIN a
      BY <2>2, <3>1
    <3> QED  BY <3>2 DEF Content
  <2> QED  BY <2>4, <2>5, <2>6, <2>7 DEF Promise!Take
<1>6. CASE UNCHANGED vars
  BY <1>6 DEF vars, Content, Promise!vars
<1> QED  BY <1>4, <1>5, <1>6 DEF Next, Promise!Next

\* eventQueue keeps the promise of PriorityBuffer: seen as sets, every push
\* (queue.go:25-50) stores the event or gives up one, an important one only
\* if nothing else could go, and every drain (queue.go:52-67) takes some.
THEOREM KeepsPromise == Spec => ImplementsPromise
<1>1. Init => Promise!Init
  BY DEF Init, Content, Promise!Init
<1>2. TypeOK /\ EveryPushAccounted /\ [Next]_vars => [Promise!Next]_(Promise!vars)
  BY PromiseStep
<1> QED
  BY <1>1, <1>2, TypeCorrect, PushesAccounted, PTL
     DEF Spec, ImplementsPromise, Promise!Spec

-----------------------------------------------------------------------------
(* Order *)

\* Everything that was stored and not replaced: the worker's batches, then the
\* buffer.
Line == out \o queue

\* What push and drain do to the line, and to what stands beside it.
LEMMA LineStep ==
    ASSUME TypeOK, [Next]_vars
    PROVE  /\ Line \in Seq(Events)
           /\ \/ Line' = Line /\ log' = log /\ lost' = lost /\ slotted' = slotted
              \/ \E e \in Events :
                    /\ e \notin Content(log) /\ log' = Append(log, e)
                    /\ \/ PushAppend(e) /\ Line' = Append(Line, e)
                       \/ /\ PushReplace(e)
                          /\ \E k \in DOMAIN Line : Line' = [Line EXCEPT ![k] = e]
                       \/ PushRefuse(e) /\ Line' = Line
<1>1. out \in Seq(Events) /\ queue \in Seq(Events) /\ Line \in Seq(Events)
  BY DEF TypeOK, Line
<1>2. ASSUME NEW e \in Events, Push(e)
      PROVE  /\ e \notin Content(log) /\ log' = Append(log, e)
             /\ \/ PushAppend(e) /\ Line' = Append(Line, e)
                \/ /\ PushReplace(e)
                   /\ \E k \in DOMAIN Line : Line' = [Line EXCEPT ![k] = e]
                \/ PushRefuse(e) /\ Line' = Line
  <2>1. e \notin Content(log) /\ log' = Append(log, e) /\ out' = out
    BY <1>2 DEF Push
  <2>2. CASE PushAppend(e)
    <3>1. Line' = Append(Line, e)
      BY <1>1, <2>1, <2>2, AppendToBoth DEF PushAppend, AppendBack, Line
    <3> QED  BY <2>1, <2>2, <3>1
  <2>3. CASE PushReplace(e)
    <3> DEFINE v == Victim(queue)
               k == Len(out) + v
    <3>1. v \in DOMAIN queue
      BY <1>1, <2>3, VictimIsDroppable DEF PushReplace, CanReplace
    <3>2. queue' = [queue EXCEPT ![v] = e]
      BY <2>3 DEF PushReplace, Replaced
    <3> HIDE DEF v
    <3>3. k \in DOMAIN Line /\ Line' = [Line EXCEPT ![k] = e]
      <4>1. Line' = out \o [queue EXCEPT ![v] = e]
        BY <2>1, <3>2 DEF Line
      <4> QED  BY <1>1, <3>1, <4>1, PutInBoth DEF Line
    <3> HIDE DEF k
    <3> QED  BY <2>1, <2>3, <3>3
  <2>4. CASE PushRefuse(e)
    <3>1. Line' = Line
      BY <2>1, <2>4 DEF PushRefuse, Line
    <3> QED  BY <2>1, <2>4, <3>1
  <2> QED  BY <1>2, <2>2, <2>3, <2>4 DEF Push
<1>3. ASSUME NEW max \in 0..MaxDrain, Drain(max)
      PROVE  Line' = Line /\ log' = log /\ lost' = lost /\ slotted' = slotted
  <2>1. max \in Nat /\ queue # <<>>
    BY <1>3, DrainAssumption DEF Drain
  <2>2. Line' = (out \o Drained(queue, max)) \o Remainder(queue, max)
    BY <1>3 DEF Drain, Line
  <2>3. Line' = Line
    BY <1>1, <2>1, <2>2, DrainKeepsBoth DEF Line
  <2> QED  BY <1>3, <2>3 DEF Drain
<1>4. CASE UNCHANGED vars
  BY <1>1, <1>4 DEF vars, Line
<1> QED  BY <1>1, <1>2, <1>3, <1>4 DEF Next

Earlier(s, a, b) == \E p, q \in DOMAIN s : p < q /\ s[p] = a /\ s[q] = b

\* No event is pushed twice, and two events at places i < j of the line, none
\* of them stored in the place of another, were pushed in that order.
Ordered ==
    /\ Distinct(log)
    /\ \A i, j \in DOMAIN Line :
          i < j /\ Line[i] \notin slotted /\ Line[j] \notin slotted
              => Earlier(log, Line[i], Line[j])

LEMMA EarlierKept ==
    ASSUME NEW s \in Seq(Events), NEW e \in Events
    PROVE  /\ \A a, b : Earlier(s, a, b) => Earlier(Append(s, e), a, b)
           /\ \A a \in Content(s) : Earlier(Append(s, e), a, e)
<1>1. /\ DOMAIN Append(s, e) = DOMAIN s \cup {Len(s) + 1}
      /\ Append(s, e)[Len(s) + 1] = e
      /\ \A i \in DOMAIN s : Append(s, e)[i] = s[i] /\ i < Len(s) + 1
  OBVIOUS
<1> DEFINE t == Append(s, e)
           n == Len(s) + 1
<1>2. /\ DOMAIN t = DOMAIN s \cup {n} /\ t[n] = e
      /\ \A i \in DOMAIN s : t[i] = s[i] /\ i < n
  BY <1>1
<1> HIDE DEF t, n
<1>3. \A a, b : Earlier(s, a, b) => Earlier(t, a, b)
  BY <1>2 DEF Earlier
<1>4. \A a \in Content(s) : Earlier(t, a, e)
  BY <1>2 DEF Earlier, Content
<1> QED  BY <1>3, <1>4 DEF t

LEMMA OrderedStep ==
    ASSUME TypeOK, EveryPushAccounted, Ordered, [Next]_vars
    PROVE  Ordered'
<1>1. Line \in Seq(Events) /\ log \in Seq(Events)
  BY LineStep DEF TypeOK
<1>2. Content(Line) \subseteq Content(log)
  BY DEF EveryPushAccounted, Line
<1>3. CASE Line' = Line /\ log' = log /\ lost' = lost /\ slotted' = slotted
  BY <1>3 DEF Ordered, Earlier, Distinct
<1>4. ASSUME NEW e \in Events, e \notin Content(log), log' = Append(log, e),
             \/ PushAppend(e) /\ Line' = Append(Line, e)
             \/ /\ PushReplace(e)
                /\ \E k \in DOMAIN Line : Line' = [Line EXCEPT ![k] = e]
             \/ PushRefuse(e) /\ Line' = Line
      PROVE  Ordered'
  <2>1. Distinct(log')
    BY <1>1, <1>4, AppendCounts DEF Ordered
  <2> DEFINE Keeps(s, out_of) ==
                 \A i, j \in DOMAIN s :
                     i < j /\ s[i] \notin out_of /\ s[j] \notin out_of
                         => Earlier(log', s[i], s[j])
  <2>2. Keeps(Line, slotted)
    BY <1>1, <1>4, EarlierKept DEF Ordered
  <2>3. \A a \in Content(Line) : Earlier(log', a, e)
    BY <1>1, <1>2, <1>4, EarlierKept
  <2>4. Keeps(Line', slotted')
    <3>1. CASE PushAppend(e) /\ Line' = Append(Line, e)
      <4>1. /\ DOMAIN Line' = DOMAIN Line \cup {Len(Line) + 1}
            /\ Line'[Len(Line) + 1] = e
            /\ \A i \in DOMAIN Line : Line'[i] = Line[i] /\ i < Len(Line) + 1
        BY <1>1, <3>1
      <4>2. slotted' = slotted
        BY <3>1 DEF PushAppend
      <4>3. ASSUME NEW i \in DOMAIN Line', NEW j \in DOMAIN Line', i < j,
                   Line'[i] \notin slotted', Line'[j] \notin slotted'
            PROVE  Earlier(log', Line'[i], Line'[j])
        <5>1. i \in DOMAIN Line /\ Line'[i] = Line[i]
          BY <1>1, <4>1, <4>3
        <5>2. CASE j \in DOMAIN Line
          <6>1. Line'[j] = Line[j]
            BY <4>1, <5>2
          <6>2. Line[i] \notin slotted /\ Line[j] \notin slotted
            BY <4>2, <4>3, <5>1, <6>1
          <6> QED  BY <2>2, <4>3, <5>1, <5>2, <6>1, <6>2
        <5>3. CASE j = Len(Line) + 1
          <6>1. Line'[j] = e /\ Line[i] \in Content(Line)
            BY <4>1, <5>1, <5>3 DEF Content
          <6> QED  BY <2>3, <5>1, <6>1
        <5> QED  BY <4>1, <5>2, <5>3
      <4> QED  BY <4>3
    <3>2. ASSUME PushReplace(e), NEW k \in DOMAIN Line,
                 Line' = [Line EXCEPT ![k] = e]
          PROVE  Keeps(Line', slotted')
      <4>1. slotted' = slotted \cup {e}
        BY <3>2 DEF PushReplace
      <4>2. /\ DOMAIN Line' = DOMAIN Line
            /\ \A i \in DOMAIN Line : Line'[i] = IF i = k THEN e ELSE Line[i]
        BY <1>1, <3>2
      <4>3. ASSUME NEW i \in DOMAIN Line', NEW j \in DOMAIN Line', i < j,
                   Line'[i] \notin slotted', Line'[j] \notin slotted'
            PROVE  Earlier(log', Line'[i], Line'[j])
        <5>1. /\ Line'[i] = Line[i] /\ Line'[j] = Line[j]
              /\ Line[i] \notin slotted /\ Line[j] \notin slotted
          BY <4>1, <4>2, <4>3
        <5> QED  BY <2>2, <4>2, <4>3, <5>1
      <4> QED  BY <4>3
    <3>3. CASE PushRefuse(e) /\ Line' = Line
      <4>1. slotted' = slotted
        BY <3>3 DEF PushRefuse
      <4> QED  BY <2>2, <3>3, <4>1
    <3> QED  BY <1>4, <3>1, <3>2, <3>3
  <2> QED  BY <2>1, <2>4 DEF Ordered, Distinct
<1> QED  BY <1>3, <1>4, LineStep

\* queue.go:28-31, 38-47 and 62-65: what is not stored in the slot of another
\* event leaves in the order in which push got it, for every buffer size and
\* whatever is replaced and drained in between.
THEOREM OrderIsKept == Spec => []OrderKept
<1>1. Init => Ordered
  BY DEF Init, Ordered, Line, Distinct
<1>2. TypeOK /\ EveryPushAccounted /\ Ordered /\ [Next]_vars => Ordered'
  BY OrderedStep
<1>3. ASSUME TypeOK, Ordered  PROVE OrderKept
  <2> DEFINE Position(e) == CHOOSE p \in DOMAIN log : log[p] = e
  <2>1. ASSUME NEW p \in DOMAIN log  PROVE Position(log[p]) = p
    <3>1. Position(log[p]) \in DOMAIN log /\ log[Position(log[p])] = log[p]
      OBVIOUS
    <3> HIDE DEF Position
    <3> QED  BY <1>3, <3>1 DEF Ordered, Distinct
  <2> HIDE DEF Position
  <2>2. ASSUME NEW i \in DOMAIN Line, NEW j \in DOMAIN Line, i < j,
               {Line[i], Line[j]} \cap slotted = {}
        PROVE  Position(Line[i]) < Position(Line[j])
    <3>1. Earlier(log, Line[i], Line[j])
      BY <1>3, <2>2 DEF Ordered
    <3> QED  BY <2>1, <3>1 DEF Earlier
  <2> QED  BY <2>2 DEF OrderKept, Line, Position
<1> QED  BY <1>1, <1>2, <1>3, TypeCorrect, PushesAccounted, PTL DEF Spec

-----------------------------------------------------------------------------
(* Loss *)

LEMMA OverloadStep ==
    ASSUME TypeOK, EveryPushAccounted, ImportantLostOnlyByOverload, [Next]_vars
    PROVE  ImportantLostOnlyByOverload'
<1> DEFINE pushed == Content(log) \cap Important
<1>1. queue \in Seq(Events) /\ log \in Seq(Events) /\ out \in Seq(Events)
  BY DEF TypeOK
<1>2. IsFiniteSet(Content(log)) /\ IsFiniteSet(pushed)
  <2>1. IsFiniteSet(Content(log))
    <3>1. Len(log) \in Nat /\ DOMAIN log = 1..Len(log)
      BY <1>1
    <3>2. log \in Surjection(1..Len(log), Content(log))
      BY <1>1, <3>1 DEF Surjection, Content
    <3>3. IsFiniteSet(1..Len(log))
      BY <3>1, FS_Interval
    <3> QED  BY <3>2, <3>3, FS_Surjection
  <2> QED  BY <2>1, FS_Subset
<1>3. CASE log' = log /\ lost' = lost
  BY <1>3 DEF ImportantLostOnlyByOverload, Content
<1>4. ASSUME NEW e \in Events, e \notin Content(log), log' = Append(log, e),
             PushAppend(e) \/ PushReplace(e) \/ PushRefuse(e)
      PROVE  ImportantLostOnlyByOverload'
  <2>1. Content(log') = Content(log) \cup {e}
    BY <1>1, <1>4, AppendCounts
  <2> DEFINE more == Content(log') \cap Important
  <2>2. IsFiniteSet(more) /\ pushed \subseteq more
    <3>1. IsFiniteSet(Content(log) \cup {e})
      BY <1>2, FS_AddElement
    <3> QED  BY <2>1, <3>1, FS_Subset
  <2>3. /\ Cardinality(pushed) <= Cardinality(more)
        /\ Cardinality(pushed) \in Nat /\ Cardinality(more) \in Nat
    BY <1>2, <2>2, FS_Subset, FS_CardinalityType
  <2> SUFFICES lost' \cap Important # {} => Cardinality(more) > BufferSize
    BY DEF ImportantLostOnlyByOverload, Content
  <2>4. ASSUME lost' \cap Important = lost \cap Important
        PROVE  lost' \cap Important # {} => Cardinality(more) > BufferSize
    <3>1. lost \cap Important # {} => Cardinality(pushed) > BufferSize
      BY DEF ImportantLostOnlyByOverload
    <3> HIDE DEF pushed, more
    <3> QED  BY <2>3, <2>4, <3>1, BufferAssumption
  <2>5. CASE PushAppend(e)
    BY <2>4, <2>5 DEF PushAppend
  <2>6. CASE PushReplace(e)
    <3>1. queue[Victim(queue)] \in Debug \cup Info
      BY <1>1, <2>6, VictimIsDroppable DEF PushReplace, CanReplace
    <3>2. lost' = lost \cup {queue[Victim(queue)]}
      BY <2>6 DEF PushReplace
    <3> QED  BY <2>4, <3>1, <3>2 DEF Important
  <2>7. CASE PushRefuse(e) /\ e \in Debug \cup Info
    BY <2>4, <2>7 DEF PushRefuse, Important
  <2>8. CASE PushRefuse(e) /\ e \notin Debug \cup Info
    <3>1. ~HasRoom(queue) /\ IndexesOf(queue, Debug \cup Info) = {}
      BY <2>8 DEF PushRefuse, CanReplace, IsDroppable
    <3>2. Content(queue) \subseteq Important
      BY <1>1, <3>1 DEF IndexesOf, Content, Important
    <3>3. Distinct(queue) /\ Content(queue) \subseteq Content(log)
      <4>1. Distinct(out \o queue) /\ Content(out \o queue) \subseteq Content(log)
        BY DEF EveryPushAccounted, Distinct
      <4> QED  BY <1>1, <4>1, ConcatCounts
    <3>4. Cardinality(Content(queue)) = Len(queue) /\ IsFiniteSet(Content(queue))
      BY <1>1, <1>2, <3>3, DistinctCardinality, FS_Subset
    <3>5. Cardinality(Content(queue) \cup {e}) = Len(queue) + 1
      BY <1>4, <3>3, <3>4, FS_AddElement
    <3>6. Content(queue) \cup {e} \subseteq more
      BY <2>1, <2>8, <3>2, <3>3 DEF Important
    <3>7. Len(queue) + 1 <= Cardinality(more)
      BY <2>2, <3>5, <3>6, FS_Subset
    <3> HIDE DEF more
    <3>8. Cardinality(more) > BufferSize
      BY <1>1, <2>3, <3>1, <3>7, BufferAssumption DEF HasRoom
    <3> QED  BY <3>8
  <2> QED  BY <1>4, <2>5, <2>6, <2>7, <2>8
<1> QED  BY <1>3, <1>4, LineStep

\* README.md:1031, queue.go:33-49: only more important events than the buffer
\* holds make it lose one, for every buffer size and whatever traffic of debug
\* and info events.
THEOREM ImportantIsKept == Spec => []ImportantLostOnlyByOverload
<1>1. Init => ImportantLostOnlyByOverload
  BY DEF Init, ImportantLostOnlyByOverload
<1>2. TypeOK /\ EveryPushAccounted /\ ImportantLostOnlyByOverload /\ [Next]_vars
          => ImportantLostOnlyByOverload'
  BY OverloadStep
<1> QED  BY <1>1, <1>2, TypeCorrect, PushesAccounted, PTL DEF Spec

\* queue.go:38-47: the scan for debug events comes first, so that an info event
\* of the buffer is given up only when it meets none.
THEOREM InfoGoesLast == Spec => InfoReplacedLast
<1>1. ASSUME TypeOK, EveryPushAccounted, [Next]_vars, NEW e \in Info,
             e \in Content(queue), e \in lost'
      PROVE  IndexesOf(queue, Debug) = {}
  <2>1. queue \in Seq(Events) /\ out \in Seq(Events) /\ e \notin lost
        /\ e \in Content(log)
    BY <1>1, ConcatCounts DEF TypeOK, EveryPushAccounted
  <2>2. PICK x \in Events : /\ x \notin Content(log)
                            /\ PushAppend(x) \/ PushReplace(x) \/ PushRefuse(x)
    BY <1>1, <2>1, LineStep
  <2>3. /\ PushReplace(x) /\ e = queue[Victim(queue)]
    BY <1>1, <2>1, <2>2 DEF PushAppend, PushReplace, PushRefuse
  <2>4. IndexesOf(queue, Debug) # {} => e \in Debug
    BY <2>1, <2>3, VictimIsDroppable DEF PushReplace, CanReplace
  <2> QED  BY <2>4, BufferAssumption
<1>2. TypeOK /\ EveryPushAccounted /\ [Next]_vars
          => [\A e \in Info : (e \in Content(queue) /\ e \in lost') =>
                  IndexesOf(queue, Debug) = {}]_vars
  BY <1>1
<1> QED  BY <1>2, TypeCorrect, PushesAccounted, PTL DEF Spec, InfoReplacedLast
=============================================================================
