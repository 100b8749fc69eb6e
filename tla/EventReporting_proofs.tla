------------------------ MODULE EventReporting_proofs ------------------------
(***************************************************************************)
(* What the SDK reports on itself, for every set of goroutines, every      *)
(* event and every interleaving of their steps.                            *)
(***************************************************************************)
EXTENDS EventReporting, SequenceTheorems, FiniteSetTheorems,
        WellFoundedInduction, TLAPS

-----------------------------------------------------------------------------
(* The lists of steps.  The argument is the order within a list: what a      *)
(* step tells of is counted by a step before it.                             *)

StepSet == [do : {"add"}, counter : Counters, n : Nat]
               \cup [do : {"setError"}, error : Errors]
               \cup [do : {"tell"}, hook : Hooks]
               \cup [do : {"read"}, field : Counters \cup {"lastError"}]
               \cup [do : {"unlock"}]

\* The counters an error tells of, and those that are not 0 when a step is
\* taken.
Needs(error) ==
    CASE error = "batch" -> {"failedBatches", "failedEvents"}
      [] error = "rejected" -> {"rejected", "sentEvents"}
      [] OTHER -> {"dropped"}
Causes(hook) ==
    CASE hook = "dropped" -> {"dropped"}
      [] hook = "batchFailed" -> {"failedBatches"}
      [] hook = "rejected" -> {"rejected"}
      [] OTHER -> {}
Before(step) ==
    CASE step.do = "setError" -> Needs(step.error)
      [] step.do = "tell" -> Causes(step.hook)
      [] step.do = "add" -> IF step.counter = "failedEvents"
                            THEN {"failedBatches"} ELSE {}
      [] OTHER -> {}
Counting(counter) == [do : {"add"}, counter : {counter}, n : Nat \ {0}]

\* Each step of the list finds counted what it needs, in cs or by a step
\* before it.
Announced(list, cs) ==
    \A i \in 1..Len(list) : \A k \in Before(list[i]) :
        cs[k] > 0 \/ \E j \in 1..i - 1 : list[j] \in Counting(k)

\* The error is read first, into an empty snapshot.
ReadInOrder(list, read) ==
    /\ \A i \in 1..Len(list) :
          list[i].do = "read" =>
              IF list[i].field = "lastError" THEN i = 1 /\ DOMAIN read = {}
              ELSE list[1] = Read("lastError") \/ "lastError" \in DOMAIN read
    /\ DOMAIN read # {} => "lastError" \in DOMAIN read

ReportHasCause(read, cs) ==
    /\ \A k \in DOMAIN read \cap Counters : read[k] > 0 => cs[k] > 0
    /\ "lastError" \in DOMAIN read /\ read["lastError"] # None =>
          \A k \in Needs(read["lastError"]) :
              cs[k] > 0 /\ (k \in DOMAIN read => read[k] > 0)

\* What a hook has told of since it was called the first time.
ToldHasCause ==
    /\ \A h \in Hooks : told[h] > 0 => \A k \in Causes(h) : counters[k] > 0
    /\ told["errorChanged"] > 0 => lastError # None
    /\ \A g \in Goroutines : \A i \in 1..Len(steps[g]) :
          steps[g][i] = Tell("errorChanged") => lastError # None

\* A report that is due shows a failure once it is read.
DueIsShown(c) ==
    due[c] =>
        \/ lastError # None
               /\ ("lastError" \in DOMAIN report[c] =>
                      report[c]["lastError"] # None)
        \/ \E k \in {"dropped", "failedBatches", "rejected"} :
              counters[k] > 0 /\ (k \in DOMAIN report[c] => report[c][k] > 0)

Shape ==
    /\ TypeOK
    /\ steps \in [Goroutines -> Seq(StepSet)]
    /\ report = [c \in Callers |-> report[c]]
MutexHeld ==
    \A g \in Goroutines : mu = g => steps[g] # <<>> /\ Head(steps[g]) = Unlock
Caused ==
    /\ \A g \in Goroutines : Announced(steps[g], counters)
    /\ lastError # None => \A k \in Needs(lastError) : counters[k] > 0
    /\ counters["failedEvents"] > 0 => counters["failedBatches"] > 0
    /\ \A c \in Callers : /\ ReadInOrder(steps[c], report[c])
                          /\ ReportHasCause(report[c], counters)
                          /\ DueIsShown(c)
    /\ ToldHasCause
IInv == Shape /\ MutexHeld /\ Caused

-----------------------------------------------------------------------------
(* Lists *)

\* A list of a decision: in order whatever is counted, and without the steps
\* of a snapshot or of setError itself.
Ordered(list) ==
    \A i \in 1..Len(list) : \A k \in Before(list[i]) :
        \E j \in 1..i - 1 : list[j] \in Counting(k)
Plain(list) ==
    /\ list \in Seq(StepSet)
    /\ \A i \in 1..Len(list) : /\ list[i].do # "read"
                               /\ list[i] # Tell("errorChanged")

\* The events of a batch are counted right after the batch, and they are at
\* most BatchSize.
EventCounters == {"sentEvents", "failedEvents"}
BatchOf(k) == IF k = "sentEvents" THEN "sentBatches" ELSE "failedBatches"
Adds(step, k) == step.do = "add" /\ step.counter = k
InBatches(list) ==
    \A i \in 1..Len(list), k \in EventCounters : Adds(list[i], k) =>
        list[i].n <= BatchSize /\ i > 1 /\ list[i - 1] = Add(BatchOf(k), 1)
NoEvents(list) ==
    \A i \in 1..Len(list), k \in EventCounters : ~Adds(list[i], k)

\* What a decision puts in place.
Fit(list) == Plain(list) /\ Ordered(list) /\ InBatches(list)

\* Adding counts, and no step but setError, a hook or failedEvents needs
\* anything counted.
LEMMA StepFacts ==
    /\ \A k \in Counters, n \in Nat : /\ Add(k, n) \in StepSet
                                      /\ n > 0 => Add(k, n) \in Counting(k)
                                      /\ Add(k, n).do = "add"
                                      /\ k # "failedEvents" =>
                                            Before(Add(k, n)) = {}
                                      /\ Before(Add("failedEvents", n))
                                            = {"failedBatches"}
    /\ \A e \in Errors : /\ Fail(e) \in StepSet /\ Fail(e).do = "setError"
                         /\ Before(Fail(e)) = Needs(e)
    /\ \A h \in Hooks : /\ Tell(h) \in StepSet /\ Tell(h).do = "tell"
                        /\ Before(Tell(h)) = Causes(h)
    /\ \A f \in Counters \cup {"lastError"} :
          /\ Read(f) \in StepSet /\ Read(f).do = "read"
          /\ Before(Read(f)) = {} /\ Read(f).field = f
    /\ Unlock \in StepSet /\ Unlock.do = "unlock" /\ Before(Unlock) = {}
<1>1. \A k \in Counters, n \in Nat : /\ Add(k, n) \in StepSet
                                     /\ n > 0 => Add(k, n) \in Counting(k)
                                     /\ Add(k, n).do = "add"
                                     /\ Add(k, n).counter = k
  BY DEF Add, StepSet, Counting
<1>2. \A k \in Counters, n \in Nat :
          /\ k # "failedEvents" => Before(Add(k, n)) = {}
          /\ Before(Add("failedEvents", n)) = {"failedBatches"}
  <2>1. \A k, n : Add(k, n).do = "add" /\ Add(k, n).counter = k
    BY DEF Add
  <2> QED  BY <2>1 DEF Before
<1>3. \A e \in Errors : /\ Fail(e) \in StepSet /\ Fail(e).do = "setError"
                        /\ Before(Fail(e)) = Needs(e)
  BY DEF Fail, StepSet, Before
<1>4. \A h \in Hooks : /\ Tell(h) \in StepSet /\ Tell(h).do = "tell"
                       /\ Before(Tell(h)) = Causes(h)
  BY DEF Tell, StepSet, Before
<1>5. \A f \in Counters \cup {"lastError"} :
          /\ Read(f) \in StepSet /\ Read(f).do = "read"
          /\ Before(Read(f)) = {} /\ Read(f).field = f
  BY DEF Read, StepSet, Before
<1>6. Unlock \in StepSet /\ Unlock.do = "unlock" /\ Before(Unlock) = {}
  BY DEF Unlock, StepSet, Before
<1> QED  BY <1>1, <1>2, <1>3, <1>4, <1>5, <1>6

\* The lists of a drop count before they tell (client.go:94-98, 102-103,
\* 174-178, 182-183, 189-192), and so does the report of a truncation
\* (206-213).
LEMMA DropLists ==
    ASSUME NEW error \in DropErrors
    PROVE  \A list \in {<<>>, DropUnread, DropFor(error), Truncation,
                        <<Add("queued", 1)>>,
                        DropUnread \o <<Add("queued", 1)>>} :
              Fit(list)
<1>1. Needs(error) = {"dropped"}
  BY DEF Needs, DropErrors, TextFields, EventFields
<1>2. Causes("dropped") = {"dropped"} /\ Causes("truncated") = {}
  BY DEF Causes
<1>3. /\ {"dropped", "truncated", "queued"} \subseteq Counters
      /\ {"dropped", "truncated"} \subseteq Hooks /\ error \in Errors
  BY DEF Counters, Hooks, Errors
<1>4. /\ Tell("dropped") # Tell("errorChanged")
      /\ Tell("truncated") # Tell("errorChanged")
      /\ \A k, n : Add(k, n) # Tell("errorChanged")
      /\ Fail(error) # Tell("errorChanged")
  BY DEF Tell, Add, Fail
<1> DEFINE d == Add("dropped", 1)
           t == Tell("dropped")
           f == Fail(error)
           q == Add("queued", 1)
           u == Add("truncated", 1)
           v == Tell("truncated")
<1>5. /\ {d, t, f, q, u, v} \subseteq StepSet
      /\ Before(d) = {} /\ Before(q) = {} /\ Before(u) = {} /\ Before(v) = {}
      /\ Before(t) = {"dropped"} /\ Before(f) = {"dropped"}
      /\ d \in Counting("dropped")
      /\ \A x \in {d, t, f, q, u, v} : x.do # "read" /\ x # Tell("errorChanged")
  <2>1. 1 \in Nat /\ 1 > 0
    OBVIOUS
  <2>2. d \in StepSet /\ q \in StepSet /\ u \in StepSet /\ Before(d) = {}
        /\ Before(q) = {} /\ Before(u) = {} /\ d \in Counting("dropped")
        /\ d.do # "read" /\ q.do # "read" /\ u.do # "read"
    BY <1>3, <2>1, StepFacts
  <2>3. t \in StepSet /\ v \in StepSet /\ Before(t) = {"dropped"}
        /\ Before(v) = {} /\ t.do # "read" /\ v.do # "read"
    BY <1>2, <1>3, StepFacts
  <2>4. f \in StepSet /\ Before(f) = {"dropped"} /\ f.do # "read"
    BY <1>1, <1>3, StepFacts
  <2> HIDE DEF d, t, f, q, u, v
  <2>5. d # Tell("errorChanged") /\ t # Tell("errorChanged")
        /\ f # Tell("errorChanged") /\ q # Tell("errorChanged")
        /\ u # Tell("errorChanged") /\ v # Tell("errorChanged")
    BY <1>4 DEF d, t, f, q, u, v
  <2> QED  BY <2>2, <2>3, <2>4, <2>5
<1>14. \A x \in {d, t, f, q, u, v} : \A k \in EventCounters : ~Adds(x, k)
  <2>1. /\ ~(d.counter \in EventCounters) /\ ~(q.counter \in EventCounters)
        /\ ~(u.counter \in EventCounters)
    BY DEF Add, EventCounters
  <2>2. t.do # "add" /\ f.do # "add" /\ v.do # "add"
    BY DEF Tell, Fail
  <2> HIDE DEF d, t, f, q, u, v
  <2> QED  BY <2>1, <2>2 DEF Adds
<1>6. /\ DropUnread = <<d, t>> /\ DropFor(error) = <<d, f, t>>
      /\ Truncation = <<u, v>>
  BY DEF DropUnread, DropFor, Truncation
<1> HIDE DEF d, t, f, q, u, v
<1>13. <<d, t>> \o <<q>> = <<d, t, q>>
  <2>1. <<d, t>> \in Seq(StepSet) /\ <<q>> \in Seq(StepSet)
        /\ <<d, t, q>> \in Seq(StepSet)
    BY <1>5
  <2>2. <<d, t>> \o <<q>> \in Seq(StepSet) /\ Len(<<d, t>> \o <<q>>) = 3
        /\ \A i \in 1..3 : (<<d, t>> \o <<q>>)[i] = <<d, t, q>>[i]
    BY <2>1, ConcatProperties
  <2> QED  BY <2>1, <2>2, SeqEqual
<1>7. Fit(<<>>)
  BY DEF Fit, Plain, Ordered, InBatches
<1>8. Fit(<<d, t>>)
  <2>1. Plain(<<d, t>>) /\ Ordered(<<d, t>>)
    BY <1>5 DEF Plain, Ordered
  <2>2. InBatches(<<d, t>>)
    BY <1>14 DEF InBatches
  <2> QED  BY <2>1, <2>2 DEF Fit
<1>9. Fit(<<d, f, t>>)
  <2>1. Plain(<<d, f, t>>) /\ Ordered(<<d, f, t>>)
    BY <1>5 DEF Plain, Ordered
  <2>2. InBatches(<<d, f, t>>)
    BY <1>14 DEF InBatches
  <2> QED  BY <2>1, <2>2 DEF Fit
<1>10. Fit(<<u, v>>)
  <2>1. Plain(<<u, v>>) /\ Ordered(<<u, v>>)
    BY <1>5 DEF Plain, Ordered
  <2>2. InBatches(<<u, v>>)
    BY <1>14 DEF InBatches
  <2> QED  BY <2>1, <2>2 DEF Fit
<1>11. Fit(<<q>>)
  <2>1. Plain(<<q>>) /\ Ordered(<<q>>)
    BY <1>5 DEF Plain, Ordered
  <2>2. InBatches(<<q>>)
    BY <1>14 DEF InBatches
  <2> QED  BY <2>1, <2>2 DEF Fit
<1>12. Fit(<<d, t, q>>)
  <2>1. Plain(<<d, t, q>>) /\ Ordered(<<d, t, q>>)
    BY <1>5 DEF Plain, Ordered
  <2>2. InBatches(<<d, t, q>>)
    BY <1>14 DEF InBatches
  <2> QED  BY <2>1, <2>2 DEF Fit
<1> QED  BY <1>6, <1>7, <1>8, <1>9, <1>10, <1>11, <1>12, <1>13 DEF q

LEMMA Concatenation ==
    ASSUME NEW s, NEW t, Plain(s), Ordered(s), Plain(t),
           \A i \in 1..Len(t) : \A k \in Before(t[i]) :
               \E j \in 1..Len(s) : s[j] \in Counting(k)
    PROVE  Plain(s \o t) /\ Ordered(s \o t)
<1>1. /\ s \o t \in Seq(StepSet) /\ Len(s \o t) = Len(s) + Len(t)
      /\ \A i \in 1..Len(s) + Len(t) :
            (s \o t)[i] = IF i <= Len(s) THEN s[i] ELSE t[i - Len(s)]
      /\ Len(s) \in Nat /\ Len(t) \in Nat
  BY ConcatProperties, LenProperties DEF Plain
<1>2. Plain(s \o t)
  <2> SUFFICES ASSUME NEW i \in 1..Len(s) + Len(t)
               PROVE  /\ (s \o t)[i].do # "read"
                      /\ (s \o t)[i] # Tell("errorChanged")
    BY <1>1 DEF Plain
  <2>1. CASE i <= Len(s)
    BY <1>1, <2>1 DEF Plain
  <2>2. CASE i > Len(s)
    <3>1. i - Len(s) \in 1..Len(t) /\ (s \o t)[i] = t[i - Len(s)]
      BY <1>1, <2>2
    <3> QED  BY <3>1 DEF Plain
  <2> QED  BY <1>1, <2>1, <2>2
<1>3. Ordered(s \o t)
  <2> SUFFICES ASSUME NEW i \in 1..Len(s) + Len(t),
                      NEW k \in Before((s \o t)[i])
               PROVE  \E j \in 1..i - 1 : (s \o t)[j] \in Counting(k)
    BY <1>1 DEF Ordered
  <2>1. CASE i <= Len(s)
    <3>1. i \in 1..Len(s) /\ (s \o t)[i] = s[i]
      BY <1>1, <2>1
    <3>2. PICK j \in 1..i - 1 : s[j] \in Counting(k)
      BY <3>1 DEF Ordered
    <3>3. j \in 1..Len(s) + Len(t) /\ j <= Len(s)
      BY <1>1, <3>1
    <3> QED  BY <1>1, <3>2, <3>3
  <2>2. CASE i > Len(s)
    <3>1. i - Len(s) \in 1..Len(t) /\ (s \o t)[i] = t[i - Len(s)]
      BY <1>1, <2>2
    <3>2. PICK j \in 1..Len(s) : s[j] \in Counting(k)
      BY <3>1
    <3>3. j \in 1..Len(s) + Len(t) /\ j <= Len(s) /\ j \in 1..i - 1
      BY <1>1, <2>2
    <3> QED  BY <1>1, <3>2, <3>3
  <2> QED  BY <1>1, <2>1, <2>2
<1> QED  BY <1>2, <1>3

LEMMA NoEventsAfter ==
    ASSUME NEW s \in Seq(StepSet), NEW t \in Seq(StepSet),
           InBatches(s), NoEvents(t)
    PROVE  InBatches(s \o t)
<1>1. /\ Len(s \o t) = Len(s) + Len(t) /\ Len(s) \in Nat /\ Len(t) \in Nat
      /\ \A i \in 1..Len(s) + Len(t) :
            (s \o t)[i] = IF i <= Len(s) THEN s[i] ELSE t[i - Len(s)]
  BY ConcatProperties, LenProperties
<1> SUFFICES ASSUME NEW i \in 1..Len(s) + Len(t), NEW k \in EventCounters,
                    Adds((s \o t)[i], k)
             PROVE  /\ (s \o t)[i].n <= BatchSize /\ i > 1
                    /\ (s \o t)[i - 1] = Add(BatchOf(k), 1)
  BY <1>1 DEF InBatches
<1>2. CASE i <= Len(s)
  <2>1. i \in 1..Len(s) /\ (s \o t)[i] = s[i]
    BY <1>1, <1>2
  <2>2. s[i].n <= BatchSize /\ i > 1 /\ s[i - 1] = Add(BatchOf(k), 1)
    BY <2>1 DEF InBatches
  <2>3. i - 1 \in 1..Len(s) + Len(t) /\ i - 1 <= Len(s)
    BY <1>1, <2>1, <2>2
  <2> QED  BY <1>1, <2>1, <2>2, <2>3
<1>3. CASE i > Len(s)
  <2>1. i - Len(s) \in 1..Len(t) /\ (s \o t)[i] = t[i - Len(s)]
    BY <1>1, <1>3
  <2> QED  BY <2>1 DEF NoEvents
<1> QED  BY <1>1, <1>2, <1>3

\* The lists of a batch: recordBatchFailure counts before it tells
\* (client.go:465-468), an answer is counted before its rejections are told of
\* (343-352).
LEMMA FailureList ==
    ASSUME NEW n \in 1..BatchSize
    PROVE  Fit(BatchFailure(n))
<1> DEFINE b == Add("failedBatches", 1)
           e == Add("failedEvents", n)
           f == Fail("batch")
           t == Tell("batchFailed")
<1>1. /\ {b, e, f, t} \subseteq StepSet
      /\ Before(b) = {} /\ Before(e) = {"failedBatches"}
      /\ Before(f) = {"failedBatches", "failedEvents"}
      /\ Before(t) = {"failedBatches"}
      /\ b \in Counting("failedBatches") /\ e \in Counting("failedEvents")
      /\ \A x \in {b, e, f, t} : x.do # "read"
  <2>1. /\ {"failedBatches", "failedEvents"} \subseteq Counters
        /\ "batch" \in Errors /\ "batchFailed" \in Hooks
        /\ 1 \in Nat /\ 1 > 0 /\ n > 0 /\ n \in Nat
    BY ReportingAssumption DEF Counters, Hooks, Errors
  <2>2. /\ Needs("batch") = {"failedBatches", "failedEvents"}
        /\ Causes("batchFailed") = {"failedBatches"}
    BY DEF Needs, Causes
  <2>3. /\ b \in StepSet /\ Before(b) = {} /\ b \in Counting("failedBatches")
        /\ b.do = "add"
    BY <2>1, StepFacts
  <2>4. /\ e \in StepSet /\ Before(e) = {"failedBatches"}
        /\ e \in Counting("failedEvents") /\ e.do = "add"
    BY <2>1, StepFacts
  <2>5. /\ f \in StepSet /\ Before(f) = {"failedBatches", "failedEvents"}
        /\ f.do = "setError"
    BY <2>1, <2>2, StepFacts
  <2>6. t \in StepSet /\ Before(t) = {"failedBatches"} /\ t.do = "tell"
    BY <2>1, <2>2, StepFacts
  <2> HIDE DEF b, e, f, t
  <2> QED  BY <2>3, <2>4, <2>5, <2>6
<1>2. /\ b # Tell("errorChanged") /\ e # Tell("errorChanged")
      /\ f # Tell("errorChanged") /\ t # Tell("errorChanged")
  BY DEF Add, Fail, Tell
<1>3. BatchFailure(n) = <<b, e, f, t>>
  BY DEF BatchFailure
<1>6. /\ \A k \in EventCounters : ~Adds(b, k) /\ ~Adds(f, k) /\ ~Adds(t, k)
      /\ \A k \in EventCounters : Adds(e, k) => k = "failedEvents"
      /\ e.n <= BatchSize /\ b = Add(BatchOf("failedEvents"), 1)
  <2>1. b.counter \notin EventCounters /\ e.counter = "failedEvents"
        /\ e.n = n /\ f.do # "add" /\ t.do # "add"
    BY DEF Add, Fail, Tell, EventCounters
  <2>2. n <= BatchSize
    BY ReportingAssumption
  <2>3. b = Add(BatchOf("failedEvents"), 1)
    BY DEF BatchOf
  <2> HIDE DEF b, e, f, t
  <2> QED  BY <2>1, <2>2, <2>3 DEF Adds
<1> HIDE DEF b, e, f, t
<1>4. Plain(<<b, e, f, t>>)
  BY <1>1, <1>2 DEF Plain
<1>5. Ordered(<<b, e, f, t>>)
  <2>1. /\ <<b, e, f, t>>[1] = b /\ <<b, e, f, t>>[2] = e
        /\ <<b, e, f, t>>[3] = f /\ <<b, e, f, t>>[4] = t
        /\ Len(<<b, e, f, t>>) = 4
    OBVIOUS
  <2> QED  BY <1>1, <2>1 DEF Ordered
<1>7. InBatches(<<b, e, f, t>>)
  <2>1. /\ <<b, e, f, t>>[1] = b /\ <<b, e, f, t>>[2] = e
        /\ <<b, e, f, t>>[3] = f /\ <<b, e, f, t>>[4] = t
        /\ Len(<<b, e, f, t>>) = 4
    OBVIOUS
  <2> QED  BY <1>6, <2>1 DEF InBatches
<1> QED  BY <1>3, <1>4, <1>5, <1>7 DEF Fit

LEMMA AnswerList ==
    ASSUME NEW n \in 1..BatchSize,
           NEW duplicated \in 0..n, NEW rejected \in 0..n,
           duplicated + rejected <= n, NEW sync
    PROVE  Fit(BatchAnswer(n, duplicated, rejected, sync))
<1> DEFINE b == Add("sentBatches", 1)
           e == Add("sentEvents", n)
           a == Add("accepted", n - duplicated - rejected)
           d == Add("duplicated", duplicated)
           r == Add("rejected", rejected)
           counts == <<b, e, a, d, r>>
           tells == [i \in 1..rejected |-> Tell("rejected")]
           fails == IF sync /\ rejected > 0 THEN <<Fail("rejected")>> ELSE <<>>
<1>1. /\ {b, e, a, d, r} \subseteq StepSet
      /\ \A x \in {b, e, a, d, r} : /\ Before(x) = {} /\ x.do # "read"
                                    /\ x # Tell("errorChanged")
      /\ e \in Counting("sentEvents")
      /\ rejected > 0 => r \in Counting("rejected")
  <2>1. /\ {"sentBatches", "sentEvents", "accepted", "duplicated", "rejected"}
              \subseteq Counters \ {"failedEvents"}
        /\ 1 \in Nat /\ n \in Nat /\ n > 0 /\ rejected \in Nat
        /\ duplicated \in Nat /\ n - duplicated - rejected \in Nat
    BY ReportingAssumption DEF Counters
  <2>2. \A k \in Counters \ {"failedEvents"}, m \in Nat :
            /\ Add(k, m) \in StepSet /\ Before(Add(k, m)) = {}
            /\ Add(k, m).do = "add" /\ (m > 0 => Add(k, m) \in Counting(k))
    BY StepFacts
  <2>3. \A k, m : Add(k, m) # Tell("errorChanged")
    BY DEF Add, Tell
  <2>4. /\ b \in StepSet /\ Before(b) = {} /\ b.do = "add"
        /\ b # Tell("errorChanged")
    BY <2>1, <2>2, <2>3
  <2>5. /\ e \in StepSet /\ Before(e) = {} /\ e.do = "add"
        /\ e # Tell("errorChanged") /\ e \in Counting("sentEvents")
    BY <2>1, <2>2, <2>3
  <2>6. /\ a \in StepSet /\ Before(a) = {} /\ a.do = "add"
        /\ a # Tell("errorChanged")
    BY <2>1, <2>2, <2>3
  <2>7. /\ d \in StepSet /\ Before(d) = {} /\ d.do = "add"
        /\ d # Tell("errorChanged")
    BY <2>1, <2>2, <2>3
  <2>8. /\ r \in StepSet /\ Before(r) = {} /\ r.do = "add"
        /\ r # Tell("errorChanged")
        /\ rejected > 0 => r \in Counting("rejected")
    BY <2>1, <2>2, <2>3
  <2> HIDE DEF b, e, a, d, r
  <2> QED  BY <2>4, <2>5, <2>6, <2>7, <2>8
<1>2. /\ Tell("rejected") \in StepSet /\ Tell("rejected").do = "tell"
      /\ Before(Tell("rejected")) = {"rejected"}
      /\ Tell("rejected") # Tell("errorChanged")
      /\ Fail("rejected") \in StepSet /\ Fail("rejected").do = "setError"
      /\ Before(Fail("rejected")) = {"rejected", "sentEvents"}
      /\ Fail("rejected") # Tell("errorChanged")
  <2>1. Causes("rejected") = {"rejected"}
    BY DEF Causes
  <2>2. Needs("rejected") = {"rejected", "sentEvents"}
    BY DEF Needs
  <2>3. "rejected" \in Errors /\ "rejected" \in Hooks
    BY DEF Errors, Hooks
  <2>4. Tell("rejected") # Tell("errorChanged")
        /\ Fail("rejected") # Tell("errorChanged")
    BY DEF Tell, Fail
  <2> QED  BY <2>1, <2>2, <2>3, <2>4, StepFacts
<1>3. BatchAnswer(n, duplicated, rejected, sync) = (counts \o tells) \o fails
  BY DEF BatchAnswer
<1>11. /\ \A x \in {b, a, d, r} : \A k \in EventCounters : ~Adds(x, k)
       /\ \A k \in EventCounters : Adds(e, k) => k = "sentEvents"
       /\ e.n <= BatchSize /\ b = Add(BatchOf("sentEvents"), 1)
       /\ \A k \in EventCounters : /\ ~Adds(Tell("rejected"), k)
                                     /\ ~Adds(Fail("rejected"), k)
  <2>1. /\ b.counter \notin EventCounters /\ a.counter \notin EventCounters
        /\ d.counter \notin EventCounters /\ r.counter \notin EventCounters
        /\ e.counter = "sentEvents" /\ e.n = n
    BY DEF Add, EventCounters
  <2>2. Tell("rejected").do # "add" /\ Fail("rejected").do # "add"
    BY DEF Tell, Fail
  <2>3. n <= BatchSize
    BY ReportingAssumption
  <2>4. b = Add(BatchOf("sentEvents"), 1)
    BY DEF BatchOf
  <2> HIDE DEF b, e, a, d, r
  <2> QED  BY <2>1, <2>2, <2>3, <2>4 DEF Adds
<1> HIDE DEF b, e, a, d, r
<1>4. /\ Plain(counts) /\ Ordered(counts)
      /\ counts[2] = e /\ counts[5] = r /\ Len(counts) = 5
  <2>1. /\ counts \in Seq(StepSet) /\ Len(counts) = 5
        /\ counts[2] = e /\ counts[5] = r
    BY <1>1
  <2>2. \A i \in 1..5 : counts[i] \in {b, e, a, d, r}
    OBVIOUS
  <2> HIDE DEF counts
  <2> QED  BY <1>1, <2>1, <2>2 DEF Plain, Ordered
<1>5. /\ Plain(tells) /\ Len(tells) = rejected
      /\ \A i \in 1..rejected : tells[i] = Tell("rejected")
  <2>1. rejected \in Nat
    OBVIOUS
  <2>2. tells \in Seq(StepSet) /\ Len(tells) = rejected
    BY <1>2, <2>1
  <2> QED  BY <1>2, <2>1, <2>2 DEF Plain
<1>12. InBatches(counts) /\ NoEvents(tells) /\ NoEvents(fails)
  <2>1. /\ Len(counts) = 5 /\ counts[1] = b /\ counts[2] = e
        /\ counts[3] = a /\ counts[4] = d /\ counts[5] = r
    OBVIOUS
  <2>2. NoEvents(tells)
    <3> HIDE DEF tells
    <3> QED  BY <1>5, <1>11 DEF NoEvents
  <2>3. NoEvents(fails)
    BY <1>11 DEF NoEvents
  <2> HIDE DEF counts, tells, fails
  <2>4. InBatches(counts)
    BY <1>11, <2>1 DEF InBatches
  <2> QED  BY <2>2, <2>3, <2>4
<1> HIDE DEF counts, tells
<1>6. Plain(counts \o tells) /\ Ordered(counts \o tells)
  <2>1. \A i \in 1..Len(tells) : \A k \in Before(tells[i]) :
            \E j \in 1..Len(counts) : counts[j] \in Counting(k)
    <3> SUFFICES ASSUME NEW i \in 1..Len(tells), NEW k \in Before(tells[i])
                 PROVE  \E j \in 1..Len(counts) : counts[j] \in Counting(k)
      OBVIOUS
    <3>1. k = "rejected" /\ rejected > 0
      BY <1>2, <1>5
    <3>2. counts[5] \in Counting(k) /\ 5 \in 1..Len(counts)
      BY <1>1, <1>4, <3>1
    <3> QED  BY <3>2
  <2> QED  BY <1>4, <1>5, <2>1, Concatenation
<1>7. /\ (counts \o tells)[2] = e /\ (counts \o tells)[5] = r
      /\ Len(counts \o tells) = 5 + rejected
  <2>1. rejected \in Nat /\ counts \in Seq(StepSet) /\ tells \in Seq(StepSet)
    BY <1>4, <1>5 DEF Plain
  <2>2. 2 \in 1..Len(counts) + Len(tells) /\ 5 \in 1..Len(counts) + Len(tells)
    BY <1>4, <1>5, <2>1
  <2>3. /\ Len(counts \o tells) = Len(counts) + Len(tells)
        /\ \A i \in 1..Len(counts) + Len(tells) : (counts \o tells)[i] =
               IF i <= Len(counts) THEN counts[i] ELSE tells[i - Len(counts)]
    BY <2>1, ConcatProperties
  <2> QED  BY <1>4, <1>5, <2>2, <2>3
<1>8. Plain(fails)
  BY <1>2 DEF Plain
<1>9. \A i \in 1..Len(fails) : \A k \in Before(fails[i]) :
          \E j \in 1..Len(counts \o tells) : (counts \o tells)[j] \in Counting(k)
  <2>1. CASE sync /\ rejected > 0
    <3>1. Len(fails) = 1 /\ fails[1] = Fail("rejected")
      BY <2>1
    <3>2. /\ 2 \in 1..Len(counts \o tells) /\ 5 \in 1..Len(counts \o tells)
      BY <1>7
    <3>3. /\ (counts \o tells)[2] \in Counting("sentEvents")
          /\ (counts \o tells)[5] \in Counting("rejected")
      BY <1>1, <1>7, <2>1
    <3> HIDE DEF fails
    <3> QED  BY <1>2, <3>1, <3>2, <3>3
  <2>2. CASE ~(sync /\ rejected > 0)
    BY <2>2
  <2> QED  BY <2>1, <2>2
<1> HIDE DEF fails
<1>10. Plain((counts \o tells) \o fails) /\ Ordered((counts \o tells) \o fails)
  BY <1>6, <1>8, <1>9, Concatenation
<1>13. InBatches((counts \o tells) \o fails)
  BY <1>4, <1>5, <1>6, <1>8, <1>12, NoEventsAfter DEF Plain
<1> QED  BY <1>3, <1>10, <1>13 DEF Fit

\* snapshot reads the error before the counters (stats.go:39-54).
LEMMA SnapshotList ==
    /\ Snapshot \in Seq(StepSet) /\ Ordered(Snapshot)
    /\ ReadInOrder(Snapshot, <<>>)
    /\ \A i \in 1..Len(Snapshot) : Snapshot[i] # Tell("errorChanged")
<1>1. \A f \in Counters \cup {"lastError"} :
          /\ Read(f) \in StepSet /\ Before(Read(f)) = {}
          /\ Read(f).do = "read" /\ Read(f).field = f
  BY StepFacts
<1>2. Snapshot \in Seq(StepSet) /\ Len(Snapshot) = 11
  BY <1>1 DEF Snapshot, Counters
<1>3. \A i \in 1..11 : \E f \in Counters \cup {"lastError"} :
          Snapshot[i] = Read(f) /\ (f = "lastError" <=> i = 1)
  BY DEF Snapshot, Counters
<1>4. Ordered(Snapshot)
  BY <1>1, <1>2, <1>3 DEF Ordered
<1>5. DOMAIN <<>> = {}
  OBVIOUS
<1>6. Snapshot[1] = Read("lastError")
  BY DEF Snapshot
<1>7. ReadInOrder(Snapshot, <<>>)
  BY <1>1, <1>2, <1>3, <1>5, <1>6 DEF ReadInOrder
<1>8. \A f : Read(f) # Tell("errorChanged")
  BY DEF Read, Tell
<1> QED  BY <1>2, <1>3, <1>4, <1>7, <1>8

-----------------------------------------------------------------------------
(* What can be wrong with an event                                           *)

LEMMA MinIsLeast ==
    ASSUME NEW I \in SUBSET Nat, IsFiniteSet(I), I # {}
    PROVE  Min(I) \in I /\ \A j \in I : Min(I) <= j
<1> DEFINE Below(i) == {j \in I : j <= i}
           B == {Below(i) : i \in I}
<1>1. B \in SUBSET (SUBSET I) /\ B # {}
  OBVIOUS
<1>2. IsWellFoundedOn(StrictSubsetOrdering(I), SUBSET I)
  BY FS_StrictSubsetOrderingWellFounded, FS_FiniteSubsetsOfFinite
<1>3. \E X \in B : \A Y \in B : ~ (<<Y, X>> \in StrictSubsetOrdering(I))
  <2> HIDE DEF B
  <2> QED  BY <1>1, <1>2, WFMin
<1>4. PICK i \in I : \A k \in I :
          ~ (<<Below(k), Below(i)>> \in StrictSubsetOrdering(I))
  BY <1>3
<1>5. ASSUME NEW k \in I, k < i  PROVE FALSE
  <2>1. k \in Nat /\ i \in Nat /\ \A j \in I : j \in Nat
    OBVIOUS
  <2>2. Below(k) \subseteq Below(i) /\ i \in Below(i) /\ i \notin Below(k)
    <3>1. \A j \in I : j <= k => j <= i
      BY <1>5, <2>1
    <3>2. i <= i /\ ~ (i <= k)
      BY <1>5, <2>1
    <3> QED  BY <3>1, <3>2
  <2>3. Below(k) \in SUBSET I /\ Below(i) \in SUBSET I
    OBVIOUS
  <2> HIDE DEF Below
  <2>4. <<Below(k), Below(i)>> \in StrictSubsetOrdering(I)
    BY <2>2, <2>3 DEF StrictSubsetOrdering
  <2> QED  BY <1>4, <2>4
<1>6. \A k \in I : i <= k
  BY <1>5
<1> QED  BY <1>6 DEF Min

LEMMA CheckErrors ==
    ASSUME NEW e
    PROVE  Validate(e) \in {"ok"} \cup DropErrors
<1> DEFINE R == [holds : BOOLEAN, error : DropErrors]
<1>1. \A f \in DropErrors :
          /\ Required(e, f) \in R /\ Timed(e, f) \in R /\ OneOf(e, f) \in R
          /\ OneOfOrNone(e, f) \in R /\ Marshals(e, f) \in R
  BY DEF Required, Timed, OneOf, OneOfOrNone, Marshals, Known
<1>2. \A f \in DropErrors, p \in BOOLEAN : [holds |-> p, error |-> f] \in R
  OBVIOUS
<1>3. TextFields \cup EventFields \cup {"duration_ms"} \subseteq DropErrors
  BY DEF DropErrors
<1>4. CommonChecks(e) \in Seq(R)
  BY <1>1, <1>2, <1>3 DEF CommonChecks, TextFields, EventFields
<1>5. Duration(e) \in R
  BY <1>2, <1>3 DEF Duration
<1>6. TypeChecks(e) \in Seq(R)
  <2> DEFINE changed == [holds |-> {e.changes, e.oldValue, e.newValue} # {Nil},
                         error |-> "changes"]
             coded == [holds |-> ~Blank(e.text["errorCode"])
                                 \/ ~Blank(e.text["errorMessage"]),
                       error |-> "errorCode"]
             valid == [holds |-> ChangesValid(e.changes), error |-> "changes"]
             some == [holds |-> e.data # Nil /\ ~Empty(e.data), error |-> "data"]
             unknown == [holds |-> FALSE, error |-> "type"]
  <2>1. changed \in R /\ coded \in R /\ some \in R /\ unknown \in R
    BY <1>2, <1>3 DEF TextFields, EventFields
  <2>2. valid \in R
    BY <1>2, <1>3 DEF ChangesValid, TextFields, EventFields
  <2>3. TextFields \subseteq DropErrors
        /\ {"changes", "oldValue", "newValue"} \subseteq DropErrors
    BY <1>3 DEF EventFields
  <2> HIDE DEF changed, coded, valid, some, unknown, R
  <2>4. CASE e.type = "request_started"
    BY <1>1, <2>3, <2>4 DEF TypeChecks, TextFields
  <2>5. CASE e.type = "request_finished"
    BY <1>1, <1>5, <2>3, <2>5 DEF TypeChecks, TextFields
  <2>6. CASE e.type = "span"
    BY <1>1, <1>5, <2>3, <2>6 DEF TypeChecks, TextFields
  <2>7. CASE e.type = "log_event"
    BY <1>1, <2>3, <2>7 DEF TypeChecks, TextFields
  <2>8. CASE e.type = "error_event"
    BY <1>1, <2>1, <2>3, <2>8 DEF TypeChecks, TextFields, coded
  <2>9. CASE e.type = "audit_event"
    <3>1. TypeChecks(e) =
            <<Required(e, "action"), Required(e, "entityType"),
              Required(e, "entityID"), changed, valid, Marshals(e, "changes"),
              Marshals(e, "oldValue"), Marshals(e, "newValue")>>
      BY <2>9 DEF TypeChecks, changed, valid
    <3> QED  BY <1>1, <2>1, <2>2, <2>3, <3>1 DEF TextFields
  <2>10. CASE e.type = "external_provider_exchange"
    <3>1. TypeChecks(e) = <<Required(e, "operation"), some>>
      BY <2>10 DEF TypeChecks, some
    <3> QED  BY <1>1, <2>1, <2>3, <3>1 DEF TextFields
  <2>11. CASE e.type \notin {"request_started", "request_finished", "span",
                             "log_event", "error_event", "audit_event",
                             "external_provider_exchange"}
    BY <2>1, <2>11 DEF TypeChecks, unknown
  <2> QED  BY <2>4, <2>5, <2>6, <2>7, <2>8, <2>9, <2>10, <2>11
<1> DEFINE checks == CommonChecks(e) \o TypeChecks(e)
           failed == {i \in DOMAIN checks : ~checks[i].holds}
<1>7. checks \in Seq(R) /\ DOMAIN checks = 1..Len(checks) /\ Len(checks) \in Nat
  BY <1>4, <1>6, ConcatProperties, LenProperties
<1>8. CASE failed # {}
  <2>1. failed \in SUBSET Nat /\ IsFiniteSet(failed)
    <3>1. failed \subseteq 1..Len(checks)
      BY <1>7
    <3>2. IsFiniteSet(1..Len(checks)) /\ 1..Len(checks) \subseteq Nat
      BY <1>7, FS_Interval
    <3> HIDE DEF failed, checks
    <3> QED  BY <3>1, <3>2, FS_Subset
  <2>2. Min(failed) \in failed
    BY <1>8, <2>1, MinIsLeast
  <2>3. checks[Min(failed)].error \in DropErrors
    <3>1. Min(failed) \in 1..Len(checks)
      BY <1>7, <2>2
    <3>2. checks[Min(failed)] \in R
      <4> HIDE DEF checks, failed, R
      <4> QED  BY <1>7, <3>1, ElementOfSeq
    <3> QED  BY <3>2
  <2> QED  BY <1>8, <2>3 DEF Validate
<1>9. CASE failed = {}
  BY <1>9 DEF Validate
<1> QED  BY <1>8, <1>9

LEMMA SizeErrors ==
    ASSUME NEW e, LimitError(e) # "ok"
    PROVE  LimitError(e) \in DropErrors
BY DEF LimitError, DropErrors

-----------------------------------------------------------------------------
(* Taking a step off a list, and putting a list in place                     *)

LEMMA CountersNeeded ==
    /\ \A step : Before(step) \subseteq Counters
    /\ \A error : Needs(error) \subseteq Counters
    /\ \A hook : Causes(hook) \subseteq Counters
<1>1. \A error : Needs(error) \subseteq Counters
  BY DEF Needs, Counters
<1>2. \A hook : Causes(hook) \subseteq Counters
  BY DEF Causes, Counters
<1>3. \A step : Before(step) \subseteq Counters
  BY <1>1, <1>2 DEF Before, Counters
<1> QED  BY <1>1, <1>2, <1>3

LEMMA TakenOff ==
    ASSUME NEW list \in Seq(StepSet), list # <<>>,
           NEW cs, NEW ds, Announced(list, cs),
           \A k \in Counters : cs[k] > 0 => ds[k] > 0,
           \A k \in Counters : Head(list) \in Counting(k) => ds[k] > 0
    PROVE  /\ Tail(list) \in Seq(StepSet) /\ Announced(Tail(list), ds)
           /\ \A k \in Before(Head(list)) : cs[k] > 0
<1>1. /\ Tail(list) \in Seq(StepSet) /\ Len(Tail(list)) = Len(list) - 1
      /\ \A i \in 1..Len(Tail(list)) : Tail(list)[i] = list[i + 1]
      /\ Head(list) = list[1] /\ Len(list) \in Nat \ {0}
  BY HeadTailProperties, EmptySeq
<1>2. ASSUME NEW i \in 1..Len(Tail(list)), NEW k \in Before(Tail(list)[i])
      PROVE  \/ ds[k] > 0
             \/ \E j \in 1..i - 1 : Tail(list)[j] \in Counting(k)
  <2>1. i + 1 \in 1..Len(list) /\ Tail(list)[i] = list[i + 1] /\ k \in Counters
    BY <1>1, CountersNeeded
  <2>2. cs[k] > 0 \/ \E j \in 1..i + 1 - 1 : list[j] \in Counting(k)
    BY <1>2, <2>1 DEF Announced
  <2>3. CASE \E j \in 1..i : list[j] \in Counting(k)
    <3>1. PICK j \in 1..i : list[j] \in Counting(k)
      BY <2>3
    <3>2. CASE j = 1
      BY <1>1, <2>1, <3>1, <3>2
    <3>3. CASE j # 1
      <4>1. j - 1 \in 1..i - 1 /\ j - 1 \in 1..Len(Tail(list))
        BY <3>3
      <4>2. Tail(list)[j - 1] = list[j]
        BY <1>1, <4>1
      <4> QED  BY <3>1, <4>1, <4>2
    <3> QED  BY <3>2, <3>3
  <2> QED  BY <2>1, <2>2, <2>3
<1>3. \A k \in Before(list[1]) : cs[k] > 0
  <2>1. 1 \in 1..Len(list) /\ 1..1 - 1 = {}
    BY <1>1
  <2> QED  BY <2>1 DEF Announced
<1> QED  BY <1>1, <1>2, <1>3 DEF Announced

\* Once another step than the reading of the error has come first, what is
\* still to be read comes after it.
ReadsAfter(list, read) ==
    /\ \A i \in 1..Len(list) : list[i].do = "read" =>
           list[i].field # "lastError" /\ "lastError" \in DOMAIN read
    /\ DOMAIN read # {} => "lastError" \in DOMAIN read

LEMMA TakenOffReads ==
    ASSUME NEW list \in Seq(StepSet), list # <<>>,
           NEW read, ReadInOrder(list, read), Head(list) # Read("lastError")
    PROVE  ReadsAfter(Tail(list), read)
<1>1. /\ Len(Tail(list)) = Len(list) - 1
      /\ \A i \in 1..Len(Tail(list)) : Tail(list)[i] = list[i + 1]
      /\ Head(list) = list[1] /\ Len(list) \in Nat \ {0}
  BY HeadTailProperties, EmptySeq
<1>2. \A i \in 1..Len(Tail(list)) : i + 1 \in 1..Len(list) /\ i + 1 # 1
  BY <1>1
<1> QED  BY <1>1, <1>2 DEF ReadInOrder, ReadsAfter

LEMMA PutBefore ==
    ASSUME NEW list \in Seq(StepSet), NEW changed \in BOOLEAN,
           NEW cs, Announced(list, cs)
    PROVE  /\ AfterStore(changed) \o list \in Seq(StepSet)
           /\ AfterStore(changed) \o list # <<>>
           /\ Head(AfterStore(changed) \o list) = Unlock
           /\ Announced(AfterStore(changed) \o list, cs)
           /\ \A read : ReadsAfter(list, read) =>
                  ReadInOrder(AfterStore(changed) \o list, read)
           /\ Len(AfterStore(changed)) \in Nat
           /\ \A i \in 1..Len(AfterStore(changed) \o list) :
                 IF i <= Len(AfterStore(changed))
                 THEN (AfterStore(changed) \o list)[i].do \in {"unlock", "tell"}
                 ELSE /\ i - Len(AfterStore(changed)) \in 1..Len(list)
                      /\ (AfterStore(changed) \o list)[i]
                            = list[i - Len(AfterStore(changed))]
<1> DEFINE first == AfterStore(changed)
           t == Tell("errorChanged")
<1>1. /\ Unlock \in StepSet /\ Before(Unlock) = {} /\ Unlock.do = "unlock"
      /\ t \in StepSet /\ Before(t) = {} /\ t.do = "tell"
  BY StepFacts DEF Causes, Hooks
<1> HIDE DEF t
<1>2. first = <<Unlock>> \/ first = <<Unlock, t>>
  <2>1. CASE changed
    <3>1. first = <<Unlock>> \o <<t>>
      BY <2>1 DEF AfterStore, t
    <3>2. <<Unlock>> \in Seq(StepSet) /\ <<t>> \in Seq(StepSet)
          /\ <<Unlock, t>> \in Seq(StepSet)
      BY <1>1
    <3>3. <<Unlock>> \o <<t>> \in Seq(StepSet) /\ Len(<<Unlock>> \o <<t>>) = 2
          /\ \A i \in 1..2 : (<<Unlock>> \o <<t>>)[i] = <<Unlock, t>>[i]
      BY <3>2, ConcatProperties
    <3> QED  BY <3>1, <3>2, <3>3, SeqEqual
  <2>2. CASE ~changed
    <3>1. first = <<Unlock>> \o <<>> /\ <<Unlock>> \in Seq(StepSet)
      BY <1>1, <2>2 DEF AfterStore
    <3> QED  BY <3>1, ConcatEmptySeq
  <2> QED  BY <2>1, <2>2
<1> HIDE DEF first
<1>3. /\ first \in Seq(StepSet) /\ Len(first) \in 1..2 /\ first[1] = Unlock
      /\ \A i \in 1..Len(first) : /\ Before(first[i]) = {}
                                  /\ first[i].do \in {"unlock", "tell"}
  <2>1. CASE first = <<Unlock>>
    BY <1>1, <2>1
  <2>2. CASE first = <<Unlock, t>>
    <3>1. Len(<<Unlock, t>>) = 2 /\ <<Unlock, t>>[1] = Unlock
          /\ <<Unlock, t>>[2] = t /\ <<Unlock, t>> \in Seq(StepSet)
      BY <1>1
    <3>2. \A i \in 1..2 : i = 1 \/ i = 2
      OBVIOUS
    <3> QED  BY <1>1, <2>2, <3>1, <3>2
  <2> QED  BY <1>2, <2>1, <2>2
<1>4. /\ first \o list \in Seq(StepSet)
      /\ Len(first \o list) = Len(first) + Len(list) /\ Len(list) \in Nat
      /\ \A i \in 1..Len(first) + Len(list) : (first \o list)[i] =
            IF i <= Len(first) THEN first[i] ELSE list[i - Len(first)]
  BY <1>3, ConcatProperties
<1>5. first \o list # <<>> /\ Head(first \o list) = Unlock
  <2>1. 1 \in 1..Len(first) + Len(list) /\ 1 <= Len(first)
    BY <1>3, <1>4
  <2>2. (first \o list)[1] = Unlock /\ Len(first \o list) > 0
    BY <1>3, <1>4, <2>1
  <2> QED  BY <1>4, <2>2
<1>6. \A i \in 1..Len(first \o list) :
          \/ Before((first \o list)[i]) = {} /\ (first \o list)[i].do # "read"
          \/ \E j \in 1..Len(list) : i = Len(first) + j
                                     /\ (first \o list)[i] = list[j]
  <2> SUFFICES ASSUME NEW i \in 1..Len(first) + Len(list),
                      ~ (i <= Len(first))
               PROVE  \E j \in 1..Len(list) : i = Len(first) + j
                                              /\ (first \o list)[i] = list[j]
    <3>1. \A i \in 1..Len(first) + Len(list) :
             i <= Len(first) => i \in 1..Len(first)
                                /\ (first \o list)[i] = first[i]
      BY <1>3, <1>4
    <3> QED  BY <1>3, <1>4, <3>1
  <2>1. i - Len(first) \in 1..Len(list) /\ i = Len(first) + (i - Len(first))
    BY <1>3, <1>4
  <2>2. (first \o list)[i] = list[i - Len(first)]
    BY <1>3, <1>4
  <2> QED  BY <2>1, <2>2
<1>7. Announced(first \o list, cs)
  <2> SUFFICES ASSUME NEW i \in 1..Len(first \o list),
                      NEW k \in Before((first \o list)[i]), ~ (cs[k] > 0)
               PROVE  \E j \in 1..i - 1 : (first \o list)[j] \in Counting(k)
    BY DEF Announced
  <2>1. PICK m \in 1..Len(list) : i = Len(first) + m
                                  /\ (first \o list)[i] = list[m]
    BY <1>6
  <2>2. PICK j \in 1..m - 1 : list[j] \in Counting(k)
    BY <2>1 DEF Announced
  <2>3. /\ Len(first) + j \in 1..Len(first) + Len(list)
        /\ ~ (Len(first) + j <= Len(first)) /\ Len(first) + j - Len(first) = j
        /\ Len(first) + j \in 1..i - 1
    BY <1>3, <1>4, <2>1
  <2>4. (first \o list)[Len(first) + j] = list[j]
    BY <1>4, <2>3
  <2> QED  BY <2>2, <2>3, <2>4
<1>8. ASSUME NEW read, ReadsAfter(list, read)
      PROVE  ReadInOrder(first \o list, read)
  BY <1>6, <1>8 DEF ReadsAfter, ReadInOrder
<1>9. ASSUME NEW i \in 1..Len(first \o list)
      PROVE  IF i <= Len(first) THEN (first \o list)[i].do \in {"unlock", "tell"}
             ELSE /\ i - Len(first) \in 1..Len(list)
                  /\ (first \o list)[i] = list[i - Len(first)]
  <2>1. CASE i <= Len(first)
    <3>1. i \in 1..Len(first) /\ (first \o list)[i] = first[i]
      BY <1>3, <1>4, <2>1
    <3> QED  BY <1>3, <2>1, <3>1
  <2>2. CASE ~ (i <= Len(first))
    BY <1>3, <1>4, <2>2
  <2> QED  BY <2>1, <2>2
<1> QED  BY <1>3, <1>4, <1>5, <1>7, <1>8, <1>9 DEF first

-----------------------------------------------------------------------------
(* The invariant                                                             *)

LEMMA EmptyList ==
    /\ Fit(<<>>) /\ <<>> \in Seq(StepSet)
    /\ \A cs : Announced(<<>>, cs)
    /\ \A read : DOMAIN read = {} => ReadInOrder(<<>>, read)
    /\ DOMAIN <<>> = {}
BY DEF Fit, Plain, Ordered, InBatches, Announced, ReadInOrder

LEMMA InitIInv == Init => IInv
<1> SUFFICES ASSUME Init PROVE IInv
  OBVIOUS
<1>1. Shape
  <2>1. /\ pc \in [Goroutines -> {"idle", "seal", "push", "post"}]
        /\ lastError \in Errors \cup {None} /\ mu \in Goroutines \cup {None}
        /\ due \in [Callers -> BOOLEAN] /\ closed \in BOOLEAN
    BY DEF Init
  <2>4. buffered \in 0..BufferSize
    BY ReportingAssumption DEF Init
  <2>5. counters \in [Counters -> Nat] /\ told \in [Hooks -> Nat]
    <3>1. counters = [c \in Counters |-> 0] /\ told = [h \in Hooks |-> 0]
      BY DEF Init
    <3> QED  BY <3>1
  <2>2. /\ report = [c \in Callers |-> report[c]]
        /\ \A c \in Callers : DOMAIN report[c] \subseteq Counters \cup {"lastError"}
    BY EmptyList DEF Init
  <2>3. steps \in [Goroutines -> Seq(StepSet)]
    BY EmptyList DEF Init
  <2> QED  BY <2>1, <2>2, <2>3, <2>4, <2>5 DEF Shape, TypeOK
<1>2. MutexHeld
  BY ReportingAssumption DEF Init, MutexHeld, Goroutines
<1>3. Caused
  <2>1. \A g \in Goroutines : Announced(steps[g], counters)
    BY EmptyList DEF Init
  <2>2. lastError = None /\ counters["failedEvents"] = 0
    BY DEF Init, Counters
  <2>3. ASSUME NEW c \in Callers
        PROVE  /\ ReadInOrder(steps[c], report[c])
               /\ ReportHasCause(report[c], counters) /\ DueIsShown(c)
    <3>1. steps[c] = <<>> /\ report[c] = <<>> /\ due[c] = FALSE
      BY DEF Init, Goroutines
    <3> QED  BY <3>1, EmptyList DEF ReportHasCause, DueIsShown
  <2>4. ToldHasCause
    <3>1. /\ \A h \in Hooks : ~ (told[h] > 0)
          /\ ~ (told["errorChanged"] > 0)
      BY DEF Init, Hooks
    <3>2. \A g \in Goroutines : steps[g] = <<>>
      BY DEF Init
    <3> QED  BY <3>1, <3>2 DEF ToldHasCause
  <2> QED  BY <2>1, <2>2, <2>3, <2>4 DEF Caused
<1> QED  BY <1>1, <1>2, <1>3 DEF IInv

\* A decision puts a list in place and touches nothing that is counted.
Decides(g) ==
    /\ steps[g] = <<>>
    /\ \E list, decision : /\ decision \in {"idle", "seal", "push", "post"}
                           /\ Go(g, list, decision) /\ Fit(list)
    /\ buffered' \in 0..BufferSize /\ closed' \in BOOLEAN
    /\ UNCHANGED statVars

LEMMA DecisionIInv ==
    ASSUME IInv, NEW g \in Goroutines, Decides(g)
    PROVE  IInv'
<1> USE DEF Go, statVars
<1>0. steps[g] = <<>> /\ buffered' \in 0..BufferSize /\ closed' \in BOOLEAN
      /\ UNCHANGED statVars
  BY DEF Decides
<1> PICK list, decision :
       /\ decision \in {"idle", "seal", "push", "post"}
       /\ Go(g, list, decision) /\ Fit(list)
  BY DEF Decides
<1> USE <1>0 DEF Fit
<1>1. /\ steps' \in [Goroutines -> Seq(StepSet)] /\ steps'[g] = list
      /\ \A h \in Goroutines \ {g} : steps'[h] = steps[h]
  BY DEF IInv, Shape, Plain
<1>2. Shape'
  BY <1>1 DEF IInv, Shape, TypeOK
<1>3. MutexHeld'
  BY <1>1 DEF IInv, MutexHeld
<1>4. Caused'
  <2>1. \A h \in Goroutines : Announced(steps[h], counters)'
    <3>1. Announced(list, counters)
      BY DEF Ordered, Announced
    <3> QED  BY <1>1, <3>1 DEF IInv, Caused
  <2>2. (lastError # None => \A k \in Needs(lastError) : counters[k] > 0)'
        /\ (counters["failedEvents"] > 0 => counters["failedBatches"] > 0)'
    BY DEF IInv, Caused
  <2>3. ASSUME NEW c \in Callers
        PROVE  ReadInOrder(steps[c], report[c])'
    <3>1. ReadInOrder(steps[c], report[c]) /\ c \in Goroutines
      BY DEF IInv, Caused, Goroutines
    <3>2. CASE c = g
      BY <1>1, <3>1, <3>2 DEF ReadInOrder, Plain
    <3> QED  BY <1>1, <3>1, <3>2
  <2>4. \A c \in Callers : ReportHasCause(report[c], counters)'
                           /\ DueIsShown(c)'
    BY DEF IInv, Caused, DueIsShown
  <2>5. ToldHasCause'
    <3>1. ToldHasCause
      BY DEF IInv, Caused
    <3>2. ASSUME NEW h \in Goroutines, NEW i \in 1..Len(steps'[h]),
                 steps'[h][i] = Tell("errorChanged")
          PROVE  lastError # None
      <4>1. CASE h = g
        BY <1>1, <3>2, <4>1 DEF Plain
      <4>2. CASE h # g
        BY <1>1, <3>1, <3>2, <4>2 DEF ToldHasCause
      <4> QED  BY <4>1, <4>2
    <3> QED  BY <3>1, <3>2 DEF ToldHasCause
  <2> QED  BY <2>1, <2>2, <2>3, <2>4, <2>5 DEF Caused
<1> QED  BY <1>2, <1>3, <1>4 DEF IInv

\* What a goroutine's next step finds counted, and what is left of its list.
LEMMA NextStepFacts ==
    ASSUME IInv, NEW g \in Goroutines, steps[g] # <<>>
    PROVE  /\ steps[g] \in Seq(StepSet) /\ Head(steps[g]) \in StepSet
           /\ Tail(steps[g]) \in Seq(StepSet)
           /\ \A k \in Before(Head(steps[g])) : counters[k] > 0
           /\ \A i \in 1..Len(Tail(steps[g])) :
                 Tail(steps[g])[i] = Tell("errorChanged") => lastError # None
           /\ Head(steps[g]) = Tell("errorChanged") => lastError # None
           /\ Head(steps[g]) # Unlock => mu # g
<1>1. steps[g] \in Seq(StepSet)
  BY DEF IInv, Shape
<1>2. /\ Head(steps[g]) \in StepSet /\ Tail(steps[g]) \in Seq(StepSet)
      /\ Len(Tail(steps[g])) = Len(steps[g]) - 1
      /\ \A i \in 1..Len(Tail(steps[g])) : Tail(steps[g])[i] = steps[g][i + 1]
      /\ Head(steps[g]) = steps[g][1] /\ Len(steps[g]) \in Nat \ {0}
  BY <1>1, HeadTailProperties, EmptySeq
<1>3. \A k \in Before(Head(steps[g])) : counters[k] > 0
  <2>1. 1 \in 1..Len(steps[g]) /\ 1..1 - 1 = {}
    BY <1>2
  <2> QED  BY <1>2, <2>1 DEF IInv, Caused, Announced
<1>4. \A i \in 1..Len(steps[g]) :
          steps[g][i] = Tell("errorChanged") => lastError # None
  BY DEF IInv, Caused, ToldHasCause
<1>5. \A i \in 1..Len(Tail(steps[g])) : i + 1 \in 1..Len(steps[g])
  BY <1>2
<1>6. 1 \in 1..Len(steps[g])
  BY <1>2
<1>7. Head(steps[g]) # Unlock => mu # g
  BY DEF IInv, MutexHeld
<1> QED  BY <1>1, <1>2, <1>3, <1>4, <1>5, <1>6, <1>7

LEMMA AddIInv ==
    ASSUME IInv, NEW g \in Goroutines, AddStep(g)
    PROVE  IInv'
<1> USE DEF AddStep, Ready, Advance
<1> DEFINE step == Head(steps[g])
<1>1. /\ steps[g] \in Seq(StepSet) /\ step \in StepSet
      /\ Tail(steps[g]) \in Seq(StepSet)
      /\ \A k \in Before(step) : counters[k] > 0
      /\ \A i \in 1..Len(Tail(steps[g])) :
            Tail(steps[g])[i] = Tell("errorChanged") => lastError # None
  BY NextStepFacts
<1>2. step.do = "add" /\ step.counter \in Counters /\ step.n \in Nat
      /\ step = [do |-> "add", counter |-> step.counter, n |-> step.n]
  BY <1>1 DEF StepSet
<1>3. /\ steps' \in [Goroutines -> Seq(StepSet)] /\ steps'[g] = Tail(steps[g])
      /\ \A h \in Goroutines \ {g} : steps'[h] = steps[h]
  BY <1>1 DEF IInv, Shape
<1>4. /\ counters' \in [Counters -> Nat] /\ counters \in [Counters -> Nat]
      /\ counters'[step.counter] = counters[step.counter] + step.n
      /\ \A k \in Counters \ {step.counter} : counters'[k] = counters[k]
  BY <1>2 DEF IInv, Shape, TypeOK
<1>5. \A k \in Counters : counters[k] > 0 => counters'[k] > 0
  BY <1>2, <1>4
<1>6. \A k \in Counters : step \in Counting(k) => counters'[k] > 0
  BY <1>4 DEF Counting
<1> HIDE DEF step
<1>7. Shape'
  BY <1>3, <1>4 DEF IInv, Shape, TypeOK, dataVars
<1>8. MutexHeld'
  <2>1. mu # g
    <3>1. step # Unlock
      BY <1>2 DEF Unlock
    <3> QED  BY <3>1, NextStepFacts DEF step
  <2> QED  BY <1>3, <2>1 DEF IInv, MutexHeld
<1>9. Caused'
  <2>1. \A h \in Goroutines : Announced(steps[h], counters)'
    <3> SUFFICES ASSUME NEW h \in Goroutines
                 PROVE  Announced(steps'[h], counters')
      OBVIOUS
    <3>1. Announced(steps[h], counters)
      BY DEF IInv, Caused
    <3>2. CASE h = g
      BY <1>1, <1>3, <1>5, <1>6, <3>1, <3>2, TakenOff DEF step
    <3>3. CASE h # g
      BY <1>3, <1>5, <3>1, <3>3, CountersNeeded DEF Announced
    <3> QED  BY <3>2, <3>3
  <2>2. (lastError # None => \A k \in Needs(lastError) : counters[k] > 0)'
    BY <1>5, CountersNeeded DEF IInv, Caused
  <2>3. (counters["failedEvents"] > 0 => counters["failedBatches"] > 0)'
    <3>1. {"failedEvents", "failedBatches"} \subseteq Counters
      BY DEF Counters
    <3>2. CASE step.counter = "failedEvents"
      <4>1. Before(step) = {"failedBatches"}
        BY <1>2, <3>2 DEF Before
      <4> QED  BY <1>1, <1>5, <3>1, <4>1 DEF step
    <3>3. CASE step.counter # "failedEvents"
      BY <1>4, <1>5, <3>1, <3>3 DEF IInv, Caused
    <3> QED  BY <3>2, <3>3
  <2>4. ASSUME NEW c \in Callers
        PROVE  ReadInOrder(steps[c], report[c])'
    <3>1. ReadInOrder(steps[c], report[c]) /\ c \in Goroutines
      BY DEF IInv, Caused, Goroutines
    <3>2. CASE c = g
      <4>1. step # Read("lastError")
        BY <1>2 DEF Read
      <4>2. ReadsAfter(Tail(steps[c]), report[c])
        BY <1>1, <3>1, <3>2, <4>1, TakenOffReads DEF step
      <4> QED  BY <1>3, <3>2, <4>2 DEF ReadsAfter, ReadInOrder
    <3> QED  BY <1>3, <3>1, <3>2
  <2>5. ASSUME NEW c \in Callers
        PROVE  ReportHasCause(report[c], counters)' /\ DueIsShown(c)'
    <3>1. ReportHasCause(report[c], counters) /\ DueIsShown(c)
      BY DEF IInv, Caused
    <3>2. {"dropped", "failedBatches", "rejected"} \subseteq Counters
      BY DEF Counters
    <3>3. ReportHasCause(report[c], counters)'
      BY <1>5, <3>1, CountersNeeded DEF ReportHasCause
    <3>4. DueIsShown(c)'
      BY <1>5, <3>1, <3>2 DEF DueIsShown
    <3> QED  BY <3>3, <3>4
  <2>6. ToldHasCause'
    <3>1. ToldHasCause
      BY DEF IInv, Caused
    <3>2. \A h \in Hooks : told[h] > 0 => \A k \in Causes(h) : counters'[k] > 0
      BY <1>5, <3>1, CountersNeeded DEF ToldHasCause
    <3>3. ASSUME NEW h \in Goroutines, NEW i \in 1..Len(steps'[h]),
                 steps'[h][i] = Tell("errorChanged")
          PROVE  lastError # None
      BY <1>1, <1>3, <3>1, <3>3 DEF ToldHasCause
    <3> QED  BY <3>1, <3>2, <3>3 DEF ToldHasCause
  <2> QED  BY <2>1, <2>2, <2>3, <2>4, <2>5, <2>6 DEF Caused
<1> QED  BY <1>7, <1>8, <1>9 DEF IInv

\* What is left of a list when a step has been taken that adds nothing: a
\* goroutine's own list is Tail(steps[g]), the others are as they were.
LEMMA TailIsCaused ==
    ASSUME IInv, NEW g \in Goroutines, steps[g] # <<>>,
           \A k \in Counters : ~ (Head(steps[g]) \in Counting(k))
    PROVE  /\ Announced(Tail(steps[g]), counters)
           /\ g \in Callers /\ Head(steps[g]) # Read("lastError") =>
                 ReadsAfter(Tail(steps[g]), report[g])
           /\ g \in Callers /\ Head(steps[g]) # Read("lastError") =>
                 ReadInOrder(Tail(steps[g]), report[g])
<1>1. steps[g] \in Seq(StepSet) /\ Announced(steps[g], counters)
  BY DEF IInv, Shape, Caused
<1>2. Announced(Tail(steps[g]), counters)
  BY <1>1, TakenOff
<1>3. g \in Callers => ReadInOrder(steps[g], report[g])
  BY DEF IInv, Caused
<1>4. g \in Callers /\ Head(steps[g]) # Read("lastError") =>
          ReadsAfter(Tail(steps[g]), report[g])
  BY <1>1, <1>3, TakenOffReads
<1> QED  BY <1>2, <1>4 DEF ReadsAfter, ReadInOrder

LEMMA UnlockIInv ==
    ASSUME IInv, NEW g \in Goroutines, UnlockStep(g)
    PROVE  IInv'
<1> USE DEF UnlockStep, Ready, Advance
<1>1. /\ Head(steps[g]) \in StepSet /\ Tail(steps[g]) \in Seq(StepSet)
      /\ \A i \in 1..Len(Tail(steps[g])) :
            Tail(steps[g])[i] = Tell("errorChanged") => lastError # None
  BY NextStepFacts
<1>2. \A k \in Counters : ~ (Head(steps[g]) \in Counting(k))
  BY DEF Counting
<1>3. Head(steps[g]) # Read("lastError")
  BY DEF Read
<1>4. /\ steps' \in [Goroutines -> Seq(StepSet)] /\ steps'[g] = Tail(steps[g])
      /\ \A h \in Goroutines \ {g} : steps'[h] = steps[h]
  BY <1>1 DEF IInv, Shape
<1>5. Shape'
  BY <1>4 DEF IInv, Shape, TypeOK, dataVars
<1>6. MutexHeld'
  BY ReportingAssumption DEF MutexHeld, Goroutines
<1>7. Caused'
  <2>1. \A h \in Goroutines : Announced(steps'[h], counters)
    BY <1>2, <1>4, TailIsCaused DEF IInv, Caused
  <2>2. \A c \in Callers : ReadInOrder(steps'[c], report[c])
    BY <1>2, <1>3, <1>4, TailIsCaused DEF IInv, Caused, Goroutines
  <2>3. ToldHasCause'
    BY <1>1, <1>4 DEF IInv, Caused, ToldHasCause
  <2> QED  BY <2>1, <2>2, <2>3 DEF IInv, Caused, DueIsShown
<1> QED  BY <1>5, <1>6, <1>7 DEF IInv

LEMMA TellIInv ==
    ASSUME IInv, NEW g \in Goroutines, TellStep(g)
    PROVE  IInv'
<1> USE DEF TellStep, Ready, Advance
<1> DEFINE hook == Head(steps[g]).hook
<1>1. /\ Head(steps[g]) \in StepSet /\ Tail(steps[g]) \in Seq(StepSet)
      /\ \A k \in Before(Head(steps[g])) : counters[k] > 0
      /\ Head(steps[g]) = Tell("errorChanged") => lastError # None
      /\ \A i \in 1..Len(Tail(steps[g])) :
            Tail(steps[g])[i] = Tell("errorChanged") => lastError # None
  BY NextStepFacts
<1>2. \A k \in Counters : ~ (Head(steps[g]) \in Counting(k))
  BY DEF Counting
<1>3. Head(steps[g]) # Read("lastError")
  BY DEF Read
<1>4. /\ steps' \in [Goroutines -> Seq(StepSet)] /\ steps'[g] = Tail(steps[g])
      /\ \A h \in Goroutines \ {g} : steps'[h] = steps[h]
  BY <1>1 DEF IInv, Shape
<1>5. hook \in Hooks /\ Head(steps[g]) = Tell(hook)
  BY <1>1 DEF StepSet, Tell
<1>6. /\ told' \in [Hooks -> Nat] /\ told \in [Hooks -> Nat]
      /\ \A h \in Hooks \ {hook} : told'[h] = told[h]
  BY <1>5 DEF IInv, Shape, TypeOK
<1>7. Shape'
  BY <1>4, <1>6 DEF IInv, Shape, TypeOK, dataVars
<1>8. MutexHeld'
  BY ReportingAssumption DEF MutexHeld, Goroutines
<1>9. Caused'
  <2>1. \A h \in Goroutines : Announced(steps'[h], counters)
    BY <1>2, <1>4, TailIsCaused DEF IInv, Caused
  <2>2. \A c \in Callers : ReadInOrder(steps'[c], report[c])
    BY <1>2, <1>3, <1>4, TailIsCaused DEF IInv, Caused, Goroutines
  <2>3. ToldHasCause'
    <3>1. ToldHasCause
      BY DEF IInv, Caused
    <3>2. \A k \in Causes(hook) : counters[k] > 0
      BY <1>1, <1>5, StepFacts
    <3>3. \A h \in Hooks : told'[h] > 0 => \A k \in Causes(h) : counters[k] > 0
      BY <1>6, <3>1, <3>2 DEF ToldHasCause
    <3>4. told'["errorChanged"] > 0 => lastError # None
      BY <1>1, <1>5, <1>6, <3>1 DEF ToldHasCause, Hooks
    <3>5. \A h \in Goroutines : \A i \in 1..Len(steps'[h]) :
              steps'[h][i] = Tell("errorChanged") => lastError # None
      BY <1>1, <1>4, <3>1 DEF ToldHasCause
    <3> QED  BY <3>3, <3>4, <3>5 DEF ToldHasCause
  <2> QED  BY <2>1, <2>2, <2>3 DEF IInv, Caused, DueIsShown
<1> QED  BY <1>7, <1>8, <1>9 DEF IInv

LEMMA SetErrorIInv ==
    ASSUME IInv, NEW g \in Goroutines, SetErrorStep(g)
    PROVE  IInv'
<1> USE DEF SetErrorStep, Ready
<1> DEFINE error == Head(steps[g]).error
           changed == lastError # error
           rest == Tail(steps[g])
<1>1. /\ Head(steps[g]) \in StepSet /\ rest \in Seq(StepSet)
      /\ \A k \in Before(Head(steps[g])) : counters[k] > 0
  BY NextStepFacts
<1>2. /\ \A k \in Counters : ~ (Head(steps[g]) \in Counting(k))
      /\ Head(steps[g]) # Read("lastError")
  BY DEF Counting, Read
<1>3. error \in Errors /\ Head(steps[g]) = Fail(error) /\ error # None
  BY <1>1, ReportingAssumption DEF StepSet, Fail
<1>4. \A k \in Needs(error) : counters[k] > 0
  BY <1>1, <1>3, StepFacts
<1>5. /\ Announced(rest, counters)
      /\ g \in Callers => ReadsAfter(rest, report[g])
  BY <1>2, TailIsCaused
<1> DEFINE list == AfterStore(changed) \o rest
<1>6. /\ list \in Seq(StepSet) /\ list # <<>> /\ Head(list) = Unlock
      /\ Announced(list, counters)
      /\ g \in Callers => ReadInOrder(list, report[g])
  BY <1>1, <1>5, PutBefore
<1>7. steps' = [steps EXCEPT ![g] = list]
  OBVIOUS
<1> HIDE DEF list
<1>8. /\ steps' \in [Goroutines -> Seq(StepSet)] /\ steps'[g] = list
      /\ \A h \in Goroutines \ {g} : steps'[h] = steps[h]
  BY <1>6, <1>7 DEF IInv, Shape
<1>9. Shape'
  BY <1>3, <1>8 DEF IInv, Shape, TypeOK, dataVars
<1>10. MutexHeld'
  BY <1>6, <1>8 DEF MutexHeld
<1>11. Caused'
  <2>1. \A h \in Goroutines : Announced(steps'[h], counters)
    BY <1>6, <1>8 DEF IInv, Caused
  <2>2. \A c \in Callers : ReadInOrder(steps'[c], report[c])
    BY <1>6, <1>8 DEF IInv, Caused, Goroutines
  <2>3. lastError' = error
    OBVIOUS
  <2> HIDE DEF error
  <2>4. ToldHasCause'
    BY <1>3, <2>3 DEF IInv, Caused, ToldHasCause
  <2>5. \A c \in Callers : DueIsShown(c)'
    BY <1>3, <2>3 DEF IInv, Caused, DueIsShown
  <2> QED  BY <1>4, <2>1, <2>2, <2>3, <2>4, <2>5 DEF IInv, Caused
<1> QED  BY <1>9, <1>10, <1>11 DEF IInv

LEMMA ReadIInv ==
    ASSUME IInv, NEW g \in Goroutines, ReadStep(g)
    PROVE  IInv'
<1> USE DEF ReadStep, Ready, Advance
<1> DEFINE field == Head(steps[g]).field
           value == IF field = "lastError" THEN lastError ELSE counters[field]
<1>1. /\ Head(steps[g]) \in StepSet /\ Tail(steps[g]) \in Seq(StepSet)
      /\ steps[g] \in Seq(StepSet)
      /\ \A i \in 1..Len(Tail(steps[g])) :
            Tail(steps[g])[i] = Tell("errorChanged") => lastError # None
  BY NextStepFacts
<1>2. \A k \in Counters : ~ (Head(steps[g]) \in Counting(k))
  BY DEF Counting
<1>3. /\ field \in Counters \cup {"lastError"} /\ Head(steps[g]) = Read(field)
      /\ Head(steps[g]) # Unlock
  BY <1>1 DEF StepSet, Read, Unlock
<1>4. /\ steps' \in [Goroutines -> Seq(StepSet)] /\ steps'[g] = Tail(steps[g])
      /\ \A h \in Goroutines \ {g} : steps'[h] = steps[h]
  BY <1>1 DEF IInv, Shape
<1>5. /\ Len(Tail(steps[g])) = Len(steps[g]) - 1 /\ Len(steps[g]) \in Nat \ {0}
      /\ \A i \in 1..Len(Tail(steps[g])) : Tail(steps[g])[i] = steps[g][i + 1]
      /\ Head(steps[g]) = steps[g][1]
  BY <1>1, HeadTailProperties, EmptySeq
<1>6. report' = [c \in Callers |->
                    IF c # g THEN report[c]
                    ELSE [f \in DOMAIN report[c] \cup {field} |->
                             IF f # field THEN report[c][f] ELSE value]]
  BY DEF IInv, Shape
<1>7. "lastError" \notin Counters
  BY DEF Counters
<1>8. ASSUME NEW c \in Callers, c # g
      PROVE  report'[c] = report[c] /\ steps'[c] = steps[c]
  BY <1>4, <1>6, <1>8 DEF Goroutines
<1>9. ASSUME g \in Callers
      PROVE  /\ DOMAIN report'[g] = DOMAIN report[g] \cup {field}
             /\ report'[g][field] = value
             /\ \A f \in DOMAIN report[g] \ {field} :
                   report'[g][f] = report[g][f]
  BY <1>6, <1>9
<1>10. ASSUME g \in Callers
       PROVE  /\ field = "lastError" => DOMAIN report[g] = {}
              /\ field # "lastError" => "lastError" \in DOMAIN report[g]
  <2>1. ReadInOrder(steps[g], report[g])
    BY <1>10 DEF IInv, Caused
  <2>2. /\ 1 \in 1..Len(steps[g]) /\ steps[g][1].do = "read"
        /\ steps[g][1].field = field
    BY <1>5
  <2>3. field # "lastError" => steps[g][1] # Read("lastError")
    BY <1>3, <1>5 DEF Read
  <2> QED  BY <2>1, <2>2, <2>3 DEF ReadInOrder
<1> HIDE DEF field, value
<1>11. Shape'
  <2>1. report' = [c \in Callers |-> report'[c]]
    BY <1>6
  <2>2. ASSUME NEW c \in Callers
        PROVE  DOMAIN report'[c] \subseteq Counters \cup {"lastError"}
    <3>1. DOMAIN report[c] \subseteq Counters \cup {"lastError"}
      BY DEF IInv, Shape, TypeOK
    <3>2. CASE c # g
      BY <1>8, <3>1, <3>2
    <3>3. CASE c = g
      BY <1>3, <1>9, <3>1, <3>3
    <3> QED  BY <3>2, <3>3
  <2> QED  BY <1>4, <2>1, <2>2 DEF IInv, Shape, TypeOK, dataVars
<1>12. MutexHeld'
  <2>1. mu # g
    BY <1>3, NextStepFacts
  <2> QED  BY <1>4, <2>1 DEF IInv, MutexHeld
<1>13. Caused'
  <2>1. \A h \in Goroutines : Announced(steps'[h], counters)
    BY <1>2, <1>4, TailIsCaused DEF IInv, Caused
  <2>2. ASSUME NEW c \in Callers
        PROVE  /\ ReadInOrder(steps'[c], report'[c])
               /\ ReportHasCause(report'[c], counters) /\ DueIsShown(c)'
    <3>1. /\ ReadInOrder(steps[c], report[c]) /\ c \in Goroutines
          /\ ReportHasCause(report[c], counters) /\ DueIsShown(c)
      BY DEF IInv, Caused, Goroutines
    <3>2. CASE c # g
      BY <1>8, <3>1, <3>2 DEF DueIsShown
    <3>3. CASE c = g
      <4>1. "lastError" \in DOMAIN report'[g]
        BY <1>9, <1>10, <3>3
      <4>2. ReadInOrder(steps'[g], report'[g])
        <5>1. ASSUME NEW i \in 1..Len(Tail(steps[g])),
                     Tail(steps[g])[i].do = "read"
              PROVE  Tail(steps[g])[i].field # "lastError"
          <6>1. i + 1 \in 1..Len(steps[g]) /\ i + 1 # 1
                /\ Tail(steps[g])[i] = steps[g][i + 1]
            BY <1>5
          <6> QED  BY <3>1, <3>3, <5>1, <6>1 DEF ReadInOrder
        <5> QED  BY <1>4, <4>1, <5>1 DEF ReadInOrder
      <4>3. ReportHasCause(report'[g], counters)
        <5>1. CASE field = "lastError"
          <6>1. DOMAIN report'[g] = {"lastError"}
                /\ report'[g]["lastError"] = lastError
            BY <1>9, <1>10, <3>3, <5>1 DEF value
          <6>2. lastError # None => \A k \in Needs(lastError) : counters[k] > 0
            BY DEF IInv, Caused
          <6>3. \A k \in Needs(lastError) : k \notin DOMAIN report'[g]
            BY <1>7, <6>1, CountersNeeded
          <6>4. DOMAIN report'[g] \cap Counters = {}
            BY <1>7, <6>1
          <6> QED  BY <6>1, <6>2, <6>3, <6>4 DEF ReportHasCause
        <5>2. CASE field # "lastError"
          <6>1. report'[g][field] = counters[field]
                /\ report'[g]["lastError"] = report[g]["lastError"]
                /\ "lastError" \in DOMAIN report[g]
            BY <1>9, <1>10, <3>3, <5>2 DEF value
          <6>2. \A k \in DOMAIN report'[g] :
                    k = field \/ (k \in DOMAIN report[g]
                                  /\ report'[g][k] = report[g][k])
            BY <1>9, <3>3
          <6>3. ReportHasCause(report[g], counters)
            BY <3>1, <3>3
          <6> QED  BY <6>1, <6>2, <6>3 DEF ReportHasCause
        <5> QED  BY <5>1, <5>2
      <4>4. DueIsShown(g)'
        <5>1. CASE field = "lastError"
          <6>1. DOMAIN report'[g] = {"lastError"}
                /\ report'[g]["lastError"] = lastError
            BY <1>9, <1>10, <3>3, <5>1 DEF value
          <6>2. {"dropped", "failedBatches", "rejected"} \subseteq Counters
            BY DEF Counters
          <6> QED  BY <1>7, <3>1, <3>3, <6>1, <6>2 DEF DueIsShown
        <5>2. CASE field # "lastError"
          <6>1. report'[g][field] = counters[field]
                /\ report'[g]["lastError"] = report[g]["lastError"]
                /\ "lastError" \in DOMAIN report[g]
            BY <1>9, <1>10, <3>3, <5>2 DEF value
          <6>2. \A k \in DOMAIN report'[g] :
                    k = field \/ (k \in DOMAIN report[g]
                                  /\ report'[g][k] = report[g][k])
            BY <1>9, <3>3
          <6> QED  BY <3>1, <3>3, <6>1, <6>2 DEF DueIsShown
        <5> QED  BY <5>1, <5>2
      <4> QED  BY <3>3, <4>2, <4>3, <4>4
    <3> QED  BY <3>2, <3>3
  <2>3. ToldHasCause'
    BY <1>1, <1>4 DEF IInv, Caused, ToldHasCause
  <2> QED  BY <2>1, <2>2, <2>3 DEF IInv, Caused
<1> QED  BY <1>11, <1>12, <1>13 DEF IInv

LEMMA HealthIInv ==
    ASSUME IInv, NEW c \in Callers, Health(c)
    PROVE  IInv'
<1> USE DEF Health, Calls, At, Go
<1>1. c \in Goroutines
  BY DEF Goroutines
<1>2. /\ steps' \in [Goroutines -> Seq(StepSet)] /\ steps'[c] = Snapshot
      /\ \A h \in Goroutines \ {c} : steps'[h] = steps[h]
      /\ steps[c] = <<>>
  BY <1>1, SnapshotList DEF IInv, Shape
<1>3. /\ report' = [d \in Callers |-> IF d = c THEN <<>> ELSE report[d]]
      /\ due' \in [Callers -> BOOLEAN]
      /\ due'[c] = (\E h \in FailureHooks : told[h] > 0)
      /\ \A d \in Callers \ {c} : due'[d] = due[d]
  BY DEF IInv, Shape, TypeOK
<1>4. Shape'
  <2>1. /\ report' = [d \in Callers |-> report'[d]]
        /\ \A d \in Callers : DOMAIN report'[d] \subseteq Counters \cup {"lastError"}
    BY <1>3, EmptyList DEF IInv, Shape, TypeOK
  <2>2. pc' \in [Goroutines -> {"idle", "seal", "push", "post"}]
    BY DEF IInv, Shape, TypeOK
  <2> QED  BY <1>2, <1>3, <2>1, <2>2 DEF IInv, Shape, TypeOK
<1>5. MutexHeld'
  BY <1>2 DEF IInv, MutexHeld
<1>6. Caused'
  <2>1. \A h \in Goroutines : Announced(steps'[h], counters)
    <3>1. Announced(Snapshot, counters)
      BY SnapshotList DEF Ordered, Announced
    <3> QED  BY <1>2, <3>1 DEF IInv, Caused
  <2>2. \A d \in Callers : /\ ReadInOrder(steps'[d], report'[d])
                           /\ ReportHasCause(report'[d], counters)
    <3>1. ReportHasCause(<<>>, counters)
      BY EmptyList DEF ReportHasCause
    <3> QED  BY <1>2, <1>3, <3>1, SnapshotList DEF IInv, Caused, Goroutines
  <2>3. DueIsShown(c)'
    <3>1. DOMAIN report'[c] = {}
      BY <1>3, EmptyList
    <3>2. ASSUME due'[c]
          PROVE  \/ lastError # None
                 \/ \E k \in {"dropped", "failedBatches", "rejected"} :
                        counters[k] > 0
      <4>1. PICK h \in FailureHooks : told[h] > 0
        BY <1>3, <3>2
      <4>2. /\ Causes("dropped") = {"dropped"}
            /\ Causes("batchFailed") = {"failedBatches"}
            /\ Causes("rejected") = {"rejected"}
        BY DEF Causes
      <4>3. h \in {"dropped", "batchFailed", "rejected", "errorChanged"}
        BY DEF FailureHooks, Hooks
      <4>4. ToldHasCause /\ h \in Hooks
        BY DEF IInv, Caused, FailureHooks
      <4> QED  BY <4>1, <4>2, <4>3, <4>4 DEF ToldHasCause
    <3> QED  BY <3>1, <3>2 DEF DueIsShown
  <2>4. \A d \in Callers \ {c} : DueIsShown(d)'
    BY <1>3 DEF IInv, Caused, DueIsShown
  <2>5. ToldHasCause'
    <3>1. ToldHasCause
      BY DEF IInv, Caused
    <3>2. \A h \in Goroutines : \A i \in 1..Len(steps'[h]) :
              steps'[h][i] = Tell("errorChanged") => lastError # None
      <4> SUFFICES ASSUME NEW h \in Goroutines, NEW i \in 1..Len(steps'[h]),
                          steps'[h][i] = Tell("errorChanged")
                   PROVE  lastError # None
        OBVIOUS
      <4>1. h # c
        BY <1>2, SnapshotList
      <4> QED  BY <1>2, <3>1, <4>1 DEF ToldHasCause
    <3> QED  BY <3>1, <3>2 DEF ToldHasCause
  <2> QED  BY <2>1, <2>2, <2>3, <2>4, <2>5 DEF IInv, Caused
<1> QED  BY <1>4, <1>5, <1>6 DEF IInv

\* Begin, Seal, Push, SendSync and SendBatch put a list in place; ReadBody and
\* Close touch nothing the invariant speaks of.
LEMMA CallDecides ==
    ASSUME IInv, NEW c \in Callers,
           Begin(c) \/ Seal(c) \/ Push(c) \/ SendSync(c)
    PROVE  Decides(c)
<1>2. buffered \in 0..BufferSize /\ closed \in BOOLEAN
  BY DEF IInv, Shape, TypeOK
<1>3. CASE Begin(c)
  <2>1. steps[c] = <<>> /\ UNCHANGED <<statVars, buffered, closed>>
    BY <1>3 DEF Begin, Calls, At
  <2>2. PICK list : /\ Fit(list)
                    /\ Go(c, list, "idle") \/ Go(c, list, "seal")
    <3>1. CASE Go(c, DropUnread, "idle")
      <4>1. "tamper" \in DropErrors
        BY DEF DropErrors
      <4> QED  BY <3>1, <4>1, DropLists
    <3>2. CASE \E limited \in Limited(c) :
                  LimitError(limited) # "ok"
                  /\ Go(c, DropFor(LimitError(limited)), "idle")
      <4>1. PICK limited \in Limited(c) :
                  LimitError(limited) # "ok"
                  /\ Go(c, DropFor(LimitError(limited)), "idle")
        BY <3>2
      <4>2. LimitError(limited) \in DropErrors
        BY <4>1, SizeErrors
      <4>3. Fit(DropFor(LimitError(limited)))
        BY <4>2, DropLists
      <4> QED  BY <4>1, <4>3
    <3>3. CASE Go(c, Truncation, "seal") \/ Go(c, <<>>, "seal")
      <4>1. "tamper" \in DropErrors
        BY DEF DropErrors
      <4> QED  BY <3>3, <4>1, DropLists
    <3> QED  BY <1>3, <3>1, <3>2, <3>3 DEF Begin
  <2> QED  BY <1>2, <2>1, <2>2 DEF Decides
<1>4. CASE Seal(c)
  <2>1. steps[c] = <<>> /\ UNCHANGED <<statVars, buffered, closed>>
    BY <1>4 DEF Seal, At
  <2>2. \E list, decision :
           /\ Fit(list) /\ Go(c, list, decision)
           /\ decision \in {"idle", "post", "push"}
    <3> DEFINE verdict == Validate(Sealed(event[c].now))
    <3>1. "tamper" \in DropErrors
      BY DEF DropErrors
    <3>2. verdict # "ok" => verdict \in DropErrors
      BY CheckErrors
    <3> HIDE DEF verdict
    <3>3. \/ Go(c, <<>>, IF event[c].sync THEN "post" ELSE "push")
          \/ verdict # "ok" /\ Go(c, DropFor(verdict), "idle")
          \/ Go(c, DropFor("tamper"), "idle")
      BY <1>4 DEF Seal, verdict
    <3>4. CASE Go(c, <<>>, IF event[c].sync THEN "post" ELSE "push")
      BY <3>4, EmptyList
    <3>5. CASE verdict # "ok" /\ Go(c, DropFor(verdict), "idle")
      <4>1. Fit(DropFor(verdict))
        BY <3>2, <3>5, DropLists
      <4> QED  BY <3>5, <4>1
    <3>6. CASE Go(c, DropFor("tamper"), "idle")
      <4>1. Fit(DropFor("tamper"))
        BY <3>1, DropLists
      <4> QED  BY <3>6, <4>1
    <3> QED  BY <3>3, <3>4, <3>5, <3>6
  <2> QED  BY <1>2, <2>1, <2>2 DEF Decides
<1>5. CASE Push(c)
  <2>1. steps[c] = <<>> /\ UNCHANGED <<statVars, closed>>
    BY <1>5 DEF Push, At
  <2>2. buffered' \in 0..BufferSize
    BY <1>2, <1>5, ReportingAssumption DEF Push
  <2>3. "tamper" \in DropErrors
    BY DEF DropErrors
  <2>4. PICK list : Fit(list) /\ Go(c, list, "idle")
    BY <1>5, <2>3, DropLists DEF Push
  <2> QED  BY <1>2, <2>1, <2>2, <2>4 DEF Decides
<1>6. CASE SendSync(c)
  <2>1. steps[c] = <<>> /\ UNCHANGED <<statVars, buffered, closed>>
    BY <1>6 DEF SendSync, At, dataVars
  <2>2. PICK list : Fit(list) /\ Go(c, list, "idle")
    <3>1. 1 \in 1..BatchSize
      BY ReportingAssumption
    <3>2. CASE Go(c, BatchFailure(1), "idle")
      BY <3>1, <3>2, FailureList
    <3>3. CASE \E duplicated, rejected \in 0..1 :
                  /\ duplicated + rejected <= 1
                  /\ Go(c, BatchAnswer(1, duplicated, rejected, TRUE), "idle")
      BY <3>1, <3>3, AnswerList
    <3> QED  BY <1>6, <3>2, <3>3 DEF SendSync, Outcome
  <2> QED  BY <1>2, <2>1, <2>2 DEF Decides
<1> QED  BY <1>3, <1>4, <1>5, <1>6

LEMMA BatchDecides ==
    ASSUME IInv, SendBatch
    PROVE  Decides(Worker)
<1> DEFINE n == IF buffered < BatchSize THEN buffered ELSE BatchSize
<1>1. /\ n \in 1..BatchSize /\ buffered' \in 0..BufferSize
      /\ Worker \in Goroutines /\ steps[Worker] = <<>>
      /\ UNCHANGED <<statVars, closed>> /\ closed \in BOOLEAN
      /\ Outcome(Worker, n, FALSE)
  <2>1. buffered \in 0..BufferSize /\ closed \in BOOLEAN
    BY DEF IInv, Shape, TypeOK
  <2>2. /\ steps[Worker] = <<>> /\ buffered > 0 /\ buffered' = buffered - n
        /\ UNCHANGED <<statVars, closed>> /\ Outcome(Worker, n, FALSE)
    BY DEF SendBatch, At
  <2>3. n \in 1..BatchSize /\ buffered' \in 0..BufferSize
    BY <2>1, <2>2, ReportingAssumption
  <2> QED  BY <2>1, <2>2, <2>3 DEF Goroutines
<1> HIDE DEF n
<1>2. PICK list : Fit(list) /\ Go(Worker, list, "idle")
  <2>1. CASE Go(Worker, BatchFailure(n), "idle")
    BY <1>1, <2>1, FailureList
  <2>2. CASE \E duplicated, rejected \in 0..n :
                /\ duplicated + rejected <= n
                /\ Go(Worker, BatchAnswer(n, duplicated, rejected, FALSE), "idle")
    BY <1>1, <2>2, AnswerList
  <2> QED  BY <1>1, <2>1, <2>2 DEF Outcome
<1> QED  BY <1>1, <1>2 DEF Decides

LEMMA NextIInv == IInv /\ [Next]_vars => IInv'
<1> SUFFICES ASSUME IInv, [Next]_vars  PROVE IInv'
  OBVIOUS
<1>1. ASSUME NEW g \in Goroutines, Step(g)  PROVE IInv'
  BY <1>1, AddIInv, SetErrorIInv, UnlockIInv, TellIInv, ReadIInv DEF Step
<1>2. ASSUME NEW c \in Callers, Begin(c) \/ Seal(c) \/ Push(c) \/ SendSync(c)
      PROVE  IInv'
  BY <1>2, CallDecides, DecisionIInv DEF Goroutines
<1>3. ASSUME NEW c \in Callers, ReadBody(c) \/ Close(c)  PROVE IInv'
  <2>1. /\ UNCHANGED <<statVars, pc, steps, buffered>>
        /\ closed' \in BOOLEAN
    BY <1>3 DEF ReadBody, Close, IInv, Shape, TypeOK
  <2> USE DEF statVars
  <2>2. Shape' /\ MutexHeld'
    BY <2>1 DEF IInv, Shape, TypeOK, MutexHeld
  <2>3. ToldHasCause' /\ \A d \in Callers : DueIsShown(d)'
    BY <2>1 DEF IInv, Caused, ToldHasCause, DueIsShown
  <2>4. Caused'
    BY <2>1, <2>3 DEF IInv, Caused
  <2> QED  BY <2>2, <2>4 DEF IInv
<1>4. CASE UNCHANGED vars
  BY <1>4 DEF vars, IInv, Shape, TypeOK, MutexHeld, Caused, ToldHasCause,
              DueIsShown
<1>5. ASSUME SendBatch  PROVE IInv'
  BY <1>5, BatchDecides, DecisionIInv DEF Goroutines
<1> QED  BY <1>1, <1>2, <1>3, <1>4, <1>5, HealthIInv DEF Next, Stopped

LEMMA Invariant == Spec => []IInv
BY InitIInv, NextIInv, PTL DEF Spec

-----------------------------------------------------------------------------
(* Events and their batches.  A writer counts the batch and then its events, *)
(* and a snapshot reads the events and then the batches.  In between the     *)
(* batch has events still to be counted: who is about to count them owes     *)
(* them, up to BatchSize for each batch.                                     *)

Owing(k) == {g \in Goroutines : steps[g] # <<>> /\ Adds(Head(steps[g]), k)}
Covered(k) ==
    /\ IsFiniteSet(Owing(k))
    /\ counters[k] + BatchSize * Cardinality(Owing(k))
          <= BatchSize * counters[BatchOf(k)]

\* As InBatches, for what is left of a list: the batch of its first step may
\* have been counted.
AfterBatch(list) ==
    \A i \in 1..Len(list), k \in EventCounters : Adds(list[i], k) =>
        list[i].n <= BatchSize /\ (i > 1 => list[i - 1] = Add(BatchOf(k), 1))

ReadsEventsFirst(list, read) ==
    \A i \in 1..Len(list), k \in EventCounters : list[i] = Read(k) =>
        /\ BatchOf(k) \notin DOMAIN read
        /\ \A j \in 1..i - 1 : list[j] # Read(BatchOf(k))
ReportWithin(read, cs) ==
    /\ \A f \in DOMAIN read \cap Counters : read[f] \in Nat
    /\ \A k \in EventCounters \cap DOMAIN read :
          /\ read[k] <= BatchSize * cs[BatchOf(k)]
          /\ BatchOf(k) \in DOMAIN read =>
                read[k] <= BatchSize * read[BatchOf(k)]

Batched ==
    /\ \A g \in Goroutines : AfterBatch(steps[g])
    /\ \A k \in EventCounters : Covered(k)
    /\ \A c \in Callers : /\ ReadsEventsFirst(steps[c], report[c])
                          /\ ReportWithin(report[c], counters)

LEMMA BatchCounters ==
    /\ EventCounters \subseteq Counters
    /\ \A k \in EventCounters : /\ BatchOf(k) \in Counters \ EventCounters
                                /\ \A h \in EventCounters :
                                      BatchOf(h) = BatchOf(k) => h = k
BY DEF EventCounters, BatchOf, Counters

LEMMA Scaled ==
    ASSUME NEW m \in Nat, NEW n \in Nat
    PROVE  /\ BatchSize \in Nat /\ BatchSize * m \in Nat
           /\ BatchSize * (m + 1) = BatchSize * m + BatchSize
           /\ m <= n => BatchSize * m <= BatchSize * n
<1>1. BatchSize \in Nat
  BY ReportingAssumption
<1>2. BatchSize * m \in Nat /\ BatchSize * n \in Nat
  BY <1>1
<1>3. BatchSize * (m + 1) = BatchSize * m + BatchSize
  BY <1>1
<1>4. ASSUME m <= n  PROVE BatchSize * m <= BatchSize * n
  <2>1. n - m \in Nat /\ n = m + (n - m)
    BY <1>4
  <2>2. BatchSize * (n - m) \in Nat
    BY <1>1, <2>1
  <2>3. BatchSize * n = BatchSize * m + BatchSize * (n - m)
    BY <1>1, <2>1
  <2> QED  BY <1>2, <2>2, <2>3
<1> QED  BY <1>1, <1>2, <1>3, <1>4

\* Who owes events when the list of g changes.
LEMMA OwingChange ==
    ASSUME NEW g \in Goroutines, NEW k \in EventCounters,
           \A h \in Goroutines \ {g} : steps'[h] = steps[h]
    PROVE  /\ (steps[g] # <<>> /\ Adds(Head(steps[g]), k)
                  <=> steps'[g] # <<>> /\ Adds(Head(steps'[g]), k)) =>
                 Owing(k)' = Owing(k)
           /\ ~(steps'[g] # <<>> /\ Adds(Head(steps'[g]), k)) =>
                 Owing(k)' = Owing(k) \ {g}
           /\ steps'[g] # <<>> /\ Adds(Head(steps'[g]), k) =>
                 Owing(k)' = Owing(k) \cup {g}
BY DEF Owing

\* A step that is no batch's and no event's leaves what is owed as it is.
LEMMA StillCovered ==
    ASSUME NEW k \in EventCounters, Covered(k), IInv, IInv',
           Owing(k)' = Owing(k), counters'[k] = counters[k],
           counters'[BatchOf(k)] >= counters[BatchOf(k)]
    PROVE  Covered(k)'
<1>1. /\ counters[k] \in Nat /\ counters[BatchOf(k)] \in Nat
      /\ counters'[BatchOf(k)] \in Nat
  BY BatchCounters DEF IInv, Shape, TypeOK
<1>2. Cardinality(Owing(k)) \in Nat
  BY FS_CardinalityType DEF Covered
<1>3. BatchSize * counters[BatchOf(k)] <= BatchSize * counters'[BatchOf(k)]
  BY <1>1, Scaled
<1>4. /\ BatchSize * counters[BatchOf(k)] \in Nat
      /\ BatchSize * counters'[BatchOf(k)] \in Nat
      /\ BatchSize * Cardinality(Owing(k)) \in Nat
  BY <1>1, <1>2, Scaled
<1>5. counters'[k] + BatchSize * Cardinality(Owing(k))
          <= BatchSize * counters'[BatchOf(k)]
  <2>1. counters[k] + BatchSize * Cardinality(Owing(k))
            <= BatchSize * counters[BatchOf(k)]
    BY DEF Covered
  <2> QED  BY <1>1, <1>3, <1>4, <2>1
<1> QED  BY <1>5 DEF Covered

\* What is left of a list when its first step has been taken.
LEMMA LeftInOrder ==
    ASSUME NEW list \in Seq(StepSet), list # <<>>, NEW read
    PROVE  /\ AfterBatch(list) => AfterBatch(Tail(list))
           /\ ReadsEventsFirst(list, read) => ReadsEventsFirst(Tail(list), read)
           /\ AfterBatch(list) /\ Tail(list) # <<>> =>
                 \A k \in EventCounters : Adds(Head(Tail(list)), k) =>
                     Head(list) = Add(BatchOf(k), 1)
<1>1. /\ Tail(list) \in Seq(StepSet) /\ Len(Tail(list)) = Len(list) - 1
      /\ \A i \in 1..Len(Tail(list)) : Tail(list)[i] = list[i + 1]
      /\ Head(list) = list[1] /\ Len(list) \in Nat \ {0}
  BY HeadTailProperties, EmptySeq
<1>2. \A i \in 1..Len(Tail(list)) : i + 1 \in 1..Len(list) /\ i + 1 > 1
                                    /\ i + 1 - 1 = i
  BY <1>1
<1>3. ASSUME AfterBatch(list)  PROVE AfterBatch(Tail(list))
  <2> SUFFICES ASSUME NEW i \in 1..Len(Tail(list)), NEW k \in EventCounters,
                      Adds(Tail(list)[i], k)
               PROVE  /\ Tail(list)[i].n <= BatchSize
                      /\ i > 1 => Tail(list)[i - 1] = Add(BatchOf(k), 1)
    BY DEF AfterBatch
  <2>1. list[i + 1].n <= BatchSize /\ list[i] = Add(BatchOf(k), 1)
        /\ Tail(list)[i] = list[i + 1]
    BY <1>1, <1>2, <1>3 DEF AfterBatch
  <2>2. i > 1 => i - 1 \in 1..Len(Tail(list)) /\ i - 1 + 1 = i
    BY <1>1
  <2> QED  BY <1>1, <2>1, <2>2
<1>4. ASSUME ReadsEventsFirst(list, read)
      PROVE  ReadsEventsFirst(Tail(list), read)
  <2> SUFFICES ASSUME NEW i \in 1..Len(Tail(list)), NEW k \in EventCounters,
                      Tail(list)[i] = Read(k)
               PROVE  /\ BatchOf(k) \notin DOMAIN read
                      /\ \A j \in 1..i - 1 : Tail(list)[j] # Read(BatchOf(k))
    BY DEF ReadsEventsFirst
  <2>1. /\ BatchOf(k) \notin DOMAIN read
        /\ \A j \in 1..i : list[j] # Read(BatchOf(k))
    BY <1>1, <1>2, <1>4 DEF ReadsEventsFirst
  <2>2. \A j \in 1..i - 1 : j \in 1..Len(Tail(list)) /\ j + 1 \in 1..i
    BY <1>1
  <2> QED  BY <1>1, <2>1, <2>2
<1>5. ASSUME AfterBatch(list), Tail(list) # <<>>, NEW k \in EventCounters,
             Adds(Head(Tail(list)), k)
      PROVE  Head(list) = Add(BatchOf(k), 1)
  <2>1. 1 \in 1..Len(Tail(list)) /\ Head(Tail(list)) = Tail(list)[1]
    BY <1>1, <1>5
  <2>2. 2 \in 1..Len(list) /\ Tail(list)[1] = list[2] /\ 2 > 1 /\ 2 - 1 = 1
    BY <1>1, <2>1
  <2> QED  BY <1>1, <1>5, <2>1, <2>2 DEF AfterBatch
<1> QED  BY <1>3, <1>4, <1>5

\* A step that adds nothing, or a decision: the list of g, and what its
\* snapshot has read, stay in order.
LEMMA NothingAdded ==
    ASSUME IInv, IInv', Batched, NEW g \in Goroutines,
           \A h \in Goroutines \ {g} : steps'[h] = steps[h],
           \A k \in EventCounters :
               /\ ~(steps[g] # <<>> /\ Adds(Head(steps[g]), k))
               /\ ~(steps'[g] # <<>> /\ Adds(Head(steps'[g]), k)),
           counters' = counters, AfterBatch(steps'[g]),
           \A c \in Callers \ {g} : report'[c] = report[c],
           g \in Callers => /\ ReadsEventsFirst(steps'[g], report'[g])
                            /\ ReportWithin(report'[g], counters)
    PROVE  Batched'
<1>1. \A h \in Goroutines : AfterBatch(steps'[h])
  BY DEF Batched
<1>2. ASSUME NEW k \in EventCounters  PROVE Covered(k)'
  <2>1. Owing(k)' = Owing(k)
    BY OwingChange
  <2>2. counters[BatchOf(k)] \in Nat
    BY BatchCounters DEF IInv, Shape, TypeOK
  <2> QED  BY <2>1, <2>2, StillCovered DEF Batched
<1>3. \A c \in Callers : /\ ReadsEventsFirst(steps'[c], report'[c])
                         /\ ReportWithin(report'[c], counters')
  BY DEF Batched, Goroutines
<1> QED  BY <1>1, <1>2, <1>3 DEF Batched

LEMMA DecisionBatched ==
    ASSUME IInv, IInv', Batched, NEW g \in Goroutines, Decides(g)
    PROVE  Batched'
<1> PICK list, decision :
       /\ decision \in {"idle", "seal", "push", "post"}
       /\ Go(g, list, decision) /\ Fit(list)
  BY DEF Decides
<1>1. /\ steps'[g] = list /\ steps[g] = <<>> /\ UNCHANGED statVars
      /\ \A h \in Goroutines \ {g} : steps'[h] = steps[h]
  BY DEF Decides, Go, IInv, Shape
<1>2. list \in Seq(StepSet) /\ AfterBatch(list)
  BY DEF Fit, Plain, InBatches, AfterBatch
<1>3. ASSUME NEW k \in EventCounters, list # <<>>  PROVE ~Adds(Head(list), k)
  <2>1. 1 \in 1..Len(list) /\ Head(list) = list[1]
    BY <1>2, <1>3, EmptySeq, LenProperties
  <2> QED  BY <2>1 DEF Fit, InBatches
<1>4. \A read : ReadsEventsFirst(list, read)
  BY DEF Fit, Plain, ReadsEventsFirst, Read
<1>5. g \in Callers => ReportWithin(report[g], counters)
  BY DEF Batched
<1> QED  BY <1>1, <1>2, <1>3, <1>4, <1>5, NothingAdded DEF statVars

\* Unlock, a hook and a read leave the rest of the list.
LEMMA TailBatched ==
    ASSUME IInv, Batched, NEW g \in Goroutines, steps[g] # <<>>,
           Head(steps[g]).do # "add"
    PROVE  /\ AfterBatch(Tail(steps[g]))
           /\ \A k \in EventCounters :
                 Tail(steps[g]) # <<>> => ~Adds(Head(Tail(steps[g])), k)
           /\ g \in Callers => /\ ReadsEventsFirst(Tail(steps[g]), report[g])
                               /\ ReportWithin(report[g], counters)
<1>1. steps[g] \in Seq(StepSet) /\ AfterBatch(steps[g])
  BY DEF IInv, Shape, Batched
<1>2. \A k, n : Head(steps[g]) # Add(k, n)
  BY DEF Add
<1> QED  BY <1>1, <1>2, LeftInOrder DEF Batched

LEMMA QuietBatched ==
    ASSUME IInv, IInv', Batched, NEW g \in Goroutines,
           UnlockStep(g) \/ TellStep(g)
    PROVE  Batched'
<1>1. /\ steps[g] # <<>> /\ Head(steps[g]).do # "add"
      /\ steps'[g] = Tail(steps[g]) /\ UNCHANGED <<counters, report>>
      /\ \A h \in Goroutines \ {g} : steps'[h] = steps[h]
  BY DEF UnlockStep, TellStep, Ready, Advance, IInv, Shape
<1> QED  BY <1>1, TailBatched, NothingAdded DEF Adds

LEMMA SetErrorBatched ==
    ASSUME IInv, IInv', Batched, NEW g \in Goroutines, SetErrorStep(g)
    PROVE  Batched'
<1> DEFINE changed == lastError # Head(steps[g]).error
           rest == Tail(steps[g])
           first == AfterStore(changed)
           list == first \o rest
<1>1. /\ steps[g] # <<>> /\ Head(steps[g]).do # "add"
      /\ steps'[g] = list /\ UNCHANGED <<counters, report>>
      /\ \A h \in Goroutines \ {g} : steps'[h] = steps[h]
  BY DEF SetErrorStep, Ready, IInv, Shape
<1>2. rest \in Seq(StepSet) /\ Announced(rest, counters)
  <2>1. \A k \in Counters : ~ (Head(steps[g]) \in Counting(k))
    BY <1>1 DEF Counting
  <2> QED  BY <1>1, <2>1, NextStepFacts, TailIsCaused
<1>3. /\ AfterBatch(rest)
      /\ \A k \in EventCounters : rest # <<>> => ~Adds(Head(rest), k)
      /\ g \in Callers => /\ ReadsEventsFirst(rest, report[g])
                          /\ ReportWithin(report[g], counters)
  BY <1>1, TailBatched
<1> HIDE DEF rest
<1>4. /\ list \in Seq(StepSet) /\ list # <<>> /\ Head(list) = Unlock
      /\ Len(first) \in Nat
      /\ \A i \in 1..Len(list) :
            IF i <= Len(first) THEN list[i].do \in {"unlock", "tell"}
            ELSE i - Len(first) \in 1..Len(rest) /\ list[i] = rest[i - Len(first)]
  <2> HIDE DEF changed
  <2>1. changed \in BOOLEAN
    BY DEF changed
  <2> QED  BY <1>2, <2>1, PutBefore
<1> HIDE DEF first, list
<1>5. AfterBatch(list)
  <2> SUFFICES ASSUME NEW i \in 1..Len(list), NEW k \in EventCounters,
                      Adds(list[i], k)
               PROVE  /\ list[i].n <= BatchSize
                      /\ i > 1 => list[i - 1] = Add(BatchOf(k), 1)
    BY DEF AfterBatch
  <2> DEFINE m == i - Len(first)
  <2>1. ~ (i <= Len(first)) /\ m \in 1..Len(rest) /\ list[i] = rest[m]
    BY <1>4 DEF Adds
  <2>2. m # 1
    <3>1. ASSUME m = 1  PROVE rest # <<>> /\ Head(rest) = rest[1]
      BY <1>2, <2>1, <3>1
    <3> QED  BY <1>3, <2>1, <3>1
  <2>3. m > 1
    BY <1>4, <2>1, <2>2
  <2>4. rest[m].n <= BatchSize /\ rest[m - 1] = Add(BatchOf(k), 1)
    BY <1>3, <2>1, <2>3 DEF AfterBatch
  <2>5. i - 1 \in 1..Len(list) /\ ~(i - 1 <= Len(first))
        /\ i - 1 - Len(first) = m - 1
    BY <1>4, <2>1, <2>3
  <2> QED  BY <1>4, <2>1, <2>4, <2>5
<1>6. ASSUME g \in Callers  PROVE ReadsEventsFirst(list, report[g])
  <2> SUFFICES ASSUME NEW i \in 1..Len(list), NEW k \in EventCounters,
                      list[i] = Read(k)
               PROVE  /\ BatchOf(k) \notin DOMAIN report[g]
                      /\ \A j \in 1..i - 1 : list[j] # Read(BatchOf(k))
    BY DEF ReadsEventsFirst
  <2> DEFINE m == i - Len(first)
  <2>1. \A f : Read(f).do = "read"
    BY DEF Read
  <2>2. ~ (i <= Len(first)) /\ m \in 1..Len(rest) /\ rest[m] = Read(k)
    BY <1>4, <2>1
  <2>3. /\ BatchOf(k) \notin DOMAIN report[g]
        /\ \A j \in 1..m - 1 : rest[j] # Read(BatchOf(k))
    BY <1>3, <1>6, <2>2 DEF ReadsEventsFirst
  <2>4. ASSUME NEW j \in 1..i - 1  PROVE list[j] # Read(BatchOf(k))
    <3>1. j \in 1..Len(list)
      BY <1>4
    <3>2. CASE j <= Len(first)
      BY <1>4, <2>1, <3>1, <3>2
    <3>3. CASE ~ (j <= Len(first))
      <4>1. j - Len(first) \in 1..m - 1 /\ list[j] = rest[j - Len(first)]
        BY <1>4, <2>2, <3>1, <3>3
      <4> QED  BY <2>3, <4>1
    <3> QED  BY <3>2, <3>3
  <2> QED  BY <2>3, <2>4
<1>7. \A k \in EventCounters : /\ ~Adds(Head(list), k)
                               /\ ~Adds(Head(steps[g]), k)
  BY <1>1, <1>4 DEF Adds, Unlock
<1> QED  BY <1>1, <1>3, <1>5, <1>6, <1>7, NothingAdded

\* Counting a batch puts its events within what the batches hold; counting the
\* events takes them off what is owed.
LEMMA AddBatched ==
    ASSUME IInv, IInv', Batched, NEW g \in Goroutines, AddStep(g)
    PROVE  Batched'
<1> DEFINE step == Head(steps[g])
           raised == step.counter
<1>1. /\ steps[g] # <<>> /\ step.do = "add" /\ steps[g] \in Seq(StepSet)
      /\ steps'[g] = Tail(steps[g]) /\ report' = report
      /\ \A h \in Goroutines \ {g} : steps'[h] = steps[h]
  BY DEF AddStep, Ready, Advance, IInv, Shape, statVars
<1>2. raised \in Counters /\ step.n \in Nat
  <2>1. step \in StepSet
    BY <1>1, NextStepFacts
  <2> QED  BY <1>1, <2>1 DEF StepSet
<1>3. /\ counters \in [Counters -> Nat] /\ counters' \in [Counters -> Nat]
      /\ counters'[raised] = counters[raised] + step.n
      /\ \A k \in Counters \ {raised} : counters'[k] = counters[k]
  BY <1>2 DEF AddStep, IInv, Shape, TypeOK
<1>4. \A k \in Counters : counters'[k] >= counters[k]
  BY <1>2, <1>3
<1>5. /\ AfterBatch(Tail(steps[g]))
      /\ Tail(steps[g]) # <<>> =>
            \A k \in EventCounters : Adds(Head(Tail(steps[g])), k) =>
                step = Add(BatchOf(k), 1)
      /\ g \in Callers => ReadsEventsFirst(Tail(steps[g]), report[g])
  BY <1>1, LeftInOrder DEF Batched
<1>6. \A k \in EventCounters : Adds(step, k) <=> raised = k
  BY <1>1 DEF Adds
<1>7. raised \in EventCounters => step.n <= BatchSize
  <2>1. ASSUME raised \in EventCounters  PROVE step.n <= BatchSize
    <3>1. Adds(steps[g][1], raised) /\ steps[g][1] = step
          /\ 1 \in 1..Len(steps[g])
      BY <1>1, <1>6, <2>1, EmptySeq, LenProperties
    <3>2. AfterBatch(steps[g])
      BY DEF Batched
    <3> QED  BY <2>1, <3>1, <3>2 DEF AfterBatch
  <2> QED  BY <2>1
<1> HIDE DEF step, raised
<1>8. ASSUME NEW k \in EventCounters  PROVE Covered(k)'
  <2> DEFINE owes == steps'[g] # <<>> /\ Adds(Head(steps'[g]), k)
  <2>1. /\ IsFiniteSet(Owing(k)) /\ Cardinality(Owing(k)) \in Nat
        /\ counters[k] + BatchSize * Cardinality(Owing(k))
               <= BatchSize * counters[BatchOf(k)]
    BY FS_CardinalityType DEF Batched, Covered
  <2>2. k \in Counters /\ BatchOf(k) \in Counters /\ BatchOf(k) # k
    BY BatchCounters
  <2>3. /\ BatchSize * counters[BatchOf(k)] \in Nat
        /\ BatchSize * Cardinality(Owing(k)) \in Nat /\ BatchSize \in Nat
        /\ counters[k] \in Nat
    BY <1>3, <2>1, <2>2, Scaled
  <2>4. CASE raised = k
    <3>1. g \in Owing(k)
      BY <1>1, <1>6, <2>4 DEF Owing, step
    <3>2. Owing(k)' = Owing(k) \ {g}
      <4>1. step # Add(BatchOf(k), 1)
        BY <2>2, <2>4 DEF raised, Add
      <4>2. ~owes
        BY <1>1, <1>5, <4>1
      <4> QED  BY <1>1, <4>2, OwingChange
    <3>3. /\ IsFiniteSet(Owing(k) \ {g})
          /\ Cardinality(Owing(k) \ {g}) = Cardinality(Owing(k)) - 1
      BY <2>1, <3>1, FS_RemoveElement
    <3> DEFINE m == Cardinality(Owing(k) \ {g})
    <3>4. m \in Nat /\ Cardinality(Owing(k)) = m + 1
      BY <2>1, <3>3, FS_CardinalityType
    <3>5. BatchSize * (m + 1) = BatchSize * m + BatchSize
          /\ BatchSize * m \in Nat
      BY <3>4, Scaled
    <3>6. counters'[k] = counters[k] + step.n /\ step.n <= BatchSize
          /\ counters'[BatchOf(k)] = counters[BatchOf(k)]
      BY <1>3, <1>7, <2>2, <2>4
    <3> HIDE DEF m
    <3>7. counters'[k] + BatchSize * m <= BatchSize * counters[BatchOf(k)]
      <4>1. counters[k] + (BatchSize * m + BatchSize)
                <= BatchSize * counters[BatchOf(k)]
        BY <2>1, <3>4, <3>5
      <4> QED  BY <1>2, <2>3, <3>5, <3>6, <4>1
    <3> QED  BY <3>2, <3>3, <3>6, <3>7 DEF Covered, m
  <2>5. CASE raised # k /\ owes
    <3>1. /\ step = Add(BatchOf(k), 1) /\ raised = BatchOf(k) /\ step.n = 1
      <4>1. step = Add(BatchOf(k), 1)
        BY <1>1, <1>5, <2>5
      <4> QED  BY <4>1 DEF raised, Add
    <3>2. g \notin Owing(k) /\ Owing(k)' = Owing(k) \cup {g}
      <4>1. g \notin Owing(k)
        BY <1>6, <2>5 DEF Owing, step
      <4> QED  BY <1>1, <2>5, <4>1, OwingChange
    <3>3. /\ IsFiniteSet(Owing(k) \cup {g})
          /\ Cardinality(Owing(k) \cup {g}) = Cardinality(Owing(k)) + 1
      BY <2>1, <3>2, FS_AddElement
    <3>4. /\ counters'[k] = counters[k]
          /\ counters'[BatchOf(k)] = counters[BatchOf(k)] + 1
      BY <1>3, <2>2, <3>1
    <3>5. /\ BatchSize * (Cardinality(Owing(k)) + 1)
                = BatchSize * Cardinality(Owing(k)) + BatchSize
          /\ BatchSize * (counters[BatchOf(k)] + 1)
                = BatchSize * counters[BatchOf(k)] + BatchSize
      BY <1>3, <2>1, <2>2, Scaled
    <3>6. counters[k] + BatchSize * (Cardinality(Owing(k)) + 1)
              <= BatchSize * (counters[BatchOf(k)] + 1)
      BY <2>1, <2>3, <3>5
    <3> QED  BY <3>2, <3>3, <3>4, <3>6 DEF Covered
  <2>6. CASE raised # k /\ ~owes
    <3>1. Owing(k)' = Owing(k)
      BY <1>1, <1>6, <2>6, OwingChange DEF step
    <3>2. counters'[k] = counters[k]
      BY <1>3, <2>2, <2>6
    <3> QED  BY <1>4, <2>2, <3>1, <3>2, StillCovered DEF Batched
  <2> QED  BY <2>4, <2>5, <2>6
<1>9. ASSUME NEW c \in Callers
      PROVE  /\ ReadsEventsFirst(steps'[c], report'[c])
             /\ ReportWithin(report'[c], counters')
  <2>1. ReadsEventsFirst(steps[c], report[c])
        /\ ReportWithin(report[c], counters) /\ c \in Goroutines
    BY DEF Batched, Goroutines
  <2>2. ReadsEventsFirst(steps'[c], report[c])
    BY <1>1, <1>5, <2>1
  <2>3. ReportWithin(report[c], counters')
    <3> SUFFICES ASSUME NEW k \in EventCounters \cap DOMAIN report[c]
                 PROVE  report[c][k] <= BatchSize * counters'[BatchOf(k)]
      BY <2>1 DEF ReportWithin
    <3>1. /\ counters[BatchOf(k)] \in Nat /\ counters'[BatchOf(k)] \in Nat
          /\ counters[BatchOf(k)] <= counters'[BatchOf(k)]
          /\ k \in Counters
      BY <1>3, <1>4, BatchCounters
    <3>2. /\ BatchSize * counters[BatchOf(k)] <= BatchSize * counters'[BatchOf(k)]
          /\ BatchSize * counters[BatchOf(k)] \in Nat
          /\ BatchSize * counters'[BatchOf(k)] \in Nat
      BY <3>1, Scaled
    <3>3. report[c][k] <= BatchSize * counters[BatchOf(k)]
          /\ report[c][k] \in Nat
      BY <2>1, <3>1 DEF ReportWithin
    <3> QED  BY <3>2, <3>3
  <2> QED  BY <1>1, <2>2, <2>3
<1>10. \A h \in Goroutines : AfterBatch(steps'[h])
  BY <1>1, <1>5 DEF Batched
<1> QED  BY <1>8, <1>9, <1>10 DEF Batched

\* The events are read before the batches, which only grow in between.
LEMMA ReadBatched ==
    ASSUME IInv, IInv', Batched, NEW g \in Goroutines, ReadStep(g)
    PROVE  Batched'
<1> DEFINE field == Head(steps[g]).field
           value == IF field = "lastError" THEN lastError ELSE counters[field]
<1>1. /\ steps[g] # <<>> /\ Head(steps[g]).do = "read"
      /\ steps[g] \in Seq(StepSet)
      /\ steps'[g] = Tail(steps[g]) /\ counters' = counters
      /\ \A h \in Goroutines \ {g} : steps'[h] = steps[h]
  BY DEF ReadStep, Ready, Advance, IInv, Shape
<1>2. field \in Counters \cup {"lastError"} /\ Head(steps[g]) = Read(field)
  <2>1. Head(steps[g]) \in StepSet
    BY <1>1, NextStepFacts
  <2> QED  BY <1>1, <2>1 DEF StepSet, Read
<1>3. report' = [c \in Callers |->
                    IF c # g THEN report[c]
                    ELSE [f \in DOMAIN report[c] \cup {field} |->
                             IF f # field THEN report[c][f] ELSE value]]
  <2>1. /\ report = [c \in Callers |-> report[c]]
        /\ report' = [report EXCEPT ![g] =
              [f \in DOMAIN @ \cup {field} |->
                  IF f # field THEN @[f] ELSE value]]
    BY DEF ReadStep, IInv, Shape
  <2> HIDE DEF field, value
  <2> QED  BY <2>1
<1>4. \A c \in Callers \ {g} : report'[c] = report[c]
  BY <1>3
<1>5. ASSUME g \in Callers
      PROVE  /\ DOMAIN report'[g] = DOMAIN report[g] \cup {field}
             /\ report'[g][field] = value
             /\ \A f \in DOMAIN report[g] \ {field} :
                   report'[g][f] = report[g][f]
  BY <1>3, <1>5
<1>6. /\ AfterBatch(Tail(steps[g]))
      /\ \A k \in EventCounters :
            Tail(steps[g]) # <<>> => ~Adds(Head(Tail(steps[g])), k)
      /\ g \in Callers => /\ ReadsEventsFirst(Tail(steps[g]), report[g])
                          /\ ReportWithin(report[g], counters)
  BY <1>1, TailBatched
<1>7. \A k \in EventCounters : ~Adds(Head(steps[g]), k)
  BY <1>1 DEF Adds
<1>8. \A i \in 1..Len(Tail(steps[g])) :
          i + 1 \in 1..Len(steps[g]) /\ Tail(steps[g])[i] = steps[g][i + 1]
  BY <1>1, HeadTailProperties
<1>9. 1 \in 1..Len(steps[g]) /\ steps[g][1] = Read(field)
  BY <1>1, <1>2, EmptySeq, LenProperties
<1> HIDE DEF field, value
<1>10. ASSUME g \in Callers
       PROVE  ReadsEventsFirst(Tail(steps[g]), report'[g])
  <2> SUFFICES ASSUME NEW i \in 1..Len(Tail(steps[g])), NEW k \in EventCounters,
                      Tail(steps[g])[i] = Read(k)
               PROVE  BatchOf(k) # field
    BY <1>5, <1>6, <1>10 DEF ReadsEventsFirst
  <2>1. \A j \in 1..i + 1 - 1 : steps[g][j] # Read(BatchOf(k))
    BY <1>8, <1>10 DEF Batched, ReadsEventsFirst
  <2> QED  BY <1>9, <2>1
<1>11. ASSUME g \in Callers
       PROVE  ReportWithin(report'[g], counters)
  <2>1. ReportWithin(report[g], counters)
    BY <1>6, <1>11
  <2>2. counters \in [Counters -> Nat] /\ "lastError" \notin Counters
    BY DEF IInv, Shape, TypeOK, Counters
  <2>3. ASSUME NEW f \in DOMAIN report'[g] \cap Counters
        PROVE  report'[g][f] \in Nat
    BY <1>5, <1>11, <2>1, <2>2, <2>3 DEF ReportWithin, value
  <2>4. ASSUME NEW k \in EventCounters \cap DOMAIN report'[g]
        PROVE  /\ report'[g][k] <= BatchSize * counters[BatchOf(k)]
               /\ BatchOf(k) \in DOMAIN report'[g] =>
                     report'[g][k] <= BatchSize * report'[g][BatchOf(k)]
    <3>1. /\ k \in Counters /\ BatchOf(k) \in Counters /\ BatchOf(k) # k
      BY BatchCounters
    <3>2. CASE field = k
      <4>1. BatchOf(k) \notin DOMAIN report[g]
        BY <1>9, <1>11, <3>2 DEF Batched, ReadsEventsFirst
      <4>2. BatchOf(k) \notin DOMAIN report'[g]
        BY <1>5, <1>11, <3>1, <3>2, <4>1
      <4>3. report'[g][k] = counters[k]
        BY <1>5, <1>11, <2>2, <3>1, <3>2 DEF value
      <4>4. counters[k] + BatchSize * Cardinality(Owing(k))
                <= BatchSize * counters[BatchOf(k)]
            /\ Cardinality(Owing(k)) \in Nat
        BY FS_CardinalityType DEF Batched, Covered
      <4>5. BatchSize * Cardinality(Owing(k)) \in Nat /\ counters[k] \in Nat
            /\ BatchSize * counters[BatchOf(k)] \in Nat
        BY <2>2, <3>1, <4>4, Scaled
      <4>6. counters[k] <= BatchSize * counters[BatchOf(k)]
        BY <4>4, <4>5
      <4> QED  BY <4>2, <4>3, <4>6
    <3>3. CASE field # k
      <4>1. k \in DOMAIN report[g] /\ report'[g][k] = report[g][k]
            /\ report[g][k] <= BatchSize * counters[BatchOf(k)]
        BY <1>5, <1>11, <2>1, <3>3 DEF ReportWithin
      <4>2. CASE BatchOf(k) = field
        BY <1>5, <1>11, <2>2, <3>1, <4>1, <4>2 DEF value
      <4>3. CASE BatchOf(k) # field
        BY <1>5, <1>11, <2>1, <4>1, <4>3 DEF ReportWithin
      <4> QED  BY <4>2, <4>3
    <3> QED  BY <3>2, <3>3
  <2> QED  BY <2>3, <2>4 DEF ReportWithin
<1> QED  BY <1>1, <1>4, <1>6, <1>7, <1>10, <1>11, NothingAdded

\* The order of snapshot (stats.go:39-54).
LEMMA HealthBatched ==
    ASSUME IInv, IInv', Batched, NEW c \in Callers, Health(c)
    PROVE  Batched'
<1>1. /\ c \in Goroutines /\ steps[c] = <<>> /\ steps'[c] = Snapshot
      /\ counters' = counters /\ report'[c] = <<>>
      /\ \A d \in Callers \ {c} : report'[d] = report[d]
      /\ \A h \in Goroutines \ {c} : steps'[h] = steps[h]
  BY DEF Health, Calls, At, Go, Goroutines, IInv, Shape
<1>2. \A k, h : Read(k).do = "read" /\ (Read(k) = Read(h) => k = h)
  <2>1. \A k : Read(k).do = "read" /\ Read(k).field = k
    BY DEF Read
  <2> QED  BY <2>1
<1>3. /\ Len(Snapshot) = 11
      /\ Snapshot[1] = Read("lastError") /\ Snapshot[2] = Read("queued")
      /\ Snapshot[3] = Read("truncated") /\ Snapshot[4] = Read("dropped")
      /\ Snapshot[5] = Read("sentEvents") /\ Snapshot[6] = Read("sentBatches")
      /\ Snapshot[7] = Read("failedEvents")
      /\ Snapshot[8] = Read("failedBatches")
      /\ Snapshot[9] = Read("accepted") /\ Snapshot[10] = Read("duplicated")
      /\ Snapshot[11] = Read("rejected")
  BY DEF Snapshot
<1>4. \A i \in 1..11 : \E f : Snapshot[i] = Read(f)
  BY <1>3
<1>5. AfterBatch(Snapshot) /\ ~Adds(Head(Snapshot), "sentEvents")
      /\ \A k \in EventCounters : ~Adds(Head(Snapshot), k)
  <2>1. \A i \in 1..11 : Snapshot[i].do = "read"
    BY <1>2, <1>4
  <2>2. Head(Snapshot) = Snapshot[1]
    BY <1>3
  <2> QED  BY <1>3, <2>1, <2>2 DEF AfterBatch, Adds
<1>6. ReadsEventsFirst(Snapshot, <<>>) /\ ReportWithin(<<>>, counters)
  <2>1. ASSUME NEW i \in 1..11, NEW k \in EventCounters, Snapshot[i] = Read(k),
               NEW j \in 1..i - 1
        PROVE  Snapshot[j] # Read(BatchOf(k))
    <3>1. \/ i = 5 /\ k = "sentEvents"
          \/ i = 7 /\ k = "failedEvents"
      BY <1>2, <1>3, <2>1 DEF EventCounters
    <3>2. /\ k = "sentEvents" => BatchOf(k) = "sentBatches"
          /\ k = "failedEvents" => BatchOf(k) = "failedBatches"
      BY DEF BatchOf
    <3>3. j \in 1..6 /\ (i = 5 => j \in 1..4)
      BY <3>1
    <3> QED  BY <1>2, <1>3, <3>1, <3>2, <3>3
  <2>2. DOMAIN <<>> = {}
    OBVIOUS
  <2> QED  BY <1>3, <2>1, <2>2 DEF ReadsEventsFirst, ReportWithin
<1> QED  BY <1>1, <1>5, <1>6, NothingAdded

LEMMA NextBatched == IInv /\ IInv' /\ Batched /\ [Next]_vars => Batched'
<1> SUFFICES ASSUME IInv, IInv', Batched, [Next]_vars  PROVE Batched'
  OBVIOUS
<1>1. ASSUME NEW g \in Goroutines, Step(g)  PROVE Batched'
  BY <1>1, AddBatched, SetErrorBatched, QuietBatched, ReadBatched DEF Step
<1>2. ASSUME NEW c \in Callers, Begin(c) \/ Seal(c) \/ Push(c) \/ SendSync(c)
      PROVE  Batched'
  BY <1>2, CallDecides, DecisionBatched DEF Goroutines
<1>3. ASSUME SendBatch  PROVE Batched'
  BY <1>3, BatchDecides, DecisionBatched DEF Goroutines
<1>4. ASSUME UNCHANGED <<steps, counters, report>>  PROVE Batched'
  BY <1>4 DEF Batched, Covered, Owing
<1>5. ASSUME NEW c \in Callers, ReadBody(c) \/ Close(c)  PROVE Batched'
  BY <1>4, <1>5 DEF ReadBody, Close, statVars
<1>6. CASE UNCHANGED vars
  BY <1>4, <1>6 DEF vars
<1> QED  BY <1>1, <1>2, <1>3, <1>5, <1>6, HealthBatched DEF Next, Stopped

LEMMA InitBatched == Init => Batched
<1> SUFFICES ASSUME Init  PROVE Batched
  OBVIOUS
<1>1. /\ \A g \in Goroutines : steps[g] = <<>>
      /\ \A k \in Counters : counters[k] = 0
      /\ \A c \in Callers : report[c] = <<>>
  BY DEF Init
<1>2. AfterBatch(<<>>) /\ ReadsEventsFirst(<<>>, <<>>)
      /\ ReportWithin(<<>>, counters)
  BY DEF AfterBatch, ReadsEventsFirst, ReportWithin
<1>3. ASSUME NEW k \in EventCounters  PROVE Covered(k)
  <2>1. Owing(k) = {} /\ counters[k] = 0 /\ counters[BatchOf(k)] = 0
    BY <1>1, BatchCounters DEF Owing
  <2>2. BatchSize * 0 \in Nat
    BY Scaled
  <2> QED  BY <2>1, <2>2, FS_EmptySet DEF Covered
<1> QED  BY <1>1, <1>2, <1>3 DEF Batched, Goroutines

-----------------------------------------------------------------------------
(* The theorems                                                              *)

\* The counters stay natural numbers, the buffer within its size and the
\* mutex with a goroutine, whatever is called.
THEOREM TypeCorrect == Spec => []TypeOK
<1>1. IInv => TypeOK
  BY DEF IInv, Shape
<1> QED  BY <1>1, Invariant, PTL

\* client.go:543-554, stats.go:62-66: the mutex is released before a hook
\* runs, since whoever holds it has the unlocking as the next step.
THEOREM HooksRunOutsideTheMutex == Spec => []HooksOutsideTheMutex
<1>1. IInv => HooksOutsideTheMutex
  <2>1. Unlock.do = "unlock"
    BY DEF Unlock
  <2> QED  BY <2>1 DEF IInv, MutexHeld, HooksOutsideTheMutex, Ready
<1> QED  BY <1>1, Invariant, PTL

\* stats.go:39-54, client.go:102-103, 182-183, 343-352, 466-468: a counter is
\* raised before the error it belongs to is set, and read after it.
THEOREM EveryErrorIsCounted == Spec => []ErrorIsCounted
<1>1. IInv => ErrorIsCounted
  <2> SUFFICES ASSUME IInv, NEW c \in Callers, Done(c)
               PROVE  LET s == report[c]
                      IN  CASE s["lastError"] = None -> TRUE
                            [] s["lastError"] = "batch" ->
                                 s["failedBatches"] > 0 /\ s["failedEvents"] > 0
                            [] s["lastError"] = "rejected" ->
                                 s["rejected"] > 0 /\ s["sentEvents"] > 0
                            [] OTHER -> s["dropped"] > 0
    BY DEF ErrorIsCounted
  <2>1. /\ "lastError" \in DOMAIN report[c]
        /\ {"failedBatches", "failedEvents", "rejected", "sentEvents",
            "dropped"} \subseteq DOMAIN report[c]
    BY DEF Done, Counters
  <2>2. None # "batch" /\ None # "rejected"
    BY ReportingAssumption DEF Errors
  <2>3. report[c]["lastError"] # None =>
            \A k \in Needs(report[c]["lastError"]) :
                k \in DOMAIN report[c] => report[c][k] > 0
    BY <2>1 DEF IInv, Caused, ReportHasCause
  <2> QED  BY <2>1, <2>2, <2>3 DEF Needs
<1> QED  BY <1>1, Invariant, PTL

\* README.md:952, health.go:39-46: what a hook has told of is in the counters
\* or in the last error before, so that no later Health misses it.
THEOREM FailuresDegradeHealth == Spec => []FailureDegradesHealth
<1>1. IInv => FailureDegradesHealth
  <2> SUFFICES ASSUME IInv, NEW c \in Callers, Done(c)
               PROVE  /\ due[c] => HealthStatus(report[c]) = "degraded"
                      /\ HealthStatus(report[c]) = "degraded" =>
                             \/ lastError # None
                             \/ \E n \in {"dropped", "failedBatches", "rejected"} :
                                   counters[n] > 0
    BY DEF FailureDegradesHealth
  <2>1. /\ "lastError" \in DOMAIN report[c]
        /\ {"failedBatches", "failedEvents", "rejected", "dropped"}
              \subseteq DOMAIN report[c] \cap Counters
    BY DEF Done, Counters
  <2>2. ReportHasCause(report[c], counters) /\ DueIsShown(c)
    BY DEF IInv, Caused
  <2>3. due[c] => HealthStatus(report[c]) = "degraded"
    BY <2>1, <2>2 DEF DueIsShown, HealthStatus
  <2>4. ASSUME HealthStatus(report[c]) = "degraded"
        PROVE  \/ lastError # None
               \/ \E n \in {"dropped", "failedBatches", "rejected"} :
                      counters[n] > 0
    <3>1. \A k \in {"failedBatches", "failedEvents", "rejected", "dropped"} :
              report[c][k] > 0 => counters[k] > 0
      BY <2>1, <2>2 DEF ReportHasCause
    <3>2. counters["failedEvents"] > 0 => counters["failedBatches"] > 0
      BY DEF IInv, Caused
    <3>3. CASE report[c]["lastError"] # None
      <4>1. \A k \in Needs(report[c]["lastError"]) : counters[k] > 0
        BY <2>1, <2>2, <3>3 DEF ReportHasCause
      <4> QED  BY <4>1 DEF Needs
    <3>4. CASE ~(report[c]["lastError"] # None)
      BY <2>4, <3>1, <3>2, <3>4 DEF HealthStatus
    <3> QED  BY <3>3, <3>4
  <2> QED  BY <2>3, <2>4
<1> QED  BY <1>1, Invariant, PTL

\* client.go:343-344, 466-467, stats.go:47-50: whatever the writers do between
\* the reads of a snapshot, its events are no more than its batches can hold.
THEOREM EventsFitBatches == Spec => []EventsWithinBatches
<1>1. Spec => []Batched
  BY InitBatched, NextBatched, Invariant, PTL DEF Spec
<1>2. Batched => EventsWithinBatches
  <2> SUFFICES ASSUME Batched, NEW c \in Callers, Done(c)
               PROVE  /\ report[c]["sentEvents"]
                            <= BatchSize * report[c]["sentBatches"]
                      /\ report[c]["failedEvents"]
                            <= BatchSize * report[c]["failedBatches"]
    BY DEF EventsWithinBatches
  <2>1. /\ {"sentEvents", "failedEvents"} = EventCounters
        /\ {"sentEvents", "failedEvents", "sentBatches", "failedBatches"}
              \subseteq DOMAIN report[c]
        /\ BatchOf("sentEvents") = "sentBatches"
        /\ BatchOf("failedEvents") = "failedBatches"
    BY DEF Done, Counters, EventCounters, BatchOf
  <2> QED  BY <2>1 DEF Batched, ReportWithin
<1> QED  BY <1>1, <1>2, PTL
=============================================================================
