----------------------- MODULE RequestLifecycle_proofs -----------------------
(***************************************************************************)
(* Traces, finishes and statuses, for any number of operations, spans and  *)
(* round trips and any way to hand their contexts around.                  *)
(***************************************************************************)
EXTENDS RequestLifecycle, FiniteSetTheorems, SequenceTheorems, TLAPS

\* The ids a trace may begin with: its own, or for a request the caller's.
Origin(h) == IF h = Request THEN {h, "in"} ELSE {h}

\* A context carries the ids of the call its path begins with, and every call
\* on its path has started and belongs to the same trace.
InTrace(c) ==
    /\ c.path = <<>> => c.hand \/ (c.request = None /\ c.trace = None)
    /\ c.path # <<>> => /\ c.request = handle[Head(c.path)].ctx.request
                        /\ c.trace = handle[Head(c.path)].ctx.trace
    /\ \A h \in ToSet(c.path) : handle[h].kind # "none" /\ Root(h) = Head(c.path)

Begins(c, h) ==
    /\ c.request # None /\ c.trace # None
    /\ c.hand \/ (c.request \in Origin(h) /\ c.trace \in Origin(h))

InOwnTrace(h) ==
    /\ handle[h].ctx \in contexts
    /\ h \in ToSet(handle[h].ctx.path)
    /\ Root(h) = h => Begins(handle[h].ctx, h)

TracedEvent(v) ==
    /\ v.of \in Handles /\ handle[v.of].kind # "none"
    /\ ~v.foreign => /\ v.request = handle[v.of].ctx.request
                     /\ v.trace = handle[v.of].ctx.trace

Traced ==
    /\ Background \in contexts
    /\ \A c \in contexts : InTrace(c)
    /\ \A h \in Handles : handle[h].kind # "none" => InOwnTrace(h)
    /\ \A v \in events : TracedEvent(v)

Served == server # "start" => handle[Request].kind # "none"

IsFinish(v) == v.type \in {"request_finished", "span"}
Finished ==
    /\ \A v \in events : IsFinish(v) => v.of \in Handles /\ handle[v.of].ends = 1
    /\ \A v, w \in events : IsFinish(v) /\ IsFinish(w) /\ v.of = w.of => v = w
    /\ handle[Request].ends = 1 <=> server = "done"
    /\ server = "done" => \E v \in events : v.of = Request /\ IsFinish(v)

\* What was sent is what is recorded, unless net/http ignored a code.
Agrees ==
    (Gin \/ ~response.again) /\ response.sent # 0 =>
        response.recorded = response.sent

IInv == TypeOK /\ Traced /\ Served /\ Finished /\ Agrees /\ StatusIsSent

LEMMA Names ==
    /\ Request \in Handles /\ None \notin Handles /\ Calls \subseteq Handles
    /\ Request \notin Calls /\ None # "in" /\ "in" \notin Calls
    /\ Handles \subseteq Ids /\ None \in Ids /\ "in" \in Ids /\ "remote" \in Ids
BY LifecycleAssumption DEF Handles, Ids

LEMMA EmptyPath == ToSet(<<>>) = {}
BY DEF ToSet

LEMMA PathFacts ==
    ASSUME NEW s \in Seq(Handles), NEW h \in Handles
    PROVE  /\ Append(s, h) \in Seq(Handles) /\ Append(s, h) # <<>>
           /\ Head(Append(s, h)) = IF s = <<>> THEN h ELSE Head(s)
           /\ ToSet(Append(s, h)) = ToSet(s) \cup {h}
           /\ s # <<>> => Head(s) \in ToSet(s) /\ Head(s) \in Handles
           /\ ToSet(s) \subseteq Handles
<1>1. Append(s, h) \in Seq(Handles) /\ Append(s, h) # <<>>
  BY AppendProperties
<1>2. Head(Append(s, h)) = IF s = <<>> THEN h ELSE Head(s)
  OBVIOUS
<1>3. ToSet(Append(s, h)) = ToSet(s) \cup {h}
  <2>1. /\ DOMAIN Append(s, h) = 1..(Len(s) + 1) /\ Len(s) \in Nat
        /\ DOMAIN s = 1..Len(s)
        /\ \A i \in 1..Len(s) : Append(s, h)[i] = s[i]
        /\ Append(s, h)[Len(s) + 1] = h
    BY AppendProperties
  <2>2. ASSUME NEW x \in ToSet(Append(s, h))  PROVE x \in ToSet(s) \cup {h}
    <3>1. PICK i \in DOMAIN Append(s, h) : x = Append(s, h)[i]
      BY DEF ToSet
    <3> QED  BY <2>1, <3>1 DEF ToSet
  <2>3. ASSUME NEW x \in ToSet(s) \cup {h}  PROVE x \in ToSet(Append(s, h))
    <3>1. CASE x = h
      <4>1. Len(s) + 1 \in DOMAIN Append(s, h)
        BY <2>1
      <4> QED  BY <2>1, <3>1, <4>1 DEF ToSet
    <3>2. CASE x \in ToSet(s)
      <4>1. PICK i \in DOMAIN s : x = s[i]
        BY <3>2 DEF ToSet
      <4>2. i \in DOMAIN Append(s, h) /\ Append(s, h)[i] = x
        BY <2>1, <4>1
      <4> QED  BY <4>2 DEF ToSet
    <3> QED  BY <3>1, <3>2
  <2> QED  BY <2>2, <2>3
<1>4. s # <<>> => Head(s) \in ToSet(s) /\ Head(s) \in Handles
  <2> SUFFICES ASSUME s # <<>>  PROVE Head(s) \in ToSet(s) /\ Head(s) \in Handles
    OBVIOUS
  <2>1. 1 \in DOMAIN s /\ Head(s) = s[1]
    OBVIOUS
  <2> QED  BY <2>1 DEF ToSet
<1>5. ToSet(s) \subseteq Handles
  BY DEF ToSet
<1> QED  BY <1>1, <1>2, <1>3, <1>4, <1>5

-----------------------------------------------------------------------------
(* Types: what the calls of a handle do to it                                *)

Kinds == {"none", "request", "operation", "span", "trip"}
HandleSet == [kind : Kinds, ctx : RequestContexts, parent : Ids, ends : 0..1]

LEMMA ContextTypes ==
    ASSUME NEW c \in RequestContexts, NEW h \in Handles
    PROVE  /\ Ensured(c, h) \in RequestContexts
           /\ Inside(c, h) \in RequestContexts
           /\ [c EXCEPT !.path = Append(c.path, h)] \in RequestContexts
BY Names, PathFacts DEF RequestContexts, Ensured, Inside, Or

\* A context as a caller makes it by hand: of no path, and with no ids unless
\* it says so.
Fresh(c) ==
    c.path = <<>> /\ (c.hand \/ (/\ c.request = None /\ c.trace = None
                                /\ c.span = None))

LEMMA ByHandFacts ==
    ASSUME NEW c \in contexts, contexts \subseteq RequestContexts, ContextWithIDs(c)
    PROVE  \E d \in RequestContexts : Fresh(d) /\ contexts' = contexts \cup {d}
<1>1. PICK id \in Given :
         \E e \in {[c EXCEPT !.request = id], [c EXCEPT !.trace = id],
                  [c EXCEPT !.span = id]} : contexts' = contexts \cup {ByHand(e)}
  BY DEF ContextWithIDs
<1>0. PICK e \in {[c EXCEPT !.request = id], [c EXCEPT !.trace = id],
                 [c EXCEPT !.span = id]} : contexts' = contexts \cup {ByHand(e)}
  BY <1>1
<1>2. id \in Ids
  BY LifecycleAssumption DEF Ids, Handles
<1>3. e \in RequestContexts
  BY <1>0, <1>2 DEF RequestContexts
<1> DEFINE byhand == {e.request, e.trace, e.span} # {None}
           d == [e EXCEPT !.path = <<>>, !.hand = byhand]
<1>4. byhand \in BOOLEAN /\ <<>> \in Seq(Handles)
      /\ (~byhand => e.request = None /\ e.trace = None /\ e.span = None)
  OBVIOUS
<1>5. d = ByHand(e)
  BY DEF ByHand
<1> HIDE DEF byhand
<1>6. /\ d \in RequestContexts /\ d.path = <<>> /\ d.hand = byhand
      /\ d.request = e.request /\ d.trace = e.trace /\ d.span = e.span
  BY <1>3, <1>4 DEF RequestContexts
<1> HIDE DEF d
<1> QED  BY <1>0, <1>4, <1>5, <1>6 DEF Fresh

LEMMA OpenedFacts ==
    ASSUME TypeOK, NEW h \in Handles, NEW kind \in Kinds \ {"none"},
           NEW c \in RequestContexts, NEW parent \in Ids,
           Opened(h, kind, c, parent)
    PROVE  /\ handle[h].kind = "none"
           /\ handle'[h].kind = kind /\ handle'[h].ctx = c
           /\ handle'[h].parent = parent
           /\ handle[h].ends = 0 /\ handle'[h].ends = 0
           /\ \A g \in Handles \ {h} : handle'[g] = handle[g]
           /\ handle' \in [Handles -> HandleSet]
<1>1. handle \in [Handles -> HandleSet]
  BY DEF TypeOK, HandleSet, Kinds
<1>2. handle[h].kind = "none" /\ handle[h].ends = 0
  BY <1>1 DEF Opened, TypeOK, HandleSet
<1> DEFINE new == [NoHandle EXCEPT !.kind = kind, !.ctx = c, !.parent = parent]
<1>3. /\ new.kind = kind /\ new.ctx = c /\ new.ends = 0 /\ new.parent = parent
      /\ new \in HandleSet
  <2>1. NoHandle \in HandleSet
    <3>1. Background \in RequestContexts
      BY Names DEF Background, RequestContexts
    <3>2. 0 \in 0..1
      OBVIOUS
    <3> QED  BY <3>1, <3>2, Names DEF NoHandle, HandleSet, Kinds
  <2>2. new.ends = 0
    BY DEF NoHandle
  <2> QED  BY <2>1, <2>2 DEF HandleSet
<1>4. handle' = [handle EXCEPT ![h] = new]
  BY DEF Opened
<1> HIDE DEF new
<1> QED  BY <1>1, <1>2, <1>3, <1>4

LEMMA EndedFacts ==
    ASSUME TypeOK, NEW h \in Handles, MayEnd(h), Ended(h)
    PROVE  /\ handle[h].ends = 0 /\ handle'[h].ends = 1
           /\ handle'[h].kind = handle[h].kind /\ handle'[h].ctx = handle[h].ctx
           /\ handle'[h].parent = handle[h].parent
           /\ \A g \in Handles \ {h} : handle'[g] = handle[g]
           /\ handle' \in [Handles -> HandleSet]
<1>1. handle \in [Handles -> HandleSet] /\ handle[h] \in HandleSet
  BY DEF TypeOK, HandleSet, Kinds
<1> DEFINE new == [handle[h] EXCEPT !.ends = handle[h].ends + 1]
<1>2. handle' = [handle EXCEPT ![h] = new] /\ handle[h].ends = 0
  BY DEF Ended, MayEnd
<1>3. /\ new.kind = handle[h].kind /\ new.ctx = handle[h].ctx /\ new.ends = 1
      /\ new.parent = handle[h].parent
      /\ new \in HandleSet
  BY <1>1, <1>2 DEF HandleSet
<1> HIDE DEF new
<1> QED  BY <1>1, <1>2, <1>3

-----------------------------------------------------------------------------
(* Traces: a call opens a handle, or leaves what the traces are made of      *)

\* What a started call has on its path has started, too.
LEMMA StartedPath ==
    ASSUME TypeOK, Traced, NEW c \in contexts
    PROVE  /\ c.path \in Seq(Handles)
           /\ \A h \in ToSet(c.path) : h \in Handles /\ handle[h].kind # "none"
           /\ c.path # <<>> =>
                 /\ Head(c.path) \in ToSet(c.path) /\ Root(Head(c.path)) = Head(c.path)
                 /\ c.request # None /\ c.trace # None
                 /\ \/ handle[Head(c.path)].ctx.hand
                    \/ /\ c.request \in Origin(Head(c.path))
                       /\ c.trace \in Origin(Head(c.path))
<1>1. c.path \in Seq(Handles) /\ InTrace(c)
  BY DEF TypeOK, RequestContexts, Traced
<1>2. \A h \in ToSet(c.path) : h \in Handles /\ handle[h].kind # "none"
  BY <1>1, PathFacts, Names DEF InTrace
<1>3. ASSUME c.path # <<>>
      PROVE  /\ Head(c.path) \in ToSet(c.path) /\ Root(Head(c.path)) = Head(c.path)
             /\ Begins(handle[Head(c.path)].ctx, Head(c.path))
             /\ c.request = handle[Head(c.path)].ctx.request
             /\ c.trace = handle[Head(c.path)].ctx.trace
  <2>1. Head(c.path) \in ToSet(c.path)
    BY <1>1, <1>3, PathFacts, Names
  <2>2. Root(Head(c.path)) = Head(c.path)
    BY <1>1, <2>1 DEF InTrace
  <2>3. InOwnTrace(Head(c.path))
    BY <1>2, <2>1 DEF Traced
  <2> QED  BY <1>1, <1>3, <2>1, <2>2, <2>3 DEF InTrace, InOwnTrace
<1>4. ASSUME c.path # <<>>
      PROVE  /\ c.request # None /\ c.trace # None
             /\ \/ handle[Head(c.path)].ctx.hand
                \/ /\ c.request \in Origin(Head(c.path))
                   /\ c.trace \in Origin(Head(c.path))
  BY <1>3, <1>4 DEF Begins
<1> QED  BY <1>1, <1>2, <1>3, <1>4

\* h starts with the context own, made of one with the given path.
Opens(h, own, path) ==
    /\ handle[h].kind = "none"
    /\ handle'[h].kind # "none" /\ handle'[h].ctx = own
    /\ \A g \in Handles \ {h} : handle'[g] = handle[g]
    /\ own.path = Append(path, h)
    /\ \/ path = <<>> /\ Begins(own, h)
       \/ \E c \in contexts : /\ path = c.path /\ path # <<>>
                              /\ own.request = c.request /\ own.trace = c.trace
    /\ contexts' = contexts \cup {own}
    /\ \A v \in events' : v \in events \/ (/\ v.of = h
                                           /\ v.request = own.request
                                           /\ v.trace = own.trace)

\* A new call joins the trace of its context, or begins one.
LEMMA OpenTraced ==
    ASSUME TypeOK, Traced, NEW h \in Handles, NEW own \in RequestContexts,
           NEW path \in Seq(Handles), Opens(h, own, path)
    PROVE  Traced'
<1> USE DEF Opens
<1>1. /\ own.path # <<>> /\ ToSet(own.path) = ToSet(path) \cup {h}
      /\ Head(own.path) = IF path = <<>> THEN h ELSE Head(path)
  BY PathFacts
<1>2. \A c \in contexts : h \notin ToSet(c.path)
  BY StartedPath
<1>3. \A g \in Handles \ {h} : /\ handle'[g].kind = handle[g].kind
                               /\ handle'[g].ctx = handle[g].ctx
                               /\ Root(g)' = Root(g)
  BY DEF Root
<1>4. ASSUME NEW c \in contexts  PROVE InTrace(c)'
  <2>1. InTrace(c) /\ \A g \in ToSet(c.path) : g \in Handles \ {h}
    BY <1>2, StartedPath DEF Traced
  <2>2. c.path # <<>> => Head(c.path) \in Handles \ {h}
    BY <1>2, StartedPath
  <2> QED  BY <1>3, <2>1, <2>2 DEF InTrace
<1>5. Root(h)' = Head(own.path)
  BY DEF Root
<1>6. InTrace(own)' /\ InOwnTrace(h)'
  <2>1. h \in ToSet(own.path) /\ own \in contexts'
    BY <1>1
  <2>2. CASE path = <<>> /\ Begins(own, h)
    <3>1. ToSet(own.path) = {h} /\ Head(own.path) = h
      BY <1>1, <2>2, EmptyPath
    <3> QED  BY <1>1, <1>5, <2>1, <2>2, <3>1 DEF InTrace, InOwnTrace, Begins, Origin
  <2>3. CASE \E c \in contexts : /\ path = c.path /\ path # <<>>
                                 /\ own.request = c.request /\ own.trace = c.trace
    <3>1. PICK c \in contexts : /\ path = c.path /\ path # <<>>
                                /\ own.request = c.request /\ own.trace = c.trace
      BY <2>3
    <3>2. /\ Head(path) \in Handles \ {h} /\ Head(own.path) = Head(path)
          /\ \A g \in ToSet(path) : g \in Handles \ {h}
      BY <1>1, <1>2, <3>1, StartedPath
    <3>3. InTrace(c)
      BY DEF Traced
    <3>4. InTrace(own)'
      BY <1>1, <1>3, <1>5, <3>1, <3>2, <3>3 DEF InTrace
    <3> QED  BY <1>5, <2>1, <3>2, <3>4 DEF InOwnTrace
  <2> QED  BY <2>2, <2>3
<1>7. ASSUME NEW g \in Handles, handle'[g].kind # "none"  PROVE InOwnTrace(g)'
  <2>1. CASE g = h
    BY <1>6, <2>1
  <2>2. CASE g # h
    <3>1. InOwnTrace(g) /\ handle'[g].ctx = handle[g].ctx /\ Root(g)' = Root(g)
      BY <1>3, <1>7, <2>2 DEF Traced
    <3> QED  BY <3>1 DEF InOwnTrace, Begins, Origin
  <2> QED  BY <2>1, <2>2
<1>8. ASSUME NEW v \in events'  PROVE TracedEvent(v)'
  <2>1. CASE v \in events
    <3>1. TracedEvent(v)
      BY <2>1 DEF Traced
    <3>2. v.of # h
      BY <3>1 DEF TracedEvent
    <3> QED  BY <1>3, <3>1, <3>2 DEF TracedEvent
  <2>2. CASE v.of = h /\ v.request = own.request /\ v.trace = own.trace
    BY <2>2 DEF TracedEvent
  <2> QED  BY <2>1, <2>2
<1> QED  BY <1>4, <1>6, <1>7, <1>8 DEF Traced

\* Any other step adds events of traces there are, and contexts made by hand.
LEMMA KeepTraced ==
    ASSUME TypeOK, Traced,
           \A h \in Handles : /\ handle'[h].kind = handle[h].kind
                              /\ handle'[h].ctx = handle[h].ctx,
           contexts \subseteq contexts',
           \A c \in contexts' : c \in contexts \/ Fresh(c),
           \A v \in events' : v \in events \/ TracedEvent(v)
    PROVE  Traced'
<1>1. \A h \in Handles : Root(h)' = Root(h)
  BY DEF Root
<1>2. ASSUME NEW c \in contexts'  PROVE InTrace(c)'
  <2>1. CASE c \in contexts
    <3>1. InTrace(c) /\ (c.path # <<>> => Head(c.path) \in Handles)
          /\ \A h \in ToSet(c.path) : h \in Handles
      BY <2>1, StartedPath DEF Traced
    <3> QED  BY <1>1, <3>1 DEF InTrace
  <2>2. CASE Fresh(c)
    BY <2>2, EmptyPath DEF Fresh, InTrace
  <2> QED  BY <2>1, <2>2
<1>3. ASSUME NEW h \in Handles, handle'[h].kind # "none"  PROVE InOwnTrace(h)'
  <2>1. InOwnTrace(h)
    BY <1>3 DEF Traced
  <2> QED  BY <1>1, <2>1 DEF InOwnTrace, Begins, Origin
<1>4. ASSUME NEW v \in events'  PROVE TracedEvent(v)'
  <2>1. TracedEvent(v)
    BY DEF Traced
  <2> QED  BY <2>1 DEF TracedEvent
<1> QED  BY <1>2, <1>3, <1>4 DEF Traced

\* An event of h.
IsOf(v, h, type) == v.of = h /\ v.type = type /\ TracedEvent(v)

\* What ends or steps h merges a context of its trace, or of no trace, or says
\* that it is foreign.
LEMMA MergedFacts ==
    ASSUME TypeOK, Traced, NEW h \in Handles, handle[h].kind # "none",
           NEW c \in contexts, NEW type, NEW n, NEW i
    PROVE  /\ IsOf(MergedEvent(type, h, c), h, type)
           /\ IsOf([MergedEvent(type, h, c) EXCEPT !.nth = n], h, type)
           /\ IsOf([MergedEvent(type, h, c) EXCEPT !.code = i, !.nth = n], h, type)
<1> DEFINE base == handle[h].ctx
           m == Merged(base, c)
           far == Foreign(h, c) /\ {c.request, c.trace} # {None}
           v == MergedEvent(type, h, c)
           w == [v EXCEPT !.nth = n]
           x == [v EXCEPT !.code = i, !.nth = n]
<1>1. base \in contexts /\ InOwnTrace(h) /\ base \in RequestContexts
  BY DEF Traced, InOwnTrace, TypeOK
<1>2. m.request = Or(c.request, base.request) /\ m.trace = Or(c.trace, base.trace)
  BY <1>1 DEF Merged, RequestContexts
<1>3. ASSUME ~far  PROVE m.request = base.request /\ m.trace = base.trace
  <2>1. CASE ~Foreign(h, c)
    <3>1. InTrace(c) /\ InTrace(base) /\ base.path # <<>>
      BY <1>1, EmptyPath DEF Traced, InOwnTrace
    <3>2. c.path # <<>> /\ Head(c.path) = Head(base.path)
      BY <2>1 DEF Foreign
    <3>3. c.request = base.request /\ c.trace = base.trace
      BY <3>1, <3>2 DEF InTrace
    <3> QED  BY <1>2, <3>3 DEF Or
  <2>2. CASE c.request = None /\ c.trace = None
    BY <1>2, <2>2 DEF Or
  <2> QED  BY <1>3, <2>1, <2>2
<1>4. \A e \in {v, w, x} : /\ e.of = h /\ e.type = type /\ e.foreign = far
                          /\ e.request = m.request /\ e.trace = m.trace
  <2> HIDE DEF m
  <2> QED  BY DEF MergedEvent, Event, m
<1> HIDE DEF m, far, v, w, x, base
<1>5. ASSUME NEW e \in {v, w, x}  PROVE TracedEvent(e)
  <2>1. e.of = h /\ e.foreign = far /\ e.request = m.request /\ e.trace = m.trace
    BY <1>4
  <2>2. ASSUME ~e.foreign  PROVE e.request = base.request /\ e.trace = base.trace
    <3>1. ~far
      BY <2>1, <2>2
    <3> QED  BY <1>3, <2>1, <3>1
  <2> QED  BY <2>1, <2>2 DEF TracedEvent, base
<1>6. \A e \in {v, w, x} : IsOf(e, h, type)
  BY <1>4, <1>5 DEF IsOf
<1> QED  BY <1>6 DEF v, w, x

-----------------------------------------------------------------------------
(* What the actions do, in the terms of the lemmas                           *)

\* The three calls that start something with a context c.
Starts(h, c) == StartOperation(h, c) \/ StartSpan(h, c) \/ StartTrip(h, c)

LEMMA StartFacts ==
    ASSUME TypeOK, Traced, NEW h \in Calls, NEW c \in contexts, Starts(h, c)
    PROVE  \E own \in RequestContexts, kind \in Kinds \ {"none"}, parent \in Ids :
              /\ Opened(h, kind, own, parent)
              /\ own.path = Append(c.path, h) /\ own.hand = c.hand
              /\ own.request = Or(c.request, h) /\ own.trace = Or(c.trace, h)
              /\ contexts' = contexts \cup {own}
              /\ \A v \in events' : v \in events \/
                    (/\ v.of = h /\ v.type = "request_started"
                     /\ v.request = own.request /\ v.trace = own.trace)
              /\ events \subseteq events'
              /\ UNCHANGED <<chain, server, stored, response>>
<1>1. h \in Handles /\ c \in RequestContexts /\ c.path \in Seq(Handles)
      /\ c.span \in Ids
  BY Names DEF TypeOK, RequestContexts
<1> DEFINE plain == [Ensured(c, h) EXCEPT !.path = Append(c.path, h)]
           inner == [Inside(Ensured(c, h), h) EXCEPT !.path = Append(c.path, h)]
<1>2. Ensured(c, h) \in RequestContexts /\ Inside(Ensured(c, h), h) \in RequestContexts
  BY <1>1, ContextTypes
<1>3. /\ Ensured(c, h).path = c.path
      /\ Ensured(c, h).request = Or(c.request, h)
      /\ Ensured(c, h).trace = Or(c.trace, h)
      /\ Ensured(c, h).hand = c.hand /\ Inside(Ensured(c, h), h).hand = c.hand
      /\ Inside(Ensured(c, h), h).path = c.path
      /\ Inside(Ensured(c, h), h).request = Or(c.request, h)
      /\ Inside(Ensured(c, h), h).trace = Or(c.trace, h)
  BY <1>1 DEF RequestContexts, Ensured, Inside
<1>4. plain \in RequestContexts /\ inner \in RequestContexts
  BY <1>1, <1>2, <1>3, ContextTypes
<1>5. /\ plain.path = Append(c.path, h) /\ inner.path = Append(c.path, h)
      /\ plain.hand = c.hand /\ inner.hand = c.hand
      /\ plain.request = Or(c.request, h) /\ plain.trace = Or(c.trace, h)
      /\ inner.request = Or(c.request, h) /\ inner.trace = Or(c.trace, h)
  BY <1>2, <1>3 DEF RequestContexts
<1>6. CASE StartOperation(h, c)
  <2>1. /\ Opened(h, "operation", plain, None)
        /\ contexts' = contexts \cup {plain}
        /\ events' = events \cup {Event("request_started", h, plain)}
        /\ UNCHANGED <<chain, server, stored, response>>
    BY <1>3, <1>6 DEF StartOperation, handlerRest
  <2>2. LET v == Event("request_started", h, plain)
        IN  /\ v.of = h /\ v.type = "request_started"
            /\ v.request = plain.request /\ v.trace = plain.trace
    BY DEF Event
  <2>3. "operation" \in Kinds \ {"none"} /\ None \in Ids
    BY Names DEF Kinds
  <2> HIDE DEF plain
  <2> QED  BY <1>4, <1>5, <2>1, <2>2, <2>3
<1>7. CASE StartSpan(h, c) \/ StartTrip(h, c)
  <2>1. /\ \E kind \in {"span", "trip"} : Opened(h, kind, inner, c.span)
        /\ contexts' = contexts \cup {inner}
        /\ events' = events
        /\ UNCHANGED <<chain, server, stored, response>>
    BY <1>3, <1>7 DEF StartSpan, StartTrip, handlerRest
  <2>2. {"span", "trip"} \subseteq Kinds \ {"none"}
    BY DEF Kinds
  <2> HIDE DEF inner
  <2> QED  BY <1>1, <1>4, <1>5, <2>1, <2>2
<1> QED  BY <1>6, <1>7 DEF Starts

\* The calls on what was started.
Ends(h) == \/ \E c \in contexts : EndOperation(h, c)
           \/ EndSpan(h) \/ \E failed \in BOOLEAN : EndTrip(h, failed)
Reports(h) == RecordError(h) \/ \E c \in contexts : StepOperation(h, c)

LEMMA EventFacts ==
    ASSUME TypeOK, Traced, NEW h \in Handles, handle[h].kind # "none", NEW type, NEW n
    PROVE  /\ IsOf(Event(type, h, handle[h].ctx), h, type)
           /\ IsOf([Event(type, h, handle[h].ctx) EXCEPT !.nth = n], h, type)
           /\ IsOf([Event(type, h, handle[h].ctx) EXCEPT !.span = h, !.nth = n], h, type)
BY DEF Event, TracedEvent, IsOf

\* An end sends one finish, of what was started.
LEMMA EndFacts ==
    ASSUME TypeOK, Traced, NEW h \in Calls, Ends(h)
    PROVE  /\ MayEnd(h) /\ Ended(h) /\ handle[h].kind # "none"
           /\ UNCHANGED <<chain, server, response, stored, contexts>>
           /\ events \subseteq events'
           /\ \A v \in events' : v \in events \/ (TracedEvent(v) /\ v.of = h)
           /\ \A v, w \in events' \ events :
                 IsFinish(v) /\ IsFinish(w) => v = w
<1>1. h \in Handles
  BY Names
<1>2. ASSUME NEW c \in contexts, EndOperation(h, c)
      PROVE  \E v : events' = events \cup {v} /\ TracedEvent(v) /\ v.of = h
  <2> DEFINE v == [MergedEvent("request_finished", h, c) EXCEPT !.nth = Nth(h)]
  <2>1. handle[h].kind # "none" /\ events' = events \cup {v}
    BY <1>2 DEF EndOperation
  <2>2. IsOf(v, h, "request_finished")
    BY <1>1, <2>1, MergedFacts
  <2> HIDE DEF v
  <2> QED  BY <2>1, <2>2 DEF IsOf
<1>3. ASSUME EndSpan(h)
      PROVE  \E v : events' = events \cup {v} /\ TracedEvent(v) /\ v.of = h
  <2> DEFINE v == [Event("span", h, handle[h].ctx) EXCEPT !.span = h, !.nth = Nth(h)]
  <2>1. handle[h].kind # "none" /\ events' = events \cup {v}
    BY <1>3 DEF EndSpan
  <2>2. IsOf(v, h, "span")
    BY <1>1, <2>1, EventFacts
  <2> HIDE DEF v
  <2> QED  BY <2>1, <2>2 DEF IsOf
<1>4. ASSUME NEW failed \in BOOLEAN, EndTrip(h, failed)
      PROVE  \E v, w : /\ events' \in {events \cup {v}, events \cup {v, w}}
                       /\ TracedEvent(v) /\ v.of = h
                       /\ TracedEvent(w) /\ w.of = h /\ ~IsFinish(w)
  <2> DEFINE v == [Event("span", h, handle[h].ctx) EXCEPT !.nth = Nth(h)]
             w == Event("error_event", h, handle[h].ctx)
  <2>1. handle[h].kind # "none"
        /\ events' = events \cup {v} \cup IF failed THEN {w} ELSE {}
    BY <1>4 DEF EndTrip
  <2>2. IsOf(v, h, "span")
    BY <1>1, <2>1, EventFacts
  <2>3. IsOf(w, h, "error_event")
    BY <1>1, <2>1, EventFacts
  <2> HIDE DEF v, w
  <2>4. ~IsFinish(w)
    BY <2>3 DEF IsFinish, IsOf
  <2>5. events' \in {events \cup {v}, events \cup {v, w}}
    BY <2>1
  <2> QED  BY <2>2, <2>3, <2>4, <2>5 DEF IsOf
<1>5. MayEnd(h) /\ Ended(h) /\ handle[h].kind # "none"
      /\ UNCHANGED <<chain, server, response, stored, contexts>>
  BY DEF Ends, EndOperation, EndSpan, EndTrip, handlerRest
<1> QED  BY <1>2, <1>3, <1>4, <1>5 DEF Ends

LEMMA ReportFacts ==
    ASSUME TypeOK, Traced, NEW h \in Calls, Reports(h)
    PROVE  /\ UNCHANGED <<chain, server, response, stored, contexts, handle>>
           /\ events \subseteq events'
           /\ \A v \in events' : v \in events \/
                 (TracedEvent(v) /\ ~IsFinish(v) /\ v.of # Request)
<1>1. h \in Handles /\ h # Request
  BY Names
<1>2. ASSUME NEW c \in contexts, StepOperation(h, c)
      PROVE  \E v : events' = events \cup {v} /\ TracedEvent(v) /\ ~IsFinish(v)
                    /\ v.of = h
  <2> DEFINE v == MergedEvent("log_event", h, c)
  <2>1. handle[h].kind # "none" /\ events' = events \cup {v}
    BY <1>2 DEF StepOperation
  <2>2. IsOf(v, h, "log_event")
    BY <1>1, <2>1, MergedFacts
  <2> HIDE DEF v
  <2> QED  BY <2>1, <2>2 DEF IsFinish, IsOf
<1>3. ASSUME RecordError(h)
      PROVE  \E v : events' = events \cup {v} /\ TracedEvent(v) /\ ~IsFinish(v)
                    /\ v.of = h
  <2> DEFINE v == Event("error_event", h, handle[h].ctx)
  <2>1. handle[h].kind # "none" /\ events' = events \cup {v}
    BY <1>3 DEF RecordError
  <2>2. IsOf(v, h, "error_event")
    BY <1>1, <2>1, EventFacts
  <2> HIDE DEF v
  <2> QED  BY <2>1, <2>2 DEF IsFinish, IsOf
<1>4. UNCHANGED <<chain, server, response, stored, contexts, handle>>
  BY DEF Reports, RecordError, StepOperation, handlerRest
<1> QED  BY <1>1, <1>2, <1>3, <1>4 DEF Reports

\* The goroutine that serves the request.
Serves == \/ SetRequestContext \/ WriteBody
          \/ \E code \in {200, 500} : WriteHeader(code)
          \/ Panic \/ Recover \/ Finish

-----------------------------------------------------------------------------
(* The invariant                                                             *)

LEMMA InitIInv == Init => IInv
<1> SUFFICES ASSUME Init  PROVE IInv
  OBVIOUS
<1>1. Background \in RequestContexts
  BY Names DEF Background, RequestContexts
<1>2. NoHandle \in HandleSet
  <2>1. 0 \in 0..1
    OBVIOUS
  <2> QED  BY <1>1, <2>1, Names DEF NoHandle, HandleSet, Kinds
<1>3. handle \in [Handles -> HandleSet] /\ \A h \in Handles : handle[h] = NoHandle
  BY <1>2 DEF Init
<1>4. \A h \in Handles : handle[h].kind = "none" /\ handle[h].ends = 0
  BY <1>3 DEF NoHandle
<1>5. response \in [recorded : {200, 500}, sent : {0, 200, 500}, again : BOOLEAN]
      /\ response.sent = 0
  BY DEF Init, NoResponse
<1>6. TypeOK
  BY <1>1, <1>3, <1>4, <1>5 DEF Init, TypeOK, HandleSet, Kinds
<1>7. Traced
  <2>1. InTrace(Background)
    BY EmptyPath DEF Background, InTrace
  <2> QED  BY <1>4, <2>1 DEF Init, Traced
<1>8. Finished /\ Served /\ Agrees /\ StatusIsSent
  BY <1>4, <1>5, Names DEF Init, Finished, Served, Agrees, StatusIsSent, Finishes
<1> QED  BY <1>6, <1>7, <1>8 DEF IInv

\* A step that ends no handle and finishes nothing.
LEMMA KeepFinished ==
    ASSUME TypeOK, Finished,
           \A h \in Handles : handle[h].ends = 1 => handle'[h].ends = 1,
           handle'[Request].ends = handle[Request].ends,
           server' = "done" <=> server = "done",
           events \subseteq events',
           \A v \in events' : v \in events \/ ~IsFinish(v)
    PROVE  Finished'
BY DEF Finished, IsFinish

\* Nor does one that leaves the response alone make a status wrong.
LEMMA KeepStatus ==
    ASSUME Agrees, StatusIsSent, Finished, UNCHANGED <<chain, response>>,
           \A v \in events' : v \in events \/ v.of # Request \/ ~IsFinish(v)
    PROVE  Agrees' /\ StatusIsSent'
BY DEF Agrees, StatusIsSent, Finishes, Gin, IsFinish

LEMMA StartIInv ==
    ASSUME IInv, NEW h \in Calls, NEW c \in contexts, Starts(h, c)
    PROVE  IInv'
<1>1. TypeOK /\ Traced /\ Served /\ Finished /\ Agrees /\ StatusIsSent
  BY DEF IInv
<1>2. h \in Handles /\ h # Request /\ Request \in Handles
  BY Names
<1>3. PICK own \in RequestContexts, kind \in Kinds \ {"none"}, parent \in Ids :
              /\ Opened(h, kind, own, parent)
              /\ own.path = Append(c.path, h) /\ own.hand = c.hand
              /\ own.request = Or(c.request, h) /\ own.trace = Or(c.trace, h)
              /\ contexts' = contexts \cup {own}
              /\ \A v \in events' : v \in events \/
                    (/\ v.of = h /\ v.type = "request_started"
                     /\ v.request = own.request /\ v.trace = own.trace)
              /\ events \subseteq events'
              /\ UNCHANGED <<chain, server, stored, response>>
  BY <1>1, StartFacts
<1>4. /\ handle[h].kind = "none"
      /\ handle'[h].kind = kind /\ handle'[h].ctx = own
      /\ handle[h].ends = 0 /\ handle'[h].ends = 0
      /\ \A g \in Handles \ {h} : handle'[g] = handle[g]
      /\ handle' \in [Handles -> HandleSet]
  BY <1>1, <1>2, <1>3, OpenedFacts
<1>5. TypeOK'
  BY <1>1, <1>3, <1>4 DEF TypeOK, HandleSet, Kinds
<1>6. Traced'
  <2>1. c.path \in Seq(Handles) /\ InTrace(c)
    BY <1>1, StartedPath DEF Traced
  <2>2. CASE c.path = <<>>
    <3>1. /\ own.request # None /\ own.trace # None
          /\ ~own.hand => own.request = h /\ own.trace = h
      BY <1>2, <1>3, <2>1, <2>2, Names DEF InTrace, Or
    <3>2. Begins(own, h)
      BY <3>1 DEF Begins, Origin
    <3>3. Opens(h, own, c.path)
      BY <1>3, <1>4, <2>2, <3>2 DEF Opens
    <3> QED  BY <1>1, <1>2, <2>1, <3>3, OpenTraced
  <2>3. CASE c.path # <<>>
    <3>1. own.request = c.request /\ own.trace = c.trace
      BY <1>1, <1>3, <2>3, StartedPath DEF Or
    <3>2. Opens(h, own, c.path)
      BY <1>3, <1>4, <2>3, <3>1 DEF Opens
    <3> QED  BY <1>1, <1>2, <2>1, <3>2, OpenTraced
  <2> QED  BY <2>2, <2>3
<1>7. Served'
  BY <1>1, <1>2, <1>3, <1>4 DEF Served
<1>8. Finished'
  <2>1. \A g \in Handles : handle[g].ends = 1 => handle'[g].ends = 1
    BY <1>4
  <2>2. handle'[Request].ends = handle[Request].ends
    BY <1>2, <1>4
  <2> QED  BY <1>1, <1>3, <2>1, <2>2, KeepFinished DEF IsFinish
<1>9. Agrees' /\ StatusIsSent'
  BY <1>1, <1>2, <1>3, KeepStatus
<1> QED  BY <1>5, <1>6, <1>7, <1>8, <1>9 DEF IInv

LEMMA EndIInv ==
    ASSUME IInv, NEW h \in Calls, Ends(h)
    PROVE  IInv'
<1>1. TypeOK /\ Traced /\ Served /\ Finished /\ Agrees /\ StatusIsSent
  BY DEF IInv
<1>2. h \in Handles /\ h # Request /\ Request \in Handles
  BY Names
<1>3. /\ MayEnd(h) /\ Ended(h) /\ handle[h].kind # "none"
      /\ UNCHANGED <<chain, server, response, stored, contexts>>
      /\ events \subseteq events'
      /\ \A v \in events' : v \in events \/ (TracedEvent(v) /\ v.of = h)
      /\ \A v, w \in events' \ events : IsFinish(v) /\ IsFinish(w) => v = w
  BY <1>1, EndFacts
<1>4. /\ handle[h].ends = 0 /\ handle'[h].ends = 1
      /\ handle'[h].kind = handle[h].kind /\ handle'[h].ctx = handle[h].ctx
      /\ \A g \in Handles \ {h} : handle'[g] = handle[g]
      /\ handle' \in [Handles -> HandleSet]
  BY <1>1, <1>2, <1>3, EndedFacts
<1>5. TypeOK'
  BY <1>1, <1>3, <1>4 DEF TypeOK, HandleSet, Kinds
<1>6. Traced'
  BY <1>1, <1>3, <1>4, KeepTraced
<1>7. Served'
  BY <1>1, <1>2, <1>3, <1>4 DEF Served
<1>8. Finished'
  <2>1. \A v \in events' : IsFinish(v) => v.of \in Handles /\ handle'[v.of].ends = 1
    BY <1>1, <1>2, <1>3, <1>4 DEF Finished
  <2>2. \A v \in events : IsFinish(v) => v.of # h
    BY <1>1, <1>4 DEF Finished
  <2>3. \A v, w \in events' : IsFinish(v) /\ IsFinish(w) /\ v.of = w.of => v = w
    BY <1>1, <1>3, <2>2 DEF Finished
  <2>4. handle'[Request].ends = handle[Request].ends
    BY <1>2, <1>4
  <2> QED  BY <1>1, <1>3, <2>1, <2>3, <2>4 DEF Finished, IsFinish
<1>9. Agrees' /\ StatusIsSent'
  BY <1>1, <1>2, <1>3, KeepStatus
<1> QED  BY <1>5, <1>6, <1>7, <1>8, <1>9 DEF IInv

LEMMA ReportIInv ==
    ASSUME IInv, NEW h \in Calls, Reports(h)
    PROVE  IInv'
<1>1. TypeOK /\ Traced /\ Served /\ Finished /\ Agrees /\ StatusIsSent
  BY DEF IInv
<1>2. /\ UNCHANGED <<chain, server, response, stored, contexts, handle>>
      /\ events \subseteq events'
      /\ \A v \in events' : v \in events \/
            (TracedEvent(v) /\ ~IsFinish(v) /\ v.of # Request)
  BY <1>1, ReportFacts
<1>3. TypeOK'
  BY <1>1, <1>2 DEF TypeOK, HandleSet, Kinds
<1>4. Traced'
  BY <1>1, <1>2, KeepTraced
<1>5. Served'
  BY <1>1, <1>2, Names DEF Served
<1>6. Finished'
  BY <1>1, <1>2, Names, KeepFinished
<1>7. Agrees' /\ StatusIsSent'
  BY <1>1, <1>2, KeepStatus
<1> QED  BY <1>3, <1>4, <1>5, <1>6, <1>7 DEF IInv

LEMMA ServeIInv ==
    ASSUME IInv, Serve
    PROVE  IInv'
<1>1. TypeOK /\ Traced /\ Served /\ Finished /\ Agrees /\ StatusIsSent
  BY DEF IInv
<1>2. PICK headers \in Headers :
        LET own == [Ensured(headers, Request) EXCEPT !.path = <<Request>>]
        IN  /\ Opened(Request, "request", own, None)
            /\ events' = events \cup {Event("request_started", Request, own)}
            /\ contexts' = contexts \cup {own}
            /\ stored' = own
  BY DEF Serve
<1> DEFINE own == [Ensured(headers, Request) EXCEPT !.path = <<Request>>]
<1>3. /\ headers \in RequestContexts /\ headers.path = <<>>
      /\ headers.request \in {None, "in"} /\ headers.trace \in {None, "in"}
  <2>1. headers \in [request : {None, "in"}, trace : {None, "in"},
                     span : {None, "remote"}, path : {<<>>}, hand : {FALSE}]
    BY LifecycleAssumption
  <2>2. {None, "in"} \subseteq Ids /\ {None, "remote"} \subseteq Ids
        /\ {<<>>} \subseteq Seq(Handles)
    BY Names
  <2> QED  BY <2>1, <2>2 DEF RequestContexts
<1>4. <<Request>> = Append(<<>>, Request) /\ <<>> \in Seq(Handles)
      /\ <<Request>> \in Seq(Handles)
  BY Names
<1>5. /\ own \in RequestContexts /\ own.path = <<Request>>
      /\ own.request = Or(headers.request, Request)
      /\ own.trace = Or(headers.trace, Request)
  <2>1. Ensured(headers, Request) \in RequestContexts
    BY <1>3, Names, ContextTypes
  <2>2. /\ Ensured(headers, Request).request = Or(headers.request, Request)
        /\ Ensured(headers, Request).trace = Or(headers.trace, Request)
    BY <1>3 DEF RequestContexts, Ensured
  <2> QED  BY <1>4, <2>1, <2>2 DEF RequestContexts
<1>6. Begins(own, Request)
  BY <1>3, <1>5, Names DEF Or, Origin, Begins
<1> DEFINE v == Event("request_started", Request, own)
<1>7. /\ v.of = Request /\ v.type = "request_started"
      /\ v.request = own.request /\ v.trace = own.trace
  BY DEF Event
<1>8. /\ Opened(Request, "request", own, None)
      /\ contexts' = contexts \cup {own} /\ stored' = own
      /\ events \subseteq events'
      /\ \A w \in events' : w \in events \/
            (/\ w.of = Request /\ w.type = "request_started"
             /\ w.request = own.request /\ w.trace = own.trace)
  <2> HIDE DEF v
  <2>1. events' = events \cup {v}
    BY <1>2 DEF v
  <2> QED  BY <1>2, <1>7, <2>1
<1> HIDE DEF own, v
<1>9. "request" \in Kinds \ {"none"} /\ None \in Ids /\ Request \in Handles
  BY Names DEF Kinds
<1>10. /\ handle[Request].kind = "none"
       /\ handle'[Request].kind = "request" /\ handle'[Request].ctx = own
       /\ handle[Request].ends = 0 /\ handle'[Request].ends = 0
       /\ \A g \in Handles \ {Request} : handle'[g] = handle[g]
       /\ handle' \in [Handles -> HandleSet]
  BY <1>1, <1>5, <1>8, <1>9, OpenedFacts
<1>11. UNCHANGED <<chain, response>> /\ server = "start" /\ server' = "handler"
  BY DEF Serve
<1>12. TypeOK'
  <2>1. \A h \in Handles : handle'[h].ends > 0 => handle'[h].kind # "none"
    BY <1>1, <1>10 DEF TypeOK
  <2>2. stored' \in contexts' /\ contexts' \subseteq RequestContexts
    BY <1>1, <1>5, <1>8 DEF TypeOK
  <2> QED  BY <1>1, <1>10, <1>11, <2>1, <2>2 DEF TypeOK, HandleSet, Kinds
<1>13. Traced'
  <2>1. PICK path \in Seq(Handles) : path = <<>> /\ own.path = Append(path, Request)
    BY <1>4, <1>5
  <2>2. Opens(Request, own, path)
    BY <1>6, <1>8, <1>10, <2>1 DEF Opens
  <2> QED  BY <1>1, <1>5, <1>9, <2>2, OpenTraced
<1>14. Served'
  BY <1>10 DEF Served
<1>15. Finished'
  <2>1. \A g \in Handles : handle[g].ends = 1 => handle'[g].ends = 1
    BY <1>10
  <2> QED  BY <1>1, <1>8, <1>10, <1>11, <2>1, KeepFinished DEF IsFinish
<1>16. Agrees' /\ StatusIsSent'
  BY <1>1, <1>8, <1>11, KeepStatus DEF IsFinish
<1> QED  BY <1>12, <1>13, <1>14, <1>15, <1>16 DEF IInv

Codes == {200, 500}
Sendable == {0, 200, 500}
Truths == BOOLEAN
Responses == [recorded : Codes, sent : Sendable, again : Truths]

LEMMA ChangedResponse ==
    ASSUME NEW r \in Responses, NEW n \in Codes, NEW s \in Sendable, NEW b \in Truths
    PROVE  /\ [r EXCEPT !.recorded = n, !.sent = s] \in Responses
           /\ [r EXCEPT !.recorded = n, !.again = b] \in Responses
BY DEF Responses

LEMMA ResponseFacts ==
    ASSUME response \in Responses
    PROVE  /\ SendHeader \in Responses /\ Aborted \in Responses
           /\ SendHeader.recorded = response.recorded
           /\ SendHeader.sent = IF response.sent = 0 THEN response.recorded
                                                     ELSE response.sent
           /\ SendHeader.again = response.again
           /\ Aborted.again = response.again
           /\ IF response.sent = 0 THEN Aborted.recorded = 500 /\ Aborted.sent = 500
                                   ELSE Aborted = response
<1>1. CASE response.sent = 0
  <2>1. SendHeader = [response EXCEPT !.sent = response.recorded]
    BY <1>1 DEF SendHeader
  <2>2. Aborted = [response EXCEPT !.recorded = 500, !.sent = 500]
    BY <1>1 DEF Aborted
  <2>3. response.recorded \in {0, 200, 500}
    BY DEF Responses, Codes, Sendable, Truths
  <2>4. SendHeader \in Responses /\ Aborted \in Responses
    <3> DEFINE code == 500
    <3>1. code \in Codes /\ code \in Sendable
      BY DEF Codes, Sendable
    <3>3. TRUE \in Truths
      BY DEF Truths
    <3>4. Aborted = [response EXCEPT !.recorded = code, !.sent = code]
      BY <2>2
    <3> HIDE DEF code
    <3>5. Aborted \in Responses
      BY <3>1, <3>3, <3>4, ChangedResponse
    <3>2. SendHeader \in Responses
      BY <2>1, <2>3 DEF Responses, Codes, Sendable, Truths
    <3> QED  BY <3>5, <3>2
  <2>5. /\ SendHeader.recorded = response.recorded
        /\ SendHeader.sent = response.recorded /\ SendHeader.again = response.again
    BY <2>1 DEF Responses, Codes, Sendable, Truths
  <2>6. /\ Aborted.recorded = 500 /\ Aborted.sent = 500
        /\ Aborted.again = response.again
    BY <2>2 DEF Responses, Codes, Sendable, Truths
  <2> QED  BY <1>1, <2>4, <2>5, <2>6
<1>2. CASE response.sent # 0
  <2>1. SendHeader = [response EXCEPT !.sent = response.sent] /\ Aborted = response
    BY <1>2 DEF SendHeader, Aborted
  <2> QED  BY <1>2, <2>1 DEF Responses, Codes, Sendable, Truths
<1> QED  BY <1>1, <1>2

\* Before the finish the response may change as long as it agrees.
LEMMA ServesStatus ==
    ASSUME TypeOK, Finished, Agrees, StatusIsSent, Serves, ~Finish
    PROVE  response' \in Responses /\ Agrees' /\ StatusIsSent'
<1>1. response \in Responses /\ chain' = chain /\ Gin' = Gin
  BY DEF TypeOK, Responses, Codes, Sendable, Truths, Serves, SetRequestContext, WriteBody,
         WriteHeader, Panic, Recover, handlerRest, Gin
<1>2. Finishes(Request) = {}
  <2>1. server # "done"
    BY DEF Serves, SetRequestContext, WriteBody, WriteHeader, Panic,
           Recover
  <2> QED  BY <2>1, Names DEF Finished, Finishes, IsFinish
<1>3. \A v \in events' : v \in events \/ ~IsFinish(v)
  <2>1. CASE Recover
    <3> DEFINE v == [Event("error_event", Request, stored) EXCEPT
                        !.foreign = Foreign(Request, stored)]
    <3>1. events' = events \cup {v}
      BY <2>1 DEF Recover
    <3>2. v.type = "error_event"
      BY DEF Event
    <3> HIDE DEF v
    <3> QED  BY <3>1, <3>2 DEF IsFinish
  <2>2. CASE ~Recover
    BY <2>2 DEF Serves, SetRequestContext, WriteBody, WriteHeader, Panic
  <2> QED  BY <2>1, <2>2
<1>4. StatusIsSent'
  BY <1>2, <1>3 DEF StatusIsSent, Finishes, IsFinish
<1>5. response' \in Responses /\ Agrees'
  <2>1. CASE SetRequestContext \/ Panic
    BY <1>1, <2>1 DEF SetRequestContext, Panic, handlerRest, Agrees
  <2>2. CASE WriteBody
    BY <1>1, <2>2, ResponseFacts DEF WriteBody, Agrees
  <2>3. CASE Recover
    BY <1>1, <2>3, ResponseFacts DEF Recover, Agrees
  <2>4. ASSUME NEW code \in {200, 500}, WriteHeader(code)
        PROVE  response' \in Responses /\ Agrees'
    <3>1. CASE response.sent = 0
      <4>1. /\ response' \in Responses /\ response'.recorded = code
            /\ response'.sent = IF Gin THEN 0 ELSE code
        <5> DEFINE sent == IF Gin THEN 0 ELSE code
        <5>1. response' = [response EXCEPT !.recorded = code, !.sent = sent]
          BY <2>4, <3>1 DEF WriteHeader
        <5>2. sent \in {0, 200, 500}
          OBVIOUS
        <5> HIDE DEF sent
        <5>3. response' \in Responses
          <6>1. TRUE \in Truths
            BY DEF Truths
          <6>2. code \in Codes /\ sent \in Sendable
            BY <5>2 DEF Codes, Sendable
          <6>3. [response EXCEPT !.recorded = code, !.sent = sent] \in Responses
            BY <1>1, <6>1, <6>2, ChangedResponse
          <6> QED  BY <6>3, <5>1
        <5>4. /\ response'.recorded = code
              /\ response'.sent = sent
          BY <1>1, <5>1 DEF Responses, Codes, Sendable, Truths
        <5> QED  BY <5>3, <5>4 DEF sent
      <4> QED  BY <4>1 DEF Agrees
    <3>2. CASE response.sent # 0
      <4>1. /\ response' \in Responses /\ (~Gin => response'.again = TRUE)
            /\ response'.sent = response.sent
            /\ Gin => response'.recorded = response.recorded
        <5> DEFINE recorded == IF Gin THEN response.recorded ELSE code
        <5>1. response' = [response EXCEPT !.recorded = recorded, !.again = ~Gin]
          BY <2>4, <3>2 DEF WriteHeader
        <5>2. recorded \in {200, 500}
          BY <1>1 DEF Responses, Codes, Sendable, Truths
        <5> HIDE DEF recorded
        <5>3. response' \in Responses
          <6>1. (~Gin) \in Truths
            BY DEF Truths
          <6>2. recorded \in Codes /\ 0 \in Sendable
            BY <5>2 DEF Codes, Sendable
          <6>3. [response EXCEPT !.recorded = recorded, !.again = ~Gin]
                    \in Responses
            BY <1>1, <6>1, <6>2, ChangedResponse
          <6> QED  BY <6>3, <5>1
        <5>4. /\ response'.recorded = recorded
              /\ response'.sent = response.sent /\ response'.again = ~Gin
          BY <1>1, <5>1 DEF Responses, Codes, Sendable, Truths
        <5> QED  BY <5>3, <5>4 DEF recorded
      <4> QED  BY <1>1, <4>1 DEF Agrees
    <3> QED  BY <3>1, <3>2
  <2> QED  BY <2>1, <2>2, <2>3, <2>4 DEF Serves
<1> QED  BY <1>4, <1>5

LEMMA HandlerIInv ==
    ASSUME IInv, Serves, ~Finish
    PROVE  IInv'
<1>1. TypeOK /\ Traced /\ Served /\ Finished /\ Agrees /\ StatusIsSent
  BY DEF IInv
<1>2. /\ UNCHANGED <<chain, handle, contexts>> /\ events \subseteq events'
      /\ server = "handler" /\ server' \in {"handler", "aborted", "recovered"}
  BY DEF Serves, SetRequestContext, WriteBody, WriteHeader, Panic, Recover, handlerRest
<1>3. /\ stored \in contexts /\ Background \in contexts
      /\ handle[Request].kind # "none" /\ Request \in Handles
  BY <1>1, <1>2, Names DEF TypeOK, Traced, Served
<1>4. stored' \in contexts
  BY <1>3 DEF Serves, SetRequestContext, WriteBody, WriteHeader, Panic, Recover
<1>5. \A v \in events' : v \in events \/ (TracedEvent(v) /\ ~IsFinish(v))
  <2>1. CASE Recover
    <3> DEFINE v == [Event("error_event", Request, stored) EXCEPT
                        !.foreign = Foreign(Request, stored)]
    <3>1. events' = events \cup {v}
      BY <2>1 DEF Recover
    <3>2. /\ v.of = Request /\ v.type = "error_event"
          /\ v.request = stored.request /\ v.trace = stored.trace
          /\ v.foreign = Foreign(Request, stored)
      BY DEF Event
    <3> HIDE DEF v
    <3>3. InTrace(stored) /\ InOwnTrace(Request) /\ InTrace(handle[Request].ctx)
          /\ handle[Request].ctx.path # <<>>
      BY <1>1, <1>3, EmptyPath DEF Traced, InOwnTrace
    <3>4. ~v.foreign => /\ stored.request = handle[Request].ctx.request
                        /\ stored.trace = handle[Request].ctx.trace
      BY <3>2, <3>3 DEF InTrace, Foreign
    <3> QED  BY <1>3, <3>1, <3>2, <3>4 DEF TracedEvent, IsFinish
  <2>2. CASE ~Recover
    BY <2>2 DEF Serves, SetRequestContext, WriteBody, WriteHeader, Panic
  <2> QED  BY <2>1, <2>2
<1>6. response' \in Responses /\ Agrees' /\ StatusIsSent'
  BY <1>1, ServesStatus
<1>7. TypeOK'
  BY <1>1, <1>2, <1>4, <1>6 DEF TypeOK, Responses, Codes, Sendable, Truths
<1>8. Traced'
  BY <1>1, <1>2, <1>4, <1>5, KeepTraced
<1>9. Served'
  BY <1>2, <1>3, <1>4 DEF Served
<1>10. Finished'
  BY <1>1, <1>2, <1>5, KeepFinished
<1> QED  BY <1>6, <1>7, <1>8, <1>9, <1>10 DEF IInv

LEMMA FinishIInv ==
    ASSUME IInv, Finish
    PROVE  IInv'
<1>1. TypeOK /\ Traced /\ Served /\ Finished /\ Agrees /\ StatusIsSent
  BY DEF IInv
<1>2. /\ server \in {"handler", "recovered"} /\ server' = "done"
      /\ UNCHANGED <<chain, contexts>> /\ response' = SendHeader
      /\ stored' = Background
      /\ MayEnd(Request) /\ Ended(Request)
  BY DEF Finish
<1>3. /\ stored \in contexts /\ Background \in contexts
      /\ handle[Request].kind # "none" /\ Request \in Handles
      /\ response \in Responses
  BY <1>1, <1>2, Names DEF TypeOK, Traced, Served, Responses, Codes, Sendable, Truths
<1>4. /\ handle[Request].ends = 0 /\ handle'[Request].ends = 1
      /\ handle'[Request].kind = handle[Request].kind
      /\ handle'[Request].ctx = handle[Request].ctx
      /\ \A g \in Handles \ {Request} : handle'[g] = handle[g]
      /\ handle' \in [Handles -> HandleSet]
  BY <1>1, <1>2, <1>3, EndedFacts
<1> DEFINE c == IF Gin THEN stored ELSE Background
           v == [MergedEvent("request_finished", Request, c) EXCEPT
                    !.code = response.recorded, !.nth = Nth(Request)]
<1>5. events' = events \cup {v}
  BY DEF Finish
<1>6. c \in contexts
  BY <1>3
<1> HIDE DEF c
<1>7. IsOf(v, Request, "request_finished") /\ v.code = response.recorded
  <2>1. IsOf(v, Request, "request_finished")
    BY <1>1, <1>3, <1>6, MergedFacts
  <2>2. v.code = response.recorded
    BY DEF MergedEvent, Event
  <2> QED  BY <2>1, <2>2
<1> HIDE DEF v
<1>8. v.of = Request /\ IsFinish(v) /\ v.code = response.recorded /\ TracedEvent(v)
  BY <1>7 DEF IsFinish, IsOf
<1>9. TypeOK'
  <2>1. response' \in Responses
    BY <1>2, <1>3, ResponseFacts
  <2> QED  BY <1>1, <1>2, <1>3, <1>4, <2>1 DEF TypeOK, Responses, Codes, Sendable, Truths, HandleSet, Kinds
<1>10. Traced'
  BY <1>1, <1>2, <1>4, <1>5, <1>8, KeepTraced
<1>11. Served'
  BY <1>2, <1>3, <1>4 DEF Served
<1>12. \A w \in events : IsFinish(w) => w.of # Request
  BY <1>1, <1>4 DEF Finished
<1>13. Finished'
  <2>1. \A w \in events' : IsFinish(w) => w.of \in Handles /\ handle'[w.of].ends = 1
    BY <1>1, <1>3, <1>4, <1>5, <1>8 DEF Finished
  <2>2. \A w, x \in events' : IsFinish(w) /\ IsFinish(x) /\ w.of = x.of => w = x
    BY <1>1, <1>5, <1>8, <1>12 DEF Finished
  <2> QED  BY <1>2, <1>4, <1>5, <1>8, <2>1, <2>2 DEF Finished, IsFinish
<1>14. Agrees' /\ StatusIsSent'
  <2>1. (Gin \/ ~response.again) => response'.recorded = response'.sent
    BY <1>1, <1>2, <1>3, ResponseFacts DEF Agrees, Responses, Codes, Sendable, Truths
  <2>2. Gin' = Gin /\ response'.again = response.again
        /\ response'.recorded = response.recorded
    BY <1>2, <1>3, ResponseFacts DEF Gin
  <2>3. \A w \in Finishes(Request)' : w.code = response.recorded
    BY <1>5, <1>8, <1>12 DEF Finishes, IsFinish
  <2> QED  BY <2>1, <2>2, <2>3 DEF Agrees, StatusIsSent
<1> QED  BY <1>9, <1>10, <1>11, <1>13, <1>14 DEF IInv

LEMMA ByHandIInv ==
    ASSUME IInv, NEW c \in contexts, ContextWithIDs(c)
    PROVE  IInv'
<1>1. TypeOK /\ Traced /\ Served /\ Finished /\ Agrees /\ StatusIsSent
  BY DEF IInv
<1>2. UNCHANGED <<chain, server, stored, handle, response, events>>
  BY DEF ContextWithIDs
<1>3. PICK d \in RequestContexts : Fresh(d) /\ contexts' = contexts \cup {d}
  BY <1>1, ByHandFacts DEF TypeOK
<1>4. TypeOK'
  BY <1>1, <1>2, <1>3 DEF TypeOK
<1>5. Traced'
  BY <1>1, <1>2, <1>3, KeepTraced
<1>6. Served' /\ Finished' /\ Agrees' /\ StatusIsSent'
  BY <1>1, <1>2 DEF Served, Finished, Agrees, StatusIsSent, Finishes, Gin
<1> QED  BY <1>4, <1>5, <1>6 DEF IInv

LEMMA NextIInv == IInv /\ [Next]_vars => IInv'
<1> SUFFICES ASSUME IInv, [Next]_vars  PROVE IInv'
  OBVIOUS
<1>1. CASE Serve
  BY <1>1, ServeIInv
<1>2. CASE Serves
  BY <1>2, HandlerIInv, FinishIInv
<1>3. ASSUME NEW h \in Calls,
             (\E c \in contexts : Starts(h, c)) \/ Ends(h) \/ Reports(h)
      PROVE  IInv'
  BY <1>3, StartIInv, EndIInv, ReportIInv
<1>4. CASE UNCHANGED vars
  BY <1>4 DEF vars, IInv, TypeOK, Traced, InTrace, InOwnTrace, TracedEvent, Root,
              Served, Finished, Agrees, StatusIsSent, Finishes, Gin
<1>5. ASSUME NEW c \in contexts, ContextWithIDs(c)  PROVE IInv'
  BY <1>5, ByHandIInv
<1> QED  BY <1>1, <1>2, <1>3, <1>4, <1>5 DEF Next, Serves, Starts, Ends, Reports

LEMMA Invariant == Spec => []IInv
BY InitIInv, NextIInv, PTL DEF Spec

-----------------------------------------------------------------------------
(* Spans: what hangs under what                                              *)

\* Nearest, in any handles.
NearestIn(H, id, path, n) ==
    LET places == {i \in 1..n : H[path[i]].kind \in SpanKinds}
    IN  \/ \E i \in places : (\A j \in places : j <= i) /\ id = path[i]
        \/ /\ places = {}
           /\ id = IF n = 0 THEN None ELSE H[path[1]].ctx.span

\* A context keeps the span it is inside of, a span the one its context was
\* inside of, and an event of a span the parent of the span; what is made of
\* ids set by hand may be inside of any.
HungContext(c) ==
    (c.path = <<>> /\ c.hand) \/ NearestIn(handle, c.span, c.path, Len(c.path))
HungHandle(h) ==
    handle[h].kind \in SpanKinds =>
        \/ (handle[h].ctx.hand /\ Len(handle[h].ctx.path) = 1)
        \/ NearestIn(handle, handle[h].parent, handle[h].ctx.path,
                     Len(handle[h].ctx.path) - 1)
SpanEvent(v) ==
    v.of \in Handles /\ handle[v.of].kind \in SpanKinds
    /\ v.parent = handle[v.of].parent
Hung ==
    /\ \A c \in contexts : HungContext(c)
    /\ \A h \in Handles : HungHandle(h)
    /\ \A v \in events : v.type = "span" => SpanEvent(v)

\* The nearest span of a path is a matter of its calls alone.
LEMMA NearestKept ==
    ASSUME NEW H, NEW G, NEW id, NEW path, NEW longer, NEW n \in Nat,
           \A i \in 1..n : /\ longer[i] = path[i]
                           /\ G[path[i]].kind = H[path[i]].kind
                           /\ G[path[i]].ctx = H[path[i]].ctx,
           NearestIn(H, id, path, n)
    PROVE  NearestIn(G, id, longer, n)
<1> DEFINE P == {i \in 1..n : H[path[i]].kind \in SpanKinds}
           Q == {i \in 1..n : G[longer[i]].kind \in SpanKinds}
<1>1. P = Q /\ \A i \in P : longer[i] = path[i]
  OBVIOUS
<1>2. n # 0 => G[longer[1]].ctx.span = H[path[1]].ctx.span
  <2>1. n # 0 => 1 \in 1..n
    OBVIOUS
  <2> QED  BY <2>1
<1>3. \/ \E i \in P : (\A j \in P : j <= i) /\ id = path[i]
      \/ P = {} /\ id = IF n = 0 THEN None ELSE H[path[1]].ctx.span
  BY DEF NearestIn
<1>4. \/ \E i \in Q : (\A j \in Q : j <= i) /\ id = longer[i]
      \/ Q = {} /\ id = IF n = 0 THEN None ELSE G[longer[1]].ctx.span
  <2> HIDE DEF P, Q
  <2> QED  BY <1>1, <1>2, <1>3
<1> QED  BY <1>4 DEF NearestIn

\* A call more on a path: a span is the nearest, an operation leaves the nearest.
LEMMA NearestGrows ==
    ASSUME NEW G, NEW id, NEW path \in Seq(Handles), NEW h \in Handles,
           \/ G[h].kind \in SpanKinds /\ id = h
           \/ /\ G[h].kind \notin SpanKinds
              /\ \/ path = <<>> /\ id = G[h].ctx.span
                 \/ path # <<>> /\ NearestIn(G, id, path, Len(path))
    PROVE  NearestIn(G, id, Append(path, h), Len(Append(path, h)))
<1> DEFINE w == Append(path, h)
           n == Len(path)
           Q == {i \in 1..(n + 1) : G[w[i]].kind \in SpanKinds}
<1>1. /\ n \in Nat /\ Len(w) = n + 1 /\ w[n + 1] = h
      /\ \A i \in 1..n : w[i] = path[i]
      /\ path # <<>> <=> n # 0
  OBVIOUS
<1> HIDE DEF w, n
<1>2. CASE G[h].kind \in SpanKinds /\ id = h
  <2>1. n + 1 \in Q /\ \A j \in Q : j <= n + 1
    BY <1>1, <1>2
  <2>2. \E i \in Q : (\A j \in Q : j <= i) /\ id = w[i]
    BY <1>1, <1>2, <2>1
  <2>3. NearestIn(G, id, w, n + 1)
    BY <2>2 DEF NearestIn
  <2> QED  BY <1>1, <2>3 DEF w
<1>3. CASE G[h].kind \notin SpanKinds /\ path = <<>> /\ id = G[h].ctx.span
  <2>1. n = 0 /\ w[1] = h
    BY <1>1, <1>3
  <2>2. Q = {} /\ n + 1 # 0 /\ id = G[w[1]].ctx.span
    BY <1>3, <2>1
  <2>3. NearestIn(G, id, w, n + 1)
    BY <2>2 DEF NearestIn
  <2> QED  BY <1>1, <2>3 DEF w
<1>4. CASE G[h].kind \notin SpanKinds /\ path # <<>> /\ NearestIn(G, id, path, n)
  <2> DEFINE P == {i \in 1..n : G[path[i]].kind \in SpanKinds}
  <2>1. P = Q
    BY <1>1, <1>4
  <2>2. w[1] = path[1] /\ n # 0 /\ n + 1 # 0
    BY <1>1, <1>4
  <2>3. \A i \in P : w[i] = path[i]
    BY <1>1
  <2>4. \/ \E i \in P : (\A j \in P : j <= i) /\ id = path[i]
        \/ P = {} /\ id = G[path[1]].ctx.span
    BY <1>4, <2>2 DEF NearestIn
  <2>5. \/ \E i \in Q : (\A j \in Q : j <= i) /\ id = w[i]
        \/ Q = {} /\ id = G[w[1]].ctx.span
    <3> HIDE DEF P, Q
    <3> QED  BY <2>1, <2>2, <2>3, <2>4
  <2>6. NearestIn(G, id, w, n + 1)
    BY <2>2, <2>5 DEF NearestIn
  <2> QED  BY <1>1, <2>6 DEF w
<1> QED  BY <1>2, <1>3, <1>4 DEF n

\* A span that was started is on a path of calls, its own.
LEMMA OwnPath ==
    ASSUME TypeOK, Traced, NEW h \in Handles, handle[h].kind \in SpanKinds
    PROVE  /\ handle[h].ctx \in contexts
           /\ handle[h].ctx.path \in Seq(Handles) /\ handle[h].ctx.path # <<>>
<1>1. handle[h].ctx \in contexts /\ h \in ToSet(handle[h].ctx.path)
  BY DEF Traced, InOwnTrace, SpanKinds
<1>2. handle[h].ctx.path # <<>>
  BY <1>1, EmptyPath
<1> QED  BY <1>1, <1>2, StartedPath

\* A step that opens nothing.
LEMMA KeepHung ==
    ASSUME TypeOK, Traced, Hung,
           \A h \in Handles : /\ handle'[h].kind = handle[h].kind
                              /\ handle'[h].ctx = handle[h].ctx
                              /\ handle'[h].parent = handle[h].parent,
           \A c \in contexts' : c \in contexts \/ Fresh(c),
           \A v \in events' : v \in events \/ (v.type = "span" => SpanEvent(v))
    PROVE  Hung'
<1>1. ASSUME NEW path \in Seq(Handles), NEW n \in 0..Len(path), NEW id,
             NearestIn(handle, id, path, n)
      PROVE  NearestIn(handle', id, path, n)
  <2>1. \A i \in 1..n : path[i] \in Handles
    OBVIOUS
  <2> QED  BY <1>1, <2>1, NearestKept
<1>2. ASSUME NEW c \in contexts', ~(c.path = <<>> /\ c.hand)
      PROVE  NearestIn(handle', c.span, c.path, Len(c.path))
  <2>1. CASE c \in contexts
    <3>1. c.path \in Seq(Handles) /\ NearestIn(handle, c.span, c.path, Len(c.path))
      BY <1>2, <2>1, StartedPath DEF Hung, HungContext
    <3>2. Len(c.path) \in 0..Len(c.path)
      BY <3>1
    <3> QED  BY <1>1, <3>1, <3>2
  <2>2. CASE Fresh(c)
    <3>1. c.path = <<>> /\ c.span = None /\ Len(<<>>) = 0
      BY <1>2, <2>2 DEF Fresh
    <3> QED  BY <3>1 DEF NearestIn
  <2> QED  BY <2>1, <2>2
<1>3. ASSUME NEW h \in Handles, handle'[h].kind \in SpanKinds,
             ~(handle'[h].ctx.hand /\ Len(handle'[h].ctx.path) = 1)
      PROVE  NearestIn(handle', handle'[h].parent, handle'[h].ctx.path,
                       Len(handle'[h].ctx.path) - 1)
  <2>1. /\ handle[h].ctx.path \in Seq(Handles) /\ handle[h].ctx.path # <<>>
        /\ NearestIn(handle, handle[h].parent, handle[h].ctx.path,
                     Len(handle[h].ctx.path) - 1)
    BY <1>3, OwnPath DEF Hung, HungHandle
  <2>2. Len(handle[h].ctx.path) - 1 \in 0..Len(handle[h].ctx.path)
    <3> DEFINE p == handle[h].ctx.path
    <3>1. p \in Seq(Handles) /\ p # <<>>
      BY <2>1
    <3> HIDE DEF p
    <3>2. Len(p) - 1 \in 0..Len(p)
      BY <3>1
    <3> QED  BY <3>2 DEF p
  <2>3. NearestIn(handle', handle[h].parent, handle[h].ctx.path,
                  Len(handle[h].ctx.path) - 1)
    BY <1>1, <2>1, <2>2
  <2> QED  BY <2>3
<1>4. ASSUME NEW v \in events', v.type = "span"  PROVE SpanEvent(v)'
  <2>1. SpanEvent(v)
    BY <1>4 DEF Hung
  <2> QED  BY <2>1 DEF SpanEvent
<1>5. \A c \in contexts' : HungContext(c)'
  BY <1>2 DEF HungContext
<1>6. \A h \in Handles : HungHandle(h)'
  BY <1>3 DEF HungHandle
<1> QED  BY <1>4, <1>5, <1>6 DEF Hung

\* A call that opens a handle, as a span or not.
LEMMA OpenHung ==
    ASSUME TypeOK, Traced, Hung, NEW h \in Handles, NEW path \in Seq(Handles),
           NEW own \in RequestContexts,
           handle[h].kind = "none", handle'[h].ctx = own, own.path = Append(path, h),
           \A g \in Handles \ {h} : handle'[g] = handle[g],
           contexts' = contexts \cup {own},
           \A v \in events' : v \in events \/ v.type # "span",
           \/ path = <<>> /\ handle'[h].kind \notin SpanKinds
           \/ \E c \in contexts :
                 /\ path = c.path /\ own.hand = c.hand
                 /\ IF handle'[h].kind \in SpanKinds
                    THEN own.span = h /\ handle'[h].parent = c.span
                    ELSE own.span = c.span
    PROVE  Hung'
<1>1. \A c \in contexts : /\ c.path \in Seq(Handles)
                          /\ \A i \in 1..Len(c.path) : c.path[i] \in Handles \ {h}
  <2>1. ASSUME NEW c \in contexts, NEW i \in 1..Len(c.path)
        PROVE  c.path[i] \in Handles \ {h}
    <3>1. c.path \in Seq(Handles) /\ \A g \in ToSet(c.path) : handle[g].kind # "none"
      BY StartedPath
    <3>2. c.path[i] \in ToSet(c.path) /\ c.path[i] \in Handles
      BY <3>1 DEF ToSet
    <3> QED  BY <3>1, <3>2
  <2> QED  BY <2>1, StartedPath
<1>2. ASSUME NEW c \in contexts, NEW n \in 0..Len(c.path), NEW id,
             NearestIn(handle, id, c.path, n)
      PROVE  NearestIn(handle', id, c.path, n)
  <2>1. \A i \in 1..n : handle'[c.path[i]] = handle[c.path[i]]
    BY <1>1
  <2> QED  BY <1>2, <2>1, NearestKept
<1>3. ASSUME NEW c \in contexts, ~(c.path = <<>> /\ c.hand)
      PROVE  NearestIn(handle', c.span, c.path, Len(c.path))
  <2>1. Len(c.path) \in 0..Len(c.path) /\ NearestIn(handle, c.span, c.path, Len(c.path))
    BY <1>1, <1>3 DEF Hung, HungContext
  <2> QED  BY <1>2, <2>1
<1>4. NearestIn(handle', own.span, own.path, Len(own.path))
  <2>1. CASE path = <<>> /\ handle'[h].kind \notin SpanKinds
    <3>1. own.span = handle'[h].ctx.span
      OBVIOUS
    <3> QED  BY <2>1, <3>1, NearestGrows
  <2>2. ASSUME NEW c \in contexts, path = c.path,
               IF handle'[h].kind \in SpanKinds
               THEN own.span = h /\ handle'[h].parent = c.span
               ELSE own.span = c.span
        PROVE  NearestIn(handle', own.span, own.path, Len(own.path))
    <3>1. own.span = handle'[h].ctx.span
      OBVIOUS
    <3>2. CASE handle'[h].kind \in SpanKinds
      BY <2>2, <3>2, NearestGrows
    <3>3. CASE handle'[h].kind \notin SpanKinds /\ path = <<>>
      BY <3>1, <3>3, NearestGrows
    <3>4. CASE handle'[h].kind \notin SpanKinds /\ path # <<>>
      <4>1. NearestIn(handle', c.span, path, Len(path))
        BY <1>3, <2>2, <3>4
      <4> QED  BY <2>2, <3>4, <4>1, NearestGrows
    <3> QED  BY <3>2, <3>3, <3>4
  <2> QED  BY <2>1, <2>2
<1>5. HungHandle(h)'
  <2> SUFFICES ASSUME handle'[h].kind \in SpanKinds,
                      ~(own.hand /\ Len(own.path) = 1)
               PROVE  NearestIn(handle', handle'[h].parent, own.path, Len(own.path) - 1)
    BY DEF HungHandle
  <2>1. PICK c \in contexts : /\ path = c.path /\ own.hand = c.hand
                              /\ handle'[h].parent = c.span
    OBVIOUS
  <2>2. /\ Len(own.path) - 1 = Len(path) /\ Len(path) \in Nat
        /\ \A i \in 1..Len(path) : own.path[i] = path[i]
    OBVIOUS
  <2>3. NearestIn(handle', c.span, path, Len(path))
    <3>1. path = <<>> => Len(own.path) = 1
      OBVIOUS
    <3>2. ~(c.path = <<>> /\ c.hand)
      BY <2>1, <3>1
    <3> QED  BY <1>3, <2>1, <3>2
  <2>4. NearestIn(handle', c.span, own.path, Len(path))
    <3> DEFINE n == Len(path)
    <3>1. /\ n \in Nat /\ NearestIn(handle', c.span, path, n)
          /\ \A i \in 1..n : /\ own.path[i] = path[i]
                            /\ handle'[path[i]].kind = handle'[path[i]].kind
                            /\ handle'[path[i]].ctx = handle'[path[i]].ctx
      BY <2>2, <2>3
    <3> HIDE DEF n
    <3>2. NearestIn(handle', c.span, own.path, n)
      BY <3>1, NearestKept, ZenonT(30)
    <3> QED  BY <3>2 DEF n
  <2> QED  BY <2>1, <2>2, <2>4
<1>6. ASSUME NEW g \in Handles \ {h}, handle'[g].kind \in SpanKinds,
             ~(handle'[g].ctx.hand /\ Len(handle'[g].ctx.path) = 1)
      PROVE  NearestIn(handle', handle'[g].parent, handle'[g].ctx.path,
                       Len(handle'[g].ctx.path) - 1)
  <2>1. /\ handle[g].ctx \in contexts /\ handle[g].ctx.path \in Seq(Handles)
        /\ handle[g].ctx.path # <<>> /\ handle'[g] = handle[g]
        /\ NearestIn(handle, handle[g].parent, handle[g].ctx.path,
                     Len(handle[g].ctx.path) - 1)
    BY <1>6, OwnPath DEF Hung, HungHandle
  <2>2. Len(handle[g].ctx.path) - 1 \in 0..Len(handle[g].ctx.path)
    <3> DEFINE p == handle[g].ctx.path
    <3>1. p \in Seq(Handles) /\ p # <<>>
      BY <2>1
    <3> HIDE DEF p
    <3>2. Len(p) - 1 \in 0..Len(p)
      BY <3>1
    <3> QED  BY <3>2 DEF p
  <2>3. NearestIn(handle', handle[g].parent, handle[g].ctx.path,
                  Len(handle[g].ctx.path) - 1)
    BY <1>2, <2>1, <2>2
  <2> QED  BY <2>1, <2>3
<1>7. ASSUME NEW v \in events', v.type = "span"  PROVE SpanEvent(v)'
  <2>1. SpanEvent(v)
    BY <1>7 DEF Hung
  <2>2. v.of # h
    BY <2>1 DEF SpanEvent, SpanKinds
  <2> QED  BY <2>1, <2>2 DEF SpanEvent
<1>8. \A g \in Handles : HungHandle(g)'
  BY <1>5, <1>6 DEF HungHandle
<1>9. \A c \in contexts' : HungContext(c)'
  BY <1>3, <1>4 DEF HungContext
<1> QED  BY <1>7, <1>8, <1>9 DEF Hung

LEMMA StartHung ==
    ASSUME TypeOK, Traced, Hung, NEW h \in Calls, NEW c \in contexts, Starts(h, c)
    PROVE  Hung'
<1>1. h \in Handles /\ c \in RequestContexts /\ c.path \in Seq(Handles)
      /\ c.span \in Ids
  BY Names DEF TypeOK, RequestContexts
<1> DEFINE plain == [Ensured(c, h) EXCEPT !.path = Append(c.path, h)]
           inner == [Inside(Ensured(c, h), h) EXCEPT !.path = Append(c.path, h)]
<1>2. Ensured(c, h) \in RequestContexts /\ Inside(Ensured(c, h), h) \in RequestContexts
  BY <1>1, ContextTypes
<1>3. /\ Ensured(c, h).path = c.path /\ Ensured(c, h).span = c.span
      /\ Ensured(c, h).hand = c.hand /\ Inside(Ensured(c, h), h).hand = c.hand
      /\ Inside(Ensured(c, h), h).path = c.path
      /\ Inside(Ensured(c, h), h).span = h
  <2>1. Ensured(c, h).path = c.path /\ Ensured(c, h).span = c.span
        /\ Ensured(c, h).hand = c.hand
    BY <1>1 DEF RequestContexts, Ensured
  <2>2. Inside(Ensured(c, h), h).path = Ensured(c, h).path
        /\ Inside(Ensured(c, h), h).hand = Ensured(c, h).hand
        /\ Inside(Ensured(c, h), h).span = h
    BY <1>2 DEF RequestContexts, Inside
  <2> QED  BY <2>1, <2>2
<1>4. /\ plain \in RequestContexts /\ inner \in RequestContexts
      /\ plain.path = Append(c.path, h) /\ inner.path = Append(c.path, h)
      /\ plain.span = c.span /\ inner.span = h
      /\ plain.hand = c.hand /\ inner.hand = c.hand
  <2>1. plain \in RequestContexts /\ inner \in RequestContexts
    BY <1>1, <1>2, <1>3, ContextTypes
  <2> QED  BY <1>2, <1>3, <2>1 DEF RequestContexts
<1>5. CASE StartOperation(h, c)
  <2> DEFINE v == Event("request_started", h, plain)
  <2>1. /\ Opened(h, "operation", plain, None)
        /\ contexts' = contexts \cup {plain} /\ events' = events \cup {v}
    BY <1>3, <1>5 DEF StartOperation
  <2>2. v.type = "request_started"
    BY DEF Event
  <2>3. "operation" \in Kinds \ {"none"} /\ None \in Ids /\ "operation" \notin SpanKinds
    BY Names DEF Kinds, SpanKinds
  <2> HIDE DEF plain, v
  <2>4. /\ handle[h].kind = "none" /\ handle'[h].ctx = plain
        /\ handle'[h].kind = "operation"
        /\ \A g \in Handles \ {h} : handle'[g] = handle[g]
    BY <1>1, <1>4, <2>1, <2>3, OpenedFacts
  <2>5. \A w \in events' : w \in events \/ w.type # "span"
    BY <2>1, <2>2
  <2>6. \E d \in contexts :
           /\ c.path = d.path /\ plain.hand = d.hand
           /\ IF handle'[h].kind \in SpanKinds
              THEN plain.span = h /\ handle'[h].parent = d.span
              ELSE plain.span = d.span
    BY <1>4, <2>3, <2>4
  <2> QED  BY <1>1, <1>4, <2>1, <2>4, <2>5, <2>6, OpenHung
<1>6. CASE StartSpan(h, c) \/ StartTrip(h, c)
  <2>1. /\ contexts' = contexts \cup {inner} /\ events' = events
        /\ \E k \in SpanKinds : Opened(h, k, inner, c.span)
    BY <1>3, <1>6 DEF StartSpan, StartTrip, SpanKinds
  <2>2. PICK kind \in SpanKinds : Opened(h, kind, inner, c.span)
    BY <2>1
  <2>3. kind \in Kinds \ {"none"}
    BY DEF Kinds, SpanKinds
  <2> HIDE DEF inner
  <2>4. /\ handle[h].kind = "none" /\ handle'[h].ctx = inner
        /\ handle'[h].kind = kind /\ handle'[h].parent = c.span
        /\ \A g \in Handles \ {h} : handle'[g] = handle[g]
    BY <1>1, <1>4, <2>2, <2>3, OpenedFacts
  <2>5. \E d \in contexts :
           /\ c.path = d.path /\ inner.hand = d.hand
           /\ IF handle'[h].kind \in SpanKinds
              THEN inner.span = h /\ handle'[h].parent = d.span
              ELSE inner.span = d.span
    BY <1>4, <2>4
  <2> QED  BY <1>1, <1>4, <2>1, <2>4, <2>5, OpenHung
<1> QED  BY <1>5, <1>6 DEF Starts

LEMMA ServeHung ==
    ASSUME TypeOK, Traced, Hung, Serve
    PROVE  Hung'
<1>1. PICK headers \in Headers :
        LET own == [Ensured(headers, Request) EXCEPT !.path = <<Request>>]
        IN  /\ Opened(Request, "request", own, None)
            /\ events' = events \cup {Event("request_started", Request, own)}
            /\ contexts' = contexts \cup {own}
  BY DEF Serve
<1> DEFINE own == [Ensured(headers, Request) EXCEPT !.path = <<Request>>]
           v == Event("request_started", Request, own)
<1>2. /\ Opened(Request, "request", own, None) /\ events' = events \cup {v}
      /\ contexts' = contexts \cup {own}
  BY <1>1
<1>3. headers \in RequestContexts
  <2>1. headers \in [request : {None, "in"}, trace : {None, "in"},
                     span : {None, "remote"}, path : {<<>>}, hand : {FALSE}]
    BY LifecycleAssumption
  <2>2. {None, "in"} \subseteq Ids /\ {None, "remote"} \subseteq Ids
        /\ {<<>>} \subseteq Seq(Handles)
    BY Names
  <2> QED  BY <2>1, <2>2 DEF RequestContexts
<1>4. <<Request>> = Append(<<>>, Request) /\ <<>> \in Seq(Handles)
      /\ Request \in Handles /\ <<Request>> \in Seq(Handles)
  BY Names
<1>5. own \in RequestContexts /\ own.path = Append(<<>>, Request)
  <2>1. Ensured(headers, Request) \in RequestContexts
    BY <1>3, <1>4, ContextTypes
  <2> QED  BY <1>4, <2>1 DEF RequestContexts
<1>6. v.type = "request_started"
  BY DEF Event
<1>7. "request" \in Kinds \ {"none"} /\ None \in Ids /\ "request" \notin SpanKinds
  BY Names DEF Kinds, SpanKinds
<1> HIDE DEF own, v
<1>8. /\ handle[Request].kind = "none" /\ handle'[Request].ctx = own
      /\ handle'[Request].kind = "request"
      /\ \A g \in Handles \ {Request} : handle'[g] = handle[g]
  BY <1>2, <1>4, <1>5, <1>7, OpenedFacts
<1>9. \A w \in events' : w \in events \/ w.type # "span"
  BY <1>2, <1>6
<1> QED  BY <1>2, <1>4, <1>5, <1>7, <1>8, <1>9, OpenHung

\* What a span, and a round trip, report is of the span.
LEMMA EndHung ==
    ASSUME TypeOK, Traced, Hung, NEW h \in Calls, Ends(h) \/ Reports(h)
    PROVE  Hung'
<1>1. h \in Handles
  BY Names
<1>2. /\ contexts' = contexts
      /\ \A g \in Handles : /\ handle'[g].kind = handle[g].kind
                            /\ handle'[g].ctx = handle[g].ctx
                            /\ handle'[g].parent = handle[g].parent
  <2>1. CASE Ends(h)
    <3>1. MayEnd(h) /\ Ended(h) /\ contexts' = contexts
      BY <2>1, EndFacts
    <3> QED  BY <1>1, <3>1, EndedFacts
  <2>2. CASE Reports(h)
    BY <2>2, ReportFacts
  <2> QED  BY <2>1, <2>2
<1>3. \A v \in events' : v \in events \/ (v.type = "span" => SpanEvent(v))
  <2>1. ASSUME NEW c \in contexts, EndOperation(h, c)
        PROVE  \A v \in events' : v \in events \/ v.type # "span"
    <3> DEFINE w == [MergedEvent("request_finished", h, c) EXCEPT !.nth = Nth(h)]
    <3>1. events' = events \cup {w} /\ handle[h].kind # "none"
      BY <2>1 DEF EndOperation
    <3>2. IsOf(w, h, "request_finished")
      BY <1>1, <3>1, MergedFacts
    <3> HIDE DEF w
    <3> QED  BY <3>1, <3>2 DEF IsOf
  <2>2. ASSUME NEW c \in contexts, StepOperation(h, c)
        PROVE  \A v \in events' : v \in events \/ v.type # "span"
    <3> DEFINE w == MergedEvent("log_event", h, c)
    <3>1. events' = events \cup {w} /\ handle[h].kind # "none"
      BY <2>2 DEF StepOperation
    <3>2. IsOf(w, h, "log_event")
      BY <1>1, <3>1, MergedFacts
    <3> HIDE DEF w
    <3> QED  BY <3>1, <3>2 DEF IsOf
  <2>3. CASE RecordError(h)
    <3> DEFINE w == Event("error_event", h, handle[h].ctx)
    <3>1. events' = events \cup {w}
      BY <2>3 DEF RecordError
    <3>2. w.type = "error_event"
      BY DEF Event
    <3> HIDE DEF w
    <3> QED  BY <3>1, <3>2
  <2>4. CASE EndSpan(h)
    <3> DEFINE w == [Event("span", h, handle[h].ctx) EXCEPT !.span = h, !.nth = Nth(h)]
    <3>1. events' = events \cup {w} /\ handle[h].kind = "span"
      BY <2>4 DEF EndSpan
    <3>2. w.of = h /\ w.parent = handle[h].parent
      BY DEF Event
    <3> HIDE DEF w
    <3> QED  BY <1>1, <3>1, <3>2 DEF SpanEvent, SpanKinds
  <2>5. ASSUME NEW failed \in BOOLEAN, EndTrip(h, failed)
        PROVE  \A v \in events' : v \in events \/ (v.type = "span" => SpanEvent(v))
    <3> DEFINE w == [Event("span", h, handle[h].ctx) EXCEPT !.nth = Nth(h)]
               x == Event("error_event", h, handle[h].ctx)
    <3>1. /\ handle[h].kind = "trip"
          /\ events' = events \cup {w} \cup IF failed THEN {x} ELSE {}
      BY <2>5 DEF EndTrip
    <3>2. w.of = h /\ w.parent = handle[h].parent /\ x.type = "error_event"
      BY DEF Event
    <3> HIDE DEF w, x
    <3>3. SpanEvent(w)
      BY <1>1, <3>1, <3>2 DEF SpanEvent, SpanKinds
    <3> QED  BY <3>1, <3>2, <3>3
  <2> QED  BY <2>1, <2>2, <2>3, <2>4, <2>5 DEF Ends, Reports
<1> QED  BY <1>2, <1>3, KeepHung

\* The goroutine that serves the request opens no span.
LEMMA ServesHung ==
    ASSUME TypeOK, Traced, Hung, Serves, handle[Request].kind # "none"
    PROVE  Hung'
<1>1. \A g \in Handles : /\ handle'[g].kind = handle[g].kind
                         /\ handle'[g].ctx = handle[g].ctx
                         /\ handle'[g].parent = handle[g].parent
  <2>1. CASE Finish
    <3>1. MayEnd(Request) /\ Ended(Request)
      BY <2>1 DEF Finish
    <3> QED  BY <3>1, Names, EndedFacts
  <2>2. CASE ~Finish
    <3>1. handle' = handle
      BY <2>2 DEF Serves, SetRequestContext, WriteBody, WriteHeader, Panic, Recover
    <3> QED  BY <3>1
  <2> QED  BY <2>1, <2>2
<1>2. contexts' = contexts
  BY DEF Serves, SetRequestContext, WriteBody, WriteHeader, Panic, Recover, Finish
<1>3. \A v \in events' : v \in events \/ v.type # "span"
  <2>1. CASE Recover
    <3> DEFINE w == [Event("error_event", Request, stored) EXCEPT
                        !.foreign = Foreign(Request, stored)]
    <3>1. events' = events \cup {w}
      BY <2>1 DEF Recover
    <3>2. w.type = "error_event"
      BY DEF Event
    <3> HIDE DEF w
    <3> QED  BY <3>1, <3>2
  <2>2. CASE Finish
    <3> DEFINE c == IF Gin THEN stored ELSE Background
               w == [MergedEvent("request_finished", Request, c) EXCEPT
                        !.code = response.recorded, !.nth = Nth(Request)]
    <3>1. events' = events \cup {w}
      BY <2>2 DEF Finish
    <3>2. c \in contexts /\ Request \in Handles
      BY Names DEF TypeOK, Traced
    <3> HIDE DEF c
    <3>3. IsOf(w, Request, "request_finished")
      BY <3>2, MergedFacts
    <3> HIDE DEF w
    <3> QED  BY <3>1, <3>3 DEF IsOf
  <2>3. CASE ~Recover /\ ~Finish
    BY <2>3 DEF Serves, SetRequestContext, WriteBody, WriteHeader, Panic
  <2> QED  BY <2>1, <2>2, <2>3
<1> QED  BY <1>1, <1>2, <1>3, KeepHung

LEMMA ByHandHung ==
    ASSUME TypeOK, Traced, Hung, NEW c \in contexts, ContextWithIDs(c)
    PROVE  Hung'
<1>1. handle' = handle /\ events' = events
  BY DEF ContextWithIDs
<1>2. PICK d \in RequestContexts : Fresh(d) /\ contexts' = contexts \cup {d}
  BY ByHandFacts DEF TypeOK
<1> QED  BY <1>1, <1>2, KeepHung

LEMMA NextHung == IInv /\ Hung /\ [Next]_vars => Hung'
<1> SUFFICES ASSUME IInv, Hung, [Next]_vars  PROVE Hung'
  OBVIOUS
<1>1. TypeOK /\ Traced
  BY DEF IInv
<1>2. CASE Serve
  BY <1>1, <1>2, ServeHung
<1>3. CASE Serves
  <2>1. server # "start"
    BY <1>3 DEF Serves, SetRequestContext, WriteBody, WriteHeader, Panic, Recover,
           Finish
  <2> QED  BY <1>1, <1>3, <2>1, ServesHung DEF IInv, Served
<1>4. ASSUME NEW h \in Calls,
             (\E c \in contexts : Starts(h, c)) \/ Ends(h) \/ Reports(h)
      PROVE  Hung'
  BY <1>1, <1>4, StartHung, EndHung
<1>5. CASE UNCHANGED vars
  BY <1>5 DEF vars, Hung, HungContext, HungHandle, SpanEvent
<1>6. ASSUME NEW c \in contexts, ContextWithIDs(c)  PROVE Hung'
  BY <1>1, <1>6, ByHandHung
<1> QED  BY <1>2, <1>3, <1>4, <1>5, <1>6 DEF Next, Serves, Starts, Ends, Reports

LEMMA InitHung == Init => Hung
<1> SUFFICES ASSUME Init  PROVE Hung
  OBVIOUS
<1>1. Background.span = None /\ Background.path = <<>> /\ Len(<<>>) = 0
  BY DEF Background
<1>2. NearestIn(handle, None, <<>>, 0)
  BY DEF NearestIn
<1>3. \A h \in Handles : handle[h].kind = "none"
  BY DEF Init, NoHandle
<1> QED  BY <1>1, <1>2, <1>3 DEF Init, Hung, HungContext, HungHandle, SpanKinds

-----------------------------------------------------------------------------
(* The theorems                                                              *)

\* Every variable holds what its declaration says; nothing ends that did not
\* start.
THEOREM TypeCorrect == Spec => []TypeOK
<1>1. IInv => TypeOK
  BY DEF IInv
<1> QED  BY <1>1, Invariant, PTL

\* request.go:110-152, operation.go, span.go: `ended` lets an object finish
\* once, and the middlewares finish their request when the handler is through.
THEOREM FinishesOnce == Spec => []FinishedOnce
<1>1. ASSUME IInv  PROVE FinishedOnce
  <2>1. Finished /\ Request \in Handles /\ TypeOK
    BY <1>1, Names DEF IInv
  <2>2. ASSUME NEW h  PROVE Cardinality(Finishes(h)) <= 1
    <3>1. \A v, w \in Finishes(h) : v = w
      BY <2>1 DEF Finished, Finishes, IsFinish
    <3>2. CASE Finishes(h) = {}
      BY <3>2, FS_EmptySet
    <3>3. CASE Finishes(h) # {}
      <4>1. PICK v : Finishes(h) = {v}
        BY <3>1, <3>3
      <4>2. Cardinality(Finishes(h)) = 1
        BY <4>1, FS_Singleton
      <4> QED  BY <4>2
    <3> QED  BY <3>2, <3>3
  <2>3. server # "done" => Finishes(Request) = {}
    BY <2>1 DEF Finished, Finishes, IsFinish
  <2>4. server = "done" => Cardinality(Finishes(Request)) = 1
    <3> SUFFICES ASSUME server = "done"  PROVE Cardinality(Finishes(Request)) = 1
      OBVIOUS
    <3>1. PICK v \in events : v.of = Request /\ IsFinish(v)
      BY <2>1 DEF Finished
    <3>2. Finishes(Request) = {v}
      BY <2>1, <3>1 DEF Finished, Finishes, IsFinish
    <3> QED  BY <3>2, FS_Singleton
  <2> QED  BY <2>2, <2>3, <2>4 DEF FinishedOnce
<1> QED  BY <1>1, Invariant, PTL

\* operation.go:236-263, context.go: a context made under a call brings the ids
\* of the call's trace, so that merging it changes nothing, and a trace that
\* begins anew has ids no other has.
THEOREM OneTraceEach == Spec => []OneTrace
<1>1. ASSUME IInv  PROVE OneTrace
  <2>1. TypeOK /\ Traced
    BY <1>1 DEF IInv
  <2>2. ASSUME NEW v \in events, ~v.foreign
        PROVE  /\ Root(v.of) \in Handles
               /\ v.request = handle[Root(v.of)].ctx.request
               /\ v.trace = handle[Root(v.of)].ctx.trace
               /\ \/ handle[Root(v.of)].ctx.hand
                  \/ /\ v.request \in Origin(Root(v.of))
                     /\ v.trace \in Origin(Root(v.of))
    <3>1. TracedEvent(v)
      BY <2>1 DEF Traced
    <3> DEFINE c == handle[v.of].ctx
    <3>2. c \in contexts /\ v.of \in ToSet(c.path) /\ InTrace(c)
      BY <2>1, <3>1 DEF Traced, TracedEvent, InOwnTrace
    <3>3. c.path # <<>> /\ Root(v.of) = Head(c.path)
      BY <3>2, EmptyPath DEF Root
    <3>4. v.request = c.request /\ v.trace = c.trace
      BY <2>2, <3>1 DEF TracedEvent
    <3> HIDE DEF c
    <3>5. /\ Head(c.path) \in Handles
          /\ \/ handle[Head(c.path)].ctx.hand
             \/ c.request \in Origin(Head(c.path)) /\ c.trace \in Origin(Head(c.path))
      BY <2>1, <3>2, <3>3, StartedPath
    <3> QED  BY <3>2, <3>3, <3>4, <3>5 DEF InTrace
  <2>3. \A r, s \in Handles : r # s => Origin(r) \cap Origin(s) = {}
    BY LifecycleAssumption, Names DEF Origin, Handles
  <2> QED  BY <2>2, <2>3 DEF OneTrace
<1> QED  BY <1>1, Invariant, PTL

\* gin.go:114-125, 158-162, http.go:99-122: recorder and wire agree from the
\* first byte on, and Recovery leaves a header alone that is out.
THEOREM StatusesAreSent == Spec => []StatusIsSent
<1>1. IInv => StatusIsSent
  BY DEF IInv
<1> QED  BY <1>1, Invariant, PTL

\* span.go:48-50, operation.go:67, roundtripper.go: the span a context is inside
\* of is the innermost one of its path, and the parent of the next.
THEOREM ParentsAreNearest == Spec => []ParentIsNearestSpan
<1>1. ASSUME Hung  PROVE ParentIsNearestSpan
  <2>1. ASSUME NEW v \in events, v.type = "span"
        PROVE  \/ Nearest(v.parent, handle[v.of].ctx.path,
                          Len(handle[v.of].ctx.path) - 1)
               \/ handle[v.of].ctx.hand /\ Len(handle[v.of].ctx.path) = 1
    <3>1. \/ NearestIn(handle, v.parent, handle[v.of].ctx.path,
                       Len(handle[v.of].ctx.path) - 1)
          \/ handle[v.of].ctx.hand /\ Len(handle[v.of].ctx.path) = 1
      BY <1>1, <2>1 DEF Hung, HungHandle, SpanEvent
    <3> QED  BY <3>1 DEF NearestIn, Nearest, SpanPlaces
  <2> QED  BY <2>1 DEF ParentIsNearestSpan
<1> QED  BY <1>1, Invariant, InitHung, NextHung, PTL DEF Spec
=============================================================================
