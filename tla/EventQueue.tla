----------------------------- MODULE EventQueue -----------------------------
(***************************************************************************)
(* eventQueue (logcenter/queue.go) as a component: any goroutine pushes an *)
(* event, the worker drains.  Both hold queue.mu for the whole call, so a  *)
(* call is one step.  log, out, lost and slotted are history: the pushes   *)
(* in the order they took the mutex, the events handed to the worker, the  *)
(* events reported as dropped, and the events stored in the slot of a      *)
(* replaced one.                                                           *)
(***************************************************************************)
EXTENDS EventBuffer, FiniteSets

CONSTANT MaxDrain   \* the largest max passed to drain; 0 stands for max <= 0

ASSUME DrainAssumption == MaxDrain \in Nat

VARIABLES queue, log, out, lost, slotted

vars == <<queue, log, out, lost, slotted>>

Init ==
    /\ queue = <<>>
    /\ log = <<>>
    /\ out = <<>>
    /\ lost = {}
    /\ slotted = {}

\* push with room left: queue.go:28-31.
PushAppend(e) ==
    /\ HasRoom(queue)
    /\ queue' = AppendBack(queue, e)
    /\ UNCHANGED <<lost, slotted>>

\* A full buffer gives up a debug or info event for e: queue.go:38-47.
PushReplace(e) ==
    /\ ~HasRoom(queue)
    /\ CanReplace(queue, e)
    /\ queue' = Replaced(queue, e)
    /\ lost' = lost \cup {queue[Victim(queue)]}
    /\ slotted' = slotted \cup {e}

\* A full buffer refuses e: queue.go:33-36 and 48-49.
PushRefuse(e) ==
    /\ ~HasRoom(queue)
    /\ ~CanReplace(queue, e)
    /\ lost' = lost \cup {e}
    /\ UNCHANGED <<queue, slotted>>

Push(e) ==
    /\ e \notin Content(log)
    /\ log' = Append(log, e)
    /\ UNCHANGED out
    /\ PushAppend(e) \/ PushReplace(e) \/ PushRefuse(e)

Drain(max) ==
    /\ queue # <<>>
    /\ out' = out \o Drained(queue, max)
    /\ queue' = Remainder(queue, max)
    /\ UNCHANGED <<log, lost, slotted>>

Next ==
    \/ \E e \in Events : Push(e)
    \/ \E max \in 0..MaxDrain : Drain(max)

Spec == Init /\ [][Next]_vars

-----------------------------------------------------------------------------
(* Properties *)

\* Every variable holds what its declaration says, and the buffer never
\* outgrows config.BufferSize.
TypeOK ==
    /\ queue \in Seq(Events) /\ Len(queue) <= BufferSize
    /\ log \in Seq(Events)
    /\ out \in Seq(Events)
    /\ lost \subseteq Events
    /\ slotted \subseteq Events

\* No event is lost or doubled by push and drain: every pushed event is in
\* exactly one of the buffer, the worker's batches and the drop reports, and
\* once.  The copy of drain (queue.go:62-65) and the replacement in place
\* (queue.go:38-47) are what could break it.
EveryPushAccounted ==
    LET line == out \o queue
    IN  /\ Content(log) = Content(line) \cup lost
        /\ Content(line) \cap lost = {}
        /\ \A i, j \in DOMAIN line : line[i] = line[j] => i = j

\* README.md:1031 "Se o buffer estiver cheio, eventos debug e info sao
\* descartados antes de eventos mais importantes": an important event can be
\* lost only after more important events than the buffer holds were pushed,
\* whatever debug and info traffic came between.
ImportantLostOnlyByOverload ==
    lost \cap Important # {} =>
        Cardinality(Content(log) \cap Important) > BufferSize

\* Events leave in the order they came in, those stored in a replaced
\* event's slot excepted (queue.go:40 and 45 reuse an older position).
OrderKept ==
    LET line == out \o queue
        Position(e) == CHOOSE p \in DOMAIN log : log[p] = e
    IN  \A i, j \in DOMAIN line :
            (i < j /\ {line[i], line[j]} \cap slotted = {}) =>
                Position(line[i]) < Position(line[j])

\* A debug event in the buffer shields the info events of the buffer: an
\* info event already stored is given up only when no debug event is stored.
InfoReplacedLast ==
    [][\A e \in Info : (e \in Content(queue) /\ e \in lost') =>
            IndexesOf(queue, Debug) = {}]_vars

\* What the buffer promises its callers, without the order of its content.
Promise == INSTANCE PriorityBuffer WITH content <- Content(queue),
                                        taken <- Content(out)
ImplementsPromise == Promise!Spec
=============================================================================
