----------------------------- MODULE EventBuffer -----------------------------
(***************************************************************************)
(* The operations of eventQueue (logcenter/queue.go) as operators on a     *)
(* sequence of events.  Each operation of the code runs under queue.mu, so *)
(* a module that uses these operators applies one of them per step.        *)
(*                                                                         *)
(* Of an event only the class is kept: Debug and Info are the log_event    *)
(* records of level debug and info, every other event (a log_event of      *)
(* level warn and up, or any other event_type) is important.               *)
(***************************************************************************)
EXTENDS Naturals, Sequences

CONSTANTS Events,      \* the events offered to the buffer
          Debug,       \* log events of level debug
          Info,        \* log events of level info
          BufferSize   \* eventQueue.capacity, config.BufferSize

ASSUME BufferAssumption ==
    /\ Debug \subseteq Events
    /\ Info \subseteq Events
    /\ Debug \cap Info = {}
    /\ BufferSize \in Nat \ {0}     \* normalized(): config.go:74-76

Important == Events \ (Debug \cup Info)

\* The set of the events a sequence holds.
Content(q) == {q[i] : i \in DOMAIN q}

IsDroppable(e) == e \in Debug \cup Info

\* Mutated forms of an operator stand before it; PROJECT.json pairs them.
HasRoomForOneMore(q) == Len(q) <= BufferSize
HasRoom(q) == Len(q) < BufferSize

IndexesOf(q, class) == {i \in DOMAIN q : q[i] \in class}
First(I) == CHOOSE i \in I : \A j \in I : i <= j

\* Where an event that is not droppable goes when the buffer is full: the
\* first debug event, else the first info event.
CanReplaceDebugOnly(q, e) == IndexesOf(q, Debug) # {} /\ ~IsDroppable(e)
CanReplace(q, e) == IndexesOf(q, Debug \cup Info) # {} /\ ~IsDroppable(e)

VictimNewest(q) == Len(q)
VictimInfoFirst(q) ==
    IF IndexesOf(q, Info) # {} THEN First(IndexesOf(q, Info))
                               ELSE First(IndexesOf(q, Debug))
Victim(q) ==
    IF IndexesOf(q, Debug) # {} THEN First(IndexesOf(q, Debug))
                                ELSE First(IndexesOf(q, Info))

AppendFront(q, e) == <<e>> \o q
AppendBack(q, e) == Append(q, e)
Replaced(q, e) == [q EXCEPT ![Victim(q)] = e]

\* drain(max): the first DrainCount events leave, the rest stay in order.
DrainCount(q, max) == IF max = 0 \/ max > Len(q) THEN Len(q) ELSE max
Drained(q, max) == SubSeq(q, 1, DrainCount(q, max))
RemainderKeepsLast(q, max) == SubSeq(q, DrainCount(q, max), Len(q))
Remainder(q, max) == SubSeq(q, DrainCount(q, max) + 1, Len(q))
=============================================================================
