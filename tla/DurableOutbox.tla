--------------------------- MODULE DurableOutbox ---------------------------
(***************************************************************************)
(* The outbox file, logcenter/outbox.go: Append by the goroutines that     *)
(* call SendEvent, Peek and Remove by the worker.  outbox.mu is held for a *)
(* whole call, so Append and Peek are one step each; Remove is three, with *)
(* file operations that fail and a process that crashes between them.      *)
(*                                                                         *)
(* The file is a sequence of lines.  An absent file reads as an empty one. *)
(* A line is whole when json.Unmarshal accepts it, and ended when it has   *)
(* its newline; a write cut short leaves a last line that is not ended,    *)
(* and the next Append continues on it.                                    *)
(***************************************************************************)
EXTENDS Naturals, Sequences, FiniteSets, SequencesExt

CONSTANTS Events,
          BatchSize,    \* config.BatchSize, the max of Peek
          MaxCuts,      \* bound: writes of Append cut short
          MaxFaults,    \* bound: other failing file operations
          MaxCrashes    \* bound: process crashes

ASSUME OutboxAssumption ==
    /\ IsFiniteSet(Events)
    /\ BatchSize \in Nat \ {0}
    /\ MaxCuts \in Nat
    /\ MaxFaults \in Nat
    /\ MaxCrashes \in Nat

VARIABLES file,     \* the lines of outbox.path
          temp,     \* the lines of the temporary file of the Remove in progress
          orphans,  \* how many temporary files of earlier Removes are left
          worker,   \* where the worker is: pc, the ids of its batch
          buffered, \* events pushed to the buffer and not drained yet
          tried,    \* events whose Append has run
          acked,    \* those whose Append returned nil
          asked,    \* events some Remove was called with
          removed,  \* events of the Removes that returned nil
          lost,     \* events whose lines an interrupted replacement took
          cuts, faults, crashes

ghosts == <<tried, acked, asked, removed, lost>>
bounds == <<cuts, faults, crashes>>
vars == <<file, temp, orphans, worker, buffered, ghosts, bounds>>

Lines == [id : Events, whole : BOOLEAN, ended : BOOLEAN]
IdleWorker == [pc |-> "idle", ids |-> {}]

Init ==
    /\ file = <<>> /\ temp = <<>> /\ orphans = 0
    /\ worker = IdleWorker
    /\ buffered = {}
    /\ tried = {} /\ acked = {} /\ asked = {} /\ removed = {} /\ lost = {}
    /\ cuts = 0 /\ faults = 0 /\ crashes = 0

Fault == faults < MaxFaults /\ faults' = faults + 1

\* No Remove holds outbox.mu.
\* Mutated forms of an operator stand before it; PROJECT.json pairs them.
UnlockedWhileCopying == worker.pc # "rename"
Unlocked == worker.pc \in {"idle", "sending"}

-----------------------------------------------------------------------------
(* Append: outbox.go:25-48 *)

\* One write at the end of the file.  What follows a line that is not ended
\* is glued to it, and json.Unmarshal accepts the result no more.
Glues(f) == f # <<>> /\ ~Last(f).ended
Written(f, e, whole, ended) ==
    IF Glues(f)
    THEN Front(f) \o <<[id |-> e, whole |-> FALSE, ended |-> ended]>>
    ELSE f \o <<[id |-> e, whole |-> whole, ended |-> ended]>>

\* persistOutbox and, whatever its outcome, the push (client.go:187-188).
Appended(e) ==
    /\ Unlocked /\ e \notin tried
    /\ tried' = tried \cup {e}
    /\ buffered' = buffered \cup {e}

AppendWhole(e) ==
    /\ Appended(e)
    /\ file' = Written(file, e, TRUE, TRUE)
    /\ acked' = acked \cup {e}
    /\ UNCHANGED <<temp, orphans, worker, asked, removed, lost, bounds>>

\* The directory or the file cannot be opened.
AppendFails(e) ==
    /\ Appended(e)
    /\ Fault
    /\ UNCHANGED <<file, temp, orphans, worker, acked, asked, removed, lost,
                   cuts, crashes>>

\* The write is cut short, by an error or by the end of the process: inside
\* the JSON text, or right before the newline.
AppendCut(e) ==
    /\ Appended(e)
    /\ cuts < MaxCuts /\ cuts' = cuts + 1
    /\ \E whole \in BOOLEAN : file' = Written(file, e, whole, FALSE)
    /\ UNCHANGED <<temp, orphans, worker, acked, asked, removed, lost, faults,
                   crashes>>

-----------------------------------------------------------------------------
(* Peek and Remove: outbox.go:50-173 *)

Whole(f) == {i \in DOMAIN f : f[i].whole}
Readable(f) == {f[i].id : i \in Whole(f)}

\* Peek(max): the events of the first lines that can be decoded.
PeekStopsAtGarbage(f) ==
    {f[i].id : i \in {j \in Whole(f) : j <= BatchSize /\ \A k \in 1..j : f[k].whole}}
Peek(f) ==
    {f[i].id : i \in {j \in Whole(f) :
                         Cardinality({k \in Whole(f) : k < j}) < BatchSize}}

\* sendOutbox takes a batch of the file, sendQueued one of the buffer, whose
\* events went through Append before.
PeekBatch ==
    /\ worker.pc = "idle" /\ Peek(file) # {}
    /\ worker' = [pc |-> "sending", ids |-> Peek(file)]
    /\ UNCHANGED <<file, temp, orphans, buffered, ghosts, bounds>>

TakeQueued(e) ==
    /\ worker.pc = "idle" /\ e \in buffered
    /\ buffered' = buffered \ {e}
    /\ worker' = [pc |-> "sending", ids |-> {e}]
    /\ UNCHANGED <<file, temp, orphans, ghosts, bounds>>

SendFails ==
    /\ worker.pc = "sending" /\ Fault
    /\ worker' = IdleWorker
    /\ UNCHANGED <<file, temp, orphans, buffered, ghosts, cuts, crashes>>

\* What the temporary file gets: every line but those decoded to one of ids,
\* each with its newline.
NamedIfEnded(l, ids) == l.whole /\ l.ended /\ l.id \in ids
Named(l, ids) == l.whole /\ l.id \in ids
Copied(f, ids) == {i \in DOMAIN f : ~Named(f[i], ids)}
Place(i, lines) == Cardinality({k \in lines : k <= i})
Kept(f, ids) ==
    [n \in 1..Cardinality(Copied(f, ids)) |->
        LET i == CHOOSE j \in Copied(f, ids) : Place(j, Copied(f, ids)) = n
        IN  [f[i] EXCEPT !.ended = TRUE]]

\* _ = os.Remove(tempPath): its error is ignored, and then the file stays for
\* good.  n is the number of faults of the step besides it.
KeepTemp(n) ==
    /\ faults + n <= MaxFaults /\ faults' = faults + n
    /\ UNCHANGED <<temp, orphans>>
DiscardTemp(n) ==
    /\ temp' = <<>>
    /\ \E m \in {0, 1} : /\ faults + n + m <= MaxFaults
                         /\ faults' = faults + n + m
                         /\ orphans' = orphans + m

\* The API has answered: Remove copies the other lines to a temporary file,
\* unless there is no file or the copy fails.
CopyKept ==
    /\ worker.pc = "sending"
    /\ asked' = asked \cup worker.ids
    /\ \/ /\ file = <<>>
          /\ worker' = IdleWorker
          /\ removed' = removed \cup worker.ids
          /\ UNCHANGED <<temp, orphans, faults>>
       \/ /\ file # <<>>
          /\ temp' = Kept(file, worker.ids)
          /\ worker' = [worker EXCEPT !.pc = "swap"]
          /\ UNCHANGED <<orphans, removed, faults>>
       \/ /\ file # <<>>
          /\ DiscardTemp(1)
          /\ worker' = IdleWorker
          /\ UNCHANGED removed
    /\ UNCHANGED <<file, buffered, tried, acked, lost, cuts, crashes>>

\* With no line kept both files go (outbox.go:151-157); otherwise
\* os.Remove(target), the first half of replaceFile.
RemoveTarget ==
    /\ worker.pc = "swap"
    /\ file' = <<>>
    /\ \/ /\ temp = <<>>
          /\ DiscardTemp(0)
          /\ worker' = IdleWorker /\ removed' = removed \cup worker.ids
       \/ /\ temp # <<>>
          /\ worker' = [worker EXCEPT !.pc = "rename"]
          /\ UNCHANGED <<temp, orphans, removed, faults>>
    /\ UNCHANGED <<buffered, tried, acked, asked, lost, cuts, crashes>>

\* The outbox cannot be removed; Remove deletes the temporary file.
RemoveTargetFails ==
    /\ worker.pc = "swap"
    /\ worker' = IdleWorker
    /\ DiscardTemp(1)
    /\ UNCHANGED <<file, buffered, ghosts, cuts, crashes>>

\* os.Rename, the second half.
Rename ==
    /\ worker.pc = "rename"
    /\ file' = temp
    /\ temp' = <<>>
    /\ worker' = IdleWorker
    /\ removed' = removed \cup worker.ids
    /\ UNCHANGED <<orphans, buffered, tried, acked, asked, lost, bounds>>

\* It fails when the outbox is gone: the lines that were kept are lost, whether
\* or not the temporary file can be deleted, for nothing reads it again.
RenameFails ==
    /\ worker.pc = "rename"
    /\ DiscardTemp(1)
    /\ lost' = lost \cup Readable(temp)
    /\ worker' = IdleWorker
    /\ UNCHANGED <<file, buffered, tried, acked, asked, removed, cuts, crashes>>

\* The process dies.  The temporary file of a Remove in progress (in its copy,
\* before the swap or before the rename) stays: newDurableOutbox of the next
\* process (outbox.go:18-23) does not look for one.
Crash ==
    /\ crashes < MaxCrashes /\ crashes' = crashes + 1
    /\ \E left \in {0, 1} : /\ left = 0 => temp = <<>>
                            /\ left = 1 => worker.pc # "idle"
                            /\ orphans' = orphans + left
    /\ lost' = IF worker.pc = "rename" THEN lost \cup Readable(temp) ELSE lost
    /\ temp' = <<>>
    /\ buffered' = {}
    /\ worker' = IdleWorker
    /\ UNCHANGED <<file, tried, acked, asked, removed, cuts, faults>>

WorkerStep == PeekBatch \/ CopyKept \/ RemoveTarget \/ Rename

Next ==
    \/ \E e \in Events : AppendWhole(e) \/ AppendFails(e) \/ AppendCut(e)
                         \/ TakeQueued(e)
    \/ WorkerStep
    \/ SendFails \/ RemoveTargetFails \/ RenameFails
    \/ Crash

Spec == Init /\ [][Next]_vars

\* The worker goes on: its ticks run sendOutbox again and again.
FairSpec == Spec /\ WF_vars(WorkerStep)

-----------------------------------------------------------------------------
(* Properties *)

\* Every variable holds what its declaration says; only a Remove in progress
\* has a temporary file that will be removed, and the others on the disk are
\* each due to a crash or to a failing deletion.
TypeOK ==
    /\ file \in Seq(Lines) /\ temp \in Seq(Lines)
    /\ worker \in [pc : {"idle", "sending", "swap", "rename"},
                   ids : SUBSET Events]
    /\ buffered \subseteq tried
    /\ tried \subseteq Events /\ acked \subseteq tried
    /\ asked \subseteq tried /\ removed \subseteq asked /\ lost \subseteq tried
    /\ cuts \in 0..MaxCuts /\ faults \in 0..MaxFaults
    /\ crashes \in 0..MaxCrashes
    /\ Unlocked => temp = <<>>
    /\ orphans \in 0..(crashes + faults)

\* What a reader would find once the Remove in progress has ended.
Visible == IF worker.pc = "rename" THEN temp ELSE file
Missing == acked \ (asked \cup lost \cup Readable(Visible))

\* An event whose Append returned nil, that no Remove was called with and that
\* no interrupted replacement took (see AppendedStays) is lost only to a write
\* cut short before it, and each such write costs one: outbox.go:41-46 and the
\* copy loop 121-135.
CutCostsOneEvent == Cardinality(Missing) <= cuts

\* A line removed by a Remove that returned nil is never read again, whatever
\* is appended, fails or crashes in between (outbox.go:85-163): otherwise
\* sendOutbox (client.go:372-384) would send it once more.
RemovedStaysRemoved == removed \cap Readable(Visible) = {}

\* Lines that cannot be decoded hide nothing (outbox.go:73-76): an event whose
\* Append returned nil and that can be read is sent, for Remove is called with
\* the events the API has answered only, or else its line was in a replacement
\* that a failing rename or a crash interrupted.
AckedEventuallySent ==
    \A e \in Events :
        e \in acked \cap Readable(file) ~> e \in asked \cup lost

\* README.md:1049 "o evento permanece no outbox e sera tentado novamente": an
\* event whose Append returned nil is in the file, at every moment at which a
\* reader may open it, until a Remove names it.
AppendedStays == Unlocked => acked \ asked \subseteq Readable(file)
=============================================================================
