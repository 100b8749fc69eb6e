--------------------------- MODULE LogCenterClient ---------------------------
(***************************************************************************)
(* The delivery path of the SDK, logcenter/client.go: goroutines that call *)
(* SendEvent and SendEventSync, goroutines that call Flush and Close, the  *)
(* worker goroutine run() and the ingest API, over the buffer of           *)
(* EventBuffer and the durable outbox.  A step is one access to shared     *)
(* state: a mutex-protected call, an atomic, a channel operation or one    *)
(* POST.                                                                   *)
(*                                                                         *)
(* Each event is the argument of one call made by its own goroutine.  The  *)
(* outbox file is a set of events with the line each was appended at; its  *)
(* mutex makes Append, Peek and Remove single steps for the goroutines, but *)
(* not for a fault or a crash: a write may be cut short and a replacement  *)
(* of the file interrupted.  DurableOutbox has the file operations one by  *)
(* one.                                                                    *)
(***************************************************************************)
EXTENDS EventBuffer, FiniteSets

CONSTANTS Sync,           \* events passed to SendEventSync, the rest to SendEvent
          Invalid,        \* events prepareEvent refuses
          Rejected,       \* events the API answers with a rejection
          Oversized,      \* sets of events that together exceed MaxBatchBytes
          Flushers,       \* goroutines that call Flush once
          Closers,        \* goroutines that call Close, again after a timeout
          Worker,         \* the goroutine run()
          BatchSize,      \* config.BatchSize
          RetryAttempts,  \* config.RetryAttempts
          UseOutbox,      \* OutboxPath is set
          MaxCount,       \* bound: the counters stay at this value
          MaxFaults,      \* bound: failing POSTs and failing file operations
          MaxCrashes      \* bound: process crashes, each followed by NewClient

ASSUME ClientAssumption ==
    /\ IsFiniteSet(Events)
    /\ Sync \subseteq Events
    /\ Invalid \subseteq Events
    /\ Rejected \subseteq Events
    /\ Oversized \subseteq (SUBSET Events) \ {{}}
    /\ Worker \notin Events
    /\ {"tick", "close"} \cap Flushers = {}
    /\ BatchSize \in 1..BufferSize      \* normalized(): config.go:77-82
    /\ RetryAttempts \in Nat            \* normalized(): config.go:86-88
    /\ UseOutbox \in BOOLEAN
    /\ MaxCount \in Nat
    /\ MaxFaults \in Nat
    /\ MaxCrashes \in Nat

VARIABLES
    call,     \* per event: where its SendEvent or SendEventSync is
    queue,    \* eventQueue.events
    notify,   \* the token in client.notify
    closed,   \* client.closed
    closeCh,  \* client.closeCh is closed
    done,     \* client.done is closed
    worker,   \* run(): pc, the job sendQueued runs for, its error so far
    send,     \* per sender: the frame of sendBatchInternal
    outbox,   \* events with a line in the outbox file
    line,     \* per event: the number of its line, 0 if never appended
    torn,     \* the last line of the file was cut short
    lost,     \* events whose line was glued to a cut one or went with an
              \* interrupted replacement
    flush,    \* per flusher: pc, content of request.done, ctx expired
    close,    \* per closer: where its Close is
    api,      \* events the API ingested, saw again, and answered unread
    stats,    \* the counters of client.stats
    fate,     \* what the hooks and answers told about each event
    before,   \* events whose SendEvent had returned true when each Flush
              \* began and when the client was closed
    faults, crashes

callVars   == <<call, fate, stats>>
closeVars  == <<closed, closeCh, done, close>>
fileVars   == <<outbox, line, torn, lost>>
boundVars  == <<faults, crashes>>
vars == <<callVars, queue, notify, closeVars, worker, send, fileVars,
          flush, api, before, boundVars>>

Senders == Sync \cup {Worker}
Jobs == {"tick", "close"} \cup Flushers
Answers == {"sent", "rejected", "failed", "refused"}   \* sendBatchInternal

IdleSend == [pc |-> "idle", batch |-> {}, attempt |-> 0]
IdleWorker == [pc |-> "select", job |-> "tick", failed |-> FALSE]

Init ==
    /\ call = [e \in Events |-> "idle"]
    /\ queue = <<>>
    /\ notify = FALSE
    /\ closed = FALSE /\ closeCh = FALSE /\ done = FALSE
    /\ worker = IdleWorker
    /\ send = [s \in Senders |-> IdleSend]
    /\ outbox = {}
    /\ line = [e \in Events |-> 0]
    /\ torn = FALSE /\ lost = {}
    /\ flush = [f \in Flushers |-> [pc |-> "idle", reply |-> "none",
                                     expired |-> FALSE]]
    /\ close = [c \in Closers |-> "idle"]
    /\ api = [ingested |-> {}, repeated |-> {}, unread |-> {}]
    /\ stats = [queued |-> 0, dropped |-> 0, sent |-> 0, failed |-> 0]
    /\ fate = [dropped |-> {}, answered |-> {}]
    /\ before = [x \in Flushers \cup {"close"} |-> {}]
    /\ faults = 0 /\ crashes = 0

\* An I/O or network error, of which a behaviour has at most MaxFaults.
Fault == faults < MaxFaults /\ faults' = faults + 1

\* A counter's Add, up to the bound.
Plus(n, k) == IF n + k > MaxCount THEN MaxCount ELSE n + k

-----------------------------------------------------------------------------
(* SendEvent and SendEventSync: client.go:82-112, 170-199 *)

\* stats.dropped.Add(1) and the OnEventDropped hook.
ReportDrop(d) ==
    /\ stats' = [stats EXCEPT !.dropped = Plus(@, 1)]
    /\ fate' = [fate EXCEPT !.dropped = @ \cup {d}]

\* enqueue and SendEventSync up to the end of prepareEvent.  The closed flag
\* is read here and never again by the call.
Accepts(e) == ~closed /\ e \notin Invalid

Refuse(e) ==
    /\ call[e] = "idle"
    /\ ~Accepts(e)
    /\ ReportDrop(e)
    /\ call' = [call EXCEPT ![e] = IF e \in Sync THEN "error" ELSE "false"]
    /\ UNCHANGED <<queue, notify, closeVars, worker, send, fileVars, flush,
                   api, before, boundVars>>

\* A call of sendBatchInternal begins.
StartSend(s, batch) ==
    send' = [send EXCEPT ![s] = [pc |-> "post", batch |-> batch,
                                 attempt |-> 0]]

Prepare(e) ==
    /\ call[e] = "idle"
    /\ Accepts(e)
    /\ IF e \in Sync
       THEN call' = [call EXCEPT ![e] = "sync"] /\ StartSend(e, {e})
       ELSE /\ call' = [call EXCEPT ![e] = IF UseOutbox THEN "persist"
                                                         ELSE "push"]
            /\ UNCHANGED send
    /\ UNCHANGED <<fate, stats, queue, notify, closeVars, worker, fileVars,
                   flush, api, before, boundVars>>

\* durableOutbox.Append, with the next line of the file.  After a line that was
\* cut short the event is glued to it, and Peek decodes neither.
NextLine == 1 + Cardinality({d \in Events : line[d] > 0})
AppendOutbox(e) ==
    /\ line' = [line EXCEPT ![e] = NextLine]
    /\ IF torn
       THEN lost' = lost \cup {e} /\ torn' = FALSE /\ UNCHANGED outbox
       ELSE outbox' = outbox \cup {e} /\ UNCHANGED <<torn, lost>>

\* A write that stops in the middle of the line.
CutLine == torn' = TRUE /\ UNCHANGED <<outbox, line, lost>>

\* persistOutbox, which returns at once without an outbox: an Append error is
\* only recorded.
Persist(e) ==
    /\ call[e] \in {"persist", "keep"}
    /\ call' = [call EXCEPT ![e] = IF @ = "persist" THEN "push" ELSE "error"]
    /\ \/ AppendOutbox(e) /\ UNCHANGED faults
       \/ Fault /\ (CutLine \/ UNCHANGED fileVars)
    /\ UNCHANGED <<fate, stats, queue, notify, closeVars, worker, send, flush,
                   api, before, crashes>>

PushStored(e) ==
    /\ HasRoom(queue)
    /\ queue' = AppendBack(queue, e)
    /\ call' = [call EXCEPT ![e] = "announce"]
    /\ UNCHANGED <<fate, stats>>

\* Reads the dropped event after its slot was overwritten.
PushReplacingReportsNew(e) ==
    /\ ~HasRoom(queue) /\ CanReplace(queue, e)
    /\ queue' = Replaced(queue, e)
    /\ ReportDrop(e)
    /\ call' = [call EXCEPT ![e] = "announce"]

PushReplacing(e) ==
    /\ ~HasRoom(queue) /\ CanReplace(queue, e)
    /\ queue' = Replaced(queue, e)
    /\ ReportDrop(queue[Victim(queue)])
    /\ call' = [call EXCEPT ![e] = "announce"]

PushRefused(e) ==
    /\ ~HasRoom(queue) /\ ~CanReplace(queue, e)
    /\ ReportDrop(e)
    /\ call' = [call EXCEPT ![e] = "false"]
    /\ UNCHANGED queue

Push(e) ==
    /\ call[e] = "push"
    /\ PushStored(e) \/ PushReplacing(e) \/ PushRefused(e)
    /\ UNCHANGED <<notify, closeVars, worker, send, fileVars, flush, api,
                   before, boundVars>>

\* queued.Add(1), then the non-blocking send on notify: a token that is
\* there already stays.
Announce(e) ==
    /\ call[e] = "announce"
    /\ stats' = [stats EXCEPT !.queued = Plus(@, 1)]
    /\ notify' = TRUE
    /\ call' = [call EXCEPT ![e] = "true"]
    /\ UNCHANGED <<fate, queue, closeVars, worker, send, fileVars, flush, api,
                   before, boundVars>>

-----------------------------------------------------------------------------
(* sendBatchInternal and postBatch, run by the worker and by each           *)
(* SendEventSync: client.go:316-366, 420-455                                *)

\* postBatch fails before any request leaves when the payload exceeds
\* MaxBatchBytes or the context of the flush is over.
Exceeds(batch) == \E S \in Oversized : S \subseteq batch
CtxOver(s) ==
    /\ s = Worker
    /\ worker.job \in Flushers
    /\ flush[worker.job].expired

Ingest(batch) ==
    [api EXCEPT !.ingested = @ \cup (batch \ Rejected),
                !.repeated = @ \cup (batch \cap api.ingested)]

OneForTheBatch(batch) == 1
EventCount(batch) == Cardinality(batch)

\* What sendBatchInternal returns for an answered batch.
AnswerOf(s) ==
    IF s \in Sync /\ send[s].batch \cap Rejected # {} THEN "rejected" ELSE "sent"

\* A 2xx answer is read: counters and hooks, then removeOutbox, which returns
\* at once without an outbox.
Answered(s) ==
    /\ send[s].pc = "post"
    /\ ~Exceeds(send[s].batch) /\ ~CtxOver(s)
    /\ api' = Ingest(send[s].batch)
    /\ stats' = [stats EXCEPT !.sent = Plus(@, EventCount(send[s].batch))]
    /\ fate' = [fate EXCEPT !.answered = @ \cup send[s].batch]
    /\ send' = [send EXCEPT ![s].pc = IF UseOutbox THEN "remove"
                                                  ELSE AnswerOf(s)]
    /\ UNCHANGED <<call, queue, notify, closeVars, worker, fileVars, flush,
                   before, boundVars>>

RetriesOnceMore(s, retryable) == retryable /\ send[s].attempt <= RetryAttempts
MayRetry(s, retryable) == retryable /\ send[s].attempt < RetryAttempts

ForgetsRefused(retryable) == IF retryable THEN "failed" ELSE "remove"
AfterFailure(retryable) == IF retryable THEN "failed" ELSE "refused"

\* A failed attempt: another one, or recordBatchFailure and return.
FailAttempt(s, retryable) ==
    IF MayRetry(s, retryable)
    THEN /\ send' = [send EXCEPT ![s].attempt = @ + 1]
         /\ UNCHANGED <<stats, fate>>
    ELSE /\ send' = [send EXCEPT ![s].pc = AfterFailure(retryable)]
         /\ stats' = [stats EXCEPT !.failed =
                                    Plus(@, EventCount(send[s].batch))]
         /\ UNCHANGED fate

\* The request fails: no answer, 429 or 5xx (retryable), another 4xx (not),
\* or an answer that is lost after the API took the batch.
Unreachable(s) == Fault /\ FailAttempt(s, TRUE)  /\ UNCHANGED api
Status4xx(s)   == Fault /\ FailAttempt(s, FALSE) /\ UNCHANGED api
AnswerLost(s)  ==
    /\ Fault
    /\ FailAttempt(s, TRUE)
    /\ api' = [Ingest(send[s].batch) EXCEPT !.unread = @ \cup send[s].batch]

FailedPost(s) ==
    /\ send[s].pc = "post"
    /\ IF Exceeds(send[s].batch) \/ CtxOver(s)
       THEN FailAttempt(s, TRUE) /\ UNCHANGED <<api, faults>>
       ELSE Unreachable(s) \/ Status4xx(s) \/ AnswerLost(s)
    /\ UNCHANGED <<call, queue, notify, closeVars, worker, fileVars, flush,
                   before, crashes>>

\* durableOutbox.Remove writes the other lines, each ended, to a new file that
\* replaces the old one in two operations (replaceFile).  When the second is
\* not reached, or fails, no outbox is left.
Removed(s) ==
    /\ outbox' = outbox \ send[s].batch
    /\ torn' = FALSE
    /\ UNCHANGED <<line, lost>>
Interrupted(s) ==
    /\ outbox' = {}
    /\ lost' = lost \cup (outbox \ send[s].batch)
    /\ torn' = FALSE
    /\ UNCHANGED line

\* removeOutbox; an error is only recorded.
RemoveSent(s) ==
    /\ send[s].pc = "remove"
    /\ \/ Removed(s) /\ UNCHANGED faults
       \/ Fault /\ (Interrupted(s) \/ UNCHANGED fileVars)
    /\ send' = [send EXCEPT ![s].pc = AnswerOf(s)]
    /\ UNCHANGED <<callVars, queue, notify, closeVars, worker, flush, api,
                   before, crashes>>

\* SendEventSync returns; a retryable error puts the event in the outbox
\* first, and a rejection by the API counts as retryable: client.go:107-111.
Retryable(e) == send[e].pc \in {"failed", "rejected"}
SyncReturn(e) ==
    /\ call[e] = "sync"
    /\ send[e].pc \in Answers
    /\ call' = [call EXCEPT ![e] =
                    CASE send[e].pc = "sent" -> "nil"
                      [] UseOutbox /\ Retryable(e) -> "keep"
                      [] OTHER -> "error"]
    /\ send' = [send EXCEPT ![e] = IdleSend]
    /\ UNCHANGED <<fate, stats, queue, notify, closeVars, worker, fileVars,
                   flush, api, before, boundVars>>

-----------------------------------------------------------------------------
(* run, sendQueued and sendOutbox: client.go:265-306, 368-385 *)

workerRest == <<callVars, fileVars, api, before, faults, crashes>>

StartJob(job) ==
    /\ worker.pc = "select"
    /\ worker' = [pc |-> "drain", job |-> job, failed |-> FALSE]

TakeNotify ==
    /\ worker.pc = "select" /\ notify
    /\ notify' = FALSE
    /\ worker' = [worker EXCEPT !.pc = "notified"]
    /\ UNCHANGED <<workerRest, queue, closeVars, send, flush>>

MoreThanABatch(q) == Len(q) > BatchSize
Enough(q) == Len(q) >= BatchSize
CheckLength ==
    /\ worker.pc = "notified"
    /\ worker' = [worker EXCEPT !.job = "tick",
                                !.pc = IF Enough(queue) THEN "drain"
                                                        ELSE "select"]
    /\ UNCHANGED <<workerRest, queue, notify, closeVars, send, flush>>

TickWhenFull ==
    /\ Enough(queue) /\ StartJob("tick")
    /\ UNCHANGED <<workerRest, queue, notify, closeVars, send, flush>>
Tick ==
    /\ StartJob("tick")
    /\ UNCHANGED <<workerRest, queue, notify, closeVars, send, flush>>

\* The rendezvous on client.flushes.
TakeFlush(f) ==
    /\ flush[f].pc = "offer"
    /\ StartJob(f)
    /\ flush' = [flush EXCEPT ![f].pc = "wait"]
    /\ UNCHANGED <<workerRest, queue, notify, closeVars, send>>

TakeCloseAndStop ==
    /\ closeCh /\ worker.pc = "select"
    /\ worker' = [pc |-> "finish", job |-> "close", failed |-> FALSE]
    /\ UNCHANGED <<workerRest, queue, notify, closeVars, send, flush>>
TakeClose ==
    /\ closeCh
    /\ StartJob("close")
    /\ UNCHANGED <<workerRest, queue, notify, closeVars, send, flush>>

DrainBatch ==
    /\ worker.pc = "drain" /\ queue # <<>>
    /\ queue' = Remainder(queue, BatchSize)
    /\ StartSend(Worker, Content(Drained(queue, BatchSize)))
    /\ worker' = [worker EXCEPT !.pc = "sendQueue"]
    /\ UNCHANGED <<workerRest, notify, closeVars, flush>>

\* The outbox waits when a batch of the buffer failed.
OutboxUnlessTicking == UseOutbox /\ ~worker.failed /\ worker.job # "tick"
OutboxNext == UseOutbox /\ ~worker.failed
DrainEmpty ==
    /\ worker.pc = "drain" /\ queue = <<>>
    /\ worker' = [worker EXCEPT !.pc = IF OutboxNext THEN "peek" ELSE "finish"]
    /\ UNCHANGED <<workerRest, queue, notify, closeVars, send, flush>>

\* sendBatch returns; the loop drains on, whatever the outcome.
OneBatchOnly == "finish"
AfterQueueBatch == "drain"
QueueBatchDone ==
    /\ worker.pc = "sendQueue" /\ send[Worker].pc \in Answers
    /\ worker' = [worker EXCEPT !.pc = AfterQueueBatch,
                                !.failed = @ \/ send[Worker].pc # "sent"]
    /\ send' = [send EXCEPT ![Worker] = IdleSend]
    /\ UNCHANGED <<workerRest, queue, notify, closeVars, flush>>

\* outbox.Peek(BatchSize): the events of the first lines.
Peeked == {e \in outbox :
              Cardinality({d \in outbox : line[d] < line[e]}) < BatchSize}

PeekBatch ==
    /\ worker.pc = "peek" /\ outbox # {}
    /\ StartSend(Worker, Peeked)
    /\ worker' = [worker EXCEPT !.pc = "sendOutbox"]
    /\ UNCHANGED <<workerRest, queue, notify, closeVars, flush>>

PeekEmpty ==
    /\ worker.pc = "peek" /\ outbox = {}
    /\ worker' = [worker EXCEPT !.pc = "finish"]
    /\ UNCHANGED <<workerRest, queue, notify, closeVars, send, flush>>

PeekFails ==
    /\ worker.pc = "peek" /\ Fault
    /\ worker' = [worker EXCEPT !.pc = "finish", !.failed = TRUE]
    /\ UNCHANGED <<callVars, fileVars, api, before, crashes, queue, notify,
                   closeVars, send, flush>>

OutboxBatchDone ==
    /\ worker.pc = "sendOutbox" /\ send[Worker].pc \in Answers
    /\ worker' = IF send[Worker].pc = "sent"
                 THEN [worker EXCEPT !.pc = "peek"]
                 ELSE [worker EXCEPT !.pc = "finish", !.failed = TRUE]
    /\ send' = [send EXCEPT ![Worker] = IdleSend]
    /\ UNCHANGED <<workerRest, queue, notify, closeVars, flush>>

AlwaysOk == "ok"
Verdict == IF worker.failed THEN "error" ELSE "ok"
NeverExits(job) == "select"
AfterJob(job) == IF job = "close" THEN "exit" ELSE "select"

\* sendQueued returns to run: the answer goes to request.done, or the worker
\* exits and its deferred close(client.done) runs.
Finish ==
    /\ worker.pc = "finish"
    /\ worker' = [IdleWorker EXCEPT !.pc = AfterJob(worker.job)]
    /\ done' = (AfterJob(worker.job) = "exit")
    /\ flush' = IF worker.job \in Flushers
                THEN [flush EXCEPT ![worker.job].reply = Verdict]
                ELSE flush
    /\ UNCHANGED <<workerRest, queue, notify, closed, closeCh, close, send>>

-----------------------------------------------------------------------------
(* Flush and Close: client.go:114-168 *)

callerRest == <<callVars, queue, notify, worker, send, fileVars, api, boundVars>>
ReturnedTrue == {e \in Events : call[e] = "true"}
Waiting == {"offer", "wait"}

CallFlush(f) ==
    /\ flush[f].pc = "idle"
    /\ flush' = [flush EXCEPT ![f].pc = "offer"]
    /\ before' = [before EXCEPT ![f] = ReturnedTrue]
    /\ UNCHANGED <<callerRest, closeVars>>

\* The context of the call or FlushTimeout ends; the worker may notice too.
ExpireFlush(f) ==
    /\ flush[f].pc \in Waiting /\ ~flush[f].expired
    /\ flush' = [flush EXCEPT ![f].expired = TRUE]
    /\ UNCHANGED <<callerRest, closeVars, before>>

FlushReturns(f, how) ==
    /\ flush' = [flush EXCEPT ![f].pc = how]
    /\ UNCHANGED <<callerRest, closeVars, before>>

\* The three branches of the two selects.  Go takes any that is ready; nil is
\* returned for the reply nil ("ok") and for client.done ("closed").
FlushReply(f) ==
    /\ flush[f].pc = "wait" /\ flush[f].reply # "none"
    /\ FlushReturns(f, flush[f].reply)
FlushTimeout(f) ==
    /\ flush[f].pc \in Waiting /\ flush[f].expired
    /\ FlushReturns(f, "timeout")
FlushIgnoresDone(f) == FALSE /\ FlushReturns(f, "closed")
FlushClosed(f) ==
    /\ flush[f].pc \in Waiting /\ done
    /\ FlushReturns(f, "closed")

\* once.Do: the first closer sets the flag, then closes closeCh; another call
\* waits for it in once.Do and does neither.
CloseFlag(c) ==
    /\ close[c] = "idle" /\ ~closed
    /\ closed' = TRUE
    /\ close' = [close EXCEPT ![c] = "signal"]
    /\ before' = [before EXCEPT !["close"] = ReturnedTrue]
    /\ UNCHANGED <<callerRest, closeCh, done, flush>>

CloseSignal(c) ==
    /\ close[c] = "signal"
    /\ closeCh' = TRUE
    /\ close' = [close EXCEPT ![c] = "wait"]
    /\ UNCHANGED <<callerRest, closed, done, flush, before>>

CloseAgain(c) ==
    /\ close[c] \in {"idle", "timeout"} /\ closeCh
    /\ close' = [close EXCEPT ![c] = "wait"]
    /\ UNCHANGED <<callerRest, closed, closeCh, done, flush, before>>

CloseDone(c) ==
    /\ close[c] = "wait" /\ done
    /\ close' = [close EXCEPT ![c] = "nil"]
    /\ UNCHANGED <<callerRest, closed, closeCh, done, flush, before>>

\* The context of the call or CloseTimeout ends first.
CloseTimeout(c) ==
    /\ close[c] = "wait"
    /\ close' = [close EXCEPT ![c] = "timeout"]
    /\ UNCHANGED <<callerRest, closed, closeCh, done, flush, before>>

-----------------------------------------------------------------------------
(* The process *)

CallReturned(e) == call[e] \in {"idle", "true", "false", "nil", "error", "crashed"}
FlushAtRest(f) == flush[f].pc \notin Waiting
CloseAtRest(c) == close[c] \notin {"signal", "wait"}

\* What the process leaves of the file: an Append or a Remove in progress may
\* be interrupted.
CrashedFile ==
    \/ UNCHANGED fileVars
    \/ (\E e \in Events : call[e] \in {"persist", "keep"}) /\ CutLine
    \/ \E s \in Senders : send[s].pc = "remove" /\ Interrupted(s)

\* The process dies and is started again: NewClient (client.go:42-68) with
\* the same OutboxPath.  Only the file and the API remember anything; calls
\* in progress never return.
Crash ==
    /\ crashes < MaxCrashes /\ crashes' = crashes + 1
    /\ call' = [e \in Events |-> IF CallReturned(e) THEN call[e] ELSE "crashed"]
    /\ queue' = <<>>
    /\ notify' = FALSE
    /\ closed' = FALSE /\ closeCh' = FALSE /\ done' = FALSE
    /\ worker' = IdleWorker
    /\ send' = [s \in Senders |-> IdleSend]
    /\ flush' = [f \in Flushers |-> IF FlushAtRest(f) THEN flush[f]
                                     ELSE [flush[f] EXCEPT !.pc = "crashed"]]
    /\ close' = [c \in Closers |-> IF CloseAtRest(c) THEN close[c]
                                                     ELSE "crashed"]
    /\ stats' = [queued |-> 0, dropped |-> 0, sent |-> 0, failed |-> 0]
    /\ CrashedFile
    /\ UNCHANGED <<fate, api, before, faults>>

\* The closed client at rest: nothing is left to run.
Stopped ==
    /\ worker.pc = "exit"
    /\ \A e \in Events : CallReturned(e) /\ call[e] # "idle"
    /\ \A f \in Flushers : FlushAtRest(f) /\ flush[f].pc # "idle"
    /\ \A c \in Closers : CloseAtRest(c) /\ close[c] # "idle"
    /\ UNCHANGED vars

SendStep(s) == Answered(s) \/ FailedPost(s) \/ RemoveSent(s)

CallStep(e) ==
    \/ Persist(e) \/ Push(e) \/ Announce(e)
    \/ e \in Sync /\ SyncReturn(e)

WorkerStep ==
    \/ CheckLength \/ DrainBatch \/ DrainEmpty \/ QueueBatchDone
    \/ PeekBatch \/ PeekEmpty \/ PeekFails \/ OutboxBatchDone \/ Finish

FlushStep(f) == FlushReply(f) \/ FlushTimeout(f) \/ FlushClosed(f)
CloseStep(c) == CloseSignal(c) \/ CloseDone(c)

Next ==
    \/ \E e \in Events : Refuse(e) \/ Prepare(e) \/ CallStep(e)
    \/ \E s \in Senders : SendStep(s)
    \/ WorkerStep \/ TakeNotify \/ Tick \/ TakeClose
    \/ \E f \in Flushers : TakeFlush(f) \/ CallFlush(f) \/ ExpireFlush(f)
                           \/ FlushStep(f)
    \/ \E c \in Closers : CloseFlag(c) \/ CloseAgain(c) \/ CloseTimeout(c)
                          \/ CloseStep(c)
    \/ Crash \/ Stopped

Spec == Init /\ [][Next]_vars

\* Every goroutine that can go on does.  The select of run() and the
\* rendezvous pick among what is ready at random, so a branch that is ready
\* again and again is taken: strong fairness for them.  Nothing obliges a
\* caller to call, a context to end, a fault or a crash to happen.
Fairness ==
    /\ \A e \in Events : WF_vars(CallStep(e))
    /\ \A s \in Senders : WF_vars(SendStep(s))
    /\ WF_vars(WorkerStep)
    /\ WF_vars(Tick)
    /\ SF_vars(TakeClose)
    /\ \A f \in Flushers : SF_vars(TakeFlush(f)) /\ WF_vars(FlushStep(f))
    /\ \A c \in Closers : WF_vars(CloseStep(c))

FairSpec == Spec /\ Fairness

-----------------------------------------------------------------------------
(* Properties *)

CallStates == {"idle", "persist", "push", "announce", "sync", "keep",
               "true", "false", "nil", "error", "crashed"}
WorkerStates ==
    [pc : {"select", "notified", "drain", "sendQueue", "peek", "sendOutbox",
           "finish", "exit"},
     job : Jobs, failed : BOOLEAN]
Frames == [pc : {"idle", "post", "remove"} \cup Answers,
           batch : SUBSET Events, attempt : 0..RetryAttempts]
FlushStates ==
    [pc : {"idle", "ok", "error", "timeout", "closed", "crashed"} \cup Waiting,
     reply : {"none", "ok", "error"}, expired : BOOLEAN]
CloseStates == {"idle", "signal", "wait", "nil", "timeout", "crashed"}
Counts == 0..MaxCount

TypeOK ==
    /\ call \in [Events -> CallStates]
    /\ queue \in Seq(Events) /\ Len(queue) <= BufferSize
    /\ notify \in BOOLEAN
    /\ closed \in BOOLEAN /\ closeCh \in BOOLEAN /\ done \in BOOLEAN
    /\ worker \in WorkerStates
    /\ send \in [Senders -> Frames]
    /\ outbox \subseteq Events
    /\ line \in [Events -> Nat]
    /\ torn \in BOOLEAN /\ lost \subseteq Events
    /\ flush \in [Flushers -> FlushStates]
    /\ close \in [Closers -> CloseStates]
    /\ api \in [ingested : SUBSET Events, repeated : SUBSET Events,
                unread : SUBSET Events]
    /\ stats \in [queued : Counts, dropped : Counts, sent : Counts,
                  failed : Counts]
    /\ fate \in [dropped : SUBSET Events, answered : SUBSET Events]
    /\ before \in [Flushers \cup {"close"} -> SUBSET Events]
    /\ faults \in 0..MaxFaults /\ crashes \in 0..MaxCrashes

InFlight == IF send[Worker].pc = "post" THEN send[Worker].batch ELSE {}

\* Without an outbox an event that was reported as dropped never reaches the
\* API: README.md:883 for the events whose SendEvent returns false, and
\* queue.go:38-47 for those replaced in the buffer.
DroppedNeverSent == fate.dropped \cap (api.ingested \cup InFlight) = {}

\* The counters account for every call once (client.go:175-196, 343-344,
\* 464-467): of the calls that began, each is still on its way into or in the
\* buffer, or in a POST, or counted in exactly one of Dropped, SentEvents and
\* FailedEvents.
EveryCallCounted ==
    LET begun == {e \in Events : call[e] # "idle"}
        entering == {e \in Events : call[e] \in {"persist", "push"}}
        posting == {s \in Sync : send[s].pc = "post"}
    IN  Cardinality(begun) =
            Cardinality(entering) + Cardinality(posting) + Len(queue)
            + Cardinality(InFlight)
            + stats.dropped + stats.sent + stats.failed

\* Without an outbox the API sees an event twice only when an answer to an
\* earlier POST of it was lost (client.go:338-362).
RepeatedOnlyAfterLostAnswer == api.repeated \subseteq api.unread

\* A buffer that holds a batch is never left to the ticker by the notify
\* channel, whose token is coalesced and taken before the length is read
\* (client.go:196-197, 258-263, 273-276).
NoLostWakeup ==
    (/\ worker.pc = "select"
     /\ Len(queue) >= BatchSize
     /\ \A e \in Events : call[e] # "announce") => notify

\* README.md:885 "Force envio de tudo que esta no buffer": when the worker
\* answers Flush with nil, no event whose SendEvent had returned true when
\* Flush was called is in the buffer, in a POST or in the outbox.
FlushOkLeavesNothing ==
    \A f \in Flushers : flush[f].pc = "ok" =>
        before[f] \cap (Content(queue) \cup InFlight \cup outbox) = {}

\* A Close returned nil and its process still runs: the worker has taken every
\* event whose SendEvent had returned true when the client was closed, and
\* none of them is in a POST.
CloseLeavesNothing ==
    (done /\ \E c \in Closers : close[c] = "nil") =>
        before["close"] \cap (Content(queue) \cup InFlight) = {}

\* README.md:1029-1030, as far as the code keeps it: an event whose Append
\* returned nil stays in the file until the client has read a 2xx answer to a
\* batch with it, through retries, failed Removes and restarts.  The exceptions
\* are the lines that a replacement interrupted between os.Remove and os.Rename
\* takes with it (outbox.go:165-173) and a line glued to one that was cut short
\* (outbox.go:41-46); no event gets there but by a failed operation or a crash.
OutboxKeepsUntilAnswered ==
    /\ \A e \in Events : line[e] > 0 => e \in outbox \cup fate.answered \cup lost
    /\ lost # {} => faults + crashes > 0

\* Every Flush returns, its context ended or not, the client closed or not.
FlushEventuallyReturns ==
    \A f \in Flushers : flush[f].pc \in Waiting ~> FlushAtRest(f)

\* Close with a context that never ends returns: the worker empties the
\* buffer and the outbox and exits.
CloseEventuallyReturns ==
    \A c \in Closers : close[c] \in {"signal", "wait"} ~> CloseAtRest(c)

\* An event in the buffer of a client that is not closed leaves it.
BufferedEventuallyTaken ==
    \A e \in Events : e \in Content(queue) ~> (e \notin Content(queue) \/ closed)

\* Peek returns a batch that postBatch refuses: sendOutbox peeks at it again in
\* every job and gets to no other line (client.go:371-384).
Blocked == outbox # {} /\ Exceeds(Peeked)

\* README.md:1049-1050, as far as the code keeps it: once POSTs stop failing,
\* every event whose Append returned nil is answered, also after a crash and
\* without any Flush, unless the first batch of the outbox stays too large for
\* ever; OutboxKeepsUntilAnswered says which events are lost.
PersistedEventuallyAnswered ==
    []<>~Blocked =>
        \A e \in Events : line[e] > 0 ~> (e \in fate.answered \cup lost \/ closed)

\* README.md:1049-1050 "o evento permanece no outbox e sera tentado novamente
\* em `Flush`, no envio periodico ou no `Close`": every event of the outbox that
\* fits a batch alone is answered.
FittingEventuallyAnswered ==
    \A e \in Events : (line[e] > 0 /\ ~Exceeds({e}))
                          ~> (e \in fate.answered \cup lost \/ closed)

\* README.md:883 "`false`: evento foi descartado": an event whose SendEvent
\* returned false is never ingested.
FalseMeansDiscarded ==
    \A e \in Events : call[e] = "false" => e \notin api.ingested

\* README.md:885 "Force envio de tudo que esta no buffer": a Flush that
\* returned nil leaves none of the events buffered before it in the buffer.
FlushNilSendsAll ==
    \A f \in Flushers : flush[f].pc \in {"ok", "closed"} =>
        before[f] \cap Content(queue) = {}
=============================================================================
