--------------------- MODULE LogCenterClient_proofs ---------------------
(***************************************************************************)
(* Theorems about the delivery path.                                       *)
(***************************************************************************)
EXTENDS LogCenterClient, EventBuffer_proofs

\* A frame at rest is a frame.
LEMMA IdleSendIsFrame == IdleSend \in Frames
  BY ClientAssumption DEF IdleSend, Frames

\* The line counter of the outbox file (os.O_APPEND, outbox.go:35).
LEMMA NextLineIsNat == NextLine \in Nat
<1>1. IsFiniteSet({d \in Events : line[d] > 0})
    BY ClientAssumption, FS_Subset
<1> QED  BY <1>1, FS_CardinalityType DEF NextLine

\* The number of events of a batch.
LEMMA BatchCountIsNat ==
    ASSUME NEW batch \in SUBSET Events
    PROVE  EventCount(batch) \in Nat
<1>1. IsFiniteSet(batch)
  BY ClientAssumption, FS_Subset
<1> QED  BY <1>1, FS_CardinalityType DEF EventCount

\* A step of a frame that sets its pc alone.
LEMMA FrameMoves ==
    ASSUME send \in [Senders -> Frames], NEW s \in Senders,
           NEW p \in {"remove"} \cup Answers
    PROVE  [send EXCEPT ![s].pc = p] \in [Senders -> Frames]
  BY DEF Frames

\* The initial state of NewClient (client.go:42-68) has the declared types.
LEMMA TypeInit == Init => TypeOK
<1> USE BufferAssumption, ClientAssumption
<1> SUFFICES ASSUME Init PROVE TypeOK
  OBVIOUS
<1>1. worker \in WorkerStates
  BY DEF Init, IdleWorker, WorkerStates, Jobs
<1>2. send \in [Senders -> Frames]
  BY DEF Init, IdleSend, Frames
<1>3. flush \in [Flushers -> FlushStates]
  BY DEF Init, FlushStates
<1>4. /\ stats \in [queued : Counts, dropped : Counts, sent : Counts,
                    failed : Counts]
      /\ fate \in [dropped : SUBSET Events, answered : SUBSET Events]
      /\ api \in [ingested : SUBSET Events, repeated : SUBSET Events,
                  unread : SUBSET Events]
  BY DEF Init, Counts
<1>5. /\ call \in [Events -> CallStates] /\ line \in [Events -> Nat]
      /\ close \in [Closers -> CloseStates]
      /\ before \in [Flushers \cup {"close"} -> SUBSET Events]
  BY DEF Init, CallStates, CloseStates
<1>6. queue \in Seq(Events) /\ Len(queue) <= BufferSize
  BY DEF Init
<1>7. /\ notify \in BOOLEAN /\ outbox \subseteq Events
      /\ torn \in BOOLEAN /\ lost \subseteq Events
      /\ closed \in BOOLEAN /\ closeCh \in BOOLEAN /\ done \in BOOLEAN
  BY DEF Init
<1>8. faults \in 0..MaxFaults /\ crashes \in 0..MaxCrashes
  <2>1. faults = 0 /\ crashes = 0
    BY DEF Init
  <2> QED  BY <2>1
<1> QED  BY <1>1, <1>2, <1>3, <1>4, <1>5, <1>6, <1>7, <1>8 DEF TypeOK

\* Every step of a caller, a sender, the worker, Flush, Close and the
\* process keeps the types.
LEMMA TypeStep == TypeOK /\ [Next]_vars => TypeOK'
<1> USE BufferAssumption, ClientAssumption
<1> SUFFICES ASSUME TypeOK, [Next]_vars
             PROVE  TypeOK'
  OBVIOUS
<1>call. call \in [Events -> CallStates]
  BY DEF TypeOK
<1>worker. worker \in WorkerStates
  BY DEF TypeOK
<1>send. send \in [Senders -> Frames]
  BY DEF TypeOK
<1>flush. flush \in [Flushers -> FlushStates]
  BY DEF TypeOK
<1>close. close \in [Closers -> CloseStates]
  BY DEF TypeOK
<1>stats. stats \in [queued : Counts, dropped : Counts, sent : Counts, failed : Counts]
  BY DEF TypeOK
<1>fate. fate \in [dropped : SUBSET Events, answered : SUBSET Events]
  BY DEF TypeOK
<1>api. api \in [ingested : SUBSET Events, repeated : SUBSET Events, unread : SUBSET Events]
  BY DEF TypeOK
<1>line. line \in [Events -> Nat]
  BY DEF TypeOK
<1>queue. queue \in Seq(Events) /\ Len(queue) <= BufferSize
  BY DEF TypeOK
<1>before. before \in [Flushers \cup {"close"} -> SUBSET Events]
  BY DEF TypeOK
<1>faults. faults \in 0..MaxFaults
  BY DEF TypeOK
<1>outbox. outbox \subseteq Events /\ torn \in BOOLEAN /\ lost \subseteq Events
  BY DEF TypeOK
<1>1. ASSUME NEW e \in Events, Refuse(e)
      PROVE  TypeOK'
  <2>1. call' \in [Events -> CallStates]
    BY <1>1, <1>call DEF Refuse, CallStates
  <2>2. stats' \in [queued : Counts, dropped : Counts, sent : Counts, failed : Counts]
    BY <1>1, <1>stats DEF Refuse, ReportDrop, Counts, Plus
  <2>3. fate' \in [dropped : SUBSET Events, answered : SUBSET Events]
    BY <1>1, <1>fate DEF Refuse, ReportDrop
  <2> QED  BY <1>1, <2>1, <2>2, <2>3 DEF TypeOK, Refuse, ReportDrop, callVars, closeVars, fileVars, boundVars, workerRest, callerRest
<1>2. ASSUME NEW e \in Events, Prepare(e)
      PROVE  TypeOK'
  <2>1. call' \in [Events -> CallStates]
    BY <1>2, <1>call DEF Prepare, CallStates
  <2>2. send' \in [Senders -> Frames]
    BY <1>2, <1>send DEF Prepare, StartSend, Senders, Frames
  <2> QED  BY <1>2, <2>1, <2>2 DEF TypeOK, Prepare, callVars, closeVars, fileVars, boundVars, workerRest, callerRest
<1>3. ASSUME NEW e \in Events, Persist(e)
      PROVE  TypeOK'
  <2>1. call' \in [Events -> CallStates]
    BY <1>3, <1>call DEF Persist, CallStates
  <2>2. line' \in [Events -> Nat]
    BY <1>3, <1>line, NextLineIsNat DEF Persist, AppendOutbox, CutLine, fileVars
  <2>3. faults' \in 0..MaxFaults
    BY <1>3, <1>faults DEF Persist, Fault
  <2>4. outbox' \subseteq Events /\ torn' \in BOOLEAN /\ lost' \subseteq Events
    <3>1. /\ outbox' = outbox \/ outbox' = outbox \cup {e}
          /\ lost' = lost \/ lost' = lost \cup {e}
          /\ torn' \in {torn, FALSE, TRUE}
      BY <1>3 DEF Persist, AppendOutbox, CutLine, fileVars
    <3> QED  BY <3>1, <1>outbox
  <2> QED  BY <1>3, <2>1, <2>2, <2>3, <2>4 DEF TypeOK, Persist, callVars, closeVars, fileVars, boundVars, workerRest, callerRest
<1>4. ASSUME NEW e \in Events, Push(e)
      PROVE  TypeOK'
  <2>1. queue' \in Seq(Events) /\ Len(queue') <= BufferSize
    <3>1. CASE PushStored(e)
      BY <3>1, <1>queue, AppendStores DEF PushStored
    <3>2. CASE PushReplacing(e)
      BY <3>2, <1>queue, ReplaceStores DEF PushReplacing
    <3>3. CASE PushRefused(e)
      BY <3>3, <1>queue DEF PushRefused
    <3> QED  BY <1>4, <3>1, <3>2, <3>3 DEF Push
  <2>2. call' \in [Events -> CallStates]
    <3>1. \E p \in {"announce", "false"} : call' = [call EXCEPT ![e] = p]
      BY <1>4 DEF Push, PushStored, PushReplacing, PushRefused
    <3> QED  BY <3>1, <1>call DEF CallStates
  <2>3. /\ fate' \in [dropped : SUBSET Events, answered : SUBSET Events]
        /\ stats' \in [queued : Counts, dropped : Counts, sent : Counts,
                       failed : Counts]
    <3>1. ASSUME NEW d \in Events, ReportDrop(d)
          PROVE  /\ fate' \in [dropped : SUBSET Events, answered : SUBSET Events]
                 /\ stats' \in [queued : Counts, dropped : Counts, sent : Counts,
                                failed : Counts]
      <4>1. fate' = [fate EXCEPT !.dropped = @ \cup {d}]
        BY <3>1 DEF ReportDrop
      <4>2. stats' = [stats EXCEPT !.dropped = Plus(@, 1)]
        BY <3>1 DEF ReportDrop
      <4>3. fate' \in [dropped : SUBSET Events, answered : SUBSET Events]
        BY <4>1, <1>fate
      <4>4. stats' \in [queued : Counts, dropped : Counts, sent : Counts,
                        failed : Counts]
        BY <4>2, <1>stats DEF Counts, Plus
      <4> QED  BY <4>3, <4>4
    <3>2. CASE PushStored(e)
      BY <3>2, <1>fate, <1>stats DEF PushStored
    <3>3. CASE PushReplacing(e)
      <4>1. queue[Victim(queue)] \in Events
        BY <3>3, <1>queue, ReplaceStores DEF PushReplacing, Content
      <4> QED  BY <3>1, <3>3, <4>1 DEF PushReplacing
    <3>4. CASE PushRefused(e)
      BY <3>1, <3>4 DEF PushRefused
    <3> QED  BY <1>4, <3>2, <3>3, <3>4 DEF Push
  <2> QED  BY <1>4, <2>1, <2>2, <2>3 DEF TypeOK, Push, closeVars, fileVars, boundVars
<1>5. ASSUME NEW e \in Events, Announce(e)
      PROVE  TypeOK'
  <2>1. call' \in [Events -> CallStates]
    BY <1>5, <1>call DEF Announce, CallStates
  <2>2. stats' \in [queued : Counts, dropped : Counts, sent : Counts, failed : Counts]
    BY <1>5, <1>stats DEF Announce, Counts, Plus
  <2> QED  BY <1>5, <2>1, <2>2 DEF TypeOK, Announce, callVars, closeVars, fileVars, boundVars, workerRest, callerRest
<1>6. ASSUME NEW e \in Events, SyncReturn(e)
      PROVE  TypeOK'
  <2>1. call' \in [Events -> CallStates]
    BY <1>6, <1>call DEF SyncReturn, CallStates
  <2>2. send' \in [Senders -> Frames]
    BY <1>6, <1>send, IdleSendIsFrame DEF SyncReturn
  <2> QED  BY <1>6, <2>1, <2>2 DEF TypeOK, SyncReturn, callVars, closeVars, fileVars, boundVars, workerRest, callerRest
<1>7. ASSUME NEW s \in Senders, Answered(s)
      PROVE  TypeOK'
  <2>1. send[s] \in Frames /\ send[s].batch \subseteq Events
    BY <1>send DEF Frames
  <2>2. EventCount(send[s].batch) \in Nat
    BY <2>1, BatchCountIsNat
  <2>3. stats' \in [queued : Counts, dropped : Counts, sent : Counts,
                    failed : Counts]
    <3>1. stats' = [stats EXCEPT !.sent = Plus(@, EventCount(send[s].batch))]
      BY <1>7 DEF Answered
    <3> QED  BY <3>1, <2>2, <1>stats DEF Counts, Plus
  <2>4. fate' \in [dropped : SUBSET Events, answered : SUBSET Events]
    BY <1>7, <2>1, <1>fate DEF Answered
  <2>5. api' \in [ingested : SUBSET Events, repeated : SUBSET Events,
                 unread : SUBSET Events]
    BY <1>7, <2>1, <1>api DEF Answered, Ingest
  <2>6. send' \in [Senders -> Frames]
    <3>1. PICK p \in {"remove", "rejected", "sent"} :
              send' = [send EXCEPT ![s].pc = p]
      BY <1>7 DEF Answered, AnswerOf
    <3>2. p \in {"remove"} \cup Answers
      BY DEF Answers
    <3> QED  BY <3>1, <3>2, FrameMoves, <1>send
  <2> QED  BY <1>7, <2>3, <2>4, <2>5, <2>6 DEF TypeOK, Answered, closeVars, fileVars, boundVars
<1>8. ASSUME NEW s \in Senders, FailedPost(s)
      PROVE  TypeOK'
  <2>1. send[s] \in Frames /\ send[s].batch \subseteq Events
    BY <1>send DEF Frames
  <2>2. EventCount(send[s].batch) \in Nat
    BY <2>1, BatchCountIsNat
  <2>3. PICK retryable \in BOOLEAN : FailAttempt(s, retryable)
    BY <1>8 DEF FailedPost, Unreachable, Status4xx, AnswerLost
  <2>4. send' \in [Senders -> Frames]
    <3>1. CASE MayRetry(s, retryable)
      <4>1. send' = [send EXCEPT ![s].attempt = @ + 1]
        BY <2>3, <3>1 DEF FailAttempt
      <4>2. ASSUME NEW r \in Frames, r.attempt < RetryAttempts
            PROVE  [r EXCEPT !.attempt = @ + 1] \in Frames
        BY <4>2 DEF Frames
      <4>3. send[s].attempt < RetryAttempts
        BY <3>1 DEF MayRetry
      <4> QED  BY <4>1, <4>2, <4>3, <2>1, <1>send
    <3>2. CASE ~MayRetry(s, retryable)
      <4>1. PICK p \in {"failed", "refused"} : send' = [send EXCEPT ![s].pc = p]
        BY <2>3, <3>2 DEF FailAttempt, AfterFailure
      <4>2. p \in {"remove"} \cup Answers
        BY DEF Answers
      <4> QED  BY <4>1, <4>2, FrameMoves, <1>send
    <3> QED  BY <3>1, <3>2
  <2>5. stats' \in [queued : Counts, dropped : Counts, sent : Counts,
                    failed : Counts]
    <3>1. \/ stats' = [stats EXCEPT !.failed =
                                     Plus(@, EventCount(send[s].batch))]
          \/ stats' = stats
      BY <2>3 DEF FailAttempt
    <3> QED  BY <3>1, <2>2, <1>stats DEF Counts, Plus
  <2>6. fate' \in [dropped : SUBSET Events, answered : SUBSET Events]
    BY <2>3, <1>fate DEF FailAttempt
  <2>7. api' \in [ingested : SUBSET Events, repeated : SUBSET Events,
                 unread : SUBSET Events]
    <3>1. Ingest(send[s].batch) \in [ingested : SUBSET Events,
                 repeated : SUBSET Events, unread : SUBSET Events]
      BY <2>1, <1>api DEF Ingest
    <3>2. \/ api' = api
          \/ api' = [Ingest(send[s].batch) EXCEPT !.unread = @ \cup send[s].batch]
      BY <1>8 DEF FailedPost, Unreachable, Status4xx, AnswerLost
    <3> QED  BY <3>1, <3>2, <2>1, <1>api
  <2>8. faults' \in 0..MaxFaults
    <3>1. faults' = faults \/ (faults < MaxFaults /\ faults' = faults + 1)
      BY <1>8 DEF FailedPost, Unreachable, Status4xx, AnswerLost, Fault
    <3> QED  BY <3>1, <1>faults
  <2> QED  BY <1>8, <2>4, <2>5, <2>6, <2>7, <2>8 DEF TypeOK, FailedPost, closeVars, fileVars
<1>9. ASSUME NEW s \in Senders, RemoveSent(s)
      PROVE  TypeOK'
  <2>1. send' \in [Senders -> Frames]
    BY <1>9, <1>send DEF RemoveSent, AnswerOf, Answers, Frames
  <2>2. faults' \in 0..MaxFaults
    BY <1>9, <1>faults DEF RemoveSent, Fault
  <2>3. outbox' \subseteq Events /\ torn' \in BOOLEAN /\ lost' \subseteq Events
        /\ line' = line
    BY <1>9, <1>outbox DEF RemoveSent, Removed, Interrupted, fileVars
  <2> QED  BY <1>9, <2>1, <2>2, <2>3 DEF TypeOK, RemoveSent, callVars, closeVars, fileVars, boundVars, workerRest, callerRest
<1>10. ASSUME TakeNotify
      PROVE  TypeOK'
  <2>1. worker' \in WorkerStates
    BY <1>10, <1>worker DEF TakeNotify, WorkerStates
  <2> QED  BY <1>10, <2>1 DEF TypeOK, TakeNotify, callVars, closeVars, fileVars, boundVars, workerRest, callerRest
<1>11. ASSUME CheckLength
      PROVE  TypeOK'
  <2>1. worker' \in WorkerStates
    BY <1>11, <1>worker DEF CheckLength, Jobs, WorkerStates
  <2> QED  BY <1>11, <2>1 DEF TypeOK, CheckLength, callVars, closeVars, fileVars, boundVars, workerRest, callerRest
<1>12. ASSUME Tick
      PROVE  TypeOK'
  <2>1. worker' \in WorkerStates
    BY <1>12, <1>worker DEF Tick, Jobs, StartJob, WorkerStates
  <2> QED  BY <1>12, <2>1 DEF TypeOK, Tick, StartJob, callVars, closeVars, fileVars, boundVars, workerRest, callerRest
<1>13. ASSUME NEW f \in Flushers, TakeFlush(f)
      PROVE  TypeOK'
  <2>1. worker' \in WorkerStates
    BY <1>13, <1>worker DEF TakeFlush, Jobs, StartJob, WorkerStates
  <2>2. flush' \in [Flushers -> FlushStates]
    BY <1>13, <1>flush DEF TakeFlush, Waiting, FlushStates
  <2> QED  BY <1>13, <2>1, <2>2 DEF TypeOK, TakeFlush, callVars, closeVars, fileVars, boundVars, workerRest, callerRest
<1>14. ASSUME TakeClose
      PROVE  TypeOK'
  <2>1. worker' \in WorkerStates
    BY <1>14, <1>worker DEF TakeClose, Jobs, StartJob, WorkerStates
  <2> QED  BY <1>14, <2>1 DEF TypeOK, TakeClose, callVars, closeVars, fileVars, boundVars, workerRest, callerRest
<1>15. ASSUME DrainBatch
      PROVE  TypeOK'
  <2>1. queue' \in Seq(Events) /\ Len(queue') <= BufferSize
    <3>1. queue # <<>> /\ queue' = Remainder(queue, BatchSize)
      BY <1>15 DEF DrainBatch
    <3> QED  BY <3>1, <1>queue, DrainSplits
  <2>2. send' \in [Senders -> Frames]
    <3>1. send' = [send EXCEPT ![Worker] =
                      [pc |-> "post",
                       batch |-> Content(Drained(queue, BatchSize)),
                       attempt |-> 0]]
      BY <1>15 DEF DrainBatch, StartSend
    <3>2. Content(Drained(queue, BatchSize)) \subseteq Events
      <4>1. Drained(queue, BatchSize) \in Seq(Events)
        BY <1>15, <1>queue, DrainSplits DEF DrainBatch
      <4> QED  BY <4>1 DEF Content
    <3>3. [pc |-> "post", batch |-> Content(Drained(queue, BatchSize)),
           attempt |-> 0] \in Frames
      BY <3>2 DEF Frames
    <3> QED  BY <3>1, <3>3, <1>send
  <2>3. worker' \in WorkerStates
    BY <1>15, <1>worker DEF DrainBatch, WorkerStates
  <2> QED  BY <1>15, <2>1, <2>2, <2>3 DEF TypeOK, DrainBatch, callVars, closeVars, fileVars, boundVars, workerRest, callerRest
<1>16. ASSUME DrainEmpty
      PROVE  TypeOK'
  <2>1. worker' \in WorkerStates
    BY <1>16, <1>worker DEF DrainEmpty, WorkerStates
  <2> QED  BY <1>16, <2>1 DEF TypeOK, DrainEmpty, callVars, closeVars, fileVars, boundVars, workerRest, callerRest
<1>17. ASSUME QueueBatchDone
      PROVE  TypeOK'
  <2>1. worker' \in WorkerStates
    BY <1>17, <1>worker DEF QueueBatchDone, AfterQueueBatch, WorkerStates
  <2>2. send' \in [Senders -> Frames]
    BY <1>17, <1>send, IdleSendIsFrame DEF QueueBatchDone
  <2> QED  BY <1>17, <2>1, <2>2 DEF TypeOK, QueueBatchDone, callVars, closeVars, fileVars, boundVars, workerRest, callerRest
<1>18. ASSUME PeekBatch
      PROVE  TypeOK'
  <2>1. worker' \in WorkerStates
    BY <1>18, <1>worker DEF PeekBatch, WorkerStates
  <2>2. send' \in [Senders -> Frames]
    <3>1. Peeked \subseteq Events
      BY <1>outbox DEF Peeked
    <3>2. send' = [send EXCEPT ![Worker] =
                      [pc |-> "post", batch |-> Peeked, attempt |-> 0]]
      BY <1>18 DEF PeekBatch, StartSend
    <3>3. [pc |-> "post", batch |-> Peeked, attempt |-> 0] \in Frames
      BY <3>1 DEF Frames
    <3> QED  BY <3>2, <3>3, <1>send
  <2> QED  BY <1>18, <2>1, <2>2 DEF TypeOK, PeekBatch, callVars, closeVars, fileVars, boundVars, workerRest, callerRest
<1>19. ASSUME PeekEmpty
      PROVE  TypeOK'
  <2>1. worker' \in WorkerStates
    BY <1>19, <1>worker DEF PeekEmpty, WorkerStates
  <2> QED  BY <1>19, <2>1 DEF TypeOK, PeekEmpty, callVars, closeVars, fileVars, boundVars, workerRest, callerRest
<1>20. ASSUME PeekFails
      PROVE  TypeOK'
  <2>1. worker' \in WorkerStates
    BY <1>20, <1>worker DEF PeekFails, WorkerStates
  <2>2. faults' \in 0..MaxFaults
    BY <1>20, <1>faults DEF PeekFails, Fault
  <2> QED  BY <1>20, <2>1, <2>2 DEF TypeOK, PeekFails, callVars, closeVars, fileVars, boundVars, workerRest, callerRest
<1>21. ASSUME OutboxBatchDone
      PROVE  TypeOK'
  <2>1. worker' \in WorkerStates
    BY <1>21, <1>worker DEF OutboxBatchDone, WorkerStates
  <2>2. send' \in [Senders -> Frames]
    BY <1>21, <1>send, IdleSendIsFrame DEF OutboxBatchDone
  <2> QED  BY <1>21, <2>1, <2>2 DEF TypeOK, OutboxBatchDone, callVars, closeVars, fileVars, boundVars, workerRest, callerRest
<1>22. ASSUME Finish
      PROVE  TypeOK'
  <2>1. worker' \in WorkerStates
    BY <1>22, <1>worker DEF Finish, AfterJob, IdleWorker, Jobs, WorkerStates
  <2>2. flush' \in [Flushers -> FlushStates]
    BY <1>22, <1>flush DEF Finish, Verdict, FlushStates
  <2> QED  BY <1>22, <2>1, <2>2 DEF TypeOK, Finish, AfterJob, callVars, closeVars, fileVars, boundVars, workerRest, callerRest
<1>23. ASSUME NEW f \in Flushers, CallFlush(f)
      PROVE  TypeOK'
  <2>1. flush' \in [Flushers -> FlushStates]
    BY <1>23, <1>flush DEF CallFlush, Waiting, FlushStates
  <2>2. before' \in [Flushers \cup {"close"} -> SUBSET Events]
    BY <1>23, <1>before DEF CallFlush, ReturnedTrue
  <2> QED  BY <1>23, <2>1, <2>2 DEF TypeOK, CallFlush, callVars, closeVars, fileVars, boundVars, workerRest, callerRest
<1>24. ASSUME NEW f \in Flushers, ExpireFlush(f)
      PROVE  TypeOK'
  <2>1. flush' \in [Flushers -> FlushStates]
    <3>1. flush' = [flush EXCEPT ![f].expired = TRUE]
      BY <1>24 DEF ExpireFlush
    <3>2. [flush[f] EXCEPT !.expired = TRUE] \in FlushStates
      <4>1. ASSUME NEW r \in FlushStates
            PROVE  [r EXCEPT !.expired = TRUE] \in FlushStates
        BY DEF FlushStates
      <4> QED  BY <4>1, <1>flush
    <3> QED  BY <3>1, <3>2, <1>flush
  <2> QED  BY <1>24, <2>1 DEF TypeOK, ExpireFlush, callVars, closeVars, fileVars, boundVars, workerRest, callerRest
<1>25. ASSUME NEW f \in Flushers, FlushStep(f)
      PROVE  TypeOK'
  <2>1. flush' \in [Flushers -> FlushStates]
    BY <1>25, <1>flush DEF FlushStep, FlushReply, FlushTimeout, FlushClosed, FlushReturns, FlushStates
  <2> QED  BY <1>25, <2>1 DEF TypeOK, FlushStep, FlushReply, FlushTimeout, FlushClosed, FlushReturns, callVars, closeVars, fileVars, boundVars, workerRest, callerRest
<1>26. ASSUME NEW c \in Closers, CloseFlag(c)
      PROVE  TypeOK'
  <2>1. close' \in [Closers -> CloseStates]
    BY <1>26, <1>close DEF CloseFlag, CloseStates
  <2>2. before' \in [Flushers \cup {"close"} -> SUBSET Events]
    BY <1>26, <1>before DEF CloseFlag, ReturnedTrue
  <2> QED  BY <1>26, <2>1, <2>2 DEF TypeOK, CloseFlag, callVars, closeVars, fileVars, boundVars, workerRest, callerRest
<1>27. ASSUME NEW c \in Closers, CloseSignal(c)
      PROVE  TypeOK'
  <2>1. close' \in [Closers -> CloseStates]
    BY <1>27, <1>close DEF CloseSignal, CloseStates
  <2> QED  BY <1>27, <2>1 DEF TypeOK, CloseSignal, callVars, closeVars, fileVars, boundVars, workerRest, callerRest
<1>28. ASSUME NEW c \in Closers, CloseAgain(c)
      PROVE  TypeOK'
  <2>1. close' \in [Closers -> CloseStates]
    BY <1>28, <1>close DEF CloseAgain, CloseStates
  <2> QED  BY <1>28, <2>1 DEF TypeOK, CloseAgain, callVars, closeVars, fileVars, boundVars, workerRest, callerRest
<1>29. ASSUME NEW c \in Closers, CloseDone(c)
      PROVE  TypeOK'
  <2>1. close' \in [Closers -> CloseStates]
    BY <1>29, <1>close DEF CloseDone, CloseStates
  <2> QED  BY <1>29, <2>1 DEF TypeOK, CloseDone, callVars, closeVars, fileVars, boundVars, workerRest, callerRest
<1>30. ASSUME NEW c \in Closers, CloseTimeout(c)
      PROVE  TypeOK'
  <2>1. close' \in [Closers -> CloseStates]
    BY <1>30, <1>close DEF CloseTimeout, CloseStates
  <2> QED  BY <1>30, <2>1 DEF TypeOK, CloseTimeout, callVars, closeVars, fileVars, boundVars, workerRest, callerRest
<1>31. ASSUME Crash
      PROVE  TypeOK'
  <2>1. call' \in [Events -> CallStates]
    BY <1>31, <1>call DEF Crash, CallStates
  <2>2. worker' \in WorkerStates
    BY <1>31, <1>worker DEF Crash, IdleWorker, Jobs, WorkerStates
  <2>3. send' \in [Senders -> Frames]
    BY <1>31, IdleSendIsFrame DEF Crash
  <2>4. flush' \in [Flushers -> FlushStates]
    BY <1>31, <1>flush DEF Crash, FlushStates
  <2>5. close' \in [Closers -> CloseStates]
    BY <1>31, <1>close DEF Crash, CloseStates
  <2>6. stats' \in [queued : Counts, dropped : Counts, sent : Counts, failed : Counts]
    BY <1>31, <1>stats DEF Crash, Counts, Plus
  <2>7. queue' \in Seq(Events) /\ Len(queue') <= BufferSize /\ crashes' \in 0..MaxCrashes
    BY <1>31 DEF TypeOK, Crash
  <2>8. outbox' \subseteq Events /\ torn' \in BOOLEAN /\ lost' \subseteq Events
        /\ line' = line
    BY <1>31, <1>outbox DEF Crash, CrashedFile, CutLine, Interrupted, fileVars
  <2> QED  BY <1>31, <2>1, <2>2, <2>3, <2>4, <2>5, <2>6, <2>7, <2>8 DEF TypeOK, Crash, callVars, closeVars, fileVars, boundVars, workerRest, callerRest
<1>32. CASE UNCHANGED vars
  BY <1>32 DEF TypeOK, vars, callVars, closeVars, fileVars, boundVars
<1> QED
  BY <1>1, <1>2, <1>3, <1>4, <1>5, <1>6, <1>7, <1>8, <1>9, <1>10, <1>11, <1>12, <1>13, <1>14, <1>15, <1>16, <1>17, <1>18, <1>19, <1>20, <1>21, <1>22, <1>23, <1>24, <1>25, <1>26, <1>27, <1>28, <1>29, <1>30, <1>31, <1>32
  DEF Next, CallStep, SendStep, WorkerStep, CloseStep, Stopped

\* Every variable keeps its declared values: the buffer never outgrows
\* config.BufferSize, an attempt never exceeds config.RetryAttempts, the
\* batches and the outbox hold offered events only (queue.go:24-67,
\* client.go:316-366).
THEOREM TypeCorrect == Spec => []TypeOK
  BY TypeInit, TypeStep, PTL DEF Spec

-----------------------------------------------------------------------------
(* The outbox keeps an event until a 2xx answer with it has been read.      *)

\* The strengthening: a sender that is about to remove its batch from the
\* file has read the answer to it.
RemovesAnswered ==
    \A s \in Senders : send[s].pc = "remove" => send[s].batch \subseteq fate.answered

Keeps == \A e \in Events : line[e] > 0 => e \in outbox \cup fate.answered \cup lost

OutboxInv == Keeps /\ RemovesAnswered

\* A cut line and a lost one are the work of a fault or of a crash.
Costs == torn \/ lost # {} => faults + crashes > 0

LEMMA CostsStep ==
    ASSUME TypeOK, Costs, [Next]_vars
    PROVE  Costs'
<1>1. faults \in Nat /\ crashes \in Nat
  BY ClientAssumption DEF TypeOK
<1>2. ASSUME NEW e \in Events, Persist(e)  PROVE Costs'
  <2>1. CASE AppendOutbox(e) /\ UNCHANGED faults
    BY <1>2, <2>1 DEF Persist, AppendOutbox, Costs
  <2>2. CASE Fault
    BY <1>1, <1>2, <2>2 DEF Persist, Fault, Costs
  <2> QED  BY <1>2, <2>1, <2>2 DEF Persist
<1>3. ASSUME NEW s \in Senders, RemoveSent(s)  PROVE Costs'
  <2>1. CASE Removed(s) /\ UNCHANGED faults
    BY <1>3, <2>1 DEF RemoveSent, Removed, Costs
  <2>2. CASE Fault
    BY <1>1, <1>3, <2>2 DEF RemoveSent, Fault, Costs
  <2> QED  BY <1>3, <2>1, <2>2 DEF RemoveSent
<1>4. ASSUME NEW s \in Senders, FailedPost(s)  PROVE Costs'
  <2>1. UNCHANGED <<torn, lost, crashes>>
    BY <1>4 DEF FailedPost, fileVars
  <2>2. faults' = faults \/ faults' = faults + 1
    BY <1>4 DEF FailedPost, Unreachable, Status4xx, AnswerLost, Fault
  <2> QED  BY <1>1, <2>1, <2>2 DEF Costs
<1>5. CASE PeekFails
  BY <1>1, <1>5 DEF PeekFails, Fault, Costs, fileVars
<1>6. CASE Crash
  BY <1>1, <1>6 DEF Crash, Costs
<1>7. ASSUME UNCHANGED <<torn, lost, faults, crashes>>  PROVE Costs'
  BY <1>7 DEF Costs
<1>8. ASSUME NEW e \in Events,
             Refuse(e) \/ Prepare(e) \/ Push(e) \/ Announce(e) \/ SyncReturn(e)
      PROVE  Costs'
  BY <1>7, <1>8 DEF Refuse, Prepare, Push, Announce, SyncReturn, fileVars, boundVars
<1>9. ASSUME NEW s \in Senders, Answered(s)  PROVE Costs'
  BY <1>7, <1>9 DEF Answered, fileVars, boundVars
<1>10. CASE \/ TakeNotify \/ CheckLength \/ Tick \/ TakeClose \/ DrainBatch
            \/ DrainEmpty \/ QueueBatchDone \/ PeekBatch \/ PeekEmpty
            \/ OutboxBatchDone \/ Finish
  BY <1>7, <1>10
  DEF TakeNotify, CheckLength, Tick, TakeClose, DrainBatch, DrainEmpty,
      QueueBatchDone, PeekBatch, PeekEmpty, OutboxBatchDone, Finish, workerRest,
      fileVars
<1>11. ASSUME NEW f \in Flushers,
              TakeFlush(f) \/ CallFlush(f) \/ ExpireFlush(f) \/ FlushStep(f)
       PROVE  Costs'
  BY <1>7, <1>11
  DEF TakeFlush, CallFlush, ExpireFlush, FlushStep, FlushReply, FlushTimeout,
      FlushClosed, FlushReturns, workerRest, callerRest, fileVars, boundVars
<1>12. ASSUME NEW c \in Closers,
              \/ CloseFlag(c) \/ CloseAgain(c) \/ CloseTimeout(c)
              \/ CloseSignal(c) \/ CloseDone(c)
       PROVE  Costs'
  BY <1>7, <1>12
  DEF CloseFlag, CloseAgain, CloseTimeout, CloseSignal, CloseDone, callerRest,
      fileVars, boundVars
<1>13. CASE UNCHANGED vars
  BY <1>7, <1>13 DEF vars, fileVars, boundVars
<1> QED
  BY <1>2, <1>3, <1>4, <1>5, <1>6, <1>8, <1>9, <1>10, <1>11, <1>12, <1>13,
     ClientAssumption
  DEF Next, CallStep, SendStep, WorkerStep, CloseStep, Stopped

\* A sender's frame changes to a frame that is not about to remove.
LEMMA OtherFrame ==
    ASSUME TypeOK, RemovesAnswered, NEW s \in Senders,
           NEW r \in Frames, r.pc # "remove",
           send' = [send EXCEPT ![s] = r],
           fate.answered \subseteq fate'.answered
    PROVE  RemovesAnswered'
<1>1. send \in [Senders -> Frames]
  BY DEF TypeOK
<1>2. ASSUME NEW t \in Senders
      PROVE  send'[t] = r \/ send'[t] = send[t]
  BY <1>1
<1> QED  BY <1>2 DEF RemovesAnswered

\* README.md:1029-1030 and outbox.go: an event that was appended stays in the
\* file until the answer to a batch with it was read, through retries, failed
\* operations, crashes and concurrent senders, unless an interrupted replacement
\* or a line that was cut short before it took its line; and nothing is lost
\* that way without a failed operation or a crash.
THEOREM OutboxKeeps == Spec => []OutboxKeepsUntilAnswered
<1> USE BufferAssumption, ClientAssumption
<1>1. Init => OutboxInv /\ Costs
  BY DEF Init, OutboxInv, Keeps, RemovesAnswered, IdleSend, Costs
<1>2. TypeOK /\ OutboxInv /\ [Next]_vars => OutboxInv'
  <2> SUFFICES ASSUME TypeOK, OutboxInv, [Next]_vars
               PROVE  OutboxInv'
    OBVIOUS
  <2>send. send \in [Senders -> Frames]
    BY DEF TypeOK
  <2>line. line \in [Events -> Nat]
    BY DEF TypeOK
  <2>fate. fate \in [dropped : SUBSET Events, answered : SUBSET Events]
    BY DEF TypeOK
  <2>kept. Keeps /\ RemovesAnswered
    BY DEF OutboxInv
  <2>quiet. ASSUME UNCHANGED <<send, outbox, line, lost>>, fate.answered \subseteq fate'.answered
            PROVE  OutboxInv'
    BY <2>quiet, <2>kept
    DEF OutboxInv, Keeps, RemovesAnswered
  <2>frame. ASSUME NEW s \in Senders, NEW r \in Frames, r.pc # "remove",
                   send' = [send EXCEPT ![s] = r], UNCHANGED <<outbox, line, lost>>,
                   fate.answered \subseteq fate'.answered
            PROVE  OutboxInv'
    <3>1. RemovesAnswered'
      BY <2>frame, <2>kept, OtherFrame
    <3>2. Keeps'
      BY <2>frame, <2>kept DEF Keeps
    <3> QED  BY <3>1, <3>2 DEF OutboxInv
  <2>1. ASSUME NEW e \in Events, Refuse(e) \/ Push(e) \/ Announce(e)
        PROVE  OutboxInv'
    <3>1. UNCHANGED <<send, outbox, line, lost>>
      BY <2>1 DEF Refuse, Push, Announce, fileVars
    <3>2. fate' = fate \/ \E d : fate' = [fate EXCEPT !.dropped = @ \cup {d}]
      BY <2>1 DEF Refuse, Push, PushStored, PushReplacing, PushRefused,
                  Announce, ReportDrop
    <3>3. fate'.answered = fate.answered
      BY <3>2, <2>fate
    <3> QED  BY <3>1, <3>3, <2>quiet
  <2>2. ASSUME NEW e \in Events, Prepare(e)
        PROVE  OutboxInv'
    <3>1. UNCHANGED <<outbox, line, lost, fate>>
      BY <2>2 DEF Prepare, fileVars
    <3>2. CASE e \in Sync
      <4> DEFINE r == [pc |-> "post", batch |-> {e}, attempt |-> 0]
      <4>1. send' = [send EXCEPT ![e] = r]
        BY <2>2, <3>2 DEF Prepare, StartSend
      <4>2. r \in Frames /\ r.pc # "remove"
        BY DEF Frames
      <4>3. e \in Senders
        BY <3>2 DEF Senders
      <4> HIDE DEF r
      <4> QED  BY <3>1, <4>1, <4>2, <4>3, <2>frame
    <3>3. CASE e \notin Sync
      <4>1. send' = send
        BY <2>2, <3>3 DEF Prepare
      <4> QED  BY <3>1, <4>1, <2>quiet
    <3> QED  BY <3>2, <3>3
  <2>3. ASSUME NEW e \in Events, Persist(e)
        PROVE  OutboxInv'
    <3>1. send' = send /\ fate' = fate
      BY <2>3 DEF Persist
    <3>2. /\ outbox \subseteq outbox' /\ lost \subseteq lost'
          /\ \/ e \in outbox' \cup lost' /\ line' = [line EXCEPT ![e] = NextLine]
             \/ line' = line
      BY <2>3 DEF Persist, AppendOutbox, CutLine, fileVars
    <3>3. Keeps'
      <4>1. CASE line' = line
        BY <3>1, <3>2, <4>1, <2>kept DEF Keeps
      <4>2. CASE e \in outbox' \cup lost' /\ line' = [line EXCEPT ![e] = NextLine]
        <5> SUFFICES ASSUME NEW d \in Events, line'[d] > 0
                     PROVE  d \in outbox' \cup fate'.answered \cup lost'
          BY DEF Keeps
        <5>1. CASE d = e
          BY <4>2, <5>1
        <5>2. CASE d # e
          <6>1. line'[d] = line[d]
            BY <4>2, <5>2, <2>line
          <6> QED  BY <3>1, <3>2, <6>1, <2>kept DEF Keeps
        <5> QED  BY <5>1, <5>2
      <4> QED  BY <3>2, <4>1, <4>2
    <3>4. RemovesAnswered'
      BY <3>1, <2>kept DEF RemovesAnswered
    <3> QED  BY <3>3, <3>4 DEF OutboxInv
  <2>4. ASSUME NEW e \in Sync, SyncReturn(e)
        PROVE  OutboxInv'
    <3>1. /\ UNCHANGED <<outbox, line, lost, fate>>
          /\ send' = [send EXCEPT ![e] = IdleSend]
      BY <2>4 DEF SyncReturn, fileVars
    <3> QED  BY <3>1, <2>frame, IdleSendIsFrame DEF Senders, IdleSend
  <2>5. ASSUME NEW s \in Senders, Answered(s)
        PROVE  OutboxInv'
    <3>1. /\ UNCHANGED <<outbox, line, lost>>
          /\ fate' = [fate EXCEPT !.answered = @ \cup send[s].batch]
      BY <2>5 DEF Answered, fileVars
    <3>2. fate'.answered = fate.answered \cup send[s].batch
      BY <3>1, <2>fate
    <3>3. PICK p : send' = [send EXCEPT ![s].pc = p]
      BY <2>5 DEF Answered
    <3>4. RemovesAnswered'
      <4> SUFFICES ASSUME NEW t \in Senders, send'[t].pc = "remove"
                   PROVE  send'[t].batch \subseteq fate'.answered
        BY DEF RemovesAnswered
      <4>1. send'[t].batch = send[t].batch
        BY <3>3, <2>send DEF Frames
      <4>2. CASE t = s
        BY <3>2, <4>1, <4>2
      <4>3. CASE t # s
        <5>1. send'[t] = send[t]
          BY <3>3, <4>3, <2>send
        <5> QED  BY <3>2, <5>1, <2>kept DEF RemovesAnswered
      <4> QED  BY <4>2, <4>3
    <3>5. Keeps'
      BY <3>1, <3>2, <2>kept DEF Keeps
    <3> QED  BY <3>4, <3>5 DEF OutboxInv
  <2>6. ASSUME NEW s \in Senders, FailedPost(s)
        PROVE  OutboxInv'
    <3>1. UNCHANGED <<outbox, line, lost>>
      BY <2>6 DEF FailedPost, fileVars
    <3>2. PICK retryable \in BOOLEAN : FailAttempt(s, retryable)
      BY <2>6 DEF FailedPost, Unreachable, Status4xx, AnswerLost
    <3>3. fate' = fate /\ send[s].pc = "post"
      BY <2>6, <3>2 DEF FailAttempt, FailedPost
    <3>4. send'[s].pc # "remove"
      <4>1. CASE send' = [send EXCEPT ![s].attempt = @ + 1]
        <5>1. send'[s] = [send[s] EXCEPT !.attempt = @ + 1]
          BY <4>1, <2>send
        <5>2. send'[s].pc = send[s].pc
          BY <5>1, <2>send DEF Frames
        <5> QED  BY <3>3, <5>2
      <4>2. CASE send' = [send EXCEPT ![s].pc = AfterFailure(retryable)]
        <5>1. send'[s] = [send[s] EXCEPT !.pc = AfterFailure(retryable)]
          BY <4>2, <2>send
        <5>2. send'[s].pc = AfterFailure(retryable)
          BY <5>1, <2>send DEF Frames
        <5> QED  BY <5>2 DEF AfterFailure
      <4> QED  BY <3>2, <4>1, <4>2 DEF FailAttempt
    <3>others. \A t \in Senders : t # s => send'[t] = send[t]
      BY <3>2, <2>send DEF FailAttempt
    <3>5. RemovesAnswered'
      BY <3>3, <3>4, <3>others, <2>kept DEF RemovesAnswered
    <3>6. Keeps'
      BY <3>1, <3>3, <2>kept DEF Keeps
    <3> QED  BY <3>5, <3>6 DEF OutboxInv
  <2>7. ASSUME NEW s \in Senders, RemoveSent(s)
        PROVE  OutboxInv'
    <3>1. /\ line' = line /\ fate' = fate
          /\ outbox \ send[s].batch \subseteq outbox' \cup lost'
          /\ lost \subseteq lost'
          /\ send[s].pc = "remove"
      BY <2>7 DEF RemoveSent, Removed, Interrupted, callVars, fileVars
    <3>2. PICK p \in {"rejected", "sent"} : send' = [send EXCEPT ![s].pc = p]
      BY <2>7 DEF RemoveSent, AnswerOf
    <3>3. RemovesAnswered'
      <4> SUFFICES ASSUME NEW t \in Senders, send'[t].pc = "remove"
                   PROVE  send'[t].batch \subseteq fate'.answered
        BY DEF RemovesAnswered
      <4>1. t # s /\ send'[t] = send[t]
        BY <3>2, <2>send DEF Frames
      <4> QED  BY <3>1, <4>1, <2>kept DEF RemovesAnswered
    <3>4. Keeps'
      BY <3>1, <2>kept DEF Keeps, RemovesAnswered
    <3> QED  BY <3>3, <3>4 DEF OutboxInv
  <2>8. CASE DrainBatch \/ PeekBatch
    <3>1. UNCHANGED <<outbox, line, lost, fate>>
      BY <2>8 DEF DrainBatch, PeekBatch, workerRest, callVars, fileVars
    <3>2. PICK b : send' = [send EXCEPT ![Worker] =
                               [pc |-> "post", batch |-> b, attempt |-> 0]]
      BY <2>8 DEF DrainBatch, PeekBatch, StartSend
    <3>3. RemovesAnswered'
      BY <3>1, <3>2, <2>kept, <2>send DEF RemovesAnswered
    <3>4. Keeps'
      BY <3>1, <2>kept DEF Keeps
    <3> QED  BY <3>3, <3>4 DEF OutboxInv
  <2>9. CASE QueueBatchDone \/ OutboxBatchDone
    <3>1. /\ UNCHANGED <<outbox, line, lost, fate>>
          /\ send' = [send EXCEPT ![Worker] = IdleSend]
      BY <2>9 DEF QueueBatchDone, OutboxBatchDone, workerRest, callVars, fileVars
    <3> QED  BY <3>1, <2>frame, IdleSendIsFrame DEF Senders, IdleSend
  <2>10. CASE \/ TakeNotify \/ CheckLength \/ Tick \/ TakeClose \/ DrainEmpty
              \/ PeekEmpty \/ PeekFails \/ Finish
    BY <2>10, <2>quiet
    DEF TakeNotify, CheckLength, Tick, TakeClose, DrainEmpty, PeekEmpty,
        PeekFails, Finish, workerRest, callVars, fileVars
  <2>11. ASSUME NEW f \in Flushers,
                TakeFlush(f) \/ CallFlush(f) \/ ExpireFlush(f) \/ FlushStep(f)
         PROVE  OutboxInv'
    BY <2>11, <2>quiet
    DEF TakeFlush, CallFlush, ExpireFlush, FlushStep, FlushReply, FlushTimeout,
        FlushClosed, FlushReturns, workerRest, callerRest, callVars, fileVars
  <2>12. ASSUME NEW c \in Closers,
                \/ CloseFlag(c) \/ CloseAgain(c) \/ CloseTimeout(c)
                \/ CloseSignal(c) \/ CloseDone(c)
         PROVE  OutboxInv'
    BY <2>12, <2>quiet
    DEF CloseFlag, CloseAgain, CloseTimeout, CloseSignal, CloseDone,
        callerRest, callVars, fileVars
  <2>13. CASE Crash
    <3>1. send' = [s \in Senders |-> IdleSend] /\ fate' = fate
      BY <2>13 DEF Crash
    <3>2. RemovesAnswered'
      BY <3>1 DEF RemovesAnswered, IdleSend
    <3>3. Keeps'
      <4>1. CASE UNCHANGED fileVars \/ CutLine
        BY <3>1, <4>1, <2>kept DEF Keeps, CutLine, fileVars
      <4>2. ASSUME NEW s \in Senders, send[s].pc = "remove", Interrupted(s)
            PROVE  Keeps'
        BY <3>1, <4>2, <2>kept DEF Keeps, RemovesAnswered, Interrupted
      <4> QED  BY <2>13, <4>1, <4>2 DEF Crash, CrashedFile
    <3> QED  BY <3>2, <3>3 DEF OutboxInv
  <2>14. CASE UNCHANGED vars
    BY <2>14, <2>quiet DEF vars, callVars, fileVars
  <2> QED
    BY <2>1, <2>2, <2>3, <2>4, <2>5, <2>6, <2>7, <2>8, <2>9, <2>10, <2>11,
       <2>12, <2>13, <2>14
    DEF Next, CallStep, SendStep, WorkerStep, CloseStep, Stopped
<1>3. TypeOK /\ Costs /\ [Next]_vars => Costs'
  BY CostsStep
<1>4. OutboxInv /\ Costs => OutboxKeepsUntilAnswered
  BY DEF OutboxInv, Keeps, Costs, OutboxKeepsUntilAnswered
<1> QED  BY <1>1, <1>2, <1>3, <1>4, TypeCorrect, PTL DEF Spec

-----------------------------------------------------------------------------
(* No wakeup of the worker is lost.                                         *)

\* The strengthening: between taking the token and returning to its select
\* the worker has yet to look at the length of the buffer.
Woken ==
    (Len(queue) >= BatchSize /\ \A e \in Events : call[e] # "announce")
        => (notify \/ worker.pc \in {"notified", "drain", "sendQueue"})

\* A full batch in the buffer always has a token in notify when the worker
\* is back in its select: the coalescing send of signal (client.go:258-263)
\* and the check after the receive (client.go:273-276) lose no wakeup.
THEOREM WakeupKept == Spec => []NoLostWakeup
<1> USE BufferAssumption, ClientAssumption
<1>1. Init => Woken
  BY DEF Init, Woken
<1>2. TypeOK /\ Woken /\ [Next]_vars => Woken'
  <2> SUFFICES ASSUME TypeOK, Woken, [Next]_vars
               PROVE  Woken'
    OBVIOUS
  <2>call. call \in [Events -> CallStates]
    BY DEF TypeOK
  <2>worker. worker \in WorkerStates
    BY DEF TypeOK
  <2>queue. queue \in Seq(Events)
    BY DEF TypeOK
  \* A call that neither reaches nor leaves "announce", around a step that
  \* leaves the buffer, the token and the worker alone.
  <2>calls. ASSUME UNCHANGED <<queue, notify, worker>>,
                   \A d \in Events : call[d] = "announce" => call'[d] = "announce"
            PROVE  Woken'
    BY <2>calls DEF Woken
  \* A step of the worker that does not reach its select.
  <2>awake. ASSUME UNCHANGED <<queue, notify, call>>,
                   worker'.pc \in {"notified", "drain", "sendQueue"}
            PROVE  Woken'
    BY <2>awake DEF Woken
  <2>asleep. ASSUME UNCHANGED <<queue, notify, call>>,
                    worker.pc \notin {"notified", "drain", "sendQueue"}
             PROVE  Woken'
    BY <2>asleep DEF Woken
  <2>1. ASSUME NEW e \in Events, Refuse(e) \/ Prepare(e) \/ Persist(e) \/ SyncReturn(e)
        PROVE  Woken'
    <3>1. UNCHANGED <<queue, notify, worker>>
      BY <2>1 DEF Refuse, Prepare, Persist, SyncReturn
    <3>2. call[e] # "announce"
      BY <2>1 DEF Refuse, Prepare, Persist, SyncReturn
    <3>3. PICK p : call' = [call EXCEPT ![e] = p]
      BY <2>1 DEF Refuse, Prepare, Persist, SyncReturn
    <3>4. \A d \in Events : d # e => call'[d] = call[d]
      BY <3>3, <2>call
    <3> QED  BY <3>1, <3>2, <3>4, <2>calls
  <2>2. ASSUME NEW e \in Events, Push(e)
        PROVE  Woken'
    <3>1. CASE PushRefused(e)
      <4>1. /\ UNCHANGED <<queue, notify, worker>>
            /\ call[e] = "push" /\ call' = [call EXCEPT ![e] = "false"]
        BY <2>2, <3>1 DEF Push, PushRefused
      <4> QED  BY <4>1, <2>call, <2>calls
    <3>2. CASE PushStored(e) \/ PushReplacing(e)
      <4>1. call' = [call EXCEPT ![e] = "announce"]
        BY <3>2 DEF PushStored, PushReplacing
      <4> QED  BY <4>1, <2>call DEF Woken
    <3> QED  BY <2>2, <3>1, <3>2 DEF Push
  <2>3. ASSUME NEW e \in Events, Announce(e)
        PROVE  Woken'
    BY <2>3 DEF Announce, Woken
  <2>4. ASSUME NEW s \in Senders, SendStep(s)
        PROVE  Woken'
    BY <2>4, <2>calls
    DEF SendStep, Answered, FailedPost, RemoveSent, callVars
  <2>5. CASE TakeNotify
    <3>1. worker'.pc = "notified"
      BY <2>5, <2>worker DEF TakeNotify, WorkerStates
    <3> QED  BY <3>1 DEF Woken
  <2>6. CASE CheckLength
    <3>1. CASE Enough(queue)
      BY <2>6, <3>1, <2>worker, <2>awake
      DEF CheckLength, WorkerStates, workerRest, callVars
    <3>2. CASE ~Enough(queue)
      BY <2>6, <3>2, <2>queue DEF CheckLength, Enough, Woken
    <3> QED  BY <3>1, <3>2
  <2>7. CASE Tick \/ TakeClose \/ \E f \in Flushers : TakeFlush(f)
    <3>1. worker'.pc = "drain"
      BY <2>7 DEF Tick, TakeClose, TakeFlush, StartJob
    <3> QED  BY <3>1 DEF Woken
  <2>8. CASE DrainBatch \/ QueueBatchDone
    <3>1. worker'.pc \in {"drain", "sendQueue"}
      BY <2>8, <2>worker DEF DrainBatch, QueueBatchDone, AfterQueueBatch, WorkerStates
    <3> QED  BY <3>1 DEF Woken
  <2>9. CASE DrainEmpty
    <3>1. Len(queue') = 0
      BY <2>9 DEF DrainEmpty
    <3> QED  BY <3>1 DEF Woken
  <2>10. CASE PeekBatch \/ PeekEmpty \/ PeekFails \/ OutboxBatchDone \/ Finish
    BY <2>10, <2>asleep
    DEF PeekBatch, PeekEmpty, PeekFails, OutboxBatchDone, Finish, workerRest,
        callVars
  <2>11. ASSUME NEW f \in Flushers, CallFlush(f) \/ ExpireFlush(f) \/ FlushStep(f)
         PROVE  Woken'
    BY <2>11, <2>calls
    DEF CallFlush, ExpireFlush, FlushStep, FlushReply, FlushTimeout, FlushClosed,
        FlushReturns, callerRest, callVars
  <2>12. ASSUME NEW c \in Closers,
                \/ CloseFlag(c) \/ CloseAgain(c) \/ CloseTimeout(c)
                \/ CloseSignal(c) \/ CloseDone(c)
         PROVE  Woken'
    BY <2>12, <2>calls
    DEF CloseFlag, CloseAgain, CloseTimeout, CloseSignal, CloseDone,
        callerRest, callVars
  <2>13. CASE Crash
    <3>1. Len(queue') = 0
      BY <2>13 DEF Crash
    <3> QED  BY <3>1 DEF Woken
  <2>14. CASE UNCHANGED vars
    BY <2>14, <2>calls DEF vars, callVars
  <2> QED
    BY <2>1, <2>2, <2>3, <2>4, <2>5, <2>6, <2>7, <2>8, <2>9, <2>10, <2>11,
       <2>12, <2>13, <2>14
    DEF Next, CallStep, WorkerStep, CloseStep, Stopped
<1>3. Woken => NoLostWakeup
  BY DEF Woken, NoLostWakeup
<1> QED  BY <1>1, <1>2, <1>3, TypeCorrect, PTL DEF Spec

-----------------------------------------------------------------------------
(* What a nil of Flush and of Close says                                     *)

\* The goroutines that may take a step, and what each leaves alone.
CallerStep(e) == Refuse(e) \/ Prepare(e) \/ Persist(e) \/ Push(e) \/ Announce(e)
WorkerMove ==
    \/ WorkerStep \/ TakeNotify \/ Tick \/ TakeClose
    \/ \E f \in Flushers : TakeFlush(f)
FlushMove == \E f \in Flushers : CallFlush(f) \/ ExpireFlush(f) \/ FlushStep(f)
CloseMove == \E c \in Closers : CloseFlag(c) \/ CloseAgain(c) \/ CloseTimeout(c)
                                \/ CloseStep(c)

LEMMA WhoSteps ==
    ASSUME [Next]_vars
    PROVE  \/ \E e \in Events : CallerStep(e)
           \/ \E e \in Sync : SyncReturn(e)
           \/ \E s \in Senders : SendStep(s)
           \/ WorkerMove \/ FlushMove \/ CloseMove \/ Crash \/ UNCHANGED vars
BY DEF Next, CallStep, CallerStep, WorkerMove, FlushMove, CloseMove, Stopped

LEMMA CallerFacts ==
    ASSUME TypeOK, NEW e \in Events, CallerStep(e)
    PROVE  /\ UNCHANGED <<worker, closeVars, flush, before>>
           /\ send'[Worker] = send[Worker]
           /\ Content(queue') \subseteq
                  Content(queue) \cup {d \in Events : call[d] = "push"}
           /\ outbox' \subseteq
                  outbox \cup {d \in Events : call[d] \in {"persist", "keep"}}
           /\ \E p \in CallStates : call' = [call EXCEPT ![e] = p]
           /\ call[e] \in {"idle", "persist", "keep", "push", "announce"}
           /\ ~UseOutbox => call'[e] \notin {"persist", "keep"} \/ call'[e] = call[e]
<1>1. call \in [Events -> CallStates] /\ queue \in Seq(Events)
  BY DEF TypeOK
<1>2. send \in [Senders -> Frames] /\ Worker \notin Events /\ Worker \in Senders
  BY ClientAssumption DEF TypeOK, Senders
<1>3. UNCHANGED <<worker, closeVars, flush, before>>
  BY DEF CallerStep, Refuse, Prepare, Persist, Push, Announce, closeVars
<1>4. send'[Worker] = send[Worker]
  BY <1>2 DEF CallerStep, Refuse, Prepare, StartSend, Persist, Push, Announce
<1>5. Content(queue') \subseteq Content(queue) \cup {d \in Events : call[d] = "push"}
  <2>1. CASE Push(e)
    <3>1. call[e] = "push"
      BY <2>1 DEF Push
    <3>2. CASE PushStored(e)
      BY <1>1, <3>1, <3>2, AppendStores DEF PushStored
    <3>3. CASE PushReplacing(e)
      BY <1>1, <3>1, <3>3, ReplaceStores DEF PushReplacing
    <3>4. CASE PushRefused(e)
      BY <3>4 DEF PushRefused
    <3> QED  BY <2>1, <3>2, <3>3, <3>4 DEF Push
  <2>2. CASE ~Push(e)
    <3>1. queue' = queue
      BY <2>2 DEF CallerStep, Refuse, Prepare, Persist, Announce
    <3> QED  BY <3>1
  <2> QED  BY <2>1, <2>2
<1>6. outbox' \subseteq outbox \cup {d \in Events : call[d] \in {"persist", "keep"}}
  BY DEF CallerStep, Refuse, Prepare, Persist, AppendOutbox, CutLine, Push, Announce,
         fileVars
<1>7. /\ \E p \in CallStates : call' = [call EXCEPT ![e] = p]
      /\ call[e] \in {"idle", "persist", "keep", "push", "announce"}
      /\ ~UseOutbox => call'[e] \notin {"persist", "keep"} \/ call'[e] = call[e]
  <2>1. CASE Refuse(e)
    BY <1>1, <2>1 DEF Refuse, CallStates
  <2>2. CASE Prepare(e)
    BY <1>1, <2>2 DEF Prepare, CallStates
  <2>3. CASE Persist(e)
    BY <1>1, <2>3 DEF Persist, CallStates
  <2>4. CASE Push(e)
    BY <1>1, <2>4 DEF Push, PushStored, PushReplacing, PushRefused, CallStates
  <2>5. CASE Announce(e)
    BY <1>1, <2>5 DEF Announce, CallStates
  <2> QED  BY <2>1, <2>2, <2>3, <2>4, <2>5 DEF CallerStep
<1> QED  BY <1>3, <1>4, <1>5, <1>6, <1>7

LEMMA ReturnFacts ==
    ASSUME TypeOK, NEW e \in Sync, SyncReturn(e)
    PROVE  /\ UNCHANGED <<worker, closeVars, flush, before, queue, outbox>>
           /\ send'[Worker] = send[Worker]
           /\ \E p \in CallStates : call' = [call EXCEPT ![e] = p]
           /\ call[e] = "sync"
           /\ ~UseOutbox => call'[e] \notin {"persist", "keep"}
<1>1. call \in [Events -> CallStates] /\ send \in [Senders -> Frames] /\ e \in Events
  BY ClientAssumption DEF TypeOK
<1>2. Worker # e /\ Worker \in Senders
  BY <1>1, ClientAssumption DEF Senders
<1>3. call[e] = "sync" /\ \E p \in {"nil", "keep", "error"} :
          /\ call' = [call EXCEPT ![e] = p]
          /\ ~UseOutbox => p # "keep"
  <2> DEFINE p == CASE send[e].pc = "sent" -> "nil"
                    [] UseOutbox /\ Retryable(e) -> "keep"
                    [] OTHER -> "error"
  <2>1. call[e] = "sync" /\ call' = [call EXCEPT ![e] = p]
    BY Zenon DEF SyncReturn
  <2>2. p \in {"nil", "keep", "error"} /\ (~UseOutbox => p # "keep")
    OBVIOUS
  <2> HIDE DEF p
  <2> QED  BY <2>1, <2>2
<1> QED  BY <1>1, <1>2, <1>3 DEF SyncReturn, closeVars, fileVars, CallStates

LEMMA SenderFacts ==
    ASSUME TypeOK, NEW s \in Senders, SendStep(s)
    PROVE  /\ UNCHANGED <<call, worker, closeVars, flush, before, queue>>
           /\ outbox' \subseteq outbox
           /\ send[s].pc # "idle"
           /\ send'[s].pc = "post" => send[s].pc = "post"
           /\ send'[s].batch = send[s].batch
           /\ \A t \in Senders \ {s} : send'[t] = send[t]
<1>1. send \in [Senders -> Frames]
  BY DEF TypeOK
<1>2. /\ UNCHANGED <<call, worker, closeVars, flush, before, queue>>
      /\ outbox' \subseteq outbox /\ send[s].pc \in {"post", "remove"}
  BY DEF SendStep, Answered, FailedPost, RemoveSent, Removed, Interrupted, callVars,
         closeVars, fileVars
<1>3. \/ \E p \in {"remove"} \cup Answers : send' = [send EXCEPT ![s].pc = p]
      \/ send' = [send EXCEPT ![s].attempt = @ + 1] /\ send[s].pc = "post"
  <2>1. CASE Answered(s)
    BY <2>1 DEF Answered, AnswerOf, Answers
  <2>2. CASE FailedPost(s)
    <3>1. PICK retryable \in BOOLEAN : FailAttempt(s, retryable)
      BY <2>2 DEF FailedPost, Unreachable, Status4xx, AnswerLost
    <3> QED  BY <2>2, <3>1 DEF FailedPost, FailAttempt, AfterFailure, Answers
  <2>3. CASE RemoveSent(s)
    BY <2>3 DEF RemoveSent, AnswerOf, Answers
  <2> QED  BY <2>1, <2>2, <2>3 DEF SendStep
<1>4. \A t \in Senders \ {s} : send'[t] = send[t]
  BY <1>1, <1>3
<1>5. /\ send'[s].pc = "post" => send[s].pc = "post"
      /\ send'[s].batch = send[s].batch
  <2>1. ASSUME NEW p \in {"remove"} \cup Answers,
               send' = [send EXCEPT ![s].pc = p]
        PROVE  /\ send'[s].pc = "post" => send[s].pc = "post"
               /\ send'[s].batch = send[s].batch
    <3>1. send'[s] = [send[s] EXCEPT !.pc = p]
      BY <1>1, <2>1
    <3>2. send'[s].pc = p /\ send'[s].batch = send[s].batch
      BY <1>1, <3>1 DEF Frames
    <3> QED  BY <3>2 DEF Answers
  <2>2. ASSUME send' = [send EXCEPT ![s].attempt = @ + 1], send[s].pc = "post"
        PROVE  /\ send'[s].pc = "post" => send[s].pc = "post"
               /\ send'[s].batch = send[s].batch
    <3>1. send'[s] = [send[s] EXCEPT !.attempt = @ + 1]
      BY <1>1, <2>2
    <3>2. send'[s].batch = send[s].batch
      BY <1>1, <3>1 DEF Frames
    <3> QED  BY <2>2, <3>2
  <2> QED  BY <1>3, <2>1, <2>2
<1> QED  BY <1>2, <1>4, <1>5

\* The events that came to the buffer, to the file and to the POST of the
\* worker with a step; what SendEvent has returned stays returned.
LEMMA Moves ==
    ASSUME TypeOK, [Next]_vars
    PROVE  /\ Content(queue') \subseteq
                  Content(queue) \cup {d \in Events : call[d] = "push"}
           /\ outbox' \subseteq
                  outbox \cup {d \in Events : call[d] \in {"persist", "keep"}}
           /\ InFlight' \subseteq InFlight \cup Content(queue) \cup outbox
           /\ \A d \in Events : call[d] = "true" => call'[d] = "true"
<1>1. /\ call \in [Events -> CallStates] /\ send \in [Senders -> Frames]
      /\ queue \in Seq(Events) /\ outbox \subseteq Events
      /\ Worker \in Senders /\ Worker \notin Events
  BY ClientAssumption DEF TypeOK, Senders
<1>2. ASSUME send'[Worker] = send[Worker]  PROVE InFlight' = InFlight
  BY <1>2 DEF InFlight
<1> DEFINE Queue == Content(queue') \subseteq
                        Content(queue) \cup {d \in Events : call[d] = "push"}
           File == outbox' \subseteq
                        outbox \cup {d \in Events : call[d] \in {"persist", "keep"}}
           Flight == InFlight' \subseteq InFlight \cup Content(queue) \cup outbox
           Stays == \A d \in Events : call[d] = "true" => call'[d] = "true"
<1> SUFFICES Queue /\ File /\ Flight /\ Stays
  OBVIOUS
<1>3. ASSUME NEW e \in Events, CallerStep(e)
      PROVE  Queue /\ File /\ Flight /\ Stays
  <2>1. Stays
    BY <1>1, <1>3, CallerFacts
  <2> QED  BY <1>2, <1>3, <2>1, CallerFacts
<1>4. ASSUME NEW e \in Sync, SyncReturn(e)
      PROVE  Queue /\ File /\ Flight /\ Stays
  <2>1. Stays
    BY <1>1, <1>4, ReturnFacts
  <2> QED  BY <1>2, <1>4, <2>1, ReturnFacts
<1>5. ASSUME NEW s \in Senders, SendStep(s)
      PROVE  Queue /\ File /\ Flight /\ Stays
  <2>1. InFlight' \subseteq InFlight
    BY <1>1, <1>5, SenderFacts DEF InFlight
  <2> QED  BY <1>5, <2>1, SenderFacts
<1>6. CASE WorkerMove
  <2>1. call' = call /\ outbox' = outbox
    BY <1>6 DEF WorkerMove, WorkerStep, CheckLength, DrainBatch, DrainEmpty,
          QueueBatchDone, PeekBatch, PeekEmpty, PeekFails, OutboxBatchDone,
          Finish, TakeNotify, Tick, TakeClose, TakeFlush, workerRest, callVars,
          fileVars
  <2>2. CASE DrainBatch
    <3>1. /\ Content(queue') \subseteq Content(queue)
          /\ Content(Drained(queue, BatchSize)) \subseteq Content(queue)
      <4>1. BatchSize \in Nat /\ queue # <<>> /\ queue' = Remainder(queue, BatchSize)
        BY <2>2, ClientAssumption, BufferAssumption DEF DrainBatch
      <4>2. Content(queue) = Content(Drained(queue, BatchSize))
                             \cup Content(Remainder(queue, BatchSize))
        BY <1>1, <4>1, DrainSplits
      <4> QED  BY <4>1, <4>2
    <3>2. send'[Worker].batch = Content(Drained(queue, BatchSize))
      BY <1>1, <2>2 DEF DrainBatch, StartSend
    <3> QED  BY <2>1, <3>1, <3>2 DEF InFlight
  <2>3. CASE PeekBatch
    <3>1. queue' = queue /\ send'[Worker].batch = Peeked
      BY <1>1, <2>3 DEF PeekBatch, StartSend
    <3>2. Peeked \subseteq outbox
      BY DEF Peeked
    <3> QED  BY <2>1, <3>1, <3>2 DEF InFlight
  <2>4. CASE QueueBatchDone \/ OutboxBatchDone
    <3>1. queue' = queue /\ send'[Worker] = IdleSend
      BY <1>1, <2>4 DEF QueueBatchDone, OutboxBatchDone
    <3>2. InFlight' = {}
      BY <3>1 DEF InFlight, IdleSend
    <3> QED  BY <2>1, <3>1, <3>2
  <2>5. CASE ~(DrainBatch \/ PeekBatch \/ QueueBatchDone \/ OutboxBatchDone)
    <3>1. queue' = queue /\ send' = send
      BY <1>6, <2>5 DEF WorkerMove, WorkerStep, CheckLength, DrainEmpty, PeekEmpty,
            PeekFails, Finish, TakeNotify, Tick, TakeClose, TakeFlush
    <3> QED  BY <1>2, <2>1, <3>1
  <2> QED  BY <2>2, <2>3, <2>4, <2>5
<1>7. CASE FlushMove \/ CloseMove \/ UNCHANGED vars
  <2>1. UNCHANGED <<call, queue, send, outbox>>
    BY <1>7 DEF FlushMove, CloseMove, CallFlush, ExpireFlush, FlushStep, FlushReply,
          FlushTimeout, FlushClosed, FlushReturns, CloseFlag, CloseAgain,
          CloseTimeout, CloseStep, CloseSignal, CloseDone, callerRest, vars,
          callVars, fileVars
  <2> QED  BY <1>2, <2>1
<1>8. CASE Crash
  <2>1. queue' = <<>> /\ outbox' \subseteq outbox /\ send'[Worker] = IdleSend
    BY <1>1, <1>8 DEF Crash, CrashedFile, CutLine, Interrupted, fileVars
  <2>2. InFlight' = {} /\ Content(queue') = {}
    BY <2>1 DEF InFlight, IdleSend, Content
  <2>3. Stays
    BY <1>1, <1>8 DEF Crash, CallReturned
  <2> QED  BY <2>1, <2>2, <2>3
<1> HIDE DEF Queue, File, Flight, Stays
<1> QED
  <2>1. \/ \E e \in Events : CallerStep(e)
        \/ \E e \in Sync : SyncReturn(e)
        \/ \E s \in Senders : SendStep(s)
        \/ WorkerMove \/ FlushMove \/ CloseMove \/ Crash \/ UNCHANGED vars
    BY WhoSteps
  <2>2. CASE \E e \in Events : CallerStep(e)
    BY <2>2, <1>3
  <2>3. CASE \E e \in Sync : SyncReturn(e)
    BY <2>3, <1>4
  <2>4. CASE \E s \in Senders : SendStep(s)
    BY <2>4, <1>5
  <2>5. CASE WorkerMove \/ FlushMove \/ CloseMove \/ Crash \/ UNCHANGED vars
    BY <2>5, <1>6, <1>7, <1>8
  <2> QED  BY <2>1, <2>2, <2>3, <2>4, <2>5

Nilable == Flushers \cup {"close"}
Returned(B) == \A e \in B : call[e] = "true"

\* What was over when a Flush or a Close began is over: before is made of events
\* whose SendEvent has returned true.  The rest is who may be doing what.
Control ==
    /\ \A x \in Nilable : Returned(before[x])
    /\ worker.pc \notin {"sendQueue", "sendOutbox"} => send[Worker].pc = "idle"
    /\ ~UseOutbox => /\ outbox = {}
                     /\ \A e \in Events : call[e] \notin {"persist", "keep"}
    /\ \A f \in Flushers : flush[f].pc = "idle" =>
                            flush[f].reply = "none" /\ worker.job # f
    /\ \A c \in Closers : close[c] = "signal" => closed
    /\ closeCh \/ done \/ worker.job = "close" => closed
    /\ done => worker.pc = "exit"

\* What the worker has taken for its job, and what it answered with.
Taken ==
    /\ worker.pc \in {"peek", "sendOutbox", "finish"} /\ worker.job \in Nilable =>
           before[worker.job] \cap Content(queue) = {}
    /\ worker.pc = "finish" /\ ~worker.failed /\ worker.job \in Nilable =>
           before[worker.job] \cap outbox = {}
    /\ \A f \in Flushers : flush[f].pc = "ok" \/ flush[f].reply = "ok" =>
           before[f] \cap (Content(queue) \cup InFlight \cup outbox) = {}
    /\ done => before["close"] \cap Content(queue) = {}

\* An event whose SendEvent has returned comes nowhere again.
LEMMA ReturnedStaysOut ==
    ASSUME TypeOK, [Next]_vars, NEW B \in SUBSET Events, Returned(B)
    PROVE  /\ \A e \in B : call'[e] = "true"
           /\ B \cap Content(queue) = {} => B \cap Content(queue') = {}
           /\ B \cap outbox = {} => B \cap outbox' = {}
           /\ B \cap (Content(queue) \cup InFlight \cup outbox) = {} =>
                  B \cap (Content(queue') \cup InFlight' \cup outbox') = {}
<1>1. /\ \A e \in B : e \notin {d \in Events : call[d] = "push"}
      /\ \A e \in B : e \notin {d \in Events : call[d] \in {"persist", "keep"}}
  BY DEF Returned
<1> QED  BY <1>1, Moves DEF Returned

LEMMA FlushFacts ==
    ASSUME TypeOK, FlushMove
    PROVE  /\ UNCHANGED <<call, queue, send, outbox, worker, closeVars>>
           /\ \E f \in Flushers : /\ \A g \in Flushers \ {f} : flush'[g] = flush[g]
                                  /\ \A x \in Nilable \ {f} : before'[x] = before[x]
                                  /\ flush'[f].pc # "idle"
                                  /\ flush'[f].reply = flush[f].reply
                                  /\ \/ /\ flush[f].pc = "idle" /\ flush'[f].pc = "offer"
                                        /\ before'[f] = ReturnedTrue
                                     \/ /\ before'[f] = before[f]
                                        /\ flush[f].pc # "idle"
                                        /\ flush'[f].pc = "ok" => flush[f].reply = "ok"
<1>1. flush \in [Flushers -> FlushStates] /\ before \in [Nilable -> SUBSET Events]
  BY DEF TypeOK, Nilable
<1>2. PICK f \in Flushers : CallFlush(f) \/ ExpireFlush(f) \/ FlushStep(f)
  BY DEF FlushMove
<1>3. UNCHANGED <<call, queue, send, outbox, worker, closeVars>>
  BY <1>2 DEF CallFlush, ExpireFlush, FlushStep, FlushReply, FlushTimeout,
        FlushClosed, FlushReturns, callerRest, callVars, fileVars
<1>4. CASE CallFlush(f)
  <2>1. /\ flush' = [flush EXCEPT ![f].pc = "offer"] /\ flush[f].pc = "idle"
        /\ before' = [before EXCEPT ![f] = ReturnedTrue]
    BY <1>4 DEF CallFlush
  <2>2. flush'[f].pc = "offer" /\ flush'[f].reply = flush[f].reply
    BY <1>1, <2>1 DEF FlushStates
  <2> QED  BY <1>1, <1>3, <2>1, <2>2 DEF Nilable
<1>5. CASE ExpireFlush(f)
  <2>1. /\ flush' = [flush EXCEPT ![f].expired = TRUE] /\ before' = before
        /\ flush[f].pc \in Waiting
    BY <1>5 DEF ExpireFlush
  <2>2. flush'[f].pc = flush[f].pc /\ flush'[f].reply = flush[f].reply
    BY <1>1, <2>1 DEF FlushStates
  <2> QED  BY <1>1, <1>3, <2>1, <2>2 DEF Nilable, Waiting
<1>6. CASE FlushStep(f)
  <2>1. PICK how \in {"none", "ok", "error", "timeout", "closed"} :
            /\ flush' = [flush EXCEPT ![f].pc = how] /\ before' = before
            /\ flush[f].pc \in Waiting
            /\ how = "ok" => flush[f].reply = "ok"
    BY <1>1, <1>6 DEF FlushStep, FlushReply, FlushTimeout, FlushClosed, FlushReturns,
          FlushStates, Waiting
  <2>2. flush'[f].pc = how /\ flush'[f].reply = flush[f].reply
    BY <1>1, <2>1 DEF FlushStates
  <2> QED  BY <1>1, <1>3, <2>1, <2>2 DEF Nilable, Waiting
<1> QED  BY <1>2, <1>4, <1>5, <1>6

LEMMA CloseFacts ==
    ASSUME TypeOK, CloseMove
    PROVE  /\ UNCHANGED <<call, queue, send, outbox, worker, flush, done>>
           /\ closed => closed'
           /\ closeCh' => closeCh \/ \E c \in Closers : close[c] = "signal"
           /\ \A c \in Closers : close'[c] = "signal" => close[c] = "signal" \/ closed'
           /\ \A f \in Flushers : before'[f] = before[f]
           /\ \/ before'["close"] = before["close"]
              \/ ~closed /\ before'["close"] = ReturnedTrue
<1>1. close \in [Closers -> CloseStates] /\ before \in [Nilable -> SUBSET Events]
  BY DEF TypeOK, Nilable
<1>2. PICK c \in Closers : CloseFlag(c) \/ CloseAgain(c) \/ CloseTimeout(c)
                           \/ CloseSignal(c) \/ CloseDone(c)
  BY DEF CloseMove, CloseStep
<1>3. UNCHANGED <<call, queue, send, outbox, worker, flush, done>>
  BY <1>2 DEF CloseFlag, CloseAgain, CloseTimeout, CloseSignal, CloseDone,
        callerRest, callVars, fileVars
<1>4. /\ closed => closed'
      /\ closeCh' => closeCh \/ close[c] = "signal"
      /\ \A d \in Closers : close'[d] = "signal" => close[d] = "signal" \/ closed'
  BY <1>1, <1>2 DEF CloseFlag, CloseAgain, CloseTimeout, CloseSignal, CloseDone
<1>5. \/ before' = before
      \/ ~closed /\ before' = [before EXCEPT !["close"] = ReturnedTrue]
  BY <1>2 DEF CloseFlag, CloseAgain, CloseTimeout, CloseSignal, CloseDone
<1>6. "close" \notin Flushers /\ "close" \in Nilable /\ Flushers \subseteq Nilable
  BY ClientAssumption DEF Nilable
<1>7. /\ \A f \in Flushers : before'[f] = before[f]
      /\ \/ before'["close"] = before["close"]
         \/ ~closed /\ before'["close"] = ReturnedTrue
  <2>1. CASE before' = before
    <3>1. \A x \in Nilable : before'[x] = before[x]
      BY <2>1
    <3> QED  BY <1>6, <3>1
  <2>2. CASE ~closed /\ before' = [before EXCEPT !["close"] = ReturnedTrue]
    <3>1. before'["close"] = ReturnedTrue
      BY <1>1, <1>6, <2>2
    <3>2. \A f \in Flushers : before'[f] = before[f]
      BY <1>1, <1>6, <2>2
    <3> QED  BY <2>2, <3>1, <3>2
  <2> QED  BY <1>5, <2>1, <2>2
<1> QED  BY <1>3, <1>4, <1>7

LEMMA WorkerFacts ==
    ASSUME TypeOK, WorkerMove
    PROVE  /\ UNCHANGED <<call, outbox, before, closed, closeCh, close>>
           /\ worker.pc # "exit"
           /\ worker'.pc \notin {"sendQueue", "sendOutbox"} =>
                  \/ send'[Worker].pc = "idle"
                  \/ send' = send /\ worker.pc \notin {"sendQueue", "sendOutbox"}
           /\ \/ worker'.job \in {worker.job, "tick"}
              \/ worker'.job = "close" /\ closeCh
              \/ worker'.job \in Flushers /\ flush[worker'.job].pc = "offer"
           /\ done' = done \/ (done' => worker'.pc = "exit" /\ worker.job = "close"
                                        /\ worker.pc = "finish")
           /\ \A f \in Flushers :
                  /\ flush'[f].pc \in {flush[f].pc, "wait"}
                  /\ flush'[f].pc = "idle" => flush[f].pc = "idle"
                  /\ \/ flush'[f].reply = flush[f].reply
                     \/ /\ worker.pc = "finish" /\ worker.job = f
                        /\ flush'[f].reply = "ok" => ~worker.failed
           /\ worker'.pc \in {"peek", "sendOutbox", "finish"} =>
                  /\ worker'.job = worker.job /\ queue' = queue
                  /\ worker.pc \in {"peek", "sendOutbox"} \/ queue = <<>>
           /\ worker'.pc = "finish" /\ ~worker'.failed =>
                  outbox = {} \/ ~UseOutbox
<1>1. /\ flush \in [Flushers -> FlushStates] /\ worker \in WorkerStates
      /\ send \in [Senders -> Frames] /\ Worker \in Senders
  BY DEF TypeOK, Senders
<1>2. CASE CheckLength
  BY <1>1, <1>2 DEF CheckLength, workerRest, callVars, fileVars, closeVars, WorkerStates
<1>3. CASE DrainBatch
  BY <1>1, <1>3 DEF DrainBatch, workerRest, callVars, fileVars, closeVars, WorkerStates
<1>4. CASE DrainEmpty
  BY <1>1, <1>4 DEF DrainEmpty, OutboxNext, workerRest, callVars, fileVars, closeVars,
        WorkerStates
<1>5. CASE QueueBatchDone
  BY <1>1, <1>5 DEF QueueBatchDone, AfterQueueBatch, IdleSend, workerRest, callVars,
        fileVars, closeVars, WorkerStates
<1>6. CASE PeekBatch
  BY <1>1, <1>6 DEF PeekBatch, workerRest, callVars, fileVars, closeVars, WorkerStates
<1>7. CASE PeekEmpty
  BY <1>1, <1>7 DEF PeekEmpty, workerRest, callVars, fileVars, closeVars, WorkerStates
<1>8. CASE PeekFails
  BY <1>1, <1>8 DEF PeekFails, callVars, fileVars, closeVars, WorkerStates
<1>9. CASE OutboxBatchDone
  BY <1>1, <1>9 DEF OutboxBatchDone, IdleSend, workerRest, callVars, fileVars,
        closeVars, WorkerStates
<1>10. CASE Finish
  BY <1>1, <1>10 DEF Finish, AfterJob, Verdict, IdleWorker, workerRest, callVars,
        fileVars, closeVars, WorkerStates, FlushStates
<1>11. CASE TakeNotify \/ Tick \/ TakeClose
  BY <1>1, <1>11 DEF TakeNotify, Tick, TakeClose, StartJob, workerRest, callVars,
        fileVars, closeVars, WorkerStates
<1>12. CASE \E f \in Flushers : TakeFlush(f)
  <2>1. PICK f \in Flushers : TakeFlush(f)
    BY <1>12
  <2>2. flush' = [flush EXCEPT ![f].pc = "wait"] /\ flush[f].pc = "offer"
    BY <2>1 DEF TakeFlush
  <2>3. \A g \in Flushers : /\ flush'[g].reply = flush[g].reply
                           /\ flush'[g].pc = IF g = f THEN "wait" ELSE flush[g].pc
    BY <1>1, <2>2 DEF FlushStates
  <2> QED  BY <1>1, <2>1, <2>2, <2>3 DEF TakeFlush, StartJob, workerRest, callVars,
             fileVars, closeVars, WorkerStates
<1> QED  BY <1>2, <1>3, <1>4, <1>5, <1>6, <1>7, <1>8, <1>9, <1>10, <1>11, <1>12
         DEF WorkerMove, WorkerStep

\* A call of SendEvent or SendEventSync, and a sender, leave alone what Flush
\* and Close are about.
LEMMA OthersFacts ==
    ASSUME TypeOK, Control,
           \/ \E e \in Events : CallerStep(e)
           \/ \E e \in Sync : SyncReturn(e)
           \/ \E s \in Senders : SendStep(s)
    PROVE  /\ UNCHANGED <<worker, closeVars, flush, before>>
           /\ send[Worker].pc = "idle" => send'[Worker].pc = "idle"
           /\ ~UseOutbox => /\ outbox' = {}
                            /\ \A e \in Events : call'[e] \notin {"persist", "keep"}
<1>1. /\ call \in [Events -> CallStates] /\ Worker \in Senders /\ Sync \subseteq Events
      /\ UseOutbox \in BOOLEAN
  BY ClientAssumption DEF TypeOK, Senders
<1>2. ~UseOutbox => outbox = {} /\ \A e \in Events : call[e] \notin {"persist", "keep"}
  BY DEF Control
<1>3. ASSUME NEW e \in Events, CallerStep(e)
      PROVE  /\ UNCHANGED <<worker, closeVars, flush, before>>
             /\ send'[Worker] = send[Worker]
             /\ ~UseOutbox => /\ outbox' = {}
                              /\ \A d \in Events : call'[d] \notin {"persist", "keep"}
  <2>1. PICK p \in CallStates : call' = [call EXCEPT ![e] = p]
    BY <1>3, CallerFacts
  <2>2. ~UseOutbox => outbox' = {} /\ call'[e] \notin {"persist", "keep"}
    BY <1>2, <1>3, CallerFacts
  <2>3. \A d \in Events \ {e} : call'[d] = call[d]
    BY <1>1, <2>1
  <2> QED  BY <1>2, <1>3, <2>2, <2>3, CallerFacts
<1>4. ASSUME NEW e \in Sync, SyncReturn(e)
      PROVE  /\ UNCHANGED <<worker, closeVars, flush, before>>
             /\ send'[Worker] = send[Worker]
             /\ ~UseOutbox => /\ outbox' = {}
                              /\ \A d \in Events : call'[d] \notin {"persist", "keep"}
  <2>1. PICK p \in CallStates : call' = [call EXCEPT ![e] = p]
    BY <1>4, ReturnFacts
  <2>2. ~UseOutbox => outbox' = {} /\ call'[e] \notin {"persist", "keep"}
    BY <1>2, <1>4, ReturnFacts
  <2>3. \A d \in Events \ {e} : call'[d] = call[d]
    BY <1>1, <2>1
  <2> QED  BY <1>2, <1>4, <2>2, <2>3, ReturnFacts
<1>5. ASSUME NEW s \in Senders, SendStep(s)
      PROVE  /\ UNCHANGED <<worker, closeVars, flush, before>>
             /\ send[Worker].pc = "idle" => send'[Worker].pc = "idle"
             /\ ~UseOutbox => /\ outbox' = {}
                              /\ \A d \in Events : call'[d] \notin {"persist", "keep"}
  <2>1. send[Worker].pc = "idle" => s # Worker
    BY <1>5, SenderFacts
  <2> QED  BY <1>1, <1>2, <1>5, <2>1, SenderFacts
<1> QED  BY <1>3, <1>4, <1>5

LEMMA ControlStep ==
    ASSUME TypeOK, Control, [Next]_vars
    PROVE  Control'
<1> DEFINE Old == \A x \in Nilable : Returned(before[x])'
           Rest == worker'.pc \notin {"sendQueue", "sendOutbox"} =>
                       send'[Worker].pc = "idle"
           File == ~UseOutbox =>
                       /\ outbox' = {}
                       /\ \A e \in Events : call'[e] \notin {"persist", "keep"}
           Fresh == \A f \in Flushers : flush'[f].pc = "idle" =>
                           flush'[f].reply = "none" /\ worker'.job # f
           Signals == \A c \in Closers : close'[c] = "signal" => closed'
           Closes == closeCh' \/ done' \/ worker'.job = "close" => closed'
           Exits == done' => worker'.pc = "exit"
<1> SUFFICES Old /\ Rest /\ File /\ Fresh /\ Signals /\ Closes /\ Exits
  BY DEF Control
<1>1. /\ before \in [Nilable -> SUBSET Events] /\ Worker \in Senders
      /\ "close" \notin Flushers /\ "tick" \notin Flushers
      /\ call \in [Events -> CallStates]
  BY ClientAssumption DEF TypeOK, Nilable, Senders
<1>2. ASSUME NEW x \in Nilable, before'[x] \in {before[x], ReturnedTrue}
      PROVE  \A e \in before'[x] : call'[e] = "true"
  <2>1. before'[x] \in SUBSET Events /\ Returned(before'[x])
    BY <1>1, <1>2 DEF Control, ReturnedTrue, Returned
  <2> QED  BY <2>1, ReturnedStaysOut
<1>3. ASSUME \A x \in Nilable : before'[x] \in {before[x], ReturnedTrue}
      PROVE  Old
  BY <1>2, <1>3 DEF Returned
<1>4. CASE \/ \E e \in Events : CallerStep(e)
           \/ \E e \in Sync : SyncReturn(e)
           \/ \E s \in Senders : SendStep(s)
  <2>1. UNCHANGED <<worker, closed, closeCh, done, close, flush, before>>
    BY <1>4, OthersFacts DEF closeVars
  <2>2. Rest /\ File
    BY <1>4, <2>1, OthersFacts DEF Control
  <2>3. Fresh /\ Signals /\ Closes /\ Exits
    BY <2>1 DEF Control
  <2> QED  BY <1>3, <2>1, <2>2, <2>3
<1>5. CASE WorkerMove
  <2>1. UNCHANGED <<call, outbox, before, closed, closeCh, close>>
    BY <1>5, WorkerFacts
  <2>2. Rest
    BY <1>5, WorkerFacts DEF Control
  <2>3. Fresh
    <3> SUFFICES ASSUME NEW f \in Flushers, flush'[f].pc = "idle"
                 PROVE  flush'[f].reply = "none" /\ worker'.job # f
      OBVIOUS
    <3>1. flush[f].pc = "idle"
      BY <1>5, WorkerFacts
    <3>2. flush[f].reply = "none" /\ worker.job # f
      BY <3>1 DEF Control
    <3>3. flush'[f].reply = flush[f].reply
      BY <1>5, <3>2, WorkerFacts
    <3>4. worker'.job # f
      <4>1. \/ worker'.job \in {worker.job, "tick", "close"}
            \/ flush[worker'.job].pc = "offer"
        BY <1>5, WorkerFacts
      <4> QED  BY <1>1, <3>1, <3>2, <4>1
    <3> QED  BY <3>2, <3>3, <3>4
  <2>4. Closes
    BY <1>5, <1>1, <2>1, WorkerFacts DEF Control
  <2>5. Exits
    BY <1>5, WorkerFacts DEF Control
  <2>6. File /\ Signals
    BY <2>1 DEF Control
  <2> QED  BY <1>3, <2>1, <2>2, <2>3, <2>4, <2>5, <2>6
<1>6. CASE FlushMove
  <2>1. UNCHANGED <<call, queue, send, outbox, worker, closed, closeCh, done, close>>
    BY <1>6, FlushFacts DEF closeVars
  <2>2. PICK f \in Flushers : /\ \A g \in Flushers \ {f} : flush'[g] = flush[g]
                              /\ flush'[f].pc # "idle"
    BY <1>6, FlushFacts
  <2>3. Fresh
    BY <2>1, <2>2 DEF Control
  <2>4. Rest /\ File /\ Signals /\ Closes /\ Exits
    BY <2>1 DEF Control
  <2>5. \A x \in Nilable : before'[x] \in {before[x], ReturnedTrue}
    BY <1>6, FlushFacts
  <2> QED  BY <1>3, <2>3, <2>4, <2>5
<1>7. CASE CloseMove
  <2>1. UNCHANGED <<call, queue, send, outbox, worker, flush, done>>
    BY <1>7, CloseFacts
  <2>2. Rest /\ File /\ Fresh /\ Exits
    BY <2>1 DEF Control
  <2>3. Signals /\ Closes
    BY <1>7, <2>1, CloseFacts DEF Control
  <2>4. \A x \in Nilable : before'[x] \in {before[x], ReturnedTrue}
    BY <1>7, CloseFacts DEF Nilable
  <2> QED  BY <1>3, <2>2, <2>3, <2>4
<1>8. CASE Crash
  <2>1. /\ before' = before /\ outbox' \subseteq outbox /\ worker' = IdleWorker
        /\ send'[Worker] = IdleSend /\ ~closeCh' /\ ~done'
    BY <1>1, <1>8 DEF Crash, CrashedFile, CutLine, Interrupted, fileVars
  <2>2. /\ \A e \in Events : call'[e] \in {call[e], "crashed"}
        /\ \A c \in Closers : close'[c] # "signal"
        /\ \A f \in Flushers : flush'[f].pc = "idle" => flush'[f] = flush[f]
    <3>1. \A f \in Flushers : flush'[f].pc = "idle" => flush'[f] = flush[f]
      <4> SUFFICES ASSUME NEW f \in Flushers, flush'[f] # flush[f]
                   PROVE  flush'[f].pc # "idle"
        OBVIOUS
      <4>1. flush'[f] = [flush[f] EXCEPT !.pc = "crashed"]
        BY <1>8 DEF Crash
      <4>2. flush[f] \in FlushStates
        BY DEF TypeOK
      <4> QED  BY <4>1, <4>2 DEF FlushStates
    <3> QED  BY <1>8, <3>1 DEF Crash, CloseAtRest
  <2>3. Rest /\ Closes /\ Exits /\ Signals
    BY <2>1, <2>2 DEF IdleWorker, IdleSend
  <2>4. File
    BY <2>1, <2>2 DEF Control
  <2>5. Fresh
    BY <1>1, <2>1, <2>2 DEF Control, IdleWorker
  <2> QED  BY <1>3, <2>1, <2>3, <2>4, <2>5
<1>9. CASE UNCHANGED vars
  BY <1>9 DEF Control, vars, callVars, closeVars, fileVars, Returned
<1> HIDE DEF Old, Rest, File, Fresh, Signals, Closes, Exits
<1> QED  BY <1>4, <1>5, <1>6, <1>7, <1>8, <1>9, WhoSteps

LEMMA TakenStep ==
    ASSUME TypeOK, Control, Taken, [Next]_vars
    PROVE  Taken'
<1> DEFINE Emptied == worker'.pc \in {"peek", "sendOutbox", "finish"}
                          /\ worker'.job \in Nilable =>
                      before'[worker'.job] \cap Content(queue') = {}
           Sent == worker'.pc = "finish" /\ ~worker'.failed /\ worker'.job \in Nilable =>
                      before'[worker'.job] \cap outbox' = {}
           Told == \A f \in Flushers : flush'[f].pc = "ok" \/ flush'[f].reply = "ok" =>
                      before'[f] \cap (Content(queue') \cup InFlight' \cup outbox') = {}
           Gone == done' => before'["close"] \cap Content(queue') = {}
<1> SUFFICES Emptied /\ Sent /\ Told /\ Gone
  BY DEF Taken, Content
<1>1. /\ before \in [Nilable -> SUBSET Events] /\ Worker \in Senders
      /\ "close" \notin Flushers /\ "tick" \notin Nilable
      /\ "close" \in Nilable /\ Flushers \subseteq Nilable
      /\ worker.job \in Nilable \cup {"tick"}
  BY ClientAssumption DEF TypeOK, Nilable, Senders, WorkerStates, Jobs
<1>2. \A x \in Nilable :
          /\ before[x] \cap Content(queue) = {} => before[x] \cap Content(queue') = {}
          /\ before[x] \cap outbox = {} => before[x] \cap outbox' = {}
          /\ before[x] \cap (Content(queue) \cup InFlight \cup outbox) = {} =>
                 before[x] \cap (Content(queue') \cup InFlight' \cup outbox') = {}
  BY <1>1, ReturnedStaysOut DEF Control
<1>3. ASSUME UNCHANGED <<worker, flush, done>>,
             \A x \in Nilable : before'[x] = before[x]
      PROVE  Emptied /\ Sent /\ Told /\ Gone
  BY <1>1, <1>2, <1>3 DEF Taken
<1>4. CASE \/ \E e \in Events : CallerStep(e)
           \/ \E e \in Sync : SyncReturn(e)
           \/ \E s \in Senders : SendStep(s)
  BY <1>3, <1>4, OthersFacts DEF closeVars
<1>5. CASE WorkerMove
  <2>1. before' = before /\ outbox' = outbox
    BY <1>5, WorkerFacts
  <2>2. Emptied
    <3> SUFFICES ASSUME worker'.pc \in {"peek", "sendOutbox", "finish"},
                        worker'.job \in Nilable
                 PROVE  before[worker.job] \cap Content(queue) = {}
      BY <1>5, <2>1, WorkerFacts
    <3>1. worker.job \in Nilable /\ (queue = <<>> \/ worker.pc \in {"peek", "sendOutbox"})
      BY <1>5, WorkerFacts
    <3> QED  BY <3>1 DEF Taken, Content
  <2>3. Sent
    <3> SUFFICES ASSUME worker'.pc = "finish", ~worker'.failed
                 PROVE  outbox = {}
      BY <2>1
    <3> QED  BY <1>5, WorkerFacts DEF Control
  <2>4. Told
    <3> SUFFICES ASSUME NEW f \in Flushers, flush'[f].pc = "ok" \/ flush'[f].reply = "ok"
                 PROVE  before[f] \cap (Content(queue) \cup InFlight \cup outbox) = {}
      BY <1>1, <1>2, <2>1
    <3>1. CASE flush[f].pc = "ok" \/ flush[f].reply = "ok"
      BY <3>1 DEF Taken
    <3>2. CASE ~(flush[f].pc = "ok" \/ flush[f].reply = "ok")
      <4>1. worker.pc = "finish" /\ worker.job = f /\ ~worker.failed
        BY <1>5, <3>2, WorkerFacts
      <4>2. InFlight = {}
        BY <4>1 DEF Control, InFlight
      <4> QED  BY <1>1, <4>1, <4>2 DEF Taken
    <3> QED  BY <3>1, <3>2
  <2>5. Gone
    <3> SUFFICES ASSUME done'  PROVE before["close"] \cap Content(queue) = {}
      BY <1>1, <1>2, <2>1
    <3>1. done' = done => worker.pc = "exit" /\ worker.pc # "exit"
      BY <1>5, WorkerFacts DEF Control
    <3>2. worker.pc = "finish" /\ worker.job = "close"
      BY <1>5, <3>1, WorkerFacts
    <3> QED  BY <1>1, <3>2 DEF Taken
  <2> QED  BY <2>2, <2>3, <2>4, <2>5
<1>6. CASE FlushMove
  <2>1. UNCHANGED <<worker, done>>
    BY <1>6, FlushFacts DEF closeVars
  <2>2. PICK f \in Flushers :
            /\ \A g \in Flushers \ {f} : flush'[g] = flush[g]
            /\ \A x \in Nilable \ {f} : before'[x] = before[x]
            /\ flush'[f].reply = flush[f].reply
            /\ \/ flush[f].pc = "idle" /\ flush'[f].pc = "offer"
               \/ /\ before'[f] = before[f] /\ flush[f].pc # "idle"
                  /\ flush'[f].pc = "ok" => flush[f].reply = "ok"
    BY <1>6, FlushFacts
  <2>3. CASE flush[f].pc = "idle" /\ flush'[f].pc = "offer"
    <3>1. worker.job # f /\ flush'[f].reply # "ok"
      BY <2>2, <2>3 DEF Control
    <3>2. Emptied /\ Sent
      BY <1>1, <1>2, <2>1, <2>2, <3>1 DEF Taken
    <3>3. Told
      BY <1>1, <1>2, <2>2, <2>3, <3>1 DEF Taken
    <3>4. Gone
      BY <1>1, <1>2, <2>1, <2>2 DEF Taken
    <3> QED  BY <3>2, <3>3, <3>4
  <2>4. CASE /\ before'[f] = before[f]
             /\ flush'[f].pc = "ok" => flush[f].reply = "ok"
    <3>1. \A x \in Nilable : before'[x] = before[x]
      BY <2>2, <2>4
    <3>2. Emptied /\ Sent /\ Gone
      BY <1>1, <1>2, <2>1, <3>1 DEF Taken
    <3>3. Told
      BY <1>1, <1>2, <2>2, <2>4, <3>1 DEF Taken
    <3> QED  BY <3>2, <3>3
  <2> QED  BY <2>2, <2>3, <2>4
<1>7. CASE CloseMove
  <2>1. UNCHANGED <<worker, flush, done>>
    BY <1>7, CloseFacts
  <2>2. CASE before'["close"] = before["close"]
    BY <1>3, <1>7, <2>1, <2>2, CloseFacts DEF Nilable
  <2>3. CASE ~closed
    <3>1. ~done /\ worker.job # "close"
      BY <2>3 DEF Control
    <3>2. \A f \in Flushers : before'[f] = before[f]
      BY <1>7, CloseFacts
    <3> QED  BY <1>1, <1>2, <2>1, <3>1, <3>2 DEF Taken, Nilable
  <2> QED  BY <1>7, <2>2, <2>3, CloseFacts
<1>8. CASE Crash
  <2>1. /\ before' = before /\ worker' = IdleWorker /\ ~done'
        /\ \A f \in Flushers : flush'[f].pc \in {flush[f].pc, "crashed"}
                              /\ flush'[f].reply = flush[f].reply
    <3>1. \A f \in Flushers : flush'[f].pc \in {flush[f].pc, "crashed"}
                              /\ flush'[f].reply = flush[f].reply
      <4> SUFFICES ASSUME NEW f \in Flushers, flush'[f] # flush[f]
                   PROVE  flush'[f].pc = "crashed" /\ flush'[f].reply = flush[f].reply
        OBVIOUS
      <4>1. flush'[f] = [flush[f] EXCEPT !.pc = "crashed"]
        BY <1>8 DEF Crash
      <4>2. flush[f] \in FlushStates
        BY DEF TypeOK
      <4> QED  BY <4>1, <4>2 DEF FlushStates
    <3> QED  BY <1>8, <3>1 DEF Crash
  <2>2. Emptied /\ Sent /\ Gone
    BY <2>1 DEF IdleWorker
  <2>3. Told
    BY <1>1, <1>2, <2>1 DEF Taken
  <2> QED  BY <2>2, <2>3
<1>9. CASE UNCHANGED vars
  BY <1>3, <1>9 DEF vars, closeVars
<1> HIDE DEF Emptied, Sent, Told, Gone
<1> QED  BY <1>4, <1>5, <1>6, <1>7, <1>8, <1>9, WhoSteps

LEMMA NilInit == Init => Control /\ Taken
<1> SUFFICES ASSUME Init  PROVE Control /\ Taken
  OBVIOUS
<1>1. \A x \in Nilable : before[x] = {}
  BY DEF Init, Nilable
<1>2. send[Worker].pc = "idle" /\ worker.pc = "select" /\ worker.job = "tick"
  BY DEF Init, IdleSend, IdleWorker, Senders
<1>3. \A f \in Flushers : flush[f].pc = "idle" /\ flush[f].reply = "none"
  BY DEF Init
<1> QED  BY <1>1, <1>2, <1>3, ClientAssumption DEF Init, Control, Taken, Returned, Nilable

LEMMA NilInvariant == Spec => [](Control /\ Taken)
<1>1. TypeOK /\ Control /\ Taken /\ [Next]_vars => Control' /\ Taken'
  BY ControlStep, TakenStep
<1> QED  BY <1>1, NilInit, TypeCorrect, PTL DEF Spec

\* client.go:114-144, 265-306, 368-385: a Flush answered with nil leaves no event
\* whose SendEvent had returned true before it in the buffer, in the worker's
\* POST or in the outbox, then or ever after.
THEOREM FlushOkIsTrue == Spec => []FlushOkLeavesNothing
<1>1. Taken => FlushOkLeavesNothing
  BY DEF Taken, FlushOkLeavesNothing
<1> QED  BY <1>1, NilInvariant, PTL

\* client.go:146-168, 276-290: what was in the buffer when Close began has left
\* it when Close returns nil, and the worker has no POST under way.
THEOREM CloseNilIsTrue == Spec => []CloseLeavesNothing
<1>1. Control /\ Taken => CloseLeavesNothing
  <2> SUFFICES ASSUME Control, Taken, done
               PROVE  before["close"] \cap (Content(queue) \cup InFlight) = {}
    BY DEF CloseLeavesNothing
  <2>1. InFlight = {}
    BY DEF Control, InFlight
  <2> QED  BY <2>1 DEF Taken
<1> QED  BY <1>1, NilInvariant, PTL

-----------------------------------------------------------------------------
(* Without an outbox an event is sent once, unless an answer got lost        *)

\* An event that is on its way into the buffer or to a POST of its own is nowhere
\* else; the buffer, the worker's POST, what was dropped and what was ingested
\* have nothing in common but what is posted again after a lost answer.
Elsewhere == Content(queue) \cup InFlight \cup fate.dropped
Apart ==
    /\ \A e \in Events : call[e] \in {"idle", "persist", "push"} =>
                          e \notin Elsewhere \cup api.ingested
    /\ \A e \in Events : call[e] = "sync" => e \notin Elsewhere
    /\ \A e \in Sync : send[e].pc = "post" => /\ send[e].batch = {e}
                                             /\ call[e] = "sync"
    /\ Distinct(queue)
    /\ Content(queue) \cap (InFlight \cup fate.dropped \cup api.ingested) = {}
    /\ fate.dropped \cap (InFlight \cup api.ingested) = {}
    /\ \A s \in Senders : send[s].pc = "post" =>
                              send[s].batch \cap api.ingested \subseteq api.unread
    /\ api.repeated \subseteq api.unread

LEMMA PostFacts ==
    ASSUME TypeOK, NEW s \in Senders, SendStep(s)
    PROVE  /\ UNCHANGED <<call, queue>> /\ fate'.dropped = fate.dropped
           /\ \/ /\ send[s].pc = "post" /\ send'[s].pc # "post"
                 /\ api'.ingested = api.ingested \cup (send[s].batch \ Rejected)
                 /\ api'.repeated = api.repeated
                                    \cup (send[s].batch \cap api.ingested)
                 /\ api'.unread = api.unread
              \/ /\ send[s].pc = "post"
                 /\ api'.ingested = api.ingested \cup (send[s].batch \ Rejected)
                 /\ api'.repeated = api.repeated
                                    \cup (send[s].batch \cap api.ingested)
                 /\ api'.unread = api.unread \cup send[s].batch
              \/ api' = api
<1>1. /\ send \in [Senders -> Frames]
      /\ fate \in [dropped : SUBSET Events, answered : SUBSET Events]
      /\ api \in [ingested : SUBSET Events, repeated : SUBSET Events,
                  unread : SUBSET Events]
  BY DEF TypeOK
<1>2. /\ Ingest(send[s].batch).ingested =
             api.ingested \cup (send[s].batch \ Rejected)
      /\ Ingest(send[s].batch).repeated =
             api.repeated \cup (send[s].batch \cap api.ingested)
      /\ Ingest(send[s].batch).unread = api.unread
      /\ Ingest(send[s].batch) \in [ingested : SUBSET Events,
                  repeated : SUBSET Events, unread : SUBSET Events]
  <2>1. send[s].batch \subseteq Events
    BY <1>1 DEF Frames
  <2> QED  BY <1>1, <2>1 DEF Ingest
<1>3. CASE Answered(s)
  <2>1. fate' = [fate EXCEPT !.answered = @ \cup send[s].batch]
        /\ send[s].pc = "post" /\ api' = Ingest(send[s].batch)
        /\ call' = call /\ queue' = queue
    BY <1>3 DEF Answered
  <2>2. fate'.dropped = fate.dropped
    BY <1>1, <2>1
  <2>3. send'[s].pc # "post"
    <3>1. PICK p \in {"remove", "rejected", "sent"} : send' = [send EXCEPT ![s].pc = p]
      BY <1>3 DEF Answered, AnswerOf
    <3>2. send'[s] = [send[s] EXCEPT !.pc = p]
      BY <1>1, <3>1
    <3> QED  BY <1>1, <3>2 DEF Frames
  <2> QED  BY <1>2, <2>1, <2>2, <2>3
<1>4. CASE FailedPost(s)
  <2>1. /\ send[s].pc = "post" /\ call' = call /\ queue' = queue
        /\ \/ api' = api
           \/ api' = [Ingest(send[s].batch) EXCEPT !.unread = @ \cup send[s].batch]
    BY <1>4 DEF FailedPost, Unreachable, Status4xx, AnswerLost
  <2>2. PICK retryable \in BOOLEAN : FailAttempt(s, retryable)
    BY <1>4 DEF FailedPost, Unreachable, Status4xx, AnswerLost
  <2>3. fate' = fate
    BY <2>2 DEF FailAttempt
  <2>4. CASE api' = [Ingest(send[s].batch) EXCEPT !.unread = @ \cup send[s].batch]
    <3>1. /\ api'.ingested = Ingest(send[s].batch).ingested
          /\ api'.repeated = Ingest(send[s].batch).repeated
          /\ api'.unread = Ingest(send[s].batch).unread \cup send[s].batch
      BY <1>2, <2>4
    <3> QED  BY <1>2, <2>1, <2>3, <3>1
  <2> QED  BY <2>1, <2>3, <2>4
<1>5. CASE RemoveSent(s)
  BY <1>5 DEF RemoveSent, callVars
<1> QED  BY <1>3, <1>4, <1>5 DEF SendStep

LEMMA PushKeepsApart ==
    ASSUME TypeOK, Apart, NEW e \in Events, Push(e)
    PROVE  Apart'
<1>1. /\ queue \in Seq(Events) /\ call \in [Events -> CallStates]
      /\ fate \in [dropped : SUBSET Events, answered : SUBSET Events]
  BY DEF TypeOK
<1>2. call[e] = "push" /\ UNCHANGED <<send, api>> /\ InFlight' = InFlight
  BY DEF Push, InFlight
<1>3. e \notin Elsewhere /\ e \notin api.ingested
  BY <1>2 DEF Apart
<1>4. \E p \in {"announce", "false"} : call' = [call EXCEPT ![e] = p]
  BY DEF Push, PushStored, PushReplacing, PushRefused
<1>5. \A d \in Events : call'[d] \in {"idle", "persist", "push", "sync"} =>
                          d # e /\ call'[d] = call[d]
  BY <1>1, <1>4
<1>6. /\ Distinct(queue')
      /\ Content(queue') \cup fate'.dropped \subseteq Content(queue) \cup fate.dropped \cup {e}
      /\ Content(queue') \cap fate'.dropped = {}
  <2>1. CASE PushStored(e)
    <3>1. queue' = Append(queue, e) /\ fate' = fate
      BY <2>1 DEF PushStored, AppendBack
    <3> QED  BY <1>1, <1>3, <3>1, AppendCounts DEF Apart, Elsewhere
  <2>2. CASE PushReplacing(e)
    <3> DEFINE v == Victim(queue)
    <3>1. v \in DOMAIN queue
      BY <1>1, <2>2, VictimIsDroppable DEF PushReplacing, CanReplace
    <3>2. queue' = [queue EXCEPT ![v] = e] /\ ReportDrop(queue[v])
      BY <2>2 DEF PushReplacing, Replaced
    <3> HIDE DEF v
    <3>3. fate'.dropped = fate.dropped \cup {queue[v]}
      BY <1>1, <3>2 DEF ReportDrop
    <3>4. /\ Content(queue') = (Content(queue) \ {queue[v]}) \cup {e}
          /\ Distinct(queue')
      BY <1>1, <1>3, <3>1, <3>2, PutCounts DEF Apart, Elsewhere
    <3>5. queue[v] \in Content(queue)
      BY <3>1 DEF Content
    <3> QED  BY <1>3, <3>3, <3>4, <3>5 DEF Apart, Elsewhere
  <2>3. CASE PushRefused(e)
    <3>1. queue' = queue /\ fate'.dropped = fate.dropped \cup {e}
      BY <1>1, <2>3 DEF PushRefused, ReportDrop
    <3> QED  BY <1>3, <3>1 DEF Apart, Elsewhere
  <2> QED  BY <2>1, <2>2, <2>3 DEF Push
<1>7. \A d \in Events : d # e /\ d \notin Elsewhere => d \notin Elsewhere'
  BY <1>2, <1>6 DEF Elsewhere, Content
<1>8. /\ \A d \in Events : call'[d] \in {"idle", "persist", "push"} =>
                             d \notin Elsewhere' \cup api'.ingested
      /\ \A d \in Events : call'[d] = "sync" => d \notin Elsewhere'
  BY <1>2, <1>5, <1>7 DEF Apart
<1>9. \A d \in Sync : send'[d].pc = "post" => send'[d].batch = {d} /\ call'[d] = "sync"
  BY <1>1, <1>2, <1>4, ClientAssumption DEF Apart
<1>10. /\ Content(queue') \cap (InFlight' \cup fate'.dropped \cup api'.ingested) = {}
       /\ fate'.dropped \cap (InFlight' \cup api'.ingested) = {}
  BY <1>2, <1>3, <1>6 DEF Apart, Elsewhere
<1>11. /\ \A s \in Senders : send'[s].pc = "post" =>
                               send'[s].batch \cap api'.ingested \subseteq api'.unread
       /\ api'.repeated \subseteq api'.unread
  BY <1>2 DEF Apart
<1> QED  BY <1>6, <1>8, <1>9, <1>10, <1>11 DEF Apart, Content, Distinct

\* What stands in a POST stands nowhere else, in no other POST either.
LEMMA PostedApart ==
    ASSUME TypeOK, Apart, NEW s \in Senders, send[s].pc = "post"
    PROVE  /\ send[s].batch \cap (Content(queue) \cup fate.dropped) = {}
           /\ \A e \in send[s].batch : call[e] \notin {"idle", "persist", "push"}
           /\ \A t \in Senders \ {s} : send[t].pc = "post" =>
                  send[s].batch \cap send[t].batch = {}
<1>1. send \in [Senders -> Frames]
  BY DEF TypeOK
<1>2. CASE s = Worker
  <2>1. send[s].batch = InFlight /\ InFlight \subseteq Events
    BY <1>1, <1>2 DEF InFlight, Frames
  <2>2. ASSUME NEW t \in Senders \ {s}, send[t].pc = "post"
        PROVE  send[s].batch \cap send[t].batch = {}
    <3>1. t \in Sync /\ send[t].batch = {t} /\ call[t] = "sync" /\ t \in Events
      BY <1>2, <2>2, ClientAssumption DEF Apart, Senders
    <3> QED  BY <2>1, <3>1 DEF Apart, Elsewhere
  <2> QED  BY <2>1, <2>2 DEF Apart, Elsewhere
<1>3. CASE s # Worker
  <2>1. s \in Sync /\ send[s].batch = {s} /\ call[s] = "sync" /\ s \in Events
    BY <1>3, ClientAssumption DEF Apart, Senders
  <2>2. ASSUME NEW t \in Senders \ {s}, send[t].pc = "post"
        PROVE  send[s].batch \cap send[t].batch = {}
    <3>1. CASE t = Worker
      BY <2>1, <2>2, <3>1 DEF Apart, Elsewhere, InFlight
    <3>2. CASE t # Worker
      BY <2>1, <2>2, <3>2, ClientAssumption DEF Apart, Senders
    <3> QED  BY <3>1, <3>2
  <2> QED  BY <2>1, <2>2 DEF Apart, Elsewhere
<1> QED  BY <1>2, <1>3

LEMMA SendKeepsApart ==
    ASSUME TypeOK, Apart, NEW s \in Senders, SendStep(s)
    PROVE  Apart'
<1> DEFINE batch == send[s].batch
<1>1. /\ UNCHANGED <<call, queue>> /\ fate'.dropped = fate.dropped
      /\ send'[s].batch = batch
      /\ send'[s].pc = "post" => send[s].pc = "post"
      /\ \A t \in Senders \ {s} : send'[t] = send[t]
  BY SenderFacts, PostFacts
<1>2. \A t \in Senders : /\ send'[t].batch = send[t].batch
                         /\ send'[t].pc = "post" => send[t].pc = "post"
  BY <1>1
<1>3. InFlight' \subseteq InFlight /\ Elsewhere' \subseteq Elsewhere
  <2>1. InFlight' \subseteq InFlight
    BY <1>2 DEF InFlight, Senders
  <2> QED  BY <1>1, <2>1 DEF Elsewhere, Content
<1>4. Sync \subseteq Senders /\ Sync \subseteq Events
  BY ClientAssumption DEF Senders
<1>5. ASSUME api'.ingested = api.ingested, api'.unread = api.unread,
             api'.repeated = api.repeated
      PROVE  Apart'
  BY <1>1, <1>2, <1>3, <1>4, <1>5 DEF Apart, Distinct, Content
<1>6. ASSUME send[s].pc = "post",
             api'.ingested = api.ingested \cup (batch \ Rejected),
             api'.repeated = api.repeated \cup (batch \cap api.ingested),
             \/ send'[s].pc # "post" /\ api'.unread = api.unread
             \/ api'.unread = api.unread \cup batch
      PROVE  Apart'
  <2>1. /\ batch \cap (Content(queue) \cup fate.dropped) = {}
        /\ \A e \in batch : call[e] \notin {"idle", "persist", "push"}
        /\ \A t \in Senders \ {s} : send[t].pc = "post" => batch \cap send[t].batch = {}
    BY <1>6, PostedApart
  <2>2. batch \cap api.ingested \subseteq api.unread
    BY <1>6 DEF Apart
  <2> HIDE DEF batch
  <2>3. \A e \in Events :
            /\ call[e] \in {"idle", "persist", "push"} =>
                   e \notin Elsewhere' \cup api'.ingested
            /\ call[e] = "sync" => e \notin Elsewhere'
    BY <1>3, <1>6, <2>1 DEF Apart
  <2>4. /\ Content(queue) \cap (InFlight' \cup fate.dropped \cup api'.ingested) = {}
        /\ fate.dropped \cap (InFlight' \cup api'.ingested) = {}
    BY <1>3, <1>6, <2>1 DEF Apart
  <2>5. ASSUME NEW t \in Senders, send'[t].pc = "post"
        PROVE  send'[t].batch \cap api'.ingested \subseteq api'.unread
    <3>1. CASE t = s
      BY <1>1, <1>6, <2>2, <2>5, <3>1
    <3>2. CASE t # s
      <4>1. /\ send[t].pc = "post" /\ send'[t].batch = send[t].batch
            /\ send[t].batch \cap api.ingested \subseteq api.unread
        BY <1>2, <2>5 DEF Apart
      <4>2. send[t].batch \cap batch = {}
        BY <2>1, <3>2, <4>1
      <4> QED  BY <1>6, <4>1, <4>2
    <3> QED  BY <3>1, <3>2
  <2>6. api'.repeated \subseteq api'.unread
    BY <1>6, <2>2 DEF Apart
  <2>7. \A d \in Sync : send'[d].pc = "post" => send'[d].batch = {d} /\ call'[d] = "sync"
    BY <1>1, <1>2, <1>4 DEF Apart
  <2>8. Distinct(queue') /\ Content(queue') = Content(queue)
    BY <1>1 DEF Apart
  <2> QED  BY <1>1, <2>3, <2>4, <2>5, <2>6, <2>7, <2>8 DEF Apart, Content, Distinct
<1> QED  BY <1>5, <1>6, PostFacts

LEMMA DrainKeepsApart ==
    ASSUME TypeOK, Apart, Control, DrainBatch
    PROVE  Apart'
<1> DEFINE a == Drained(queue, BatchSize)
           b == Remainder(queue, BatchSize)
<1>1. /\ queue \in Seq(Events) /\ queue # <<>> /\ BatchSize \in Nat
      /\ send \in [Senders -> Frames] /\ Worker \in Senders /\ Worker \notin Sync
      /\ Sync \subseteq Senders
  BY ClientAssumption, BufferAssumption DEF TypeOK, Senders, DrainBatch
<1>2. /\ queue' = b /\ UNCHANGED <<call, fate, api>> /\ InFlight = {}
      /\ send' = [send EXCEPT ![Worker] = [pc |-> "post", batch |-> Content(a),
                                           attempt |-> 0]]
  BY DEF DrainBatch, StartSend, workerRest, callVars, Control, InFlight
<1>3. a \in Seq(Events) /\ b \in Seq(Events) /\ a \o b = queue
  BY <1>1, DrainSplits, DrainJoins
<1> HIDE DEF a, b
<1>4. /\ Content(queue) = Content(a) \cup Content(b)
      /\ Distinct(b) /\ Content(a) \cap Content(b) = {}
  BY <1>3, ConcatCounts DEF Apart
<1>5. /\ send'[Worker].batch = Content(a) /\ send'[Worker].pc = "post"
      /\ \A s \in Senders \ {Worker} : send'[s] = send[s]
  BY <1>1, <1>2
<1>6. InFlight' = Content(a) /\ Content(queue') = Content(b) /\ Distinct(queue')
  BY <1>2, <1>4, <1>5 DEF InFlight
<1>7. Elsewhere' = Elsewhere
  BY <1>2, <1>4, <1>6 DEF Elsewhere, Content
<1>8. \A s \in Senders : send'[s].pc = "post" =>
                            send'[s].batch \cap api.ingested \subseteq api.unread
  BY <1>4, <1>5 DEF Apart
<1>9. \A d \in Sync : send'[d].pc = "post" => send'[d].batch = {d} /\ call[d] = "sync"
  BY <1>1, <1>5 DEF Apart
<1> QED  BY <1>2, <1>4, <1>6, <1>7, <1>8, <1>9 DEF Apart, Content, Distinct

\* A call goes on outside the buffer, or is refused.
LEMMA CallKeepsApart ==
    ASSUME TypeOK, Apart, NEW e \in Events, NEW p \in CallStates,
           call' = [call EXCEPT ![e] = p], UNCHANGED <<queue, api>>,
           UNCHANGED send \/ (e \in Sync /\ send' = [send EXCEPT ![e] = IdleSend]),
           call[e] = "sync" => send'[e].pc # "post",
           p \notin {"idle", "persist", "sync"},
           p = "push" => call[e] = "persist",
           fate' = fate \/ (call[e] = "idle" /\ p # "push" /\
                           fate'.dropped = fate.dropped \cup {e})
    PROVE  Apart'
<1>1. /\ call \in [Events -> CallStates] /\ send \in [Senders -> Frames]
      /\ Worker \in Senders /\ Worker \notin Events /\ Sync \subseteq Events
      /\ Sync \subseteq Senders
  BY ClientAssumption DEF TypeOK, Senders
<1>2. call'[e] = p /\ \A d \in Events \ {e} : call'[d] = call[d]
  BY <1>1
<1>3. /\ \A s \in Senders : s # e => send'[s] = send[s]
      /\ \A s \in Senders : send'[s] = send[s] \/ send'[s].pc = "idle"
  BY <1>1 DEF IdleSend
<1>4. InFlight' = InFlight
  BY <1>1, <1>3 DEF InFlight
<1>5. /\ Elsewhere' \subseteq Elsewhere \cup {e}
      /\ p = "push" => Elsewhere' = Elsewhere
      /\ fate'.dropped = fate.dropped
         => Elsewhere' = Elsewhere
  BY <1>4 DEF Elsewhere, Content
<1>6. /\ \A d \in Events : call'[d] \in {"idle", "persist", "push"} =>
                             d \notin Elsewhere' \cup api'.ingested
      /\ \A d \in Events : call'[d] = "sync" => d \notin Elsewhere'
  BY <1>2, <1>5 DEF Apart
<1>7. \A d \in Sync : send'[d].pc = "post" => send'[d].batch = {d} /\ call'[d] = "sync"
  <2> SUFFICES ASSUME NEW d \in Sync, send'[d].pc = "post"
               PROVE  send'[d].batch = {d} /\ call'[d] = "sync"
    OBVIOUS
  <2>1. send'[d] = send[d]
    BY <1>1, <1>3
  <2>2. send[d].batch = {d} /\ call[d] = "sync"
    BY <2>1 DEF Apart
  <2>3. d # e
    BY <2>2
  <2> QED  BY <1>1, <1>2, <2>1, <2>2, <2>3
<1>8. /\ Content(queue) \cap (InFlight' \cup fate'.dropped \cup api.ingested) = {}
      /\ fate'.dropped \cap (InFlight' \cup api.ingested) = {}
  BY <1>4 DEF Apart, Elsewhere
<1>9. \A s \in Senders : send'[s].pc = "post" =>
                            send'[s].batch \cap api.ingested \subseteq api.unread
  BY <1>3 DEF Apart
<1> QED  BY <1>6, <1>7, <1>8, <1>9 DEF Apart, Content, Distinct

LEMMA ApartStep ==
    ASSUME ~UseOutbox, TypeOK, Control, Apart, [Next]_vars
    PROVE  Apart'
<1>1. /\ call \in [Events -> CallStates] /\ send \in [Senders -> Frames]
      /\ fate \in [dropped : SUBSET Events, answered : SUBSET Events]
      /\ Worker \in Senders /\ Worker \notin Events /\ Sync \subseteq Events
      /\ Sync \subseteq Senders
  BY ClientAssumption DEF TypeOK, Senders
<1>2. ASSUME NEW e \in Events, CallerStep(e)  PROVE Apart'
  <2>1. CASE Refuse(e)
    <3>1. /\ UNCHANGED <<queue, api, send>> /\ call[e] = "idle"
          /\ \E p \in {"error", "false"} : call' = [call EXCEPT ![e] = p]
      BY <2>1 DEF Refuse
    <3>2. fate'.dropped = fate.dropped \cup {e}
      BY <1>1, <2>1 DEF Refuse, ReportDrop
    <3> QED  BY <3>1, <3>2, CallKeepsApart DEF CallStates
  <2>2. CASE Prepare(e) /\ e \in Sync
    <3>1. /\ call' = [call EXCEPT ![e] = "sync"] /\ call[e] = "idle"
          /\ send' = [send EXCEPT ![e] = [pc |-> "post", batch |-> {e}, attempt |-> 0]]
          /\ UNCHANGED <<queue, api, fate>>
      BY <2>2 DEF Prepare, StartSend
    <3>2. /\ call'[e] = "sync" /\ \A d \in Events \ {e} : call'[d] = call[d]
          /\ send'[e].pc = "post" /\ send'[e].batch = {e}
          /\ \A s \in Senders \ {e} : send'[s] = send[s]
      <4>1. call'[e] = "sync" /\ \A d \in Events \ {e} : call'[d] = call[d]
        BY <1>1, <3>1
      <4> DEFINE r == [pc |-> "post", batch |-> {e}, attempt |-> 0]
      <4>2. r.pc = "post" /\ r.batch = {e}
        OBVIOUS
      <4>3. send' = [send EXCEPT ![e] = r]
        BY <3>1
      <4> HIDE DEF r
      <4>4. e \in Senders
        BY <1>1, <2>2
      <4>5. send'[e] = r /\ \A s \in Senders \ {e} : send'[s] = send[s]
        BY <1>1, <4>3, <4>4
      <4> QED  BY <4>1, <4>2, <4>5
    <3>3. InFlight' = InFlight /\ Elsewhere' = Elsewhere
      <4>1. InFlight' = InFlight
        BY <1>1, <3>2 DEF InFlight
      <4> QED  BY <3>1, <4>1 DEF Elsewhere, Content
    <3>4. e \notin Elsewhere /\ e \notin api.ingested
      BY <3>1 DEF Apart
    <3>5. /\ \A d \in Events : call'[d] \in {"idle", "persist", "push"} =>
                                 d \notin Elsewhere' \cup api'.ingested
          /\ \A d \in Events : call'[d] = "sync" => d \notin Elsewhere'
      BY <3>1, <3>2, <3>3, <3>4 DEF Apart
    <3>6. \A d \in Sync : send'[d].pc = "post" =>
                              send'[d].batch = {d} /\ call'[d] = "sync"
      BY <1>1, <3>2 DEF Apart
    <3>7. \A s \in Senders : send'[s].pc = "post" =>
                                send'[s].batch \cap api.ingested \subseteq api.unread
      BY <3>2, <3>4 DEF Apart
    <3> QED  BY <3>1, <3>3, <3>5, <3>6, <3>7 DEF Apart, Content, Distinct
  <2>3. CASE Prepare(e) /\ e \notin Sync
    <3>1. /\ call' = [call EXCEPT ![e] = "push"] /\ call[e] = "idle"
          /\ UNCHANGED <<queue, api, fate, send>>
      BY <2>3 DEF Prepare
    <3>2. call'[e] = "push" /\ \A d \in Events \ {e} : call'[d] = call[d]
      BY <1>1, <3>1
    <3>3. InFlight' = InFlight /\ Elsewhere' = Elsewhere
      BY <3>1 DEF InFlight, Elsewhere, Content
    <3>4. /\ \A d \in Events : call'[d] \in {"idle", "persist", "push"} =>
                                 d \notin Elsewhere' \cup api'.ingested
          /\ \A d \in Events : call'[d] = "sync" => d \notin Elsewhere'
      BY <3>1, <3>2, <3>3 DEF Apart
    <3>5. \A d \in Sync : send'[d].pc = "post" =>
                              send'[d].batch = {d} /\ call'[d] = "sync"
      BY <1>1, <2>3, <3>1, <3>2 DEF Apart
    <3> QED  BY <3>1, <3>3, <3>4, <3>5 DEF Apart, Content, Distinct
  <2>4. CASE Persist(e)
    BY <2>4 DEF Persist, Control
  <2>5. CASE Push(e)
    BY <2>5, PushKeepsApart
  <2>6. CASE Announce(e)
    <3>1. /\ UNCHANGED <<queue, api, send, fate>> /\ call[e] = "announce"
          /\ call' = [call EXCEPT ![e] = "true"] /\ "true" \in CallStates
      BY <2>6 DEF Announce, CallStates
    <3> QED  BY <3>1, CallKeepsApart
  <2> QED  BY <1>2, <2>1, <2>2, <2>3, <2>4, <2>5, <2>6 DEF CallerStep
<1>3. ASSUME NEW e \in Sync, SyncReturn(e)  PROVE Apart'
  <2>1. /\ call[e] = "sync" /\ UNCHANGED <<queue, api, fate>>
        /\ send' = [send EXCEPT ![e] = IdleSend]
    BY <1>3 DEF SyncReturn
  <2>2. send'[e].pc # "post"
    BY <1>1, <2>1 DEF IdleSend
  <2>3. PICK p \in {"nil", "keep", "error"} : call' = [call EXCEPT ![e] = p]
    <3> DEFINE p == CASE send[e].pc = "sent" -> "nil"
                      [] UseOutbox /\ Retryable(e) -> "keep"
                      [] OTHER -> "error"
    <3>1. call' = [call EXCEPT ![e] = p]
      BY <1>3, Zenon DEF SyncReturn
    <3>2. p \in {"nil", "keep", "error"}
      OBVIOUS
    <3> HIDE DEF p
    <3> QED  BY <3>1, <3>2
  <2> QED  BY <1>1, <2>1, <2>2, <2>3, CallKeepsApart DEF CallStates
<1>4. ASSUME NEW s \in Senders, SendStep(s)  PROVE Apart'
  BY <1>4, SendKeepsApart
<1>5. CASE WorkerMove
  <2>1. CASE DrainBatch
    BY <2>1, DrainKeepsApart
  <2>2. CASE ~DrainBatch
    <3>1. UNCHANGED <<call, fate, api, queue>>
      BY <1>5, <2>2 DEF WorkerMove, WorkerStep, CheckLength, DrainEmpty,
            QueueBatchDone, PeekBatch, PeekEmpty, PeekFails, OutboxBatchDone,
            Finish, TakeNotify, Tick, TakeClose, TakeFlush, workerRest, callVars
    <3>2. send' = send \/ send' = [send EXCEPT ![Worker] = IdleSend]
      BY <1>5, <2>2 DEF WorkerMove, WorkerStep, CheckLength, DrainEmpty,
            QueueBatchDone, PeekBatch, PeekEmpty, PeekFails, OutboxBatchDone,
            Finish, TakeNotify, Tick, TakeClose, TakeFlush, Control
    <3>3. \A s \in Senders : send'[s] = send[s] \/ send'[s].pc = "idle"
      BY <1>1, <3>2 DEF IdleSend
    <3>4. InFlight' \subseteq InFlight /\ Elsewhere' \subseteq Elsewhere
      <4>1. InFlight' \subseteq InFlight
        BY <1>1, <3>3 DEF InFlight
      <4> QED  BY <3>1, <4>1 DEF Elsewhere, Content
    <3> QED  BY <1>1, <3>1, <3>3, <3>4 DEF Apart, Content, Distinct
  <2> QED  BY <2>1, <2>2
<1>6. CASE FlushMove \/ CloseMove \/ UNCHANGED vars
  <2>1. UNCHANGED <<call, queue, send, fate, api>>
    BY <1>6 DEF FlushMove, CloseMove, CallFlush, ExpireFlush, FlushStep, FlushReply,
          FlushTimeout, FlushClosed, FlushReturns, CloseFlag, CloseAgain,
          CloseTimeout, CloseStep, CloseSignal, CloseDone, callerRest, vars,
          callVars
  <2> QED  BY <2>1 DEF Apart, Elsewhere, InFlight, Content, Distinct
<1>7. CASE Crash
  <2>1. /\ queue' = <<>> /\ UNCHANGED <<fate, api>>
        /\ \A s \in Senders : send'[s].pc = "idle"
        /\ \A e \in Events : call'[e] \notin {"persist", "push", "sync"}
                              /\ (call'[e] = "idle" => call[e] = "idle")
    BY <1>7 DEF Crash, IdleSend, CallReturned
  <2>2. InFlight' = {} /\ Content(queue') = {} /\ Distinct(queue')
    BY <1>1, <2>1 DEF InFlight, Content, Distinct
  <2>3. Elsewhere' \subseteq Elsewhere
    BY <2>1, <2>2 DEF Elsewhere, Content
  <2> QED  BY <1>1, <2>1, <2>2, <2>3 DEF Apart, Content, Distinct
<1> QED  BY <1>2, <1>3, <1>4, <1>5, <1>6, <1>7, WhoSteps

LEMMA ApartInvariant ==
    ASSUME ~UseOutbox
    PROVE  Spec => []Apart
<1>1. Init => Apart
  <2> SUFFICES ASSUME Init  PROVE Apart
    OBVIOUS
  <2>1. /\ \A s \in Senders : send[s].pc = "idle" /\ queue = <<>>
        /\ Sync \subseteq Senders /\ Worker \in Senders
        /\ fate.dropped = {} /\ api.ingested = {} /\ api.repeated = {}
    BY DEF Init, IdleSend, Senders
  <2>2. InFlight = {} /\ Content(queue) = {} /\ Distinct(queue)
    BY <2>1 DEF Init, InFlight, Content, Distinct
  <2>3. \A e \in Events : call[e] = "idle"
    BY DEF Init
  <2> QED  BY <2>1, <2>2, <2>3 DEF Apart, Elsewhere
<1>2. TypeOK /\ Control /\ Apart /\ [Next]_vars => Apart'
  BY ApartStep
<1> QED  BY <1>1, <1>2, TypeCorrect, NilInvariant, PTL DEF Spec

\* README.md:883, queue.go:38-47: without an outbox an event reported as dropped
\* is not in the buffer any more and never comes to the API.
THEOREM DroppedIsNotSent ==
    ASSUME ~UseOutbox
    PROVE  Spec => []DroppedNeverSent
<1>1. Apart => DroppedNeverSent
  BY DEF Apart, DroppedNeverSent
<1> QED  BY <1>1, ApartInvariant, PTL

\* client.go:338-362: without an outbox the retry of a POST whose answer was lost
\* is the only way for the API to see an event twice.
THEOREM RepeatedIsExplained ==
    ASSUME ~UseOutbox
    PROVE  Spec => []RepeatedOnlyAfterLostAnswer
<1>1. Apart => RepeatedOnlyAfterLostAnswer
  BY DEF Apart, RepeatedOnlyAfterLostAnswer
<1> QED  BY <1>1, ApartInvariant, PTL

-----------------------------------------------------------------------------
(* The counters of one process account for every call                        *)

Begun == {e \in Events : call[e] # "idle"}
Entering == {e \in Events : call[e] \in {"persist", "push"}}
Posting == {s \in Sync : send[s].pc = "post"}
Tally ==
    Cardinality(Entering) + Cardinality(Posting) + Len(queue)
    + Cardinality(InFlight) + stats.dropped + stats.sent + stats.failed
Counted == crashes = 0 => Cardinality(Begun) = Tally

LEMMA Sizes ==
    ASSUME TypeOK
    PROVE  /\ IsFiniteSet(Begun) /\ IsFiniteSet(Entering)
           /\ IsFiniteSet(Posting) /\ IsFiniteSet(InFlight)
           /\ Cardinality(Begun) \in Nat /\ Cardinality(Entering) \in Nat
           /\ Cardinality(Posting) \in Nat /\ Cardinality(InFlight) \in Nat
           /\ Len(queue) \in Nat /\ stats.dropped \in Nat
           /\ stats.sent \in Nat /\ stats.failed \in Nat
           /\ Cardinality(Events) \in Nat
           /\ Cardinality(Begun) <= Cardinality(Events)
<1>1. /\ Begun \subseteq Events /\ Entering \subseteq Events
      /\ Posting \subseteq Events /\ IsFiniteSet(Events)
  BY ClientAssumption DEF Begun, Entering, Posting
<1>2. InFlight \subseteq Events
  BY DEF TypeOK, InFlight, Frames, Senders
<1>3. /\ IsFiniteSet(Begun) /\ IsFiniteSet(Entering)
      /\ IsFiniteSet(Posting) /\ IsFiniteSet(InFlight)
      /\ Cardinality(Begun) <= Cardinality(Events)
  BY <1>1, <1>2, FS_Subset
<1>4. /\ Len(queue) \in Nat /\ stats.dropped \in Nat
      /\ stats.sent \in Nat /\ stats.failed \in Nat
  <2>1. queue \in Seq(Events)
    BY DEF TypeOK
  <2>2. stats \in [queued : Counts, dropped : Counts, sent : Counts,
                   failed : Counts]
    BY DEF TypeOK
  <2>3. \A n \in Counts : n \in Nat
    BY ClientAssumption DEF Counts
  <2> QED  BY <2>1, <2>2, <2>3
<1> QED  BY <1>1, <1>3, <1>4, FS_CardinalityType

\* The summands are numbers.
Numbers ==
    /\ Cardinality(Begun) \in Nat /\ Cardinality(Entering) \in Nat
    /\ Cardinality(Posting) \in Nat /\ Cardinality(InFlight) \in Nat
    /\ Len(queue) \in Nat /\ stats.dropped \in Nat
    /\ stats.sent \in Nat /\ stats.failed \in Nat

LEMMA NumbersOK ==
    ASSUME TypeOK
    PROVE  Numbers
BY Sizes DEF Numbers

\* What a step adds to each summand.
Adds(en, po, wa, fl, dr, se, fa) ==
    /\ Cardinality(Entering)' = Cardinality(Entering) + en
    /\ Cardinality(Posting)' = Cardinality(Posting) + po
    /\ Len(queue)' = Len(queue) + wa
    /\ Cardinality(InFlight)' = Cardinality(InFlight) + fl
    /\ stats'.dropped = stats.dropped + dr
    /\ stats'.sent = stats.sent + se
    /\ stats'.failed = stats.failed + fa

LEMMA TallyAdds ==
    ASSUME Numbers, NEW en \in Int, NEW po \in Int, NEW wa \in Int,
           NEW fl \in Int, NEW dr \in Int, NEW se \in Int, NEW fa \in Int,
           Adds(en, po, wa, fl, dr, se, fa)
    PROVE  Tally' = Tally + en + po + wa + fl + dr + se + fa
<1> DEFINE a == Cardinality(Entering)  b == Cardinality(Posting)
           c == Len(queue)  d == Cardinality(InFlight)
           x == stats.dropped  y == stats.sent  z == stats.failed
<1>1. /\ a \in Nat /\ b \in Nat /\ c \in Nat /\ d \in Nat /\ x \in Nat
      /\ y \in Nat /\ z \in Nat
  BY DEF Numbers
<1>2. Tally = a + b + c + d + x + y + z
  BY DEF Tally
<1>3. Tally' = (a + en) + (b + po) + (c + wa) + (d + fl) + (x + dr) + (y + se)
               + (z + fa)
  BY DEF Tally, Adds
<1> HIDE DEF a, b, c, d, x, y, z
<1> QED  BY <1>1, <1>2, <1>3

\* No summand exceeds the tally, alone or with a counter it can move to.
LEMMA TallyBounds ==
    ASSUME Numbers
    PROVE  /\ Tally \in Nat
           /\ stats.dropped + Cardinality(Entering) <= Tally
           /\ stats.sent + Cardinality(InFlight) <= Tally
           /\ stats.sent + Cardinality(Posting) <= Tally
           /\ stats.failed + Cardinality(InFlight) <= Tally
           /\ stats.failed + Cardinality(Posting) <= Tally
<1> DEFINE a == Cardinality(Entering)  b == Cardinality(Posting)
           c == Len(queue)  d == Cardinality(InFlight)
           x == stats.dropped  y == stats.sent  z == stats.failed
<1>1. /\ a \in Nat /\ b \in Nat /\ c \in Nat /\ d \in Nat /\ x \in Nat
      /\ y \in Nat /\ z \in Nat
  BY DEF Numbers
<1>2. Tally = a + b + c + d + x + y + z
  BY DEF Tally
<1>3. /\ Tally \in Nat /\ x + a <= Tally /\ y + d <= Tally /\ y + b <= Tally
      /\ z + d <= Tally /\ z + b <= Tally
  <2> HIDE DEF a, b, c, d, x, y, z
  <2> QED  BY <1>1, <1>2
<1> QED  BY <1>3

\* Within the bound the counters count.
LEMMA PlusCounts ==
    ASSUME NEW n \in Nat, NEW k \in Nat, n + k <= MaxCount
    PROVE  Plus(n, k) = n + k
BY ClientAssumption DEF Plus

\* One more event is counted as dropped.
DropCounted ==
    /\ stats'.dropped = stats.dropped + 1 /\ stats'.sent = stats.sent
    /\ stats'.failed = stats.failed

LEMMA DropCounts ==
    ASSUME TypeOK, NEW d, ReportDrop(d), stats.dropped + 1 <= MaxCount
    PROVE  DropCounted
<1>1. stats' = [stats EXCEPT !.dropped = Plus(@, 1)] /\ stats.dropped \in Nat
  BY NumbersOK DEF ReportDrop, Numbers
<1>2. Plus(stats.dropped, 1) = stats.dropped + 1
  BY <1>1, PlusCounts
<1> QED  BY <1>1, <1>2 DEF TypeOK, DropCounted

\* The number of calls at a place when one call comes or goes.
LEMMA PlaceMoves ==
    ASSUME TypeOK, NEW e \in Events, NEW p \in CallStates,
           call' = [call EXCEPT ![e] = p]
    PROVE  /\ Begun' = IF p = "idle" THEN Begun \ {e} ELSE Begun \cup {e}
           /\ Entering' = IF p \in {"persist", "push"} THEN Entering \cup {e}
                                                     ELSE Entering \ {e}
           /\ e \in Begun <=> call[e] # "idle"
           /\ e \in Entering <=> call[e] \in {"persist", "push"}
<1>1. call \in [Events -> CallStates]
  BY DEF TypeOK
<1>2. call'[e] = p /\ \A d \in Events \ {e} : call'[d] = call[d]
  BY <1>1
<1>3. Begun' = IF p = "idle" THEN Begun \ {e} ELSE Begun \cup {e}
  BY <1>2 DEF Begun
<1>4. Entering' = IF p \in {"persist", "push"} THEN Entering \cup {e}
                                               ELSE Entering \ {e}
  BY <1>2 DEF Entering
<1> QED  BY <1>3, <1>4 DEF Begun, Entering

\* A call is refused: it begins and is counted as dropped.
LEMMA RefuseCounted ==
    ASSUME TypeOK, Counted, Cardinality(Events) <= MaxCount,
           NEW e \in Events, Refuse(e), crashes = 0
    PROVE  Cardinality(Begun)' = Tally'
<1>1. /\ call[e] = "idle" /\ UNCHANGED <<queue, send>> /\ ReportDrop(e)
      /\ \E p \in {"error", "false"} : call' = [call EXCEPT ![e] = p]
  BY DEF Refuse
<1>2. Posting' = Posting /\ InFlight' = InFlight
  BY <1>1 DEF Posting, InFlight
<1>3. Begun' = Begun \cup {e} /\ e \notin Begun /\ Entering' = Entering
  <2> PICK p \in {"error", "false"} : call' = [call EXCEPT ![e] = p]
    BY <1>1
  <2>1. p \in CallStates
    BY DEF CallStates
  <2>2. Entering \ {e} = Entering
    BY <1>1, <2>1, PlaceMoves
  <2> QED  BY <1>1, <2>1, <2>2, PlaceMoves
<1>4. Cardinality(Begun)' = Cardinality(Begun) + 1
  BY <1>3, Sizes, FS_AddElement
<1>5. Numbers /\ Tally \in Nat /\ stats.dropped <= Tally
  BY NumbersOK, TallyBounds DEF Numbers
<1>6. Tally + 1 <= MaxCount /\ MaxCount \in Nat
  <2>1. Cardinality(Begun') <= Cardinality(Events)
    <3>1. Begun' \subseteq Events /\ IsFiniteSet(Events)
      BY ClientAssumption DEF Begun
    <3> QED  BY <3>1, FS_Subset
  <2>2. Cardinality(Begun') = Tally + 1
    BY <1>4 DEF Counted
  <2> QED  BY <1>5, <2>1, <2>2, Sizes, ClientAssumption
<1>7. DropCounted
  <2>1. stats.dropped \in Nat /\ stats.dropped + 1 <= MaxCount
    BY <1>5, <1>6 DEF Numbers
  <2> QED  BY <1>1, <2>1, DropCounts
<1>8. Adds(0, 0, 0, 0, 1, 0, 0)
  <2>1. /\ Cardinality(Entering)' = Cardinality(Entering)
        /\ Cardinality(Posting)' = Cardinality(Posting)
        /\ Cardinality(InFlight)' = Cardinality(InFlight)
        /\ Len(queue)' = Len(queue)
    BY <1>1, <1>2, <1>3
  <2> QED  BY <1>5, <1>7, <2>1 DEF Adds, DropCounted, Numbers
<1>9. Tally' = Tally + 0 + 0 + 0 + 0 + 1 + 0 + 0
  BY <1>5, <1>8, TallyAdds
<1> QED  BY <1>4, <1>5, <1>9 DEF Counted

\* A call begins, and is on its way or in a POST of its own.
LEMMA PrepareCounted ==
    ASSUME TypeOK, Counted, Apart, NEW e \in Events, Prepare(e), crashes = 0
    PROVE  Cardinality(Begun)' = Tally'
<1>1. call[e] = "idle" /\ UNCHANGED <<queue, stats>>
  BY DEF Prepare
<1>2. /\ Worker \in Senders /\ Worker \notin Events /\ Sync \subseteq Events
      /\ send \in [Senders -> Frames] /\ Sync \subseteq Senders
  BY ClientAssumption DEF TypeOK, Senders
<1>3. Numbers /\ Tally \in Nat
  BY NumbersOK, TallyBounds
<1>4. CASE e \in Sync
  <2>1. /\ call' = [call EXCEPT ![e] = "sync"]
        /\ send' = [send EXCEPT ![e] = [pc |-> "post", batch |-> {e},
                                        attempt |-> 0]]
    BY <1>4 DEF Prepare, StartSend
  <2>2. /\ send'[e].pc = "post" /\ \A s \in Senders \ {e} : send'[s] = send[s]
        /\ send'[Worker] = send[Worker]
    BY <1>2, <1>4, <2>1
  <2>3. InFlight' = InFlight
    BY <2>2 DEF InFlight
  <2>4. e \notin Posting /\ Posting' = Posting \cup {e}
    BY <1>1, <1>2, <1>4, <2>2 DEF Posting, Apart
  <2>5. Begun' = Begun \cup {e} /\ e \notin Begun /\ Entering' = Entering
    <3>1. "sync" \in CallStates
      BY DEF CallStates
    <3>2. Entering \ {e} = Entering
      BY <1>1, <2>1, <3>1, PlaceMoves
    <3> QED  BY <1>1, <2>1, <3>1, <3>2, PlaceMoves
  <2>6. /\ Cardinality(Begun)' = Cardinality(Begun) + 1
        /\ Cardinality(Posting)' = Cardinality(Posting) + 1
    BY <2>4, <2>5, Sizes, FS_AddElement
  <2>7. Adds(0, 1, 0, 0, 0, 0, 0)
    BY <1>1, <1>3, <2>3, <2>5, <2>6 DEF Adds, Numbers
  <2>8. Tally' = Tally + 0 + 1 + 0 + 0 + 0 + 0 + 0
    BY <1>3, <2>7, TallyAdds
  <2> QED  BY <1>3, <2>6, <2>8 DEF Counted
<1>5. CASE e \notin Sync
  <2>1. UNCHANGED send /\ \E p \in {"persist", "push"} :
                              call' = [call EXCEPT ![e] = p]
    BY <1>5 DEF Prepare
  <2>2. InFlight' = InFlight /\ Posting' = Posting
    BY <2>1 DEF InFlight, Posting
  <2>3. /\ Begun' = Begun \cup {e} /\ e \notin Begun
        /\ Entering' = Entering \cup {e} /\ e \notin Entering
    <3> PICK p \in {"persist", "push"} : call' = [call EXCEPT ![e] = p]
      BY <2>1
    <3>1. p \in CallStates
      BY DEF CallStates
    <3> QED  BY <1>1, <3>1, PlaceMoves
  <2>4. /\ Cardinality(Begun)' = Cardinality(Begun) + 1
        /\ Cardinality(Entering)' = Cardinality(Entering) + 1
    BY <2>3, Sizes, FS_AddElement
  <2>5. Adds(1, 0, 0, 0, 0, 0, 0)
    BY <1>1, <1>3, <2>2, <2>4 DEF Adds, Numbers
  <2>6. Tally' = Tally + 1 + 0 + 0 + 0 + 0 + 0 + 0
    BY <1>3, <2>5, TallyAdds
  <2> QED  BY <1>3, <2>4, <2>6 DEF Counted
<1> QED  BY <1>4, <1>5

\* A call leaves the entrance for the buffer, or an event is dropped for it.
LEMMA PushCounted ==
    ASSUME TypeOK, Counted, Cardinality(Events) <= MaxCount,
           NEW e \in Events, Push(e), crashes = 0
    PROVE  Cardinality(Begun)' = Tally'
<1>1. /\ call[e] = "push" /\ UNCHANGED send
      /\ \E p \in {"announce", "false"} : call' = [call EXCEPT ![e] = p]
  BY DEF Push, PushStored, PushReplacing, PushRefused
<1>2. Posting' = Posting /\ InFlight' = InFlight
  BY <1>1 DEF Posting, InFlight
<1>3. Begun' = Begun /\ Entering' = Entering \ {e} /\ e \in Entering
  <2> PICK p \in {"announce", "false"} : call' = [call EXCEPT ![e] = p]
    BY <1>1
  <2>1. p \in CallStates
    BY DEF CallStates
  <2>2. Begun \cup {e} = Begun
    BY <1>1, <2>1, PlaceMoves
  <2> QED  BY <1>1, <2>1, <2>2, PlaceMoves
<1>4. Numbers /\ Tally \in Nat /\ queue \in Seq(Events)
  BY NumbersOK, TallyBounds DEF TypeOK
<1>5. /\ Cardinality(Entering)' = Cardinality(Entering) - 1
      /\ Cardinality(Entering) >= 1
  <2>1. IsFiniteSet(Entering \ {e})
    BY Sizes, FS_RemoveElement
  <2>2. Cardinality(Entering \ {e}) \in Nat
    BY <2>1, FS_CardinalityType
  <2>3. Cardinality(Entering \ {e}) = Cardinality(Entering) - 1
    BY <1>3, Sizes, FS_RemoveElement
  <2> QED  BY <1>3, <1>4, <2>2, <2>3 DEF Numbers
<1>6. stats.dropped + 1 <= MaxCount
  <2>1. Tally <= MaxCount
    BY <1>4, Sizes, ClientAssumption DEF Counted
  <2>2. stats.dropped + Cardinality(Entering) <= Tally
    BY <1>4, TallyBounds
  <2> QED  BY <1>4, <1>5, <2>1, <2>2, ClientAssumption DEF Numbers
<1>7. ASSUME NEW wa \in Int, NEW dr \in Int, Adds(-1, 0, wa, 0, dr, 0, 0),
             wa + dr = 1
      PROVE  Cardinality(Begun)' = Tally'
  <2>1. Tally' = Tally + (-1) + 0 + wa + 0 + dr + 0 + 0
    BY <1>4, <1>7, TallyAdds
  <2> QED  BY <1>3, <1>4, <1>7, <2>1 DEF Counted
<1>8. CASE PushStored(e)
  <2>1. Len(queue') = Len(queue) + 1 /\ UNCHANGED stats
    BY <1>4, <1>8, AppendStores DEF PushStored
  <2>2. Adds(-1, 0, 1, 0, 0, 0, 0)
    BY <1>2, <1>4, <1>5, <2>1 DEF Adds, Numbers
  <2> QED  BY <1>7, <2>2
<1>9. CASE PushReplacing(e) \/ PushRefused(e)
  <2>1. Len(queue') = Len(queue)
    BY <1>4, <1>9, ReplaceStores DEF PushReplacing, PushRefused
  <2>2. DropCounted
    <3>1. PICK d : ReportDrop(d)
      BY <1>9 DEF PushReplacing, PushRefused
    <3> QED  BY <1>6, <3>1, DropCounts
  <2>3. Adds(-1, 0, 0, 0, 1, 0, 0)
    BY <1>2, <1>4, <1>5, <2>1, <2>2 DEF Adds, Numbers, DropCounted
  <2> QED  BY <1>7, <2>3
<1> QED  BY <1>8, <1>9 DEF Push

\* Nothing that counts changes.
LEMMA StillCounted ==
    ASSUME Counted, crashes = 0, Begun' = Begun, Entering' = Entering,
           Posting' = Posting, InFlight' = InFlight, queue' = queue,
           stats'.dropped = stats.dropped, stats'.sent = stats.sent,
           stats'.failed = stats.failed
    PROVE  Cardinality(Begun)' = Tally'
BY DEF Counted, Tally

\* A call that returns true, or SendEventSync returns what its POST came to.
LEMMA ReturnCounted ==
    ASSUME TypeOK, Counted, Apart, NEW e \in Events, crashes = 0,
           Announce(e) \/ (e \in Sync /\ SyncReturn(e))
    PROVE  Cardinality(Begun)' = Tally'
<1>1. /\ call[e] \in {"announce", "sync"} /\ queue' = queue
      /\ stats'.dropped = stats.dropped /\ stats'.sent = stats.sent
      /\ stats'.failed = stats.failed
  BY DEF Announce, SyncReturn, TypeOK
<1>2. PICK p \in {"true", "nil", "keep", "error"} : call' = [call EXCEPT ![e] = p]
  <2>1. CASE Announce(e)
    BY <2>1 DEF Announce
  <2>2. CASE e \in Sync /\ SyncReturn(e)
    <3> DEFINE p == CASE send[e].pc = "sent" -> "nil"
                      [] UseOutbox /\ Retryable(e) -> "keep"
                      [] OTHER -> "error"
    <3>1. call' = [call EXCEPT ![e] = p]
      BY <2>2, Zenon DEF SyncReturn
    <3>2. p \in {"nil", "keep", "error"}
      OBVIOUS
    <3> HIDE DEF p
    <3> QED  BY <3>1, <3>2
  <2> QED  BY <2>1, <2>2
<1>3. Begun' = Begun /\ Entering' = Entering
  <2>1. p \in CallStates
    BY DEF CallStates
  <2>2. Begun \cup {e} = Begun /\ Entering \ {e} = Entering
    BY <1>1, <1>2, <2>1, PlaceMoves
  <2> QED  BY <1>2, <2>1, <2>2, PlaceMoves
<1>4. Posting' = Posting /\ InFlight' = InFlight
  <2>1. CASE Announce(e)
    BY <2>1 DEF Announce, Posting, InFlight
  <2>2. CASE e \in Sync /\ SyncReturn(e)
    <3>1. /\ send \in [Senders -> Frames] /\ Worker \in Senders /\ Worker # e
          /\ Sync \subseteq Senders
      BY <2>2, ClientAssumption DEF TypeOK, Senders
    <3>2. send[e].pc # "post" /\ send' = [send EXCEPT ![e] = IdleSend]
      BY <2>2 DEF SyncReturn, Answers
    <3>3. send'[e].pc # "post" /\ \A s \in Senders \ {e} : send'[s] = send[s]
      BY <2>2, <3>1, <3>2 DEF IdleSend
    <3> QED  BY <2>2, <3>1, <3>2, <3>3 DEF Posting, InFlight
  <2> QED  BY <2>1, <2>2
<1> QED  BY <1>1, <1>3, <1>4, StillCounted

\* A POST is over: its events go where the counter of its outcome takes them.
LEMMA PostEnds ==
    ASSUME TypeOK, Apart, NEW s \in Senders, send[s].pc = "post",
           send'[s].pc # "post", \A t \in Senders \ {s} : send'[t] = send[t]
    PROVE  \E po, fl \in Int :
               /\ po + fl + EventCount(send[s].batch) = 0
               /\ Cardinality(Posting)' = Cardinality(Posting) + po
               /\ Cardinality(InFlight)' = Cardinality(InFlight) + fl
               /\ EventCount(send[s].batch) \in Nat
               /\ stats.sent + EventCount(send[s].batch) <= Tally
               /\ stats.failed + EventCount(send[s].batch) <= Tally
<1>1. Sync \subseteq Senders /\ Worker \in Senders /\ Worker \notin Sync
  BY ClientAssumption DEF Senders
<1>2. Numbers
  BY NumbersOK
<1>3. CASE s = Worker
  <2>1. InFlight = send[s].batch /\ InFlight' = {} /\ Posting' = Posting
    BY <1>1, <1>3 DEF InFlight, Posting
  <2>2. EventCount(send[s].batch) = Cardinality(InFlight)
    BY <2>1 DEF EventCount
  <2>3. Cardinality(InFlight)' = 0
    BY <2>1, FS_EmptySet
  <2>4. /\ stats.sent + Cardinality(InFlight) <= Tally
        /\ stats.failed + Cardinality(InFlight) <= Tally
    BY <1>2, TallyBounds
  <2> DEFINE n == Cardinality(InFlight)
  <2>5. n \in Nat /\ 0 \in Int /\ 0 - n \in Int
    BY <1>2 DEF Numbers
  <2>6. /\ 0 + (0 - n) + n = 0 /\ n + (0 - n) = 0
        /\ Cardinality(Posting)' = Cardinality(Posting) + 0
    BY <1>2, <2>1, <2>5 DEF Numbers
  <2> 0 - n \in Int
    BY <2>5
  <2> WITNESS 0 \in Int, 0 - n \in Int
  <2> QED  BY <2>2, <2>3, <2>4, <2>5, <2>6
<1>4. CASE s \in Sync
  <2>1. Posting' = Posting \ {s} /\ s \in Posting /\ InFlight' = InFlight
    BY <1>1, <1>4 DEF Posting, InFlight
  <2>2. send[s].batch = {s}
    BY <1>4 DEF Apart
  <2>3. EventCount(send[s].batch) = 1
    BY <2>2, FS_Singleton DEF EventCount
  <2>4. /\ Cardinality(Posting)' = Cardinality(Posting) - 1
        /\ Cardinality(Posting) >= 1
    <3>1. IsFiniteSet(Posting \ {s})
      BY Sizes, FS_RemoveElement
    <3>2. Cardinality(Posting \ {s}) \in Nat
      BY <3>1, FS_CardinalityType
    <3>3. Cardinality(Posting \ {s}) = Cardinality(Posting) - 1
      BY <2>1, Sizes, FS_RemoveElement
    <3> QED  BY <1>2, <2>1, <3>2, <3>3 DEF Numbers
  <2>5. /\ stats.sent + Cardinality(Posting) <= Tally
        /\ stats.failed + Cardinality(Posting) <= Tally /\ Tally \in Nat
    BY <1>2, TallyBounds
  <2>6. stats.sent + 1 <= Tally /\ stats.failed + 1 <= Tally
    BY <1>2, <2>4, <2>5 DEF Numbers
  <2> WITNESS -1 \in Int, 0 \in Int
  <2> QED  BY <1>2, <2>1, <2>3, <2>4, <2>6 DEF Numbers
<1> QED  BY <1>3, <1>4 DEF Senders

\* A POST is answered or fails for good, and its events are counted.
LEMMA OutcomeCounted ==
    ASSUME TypeOK, Counted, Apart, crashes = 0, Cardinality(Events) <= MaxCount,
           NEW s \in Senders, send[s].pc = "post", send'[s].pc # "post",
           \A t \in Senders \ {s} : send'[t] = send[t], UNCHANGED <<call, queue>>,
           LET k == EventCount(send[s].batch)
           IN  \/ stats' = [stats EXCEPT !.sent = Plus(@, k)]
               \/ stats' = [stats EXCEPT !.failed = Plus(@, k)]
    PROVE  Cardinality(Begun)' = Tally'
<1> DEFINE k == EventCount(send[s].batch)
<1>1. PICK po \in Int, fl \in Int :
          /\ po + fl + k = 0
          /\ Cardinality(Posting)' = Cardinality(Posting) + po
          /\ Cardinality(InFlight)' = Cardinality(InFlight) + fl
          /\ k \in Nat /\ stats.sent + k <= Tally /\ stats.failed + k <= Tally
  BY PostEnds
<1>2. \/ stats' = [stats EXCEPT !.sent = Plus(@, k)]
      \/ stats' = [stats EXCEPT !.failed = Plus(@, k)]
  OBVIOUS
<1> HIDE DEF k
<1>3. Numbers /\ Tally \in Nat /\ Tally <= MaxCount /\ MaxCount \in Nat
  <2>1. Numbers /\ Tally \in Nat
    BY NumbersOK, TallyBounds
  <2> QED  BY <2>1, Sizes, ClientAssumption DEF Counted
<1>4. Plus(stats.sent, k) = stats.sent + k /\ Plus(stats.failed, k) = stats.failed + k
  <2>1. /\ stats.sent \in Nat /\ stats.failed \in Nat /\ k \in Nat
        /\ stats.sent + k <= MaxCount /\ stats.failed + k <= MaxCount
    <3>1. stats.sent \in Nat /\ stats.failed \in Nat
      BY <1>3 DEF Numbers
    <3>2. /\ stats.sent + k <= Tally /\ stats.failed + k <= Tally
          /\ Tally <= MaxCount
      BY <1>1, <1>3
    <3> HIDE DEF k
    <3> QED  BY <1>1, <1>3, <3>1, <3>2
  <2> QED  BY <2>1, PlusCounts
<1>5. \E se, fa \in Int : se + fa = k /\ Adds(0, po, 0, fl, 0, se, fa)
  <2>1. /\ Cardinality(Entering)' = Cardinality(Entering) + 0
        /\ Len(queue)' = Len(queue) + 0
    <3>1. Entering' = Entering
      BY DEF Entering
    <3> QED  BY <1>3, <3>1 DEF Numbers
  <2>2. CASE stats' = [stats EXCEPT !.sent = Plus(@, k)]
    <3>1. /\ stats'.sent = stats.sent + k /\ stats'.dropped = stats.dropped + 0
          /\ stats'.failed = stats.failed + 0
      BY <1>3, <1>4, <2>2 DEF TypeOK, Numbers
    <3>2. k + 0 = k /\ k \in Int /\ 0 \in Int
      BY <1>1
    <3> QED  BY <1>1, <2>1, <3>1, <3>2 DEF Adds
  <2>3. CASE stats' = [stats EXCEPT !.failed = Plus(@, k)]
    <3>1. /\ stats'.failed = stats.failed + k /\ stats'.dropped = stats.dropped + 0
          /\ stats'.sent = stats.sent + 0
      BY <1>3, <1>4, <2>3 DEF TypeOK, Numbers
    <3>2. 0 + k = k /\ k \in Int /\ 0 \in Int
      BY <1>1
    <3> QED  BY <1>1, <2>1, <3>1, <3>2 DEF Adds
  <2> QED  BY <1>2, <2>2, <2>3
<1>6. PICK se \in Int, fa \in Int : se + fa = k /\ Adds(0, po, 0, fl, 0, se, fa)
  BY <1>5
<1>7. Tally' = Tally + 0 + po + 0 + fl + 0 + se + fa
  <2>1. Numbers /\ Adds(0, po, 0, fl, 0, se, fa) /\ 0 \in Int
    BY <1>3, <1>6
  <2> QED  BY <2>1, TallyAdds
<1>8. Begun' = Begun
  BY DEF Begun
<1> QED  BY <1>1, <1>3, <1>6, <1>7, <1>8 DEF Counted

\* A failed attempt is made again, and nothing is counted, or it is the last.
LEMMA FailedAttempt ==
    ASSUME TypeOK, NEW s \in Senders, NEW retryable \in BOOLEAN,
           send[s].pc = "post", FailAttempt(s, retryable)
    PROVE  \/ /\ send'[s].pc = "post" /\ send'[s].batch = send[s].batch
              /\ UNCHANGED stats
           \/ /\ send'[s].pc # "post"
              /\ stats' = [stats EXCEPT !.failed =
                                        Plus(@, EventCount(send[s].batch))]
<1>1. send \in [Senders -> Frames]
  BY DEF TypeOK
<1>2. CASE MayRetry(s, retryable)
  <2>1. send' = [send EXCEPT ![s].attempt = @ + 1] /\ UNCHANGED stats
    BY <1>2 DEF FailAttempt
  <2>2. send'[s] = [send[s] EXCEPT !.attempt = @ + 1]
    BY <1>1, <2>1
  <2>3. send'[s].pc = send[s].pc /\ send'[s].batch = send[s].batch
    BY <1>1, <2>2 DEF Frames
  <2> QED  BY <2>1, <2>3
<1>3. CASE ~MayRetry(s, retryable)
  <2>1. /\ send' = [send EXCEPT ![s].pc = AfterFailure(retryable)]
        /\ stats' = [stats EXCEPT !.failed = Plus(@, EventCount(send[s].batch))]
    BY <1>3 DEF FailAttempt
  <2>2. AfterFailure(retryable) # "post"
    BY DEF AfterFailure
  <2>3. send'[s] = [send[s] EXCEPT !.pc = AfterFailure(retryable)]
    BY <1>1, <2>1
  <2>4. send'[s].pc # "post"
    BY <1>1, <2>2, <2>3 DEF Frames
  <2> QED  BY <2>1, <2>4
<1> QED  BY <1>2, <1>3

LEMMA SendCounted ==
    ASSUME TypeOK, Counted, Apart, crashes = 0, Cardinality(Events) <= MaxCount,
           NEW s \in Senders, SendStep(s)
    PROVE  Cardinality(Begun)' = Tally'
<1>1. /\ send \in [Senders -> Frames] /\ Worker \in Senders
      /\ Sync \subseteq Senders
  BY ClientAssumption DEF TypeOK, Senders
<1>2. /\ UNCHANGED <<call, queue>> /\ \A t \in Senders \ {s} : send'[t] = send[t]
  BY SenderFacts
<1>3. ASSUME send'[s].pc = "post" <=> send[s].pc = "post",
             send'[s].batch = send[s].batch, UNCHANGED stats
      PROVE  Cardinality(Begun)' = Tally'
  <2>1. Begun' = Begun /\ Entering' = Entering
    BY <1>2 DEF Begun, Entering
  <2>2. \A t \in Senders : /\ send'[t].pc = "post" <=> send[t].pc = "post"
                           /\ send'[t].batch = send[t].batch
    BY <1>2, <1>3
  <2>3. Posting' = Posting /\ InFlight' = InFlight
    BY <1>1, <2>2 DEF Posting, InFlight
  <2> QED  BY <1>2, <1>3, <2>1, <2>3, StillCounted
<1>4. CASE Answered(s)
  <2>1. /\ send[s].pc = "post"
        /\ stats' = [stats EXCEPT !.sent = Plus(@, EventCount(send[s].batch))]
        /\ \E p \in {"remove", "sent", "rejected"} :
               send' = [send EXCEPT ![s].pc = p]
    BY <1>4 DEF Answered, AnswerOf
  <2>2. send'[s].pc # "post"
    <3> PICK p \in {"remove", "sent", "rejected"} : send' = [send EXCEPT ![s].pc = p]
      BY <2>1
    <3>1. send'[s] = [send[s] EXCEPT !.pc = p]
      BY <1>1
    <3> QED  BY <1>1, <3>1 DEF Frames
  <2> QED  BY <1>2, <2>1, <2>2, OutcomeCounted
<1>5. CASE FailedPost(s)
  <2>1. send[s].pc = "post"
    BY <1>5 DEF FailedPost
  <2>2. PICK retryable \in BOOLEAN : FailAttempt(s, retryable)
    BY <1>5 DEF FailedPost, Unreachable, Status4xx, AnswerLost
  <2>3. CASE /\ send'[s].pc = "post" /\ send'[s].batch = send[s].batch
             /\ UNCHANGED stats
    BY <1>3, <2>1, <2>3
  <2>4. CASE /\ send'[s].pc # "post"
             /\ stats' = [stats EXCEPT !.failed =
                                       Plus(@, EventCount(send[s].batch))]
    BY <1>2, <2>1, <2>4, OutcomeCounted
  <2> QED  BY <2>1, <2>2, <2>3, <2>4, FailedAttempt
<1>6. CASE RemoveSent(s)
  <2>1. /\ send[s].pc = "remove" /\ UNCHANGED stats
        /\ send' = [send EXCEPT ![s].pc = AnswerOf(s)]
    BY <1>6 DEF RemoveSent, callVars
  <2>2. AnswerOf(s) # "post"
    BY DEF AnswerOf
  <2>3. send'[s] = [send[s] EXCEPT !.pc = AnswerOf(s)]
    BY <1>1, <2>1
  <2>4. send'[s].pc # "post" /\ send'[s].batch = send[s].batch
    BY <1>1, <2>2, <2>3 DEF Frames
  <2> QED  BY <1>3, <2>1, <2>4
<1> QED  BY <1>4, <1>5, <1>6 DEF SendStep

\* The worker takes a batch out of the buffer: as many events as it leaves fewer.
LEMMA DrainCounted ==
    ASSUME TypeOK, Control, Apart, Counted, crashes = 0, DrainBatch
    PROVE  Cardinality(Begun)' = Tally'
<1> DEFINE a == Drained(queue, BatchSize)
           b == Remainder(queue, BatchSize)
<1>1. /\ queue \in Seq(Events) /\ queue # <<>> /\ BatchSize \in Nat
      /\ send \in [Senders -> Frames] /\ Worker \in Senders /\ Worker \notin Sync
      /\ Sync \subseteq Senders
  BY ClientAssumption, BufferAssumption DEF TypeOK, Senders, DrainBatch
<1>2. /\ queue' = b /\ UNCHANGED <<call, stats>> /\ InFlight = {}
      /\ send' = [send EXCEPT ![Worker] = [pc |-> "post", batch |-> Content(a),
                                           attempt |-> 0]]
  BY DEF DrainBatch, StartSend, Control, InFlight, workerRest, callVars
<1>3. a \in Seq(Events) /\ b \in Seq(Events) /\ a \o b = queue
      /\ Len(queue) = Len(a) + Len(b)
  BY <1>1, DrainJoins
<1> HIDE DEF a, b
<1>4. Distinct(a)
  BY <1>3, ConcatCounts DEF Apart
<1>5. InFlight' = Content(a) /\ Posting' = Posting
  BY <1>1, <1>2 DEF InFlight, Posting
<1>6. Cardinality(InFlight)' = Len(a) /\ Cardinality(InFlight) = 0
  BY <1>2, <1>3, <1>4, <1>5, DistinctCardinality, FS_EmptySet
<1>7. Begun' = Begun /\ Entering' = Entering
  BY <1>2 DEF Begun, Entering
<1>8. Numbers /\ Tally \in Nat
  BY NumbersOK, TallyBounds
<1>9. Len(a) \in Nat /\ Len(b) \in Nat /\ 0 - Len(a) \in Int
  BY <1>3
<1>10. Adds(0, 0, 0 - Len(a), Len(a), 0, 0, 0)
  <2>1. Len(queue)' = Len(queue) + (0 - Len(a))
    BY <1>2, <1>3, <1>9
  <2>2. Cardinality(InFlight)' = Cardinality(InFlight) + Len(a)
    BY <1>6, <1>9
  <2>3. /\ Cardinality(Entering)' = Cardinality(Entering) + 0
        /\ Cardinality(Posting)' = Cardinality(Posting) + 0
        /\ stats'.dropped = stats.dropped + 0 /\ stats'.sent = stats.sent + 0
        /\ stats'.failed = stats.failed + 0
    BY <1>2, <1>5, <1>7, <1>8 DEF Numbers
  <2> QED  BY <2>1, <2>2, <2>3 DEF Adds
<1>11. Tally' = Tally + 0 + 0 + (0 - Len(a)) + Len(a) + 0 + 0 + 0
  <2>1. 0 \in Int /\ Len(a) \in Int
    BY <1>9
  <2> QED  BY <1>8, <1>9, <1>10, <2>1, TallyAdds
<1> QED  BY <1>7, <1>8, <1>9, <1>11 DEF Counted

LEMMA CountedStep ==
    ASSUME ~UseOutbox, Cardinality(Events) <= MaxCount,
           TypeOK, Control, Apart, Counted, [Next]_vars
    PROVE  Counted'
<1>1. /\ Worker \in Senders /\ Worker \notin Sync /\ Sync \subseteq Senders
      /\ Sync \subseteq Events /\ send \in [Senders -> Frames]
  BY ClientAssumption DEF TypeOK, Senders
<1>2. CASE Crash
  <2>1. crashes' = crashes + 1 /\ crashes \in Nat
    BY <1>2, ClientAssumption DEF Crash, TypeOK
  <2> QED  BY <2>1 DEF Counted
<1>3. CASE ~Crash
  <2>1. crashes' = crashes
    BY <1>3 DEF Next, Stopped, CallStep, SendStep, WorkerStep, FlushStep, CloseStep,
          Refuse, Prepare, Persist, Push, Announce, SyncReturn, Answered, FailedPost,
          RemoveSent, CheckLength, DrainBatch, DrainEmpty, QueueBatchDone, PeekBatch,
          PeekEmpty, PeekFails, OutboxBatchDone, Finish, TakeNotify, Tick, TakeClose,
          TakeFlush, CallFlush, ExpireFlush, FlushReply, FlushTimeout, FlushClosed,
          FlushReturns, CloseFlag, CloseAgain, CloseTimeout, CloseSignal, CloseDone,
          callerRest, workerRest, boundVars, vars
  <2> SUFFICES ASSUME crashes = 0  PROVE Cardinality(Begun)' = Tally'
    BY <2>1 DEF Counted
  <2>2. ASSUME NEW e \in Events, CallerStep(e)  PROVE Cardinality(Begun)' = Tally'
    <3>1. ~Persist(e)
      BY DEF Persist, Control
    <3> QED  BY <2>2, <3>1, RefuseCounted, PrepareCounted, PushCounted, ReturnCounted
             DEF CallerStep
  <2>3. ASSUME NEW e \in Sync, SyncReturn(e)  PROVE Cardinality(Begun)' = Tally'
    BY <1>1, <2>3, ReturnCounted
  <2>4. ASSUME NEW s \in Senders, SendStep(s)  PROVE Cardinality(Begun)' = Tally'
    BY <2>4, SendCounted
  <2>5. CASE WorkerMove /\ ~DrainBatch
    <3>1. UNCHANGED <<call, stats, queue>>
      BY <2>5 DEF WorkerMove, WorkerStep, CheckLength, DrainEmpty,
            QueueBatchDone, PeekBatch, PeekEmpty, PeekFails, OutboxBatchDone,
            Finish, TakeNotify, Tick, TakeClose, TakeFlush, workerRest, callVars
    <3>2. \/ send' = send
          \/ send' = [send EXCEPT ![Worker] = IdleSend] /\ send[Worker].pc # "post"
      BY <2>5 DEF WorkerMove, WorkerStep, CheckLength, DrainEmpty,
            QueueBatchDone, PeekBatch, PeekEmpty, PeekFails, OutboxBatchDone,
            Finish, TakeNotify, Tick, TakeClose, TakeFlush, Control, Answers
    <3>3. Posting' = Posting /\ InFlight' = InFlight
      <4>1. CASE send' = send
        BY <4>1 DEF Posting, InFlight
      <4>2. CASE send' = [send EXCEPT ![Worker] = IdleSend] /\ send[Worker].pc # "post"
        <5>1. send'[Worker].pc # "post" /\ \A s \in Sync : send'[s] = send[s]
          BY <1>1, <4>2 DEF IdleSend
        <5> QED  BY <4>2, <5>1 DEF Posting, InFlight
      <4> QED  BY <3>2, <4>1, <4>2
    <3>4. Begun' = Begun /\ Entering' = Entering
      BY <3>1 DEF Begun, Entering
    <3> QED  BY <3>1, <3>3, <3>4, StillCounted
  <2>6. CASE FlushMove \/ CloseMove \/ UNCHANGED vars
    <3>1. UNCHANGED <<call, queue, send, stats>>
      BY <2>6 DEF FlushMove, CloseMove, CallFlush, ExpireFlush, FlushStep, FlushReply,
            FlushTimeout, FlushClosed, FlushReturns, CloseFlag, CloseAgain,
            CloseTimeout, CloseStep, CloseSignal, CloseDone, callerRest, vars,
            callVars
    <3>2. /\ Begun' = Begun /\ Entering' = Entering /\ Posting' = Posting
          /\ InFlight' = InFlight
      BY <3>1 DEF Begun, Entering, Posting, InFlight
    <3> QED  BY <3>1, <3>2, StillCounted
  <2> QED  BY <1>3, <2>2, <2>3, <2>4, <2>5, <2>6, DrainCounted, WhoSteps
<1> QED  BY <1>2, <1>3

\* client.go:175-196, 343-344, 464-467: until the process dies, the counters
\* account for every call once.  The bound on the counters is no smaller than
\* the number of calls; after a crash they start again at 0.
THEOREM CallsAreCounted ==
    ASSUME ~UseOutbox, Cardinality(Events) <= MaxCount
    PROVE  Spec => [](crashes = 0 => EveryCallCounted)
<1>1. Init => Counted
  <2> SUFFICES ASSUME Init  PROVE Counted
    OBVIOUS
  <2>1. /\ \A e \in Events : call[e] = "idle"
        /\ \A s \in Senders : send[s].pc = "idle"
        /\ Sync \subseteq Senders /\ Worker \in Senders /\ queue = <<>>
        /\ stats.dropped = 0 /\ stats.sent = 0 /\ stats.failed = 0
    BY DEF Init, IdleSend, Senders
  <2>2. Begun = {} /\ Entering = {} /\ Posting = {} /\ InFlight = {}
    BY <2>1 DEF Begun, Entering, Posting, InFlight
  <2>3. Cardinality({}) = 0 /\ Len(<<>>) = 0
    BY FS_EmptySet
  <2>4. Tally = 0 + 0 + 0 + 0 + 0 + 0 + 0
    BY <2>1, <2>2, <2>3 DEF Tally
  <2> QED  BY <2>2, <2>3, <2>4 DEF Counted
<1>2. TypeOK /\ Control /\ Apart /\ Counted /\ [Next]_vars => Counted'
  BY CountedStep
<1>3. Counted => (crashes = 0 => EveryCallCounted)
  BY DEF Counted, Tally, Begun, Entering, Posting, EveryCallCounted
<1> QED  BY <1>1, <1>2, <1>3, TypeCorrect, NilInvariant, ApartInvariant, PTL DEF Spec
=============================================================================
