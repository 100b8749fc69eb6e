# A TLA+ verification of logcenter-sdk-go

The SDK collects events in a Go program (logs, errors, audits, requests,
operations, spans) and delivers them to an ingest API. The core is a client
with a bounded in-memory buffer, one worker goroutine that sends batches, an
optional durable outbox file and an optional chain of hashes over the events.
This directory models that core in TLA+, checks it with TLC on small instances
and proves the properties that matter most with TLAPS for every instance.

Paths below are relative to the repository; `client.go` and the like stand for
`logcenter/client.go`.

## 1. Inventory

| Component | State | Operations | Interacts with |
| --- | --- | --- | --- |
| Local buffer, `queue.go` | `events` (at most `capacity`), under `mu` | `push`, `drain`, `len` | pushed by every caller, drained by the worker |
| Client, `client.go` | `closed`, `notify` (one token), `flushes` (rendezvous), `closeCh`, `done`, `once` | `SendEvent`, `SendEventSync`, `Flush`, `Close`, `run` | buffer, outbox, tamper evidence, counters, hooks, the API |
| Durable outbox, `outbox.go` | a JSONL file, under `mu` | `Append`, `Peek`, `Remove` | `Append` by callers, `Peek` and `Remove` by the worker, `Remove` also by `SendEventSync` |
| Tamper evidence, `tamper.go` | `sequence`, `previousHash` under `mu`; a state file | `Apply`, `loadState`, `saveState` | called by `prepareEvent` of every caller |
| Lifecycle, `request.go`, `operation.go`, `span.go`, `context.go` | per object the ids captured at the start, `ended`, the span's error, under `mu`; contexts are values | `Start*`, `End*`, `Step*`, `RecordError` | `enqueue` |
| Middlewares, `http.go`, `integrations/gin/gin.go` | the status recorder, `c.Request` | the chain around a handler, `Recovery`, `Set*` | lifecycle |
| Counters and health, `stats.go`, `health.go` | atomics, `lastError` | `snapshot`, `Health` | written by all |
| Hooks, `hooks.go` | none | `callHook` | run on the goroutine that failed, the worker included |
| Preparation, `redaction.go`, `limit.go`, `validation.go` | none | `redactEvent`, `limitEvent`, `ValidateEvent` | `prepareEvent` of every caller |
| Builders, `logging.go`, `external_provider_exchange.go` | none | make an `Event` of their arguments | `SendEvent` |
| Body capture, `bodycapture.go` | the request's `Body` | read up to a limit, put back | middlewares, Gin's `Recovery` |
| RoundTripper, `roundtripper.go` | none | `RoundTrip` | `RecordError`, `enqueue` |
| The rest: `config.go`, `env.go`, `types.go`, `id*.go`, `examples/` | none | build values | |

What is hard in this code, and what each part must get right:

- **Buffer.** A full buffer gives up debug before info before anything else; no
  event is doubled by the in-place replacement or the copy in `drain`.
- **Client.** Callers, flushers, closers and the worker meet at one mutex, two
  channels and an atomic. A wake-up must not be lost, `Flush` and `Close` must
  return and mean what they say, every event must be counted once, and a retry
  must not send what was answered.
- **Outbox.** It is written by callers while the worker rewrites it, and it is
  there for crashes: what was appended must stay until it was answered, what was
  removed must stay removed, and a torn line must not take others with it.
- **Tamper evidence.** Memory, file and the events that leave move at different
  moments, and each of the steps between can fail or be the last one.
- **Counters, hooks, health.** Eleven values are written one by one by all
  goroutines and read one by one: only the order of writes and reads makes a
  snapshot tell something. Hooks call back into the client.
- **Preparation.** Defaults, redaction, limits, evidence and validation each
  undo or rely on what another did; their order decides whether a secret, an
  idempotency key or a limit survives.
- **Body capture.** The body is consumed by the capture, the handler and
  `Recovery`, and each must leave the next one the rest of it.
- **Lifecycle.** Objects are shared by goroutines and ended with contexts of
  another moment; a panic skips code.

`PROJECT.json` lists every hazard at its line with the properties that cover it.

## 2. Modules

| Module | Models | Notes |
| --- | --- | --- |
| `EventBuffer` | the operations of `eventQueue` as operators on sequences | an event is its class: debug, info, important |
| `EventQueue` | `eventQueue` as a component | extends `EventBuffer`; one action per branch of `push`, one for `drain` |
| `PriorityBuffer` | what the buffer promises | a bounded set without order; `EventQueue` implements it (`ImplementsPromise`) |
| `LogCenterClient` | `client.go` over the buffer, the outbox and the API | extends `EventBuffer` |
| `DurableOutbox` | `outbox.go` down to its file operations | |
| `TamperEvidence` | `tamper.go` and its use by `client.go` | |
| `RequestLifecycle` | middlewares, requests, operations, spans, round trips, contexts | |
| `EventPreparation` | `redaction.go`, `limit.go`, `validation.go`, the defaults of `client.go` | operators on one event |
| `EventBuilders` | `logging.go`, `external_provider_exchange.go`, context fields | extends `EventPreparation` |
| `BodyCapture` | `bodycapture.go` | operators on one body |
| `EventReporting` | `stats.go`, `hooks.go`, `health.go`, and `prepareEvent` step by step | extends `EventPreparation` and `BodyCapture` |
| `MC*` | instances for TLC | symmetry sets, and the calls of the run `reporting` |
| `*_proofs` | theorems | `EventBuffer`, `EventQueue`, `LogCenterClient`, `DurableOutbox`, `TamperEvidence`, `RequestLifecycle`, `EventReporting`; `PreparedEvents_proofs` for the contents of events in `EventReporting` |

Operators whose name tells a mistake (`RemainderKeepsLast`, `VictimInfoFirst`,
`ErrorBeforeCount`, `LimitsFirst`, ...) are not part of any specification: each
is a plausible bug of the operator it stands before, and `PROJECT.json` pairs it
with a property that fails when it is put in its place.

### LogCenterClient

A step is one access to shared state: a mutex-protected call, an atomic, a
channel operation, one POST. Each event is the argument of one call, made by its
own goroutine; `call[e]` is its program counter:

```
SendEvent      idle -Prepare-> persist -Persist-> push -Push-> announce -Announce-> true
               idle -Refuse-> false            push -Push-> false
SendEventSync  idle -Prepare-> sync (POST, retries, Remove) -SyncReturn-> nil | error
               sync -SyncReturn-> keep -Persist-> error
```

The `closed` flag is read at `Prepare`, as in `enqueue`, and not again. `worker`
holds the program counter of `run`/`sendQueued`/`sendOutbox` and the job that
made it drain (`tick` also stands for a notification); `send[s]` is the frame of
`sendBatchInternal`, for the worker and for each `SendEventSync`. `flush[f]` and
`close[c]` are the callers of `Flush` and `Close`; `flush[f].expired` is the end
of the context, which the caller and the POSTs of the worker notice in any
order. A POST ends answered, unreachable, refused by a status, or taken by the
API with its answer lost. `Crash` is the end of the process followed by
`NewClient`; only the outbox and the API remember.

The outbox is the set of the events that can be read, with the number of their
line; `torn` says that its last line was cut short, so that the next `Append`
is glued to it. `Remove` and a crash may be interrupted inside `replaceFile`
(`Interrupted`): then no outbox is left. `lost` is the history of the events
that went either way. The file operations one by one are in `DurableOutbox`, and
so is a line cut right before its newline, which can be read until the next
write; here a cut line cannot be read.

Abstractions: redaction, limits, validation and tamper evidence are the choice
of `Invalid` events (`EventReporting` has them); sizes are the set `Oversized`
of the sets of events that exceed `MaxBatchBytes` together; an API rejection is
the set `Rejected`. A batch is the set of its events. A `disabled` client does
nothing and is left out; hooks are the history `fate` (again `EventReporting`
has the calls). The endpoint and the key are set.

### DurableOutbox

The file is a sequence of lines, each whole or garbage, ended or not. `Append`
and `Peek` are one step, since the mutex is held and their effect is one write
or none; a write cut short leaves a last line that is not ended, to which the
next write is glued. `Remove` is copy, `os.Remove`, `os.Rename`, with a failure or a
crash in between; where `replaceFile` is interrupted, the lines that were to stay
are `lost`. The temporary file of a `Remove` is deleted when an operation fails,
by an `os.Remove` whose error is ignored, and by nobody after a crash:
`newDurableOutbox` looks for none. `orphans` counts those that stay on the disk;
nothing reads them again. A crash is the end of the process, not of the machine:
nothing is synced in the code, and the model does not lose completed writes.

### TamperEvidence

`Apply` holds the mutex through `saveState`, so the model blocks other calls
while one is `saving` or `replacing`. The hash of an evidence stands for its
event. `gap` records that a process started without a state file after events
had left: the window of `replaceFile` (`outbox.go:165-173`), which the run
`replace` shows for the outbox, is the same here. The properties are silent where
the code promises nothing: `ChainHoldsAcrossRestarts` about what follows a start
with the file missing, and about the events of a process whose state file could
not be read, which leave without evidence. `Apply` reads and advances the
sequence in one step, since both are under the mutex: that it is held while
the sequence moves is taken from the code; that it is held until the file is
saved is what `StateCoversEmitted` depends on.

### RequestLifecycle

One request through `HTTPMiddleware` or through Gin's `Middleware`, in which a
panic may be recovered by `Recovery` or end the request, and calls of
`StartOperation`, `StartSpan` and `RoundTrip`. Contexts are values, and any call
takes any of them: `Start*`, `EndWithContext`, `StepWithContext` and
`SetRequestContext` of Gin. `ContextWithIDs` makes more of them, with ids set by
`ContextWithRequestID`, `ContextWithTraceID` or `ContextWithSpanID`, whose ids
may be those of another call.

A call is one step: what goroutines share of an object is read and written in
one critical section (`ended`, the span's error), and the event is built from
what was read there; the order in which events reach the buffer is not modelled
here. `StartTrip` hands the context of the new span to the transport inside, so
that a trip can be the parent of what happens there; `EndTrip` sends the span
and, when the transport returned an error, an `error_event`
(roundtripper.go:98-108); a status of 500 and above makes none.

`path` and `hand` in a context are history: the calls it went through since it
was empty or an id was set by hand, and whether such ids are where it begins.
`foreign` in an event says that a context of another trace, or one with ids set
by hand, was merged into it: `OneTrace` is about the others, since the code lets
the last context win (operation.go:236-263). User, tenant and operation names go
from a context into an event and are left out, with `SetIdentity` and
`SetOperation`, and so are durations and payloads. The options that set ids of
an operation do what setting them in its context first does. What the response
writers of `net/http` and Gin do is external: `net/http` keeps the first header,
Gin ignores a status once the header is out.

### EventPreparation and EventBuilders

`prepareEvent` (client.go:201-222) as operators, in its order: `WithDefaults`,
`RedactEvent`, `LimitedForms` with `LimitError`, `Sealed`, `Validate`. A text is
a sequence of runes and a rune is a string: `w` takes two bytes, `_` is white
space, `x` is what the regular expressions of `RedactString` match, two adjacent
`s` are a sensitive fragment of a key, and `k` alone is the text that is valid
wherever an enumeration is asked for, `t` where a time is. `.~` stands for
`...[TRUNCATED]`, `RRR` for the redacted value. Maps and lists nest once. A
value of kind `typed` is one that `RedactValue` and `limitValue` return as it is
by their default case: a `map[string]string`, a struct, a pointer, a slice of
either. It has keys and texts, which JSON sees and these two do not; the code
masks it as a whole under a sensitive key, and replaces the field it stands in
when that is over its limit. Sizes
are counted without the punctuation of JSON, so the limits of the run are those
of the model's sizes and not of the code's. `LimitedForms` is a set: when two
keys are equal once cut, the map keeps the value the iteration reached last.
`Validate` lists the checks of each event type in the order of the code and
names the first that fails.

`EventBuilders` makes the events of `log`, `RecordError`, `Audit`, an exchange
and the middlewares out of their arguments.

### BodyCapture

`readAndRestoreBody` reads through a `LimitReader` of one byte more than the
maximum and puts the bytes back in front of the rest. The addition of one is
that of `int64`: the largest maximum wraps around and nothing is read. `!` in a
body is a read error.

### EventReporting

Every goroutine runs a list of steps, each one access to shared state, in the
order of the source, and between lists it is at a decision:

```
Begin (defaults, redaction, limits)
  closed           count dropped, hook
  limit error      count dropped, set LastError, hook
  truncated        count truncated, hook        ┐
  as it was                                     ┴-> Seal (evidence, validation)
Seal               refused: count dropped, set LastError, hook
                   taken: -> Push | SendSync
Push               count queued; or count dropped, hook, and for a replacement count queued
SendSync, SendBatch   failed:   count batch, events, set LastError, hook
                      answered: count batch, events, accepted, duplicated, rejected,
                                hook per rejected event, and for SendSync set LastError
Health             read LastError, then the ten counters in their order
```

`setError` takes `counters.mu`, compares and stores, releases it, and then calls
`OnErrorChanged`: these are the steps `setError`, `unlock` and `tell`. Every
hook is set and calls `Stats()`, so a `tell` waits for the mutex; TLC's check
for deadlocks is the check that nobody waits for itself. Hooks that call
anything else are not modelled: a `Flush` without a timeout in `OnBatchFailed`
would wait for the worker that runs the hook. A rejection of the API is a
number, and so is the buffer. That the answer agrees with itself is assumed of
the API: one entry in `errors` for each rejected event, and counters that add up
to the batch. The code adds the counters as they come and calls
`OnEventRejected` for each entry (client.go:343-352, 525-541) without comparing
them, so `FailureDegradesHealth` holds for such answers only. Retries and the
outbox are in `LogCenterClient`; errors of the outbox are left out here, because
they set `LastError` without counting anything (client.go:375, 486, 495) and
nothing is promised of them. `report` holds what a `Health` call has read so
far, `due` and `passed` are history.

## 3. Runs

| Run | Instance | States | Shows |
| --- | --- | --- | --- |
| `buffer` | 6 events of 3 classes, capacity 2 | 55 thousand | `EveryPushAccounted`, `ImportantLostOnlyByOverload`, `OrderKept`, `InfoReplacedLast`, and the refinement `ImplementsPromise` |
| `delivery` | 3 events, 1 flusher, 1 closer, buffer and batch of 2, 1 retry, 1 fault, no outbox | 4.1 million | `DroppedNeverSent`, `RepeatedOnlyAfterLostAnswer`, `EveryCallCounted`, `NoLostWakeup`, `CloseLeavesNothing` |
| `outbox` | an event sent and one sent synchronously and rejected, too large for a batch together, 1 flusher, 1 retry, 1 fault, 1 crash, outbox, fairness | 351 thousand | `OutboxKeepsUntilAnswered`, `FlushOkLeavesNothing`, `PersistedEventuallyAnswered` |
| `live` | 1 event below a batch, 1 flusher, 1 closer, 1 fault, 1 crash, outbox, fairness | 252 thousand | `BufferedEventuallyTaken`, `FlushEventuallyReturns`, `CloseEventuallyReturns` |
| `outbox_file` | 3 events, 2 cut writes, 2 faults, a crash, fairness of the worker | 523 thousand | `CutCostsOneEvent`, `RemovedStaysRemoved`, `AckedEventuallySent` |
| `tamper` | 4 events, 2 faults, 2 restarts | 22 thousand | `ChainHoldsInProcess`, `ChainHoldsAcrossRestarts`, `StateCoversEmitted` |
| `lifecycle` | a request through 2 chains, 2 operations, spans or round trips, 1 step, 1 context with an id set by hand | 2.1 million | `FinishedOnce`, `OneTrace`, `ParentIsNearestSpan`, `StatusIsSent` |
| `reporting` | 3 callers, buffer and batch of 2, the calls below | 195 thousand | `ErrorIsCounted`, `EventsWithinBatches`, `FailureDegradesHealth`, `HooksOutsideTheMutex`, `AcceptedFits`, `KeyedSecretsGone`, `KeyDecidesEvent`, `BodyKept` |

Every passing run but `live` and the refinement checks a type invariant or
shares its module with one that does.

Bounds, and why they are enough. Six pushes fill a buffer of two, replace in it
twice and overload it with important events. Three events against a batch of two
leave a rest below a batch and a replacement in a full buffer; one flusher and
one closer meet the worker at every point of its loop, and `Close` is called
again after a timeout, which takes the `once.Do` path of a second caller. One
fault with one retry gives a lost answer, a retry that succeeds, and a failed
batch; a flush whose context has ended fails without a fault. One crash is
enough for an outbox invariant about a single file: the restart is the initial
state with another file. The two events of `outbox` exceed `MaxBatchBytes`
together, so that the first batch of the outbox blocks whenever both are in it,
also after the restart; `PersistedEventuallyAnswered` is about the behaviours in
which it does not stay so, and `blocked` shows the others. Three lines give one
that is torn, one glued to it and one behind. Two calls below a request give
nesting, sharing of a context and unrelated contexts; three levels were too many
states for the middleware and the calls together. One context with an id set by
hand, on top of any other, suffices to bring a foreign id into each call. The
headers of its request bring a trace with a span and no request id, so that one
id is the caller's and one is made; the proofs are for any headers (`Headers`).

`reporting` starts in one of 93 scenarios: each of 38 events alone (every type,
whole and with each kind of fault: a missing or malformed field, a value that is
not JSON, a size over each limit, keys that collide or lose their fragment once
cut, secrets under keys and in named values, typed values under sensitive and
other keys and over a limit); the 25 pairs of five keys, among them one with
white space, two that are equal once cut, and one that is what another is cut
to; 24 requests whose body is captured before the handler and again by
`Recovery`, with each pair of limits, a read error and the largest `int64`; and
six in which callers, worker and a `Health` meet: two drops, a drop and a
delivery, two events and one for a full buffer, a rejected `SendEventSync` next
to a `Close`. One event per scenario suffices for `AcceptedFits` and
`KeyedSecretsGone`, since preparing an event touches nothing else; two events
suffice for keys; and one counter moving between two reads of a snapshot is all
its order can be wrong about. The branch of `truncate` for a limit shorter than
its suffix is modelled and not reached by this run; the proof covers it.

`MaxCount` only stops the counters and is above any value
they reach where a property reads them.

Deadlock is checked for the client, whose `Stopped` step is the closed client at
rest, and for `reporting`, where it is the answer to hooks that wait for the
mutex. `buffer`, `outbox_file`, `tamper` and `lifecycle` stop when their inputs
are used up and do not check it.

### Fairness

`live` uses weak fairness for every goroutine that can go on: the steps of a
call (`CallStep`), of a POST (`SendStep`), of the worker's loop (`WorkerStep`,
`Tick`), of a waiting `Flush` and of `Close`. `select` in Go picks among ready
cases uniformly at random and the rendezvous on `flushes` is one of them, so a
case that is ready again and again is taken: strong fairness for `TakeFlush` and
`TakeClose`. Nothing obliges a caller to call, a context to end, a fault or a
crash to happen, and no fairness covers them. Faults are bounded, so POSTs
succeed in the end: `PersistedEventuallyAnswered`, which `outbox` checks under the
same fairness, is about what happens then.
`outbox_file` assumes only that the worker goes on, because its ticks never
stop.

### Disagreements between the code and what is said of it

| Run | Property | What happens |
| --- | --- | --- |
| `dropped` | `FalseMeansDiscarded` | README:883. With an outbox, `enqueue` appends the event (client.go:187) before the full buffer refuses it (client.go:188): `SendEvent` returns `false`, and the event is sent from the outbox. |
| `blocked` | `FittingEventuallyAnswered` | README:1049. When the first lines of the outbox exceed `MaxBatchBytes` together, `sendOutbox` peeks the same lines at every tick and sends nothing any more, although each event fits alone. |
| `stranded` | `FlushNilSendsAll` | README:885. A call that passed the `closed` check pushes after the worker's last drain; `Flush` then returns nil through `done` with the event in the buffer. |
| `replace` | `AppendedStays` | README:1049. `replaceFile` removes the outbox before it renames the new one; a crash or a failing rename between loses the events that were to stay. |

More observations, which no run is spent on:

- `Flush` returns nil for a failed flush when the worker has also exited, since
  its second `select` may take `done` (client.go:137-144).
- A panic of a handler passes `HTTPMiddleware` and leaves a `request_started`
  alone (http.go:99-109); `FinishedOnce` states the finish for chains that
  recover inside.
- `SendEventSync` puts an event in the outbox only after a failed send
  (client.go:107-110), so README:1029 holds for `SendEvent` only.
- The event of `Span.End` has neither user, tenant nor operation, whatever the
  context holds (span.go:104-120); README:460-461 names the spans among what the
  setters enrich.
- A truncation is not counted when the event then exceeds `MaxEventBytes` or
  fails to be marshalled (client.go:206-213); README:221 says that all are.
- An exchange without payload and without a reason for the omission has no data,
  and validation drops it ("data is required").
- An `IdempotencyKey` over `MaxStringBytes` is cut while the `EventID` copied
  from it is not (limit.go), and validation refuses the event for the difference.
- The evidence enters the metadata after the limits: an accepted event may exceed
  `MaxMetadataBytes` and `MaxEventBytes` by it. `AcceptedFits` is about the
  event before.
- A value replaced by nil, for a placeholder that does not fit either, may make an
  audit or an exchange invalid.
- `OnEventDropped` gets the reason "validation" for an event over a limit, too.
- `RedactValue` does not look into a `[]string`, nor into any value that is not
  a `Fields`, a `map[string]any`, a `[]any`, a `[]Change` or a string
  (redaction.go:110-111). The password in a `map[string]string` or a struct
  passed as an `OldValue` is sent as it is, which README:958-967 does not say.
  What stands under a sensitive key is masked whatever its type:
  `KeyedSecretsGone`.
- Nor does `limitValue` cut the texts of such a value (limit.go:137-138), although
  README:214 gives `MaxStringBytes` for strings without an exception. The limits
  of the fields and of the event still bound it: `AcceptedFits`.
- A crash in `Remove` leaves its temporary file, with the events it holds, and so
  does an `os.Remove` of it that fails; nothing deletes or reads it later
  (outbox.go:18-23, 113).
- A snapshot may show more accepted than sent events, or more sent than queued:
  only the relations of the properties hold.
- Two goroutines that fail at once may call `OnErrorChanged` in the other order
  than they stored (client.go:543-554).

## 4. Proofs

`EventBuffer_proofs` holds lemmas on the buffer: `FirstIsLeast` (a nonempty
finite set of indexes has the least element that `First` names, from the
well-foundedness of finite subsets), `VictimIsDroppable`, `AppendStores`,
`ReplaceStores`, `DrainSplits` and `DrainJoins`, and on sequences without
repetitions (`Distinct`), which stay such when an event comes in that is not
there yet (`AppendCounts`, `PutCounts`), whose parts have no event in common
(`ConcatCounts`) and which are as long as they have events
(`DistinctCardinality`).

`LogCenterClient_proofs` proves, for any finite set of events, any callers, any
bounds, with and without an outbox:

- `TypeCorrect`: `Spec => []TypeOK`. The invariant is inductive as it stands.
  The points that need an argument are the length of the buffer (the lemmas
  above), the attempts of a frame (`MayRetry` is what keeps them within
  `RetryAttempts`) and the number of the next line (`Events` is finite).
- `OutboxKeeps`: `Spec => []OutboxKeepsUntilAnswered`: what was appended is in the
  outbox until an answer was read, or an interrupted replacement or a glued line
  took it, and that only after a fault or a crash. Not inductive: `RemoveSent`
  takes a batch out of the file and says nothing of an answer. The strengthening
  is `RemovesAnswered`: a frame that is about to remove holds only events for
  which an answer was read. `Answered` establishes it, no other step enters that
  state, and a crash empties the frames. `Costs` follows the second half: a line
  that is cut, and so the one glued to it, is the work of a fault or a crash, and
  so is an interrupted replacement.
- `WakeupKept`: `Spec => []NoLostWakeup`. Not inductive either: the worker
  returns to its `select` from several places. `Woken` says for each of them what
  is known of the buffer: it is empty after the last drain, shorter than a batch
  after the check, or some push is yet to announce itself or has left a token.

- `FlushOkIsTrue` and `CloseNilIsTrue`: `Spec => []FlushOkLeavesNothing` and
  `Spec => []CloseLeavesNothing`. When a `Flush` or `Close` begins, `before`
  takes the events whose `SendEvent` has returned true; such a call has passed
  the buffer and the outbox and never enters them again (`ReturnedStaysOut`,
  `Moves`), so all the worker does is take them away. `Taken` says how far it is:
  what its job has still to drain is in the buffer, then in its POST, then in the
  outbox, and nowhere once the answer nil is given. `Control` says which of
  `flush`, `close` and the worker's job go together, and `WhoSteps` which
  goroutine a step belongs to, so that each is followed once. A nil of `Close`
  says something of the process it was called in, which is why the property asks
  for `done`.
- `DroppedIsNotSent` and `RepeatedIsExplained`, without an outbox:
  `DroppedNeverSent` and `RepeatedOnlyAfterLostAnswer`. Both follow from `Apart`:
  buffer, POSTs, dropped and ingested events have nothing in common, but for a
  POST that is made again, whose events are among those with a lost answer. With
  an outbox `Apart` is false, as the run `dropped` shows.
- `CallsAreCounted`, without an outbox: `EveryCallCounted` until the process
  dies. `Counted` is the equation itself, inductive on `TypeOK`, `Control` and
  `Apart`: a step moves an event from one of the places to the next or into a
  counter, and each side changes by what is moved. That the sizes add up needs
  that no event is in two places (`Apart`) and that a drain takes as many from
  the buffer as it puts in a frame (`DrainJoins`); `Adds` and `PlaceMoves` are
  the arithmetic of one such move. The hypotheses are those under which the
  equation is meant: with an outbox a refused event is still sent, the counters
  start again at 0 after a crash, and `MaxCount`, which stands for no code, must
  not cap them below the number of calls.

Assumptions: those of the modules on their constants (`BufferAssumption`,
`ClientAssumption`), which say what `Config.normalized` (config.go:60-114)
establishes, that events are finitely many, and that the worker is none of them.

`EventQueue_proofs` proves, for any set of events, any capacity and any batch size:

- `TypeCorrect`: `Spec => []TypeOK`, with the bound on the buffer.
- `PushesAccounted`: `Spec => []EveryPushAccounted`. Inductive together with
  `TypeOK`: appending, replacing in place and draining are followed on the one
  sequence `out \o queue`, which a drain does not change (`DrainKeepsBoth`).
- `KeepsPromise`: `Spec => ImplementsPromise`, every step of `EventQueue` being a
  step of `PriorityBuffer` or a stutter (`PromiseStep`). The invariant above is
  what it rests on: without repetitions the length of the buffer, which the code
  compares with the capacity, is the number of events that the promise counts.
- `OrderIsKept`: `Spec => []OrderKept`. `Ordered` follows the line `out \o queue`:
  nothing stands twice in it or in the log of pushes, and what was not put into
  a slot of another stands as in the log.
- `ImportantIsKept`: `Spec => []ImportantLostOnlyByOverload`. A push that loses an
  important event is one refused by a buffer without a debug or info event, so
  that the log holds the `BufferSize` important events of the buffer and one more.
- `InfoGoesLast`: `Spec => InfoReplacedLast`, an action property, from
  `VictimIsDroppable`.

`DurableOutbox_proofs` proves, for any events, batch size, cuts, faults and
crashes: `TypeCorrect`, `CutsCostOneEvent` (`Spec => []CutCostsOneEvent`) and
`RemovedIsGone` (`Spec => []RemovedStaysRemoved`). Lemmas say what a write does to
the lines (`WrittenLines`: it adds one, or spoils the last one when that was not
ended) and what a copy does (`KeptLines`: it keeps what is not named and ends it).
For the latter the number of a line in the copy is its `Place` among the lines
copied, and `PlacesCount` shows that these are the numbers from one to their
count. A cut is not inductive by counting what is missing: the loss comes with
the next write. `Paid` counts an unended last line as a cut that has yet to cost
its event, and `Filed` knows that the event of such a line was never
acknowledged. `Removing` relates the temporary file to the file while one
replaces the other. `TypeCorrect` counts the temporary files that stay: each step
that leaves one has a failing deletion or a crash of its own to account for it,
and outside a `Remove` none of them is still to be deleted.

`TamperEvidence_proofs` proves, for any events, faults and restarts, with and
without a state file: `TypeCorrect`, `ChainInProcess`, `ChainAcrossRestarts` and
`StateIsNotBehind`, each `Spec => []` of the property of the run. The events that
have left are not inductive: what the next link is made of is in memory, and
after a restart in the file. The invariant adds that memory is not behind any
event on its way and names the last one (`Covers(mem, e)`), the same of the file
for the events it was saved for, and that the one event being saved is the last
in memory (`SavesTheLast`, which is what the mutex gives). `OneProcess` says so
per process, `AllProcesses` over all of them while no start missed the file.

`RequestLifecycle_proofs` proves, for any number of operations, spans, round
trips and steps, any headers, any ids set by hand and any way to hand contexts
around:

- `OneTraceEach`: `Spec => []OneTrace`. The events say nothing of the contexts a
  later call may merge. The invariant `Traced` does: a context carries the ids of
  the call its path begins with, or those that were set by hand, and every call on
  that path has started and begins where the path does. So a context made under a
  call has the ids of the call, and merging it in changes neither
  (`mergeRequestContext` only overwrites them with themselves); any other context
  with an id in it is `Foreign`, and `TracedEvent` says of the events which
  they are. Without that exception the statement is false of the code: a handler
  that ends an operation with the context of another sends the finish with the ids
  of the other. That different roots have different ids rests on
  `LifecycleAssumption`: what `newID` gives is no id of a header and no two calls
  get the same; a trace that began with ids set by hand may have any.
- `FinishesOnce`: a finish of a call means that it has ended, and two of them are
  one (`Finished`); the events carry the number of the end they are of, so that
  two equal ones would be seen.
- `StatusesAreSent`: once a header is out the recorded status is the sent one,
  unless `net/http` has ignored a code (`Agrees`).
- `ParentsAreNearest`: `Spec => []ParentIsNearestSpan`. The events again say
  nothing of what later calls hang under. `Hung` says it of the contexts: each
  carries the id of the innermost span of its path, or the one it began with
  where there is none; a span got its parent from such a context, and its event
  has that parent. That a call under another does not change what is innermost
  above it is `NearestKept`, that a new span becomes the innermost
  `NearestGrows`.
- `TypeCorrect`.

`EventReporting_proofs` proves, for any number of goroutines, any calls, limits
and sizes:

- `TypeCorrect`, whose argument is that a list of steps only ever holds known
  counters, errors and hooks.
- `HooksRunOutsideTheMutex`: whoever holds the mutex has `unlock` as its next
  step (`MutexHeld`).
- `EveryErrorIsCounted` and `FailuresDegradeHealth`. The invariant `Caused`
  follows the lists: when a `setError` or a `tell` is still to be run, what it
  tells of is counted already or stands before it in the list (`Announced`,
  `Before`); `LastError` and every hook that was called have a nonzero counter
  (`ToldHasCause`). A snapshot reads `LastError` first (`ReadInOrder`), so that
  the counters it reads afterwards can only be larger (`ReportHasCause`), and a
  `Health` that was due when it began will find a counter that is not zero
  (`DueIsShown`). The lists of the source (`DropLists`, `FailureList`,
  `AnswerList`, `SnapshotList`) are lemmas of their own, and so are taking the
  first step off a list and putting one before it.
- `EventsFitBatches`: `Spec => []EventsWithinBatches`. While a batch is being
  counted its events are not: at such a moment the difference between the two
  counters is larger by `BatchSize` for every goroutine that is about to add the
  events (`Owing`, `Covered`). That it owes them at all is the order of its list
  (`AfterBatch`). A snapshot has read the events before it reads the batches
  (`ReadsEventsFirst`), and what it has read stays within the batches counted by
  now (`ReportWithin`).

`PreparedEvents_proofs`, about the same specification, for any events, texts and
limits:

- `KeysDecideEvents`: an event without an id that brings a key keeps the trimmed
  key as its id through redaction and every form the limits may give it
  (`PreparedKeyed`).
- `AcceptedEventsFit`: `Spec => []AcceptedFits`. `PrefixFits` says that
  `validStringPrefix` ends before the last rune that fits, from what the size of a
  prefix grows by with each rune (`BytesGrow`), and `TruncateCuts` that
  `limitString` is as `Cut` says. It includes the limit shorter than the suffix,
  which the run does not reach. That each text of a limited value is a truncated
  one is `LimitedTexts`, whichever of two colliding keys stays. Of the texts of a
  typed value it says what the limits of its field and of the event say, no more;
  `Cut` and `MaxStringBytes` are about the texts that `limitValue` sees.
- `SecretsAreGone`: `Spec => []KeyedSecretsGone`, from `SecretsAssumption`: in the
  events passed in, a secret stands under sensitive keys only, and no request body
  holds one. What redaction leaves of a value is what no sensitive key named
  (`ShownTexts`, and `ShownUnseen` for what stands in typed values), and masking and
  cutting add no rune but those of the mask and the suffix (`RedactedRunes`,
  `TruncateCuts`), nor anything to a typed value (`LimitedUnseen`). A key inside a
  typed value is none that redaction sees: the assumption excludes secrets that
  only such a key names, which the code sends.
- `BodiesAreKept`: what the handler has read and what is left is the body, by
  cases on where `ReadLimited` stops (`RestoredIsBody`).

The invariants are `Contents`, that what is on its way to the buffer and what got
past `prepareEvent` is `Prepared`, and `Requests`, that the calls and bodies still
to come are of the kind assumed. `RedactString` joins its parts with a recursive
function over the places of a text; `FlattenedRunes` proves that it exists and
what it gives, by induction on a set of numbers (`NatSteps`), which needs no
operator as a parameter.

Every invariant and every action property that a run checks is thus a theorem,
some under the hypotheses named above. Only model-checked: the liveness
properties (`PersistedEventuallyAnswered`, `BufferedEventuallyTaken`,
`FlushEventuallyReturns`, `CloseEventuallyReturns`, `AckedEventuallySent`) and
the absence of deadlocks, since liveness under fairness and `ENABLED` are outside
what TLAPS proves.

## 5. Plan

1. *Model.* A composition of `LogCenterClient` with `DurableOutbox`: the outbox
   of the former as an abstraction of the latter. Hooks that call `Flush` or
   `Close` back on the worker. Lines with a length in the outbox. The options of
   operations and middlewares.
2. *Prove.* That `LogCenterClient` without an outbox keeps the promise of
   `PriorityBuffer` for its buffer; the same for any model that is added.

## 6. Not modelled

Configuration and environment variables enter as assumptions on constants; their
parsing is a mapping of single values. The example server and the declarations
have no behaviour. Left out of modelled parts: the parsing of trace headers
(`traceFromHeaders`), route templates and the capture options of the
middlewares; user, tenant and operation names (`SetIdentity`, `SetOperation`);
content types and the decoding of a captured body; the queue length and the HTTP
status of `HealthHandler`; hooks that call anything but `Stats()`; which
fragments and patterns redaction knows; nesting of values below one level. The
HTTP client, the file system, Gin and `net/http` are modelled only by what the
code can observe of them.
