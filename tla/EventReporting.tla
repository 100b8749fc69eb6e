--------------------------- MODULE EventReporting ---------------------------
(***************************************************************************)
(* How the SDK reports on itself: the counters and the last error          *)
(* (stats.go), the hooks (hooks.go) and Health (health.go), written by the *)
(* goroutines that pass events in, by the worker and by SendEventSync, and *)
(* read by others meanwhile.  The events are prepared by EventPreparation; *)
(* a request whose body is captured (BodyCapture) reports two of them.     *)
(*                                                                         *)
(* A goroutine runs a list of steps, each one access to shared state, in   *)
(* the order of the source; between lists it is at a decision.  Every hook *)
(* is set, and each of them calls Stats().  Retries, the outbox and which  *)
(* event of a full buffer gives way are LogCenterClient's.                 *)
(***************************************************************************)
EXTENDS EventPreparation, BodyCapture

CONSTANTS Callers,     \* goroutines of the application
          Worker,      \* the goroutine run()
          Content,     \* the events that are passed in, by name
          Scenarios,   \* per caller, the calls it makes one after another
                       \* and the body of its request
          BufferSize, BatchSize,
          None         \* no error, no goroutine

\* A call passes an event in, asks for the health or closes the client.
\* "captures": the body is captured up to the option's MaxBytes; "panics": the
\* handler panics, and Recovery reports it.
SendCall(name, sync) == [do |-> "send", event |-> name, sync |-> sync,
                         captures |-> FALSE, option |-> 0, panics |-> FALSE]
HealthCall == [do |-> "health"]
CloseCall == [do |-> "close"]
CallSet == [do : {"send"}, event : DOMAIN Content, sync : BOOLEAN,
            captures : BOOLEAN, option : Int, panics : BOOLEAN]
               \cup {HealthCall, CloseCall}

\* What setError is called with: the field that is not valid, a limit, the
\* evidence, a failed batch or a rejection.
DropErrors == TextFields \cup EventFields
                  \cup {"duration_ms", "json", "max_event_bytes", "tamper"}
Errors == DropErrors \cup {"batch", "rejected"}

ASSUME ReportingAssumption ==
    /\ None \notin Callers \cup {Worker} \cup Errors /\ Worker \notin Callers
    /\ BufferSize \in Nat \ {0} /\ BatchSize \in 1..BufferSize
    /\ \A name \in DOMAIN Content : IsEvent(Content[name])
    /\ \A s \in Scenarios, c \in Callers :
          s[c].calls \in Seq(CallSet) /\ s[c].body \in Seq(STRING)

\* "y" stands for a secret: a rune of what a sensitive key that redaction sees
\* names, only.
ASSUME SecretsAssumption ==
    /\ \A name \in DOMAIN Content : \A v \in ExposedValues(Content[name]) :
          \A text \in Exposed(v) : "y" \notin Range(text)
    /\ \A s \in Scenarios, c \in Callers : "y" \notin Range(s[c].body)

VARIABLES todo,      \* per caller: the calls still to make
          pc,        \* per goroutine: the decision it comes to after its steps
          steps,     \* per goroutine: the steps before that decision
          event,     \* per caller: the event of the call
          buffered,  \* length of the queue
          counters,  \* client.stats
          lastError, \* counters.lastError
          mu,        \* who holds counters.mu
          told,      \* how often each hook was called
          report,    \* per caller: what its last snapshot has read
          due,       \* per caller: a hook had told of a failure before that
          body,      \* per caller: the request body, whole, read and left
          passed,    \* events that got past prepareEvent, with the original
          closed     \* client.closed

vars == <<todo, pc, steps, event, buffered, counters, lastError, mu, told,
          report, due, body, passed, closed>>
dataVars == <<todo, event, buffered, body, passed, closed>>
statVars == <<counters, lastError, mu, told, report, due>>

Goroutines == Callers \cup {Worker}
Counters == {"queued", "truncated", "dropped", "sentEvents", "sentBatches",
             "failedEvents", "failedBatches", "accepted", "duplicated",
             "rejected"}
Hooks == {"dropped", "truncated", "batchFailed", "rejected", "errorChanged"}

Init ==
    /\ \E s \in Scenarios :
          /\ todo = [c \in Callers |-> s[c].calls]
          /\ body = [c \in Callers |->
                       [whole |-> s[c].body, read |-> <<>>, left |-> s[c].body]]
    /\ pc = [g \in Goroutines |-> "idle"]
    /\ steps = [g \in Goroutines |-> <<>>]
    /\ event = [c \in Callers |-> <<>>]
    /\ buffered = 0
    /\ counters = [c \in Counters |-> 0]
    /\ lastError = None
    /\ mu = None
    /\ told = [h \in Hooks |-> 0]
    /\ report = [c \in Callers |-> <<>>]
    /\ due = [c \in Callers |-> FALSE]
    /\ passed = {}
    /\ closed = FALSE

-----------------------------------------------------------------------------
(* The steps *)

Add(counter, n) == [do |-> "add", counter |-> counter, n |-> n]
Fail(error) == [do |-> "setError", error |-> error]      \* client.setError
Tell(hook) == [do |-> "tell", hook |-> hook]             \* callHook
Read(field) == [do |-> "read", field |-> field]          \* snapshot
Unlock == [do |-> "unlock"]

CountsAfterTheHook == <<Tell("dropped"), Add("dropped", 1)>>
DropUnread == <<Add("dropped", 1), Tell("dropped")>>     \* 94-98, 174-178, 189-192
ErrorBeforeCount(error) == <<Fail(error), Add("dropped", 1), Tell("dropped")>>
DropFor(error) == <<Add("dropped", 1), Fail(error), Tell("dropped")>>
Truncation == <<Add("truncated", 1), Tell("truncated")>>

\* recordBatchFailure, and what sendBatchInternal does for an answer: a
\* rejected event calls its hook, and is an error for SendEventSync.  The
\* counters of the answer and its list of errors are added and told of as they
\* come (client.go:343-352, 525-541); that they agree, one error for each
\* rejected event and a batch that adds up, is assumed of the API.
BatchFailure(n) ==
    <<Add("failedBatches", 1), Add("failedEvents", n), Fail("batch"),
      Tell("batchFailed")>>
EventsBeforeBatch(n, duplicated, rejected, sync) ==
    <<Add("sentEvents", n), Add("sentBatches", 1)>>
BatchAnswer(n, duplicated, rejected, sync) ==
    <<Add("sentBatches", 1), Add("sentEvents", n),
      Add("accepted", n - duplicated - rejected), Add("duplicated", duplicated),
      Add("rejected", rejected)>>
    \o [i \in 1..rejected |-> Tell("rejected")]
    \o IF sync /\ rejected > 0 THEN <<Fail("rejected")>> ELSE <<>>

\* counters.snapshot
ErrorReadLast ==
    <<Read("queued"), Read("truncated"), Read("dropped"), Read("sentEvents"),
      Read("sentBatches"), Read("failedEvents"), Read("failedBatches"),
      Read("accepted"), Read("duplicated"), Read("rejected"), Read("lastError")>>
Snapshot ==
    <<Read("lastError"), Read("queued"), Read("truncated"), Read("dropped"),
      Read("sentEvents"), Read("sentBatches"), Read("failedEvents"),
      Read("failedBatches"), Read("accepted"), Read("duplicated"),
      Read("rejected")>>

Ready(g, do) == steps[g] # <<>> /\ Head(steps[g]).do = do
Advance(g) == steps' = [steps EXCEPT ![g] = Tail(@)]

AddStep(g) ==
    /\ Ready(g, "add")
    /\ counters' = [counters EXCEPT ![Head(steps[g]).counter] =
                                        @ + Head(steps[g]).n]
    /\ Advance(g)
    /\ UNCHANGED <<dataVars, pc, lastError, mu, told, report, due>>

\* counters.setError compares and stores under the mutex; Client.setError
\* calls the hook once it is released.
HookUnderTheMutex(changed) ==
    (IF changed THEN <<Tell("errorChanged")>> ELSE <<>>) \o <<Unlock>>
AfterStore(changed) ==
    <<Unlock>> \o IF changed THEN <<Tell("errorChanged")>> ELSE <<>>
SetErrorStep(g) ==
    /\ Ready(g, "setError") /\ mu = None
    /\ mu' = g
    /\ lastError' = Head(steps[g]).error
    /\ steps' = [steps EXCEPT ![g] = AfterStore(lastError # Head(@).error)
                                         \o Tail(@)]
    /\ UNCHANGED <<dataVars, pc, counters, told, report, due>>

UnlockStep(g) ==
    /\ Ready(g, "unlock")
    /\ mu' = None
    /\ Advance(g)
    /\ UNCHANGED <<dataVars, pc, counters, lastError, told, report, due>>

\* A hook that panics is recovered, so it always returns; its Stats() takes
\* the mutex.
TellStep(g) ==
    /\ Ready(g, "tell") /\ mu = None
    /\ told' = [told EXCEPT ![Head(steps[g]).hook] = @ + 1]
    /\ Advance(g)
    /\ UNCHANGED <<dataVars, pc, counters, lastError, mu, report, due>>

ReadStep(g) ==
    /\ Ready(g, "read")
    /\ LET field == Head(steps[g]).field
       IN  /\ field = "lastError" => mu = None
           /\ report' = [report EXCEPT ![g] =
                 [f \in DOMAIN @ \cup {field} |->
                     IF f # field THEN @[f]
                     ELSE IF f = "lastError" THEN lastError ELSE counters[f]]]
    /\ Advance(g)
    /\ UNCHANGED <<dataVars, pc, counters, lastError, mu, told, due>>

Step(g) ==
    AddStep(g) \/ SetErrorStep(g) \/ UnlockStep(g) \/ TellStep(g) \/ ReadStep(g)

At(g, decision) == steps[g] = <<>> /\ pc[g] = decision
Go(g, list, decision) ==
    steps' = [steps EXCEPT ![g] = list] /\ pc' = [pc EXCEPT ![g] = decision]
Calls(c, what) == At(c, "idle") /\ todo[c] # <<>> /\ Head(todo[c]).do = what

-----------------------------------------------------------------------------
(* SendEvent and SendEventSync: client.go:82-112, 170-222 *)

\* The event of the next call, with what is captured of the body.
Built(c) ==
    LET call == Head(todo[c])
        given == Content[call.event]
        captured == Captured(body[c].left, call.option)
        old == IF given.data = Nil THEN <<>> ELSE given.data.fields
        key == <<"q">>
    IN  IF ~call.captures \/ captured = <<>> THEN given
        ELSE [given EXCEPT !.data =
                 Fields([k \in DOMAIN old \cup {key} |->
                            IF k = key THEN Text(captured) ELSE old[k]])]

NewID(c) == [i \in DOMAIN todo[c] |-> c]
LimitsFirst(c) ==
    {RedactEvent(l) : l \in LimitedForms(WithDefaults(Built(c), NewID(c)))}
BeforeLimit(c) == RedactEvent(WithDefaults(Built(c), NewID(c)))
Limited(c) == LimitedForms(BeforeLimit(c))

\* The call up to limitEvent, with the report of a drop or of a truncation.
Begin(c) ==
    /\ Calls(c, "send")
    /\ todo' = [todo EXCEPT ![c] = Tail(@)]
    /\ body' = IF Head(todo[c]).captures
               THEN [body EXCEPT ![c].left =
                                    Restored(@, Head(todo[c]).option)]
               ELSE body
    /\ \/ /\ closed
          /\ Go(c, DropUnread, "idle")
          /\ UNCHANGED event
       \/ /\ ~closed
          /\ \E limited \in Limited(c) :
                \/ /\ LimitError(limited) # "ok"
                   /\ Go(c, DropFor(LimitError(limited)), "idle")
                   /\ UNCHANGED event
                \/ /\ LimitError(limited) = "ok"
                   /\ Go(c, IF limited # BeforeLimit(c) THEN Truncation
                                                       ELSE <<>>, "seal")
                   /\ event' = [event EXCEPT ![c] =
                                    [from |-> Built(c), now |-> limited,
                                     sync |-> Head(todo[c]).sync]]
    /\ UNCHANGED <<statVars, buffered, passed, closed>>

\* Tamper evidence, whose state may fail to be saved, then ValidateEvent.
Seal(c) ==
    /\ At(c, "seal")
    /\ LET verdict == Validate(Sealed(event[c].now))
       IN  \/ /\ verdict = "ok"
              /\ passed' = passed \cup {[from |-> event[c].from,
                                         now |-> event[c].now]}
              /\ Go(c, <<>>, IF event[c].sync THEN "post" ELSE "push")
           \/ /\ verdict # "ok"
              /\ Go(c, DropFor(verdict), "idle")
              /\ UNCHANGED passed
           \/ /\ TamperEvidence
              /\ Go(c, DropFor("tamper"), "idle")
              /\ UNCHANGED passed
    /\ event' = [event EXCEPT ![c] = <<>>]
    /\ UNCHANGED <<statVars, todo, buffered, body, closed>>

PushAnyway(c) ==
    /\ At(c, "push")
    /\ buffered' = buffered + 1 /\ Go(c, <<Add("queued", 1)>>, "idle")
    /\ UNCHANGED <<statVars, todo, event, body, passed, closed>>
Push(c) ==
    /\ At(c, "push")
    /\ \/ /\ buffered < BufferSize
          /\ buffered' = buffered + 1
          /\ Go(c, <<Add("queued", 1)>>, "idle")
       \/ /\ buffered = BufferSize
          /\ \/ Go(c, DropUnread \o <<Add("queued", 1)>>, "idle")   \* replaces
             \/ Go(c, DropUnread, "idle")
          /\ UNCHANGED buffered
    /\ UNCHANGED <<statVars, todo, event, body, passed, closed>>

-----------------------------------------------------------------------------
(* sendBatchInternal, Health, and the handler of a request *)

\* A batch fails, or the API answers for each of its events.
Outcome(g, n, sync) ==
    \/ Go(g, BatchFailure(n), "idle")
    \/ \E duplicated, rejected \in 0..n :
          /\ duplicated + rejected <= n
          /\ Go(g, BatchAnswer(n, duplicated, rejected, sync), "idle")

SendSync(c) ==
    /\ At(c, "post")
    /\ Outcome(c, 1, TRUE)
    /\ UNCHANGED <<statVars, dataVars>>

SendBatch ==
    /\ At(Worker, "idle") /\ buffered > 0
    /\ LET n == IF buffered < BatchSize THEN buffered ELSE BatchSize
       IN  buffered' = buffered - n /\ Outcome(Worker, n, FALSE)
    /\ UNCHANGED <<statVars, todo, event, body, passed, closed>>

\* The handler reads on from the body before it panics.
ReadBody(c) ==
    /\ Calls(c, "send") /\ Head(todo[c]).panics
    /\ \E n \in 1..Len(body[c].left) :
          LET part == SubSeq(body[c].left, 1, n)
          IN  /\ "!" \notin Range(part)
              /\ body' = [body EXCEPT ![c] =
                    [whole |-> @.whole, read |-> @.read \o part,
                     left |-> SubSeq(@.left, n + 1, Len(@.left))]]
    /\ UNCHANGED <<statVars, pc, steps, todo, event, buffered, passed, closed>>

FailureHooks == Hooks \ {"truncated"}
Health(c) ==
    /\ Calls(c, "health")
    /\ todo' = [todo EXCEPT ![c] = Tail(@)]
    /\ report' = [report EXCEPT ![c] = <<>>]
    /\ due' = [due EXCEPT ![c] = \E h \in FailureHooks : told[h] > 0]
    /\ Go(c, Snapshot, "idle")
    /\ UNCHANGED <<counters, lastError, mu, told, event, buffered, body, passed,
                   closed>>

\* Close sets the flag; what the worker then does is LogCenterClient's.
Close(c) ==
    /\ Calls(c, "close")
    /\ todo' = [todo EXCEPT ![c] = Tail(@)]
    /\ closed' = TRUE
    /\ UNCHANGED <<statVars, pc, steps, event, buffered, body, passed>>

\* healthStatus of an enabled client.
HealthStatus(s) ==
    IF \/ s["dropped"] > 0 \/ s["failedEvents"] > 0 \/ s["failedBatches"] > 0
       \/ s["rejected"] > 0 \/ s["lastError"] # None
    THEN "degraded" ELSE "ok"

Stopped ==
    /\ \A g \in Goroutines : steps[g] = <<>>
    /\ \A c \in Callers : At(c, "idle") /\ todo[c] = <<>>
    /\ buffered = 0
    /\ UNCHANGED vars

Next ==
    \/ \E g \in Goroutines : Step(g)
    \/ \E c \in Callers : Begin(c) \/ Seal(c) \/ Push(c) \/ SendSync(c)
                          \/ ReadBody(c) \/ Health(c) \/ Close(c)
    \/ SendBatch
    \/ Stopped

Spec == Init /\ [][Next]_vars

-----------------------------------------------------------------------------
(* Properties *)

\* A snapshot the caller has finished.
Done(c) == DOMAIN report[c] = Counters \cup {"lastError"}

TypeOK ==
    /\ pc \in [Goroutines -> {"idle", "seal", "push", "post"}]
    /\ buffered \in 0..BufferSize
    /\ counters \in [Counters -> Nat]
    /\ lastError \in Errors \cup {None}
    /\ mu \in Goroutines \cup {None}
    /\ told \in [Hooks -> Nat]
    /\ \A c \in Callers : DOMAIN report[c] \subseteq Counters \cup {"lastError"}
    /\ due \in [Callers -> BOOLEAN]
    /\ closed \in BOOLEAN

\* A Stats whose LastError tells of a drop, of a failed batch or of a
\* rejection shows that drop, batch or rejection in its counters, whatever the
\* writers do between its reads: they count first (client.go:102-103,
\* 182-183, 466-468, 347-352) and snapshot reads the error first
\* (stats.go:39-54).
ErrorIsCounted ==
    \A c \in Callers : Done(c) =>
        LET s == report[c]
        IN  CASE s["lastError"] = None -> TRUE
              [] s["lastError"] = "batch" ->
                     s["failedBatches"] > 0 /\ s["failedEvents"] > 0
              [] s["lastError"] = "rejected" ->
                     s["rejected"] > 0 /\ s["sentEvents"] > 0
              [] OTHER -> s["dropped"] > 0

\* A Stats never shows more events than its batches can have held, although
\* it is read while batches are being counted: the writers count the batch
\* first (client.go:343-344, 466-467), snapshot reads it last (stats.go:47-50).
EventsWithinBatches ==
    \A c \in Callers : Done(c) =>
        /\ report[c]["sentEvents"] <= BatchSize * report[c]["sentBatches"]
        /\ report[c]["failedEvents"] <= BatchSize * report[c]["failedBatches"]

\* README.md:952 "`degraded`: houve drop, falha de envio, rejeicao pela API ou
\* LastError": a Health that begins after a hook told of one reports it, and
\* one that reports it has had a cause.
FailureDegradesHealth ==
    \A c \in Callers : Done(c) =>
        /\ due[c] => HealthStatus(report[c]) = "degraded"
        /\ HealthStatus(report[c]) = "degraded" =>
               \/ lastError # None
               \/ \E n \in {"dropped", "failedBatches", "rejected"} : counters[n] > 0

\* No hook runs while its goroutine holds counters.mu, so that a hook may call
\* Stats() and a goroutine never waits for itself (client.go:543-554,
\* stats.go:62-66); every goroutine can then take its next step, which the
\* absence of deadlocks shows.
HooksOutsideTheMutex ==
    \A g \in Goroutines : Ready(g, "tell") => mu # g

\* README.md:214-219: what gets past prepareEvent is within the limits, before
\* the evidence is added: the event as a whole, its metadata, its data and each
\* of its audit values; and each text that limitEvent may cut is a prefix of
\* what it was, cut between two runes, with the suffix if that fits.  The texts
\* of a typed value are not cut (limit.go:137-138): of MaxStringBytes nothing
\* is said for them, whatever README.md:214 promises of strings; what bounds
\* them is the limit of the field they stand in.
Cut(old, new) ==
    \/ new = old /\ (MaxStringBytes = 0 \/ Bytes(new) <= MaxStringBytes)
    \/ /\ MaxStringBytes \in 1..Bytes(old) - 1 /\ Bytes(new) <= MaxStringBytes
       /\ \E n \in 0..Len(old) - 1, tail \in {<<>>, TruncatedSuffix} :
             /\ new = SubSeq(old, 1, n) \o tail
             /\ Bytes(new) + Width(old[n + 1]) > MaxStringBytes
             /\ tail = <<>> => MaxStringBytes <= Bytes(TruncatedSuffix)
Fits(from, now) ==
    /\ \A f \in TextFields \ (Unlimited \cup {"idempotencyKey"}) :
          Cut(IF f \in RedactedTexts THEN RedactString(from.text[f])
                                     ELSE from.text[f], now.text[f])
    /\ MaxStringBytes > 0 =>
          \A v \in Untyped(now) : \A t \in AllTexts(v) :
              Bytes(t) <= MaxStringBytes
    /\ JSONSize(now.data) <= MaxDataBytes
    /\ JSONSize(now.metadata) <= MaxMetadataBytes
    /\ \A v \in {now.changes, now.oldValue, now.newValue} :
          JSONSize(v) <= MaxAuditValueBytes
    /\ EventSize(now) <= MaxEventBytes
AcceptedFits == \A p \in passed : Fits(p.from, p.now)

\* README.md:958-: what stood under a sensitive key of a Fields, a
\* map[string]any or a Change, or in a value named by a sensitive FieldName, is
\* gone from an accepted event whatever its type, a typed value too, also when
\* the limits cut the key so that it no longer looks sensitive.  What only a
\* key inside a typed value names is sent as it is (redaction.go:110-111),
\* which README.md:958-967 does not say.
Hides(now) ==
    \A v \in Untyped(now) : \A t \in AllTexts(v) \cup AllUnseen(v) :
        "y" \notin Range(t)
KeyedSecretsGone == \A p \in passed : Hides(p.now)

\* README.md:243-246: without an EventID, equal IdempotencyKeys make equal
\* event ids, so that a retry is recognised, and different ones different
\* ids, also where the limits would cut both to the same text.
KeyOf(e) == Trim(e.text["idempotencyKey"])
OnlyKeyed(e) == e.text["eventID"] = <<>> /\ KeyOf(e) # <<>>
KeyDecidesEvent ==
    \A p, q \in passed :
        OnlyKeyed(p.from) /\ OnlyKeyed(q.from) =>
            (p.now.text["eventID"] = q.now.text["eventID"]
                 <=> KeyOf(p.from) = KeyOf(q.from))

\* README.md:378-: whatever is captured, before the handler and by Recovery
\* after it, and however much of the body the handler read in between, what
\* it reads is the whole body, in order.
BodyKept ==
    \A c \in Callers : body[c].read \o body[c].left = body[c].whole
=============================================================================
