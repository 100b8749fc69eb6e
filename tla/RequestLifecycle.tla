-------------------------- MODULE RequestLifecycle --------------------------
(***************************************************************************)
(* The instrumentation of one HTTP request: the middleware of net/http     *)
(* (logcenter/http.go) or of Gin (integrations/gin/gin.go), with or        *)
(* without its Recovery, and a handler whose goroutines start, step and    *)
(* end operations and spans, and send requests through a RoundTripper,     *)
(* with contexts they derived from one another (request.go, operation.go,  *)
(* span.go, roundtripper.go, context.go).                                  *)
(*                                                                         *)
(* A call is one step: what calls share of a request, an operation or a    *)
(* span is read and written in one critical section, and the event is made *)
(* of what was read there.  Contexts are values, held by whoever made or   *)
(* got them, or put together by hand, and any of them goes to any call.    *)
(* UserID, TenantID, Operation, messages and error codes go from a context *)
(* or an argument into an event and are left out, and with them            *)
(* SetIdentity and SetOperation, which put them into a context.  The       *)
(* options that set the ids of an operation do what setting them in its    *)
(* context first does.                                                     *)
(***************************************************************************)
EXTENDS Naturals, Sequences, FiniteSets, SequencesExt

CONSTANTS Request,      \* the Request of the middleware
          Calls,        \* calls of StartOperation, StartSpan, RoundTrip
          None,         \* the empty string, a missing value
          Headers,      \* the ids the headers of the request may bring
          Given,        \* the ids callers may set by hand
          MaxByHand,    \* bound: the contexts with ids set by hand
          MaxSteps      \* bound: the steps of operations

ASSUME LifecycleAssumption ==
    /\ Request \notin Calls
    /\ None \notin {Request} \cup Calls
    /\ "in" \notin Calls \cup {None}
    /\ Headers \subseteq [request : {None, "in"}, trace : {None, "in"},
                         span : {None, "remote"}, path : {<<>>},
                         hand : {FALSE}]
    /\ Given \subseteq {Request, None, "in", "remote", "hand"} \cup Calls
    /\ MaxByHand \in Nat /\ MaxSteps \in Nat

VARIABLES chain,    \* the middleware around the handler
          server,   \* where the goroutine that serves the request is
          stored,   \* the context of c.Request
          contexts, \* the contexts the goroutines hold
          handle,   \* per call: the fields of what it returned
          response, \* recorded by the middleware and sent to the client
          events    \* what was passed to enqueue

vars == <<chain, server, stored, contexts, handle, response, events>>

Handles == {Request} \cup Calls

\* RequestContext.  path and hand are history: the calls the context went
\* through since it was empty or ids were set in it by hand, and whether such
\* ids are where the path begins.
Background == [request |-> None, trace |-> None, span |-> None, path |-> <<>>,
               hand |-> FALSE]
NoHandle == [kind |-> "none", ctx |-> Background, parent |-> None,
             ends |-> 0]

\* The status the middleware would report, the one sent on the wire (0 while
\* none is), and whether a header was written after the first.
NoResponse == [recorded |-> 200, sent |-> 0, again |-> FALSE]

Init ==
    /\ chain \in {"http", "gin"}
    /\ server = "start"
    /\ stored = Background
    /\ contexts = {Background}
    /\ handle = [h \in Handles |-> NoHandle]
    /\ response = NoResponse
    /\ events = {}

Gin == chain # "http"

-----------------------------------------------------------------------------
(* Contexts: context.go, mergeRequestContext *)

Or(value, default) == IF value = None THEN default ELSE value

\* ensureRequestContext, with the ids that newID would make for call h.
TraceAnew(c, h) == [c EXCEPT !.request = Or(@, h), !.trace = h]
Ensured(c, h) == [c EXCEPT !.request = Or(@, h), !.trace = Or(@, h)]

\* The values of ctx that are there win over those of base.
Merged(base, c) ==
    [base EXCEPT !.request = Or(c.request, @), !.trace = Or(c.trace, @),
                 !.span = Or(c.span, @)]

\* Ids set by hand are where a path begins.
ByHand(c) == [c EXCEPT !.path = <<>>,
                       !.hand = {c.request, c.trace, c.span} # {None}]

\* A context of another trace than that of h, or of none.
Foreign(h, c) == c.path = <<>> \/ Head(c.path) # Head(handle[h].ctx.path)

\* An event of h with the values of a context c.  foreign and nth are history:
\* whether the ids of another trace are in it, and which end of h it is of.
Event(type, h, c) ==
    [type |-> type, of |-> h, request |-> c.request, trace |-> c.trace,
     span |-> c.span, parent |-> handle[h].parent, code |-> 0,
     foreign |-> FALSE, nth |-> 0]
MergedEvent(type, h, c) ==
    [Event(type, h, Merged(handle[h].ctx, c)) EXCEPT
        !.foreign = Foreign(h, c) /\ {c.request, c.trace} # {None}]
Nth(h) == handle[h].ends + 1

Opened(h, kind, c, parent) ==
    /\ handle[h].kind = "none"
    /\ handle' = [handle EXCEPT ![h] = [NoHandle EXCEPT !.kind = kind, !.ctx = c,
                                                        !.parent = parent]]
MayEndAgain(h) == TRUE
MayEnd(h) == handle[h].ends = 0
Ended(h) == handle' = [handle EXCEPT ![h].ends = @ + 1]

\* ContextWithRequestID, ContextWithTraceID, ContextWithSpanID, on any context;
\* a RequestContext put together by hand is made of several.
ContextWithIDs(c) ==
    /\ Cardinality({d \in contexts : d.path = <<>> /\ d.hand}) < MaxByHand
    /\ \E id \in Given :
          \E d \in {[c EXCEPT !.request = id], [c EXCEPT !.trace = id],
                   [c EXCEPT !.span = id]} :
             contexts' = contexts \cup {ByHand(d)}
    /\ UNCHANGED <<chain, server, stored, handle, response, events>>

-----------------------------------------------------------------------------
(* Operations and spans: operation.go, span.go *)

handlerRest == <<chain, server, response>>

StartOperation(h, c) ==
    LET own == [Ensured(c, h) EXCEPT !.path = Append(@, h)]
    IN  /\ Opened(h, "operation", own, None)
        /\ contexts' = contexts \cup {own}
        /\ events' = events \cup {Event("request_started", h, own)}
        /\ UNCHANGED <<handlerRest, stored>>

\* EndWithContext; End passes context.Background().
EndOperation(h, c) ==
    /\ handle[h].kind = "operation" /\ MayEnd(h)
    /\ Ended(h)
    /\ events' = events \cup {[MergedEvent("request_finished", h, c) EXCEPT
                                  !.nth = Nth(h)]}
    /\ UNCHANGED <<handlerRest, stored, contexts>>

\* EventWithContext, StepWithContext.
StepOperation(h, c) ==
    /\ handle[h].kind = "operation"
    /\ Cardinality({v \in events : v.type = "log_event"}) < MaxSteps
    /\ events' = events \cup {MergedEvent("log_event", h, c)}
    /\ UNCHANGED <<handlerRest, stored, contexts, handle>>

KeepsSpan(c, h) == c
Inside(c, h) == [c EXCEPT !.span = h]
StartSpan(h, c) ==
    LET own == [Inside(Ensured(c, h), h) EXCEPT !.path = Append(@, h)]
    IN  /\ Opened(h, "span", own, c.span)
        /\ contexts' = contexts \cup {own}
        /\ UNCHANGED <<handlerRest, stored, events>>

RecordError(h) ==
    /\ handle[h].kind = "span"
    /\ events' = events \cup {Event("error_event", h, handle[h].ctx)}
    /\ UNCHANGED <<handlerRest, stored, contexts, handle>>

EndSpan(h) ==
    /\ handle[h].kind = "span" /\ MayEnd(h)
    /\ Ended(h)
    /\ events' = events \cup {[Event("span", h, handle[h].ctx) EXCEPT
                                  !.span = h, !.nth = Nth(h)]}
    /\ UNCHANGED <<handlerRest, stored, contexts>>

\* InstrumentedRoundTripper.RoundTrip: a span around an outgoing call, whose
\* context goes to the transport inside; an error_event when that returned an
\* error.
StartTrip(h, c) ==
    LET own == [Inside(Ensured(c, h), h) EXCEPT !.path = Append(@, h)]
    IN  /\ Opened(h, "trip", own, c.span)
        /\ contexts' = contexts \cup {own}
        /\ UNCHANGED <<handlerRest, stored, events>>

EndTrip(h, failed) ==
    /\ handle[h].kind = "trip" /\ MayEnd(h)
    /\ Ended(h)
    /\ events' = events \cup {[Event("span", h, handle[h].ctx) EXCEPT !.nth = Nth(h)]}
           \cup IF failed THEN {Event("error_event", h, handle[h].ctx)} ELSE {}
    /\ UNCHANGED <<handlerRest, stored, contexts>>

-----------------------------------------------------------------------------
(* The middleware and the handler: http.go:73-122, gin.go:86-187 *)

\* StartRequest with what the headers give.
Serve ==
    /\ server = "start"
    /\ \E headers \in Headers :
          LET own == [Ensured(headers, Request) EXCEPT !.path = <<Request>>]
          IN  /\ Opened(Request, "request", own, None)
              /\ events' = events \cup {Event("request_started", Request, own)}
              /\ contexts' = contexts \cup {own}
              /\ stored' = own
    /\ server' = "handler"
    /\ UNCHANGED <<chain, response>>

\* SetRequestContext and c.Request.WithContext take the values of any context.
SetRequestContext ==
    /\ server = "handler" /\ Gin
    /\ stored' \in contexts
    /\ UNCHANGED <<handlerRest, contexts, handle, events>>

\* WriteHeader.  net/http keeps the first code it gets, the recorder the
\* last; Gin's writer ignores a code after the header is out.
WriteHeader(code) ==
    /\ server = "handler"
    /\ response' =
          IF response.sent = 0
          THEN [response EXCEPT !.recorded = code,
                                !.sent = IF Gin THEN 0 ELSE code]
          ELSE [response EXCEPT !.recorded = IF Gin THEN @ ELSE code,
                                !.again = ~Gin]
    /\ UNCHANGED <<chain, server, stored, contexts, handle, events>>

\* The first byte of the body sends the header.
SendHeader == [response EXCEPT !.sent = IF @ = 0 THEN response.recorded ELSE @]
WriteBody ==
    /\ server = "handler"
    /\ response' = SendHeader
    /\ UNCHANGED <<chain, server, stored, contexts, handle, events>>

\* A panic ends the handler; no deferred call of the middleware runs.  What is
\* left of c.Request is read by nobody.
Panic ==
    /\ server = "handler"
    /\ server' = "aborted"
    /\ stored' = Background
    /\ UNCHANGED <<chain, response, contexts, handle, events>>

\* AbortWithStatus sends 500 unless the header is out.  Mutated forms of an
\* operator stand before it; PROJECT.json pairs them.
AbortsAnyway == [response EXCEPT !.recorded = 500]
Aborted ==
    IF response.sent = 0
    THEN [response EXCEPT !.recorded = 500, !.sent = 500]
    ELSE response

\* A panic below Gin's Recovery: its deferred function runs next in the
\* goroutine, and only the goroutine writes what it reads.
Recover ==
    /\ server = "handler" /\ Gin
    /\ server' = "recovered"
    /\ events' = events \cup {[Event("error_event", Request, stored) EXCEPT
                                  !.foreign = Foreign(Request, stored)]}
    /\ response' = Aborted
    /\ UNCHANGED <<chain, stored, contexts, handle>>

\* The handler has returned, or Recovery: EndWithContext of the request, with
\* c.Request.Context() by Gin and context.Background() by net/http.  The server
\* sends a header that is still missing.
Finish ==
    /\ server \in {"handler", "recovered"}
    /\ MayEnd(Request)
    /\ Ended(Request)
    /\ events' = events \cup
           {[MergedEvent("request_finished", Request,
                         IF Gin THEN stored ELSE Background) EXCEPT
                 !.code = response.recorded, !.nth = Nth(Request)]}
    /\ response' = SendHeader
    /\ server' = "done"
    /\ stored' = Background
    /\ UNCHANGED <<chain, contexts>>

Next ==
    \/ Serve \/ SetRequestContext \/ WriteBody
    \/ \E code \in {200, 500} : WriteHeader(code)
    \/ Panic \/ Recover \/ Finish
    \/ \E c \in contexts : ContextWithIDs(c)
    \/ \E h \in Calls :
          \/ \E c \in contexts :
                \/ StartOperation(h, c) \/ StartSpan(h, c) \/ StartTrip(h, c)
                \/ EndOperation(h, c) \/ StepOperation(h, c)
          \/ RecordError(h) \/ EndSpan(h)
          \/ \E failed \in BOOLEAN : EndTrip(h, failed)

Spec == Init /\ [][Next]_vars

-----------------------------------------------------------------------------
(* Properties *)

Ids == Handles \cup {None, "in", "remote", "hand"}
RequestContexts == [request : Ids, trace : Ids, span : Ids,
                    path : Seq(Handles), hand : BOOLEAN]

\* Every variable holds what its declaration says; nothing ends that did not
\* start.
TypeOK ==
    /\ chain \in {"http", "gin"}
    /\ server \in {"start", "handler", "aborted", "recovered", "done"}
    /\ stored \in contexts
    /\ contexts \subseteq RequestContexts
    /\ handle \in [Handles -> [kind : {"none", "request", "operation", "span",
                                       "trip"},
                               ctx : RequestContexts, parent : Ids, ends : 0..1]]
    /\ \A h \in Handles : handle[h].ends > 0 => handle[h].kind # "none"
    /\ response \in [recorded : {200, 500}, sent : {0, 200, 500}, again : BOOLEAN]

Finishes(h) == {v \in events : v.of = h /\ v.type \in {"request_finished", "span"}}

\* README.md:314-315: one request_started, and one request_finished once the
\* handler is through, whatever it started, ended or panicked with, as long
\* as a panic is recovered inside the middleware.  An operation, or a span,
\* finishes at most once, however many goroutines end it.
FinishedOnce ==
    /\ server = "done" => Cardinality(Finishes(Request)) = 1
    /\ server # "done" => Finishes(Request) = {}
    /\ \A h \in Calls : Cardinality(Finishes(h)) <= 1

\* All the events of calls made under one another carry the same RequestID and
\* TraceID, the values of whatever contexts EndWithContext, StepWithContext or
\* the middleware merged in (operation.go:236-263) included, unless these were
\* of another trace or set by hand.  Events of calls that have nothing in common
\* carry different ids, unless one of the traces began with ids set by hand.
Root(h) == Head(handle[h].ctx.path)
OneTrace ==
    \A v, w \in {e \in events : ~e.foreign} :
        IF Root(v.of) = Root(w.of)
        THEN v.request = w.request /\ v.trace = w.trace
        ELSE \/ v.request # w.request /\ v.trace # w.trace
             \/ \E e \in {v, w} : handle[Root(e.of)].ctx.hand

\* Of the first n calls of a path, the last that is a span or a round trip is
\* the one with this id; when none is, it is the id the path began with.
SpanKinds == {"span", "trip"}
SpanPlaces(path, n) == {i \in 1..n : handle[path[i]].kind \in SpanKinds}
Nearest(id, path, n) ==
    \/ \E i \in SpanPlaces(path, n) :
          /\ \A j \in SpanPlaces(path, n) : j <= i
          /\ id = path[i]
    \/ /\ SpanPlaces(path, n) = {}
       /\ id = IF n = 0 THEN None ELSE handle[path[1]].ctx.span

\* A span hangs under the innermost span its context went through, whatever
\* operations lie between (span.go:48-50, operation.go:67), and without one
\* under the span of the caller's headers; only a span that is the first call
\* after ids were set by hand hangs under what these say.
ParentIsNearestSpan ==
    \A v \in events : v.type = "span" =>
        LET c == handle[v.of].ctx
        IN  \/ Nearest(v.parent, c.path, Len(c.path) - 1)
            \/ c.hand /\ Len(c.path) = 1

\* The http_status of request_finished is the one the client got, panics
\* included (gin.go:114-125, 158-162, http.go:99-109), unless net/http ignored
\* a second WriteHeader that the recorder did not.
StatusIsSent ==
    \A v \in Finishes(Request) :
        (Gin \/ ~response.again) => v.code = response.sent
=============================================================================
