-------------------------- MODULE MCEventReporting --------------------------
(***************************************************************************)
(* The calls the run makes: every kind of event, whole, invalid, over each *)
(* limit and with secrets, alone; pairs of keyed events; a handler that    *)
(* panics; and callers next to each other and to the worker.               *)
(***************************************************************************)
EXTENDS EventReporting, EventBuilders

K == <<"k">>                              \* any text that is valid everywhere
Long == <<"k", "w", "w", "x", "k", "k">>  \* over MaxStringBytes
Secret == Text(<<"y", "x">>)
\* Two sensitive keys, one of which is cut before what makes it sensitive, and
\* two that are the same once cut.
SecretFields == Fields((<<"s", "s">> :> Secret)
                       @@ (<<"k", "w", "w", "k", "s", "s">> :> Secret))
Colliding == Fields((<<"k", "w", "w", "k", "k">> :> Number)
                    @@ (<<"k", "w", "w", "w">> :> Text(Long)))
\* A map of strings: the long text is not cut, and what its own sensitive key
\* names ("u") is not masked.
OfStrings == Typed(K :> Long)
Inner == Typed(<<"s", "s">> :> <<"u">>)
Full == Fields([k \in {<<"k">>, <<"m">>} |-> Text(Long)])
Heavy == Fields([k \in {<<"k">>, <<"w">>, <<"m">>, K \o K} |-> Text(Long)])

Anonymous == [f \in ContextFields |-> <<>>]
Request == [f \in ContextFields |-> K]
Started(data) ==
    [WithContextFields(NewEvent("request_started", [startedAt |-> <<"t">>]),
                       Request) EXCEPT !.data = data]
Finished(status, duration) ==
    [WithContextFields(NewEvent("request_finished",
        [finishedAt |-> <<"t">>, status |-> status]), Request)
            EXCEPT !.duration = duration]
Span == [WithContextFields(NewEvent("span", [startedAt |-> <<"t">>,
            finishedAt |-> <<"t">>, status |-> K, name |-> Long]), Request)
                EXCEPT !.duration = "ok"]
NoError == [message |-> <<>>, code |-> <<>>, stackTrace |-> <<>>,
            severity |-> <<>>, metadata |-> Nil, data |-> Nil]
Panicked == ErrorEvent(<<"x">>, [NoError EXCEPT !.stackTrace = Long])
Change(name, old, new) == [field |-> name, old |-> old, new |-> new]
Audit(name, changes, old, new) ==
    AuditEvent([key |-> K, action |-> K, entityType |-> K, entityID |-> K,
                fieldName |-> name, changes |-> changes, oldValue |-> old,
                newValue |-> new])
Payload(content, reason) == [content |-> content, reason |-> reason]
Exchange(request, response, code) ==
    ExchangeEvent([key |-> <<>>, classification |-> <<>>, retentionHint |-> K,
        operation |-> <<>>, status |-> <<>>, errorCode |-> <<>>,
        errorMessage |-> Long, statusCode |-> code, metadata |-> Nil,
        data |-> Nil, request |-> request, response |-> response])
Log(message, metadata) == LogEvent(K, message, metadata)
Keyed(key) == [Log(K, Nil) EXCEPT !.text["idempotencyKey"] = key]

Singly ==
    <<Log(K, Nil), Log(Long, SecretFields), Log(<<"_">>, Nil),
     Log(K, Colliding), Log(K, Heavy), Log(K, Fields(K :> NotJSON)),
     Log(K, Fields(K :> Strings(<<Long, K>>))), LogEvent(<<"z">>, K, Nil),
     [Log(K, Nil) EXCEPT !.data = Fields(K :> NotJSON)],
     [Log(Long, Full) EXCEPT !.data = Full,
                              !.text["stackTrace"] = Long,
                              !.text["reason"] = Long],
     [Log(K, Nil) EXCEPT !.text["classification"] = <<"z">>],
     [Log(K, Nil) EXCEPT !.text["retentionHint"] = <<"_", "k">>],
     [Log(K, Nil) EXCEPT !.text["occurredAt"] = <<"z">>],
     [Log(K, Nil) EXCEPT !.text["environment"] = <<"_">>],
     [Log(K, Nil) EXCEPT !.text["eventID"] = <<"z">>,
                         !.text["idempotencyKey"] = <<"k", "_">>],
     NewEvent("unknown", [message |-> K]),
     Started(Nil), [Started(Nil) EXCEPT !.text["requestID"] = <<>>],
     Finished(K, "ok"), Finished(K, "negative"), Finished(<<>>, "ok"),
     Span, [Span EXCEPT !.duration = "missing"],
     Panicked, ErrorEvent(<<>>, NoError),
     Audit(<<>>, <<Change(<<"s", "s">>, Secret, Nil)>>, Nil, Nil),
     Audit(<<"s", "s">>, <<>>, Secret, List(<<Secret>>)),
     Audit(K, <<>>, Nil, Nil),
     [Audit(K, <<>>, Nil, Nil) EXCEPT !.changes = Fields(<<>>)],
     [Audit(K, <<>>, Nil, Nil) EXCEPT !.changes = Text(K)],
     [Audit(K, <<>>, Number, Nil) EXCEPT !.newValue = Heavy],
     [Log(K, Fields(K :> OfStrings)) EXCEPT
         !.data = Fields(<<"s", "s">> :> Typed(K :> <<"y">>))],
     Log(K, Fields((K :> Inner) @@ (<<"m">> :> OfStrings))),
     Audit(K, <<Change(K, Inner, Nil)>>, Inner, OfStrings),
     Audit(<<"s", "s">>, <<Change(<<"s", "s">>, Typed(K :> <<"y">>), Inner)>>,
           Typed(<<"y">> :> K), Nil),
     Exchange(Payload("json", <<>>), Payload("bytes", <<>>), 200),
     Exchange(Payload("json", Long), Payload("none", <<"_">>), 500),
     Exchange(Payload("none", <<>>), Payload("none", <<>>), 0)>>

Keys == <<<<"k">>, <<"_", "k">>, <<"k", "w", "w", "k", "k">>,
         <<"k", "w", "w", "k", "m">>, <<"k", "w", "k", ".", "~">>>>

MCContent == Singly \o [i \in DOMAIN Keys |-> Keyed(Keys[i])]
                \o <<Log(<<>>, Nil), Started(Fields(K :> Number))>>
Name(e) == CHOOSE name \in DOMAIN MCContent : MCContent[name] = e
Send(e) == SendCall(Name(e), FALSE)
Capture(e, option, panics) ==
    [Send(e) EXCEPT !.captures = TRUE, !.option = option, !.panics = panics]
Valid == Send(Log(K, Nil))
Invalid == Send(Log(<<>>, Nil))
InSync == SendCall(Name(Log(K, Nil)), TRUE)

With(one, two, three, requestBody) ==
    [c \in Callers |->
        [calls |-> CASE c = "c1" -> one [] c = "c2" -> two [] OTHER -> three,
         body |-> requestBody]]
MCScenarios ==
    {With(<<Send(e)>>, <<>>, <<>>, <<>>) : e \in Range(Singly)}
    \cup {With(<<Send(Keyed(k))>>, <<Send(Keyed(l))>>, <<>>, <<>>) :
              k, l \in Range(Keys)}
    \cup {With(<<Capture(Started(d), first, FALSE), Capture(Panicked, second, TRUE)>>,
               <<>>, <<>>, b) :
              d \in {Nil, Fields(K :> Number)}, first \in {0, 1, MaxInt64},
              second \in {0, 1}, b \in {<<"b", "x", "b">>, <<"b", "!", "b">>}}
    \cup {With(<<Invalid>>, <<HealthCall>>, <<Invalid>>, <<>>),
          With(<<Invalid>>, <<HealthCall>>, <<Valid>>, <<>>),
          With(<<Valid, Valid>>, <<HealthCall>>, <<>>, <<>>),
          With(<<Valid, Valid, Valid>>, <<>>, <<>>, <<>>),
          With(<<InSync>>, <<HealthCall>>, <<CloseCall>>, <<>>),
          With(<<Invalid, HealthCall>>, <<InSync>>, <<>>, <<>>)}
=============================================================================
