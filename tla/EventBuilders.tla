---------------------------- MODULE EventBuilders ----------------------------
(***************************************************************************)
(* The events that the helpers of the SDK make of their arguments:         *)
(* logging.go, external_provider_exchange.go, the request events of the    *)
(* middlewares, and what SendEvent adds from the context                   *)
(* (client.go:387-411).                                                    *)
(***************************************************************************)
EXTENDS EventPreparation, TLC

\* An Event with the given type and strings; all else is its zero value.
NewEvent(type, strings) ==
    [type |-> type,
     text |-> strings @@ [f \in TextFields |-> <<>>],
     metadata |-> Nil, data |-> Nil, changes |-> Nil, oldValue |-> Nil,
     newValue |-> Nil, duration |-> "missing"]

ContextFields == {"requestID", "traceID", "spanID", "userID", "tenantID",
                  "operation"}
WithContextFields(e, request) ==
    [e EXCEPT !.text = [f \in TextFields |-> IF f \in ContextFields
                                             THEN Default(@[f], request[f])
                                             ELSE @[f]]]

LogEvent(level, message, metadata) ==
    [NewEvent("log_event", [level |-> level, message |-> message])
        EXCEPT !.metadata = metadata]

\* err is <<>> for nil.
ErrorEvent(err, options) ==
    [NewEvent("error_event",
              [errorMessage |-> Default(err, options.message),
               errorCode |-> options.code, stackTrace |-> options.stackTrace,
               severity |-> Default(options.severity, <<"k">>)])
        EXCEPT !.metadata = options.metadata, !.data = options.data]

\* Changes that are empty become nil.
AuditEvent(audit) ==
    [NewEvent("audit_event",
              [idempotencyKey |-> audit.key, action |-> audit.action,
               entityType |-> audit.entityType, entityID |-> audit.entityID,
               fieldName |-> audit.fieldName])
        EXCEPT !.oldValue = audit.oldValue, !.newValue = audit.newValue,
               !.changes = IF audit.changes = <<>> THEN Nil
                           ELSE Changes(audit.changes)]

NilIfEmpty(fields) == IF DOMAIN fields = {} THEN Nil ELSE Fields(fields)
FieldsOf(v) == IF v = Nil THEN <<>> ELSE v.fields

-----------------------------------------------------------------------------
(* NewExternalProviderExchangeEvent *)

\* addProviderPayloadData: a reason hides the payload, a payload that is not
\* JSON is stored as base64.
PayloadData(prefix, payload) ==
    IF ~Blank(payload.reason)
    THEN (prefix \o <<"o">>) :> Text(Trim(payload.reason))
    ELSE CASE payload.content = "none" -> <<>>
           [] payload.content = "json" -> (prefix \o <<"j">>) :> Number
           [] OTHER -> (prefix \o <<"b">>) :> Text(<<"b">>)
                           @@ (prefix \o <<"n">>) :> Text(<<"n">>)
PayloadMetadata(prefix, payload) ==
    (IF payload.content = "none" THEN <<>> ELSE (prefix \o <<"z">>) :> Number)
        @@ (IF Blank(payload.reason) THEN <<>>
            ELSE (prefix \o <<"o">>) :> Text(Trim(payload.reason)))

\* providerExchangeStatus; success and failure are members of the enumeration.
ExchangeStatus(x) ==
    IF x.errorCode # <<>> \/ x.errorMessage # <<>> \/ x.statusCode > 0
    THEN <<"k">> ELSE <<>>

ExchangeEvent(x) ==
    [NewEvent("external_provider_exchange",
              [idempotencyKey |-> x.key,
               classification |-> Default(Trim(x.classification), <<"k">>),
               retentionHint |-> Default(Trim(x.retentionHint), <<"k">>),
               operation |-> Default(Trim(x.operation), <<"k">>),
               status |-> Default(Trim(x.status), ExchangeStatus(x)),
               errorCode |-> x.errorCode, errorMessage |-> x.errorMessage])
        EXCEPT !.metadata = Fields(PayloadMetadata(<<"p">>, x.response)
                                   @@ PayloadMetadata(<<"q">>, x.request)
                                   @@ <<"k">> :> Number
                                   @@ FieldsOf(x.metadata)),
               !.data = NilIfEmpty(PayloadData(<<"p">>, x.response)
                                   @@ PayloadData(<<"q">>, x.request)
                                   @@ FieldsOf(x.data))]
=============================================================================
