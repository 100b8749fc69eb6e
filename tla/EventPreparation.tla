-------------------------- MODULE EventPreparation --------------------------
(***************************************************************************)
(* What happens to an event between the call that passes it and the buffer *)
(* (client.go:201-256): defaults, redaction (redaction.go), limits         *)
(* (limit.go) and validation (validation.go).                              *)
(*                                                                         *)
(* A text is a sequence of runes: "w" takes two bytes, every other rune    *)
(* one, "_" is white space.  "x" stands for what the patterns of           *)
(* RedactString match, and a key with two adjacent "s" contains a          *)
(* sensitive fragment.  A value of an untyped field is a record with its   *)
(* kind; maps and lists hold leaves: one level of nesting is modelled.     *)
(* A value of any other Go type that has keys and texts (a map of strings, *)
(* a struct, a pointer to one, a slice of maps) is a leaf of kind "typed". *)
(***************************************************************************)
EXTENDS Integers, Sequences, FiniteSets, SequencesExt

CONSTANTS MaxStringBytes,      \* config; 0: no limit
          MaxMetadataBytes, MaxDataBytes, MaxAuditValueBytes, MaxEventBytes,
          MaxJSONValueBytes,   \* the size taken for what is not JSON, less one
          TamperEvidence       \* BOOLEAN: every event gets evidence

ASSUME PreparationAssumption ==
    /\ MaxStringBytes \in Nat
    /\ {MaxMetadataBytes, MaxDataBytes, MaxAuditValueBytes, MaxEventBytes}
           \subseteq Nat \ {0}          \* normalized(): config.go:98-109
    /\ MaxJSONValueBytes \in Nat
    /\ TamperEvidence \in BOOLEAN

-----------------------------------------------------------------------------
(* Texts: limit.go:150-179 *)

Width(rune) == IF rune = "w" THEN 2 ELSE 1
Bytes(text) == Len(text) + Cardinality({i \in DOMAIN text : text[i] = "w"})
Trim(text) ==
    LET solid == {i \in DOMAIN text : text[i] # "_"}
    IN  IF solid = {} THEN <<>> ELSE SubSeq(text, Min(solid), Max(solid))
Blank(text) == Trim(text) = <<>>

TruncatedSuffix == <<".", "~">>
RedactedValue == <<"R", "R", "R">>

\* The loop breaks at the first rune that starts after maxBytes: the prefix
\* ends where the last rune before it starts.
PrefixPastTheLimit(text, maxBytes) ==
    IF maxBytes <= 0 THEN <<>>
    ELSE IF Bytes(text) <= maxBytes THEN text
    ELSE SubSeq(text, 1, Max({n \in DOMAIN text :
                                 Bytes(SubSeq(text, 1, n - 1)) <= maxBytes}))
ValidStringPrefix(text, maxBytes) ==
    IF maxBytes <= 0 THEN <<>>
    ELSE IF Bytes(text) <= maxBytes THEN text
    ELSE SubSeq(text, 1, Max({n \in DOMAIN text :
                                 Bytes(SubSeq(text, 1, n - 1)) <= maxBytes}) - 1)

Truncate(text) ==
    IF MaxStringBytes = 0 \/ Bytes(text) <= MaxStringBytes THEN text
    ELSE IF MaxStringBytes <= Bytes(TruncatedSuffix)
         THEN ValidStringPrefix(text, MaxStringBytes)
         ELSE ValidStringPrefix(text, MaxStringBytes - Bytes(TruncatedSuffix))
                  \o TruncatedSuffix

-----------------------------------------------------------------------------
(* Values of metadata, data, changes, old_value and new_value *)

Nil == [kind |-> "nil"]
Number == [kind |-> "number"]
NotJSON == [kind |-> "bad"]              \* a channel, a function, NaN
Text(text) == [kind |-> "text", text |-> text]
Strings(texts) == [kind |-> "strings", items |-> texts]        \* []string
List(leaves) == [kind |-> "list", items |-> leaves]            \* []any
Fields(fields) == [kind |-> "fields", fields |-> fields]       \* key -> leaf
Typed(fields) == [kind |-> "typed", fields |-> fields]         \* key -> text
Changes(changes) == [kind |-> "changes", items |-> changes]    \* []Change

Leaves(v) ==
    CASE v.kind = "fields" -> Range(v.fields)
      [] v.kind = "list" -> Range(v.items)
      [] v.kind = "changes" -> UNION {{c.old, c.new} : c \in Range(v.items)}
      [] OTHER -> {v}
\* The texts that redaction and limits look at, and those that stand where
\* they do not look: the default cases of RedactValue and limitValue.
Texts(v) ==
    CASE v.kind = "text" -> {v.text}
      [] v.kind = "strings" -> Range(v.items)
      [] OTHER -> {}
AllTexts(v) ==
    (IF v.kind = "fields" THEN DOMAIN v.fields ELSE {})
        \cup UNION {Texts(leaf) : leaf \in Leaves(v)}
Unseen(v) ==
    IF v.kind = "typed" THEN DOMAIN v.fields \cup Range(v.fields) ELSE {}
AllUnseen(v) == UNION {Unseen(leaf) : leaf \in Leaves(v)}

MarshalFails(v) == NotJSON \in Leaves(v)

\* jsonSize, with one byte for what is neither key nor text.
Total(sizes) == FoldLeft(LAMBDA n, m : n + m, 0, sizes)
LeafSize(leaf) ==
    CASE leaf.kind = "text" -> Bytes(leaf.text)
      [] leaf.kind = "strings" -> Bytes(FlattenSeq(leaf.items))
      [] leaf.kind = "typed" ->
           MapThenSumSet(LAMBDA k : Bytes(k) + Bytes(leaf.fields[k]),
                         DOMAIN leaf.fields)
      [] OTHER -> 1
Size(v) ==
    CASE v.kind = "fields" ->
           MapThenSumSet(LAMBDA k : Bytes(k) + LeafSize(v.fields[k]),
                         DOMAIN v.fields)
      [] v.kind = "list" -> Total([i \in DOMAIN v.items |-> LeafSize(v.items[i])])
      [] v.kind = "changes" ->
           Total([i \in DOMAIN v.items |-> LeafSize(v.items[i].old)
                     + LeafSize(v.items[i].new) + Bytes(v.items[i].field)])
      [] OTHER -> LeafSize(v)
JSONSize(v) ==
    IF v = Nil THEN 0
    ELSE IF MarshalFails(v) THEN MaxJSONValueBytes + 1
    ELSE Size(v)

-----------------------------------------------------------------------------
(* Redaction *)

IsSensitiveKey(key) == \E i \in 1..Len(key) - 1 : key[i] = "s" /\ key[i + 1] = "s"

RedactString(text) ==
    FlattenSeq([i \in DOMAIN text |->
                   IF text[i] = "x" THEN RedactedValue ELSE <<text[i]>>])

\* The default case returns the value as it is: a []string, and what is typed.
RedactLeaf(leaf) ==
    IF leaf.kind = "text" THEN Text(RedactString(leaf.text)) ELSE leaf
Named(name, leaf) ==
    IF IsSensitiveKey(name) THEN Text(RedactedValue) ELSE RedactLeaf(leaf)
RedactNamedLeaf(name, leaf) == IF leaf = Nil THEN Nil ELSE Named(name, leaf)

RedactValue(v) ==
    CASE v.kind = "fields" ->
           Fields([k \in DOMAIN v.fields |-> Named(k, v.fields[k])])
      [] v.kind = "list" ->
           List([i \in DOMAIN v.items |-> RedactLeaf(v.items[i])])
      [] v.kind = "changes" ->
           Changes([i \in DOMAIN v.items |->
              [v.items[i] EXCEPT !.old = RedactNamedLeaf(v.items[i].field, @),
                                 !.new = RedactNamedLeaf(v.items[i].field, @)]])
      [] OTHER -> RedactLeaf(v)
RedactNamedValue(name, v) ==
    IF v = Nil THEN Nil
    ELSE IF IsSensitiveKey(name) THEN Text(RedactedValue) ELSE RedactValue(v)

TextFields == {"eventID", "idempotencyKey", "occurredAt", "environment",
    "service", "classification", "retentionHint", "requestID", "traceID",
    "spanID", "userID", "tenantID", "operation", "status", "name", "level",
    "message", "errorCode", "errorMessage", "severity", "stackTrace",
    "startedAt", "finishedAt", "action", "entityType", "entityID", "fieldName",
    "reason"}

\* An Event: its type, its strings, its values and its duration.
EventFields == {"type", "text", "metadata", "data", "changes", "oldValue",
                "newValue", "duration"}
Untyped(e) == {e.metadata, e.data, e.changes, e.oldValue, e.newValue}
IsEvent(e) ==
    /\ DOMAIN e = EventFields /\ e = [f \in EventFields |-> e[f]]
    /\ e.text \in [TextFields -> Seq(STRING)]
    /\ \A v \in Untyped(e) :
          /\ AllTexts(v) \cup AllUnseen(v) \subseteq Seq(STRING)
          /\ v.kind = "changes" =>
                \A c \in Range(v.items) : DOMAIN c = {"field", "old", "new"}
    /\ \A v \in {e.metadata, e.data} : v = Nil \/ v.kind = "fields"

\* The texts that no sensitive key stands for.  A key inside a typed value is
\* none that redaction sees.
Written(leaf) == Texts(leaf) \cup Unseen(leaf)
Exposed(v) ==
    CASE v.kind = "fields" ->
           DOMAIN v.fields \cup UNION {Written(v.fields[k]) :
               k \in {k \in DOMAIN v.fields : ~IsSensitiveKey(k)}}
      [] v.kind = "changes" ->
           UNION {Written(c.old) \cup Written(c.new) :
               c \in {c \in Range(v.items) : ~IsSensitiveKey(c.field)}}
      [] OTHER -> UNION {Written(leaf) : leaf \in Leaves(v)}
ExposedValues(e) ==
    {e.metadata, e.data, e.changes}
        \cup IF IsSensitiveKey(e.text["fieldName"]) THEN {}
             ELSE {e.oldValue, e.newValue}

RedactedTexts == {"message", "errorMessage", "stackTrace", "reason"}
RedactEvent(e) ==
    [e EXCEPT
        !.text = [f \in DOMAIN e.text |-> IF f \in RedactedTexts
                                          THEN RedactString(e.text[f])
                                          ELSE e.text[f]],
        !.metadata = RedactValue(@),
        !.data = RedactValue(@),
        !.changes = RedactValue(@),
        !.oldValue = RedactNamedValue(e.text["fieldName"], @),
        !.newValue = RedactNamedValue(e.text["fieldName"], @)]

-----------------------------------------------------------------------------
(* Limits.  Two keys may be the same once truncated; the map then holds the  *)
(* value of whichever the iteration reached last, so limiting has a set of   *)
(* results.                                                                  *)

\* The default case returns the value as it is, however long its texts.
LimitLeaf(leaf) ==
    CASE leaf.kind = "text" -> Text(Truncate(leaf.text))
      [] leaf.kind = "strings" ->
           Strings([i \in DOMAIN leaf.items |-> Truncate(leaf.items[i])])
      [] OTHER -> leaf

LimitFieldsMap(fields) ==
    LET keys == {Truncate(k) : k \in DOMAIN fields}
        Candidates(k) == {LimitLeaf(fields[j]) :
                             j \in {j \in DOMAIN fields : Truncate(j) = k}}
    IN  {f \in [keys -> UNION {Candidates(k) : k \in keys}] :
            \A k \in keys : f[k] \in Candidates(k)}

LimitValue(v) ==
    CASE v.kind = "fields" -> {Fields(f) : f \in LimitFieldsMap(v.fields)}
      [] v.kind = "list" ->
           {List([i \in DOMAIN v.items |-> LimitLeaf(v.items[i])])}
      [] v.kind = "changes" ->
           {Changes([i \in DOMAIN v.items |->
               [field |-> Truncate(v.items[i].field),
                old |-> LimitLeaf(v.items[i].old),
                new |-> LimitLeaf(v.items[i].new)]])}
      [] OTHER -> {LimitLeaf(v)}

\* {"_truncated": true, "_truncated_field": ...}
Placeholder == Fields([k \in {<<"t">>} |-> Number])

\* limitJSONValue and limitFields
LimitJSONValue(v, maxBytes) ==
    {IF JSONSize(limited) <= maxBytes THEN limited
     ELSE IF JSONSize(Placeholder) <= maxBytes THEN Placeholder ELSE Nil :
         limited \in LimitValue(v)}

\* The strings limitEvent leaves alone.
LimitsEveryString == {}
Unlimited == {"eventID", "occurredAt", "environment", "service", "requestID",
              "traceID", "spanID", "status", "level", "startedAt", "finishedAt"}

LimitedForms(e) ==
    LET text == [f \in DOMAIN e.text |-> IF f \in Unlimited THEN e.text[f]
                                         ELSE Truncate(e.text[f])]
        limited == [metadata : LimitJSONValue(e.metadata, MaxMetadataBytes),
                    data : LimitJSONValue(e.data, MaxDataBytes),
                    changes : LimitJSONValue(e.changes, MaxAuditValueBytes),
                    oldValue : LimitJSONValue(e.oldValue, MaxAuditValueBytes),
                    newValue : LimitJSONValue(e.newValue, MaxAuditValueBytes)]
    IN  {[f \in DOMAIN e |-> CASE f = "text" -> text
                               [] f \in DOMAIN v -> v[f]
                               [] OTHER -> e[f]] : v \in limited}

EventSize(e) ==
    MapThenSumSet(LAMBDA f : Bytes(e.text[f]), DOMAIN e.text)
        + JSONSize(e.metadata) + JSONSize(e.data) + JSONSize(e.changes)
        + JSONSize(e.oldValue) + JSONSize(e.newValue)

\* The error of limitEvent for a limited event, "ok" for none.
LimitError(e) ==
    IF \E v \in Untyped(e) : MarshalFails(v) THEN "json"
    ELSE IF EventSize(e) <= MaxEventBytes THEN "ok" ELSE "max_event_bytes"

-----------------------------------------------------------------------------
(* Defaults and tamper evidence: client.go:224-256, tamper.go:82-93 *)

Default(text, value) == IF text = <<>> THEN value ELSE text

\* newId is what newID("evt_") returns to this call.
WithDefaults(e, newId) ==
    LET key == Trim(e.text["idempotencyKey"])
        id == Default(Default(e.text["eventID"], key), newId)
    IN  [e EXCEPT !.text = [f \in DOMAIN e.text |->
            CASE f = "idempotencyKey" -> Default(key, id)
              [] f = "eventID" -> id
              [] f = "occurredAt" -> Default(e.text[f], <<"t">>)
              [] f \in {"environment", "service"} -> Default(e.text[f], <<"c">>)
              [] OTHER -> e.text[f]]]

\* The evidence enters metadata after the limits were applied.
Sealed(e) ==
    IF ~TamperEvidence THEN e
    ELSE [e EXCEPT !.metadata =
             LET old == IF @ = Nil THEN <<>> ELSE @.fields
                 key == <<"e">>
             IN  Fields([k \in (DOMAIN old) \cup {key} |->
                            IF k = key THEN Number ELSE old[k]])]

-----------------------------------------------------------------------------
(* ValidateEvent: the first check that fails names the error *)

Required(e, f) == [holds |-> ~Blank(e.text[f]), error |-> f]
Timed(e, f) == [holds |-> e.text[f] = <<"t">>, error |-> f]
Known(text) == text = <<"k">>              \* a member of the enumeration
OneOf(e, f) == [holds |-> Known(e.text[f]), error |-> f]
OneOfOrNone(e, f) ==
    [holds |-> Blank(e.text[f]) \/ Known(Trim(e.text[f])), error |-> f]
Marshals(e, f) == [holds |-> ~MarshalFails(e[f]), error |-> f]
Duration(e) == [holds |-> e.duration = "ok", error |-> "duration_ms"]

CommonChecks(e) ==
    <<[holds |-> \/ Blank(e.text["idempotencyKey"])
                 \/ Trim(e.text["eventID"]) = Trim(e.text["idempotencyKey"]),
       error |-> "idempotencyKey"],
      Required(e, "eventID"), Timed(e, "occurredAt"),
      Required(e, "environment"), Required(e, "service"),
      OneOfOrNone(e, "classification"), OneOfOrNone(e, "retentionHint"),
      Marshals(e, "metadata"), Marshals(e, "data")>>

Empty(v) ==
    \/ v.kind \in {"changes", "list"} /\ v.items = <<>>
    \/ v.kind = "fields" /\ DOMAIN v.fields = {}
ChangesValid(v) ==
    v = Nil \/ (v.kind \in {"changes", "list", "fields"} /\ ~Empty(v))

TypeChecks(e) ==
    CASE e.type = "request_started" ->
           <<Required(e, "requestID"), Required(e, "traceID"),
             Required(e, "operation"), Timed(e, "startedAt")>>
      [] e.type = "request_finished" ->
           <<Required(e, "requestID"), Required(e, "traceID"),
             OneOf(e, "status"), Timed(e, "finishedAt"), Duration(e)>>
      [] e.type = "span" ->
           <<Required(e, "traceID"), Required(e, "spanID"), Required(e, "name"),
             Timed(e, "startedAt"), Timed(e, "finishedAt"), Duration(e),
             OneOf(e, "status")>>
      [] e.type = "log_event" -> <<OneOf(e, "level"), Required(e, "message")>>
      [] e.type = "error_event" ->
           <<[holds |-> ~Blank(e.text["errorCode"])
                        \/ ~Blank(e.text["errorMessage"]),
              error |-> "errorCode"],
             Required(e, "severity")>>
      [] e.type = "audit_event" ->
           <<Required(e, "action"), Required(e, "entityType"),
             Required(e, "entityID"),
             [holds |-> {e.changes, e.oldValue, e.newValue} # {Nil},
              error |-> "changes"],
             [holds |-> ChangesValid(e.changes), error |-> "changes"],
             Marshals(e, "changes"), Marshals(e, "oldValue"),
             Marshals(e, "newValue")>>
      [] e.type = "external_provider_exchange" ->
           <<Required(e, "operation"),
             [holds |-> e.data # Nil /\ ~Empty(e.data), error |-> "data"]>>
      [] OTHER -> <<[holds |-> FALSE, error |-> "type"]>>

Validate(e) ==
    LET checks == CommonChecks(e) \o TypeChecks(e)
        failed == {i \in DOMAIN checks : ~checks[i].holds}
    IN  IF failed = {} THEN "ok" ELSE checks[Min(failed)].error
=============================================================================
