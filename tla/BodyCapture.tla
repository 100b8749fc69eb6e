----------------------------- MODULE BodyCapture -----------------------------
(***************************************************************************)
(* The opt-in capture of a request body, logcenter/bodycapture.go.  A body *)
(* is the sequence of what is still to be read from it; "!" is a read      *)
(* error.  How the captured bytes are decoded is left out.                 *)
(***************************************************************************)
EXTENDS Integers, Sequences, SequencesExt

CONSTANTS MaxInt64,      \* the largest int64
          DefaultMax     \* DefaultRequestBodyCaptureMaxBytes

ASSUME CaptureAssumption == MaxInt64 \in Nat /\ DefaultMax \in 1..MaxInt64 - 1

\* int64 addition of 1.
Successor(n) == IF n = MaxInt64 THEN -MaxInt64 - 1 ELSE n + 1

MaxBytes(option) == IF option <= 0 THEN DefaultMax ELSE option

\* io.ReadAll(io.LimitReader(body, limit)), up to a read error.
ReadLimited(body, limit) ==
    LET n == IF limit < 0 THEN 0 ELSE IF limit > Len(body) THEN Len(body) ELSE limit
        errors == {i \in 1..n : body[i] = "!"}
    IN  SubSeq(body, 1, IF errors = {} THEN n ELSE Min(errors) - 1)
Buffer(body, option) == ReadLimited(body, Successor(MaxBytes(option)))

\* The new r.Body: the buffer, then the rest of the original.
RestoresWhatItCaptured(body, option) ==
    LET buffer == Buffer(body, option)
    IN  (IF Len(buffer) > MaxBytes(option)
         THEN SubSeq(buffer, 1, MaxBytes(option)) ELSE buffer)
            \o SubSeq(body, Len(buffer) + 1, Len(body))
Restored(body, option) ==
    LET buffer == Buffer(body, option)
    IN  buffer \o SubSeq(body, Len(buffer) + 1, Len(body))

\* What CaptureHTTPRequestBody gets, empty for "nothing captured": also when
\* reading failed before the limit.
Captured(body, option) ==
    LET buffer == Buffer(body, option)
        failed == /\ Len(buffer) < Len(body)
                  /\ Len(buffer) < Successor(MaxBytes(option))
    IN  IF failed THEN <<>>
        ELSE IF Len(buffer) > MaxBytes(option)
             THEN SubSeq(buffer, 1, MaxBytes(option))
             ELSE buffer
=============================================================================
