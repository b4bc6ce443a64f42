---------------------------- MODULE Envelopes ----------------------------
(***************************************************************************)
(* The failure envelopes of service/app/failures.py and the routing rule   *)
(* of service/app/routing.py.  An envelope is what the retry topic and the *)
(* dead-letter topic (DLQ) carry.  Of its fields the model keeps those a   *)
(* consumer decides on; timestamps, source and Kafka coordinates are       *)
(* provenance nobody branches on, and the error text is abstracted to the  *)
(* class of the failure it reports.                                        *)
(***************************************************************************)
EXTENDS Naturals

CONSTANTS
    Payloads,        \* what an original Kafka value can be: edits and garbage
    MaxRetryPasses   \* settings.max_retry_passes

ASSUME MaxRetryPassesAssumption == MaxRetryPasses \in Nat

EnvelopeSchema == 1  \* the version this code stamps and understands
NewerSchema    == 2  \* the version some later producer stamps

RetryTopic == "retry"
DlqTopic   == "dlq"

TransientExhausted == "transient_exhausted"
ParseFailed        == "parse_failed"
Malformed          == "malformed"
RetriesExhausted   == "retries_exhausted"
Reasons == {TransientExhausted, ParseFailed, Malformed, RetriesExhausted}

\* The class of the exception whose text the envelope carries: the model was
\* unavailable, its output was unusable, the value could not be decoded, the
\* data does not fit the table, or the handler's connection object was closed.
Failures   == {"transient", "parse"}
Rejections == {"decode", "data", "closed"}

Envelope == [schema   : {EnvelopeSchema, NewerSchema},
             reason   : Reasons,
             error    : Failures \cup Rejections,
             payload  : Payloads,
             attempts : Nat]

MakeEnvelope(reason, error, payload, attempts) ==
    [schema   |-> EnvelopeSchema,
     reason   |-> reason,
     error    |-> error,
     payload  |-> payload,
     attempts |-> attempts]

\* park_malformed passes no attempt count, so the default of 1 stands.
MalformedEnvelope(error, payload) == MakeEnvelope(Malformed, error, payload, 1)

---------------------------------------------------------------------------
\* transient_destination: where an edit goes after its `attempts`-th
\* transient failure.  (Bug variant: one pass more than the budget.)
OneMorePass(attempts) ==
    IF attempts > 1 + MaxRetryPasses THEN DlqTopic ELSE RetryTopic

TransientTopic(attempts) ==
    IF attempts >= 1 + MaxRetryPasses THEN DlqTopic ELSE RetryTopic

TransientReason(attempts) ==
    IF TransientTopic(attempts) = DlqTopic THEN RetriesExhausted
                                           ELSE TransientExhausted

\* An envelope the sweeper can classify again; the rest are evidence for a
\* human.
Classifiable(envelope) ==
    /\ envelope.schema = EnvelopeSchema
    /\ envelope.reason # Malformed
==========================================================================
