---- MODULE Codecs ----
(***************************************************************************)
(* One message from the object an application fills in to the object the   *)
(* receiving application gets: encode of the payload, publish through the  *)
(* C ABI, WireCodec::encode, the link, WireCodec::decode and decode of     *)
(* the payload.  The payload may be one that another implementation wrote  *)
(* (a byte changed, cut off or appended, the entries of a map in another   *)
(* order), the frame may be damaged by the link, or come from a peer whose *)
(* header does not fit its contents but whose checksum is right.           *)
(***************************************************************************)
EXTENDS WireCodec

CONSTANTS PayloadsOf(_),   \* the payloads of a message
          Typical(_),      \* the payload of a message that is tampered with
          Headers,         \* what an application passes to publish beside the payload
          TypicalHeader,
          Probe,           \* the message that is sent with every header
          Endpoint         \* config.endpoint_uid

ASSUME CodecsAssumption == TypicalHeader \in Headers /\ valid_uid(Endpoint)

VARIABLES pc,         \* "encode", "publish", "link" or "done"
          message, payload,
          bytes,      \* the encoded payload
          foreign,    \* the payload was changed after it was encoded
          result,     \* what publish returned
          sent,       \* the envelope that publish encoded
          frame,      \* its bytes
          altered,    \* the frame was changed after it was encoded
          received,   \* what WireCodec::decode returned
          got         \* what decode of the payload returned

vars == <<pc, message, payload, bytes, foreign, result, sent, frame, altered, received, got>>

Now == <<0, 9>>
Nothing == [code |-> "none", consumed |-> 0, envelope |-> <<>>]

Init ==
    /\ message \in Message
    /\ payload \in PayloadsOf(message)
    /\ pc = "encode" /\ bytes = <<>> /\ foreign = FALSE
    /\ result = "none" /\ sent = <<>> /\ frame = <<>> /\ altered = FALSE
    /\ received = Nothing /\ got = Refused
----------------------------------------------------------------------------
EncodePayload ==
    /\ pc = "encode"
    /\ pc' = "publish"
    /\ bytes' = encode_payload(message, payload)
    /\ UNCHANGED <<message, payload, foreign, result, sent, frame, altered, received, got>>

\* Byte i of data moved by d.
Moved(data, i, d) == [data EXCEPT ![i] = (@ + d) % 256]

\* The payload of another implementation: a byte differs, it ends early or late, or
\* the entries of its maps are in another order.
PeerPayload ==
    /\ pc = "publish" /\ ~foreign /\ payload = Typical(message)
    /\ foreign' = TRUE
    /\ bytes' \in {SubSeq(bytes, 1, n) : n \in 0..(Len(bytes) - 1)}
                  \cup {bytes \o <<0>>, bytes \o <<0, 0>>,
                        PayloadBytes(message, payload, FALSE)}
                  \cup {Moved(bytes, i, d) : i \in 1..Len(bytes), d \in {1, 255}}
    /\ UNCHANGED <<pc, message, payload, result, sent, frame, altered, received, got>>

\* Runtime::publish: the envelope of a header and a payload.
EnvelopeFor(h) ==
    h @@ [ protocol_major |-> 2, header_version |-> 2, schema_version |-> 2, flags |-> 0,
           session_id |-> <<0, 1>>, message_id |-> <<0, 1>>, created_at_ms |-> Now,
           key_epoch |-> 0, auth_tag |-> <<>>, endpoint_uid |-> Endpoint,
           payload |-> bytes ]

\* What yunlink_v2_runtime_publish and copy_target demand of their arguments.
ArgumentsValid(h) == h.family \in 1..9 /\ h.qos_class \in 1..4 /\ h.scope \in 1..4

Publish ==
    /\ pc = "publish"
    /\ \E h \in Headers :
         /\ h = TypicalHeader \/ (message = Probe /\ payload = Typical(Probe) /\ ~foreign)
         /\ IF ~ArgumentsValid(h)
            THEN /\ result' = "kInvalidArgument"
                 /\ pc' = "done"
                 /\ UNCHANGED <<sent, frame>>
            ELSE /\ sent' = EnvelopeFor(h)
                 /\ frame' = encode(sent', TRUE, Now)
                 /\ result' = IF frame' = <<>> THEN "kEncodeError" ELSE "kOk"
                 /\ pc' = IF frame' = <<>> THEN "done" ELSE "link"
    /\ UNCHANGED <<message, payload, bytes, foreign, altered, received, got>>

\* The link changes one byte.
LinkDamage ==
    /\ pc = "link" /\ ~altered /\ ~foreign
    /\ message = Probe /\ payload = Typical(Probe) /\ sent = EnvelopeFor(TypicalHeader)
    /\ altered' = TRUE
    /\ \E i \in 1..Len(frame), d \in {1, 255} : frame' = Moved(frame, i, d)
    /\ UNCHANGED <<pc, message, payload, bytes, foreign, result, sent, received, got>>

\* The frame with the checksum that its own lengths ask for.
Sealed(data) ==
    LET n == FieldAt(data, FixedOffsets.header_len) + FieldAt(data, FixedOffsets.payload_len)
        sum == checksum(SubSeq(data, 1, n))
    IN IF n \notin 0..(Len(data) - kTrailerSize) THEN data
       ELSE [i \in 1..Len(data) |-> IF i \in (n + 1)..(n + 4) THEN sum[i - n] ELSE data[i]]

\* A peer sends a header that differs in one byte, with the checksum of what it sends.
PeerFrame ==
    /\ pc = "link" /\ ~altered /\ ~foreign
    /\ message = Probe /\ payload = Typical(Probe) /\ sent = EnvelopeFor(TypicalHeader)
    /\ altered' = TRUE
    /\ \E i \in 1..(Len(frame) - kTrailerSize), d \in {1, 255} :
         frame' = Sealed(Moved(frame, i, d))
    /\ UNCHANGED <<pc, message, payload, bytes, foreign, result, sent, received, got>>

Receive ==
    /\ pc = "link"
    /\ pc' = "done"
    /\ received' = decode(frame)
    /\ got' = IF received'.code = "kOk"
              THEN decode_payload(message, received'.envelope.payload) ELSE Refused
    /\ UNCHANGED <<message, payload, bytes, foreign, result, sent, frame, altered>>

Next == EncodePayload \/ PeerPayload \/ Publish \/ LinkDamage \/ PeerFrame \/ Receive

Spec == Init /\ [][Next]_vars
----------------------------------------------------------------------------
(* Properties                                                              *)

\* What a receiver demands of a payload that the writer does not check.
Obligation(type, f, x) ==
    /\ f \in {"endpoint_uid", "entity_uid", "stream_uid", "log_uid", "owner_uid"} =>
         valid_uid(x)
    /\ f \in {"entity_uids", "attached_entity_uids"} =>
         \A i \in 1..Len(x) : valid_uid(x[i])
    /\ f \in {"minimum", "maximum"} => isfinite(x)
    /\ f \in {"max_bytes", "major"} => x # 0
    /\ f = "progress_percent" => x <= 100
    /\ f = "profile_id" => valid_uid(x)
    /\ f = "type_name" => Len(x) \in 1..MaxTypeName
    /\ (f = "type" /\ type = ConfigFieldSchema) => x # 7

RECURSIVE Conforms(_, _)
Conforms(type, v) ==
    CASE type.t = "rec" -> \A f \in DOMAIN type.of : Obligation(type, f, v[f])
                                                     /\ Conforms(type.of[f], v[f])
      [] type.t = "list" -> \A i \in 1..Len(v) : Conforms(type.of, v[i])
      [] type.t = "part" -> Conforms(type.of, v)
      [] OTHER -> TRUE

\* Whatever publish accepts arrives: the envelope is the one that was sent, and
\* the payload is the one that was encoded, in every member, exactly when the
\* writer accepted it and it meets what only readers check.  A payload that the
\* writer refused (it is then empty) is never taken for another one.
RoundTrip ==
    (pc = "done" /\ result = "kOk" /\ ~foreign /\ ~altered) =>
        /\ received.code = "kOk"
        /\ received.envelope = sent
        /\ received.consumed = Len(frame)
        /\ got.ok = (bytes # <<>> /\ Conforms(TypeOf[message], payload))
        /\ got.ok => got.v = payload

\* The frame `data` with the reserved bytes of the frame on the link.
WithReserved(data) ==
    Sealed([i \in 1..Len(data) |-> IF i - 1 \in Reserved THEN frame[i] ELSE data[i]])

\* The bytes that decode takes for an object: the entries of its maps in either
\* order, and an empty locale written out or left out.
Spellings(m, v) ==
    LET plain == {PayloadBytes(m, v, TRUE), PayloadBytes(m, v, FALSE)}
    IN plain \cup {data \o <<0, 0>> : data \in {p \in plain :
                      m = "ConfigResourceDescribeRequest" /\ v.locale = <<>>}}

\* decode ignores nothing but what it is known to ignore.  A frame that it accepts,
\* damaged or made by a peer with other lengths, is byte for byte the frame of the
\* envelope it returns, except for the four reserved bytes, which it never reads; a
\* payload that it accepts, cut, longer, changed or reordered, is a spelling of the
\* object it returns, unless only a reader takes that object, because its strings are
\* longer than a writer may write.
NothingElseIgnored ==
    received.code = "kOk" =>
        /\ SubSeq(frame, 1, received.consumed) =
               WithReserved(encode(received.envelope, FALSE, Now))
        /\ got.ok => \/ received.envelope.payload \in Spellings(message, got.v)
                     \/ encode_payload(message, got.v) = <<>>
====
