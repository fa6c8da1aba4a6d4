---- MODULE PayloadCodec ----
(***************************************************************************)
(* The writers and readers of the payloads of PayloadTypes.  Encoding      *)
(* yields real bytes and decoding reads them back.  What one encode or     *)
(* decode function does is the list of the fields it writes or reads, in   *)
(* its order; the two lists are translated from the two functions.         *)
(***************************************************************************)
EXTENDS PayloadTypes, Sequences, FiniteSets, SequencesExt

CONSTANTS MaxText,      \* UINT16_MAX, the limit of Writer::text, list and map
          MaxString,    \* kMaxCoreStringBytes, the limit of write_string
          MaxItems,     \* kMaxConfigItems
          MaxUid,       \* kMaxUidBytes and kMaxProfileIdBytes
          MaxTypeName   \* kMaxTypeNameBytes

\* The limits fit a length of two bytes with a zero high byte, and every limit
\* of a reader is below the one of the writer.
ASSUME LimitAssumption ==
    /\ {MaxText, MaxString, MaxItems, MaxUid, MaxTypeName} \subseteq 1..255
    /\ MaxString < MaxText /\ MaxUid < MaxText /\ MaxTypeName < MaxText

\* The exponent of a double that is not finite is all ones.
isfinite(v) == (v[1] \div 1048576) % 2048 # 2047

Alphanumeric == {97, 98, 99}

valid_uid(s) == Len(s) \in 1..MaxUid /\ \A i \in 1..Len(s) : s[i] \in Alphanumeric

valid_type_ref(r) ==
    valid_uid(r.profile_id) /\ Len(r.type_name) \in 1..MaxTypeName /\ r.major > 0
----------------------------------------------------------------------------
(* What a writer or reader does with one field.  `ok` is the check it      *)
(* makes on the value.                                                     *)

Unchecked == <<"any">>
Within(lo, hi) == <<"range", lo, hi>>
Checked(ok, v) ==
    CASE ok[1] = "any" -> TRUE
      [] ok[1] = "range" -> v \in ok[2]..ok[3]
      [] ok[1] = "uid" -> valid_uid(v)
      [] ok[1] = "finite" -> isfinite(v)
      [] ok[1] = "type_ref" -> valid_type_ref(v)
      [] ok[1] = "major" -> v.major > 0
      [] ok[1] = "positive" -> v # 0

Number(w, ok) == [k |-> "number", w |-> w, ok |-> ok]
U8 == Number(1, Unchecked)
U16 == Number(2, Unchecked)
U32 == Number(4, Unchecked)
U64 == [k |-> "wide", ok |-> Unchecked]
Flag == Number(1, Within(0, 1))
Double == U64
Finite == [U64 EXCEPT !.ok = <<"finite">>]
Text == [k |-> "text", w |-> 2, max |-> MaxText, ok |-> Unchecked]
Uid == [Text EXCEPT !.ok = <<"uid">>]
Blob == [Text EXCEPT !.w = 4, !.max = 255]
String == [Text EXCEPT !.max = MaxString]
Items(kind, max) == [k |-> "list", of |-> kind, max |-> max]
Pairs == [k |-> "map", max |-> MaxText]

\* The string that is there only when it is not empty.
LastString == [k |-> "last"]

\* The members of an object, in their order on the wire.
Members(type, fields, ok) == [k |-> "rec", type |-> type, of |-> fields, ok |-> ok]
F(name, kind) == [name |-> name, of |-> kind, when |-> <<>>]
When(flag, on, name, kind) == [name |-> name, of |-> kind, when |-> <<flag, on>>]
Present(field, v) == field.when = <<>> \/ v[field.when[1]] = field.when[2]

(* Writing.  A writer that is invalidated goes on; take() then drops all   *)
(* it wrote.                                                               *)
Invalid == -1

RECURSIVE LittleEndian(_, _)
LittleEndian(v, w) ==
    IF w = 0 THEN <<>> ELSE <<v % 256>> \o LittleEndian(v \div 256, w - 1)

\* The order of the keys of a std::map: byte after byte, a prefix first.
KeyBefore(a, b) ==
    \/ IsStrictPrefix(a, b)
    \/ \E i \in 1..Len(a) : /\ i <= Len(b) /\ a[i] < b[i]
                            /\ SubSeq(a, 1, i - 1) = SubSeq(b, 1, i - 1)

\* The runtime writes the entries of a map in ascending order of their keys. Another
\* implementation may not, which `ascending` = FALSE stands for.
RECURSIVE Write(_, _, _)
Write(kind, v, ascending) ==
    LET Sized(body) == IF Cardinality(DOMAIN v) > kind.max THEN <<Invalid>>
                       ELSE LittleEndian(Cardinality(DOMAIN v), 2) \o body
    IN CASE kind.k = "number" ->
              IF Checked(kind.ok, v) THEN LittleEndian(v, kind.w) ELSE <<Invalid>>
         [] kind.k = "wide" ->
              IF Checked(kind.ok, v) THEN LittleEndian(v[2], 4) \o LittleEndian(v[1], 4)
                                     ELSE <<Invalid>>
         [] kind.k = "text" ->
              IF Len(v) > kind.max \/ ~Checked(kind.ok, v) THEN <<Invalid>>
              ELSE LittleEndian(Len(v), kind.w) \o v
         [] kind.k = "last" -> IF v = <<>> THEN <<>> ELSE Write(String, v, ascending)
         [] kind.k = "list" ->
              Sized(FlattenSeq([i \in 1..Len(v) |-> Write(kind.of, v[i], ascending)]))
         [] kind.k = "map" ->
              LET sorted == SetToSortSeq(DOMAIN v, KeyBefore)
                  keys == IF ascending THEN sorted ELSE Reverse(sorted)
              IN Sized(FlattenSeq([i \in 1..Len(keys) |->
                           Write(Text, keys[i], ascending)
                           \o Write(Text, v[keys[i]], ascending)]))
         [] kind.k = "rec" ->
              FlattenSeq([i \in 1..Len(kind.of) |->
                  IF Present(kind.of[i], v)
                  THEN Write(kind.of[i].of, v[kind.of[i].name], ascending)
                  ELSE <<>>])

take(data) == IF \E i \in 1..Len(data) : data[i] = Invalid THEN <<>> ELSE data

(* Reading: `at` bytes have been read so far.                              *)
Refused == [ok |-> FALSE, at |-> 0, v |-> <<>>]
Got(at, v) == [ok |-> TRUE, at |-> at, v |-> v]

RECURSIVE Unsigned(_)
Unsigned(bytes) ==
    IF bytes = <<>> THEN 0 ELSE bytes[1] + 256 * Unsigned(Tail(bytes))

\* Four bytes with the top bit set spell a negative number.
Spelled(bytes) ==
    IF Len(bytes) = 4 /\ bytes[4] > 127
    THEN Unsigned([bytes EXCEPT ![4] = 0]) + 16777216 * (bytes[4] - 256)
    ELSE Unsigned(bytes)

RECURSIVE Read(_, _, _), ReadItems(_, _, _, _), ReadEntries(_, _, _), ReadMembers(_, _, _)

\* n more items, map entries or members after those in acc.
ReadItems(kind, data, acc, n) ==
    IF n = 0 THEN acc
    ELSE LET r == Read(kind, data, acc.at)
         IN IF r.ok THEN ReadItems(kind, data, Got(r.at, Append(acc.v, r.v)), n - 1)
                    ELSE Refused

ReadEntries(data, acc, n) ==
    IF n = 0 THEN acc
    ELSE LET key == Read(Text, data, acc.at)
             value == Read(Text, data, key.at)
         IN IF key.ok /\ value.ok /\ key.v \notin DOMAIN acc.v
            THEN ReadEntries(data, Got(value.at, acc.v @@ (key.v :> value.v)), n - 1)
            ELSE Refused

ReadMembers(fields, data, acc) ==
    IF fields = <<>> THEN acc
    ELSE LET f == Head(fields)
             r == Read(f.of, data, acc.at)
         IN IF ~Present(f, acc.v) THEN ReadMembers(Tail(fields), data, acc)
            ELSE IF r.ok THEN ReadMembers(Tail(fields), data,
                                          Got(r.at, [acc.v EXCEPT ![f.name] = r.v]))
            ELSE Refused

Read(kind, data, at) ==
    LET Size(w) == Read(Number(w, Unchecked), data, at)
    IN CASE kind.k = "number" ->
              IF at + kind.w > Len(data) THEN Refused
              ELSE LET v == Spelled(SubSeq(data, at + 1, at + kind.w))
                   IN IF Checked(kind.ok, v) THEN Got(at + kind.w, v) ELSE Refused
         [] kind.k = "wide" ->
              LET low == Read(U32, data, at)
                  high == Read(U32, data, at + 4)
              IN IF low.ok /\ high.ok /\ Checked(kind.ok, <<high.v, low.v>>)
                 THEN Got(at + 8, <<high.v, low.v>>) ELSE Refused
         [] kind.k = "text" ->
              LET size == Size(kind.w)
                  v == SubSeq(data, size.at + 1, size.at + size.v)
              IN IF ~size.ok \/ size.v \notin 0..(Len(data) - size.at) \/ ~Checked(kind.ok, v)
                 THEN Refused ELSE Got(size.at + size.v, v)
         [] kind.k = "last" ->
              IF at = Len(data) THEN Got(at, <<>>) ELSE Read(String, data, at)
         [] kind.k = "list" ->
              LET count == Size(2)
              IN IF ~count.ok \/ count.v > kind.max THEN Refused
                 ELSE ReadItems(kind.of, data, Got(count.at, <<>>), count.v)
         [] kind.k = "map" ->
              LET count == Size(2)
              IN IF ~count.ok THEN Refused
                 ELSE ReadEntries(data, Got(count.at, <<>>), count.v)
         [] kind.k = "rec" ->
              LET all == ReadMembers(kind.of, data, Got(at, Default(kind.type)))
              IN IF all.ok /\ Checked(kind.ok, all.v) THEN all ELSE Refused
----------------------------------------------------------------------------
(* Core messages: what each encode function writes, and what each decode   *)
(* function reads and checks.                                              *)

write_type ==
    Members(TypeRef, <<F("profile_id", Text), F("major", U16), F("minor", U16),
                       F("type_name", Text)>>, Unchecked)

read_type == [write_type EXCEPT !.ok = <<"type_ref">>]

write_entity ==
    Members(EntityDescriptor,
            <<F("entity_uid", Text), F("kind", Text), F("display_name", Text),
              F("hardware_id", Text), F("attributes", Pairs),
              F("capabilities", Items(Text, MaxText)), F("availability", U8)>>, Unchecked)

read_entity ==
    Members(EntityDescriptor,
            <<F("entity_uid", Uid), F("kind", Text), F("display_name", Text),
              F("hardware_id", Text), F("attributes", Pairs),
              F("capabilities", Items(Text, 65535)),
              F("availability", Number(1, Within(0, 3)))>>, Unchecked)

write_log_summary ==
    Members(LogSummary,
            <<F("log_uid", Text), F("owner_uid", Text), F("title", Text), F("state", Text),
              F("started_at_ns", U64), F("finished_at_ns", U64), F("has_exit_code", U8),
              F("exit_code", U32), F("labels", Pairs), F("message", Text)>>, Unchecked)

read_log_summary ==
    Members(LogSummary,
            <<F("log_uid", Uid), F("owner_uid", Uid), F("title", Text), F("state", Text),
              F("started_at_ns", U64), F("finished_at_ns", U64), F("has_exit_code", Flag),
              F("exit_code", U32), F("labels", Pairs), F("message", Text)>>, Unchecked)

WriteStream ==
    Members(StreamDescriptor, <<F("stream_uid", Text), F("type", write_type),
                                F("encoding", Text), F("metadata", Pairs)>>, Unchecked)

ReadStream ==
    Members(StreamDescriptor, <<F("stream_uid", Uid), F("type", read_type),
                                F("encoding", Text), F("metadata", Pairs)>>, Unchecked)

CoreEncode ==
  [ EntityDirectory |-> <<F("endpoint_uid", Text), F("revision", Text),
                          F("entities", Items(write_entity, MaxText))>>,
    AttachmentRequest |-> <<F("expected_revision", Text),
                            F("entity_uids", Items(Text, MaxText))>>,
    AttachmentResponse |-> <<F("success", U8), F("revision", Text),
                             F("attached_entity_uids", Items(Text, MaxText)),
                             F("message", Text)>>,
    AuthorityRequest |-> <<F("authority_scope", Text), F("lease_ttl_ms", U32),
                           F("allow_preempt", U8)>>,
    AuthorityStatus |-> <<F("authority_scope", Text), F("state", Text),
                          F("lease_ttl_ms", U32), F("reason_code", U16), F("detail", Text)>>,
    StreamCatalog |-> <<F("revision", Text), F("streams", Items(WriteStream, MaxText))>>,
    StreamSubscription |-> <<F("stream_uid", Text), F("max_rate_hz", U32),
                             F("max_payload_bytes", U32)>>,
    StreamSubscriptionStatus |-> <<F("success", U8), F("subscribed", U8),
                                   F("stream_uid", Text), F("max_rate_hz", U32),
                                   F("max_payload_bytes", U32), F("message", Text)>>,
    StreamSample |-> <<F("stream_uid", Text), F("encoding", Text), F("metadata", Pairs),
                       F("source_timestamp_ns", U64), F("sequence", U64), F("data", Blob)>>,
    ActionUpdate |-> <<F("phase", U8), F("result_code", U16), F("progress_percent", U8),
                       F("detail", Text)>>,
    BulkDescriptor |-> <<F("media_type", Text), F("encoding", Text), F("metadata", Pairs),
                         F("total_bytes", U64)>>,
    LogListResponse |-> <<F("success", U8), F("message", Text),
                          F("logs", Items(write_log_summary, MaxText))>>,
    LogReadRequest |-> <<F("log_uid", Text), F("cursor", U64), F("max_bytes", U32)>>,
    LogReadResponse |-> <<F("success", U8), F("message", Text), F("log_uid", Text),
                          F("chunk", Text), F("next_cursor", U64), F("truncated", U8),
                          F("eof", U8)>> ]

CoreDecode ==
  [ EntityDirectory |-> <<F("endpoint_uid", Uid), F("revision", Text),
                          F("entities", Items(read_entity, 65535))>>,
    AttachmentRequest |-> <<F("expected_revision", Text),
                            F("entity_uids", Items(Uid, 65535))>>,
    AttachmentResponse |-> <<F("success", Flag), F("revision", Text),
                             F("attached_entity_uids", Items(Uid, 65535)),
                             F("message", Text)>>,
    AuthorityRequest |-> <<F("authority_scope", Text), F("lease_ttl_ms", U32),
                           F("allow_preempt", Flag)>>,
    AuthorityStatus |-> <<F("authority_scope", Text), F("state", Text),
                          F("lease_ttl_ms", U32), F("reason_code", U16), F("detail", Text)>>,
    StreamCatalog |-> <<F("revision", Text), F("streams", Items(ReadStream, 65535))>>,
    StreamSubscription |-> <<F("stream_uid", Uid), F("max_rate_hz", U32),
                             F("max_payload_bytes", U32)>>,
    StreamSubscriptionStatus |-> <<F("success", Flag), F("subscribed", Flag),
                                   F("stream_uid", Uid), F("max_rate_hz", U32),
                                   F("max_payload_bytes", U32), F("message", Text)>>,
    StreamSample |-> <<F("stream_uid", Uid), F("encoding", Text), F("metadata", Pairs),
                       F("source_timestamp_ns", U64), F("sequence", U64), F("data", Blob)>>,
    ActionUpdate |-> <<F("phase", Number(1, Within(1, 7))), F("result_code", U16),
                       F("progress_percent", Number(1, Within(0, 100))), F("detail", Text)>>,
    BulkDescriptor |-> <<F("media_type", Text), F("encoding", Text), F("metadata", Pairs),
                         F("total_bytes", U64)>>,
    LogListResponse |-> <<F("success", Flag), F("message", Text),
                          F("logs", Items(read_log_summary, 65535))>>,
    LogReadRequest |-> <<F("log_uid", Uid), F("cursor", U64),
                         F("max_bytes", Number(4, <<"positive">>))>>,
    LogReadResponse |-> <<F("success", Flag), F("message", Text), F("log_uid", Uid),
                          F("chunk", Text), F("next_cursor", U64), F("truncated", Flag),
                          F("eof", Flag)>> ]

(* The payloads of the session handshake.                                  *)

WriteProfile ==
    Members(ProfileDescriptor, <<F("profile_id", Uid), F("major", U16), F("minor", U16),
                                 F("schema_digest", Text)>>, Unchecked)

ReadProfile ==
    Members(ProfileDescriptor, <<F("profile_id", Uid), F("major", U16), F("minor", U16),
                                 F("schema_digest", Text)>>, <<"major">>)

SessionEncode ==
  [ SessionText |-> <<F("value", Text)>>,
    ProfileList |-> <<F("profiles", Items(WriteProfile, MaxText))>> ]

SessionDecode ==
  [ SessionText |-> <<F("value", Text)>>,
    ProfileList |-> <<F("profiles", Items(ReadProfile, 65535))>> ]
====
