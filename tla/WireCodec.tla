---- MODULE WireCodec ----
(***************************************************************************)
(* WireCodec: an envelope as the bytes of one frame, and back.  The fixed  *)
(* header is written field after field and read at fixed offsets; the      *)
(* variable part is read by a cursor that the lengths in the fixed header  *)
(* move.  The checksum is the FNV-1a hash of the code, in two halves of    *)
(* sixteen bits.                                                           *)
(***************************************************************************)
EXTENDS ConfigurationCodec, Bitwise

CONSTANTS MaxHeader,    \* the largest header_len, UINT16_MAX
          MaxPayload    \* kMaxPayloadBytes

kFixedHeaderSize == 80
kTrailerSize == 4
kBroadcast == 4
kMagic == <<89, 76, 78, 75>>
----------------------------------------------------------------------------
\* Byte a xor byte b.
XorByte == [a \in 0..255 |-> [b \in 0..255 |-> a ^^ b]]

\* hash = (hash xor byte) * 16777619 mod 2^32, with hash = hi * 65536 + lo.
HashByte(hash, byte) ==
    LET lo == (hash.lo - (hash.lo % 256)) + XorByte[hash.lo % 256][byte]
    IN [lo |-> (lo * 403) % 65536,
        hi |-> ((hash.hi * 403) + (lo * 256) + ((lo * 403) \div 65536)) % 65536]

\* The hash of bytes i to j, half by half to keep the recursion flat.
checksum(data) ==
    LET hash[h \in [hi : 0..65535, lo : 0..65535], i, j \in Nat] ==
          IF i = j THEN HashByte(h, data[i])
          ELSE LET m == (i + j) \div 2 IN hash[hash[h, i, m], m + 1, j]
        sum == hash[[hi |-> 33052, lo |-> 40389], 1, Len(data)]
    IN LittleEndian(sum.lo, 2) \o LittleEndian(sum.hi, 2)

\* The fields of the fixed header and their widths, in the order they are written.
FixedFields ==
    << <<"protocol_major", 1>>, <<"header_version", 1>>, <<"flags", 2>>, <<"header_len", 2>>,
       <<"payload_len", 4>>, <<"qos_class", 1>>, <<"family", 1>>, <<"operation", 1>>,
       <<"zero", 1>>, <<"schema_version", 2>>, <<"session_id", 8>>, <<"message_id", 8>>,
       <<"correlation_id", 8>>, <<"created_at_ms", 8>>, <<"ttl_ms", 4>>, <<"key_epoch", 4>>,
       <<"endpoint_len", 2>>, <<"entity_len", 2>>, <<"target_count", 2>>, <<"auth_len", 2>>,
       <<"profile_len", 2>>, <<"type_len", 2>>, <<"scope", 1>>, <<"zero", 1>>,
       <<"major", 2>>, <<"minor", 2>>, <<"zero", 2>> >>

\* Where decode finds each field.
FixedOffsets ==
    [ protocol_major |-> <<4, 1>>, header_version |-> <<5, 1>>, flags |-> <<6, 2>>,
      header_len |-> <<8, 2>>, payload_len |-> <<10, 4>>, qos_class |-> <<14, 1>>,
      family |-> <<15, 1>>, operation |-> <<16, 1>>, schema_version |-> <<18, 2>>,
      session_id |-> <<20, 8>>, message_id |-> <<28, 8>>, correlation_id |-> <<36, 8>>,
      created_at_ms |-> <<44, 8>>, ttl_ms |-> <<52, 4>>, key_epoch |-> <<56, 4>>,
      endpoint_len |-> <<60, 2>>, entity_len |-> <<62, 2>>, target_count |-> <<64, 2>>,
      auth_len |-> <<66, 2>>, profile_len |-> <<68, 2>>, type_len |-> <<70, 2>>,
      scope |-> <<72, 1>>, major |-> <<74, 2>>, minor |-> <<76, 2>> ]

\* The bytes of the fixed header that are written as zero and never read.
Reserved == {17, 73, 78, 79}

Fixed(w, v) == Write(IF w = 8 THEN U64 ELSE Number(w, Unchecked), v, TRUE)
FieldAt(data, place) ==
    Read(IF place[2] = 8 THEN U64 ELSE Number(place[2], Unchecked), data, place[1]).v

TypeRefOf(e) == [profile_id |-> e.profile_id, type_name |-> e.type_name, major |-> e.major]

\* What encode and decode both demand of an envelope's names.
NamesValid(e) ==
    /\ valid_uid(e.endpoint_uid)
    /\ e.entity_uid = <<>> \/ valid_uid(e.entity_uid)
    /\ valid_type_ref(TypeRefOf(e))
    /\ (e.scope = kBroadcast) = (e.uids = <<>>)
    /\ \A i \in 1..Len(e.uids) : valid_uid(e.uids[i])

TargetBytes(e) ==
    FlattenSeq([i \in 1..Len(e.uids) |-> LittleEndian(Len(e.uids[i]), 2) \o e.uids[i]])

VariableBytes(e) ==
    e.endpoint_uid \o e.entity_uid \o TargetBytes(e) \o e.auth_tag \o e.profile_id
    \o e.type_name

\* The lengths a caller supplies when they are not filled in must be these.
encode(e, auto_fill_header, now) ==
    LET header_len == kFixedHeaderSize + Len(VariableBytes(e))
        created == IF auto_fill_header /\ e.created_at_ms = <<0, 0>> THEN now
                   ELSE e.created_at_ms
        value == e @@ [ header_len |-> header_len, payload_len |-> Len(e.payload),
                        endpoint_len |-> Len(e.endpoint_uid),
                        entity_len |-> Len(e.entity_uid), target_count |-> Len(e.uids),
                        auth_len |-> Len(e.auth_tag), profile_len |-> Len(e.profile_id),
                        type_len |-> Len(e.type_name), zero |-> 0 ]
        filled == [value EXCEPT !.created_at_ms = created,
                                !.message_id = IF auto_fill_header /\ @ = <<0, 0>> THEN created
                                                 ELSE @]
        fixed == FlattenSeq([i \in 1..Len(FixedFields) |->
                                Fixed(FixedFields[i][2], filled[FixedFields[i][1]])])
        body == kMagic \o fixed \o VariableBytes(e) \o e.payload
    IN IF \/ <<e.protocol_major, e.header_version, e.schema_version>> # <<2, 2, 2>>
          \/ ~NamesValid(e)
          \/ Len(e.payload) > MaxPayload
          \/ header_len > MaxHeader
       THEN <<>> ELSE body \o checksum(body)
----------------------------------------------------------------------------
(* Decoding.  The cursor over the variable part: `texts` are what it has   *)
(* read, `end` is header_len.                                              *)

read_text(data, c, n) ==
    IF c.ok /\ n <= c.end - c.at
    THEN [c EXCEPT !.at = @ + n, !.texts = Append(@, SubSeq(data, c.at + 1, c.at + n))]
    ELSE [c EXCEPT !.ok = FALSE]

RECURSIVE ReadTargets(_, _, _)
ReadTargets(data, c, n) ==
    IF n = 0 \/ ~c.ok THEN c
    ELSE IF c.at + 2 > c.end THEN [c EXCEPT !.ok = FALSE]
    ELSE ReadTargets(data, read_text(data, [c EXCEPT !.at = @ + 2],
                                     FieldAt(data, <<c.at, 2>>)), n - 1)

ReadTexts(data, h) ==
    LET start == [ok |-> TRUE, at |-> kFixedHeaderSize, end |-> h.header_len, texts |-> <<>>]
        names == read_text(data, read_text(data, start, h.endpoint_len), h.entity_len)
        targets == ReadTargets(data, names, h.target_count)
    IN read_text(data, read_text(data, read_text(data, targets, h.auth_len),
                                 h.profile_len), h.type_len)

\* The texts must fill the header exactly.
ReadVariable(data, h) ==
    LET all == ReadTexts(data, h)
    IN [all EXCEPT !.ok = @ /\ all.at = h.header_len]

EnvelopeOf(h, texts, payload) ==
    LET n == h.target_count
    IN [f \in {"protocol_major", "header_version", "flags", "qos_class", "family", "operation",
               "schema_version", "session_id", "message_id", "correlation_id",
               "created_at_ms", "ttl_ms", "key_epoch", "scope", "major", "minor"} |-> h[f]]
       @@ [ endpoint_uid |-> texts[1], entity_uid |-> texts[2],
            uids |-> SubSeq(texts, 3, n + 2), auth_tag |-> texts[n + 3],
            profile_id |-> texts[n + 4], type_name |-> texts[n + 5], payload |-> payload ]

decode(data) ==
    LET h == [f \in DOMAIN FixedOffsets |-> FieldAt(data, FixedOffsets[f])]
        total_len == h.header_len + h.payload_len + kTrailerSize
        c == ReadVariable(data, h)
        e == EnvelopeOf(h, c.texts, SubSeq(data, h.header_len + 1,
                                           h.header_len + h.payload_len))
        body == SubSeq(data, 1, total_len - kTrailerSize)
        unread ==
          IF Len(data) < kFixedHeaderSize + kTrailerSize THEN "kDecodeError"
          ELSE IF SubSeq(data, 1, 4) # kMagic THEN "kInvalidHeader"
          ELSE IF <<h.protocol_major, h.header_version, h.schema_version>> # <<2, 2, 2>>
               THEN "kProtocolMismatch"
          ELSE IF \/ h.header_len < kFixedHeaderSize
                  \/ h.payload_len \notin 0..MaxPayload
                  \/ Len(data) < total_len
               THEN "kDecodeError"
          ELSE "none"
        code ==
          IF \/ h.qos_class \notin 1..4 \/ h.family \notin 1..9 \/ h.scope \notin 1..4
             \/ ~c.ok \/ ~NamesValid(e)
          THEN "kDecodeError"
          ELSE IF SubSeq(data, total_len - kTrailerSize + 1, total_len) # checksum(body)
               THEN "kChecksumMismatch"
          ELSE "kOk"
    IN IF unread # "none" THEN [code |-> unread, consumed |-> 0, envelope |-> <<>>]
       ELSE [code |-> code, consumed |-> total_len,
             envelope |-> IF code = "kOk" THEN e ELSE <<>>]
====
