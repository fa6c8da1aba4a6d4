--------------------------- MODULE DiscoveryCodec ---------------------------
(***************************************************************************)
(* Discovery datagrams: queries, and replies in the three formats. A       *)
(* datagram is a record of what is written; its tag stands for the FNV tag *)
(* over secret and contents. An advertisement is a record                  *)
(*   common      everything all formats carry                              *)
(*   agent_id    per entity, from format 3 on                              *)
(*   attributes  of endpoint and entities, from format 4 on                *)
(*   valid       what valid_advertisement finds                            *)
(*   bytes       encoded size of the common part and of the attributes     *)
(*   started_at_ms, sequence                                               *)
(***************************************************************************)
EXTENDS Integers

CONSTANT MaxDiscoveryBytes   \* 8192

Format == {2, 3, 4}

NoDatagram == [kind |-> "none"]
Nothing == [kind |-> "nothing"]

encode_discovery_query(query, secret) ==
    IF query.nonce = 0 \/ query.window = 0 \/ query.format \notin Format
    THEN NoDatagram
    ELSE [kind |-> "query", magic |-> query.format, nonce |-> query.nonce,
          window |-> query.window, tag |-> secret]

decode_discovery_query(datagram, secret) ==
    IF datagram.kind # "query" \/ datagram.tag # secret
       \/ datagram.magic \notin Format \/ datagram.nonce = 0 \/ datagram.window = 0
    THEN Nothing
    ELSE [kind |-> "query", nonce |-> datagram.nonce, format |-> datagram.magic]

\* The fields of a reply in a format. The encoder goes by the query's format, the
\* decoder by the magic of the reply.
FieldsOf(format) ==
    {"common"} \cup (IF format >= 3 THEN {"agent_id"} ELSE {})
               \cup (IF format >= 4 THEN {"attributes"} ELSE {})

EncodedBytes(fields, advertisement) ==
    advertisement.bytes.common
        + (IF "attributes" \in fields THEN advertisement.bytes.attributes ELSE 0)

encode_discovery_reply(query, advertisement, secret) ==
    LET fields == FieldsOf(query.format) IN
    IF query.nonce = 0 \/ ~advertisement.valid
       \/ EncodedBytes(fields, advertisement) > MaxDiscoveryBytes
    THEN NoDatagram
    ELSE [kind |-> "reply", magic |-> query.format, nonce |-> query.nonce,
          schema |-> query.format, tag |-> secret,
          body |-> [f \in fields |-> advertisement[f]],
          started_at_ms |-> advertisement.started_at_ms,
          sequence |-> advertisement.sequence]

\* What the reader finds for a field: the value, or the default of a field the
\* format does not have.
Parsed(body, f, default) == IF f \in DOMAIN body THEN body[f] ELSE default

Advertised(datagram) ==
    [kind |-> "advertisement", common |-> datagram.body.common,
     agent_id |-> Parsed(datagram.body, "agent_id", 0),
     attributes |-> Parsed(datagram.body, "attributes", 0),
     started_at_ms |-> datagram.started_at_ms, sequence |-> datagram.sequence]

\* mutant: the nonce is read and not compared
decode_reply_any_nonce(datagram, secret, expected) ==
    IF datagram.kind # "reply" \/ datagram.tag # secret
       \/ datagram.schema # datagram.magic
       \/ DOMAIN datagram.body # FieldsOf(datagram.magic)
    THEN Nothing
    ELSE Advertised(datagram)

\* A body that does not have the fields of its magic leaves the reader at the wrong
\* place: it runs out of bytes or does not end at the last one.
\* The checks that every datagram of an advertiser passes are left out: versions,
\* sizes, valid_advertisement.
decode_discovery_reply(datagram, secret, expected) ==
    IF datagram.kind # "reply" \/ datagram.tag # secret
       \/ datagram.nonce # expected
       \/ datagram.schema # datagram.magic
       \/ DOMAIN datagram.body # FieldsOf(datagram.magic)
    THEN Nothing
    ELSE Advertised(datagram)
=============================================================================
