---------------------------- MODULE FrameBuffer ----------------------------
(***************************************************************************)
(* The receive side of one connection: runtime_receive_loop, pop_frame and *)
(* recover_receive_overflow.                                               *)
(*                                                                         *)
(* The receive buffer is always a piece of the byte stream the peer wrote, *)
(* so it is kept as two positions: bytes start .. end-1 of the stream are  *)
(* in it. Erasing a prefix moves start, reading moves end. Of the bytes    *)
(* themselves the code tells apart where the magic occurs and, at such a   *)
(* place, what the header says. stream.head maps these positions to        *)
(*   len        header_len + payload_len + trailer                         *)
(*   header_ok  header_len is at least the fixed header                    *)
(*   qos        the QoS byte, or "invalid"                                 *)
(*   decodes    WireCodec::decode accepts the len bytes from there         *)
(*   sent       the sender wrote a frame there; otherwise the magic occurs *)
(*              by chance, in a payload or in bytes that are no frame      *)
(***************************************************************************)
EXTENDS Integers, Sequences, FiniteSets

CONSTANTS
    MaxBuffer,   \* config.max_buffer_bytes_per_peer
    Chunk,       \* size of the array that read_some fills (8192)
    MagicLen,    \* bytes of the magic (4)
    LenAt,       \* bytes until the lengths can be read (14)
    QosAt,       \* bytes until the QoS byte can be read (15)
    Stream       \* streams a peer may write

QosClass == {"reliable_ordered", "reliable_latest", "best_effort", "bulk"}

FrameHead == [len : Nat, header_ok : BOOLEAN, qos : QosClass \cup {"invalid"},
              decodes : BOOLEAN, sent : BOOLEAN]

ASSUME FrameAssumption ==
    /\ MaxBuffer \in Nat /\ Chunk \in Nat \ {0}
    /\ MagicLen \in Nat /\ LenAt \in Nat /\ QosAt \in Nat
    /\ 0 < MagicLen /\ MagicLen < LenAt /\ LenAt < QosAt

\* A usable frame is longer than the part of it that is looked at before it is
\* complete, frames the sender wrote do not overlap, and only an envelope with a
\* proper header and a known QoS class decodes.
ASSUME StreamAssumption ==
    \A s \in Stream :
        /\ s.size \in Nat
        /\ DOMAIN s.head \subseteq 0 .. s.size - 1
        /\ \A p \in DOMAIN s.head :
              /\ s.head[p] \in FrameHead
              /\ s.head[p].header_ok => s.head[p].len >= QosAt
              /\ s.head[p].decodes => s.head[p].header_ok /\ s.head[p].qos # "invalid"
              /\ s.head[p].sent => p + s.head[p].len <= s.size
              /\ \A q \in DOMAIN s.head :
                    s.head[p].sent /\ s.head[q].sent /\ p < q => p + s.head[p].len <= q

VARIABLES
    stream,
    start, end,     \* the receive buffer
    pc,             \* "read", "recover", "pop" or "closed"
    delivered       \* positions of the envelopes handed to runtime_handle_envelope

vars == <<stream, start, end, pc, delivered>>

Init ==
    /\ stream \in Stream
    /\ start = 0 /\ end = 0
    /\ pc = "read"
    /\ delivered = <<>>

Size == end - start

\* The search for the magic in pop_frame and recover_receive_overflow, from
\* position `from` of the stream.
MagicFrom(from) == {p \in DOMAIN stream.head : from <= p /\ p + MagicLen <= end}

IsFirst(p, from) == p \in MagicFrom(from) /\ \A q \in MagicFrom(from) : p <= q

(***************************************************************************)
(* runtime_receive_loop                                                    *)
(***************************************************************************)

\* One read_some of n bytes. recover_receive_overflow does nothing to a buffer
\* that is within the limit.
Read(n) ==
    /\ pc = "read"
    /\ end + n <= stream.size
    /\ end' = end + n
    /\ pc' = "recover"
    /\ UNCHANGED <<stream, start, delivered>>

\* End of the stream, a socket error, or running is false.
LeaveLoop ==
    /\ pc = "read"
    /\ pc' = "closed"
    /\ UNCHANGED <<stream, start, end, delivered>>

(***************************************************************************)
(* recover_receive_overflow, one iteration of its loop each                *)
(***************************************************************************)
qos_may_drop(qos) == qos \in {"best_effort", "bulk"}

peek_frame_header ==
    /\ Size >= QosAt
    /\ start \in MagicFrom(start)
    /\ stream.head[start].header_ok
    /\ stream.head[start].qos # "invalid"

WithinLimit ==
    /\ pc = "recover"
    /\ Size <= MaxBuffer
    /\ pc' = "pop"
    /\ UNCHANGED <<stream, start, end, delivered>>

LimitExceeded ==
    /\ pc = "recover"
    /\ Size > MaxBuffer
    /\ peek_frame_header /\ ~qos_may_drop(stream.head[start].qos)
    /\ pc' = "closed"
    /\ UNCHANGED <<stream, start, end, delivered>>

DropLossy ==
    /\ pc = "recover"
    /\ Size > MaxBuffer
    /\ peek_frame_header /\ qos_may_drop(stream.head[start].qos)
    /\ start' = IF start + stream.head[start].len <= end
                THEN start + stream.head[start].len ELSE end
    /\ UNCHANGED <<stream, end, pc, delivered>>

SkipToMagic ==
    /\ pc = "recover"
    /\ Size > MaxBuffer
    /\ ~peek_frame_header
    /\ \/ \E p \in DOMAIN stream.head : IsFirst(p, start + 1) /\ start' = p /\ pc' = pc
       \/ MagicFrom(start + 1) = {} /\ start' = end /\ pc' = "pop"
    /\ UNCHANGED <<stream, end, delivered>>

(***************************************************************************)
(* pop_frame, called until it returns false                                *)
(***************************************************************************)
\* mutant: what is left of an incomplete magic is thrown away with the rest
PopShortClear ==
    /\ pc = "pop"
    /\ Size < MagicLen
    /\ start' = end
    /\ pc' = "read"
    /\ UNCHANGED <<stream, end, delivered>>

PopShort ==
    /\ pc = "pop"
    /\ Size < MagicLen
    /\ pc' = "read"
    /\ UNCHANGED <<stream, start, end, delivered>>

PopNoMagic ==
    /\ pc = "pop"
    /\ Size >= MagicLen
    /\ MagicFrom(start) = {}
    /\ start' = end
    /\ pc' = "read"
    /\ UNCHANGED <<stream, end, delivered>>

\* The lengths in the header at p can be used.
Usable(p) == stream.head[p].header_ok /\ stream.head[p].len <= MaxBuffer

\* mutant: <= instead of < in the test for an incomplete frame
MoreThanComplete(p) == end - p > stream.head[p].len

Complete(p) == end - p >= stream.head[p].len

PopIncomplete(p) ==
    /\ pc = "pop" /\ IsFirst(p, start)
    /\ end - p < LenAt \/ (Usable(p) /\ ~Complete(p))
    /\ start' = p
    /\ pc' = "read"
    /\ UNCHANGED <<stream, end, delivered>>

PopUnusable(p) ==
    /\ pc = "pop" /\ IsFirst(p, start)
    /\ end - p >= LenAt
    /\ ~Usable(p)
    /\ start' = p + 1
    /\ UNCHANGED <<stream, end, pc, delivered>>

\* mutant: after a damaged frame only the magic is skipped, as after a bad header
PopDamagedByte(p) ==
    /\ pc = "pop" /\ IsFirst(p, start)
    /\ Usable(p) /\ Complete(p) /\ ~stream.head[p].decodes
    /\ start' = p + 1
    /\ UNCHANGED <<stream, end, pc, delivered>>

PopDamaged(p) ==
    /\ pc = "pop" /\ IsFirst(p, start)
    /\ Usable(p) /\ Complete(p) /\ ~stream.head[p].decodes
    /\ start' = p + stream.head[p].len
    /\ UNCHANGED <<stream, end, pc, delivered>>

PopEnvelope(p) ==
    /\ pc = "pop" /\ IsFirst(p, start)
    /\ Usable(p) /\ Complete(p) /\ stream.head[p].decodes
    /\ start' = p + stream.head[p].len
    /\ delivered' = Append(delivered, p)
    /\ UNCHANGED <<stream, end, pc>>

ReceiveStep ==
    \/ \E n \in 1 .. Chunk : Read(n)
    \/ WithinLimit \/ LimitExceeded \/ DropLossy \/ SkipToMagic
    \/ PopShort \/ PopNoMagic
    \/ \E p \in DOMAIN stream.head :
          PopIncomplete(p) \/ PopUnusable(p) \/ PopDamaged(p) \/ PopEnvelope(p)

Next == ReceiveStep \/ LeaveLoop

Spec == Init /\ [][Next]_vars

\* The receive thread runs, and TCP delivers what the peer wrote.
FairSpec == Spec /\ WF_vars(ReceiveStep)

(***************************************************************************)
(* Properties                                                              *)
(***************************************************************************)

\* The buffer is a piece of the stream and only envelopes that decode are handed on.
TypeOK ==
    /\ start \in 0 .. stream.size /\ end \in start .. stream.size
    /\ pc \in {"read", "recover", "pop", "closed"}
    /\ delivered \in Seq({p \in DOMAIN stream.head : stream.head[p].decodes})

\* What the sender wrote, for the abstract channel.
Frames == {p \in DOMAIN stream.head : stream.head[p].sent}

SentFrames ==
    [p \in Frames |->
        [after |-> p + stream.head[p].len,
         intact |-> stream.head[p].decodes,
         may_drop |-> qos_may_drop(stream.head[p].qos),
         framed |-> Usable(p) /\ stream.head[p].qos # "invalid"]]

Channel == INSTANCE OrderedChannel
    WITH sent <- SentFrames, upto <- start, got <- delivered, open <- (pc # "closed")

\* The receive side implements the ordered channel: in step with the sender, a
\* frame that must not be dropped is delivered, once and in order, or the
\* connection closes; a damaged frame costs only itself; bytes inside a payload
\* that look like a frame are never taken for one; recovery from an overflow drops
\* only lossy frames.
ImplementsChannel == Channel!Spec

\* The stream consists of frames with usable lengths that leave room for one read.
Roomy ==
    /\ 0 \in Frames \/ stream.size = 0
    /\ \A p \in Frames :
          /\ stream.head[p].header_ok
          /\ stream.head[p].len + Chunk <= MaxBuffer + 1
          /\ p + stream.head[p].len \in Frames \cup {stream.size}

\* If every frame leaves room for one read below the limit, as with the default
\* limit of the largest payload plus 64 KiB, the overflow paths are never taken:
\* however the reads cut the stream, all intact frames so far are delivered.
RoomyLossless ==
    Roomy =>
        /\ pc = "recover" => Size <= MaxBuffer
        /\ \A p \in Frames : p < start /\ stream.head[p].decodes =>
              \E i \in DOMAIN delivered : delivered[i] = p

\* A receive thread that is not told to stop gets through a well-framed stream: no
\* complete frame is left waiting in the buffer for bytes that follow it.
StreamConsumed == Roomy ~> (start = stream.size \/ pc = "closed")
=============================================================================
