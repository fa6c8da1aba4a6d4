------------------------- MODULE FrameBufferProofs -------------------------
(***************************************************************************)
(* Machine-checked proofs about FrameBuffer, for any streams, buffer limit *)
(* and sizes of reads.                                                     *)
(***************************************************************************)
EXTENDS FrameBuffer, TLAPS

\* The stream is one of those a peer may write, and the buffer a piece of it.
FInv == stream \in Stream /\ TypeOK

\* What StreamAssumption says about the stream of the connection.
LEMMA StreamFacts ==
  ASSUME FInv
  PROVE  /\ stream.size \in Nat
         /\ start \in Nat /\ end \in Nat /\ start <= end /\ end <= stream.size
         /\ \A p \in DOMAIN stream.head :
               /\ p \in Nat
               /\ stream.head[p].len \in Nat
               /\ stream.head[p].header_ok \in BOOLEAN
               /\ stream.head[p].decodes \in BOOLEAN
               /\ stream.head[p].sent \in BOOLEAN
               /\ stream.head[p].header_ok => stream.head[p].len >= QosAt
               /\ stream.head[p].decodes =>
                     stream.head[p].header_ok /\ stream.head[p].qos # "invalid"
  <1>1. stream \in Stream /\ stream.size \in Nat /\ DOMAIN stream.head \subseteq 0 .. stream.size - 1
    BY StreamAssumption DEF FInv
  <1>2. /\ start \in Nat /\ end \in Nat /\ start <= end /\ end <= stream.size
    BY <1>1 DEF FInv, TypeOK
  <1>3. ASSUME NEW p \in DOMAIN stream.head
        PROVE  /\ p \in Nat
               /\ stream.head[p] \in FrameHead
               /\ stream.head[p].header_ok => stream.head[p].len >= QosAt
               /\ stream.head[p].decodes =>
                     stream.head[p].header_ok /\ stream.head[p].qos # "invalid"
    BY <1>1, StreamAssumption
  <1> QED
    BY <1>1, <1>2, <1>3 DEF FrameHead

\* The buffer is empty and in the stream at the beginning.
LEMMA InitFInv == Init => FInv
  <1> SUFFICES ASSUME Init PROVE FInv
    OBVIOUS
  <1>1. stream \in Stream /\ stream.size \in Nat
    BY StreamAssumption DEF Init
  <1> QED
    BY <1>1 DEF Init, FInv, TypeOK

\* A frame that is complete ends in the buffer.
LEMMA CompleteInBuffer ==
  ASSUME FInv, NEW p \in DOMAIN stream.head, Complete(p)
  PROVE  /\ p + stream.head[p].len \in 0 .. stream.size
         /\ end \in p + stream.head[p].len .. stream.size
  <1>1. /\ p \in Nat /\ stream.head[p].len \in Nat
        /\ end \in Nat /\ stream.size \in Nat /\ end <= stream.size
    BY StreamFacts
  <1>2. end - p >= stream.head[p].len
    BY DEF Complete
  <1> QED
    BY <1>1, <1>2

\* Every step of the receive thread keeps the buffer a piece of the stream.
LEMMA NextFInv == FInv /\ [Next]_vars => FInv'
  <1> SUFFICES ASSUME FInv, [Next]_vars PROVE FInv'
    OBVIOUS
  <1>1. CASE UNCHANGED vars
    BY <1>1 DEF vars, FInv, TypeOK
  <1>2. ASSUME NEW n \in 1 .. Chunk, Read(n) PROVE FInv'
    BY <1>2, StreamFacts, FrameAssumption DEF Read, FInv, TypeOK
  <1>3. CASE WithinLimit \/ LimitExceeded \/ PopShort \/ LeaveLoop
    BY <1>3 DEF WithinLimit, LimitExceeded, PopShort, LeaveLoop, FInv, TypeOK
  <1>4. CASE DropLossy
    BY <1>4, StreamFacts, FrameAssumption DEF DropLossy, peek_frame_header, MagicFrom, FInv, TypeOK
  <1>5. CASE SkipToMagic
    BY <1>5, StreamFacts, FrameAssumption DEF SkipToMagic, IsFirst, MagicFrom, FInv, TypeOK
  <1>6. CASE PopNoMagic
    BY <1>6, StreamFacts DEF PopNoMagic, FInv, TypeOK
  <1>7. ASSUME NEW p \in DOMAIN stream.head, PopIncomplete(p) PROVE FInv'
    BY <1>7, StreamFacts, FrameAssumption DEF PopIncomplete, IsFirst, MagicFrom, FInv, TypeOK
  <1>8. ASSUME NEW p \in DOMAIN stream.head, PopUnusable(p) PROVE FInv'
    BY <1>8, StreamFacts, FrameAssumption DEF PopUnusable, IsFirst, MagicFrom, FInv, TypeOK
  <1>9. ASSUME NEW p \in DOMAIN stream.head, PopDamaged(p) PROVE FInv'
    <2>1. /\ stream' = stream /\ end' = end /\ pc' = pc /\ delivered' = delivered
          /\ start' = p + stream.head[p].len
      BY <1>9 DEF PopDamaged
    <2>2. start' \in 0 .. stream.size /\ end \in start' .. stream.size
      BY <1>9, <2>1, CompleteInBuffer DEF PopDamaged
    <2> QED
      BY <2>1, <2>2 DEF FInv, TypeOK
  <1>10. ASSUME NEW p \in DOMAIN stream.head, PopEnvelope(p) PROVE FInv'
    <2>1. stream' = stream /\ end' = end /\ pc' = pc /\ start' = p + stream.head[p].len
      BY <1>10 DEF PopEnvelope
    <2>2. start' \in 0 .. stream.size /\ end \in start' .. stream.size
      BY <1>10, <2>1, CompleteInBuffer DEF PopEnvelope
    <2>3. delivered' \in Seq({q \in DOMAIN stream.head : stream.head[q].decodes})
      BY <1>10 DEF PopEnvelope, FInv, TypeOK
    <2> QED
      BY <2>1, <2>2, <2>3 DEF FInv, TypeOK
  <1> QED
    BY <1>1, <1>2, <1>3, <1>4, <1>5, <1>6, <1>7, <1>8, <1>9, <1>10 DEF Next, ReceiveStep

\* The receive buffer is always a piece of the stream the peer wrote, and only
\* envelopes that decode are handed on, in any stream and however the reads cut it.
THEOREM TypeCorrect == Spec => []TypeOK
  <1>1. FInv => TypeOK
    BY DEF FInv
  <1> QED
    BY InitFInv, NextFInv, <1>1, PTL DEF Spec

(***************************************************************************)
(* The receive side implements OrderedChannel.                             *)
(***************************************************************************)

\* In step with the sender, the magic that pop_frame finds first is the one of the
\* frame at the start of the buffer.
LEMMA FirstIsStart ==
  ASSUME FInv, start \in DOMAIN stream.head,
         NEW p \in DOMAIN stream.head, IsFirst(p, start)
  PROVE  p = start
  BY StreamFacts, FrameAssumption DEF IsFirst, MagicFrom

\* What the abstract channel says of a frame at position p.
LEMMA SentFacts ==
  ASSUME FInv
  PROVE  /\ DOMAIN SentFrames = Frames
         /\ Frames \subseteq DOMAIN stream.head
         /\ \A p \in Frames :
               /\ SentFrames[p].after = p + stream.head[p].len
               /\ SentFrames[p].intact = stream.head[p].decodes
               /\ SentFrames[p].may_drop = qos_may_drop(stream.head[p].qos)
               /\ SentFrames[p].framed = (Usable(p) /\ stream.head[p].qos # "invalid")
  BY DEF SentFrames, Frames

\* A step that leaves the stream alone leaves what the sender wrote alone.
LEMMA SentUnchanged == ASSUME stream' = stream PROVE SentFrames' = SentFrames
  BY DEF SentFrames, Frames, Usable

\* pop_frame taking an envelope delivers a frame, or something between frames.
LEMMA EnvelopeStep ==
  ASSUME FInv, NEW p \in DOMAIN stream.head, PopEnvelope(p)
  PROVE  Channel!Next
  <1>1. /\ pc # "closed" /\ pc' # "closed"
        /\ start' = p + stream.head[p].len /\ delivered' = Append(delivered, p)
        /\ p >= start /\ Usable(p) /\ stream.head[p].decodes /\ stream' = stream
    BY DEF PopEnvelope, IsFirst, MagicFrom
  <1>2. stream.head[p].len > 0 /\ stream.head[p].qos # "invalid"
    BY <1>1, StreamFacts, FrameAssumption DEF Usable
  <1>3. SentFrames' = SentFrames
    BY <1>1, SentUnchanged
  <1>4. CASE start \in Frames
    <2>1. p = start
      BY <1>4, SentFacts, FirstIsStart DEF PopEnvelope
    <2>2. Channel!Deliver
      BY <1>1, <1>2, <1>4, <2>1, SentFacts DEF Channel!Deliver, Channel!InStep
    <2> QED
      BY <1>1, <1>3, <2>2 DEF Channel!Next
  <1>5. CASE start \notin Frames
    <2>1. start' > start /\ p \in start .. start' - 1
      BY <1>1, <1>2, StreamFacts
    <2>2. Channel!Search
      BY <1>1, <1>5, <2>1, SentFacts DEF Channel!Search, Channel!InStep
    <2> QED
      BY <1>1, <1>3, <2>2 DEF Channel!Next
  <1> QED
    BY <1>4, <1>5

\* A step forward that delivers nothing: out of step it is part of the search; in
\* step it must lose a frame that may be lost, or stand at a frame whose lengths or
\* class cannot be used.
LEMMA SilentStep ==
  ASSUME FInv, pc # "closed", pc' # "closed", stream' = stream,
         delivered' = delivered, start' > start,
         start \in Frames =>
            \/ ~Usable(start) \/ stream.head[start].qos = "invalid"
            \/ /\ start' = start + stream.head[start].len
               /\ ~stream.head[start].decodes \/ qos_may_drop(stream.head[start].qos)
  PROVE  Channel!Next
  <1>1. SentFrames' = SentFrames
    BY SentUnchanged
  <1>2. CASE start \notin Frames
    BY <1>1, <1>2, SentFacts DEF Channel!Next, Channel!Search, Channel!InStep
  <1>3. CASE start \in Frames /\ SentFrames[start].framed
    BY <1>1, <1>3, SentFacts DEF Channel!Next, Channel!Lose, Channel!InStep
  <1>4. CASE start \in Frames /\ ~SentFrames[start].framed
    BY <1>1, <1>4, SentFacts DEF Channel!Next, Channel!FallOutOfStep, Channel!InStep
  <1> QED
    BY <1>2, <1>3, <1>4

\* A step that moves neither the start of the buffer nor the delivered envelopes is
\* no step of the channel, or its end.
LEMMA IdleStep ==
  ASSUME pc # "closed", stream' = stream, delivered' = delivered, start' = start
  PROVE  [Channel!Next]_(Channel!vars)
  <1>1. SentFrames' = SentFrames
    BY SentUnchanged
  <1>2. CASE pc' = "closed"
    BY <1>1, <1>2 DEF Channel!Next, Channel!Close, Channel!vars
  <1>3. CASE pc' # "closed"
    BY <1>1, <1>3 DEF Channel!vars
  <1> QED
    BY <1>2, <1>3

\* Every step of the receive thread is a step of the channel or none.
LEMMA StepSimulation == FInv /\ [Next]_vars => [Channel!Next]_(Channel!vars)
  <1> SUFFICES ASSUME FInv, [Next]_vars PROVE [Channel!Next]_(Channel!vars)
    OBVIOUS
  <1>1. CASE UNCHANGED vars
    BY <1>1 DEF vars, Channel!vars, SentFrames, Frames, Usable
  <1>2. ASSUME NEW n \in 1 .. Chunk, Read(n) PROVE [Channel!Next]_(Channel!vars)
    BY <1>2, IdleStep DEF Read
  <1>3. CASE WithinLimit \/ LimitExceeded \/ PopShort \/ LeaveLoop
    BY <1>3, IdleStep DEF WithinLimit, LimitExceeded, PopShort, LeaveLoop
  <1>4. CASE DropLossy
    <2>1. /\ pc # "closed" /\ pc' = pc /\ stream' = stream /\ delivered' = delivered
          /\ start \in DOMAIN stream.head /\ end - start > MaxBuffer
          /\ stream.head[start].header_ok
          /\ qos_may_drop(stream.head[start].qos)
          /\ start' = IF start + stream.head[start].len <= end
                      THEN start + stream.head[start].len ELSE end
      BY <1>4 DEF DropLossy, peek_frame_header, MagicFrom, Size
    <2>2. start' > start
      BY <2>1, StreamFacts, FrameAssumption
    <2>3. ~Usable(start) \/ start' = start + stream.head[start].len
      BY <2>1, StreamFacts, FrameAssumption DEF Usable
    <2> QED
      BY <2>1, <2>2, <2>3, SilentStep
  <1>5. CASE SkipToMagic
    <2>1. /\ pc # "closed" /\ pc' # "closed" /\ stream' = stream /\ delivered' = delivered
      BY <1>5 DEF SkipToMagic
    <2>2. start' > start
      BY <1>5, StreamFacts, FrameAssumption DEF SkipToMagic, IsFirst, MagicFrom, Size
    <2>3. ASSUME start \in Frames
          PROVE  ~Usable(start) \/ stream.head[start].qos = "invalid"
      BY <1>5, <2>3, StreamFacts, SentFacts, FrameAssumption
      DEF SkipToMagic, peek_frame_header, MagicFrom, Size, Usable
    <2> QED
      BY <2>1, <2>2, <2>3, SilentStep
  <1>6. CASE PopNoMagic
    <2>1. /\ pc # "closed" /\ pc' # "closed" /\ stream' = stream /\ delivered' = delivered
          /\ start' > start
      BY <1>6, StreamFacts, FrameAssumption DEF PopNoMagic, Size
    <2>2. start \notin Frames
      BY <1>6, StreamFacts, SentFacts, FrameAssumption DEF PopNoMagic, MagicFrom, Size
    <2> QED
      BY <2>1, <2>2, SilentStep
  <1>7. ASSUME NEW p \in DOMAIN stream.head, PopIncomplete(p)
        PROVE  [Channel!Next]_(Channel!vars)
    <2>1. /\ pc # "closed" /\ pc' # "closed" /\ stream' = stream /\ delivered' = delivered
          /\ start' = p /\ p >= start
      BY <1>7 DEF PopIncomplete, IsFirst, MagicFrom
    <2>2. CASE p = start
      BY <2>1, <2>2, IdleStep
    <2>3. CASE p # start
      <3>1. start \notin Frames
        BY <1>7, <2>3, SentFacts, FirstIsStart DEF PopIncomplete
      <3>2. start' > start
        BY <2>1, <2>3, StreamFacts
      <3> QED
        BY <2>1, <3>1, <3>2, SilentStep
    <2> QED
      BY <2>2, <2>3
  <1>8. ASSUME NEW p \in DOMAIN stream.head, PopUnusable(p)
        PROVE  [Channel!Next]_(Channel!vars)
    <2>1. /\ pc # "closed" /\ pc' # "closed" /\ stream' = stream /\ delivered' = delivered
          /\ start' > start /\ ~Usable(p)
      BY <1>8, StreamFacts DEF PopUnusable, IsFirst, MagicFrom
    <2>2. start \in Frames => p = start
      BY <1>8, SentFacts, FirstIsStart DEF PopUnusable
    <2> QED
      BY <2>1, <2>2, SilentStep
  <1>9. ASSUME NEW p \in DOMAIN stream.head, PopDamaged(p)
        PROVE  [Channel!Next]_(Channel!vars)
    <2>1. /\ pc # "closed" /\ pc' # "closed" /\ stream' = stream /\ delivered' = delivered
          /\ start' = p + stream.head[p].len /\ ~stream.head[p].decodes
      BY <1>9 DEF PopDamaged
    <2>2. start' > start
      BY <1>9, StreamFacts, FrameAssumption DEF PopDamaged, IsFirst, MagicFrom, Usable
    <2>3. start \in Frames => p = start
      BY <1>9, SentFacts, FirstIsStart DEF PopDamaged
    <2> QED
      BY <2>1, <2>2, <2>3, SilentStep
  <1>10. ASSUME NEW p \in DOMAIN stream.head, PopEnvelope(p)
         PROVE  [Channel!Next]_(Channel!vars)
    BY <1>10, EnvelopeStep
  <1> QED
    BY <1>1, <1>2, <1>3, <1>4, <1>5, <1>6, <1>7, <1>8, <1>9, <1>10 DEF Next, ReceiveStep

\* The receive loop, pop_frame and recover_receive_overflow implement the ordered
\* channel: a frame the receiver stands at is delivered, once and in order, or is
\* damaged or droppable, or the connection closes, whatever the stream, the limit
\* and the sizes of the reads.
THEOREM ChannelImplemented == Spec => ImplementsChannel
  <1>1. Init => Channel!Init
    BY DEF Init, Channel!Init
  <1> QED
    BY InitFInv, NextFInv, StepSimulation, <1>1, PTL DEF Spec, ImplementsChannel, Channel!Spec

(***************************************************************************)
(* A stream of frames that leave room for a read is received without loss. *)
(***************************************************************************)

\* In a roomy stream the buffer begins at a frame or at the end of the stream, and
\* between two reads it holds less than that frame.
AtFrame ==
    /\ start \in Frames \cup {stream.size}
    /\ pc = "read" /\ start # stream.size => Size < stream.head[start].len

AllDelivered ==
    \A p \in Frames : p < start /\ stream.head[p].decodes =>
        \E i \in DOMAIN delivered : delivered[i] = p

\* The inductive invariant behind RoomyLossless.
RInv ==
    /\ FInv
    /\ Roomy =>
          /\ AtFrame
          /\ pc = "recover" => Size <= MaxBuffer
          /\ AllDelivered

\* What Roomy says of a frame: its lengths can be used, the next one begins where it
\* ends, and none begins inside it.
LEMMA RoomyFacts ==
  ASSUME FInv, Roomy, NEW p \in Frames
  PROVE  /\ p \in DOMAIN stream.head /\ p \in Nat /\ stream.head[p].len \in Nat
         /\ Usable(p) /\ stream.head[p].len >= QosAt
         /\ stream.head[p].len + Chunk <= MaxBuffer + 1
         /\ p + stream.head[p].len \in Frames \cup {stream.size}
         /\ p < stream.size
         /\ \A q \in Frames : q < p + stream.head[p].len => q <= p
  <1>1. p \in DOMAIN stream.head
    BY DEF Frames
  <1>2. /\ stream.head[p].header_ok
        /\ stream.head[p].len + Chunk <= MaxBuffer + 1
        /\ p + stream.head[p].len \in Frames \cup {stream.size}
    BY DEF Roomy
  <1>3. /\ p \in Nat /\ stream.head[p].len \in Nat /\ stream.head[p].len >= QosAt
    BY <1>1, <1>2, StreamFacts
  <1>4. Usable(p)
    BY <1>2, <1>3, FrameAssumption DEF Usable
  <1>5. stream \in Stream /\ DOMAIN stream.head \subseteq 0 .. stream.size - 1
    BY StreamAssumption DEF FInv
  <1>6. p < stream.size
    BY <1>1, <1>5, StreamFacts
  <1>7. ASSUME NEW q \in Frames, q < p + stream.head[p].len PROVE q <= p
    <2>1. q \in DOMAIN stream.head /\ q \in Nat
      BY StreamFacts DEF Frames
    <2>2. p < q => p + stream.head[p].len <= q
      BY <1>1, <1>5, <2>1, StreamAssumption DEF Frames
    <2> QED
      BY <1>3, <1>7, <2>1, <2>2
  <1> QED
    BY <1>1, <1>2, <1>3, <1>4, <1>6, <1>7

\* pop_frame goes on from a frame to the position behind it, and what was to be
\* delivered of it is delivered.
LEMMA PassFrame ==
  ASSUME RInv, Roomy, start \in Frames, stream' = stream, pc' = pc, pc = "pop",
         start' = start + stream.head[start].len,
         \/ ~stream.head[start].decodes /\ delivered' = delivered
         \/ delivered' = Append(delivered, start)
  PROVE  AtFrame' /\ AllDelivered'
  <1>1. AtFrame'
    BY RoomyFacts DEF RInv, AtFrame, Frames
  <1>2. ASSUME NEW p \in Frames, p < start', stream.head[p].decodes
        PROVE  \E i \in DOMAIN delivered' : delivered'[i] = p
    <2>1. p <= start /\ p \in Nat /\ start \in Nat
      BY <1>2, RoomyFacts DEF RInv
    <2>2. delivered \in Seq(DOMAIN stream.head)
      BY DEF RInv, FInv, TypeOK
    <2>3. CASE p = start
      <3>1. delivered' = Append(delivered, start)
        BY <1>2, <2>3
      <3>2. Len(delivered) + 1 \in DOMAIN delivered' /\ delivered'[Len(delivered) + 1] = p
        BY <2>2, <2>3, <3>1 DEF Frames
      <3> QED
        BY <3>2
    <2>4. CASE p < start
      <3>1. PICK i \in DOMAIN delivered : delivered[i] = p
        BY <1>2, <2>4 DEF RInv, AllDelivered
      <3>2. CASE delivered' = delivered
        BY <3>1, <3>2
      <3>3. CASE delivered' = Append(delivered, start)
        <4>1. i \in DOMAIN delivered' /\ delivered'[i] = p
          BY <2>2, <3>1, <3>3 DEF Frames
        <4> QED
          BY <4>1
      <3> QED
        BY <3>2, <3>3
    <2> QED
      BY <2>1, <2>3, <2>4
  <1>3. AllDelivered'
    BY <1>2 DEF AllDelivered, Frames
  <1> QED
    BY <1>1, <1>3

\* Nothing is missing before the first read.
LEMMA InitRInv == Init => RInv
  <1> SUFFICES ASSUME Init PROVE RInv
    OBVIOUS
  <1>1. FInv
    BY InitFInv
  <1>2. ASSUME Roomy PROVE AtFrame
    BY <1>1, <1>2, RoomyFacts, FrameAssumption DEF Init, Roomy, AtFrame, Size
  <1>3. AllDelivered
    BY <1>1, StreamFacts DEF Init, AllDelivered, Frames
  <1> QED
    BY <1>1, <1>2, <1>3 DEF RInv, Init

\* No step of the receive thread loses a frame of a roomy stream.
LEMMA NextRInv == RInv /\ [Next]_vars => RInv'
  <1> SUFFICES ASSUME RInv, [Next]_vars PROVE RInv'
    OBVIOUS
  <1>1. FInv /\ FInv'
    BY NextFInv DEF RInv
  <1> SUFFICES ASSUME Roomy'
               PROVE  AtFrame' /\ (pc' = "recover" => Size' <= MaxBuffer) /\ AllDelivered'
    BY <1>1 DEF RInv
  <1>2. stream' = stream
    BY DEF vars, Next, ReceiveStep, Read, WithinLimit, LimitExceeded, DropLossy, SkipToMagic,
           PopShort, PopNoMagic, PopIncomplete, PopUnusable, PopDamaged, PopEnvelope, LeaveLoop
  <1>3. Roomy /\ AtFrame /\ (pc = "recover" => Size <= MaxBuffer) /\ AllDelivered
    BY <1>2 DEF RInv, Roomy, Frames
  <1>4. start = stream.size => end = start
    BY <1>1, StreamFacts
  <1>5. /\ start \in Frames =>
              /\ start \in DOMAIN stream.head /\ start < stream.size
              /\ Usable(start) /\ stream.head[start].len \in Nat
              /\ stream.head[start].len >= QosAt
              /\ stream.head[start].len + Chunk <= MaxBuffer + 1
    BY <1>1, <1>3, RoomyFacts
  <1>6. start \in Frames \/ start = stream.size
    BY <1>3 DEF AtFrame
  <1>7. ASSUME start' = start, delivered' = delivered
        PROVE  AllDelivered'
    BY <1>2, <1>3, <1>7 DEF AllDelivered, Frames
  <1> USE FrameAssumption
  <1>8. CASE UNCHANGED vars
    BY <1>3, <1>7, <1>8 DEF vars, AtFrame, Frames, Size
  <1>9. ASSUME NEW n \in 1 .. Chunk, Read(n)
        PROVE  AtFrame' /\ (pc' = "recover" => Size' <= MaxBuffer) /\ AllDelivered'
    <2>1. start' = start /\ end' = end + n /\ end + n <= stream.size /\ pc' = "recover"
      BY <1>9 DEF Read
    <2>2. start # stream.size /\ start \in Frames
      BY <1>1, <1>4, <1>6, <2>1, StreamFacts
    <2>3. Size' <= MaxBuffer
      BY <1>1, <1>3, <1>5, <1>9, <2>1, <2>2, StreamFacts DEF Read, AtFrame, Size
    <2> QED
      BY <1>2, <1>6, <1>7, <1>9, <2>1, <2>3 DEF Read, AtFrame, Frames
  <1>10. CASE WithinLimit \/ LimitExceeded \/ LeaveLoop
    BY <1>2, <1>6, <1>7, <1>10 DEF WithinLimit, LimitExceeded, LeaveLoop, AtFrame, Frames
  <1>11. CASE DropLossy \/ SkipToMagic
    BY <1>1, <1>3, <1>11, StreamFacts DEF DropLossy, SkipToMagic, Size
  <1>12. CASE PopShort
    BY <1>1, <1>2, <1>5, <1>6, <1>7, <1>12, StreamFacts DEF PopShort, AtFrame, Frames, Size
  <1>13. CASE PopNoMagic
    BY <1>1, <1>4, <1>5, <1>6, <1>13, StreamFacts DEF PopNoMagic, MagicFrom, Size
  <1>14. ASSUME NEW p \in DOMAIN stream.head, IsFirst(p, start)
         PROVE  p = start /\ start \in Frames
    <2>1. start \in Frames
      BY <1>1, <1>4, <1>6, <1>14, StreamFacts DEF IsFirst, MagicFrom
    <2> QED
      BY <1>1, <1>5, <1>14, <2>1, FirstIsStart
  <1>15. ASSUME NEW p \in DOMAIN stream.head, PopIncomplete(p)
         PROVE  AtFrame' /\ (pc' = "recover" => Size' <= MaxBuffer) /\ AllDelivered'
    <2>1. p = start /\ start \in Frames /\ start' = start /\ end' = end /\ pc' = "read"
          /\ delivered' = delivered
      BY <1>14, <1>15 DEF PopIncomplete
    <2>2. end - start < stream.head[start].len
      BY <1>1, <1>5, <1>15, <2>1, StreamFacts DEF PopIncomplete, Complete
    <2> QED
      BY <1>2, <1>7, <2>1, <2>2 DEF AtFrame, Frames, Size
  <1>16. ASSUME NEW p \in DOMAIN stream.head, PopUnusable(p) PROVE FALSE
    BY <1>5, <1>14, <1>16 DEF PopUnusable
  <1>17. ASSUME NEW p \in DOMAIN stream.head, PopDamaged(p)
         PROVE  AtFrame' /\ (pc' = "recover" => Size' <= MaxBuffer) /\ AllDelivered'
    BY <1>2, <1>3, <1>14, <1>17, PassFrame DEF PopDamaged
  <1>18. ASSUME NEW p \in DOMAIN stream.head, PopEnvelope(p)
         PROVE  AtFrame' /\ (pc' = "recover" => Size' <= MaxBuffer) /\ AllDelivered'
    BY <1>2, <1>3, <1>14, <1>18, PassFrame DEF PopEnvelope
  <1> QED
    BY <1>8, <1>9, <1>10, <1>11, <1>12, <1>13, <1>15, <1>16, <1>17, <1>18 DEF Next, ReceiveStep

\* If every frame leaves room for one read below max_buffer_bytes_per_peer, the
\* overflow recovery never acts and no intact frame is lost, for any limit, any size
\* of the reads and any number of frames.
THEOREM RoomyLosslessThm == Spec => []RoomyLossless
  <1>1. RInv => RoomyLossless
    BY DEF RInv, RoomyLossless, AllDelivered
  <1> QED
    BY InitRInv, NextRInv, <1>1, PTL DEF Spec
=============================================================================
