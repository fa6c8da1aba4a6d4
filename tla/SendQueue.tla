----------------------------- MODULE SendQueue -----------------------------
(***************************************************************************)
(* The outbound side of one RuntimeConnection: the four bounded send       *)
(* queues that application and receive threads fill under send_mutex, and  *)
(* the send thread that empties them onto a TCP stream that accepts any    *)
(* number of bytes at a time, blocks, or fails.                            *)
(*                                                                         *)
(* Payloads are abstracted to a length and a serial number, the order in   *)
(* which the frames were accepted.                                         *)
(***************************************************************************)
EXTENDS Integers, Sequences, SequencesExt

CONSTANTS
    MaxQueued,     \* max_queued_bytes
    Reserve,       \* kReliableOrderedReserveFraction
    Quantum,       \* kWriteQuantumBytes
    RetryLimit,    \* kCongestionRetryLimit
    Size,          \* the frame lengths that are enqueued
    LatestKey,     \* the latest keys of ReliableLatest frames
    MaxFrames      \* bound on the number of accepted frames

ASSUME SendQueueAssumption ==
    /\ MaxQueued \in Nat /\ Reserve \in Nat \ {0} /\ Quantum \in Nat \ {0}
    /\ RetryLimit \in Nat /\ MaxFrames \in Nat
    /\ Size \subseteq Nat \ {0}

\* The QoS classes, as qos_index orders their queues.
ReliableOrdered == 0
ReliableLatest  == 1
BestEffort      == 2
Bulk            == 3
Qos == ReliableOrdered..Bulk

NoKey == "none"     \* the empty latest_key of every other class
Frame == [serial : 1..MaxFrames, size : Size, qos : Qos, key : LatestKey \cup {NoKey}]

VARIABLES
    queue,         \* send_queues
    queued_bytes,  \* queued_bytes, a size_t
    running,       \* connection->running
    accepted,      \* number of frames accepted so far
    pc,            \* where the send thread is: "wait", "take", "write", "fail", "done"
    frame,         \* the frame being written, as a sequence of length 0 or 1
    offset,        \* bytes of it that are on the wire
    retry_count,
    status,        \* SocketWriteStatus of the last write that did not complete
    wire           \* what the stream carries: the frames begun, each with its bytes

vars == <<queue, queued_bytes, running, accepted, pc, frame, offset, retry_count,
          status, wire>>
queues == <<queue, queued_bytes, accepted>>
sender == <<pc, frame, offset, retry_count, status, wire>>

TypeOK ==
    /\ queue \in [Qos -> Seq(Frame)]
    /\ queued_bytes \in Nat
    /\ running \in BOOLEAN
    /\ accepted \in 0..MaxFrames
    /\ pc \in {"wait", "take", "write", "fail", "done"}
    /\ frame \in {<<>>} \cup {<<f>> : f \in Frame}
    /\ offset \in Nat /\ retry_count \in 0..RetryLimit
    /\ status \in {"none", "congested", "disconnected"}
    /\ wire \in Seq([frame : Frame, bytes : Nat])

Init ==
    /\ queue = [c \in Qos |-> <<>>]
    /\ queued_bytes = 0
    /\ running = TRUE
    /\ accepted = 0
    /\ pc = "wait"
    /\ frame = <<>> /\ offset = 0 /\ retry_count = 0
    /\ status = "none"
    /\ wire = <<>>

----------------------------------------------------------------------------
(* Enqueueing *)

\* The bytes of the first i frames of a queue, for every i, and of all of them.
BytesUpTo(s) ==
    LET sum[i \in 0..Len(s)] == IF i = 0 THEN 0 ELSE sum[i - 1] + s[i].size
    IN  sum

Bytes(s) == BytesUpTo(s)[Len(s)]

qos_may_drop(c) == c \in {BestEffort, Bulk}

\* mutant: the reserve comes on top of the limit
LimitPlusReserve(c) == IF c = ReliableOrdered THEN MaxQueued + MaxQueued \div Reserve
                       ELSE MaxQueued

enqueue_limit(c) == IF c = ReliableOrdered THEN MaxQueued
                    ELSE MaxQueued - MaxQueued \div Reserve

BestEffortBeforeBulk == <<BestEffort, Bulk>>    \* mutant: the more urgent class first

\* The classes make_room drops from: the second one when the first is empty.
EvictionOrder == <<Bulk, BestEffort>>

Droppable == queue[EvictionOrder[1]] \o queue[EvictionOrder[2]]

\* What the drops of make_room leave behind, and whether n more bytes fit:
\* the oldest Bulk frame goes first, BestEffort frames when no Bulk is left,
\* and the drops stay even if the room they make is not enough.
MakeRoom(used, n, c) ==
    LET after(d) == used - Bytes(SubSeq(Droppable, 1, d))
        enough   == {d \in 0..Len(Droppable) : after(d) + n <= enqueue_limit(c)}
        drops    == IF enough = {} THEN Len(Droppable)
                    ELSE CHOOSE d \in enough : \A e \in enough : d <= e
        first    == queue[EvictionOrder[1]]
        d1       == IF drops < Len(first) THEN drops ELSE Len(first)
        left(c2, d) == SubSeq(queue[c2], d + 1, Len(queue[c2]))
    IN  [ok |-> enough # {}, used |-> after(drops),
         queue |-> [queue EXCEPT
            ![EvictionOrder[1]] = left(EvictionOrder[1], d1),
            ![EvictionOrder[2]] = left(EvictionOrder[2], drops - d1)]]

ReplacesNothing(c, key) == {}         \* mutant: the older value stays queued

\* Positions of the queued frame that a frame with this key replaces.
Replaces(c, key) == IF c # ReliableLatest THEN {}
                    ELSE {i \in 1..Len(queue[c]) : queue[c][i].key = key}

\* runtime_enqueue, one critical section of send_mutex.
Enqueue(c, n, key) ==
    LET serial == accepted + 1
        new    == [serial |-> serial, size |-> n, qos |-> c, key |-> key]
        at     == Replaces(c, key)
        old    == IF at = {} THEN 0 ELSE queue[c][CHOOSE i \in at : TRUE].size
        room   == MakeRoom(queued_bytes - old, n, c)
    IN  /\ running
        /\ accepted < MaxFrames
        /\ n <= enqueue_limit(c)
        /\ \/ /\ room.ok
              /\ queue' = IF at = {}
                          THEN [room.queue EXCEPT ![c] = Append(@, new)]
                          ELSE [room.queue EXCEPT ![c] =
                                  [i \in DOMAIN @ |-> IF i \in at THEN new ELSE @[i]]]
              /\ queued_bytes' = room.used + n
              /\ accepted' = serial
           \/ /\ ~room.ok                     \* rejected, the drops remain
              /\ queue' = room.queue
              /\ queued_bytes' = room.used + old
              /\ UNCHANGED accepted
        /\ UNCHANGED <<running, pc, frame, offset, retry_count, status, wire>>

----------------------------------------------------------------------------
(* The send thread *)

WakeAboveQuantum ==                   \* mutant: a single chunk is left waiting for more
    /\ pc = "wait"
    /\ ~running \/ queued_bytes > Quantum
    /\ pc' = "take"
    /\ UNCHANGED <<queues, running, frame, offset, retry_count, status, wire>>

\* The condition variable lets the thread go on; it leaves its loop when the
\* connection is closing.
Wake ==
    /\ pc = "wait"
    /\ ~running \/ queued_bytes # 0
    /\ pc' = "take"
    /\ UNCHANGED <<queues, running, frame, offset, retry_count, status, wire>>

LeaveLoop ==
    /\ pc \in {"wait", "take"} /\ ~running
    /\ pc' = "done"
    /\ UNCHANGED <<queues, running, frame, offset, retry_count, status, wire>>

Ready == {c \in Qos : queue[c] # <<>>}
NextQueue == CHOOSE c \in Ready : \A d \in Ready : c <= d

TakeNewestFrame ==                    \* mutant: the queue is used as a stack
    /\ pc = "take" /\ running /\ Ready # {}
    /\ LET f == Last(queue[NextQueue])
       IN  /\ queue' = [queue EXCEPT ![NextQueue] = Front(@)]
           /\ queued_bytes' = queued_bytes - f.size
           /\ frame' = <<f>>
    /\ pc' = "write" /\ offset' = 0 /\ retry_count' = 0
    /\ UNCHANGED <<running, accepted, status, wire>>

\* take_next_frame, in a critical section of its own.
TakeNextFrame ==
    /\ pc = "take" /\ running
    /\ \/ /\ Ready = {}
          /\ pc' = "wait"
          /\ UNCHANGED <<queues, running, frame, offset, retry_count, status, wire>>
       \/ /\ Ready # {}
          /\ LET f == Head(queue[NextQueue])
             IN  /\ queue' = [queue EXCEPT ![NextQueue] = Tail(@)]
                 /\ queued_bytes' = queued_bytes - f.size
                 /\ frame' = <<f>>
          /\ pc' = "write" /\ offset' = 0 /\ retry_count' = 0
          /\ UNCHANGED <<running, accepted, status, wire>>

\* The stream after n more bytes of the frame being written.
Written(n) == IF offset = 0 THEN Append(wire, [frame |-> frame[1], bytes |-> n])
              ELSE [wire EXCEPT ![Len(wire)].bytes = @ + n]

NextFrame ==
    /\ pc' = "wait" /\ frame' = <<>> /\ offset' = 0 /\ retry_count' = 0

\* The socket takes n bytes of the next chunk.
WriteSome(n) ==
    /\ pc = "write" /\ running
    /\ n <= frame[1].size - offset
    /\ wire' = Written(n)
    /\ \/ /\ offset + n = frame[1].size
          /\ NextFrame
       \/ /\ offset + n < frame[1].size
          /\ offset' = offset + n /\ retry_count' = 0
          /\ UNCHANGED <<pc, frame>>
    /\ UNCHANGED <<queues, running, status>>

may_drop_lossy_frame(c, written) == qos_may_drop(c)   \* mutant: partly written too

may_drop_congested_frame(c, written) == written = 0 /\ qos_may_drop(c)

\* The write ends without having sent the whole frame.
GiveUp(s) ==
    /\ pc' = "fail" /\ status' = s
    /\ UNCHANGED <<frame, offset, retry_count>>

\* The socket would block: try again up to the limit, then the frame is
\* dropped or the write has failed.
WouldBlock ==
    /\ pc = "write" /\ running
    /\ \/ /\ retry_count < RetryLimit
          /\ retry_count' = retry_count + 1
          /\ UNCHANGED <<pc, frame, offset, status>>
       \/ /\ retry_count = RetryLimit
          /\ \/ /\ may_drop_congested_frame(frame[1].qos, offset)
                /\ NextFrame
                /\ UNCHANGED status
             \/ /\ ~may_drop_congested_frame(frame[1].qos, offset)
                /\ GiveUp("congested")
    /\ UNCHANGED <<queues, running, wire>>

\* A hard socket error, or a connection that somebody else is closing.
SocketError ==
    /\ pc = "write"
    /\ GiveUp("disconnected")
    /\ UNCHANGED <<queues, running, wire>>

\* The error event has been raised; the send thread closes the connection.
CloseAfterFailure ==
    /\ pc = "fail"
    /\ running' = FALSE
    /\ pc' = "done"
    /\ UNCHANGED <<queues, frame, offset, retry_count, status, wire>>

\* close_connection, or the end of the receive loop, in another thread.
CloseByOther ==
    /\ running
    /\ running' = FALSE
    /\ UNCHANGED <<queues, sender>>

SendThread == \/ Wake \/ LeaveLoop \/ TakeNextFrame \/ WouldBlock \/ SocketError
              \/ CloseAfterFailure
              \/ \E n \in 1..Quantum : WriteSome(n)

Next ==
    \/ \E c \in Qos, n \in Size :
          \E key \in (IF c = ReliableLatest THEN LatestKey ELSE {NoKey}) :
             Enqueue(c, n, key)
    \/ SendThread
    \/ CloseByOther

Spec == Init /\ [][Next]_vars

\* The send thread is scheduled; every blocked write ends after RetryLimit tries.
FairSpec == Spec /\ WF_vars(SendThread)

----------------------------------------------------------------------------
(* What the queues promise *)

AllQueued == queue[0] \o queue[1] \o queue[2] \o queue[3]

\* queued_bytes is the number of queued bytes and never exceeds
\* max_queued_bytes, through every mix of eviction, replacement and rejection;
\* an error here makes the unsigned counter wrap or the send thread sleep on a
\* queue that is not empty.
ByteAccounting == queued_bytes = Bytes(AllQueued) /\ queued_bytes <= MaxQueued

\* At most one queued ReliableLatest frame per key (runtime_enqueue replaces in
\* place), and every queue holds only its own class.
OneLatestPerKey ==
    /\ \A c \in Qos : \A i \in 1..Len(queue[c]) : queue[c][i].qos = c
    /\ \A i, j \in 1..Len(queue[ReliableLatest]) :
          queue[ReliableLatest][i].key = queue[ReliableLatest][j].key => i = j

\* The stream is a sequence of whole frames; only the last one may be cut
\* short, and then it is either being written or the connection is going down.
\* Dropping a frame that is partly on the wire would desynchronise the receiver.
WholeFrames ==
    \A i \in 1..Len(wire) :
        \/ wire[i].bytes = wire[i].frame.size
        \/ /\ i = Len(wire) /\ wire[i].bytes < wire[i].frame.size
           /\ pc = "write" \/ pc = "fail" \/ ~running

\* Frames of one class are sent in the order they were accepted, ReliableLatest
\* frames within their key: a newer value is never followed by an older one.
InOrder ==
    \A i, j \in 1..Len(wire) :
        LET f == wire[i].frame
            g == wire[j].frame
        IN  i < j /\ f.qos = g.qos /\ f.key = g.key => f.serial < g.serial

\* No step removes a queued reliable frame except to send it, or to put a newer
\* value of the same key in its place: make_room evicts lossy frames only.
ReliableKept ==
    [][\A c \in {ReliableOrdered, ReliableLatest} : \A i \in 1..Len(queue[c]) :
          LET f == queue[c][i]
          IN  \/ \E j \in 1..Len(queue'[c]) : queue'[c][j] = f
              \/ frame' = <<f>>
              \/ c = ReliableLatest /\ \E j \in 1..Len(queue'[c]) :
                    queue'[c][j].key = f.key /\ queue'[c][j].serial > f.serial]_vars

\* The channel the publishers see: one set of waiting frames, the frame in the
\* thread's hands, and the frames that the stream carries whole.
Waiting == UNION {{queue[c][i] : i \in 1..Len(queue[c])} : c \in Qos}

Partial == wire # <<>> /\ wire[Len(wire)].bytes < wire[Len(wire)].frame.size

Complete == [i \in 1..(IF Partial THEN Len(wire) - 1 ELSE Len(wire)) |-> wire[i].frame]

Outbound == INSTANCE OutboundChannel WITH
    Latest <- ReliableLatest, Lossy <- {BestEffort, Bulk},
    issued <- accepted, waiting <- Waiting, current <- frame, begun <- Partial,
    sent <- Complete, open <- running

\* The four queues with their evictions and replacements in place, and the send
\* thread with its chunks, retries and drops, implement one channel in which the
\* most urgent class goes first, order is kept within class and key, lossy frames
\* are dropped the least urgent class and the oldest first, reliable ones never,
\* and a frame that is begun is completed or closes the connection.
ImplementsOutbound == Outbound!Spec

\* A control frame that was accepted is on the wire in the end, unless the
\* connection goes down.
ControlSent ==
    \A s \in 1..MaxFrames :
        (\E i \in 1..Len(queue[ReliableOrdered]) : queue[ReliableOrdered][i].serial = s)
            ~> \/ ~running \/ pc = "fail"
               \/ \E i \in 1..Len(wire) : /\ wire[i].frame.serial = s
                                          /\ wire[i].bytes = wire[i].frame.size

\* docs/wire-v2.md, QoS failure isolation: "Only `ReliableOrdered` (and a hard
\* socket error) may tear down the connection." Congestion while any other frame
\* is written must not make runtime_send_loop close the peer.
OnlyReliableOrderedTearsDown ==
    pc = "fail" /\ status = "congested" => frame[1].qos = ReliableOrdered
=============================================================================
