--------------------------- MODULE SendQueueProofs ---------------------------
(***************************************************************************)
(* Machine-checked proofs about SendQueue, for any queue limits, frame     *)
(* sizes, keys and number of frames.                                       *)
(***************************************************************************)
EXTENDS SendQueue, WellFoundedInduction, TLAPS

(***************************************************************************)
(* The inductive invariant.                                                *)
(***************************************************************************)
Sent == [frame : Frame, bytes : Nat]

QType ==
    /\ queue \in [Qos -> Seq(Frame)]
    /\ running \in BOOLEAN /\ accepted \in 0..MaxFrames
    /\ pc \in {"wait", "take", "write", "fail", "done"}
    /\ frame \in {<<>>} \cup {<<f>> : f \in Frame}
    /\ offset \in Nat
    /\ wire \in Seq(Sent)

\* The send thread has a frame exactly while it writes one or has failed to; only the
\* last frame of the stream may be cut short, and then it is that one.
WireWhole ==
    /\ pc \in {"write", "fail"} => frame # <<>>
    /\ pc \in {"wait", "take"} => frame = <<>>
    /\ pc = "done" => ~running
    /\ frame = <<>> => \A i \in 1..Len(wire) : wire[i].bytes = wire[i].frame.size
    /\ frame # <<>> =>
          /\ offset < frame[1].size
          /\ \A i \in 1..Len(wire) : i < Len(wire) \/ offset = 0 =>
                wire[i].bytes = wire[i].frame.size
          /\ offset > 0 => /\ wire # <<>>
                           /\ wire[Len(wire)] = [frame |-> frame[1], bytes |-> offset]

\* f was accepted before g, if the two are of one class and key.
Before(f, g) == f.qos = g.qos /\ f.key = g.key => f.serial < g.serial

\* From the stream over the frame in the thread's hands to the queues, and along each
\* of them, frames of one class and key are in the order they were accepted.
QueueOrder ==
    /\ \A c \in Qos : \A i \in 1..Len(queue[c]) :
          queue[c][i].qos = c /\ queue[c][i].serial <= accepted
    /\ \A c \in Qos : \A i, j \in 1..Len(queue[c]) : i < j => Before(queue[c][i], queue[c][j])

LatestOnce ==
    \A i, j \in 1..Len(queue[ReliableLatest]) :
        queue[ReliableLatest][i].key = queue[ReliableLatest][j].key => i = j

WireOrder ==
    /\ \A i \in 1..Len(wire) : wire[i].frame.serial <= accepted
    /\ \A i, j \in 1..Len(wire) : i < j => Before(wire[i].frame, wire[j].frame)
    /\ \A i \in 1..Len(wire), c \in Qos : \A j \in 1..Len(queue[c]) :
          Before(wire[i].frame, queue[c][j])

FrameOrder ==
    frame # <<>> =>
        /\ frame[1].serial <= accepted
        /\ \A c \in Qos : \A j \in 1..Len(queue[c]) : Before(frame[1], queue[c][j])
        /\ offset = 0 => \A i \in 1..Len(wire) : Before(wire[i].frame, frame[1])

SInv == QType /\ WireWhole /\ QueueOrder /\ LatestOnce /\ WireOrder /\ FrameOrder

(***************************************************************************)
(* Lemmas about the operators.                                             *)
(***************************************************************************)

\* A set of natural numbers has a least one.
LEMMA LeastExists ==
  ASSUME NEW S \in SUBSET Nat, S # {}
  PROVE  \E d \in S : \A e \in S : d <= e
  <1> DEFINE R == OpToRel(<, Nat)
  <1>1. IsWellFoundedOn(R, Nat)
    BY NatLessThanWellFounded, Zenon
  <1>2. \A x, y \in Nat : x < y => <<x, y>> \in R
    BY Zenon DEF OpToRel
  <1> HIDE DEF R
  <1>3. PICK d \in S : \A e \in S : ~(<<e, d>> \in R)
    BY <1>1, WFMin
  <1>4. \A e \in S : ~(e < d)
    BY <1>2, <1>3
  <1> QED
    BY <1>4

\* The least member of a set of numbers up to n, or n if there is none, is one of them.
LEMMA LeastOrAll ==
  ASSUME NEW n \in Nat, NEW S \in SUBSET (0..n)
  PROVE  (IF S = {} THEN n ELSE CHOOSE d \in S : \A e \in S : d <= e) \in 0..n
  <1>1. CASE S = {}
    BY <1>1
  <1>2. CASE S # {}
    <2>1. S \in SUBSET Nat
      OBVIOUS
    <2>2. \E d \in S : \A e \in S : d <= e
      BY <1>2, <2>1, LeastExists
    <2> QED
      BY <1>2, <2>2
  <1> QED
    BY <1>1, <1>2

\* A queue after its first frame has been taken.
LEMMA TailFacts ==
  ASSUME NEW T, NEW s \in Seq(T), s # <<>>
  PROVE  /\ Len(s) \in Nat \ {0} /\ s[1] \in T /\ Head(s) = s[1]
         /\ Tail(s) \in Seq(T) /\ Len(Tail(s)) = Len(s) - 1
         /\ \A i \in 1..Len(Tail(s)) : Tail(s)[i] = s[i + 1]
  OBVIOUS

\* A queue after a frame has been added.
LEMMA AppendFacts ==
  ASSUME NEW T, NEW s \in Seq(T), NEW e \in T
  PROVE  /\ Append(s, e) \in Seq(T) /\ Len(Append(s, e)) = Len(s) + 1 /\ Len(s) \in Nat
         /\ \A i \in 1..Len(s) : Append(s, e)[i] = s[i]
         /\ Append(s, e)[Len(s) + 1] = e
  OBVIOUS

\* t is what is left of s without its first d elements.
Without(t, s, d) ==
    /\ Len(s) \in Nat /\ Len(t) \in Nat /\ d \in Nat /\ Len(t) = Len(s) - d
    /\ \A i \in 1..Len(t) : t[i] = s[i + d] /\ i + d \in 1..Len(s)

\* What is left of a queue once its first d frames are dropped.
LEMMA SuffixFacts ==
  ASSUME NEW T, NEW s \in Seq(T), NEW d \in 0..Len(s)
  PROVE  /\ SubSeq(s, d + 1, Len(s)) \in Seq(T)
         /\ Without(SubSeq(s, d + 1, Len(s)), s, d)
  <1> DEFINE t == SubSeq(s, d + 1, Len(s))
  <1>1. t \in Seq(T) /\ Len(t) = Len(s) - d /\ Len(s) \in Nat /\ d \in Nat
    OBVIOUS
  <1>2. \A i \in 1..Len(s) - d : t[i] = s[i + d]
    OBVIOUS
  <1> HIDE DEF t
  <1>3. Len(t) \in Nat /\ \A i \in 1..Len(t) : t[i] = s[i + d] /\ i + d \in 1..Len(s)
    BY <1>1, <1>2
  <1>4. Without(t, s, d)
    BY <1>1, <1>3 DEF Without
  <1> QED
    BY <1>1, <1>4 DEF t

\* q is what make_room leaves of the queues: each class has lost its first k[c] frames,
\* the reliable classes none, and BestEffort only after all of Bulk.
Evicted(q, k) ==
    /\ q \in [Qos -> Seq(Frame)] /\ k \in [Qos -> Nat]
    /\ q[ReliableOrdered] = queue[ReliableOrdered] /\ q[ReliableLatest] = queue[ReliableLatest]
    /\ \A c \in Qos : Without(q[c], queue[c], k[c])
    /\ k[BestEffort] = 0 \/ k[Bulk] = Len(queue[Bulk])

\* Queues that have lost a prefix of the two lossy classes.
LEMMA EvictedFacts ==
  ASSUME QType, NEW d1 \in 0..Len(queue[Bulk]), NEW d2 \in 0..Len(queue[BestEffort]),
         d2 = 0 \/ d1 = Len(queue[Bulk])
  PROVE  \E k \in [Qos -> Nat] :
            Evicted([queue EXCEPT
                      ![Bulk] = SubSeq(queue[Bulk], d1 + 1, Len(queue[Bulk])),
                      ![BestEffort] = SubSeq(queue[BestEffort], d2 + 1, Len(queue[BestEffort]))], k)
  <1> DEFINE s1 == SubSeq(queue[Bulk], d1 + 1, Len(queue[Bulk]))
             s2 == SubSeq(queue[BestEffort], d2 + 1, Len(queue[BestEffort]))
             q  == [queue EXCEPT ![Bulk] = s1, ![BestEffort] = s2]
             k  == [c \in Qos |-> IF c = Bulk THEN d1 ELSE IF c = BestEffort THEN d2 ELSE 0]
  <1>1. \A c \in Qos : queue[c] \in Seq(Frame) /\ Without(queue[c], queue[c], 0)
    BY DEF QType, Without
  <1>2. Bulk \in Qos /\ BestEffort \in Qos /\ ReliableOrdered \in Qos /\ ReliableLatest \in Qos
    BY DEF Qos, Bulk, BestEffort, ReliableOrdered, ReliableLatest
  <1>3. s1 \in Seq(Frame) /\ Without(s1, queue[Bulk], d1)
    BY <1>1, <1>2, SuffixFacts
  <1>4. s2 \in Seq(Frame) /\ Without(s2, queue[BestEffort], d2)
    BY <1>1, <1>2, SuffixFacts
  <1> HIDE DEF s1, s2
  <1>5. Bulk # BestEffort /\ \A c \in {ReliableOrdered, ReliableLatest} : c # Bulk /\ c # BestEffort
    BY DEF Bulk, BestEffort, ReliableOrdered, ReliableLatest
  <1>6. \A c \in Qos : c \in {ReliableOrdered, ReliableLatest, BestEffort, Bulk}
    BY DEF Qos, Bulk, BestEffort, ReliableOrdered, ReliableLatest
  <1>7. d1 \in Nat /\ d2 \in Nat
    BY <1>3, <1>4 DEF Without
  <1>8. /\ q \in [Qos -> Seq(Frame)] /\ q[Bulk] = s1 /\ q[BestEffort] = s2
        /\ \A c \in {ReliableOrdered, ReliableLatest} : q[c] = queue[c]
    BY <1>2, <1>3, <1>4, <1>5 DEF QType
  <1>9. /\ k \in [Qos -> Nat] /\ k[Bulk] = d1 /\ k[BestEffort] = d2
        /\ \A c \in {ReliableOrdered, ReliableLatest} : k[c] = 0
    BY <1>2, <1>5, <1>7
  <1> HIDE DEF q, k
  <1>10. \A c \in Qos : Without(q[c], queue[c], k[c])
    BY <1>1, <1>3, <1>4, <1>6, <1>8, <1>9
  <1>11. Evicted(q, k)
    BY <1>8, <1>9, <1>10 DEF Evicted
  <1> QED
    BY <1>9, <1>11 DEF q, s1, s2

\* Making room drops frames from the front of queues and nothing else.
LEMMA MakeRoomFacts ==
  ASSUME QType, NEW used, NEW n, NEW c
  PROVE  \E k \in [Qos -> Nat] : Evicted(MakeRoom(used, n, c).queue, k)
  <1> DEFINE after(d) == used - Bytes(SubSeq(Droppable, 1, d))
             enough   == {d \in 0..Len(Droppable) : after(d) + n <= enqueue_limit(c)}
             drops    == IF enough = {} THEN Len(Droppable)
                         ELSE CHOOSE d \in enough : \A e \in enough : d <= e
             first    == queue[Bulk]
             second   == queue[BestEffort]
             d1       == IF drops < Len(first) THEN drops ELSE Len(first)
             d2       == drops - d1
  <1>1. EvictionOrder[1] = Bulk /\ EvictionOrder[2] = BestEffort
    BY DEF EvictionOrder
  <1>2. first \in Seq(Frame) /\ second \in Seq(Frame)
    BY DEF QType, Qos, Bulk, BestEffort, ReliableOrdered
  <1>3. Len(first) \in Nat /\ Len(second) \in Nat /\ Len(Droppable) = Len(first) + Len(second)
    BY <1>1, <1>2 DEF Droppable
  <1>4. MakeRoom(used, n, c).queue =
          [queue EXCEPT ![Bulk] = SubSeq(first, d1 + 1, Len(first)),
                        ![BestEffort] = SubSeq(second, d2 + 1, Len(second))]
    BY <1>1 DEF MakeRoom
  <1>5. enough \in SUBSET (0..Len(Droppable))
    OBVIOUS
  <1> HIDE DEF after, enough
  <1>6. Len(Droppable) \in Nat
    <2> HIDE DEF first, second
    <2> QED
      BY <1>3
  <1>7. drops \in 0..Len(Droppable)
    BY <1>5, <1>6, LeastOrAll
  <1> HIDE DEF drops
  <1>8. d1 \in 0..Len(first) /\ d2 \in 0..Len(second) /\ (d2 = 0 \/ d1 = Len(first))
    <2> HIDE DEF first, second
    <2> QED
      BY <1>3, <1>7
  <1> HIDE DEF d1, d2
  <1> QED
    BY <1>4, <1>8, EvictedFacts DEF first, second

\* What runtime_enqueue makes of the queues, q, and of the number of accepted frames, n:
\* each frame of q is one of the old ones, moved up by the frames dropped before it, or
\* it is new, at the end of its queue or in the place of an older value of its key.
\* No reliable frame is gone unless new is in its place, no frame is gone but for the
\* ones dropped from the front, and new is in its queue if it was accepted.
Placed(new, q, n, k, c, i) ==
    \/ /\ i + k \in 1..Len(queue[c])
       /\ q[c][i] = queue[c][i + k]
    \/ /\ c = new.qos /\ q[c][i] = new /\ n = accepted + 1
       /\ i + k = Len(queue[c]) + 1
       /\ c = ReliableLatest => \A j \in 1..Len(queue[c]) : queue[c][j].key # new.key
    \/ /\ c = ReliableLatest /\ c = new.qos /\ q[c][i] = new /\ n = accepted + 1
       /\ k = 0 /\ i \in 1..Len(queue[c])
       /\ queue[c][i].key = new.key

Retained(new, q, c, i) ==
    /\ i \in 1..Len(q[c])
    /\ \/ q[c][i] = queue[c][i]
       \/ c = ReliableLatest /\ q[c][i] = new /\ queue[c][i].key = new.key

FrontOnly(q, k) ==
    /\ \A c \in Qos : Len(queue[c]) <= Len(q[c]) + k[c]
    /\ k[BestEffort] = 0 \/ k[Bulk] = Len(queue[Bulk])

Enqueued(new, q, n) ==
    /\ q \in [Qos -> Seq(Frame)] /\ new \in Frame /\ new.serial = accepted + 1
    /\ n \in {accepted, accepted + 1}
    /\ \E k \in [Qos -> Nat] :
          /\ \A c \in Qos : \A i \in 1..Len(q[c]) : Placed(new, q, n, k[c], c, i)
          /\ FrontOnly(q, k)
    /\ n = accepted + 1 => \E i \in 1..Len(q[new.qos]) : q[new.qos][i] = new
    /\ \A c \in {ReliableOrdered, ReliableLatest} : \A i \in 1..Len(queue[c]) :
          Retained(new, q, c, i)

\* The reliable queues lose nothing to make_room.
LEMMA EvictedReliable ==
  ASSUME QType, NEW q, NEW k, Evicted(q, k), NEW c \in {ReliableOrdered, ReliableLatest}
  PROVE  c \in Qos /\ q[c] = queue[c] /\ k[c] = 0
  <1>1. c \in Qos
    BY DEF Qos, ReliableOrdered, ReliableLatest, Bulk
  <1>2. q[c] = queue[c]
    BY DEF Evicted
  <1>3. Without(q[c], queue[c], k[c])
    BY <1>1 DEF Evicted
  <1>4. k[c] = 0
    BY <1>2, <1>3 DEF Without
  <1> QED
    BY <1>1, <1>2, <1>4

\* The frame is rejected: the drops remain.
LEMMA RejectedFacts ==
  ASSUME QType, NEW new \in Frame, new.serial = accepted + 1,
         NEW q, NEW k \in [Qos -> Nat], Evicted(q, k)
  PROVE  Enqueued(new, q, accepted)
  <1>1. q \in [Qos -> Seq(Frame)]
    BY DEF Evicted
  <1>2. \A c \in Qos : \A i \in 1..Len(q[c]) :
           i + k[c] \in 1..Len(queue[c]) /\ q[c][i] = queue[c][i + k[c]]
    BY DEF Evicted, Without
  <1>3. \A c \in {ReliableOrdered, ReliableLatest} : q[c] = queue[c]
    BY EvictedReliable
  <1>4. FrontOnly(q, k)
    BY DEF Evicted, Without, FrontOnly
  <1>5. accepted # accepted + 1
    BY DEF QType
  <1> QED
    BY <1>1, <1>2, <1>3, <1>4, <1>5 DEF Enqueued, Placed, Retained

\* The frame goes to the end of its queue.
LEMMA AppendedFacts ==
  ASSUME QType, NEW new \in Frame, new.serial = accepted + 1,
         NEW q, NEW k \in [Qos -> Nat], Evicted(q, k),
         new.qos = ReliableLatest =>
            \A j \in 1..Len(queue[ReliableLatest]) : queue[ReliableLatest][j].key # new.key
  PROVE  Enqueued(new, [q EXCEPT ![new.qos] = Append(@, new)], accepted + 1)
  <1> DEFINE c  == new.qos
             s  == Append(q[c], new)
             q2 == [q EXCEPT ![c] = s]
  <1>1. c \in Qos
    BY DEF Frame
  <1>2. q \in [Qos -> Seq(Frame)] /\ q[c] \in Seq(Frame)
    BY <1>1 DEF Evicted
  <1>3. /\ s \in Seq(Frame) /\ Len(s) = Len(q[c]) + 1 /\ Len(q[c]) \in Nat
        /\ \A i \in 1..Len(q[c]) : s[i] = q[c][i]
        /\ s[Len(q[c]) + 1] = new
    BY <1>2, AppendFacts
  <1> HIDE DEF s
  <1>4. q2 \in [Qos -> Seq(Frame)] /\ q2[c] = s /\ \A d \in Qos \ {c} : q2[d] = q[d]
    BY <1>1, <1>2, <1>3
  <1> HIDE DEF q2
  <1>5. \A d \in Qos : Without(q[d], queue[d], k[d])
    BY DEF Evicted
  <1>6. ASSUME NEW d \in Qos \ {c}, NEW i \in 1..Len(q2[d])
        PROVE  i + k[d] \in 1..Len(queue[d]) /\ q2[d][i] = queue[d][i + k[d]]
    BY <1>4, <1>5 DEF Without
  <1>7. ASSUME NEW i \in 1..Len(q2[c])
        PROVE  \/ i + k[c] \in 1..Len(queue[c]) /\ q2[c][i] = queue[c][i + k[c]]
               \/ q2[c][i] = new /\ i + k[c] = Len(queue[c]) + 1
    <2>1. Without(q[c], queue[c], k[c])
      BY <1>1, <1>5
    <2>2. i \in 1..Len(q[c]) \/ i = Len(q[c]) + 1
      BY <1>3, <1>4
    <2>3. CASE i \in 1..Len(q[c])
      BY <1>3, <1>4, <2>1, <2>3 DEF Without
    <2>4. CASE i = Len(q[c]) + 1
      <3>1. q2[c][i] = new
        BY <1>3, <1>4, <2>4
      <3>2. i + k[c] = Len(queue[c]) + 1
        BY <2>1, <2>4 DEF Without
      <3> QED
        BY <3>1, <3>2
    <2> QED
      BY <2>2, <2>3, <2>4
  <1>8. \A d \in {ReliableOrdered, ReliableLatest} : d \in Qos /\ q[d] = queue[d]
    BY EvictedReliable
  <1>9. ASSUME NEW d \in {ReliableOrdered, ReliableLatest}, NEW i \in 1..Len(queue[d])
        PROVE  Retained(new, q2, d, i)
    <2>1. d \in Qos /\ q[d] = queue[d]
      BY <1>8
    <2>2. CASE d = c
      <3>1. i \in 1..Len(q[c]) /\ q2[d] = s
        BY <1>4, <2>1, <2>2
      <3>2. i \in 1..Len(s) /\ s[i] = q[c][i]
        BY <1>3, <3>1
      <3> QED
        BY <2>1, <2>2, <3>1, <3>2 DEF Retained
    <2>3. CASE d # c
      BY <1>4, <2>1, <2>3 DEF Retained
    <2> QED
      BY <2>2, <2>3
  <1>10. \A d \in Qos : \A i \in 1..Len(q2[d]) : Placed(new, q2, accepted + 1, k[d], d, i)
    <2> TAKE d \in Qos
    <2> TAKE i \in 1..Len(q2[d])
    <2>1. CASE d = c
      BY <1>7, <2>1 DEF Placed
    <2>2. CASE d # c
      BY <1>6, <2>2 DEF Placed
    <2> QED
      BY <2>1, <2>2
  <1>11. FrontOnly(q2, k)
    <2>1. ASSUME NEW d \in Qos PROVE Len(queue[d]) <= Len(q2[d]) + k[d]
      <3>1. Without(q[d], queue[d], k[d])
        BY <1>5
      <3>2. CASE d = c
        BY <1>3, <1>4, <3>1, <3>2 DEF Without
      <3>3. CASE d # c
        BY <1>4, <3>1, <3>3 DEF Without
      <3> QED
        BY <3>2, <3>3
    <2> QED
      BY <2>1 DEF FrontOnly, Evicted
  <1>12. \E i \in 1..Len(q2[c]) : q2[c][i] = new
    <2>1. Len(q[c]) + 1 \in 1..Len(q2[c]) /\ q2[c][Len(q[c]) + 1] = new
      BY <1>3, <1>4
    <2> QED
      BY <2>1
  <1>13. Enqueued(new, q2, accepted + 1)
    BY <1>4, <1>9, <1>10, <1>11, <1>12 DEF Enqueued
  <1> QED
    BY <1>13 DEF q2, s

\* The frame takes the place of the older value of its key: s is the queue with it.
LEMMA ReplacedFacts ==
  ASSUME QType, NEW new \in Frame, new.serial = accepted + 1, new.qos = ReliableLatest,
         NEW q, NEW k \in [Qos -> Nat], Evicted(q, k),
         NEW s \in Seq(Frame), Len(s) = Len(queue[ReliableLatest]),
         \A i \in 1..Len(s) : \/ s[i] = queue[ReliableLatest][i]
                              \/ s[i] = new /\ queue[ReliableLatest][i].key = new.key,
         \E i \in 1..Len(s) : s[i] = new
  PROVE  Enqueued(new, [q EXCEPT ![ReliableLatest] = s], accepted + 1)
  <1> DEFINE c  == ReliableLatest
             o  == queue[c]
             q2 == [q EXCEPT ![c] = s]
  <1>1. c \in Qos /\ q[c] = o /\ k[c] = 0
    BY EvictedReliable
  <1>2. q \in [Qos -> Seq(Frame)] /\ o \in Seq(Frame)
    BY <1>1 DEF Evicted, QType
  <1>3. /\ Len(s) = Len(o) /\ Len(o) \in Nat
        /\ \A i \in 1..Len(o) : s[i] = o[i] \/ (s[i] = new /\ o[i].key = new.key)
    BY <1>2
  <1>4. q2 \in [Qos -> Seq(Frame)] /\ q2[c] = s /\ \A d \in Qos \ {c} : q2[d] = q[d]
    BY <1>1, <1>2
  <1> HIDE DEF q2
  <1>5. ASSUME NEW d \in Qos \ {c}, NEW i \in 1..Len(q2[d])
        PROVE  i + k[d] \in 1..Len(queue[d]) /\ q2[d][i] = queue[d][i + k[d]]
    BY <1>4 DEF Evicted, Without
  <1>6. ASSUME NEW i \in 1..Len(q2[c])
        PROVE  /\ i \in 1..Len(o) /\ i + k[c] = i
               /\ q2[c][i] = o[i] \/ (q2[c][i] = new /\ o[i].key = new.key)
    BY <1>1, <1>3, <1>4
  <1>7. \A d \in {ReliableOrdered, ReliableLatest} : d \in Qos /\ q[d] = queue[d]
    BY EvictedReliable
  <1>8. ASSUME NEW d \in {ReliableOrdered, ReliableLatest}, NEW i \in 1..Len(queue[d])
        PROVE  Retained(new, q2, d, i)
    <2>1. CASE d = c
      BY <1>3, <1>4, <2>1 DEF Retained
    <2>2. CASE d # c
      BY <1>4, <1>7, <2>2 DEF Retained
    <2> QED
      BY <2>1, <2>2
  <1>9. \A d \in Qos : \A i \in 1..Len(q2[d]) : Placed(new, q2, accepted + 1, k[d], d, i)
    <2> TAKE d \in Qos
    <2> TAKE i \in 1..Len(q2[d])
    <2>1. CASE d = c
      BY <1>1, <1>6, <2>1 DEF Placed
    <2>2. CASE d # c
      BY <1>5, <2>2 DEF Placed
    <2> QED
      BY <2>1, <2>2
  <1>10. FrontOnly(q2, k)
    <2>1. ASSUME NEW d \in Qos PROVE Len(queue[d]) <= Len(q2[d]) + k[d]
      <3>1. CASE d = c
        BY <1>1, <1>3, <1>4, <3>1
      <3>2. CASE d # c
        <4>1. Without(q[d], queue[d], k[d])
          BY DEF Evicted
        <4> QED
          BY <1>4, <3>2, <4>1 DEF Without
      <3> QED
        BY <3>1, <3>2
    <2> QED
      BY <2>1 DEF FrontOnly, Evicted
  <1>11. \E i \in 1..Len(q2[c]) : q2[c][i] = new
    BY <1>4
  <1>12. Enqueued(new, q2, accepted + 1)
    BY <1>4, <1>8, <1>9, <1>10, <1>11 DEF Enqueued
  <1> QED
    BY <1>12 DEF q2

\* runtime_enqueue adds the new frame, replaces the value of its key or leaves the
\* queues as eviction left them; what has been written is not touched.
LEMMA EnqueueFacts ==
  ASSUME SendQueueAssumption, QType, NEW c \in Qos, NEW n \in Size,
         NEW key \in (IF c = ReliableLatest THEN LatestKey ELSE {NoKey}),
         Enqueue(c, n, key)
  PROVE  /\ \E new : Enqueued(new, queue', accepted')
         /\ accepted' \in 0..MaxFrames
         /\ UNCHANGED <<running, pc, frame, offset, wire>>
  <1> DEFINE new  == [serial |-> accepted + 1, size |-> n, qos |-> c, key |-> key]
             at   == Replaces(c, key)
             old  == IF at = {} THEN 0 ELSE queue[c][CHOOSE i \in at : TRUE].size
             room == MakeRoom(queued_bytes - old, n, c)
             q    == room.queue
  <1>1. /\ accepted < MaxFrames
        /\ \/ /\ accepted' = accepted + 1
              /\ queue' = IF at = {}
                          THEN [q EXCEPT ![c] = Append(@, new)]
                          ELSE [q EXCEPT ![c] =
                                  [i \in DOMAIN @ |-> IF i \in at THEN new ELSE @[i]]]
           \/ accepted' = accepted /\ queue' = q
        /\ UNCHANGED <<running, pc, frame, offset, wire>>
    BY DEF Enqueue
  <1>2. PICK k \in [Qos -> Nat] : Evicted(q, k)
    BY MakeRoomFacts
  <1> HIDE DEF room, old, q
  <1>3. accepted \in Nat /\ accepted + 1 \in 1..MaxFrames /\ accepted' \in 0..MaxFrames
    BY <1>1, SendQueueAssumption DEF QType, SendQueueAssumption
  <1>4. key \in LatestKey \cup {NoKey}
    OBVIOUS
  <1>5. new \in Frame /\ new.serial = accepted + 1 /\ new.qos = c /\ new.key = key
    BY <1>3, <1>4 DEF Frame
  <1> HIDE DEF new
  <1>6. ASSUME accepted' = accepted, queue' = q
        PROVE  Enqueued(new, queue', accepted')
    BY <1>2, <1>5, <1>6, RejectedFacts
  <1>7. ASSUME at = {}, accepted' = accepted + 1, queue' = [q EXCEPT ![c] = Append(@, new)]
        PROVE  Enqueued(new, queue', accepted')
    <2>1. c = ReliableLatest => \A j \in 1..Len(queue[ReliableLatest]) :
             queue[ReliableLatest][j].key # new.key
      BY <1>5, <1>7 DEF Replaces
    <2>2. Enqueued(new, [q EXCEPT ![new.qos] = Append(@, new)], accepted + 1)
      <3> HIDE DEF at
      <3> QED
        BY <1>2, <1>5, <2>1, AppendedFacts
    <2> QED
      BY <1>5, <1>7, <2>2
  <1>8. ASSUME at # {}, accepted' = accepted + 1,
               queue' = [q EXCEPT ![c] = [i \in DOMAIN @ |-> IF i \in at THEN new ELSE @[i]]]
        PROVE  Enqueued(new, queue', accepted')
    <2> DEFINE o == queue[ReliableLatest]
               s == [i \in DOMAIN o |-> IF i \in at THEN new ELSE o[i]]
    <2>1. c = ReliableLatest /\ \A i \in at : i \in 1..Len(o) /\ o[i].key = new.key
      BY <1>5, <1>8 DEF Replaces
    <2> HIDE DEF at
    <2>2. ReliableLatest \in Qos /\ q[ReliableLatest] = o
      BY <1>2, EvictedReliable
    <2>3. o \in Seq(Frame) /\ Len(o) \in Nat /\ DOMAIN o = 1..Len(o)
      BY <2>2 DEF QType
    <2>4. s \in [1..Len(o) -> Frame]
      <3> HIDE DEF o
      <3> QED
        BY <1>5, <2>3
    <2>5. \A i \in 1..Len(o) : s[i] = o[i] \/ (s[i] = new /\ o[i].key = new.key)
      <3> HIDE DEF o
      <3> QED
        BY <2>1, <2>3
    <2>6. queue' = [q EXCEPT ![ReliableLatest] = s]
      <3>1. queue' = [q EXCEPT ![ReliableLatest] =
                       [i \in DOMAIN q[ReliableLatest] |->
                          IF i \in at THEN new ELSE q[ReliableLatest][i]]]
        BY <1>8, <2>1, Zenon
      <3> QED
        BY <2>2, <3>1
    <2> HIDE DEF s
    <2>7. s \in Seq(Frame) /\ Len(s) = Len(o)
      BY <2>3, <2>4
    <2>8. \E i \in 1..Len(s) : s[i] = new
      <3>1. PICK i \in at : TRUE
        BY <1>8
      <3>2. i \in 1..Len(o)
        BY <2>1
      <3> HIDE DEF o
      <3>3. s[i] = new
        BY <2>3, <3>1, <3>2 DEF s
      <3> QED
        BY <2>7, <3>2, <3>3
    <2>9. Enqueued(new, [q EXCEPT ![ReliableLatest] = s], accepted + 1)
      BY <1>2, <1>5, <2>1, <2>5, <2>7, <2>8, ReplacedFacts
    <2> QED
      BY <1>8, <2>6, <2>9
  <1>9. Enqueued(new, queue', accepted')
    <2> HIDE DEF at
    <2> QED
      BY <1>1, <1>6, <1>7, <1>8
  <1> QED
    BY <1>1, <1>3, <1>9

(***************************************************************************)
(* The steps of the inductive proof.                                       *)
(***************************************************************************)
LEMMA InitStep ==
  ASSUME SendQueueAssumption, Init
  PROVE  SInv
  <1>1. \A c \in Qos : queue[c] = <<>> /\ Len(queue[c]) = 0
    BY DEF Init
  <1>2. wire = <<>> /\ Len(wire) = 0 /\ frame = <<>> /\ pc = "wait"
    BY DEF Init
  <1>3. QType
    BY SendQueueAssumption DEF SendQueueAssumption, Init, QType
  <1>4. ReliableLatest \in Qos
    BY DEF Qos, ReliableOrdered, ReliableLatest, Bulk
  <1>5. WireWhole /\ FrameOrder
    BY <1>2 DEF WireWhole, FrameOrder
  <1>6. QueueOrder /\ LatestOnce /\ WireOrder
    BY <1>1, <1>2, <1>4 DEF QueueOrder, LatestOnce, WireOrder
  <1> QED
    BY <1>3, <1>5, <1>6 DEF SInv

\* runtime_enqueue.
LEMMA EnqueueStep ==
  ASSUME SendQueueAssumption, SInv, NEW new, Enqueued(new, queue', accepted'),
         accepted' \in 0..MaxFrames, UNCHANGED <<running, pc, frame, offset, wire>>
  PROVE  SInv'
  <1>1. QType /\ QueueOrder /\ LatestOnce /\ WireWhole /\ WireOrder /\ FrameOrder
    BY DEF SInv
  <1>2. PICK k \in [Qos -> Nat] : \A c \in Qos : \A i \in 1..Len(queue'[c]) :
           Placed(new, queue', accepted', k[c], c, i)
    BY DEF Enqueued
  <1>3. /\ queue' \in [Qos -> Seq(Frame)] /\ new \in Frame /\ new.serial = accepted + 1
        /\ accepted \in Nat /\ accepted' \in {accepted, accepted + 1}
    BY <1>1 DEF Enqueued, QType
  <1>4. ReliableLatest \in Qos
    BY DEF Qos, ReliableOrdered, ReliableLatest, Bulk
  <1>5. \A c \in Qos : /\ queue[c] \in Seq(Frame) /\ Len(queue[c]) \in Nat
                       /\ queue'[c] \in Seq(Frame) /\ Len(queue'[c]) \in Nat
                       /\ \A i \in 1..Len(queue[c]) : queue[c][i] \in Frame
                       /\ k[c] \in Nat
    BY <1>1, <1>3 DEF QType
  <1>6. \A f \in Frame : f.serial \in Nat
    BY SendQueueAssumption DEF Frame, SendQueueAssumption
  <1>7. ASSUME NEW c \in Qos, NEW i \in 1..Len(queue'[c])
        PROVE  \/ \E j \in 1..Len(queue[c]) : j = i + k[c] /\ queue'[c][i] = queue[c][j]
               \/ c = new.qos /\ queue'[c][i] = new /\ accepted' = accepted + 1
    BY <1>2 DEF Placed
  <1>8. QType'
    BY <1>1, <1>3 DEF QType
  <1>9. WireWhole'
    BY <1>1 DEF WireWhole
  <1>10. ASSUME NEW c \in Qos, NEW i \in 1..Len(queue'[c])
         PROVE  queue'[c][i].qos = c /\ queue'[c][i].serial <= accepted'
    <2>1. CASE \E j \in 1..Len(queue[c]) : queue'[c][i] = queue[c][j]
      <3>1. PICK j \in 1..Len(queue[c]) : queue'[c][i] = queue[c][j]
        BY <2>1
      <3>2. queue[c][j].qos = c /\ queue[c][j].serial <= accepted /\ queue[c][j].serial \in Nat
        BY <1>1, <1>5, <1>6 DEF QueueOrder
      <3> QED
        BY <1>3, <3>1, <3>2
    <2>2. CASE c = new.qos /\ queue'[c][i] = new /\ accepted' = accepted + 1
      BY <1>3, <2>2
    <2> QED
      BY <1>7, <2>1, <2>2
  <1>11. ASSUME NEW c \in Qos, NEW i \in 1..Len(queue'[c]), NEW j \in 1..Len(queue'[c]), i < j
         PROVE  Before(queue'[c][i], queue'[c][j])
    <2>1. Placed(new, queue', accepted', k[c], c, i) /\ Placed(new, queue', accepted', k[c], c, j)
      BY <1>2
    <2>2. CASE i + k[c] \in 1..Len(queue[c]) /\ queue'[c][i] = queue[c][i + k[c]]
      <3>1. queue'[c][i].serial <= accepted /\ queue'[c][i].serial \in Nat
        BY <1>1, <1>5, <1>6, <2>2 DEF QueueOrder
      <3>2. CASE queue'[c][j] = new
        BY <1>3, <3>1, <3>2 DEF Before
      <3>3. CASE j + k[c] \in 1..Len(queue[c]) /\ queue'[c][j] = queue[c][j + k[c]]
        BY <1>1, <1>5, <1>11, <2>2, <3>3 DEF QueueOrder
      <3> QED
        BY <2>1, <3>2, <3>3 DEF Placed
    <2>3. CASE i + k[c] = Len(queue[c]) + 1
      <3>1. j + k[c] > Len(queue[c]) + 1
        BY <1>5, <1>11, <2>3
      <3>2. ~Placed(new, queue', accepted', k[c], c, j)
        BY <1>5, <3>1 DEF Placed
      <3> QED
        BY <2>1, <3>2
    <2>4. CASE /\ c = ReliableLatest /\ queue'[c][i] = new /\ k[c] = 0
               /\ i \in 1..Len(queue[c]) /\ queue[c][i].key = new.key
      <3>1. ~(j + k[c] = Len(queue[c]) + 1 /\ \A l \in 1..Len(queue[c]) : queue[c][l].key # new.key)
        BY <2>4
      <3>2. j \in 1..Len(queue[c])
        BY <1>5, <2>1, <2>4, <3>1 DEF Placed
      <3>3. queue[c][j].key # new.key
        BY <1>1, <1>11, <2>4, <3>2 DEF LatestOnce
      <3>4. queue'[c][j] = queue[c][j]
        BY <2>1, <2>4, <3>2, <3>3, <1>5 DEF Placed
      <3> QED
        BY <2>4, <3>3, <3>4 DEF Before
    <2> QED
      BY <2>1, <2>2, <2>3, <2>4 DEF Placed
  <1>12. QueueOrder'
    BY <1>10, <1>11 DEF QueueOrder, Before
  <1>13. LatestOnce'
    <2> DEFINE c == ReliableLatest
    <2> SUFFICES ASSUME NEW i \in 1..Len(queue'[c]), NEW j \in 1..Len(queue'[c]),
                        queue'[c][i].key = queue'[c][j].key
                 PROVE  i = j
      BY DEF LatestOnce
    <2>1. Placed(new, queue', accepted', k[c], c, i) /\ Placed(new, queue', accepted', k[c], c, j)
      BY <1>2, <1>4
    <2>2. /\ k[c] \in Nat /\ Len(queue[c]) \in Nat
          /\ \A a, b \in 1..Len(queue[c]) : queue[c][a].key = queue[c][b].key => a = b
      BY <1>1, <1>4, <1>5 DEF LatestOnce
    <2>3. ASSUME NEW x \in 1..Len(queue'[c]), Placed(new, queue', accepted', k[c], c, x)
          PROVE  \/ /\ x + k[c] \in 1..Len(queue[c])
                    /\ queue'[c][x].key = queue[c][x + k[c]].key
                 \/ /\ x + k[c] = Len(queue[c]) + 1 /\ queue'[c][x].key = new.key
                    /\ \A l \in 1..Len(queue[c]) : queue[c][l].key # new.key
      <3>1. CASE k[c] = 0 /\ x \in 1..Len(queue[c]) /\ queue'[c][x] = new /\ queue[c][x].key = new.key
        <4>1. x + k[c] = x
          BY <3>1
        <4> QED
          BY <3>1, <4>1
      <3>2. CASE x + k[c] \in 1..Len(queue[c]) /\ queue'[c][x] = queue[c][x + k[c]]
        BY <3>2
      <3> QED
        BY <2>3, <3>1, <3>2 DEF Placed
    <2>4. i + k[c] = j + k[c]
      <3>1. CASE i + k[c] \in 1..Len(queue[c]) /\ j + k[c] \in 1..Len(queue[c])
        BY <2>1, <2>2, <2>3, <3>1
      <3>2. CASE i + k[c] = Len(queue[c]) + 1
        BY <2>1, <2>2, <2>3, <3>2
      <3>3. CASE j + k[c] = Len(queue[c]) + 1
        BY <2>1, <2>2, <2>3, <3>3
      <3> QED
        BY <2>1, <2>3, <3>1, <3>2, <3>3
    <2> QED
      BY <2>2, <2>4
  <1>14. ASSUME NEW f \in Frame, f.serial <= accepted, NEW c \in Qos, NEW j \in 1..Len(queue'[c]),
                \A l \in 1..Len(queue[c]) : Before(f, queue[c][l])
         PROVE  Before(f, queue'[c][j])
    <2>1. CASE \E l \in 1..Len(queue[c]) : queue'[c][j] = queue[c][l]
      BY <1>14, <2>1
    <2>2. CASE queue'[c][j] = new
      BY <1>3, <1>6, <1>14, <2>2 DEF Before
    <2> QED
      BY <1>7, <2>1, <2>2
  <1>15. WireOrder'
    <2>a. wire \in Seq(Sent) /\ \A i \in 1..Len(wire) : wire[i] \in Sent
      BY <1>1 DEF QType
    <2>1. /\ wire' = wire
          /\ \A i \in 1..Len(wire) : wire[i].frame \in Frame /\ wire[i].frame.serial <= accepted
      BY <1>1, <2>a DEF Sent, WireOrder
    <2>2. \A i \in 1..Len(wire) : wire[i].frame.serial <= accepted'
      BY <1>3, <1>6, <2>1
    <2>3. \A i \in 1..Len(wire), c \in Qos : \A j \in 1..Len(queue'[c]) :
             Before(wire[i].frame, queue'[c][j])
      BY <1>1, <1>14, <2>1 DEF WireOrder
    <2> QED
      BY <1>1, <2>1, <2>2, <2>3 DEF WireOrder, Before
  <1>16. FrameOrder'
    <2> SUFFICES ASSUME frame # <<>> PROVE FrameOrder'
      BY DEF FrameOrder
    <2>1. frame[1] \in Frame /\ frame[1].serial <= accepted
      BY <1>1 DEF QType, FrameOrder
    <2>2. frame[1].serial <= accepted'
      BY <1>3, <1>6, <2>1
    <2>3. \A c \in Qos : \A j \in 1..Len(queue'[c]) : Before(frame[1], queue'[c][j])
      BY <1>1, <1>14, <2>1 DEF FrameOrder
    <2> QED
      BY <1>1, <2>2, <2>3 DEF FrameOrder, Before
  <1> QED
    BY <1>8, <1>9, <1>12, <1>13, <1>15, <1>16 DEF SInv

\* The state of the send thread and of the stream does not concern the queues.
QueueVars == <<queue, accepted>>

\* What is said of the queues alone holds after a step that leaves them alone.
LEMMA QueuePartKept ==
  ASSUME SInv, UNCHANGED QueueVars
  PROVE  (QueueOrder /\ LatestOnce)'
  BY DEF SInv, QueueVars, QueueOrder, LatestOnce, Before

\* take_next_frame: the head of the first queue that is not empty.
LEMMA TakeStep ==
  ASSUME SendQueueAssumption, SInv, TakeNextFrame
  PROVE  SInv'
  <1>1. QType /\ QueueOrder /\ LatestOnce /\ WireWhole /\ WireOrder /\ FrameOrder
    BY DEF SInv
  <1>2. CASE Ready = {}
    <2>1. UNCHANGED <<queue, accepted, running, frame, offset, wire>> /\ pc = "take" /\ pc' = "wait"
      BY <1>2 DEF TakeNextFrame, queues
    <2>2. QType' /\ WireWhole'
      BY <1>1, <2>1 DEF QType, WireWhole
    <2>3. (QueueOrder /\ LatestOnce)'
      BY <2>1, QueuePartKept DEF QueueVars
    <2>4. WireOrder' /\ FrameOrder'
      BY <1>1, <2>1 DEF WireOrder, FrameOrder, Before
    <2> QED
      BY <2>2, <2>3, <2>4 DEF SInv
  <1>3. CASE Ready # {}
    <2> DEFINE c == NextQueue
               s == queue[c]
    <2>1. c \in Qos /\ s # <<>>
      <3>1. Ready \in SUBSET Nat
        BY DEF Ready, Qos, ReliableOrdered, Bulk
      <3>2. \E d \in Ready : \A e \in Ready : d <= e
        BY <1>3, <3>1, LeastExists
      <3>3. NextQueue \in Ready
        BY <3>2 DEF NextQueue
      <3> QED
        BY <3>3 DEF Ready
    <2>2. /\ queue' = [queue EXCEPT ![c] = Tail(s)] /\ frame' = <<Head(s)>>
          /\ pc' = "write" /\ offset' = 0 /\ pc = "take" /\ running
          /\ UNCHANGED <<running, accepted, wire>>
      BY <1>3 DEF TakeNextFrame
    <2> HIDE DEF c
    <2>3. s \in Seq(Frame)
      BY <1>1, <2>1 DEF QType
    <2>4. /\ Len(s) \in Nat \ {0} /\ s[1] \in Frame /\ Head(s) = s[1]
          /\ Tail(s) \in Seq(Frame) /\ Len(Tail(s)) = Len(s) - 1
          /\ \A i \in 1..Len(Tail(s)) : Tail(s)[i] = s[i + 1]
      <3> HIDE DEF s
      <3> QED
        BY <2>1, <2>3, TailFacts
    <2> DEFINE t == Tail(s)
               f == s[1]
    <2>5. /\ queue' \in [Qos -> Seq(Frame)] /\ queue'[c] = t
          /\ \A d \in Qos \ {c} : queue'[d] = queue[d]
      BY <1>1, <2>1, <2>2, <2>4 DEF QType
    <2>6. frame' = <<f>> /\ f \in Frame /\ frame'[1] = f /\ frame' # <<>>
      BY <2>2, <2>4
    <2>7. \A i \in 1..Len(t) : i + 1 \in 1..Len(s) /\ t[i] = s[i + 1]
      <3> HIDE DEF s
      <3> QED
        BY <2>4
    <2>8. 1 \in 1..Len(s)
      <3> HIDE DEF s
      <3> QED
        BY <2>4
    <2> HIDE DEF t, f
    <2>9. ASSUME NEW d \in Qos, NEW i \in 1..Len(queue'[d])
          PROVE  \E j \in 1..Len(queue[d]) : queue'[d][i] = queue[d][j]
      <3>1. CASE d = c
        BY <2>5, <2>7, <3>1
      <3>2. CASE d # c
        BY <2>5, <3>2
      <3> QED
        BY <3>1, <3>2
    <2>10. QType'
      BY <1>1, <2>2, <2>5, <2>6 DEF QType
    <2>11. WireWhole'
      <3>1. frame = <<>>
        BY <1>1, <2>2 DEF WireWhole
      <3>2. f.size \in Nat \ {0}
        BY <2>6, SendQueueAssumption DEF Frame, SendQueueAssumption
      <3>3. f.size > 0
        BY <3>2
      <3> QED
        BY <1>1, <2>2, <2>6, <3>1, <3>3 DEF WireWhole
    <2>12. ASSUME NEW d \in Qos, NEW i \in 1..Len(queue'[d]), NEW j \in 1..Len(queue'[d]), i < j
           PROVE  Before(queue'[d][i], queue'[d][j])
      <3>1. CASE d = c
        <4>1. /\ i + 1 \in 1..Len(s) /\ j + 1 \in 1..Len(s) /\ i + 1 < j + 1
              /\ queue'[d][i] = s[i + 1] /\ queue'[d][j] = s[j + 1]
          BY <2>5, <2>7, <2>12, <3>1
        <4>2. Before(s[i + 1], s[j + 1])
          BY <1>1, <2>1, <4>1 DEF QueueOrder
        <4> QED
          BY <4>1, <4>2
      <3>2. CASE d # c
        BY <1>1, <2>5, <2>12, <3>2 DEF QueueOrder
      <3> QED
        BY <3>1, <3>2
    <2>13. QueueOrder'
      <3>1. ASSUME NEW d \in Qos, NEW i \in 1..Len(queue'[d])
            PROVE  queue'[d][i].qos = d /\ queue'[d][i].serial <= accepted'
        BY <1>1, <2>2, <2>9 DEF QueueOrder
      <3> QED
        BY <2>12, <3>1 DEF QueueOrder, Before
    <2>14. LatestOnce'
      <3> SUFFICES ASSUME NEW i \in 1..Len(queue'[ReliableLatest]),
                          NEW j \in 1..Len(queue'[ReliableLatest]),
                          queue'[ReliableLatest][i].key = queue'[ReliableLatest][j].key
                   PROVE  i = j
        BY DEF LatestOnce
      <3>1. CASE ReliableLatest = c
        <4>1. /\ i + 1 \in 1..Len(s) /\ j + 1 \in 1..Len(s)
              /\ s[i + 1].key = s[j + 1].key
          BY <2>5, <2>7, <3>1
        <4>2. i + 1 = j + 1
          BY <1>1, <3>1, <4>1 DEF LatestOnce
        <4> QED
          BY <4>2
      <3>2. CASE ReliableLatest # c
        <4>1. ReliableLatest \in Qos
          BY DEF Qos, ReliableOrdered, ReliableLatest, Bulk
        <4> QED
          BY <1>1, <2>5, <3>2, <4>1 DEF LatestOnce
      <3> QED
        BY <3>1, <3>2
    <2>15. WireOrder'
      <3>1. ASSUME NEW i \in 1..Len(wire), NEW d \in Qos, NEW j \in 1..Len(queue'[d])
            PROVE  Before(wire[i].frame, queue'[d][j])
        BY <1>1, <2>9 DEF WireOrder
      <3> QED
        BY <1>1, <2>2, <3>1 DEF WireOrder, Before
    <2>16. FrameOrder'
      <3>1. f.qos = c /\ f.serial <= accepted
        BY <1>1, <2>1, <2>8 DEF QueueOrder, f
      <3>2. ASSUME NEW d \in Qos, NEW j \in 1..Len(queue'[d])
            PROVE  Before(f, queue'[d][j])
        <4>1. CASE d = c
          <5>1. j + 1 \in 1..Len(s) /\ queue'[d][j] = s[j + 1] /\ 1 < j + 1
            BY <2>5, <2>7, <4>1
          <5> QED
            BY <1>1, <2>1, <2>8, <5>1 DEF QueueOrder, f
        <4>2. CASE d # c
          <5>1. queue'[d][j].qos = d
            BY <2>13 DEF QueueOrder
          <5> QED
            BY <3>1, <4>2, <5>1 DEF Before
        <4> QED
          BY <4>1, <4>2
      <3>3. \A i \in 1..Len(wire) : Before(wire[i].frame, f)
        BY <1>1, <2>1, <2>8 DEF WireOrder, f
      <3> QED
        BY <2>2, <2>6, <3>1, <3>2, <3>3 DEF FrameOrder, Before
    <2> QED
      BY <2>10, <2>11, <2>13, <2>14, <2>15, <2>16 DEF SInv
  <1> QED
    BY <1>2, <1>3

\* The stream after the bytes of a write: what it carried, and the frame being written.
LEMMA WrittenFacts ==
  ASSUME SendQueueAssumption, SInv, pc = "write", NEW n \in 1..Quantum, n <= frame[1].size - offset
  PROVE  LET f == frame[1]
             w == Written(n)
         IN  /\ f \in Frame /\ f.size \in Nat /\ w \in Seq(Sent) /\ Len(w) \in Nat \ {0}
             /\ w[Len(w)] = [frame |-> f, bytes |-> offset + n]
             /\ \A i \in 1..Len(w) : i < Len(w) =>
                   /\ i \in 1..Len(wire) /\ w[i] = wire[i]
                   /\ i < Len(wire) \/ offset = 0
             /\ offset > 0 => /\ Len(wire) \in 1..Len(wire) /\ Len(w) = Len(wire)
                              /\ wire[Len(wire)].frame = f
  <1> DEFINE f == frame[1]
  <1>1. frame # <<>> /\ offset \in Nat /\ wire \in Seq(Sent) /\ n \in Nat /\ Quantum \in Nat
    BY SendQueueAssumption DEF SInv, WireWhole, QType, SendQueueAssumption
  <1>2. f \in Frame
    BY <1>1 DEF SInv, QType
  <1>3. f.size \in Nat
    BY <1>2, SendQueueAssumption DEF Frame, SendQueueAssumption
  <1> HIDE DEF f
  <1>4. CASE offset = 0
    <2> DEFINE e == [frame |-> f, bytes |-> n]
    <2>1. e \in Sent /\ e = [frame |-> f, bytes |-> offset + n]
      BY <1>1, <1>2, <1>4 DEF Sent
    <2>2. Written(n) = Append(wire, e)
      BY <1>4 DEF Written, f
    <2> HIDE DEF e
    <2>3. /\ Append(wire, e) \in Seq(Sent) /\ Len(Append(wire, e)) = Len(wire) + 1
          /\ Len(wire) \in Nat
          /\ \A i \in 1..Len(wire) : Append(wire, e)[i] = wire[i]
          /\ Append(wire, e)[Len(wire) + 1] = e
      BY <1>1, <2>1, AppendFacts
    <2> DEFINE w == Written(n)
    <2>4. /\ w \in Seq(Sent) /\ Len(w) = Len(wire) + 1
          /\ \A i \in 1..Len(wire) : w[i] = wire[i]
          /\ w[Len(w)] = e
      BY <2>2, <2>3
    <2> HIDE DEF w
    <2>5. Len(w) \in Nat \ {0} /\ \A i \in 1..Len(w) : i < Len(w) => i \in 1..Len(wire) /\ w[i] = wire[i]
      BY <2>3, <2>4
    <2> QED
      BY <1>2, <1>3, <1>4, <2>1, <2>4, <2>5 DEF f, w
  <1>5. CASE offset > 0
    <2> DEFINE l == Len(wire)
               w == [wire EXCEPT ![Len(wire)].bytes = @ + n]
    <2>1. wire # <<>> /\ wire[l] = [frame |-> f, bytes |-> offset]
      BY <1>1, <1>5 DEF SInv, WireWhole, f
    <2>2. l \in Nat \ {0} /\ l \in 1..l
      BY <1>1, <2>1
    <2>3. w = [wire EXCEPT ![l] = [frame |-> f, bytes |-> offset + n]]
      <3>1. [wire[l] EXCEPT !.bytes = wire[l].bytes + n] = [frame |-> f, bytes |-> offset + n]
        BY <2>1
      <3>2. w = [wire EXCEPT ![l] = [wire[l] EXCEPT !.bytes = wire[l].bytes + n]]
        OBVIOUS
      <3> QED
        BY <3>1, <3>2, Zenon
    <2>4. [frame |-> f, bytes |-> offset + n] \in Sent
      BY <1>1, <1>2 DEF Sent
    <2> DEFINE e == [frame |-> f, bytes |-> offset + n]
    <2> HIDE DEF w, e
    <2>5. w \in Seq(Sent) /\ Len(w) = l /\ w[l] = e /\ \A i \in 1..l : i < l => w[i] = wire[i]
      BY <1>1, <2>2, <2>3, <2>4 DEF e
    <2>6. Written(n) = w
      BY <1>1, <1>5 DEF Written, w
    <2>7. wire[l].frame = f
      BY <2>1
    <2> QED
      BY <1>2, <1>3, <1>5, <2>2, <2>5, <2>6, <2>7 DEF f, e
  <1> QED
    BY <1>1, <1>4, <1>5

\* The socket takes n bytes.
LEMMA WriteStep ==
  ASSUME SendQueueAssumption, SInv, NEW n \in 1..Quantum, WriteSome(n)
  PROVE  SInv'
  <1>1. QType /\ QueueOrder /\ LatestOnce /\ WireWhole /\ WireOrder /\ FrameOrder
    BY DEF SInv
  <1> DEFINE f == frame[1]
             w == wire'
  <1>2. /\ pc = "write" /\ n <= f.size - offset /\ w = Written(n)
        /\ UNCHANGED <<queue, accepted, running>>
        /\ \/ /\ offset + n = f.size /\ pc' = "wait" /\ frame' = <<>> /\ offset' = 0
           \/ /\ offset + n < f.size /\ offset' = offset + n /\ UNCHANGED <<pc, frame>>
    BY DEF WriteSome, NextFrame, queues
  <1>3. frame # <<>> /\ offset \in Nat /\ n \in Nat \ {0}
    BY <1>1, <1>2, SendQueueAssumption DEF WireWhole, QType, SendQueueAssumption
  <1>4. /\ f \in Frame /\ f.size \in Nat /\ w \in Seq(Sent) /\ Len(w) \in Nat \ {0}
        /\ w[Len(w)] = [frame |-> f, bytes |-> offset + n]
        /\ \A i \in 1..Len(w) : i < Len(w) =>
              /\ i \in 1..Len(wire) /\ w[i] = wire[i]
              /\ i < Len(wire) \/ offset = 0
        /\ offset > 0 => /\ Len(wire) \in 1..Len(wire) /\ Len(w) = Len(wire)
                         /\ wire[Len(wire)].frame = f
    BY <1>2, WrittenFacts
  <1>5. f.serial <= accepted /\ \A c \in Qos : \A j \in 1..Len(queue[c]) : Before(f, queue[c][j])
    BY <1>1, <1>3 DEF FrameOrder
  <1>6. \A i \in 1..Len(w) : i < Len(w) => Before(w[i].frame, f)
    <2> SUFFICES ASSUME NEW i \in 1..Len(w), i < Len(w) PROVE Before(w[i].frame, f)
      OBVIOUS
    <2>1. CASE offset = 0
      BY <1>1, <1>3, <1>4, <2>1 DEF FrameOrder
    <2>2. CASE offset > 0
      <3>1. i \in 1..Len(wire) /\ Len(wire) \in 1..Len(wire) /\ i < Len(wire)
            /\ w[i] = wire[i] /\ wire[Len(wire)].frame = f
        BY <1>4, <2>2
      <3>2. Before(wire[i].frame, wire[Len(wire)].frame)
        BY <1>1, <3>1 DEF WireOrder
      <3> QED
        BY <3>1, <3>2
    <2> QED
      BY <1>3, <2>1, <2>2
  <1>7. ASSUME NEW i \in 1..Len(w), i < Len(w)
        PROVE  w[i].bytes = w[i].frame.size
    BY <1>1, <1>3, <1>4, <1>7 DEF WireWhole
  <1>8. w[Len(w)].frame = f /\ w[Len(w)].bytes = offset + n
    BY <1>4
  <1>9. \A i \in 1..Len(w) : i < Len(w) \/ i = Len(w)
    BY <1>4
  <1>10. (QueueOrder /\ LatestOnce)'
    BY <1>2, QueuePartKept DEF QueueVars
  <1> HIDE DEF f, w
  <1>11. ASSUME NEW i \in 1..Len(w)
         PROVE  /\ w[i].frame.serial <= accepted
                /\ \A c \in Qos : \A j \in 1..Len(queue[c]) : Before(w[i].frame, queue[c][j])
    <2>1. CASE i < Len(w)
      BY <1>1, <1>4, <2>1 DEF WireOrder
    <2>2. CASE i = Len(w)
      BY <1>5, <1>8, <2>2
    <2> QED
      BY <1>9, <2>1, <2>2
  <1>12. ASSUME NEW i \in 1..Len(w), NEW j \in 1..Len(w), i < j
         PROVE  Before(w[i].frame, w[j].frame)
    <2>1. i < Len(w)
      BY <1>4, <1>12
    <2>2. CASE j < Len(w)
      BY <1>1, <1>4, <1>12, <2>1, <2>2 DEF WireOrder
    <2>3. CASE j = Len(w)
      BY <1>6, <1>8, <2>1, <2>3
    <2> QED
      BY <1>9, <2>2, <2>3
  <1>13. WireOrder'
    BY <1>2, <1>11, <1>12 DEF WireOrder, Before, w
  <1>14. CASE /\ offset + n = f.size /\ pc' = "wait" /\ frame' = <<>> /\ offset' = 0
    <2>1. QType'
      BY <1>1, <1>2, <1>4, <1>14 DEF QType, w
    <2>2. \A i \in 1..Len(w) : w[i].bytes = w[i].frame.size
      BY <1>7, <1>8, <1>9, <1>14
    <2>3. WireWhole' /\ FrameOrder'
      BY <1>14, <2>2 DEF WireWhole, FrameOrder, w
    <2> QED
      BY <1>10, <1>13, <2>1, <2>3 DEF SInv
  <1>15. CASE offset + n < f.size /\ offset' = offset + n /\ UNCHANGED <<pc, frame>>
    <2>1. QType'
      BY <1>1, <1>2, <1>3, <1>4, <1>15 DEF QType, w
    <2>2. w # <<>> /\ offset' > 0 /\ offset' # 0
      BY <1>3, <1>4, <1>15
    <2>3. WireWhole'
      BY <1>2, <1>3, <1>4, <1>7, <1>15, <2>2 DEF WireWhole, f, w
    <2>4. FrameOrder'
      BY <1>2, <1>5, <1>15, <2>2 DEF FrameOrder, Before, f
    <2> QED
      BY <1>10, <1>13, <2>1, <2>3, <2>4 DEF SInv
  <1> QED
    BY <1>2, <1>14, <1>15 DEF f

\* A write that sends nothing: it is repeated, given up, or its frame is dropped, which
\* may_drop_congested_frame allows only before the first byte.
LEMMA NothingSentStep ==
  ASSUME SInv, pc = "write", UNCHANGED <<queue, accepted, running, wire>>,
         \/ UNCHANGED <<frame, offset>> /\ pc' \in {"write", "fail"}
         \/ offset = 0 /\ pc' = "wait" /\ frame' = <<>> /\ offset' = 0
  PROVE  SInv'
  <1>1. QType /\ WireWhole /\ WireOrder /\ FrameOrder
    BY DEF SInv
  <1>2. (QueueOrder /\ LatestOnce)'
    BY QueuePartKept DEF QueueVars
  <1>3. QType'
    BY <1>1 DEF QType
  <1>4. WireOrder'
    BY <1>1 DEF WireOrder, Before
  <1>5. WireWhole' /\ FrameOrder'
    <2>1. CASE UNCHANGED <<frame, offset>> /\ pc' \in {"write", "fail"}
      BY <1>1, <2>1 DEF WireWhole, FrameOrder, Before
    <2>2. CASE offset = 0 /\ pc' = "wait" /\ frame' = <<>> /\ offset' = 0
      BY <1>1, <2>2 DEF WireWhole, FrameOrder, Before
    <2> QED
      BY <2>1, <2>2
  <1> QED
    BY <1>2, <1>3, <1>4, <1>5 DEF SInv

\* The thread wakes up, leaves its loop or closes the connection, or another closes it.
LEMMA ControlStep ==
  ASSUME SInv, UNCHANGED <<queue, accepted, frame, offset, wire>>,
         \/ pc = "wait" /\ pc' = "take" /\ UNCHANGED running
         \/ pc \in {"wait", "take"} /\ pc' = "done" /\ ~running /\ UNCHANGED running
         \/ pc = "fail" /\ pc' = "done" /\ running' = FALSE
         \/ running' = FALSE /\ UNCHANGED pc
  PROVE  SInv'
  <1>1. QType /\ WireWhole /\ WireOrder /\ FrameOrder
    BY DEF SInv
  <1>2. (QueueOrder /\ LatestOnce)'
    BY QueuePartKept DEF QueueVars
  <1>3. QType'
    BY <1>1 DEF QType
  <1>4. WireOrder' /\ FrameOrder'
    BY <1>1 DEF WireOrder, FrameOrder, Before
  <1>5. WireWhole'
    BY <1>1 DEF WireWhole
  <1> QED
    BY <1>2, <1>3, <1>4, <1>5 DEF SInv

\* Every step keeps the invariant.
LEMMA Step ==
  ASSUME SendQueueAssumption, SInv, [Next]_vars
  PROVE  SInv'
  <1>1. ASSUME NEW c \in Qos, NEW n \in Size,
               NEW key \in (IF c = ReliableLatest THEN LatestKey ELSE {NoKey}),
               Enqueue(c, n, key)
        PROVE  SInv'
    <2>1. QType
      BY DEF SInv
    <2>2. /\ \E new : Enqueued(new, queue', accepted')
          /\ accepted' \in 0..MaxFrames /\ UNCHANGED <<running, pc, frame, offset, wire>>
      BY <1>1, <2>1, EnqueueFacts
    <2> QED
      BY <2>2, EnqueueStep
  <1>2. ASSUME Wake PROVE SInv'
    BY <1>2, ControlStep DEF Wake, queues
  <1>3. ASSUME LeaveLoop PROVE SInv'
    BY <1>3, ControlStep DEF LeaveLoop, queues
  <1>4. ASSUME TakeNextFrame PROVE SInv'
    BY <1>4, TakeStep
  <1>5. ASSUME NEW n \in 1..Quantum, WriteSome(n) PROVE SInv'
    BY <1>5, WriteStep
  <1>6. ASSUME WouldBlock PROVE SInv'
    BY <1>6, NothingSentStep
    DEF WouldBlock, NextFrame, GiveUp, may_drop_congested_frame, queues
  <1>7. ASSUME SocketError PROVE SInv'
    BY <1>7, NothingSentStep DEF SocketError, GiveUp, queues
  <1>8. ASSUME CloseAfterFailure PROVE SInv'
    BY <1>8, ControlStep DEF CloseAfterFailure, queues
  <1>9. ASSUME CloseByOther PROVE SInv'
    BY <1>9, ControlStep DEF CloseByOther, queues, sender
  <1>10. ASSUME UNCHANGED vars PROVE SInv'
    <2>1. UNCHANGED <<queue, accepted, running, pc, frame, offset, wire>>
      BY <1>10 DEF vars
    <2> QED
      BY <2>1 DEF SInv, QType, WireWhole, QueueOrder, LatestOnce, WireOrder, FrameOrder, Before
  <1> QED
    BY <1>1, <1>2, <1>3, <1>4, <1>5, <1>6, <1>7, <1>8, <1>9, <1>10 DEF Next, SendThread

(***************************************************************************)
(* The bytes of a queue. BytesUpTo is a recursive function; that it exists *)
(* and what it computes is shown by induction (Upwards), which rests on    *)
(* the least counterexample (LeastExists).                                 *)
(***************************************************************************)
LEMMA FrameSize == \A f \in Frame : f.size \in Nat
  BY SendQueueAssumption DEF SendQueueAssumption, Frame

\* f adds up the sizes of the first n frames of s.
Adds(f, s, n) ==
    /\ f \in [0..n -> Nat] /\ f[0] = 0
    /\ \A i \in 1..n : f[i] = f[i - 1] + s[i].size

\* Induction from one number to the next, for a set of numbers.
LEMMA Upwards ==
  ASSUME NEW m \in Nat, NEW S, 0 \in S, \A n \in 0..m : n < m /\ n \in S => n + 1 \in S
  PROVE  \A n \in 0..m : n \in S
  <1> SUFFICES ASSUME NEW x \in 0..m, x \notin S PROVE FALSE
    OBVIOUS
  <1> DEFINE C == {n \in 0..m : n \notin S}
  <1>1. C \in SUBSET Nat /\ C # {}
    OBVIOUS
  <1>2. PICK d \in C : \A e \in C : d <= e
    BY <1>1, LeastExists
  <1>3. d # 0 /\ d \in 0..m /\ d \notin S
    OBVIOUS
  <1>4. d - 1 \in 0..m /\ d - 1 < m /\ d - 1 \notin C
    BY <1>2, <1>3
  <1>5. d - 1 \in S
    BY <1>4
  <1>6. (d - 1) + 1 \in S
    BY <1>4, <1>5
  <1> QED
    BY <1>3, <1>6

\* There is a function of partial sums for every queue.
LEMMA AddsExists ==
  ASSUME NEW s \in Seq(Frame)
  PROVE  \E f : Adds(f, s, Len(s))
  <1> DEFINE S == {n \in Nat : \E f : Adds(f, s, n)}
  <1>1. Len(s) \in Nat /\ \A i \in 1..Len(s) : s[i].size \in Nat
    BY FrameSize
  <1>2. 0 \in S
    <2>1. Adds([i \in 0..0 |-> 0], s, 0)
      BY DEF Adds
    <2> QED
      BY <2>1
  <1>3. ASSUME NEW n \in 0..Len(s), n < Len(s), n \in S PROVE n + 1 \in S
    <2>1. PICK f : Adds(f, s, n)
      BY <1>3
    <2> DEFINE g == [i \in 0..(n + 1) |-> IF i = n + 1 THEN f[n] + s[n + 1].size ELSE f[i]]
    <2>2. f \in [0..n -> Nat] /\ f[0] = 0 /\ n \in Nat /\ n \in 0..n
      BY <1>1, <2>1 DEF Adds
    <2>3. \A i \in 1..n : f[i] = f[i - 1] + s[i].size
      BY <2>1 DEF Adds
    <2>4. s[n + 1].size \in Nat
      BY <1>1, <1>3
    <2>5. \A i \in 0..(n + 1) : i # n + 1 => i \in 0..n
      BY <2>2
    <2>6. g \in [0..(n + 1) -> Nat]
      BY <2>2, <2>4, <2>5
    <2>7. g[0] = 0 /\ g[n + 1] = f[n] + s[n + 1].size /\ \A i \in 0..n : g[i] = f[i]
      BY <2>2
    <2> HIDE DEF g
    <2>8. ASSUME NEW i \in 1..(n + 1) PROVE g[i] = g[i - 1] + s[i].size
      <3>1. CASE i = n + 1
        <4>1. i - 1 = n
          BY <2>2, <3>1
        <4> QED
          BY <2>2, <2>7, <3>1, <4>1
      <3>2. CASE i \in 1..n
        <4>1. i \in 0..n /\ i - 1 \in 0..n
          BY <2>2, <3>2
        <4> QED
          BY <2>3, <2>7, <3>2, <4>1
      <3> QED
        BY <2>2, <3>1, <3>2
    <2>9. Adds(g, s, n + 1)
      BY <2>6, <2>7, <2>8 DEF Adds
    <2> QED
      BY <2>2, <2>9
  <1> HIDE DEF S
  <1>4. \A n \in 0..Len(s) : n \in S
    BY <1>1, <1>2, <1>3, Upwards
  <1>5. Len(s) \in S
    BY <1>1, <1>4
  <1> QED
    BY <1>5 DEF S

\* The recursive definition of the partial sums is met by BytesUpTo itself.
LEMMA BytesUpToAdds ==
  ASSUME NEW s \in Seq(Frame)
  PROVE  Adds(BytesUpTo(s), s, Len(s))
  <1> DEFINE b == BytesUpTo(s)
             Rec(f) == f = [i \in 0..Len(s) |-> IF i = 0 THEN 0 ELSE f[i - 1] + s[i].size]
  <1>0. Len(s) \in Nat /\ \A i \in 1..Len(s) : s[i].size \in Nat
    BY FrameSize
  <1>1. PICK f : Adds(f, s, Len(s))
    BY AddsExists
  <1>2. Rec(f)
    <2>1. f \in [0..Len(s) -> Nat] /\ \A i \in 0..Len(s) :
            f[i] = IF i = 0 THEN 0 ELSE f[i - 1] + s[i].size
      BY <1>0, <1>1 DEF Adds
    <2> QED
      BY <2>1
  <1>3. b = CHOOSE g : Rec(g)
    BY DEF BytesUpTo
  <1> HIDE DEF b
  <1>4. Rec(b)
    BY <1>2, <1>3
  <1>5. DOMAIN b = 0..Len(s) /\ \A i \in 0..Len(s) : b[i] = IF i = 0 THEN 0 ELSE b[i - 1] + s[i].size
    BY <1>4
  <1>6. b[0] = 0 /\ \A i \in 1..Len(s) : b[i] = b[i - 1] + s[i].size
    BY <1>0, <1>5
  <1> DEFINE S == {n \in Nat : b[n] \in Nat}
  <1>7. ASSUME NEW n \in 0..Len(s), n < Len(s), n \in S PROVE n + 1 \in S
    <2>1. n + 1 \in 1..Len(s) /\ (n + 1) - 1 = n
      BY <1>0, <1>7
    <2>2. b[n + 1] = b[n] + s[n + 1].size /\ s[n + 1].size \in Nat
      BY <1>0, <1>6, <2>1
    <2> QED
      BY <1>7, <2>1, <2>2
  <1>8. 0 \in S
    BY <1>6
  <1> HIDE DEF S
  <1>9. \A n \in 0..Len(s) : n \in S
    BY <1>0, <1>7, <1>8, Upwards
  <1>10. b = [i \in 0..Len(s) |-> b[i]] /\ \A i \in 0..Len(s) : b[i] \in Nat
    BY <1>4, <1>5, <1>9 DEF S
  <1>11. b \in [0..Len(s) -> Nat]
    BY <1>10
  <1> QED
    BY <1>6, <1>11 DEF Adds, b

\* If t repeats the first m frames of s behind its first k, so do the sums.
LEMMA Shifted ==
  ASSUME NEW s \in Seq(Frame), NEW t \in Seq(Frame), NEW k \in Nat, NEW m \in Nat,
         m <= Len(s), k + m <= Len(t),
         \A i \in 1..m : t[k + i].size = s[i].size
  PROVE  BytesUpTo(t)[k + m] = BytesUpTo(t)[k] + BytesUpTo(s)[m]
  <1> DEFINE a == BytesUpTo(s)
             b == BytesUpTo(t)
             S == {n \in Nat : b[k + n] = b[k] + a[n]}
  <1>1. Adds(a, s, Len(s)) /\ Adds(b, t, Len(t)) /\ Len(s) \in Nat /\ Len(t) \in Nat
    BY BytesUpToAdds
  <1> HIDE DEF a, b
  <1>2. /\ a[0] = 0 /\ \A i \in 1..Len(s) : a[i] = a[i - 1] + s[i].size
        /\ \A i \in 1..Len(t) : b[i] = b[i - 1] + t[i].size
        /\ \A i \in 0..Len(s) : a[i] \in Nat
        /\ \A i \in 0..Len(t) : b[i] \in Nat
    BY <1>1 DEF Adds
  <1>3. 0 \in S
    BY <1>1, <1>2
  <1>4. ASSUME NEW n \in 0..m, n < m, n \in S PROVE n + 1 \in S
    <2>1. /\ n + 1 \in 1..m /\ n + 1 \in 1..Len(s) /\ k + (n + 1) \in 1..Len(t)
          /\ (n + 1) - 1 = n /\ (k + (n + 1)) - 1 = k + n /\ n \in 0..Len(s) /\ k \in 0..Len(t)
          /\ k + n \in 0..Len(t)
      BY <1>1, <1>4
    <2>2. a[n + 1] = a[n] + s[n + 1].size /\ b[k + (n + 1)] = b[k + n] + t[k + (n + 1)].size
      BY <1>2, <2>1
    <2>3. t[k + (n + 1)].size = s[n + 1].size /\ s[n + 1].size \in Nat
      <3>1. s[n + 1] \in Frame
        BY <2>1
      <3>2. s[n + 1].size \in Nat
        BY <3>1, FrameSize
      <3> QED
        BY <2>1, <3>2
    <2>4. b[k + n] = b[k] + a[n] /\ a[n] \in Nat /\ b[k] \in Nat
      BY <1>2, <1>4, <2>1
    <2>5. b[k + (n + 1)] = b[k] + a[n + 1]
      BY <2>2, <2>3, <2>4
    <2> QED
      BY <2>5
  <1> HIDE DEF S
  <1>5. \A n \in 0..m : n \in S
    BY <1>3, <1>4, Upwards
  <1>6. m \in S
    BY <1>5
  <1> QED
    BY <1>6 DEF S, a, b

\* The partial sums are natural numbers, and each adds the size of one frame.
LEMMA BytesNat ==
  ASSUME NEW s \in Seq(Frame)
  PROVE  /\ Len(s) \in Nat /\ Bytes(s) \in Nat /\ BytesUpTo(s)[0] = 0
         /\ \A i \in 0..Len(s) : BytesUpTo(s)[i] \in Nat
         /\ \A i \in 1..Len(s) : BytesUpTo(s)[i] = BytesUpTo(s)[i - 1] + s[i].size
  <1>1. Adds(BytesUpTo(s), s, Len(s)) /\ Len(s) \in Nat
    BY BytesUpToAdds
  <1> QED
    BY <1>1 DEF Adds, Bytes

\* The bytes of a concatenation.
LEMMA BytesConcat ==
  ASSUME NEW s \in Seq(Frame), NEW t \in Seq(Frame)
  PROVE  s \o t \in Seq(Frame) /\ Bytes(s \o t) = Bytes(s) + Bytes(t)
  <1> DEFINE u == s \o t
  <1>1. /\ u \in Seq(Frame) /\ Len(u) = Len(s) + Len(t) /\ Len(s) \in Nat /\ Len(t) \in Nat
        /\ \A i \in 1..Len(s) : u[i] = s[i]
        /\ \A i \in 1..Len(t) : u[Len(s) + i] = t[i]
    OBVIOUS
  <1> HIDE DEF u
  <1>2. BytesUpTo(u)[0 + Len(s)] = BytesUpTo(u)[0] + BytesUpTo(s)[Len(s)]
    <2>1. \A i \in 1..Len(s) : u[0 + i].size = s[i].size
      BY <1>1
    <2>2. 0 + Len(s) <= Len(u) /\ Len(s) <= Len(s) /\ 0 \in Nat
      BY <1>1
    <2> QED
      BY <1>1, <2>1, <2>2, Shifted
  <1>3. BytesUpTo(u)[Len(s) + Len(t)] = BytesUpTo(u)[Len(s)] + BytesUpTo(t)[Len(t)]
    <2>1. \A i \in 1..Len(t) : u[Len(s) + i].size = t[i].size
      BY <1>1
    <2>2. Len(s) + Len(t) <= Len(u) /\ Len(t) <= Len(t)
      BY <1>1
    <2> QED
      BY <1>1, <2>1, <2>2, Shifted
  <1>4. BytesUpTo(u)[0] = 0 /\ 0 + Len(s) = Len(s) /\ Bytes(s) \in Nat
    BY <1>1, BytesNat
  <1>5. BytesUpTo(u)[Len(s)] = Bytes(s)
    BY <1>2, <1>4 DEF Bytes
  <1>6. Bytes(u) = Bytes(s) + Bytes(t)
    BY <1>1, <1>3, <1>5 DEF Bytes
  <1> QED
    BY <1>1, <1>6 DEF u

\* The bytes of a sequence that is cut in two.
LEMMA BytesCut ==
  ASSUME NEW s \in Seq(Frame), NEW d \in 0..Len(s)
  PROVE  /\ SubSeq(s, 1, d) \in Seq(Frame) /\ SubSeq(s, d + 1, Len(s)) \in Seq(Frame)
         /\ Bytes(s) = Bytes(SubSeq(s, 1, d)) + Bytes(SubSeq(s, d + 1, Len(s)))
         /\ Bytes(SubSeq(s, 1, d)) = BytesUpTo(s)[d]
  <1> DEFINE t == SubSeq(s, 1, d)
             u == SubSeq(s, d + 1, Len(s))
  <1>1. /\ t \in Seq(Frame) /\ u \in Seq(Frame) /\ Len(t) = d /\ Len(u) = Len(s) - d
        /\ Len(s) \in Nat /\ d \in Nat
        /\ \A i \in 1..d : t[i] = s[i]
        /\ \A i \in 1..(Len(s) - d) : u[i] = s[d + i]
    OBVIOUS
  <1> HIDE DEF t, u
  <1>2. BytesUpTo(s)[0 + d] = BytesUpTo(s)[0] + BytesUpTo(t)[d]
    <2>1. \A i \in 1..d : s[0 + i].size = t[i].size
      BY <1>1
    <2>2. 0 + d <= Len(s) /\ d <= Len(t) /\ 0 \in Nat
      BY <1>1
    <2> QED
      BY <1>1, <2>1, <2>2, Shifted
  <1>3. BytesUpTo(s)[d + Len(u)] = BytesUpTo(s)[d] + BytesUpTo(u)[Len(u)]
    <2>1. \A i \in 1..Len(u) : s[d + i].size = u[i].size
      BY <1>1
    <2>2. d + Len(u) <= Len(s) /\ Len(u) <= Len(u) /\ Len(u) \in Nat
      BY <1>1
    <2> QED
      BY <1>1, <2>1, <2>2, Shifted
  <1>4. BytesUpTo(s)[0] = 0 /\ 0 + d = d /\ d + Len(u) = Len(s) /\ Bytes(t) \in Nat
    BY <1>1, BytesNat
  <1>5. BytesUpTo(s)[d] = Bytes(t)
    BY <1>1, <1>2, <1>4 DEF Bytes
  <1>6. Bytes(s) = Bytes(t) + Bytes(u)
    BY <1>3, <1>4, <1>5 DEF Bytes
  <1> QED
    BY <1>1, <1>5, <1>6 DEF t, u

\* One more frame.
LEMMA BytesAppend ==
  ASSUME NEW s \in Seq(Frame), NEW f \in Frame
  PROVE  Append(s, f) \in Seq(Frame) /\ Bytes(Append(s, f)) = Bytes(s) + f.size
  <1> DEFINE t == Append(s, f)
  <1>1. /\ t \in Seq(Frame) /\ Len(t) = Len(s) + 1 /\ Len(s) \in Nat
        /\ t[Len(s) + 1] = f /\ \A i \in 1..Len(s) : t[i] = s[i]
    OBVIOUS
  <1> HIDE DEF t
  <1>2. BytesUpTo(t)[0 + Len(s)] = BytesUpTo(t)[0] + BytesUpTo(s)[Len(s)]
    <2>1. \A i \in 1..Len(s) : t[0 + i].size = s[i].size
      BY <1>1
    <2>2. 0 + Len(s) <= Len(t) /\ Len(s) <= Len(s) /\ 0 \in Nat
      BY <1>1
    <2> QED
      BY <1>1, <2>1, <2>2, Shifted
  <1>3. BytesUpTo(t)[0] = 0 /\ \A i \in 1..Len(t) : BytesUpTo(t)[i] = BytesUpTo(t)[i - 1] + t[i].size
    BY <1>1, BytesNat
  <1>4. Len(t) \in 1..Len(t) /\ Len(t) - 1 = Len(s) /\ 0 + Len(s) = Len(s) /\ Bytes(s) \in Nat
    BY <1>1, BytesNat
  <1>5. Bytes(t) = BytesUpTo(t)[Len(s)] + f.size
    BY <1>1, <1>3, <1>4 DEF Bytes
  <1>6. BytesUpTo(t)[Len(s)] = Bytes(s)
    BY <1>2, <1>3, <1>4 DEF Bytes
  <1> QED
    BY <1>1, <1>5, <1>6 DEF t

\* One frame in the place of another.
LEMMA BytesReplace ==
  ASSUME NEW s \in Seq(Frame), NEW t \in Seq(Frame), Len(t) = Len(s),
         NEW j \in 1..Len(s), \A i \in 1..Len(s) : i # j => t[i] = s[i]
  PROVE  Bytes(t) + s[j].size = Bytes(s) + t[j].size
  <1> DEFINE u == SubSeq(s, j + 1, Len(s))
             a == BytesUpTo(s)
             b == BytesUpTo(t)
  <1>1. /\ Len(s) \in Nat /\ j \in 1..Len(s) /\ j \in Nat /\ j - 1 \in Nat
        /\ u \in Seq(Frame) /\ Len(u) = Len(s) - j /\ Len(u) \in Nat
        /\ \A i \in 1..Len(u) : u[i] = s[j + i]
    OBVIOUS
  <1> HIDE DEF u
  <1>2. \A i \in 1..Len(u) : t[j + i] = s[j + i]
    BY <1>1
  <1>3. b[0 + (j - 1)] = b[0] + a[j - 1]
    <2>1. ASSUME NEW i \in 1..(j - 1) PROVE t[0 + i].size = s[i].size
      <3>1. i \in 1..Len(s) /\ i # j /\ 0 + i = i
        BY <1>1
      <3> QED
        BY <3>1
    <2>2. 0 + (j - 1) <= Len(t) /\ j - 1 <= Len(s) /\ 0 \in Nat
      BY <1>1
    <2> QED
      BY <1>1, <2>1, <2>2, Shifted
  <1>4. a[j + Len(u)] = a[j] + Bytes(u)
    <2>1. \A i \in 1..Len(u) : s[j + i].size = u[i].size
      BY <1>1
    <2>2. j + Len(u) <= Len(s) /\ Len(u) <= Len(u)
      BY <1>1
    <2> QED
      BY <1>1, <2>1, <2>2, Shifted DEF Bytes
  <1>5. b[j + Len(u)] = b[j] + Bytes(u)
    <2>1. \A i \in 1..Len(u) : t[j + i].size = u[i].size
      BY <1>1, <1>2
    <2>2. j + Len(u) <= Len(t) /\ Len(u) <= Len(u)
      BY <1>1
    <2> QED
      BY <1>1, <2>1, <2>2, Shifted DEF Bytes
  <1>6. j + Len(u) = Len(s) /\ 0 + (j - 1) = j - 1
    BY <1>1
  <1>7. b[0] = 0 /\ b[j] = b[j - 1] + t[j].size /\ a[j] = a[j - 1] + s[j].size
    BY <1>1, BytesNat
  <1>8. a[j - 1] \in Nat /\ Bytes(u) \in Nat
    BY <1>1, BytesNat
  <1>9. s[j].size \in Nat /\ t[j].size \in Nat
    BY <1>1, FrameSize
  <1>10. Bytes(s) = a[j] + Bytes(u) /\ Bytes(t) = b[j] + Bytes(u)
    BY <1>4, <1>5, <1>6 DEF Bytes
  <1> HIDE DEF a, b
  <1> QED
    BY <1>3, <1>6, <1>7, <1>8, <1>9, <1>10

\* The queue without its first frame.
LEMMA BytesTail ==
  ASSUME NEW s \in Seq(Frame), s # <<>>
  PROVE  /\ Tail(s) \in Seq(Frame) /\ Head(s).size \in Nat
         /\ Bytes(s) = Head(s).size + Bytes(Tail(s))
  <1> DEFINE t == Tail(s)
  <1>1. /\ Len(s) \in Nat \ {0} /\ s[1] \in Frame /\ Head(s) = s[1]
        /\ t \in Seq(Frame) /\ Len(t) = Len(s) - 1
        /\ \A i \in 1..Len(t) : t[i] = s[i + 1]
    BY TailFacts
  <1> HIDE DEF t
  <1>2. BytesUpTo(s)[1 + Len(t)] = BytesUpTo(s)[1] + BytesUpTo(t)[Len(t)]
    <2>1. \A i \in 1..Len(t) : s[1 + i].size = t[i].size
      BY <1>1
    <2>2. 1 + Len(t) <= Len(s) /\ Len(t) <= Len(t) /\ 1 \in Nat /\ Len(t) \in Nat
      BY <1>1
    <2> QED
      BY <1>1, <2>1, <2>2, Shifted
  <1>3. BytesUpTo(s)[0] = 0 /\ BytesUpTo(s)[1] = BytesUpTo(s)[1 - 1] + s[1].size
    <2>1. /\ BytesUpTo(s)[0] = 0
          /\ \A i \in 1..Len(s) : BytesUpTo(s)[i] = BytesUpTo(s)[i - 1] + s[i].size
      BY BytesNat
    <2>2. 1 \in 1..Len(s)
      BY <1>1
    <2> QED
      BY <2>1, <2>2
  <1>4. 1 + Len(t) = Len(s) /\ s[1].size \in Nat /\ 1 - 1 = 0
    BY <1>1, FrameSize
  <1>5. Bytes(s) = s[1].size + Bytes(t)
    BY <1>2, <1>3, <1>4 DEF Bytes
  <1> QED
    BY <1>1, <1>4, <1>5 DEF t

\* Dropping d1 frames of s and, if these are all of them, d2 of t, from the two in a row.
LEMMA BytesDropped ==
  ASSUME NEW s \in Seq(Frame), NEW t \in Seq(Frame), NEW d1 \in 0..Len(s), NEW d2 \in 0..Len(t),
         d1 = Len(s) \/ d2 = 0
  PROVE  /\ Bytes(SubSeq(s \o t, 1, d1 + d2)) = Bytes(SubSeq(s, 1, d1)) + Bytes(SubSeq(t, 1, d2))
         /\ Bytes(SubSeq(s, 1, d1)) \in Nat /\ Bytes(SubSeq(t, 1, d2)) \in Nat
  <1> DEFINE u == s \o t
  <1>1. /\ u \in Seq(Frame) /\ Len(u) = Len(s) + Len(t) /\ Len(s) \in Nat /\ Len(t) \in Nat
        /\ \A i \in 1..Len(s) : u[i] = s[i]
        /\ \A i \in 1..Len(t) : u[Len(s) + i] = t[i]
    OBVIOUS
  <1> HIDE DEF u
  <1>2. d1 \in Nat /\ d2 \in Nat /\ d1 + d2 \in 0..Len(u) /\ d1 <= Len(s) /\ d2 <= Len(t)
    BY <1>1
  <1>3. /\ Bytes(SubSeq(s, 1, d1)) = BytesUpTo(s)[d1] /\ Bytes(SubSeq(t, 1, d2)) = BytesUpTo(t)[d2]
        /\ Bytes(SubSeq(u, 1, d1 + d2)) = BytesUpTo(u)[d1 + d2]
    BY <1>1, <1>2, BytesCut
  <1>4. /\ BytesUpTo(s)[d1] \in Nat /\ BytesUpTo(t)[d2] \in Nat
        /\ BytesUpTo(t)[0] = 0 /\ BytesUpTo(u)[0] = 0
    <2>1. /\ \A i \in 0..Len(s) : BytesUpTo(s)[i] \in Nat
          /\ \A i \in 0..Len(t) : BytesUpTo(t)[i] \in Nat
          /\ BytesUpTo(t)[0] = 0 /\ BytesUpTo(u)[0] = 0
      BY <1>1, BytesNat
    <2> QED
      BY <2>1
  <1>5. BytesUpTo(u)[0 + d1] = BytesUpTo(u)[0] + BytesUpTo(s)[d1]
    <2>1. ASSUME NEW i \in 1..d1 PROVE u[0 + i].size = s[i].size
      <3>1. i \in 1..Len(s) /\ 0 + i = i
        BY <1>1, <1>2
      <3> QED
        BY <1>1, <3>1
    <2>2. 0 + d1 <= Len(u) /\ 0 \in Nat
      BY <1>1, <1>2
    <2> QED
      BY <1>1, <1>2, <2>1, <2>2, Shifted
  <1>6. BytesUpTo(u)[d1] = BytesUpTo(s)[d1]
    BY <1>2, <1>4, <1>5
  <1>7. BytesUpTo(u)[d1 + d2] = BytesUpTo(s)[d1] + BytesUpTo(t)[d2]
    <2>1. CASE d2 = 0
      <3>1. d1 + d2 = d1
        BY <1>2, <2>1
      <3> QED
        BY <1>4, <1>6, <2>1, <3>1
    <2>2. CASE d1 = Len(s)
      <3>1. ASSUME NEW i \in 1..d2 PROVE u[d1 + i].size = t[i].size
        <4>1. i \in 1..Len(t)
          BY <1>1, <1>2
        <4> QED
          BY <1>1, <2>2, <4>1
      <3>2. d1 + d2 <= Len(u)
        BY <1>1, <1>2
      <3>3. BytesUpTo(u)[d1 + d2] = BytesUpTo(u)[d1] + BytesUpTo(t)[d2]
        BY <1>1, <1>2, <3>1, <3>2, Shifted
      <3> QED
        BY <1>6, <3>3
    <2> QED
      BY <2>1, <2>2
  <1> QED
    BY <1>3, <1>4, <1>7 DEF u

(***************************************************************************)
(* The bytes of all queues.                                                *)
(***************************************************************************)
Total(q) == Bytes(q[0]) + Bytes(q[1]) + Bytes(q[2]) + Bytes(q[3])

\* The bytes of the four queues in a row are the sum of the bytes of each.
LEMMA TotalFacts ==
  ASSUME NEW q \in [Qos -> Seq(Frame)]
  PROVE  /\ Total(q) \in Nat /\ Bytes(q[0] \o q[1] \o q[2] \o q[3]) = Total(q)
         /\ \A c \in Qos : q[c] \in Seq(Frame) /\ Bytes(q[c]) \in Nat
  <1>1. q[0] \in Seq(Frame) /\ q[1] \in Seq(Frame) /\ q[2] \in Seq(Frame) /\ q[3] \in Seq(Frame)
    BY DEF Qos, ReliableOrdered, Bulk
  <1>2. q[0] \o q[1] \in Seq(Frame) /\ Bytes(q[0] \o q[1]) = Bytes(q[0]) + Bytes(q[1])
    BY <1>1, BytesConcat
  <1>3. /\ q[0] \o q[1] \o q[2] \in Seq(Frame)
        /\ Bytes(q[0] \o q[1] \o q[2]) = Bytes(q[0] \o q[1]) + Bytes(q[2])
    BY <1>1, <1>2, BytesConcat
  <1>4. Bytes(q[0] \o q[1] \o q[2] \o q[3]) = Bytes(q[0] \o q[1] \o q[2]) + Bytes(q[3])
    BY <1>1, <1>3, BytesConcat
  <1>5. \A c \in Qos : q[c] \in Seq(Frame)
    OBVIOUS
  <1>6. \A c \in Qos : Bytes(q[c]) \in Nat
    BY <1>5, BytesNat
  <1>7. Bytes(q[0]) \in Nat /\ Bytes(q[1]) \in Nat /\ Bytes(q[2]) \in Nat /\ Bytes(q[3]) \in Nat
    BY <1>1, BytesNat
  <1> QED
    BY <1>2, <1>3, <1>4, <1>5, <1>6, <1>7 DEF Total

\* One queue becomes another.
LEMMA TotalExcept ==
  ASSUME NEW q \in [Qos -> Seq(Frame)], NEW c \in Qos, NEW s \in Seq(Frame)
  PROVE  /\ [q EXCEPT ![c] = s] \in [Qos -> Seq(Frame)]
         /\ Total([q EXCEPT ![c] = s]) + Bytes(q[c]) = Total(q) + Bytes(s)
  <1> DEFINE p == [q EXCEPT ![c] = s]
  <1>1. p \in [Qos -> Seq(Frame)] /\ p[c] = s /\ \A d \in Qos : d # c => p[d] = q[d]
    OBVIOUS
  <1>2. Qos = {0, 1, 2, 3}
    BY DEF Qos, ReliableOrdered, Bulk
  <1> HIDE DEF p
  <1>3. /\ \A d \in Qos : Bytes(q[d]) \in Nat
        /\ \A d \in Qos : Bytes(p[d]) \in Nat
    BY <1>1, TotalFacts
  <1>4. Total(p) + Bytes(q[c]) = Total(q) + Bytes(p[c])
    <2>1. c \in {0, 1, 2, 3} /\ \A d \in {0, 1, 2, 3} : d # c => p[d] = q[d]
      BY <1>1, <1>2
    <2>2. \A d \in {0, 1, 2, 3} : Bytes(q[d]) \in Nat /\ Bytes(p[d]) \in Nat
      BY <1>2, <1>3
    <2>3. CASE c = 0
      BY <2>1, <2>2, <2>3 DEF Total
    <2>4. CASE c = 1
      BY <2>1, <2>2, <2>4 DEF Total
    <2>5. CASE c = 2
      BY <2>1, <2>2, <2>5 DEF Total
    <2>6. CASE c = 3
      BY <2>1, <2>2, <2>6 DEF Total
    <2> QED
      BY <2>1, <2>3, <2>4, <2>5, <2>6
  <1> QED
    BY <1>1, <1>4 DEF p

\* What make_room frees it has taken off its count, and if it succeeds n bytes fit.
LEMMA MakeRoomBytes ==
  ASSUME QType, NEW used \in Int, NEW n \in Nat, NEW c \in Qos
  PROVE  LET room == MakeRoom(used, n, c) IN
         /\ room.queue \in [Qos -> Seq(Frame)]
         /\ room.queue[ReliableOrdered] = queue[ReliableOrdered]
         /\ room.queue[ReliableLatest] = queue[ReliableLatest]
         /\ Total(room.queue) <= Total(queue)
         /\ room.used = used - (Total(queue) - Total(room.queue))
         /\ room.ok => room.used + n <= enqueue_limit(c)
  <1> DEFINE after(d) == used - Bytes(SubSeq(Droppable, 1, d))
             enough   == {d \in 0..Len(Droppable) : after(d) + n <= enqueue_limit(c)}
             drops    == IF enough = {} THEN Len(Droppable)
                         ELSE CHOOSE d \in enough : \A e \in enough : d <= e
             first    == queue[Bulk]
             second   == queue[BestEffort]
             d1       == IF drops < Len(first) THEN drops ELSE Len(first)
             d2       == drops - d1
             s1       == SubSeq(first, d1 + 1, Len(first))
             s2       == SubSeq(second, d2 + 1, Len(second))
             q        == MakeRoom(used, n, c).queue
  <1>1. EvictionOrder[1] = Bulk /\ EvictionOrder[2] = BestEffort
    BY DEF EvictionOrder
  <1>2. first \in Seq(Frame) /\ second \in Seq(Frame)
    BY DEF QType, Qos, Bulk, BestEffort, ReliableOrdered
  <1>3. /\ Droppable = first \o second /\ Len(first) \in Nat /\ Len(second) \in Nat
        /\ Len(Droppable) = Len(first) + Len(second)
    BY <1>1, <1>2 DEF Droppable
  <1>4. /\ q = [queue EXCEPT ![Bulk] = s1, ![BestEffort] = s2]
        /\ MakeRoom(used, n, c).used = after(drops)
        /\ MakeRoom(used, n, c).ok = (enough # {})
    BY <1>1 DEF MakeRoom
  <1>5. enough \in SUBSET (0..Len(Droppable))
    OBVIOUS
  <1>6. enough # {} => after(drops) + n <= enqueue_limit(c)
    <2> SUFFICES ASSUME enough # {} PROVE drops \in enough
      OBVIOUS
    <2> HIDE DEF enough
    <2>1. Len(Droppable) \in Nat
      <3> HIDE DEF first, second
      <3> QED
        BY <1>3
    <2>2. enough \in SUBSET Nat
      BY <1>5, <2>1
    <2>3. \E d \in enough : \A e \in enough : d <= e
      BY <2>2, LeastExists
    <2> QED
      BY <2>3
  <1> HIDE DEF enough
  <1>7. Len(Droppable) \in Nat
    <2> HIDE DEF first, second
    <2> QED
      BY <1>3
  <1>8. drops \in 0..Len(Droppable)
    BY <1>5, <1>7, LeastOrAll
  <1> HIDE DEF drops
  <1>9. d1 \in 0..Len(first) /\ d2 \in 0..Len(second) /\ d1 + d2 = drops /\ (d1 = Len(first) \/ d2 = 0)
    <2> HIDE DEF first, second
    <2> QED
      BY <1>3, <1>8
  <1> HIDE DEF d1, d2
  <1>10. /\ Bytes(SubSeq(Droppable, 1, drops)) = Bytes(SubSeq(first, 1, d1)) + Bytes(SubSeq(second, 1, d2))
         /\ Bytes(SubSeq(first, 1, d1)) \in Nat /\ Bytes(SubSeq(second, 1, d2)) \in Nat
    BY <1>2, <1>3, <1>9, BytesDropped
  <1>11. /\ s1 \in Seq(Frame) /\ Bytes(first) = Bytes(SubSeq(first, 1, d1)) + Bytes(s1)
         /\ s2 \in Seq(Frame) /\ Bytes(second) = Bytes(SubSeq(second, 1, d2)) + Bytes(s2)
    BY <1>2, <1>9, BytesCut
  <1>12. Bytes(s1) \in Nat /\ Bytes(s2) \in Nat
    BY <1>11, BytesNat
  <1>13. PICK k \in [Qos -> Nat] : Evicted(q, k)
    BY MakeRoomFacts
  <1> HIDE DEF s1, s2, q
  <1>14. /\ q \in [Qos -> Seq(Frame)]
         /\ q[ReliableOrdered] = queue[ReliableOrdered] /\ q[ReliableLatest] = queue[ReliableLatest]
    BY <1>13 DEF Evicted
  <1>15. q[Bulk] = s1 /\ q[BestEffort] = s2
    BY <1>4 DEF QType, Qos, Bulk, BestEffort, ReliableOrdered
  <1>16. /\ Total(q) = Bytes(q[ReliableOrdered]) + Bytes(q[ReliableLatest]) + Bytes(s2) + Bytes(s1)
         /\ Total(queue) = Bytes(q[ReliableOrdered]) + Bytes(q[ReliableLatest]) + Bytes(second) + Bytes(first)
    BY <1>14, <1>15 DEF Total, ReliableOrdered, ReliableLatest, BestEffort, Bulk
  <1>17. Bytes(q[ReliableOrdered]) \in Nat /\ Bytes(q[ReliableLatest]) \in Nat
    BY <1>14, TotalFacts DEF Qos, ReliableOrdered, ReliableLatest, Bulk
  <1> HIDE DEF first, second
  <1>18. /\ Total(q) <= Total(queue)
         /\ Bytes(SubSeq(Droppable, 1, drops)) = Total(queue) - Total(q)
    BY <1>10, <1>11, <1>12, <1>16, <1>17
  <1> QED
    BY <1>4, <1>6, <1>14, <1>18 DEF q

\* No class may fill more than max_queued_bytes.
LEMMA LimitFacts ==
  ASSUME NEW c \in Qos
  PROVE  enqueue_limit(c) \in Int /\ enqueue_limit(c) <= MaxQueued /\ MaxQueued \in Nat
  <1>1. MaxQueued \in Nat /\ Reserve \in Nat \ {0}
    BY SendQueueAssumption DEF SendQueueAssumption
  <1>2. MaxQueued \div Reserve \in Nat
    BY <1>1
  <1> QED
    BY <1>1, <1>2 DEF enqueue_limit

Counted == queued_bytes = Total(queue) /\ queued_bytes <= MaxQueued

\* runtime_enqueue keeps the count through eviction, replacement and rejection.
LEMMA EnqueueCounted ==
  ASSUME SInv, Counted, NEW c \in Qos, NEW n \in Size,
         NEW key \in (IF c = ReliableLatest THEN LatestKey ELSE {NoKey}),
         Enqueue(c, n, key)
  PROVE  Counted'
  <1> DEFINE new  == [serial |-> accepted + 1, size |-> n, qos |-> c, key |-> key]
             at   == Replaces(c, key)
             old  == IF at = {} THEN 0 ELSE queue[c][CHOOSE i \in at : TRUE].size
             room == MakeRoom(queued_bytes - old, n, c)
             q    == room.queue
  <1>1. /\ accepted < MaxFrames
        /\ \/ /\ room.ok /\ queued_bytes' = room.used + n
              /\ queue' = IF at = {}
                          THEN [q EXCEPT ![c] = Append(@, new)]
                          ELSE [q EXCEPT ![c] =
                                  [i \in DOMAIN @ |-> IF i \in at THEN new ELSE @[i]]]
           \/ queued_bytes' = room.used + old /\ queue' = q
    BY DEF Enqueue
  <1>2. QType /\ LatestOnce
    BY DEF SInv
  <1>3. new \in Frame /\ new.size = n /\ n \in Nat
    <2>1. accepted < MaxFrames
      BY DEF Enqueue
    <2>2. accepted + 1 \in 1..MaxFrames /\ n \in Nat
      BY <1>2, <2>1, SendQueueAssumption DEF QType, SendQueueAssumption
    <2>3. key \in LatestKey \cup {NoKey}
      OBVIOUS
    <2> QED
      BY <2>2, <2>3 DEF Frame
  <1> HIDE DEF new
  <1>4. at # {} => /\ c = ReliableLatest
                   /\ \E j \in 1..Len(queue[c]) : at = {j} /\ old = queue[c][j].size
    <2> SUFFICES ASSUME at # {}
                 PROVE  c = ReliableLatest /\ \E j \in 1..Len(queue[c]) : at = {j} /\ old = queue[c][j].size
      OBVIOUS
    <2>1. c = ReliableLatest /\ at = {i \in 1..Len(queue[c]) : queue[c][i].key = key}
      BY DEF Replaces
    <2>2. PICK j \in at : TRUE
      OBVIOUS
    <2>3. at = {j}
      BY <1>2, <2>1, <2>2 DEF LatestOnce
    <2>4. (CHOOSE i \in at : TRUE) = j
      BY <2>3
    <2> QED
      BY <2>1, <2>2, <2>3, <2>4
  <1>5. \A d \in Qos : queue[d] \in Seq(Frame)
    BY <1>2 DEF QType
  <1>6. old \in Nat
    <2>1. CASE at = {}
      BY <2>1
    <2>2. CASE at # {}
      <3>1. PICK j \in 1..Len(queue[c]) : old = queue[c][j].size
        BY <1>4, <2>2
      <3>2. queue[c][j] \in Frame
        BY <1>5
      <3> QED
        BY <3>1, <3>2, FrameSize
    <2> QED
      BY <2>1, <2>2
  <1>7. queue \in [Qos -> Seq(Frame)] /\ Total(queue) \in Nat
    BY <1>2, TotalFacts DEF QType
  <1>8. queued_bytes = Total(queue) /\ queued_bytes <= MaxQueued
    BY DEF Counted
  <1>9. at = {} => old = 0
    OBVIOUS
  <1> HIDE DEF old, at
  <1>10. queued_bytes - old \in Int
    BY <1>6, <1>7, <1>8
  <1>11. /\ q \in [Qos -> Seq(Frame)]
         /\ q[ReliableOrdered] = queue[ReliableOrdered] /\ q[ReliableLatest] = queue[ReliableLatest]
         /\ Total(q) <= Total(queue)
         /\ room.used = (queued_bytes - old) - (Total(queue) - Total(q))
         /\ room.ok => room.used + n <= enqueue_limit(c)
    BY <1>2, <1>3, <1>10, MakeRoomBytes
  <1> HIDE DEF room, q
  <1>12. Total(q) \in Nat /\ room.used = Total(q) - old
    BY <1>6, <1>7, <1>8, <1>11, TotalFacts
  <1>13. enqueue_limit(c) \in Int /\ enqueue_limit(c) <= MaxQueued /\ MaxQueued \in Nat
    BY LimitFacts
  <1>14. CASE queued_bytes' = room.used + old /\ queue' = q
    <2>1. queued_bytes' = Total(q) /\ Total(q) <= MaxQueued
      BY <1>6, <1>7, <1>8, <1>11, <1>12, <1>13, <1>14
    <2> QED
      BY <1>14, <2>1 DEF Counted
  <1>15. ASSUME room.ok, queued_bytes' = room.used + n, Total(queue') = Total(q) - old + n
         PROVE  Counted'
    BY <1>3, <1>6, <1>11, <1>12, <1>13, <1>15 DEF Counted
  <1>16. CASE /\ room.ok /\ queued_bytes' = room.used + n /\ at = {}
              /\ queue' = [q EXCEPT ![c] = Append(@, new)]
    <2>1. q[c] \in Seq(Frame) /\ Bytes(q[c]) \in Nat
      BY <1>11, TotalFacts
    <2>2. /\ Append(q[c], new) \in Seq(Frame)
          /\ Bytes(Append(q[c], new)) = Bytes(q[c]) + n
      BY <1>3, <2>1, BytesAppend
    <2>3. /\ queue' = [q EXCEPT ![c] = Append(q[c], new)] /\ queue' \in [Qos -> Seq(Frame)]
          /\ Total(queue') + Bytes(q[c]) = Total(q) + Bytes(Append(q[c], new))
      BY <1>11, <1>16, <2>2, TotalExcept
    <2>4. Total(queue') \in Nat
      BY <2>3, TotalFacts
    <2>5. Total(queue') = Total(q) - old + n
      BY <1>3, <1>9, <1>12, <1>16, <2>1, <2>2, <2>3, <2>4
    <2> QED
      BY <1>15, <1>16, <2>5
  <1>17. CASE /\ room.ok /\ queued_bytes' = room.used + n /\ at # {}
              /\ queue' = [q EXCEPT ![c] = [i \in DOMAIN @ |-> IF i \in at THEN new ELSE @[i]]]
    <2>1. PICK j \in 1..Len(queue[c]) : at = {j} /\ old = queue[c][j].size
      BY <1>4, <1>17
    <2> DEFINE o == q[c]
               s == [i \in DOMAIN o |-> IF i = j THEN new ELSE o[i]]
    <2>2. o = queue[c] /\ o \in Seq(Frame) /\ Bytes(o) \in Nat
      BY <1>4, <1>11, <1>17, TotalFacts
    <2>3. queue' = [q EXCEPT ![c] = s]
      <3>1. \A i : i \in at <=> i = j
        BY <2>1
      <3>2. queue' = [q EXCEPT ![c] = [i \in DOMAIN q[c] |-> IF i \in at THEN new ELSE q[c][i]]]
        BY <1>17, Zenon
      <3> QED
        BY <3>1, <3>2, Zenon
    <2> HIDE DEF o
    <2>4. DOMAIN o = 1..Len(o) /\ Len(o) \in Nat /\ j \in 1..Len(o) /\ \A i \in 1..Len(o) : o[i] \in Frame
      BY <2>1, <2>2
    <2>5. s \in [1..Len(o) -> Frame] /\ s[j] = new /\ \A i \in 1..Len(o) : i # j => s[i] = o[i]
      BY <1>3, <2>4
    <2> HIDE DEF s
    <2>6. s \in Seq(Frame) /\ Len(s) = Len(o)
      BY <2>4, <2>5
    <2>7. Bytes(s) + old = Bytes(o) + n
      <3>1. Bytes(s) + o[j].size = Bytes(o) + s[j].size
        BY <2>2, <2>4, <2>5, <2>6, BytesReplace
      <3> QED
        BY <1>3, <2>1, <2>2, <2>5, <3>1
    <2>8. /\ queue' \in [Qos -> Seq(Frame)]
          /\ Total(queue') + Bytes(o) = Total(q) + Bytes(s)
      <3>1. \A x \in Seq(Frame) :
               /\ [q EXCEPT ![c] = x] \in [Qos -> Seq(Frame)]
               /\ Total([q EXCEPT ![c] = x]) + Bytes(q[c]) = Total(q) + Bytes(x)
        BY <1>11, TotalExcept
      <3>2. /\ [q EXCEPT ![c] = s] \in [Qos -> Seq(Frame)]
            /\ Total([q EXCEPT ![c] = s]) + Bytes(q[c]) = Total(q) + Bytes(s)
        BY <2>6, <3>1, Zenon
      <3> QED
        BY <2>3, <3>2, Zenon DEF o
    <2>9. Total(queue') \in Nat /\ Bytes(s) \in Nat
      BY <2>6, <2>8, TotalFacts, BytesNat
    <2>10. Total(queue') = Total(q) - old + n
      <3>1. \A x, y, z, w \in Nat : z + old = w + n /\ x + w = y + z => x = y - old + n
        BY <1>3, <1>6
      <3>2. PICK x, y, z, w \in Nat :
               x = Total(queue') /\ y = Total(q) /\ z = Bytes(s) /\ w = Bytes(o)
        BY <1>12, <2>2, <2>9, Zenon
      <3>3. z + old = w + n /\ x + w = y + z
        BY <2>7, <2>8, <3>2, Zenon
      <3>4. x = y - old + n
        BY <3>1, <3>3
      <3> QED
        BY <3>2, <3>4, Zenon
    <2> QED
      BY <1>15, <1>17, <2>10
  <1> QED
    BY <1>1, <1>14, <1>16, <1>17

\* take_next_frame takes the frame's bytes off the count.
LEMMA TakeCounted ==
  ASSUME SInv, Counted, TakeNextFrame
  PROVE  Counted'
  <1>1. CASE Ready = {}
    BY <1>1 DEF TakeNextFrame, queues, Counted
  <1>2. CASE Ready # {}
    <2> DEFINE c == NextQueue
               s == queue[c]
    <2>1. c \in Qos /\ s # <<>>
      <3>1. Ready \in SUBSET Nat
        BY DEF Ready, Qos, ReliableOrdered, Bulk
      <3>2. \E d \in Ready : \A e \in Ready : d <= e
        BY <1>2, <3>1, LeastExists
      <3>3. NextQueue \in Ready
        BY <3>2 DEF NextQueue
      <3> QED
        BY <3>3 DEF Ready
    <2>2. queue' = [queue EXCEPT ![c] = Tail(s)] /\ queued_bytes' = queued_bytes - Head(s).size
      BY <1>2 DEF TakeNextFrame
    <2>3. queue \in [Qos -> Seq(Frame)]
      BY DEF SInv, QType
    <2> HIDE DEF c
    <2>4. s \in Seq(Frame) /\ Bytes(s) \in Nat /\ Total(queue) \in Nat
      BY <2>1, <2>3, TotalFacts
    <2>5. Tail(s) \in Seq(Frame) /\ Head(s).size \in Nat /\ Bytes(s) = Head(s).size + Bytes(Tail(s))
      <3> HIDE DEF s
      <3> QED
        BY <2>1, <2>4, BytesTail
    <2>6. /\ queue' \in [Qos -> Seq(Frame)]
          /\ Total(queue') + Bytes(s) = Total(queue) + Bytes(Tail(s))
      <3>1. \A x \in Seq(Frame) :
               /\ [queue EXCEPT ![c] = x] \in [Qos -> Seq(Frame)]
               /\ Total([queue EXCEPT ![c] = x]) + Bytes(queue[c]) = Total(queue) + Bytes(x)
        BY <2>1, <2>3, TotalExcept
      <3>2. /\ [queue EXCEPT ![c] = Tail(s)] \in [Qos -> Seq(Frame)]
            /\ Total([queue EXCEPT ![c] = Tail(s)]) + Bytes(queue[c]) = Total(queue) + Bytes(Tail(s))
        BY <2>5, <3>1, Zenon
      <3> QED
        BY <2>2, <3>2, Zenon
    <2>7. Total(queue') \in Nat /\ Bytes(Tail(s)) \in Nat
      BY <2>5, <2>6, TotalFacts, BytesNat
    <2>8. MaxQueued \in Nat
      BY SendQueueAssumption DEF SendQueueAssumption
    <2> HIDE DEF s
    <2> QED
      BY <2>2, <2>4, <2>5, <2>6, <2>7, <2>8 DEF Counted
  <1> QED
    BY <1>1, <1>2

\* Every step keeps the byte count.
LEMMA StepCounted ==
  ASSUME SInv, Counted, [Next]_vars
  PROVE  Counted'
  <1>1. ASSUME \/ Wake \/ LeaveLoop \/ WouldBlock \/ SocketError \/ CloseAfterFailure
               \/ CloseByOther \/ (\E n \in 1..Quantum : WriteSome(n)) \/ UNCHANGED vars
        PROVE  Counted'
    <2>1. UNCHANGED <<queue, queued_bytes>>
      BY <1>1 DEF Wake, LeaveLoop, WouldBlock, SocketError, CloseAfterFailure, CloseByOther,
         WriteSome, queues, vars
    <2> QED
      BY <2>1 DEF Counted
  <1> QED
    BY <1>1, EnqueueCounted, TakeCounted DEF Next, SendThread

\* The variables that the rest of the invariant says nothing of.
Retries == retry_count \in 0..RetryLimit /\ status \in {"none", "congested", "disconnected"}

\* Every step keeps the retry count within its limit.
LEMMA StepRetries ==
  ASSUME Retries, [Next]_vars
  PROVE  Retries'
  <1>1. RetryLimit \in Nat
    BY SendQueueAssumption DEF SendQueueAssumption
  <1>2. ASSUME \/ \E c \in Qos, n \in Size :
                     \E key \in (IF c = ReliableLatest THEN LatestKey ELSE {NoKey}) : Enqueue(c, n, key)
               \/ Wake \/ LeaveLoop \/ CloseAfterFailure \/ CloseByOther \/ UNCHANGED vars
        PROVE  UNCHANGED <<retry_count, status>>
    <2>1. ASSUME NEW c, NEW n, NEW key, Enqueue(c, n, key) PROVE UNCHANGED <<retry_count, status>>
      BY <2>1 DEF Enqueue
    <2>2. ASSUME Wake \/ LeaveLoop \/ CloseAfterFailure \/ CloseByOther \/ UNCHANGED vars
          PROVE  UNCHANGED <<retry_count, status>>
      BY <2>2 DEF Wake, LeaveLoop, CloseAfterFailure, CloseByOther, sender, vars
    <2> QED
      BY <1>2, <2>1, <2>2
  <1>3. ASSUME TakeNextFrame \/ \E n \in 1..Quantum : WriteSome(n)
        PROVE  retry_count' \in {0, retry_count} /\ UNCHANGED status
    BY <1>3 DEF TakeNextFrame, WriteSome, NextFrame
  <1>4. ASSUME WouldBlock
        PROVE  \/ retry_count' = 0 /\ UNCHANGED status
               \/ retry_count < RetryLimit /\ retry_count' = retry_count + 1 /\ UNCHANGED status
               \/ UNCHANGED retry_count /\ status' = "congested"
    BY <1>4 DEF WouldBlock, NextFrame, GiveUp
  <1>5. ASSUME SocketError
        PROVE  UNCHANGED retry_count /\ status' = "disconnected"
    BY <1>5 DEF SocketError, GiveUp
  <1>6. CASE WouldBlock
    BY <1>1, <1>4, <1>6 DEF Retries
  <1>7. CASE ~WouldBlock
    <2>1. /\ retry_count' \in {0, retry_count} /\ status' \in {status, "disconnected"}
      BY <1>2, <1>3, <1>5, <1>7 DEF Next, SendThread
    <2> QED
      BY <1>1, <2>1 DEF Retries
  <1> QED
    BY <1>6, <1>7

(***************************************************************************)
(* The theorems.                                                           *)
(***************************************************************************)

\* The inductive invariant holds in every reachable state.
THEOREM Reachable ==
  ASSUME SendQueueAssumption
  PROVE  Spec => []SInv
  <1>1. Init => SInv
    BY InitStep
  <1>2. SInv /\ [Next]_vars => SInv'
    BY Step
  <1> QED
    BY <1>1, <1>2, PTL DEF Spec

\* The counter that runtime_enqueue and take_next_frame keep by hand is the number of
\* bytes in the four queues, whatever is evicted, replaced and rejected, and never
\* exceeds max_queued_bytes: it cannot wrap, and it is 0 only when the queues are empty.
THEOREM ByteAccountingThm ==
  ASSUME SendQueueAssumption
  PROVE  Spec => []ByteAccounting
  <1>1. Init => Counted
    <2> SUFFICES ASSUME Init PROVE Counted
      OBVIOUS
    <2>1. Bytes(<<>>) = 0
      <3>1. <<>> \in Seq(Frame) /\ Len(<<>>) = 0
        OBVIOUS
      <3> QED
        BY <3>1, BytesNat DEF Bytes
    <2>2. queue[0] = <<>> /\ queue[1] = <<>> /\ queue[2] = <<>> /\ queue[3] = <<>>
      BY DEF Init, Qos, ReliableOrdered, Bulk
    <2>3. MaxQueued \in Nat
      BY SendQueueAssumption DEF SendQueueAssumption
    <2> QED
      BY <2>1, <2>2, <2>3 DEF Init, Counted, Total
  <1>2. SInv /\ Counted /\ [Next]_vars => Counted'
    BY StepCounted
  <1>3. SInv /\ Counted => ByteAccounting
    BY TotalFacts DEF SInv, QType, Counted, ByteAccounting, AllQueued
  <1> QED
    BY <1>1, <1>2, <1>3, Reachable, PTL DEF Spec

\* Every reachable state of the queues and of the send thread is well typed; the byte
\* count is never negative.
THEOREM TypeCorrect ==
  ASSUME SendQueueAssumption
  PROVE  Spec => []TypeOK
  <1>1. Init => Retries
    BY SendQueueAssumption DEF SendQueueAssumption, Init, Retries
  <1>2. Retries /\ [Next]_vars => Retries'
    BY StepRetries
  <1>3. SInv /\ ByteAccounting /\ Retries => TypeOK
    <2> SUFFICES ASSUME SInv, ByteAccounting, Retries PROVE TypeOK
      OBVIOUS
    <2>1. queued_bytes \in Nat
      BY TotalFacts DEF SInv, QType, ByteAccounting, AllQueued
    <2> QED
      BY <2>1 DEF SInv, QType, Sent, Retries, TypeOK
  <1> QED
    BY <1>1, <1>2, <1>3, Reachable, ByteAccountingThm, PTL DEF Spec

\* Whatever is enqueued, evicted, replaced and sent, each queue of a connection holds
\* only frames of its class, and the ReliableLatest queue one value per key
\* (runtime_enqueue).
THEOREM OneLatestPerKeyThm ==
  ASSUME SendQueueAssumption
  PROVE  Spec => []OneLatestPerKey
  <1>1. SInv => OneLatestPerKey
    BY DEF SInv, QueueOrder, LatestOnce, OneLatestPerKey
  <1> QED
    BY <1>1, Reachable, PTL

\* However the socket cuts the writes, blocks or fails, the stream of a connection is a
\* sequence of whole frames and at most one begun frame at its end, which is being
\* written or the connection is going down (runtime_send_loop,
\* may_drop_congested_frame).
THEOREM WholeFramesThm ==
  ASSUME SendQueueAssumption
  PROVE  Spec => []WholeFrames
  <1>1. SInv => WholeFrames
    <2> SUFFICES ASSUME SInv, NEW i \in 1..Len(wire)
                 PROVE  \/ wire[i].bytes = wire[i].frame.size
                        \/ /\ i = Len(wire) /\ wire[i].bytes < wire[i].frame.size
                           /\ pc = "write" \/ pc = "fail" \/ ~running
      BY DEF WholeFrames
    <2>1. WireWhole /\ offset \in Nat /\ wire \in Seq(Sent) /\ Len(wire) \in Nat
          /\ pc \in {"wait", "take", "write", "fail", "done"}
      BY DEF SInv, QType
    <2>2. CASE frame = <<>> \/ i < Len(wire) \/ offset = 0
      BY <2>1, <2>2 DEF WireWhole
    <2>3. CASE frame # <<>> /\ i = Len(wire) /\ offset > 0
      <3>1. wire[i].bytes = offset /\ wire[i].frame = frame[1] /\ offset < frame[1].size
        BY <2>1, <2>3 DEF WireWhole
      <3>2. pc = "write" \/ pc = "fail" \/ ~running
        BY <2>1, <2>3 DEF WireWhole
      <3> QED
        BY <2>3, <3>1, <3>2
    <2> QED
      BY <2>1, <2>2, <2>3
  <1> QED
    BY <1>1, Reachable, PTL

\* Frames of one class and key are on the wire in the order in which they were
\* accepted, through every eviction and every replacement of a queued value: no newer
\* value is followed by an older one (runtime_enqueue, take_next_frame).
THEOREM InOrderThm ==
  ASSUME SendQueueAssumption
  PROVE  Spec => []InOrder
  <1>1. SInv => InOrder
    BY DEF SInv, WireOrder, InOrder, Before
  <1> QED
    BY <1>1, Reachable, PTL

\* No step of the program removes a queued reliable frame except to write it or to put
\* a newer value of its key in its place (runtime_enqueue, make_room,
\* take_next_frame).
THEOREM ReliableKeptThm ==
  ASSUME SendQueueAssumption
  PROVE  Spec => ReliableKept
  <1> DEFINE Kept == \A c \in {ReliableOrdered, ReliableLatest} : \A i \in 1..Len(queue[c]) :
          LET f == queue[c][i]
          IN  \/ \E j \in 1..Len(queue'[c]) : queue'[c][j] = f
              \/ frame' = <<f>>
              \/ c = ReliableLatest /\ \E j \in 1..Len(queue'[c]) :
                    queue'[c][j].key = f.key /\ queue'[c][j].serial > f.serial
  <1>1. ASSUME SInv, Next
        PROVE  Kept
    <2>a. \A c \in {ReliableOrdered, ReliableLatest} : c \in Qos
      BY DEF Qos, ReliableOrdered, ReliableLatest, Bulk
    <2>b. ASSUME UNCHANGED queue PROVE Kept
      BY <2>b
    <2>1. ASSUME NEW c \in Qos, NEW n \in Size,
                 NEW key \in (IF c = ReliableLatest THEN LatestKey ELSE {NoKey}),
                 Enqueue(c, n, key)
          PROVE  Kept
      <3>1. QType
        BY <1>1 DEF SInv
      <3>2. PICK new : Enqueued(new, queue', accepted')
        BY <2>1, <3>1, EnqueueFacts
      <3> SUFFICES ASSUME NEW d \in {ReliableOrdered, ReliableLatest}, NEW i \in 1..Len(queue[d])
                   PROVE  \/ \E j \in 1..Len(queue'[d]) : queue'[d][j] = queue[d][i]
                          \/ d = ReliableLatest /\ \E j \in 1..Len(queue'[d]) :
                                /\ queue'[d][j].key = queue[d][i].key
                                /\ queue'[d][j].serial > queue[d][i].serial
        BY Zenon
      <3>3. Retained(new, queue', d, i)
        BY <3>2 DEF Enqueued
      <3>4. new.serial = accepted + 1 /\ accepted \in Nat
        BY <3>1, <3>2 DEF Enqueued, QType
      <3>5. queue[d] \in Seq(Frame) /\ queue[d][i] \in Frame
        BY <2>a, <3>1 DEF QType
      <3>6. queue[d][i].serial \in Nat
        BY <3>5, SendQueueAssumption DEF Frame, SendQueueAssumption
      <3>7. queue[d][i].serial <= accepted
        BY <1>1, <2>a DEF SInv, QueueOrder
      <3>8. new.serial > queue[d][i].serial
        BY <3>4, <3>6, <3>7
      <3> QED
        BY <3>3, <3>8 DEF Retained
    <2>2. ASSUME TakeNextFrame PROVE Kept
      <3>1. CASE Ready = {}
        BY <2>2, <2>b, <3>1 DEF TakeNextFrame, queues
      <3>2. CASE Ready # {}
        <4> DEFINE c == NextQueue
                   s == queue[c]
        <4>1. c \in Qos /\ s # <<>>
          <5>1. Ready \in SUBSET Nat
            BY DEF Ready, Qos, ReliableOrdered, Bulk
          <5>2. \E d \in Ready : \A e \in Ready : d <= e
            BY <3>2, <5>1, LeastExists
          <5>3. NextQueue \in Ready
            BY <5>2 DEF NextQueue
          <5> QED
            BY <5>3 DEF Ready
        <4>2. queue' = [queue EXCEPT ![c] = Tail(s)] /\ frame' = <<Head(s)>>
          BY <2>2, <3>2 DEF TakeNextFrame
        <4>3. queue \in [Qos -> Seq(Frame)]
          BY <1>1 DEF SInv, QType
        <4> HIDE DEF c
        <4> SUFFICES ASSUME NEW d \in {ReliableOrdered, ReliableLatest}, NEW i \in 1..Len(queue[d])
                     PROVE  \/ \E j \in 1..Len(queue'[d]) : queue'[d][j] = queue[d][i]
                            \/ frame' = <<queue[d][i]>>
          BY Zenon
        <4>4. CASE d # c
          BY <2>a, <4>2, <4>3, <4>4
        <4>5. CASE d = c
          <5>1. queue'[d] = Tail(s) /\ s \in Seq(Frame)
            BY <4>1, <4>2, <4>3, <4>5
          <5>2. /\ Len(s) \in Nat \ {0} /\ Head(s) = s[1] /\ Len(Tail(s)) = Len(s) - 1
                /\ \A l \in 1..Len(Tail(s)) : Tail(s)[l] = s[l + 1]
            <6> HIDE DEF s
            <6> QED
              BY <4>1, <5>1, TailFacts
          <5>3. CASE i = 1
            BY <4>2, <4>5, <5>2, <5>3
          <5>4. CASE i # 1
            <6>1. i \in 1..Len(s)
              BY <4>5
            <6>2. i - 1 \in 1..Len(Tail(s)) /\ Tail(s)[i - 1] = s[i]
              <7> HIDE DEF s
              <7> QED
                BY <5>2, <5>4, <6>1
            <6> QED
              BY <4>5, <5>1, <6>2
          <5> QED
            BY <5>3, <5>4
        <4> QED
          BY <4>4, <4>5
      <3> QED
        BY <3>1, <3>2
    <2>3. ASSUME \/ Wake \/ LeaveLoop \/ WouldBlock \/ SocketError \/ CloseAfterFailure
                 \/ CloseByOther \/ \E n \in 1..Quantum : WriteSome(n)
          PROVE  Kept
      <3>1. UNCHANGED queue
        BY <2>3 DEF Wake, LeaveLoop, WouldBlock, SocketError, CloseAfterFailure,
                    CloseByOther, WriteSome, queues
      <3> QED
        BY <2>b, <3>1
    <2> HIDE DEF Kept
    <2> QED
      BY <1>1, <2>1, <2>2, <2>3 DEF Next, SendThread
  <1>2. SInv /\ [Next]_vars => [Kept]_vars
    <2> HIDE DEF Kept
    <2> QED
      BY <1>1
  <1> QED
    BY <1>2, Reachable, PTL DEF Spec, ReliableKept

(***************************************************************************)
(* The queues and the send thread implement OutboundChannel. The waiting   *)
(* frames are the queued ones, which have one place each (OnePlace); an    *)
(* enqueue adds and takes away what the channel allows (EnqueuedSet,       *)
(* EnqueuedEvicts), and the stream ends in a part of a frame exactly while *)
(* that frame is in the thread's hands (PartialMeans).                     *)
(***************************************************************************)

\* f is in one of the queues q.
In(q, f) == \E c \in Qos : \E i \in 1..Len(q[c]) : q[c][i] = f

\* The waiting frames are the queued ones, before and after a step.
LEMMA WaitingIn ==
  /\ \A f : f \in Waiting <=> In(queue, f)
  /\ \A f : f \in Waiting' <=> In(queue', f)
  BY DEF Waiting, In

\* A frame has one place in the queues, which its class and serial number tell.
LEMMA OnePlace ==
  ASSUME SendQueueAssumption, SInv, NEW c \in Qos, NEW i \in 1..Len(queue[c]),
         NEW d \in Qos, NEW j \in 1..Len(queue[d]), queue[c][i] = queue[d][j]
  PROVE  c = d /\ i = j
  <1>1. queue[c][i].qos = c /\ queue[d][j].qos = d
    BY DEF SInv, QueueOrder
  <1>2. queue[c] \in Seq(Frame) /\ Len(queue[c]) \in Nat /\ queue[c][i] \in Frame
    BY DEF SInv, QType
  <1>3. queue[c][i].serial \in Nat
    BY <1>2, SendQueueAssumption DEF Frame, SendQueueAssumption
  <1>4. c = d
    BY <1>1
  <1>5. ASSUME i < j PROVE FALSE
    <2>1. Before(queue[c][i], queue[c][j])
      BY <1>4, <1>5 DEF SInv, QueueOrder
    <2> QED
      BY <1>3, <1>4, <2>1 DEF Before
  <1>6. ASSUME j < i PROVE FALSE
    <2>1. Before(queue[c][j], queue[c][i])
      BY <1>4, <1>6 DEF SInv, QueueOrder
    <2> QED
      BY <1>3, <1>4, <2>1 DEF Before
  <1> QED
    BY <1>2, <1>4, <1>5, <1>6

\* What runtime_enqueue does to the set of waiting frames: it adds the new one if it
\* is accepted, and takes away lossy frames and the value that the new one replaces.
LEMMA EnqueuedSet ==
  ASSUME SendQueueAssumption, SInv, SInv', NEW new, Enqueued(new, queue', accepted')
  PROVE  /\ new \notin Waiting
         /\ \A h \in Waiting' : h \in Waiting \/ (h = new /\ accepted' = accepted + 1)
         /\ accepted' = accepted + 1 => new \in Waiting'
         /\ \A g \in Waiting : g \notin Waiting' =>
               \/ g.qos \in {BestEffort, Bulk}
               \/ accepted' = accepted + 1 /\ g \in Outbound!Superseded(new)
         /\ accepted' = accepted + 1 =>
               \A g \in Outbound!Superseded(new) : g \notin Waiting'
  <1>1. PICK k \in [Qos -> Nat] : \A c \in Qos : \A i \in 1..Len(queue'[c]) :
           Placed(new, queue', accepted', k[c], c, i)
    BY DEF Enqueued
  <1>2. new \in Frame /\ new.serial = accepted + 1 /\ new.qos \in Qos /\ accepted \in Nat
    BY DEF Enqueued, Frame, SInv, QType
  <1>3. \A c \in Qos : \A i \in 1..Len(queue[c]) :
           queue[c][i].qos = c /\ queue[c][i].serial <= accepted /\ queue[c][i] # new
    <2> TAKE c \in Qos
    <2> TAKE i \in 1..Len(queue[c])
    <2>1. queue[c][i].qos = c /\ queue[c][i].serial <= accepted
      BY DEF SInv, QueueOrder
    <2>2. ~(accepted + 1 <= accepted)
      BY <1>2
    <2> QED
      BY <1>2, <2>1, <2>2
  <1>4. new \notin Waiting
    BY <1>3, WaitingIn DEF In
  <1>5. ASSUME NEW h \in Waiting'
        PROVE  h \in Waiting \/ (h = new /\ accepted' = accepted + 1)
    <2>1. PICK c \in Qos : \E i \in 1..Len(queue'[c]) : queue'[c][i] = h
      BY WaitingIn DEF In
    <2>2. PICK i \in 1..Len(queue'[c]) : queue'[c][i] = h
      BY <2>1
    <2>3. Placed(new, queue', accepted', k[c], c, i)
      BY <1>1
    <2>4. \/ \E j \in 1..Len(queue[c]) : h = queue[c][j]
          \/ h = new /\ accepted' = accepted + 1
      BY <2>2, <2>3 DEF Placed
    <2> QED
      BY <2>4, WaitingIn DEF In
  <1>6. accepted' = accepted + 1 => new \in Waiting'
    BY <1>2, WaitingIn DEF Enqueued, In
  <1>7. ASSUME NEW g \in Waiting, g \notin Waiting', g.qos \notin {BestEffort, Bulk}
        PROVE  accepted' = accepted + 1 /\ g \in Outbound!Superseded(new)
    <2>1. PICK c \in Qos : \E i \in 1..Len(queue[c]) : queue[c][i] = g
      BY WaitingIn DEF In
    <2>2. PICK i \in 1..Len(queue[c]) : queue[c][i] = g
      BY <2>1
    <2>3. g.qos = c
      BY <1>3, <2>2
    <2>4. c \in {ReliableOrdered, ReliableLatest}
      BY <1>7, <2>3 DEF Qos, ReliableOrdered, ReliableLatest, BestEffort, Bulk
    <2>5. Retained(new, queue', c, i)
      BY <2>4 DEF Enqueued
    <2>6. i \in 1..Len(queue'[c]) /\ queue'[c][i] # g
      BY <1>7, <2>5, WaitingIn DEF In, Retained
    <2>7. c = ReliableLatest /\ queue'[c][i] = new /\ g.key = new.key
      BY <2>2, <2>5, <2>6 DEF Retained
    <2>8. Placed(new, queue', accepted', k[c], c, i)
      BY <1>1, <2>6
    <2>9. accepted' = accepted + 1
      BY <1>3, <2>7, <2>8 DEF Placed
    <2>10. new.qos = c
      BY <1>3, <2>7, <2>8 DEF Placed
    <2> QED
      BY <2>3, <2>7, <2>9, <2>10 DEF Outbound!Superseded
  <1>8. ASSUME accepted' = accepted + 1, NEW g \in Outbound!Superseded(new), g \in Waiting'
        PROVE  FALSE
    <2>1. g \in Waiting /\ g.qos = ReliableLatest /\ new.qos = ReliableLatest /\ g.key = new.key
      BY DEF Outbound!Superseded
    <2>2. \A c \in Qos : \A i \in 1..Len(queue'[c]) : queue'[c][i].qos = c
      BY DEF SInv, QueueOrder
    <2>3. PICK i \in 1..Len(queue'[ReliableLatest]) : queue'[ReliableLatest][i] = g
      BY <1>8, <2>1, <2>2, WaitingIn DEF In
    <2>4. PICK j \in 1..Len(queue'[ReliableLatest]) : queue'[ReliableLatest][j] = new
      BY <1>8, <2>1 DEF Enqueued
    <2>5. i = j
      BY <2>1, <2>3, <2>4 DEF SInv, LatestOnce
    <2> QED
      BY <1>4, <2>1, <2>3, <2>4, <2>5
  <1> QED
    BY <1>4, <1>5, <1>6, <1>7, <1>8

\* The lossy frames that runtime_enqueue takes away are the ones make_room may drop:
\* the oldest, and Bulk before BestEffort.
LEMMA EnqueuedEvicts ==
  ASSUME SendQueueAssumption, SInv, SInv', NEW new, Enqueued(new, queue', accepted'),
         NEW D, D = {g \in Waiting : g \notin Waiting' /\ g.qos \in {BestEffort, Bulk}}
  PROVE  Outbound!Evictable(D)
  <1>1. PICK k \in [Qos -> Nat] :
           /\ \A c \in Qos : \A i \in 1..Len(queue'[c]) :
                 Placed(new, queue', accepted', k[c], c, i)
           /\ FrontOnly(queue', k)
    BY DEF Enqueued
  <1>2. \A c \in Qos : /\ Len(queue[c]) \in Nat /\ Len(queue'[c]) \in Nat /\ k[c] \in Nat
                       /\ Len(queue[c]) <= Len(queue'[c]) + k[c]
    <2>1. queue \in [Qos -> Seq(Frame)] /\ queue' \in [Qos -> Seq(Frame)]
      BY DEF SInv, QType
    <2> QED
      BY <1>1, <2>1 DEF FrontOnly
  <1>3. BestEffort \in Qos /\ Bulk \in Qos /\ BestEffort = 2 /\ Bulk = 3 /\ ReliableLatest = 1
    BY DEF Qos, ReliableOrdered, BestEffort, Bulk, ReliableLatest
  <1>4. \A c \in Qos : \A i \in 1..Len(queue[c]) : queue[c][i].qos = c
    BY DEF SInv, QueueOrder
  \* a lossy frame that is gone was one of the first k
  <1>5. ASSUME NEW c \in {BestEffort, Bulk}, NEW i \in 1..Len(queue[c]),
               queue[c][i] \notin Waiting'
        PROVE  i <= k[c]
    <2> SUFFICES ASSUME ~(i <= k[c]) PROVE FALSE
      OBVIOUS
    <2>1. c \in Qos /\ c # ReliableLatest /\ i \in Nat
      BY <1>2, <1>3
    <2>2. PICK m \in 1..Len(queue'[c]) : m + k[c] = i
      <3>1. i - k[c] \in 1..Len(queue'[c]) /\ (i - k[c]) + k[c] = i
        BY <1>2, <2>1
      <3> QED
        BY <3>1
    <2>3. Placed(new, queue', accepted', k[c], c, m)
      BY <1>1, <2>1
    <2>4. queue'[c][m] = queue[c][i]
      BY <1>2, <2>1, <2>2, <2>3 DEF Placed
    <2> QED
      BY <1>5, <2>1, <2>4, WaitingIn DEF In
  \* and one that is left was not
  <1>6. ASSUME NEW c \in {BestEffort, Bulk}, NEW i \in 1..Len(queue[c]),
               queue[c][i] \in Waiting'
        PROVE  k[c] < i
    <2>1. c \in Qos /\ c # ReliableLatest
      BY <1>3
    <2>2. \A d \in Qos : \A m \in 1..Len(queue'[d]) : queue'[d][m].qos = d
      BY DEF SInv, QueueOrder
    <2>3. PICK m \in 1..Len(queue'[c]) : queue'[c][m] = queue[c][i]
      <3>1. PICK d \in Qos : \E m \in 1..Len(queue'[d]) : queue'[d][m] = queue[c][i]
        BY <1>6, WaitingIn DEF In
      <3>2. PICK m \in 1..Len(queue'[d]) : queue'[d][m] = queue[c][i]
        BY <3>1
      <3>3. queue'[d][m].qos = d /\ queue[c][i].qos = c
        BY <1>4, <2>1, <2>2
      <3>4. d = c
        BY <3>2, <3>3
      <3> QED
        BY <3>2, <3>4
    <2>4. Placed(new, queue', accepted', k[c], c, m)
      BY <1>1, <2>1
    <2>5. queue[c][i] # new
      <3>1. new \notin Waiting
        BY EnqueuedSet
      <3> QED
        BY <2>1, <3>1, WaitingIn DEF In
    <2>6. m + k[c] \in 1..Len(queue[c]) /\ queue[c][m + k[c]] = queue[c][i]
      BY <2>1, <2>3, <2>4, <2>5 DEF Placed
    <2>7. PICK j \in 1..Len(queue[c]) : j = m + k[c] /\ queue[c][j] = queue[c][i]
      BY <2>6
    <2>8. j = i
      BY <2>1, <2>7, OnePlace
    <2> QED
      BY <1>2, <2>1, <2>7, <2>8
  <1>7. ASSUME NEW g \in D, NEW h \in Waiting \ D, h.qos \in {BestEffort, Bulk}
        PROVE  h.qos <= g.qos /\ ~Outbound!Older(h, g)
    <2>1. g \in Waiting /\ g \notin Waiting' /\ g.qos \in {BestEffort, Bulk} /\ h \in Waiting'
      BY <1>7
    <2>2. PICK c \in Qos : \E i \in 1..Len(queue[c]) : queue[c][i] = g
      BY <2>1, WaitingIn DEF In
    <2>3. PICK i \in 1..Len(queue[c]) : queue[c][i] = g
      BY <2>2
    <2>4. PICK d \in Qos : \E j \in 1..Len(queue[d]) : queue[d][j] = h
      BY WaitingIn DEF In
    <2>5. PICK j \in 1..Len(queue[d]) : queue[d][j] = h
      BY <2>4
    <2>6. g.qos = c /\ h.qos = d
      BY <1>4, <2>3, <2>5
    <2>7. c \in {BestEffort, Bulk} /\ d \in {BestEffort, Bulk}
      BY <1>7, <2>1, <2>6
    <2>8. i <= k[c] /\ k[d] < j
      BY <1>5, <1>6, <2>1, <2>3, <2>5, <2>7
    <2>9. d <= c
      <3> SUFFICES ASSUME ~(d <= c) PROVE FALSE
        OBVIOUS
      <3>1. c = BestEffort /\ d = Bulk
        BY <1>3, <2>7
      <3>2. k[BestEffort] # 0
        BY <1>2, <2>8, <3>1
      <3>3. k[Bulk] = Len(queue[Bulk])
        BY <1>1, <3>2 DEF FrontOnly
      <3> QED
        BY <1>2, <2>8, <3>1, <3>3
    <2>10. ASSUME Outbound!Older(h, g) PROVE FALSE
      <3>1. c = d /\ h.key = g.key /\ h.serial < g.serial
        BY <2>6, <2>10 DEF Outbound!Older
      <3>2. i < j
        BY <1>2, <2>8, <3>1
      <3>3. Before(g, h)
        BY <2>3, <2>5, <3>1, <3>2 DEF SInv, QueueOrder
      <3>4. g.serial \in Nat /\ h.serial \in Nat
        <4>1. g \in Frame /\ h \in Frame
          BY <2>3, <2>5 DEF SInv, QType
        <4> QED
          BY <4>1, SendQueueAssumption DEF Frame, SendQueueAssumption
      <3> QED
        BY <2>6, <3>1, <3>3, <3>4 DEF Before
    <2> QED
      BY <2>6, <2>9, <2>10
  <1> QED
    BY <1>7 DEF Outbound!Evictable

\* What the stream carries whole, and whether its last frame is cut short, does not
\* change in a step that writes nothing.
LEMMA StreamKept ==
  ASSUME UNCHANGED wire
  PROVE  UNCHANGED <<Partial, Complete>>
  <1>1. UNCHANGED Partial
    BY DEF Partial
  <1> QED
    BY <1>1 DEF Complete

\* runtime_enqueue accepts a frame or refuses it.
LEMMA EnqueueImplements ==
  ASSUME SendQueueAssumption, SInv, SInv', NEW new, Enqueued(new, queue', accepted'),
         running, UNCHANGED <<running, frame, wire>>
  PROVE  Outbound!Accept \/ Outbound!Refuse
  <1> DEFINE D == {g \in Waiting : g \notin Waiting' /\ g.qos \in {BestEffort, Bulk}}
  <1>1. Outbound!Evictable(D)
    BY EnqueuedEvicts
  <1>2. D \in SUBSET Waiting
    OBVIOUS
  <1>3. /\ new \notin Waiting
        /\ \A h \in Waiting' : h \in Waiting \/ (h = new /\ accepted' = accepted + 1)
        /\ accepted' = accepted + 1 => new \in Waiting'
        /\ \A g \in Waiting : g \notin Waiting' =>
              g \in D \/ (accepted' = accepted + 1 /\ g \in Outbound!Superseded(new))
        /\ accepted' = accepted + 1 => \A g \in Outbound!Superseded(new) : g \notin Waiting'
    BY EnqueuedSet
  <1>4. \A g \in D : g \notin Waiting'
    OBVIOUS
  <1>5. UNCHANGED <<Partial, Complete>>
    BY StreamKept
  <1>6. /\ accepted \in Nat /\ new.serial = accepted + 1
        /\ accepted' = accepted \/ accepted' = accepted + 1
    BY DEF SInv, QType, Enqueued
  <1> HIDE DEF D
  <1>7. CASE accepted' = accepted + 1
    <2>1. Waiting' = (Waiting \ (D \cup Outbound!Superseded(new))) \cup {new}
      BY <1>3, <1>4, <1>7
    <2>2. new \in Waiting'
      BY <1>3, <1>7
    <2> QED
      BY <1>1, <1>2, <1>5, <1>6, <1>7, <2>1, <2>2 DEF Outbound!Accept
  <1>8. CASE accepted' = accepted
    <2>1. accepted' # accepted + 1
      BY <1>6, <1>8
    <2>2. Waiting' = Waiting \ D
      BY <1>3, <1>4, <2>1
    <2> QED
      BY <1>1, <1>2, <1>5, <1>8, <2>2 DEF Outbound!Refuse
  <1> QED
    BY <1>6, <1>7, <1>8

\* take_next_frame takes the oldest frame of the most urgent class.
LEMMA TakeImplements ==
  ASSUME SendQueueAssumption, SInv, TakeNextFrame, Ready # {}
  PROVE  Outbound!Take
  <1> DEFINE c == NextQueue
             s == queue[c]
             f == s[1]
  <1>1. c \in Qos /\ s # <<>> /\ \A d \in Ready : c <= d
    <2>1. Ready \in SUBSET Nat
      BY DEF Ready, Qos, ReliableOrdered, Bulk
    <2>2. \E d \in Ready : \A e \in Ready : d <= e
      BY <2>1, LeastExists
    <2>3. NextQueue \in Ready /\ \A e \in Ready : NextQueue <= e
      BY <2>2 DEF NextQueue
    <2> QED
      BY <2>3 DEF Ready
  <1>2. /\ queue' = [queue EXCEPT ![c] = Tail(s)] /\ frame' = <<Head(s)>>
        /\ pc = "take" /\ running /\ UNCHANGED <<running, accepted, wire>>
    BY DEF TakeNextFrame
  <1> HIDE DEF c
  <1>3. queue \in [Qos -> Seq(Frame)] /\ s \in Seq(Frame) /\ frame = <<>>
    BY <1>1, <1>2 DEF SInv, QType, WireWhole
  <1>4. /\ Len(s) \in Nat \ {0} /\ Head(s) = f
        /\ Len(Tail(s)) = Len(s) - 1
        /\ \A i \in 1..Len(Tail(s)) : Tail(s)[i] = s[i + 1]
    <2> HIDE DEF s
    <2> QED
      BY <1>1, <1>3, TailFacts
  <1>5. 1 \in 1..Len(s) /\ \A i \in 1..Len(Tail(s)) : i + 1 \in 1..Len(s) /\ i + 1 # 1
    <2> HIDE DEF s
    <2> QED
      BY <1>4
  <1>6. \A j \in 1..Len(s) : j # 1 => j - 1 \in 1..Len(Tail(s)) /\ Tail(s)[j - 1] = s[j]
    <2> HIDE DEF s
    <2> QED
      BY <1>4
  <1>7. queue'[c] = Tail(s) /\ \A d \in Qos \ {c} : queue'[d] = queue[d]
    BY <1>1, <1>2, <1>3
  <1>8. f \in Waiting
    BY <1>1, <1>5, WaitingIn DEF In
  <1>9. \A d \in Qos : \A i \in 1..Len(queue[d]) : queue[d][i].qos = d
    BY DEF SInv, QueueOrder
  <1> HIDE DEF f
  <1>10. ASSUME NEW g \in Waiting
         PROVE  f.qos <= g.qos /\ ~Outbound!Older(g, f)
    <2>1. PICK d \in Qos : \E i \in 1..Len(queue[d]) : queue[d][i] = g
      BY WaitingIn DEF In
    <2>2. PICK i \in 1..Len(queue[d]) : queue[d][i] = g
      BY <2>1
    <2>3. f.qos = c /\ g.qos = d
      BY <1>1, <1>5, <1>9, <2>2 DEF f
    <2>4. queue[d] # <<>>
      <3>1. Len(<<>>) = 0
        OBVIOUS
      <3> QED
        BY <2>2, <3>1
    <2>5. c <= d
      BY <1>1, <2>4 DEF Ready
    <2>6. ASSUME Outbound!Older(g, f) PROVE FALSE
      <3>1. c = d /\ g.key = f.key /\ g.serial < f.serial
        BY <2>3, <2>6 DEF Outbound!Older
      <3>2. g \in Frame /\ f \in Frame
        BY <1>1, <1>3, <1>5, <2>2 DEF f
      <3>3. g.serial \in Nat /\ f.serial \in Nat
        BY <3>2, SendQueueAssumption DEF Frame, SendQueueAssumption
      <3>4. i # 1
        BY <2>2, <3>1, <3>3 DEF f
      <3>5. 1 < i
        BY <3>4
      <3>6. Before(f, g)
        BY <1>1, <1>5, <2>2, <3>1, <3>5 DEF SInv, QueueOrder, f
      <3> QED
        BY <2>3, <3>1, <3>3, <3>6 DEF Before
    <2> QED
      BY <2>3, <2>5, <2>6
  <1>11. ASSUME NEW g PROVE g \in Waiting' <=> g \in Waiting /\ g # f
    <2>1. ASSUME g \in Waiting' PROVE g \in Waiting /\ g # f
      <3>1. PICK d \in Qos : \E i \in 1..Len(queue'[d]) : queue'[d][i] = g
        BY <2>1, WaitingIn DEF In
      <3>2. PICK i \in 1..Len(queue'[d]) : queue'[d][i] = g
        BY <3>1
      <3>3. PICK j \in 1..Len(queue[d]) : queue[d][j] = g /\ ~(d = c /\ j = 1)
        <4>1. CASE d = c
          BY <1>4, <1>5, <1>7, <3>2, <4>1
        <4>2. CASE d # c
          BY <1>7, <3>2, <4>2
        <4> QED
          BY <4>1, <4>2
      <3>4. g # f
        BY <1>1, <1>5, <3>3, OnePlace DEF f
      <3> QED
        BY <3>3, <3>4, WaitingIn DEF In
    <2>2. ASSUME g \in Waiting, g # f PROVE g \in Waiting'
      <3>1. PICK d \in Qos : \E i \in 1..Len(queue[d]) : queue[d][i] = g
        BY <2>2, WaitingIn DEF In
      <3>2. PICK i \in 1..Len(queue[d]) : queue[d][i] = g
        BY <3>1
      <3>3. \E j \in 1..Len(queue'[d]) : queue'[d][j] = g
        <4>1. CASE d = c
          <5>1. i # 1
            BY <2>2, <3>2, <4>1 DEF f
          <5> QED
            BY <1>6, <1>7, <3>2, <4>1, <5>1
        <4>2. CASE d # c
          BY <1>7, <3>2, <4>2
        <4> QED
          BY <4>1, <4>2
      <3> QED
        BY <3>3, WaitingIn DEF In
    <2> QED
      BY <2>1, <2>2
  <1>12. Waiting' = Waiting \ {f}
    BY <1>11
  <1>13. UNCHANGED <<Partial, Complete>>
    BY <1>2, StreamKept
  <1>14. frame' = <<f>>
    BY <1>2, <1>4
  <1> QED
    BY <1>2, <1>3, <1>8, <1>10, <1>12, <1>13, <1>14 DEF Outbound!Take

\* The stream ends in a part of a frame exactly while that frame is being written and
\* its first bytes are out.
LEMMA PartialMeans ==
  ASSUME SendQueueAssumption, SInv
  PROVE  Partial <=> frame # <<>> /\ offset > 0
  <1>1. wire \in Seq(Sent) /\ offset \in Nat
    BY DEF SInv, QType
  <1>2. wire # <<>> => Len(wire) \in 1..Len(wire) /\ wire[Len(wire)] \in Sent
    BY <1>1
  <1>3. \A e \in Sent : e.bytes \in Nat /\ e.frame.size \in Nat
    BY SendQueueAssumption DEF Sent, Frame, SendQueueAssumption
  <1>4. CASE frame = <<>>
    <2>1. wire # <<>> => wire[Len(wire)].bytes = wire[Len(wire)].frame.size
      BY <1>2, <1>4 DEF SInv, WireWhole
    <2> QED
      BY <1>2, <1>3, <1>4, <2>1 DEF Partial
  <1>5. CASE frame # <<>> /\ offset = 0
    <2>1. wire # <<>> => wire[Len(wire)].bytes = wire[Len(wire)].frame.size
      BY <1>2, <1>5 DEF SInv, WireWhole
    <2> QED
      BY <1>2, <1>3, <1>5, <2>1 DEF Partial
  <1>6. CASE frame # <<>> /\ offset > 0
    <2>1. /\ wire # <<>> /\ offset < frame[1].size
          /\ wire[Len(wire)] = [frame |-> frame[1], bytes |-> offset]
      BY <1>6 DEF SInv, WireWhole
    <2>2. wire[Len(wire)].frame = frame[1] /\ wire[Len(wire)].bytes = offset
      BY <2>1
    <2> QED
      BY <1>6, <2>1, <2>2 DEF Partial
  <1> QED
    BY <1>1, <1>4, <1>5, <1>6

\* A write begins the frame, goes on with it or completes it.
LEMMA WriteImplements ==
  ASSUME SendQueueAssumption, SInv, NEW n \in 1..Quantum, WriteSome(n)
  PROVE  Outbound!Begin \/ Outbound!Complete \/ UNCHANGED Outbound!vars
  <1> DEFINE f == frame[1]
             w == wire'
             m == Len(wire') - 1
  <1>1. /\ pc = "write" /\ running /\ n <= f.size - offset /\ w = Written(n)
        /\ UNCHANGED <<queue, accepted, running>>
        /\ \/ /\ offset + n = f.size /\ frame' = <<>> /\ offset' = 0
           \/ /\ offset + n < f.size /\ offset' = offset + n /\ UNCHANGED frame
    BY DEF WriteSome, NextFrame, queues
  <1>2. frame # <<>> /\ offset \in Nat /\ n \in Nat \ {0} /\ wire \in Seq(Sent)
    BY <1>1, SendQueueAssumption DEF SInv, WireWhole, QType, SendQueueAssumption
  <1>3. /\ f \in Frame /\ f.size \in Nat /\ w \in Seq(Sent) /\ Len(w) \in Nat \ {0}
        /\ w[Len(w)] = [frame |-> f, bytes |-> offset + n]
        /\ \A i \in 1..Len(w) : i < Len(w) => i \in 1..Len(wire) /\ w[i] = wire[i]
        /\ offset > 0 => Len(w) = Len(wire)
    BY <1>1, WrittenFacts
  <1>4. offset = 0 => Len(w) = Len(wire) + 1
    <2> SUFFICES ASSUME offset = 0 PROVE Len(w) = Len(wire) + 1
      OBVIOUS
    <2>1. w = Append(wire, [frame |-> f, bytes |-> n])
      BY <1>1 DEF Written
    <2> QED
      BY <1>2, <2>1
  <1>5. Partial <=> offset > 0
    BY <1>2, PartialMeans
  <1>6. Partial' <=> offset + n < f.size
    <2>1. w[Len(w)].bytes = offset + n /\ w[Len(w)].frame.size = f.size /\ w # <<>>
      BY <1>3
    <2> QED
      BY <2>1 DEF Partial
  <1>7. Waiting' = Waiting
    BY <1>1 DEF Waiting
  <1>8. w[Len(w)].frame = f
    BY <1>3
  <1> HIDE DEF f, w
  <1>9. m \in Nat /\ Len(w) = m + 1 /\ Len(wire) \in Nat
    BY <1>2, <1>3 DEF w
  <1> HIDE DEF m
  <1>10. (IF Partial THEN Len(wire) - 1 ELSE Len(wire)) = m
    BY <1>2, <1>3, <1>4, <1>5, <1>9
  <1>11. Complete = [i \in 1..m |-> wire[i].frame]
    BY <1>10 DEF Complete
  <1>12. \A i \in 1..m : w[i] = wire[i] /\ w[i].frame \in Frame
    <2> TAKE i \in 1..m
    <2>1. i \in 1..Len(w) /\ i < Len(w)
      BY <1>9
    <2>2. w[i] \in Sent
      BY <1>3, <2>1
    <2> QED
      BY <1>3, <2>1, <2>2 DEF Sent
  <1>13. Complete = [i \in 1..m |-> w[i].frame]
    BY <1>11, <1>12
  <1>14. CASE offset + n = f.size /\ frame' = <<>> /\ offset' = 0
    <2>1. Partial' = FALSE
      BY <1>2, <1>3, <1>6, <1>14 DEF Partial
    <2>2. Complete' = [i \in 1..m + 1 |-> w[i].frame]
      BY <1>9, <2>1 DEF Complete, w
    <2>3. w[m + 1].frame = f
      BY <1>8, <1>9
    <2>4. Complete \in Seq(Frame) /\ Len(Complete) = m
      BY <1>9, <1>12, <1>13
    <2>5. [i \in 1..m + 1 |-> w[i].frame] = Append(Complete, f)
      <3> DEFINE a == Append(Complete, f)
                 b == [i \in 1..m + 1 |-> w[i].frame]
      <3>1. /\ a \in Seq(Frame) /\ Len(a) = m + 1
            /\ \A i \in 1..m : a[i] = Complete[i]
            /\ a[m + 1] = f
        BY <1>3, <2>4, AppendFacts
      <3>2. b \in Seq(Frame) /\ Len(b) = m + 1
        BY <1>3, <1>9, <1>12, <2>3
      <3>3. \A i \in 1..m + 1 : a[i] = b[i]
        BY <1>9, <1>13, <2>3, <3>1
      <3> HIDE DEF a, b
      <3>4. a = b
        BY <3>1, <3>2, <3>3
      <3> QED
        BY <3>4 DEF a, b
    <2>6. Complete' = Append(Complete, f)
      BY <2>2, <2>5
    <2> QED
      BY <1>1, <1>2, <1>7, <1>14, <2>1, <2>6 DEF Outbound!Complete, f
  <1>15. CASE offset + n < f.size /\ offset' = offset + n /\ UNCHANGED frame
    <2>1. Partial'
      BY <1>2, <1>6, <1>15
    <2>2. Complete' = [i \in 1..m |-> w[i].frame]
      BY <1>9, <2>1 DEF Complete, w
    <2>3. Complete' = Complete
      BY <1>13, <2>2
    <2>4. CASE offset = 0
      <3>1. ~Partial /\ Partial' = TRUE
        BY <1>5, <2>1, <2>4 DEF Partial
      <3> QED
        BY <1>1, <1>2, <1>7, <1>15, <2>3, <3>1 DEF Outbound!Begin
    <2>5. CASE offset > 0
      <3>1. Partial' = Partial
        BY <1>5, <2>1, <2>5 DEF Partial
      <3> QED
        BY <1>1, <1>7, <1>15, <2>3, <3>1 DEF Outbound!vars
    <2> QED
      BY <1>2, <2>4, <2>5
  <1> QED
    BY <1>1, <1>14, <1>15 DEF f

\* A write that would block is repeated, fails, or gives the frame up before its first
\* byte.
LEMMA BlockImplements ==
  ASSUME SendQueueAssumption, SInv, WouldBlock
  PROVE  Outbound!GiveUp \/ UNCHANGED Outbound!vars
  <1>1. pc = "write" /\ running /\ UNCHANGED <<queue, accepted, running, wire>>
    BY DEF WouldBlock, queues
  <1>2. Waiting' = Waiting /\ UNCHANGED <<Partial, Complete>>
    BY <1>1, StreamKept DEF Waiting
  <1>3. frame # <<>>
    BY <1>1 DEF SInv, WireWhole
  <1>4. CASE UNCHANGED frame
    BY <1>1, <1>2, <1>4 DEF Outbound!vars
  <1>5. CASE may_drop_congested_frame(frame[1].qos, offset) /\ frame' = <<>>
    <2>1. offset = 0 /\ frame[1].qos \in {BestEffort, Bulk}
      BY <1>5 DEF may_drop_congested_frame, qos_may_drop
    <2>2. ~Partial
      BY <2>1, PartialMeans
    <2> QED
      BY <1>1, <1>2, <1>3, <1>5, <2>1, <2>2 DEF Outbound!GiveUp
  <1> QED
    BY <1>4, <1>5 DEF WouldBlock, NextFrame, GiveUp

\* A step that touches neither the queues nor the stream nor the frame is invisible, or
\* closes the channel.
LEMMA ControlImplements ==
  ASSUME SInv, UNCHANGED <<queue, accepted, frame, wire>>,
         UNCHANGED running \/ running' = FALSE
  PROVE  Outbound!Close \/ UNCHANGED Outbound!vars
  <1>1. Waiting' = Waiting /\ UNCHANGED <<Partial, Complete>>
    BY StreamKept DEF Waiting
  <1>2. running \in BOOLEAN
    BY DEF SInv, QType
  <1>3. CASE UNCHANGED running
    BY <1>1, <1>3 DEF Outbound!vars
  <1>4. CASE running /\ running' = FALSE
    BY <1>1, <1>4 DEF Outbound!Close
  <1> QED
    BY <1>2, <1>3, <1>4

\* Every step of the queues and the send thread is a step of the channel, or none.
LEMMA StepImplements ==
  ASSUME SendQueueAssumption, SInv, SInv', [Next]_vars
  PROVE  [Outbound!Next]_Outbound!vars
  <1> DEFINE Goal == Outbound!Next \/ UNCHANGED Outbound!vars
  <1>1. ASSUME NEW c \in Qos, NEW n \in Size,
               NEW key \in (IF c = ReliableLatest THEN LatestKey ELSE {NoKey}),
               Enqueue(c, n, key)
        PROVE  Goal
    <2>1. QType
      BY DEF SInv
    <2>2. /\ \E new : Enqueued(new, queue', accepted')
          /\ UNCHANGED <<running, pc, frame, offset, wire>>
      BY <1>1, <2>1, EnqueueFacts
    <2>3. running
      BY <1>1 DEF Enqueue
    <2>4. Outbound!Accept \/ Outbound!Refuse
      BY <2>2, <2>3, EnqueueImplements
    <2> QED
      BY <2>4 DEF Outbound!Next
  <1>2. ASSUME TakeNextFrame PROVE Goal
    <2>1. CASE Ready = {}
      <3>1. UNCHANGED <<queue, accepted, frame, wire, running>>
        BY <1>2, <2>1 DEF TakeNextFrame, queues
      <3> QED
        BY <3>1, ControlImplements DEF Outbound!Next
    <2>2. CASE Ready # {}
      BY <1>2, <2>2, TakeImplements DEF Outbound!Next
    <2> QED
      BY <2>1, <2>2
  <1>3. ASSUME NEW n \in 1..Quantum, WriteSome(n) PROVE Goal
    BY <1>3, WriteImplements DEF Outbound!Next
  <1>4. ASSUME WouldBlock PROVE Goal
    BY <1>4, BlockImplements DEF Outbound!Next
  <1>5. ASSUME \/ Wake \/ LeaveLoop \/ SocketError \/ CloseAfterFailure \/ CloseByOther
               \/ UNCHANGED vars
        PROVE  Goal
    <2>1. /\ UNCHANGED <<queue, accepted, frame, wire>>
          /\ UNCHANGED running \/ running' = FALSE
      BY <1>5 DEF Wake, LeaveLoop, SocketError, GiveUp, CloseAfterFailure, CloseByOther,
                  queues, sender, vars
    <2> QED
      BY <2>1, ControlImplements DEF Outbound!Next
  <1> HIDE DEF Goal
  <1>6. Goal
    BY <1>1, <1>2, <1>3, <1>4, <1>5 DEF Next, SendThread
  <1> QED
    BY <1>6 DEF Goal

\* runtime_enqueue with its evictions and replacements and runtime_send_loop with its
\* chunks, retries and drops implement OutboundChannel, for any limits, sizes and keys.
THEOREM ImplementsOutboundThm ==
  ASSUME SendQueueAssumption
  PROVE  Spec => ImplementsOutbound
  <1>1. Init => Outbound!Init
    <2> SUFFICES ASSUME Init PROVE Outbound!Init
      OBVIOUS
    <2>1. \A c \in Qos : Len(queue[c]) = 0
      BY DEF Init
    <2>2. Waiting = {}
      BY <2>1 DEF Waiting
    <2>3. wire = <<>> /\ Len(wire) = 0
      BY DEF Init
    <2>4. Partial = FALSE
      BY <2>3 DEF Partial
    <2>5. Complete = <<>>
      BY <2>3, <2>4 DEF Complete
    <2> QED
      BY <2>2, <2>4, <2>5 DEF Init, Outbound!Init
  <1>2. SInv /\ SInv' /\ [Next]_vars => [Outbound!Next]_Outbound!vars
    BY StepImplements
  <1> QED
    BY <1>1, <1>2, Reachable, PTL DEF Spec, ImplementsOutbound, Outbound!Spec
=============================================================================
