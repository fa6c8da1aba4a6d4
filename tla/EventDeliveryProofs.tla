------------------------- MODULE EventDeliveryProofs -------------------------
(***************************************************************************)
(* Machine-checked proofs about EventDelivery, for any number of           *)
(* connections, requests and events and any capacity of the Rust channel.  *)
(***************************************************************************)
EXTENDS EventDelivery, TLAPS

(***************************************************************************)
(* The inductive invariant.                                                *)
(***************************************************************************)
Event == [kind : {"up", "down", "answer", "other"}, conn : Conn, id : Nat]
Thread == [at : {"none", "emit", "receive", "ended"}, event : Event \cup {NoEvent},
           calls : BOOLEAN]
Request == [id : Nat, conn : Conn, waiting : BOOLEAN]

TypeOK ==
    /\ binding \in {"python", "rust"}
    /\ object \in {"new", "started", "open", "unsubscribed", "stopping", "stopped", "freed"}
    /\ handlers \in BOOLEAN
    /\ thread \in [Conn -> Thread]
    /\ \A c \in Conn : thread[c].at = "emit" => thread[c].event \in Event
    /\ stream \in [Conn -> Seq(Event)] /\ asked \in [Conn -> SUBSET Nat] /\ others \in Nat
    /\ delivered \subseteq Event /\ events \in Seq(Event) /\ lagged \in BOOLEAN
    /\ client \in Request \cup {NoRequest} /\ next_id \in Nat

\* No thread runs before start() and after stop() has joined the threads.
Joined ==
    /\ object = "new" => \A c \in Conn : thread[c].at = "none"
    /\ object \in {"stopped", "freed"} => \A c \in Conn : thread[c].at \in {"none", "ended"}

\* An id on connection c that is not ahead of next_id and, if it is the id of the
\* request in progress, is on the request's connection.
Issued(id, c) == id < next_id /\ (client # NoRequest /\ id = client.id => c = client.conn)

\* Every answer, wherever it is, and every question, is to a request that was made.
AnswersIssued ==
    /\ \A c \in Conn : \A id \in asked[c] : Issued(id, c)
    /\ \A c \in Conn : \A i \in 1..Len(stream[c]) :
          stream[c][i].kind = "answer" => Issued(stream[c][i].id, stream[c][i].conn)
    /\ \A c \in Conn : thread[c].at = "emit" /\ thread[c].event.kind = "answer" =>
          Issued(thread[c].event.id, thread[c].event.conn)
    /\ \A e \in delivered : e.kind = "answer" => Issued(e.id, e.conn)

\* The answer to the request in progress is in the queue once the callback got it.
AnswerKept ==
    client # NoRequest /\ ~lagged =>
        \A e \in delivered :
            e.kind = "answer" /\ e.id = client.id => e \in ToSet(events)

OwnAnswers == \A r \in returned : r.answer.id = r.request.id /\ r.answer.conn = r.request.conn

DInv == TypeOK /\ Joined /\ AnswersIssued /\ AnswerKept /\ OwnAnswers

(***************************************************************************)
(* Sequences.                                                              *)
(***************************************************************************)

\* A queue after its first event has been taken.
LEMMA TailFacts ==
  ASSUME NEW T, NEW s \in Seq(T), s # <<>>
  PROVE  /\ Len(s) \in Nat \ {0} /\ s[1] \in T /\ Head(s) = s[1]
         /\ Tail(s) \in Seq(T) /\ Len(Tail(s)) = Len(s) - 1
         /\ \A i \in 1..Len(Tail(s)) : Tail(s)[i] = s[i + 1]
         /\ ToSet(s) \subseteq {s[1]} \cup ToSet(Tail(s))
  <1>1. /\ Len(s) \in Nat \ {0} /\ s[1] \in T /\ Head(s) = s[1]
        /\ Tail(s) \in Seq(T) /\ Len(Tail(s)) = Len(s) - 1
        /\ \A i \in 1..Len(Tail(s)) : Tail(s)[i] = s[i + 1]
    OBVIOUS
  <1>2. DOMAIN s = 1..Len(s) /\ DOMAIN Tail(s) = 1..Len(Tail(s))
    BY <1>1
  <1>3. ASSUME NEW i \in 1..Len(s) PROVE s[i] = s[1] \/ s[i] \in ToSet(Tail(s))
    <2>1. i # 1 => i - 1 \in 1..Len(Tail(s)) /\ Tail(s)[i - 1] = s[i]
      BY <1>1
    <2> QED
      BY <1>2, <2>1 DEF ToSet
  <1> QED
    BY <1>1, <1>2, <1>3 DEF ToSet

\* A queue after an event has been added.
LEMMA AppendFacts ==
  ASSUME NEW T, NEW s \in Seq(T), NEW e \in T
  PROVE  /\ Append(s, e) \in Seq(T) /\ Len(Append(s, e)) = Len(s) + 1 /\ Len(s) \in Nat
         /\ \A i \in 1..Len(s) : Append(s, e)[i] = s[i]
         /\ Append(s, e)[Len(s) + 1] = e
         /\ ToSet(s) \subseteq ToSet(Append(s, e)) /\ e \in ToSet(Append(s, e))
  <1>1. /\ Append(s, e) \in Seq(T) /\ Len(Append(s, e)) = Len(s) + 1 /\ Len(s) \in Nat
        /\ \A i \in 1..Len(s) : Append(s, e)[i] = s[i]
        /\ Append(s, e)[Len(s) + 1] = e
    OBVIOUS
  <1>2. DOMAIN s = 1..Len(s) /\ DOMAIN Append(s, e) = 1..Len(Append(s, e))
    BY <1>1
  <1> QED
    BY <1>1, <1>2 DEF ToSet

(***************************************************************************)
(* The steps.                                                              *)
(***************************************************************************)

\* The invariant holds initially.
LEMMA InitDInv == Init => DInv
  <1> SUFFICES ASSUME Init PROVE DInv
    OBVIOUS
  <1>1. TypeOK
    <2>1. [Ended EXCEPT !.at = "none"] \in Thread
      BY DEF Ended, Thread
    <2>2. [Ended EXCEPT !.at = "none"].at = "none"
      BY DEF Ended
    <2>3. thread \in [Conn -> Thread] /\ \A c \in Conn : thread[c].at = "none"
      BY <2>1, <2>2 DEF Init
    <2>4. <<>> \in Seq(Event)
      OBVIOUS
    <2> QED
      BY <2>3, <2>4 DEF Init, TypeOK
  <1>2. \A c \in Conn : thread[c].at = "none" /\ Len(stream[c]) = 0 /\ asked[c] = {}
    BY DEF Init, Ended
  <1> QED
    BY <1>1, <1>2 DEF Init, DInv, Joined, AnswersIssued, AnswerKept, OwnAnswers

\* The object moves on; stop() waits for the threads.
LEMMA ObjectStep ==
  ASSUME DInv, Object
  PROVE  DInv'
  <1>1. /\ binding' = binding /\ thread' = thread /\ stream' = stream /\ asked' = asked
        /\ others' = others /\ delivered' = delivered /\ events' = events /\ lagged' = lagged
        /\ client' = client /\ returned' = returned /\ next_id' = next_id
    BY DEF Object, Start, Subscribe, Unsubscribe, StopBegin, StopEnd, DestroyAndFree,
       peerVars, queueVars, clientVars
  <1>2. TypeOK' /\ Joined'
    BY <1>1 DEF DInv, TypeOK, Joined, Object, Start, Subscribe, Unsubscribe, StopBegin,
       StopEnd, DestroyAndFree, Advance
  <1> QED
    BY <1>1, <1>2 DEF DInv, AnswersIssued, Issued, AnswerKept, OwnAnswers

\* A receive thread takes up an event.
LEMMA EmitStep ==
  ASSUME DInv, NEW c \in Conn, LinkUp(c) \/ Receive(c) \/ ReceiveEnd(c)
  PROVE  DInv'
  <1>1. TypeOK /\ Joined /\ AnswersIssued /\ AnswerKept /\ OwnAnswers
    BY DEF DInv
  <1>2. /\ binding' = binding /\ object' = object /\ handlers' = handlers /\ asked' = asked
        /\ others' = others /\ delivered' = delivered /\ events' = events /\ lagged' = lagged
        /\ client' = client /\ returned' = returned /\ next_id' = next_id
        /\ Running \/ thread[c].at = "receive"
    BY DEF LinkUp, Receive, ReceiveEnd, objectVars, peerVars, queueVars, clientVars
  <1>3. PICK e \in Event :
           /\ thread' = [thread EXCEPT ![c] = [at |-> "emit", event |-> e, calls |-> handlers]]
           /\ \/ e.kind # "answer" /\ stream' = stream
              \/ /\ stream[c] # <<>> /\ e = stream[c][1]
                 /\ stream' = [stream EXCEPT ![c] = Tail(stream[c])]
    <2>1. CASE LinkUp(c)
      <3>1. [kind |-> "up", conn |-> c, id |-> 0] \in Event
        BY DEF Event
      <3> QED
        BY <2>1, <3>1 DEF LinkUp, Emit, peerVars
    <2>2. CASE Receive(c)
      <3>1. stream[c] # <<>> /\ Head(stream[c]) = stream[c][1] /\ stream[c][1] \in Event
        BY <1>1, <2>2, TailFacts DEF TypeOK, Receive
      <3> QED
        BY <2>2, <3>1 DEF Receive, Emit
    <2>3. CASE ReceiveEnd(c)
      <3>1. [kind |-> "down", conn |-> c, id |-> 0] \in Event
        BY DEF Event
      <3> QED
        BY <2>3, <3>1 DEF ReceiveEnd, Emit, peerVars
    <2> QED
      BY <2>1, <2>2, <2>3
  <1>4. /\ thread' \in [Conn -> Thread] /\ thread'[c].event = e
        /\ \A d \in Conn : d # c => thread'[d] = thread[d]
    <2>1. [at |-> "emit", event |-> e, calls |-> handlers] \in Thread
      BY <1>1 DEF TypeOK, Thread
    <2> QED
      BY <1>1, <1>3, <2>1 DEF TypeOK
  <1>5. /\ stream' \in [Conn -> Seq(Event)]
        /\ \A d \in Conn : \A i \in 1..Len(stream'[d]) :
              \E k \in 1..Len(stream[d]) : stream'[d][i] = stream[d][k]
    <2>1. CASE stream' = stream
      BY <1>1, <2>1 DEF TypeOK
    <2>2. CASE stream[c] # <<>> /\ stream' = [stream EXCEPT ![c] = Tail(stream[c])]
      <3>1. /\ Len(stream[c]) \in Nat \ {0} /\ Tail(stream[c]) \in Seq(Event)
            /\ Len(Tail(stream[c])) = Len(stream[c]) - 1
            /\ \A i \in 1..Len(Tail(stream[c])) : Tail(stream[c])[i] = stream[c][i + 1]
        BY <1>1, <2>2, TailFacts DEF TypeOK
      <3>2. /\ stream' \in [Conn -> Seq(Event)] /\ stream'[c] = Tail(stream[c])
            /\ \A d \in Conn : d # c => stream'[d] = stream[d]
        BY <1>1, <2>2, <3>1 DEF TypeOK
      <3>3. \A i \in 1..Len(stream'[c]) : i + 1 \in 1..Len(stream[c]) /\ stream'[c][i] = stream[c][i + 1]
        BY <3>1, <3>2
      <3> QED
        BY <3>2, <3>3
    <2> QED
      BY <1>3, <2>1, <2>2
  <1>6. e.kind = "answer" => Issued(e.id, e.conn)
    <2>1. e.kind = "answer" => 1 \in 1..Len(stream[c]) /\ e = stream[c][1]
      BY <1>1, <1>3, TailFacts DEF TypeOK
    <2> QED
      BY <1>1, <2>1 DEF AnswersIssued
  <1>7. TypeOK'
    BY <1>1, <1>2, <1>4, <1>5 DEF TypeOK
  <1>8. object \notin {"new", "stopped", "freed"}
    BY <1>1, <1>2 DEF Joined, Running
  <1>9. Joined'
    BY <1>2, <1>8 DEF Joined
  <1>10. AnswersIssued'
    <2>1. \A d \in Conn : \A i \in 1..Len(stream'[d]) : stream'[d][i].kind = "answer" =>
             Issued(stream'[d][i].id, stream'[d][i].conn)
      BY <1>1, <1>5 DEF AnswersIssued
    <2>2. \A d \in Conn : thread'[d].at = "emit" /\ thread'[d].event.kind = "answer" =>
             Issued(thread'[d].event.id, thread'[d].event.conn)
      BY <1>1, <1>4, <1>6 DEF AnswersIssued
    <2> QED
      BY <1>1, <1>2, <2>1, <2>2 DEF AnswersIssued, Issued
  <1> QED
    BY <1>1, <1>2, <1>7, <1>9, <1>10 DEF DInv, AnswerKept, OwnAnswers

\* The callback gets the event, or nobody does.
LEMMA CallStep ==
  ASSUME DInv, NEW c \in Conn, Call(c)
  PROVE  DInv'
  <1>1. TypeOK /\ Joined /\ AnswersIssued /\ AnswerKept /\ OwnAnswers
    BY DEF DInv
  <1>2. /\ thread[c].at = "emit"
        /\ binding' = binding /\ object' = object /\ handlers' = handlers /\ stream' = stream
        /\ asked' = asked /\ others' = others
        /\ client' = client /\ returned' = returned /\ next_id' = next_id
    BY DEF Call, objectVars, peerVars, clientVars
  <1>3. PICK e \in Event : e = thread[c].event
    BY <1>1, <1>2 DEF TypeOK
  <1>4. PICK t \in Thread : t.at # "emit" /\ thread' = [thread EXCEPT ![c] = t]
    <2>1. /\ Ended \in Thread /\ Ended.at # "emit"
          /\ [at |-> "receive", event |-> NoEvent, calls |-> FALSE] \in Thread
      BY DEF Ended, Thread
    <2> QED
      BY <2>1 DEF Call
  <1>5. /\ thread' \in [Conn -> Thread] /\ thread'[c].at # "emit"
        /\ \A d \in Conn : d # c => thread'[d] = thread[d]
    BY <1>1, <1>4 DEF TypeOK
  <1>6. /\ events' \in Seq(Event) /\ lagged' \in BOOLEAN
        /\ \/ delivered' = delivered /\ events' = events /\ lagged' = lagged
           \/ /\ delivered' = delivered \cup {e}
              /\ \/ client = NoRequest
                 \/ lagged'
                 \/ /\ lagged' = lagged
                    /\ ToSet(events) \cup {e} \subseteq ToSet(events')
    <2>1. CASE ~thread[c].calls
      BY <1>1, <2>1 DEF Call, queueVars, TypeOK
    <2>2. CASE thread[c].calls
      <3>1. Enqueue(e)
        BY <1>3, <2>2 DEF Call
      <3>2. delivered' = delivered \cup {e}
        BY <3>1 DEF Enqueue
      <3>3. /\ Append(events, e) \in Seq(Event)
            /\ ToSet(events) \cup {e} \subseteq ToSet(Append(events, e))
        BY <1>1, AppendFacts DEF TypeOK
      <3>4. CASE binding = "python"
        BY <1>1, <3>1, <3>2, <3>3, <3>4 DEF Enqueue, TypeOK
      <3>5. CASE binding # "python" /\ ~HasReceiver
        BY <1>1, <3>1, <3>2, <3>5 DEF Enqueue, HasReceiver, TypeOK
      <3>6. CASE binding # "python" /\ HasReceiver /\ Len(events) # Capacity
        BY <1>1, <3>1, <3>2, <3>3, <3>6 DEF Enqueue, TypeOK
      <3>7. CASE binding # "python" /\ HasReceiver /\ Len(events) = Capacity
        <4>1. lagged' = TRUE /\ events' = Append(Tail(events), e)
          BY <1>1, <3>1, <3>7 DEF Enqueue, TypeOK
        <4>2. events # <<>>
          BY <3>7, DeliveryAssumption
        <4>3. Tail(events) \in Seq(Event)
          BY <1>1, <4>2, TailFacts DEF TypeOK
        <4>4. events' \in Seq(Event)
          BY <4>1, <4>3, AppendFacts
        <4> QED
          BY <3>2, <4>1, <4>4
      <3> QED
        BY <3>4, <3>5, <3>6, <3>7
    <2> QED
      BY <2>1, <2>2
  <1>7. TypeOK'
    BY <1>1, <1>2, <1>5, <1>6 DEF TypeOK
  <1>8. Joined'
    <2>1. object \notin {"new", "stopped", "freed"}
      BY <1>1, <1>2 DEF Joined
    <2> QED
      BY <1>2, <2>1 DEF Joined
  <1>9. AnswersIssued'
    <2>1. e.kind = "answer" => Issued(e.id, e.conn)
      BY <1>1, <1>2, <1>3 DEF AnswersIssued
    <2> QED
      BY <1>1, <1>2, <1>5, <1>6, <2>1 DEF AnswersIssued, Issued
  <1>10. AnswerKept'
    BY <1>1, <1>2, <1>6 DEF AnswerKept
  <1> QED
    BY <1>1, <1>2, <1>7, <1>8, <1>9, <1>10 DEF DInv, OwnAnswers

\* A peer sends something.
LEMMA PeerStep ==
  ASSUME DInv, NEW c \in Conn, Answer(c) \/ SendOther(c)
  PROVE  DInv'
  <1>1. TypeOK /\ Joined /\ AnswersIssued /\ AnswerKept /\ OwnAnswers
    BY DEF DInv
  <1>2. /\ binding' = binding /\ object' = object /\ handlers' = handlers /\ thread' = thread
        /\ delivered' = delivered /\ events' = events /\ lagged' = lagged
        /\ client' = client /\ returned' = returned /\ next_id' = next_id
    BY DEF Answer, SendOther, objectVars, queueVars, clientVars
  <1>3. PICK e \in Event :
           /\ stream' = [stream EXCEPT ![c] = Append(stream[c], e)]
           /\ others' \in Nat /\ asked' \in [Conn -> SUBSET Nat]
           /\ \A d \in Conn : asked'[d] \subseteq asked[d]
           /\ e.kind = "answer" => e.id \in asked[c] /\ e.conn = c
    <2>1. CASE Answer(c)
      <3>1. PICK id \in asked[c] :
               /\ asked' = [asked EXCEPT ![c] = @ \ {id}]
               /\ stream' = [stream EXCEPT ![c] =
                                Append(@, [kind |-> "answer", conn |-> c, id |-> id])]
               /\ others' = others
        BY <2>1 DEF Answer
      <3>2. [kind |-> "answer", conn |-> c, id |-> id] \in Event
        BY <1>1 DEF TypeOK, Event
      <3>3. asked' \in [Conn -> SUBSET Nat] /\ \A d \in Conn : asked'[d] \subseteq asked[d]
        BY <1>1, <3>1 DEF TypeOK
      <3> QED
        BY <1>1, <3>1, <3>2, <3>3 DEF TypeOK
    <2>2. CASE SendOther(c)
      <3>1. others' \in Nat /\ asked' = asked
        BY <1>1, <2>2 DEF SendOther, TypeOK
      <3>2. [kind |-> "other", conn |-> c, id |-> others'] \in Event
        BY <3>1 DEF Event
      <3> QED
        BY <1>1, <2>2, <3>1, <3>2 DEF SendOther, TypeOK
    <2> QED
      BY <2>1, <2>2
  <1>4. /\ stream' \in [Conn -> Seq(Event)] /\ Len(stream[c]) \in Nat
        /\ Len(stream'[c]) = Len(stream[c]) + 1
        /\ \A i \in 1..Len(stream[c]) : stream'[c][i] = stream[c][i]
        /\ stream'[c][Len(stream[c]) + 1] = e
        /\ \A d \in Conn : d # c => stream'[d] = stream[d]
    <2>1. /\ Append(stream[c], e) \in Seq(Event) /\ Len(Append(stream[c], e)) = Len(stream[c]) + 1
          /\ Len(stream[c]) \in Nat
          /\ \A i \in 1..Len(stream[c]) : Append(stream[c], e)[i] = stream[c][i]
          /\ Append(stream[c], e)[Len(stream[c]) + 1] = e
      BY <1>1, AppendFacts DEF TypeOK
    <2> QED
      BY <1>1, <1>3, <2>1 DEF TypeOK
  <1>5. TypeOK' /\ Joined'
    BY <1>1, <1>2, <1>3, <1>4 DEF TypeOK, Joined
  <1>6. AnswersIssued'
    <2>1. ASSUME NEW d \in Conn, NEW i \in 1..Len(stream'[d]), stream'[d][i].kind = "answer"
          PROVE  Issued(stream'[d][i].id, stream'[d][i].conn)
      <3>1. stream'[d][i] = e \/ (i \in 1..Len(stream[d]) /\ stream'[d][i] = stream[d][i])
        BY <1>4
      <3> QED
        BY <1>1, <1>3, <2>1, <3>1 DEF AnswersIssued
    <2> QED
      BY <1>1, <1>2, <1>3, <2>1 DEF AnswersIssued, Issued
  <1> QED
    BY <1>1, <1>2, <1>5, <1>6 DEF DInv, AnswerKept, OwnAnswers

\* A request is made, with an id that no answer has.
LEMMA PublishStep ==
  ASSUME DInv, NEW c \in Conn, Publish(c)
  PROVE  DInv'
  <1>1. TypeOK /\ Joined /\ AnswersIssued /\ AnswerKept /\ OwnAnswers
    BY DEF DInv
  <1>2. /\ client = NoRequest /\ client' = [id |-> next_id, conn |-> c, waiting |-> FALSE]
        /\ next_id' = next_id + 1 /\ asked' = [asked EXCEPT ![c] = asked[c] \cup {next_id}]
        /\ binding' = binding /\ object' = object /\ handlers' = handlers /\ thread' = thread
        /\ stream' = stream /\ others' = others
        /\ delivered' = delivered /\ events' = events /\ lagged' = lagged /\ returned' = returned
    BY DEF Publish, objectVars, queueVars
  <1>3. client' \in Request /\ client'.id = next_id /\ client'.conn = c /\ next_id \in Nat
    BY <1>1, <1>2 DEF TypeOK, Request
  <1>4. asked' \in [Conn -> SUBSET Nat]
    BY <1>1, <1>2 DEF TypeOK
  <1>5. TypeOK' /\ Joined'
    BY <1>1, <1>2, <1>3, <1>4 DEF TypeOK, Joined
  <1>6. AnswersIssued'
    <2>1. \A d \in Conn : \A id \in asked'[d] :
             id \in Nat /\ (id < next_id \/ (id = next_id /\ d = c))
      BY <1>1, <1>2, <1>3 DEF AnswersIssued, Issued, TypeOK
    <2>2. \A e \in Event : e.id \in Nat /\ e.conn \in Conn
      BY DEF Event
    <2>3. \A d \in Conn : \A i \in 1..Len(stream[d]) :
             stream[d][i] \in Event /\ (stream[d][i].kind = "answer" => stream[d][i].id < next_id)
      BY <1>1 DEF AnswersIssued, Issued, TypeOK
    <2>4. \A d \in Conn : thread[d].at = "emit" =>
             /\ thread[d].event \in Event
             /\ thread[d].event.kind = "answer" => thread[d].event.id < next_id
      BY <1>1 DEF AnswersIssued, Issued, TypeOK
    <2>5. \A e \in delivered : e \in Event /\ (e.kind = "answer" => e.id < next_id)
      BY <1>1 DEF AnswersIssued, Issued, TypeOK
    <2>6. \A id \in Nat, d \in Conn : id < next_id \/ (id = next_id /\ d = c) => Issued(id, d)'
      BY <1>2, <1>3 DEF Issued
    <2> QED
      BY <1>2, <2>1, <2>2, <2>3, <2>4, <2>5, <2>6 DEF AnswersIssued, Issued
  <1>7. AnswerKept'
    <2>1. \A e \in delivered : e.kind = "answer" => e.id < next_id
      BY <1>1 DEF AnswersIssued, Issued
    <2> QED
      BY <1>1, <1>2, <1>3, <2>1 DEF AnswerKept, TypeOK, Event
  <1> QED
    BY <1>1, <1>2, <1>5, <1>6, <1>7 DEF DInv, OwnAnswers

\* The request in progress waits, looks at the next event, or ends.
LEMMA ClientStep ==
  ASSUME DInv, WaitBegin \/ TakeAnswer \/ TakeOther \/ GiveUp \/ take_deferred_events
  PROVE  DInv'
  <1>1. TypeOK /\ Joined /\ AnswersIssued /\ AnswerKept /\ OwnAnswers
    BY DEF DInv
  <1>2. /\ binding' = binding /\ object' = object /\ handlers' = handlers /\ thread' = thread
        /\ stream' = stream /\ asked' = asked /\ others' = others /\ delivered' = delivered
        /\ next_id' = next_id
    BY DEF WaitBegin, TakeAnswer, TakeOther, GiveUp, take_deferred_events, objectVars,
       peerVars, queueVars
  <1>3. Joined'
    BY <1>1, <1>2 DEF Joined
  <1>4. ASSUME client' \in Request \cup {NoRequest}, events' \in Seq(Event), lagged' \in BOOLEAN
        PROVE  TypeOK'
    BY <1>1, <1>2, <1>4 DEF TypeOK
  <1>5. ASSUME client' = NoRequest \/ (client # NoRequest /\ client'.id = client.id /\ client'.conn = client.conn)
        PROVE  AnswersIssued'
    BY <1>1, <1>2, <1>5 DEF AnswersIssued, Issued
  <1>6. CASE WaitBegin
    <2>1. /\ client # NoRequest /\ client' = [client EXCEPT !.waiting = TRUE]
          /\ events' = events /\ lagged' = lagged /\ returned' = returned
      BY <1>6 DEF WaitBegin, queueVars
    <2>2. client \in Request
      BY <1>1, <2>1 DEF TypeOK
    <2>3. client' \in Request /\ client'.id = client.id /\ client'.conn = client.conn
      BY <2>1, <2>2 DEF Request
    <2>4. TypeOK' /\ AnswersIssued'
      BY <1>1, <1>4, <1>5, <2>1, <2>3 DEF TypeOK
    <2>5. AnswerKept' /\ OwnAnswers'
      BY <1>1, <1>2, <2>1, <2>3 DEF AnswerKept, OwnAnswers
    <2> QED
      BY <1>3, <2>4, <2>5 DEF DInv
  <1>7. CASE TakeAnswer
    <2>1. /\ Waiting /\ events # <<>> /\ matches(Head(events)) /\ EndRequest(Tail(events))
          /\ returned' = returned \cup {[request |-> client, answer |-> Head(events)]}
      BY <1>7 DEF TakeAnswer
    <2>2. Tail(events) \in Seq(Event) /\ <<>> \in Seq(Event)
      BY <1>1, <2>1, TailFacts DEF TypeOK
    <2>3. client' = NoRequest /\ events' \in Seq(Event) /\ lagged' \in BOOLEAN
      BY <1>1, <2>1, <2>2 DEF EndRequest, TypeOK
    <2>4. TypeOK' /\ AnswersIssued' /\ AnswerKept'
      BY <1>4, <1>5, <2>3 DEF AnswerKept
    <2>5. OwnAnswers'
      BY <1>1, <2>1 DEF OwnAnswers, matches
    <2> QED
      BY <1>3, <2>4, <2>5 DEF DInv
  <1>8. CASE TakeOther
    <2>1. /\ client # NoRequest /\ events # <<>> /\ ~matches(Head(events)) /\ ~lagged
          /\ events' = Tail(events) /\ client' = client /\ lagged' = lagged
          /\ returned' = returned
      BY <1>8 DEF TakeOther, Waiting
    <2>2. /\ Tail(events) \in Seq(Event) /\ Head(events) = events[1]
          /\ ToSet(events) \subseteq {events[1]} \cup ToSet(Tail(events))
      BY <1>1, <2>1, TailFacts DEF TypeOK
    <2>3. TypeOK' /\ AnswersIssued'
      BY <1>1, <1>4, <1>5, <2>1, <2>2 DEF TypeOK
    <2>4. AnswerKept'
      <3> SUFFICES ASSUME NEW e \in delivered, e.kind = "answer", e.id = client.id
                   PROVE  e \in ToSet(Tail(events))
        BY <1>2, <2>1 DEF AnswerKept
      <3>1. e \in ToSet(events)
        BY <1>1, <2>1 DEF AnswerKept
      <3>2. e.conn = client.conn
        BY <1>1, <2>1 DEF AnswersIssued, Issued
      <3> QED
        BY <2>1, <2>2, <3>1, <3>2 DEF matches
    <2> QED
      BY <1>1, <1>3, <2>1, <2>3, <2>4 DEF DInv, OwnAnswers
  <1>9. CASE GiveUp
    <2>1. EndRequest(events) /\ returned' = returned
      BY <1>9 DEF GiveUp
    <2>2. <<>> \in Seq(Event)
      OBVIOUS
    <2>3. client' = NoRequest /\ events' \in Seq(Event) /\ lagged' \in BOOLEAN
      BY <1>1, <2>1, <2>2 DEF EndRequest, TypeOK
    <2> QED
      BY <1>1, <1>3, <1>4, <1>5, <2>1, <2>3 DEF DInv, AnswerKept, OwnAnswers
  <1>10. CASE take_deferred_events
    <2>1. /\ client = NoRequest /\ client' = client /\ events' = events /\ lagged' = lagged
          /\ returned' = returned
      BY <1>10 DEF take_deferred_events, queueVars
    <2> QED
      BY <1>1, <1>3, <1>4, <1>5, <2>1 DEF DInv, AnswerKept, OwnAnswers, TypeOK
  <1> QED
    BY <1>6, <1>7, <1>8, <1>9, <1>10

(***************************************************************************)
(* No event is met twice. What connection c has sent is in its stream,     *)
(* with its thread or delivered.                                           *)
(***************************************************************************)
Seen(e, c) ==
    \/ e \in delivered
    \/ thread[c].at = "emit" /\ thread[c].event = e
    \/ \E i \in 1..Len(stream[c]) : stream[c][i] = e

AnswerEvent(c, id) == [kind |-> "answer", conn |-> c, id |-> id]
LinkEvent(c, kind) == [kind |-> kind, conn |-> c, id |-> 0]

\* What is in the stream differs from what the thread has and from what is delivered.
StreamFresh(c) ==
    \A i \in 1..Len(stream[c]) :
        /\ stream[c][i].conn = c /\ stream[c][i].kind \in {"answer", "other"}
        /\ stream[c][i] \notin delivered
        /\ thread[c].at = "emit" => thread[c].event # stream[c][i]
        /\ \A j \in 1..Len(stream[c]) : i # j => stream[c][i] # stream[c][j]

ThreadFresh(c) ==
    /\ thread[c].at = "emit" => thread[c].event.conn = c /\ thread[c].event \notin delivered
    /\ thread[c].at = "none" => LinkEvent(c, "up") \notin delivered
    /\ thread[c].at # "ended" => LinkEvent(c, "down") \notin delivered

\* A request that is not answered has no answer yet, and the next event has a new number.
PeerFresh(c) ==
    /\ \A id \in asked[c] : ~Seen(AnswerEvent(c, id), c)
    /\ \A e \in Event : Seen(e, c) /\ e.kind = "other" => e.id <= others

Fresh == \A c \in Conn : StreamFresh(c) /\ ThreadFresh(c) /\ PeerFresh(c)

\* The four places of an event, in Python.
Returned == {r.answer : r \in returned}

Placed ==
    /\ deferred \in Seq(Event)
    /\ \A e : e \in delivered <=>
          e \in ToSet(events) \/ e \in ToSet(deferred) \/ e \in taken \/ e \in Returned
    /\ \A e \in ToSet(events) : e \notin ToSet(deferred) /\ e \notin taken /\ e \notin Returned
    /\ \A e \in ToSet(deferred) : e \notin taken /\ e \notin Returned
    /\ \A e \in taken : e \notin Returned
    /\ IsInjective(events) /\ IsInjective(deferred)
    /\ \A r, s \in returned : r.answer = s.answer => r = s

EInv == Fresh /\ (binding = "python" => Placed)

\* An event is added to a queue that does not have it.
LEMMA AppendOnce ==
  ASSUME NEW T, NEW s \in Seq(T), NEW e \in T, IsInjective(s), e \notin ToSet(s)
  PROVE  IsInjective(Append(s, e)) /\ \A x : x \in ToSet(Append(s, e)) <=> x \in ToSet(s) \/ x = e
  <1> DEFINE t == Append(s, e)
  <1>1. /\ t \in Seq(T) /\ Len(t) = Len(s) + 1 /\ Len(s) \in Nat
        /\ \A i \in 1..Len(s) : t[i] = s[i]
        /\ t[Len(s) + 1] = e
    BY AppendFacts
  <1> HIDE DEF t
  <1>2. DOMAIN s = 1..Len(s) /\ DOMAIN t = 1..(Len(s) + 1)
    BY <1>1
  <1>3. \A i \in 1..Len(s) : s[i] # e
    BY <1>2 DEF ToSet
  <1>4. \A i \in 1..(Len(s) + 1) : i = Len(s) + 1 \/ i \in 1..Len(s)
    BY <1>1
  <1>5. \A i, j \in 1..(Len(s) + 1) : t[i] = t[j] => i = j
    BY <1>1, <1>2, <1>3, <1>4 DEF IsInjective
  <1>6. \A x : x \in ToSet(t) <=> \E i \in 1..(Len(s) + 1) : t[i] = x
    BY <1>2 DEF ToSet
  <1>7. \A x : x \in ToSet(s) <=> \E i \in 1..Len(s) : s[i] = x
    BY <1>2 DEF ToSet
  <1>8. Len(s) + 1 \in 1..(Len(s) + 1) /\ \A i \in 1..Len(s) : i \in 1..(Len(s) + 1)
    BY <1>1
  <1>9. \A x : x \in ToSet(t) <=> x \in ToSet(s) \/ x = e
    BY <1>1, <1>4, <1>6, <1>7, <1>8
  <1> QED
    BY <1>2, <1>5, <1>9 DEF IsInjective, t

\* The first event of a queue is taken.
LEMMA TailOnce ==
  ASSUME NEW T, NEW s \in Seq(T), s # <<>>, IsInjective(s)
  PROVE  /\ IsInjective(Tail(s)) /\ Head(s) \in ToSet(s) /\ Head(s) \in T
         /\ \A x : x \in ToSet(Tail(s)) <=> x \in ToSet(s) /\ x # Head(s)
  <1> DEFINE t == Tail(s)
  <1>1. /\ Len(s) \in Nat \ {0} /\ s[1] \in T /\ Head(s) = s[1]
        /\ t \in Seq(T) /\ Len(t) = Len(s) - 1
        /\ \A i \in 1..Len(t) : t[i] = s[i + 1]
    BY TailFacts
  <1> HIDE DEF t
  <1>2. DOMAIN s = 1..Len(s) /\ DOMAIN t = 1..Len(t)
    BY <1>1
  <1>3. \A i \in 1..Len(t) : i + 1 \in 1..Len(s) /\ i + 1 # 1 /\ t[i] = s[i + 1]
    BY <1>1
  <1>4. \A i \in 1..Len(s) : i = 1 \/ (i - 1 \in 1..Len(t) /\ t[i - 1] = s[i])
    BY <1>1
  <1>5. \A i, j \in 1..Len(s) : s[i] = s[j] => i = j
    BY <1>2 DEF IsInjective
  <1>6. \A i, j \in 1..Len(t) : t[i] = t[j] => i = j
    <2> SUFFICES ASSUME NEW i \in 1..Len(t), NEW j \in 1..Len(t), t[i] = t[j] PROVE i = j
      OBVIOUS
    <2>1. i + 1 = j + 1
      BY <1>3, <1>5
    <2> QED
      BY <1>1, <2>1
  <1>7. 1 \in 1..Len(s)
    BY <1>1
  <1>8. \A x : x \in ToSet(t) <=> \E i \in 1..Len(t) : t[i] = x
    BY <1>2 DEF ToSet
  <1>9. \A x : x \in ToSet(s) <=> \E i \in 1..Len(s) : s[i] = x
    BY <1>2 DEF ToSet
  <1>10. \A x : x \in ToSet(t) <=> x \in ToSet(s) /\ x # s[1]
    <2> SUFFICES ASSUME NEW x PROVE x \in ToSet(t) <=> x \in ToSet(s) /\ x # s[1]
      OBVIOUS
    <2>1. x \in ToSet(t) => x \in ToSet(s) /\ x # s[1]
      BY <1>3, <1>5, <1>7, <1>8, <1>9
    <2>2. x \in ToSet(s) /\ x # s[1] => x \in ToSet(t)
      BY <1>4, <1>8, <1>9
    <2> QED
      BY <2>1, <2>2
  <1> QED
    BY <1>1, <1>2, <1>6, <1>7, <1>9, <1>10 DEF IsInjective, t

\* Nothing has happened yet.
LEMMA InitEInv == Init => EInv
  <1> SUFFICES ASSUME Init PROVE EInv
    OBVIOUS
  <1>1. \A c \in Conn : thread[c].at = "none" /\ Len(stream[c]) = 0 /\ asked[c] = {}
    BY DEF Init, Ended
  <1>2. delivered = {} /\ taken = {} /\ returned = {} /\ events = <<>> /\ deferred = <<>>
    BY DEF Init
  <1>3. ToSet(<<>>) = {} /\ IsInjective(<<>>) /\ <<>> \in Seq(Event)
    BY DEF ToSet, IsInjective
  <1>4. Fresh
    BY <1>1, <1>2 DEF Fresh, StreamFresh, ThreadFresh, PeerFresh, Seen
  <1>5. Placed
    BY <1>2, <1>3 DEF Placed, Returned
  <1> QED
    BY <1>4, <1>5 DEF EInv

\* A connection whose thread, stream and questions are as they were.
LEMMA SameFresh ==
  ASSUME Fresh, NEW d \in Conn, delivered' = delivered, others' = others,
         thread'[d] = thread[d], stream'[d] = stream[d], asked'[d] = asked[d]
  PROVE  StreamFresh(d)' /\ ThreadFresh(d)' /\ PeerFresh(d)'
  BY DEF Fresh, StreamFresh, ThreadFresh, PeerFresh, Seen, LinkEvent

\* A receive thread takes up an event that is not in its stream any more.
LEMMA EmitFresh ==
  ASSUME DInv, Fresh, NEW c \in Conn, LinkUp(c) \/ Receive(c) \/ ReceiveEnd(c)
  PROVE  Fresh'
  <1>1. TypeOK /\ StreamFresh(c) /\ ThreadFresh(c) /\ PeerFresh(c)
    BY DEF DInv, Fresh
  <1>2. /\ asked' = asked /\ others' = others /\ delivered' = delivered
        /\ thread[c].at \in {"none", "receive"}
    BY DEF LinkUp, Receive, ReceiveEnd, peerVars, queueVars
  <1>3. PICK e \in Event :
           /\ thread' = [thread EXCEPT ![c] = [at |-> "emit", event |-> e, calls |-> handlers]]
           /\ \/ /\ e = LinkEvent(c, "up") /\ thread[c].at = "none" /\ stream' = stream
              \/ /\ e = LinkEvent(c, "down") /\ thread[c].at = "receive" /\ stream' = stream
              \/ /\ stream[c] # <<>> /\ e = stream[c][1]
                 /\ stream' = [stream EXCEPT ![c] = Tail(stream[c])]
    <2>1. CASE LinkUp(c)
      <3>1. LinkEvent(c, "up") \in Event
        BY DEF Event, LinkEvent
      <3> QED
        BY <2>1, <3>1 DEF LinkUp, Emit, peerVars, LinkEvent
    <2>2. CASE Receive(c)
      <3>1. stream[c] # <<>> /\ Head(stream[c]) = stream[c][1] /\ stream[c][1] \in Event
        BY <1>1, <2>2, TailFacts DEF TypeOK, Receive
      <3> QED
        BY <2>2, <3>1 DEF Receive, Emit
    <2>3. CASE ReceiveEnd(c)
      <3>1. LinkEvent(c, "down") \in Event
        BY DEF Event, LinkEvent
      <3> QED
        BY <2>3, <3>1 DEF ReceiveEnd, Emit, peerVars, LinkEvent
    <2> QED
      BY <2>1, <2>2, <2>3
  <1>4. /\ thread'[c].at = "emit" /\ thread'[c].event = e
        /\ \A d \in Conn : d # c => thread'[d] = thread[d] /\ stream'[d] = stream[d]
    BY <1>1, <1>3 DEF TypeOK
  \* What is left in the stream was there, without the event.
  <1>5. PICK k \in 0..1 :
           /\ \A i \in 1..Len(stream'[c]) : i + k \in 1..Len(stream[c]) /\ stream'[c][i] = stream[c][i + k]
           /\ \A i \in 1..Len(stream'[c]) : stream[c][i + k] # e
    <2>1. CASE stream' = stream /\ e.kind \in {"up", "down"}
      <3>1. Len(stream[c]) \in Nat
        BY <1>1 DEF TypeOK
      <3>2. \A i \in 1..Len(stream'[c]) :
               i + 0 = i /\ i + 0 \in 1..Len(stream[c]) /\ stream'[c][i] = stream[c][i + 0]
        BY <2>1, <3>1
      <3>3. \A i \in 1..Len(stream'[c]) : stream[c][i + 0] # e
        BY <1>1, <2>1, <3>2 DEF StreamFresh
      <3> QED
        BY <3>2, <3>3
    <2>2. CASE stream[c] # <<>> /\ e = stream[c][1] /\ stream' = [stream EXCEPT ![c] = Tail(stream[c])]
      <3>1. /\ Len(stream[c]) \in Nat \ {0} /\ Len(Tail(stream[c])) = Len(stream[c]) - 1
            /\ \A i \in 1..Len(Tail(stream[c])) : Tail(stream[c])[i] = stream[c][i + 1]
        BY <1>1, <2>2, TailFacts DEF TypeOK
      <3>2. stream'[c] = Tail(stream[c])
        BY <1>1, <2>2 DEF TypeOK
      <3>3. \A i \in 1..Len(stream'[c]) :
               i + 1 \in 1..Len(stream[c]) /\ i + 1 # 1 /\ stream'[c][i] = stream[c][i + 1]
        BY <3>1, <3>2
      <3>4. 1 \in 1..Len(stream[c])
        BY <3>1
      <3>5. \A i \in 1..Len(stream'[c]) : stream[c][i + 1] # e
        BY <1>1, <2>2, <3>3, <3>4 DEF StreamFresh
      <3> QED
        BY <3>3, <3>5
    <2> QED
      BY <1>3, <2>1, <2>2 DEF LinkEvent
  <1>6. e.conn = c /\ e \notin delivered /\ (Seen(e, c) \/ e.kind \in {"up", "down"})
    <2>1. CASE e = LinkEvent(c, "up") /\ thread[c].at = "none"
      BY <1>1, <2>1 DEF ThreadFresh, LinkEvent
    <2>2. CASE e = LinkEvent(c, "down") /\ thread[c].at = "receive"
      BY <1>1, <2>2 DEF ThreadFresh, LinkEvent
    <2>3. CASE stream[c] # <<>> /\ e = stream[c][1]
      <3>1. 1 \in 1..Len(stream[c])
        BY <1>1, <2>3, TailFacts DEF TypeOK
      <3> QED
        BY <1>1, <2>3, <3>1 DEF StreamFresh, Seen
    <2> QED
      BY <1>3, <2>1, <2>2, <2>3
  <1>7. StreamFresh(c)'
    <2>1. \A i \in 1..Len(stream'[c]) : i \in Nat
      BY <1>1, <1>3, TailFacts DEF TypeOK
    <2>2. \A i, j \in 1..Len(stream'[c]) : i # j => i + k # j + k
      BY <2>1
    <2> QED
      BY <1>1, <1>2, <1>4, <1>5, <2>2 DEF StreamFresh
  <1>8. ThreadFresh(c)'
    BY <1>1, <1>2, <1>4, <1>6 DEF ThreadFresh, LinkEvent
  <1>9. PeerFresh(c)'
    <2>1. \A x : Seen(x, c)' => x = e \/ Seen(x, c)
      BY <1>2, <1>4, <1>5 DEF Seen
    <2>2. \A id : AnswerEvent(c, id).kind = "answer"
      BY DEF AnswerEvent
    <2>3. \A x : Seen(x, c)' /\ x.kind \in {"answer", "other"} => Seen(x, c)
      BY <1>6, <2>1
    <2>4. \A id \in asked[c] : ~Seen(AnswerEvent(c, id), c)'
      BY <1>1, <2>2, <2>3 DEF PeerFresh
    <2>5. \A x \in Event : Seen(x, c)' /\ x.kind = "other" => x.id <= others
      BY <1>1, <2>3 DEF PeerFresh
    <2> QED
      BY <1>2, <2>4, <2>5 DEF PeerFresh, Seen, AnswerEvent
  <1>10. ASSUME NEW d \in Conn, d # c
         PROVE  StreamFresh(d)' /\ ThreadFresh(d)' /\ PeerFresh(d)'
    BY <1>2, <1>4, <1>10, SameFresh
  <1> QED
    BY <1>7, <1>8, <1>9, <1>10 DEF Fresh

\* The callback gets the event, which no other connection and no stream has.
LEMMA CallFresh ==
  ASSUME DInv, Fresh, NEW c \in Conn, Call(c)
  PROVE  Fresh'
  <1>1. TypeOK /\ \A d \in Conn : StreamFresh(d) /\ ThreadFresh(d) /\ PeerFresh(d)
    BY DEF DInv, Fresh
  <1>2. thread[c].at = "emit" /\ stream' = stream /\ asked' = asked /\ others' = others
    BY DEF Call, peerVars
  <1>3. PICK e \in Event : e = thread[c].event
    BY <1>1, <1>2 DEF TypeOK
  <1>4. /\ thread'[c].at = IF e.kind = "down" THEN "ended" ELSE "receive"
        /\ \A d \in Conn : d # c => thread'[d] = thread[d]
    BY <1>1, <1>3 DEF Call, TypeOK, Ended
  <1>5. delivered' = delivered \/ delivered' = delivered \cup {e}
    BY <1>3 DEF Call, Enqueue, queueVars
  <1>6. e.conn = c /\ Seen(e, c)
    BY <1>1, <1>2, <1>3 DEF ThreadFresh, Seen
  <1>7. ASSUME NEW d \in Conn PROVE StreamFresh(d)'
    <2>1. \A i \in 1..Len(stream[d]) : stream[d][i] # e
      BY <1>1, <1>2, <1>3, <1>6 DEF StreamFresh
    <2> QED
      BY <1>1, <1>2, <1>4, <1>5, <2>1 DEF StreamFresh
  <1>8. ASSUME NEW d \in Conn PROVE ThreadFresh(d)'
    <2>1. CASE d = c
      BY <1>1, <1>2, <1>4, <1>5, <2>1 DEF ThreadFresh, LinkEvent
    <2>2. CASE d # c
      BY <1>1, <1>2, <1>4, <1>5, <1>6, <2>2 DEF ThreadFresh, LinkEvent
    <2> QED
      BY <2>1, <2>2
  <1>9. ASSUME NEW d \in Conn PROVE PeerFresh(d)'
    <2>1. \A x : Seen(x, d)' => Seen(x, d) \/ x = e
      BY <1>2, <1>4, <1>5 DEF Seen
    <2>2. \A id \in asked[d] : ~Seen(AnswerEvent(d, id), d) /\ AnswerEvent(d, id).conn = d
      BY <1>1 DEF PeerFresh, AnswerEvent
    <2>3. \A id \in asked[d] : AnswerEvent(d, id) # e
      BY <1>6, <2>2
    <2>4. \A id \in asked[d] : ~Seen(AnswerEvent(d, id), d)'
      BY <2>1, <2>2, <2>3
    <2>5. \A x \in Event : Seen(x, d)' /\ x.kind = "other" => x.id <= others
      BY <1>1, <1>6, <2>1 DEF PeerFresh
    <2> QED
      BY <1>2, <2>4, <2>5 DEF PeerFresh, Seen, AnswerEvent
  <1> QED
    BY <1>7, <1>8, <1>9 DEF Fresh

\* A peer sends an answer it owed, or an event with a new number.
LEMMA SentFresh ==
  ASSUME DInv, Fresh, NEW c \in Conn, Answer(c) \/ SendOther(c)
  PROVE  Fresh'
  <1>1. TypeOK /\ \A d \in Conn : StreamFresh(d) /\ ThreadFresh(d) /\ PeerFresh(d)
    BY DEF DInv, Fresh
  <1>2. thread' = thread /\ delivered' = delivered
    BY DEF Answer, SendOther, queueVars
  <1>3. PICK e \in Event :
           /\ stream' = [stream EXCEPT ![c] = Append(stream[c], e)]
           /\ others \in Nat /\ others' \in Nat /\ others <= others'
           /\ e.conn = c /\ e.kind \in {"answer", "other"} /\ ~Seen(e, c)
           /\ \A id \in asked'[c] : id \in asked[c] /\ AnswerEvent(c, id) # e
           /\ \A d \in Conn : d # c => asked'[d] = asked[d]
           /\ e.kind = "other" => e.id <= others'
    <2>1. CASE Answer(c)
      <3>1. PICK id \in asked[c] :
               /\ asked' = [asked EXCEPT ![c] = @ \ {id}]
               /\ stream' = [stream EXCEPT ![c] = Append(@, AnswerEvent(c, id))]
               /\ others' = others
        BY <2>1 DEF Answer, AnswerEvent
      <3>2. AnswerEvent(c, id) \in Event /\ AnswerEvent(c, id).conn = c /\ AnswerEvent(c, id).kind = "answer"
        BY <1>1 DEF TypeOK, Event, AnswerEvent
      <3>3. ~Seen(AnswerEvent(c, id), c)
        BY <1>1 DEF PeerFresh
      <3>4. /\ \A x \in asked'[c] : x \in asked[c] /\ x # id
            /\ \A d \in Conn : d # c => asked'[d] = asked[d]
        BY <1>1, <3>1 DEF TypeOK
      <3>5. \A x : AnswerEvent(c, x).id = x
        BY DEF AnswerEvent
      <3>6. others \in Nat /\ others' \in Nat /\ others <= others'
        BY <1>1, <3>1 DEF TypeOK
      <3>7. \A x \in asked'[c] : x \in asked[c] /\ AnswerEvent(c, x) # AnswerEvent(c, id)
        BY <3>4, <3>5
      <3>8. PICK e : e = AnswerEvent(c, id)
        OBVIOUS
      <3>9. stream' = [stream EXCEPT ![c] = Append(stream[c], e)]
        BY <3>1, <3>8
      <3>10. /\ e \in Event /\ e.conn = c /\ e.kind \in {"answer", "other"} /\ ~Seen(e, c)
             /\ \A x \in asked'[c] : x \in asked[c] /\ AnswerEvent(c, x) # e
             /\ e.kind = "other" => e.id <= others'
        BY <3>2, <3>3, <3>7, <3>8
      <3> QED
        BY <3>4, <3>6, <3>9, <3>10
    <2>2. CASE SendOther(c)
      <3> DEFINE o == [kind |-> "other", conn |-> c, id |-> others + 1]
      <3>1. /\ others \in Nat /\ others' = others + 1 /\ asked' = asked
            /\ stream' = [stream EXCEPT ![c] = Append(stream[c], o)]
        BY <1>1, <2>2 DEF SendOther, TypeOK
      <3>2. o \in Event /\ o.conn = c /\ o.kind = "other" /\ o.id = others + 1
        BY <3>1 DEF Event
      <3>3. \A x : AnswerEvent(c, x).kind = "answer"
        BY DEF AnswerEvent
      <3> HIDE DEF o
      <3>4. ~Seen(o, c)
        BY <1>1, <3>1, <3>2 DEF PeerFresh
      <3>5. others' \in Nat /\ others <= others' /\ o.id <= others'
        BY <3>1, <3>2
      <3>6. \A id \in asked'[c] : id \in asked[c] /\ AnswerEvent(c, id) # o
        BY <3>1, <3>2, <3>3
      <3>7. \A d \in Conn : d # c => asked'[d] = asked[d]
        BY <3>1
      <3> QED
        BY <3>1, <3>2, <3>4, <3>5, <3>6, <3>7, Zenon
    <2> QED
      BY <2>1, <2>2
  <1>4. /\ Len(stream[c]) \in Nat /\ Len(stream'[c]) = Len(stream[c]) + 1
        /\ \A i \in 1..Len(stream[c]) : stream'[c][i] = stream[c][i]
        /\ stream'[c][Len(stream[c]) + 1] = e
        /\ \A d \in Conn : d # c => stream'[d] = stream[d]
    <2>1. /\ Len(Append(stream[c], e)) = Len(stream[c]) + 1
          /\ Len(stream[c]) \in Nat
          /\ \A i \in 1..Len(stream[c]) : Append(stream[c], e)[i] = stream[c][i]
          /\ Append(stream[c], e)[Len(stream[c]) + 1] = e
      BY <1>1, AppendFacts DEF TypeOK
    <2> QED
      BY <1>1, <1>3, <2>1 DEF TypeOK
  <1>5. \A i \in 1..Len(stream'[c]) :
           \/ i = Len(stream[c]) + 1 /\ stream'[c][i] = e
           \/ i \in 1..Len(stream[c]) /\ stream'[c][i] = stream[c][i]
    BY <1>4
  <1>6. StreamFresh(c)'
    <2>1. e \notin delivered /\ (thread[c].at = "emit" => thread[c].event # e)
      BY <1>3 DEF Seen
    <2>2. \A i \in 1..Len(stream[c]) : stream[c][i] # e
      BY <1>3 DEF Seen
    <2>3. \A i, j \in 1..Len(stream'[c]) : i # j => stream'[c][i] # stream'[c][j]
      BY <1>1, <1>5, <2>2 DEF StreamFresh
    <2> QED
      BY <1>1, <1>2, <1>3, <1>5, <2>1, <2>3 DEF StreamFresh
  <1>7. \A d \in Conn : ThreadFresh(d)'
    BY <1>1, <1>2 DEF ThreadFresh, LinkEvent
  <1>8. ASSUME NEW d \in Conn, d # c PROVE StreamFresh(d)'
    BY <1>1, <1>2, <1>4, <1>8 DEF StreamFresh
  <1>9. PeerFresh(c)'
    <2>1. \A x : Seen(x, c)' => Seen(x, c) \/ x = e
      BY <1>2, <1>5 DEF Seen
    <2>2. \A id \in asked'[c] : ~Seen(AnswerEvent(c, id), c)'
      BY <1>1, <1>3, <2>1 DEF PeerFresh
    <2>3. \A x \in Event : x.id \in Nat
      BY DEF Event
    <2>4. \A x \in Event : Seen(x, c) /\ x.kind = "other" => x.id <= others'
      BY <1>1, <1>3, <2>3 DEF PeerFresh
    <2>5. \A x \in Event : Seen(x, c)' /\ x.kind = "other" => x.id <= others'
      BY <1>3, <2>1, <2>4
    <2> QED
      BY <2>2, <2>5 DEF PeerFresh, Seen, AnswerEvent
  <1>10. ASSUME NEW d \in Conn, d # c PROVE PeerFresh(d)'
    <2>1. \A x : Seen(x, d)' <=> Seen(x, d)
      BY <1>2, <1>4, <1>10 DEF Seen
    <2>2. \A id \in asked'[d] : ~Seen(AnswerEvent(d, id), d)'
      BY <1>1, <1>3, <1>10, <2>1 DEF PeerFresh
    <2>3. \A x \in Event : x.id \in Nat
      BY DEF Event
    <2>4. \A x \in Event : Seen(x, d) /\ x.kind = "other" => x.id <= others'
      BY <1>1, <1>3, <2>3 DEF PeerFresh
    <2> QED
      BY <2>1, <2>2, <2>4 DEF PeerFresh, Seen, AnswerEvent
  <1> QED
    BY <1>6, <1>7, <1>8, <1>9, <1>10 DEF Fresh

\* A request is made: its id is in no answer yet.
LEMMA PublishFresh ==
  ASSUME DInv, Fresh, NEW c \in Conn, Publish(c)
  PROVE  Fresh'
  <1>1. TypeOK /\ AnswersIssued /\ \A d \in Conn : StreamFresh(d) /\ ThreadFresh(d) /\ PeerFresh(d)
    BY DEF DInv, Fresh
  <1>2. /\ asked' = [asked EXCEPT ![c] = asked[c] \cup {next_id}] /\ thread' = thread
        /\ stream' = stream /\ others' = others /\ delivered' = delivered
    BY DEF Publish, queueVars
  <1>3. /\ \A id \in asked'[c] : id \in asked[c] \/ id = next_id
        /\ \A d \in Conn : d # c => asked'[d] = asked[d]
    BY <1>1, <1>2 DEF TypeOK
  <1>4. \A x \in Event : x.kind = "answer" /\ Seen(x, c) => x.id < next_id
    BY <1>1 DEF AnswersIssued, Issued, Seen
  <1>5. /\ AnswerEvent(c, next_id) \in Event /\ AnswerEvent(c, next_id).kind = "answer"
        /\ AnswerEvent(c, next_id).id = next_id /\ next_id \in Nat
    BY <1>1 DEF TypeOK, Event, AnswerEvent
  <1>6. ~Seen(AnswerEvent(c, next_id), c)
    BY <1>4, <1>5
  <1>7. PeerFresh(c)'
    <2>1. \A x : Seen(x, c)' <=> Seen(x, c)
      BY <1>2 DEF Seen
    <2>2. \A id \in asked'[c] : ~Seen(AnswerEvent(c, id), c)'
      BY <1>1, <1>3, <1>6, <2>1 DEF PeerFresh
    <2>3. \A x \in Event : Seen(x, c)' /\ x.kind = "other" => x.id <= others
      BY <1>1, <2>1 DEF PeerFresh
    <2> QED
      BY <1>2, <2>2, <2>3 DEF PeerFresh, Seen, AnswerEvent
  <1>8. StreamFresh(c)' /\ ThreadFresh(c)'
    BY <1>1, <1>2 DEF StreamFresh, ThreadFresh, LinkEvent
  <1>9. ASSUME NEW d \in Conn, d # c
        PROVE  StreamFresh(d)' /\ ThreadFresh(d)' /\ PeerFresh(d)'
    BY <1>2, <1>3, <1>9, SameFresh
  <1> QED
    BY <1>7, <1>8, <1>9 DEF Fresh

\* Every event has one place after a step in which none is delivered and none moves.
LEMMA SamePlaced ==
  ASSUME Placed, UNCHANGED <<delivered, events, deferred, taken, returned>>
  PROVE  Placed'
  BY DEF Placed, Returned

\* In Python, the callback puts the event into the queue.
LEMMA CallPlaced ==
  ASSUME DInv, Fresh, Placed, binding = "python", NEW c \in Conn, Call(c)
  PROVE  Placed'
  <1>1. TypeOK /\ ThreadFresh(c)
    BY DEF DInv, Fresh
  <1>2. thread[c].at = "emit" /\ UNCHANGED <<deferred, taken, returned>>
    BY DEF Call, clientVars
  <1>3. PICK e \in Event : e = thread[c].event
    BY <1>1, <1>2 DEF TypeOK
  <1>4. CASE ~thread[c].calls
    BY <1>2, <1>4, SamePlaced DEF Call, queueVars
  <1>5. CASE thread[c].calls
    <2>1. delivered' = delivered \cup {e} /\ events' = Append(events, e)
      BY <1>3, <1>5 DEF Call, Enqueue
    <2>2. e \notin delivered
      BY <1>1, <1>2, <1>3 DEF ThreadFresh
    <2>3. IsInjective(events) /\ e \notin ToSet(events) /\ events \in Seq(Event)
      BY <1>1, <2>2 DEF Placed, TypeOK
    <2>4. IsInjective(Append(events, e)) /\ \A x : x \in ToSet(Append(events, e)) <=> x \in ToSet(events) \/ x = e
      BY <2>3, AppendOnce
    <2>5. IsInjective(events') /\ \A x : x \in ToSet(events') <=> x \in ToSet(events) \/ x = e
      BY <2>1, <2>4
    <2> QED
      BY <1>2, <2>1, <2>2, <2>5 DEF Placed, Returned
  <1> QED
    BY <1>4, <1>5

\* In Python, the request in progress looks at an event or ends, and the application
\* takes what was put aside.
LEMMA ClientPlaced ==
  ASSUME DInv, Placed, binding = "python",
         WaitBegin \/ TakeAnswer \/ TakeOther \/ GiveUp \/ take_deferred_events
  PROVE  Placed'
  <1>1. /\ events \in Seq(Event) /\ deferred \in Seq(Event)
        /\ IsInjective(events) /\ IsInjective(deferred)
    BY DEF DInv, TypeOK, Placed
  <1>2. CASE WaitBegin
    BY <1>2, SamePlaced DEF WaitBegin, queueVars
  <1>3. CASE GiveUp
    BY <1>3, SamePlaced DEF GiveUp, EndRequest
  <1>4. CASE TakeAnswer
    <2>1. /\ events # <<>> /\ events' = Tail(events) /\ UNCHANGED <<delivered, deferred, taken>>
          /\ returned' = returned \cup {[request |-> client, answer |-> Head(events)]}
      BY <1>4 DEF TakeAnswer, EndRequest
    <2>2. PICK e \in Event : e = Head(events)
      BY <1>1, <2>1, TailOnce
    <2>3. /\ IsInjective(events') /\ e \in ToSet(events)
          /\ \A x : x \in ToSet(events') <=> x \in ToSet(events) /\ x # e
      BY <1>1, <2>1, <2>2, TailOnce
    <2>4. PICK q : q = [request |-> client, answer |-> e]
      OBVIOUS
    <2>5. q.answer = e /\ returned' = returned \cup {q}
      BY <2>1, <2>2, <2>4
    <2>6. \A x : x \in Returned' <=> x \in Returned \/ x = e
      BY <2>5 DEF Returned
    <2>7. e \notin Returned
      BY <2>3 DEF Placed
    <2>8. \A r, s \in returned' : r.answer = s.answer => r = s
      BY <2>5, <2>7 DEF Placed, Returned
    <2> QED
      BY <2>1, <2>3, <2>6, <2>8 DEF Placed
  <1>5. CASE TakeOther
    <2>1. /\ events # <<>> /\ events' = Tail(events) /\ UNCHANGED <<delivered, taken, returned>>
          /\ deferred' = Append(deferred, Head(events))
      BY <1>5 DEF TakeOther, PutAside
    <2>2. PICK e \in Event : e = Head(events)
      BY <1>1, <2>1, TailOnce
    <2>3. /\ IsInjective(events') /\ e \in ToSet(events)
          /\ \A x : x \in ToSet(events') <=> x \in ToSet(events) /\ x # e
      BY <1>1, <2>1, <2>2, TailOnce
    <2>4. e \notin ToSet(deferred)
      BY <2>3 DEF Placed
    <2>5. /\ Append(deferred, e) \in Seq(Event) /\ IsInjective(Append(deferred, e))
          /\ \A x : x \in ToSet(Append(deferred, e)) <=> x \in ToSet(deferred) \/ x = e
      BY <1>1, <2>4, AppendOnce, AppendFacts
    <2>6. /\ deferred' \in Seq(Event) /\ IsInjective(deferred')
          /\ \A x : x \in ToSet(deferred') <=> x \in ToSet(deferred) \/ x = e
      BY <2>1, <2>2, <2>5
    <2> QED
      BY <2>1, <2>3, <2>6 DEF Placed, Returned
  <1>6. CASE take_deferred_events
    <2>1. /\ UNCHANGED <<delivered, events, returned>> /\ deferred' = <<>>
          /\ taken' = taken \cup ToSet(deferred)
      BY <1>6 DEF take_deferred_events, queueVars
    <2>2. ToSet(<<>>) = {} /\ IsInjective(<<>>) /\ <<>> \in Seq(Event)
      BY DEF ToSet, IsInjective
    <2>3. deferred' \in Seq(Event) /\ IsInjective(deferred') /\ \A x : x \notin ToSet(deferred')
      BY <2>1, <2>2
    <2> QED
      BY <2>1, <2>3 DEF Placed, Returned
  <1> QED
    BY <1>2, <1>3, <1>4, <1>5, <1>6

\* Every step keeps it, with the invariant DInv.
LEMMA StepEInv ==
  ASSUME DInv, EInv, [Next]_vars
  PROVE  EInv'
  <1>1. Fresh /\ binding' = binding
    BY DEF EInv, Next, Object, Start, Subscribe, Unsubscribe, StopBegin, StopEnd, DestroyAndFree,
       Threads, LinkUp, Receive, ReceiveEnd, Call, Peers, Answer, SendOther, Client, Publish,
       WaitBegin, TakeAnswer, TakeOther, GiveUp, take_deferred_events, objectVars, vars
  <1>2. ASSUME UNCHANGED <<thread, stream, asked, others, delivered>>
        PROVE  Fresh'
    BY <1>1, <1>2, SameFresh DEF Fresh
  <1>3. CASE Object \/ UNCHANGED vars
    <2>1. UNCHANGED <<thread, stream, asked, others, delivered, events, deferred, taken, returned>>
      BY <1>3 DEF Object, Start, Subscribe, Unsubscribe, StopBegin, StopEnd, DestroyAndFree,
         peerVars, queueVars, clientVars, vars
    <2> QED
      BY <1>1, <1>2, <2>1, SamePlaced DEF EInv
  <1>4. ASSUME NEW c \in Conn, LinkUp(c) \/ Receive(c) \/ ReceiveEnd(c) PROVE EInv'
    <2>1. UNCHANGED <<delivered, events, deferred, taken, returned>>
      BY <1>4 DEF LinkUp, Receive, ReceiveEnd, queueVars, clientVars
    <2> QED
      BY <1>1, <1>4, <2>1, EmitFresh, SamePlaced DEF EInv
  <1>5. ASSUME NEW c \in Conn, Call(c) PROVE EInv'
    BY <1>1, <1>5, CallFresh, CallPlaced DEF EInv
  <1>6. ASSUME NEW c \in Conn, Answer(c) \/ SendOther(c) PROVE EInv'
    <2>1. UNCHANGED <<delivered, events, deferred, taken, returned>>
      BY <1>6 DEF Answer, SendOther, queueVars, clientVars
    <2> QED
      BY <1>1, <1>6, <2>1, SentFresh, SamePlaced DEF EInv
  <1>7. ASSUME NEW c \in Conn, Publish(c) PROVE EInv'
    <2>1. UNCHANGED <<delivered, events, deferred, taken, returned>>
      BY <1>7 DEF Publish, queueVars
    <2> QED
      BY <1>1, <1>7, <2>1, PublishFresh, SamePlaced DEF EInv
  <1>8. CASE WaitBegin \/ TakeAnswer \/ TakeOther \/ GiveUp \/ take_deferred_events
    <2>1. UNCHANGED <<thread, stream, asked, others, delivered>>
      BY <1>8 DEF WaitBegin, TakeAnswer, TakeOther, GiveUp, take_deferred_events, peerVars, queueVars
    <2> QED
      BY <1>1, <1>2, <1>8, <2>1, ClientPlaced DEF EInv
  <1> QED
    BY <1>3, <1>4, <1>5, <1>6, <1>7, <1>8 DEF Next, Threads, Peers, Client

(***************************************************************************)
(* The theorems.                                                           *)
(***************************************************************************)

\* Every step keeps the invariant.
LEMMA StepDInv == DInv /\ [Next]_vars => DInv'
  <1> SUFFICES ASSUME DInv, [Next]_vars PROVE DInv'
    OBVIOUS
  <1>1. CASE UNCHANGED vars
    BY <1>1 DEF vars, objectVars, peerVars, queueVars, clientVars, DInv, TypeOK, Joined,
       AnswersIssued, Issued, AnswerKept, OwnAnswers
  <1>2. CASE Threads
    BY <1>2, EmitStep, CallStep DEF Threads
  <1>3. CASE Peers
    BY <1>3, PeerStep DEF Peers
  <1>4. CASE Client
    BY <1>4, PublishStep, ClientStep DEF Client
  <1> QED
    BY <1>1, <1>2, <1>3, <1>4, ObjectStep DEF Next

\* DInv holds in every reachable state.
THEOREM Reachable == Spec => []DInv
  BY InitDInv, StepDInv, PTL DEF Spec

\* The callback and its context are not used after the binding has freed them, although
\* unsubscribe does not wait for a call that runtime_emit has prepared.
THEOREM NoCallAfterFreeThm == Spec => []NoCallAfterFree
  <1>1. DInv => NoCallAfterFree
    BY DEF DInv, Joined, NoCallAfterFree
  <1> QED
    BY <1>1, Reachable, PTL

\* A request returns only its own answer, and an answer the callback got while the
\* request waits is not lost, unless the Rust channel has overflowed.
THEOREM RequestGetsItsAnswerThm == Spec => []RequestGetsItsAnswer
  <1>1. DInv => RequestGetsItsAnswer
    BY DEF DInv, AnswerKept, OwnAnswers, RequestGetsItsAnswer
  <1> QED
    BY <1>1, Reachable, PTL

\* In Python no event that the callback got is lost or kept twice: each is in the queue,
\* put aside, taken by the application or the answer that one request returned.
THEOREM NothingDiscardedThm == Spec => []NothingDiscarded
  <1>1. DInv /\ EInv /\ [Next]_vars => EInv'
    BY StepEInv
  <1>2. EInv => NothingDiscarded
    <2> SUFFICES ASSUME Placed PROVE NothingDiscarded
      BY DEF EInv, NothingDiscarded
    <2> DEFINE places == <<ToSet(events), ToSet(deferred), taken, Returned>>
    <2>1. /\ places[1] = ToSet(events) /\ places[2] = ToSet(deferred)
          /\ places[3] = taken /\ places[4] = Returned
      OBVIOUS
    <2>2. ToSet(places) = {ToSet(events), ToSet(deferred), taken, Returned}
      <3>1. DOMAIN places = {1, 2, 3, 4}
        OBVIOUS
      <3> HIDE DEF places
      <3> QED
        BY <2>1, <3>1 DEF ToSet
    <2>3. delivered = UNION ToSet(places)
      BY <2>2 DEF Placed
    <2>4. \A i, j \in 1..4 : i # j => places[i] \cap places[j] = {}
      <3> HIDE DEF places
      <3>1. 1..4 = {1, 2, 3, 4}
        OBVIOUS
      <3>2. ToSet(events) \cap ToSet(deferred) = {} /\ ToSet(events) \cap taken = {}
        BY DEF Placed
      <3>3. ToSet(events) \cap Returned = {} /\ ToSet(deferred) \cap taken = {}
        BY DEF Placed
      <3>4. ToSet(deferred) \cap Returned = {} /\ taken \cap Returned = {}
        BY DEF Placed
      <3> QED
        BY <2>1, <3>1, <3>2, <3>3, <3>4
    <2> QED
      BY <2>3, <2>4 DEF NothingDiscarded, Placed, Returned
  <1> QED
    BY <1>1, <1>2, InitEInv, Reachable, PTL DEF Spec
=============================================================================
