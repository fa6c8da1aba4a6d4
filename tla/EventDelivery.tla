--------------------------- MODULE EventDelivery ----------------------------
(***************************************************************************)
(* From the runtime's threads through runtime_emit, the C callback and the *)
(* event queue of a language binding to a configuration request that waits *)
(* for its answer, and the life of the binding's Runtime object around it. *)
(*                                                                         *)
(* Python keeps one queue for all events; a request puts those that are    *)
(* not its answer aside (take_deferred_events). Rust broadcasts: a request *)
(* makes a receiver of its own, which misses events when it lags behind.   *)
(***************************************************************************)
EXTENDS Integers, Sequences, SequencesExt

CONSTANTS Conn,          \* connections, each with its receive thread
          Capacity,      \* EVENT_CAPACITY of the Rust channel
          MaxRequests,   \* requests the application makes
          MaxOther       \* events of peers that answer no request

ASSUME DeliveryAssumption ==
    Capacity \in Nat \ {0} /\ MaxRequests \in Nat /\ MaxOther \in Nat

VARIABLES binding,       \* "python" or "rust"
          object,        \* how far the binding's Runtime object is
          handlers,      \* the callback is in Impl::handlers
          thread,        \* per connection: what its receive thread is doing
          stream,        \* per connection: what the peer has sent
          asked,         \* per connection: requests its service has not answered
          others,        \* number of other events sent
          delivered,     \* events the callback got
          events,        \* runtime.events, or the receiver of the request
          lagged,        \* the receiver has lost events
          deferred, taken,
          client,        \* the request in progress
          returned,      \* answers that requests returned, with their requests
          next_id

objectVars == <<binding, object, handlers>>
peerVars == <<stream, asked, others>>
queueVars == <<delivered, events, lagged>>
clientVars == <<deferred, taken, client, returned, next_id>>
vars == <<objectVars, thread, peerVars, queueVars, clientVars>>

NoEvent == [kind |-> "none"]
Ended == [at |-> "ended", event |-> NoEvent, calls |-> FALSE]
NoRequest == [id |-> 0]

\* The runtime's threads run from start() to the end of stop().
Running == object \in {"started", "open", "unsubscribed"}

Init ==
    /\ binding \in {"python", "rust"}
    /\ object = "new" /\ handlers = FALSE
    /\ thread = [c \in Conn |-> [Ended EXCEPT !.at = "none"]]
    /\ stream = [c \in Conn |-> <<>>]
    /\ asked = [c \in Conn |-> {}] /\ others = 0
    /\ delivered = {} /\ events = <<>> /\ lagged = FALSE
    /\ deferred = <<>> /\ taken = {}
    /\ client = NoRequest /\ returned = {} /\ next_id = 1

(***************************************************************************)
(* The binding's Runtime object. Both bindings start the runtime before    *)
(* they subscribe, and unsubscribe, stop and destroy it in this order; the *)
(* callback and its context are freed last.                                *)
(***************************************************************************)
Advance(from, to) == object = from /\ object' = to

Start ==
    /\ Advance("new", "started") \/ Advance("new", "freed")     \* start() fails
    /\ UNCHANGED <<binding, handlers, thread, peerVars, queueVars, clientVars>>

Subscribe ==
    /\ Advance("started", "open")
    /\ handlers' = TRUE
    /\ UNCHANGED <<binding, thread, peerVars, queueVars, clientVars>>

Unsubscribe ==
    /\ client = NoRequest
    /\ Advance("open", "unsubscribed")
    /\ handlers' = FALSE
    /\ UNCHANGED <<binding, thread, peerVars, queueVars, clientVars>>

StopBegin ==
    /\ Advance("unsubscribed", "stopping")
    /\ UNCHANGED <<binding, handlers, thread, peerVars, queueVars, clientVars>>

\* mutant: the threads are not joined
StopAtOnce ==
    /\ Advance("stopping", "stopped")
    /\ UNCHANGED <<binding, handlers, thread, peerVars, queueVars, clientVars>>

StopEnd ==
    /\ Advance("stopping", "stopped")
    /\ \A c \in Conn : thread[c].at \in {"none", "ended"}
    /\ UNCHANGED <<binding, handlers, thread, peerVars, queueVars, clientVars>>

DestroyAndFree ==
    /\ Advance("stopped", "freed")
    /\ UNCHANGED <<binding, handlers, thread, peerVars, queueVars, clientVars>>

(***************************************************************************)
(* The runtime's threads: runtime_emit copies the handlers under the mutex *)
(* and calls them after it.                                                *)
(***************************************************************************)
Emit(c, event) == thread' = [thread EXCEPT ![c] = [at |-> "emit", event |-> event,
                                                   calls |-> handlers]]

\* The accept thread, or connect(), reports the link and starts the receive thread.
LinkUp(c) ==
    /\ Running /\ thread[c].at = "none"
    /\ Emit(c, [kind |-> "up", conn |-> c, id |-> 0])
    /\ UNCHANGED <<objectVars, peerVars, queueVars, clientVars>>

Receive(c) ==
    /\ thread[c].at = "receive" /\ stream[c] # <<>>
    /\ Emit(c, Head(stream[c]))
    /\ stream' = [stream EXCEPT ![c] = Tail(@)]
    /\ UNCHANGED <<objectVars, asked, others, queueVars, clientVars>>

\* The peer has closed, or the runtime is stopping.
ReceiveEnd(c) ==
    /\ thread[c].at = "receive"
    /\ Emit(c, [kind |-> "down", conn |-> c, id |-> 0])
    /\ UNCHANGED <<objectVars, peerVars, queueVars, clientVars>>

\* mutant: the receiver is made when the request begins to wait
HasReceiverLate == client # NoRequest /\ client.waiting

\* Rust makes the receiver of a request before it publishes, and drops it at the end.
HasReceiver == client # NoRequest

\* The callback copies the event into the queue of the binding.
Enqueue(event) ==
    /\ delivered' = delivered \cup {event}
    /\ IF binding = "python"
       THEN events' = Append(events, event) /\ UNCHANGED lagged
       ELSE IF ~HasReceiver THEN UNCHANGED <<events, lagged>>
       ELSE /\ lagged' = (lagged \/ Len(events) = Capacity)
            /\ events' = Append(IF Len(events) = Capacity THEN Tail(events) ELSE events, event)

Call(c) ==
    /\ thread[c].at = "emit"
    /\ thread' = [thread EXCEPT ![c] =
                     IF @.event.kind = "down" THEN Ended
                     ELSE [at |-> "receive", event |-> NoEvent, calls |-> FALSE]]
    /\ IF thread[c].calls THEN Enqueue(thread[c].event) ELSE UNCHANGED queueVars
    /\ UNCHANGED <<objectVars, peerVars, clientVars>>

(***************************************************************************)
(* The peers. A service answers a request it got when it likes or never.   *)
(***************************************************************************)
Answer(c) ==
    /\ \E id \in asked[c] :
           /\ asked' = [asked EXCEPT ![c] = @ \ {id}]
           /\ stream' = [stream EXCEPT ![c] =
                            Append(@, [kind |-> "answer", conn |-> c, id |-> id])]
    /\ UNCHANGED <<objectVars, thread, others, queueVars, clientVars>>

SendOther(c) ==
    /\ others < MaxOther
    /\ others' = others + 1
    /\ stream' = [stream EXCEPT ![c] =
                     Append(@, [kind |-> "other", conn |-> c, id |-> others'])]
    /\ UNCHANGED <<objectVars, thread, asked, queueVars, clientVars>>

(***************************************************************************)
(* A configuration request.                                                *)
(***************************************************************************)
Publish(c) ==
    /\ object = "open" /\ client = NoRequest /\ next_id <= MaxRequests
    /\ thread[c].at \in {"emit", "receive"}          \* else publish() fails
    /\ client' = [id |-> next_id, conn |-> c, waiting |-> FALSE]
    /\ next_id' = next_id + 1
    /\ asked' = [asked EXCEPT ![c] = @ \cup {next_id}]
    /\ UNCHANGED <<objectVars, thread, stream, others, queueVars, deferred, taken, returned>>

WaitBegin ==
    /\ client # NoRequest /\ ~client.waiting
    /\ client' = [client EXCEPT !.waiting = TRUE]
    /\ UNCHANGED <<objectVars, thread, peerVars, queueVars, deferred, taken, returned, next_id>>

Waiting == client # NoRequest /\ client.waiting

\* The request is over; what a queue of the runtime still holds stays there.
EndRequest(rest) ==
    /\ client' = NoRequest
    /\ IF binding = "python" THEN events' = rest /\ UNCHANGED lagged
                             ELSE events' = <<>> /\ lagged' = FALSE

matches(event) == event.kind = "answer" /\ event.conn = client.conn /\ event.id = client.id

\* mutant: what is not the answer is thrown away
PutAsideNothing(event) == UNCHANGED deferred

PutAside(event) ==
    IF binding = "python" THEN deferred' = Append(deferred, event) ELSE UNCHANGED deferred

TakeAnswer ==
    /\ Waiting /\ events # <<>> /\ ~lagged /\ matches(Head(events))
    /\ returned' = returned \cup {[request |-> client, answer |-> Head(events)]}
    /\ EndRequest(Tail(events))
    /\ UNCHANGED <<objectVars, thread, peerVars, delivered, deferred, taken, next_id>>

TakeOther ==
    /\ Waiting /\ events # <<>> /\ ~lagged /\ ~matches(Head(events))
    /\ events' = Tail(events)
    /\ PutAside(Head(events))
    /\ UNCHANGED <<objectVars, thread, peerVars, delivered, lagged, taken, client, returned,
                   next_id>>

\* The deadline, or an error because the receiver has missed events.
GiveUp ==
    /\ Waiting
    /\ EndRequest(events)
    /\ UNCHANGED <<objectVars, thread, peerVars, delivered, deferred, taken, returned, next_id>>

take_deferred_events ==
    /\ client = NoRequest /\ deferred # <<>>
    /\ taken' = taken \cup ToSet(deferred)
    /\ deferred' = <<>>
    /\ UNCHANGED <<objectVars, thread, peerVars, queueVars, client, returned, next_id>>

Object == Start \/ Subscribe \/ Unsubscribe \/ StopBegin \/ StopEnd \/ DestroyAndFree
Threads == \E c \in Conn : LinkUp(c) \/ Receive(c) \/ ReceiveEnd(c) \/ Call(c)
Peers == \E c \in Conn : Answer(c) \/ SendOther(c)
Client == \/ \E c \in Conn : Publish(c)
          \/ WaitBegin \/ TakeAnswer \/ TakeOther \/ GiveUp \/ take_deferred_events

Next == Object \/ Threads \/ Peers \/ Client

Spec == Init /\ [][Next]_vars

(***************************************************************************)
(* Properties.                                                             *)
(***************************************************************************)
\* A thread that may call the callback, or use the runtime, never does so after the
\* binding has destroyed the runtime and freed the callback: unsubscribe does not wait
\* for a call that runtime_emit has already prepared, so it rests on stop().
NoCallAfterFree ==
    object = "freed" => \A c \in Conn : thread[c].at \in {"none", "ended"}

\* While a request waits, its answer is not lost once the callback got it: it is in the
\* queue, not put aside by the request itself, nor gone before the receiver existed
\* (unless the Rust channel overflowed, and the request fails). A request returns
\* nothing but its own answer, although the answer to one that gave up comes late.
RequestGetsItsAnswer ==
    /\ \A r \in returned : r.answer.id = r.request.id /\ r.answer.conn = r.request.conn
    /\ client # NoRequest /\ ~lagged =>
           \A e \in delivered :
               e.kind = "answer" /\ e.id = client.id => e \in ToSet(events)

\* ConfigurationClient: "unrelated events remain retrievable with take_deferred_events
\* instead of being silently discarded". In Python every event the callback got is in
\* exactly one place, once: the queue, put aside, taken by the application or returned
\* by one request.
NothingDiscarded ==
    binding = "python" =>
        LET answers == {r.answer : r \in returned}
            places == <<ToSet(events), ToSet(deferred), taken, answers>>
        IN  /\ delivered = UNION ToSet(places)
            /\ \A i, j \in 1..4 : i # j => places[i] \cap places[j] = {}
            /\ IsInjective(events) /\ IsInjective(deferred)
            /\ \A r, s \in returned : r.answer = s.answer => r = s
=============================================================================
