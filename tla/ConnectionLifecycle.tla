------------------------ MODULE ConnectionLifecycle ------------------------
(***************************************************************************)
(* The life of the connections a runtime keeps under one peer id: the      *)
(* connection objects that successive connect_peer calls create, the send  *)
(* and receive thread of each, the accept thread, which reaps connections  *)
(* that have stopped running, and one application thread that connects,    *)
(* opens sessions, publishes, closes and stops.  The condition variable of *)
(* the send thread is modelled down to the step between the evaluation of  *)
(* its predicate and the wait.                                             *)
(***************************************************************************)
EXTENDS Integers

CONSTANTS
    MaxConn,           \* bound on the number of connection objects
    MaxSid,            \* bound on the number of sessions opened
    MaxQueued          \* bound on the frames waiting in one send queue

ASSUME LifecycleAssumption ==
    MaxConn \in Nat /\ MaxSid \in Nat /\ MaxQueued \in Nat

Conn   == 1..MaxConn
NoConn == 0
Closer == {"app", "reaper"}

VARIABLES
    impl_running,  \* Impl::running
    patient,       \* the application reconnects only after the link event
    connections,   \* the entry of the peer id in Impl::connections, or NoConn
    sessions,      \* Impl::sessions of the peer: the id, and the object it was opened on
    created,       \* number of connection objects created
    next_sid,      \* Impl::next_session_id
    running,       \* RuntimeConnection::running
    queued,        \* frames in the send queues
    send_mutex,    \* the send thread holds send_mutex
    spc,           \* where each send thread is
    rpc,           \* where each receive thread is
    link_down,     \* the link-down event of the object has been emitted
    joinable,      \* the threads an object has been assigned and that nobody has joined
    early,         \* history: the objects reaped while connect_peer was starting them
    app,           \* where the application thread is
    reaper,        \* where the accept thread is
    closing        \* close_connection in progress: its object and its next step

tables  == <<impl_running, patient, connections, sessions, created, next_sid>>
flags   == <<running, queued, send_mutex>>
handles == <<joinable, early>>
control == <<app, reaper, closing>>
vars    == <<tables, flags, spc, rpc, link_down, handles, control>>

Starting   == {"start_send", "start_receive", "assign_receive"}
CloseSteps == {"none", "flag", "notify", "join_receive", "join_send"}
TypeOK ==
    /\ impl_running \in BOOLEAN /\ patient \in BOOLEAN
    /\ connections \in Conn \cup {NoConn}
    /\ sessions \subseteq [sid : 1..MaxSid, on : Conn]
    /\ created \in 0..MaxConn /\ next_sid \in 1..MaxSid + 1
    /\ running \in [Conn -> BOOLEAN]
    /\ queued \in [Conn -> 0..MaxQueued]
    /\ send_mutex \in [Conn -> BOOLEAN]
    /\ spc \in [Conn -> {"none", "loop", "predicate", "block", "waiting", "take",
                         "write", "ended"}]
    /\ rpc \in [Conn -> {"none", "loop", "close", "drop", "report", "ended"}]
    /\ link_down \in [Conn -> BOOLEAN]
    /\ joinable \in [Conn -> SUBSET {"send", "receive"}]
    /\ early \subseteq Conn
    /\ app \in {"idle", "connect", "open", "close", "join_accept", "clear", "stop",
                "stopped"} \cup Starting
    /\ reaper \in {"scan", "close", "ended"}
    /\ closing \in [Closer -> [conn : Conn \cup {NoConn}, at : CloseSteps]]

NotClosing == [conn |-> NoConn, at |-> "none"]

Init ==
    /\ impl_running = TRUE /\ patient \in BOOLEAN
    /\ connections = NoConn
    /\ sessions = {}
    /\ created = 0 /\ next_sid = 1
    /\ running = [c \in Conn |-> FALSE]
    /\ queued = [c \in Conn |-> 0]
    /\ send_mutex = [c \in Conn |-> FALSE]
    /\ spc = [c \in Conn |-> "none"]
    /\ rpc = [c \in Conn |-> "none"]
    /\ link_down = [c \in Conn |-> FALSE]
    /\ joinable = [c \in Conn |-> {}] /\ early = {}
    /\ app = "idle" /\ reaper = "scan"
    /\ closing = [t \in Closer |-> NotClosing]

----------------------------------------------------------------------------
(* The send thread: runtime_send_loop *)

\* notify_all: a thread that waits evaluates its predicate again. A thread that
\* is not waiting yet does not notice.
Notify(c) == [spc EXCEPT ![c] = IF @ = "waiting" THEN "predicate" ELSE @]

\* runtime_enqueue: the frame is queued under send_mutex and the send thread notified.
Enqueue(c) ==
    /\ running[c] /\ ~send_mutex[c] /\ queued[c] < MaxQueued
    /\ queued' = [queued EXCEPT ![c] = @ + 1]
    /\ spc' = Notify(c)

SendGoto(c, label) == spc' = [spc EXCEPT ![c] = label]

SendLoop(c) ==
    /\ spc[c] = "loop"
    /\ SendGoto(c, IF running[c] THEN "predicate" ELSE "ended")
    /\ UNCHANGED <<tables, flags, control, rpc, link_down, handles>>

\* The predicate of the wait, evaluated with send_mutex held. If it is false
\* the thread still holds the mutex, and is about to wait.
SendPredicate(c) ==
    /\ spc[c] = "predicate"
    /\ \/ /\ ~running[c] \/ queued[c] # 0
          /\ SendGoto(c, "take")
          /\ UNCHANGED send_mutex
       \/ /\ running[c] /\ queued[c] = 0
          /\ SendGoto(c, "block")
          /\ send_mutex' = [send_mutex EXCEPT ![c] = TRUE]
    /\ UNCHANGED <<tables, control, running, queued, rpc, link_down, handles>>

\* The wait releases the mutex and blocks, in one step.
SendBlock(c) ==
    /\ spc[c] = "block"
    /\ SendGoto(c, "waiting")
    /\ send_mutex' = [send_mutex EXCEPT ![c] = FALSE]
    /\ UNCHANGED <<tables, control, running, queued, rpc, link_down, handles>>

SendTake(c) ==
    /\ spc[c] = "take"
    /\ \/ /\ ~running[c] \/ queued[c] = 0
          /\ SendGoto(c, "loop")
          /\ UNCHANGED queued
       \/ /\ running[c] /\ queued[c] # 0
          /\ SendGoto(c, "write")
          /\ queued' = [queued EXCEPT ![c] = @ - 1]
    /\ UNCHANGED <<tables, control, running, send_mutex, rpc, link_down, handles>>

\* The frame is written, or dropped; or the write fails and the thread stops
\* the connection, closes its socket and ends.
SendWrite(c) ==
    /\ spc[c] = "write"
    /\ \/ SendGoto(c, "loop") /\ UNCHANGED running
       \/ SendGoto(c, "ended") /\ running' = [running EXCEPT ![c] = FALSE]
    /\ UNCHANGED <<tables, control, queued, send_mutex, rpc, link_down, handles>>

----------------------------------------------------------------------------
(* The receive thread: runtime_receive_loop *)

ReceiveGoto(c, label) == rpc' = [rpc EXCEPT ![c] = label]

\* A message is handled and answered, on the connection the table holds.
Reply(c) ==
    /\ rpc[c] = "loop" /\ connections # NoConn
    /\ Enqueue(connections)
    /\ UNCHANGED <<tables, control, running, send_mutex, rpc, link_down, handles>>

\* The peer closes or resets the stream, or the loop sees a flag that is off.
\* A closed socket implies a flag that is off.
ReceiveLeave(c) ==
    /\ rpc[c] = "loop"
    /\ ReceiveGoto(c, "close")
    /\ UNCHANGED <<tables, flags, control, spc, link_down, handles>>

\* mutant: the link event goes out before the peer's state is dropped
ReceiveCloseReports(c) ==
    /\ rpc[c] = "close"
    /\ running' = [running EXCEPT ![c] = FALSE]
    /\ link_down' = [link_down EXCEPT ![c] = TRUE]
    /\ ReceiveGoto(c, "drop")
    /\ UNCHANGED <<tables, control, queued, send_mutex, handles, spc>>

\* The thread stops the connection without notifying the send thread.
ReceiveClose(c) ==
    /\ rpc[c] = "close"
    /\ running' = [running EXCEPT ![c] = FALSE]
    /\ ReceiveGoto(c, "drop")
    /\ UNCHANGED <<tables, control, queued, send_mutex, spc, link_down, handles>>

\* runtime_drop_peer_state erases every session of the peer id, whichever
\* object it was opened on.
DropPeerState(c) ==
    /\ rpc[c] = "drop"
    /\ sessions' = {}
    /\ ReceiveGoto(c, "report")
    /\ UNCHANGED <<flags, control, impl_running, patient, connections, created,
                   next_sid, spc, link_down, handles>>

ReportLinkDownRunning(c) ==           \* mutant: not while the runtime stops
    /\ rpc[c] = "report"
    /\ link_down' = [link_down EXCEPT ![c] = impl_running]
    /\ ReceiveGoto(c, "ended")
    /\ UNCHANGED <<tables, flags, handles, control, spc>>

ReportLinkDown(c) ==
    /\ rpc[c] = "report"
    /\ link_down' = [link_down EXCEPT ![c] = TRUE]
    /\ ReceiveGoto(c, "ended")
    /\ UNCHANGED <<tables, flags, handles, control, spc>>

----------------------------------------------------------------------------
(* close_connection, in the application thread or the accept thread *)

StartClosing(t, c) == closing' = [closing EXCEPT ![t] = [conn |-> c, at |-> "flag"]]

CloseGoto(t, label) == closing' = [closing EXCEPT ![t].at = label]

\* running becomes false, without send_mutex ...
CloseFlag(t) ==
    /\ closing[t].at = "flag"
    /\ running' = [running EXCEPT ![closing[t].conn] = FALSE]
    /\ CloseGoto(t, "notify")
    /\ UNCHANGED <<tables, queued, send_mutex, spc, rpc, link_down, handles, app, reaper>>

\* ... the send thread is notified, without send_mutex, the socket is closed ...
CloseNotify(t) ==
    /\ closing[t].at = "notify"
    /\ spc' = Notify(closing[t].conn)
    /\ CloseGoto(t, "join_receive")
    /\ UNCHANGED <<tables, flags, rpc, link_down, handles, app, reaper>>

Joined(c, thread) == joinable' = [joinable EXCEPT ![c] = @ \ {thread}]

DetachReceive(t) ==                   \* mutant: the receive thread is not joined
    /\ closing[t].at = "join_receive"
    /\ Joined(closing[t].conn, "receive")
    /\ CloseGoto(t, "join_send")
    /\ UNCHANGED <<tables, flags, spc, rpc, link_down, early, app, reaper>>

\* ... and both threads are joined, unless the object has not been assigned them:
\* a receive thread that connect_peer has started but not yet assigned is skipped.
\* The last reference to the object is then the receive thread's own, or goes away
\* once that thread has ended: ~RuntimeConnection detaches it, or finds it ended,
\* and waits for nothing.
JoinReceive(t) ==
    /\ closing[t].at = "join_receive"
    /\ "receive" \in joinable[closing[t].conn] => rpc[closing[t].conn] = "ended"
    /\ Joined(closing[t].conn, "receive")
    /\ CloseGoto(t, "join_send")
    /\ UNCHANGED <<tables, flags, spc, rpc, link_down, early, app, reaper>>

JoinSend(t) ==
    /\ closing[t].at = "join_send"
    /\ "send" \in joinable[closing[t].conn] => spc[closing[t].conn] = "ended"
    /\ Joined(closing[t].conn, "send")
    /\ closing' = [closing EXCEPT ![t] = NotClosing]
    /\ UNCHANGED <<tables, flags, spc, rpc, link_down, early, app, reaper>>

CloseStep(t) == CloseFlag(t) \/ CloseNotify(t) \/ JoinReceive(t) \/ JoinSend(t)

----------------------------------------------------------------------------
(* The accept thread *)

ReapInPlace ==                        \* mutant: the entry stays in the table
    /\ reaper = "scan" /\ impl_running
    /\ connections # NoConn /\ ~running[connections]
    /\ StartClosing("reaper", connections)
    /\ reaper' = "close"
    /\ UNCHANGED <<tables, flags, spc, rpc, link_down, handles, app>>

\* reap_closed_connections takes a connection that has stopped out of the table.
Reap ==
    /\ reaper = "scan" /\ impl_running
    /\ connections # NoConn /\ ~running[connections]
    /\ connections' = NoConn
    /\ early' = early \cup {c \in {connections} : app \in Starting}
    /\ StartClosing("reaper", connections)
    /\ reaper' = "close"
    /\ UNCHANGED <<flags, impl_running, patient, sessions, created, next_sid,
                   spc, rpc, link_down, joinable, app>>

ReapDone ==
    /\ reaper = "close" /\ closing["reaper"] = NotClosing
    /\ reaper' = "scan"
    /\ UNCHANGED <<tables, flags, spc, rpc, link_down, handles, app, closing>>

AcceptThreadEnds ==
    /\ reaper = "scan" /\ ~impl_running
    /\ reaper' = "ended"
    /\ UNCHANGED <<tables, flags, spc, rpc, link_down, handles, app, closing>>

----------------------------------------------------------------------------
(* The application thread *)

ConnectPeerOver ==                    \* mutant: the entry is overwritten unseen
    /\ app = "idle" /\ impl_running
    /\ created < MaxConn
    /\ app' = "connect"
    /\ UNCHANGED <<tables, flags, spc, rpc, link_down, handles, reaper, closing>>

\* connect_peer looks for the peer id first: a running connection is returned
\* as it is, a stopped one is taken out of the table and closed.
ConnectPeer ==
    /\ app = "idle" /\ impl_running
    /\ created < MaxConn
    /\ connections # NoConn => ~running[connections]
    /\ patient => \A c \in 1..created : link_down[c]
    /\ app' = "connect"
    /\ connections' = NoConn
    /\ IF connections = NoConn THEN UNCHANGED closing ELSE StartClosing("app", connections)
    /\ UNCHANGED <<flags, impl_running, patient, sessions, created, next_sid,
                   spc, rpc, link_down, handles, reaper>>

\* The TCP connection is up and the object enters the table, or the connect fails.
Connected ==
    /\ app = "connect" /\ closing["app"] = NotClosing
    /\ \/ /\ created' = created + 1
          /\ running' = [running EXCEPT ![created + 1] = TRUE]
          /\ connections' = created + 1
          /\ app' = "start_send"
       \/ /\ app' = "idle"
          /\ UNCHANGED <<created, running, connections>>
    /\ UNCHANGED <<impl_running, patient, sessions, next_sid, queued, send_mutex, spc,
                   rpc, link_down, handles, reaper, closing>>

\* The send thread starts ...
StartSend ==
    /\ app = "start_send"
    /\ SendGoto(created, "loop")
    /\ app' = "start_receive"
    /\ UNCHANGED <<tables, flags, rpc, link_down, handles, reaper, closing>>

\* ... and is assigned to the object; the receive thread starts ...
StartReceive ==
    /\ app = "start_receive"
    /\ joinable' = [joinable EXCEPT ![created] = @ \cup {"send"}]
    /\ ReceiveGoto(created, "loop")
    /\ app' = "assign_receive"
    /\ UNCHANGED <<tables, flags, spc, link_down, early, reaper, closing>>

\* ... and is assigned too, while it may already run, or have stopped the connection.
AssignReceive ==
    /\ app = "assign_receive"
    /\ joinable' = [joinable EXCEPT ![created] = @ \cup {"receive"}]
    /\ app' = "idle"
    /\ UNCHANGED <<tables, flags, spc, rpc, link_down, early, reaper, closing>>

\* open_session looks the connection up and takes a session id ...
OpenSession ==
    /\ app = "idle" /\ connections # NoConn
    /\ next_sid <= MaxSid
    /\ app' = "open"
    /\ next_sid' = next_sid + 1
    /\ UNCHANGED <<flags, impl_running, patient, connections, sessions, created, spc,
                   rpc, link_down, handles, reaper, closing>>

\* ... and enters the session in another critical section. The object the
\* session is on is the last one created: only this thread connects.
InsertSession ==
    /\ app = "open"
    /\ sessions' = sessions \cup {[sid |-> next_sid - 1, on |-> created]}
    /\ app' = "idle"
    /\ UNCHANGED <<flags, impl_running, patient, connections, created, next_sid, spc,
                   rpc, link_down, handles, reaper, closing>>

Publish ==
    /\ app = "idle" /\ connections # NoConn
    /\ Enqueue(connections)
    /\ UNCHANGED <<tables, control, running, send_mutex, rpc, link_down, handles>>

ClosePeer ==
    /\ app = "idle" /\ connections # NoConn
    /\ connections' = NoConn
    /\ StartClosing("app", connections)
    /\ app' = "close"
    /\ UNCHANGED <<flags, impl_running, patient, sessions, created, next_sid,
                   spc, rpc, link_down, handles, reaper>>

ClosePeerReturns ==
    /\ app = "close" /\ closing["app"] = NotClosing
    /\ app' = "idle"
    /\ UNCHANGED <<tables, flags, spc, rpc, link_down, handles, reaper, closing>>

StopBegin ==
    /\ app = "idle" /\ impl_running
    /\ impl_running' = FALSE
    /\ app' = "join_accept"
    /\ UNCHANGED <<flags, patient, connections, sessions, created, next_sid, spc,
                   rpc, link_down, handles, reaper, closing>>

StopJoinAccept ==
    /\ app = "join_accept" /\ reaper = "ended"
    /\ app' = "clear"
    /\ UNCHANGED <<tables, flags, spc, rpc, link_down, handles, reaper, closing>>

StopClear ==
    /\ app = "clear"
    /\ connections' = NoConn /\ sessions' = {}
    /\ IF connections = NoConn THEN UNCHANGED closing ELSE StartClosing("app", connections)
    /\ app' = "stop"
    /\ UNCHANGED <<flags, impl_running, patient, created, next_sid, spc,
                   rpc, link_down, handles, reaper>>

StopReturns ==
    /\ app = "stop" /\ closing["app"] = NotClosing
    /\ app' = "stopped"
    /\ UNCHANGED <<tables, flags, spc, rpc, link_down, handles, reaper, closing>>

\* What the application thread does without being asked to.
AppStep == \/ Connected \/ StartSend \/ StartReceive \/ AssignReceive
           \/ InsertSession \/ ClosePeerReturns \/ StopJoinAccept \/ StopClear \/ StopReturns

SendThread(c) == SendLoop(c) \/ SendPredicate(c) \/ SendBlock(c) \/ SendTake(c) \/ SendWrite(c)
ReceiveEnd(c) == ReceiveClose(c) \/ DropPeerState(c) \/ ReportLinkDown(c)
AcceptThread  == Reap \/ ReapDone \/ AcceptThreadEnds

Next ==
    \/ \E c \in Conn : SendThread(c) \/ Reply(c) \/ ReceiveLeave(c) \/ ReceiveEnd(c)
    \/ \E t \in Closer : CloseStep(t)
    \/ AcceptThread
    \/ ConnectPeer \/ OpenSession \/ Publish \/ ClosePeer \/ StopBegin
    \/ AppStep

\* Every thread that can go on does; a receive thread leaves its loop once it
\* can see that it should. Nothing makes the application call the runtime, and
\* nothing makes the peer close the stream.
Fairness ==
    /\ \A c \in Conn : /\ WF_vars(SendThread(c))
                       /\ WF_vars(ReceiveEnd(c))
                       /\ WF_vars((~running[c] \/ ~impl_running) /\ ReceiveLeave(c))
    /\ \A t \in Closer : WF_vars(CloseStep(t))
    /\ WF_vars(AcceptThread) /\ WF_vars(AppStep)

Spec == Init /\ [][Next]_vars
FairSpec == Spec /\ Fairness

----------------------------------------------------------------------------
(* What the runtime promises about its connections *)

\* When stop() has returned the tables are empty and every thread of every
\* connection has ended, those of connections reaped or closed before included. One
\* thread may be left: the receive thread of an object that was reaped while
\* connect_peer was still starting it, and that thread is on its way out.
StoppedClean ==
    app = "stopped" =>
        /\ \A c \in Conn : spc[c] \in {"none", "ended"}
        /\ \A c \in Conn : rpc[c] \in {"none", "ended"} \/ (c \in early /\ ~running[c])
        /\ sessions = {} /\ connections = NoConn

\* Two connections to one peer id never run at the same time: connect_peer,
\* close_peer and the reaper leave no running object outside the table behind.
OneRunning == \A c, d \in Conn : running[c] /\ running[d] => c = d

\* No two threads close, and so join, the same connection object.
ExclusiveClose ==
    \A t, u \in Closer : t # u /\ closing[t].conn # NoConn => closing[t].conn # closing[u].conn

\* A session is not dropped while the connection it was opened on is running,
\* unless the application stops the runtime, provided that the application waits
\* for the link event before it connects again. It rests on the order in which
\* runtime_receive_loop drops the peer's state and then reports the link down.
LiveSessionKept ==
    [][\A s \in sessions :
           patient /\ s \notin sessions' => ~running[s.on] \/ app = "clear"]_vars

\* A connection that stops running, for whatever reason, is reported as down.
StoppedIsReported ==
    \A c \in Conn : (c <= created /\ ~running[c]) ~> link_down[c]

\* stop() returns (tests/runtime/test_runtime_v2.cpp calls it and goes on).
StopTerminates == app = "join_accept" ~> app = "stopped"
=============================================================================
