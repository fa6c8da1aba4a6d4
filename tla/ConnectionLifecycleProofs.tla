--------------------- MODULE ConnectionLifecycleProofs ---------------------
(***************************************************************************)
(* Machine-checked proofs about ConnectionLifecycle, for any number of     *)
(* connection objects, sessions and queued frames.                         *)
(***************************************************************************)
EXTENDS ConnectionLifecycle, TLAPS

\* Objects are created in order, and a table or a close holds only created ones.
Created ==
    /\ connections <= created
    /\ \A t \in Closer : closing[t].conn <= created
    /\ \A t \in Closer : closing[t].conn = NoConn <=> closing[t].at = "none"
    /\ \A c \in Conn : created < c =>
          spc[c] = "none" /\ rpc[c] = "none" /\ ~running[c] /\ ~link_down[c]
    /\ app = "connect" => created < MaxConn
    /\ app = "open" => 0 < created /\ 1 < next_sid
    /\ app \in Starting => 0 < created

\* An object that a thread closes is out of the table, and no other thread closes it.
OutOfTable ==
    /\ \A t \in Closer : closing[t].conn # NoConn => closing[t].conn # connections
    /\ ExclusiveClose

\* Where the application thread is says what it closes and what the tables hold.
AppPhase ==
    /\ closing["app"].at # "none" => app \in {"connect", "close", "stop"}
    /\ app \in {"connect", "close", "stop", "stopped"} => connections = NoConn
    /\ app \in {"clear", "stop", "stopped"} => reaper = "ended"
    /\ app \in {"stop", "stopped"} => sessions = {}
    /\ closing["reaper"].at # "none" => reaper = "close"

\* An object runs only in the table, or while the application is about to stop it;
\* one whose receive thread has left its loop has been stopped.
RunningKnown ==
    /\ \A c \in Conn : running[c] =>
          connections = c \/ (closing["app"].conn = c /\ closing["app"].at = "flag")
    /\ \A c \in Conn : rpc[c] \in {"drop", "report", "ended"} => ~running[c]

\* A thread that has not ended belongs to an object in the table or to one that
\* somebody is about to join, or is the receive thread of an object reaped early.
ThreadsKnown ==
    /\ \A c \in Conn :
          \/ spc[c] \in {"none", "ended"} /\ (rpc[c] \in {"none", "ended"} \/ c \in early)
          \/ connections = c
          \/ \E t \in Closer : closing[t].conn = c
    /\ \A t \in Closer : closing[t].at = "join_send" =>
          rpc[closing[t].conn] = "ended" \/ closing[t].conn \in early

\* While connect_peer starts an object's threads the object is in the table, or it has
\* been reaped: after its send thread had failed, or once its receive thread ran.
StartPhase ==
    /\ app \in Starting => connections = created \/ created \in early
    /\ app = "start_send" => connections = created /\ running[created] /\ spc[created] = "none"
    /\ app \in {"start_send", "start_receive"} => rpc[created] = "none"
    /\ app = "start_receive" => running[created] \/ spc[created] = "ended"

\* A thread that is not joinable has ended, or is the one connect_peer is starting.
Handles ==
    /\ \A c \in Conn : c <= created =>
          \/ "send" \in joinable[c] \/ spc[c] = "ended"
          \/ c = created /\ app \in {"start_send", "start_receive"}
    /\ \A c \in Conn : c <= created =>
          \/ "receive" \in joinable[c] \/ rpc[c] = "ended"
          \/ c = created /\ app \in Starting

\* Every object but the newest one of a patient application has been reported down,
\* which is the last thing its receive thread does.
Reported ==
    /\ \A c \in Conn : link_down[c] => rpc[c] = "ended"
    /\ patient => \A c \in Conn : c < created => link_down[c]
    /\ patient /\ app = "connect" => \A c \in Conn : c <= created => link_down[c]

\* The inductive invariant.
CInv == /\ TypeOK /\ Created /\ OutOfTable /\ AppPhase /\ RunningKnown /\ ThreadsKnown
        /\ StartPhase /\ Handles /\ Reported

\* Nothing has been created.
LEMMA InitCInv == Init => CInv
  BY LifecycleAssumption
  DEF Init, CInv, TypeOK, Created, OutOfTable, AppPhase, RunningKnown, ThreadsKnown,
      StartPhase, Handles, Reported, ExclusiveClose, Conn, NoConn, Closer, CloseSteps,
      Starting, NotClosing

\* close_connection begins: only the closing entry of the calling thread changes.
LEMMA StartClosingFacts ==
  ASSUME TypeOK, NEW t \in Closer, NEW c \in Conn, StartClosing(t, c)
  PROVE  /\ closing' \in [Closer -> [conn : Conn \cup {NoConn}, at : CloseSteps]]
         /\ closing'[t].conn = c /\ closing'[t].at = "flag"
         /\ \A u \in Closer \ {t} : closing'[u] = closing[u]
  BY DEF TypeOK, StartClosing, CloseSteps

\* close_connection goes on: it stays with its object.
LEMMA CloseGotoFacts ==
  ASSUME TypeOK, NEW t \in Closer, NEW label \in CloseSteps, CloseGoto(t, label)
  PROVE  /\ closing' \in [Closer -> [conn : Conn \cup {NoConn}, at : CloseSteps]]
         /\ closing'[t].conn = closing[t].conn /\ closing'[t].at = label
         /\ \A u \in Closer \ {t} : closing'[u] = closing[u]
  BY DEF TypeOK, CloseGoto

\* close_connection returns.
LEMMA EndClosingFacts ==
  ASSUME TypeOK, NEW t \in Closer, closing' = [closing EXCEPT ![t] = NotClosing]
  PROVE  /\ closing' \in [Closer -> [conn : Conn \cup {NoConn}, at : CloseSteps]]
         /\ closing'[t].conn = NoConn /\ closing'[t].at = "none"
         /\ \A u \in Closer \ {t} : closing'[u] = closing[u]
  BY DEF TypeOK, NotClosing, CloseSteps

\* A thread that is in close_connection has an object.
LEMMA ClosingConn ==
  ASSUME CInv, NEW t \in Closer, closing[t].at # "none"
  PROVE  closing[t].conn \in Conn /\ closing[t].conn # NoConn
  BY DEF CInv, TypeOK, Created

\* While connect_peer starts threads, there is an object.
LEMMA CreatedConn == CInv /\ app \in Starting => created \in Conn
  BY LifecycleAssumption DEF CInv, TypeOK, Created, Conn

\* The objects have numbers from 1 on.
LEMMA ConnFacts == NoConn = 0 /\ NoConn \notin Conn /\ \A c \in Conn : c \in Int /\ c > 0
  BY LifecycleAssumption DEF NoConn, Conn

\* A step of the send thread: running may only be switched off, by a thread that ends,
\* and a thread that has ended or does not exist does not move.
LEMMA SendThreadFacts ==
  ASSUME TypeOK, NEW c \in Conn, SendThread(c)
  PROVE  /\ UNCHANGED <<tables, control, rpc, link_down, handles>>
         /\ TypeOK'
         /\ \A d \in Conn : running'[d] => running[d]
         /\ \A d \in Conn : running[d] => running'[d] \/ spc'[d] = "ended"
         /\ \A d \in Conn : spc[d] \in {"none", "ended"} => spc'[d] = spc[d]
  <1>1. CASE SendLoop(c)
    BY <1>1 DEF SendLoop, SendGoto, TypeOK, tables, flags, handles, control
  <1>2. CASE SendPredicate(c)
    BY <1>2 DEF SendPredicate, SendGoto, TypeOK, tables, flags, handles, control
  <1>3. CASE SendBlock(c)
    BY <1>3 DEF SendBlock, SendGoto, TypeOK, tables, flags, handles, control
  <1>4. CASE SendTake(c)
    <2>1. /\ UNCHANGED <<tables, control, running, send_mutex, rpc, link_down, handles>>
          /\ spc' \in [Conn -> {"none", "loop", "predicate", "block", "waiting", "take",
                               "write", "ended"}]
          /\ \A d \in Conn : spc[d] \in {"none", "ended"} => spc'[d] = spc[d]
      BY <1>4 DEF SendTake, SendGoto, TypeOK
    <2>2. queued' \in [Conn -> 0..MaxQueued]
      <3>1. queued[c] \in 0..MaxQueued
        BY DEF TypeOK
      <3>2. queued[c] # 0 => queued[c] - 1 \in 0..MaxQueued
        BY <3>1, LifecycleAssumption
      <3> QED
        BY <1>4, <3>2 DEF SendTake, TypeOK
    <2> QED
      BY <2>1, <2>2 DEF TypeOK, tables, handles, control
  <1>5. CASE SendWrite(c)
    BY <1>5 DEF SendWrite, SendGoto, TypeOK, tables, flags, handles, control
  <1> QED
    BY <1>1, <1>2, <1>3, <1>4, <1>5 DEF SendThread

\* notify_all moves only a thread that waits.
LEMMA NotifyFacts ==
  ASSUME TypeOK, NEW c \in Conn, spc' = Notify(c)
  PROVE  /\ spc' \in [Conn -> {"none", "loop", "predicate", "block", "waiting", "take",
                              "write", "ended"}]
         /\ \A d \in Conn : spc[d] \in {"none", "ended"} => spc'[d] = spc[d]
  BY DEF TypeOK, Notify

\* Every step keeps the inductive invariant.
LEMMA NextCInv == CInv /\ [Next]_vars => CInv'
  <1> SUFFICES ASSUME CInv, [Next]_vars PROVE CInv'
    OBVIOUS
  <1> USE LifecycleAssumption DEF CInv, handles
  <1>1. CASE UNCHANGED vars
    BY <1>1
    DEF vars, tables, flags, handles, control, TypeOK, Created, OutOfTable, AppPhase, RunningKnown,
        ThreadsKnown, StartPhase, Handles, Reported, ExclusiveClose
  <1>2. ASSUME NEW c \in Conn, SendThread(c) PROVE CInv'
    <2>1. Created' /\ OutOfTable' /\ AppPhase' /\ Reported'
      BY <1>2, SendThreadFacts
      DEF tables, control, Created, OutOfTable, ExclusiveClose, AppPhase, Reported
    <2>2. RunningKnown' /\ ThreadsKnown'
      BY <1>2, SendThreadFacts DEF tables, control, RunningKnown, ThreadsKnown
    <2>3. StartPhase' /\ Handles'
      BY <1>2, CreatedConn, SendThreadFacts DEF tables, control, StartPhase, Handles, Starting
    <2> QED
      BY <1>2, <2>1, <2>2, <2>3, SendThreadFacts
  <1>3. ASSUME NEW c \in Conn, ReceiveLeave(c) PROVE CInv'
    BY <1>3
    DEF ReceiveLeave, ReceiveGoto, tables, flags, handles, control, TypeOK, Created, OutOfTable,
        ExclusiveClose, AppPhase, RunningKnown, ThreadsKnown, StartPhase, Handles, Reported
  <1>4. ASSUME NEW c \in Conn, ReceiveClose(c) PROVE CInv'
    BY <1>4
    DEF ReceiveClose, ReceiveGoto, tables, flags, handles, control, TypeOK, Created, OutOfTable,
        ExclusiveClose, AppPhase, RunningKnown, ThreadsKnown, StartPhase, Handles, Reported
  <1>5. ASSUME NEW c \in Conn, DropPeerState(c) PROVE CInv'
    BY <1>5
    DEF DropPeerState, ReceiveGoto, tables, flags, handles, control, TypeOK, Created, OutOfTable,
        ExclusiveClose, AppPhase, RunningKnown, ThreadsKnown, StartPhase, Handles, Reported
  <1>6. ASSUME NEW c \in Conn, ReportLinkDown(c) PROVE CInv'
    BY <1>6
    DEF ReportLinkDown, ReceiveGoto, tables, flags, handles, control, TypeOK, Created, OutOfTable,
        ExclusiveClose, AppPhase, RunningKnown, ThreadsKnown, StartPhase, Handles, Reported
  <1>7. ASSUME NEW t \in Closer, CloseFlag(t) PROVE CInv'
    <2>0. closing[t].conn \in Conn /\ closing[t].conn # NoConn
      BY <1>7, ClosingConn DEF CloseFlag
    <2> DEFINE c == closing[t].conn
    <2>1. /\ UNCHANGED <<impl_running, patient, connections, sessions, created, next_sid,
                         queued, send_mutex, rpc, link_down, joinable, early, app, reaper>>
          /\ closing' \in [Closer -> [conn : Conn \cup {NoConn}, at : CloseSteps]]
          /\ \A u \in Closer \ {t} : closing'[u] = closing[u]
          /\ closing[t].at = "flag" /\ closing'[t].conn = c /\ closing'[t].at = "notify"
          /\ spc' = spc /\ running' = [running EXCEPT ![c] = FALSE]
      BY <1>7, <2>0, CloseGotoFacts DEF CloseFlag, tables, flags, CloseSteps, TypeOK
    <2>10. TypeOK'
      BY <2>0, <2>1 DEF TypeOK, CloseSteps
    <2>11. Created'
      BY <2>0, <2>1 DEF Created
    <2>12. OutOfTable'
      BY <2>0, <2>1 DEF OutOfTable, ExclusiveClose
    <2>13. AppPhase'
      BY <2>0, <2>1 DEF AppPhase, Closer
    <2>14. RunningKnown'
      BY <2>0, <2>1 DEF RunningKnown, Closer, TypeOK
    <2>15. ThreadsKnown'
      BY <2>0, <2>1 DEF ThreadsKnown
    <2>16. Reported'
      BY <2>0, <2>1 DEF Reported
    <2>17. StartPhase'
      BY <2>0, <2>1 DEF StartPhase, Starting, RunningKnown, AppPhase, OutOfTable, TypeOK
    <2>18. Handles'
      BY <2>0, <2>1 DEF Handles, Starting
    <2> QED
      BY <2>10, <2>11, <2>12, <2>13, <2>14, <2>15, <2>16, <2>17, <2>18
  <1>8. ASSUME NEW t \in Closer, CloseNotify(t) PROVE CInv'
    <2>0. closing[t].conn \in Conn /\ closing[t].conn # NoConn
      BY <1>8, ClosingConn DEF CloseNotify
    <2> DEFINE c == closing[t].conn
    <2>1. /\ UNCHANGED <<impl_running, patient, connections, sessions, created, next_sid,
                         queued, send_mutex, rpc, link_down, joinable, early, app, reaper>>
          /\ closing' \in [Closer -> [conn : Conn \cup {NoConn}, at : CloseSteps]]
          /\ \A u \in Closer \ {t} : closing'[u] = closing[u]
          /\ closing[t].at = "notify" /\ closing'[t].conn = c /\ closing'[t].at = "join_receive"
          /\ running' = running
          /\ spc' \in [Conn -> {"none", "loop", "predicate", "block", "waiting", "take",
                               "write", "ended"}]
          /\ \A d \in Conn : spc[d] \in {"none", "ended"} => spc'[d] = spc[d]
      BY <1>8, <2>0, CloseGotoFacts, NotifyFacts DEF CloseNotify, tables, flags, CloseSteps, TypeOK
    <2>10. TypeOK'
      BY <2>0, <2>1 DEF TypeOK, CloseSteps
    <2>11. Created'
      BY <2>0, <2>1 DEF Created
    <2>12. OutOfTable'
      BY <2>0, <2>1 DEF OutOfTable, ExclusiveClose
    <2>13. AppPhase'
      BY <2>0, <2>1 DEF AppPhase, Closer
    <2>14. RunningKnown'
      BY <2>0, <2>1 DEF RunningKnown, Closer
    <2>15. ThreadsKnown'
      BY <2>0, <2>1 DEF ThreadsKnown
    <2>16. Reported'
      BY <2>0, <2>1 DEF Reported
    <2>17. StartPhase'
      BY <2>0, <2>1, CreatedConn DEF StartPhase, Starting
    <2>18. Handles'
      BY <2>0, <2>1 DEF Handles, Starting
    <2> QED
      BY <2>10, <2>11, <2>12, <2>13, <2>14, <2>15, <2>16, <2>17, <2>18
  <1>9. ASSUME NEW t \in Closer, JoinReceive(t) PROVE CInv'
    <2>0. closing[t].conn \in Conn /\ closing[t].conn # NoConn
      BY <1>9, ClosingConn DEF JoinReceive
    <2> DEFINE c == closing[t].conn
    <2>1. /\ UNCHANGED <<impl_running, patient, connections, sessions, created, next_sid,
                         queued, send_mutex, rpc, link_down, early, app, reaper>>
          /\ closing' \in [Closer -> [conn : Conn \cup {NoConn}, at : CloseSteps]]
          /\ \A u \in Closer \ {t} : closing'[u] = closing[u]
          /\ closing[t].at = "join_receive"
          /\ "receive" \in joinable[c] => rpc[c] = "ended"
          /\ joinable' = [joinable EXCEPT ![c] = @ \ {"receive"}]
          /\ closing'[t].conn = c /\ closing'[t].at = "join_send"
          /\ running' = running /\ spc' = spc
      BY <1>9, <2>0, CloseGotoFacts DEF JoinReceive, Joined, tables, flags, CloseSteps, TypeOK
    <2>2. rpc[c] = "ended" \/ c \in early
      BY <2>0, <2>1 DEF Handles, StartPhase, OutOfTable, Created
    <2>10. TypeOK'
      BY <2>0, <2>1 DEF TypeOK, CloseSteps
    <2>11. Created'
      BY <2>0, <2>1 DEF Created
    <2>12. OutOfTable'
      BY <2>0, <2>1 DEF OutOfTable, ExclusiveClose
    <2>13. AppPhase'
      BY <2>0, <2>1 DEF AppPhase, Closer
    <2>14. RunningKnown'
      BY <2>0, <2>1 DEF RunningKnown, Closer
    <2>15. ThreadsKnown'
      BY <2>0, <2>1, <2>2 DEF ThreadsKnown
    <2>16. Reported'
      BY <2>0, <2>1 DEF Reported
    <2>17. StartPhase'
      BY <2>0, <2>1 DEF StartPhase, Starting
    <2>18. Handles'
      BY <2>0, <2>1 DEF Handles, Starting
    <2> QED
      BY <2>10, <2>11, <2>12, <2>13, <2>14, <2>15, <2>16, <2>17, <2>18
  <1>10. ASSUME NEW t \in Closer, JoinSend(t) PROVE CInv'
    <2>0. closing[t].conn \in Conn /\ closing[t].conn # NoConn
      BY <1>10, ClosingConn DEF JoinSend
    <2> DEFINE c == closing[t].conn
    <2>1. /\ UNCHANGED <<impl_running, patient, connections, sessions, created, next_sid,
                         queued, send_mutex, rpc, link_down, early, app, reaper>>
          /\ closing' \in [Closer -> [conn : Conn \cup {NoConn}, at : CloseSteps]]
          /\ \A u \in Closer \ {t} : closing'[u] = closing[u]
          /\ closing[t].at = "join_send" /\ (rpc[c] = "ended" \/ c \in early)
          /\ "send" \in joinable[c] => spc[c] = "ended"
          /\ joinable' = [joinable EXCEPT ![c] = @ \ {"send"}]
          /\ closing'[t].conn = NoConn /\ closing'[t].at = "none"
          /\ running' = running /\ spc' = spc
      BY <1>10, <2>0, EndClosingFacts DEF JoinSend, Joined, tables, flags, ThreadsKnown
    <2>2. spc[c] = "ended"
      BY <2>0, <2>1
      DEF Handles, StartPhase, OutOfTable, Created, RunningKnown, AppPhase, Starting
    <2>10. TypeOK'
      BY <2>0, <2>1 DEF TypeOK, CloseSteps
    <2>11. Created'
      BY <2>0, <2>1, ConnFacts DEF Created, TypeOK, Closer
    <2>12. OutOfTable'
      BY <2>0, <2>1 DEF OutOfTable, ExclusiveClose
    <2>13. AppPhase'
      BY <2>0, <2>1 DEF AppPhase, Closer
    <2>14. RunningKnown'
      BY <2>0, <2>1 DEF RunningKnown, Closer
    <2>15. ThreadsKnown'
      BY <2>0, <2>1, <2>2 DEF ThreadsKnown
    <2>16. Reported'
      BY <2>0, <2>1 DEF Reported
    <2>17. StartPhase'
      BY <2>0, <2>1 DEF StartPhase, Starting
    <2>18. Handles'
      BY <2>0, <2>1 DEF Handles, Starting
    <2> QED
      BY <2>10, <2>11, <2>12, <2>13, <2>14, <2>15, <2>16, <2>17, <2>18
  <1>11. CASE Reap /\ connections # NoConn
    <2>0. "app" \in Closer /\ "reaper" \in Closer /\ connections \in Conn
      BY <1>11 DEF Closer, TypeOK
    <2>1. /\ UNCHANGED <<running, queued, send_mutex, spc, rpc, link_down, joinable, patient,
                         created, next_sid, impl_running, sessions, app>>
          /\ closing' \in [Closer -> [conn : Conn \cup {NoConn}, at : CloseSteps]]
          /\ closing'["reaper"].conn = connections /\ closing'["reaper"].at = "flag"
          /\ \A u \in Closer \ {"reaper"} : closing'[u] = closing[u]
          /\ connections' = NoConn
          /\ early' = early \cup {c \in {connections} : app \in Starting}
          /\ ~running[connections] /\ reaper = "scan" /\ reaper' = "close" /\ impl_running
          /\ closing["reaper"].at = "none" /\ closing["reaper"].conn = NoConn
      BY <1>11, <2>0, StartClosingFacts DEF Reap, flags, AppPhase, Created
    <2>10. TypeOK'
      BY <2>0, <2>1, ConnFacts DEF TypeOK, CloseSteps
    <2>11. Created'
      BY <2>0, <2>1, ConnFacts DEF Created, TypeOK, Closer
    <2>12. OutOfTable'
      BY <2>0, <2>1, ConnFacts DEF OutOfTable, ExclusiveClose, Closer, Created
    <2>13. AppPhase'
      BY <2>0, <2>1, ConnFacts DEF AppPhase, Closer
    <2>14. RunningKnown'
      BY <2>0, <2>1, ConnFacts DEF RunningKnown, Closer
    <2>15. ThreadsKnown'
      BY <2>0, <2>1, ConnFacts DEF ThreadsKnown, Closer
    <2>16. Reported'
      BY <2>0, <2>1, ConnFacts DEF Reported, Conn, TypeOK
    <2>17. StartPhase'
      BY <2>0, <2>1, ConnFacts DEF StartPhase, Starting
    <2>18. Handles'
      BY <2>0, <2>1, ConnFacts DEF Handles, Starting
    <2> QED
      BY <2>10, <2>11, <2>12, <2>13, <2>14, <2>15, <2>16, <2>17, <2>18
  <1>12. CASE ReapDone \/ AcceptThreadEnds
    BY <1>12
    DEF ReapDone, AcceptThreadEnds, tables, flags, TypeOK, Created, OutOfTable, NotClosing,
        ExclusiveClose, AppPhase, RunningKnown, ThreadsKnown, StartPhase, Handles, Reported
  <1>13. CASE ConnectPeer /\ connections # NoConn
    <2>0. "app" \in Closer /\ "reaper" \in Closer /\ connections \in Conn
      BY <1>13 DEF Closer, TypeOK
    <2>1. /\ UNCHANGED <<running, queued, send_mutex, spc, rpc, link_down, joinable, early,
                         patient, created, next_sid, impl_running, sessions, reaper>>
          /\ closing' \in [Closer -> [conn : Conn \cup {NoConn}, at : CloseSteps]]
          /\ closing'["app"].conn = connections /\ closing'["app"].at = "flag"
          /\ \A u \in Closer \ {"app"} : closing'[u] = closing[u]
          /\ connections' = NoConn
          /\ ~running[connections] /\ app = "idle" /\ app' = "connect" /\ created < MaxConn
          /\ closing["app"].at = "none" /\ closing["app"].conn = NoConn
          /\ patient => \A c \in 1..created : link_down[c]
      BY <1>13, <2>0, StartClosingFacts DEF ConnectPeer, flags, AppPhase, Created
    <2>10. TypeOK'
      BY <2>0, <2>1, ConnFacts DEF TypeOK, CloseSteps
    <2>11. Created'
      BY <2>0, <2>1, ConnFacts DEF Created, TypeOK, Closer
    <2>12. OutOfTable'
      BY <2>0, <2>1, ConnFacts DEF OutOfTable, ExclusiveClose, Closer, Created
    <2>13. AppPhase'
      BY <2>0, <2>1, ConnFacts DEF AppPhase, Closer
    <2>14. RunningKnown'
      BY <2>0, <2>1, ConnFacts DEF RunningKnown, Closer
    <2>15. ThreadsKnown'
      BY <2>0, <2>1, ConnFacts DEF ThreadsKnown, Closer
    <2>16. Reported'
      BY <2>0, <2>1, ConnFacts DEF Reported, Conn, TypeOK
    <2>17. StartPhase'
      BY <2>0, <2>1, ConnFacts DEF StartPhase, Starting
    <2>18. Handles'
      BY <2>0, <2>1, ConnFacts DEF Handles, Starting
    <2> QED
      BY <2>10, <2>11, <2>12, <2>13, <2>14, <2>15, <2>16, <2>17, <2>18
  <1>14. CASE Connected
    <2>0. /\ app = "connect" /\ closing["app"].at = "none"
          /\ closing["app"].conn = NoConn /\ connections = NoConn
          /\ UNCHANGED <<impl_running, patient, sessions, next_sid, queued, send_mutex, spc,
                         rpc, link_down, joinable, early, reaper, closing>>
      BY <1>14 DEF Connected, NotClosing, AppPhase
    <2>1. CASE app' = "idle" /\ UNCHANGED <<created, running, connections>>
      BY <2>0, <2>1, ConnFacts
      DEF TypeOK, Created, OutOfTable, ExclusiveClose, AppPhase, RunningKnown, ThreadsKnown,
          StartPhase, Handles, Starting, Reported
    <2>2. CASE \E c : /\ c = created + 1
                      /\ created' = c
                      /\ running' = [running EXCEPT ![c] = TRUE]
                      /\ connections' = c
                      /\ app' = "start_send"
      <3> PICK c : /\ c = created + 1
                   /\ created' = c
                   /\ running' = [running EXCEPT ![c] = TRUE]
                   /\ connections' = c
                   /\ app' = "start_send"
        BY <2>2
      <3>1. c \in Conn /\ c > created /\ created \in Nat
        BY <2>0 DEF TypeOK, Created, Conn
      <3>2. spc[c] = "none" /\ rpc[c] = "none" /\ ~running[c] /\ ~link_down[c]
        BY <3>1 DEF Created
      <3>3. TypeOK'
        BY <2>0, <3>1 DEF TypeOK, Conn, Starting
      <3>4. Created'
        <4>1. \A t \in Closer : closing[t].conn \in Int /\ closing[t].conn <= created
          BY ConnFacts DEF Created, TypeOK
        <4>2. \A d \in Conn : created' < d =>
                 spc'[d] = "none" /\ rpc'[d] = "none" /\ ~running'[d] /\ ~link_down'[d]
          BY <2>0, <3>1, ConnFacts DEF Created, TypeOK
        <4> QED
          BY <2>0, <3>1, <4>1, <4>2 DEF Created
      <3>5. OutOfTable'
        BY <2>0, <3>1, ConnFacts DEF OutOfTable, ExclusiveClose, Created, TypeOK
      <3>6. AppPhase'
        BY <2>0 DEF AppPhase
      <3>7. RunningKnown'
        BY <2>0, <3>1, <3>2, ConnFacts DEF RunningKnown, TypeOK
      <3>8. ThreadsKnown'
        BY <2>0, <3>1, <3>2, ConnFacts DEF ThreadsKnown, TypeOK
      <3>9. Reported'
        BY <2>0, <3>1, <3>2, ConnFacts DEF Reported, TypeOK
      <3>10. StartPhase'
        BY <2>0, <3>1, <3>2 DEF StartPhase, Starting, TypeOK
      <3>11. Handles'
        BY <2>0, <3>1, ConnFacts DEF Handles, Starting
      <3> QED
        BY <3>3, <3>4, <3>5, <3>6, <3>7, <3>8, <3>9, <3>10, <3>11
    <2> QED
      BY <1>14, <2>1, <2>2 DEF Connected
  <1>22. CASE StartSend \/ StartReceive \/ AssignReceive
    <2> DEFINE c == created
    <2>0. /\ c \in Conn /\ c = created /\ created' = created /\ app \in Starting
          /\ UNCHANGED <<impl_running, patient, connections, sessions, next_sid, running,
                         queued, send_mutex, link_down, early, reaper, closing>>
      BY <1>22 DEF StartSend, StartReceive, AssignReceive, tables, flags, Starting, TypeOK,
                   Created, Conn
    <2>1. \/ /\ app = "start_send" /\ app' = "start_receive" /\ spc[c] = "none"
             /\ spc' = [spc EXCEPT ![c] = "loop"] /\ rpc' = rpc /\ joinable' = joinable
             /\ connections = c
          \/ /\ app = "start_receive" /\ app' = "assign_receive" /\ rpc[c] = "none"
             /\ rpc' = [rpc EXCEPT ![c] = "loop"] /\ spc' = spc
             /\ joinable' = [joinable EXCEPT ![c] = @ \cup {"send"}]
             /\ connections = c \/ c \in early
          \/ /\ app = "assign_receive" /\ app' = "idle" /\ rpc' = rpc /\ spc' = spc
             /\ joinable' = [joinable EXCEPT ![c] = @ \cup {"receive"}]
      BY <1>22 DEF StartSend, StartReceive, AssignReceive, SendGoto, ReceiveGoto, StartPhase,
                   Starting
    <2> HIDE DEF c
    <2>10. TypeOK'
      BY <2>0, <2>1 DEF TypeOK, Starting
    <2>11. Created'
      BY <2>0, <2>1, ConnFacts DEF Created, TypeOK, Starting
    <2>12. OutOfTable'
      BY <2>0 DEF OutOfTable, ExclusiveClose
    <2>13. AppPhase'
      BY <2>0, <2>1 DEF AppPhase
    <2>14. RunningKnown'
      BY <2>0, <2>1 DEF RunningKnown, TypeOK
    <2>15. ThreadsKnown'
      <3>1. \A d \in Conn \ {c} : spc'[d] = spc[d] /\ rpc'[d] = rpc[d]
        BY <2>0, <2>1 DEF TypeOK
      <3>2. /\ \A d \in Conn : rpc[d] = "ended" => rpc'[d] = "ended"
            /\ spc'[c] = spc[c] \/ connections = c
            /\ rpc'[c] = rpc[c] \/ connections = c \/ c \in early
        BY <2>0, <2>1 DEF TypeOK
      <3>3. \A t \in Closer : closing[t].at = "join_send" => closing[t].conn \in Conn
        BY ClosingConn
      <3> QED
        BY <2>0, <3>1, <3>2, <3>3 DEF ThreadsKnown
    <2>16. Reported'
      BY <2>0, <2>1 DEF Reported, TypeOK
    <2>17. StartPhase'
      BY <2>0, <2>1 DEF StartPhase, TypeOK, Starting
    <2>18. Handles'
      BY <2>0, <2>1 DEF Handles, TypeOK, Starting
    <2> QED
      BY <2>10, <2>11, <2>12, <2>13, <2>14, <2>15, <2>16, <2>17, <2>18
  <1>15. CASE OpenSession
    BY <1>15
    DEF OpenSession, flags, TypeOK, Created, OutOfTable, ExclusiveClose, AppPhase, RunningKnown,
        ThreadsKnown, StartPhase, Handles, Starting, Reported, Conn, NoConn
  <1>16. CASE InsertSession
    <2>1. [sid |-> next_sid - 1, on |-> created] \in [sid : 1..MaxSid, on : Conn]
      BY <1>16 DEF InsertSession, TypeOK, Created, Conn
    <2>2. TypeOK'
      BY <1>16, <2>1 DEF InsertSession, flags, TypeOK
    <2> QED
      BY <1>16, <2>2
      DEF InsertSession, flags, Created, OutOfTable, ExclusiveClose, AppPhase, RunningKnown,
          ThreadsKnown, StartPhase, Handles, Starting, Reported
  <1>17. CASE Publish \/ \E c \in Conn : Reply(c)
    <2>0. /\ connections \in Conn /\ Enqueue(connections)
          /\ UNCHANGED <<tables, control, running, send_mutex, rpc, link_down, handles>>
      BY <1>17 DEF Publish, Reply, TypeOK
    <2>2. /\ spc' \in [Conn -> {"none", "loop", "predicate", "block", "waiting", "take",
                               "write", "ended"}]
          /\ \A d \in Conn : spc[d] \in {"none", "ended"} => spc'[d] = spc[d]
      BY <2>0, NotifyFacts DEF Enqueue
    <2>3. queued' \in [Conn -> 0..MaxQueued]
      BY <2>0 DEF Enqueue, TypeOK
    <2>4. TypeOK'
      BY <2>0, <2>2, <2>3 DEF TypeOK, tables, control
    <2>5. StartPhase' /\ Handles'
      BY <2>0, <2>2, CreatedConn DEF StartPhase, Handles, Starting, tables, control
    <2> QED
      BY <2>0, <2>2, <2>4, <2>5
      DEF tables, control, Created, OutOfTable, ExclusiveClose, AppPhase, RunningKnown,
          ThreadsKnown, Reported
  <1>18. CASE ClosePeer /\ connections # NoConn
    <2>0. "app" \in Closer /\ "reaper" \in Closer /\ connections \in Conn
      BY <1>18 DEF Closer, TypeOK
    <2>1. /\ UNCHANGED <<running, queued, send_mutex, spc, rpc, link_down, joinable, early,
                         patient, created, next_sid, impl_running, sessions, reaper>>
          /\ closing' \in [Closer -> [conn : Conn \cup {NoConn}, at : CloseSteps]]
          /\ closing'["app"].conn = connections /\ closing'["app"].at = "flag"
          /\ \A u \in Closer \ {"app"} : closing'[u] = closing[u]
          /\ connections' = NoConn
          /\ app = "idle" /\ app' = "close"
          /\ closing["app"].at = "none" /\ closing["app"].conn = NoConn
      BY <1>18, <2>0, StartClosingFacts DEF ClosePeer, flags, AppPhase, Created
    <2>10. TypeOK'
      BY <2>0, <2>1, ConnFacts DEF TypeOK, CloseSteps
    <2>11. Created'
      BY <2>0, <2>1, ConnFacts DEF Created, TypeOK, Closer
    <2>12. OutOfTable'
      BY <2>0, <2>1, ConnFacts DEF OutOfTable, ExclusiveClose, Closer, Created
    <2>13. AppPhase'
      BY <2>0, <2>1, ConnFacts DEF AppPhase, Closer
    <2>14. RunningKnown'
      BY <2>0, <2>1, ConnFacts DEF RunningKnown, Closer
    <2>15. ThreadsKnown'
      BY <2>0, <2>1, ConnFacts DEF ThreadsKnown, Closer
    <2>16. Reported'
      BY <2>0, <2>1, ConnFacts DEF Reported, Conn, TypeOK
    <2>17. StartPhase'
      BY <2>0, <2>1, ConnFacts DEF StartPhase, Starting
    <2>18. Handles'
      BY <2>0, <2>1, ConnFacts DEF Handles, Starting
    <2> QED
      BY <2>10, <2>11, <2>12, <2>13, <2>14, <2>15, <2>16, <2>17, <2>18
  <1>19. CASE StopBegin \/ ClosePeerReturns \/ StopJoinAccept \/ StopReturns
    <2> DEFINE Same == UNCHANGED <<patient, connections, sessions, created, next_sid, running,
                                   queued, send_mutex, spc, rpc, link_down, joinable, early,
                                   reaper, closing>>
               Moves == \/ app = "idle" /\ app' = "join_accept"
                        \/ app = "close" /\ app' = "idle" /\ closing["app"].at = "none"
                        \/ app = "join_accept" /\ app' = "clear" /\ reaper = "ended"
                        \/ app = "stop" /\ app' = "stopped" /\ closing["app"].at = "none"
    <2>1. Same /\ impl_running' \in BOOLEAN /\ Moves
      <3>1. CASE StopBegin
        BY <3>1 DEF StopBegin, flags
      <3>2. CASE ClosePeerReturns
        BY <3>2 DEF ClosePeerReturns, tables, flags, TypeOK, NotClosing
      <3>3. CASE StopJoinAccept
        BY <3>3 DEF StopJoinAccept, tables, flags, TypeOK
      <3>4. CASE StopReturns
        BY <3>4 DEF StopReturns, tables, flags, TypeOK, NotClosing
      <3> QED
        BY <1>19, <3>1, <3>2, <3>3, <3>4
    <2>10. TypeOK'
      BY <2>1 DEF TypeOK, CloseSteps
    <2>11. Created'
      BY <2>1 DEF Created, Starting
    <2>12. OutOfTable'
      BY <2>1 DEF OutOfTable, ExclusiveClose
    <2>13. AppPhase'
      BY <2>1 DEF AppPhase
    <2>14. RunningKnown'
      BY <2>1 DEF RunningKnown
    <2>15. ThreadsKnown'
      BY <2>1 DEF ThreadsKnown
    <2>16. Reported'
      BY <2>1 DEF Reported
    <2>17. StartPhase'
      BY <2>1 DEF StartPhase, Starting
    <2>18. Handles'
      BY <2>1 DEF Handles, Starting
    <2> QED
      BY <2>10, <2>11, <2>12, <2>13, <2>14, <2>15, <2>16, <2>17, <2>18
  <1>20. CASE StopClear /\ connections # NoConn
    <2>0. "app" \in Closer /\ "reaper" \in Closer /\ connections \in Conn
      BY <1>20 DEF Closer, TypeOK
    <2>1. /\ UNCHANGED <<running, queued, send_mutex, spc, rpc, link_down, joinable, early,
                         patient, created, next_sid, impl_running, reaper>>
          /\ closing' \in [Closer -> [conn : Conn \cup {NoConn}, at : CloseSteps]]
          /\ closing'["app"].conn = connections /\ closing'["app"].at = "flag"
          /\ \A u \in Closer \ {"app"} : closing'[u] = closing[u]
          /\ connections' = NoConn
          /\ app = "clear" /\ app' = "stop" /\ sessions' = {}
          /\ closing["app"].at = "none" /\ closing["app"].conn = NoConn
      BY <1>20, <2>0, StartClosingFacts DEF StopClear, flags, AppPhase, Created
    <2>10. TypeOK'
      BY <2>0, <2>1, ConnFacts DEF TypeOK, CloseSteps
    <2>11. Created'
      BY <2>0, <2>1, ConnFacts DEF Created, TypeOK, Closer
    <2>12. OutOfTable'
      BY <2>0, <2>1, ConnFacts DEF OutOfTable, ExclusiveClose, Closer, Created
    <2>13. AppPhase'
      BY <2>0, <2>1, ConnFacts DEF AppPhase, Closer
    <2>14. RunningKnown'
      BY <2>0, <2>1, ConnFacts DEF RunningKnown, Closer
    <2>15. ThreadsKnown'
      BY <2>0, <2>1, ConnFacts DEF ThreadsKnown, Closer
    <2>16. Reported'
      BY <2>0, <2>1, ConnFacts DEF Reported, Conn, TypeOK
    <2>17. StartPhase'
      BY <2>0, <2>1, ConnFacts DEF StartPhase, Starting
    <2>18. Handles'
      BY <2>0, <2>1, ConnFacts DEF Handles, Starting
    <2> QED
      BY <2>10, <2>11, <2>12, <2>13, <2>14, <2>15, <2>16, <2>17, <2>18
  <1>21. CASE (ConnectPeer \/ StopClear) /\ connections = NoConn
    <2>1. /\ UNCHANGED <<running, queued, send_mutex, spc, rpc, link_down, joinable, early,
                         patient, created, next_sid, impl_running, connections, reaper, closing>>
          /\ \/ /\ app = "idle" /\ app' = "connect" /\ created < MaxConn /\ sessions' = sessions
                /\ patient => \A c \in 1..created : link_down[c]
             \/ /\ app = "clear" /\ app' = "stop" /\ sessions' = {}
      BY <1>21 DEF ConnectPeer, StopClear, flags
    <2>10. TypeOK'
      BY <2>1, <1>21, ConnFacts DEF TypeOK, CloseSteps
    <2>11. Created'
      BY <2>1, <1>21, ConnFacts DEF Created, Starting
    <2>12. OutOfTable'
      BY <2>1, <1>21, ConnFacts DEF OutOfTable, ExclusiveClose
    <2>13. AppPhase'
      BY <2>1, <1>21, ConnFacts DEF AppPhase, Closer
    <2>14. RunningKnown'
      BY <2>1, <1>21, ConnFacts DEF RunningKnown
    <2>15. ThreadsKnown'
      BY <2>1, <1>21, ConnFacts DEF ThreadsKnown
    <2>16. Reported'
      BY <2>1, <1>21, ConnFacts DEF Reported, Conn, TypeOK
    <2>17. StartPhase'
      BY <2>1, <1>21, ConnFacts DEF StartPhase, Starting
    <2>18. Handles'
      BY <2>1, <1>21, ConnFacts DEF Handles, Starting
    <2> QED
      BY <2>10, <2>11, <2>12, <2>13, <2>14, <2>15, <2>16, <2>17, <2>18
  <1> QED
    BY <1>1, <1>2, <1>3, <1>4, <1>5, <1>6, <1>7, <1>8, <1>9, <1>10, <1>11, <1>12, <1>13,
       <1>14, <1>15, <1>16, <1>17, <1>18, <1>19, <1>20, <1>21, <1>22
    DEF Next, ReceiveEnd, CloseStep, AcceptThread, AppStep, Reap, ClosePeer
\* Every reachable state of the connection tables and threads is well typed.
THEOREM TypeCorrect == Spec => []TypeOK
  <1>1. CInv => TypeOK
    BY DEF CInv
  <1> QED
    BY InitCInv, NextCInv, <1>1, PTL DEF Spec

\* No two threads are ever in close_connection, and so join the threads, of the same
\* connection object: connect_peer, close_peer, stop() and the reaper each take an object
\* out of the table before they close it.
THEOREM ExclusiveCloseThm == Spec => []ExclusiveClose
  <1>1. CInv => ExclusiveClose
    BY DEF CInv, OutOfTable
  <1> QED
    BY InitCInv, NextCInv, <1>1, PTL DEF Spec

\* At most one connection of a peer id is running, however connect_peer, close_peer,
\* the reaper and the ends of its threads interleave.
THEOREM OneRunningThm == Spec => []OneRunning
  <1>1. CInv => OneRunning
    BY ConnFacts DEF CInv, OneRunning, RunningKnown, AppPhase
  <1> QED
    BY InitCInv, NextCInv, <1>1, PTL DEF Spec

\* When stop() has returned the connection and session tables are empty and every send
\* and receive thread there ever was has ended, but for the receive thread of a connection
\* that was reaped while connect_peer was starting it: close_connection skips that thread
\* if connect_peer has not assigned it yet.
THEOREM StoppedCleanThm == Spec => []StoppedClean
  <1>1. ASSUME CInv, app = "stopped" PROVE \A t \in Closer : closing[t].conn = NoConn
    BY <1>1 DEF CInv, AppPhase, Created, Closer
  <1>2. CInv => StoppedClean
    BY <1>1, ConnFacts DEF CInv, StoppedClean, AppPhase, ThreadsKnown, RunningKnown
  <1> QED
    BY InitCInv, NextCInv, <1>2, PTL DEF Spec

\* If the application waits for the link event of a connection before it connects again,
\* no receive thread ever drops a session of a connection that is running: the thread
\* of an older connection has dropped the peer's state before it reported.
THEOREM LiveSessionKeptThm == Spec => LiveSessionKept
  <1> DEFINE Kept == \A s \in sessions :
                        patient /\ s \notin sessions' => ~running[s.on] \/ app = "clear"
  <1>1. ASSUME CInv, [Next]_vars PROVE Kept
    <2>1. ASSUME NEW c \in Conn, DropPeerState(c), patient, NEW s \in sessions
          PROVE  ~running[s.on]
      <3>1. rpc[c] = "drop" /\ ~running[c] /\ ~link_down[c]
        BY <1>1, <2>1 DEF DropPeerState, CInv, RunningKnown, Reported
      <3>2. s.on \in Conn
        BY <1>1 DEF CInv, TypeOK
      <3>3. ASSUME running[s.on] PROVE s.on <= created /\ ~link_down[s.on]
        BY <1>1, <3>2, <3>3, ConnFacts DEF CInv, TypeOK, Created, RunningKnown, Reported
      <3>4. c <= created
        BY <1>1, <3>1, ConnFacts DEF CInv, TypeOK, Created
      <3>5. created \in Int /\ \A d \in Conn : d < created => link_down[d]
        BY <1>1, <2>1, LifecycleAssumption DEF CInv, TypeOK, Reported
      <3>6. running[s.on] => s.on = c
        BY <3>1, <3>2, <3>3, <3>4, <3>5, ConnFacts
      <3> QED
        BY <3>1, <3>6
    <2>2. \/ sessions \subseteq sessions'
          \/ app = "clear"
          \/ \E c \in Conn : DropPeerState(c)
      BY <1>1
      DEF Next, SendThread, ReceiveEnd, CloseStep, AcceptThread, AppStep, vars, tables,
          SendLoop, SendPredicate, SendBlock, SendTake, SendWrite, ReceiveLeave, ReceiveClose,
          ReportLinkDown, Reply, CloseFlag, CloseNotify, JoinReceive, JoinSend, Reap, ReapDone,
          AcceptThreadEnds, ConnectPeer, Connected, StartSend, StartReceive,
          AssignReceive, OpenSession, InsertSession, Publish,
          ClosePeer, ClosePeerReturns, StopBegin, StopJoinAccept, StopClear, StopReturns
    <2> QED
      BY <2>1, <2>2
  <1>2. CInv /\ [Next]_vars => [Kept]_vars
    BY <1>1
  <1> QED
    BY InitCInv, NextCInv, <1>2, PTL DEF Spec, LiveSessionKept
=============================================================================
