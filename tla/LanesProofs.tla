---------------------------- MODULE LanesProofs ----------------------------
(***************************************************************************)
(* Machine-checked proofs about Lanes, for any number of lane connections. *)
(***************************************************************************)
EXTENDS Lanes, TLAPS

\* A control receive thread leaves its loop by erasing the session: the lane it
\* closes afterwards belongs to no session any more.
ControlSession == \A e \in End : session[e] <=> ctl[e] = "loop"

\* A call of bind_lossy_lane that is about to connect has a lane left to
\* connect; one that is about to send has connected it.
BinderLane ==
    /\ binder = "connect" => created < MaxLane
    /\ binder = "send" => created # NoLane

\* The inductive invariant.
LInv == TypeOK /\ LaneTables /\ ControlSession /\ BinderLane

\* The tables are consistent before any lane is bound.
LEMMA InitLInv == Init => LInv
  BY LanesAssumption DEF Init, LInv, TypeOK, LaneTables, ControlSession, BinderLane, Lane, NoLane, End

\* close_peer for the lane's peer id keeps the tables consistent: it takes the
\* lane out of lane_owner and of the session together.
LEMMA CloseLaneTables ==
  ASSUME LInv, NEW t, CloseLane(t), session' = session
  PROVE  LaneTables'
  BY DEF LInv, TypeOK, LaneTables, CloseLane, Lane, NoLane, End

\* close_peer for the lane's peer id keeps the types.
LEMMA CloseLaneType ==
  ASSUME LInv, NEW t \in {"binder", "closer"}, CloseLane(t)
  PROVE  /\ table' \in Lane \cup {NoLane}
         /\ joining' \in [{"binder", "closer"} -> Lane \cup {NoLane}]
         /\ lossy' \in [client : BOOLEAN, server : Lane \cup {NoLane}]
         /\ owner' \in [client : BOOLEAN, server : SUBSET Lane]
         /\ running' \in [End -> [Lane -> BOOLEAN]]
         /\ up' \in [Lane -> BOOLEAN]
  <1> USE DEF LInv, TypeOK
  <1>1. CASE table = NoLane
    BY <1>1 DEF CloseLane
  <1>2. CASE table \in Lane
    <2>1. table # NoLane
      BY <1>2 DEF Lane, NoLane
    <2>2. /\ up' = [up EXCEPT ![table] = FALSE]
          /\ running' = [running EXCEPT !["client"][table] = FALSE]
      BY <2>1 DEF CloseLane
    <2>4. up' \in [Lane -> BOOLEAN]
      BY <2>2
    <2>5. running' \in [End -> [Lane -> BOOLEAN]]
      BY <2>2 DEF End
    <2>3. lossy' \in [client : BOOLEAN, server : Lane \cup {NoLane}]
      BY <1>2, <2>1 DEF CloseLane, End
    <2> QED
      BY <1>2, <2>1, <2>3, <2>4, <2>5 DEF CloseLane
  <1> QED
    BY <1>1, <1>2

\* No step of either runtime makes the session's lane and lane_owner disagree.
LEMMA NextLaneTables == LInv /\ [Next]_vars => LaneTables'
  <1> SUFFICES ASSUME LInv, [Next]_vars PROVE LaneTables'
    OBVIOUS
  <1> USE DEF LInv, LaneTables
  <1>1. CASE UNCHANGED vars
    BY <1>1 DEF vars
  <1>2. CASE BindCheck \/ BindSend \/ BindPoll \/ BindReturn
    BY <1>2 DEF BindCheck, BindSend, BindPoll, BindReturn
  <1>3. CASE BindConnect
    BY <1>3 DEF BindConnect, TypeOK
  <1>4. CASE BindClose
    BY <1>4, CloseLaneTables DEF BindClose
  <1>5. CASE ClosePeer
    BY <1>5 DEF ClosePeer, TypeOK
  <1>6. CASE ClosePeerJoin \/ ClosePeerReturn
    BY <1>6 DEF ClosePeerJoin, ClosePeerReturn
  <1>7. CASE ClosePeerLane
    BY <1>7, CloseLaneTables DEF ClosePeerLane
  <1>8. ASSUME NEW l \in Lane, LaneThread(l) PROVE LaneTables'
    <2>1. CASE HandleLaneBind(l)
      BY <2>1 DEF HandleLaneBind, TypeOK, Lane, NoLane
    <2>2. CASE SendLaneReady(l)
      BY <2>2 DEF SendLaneReady
    <2>3. CASE HandleLaneReady(l)
      BY <2>3 DEF HandleLaneReady, TypeOK
    <2>4. CASE ClientLaneDrop(l)
      BY <2>4 DEF ClientLaneDrop, TypeOK
    <2>5. CASE ServerLaneDrop(l)
      BY <2>5 DEF ServerLaneDrop, TypeOK, Lane, NoLane
    <2>6. CASE \E e \in End : LaneLeave(e, l)
      BY <2>6 DEF LaneLeave
    <2> QED
      BY <1>8, <2>1, <2>2, <2>3, <2>4, <2>5, <2>6 DEF LaneThread
  <1>9. ASSUME NEW l \in Lane, LaneLost(l) PROVE LaneTables'
    BY <1>9 DEF LaneLost
  <1>10. ASSUME NEW e \in End, ControlDrop(e) PROVE LaneTables'
    BY <1>10 DEF ControlDrop, TypeOK, End
  <1>11. ASSUME NEW e \in End, ControlCloseLane(e) PROVE LaneTables'
    BY <1>11 DEF ControlCloseLane, ControlSession, TypeOK, End
  <1>12. CASE Reap \/ ControlLost
    BY <1>12 DEF Reap, ControlLost
  <1> QED
    BY <1>1, <1>2, <1>3, <1>4, <1>5, <1>6, <1>7, <1>8, <1>9, <1>10, <1>11, <1>12
       DEF Next, Binder, CloserStep

\* A session is erased in the step in which its control receive thread leaves
\* the loop, and only then.
LEMMA NextControlSession == LInv /\ [Next]_vars => ControlSession'
  <1> SUFFICES ASSUME LInv, [Next]_vars PROVE ControlSession'
    OBVIOUS
  <1> USE DEF LInv, ControlSession
  <1>1. ASSUME NEW e \in End, ControlDrop(e) PROVE ControlSession'
    BY <1>1 DEF ControlDrop, TypeOK, End
  <1>2. ASSUME NEW e \in End, ControlCloseLane(e) PROVE ControlSession'
    BY <1>2 DEF ControlCloseLane, TypeOK, End
  <1>3. CASE UNCHANGED <<session, ctl>>
    BY <1>3
  <1>4. ASSUME Binder \/ CloserStep PROVE UNCHANGED <<session, ctl>>
    BY <1>4 DEF Binder, CloserStep, BindConnect, BindSend, BindPoll, BindClose,
         BindReturn, ClosePeerJoin, ClosePeerLane, ClosePeerReturn
  <1>5. ASSUME NEW l \in Lane, LaneThread(l) \/ LaneLost(l)
        PROVE  UNCHANGED <<session, ctl>>
    BY <1>5 DEF LaneThread, LaneLost, HandleLaneBind, SendLaneReady, HandleLaneReady,
         ClientLaneDrop, ServerLaneDrop, LaneLeave
  <1>6. ASSUME BindCheck \/ ClosePeer \/ Reap \/ ControlLost \/ UNCHANGED vars
        PROVE  UNCHANGED <<session, ctl>>
    BY <1>6 DEF BindCheck, ClosePeer, Reap, ControlLost, vars
  <1> QED
    BY <1>1, <1>2, <1>3, <1>4, <1>5, <1>6 DEF Next

\* bind_lossy_lane keeps count of its lanes.
LEMMA NextBinderLane == LInv /\ [Next]_vars => BinderLane'
  <1> SUFFICES ASSUME LInv, [Next]_vars PROVE BinderLane'
    OBVIOUS
  <1> USE DEF LInv, BinderLane
  <1>1. CASE BindCheck
    BY <1>1 DEF BindCheck
  <1>2. CASE BindConnect
    BY <1>2, LanesAssumption DEF BindConnect, TypeOK, Lane, NoLane
  <1>3. CASE BindSend \/ BindPoll \/ BindClose \/ BindReturn
    BY <1>3 DEF BindSend, BindPoll, BindClose, BindReturn
  <1>4. CASE UNCHANGED <<binder, created>>
    BY <1>4
  <1>5. ASSUME ClosePeer \/ CloserStep \/ Reap \/ ControlLost \/ UNCHANGED vars
        PROVE  UNCHANGED <<binder, created>>
    BY <1>5 DEF ClosePeer, CloserStep, ClosePeerJoin, ClosePeerLane, ClosePeerReturn,
         Reap, ControlLost, app, vars
  <1>6. ASSUME NEW l \in Lane, LaneThread(l) \/ LaneLost(l)
        PROVE  UNCHANGED <<binder, created>>
    BY <1>6 DEF LaneThread, LaneLost, HandleLaneBind, SendLaneReady, HandleLaneReady,
         ClientLaneDrop, ServerLaneDrop, LaneLeave, app
  <1>7. ASSUME NEW e \in End, ControlDrop(e) \/ ControlCloseLane(e)
        PROVE  UNCHANGED <<binder, created>>
    BY <1>7 DEF ControlDrop, ControlCloseLane, app
  <1> QED
    BY <1>1, <1>2, <1>3, <1>4, <1>5, <1>6, <1>7 DEF Next, Binder

\* Every step of either runtime keeps the tables, threads and messages within
\* their types, and gives a lane a receive thread at each end exactly when it
\* is connected.
LEMMA NextTypeOK == LInv /\ [Next]_vars => TypeOK'
  <1> SUFFICES ASSUME LInv, [Next]_vars PROVE TypeOK'
    OBVIOUS
  <1> USE LanesAssumption DEF LInv, TypeOK, threads, links, msgs, app
  <1>1. CASE UNCHANGED vars
    BY <1>1 DEF vars
  <1>2. CASE BindCheck \/ BindPoll \/ BindReturn
    BY <1>2 DEF BindCheck, BindPoll, BindReturn
  <1>3. CASE BindConnect
    <2>1. CASE created' = created
      <3>1. created + 1 # created
        BY DEF Lane, NoLane
      <3>2. UNCHANGED <<created, table, up, running, thread, owner>> /\ binder' = "idle"
        BY <1>3, <2>1, <3>1 DEF BindConnect
      <3> QED
        BY <1>3, <3>2 DEF BindConnect
    <2>2. CASE created' = created + 1
      <3>1. created + 1 \in Lane /\ created \in Nat
        BY <1>3, <2>2 DEF BindConnect, BinderLane, Lane, NoLane
      <3>2. /\ up' \in [Lane -> BOOLEAN]
            /\ owner' \in [client : BOOLEAN, server : SUBSET Lane]
            /\ table' \in Lane \cup {NoLane} /\ created' \in Lane \cup {NoLane}
            /\ binder' \in {"idle", "connect", "send", "poll", "close", "join"}
        BY <1>3, <2>2, <3>1 DEF BindConnect
      <3>3. running' \in [End -> [Lane -> BOOLEAN]]
        <4>1. running' = [e \in End |-> [running[e] EXCEPT ![created + 1] = TRUE]]
          BY <1>3, <2>2, <3>1 DEF BindConnect
        <4> QED
          BY <3>1, <4>1
      <3>4. thread' = [e \in End |-> [thread[e] EXCEPT ![created + 1] = "loop"]]
        BY <1>3, <2>2, <3>1 DEF BindConnect
      <3>5. thread' \in [End -> [Lane -> {"none", "loop", "reply", "drop", "ended"}]]
        BY <3>1, <3>4
      <3>6. ASSUME NEW e \in End, NEW l \in Lane
            PROVE  thread'[e][l] = "none" <=> l > created'
        BY <2>2, <3>1, <3>4 DEF Lane
      <3> QED
        BY <1>3, <3>2, <3>3, <3>5, <3>6 DEF BindConnect
    <2> QED
      BY <1>3, <2>1, <2>2 DEF BindConnect
  <1>4. CASE BindSend
    BY <1>4 DEF BindSend, BinderLane
  <1>5. CASE BindClose
    BY <1>5, CloseLaneType DEF BindClose
  <1>6. CASE ClosePeer
    BY <1>6 DEF ClosePeer
  <1>7. CASE ClosePeerJoin \/ ClosePeerReturn
    BY <1>7 DEF ClosePeerJoin, ClosePeerReturn
  <1>8. CASE ClosePeerLane
    BY <1>8, CloseLaneType DEF ClosePeerLane
  <1>9. ASSUME NEW l \in Lane, LaneThread(l) PROVE TypeOK'
    <2>1. CASE HandleLaneBind(l)
      BY <2>1 DEF HandleLaneBind, End
    <2>2. CASE SendLaneReady(l)
      BY <1>9, <2>2 DEF SendLaneReady, End
    <2>3. CASE HandleLaneReady(l)
      BY <2>3 DEF HandleLaneReady
    <2>4. CASE ClientLaneDrop(l)
      BY <2>4 DEF ClientLaneDrop, End
    <2>5. CASE ServerLaneDrop(l)
      BY <2>5 DEF ServerLaneDrop, End
    <2>6. ASSUME NEW e \in End, LaneLeave(e, l) PROVE TypeOK'
      BY <2>6 DEF LaneLeave
    <2> QED
      BY <1>9, <2>1, <2>2, <2>3, <2>4, <2>5, <2>6 DEF LaneThread
  <1>10. ASSUME NEW l \in Lane, LaneLost(l) PROVE TypeOK'
    BY <1>10 DEF LaneLost
  <1>11. ASSUME NEW e \in End, ControlDrop(e) PROVE TypeOK'
    <2>1. session' \in [End -> BOOLEAN]
      BY <1>11 DEF ControlDrop
    <2>2. ctl' \in [End -> {"loop", "close_lane", "ended"}]
      BY <1>11 DEF ControlDrop
    <2>3. /\ lossy' \in [client : BOOLEAN, server : Lane \cup {NoLane}]
          /\ owner' \in [client : BOOLEAN, server : SUBSET Lane]
      <3>1. CASE /\ lossy' = [lossy EXCEPT !.client = FALSE]
                 /\ owner' = [owner EXCEPT !.client = @ /\ ~lossy.client]
        <4>1. (owner.client /\ ~lossy.client) \in BOOLEAN
          OBVIOUS
        <4> QED
          BY <3>1, <4>1
      <3>2. CASE /\ lossy' = lossy
                 /\ owner' = [owner EXCEPT !.server = @ \ {lossy.server}]
        <4>1. owner.server \ {lossy.server} \in SUBSET Lane
          OBVIOUS
        <4> QED
          BY <3>2, <4>1
      <3> QED
        BY <1>11, <3>1, <3>2 DEF ControlDrop
    <2> QED
      BY <1>11, <2>1, <2>2, <2>3 DEF ControlDrop
  <1>12. ASSUME NEW e \in End, ControlCloseLane(e) PROVE TypeOK'
    <2>1. ctl' \in [End -> {"loop", "close_lane", "ended"}]
      BY <1>12 DEF ControlCloseLane
    <2>2. lossy' \in [client : BOOLEAN, server : Lane \cup {NoLane}]
      BY <1>12 DEF ControlCloseLane
    <2>3. up' \in [Lane -> BOOLEAN] /\ running' \in [End -> [Lane -> BOOLEAN]]
      <3> DEFINE l == IF e = "client" THEN table ELSE lossy.server
      <3>1. CASE l = NoLane
        BY <1>12, <3>1 DEF ControlCloseLane
      <3>2. CASE l # NoLane
        <4>1. l \in Lane
          BY <3>2
        <4>2. /\ up' = [up EXCEPT ![l] = FALSE]
              /\ running' = [running EXCEPT ![e][l] = FALSE]
          BY <1>12, <3>2 DEF ControlCloseLane
        <4> HIDE DEF l
        <4>3. up' \in [Lane -> BOOLEAN]
          BY <4>1, <4>2
        <4>4. running' \in [End -> [Lane -> BOOLEAN]]
          BY <4>1, <4>2
        <4> QED
          BY <4>3, <4>4
      <3> QED
        BY <3>1, <3>2
    <2> QED
      BY <1>12, <2>1, <2>2, <2>3 DEF ControlCloseLane
  <1>13. CASE Reap
    BY <1>13 DEF Reap
  <1>14. CASE ControlLost
    BY <1>14 DEF ControlLost
  <1> QED
    BY <1>1, <1>2, <1>3, <1>4, <1>5, <1>6, <1>7, <1>8, <1>9, <1>10, <1>11, <1>12, <1>13,
       <1>14
       DEF Next, Binder, CloserStep

\* LInv holds in every reachable state of the two runtimes.
THEOREM LanesInvariant == Spec => []LInv
  <1>1. LInv /\ [Next]_vars => LInv'
    BY NextTypeOK, NextLaneTables, NextControlSession, NextBinderLane DEF LInv
  <1> QED
    BY <1>1, InitLInv, PTL DEF Spec

\* The state of both ends of a lane stays within its types, however many lanes
\* bind_lossy_lane connects one after the other.
THEOREM TypeCorrect == Spec => []TypeOK
  BY LanesInvariant, PTL DEF LInv

\* lane_owner and SessionInfo::lossy_peer_id agree at both ends, in any order of
\* bind_lossy_lane, close_peer, lane loss and control loss.
THEOREM LaneTablesAgree == Spec => []LaneTables
  BY LanesInvariant, PTL DEF LInv

\* runtime_drop_peer_state erases a session only after its control connection
\* has ended, however its lanes have come and gone.
THEOREM LaneLossHarmless == Spec => LaneLossKeepsSession
  <1>1. LInv /\ [Next]_vars => [\A e \in End : session[e] /\ ~session'[e] => ~control]_vars
    <2> SUFFICES ASSUME LInv, [Next]_vars, NEW e \in End, session[e], ~session'[e]
                 PROVE  ~control
      BY DEF LInv
    <2> USE DEF LInv, TypeOK
    <2>1. ASSUME NEW d \in End, ControlDrop(d) PROVE ~control
      BY <2>1 DEF ControlDrop
    <2>2. ASSUME NEW d \in End, ControlCloseLane(d) PROVE FALSE
      BY <2>2 DEF ControlCloseLane
    <2>3. ASSUME NEW l \in Lane, LaneThread(l) \/ LaneLost(l) PROVE FALSE
      BY <2>3 DEF LaneThread, LaneLost, HandleLaneBind, SendLaneReady, HandleLaneReady,
           ClientLaneDrop, ServerLaneDrop, LaneLeave
    <2>4. ASSUME Binder \/ CloserStep PROVE FALSE
      BY <2>4 DEF Binder, CloserStep, BindConnect, BindSend, BindPoll, BindClose,
           BindReturn, ClosePeerJoin, ClosePeerLane, ClosePeerReturn
    <2>5. ASSUME BindCheck \/ ClosePeer \/ Reap \/ ControlLost \/ UNCHANGED vars PROVE FALSE
      BY <2>5 DEF BindCheck, ClosePeer, Reap, ControlLost, vars
    <2> QED
      BY <2>1, <2>2, <2>3, <2>4, <2>5 DEF Next
  <1> QED
    BY <1>1, LanesInvariant, PTL DEF Spec, LaneLossKeepsSession

(***************************************************************************)
(* The client's lane is the server's.                                      *)
(***************************************************************************)

\* The server has taken the lane for the session, if both are still there.
Bound(l) == thread["server"][l] \in {"loop", "reply"} /\ session["server"] => lossy.server = l

\* An answer to lane l's LaneBind is still to come or to be read.
Pending(l) == l \in to_server \/ l \in to_client \/ thread["server"][l] = "reply"

\* The lane that carries the client's lossy frames is the server's, and so is one whose
\* LaneReady is on its way.
RouteBound == lossy.client /\ table # NoLane => Bound(table)
AnswerBound == \A l \in Lane : l \in to_client \/ thread["server"][l] = "reply" => Bound(l)

\* A lane asks once and is answered once at most.
OneAnswer ==
    /\ \A l \in Lane : /\ ~(l \in to_server /\ l \in to_client)
                       /\ l \in to_server \cup to_client => thread["server"][l] # "reply"
    /\ \A l \in to_server \cup to_client : l <= created
    /\ binder = "send" => ~Pending(created)

\* The client's table has the latest lane or none; a lane that is in it and stops without
\* its thread's doing was stopped with the session.
TableLane ==
    /\ table \in {NoLane, created}
    /\ \A l \in Lane : table = l /\ thread["client"][l] = "loop" /\ ~running["client"][l] =>
          ~session["client"]

\* close_peer has taken the lane out of the tables.
LaneClosed == closer \in {"join", "done"} /\ ~owner.client

\* A lane that bind_lossy_lane waits for, and is no longer in the table, is of no more
\* use: its session has gone or close_peer has closed it.
Unhooked ==
    binder \in {"send", "poll", "close"} /\ table = NoLane /\ thread["client"][created] = "loop"
        => ~session["client"] \/ LaneClosed

\* A client thread that may still read a LaneReady is that of the latest lane, and nothing
\* has been read for that lane; bind_lossy_lane is waiting for the answer, or for the
\* thread, or the answer has no effect.
Awaited ==
    /\ binder \in {"connect", "send"} => ~lossy.client
    /\ \A l \in Lane : thread["client"][l] = "loop" /\ Pending(l) =>
          /\ l = created /\ ~lossy.client /\ binder \notin {"connect", "send"}
          /\ \/ binder \in {"poll", "close"}
             \/ binder = "join" /\ joining["binder"] = l
             \/ ~session["client"]
             \/ LaneClosed

AInv == RouteBound /\ AnswerBound /\ OneAnswer /\ TableLane /\ Unhooked /\ Awaited

\* bind_lossy_lane has connected lane l, which is new to both ends.
Connected(l) ==
    /\ l = created + 1 /\ created' = l /\ table' = l /\ ~lossy.client /\ binder' = "send"
    /\ created \in Nat /\ ~Pending(l)
    /\ \A e \in End : thread'[e][l] = "loop" /\ running'[e][l] = TRUE
    /\ \A e \in End, m \in Lane \ {l} :
          thread'[e][m] = thread[e][m] /\ running'[e][m] = running[e][m]
    /\ owner' = [owner EXCEPT !.client = TRUE]
    /\ UNCHANGED <<session, lossy, to_server, to_client, closer, joining>>
    /\ \A m \in Lane : thread["client"][m] = "loop" => ~Pending(m)

\* bind_lossy_lane connects the next lane when no answer to an earlier one is awaited.
LEMMA ConnectFacts ==
  ASSUME LInv, AInv, BindConnect, created' # created
  PROVE  \E l \in Lane : Connected(l)
  <1> DEFINE l == created + 1
  <1>1. binder = "connect" /\ created \in Nat /\ l \in Lane /\ ~lossy.client
    BY LanesAssumption DEF BindConnect, LInv, BinderLane, TypeOK, Lane, NoLane, AInv, Awaited
  <1>2. /\ created' = l /\ table' = l /\ binder' = "send"
        /\ running' = [e \in End |-> [running[e] EXCEPT ![l] = TRUE]]
        /\ thread' = [e \in End |-> [thread[e] EXCEPT ![l] = "loop"]]
        /\ owner' = [owner EXCEPT !.client = TRUE]
        /\ UNCHANGED <<session, lossy, to_server, to_client, closer, joining>>
    BY DEF BindConnect, msgs
  <1>3. /\ thread \in [End -> [Lane -> {"none", "loop", "reply", "drop", "ended"}]]
        /\ running \in [End -> [Lane -> BOOLEAN]]
        /\ \A e \in End : thread[e][l] = "none"
    BY <1>1 DEF LInv, TypeOK
  <1>4. ~Pending(l)
    <2>1. l \notin to_server \cup to_client
      BY <1>1 DEF AInv, OneAnswer
    <2> QED
      BY <1>3, <2>1 DEF Pending, End
  <1> HIDE DEF l
  <1>5. \A e \in End : thread'[e][l] = "loop" /\ running'[e][l] = TRUE
    BY <1>1, <1>2, <1>3
  <1>6. \A e \in End, m \in Lane \ {l} :
           thread'[e][m] = thread[e][m] /\ running'[e][m] = running[e][m]
    BY <1>2, <1>3
  <1>7. \A m \in Lane : thread["client"][m] = "loop" => ~Pending(m)
    BY <1>1 DEF AInv, Awaited
  <1> QED
    BY <1>1, <1>2, <1>4, <1>5, <1>6, <1>7 DEF l, Connected

\* The lane the client routes lossy frames to stays the one the server has taken: a
\* LaneReady is read for the lane in the table only.
LEMMA NextRouteBound == LInv /\ AInv /\ [Next]_vars => RouteBound'
  <1> SUFFICES ASSUME LInv, AInv, [Next]_vars PROVE RouteBound'
    OBVIOUS
  <1>a. ASSUME BindConnect, created' # created PROVE \E l \in Lane : Connected(l)
    BY <1>a, ConnectFacts
  <1> USE LanesAssumption DEF LInv, AInv, TypeOK, threads, links, msgs, app, RouteBound, Bound
  <1>1. CASE UNCHANGED vars
    BY <1>1 DEF vars, Lane, NoLane, End
  <1>2. CASE BindCheck
    BY <1>2 DEF BindCheck, Lane, NoLane, End
  <1>3. CASE BindConnect
    <2>1. CASE created' = created
      <3>1. created + 1 # created
        BY DEF Lane, NoLane
      <3>2. UNCHANGED <<created, table, up, running, thread, owner>> /\ binder' = "idle"
        BY <1>3, <2>1, <3>1 DEF BindConnect
      <3> QED
        BY <1>3, <3>2 DEF BindConnect
    <2>2. CASE created' # created
      BY <1>a, <1>3, <2>2 DEF Connected, Pending, Lane, NoLane, End
    <2> QED
      BY <2>1, <2>2
  <1>4. CASE BindSend
    BY <1>4 DEF BindSend, Lane, NoLane, End
  <1>5. CASE BindPoll
    BY <1>5 DEF BindPoll, Lane, NoLane, End
  <1>6. CASE BindClose
    BY <1>6 DEF BindClose, CloseLane, Lane, NoLane, End
  <1>7. CASE BindReturn
    BY <1>7 DEF BindReturn, Joined, Lane, NoLane, End
  <1>8. CASE ClosePeer
    BY <1>8 DEF ClosePeer, Lane, NoLane, End
  <1>9. CASE ClosePeerJoin
    BY <1>9 DEF ClosePeerJoin, Lane, NoLane, End
  <1>10. CASE ClosePeerLane
    BY <1>10 DEF ClosePeerLane, CloseLane, Lane, NoLane, End
  <1>11. CASE ClosePeerReturn
    BY <1>11 DEF ClosePeerReturn, Lane, NoLane, End
  <1>12. CASE Reap
    BY <1>12 DEF Reap, Lane, NoLane, End
  <1>13. CASE ControlLost
    BY <1>13 DEF ControlLost, Lane, NoLane, End
  <1>14. ASSUME NEW l \in Lane, HandleLaneBind(l) PROVE RouteBound'
    BY <1>14 DEF HandleLaneBind, Lane, NoLane, End
  <1>15. ASSUME NEW l \in Lane, SendLaneReady(l) PROVE RouteBound'
    BY <1>15 DEF SendLaneReady, Lane, NoLane, End
  <1>16. ASSUME NEW l \in Lane, HandleLaneReady(l) PROVE RouteBound'
    BY <1>16 DEF HandleLaneReady, AnswerBound, TableLane, Awaited, Pending, Lane, NoLane, End
  <1>17. ASSUME NEW l \in Lane, ClientLaneDrop(l) PROVE RouteBound'
    BY <1>17 DEF ClientLaneDrop, Lane, NoLane, End
  <1>18. ASSUME NEW l \in Lane, ServerLaneDrop(l) PROVE RouteBound'
    BY <1>18 DEF ServerLaneDrop, Lane, NoLane, End
  <1>19. ASSUME NEW l \in Lane, LaneLost(l) PROVE RouteBound'
    BY <1>19 DEF LaneLost, Lane, NoLane, End
  <1>20. ASSUME NEW e \in End, NEW l \in Lane, LaneLeave(e, l) PROVE RouteBound'
    BY <1>20 DEF LaneLeave, Lane, NoLane, End
  <1>21. ASSUME NEW e \in End, ControlDrop(e) PROVE RouteBound'
    BY <1>21 DEF ControlDrop, Lane, NoLane, End
  <1>22. ASSUME NEW e \in End, ControlCloseLane(e) PROVE RouteBound'
    BY <1>22 DEF ControlCloseLane, ControlSession, Lane, NoLane, End
  <1> QED
    BY <1>1, <1>2, <1>3, <1>4, <1>5, <1>6, <1>7, <1>8, <1>9, <1>10, <1>11, <1>12, <1>13,
       <1>14, <1>15, <1>16, <1>17, <1>18, <1>19, <1>20, <1>21, <1>22 DEF Next, Binder,
          CloserStep, LaneThread

\* The server takes no other lane, and does not forget the one it has answered, while the
\* session and the lane are there.
LEMMA NextAnswerBound == LInv /\ AInv /\ [Next]_vars => AnswerBound'
  <1> SUFFICES ASSUME LInv, AInv, [Next]_vars PROVE AnswerBound'
    OBVIOUS
  <1>a. ASSUME BindConnect, created' # created PROVE \E l \in Lane : Connected(l)
    BY <1>a, ConnectFacts
  <1> USE LanesAssumption DEF LInv, AInv, TypeOK, threads, links, msgs, app, AnswerBound, Bound
  <1>1. CASE UNCHANGED vars
    BY <1>1 DEF vars, Lane, NoLane, End
  <1>2. CASE BindCheck
    BY <1>2 DEF BindCheck, Lane, NoLane, End
  <1>3. CASE BindConnect
    <2>1. CASE created' = created
      <3>1. created + 1 # created
        BY DEF Lane, NoLane
      <3>2. UNCHANGED <<created, table, up, running, thread, owner>> /\ binder' = "idle"
        BY <1>3, <2>1, <3>1 DEF BindConnect
      <3> QED
        BY <1>3, <3>2 DEF BindConnect
    <2>2. CASE created' # created
      <3>1. PICK l \in Lane : Connected(l)
        BY <1>a, <1>3, <2>2
      <3> SUFFICES ASSUME NEW m \in Lane, m \in to_client \/ thread'["server"][m] = "reply"
                   PROVE  Bound(m)'
        BY <3>1 DEF Connected, AnswerBound
      <3>2. m # l
        BY <3>1 DEF Connected, Pending, End
      <3>3. thread'["server"][m] = thread["server"][m]
        BY <3>1, <3>2 DEF Connected, End
      <3> QED
        BY <3>1, <3>3 DEF Connected, AnswerBound, Bound
    <2> QED
      BY <2>1, <2>2
  <1>4. CASE BindSend
    BY <1>4 DEF BindSend, Lane, NoLane, End
  <1>5. CASE BindPoll
    BY <1>5 DEF BindPoll, Lane, NoLane, End
  <1>6. CASE BindClose
    BY <1>6 DEF BindClose, CloseLane, Lane, NoLane, End
  <1>7. CASE BindReturn
    BY <1>7 DEF BindReturn, Joined, Lane, NoLane, End
  <1>8. CASE ClosePeer
    BY <1>8 DEF ClosePeer, Lane, NoLane, End
  <1>9. CASE ClosePeerJoin
    BY <1>9 DEF ClosePeerJoin, Lane, NoLane, End
  <1>10. CASE ClosePeerLane
    BY <1>10 DEF ClosePeerLane, CloseLane, Lane, NoLane, End
  <1>11. CASE ClosePeerReturn
    BY <1>11 DEF ClosePeerReturn, Lane, NoLane, End
  <1>12. CASE Reap
    BY <1>12 DEF Reap, Lane, NoLane, End
  <1>13. CASE ControlLost
    BY <1>13 DEF ControlLost, Lane, NoLane, End
  <1>14. ASSUME NEW l \in Lane, HandleLaneBind(l) PROVE AnswerBound'
    BY <1>14 DEF HandleLaneBind, Lane, NoLane, End
  <1>15. ASSUME NEW l \in Lane, SendLaneReady(l) PROVE AnswerBound'
    BY <1>15 DEF SendLaneReady, Lane, NoLane, End
  <1>16. ASSUME NEW l \in Lane, HandleLaneReady(l) PROVE AnswerBound'
    BY <1>16 DEF HandleLaneReady, Lane, NoLane, End
  <1>17. ASSUME NEW l \in Lane, ClientLaneDrop(l) PROVE AnswerBound'
    BY <1>17 DEF ClientLaneDrop, Lane, NoLane, End
  <1>18. ASSUME NEW l \in Lane, ServerLaneDrop(l) PROVE AnswerBound'
    BY <1>18 DEF ServerLaneDrop, Lane, NoLane, End
  <1>19. ASSUME NEW l \in Lane, LaneLost(l) PROVE AnswerBound'
    BY <1>19 DEF LaneLost, Lane, NoLane, End
  <1>20. ASSUME NEW e \in End, NEW l \in Lane, LaneLeave(e, l) PROVE AnswerBound'
    BY <1>20 DEF LaneLeave, Lane, NoLane, End
  <1>21. ASSUME NEW e \in End, ControlDrop(e) PROVE AnswerBound'
    BY <1>21 DEF ControlDrop, Lane, NoLane, End
  <1>22. ASSUME NEW e \in End, ControlCloseLane(e) PROVE AnswerBound'
    BY <1>22 DEF ControlCloseLane, ControlSession, Lane, NoLane, End
  <1> QED
    BY <1>1, <1>2, <1>3, <1>4, <1>5, <1>6, <1>7, <1>8, <1>9, <1>10, <1>11, <1>12, <1>13,
       <1>14, <1>15, <1>16, <1>17, <1>18, <1>19, <1>20, <1>21, <1>22 DEF Next, Binder,
          CloserStep, LaneThread

\* A LaneBind is sent once, handled once and answered once at most.
LEMMA NextOneAnswer == LInv /\ AInv /\ [Next]_vars => OneAnswer'
  <1> SUFFICES ASSUME LInv, AInv, [Next]_vars PROVE OneAnswer'
    OBVIOUS
  <1>a. ASSUME BindConnect, created' # created PROVE \E l \in Lane : Connected(l)
    BY <1>a, ConnectFacts
  <1> USE LanesAssumption DEF LInv, AInv, TypeOK, threads, links, msgs, app, OneAnswer, Pending
  <1>1. CASE UNCHANGED vars
    BY <1>1 DEF vars, Lane, NoLane, End
  <1>2. CASE BindCheck
    BY <1>2 DEF BindCheck, Lane, NoLane, End
  <1>3. CASE BindConnect
    <2>1. CASE created' = created
      <3>1. created + 1 # created
        BY DEF Lane, NoLane
      <3>2. UNCHANGED <<created, table, up, running, thread, owner>> /\ binder' = "idle"
        BY <1>3, <2>1, <3>1 DEF BindConnect
      <3> QED
        BY <1>3, <3>2 DEF BindConnect
    <2>2. CASE created' # created
      <3>1. PICK l \in Lane : Connected(l)
        BY <1>a, <1>3, <2>2
      <3>2. ~Pending(l)'
        BY <3>1 DEF Connected, Pending, End
      <3>3. \A m \in Lane \ {l} : thread'["server"][m] = thread["server"][m]
        BY <3>1 DEF Connected, End
      <3>4. ASSUME NEW m \in Lane
            PROVE  /\ ~(m \in to_server /\ m \in to_client)
                   /\ m \in to_server \cup to_client => thread'["server"][m] # "reply"
        BY <3>2, <3>3 DEF OneAnswer, Pending
      <3>5. \A m \in to_server \cup to_client : m <= created'
        BY <3>1 DEF Connected, OneAnswer, Lane
      <3> QED
        BY <3>1, <3>2, <3>4, <3>5 DEF Connected, OneAnswer, Pending
    <2> QED
      BY <2>1, <2>2
  <1>4. CASE BindSend
    <2>1. CASE to_server' = to_server \cup {created}
      <3>1. created \in Lane /\ ~Pending(created)
        BY <1>4 DEF BindSend, BinderLane
      <3>2. UNCHANGED <<to_client, thread, created>> /\ binder' # "send"
        BY <1>4 DEF BindSend
      <3>3. ASSUME NEW m \in Lane, m \in to_server \cup {created}
            PROVE  m \notin to_client /\ thread["server"][m] # "reply"
        BY <3>1, <3>3 DEF OneAnswer, Pending
      <3>4. \A m \in to_server \cup {created} : m <= created
        BY <3>1 DEF OneAnswer, Lane
      <3> QED
        BY <2>1, <3>2, <3>3, <3>4 DEF OneAnswer
    <2>2. CASE to_server' = to_server
      BY <1>4, <2>2 DEF BindSend, OneAnswer
    <2> QED
      BY <1>4, <2>1, <2>2 DEF BindSend
  <1>5. CASE BindPoll
    BY <1>5 DEF BindPoll, Lane, NoLane, End
  <1>6. CASE BindClose
    BY <1>6 DEF BindClose, CloseLane, Lane, NoLane, End
  <1>7. CASE BindReturn
    BY <1>7 DEF BindReturn, Joined, Lane, NoLane, End
  <1>8. CASE ClosePeer
    BY <1>8 DEF ClosePeer, Lane, NoLane, End
  <1>9. CASE ClosePeerJoin
    BY <1>9 DEF ClosePeerJoin, Lane, NoLane, End
  <1>10. CASE ClosePeerLane
    BY <1>10 DEF ClosePeerLane, CloseLane, Lane, NoLane, End
  <1>11. CASE ClosePeerReturn
    BY <1>11 DEF ClosePeerReturn, Lane, NoLane, End
  <1>12. CASE Reap
    BY <1>12 DEF Reap, Lane, NoLane, End
  <1>13. CASE ControlLost
    BY <1>13 DEF ControlLost, Lane, NoLane, End
  <1>14. ASSUME NEW l \in Lane, HandleLaneBind(l) PROVE OneAnswer'
    BY <1>14 DEF HandleLaneBind, Lane, NoLane, End
  <1>15. ASSUME NEW l \in Lane, SendLaneReady(l) PROVE OneAnswer'
    BY <1>15 DEF SendLaneReady, Lane, NoLane, End
  <1>16. ASSUME NEW l \in Lane, HandleLaneReady(l) PROVE OneAnswer'
    BY <1>16 DEF HandleLaneReady, Lane, NoLane, End
  <1>17. ASSUME NEW l \in Lane, ClientLaneDrop(l) PROVE OneAnswer'
    BY <1>17 DEF ClientLaneDrop, Lane, NoLane, End
  <1>18. ASSUME NEW l \in Lane, ServerLaneDrop(l) PROVE OneAnswer'
    BY <1>18 DEF ServerLaneDrop, Lane, NoLane, End
  <1>19. ASSUME NEW l \in Lane, LaneLost(l) PROVE OneAnswer'
    BY <1>19 DEF LaneLost, Lane, NoLane, End
  <1>20. ASSUME NEW e \in End, NEW l \in Lane, LaneLeave(e, l) PROVE OneAnswer'
    BY <1>20 DEF LaneLeave, Lane, NoLane, End
  <1>21. ASSUME NEW e \in End, ControlDrop(e) PROVE OneAnswer'
    BY <1>21 DEF ControlDrop, Lane, NoLane, End
  <1>22. ASSUME NEW e \in End, ControlCloseLane(e) PROVE OneAnswer'
    BY <1>22 DEF ControlCloseLane, ControlSession, Lane, NoLane, End
  <1> QED
    BY <1>1, <1>2, <1>3, <1>4, <1>5, <1>6, <1>7, <1>8, <1>9, <1>10, <1>11, <1>12, <1>13,
       <1>14, <1>15, <1>16, <1>17, <1>18, <1>19, <1>20, <1>21, <1>22 DEF Next, Binder,
          CloserStep, LaneThread

\* The table is overwritten by the next lane only, and a lane in it is stopped by its own
\* thread or with the session.
LEMMA NextTableLane == LInv /\ AInv /\ [Next]_vars => TableLane'
  <1> SUFFICES ASSUME LInv, AInv, [Next]_vars PROVE TableLane'
    OBVIOUS
  <1> USE LanesAssumption DEF LInv, AInv, TypeOK, threads, links, msgs, app, TableLane
  <1>1. CASE UNCHANGED vars
    BY <1>1 DEF vars, Lane, NoLane, End
  <1>2. CASE BindCheck
    BY <1>2 DEF BindCheck, Lane, NoLane, End
  <1>3. CASE BindConnect
    BY <1>3 DEF BindConnect, Lane, NoLane, End
  <1>4. CASE BindSend
    BY <1>4 DEF BindSend, Lane, NoLane, End
  <1>5. CASE BindPoll
    BY <1>5 DEF BindPoll, Lane, NoLane, End
  <1>6. CASE BindClose
    BY <1>6 DEF BindClose, CloseLane, Lane, NoLane, End
  <1>7. CASE BindReturn
    BY <1>7 DEF BindReturn, Joined, Lane, NoLane, End
  <1>8. CASE ClosePeer
    BY <1>8 DEF ClosePeer, Lane, NoLane, End
  <1>9. CASE ClosePeerJoin
    BY <1>9 DEF ClosePeerJoin, Lane, NoLane, End
  <1>10. CASE ClosePeerLane
    BY <1>10 DEF ClosePeerLane, CloseLane, Lane, NoLane, End
  <1>11. CASE ClosePeerReturn
    BY <1>11 DEF ClosePeerReturn, Lane, NoLane, End
  <1>12. CASE Reap
    BY <1>12 DEF Reap, Lane, NoLane, End
  <1>13. CASE ControlLost
    BY <1>13 DEF ControlLost, Lane, NoLane, End
  <1>14. ASSUME NEW l \in Lane, HandleLaneBind(l) PROVE TableLane'
    BY <1>14 DEF HandleLaneBind, Lane, NoLane, End
  <1>15. ASSUME NEW l \in Lane, SendLaneReady(l) PROVE TableLane'
    BY <1>15 DEF SendLaneReady, Lane, NoLane, End
  <1>16. ASSUME NEW l \in Lane, HandleLaneReady(l) PROVE TableLane'
    BY <1>16 DEF HandleLaneReady, Lane, NoLane, End
  <1>17. ASSUME NEW l \in Lane, ClientLaneDrop(l) PROVE TableLane'
    BY <1>17 DEF ClientLaneDrop, Lane, NoLane, End
  <1>18. ASSUME NEW l \in Lane, ServerLaneDrop(l) PROVE TableLane'
    BY <1>18 DEF ServerLaneDrop, Lane, NoLane, End
  <1>19. ASSUME NEW l \in Lane, LaneLost(l) PROVE TableLane'
    BY <1>19 DEF LaneLost, Lane, NoLane, End
  <1>20. ASSUME NEW e \in End, NEW l \in Lane, LaneLeave(e, l) PROVE TableLane'
    BY <1>20 DEF LaneLeave, Lane, NoLane, End
  <1>21. ASSUME NEW e \in End, ControlDrop(e) PROVE TableLane'
    BY <1>21 DEF ControlDrop, Lane, NoLane, End
  <1>22. ASSUME NEW e \in End, ControlCloseLane(e) PROVE TableLane'
    BY <1>22 DEF ControlCloseLane, ControlSession, Lane, NoLane, End
  <1> QED
    BY <1>1, <1>2, <1>3, <1>4, <1>5, <1>6, <1>7, <1>8, <1>9, <1>10, <1>11, <1>12, <1>13,
       <1>14, <1>15, <1>16, <1>17, <1>18, <1>19, <1>20, <1>21, <1>22 DEF Next, Binder,
          CloserStep, LaneThread

\* Nobody but the reaper and close_peer takes the lane away from bind_lossy_lane.
LEMMA NextUnhooked == LInv /\ AInv /\ [Next]_vars => Unhooked'
  <1> SUFFICES ASSUME LInv, AInv, [Next]_vars PROVE Unhooked'
    OBVIOUS
  <1> USE LanesAssumption DEF LInv, AInv, TypeOK, threads, links, msgs, app, Unhooked,
     LaneClosed
  <1>1. CASE UNCHANGED vars
    BY <1>1 DEF vars, Lane, NoLane, End
  <1>2. CASE BindCheck
    BY <1>2 DEF BindCheck, Lane, NoLane, End
  <1>3. CASE BindConnect
    BY <1>3 DEF BindConnect, Lane, NoLane, End
  <1>4. CASE BindSend
    BY <1>4 DEF BindSend, Lane, NoLane, End
  <1>5. CASE BindPoll
    BY <1>5 DEF BindPoll, Lane, NoLane, End
  <1>6. CASE BindClose
    BY <1>6 DEF BindClose, CloseLane, Lane, NoLane, End
  <1>7. CASE BindReturn
    BY <1>7 DEF BindReturn, Joined, Lane, NoLane, End
  <1>8. CASE ClosePeer
    BY <1>8 DEF ClosePeer, Lane, NoLane, End
  <1>9. CASE ClosePeerJoin
    BY <1>9 DEF ClosePeerJoin, Lane, NoLane, End
  <1>10. CASE ClosePeerLane
    BY <1>10 DEF ClosePeerLane, CloseLane, Lane, NoLane, End
  <1>11. CASE ClosePeerReturn
    BY <1>11 DEF ClosePeerReturn, Lane, NoLane, End
  <1>12. CASE Reap
    BY <1>12 DEF Reap, TableLane, Lane, NoLane, End
  <1>13. CASE ControlLost
    BY <1>13 DEF ControlLost, Lane, NoLane, End
  <1>14. ASSUME NEW l \in Lane, HandleLaneBind(l) PROVE Unhooked'
    BY <1>14 DEF HandleLaneBind, Lane, NoLane, End
  <1>15. ASSUME NEW l \in Lane, SendLaneReady(l) PROVE Unhooked'
    BY <1>15 DEF SendLaneReady, Lane, NoLane, End
  <1>16. ASSUME NEW l \in Lane, HandleLaneReady(l) PROVE Unhooked'
    BY <1>16 DEF HandleLaneReady, Lane, NoLane, End
  <1>17. ASSUME NEW l \in Lane, ClientLaneDrop(l) PROVE Unhooked'
    BY <1>17 DEF ClientLaneDrop, Lane, NoLane, End
  <1>18. ASSUME NEW l \in Lane, ServerLaneDrop(l) PROVE Unhooked'
    BY <1>18 DEF ServerLaneDrop, Lane, NoLane, End
  <1>19. ASSUME NEW l \in Lane, LaneLost(l) PROVE Unhooked'
    BY <1>19 DEF LaneLost, Lane, NoLane, End
  <1>20. ASSUME NEW e \in End, NEW l \in Lane, LaneLeave(e, l) PROVE Unhooked'
    BY <1>20 DEF LaneLeave, Lane, NoLane, End
  <1>21. ASSUME NEW e \in End, ControlDrop(e) PROVE Unhooked'
    BY <1>21 DEF ControlDrop, Lane, NoLane, End
  <1>22. ASSUME NEW e \in End, ControlCloseLane(e) PROVE Unhooked'
    BY <1>22 DEF ControlCloseLane, ControlSession, Lane, NoLane, End
  <1> QED
    BY <1>1, <1>2, <1>3, <1>4, <1>5, <1>6, <1>7, <1>8, <1>9, <1>10, <1>11, <1>12, <1>13,
       <1>14, <1>15, <1>16, <1>17, <1>18, <1>19, <1>20, <1>21, <1>22 DEF Next, Binder,
          CloserStep, LaneThread

\* bind_lossy_lane does not connect the next lane while a thread may still read the
\* LaneReady of the last one.
LEMMA NextAwaited == LInv /\ AInv /\ [Next]_vars => Awaited'
  <1> SUFFICES ASSUME LInv, AInv, [Next]_vars PROVE Awaited'
    OBVIOUS
  <1>a. ASSUME BindConnect, created' # created PROVE \E l \in Lane : Connected(l)
    BY <1>a, ConnectFacts
  <1> USE LanesAssumption DEF LInv, AInv, TypeOK, threads, links, msgs, app, Awaited,
     Pending, LaneClosed
  <1>1. CASE UNCHANGED vars
    BY <1>1 DEF vars, Lane, NoLane, End
  <1>2. CASE BindCheck
    BY <1>2 DEF BindCheck, Lane, NoLane, End
  <1>3. CASE BindConnect
    <2>1. CASE created' = created
      <3>1. created + 1 # created
        BY DEF Lane, NoLane
      <3>2. UNCHANGED <<created, table, up, running, thread, owner>> /\ binder' = "idle"
        BY <1>3, <2>1, <3>1 DEF BindConnect
      <3> QED
        BY <1>3, <3>2 DEF BindConnect
    <2>2. CASE created' # created
      <3>1. PICK l \in Lane : Connected(l)
        BY <1>a, <1>3, <2>2
      <3>2. ASSUME NEW m \in Lane, thread'["client"][m] = "loop"
            PROVE  ~Pending(m)'
        <4>1. CASE m = l
          BY <3>1, <4>1 DEF Connected, Pending, End
        <4>2. CASE m # l
          BY <3>1, <3>2, <4>2 DEF Connected, Pending, End
        <4> QED
          BY <4>1, <4>2
      <3> QED
        BY <3>1, <3>2 DEF Connected, Awaited, Pending
    <2> QED
      BY <2>1, <2>2
  <1>4. CASE BindSend
    BY <1>4 DEF BindSend, Lane, NoLane, End
  <1>5. CASE BindPoll
    BY <1>5 DEF BindPoll, Lane, NoLane, End
  <1>6. CASE BindClose
    BY <1>6 DEF BindClose, CloseLane, TableLane, Unhooked, Lane, NoLane, End
  <1>7. CASE BindReturn
    BY <1>7 DEF BindReturn, Joined, Lane, NoLane, End
  <1>8. CASE ClosePeer
    BY <1>8 DEF ClosePeer, Lane, NoLane, End
  <1>9. CASE ClosePeerJoin
    BY <1>9 DEF ClosePeerJoin, Lane, NoLane, End
  <1>10. CASE ClosePeerLane
    BY <1>10 DEF ClosePeerLane, CloseLane, Lane, NoLane, End
  <1>11. CASE ClosePeerReturn
    BY <1>11 DEF ClosePeerReturn, Lane, NoLane, End
  <1>12. CASE Reap
    BY <1>12 DEF Reap, Lane, NoLane, End
  <1>13. CASE ControlLost
    BY <1>13 DEF ControlLost, Lane, NoLane, End
  <1>14. ASSUME NEW l \in Lane, HandleLaneBind(l) PROVE Awaited'
    BY <1>14 DEF HandleLaneBind, Lane, NoLane, End
  <1>15. ASSUME NEW l \in Lane, SendLaneReady(l) PROVE Awaited'
    BY <1>15 DEF SendLaneReady, Lane, NoLane, End
  <1>16. ASSUME NEW l \in Lane, HandleLaneReady(l) PROVE Awaited'
    BY <1>16 DEF HandleLaneReady, OneAnswer, Lane, NoLane, End
  <1>17. ASSUME NEW l \in Lane, ClientLaneDrop(l) PROVE Awaited'
    BY <1>17 DEF ClientLaneDrop, Lane, NoLane, End
  <1>18. ASSUME NEW l \in Lane, ServerLaneDrop(l) PROVE Awaited'
    BY <1>18 DEF ServerLaneDrop, Lane, NoLane, End
  <1>19. ASSUME NEW l \in Lane, LaneLost(l) PROVE Awaited'
    BY <1>19 DEF LaneLost, Lane, NoLane, End
  <1>20. ASSUME NEW e \in End, NEW l \in Lane, LaneLeave(e, l) PROVE Awaited'
    BY <1>20 DEF LaneLeave, Lane, NoLane, End
  <1>21. ASSUME NEW e \in End, ControlDrop(e) PROVE Awaited'
    BY <1>21 DEF ControlDrop, Lane, NoLane, End
  <1>22. ASSUME NEW e \in End, ControlCloseLane(e) PROVE Awaited'
    BY <1>22 DEF ControlCloseLane, ControlSession, Lane, NoLane, End
  <1> QED
    BY <1>1, <1>2, <1>3, <1>4, <1>5, <1>6, <1>7, <1>8, <1>9, <1>10, <1>11, <1>12, <1>13,
       <1>14, <1>15, <1>16, <1>17, <1>18, <1>19, <1>20, <1>21, <1>22 DEF Next, Binder,
          CloserStep, LaneThread

\* AInv, too, holds in every reachable state of the two runtimes.
THEOREM LaneAnswers == Spec => [](LInv /\ AInv)
  <1>1. Init => AInv
    BY LanesAssumption DEF Init, AInv, RouteBound, AnswerBound, OneAnswer, TableLane, Unhooked,
       Awaited, Pending, Bound, Lane, NoLane, End
  <1>2. LInv /\ [Next]_vars => LInv'
    BY NextTypeOK, NextLaneTables, NextControlSession, NextBinderLane DEF LInv
  <1>3. LInv /\ AInv /\ [Next]_vars => AInv'
    BY NextRouteBound, NextAnswerBound, NextOneAnswer, NextTableLane, NextUnhooked, NextAwaited
       DEF AInv
  <1> QED
    BY <1>1, <1>2, <1>3, InitLInv, PTL DEF Spec

\* The lane on which the client sends lossy frames is the one the server has given the
\* session, as long as both ends have session and lane, although every lane of a peer has
\* the same id on the client and old lanes end late (handle_lane_bind, handle_lane_ready,
\* runtime_drop_peer_state, reap_closed_connections).
THEOREM ClientLaneThm == Spec => []ClientLaneAgrees
  <1>1. LInv /\ AInv => ClientLaneAgrees
    BY DEF LInv, TypeOK, LaneTables, AInv, RouteBound, Bound, ClientLaneAgrees, LossyRoute,
           Lane, NoLane, End
  <1> QED
    BY <1>1, LaneAnswers, PTL
=============================================================================
