------------------------------- MODULE Lanes -------------------------------
(***************************************************************************)
(* The lossy lane of one session: a second TCP connection that the client  *)
(* binds to a session that is Active at both ends.  The client's threads   *)
(* are one in bind_lossy_lane, one that may close the peer, the receive    *)
(* threads of the control connection and of each lane object, and the      *)
(* reaper; the server's are the receive threads.                           *)
(*                                                                         *)
(* On the client every lane has the same peer id, the peer's with "#lossy" *)
(* appended, so its tables have one entry for the lane; the server knows   *)
(* each lane by the port it came from.                                     *)
(***************************************************************************)
EXTENDS Integers

CONSTANTS MaxLane      \* bound on the number of lane connections

ASSUME LanesAssumption == MaxLane \in Nat

Lane   == 1..MaxLane
NoLane == 0
End    == {"client", "server"}

VARIABLES
    session,      \* the session is in Impl::sessions of each end
    control,      \* the control TCP connection is up
    ctl,          \* the control receive thread of each end
    up,           \* the TCP connection of each lane is up
    running,      \* RuntimeConnection::running of each end's lane object
    thread,       \* the receive thread of each end's lane object
    to_server,    \* lanes with a LaneBind on its way
    to_client,    \* lanes with a LaneReady on its way
    lossy,        \* SessionInfo::lossy_peer_id: on the client, whether it is set
    owner,        \* Impl::lane_owner: on the client, whether it has the entry
    table,        \* the client's lane object in Impl::connections
    created,      \* number of lane connections
    binder,       \* the thread in bind_lossy_lane
    closer,       \* the thread in close_peer for the control connection
    joining       \* the lane object whose threads each of these two joins

threads == <<running, thread>>
links   == <<control, up>>
msgs    == <<to_server, to_client>>
app     == <<created, binder, closer, joining>>
vars    == <<session, ctl, threads, links, msgs, lossy, owner, table, app>>

TypeOK ==
    /\ session \in [End -> BOOLEAN] /\ control \in BOOLEAN
    /\ ctl \in [End -> {"loop", "close_lane", "ended"}]
    /\ up \in [Lane -> BOOLEAN]
    /\ running \in [End -> [Lane -> BOOLEAN]]
    /\ thread \in [End -> [Lane -> {"none", "loop", "reply", "drop", "ended"}]]
    /\ \A e \in End, l \in Lane : thread[e][l] = "none" <=> l > created
    /\ to_server \subseteq Lane /\ to_client \subseteq Lane
    /\ lossy \in [client : BOOLEAN, server : Lane \cup {NoLane}]
    /\ owner \in [client : BOOLEAN, server : SUBSET Lane]
    /\ table \in Lane \cup {NoLane} /\ created \in Lane \cup {NoLane}
    /\ binder \in {"idle", "connect", "send", "poll", "close", "join"}
    /\ closer \in {"idle", "join_control", "close", "join", "done"}
    /\ joining \in [{"binder", "closer"} -> Lane \cup {NoLane}]

Init ==
    /\ session = [e \in End |-> TRUE] /\ control = TRUE
    /\ ctl = [e \in End |-> "loop"]
    /\ up = [l \in Lane |-> FALSE]
    /\ running = [e \in End |-> [l \in Lane |-> FALSE]]
    /\ thread = [e \in End |-> [l \in Lane |-> "none"]]
    /\ to_server = {} /\ to_client = {}
    /\ lossy = [client |-> FALSE, server |-> NoLane]
    /\ owner = [client |-> FALSE, server |-> {}]
    /\ table = NoLane /\ created = NoLane
    /\ binder = "idle" /\ closer = "idle"
    /\ joining = [t \in {"binder", "closer"} |-> NoLane]

----------------------------------------------------------------------------
(* bind_lossy_lane *)

\* The session is Active and has no lane, and the control connection is in the
\* table.
BindCheck ==
    /\ binder = "idle" /\ created < MaxLane
    /\ closer = "idle"
    /\ session["client"] /\ ~lossy.client
    /\ binder' = "connect"
    /\ UNCHANGED <<session, ctl, threads, links, msgs, lossy, owner, table, created,
                   closer, joining>>

\* The lane is connected and enters the tables, over an entry that may still be
\* there; or the connect fails.
BindConnect ==
    /\ binder = "connect"
    /\ \/ LET l == created + 1
          IN  /\ created' = l /\ table' = l
              /\ up' = [up EXCEPT ![l] = TRUE]
              /\ running' = [e \in End |-> [running[e] EXCEPT ![l] = TRUE]]
              /\ thread' = [e \in End |-> [thread[e] EXCEPT ![l] = "loop"]]
              /\ owner' = [owner EXCEPT !.client = TRUE]
              /\ binder' = "send"
       \/ /\ binder' = "idle"
          /\ UNCHANGED <<created, table, up, running, thread, owner>>
    /\ UNCHANGED <<session, ctl, control, msgs, lossy, closer, joining>>

\* LaneBind is queued on the new connection, if it is still running.
BindSend ==
    /\ binder = "send"
    /\ \/ /\ running["client"][created]
          /\ to_server' = IF up[created] THEN to_server \cup {created} ELSE to_server
          /\ binder' = "poll"
       \/ /\ ~running["client"][created]
          /\ binder' = "close"
          /\ UNCHANGED to_server
    /\ UNCHANGED <<session, ctl, threads, links, to_client, lossy, owner, table, created,
                   closer, joining>>

\* A poll sees the lane, or the polls are used up.
BindPoll ==
    /\ binder = "poll"
    /\ binder' = IF session["client"] /\ lossy.client THEN "idle" ELSE "close"
    /\ UNCHANGED <<session, ctl, threads, links, msgs, lossy, owner, table, created,
                   closer, joining>>

\* close_peer for the lane's peer id: nothing at all if the table has no entry;
\* otherwise the entry and the lane's place in the other tables are removed,
\* and the connection is closed and joined.
CloseLane(t) ==
    /\ table' = NoLane
    /\ joining' = [joining EXCEPT ![t] = table]
    /\ \/ /\ table = NoLane
          /\ UNCHANGED <<lossy, owner, running, up>>
       \/ /\ table # NoLane
          /\ lossy' = [lossy EXCEPT !.client = @ /\ ~(owner.client /\ session["client"])]
          /\ owner' = [owner EXCEPT !.client = FALSE]
          /\ running' = [running EXCEPT !["client"][table] = FALSE]
          /\ up' = [up EXCEPT ![table] = FALSE]

Joined(t) == joining[t] # NoLane => thread["client"][joining[t]] = "ended"

BindClose ==
    /\ binder = "close"
    /\ CloseLane("binder")
    /\ binder' = "join"
    /\ UNCHANGED <<session, ctl, control, thread, msgs, created, closer>>

BindReturn ==
    /\ binder = "join" /\ Joined("binder")
    /\ binder' = "idle"
    /\ joining' = [joining EXCEPT !["binder"] = NoLane]
    /\ UNCHANGED <<session, ctl, threads, links, msgs, lossy, owner, table, created, closer>>

----------------------------------------------------------------------------
(* close_peer for the control connection *)

\* The lane is unhooked from the session first, then the control connection is
\* closed and joined, then the lane is closed as a peer of its own.
ClosePeer ==
    /\ closer = "idle"
    /\ control' = FALSE
    /\ closer' = IF lossy.client THEN "join_control" ELSE "done"
    /\ IF lossy.client
       THEN /\ lossy' = [lossy EXCEPT !.client = FALSE]
            /\ owner' = [owner EXCEPT !.client = FALSE]
       ELSE UNCHANGED <<lossy, owner>>
    /\ UNCHANGED <<session, ctl, threads, up, msgs, table, created, binder, joining>>

ClosePeerJoin ==
    /\ closer = "join_control" /\ ctl["client"] = "ended"
    /\ closer' = "close"
    /\ UNCHANGED <<session, ctl, threads, links, msgs, lossy, owner, table, created,
                   binder, joining>>

ClosePeerLane ==
    /\ closer = "close"
    /\ CloseLane("closer")
    /\ closer' = "join"
    /\ UNCHANGED <<session, ctl, control, thread, msgs, created, binder>>

ClosePeerReturn ==
    /\ closer = "join" /\ Joined("closer")
    /\ closer' = "done"
    /\ joining' = [joining EXCEPT !["closer"] = NoLane]
    /\ UNCHANGED <<session, ctl, threads, links, msgs, lossy, owner, table, created, binder>>

----------------------------------------------------------------------------
(* The receive threads of a lane *)

\* runtime_connection_for_send: the lane that carries the client's lossy frames.
LossyRoute == IF lossy.client THEN table ELSE NoLane

\* mutant: a LaneBind that is refused is answered too
HandleLaneBindAnswered(l) ==
    /\ thread["server"][l] = "loop" /\ l \in to_server
    /\ to_server' = to_server \ {l}
    /\ IF session["server"] /\ lossy.server \in {NoLane, l}
       THEN /\ lossy' = [lossy EXCEPT !.server = l]
            /\ owner' = [owner EXCEPT !.server = @ \cup {l}]
       ELSE UNCHANGED <<lossy, owner>>
    /\ thread' = [thread EXCEPT !["server"][l] = "reply"]
    /\ UNCHANGED <<session, ctl, running, links, to_client, table, app>>

\* handle_lane_bind: the session takes the lane unless it has another one.
HandleLaneBind(l) ==
    /\ thread["server"][l] = "loop" /\ l \in to_server
    /\ to_server' = to_server \ {l}
    /\ \/ /\ session["server"] /\ lossy.server \in {NoLane, l}
          /\ lossy' = [lossy EXCEPT !.server = l]
          /\ owner' = [owner EXCEPT !.server = @ \cup {l}]
          /\ thread' = [thread EXCEPT !["server"][l] = "reply"]
       \/ /\ ~(session["server"] /\ lossy.server \in {NoLane, l})
          /\ UNCHANGED <<lossy, owner, thread>>
    /\ UNCHANGED <<session, ctl, running, links, to_client, table, app>>

SendLaneReady(l) ==
    /\ thread["server"][l] = "reply"
    /\ to_client' = IF up[l] /\ running["server"][l] THEN to_client \cup {l} ELSE to_client
    /\ thread' = [thread EXCEPT !["server"][l] = "loop"]
    /\ UNCHANGED <<session, ctl, running, links, to_server, lossy, owner, table, app>>

\* handle_lane_ready: nothing if the lane or the session has gone meanwhile.
HandleLaneReady(l) ==
    /\ thread["client"][l] = "loop" /\ l \in to_client
    /\ to_client' = to_client \ {l}
    /\ lossy' = [lossy EXCEPT !.client = @ \/ (owner.client /\ session["client"])]
    /\ UNCHANGED <<session, ctl, threads, links, to_server, owner, table, app>>

\* mutant: the thread ends without runtime_drop_peer_state
LaneLeaveSilent(e, l) ==
    /\ thread[e][l] = "loop"
    /\ ~up[l] \/ ~running[e][l]
    /\ running' = [running EXCEPT ![e][l] = FALSE]
    /\ up' = [up EXCEPT ![l] = FALSE]
    /\ thread' = [thread EXCEPT ![e][l] = "ended"]
    /\ UNCHANGED <<session, ctl, control, msgs, lossy, owner, table, app>>

\* The stream has ended or the object is being closed.
LaneLeave(e, l) ==
    /\ thread[e][l] = "loop"
    /\ ~up[l] \/ ~running[e][l]
    /\ running' = [running EXCEPT ![e][l] = FALSE]
    /\ up' = [up EXCEPT ![l] = FALSE]
    /\ thread' = [thread EXCEPT ![e][l] = "drop"]
    /\ UNCHANGED <<session, ctl, control, msgs, lossy, owner, table, app>>

\* mutant: the session keeps its lossy_peer_id
ClientOwnerDrop(l) ==
    /\ thread["client"][l] = "drop"
    /\ thread' = [thread EXCEPT !["client"][l] = "ended"]
    /\ owner' = [owner EXCEPT !.client = FALSE]
    /\ UNCHANGED <<session, ctl, running, links, msgs, lossy, table, app>>

\* mutant: the lane's end is taken for the end of the peer
ClientSessionDrop(l) ==
    /\ thread["client"][l] = "drop"
    /\ thread' = [thread EXCEPT !["client"][l] = "ended"]
    /\ session' = [session EXCEPT !["client"] = FALSE]
    /\ lossy' = [lossy EXCEPT !.client = FALSE]
    /\ owner' = [owner EXCEPT !.client = FALSE]
    /\ UNCHANGED <<ctl, running, links, msgs, table, app>>

\* runtime_drop_peer_state for a lane: its entry goes, the session stays.
ClientLaneDrop(l) ==
    /\ thread["client"][l] = "drop"
    /\ thread' = [thread EXCEPT !["client"][l] = "ended"]
    /\ lossy' = [lossy EXCEPT !.client = @ /\ ~(owner.client /\ session["client"])]
    /\ owner' = [owner EXCEPT !.client = FALSE]
    /\ UNCHANGED <<session, ctl, running, links, msgs, table, app>>

ServerLaneDrop(l) ==
    /\ thread["server"][l] = "drop"
    /\ thread' = [thread EXCEPT !["server"][l] = "ended"]
    /\ lossy' = [lossy EXCEPT !.server = IF l \in owner.server /\ @ = l THEN NoLane ELSE @]
    /\ owner' = [owner EXCEPT !.server = @ \ {l}]
    /\ UNCHANGED <<session, ctl, running, links, msgs, table, app>>

----------------------------------------------------------------------------
(* The control connection, the reaper, the network *)

\* runtime_drop_peer_state for the control connection: the session is erased
\* with its lane's entry ...
ControlDrop(e) ==
    /\ ctl[e] = "loop" /\ ~control
    /\ session' = [session EXCEPT ![e] = FALSE]
    /\ \/ /\ e = "client"
          /\ ctl' = [ctl EXCEPT ![e] = IF lossy.client THEN "close_lane" ELSE "ended"]
          /\ lossy' = [lossy EXCEPT !.client = FALSE]
          /\ owner' = [owner EXCEPT !.client = @ /\ ~lossy.client]
       \/ /\ e = "server"
          /\ ctl' = [ctl EXCEPT ![e] = IF lossy.server # NoLane THEN "close_lane" ELSE "ended"]
          /\ owner' = [owner EXCEPT !.server = @ \ {lossy.server}]
          /\ UNCHANGED lossy          \* which lane to close
    /\ UNCHANGED <<threads, links, msgs, table, app>>

\* mutant: the lane is left open
ControlKeepLane(e) ==
    /\ ctl[e] = "close_lane"
    /\ ctl' = [ctl EXCEPT ![e] = "ended"]
    /\ lossy' = IF e = "server" THEN [lossy EXCEPT !.server = NoLane] ELSE lossy
    /\ UNCHANGED <<session, threads, links, msgs, owner, table, app>>

\* ... and then the lane, if it is in the table, is stopped.
ControlCloseLane(e) ==
    /\ ctl[e] = "close_lane"
    /\ ctl' = [ctl EXCEPT ![e] = "ended"]
    /\ LET l == IF e = "client" THEN table ELSE lossy.server
       IN  IF l = NoLane THEN UNCHANGED <<running, up>>
           ELSE /\ running' = [running EXCEPT ![e][l] = FALSE]
                /\ up' = [up EXCEPT ![l] = FALSE]
    /\ lossy' = IF e = "server" THEN [lossy EXCEPT !.server = NoLane] ELSE lossy
    /\ UNCHANGED <<session, control, thread, msgs, owner, table, app>>

\* reap_closed_connections on the client.
Reap ==
    /\ table # NoLane /\ ~running["client"][table]
    /\ table' = NoLane
    /\ UNCHANGED <<session, ctl, threads, links, msgs, lossy, owner, app>>

LaneLost(l) ==
    /\ up[l]
    /\ up' = [up EXCEPT ![l] = FALSE]
    /\ UNCHANGED <<session, ctl, threads, control, msgs, lossy, owner, table, app>>

ControlLost ==
    /\ control
    /\ control' = FALSE
    /\ UNCHANGED <<session, ctl, threads, up, msgs, lossy, owner, table, app>>

LaneThread(l) ==
    \/ HandleLaneBind(l) \/ SendLaneReady(l) \/ HandleLaneReady(l)
    \/ ClientLaneDrop(l) \/ ServerLaneDrop(l)
    \/ \E e \in End : LaneLeave(e, l)

Binder == BindConnect \/ BindSend \/ BindPoll \/ BindClose \/ BindReturn
CloserStep == ClosePeerJoin \/ ClosePeerLane \/ ClosePeerReturn

Next ==
    \/ BindCheck \/ Binder
    \/ ClosePeer \/ CloserStep
    \/ \E l \in Lane : LaneThread(l) \/ LaneLost(l)
    \/ \E e \in End : ControlDrop(e) \/ ControlCloseLane(e)
    \/ Reap \/ ControlLost

Spec == Init /\ [][Next]_vars

\* Threads are scheduled and a call of the runtime, once begun, goes on. Nothing
\* makes the application call, or the network fail.
FairSpec ==
    /\ Spec /\ WF_vars(Binder) /\ WF_vars(CloserStep)
    /\ \A l \in Lane :
          /\ \A e \in End : WF_vars(LaneLeave(e, l))
          /\ WF_vars(HandleLaneBind(l) \/ SendLaneReady(l)) /\ WF_vars(HandleLaneReady(l))
          /\ WF_vars(ClientLaneDrop(l)) /\ WF_vars(ServerLaneDrop(l))
    /\ \A e \in End : WF_vars(ControlDrop(e)) /\ WF_vars(ControlCloseLane(e))

----------------------------------------------------------------------------
(* What the runtimes promise about lanes *)

\* The two tables agree: a session with a lane is the one lane_owner gives for
\* it, at both ends and through every order of binding, closing and dropping.
LaneTables ==
    /\ lossy.client => owner.client /\ session["client"]
    /\ session["server"] => owner.server = {lossy.server} \ {NoLane}

\* While the client sends lossy frames on a lane, the server maps that lane to
\* the session and admits them: LaneReady is never taken for another lane's.
ClientLaneAgrees ==
    LET l == LossyRoute
    IN  /\ l # NoLane
        /\ running["client"][l] /\ thread["server"][l] \in {"loop", "reply"}
        /\ session["server"]
        => l \in owner.server

\* docs/wire-v2.md: "Closing the lossy lane must not mark the session lost." The
\* same function drops lanes and control connections; a session goes only when
\* its control connection has, whatever has happened to lane_owner before.
LaneLossKeepsSession ==
    [][\A e \in End : session[e] /\ ~session'[e] => ~control]_vars

\* The client does not go on routing lossy frames to a lane that is gone: once
\* runtime_drop_peer_state has run they take the control connection again.
StaleRouteCleared ==
    (lossy.client /\ (table = NoLane \/ ~running["client"][table]))
        ~> (~lossy.client \/ (table # NoLane /\ running["client"][table]))

\* When the control connection is gone, so are its lanes, at both ends.
LanesCollected ==
    ~control ~> \A e \in End, l \in Lane : thread[e][l] \in {"none", "ended"}
=============================================================================
