-------------------------- MODULE SessionHandshake --------------------------
(***************************************************************************)
(* The session handshake between two runtimes over one TCP connection: a   *)
(* client thread in open_session, the receive threads of both ends, the    *)
(* ordered byte stream in each direction, and the loss of the connection.  *)
(* The client is the end that opens sessions.  An application publishes on *)
(* a session once it has seen it Active.                                   *)
(*                                                                         *)
(* Each connection carries the envelopes of one endpoint only, so the      *)
(* source-mismatch path cannot be taken here and is left out; so are       *)
(* payloads that do not decode.                                            *)
(***************************************************************************)
EXTENDS Integers, Sequences, ProfileNegotiation

CONSTANTS
    Secret,        \* the shared secrets a runtime may be configured with
    ProfileList,   \* the profile lists a runtime may be configured with
    Required,      \* ids of the profiles in config.required_profiles of both ends
    MaxSid,        \* bound on the number of sessions opened
    MaxData,       \* bound on the number of messages published
    NoSession      \* "not in the session table"

End   == {"client", "server"}
Other(e) == IF e = "client" THEN "server" ELSE "client"
Sid   == 1..MaxSid
State == {"handshaking", "authenticated", "negotiated", "active", "invalid"}

\* Descriptors have the fields of ProfileDescriptor, and each list names a profile
\* once, as the configurations of the repository do.
ASSUME HandshakeAssumption ==
    /\ MaxSid \in Nat /\ MaxData \in Nat
    /\ ProfileList \subseteq Seq(ProfileDescriptor)
    /\ \A l \in ProfileList : \A i, j \in 1..Len(l) :
          l[i].profile_id = l[j].profile_id => i = j

\* An entry of the session table, and the assumption that "none" is not one.
Negotiations == {<<>>} \cup {Negotiated(l, r) : l \in ProfileList, r \in ProfileList}
Entries == [state : State, negotiated : Negotiations]

ASSUME SentinelAssumption == NoSession \notin Entries

VARIABLES
    secret,        \* config.shared_secret of each end
    profiles,      \* config.profiles of each end
    link,          \* the TCP connection: "up", "down"
    stream,        \* envelopes on their way to each end
    session,       \* Impl::sessions of each end: state and negotiated_profiles
    next_sid,      \* Impl::next_session_id of the client
    opening,       \* open_session has found the connection and taken a session id
    to_send,       \* what open_session has still to send
    reply,         \* the reply a receive thread has decided on, still to be sent
    alive,         \* the receive thread of each end has not ended
    published,     \* number of messages published
    refused        \* ends that refused a message on a session of this connection

vars == <<secret, profiles, link, stream, session, next_sid, opening, to_send,
          reply, alive, published, refused>>
config == <<secret, profiles>>

Hello(sid)        == [op |-> "hello", sid |-> sid, reply |-> FALSE]
Authenticate(sid) == [op |-> "authenticate", sid |-> sid, reply |-> FALSE]
Profiles(sid, r)  == [op |-> "profiles", sid |-> sid, reply |-> r]
Ready(sid, r)     == [op |-> "ready", sid |-> sid, reply |-> r]
Data(sid, d)      == [op |-> "data", sid |-> sid, type |-> d]

\* The message types of the profiles: a type carries its profile's version.
DataType == UNION {{[profile_id |-> l[i].profile_id, major |-> l[i].major, minor |-> l[i].minor] :
                       i \in 1..Len(l)} : l \in ProfileList}

Fresh == [state |-> "handshaking", negotiated |-> <<>>]

Init ==
    /\ secret \in [End -> Secret]
    /\ profiles \in [End -> ProfileList]
    /\ link = "up"
    /\ stream = [e \in End |-> <<>>]
    /\ session = [e \in End |-> [s \in Sid |-> NoSession]]
    /\ next_sid = 1
    /\ opening = FALSE
    /\ to_send = <<>>
    /\ reply = [e \in End |-> <<>>]
    /\ alive = [e \in End |-> TRUE]
    /\ published = 0
    /\ refused = {}

\* send_session and publish: the envelope joins the stream to the other end,
\* and is lost if the connection is gone.
Send(e, m) == stream' = IF link = "up" /\ alive[e]
                        THEN [stream EXCEPT ![Other(e)] = Append(@, m)] ELSE stream

----------------------------------------------------------------------------
(* open_session, in a thread of the client *)

\* The connection is looked up in the table, where it stays after its receive
\* thread has ended, and a session id is taken ...
OpenSession ==
    /\ ~opening /\ to_send = <<>> /\ next_sid <= MaxSid
    /\ opening' = TRUE
    /\ next_sid' = next_sid + 1
    /\ UNCHANGED <<config, link, stream, session, to_send, reply, alive, published, refused>>

\* ... the entry is written, in another critical section ...
InsertSession ==
    /\ opening
    /\ LET sid == next_sid - 1
       IN  /\ session' = [session EXCEPT !["client"][sid] = Fresh]
           /\ to_send' = <<Hello(sid), Authenticate(sid), Profiles(sid, FALSE), Ready(sid, FALSE)>>
    /\ opening' = FALSE
    /\ UNCHANGED <<config, link, stream, next_sid, reply, alive, published, refused>>

\* ... and the four envelopes are sent, without waiting for an answer.
SendOpening ==
    /\ to_send # <<>>
    /\ Send("client", Head(to_send))
    /\ to_send' = Tail(to_send)
    /\ UNCHANGED <<config, link, session, next_sid, opening, reply, alive, published, refused>>

----------------------------------------------------------------------------
(* runtime_handle_envelope, in the receive thread of an end *)

\* The session entry, created if it is missing.
Entry(e, sid) == IF session[e][sid] = NoSession THEN Fresh ELSE session[e][sid]

AfterAuthenticate(e, s) ==
    [s EXCEPT !.state = IF secret[Other(e)] = secret[e] THEN "authenticated"
                        ELSE "invalid"]

AfterProfilesAlways(e, s) ==      \* mutant: an Invalid session goes on
    [state |-> "negotiated", negotiated |-> Negotiated(profiles[e], profiles[Other(e)])]

AfterProfiles(e, s) ==
    [state |-> IF s.state = "invalid" THEN "invalid" ELSE "negotiated",
     negotiated |-> Negotiated(profiles[e], profiles[Other(e)])]

AfterReady(s) ==
    [s EXCEPT !.state = IF @ \in {"negotiated", "active"} THEN "active" ELSE "invalid"]

\* The entry after a session envelope.
After(e, m) ==
    LET s == Entry(e, m.sid)
    IN  IF m.op = "authenticate" THEN AfterAuthenticate(e, s)
        ELSE IF m.op = "profiles" THEN AfterProfiles(e, s)
        ELSE IF m.op = "ready" THEN AfterReady(s)
        ELSE s                                  \* hello

AnswerReplies(e, m) ==            \* mutant: replies are answered too
    IF m.op = "profiles" THEN <<Profiles(m.sid, TRUE)>>
    ELSE IF m.op = "ready" /\ Entry(e, m.sid).state = "negotiated" THEN <<Ready(m.sid, TRUE)>>
    ELSE <<>>

AnswerProfilesOnly(e, m) ==       \* mutant: ready is not answered
    IF ~m.reply /\ m.op = "profiles" THEN <<Profiles(m.sid, TRUE)>> ELSE <<>>

\* Only envelopes that are not replies themselves are answered: the profile list
\* always, ready when it has made the session Active.
Answer(e, m) ==
    IF m.reply THEN <<>>
    ELSE IF m.op = "profiles" THEN <<Profiles(m.sid, TRUE)>>
    ELSE IF m.op = "ready" /\ Entry(e, m.sid).state = "negotiated" THEN <<Ready(m.sid, TRUE)>>
    ELSE <<>>

HandleSession(e) ==
    /\ alive[e] /\ reply[e] = <<>> /\ stream[e] # <<>>
    /\ LET m == Head(stream[e])
       IN  /\ m.op # "data"
           /\ session' = [session EXCEPT ![e][m.sid] = After(e, m)]
           /\ reply' = [reply EXCEPT ![e] = Answer(e, m)]
    /\ stream' = [stream EXCEPT ![e] = Tail(@)]
    /\ UNCHANGED <<config, link, next_sid, opening, to_send, alive, published, refused>>

\* The reply goes out after the mutex is released and the event is raised.
SendReply(e) ==
    /\ reply[e] # <<>>
    /\ Send(e, reply[e][1])
    /\ reply' = [reply EXCEPT ![e] = <<>>]
    /\ UNCHANGED <<config, link, session, next_sid, opening, to_send, alive, published, refused>>

\* The session and profile check of any other envelope.
Admitted(e, m) ==
    LET s == session[e][m.sid]
    IN  /\ s # NoSession
        /\ s.state = "active"
        /\ supports_profile(s.negotiated, m.type.profile_id, m.type.major, m.type.minor)

HandleData(e) ==
    /\ alive[e] /\ reply[e] = <<>> /\ stream[e] # <<>>
    /\ LET m == Head(stream[e])
       IN  /\ m.op = "data"
           /\ refused' = IF Admitted(e, m) THEN refused ELSE refused \cup {e}
    /\ stream' = [stream EXCEPT ![e] = Tail(@)]
    /\ UNCHANGED <<config, link, session, next_sid, opening, to_send, reply, alive, published>>

\* publish with a type of some profile list: send refuses it unless the
\* sender's session supports it.
Publish(e, sid, type) ==
    /\ alive[e] /\ link = "up" /\ published < MaxData
    /\ session[e][sid] # NoSession
    /\ session[e][sid].state = "active"
    /\ supports_profile(session[e][sid].negotiated, type.profile_id, type.major, type.minor)
    /\ Send(e, Data(sid, type))
    /\ published' = published + 1
    /\ UNCHANGED <<config, link, session, next_sid, opening, to_send, reply, alive, refused>>

----------------------------------------------------------------------------
(* The connection *)

\* The connection breaks; each end has received a prefix of what was sent.
LinkLost ==
    /\ link = "up"
    /\ link' = "down"
    /\ \E c \in 0..Len(stream["client"]), s \in 0..Len(stream["server"]) :
          stream' = [e \in End |-> SubSeq(stream[e], 1, IF e = "client" THEN c ELSE s)]
    /\ UNCHANGED <<config, session, next_sid, opening, to_send, reply, alive, published, refused>>

DropActiveSessions(e) ==          \* mutant: half-open sessions are kept
    /\ link = "down" /\ alive[e]
    /\ stream[e] = <<>> /\ reply[e] = <<>>
    /\ alive' = [alive EXCEPT ![e] = FALSE]
    /\ session' = [session EXCEPT ![e] =
                     [s \in Sid |-> IF @[s] # NoSession /\ @[s].state = "active"
                                    THEN NoSession ELSE @[s]]]
    /\ UNCHANGED <<config, link, stream, next_sid, opening, to_send, reply,
                   published, refused>>

\* The receive loop ends when it has handled what it has received;
\* runtime_drop_peer_state marks the sessions Lost and erases them.
DropPeerState(e) ==
    /\ link = "down" /\ alive[e]
    /\ stream[e] = <<>> /\ reply[e] = <<>>
    /\ alive' = [alive EXCEPT ![e] = FALSE]
    /\ session' = [session EXCEPT ![e] = [s \in Sid |-> NoSession]]
    /\ UNCHANGED <<config, link, stream, next_sid, opening, to_send, reply,
                   published, refused>>

ReceiveThread(e) == HandleSession(e) \/ HandleData(e) \/ SendReply(e) \/ DropPeerState(e)

Next ==
    \/ OpenSession \/ InsertSession \/ SendOpening
    \/ \E e \in End : ReceiveThread(e)
    \/ \E e \in End, sid \in Sid, type \in DataType : Publish(e, sid, type)
    \/ LinkLost

Spec == Init /\ [][Next]_vars

\* The threads are scheduled, and TCP delivers while the connection is up.
FairSpec == /\ Spec /\ WF_vars(InsertSession \/ SendOpening)
            /\ \A e \in End : WF_vars(ReceiveThread(e))

----------------------------------------------------------------------------
(* What the handshake promises *)

TypeOK ==
    /\ secret \in [End -> Secret] /\ profiles \in [End -> ProfileList]
    /\ link \in {"up", "down"} /\ alive \in [End -> BOOLEAN]
    /\ \A e \in End, s \in Sid :
          session[e][s] # NoSession => session[e][s].state \in State
    /\ next_sid \in 1..MaxSid + 1 /\ published \in 0..MaxData /\ refused \subseteq End
    /\ \A e \in End : Len(reply[e]) <= 1

IsActive(e, s) == session[e][s] # NoSession /\ session[e][s].state = "active"

\* A session that is Active at the client is Active at the server, with the same
\* negotiated profiles, as long as the server's receive thread has not dropped
\* it: the two ends agree although each computes the profiles by itself.  So
\* what a client publishes on an Active session is not refused by the server.
ClientActiveAgrees ==
    /\ \A s \in Sid : IsActive("client", s) /\ alive["server"] =>
          /\ IsActive("server", s)
          /\ session["server"][s].negotiated = session["client"][s].negotiated
    /\ "server" \notin refused

\* With different secrets no session becomes Active at either end, although the
\* server answers the profile list and the client reaches Negotiated.
WrongSecretStaysOut ==
    secret["client"] # secret["server"] =>
        \A e \in End, s \in Sid : ~IsActive(e, s)

\* An Active session stays Active until its connection's state is dropped.  A
\* profile list that arrives late would take it back to Negotiated
\* (runtime_handle_envelope sets the state whatever it was), so this rests on
\* which envelopes are answered and on the order of the answers.
ActiveStays ==
    [][\A e \in End, s \in Sid : IsActive(e, s) => IsActive(e, s)' \/ ~alive'[e]]_vars

\* A session the client opens becomes Active at both ends, unless the secrets
\* differ or the connection breaks.
HandshakeCompletes ==
    \A s \in Sid :
        (s < next_sid) ~> \/ link = "down" \/ secret["client"] # secret["server"]
                          \/ IsActive("client", s) /\ IsActive("server", s)

\* A session that is in the table when the connection breaks is dropped.  (One
\* that open_session enters after runtime_drop_peer_state is not: the lookup of
\* the connection and the insertion are two critical sections.)
LossForgetsSessions ==
    \A e \in End, s \in Sid :
        (link = "down" /\ alive[e] /\ session[e][s] # NoSession) ~> session[e][s] = NoSession

\* docs/wire-v2.md, Session Profiles: "a missing required Profile prevents the
\* session from becoming usable."  A session on which runtime_handle_envelope
\* admits messages has negotiated every required profile.
RequiredProfilesPresent ==
    \A e \in End, s \in Sid :
        IsActive(e, s) => Required \subseteq DOMAIN session[e][s].negotiated
=============================================================================
