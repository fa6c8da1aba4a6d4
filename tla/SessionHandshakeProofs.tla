----------------------- MODULE SessionHandshakeProofs -----------------------
(***************************************************************************)
(* Machine-checked proofs about SessionHandshake, for any secrets, profile *)
(* lists and number of sessions and messages.                              *)
(***************************************************************************)
EXTENDS SessionHandshake, TLAPS

(***************************************************************************)
(* Profile negotiation gives both ends the same result.                    *)
(***************************************************************************)

\* A list of profiles is a sequence of descriptors with different ids.
LEMMA ListFacts ==
  ASSUME NEW l \in ProfileList
  PROVE  /\ l \in Seq(ProfileDescriptor) /\ Len(l) \in Nat
         /\ \A i \in 1..Len(l) : l[i] \in ProfileDescriptor
         /\ \A i, j \in 1..Len(l) : l[i].profile_id = l[j].profile_id => i = j
  BY HandshakeAssumption

\* negotiate_profile looks for the local profile of an id: the only one.
LEMMA FirstLocalFacts ==
  ASSUME NEW l \in ProfileList, NEW id
  PROVE  /\ \A i \in 1..Len(l) : l[i].profile_id = id => FirstLocal(l, id) = i
         /\ (\A i \in 1..Len(l) : l[i].profile_id # id) => FirstLocal(l, id) = 0
  <1> DEFINE I == {i \in 1..Len(l) : l[i].profile_id = id}
  <1>1. FirstLocal(l, id) = IF I # {} THEN Min(I) ELSE 0
    BY DEF FirstLocal, SelectInSeq
  <1>2. ASSUME NEW i \in 1..Len(l), l[i].profile_id = id PROVE FirstLocal(l, id) = i
    <2>1. I = {i}
      BY <1>2, ListFacts
    <2>2. i <= i
      BY ListFacts
    <2>3. Min({i}) = i
      BY <2>2 DEF Min
    <2> QED
      BY <1>1, <2>1, <2>3
  <1>3. (\A i \in 1..Len(l) : l[i].profile_id # id) => I = {}
    OBVIOUS
  <1> HIDE DEF I
  <1> QED
    BY <1>1, <1>2, <1>3

\* The local and the remote profile of an id meet.
Meet(l, r, i, j) ==
    /\ i \in 1..Len(l) /\ j \in 1..Len(r)
    /\ l[i].profile_id = r[j].profile_id /\ Compatible(l[i], r[j])

\* Which remote profiles are accepted.
LEMMA AcceptedFacts ==
  ASSUME NEW l \in ProfileList, NEW r \in ProfileList
  PROVE  AcceptedAt(l, r) = {j \in 1..Len(r) : \E i \in 1..Len(l) : Meet(l, r, i, j)}
  <1>1. ASSUME NEW j \in 1..Len(r)
        PROVE  Accepts(l, r[j]) <=> \E i \in 1..Len(l) : Meet(l, r, i, j)
    <2>1. CASE \A i \in 1..Len(l) : l[i].profile_id # r[j].profile_id
      BY <2>1, FirstLocalFacts DEF Accepts, Meet
    <2>2. CASE \E i \in 1..Len(l) : l[i].profile_id = r[j].profile_id
      <3> PICK i \in 1..Len(l) : l[i].profile_id = r[j].profile_id
        BY <2>2
      <3>1. FirstLocal(l, r[j].profile_id) = i
        BY FirstLocalFacts
      <3>2. i # 0
        BY ListFacts
      <3>3. \A k \in 1..Len(l) : l[k].profile_id = r[j].profile_id => k = i
        BY ListFacts
      <3> QED
        BY <3>1, <3>2, <3>3 DEF Accepts, Meet
    <2> QED
      BY <2>1, <2>2
  <1> QED
    BY <1>1 DEF AcceptedAt

\* What negotiated_profiles has under the id of two profiles that meet.
LEMMA NegotiatedValue ==
  ASSUME NEW l \in ProfileList, NEW r \in ProfileList, NEW i, NEW j, Meet(l, r, i, j)
  PROVE  /\ r[j].profile_id \in DOMAIN Negotiated(l, r)
         /\ Negotiated(l, r)[r[j].profile_id] = negotiate_profile(l[i], r[j])
  <1> DEFINE at == AcceptedAt(l, r)
             id == r[j].profile_id
             last == CHOOSE k \in at : /\ r[k].profile_id = id
                                       /\ \A m \in at : r[m].profile_id = id => m <= k
  <1>1. j \in at
    BY AcceptedFacts DEF Meet
  <1>2. \A k \in at : k \in 1..Len(r) /\ (r[k].profile_id = id => k = j)
    BY ListFacts DEF AcceptedAt, Meet
  <1>3. last = j
    <2>1. j <= j
      BY ListFacts DEF Meet
    <2>2. r[j].profile_id = id /\ \A m \in at : r[m].profile_id = id => m <= j
      BY <1>2, <2>1
    <2> HIDE DEF at, id
    <2>3. \E k \in at : r[k].profile_id = id /\ \A m \in at : r[m].profile_id = id => m <= k
      BY <1>1, <2>2
    <2>4. last \in at /\ r[last].profile_id = id
      BY <2>3
    <2> QED
      BY <1>2, <2>4
  <1>4. FirstLocal(l, id) = i
    BY FirstLocalFacts DEF Meet
  <1>5. id \in {r[k].profile_id : k \in at}
    BY <1>1
  <1>6. Negotiated(l, r) =
          [x \in {r[k].profile_id : k \in at} |->
             LET z == CHOOSE k \in at : /\ r[k].profile_id = x
                                        /\ \A m \in at : r[m].profile_id = x => m <= k
             IN  negotiate_profile(l[FirstLocal(l, x)], r[z])]
    BY DEF Negotiated
  <1>7. Negotiated(l, r)[id] = negotiate_profile(l[FirstLocal(l, id)], r[last])
    BY <1>5, <1>6
  <1> QED
    BY <1>3, <1>4, <1>5, <1>6, <1>7

\* The ids in negotiated_profiles are those of the accepted profiles.
LEMMA NegotiatedDomain ==
  ASSUME NEW l \in ProfileList, NEW r \in ProfileList, NEW id \in DOMAIN Negotiated(l, r)
  PROVE  \E i \in 1..Len(l), j \in 1..Len(r) : Meet(l, r, i, j) /\ r[j].profile_id = id
  <1>1. DOMAIN Negotiated(l, r) = {r[k].profile_id : k \in AcceptedAt(l, r)}
    BY DEF Negotiated
  <1>2. PICK j \in AcceptedAt(l, r) : r[j].profile_id = id
    BY <1>1
  <1>3. j \in 1..Len(r) /\ \E i \in 1..Len(l) : Meet(l, r, i, j)
    BY <1>2, AcceptedFacts
  <1> QED
    BY <1>2, <1>3

\* The lower minor version is the same from both ends, and so is the descriptor.
LEMMA NegotiateSymmetric ==
  ASSUME NEW a \in ProfileDescriptor, NEW b \in ProfileDescriptor, Compatible(a, b)
  PROVE  Compatible(b, a) /\ negotiate_profile(a, b) = negotiate_profile(b, a)
  BY DEF ProfileDescriptor, Compatible, negotiate_profile

\* Both ends negotiate the same profiles, although each starts from its own list.
THEOREM NegotiatedSymmetric ==
  ASSUME NEW l \in ProfileList, NEW r \in ProfileList
  PROVE  Negotiated(l, r) = Negotiated(r, l)
  <1>1. ASSUME NEW a \in ProfileList, NEW b \in ProfileList
        PROVE  \A id \in DOMAIN Negotiated(a, b) :
                  /\ id \in DOMAIN Negotiated(b, a)
                  /\ Negotiated(a, b)[id] = Negotiated(b, a)[id]
    <2> TAKE id \in DOMAIN Negotiated(a, b)
    <2>1. PICK i \in 1..Len(a), k \in 1..Len(b) : Meet(a, b, i, k) /\ b[k].profile_id = id
      BY NegotiatedDomain
    <2>2. Meet(b, a, k, i) /\ a[i].profile_id = id
      BY <2>1, ListFacts, NegotiateSymmetric DEF Meet
    <2>3. negotiate_profile(a[i], b[k]) = negotiate_profile(b[k], a[i])
      BY <2>1, ListFacts, NegotiateSymmetric DEF Meet
    <2> QED
      BY <2>1, <2>2, <2>3, NegotiatedValue
  <1>3. /\ Negotiated(l, r) = [x \in DOMAIN Negotiated(l, r) |-> Negotiated(l, r)[x]]
        /\ Negotiated(r, l) = [x \in DOMAIN Negotiated(r, l) |-> Negotiated(r, l)[x]]
    BY DEF Negotiated
  <1>4. DOMAIN Negotiated(l, r) = DOMAIN Negotiated(r, l)
    BY <1>1
  <1> QED
    BY <1>1, <1>3, <1>4

(***************************************************************************)
(* The inductive invariant.                                                *)
(***************************************************************************)
Ops == {"hello", "authenticate", "profiles", "ready"}
SessionMsg == [op : Ops, sid : Sid, reply : BOOLEAN]
DataMsg == [op : {"data"}, sid : Sid, type : DataType]
Msg == SessionMsg \cup DataMsg

HType ==
    /\ secret \in [End -> Secret] /\ profiles \in [End -> ProfileList]
    /\ link \in {"up", "down"} /\ alive \in [End -> BOOLEAN]
    /\ stream \in [End -> Seq(Msg)]
    /\ session \in [End -> [Sid -> Entries \cup {NoSession}]]
    /\ next_sid \in 1..MaxSid + 1 /\ opening \in BOOLEAN
    /\ to_send \in Seq(SessionMsg)
    /\ reply \in [End -> Seq(SessionMsg)]
    /\ refused \subseteq End

\* The place of an envelope in the handshake.
Rank == 1..4
OpRank(op) == IF op = "hello" THEN 1 ELSE IF op = "authenticate" THEN 2
              ELSE IF op = "profiles" THEN 3 ELSE 4

\* How far the server has got with a session.
Stage(s) ==
    IF session["server"][s] = NoSession THEN 0
    ELSE IF session["server"][s].state = "handshaking" THEN 1
    ELSE IF session["server"][s].state = "authenticated" THEN 2
    ELSE IF session["server"][s].state = "negotiated" THEN 3
    ELSE IF session["server"][s].state = "active" THEN 4 ELSE 5

ToServer == stream["server"]
ToClient == stream["client"]

\* The envelope of session s with rank r.
Is(m, s, r) == m.op # "data" /\ m.sid = s /\ OpRank(m.op) = r

\* Requests go to the server and replies to the client, which answers nothing; a
\* thread that has ended has nothing left to handle and gets nothing any more.
Directions ==
    /\ \A i \in 1..Len(ToServer) : ToServer[i].op # "data" => ~ToServer[i].reply
    /\ \A i \in 1..Len(ToClient) : ToClient[i].op # "data" =>
          ToClient[i].reply /\ ToClient[i].op \in {"profiles", "ready"}
    /\ reply["client"] = <<>>
    /\ reply["server"] # <<>> =>
          /\ Len(reply["server"]) = 1
          /\ reply["server"][1].reply /\ reply["server"][1].op \in {"profiles", "ready"}
    /\ \A e \in End : ~alive[e] => link = "down" /\ stream[e] = <<>> /\ reply[e] = <<>>

\* open_session sends its four envelopes in order.
OpeningOrder ==
    /\ Len(to_send) <= 4
    /\ \A i \in 1..Len(to_send) :
          /\ to_send[i].sid = next_sid - 1 /\ ~to_send[i].reply
          /\ OpRank(to_send[i].op) = 4 - Len(to_send) + i
    /\ to_send # <<>> => ~opening
    /\ to_send # <<>> \/ opening => next_sid > 1

\* Nothing is known of a session that open_session has not entered.
UnusedFresh ==
    \A s \in Sid : s >= next_sid \/ (opening /\ s = next_sid - 1) =>
        /\ session["server"][s] = NoSession /\ session["client"][s] = NoSession
        /\ \A i \in 1..Len(ToServer) : ToServer[i].sid # s
        /\ \A i \in 1..Len(ToClient) : ToClient[i].sid # s
        /\ reply["server"] # <<>> => reply["server"][1].sid # s

\* Each end computes the profiles from the two lists.
NegotiatedFromLists ==
    \A e \in End, s \in Sid :
        session[e][s] # NoSession /\ session[e][s].state \in {"negotiated", "active"} =>
            session[e][s].negotiated = Negotiated(profiles[e], profiles[Other(e)])

\* The envelope of session s with rank r, behind the first n on their way to the
\* server, continues where the server is or where an envelope before it leaves off.
Continues(n, s, r) ==
    /\ Stage(s) < r
    /\ Stage(s) = r - 1 \/ \E j \in 1..n : Is(ToServer[j], s, r - 1)
    /\ \A j \in 1..n, q \in Rank : Is(ToServer[j], s, q) => q < r

\* So do the envelopes on their way, and what open_session has still to send.
InOrderToServer ==
    \A i \in 1..Len(ToServer), s \in Sid, r \in Rank :
        Is(ToServer[i], s, r) => Continues(i - 1, s, r)

InOrderToSend ==
    \A s \in Sid, r \in Rank :
        link = "up" /\ to_send # <<>> /\ s = next_sid - 1 /\ r = 5 - Len(to_send) =>
            Continues(Len(ToServer), s, r)

\* The first n envelopes on their way to the client come before the one of session s
\* with rank r, and a profile list will find a session that is not Active yet.
Follows(n, s, r) ==
    /\ \A j \in 1..n, q \in Rank : Is(ToClient[j], s, q) => q < r
    /\ r = 3 => ~IsActive("client", s)

\* A reply, sent or about to be, comes from a server that has got so far.
InOrderToClient ==
    \A i \in 1..Len(ToClient), s \in Sid, r \in Rank : Is(ToClient[i], s, r) =>
        (alive["server"] => r <= Stage(s)) /\ Follows(i - 1, s, r)

InOrderReply ==
    reply["server"] # <<>> =>
        \A s \in Sid, r \in Rank : Is(reply["server"][1], s, r) =>
            r <= Stage(s) /\ Follows(Len(ToClient), s, r)

\* The server never rejects a session whose secret is right, is Active where the client
\* is, and admits what the client publishes.
ServerFollows ==
    /\ \A s \in Sid : Stage(s) <= 4
    /\ \A s \in Sid : IsActive("client", s) /\ alive["server"] => Stage(s) = 4
    /\ \A i \in 1..Len(ToServer) : ToServer[i].op = "data" => Admitted("server", ToServer[i])

\* With equal secrets the handshake goes forward in order.
RightSecret ==
    secret["client"] = secret["server"] =>
        /\ InOrderToServer /\ InOrderToSend /\ InOrderToClient /\ InOrderReply
        /\ ServerFollows

\* With different secrets authenticate comes before anything that could take the
\* session further, and makes it Invalid; the server never sends ready.
Rejects(n, s) ==
    \/ session["server"][s] # NoSession /\ session["server"][s].state = "invalid"
    \/ \E j \in 1..n : Is(ToServer[j], s, 2)

WrongSecret ==
    secret["client"] # secret["server"] =>
        /\ \A s \in Sid : session["server"][s] # NoSession =>
              session["server"][s].state \in {"handshaking", "invalid"}
        /\ \A s \in Sid : session["client"][s] # NoSession =>
              session["client"][s].state \in {"handshaking", "negotiated"}
        /\ \A i \in 1..Len(ToServer) : ToServer[i].op # "data"
        /\ \A i \in 1..Len(ToServer), s \in Sid :
              Is(ToServer[i], s, 3) \/ Is(ToServer[i], s, 4) => Rejects(i - 1, s)
        /\ \A s \in Sid :
              link = "up" /\ to_send # <<>> /\ Len(to_send) <= 2 /\ s = next_sid - 1 =>
                  Rejects(Len(ToServer), s)
        /\ \A i \in 1..Len(ToClient) : ToClient[i].op = "profiles"
        /\ reply["server"] # <<>> => reply["server"][1].op = "profiles"

HInv ==
    /\ HType /\ Directions /\ OpeningOrder /\ UnusedFresh /\ NegotiatedFromLists
    /\ RightSecret /\ WrongSecret /\ "server" \notin refused
(***************************************************************************)
(* Sequences and table entries.                                            *)
(***************************************************************************)

\* The stream after its first envelope has been handled.
LEMMA TailFacts ==
  ASSUME NEW T, NEW s \in Seq(T), s # <<>>
  PROVE  /\ Len(s) \in Nat \ {0} /\ s[1] \in T /\ Head(s) = s[1]
         /\ Tail(s) \in Seq(T) /\ Len(Tail(s)) = Len(s) - 1
         /\ \A i \in 1..Len(Tail(s)) : Tail(s)[i] = s[i + 1]
  OBVIOUS

\* The stream after an envelope has been sent.
LEMMA AppendFacts ==
  ASSUME NEW T, NEW s \in Seq(T), NEW m \in T
  PROVE  /\ Append(s, m) \in Seq(T) /\ Len(Append(s, m)) = Len(s) + 1 /\ Len(s) \in Nat
         /\ \A i \in 1..Len(s) : Append(s, m)[i] = s[i]
         /\ Append(s, m)[Len(s) + 1] = m
  OBVIOUS

\* A reply of at most one message is a sequence of messages.
LEMMA OneFacts ==
  ASSUME NEW T, NEW m \in T
  PROVE  <<>> \in Seq(T) /\ <<m>> \in Seq(T)
  OBVIOUS

\* The four opening messages are a sequence of messages.
LEMMA FourFacts ==
  ASSUME NEW T, NEW a \in T, NEW b \in T, NEW c \in T, NEW d \in T
  PROVE  <<a, b, c, d>> \in Seq(T)
  OBVIOUS

\* The stream after a loss of the connection.
LEMMA PrefixFacts ==
  ASSUME NEW T, NEW s \in Seq(T), NEW n \in Nat, n <= Len(s)
  PROVE  /\ SubSeq(s, 1, n) \in Seq(T) /\ Len(SubSeq(s, 1, n)) = n
         /\ \A i \in 1..n : SubSeq(s, 1, n)[i] = s[i]
  OBVIOUS

\* An envelope goes to the other end while the connection is up.
LEMMA SendFacts ==
  ASSUME HType, NEW e \in End, NEW m \in Msg, Send(e, m)
  PROVE  /\ stream' \in [End -> Seq(Msg)]
         /\ stream'[e] = stream[e]
         /\ \/ link = "up" /\ alive[e] /\ stream'[Other(e)] = Append(stream[Other(e)], m)
            \/ ~(link = "up" /\ alive[e]) /\ stream'[Other(e)] = stream[Other(e)]
  <1>1. Other(e) \in End /\ Other(e) # e
    BY DEF Other, End
  <1>2. Append(stream[Other(e)], m) \in Seq(Msg)
    BY <1>1, AppendFacts DEF HType
  <1> QED
    BY <1>1, <1>2 DEF Send, HType

\* The entry a session envelope leaves is an entry, and keeps the profiles unless it
\* brings the list.
LEMMA AfterFacts ==
  ASSUME HType, NEW e \in End, NEW m \in SessionMsg
  PROVE  /\ Entry(e, m.sid) \in Entries
         /\ After(e, m) \in Entries
         /\ m.op = "profiles" => After(e, m).negotiated = Negotiated(profiles[e], profiles[Other(e)])
         /\ m.op # "profiles" => After(e, m).negotiated = Entry(e, m.sid).negotiated
         /\ m.op = "hello" => After(e, m) = Entry(e, m.sid)
         /\ m.op = "authenticate" => After(e, m).state =
               IF secret[Other(e)] = secret[e] THEN "authenticated" ELSE "invalid"
         /\ m.op = "profiles" => After(e, m).state =
               IF Entry(e, m.sid).state = "invalid" THEN "invalid" ELSE "negotiated"
         /\ m.op = "ready" => After(e, m).state =
               IF Entry(e, m.sid).state \in {"negotiated", "active"} THEN "active" ELSE "invalid"
  <1>1. Other(e) \in End
    BY DEF Other, End
  <1>2. <<>> \in Negotiations
    BY DEF Negotiations
  <1>3. Negotiated(profiles[e], profiles[Other(e)]) \in Negotiations
    BY <1>1 DEF HType, Negotiations
  <1>4. m.op \in Ops /\ m.sid \in Sid
    BY DEF SessionMsg
  <1>5. Entry(e, m.sid) \in Entries
    BY <1>2, <1>4 DEF Entry, HType, Fresh, Entries, State
  <1>6. CASE m.op = "hello"
    BY <1>5, <1>6 DEF After
  <1>7. CASE m.op = "authenticate"
    BY <1>5, <1>7 DEF After, AfterAuthenticate, Entries, State
  <1>8. CASE m.op = "profiles"
    BY <1>3, <1>5, <1>8 DEF After, AfterProfiles, Entries, State
  <1>9. CASE m.op = "ready"
    BY <1>5, <1>9 DEF After, AfterReady, Entries, State
  <1> QED
    BY <1>4, <1>5, <1>6, <1>7, <1>8, <1>9 DEF Ops

\* Nothing has been opened.
LEMMA InitHInv == Init => HInv
  <1> SUFFICES ASSUME Init PROVE HInv
    OBVIOUS
  <1>1. HType
    <2>1. <<>> \in Seq(Msg) /\ <<>> \in Seq(SessionMsg)
      OBVIOUS
    <2>2. stream \in [End -> Seq(Msg)] /\ reply \in [End -> Seq(SessionMsg)]
      BY <2>1 DEF Init
    <2>3. session \in [End -> [Sid -> Entries \cup {NoSession}]]
      BY DEF Init
    <2>4. next_sid \in 1..MaxSid + 1
      BY HandshakeAssumption DEF Init
    <2> QED
      BY <2>1, <2>2, <2>3, <2>4 DEF Init, HType
  <1>2. \A e \in End : Len(stream[e]) = 0
    BY DEF Init
  <1>3. Directions /\ OpeningOrder /\ UnusedFresh /\ NegotiatedFromLists /\ "server" \notin refused
    BY <1>2
    DEF Init, Directions, OpeningOrder, UnusedFresh, NegotiatedFromLists, ToServer, ToClient, End
  <1>4. RightSecret
    BY <1>2
    DEF Init, RightSecret, InOrderToServer, InOrderToSend, InOrderToClient, InOrderReply,
        ServerFollows, ToServer, ToClient, End, Stage, IsActive
  <1>5. WrongSecret
    BY <1>2 DEF Init, WrongSecret, ToServer, ToClient, End
  <1> QED
    BY <1>1, <1>3, <1>4, <1>5 DEF HInv

(***************************************************************************)
(* The table and the streams after an envelope has been handled.           *)
(***************************************************************************)

\* One place of a function changes.
LEMMA ExceptFacts ==
  ASSUME NEW S, NEW T, NEW f \in [S -> T], NEW x \in S, NEW v \in T
  PROVE  /\ [f EXCEPT ![x] = v] \in [S -> T]
         /\ [f EXCEPT ![x] = v][x] = v
         /\ \A y \in S : y # x => [f EXCEPT ![x] = v][y] = f[y]
  OBVIOUS

\* The receive thread takes the first envelope.
Takes(e) ==
    /\ stream[e] \in Seq(Msg) /\ Len(stream[e]) \in Nat \ {0} /\ stream[e][1] \in Msg
    /\ stream' \in [End -> Seq(Msg)]
    /\ Len(stream'[e]) = Len(stream[e]) - 1
    /\ \A i \in 1..Len(stream'[e]) :
          stream'[e][i] = stream[e][i + 1] /\ i + 1 \in 1..Len(stream[e])
    /\ stream'[Other(e)] = stream[Other(e)]

\* Taking the first message of a stream leaves the rest of it.
LEMMA TakesFacts ==
  ASSUME HType, NEW e \in End, stream[e] # <<>>, stream' = [stream EXCEPT ![e] = Tail(stream[e])]
  PROVE  Takes(e) /\ Head(stream[e]) = stream[e][1]
  <1>1. Other(e) \in End /\ Other(e) # e
    BY DEF Other, End
  <1>2. stream \in [End -> Seq(Msg)] /\ stream[e] \in Seq(Msg)
    BY DEF HType
  <1>3. /\ Len(stream[e]) \in Nat \ {0} /\ stream[e][1] \in Msg /\ Head(stream[e]) = stream[e][1]
        /\ Tail(stream[e]) \in Seq(Msg) /\ Len(Tail(stream[e])) = Len(stream[e]) - 1
        /\ \A i \in 1..Len(Tail(stream[e])) : Tail(stream[e])[i] = stream[e][i + 1]
    BY <1>2, TailFacts
  <1>4. /\ stream' \in [End -> Seq(Msg)] /\ stream'[e] = Tail(stream[e])
        /\ stream'[Other(e)] = stream[Other(e)]
    BY <1>1, <1>2, <1>3, ExceptFacts
  <1>5. \A i \in 1..Len(Tail(stream[e])) : i + 1 \in 1..Len(stream[e])
    BY <1>3
  <1> QED
    BY <1>2, <1>3, <1>4, <1>5 DEF Takes

\* What HandleSession does with the envelope m.
Handles(e, m) ==
    /\ m = stream[e][1] /\ m \in SessionMsg /\ m.op \in Ops /\ m.sid \in Sid /\ m.reply \in BOOLEAN
    /\ m.op # "data"
    /\ alive[e] /\ reply[e] = <<>>
    /\ session'[e][m.sid] = After(e, m)
    /\ \A s \in Sid : s # m.sid => session'[e][s] = session[e][s]
    /\ session'[Other(e)] = session[Other(e)]
    /\ reply'[e] = Answer(e, m) /\ reply'[Other(e)] = reply[Other(e)]
    /\ secret' = secret /\ profiles' = profiles /\ link' = link /\ next_sid' = next_sid
    /\ opening' = opening /\ to_send' = to_send /\ alive' = alive /\ refused' = refused

\* What the handler of a session message changes, and that it keeps the types.
LEMMA HandleFacts ==
  ASSUME HType, NEW e \in End, HandleSession(e)
  PROVE  Takes(e) /\ Handles(e, stream[e][1]) /\ HType'
  <1>1. Other(e) \in End /\ Other(e) # e
    BY DEF Other, End
  <1>2. /\ stream[e] # <<>> /\ alive[e] /\ reply[e] = <<>>
        /\ stream' = [stream EXCEPT ![e] = Tail(stream[e])]
        /\ secret' = secret /\ profiles' = profiles /\ link' = link /\ next_sid' = next_sid
        /\ opening' = opening /\ to_send' = to_send /\ alive' = alive /\ refused' = refused
    BY DEF HandleSession, config
  <1>3. Takes(e) /\ Head(stream[e]) = stream[e][1]
    BY <1>2, TakesFacts
  <1> DEFINE m == stream[e][1]
  <1>4. /\ m.op # "data"
        /\ session' = [session EXCEPT ![e][m.sid] = After(e, m)]
        /\ reply' = [reply EXCEPT ![e] = Answer(e, m)]
    BY <1>3 DEF HandleSession
  <1>5. m \in SessionMsg
    BY <1>3, <1>4 DEF Takes, Msg, DataMsg
  <1> HIDE DEF m
  <1>6. m.op \in Ops /\ m.sid \in Sid /\ m.reply \in BOOLEAN
    BY <1>5 DEF SessionMsg
  <1>7. After(e, m) \in Entries
    BY <1>5, AfterFacts
  <1>8. Answer(e, m) \in Seq(SessionMsg)
    <2>1. Profiles(m.sid, TRUE) \in SessionMsg /\ Ready(m.sid, TRUE) \in SessionMsg
      BY <1>6 DEF Profiles, Ready, SessionMsg, Ops
    <2>2. /\ <<>> \in Seq(SessionMsg) /\ <<Profiles(m.sid, TRUE)>> \in Seq(SessionMsg)
          /\ <<Ready(m.sid, TRUE)>> \in Seq(SessionMsg)
      BY <2>1, OneFacts
    <2>3. Answer(e, m) \in {<<>>, <<Profiles(m.sid, TRUE)>>, <<Ready(m.sid, TRUE)>>}
      BY DEF Answer
    <2> QED
      BY <2>2, <2>3
  <1>9. /\ reply' \in [End -> Seq(SessionMsg)]
        /\ reply'[e] = Answer(e, m) /\ reply'[Other(e)] = reply[Other(e)]
    BY <1>1, <1>4, <1>8, ExceptFacts DEF HType
  <1>10. /\ session' \in [End -> [Sid -> Entries \cup {NoSession}]]
         /\ session'[e][m.sid] = After(e, m)
         /\ \A s \in Sid : s # m.sid => session'[e][s] = session[e][s]
         /\ session'[Other(e)] = session[Other(e)]
    BY <1>1, <1>4, <1>6, <1>7 DEF HType
  <1>11. HType'
    BY <1>2, <1>3, <1>9, <1>10 DEF HType, Takes
  <1>12. Handles(e, m)
    BY <1>2, <1>4, <1>5, <1>6, <1>9, <1>10 DEF Handles, m
  <1> QED
    BY <1>3, <1>11, <1>12 DEF m

\* An envelope handled leaves what does not depend on the secrets.
LEMMA HandleDirections ==
  ASSUME Directions, NEW e \in End, Takes(e), Handles(e, stream[e][1])
  PROVE  Directions'
  <1> DEFINE m == stream[e][1]
  <1>1. CASE e = "client"
    <2>1. m.reply
      BY <1>1 DEF Directions, ToClient, Takes, Handles
    <2>2. reply'["client"] = <<>> /\ reply'["server"] = reply["server"]
      BY <1>1, <2>1 DEF Handles, Answer, Other
    <2>3. \A f \in End : ~alive'[f] => link' = "down" /\ stream'[f] = <<>> /\ reply'[f] = <<>>
      BY <1>1, <2>2 DEF Directions, Handles, Takes, Other, End
    <2>4. \A i \in 1..Len(ToClient') : ToClient'[i].op # "data" =>
             ToClient'[i].reply /\ ToClient'[i].op \in {"profiles", "ready"}
      BY <1>1 DEF Directions, ToClient, Takes
    <2>5. ToServer' = ToServer
      BY <1>1 DEF ToServer, Takes, Other
    <2> QED
      BY <2>2, <2>3, <2>4, <2>5 DEF Directions
  <1>2. CASE e = "server"
    <2>1. reply'["client"] = <<>> /\ reply'["server"] = Answer("server", m)
      BY <1>2 DEF Directions, Handles, Other
    <2>2. \/ Answer("server", m) = <<>>
          \/ Answer("server", m) = <<Profiles(m.sid, TRUE)>>
          \/ Answer("server", m) = <<Ready(m.sid, TRUE)>>
      BY DEF Answer
    <2>3. reply'["server"] # <<>> =>
             /\ Len(reply'["server"]) = 1
             /\ reply'["server"][1].reply /\ reply'["server"][1].op \in {"profiles", "ready"}
      BY <2>1, <2>2 DEF Profiles, Ready
    <2>4. \A f \in End : ~alive'[f] => link' = "down" /\ stream'[f] = <<>> /\ reply'[f] = <<>>
      BY <1>2, <2>1 DEF Directions, Handles, Takes, Other, End
    <2>5. \A i \in 1..Len(ToServer') : ToServer'[i].op # "data" => ~ToServer'[i].reply
      BY <1>2 DEF Directions, ToServer, Takes
    <2>6. ToClient' = ToClient
      BY <1>2 DEF ToClient, Takes, Other
    <2> QED
      BY <2>1, <2>3, <2>4, <2>5, <2>6 DEF Directions
  <1> QED
    BY <1>1, <1>2 DEF End

\* The handler creates no session that has not been opened.
LEMMA HandleUnused ==
  ASSUME UnusedFresh, NEW e \in End, Takes(e), Handles(e, stream[e][1])
  PROVE  UnusedFresh'
  <1> DEFINE m == stream[e][1]
  <1> SUFFICES ASSUME NEW s \in Sid, s >= next_sid \/ (opening /\ s = next_sid - 1)
               PROVE  /\ session'["server"][s] = NoSession /\ session'["client"][s] = NoSession
                      /\ \A i \in 1..Len(ToServer') : ToServer'[i].sid # s
                      /\ \A i \in 1..Len(ToClient') : ToClient'[i].sid # s
                      /\ reply'["server"] # <<>> => reply'["server"][1].sid # s
    BY DEF UnusedFresh, Handles
  <1>1. /\ session["server"][s] = NoSession /\ session["client"][s] = NoSession
        /\ \A i \in 1..Len(ToServer) : ToServer[i].sid # s
        /\ \A i \in 1..Len(ToClient) : ToClient[i].sid # s
        /\ reply["server"] # <<>> => reply["server"][1].sid # s
    BY DEF UnusedFresh
  <1>2. m.sid # s
    BY <1>1 DEF ToServer, ToClient, Takes, End
  <1>3. Answer(e, m) # <<>> => Answer(e, m)[1].sid = m.sid
    BY DEF Answer, Profiles, Ready
  <1>4. CASE e = "client"
    <2>1. session'["server"] = session["server"] /\ session'["client"][s] = session["client"][s]
      BY <1>2, <1>4 DEF Other, Handles
    <2>2. ToServer' = ToServer /\ reply'["server"] = reply["server"]
      BY <1>4 DEF ToServer, Other, Takes, Handles
    <2>3. \A i \in 1..Len(ToClient') : ToClient'[i].sid # s
      BY <1>1, <1>4 DEF ToClient, Takes
    <2> QED
      BY <1>1, <2>1, <2>2, <2>3
  <1>5. CASE e = "server"
    <2>1. session'["client"] = session["client"] /\ session'["server"][s] = session["server"][s]
      BY <1>2, <1>5 DEF Other, Handles
    <2>2. ToClient' = ToClient /\ reply'["server"] = Answer(e, m)
      BY <1>5 DEF ToClient, Other, Takes, Handles
    <2>3. \A i \in 1..Len(ToServer') : ToServer'[i].sid # s
      BY <1>1, <1>5 DEF ToServer, Takes
    <2> QED
      BY <1>1, <1>2, <1>3, <2>1, <2>2, <2>3
  <1> QED
    BY <1>4, <1>5 DEF End

\* The handler negotiates from the lists of both ends.
LEMMA HandleNegotiated ==
  ASSUME HType, NegotiatedFromLists, NEW e \in End, Handles(e, stream[e][1])
  PROVE  NegotiatedFromLists'
  <1> DEFINE m == stream[e][1]
  <1> SUFFICES ASSUME NEW f \in End, NEW s \in Sid, session'[f][s] # NoSession,
                      session'[f][s].state \in {"negotiated", "active"}
               PROVE  session'[f][s].negotiated = Negotiated(profiles[f], profiles[Other(f)])
    BY DEF NegotiatedFromLists, Handles
  <1>1. CASE f # e \/ s # m.sid
    <2>1. session'[f][s] = session[f][s]
      BY <1>1 DEF Other, End, Handles
    <2> QED
      BY <2>1 DEF NegotiatedFromLists
  <1>2. CASE f = e /\ s = m.sid
    <2>1. session'[f][s] = After(e, m) /\ m \in SessionMsg /\ m.op \in Ops /\ m.sid \in Sid
      BY <1>2 DEF Handles
    <2>2. Entry(e, m.sid).state \in {"negotiated", "active"} =>
             Entry(e, m.sid).negotiated = Negotiated(profiles[e], profiles[Other(e)])
      BY <2>1 DEF Entry, Fresh, NegotiatedFromLists
    <2> HIDE DEF m
    <2>3. CASE m.op = "profiles"
      BY <1>2, <2>1, <2>3, AfterFacts
    <2>4. CASE m.op # "profiles"
      <3>1. After(e, m).negotiated = Entry(e, m.sid).negotiated
        BY <2>1, <2>4, AfterFacts
      <3>2. m.op = "hello" => After(e, m) = Entry(e, m.sid)
        BY <2>1, AfterFacts
      <3>3. m.op = "authenticate" => After(e, m).state \in {"authenticated", "invalid"}
        BY <2>1, AfterFacts
      <3>4. m.op = "ready" => \/ After(e, m).state = "invalid"
                              \/ Entry(e, m.sid).state \in {"negotiated", "active"}
        BY <2>1, AfterFacts
      <3> QED
        BY <1>2, <2>1, <2>2, <2>4, <3>1, <3>2, <3>3, <3>4 DEF Ops
    <2> QED
      BY <2>3, <2>4
  <1> QED
    BY <1>1, <1>2

(***************************************************************************)
(* With equal secrets.                                                     *)
(***************************************************************************)

\* The place of each message in the opening sequence.
LEMMA RankFacts ==
  /\ \A op : OpRank(op) \in Rank
  /\ OpRank("hello") = 1 /\ OpRank("authenticate") = 2 /\ OpRank("profiles") = 3
  /\ OpRank("ready") = 4
  BY DEF OpRank, Rank

\* How far the session of the server is.
LEMMA StageFacts ==
  ASSUME HType, NEW s \in Sid
  PROVE  /\ Stage(s) \in 0..5
         /\ IsActive("server", s) <=> Stage(s) = 4
         /\ Stage(s) = 0 <=> session["server"][s] = NoSession
         /\ session["server"][s] # NoSession => session["server"][s] \in Entries
  <1>1. session["server"][s] \in Entries \cup {NoSession}
    BY DEF HType, End
  <1> QED
    BY <1>1 DEF Stage, IsActive, Entries, State

\* An envelope in its place takes the server one stage further.
LEMMA ServerStage ==
  ASSUME HType, NEW m, Handles("server", m), secret["client"] = secret["server"],
         NEW s \in Sid, NEW r \in Rank, Is(m, s, r), Stage(s) = r - 1
  PROVE  /\ Stage(s)' = r
         /\ \A x \in Sid : x # s => Stage(x)' = Stage(x)
  <1>1. /\ session'["server"][s] = After("server", m) /\ m \in SessionMsg /\ m.op \in Ops
        /\ m.sid = s /\ r = OpRank(m.op)
    BY DEF Handles, Is
  <1>2. After("server", m) # NoSession
    BY <1>1, AfterFacts, SentinelAssumption DEF End
  <1>3. m.op = "hello" => Stage(s)' = 1
    <2>1. m.op = "hello" => session["server"][s] = NoSession
      BY <1>1, StageFacts, RankFacts
    <2> QED
      BY <1>1, <1>2, <2>1, AfterFacts DEF Entry, Fresh, Stage, End
  <1>4. m.op = "authenticate" => Stage(s)' = 2
    BY <1>1, <1>2, AfterFacts DEF Stage, End, Other
  <1>5. m.op = "profiles" => Stage(s)' = 3
    <2>1. m.op = "profiles" => Entry("server", s).state = "authenticated"
      BY <1>1, RankFacts DEF Stage, Entry
    <2> QED
      BY <1>1, <1>2, <2>1, AfterFacts DEF Stage, End
  <1>6. m.op = "ready" => Stage(s)' = 4
    <2>1. m.op = "ready" => Entry("server", s).state = "negotiated"
      BY <1>1, RankFacts DEF Stage, Entry
    <2> QED
      BY <1>1, <1>2, <2>1, AfterFacts DEF Stage, End
  <1>7. \A x \in Sid : x # s => Stage(x)' = Stage(x)
    BY <1>1 DEF Handles, Stage
  <1> QED
    BY <1>1, <1>3, <1>4, <1>5, <1>6, <1>7, RankFacts DEF Ops

\* The first envelope of a session is the next one the server waits for.
LEMMA FirstInPlace ==
  ASSUME HType, InOrderToServer, ToServer # <<>>, NEW s \in Sid, NEW r \in Rank,
         Is(ToServer[1], s, r)
  PROVE  Stage(s) = r - 1
  <1>1. Len(ToServer) \in Nat \ {0}
    BY TailFacts DEF HType, ToServer, End
  <1> QED
    BY <1>1 DEF InOrderToServer, Continues

\* The first envelope to the server moves its session to its rank, and no other.
Moves ==
    /\ \A s \in Sid, r \in Rank : Is(ToServer[1], s, r) => Stage(s) = r - 1 /\ Stage(s)' = r
    /\ \A s \in Sid : (\A r \in Rank : ~Is(ToServer[1], s, r)) => Stage(s)' = Stage(s)

\* What continues behind an envelope continues when that has been handled.
LEMMA ContinuesShift ==
  ASSUME HType, Takes("server"), Moves,
         NEW n \in 1..Len(ToServer), NEW s \in Sid, NEW r \in Rank, Continues(n, s, r)
  PROVE  Continues(n - 1, s, r)'
  <1>1. /\ Len(ToServer) \in Nat \ {0} /\ Len(ToServer') = Len(ToServer) - 1
        /\ \A i \in 1..Len(ToServer') : ToServer'[i] = ToServer[i + 1]
    BY DEF Takes, ToServer
  <1>2. Stage(s) \in 0..5
    BY StageFacts
  <1>4. \A j \in 1..n - 1 : ToServer'[j] = ToServer[j + 1] /\ j + 1 \in 1..n
    BY <1>1
  <1>5. \A j \in 1..n : j = 1 \/ (j - 1 \in 1..n - 1 /\ ToServer'[j - 1] = ToServer[j])
    BY <1>1
  <1>6. \A q \in Rank : Is(ToServer[1], s, q) => q < r
    BY <1>1 DEF Continues
  <1>7. Stage(s)' < r
    BY <1>2, <1>6 DEF Continues, Moves
  <1>8. \A j \in 1..n - 1, q \in Rank : Is(ToServer'[j], s, q) => q < r
    BY <1>4 DEF Continues
  <1>9. Stage(s)' = r - 1 \/ \E j \in 1..n - 1 : Is(ToServer'[j], s, r - 1)
    <2>1. CASE Stage(s) = r - 1
      <3>1. \A q \in Rank : ~Is(ToServer[1], s, q)
        BY <1>6, <2>1 DEF Moves, Rank
      <3> QED
        BY <2>1, <3>1 DEF Moves
    <2>2. CASE \E j \in 1..n : Is(ToServer[j], s, r - 1)
      <3>1. PICK j \in 1..n : Is(ToServer[j], s, r - 1)
        BY <2>2
      <3>2. r - 1 \in Rank
        BY <3>1, RankFacts DEF Is
      <3>3. CASE j = 1
        BY <3>1, <3>2, <3>3 DEF Moves
      <3>4. CASE j # 1
        BY <1>5, <3>1, <3>4
      <3> QED
        BY <3>3, <3>4
    <2> QED
      BY <2>1, <2>2 DEF Continues
  <1> QED
    BY <1>7, <1>8, <1>9 DEF Continues, Is

\* So the order of what is on its way and still to be sent stays.
LEMMA OrderShift ==
  ASSUME HType, OpeningOrder, Takes("server"), Moves, InOrderToServer, InOrderToSend,
         link' = link, to_send' = to_send, next_sid' = next_sid
  PROVE  InOrderToServer' /\ InOrderToSend'
  <1>1. InOrderToServer'
    <2> SUFFICES ASSUME NEW i \in 1..Len(ToServer'), NEW s \in Sid, NEW r \in Rank,
                        Is(ToServer'[i], s, r)
                 PROVE  Continues(i - 1, s, r)'
      BY DEF InOrderToServer, Is
    <2>1. i + 1 \in 1..Len(ToServer) /\ i \in 1..Len(ToServer) /\ ToServer'[i] = ToServer[i + 1]
      BY DEF Takes, ToServer
    <2>2. Continues((i + 1) - 1, s, r)
      BY <2>1 DEF InOrderToServer
    <2>3. (i + 1) - 1 = i
      BY <2>1
    <2>4. Continues(i, s, r)
      BY <2>2, <2>3
    <2> QED
      BY <2>1, <2>4, ContinuesShift
  <1>2. InOrderToSend'
    <2> SUFFICES ASSUME NEW s \in Sid, NEW r \in Rank, link' = "up", to_send' # <<>>,
                        s = next_sid' - 1, r = 5 - Len(to_send')
                 PROVE  Continues(Len(ToServer), s, r)'
      BY DEF InOrderToSend
    <2>1. Continues(Len(ToServer), s, r)
      BY DEF InOrderToSend
    <2>2. PICK n \in 1..Len(ToServer) : n = Len(ToServer)
      BY DEF Takes, ToServer
    <2>3. Continues(n, s, r)
      BY <2>1, <2>2
    <2>4. Continues(n - 1, s, r)'
      BY <2>3, ContinuesShift
    <2>5. Len(ToServer') = n - 1
      BY <2>2 DEF Takes, ToServer
    <2> QED
      BY <2>4, <2>5 DEF Continues
  <1> QED
    BY <1>1, <1>2

\* The server handles an envelope of the handshake.
LEMMA ServerRight ==
  ASSUME HInv, HandleSession("server"), secret["client"] = secret["server"]
  PROVE  /\ InOrderToServer' /\ InOrderToSend' /\ InOrderToClient' /\ InOrderReply'
         /\ ServerFollows'
  <1>1. /\ HType /\ Directions /\ OpeningOrder
        /\ InOrderToServer /\ InOrderToSend /\ InOrderToClient /\ InOrderReply /\ ServerFollows
    BY DEF HInv, RightSecret
  <1>2. Takes("server") /\ Handles("server", ToServer[1])
    BY <1>1, HandleFacts DEF End, ToServer
  <1>3. PICK m \in SessionMsg : m = ToServer[1]
    BY <1>2 DEF Handles
  <1>4. PICK s \in Sid, r \in Rank : s = m.sid /\ r = OpRank(m.op)
    BY RankFacts DEF SessionMsg
  <1>5. /\ Handles("server", m) /\ Is(m, s, r) /\ Is(ToServer[1], s, r) /\ ToServer # <<>>
        /\ alive["server"]
    BY <1>2, <1>3, <1>4 DEF Handles, Is, Takes, ToServer
  <1>6. Stage(s) = r - 1
    BY <1>1, <1>5, FirstInPlace
  <1>7. Stage(s)' = r /\ \A x \in Sid : x # s => Stage(x)' = Stage(x)
    BY <1>1, <1>5, <1>6, ServerStage
  <1>8. Moves
    BY <1>3, <1>4, <1>5, <1>6, <1>7 DEF Moves, Is
  <1>9. InOrderToServer' /\ InOrderToSend'
    BY <1>1, <1>2, <1>5, <1>8, OrderShift DEF Handles
  <1>10. /\ ToClient' = ToClient /\ session'["client"] = session["client"] /\ alive' = alive
         /\ reply'["server"] = Answer("server", m)
    BY <1>2, <1>5 DEF Takes, Handles, Other, ToClient
  <1>11. \A x \in Sid : Stage(x) \in 0..5 /\ Stage(x)' \in 0..5 /\ Stage(x) <= Stage(x)'
    BY <1>1, <1>6, <1>7, StageFacts DEF Rank
  <1>12. InOrderToClient'
    BY <1>1, <1>10, <1>11 DEF InOrderToClient, Follows, IsActive, Rank, Is
  <1>13. IsActive("client", s) => Stage(s) = 4
    BY <1>1, <1>5 DEF ServerFollows
  <1>14. InOrderReply'
    <2> SUFFICES ASSUME Answer("server", m) # <<>>, NEW x \in Sid, NEW q \in Rank,
                        Is(Answer("server", m)[1], x, q)
                 PROVE  q <= Stage(x)' /\ Follows(Len(ToClient), x, q)'
      BY <1>10 DEF InOrderReply, Is
    <2>1. x = s /\ q = r /\ r \in {3, 4}
      BY <1>4, RankFacts DEF Answer, Is, Profiles, Ready
    <2>2. \A j \in 1..Len(ToClient), z \in Rank : Is(ToClient[j], s, z) => z <= Stage(s)
      BY <1>1, <1>5 DEF InOrderToClient
    <2>3. \A j \in 1..Len(ToClient), z \in Rank : Is(ToClient[j], s, z) => z < r
      BY <1>6, <2>2 DEF Rank
    <2>4. ~IsActive("client", s)
      BY <1>6, <1>13, <2>1
    <2> QED
      BY <1>7, <1>10, <2>1, <2>3, <2>4 DEF Follows, Is, IsActive
  <1>15. ServerFollows'
    <2>1. \A x \in Sid : Stage(x)' <= 4
      BY <1>1, <1>7 DEF ServerFollows, Rank
    <2>2. \A x \in Sid : IsActive("client", x)' /\ alive'["server"] => Stage(x)' = 4
      BY <1>1, <1>6, <1>7, <1>10, <1>13 DEF ServerFollows, Rank, IsActive
    <2>3. ASSUME NEW i \in 1..Len(ToServer'), ToServer'[i].op = "data"
          PROVE  Admitted("server", ToServer[i])'
      <3>1. i + 1 \in 1..Len(ToServer) /\ ToServer'[i] = ToServer[i + 1]
        BY <1>2 DEF Takes, ToServer
      <3>2. PICK d \in Msg : d = ToServer[i + 1]
        BY <1>1, <3>1 DEF HType, ToServer, End
      <3>3. Admitted("server", d) /\ d.sid \in Sid
        BY <1>1, <2>3, <3>1, <3>2 DEF ServerFollows, Msg, SessionMsg, DataMsg
      <3>4. Stage(d.sid) = 4
        BY <1>1, <3>3, StageFacts DEF Admitted, IsActive
      <3>5. session'["server"][d.sid] = session["server"][d.sid]
        BY <1>4, <1>5, <1>6, <3>3, <3>4 DEF Handles, Rank
      <3> QED
        BY <3>1, <3>2, <3>3, <3>5 DEF Admitted
    <2> QED
      BY <2>1, <2>2, <2>3 DEF ServerFollows
  <1> QED
    BY <1>9, <1>12, <1>14, <1>15

\* What continues behind n envelopes goes on doing so while they are on their way and
\* the server does nothing.
LEMMA ContinuesFrame ==
  ASSUME NEW n \in Nat, NEW s \in Sid, NEW r \in Rank, Continues(n, s, r),
         session'["server"] = session["server"],
         \A i \in 1..n : ToServer'[i] = ToServer[i]
  PROVE  Continues(n, s, r)'
  <1>1. Stage(s)' = Stage(s)
    BY DEF Stage
  <1> QED
    BY <1>1 DEF Continues, Is

\* The client handles an envelope of the handshake.
LEMMA ClientRight ==
  ASSUME HInv, HandleSession("client"), secret["client"] = secret["server"]
  PROVE  /\ InOrderToServer' /\ InOrderToSend' /\ InOrderToClient' /\ InOrderReply'
         /\ ServerFollows'
  <1>1. /\ HType /\ Directions /\ OpeningOrder
        /\ InOrderToServer /\ InOrderToSend /\ InOrderToClient /\ InOrderReply /\ ServerFollows
    BY DEF HInv, RightSecret
  <1>2. Takes("client") /\ Handles("client", ToClient[1])
    BY <1>1, HandleFacts DEF End, ToClient
  <1>3. PICK m \in SessionMsg : m = ToClient[1]
    BY <1>2 DEF Handles
  <1>4. PICK s \in Sid, r \in Rank : s = m.sid /\ r = OpRank(m.op)
    BY RankFacts DEF SessionMsg
  <1>5. /\ Handles("client", m) /\ Is(ToClient[1], s, r) /\ Len(ToClient) \in Nat \ {0}
        /\ ToServer' = ToServer /\ session'["server"] = session["server"] /\ link' = link
        /\ to_send' = to_send /\ next_sid' = next_sid /\ alive' = alive
        /\ reply'["server"] = reply["server"]
    BY <1>2, <1>3, <1>4 DEF Handles, Is, Takes, ToClient, ToServer, Other
  <1>6. r \in {3, 4} /\ (r = 3 => m.op = "profiles") /\ (r = 4 => m.op = "ready")
    <2>1. m.op \in {"profiles", "ready"}
      <3>1. m.op # "data" /\ 1 \in 1..Len(ToClient)
        BY <1>5 DEF Handles
      <3> QED
        BY <1>1, <1>3, <3>1 DEF Directions
    <2> QED
      BY <1>4, <2>1, RankFacts
  <1>7. \A x \in Sid : Stage(x)' = Stage(x) /\ Stage(x) \in 0..5
    BY <1>1, <1>5, StageFacts DEF Stage
  <1>8. InOrderToServer' /\ InOrderToSend'
    BY <1>1, <1>5, <1>7 DEF InOrderToServer, InOrderToSend, Continues, Is
  <1>9. (alive["server"] => r <= Stage(s)) /\ Follows(0, s, r)
    BY <1>1, <1>5 DEF InOrderToClient
  <1>10. /\ \A x \in Sid : x # s => session'["client"][x] = session["client"][x]
         /\ session'["client"][s] = After("client", m)
    BY <1>4, <1>5 DEF Handles
  <1>11. InOrderToClient'
    <2> SUFFICES ASSUME NEW i \in 1..Len(ToClient'), NEW x \in Sid, NEW q \in Rank,
                        Is(ToClient'[i], x, q)
                 PROVE  (alive'["server"] => q <= Stage(x)') /\ Follows(i - 1, x, q)'
      BY DEF InOrderToClient, Is
    <2>1. i + 1 \in 1..Len(ToClient) /\ i \in Nat /\ ToClient'[i] = ToClient[i + 1]
      BY <1>2 DEF Takes, ToClient
    <2>2. (i + 1) - 1 = i
      BY <2>1
    <2>3. (alive["server"] => q <= Stage(x)) /\ Follows(i, x, q)
      BY <1>1, <2>1, <2>2 DEF InOrderToClient
    <2>4. \A j \in 1..i - 1 : ToClient'[j] = ToClient[j + 1] /\ j + 1 \in 1..i
      BY <1>2, <2>1 DEF Takes, ToClient
    <2>5. \A j \in 1..i - 1, z \in Rank : Is(ToClient'[j], x, z) => z < q
      BY <2>3, <2>4 DEF Follows
    <2>6. q = 3 => x # s
      BY <1>5, <1>6, <2>1, <2>3 DEF Follows, Rank
    <2>7. q = 3 => ~IsActive("client", x)'
      BY <1>10, <2>3, <2>6 DEF Follows, IsActive
    <2> QED
      BY <1>5, <1>7, <2>3, <2>5, <2>7 DEF Follows, Is
  <1>12. InOrderReply'
    <2> SUFFICES ASSUME reply["server"] # <<>>, NEW x \in Sid, NEW q \in Rank,
                        Is(reply["server"][1], x, q)
                 PROVE  q <= Stage(x)' /\ Follows(Len(ToClient), x, q)'
      BY <1>5 DEF InOrderReply, Is
    <2>1. q <= Stage(x) /\ Follows(Len(ToClient), x, q)
      BY <1>1 DEF InOrderReply
    <2>2. \A j \in 1..Len(ToClient') : ToClient'[j] = ToClient[j + 1] /\ j + 1 \in 1..Len(ToClient)
      BY <1>2 DEF Takes, ToClient
    <2>3. \A j \in 1..Len(ToClient'), z \in Rank : Is(ToClient'[j], x, z) => z < q
      BY <2>1, <2>2 DEF Follows
    <2>4. q = 3 => x # s
      BY <1>5, <1>6, <2>1 DEF Follows, Rank
    <2>5. q = 3 => ~IsActive("client", x)'
      BY <1>10, <2>1, <2>4 DEF Follows, IsActive
    <2> QED
      BY <1>7, <2>1, <2>3, <2>5 DEF Follows, Is
  <1>13. ServerFollows'
    <2>1. IsActive("client", s)' /\ alive["server"] => Stage(s) = 4
      <3>1. m.op = "profiles" => After("client", m).state \in {"negotiated", "invalid"}
        BY <1>1, AfterFacts DEF End
      <3>2. IsActive("client", s)' => r = 4
        BY <1>6, <1>10, <3>1 DEF IsActive
      <3> QED
        BY <1>1, <1>7, <1>9, <3>2 DEF ServerFollows
    <2>2. \A x \in Sid : IsActive("client", x)' /\ alive'["server"] => Stage(x)' = 4
      BY <1>1, <1>5, <1>7, <1>10, <2>1 DEF ServerFollows, IsActive
    <2> QED
      BY <1>1, <1>5, <1>7, <2>2 DEF ServerFollows, Admitted
  <1> QED
    BY <1>8, <1>11, <1>12, <1>13

(***************************************************************************)
(* The other steps.                                                        *)
(***************************************************************************)

\* open_session takes a session id.
LEMMA OpenStep ==
  ASSUME HInv, OpenSession
  PROVE  HInv'
  <1>1. /\ opening' = TRUE /\ ~opening /\ to_send = <<>> /\ next_sid <= MaxSid
        /\ next_sid' = next_sid + 1
        /\ secret' = secret /\ profiles' = profiles /\ link' = link /\ stream' = stream
        /\ session' = session /\ to_send' = to_send /\ reply' = reply /\ alive' = alive
        /\ refused' = refused
    BY DEF OpenSession, config
  <1>2. HType /\ Directions /\ OpeningOrder /\ UnusedFresh /\ NegotiatedFromLists
    BY DEF HInv
  <1>3. HType'
    BY <1>1, <1>2, HandshakeAssumption DEF HType
  <1>4. Directions' /\ NegotiatedFromLists'
    BY <1>1, <1>2 DEF Directions, NegotiatedFromLists, ToServer, ToClient
  <1>5. OpeningOrder'
    BY <1>1, <1>2 DEF OpeningOrder, HType
  <1>6. UnusedFresh'
    <2>1. \A s \in Sid : s >= next_sid' \/ (opening' /\ s = next_sid' - 1) => s >= next_sid
      BY <1>1, <1>2, HandshakeAssumption DEF HType, Sid
    <2> QED
      BY <1>1, <1>2, <2>1 DEF UnusedFresh, ToServer, ToClient
  <1>7. RightSecret'
    <2>1. InOrderToSend'
      BY <1>1 DEF InOrderToSend
    <2> QED
      BY <1>1, <2>1 DEF HInv, RightSecret, InOrderToServer, InOrderToClient, InOrderReply,
         ServerFollows, ToServer, ToClient, Stage, Continues, Follows, IsActive, Is, Admitted
  <1>8. WrongSecret'
    BY <1>1 DEF HInv, WrongSecret, Rejects, ToServer, ToClient, Is
  <1> QED
    BY <1>1, <1>3, <1>4, <1>5, <1>6, <1>7, <1>8 DEF HInv

\* open_session enters the session, under an id that nothing is known of.
LEMMA InsertStep ==
  ASSUME HInv, InsertSession
  PROVE  HInv'
  <1>1. PICK s : s = next_sid - 1
    OBVIOUS
  <1>2. HType /\ Directions /\ OpeningOrder /\ UnusedFresh /\ NegotiatedFromLists
    BY DEF HInv
  <1>3. /\ opening /\ opening' = FALSE
        /\ session' = [session EXCEPT !["client"][s] = Fresh]
        /\ to_send' = <<Hello(s), Authenticate(s), Profiles(s, FALSE), Ready(s, FALSE)>>
        /\ secret' = secret /\ profiles' = profiles /\ link' = link /\ stream' = stream
        /\ next_sid' = next_sid /\ reply' = reply /\ alive' = alive /\ refused' = refused
    BY <1>1 DEF InsertSession, config
  <1>4. s \in Sid
    BY <1>1, <1>2, <1>3, HandshakeAssumption DEF HType, OpeningOrder, Sid
  <1>5. Fresh \in Entries /\ Fresh # NoSession /\ Fresh.state = "handshaking"
    BY SentinelAssumption DEF Fresh, Entries, Negotiations, State
  <1>6. /\ session' \in [End -> [Sid -> Entries \cup {NoSession}]]
        /\ session'["client"][s] = Fresh
        /\ \A x \in Sid : x # s => session'["client"][x] = session["client"][x]
        /\ session'["server"] = session["server"]
    BY <1>2, <1>3, <1>4, <1>5 DEF HType, End
  <1>7. /\ session["server"][s] = NoSession /\ session["client"][s] = NoSession
        /\ \A i \in 1..Len(ToServer) : ToServer[i].sid # s
        /\ \A i \in 1..Len(ToClient) : ToClient[i].sid # s
        /\ reply["server"] # <<>> => reply["server"][1].sid # s
    BY <1>1, <1>2, <1>3, <1>4 DEF UnusedFresh
  <1>8. HType'
    <2>1. /\ Hello(s) \in SessionMsg /\ Authenticate(s) \in SessionMsg
          /\ Profiles(s, FALSE) \in SessionMsg /\ Ready(s, FALSE) \in SessionMsg
      BY <1>4 DEF Hello, Authenticate, Profiles, Ready, SessionMsg, Ops
    <2>2. to_send' \in Seq(SessionMsg)
      BY <1>3, <2>1, FourFacts
    <2> QED
      BY <1>2, <1>3, <1>6, <2>2 DEF HType
  <1>9. Directions'
    BY <1>2, <1>3 DEF Directions, ToServer, ToClient
  <1>10. NegotiatedFromLists'
    BY <1>2, <1>3, <1>5, <1>6 DEF NegotiatedFromLists, End
  <1>11. /\ Len(to_send') = 4 /\ to_send'[1] = Hello(s) /\ to_send'[2] = Authenticate(s)
         /\ to_send'[3] = Profiles(s, FALSE) /\ to_send'[4] = Ready(s, FALSE)
    BY <1>3
  <1>12. OpeningOrder'
    <2>1. \A i \in 1..4 : /\ to_send'[i].sid = s /\ ~to_send'[i].reply
                          /\ OpRank(to_send'[i].op) = i
      BY <1>11, RankFacts DEF Hello, Authenticate, Profiles, Ready
    <2>2. opening' = FALSE /\ s = next_sid' - 1 /\ next_sid' > 1
      BY <1>1, <1>2, <1>3 DEF OpeningOrder
    <2>3. \A i \in 1..4 : 4 - 4 + i = i
      OBVIOUS
    <2> QED
      BY <1>11, <2>1, <2>2, <2>3 DEF OpeningOrder
  <1>13. UnusedFresh'
    <2>1. \A x \in Sid : x >= next_sid' \/ (opening' /\ x = next_sid' - 1) => x >= next_sid /\ x # s
      BY <1>1, <1>2, <1>3 DEF HType, Sid
    <2> QED
      BY <1>2, <1>3, <1>6, <2>1 DEF UnusedFresh, ToServer, ToClient
  <1>14. \A x \in Sid : Stage(x)' = Stage(x)
    BY <1>6 DEF Stage
  <1>15. \A x \in Sid : IsActive("client", x)' => IsActive("client", x)
    BY <1>5, <1>6 DEF IsActive
  <1>16. ASSUME secret["client"] = secret["server"]
         PROVE  /\ InOrderToServer' /\ InOrderToSend' /\ InOrderToClient' /\ InOrderReply'
                /\ ServerFollows'
    <2>1. InOrderToServer /\ InOrderToClient /\ InOrderReply /\ ServerFollows
      BY <1>16 DEF HInv, RightSecret
    <2>2. InOrderToServer'
      BY <1>3, <1>14, <2>1 DEF InOrderToServer, ToServer, Continues, Is
    <2>3. InOrderToSend'
      <3> SUFFICES Continues(Len(ToServer), s, 1)'
        BY <1>1, <1>3, <1>11 DEF InOrderToSend
      <3>1. Stage(s) = 0
        BY <1>7 DEF Stage
      <3> QED
        BY <1>3, <1>4, <1>7, <1>14, <3>1 DEF Continues, Is, ToServer
    <2>4. InOrderToClient' /\ InOrderReply'
      BY <1>3, <1>14, <1>15, <2>1 DEF InOrderToClient, InOrderReply, ToClient, Follows, Is
    <2>5. ServerFollows'
      BY <1>3, <1>6, <1>14, <1>15, <2>1 DEF ServerFollows, ToServer, Admitted
    <2> QED
      BY <2>2, <2>3, <2>4, <2>5
  <1>17. RightSecret'
    BY <1>3, <1>16 DEF RightSecret
  <1>18. WrongSecret'
    <2> SUFFICES ASSUME secret["client"] # secret["server"] PROVE WrongSecret'
      BY <1>3 DEF WrongSecret
    <2> QED
      BY <1>3, <1>5, <1>6, <1>11 DEF HInv, WrongSecret, Rejects, ToServer, ToClient, Is
  <1> QED
    BY <1>3, <1>8, <1>9, <1>10, <1>12, <1>13, <1>17, <1>18 DEF HInv

\* open_session sends the next of its envelopes.
LEMMA SendOpeningStep ==
  ASSUME HInv, SendOpening
  PROVE  HInv'
  <1>1. HType /\ Directions /\ OpeningOrder /\ UnusedFresh /\ NegotiatedFromLists
    BY DEF HInv
  <1>2. /\ to_send # <<>> /\ Send("client", Head(to_send)) /\ to_send' = Tail(to_send)
        /\ secret' = secret /\ profiles' = profiles /\ link' = link /\ session' = session
        /\ next_sid' = next_sid /\ opening' = opening /\ reply' = reply /\ alive' = alive
        /\ refused' = refused
    BY DEF SendOpening, config
  <1>3. /\ Len(to_send) \in Nat \ {0} /\ to_send[1] \in SessionMsg /\ Head(to_send) = to_send[1]
        /\ to_send' \in Seq(SessionMsg) /\ Len(to_send') = Len(to_send) - 1
        /\ \A i \in 1..Len(to_send') : to_send'[i] = to_send[i + 1]
    BY <1>1, <1>2, TailFacts DEF HType
  <1>4. PICK m \in SessionMsg : m = to_send[1]
    BY <1>3
  <1>5. PICK s \in Sid, r \in Rank : Is(m, s, r) /\ s = next_sid - 1 /\ r = 5 - Len(to_send)
    <2>1. m.sid = next_sid - 1 /\ OpRank(m.op) = 5 - Len(to_send) /\ m.op # "data"
      BY <1>1, <1>3, <1>4 DEF OpeningOrder, SessionMsg, Ops
    <2> QED
      BY <1>4, <2>1, RankFacts DEF Is, SessionMsg
  <1>6. ~m.reply /\ ~opening /\ next_sid > 1 /\ m.op # "data" /\ m.sid = s
    BY <1>1, <1>2, <1>3, <1>4, <1>5 DEF OpeningOrder, Is
  <1>7. /\ stream' \in [End -> Seq(Msg)] /\ ToClient' = ToClient
        /\ \/ link = "up" /\ alive["client"] /\ ToServer' = Append(ToServer, m)
           \/ ~(link = "up" /\ alive["client"]) /\ ToServer' = ToServer
    BY <1>1, <1>2, <1>3, <1>4, SendFacts DEF Msg, End, Other, ToServer, ToClient
  <1>8. /\ ToServer \in Seq(Msg) /\ Len(ToServer) \in Nat
        /\ link # "up" => ToServer' = ToServer
        /\ link = "up" => /\ Len(ToServer') = Len(ToServer) + 1
                          /\ \A i \in 1..Len(ToServer) : ToServer'[i] = ToServer[i]
                          /\ ToServer'[Len(ToServer) + 1] = m
    <2>1. ToServer \in Seq(Msg) /\ m \in Msg
      BY <1>1 DEF HType, ToServer, End, Msg
    <2>2. link = "up" => ToServer' = Append(ToServer, m)
      BY <1>1, <1>7 DEF Directions, End
    <2> QED
      BY <1>7, <2>1, <2>2, AppendFacts
  <1>9. HType'
    BY <1>1, <1>2, <1>3, <1>7 DEF HType
  <1>10. Directions'
    <2>1. \A i \in 1..Len(ToServer') : ToServer'[i].op # "data" => ~ToServer'[i].reply
      BY <1>1, <1>6, <1>8 DEF Directions
    <2>2. \A e \in End : ~alive'[e] => link' = "down" /\ stream'[e] = <<>> /\ reply'[e] = <<>>
      BY <1>1, <1>2, <1>7, <1>8 DEF Directions, End, ToServer, ToClient
    <2> QED
      BY <1>1, <1>2, <1>7, <2>1, <2>2 DEF Directions
  <1>11. OpeningOrder'
    <2>1. \A i \in 1..Len(to_send') : i + 1 \in 1..Len(to_send) /\ i \in Nat
      BY <1>3
    <2> QED
      BY <1>1, <1>2, <1>3, <1>6, <2>1 DEF OpeningOrder
  <1>12. UnusedFresh'
    <2> SUFFICES ASSUME NEW x \in Sid, x >= next_sid \/ (opening /\ x = next_sid - 1)
                 PROVE  \A i \in 1..Len(ToServer') : ToServer'[i].sid # x
      BY <1>1, <1>2, <1>7 DEF UnusedFresh
    <2>1. \A i \in 1..Len(ToServer) : ToServer[i].sid # x
      BY <1>1 DEF UnusedFresh
    <2>2. x # s
      BY <1>1, <1>5, <1>6 DEF HType, Sid
    <2> QED
      BY <1>6, <1>8, <2>1, <2>2
  <1>13. NegotiatedFromLists'
    BY <1>1, <1>2 DEF NegotiatedFromLists
  <1>14. \A x \in Sid : Stage(x)' = Stage(x)
    BY <1>2 DEF Stage
  <1>15. ASSUME secret["client"] = secret["server"]
         PROVE  /\ InOrderToServer' /\ InOrderToSend' /\ InOrderToClient' /\ InOrderReply'
                /\ ServerFollows'
    <2>1. InOrderToServer /\ InOrderToSend /\ InOrderToClient /\ InOrderReply /\ ServerFollows
      BY <1>15 DEF HInv, RightSecret
    <2>2. ASSUME NEW n \in 0..Len(ToServer), NEW x \in Sid, NEW q \in Rank, Continues(n, x, q)
          PROVE  Continues(n, x, q)'
      <3>1. \A i \in 1..n : ToServer'[i] = ToServer[i]
        BY <1>8
      <3> QED
        BY <1>2, <1>8, <2>2, <3>1, ContinuesFrame
    <2>3. link = "up" => Continues(Len(ToServer), s, r)
      BY <1>2, <1>5, <2>1 DEF InOrderToSend
    <2>4. PICK n \in 0..Len(ToServer) : n = Len(ToServer)
      BY <1>8
    <2>5. link = "up" => Continues(n, s, r)'
      BY <2>2, <2>3, <2>4
    <2>6. InOrderToServer'
      <3> SUFFICES ASSUME NEW i \in 1..Len(ToServer'), NEW x \in Sid, NEW q \in Rank,
                          Is(ToServer'[i], x, q)
                   PROVE  Continues(i - 1, x, q)'
        BY DEF InOrderToServer, Is
      <3>1. CASE i \in 1..Len(ToServer)
        <4>1. ToServer'[i] = ToServer[i] /\ i - 1 \in 0..Len(ToServer)
          BY <1>8, <3>1
        <4> QED
          BY <2>1, <2>2, <3>1, <4>1 DEF InOrderToServer
      <3>2. CASE i \notin 1..Len(ToServer)
        <4>1. link = "up" /\ i - 1 = n /\ ToServer'[i] = m
          BY <1>8, <2>4, <3>2
        <4>2. x = s /\ q = r
          BY <1>5, <4>1 DEF Is
        <4> QED
          BY <2>5, <4>1, <4>2
      <3> QED
        BY <3>1, <3>2
    <2>7. InOrderToSend'
      <3> SUFFICES ASSUME link = "up", NEW q \in Rank, q = 5 - Len(to_send')
                   PROVE  Continues(Len(ToServer), s, q)'
        BY <1>2, <1>5 DEF InOrderToSend
      <3>1. q = r + 1 /\ r = q - 1
        BY <1>3, <1>5
      <3>2. Stage(s)' < q
        BY <2>5, <3>1, StageFacts, <1>9, <1>14, <1>1 DEF Continues, Rank
      <3>3. Is(ToServer'[Len(ToServer')], s, q - 1) /\ Len(ToServer') \in 1..Len(ToServer')
        BY <1>5, <1>8, <3>1
      <3>4. ASSUME NEW j \in 1..Len(ToServer'), NEW z \in Rank, Is(ToServer'[j], s, z)
            PROVE  z < q
        <4>1. CASE j \in 1..n
          <5>1. Is(ToServer[j], s, z) /\ j \in 1..Len(ToServer)
            BY <1>8, <2>4, <3>4, <4>1
          <5>2. z < r
            BY <2>3, <5>1 DEF Continues
          <5> QED
            BY <3>1, <5>2 DEF Rank
        <4>2. CASE j \notin 1..n
          <5>1. ToServer'[j] = m
            BY <1>8, <2>4, <4>2
          <5> QED
            BY <1>5, <3>1, <3>4, <5>1 DEF Is, Rank
        <4> QED
          BY <4>1, <4>2
      <3> QED
        BY <3>2, <3>3, <3>4 DEF Continues, Is
    <2>8. InOrderToClient' /\ InOrderReply'
      BY <1>2, <1>7, <1>14, <2>1 DEF InOrderToClient, InOrderReply, Follows, IsActive, Is
    <2>9. ServerFollows'
      <3>1. \A i \in 1..Len(ToServer') : ToServer'[i].op = "data" =>
               i \in 1..Len(ToServer) /\ ToServer'[i] = ToServer[i]
        BY <1>6, <1>8
      <3> QED
        BY <1>2, <1>14, <2>1, <3>1 DEF ServerFollows, Admitted, IsActive
    <2> QED
      BY <2>6, <2>7, <2>8, <2>9
  <1>16. RightSecret'
    BY <1>2, <1>15 DEF RightSecret
  <1>17. ASSUME secret["client"] # secret["server"] PROVE WrongSecret'
    <2>1. WrongSecret
      BY DEF HInv
    <2>2. ASSUME NEW n \in 0..Len(ToServer), NEW x \in Sid, Rejects(n, x)
          PROVE  Rejects(n, x)'
      <3>1. \A i \in 1..n : ToServer'[i] = ToServer[i]
        BY <1>8
      <3> QED
        BY <1>2, <2>2, <3>1 DEF Rejects, Is
    <2>3. PICK n \in 0..Len(ToServer) : n = Len(ToServer)
      BY <1>8
    <2>4. link = "up" /\ r \in {3, 4} => Rejects(n, s)
      BY <1>2, <1>3, <1>5, <1>17, <2>1, <2>3 DEF WrongSecret
    <2>5. \A i \in 1..Len(ToServer') : ToServer'[i].op # "data"
      BY <1>6, <1>8, <1>17, <2>1 DEF WrongSecret
    <2>6. ASSUME NEW i \in 1..Len(ToServer'), NEW x \in Sid,
                 Is(ToServer'[i], x, 3) \/ Is(ToServer'[i], x, 4)
          PROVE  Rejects(i - 1, x)'
      <3>1. CASE i \in 1..Len(ToServer)
        <4>1. ToServer'[i] = ToServer[i] /\ i - 1 \in 0..Len(ToServer)
          BY <1>8, <3>1
        <4>2. Rejects(i - 1, x)
          BY <1>17, <2>1, <2>6, <3>1, <4>1 DEF WrongSecret
        <4> QED
          BY <2>2, <4>1, <4>2
      <3>2. CASE i \notin 1..Len(ToServer)
        <4>1. link = "up" /\ i - 1 = n /\ ToServer'[i] = m
          BY <1>8, <2>3, <3>2
        <4>2. x = s /\ r \in {3, 4}
          BY <1>5, <2>6, <4>1 DEF Is
        <4> QED
          BY <2>2, <2>4, <4>1, <4>2
      <3> QED
        BY <3>1, <3>2
    <2>7. ASSUME link = "up", Len(to_send') <= 2 PROVE Rejects(Len(ToServer), s)'
      <3>1. CASE r = 2
        <4>1. Is(ToServer'[Len(ToServer')], s, 2) /\ Len(ToServer') \in 1..Len(ToServer')
          BY <1>5, <1>8, <2>7, <3>1
        <4> QED
          BY <4>1 DEF Rejects, Is
      <3>2. CASE r # 2
        <4>1. r \in {3, 4}
          BY <1>3, <1>5, <2>7, <3>2 DEF Rank
        <4>2. Rejects(n, s)'
          BY <2>2, <2>4, <2>7, <4>1
        <4>3. 1..n \subseteq 1..Len(ToServer')
          BY <1>8, <2>3
        <4> QED
          BY <4>2, <4>3 DEF Rejects
      <3> QED
        BY <3>1, <3>2
    <2> QED
      BY <1>2, <1>5, <1>7, <1>17, <2>1, <2>5, <2>6, <2>7 DEF WrongSecret, Is
  <1>18. WrongSecret'
    BY <1>2, <1>17 DEF WrongSecret
  <1> QED
    BY <1>2, <1>9, <1>10, <1>11, <1>12, <1>13, <1>16, <1>18 DEF HInv

(***************************************************************************)
(* With different secrets.                                                 *)
(***************************************************************************)

\* The server handles an envelope: authenticate rejects the session, and what comes
\* after it finds it rejected.
LEMMA ServerWrong ==
  ASSUME HInv, HandleSession("server"), secret["client"] # secret["server"]
  PROVE  WrongSecret'
  <1>1. HType /\ Directions /\ OpeningOrder /\ WrongSecret
    BY DEF HInv
  <1>2. Takes("server") /\ Handles("server", ToServer[1])
    BY <1>1, HandleFacts DEF End, ToServer
  <1>3. PICK m \in SessionMsg : m = ToServer[1]
    BY <1>2 DEF Handles
  <1>4. PICK s \in Sid, r \in Rank : s = m.sid /\ r = OpRank(m.op) /\ m.op \in Ops
    BY RankFacts DEF SessionMsg
  <1>5. /\ Handles("server", m) /\ Is(ToServer[1], s, r)
        /\ Len(ToServer) \in Nat \ {0} /\ Len(ToServer') = Len(ToServer) - 1
        /\ \A i \in 1..Len(ToServer') :
              ToServer'[i] = ToServer[i + 1] /\ i + 1 \in 1..Len(ToServer)
        /\ ToClient' = ToClient /\ reply'["server"] = Answer("server", m)
        /\ session'["client"] = session["client"] /\ session'["server"][s] = After("server", m)
        /\ \A x \in Sid : x # s => session'["server"][x] = session["server"][x]
        /\ secret' = secret /\ link' = link /\ next_sid' = next_sid /\ to_send' = to_send
    BY <1>2, <1>3, <1>4 DEF Handles, Is, Takes, ToClient, ToServer, Other
  <1>6. \A x \in Sid : session["server"][x] # NoSession =>
            session["server"][x].state \in {"handshaking", "invalid"}
    BY <1>1 DEF WrongSecret
  <1>7. r \in {3, 4} => session["server"][s] # NoSession /\ session["server"][s].state = "invalid"
    <2>1. r \in {3, 4} => Rejects(0, s)
      BY <1>1, <1>5 DEF WrongSecret
    <2> QED
      BY <2>1 DEF Rejects
  <1>8. After("server", m) # NoSession
    BY <1>1, AfterFacts, SentinelAssumption DEF End
  <1>9. /\ r = 1 => After("server", m) = Entry("server", s)
        /\ r = 2 => After("server", m).state = "invalid"
        /\ r = 3 => After("server", m).state = "invalid"
        /\ r = 4 => After("server", m).state = "invalid"
    <2>1. /\ r = 1 => m.op = "hello"
          /\ r = 2 => m.op = "authenticate"
          /\ r = 3 => m.op = "profiles"
          /\ r = 4 => m.op = "ready"
      BY <1>4, RankFacts DEF Ops
    <2>2. r \in {3, 4} => Entry("server", s).state = "invalid"
      BY <1>7 DEF Entry
    <2>3. m.op = "hello" => After("server", m) = Entry("server", s)
      BY <1>1, <1>4, AfterFacts DEF End
    <2>4. m.op = "authenticate" => After("server", m).state = "invalid"
      BY <1>1, <1>4, AfterFacts DEF End, Other
    <2>5. m.op = "profiles" /\ r = 3 => After("server", m).state = "invalid"
      BY <1>1, <1>4, <2>2, AfterFacts DEF End
    <2>6. m.op = "ready" /\ r = 4 => After("server", m).state = "invalid"
      BY <1>1, <1>4, <2>2, AfterFacts DEF End
    <2> QED
      BY <2>1, <2>3, <2>4, <2>5, <2>6
  <1>10. \A x \in Sid : session'["server"][x] # NoSession =>
            session'["server"][x].state \in {"handshaking", "invalid"}
    <2>1. Entry("server", s).state \in {"handshaking", "invalid"}
      BY <1>6 DEF Entry, Fresh
    <2>2. After("server", m).state \in {"handshaking", "invalid"}
      BY <1>9, <2>1 DEF Rank
    <2> QED
      BY <1>5, <1>6, <2>2
  <1>11. ASSUME NEW n \in 1..Len(ToServer), NEW x \in Sid, Rejects(n, x)
         PROVE  Rejects(n - 1, x)'
    <2>1. CASE session["server"][x] # NoSession /\ session["server"][x].state = "invalid"
      <3>1. x = s => After("server", m).state = "invalid"
        BY <1>9, <2>1 DEF Entry, Rank
      <3> QED
        BY <1>5, <1>8, <2>1, <3>1 DEF Rejects
    <2>2. CASE \E j \in 1..n : Is(ToServer[j], x, 2)
      <3>1. PICK j \in 1..n : Is(ToServer[j], x, 2)
        BY <2>2
      <3>2. CASE j = 1
        <4>1. x = s /\ r = 2
          BY <1>5, <3>1, <3>2 DEF Is
        <4> QED
          BY <1>5, <1>8, <1>9, <4>1 DEF Rejects
      <3>3. CASE j # 1
        <4>1. j - 1 \in 1..n - 1 /\ ToServer'[j - 1] = ToServer[j]
          BY <1>5, <3>3
        <4> QED
          BY <3>1, <4>1 DEF Rejects, Is
      <3> QED
        BY <3>2, <3>3
    <2> QED
      BY <1>11, <2>1, <2>2 DEF Rejects
  <1>12. ASSUME NEW i \in 1..Len(ToServer'), NEW x \in Sid,
                Is(ToServer'[i], x, 3) \/ Is(ToServer'[i], x, 4)
         PROVE  Rejects(i - 1, x)'
    <2>1. i + 1 \in 1..Len(ToServer) /\ i \in 1..Len(ToServer) /\ (i + 1) - 1 = i
      BY <1>5
    <2>2. Rejects(i, x)
      BY <1>1, <1>5, <1>12, <2>1 DEF WrongSecret
    <2> QED
      BY <1>11, <2>1, <2>2
  <1>13. ASSUME NEW x \in Sid, link = "up", to_send # <<>>, Len(to_send) <= 2, x = next_sid - 1
         PROVE  Rejects(Len(ToServer), x)'
    <2>1. PICK n \in 1..Len(ToServer) : n = Len(ToServer)
      BY <1>5
    <2>2. Rejects(n, x)
      BY <1>1, <1>13, <2>1 DEF WrongSecret
    <2>3. Rejects(n - 1, x)' /\ Len(ToServer') = n - 1
      BY <1>5, <1>11, <2>1, <2>2
    <2> QED
      BY <2>3 DEF Rejects
  <1>14. reply'["server"] # <<>> => reply'["server"][1].op = "profiles"
    <2>1. m.op = "ready" => Entry("server", m.sid).state # "negotiated"
      BY <1>4, <1>6 DEF Entry, Fresh
    <2>2. Answer("server", m) \in {<<>>, <<Profiles(m.sid, TRUE)>>}
      BY <2>1 DEF Answer
    <2> QED
      BY <1>5, <2>2 DEF Profiles
  <1>15. \A i \in 1..Len(ToServer') : ToServer'[i].op # "data"
    BY <1>1, <1>5 DEF WrongSecret
  <1> QED
    BY <1>1, <1>5, <1>10, <1>12, <1>13, <1>14, <1>15 DEF WrongSecret, Is

\* The client handles an envelope: it can only be the server's profile list.
LEMMA ClientWrong ==
  ASSUME HInv, HandleSession("client"), secret["client"] # secret["server"]
  PROVE  WrongSecret'
  <1>1. HType /\ Directions /\ OpeningOrder /\ WrongSecret
    BY DEF HInv
  <1>2. Takes("client") /\ Handles("client", ToClient[1])
    BY <1>1, HandleFacts DEF End, ToClient
  <1>3. PICK m \in SessionMsg : m = ToClient[1]
    BY <1>2 DEF Handles
  <1>4. /\ Handles("client", m) /\ m.sid \in Sid
        /\ Len(ToClient) \in Nat \ {0}
        /\ \A i \in 1..Len(ToClient') :
              ToClient'[i] = ToClient[i + 1] /\ i + 1 \in 1..Len(ToClient)
        /\ ToServer' = ToServer /\ reply'["server"] = reply["server"]
        /\ session'["server"] = session["server"]
        /\ session'["client"][m.sid] = After("client", m)
        /\ \A x \in Sid : x # m.sid => session'["client"][x] = session["client"][x]
        /\ secret' = secret /\ link' = link /\ next_sid' = next_sid /\ to_send' = to_send
    BY <1>2, <1>3 DEF Handles, Takes, ToClient, ToServer, Other
  <1>5. m.op = "profiles"
    BY <1>1, <1>3, <1>4 DEF WrongSecret
  <1>6. After("client", m).state = "negotiated"
    <2>1. Entry("client", m.sid).state # "invalid"
      BY <1>1, <1>4 DEF WrongSecret, Entry, Fresh
    <2> QED
      BY <1>1, <1>5, <2>1, AfterFacts DEF End
  <1>7. \A x \in Sid : session'["client"][x] # NoSession =>
            session'["client"][x].state \in {"handshaking", "negotiated"}
    BY <1>1, <1>4, <1>6 DEF WrongSecret
  <1>8. \A i \in 1..Len(ToClient') : ToClient'[i].op = "profiles"
    BY <1>1, <1>4 DEF WrongSecret
  <1> QED
    BY <1>1, <1>4, <1>7, <1>8 DEF WrongSecret, Rejects, Is

\* An envelope of the handshake keeps the invariant.
LEMMA HandleStep ==
  ASSUME HInv, NEW e \in End, HandleSession(e)
  PROVE  HInv'
  <1>1. HType /\ Directions /\ OpeningOrder /\ UnusedFresh /\ NegotiatedFromLists
    BY DEF HInv
  <1>2. Takes(e) /\ Handles(e, stream[e][1]) /\ HType'
    BY <1>1, HandleFacts
  <1>3. secret' = secret /\ refused' = refused /\ OpeningOrder'
    BY <1>1, <1>2 DEF Handles, OpeningOrder
  <1>4. Directions' /\ UnusedFresh' /\ NegotiatedFromLists'
    BY <1>1, <1>2, HandleDirections, HandleUnused, HandleNegotiated
  <1>5. secret["client"] = secret["server"] =>
           /\ InOrderToServer' /\ InOrderToSend' /\ InOrderToClient' /\ InOrderReply'
           /\ ServerFollows'
    BY ServerRight, ClientRight DEF End
  <1>6. secret["client"] # secret["server"] => WrongSecret'
    BY ServerWrong, ClientWrong DEF End
  <1>7. RightSecret' /\ WrongSecret'
    BY <1>3, <1>5, <1>6 DEF RightSecret, WrongSecret
  <1> QED
    BY <1>2, <1>3, <1>4, <1>7 DEF HInv

\* A message is handled: the server admits it.
LEMMA DataStep ==
  ASSUME HInv, NEW e \in End, HandleData(e)
  PROVE  HInv'
  <1>1. HType /\ Directions /\ OpeningOrder /\ UnusedFresh /\ NegotiatedFromLists
    BY DEF HInv
  <1>2. /\ alive[e] /\ reply[e] = <<>> /\ stream[e] # <<>>
        /\ stream' = [stream EXCEPT ![e] = Tail(stream[e])]
        /\ secret' = secret /\ profiles' = profiles /\ link' = link /\ session' = session
        /\ next_sid' = next_sid /\ opening' = opening /\ to_send' = to_send
        /\ reply' = reply /\ alive' = alive
    BY DEF HandleData, config
  <1>3. Takes(e) /\ Head(stream[e]) = stream[e][1]
    BY <1>1, <1>2, TakesFacts
  <1>4. /\ stream[e][1].op = "data"
        /\ refused' = IF Admitted(e, stream[e][1]) THEN refused ELSE refused \cup {e}
    BY <1>3 DEF HandleData
  <1>5. HType'
    BY <1>1, <1>2, <1>3, <1>4 DEF HType, Takes
  <1>6. /\ e = "client" => ToServer' = ToServer
        /\ e = "server" => ToClient' = ToClient
    BY <1>3 DEF Takes, Other, ToServer, ToClient
  <1>7. /\ \A i \in 1..Len(ToServer') : \E k \in 1..Len(ToServer) : ToServer'[i] = ToServer[k]
        /\ \A i \in 1..Len(ToClient') : \E k \in 1..Len(ToClient) : ToClient'[i] = ToClient[k]
    BY <1>3, <1>6 DEF Takes, ToServer, ToClient, End
  <1>8. Directions'
    <2>1. \A f \in End : ~alive'[f] => link' = "down" /\ stream'[f] = <<>> /\ reply'[f] = <<>>
      BY <1>1, <1>2, <1>3 DEF Directions, Takes, Other, End
    <2> QED
      BY <1>1, <1>2, <1>7, <2>1 DEF Directions
  <1>9. OpeningOrder' /\ NegotiatedFromLists'
    BY <1>1, <1>2 DEF OpeningOrder, NegotiatedFromLists
  <1>10. UnusedFresh'
    BY <1>1, <1>2, <1>7 DEF UnusedFresh
  <1>11. \A x \in Sid : Stage(x)' = Stage(x)
    BY <1>2 DEF Stage
  <1>12. ASSUME secret["client"] = secret["server"]
         PROVE  /\ InOrderToServer' /\ InOrderToSend' /\ InOrderToClient' /\ InOrderReply'
                /\ ServerFollows'
    <2>1. InOrderToServer /\ InOrderToSend /\ InOrderToClient /\ InOrderReply /\ ServerFollows
      BY <1>12 DEF HInv, RightSecret
    <2>2. InOrderToServer' /\ InOrderToSend'
      <3>1. CASE e = "client"
        BY <1>2, <1>6, <1>11, <2>1, <3>1 DEF InOrderToServer, InOrderToSend, Continues, Is
      <3>2. CASE e = "server"
        <4>1. Moves
          BY <1>4, <1>11, <3>2 DEF Moves, Is, ToServer
        <4> QED
          BY <1>1, <1>2, <1>3, <2>1, <3>2, <4>1, OrderShift
      <3> QED
        BY <3>1, <3>2 DEF End
    <2>3. InOrderToClient' /\ InOrderReply'
      <3>1. CASE e = "server"
        BY <1>2, <1>6, <1>11, <2>1, <3>1
        DEF InOrderToClient, InOrderReply, Follows, Is, IsActive
      <3>2. CASE e = "client"
        <4>1. /\ Len(ToClient) \in Nat \ {0} /\ Len(ToClient') = Len(ToClient) - 1
              /\ \A i \in 1..Len(ToClient') :
                    ToClient'[i] = ToClient[i + 1] /\ i + 1 \in 1..Len(ToClient)
          BY <1>3, <3>2 DEF Takes, ToClient
        <4>2. ASSUME NEW i \in 1..Len(ToClient'), NEW x \in Sid, NEW q \in Rank,
                     Is(ToClient'[i], x, q)
              PROVE  (alive'["server"] => q <= Stage(x)') /\ Follows(i - 1, x, q)'
          <5>1. i + 1 \in 1..Len(ToClient) /\ (i + 1) - 1 = i /\ i \in Nat
            BY <4>1
          <5>2. (alive["server"] => q <= Stage(x)) /\ Follows(i, x, q)
            BY <2>1, <4>1, <4>2, <5>1 DEF InOrderToClient
          <5>3. \A j \in 1..i - 1 : ToClient'[j] = ToClient[j + 1] /\ j + 1 \in 1..i
            BY <4>1, <5>1
          <5> QED
            BY <1>2, <1>11, <5>2, <5>3 DEF Follows, Is, IsActive
        <4>3. ASSUME reply["server"] # <<>>, NEW x \in Sid, NEW q \in Rank,
                     Is(reply["server"][1], x, q)
              PROVE  q <= Stage(x)' /\ Follows(Len(ToClient), x, q)'
          BY <1>2, <1>11, <2>1, <4>1, <4>3 DEF InOrderReply, Follows, Is, IsActive
        <4> QED
          BY <1>2, <4>2, <4>3 DEF InOrderToClient, InOrderReply, Is
      <3> QED
        BY <3>1, <3>2 DEF End
    <2>4. ServerFollows'
      BY <1>2, <1>7, <1>11, <2>1 DEF ServerFollows, Admitted, IsActive
    <2> QED
      BY <2>2, <2>3, <2>4
  <1>13. secret["client"] # secret["server"] => e = "client"
    BY <1>3, <1>4 DEF HInv, WrongSecret, Takes, ToServer, End
  <1>14. ASSUME secret["client"] # secret["server"] PROVE WrongSecret'
    <2>1. ToServer' = ToServer /\ WrongSecret
      BY <1>6, <1>13, <1>14 DEF HInv
    <2>2. \A i \in 1..Len(ToClient') : ToClient'[i].op = "profiles"
      BY <1>7, <1>14, <2>1 DEF WrongSecret
    <2> QED
      BY <1>2, <1>14, <2>1, <2>2 DEF WrongSecret, Rejects, Is
  <1>15. "server" \notin refused'
    <2>1. CASE e = "client"
      BY <1>4, <2>1 DEF HInv
    <2>2. CASE e = "server"
      <3>1. secret["client"] = secret["server"]
        BY <1>13, <2>2
      <3>2. Admitted("server", ToServer[1])
        BY <1>3, <1>4, <2>2, <3>1 DEF HInv, RightSecret, ServerFollows, Takes, ToServer
      <3> QED
        BY <1>4, <2>2, <3>2 DEF HInv, ToServer
    <2> QED
      BY <2>1, <2>2 DEF End
  <1>16. RightSecret' /\ WrongSecret'
    BY <1>2, <1>12, <1>14 DEF RightSecret, WrongSecret
  <1> QED
    BY <1>5, <1>8, <1>9, <1>10, <1>15, <1>16 DEF HInv

\* The receive thread has ended.
LEMMA DropStep ==
  ASSUME HInv, NEW e \in End, DropPeerState(e)
  PROVE  HInv'
  <1>1. HType /\ Directions /\ OpeningOrder /\ UnusedFresh /\ NegotiatedFromLists
    BY DEF HInv
  <1>2. /\ link = "down" /\ alive[e] /\ stream[e] = <<>> /\ reply[e] = <<>>
        /\ alive' = [alive EXCEPT ![e] = FALSE]
        /\ session' = [session EXCEPT ![e] = [s \in Sid |-> NoSession]]
        /\ secret' = secret /\ profiles' = profiles /\ link' = link /\ stream' = stream
        /\ next_sid' = next_sid /\ opening' = opening /\ to_send' = to_send
        /\ reply' = reply /\ refused' = refused
    BY DEF DropPeerState, config
  <1>3. HType'
    BY <1>1, <1>2 DEF HType
  <1>4. \A f \in End, s \in Sid : session'[f][s] = IF f = e THEN NoSession ELSE session[f][s]
    BY <1>1, <1>2 DEF HType
  <1>5. \A f \in End : alive'[f] = IF f = e THEN FALSE ELSE alive[f]
    BY <1>1, <1>2 DEF HType
  <1>6. Directions'
    BY <1>1, <1>2, <1>5 DEF Directions, ToServer, ToClient
  <1>7. OpeningOrder' /\ NegotiatedFromLists'
    BY <1>1, <1>2, <1>4 DEF OpeningOrder, NegotiatedFromLists
  <1>8. UnusedFresh'
    BY <1>1, <1>2, <1>4 DEF UnusedFresh, ToServer, ToClient, End
  <1>9. /\ e = "server" => \A x \in Sid : Stage(x)' = 0
        /\ e = "client" => \A x \in Sid : Stage(x)' = Stage(x)
    BY <1>4 DEF Stage, End
  <1>10. \A x \in Sid : IsActive("client", x)' => IsActive("client", x)
    BY <1>4 DEF IsActive, End
  <1>11. ASSUME secret["client"] = secret["server"]
         PROVE  /\ InOrderToServer' /\ InOrderToSend' /\ InOrderToClient' /\ InOrderReply'
                /\ ServerFollows'
    <2>1. InOrderToServer /\ InOrderToClient /\ InOrderReply /\ ServerFollows
      BY <1>11 DEF HInv, RightSecret
    <2>2. InOrderToSend'
      BY <1>2 DEF InOrderToSend
    <2>3. CASE e = "server"
      <3>1. Len(ToServer') = 0 /\ ToClient' = ToClient /\ reply'["server"] = <<>>
        BY <1>2, <2>3 DEF ToServer, ToClient
      <3>2. ~alive'["server"]
        BY <1>1, <1>2, <2>3 DEF HType, End
      <3>3. InOrderToServer' /\ InOrderReply'
        BY <3>1 DEF InOrderToServer, InOrderReply
      <3>4. ServerFollows'
        BY <1>9, <2>3, <3>1, <3>2 DEF ServerFollows
      <3>5. InOrderToClient'
        BY <1>10, <2>1, <3>1, <3>2 DEF InOrderToClient, Follows, Is
      <3> QED
        BY <2>2, <3>3, <3>4, <3>5
    <2>4. CASE e = "client"
      <3>1. ToServer' = ToServer /\ ToClient' = ToClient /\ alive'["server"] = alive["server"]
        BY <1>2, <1>5, <2>4 DEF ToServer, ToClient, End
      <3>2. InOrderToServer'
        BY <1>9, <2>1, <2>4, <3>1 DEF InOrderToServer, Continues, Is
      <3>3. InOrderToClient'
        BY <1>9, <1>10, <2>1, <2>4, <3>1 DEF InOrderToClient, Follows, Is
      <3>5. InOrderReply'
        BY <1>2, <1>9, <1>10, <2>1, <2>4, <3>1 DEF InOrderReply, Follows, Is
      <3>4. ServerFollows'
        <4>1. session'["server"] = session["server"]
          BY <1>1, <1>2, <2>4 DEF HType, End
        <4> QED
          BY <1>9, <1>10, <2>1, <2>4, <3>1, <4>1 DEF ServerFollows, Admitted
      <3> QED
        BY <2>2, <3>2, <3>3, <3>4, <3>5
    <2> QED
      BY <2>3, <2>4 DEF End
  <1>12. ASSUME secret["client"] # secret["server"] PROVE WrongSecret'
    <2>1. WrongSecret /\ ToServer' = ToServer /\ ToClient' = ToClient
      BY <1>2 DEF HInv, ToServer, ToClient
    <2>2. CASE e = "server"
      <3>1. Len(ToServer) = 0
        BY <1>2, <2>2 DEF ToServer
      <3> QED
        BY <1>2, <1>4, <1>12, <2>1, <2>2, <3>1 DEF WrongSecret, End
    <2>3. CASE e = "client"
      BY <1>2, <1>4, <1>12, <2>1, <2>3 DEF WrongSecret, Rejects, Is, End
    <2> QED
      BY <2>2, <2>3 DEF End
  <1>13. RightSecret' /\ WrongSecret'
    BY <1>2, <1>11, <1>12 DEF RightSecret, WrongSecret
  <1> QED
    BY <1>2, <1>3, <1>6, <1>7, <1>8, <1>13 DEF HInv

\* The server sends the reply it has decided on; the client has none.
LEMMA ReplyStep ==
  ASSUME HInv, NEW e \in End, SendReply(e)
  PROVE  HInv'
  <1>1. HType /\ Directions /\ OpeningOrder /\ UnusedFresh /\ NegotiatedFromLists
    BY DEF HInv
  <1>2. /\ reply[e] # <<>> /\ Send(e, reply[e][1])
        /\ reply' = [reply EXCEPT ![e] = <<>>]
        /\ secret' = secret /\ profiles' = profiles /\ link' = link /\ session' = session
        /\ next_sid' = next_sid /\ opening' = opening /\ to_send' = to_send
        /\ alive' = alive /\ refused' = refused
    BY DEF SendReply, config
  <1>3. e = "server"
    BY <1>1, <1>2 DEF Directions, End
  <1>4. PICK m \in SessionMsg : m = reply["server"][1]
    BY <1>1, <1>2, <1>3, TailFacts DEF HType
  <1>5. PICK s \in Sid, r \in Rank : Is(m, s, r) /\ m.sid = s /\ m.op # "data"
    BY RankFacts DEF Is, SessionMsg, Ops
  <1>6. m.reply /\ m.op \in {"profiles", "ready"} /\ reply["server"] # <<>> /\ alive["server"]
    BY <1>1, <1>2, <1>3, <1>4 DEF Directions, End
  <1>7. /\ stream' \in [End -> Seq(Msg)] /\ ToServer' = ToServer
        /\ \/ link = "up" /\ alive["server"] /\ ToClient' = Append(ToClient, m)
           \/ ~(link = "up" /\ alive["server"]) /\ ToClient' = ToClient
    BY <1>1, <1>2, <1>3, <1>4, SendFacts DEF Msg, End, Other, ToServer, ToClient
  <1>8. /\ ToClient \in Seq(Msg) /\ Len(ToClient) \in Nat
        /\ link # "up" => ToClient' = ToClient
        /\ link = "up" => /\ Len(ToClient') = Len(ToClient) + 1
                          /\ \A i \in 1..Len(ToClient) : ToClient'[i] = ToClient[i]
                          /\ ToClient'[Len(ToClient) + 1] = m
    <2>1. ToClient \in Seq(Msg) /\ m \in Msg
      BY <1>1 DEF HType, ToClient, End, Msg
    <2>2. IF link = "up" THEN ToClient' = Append(ToClient, m) ELSE ToClient' = ToClient
      BY <1>6, <1>7
    <2>3. /\ Len(Append(ToClient, m)) = Len(ToClient) + 1 /\ Len(ToClient) \in Nat
          /\ \A i \in 1..Len(ToClient) : Append(ToClient, m)[i] = ToClient[i]
          /\ Append(ToClient, m)[Len(ToClient) + 1] = m
      BY <2>1, AppendFacts
    <2> QED
      BY <2>1, <2>2, <2>3
  <1>9. reply'["server"] = <<>> /\ reply'["client"] = <<>> /\ reply' \in [End -> Seq(SessionMsg)]
    <2>1. <<>> \in Seq(SessionMsg)
      BY <1>4, OneFacts
    <2>2. reply \in [End -> Seq(SessionMsg)] /\ reply["client"] = <<>>
      BY <1>1 DEF HType, Directions
    <2>3. reply' = [reply EXCEPT !["server"] = <<>>] /\ "server" \in End /\ "client" \in End
      BY <1>2, <1>3 DEF End
    <2> QED
      BY <2>1, <2>2, <2>3, ExceptFacts
  <1>10. HType'
    BY <1>1, <1>2, <1>7, <1>9 DEF HType
  <1>11. Directions'
    <2>1. \A i \in 1..Len(ToClient') : ToClient'[i].op # "data" =>
             ToClient'[i].reply /\ ToClient'[i].op \in {"profiles", "ready"}
      BY <1>1, <1>6, <1>8 DEF Directions
    <2>2. \A f \in End : ~alive'[f] => link' = "down" /\ stream'[f] = <<>> /\ reply'[f] = <<>>
      BY <1>1, <1>2, <1>7, <1>8, <1>9 DEF Directions, End, ToServer, ToClient
    <2> QED
      BY <1>1, <1>2, <1>7, <1>9, <2>1, <2>2 DEF Directions
  <1>12. OpeningOrder' /\ NegotiatedFromLists'
    BY <1>1, <1>2 DEF OpeningOrder, NegotiatedFromLists
  <1>13. UnusedFresh'
    <2> SUFFICES ASSUME NEW x \in Sid, x >= next_sid \/ (opening /\ x = next_sid - 1)
                 PROVE  \A i \in 1..Len(ToClient') : ToClient'[i].sid # x
      BY <1>1, <1>2, <1>7, <1>9 DEF UnusedFresh
    <2>1. m.sid # x /\ \A i \in 1..Len(ToClient) : ToClient[i].sid # x
      BY <1>1, <1>4, <1>6 DEF UnusedFresh
    <2> QED
      BY <1>8, <2>1
  <1>14. \A x \in Sid : Stage(x)' = Stage(x)
    BY <1>2 DEF Stage
  <1>15. ASSUME secret["client"] = secret["server"]
         PROVE  /\ InOrderToServer' /\ InOrderToSend' /\ InOrderToClient' /\ InOrderReply'
                /\ ServerFollows'
    <2>1. InOrderToServer /\ InOrderToSend /\ InOrderToClient /\ InOrderReply /\ ServerFollows
      BY <1>15 DEF HInv, RightSecret
    <2>2. InOrderToServer' /\ InOrderToSend'
      BY <1>2, <1>7, <1>14, <2>1 DEF InOrderToServer, InOrderToSend, Continues, Is
    <2>3. InOrderReply'
      BY <1>9 DEF InOrderReply
    <2>4. r <= Stage(s) /\ Follows(Len(ToClient), s, r)
      BY <1>4, <1>5, <1>6, <2>1 DEF InOrderReply
    <2>5. InOrderToClient'
      <3> SUFFICES ASSUME NEW i \in 1..Len(ToClient'), NEW x \in Sid, NEW q \in Rank,
                          Is(ToClient'[i], x, q)
                   PROVE  (alive'["server"] => q <= Stage(x)') /\ Follows(i - 1, x, q)'
        BY DEF InOrderToClient, Is
      <3>1. CASE i \in 1..Len(ToClient)
        <4>1. ToClient'[i] = ToClient[i] /\ \A j \in 1..i - 1 : ToClient'[j] = ToClient[j]
          BY <1>8, <3>1
        <4>2. (alive["server"] => q <= Stage(x)) /\ Follows(i - 1, x, q)
          BY <2>1, <3>1, <4>1 DEF InOrderToClient
        <4> QED
          BY <1>2, <1>14, <4>1, <4>2 DEF Follows, Is, IsActive
      <3>2. CASE i \notin 1..Len(ToClient)
        <4>1. ToClient'[i] = m /\ i - 1 = Len(ToClient) /\ \A j \in 1..i - 1 : ToClient'[j] = ToClient[j]
          BY <1>8, <3>2
        <4>2. x = s /\ q = r
          BY <1>5, <4>1 DEF Is
        <4> QED
          BY <1>2, <1>14, <2>4, <4>1, <4>2 DEF Follows, Is, IsActive
      <3> QED
        BY <3>1, <3>2
    <2>6. ServerFollows'
      BY <1>2, <1>7, <1>14, <2>1 DEF ServerFollows, Admitted, IsActive
    <2> QED
      BY <2>2, <2>3, <2>5, <2>6
  <1>16. ASSUME secret["client"] # secret["server"] PROVE WrongSecret'
    <2>1. WrongSecret
      BY DEF HInv
    <2>2. \A i \in 1..Len(ToClient') : ToClient'[i].op = "profiles"
      BY <1>4, <1>6, <1>8, <1>16, <2>1 DEF WrongSecret
    <2> QED
      BY <1>2, <1>7, <1>9, <1>16, <2>1, <2>2 DEF WrongSecret, Rejects, Is
  <1>17. RightSecret' /\ WrongSecret'
    BY <1>2, <1>15, <1>16 DEF RightSecret, WrongSecret
  <1> QED
    BY <1>2, <1>10, <1>11, <1>12, <1>13, <1>17 DEF HInv

\* The connection breaks, and each end keeps a prefix of what was on its way to it.
LEMMA LostStep ==
  ASSUME HInv, LinkLost
  PROVE  HInv'
  <1>1. HType /\ Directions /\ OpeningOrder /\ UnusedFresh /\ NegotiatedFromLists
    BY DEF HInv
  <1>2. /\ link = "up" /\ link' = "down"
        /\ secret' = secret /\ profiles' = profiles /\ session' = session
        /\ next_sid' = next_sid /\ opening' = opening /\ to_send' = to_send
        /\ reply' = reply /\ alive' = alive /\ refused' = refused
    BY DEF LinkLost, config
  <1>3. PICK c \in 0..Len(stream["client"]), s \in 0..Len(stream["server"]) :
           stream' = [e \in End |-> SubSeq(stream[e], 1, IF e = "client" THEN c ELSE s)]
    BY DEF LinkLost
  <1> DEFINE n == [e \in End |-> IF e = "client" THEN c ELSE s]
  <1>4. /\ stream' = [e \in End |-> SubSeq(stream[e], 1, n[e])]
        /\ \A e \in End : n[e] \in Nat /\ n[e] <= Len(stream[e])
    <2>1. Len(stream["client"]) \in Nat /\ Len(stream["server"]) \in Nat
      BY <1>1 DEF HType, End
    <2> QED
      BY <1>3, <2>1 DEF End
  <1> HIDE DEF n
  <1>5. ASSUME NEW e \in End
        PROVE  /\ stream'[e] \in Seq(Msg) /\ Len(stream'[e]) = n[e] /\ Len(stream[e]) \in Nat
               /\ n[e] \in Nat /\ n[e] <= Len(stream[e])
               /\ \A i \in 1..n[e] : stream'[e][i] = stream[e][i]
    <2>1. stream[e] \in Seq(Msg) /\ n[e] \in Nat /\ n[e] <= Len(stream[e])
      BY <1>1, <1>4 DEF HType
    <2>2. stream'[e] = SubSeq(stream[e], 1, n[e])
      BY <1>4
    <2> QED
      BY <2>1, <2>2, PrefixFacts
  <1>6. stream' \in [End -> Seq(Msg)]
    <2>1. stream' = [e \in End |-> stream'[e]]
      BY <1>4
    <2> QED
      BY <1>5, <2>1
  <1>7. HType'
    BY <1>1, <1>2, <1>6 DEF HType
  <1>8. /\ Len(ToServer) \in Nat /\ Len(ToServer') \in Nat /\ Len(ToServer') <= Len(ToServer)
        /\ \A i \in 1..Len(ToServer') : ToServer'[i] = ToServer[i]
        /\ Len(ToClient) \in Nat /\ Len(ToClient') \in Nat /\ Len(ToClient') <= Len(ToClient)
        /\ \A i \in 1..Len(ToClient') : ToClient'[i] = ToClient[i]
    BY <1>5 DEF ToServer, ToClient, End
  <1>9. /\ \A i \in 1..Len(ToServer') : i \in 1..Len(ToServer)
        /\ \A i \in 1..Len(ToClient') : i \in 1..Len(ToClient)
    BY <1>8
  <1>10. Directions'
    <2>1. \A e \in End : alive'[e]
      BY <1>1, <1>2 DEF Directions
    <2> QED
      BY <1>1, <1>2, <1>8, <1>9, <2>1 DEF Directions
  <1>11. OpeningOrder' /\ NegotiatedFromLists'
    BY <1>1, <1>2 DEF OpeningOrder, NegotiatedFromLists
  <1>12. UnusedFresh'
    BY <1>1, <1>2, <1>8, <1>9 DEF UnusedFresh
  <1>13. \A x \in Sid : Stage(x)' = Stage(x)
    BY <1>2 DEF Stage
  <1>14. ASSUME secret["client"] = secret["server"]
         PROVE  /\ InOrderToServer' /\ InOrderToSend' /\ InOrderToClient' /\ InOrderReply'
                /\ ServerFollows'
    <2>1. InOrderToServer /\ InOrderToClient /\ InOrderReply /\ ServerFollows
      BY <1>14 DEF HInv, RightSecret
    <2>2. InOrderToSend'
      BY <1>2 DEF InOrderToSend
    <2>3. InOrderToServer'
      <3> SUFFICES ASSUME NEW i \in 1..Len(ToServer'), NEW x \in Sid, NEW q \in Rank,
                          Is(ToServer'[i], x, q)
                   PROVE  Continues(i - 1, x, q)'
        BY DEF InOrderToServer, Is
      <3>1. i - 1 \in Nat /\ \A j \in 1..i - 1 : ToServer'[j] = ToServer[j]
        BY <1>8
      <3>2. Continues(i - 1, x, q)
        BY <1>8, <1>9, <2>1 DEF InOrderToServer
      <3> QED
        BY <1>2, <3>1, <3>2, ContinuesFrame
    <2>4. InOrderToClient'
      <3> SUFFICES ASSUME NEW i \in 1..Len(ToClient'), NEW x \in Sid, NEW q \in Rank,
                          Is(ToClient'[i], x, q)
                   PROVE  (alive'["server"] => q <= Stage(x)') /\ Follows(i - 1, x, q)'
        BY DEF InOrderToClient, Is
      <3>1. \A j \in 1..i - 1 : ToClient'[j] = ToClient[j]
        BY <1>8
      <3>2. (alive["server"] => q <= Stage(x)) /\ Follows(i - 1, x, q)
        BY <1>8, <1>9, <2>1 DEF InOrderToClient
      <3> QED
        BY <1>2, <1>13, <3>1, <3>2 DEF Follows, Is, IsActive
    <2>5. InOrderReply'
      BY <1>2, <1>8, <1>9, <1>13, <2>1 DEF InOrderReply, Follows, Is, IsActive
    <2>6. ServerFollows'
      BY <1>2, <1>8, <1>9, <1>13, <2>1 DEF ServerFollows, Admitted, IsActive
    <2> QED
      BY <2>2, <2>3, <2>4, <2>5, <2>6
  <1>15. ASSUME secret["client"] # secret["server"] PROVE WrongSecret'
    <2>1. WrongSecret
      BY DEF HInv
    <2>2. ASSUME NEW i \in 1..Len(ToServer'), NEW x \in Sid,
                 Is(ToServer'[i], x, 3) \/ Is(ToServer'[i], x, 4)
          PROVE  Rejects(i - 1, x)'
      <3>1. \A j \in 1..i - 1 : ToServer'[j] = ToServer[j]
        BY <1>8
      <3>2. Rejects(i - 1, x)
        BY <1>8, <1>9, <1>15, <2>1, <2>2 DEF WrongSecret
      <3> QED
        BY <1>2, <3>1, <3>2 DEF Rejects, Is
    <2>3. /\ \A i \in 1..Len(ToServer') : ToServer'[i].op # "data"
          /\ \A i \in 1..Len(ToClient') : ToClient'[i].op = "profiles"
      BY <1>8, <1>9, <1>15, <2>1 DEF WrongSecret
    <2> QED
      BY <1>2, <1>15, <2>1, <2>2, <2>3 DEF WrongSecret, Is
  <1>16. RightSecret' /\ WrongSecret'
    BY <1>2, <1>14, <1>15 DEF RightSecret, WrongSecret
  <1> QED
    BY <1>2, <1>7, <1>10, <1>11, <1>12, <1>16 DEF HInv

\* A message is published: where the client may send it, the server admits it.
LEMMA PublishStep ==
  ASSUME HInv, NEW e \in End, NEW sid \in Sid, NEW type \in DataType, Publish(e, sid, type)
  PROVE  HInv'
  <1>1. HType /\ Directions /\ OpeningOrder /\ UnusedFresh /\ NegotiatedFromLists
    BY DEF HInv
  <1>2. PICK m : m = Data(sid, type)
    OBVIOUS
  <1>3. /\ alive[e] /\ link = "up" /\ IsActive(e, sid) /\ Send(e, m)
        /\ supports_profile(session[e][sid].negotiated, type.profile_id, type.major, type.minor)
        /\ secret' = secret /\ profiles' = profiles /\ link' = link /\ session' = session
        /\ next_sid' = next_sid /\ opening' = opening /\ to_send' = to_send
        /\ reply' = reply /\ alive' = alive /\ refused' = refused
    BY <1>2 DEF Publish, config, IsActive
  <1>4. m \in Msg /\ m.op = "data" /\ m.sid = sid /\ m.type = type
    BY <1>2 DEF Data, Msg, DataMsg
  <1>5. /\ stream' \in [End -> Seq(Msg)] /\ stream'[e] = stream[e]
        /\ stream'[Other(e)] = Append(stream[Other(e)], m)
    BY <1>1, <1>3, <1>4, SendFacts
  <1>6. ASSUME NEW f \in End
        PROVE  /\ Len(stream[f]) \in Nat /\ Len(stream'[f]) \in Nat
               /\ f = e => Len(stream'[f]) = Len(stream[f])
               /\ f # e => Len(stream'[f]) = Len(stream[f]) + 1 /\ stream'[f][Len(stream[f]) + 1] = m
               /\ \A i \in 1..Len(stream[f]) : stream'[f][i] = stream[f][i]
    <2>1. stream[f] \in Seq(Msg)
      BY <1>1 DEF HType
    <2>2. CASE f = e
      BY <1>5, <2>1, <2>2
    <2>3. CASE f # e
      <3>1. stream'[f] = Append(stream[f], m)
        BY <1>5, <2>3 DEF Other, End
      <3> QED
        BY <1>4, <2>1, <2>3, <3>1, AppendFacts
    <2> QED
      BY <2>2, <2>3
  <1>7. /\ Len(ToServer) \in Nat /\ Len(ToServer') \in Nat
        /\ \A i \in 1..Len(ToServer) : ToServer'[i] = ToServer[i]
        /\ \A i \in 1..Len(ToServer') : \/ i \in 1..Len(ToServer)
                                        \/ e = "client" /\ ToServer'[i] = m
        /\ Len(ToServer) <= Len(ToServer')
    BY <1>6 DEF ToServer, End
  <1>8. /\ Len(ToClient) \in Nat /\ Len(ToClient') \in Nat
        /\ \A i \in 1..Len(ToClient) : ToClient'[i] = ToClient[i]
        /\ \A i \in 1..Len(ToClient') : \/ i \in 1..Len(ToClient)
                                        \/ e = "server" /\ ToClient'[i] = m
        /\ Len(ToClient) <= Len(ToClient')
    BY <1>6 DEF ToClient, End
  <1>9. HType'
    BY <1>1, <1>3, <1>5 DEF HType
  <1>10. \A f \in End : alive[f]
    BY <1>1, <1>3 DEF Directions
  <1>11. Directions'
    <2>1. \A i \in 1..Len(ToServer') : ToServer'[i].op # "data" => ~ToServer'[i].reply
      BY <1>1, <1>4, <1>7 DEF Directions
    <2>2. \A i \in 1..Len(ToClient') : ToClient'[i].op # "data" =>
             ToClient'[i].reply /\ ToClient'[i].op \in {"profiles", "ready"}
      BY <1>1, <1>4, <1>8 DEF Directions
    <2> QED
      BY <1>1, <1>3, <1>10, <2>1, <2>2 DEF Directions
  <1>12. OpeningOrder' /\ NegotiatedFromLists'
    BY <1>1, <1>3 DEF OpeningOrder, NegotiatedFromLists
  <1>13. UnusedFresh'
    <2> SUFFICES ASSUME NEW x \in Sid, x >= next_sid \/ (opening /\ x = next_sid - 1)
                 PROVE  /\ \A i \in 1..Len(ToServer') : ToServer'[i].sid # x
                        /\ \A i \in 1..Len(ToClient') : ToClient'[i].sid # x
      BY <1>1, <1>3 DEF UnusedFresh
    <2>1. /\ \A i \in 1..Len(ToServer) : ToServer[i].sid # x
          /\ \A i \in 1..Len(ToClient) : ToClient[i].sid # x
          /\ \A f \in End : session[f][x] = NoSession
      BY <1>1 DEF UnusedFresh, End
    <2>2. sid # x
      BY <1>3, <2>1 DEF IsActive
    <2> QED
      BY <1>4, <1>7, <1>8, <2>1, <2>2
  <1>14. \A x \in Sid : Stage(x)' = Stage(x)
    BY <1>3 DEF Stage
  <1>15. ASSUME secret["client"] = secret["server"]
         PROVE  /\ InOrderToServer' /\ InOrderToSend' /\ InOrderToClient' /\ InOrderReply'
                /\ ServerFollows'
    <2>1. InOrderToServer /\ InOrderToSend /\ InOrderToClient /\ InOrderReply /\ ServerFollows
      BY <1>15 DEF HInv, RightSecret
    <2>2. ASSUME NEW n \in 0..Len(ToServer), NEW x \in Sid, NEW q \in Rank, Continues(n, x, q)
          PROVE  Continues(n, x, q)'
      <3>1. n \in Nat /\ \A i \in 1..n : ToServer'[i] = ToServer[i]
        BY <1>7
      <3> QED
        BY <1>3, <2>2, <3>1, ContinuesFrame
    <2>3. InOrderToServer'
      <3> SUFFICES ASSUME NEW i \in 1..Len(ToServer'), NEW x \in Sid, NEW q \in Rank,
                          Is(ToServer'[i], x, q)
                   PROVE  Continues(i - 1, x, q)'
        BY DEF InOrderToServer, Is
      <3>1. i \in 1..Len(ToServer) /\ ToServer'[i] = ToServer[i] /\ i - 1 \in 0..Len(ToServer)
        BY <1>4, <1>7 DEF Is
      <3> QED
        BY <2>1, <2>2, <3>1 DEF InOrderToServer
    <2>4. InOrderToSend'
      <3> SUFFICES ASSUME NEW x \in Sid, NEW q \in Rank, to_send # <<>>,
                          x = next_sid - 1, q = 5 - Len(to_send)
                   PROVE  Continues(Len(ToServer), x, q)'
        BY <1>3 DEF InOrderToSend
      <3>1. PICK n \in 0..Len(ToServer) : n = Len(ToServer)
        BY <1>7
      <3>2. Continues(n, x, q)
        BY <1>3, <2>1, <3>1 DEF InOrderToSend
      <3>3. Continues(n, x, q)'
        BY <2>2, <3>2
      <3>4. \A j \in 1..Len(ToServer') : j \in 1..n \/ ToServer'[j].op = "data"
        BY <1>4, <1>7, <3>1
      <3>5. 1..n \subseteq 1..Len(ToServer')
        BY <1>7, <3>1
      <3> QED
        BY <3>3, <3>4, <3>5 DEF Continues, Is
    <2>5. InOrderToClient'
      <3> SUFFICES ASSUME NEW i \in 1..Len(ToClient'), NEW x \in Sid, NEW q \in Rank,
                          Is(ToClient'[i], x, q)
                   PROVE  (alive'["server"] => q <= Stage(x)') /\ Follows(i - 1, x, q)'
        BY DEF InOrderToClient, Is
      <3>1. i \in 1..Len(ToClient) /\ \A j \in 1..i - 1 : ToClient'[j] = ToClient[j]
        BY <1>4, <1>8 DEF Is
      <3>2. (alive["server"] => q <= Stage(x)) /\ Follows(i - 1, x, q)
        BY <1>8, <2>1, <3>1 DEF InOrderToClient
      <3> QED
        BY <1>3, <1>14, <3>1, <3>2 DEF Follows, Is, IsActive
    <2>6. InOrderReply'
      <3>1. \A j \in 1..Len(ToClient') :
               ToClient'[j].op = "data" \/ (j \in 1..Len(ToClient) /\ ToClient'[j] = ToClient[j])
        BY <1>4, <1>8
      <3> QED
        BY <1>3, <1>14, <2>1, <3>1 DEF InOrderReply, Follows, Is, IsActive
    <2>7. e = "client" => Admitted("server", m)
      <3> SUFFICES ASSUME e = "client" PROVE Admitted("server", m)
        OBVIOUS
      <3>1. IsActive("server", sid)
        BY <1>1, <1>3, <1>10, <2>1, StageFacts DEF ServerFollows, End
      <3>2. /\ session["client"][sid].negotiated = Negotiated(profiles["client"], profiles["server"])
            /\ session["server"][sid].negotiated = Negotiated(profiles["server"], profiles["client"])
        BY <1>1, <1>3, <3>1 DEF NegotiatedFromLists, IsActive, Other, End
      <3>3. session["client"][sid].negotiated = session["server"][sid].negotiated
        BY <1>1, <3>2, NegotiatedSymmetric DEF HType, End
      <3> QED
        BY <1>3, <1>4, <3>1, <3>3 DEF Admitted, IsActive
    <2>8. ServerFollows'
      BY <1>3, <1>7, <1>14, <2>1, <2>7 DEF ServerFollows, Admitted, IsActive
    <2> QED
      BY <2>3, <2>4, <2>5, <2>6, <2>8
  <1>16. secret["client"] = secret["server"]
    <2>1. ~(secret["client"] # secret["server"])
      BY <1>3 DEF HInv, WrongSecret, IsActive, End
    <2> QED
      BY <2>1
  <1>17. RightSecret' /\ WrongSecret'
    BY <1>3, <1>15, <1>16 DEF RightSecret, WrongSecret
  <1> QED
    BY <1>3, <1>9, <1>11, <1>12, <1>13, <1>17 DEF HInv

(***************************************************************************)
(* The theorems.                                                           *)
(***************************************************************************)

\* Every step of the two ends keeps the invariant.
LEMMA StepHInv == HInv /\ [Next]_vars => HInv'
  <1> SUFFICES ASSUME HInv, [Next]_vars PROVE HInv'
    OBVIOUS
  <1>1. CASE OpenSession
    BY <1>1, OpenStep
  <1>2. CASE InsertSession
    BY <1>2, InsertStep
  <1>3. CASE SendOpening
    BY <1>3, SendOpeningStep
  <1>4. ASSUME NEW e \in End, ReceiveThread(e) PROVE HInv'
    BY <1>4, HandleStep, DataStep, ReplyStep, DropStep DEF ReceiveThread
  <1>5. ASSUME NEW e \in End, NEW sid \in Sid, NEW type \in DataType, Publish(e, sid, type)
        PROVE  HInv'
    BY <1>5, PublishStep
  <1>6. CASE LinkLost
    BY <1>6, LostStep
  <1>7. CASE UNCHANGED vars
    <2>1. /\ secret' = secret /\ profiles' = profiles /\ link' = link /\ stream' = stream
          /\ session' = session /\ next_sid' = next_sid /\ opening' = opening
          /\ to_send' = to_send /\ reply' = reply /\ alive' = alive /\ refused' = refused
      BY <1>7 DEF vars
    <2>2. HType' /\ Directions' /\ OpeningOrder' /\ UnusedFresh' /\ NegotiatedFromLists'
      BY <2>1 DEF HInv, HType, Directions, OpeningOrder, UnusedFresh, NegotiatedFromLists,
         ToServer, ToClient
    <2>3. InOrderToServer' = InOrderToServer /\ InOrderToSend' = InOrderToSend
      BY <2>1 DEF InOrderToServer, InOrderToSend, Continues, Stage, ToServer, Is
    <2>4. InOrderToClient' = InOrderToClient /\ InOrderReply' = InOrderReply
      BY <2>1 DEF InOrderToClient, InOrderReply, Follows, Stage, IsActive, ToClient, Is
    <2>5. ServerFollows' = ServerFollows
      BY <2>1 DEF ServerFollows, Stage, IsActive, Admitted, ToServer
    <2>6. RightSecret'
      BY <2>1, <2>3, <2>4, <2>5 DEF HInv, RightSecret
    <2>7. WrongSecret'
      BY <2>1 DEF HInv, WrongSecret, Rejects, ToServer, ToClient, Is
    <2> QED
      BY <2>1, <2>2, <2>6, <2>7 DEF HInv
  <1> QED
    BY <1>1, <1>2, <1>3, <1>4, <1>5, <1>6, <1>7 DEF Next

\* The inductive invariant holds in every reachable state.
THEOREM Reachable == Spec => []HInv
  BY InitHInv, StepHInv, PTL DEF Spec

\* Every reachable state of the two ends is well typed, and no receive thread has more
\* than one reply to send.
THEOREM TypeCorrect == Spec => []TypeOK
  <1> DEFINE Bounded == published \in 0..MaxData /\ \A e \in End : Len(reply[e]) <= 1
  <1>1. Init => Bounded
    BY HandshakeAssumption DEF Init
  <1>2. ASSUME HInv, Bounded, [Next]_vars PROVE Bounded'
    <2>1. HType /\ MaxData \in Nat
      BY <1>2, HandshakeAssumption DEF HInv
    <2>2. published' \in 0..MaxData
      <3>1. published' = published \/ (published < MaxData /\ published' = published + 1)
        BY <1>2 DEF Next, vars, OpenSession, InsertSession, SendOpening, ReceiveThread,
           HandleSession, HandleData, SendReply, DropPeerState, Publish, LinkLost
      <3> QED
        BY <1>2, <2>1, <3>1
    <2>3. ASSUME NEW e \in End PROVE Len(reply'[e]) <= 1
      <3>1. CASE reply' = reply
        BY <1>2, <3>1
      <3>2. ASSUME NEW f \in End, NEW m, reply' = [reply EXCEPT ![f] = Answer(f, m)]
            PROVE  Len(reply'[e]) <= 1
        <4>1. Len(Answer(f, m)) <= 1
          BY DEF Answer
        <4> QED
          BY <1>2, <2>1, <3>2, <4>1 DEF HType
      <3>3. ASSUME NEW f \in End, reply' = [reply EXCEPT ![f] = <<>>]
            PROVE  Len(reply'[e]) <= 1
        BY <1>2, <2>1, <3>3 DEF HType
      <3>4. \/ reply' = reply
            \/ \E f \in End : \/ \E m : reply' = [reply EXCEPT ![f] = Answer(f, m)]
                              \/ reply' = [reply EXCEPT ![f] = <<>>]
        <4>1. ASSUME NEW f \in End, HandleSession(f)
              PROVE  reply' = reply \/ \E m : reply' = [reply EXCEPT ![f] = Answer(f, m)]
          BY <4>1 DEF HandleSession
        <4>2. ASSUME NEW f \in End, SendReply(f) PROVE reply' = [reply EXCEPT ![f] = <<>>]
          BY <4>2 DEF SendReply
        <4>3. \/ reply' = reply
              \/ \E f \in End : HandleSession(f) \/ SendReply(f)
          BY <1>2 DEF Next, vars, OpenSession, InsertSession, SendOpening, ReceiveThread,
             HandleData, DropPeerState, Publish, LinkLost
        <4> QED
          BY <4>1, <4>2, <4>3
      <3> QED
        BY <3>1, <3>2, <3>3, <3>4
    <2> QED
      BY <2>2, <2>3
  <1>3. HInv /\ Bounded => TypeOK
    BY DEF HInv, HType, Entries, TypeOK
  <1> HIDE DEF Bounded
  <1> QED
    BY <1>1, <1>2, <1>3, Reachable, PTL DEF Spec

\* Without the right secret no session becomes Active at either end, whatever the
\* profiles, the number of sessions and the moment the connection breaks.
THEOREM WrongSecretThm == Spec => []WrongSecretStaysOut
  <1>1. HInv => WrongSecretStaysOut
    BY DEF HInv, WrongSecret, WrongSecretStaysOut, IsActive, End
  <1> QED
    BY <1>1, Reachable, PTL

\* A session that is Active at the client is Active at the server with the same
\* profiles, and the server refuses nothing that a client publishes on it.
THEOREM ClientActiveThm == Spec => []ClientActiveAgrees
  <1>1. HInv => ClientActiveAgrees
    <2> SUFFICES ASSUME HInv, NEW s \in Sid, IsActive("client", s), alive["server"]
                 PROVE  /\ IsActive("server", s)
                        /\ session["server"][s].negotiated = session["client"][s].negotiated
      BY DEF ClientActiveAgrees, HInv
    <2>1. HType /\ NegotiatedFromLists
      BY DEF HInv
    <2>2. secret["client"] = secret["server"]
      <3>1. ~(secret["client"] # secret["server"])
        BY DEF HInv, WrongSecret, IsActive
      <3> QED
        BY <3>1
    <2>3. IsActive("server", s)
      BY <2>1, <2>2, StageFacts DEF HInv, RightSecret, ServerFollows
    <2>4. /\ session["client"][s].negotiated = Negotiated(profiles["client"], profiles["server"])
          /\ session["server"][s].negotiated = Negotiated(profiles["server"], profiles["client"])
      BY <2>1, <2>3 DEF NegotiatedFromLists, IsActive, Other, End
    <2> QED
      BY <2>1, <2>3, <2>4, NegotiatedSymmetric DEF HType, End
  <1> QED
    BY <1>1, Reachable, PTL

\* An Active session stays Active until its connection's state is dropped: no profile
\* list reaches it, and open_session does not enter its id again.
THEOREM ActiveStaysThm == Spec => ActiveStays
  <1>1. ASSUME HInv, HInv', [Next]_vars, NEW e \in End, NEW s \in Sid, IsActive(e, s)
        PROVE  IsActive(e, s)' \/ ~alive'[e]
    <2>1. HType /\ UnusedFresh /\ OpeningOrder
      BY <1>1 DEF HInv
    <2>2. CASE session' = session
      BY <1>1, <2>2 DEF IsActive
    <2>3. CASE InsertSession
      <3>1. opening /\ session' = [session EXCEPT !["client"][next_sid - 1] = Fresh]
        BY <2>3 DEF InsertSession
      <3>2. s = next_sid - 1 => session[e][s] = NoSession
        BY <2>1, <3>1 DEF UnusedFresh, End
      <3>3. session'[e][s] = session[e][s]
        BY <1>1, <2>1, <3>1, <3>2 DEF HType, IsActive, End
      <3> QED
        BY <1>1, <3>3 DEF IsActive
    <2>4. ASSUME NEW f \in End, HandleSession(f)
          PROVE  IsActive(e, s)'
      <3>1. Takes(f) /\ Handles(f, stream[f][1])
        BY <2>1, <2>4, HandleFacts
      <3>2. PICK m \in SessionMsg : m = stream[f][1]
        BY <3>1 DEF Handles
      <3>3. CASE f # e \/ m.sid # s
        <4>1. session'[e][s] = session[e][s]
          BY <3>1, <3>2, <3>3 DEF Handles, Other, End
        <4> QED
          BY <1>1, <4>1 DEF IsActive
      <3>4. CASE f = e /\ m.sid = s
        <4>1. secret["client"] = secret["server"]
          <5>1. ~(secret["client"] # secret["server"])
            BY <1>1 DEF HInv, WrongSecret, IsActive, End
          <5> QED
            BY <5>1
        <4>2. PICK r \in Rank : r = OpRank(m.op)
          BY RankFacts
        <4>3. Is(stream[f][1], s, r) /\ 1 \in 1..Len(stream[f]) /\ stream[f] # <<>>
          BY <3>1, <3>2, <3>4, <4>2 DEF Is, Handles, Takes
        <4>4. CASE e = "server"
          <5>1. Stage(s) = r - 1
            BY <1>1, <2>1, <3>4, <4>1, <4>3, <4>4, FirstInPlace DEF HInv, RightSecret, ToServer
          <5>2. Stage(s) = 4
            BY <1>1, <2>1, <4>4, StageFacts
          <5> QED
            BY <5>1, <5>2 DEF Rank
        <4>5. CASE e = "client"
          <5>1. Follows(1 - 1, s, r)
            BY <1>1, <3>4, <4>1, <4>3, <4>5 DEF HInv, RightSecret, InOrderToClient, ToClient
          <5>2. r # 3
            BY <1>1, <4>5, <5>1 DEF Follows
          <5>3. m.op \in {"profiles", "ready"}
            BY <1>1, <3>1, <3>2, <3>4, <4>3, <4>5 DEF HInv, Directions, ToClient, Handles
          <5>4. m.op = "ready"
            BY <4>2, <5>2, <5>3, RankFacts
          <5>5. Entry(e, s).state = "active"
            BY <1>1 DEF IsActive, Entry
          <5>6. After(e, m).state = "active" /\ After(e, m) # NoSession
            BY <2>1, <3>4, <5>4, <5>5, AfterFacts, SentinelAssumption
          <5> QED
            BY <3>1, <3>2, <3>4, <5>6 DEF Handles, IsActive
        <4> QED
          BY <4>4, <4>5 DEF End
      <3> QED
        BY <3>3, <3>4
    <2>5. ASSUME NEW f \in End, DropPeerState(f)
          PROVE  IsActive(e, s)' \/ ~alive'[e]
      BY <1>1, <2>1, <2>5 DEF DropPeerState, HType, IsActive
    <2>6. \/ session' = session \/ InsertSession
          \/ \E f \in End : HandleSession(f) \/ DropPeerState(f)
      BY <1>1 DEF Next, vars, OpenSession, SendOpening, ReceiveThread, HandleData, SendReply,
         Publish, LinkLost
    <2> QED
      BY <2>2, <2>3, <2>4, <2>5, <2>6
  <1>2. HInv /\ HInv' /\ [Next]_vars =>
          [\A e \in End, s \in Sid : IsActive(e, s) => IsActive(e, s)' \/ ~alive'[e]]_vars
    BY <1>1
  <1> QED
    BY <1>2, Reachable, PTL DEF Spec, ActiveStays
=============================================================================
