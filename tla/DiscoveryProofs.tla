--------------------------- MODULE DiscoveryProofs ---------------------------
(***************************************************************************)
(* Machine-checked proofs about Discovery, for any addresses, devices,     *)
(* attribute sizes, reply formats and numbers of calls and advertisements. *)
(***************************************************************************)
EXTENDS Discovery, FiniteSetTheorems, WellFoundedInduction, TLAPS

(***************************************************************************)
(* The inductive invariant.                                                *)
(***************************************************************************)
AdvertisementType ==
    /\ advertisement \in
          [version : 0..MaxVersion, common : Nat, agent_id : Nat, attributes : Nat,
           valid : BOOLEAN, bytes : [common : Nat, attributes : Nat],
           started_at_ms : Nat, sequence : Nat]
    /\ advertisement.common = advertisement.version
    /\ advertisement.agent_id = advertisement.version
    /\ advertisement.attributes = advertisement.version
    /\ advertisement.started_at_ms <= advertisement.version

GroupType ==
    /\ thread \in {"none", "refresh", "join", "loop", "receive", "answer", "send", "ended"}
    /\ resume \in {"loop", "receive"}
    /\ up \subseteq Address /\ todo \subseteq Address
    /\ report \in [Address -> {"none", "joined", "failed", "left"}]
    /\ DOMAIN memberships \subseteq Address
    /\ memberships \in [DOMAIN memberships -> BOOLEAN]

\* While there is an advertiser's thread, also in the middle of a refresh, the last event
\* about an address agrees with the table.
Reported ==
    thread # "none" =>
        \A a \in Address :
            /\ report[a] = "joined" <=> WasHealthy(a)
            /\ a \in DOMAIN memberships /\ ~memberships[a] => report[a] = "failed"

\* The nonces asked with, which no two calls of discover() share, and what was asked for.
Nonces == {d.nonce : d \in queries}
Asked(nonce, format) ==
    nonce \in Nonces /\ \A d \in queries : d.nonce = nonce => d.magic = format

QueriesMade ==
    /\ \E n \in Nat : Nonces = 1..n
    /\ \A d \in queries : d.kind = "query" /\ d.magic \in Format
    /\ \A d, e \in queries : d.nonce = e.nonce => d.magic = e.magic
    /\ client # NoCall =>
          /\ client.nonce \in Nonces /\ Asked(client.nonce, client.format)
          /\ client.asked \in Nat /\ client.asked <= advertisement.version
    /\ thread = "answer" => Asked(request.nonce, request.format)

\* The replies that are made: sent, or in the thread's hands.
Made == replies \cup ({reply} \ {NoDatagram})

ReplyType(r) ==
    /\ r.kind = "reply" /\ r.tag = Secret
    /\ r.started_at_ms \in Nat /\ r.sequence \in Nat /\ r.body.common \in Nat
    /\ Parsed(r.body, "agent_id", 0) = (IF r.magic >= 3 THEN r.body.common ELSE 0)
    /\ Parsed(r.body, "attributes", 0) = (IF r.magic >= 4 THEN r.body.common ELSE 0)

\* A reply answers one query in its format, and the call that waits for it has asked no
\* later than its contents were advertised.
Answers(r) ==
    /\ Asked(r.nonce, r.magic)
    /\ client # NoCall /\ r.nonce = client.nonce => r.body.common >= client.asked

\* r1 before r2, in their sequence, has no newer contents.
Ordered(r1, r2) ==
    r1.started_at_ms = r2.started_at_ms =>
        /\ r1.sequence < r2.sequence => r1.body.common <= r2.body.common
        /\ r1.sequence = r2.sequence => r1 = r2

\* The advertisement is the newest.
Covered(r) ==
    /\ r.started_at_ms <= advertisement.started_at_ms
    /\ r.started_at_ms = advertisement.started_at_ms =>
          r.sequence <= advertisement.sequence /\ r.body.common <= advertisement.version

RepliesMade ==
    /\ thread = "send" => reply # NoDatagram
    /\ \A r \in Made : ReplyType(r) /\ Answers(r) /\ Covered(r)
    /\ \A r1, r2 \in Made : Ordered(r1, r2)

FoundType == client = NoCall => found = Nothing

DInv ==
    /\ AdvertisementType /\ GroupType /\ Reported
    /\ QueriesMade /\ RepliesMade /\ FoundType /\ FoundFresh

(***************************************************************************)
(* Lemmas about the operators.                                             *)
(***************************************************************************)

\* Min of a set of natural numbers is one of them.
LEMMA MinMember ==
  ASSUME NEW S \in SUBSET Nat, S # {}
  PROVE  Min(S) \in S
  <1> DEFINE R == OpToRel(<, Nat)
  <1>1. IsWellFoundedOn(R, Nat)
    BY NatLessThanWellFounded, Zenon
  <1>2. \A x, y \in Nat : x < y => <<x, y>> \in R
    BY Zenon DEF OpToRel
  <1> HIDE DEF R
  <1>3. PICK d \in S : \A e \in S : ~(<<e, d>> \in R)
    BY <1>1, WFMin
  <1>4. \A e \in S : ~(e < d)
    BY <1>2, <1>3
  <1>5. \A e \in S : d <= e
    BY <1>4
  <1> QED
    BY <1>5 DEF Min

\* The number of calls so far is the last nonce: the next one is new.
LEMMA CallsCount ==
  ASSUME NEW n \in Nat, Nonces = 1..n
  PROVE  Calls = n
  <1>1. Cardinality(1..n) = n
    BY FS_Interval
  <1> QED
    BY <1>1 DEF Calls, Nonces

\* A reply says what is advertised and answers the query.
LEMMA EncodeFacts ==
  ASSUME NEW adv, adv.version \in Nat, adv.started_at_ms \in Nat, adv.sequence \in Nat,
         adv.common = adv.version, adv.agent_id = adv.version, adv.attributes = adv.version,
         NEW q, NEW r, r = encode_discovery_reply(q, adv, Secret), r # NoDatagram
  PROVE  /\ ReplyType(r) /\ r.nonce = q.nonce /\ r.magic = q.format
         /\ r.started_at_ms = adv.started_at_ms /\ r.sequence = adv.sequence
         /\ r.body.common = adv.version
  <1> DEFINE fields == FieldsOf(q.format)
             body   == [f \in fields |-> adv[f]]
  <1>1. r = [kind |-> "reply", magic |-> q.format, nonce |-> q.nonce,
             schema |-> q.format, tag |-> Secret, body |-> body,
             started_at_ms |-> adv.started_at_ms,
             sequence |-> adv.sequence]
    BY DEF encode_discovery_reply
  <1>2. "common" \in fields /\ ("agent_id" \in fields <=> q.format >= 3)
        /\ ("attributes" \in fields <=> q.format >= 4)
    BY DEF FieldsOf
  <1> HIDE DEF fields
  <1>3. /\ DOMAIN body = fields /\ body.common = adv.common
        /\ "agent_id" \in fields => body["agent_id"] = adv.agent_id
        /\ "attributes" \in fields => body["attributes"] = adv.attributes
    BY <1>2
  <1> HIDE DEF body
  <1>4. /\ Parsed(body, "agent_id", 0) = IF q.format >= 3 THEN adv.version ELSE 0
        /\ Parsed(body, "attributes", 0) = IF q.format >= 4 THEN adv.version ELSE 0
    BY <1>2, <1>3 DEF Parsed
  <1>5. body.common = adv.version
    BY <1>3
  <1> QED
    BY <1>1, <1>4, <1>5 DEF ReplyType

(***************************************************************************)
(* The advertisement and the membership table.                             *)
(***************************************************************************)

\* An advertisement is followed by a newer one of the same start, or by that of a later
\* start.
Newer ==
    /\ advertisement.version <= advertisement'.version
    /\ \/ /\ advertisement'.started_at_ms = advertisement.started_at_ms
          /\ advertisement.sequence <= advertisement'.sequence
       \/ advertisement.version < advertisement'.started_at_ms

\* The fields of a new advertisement.
LEMMA NewAdvertisementFacts ==
  ASSUME DiscoveryAssumption, NEW v \in 0..MaxVersion, NEW s \in Nat, s <= v
  PROVE  /\ NewAdvertisement(v, s) \in
              [version : 0..MaxVersion, common : Nat, agent_id : Nat, attributes : Nat,
               valid : BOOLEAN, bytes : [common : Nat, attributes : Nat],
               started_at_ms : Nat, sequence : Nat]
         /\ NewAdvertisement(v, s).version = v /\ NewAdvertisement(v, s).common = v
         /\ NewAdvertisement(v, s).agent_id = v /\ NewAdvertisement(v, s).attributes = v
         /\ NewAdvertisement(v, s).started_at_ms = s /\ NewAdvertisement(v, s).sequence = 0
  BY DEF NewAdvertisement, DiscoveryAssumption

\* The advertisement keeps its type and only ever becomes newer.
LEMMA AdvertisementStep ==
  ASSUME DiscoveryAssumption, DInv, [Next]_vars
  PROVE  AdvertisementType' /\ Newer
  <1>1. AdvertisementType
    BY DEF DInv
  <1>2. /\ advertisement.version \in Nat /\ advertisement.started_at_ms \in Nat
        /\ advertisement.sequence \in Nat /\ MaxVersion \in Nat
    BY <1>1 DEF AdvertisementType, DiscoveryAssumption
  <1>3. CASE UNCHANGED advertisement
    BY <1>1, <1>2, <1>3 DEF AdvertisementType, Newer
  <1>4. CASE start
    <2> DEFINE v == advertisement.version + 1
               n == NewAdvertisement(v, v)
    <2>1. advertisement' = n /\ v \in 0..MaxVersion /\ v \in Nat /\ v <= v
      BY <1>2, <1>4 DEF start
    <2> HIDE DEF v
    <2>2. /\ n \in [version : 0..MaxVersion, common : Nat, agent_id : Nat, attributes : Nat,
                    valid : BOOLEAN, bytes : [common : Nat, attributes : Nat],
                    started_at_ms : Nat, sequence : Nat]
          /\ n.version = v /\ n.common = v /\ n.agent_id = v /\ n.attributes = v
          /\ n.started_at_ms = v
      BY <2>1, NewAdvertisementFacts
    <2> HIDE DEF n
    <2>3. AdvertisementType'
      BY <2>1, <2>2 DEF AdvertisementType
    <2>4. advertisement'.version = v /\ advertisement'.started_at_ms = v
      BY <2>1, <2>2
    <2> QED
      BY <1>2, <2>3, <2>4 DEF Newer, v
  <1>5. CASE set_advertisement
    <2> DEFINE v == advertisement.version + 1
               s == advertisement.started_at_ms
               n == NewAdvertisement(v, s)
    <2>1. advertisement' = [n EXCEPT !.sequence = advertisement.sequence] /\ v \in 0..MaxVersion
      BY <1>2, <1>5 DEF set_advertisement
    <2>2. s \in Nat /\ s <= v
      BY <1>1, <1>2 DEF AdvertisementType
    <2> HIDE DEF v, s
    <2>3. /\ n \in [version : 0..MaxVersion, common : Nat, agent_id : Nat, attributes : Nat,
                    valid : BOOLEAN, bytes : [common : Nat, attributes : Nat],
                    started_at_ms : Nat, sequence : Nat]
          /\ n.version = v /\ n.common = v /\ n.agent_id = v /\ n.attributes = v
          /\ n.started_at_ms = s
      BY <2>1, <2>2, NewAdvertisementFacts
    <2> HIDE DEF n
    <2>4. /\ advertisement'.version = v /\ advertisement'.started_at_ms = s
          /\ advertisement'.sequence = advertisement.sequence
      BY <2>1, <2>3
    <2>5. AdvertisementType'
      BY <1>2, <2>1, <2>2, <2>3 DEF AdvertisementType
    <2> QED
      BY <1>2, <2>4, <2>5 DEF Newer, v, s
  <1>6. CASE Answer
    <2>1. advertisement' = [advertisement EXCEPT !.sequence = advertisement.sequence + 1]
      BY <1>6 DEF Answer
    <2>2. AdvertisementType'
      BY <1>1, <1>2, <2>1 DEF AdvertisementType
    <2>3. /\ advertisement'.version = advertisement.version
          /\ advertisement'.started_at_ms = advertisement.started_at_ms
          /\ advertisement'.sequence = advertisement.sequence + 1
      BY <1>1, <2>1 DEF AdvertisementType
    <2> QED
      BY <1>2, <2>2, <2>3 DEF Newer
  <1>7. ASSUME \/ Stop \/ Refresh \/ RefreshDue \/ LeaveLoop \/ NotDue \/ ReceiveNothing
               \/ ReceiveQuery \/ SendReply \/ discover \/ ReceiveReply \/ Deadline
               \/ (\E a \in Address : InterfaceUp(a) \/ InterfaceDown(a)) \/ UNCHANGED vars
        PROVE  UNCHANGED advertisement
    BY <1>7 DEF Stop, StopBegin, StopClose, StopJoin, Refresh, RefreshBegin, JoinOne, RefreshDue,
         LeaveLoop, NotDue, ReceiveNothing, ReceiveQuery, SendReply, discover, ReceiveReply,
         Deadline, InterfaceUp, InterfaceDown, vars
  <1> QED
    BY <1>3, <1>4, <1>5, <1>6, <1>7 DEF Next, Serve

\* What a step does to the thread, apart from a refresh.
LEMMA GroupStep ==
  ASSUME DiscoveryAssumption, DInv, [Next]_vars
  PROVE  GroupType' /\ Reported'
  <1>1. GroupType /\ Reported
    BY DEF DInv
  <1>2. ASSUME UNCHANGED <<memberships, report, todo, up>>, thread' # "none" => thread # "none",
               thread' \in {"none", "refresh", "join", "loop", "receive", "answer", "send", "ended"},
               resume' \in {"loop", "receive"}
        PROVE  GroupType' /\ Reported'
    BY <1>1, <1>2 DEF GroupType, Reported, WasHealthy
  <1>3. CASE start
    <2>1. CASE UNCHANGED <<thread, resume, memberships, report>>
      BY <1>1, <1>2, <1>3, <2>1 DEF start, hostVars, GroupType
    <2>2. CASE /\ memberships' = <<>> /\ report' = [a \in Address |-> "none"]
               /\ thread' = "refresh" /\ resume' = "loop"
      <3>1. UNCHANGED <<todo, up>>
        BY <1>3 DEF start, hostVars
      <3>2. DOMAIN memberships' = {} /\ memberships' \in [{} -> BOOLEAN]
        BY <2>2
      <3>3. GroupType'
        BY <1>1, <2>2, <3>1, <3>2 DEF GroupType
      <3>4. Reported'
        BY <2>2, <3>2 DEF Reported, WasHealthy
      <3> QED
        BY <3>3, <3>4
    <2> QED
      BY <1>3, <2>1, <2>2 DEF start
  <1>4. CASE StopJoin
    <2>1. /\ memberships' = <<>> /\ thread' = "none"
          /\ UNCHANGED <<resume, todo, report, up>>
      BY <1>4 DEF StopJoin, hostVars
    <2>2. DOMAIN memberships' = {} /\ memberships' \in [{} -> BOOLEAN]
      BY <2>1
    <2> QED
      BY <1>1, <2>1, <2>2 DEF GroupType, Reported
  <1>5. CASE RefreshBegin
    <2> DEFINE gone == DOMAIN memberships \ up
               left == {a \in gone : memberships[a]}
               keep == DOMAIN memberships \ gone
    <2>1. /\ thread = "refresh"
          /\ memberships' = [a \in keep |-> memberships[a]]
          /\ report' = [a \in Address |-> IF a \in left THEN "left" ELSE report[a]]
          /\ todo' = up /\ UNCHANGED up
          /\ thread' \in {resume, "join"} /\ resume' \in {"loop", resume}
      BY <1>5 DEF RefreshBegin, JoinLoop
    <2>2. DOMAIN memberships' = keep /\ memberships' \in [keep -> BOOLEAN] /\ keep \subseteq Address
      BY <1>1, <2>1 DEF GroupType
    <2>3. GroupType'
      BY <1>1, <2>1, <2>2 DEF GroupType
    <2>4. ASSUME NEW a \in Address
          PROVE  /\ report'[a] = "joined" <=> (a \in DOMAIN memberships' /\ memberships'[a])
                 /\ a \in DOMAIN memberships' /\ ~memberships'[a] => report'[a] = "failed"
      <3>1. /\ report[a] = "joined" <=> (a \in DOMAIN memberships /\ memberships[a])
            /\ a \in DOMAIN memberships /\ ~memberships[a] => report[a] = "failed"
        BY <1>1, <2>1 DEF Reported, WasHealthy
      <3> QED
        BY <2>1, <2>2, <3>1
    <2> QED
      BY <2>3, <2>4 DEF Reported, WasHealthy
  <1>6. CASE JoinOne
    <2> DEFINE a == Min(todo)
    <2>1. a \in Address
      BY <1>1, <1>6, MinMember DEF JoinOne, GroupType, DiscoveryAssumption
    <2>2. PICK answer \in JoinAnswers(a) :
            IF answer = "in_use" /\ WasHealthy(a) THEN UNCHANGED <<memberships, report>>
            ELSE /\ memberships' = [b \in DOMAIN memberships \cup {a} |->
                                       IF b = a THEN answer = "ok" ELSE memberships[b]]
                 /\ report' = JoinReport(a, answer # "ok")
      BY <1>6 DEF JoinOne
    <2>3. /\ thread = "join" /\ todo' = todo \ {a} /\ UNCHANGED up
          /\ thread' \in {resume, "join"} /\ resume' \in {"loop", resume}
      BY <1>6 DEF JoinOne, JoinLoop
    <2> HIDE DEF a
    <2>4. CASE UNCHANGED <<memberships, report>>
      BY <1>1, <2>3, <2>4 DEF GroupType, Reported, WasHealthy
    <2>5. CASE /\ memberships' = [b \in DOMAIN memberships \cup {a} |->
                                     IF b = a THEN answer = "ok" ELSE memberships[b]]
               /\ report' = JoinReport(a, answer # "ok")
      <3> DEFINE ok == answer = "ok"
      <3>1. /\ DOMAIN memberships' = DOMAIN memberships \cup {a}
            /\ memberships' \in [DOMAIN memberships \cup {a} -> BOOLEAN]
            /\ memberships'[a] = ok
            /\ \A b \in DOMAIN memberships \ {a} : memberships'[b] = memberships[b]
        BY <1>1, <2>5 DEF GroupType
      <3>2. /\ report' \in [Address -> {"none", "joined", "failed", "left"}]
            /\ \A b \in Address \ {a} : report'[b] = report[b]
            /\ report'[a] = IF ok /\ ~WasHealthy(a) THEN "joined"
                            ELSE IF ~ok /\ (a \notin DOMAIN memberships \/ WasHealthy(a)) THEN "failed"
                            ELSE report[a]
        BY <1>1, <2>1, <2>5 DEF GroupType, JoinReport
      <3> HIDE DEF ok
      <3>3. GroupType'
        BY <1>1, <2>1, <2>3, <3>1, <3>2 DEF GroupType
      <3>4. ASSUME NEW b \in Address
            PROVE  /\ report[b] = "joined" <=> (b \in DOMAIN memberships /\ memberships[b])
                   /\ b \in DOMAIN memberships /\ ~memberships[b] => report[b] = "failed"
        BY <1>1, <2>3 DEF Reported, WasHealthy
      <3>5. ASSUME NEW b \in Address
            PROVE  /\ report'[b] = "joined" <=> (b \in DOMAIN memberships' /\ memberships'[b])
                   /\ b \in DOMAIN memberships' /\ ~memberships'[b] => report'[b] = "failed"
        <4>1. CASE b = a
          BY <2>1, <3>1, <3>2, <3>4, <4>1 DEF WasHealthy
        <4>2. CASE b # a
          BY <3>1, <3>2, <3>4, <4>2
        <4> QED
          BY <4>1, <4>2
      <3>6. Reported'
        BY <3>5 DEF Reported, WasHealthy
      <3> QED
        BY <3>3, <3>6
    <2> QED
      BY <2>2, <2>4, <2>5
  <1>7. CASE \E a \in Address : InterfaceUp(a) \/ InterfaceDown(a)
    <2>1. UNCHANGED <<thread, resume, todo, report, memberships>> /\ up' \subseteq Address
      BY <1>1, <1>7 DEF InterfaceUp, InterfaceDown, groupVars, GroupType
    <2> QED
      BY <1>1, <2>1 DEF GroupType, Reported, WasHealthy
  <1>8. CASE StopBegin \/ StopClose \/ set_advertisement \/ discover \/ ReceiveReply \/ Deadline
             \/ UNCHANGED vars
    <2>1. UNCHANGED <<thread, resume, memberships, report, todo, up>>
      BY <1>8 DEF StopBegin, StopClose, set_advertisement, discover, ReceiveReply, Deadline, vars,
           groupVars, hostVars
    <2> QED
      BY <1>1, <1>2, <2>1 DEF GroupType
  <1>9. CASE RefreshDue \/ Serve
    <2>1. /\ UNCHANGED <<memberships, report, todo, up>> /\ thread # "none"
          /\ thread' \in {"refresh", "loop", "receive", "answer", "send", "ended"}
          /\ resume' \in {"receive", resume}
      BY <1>9 DEF RefreshDue, Serve, LeaveLoop, NotDue, ReceiveNothing, ReceiveQuery, Answer,
           SendReply, groupVars, hostVars
    <2> QED
      BY <1>1, <1>2, <2>1 DEF GroupType
  <1> QED
    BY <1>3, <1>4, <1>5, <1>6, <1>7, <1>8, <1>9 DEF Next, Stop, Refresh

(***************************************************************************)
(* Queries and replies.                                                    *)
(***************************************************************************)

\* Queries, calls and requests stay as they are while the advertisement gets newer; a call
\* may end.
LEMMA QueriesKept ==
  ASSUME DInv, AdvertisementType', Newer, UNCHANGED queries,
         client' = client \/ client' = NoCall,
         thread' = "answer" => thread = "answer" /\ UNCHANGED request
  PROVE  QueriesMade'
  <1>1. QueriesMade /\ AdvertisementType
    BY DEF DInv
  <1>2. advertisement.version \in Nat /\ advertisement'.version \in Nat
        /\ advertisement.version <= advertisement'.version
    BY <1>1 DEF AdvertisementType, Newer
  <1>3. Nonces' = Nonces /\ \A n, f : Asked(n, f)' <=> Asked(n, f)
    BY DEF Nonces, Asked
  <1>4. ASSUME client' # NoCall
        PROVE  /\ client' = client /\ client.nonce \in Nonces /\ Asked(client.nonce, client.format)
               /\ client.asked \in Nat /\ client.asked <= advertisement'.version
    BY <1>1, <1>2, <1>4 DEF QueriesMade
  <1>5. ASSUME thread' = "answer"
        PROVE  request' = request /\ Asked(request.nonce, request.format)
    BY <1>1, <1>5 DEF QueriesMade
  <1> QED
    BY <1>1, <1>3, <1>4, <1>5 DEF QueriesMade, Asked, Nonces

\* What is made of the replies keeps their order while the advertisement gets newer.
LEMMA RepliesKept ==
  ASSUME DInv, AdvertisementType', Newer, UNCHANGED queries,
         client' = client \/ client' = NoCall,
         Made' \subseteq Made, thread' = "send" => reply' # NoDatagram
  PROVE  RepliesMade'
  <1>1. RepliesMade /\ AdvertisementType
    BY DEF DInv
  <1>2. /\ advertisement.version \in Nat /\ advertisement'.version \in Nat
        /\ advertisement.started_at_ms \in Nat /\ advertisement'.started_at_ms \in Nat
        /\ advertisement.sequence \in Nat /\ advertisement'.sequence \in Nat
        /\ advertisement.started_at_ms <= advertisement.version
    BY <1>1 DEF AdvertisementType
  <1>3. \A n, f : Asked(n, f)' <=> Asked(n, f)
    BY DEF Nonces, Asked
  <1>4. ASSUME NEW r \in Made
        PROVE  (ReplyType(r) /\ Answers(r) /\ Covered(r))'
    <2>1. ReplyType(r) /\ Answers(r) /\ Covered(r)
      BY <1>1 DEF RepliesMade
    <2>2. Answers(r)'
      BY <1>3, <2>1 DEF Answers
    <2>3. r.started_at_ms \in Nat /\ r.sequence \in Nat /\ r.body.common \in Nat
      BY <2>1 DEF ReplyType
    <2>4. Covered(r)'
      BY <1>2, <2>1, <2>3 DEF Covered, Newer
    <2> QED
      BY <2>1, <2>2, <2>4 DEF ReplyType
  <1>5. \A r1, r2 \in Made : Ordered(r1, r2)'
    BY <1>1 DEF RepliesMade, Ordered
  <1> QED
    BY <1>4, <1>5 DEF RepliesMade

\* A query is received: it is one that was sent.
LEMMA ReceiveQueryStep ==
  ASSUME DInv, ReceiveQuery
  PROVE  QueriesMade' /\ RepliesMade'
  <1>1. QueriesMade /\ RepliesMade
    BY DEF DInv
  <1>2. PICK datagram \in queries :
          LET query == decode_discovery_query(datagram, Secret) IN
          IF query = Nothing THEN thread' = "loop" /\ UNCHANGED request
          ELSE thread' = "answer" /\ request' = query
    BY DEF ReceiveQuery
  <1>3. UNCHANGED <<advertisement, reply, replies, queries, client>>
    BY DEF ReceiveQuery, netVars, clientVars
  <1>4. thread' # "send"
    BY <1>2
  <1>5. RepliesMade'
    BY <1>1, <1>3, <1>4
       DEF RepliesMade, Made, ReplyType, Answers, Covered, Ordered, Asked, Nonces
  <1>6. ASSUME thread' = "answer"
        PROVE  request'.nonce = datagram.nonce /\ request'.format = datagram.magic
    BY <1>2, <1>6 DEF decode_discovery_query, Nothing
  <1>7. Asked(datagram.nonce, datagram.magic)
    BY <1>1 DEF QueriesMade, Asked, Nonces
  <1>8. QueriesMade'
    BY <1>1, <1>3, <1>6, <1>7 DEF QueriesMade, Asked, Nonces
  <1> QED
    BY <1>5, <1>8

\* A call of discover() asks with a nonce that no query and no reply has.
LEMMA DiscoverStep ==
  ASSUME DiscoveryAssumption, DInv, discover
  PROVE  QueriesMade' /\ RepliesMade'
  <1>1. QueriesMade /\ RepliesMade /\ AdvertisementType
    BY DEF DInv
  <1>2. PICK n \in Nat : Nonces = 1..n
    BY <1>1 DEF QueriesMade
  <1>3. Calls = n
    BY <1>2, CallsCount
  <1>4. PICK format \in ClientFormats, secret \in {Secret, WrongSecret} :
          /\ client' = [nonce |-> n + 1, format |-> format, secret |-> secret,
                        asked |-> advertisement.version]
          /\ queries' = queries \cup
               {encode_discovery_query([nonce |-> n + 1, window |-> 1, format |-> format], secret)}
    BY <1>3 DEF discover
  <1>5. format \in Format /\ n + 1 # 0
    BY DEF DiscoveryAssumption
  <1> DEFINE q == [kind |-> "query", magic |-> format, nonce |-> n + 1, window |-> 1, tag |-> secret]
  <1>6. queries' = queries \cup {q}
    BY <1>4, <1>5 DEF encode_discovery_query
  <1>7. q.nonce = n + 1 /\ q.magic = format /\ q.kind = "query"
    OBVIOUS
  <1> HIDE DEF q
  <1>8. /\ client'.nonce = n + 1 /\ client'.format = format
        /\ client'.asked = advertisement.version /\ advertisement.version \in Nat
    BY <1>1, <1>4 DEF AdvertisementType
  <1>9. /\ UNCHANGED <<thread, request, advertisement, reply, replies>>
    BY DEF discover
  <1>10. \A d \in queries : d.nonce \in 1..n
    BY <1>2 DEF Nonces
  <1>11. Nonces' = 1..(n + 1)
    <2>1. Nonces' = Nonces \cup {n + 1}
      BY <1>6, <1>7 DEF Nonces
    <2> QED
      BY <1>2, <2>1
  <1>12. Asked(n + 1, format)'
    <2>1. \A d \in queries' : d.nonce = n + 1 => d.magic = format
      BY <1>6, <1>7, <1>10
    <2>2. n + 1 \in Nonces'
      BY <1>11
    <2> QED
      BY <2>1, <2>2 DEF Asked
  <1>13. ASSUME NEW m, NEW f, Asked(m, f)
         PROVE  Asked(m, f)' /\ m \in 1..n
    <2>1. m \in 1..n
      BY <1>2, <1>13 DEF Asked
    <2>2. m \in Nonces' /\ m # n + 1
      BY <1>11, <2>1
    <2> QED
      BY <1>6, <1>7, <1>13, <2>1, <2>2 DEF Asked
  <1>14. \A d, e \in queries' : d.nonce = e.nonce => d.magic = e.magic
    BY <1>1, <1>6, <1>7, <1>10 DEF QueriesMade
  <1>15. \A d \in queries' : d.kind = "query" /\ d.magic \in Format
    BY <1>1, <1>5, <1>6, <1>7 DEF QueriesMade
  <1>16. thread' = "answer" => Asked(request.nonce, request.format)'
    <2>1. PICK m, f : m = request.nonce /\ f = request.format
      OBVIOUS
    <2>2. request'.nonce = m /\ request'.format = f
      BY <1>9, <2>1
    <2>3. thread' = "answer" => Asked(m, f)
      BY <1>1, <1>9, <2>1 DEF QueriesMade
    <2>4. thread' = "answer" => Asked(m, f)'
      BY <1>13, <2>3
    <2> QED
      BY <2>2, <2>4 DEF Asked
  <1>17. /\ client'.nonce \in Nonces' /\ Asked(client.nonce, client.format)'
         /\ client'.asked \in Nat /\ client'.asked <= advertisement'.version
    BY <1>8, <1>9, <1>11, <1>12 DEF Asked, Nonces
  <1>18. QueriesMade'
    BY <1>11, <1>14, <1>15, <1>16, <1>17 DEF QueriesMade
  <1>19. ASSUME NEW r \in Made
         PROVE  (ReplyType(r) /\ Answers(r) /\ Covered(r))'
    <2>1. ReplyType(r) /\ Answers(r) /\ Covered(r)
      BY <1>1 DEF RepliesMade
    <2>2. Asked(r.nonce, r.magic)' /\ r.nonce \in 1..n
      BY <1>13, <2>1 DEF Answers
    <2>3. r.nonce # client'.nonce
      BY <1>8, <2>2
    <2> QED
      BY <1>9, <2>1, <2>2, <2>3 DEF ReplyType, Answers, Covered
  <1>20. RepliesMade'
    <2>1. Made' = Made
      BY <1>9 DEF Made
    <2>2. \A r1, r2 \in Made : Ordered(r1, r2)'
      BY <1>1 DEF RepliesMade, Ordered
    <2> QED
      BY <1>1, <1>9, <1>19, <2>1, <2>2 DEF RepliesMade
  <1> QED
    BY <1>18, <1>20

\* The reply to a request is the last of its start.
LEMMA AnswerStep ==
  ASSUME DInv, AdvertisementType', Newer, Answer
  PROVE  QueriesMade' /\ RepliesMade'
  <1>1. QueriesMade /\ RepliesMade /\ AdvertisementType
    BY DEF DInv
  <1>2. /\ thread = "answer" /\ UNCHANGED <<queries, replies, client>>
        /\ advertisement' = [advertisement EXCEPT !.sequence = advertisement.sequence + 1]
        /\ reply' = encode_discovery_reply(request, advertisement', Secret)
        /\ thread' = IF reply' = NoDatagram THEN "loop" ELSE "send"
    BY DEF Answer, netVars, clientVars
  <1>3. QueriesMade'
    BY <1>2, QueriesKept
  <1>4. Asked(request.nonce, request.format)
    BY <1>1, <1>2 DEF QueriesMade
  <1>5. /\ advertisement'.version = advertisement.version
        /\ advertisement'.started_at_ms = advertisement.started_at_ms
        /\ advertisement'.sequence = advertisement.sequence + 1
        /\ advertisement.version \in Nat /\ advertisement.sequence \in Nat
        /\ advertisement.started_at_ms \in Nat
    BY <1>1, <1>2 DEF AdvertisementType
  <1>6. \A n, f : Asked(n, f)' <=> Asked(n, f)
    BY <1>2 DEF Nonces, Asked
  <1>7. ASSUME NEW r \in replies
        PROVE  /\ (ReplyType(r) /\ Answers(r) /\ Covered(r))'
               /\ r.started_at_ms = advertisement.started_at_ms =>
                     /\ r.sequence < advertisement'.sequence
                     /\ r.body.common <= advertisement.version
               /\ r.sequence \in Nat
    <2>1. ReplyType(r) /\ Answers(r) /\ Covered(r)
      BY <1>1 DEF RepliesMade, Made
    <2>2. Answers(r)'
      BY <1>2, <1>6, <2>1 DEF Answers
    <2>3. r.started_at_ms \in Nat /\ r.sequence \in Nat /\ r.body.common \in Nat
      BY <2>1 DEF ReplyType
    <2>4. Covered(r)'
      BY <1>5, <2>1, <2>3 DEF Covered
    <2> QED
      BY <1>5, <2>1, <2>2, <2>3, <2>4 DEF ReplyType, Covered
  <1>8. \A r1, r2 \in replies : Ordered(r1, r2)'
    BY <1>1 DEF RepliesMade, Ordered, Made
  <1>9. CASE reply' = NoDatagram
    <2>1. Made' = replies /\ thread' # "send"
      BY <1>2, <1>9 DEF Made
    <2>2. \A r \in Made' : (ReplyType(r) /\ Answers(r) /\ Covered(r))'
      BY <1>7, <2>1
    <2>3. \A r1, r2 \in Made' : Ordered(r1, r2)'
      BY <1>8, <2>1
    <2>4. RepliesMade'
      BY <2>1, <2>2, <2>3 DEF RepliesMade
    <2> QED
      BY <1>3, <2>4
  <1>10. CASE reply' # NoDatagram
    <2>1. PICK r : r = reply'
      OBVIOUS
    <2>2. /\ ReplyType(r) /\ r.nonce = request.nonce /\ r.magic = request.format
          /\ r.started_at_ms = advertisement'.started_at_ms
          /\ r.sequence = advertisement'.sequence
          /\ r.body.common = advertisement'.version
      <3>1. PICK adv : adv = advertisement'
        OBVIOUS
      <3>2. /\ adv.version \in Nat /\ adv.started_at_ms \in Nat /\ adv.sequence \in Nat
            /\ adv.common = adv.version /\ adv.agent_id = adv.version
            /\ adv.attributes = adv.version
        BY <3>1 DEF AdvertisementType
      <3>3. r = encode_discovery_reply(request, adv, Secret) /\ r # NoDatagram
        BY <1>2, <1>10, <2>1, <3>1
      <3>4. PICK q : q = request
        OBVIOUS
      <3> QED
        BY <3>1, <3>2, <3>3, <3>4, EncodeFacts
    <2>3. client # NoCall => client.asked \in Nat /\ client.asked <= advertisement.version
      BY <1>1 DEF QueriesMade
    <2>4. Answers(r)'
      BY <1>2, <1>4, <1>5, <1>6, <2>2, <2>3 DEF Answers
    <2>5. Covered(r)' /\ ReplyType(r)'
      BY <1>5, <2>2 DEF Covered, ReplyType
    <2>6. \A r1 \in replies : Ordered(r1, r)' /\ Ordered(r, r1)'
      BY <1>5, <1>7, <2>2 DEF Ordered
    <2>7. Ordered(r, r)'
      BY <1>5, <2>2 DEF Ordered
    <2>8. Made' = replies \cup {r}
      BY <1>2, <1>10, <2>1 DEF Made
    <2>9. \A s \in Made' : (ReplyType(s) /\ Answers(s) /\ Covered(s))'
      BY <1>7, <2>4, <2>5, <2>8
    <2>10. \A r1, r2 \in Made' : Ordered(r1, r2)'
      BY <1>8, <2>6, <2>7, <2>8
    <2>11. RepliesMade'
      BY <1>10, <2>9, <2>10 DEF RepliesMade
    <2> QED
      BY <1>3, <2>11
  <1> QED
    BY <1>9, <1>10

\* A reply goes out, or is lost with the socket.
LEMMA SendReplyStep ==
  ASSUME DInv, AdvertisementType', Newer, SendReply
  PROVE  QueriesMade' /\ RepliesMade'
  <1>1. RepliesMade
    BY DEF DInv
  <1>2. /\ thread = "send" /\ thread' = "loop" /\ UNCHANGED <<queries, client>>
        /\ replies' \subseteq replies \cup {reply} /\ reply' = NoDatagram
    BY DEF SendReply, clientVars
  <1>3. QueriesMade'
    BY <1>2, QueriesKept
  <1>4. reply # NoDatagram
    BY <1>1, <1>2 DEF RepliesMade
  <1>5. Made' \subseteq Made
    BY <1>2, <1>4 DEF Made
  <1>6. RepliesMade'
    BY <1>2, <1>5, RepliesKept
  <1> QED
    BY <1>3, <1>6

\* What is asked, answered and made after any step.
LEMMA DatagramStep ==
  ASSUME DiscoveryAssumption, DInv, AdvertisementType', Newer, [Next]_vars
  PROVE  QueriesMade' /\ RepliesMade'
  <1>1. RepliesMade /\ GroupType
    BY DEF DInv
  <1>2. ASSUME UNCHANGED <<queries, replies, reply, request>>, client' = client \/ client' = NoCall,
               thread' = thread \/ thread' \notin {"answer", "send"}
        PROVE  QueriesMade' /\ RepliesMade'
    <2>1. QueriesMade'
      BY <1>2, QueriesKept
    <2>2. Made' = Made /\ (thread' = "send" => reply' # NoDatagram)
      BY <1>1, <1>2 DEF Made, RepliesMade
    <2>3. RepliesMade'
      BY <1>2, <2>2, RepliesKept
    <2> QED
      BY <2>1, <2>3
  <1>3. ASSUME \/ start \/ set_advertisement \/ Stop \/ RefreshDue \/ ReceiveReply \/ Deadline
               \/ LeaveLoop \/ NotDue \/ ReceiveNothing
               \/ (\E a \in Address : InterfaceUp(a) \/ InterfaceDown(a)) \/ UNCHANGED vars
        PROVE  /\ UNCHANGED <<queries, replies, reply, request>>
               /\ client' = client \/ client' = NoCall
               /\ thread' = thread \/ thread' \notin {"answer", "send"}
    BY <1>3 DEF start, set_advertisement, Stop, StopBegin, StopClose, StopJoin, RefreshDue,
         ReceiveReply, Deadline, LeaveLoop, NotDue, ReceiveNothing, InterfaceUp, InterfaceDown,
         vars, netVars, clientVars
  <1>4. ASSUME Refresh
        PROVE  /\ UNCHANGED <<queries, replies, reply, request, client>>
               /\ thread' \notin {"answer", "send"}
    <2>1. thread' \in {resume, "join"} /\ resume \in {"loop", "receive"}
      BY <1>1, <1>4 DEF Refresh, RefreshBegin, JoinOne, JoinLoop, GroupType
    <2>2. UNCHANGED <<queries, replies, reply, request, client>>
      BY <1>4 DEF Refresh, RefreshBegin, JoinOne, netVars, clientVars
    <2> QED
      BY <2>1, <2>2
  <1>5. CASE \/ start \/ set_advertisement \/ Stop \/ RefreshDue \/ ReceiveReply \/ Deadline
             \/ LeaveLoop \/ NotDue \/ ReceiveNothing \/ Refresh
             \/ (\E a \in Address : InterfaceUp(a) \/ InterfaceDown(a)) \/ UNCHANGED vars
    BY <1>2, <1>3, <1>4, <1>5
  <1>6. CASE ReceiveQuery
    BY <1>6, ReceiveQueryStep
  <1>7. CASE Answer
    BY <1>7, AnswerStep
  <1>8. CASE SendReply
    BY <1>8, SendReplyStep
  <1>9. CASE discover
    BY <1>9, DiscoverStep
  <1> QED
    BY <1>5, <1>6, <1>7, <1>8, <1>9 DEF Next, Serve

(***************************************************************************)
(* What the client has found.                                              *)
(***************************************************************************)
LEMMA FoundStep ==
  ASSUME DInv, [Next]_vars
  PROVE  FoundType' /\ FoundFresh'
  <1>1. RepliesMade /\ QueriesMade /\ FoundType /\ FoundFresh
    BY DEF DInv
  <1>2. CASE UNCHANGED <<client, found>>
    BY <1>1, <1>2 DEF FoundType, FoundFresh
  <1>3. CASE discover \/ Deadline
    <2>1. found' = Nothing
      BY <1>3 DEF discover, Deadline
    <2> QED
      BY <2>1 DEF FoundType, FoundFresh
  <1>4. CASE ReceiveReply
    <2>1. PICK r \in replies :
            LET parsed == decode_discovery_reply(r, client.secret, client.nonce) IN
            parsed # Nothing /\ found' = parsed
      BY <1>4 DEF ReceiveReply
    <2>2. client # NoCall /\ UNCHANGED client
      BY <1>4 DEF ReceiveReply
    <2>3. found' = Advertised(r) /\ r.tag = client.secret /\ r.nonce = client.nonce
      BY <2>1 DEF decode_discovery_reply
    <2>4. ReplyType(r) /\ Answers(r)
      BY <1>1 DEF RepliesMade, Made
    <2>5. client.secret = Secret /\ r.body.common >= client.asked /\ Asked(client.nonce, r.magic)
      BY <2>2, <2>3, <2>4 DEF ReplyType, Answers
    <2>6. r.magic = client.format
      <3>1. Asked(client.nonce, client.format)
        BY <1>1, <2>2 DEF QueriesMade
      <3>2. PICK d \in queries : d.nonce = client.nonce
        BY <2>5 DEF Asked, Nonces
      <3> QED
        BY <2>5, <3>1, <3>2 DEF Asked
    <2>7. /\ found'.common = r.body.common
          /\ found'.agent_id = Parsed(r.body, "agent_id", 0)
          /\ found'.attributes = Parsed(r.body, "attributes", 0)
      BY <2>3 DEF Advertised
    <2>8. FoundFresh'
      BY <2>2, <2>4, <2>5, <2>6, <2>7 DEF FoundFresh, ReplyType
    <2> QED
      BY <2>2, <2>8 DEF FoundType
  <1>5. ASSUME \/ start \/ set_advertisement \/ Stop \/ Refresh \/ RefreshDue \/ Serve
               \/ (\E a \in Address : InterfaceUp(a) \/ InterfaceDown(a)) \/ UNCHANGED vars
        PROVE  UNCHANGED <<client, found>>
    BY <1>5 DEF start, set_advertisement, Stop, StopBegin, StopClose, StopJoin, Refresh,
         RefreshBegin, JoinOne, RefreshDue, Serve, LeaveLoop, NotDue, ReceiveNothing, ReceiveQuery,
         Answer, SendReply, InterfaceUp, InterfaceDown, vars, clientVars
  <1> QED
    BY <1>2, <1>3, <1>4, <1>5 DEF Next

(***************************************************************************)
(* The theorems.                                                           *)
(***************************************************************************)
LEMMA InitStep ==
  ASSUME DiscoveryAssumption, Init
  PROVE  DInv
  <1>1. AdvertisementType
    <2>1. advertisement = NewAdvertisement(0, 0) /\ 0 \in 0..MaxVersion /\ 0 \in Nat /\ 0 <= 0
      BY DEF Init, DiscoveryAssumption
    <2> QED
      BY <2>1, NewAdvertisementFacts DEF AdvertisementType
  <1>2. DOMAIN memberships = {} /\ memberships \in [{} -> BOOLEAN]
    BY DEF Init
  <1>3. GroupType /\ Reported
    BY <1>2 DEF Init, GroupType, Reported
  <1>4. QueriesMade
    <2>1. Nonces = 1..0
      BY DEF Init, Nonces
    <2> QED
      BY <2>1 DEF Init, QueriesMade
  <1>5. RepliesMade
    BY DEF Init, RepliesMade, Made
  <1>6. FoundType /\ FoundFresh
    BY DEF Init, FoundType, FoundFresh
  <1> QED
    BY <1>1, <1>3, <1>4, <1>5, <1>6 DEF DInv

\* DInv holds in every reachable state, whatever is lost, duplicated, late or reordered.
THEOREM Reachable ==
  ASSUME DiscoveryAssumption
  PROVE  Spec => []DInv
  <1>1. Init => DInv
    BY InitStep
  <1>2. DInv /\ [Next]_vars => DInv'
    BY AdvertisementStep, GroupStep, DatagramStep, FoundStep DEF DInv
  <1> QED
    BY <1>1, <1>2, PTL DEF Spec

\* Outside a refresh the last event about an address agrees with multicast_memberships.
THEOREM MembershipReportedThm ==
  ASSUME DiscoveryAssumption
  PROVE  Spec => []MembershipReported
  <1>1. DInv => MembershipReported
    BY DEF DInv, Reported, MembershipReported
  <1> QED
    BY <1>1, Reachable, PTL

\* Replies of one start are ordered by their sequence.
THEOREM LaterReplyNewerThm ==
  ASSUME DiscoveryAssumption
  PROVE  Spec => []LaterReplyNewer
  <1>1. DInv => LaterReplyNewer
    BY DEF DInv, RepliesMade, Made, Ordered, LaterReplyNewer
  <1> QED
    BY <1>1, Reachable, PTL

\* discover() keeps nothing that was advertised before it asked, nothing made with another
\* secret, and no field that its format does not have.
THEOREM FoundFreshThm ==
  ASSUME DiscoveryAssumption
  PROVE  Spec => []FoundFresh
  <1>1. DInv => FoundFresh
    BY DEF DInv
  <1> QED
    BY <1>1, Reachable, PTL
=============================================================================
