----------------------------- MODULE Discovery ------------------------------
(***************************************************************************)
(* Discovery: the advertiser (DiscoveryAdvertiser), whose thread keeps the *)
(* multicast memberships and answers queries, the application that starts, *)
(* updates and stops it, and a client that runs discover().                *)
(*                                                                         *)
(* Datagrams may be lost, duplicated, reordered and late: a datagram sent  *)
(* stays in `queries` or `replies` and may be received any number of times *)
(* or never. Interfaces come and go. The kernel lets a socket join a group *)
(* once per device, whatever the address, so that a second address of the  *)
(* same device is "in use".                                                *)
(***************************************************************************)
EXTENDS DiscoveryCodec, FiniteSetsExt

CONSTANTS Address,        \* addresses of interfaces, ordered as in std::map
          Device,         \* the device of each address
          AttributeBytes, \* encoded size of the attributes of each advertisement
          ClientFormats,  \* reply formats clients ask for
          Secret,         \* the advertiser's secret; a client may have another
          WrongSecret,
          MaxVersion,     \* advertisements the application makes
          MaxAnswers,     \* queries the advertiser answers in one start
          MaxCalls,       \* calls of discover()
          MaxChanges      \* changes of interfaces, joins that just fail, and calls

ASSUME DiscoveryAssumption ==
    /\ Address \in SUBSET Nat
    /\ DOMAIN Device = Address
    /\ AttributeBytes \in [0 .. MaxVersion -> Nat]
    /\ ClientFormats \subseteq Format
    /\ MaxVersion \in Nat /\ MaxAnswers \in Nat /\ MaxCalls \in Nat /\ MaxChanges \in Nat

VARIABLES app,            \* the application's thread: idle or inside stop()
          running, socket, thread, resume,
          advertisement,
          memberships,    \* multicast_memberships
          missing,        \* reported_missing_multicast_interface
          todo,           \* addresses the join loop still has to visit
          report,         \* last event the handler got about each address
          request, reply, \* what the thread is answering
          up, member, changes,
          queries, replies,
          client, found

appVars == <<app, running, socket>>
groupVars == <<memberships, missing, todo, report>>
hostVars == <<up, member, changes>>
netVars == <<queries, replies>>
clientVars == <<client, found>>
vars == <<appVars, thread, resume, advertisement, groupVars, request, reply, hostVars,
          netVars, clientVars>>

NoRequest == [kind |-> "none"]
NoCall == [nonce |-> 0]

\* The version of an advertisement stands for its contents.
NewAdvertisement(version, started) ==
    [version |-> version, common |-> version, agent_id |-> version,
     attributes |-> version, valid |-> TRUE,
     bytes |-> [common |-> 1, attributes |-> AttributeBytes[version]],
     started_at_ms |-> started, sequence |-> 0]

Init ==
    /\ app = "idle" /\ running = FALSE /\ socket = "none"
    /\ thread = "none" /\ resume = "loop"
    /\ advertisement = NewAdvertisement(0, 0)
    /\ memberships = <<>> /\ missing = FALSE
    /\ todo = {}
    /\ report = [a \in Address |-> "none"]
    /\ request = NoRequest /\ reply = NoDatagram
    /\ up \in SUBSET Address
    /\ member = {} /\ changes = 0
    /\ queries = {} /\ replies = {}
    /\ client = NoCall /\ found = Nothing

(***************************************************************************)
(* The application.                                                        *)
(***************************************************************************)
\* started_at_ms is the clock; here a new advertisement's version, which grows too.
start ==
    /\ app = "idle" /\ ~running
    /\ advertisement.version < MaxVersion
    /\ advertisement' = NewAdvertisement(advertisement.version + 1, advertisement.version + 1)
    /\ \/ /\ socket' = "none"                   \* bind or non_blocking fails
          /\ UNCHANGED <<running, thread, resume, memberships, report>>
       \/ /\ socket' = "open"
          /\ memberships' = <<>>
          /\ running' = TRUE
          /\ thread' = "refresh" /\ resume' = "loop"
          /\ report' = [a \in Address |-> "none"]
    /\ UNCHANGED <<app, missing, todo, request, reply, hostVars, netVars, clientVars>>

\* mutant: the sequence of the new advertisement is kept
set_advertisement_restarts ==
    /\ advertisement.version \in 1 .. MaxVersion - 1
    /\ advertisement' = NewAdvertisement(advertisement.version + 1, advertisement.started_at_ms)
    /\ UNCHANGED <<appVars, thread, resume, groupVars, request, reply, hostVars, netVars,
                   clientVars>>

\* An invalid advertisement is ignored.
set_advertisement ==
    /\ advertisement.version \in 1 .. MaxVersion - 1
    /\ advertisement' =
           [NewAdvertisement(advertisement.version + 1, advertisement.started_at_ms)
                EXCEPT !.sequence = advertisement.sequence]
    /\ UNCHANGED <<appVars, thread, resume, groupVars, request, reply, hostVars, netVars,
                   clientVars>>

StopBegin ==
    /\ app = "idle" /\ running
    /\ running' = FALSE
    /\ app' = "close"
    /\ UNCHANGED <<socket, thread, resume, advertisement, groupVars, request, reply, hostVars,
                   netVars, clientVars>>

\* Closing the socket ends its memberships; the thread may be using it.
StopClose ==
    /\ app = "close"
    /\ socket' = "closed"
    /\ member' = {}
    /\ app' = "join"
    /\ UNCHANGED <<running, thread, resume, advertisement, groupVars, request, reply, up, changes,
                   netVars, clientVars>>

StopJoin ==
    /\ app = "join" /\ thread = "ended"
    /\ thread' = "none"
    /\ socket' = "none"
    /\ memberships' = <<>>
    /\ missing' = FALSE
    /\ app' = "idle"
    /\ UNCHANGED <<running, resume, advertisement, todo, report, request, reply,
                   hostVars, netVars, clientVars>>

(***************************************************************************)
(* The advertiser's thread: refresh_multicast.                             *)
(***************************************************************************)
\* Go on with the join loop, or with what follows the refresh.
JoinLoop ==
    IF todo' = {} THEN thread' = resume /\ resume' = "loop"
                  ELSE thread' = "join" /\ UNCHANGED resume

\* The snapshot, and the leave loop: what it does to the socket, and what it reports,
\* depends on nothing that another thread or the host changes. leave_group matches the
\* address the socket joined with, and its error is ignored.
RefreshBegin ==
    /\ thread = "refresh"
    /\ missing' = (up = {})     \* the event goes out when this turns TRUE
    /\ LET gone == DOMAIN memberships \ up
           left == {a \in gone : memberships[a]} IN
       /\ memberships' = [a \in DOMAIN memberships \ gone |-> memberships[a]]
       /\ member' = member \ left
       /\ report' = [a \in Address |-> IF a \in left THEN "left" ELSE report[a]]
    /\ todo' = up
    /\ JoinLoop
    /\ UNCHANGED <<appVars, advertisement, request, reply, up, changes, netVars,
                   clientVars>>

WasHealthy(a) == a \in DOMAIN memberships /\ memberships[a]

\* The kernel's answers to a join: "spurious" is a failure that uses up a change.
JoinAnswers(a) ==
    IF socket # "open" \/ a \notin up THEN {"error"}
    ELSE {IF \E b \in member : Device[b] = Device[a] THEN "in_use" ELSE "ok"}
             \cup (IF changes < MaxChanges THEN {"spurious"} ELSE {})

\* mutant: only the first failure of an address is reported
JoinReportOnce(a, error) ==
    IF ~error /\ ~WasHealthy(a) THEN [report EXCEPT ![a] = "joined"]
    ELSE IF error /\ a \notin DOMAIN memberships THEN [report EXCEPT ![a] = "failed"]
         ELSE report

JoinReport(a, error) ==
    IF ~error /\ ~WasHealthy(a) THEN [report EXCEPT ![a] = "joined"]
    ELSE IF error /\ (a \notin DOMAIN memberships \/ WasHealthy(a))
         THEN [report EXCEPT ![a] = "failed"]
         ELSE report

\* mutant: an address that was joined is not tried again
JoinOnce ==
    /\ thread = "join" /\ todo # {}
    /\ LET a == Min(todo) IN
       /\ todo' = todo \ {a}
       /\ JoinLoop
       /\ IF WasHealthy(a) THEN UNCHANGED <<memberships, report, member, changes>>
          ELSE \E answer \in JoinAnswers(a) :
                  /\ changes' = IF answer = "spurious" THEN changes + 1 ELSE changes
                  /\ member' = IF answer = "ok" THEN member \cup {a} ELSE member
                  /\ memberships' = [b \in DOMAIN memberships \cup {a} |->
                                        IF b = a THEN answer = "ok" ELSE memberships[b]]
                  /\ report' = JoinReport(a, answer # "ok")
    /\ UNCHANGED <<appVars, advertisement, missing, request, reply, up,
                   netVars, clientVars>>

JoinOne ==
    /\ thread = "join" /\ todo # {}
    /\ LET a == Min(todo) IN
       /\ todo' = todo \ {a}
       /\ JoinLoop
       /\ \E answer \in JoinAnswers(a) :
             /\ changes' = IF answer = "spurious" THEN changes + 1 ELSE changes
             /\ member' = IF answer = "ok" THEN member \cup {a} ELSE member
             /\ IF answer = "in_use" /\ WasHealthy(a)
                THEN UNCHANGED <<memberships, report>>
                ELSE /\ memberships' = [b \in DOMAIN memberships \cup {a} |->
                                           IF b = a THEN answer = "ok" ELSE memberships[b]]
                     /\ report' = JoinReport(a, answer # "ok")
    /\ UNCHANGED <<appVars, advertisement, missing, request, reply, up,
                   netVars, clientVars>>

(***************************************************************************)
(* The advertiser's thread: the loop.                                      *)
(***************************************************************************)
\* mutant: the loop's condition is not tested
LoopForever ==
    /\ thread = "loop" /\ ~running
    /\ thread' = "receive"
    /\ UNCHANGED <<appVars, resume, advertisement, groupVars, request, reply, hostVars, netVars,
                   clientVars>>

LeaveLoop ==
    /\ thread = "loop" /\ ~running
    /\ thread' = "ended"
    /\ UNCHANGED <<appVars, resume, advertisement, groupVars, request, reply, hostVars, netVars,
                   clientVars>>

RefreshDue ==
    /\ thread = "loop" /\ running
    /\ thread' = "refresh" /\ resume' = "receive"
    /\ UNCHANGED <<appVars, advertisement, groupVars, request, reply, hostVars, netVars,
                   clientVars>>

NotDue ==
    /\ thread = "loop" /\ running
    /\ thread' = "receive"
    /\ UNCHANGED <<appVars, resume, advertisement, groupVars, request, reply, hostVars, netVars,
                   clientVars>>

\* Nothing to receive, or an error because the socket is closed.
ReceiveNothing ==
    /\ thread = "receive"
    /\ thread' = "loop"
    /\ UNCHANGED <<appVars, resume, advertisement, groupVars, request, reply, hostVars, netVars,
                   clientVars>>

ReceiveQuery ==
    /\ thread = "receive" /\ socket = "open"
    /\ advertisement.sequence < MaxAnswers
    /\ \E datagram \in queries :
           LET query == decode_discovery_query(datagram, Secret) IN
           IF query = Nothing                                     \* kRejected
           THEN thread' = "loop" /\ UNCHANGED request
           ELSE thread' = "answer" /\ request' = query
    /\ UNCHANGED <<appVars, resume, advertisement, groupVars, reply, hostVars, netVars,
                   clientVars>>

\* The critical section: copy the advertisement and give it the next sequence.
Answer ==
    /\ thread = "answer"
    /\ advertisement' = [advertisement EXCEPT !.sequence = @ + 1]
    /\ reply' = encode_discovery_reply(request, advertisement', Secret)
    /\ request' = NoRequest
    /\ thread' = IF reply' = NoDatagram THEN "loop" ELSE "send"     \* kSendError
    /\ UNCHANGED <<appVars, resume, groupVars, hostVars, netVars, clientVars>>

SendReply ==
    /\ thread = "send"
    /\ replies' = IF socket = "open" THEN replies \cup {reply} ELSE replies
    /\ reply' = NoDatagram
    /\ thread' = "loop"
    /\ UNCHANGED <<appVars, resume, advertisement, groupVars, request, hostVars, queries,
                   clientVars>>

(***************************************************************************)
(* The host's interfaces.                                                  *)
(***************************************************************************)
InterfaceUp(a) ==
    /\ changes < MaxChanges /\ a \notin up
    /\ up' = up \cup {a}
    /\ changes' = changes + 1
    /\ UNCHANGED <<appVars, thread, resume, advertisement, groupVars, request, reply, member,
                   netVars, clientVars>>

\* The address goes; the device, and the socket's membership with it, may go too.
InterfaceDown(a) ==
    /\ changes < MaxChanges /\ a \in up
    /\ up' = up \ {a}
    /\ member' \in {member, {b \in member : Device[b] # Device[a]}}
    /\ changes' = changes + 1
    /\ UNCHANGED <<appVars, thread, resume, advertisement, groupVars, request, reply, netVars,
                   clientVars>>

(***************************************************************************)
(* A client: discover() sends one query and collects replies until its     *)
(* deadline. The last reply of an endpoint is the one that is kept.        *)
(***************************************************************************)
Calls == Cardinality({d.nonce : d \in queries})

discover ==
    /\ client = NoCall /\ Calls < MaxCalls
    /\ changes < MaxChanges /\ changes' = changes + 1
    /\ \E format \in ClientFormats, secret \in {Secret, WrongSecret} :
           /\ client' = [nonce |-> Calls + 1, format |-> format, secret |-> secret,
                         asked |-> advertisement.version]
           /\ queries' = queries \cup
                  {encode_discovery_query([nonce |-> Calls + 1, window |-> 1, format |-> format],
                                          secret)}
    /\ found' = Nothing
    /\ UNCHANGED <<appVars, thread, resume, advertisement, groupVars, request, reply, up, member,
                   replies>>

ReceiveReply ==
    /\ client # NoCall
    /\ \E datagram \in replies :
           LET parsed == decode_discovery_reply(datagram, client.secret, client.nonce) IN
           parsed # Nothing /\ found' = parsed
    /\ UNCHANGED <<appVars, thread, resume, advertisement, groupVars, request, reply, hostVars,
                   netVars, client>>

Deadline ==
    /\ client # NoCall
    /\ client' = NoCall /\ found' = Nothing
    /\ UNCHANGED <<appVars, thread, resume, advertisement, groupVars, request, reply, hostVars,
                   netVars>>

Stop == StopBegin \/ StopClose \/ StopJoin

Refresh == RefreshBegin \/ JoinOne

Serve == LeaveLoop \/ NotDue \/ ReceiveNothing \/ ReceiveQuery \/ Answer \/ SendReply

Next ==
    \/ start \/ set_advertisement \/ Stop
    \/ Refresh \/ RefreshDue \/ Serve
    \/ \E a \in Address : InterfaceUp(a) \/ InterfaceDown(a)
    \/ discover \/ ReceiveReply \/ Deadline

Spec == Init /\ [][Next]_vars

\* The thread and stop() run on, and the refresh timer is due again and again. The
\* application, the host's interfaces, the network and the client owe nothing.
FairSpec ==
    /\ Spec
    /\ WF_vars(Refresh \/ Serve) /\ WF_vars(StopClose \/ StopJoin)
    /\ SF_vars(RefreshDue)

(***************************************************************************)
(* Properties.                                                             *)
(***************************************************************************)
\* Outside a refresh the handler's last event about an address agrees with the
\* membership table: kMulticastJoined exactly for one joined, kMulticastJoinFailed for
\* one that is there and is not, whatever the order of failures, returns and a stop()
\* that closes the socket in the middle of a refresh (refresh_multicast).
MembershipReported ==
    thread \in {"loop", "receive", "answer", "send", "ended"} =>
        \A a \in Address :
            /\ report[a] = "joined" <=> WasHealthy(a)
            /\ a \in DOMAIN memberships /\ ~memberships[a] => report[a] = "failed"

\* Replies of one start of the advertiser are ordered by their sequence: a later one
\* never has older contents, and no two have the same sequence. set_advertisement and
\* the thread's copy share the mutex and the sequence for that.
LaterReplyNewer ==
    \A r1, r2 \in replies :
        r1.started_at_ms = r2.started_at_ms =>
            /\ r1.sequence < r2.sequence => r1.body.common <= r2.body.common
            /\ r1.sequence = r2.sequence => r1 = r2

\* What discover() keeps was advertised no earlier than it asked, was made with its
\* secret, and has exactly the fields of the format it asked for, however late,
\* duplicated or reordered the datagrams are.
FoundFresh ==
    found # Nothing =>
        /\ found.common >= client.asked
        /\ client.secret = Secret
        /\ found.agent_id = (IF client.format >= 3 THEN found.common ELSE 0)
        /\ found.attributes = (IF client.format >= 4 THEN found.common ELSE 0)

\* A device that has an address for good is joined again and again however its
\* membership was lost: refresh_multicast tries every address each time, the ones it
\* believes joined too.
DevicesJoined ==
    \A a \in Address :
        <>[](running /\ a \in up) => []<>(\E b \in member : Device[b] = Device[a])

\* stop() returns: the thread sees that running is off although the socket it works
\* on is closed under it.
StopReturns == app # "idle" ~> app = "idle"
=============================================================================
