-------------------------- MODULE AuthorityProofs --------------------------
(***************************************************************************)
(* Machine-checked proofs about Authority, for any number of peers,        *)
(* sessions, entities and scopes and any lease limit.                      *)
(***************************************************************************)
EXTENDS Authority, TLAPS

\* A thread that is handling an envelope has one; one that has read the clock
\* has validated the request and read a past time.
HandlerOK ==
    \A p \in Peer :
        /\ pc[p] \in Handling => env[p] \in Envelope
        /\ pc[p] \in {"apply", "authorize"} => SingleEntity(env[p]) /\ stamp[p] <= clock
        /\ pc[p] = "apply" => /\ env[p].op \in AuthorityOps
                              /\ env[p].ttl # 0 /\ env[p].ttl <= MaxLease
        /\ pc[p] = "authorize" => env[p].op = "action"

\* Sessions, like leases, belong to peers that have still to be dropped.
SessionPeerAlive == \A s \in Session : sessions[s] # "none" => Alive(s[1])

\* Until stop() clears the table, the session an envelope was checked against
\* stays in it while the envelope is being handled.
HandledSessionPresent ==
    phase \in {"running", "stopping"} =>
        \A p \in Peer : pc[p] \in Handling =>
            sessions[<<p, env[p].session_id>>] # "none"

\* stop() returns after every receive thread.
StoppedJoined == phase = "stopped" => \A p \in Peer : ~Alive(p)

IInv == /\ TypeOK /\ HandlerOK
        /\ SessionPeerAlive /\ HandledSessionPresent /\ StoppedJoined
        /\ LeaseHolderAlive /\ LeaseHasSession /\ LeaseBounded

\* Every initial state satisfies the inductive invariant: the tables are
\* empty when the runtime starts.
LEMMA InitIInv == Init => IInv
  <1> SUFFICES ASSUME Init PROVE IInv
    OBVIOUS
  <1>1. TypeOK
    BY BoundsAssumption DEF Init, TypeOK
  <1>2. HandlerOK /\ HandledSessionPresent /\ StoppedJoined
    BY DEF Init, HandlerOK, HandledSessionPresent, StoppedJoined, Handling, Alive
  <1>3. SessionPeerAlive /\ LeaseHolderAlive /\ LeaseHasSession /\ LeaseBounded
    BY DEF Init, SessionPeerAlive, LeaseHolderAlive, LeaseHasSession, LeaseBounded
  <1> QED
    BY <1>1, <1>2, <1>3 DEF IInv

\* What a request leaves in the entry of its key: nothing, the old lease, the
\* old lease renewed, or a lease of the requesting session.
LEMMA AfterRequestCases ==
  ASSUME TypeOK, NEW p \in Peer, NEW k \in Key, env[p] \in Envelope,
         env[p].op \in AuthorityOps
  PROVE  LET new == AfterRequest(p, k)
         IN  \/ new = NoLease
             \/ new = lease[k]
             \/ /\ new \in Lease
                /\ new.peer_id = p /\ new.session_id = env[p].session_id
                /\ new.expires_at = stamp[p] + env[p].ttl
  <1>1. /\ lease[k] \in Lease \cup {NoLease}
        /\ stamp[p] \in Nat /\ env[p].ttl \in Nat /\ env[p].session_id \in Sid
    BY BoundsAssumption DEF TypeOK, Envelope
  <1>2. Current(k, stamp[p]) \in {NoLease, lease[k]}
    BY DEF Current
  <1>3. CASE env[p].op = "release"
    BY <1>2, <1>3 DEF AfterRequest, AfterRelease
  <1>4. CASE env[p].op = "renew"
    <2>1. CASE Owner(p, k)
      <3>1. /\ lease[k] \in Lease
            /\ lease[k].peer_id = p /\ lease[k].session_id = env[p].session_id
        BY <1>1, <1>2, <2>1 DEF Owner, HeldBy
      <3> QED
        BY <1>1, <1>4, <2>1, <3>1 DEF AfterRequest, AfterRenew, Lease
    <2>2. CASE ~Owner(p, k)
      BY <1>2, <1>4, <2>2 DEF AfterRequest, AfterRenew
    <2> QED
      BY <2>1, <2>2
  <1>5. CASE env[p].op = "claim"
    BY <1>1, <1>2, <1>5 DEF AfterRequest, AfterClaim, Granted, Lease
  <1> QED
    BY <1>3, <1>4, <1>5 DEF AuthorityOps

\* Every step keeps the inductive invariant.
LEMMA NextIInv == IInv /\ [Next]_vars => IInv'
  <1> SUFFICES ASSUME IInv, [Next]_vars PROVE IInv'
    OBVIOUS
  <1> USE DEF IInv
  <1>1. ASSUME NEW p \in Peer, Accept(p) PROVE IInv'
    <2>1. TypeOK' /\ HandlerOK'
      BY <1>1 DEF Accept, Goto, TypeOK, HandlerOK, Handling
    <2>2. SessionPeerAlive' /\ HandledSessionPresent' /\ StoppedJoined'
      BY <1>1 DEF Accept, Goto, TypeOK, Handling, Alive, Session,
         SessionPeerAlive, HandledSessionPresent, StoppedJoined, HandlerOK
    <2>3. LeaseHolderAlive' /\ LeaseHasSession' /\ LeaseBounded'
      BY <1>1 DEF Accept, Goto, TypeOK, Handling, Alive, Lease,
         LeaseHolderAlive, LeaseHasSession, LeaseBounded
    <2> QED
      BY <2>1, <2>2, <2>3
  <1>2. ASSUME NEW p \in Peer, NEW s \in Sid, SessionEnvelope(p, s) PROVE IInv'
    <2>1. TypeOK' /\ HandlerOK'
      BY <1>2 DEF SessionEnvelope, TypeOK, HandlerOK, Handling
    <2>2. SessionPeerAlive' /\ HandledSessionPresent' /\ StoppedJoined'
      BY <1>2 DEF SessionEnvelope, TypeOK, Handling, Alive, Session,
         SessionPeerAlive, HandledSessionPresent, StoppedJoined, HandlerOK
    <2>3. LeaseHolderAlive' /\ LeaseHasSession' /\ LeaseBounded'
      BY <1>2 DEF SessionEnvelope, TypeOK, Handling, Alive, Lease,
         LeaseHolderAlive, LeaseHasSession, LeaseBounded
    <2> QED
      BY <2>1, <2>2, <2>3
  <1>3. ASSUME NEW p \in Peer, NEW m \in Envelope, Dispatch(p, m) PROVE IInv'
    <2>1. TypeOK' /\ HandlerOK'
      BY <1>3 DEF Dispatch, Goto, TypeOK, HandlerOK, Handling
    <2>2. SessionPeerAlive' /\ HandledSessionPresent' /\ StoppedJoined'
      BY <1>3 DEF Dispatch, Goto, TypeOK, Handling, Alive, Session,
         SessionPeerAlive, HandledSessionPresent, StoppedJoined, HandlerOK
    <2>3. LeaseHolderAlive' /\ LeaseHasSession' /\ LeaseBounded'
      BY <1>3 DEF Dispatch, Goto, TypeOK, Handling, Alive, Lease,
         LeaseHolderAlive, LeaseHasSession, LeaseBounded
    <2> QED
      BY <2>1, <2>2, <2>3
  <1>4. ASSUME NEW p \in Peer, ReadClock(p) PROVE IInv'
    <2>1. TypeOK' /\ HandlerOK'
      BY <1>4 DEF ReadClock, Goto, Finish, ValidRequest, SingleEntity, TypeOK, HandlerOK, Handling
    <2>2. SessionPeerAlive' /\ HandledSessionPresent' /\ StoppedJoined'
      BY <1>4 DEF ReadClock, Goto, Finish, ValidRequest, SingleEntity, TypeOK, Handling, Alive, Session,
         SessionPeerAlive, HandledSessionPresent, StoppedJoined, HandlerOK
    <2>3. LeaseHolderAlive' /\ LeaseHasSession' /\ LeaseBounded'
      BY <1>4 DEF ReadClock, Goto, Finish, ValidRequest, SingleEntity, TypeOK, Handling, Alive, Lease,
         LeaseHolderAlive, LeaseHasSession, LeaseBounded
    <2> QED
      BY <2>1, <2>2, <2>3
  <1>5. ASSUME NEW p \in Peer, HandleAuthority(p) PROVE IInv'
    <2>1. PICK e \in Entity :
             lease' = [lease EXCEPT ![<<e, env[p].scope>>] =
                                      AfterRequest(p, <<e, env[p].scope>>)]
      BY <1>5 DEF HandleAuthority
    <2> DEFINE key == <<e, env[p].scope>>
               new == AfterRequest(p, key)
    <2>2. /\ pc[p] = "apply" /\ env[p] \in Envelope /\ env[p].op \in AuthorityOps
          /\ env[p].ttl \in Nat /\ env[p].ttl <= MaxLease
          /\ stamp[p] \in Nat /\ stamp[p] <= clock
          /\ env[p].session_id \in Sid /\ key \in Key
      BY <1>5, BoundsAssumption DEF HandleAuthority, HandlerOK, Handling, TypeOK, Envelope, Key
    <2>3. \/ new = NoLease
          \/ new = lease[key]
          \/ /\ new \in Lease
             /\ new.peer_id = p /\ new.session_id = env[p].session_id
             /\ new.expires_at = stamp[p] + env[p].ttl
      BY <2>2, AfterRequestCases
    <2> HIDE DEF new, key
    <2>4. /\ \A k \in Key : lease'[k] = IF k = key THEN new ELSE lease[k]
          /\ \A q \in Peer : pc'[q] = IF q = p THEN "idle" ELSE pc[q]
          /\ UNCHANGED <<clock, phase, entities, sessions>>
      BY <1>5, <2>1 DEF HandleAuthority, Finish, TypeOK, key, new
    <2>5. new \in Lease \cup {NoLease}
      BY <2>2, <2>3 DEF TypeOK
    <2>6. TypeOK'
      <3>1. lease' \in [Key -> Lease \cup {NoLease}]
        BY <2>1, <2>2, <2>5 DEF TypeOK, key, new
      <3> QED
        BY <1>5, <3>1 DEF HandleAuthority, Finish, TypeOK
    <2>7. HandlerOK'
      BY <1>5 DEF HandleAuthority, Finish, TypeOK, HandlerOK, Handling
    <2>8. SessionPeerAlive' /\ StoppedJoined'
      BY <2>2, <2>4 DEF SessionPeerAlive, StoppedJoined, Alive, Session
    <2>9. HandledSessionPresent'
      BY <1>5 DEF HandleAuthority, Finish, TypeOK, HandledSessionPresent, Handling
    <2>10. LeaseHolderAlive'
      BY <2>2, <2>3, <2>4 DEF LeaseHolderAlive, Alive, TypeOK, Lease
    <2>11. LeaseHasSession'
      BY <2>2, <2>3, <2>4 DEF LeaseHasSession, HandledSessionPresent, Handling
    <2>12. LeaseBounded'
      BY <2>2, <2>3, <2>4, BoundsAssumption DEF LeaseBounded, TypeOK
    <2> QED
      BY <2>6, <2>7, <2>8, <2>9, <2>10, <2>11, <2>12
  <1>6. ASSUME NEW p \in Peer, AuthorizeAction(p) PROVE IInv'
    <2>1. TypeOK' /\ HandlerOK'
      BY <1>6 DEF AuthorizeAction, Goto, Finish, TypeOK, HandlerOK, Handling
    <2>2. SessionPeerAlive' /\ HandledSessionPresent' /\ StoppedJoined'
      BY <1>6 DEF AuthorizeAction, Goto, Finish, TypeOK, Handling, Alive, Session,
         SessionPeerAlive, HandledSessionPresent, StoppedJoined, HandlerOK
    <2>3. LeaseHolderAlive' /\ LeaseHasSession' /\ LeaseBounded'
      BY <1>6 DEF AuthorizeAction, Goto, Finish, TypeOK, Handling, Alive, Lease,
         LeaseHolderAlive, LeaseHasSession, LeaseBounded
    <2> QED
      BY <2>1, <2>2, <2>3
  <1>7. ASSUME NEW p \in Peer, EmitEnvelope(p) PROVE IInv'
    <2>1. TypeOK' /\ HandlerOK'
      BY <1>7 DEF EmitEnvelope, Finish, TypeOK, HandlerOK, Handling
    <2>2. SessionPeerAlive' /\ HandledSessionPresent' /\ StoppedJoined'
      BY <1>7 DEF EmitEnvelope, Finish, TypeOK, Handling, Alive, Session,
         SessionPeerAlive, HandledSessionPresent, StoppedJoined, HandlerOK
    <2>3. LeaseHolderAlive' /\ LeaseHasSession' /\ LeaseBounded'
      BY <1>7 DEF EmitEnvelope, Finish, TypeOK, Handling, Alive, Lease,
         LeaseHolderAlive, LeaseHasSession, LeaseBounded
    <2> QED
      BY <2>1, <2>2, <2>3
  <1>8. ASSUME NEW p \in Peer, ReceiveLoopExit(p) PROVE IInv'
    <2>1. TypeOK' /\ HandlerOK'
      BY <1>8 DEF ReceiveLoopExit, Goto, TypeOK, HandlerOK, Handling
    <2>2. SessionPeerAlive' /\ HandledSessionPresent' /\ StoppedJoined'
      BY <1>8 DEF ReceiveLoopExit, Goto, TypeOK, Handling, Alive, Session,
         SessionPeerAlive, HandledSessionPresent, StoppedJoined, HandlerOK
    <2>3. LeaseHolderAlive' /\ LeaseHasSession' /\ LeaseBounded'
      BY <1>8 DEF ReceiveLoopExit, Goto, TypeOK, Handling, Alive, Lease,
         LeaseHolderAlive, LeaseHasSession, LeaseBounded
    <2> QED
      BY <2>1, <2>2, <2>3
  <1>9. ASSUME NEW p \in Peer, DropPeerState(p) PROVE IInv'
    <2>1. /\ \A s \in Session : sessions'[s] = IF s[1] = p THEN "none" ELSE sessions[s]
          /\ \A k \in Key : lease'[k] = IF k \in LeasesOf(p) THEN NoLease ELSE lease[k]
          /\ \A q \in Peer : pc'[q] = IF q = p THEN "done" ELSE pc[q]
          /\ UNCHANGED <<clock, phase, env, stamp>>
      BY <1>9 DEF DropPeerState, Goto, Erase, TypeOK
    <2>2. TypeOK' /\ HandlerOK'
      BY <1>9 DEF DropPeerState, Goto, Erase, LeasesOf, TypeOK, HandlerOK, Handling
    <2>3. SessionPeerAlive'
      BY <2>1 DEF Session, SessionPeerAlive, Alive
    <2>4. HandledSessionPresent'
      <3>1. ASSUME NEW q \in Peer, q # p, pc[q] \in Handling
            PROVE  <<q, env[q].session_id>> \in Session
        BY <3>1 DEF HandlerOK, Envelope, Session
      <3> QED
        BY <2>1, <3>1 DEF HandledSessionPresent, Handling
    <2>5. StoppedJoined'
      BY <2>1 DEF StoppedJoined, Alive
    <2>6. LeaseHolderAlive' /\ LeaseBounded'
      BY <2>1 DEF LeaseHolderAlive, LeaseBounded, LeasesOf, Alive, TypeOK, Lease
    <2>7. LeaseHasSession'
      BY <2>1 DEF LeaseHasSession, LeasesOf, TypeOK, Lease, Session
    <2> QED
      BY <2>2, <2>3, <2>4, <2>5, <2>6, <2>7
  <1>10. ASSUME NEW p \in Peer, NEW s \in Sid, NEW E \in SUBSET Entity, RevokeAuthority(p, s, E) PROVE IInv'
    <2>1. TypeOK' /\ HandlerOK'
      BY <1>10 DEF RevokeAuthority, Erase, TypeOK, HandlerOK, Handling
    <2>2. SessionPeerAlive' /\ HandledSessionPresent' /\ StoppedJoined'
      BY <1>10 DEF RevokeAuthority, Erase, TypeOK, Handling, Alive, Session,
         SessionPeerAlive, HandledSessionPresent, StoppedJoined, HandlerOK
    <2>3. LeaseHolderAlive' /\ LeaseHasSession' /\ LeaseBounded'
      BY <1>10 DEF RevokeAuthority, Erase, TypeOK, Handling, Alive, Lease,
         LeaseHolderAlive, LeaseHasSession, LeaseBounded
    <2> QED
      BY <2>1, <2>2, <2>3
  <1>11. ASSUME NEW E \in SUBSET Entity, SetEntities(E) PROVE IInv'
    <2>1. TypeOK' /\ HandlerOK'
      BY <1>11 DEF SetEntities, Erase, TypeOK, HandlerOK, Handling
    <2>2. SessionPeerAlive' /\ HandledSessionPresent' /\ StoppedJoined'
      BY <1>11 DEF SetEntities, Erase, TypeOK, Handling, Alive, Session,
         SessionPeerAlive, HandledSessionPresent, StoppedJoined, HandlerOK
    <2>3. LeaseHolderAlive' /\ LeaseHasSession' /\ LeaseBounded'
      BY <1>11 DEF SetEntities, Erase, TypeOK, Handling, Alive, Lease,
         LeaseHolderAlive, LeaseHasSession, LeaseBounded
    <2> QED
      BY <2>1, <2>2, <2>3
  <1>12. ASSUME StopBegin PROVE IInv'
    <2>1. TypeOK' /\ HandlerOK'
      BY <1>12 DEF StopBegin, TypeOK, HandlerOK, Handling
    <2>2. SessionPeerAlive' /\ HandledSessionPresent' /\ StoppedJoined'
      BY <1>12 DEF StopBegin, TypeOK, Handling, Alive, Session,
         SessionPeerAlive, HandledSessionPresent, StoppedJoined, HandlerOK
    <2>3. LeaseHolderAlive' /\ LeaseHasSession' /\ LeaseBounded'
      BY <1>12 DEF StopBegin, TypeOK, Handling, Alive, Lease,
         LeaseHolderAlive, LeaseHasSession, LeaseBounded
    <2> QED
      BY <2>1, <2>2, <2>3
  <1>13. ASSUME StopClear PROVE IInv'
    <2>1. TypeOK' /\ HandlerOK'
      BY <1>13 DEF StopClear, TypeOK, HandlerOK, Handling
    <2>2. SessionPeerAlive' /\ HandledSessionPresent' /\ StoppedJoined'
      BY <1>13 DEF StopClear, TypeOK, Handling, Alive, Session,
         SessionPeerAlive, HandledSessionPresent, StoppedJoined, HandlerOK
    <2>3. LeaseHolderAlive' /\ LeaseHasSession' /\ LeaseBounded'
      BY <1>13 DEF StopClear, TypeOK, Handling, Alive, Lease,
         LeaseHolderAlive, LeaseHasSession, LeaseBounded
    <2> QED
      BY <2>1, <2>2, <2>3
  <1>14. ASSUME StopReturn PROVE IInv'
    <2>1. TypeOK' /\ HandlerOK'
      BY <1>14 DEF StopReturn, TypeOK, HandlerOK, Handling
    <2>2. SessionPeerAlive' /\ HandledSessionPresent' /\ StoppedJoined'
      BY <1>14 DEF StopReturn, TypeOK, Handling, Alive, Session,
         SessionPeerAlive, HandledSessionPresent, StoppedJoined, HandlerOK
    <2>3. LeaseHolderAlive' /\ LeaseHasSession' /\ LeaseBounded'
      BY <1>14 DEF StopReturn, TypeOK, Handling, Alive, Lease,
         LeaseHolderAlive, LeaseHasSession, LeaseBounded
    <2> QED
      BY <2>1, <2>2, <2>3
  <1>15. ASSUME Tick PROVE IInv'
    <2>1. TypeOK' /\ HandlerOK'
      BY <1>15, BoundsAssumption DEF Tick, TypeOK, HandlerOK, Handling
    <2>2. SessionPeerAlive' /\ HandledSessionPresent' /\ StoppedJoined'
      BY <1>15, BoundsAssumption DEF Tick, TypeOK, Handling, Alive, Session,
         SessionPeerAlive, HandledSessionPresent, StoppedJoined, HandlerOK
    <2>3. LeaseHolderAlive' /\ LeaseHasSession' /\ LeaseBounded'
      BY <1>15, BoundsAssumption DEF Tick, TypeOK, Handling, Alive, Lease,
         LeaseHolderAlive, LeaseHasSession, LeaseBounded
    <2> QED
      BY <2>1, <2>2, <2>3
  <1>16. ASSUME UNCHANGED vars PROVE IInv'
    <2>1. TypeOK' /\ HandlerOK'
      BY <1>16 DEF vars, TypeOK, HandlerOK, Handling
    <2>2. SessionPeerAlive' /\ HandledSessionPresent' /\ StoppedJoined'
      BY <1>16 DEF vars, TypeOK, Handling, Alive, Session,
         SessionPeerAlive, HandledSessionPresent, StoppedJoined, HandlerOK
    <2>3. LeaseHolderAlive' /\ LeaseHasSession' /\ LeaseBounded'
      BY <1>16 DEF vars, TypeOK, Handling, Alive, Lease,
         LeaseHolderAlive, LeaseHasSession, LeaseBounded
    <2> QED
      BY <2>1, <2>2, <2>3
  <1> QED
    BY <1>1, <1>2, <1>3, <1>4, <1>5, <1>6, <1>7, <1>8, <1>9, <1>10, <1>11,
       <1>12, <1>13, <1>14, <1>15, <1>16 DEF Next, ThreadStep

\* The inductive invariant holds throughout.
LEMMA SpecIInv == Spec => []IInv
  BY InitIInv, NextIInv, PTL DEF Spec

\* The variables keep their types.
THEOREM TypeCorrect == Spec => []TypeOK
  <1>1. IInv => TypeOK
    BY DEF IInv
  <1> QED
    BY <1>1, SpecIInv, PTL

\* No lease survives the drop of its holder's state, for any interleaving of
\* handlers, disconnections and stop().
THEOREM LeaseHolderAliveThm == Spec => []LeaseHolderAlive
  <1>1. IInv => LeaseHolderAlive
    BY DEF IInv
  <1> QED
    BY <1>1, SpecIInv, PTL

\* Until stop() clears the tables, a lease has its session in the table.
THEOREM LeaseHasSessionThm == Spec => []LeaseHasSession
  <1>1. IInv => LeaseHasSession
    BY DEF IInv
  <1> QED
    BY <1>1, SpecIInv, PTL

\* No lease outlives kMaximumAuthorityLeaseMs.
THEOREM LeaseBoundedThm == Spec => []LeaseBounded
  <1>1. IInv => LeaseBounded
    BY DEF IInv
  <1> QED
    BY <1>1, SpecIInv, PTL

\* Once stop() has returned, no lease and no session is left.
THEOREM StoppedCleanThm == Spec => []StoppedClean
  <1>1. IInv => StoppedClean
    BY DEF IInv, StoppedClean, StoppedJoined, SessionPeerAlive, LeaseHolderAlive,
           TypeOK, Lease, Session
  <1> QED
    BY <1>1, SpecIInv, PTL

\* A lease handler that read the clock earlier sees an unexpired lease as it is,
\* and takes it from its holder only on the holder's release or by preemption.
LEMMA RequestLossCause ==
  ASSUME IInv, NEW p \in Peer, HandleAuthority(p), NEW k \in Key, Loses(k)
  PROVE  LossCause(k)
  <1>1. PICK e \in Entity :
           /\ env[p].uids = {e}
           /\ lease' = [lease EXCEPT ![<<e, env[p].scope>>] =
                                    AfterRequest(p, <<e, env[p].scope>>)]
    BY DEF HandleAuthority
  <1>2. lease[k] \in Lease /\ k = <<k[1], k[2]>>
    BY DEF IInv, TypeOK, Loses, HasAuthority, HeldBy, Key
  <1>3. k = <<e, env[p].scope>>
    <2> SUFFICES ASSUME k # <<e, env[p].scope>> PROVE FALSE
      OBVIOUS
    <2>1. lease'[k] = lease[k]
      BY <1>1 DEF IInv, TypeOK
    <2> QED
      BY <2>1 DEF Loses, HasAuthority, HeldBy
  <1>4. /\ env[p] \in Envelope /\ env[p].op \in AuthorityOps
        /\ stamp[p] \in Nat /\ stamp[p] <= clock /\ clock \in Nat
    BY BoundsAssumption DEF HandleAuthority, IInv, HandlerOK, TypeOK, Handling
  <1>5. Current(k, stamp[p]) = lease[k]
    BY <1>2, <1>4 DEF Current, Loses, HasAuthority, HeldBy, Lease
  <1>6. lease'[k] = AfterRequest(p, k)
    BY <1>1, <1>3 DEF IInv, TypeOK
  <1>7. env[p].uids = {k[1]} /\ env[p].scope = k[2]
    BY <1>1, <1>3
  <1>8. pc[p] = "apply" /\ pc'[p] = "idle"
    BY DEF HandleAuthority, Finish, IInv, TypeOK
  <1>9. CASE env[p].op = "release"
    <2>1. Owner(p, k)
      BY <1>5, <1>6, <1>9 DEF AfterRequest, AfterRelease, Loses, HasAuthority, HeldBy
    <2>2. lease[k].peer_id = p /\ lease[k].session_id = env[p].session_id
      BY <2>1, <1>5 DEF Owner, HeldBy
    <2> QED
      BY <1>7, <1>8, <1>9, <2>2 DEF LossCause, Applies
  <1>10. CASE env[p].op = "renew"
    <2>1. HeldBy(lease'[k], lease[k].peer_id, lease[k].session_id)
      <3>1. CASE Owner(p, k)
        <4>1. lease'[k] = [lease[k] EXCEPT !.expires_at = stamp[p] + env[p].ttl]
          BY <1>6, <1>10, <3>1 DEF AfterRequest, AfterRenew
        <4>2. lease'[k] \in Lease
          <5>1. env[p].ttl \in Nat
            BY <1>4, BoundsAssumption DEF Envelope
          <5> QED
            BY <4>1, <5>1, <1>2, <1>4 DEF Lease
        <4> QED
          BY <4>1, <4>2, <1>2, SentinelAssumption DEF HeldBy, Lease
      <3>2. CASE ~Owner(p, k)
        BY <1>5, <1>6, <1>10, <3>2 DEF AfterRequest, AfterRenew, HeldBy, Loses, HasAuthority
      <3> QED
        BY <3>1, <3>2
    <2> QED
      BY <2>1 DEF Loses, HasAuthority
  <1>11. CASE env[p].op = "claim"
    <2>1. CASE env[p].preempt
      BY <1>7, <1>8, <1>11, <2>1 DEF LossCause, Applies
    <2>2. CASE ~env[p].preempt /\ Owner(p, k)
      <3>1. lease'[k] = Granted(p)
        BY <1>6, <1>11, <2>2 DEF AfterRequest, AfterClaim
      <3>2. lease[k].peer_id = p /\ lease[k].session_id = env[p].session_id
        BY <2>2, <1>5 DEF Owner, HeldBy
      <3>3. lease'[k] \in Lease
        <4>1. env[p].ttl \in Nat /\ env[p].session_id \in Sid
          BY <1>4, BoundsAssumption DEF Envelope
        <4> QED
          BY <3>1, <4>1, <1>4 DEF Granted, Lease
      <3> QED
        BY <3>1, <3>2, <3>3, SentinelAssumption DEF Granted, Loses, HasAuthority, HeldBy
    <2>3. CASE ~env[p].preempt /\ ~Owner(p, k)
      BY <1>5, <1>6, <1>11, <2>3 DEF AfterRequest, AfterClaim, Loses, HasAuthority, HeldBy
    <2> QED
      BY <2>1, <2>2, <2>3
  <1> QED
    BY <1>4, <1>9, <1>10, <1>11 DEF AuthorityOps

\* Any step that takes an unexpired lease from its holder has an allowed cause.
LEMMA StepLossCause ==
  ASSUME IInv, [Next]_vars, NEW k \in Key, Loses(k)
  PROVE  LossCause(k)
  <1>1. lease[k] \in Lease /\ k[1] \in Entity
    BY DEF IInv, TypeOK, Loses, HasAuthority, HeldBy, Key
  <1>2. lease'[k] # lease[k]
    BY DEF Loses, HasAuthority, HeldBy
  <1>3. ASSUME NEW p \in Peer, HandleAuthority(p) PROVE LossCause(k)
    BY <1>3, RequestLossCause
  <1>4. ASSUME NEW p \in Peer, DropPeerState(p) PROVE LossCause(k)
    <2>1. lease[k].peer_id = p /\ pc[p] = "exit" /\ pc'[p] = "done"
      BY <1>2, <1>4 DEF DropPeerState, Erase, LeasesOf, Goto, IInv, TypeOK
    <2> QED
      BY <2>1 DEF LossCause
  <1>5. ASSUME NEW p \in Peer, NEW s \in Sid, NEW E \in SUBSET Entity,
               RevokeAuthority(p, s, E)
        PROVE  LossCause(k)
    <2>1. lease[k].peer_id = p /\ lease[k].session_id = s
      BY <1>2, <1>5 DEF RevokeAuthority, Erase, HeldBy
    <2> QED
      BY <1>5, <2>1 DEF LossCause
  <1>6. ASSUME NEW E \in SUBSET Entity, SetEntities(E) PROVE LossCause(k)
    <2>1. k[1] \notin entities'
      BY <1>2, <1>6 DEF SetEntities, Erase
    <2> QED
      BY <2>1 DEF LossCause
  <1>7. CASE StopClear
    BY <1>7 DEF StopClear, LossCause
  <1>8. CASE UNCHANGED lease
    BY <1>2, <1>8
  <1> QED
    BY <1>3, <1>4, <1>5, <1>6, <1>7, <1>8
    DEF Next, ThreadStep, vars, Accept, SessionEnvelope, Dispatch, ReadClock,
        AuthorizeAction, EmitEnvelope, ReceiveLoopExit, StopBegin, StopReturn, Tick

\* The loss of an unexpired lease always has one of the causes the code allows.
THEOREM LeaseLossCausesThm == Spec => LeaseLossCauses
  <1>1. IInv /\ [Next]_vars => [\A k \in Key : Loses(k) => LossCause(k)]_vars
    BY StepLossCause
  <1>2. Spec => [][\A k \in Key : Loses(k) => LossCause(k)]_vars
    BY <1>1, SpecIInv, PTL DEF Spec
  <1> QED
    BY <1>2 DEF LeaseLossCauses

----------------------------------------------------------------------------
(* The runtime implements LeaseService *)

\* A step that changes neither the leases nor the clock, and leaves every thread's
\* request, action and connection as they are, is not seen by the service.
LEMMA Invisible ==
  ASSUME UNCHANGED <<lease, clock>>,
         \A q \in Peer : /\ Requested(q)' = Requested(q)
                         /\ Alive(q)' <=> Alive(q)
                         /\ (pc'[q] = "emit" /\ env'[q].op = "action")
                               <=> (pc[q] = "emit" /\ env[q].op = "action")
  PROVE  UNCHANGED Service!vars
  <1>1. [k \in Key |-> InForce(k)]' = [k \in Key |-> InForce(k)]
    BY DEF InForce
  <1>2. [p \in Peer |-> Requested(p)]' = [p \in Peer |-> Requested(p)]
    OBVIOUS
  <1>3. {p \in Peer : Alive(p)}' = {p \in Peer : Alive(p)}
    OBVIOUS
  <1>4. {p \in Peer : pc[p] = "emit" /\ env[p].op = "action"}'
           = {p \in Peer : pc[p] = "emit" /\ env[p].op = "action"}
    OBVIOUS
  <1> QED
    BY <1>1, <1>2, <1>3, <1>4 DEF Service!vars

\* The steps of a receive thread that no other session can tell: a session
\* envelope, the session check, a request that fails its validation, an envelope
\* that is no request, and the end of the loop.
LEMMA InvisibleThreadStep ==
  ASSUME TypeOK, NEW p \in Peer, UNCHANGED <<lease, clock>>,
         pc[p] \notin {"none", "done", "apply", "authorize"},
         pc[p] = "emit" => env[p].op # "action",
         pc'[p] \notin {"none", "done", "apply", "authorize"},
         pc'[p] = "emit" => env'[p].op # "action",
         \A q \in Peer \ {p} : pc'[q] = pc[q] /\ env'[q] = env[q] /\ stamp'[q] = stamp[q]
  PROVE  UNCHANGED Service!vars
  <1>1. ASSUME NEW q \in Peer
        PROVE  /\ Requested(q)' = Requested(q)
               /\ Alive(q)' <=> Alive(q)
               /\ (pc'[q] = "emit" /\ env'[q].op = "action")
                     <=> (pc[q] = "emit" /\ env[q].op = "action")
    <2>1. CASE q = p
      BY <2>1 DEF Requested, Alive
    <2>2. CASE q # p
      BY <2>2 DEF Requested, AsRequest, Alive
    <2> QED
      BY <2>1, <2>2
  <1> QED
    BY <1>1, Invisible

\* A step of one receive thread changes what the service sees of that peer only.
LEMMA OneThread ==
  ASSUME NEW p \in Peer,
         \A q \in Peer \ {p} : pc'[q] = pc[q] /\ env'[q] = env[q] /\ stamp'[q] = stamp[q]
  PROVE  /\ [q \in Peer |-> Requested(q)]'
               = [[q \in Peer |-> Requested(q)] EXCEPT ![p] = Requested(p)']
         /\ {q \in Peer : Alive(q)}'
               = IF Alive(p)' THEN {q \in Peer : Alive(q)} \cup {p}
                              ELSE {q \in Peer : Alive(q)} \ {p}
         /\ {q \in Peer : pc[q] = "emit" /\ env[q].op = "action"}'
               = IF pc'[p] = "emit" /\ env'[p].op = "action"
                 THEN {q \in Peer : pc[q] = "emit" /\ env[q].op = "action"} \cup {p}
                 ELSE {q \in Peer : pc[q] = "emit" /\ env[q].op = "action"} \ {p}
  <1>1. ASSUME NEW q \in Peer \ {p} PROVE Requested(q)' = Requested(q)
    BY DEF Requested, AsRequest
  <1>2. [q \in Peer |-> Requested(q)]'
               = [[q \in Peer |-> Requested(q)] EXCEPT ![p] = Requested(p)']
    BY <1>1
  <1>3. {q \in Peer : Alive(q)}'
               = IF Alive(p)' THEN {q \in Peer : Alive(q)} \cup {p}
                              ELSE {q \in Peer : Alive(q)} \ {p}
    BY DEF Alive
  <1>4. {q \in Peer : pc[q] = "emit" /\ env[q].op = "action"}'
               = IF pc'[p] = "emit" /\ env'[p].op = "action"
                 THEN {q \in Peer : pc[q] = "emit" /\ env[q].op = "action"} \cup {p}
                 ELSE {q \in Peer : pc[q] = "emit" /\ env[q].op = "action"} \ {p}
    OBVIOUS
  <1> QED
    BY <1>2, <1>3, <1>4

\* The leases in force change only with the table or the clock.
LEMMA SameInForce ==
  ASSUME UNCHANGED <<lease, clock>>
  PROVE  [k \in Key |-> InForce(k)]' = [k \in Key |-> InForce(k)]
  BY DEF InForce

\* The key a validated request is about.
LEMMA KeyOfRequest ==
  ASSUME NEW p \in Peer, NEW e \in Entity, env[p].uids = {e}
  PROVE  AsRequest(p).key = <<e, env[p].scope>>
  <1>1. (CHOOSE x \in Entity : env[p].uids = {x}) = e
    OBVIOUS
  <1> QED
    BY <1>1 DEF AsRequest

\* A new connection is a peer of the service.
LEMMA AcceptStep ==
  ASSUME IInv, NEW p \in Peer, Accept(p)
  PROVE  Service!Connect(p)
  <1>1. /\ pc[p] = "none" /\ pc'[p] = "idle"
        /\ \A q \in Peer \ {p} : pc'[q] = pc[q] /\ env'[q] = env[q] /\ stamp'[q] = stamp[q]
    BY DEF Accept, Goto, IInv, TypeOK
  <1>2. [k \in Key |-> InForce(k)]' = [k \in Key |-> InForce(k)]
    BY SameInForce DEF Accept
  <1>3. Requested(p) = {} /\ Requested(p)' = {} /\ ~Alive(p) /\ Alive(p)'
    BY <1>1 DEF Requested, Alive
  <1>4. [q \in Peer |-> Requested(q)]' = [q \in Peer |-> Requested(q)]
    <2>1. [q \in Peer |-> Requested(q)]' = [[q \in Peer |-> Requested(q)] EXCEPT ![p] = {}]
      BY <1>1, <1>3, OneThread
    <2> QED
      BY <1>3, <2>1
  <1>5. {q \in Peer : Alive(q)}' = {q \in Peer : Alive(q)} \cup {p}
    BY <1>1, <1>3, OneThread
  <1>6. {q \in Peer : pc[q] = "emit" /\ env[q].op = "action"}'
           = {q \in Peer : pc[q] = "emit" /\ env[q].op = "action"}
    BY <1>1, OneThread
  <1> QED
    BY <1>2, <1>3, <1>4, <1>5, <1>6 DEF Service!Connect, Accept

\* A request that passes its validation comes in at the time the handler reads.
LEMMA ReadClockStep ==
  ASSUME IInv, NEW p \in Peer, ReadClock(p), pc'[p] \in {"apply", "authorize"}
  PROVE  Service!Ask(p)
  <1>1. /\ pc[p] = "checked" /\ env' = env /\ stamp'[p] = clock
        /\ \A q \in Peer \ {p} : pc'[q] = pc[q] /\ env'[q] = env[q] /\ stamp'[q] = stamp[q]
        /\ UNCHANGED <<lease, clock>>
    BY DEF ReadClock, Goto, Finish, IInv, TypeOK
  <1>2. /\ env[p] \in Envelope
        /\ SingleEntity(env[p])
        /\ \/ env[p].op \in AuthorityOps /\ env[p].ttl # 0 /\ env[p].ttl <= MaxLease
           \/ env[p].op = "action"
    BY DEF ReadClock, Goto, Finish, ValidRequest, IInv, TypeOK, HandlerOK, Handling
  <1>3. PICK e \in Entity : env[p].uids = {e}
    BY <1>2 DEF SingleEntity
  <1> DEFINE r == [op |-> env[p].op, session |-> env[p].session_id,
                   key |-> <<e, env[p].scope>>, ttl |-> env[p].ttl,
                   preempt |-> env[p].preempt, at |-> clock]
  <1>4. AsRequest(p)' = r
    <2>1. (CHOOSE x \in Entity : env[p].uids = {x}) = e
      BY <1>3
    <2> QED
      BY <1>1, <2>1 DEF AsRequest
  <1>5. r \in Service!Request
    <2>1. /\ env[p].op \in {"claim", "renew", "release", "action"}
          /\ env[p].session_id \in Sid /\ env[p].scope \in Scope
          /\ env[p].preempt \in BOOLEAN
          /\ env[p].ttl \in 0 .. MaxLease
          /\ env[p].op # "action" => env[p].ttl > 0
      <3>1. env[p].preempt \in BOOLEAN
        BY <1>2, Zenon DEF Envelope
      <3>2. env[p].ttl \in Nat /\ (env[p].op = "action" => env[p].ttl = 0)
        BY <1>2, BoundsAssumption DEF Envelope, AuthorityOps
      <3>3. env[p].session_id \in Sid /\ env[p].scope \in Scope
        BY <1>2 DEF Envelope
      <3>4. env[p].op \in {"claim", "renew", "release", "action"}
        BY <1>2 DEF AuthorityOps
      <3>5. env[p].ttl \in 0 .. MaxLease /\ (env[p].op # "action" => env[p].ttl > 0)
        BY <1>2, <3>2, BoundsAssumption
      <3> QED
        BY <3>1, <3>3, <3>4, <3>5
    <2> QED
      BY <2>1 DEF Service!Request, Key
  <1> HIDE DEF r
  <1>6. Requested(p) = {} /\ Requested(p)' = {r} /\ Alive(p) /\ Alive(p)'
    BY <1>1, <1>4 DEF Requested, Alive
  <1>7. [k \in Key |-> InForce(k)]' = [k \in Key |-> InForce(k)]
    BY <1>1, SameInForce
  <1>8. [q \in Peer |-> Requested(q)]' = [[q \in Peer |-> Requested(q)] EXCEPT ![p] = {r}]
    BY <1>1, <1>6, OneThread
  <1>9. {q \in Peer : Alive(q)}' = {q \in Peer : Alive(q)}
    BY <1>1, <1>6, OneThread
  <1>10. {q \in Peer : pc[q] = "emit" /\ env[q].op = "action"}'
           = {q \in Peer : pc[q] = "emit" /\ env[q].op = "action"}
    BY <1>1, OneThread
  <1>11. [q \in Peer |-> Requested(q)]'[p] = {r}
    BY <1>6
  <1> QED
    BY <1>1, <1>5, <1>6, <1>7, <1>8, <1>9, <1>10, <1>11 DEF Service!Ask

\* The part of a lease that is still in force at the time now.
Valid(l) == IF l # NoLease /\ l.expires_at > clock THEN l ELSE NoLease

\* What a request leaves in force of its key is an answer the service may give,
\* although the table may hold an entry that has expired since the clock was read.
LEMMA RequestAnswer ==
  ASSUME IInv, NEW p \in Peer, pc[p] = "apply",
         NEW e \in Entity, env[p].uids = {e}
  PROVE  Valid(AfterRequest(p, <<e, env[p].scope>>)) \in Service!After(p, AsRequest(p))
  <1> DEFINE k == <<e, env[p].scope>>
             r == AsRequest(p)
             until == stamp[p] + env[p].ttl
             mine == [peer_id |-> p, session_id |-> env[p].session_id, expires_at |-> until]
  <1>1. /\ env[p] \in Envelope /\ env[p].op \in AuthorityOps /\ env[p].session_id \in Sid
        /\ env[p].ttl \in Nat /\ stamp[p] \in Nat /\ clock \in Nat /\ stamp[p] <= clock
        /\ k \in Key /\ lease[k] \in Lease \cup {NoLease}
    <2>1. env[p] \in Envelope /\ env[p].op \in AuthorityOps /\ stamp[p] <= clock
      BY DEF IInv, HandlerOK, Handling
    <2>2. env[p].session_id \in Sid /\ env[p].ttl \in Nat /\ env[p].scope \in Scope
      BY <2>1, BoundsAssumption DEF Envelope
    <2> QED
      BY <2>1, <2>2, BoundsAssumption DEF IInv, TypeOK, Key
  <1>2. /\ r.op = env[p].op /\ r.session = env[p].session_id /\ r.ttl = env[p].ttl
        /\ r.preempt = env[p].preempt /\ r.at = stamp[p]
    BY DEF AsRequest
  <1>3. r.key = k
    BY KeyOfRequest
  <1>4. until \in Nat /\ mine \in Lease /\ mine # NoLease
        /\ mine.peer_id = p /\ mine.session_id = env[p].session_id /\ mine.expires_at = until
    BY <1>1, SentinelAssumption DEF Lease
  <1>5. [q \in Key |-> InForce(q)][r.key] = Valid(lease[k])
    BY <1>1, <1>3 DEF InForce, Valid
  <1>6. Service!Holds(p, r) <=> HeldBy(Valid(lease[k]), p, env[p].session_id)
    BY <1>2, <1>5 DEF Service!Holds, HeldBy
  <1>7. Service!Lease(p, r) = Valid(mine)
    BY <1>2, <1>4 DEF Service!Lease, Valid
  <1>8. Service!MayHaveLapsed(r) <=> Valid(lease[k]) = NoLease /\ stamp[p] < clock
    BY <1>2, <1>5 DEF Service!MayHaveLapsed
  <1> SUFFICES Valid(AfterRequest(p, k)) \in Service!After(p, r)
    OBVIOUS
  <1> HIDE DEF k, r, until, mine
  \* a lease in force is seen by the handler; one that it sees and that is not in
  \* force has expired since the clock was read
  <1>9. /\ Valid(lease[k]) # NoLease => /\ Valid(lease[k]) = lease[k]
                                        /\ Current(k, stamp[p]) = lease[k]
        /\ Current(k, stamp[p]) # NoLease /\ Valid(lease[k]) = NoLease
              => /\ stamp[p] < clock /\ lease[k] # NoLease
        /\ Current(k, stamp[p]) \in {lease[k], NoLease}
        /\ Valid(Current(k, stamp[p])) = Valid(lease[k])
    BY <1>1 DEF Valid, Current, Lease
  <1>10. Owner(p, k) <=> HeldBy(Current(k, stamp[p]), p, env[p].session_id)
    BY DEF Owner
  <1>11. CASE env[p].op = "release"
    <2>1. Service!After(p, r) = {IF Service!Holds(p, r) THEN NoLease ELSE Valid(lease[k])}
      BY <1>2, <1>5, <1>11 DEF Service!After, Service!AfterRelease
    <2>2. AfterRequest(p, k) = IF Owner(p, k) THEN NoLease ELSE Current(k, stamp[p])
      BY <1>11 DEF AfterRequest, AfterRelease
    <2>3. Valid(NoLease) = NoLease
      BY DEF Valid
    <2>4. Service!Holds(p, r) => Owner(p, k)
      BY <1>6, <1>9, <1>10 DEF HeldBy
    <2>5. Owner(p, k) /\ ~Service!Holds(p, r) => Valid(lease[k]) = NoLease
      BY <1>6, <1>9, <1>10 DEF HeldBy
    <2> QED
      BY <2>1, <2>2, <2>3, <2>4, <2>5, <1>9
  <1>12. CASE env[p].op = "renew"
    <2>1. Service!After(p, r) = IF Service!Holds(p, r) THEN {Valid(mine)}
             ELSE {Valid(lease[k])} \cup {l \in {Valid(mine)} : Service!MayHaveLapsed(r)}
      BY <1>2, <1>5, <1>7, <1>12 DEF Service!After, Service!AfterRenew
    <2>2. CASE Owner(p, k)
      <3>1. lease[k] \in Lease /\ lease[k].peer_id = p
            /\ lease[k].session_id = env[p].session_id
        BY <1>1, <1>9, <1>10, <2>2 DEF HeldBy
      <3>2. AfterRequest(p, k) = [lease[k] EXCEPT !.expires_at = until]
        BY <1>12, <2>2 DEF AfterRequest, AfterRenew, until
      <3>3. AfterRequest(p, k) = mine
        BY <3>1, <3>2 DEF Lease, mine
      <3>4. Service!Holds(p, r) \/ Service!MayHaveLapsed(r)
        <4>1. CASE Valid(lease[k]) = NoLease
          BY <4>1, <1>8, <1>9, <1>10, <2>2 DEF HeldBy
        <4>2. CASE Valid(lease[k]) # NoLease
          BY <4>2, <1>6, <1>9, <1>10, <2>2 DEF HeldBy
        <4> QED
          BY <4>1, <4>2
      <3> QED
        BY <2>1, <3>3, <3>4
    <2>3. CASE ~Owner(p, k)
      <3>1. AfterRequest(p, k) = Current(k, stamp[p])
        BY <1>12, <2>3 DEF AfterRequest, AfterRenew
      <3>2. ~Service!Holds(p, r)
        BY <2>3, <1>6, <1>9, <1>10 DEF HeldBy
      <3> QED
        BY <2>1, <3>1, <3>2, <1>9
    <2> QED
      BY <2>2, <2>3
  <1>13. CASE env[p].op = "claim"
    <2>1. Service!After(p, r) =
             {l \in {Valid(mine)} : Valid(lease[k]) = NoLease \/ Service!Holds(p, r) \/ env[p].preempt}
             \cup {l \in {Valid(lease[k])} :
                      /\ ~env[p].preempt /\ ~Service!Holds(p, r)
                      /\ Valid(lease[k]) # NoLease \/ Service!MayHaveLapsed(r)}
      BY <1>2, <1>5, <1>7, <1>13 DEF Service!After, Service!AfterClaim
    <2>2. CASE Current(k, stamp[p]) = NoLease \/ Owner(p, k) \/ env[p].preempt
      <3>1. AfterRequest(p, k) = mine
        BY <1>13, <2>2 DEF AfterRequest, AfterClaim, Granted, mine, until
      <3>2. Valid(lease[k]) = NoLease \/ Service!Holds(p, r) \/ env[p].preempt
        BY <2>2, <1>6, <1>9, <1>10 DEF HeldBy
      <3> QED
        BY <2>1, <3>1, <3>2
    <2>3. CASE ~(Current(k, stamp[p]) = NoLease \/ Owner(p, k) \/ env[p].preempt)
      <3>1. AfterRequest(p, k) = Current(k, stamp[p])
        BY <1>13, <2>3 DEF AfterRequest, AfterClaim
      <3>2. /\ ~env[p].preempt /\ ~Service!Holds(p, r)
            /\ Valid(lease[k]) # NoLease \/ Service!MayHaveLapsed(r)
        BY <2>3, <1>6, <1>8, <1>9, <1>10 DEF HeldBy
      <3> QED
        BY <2>1, <3>1, <3>2, <1>9
    <2> QED
      BY <2>2, <2>3
  <1> QED
    BY <1>1, <1>11, <1>12, <1>13 DEF AuthorityOps

\* runtime_handle_authority serves the request in its second critical section.
LEMMA HandleAuthorityStep ==
  ASSUME IInv, NEW p \in Peer, HandleAuthority(p)
  PROVE  Service!Serve(p)
  <1>1. PICK e \in Entity :
           /\ env[p].uids = {e}
           /\ lease' = [lease EXCEPT ![<<e, env[p].scope>>] =
                                    AfterRequest(p, <<e, env[p].scope>>)]
    BY DEF HandleAuthority
  <1> DEFINE k == <<e, env[p].scope>>
             r == AsRequest(p)
             new == AfterRequest(p, k)
  <1>2. /\ pc[p] = "apply" /\ pc'[p] = "idle" /\ clock' = clock
        /\ \A q \in Peer \ {p} : pc'[q] = pc[q] /\ env'[q] = env[q] /\ stamp'[q] = stamp[q]
    BY DEF HandleAuthority, Finish, IInv, TypeOK
  <1>3. k \in Key /\ env[p].op \in AuthorityOps
    BY <1>2 DEF IInv, HandlerOK, Handling, Envelope, Key
  <1>4. Valid(new) \in Service!After(p, r)
    BY <1>1, <1>2, RequestAnswer
  <1>5. r.key = k /\ r.op # "action"
    <2>1. r.key = k
      BY <1>1, KeyOfRequest
    <2> QED
      BY <1>3, <2>1 DEF AsRequest, AuthorityOps
  <1>6. [x \in Key |-> InForce(x)]' = [[x \in Key |-> InForce(x)] EXCEPT ![r.key] = Valid(new)]
    <2> HIDE DEF k, new, r
    <2>1. \A x \in Key : lease'[x] = IF x = k THEN new ELSE lease[x]
      BY <1>1 DEF IInv, TypeOK, k, new
    <2>2. ASSUME NEW x \in Key PROVE InForce(x)' = IF x = k THEN Valid(new) ELSE InForce(x)
      BY <1>2, <2>1 DEF InForce, Valid
    <2> QED
      BY <2>2, <1>3, <1>5
  <1>7. Requested(p) = {r} /\ Requested(p)' = {} /\ Alive(p) /\ Alive(p)'
    BY <1>2 DEF Requested, Alive
  <1> HIDE DEF k, r, new
  <1>8. [q \in Peer |-> Requested(q)]' = [[q \in Peer |-> Requested(q)] EXCEPT ![p] = {}]
    BY <1>2, <1>7, OneThread
  <1>9. {q \in Peer : Alive(q)}' = {q \in Peer : Alive(q)}
    BY <1>2, <1>7, OneThread
  <1>10. {q \in Peer : pc[q] = "emit" /\ env[q].op = "action"}'
           = {q \in Peer : pc[q] = "emit" /\ env[q].op = "action"}
    BY <1>2, OneThread
  <1>11. [q \in Peer |-> Requested(q)][p] = {r}
    BY <1>7
  <1>12. \E x \in [q \in Peer |-> Requested(q)][p] :
            /\ x.op # "action"
            /\ \E l \in Service!After(p, x) :
                  [y \in Key |-> InForce(y)]' = [[y \in Key |-> InForce(y)] EXCEPT ![x.key] = l]
    BY <1>4, <1>5, <1>6, <1>11
  <1> QED
    BY <1>2, <1>8, <1>9, <1>10, <1>12 DEF Service!Serve, Service!Answered

\* runtime_action_authorized permits an action of the holder, or of one whose
\* lease has run out since the clock was read, and denies those of all others.
LEMMA AuthorizeActionStep ==
  ASSUME IInv, NEW p \in Peer, AuthorizeAction(p)
  PROVE  Service!Permit(p) \/ Service!Deny(p)
  <1>1. PICK e \in Entity :
           /\ env[p].uids = {e}
           /\ LET l == lease[<<e, env[p].scope>>]
              IN  \/ /\ HeldBy(l, p, env[p].session_id) /\ l.expires_at > stamp[p]
                     /\ Goto(p, "emit")
                     /\ UNCHANGED <<env, stamp>>
                  \/ /\ ~(HeldBy(l, p, env[p].session_id) /\ l.expires_at > stamp[p])
                     /\ Finish(p)
    BY DEF AuthorizeAction
  <1> DEFINE k == <<e, env[p].scope>>
             r == AsRequest(p)
             ok == HeldBy(lease[k], p, env[p].session_id) /\ lease[k].expires_at > stamp[p]
  <1>2. /\ pc[p] = "authorize" /\ UNCHANGED <<clock, lease>>
        /\ \A q \in Peer \ {p} : pc'[q] = pc[q] /\ env'[q] = env[q] /\ stamp'[q] = stamp[q]
    BY <1>1 DEF AuthorizeAction, Goto, Finish, IInv, TypeOK
  <1>3. /\ env[p].op = "action" /\ k \in Key /\ stamp[p] <= clock
        /\ stamp[p] \in Nat /\ clock \in Nat /\ lease[k] \in Lease \cup {NoLease}
    <2>1. env[p].op = "action" /\ stamp[p] <= clock /\ k \in Key
      BY <1>2 DEF IInv, HandlerOK, Handling, Envelope, Key
    <2> QED
      BY <2>1, BoundsAssumption DEF IInv, TypeOK
  <1>4. r.key = k /\ r.op = "action" /\ r.session = env[p].session_id /\ r.at = stamp[p]
    <2>1. r.key = k
      BY <1>1, KeyOfRequest
    <2> QED
      BY <1>3, <2>1 DEF AsRequest
  <1>5. Requested(p) = {r} /\ Alive(p)
    BY <1>2 DEF Requested, Alive
  <1>6. [x \in Key |-> InForce(x)]' = [x \in Key |-> InForce(x)]
    BY <1>2, SameInForce
  <1>7. \/ ok /\ pc'[p] = "emit" /\ env'[p] = env[p]
        \/ ~ok /\ pc'[p] = "idle"
    BY <1>1 DEF Goto, Finish, IInv, TypeOK
  <1> HIDE DEF k, r, ok
  <1>8. [x \in Key |-> InForce(x)][r.key] = Valid(lease[k])
    BY <1>3, <1>4 DEF InForce, Valid
  <1>9. Service!Holds(p, r) <=> HeldBy(Valid(lease[k]), p, env[p].session_id)
    BY <1>4, <1>8 DEF Service!Holds, HeldBy
  <1>10. Service!MayHaveLapsed(r) <=> Valid(lease[k]) = NoLease /\ stamp[p] < clock
    BY <1>4, <1>8 DEF Service!MayHaveLapsed
  <1>11. ok => Service!Holds(p, r) \/ Service!MayHaveLapsed(r)
    BY <1>3, <1>9, <1>10 DEF ok, HeldBy, Valid, Lease
  <1>12. ~ok => ~Service!Holds(p, r)
    BY <1>3, <1>9 DEF ok, HeldBy, Valid, Lease
  <1>13. Alive(p)' /\ Requested(p)' = {}
    BY <1>7 DEF Alive, Requested
  <1>14. [q \in Peer |-> Requested(q)]' = [[q \in Peer |-> Requested(q)] EXCEPT ![p] = {}]
    BY <1>2, <1>13, OneThread
  <1>15. {q \in Peer : Alive(q)}' = {q \in Peer : Alive(q)}
    BY <1>2, <1>5, <1>13, OneThread
  <1>16. [q \in Peer |-> Requested(q)][p] = {r}
    BY <1>5
  <1>17. CASE ok
    <2>1. {q \in Peer : pc[q] = "emit" /\ env[q].op = "action"}'
             = {q \in Peer : pc[q] = "emit" /\ env[q].op = "action"} \cup {p}
      BY <1>2, <1>3, <1>7, <1>17, OneThread
    <2>2. \E x \in [q \in Peer |-> Requested(q)][p] :
             x.op = "action" /\ (Service!Holds(p, x) \/ Service!MayHaveLapsed(x))
      BY <1>4, <1>11, <1>16, <1>17
    <2> QED
      BY <1>2, <1>6, <1>14, <1>15, <2>1, <2>2 DEF Service!Permit, Service!Answered
  <1>18. CASE ~ok
    <2>1. {q \in Peer : pc[q] = "emit" /\ env[q].op = "action"}'
             = {q \in Peer : pc[q] = "emit" /\ env[q].op = "action"}
      BY <1>2, <1>7, <1>18, OneThread
    <2>2. \E x \in [q \in Peer |-> Requested(q)][p] :
             x.op = "action" /\ ~Service!Holds(p, x)
      BY <1>4, <1>12, <1>16, <1>18
    <2> QED
      BY <1>2, <1>6, <1>14, <1>15, <2>1, <2>2 DEF Service!Deny, Service!Answered
  <1> QED
    BY <1>17, <1>18

\* runtime_emit hands an authorised action to the application.
LEMMA EmitEnvelopeStep ==
  ASSUME IInv, NEW p \in Peer, EmitEnvelope(p), env[p].op = "action"
  PROVE  Service!Act(p)
  <1>1. /\ pc[p] = "emit" /\ pc'[p] = "idle" /\ UNCHANGED <<clock, lease>>
        /\ \A q \in Peer \ {p} : pc'[q] = pc[q] /\ env'[q] = env[q] /\ stamp'[q] = stamp[q]
    BY DEF EmitEnvelope, Finish, IInv, TypeOK
  <1>2. [x \in Key |-> InForce(x)]' = [x \in Key |-> InForce(x)]
    BY <1>1, SameInForce
  <1>3. Requested(p) = {} /\ Requested(p)' = {} /\ Alive(p) /\ Alive(p)'
    BY <1>1 DEF Requested, Alive
  <1>4. [q \in Peer |-> Requested(q)]' = [q \in Peer |-> Requested(q)]
    <2>1. [q \in Peer |-> Requested(q)]' = [[q \in Peer |-> Requested(q)] EXCEPT ![p] = {}]
      BY <1>1, <1>3, OneThread
    <2> QED
      BY <1>3, <2>1
  <1>5. {q \in Peer : Alive(q)}' = {q \in Peer : Alive(q)}
    BY <1>1, <1>3, OneThread
  <1>6. {q \in Peer : pc[q] = "emit" /\ env[q].op = "action"}'
           = {q \in Peer : pc[q] = "emit" /\ env[q].op = "action"} \ {p}
    BY <1>1, OneThread
  <1> QED
    BY <1>1, <1>2, <1>4, <1>5, <1>6 DEF Service!Act

\* runtime_drop_peer_state leaves nothing the peer held.
LEMMA DropPeerStateStep ==
  ASSUME IInv, NEW p \in Peer, DropPeerState(p)
  PROVE  Service!Leave(p)
  <1>1. /\ pc[p] = "exit" /\ pc'[p] = "done" /\ clock' = clock
        /\ \A q \in Peer \ {p} : pc'[q] = pc[q] /\ env'[q] = env[q] /\ stamp'[q] = stamp[q]
        /\ \A k \in Key : lease'[k] = IF lease[k] # NoLease /\ lease[k].peer_id = p
                                      THEN NoLease ELSE lease[k]
    BY DEF DropPeerState, Goto, Erase, LeasesOf, IInv, TypeOK
  <1>2. ASSUME NEW k \in Key
        PROVE  InForce(k)' = IF InForce(k) # NoLease /\ InForce(k).peer_id = p
                             THEN NoLease ELSE InForce(k)
    BY <1>1 DEF InForce
  <1>3. [k \in Key |-> InForce(k)]'
           = [k \in Key |-> IF /\ [x \in Key |-> InForce(x)][k] # NoLease
                               /\ [x \in Key |-> InForce(x)][k].peer_id = p
                            THEN NoLease ELSE [x \in Key |-> InForce(x)][k]]
    BY <1>2
  <1>4. Requested(p) = {} /\ Requested(p)' = {} /\ Alive(p) /\ ~Alive(p)'
    BY <1>1 DEF Requested, Alive
  <1>5. [q \in Peer |-> Requested(q)]' = [q \in Peer |-> Requested(q)]
    <2>1. [q \in Peer |-> Requested(q)]' = [[q \in Peer |-> Requested(q)] EXCEPT ![p] = {}]
      BY <1>1, <1>4, OneThread
    <2> QED
      BY <1>4, <2>1
  <1>6. {q \in Peer : Alive(q)}' = {q \in Peer : Alive(q)} \ {p}
    BY <1>1, <1>4, OneThread
  <1>7. {q \in Peer : pc[q] = "emit" /\ env[q].op = "action"}'
           = {q \in Peer : pc[q] = "emit" /\ env[q].op = "action"}
    BY <1>1, OneThread
  <1> QED
    BY <1>1, <1>3, <1>4, <1>5, <1>6, <1>7 DEF Service!Leave

\* Whatever erases entries and touches no thread revokes leases.
LEMMA EraseStep ==
  ASSUME NEW K \in SUBSET Key, UNCHANGED <<clock, pc, env, stamp>>,
         \A k \in Key : lease'[k] = IF k \in K THEN NoLease ELSE lease[k]
  PROVE  Service!Revoke(K)
  <1>1. ASSUME NEW k \in Key
        PROVE  InForce(k)' = IF k \in K THEN NoLease ELSE InForce(k)
    BY DEF InForce
  <1>2. [k \in Key |-> InForce(k)]'
           = [k \in Key |-> IF k \in K THEN NoLease ELSE [x \in Key |-> InForce(x)][k]]
    BY <1>1
  <1>3. [q \in Peer |-> Requested(q)]' = [q \in Peer |-> Requested(q)]
    BY DEF Requested, AsRequest
  <1>4. {q \in Peer : Alive(q)}' = {q \in Peer : Alive(q)}
    BY DEF Alive
  <1> QED
    BY <1>2, <1>3, <1>4 DEF Service!Revoke

\* The clock ends the leases whose time is over, although their entries stay.
LEMMA TickStep ==
  ASSUME IInv, Tick
  PROVE  Service!Tick
  <1>1. clock' = clock + 1 /\ clock \in Nat /\ UNCHANGED <<lease, pc, env, stamp>>
    BY BoundsAssumption DEF Tick, IInv, TypeOK
  <1>2. ASSUME NEW k \in Key
        PROVE  InForce(k)' = IF InForce(k) # NoLease /\ InForce(k).expires_at <= clock + 1
                             THEN NoLease ELSE InForce(k)
    <2>1. lease[k] = NoLease \/ lease[k].expires_at \in Nat
      BY DEF IInv, TypeOK, Lease
    <2> QED
      BY <1>1, <2>1 DEF InForce
  <1>3. [k \in Key |-> InForce(k)]'
           = [k \in Key |-> IF /\ [x \in Key |-> InForce(x)][k] # NoLease
                               /\ [x \in Key |-> InForce(x)][k].expires_at <= clock + 1
                            THEN NoLease ELSE [x \in Key |-> InForce(x)][k]]
    BY <1>2
  <1>4. [q \in Peer |-> Requested(q)]' = [q \in Peer |-> Requested(q)]
    BY <1>1 DEF Requested, AsRequest
  <1>5. {q \in Peer : Alive(q)}' = {q \in Peer : Alive(q)}
    BY <1>1 DEF Alive
  <1> QED
    BY <1>1, <1>3, <1>4, <1>5 DEF Service!Tick

\* Every step of the runtime is a step of the service, or invisible to it.
LEMMA ServiceStep ==
  ASSUME IInv, [Next]_vars
  PROVE  [Service!Next]_(Service!vars)
  <1>1. ASSUME NEW p \in Peer, Accept(p) PROVE Service!Next
    BY <1>1, AcceptStep DEF Service!Next
  <1>2. ASSUME NEW p \in Peer, NEW s \in Sid, SessionEnvelope(p, s)
        PROVE  UNCHANGED Service!vars
    <2>1. pc[p] = "idle" /\ UNCHANGED <<lease, clock, pc, env, stamp>>
      BY <1>2 DEF SessionEnvelope
    <2> QED
      BY <2>1, InvisibleThreadStep DEF IInv
  <1>3. ASSUME NEW p \in Peer, NEW m \in Envelope, Dispatch(p, m)
        PROVE  UNCHANGED Service!vars
    <2>1. /\ pc[p] = "idle" /\ pc'[p] = "checked" /\ UNCHANGED <<lease, clock>>
          /\ \A q \in Peer \ {p} : pc'[q] = pc[q] /\ env'[q] = env[q] /\ stamp'[q] = stamp[q]
      BY <1>3 DEF Dispatch, Goto, IInv, TypeOK
    <2> QED
      BY <2>1, InvisibleThreadStep DEF IInv
  <1>4. ASSUME NEW p \in Peer, ReadClock(p) PROVE [Service!Next]_(Service!vars)
    <2>1. CASE pc'[p] \in {"apply", "authorize"}
      BY <1>4, <2>1, ReadClockStep DEF Service!Next
    <2>2. CASE pc'[p] \notin {"apply", "authorize"}
      <3>1. /\ pc[p] = "checked" /\ UNCHANGED <<lease, clock>>
            /\ \/ pc'[p] = "idle"
               \/ pc'[p] = "emit" /\ env'[p].op = "other"
            /\ \A q \in Peer \ {p} : pc'[q] = pc[q] /\ env'[q] = env[q] /\ stamp'[q] = stamp[q]
        BY <1>4, <2>2 DEF ReadClock, Goto, Finish, IInv, TypeOK
      <3>2. UNCHANGED Service!vars
        BY <3>1, InvisibleThreadStep DEF IInv
      <3> QED
        BY <3>2
    <2> QED
      BY <2>1, <2>2
  <1>5. ASSUME NEW p \in Peer, HandleAuthority(p) PROVE Service!Next
    BY <1>5, HandleAuthorityStep DEF Service!Next
  <1>6. ASSUME NEW p \in Peer, AuthorizeAction(p) PROVE Service!Next
    BY <1>6, AuthorizeActionStep DEF Service!Next
  <1>7. ASSUME NEW p \in Peer, EmitEnvelope(p) PROVE [Service!Next]_(Service!vars)
    <2>1. CASE env[p].op = "action"
      BY <1>7, <2>1, EmitEnvelopeStep DEF Service!Next
    <2>2. CASE env[p].op # "action"
      <3>1. /\ pc[p] = "emit" /\ pc'[p] = "idle" /\ UNCHANGED <<lease, clock>>
            /\ \A q \in Peer \ {p} : pc'[q] = pc[q] /\ env'[q] = env[q] /\ stamp'[q] = stamp[q]
        BY <1>7 DEF EmitEnvelope, Finish, IInv, TypeOK
      <3>2. UNCHANGED Service!vars
        BY <2>2, <3>1, InvisibleThreadStep DEF IInv
      <3> QED
        BY <3>2
    <2> QED
      BY <2>1, <2>2
  <1>8. ASSUME NEW p \in Peer, ReceiveLoopExit(p) PROVE UNCHANGED Service!vars
    <2>1. /\ pc[p] = "idle" /\ pc'[p] = "exit" /\ UNCHANGED <<lease, clock>>
          /\ \A q \in Peer \ {p} : pc'[q] = pc[q] /\ env'[q] = env[q] /\ stamp'[q] = stamp[q]
      BY <1>8 DEF ReceiveLoopExit, Goto, IInv, TypeOK
    <2> QED
      BY <2>1, InvisibleThreadStep DEF IInv
  <1>9. ASSUME NEW p \in Peer, DropPeerState(p) PROVE Service!Next
    BY <1>9, DropPeerStateStep DEF Service!Next
  <1>10. ASSUME NEW p \in Peer, NEW s \in Sid, NEW E \in SUBSET Entity, RevokeAuthority(p, s, E)
         PROVE  Service!Next
    <2> DEFINE K == {k \in Key : (E = {} \/ k[1] \in E) /\ HeldBy(lease[k], p, s)}
    <2>1. /\ UNCHANGED <<clock, pc, env, stamp>>
          /\ \A k \in Key : lease'[k] = IF k \in K THEN NoLease ELSE lease[k]
      BY <1>10 DEF RevokeAuthority, Erase
    <2>2. K \in SUBSET Key
      OBVIOUS
    <2> HIDE DEF K
    <2>3. Service!Revoke(K)
      BY <2>1, <2>2, EraseStep
    <2> QED
      BY <2>2, <2>3 DEF Service!Next
  <1>11. ASSUME NEW E \in SUBSET Entity, SetEntities(E) PROVE Service!Next
    <2> DEFINE K == {k \in Key : k[1] \notin E}
    <2>1. /\ UNCHANGED <<clock, pc, env, stamp>>
          /\ \A k \in Key : lease'[k] = IF k \in K THEN NoLease ELSE lease[k]
      BY <1>11 DEF SetEntities, Erase
    <2>2. K \in SUBSET Key
      OBVIOUS
    <2> HIDE DEF K
    <2>3. Service!Revoke(K)
      BY <2>1, <2>2, EraseStep
    <2> QED
      BY <2>2, <2>3 DEF Service!Next
  <1>12. ASSUME StopClear PROVE Service!Next
    <2>1. /\ UNCHANGED <<clock, pc, env, stamp>>
          /\ \A k \in Key : lease'[k] = IF k \in Key THEN NoLease ELSE lease[k]
      BY <1>12 DEF StopClear
    <2>2. Service!Revoke(Key)
      BY <2>1, EraseStep
    <2> QED
      BY <2>2 DEF Service!Next
  <1>13. ASSUME Tick PROVE Service!Next
    BY <1>13, TickStep DEF Service!Next
  <1>14. ASSUME UNCHANGED <<lease, clock, pc, env, stamp>> PROVE UNCHANGED Service!vars
    <2>1. ASSUME NEW q \in Peer
          PROVE  /\ Requested(q)' = Requested(q)
                 /\ Alive(q)' <=> Alive(q)
                 /\ (pc'[q] = "emit" /\ env'[q].op = "action")
                       <=> (pc[q] = "emit" /\ env[q].op = "action")
      BY <1>14 DEF Requested, AsRequest, Alive
    <2> QED
      BY <1>14, <2>1, Invisible
  <1>15. CASE StopBegin \/ StopReturn \/ UNCHANGED vars
    <2>1. UNCHANGED <<lease, clock, pc, env, stamp>>
      BY <1>15 DEF StopBegin, StopReturn, vars
    <2>2. UNCHANGED Service!vars
      BY <2>1, <1>14
    <2> QED
      BY <2>2
  <1> QED
    BY <1>1, <1>2, <1>3, <1>4, <1>5, <1>6, <1>7, <1>8, <1>9, <1>10, <1>11, <1>12,
       <1>13, <1>15 DEF Next, ThreadStep

\* The runtime implements the lease service: for any number of peers, sessions
\* and keys and any interleaving of the receive threads, the application and the
\* clock, a key has one holder, requests are served in one step each, and a lease
\* is over when its time is.
THEOREM ImplementsLeaseServiceThm == Spec => ImplementsLeaseService
  <1>1. Init => Service!Init
    <2> SUFFICES ASSUME Init PROVE Service!Init
      OBVIOUS
    <2>1. \A k \in Key : InForce(k) = NoLease
      BY DEF Init, InForce
    <2>2. \A p \in Peer : Requested(p) = {} /\ ~Alive(p) /\ pc[p] # "emit"
      BY DEF Init, Requested, Alive
    <2>3. clock = 0
      BY DEF Init
    <2> QED
      BY <2>1, <2>2, <2>3 DEF Service!Init
  <1>2. IInv /\ [Next]_vars => [Service!Next]_(Service!vars)
    BY ServiceStep
  <1> QED
    BY <1>1, <1>2, SpecIInv, PTL DEF Spec, ImplementsLeaseService, Service!Spec
=============================================================================
