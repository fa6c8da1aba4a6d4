----------------------------- MODULE Authority -----------------------------
(***************************************************************************)
(* The authority leases of one yunlink v2 runtime and the threads that     *)
(* touch them: one receive thread per connected peer, which handles one    *)
(* envelope at a time in several critical sections of Impl::mutex, the     *)
(* application's threads, which call set_entities, revoke_authority and    *)
(* stop, and the steady clock.                                             *)
(*                                                                         *)
(* A peer id stands for one accepted connection.  A session is in the      *)
(* session table or not, and Active or not: how it gets there is the       *)
(* subject of SessionHandshake.  Requests arrive on control connections;   *)
(* the lossy lane is not part of this module.                              *)
(***************************************************************************)
EXTENDS Integers

CONSTANTS
    Peer,       \* connections, by the peer id the accept thread gives them
    Sid,        \* session ids chosen by the peers
    Entity,     \* entity uids the runtime may own
    Scope,      \* authority scopes
    Ttl,        \* the values of lease_ttl_ms peers ask for
    MaxLease,   \* kMaximumAuthorityLeaseMs
    MaxClock,   \* bound on the steady clock
    NoLease,    \* "no entry in authority_leases"
    NoEnv       \* "no envelope being handled"

Key      == Entity \X Scope
Session  == Peer \X Sid
Lease    == [peer_id : Peer, session_id : Sid, expires_at : Nat]

\* A non-session envelope. uids = {} stands for a target that is not of
\* entity scope and selects this endpoint. lease_ttl_ms and allow_preempt
\* are fixed where the operation does not read them.
AuthorityOps == {"claim", "renew", "release"}
Envelope ==
    {m \in [op : AuthorityOps \cup {"action", "other"}, session_id : Sid,
            uids : SUBSET Entity, scope : Scope, ttl : Ttl, preempt : BOOLEAN] :
        /\ m.preempt => m.op = "claim"
        /\ m.op \notin AuthorityOps => m.ttl = 0}

ASSUME BoundsAssumption == /\ MaxLease \in Nat /\ MaxClock \in Nat
                           /\ Ttl \subseteq Nat /\ 0 \in Ttl
ASSUME SentinelAssumption == NoLease \notin Lease /\ NoEnv \notin Envelope

VARIABLES
    clock,      \* runtime_steady_now()
    phase,      \* where stop() is: "running", "stopping", "cleared", "stopped"
    entities,   \* Impl::config.entities
    sessions,   \* Impl::sessions: "none", "inactive" or "active"
    lease,      \* Impl::authority_leases
    pc,         \* where each receive thread is
    env,        \* the envelope each receive thread is handling
    stamp       \* the local `now` of the handler

vars == <<clock, phase, entities, sessions, lease, pc, env, stamp>>

Handling == {"checked", "apply", "authorize", "emit"}
TypeOK ==
    /\ clock \in 0..MaxClock
    /\ phase \in {"running", "stopping", "cleared", "stopped"}
    /\ entities \in SUBSET Entity
    /\ sessions \in [Session -> {"none", "inactive", "active"}]
    /\ lease \in [Key -> Lease \cup {NoLease}]
    /\ pc \in [Peer -> Handling \cup {"none", "idle", "exit", "done"}]
    /\ env \in [Peer -> Envelope \cup {NoEnv}]
    /\ stamp \in [Peer -> Nat]

Init ==
    /\ clock = 0
    /\ phase = "running"
    /\ entities \in SUBSET Entity
    /\ sessions = [s \in Session |-> "none"]
    /\ lease = [k \in Key |-> NoLease]
    /\ pc = [p \in Peer |-> "none"]
    /\ env = [p \in Peer |-> NoEnv]
    /\ stamp = [p \in Peer |-> 0]

----------------------------------------------------------------------------
(* The lease table *)

HeldBy(l, p, s) == l # NoLease /\ l.peer_id = p /\ l.session_id = s

\* The lease of k as a handler that read the clock at `now` sees it: an
\* expired entry is erased before the request is looked at.
Current(k, now) == IF lease[k] # NoLease /\ lease[k].expires_at <= now
                   THEN NoLease ELSE lease[k]

\* Runtime::has_authority
HasAuthority(p, s, k) == HeldBy(lease[k], p, s) /\ lease[k].expires_at > clock

Erase(K) == [k \in Key |-> IF k \in K THEN NoLease ELSE lease[k]]

LeasesOf(p) == {k \in Key : lease[k] # NoLease /\ lease[k].peer_id = p}

----------------------------------------------------------------------------
(* The receive thread of one peer *)

\* The thread goes on to the next envelope.
Finish(p) ==
    /\ pc' = [pc EXCEPT ![p] = "idle"]
    /\ env' = [env EXCEPT ![p] = NoEnv]
    /\ stamp' = [stamp EXCEPT ![p] = 0]

Goto(p, label) == pc' = [pc EXCEPT ![p] = label]

\* The accept thread registers a connection and starts its threads; stop()
\* joins the accept thread before it clears the tables.
Accept(p) ==
    /\ phase = "running"
    /\ pc[p] = "none"
    /\ Goto(p, "idle")
    /\ UNCHANGED <<clock, phase, entities, sessions, lease, env, stamp>>

\* One session envelope: the entry is created if it is missing, and is left
\* Active or not.
SessionEnvelope(p, s) ==
    /\ pc[p] = "idle"
    /\ \E state \in {"inactive", "active"} :
          sessions' = [sessions EXCEPT ![<<p, s>>] = state]
    /\ UNCHANGED <<clock, phase, entities, lease, pc, env, stamp>>

\* The session and target check, the first critical section of
\* runtime_handle_envelope. An envelope that fails it, or whose type the
\* session has not negotiated, raises an error event and changes nothing.
DispatchUnchecked(p, m) ==       \* mutant: the session is not looked up
    /\ pc[p] = "idle"
    /\ m.uids = {} \/ m.uids \cap entities # {}
    /\ Goto(p, "checked")
    /\ env' = [env EXCEPT ![p] = m]
    /\ UNCHANGED <<clock, phase, entities, sessions, lease, stamp>>

Dispatch(p, m) ==
    /\ pc[p] = "idle"
    /\ sessions[<<p, m.session_id>>] = "active"
    /\ m.uids = {} \/ m.uids \cap entities # {}
    /\ Goto(p, "checked")
    /\ env' = [env EXCEPT ![p] = m]
    /\ UNCHANGED <<clock, phase, entities, sessions, lease, stamp>>

SingleEntity(m) == \E e \in Entity : m.uids = {e}

ValidRequest(m) == SingleEntity(m) /\ m.ttl # 0 /\ m.ttl <= MaxLease

\* Between the check and the second critical section: the request is
\* validated and the clock is read, without the mutex.
ReadClock(p) ==
    /\ pc[p] = "checked"
    /\ \/ /\ env[p].op \in AuthorityOps /\ ValidRequest(env[p])
          /\ Goto(p, "apply")
          /\ stamp' = [stamp EXCEPT ![p] = clock]
          /\ UNCHANGED env
       \/ /\ env[p].op \in AuthorityOps /\ ~ValidRequest(env[p])
          /\ Finish(p)                      \* status "rejected"
       \/ /\ env[p].op = "action" /\ SingleEntity(env[p])
          /\ Goto(p, "authorize")
          /\ stamp' = [stamp EXCEPT ![p] = clock]
          /\ UNCHANGED env
       \/ /\ env[p].op = "action" /\ ~SingleEntity(env[p])
          /\ Finish(p)                      \* kUnauthorized
       \/ /\ env[p].op = "other"
          /\ Goto(p, "emit")
          /\ UNCHANGED <<env, stamp>>
    /\ UNCHANGED <<clock, phase, entities, sessions, lease>>

Granted(p) == [peer_id |-> p, session_id |-> env[p].session_id,
               expires_at |-> stamp[p] + env[p].ttl]

\* The sender of the request p is handling holds the key.
Owner(p, k) == HeldBy(Current(k, stamp[p]), p, env[p].session_id)

\* The entry of k after the request of p: release and renew are for the
\* owner, a claim needs a free key, the owner, or allow_preempt.
AfterRelease(p, k) == IF Owner(p, k) THEN NoLease ELSE Current(k, stamp[p])

AfterRenew(p, k) == IF Owner(p, k)
                    THEN [lease[k] EXCEPT !.expires_at = stamp[p] + env[p].ttl]
                    ELSE Current(k, stamp[p])

AfterClaimAlways(p, k) == Granted(p)     \* mutant: allow_preempt is not asked for

AfterClaim(p, k) == IF Current(k, stamp[p]) = NoLease \/ Owner(p, k) \/ env[p].preempt
                    THEN Granted(p) ELSE Current(k, stamp[p])

AfterRequest(p, k) == IF env[p].op = "release" THEN AfterRelease(p, k)
                      ELSE IF env[p].op = "renew" THEN AfterRenew(p, k)
                      ELSE AfterClaim(p, k)

\* The critical section of runtime_handle_authority; the status reply it
\* ends with goes to the send queue and reads no lease.
HandleAuthority(p) ==
    /\ pc[p] = "apply"
    /\ \E e \in Entity :
          /\ env[p].uids = {e}
          /\ LET k == <<e, env[p].scope>>
             IN  lease' = [lease EXCEPT ![k] = AfterRequest(p, k)]
    /\ Finish(p)
    /\ UNCHANGED <<clock, phase, entities, sessions>>

\* mutant: an entry that has expired still authorises
AuthorizeActionExpired(p) ==
    /\ pc[p] = "authorize"
    /\ \E e \in Entity :
          /\ env[p].uids = {e}
          /\ \/ /\ HeldBy(lease[<<e, env[p].scope>>], p, env[p].session_id)
                /\ Goto(p, "emit")
                /\ UNCHANGED <<env, stamp>>
             \/ /\ ~HeldBy(lease[<<e, env[p].scope>>], p, env[p].session_id)
                /\ Finish(p)
    /\ UNCHANGED <<clock, phase, entities, sessions, lease>>

\* The critical section of runtime_action_authorized.
AuthorizeAction(p) ==
    /\ pc[p] = "authorize"
    /\ \E e \in Entity :
          /\ env[p].uids = {e}
          /\ LET l == lease[<<e, env[p].scope>>]
             IN  \/ /\ HeldBy(l, p, env[p].session_id) /\ l.expires_at > stamp[p]
                    /\ Goto(p, "emit")
                    /\ UNCHANGED <<env, stamp>>
                 \/ /\ ~(HeldBy(l, p, env[p].session_id) /\ l.expires_at > stamp[p])
                    /\ Finish(p)            \* kUnauthorized
    /\ UNCHANGED <<clock, phase, entities, sessions, lease>>

\* runtime_emit: the envelope reaches the application.
EmitEnvelope(p) ==
    /\ pc[p] = "emit"
    /\ Finish(p)
    /\ UNCHANGED <<clock, phase, entities, sessions, lease>>

\* mutant: a stopping runtime does not make the loop end
ReceiveLoopExitRunning(p) ==
    /\ pc[p] = "idle" /\ phase = "running"
    /\ Goto(p, "exit")
    /\ UNCHANGED <<clock, phase, entities, sessions, lease, env, stamp>>

\* The receive loop ends: end of stream, a closed or failed socket, an
\* overflow, or a runtime that is no longer running.
ReceiveLoopExit(p) ==
    /\ pc[p] = "idle"
    /\ Goto(p, "exit")
    /\ UNCHANGED <<clock, phase, entities, sessions, lease, env, stamp>>

\* mutant: the sessions are dropped and the leases are not
DropSessionsOnly(p) ==
    /\ pc[p] = "exit"
    /\ sessions' = [s \in Session |-> IF s[1] = p THEN "none" ELSE sessions[s]]
    /\ Goto(p, "done")
    /\ UNCHANGED <<clock, phase, entities, lease, env, stamp>>

\* runtime_drop_peer_state for a control connection.
DropPeerState(p) ==
    /\ pc[p] = "exit"
    /\ sessions' = [s \in Session |-> IF s[1] = p THEN "none" ELSE sessions[s]]
    /\ lease' = Erase(LeasesOf(p))
    /\ Goto(p, "done")
    /\ UNCHANGED <<clock, phase, entities, env, stamp>>

----------------------------------------------------------------------------
(* The application and the clock *)

SetEntities(E) ==
    /\ entities' = E
    /\ lease' = Erase({k \in Key : k[1] \notin E})
    /\ UNCHANGED <<clock, phase, sessions, pc, env, stamp>>

\* An empty list of entities stands for all of them.
RevokeAuthority(p, s, E) ==
    /\ lease' = Erase({k \in Key : (E = {} \/ k[1] \in E) /\ HeldBy(lease[k], p, s)})
    /\ UNCHANGED <<clock, phase, entities, sessions, pc, env, stamp>>

\* stop(): running becomes false and the accept thread is joined ...
StopBegin ==
    /\ phase = "running"
    /\ phase' = "stopping"
    /\ UNCHANGED <<clock, entities, sessions, lease, pc, env, stamp>>

\* ... the tables are cleared in one critical section ...
StopClear ==
    /\ phase = "stopping"
    /\ phase' = "cleared"
    /\ sessions' = [s \in Session |-> "none"]
    /\ lease' = [k \in Key |-> NoLease]
    /\ UNCHANGED <<clock, entities, pc, env, stamp>>

\* mutant: stop() returns without the join
StopReturnUnjoined ==
    /\ phase = "cleared"
    /\ phase' = "stopped"
    /\ UNCHANGED <<clock, entities, sessions, lease, pc, env, stamp>>

\* ... and every connection is closed and its threads joined.
StopReturn ==
    /\ phase = "cleared"
    /\ \A p \in Peer : pc[p] \in {"none", "done"}
    /\ phase' = "stopped"
    /\ UNCHANGED <<clock, entities, sessions, lease, pc, env, stamp>>

Tick ==
    /\ clock < MaxClock
    /\ clock' = clock + 1
    /\ UNCHANGED <<phase, entities, sessions, lease, pc, env, stamp>>

ThreadStep(p) ==
    \/ ReadClock(p) \/ HandleAuthority(p) \/ AuthorizeAction(p)
    \/ EmitEnvelope(p) \/ DropPeerState(p)

Next ==
    \/ \E p \in Peer :
          \/ Accept(p)
          \/ \E s \in Sid : SessionEnvelope(p, s)
          \/ \E m \in Envelope : Dispatch(p, m)
          \/ ThreadStep(p)
          \/ ReceiveLoopExit(p)
          \/ \E s \in Sid, E \in SUBSET Entity : RevokeAuthority(p, s, E)
    \/ \E E \in SUBSET Entity : SetEntities(E)
    \/ StopBegin \/ StopClear \/ StopReturn
    \/ Tick

\* A running thread goes on. A receive thread of a runtime that is being
\* stopped reads nothing more from its socket, so it gets through what is
\* buffered and leaves its loop. stop(), once called, goes on.
Fairness ==
    /\ \A p \in Peer : WF_vars(ThreadStep(p))
    /\ \A p \in Peer : SF_vars(phase # "running" /\ ReceiveLoopExit(p))
    /\ WF_vars(StopClear) /\ WF_vars(StopReturn)

Spec == Init /\ [][Next]_vars
FairSpec == Spec /\ Fairness

----------------------------------------------------------------------------
(* What the runtime promises about leases *)

Alive(p) == pc[p] \notin {"none", "done"}

\* Every lease is held by a peer whose receive thread has still to drop the
\* peer's state (session.cpp, runtime_drop_peer_state). A claim applied after
\* stop() has cleared the table, or while the peer is disconnecting, would
\* otherwise leave a lease that nobody can renew or release.
LeaseHolderAlive == \A k \in Key : lease[k] # NoLease => Alive(lease[k].peer_id)

\* While the tables have not been cleared by stop(), a lease belongs to a
\* session that is in the session table: the check of the session and the
\* grant of the lease are two critical sections, and the drop of the session
\* cannot fall between them.
LeaseHasSession ==
    phase \in {"running", "stopping"} =>
        \A k \in Key : lease[k] # NoLease =>
            sessions[<<lease[k].peer_id, lease[k].session_id>>] # "none"

\* A silent holder blocks a key for at most kMaximumAuthorityLeaseMs from now
\* on, whatever was asked for and however late the request was applied.
LeaseBounded == \A k \in Key : lease[k] # NoLease =>
                                  lease[k].expires_at <= clock + MaxLease

\* When stop() has returned, no session and no lease is left, although receive
\* threads may have handled envelopes after the tables were cleared.
StoppedClean ==
    phase = "stopped" => /\ \A s \in Session : sessions[s] = "none"
                         /\ \A k \in Key : lease[k] = NoLease

\* The session that holds an unexpired lease on k loses it in this step.
Loses(k) ==
    /\ HasAuthority(lease[k].peer_id, lease[k].session_id, k)
    /\ ~HeldBy(lease'[k], lease[k].peer_id, lease[k].session_id)

\* p's request for k, of the given operation, is the one applied in this step.
Applies(p, op, k) == /\ pc[p] = "apply" /\ pc'[p] = "idle"
                     /\ env[p].op = op /\ env[p].uids = {k[1]} /\ env[p].scope = k[2]

LossCause(k) ==
    LET p == lease[k].peer_id
        s == lease[k].session_id
    IN  \/ Applies(p, "release", k) /\ env[p].session_id = s
        \/ \E q \in Peer : Applies(q, "claim", k) /\ env[q].preempt
        \/ \E E \in SUBSET Entity : RevokeAuthority(p, s, E)
        \/ k[1] \notin entities'
        \/ pc[p] = "exit" /\ pc'[p] = "done"
        \/ phase = "stopping" /\ phase' = "cleared"

\* An unexpired lease is lost only by the holder's own release, a claim that
\* preempts, a revocation, the removal of the entity, the end of the holder's
\* connection, or stop(). In particular the clock read before the mutex is
\* taken never makes runtime_handle_authority erase a lease that is still valid.
LeaseLossCauses == [][\A k \in Key : Loses(k) => LossCause(k)]_vars

\* The service the peers see: the leases in force, and of the threads only the
\* requests that have been validated and not yet applied, and the authorised
\* actions that have not yet reached the application.
InForce(k) == IF lease[k] # NoLease /\ lease[k].expires_at > clock THEN lease[k] ELSE NoLease

AsRequest(p) == [op |-> env[p].op, session |-> env[p].session_id,
                 key |-> <<CHOOSE e \in Entity : env[p].uids = {e}, env[p].scope>>,
                 ttl |-> env[p].ttl, preempt |-> env[p].preempt, at |-> stamp[p]]

Requested(p) == IF pc[p] \in {"apply", "authorize"} THEN {AsRequest(p)} ELSE {}

Service == INSTANCE LeaseService WITH
    Free <- NoLease, now <- clock,
    held <- [k \in Key |-> InForce(k)],
    pending <- [p \in Peer |-> Requested(p)],
    acting <- {p \in Peer : pc[p] = "emit" /\ env[p].op = "action"},
    connected <- {p \in Peer : Alive(p)}

\* The handlers of all the receive threads, which read the clock in one step
\* and the table in another, the erasure of expired entries by whoever comes
\* across them, revocation, disconnection and stop() implement a lease table
\* that serves each request in one step and in which a key has one holder.
ImplementsLeaseService == Service!Spec

\* A receive thread whose connection ends, or whose runtime stops, gets to the
\* end of runtime_drop_peer_state and leaves no lease: an envelope it was
\* handling, which may claim again after stop() has cleared the table, is the
\* last one.
DisconnectFreesLeases ==
    \A p \in Peer :
        pc[p] = "exit" \/ phase = "stopping" ~> ~Alive(p) /\ LeasesOf(p) = {}

=============================================================================
