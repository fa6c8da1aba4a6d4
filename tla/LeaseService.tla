---------------------------- MODULE LeaseService ----------------------------
(***************************************************************************)
(* What the lease table of a runtime promises the sessions that use it. At *)
(* any time a key has at most one holder, and a lease is over when its     *)
(* time is: there is no expired entry, no thread and no lock. A peer has   *)
(* one request under way, which carries the time at which it came in, and  *)
(* is served in one step.                                                  *)
(*                                                                         *)
(* A request served at the time it came in is decided by who holds the key *)
(* then. One served late is decided the same way, with two exceptions: of  *)
(* a key that nobody holds any more it may still be treated as if the last *)
(* lease had not run out, so that a claim is refused, or a renewal or an   *)
(* action is accepted. The time a lease lasts is counted from the moment   *)
(* the request came in.                                                    *)
(***************************************************************************)
EXTENDS Integers

CONSTANTS Peer, Sid, Key, MaxLease, Free

VARIABLES
    now,
    held,       \* key -> the lease that is in force, or Free
    pending,    \* peer -> the set of its requests under way, at most one
    acting,     \* peers with an authorised action under way
    connected   \* peers

vars == <<now, held, pending, acting, connected>>

Request == {r \in [op : {"claim", "renew", "release", "action"}, session : Sid, key : Key,
                   ttl : 0..MaxLease, preempt : BOOLEAN, at : {now}] :
               r.op # "action" => r.ttl > 0}

Init ==
    /\ now = 0
    /\ held = [k \in Key |-> Free]
    /\ pending = [p \in Peer |-> {}]
    /\ acting = {}
    /\ connected = {}

----------------------------------------------------------------------------
(* The state of a key, as a request r of peer p finds it *)

Holds(p, r) == /\ held[r.key] # Free
               /\ held[r.key].peer_id = p /\ held[r.key].session_id = r.session

\* The last lease of the key may have been in force when r came in.
MayHaveLapsed(r) == held[r.key] = Free /\ r.at < now

\* The lease r asks for, if there is anything left of it.
Lease(p, r) == IF r.at + r.ttl > now
               THEN [peer_id |-> p, session_id |-> r.session, expires_at |-> r.at + r.ttl]
               ELSE Free

\* What a claim, a renewal and a release may leave of the key.
AfterClaim(p, r) ==
    {l \in {Lease(p, r)} : held[r.key] = Free \/ Holds(p, r) \/ r.preempt}
    \cup {l \in {held[r.key]} :
             ~r.preempt /\ ~Holds(p, r) /\ (held[r.key] # Free \/ MayHaveLapsed(r))}

AfterRenew(p, r) == IF Holds(p, r) THEN {Lease(p, r)}
                    ELSE {held[r.key]} \cup {l \in {Lease(p, r)} : MayHaveLapsed(r)}

AfterRelease(p, r) == {IF Holds(p, r) THEN Free ELSE held[r.key]}

After(p, r) == IF r.op = "claim" THEN AfterClaim(p, r)
               ELSE IF r.op = "renew" THEN AfterRenew(p, r)
               ELSE AfterRelease(p, r)

----------------------------------------------------------------------------
(* Steps *)

Connect(p) ==
    /\ p \notin connected
    /\ connected' = connected \cup {p}
    /\ UNCHANGED <<now, held, pending, acting>>

Ask(p) ==
    /\ p \in connected /\ p \notin acting /\ pending[p] = {}
    /\ \E r \in pending'[p] : /\ r \in Request
                              /\ pending' = [pending EXCEPT ![p] = {r}]
    /\ UNCHANGED <<now, held, acting, connected>>

Answered(p) == pending' = [pending EXCEPT ![p] = {}]

Serve(p) ==
    /\ \E r \in pending[p] :
          /\ r.op # "action"
          /\ \E l \in After(p, r) : held' = [held EXCEPT ![r.key] = l]
    /\ Answered(p)
    /\ UNCHANGED <<now, acting, connected>>

Permit(p) ==
    /\ \E r \in pending[p] : r.op = "action" /\ (Holds(p, r) \/ MayHaveLapsed(r))
    /\ acting' = acting \cup {p}
    /\ Answered(p)
    /\ UNCHANGED <<now, held, connected>>

Deny(p) ==
    /\ \E r \in pending[p] : r.op = "action" /\ ~Holds(p, r)
    /\ Answered(p)
    /\ UNCHANGED <<now, held, acting, connected>>

Act(p) ==
    /\ p \in acting
    /\ acting' = acting \ {p}
    /\ UNCHANGED <<now, held, pending, connected>>

\* A peer leaves between two requests, and nothing it held is left.
Leave(p) ==
    /\ p \in connected /\ p \notin acting /\ pending[p] = {}
    /\ connected' = connected \ {p}
    /\ held' = [k \in Key |-> IF held[k] # Free /\ held[k].peer_id = p
                              THEN Free ELSE held[k]]
    /\ UNCHANGED <<now, pending, acting>>

\* The owner of the runtime takes leases back.
Revoke(K) ==
    /\ held' = [k \in Key |-> IF k \in K THEN Free ELSE held[k]]
    /\ UNCHANGED <<now, pending, acting, connected>>

Tick ==
    /\ now' = now + 1
    /\ held' = [k \in Key |-> IF held[k] # Free /\ held[k].expires_at <= now + 1
                              THEN Free ELSE held[k]]
    /\ UNCHANGED <<pending, acting, connected>>

Next ==
    \/ \E p \in Peer : \/ Connect(p) \/ Ask(p) \/ Serve(p) \/ Permit(p) \/ Deny(p)
                       \/ Act(p) \/ Leave(p)
    \/ \E K \in SUBSET Key : Revoke(K)
    \/ Tick

Spec == Init /\ [][Next]_vars
=============================================================================
