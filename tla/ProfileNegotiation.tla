------------------------- MODULE ProfileNegotiation -------------------------
(***************************************************************************)
(* Profile negotiation, as each end of a session computes it from its own  *)
(* profile list and the one the other end sent (session.cpp), and the      *)
(* version check that uses the result (runtime_common.cpp).                *)
(***************************************************************************)
EXTENDS Integers, Sequences, SequencesExt

ProfileDescriptor ==
    [profile_id : STRING, major : Nat, minor : Nat, schema_digest : STRING]

\* negotiate_profile fails on another id or major version, and on an equal
\* minor version with another digest.
Compatible(local, remote) ==
    /\ local.profile_id = remote.profile_id /\ local.major = remote.major
    /\ local.minor = remote.minor => local.schema_digest = remote.schema_digest

negotiate_local(local, remote) == local     \* mutant: each end keeps its own version

\* The descriptor of the lower minor version.
negotiate_profile(local, remote) ==
    IF local.minor <= remote.minor THEN local ELSE remote

\* Position of the first local profile with this id, 0 if there is none.
FirstLocal(locals, id) == SelectInSeq(locals, LAMBDA d : d.profile_id = id)

Accepts(locals, remote) ==
    /\ FirstLocal(locals, remote.profile_id) # 0
    /\ Compatible(locals[FirstLocal(locals, remote.profile_id)], remote)

AcceptedAt(locals, remotes) == {i \in 1..Len(remotes) : Accepts(locals, remotes[i])}

\* The map negotiated_profiles: the last accepted entry of an id is kept.
Negotiated(locals, remotes) ==
    LET at == AcceptedAt(locals, remotes)
    IN  [id \in {remotes[i].profile_id : i \in at} |->
            LET last == CHOOSE i \in at :
                           /\ remotes[i].profile_id = id
                           /\ \A j \in at : remotes[j].profile_id = id => j <= i
            IN  negotiate_profile(locals[FirstLocal(locals, id)], remotes[last])]

\* SessionInfo::supports_profile
supports_profile(negotiated, id, major, minimum_minor) ==
    /\ id \in DOMAIN negotiated
    /\ negotiated[id].major = major /\ negotiated[id].minor >= minimum_minor
=============================================================================
