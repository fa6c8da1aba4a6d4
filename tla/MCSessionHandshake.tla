------------------------- MODULE MCSessionHandshake -------------------------
(* Small instances of SessionHandshake for TLC. *)
EXTENDS SessionHandshake

Descriptor(id, major, minor, digest) ==
    [profile_id |-> id, major |-> major, minor |-> minor, schema_digest |-> digest]

\* Lists that agree, differ in the minor version, in the digest or in the major
\* version of one profile, name the profiles in another order, or lack one.
MCProfileList ==
    {<<>>,
     <<Descriptor("sunray", 1, 0, "a"), Descriptor("media", 1, 1, "c")>>,
     <<Descriptor("media", 1, 1, "d"), Descriptor("sunray", 1, 1, "b")>>,
     <<Descriptor("sunray", 2, 0, "a"), Descriptor("media", 1, 0, "c")>>}
=============================================================================
