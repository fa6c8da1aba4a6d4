--------------------------- MODULE MCFrameBuffer ---------------------------
(* Small instances of FrameBuffer for TLC: streams put together from pieces. *)
EXTENDS FrameBuffer, SequencesExt

CONSTANT MaxPieces

\* A piece is `len` bytes with the heads `inner` at offsets into it.
Piece(len, inner) == [len |-> len, inner |-> inner]

At(offset, h) == [o \in {offset} |-> h]

H(len, header_ok, qos, decodes, sent) ==
    [len |-> len, header_ok |-> header_ok, qos |-> qos, decodes |-> decodes, sent |-> sent]

Frame(len, qos) == Piece(len, At(0, H(len, TRUE, qos, TRUE, TRUE)))

\* A small and a large frame of a reliable class and of a lossy one; one that is
\* longer than the buffer; frames with a wrong checksum, with a bad header, with
\* an unknown QoS class; an intact and a damaged frame that carry an encoded frame
\* in their payload; bytes that are no frame, and such bytes with the magic in them.
Pieces ==
    {Frame(4, "reliable_ordered"), Frame(7, "reliable_latest"), Frame(7, "best_effort"),
     Frame(9, "bulk"),
     Piece(4, At(0, H(4, FALSE, "reliable_ordered", FALSE, TRUE))),
     Piece(8, At(0, H(8, TRUE, "invalid", FALSE, TRUE))),
     Piece(1, <<>>),
     Piece(3, At(1, H(8, TRUE, "invalid", FALSE, FALSE)))}
    \cup {Piece(6, At(0, H(6, TRUE, "reliable_ordered", intact, TRUE))
                   @@ At(2, H(4, TRUE, "reliable_ordered", TRUE, FALSE))) :
             intact \in BOOLEAN}

Place(s, piece) ==
    [size |-> s.size + piece.len,
     head |-> s.head @@ [p \in {s.size + o : o \in DOMAIN piece.inner} |->
                            piece.inner[p - s.size]]]

MCStream ==
    {FoldLeft(Place, [size |-> 0, head |-> <<>>], pieces) :
        pieces \in UNION {[1 .. n -> Pieces] : n \in 1 .. MaxPieces}}
=============================================================================
