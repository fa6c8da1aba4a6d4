--------------------------- MODULE OrderedChannel ---------------------------
(***************************************************************************)
(* What the receiving end of a connection promises the sessions above it.  *)
(* The sender wrote frames at the positions DOMAIN sent of one stream. The *)
(* receiver consumes the stream from left to right and hands envelopes up. *)
(* As long as it is in step with the sender it skips only damaged frames   *)
(* and frames whose QoS class may be dropped; any other frame is delivered *)
(* or the connection is closed. It gets out of step only at a frame whose  *)
(* length it cannot use, or at bytes that are no frame, and then nothing   *)
(* is promised until it stands at the start of a frame again.              *)
(***************************************************************************)
EXTENDS Integers, Sequences

VARIABLES
    sent,   \* position -> [after, intact, may_drop, framed]
    upto,   \* everything before this position is consumed
    got,    \* positions of the delivered frames, in the order of delivery
    open

vars == <<sent, upto, got, open>>

Init ==
    /\ upto = 0
    /\ got = <<>>
    /\ open = TRUE

InStep == upto \in DOMAIN sent

Deliver ==
    /\ InStep
    /\ sent[upto].framed /\ sent[upto].intact
    /\ got' = Append(got, upto)
    /\ upto' = sent[upto].after

Lose ==
    /\ InStep
    /\ sent[upto].framed
    /\ ~sent[upto].intact \/ sent[upto].may_drop
    /\ got' = got
    /\ upto' = sent[upto].after

FallOutOfStep ==
    /\ InStep
    /\ ~sent[upto].framed
    /\ got' = got
    /\ upto' > upto

\* Out of step the receiver searches; it may come across bytes that look like a
\* frame, and it may stop at a frame and deliver it in the same step.
Search ==
    /\ ~InStep
    /\ upto' > upto
    /\ \/ got' = got
       \/ \E p \in upto .. upto' - 1 : got' = Append(got, p)

Close ==
    /\ open' = FALSE
    /\ UNCHANGED <<upto, got>>

Next ==
    /\ open
    /\ sent' = sent
    /\ Close \/ (open' = open /\ (Deliver \/ Lose \/ FallOutOfStep \/ Search))

Spec == Init /\ [][Next]_vars
=============================================================================
