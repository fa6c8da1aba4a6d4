-------------------------- MODULE OutboundChannel --------------------------
(***************************************************************************)
(* What the sending end of a connection promises those who publish on it.  *)
(* Frames wait in one place, whatever their class. An accepted frame is    *)
(* numbered, takes the place of the older value of its key if it is of a   *)
(* class that keeps the latest value only, and is dropped only if its      *)
(* class is lossy. The frame that is sent next is of the most urgent class *)
(* that waits, and the oldest of its class and key. A frame of which a     *)
(* part is sent is not dropped: it is completed or the channel is closed.  *)
(***************************************************************************)
EXTENDS Integers, Sequences

CONSTANTS
    Latest,     \* the class that keeps the latest value of each key
    Lossy       \* the classes whose frames may be dropped

VARIABLES
    issued,     \* the serial number of the last frame accepted
    waiting,    \* the frames that wait; a smaller qos is more urgent
    current,    \* the frame being sent, as a sequence of length 0 or 1
    begun,      \* a part of it has been sent, and not all
    sent,       \* the frames sent, in the order of sending
    open

vars == <<issued, waiting, current, begun, sent, open>>

Init ==
    /\ issued = 0
    /\ waiting = {}
    /\ current = <<>>
    /\ begun = FALSE
    /\ sent = <<>>
    /\ open = TRUE

\* f was accepted before g and must not be overtaken by it.
Older(f, g) == f.qos = g.qos /\ f.key = g.key /\ f.serial < g.serial

\* What may be dropped to make room: lossy frames, of the least urgent class
\* first and in a class the oldest first.
Evictable(D) ==
    /\ \A g \in D : g \in waiting /\ g.qos \in Lossy
    /\ \A g \in D, h \in waiting \ D :
          h.qos \in Lossy => h.qos <= g.qos /\ ~Older(h, g)

\* The values that f takes the place of.
Superseded(f) == {g \in waiting : f.qos = Latest /\ g.qos = Latest /\ g.key = f.key}

Accept ==
    /\ open
    /\ issued' = issued + 1
    /\ \E f \in waiting' :
          /\ f.serial = issued + 1
          /\ \E D \in SUBSET waiting :
                Evictable(D) /\ waiting' = (waiting \ (D \cup Superseded(f))) \cup {f}
    /\ UNCHANGED <<current, begun, sent, open>>

\* A frame for which there is no room is refused; what was dropped for it is lost.
Refuse ==
    /\ open
    /\ \E D \in SUBSET waiting : Evictable(D) /\ waiting' = waiting \ D
    /\ UNCHANGED <<issued, current, begun, sent, open>>

Take ==
    /\ open /\ current = <<>>
    /\ \E f \in waiting :
          /\ \A g \in waiting : f.qos <= g.qos /\ ~Older(g, f)
          /\ current' = <<f>>
          /\ waiting' = waiting \ {f}
    /\ UNCHANGED <<issued, begun, sent, open>>

Begin ==
    /\ open /\ current # <<>> /\ ~begun
    /\ begun' = TRUE
    /\ UNCHANGED <<issued, waiting, current, sent, open>>

Complete ==
    /\ open /\ current # <<>>
    /\ sent' = Append(sent, current[1])
    /\ current' = <<>> /\ begun' = FALSE
    /\ UNCHANGED <<issued, waiting, open>>

\* A lossy frame that cannot be sent is given up before its first byte.
GiveUp ==
    /\ open /\ current # <<>> /\ ~begun
    /\ current[1].qos \in Lossy
    /\ current' = <<>>
    /\ UNCHANGED <<issued, waiting, begun, sent, open>>

Close ==
    /\ open /\ open' = FALSE
    /\ UNCHANGED <<issued, waiting, current, begun, sent>>

Next == Accept \/ Refuse \/ Take \/ Begin \/ Complete \/ GiveUp \/ Close

Spec == Init /\ [][Next]_vars
=============================================================================
