---------------------------- MODULE BoundedFifo ----------------------------
(***************************************************************************)
(* What SPSCQueue promises its two threads: a lossy bounded FIFO.  The      *)
(* producer offers an item, which is either appended or refused; the        *)
(* consumer receives appended items in order, each one once.  A refusal     *)
(* needs no full queue: the producer may work with an old view of the       *)
(* consumer's progress.                                                     *)
(***************************************************************************)
EXTENDS Naturals, Sequences

CONSTANTS Item, None, CAP

VARIABLES
    q,      \* the items appended and not yet delivered
    in,     \* the item the producer is offering, or None
    out     \* the item delivered last, or None

vars == <<q, in, out>>

Init == q = <<>> /\ in = None /\ out = None

Offer(x) == in = None /\ in' = x /\ UNCHANGED <<q, out>>

Enqueue ==
    /\ in # None
    /\ Len(q) < CAP
    /\ q' = Append(q, in)
    /\ in' = None
    /\ UNCHANGED out

Refuse == in # None /\ in' = None /\ UNCHANGED <<q, out>>

Dequeue ==
    /\ q # <<>>
    /\ out' = Head(q)
    /\ q' = Tail(q)
    /\ UNCHANGED in

Next == (\E x \in Item : Offer(x)) \/ Enqueue \/ Refuse \/ Dequeue

Spec == Init /\ [][Next]_vars
=============================================================================
