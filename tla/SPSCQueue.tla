----------------------------- MODULE SPSCQueue -----------------------------
(***************************************************************************)
(* The lock-free single-producer single-consumer queue of src/spsc.rs, one  *)
(* action per atomic access.  Counters are u64 and wrap: Wrap stands for    *)
(* 2^64, a multiple of the power of two CAP.  An acquire load may return    *)
(* any value of the other side's counter between the one this side saw last *)
(* and the current one, which is all that release/acquire ordering grants.  *)
(***************************************************************************)
EXTENDS Integers, Sequences

CONSTANTS
    Item,   \* what the queue carries (T in the code)
    None,   \* no item: an uninitialised slot, an idle side
    CAP,    \* slots of the buffer
    Laps    \* how often the counters go round the buffer before they wrap

ASSUME CAPAssumption == CAP \in Nat \ {0}
ASSUME LapsAssumption == Laps \in Nat \ {0, 1}
ASSUME NoneAssumption == None \notin Item

Wrap == Laps * CAP
Counter == 0 .. Wrap - 1

VARIABLES
    buf,    \* the slots
    head,   \* next position to write, stored by the producer only
    tail,   \* next position to read, stored by the consumer only
    ppc,    \* producer: "idle", "load", "write" or "publish"
    item,   \* producer: the argument of the push in progress
    pt,     \* producer: the tail it loaded last
    cpc,    \* consumer: "idle", "read" or "advance"
    ch,     \* consumer: the head it loaded last
    cur,    \* consumer: the item read from the slot
    got     \* consumer: the item pop returned last

pvars == <<head, ppc, item, pt>>
cvars == <<tail, cpc, ch, cur, got>>
vars == <<buf, pvars, cvars>>

\* wrapping_add(1), wrapping_sub and the slot mask (CAP - 1).
Add1(c) == IF c = Wrap - 1 THEN 0 ELSE c + 1
Sub(a, b) == IF a >= b THEN a - b ELSE a - b + Wrap
Slot(c) == c % CAP

\* The values an acquire load may return when `seen' was returned before.
Visible(seen, now) == {c \in Counter : Sub(c, seen) <= Sub(now, seen)}

Init ==
    /\ buf = [s \in 0 .. CAP - 1 |-> None]
    /\ head = 0 /\ tail = 0
    /\ ppc = "idle" /\ item = None /\ pt = 0
    /\ cpc = "idle" /\ ch = 0 /\ cur = None /\ got = None

-----------------------------------------------------------------------------
\* push(x): load, refuse or write the slot, publish.

MFull(t) == Sub(head, t) > CAP
Full(t) == Sub(head, t) >= CAP

PushCall(x) ==
    /\ ppc = "idle"
    /\ ppc' = "load" /\ item' = x
    /\ UNCHANGED <<buf, head, pt, cvars>>

PushLoad ==
    /\ ppc = "load"
    /\ pt' \in Visible(pt, tail)
    /\ IF Full(pt')
       THEN ppc' = "idle" /\ item' = None
       ELSE ppc' = "write" /\ UNCHANGED item
    /\ UNCHANGED <<buf, head, cvars>>

MPushWrite ==
    /\ ppc = "write"
    /\ buf' = [buf EXCEPT ![Slot(tail)] = item]
    /\ ppc' = "publish"
    /\ UNCHANGED <<head, item, pt, cvars>>
PushWrite ==
    /\ ppc = "write"
    /\ buf' = [buf EXCEPT ![Slot(head)] = item]
    /\ ppc' = "publish"
    /\ UNCHANGED <<head, item, pt, cvars>>

MPushPublish ==
    /\ ppc = "publish"
    /\ head' = head + 1
    /\ ppc' = "idle" /\ item' = None
    /\ UNCHANGED <<buf, pt, cvars>>
PushPublish ==
    /\ ppc = "publish"
    /\ head' = Add1(head)
    /\ ppc' = "idle" /\ item' = None
    /\ UNCHANGED <<buf, pt, cvars>>

-----------------------------------------------------------------------------
\* pop(): load, return None or read the slot, free it.

PopLoad ==
    /\ cpc = "idle"
    /\ ch' \in Visible(ch, head)
    /\ cpc' = IF tail = ch' THEN "idle" ELSE "read"
    /\ UNCHANGED <<buf, pvars, tail, cur, got>>

PopRead ==
    /\ cpc = "read"
    /\ cur' = buf[Slot(tail)]
    /\ cpc' = "advance"
    /\ UNCHANGED <<buf, pvars, tail, ch, got>>

PopAdvance ==
    /\ cpc = "advance"
    /\ tail' = Add1(tail)
    /\ got' = cur /\ cur' = None
    /\ cpc' = "idle"
    /\ UNCHANGED <<buf, pvars, ch>>

Producer == (\E x \in Item : PushCall(x)) \/ PushLoad \/ PushWrite \/ PushPublish
Consumer == PopLoad \/ PopRead \/ PopAdvance
Next == Producer \/ Consumer

Spec == Init /\ [][Next]_vars

-----------------------------------------------------------------------------
TypeOK ==
    /\ buf \in [0 .. CAP - 1 -> Item \cup {None}]
    /\ head \in Counter /\ tail \in Counter
    /\ ppc \in {"idle", "load", "write", "publish"}
    /\ item \in Item \cup {None} /\ pt \in Counter
    /\ cpc \in {"idle", "read", "advance"}
    /\ ch \in Counter /\ cur \in Item \cup {None} /\ got \in Item \cup {None}

\* The views of the two sides stay within one lap of each other, counter
\* wrap-around included: pt <= tail <= ch <= head <= pt + CAP.  The emptiness
\* and fullness tests of push and pop are sound because of it.
ViewsOrdered ==
    /\ Sub(head, pt) <= CAP
    /\ Sub(tail, pt) <= Sub(head, pt)
    /\ Sub(ch, tail) <= Sub(head, tail)
    /\ ppc \in {"write", "publish"} => Sub(head, pt) < CAP
    /\ cpc \in {"read", "advance"} => ch # tail

\* The two SAFETY comments of push and pop: a slot is never written by the
\* producer while the consumer reads it.
NoRace == ~(ppc = "write" /\ cpc = "read" /\ Slot(head) = Slot(tail))

\* The queue's contents are the slots from tail up to head.
Contents == [i \in 1 .. Sub(head, tail) |-> buf[Slot(tail + i - 1)]]

Fifo == INSTANCE BoundedFifo WITH q <- Contents, in <- item, out <- got

\* The queue implements the lossy bounded FIFO: an item that push accepted is
\* returned by pop once, unchanged and in order.
ImplementsFifo == Fifo!Spec
=============================================================================
