-------------------------- MODULE SPSCQueueProofs --------------------------
(***************************************************************************)
(* Safety of the SPSC queue for every capacity, counter width and item set. *)
(* The inductive invariant is TypeOK and ViewsOrdered: the counters and the *)
(* two sides' views of them stay in order within one lap.  The refinement   *)
(* of the bounded FIFO also needs InFlight, what the two sides hold between *)
(* two of their steps.                                                      *)
(***************************************************************************)
EXTENDS SPSCQueue, TLAPS

\* The counters wrap after at least two laps: a distance of CAP is not zero.
LEMMA WrapFacts == Wrap \in Nat /\ 2 * CAP <= Wrap /\ CAP \in Nat /\ 0 < CAP
<1>1. /\ CAP \in Nat /\ CAP > 0
      /\ Laps \in Nat /\ Laps >= 2
  BY CAPAssumption, LapsAssumption
<1>2. Laps * CAP \in Nat /\ 2 * CAP <= Laps * CAP
  BY <1>1
<1> QED
  BY <1>1, <1>2 DEF Wrap

\* The queue's types are kept by every step of push and pop: the counters stay
\* u64 values and no access leaves the buffer, for every capacity and width.
THEOREM TypeCorrect == Spec => []TypeOK
<1>1. Init => TypeOK
  BY WrapFacts DEF Init, TypeOK, Counter
<1>2. TypeOK /\ [Next]_vars => TypeOK'
  <2> SUFFICES ASSUME TypeOK, [Next]_vars
               PROVE  TypeOK'
    OBVIOUS
  <2> USE DEF TypeOK
  <2>1. ASSUME NEW x \in Item, PushCall(x)
        PROVE  TypeOK'
    BY <2>1 DEF PushCall, cvars
  <2>2. CASE PushLoad
    BY <2>2 DEF PushLoad, cvars, Visible
  <2>3. CASE PushWrite
    BY <2>3 DEF PushWrite, cvars
  <2>4. CASE PushPublish
    BY <2>4, WrapFacts DEF PushPublish, cvars, Add1, Counter
  <2>5. CASE PopLoad
    BY <2>5 DEF PopLoad, pvars, Visible
  <2>6. CASE PopRead
    <3>1. Slot(tail) \in 0 .. CAP - 1
      BY WrapFacts DEF Slot, Counter
    <3> QED
      BY <2>6, <3>1 DEF PopRead, pvars
  <2>7. CASE PopAdvance
    BY <2>7, WrapFacts DEF PopAdvance, pvars, Add1, Counter
  <2>8. CASE UNCHANGED vars
    BY <2>8 DEF vars, pvars, cvars
  <2> QED
    BY <2>1, <2>2, <2>3, <2>4, <2>5, <2>6, <2>7, <2>8 DEF Next, Producer, Consumer
<1> QED
  BY <1>1, <1>2, PTL DEF Spec

\* A distance is a number below Wrap.
LEMMA SubType == \A a, b \in Counter : Sub(a, b) \in Int
BY WrapFacts DEF Sub, Counter

\* A counter q between p and t is no further from t and h than p is.
LEMMA Closer ==
  ASSUME NEW p \in Counter, NEW q \in Counter, NEW t \in Counter, NEW h \in Counter,
         Sub(h, p) <= CAP, Sub(t, p) <= Sub(h, p), Sub(q, p) <= Sub(t, p)
  PROVE  Sub(h, q) <= CAP /\ Sub(t, q) <= Sub(h, q)
BY WrapFacts DEF Sub, Counter

\* Advancing a counter by one, wrapping or not, adds one to its distance.
LEMMA Further ==
  ASSUME NEW a \in Counter, NEW b \in Counter, Sub(a, b) < Wrap - 1
  PROVE  Add1(a) \in Counter /\ Sub(Add1(a), b) = Sub(a, b) + 1
BY WrapFacts DEF Sub, Counter, Add1

\* A counter d between c and h is no further from t than h is.
LEMMA Later ==
  ASSUME NEW c \in Counter, NEW d \in Counter, NEW t \in Counter, NEW h \in Counter,
         Sub(c, t) <= Sub(h, t), Sub(d, c) <= Sub(h, c)
  PROVE  Sub(d, t) <= Sub(h, t)
BY WrapFacts DEF Sub, Counter

\* Every step of either side keeps the views in order.
LEMMA ViewsStep == TypeOK /\ ViewsOrdered /\ [Next]_vars => ViewsOrdered'
<1> SUFFICES ASSUME TypeOK, ViewsOrdered, [Next]_vars
             PROVE  ViewsOrdered'
  OBVIOUS
<1>1. ASSUME NEW x \in Item, PushCall(x)
      PROVE  ViewsOrdered'
  BY <1>1, WrapFacts DEF PushCall, cvars, TypeOK, ViewsOrdered, Counter, Sub
<1>2. CASE PushLoad
  <2> USE DEF TypeOK, ViewsOrdered
  <2>1. /\ pt' \in Counter /\ Sub(pt', pt) <= Sub(tail, pt)
        /\ head' = head /\ tail' = tail /\ ch' = ch /\ cpc' = cpc
    BY <1>2 DEF PushLoad, cvars, Visible
  <2>2. Sub(head, pt') <= CAP /\ Sub(tail, pt') <= Sub(head, pt')
    BY <2>1, Closer
  <2>3. ppc' \in {"write", "publish"} => Sub(head, pt') < CAP
    <3>1. ppc' = "write" => ~Full(pt')
      BY <1>2 DEF PushLoad
    <3>2. ppc' # "publish"
      BY <1>2 DEF PushLoad
    <3> QED
      <4>1. Sub(head, pt') \in Int
        BY <2>1, SubType
      <4> QED
        BY <3>1, <3>2, <4>1, WrapFacts DEF Full
  <2>4. (Sub(ch, tail) <= Sub(head, tail))'
    BY <2>1 DEF Sub
  <2> QED
    BY <2>1, <2>2, <2>3, <2>4 DEF Sub
<1>3. CASE PushWrite
  BY <1>3, WrapFacts DEF PushWrite, cvars, TypeOK, ViewsOrdered, Counter, Sub
<1>4. CASE PushPublish
  <2> USE DEF TypeOK, ViewsOrdered
  <2>1. /\ head' = Add1(head) /\ ppc' = "idle"
        /\ UNCHANGED <<tail, pt, ch, cpc>>
    BY <1>4 DEF PushPublish, cvars
  <2>2. Sub(head, pt) < CAP
    BY <1>4 DEF PushPublish
  <2>3. Sub(head, tail) <= Sub(head, pt)
    BY WrapFacts DEF Sub, Counter
  <2>4. /\ Sub(Add1(head), pt) = Sub(head, pt) + 1
        /\ Sub(Add1(head), tail) = Sub(head, tail) + 1
    <3>1. Sub(head, pt) < Wrap - 1 /\ Sub(head, tail) < Wrap - 1
      BY <2>2, <2>3, WrapFacts DEF Sub, Counter
    <3> QED
      BY <3>1, Further
  <2>5. /\ Sub(head, pt) \in Int /\ Sub(head, tail) \in Int
        /\ Sub(tail, pt) \in Int /\ Sub(ch, tail) \in Int
    BY SubType
  <2> HIDE DEF TypeOK
  <2>6. Sub(head', pt') <= CAP /\ Sub(tail', pt') <= Sub(head', pt')
    BY <2>1, <2>2, <2>4, <2>5, WrapFacts
  <2>7. Sub(ch', tail') <= Sub(head', tail')
    BY <2>1, <2>4, <2>5
  <2> QED
    BY <2>1, <2>6, <2>7 DEF Sub
<1>5. CASE PopLoad
  <2> USE DEF TypeOK, ViewsOrdered
  <2>1. /\ ch' \in Counter /\ Sub(ch', ch) <= Sub(head, ch)
        /\ UNCHANGED <<head, tail, pt, ppc>>
    BY <1>5 DEF PopLoad, pvars, Visible
  <2>2. cpc' \in {"read", "advance"} => ch' # tail
    BY <1>5 DEF PopLoad
  <2>3. Sub(ch', tail) <= Sub(head, tail)
    BY <2>1, Later
  <2> HIDE DEF TypeOK
  <2>4. /\ Sub(head', pt') <= CAP /\ Sub(tail', pt') <= Sub(head', pt')
        /\ Sub(ch', tail') <= Sub(head', tail')
        /\ ppc' \in {"write", "publish"} => Sub(head', pt') < CAP
    BY <2>1, <2>3
  <2> QED
    BY <2>1, <2>2, <2>4 DEF Sub
<1>6. CASE PopRead
  BY <1>6, WrapFacts DEF PopRead, pvars, TypeOK, ViewsOrdered, Counter, Sub
<1>7. CASE PopAdvance
  <2> USE DEF TypeOK, ViewsOrdered
  <2>1. /\ tail' = Add1(tail) /\ cpc' = "idle"
        /\ UNCHANGED <<head, pt, ch, ppc>>
    BY <1>7 DEF PopAdvance, pvars
  <2>2. ch # tail
    BY <1>7 DEF PopAdvance
  <2>3. Sub(ch, Add1(tail)) = Sub(ch, tail) - 1 /\ Sub(head, Add1(tail)) = Sub(head, tail) - 1
    BY <2>2, WrapFacts DEF Sub, Counter, Add1
  <2>4. Sub(tail, pt) < Sub(head, pt)
    BY <2>2, WrapFacts DEF Sub, Counter
  <2>5. Sub(Add1(tail), pt) = Sub(tail, pt) + 1
    <3>1. Sub(tail, pt) < Wrap - 1
      BY <2>4, WrapFacts DEF Sub, Counter
    <3> QED
      BY <3>1, Further
  <2>6. /\ Sub(head, pt) \in Int /\ Sub(head, tail) \in Int
        /\ Sub(tail, pt) \in Int /\ Sub(ch, tail) \in Int
    BY SubType
  <2> HIDE DEF TypeOK
  <2>7. Sub(head', pt') <= CAP /\ Sub(tail', pt') <= Sub(head', pt')
    BY <2>1, <2>4, <2>5, <2>6
  <2>8. Sub(ch', tail') <= Sub(head', tail')
    BY <2>1, <2>3, <2>6
  <2>9. ppc' \in {"write", "publish"} => Sub(head', pt') < CAP
    BY <2>1
  <2> QED
    BY <2>1, <2>7, <2>8, <2>9 DEF Sub
<1>8. CASE UNCHANGED vars
  BY <1>8, WrapFacts DEF vars, pvars, cvars, TypeOK, ViewsOrdered, Counter, Sub
<1> QED
  BY <1>1, <1>2, <1>3, <1>4, <1>5, <1>6, <1>7, <1>8 DEF Next, Producer, Consumer

\* The views of producer and consumer never drift more than one lap apart, so
\* the full test of push and the empty test of pop are sound for every width.
THEOREM ViewsOrderedAlways == Spec => []ViewsOrdered
<1>1. Init => ViewsOrdered
  BY WrapFacts DEF Init, ViewsOrdered, Sub
<1> QED
  BY <1>1, ViewsStep, TypeCorrect, PTL DEF Spec

\* Two counters less than CAP apart, and not equal, are in different slots,
\* across the wrap-around of the counters as well.
LEMMA SlotsDiffer ==
  ASSUME NEW a \in Counter, NEW b \in Counter, 0 < Sub(a, b), Sub(a, b) < CAP
  PROVE  Slot(a) # Slot(b)
<1>1. /\ CAP \in Nat /\ CAP > 0 /\ Laps \in Nat /\ a \in Int /\ b \in Int
  BY WrapFacts, LapsAssumption DEF Counter
<1> DEFINE qa == a \div CAP
           qb == b \div CAP
<1>2. /\ qa \in Int /\ qb \in Int
      /\ a = CAP * qa + (a % CAP)
      /\ b = CAP * qb + (b % CAP)
  BY <1>1
<1> HIDE DEF qa, qb
<1> SUFFICES ASSUME a % CAP = b % CAP
             PROVE  FALSE
  BY DEF Slot
<1>3. a - b = CAP * (qa - qb)
  BY <1>1, <1>2
<1>4. ASSUME NEW m \in Int, 0 < CAP * m, CAP * m < CAP
      PROVE  FALSE
  <2>1. CASE m <= 0
    <3>1. CAP * m <= 0
      BY <2>1, <1>1
    <3> QED
      BY <3>1, <1>4, <1>1
  <2>2. CASE m >= 1
    <3>1. CAP * m >= CAP
      BY <2>2, <1>1
    <3> QED
      BY <3>1, <1>4, <1>1
  <2> QED
    BY <2>1, <2>2
<1>5. CASE a >= b
  <2>1. Sub(a, b) = CAP * (qa - qb)
    BY <1>5, <1>3 DEF Sub
  <2> QED
    BY <2>1, <1>2, <1>4
<1>6. CASE ~(a >= b)
  <2>1. Wrap = CAP * Laps
    BY <1>1 DEF Wrap
  <2>2. Sub(a, b) = CAP * (qa - qb) + CAP * Laps
    BY <1>6, <1>3, <2>1 DEF Sub
  <2>3. CAP * (qa - qb) + CAP * Laps = CAP * (qa - qb + Laps)
    BY <1>1, <1>2
  <2>4. Sub(a, b) = CAP * (qa - qb + Laps)
    BY <2>2, <2>3
  <2> QED
    BY <2>4, <1>1, <1>2, <1>4
<1> QED
  BY <1>5, <1>6

\* Data-race freedom, the SAFETY comments of push and pop: the producer never
\* writes the slot that the consumer is reading.
THEOREM RaceFreedom == Spec => []NoRace
<1>1. TypeOK /\ ViewsOrdered => NoRace
  <2> SUFFICES ASSUME TypeOK, ViewsOrdered, ppc = "write", cpc = "read"
               PROVE  Slot(head) # Slot(tail)
    BY DEF NoRace
  <2>1. head \in Counter /\ tail \in Counter
    BY DEF TypeOK
  <2>2. 0 < Sub(head, tail) /\ Sub(head, tail) < CAP
    BY WrapFacts DEF TypeOK, ViewsOrdered, Counter, Sub
  <2> QED
    BY <2>1, <2>2, SlotsDiffer
<1> QED
  BY <1>1, TypeCorrect, ViewsOrderedAlways, PTL

-----------------------------------------------------------------------------
\* The refinement of BoundedFifo.

\* What push and pop hold between two steps: an item exactly while a push is
\* in progress, already in its slot before it is published; and the item that
\* pop read is still in the slot when the slot is freed.
InFlight ==
    /\ item = None <=> ppc = "idle"
    /\ ppc = "publish" => buf[Slot(head)] = item
    /\ cpc = "advance" => cur = buf[Slot(tail)]

\* Division with remainder is unique.
LEMMA RemainderUnique ==
  ASSUME NEW x \in Int, NEW k \in Int, NEW r \in 0 .. CAP - 1, x = CAP * k + r
  PROVE  x % CAP = r
<1>1. CAP \in Nat /\ CAP > 0
  BY WrapFacts
<1> DEFINE kx == x \div CAP
           rx == x % CAP
<1>2. kx \in Int /\ rx \in 0 .. CAP - 1 /\ x = CAP * kx + rx
  BY <1>1
<1> HIDE DEF kx, rx
<1>3. CAP * (kx - k) = r - rx
  BY <1>1, <1>2
<1>4. CASE kx - k >= 1
  <2>1. CAP * (kx - k) >= CAP
    BY <1>1, <1>2, <1>4
  <2> QED
    BY <2>1, <1>1, <1>2, <1>3
<1>5. CASE kx - k <= -1
  <2>1. CAP * (kx - k) <= -CAP
    BY <1>1, <1>2, <1>5
  <2> QED
    BY <2>1, <1>1, <1>2, <1>3
<1>6. CASE kx - k = 0
  <2>1. rx = r
    BY <1>6, <1>1, <1>2, <1>3
  <2> QED
    BY <2>1 DEF rx
<1> QED
  BY <1>2, <1>4, <1>5, <1>6

\* The slot of a counter does not depend on the wrap-around: CAP divides Wrap.
LEMMA SlotWraps == \A x \in Int : Slot(x + Wrap) = Slot(x)
<1> SUFFICES ASSUME NEW x \in Int
             PROVE  (x + Wrap) % CAP = x % CAP
  BY DEF Slot
<1>1. CAP \in Nat /\ CAP > 0 /\ Laps \in Nat /\ Wrap = CAP * Laps
  BY WrapFacts, LapsAssumption DEF Wrap
<1> DEFINE k == x \div CAP
           r == x % CAP
<1>2. k \in Int /\ r \in 0 .. CAP - 1 /\ x = CAP * k + r
  BY <1>1
<1> HIDE DEF k, r
<1>3. x + Wrap = CAP * (k + Laps) + r
  BY <1>1, <1>2
<1>4. x + Wrap \in Int /\ k + Laps \in Int
  BY <1>1, <1>2
<1>5. (x + Wrap) % CAP = r
  BY <1>2, <1>3, <1>4, RemainderUnique
<1> QED
  BY <1>5 DEF r

\* The slot of a position is in the buffer.
LEMMA SlotInRange == \A x \in Int : Slot(x) \in 0 .. CAP - 1
BY WrapFacts DEF Slot

\* Two positions less than CAP apart are in different slots.
LEMMA PositionsDiffer ==
  ASSUME NEW x \in Int, NEW y \in Int, x < y, y < x + CAP
  PROVE  Slot(x) # Slot(y)
<1>1. CAP \in Nat /\ CAP > 0
  BY WrapFacts
<1> DEFINE k == x \div CAP
           r == x % CAP
<1>2. k \in Int /\ r \in 0 .. CAP - 1 /\ x = CAP * k + r
  BY <1>1
<1> HIDE DEF k, r
<1>3. CASE r + (y - x) < CAP
  <2>1. r + (y - x) \in 0 .. CAP - 1 /\ y = CAP * k + (r + (y - x))
    BY <1>1, <1>2, <1>3
  <2>2. y % CAP = r + (y - x)
    BY <1>2, <2>1, RemainderUnique
  <2> QED
    BY <2>2, <1>2 DEF Slot, r
<1>4. CASE r + (y - x) >= CAP
  <2>1. r + (y - x) - CAP \in 0 .. CAP - 1 /\ y = CAP * (k + 1) + (r + (y - x) - CAP)
    BY <1>1, <1>2, <1>4
  <2>2. y % CAP = r + (y - x) - CAP
    BY <1>2, <2>1, RemainderUnique
  <2> QED
    BY <2>2, <1>1, <1>2 DEF Slot, r
<1> QED
  BY <1>1, <1>2, <1>3, <1>4

\* The slot that the producer fills is the one after the contents.
LEMMA SlotOfHead ==
  ASSUME NEW h \in Counter, NEW t \in Counter
  PROVE  Slot(t + Sub(h, t)) = Slot(h)
<1>1. h \in Int /\ t \in Int /\ Wrap \in Int
  BY WrapFacts DEF Counter
<1>2. CASE h >= t
  BY <1>1, <1>2 DEF Sub
<1>3. CASE ~(h >= t)
  <2>1. t + Sub(h, t) = h + Wrap
    BY <1>1, <1>3 DEF Sub
  <2> QED
    BY <2>1, <1>1, SlotWraps
<1> QED
  BY <1>2, <1>3

\* Where the queue stands when its counters are in order.
LEMMA Occupancy ==
  ASSUME TypeOK, ViewsOrdered
  PROVE  /\ Sub(head, tail) \in 0 .. CAP
         /\ ppc \in {"write", "publish"} => Sub(head, tail) < CAP
         /\ cpc \in {"read", "advance"} => Sub(head, tail) > 0
BY WrapFacts DEF TypeOK, ViewsOrdered, Counter, Sub

\* While the producer holds a free slot, it is not one of the contents.
LEMMA FreeSlot ==
  ASSUME TypeOK, ViewsOrdered, ppc \in {"write", "publish"},
         NEW i \in 1 .. Sub(head, tail)
  PROVE  Slot(tail + i - 1) # Slot(head)
<1>1. tail \in Int /\ head \in Counter /\ tail \in Counter /\ CAP \in Nat
  BY WrapFacts DEF TypeOK, Counter
<1>2. Sub(head, tail) \in 0 .. CAP /\ Sub(head, tail) < CAP
  BY Occupancy
<1>3. /\ tail + i - 1 \in Int /\ tail + Sub(head, tail) \in Int
      /\ tail + i - 1 < tail + Sub(head, tail)
      /\ tail + Sub(head, tail) < tail + i - 1 + CAP
  BY <1>1, <1>2
<1>4. Slot(tail + i - 1) # Slot(tail + Sub(head, tail))
  BY <1>3, PositionsDiffer
<1> QED
  BY <1>1, <1>4, SlotOfHead

\* Every step of either side keeps what the other has in flight.
LEMMA InFlightStep == TypeOK /\ ViewsOrdered /\ InFlight /\ [Next]_vars => InFlight'
<1> SUFFICES ASSUME TypeOK, ViewsOrdered, InFlight, [Next]_vars
             PROVE  InFlight'
  OBVIOUS
<1>0. Slot(head) \in 0 .. CAP - 1 /\ Slot(tail) \in 0 .. CAP - 1
  BY WrapFacts DEF TypeOK, Counter, Slot
<1>1. ASSUME NEW x \in Item, PushCall(x)
      PROVE  InFlight'
  BY <1>1, NoneAssumption DEF PushCall, cvars, InFlight, Slot
<1>2. CASE PushLoad
  BY <1>2 DEF PushLoad, cvars, InFlight, Slot
<1>3. CASE PushWrite
  <2>1. cpc = "advance" => Slot(tail) # Slot(head)
    <3> SUFFICES ASSUME cpc = "advance"
                 PROVE  Slot(tail) # Slot(head)
      OBVIOUS
    <3>1. Sub(head, tail) \in 0 .. CAP /\ Sub(head, tail) > 0 /\ CAP \in Nat
      BY Occupancy, WrapFacts
    <3>2. 1 \in 1 .. Sub(head, tail)
      BY <3>1
    <3>3. Slot(tail + 1 - 1) # Slot(head)
      BY <1>3, <3>2, FreeSlot DEF PushWrite
    <3>4. tail + 1 - 1 = tail
      BY DEF TypeOK, Counter
    <3> QED
      BY <3>3, <3>4
  <2>2. buf'[Slot(head)] = item /\ (Slot(tail) # Slot(head) => buf'[Slot(tail)] = buf[Slot(tail)])
    BY <1>0, <1>3 DEF PushWrite, TypeOK
  <2> QED
    BY <1>3, <2>1, <2>2 DEF PushWrite, cvars, InFlight, Slot
<1>4. CASE PushPublish
  BY <1>4 DEF PushPublish, cvars, InFlight, Slot
<1>5. CASE PopLoad
  BY <1>5 DEF PopLoad, pvars, InFlight, Slot
<1>6. CASE PopRead
  BY <1>6 DEF PopRead, pvars, InFlight, Slot
<1>7. CASE PopAdvance
  BY <1>7 DEF PopAdvance, pvars, InFlight, Slot
<1>8. CASE UNCHANGED vars
  BY <1>8 DEF vars, pvars, cvars, InFlight, Slot
<1> QED
  BY <1>1, <1>2, <1>3, <1>4, <1>5, <1>6, <1>7, <1>8 DEF Next, Producer, Consumer

\* The contents are a sequence of the queue's length.
LEMMA ContentsType ==
  ASSUME TypeOK, ViewsOrdered
  PROVE  /\ Contents \in Seq(Item \cup {None})
         /\ Len(Contents) = Sub(head, tail)
         /\ \A i \in 1 .. Sub(head, tail) : Contents[i] = buf[Slot(tail + i - 1)]
<1>1. Sub(head, tail) \in Nat
  BY Occupancy, WrapFacts
<1>2. \A i \in 1 .. Sub(head, tail) : Slot(tail + i - 1) \in 0 .. CAP - 1
  BY <1>1, WrapFacts DEF TypeOK, Counter, Slot
<1>3. \A i \in 1 .. Sub(head, tail) : buf[Slot(tail + i - 1)] \in Item \cup {None}
  BY <1>2 DEF TypeOK
<1> QED
  BY <1>1, <1>3 DEF Contents

\* Publishing appends the item in flight to the contents.
LEMMA PublishEnqueues ==
  ASSUME TypeOK, ViewsOrdered, InFlight, TypeOK', ViewsOrdered', PushPublish
  PROVE  Fifo!Enqueue
<1> DEFINE n == Sub(head, tail)
<1>1. n \in Nat /\ n < CAP /\ CAP \in Nat
  BY Occupancy, WrapFacts DEF PushPublish
<1>2. /\ head' = Add1(head) /\ item' = None /\ item # None
      /\ UNCHANGED <<buf, tail, got>>
  BY DEF PushPublish, cvars, InFlight
<1>3. Sub(head', tail') = n + 1
  <2>1. n < Wrap - 1
    BY <1>1, WrapFacts
  <2> QED
    BY <2>1, <1>2, Further DEF TypeOK
<1>4. /\ Contents \in Seq(Item \cup {None}) /\ Len(Contents) = n
      /\ \A i \in 1 .. n : Contents[i] = buf[Slot(tail + i - 1)]
  BY ContentsType
<1>5. /\ Contents' \in Seq(Item \cup {None}) /\ Len(Contents') = n + 1
      /\ \A i \in 1 .. n + 1 : Contents'[i] = buf[Slot(tail + i - 1)]
  <2>1. /\ Contents' \in Seq(Item \cup {None}) /\ Len(Contents') = Sub(head', tail')
        /\ \A i \in 1 .. Sub(head', tail') : Contents'[i] = buf'[Slot(tail' + i - 1)]
    <3>1. Contents' = [i \in 1 .. Sub(head', tail') |-> buf'[Slot(tail' + i - 1)]]
      BY DEF Contents, Sub, Slot
    <3>2. Sub(head', tail') \in Nat
      BY <1>1, <1>3
    <3>3. \A i \in 1 .. Sub(head', tail') : Slot(tail' + i - 1) \in 0 .. CAP - 1
      <4>1. tail' \in Int
        BY WrapFacts DEF TypeOK, Counter
      <4>2. \A i \in 1 .. Sub(head', tail') : tail' + i - 1 \in Int
        BY <3>2, <4>1
      <4> QED
        BY <4>2, SlotInRange
    <3>4. \A i \in 1 .. Sub(head', tail') : buf'[Slot(tail' + i - 1)] \in Item \cup {None}
      BY <3>3 DEF TypeOK
    <3> QED
      BY <3>1, <3>2, <3>4
  <2> QED
    BY <2>1, <1>2, <1>3
<1>6. buf[Slot(tail + (n + 1) - 1)] = item
  <2>1. tail + (n + 1) - 1 = tail + n
    BY <1>1 DEF TypeOK, Counter
  <2>2. Slot(tail + n) = Slot(head)
    BY SlotOfHead DEF TypeOK
  <2> QED
    BY <2>1, <2>2 DEF PushPublish, InFlight
<1> HIDE DEF n
<1>7. item \in Item \cup {None}
  BY DEF TypeOK
<1>8. Contents' = Append(Contents, item)
  <2>1. Contents'[n + 1] = item
    BY <1>1, <1>5, <1>6
  <2>2. \A i \in 1 .. n : Contents'[i] = Contents[i]
    BY <1>1, <1>4, <1>5
  <2> QED
    BY <1>1, <1>4, <1>5, <1>7, <2>1, <2>2
<1> QED
  BY <1>1, <1>2, <1>4, <1>8 DEF Fifo!Enqueue

\* Advancing the tail removes the item that pop read from the contents.
LEMMA AdvanceDequeues ==
  ASSUME TypeOK, ViewsOrdered, InFlight, TypeOK', ViewsOrdered', PopAdvance
  PROVE  Fifo!Dequeue
<1> DEFINE n == Sub(head, tail)
<1>1. n \in Nat /\ n > 0
  BY Occupancy, WrapFacts DEF PopAdvance
<1>2. /\ tail' = Add1(tail) /\ got' = cur /\ cur = buf[Slot(tail)]
      /\ UNCHANGED <<buf, head, item>>
  BY DEF PopAdvance, pvars, InFlight
<1>3. Sub(head', tail') = n - 1
  BY <1>1, <1>2, WrapFacts DEF TypeOK, Counter, Sub, Add1
<1>4. /\ Contents \in Seq(Item \cup {None}) /\ Len(Contents) = n
      /\ \A i \in 1 .. n : Contents[i] = buf[Slot(tail + i - 1)]
  BY ContentsType
<1>5. \A i \in Nat : Slot(tail' + i - 1) = Slot(tail + (i + 1) - 1)
  <2> SUFFICES ASSUME NEW i \in Nat
               PROVE  Slot(tail' + i - 1) = Slot(tail + (i + 1) - 1)
    OBVIOUS
  <2>0. tail \in Int /\ Wrap \in Int
    BY WrapFacts DEF TypeOK, Counter
  <2>1. CASE tail = Wrap - 1
    <3>1. tail' + i - 1 = i - 1 /\ tail + (i + 1) - 1 = (i - 1) + Wrap
      BY <2>0, <2>1, <1>2 DEF Add1
    <3>2. Slot((i - 1) + Wrap) = Slot(i - 1)
      BY SlotWraps
    <3> QED
      BY <3>1, <3>2
  <2>2. CASE tail # Wrap - 1
    <3>1. tail' + i - 1 = tail + (i + 1) - 1
      BY <2>0, <2>2, <1>2 DEF Add1
    <3> QED
      BY <3>1
  <2> QED
    BY <2>1, <2>2
<1>6. /\ Contents' \in Seq(Item \cup {None}) /\ Len(Contents') = n - 1
      /\ \A i \in 1 .. n - 1 : Contents'[i] = buf[Slot(tail + (i + 1) - 1)]
  <2>1. /\ Contents' \in Seq(Item \cup {None}) /\ Len(Contents') = Sub(head', tail')
        /\ \A i \in 1 .. Sub(head', tail') : Contents'[i] = buf'[Slot(tail' + i - 1)]
    <3>1. Contents' = [i \in 1 .. Sub(head', tail') |-> buf'[Slot(tail' + i - 1)]]
      BY DEF Contents, Sub, Slot
    <3>2. Sub(head', tail') \in Nat
      BY <1>1, <1>3
    <3>3. \A i \in 1 .. Sub(head', tail') : Slot(tail' + i - 1) \in 0 .. CAP - 1
      <4>1. tail' \in Int
        BY WrapFacts DEF TypeOK, Counter
      <4>2. \A i \in 1 .. Sub(head', tail') : tail' + i - 1 \in Int
        BY <3>2, <4>1
      <4> QED
        BY <4>2, SlotInRange
    <3>4. \A i \in 1 .. Sub(head', tail') : buf'[Slot(tail' + i - 1)] \in Item \cup {None}
      BY <3>3 DEF TypeOK
    <3> QED
      BY <3>1, <3>2, <3>4
  <2>2. \A i \in 1 .. n - 1 : i \in Nat
    BY <1>1
  <2> QED
    BY <2>1, <2>2, <1>2, <1>3, <1>5
<1>7. Contents[1] = got'
  <2>1. 1 \in 1 .. n /\ tail + 1 - 1 = tail
    BY <1>1 DEF TypeOK, Counter
  <2> QED
    BY <2>1, <1>2, <1>4
<1> HIDE DEF n
<1>8. Contents # <<>> /\ Head(Contents) = got'
  BY <1>1, <1>4, <1>7
<1>9. Contents' = Tail(Contents)
  <2>1. \A i \in 1 .. n - 1 : i + 1 \in 1 .. n
    BY <1>1
  <2>2. \A i \in 1 .. n - 1 : Contents'[i] = Contents[i + 1]
    BY <1>4, <1>6, <2>1
  <2> QED
    BY <1>1, <1>4, <1>6, <1>8, <2>2
<1> QED
  BY <1>2, <1>8, <1>9 DEF Fifo!Dequeue

\* Lossless FIFO delivery: every execution of push and pop, with every lap and
\* every wrap-around of the counters, is one of the bounded FIFO.  An accepted
\* item is returned once, unchanged and in order.
THEOREM FifoRefinement == Spec => ImplementsFifo
<1>1. Init => Fifo!Init
  <2> SUFFICES ASSUME Init
               PROVE  Contents = <<>>
    BY DEF Init, Fifo!Init
  <2>1. Sub(head, tail) = 0
    BY DEF Init, Sub
  <2> QED
    BY <2>1 DEF Contents
<1>2. /\ TypeOK /\ ViewsOrdered /\ InFlight /\ TypeOK' /\ ViewsOrdered'
      /\ [Next]_vars
      => [Fifo!Next]_(Fifo!vars)
  <2> SUFFICES ASSUME TypeOK, ViewsOrdered, InFlight, TypeOK', ViewsOrdered', [Next]_vars
               PROVE  [Fifo!Next]_(Fifo!vars)
    OBVIOUS
  <2>1. ASSUME NEW x \in Item, PushCall(x)
        PROVE  Fifo!Offer(x)
    BY <2>1 DEF PushCall, cvars, InFlight, Fifo!Offer, Contents, Sub, Slot
  <2>2. CASE PushLoad
    <3>1. UNCHANGED <<Contents, got>> /\ item # None /\ (item' = None \/ UNCHANGED item)
      BY <2>2 DEF PushLoad, cvars, InFlight, Contents, Sub, Slot
    <3> QED
      BY <3>1 DEF Fifo!Next, Fifo!Refuse, Fifo!vars
  <2>3. CASE PushWrite
    <3>1. /\ UNCHANGED <<head, tail, item, got>>
          /\ buf' = [buf EXCEPT ![Slot(head)] = item]
      BY <2>3 DEF PushWrite, cvars
    <3>2. \A i \in 1 .. Sub(head, tail) : buf'[Slot(tail + i - 1)] = buf[Slot(tail + i - 1)]
      <4> SUFFICES ASSUME NEW i \in 1 .. Sub(head, tail)
                   PROVE  buf'[Slot(tail + i - 1)] = buf[Slot(tail + i - 1)]
        OBVIOUS
      <4>1. Slot(tail + i - 1) # Slot(head)
        BY <2>3, FreeSlot DEF PushWrite
      <4>2. i \in Int
        BY Occupancy, WrapFacts
      <4>3. Slot(tail + i - 1) \in 0 .. CAP - 1
        BY <4>2, WrapFacts DEF TypeOK, Counter, Slot
      <4> QED
        BY <3>1, <4>1, <4>3 DEF TypeOK
    <3>3. Contents' = Contents
      BY <3>1, <3>2 DEF Contents, Sub, Slot
    <3> QED
      BY <3>1, <3>3 DEF Fifo!vars
  <2>4. CASE PushPublish
    BY <2>4, PublishEnqueues DEF Fifo!Next
  <2>5. CASE PopLoad
    BY <2>5 DEF PopLoad, pvars, Fifo!vars, Contents, Sub, Slot
  <2>6. CASE PopRead
    BY <2>6 DEF PopRead, pvars, Fifo!vars, Contents, Sub, Slot
  <2>7. CASE PopAdvance
    BY <2>7, AdvanceDequeues DEF Fifo!Next
  <2>8. CASE UNCHANGED vars
    BY <2>8 DEF vars, pvars, cvars, Fifo!vars, Contents, Sub, Slot
  <2> QED
    BY <2>1, <2>2, <2>3, <2>4, <2>5, <2>6, <2>7, <2>8
    DEF Next, Producer, Consumer, Fifo!Next
<1>3. Init => InFlight
  BY DEF Init, InFlight
<1> QED
  BY <1>1, <1>2, <1>3, InFlightStep, TypeCorrect, ViewsOrderedAlways, PTL
  DEF Spec, ImplementsFifo, Fifo!Spec
=============================================================================
