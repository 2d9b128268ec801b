--------------------------- MODULE AofRingProofs ---------------------------
(***************************************************************************)
(* Memory safety of the AOF ring buffer, for every buffer size, every set   *)
(* of entry lengths and every fsync mode, with and without failing writes.  *)
(* PendingIntact alone is not inductive: RingInv adds the space that was    *)
(* checked before a copy, the fragments already copied, and what the flush  *)
(* thread knows of head.                                                    *)
(***************************************************************************)
EXTENDS AofRing, SequenceTheorems, TLAPS

Copying == epc \in {"copy1", "copy2", "publish"}
Flushing == fpc \in {"write1", "write2", "sync", "store"}

\* Stream positions a .. b - 1 are in their cells.
InRing(a, b) == \A p \in a .. b - 1 : buf[Offset(p)] = p

\* The inductive invariant of the ring's memory.
RingInv ==
    /\ tail <= head /\ head - tail <= Size
    /\ epc = "space" \/ Copying => req \in EntryLens
    /\ Copying => head + req - tail <= Size
    /\ epc = "copy2" => Offset(head) + req > Size
    /\ Flushing => tail <= fh /\ fh <= head
    /\ fpc = "write2" => Offset(tail) + (fh - tail) > Size
    /\ InRing(tail, head)
    /\ epc = "copy2" => InRing(head, head + FirstLen(head, req))
    /\ epc = "publish" => InRing(head, head + req)

-----------------------------------------------------------------------------
\* Arithmetic of the ring.

\* The remainder of a division is unique.
LEMMA ModUnique ==
  ASSUME NEW a \in Int, NEW q \in Int, NEW r \in 0 .. Size - 1, a = Size * q + r
  PROVE  a % Size = r
<1>1. Size \in Nat /\ Size > 0
  BY SizeAssumption
<1> DEFINE s == a % Size
           t == a \div Size
<1>2. s \in 0 .. Size - 1 /\ t \in Int /\ a = Size * t + s
  BY <1>1
<1> HIDE DEF s, t
<1>3. Size * (q - t) = s - r
  BY <1>1, <1>2
<1>4. ASSUME NEW m \in Int, Size * m < Size, -Size < Size * m
      PROVE  m = 0
  <2>1. CASE m >= 1
    <3>1. Size * m >= Size
      BY <1>1, <2>1
    <3> QED
      BY <1>1, <1>4, <3>1
  <2>2. CASE m <= -1
    <3>1. Size * m <= -Size
      BY <1>1, <2>2
    <3> QED
      BY <1>1, <1>4, <3>1
  <2> QED
    BY <2>1, <2>2
<1>5. q - t = 0
  <2>1. s - r < Size /\ -Size < s - r
    BY <1>1, <1>2
  <2>2. q - t \in Int
    BY <1>2
  <2> QED
    BY <1>3, <1>4, <2>1, <2>2
<1>6. s = r
  BY <1>1, <1>2, <1>3, <1>5
<1> QED
  BY <1>6 DEF s

\* Offsets of ring_write and flush_once lie within the buffer.
LEMMA OffsetType == \A p \in Int : Offset(p) \in 0 .. Size - 1
BY SizeAssumption DEF Offset

\* Moving on by k cells wraps at most once.
LEMMA OffsetShift ==
  ASSUME NEW h \in Nat, NEW k \in Nat, k <= Size
  PROVE  Offset(h + k) = IF Offset(h) + k < Size THEN Offset(h) + k ELSE Offset(h) + k - Size
<1>1. Size \in Nat /\ Size > 0
  BY SizeAssumption
<1> DEFINE q == h \div Size
           r == h % Size
<1>2. q \in Int /\ r \in 0 .. Size - 1 /\ h = Size * q + r
  BY <1>1
<1> HIDE DEF q, r
<1>3. Offset(h) = r
  BY DEF Offset, r
<1>4. CASE r + k < Size
  <2>1. h + k = Size * q + (r + k) /\ r + k \in 0 .. Size - 1 /\ h + k \in Int
    BY <1>1, <1>2, <1>4
  <2>2. (h + k) % Size = r + k
    BY <1>2, <2>1, ModUnique
  <2> QED
    BY <1>3, <1>4, <2>2 DEF Offset
<1>5. CASE ~(r + k < Size)
  <2>1. h + k = Size * (q + 1) + (r + k - Size)
    BY <1>1, <1>2
  <2>2. r + k - Size \in 0 .. Size - 1 /\ h + k \in Int /\ q + 1 \in Int
    BY <1>1, <1>2, <1>5
  <2>3. (h + k) % Size = r + k - Size
    BY <2>1, <2>2, ModUnique
  <2> QED
    BY <1>3, <1>5, <2>3 DEF Offset
<1> QED
  BY <1>4, <1>5

\* Two positions less than a lap apart are in different cells.
LEMMA OffsetsDiffer ==
  ASSUME NEW a \in Nat, NEW b \in Nat, b < a, a - b < Size
  PROVE  Offset(a) # Offset(b)
<1>1. Size \in Nat /\ Offset(b) \in 0 .. Size - 1
  BY SizeAssumption, OffsetType
<1> DEFINE k == a - b
<1>2. k \in Nat /\ 0 < k /\ k < Size /\ a = b + k
  BY <1>1
<1>3. Offset(b + k) = IF Offset(b) + k < Size THEN Offset(b) + k ELSE Offset(b) + k - Size
  BY <1>1, <1>2, OffsetShift
<1> QED
  BY <1>1, <1>2, <1>3

\* A fragment of len cells that does not wrap: its cells are those of the
\* positions copied, and none of an earlier position less than a lap behind.
LEMMA Fragment ==
  ASSUME NEW pos \in Nat, NEW len \in Nat, Offset(pos) + len <= Size, NEW p \in Nat
  PROVE  /\ p \in pos .. pos + len - 1 => Offset(p) = Offset(pos) + (p - pos)
         /\ p < pos /\ pos + len - p <= Size
               => Offset(p) \notin Offset(pos) .. Offset(pos) + len - 1
<1>1. Size \in Nat /\ Offset(pos) \in 0 .. Size - 1 /\ Offset(p) \in 0 .. Size - 1
  BY SizeAssumption, OffsetType
<1>2. ASSUME NEW k \in Nat, k < len
      PROVE  Offset(pos + k) = Offset(pos) + k
  <2>1. Offset(pos + k) = IF Offset(pos) + k < Size THEN Offset(pos) + k
                                                   ELSE Offset(pos) + k - Size
    BY <1>1, <1>2, OffsetShift
  <2> QED
    BY <1>1, <1>2, <2>1
<1>3. ASSUME p \in pos .. pos + len - 1
      PROVE  Offset(p) = Offset(pos) + (p - pos)
  <2>1. p - pos \in Nat /\ p - pos < len /\ p = pos + (p - pos)
    BY <1>3
  <2> QED
    BY <1>2, <2>1
<1>4. ASSUME p < pos, pos + len - p <= Size,
             Offset(p) \in Offset(pos) .. Offset(pos) + len - 1
      PROVE  FALSE
  <2> DEFINE k == Offset(p) - Offset(pos)
  <2>1. k \in Nat /\ k < len /\ Offset(p) = Offset(pos) + k
    BY <1>1, <1>4
  <2> HIDE DEF k
  <2>2. Offset(pos + k) = Offset(p)
    BY <1>2, <2>1
  <2>3. pos + k \in Nat /\ p < pos + k /\ (pos + k) - p < Size
    BY <1>1, <1>4, <2>1
  <2> QED
    BY <2>2, <2>3, OffsetsDiffer
<1> QED
  BY <1>3, <1>4

\* What CopyTo does when its cells are those of position pos.
LEMMA CopyToFragment ==
  ASSUME buf \in [0 .. Size - 1 -> Int], NEW pos \in Nat, NEW len \in Nat,
         Offset(pos) + len <= Size, CopyTo(Offset(pos), pos, len), NEW p \in Nat
  PROVE  /\ p \in pos .. pos + len - 1 => buf'[Offset(p)] = p
         /\ p < pos /\ pos + len - p <= Size => buf'[Offset(p)] = buf[Offset(p)]
<1>1. Offset(p) \in 0 .. Size - 1 /\ Offset(pos) \in 0 .. Size - 1 /\ Size \in Nat
  <2>1. p \in Int /\ pos \in Int
    OBVIOUS
  <2>2. Size \in Nat
    BY SizeAssumption
  <2> QED
    BY <2>1, <2>2, OffsetType
<1>2. buf'[Offset(p)] = IF Offset(p) \in Offset(pos) .. Offset(pos) + len - 1
                        THEN pos + (Offset(p) - Offset(pos)) ELSE buf[Offset(p)]
  BY <1>1 DEF CopyTo
<1>3. ASSUME p \in pos .. pos + len - 1
      PROVE  buf'[Offset(p)] = p
  <2>1. Offset(p) = Offset(pos) + (p - pos)
    BY <1>3, Fragment
  <2> QED
    BY <1>1, <1>2, <1>3, <2>1
<1>4. ASSUME p < pos, pos + len - p <= Size
      PROVE  buf'[Offset(p)] = buf[Offset(p)]
  BY <1>2, <1>4, Fragment
<1> QED
  BY <1>3, <1>4

\* Arithmetic of the two fragments of an entry or a batch.
LEMMA FirstLenFacts ==
  ASSUME NEW pos \in Nat, NEW len \in Nat
  PROVE  /\ FirstLen(pos, len) \in Nat
         /\ FirstLen(pos, len) <= len
         /\ Offset(pos) + FirstLen(pos, len) <= Size
         /\ Offset(pos) + len <= Size => FirstLen(pos, len) = len
         /\ Offset(pos) + len > Size => FirstLen(pos, len) = Size - Offset(pos)
<1>1. Offset(pos) \in 0 .. Size - 1 /\ Size \in Nat
  BY SizeAssumption, OffsetType
<1> QED
  BY <1>1 DEF FirstLen, Min2

-----------------------------------------------------------------------------
\* Types.

\* Cells of the ring are a sequence of bytes.
LEMMA CellsType ==
  ASSUME buf \in [0 .. Size - 1 -> Int], NEW c \in Nat, NEW len \in Nat, c + len <= Size
  PROVE  Cells(c, len) \in Seq(Int) /\ Len(Cells(c, len)) = len
<1>1. Size \in Nat
  BY SizeAssumption
<1>2. \A i \in 1 .. len : buf[c + i - 1] \in Int
  BY <1>1
<1>3. Cells(c, len) \in [1 .. len -> Int]
  BY <1>2 DEF Cells
<1>4. Cells(c, len) \in Seq(Int)
  BY <1>3
<1> QED
  BY <1>3, <1>4, LenProperties

\* A write, short or not, keeps what is in the file and what is synced of it.
LEMMA WriteType ==
  ASSUME file \in Seq(Int), synced \in 0 .. Len(file), NEW bytes \in Seq(Int),
         checked_write(bytes), synced' = synced
  PROVE  file' \in Seq(Int) /\ synced' \in 0 .. Len(file')
<1>1. PICK n \in 0 .. Len(bytes) : file' = file \o SubSeq(bytes, 1, n)
  <2>1. Len(bytes) \in 0 .. Len(bytes)
    BY LenProperties
  <2>2. CASE Faulty
    BY <2>2 DEF checked_write
  <2>3. CASE ~Faulty
    BY <2>1, <2>3 DEF checked_write
  <2> QED
    BY <2>2, <2>3
<1>2. SubSeq(bytes, 1, n) \in Seq(Int)
  BY <1>1, SubSeqProperties
<1>3. file' \in Seq(Int) /\ Len(file') = Len(file) + Len(SubSeq(bytes, 1, n))
  BY <1>1, <1>2, ConcatProperties
<1>4. Len(SubSeq(bytes, 1, n)) \in Nat /\ Len(file) \in Nat
  BY <1>2, LenProperties
<1> QED
  BY <1>3, <1>4

\* A sync covers the file or leaves things as they were.
LEMMA SyncType ==
  ASSUME file \in Seq(Int), synced \in 0 .. Len(file), fdatasync, file' = file
  PROVE  synced' \in 0 .. Len(file')
BY LenProperties, FaultyAssumption DEF fdatasync

\* Every step keeps the types.
LEMMA TypeStep == TypeOK /\ RingInv /\ [Next]_vars => TypeOK'
<1> SUFFICES ASSUME TypeOK, RingInv, [Next]_vars
             PROVE  TypeOK'
  OBVIOUS
<1>0. /\ Size \in Nat /\ EntryLens \subseteq Nat /\ req \in Nat
      /\ file \in Seq(Int) /\ synced \in 0 .. Len(file)
      /\ buf \in [0 .. Size - 1 -> Int]
  BY SizeAssumption, LensAssumption DEF TypeOK
<1> USE MaxAssumption DEF TypeOK
<1>1. ASSUME NEW len \in EntryLens, AppendEntry(len)
      PROVE  TypeOK'
  BY <1>1 DEF AppendEntry, flush, disk
<1>2. CASE AlwaysWrite
  <2>1. [i \in 1 .. req |-> acked + i - 1] \in Seq(Int)
    BY <1>0
  <2>2. file' \in Seq(Int) /\ synced' \in 0 .. Len(file')
    BY <1>0, <1>2, <2>1, WriteType DEF AlwaysWrite
  <2> QED
    BY <1>2, <2>2 DEF AlwaysWrite, flush
<1>3. CASE AlwaysSync
  <2>1. synced' \in 0 .. Len(file')
    BY <1>0, <1>3, SyncType DEF AlwaysSync
  <2> QED
    BY <1>0, <1>3, <2>1 DEF AlwaysSync, flush
<1>4. CASE RingSpace
  BY <1>4 DEF RingSpace, flush, disk
<1>5. ASSUME NEW c, NEW pos \in Nat, NEW len, CopyTo(c, pos, len), c \in Nat
      PROVE  buf' \in [0 .. Size - 1 -> Int]
  BY <1>0, <1>5 DEF CopyTo
<1>6. CASE RingCopy1
  <2>1. buf' \in [0 .. Size - 1 -> Int]
    BY <1>0, <1>5, <1>6, OffsetType DEF RingCopy1
  <2>2. epc' \in {"publish", "copy2"}
    BY <1>6 DEF RingCopy1
  <2> QED
    BY <1>6, <2>1, <2>2 DEF RingCopy1, flush, disk
<1>7. CASE RingCopy2
  <2>1. head + FirstLen(head, req) \in Nat
    <3>1. head \in Nat /\ req \in Nat
      BY <1>0
    <3>2. FirstLen(head, req) \in Nat
      BY <3>1, FirstLenFacts
    <3> QED
      BY <3>1, <3>2
  <2>2. buf' \in [0 .. Size - 1 -> Int]
    BY <1>0, <1>5, <1>7, <2>1 DEF RingCopy2
  <2> QED
    BY <1>7, <2>2 DEF RingCopy2, flush, disk
<1>8. CASE RingPublish
  BY <1>0, <1>8 DEF RingPublish, flush, disk
<1>9. CASE FlushCheck
  BY <1>9 DEF FlushCheck, loop, disk
<1>10. CASE FlushLoad
  <2>1. fpc' \in {"done", "check", "write1"}
    BY <1>10 DEF FlushLoad, Return
  <2> QED
    BY <1>10, <2>1 DEF FlushLoad, loop, disk
<1>11. ASSUME fpc \in {"write1", "write2"}
       PROVE  fh - tail \in Nat
  BY <1>11 DEF RingInv, Flushing
<1>12. CASE FlushWrite1
  <2>1. fpc = "write1"
    BY <1>12 DEF FlushWrite1
  <2>2. Offset(tail) \in Nat
    <3>1. tail \in Int
      OBVIOUS
    <3>2. Offset(tail) \in 0 .. Size - 1
      BY <3>1, OffsetType
    <3> QED
      BY <1>0, <3>2
  <2>3. Cells(Offset(tail), FirstLen(tail, fh - tail)) \in Seq(Int)
    BY <1>0, <1>11, <2>1, <2>2, FirstLenFacts, CellsType
  <2>4. file' \in Seq(Int) /\ synced' \in 0 .. Len(file')
    BY <1>0, <1>12, <2>3, WriteType DEF FlushWrite1
  <2>5. fpc' \in {"sync", "write2"}
    BY <1>12 DEF FlushWrite1
  <2> QED
    BY <1>12, <2>4, <2>5 DEF FlushWrite1, loop
<1>13. CASE FlushWrite2
  <2> DEFINE first == FirstLen(tail, fh - tail)
  <2>1. fpc = "write2"
    BY <1>13 DEF FlushWrite2
  <2>2. fh - tail \in Nat /\ fh - tail <= Size
    BY <1>0, <1>11, <2>1 DEF RingInv, Flushing
  <2>3. first \in Nat /\ first <= fh - tail
    BY <2>2, FirstLenFacts
  <2>4. fh - tail - first \in Nat /\ 0 + (fh - tail - first) <= Size
    BY <1>0, <2>2, <2>3
  <2> HIDE DEF first
  <2>5. Cells(0, fh - tail - first) \in Seq(Int)
    BY <1>0, <2>4, CellsType
  <2>6. file' \in Seq(Int) /\ synced' \in 0 .. Len(file')
    BY <1>0, <1>13, <2>5, WriteType DEF FlushWrite2, first
  <2> QED
    BY <1>13, <2>6 DEF FlushWrite2, loop
<1>14. CASE FlushSync
  <2>1. synced' \in 0 .. Len(file')
    BY <1>0, <1>14, SyncType DEF FlushSync
  <2> QED
    BY <1>14, <2>1 DEF FlushSync, loop
<1>15. CASE FlushStore
  <2>1. fpc' \in {"done", "check"}
    BY <1>15 DEF FlushStore, Return
  <2> QED
    BY <1>15, <2>1 DEF FlushStore, loop, disk
<1>16. CASE ShutdownStop
  BY <1>16 DEF ShutdownStop, flush, disk
<1>17. CASE ShutdownJoin
  BY <1>17 DEF ShutdownJoin, disk
<1>18. CASE ShutdownClose
  BY <1>18 DEF ShutdownClose, flush, disk
<1>19. CASE UNCHANGED vars
  BY <1>19 DEF vars, loop, flush, disk
<1> QED
  BY <1>1, <1>2, <1>3, <1>4, <1>6, <1>7, <1>8, <1>9, <1>10, <1>12, <1>13, <1>14, <1>15,
     <1>16, <1>17, <1>18, <1>19
     DEF Next, EventLoop, AppendAny, Ring, Shutdown, Flush, Exited

-----------------------------------------------------------------------------
\* The ring's invariant.

\* Steps of the event loop that copy an entry into the ring.
LEMMA CopyStep ==
  ASSUME TypeOK, RingInv, RingCopy1 \/ RingCopy2
  PROVE  RingInv'
<1>0. /\ Size \in Nat /\ head \in Nat /\ tail \in Nat /\ fh \in Nat
      /\ buf \in [0 .. Size - 1 -> Int]
  BY SizeAssumption DEF TypeOK
<1>1. /\ req \in EntryLens /\ req \in Nat /\ head + req - tail <= Size
      /\ tail <= head /\ head - tail <= Size
      /\ InRing(tail, head)
  <2>1. Copying
    BY DEF Copying, RingCopy1, RingCopy2
  <2>2. req \in EntryLens
    BY <2>1 DEF RingInv
  <2>3. req \in Nat
    BY <1>0, <2>2, LensAssumption
  <2> QED
    BY <2>1, <2>2, <2>3 DEF RingInv
<1>2. UNCHANGED <<head, tail, req, fpc, fh>>
  BY DEF RingCopy1, RingCopy2, flush
<1>3. /\ Flushing' => tail' <= fh' /\ fh' <= head'
      /\ fpc' = "write2" => Offset(tail') + (fh' - tail') > Size
  BY <1>2 DEF RingInv, Flushing
<1> DEFINE first == FirstLen(head, req)
<1>4. /\ first \in Nat /\ first <= req /\ Offset(head) + first <= Size
      /\ Offset(head) + req <= Size => first = req
      /\ Offset(head) + req > Size => first = Size - Offset(head)
  BY <1>0, <1>1, FirstLenFacts
<1>5. Offset(head) \in 0 .. Size - 1
  <2>1. head \in Int
    BY <1>0
  <2> QED
    BY <2>1, OffsetType
<1> HIDE DEF first
<1>6. CASE RingCopy1
  <2>1. CopyTo(Offset(head), head, first)
    BY <1>6 DEF RingCopy1, first
  <2>2. \A p \in tail .. head - 1 : buf'[Offset(p)] = p
    <3> SUFFICES ASSUME NEW p \in tail .. head - 1
                 PROVE  buf'[Offset(p)] = p
      OBVIOUS
    <3>1. p \in Nat /\ p < head /\ head + first - p <= Size
      BY <1>0, <1>1, <1>4
    <3>2. buf'[Offset(p)] = buf[Offset(p)]
      BY <1>0, <1>4, <2>1, <3>1, CopyToFragment
    <3>3. buf[Offset(p)] = p
      BY <1>1 DEF InRing
    <3> QED
      BY <3>2, <3>3
  <2>3. \A p \in head .. (head + first) - 1 : buf'[Offset(p)] = p
    <3> SUFFICES ASSUME NEW p \in head .. (head + first) - 1
                 PROVE  buf'[Offset(p)] = p
      OBVIOUS
    <3>1. p \in Nat
      BY <1>0, <1>4
    <3> QED
      BY <1>0, <1>4, <2>1, <3>1, CopyToFragment
  <2>4. CASE Offset(head) + req <= Size
    <3>1. epc' = "publish" /\ first = req
      BY <1>4, <1>6, <2>4 DEF RingCopy1
    <3>2. /\ \A p \in tail' .. head' - 1 : buf'[Offset(p)] = p
          /\ \A p \in head' .. (head' + req') - 1 : buf'[Offset(p)] = p
      BY <1>2, <2>2, <2>3, <3>1
    <3>3. InRing(tail, head)' /\ InRing(head, head + req)'
      BY <3>2 DEF InRing
    <3> QED
      BY <1>1, <1>2, <1>3, <3>1, <3>3 DEF RingInv, Copying
  <2>5. CASE ~(Offset(head) + req <= Size)
    <3>1. epc' = "copy2" /\ Offset(head) + req > Size
      BY <1>0, <1>1, <1>5, <1>6, <2>5 DEF RingCopy1
    <3>2. /\ \A p \in tail' .. head' - 1 : buf'[Offset(p)] = p
          /\ \A p \in head' .. (head' + first) - 1 : buf'[Offset(p)] = p
          /\ first = FirstLen(head', req')
      BY <1>2, <2>2, <2>3 DEF first
    <3>3. InRing(tail, head)' /\ InRing(head, head + FirstLen(head, req))'
      BY <3>2 DEF InRing
    <3> QED
      BY <1>1, <1>2, <1>3, <3>1, <3>3 DEF RingInv, Copying
  <2> QED
    BY <2>4, <2>5
<1>7. CASE RingCopy2
  <2> DEFINE pos == head + first
             rest == req - first
  <2>1. Offset(head) + req > Size /\ InRing(head, pos) /\ first = Size - Offset(head)
    <3>1. epc = "copy2"
      BY <1>7 DEF RingCopy2
    <3>2. Offset(head) + req > Size /\ InRing(head, pos)
      BY <3>1 DEF RingInv, first
    <3> QED
      BY <1>4, <3>2
  <2>2. pos \in Nat /\ rest \in Nat /\ pos + rest = head + req
    BY <1>0, <1>1, <1>4
  <2>3. Offset(pos) = 0
    <3>1. first \in Nat /\ first <= Size /\ Offset(head) + first = Size
      BY <1>0, <1>4, <1>5, <2>1
    <3>2. Offset(head + first) = IF Offset(head) + first < Size THEN Offset(head) + first
                                                               ELSE Offset(head) + first - Size
      BY <1>0, <3>1, OffsetShift
    <3>3. Offset(head + first) = Size - Size
      BY <1>0, <1>5, <3>1, <3>2
    <3> QED
      BY <1>0, <3>3
  <2>4. CopyTo(Offset(pos), pos, rest) /\ epc' = "publish"
    BY <1>7, <2>3 DEF RingCopy2, first
  <2>5. Offset(pos) + rest <= Size
    BY <1>0, <1>1, <1>4, <2>2, <2>3
  <2> HIDE DEF pos, rest
  <2>6. \A p \in tail .. (head + req) - 1 : buf'[Offset(p)] = p
    <3> SUFFICES ASSUME NEW p \in tail .. (head + req) - 1
                 PROVE  buf'[Offset(p)] = p
      OBVIOUS
    <3>1. p \in Nat
      BY <1>0, <1>1
    <3>2. CASE p >= pos
      <4>1. p \in pos .. pos + rest - 1
        BY <1>0, <1>1, <2>2, <3>1, <3>2
      <4> QED
        BY <1>0, <2>2, <2>4, <2>5, <3>1, <4>1, CopyToFragment
    <3>3. CASE p < pos
      <4>1. pos + rest - p <= Size
        BY <1>0, <1>1, <2>2, <3>1
      <4>2. buf'[Offset(p)] = buf[Offset(p)]
        BY <1>0, <2>2, <2>4, <2>5, <3>1, <3>3, <4>1, CopyToFragment
      <4>3. p \in tail .. head - 1 \/ p \in head .. pos - 1
        BY <1>0, <1>1, <2>2, <3>1, <3>3
      <4>4. buf[Offset(p)] = p
        BY <1>1, <2>1, <4>3 DEF InRing
      <4> QED
        BY <4>2, <4>4
    <3> QED
      BY <2>2, <3>1, <3>2, <3>3
  <2>7. InRing(tail, head)' /\ InRing(head, head + req)'
    <3>1. \A p \in tail .. head - 1 : p \in tail .. (head + req) - 1
      BY <1>0, <1>1
    <3>2. \A p \in head .. (head + req) - 1 : p \in tail .. (head + req) - 1
      BY <1>0, <1>1
    <3>3. /\ \A p \in tail' .. head' - 1 : buf'[Offset(p)] = p
          /\ \A p \in head' .. (head' + req') - 1 : buf'[Offset(p)] = p
      BY <1>2, <2>6, <3>1, <3>2
    <3> QED
      BY <3>3 DEF InRing
  <2> QED
    BY <1>1, <1>2, <1>3, <2>4, <2>7 DEF RingInv, Copying
<1> QED
  BY <1>6, <1>7

\* Every step keeps the ring's invariant.
LEMMA RingStep == TypeOK /\ RingInv /\ [Next]_vars => RingInv'
<1> SUFFICES ASSUME TypeOK, RingInv, [Next]_vars
             PROVE  RingInv'
  OBVIOUS
<1>0. /\ Size \in Nat /\ head \in Nat /\ tail \in Nat /\ fh \in Nat /\ req \in Nat
      /\ EntryLens \subseteq Nat
  BY SizeAssumption, LensAssumption DEF TypeOK
<1>1. CASE RingCopy1 \/ RingCopy2
  BY <1>1, CopyStep
<1>2. CASE RingSpace
  <2>1. /\ epc = "space" /\ epc' = "copy1" /\ head - tail + req <= Size
        /\ UNCHANGED <<buf, head, tail, req, fpc, fh>>
    BY <1>2 DEF RingSpace, HasSpace, flush
  <2>2. head + req - tail <= Size
    BY <1>0, <2>1
  <2> QED
    BY <2>1, <2>2 DEF RingInv, Copying, Flushing, InRing
<1>3. CASE RingPublish
  <2>1. /\ epc = "publish" /\ epc' = "ready" /\ head' = head + req
        /\ UNCHANGED <<buf, tail, req, fpc, fh>>
    BY <1>3 DEF RingPublish, flush
  <2>2. tail <= head' /\ head' - tail <= Size
    BY <1>0, <2>1 DEF RingInv, Copying
  <2>3. Flushing' => tail <= fh /\ fh <= head'
    BY <1>0, <2>1 DEF RingInv, Flushing
  <2>4. \A p \in tail .. head' - 1 : buf[Offset(p)] = p
    <3> SUFFICES ASSUME NEW p \in tail .. head' - 1
                 PROVE  buf[Offset(p)] = p
      OBVIOUS
    <3>1. p \in tail .. head - 1 \/ p \in head .. (head + req) - 1
      BY <1>0, <2>1
    <3>2. InRing(tail, head) /\ InRing(head, head + req)
      BY <2>1 DEF RingInv
    <3> QED
      BY <3>1, <3>2 DEF InRing
  <2>5. fpc' = "write2" => Offset(tail') + (fh' - tail') > Size
    BY <2>1 DEF RingInv
  <2>6. InRing(tail, head)'
    BY <2>1, <2>4 DEF InRing
  <2> QED
    BY <2>1, <2>2, <2>3, <2>5, <2>6 DEF RingInv, Copying
<1>4. CASE FlushStore
  <2>1. /\ fpc = "store" /\ tail' = fh /\ fpc' \in {"done", "check"}
        /\ UNCHANGED <<buf, head, epc, req>>
    BY <1>4 DEF FlushStore, Return, loop
  <2>2. tail <= fh /\ fh <= head
    BY <2>1 DEF RingInv, Flushing
  <2>3. /\ tail' <= head' /\ head' - tail' <= Size
        /\ Copying' => head' + req' - tail' <= Size
    BY <1>0, <2>1, <2>2 DEF RingInv, Copying
  <2>4. InRing(tail, head)'
    <3>1. \A p \in fh .. head - 1 : p \in tail .. head - 1
      BY <1>0, <2>2
    <3> QED
      BY <2>1, <3>1 DEF RingInv, InRing
  <2> QED
    BY <2>1, <2>3, <2>4 DEF RingInv, Copying, Flushing, InRing
<1>5. CASE FlushLoad
  <2>1. /\ fh' = head /\ fpc' \in {"done", "check", "write1"}
        /\ UNCHANGED <<buf, head, tail, epc, req>>
    BY <1>5 DEF FlushLoad, Return, loop
  <2> QED
    BY <1>0, <2>1 DEF RingInv, Copying, Flushing, InRing
<1>6. CASE FlushWrite1
  <2>1. /\ fpc = "write1" /\ fpc' \in {"sync", "write2"}
        /\ fpc' = "write2" => ~(Offset(tail) + (fh - tail) <= Size)
        /\ UNCHANGED <<buf, head, tail, epc, req, fh>>
    BY <1>6 DEF FlushWrite1, loop
  <2>2. Offset(tail) \in Int
    <3>1. tail \in Int
      BY <1>0
    <3> QED
      BY <3>1, OffsetType
  <2>3. fpc' = "write2" => Offset(tail') + (fh' - tail') > Size
    BY <1>0, <2>1, <2>2
  <2> QED
    BY <2>1, <2>3 DEF RingInv, Copying, Flushing, InRing
<1>7. CASE /\ UNCHANGED <<buf, head, tail, epc, req, fh>>
           /\ fpc' = fpc \/ fpc' \in {"check", "load", "done"}
              \/ (fpc = "write2" /\ fpc' = "sync") \/ (fpc = "sync" /\ fpc' = "store")
  BY <1>7 DEF RingInv, Copying, Flushing, InRing
<1>8. CASE /\ UNCHANGED <<buf, head, tail, fh>>
           /\ ~Copying' /\ (epc' = "space" => req' \in EntryLens)
           /\ fpc' = fpc \/ fpc' = "load"
  BY <1>8 DEF RingInv, Copying, Flushing, InRing
<1>9. ASSUME NEW len \in EntryLens, AppendEntry(len)
      PROVE  RingInv'
  BY <1>8, <1>9 DEF AppendEntry, Copying, flush
<1>10. CASE AlwaysWrite \/ AlwaysSync \/ Shutdown
  BY <1>8, <1>10 DEF AlwaysWrite, AlwaysSync, Shutdown, ShutdownStop, ShutdownJoin,
                     ShutdownClose, Copying, flush
<1>11. CASE FlushCheck \/ FlushWrite2 \/ FlushSync
  BY <1>7, <1>11 DEF FlushCheck, FlushWrite2, FlushSync, loop
<1>12. CASE UNCHANGED vars
  BY <1>7, <1>12 DEF vars, loop, flush
<1> QED
  BY <1>1, <1>2, <1>3, <1>4, <1>5, <1>6, <1>9, <1>10, <1>11, <1>12
     DEF Next, EventLoop, AppendAny, Ring, Flush, Exited

\* The types, and the memory of the ring, in every reachable state.
LEMMA RingCorrect == Spec => [](TypeOK /\ RingInv)
<1>1. Init => TypeOK
  BY SizeAssumption, MaxAssumption DEF Init, TypeOK
<1>2. Init => RingInv
  BY SizeAssumption DEF Init, RingInv, Copying, Flushing, InRing
<1> QED
  BY <1>1, <1>2, TypeStep, RingStep, PTL DEF Spec

\* The writer's types, and with them synced <= Len(file) whatever a write or a
\* sync returns.
THEOREM TypeCorrect == Spec => []TypeOK
BY RingCorrect, PTL

\* No byte that was published and not yet released is ever overwritten.
THEOREM PendingIntactAlways == Spec => []PendingIntact
<1>1. TypeOK /\ RingInv => PendingIntact
  BY SizeAssumption DEF TypeOK, RingInv, InRing, PendingIntact
<1> QED
  BY <1>1, RingCorrect, PTL

\* The SAFETY comment of AOFBuf: the cells the event loop writes and the cells
\* the flush thread reads are disjoint.
THEOREM DisjointAccessAlways == Spec => []DisjointAccess
<1>1. TypeOK /\ RingInv => DisjointAccess
  <2> SUFFICES ASSUME TypeOK, RingInv,
                      NEW p \in head .. head + req - 1, NEW r \in tail .. fh - 1,
                      epc \in {"copy1", "copy2"}, fpc \in {"write1", "write2"}
               PROVE  Offset(p) # Offset(r)
    BY DEF DisjointAccess
  <2>1. /\ Size \in Nat /\ head \in Nat /\ tail \in Nat /\ fh \in Nat /\ req \in Nat
    BY SizeAssumption, LensAssumption DEF TypeOK
  <2>2. head + req - tail <= Size /\ tail <= fh /\ fh <= head
    BY DEF RingInv, Copying, Flushing
  <2>3. p \in Nat /\ r \in Nat /\ r < p /\ p - r < Size
    BY <2>1, <2>2
  <2> QED
    BY <2>3, OffsetsDiffer
<1> QED
  BY <1>1, RingCorrect, PTL

-----------------------------------------------------------------------------
\* The file, when no system call fails.

\* How much of the stream has been handed to the kernel.
Written == CASE fpc = "write2" -> tail + FirstLen(tail, fh - tail)
             [] fpc \in {"sync", "store"} -> fh
             [] OTHER -> tail

\* The inductive invariant of the file: how its length follows from the two
\* threads' positions, and what shutdown has reached.
DiskInv ==
    /\ \A i \in 1 .. Len(file) : file[i] = i - 1
    /\ mode = "always" =>
          /\ head = 0 /\ tail = 0 /\ epc # "space" /\ ~Copying
          /\ fpc \in {"none", "load", "done"} /\ (fpc = "load" => last)
          /\ Len(file) = IF epc = "sync" THEN acked + req ELSE acked
          /\ synced = acked
    /\ mode # "always" =>
          /\ epc \notin {"write", "sync"}
          /\ acked = head /\ Len(file) = Written
    /\ mode = "everysec" => tail <= synced /\ (fpc = "store" => synced = fh)
    /\ epc \in {"final", "closed"} =>
          /\ last /\ fpc \notin {"none", "check"}
          /\ Flushing => fh = head
          /\ fpc = "done" => tail = head
    /\ epc = "closed" => fpc = "done"

\* A write that succeeds appends the next bytes of the stream.
LEMMA StreamWrite ==
  ASSUME ~Faulty, file \in Seq(Int), \A i \in 1 .. Len(file) : file[i] = i - 1,
         NEW bytes \in Seq(Int), checked_write(bytes),
         \A k \in 1 .. Len(bytes) : bytes[k] = Len(file) + k - 1
  PROVE  /\ Len(file') = Len(file) + Len(bytes)
         /\ \A i \in 1 .. Len(file') : file'[i] = i - 1
<1>1. file' = file \o SubSeq(bytes, 1, Len(bytes))
  BY DEF checked_write
<1>2. Len(file) \in Nat /\ Len(bytes) \in Nat
  BY LenProperties
<1>3. SubSeq(bytes, 1, Len(bytes)) = bytes
  BY <1>2
<1>4. /\ Len(file') = Len(file) + Len(bytes)
      /\ \A i \in 1 .. Len(file) + Len(bytes) :
            file'[i] = IF i <= Len(file) THEN file[i] ELSE bytes[i - Len(file)]
  BY <1>1, <1>3, ConcatProperties
<1>5. ASSUME NEW i \in 1 .. Len(file) + Len(bytes)
      PROVE  file'[i] = i - 1
  <2>1. CASE i <= Len(file)
    BY <1>2, <1>4, <1>5, <2>1
  <2>2. CASE ~(i <= Len(file))
    <3>1. i - Len(file) \in 1 .. Len(bytes)
      BY <1>2, <1>5, <2>2
    <3>2. bytes[i - Len(file)] = Len(file) + (i - Len(file)) - 1
      BY <3>1
    <3> QED
      BY <1>2, <1>4, <1>5, <2>2, <3>2
  <2> QED
    BY <2>1, <2>2
<1> QED
  BY <1>4, <1>5

\* Pending cells that do not wrap hold consecutive bytes of the stream.
LEMMA CellsAreStream ==
  ASSUME TypeOK, InRing(tail, head), NEW pos \in Nat, NEW len \in Nat,
         tail <= pos, pos + len <= head, Offset(pos) + len <= Size
  PROVE  \A k \in 1 .. len : Cells(Offset(pos), len)[k] = pos + k - 1
<1> SUFFICES ASSUME NEW k \in 1 .. len
             PROVE  Cells(Offset(pos), len)[k] = pos + k - 1
  OBVIOUS
<1>1. Size \in Nat /\ head \in Nat /\ tail \in Nat
  BY SizeAssumption DEF TypeOK
<1> DEFINE p == pos + k - 1
<1>2. p \in Nat /\ p \in pos .. pos + len - 1 /\ p \in tail .. head - 1
  BY <1>1
<1>3. Offset(p) = Offset(pos) + (p - pos)
  BY <1>2, Fragment
<1>4. Offset(pos) \in Int
  <2>1. pos \in Int
    OBVIOUS
  <2> QED
    BY <1>1, <2>1, OffsetType
<1>5. Cells(Offset(pos), len)[k] = buf[Offset(pos) + k - 1]
  BY DEF Cells
<1>6. Offset(pos) + k - 1 = Offset(p)
  BY <1>3, <1>4
<1>7. buf[Offset(p)] = p
  BY <1>2 DEF InRing
<1> QED
  BY <1>5, <1>6, <1>7

\* The flush thread's writes append the pending bytes, first fragment first.
LEMMA FlushWriteStep ==
  ASSUME ~Faulty, TypeOK, RingInv, DiskInv, FlushWrite1 \/ FlushWrite2
  PROVE  DiskInv'
<1>0. /\ Size \in Nat /\ head \in Nat /\ tail \in Nat /\ fh \in Nat
      /\ file \in Seq(Int) /\ buf \in [0 .. Size - 1 -> Int]
  BY SizeAssumption DEF TypeOK
<1>1. Flushing /\ mode # "always" /\ fpc \in {"write1", "write2"}
  BY DEF Flushing, FlushWrite1, FlushWrite2, DiskInv
<1>2. /\ fh - tail \in Nat /\ tail <= fh /\ fh <= head /\ head - tail <= Size
      /\ InRing(tail, head)
  BY <1>0, <1>1 DEF RingInv
<1>3. UNCHANGED <<mode, head, tail, epc, req, acked, last, fh, synced>>
  BY DEF FlushWrite1, FlushWrite2, loop
<1> DEFINE first == FirstLen(tail, fh - tail)
<1>4. /\ first \in Nat /\ first <= fh - tail /\ Offset(tail) + first <= Size
      /\ Offset(tail) + (fh - tail) <= Size => first = fh - tail
      /\ Offset(tail) + (fh - tail) > Size => first = Size - Offset(tail)
  BY <1>0, <1>2, FirstLenFacts
<1>5. Offset(tail) \in 0 .. Size - 1
  <2>1. tail \in Int
    BY <1>0
  <2> QED
    BY <2>1, OffsetType
<1> HIDE DEF first
<1>6. Offset(tail) \in Nat
  BY <1>0, <1>5
<1>7. CASE FlushWrite1
  <2> DEFINE bytes == Cells(Offset(tail), first)
  <2>1. bytes \in Seq(Int) /\ Len(bytes) = first
    BY <1>0, <1>4, <1>6, CellsType
  <2>2. \A k \in 1 .. first : bytes[k] = tail + k - 1
    <3>1. tail <= tail /\ tail + first <= head
      BY <1>0, <1>2, <1>4
    <3> QED
      BY <1>0, <1>2, <1>4, <3>1, CellsAreStream
  <2>3. checked_write(bytes)
    BY <1>7 DEF FlushWrite1, first
  <2>4. Len(file) = tail
    BY <1>1, <1>7 DEF DiskInv, Written, FlushWrite1
  <2> HIDE DEF bytes
  <2>5. /\ Len(file') = tail + first
        /\ \A i \in 1 .. Len(file') : file'[i] = i - 1
    <3>1. \A i \in 1 .. Len(file) : file[i] = i - 1
      BY DEF DiskInv
    <3> QED
      BY <1>0, <2>1, <2>2, <2>3, <2>4, <3>1, StreamWrite
  <2>6. CASE Offset(tail) + (fh - tail) <= Size
    <3>1. fpc' = "sync" /\ Len(file') = fh
      BY <1>0, <1>4, <1>7, <2>5, <2>6 DEF FlushWrite1
    <3>2. Written' = fh'
      BY <3>1 DEF Written
    <3> QED
      BY <1>1, <1>3, <2>5, <3>1, <3>2 DEF DiskInv, Copying, Flushing
  <2>7. CASE ~(Offset(tail) + (fh - tail) <= Size)
    <3>1. fpc' = "write2"
      BY <1>7, <2>7 DEF FlushWrite1
    <3>2. Written' = tail + first
      BY <1>3, <3>1 DEF Written, first
    <3> QED
      BY <1>1, <1>3, <2>5, <3>1, <3>2 DEF DiskInv, Copying, Flushing
  <2> QED
    BY <2>6, <2>7
<1>8. CASE FlushWrite2
  <2> DEFINE pos == tail + first
             rest == fh - tail - first
             bytes == Cells(0, rest)
  <2>1. Offset(tail) + first = Size
    <3>1. Offset(tail) + (fh - tail) > Size
      BY <1>8 DEF FlushWrite2, RingInv
    <3> QED
      BY <1>0, <1>4, <1>5, <3>1
  <2>2. pos \in Nat /\ rest \in Nat /\ pos + rest = fh /\ rest <= Size /\ first <= Size
    BY <1>0, <1>2, <1>4
  <2>3. Offset(pos) = 0
    <3>1. Offset(tail + first) = IF Offset(tail) + first < Size THEN Offset(tail) + first
                                                               ELSE Offset(tail) + first - Size
      BY <1>0, <1>4, <2>2, OffsetShift
    <3>2. Offset(tail + first) = Size - Size
      BY <1>0, <1>4, <1>5, <2>1, <3>1
    <3> QED
      BY <1>0, <3>2
  <2>4. checked_write(bytes) /\ fpc' = "sync"
    BY <1>8 DEF FlushWrite2, first
  <2>5. Len(file) = pos
    BY <1>1, <1>8 DEF DiskInv, Written, FlushWrite2, first
  <2>6. bytes \in Seq(Int) /\ Len(bytes) = rest
    BY <1>0, <2>2, CellsType
  <2>7. \A k \in 1 .. rest : bytes[k] = pos + k - 1
    <3>1. tail <= pos /\ pos + rest <= head /\ Offset(pos) + rest <= Size
      BY <1>0, <1>2, <1>4, <2>2, <2>3
    <3> HIDE DEF pos, rest
    <3>2. \A k \in 1 .. rest : Cells(Offset(pos), rest)[k] = pos + k - 1
      BY <1>2, <2>2, <3>1, CellsAreStream
    <3> QED
      BY <2>3, <3>2
  <2> HIDE DEF pos, rest, bytes
  <2>8. /\ Len(file') = fh
        /\ \A i \in 1 .. Len(file') : file'[i] = i - 1
    <3>1. \A i \in 1 .. Len(file) : file[i] = i - 1
      BY DEF DiskInv
    <3> QED
      BY <1>0, <2>2, <2>4, <2>5, <2>6, <2>7, <3>1, StreamWrite
  <2>9. Written' = fh'
    BY <2>4 DEF Written
  <2> QED
    BY <1>1, <1>3, <2>4, <2>8, <2>9 DEF DiskInv, Copying, Flushing
<1> QED
  BY <1>7, <1>8

\* Every step keeps the file's invariant.
LEMMA DiskStep ==
  ASSUME ~Faulty, TypeOK, RingInv, DiskInv, [Next]_vars
  PROVE  DiskInv'
<1>0. /\ Size \in Nat /\ head \in Nat /\ tail \in Nat /\ fh \in Nat /\ req \in Nat
      /\ acked \in Nat /\ EntryLens \subseteq Nat
      /\ file \in Seq(Int) /\ Len(file) \in Nat
  BY SizeAssumption, LensAssumption, LenProperties DEF TypeOK
<1>1. CASE FlushWrite1 \/ FlushWrite2
  BY <1>1, FlushWriteStep
<1>2. ASSUME NEW len \in EntryLens, AppendEntry(len)
      PROVE  DiskInv'
  <2>1. /\ epc = "ready" /\ epc' = (IF mode = "always" THEN "write" ELSE "space")
        /\ UNCHANGED <<mode, head, tail, acked, fpc, last, fh, file, synced>>
    BY <1>2 DEF AppendEntry, flush, disk
  <2> QED
    BY <2>1 DEF DiskInv, Written, Copying, Flushing
<1>3. CASE AlwaysWrite
  <2> DEFINE bytes == [i \in 1 .. req |-> acked + i - 1]
  <2>1. mode = "always" /\ Len(file) = acked
    BY <1>3 DEF DiskInv, AlwaysWrite
  <2>2. bytes \in Seq(Int) /\ Len(bytes) = req
    BY <1>0
  <2>3. checked_write(bytes) /\ (\A k \in 1 .. Len(bytes) : bytes[k] = Len(file) + k - 1)
    BY <1>3, <2>1, <2>2 DEF AlwaysWrite
  <2> HIDE DEF bytes
  <2>4. Len(file') = acked + req /\ (\A i \in 1 .. Len(file') : file'[i] = i - 1)
    <3>1. \A i \in 1 .. Len(file) : file[i] = i - 1
      BY DEF DiskInv
    <3> QED
      BY <1>0, <2>1, <2>2, <2>3, <3>1, StreamWrite
  <2>5. /\ epc = "write" /\ epc' = "sync"
        /\ UNCHANGED <<mode, head, tail, req, acked, fpc, last, fh, synced>>
    BY <1>3 DEF AlwaysWrite, flush
  <2> QED
    BY <2>1, <2>4, <2>5 DEF DiskInv, Copying, Flushing
<1>4. CASE AlwaysSync
  <2>1. /\ epc = "sync" /\ epc' = "ready" /\ synced' = Len(file) /\ acked' = acked + req
        /\ UNCHANGED <<mode, head, tail, fpc, last, fh, file>>
    BY <1>4 DEF AlwaysSync, fdatasync, flush
  <2> QED
    BY <2>1 DEF DiskInv, Copying, Flushing
<1>5. CASE RingSpace \/ RingCopy1 \/ RingCopy2
  <2>1. /\ epc \in {"space", "copy1", "copy2"} /\ epc' \in {"copy1", "copy2", "publish"}
        /\ UNCHANGED <<mode, head, tail, acked, fpc, last, fh, file, synced>>
    BY <1>5 DEF RingSpace, RingCopy1, RingCopy2, flush, disk
  <2> QED
    BY <2>1 DEF DiskInv, Written, Copying, Flushing
<1>6. CASE RingPublish
  <2>1. /\ epc = "publish" /\ epc' = "ready" /\ head' = head + req /\ acked' = acked + req
        /\ UNCHANGED <<mode, tail, fpc, last, fh, file, synced>>
    BY <1>6 DEF RingPublish, flush, disk
  <2> QED
    BY <2>1 DEF DiskInv, Written, Copying, Flushing
<1>7. CASE FlushCheck
  <2>1. /\ fpc = "check" /\ fpc' = "load"
        /\ UNCHANGED <<mode, head, tail, epc, req, acked, fh, file, synced>>
    BY <1>7 DEF FlushCheck, loop, disk
  <2> QED
    BY <2>1 DEF DiskInv, Written, Copying, Flushing
<1>8. CASE FlushLoad
  <2>1. /\ fpc = "load" /\ fh' = head /\ fpc' = (IF head = tail THEN Return ELSE "write1")
        /\ UNCHANGED <<mode, head, tail, epc, req, acked, last, file, synced>>
    BY <1>8 DEF FlushLoad, loop, disk
  <2> QED
    BY <2>1 DEF DiskInv, Written, Copying, Flushing, Return
<1>9. CASE FlushSync
  <2>1. /\ fpc = "sync" /\ fpc' = "store"
        /\ mode = "everysec" => synced' = Len(file)
        /\ UNCHANGED <<mode, head, tail, epc, req, acked, last, fh, file>>
    BY <1>9 DEF FlushSync, fdatasync, loop
  <2>2. mode # "always" /\ Len(file) = fh /\ tail <= fh
    BY <2>1 DEF DiskInv, Written, RingInv, Flushing
  <2> QED
    BY <2>1, <2>2 DEF DiskInv, Written, Copying, Flushing
<1>10. CASE FlushStore
  <2>1. /\ fpc = "store" /\ tail' = fh /\ fpc' = Return
        /\ UNCHANGED <<mode, head, epc, req, acked, last, fh, file, synced>>
    BY <1>10 DEF FlushStore, loop, disk
  <2> QED
    BY <1>0, <2>1 DEF DiskInv, Written, Copying, Flushing, Return
<1>11. CASE ShutdownStop
  <2>1. /\ epc = "ready" /\ epc' = "join"
        /\ UNCHANGED <<mode, head, tail, req, acked, fpc, last, fh, file, synced>>
    BY <1>11 DEF ShutdownStop, flush, disk
  <2> QED
    BY <2>1 DEF DiskInv, Written, Copying, Flushing
<1>12. CASE ShutdownJoin
  <2>1. /\ epc = "join" /\ epc' = "final" /\ fpc \in {"done", "none"} /\ fpc' = "load" /\ last'
        /\ UNCHANGED <<mode, head, tail, req, acked, fh, file, synced>>
    BY <1>12 DEF ShutdownJoin, disk
  <2> QED
    BY <2>1 DEF DiskInv, Written, Copying, Flushing
<1>13. CASE ShutdownClose
  <2>1. /\ epc = "final" /\ epc' = "closed" /\ fpc = "done"
        /\ UNCHANGED <<mode, head, tail, req, acked, fpc, last, fh, file, synced>>
    BY <1>13 DEF ShutdownClose, flush, disk
  <2> QED
    BY <2>1 DEF DiskInv, Written, Copying, Flushing
<1>14. CASE UNCHANGED vars
  BY <1>14 DEF vars, loop, flush, disk, DiskInv, Written, Copying, Flushing
<1> QED
  BY <1>1, <1>2, <1>3, <1>4, <1>5, <1>6, <1>7, <1>8, <1>9, <1>10, <1>11, <1>12, <1>13, <1>14
     DEF Next, EventLoop, AppendAny, Ring, Flush, Shutdown, Exited

\* The file's invariant in every reachable state, if no system call fails.
LEMMA DiskCorrect ==
  ASSUME ~Faulty
  PROVE  Spec => []DiskInv
<1>1. Init => DiskInv
  BY ModesAssumption DEF Init, DiskInv, Written, Copying, Flushing
<1>2. TypeOK /\ RingInv /\ DiskInv /\ [Next]_vars => DiskInv'
  BY DiskStep
<1> QED
  BY <1>1, <1>2, RingCorrect, PTL DEF Spec

\* "WAL invariant: never drop an entry": the file is always a prefix of the
\* bytes appended and covers everything released from the ring.
THEOREM FileIsStreamPrefixAlways ==
  ASSUME ~Faulty
  PROVE  Spec => []FileIsStreamPrefix
<1>1. TypeOK /\ RingInv /\ DiskInv => FileIsStreamPrefix
  <2> SUFFICES ASSUME TypeOK, RingInv, DiskInv
               PROVE  tail <= Len(file)
    BY DEF DiskInv, FileIsStreamPrefix
  <2>1. head \in Nat /\ tail \in Nat /\ fh \in Nat /\ acked \in Nat /\ req \in Nat
    BY LensAssumption DEF TypeOK
  <2>2. CASE mode = "always"
    BY <2>1, <2>2 DEF DiskInv
  <2>3. CASE mode # "always"
    <3>1. fpc = "write2" => FirstLen(tail, fh - tail) \in Nat
      BY <2>1, FirstLenFacts DEF RingInv, Flushing
    <3>2. fpc \in {"sync", "store"} => tail <= fh
      BY DEF RingInv, Flushing
    <3> QED
      BY <2>1, <2>3, <3>1, <3>2 DEF DiskInv, Written
  <2> QED
    BY <2>2, <2>3
<1> QED
  BY <1>1, RingCorrect, DiskCorrect, PTL

\* Durability: in mode "always" every append that returned is on stable
\* storage, in mode "everysec" everything released from the ring is.
THEOREM AckedDurableAlways ==
  ASSUME ~Faulty
  PROVE  Spec => []AckedDurable
<1>1. TypeOK /\ DiskInv => AckedDurable
  BY DEF TypeOK, DiskInv, AckedDurable
<1> QED
  BY <1>1, RingCorrect, DiskCorrect, PTL

\* shutdown() leaves every byte appended in the file, synced unless the mode is
\* "no".
THEOREM CleanShutdownAlways ==
  ASSUME ~Faulty
  PROVE  Spec => []CleanShutdown
<1>1. TypeOK /\ DiskInv => CleanShutdown
  <2> SUFFICES ASSUME TypeOK, DiskInv, epc = "closed"
               PROVE  Len(file) = acked /\ (mode # "no" => synced = acked)
    BY DEF CleanShutdown
  <2>1. mode \in {"always", "everysec", "no"} /\ synced \in 0 .. Len(file)
        /\ Len(file) \in Nat /\ tail \in Nat
    BY ModesAssumption, LenProperties DEF TypeOK
  <2>2. Len(file) = acked
    BY DEF DiskInv, Written
  <2>3. mode = "everysec" => tail <= synced /\ Len(file) = tail
    BY DEF DiskInv, Written
  <2> QED
    BY <2>1, <2>2, <2>3 DEF DiskInv
<1> QED
  BY <1>1, RingCorrect, DiskCorrect, PTL
=============================================================================
