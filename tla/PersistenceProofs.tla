------------------------- MODULE PersistenceProofs -------------------------
(***************************************************************************)
(* Durability, for every number of users, slots, children, commands and     *)
(* crashes.  The invariants build on each other:                            *)
(*   - Types and SnapInv hold without assumptions: one child at a time      *)
(*     writes snapshot.tmp, so snapshot.bin is from one child, and it is    *)
(*     the whole image (SnapshotWhole) unless write errors are dropped;     *)
(*   - HistInv, the numbers: the history is in order and images are behind; *)
(*   - CutInv, unless the clock is set back: timestamps divide commands     *)
(*     like their numbers do;                                               *)
(*   - LogInv, unless writes are torn or lost: the file and the ring        *)
(*     continue the snapshot without a gap;                                 *)
(*   - StoreInv, from all of them: the store and the images are what the    *)
(*     history makes of them.                                               *)
(* A sequence in order is determined by its elements (SortedUnique).  So    *)
(* what replay applies after the snapshot is compared with the history as a *)
(* set, and only then as a sequence of entries applied (ApplyConcat).       *)
(***************************************************************************)
EXTENDS Persistence, SequenceLemmas, FiniteSetTheorems

-----------------------------------------------------------------------------
\* The inductive invariants.

Time == 0 .. MaxClock
Number == 1 .. MaxCmds
Logged == [op : {"PUSH", "DEL"}, uid : Uid, ts : Time, n : Number]
Event == Logged \cup [op : {"EVICT"}, uid : Uid, ts : Time, n : Number]

\* A buffer: at most N records, and none only in the absent buffer.
Buffer == {b \in [recs : Seq(Number), ts : Time] :
              Len(b.recs) <= N /\ (b.recs = <<>> => b = NoBuf)}
GoodStore == {st \in [Uid -> Buffer] : IsFiniteSet(Users(st)) /\ Cardinality(Users(st)) <= Slots}

Image == [n : -1 .. MaxCmds, ts : Time, store : GoodStore]
SnapFile == [exists : BOOLEAN, hdr : Image, body : Image]
Child == [pc : {"none", "create", "header", "body", "rename"}, at : {"none", "tmp", "bin"},
          img : Image]

\* What the process itself holds.
ServerTypes ==
    /\ up \in BOOLEAN /\ mode \in Modes /\ clock \in Time /\ seqno \in 0 .. MaxCmds
    /\ store \in GoodStore /\ ring \in Seq(Logged)
    /\ file \in Seq(Logged \cup {TornEntry}) /\ synced \in 0 .. Len(file)
    /\ lastSnap \in Time /\ child_pid \in Procs \cup {0}
    /\ hist \in Seq(Event)
    /\ ~up => ring = <<>>

\* The snapshot files and the children that write them.
SnapTypes == proc \in [Procs -> Child] /\ tmp \in SnapFile /\ bin \in SnapFile

Types == ServerTypes /\ SnapTypes

\* At most one child is alive; what it has written so far is what snapshot.tmp
\* holds; header and body of snapshot.bin are of one child.
SnapInv ==
    /\ \A p \in Procs : proc[p].pc = "none" => proc[p] = NoProc
    /\ \A p, q \in Procs : Alive(p) /\ Alive(q) => p = q
    /\ up => \A p \in Procs : Alive(p) => p = child_pid
    /\ \A p \in Procs :
          /\ proc[p].pc \in {"header", "body", "rename"} => proc[p].at = "tmp" /\ tmp.exists
          /\ proc[p].pc \in {"body", "rename"} => tmp.hdr = proc[p].img
          /\ proc[p].pc = "rename" => tmp.body \in Dumped(proc[p].img)
    /\ bin.body \in Dumped(bin.hdr)
    /\ ~bin.exists => bin = NoFile

\* Entries in the order of their numbers.
Sorted(es) == \A i, j \in 1 .. Len(es) : i < j => es[i].n < es[j].n

\* The history is in order, and images are no later than now.
HistInv ==
    /\ Sorted(hist) /\ \A e \in Range(hist) : e.n <= seqno
    /\ bin.hdr.n <= seqno
    /\ \A p \in Procs : Alive(p) => /\ bin.hdr.n <= proc[p].img.n /\ proc[p].img.n <= seqno
                                    /\ 0 <= proc[p].img.n

\* The timestamp of an image divides the commands as its number does.
Cut(img) ==
    /\ img.ts <= clock
    /\ \A e \in Range(hist) : IsCommand(e) => (e.n <= img.n <=> e.ts <= img.ts)
CutInv ==
    /\ \A e \in Range(hist) : e.ts <= clock
    /\ Cut(bin.hdr)
    /\ \A p \in Procs : Alive(p) => Cut(proc[p].img)

\* Survives, for a file without torn entries and a whole snapshot.
Saved(e) == e.n <= bin.hdr.n \/ \E x \in Range(file) : x.n = e.n

\* File and ring are commands of the history, in order; a running server has
\* every command in the snapshot, the file or the ring; what is in the file has
\* all earlier commands in the snapshot or the file.
LogInv ==
    /\ file \in Seq(Logged) /\ Sorted(file \o ring)
    /\ Range(file) \cup Range(ring) \subseteq Range(hist)
    /\ up => \A e \in Range(hist) : IsCommand(e) => Saved(e) \/ e \in Range(ring)
    /\ \A e \in Range(hist), x \in Range(file) : IsCommand(e) /\ e.n < x.n => Saved(e)
    /\ mode = "always" =>
          /\ ring = <<>> /\ synced = Len(file)
          /\ \A e \in Range(hist) : IsCommand(e) => Saved(e)

\* The store of an image is what the history up to its number makes.
UpTo(k) == Only(hist, {e \in Range(hist) : e.n <= k})
IsImage(img) == img.store = Apply(EmptyStore, UpTo(img.n)).store
StoreInv ==
    /\ up => store = Apply(EmptyStore, hist).store
    /\ IsImage(bin.hdr)
    /\ \A p \in Procs : Alive(p) => IsImage(proc[p].img)

-----------------------------------------------------------------------------
\* Buffers and stores.

\* What the assumptions say of the constants, in the form the proofs use.
LEMMA Consts ==
  /\ N \in Nat /\ N > 0 /\ Slots \in Nat /\ Slots > 0
  /\ TTL \in Nat /\ ClockBack \in Nat /\ MaxClock \in Nat /\ MaxCmds \in Nat
  /\ SnapInterval \in Time /\ Procs \subseteq Nat /\ 0 \notin Procs
BY SizeAssumption, ClockAssumption, IntervalAssumption, ProcsAssumption DEF Time

\* An absent buffer is a buffer.
LEMMA NoBufGood == NoBuf \in Buffer
BY Consts DEF NoBuf, Buffer, Time

\* The empty store is a store.
LEMMA EmptyGood == EmptyStore \in GoodStore /\ Users(EmptyStore) = {}
<1>1. EmptyStore \in [Uid -> Buffer] /\ \A u \in Uid : EmptyStore[u] = NoBuf
  BY NoBufGood DEF EmptyStore
<1>2. Users(EmptyStore) = {}
  BY <1>1 DEF Users, NoBuf
<1> QED
  BY <1>1, <1>2, FS_EmptySet, Consts DEF GoodStore

\* Pushing into a buffer gives a buffer with a record.
LEMMA BufPushGood ==
  ASSUME NEW b \in Buffer, NEW n \in Number, NEW ts \in Time
  PROVE  BufPush(b, n, ts) \in Buffer /\ BufPush(b, n, ts).recs # <<>>
<1> DEFINE r == b.recs
           s == IF Len(r) < N THEN Append(r, n) ELSE Append(Tail(r), n)
<1>1. r \in Seq(Number) /\ Len(r) \in Nat /\ Len(r) <= N /\ N \in Nat /\ N > 0
  BY Consts DEF Buffer
<1>2. s \in Seq(Number) /\ Len(s) <= N /\ s # <<>>
  <2> HIDE DEF r
  <2>1. CASE Len(r) < N
    BY <1>1, <2>1
  <2>2. CASE ~(Len(r) < N)
    <3>1. r # <<>> /\ Tail(r) \in Seq(Number) /\ Len(Tail(r)) = Len(r) - 1
      BY <1>1, <2>2
    <3> QED
      BY <1>1, <2>2, <3>1
  <2> QED
    BY <2>1, <2>2
<1> HIDE DEF r, s
<1>3. BufPush(b, n, ts) = [recs |-> s, ts |-> ts]
  BY DEF BufPush, r, s
<1> QED
  BY <1>2, <1>3 DEF Buffer

\* An entry applied to a store changes the buffer of its user only.
LEMMA ApplyEntryType ==
  ASSUME NEW st \in [Uid -> Buffer], NEW e \in Event
  PROVE  /\ ApplyEntry(st, e) \in [Uid -> Buffer]
         /\ Users(ApplyEntry(st, e)) =
               IF e.op = "PUSH" THEN Users(st) \cup {e.uid} ELSE Users(st) \ {e.uid}
<1>1. e.uid \in Uid /\ e.n \in Number /\ e.ts \in Time
  BY DEF Event, Logged
<1> DEFINE b == IF e.op = "PUSH" THEN BufPush(st[e.uid], e.n, e.ts) ELSE NoBuf
<1>2. b \in Buffer /\ (b.recs # <<>> <=> e.op = "PUSH")
  <2>1. CASE e.op = "PUSH"
    BY <1>1, <2>1, BufPushGood
  <2>2. CASE e.op # "PUSH"
    BY <2>2, NoBufGood DEF NoBuf
  <2> QED
    BY <2>1, <2>2
<1>3. ApplyEntry(st, e) = [st EXCEPT ![e.uid] = b]
  BY DEF ApplyEntry
<1> HIDE DEF b
<1>4. /\ ApplyEntry(st, e) \in [Uid -> Buffer]
      /\ \A u \in Uid : ApplyEntry(st, e)[u] = IF u = e.uid THEN b ELSE st[u]
  BY <1>1, <1>2, <1>3
<1> QED
  BY <1>1, <1>2, <1>4 DEF Users

\* If there is room for the entry the store keeps to its slots.
LEMMA ApplyEntryGood ==
  ASSUME NEW st \in GoodStore, NEW e \in Event, Room(st, e)
  PROVE  ApplyEntry(st, e) \in GoodStore
<1>1. st \in [Uid -> Buffer] /\ IsFiniteSet(Users(st)) /\ Cardinality(Users(st)) <= Slots
  BY DEF GoodStore
<1>2. Cardinality(Users(st)) \in Nat /\ Slots \in Nat
  BY <1>1, FS_CardinalityType, Consts
<1> DEFINE U == Users(st)
           V == Users(ApplyEntry(st, e))
<1>3. /\ ApplyEntry(st, e) \in [Uid -> Buffer]
      /\ V = IF e.op = "PUSH" THEN U \cup {e.uid} ELSE U \ {e.uid}
  BY <1>1, ApplyEntryType
<1>4. e.op = "PUSH" => e.uid \in U \/ Cardinality(U) < Slots
  BY DEF Room
<1> HIDE DEF U, V
<1>5. IsFiniteSet(V) /\ Cardinality(V) <= Slots
  <2>1. CASE e.op = "PUSH"
    <3>1. /\ IsFiniteSet(U \cup {e.uid})
          /\ Cardinality(U \cup {e.uid}) =
                IF e.uid \in U THEN Cardinality(U) ELSE Cardinality(U) + 1
      BY <1>1, FS_AddElement DEF U
    <3> QED
      BY <1>1, <1>2, <1>3, <1>4, <2>1, <3>1 DEF U
  <2>2. CASE e.op # "PUSH"
    <3>1. /\ IsFiniteSet(U \ {e.uid})
          /\ Cardinality(U \ {e.uid}) =
                IF e.uid \in U THEN Cardinality(U) - 1 ELSE Cardinality(U)
      BY <1>1, FS_RemoveElement DEF U
    <3> QED
      BY <1>1, <1>2, <1>3, <2>2, <3>1 DEF U
  <2> QED
    BY <2>1, <2>2
<1> QED
  BY <1>3, <1>5 DEF GoodStore, V

\* What parse_snapshot pushes is the buffer that was dumped.
LEMMA LoadBufSame ==
  ASSUME NEW b \in Buffer
  PROVE  LoadBuf(b) = b
<1> DEFINE r == b.recs
           n == Len(r)
           img == [i \in 0 .. n |-> IF i = 0 THEN NoBuf
                                    ELSE [recs |-> SubSeq(r, 1, i), ts |-> b.ts]]
           F == CHOOSE f : f = [i \in 0 .. n |->
                    IF i = 0 THEN NoBuf ELSE BufPush(f[i - 1], r[i], b.ts)]
<1>1. /\ r \in Seq(Number) /\ n \in Nat /\ n <= N /\ N \in Nat
      /\ b = [recs |-> r, ts |-> b.ts] /\ (r = <<>> => b = NoBuf)
  BY Consts DEF Buffer
<1>2. LoadBuf(b) = F[n]
  BY DEF LoadBuf
<1> HIDE DEF r, n
<1>3. ASSUME NEW i \in 1 .. n
      PROVE  img[i] = BufPush(img[i - 1], r[i], b.ts)
  <2>1. i \in 0 .. n /\ i # 0 /\ i - 1 \in 0 .. n /\ i \in Nat
    BY <1>1
  <2>2. img[i] = [recs |-> SubSeq(r, 1, i), ts |-> b.ts]
    BY <2>1
  <2>3. img[i - 1].recs = SubSeq(r, 1, i - 1)
    <3>1. CASE i = 1
      <4>1. i - 1 = 0 /\ img[0] = NoBuf /\ SubSeq(r, 1, 0) = <<>>
        BY <1>1, <2>1, <3>1, SubSeqEmpty
      <4> HIDE DEF img
      <4>2. NoBuf.recs = <<>>
        BY DEF NoBuf
      <4> QED
        BY <4>1, <4>2
    <3>2. CASE i # 1
      BY <2>1, <3>2
    <3> QED
      BY <3>1, <3>2
  <2> HIDE DEF img
  <2>4. Len(SubSeq(r, 1, i - 1)) = i - 1
    BY <1>1, <2>1, SplitAt DEF n
  <2>5. SubSeq(r, 1, i) = Append(SubSeq(r, 1, i - 1), r[i])
    <3>1. SubSeq(r, 1, i - 1) \in Seq(Number) /\ r[i] \in Number
      <4>1. i - 1 \in 0 .. Len(r) /\ i \in 1 .. Len(r)
        BY <1>1, <2>1 DEF n
      <4> QED
        BY <1>1, <4>1, SplitAt
    <3>2. SubSeq(r, 1, i) = SubSeq(r, 1, i - 1) \o <<r[i]>>
      <4>1. 1 \in 1 .. Len(r) /\ i \in 1 .. Len(r)
        BY <1>1 DEF n
      <4> QED
        BY <1>1, <4>1, SubSeqRecursiveSecond
    <3> QED
      BY <3>1, <3>2, AppendIsConcat
  <2>6. Len(img[i - 1].recs) < N
    BY <1>1, <2>3, <2>4
  <2>7. BufPush(img[i - 1], r[i], b.ts) = [recs |-> Append(img[i - 1].recs, r[i]), ts |-> b.ts]
    BY <2>6 DEF BufPush
  <2> QED
    BY <2>2, <2>3, <2>5, <2>7
<1>4. img = [i \in 0 .. n |-> IF i = 0 THEN NoBuf ELSE BufPush(img[i - 1], r[i], b.ts)]
  <2>1. \A i \in 0 .. n : i # 0 => i \in 1 .. n
    BY <1>1
  <2>2. \A i \in 0 .. n : i = 0 => img[i] = NoBuf
    OBVIOUS
  <2>3. img = [i \in 0 .. n |-> img[i]]
    OBVIOUS
  <2> HIDE DEF img
  <2>4. \A i \in 0 .. n : img[i] = IF i = 0 THEN NoBuf ELSE BufPush(img[i - 1], r[i], b.ts)
    BY <1>3, <2>1, <2>2
  <2> QED
    BY <2>3, <2>4, Zenon
<1>5. F = [i \in 0 .. n |-> IF i = 0 THEN NoBuf ELSE BufPush(F[i - 1], r[i], b.ts)]
  <2> HIDE DEF img
  <2>1. \E f : f = [i \in 0 .. n |-> IF i = 0 THEN NoBuf ELSE BufPush(f[i - 1], r[i], b.ts)]
    BY <1>4, Zenon
  <2> QED
    BY <2>1, Zenon
<1>6. img[0] = NoBuf
  BY <1>1
<1>7. n # 0 => img[n] = [recs |-> SubSeq(r, 1, n), ts |-> b.ts]
  BY <1>1
<1> HIDE DEF F, img
<1>8. \A i \in 0 .. n : F[i] = IF i = 0 THEN NoBuf ELSE BufPush(F[i - 1], r[i], b.ts)
  BY <1>5, Zenon
<1> DEFINE T == {i \in Nat : i <= n => F[i] = img[i]}
<1>9. 0 \in T
  BY <1>1, <1>6, <1>8
<1>10. ASSUME NEW i \in Nat, i \in T
       PROVE  i + 1 \in T
  <2> SUFFICES ASSUME i + 1 <= n
               PROVE  F[i + 1] = img[i + 1]
    OBVIOUS
  <2>1. i + 1 \in 1 .. n /\ i + 1 \in 0 .. n /\ i + 1 # 0 /\ (i + 1) - 1 = i /\ F[i] = img[i]
    BY <1>1, <1>10
  <2>2. F[i + 1] = BufPush(F[i], r[i + 1], b.ts)
    BY <1>8, <2>1
  <2>3. img[i + 1] = BufPush(img[i], r[i + 1], b.ts)
    BY <1>3, <2>1
  <2> QED
    BY <2>1, <2>2, <2>3
<1> HIDE DEF T
<1>11. \A i \in Nat : i \in T
  BY <1>9, <1>10, SetInduction
<1>12. F[n] = img[n]
  BY <1>1, <1>11 DEF T
<1>13. CASE n = 0
  <2>1. b = NoBuf
    BY <1>1, <1>13 DEF n
  <2> QED
    BY <1>2, <1>6, <1>12, <1>13, <2>1
<1>14. CASE n # 0
  <2>1. SubSeq(r, 1, n) = r
    BY <1>1, SubSeqFull DEF n
  <2> QED
    BY <1>1, <1>2, <1>7, <1>12, <1>14, <2>1
<1> QED
  BY <1>13, <1>14

-----------------------------------------------------------------------------
\* Apply, unfolded.

Step(r, e) == [store |-> ApplyEntry(r.store, e), fits |-> r.fits /\ Room(r.store, e)]

\* The partial results of Apply on the first n entries.
IsRun(f, st, es, n) ==
    f = [i \in 0 .. n |-> IF i = 0 THEN [store |-> st, fits |-> TRUE] ELSE Step(f[i - 1], es[i])]

\* The recursion of Apply has a solution.
LEMMA RunExists ==
  ASSUME NEW st, NEW es
  PROVE  \A n \in Nat : \E f : IsRun(f, st, es, n)
<1> DEFINE b == [store |-> st, fits |-> TRUE]
           S == {n \in Nat : \E f : IsRun(f, st, es, n)}
<1>1. 0 \in S
  <2> DEFINE f == [i \in 0 .. 0 |-> b]
  <2>1. f = [i \in 0 .. 0 |-> IF i = 0 THEN b ELSE Step(f[i - 1], es[i])]
    OBVIOUS
  <2>2. IsRun(f, st, es, 0)
    BY <2>1 DEF IsRun
  <2> QED
    BY <2>2
<1>2. ASSUME NEW n \in Nat, n \in S
      PROVE  n + 1 \in S
  <2>1. PICK f : IsRun(f, st, es, n)
    BY <1>2
  <2> DEFINE g == [i \in 0 .. n + 1 |-> IF i = 0 THEN b ELSE Step(f[i - 1], es[i])]
  <2> HIDE DEF b
  <2>2. \A i \in 0 .. n : g[i] = f[i]
    <3>1. \A i \in 0 .. n : f[i] = IF i = 0 THEN b ELSE Step(f[i - 1], es[i])
      BY <2>1, Zenon DEF IsRun, b
    <3>2. \A i \in 0 .. n : i \in 0 .. n + 1
      OBVIOUS
    <3> QED
      BY <3>1, <3>2
  <2>3. g = [i \in 0 .. n + 1 |-> IF i = 0 THEN b ELSE Step(g[i - 1], es[i])]
    <3>1. \A i \in 0 .. n + 1 : i # 0 => i - 1 \in 0 .. n
      OBVIOUS
    <3> HIDE DEF g
    <3>2. \A i \in 0 .. n + 1 : i # 0 => g[i - 1] = f[i - 1]
      BY <2>2, <3>1
    <3> QED
      BY <3>2 DEF g
  <2> HIDE DEF g
  <2>4. IsRun(g, st, es, n + 1)
    BY <2>3 DEF IsRun, b
  <2> QED
    BY <2>4
<1> HIDE DEF S
<1>3. \A n \in Nat : n \in S
  BY <1>1, <1>2, SetInduction
<1> QED
  BY <1>3 DEF S

\* Two runs agree as long as their entries do.
LEMMA RunAgree ==
  ASSUME NEW st, NEW es, NEW et, NEW n \in Nat, NEW m \in Nat, n <= m,
         NEW f, NEW g, IsRun(f, st, es, n), IsRun(g, st, et, m),
         \A i \in 1 .. n : es[i] = et[i]
  PROVE  f[n] = g[n]
<1> DEFINE b == [store |-> st, fits |-> TRUE]
           T == {i \in Nat : i <= n => f[i] = g[i]}
<1> HIDE DEF b
<1>1. \A i \in 0 .. n : f[i] = IF i = 0 THEN b ELSE Step(f[i - 1], es[i])
  BY Zenon DEF IsRun, b
<1>2. \A i \in 0 .. m : g[i] = IF i = 0 THEN b ELSE Step(g[i - 1], et[i])
  BY Zenon DEF IsRun, b
<1>3. 0 \in T
  BY <1>1, <1>2
<1>4. ASSUME NEW i \in Nat, i \in T
      PROVE  i + 1 \in T
  <2> SUFFICES ASSUME i + 1 <= n
               PROVE  f[i + 1] = g[i + 1]
    OBVIOUS
  <2>1. /\ i + 1 \in 1 .. n /\ i + 1 \in 0 .. n /\ i + 1 \in 0 .. m /\ i + 1 # 0
        /\ (i + 1) - 1 = i /\ f[i] = g[i]
    BY <1>4
  <2>2. f[i + 1] = Step(f[i], es[i + 1])
    BY <1>1, <2>1
  <2>3. g[i + 1] = Step(g[i], et[i + 1])
    BY <1>2, <2>1
  <2> QED
    BY <2>1, <2>2, <2>3
<1> HIDE DEF T
<1>5. \A i \in Nat : i \in T
  BY <1>3, <1>4, SetInduction
<1> QED
  BY <1>5 DEF T

\* Apply is the last partial result.
LEMMA ApplyUnfold ==
  ASSUME NEW st, NEW es, Len(es) \in Nat
  PROVE  \E f : IsRun(f, st, es, Len(es)) /\ Apply(st, es) = f[Len(es)]
<1> DEFINE n == Len(es)
           F == CHOOSE f : f = [i \in 0 .. n |->
                   IF i = 0 THEN [store |-> st, fits |-> TRUE]
                   ELSE [store |-> ApplyEntry(f[i - 1].store, es[i]),
                         fits |-> f[i - 1].fits /\ Room(f[i - 1].store, es[i])]]
<1>1. \E f : f = [i \in 0 .. n |->
                   IF i = 0 THEN [store |-> st, fits |-> TRUE]
                   ELSE [store |-> ApplyEntry(f[i - 1].store, es[i]),
                         fits |-> f[i - 1].fits /\ Room(f[i - 1].store, es[i])]]
  <2>1. \E f : IsRun(f, st, es, n)
    BY RunExists
  <2> QED
    BY <2>1, Zenon DEF IsRun, Step
<1>2. IsRun(F, st, es, n)
  BY <1>1, Zenon DEF IsRun, Step
<1>3. Apply(st, es) = F[n]
  BY Zenon DEF Apply
<1> QED
  BY <1>2, <1>3, Zenon

\* No entries change nothing.
LEMMA ApplyEmpty ==
  ASSUME NEW st
  PROVE  Apply(st, <<>>) = [store |-> st, fits |-> TRUE]
<1>1. Len(<<>>) = 0
  OBVIOUS
<1>2. PICK f : IsRun(f, st, <<>>, 0) /\ Apply(st, <<>>) = f[0]
  BY <1>1, ApplyUnfold
<1>3. f[0] = [store |-> st, fits |-> TRUE]
  BY <1>2 DEF IsRun
<1> QED
  BY <1>2, <1>3

\* An entry at the end is applied last.
LEMMA ApplyAppend ==
  ASSUME NEW st, NEW E, NEW es \in Seq(E), NEW e \in E
  PROVE  Apply(st, Append(es, e)) = Step(Apply(st, es), e)
<1> DEFINE n == Len(es)
           et == Append(es, e)
<1>1. /\ n \in Nat /\ n + 1 \in Nat /\ n <= n + 1 /\ Len(et) = n + 1 /\ et[n + 1] = e
      /\ \A i \in 1 .. n : es[i] = et[i]
  OBVIOUS
<1> HIDE DEF et
<1>2. PICK f : IsRun(f, st, es, n) /\ Apply(st, es) = f[n]
  BY <1>1, ApplyUnfold
<1>3. PICK g : IsRun(g, st, et, n + 1) /\ Apply(st, et) = g[n + 1]
  BY <1>1, ApplyUnfold
<1> HIDE DEF n
<1>4. f[n] = g[n]
  BY <1>1, <1>2, <1>3, RunAgree
<1>5. g[n + 1] = Step(g[n], et[n + 1])
  <2>1. \A i \in 0 .. n + 1 :
            g[i] = IF i = 0 THEN [store |-> st, fits |-> TRUE] ELSE Step(g[i - 1], et[i])
    BY <1>3, Zenon DEF IsRun
  <2>2. n + 1 \in 0 .. n + 1 /\ n + 1 # 0 /\ (n + 1) - 1 = n
    BY <1>1
  <2> QED
    BY <2>1, <2>2
<1> QED
  BY <1>1, <1>2, <1>3, <1>4, <1>5 DEF et

\* Entries applied to a store give a store, within its slots if they fit.
LEMMA ApplyGood ==
  ASSUME NEW st \in GoodStore
  PROVE  \A es \in Seq(Event) :
            /\ Apply(st, es).store \in [Uid -> Buffer]
            /\ Apply(st, es).fits \in BOOLEAN
            /\ Apply(st, es).fits => Apply(st, es).store \in GoodStore
<1> DEFINE Good(es) == /\ Apply(st, es).store \in [Uid -> Buffer]
                       /\ Apply(st, es).fits \in BOOLEAN
                       /\ Apply(st, es).fits => Apply(st, es).store \in GoodStore
           P == {es \in Seq(Event) : Good(es)}
<1>1. <<>> \in P
  <2>1. Apply(st, <<>>).store = st /\ Apply(st, <<>>).fits = TRUE
    BY ApplyEmpty
  <2>2. st \in [Uid -> Buffer]
    BY DEF GoodStore
  <2>3. Good(<<>>)
    BY <2>1, <2>2
  <2> HIDE DEF Good
  <2> QED
    BY <2>3
<1>2. ASSUME NEW es \in Seq(Event), NEW e \in Event, es \in P
      PROVE  Append(es, e) \in P
  <2>1. Apply(st, Append(es, e)) = Step(Apply(st, es), e)
    BY ApplyAppend
  <2> DEFINE r == Apply(st, es)
             t == Apply(st, Append(es, e))
  <2>2. t.store = ApplyEntry(r.store, e) /\ t.fits = (r.fits /\ Room(r.store, e))
    BY <2>1 DEF Step
  <2>3. r.store \in [Uid -> Buffer] /\ (r.fits => r.store \in GoodStore)
    BY <1>2
  <2> HIDE DEF r, t
  <2>4. t.store \in [Uid -> Buffer]
    BY <2>2, <2>3, ApplyEntryType
  <2>5. t.fits \in BOOLEAN
    BY <2>2, Zenon
  <2>6. t.fits => t.store \in GoodStore
    BY <2>2, <2>3, ApplyEntryGood
  <2>7. Append(es, e) \in Seq(Event)
    OBVIOUS
  <2> QED
    BY <2>4, <2>5, <2>6, <2>7 DEF t
<1> HIDE DEF P
<1>3. \A es \in Seq(Event) : es \in P
  BY <1>1, <1>2, SequenceInduction
<1> QED
  BY <1>3 DEF P

\* Entries applied in two parts.
LEMMA ApplyConcat ==
  ASSUME NEW st \in GoodStore, NEW s \in Seq(Event)
  PROVE  \A t \in Seq(Event) :
            /\ Apply(st, s \o t).store = Apply(Apply(st, s).store, t).store
            /\ Apply(st, s \o t).fits <=>
                  Apply(st, s).fits /\ Apply(Apply(st, s).store, t).fits
<1> DEFINE r == Apply(st, s)
           Both(t) == /\ Apply(st, s \o t).store = Apply(r.store, t).store
                      /\ Apply(st, s \o t).fits <=> r.fits /\ Apply(r.store, t).fits
           P == {t \in Seq(Event) : Both(t)}
<1>1. <<>> \in P
  <2>1. s \o <<>> = s
    OBVIOUS
  <2>2. Apply(r.store, <<>>).store = r.store /\ Apply(r.store, <<>>).fits = TRUE
    BY ApplyEmpty
  <2> QED
    BY <2>1, <2>2
<1>2. ASSUME NEW t \in Seq(Event), NEW e \in Event, t \in P
      PROVE  Append(t, e) \in P
  <2>1. s \o Append(t, e) = Append(s \o t, e) /\ s \o t \in Seq(Event)
    OBVIOUS
  <2> DEFINE a == Apply(st, s \o t)
             c == Apply(st, s \o Append(t, e))
             q == Apply(r.store, t)
             x == Apply(r.store, Append(t, e))
  <2>2. c = Step(a, e)
    <3>1. Apply(st, Append(s \o t, e)) = Step(a, e)
      BY <2>1, ApplyAppend
    <3> QED
      BY <2>1, <3>1, Zenon
  <2>3. x = Step(q, e)
    BY ApplyAppend
  <2>4. a.store = q.store /\ (a.fits <=> r.fits /\ q.fits)
    BY <1>2
  <2>5. Append(t, e) \in Seq(Event)
    OBVIOUS
  <2> HIDE DEF a, c, q, x, r
  <2>6. /\ c.store = ApplyEntry(a.store, e) /\ c.fits = (a.fits /\ Room(a.store, e))
        /\ x.store = ApplyEntry(q.store, e) /\ x.fits = (q.fits /\ Room(q.store, e))
    BY <2>2, <2>3 DEF Step
  <2>7. c.store = x.store
    BY <2>4, <2>6
  <2>8. c.fits <=> r.fits /\ x.fits
    BY <2>4, <2>6
  <2> QED
    BY <2>5, <2>7, <2>8 DEF c, x
<1> HIDE DEF P
<1>3. \A t \in Seq(Event) : t \in P
  BY <1>1, <1>2, SequenceInduction
<1> QED
  BY <1>3 DEF P

-----------------------------------------------------------------------------
\* Selections of entries, and their order.

\* An entry at the end is selected last, or not.
LEMMA OnlyAppend ==
  ASSUME NEW E, NEW es \in Seq(E), NEW S
  PROVE  /\ Only(es, S) \in Seq(E)
         /\ Only(<<>>, S) = <<>>
         /\ \A e \in E : Only(Append(es, e), S) =
                IF e \in S THEN Append(Only(es, S), e) ELSE Only(es, S)
<1> DEFINE one(e) == IF e \in S THEN <<e>> ELSE <<>>
           ss(t) == [i \in 1 .. Len(t) |-> IF t[i] \in S THEN <<t[i]>> ELSE <<>>]
<1>1. \A t \in Seq(E) : ss(t) \in Seq(Seq(E)) /\ Len(ss(t)) = Len(t)
  <2> SUFFICES ASSUME NEW t \in Seq(E)
               PROVE  ss(t) \in Seq(Seq(E)) /\ Len(ss(t)) = Len(t)
    OBVIOUS
  <2>1. Len(t) \in Nat /\ \A i \in 1 .. Len(t) : t[i] \in E
    OBVIOUS
  <2>2. \A i \in 1 .. Len(t) : (IF t[i] \in S THEN <<t[i]>> ELSE <<>>) \in Seq(E)
    BY <2>1
  <2> QED
    BY <2>1, <2>2
<1>2. \A t : Only(t, S) = FlattenSeq(ss(t))
  BY DEF Only
<1>3. Only(es, S) \in Seq(E)
  <2> HIDE DEF ss
  <2> QED
    BY <1>1, <1>2, FlattenType
<1>4. Only(<<>>, S) = <<>>
  <2>1. ss(<<>>) \in Seq(Seq(E)) /\ Len(ss(<<>>)) = 0
    BY <1>1
  <2> HIDE DEF ss
  <2> QED
    BY <1>2, <2>1, FlattenEmpty
<1>5. ASSUME NEW e \in E
      PROVE  Only(Append(es, e), S) = IF e \in S THEN Append(Only(es, S), e) ELSE Only(es, S)
  <2> DEFINE et == Append(es, e)
             n == Len(es)
  <2>1. /\ n \in Nat /\ et \in Seq(E) /\ Len(et) = n + 1 /\ et[n + 1] = e
        /\ \A i \in 1 .. n : et[i] = es[i]
    OBVIOUS
  <2>2. one(e) \in Seq(E)
    OBVIOUS
  <2> HIDE DEF et
  <2>3. \A i \in 1 .. n : ss(es)[i] = one(es[i])
    OBVIOUS
  <2>4. \A i \in 1 .. n + 1 : ss(et)[i] = one(et[i])
    BY <2>1
  <2>5. /\ ss(es) \in Seq(Seq(E)) /\ Len(ss(es)) = n
        /\ ss(et) \in Seq(Seq(E)) /\ Len(ss(et)) = n + 1
    BY <1>1, <2>1
  <2> HIDE DEF ss, n, one
  <2>6. /\ Append(ss(es), one(e)) \in Seq(Seq(E))
        /\ Len(Append(ss(es), one(e))) = n + 1
        /\ \A i \in 1 .. n : Append(ss(es), one(e))[i] = ss(es)[i]
        /\ Append(ss(es), one(e))[n + 1] = one(e)
    BY <2>1, <2>2, <2>5, AppendProperties
  <2>7. \A i \in 1 .. n + 1 : ss(et)[i] = Append(ss(es), one(e))[i]
    <3>1. \A i \in 1 .. n + 1 : i \in 1 .. n \/ i = n + 1
      BY <2>1
    <3> QED
      BY <2>1, <2>3, <2>4, <2>6, <3>1
  <2>8. ss(et) = Append(ss(es), one(e))
    BY <2>5, <2>6, <2>7, SeqEqual
  <2>9. FlattenSeq(ss(et)) = FlattenSeq(ss(es)) \o one(e)
    BY <2>2, <2>5, <2>8, FlattenAppend
  <2>10. Only(et, S) = Only(es, S) \o one(e)
    BY <1>2, <2>9
  <2>11. CASE e \in S
    <3>1. one(e) = <<e>>
      BY <2>11 DEF one
    <3>2. Append(Only(es, S), e) = Only(es, S) \o <<e>>
      BY <1>3, AppendIsConcat
    <3> QED
      BY <2>10, <2>11, <3>1, <3>2 DEF et
  <2>12. CASE e \notin S
    <3>1. one(e) = <<>>
      BY <2>12 DEF one
    <3>2. Only(es, S) \o <<>> = Only(es, S)
      BY <1>3, ConcatEmptySeq
    <3> QED
      BY <2>10, <2>12, <3>1, <3>2 DEF et
  <2> QED
    BY <2>11, <2>12
<1> QED
  BY <1>3, <1>4, <1>5

\* The selected entries are those in S.
LEMMA OnlyRange ==
  ASSUME NEW E, NEW S
  PROVE  \A es \in Seq(E) : Only(es, S) \in Seq(E) /\ Range(Only(es, S)) = Range(es) \cap S
<1> DEFINE P == {es \in Seq(E) : Range(Only(es, S)) = Range(es) \cap S}
<1>1. <<>> \in P
  <2>1. <<>> \in Seq(E) /\ Only(<<>>, S) = <<>>
    <3>1. <<>> \in Seq(E)
      OBVIOUS
    <3> QED
      BY <3>1, OnlyAppend
  <2> QED
    BY <2>1, RangeEmpty
<1>2. ASSUME NEW es \in Seq(E), NEW e \in E, es \in P
      PROVE  Append(es, e) \in P
  <2>1. /\ Only(es, S) \in Seq(E) /\ Append(es, e) \in Seq(E)
        /\ Only(Append(es, e), S) = IF e \in S THEN Append(Only(es, S), e) ELSE Only(es, S)
    BY OnlyAppend
  <2>2. Range(Append(es, e)) = Range(es) \cup {e}
    BY RangeAppend
  <2>3. Range(Append(Only(es, S), e)) = Range(Only(es, S)) \cup {e}
    BY <2>1, RangeAppend
  <2>4. Range(Only(es, S)) = Range(es) \cap S
    BY <1>2
  <2>5. Range(Only(Append(es, e), S)) = Range(Append(es, e)) \cap S
    <3>1. CASE e \in S
      BY <2>1, <2>2, <2>3, <2>4, <3>1
    <3>2. CASE e \notin S
      BY <2>1, <2>2, <2>4, <3>2
    <3> QED
      BY <3>1, <3>2
  <2> QED
    BY <2>1, <2>5
<1> HIDE DEF P
<1>3. \A es \in Seq(E) : es \in P
  BY <1>1, <1>2, SequenceInduction
<1>4. \A es \in Seq(E) : Only(es, S) \in Seq(E)
  BY OnlyAppend
<1> QED
  BY <1>3, <1>4 DEF P

\* Order, by elements: of two sequences one after the other ...
LEMMA SortedConcat ==
  ASSUME NEW E, NEW s \in Seq(E), NEW t \in Seq(E), \A e \in E : e.n \in Nat
  PROVE  Sorted(s \o t) <=>
            Sorted(s) /\ Sorted(t) /\ \A x \in Range(s), y \in Range(t) : x.n < y.n
<1> DEFINE u == s \o t
           a == Len(s)
           c == Len(t)
<1>1. /\ a \in Nat /\ c \in Nat /\ Len(u) = a + c
      /\ \A i \in 1 .. a : u[i] = s[i]
      /\ \A i \in 1 .. c : u[a + i] = t[i]
      /\ \A i \in 1 .. a : s[i] \in E
      /\ \A i \in 1 .. c : t[i] \in E
  OBVIOUS
<1>2. Range(s) = {s[i] : i \in 1 .. a} /\ Range(t) = {t[i] : i \in 1 .. c}
  BY RangeEquality
<1> HIDE DEF u, a, c
<1>3. ASSUME Sorted(u)
      PROVE  Sorted(s) /\ Sorted(t) /\ \A x \in Range(s), y \in Range(t) : x.n < y.n
  <2>1. \A i, j \in 1 .. a + c : i < j => u[i].n < u[j].n
    BY <1>1, <1>3 DEF Sorted
  <2>2. Sorted(s)
    <3>1. \A i \in 1 .. a : i \in 1 .. a + c
      BY <1>1
    <3> QED
      BY <1>1, <2>1, <3>1 DEF Sorted, a
  <2>3. Sorted(t)
    <3>1. \A i, j \in 1 .. c : a + i \in 1 .. a + c /\ (i < j => a + i < a + j)
      BY <1>1
    <3>2. \A i, j \in 1 .. c : i < j => t[i].n < t[j].n
      BY <1>1, <2>1, <3>1
    <3> QED
      BY <3>2 DEF Sorted, c
  <2>4. ASSUME NEW x \in Range(s), NEW y \in Range(t)
        PROVE  x.n < y.n
    <3>1. PICK i \in 1 .. a, j \in 1 .. c : x = s[i] /\ y = t[j]
      BY <1>2
    <3>2. i \in 1 .. a + c /\ a + j \in 1 .. a + c /\ i < a + j
      BY <1>1
    <3> QED
      BY <1>1, <2>1, <3>1, <3>2
  <2> QED
    BY <2>2, <2>3, <2>4
<1>4. ASSUME Sorted(s), Sorted(t), \A x \in Range(s), y \in Range(t) : x.n < y.n
      PROVE  Sorted(u)
  <2> SUFFICES ASSUME NEW i \in 1 .. a + c, NEW j \in 1 .. a + c, i < j
               PROVE  u[i].n < u[j].n
    BY <1>1 DEF Sorted
  <2>1. CASE j <= a
    <3>1. i \in 1 .. a /\ j \in 1 .. a
      BY <1>1, <2>1
    <3> QED
      BY <1>1, <1>4, <3>1 DEF Sorted, a
  <2>2. CASE i <= a /\ ~(j <= a)
    <3>1. i \in 1 .. a /\ j - a \in 1 .. c /\ a + (j - a) = j
      BY <1>1, <2>2
    <3>2. u[i] \in Range(s) /\ u[j] \in Range(t)
      BY <1>1, <1>2, <3>1
    <3> QED
      BY <1>4, <3>2
  <2>3. CASE ~(i <= a)
    <3>1. /\ i - a \in 1 .. c /\ j - a \in 1 .. c /\ a + (j - a) = j /\ a + (i - a) = i
          /\ i - a < j - a
      BY <1>1, <2>3
    <3>2. u[i] = t[i - a] /\ u[j] = t[j - a]
      BY <1>1, <3>1
    <3>3. t[i - a].n < t[j - a].n
      BY <1>4, <3>1 DEF Sorted, c
    <3> QED
      BY <3>2, <3>3
  <2> QED
    BY <2>1, <2>2, <2>3
<1> QED
  BY <1>3, <1>4 DEF u

\* ... and with one more at the end.
LEMMA SortedAppend ==
  ASSUME NEW E, NEW s \in Seq(E), NEW e \in E, \A x \in E : x.n \in Nat
  PROVE  Sorted(Append(s, e)) <=> Sorted(s) /\ \A x \in Range(s) : x.n < e.n
<1>1. Append(s, e) = s \o <<e>> /\ <<e>> \in Seq(E)
  BY AppendIsConcat
<1>2. Sorted(<<e>>)
  <2>1. Len(<<e>>) = 1
    OBVIOUS
  <2> QED
    BY <2>1 DEF Sorted
<1>3. Range(<<e>>) = {<<e>>[i] : i \in 1 .. Len(<<e>>)}
  BY <1>1, RangeEquality
<1>4. Range(<<e>>) = {e}
  BY <1>3
<1>5. Sorted(s \o <<e>>) <=>
         Sorted(s) /\ Sorted(<<e>>) /\ \A x \in Range(s), y \in Range(<<e>>) : x.n < y.n
  BY <1>1, SortedConcat
<1> QED
  BY <1>1, <1>2, <1>4, <1>5, Zenon

\* A selection keeps the order.
LEMMA OnlySorted ==
  ASSUME NEW E, NEW S, \A x \in E : x.n \in Nat
  PROVE  \A es \in Seq(E) : Sorted(es) => Sorted(Only(es, S))
<1> DEFINE P == {es \in Seq(E) : Sorted(es) => Sorted(Only(es, S))}
<1>1. <<>> \in P
  <2>1. <<>> \in Seq(E) /\ Only(<<>>, S) = <<>>
    <3>1. <<>> \in Seq(E)
      OBVIOUS
    <3> QED
      BY <3>1, OnlyAppend
  <2> QED
    BY <2>1
<1>2. ASSUME NEW es \in Seq(E), NEW e \in E, es \in P
      PROVE  Append(es, e) \in P
  <2>1. Append(es, e) \in Seq(E)
    OBVIOUS
  <2> SUFFICES ASSUME Sorted(Append(es, e))
               PROVE  Sorted(Only(Append(es, e), S))
    BY <2>1
  <2>2. Sorted(es) /\ \A x \in Range(es) : x.n < e.n
    BY SortedAppend
  <2>3. Sorted(Only(es, S))
    BY <1>2, <2>2
  <2>4. Only(es, S) \in Seq(E) /\ Range(Only(es, S)) = Range(es) \cap S
    BY OnlyRange
  <2>5. Sorted(Append(Only(es, S), e))
    <3>1. \A x \in Range(Only(es, S)) : x.n < e.n
      BY <2>2, <2>4
    <3> QED
      BY <2>3, <2>4, <3>1, SortedAppend
  <2>6. Only(Append(es, e), S) = IF e \in S THEN Append(Only(es, S), e) ELSE Only(es, S)
    BY OnlyAppend
  <2> QED
    BY <2>3, <2>5, <2>6
<1> HIDE DEF P
<1>3. \A es \in Seq(E) : es \in P
  BY <1>1, <1>2, SequenceInduction
<1> QED
  BY <1>3 DEF P

\* The order and the elements determine a sequence.
LEMMA SortedUnique ==
  ASSUME NEW E, \A x \in E : x.n \in Nat
  PROVE  \A s, t \in Seq(E) : Sorted(s) /\ Sorted(t) /\ Range(s) = Range(t) => s = t
<1> DEFINE P == {s \in Seq(E) : Sorted(s) =>
                    \A t \in Seq(E) : Sorted(t) /\ Range(s) = Range(t) => s = t}
<1>1. <<>> \in P
  <2> SUFFICES ASSUME NEW t \in Seq(E), Range(<<>>) = Range(t)
               PROVE  <<>> = t
    OBVIOUS
  <2>1. Range(t) = {}
    BY RangeEmpty
  <2>2. Range(t) = {t[i] : i \in 1 .. Len(t)} /\ Len(t) \in Nat
    BY RangeEquality
  <2>3. Len(t) = 0
    <3> SUFFICES ASSUME Len(t) # 0
                 PROVE  FALSE
      OBVIOUS
    <3>1. 1 \in 1 .. Len(t)
      BY <2>2
    <3>2. t[1] \in Range(t)
      BY <2>2, <3>1
    <3> QED
      BY <2>1, <3>2
  <2> QED
    BY <2>3
<1>2. ASSUME NEW s \in Seq(E), NEW e \in E, s \in P
      PROVE  Append(s, e) \in P
  <2> SUFFICES ASSUME Sorted(Append(s, e)),
                      NEW t \in Seq(E), Sorted(t), Range(Append(s, e)) = Range(t)
               PROVE  Append(s, e) = t
    OBVIOUS
  <2>1. Range(Append(s, e)) = Range(s) \cup {e}
    BY RangeAppend
  <2>2. Sorted(s) /\ \A x \in Range(s) : x.n < e.n
    BY SortedAppend
  <2>3. t # <<>>
    BY <2>1, RangeEmpty
  <2>4. PICK u \in Seq(E), f \in E : t = Append(u, f)
    BY <2>3, SequenceEmptyOrAppend
  <2>5. Range(t) = Range(u) \cup {f}
    BY <2>4, RangeAppend
  <2>6. Sorted(u) /\ \A x \in Range(u) : x.n < f.n
    BY <2>4, SortedAppend
  <2>7. e.n \in Nat /\ f.n \in Nat
    OBVIOUS
  <2>8. e \in Range(u) \cup {f} /\ f \in Range(s) \cup {e}
    BY <2>1, <2>5
  <2>9. e = f
    <3> SUFFICES ASSUME e # f
                 PROVE  FALSE
      OBVIOUS
    <3>1. e.n < f.n /\ f.n < e.n
      BY <2>2, <2>6, <2>8
    <3> QED
      BY <2>7, <3>1
  <2>10. e \notin Range(s) /\ f \notin Range(u)
    BY <2>2, <2>6, <2>7
  <2>11. Range(s) = Range(u)
    <3>1. Range(s) \cup {e} = Range(u) \cup {e}
      BY <2>1, <2>5, <2>9, Zenon
    <3>2. e \notin Range(u)
      BY <2>9, <2>10
    <3>3. \A x : x \in Range(s) <=> x \in Range(u)
      BY <2>10, <3>1, <3>2, Zenon
    <3> QED
      BY <3>3, Zenon
  <2>12. s = u
    BY <1>2, <2>2, <2>6, <2>11
  <2> QED
    BY <2>4, <2>9, <2>12
<1> HIDE DEF P
<1>3. \A s \in Seq(E) : s \in P
  BY <1>1, <1>2, SequenceInduction
<1> QED
  BY <1>3 DEF P

-----------------------------------------------------------------------------
\* Recovery.

\* What replay reads of a file are commands.
LEMMA ReadableType ==
  ASSUME NEW es \in Seq(Logged \cup {TornEntry})
  PROVE  /\ Readable(es) \in Seq(Logged)
         /\ es \in Seq(Logged) => Readable(es) = es
<1> DEFINE torn == {i \in 1 .. Len(es) : es[i].op = "TORN"}
<1>1. Len(es) \in Nat /\ \A i \in 1 .. Len(es) : es[i] \in Logged \cup {TornEntry}
  OBVIOUS
<1>2. \A e \in Logged \cup {TornEntry} : e \in Logged <=> e.op # "TORN"
  BY DEF Logged, TornEntry
<1>3. Readable(es) = IF torn = {} THEN es ELSE SubSeq(es, 1, Min(torn) - 1)
  BY DEF Readable
<1>4. CASE torn = {}
  <2>1. \A i \in 1 .. Len(es) : es[i] \in Logged
    BY <1>1, <1>2, <1>4
  <2>2. es \in Seq(Logged)
    BY <1>1, <2>1
  <2> QED
    BY <1>3, <1>4, <2>2
<1>5. CASE torn # {}
  <2> DEFINE k == Min(torn)
  <2>1. torn \subseteq Nat
    BY <1>1
  <2>2. \E x \in torn : \A y \in torn : x <= y
    BY <1>5, <2>1, LeastNumber
  <2>3. k \in torn /\ \A y \in torn : k <= y
    BY <2>2 DEF Min
  <2> HIDE DEF k
  <2>4. k \in 1 .. Len(es) /\ es[k].op = "TORN"
    BY <2>3
  <2>5. \A i \in 1 .. k - 1 : es[i] \in Logged
    <3>1. \A i \in 1 .. k - 1 : i \in 1 .. Len(es) /\ ~(k <= i)
      BY <1>1, <2>4
    <3>2. \A i \in 1 .. k - 1 : i \notin torn
      BY <2>3, <3>1
    <3> QED
      BY <1>1, <1>2, <3>1, <3>2
  <2>6. SubSeq(es, 1, k - 1) \in Seq(Logged)
    <3>1. 1 \in Int /\ k - 1 \in Int
      BY <2>4
    <3> QED
      BY <2>5, <3>1, SubSeqProperties
  <2>7. es \notin Seq(Logged)
    BY <1>1, <1>2, <2>4
  <2> QED
    BY <1>3, <1>5, <2>6, <2>7 DEF k
<1> QED
  BY <1>4, <1>5

\* Commands are events.
LEMMA LoggedEvents ==
  /\ Logged \subseteq Event /\ Seq(Logged) \subseteq Seq(Event)
  /\ Seq(Logged) \subseteq Seq(Logged \cup {TornEntry})
  /\ \A e \in Event : e.n \in Nat /\ e.n > 0 /\ e.ts \in Nat
<1>1. Logged \subseteq Event /\ Logged \subseteq Logged \cup {TornEntry}
  BY DEF Event
<1>2. \A e \in Event : e.n \in Number /\ e.ts \in Time
  BY DEF Event, Logged
<1> QED
  BY <1>1, <1>2, SeqMonotonic, Consts DEF Number, Time

\* A snapshot is loaded as it was dumped.
LEMMA SnapStoreIs ==
  ASSUME NEW f \in SnapFile
  PROVE  /\ SnapStore(f) = IF f.hdr = NoPart THEN EmptyStore ELSE f.body.store
         /\ SnapStore(f) \in GoodStore
<1>1. f.body.store \in GoodStore
  BY DEF SnapFile, Image
<1> DEFINE st == f.body.store
<1> HIDE DEF st
<1>2. st \in [Uid -> Buffer]
  BY <1>1 DEF GoodStore, st
<1>3. \A u \in Uid : LoadBuf(st[u]) = st[u]
  BY <1>2, LoadBufSame
<1>4. [u \in Uid |-> LoadBuf(st[u])] = st
  BY <1>2, <1>3
<1>5. SnapStore(f) = IF f.hdr = NoPart THEN EmptyStore ELSE f.body.store
  BY <1>4 DEF SnapStore, st
<1> QED
  BY <1>1, <1>5, EmptyGood

\* What replay applies: the commands it reads that are later than the snapshot.
Replayed == Only(Readable(file), {e \in Range(file) : e.ts > SnapTs(bin)})

\* recover() as Apply, and its result within the slots.
LEMMA RecoveredIs ==
  ASSUME Types
  PROVE  /\ Recovered = Apply(SnapStore(bin), Replayed)
         /\ Replayed \in Seq(Logged) /\ Replayed \in Seq(Event)
         /\ SnapStore(bin) \in GoodStore
         /\ Recovered.fits => Recovered.store \in GoodStore
<1>1. file \in Seq(Logged \cup {TornEntry}) /\ bin \in SnapFile
  BY DEF Types, ServerTypes, SnapTypes
<1>2. Readable(file) \in Seq(Logged)
  BY <1>1, ReadableType
<1>3. Replayed \in Seq(Logged)
  BY <1>2, OnlyRange DEF Replayed
<1>4. Replayed \in Seq(Event)
  BY <1>3, LoggedEvents
<1>5. SnapStore(bin) \in GoodStore
  BY <1>1, SnapStoreIs
<1>6. Recovered = Apply(SnapStore(bin), Replayed)
  BY DEF Recovered, Replay, Replayed
<1> QED
  BY <1>3, <1>4, <1>5, <1>6, ApplyGood

-----------------------------------------------------------------------------
\* Types and snapshots: the part that needs no assumption.

\* The two halves of the type invariant.
LEMMA TypesSplit == Types <=> ServerTypes /\ SnapTypes
BY DEF Types, ServerTypes, SnapTypes

\* A snapshot that was never written.
LEMMA NoPartGood == NoPart \in Image /\ NoFile \in SnapFile /\ NoProc \in Child
<1>1. NoPart \in Image
  BY EmptyGood, Consts DEF NoPart, Image, Time
<1> QED
  BY <1>1 DEF NoFile, SnapFile, NoProc, Child

\* What may be left of a buffer is a buffer, with no record the buffer has not.
LEMMA WrittenGood ==
  ASSUME NEW b \in Buffer, NEW w \in Written(b)
  PROVE  w \in Buffer /\ (w.recs # <<>> => b.recs # <<>>)
<1>1. /\ b \in [recs : Seq(Number), ts : Time] /\ b.recs \in Seq(Number)
      /\ Len(b.recs) \in Nat /\ Len(b.recs) <= N
  BY DEF Buffer
<1>2. CASE w \in {NoBuf, b}
  BY <1>2, NoBufGood DEF NoBuf
<1>3. CASE w \notin {NoBuf, b}
  <2>1. PICK k \in 1 .. Len(b.recs) - 1 : w = [b EXCEPT !.recs = SubSeq(@, 1, k)]
    BY <1>3 DEF Written
  <2> DEFINE s == SubSeq(b.recs, 1, k)
  <2>2. k \in 0 .. Len(b.recs) /\ k > 0 /\ k <= Len(b.recs)
    BY <1>1
  <2>3. s \in Seq(Number) /\ Len(s) = k
    BY <1>1, <2>2, SplitAt
  <2>4. w = [b EXCEPT !.recs = s]
    BY <2>1
  <2> HIDE DEF s
  <2>5. w \in [recs : Seq(Number), ts : Time] /\ w.recs = s
    BY <1>1, <2>3, <2>4
  <2>6. s # <<>> /\ b.recs # <<>> /\ Len(s) <= N
    BY <1>1, <2>2, <2>3, Consts
  <2> QED
    BY <2>5, <2>6 DEF Buffer
<1> QED
  BY <1>2, <1>3

\* What may be left of a store is a store.
LEMMA RemainsGood ==
  ASSUME NEW st \in GoodStore
  PROVE  st \in Remains(st) /\ Remains(st) \subseteq GoodStore
<1>1. /\ st \in [Uid -> Buffer] /\ IsFiniteSet(Users(st)) /\ Cardinality(Users(st)) <= Slots
      /\ Cardinality(Users(st)) \in Nat /\ Slots \in Nat
  BY FS_CardinalityType, Consts DEF GoodStore
<1>2. st \in Remains(st)
  <2>1. \A u \in Uid : st[u] \in Written(st[u])
    BY DEF Written
  <2>2. st \in [Uid -> UNION {Written(st[u]) : u \in Uid}]
    BY <1>1, <2>1
  <2> QED
    BY <2>1, <2>2 DEF Remains
<1>3. ASSUME NEW r \in Remains(st)
      PROVE  r \in GoodStore
  <2>1. r \in [Uid -> UNION {Written(st[u]) : u \in Uid}] /\ \A u \in Uid : r[u] \in Written(st[u])
    BY DEF Remains
  <2>2. \A u \in Uid : r[u] \in Buffer /\ (r[u].recs # <<>> => st[u].recs # <<>>)
    BY <1>1, <2>1, WrittenGood
  <2>3. r \in [Uid -> Buffer]
    BY <2>1, <2>2
  <2>4. Users(r) \subseteq Users(st)
    BY <2>2 DEF Users
  <2>5. IsFiniteSet(Users(r)) /\ Cardinality(Users(r)) <= Cardinality(Users(st))
    BY <1>1, <2>4, FS_Subset
  <2>6. Cardinality(Users(r)) \in Nat
    BY <2>5, FS_CardinalityType
  <2> QED
    BY <1>1, <2>3, <2>5, <2>6 DEF GoodStore
<1> QED
  BY <1>2, <1>3

\* What the disk has of an image is an image, and the image itself unless a
\* write of the body was lost.
LEMMA DumpedIs ==
  ASSUME NEW img \in Image
  PROVE  /\ img \in Dumped(img) /\ Dumped(img) \subseteq Image
         /\ \A d \in Dumped(img) : Lossy = FALSE => d = img
<1>1. Lossy \in BOOLEAN
  BY FaultAssumption
<1>2. CASE Lossy = FALSE
  BY <1>2 DEF Dumped
<1>3. CASE Lossy = TRUE
  <2>1. img.store \in Remains(img.store) /\ Remains(img.store) \subseteq GoodStore
    BY RemainsGood DEF Image
  <2>2. Dumped(img) = {[img EXCEPT !.store = r] : r \in Remains(img.store)}
    BY <1>3 DEF Dumped
  <2>3. img = [img EXCEPT !.store = img.store]
    BY DEF Image
  <2>4. \A r \in GoodStore : [img EXCEPT !.store = r] \in Image
    BY DEF Image
  <2> QED
    BY <1>3, <2>1, <2>2, <2>3, <2>4
<1> QED
  BY <1>1, <1>2, <1>3

\* A first start has no snapshot and no child.
LEMMA InitSnap == Init => Types /\ SnapInv
<1> SUFFICES ASSUME Init
             PROVE  Types /\ SnapInv
  OBVIOUS
<1>1. ServerTypes
  BY EmptyGood, Consts DEF Init, ServerTypes, Time
<1>2. SnapTypes
  BY NoPartGood DEF Init, SnapTypes
<1>3. NoPart \in Dumped(NoPart)
  BY NoPartGood, DumpedIs
<1>4. SnapInv
  BY <1>3 DEF Init, SnapInv, Alive, NoProc, NoFile
<1> QED
  BY <1>1, <1>2, <1>4, TypesSplit

\* Steps of the server that leave the snapshot files and children alone.
LEMMA SnapKept ==
  ASSUME SnapTypes, SnapInv, UNCHANGED <<proc, tmp, bin>>,
         up' => (up /\ child_pid' = child_pid) \/ PortFree
  PROVE  SnapTypes' /\ SnapInv'
<1>1. SnapTypes'
  BY DEF SnapTypes
<1>2. up' => \A p \in Procs : Alive(p) => p = child_pid'
  BY DEF SnapInv, PortFree
<1> QED
  BY <1>1, <1>2 DEF SnapInv, Alive

\* Sequences of commands and fragments, one after the other.
LEMMA FileGrows ==
  ASSUME NEW f \in Seq(Logged \cup {TornEntry}), NEW g \in Seq(Logged \cup {TornEntry})
  PROVE  f \o g \in Seq(Logged \cup {TornEntry}) /\ Len(f \o g) = Len(f) + Len(g)
OBVIOUS

\* An entry is a command.
LEMMA EntryType ==
  ASSUME ServerTypes, NEW u \in Uid, NEW op \in {"PUSH", "DEL"},
         seqno < MaxCmds, clock' \in Time, seqno' = seqno + 1
  PROVE  /\ [op |-> op, uid |-> u, ts |-> clock', n |-> seqno'] \in Logged
         /\ seqno' \in 0 .. MaxCmds
<1>1. seqno' \in Number /\ seqno' \in 0 .. MaxCmds
  BY Consts DEF ServerTypes, Number
<1> QED
  BY <1>1 DEF Logged

\* push_command and del_command keep the types.
LEMMA CommandTypes ==
  ASSUME ServerTypes, NEW u \in Uid, NEW op \in {"PUSH", "DEL"}, Command(op, u)
  PROVE  ServerTypes'
<1> DEFINE e == [op |-> op, uid |-> u, ts |-> clock', n |-> seqno']
<1>1. /\ up /\ seqno < MaxCmds /\ clock' \in Time /\ seqno' = seqno + 1
      /\ Room(store, e) /\ store' = ApplyEntry(store, e) /\ hist' = Append(hist, e)
      /\ \/ file' = Append(file, e) /\ synced' = Len(file') /\ ring' = ring
         \/ ring' = Append(ring, e) /\ file' = file /\ synced' = synced
      /\ up' = up /\ mode' = mode /\ lastSnap' = lastSnap /\ child_pid' = child_pid
  BY DEF Command, ReadClock, Time, snap
<1>2. e \in Logged /\ seqno' \in 0 .. MaxCmds
  BY <1>1, EntryType
<1> HIDE DEF e
<1>3. e \in Event
  BY <1>2, LoggedEvents
<1>4. store' \in GoodStore
  BY <1>1, <1>3, ApplyEntryGood DEF ServerTypes
<1>5. hist' \in Seq(Event)
  BY <1>1, <1>3 DEF ServerTypes
<1>6. ring' \in Seq(Logged)
  <2>1. ring \in Seq(Logged) /\ Append(ring, e) \in Seq(Logged)
    BY <1>2 DEF ServerTypes
  <2>2. ring' = ring \/ ring' = Append(ring, e)
    BY <1>1
  <2> QED
    BY <2>1, <2>2
<1>7. file' \in Seq(Logged \cup {TornEntry}) /\ synced' \in 0 .. Len(file')
  <2>1. CASE file' = Append(file, e) /\ synced' = Len(file')
    BY <1>2, <2>1 DEF ServerTypes
  <2>2. CASE file' = file /\ synced' = synced
    BY <2>2 DEF ServerTypes
  <2> QED
    BY <1>1, <2>1, <2>2
<1> QED
  BY <1>1, <1>2, <1>4, <1>5, <1>6, <1>7 DEF ServerTypes

\* An eviction is the erasure that the log does not know.
LEMMA EvictEntry ==
  ASSUME ServerTypes, NEW u \in Uid, Evict(u)
  PROVE  LET e == [op |-> "EVICT", uid |-> u, ts |-> clock, n |-> seqno + 1]
         IN  /\ e \in Event /\ store' = ApplyEntry(store, e) /\ Room(store, e)
             /\ hist' = Append(hist, e) /\ seqno' = seqno + 1 /\ seqno' \in 0 .. MaxCmds
<1> DEFINE e == [op |-> "EVICT", uid |-> u, ts |-> clock, n |-> seqno + 1]
<1>1. seqno + 1 \in Number /\ seqno + 1 \in 0 .. MaxCmds /\ seqno' = seqno + 1
  BY Consts DEF ServerTypes, Number, Evict
<1>2. e \in Event
  BY <1>1 DEF Event, ServerTypes
<1>3. store' = ApplyEntry(store, e)
  BY DEF Evict, ApplyEntry
<1>4. Room(store, e)
  BY DEF Room
<1>5. hist' = Append(hist, e)
  BY DEF Evict
<1> QED
  BY <1>1, <1>2, <1>3, <1>4, <1>5

\* So does an eviction ...
LEMMA EvictTypes ==
  ASSUME ServerTypes, NEW u \in Uid, Evict(u)
  PROVE  ServerTypes'
<1> DEFINE e == [op |-> "EVICT", uid |-> u, ts |-> clock, n |-> seqno + 1]
<1>1. /\ e \in Event /\ store' = ApplyEntry(store, e) /\ Room(store, e)
      /\ hist' = Append(hist, e) /\ seqno' \in 0 .. MaxCmds
  BY EvictEntry
<1> HIDE DEF e
<1>2. store' \in GoodStore
  BY <1>1, ApplyEntryGood DEF ServerTypes
<1>3. hist' \in Seq(Event)
  BY <1>1 DEF ServerTypes
<1> QED
  BY <1>1, <1>2, <1>3 DEF Evict, ServerTypes, snap

\* ... and the flusher ...
LEMMA FlushTypes ==
  ASSUME ServerTypes, FlushWrite \/ FlushSync
  PROVE  ServerTypes'
<1>1. CASE FlushWrite
  <2>1. PICK k \in 1 .. Len(ring) :
            file' = file \o SubSeq(ring, 1, k) /\ ring' = SubSeq(ring, k + 1, Len(ring))
    BY <1>1 DEF FlushWrite
  <2>2. ring \in Seq(Logged) /\ k \in 0 .. Len(ring)
    BY DEF ServerTypes
  <2>3. SubSeq(ring, 1, k) \in Seq(Logged) /\ ring' \in Seq(Logged)
    BY <2>1, <2>2, SplitAt
  <2>4. SubSeq(ring, 1, k) \in Seq(Logged \cup {TornEntry})
    BY <2>3, LoggedEvents
  <2>5. file' \in Seq(Logged \cup {TornEntry}) /\ Len(file') = Len(file) + Len(SubSeq(ring, 1, k))
    BY <2>1, <2>4, FileGrows DEF ServerTypes
  <2>6. Len(SubSeq(ring, 1, k)) \in Nat
    BY <2>3
  <2>7. synced' \in 0 .. Len(file')
    BY <1>1, <2>5, <2>6 DEF FlushWrite, ServerTypes
  <2> QED
    BY <1>1, <2>3, <2>5, <2>7 DEF FlushWrite, ServerTypes, snap
<1>2. CASE FlushSync
  BY <1>2 DEF FlushSync, ServerTypes, snap, mem
<1> QED
  BY <1>1, <1>2

\* A process that is gone.
LEMMA GoneTypes ==
  ASSUME ServerTypes, ProcessGone, clock' \in Time, seqno' \in 0 .. MaxCmds,
         file' \in Seq(Logged \cup {TornEntry}), synced' \in 0 .. Len(file'),
         hist' \in Seq(Event)
  PROVE  ServerTypes'
<1>1. /\ up' = FALSE /\ store' = EmptyStore /\ ring' = <<>> /\ lastSnap' = 0
      /\ child_pid' = 0 /\ mode' = mode
  BY DEF ProcessGone
<1>2. ring' \in Seq(Logged) /\ lastSnap' \in Time /\ child_pid' \in Procs \cup {0}
  BY <1>1, Consts DEF Time
<1>3. store' \in GoodStore
  BY <1>1, EmptyGood
<1> QED
  BY <1>1, <1>2, <1>3 DEF ServerTypes

\* What is drained into the file.
LEMMA DrainTypes ==
  ASSUME ServerTypes, NEW es \in Seq(Logged), DrainRing(es)
  PROVE  file' \in Seq(Logged \cup {TornEntry}) /\ synced' \in 0 .. Len(file')
<1>1. es \in Seq(Logged \cup {TornEntry}) /\ Len(es) \in Nat
  BY LoggedEvents
<1>2. file' \in Seq(Logged \cup {TornEntry}) /\ Len(file') = Len(file) + Len(es)
  BY <1>1, FileGrows DEF DrainRing, ServerTypes
<1>3. synced' \in {synced, Len(file')}
  BY DEF DrainRing
<1> QED
  BY <1>1, <1>2, <1>3 DEF ServerTypes

\* ... and every way to stop ...
LEMMA StopTypes ==
  ASSUME ServerTypes, CrashProcess \/ CrashMachine \/ Shutdown
  PROVE  ServerTypes'
<1>1. \A f \in Fragment : f \in Seq(Logged \cup {TornEntry}) /\ Len(f) \in Nat
  <2>1. <<TornEntry>> \in Seq(Logged \cup {TornEntry}) /\ Len(<<TornEntry>>) = 1
    <3> DEFINE t == TornEntry
    <3> HIDE DEF t
    <3>1. <<t>> \in Seq(Logged \cup {t}) /\ Len(<<t>>) = 1
      OBVIOUS
    <3> QED
      BY <3>1 DEF t
  <2>2. <<>> \in Seq(Logged \cup {TornEntry}) /\ Len(<<>>) = 0
    OBVIOUS
  <2>3. \A f \in Fragment : f = <<>> \/ f = <<TornEntry>>
    BY Zenon DEF Fragment
  <2>4. 0 \in Nat /\ 1 \in Nat
    OBVIOUS
  <2> QED
    BY <2>1, <2>2, <2>3, <2>4, Zenon
<1>2. CASE CrashProcess
  <2>1. PICK f \in Fragment : file' = file \o f
    BY <1>2 DEF CrashProcess
  <2>2. file' \in Seq(Logged \cup {TornEntry}) /\ Len(file') = Len(file) + Len(f)
    BY <1>1, <2>1, FileGrows DEF ServerTypes
  <2>3. synced' \in 0 .. Len(file')
    BY <1>1, <1>2, <2>2 DEF CrashProcess, ServerTypes
  <2> QED
    BY <1>2, <2>2, <2>3, GoneTypes DEF CrashProcess, ServerTypes
<1>3. CASE CrashMachine
  <2>1. PICK k \in synced .. Len(file), f \in Fragment : file' = SubSeq(file, 1, k) \o f
    BY <1>3 DEF CrashMachine
  <2>2. k \in 0 .. Len(file)
    BY DEF ServerTypes
  <2>3. SubSeq(file, 1, k) \in Seq(Logged \cup {TornEntry})
    BY <2>2, SplitAt DEF ServerTypes
  <2>4. file' \in Seq(Logged \cup {TornEntry})
    BY <1>1, <2>1, <2>3, FileGrows
  <2>5. synced' \in 0 .. Len(file')
    BY <1>3, <2>4 DEF CrashMachine
  <2> QED
    BY <1>3, <2>4, <2>5, GoneTypes DEF CrashMachine, ServerTypes
<1>4. CASE Shutdown
  <2>1. file' \in Seq(Logged \cup {TornEntry}) /\ synced' \in 0 .. Len(file')
    BY <1>4, DrainTypes DEF Shutdown, ServerTypes
  <2> QED
    BY <1>4, <2>1, GoneTypes DEF Shutdown, ServerTypes
<1> QED
  BY <1>2, <1>3, <1>4

\* ... and the panic of an exhausted pool ...
LEMMA PanicTypes ==
  ASSUME ServerTypes, NEW u \in Uid, PushPanic(u)
  PROVE  ServerTypes'
<1> DEFINE e == [op |-> "PUSH", uid |-> u, ts |-> clock', n |-> seqno']
<1>1. /\ seqno < MaxCmds /\ clock' \in Time /\ seqno' = seqno + 1
      /\ DrainRing(Append(ring, e)) /\ hist' = Append(hist, e) /\ ProcessGone
  BY DEF PushPanic, ReadClock, Time
<1>2. e \in Logged /\ seqno' \in 0 .. MaxCmds
  BY <1>1, EntryType
<1> HIDE DEF e
<1>3. e \in Event /\ Append(ring, e) \in Seq(Logged)
  BY <1>2, LoggedEvents DEF ServerTypes
<1>4. file' \in Seq(Logged \cup {TornEntry}) /\ synced' \in 0 .. Len(file')
  BY <1>1, <1>3, DrainTypes
<1>5. hist' \in Seq(Event)
  BY <1>1, <1>3 DEF ServerTypes
<1> QED
  BY <1>1, <1>2, <1>4, <1>5, GoneTypes

\* ... and recovery, which applies no more than fits.
LEMMA RecoverTypes ==
  ASSUME Types, Recover
  PROVE  ServerTypes'
<1>1. store' \in GoodStore
  BY RecoveredIs DEF Recover
<1>2. hist' \in Seq(Event)
  BY OnlyRange DEF Recover, Types, ServerTypes, SnapTypes
<1> QED
  BY <1>1, <1>2 DEF Recover, Types, ServerTypes, snap

\* With at most one child alive, a step of child p concerns p alone.
LEMMA OnlyChild ==
  ASSUME SnapInv, NEW p \in Procs, Alive(p)
  PROVE  \A q \in Procs : q # p => proc[q] = NoProc
BY DEF SnapInv, Alive

\* The parts of a snapshot file and of a child.
LEMMA FileParts ==
  ASSUME SnapTypes, NEW p \in Procs
  PROVE  /\ proc[p].pc \in {"none", "create", "header", "body", "rename"}
         /\ proc[p].at \in {"none", "tmp", "bin"} /\ proc[p].img \in Image
         /\ tmp.hdr \in Image /\ tmp.body \in Image /\ tmp.exists \in BOOLEAN
BY DEF SnapTypes, Child, SnapFile

\* What is left of SnapInv when only child p may be alive.
LEMMA SnapFromOne ==
  ASSUME NEW p \in Procs, SnapTypes', up' => up, child_pid' = child_pid, SnapInv, Alive(p),
         \A q \in Procs : q # p => proc'[q] = NoProc,
         proc'[p].pc = "none" => proc'[p] = NoProc,
         proc'[p].pc \in {"header", "body", "rename"} => proc'[p].at = "tmp" /\ tmp'.exists,
         proc'[p].pc \in {"body", "rename"} => tmp'.hdr = proc'[p].img,
         proc'[p].pc = "rename" => tmp'.body \in Dumped(proc'[p].img),
         bin'.body \in Dumped(bin'.hdr), ~bin'.exists => bin' = NoFile
  PROVE  SnapInv'
<1>1. NoProc.pc = "none"
  BY DEF NoProc
<1>2. \A q \in Procs : proc'[q].pc # "none" => q = p
  BY <1>1
<1>3. up' => p = child_pid'
  BY DEF SnapInv
<1> QED
  BY <1>1, <1>2, <1>3 DEF SnapInv, Alive

\* A fork: the child of the last one is gone, so the new one is alone.
LEMMA ForkStep ==
  ASSUME Types, SnapInv, MaybeFork
  PROVE  Types' /\ SnapInv'
<1>0. ServerTypes /\ SnapTypes
  BY TypesSplit
<1>1. \A q \in Procs : ~Alive(q) /\ proc[q] = NoProc
  BY <1>0, Consts DEF MaybeFork, SnapInv, Alive
<1>2. /\ clock' \in Time /\ lastSnap' = clock' /\ up /\ up' = up
      /\ mode' = mode /\ seqno' = seqno /\ store' = store /\ ring' = ring /\ file' = file
      /\ synced' = synced /\ tmp' = tmp /\ bin' = bin /\ hist' = hist
  BY DEF MaybeFork, ReadClock, Time, mem
<1>3. CASE child_pid' = 0 /\ UNCHANGED proc
  <2>1. ServerTypes'
    BY <1>0, <1>2, <1>3 DEF ServerTypes
  <2>2. SnapTypes'
    BY <1>0, <1>2, <1>3 DEF SnapTypes
  <2>3. SnapInv'
    BY <1>1, <1>2, <1>3 DEF SnapInv, Alive
  <2> QED
    BY <2>1, <2>2, <2>3 DEF Types, ServerTypes, SnapTypes
<1>4. CASE ~(child_pid' = 0 /\ UNCHANGED proc)
  <2> DEFINE img == [n |-> seqno, ts |-> clock', store |-> store]
  <2>1. PICK p \in Procs :
            /\ child_pid' = p
            /\ proc' = [proc EXCEPT ![p] = [pc |-> "create", at |-> "none", img |-> img]]
    BY <1>4 DEF MaybeFork
  <2>2. img \in Image
    <3>1. seqno \in -1 .. MaxCmds
      BY <1>0, Consts DEF ServerTypes
    <3> QED
      BY <1>0, <1>2, <3>1 DEF Image, ServerTypes
  <2> HIDE DEF img
  <2> DEFINE c == [pc |-> "create", at |-> "none", img |-> img]
  <2>3. c \in Child /\ c.pc = "create"
    BY <2>2 DEF Child
  <2>4. /\ proc' \in [Procs -> Child] /\ proc'[p] = c
        /\ \A q \in Procs : q # p => proc'[q] = NoProc
    <3>1. proc' = [proc EXCEPT ![p] = c]
      BY <2>1
    <3> HIDE DEF c
    <3> QED
      BY <1>0, <1>1, <2>3, <3>1 DEF SnapTypes
  <2> HIDE DEF c
  <2>5. ServerTypes'
    BY <1>0, <1>2, <2>1 DEF ServerTypes
  <2>6. SnapTypes'
    BY <1>0, <1>2, <2>4 DEF SnapTypes
  <2>7. \A q \in Procs : proc'[q].pc # "none" => q = p
    BY <2>4 DEF NoProc
  <2>8. \A q \in Procs : proc'[q].pc \notin {"header", "body", "rename"}
    <3>1. NoProc.pc = "none"
      BY DEF NoProc
    <3> QED
      BY <2>3, <2>4, <3>1
  <2>9. \A q \in Procs : proc'[q].pc = "none" => proc'[q] = NoProc
    BY <2>3, <2>4
  <2>10. SnapInv'
    BY <1>2, <2>1, <2>7, <2>8, <2>9 DEF SnapInv, Alive
  <2> QED
    BY <2>5, <2>6, <2>10 DEF Types, ServerTypes, SnapTypes
<1> QED
  BY <1>3, <1>4

\* Steps of a child leave the server alone.
LEMMA ServerKept ==
  ASSUME ServerTypes, SnapTypes',
         UNCHANGED <<up, mode, clock, seqno, mem, file, synced, snap, hist>>
  PROVE  Types'
BY DEF ServerTypes, SnapTypes, Types, mem, snap

\* The child creates snapshot.tmp.
LEMMA CreateStep ==
  ASSUME Types, SnapInv, NEW p \in Procs, DumpCreate(p)
  PROVE  Types' /\ SnapInv'
<1>0. ServerTypes /\ SnapTypes
  BY TypesSplit
<1>1. Alive(p) /\ proc[p].pc = "create"
  BY DEF DumpCreate, Alive
<1>2. /\ proc' \in [Procs -> Child]
      /\ proc'[p].pc = "header" /\ proc'[p].at = "tmp"
      /\ \A q \in Procs : q # p => proc'[q] = proc[q]
  BY <1>0 DEF DumpCreate, SnapTypes, Child
<1>3. tmp' \in SnapFile /\ tmp'.exists
  BY NoPartGood DEF DumpCreate, SnapFile, NoFile
<1>4. SnapTypes' /\ Types'
  <2>1. SnapTypes'
    BY <1>0, <1>2, <1>3 DEF SnapTypes, DumpCreate
  <2> QED
    BY <1>0, <2>1, ServerKept DEF DumpCreate
<1>5. \A q \in Procs : q # p => proc'[q] = NoProc
  BY <1>1, <1>2, OnlyChild
<1>6. /\ bin' = bin /\ bin.body \in Dumped(bin.hdr) /\ (~bin.exists => bin = NoFile)
      /\ up' = up /\ child_pid' = child_pid
  BY DEF DumpCreate, SnapInv, snap
<1>7. SnapInv'
  BY <1>1, <1>2, <1>3, <1>4, <1>5, <1>6, SnapFromOne
<1> QED
  BY <1>4, <1>7

\* A child that has created snapshot.tmp writes to it and to nothing else.
LEMMA WriteEffect ==
  ASSUME SnapTypes, NEW p \in Procs, proc[p].at = "tmp", NEW part \in {"hdr", "body"},
         NEW i \in Image, WritePart(p, part, i)
  PROVE  /\ tmp' \in SnapFile /\ tmp'.exists = tmp.exists /\ bin' = bin
         /\ part = "hdr" => tmp'.hdr = i /\ tmp'.body = tmp.body
         /\ part = "body" => tmp'.body = i /\ tmp'.hdr = tmp.hdr
<1>1. tmp \in SnapFile
  BY DEF SnapTypes
<1>2. tmp' = [tmp EXCEPT ![part] = i] /\ bin' = bin
  BY DEF WritePart
<1>3. CASE part = "hdr"
  <2>1. tmp' = [tmp EXCEPT !.hdr = i]
    BY <1>2, <1>3
  <2> QED
    BY <1>1, <1>2, <1>3, <2>1 DEF SnapFile
<1>4. CASE part = "body"
  <2>1. tmp' = [tmp EXCEPT !.body = i]
    BY <1>2, <1>4
  <2> QED
    BY <1>1, <1>2, <1>4, <2>1 DEF SnapFile
<1> QED
  BY <1>3, <1>4

\* The child writes the header, then the body.
LEMMA WriteStep ==
  ASSUME Types, SnapInv, NEW p \in Procs, DumpHeader(p) \/ DumpBody(p)
  PROVE  Types' /\ SnapInv'
<1>0. ServerTypes /\ SnapTypes
  BY TypesSplit
<1>1. Alive(p) /\ proc[p].pc \in {"header", "body"} /\ proc[p].at = "tmp" /\ tmp.exists
  BY DEF DumpHeader, DumpBody, Alive, SnapInv
<1>2. \/ /\ WritePart(p, "hdr", proc[p].img)
         /\ proc[p].pc = "header" /\ proc' = [proc EXCEPT ![p].pc = "body"]
      \/ /\ \E i \in Dumped(proc[p].img) : WritePart(p, "body", i)
         /\ proc[p].pc = "body" /\ proc' = [proc EXCEPT ![p].pc = "rename"]
  BY DEF DumpHeader, DumpBody
<1>3. /\ proc' \in [Procs -> Child] /\ proc'[p].pc \in {"body", "rename"}
      /\ proc'[p].at = proc[p].at /\ proc'[p].img = proc[p].img
      /\ \A q \in Procs : q # p => proc'[q] = proc[q]
      /\ proc[p].pc = "header" => proc'[p].pc = "body"
      /\ proc[p].pc = "body" => proc'[p].pc = "rename"
  BY <1>0, <1>2 DEF SnapTypes, Child
<1>4. /\ tmp' \in SnapFile /\ tmp'.exists = tmp.exists /\ bin' = bin
      /\ proc[p].pc = "header" => tmp'.hdr = proc[p].img
      /\ proc[p].pc = "body" => tmp'.body \in Dumped(proc[p].img) /\ tmp'.hdr = tmp.hdr
  <2>1. proc[p].img \in Image /\ Dumped(proc[p].img) \subseteq Image
    BY <1>0, FileParts, DumpedIs
  <2> QED
    BY <1>0, <1>1, <1>2, <2>1, WriteEffect
<1>5. proc[p].pc = "body" => tmp.hdr = proc[p].img
  BY DEF SnapInv
<1>6. SnapTypes'
  BY <1>0, <1>3, <1>4 DEF SnapTypes
<1>7. Types'
  BY <1>0, <1>6, ServerKept DEF DumpHeader, DumpBody
<1>8. \A q \in Procs : q # p => proc'[q] = NoProc
  BY <1>1, <1>3, OnlyChild
<1>9. /\ bin' = bin /\ bin.body \in Dumped(bin.hdr) /\ (~bin.exists => bin = NoFile)
      /\ up' = up /\ child_pid' = child_pid
  BY <1>4 DEF DumpHeader, DumpBody, SnapInv, snap
<1>10. /\ proc'[p].pc \in {"header", "body", "rename"} => proc'[p].at = "tmp" /\ tmp'.exists
       /\ proc'[p].pc \in {"body", "rename"} => tmp'.hdr = proc'[p].img
       /\ proc'[p].pc = "rename" => tmp'.body \in Dumped(proc'[p].img)
       /\ proc'[p].pc # "none"
  BY <1>1, <1>3, <1>4, <1>5
<1>11. SnapInv'
  BY <1>1, <1>6, <1>8, <1>9, <1>10, SnapFromOne
<1> QED
  BY <1>7, <1>11

\* The rename makes the image of the one child snapshot.bin.
LEMMA RenameStep ==
  ASSUME Types, SnapInv, NEW p \in Procs, DumpRename(p)
  PROVE  /\ Types' /\ SnapInv'
         /\ bin' = tmp /\ bin'.hdr = proc[p].img
         /\ \A q \in Procs : proc'[q] = NoProc
<1>0. ServerTypes /\ SnapTypes
  BY TypesSplit
<1>1. /\ Alive(p) /\ proc[p].pc = "rename" /\ tmp.exists
      /\ tmp.hdr = proc[p].img /\ tmp.body \in Dumped(proc[p].img)
  BY DEF DumpRename, Alive, SnapInv
<1>2. bin' = tmp /\ tmp' = NoFile
  BY <1>1 DEF DumpRename
<1>3. \A q \in Procs : q # p => proc[q] = NoProc
  BY <1>1, OnlyChild
<1>4. ASSUME NEW q \in Procs
      PROVE  proc'[q] = NoProc
  <2>1. CASE q = p
    BY <2>1 DEF DumpRename
  <2>2. CASE q # p
    <3>1. proc'[q] = [proc[q] EXCEPT !.at = CASE ~tmp.exists -> @
                                           [] tmp.exists /\ @ = "tmp" -> "bin"
                                           [] OTHER -> "none"]
      BY <2>2 DEF DumpRename
    <3>2. proc[q] = NoProc /\ tmp.exists
      BY <1>1, <1>3, <2>2
    <3> QED
      BY <3>1, <3>2 DEF NoProc
  <2> QED
    BY <2>1, <2>2
<1>5. proc' \in [Procs -> Child]
  <2>1. proc' = [q \in Procs |-> proc'[q]]
    BY DEF DumpRename
  <2> QED
    BY <1>4, <2>1, NoPartGood
<1>6. SnapTypes'
  BY <1>0, <1>2, <1>5, NoPartGood DEF SnapTypes
<1>7. Types'
  BY <1>0, <1>6, ServerKept DEF DumpRename
<1>8. SnapInv'
  <2>1. NoProc.pc = "none"
    BY DEF NoProc
  <2>2. bin'.body \in Dumped(bin'.hdr) /\ bin'.exists
    BY <1>1, <1>2
  <2> QED
    BY <1>4, <2>1, <2>2 DEF SnapInv, Alive
<1> QED
  BY <1>1, <1>2, <1>4, <1>7, <1>8

\* A child that fails leaves snapshot.bin alone.
LEMMA FailStep ==
  ASSUME Types, SnapInv, NEW p \in Procs, DumpFail(p)
  PROVE  Types' /\ SnapInv'
<1>0. ServerTypes /\ SnapTypes
  BY TypesSplit
<1>1. /\ Alive(p) /\ proc' = [proc EXCEPT ![p] = NoProc] /\ tmp' = tmp /\ bin' = bin
      /\ up' = up /\ child_pid' = child_pid
  BY DEF DumpFail, snap
<1>2. /\ proc' \in [Procs -> Child] /\ proc'[p] = NoProc
      /\ \A q \in Procs : q # p => proc'[q] = proc[q]
  BY <1>0, <1>1, NoPartGood DEF SnapTypes
<1>3. \A q \in Procs : proc'[q] = NoProc
  BY <1>1, <1>2, OnlyChild
<1>4. SnapTypes'
  BY <1>0, <1>1, <1>2 DEF SnapTypes
<1>5. Types'
  BY <1>0, <1>4, ServerKept DEF DumpFail
<1>6. SnapInv'
  <2>1. NoProc.pc = "none"
    BY DEF NoProc
  <2> QED
    BY <1>1, <1>3, <2>1 DEF SnapInv, Alive
<1> QED
  BY <1>5, <1>6

\* Every step keeps the types, and at most one child that writes.
LEMMA SnapStep ==
  ASSUME Types, SnapInv, [Next]_vars
  PROVE  Types' /\ SnapInv'
<1>0. ServerTypes /\ SnapTypes
  BY TypesSplit
<1>1. ASSUME NEW u \in Uid, Command("PUSH", u) \/ Command("DEL", u) \/ Evict(u) \/ PushPanic(u)
      PROVE  Types' /\ SnapInv'
  <2>1. ServerTypes'
    BY <1>0, <1>1, CommandTypes, EvictTypes, PanicTypes
  <2>2. UNCHANGED <<proc, tmp, bin>> /\ (up' => (up /\ child_pid' = child_pid))
    BY <1>1 DEF Command, Evict, PushPanic, ProcessGone, snapfs, snap
  <2>3. SnapTypes' /\ SnapInv'
    BY <1>0, <2>2, SnapKept
  <2> QED
    BY <2>1, <2>3 DEF Types, ServerTypes, SnapTypes
<1>2. CASE FlushWrite \/ FlushSync
  <2>1. ServerTypes'
    BY <1>0, <1>2, FlushTypes
  <2>2. UNCHANGED <<proc, tmp, bin>> /\ (up' => (up /\ child_pid' = child_pid))
    BY <1>2 DEF FlushWrite, FlushSync, snapfs, snap
  <2>3. SnapTypes' /\ SnapInv'
    BY <1>0, <2>2, SnapKept
  <2> QED
    BY <2>1, <2>3 DEF Types, ServerTypes, SnapTypes
<1>3. CASE CrashProcess \/ Shutdown
  <2>1. ServerTypes'
    BY <1>0, <1>3, StopTypes
  <2>2. UNCHANGED <<proc, tmp, bin>> /\ (up' => (up /\ child_pid' = child_pid))
    BY <1>3 DEF CrashProcess, Shutdown, ProcessGone
  <2>3. SnapTypes' /\ SnapInv'
    BY <1>0, <2>2, SnapKept
  <2> QED
    BY <2>1, <2>3 DEF Types, ServerTypes, SnapTypes
<1>4. CASE CrashMachine
  <2>1. ServerTypes'
    BY <1>0, <1>4, StopTypes
  <2>2. proc' = [p \in Procs |-> NoProc] /\ tmp' = NoFile /\ bin' = bin
    BY <1>4 DEF CrashMachine, ProcessGone
  <2>3. SnapTypes'
    BY <1>0, <2>2, NoPartGood DEF SnapTypes
  <2>4. SnapInv'
    <3>1. NoProc.pc = "none" /\ \A p \in Procs : proc'[p] = NoProc
      BY <2>2 DEF NoProc
    <3> QED
      BY <2>2, <3>1 DEF SnapInv, Alive
  <2> QED
    BY <2>1, <2>3, <2>4 DEF Types, ServerTypes, SnapTypes
<1>5. CASE Recover
  <2>1. ServerTypes'
    BY <1>5, RecoverTypes
  <2>2. UNCHANGED <<proc, tmp, bin>> /\ PortFree
    BY <1>5 DEF Recover, snapfs
  <2>3. SnapTypes' /\ SnapInv'
    BY <1>0, <2>2, SnapKept
  <2> QED
    BY <2>1, <2>3 DEF Types, ServerTypes, SnapTypes
<1>6. CASE Snapshots
  BY <1>6, ForkStep, CreateStep, WriteStep, RenameStep, FailStep DEF Snapshots
<1>7. CASE RecoverPanic \/ UNCHANGED vars
  <2>1. UNCHANGED vars
    BY <1>7 DEF RecoverPanic
  <2> QED
    BY <2>1 DEF vars, mem, snap, snapfs, Types, ServerTypes, SnapTypes, SnapInv, Alive
<1> QED
  BY <1>1, <1>2, <1>3, <1>4, <1>5, <1>6, <1>7 DEF Next, Commands

\* The invariant of types and snapshots.
THEOREM SnapCorrect == Spec => [](Types /\ SnapInv)
<1>1. Init => Types /\ SnapInv
  BY InitSnap
<1>2. (Types /\ SnapInv) /\ [Next]_vars => (Types /\ SnapInv)'
  BY SnapStep
<1> QED
  BY <1>1, <1>2, PTL DEF Spec

\* Types: buffers hold at most N records and users at most the slots there are,
\* also after every recovery; the synced prefix is within the file.
THEOREM PersistenceTypeCorrect == Spec => []TypeOK
<1>1. Types => TypeOK
  <2> SUFFICES ASSUME Types
               PROVE  TypeOK
    OBVIOUS
  <2>1. \A u \in Uid : store[u] \in Buffer
    BY DEF Types, ServerTypes, SnapTypes, GoodStore
  <2>2. \A u \in Uid : Len(store[u].recs) <= N
    BY <2>1 DEF Buffer
  <2>3. Cardinality(Users(store)) <= Slots
    BY DEF Types, ServerTypes, SnapTypes, GoodStore
  <2>4. \A p \in Procs : proc[p].pc \in {"none", "create", "header", "body", "rename"}
    BY DEF Types, ServerTypes, SnapTypes, Child
  <2> QED
    BY <2>2, <2>3, <2>4 DEF Types, ServerTypes, SnapTypes, TypeOK, Time
<1> QED
  BY <1>1, SnapCorrect, PTL

\* Header and body of snapshot.bin are of one child, with any number of children,
\* crashes and restarts, and whatever write errors the child dropped: while a child
\* lives its server waits for it and the next server cannot start.
THEOREM SnapshotAlwaysFromOneChild == Spec => []SnapshotFromOneChild
<1>1. SnapInv => SnapshotFromOneChild
  BY DEF SnapInv, SnapshotFromOneChild
<1> QED
  BY <1>1, SnapCorrect, PTL

\* Unless write errors of the body are dropped, snapshot.bin is the whole image.
LEMMA WholeUnlessLossy ==
  ASSUME Lossy = FALSE
  PROVE  Spec => []SnapshotWhole
<1>1. Types /\ SnapInv => SnapshotWhole
  <2> SUFFICES ASSUME Types, SnapInv
               PROVE  bin.hdr = bin.body
    BY DEF SnapshotWhole
  <2>1. bin.hdr \in Image /\ bin.body \in Dumped(bin.hdr)
    BY DEF Types, ServerTypes, SnapTypes, SnapFile, SnapInv
  <2> QED
    BY <2>1, DumpedIs
<1> QED
  BY <1>1, SnapCorrect, PTL

-----------------------------------------------------------------------------
\* The history and the images, step by step.

\* A fork takes an image of the store as it is.
Fresh == [n |-> seqno, ts |-> clock', store |-> store]
Forks(p) == proc'[p].img = Fresh /\ ReadClock /\ up /\ UNCHANGED <<seqno, hist, store>>

\* What a step does to the images: snapshot.bin changes to the image of the one
\* child, which is then gone, and a child keeps its image from the fork on.
ImagesStep ==
    /\ \/ bin' = bin
       \/ \E p \in Procs : /\ Alive(p) /\ bin'.hdr = proc[p].img
                           /\ UNCHANGED <<seqno, hist, clock, store, up>>
    /\ \A p \in Procs : Alive(p)' =>
          /\ bin' = bin
          /\ (Alive(p) /\ proc'[p].img = proc[p].img) \/ Forks(p)

\* A step that touches neither children nor snapshot.bin.
LEMMA ImagesKept ==
  ASSUME UNCHANGED <<proc, bin>>
  PROVE  ImagesStep
BY DEF ImagesStep, Alive

\* Every step treats the images so.
LEMMA ImagesNext ==
  ASSUME Types, SnapInv, [Next]_vars
  PROVE  ImagesStep
<1>0. ServerTypes /\ SnapTypes
  BY TypesSplit
<1>1. NoProc.pc = "none"
  BY DEF NoProc
<1>2. ASSUME NEW u \in Uid, Command("PUSH", u) \/ Command("DEL", u) \/ Evict(u) \/ PushPanic(u)
      PROVE  ImagesStep
  <2>1. UNCHANGED <<proc, bin>>
    BY <1>2 DEF Command, Evict, PushPanic, ProcessGone, snapfs
  <2> QED
    BY <2>1, ImagesKept
<1>3. CASE FlushWrite \/ FlushSync \/ CrashProcess \/ Shutdown \/ Recover \/ RecoverPanic
           \/ UNCHANGED vars
  <2>1. UNCHANGED <<proc, bin>>
    BY <1>3 DEF FlushWrite, FlushSync, CrashProcess, Shutdown, Recover, RecoverPanic,
                ProcessGone, snapfs, vars
  <2> QED
    BY <2>1, ImagesKept
<1>4. CASE CrashMachine
  <2>1. bin' = bin /\ \A p \in Procs : proc'[p] = NoProc
    BY <1>4 DEF CrashMachine, ProcessGone
  <2> QED
    BY <1>1, <2>1 DEF ImagesStep, Alive
<1>5. CASE MaybeFork
  <2>1. /\ bin' = bin /\ up /\ ReadClock
        /\ UNCHANGED <<seqno, hist, store>>
    BY <1>5 DEF MaybeFork, mem
  <2> DEFINE c == [pc |-> "create", at |-> "none", img |-> Fresh]
  <2>2. \/ proc' = proc
        \/ \E p \in Procs : proc' = [proc EXCEPT ![p] = c]
    BY <1>5 DEF MaybeFork, Fresh
  <2>3. CASE proc' = proc
    BY <2>1, <2>3, ImagesKept
  <2>4. CASE \E p \in Procs : proc' = [proc EXCEPT ![p] = c]
    <3>1. PICK p \in Procs : proc' = [proc EXCEPT ![p] = c]
      BY <2>4
    <3>2. c.img = Fresh
      OBVIOUS
    <3> HIDE DEF c
    <3>3. proc'[p] = c /\ \A q \in Procs : q # p => proc'[q] = proc[q]
      BY <1>0, <3>1 DEF SnapTypes
    <3>4. Forks(p)
      BY <2>1, <3>2, <3>3 DEF Forks
    <3> QED
      BY <2>1, <3>3, <3>4 DEF ImagesStep, Alive
  <2> QED
    BY <2>2, <2>3, <2>4
<1>6. ASSUME NEW p \in Procs,
             DumpCreate(p) \/ DumpHeader(p) \/ DumpBody(p) \/ DumpFail(p)
      PROVE  ImagesStep
  <2>1. bin' = bin
    <3>1. CASE DumpCreate(p) \/ DumpFail(p)
      BY <3>1 DEF DumpCreate, DumpFail
    <3>2. CASE DumpHeader(p) \/ DumpBody(p)
      <4>1. proc[p].at = "tmp"
        BY <3>2 DEF DumpHeader, DumpBody, SnapInv
      <4> QED
        BY <3>2, <4>1 DEF DumpHeader, DumpBody, WritePart
    <3> QED
      BY <1>6, <3>1, <3>2
  <2>2. /\ Alive(p)
        /\ proc'[p].img = proc[p].img \/ proc'[p] = NoProc
        /\ \A q \in Procs : q # p => proc'[q] = proc[q]
    <3>1. CASE DumpFail(p)
      BY <1>0, <3>1 DEF DumpFail, SnapTypes
    <3>2. CASE DumpCreate(p)
      BY <1>0, <3>2 DEF DumpCreate, Alive, SnapTypes, Child
    <3>3. CASE DumpHeader(p) \/ DumpBody(p)
      BY <1>0, <3>3 DEF DumpHeader, DumpBody, Alive, SnapTypes, Child
    <3> QED
      BY <1>6, <3>1, <3>2, <3>3
  <2> QED
    BY <1>1, <2>1, <2>2 DEF ImagesStep, Alive
<1>7. ASSUME NEW p \in Procs, DumpRename(p)
      PROVE  ImagesStep
  <2>1. /\ bin'.hdr = proc[p].img
        /\ \A q \in Procs : proc'[q] = NoProc
    BY <1>7, RenameStep
  <2>2. Alive(p) /\ UNCHANGED <<seqno, hist, clock, store, up>>
    BY <1>7 DEF DumpRename, Alive, mem
  <2> QED
    BY <1>1, <2>1, <2>2 DEF ImagesStep, Alive
<1> QED
  BY <1>2, <1>3, <1>4, <1>5, <1>6, <1>7 DEF Next, Commands, Snapshots

\* What a step does to the history: it grows by one event with the next number,
\* recovery keeps what survives, other steps leave it.
Grows(e) ==
    /\ up /\ e \in Event /\ hist' = Append(hist, e) /\ seqno' = seqno + 1 /\ e.n = seqno + 1
    /\ IsCommand(e) => e.ts = clock' /\ ReadClock
    /\ ~IsCommand(e) => e.ts = clock /\ clock' = clock
    /\ up' => store' = ApplyEntry(store, e)
HistStep ==
    \/ \E e \in Event : Grows(e)
    \/ Recover
    \/ /\ UNCHANGED <<hist, seqno>> /\ (clock' = clock \/ ReadClock)
       /\ up' => up /\ store' = store

\* Every step treats the history so.
LEMMA HistNext ==
  ASSUME Types, [Next]_vars
  PROVE  HistStep
<1>0. ServerTypes /\ SnapTypes
  BY TypesSplit
<1>1. ASSUME NEW u \in Uid, NEW op \in {"PUSH", "DEL"}, Command(op, u)
      PROVE  HistStep
  <2> DEFINE e == [op |-> op, uid |-> u, ts |-> clock', n |-> seqno']
  <2>1. /\ up /\ seqno < MaxCmds /\ ReadClock /\ seqno' = seqno + 1
        /\ store' = ApplyEntry(store, e) /\ hist' = Append(hist, e)
    BY <1>1 DEF Command
  <2>2. clock' \in Time
    BY <2>1 DEF ReadClock, Time
  <2>3. e \in Logged
    BY <1>0, <2>1, <2>2, EntryType
  <2>4. e.n = seqno + 1 /\ e.ts = clock' /\ IsCommand(e)
    BY <2>1 DEF IsCommand
  <2> HIDE DEF e
  <2>5. e \in Event
    BY <2>3, LoggedEvents
  <2>6. Grows(e)
    BY <2>1, <2>4, <2>5 DEF Grows
  <2> QED
    BY <2>5, <2>6 DEF HistStep
<1>2. ASSUME NEW u \in Uid, PushPanic(u)
      PROVE  HistStep
  <2> DEFINE e == [op |-> "PUSH", uid |-> u, ts |-> clock', n |-> seqno']
  <2>1. /\ up /\ seqno < MaxCmds /\ ReadClock /\ seqno' = seqno + 1
        /\ ~up' /\ hist' = Append(hist, e)
    BY <1>2 DEF PushPanic, ProcessGone
  <2>2. clock' \in Time
    BY <2>1 DEF ReadClock, Time
  <2>3. e \in Logged
    BY <1>0, <2>1, <2>2, EntryType
  <2>4. e.n = seqno + 1 /\ e.ts = clock' /\ IsCommand(e)
    BY <2>1 DEF IsCommand
  <2> HIDE DEF e
  <2>5. e \in Event
    BY <2>3, LoggedEvents
  <2>6. Grows(e)
    BY <2>1, <2>4, <2>5 DEF Grows
  <2> QED
    BY <2>5, <2>6 DEF HistStep
<1>3. ASSUME NEW u \in Uid, Evict(u)
      PROVE  HistStep
  <2> DEFINE e == [op |-> "EVICT", uid |-> u, ts |-> clock, n |-> seqno + 1]
  <2>1. /\ e \in Event /\ store' = ApplyEntry(store, e)
        /\ hist' = Append(hist, e) /\ seqno' = seqno + 1
    BY <1>0, <1>3, EvictEntry
  <2>2. e.n = seqno + 1 /\ e.ts = clock /\ ~IsCommand(e) /\ up /\ clock' = clock
    BY <1>3 DEF IsCommand, Evict
  <2> HIDE DEF e
  <2>3. Grows(e)
    BY <2>1, <2>2 DEF Grows
  <2> QED
    BY <2>1, <2>3 DEF HistStep
<1>4. CASE FlushWrite \/ FlushSync
  BY <1>4 DEF FlushWrite, FlushSync, mem, HistStep
<1>5. CASE CrashProcess \/ CrashMachine \/ Shutdown
  BY <1>5 DEF CrashProcess, CrashMachine, Shutdown, ProcessGone, HistStep
<1>6. CASE Snapshots
  BY <1>6 DEF Snapshots, MaybeFork, DumpCreate, DumpHeader, DumpBody, DumpRename, DumpFail, mem,
              HistStep
<1>7. CASE Recover
  BY <1>7 DEF HistStep
<1>8. CASE RecoverPanic \/ UNCHANGED vars
  BY <1>8 DEF RecoverPanic, vars, mem, HistStep
<1> QED
  BY <1>1, <1>2, <1>3, <1>4, <1>5, <1>6, <1>7, <1>8 DEF Next, Commands

\* Recovery keeps a part of the history, in order.
LEMMA RecoverHist ==
  ASSUME Types, Recover
  PROVE  /\ hist' \in Seq(Event) /\ Range(hist') = Range(hist) \cap Survivors
         /\ Range(hist') = Survivors /\ UNCHANGED <<clock, seqno, bin, proc, file, ring>>
         /\ Sorted(hist) => Sorted(hist')
<1>1. hist \in Seq(Event) /\ hist' = Only(hist, Survivors)
  BY DEF Types, ServerTypes, SnapTypes, Recover
<1>2. hist' \in Seq(Event) /\ Range(hist') = Range(hist) \cap Survivors
  BY <1>1, OnlyRange
<1>3. Survivors \subseteq Range(hist)
  BY DEF Survivors
<1>4. Range(hist) \cap Survivors = Survivors
  BY <1>3
<1>5. Sorted(hist) => Sorted(hist')
  BY <1>1, OnlySorted, LoggedEvents
<1>6. UNCHANGED <<clock, seqno, bin, proc, file, ring>>
  BY DEF Recover, snapfs
<1> QED
  BY <1>2, <1>4, <1>5, <1>6

-----------------------------------------------------------------------------
\* The order of the history and the numbers of the images.

\* Numbers and times are numbers.
LEMMA ImageNumbers ==
  ASSUME Types
  PROVE  /\ seqno \in Int /\ clock \in Int
         /\ bin.hdr.n \in Int /\ bin.hdr.ts \in Int
         /\ \A p \in Procs : proc[p].img.n \in Int /\ proc[p].img.ts \in Int
         /\ Range(hist) \subseteq Event
         /\ \A e \in Range(hist) : e.n \in Int /\ e.ts \in Int
<1>1. \A i \in Image : i.n \in Int /\ i.ts \in Int
  BY Consts DEF Image, Time
<1>2. bin.hdr \in Image /\ \A p \in Procs : proc[p].img \in Image
  BY DEF Types, ServerTypes, SnapTypes, SnapFile, Child
<1>3. Range(hist) \subseteq Event
  BY RangeOfSeq DEF Types, ServerTypes, SnapTypes
<1>4. \A e \in Range(hist) : e.n \in Int /\ e.ts \in Int
  BY <1>3, LoggedEvents
<1>5. seqno \in Int /\ clock \in Int
  BY DEF Types, ServerTypes, SnapTypes, Time
<1> QED
  BY <1>1, <1>2, <1>3, <1>4, <1>5

\* An event more.
LEMMA GrowsRange ==
  ASSUME Types, NEW e \in Event, Grows(e)
  PROVE  Range(hist') = Range(hist) \cup {e}
BY RangeAppend DEF Types, ServerTypes, SnapTypes, Grows

\* The empty history is in order, and cut at no command.
LEMMA InitHist == Init => HistInv /\ CutInv
<1> SUFFICES ASSUME Init
             PROVE  HistInv /\ CutInv
  OBVIOUS
<1>1. hist = <<>> /\ Range(hist) = {}
  BY RangeEmpty DEF Init
<1>2. Sorted(hist)
  BY <1>1 DEF Sorted
<1>3. bin.hdr.n = -1 /\ bin.hdr.ts = 0 /\ seqno = 0 /\ \A p \in Procs : ~Alive(p)
  BY DEF Init, NoFile, NoPart, NoProc, Alive
<1>4. 0 <= clock
  BY Consts DEF Init, Time
<1> QED
  BY <1>1, <1>2, <1>3, <1>4 DEF HistInv, CutInv, Cut

\* Every step keeps the history in order and the images behind it.
LEMMA HistInvStep ==
  ASSUME Types, SnapInv, HistInv, [Next]_vars
  PROVE  HistInv'
<1>1. Types' /\ ImagesStep /\ HistStep
  BY SnapStep, ImagesNext, HistNext
<1>2. seqno' \in Int /\ seqno <= seqno'
  <2>1. seqno \in Int
    BY ImageNumbers
  <2>2. seqno' = seqno \/ seqno' = seqno + 1
    BY <1>1 DEF HistStep, Grows, Recover
  <2> QED
    BY <2>1, <2>2
<1>3. Sorted(hist') /\ \A e \in Range(hist') : e.n <= seqno'
  <2>1. ASSUME NEW e \in Event, Grows(e)
        PROVE  Sorted(hist') /\ \A x \in Range(hist') : x.n <= seqno'
    <3>1. Range(hist') = Range(hist) \cup {e} /\ seqno' = seqno + 1 /\ e.n = seqno + 1
      BY <2>1, GrowsRange DEF Grows
    <3>2. \A x \in Range(hist) : x.n <= seqno /\ x.n < e.n
      BY <3>1, ImageNumbers DEF HistInv
    <3>3. Sorted(hist')
      BY <2>1, <3>2, SortedAppend, LoggedEvents DEF Grows, HistInv, Types, ServerTypes, SnapTypes
    <3> QED
      BY <3>1, <3>2, <3>3, ImageNumbers
  <2>2. CASE Recover
    BY <2>2, RecoverHist DEF HistInv
  <2>3. CASE UNCHANGED <<hist, seqno>>
    BY <2>3 DEF HistInv
  <2> QED
    BY <1>1, <2>1, <2>2, <2>3 DEF HistStep
<1>4. bin'.hdr.n <= seqno'
  <2>1. bin'.hdr.n <= seqno
    BY <1>1 DEF ImagesStep, HistInv
  <2> QED
    BY <1>1, <1>2, <2>1, ImageNumbers DEF ImagesStep
<1>5. ASSUME NEW p \in Procs, Alive(p)'
      PROVE  bin'.hdr.n <= proc'[p].img.n /\ proc'[p].img.n <= seqno' /\ 0 <= proc'[p].img.n
  <2>1. bin' = bin /\ ((Alive(p) /\ proc'[p].img = proc[p].img) \/ Forks(p))
    BY <1>1, <1>5 DEF ImagesStep
  <2>2. CASE Alive(p) /\ proc'[p].img = proc[p].img
    <3>1. bin.hdr.n <= proc[p].img.n /\ proc[p].img.n <= seqno /\ 0 <= proc[p].img.n
      BY <2>2 DEF HistInv
    <3> QED
      BY <1>2, <2>1, <2>2, <3>1, ImageNumbers
  <2>3. CASE Forks(p)
    <3>1. proc'[p].img.n = seqno /\ seqno' = seqno /\ 0 <= seqno
      BY <2>3 DEF Forks, Fresh, Types, ServerTypes, SnapTypes
    <3> QED
      BY <1>4, <2>1, <3>1, ImageNumbers DEF HistInv
  <2> QED
    BY <2>1, <2>2, <2>3
<1> QED
  BY <1>3, <1>4, <1>5 DEF HistInv

\* Unless the clock is set back a command is later than all there was.
LEMMA CutInvStep ==
  ASSUME ClockBack = 0, Types, SnapInv, HistInv, CutInv, [Next]_vars
  PROVE  CutInv'
<1>1. Types' /\ ImagesStep /\ HistStep
  BY SnapStep, ImagesNext, HistNext
<1>2. clock \in Int /\ clock' \in Int
  <2>1. clock \in Int
    BY ImageNumbers
  <2>2. clock' \in Int
    BY <1>1 DEF Types, ServerTypes, SnapTypes, Time
  <2> QED
    BY <2>1, <2>2
<1>3. ReadClock => clock' = clock + 1
  BY <1>2 DEF ReadClock
<1>4. clock <= clock'
  <2>1. clock' = clock \/ ReadClock
    BY <1>1 DEF HistStep, Grows, Recover
  <2> QED
    BY <1>2, <1>3, <2>1
<1>5. \A e \in Range(hist') : e.ts <= clock'
  <2>1. \A e \in Range(hist) : e.ts <= clock'
    BY <1>2, <1>4, ImageNumbers DEF CutInv
  <2>2. ASSUME NEW e \in Event, Grows(e)
        PROVE  \A x \in Range(hist') : x.ts <= clock'
    <3>1. e.ts = clock'
      BY <2>2 DEF Grows
    <3> QED
      BY <1>2, <2>1, <2>2, <3>1, GrowsRange
  <2>3. CASE Recover
    BY <2>1, <2>3, RecoverHist
  <2>4. CASE UNCHANGED <<hist, seqno>>
    BY <2>1, <2>4
  <2> QED
    BY <1>1, <2>2, <2>3, <2>4 DEF HistStep
<1>6. ASSUME NEW i, i.n \in Int, i.ts \in Int, i.n <= seqno, Cut(i)
      PROVE  i.ts <= clock' /\
             \A e \in Range(hist') : IsCommand(e) => (e.n <= i.n <=> e.ts <= i.ts)
  <2>1. i.ts <= clock' /\ \A e \in Range(hist) : IsCommand(e) => (e.n <= i.n <=> e.ts <= i.ts)
    BY <1>2, <1>4, <1>6 DEF Cut
  <2>2. ASSUME NEW e \in Event, Grows(e)
        PROVE  \A x \in Range(hist') : IsCommand(x) => (x.n <= i.n <=> x.ts <= i.ts)
    <3>1. IsCommand(e) => (e.n <= i.n <=> e.ts <= i.ts)
      <4> SUFFICES ASSUME IsCommand(e)
                   PROVE  ~(e.n <= i.n) /\ ~(e.ts <= i.ts)
        OBVIOUS
      <4>1. e.n = seqno + 1 /\ e.ts = clock + 1
        BY <1>3, <2>2 DEF Grows
      <4>2. i.ts <= clock
        BY <1>6 DEF Cut
      <4> QED
        BY <1>2, <1>6, <4>1, <4>2, ImageNumbers
    <3> QED
      BY <2>1, <2>2, <3>1, GrowsRange
  <2>3. CASE Recover
    BY <2>1, <2>3, RecoverHist
  <2>4. CASE UNCHANGED <<hist, seqno>>
    BY <2>1, <2>4
  <2> QED
    BY <1>1, <2>1, <2>2, <2>3, <2>4 DEF HistStep
<1>7. Cut(bin.hdr)'
  <2>1. CASE bin' = bin
    <3>1. bin.hdr.n <= seqno /\ Cut(bin.hdr)
      BY DEF HistInv, CutInv
    <3> QED
      BY <1>6, <2>1, <3>1, ImageNumbers DEF Cut
  <2>2. ASSUME NEW p \in Procs, Alive(p), bin'.hdr = proc[p].img
        PROVE  Cut(bin.hdr)'
    <3>1. proc[p].img.n <= seqno /\ Cut(proc[p].img)
      BY <2>2 DEF HistInv, CutInv
    <3> QED
      BY <1>6, <2>2, <3>1, ImageNumbers DEF Cut
  <2> QED
    BY <1>1, <2>1, <2>2 DEF ImagesStep
<1>8. ASSUME NEW p \in Procs, Alive(p)'
      PROVE  Cut(proc[p].img)'
  <2>1. (Alive(p) /\ proc'[p].img = proc[p].img) \/ Forks(p)
    BY <1>1, <1>8 DEF ImagesStep
  <2>2. CASE Alive(p) /\ proc'[p].img = proc[p].img
    <3>1. proc[p].img.n <= seqno /\ Cut(proc[p].img)
      BY <2>2 DEF HistInv, CutInv
    <3> QED
      BY <1>6, <2>2, <3>1, ImageNumbers DEF Cut
  <2>3. CASE Forks(p)
    <3>1. proc'[p].img.n = seqno /\ proc'[p].img.ts = clock' /\ hist' = hist
      BY <2>3 DEF Forks, Fresh
    <3>2. \A e \in Range(hist) : e.n <= seqno /\ e.ts <= clock'
      BY <1>2, <1>4, ImageNumbers DEF HistInv, CutInv
    <3> QED
      BY <1>2, <3>1, <3>2 DEF Cut
  <2> QED
    BY <2>1, <2>2, <2>3
<1> QED
  BY <1>5, <1>7, <1>8 DEF CutInv

\* The invariant of the history: no assumption is needed yet.
THEOREM HistCorrect == Spec => [](Types /\ SnapInv /\ HistInv)
<1>1. Init => Types /\ SnapInv /\ HistInv
  BY InitSnap, InitHist
<1>2. (Types /\ SnapInv /\ HistInv) /\ [Next]_vars => (Types /\ SnapInv /\ HistInv)'
  BY SnapStep, HistInvStep
<1> QED
  BY <1>1, <1>2, PTL DEF Spec

\* The invariant of timestamps, unless the clock is set back.
THEOREM CutCorrect ==
  ASSUME ClockBack = 0
  PROVE  Spec => []CutInv
<1>1. Init => CutInv
  BY InitHist
<1>2. (Types /\ SnapInv /\ HistInv) /\ CutInv /\ [Next]_vars => CutInv'
  BY CutInvStep
<1> QED
  BY <1>1, <1>2, HistCorrect, PTL DEF Spec

\* Unless the clock is set back or a write of the body is lost, snapshot_ts
\* divides the log exactly, however many snapshots, crashes and recoveries there
\* were.
THEOREM SnapshotCutAlwaysExact ==
  ASSUME ClockBack = 0, Lossy = FALSE
  PROVE  Spec => []SnapshotCutExact
<1>1. Types /\ SnapshotWhole /\ CutInv => SnapshotCutExact
  <2> SUFFICES ASSUME Types, SnapshotWhole, CutInv, NEW i \in 1 .. Len(hist), IsCommand(hist[i])
               PROVE  InSnapshot(hist[i]) <=> hist[i].ts <= bin.hdr.ts
    BY DEF SnapshotCutExact
  <2>1. hist[i] \in Range(hist)
    BY RangeEquality DEF Types, ServerTypes, SnapTypes
  <2>2. InSnapshot(hist[i]) <=> hist[i].n <= bin.hdr.n
    BY DEF SnapshotWhole, InSnapshot
  <2> QED
    BY <2>1, <2>2 DEF CutInv, Cut
<1> QED
  BY <1>1, HistCorrect, CutCorrect, WholeUnlessLossy, PTL

-----------------------------------------------------------------------------
\* The log, unless a crash tears a write or the snapshot has a hole.

\* What survives is in the snapshot or in the file.
LEMMA SavedIsSurvives ==
  ASSUME Types, SnapshotWhole, file \in Seq(Logged)
  PROVE  \A e : Survives(e) <=> Saved(e)
<1> SUFFICES ASSUME NEW e
             PROVE  Survives(e) <=> Saved(e)
  OBVIOUS
<1>1. Readable(file) = file
  BY LoggedEvents, ReadableType
<1>2. Range(file) = {file[i] : i \in 1 .. Len(file)}
  BY RangeEquality
<1>3. InFile(e) <=> \E x \in Range(file) : x.n = e.n
  BY <1>1, <1>2 DEF InFile
<1> QED
  BY <1>3 DEF Survives, InSnapshot, Saved, SnapshotWhole

\* Elements and order of the file and the ring.
LEMMA LogRanges ==
  ASSUME Types, SnapInv, HistInv, LogInv
  PROVE  /\ Range(file) \subseteq Logged /\ Range(ring) \subseteq Logged
         /\ \A x \in Range(file) \cup Range(ring) :
               x \in Range(hist) /\ x.n \in Int /\ x.n <= seqno /\ IsCommand(x)
         /\ Sorted(file) /\ Sorted(ring)
         /\ \A x \in Range(file), y \in Range(ring) : x.n < y.n
<1>1. file \in Seq(Logged) /\ ring \in Seq(Logged)
  BY DEF LogInv, Types, ServerTypes, SnapTypes
<1>2. Range(file) \subseteq Logged /\ Range(ring) \subseteq Logged
  BY <1>1, RangeOfSeq
<1>3. \A e \in Logged : e.n \in Nat
  BY LoggedEvents
<1>4. /\ Sorted(file) /\ Sorted(ring)
      /\ \A x \in Range(file), y \in Range(ring) : x.n < y.n
  BY <1>1, <1>3, SortedConcat DEF LogInv
<1>5. \A x \in Logged : IsCommand(x)
  BY DEF Logged, IsCommand
<1>6. \A x \in Range(file) \cup Range(ring) : x \in Range(hist)
  BY DEF LogInv
<1>7. \A x \in Range(hist) : x.n <= seqno /\ x.n \in Int
  BY ImageNumbers DEF HistInv
<1> QED
  BY <1>2, <1>4, <1>5, <1>6, <1>7

\* An empty log has no gap.
LEMMA InitLog == Init => LogInv
<1> SUFFICES ASSUME Init
             PROVE  LogInv
  OBVIOUS
<1>1. hist = <<>> /\ file = <<>> /\ ring = <<>> /\ synced = 0 /\ Range(<<>>) = {}
  BY RangeEmpty DEF Init
<1>2. file \o ring = <<>> /\ file \in Seq(Logged) /\ Len(file) = 0
  BY <1>1
<1>3. Sorted(<<>>)
  BY DEF Sorted
<1> QED
  BY <1>1, <1>2, <1>3 DEF LogInv

\* Steps that leave the log and the history alone: snapshot.bin may be newer.
LEMMA LogKept ==
  ASSUME Types, SnapInv, HistInv, LogInv, [Next]_vars,
         UNCHANGED <<file, ring, hist, mode>>, synced' = synced \/ synced' = Len(file),
         up' => up
  PROVE  LogInv'
<1>1. bin.hdr.n <= bin'.hdr.n /\ bin'.hdr.n \in Int /\ bin.hdr.n \in Int
  <2>1. ImagesStep /\ Types'
    BY ImagesNext, SnapStep
  <2>2. bin'.hdr.n \in Int
    BY <2>1, ImageNumbers DEF ImagesStep
  <2> QED
    BY <2>1, <2>2, ImageNumbers DEF ImagesStep, HistInv
<1>2. \A e \in Range(hist) : Saved(e) => Saved(e)'
  BY <1>1, ImageNumbers DEF Saved
<1>3. mode = "always" => synced' = Len(file')
  BY DEF LogInv
<1> QED
  BY <1>2, <1>3 DEF LogInv

\* A command more, in the file or in the ring.
LEMMA LogCommand ==
  ASSUME Types, SnapInv, HistInv, LogInv, NEW u \in Uid, NEW op \in {"PUSH", "DEL"},
         Command(op, u)
  PROVE  LogInv'
<1> DEFINE e == [op |-> op, uid |-> u, ts |-> clock', n |-> seqno']
<1>1. /\ seqno < MaxCmds /\ clock' \in Time /\ seqno' = seqno + 1
      /\ hist' = Append(hist, e) /\ up /\ up' = up /\ mode' = mode /\ bin' = bin
      /\ \/ /\ mode = "always" /\ file' = Append(file, e) /\ synced' = Len(file')
            /\ ring' = ring
         \/ mode # "always" /\ ring' = Append(ring, e) /\ file' = file /\ synced' = synced
  BY DEF Command, ReadClock, Time, snapfs
<1>2. e \in Logged /\ e.n = seqno + 1
  BY <1>1, EntryType, TypesSplit
<1> HIDE DEF e
<1>3. e \in Event /\ IsCommand(e)
  BY <1>2, LoggedEvents DEF Logged, IsCommand
<1>4. Range(hist') = Range(hist) \cup {e}
  BY <1>1, <1>3, RangeAppend DEF Types, ServerTypes, SnapTypes
<1>5. file \in Seq(Logged) /\ ring \in Seq(Logged) /\ file \o ring \in Seq(Logged)
  BY DEF LogInv, Types, ServerTypes, SnapTypes
<1>6. Range(file \o ring) = Range(file) \cup Range(ring)
  BY <1>5, RangeConcatenation
<1>7. \A x \in Range(file) \cup Range(ring) : x.n < e.n /\ ~(e.n < x.n)
  BY <1>2, LogRanges, ImageNumbers
<1>8. Sorted(Append(file \o ring, e))
  BY <1>2, <1>5, <1>6, <1>7, SortedAppend, LoggedEvents DEF LogInv
<1>9. CASE mode = "always"
  <2>1. file' = Append(file, e) /\ synced' = Len(file') /\ ring' = ring /\ ring = <<>>
    BY <1>1, <1>9 DEF LogInv
  <2>2. Range(file') = Range(file) \cup {e} /\ file' \in Seq(Logged)
    BY <1>2, <1>5, <2>1, RangeAppend
  <2>3. file' \o ring' = Append(file \o ring, e)
    BY <1>2, <1>5, <2>1, <2>2
  <2>4. \A x \in Range(hist) : Saved(x) => Saved(x)'
    BY <1>1, <2>2 DEF Saved
  <2>5. \A x : x = e => Saved(x)'
    BY <2>2 DEF Saved
  <2>6. \A x \in Range(hist') : IsCommand(x) => Saved(x)'
    BY <1>4, <1>9, <2>4, <2>5 DEF LogInv
  <2>7. Range(file') \cup Range(ring') \subseteq Range(hist')
    BY <1>4, <2>1, <2>2 DEF LogInv
  <2> QED
    BY <1>1, <1>8, <2>1, <2>2, <2>3, <2>6, <2>7 DEF LogInv
<1>10. CASE mode # "always"
  <2>1. file' = file /\ ring' = Append(ring, e)
    BY <1>1, <1>10
  <2>2. Range(ring') = Range(ring) \cup {e}
    BY <1>2, <1>5, <2>1, RangeAppend
  <2>3. file' \o ring' = Append(file \o ring, e)
    BY <1>2, <1>5, <2>1
  <2>4. \A x \in Range(hist) : Saved(x) => Saved(x)'
    BY <1>1, <2>1 DEF Saved
  <2>5. Range(file') \cup Range(ring') \subseteq Range(hist')
    BY <1>4, <2>1, <2>2 DEF LogInv
  <2>6. \A x \in Range(hist') : IsCommand(x) => Saved(x)' \/ x \in Range(ring')
    BY <1>1, <1>4, <2>2, <2>4 DEF LogInv
  <2>7. \A x \in Range(hist'), y \in Range(file') : IsCommand(x) /\ x.n < y.n => Saved(x)'
    BY <1>4, <1>7, <2>1, <2>4 DEF LogInv
  <2> QED
    BY <1>1, <1>5, <1>8, <1>10, <2>1, <2>3, <2>5, <2>6, <2>7 DEF LogInv
<1> QED
  BY <1>9, <1>10

\* An eviction more, which is no command.
LEMMA LogEvict ==
  ASSUME Types, SnapInv, HistInv, LogInv, NEW u \in Uid, Evict(u)
  PROVE  LogInv'
<1> DEFINE e == [op |-> "EVICT", uid |-> u, ts |-> clock, n |-> seqno + 1]
<1>1. e \in Event /\ hist' = Append(hist, e) /\ ~IsCommand(e)
  BY EvictEntry, TypesSplit DEF IsCommand
<1> HIDE DEF e
<1>2. Range(hist') = Range(hist) \cup {e}
  BY <1>1, RangeAppend DEF Types, ServerTypes, SnapTypes
<1>3. UNCHANGED <<up, mode, ring, file, synced, bin>>
  BY DEF Evict, snapfs
<1>4. \A x : Saved(x)' <=> Saved(x)
  BY <1>3 DEF Saved
<1> QED
  BY <1>1, <1>2, <1>3, <1>4 DEF LogInv

\* Concatenation of commands is associative.
LEMMA LogAssoc == \A s, t, u \in Seq(Logged) : (s \o t) \o u = s \o (t \o u)
BY ConcatAssociative

\* Part of the ring reaches the file: with it all that came before.
LEMMA LogFlush ==
  ASSUME Types, SnapInv, HistInv, LogInv, up, bin' = bin, hist' = hist, mode' = mode,
         NEW k \in 0 .. Len(ring), file' = file \o SubSeq(ring, 1, k),
         ring' = SubSeq(ring, k + 1, Len(ring)),
         mode = "always" => synced' = Len(file')
  PROVE  LogInv'
<1> DEFINE a == SubSeq(ring, 1, k)
           b == SubSeq(ring, k + 1, Len(ring))
<1>1. file \in Seq(Logged) /\ ring \in Seq(Logged)
  BY DEF LogInv, Types, ServerTypes, SnapTypes
<1>2. a \in Seq(Logged) /\ b \in Seq(Logged) /\ a \o b = ring
  BY <1>1, SplitAt
<1>3. file' = file \o a /\ ring' = b
  OBVIOUS
<1> HIDE DEF a, b
<1>4. file' \in Seq(Logged) /\ file' \o ring' = file \o ring
  <2>1. file \o a \in Seq(Logged)
    BY <1>1, <1>2
  <2>2. (file \o a) \o b = file \o (a \o b)
    BY <1>1, <1>2, LogAssoc, Zenon
  <2> QED
    BY <1>2, <1>3, <2>1, <2>2, Zenon
<1>5. Range(file') = Range(file) \cup Range(a) /\ Range(ring) = Range(a) \cup Range(ring')
  <2>1. Range(file \o a) = Range(file) \cup Range(a)
    BY <1>1, <1>2, RangeConcatenation
  <2>2. Range(a \o b) = Range(a) \cup Range(b)
    BY <1>2, RangeConcatenation
  <2> QED
    BY <1>2, <1>3, <2>1, <2>2, Zenon
<1>6. \A x \in Range(a), y \in Range(ring') : x.n < y.n
  <2>1. Sorted(a \o b)
    BY <1>2, LogRanges
  <2> QED
    BY <1>2, <1>3, <2>1, SortedConcat, LoggedEvents
<1>7. \A e : Saved(e) \/ e \in Range(a) => Saved(e)'
  BY <1>5 DEF Saved
<1>8. \A e \in Range(hist) : IsCommand(e) => Saved(e)' \/ e \in Range(ring')
  BY <1>5, <1>7 DEF LogInv
<1>9. ASSUME NEW e \in Range(hist), NEW x \in Range(file'), IsCommand(e), e.n < x.n
      PROVE  Saved(e)'
  <2>1. CASE x \in Range(file)
    BY <1>7, <1>9, <2>1 DEF LogInv
  <2>2. CASE x \in Range(a)
    <3>1. e \in Range(ring') => x.n < e.n /\ x.n \in Int /\ e.n \in Int
      BY <1>5, <1>6, <2>2, LogRanges
    <3>2. e \notin Range(ring')
      BY <1>9, <3>1
    <3> QED
      BY <1>8, <1>9, <3>2
  <2> QED
    BY <1>5, <1>9, <2>1, <2>2
<1>10. mode = "always" => ring' = <<>> /\ \A e \in Range(hist) : IsCommand(e) => Saved(e)'
  <2> SUFFICES ASSUME mode = "always"
               PROVE  ring' = <<>> /\ \A e \in Range(hist) : IsCommand(e) => Saved(e)'
    OBVIOUS
  <2>1. ring = <<>>
    BY DEF LogInv
  <2>2. b = <<>>
    BY <1>2, <2>1, ConcatEqualIffEmpty
  <2> QED
    BY <1>3, <1>7, <2>2 DEF LogInv
<1>11. Range(file') \cup Range(ring') \subseteq Range(hist')
  BY <1>5 DEF LogInv
<1>12. Sorted(file' \o ring')
  BY <1>4 DEF LogInv
<1> QED
  BY <1>4, <1>8, <1>9, <1>10, <1>11, <1>12 DEF LogInv

\* The server stops, and a part of the file that reaches to its synced prefix
\* is left.
LEMMA LogCut ==
  ASSUME Types, SnapInv, HistInv, LogInv, bin' = bin, hist' = hist, mode' = mode, ~up',
         NEW k \in 0 .. Len(file), file' = SubSeq(file, 1, k), ring' = <<>>,
         mode = "always" => k = Len(file) /\ synced' = Len(file')
  PROVE  LogInv'
<1> DEFINE a == SubSeq(file, 1, k)
           b == SubSeq(file, k + 1, Len(file))
<1>1. file \in Seq(Logged)
  BY DEF LogInv
<1>2. a \in Seq(Logged) /\ b \in Seq(Logged) /\ a \o b = file
  BY <1>1, SplitAt
<1>3. k = Len(file) => a = file
  BY <1>1, SubSeqFull
<1>4. file' = a
  OBVIOUS
<1> HIDE DEF a, b
<1>5. Range(file) = Range(a) \cup Range(b)
  BY <1>2, RangeConcatenation
<1>6. Sorted(a) /\ \A x \in Range(a), y \in Range(b) : x.n < y.n
  <2>1. Sorted(a \o b)
    BY <1>2, LogRanges
  <2> QED
    BY <1>2, <2>1, SortedConcat, LoggedEvents
<1>7. file' \o ring' = a /\ file' \in Seq(Logged)
  BY <1>2, <1>4
<1>8. ASSUME NEW e \in Range(hist), NEW x \in Range(file'), IsCommand(e), e.n < x.n
      PROVE  Saved(e)'
  <2>1. Saved(e)
    BY <1>4, <1>5, <1>8 DEF LogInv
  <2>2. CASE e.n <= bin.hdr.n
    BY <2>2 DEF Saved
  <2>3. CASE ~(e.n <= bin.hdr.n)
    <3>1. PICK y \in Range(file) : y.n = e.n
      BY <2>1, <2>3 DEF Saved
    <3>2. y \in Range(b) => x.n < y.n /\ x.n \in Int /\ y.n \in Int
      BY <1>4, <1>5, <1>6, <1>8, LogRanges
    <3>3. y \in Range(a)
      BY <1>5, <1>8, <3>1, <3>2
    <3> QED
      BY <1>4, <3>1, <3>3 DEF Saved
  <2> QED
    BY <2>2, <2>3
<1>9. mode = "always" => \A e \in Range(hist) : IsCommand(e) => Saved(e)'
  BY <1>3, <1>4 DEF LogInv, Saved
<1>10. Range(file') \cup Range(ring') \subseteq Range(hist')
  BY <1>4, <1>5, RangeEmpty DEF LogInv
<1> QED
  BY <1>6, <1>7, <1>8, <1>9, <1>10 DEF LogInv

\* The pool is exhausted: the entry that did it is logged, and the ring drained.
LEMMA LogPanic ==
  ASSUME Types, SnapInv, HistInv, LogInv, NEW u \in Uid, PushPanic(u)
  PROVE  LogInv'
<1> DEFINE e == [op |-> "PUSH", uid |-> u, ts |-> clock', n |-> seqno']
           es == Append(ring, e)
<1>1. /\ seqno < MaxCmds /\ clock' \in Time /\ seqno' = seqno + 1
      /\ hist' = Append(hist, e) /\ up /\ ~up' /\ mode' = mode /\ bin' = bin
      /\ file' = file \o es /\ ring' = <<>>
      /\ mode = "always" => synced' = Len(file')
  BY DEF PushPanic, ProcessGone, DrainRing, ReadClock, Time
<1>2. e \in Logged /\ e.n = seqno + 1
  BY <1>1, EntryType, TypesSplit
<1> HIDE DEF e
<1>3. e \in Event
  BY <1>2, LoggedEvents
<1>4. Range(hist') = Range(hist) \cup {e}
  BY <1>1, <1>3, RangeAppend DEF Types, ServerTypes, SnapTypes
<1>5. file \in Seq(Logged) /\ ring \in Seq(Logged) /\ es \in Seq(Logged)
  BY <1>2 DEF LogInv, Types, ServerTypes, SnapTypes
<1>6. Range(es) = Range(ring) \cup {e}
  BY <1>2, <1>5, RangeAppend
<1>7. file \o es = Append(file \o ring, e) /\ file \o ring \in Seq(Logged)
  BY <1>2, <1>5
<1> HIDE DEF es
<1>8. Range(file') = Range(file) \cup Range(ring) \cup {e} /\ file' \in Seq(Logged)
  <2>1. Range(file') = Range(file) \cup Range(es)
    BY <1>1, <1>5, RangeConcatenation
  <2> QED
    BY <1>1, <1>5, <1>6, <2>1
<1>9. \A x \in Range(file \o ring) : x.n < e.n
  <2>1. Range(file \o ring) = Range(file) \cup Range(ring)
    BY <1>5, RangeConcatenation
  <2> QED
    BY <1>2, <2>1, LogRanges, ImageNumbers
<1>10. Sorted(file') /\ file' \o ring' = file'
  <2>1. Sorted(file')
    BY <1>1, <1>2, <1>7, <1>9, SortedAppend, LoggedEvents DEF LogInv
  <2> QED
    BY <1>1, <1>8, <2>1
<1>11. \A x \in Range(hist') : IsCommand(x) => Saved(x)'
  <2>1. \A x \in Range(hist) : Saved(x) \/ x \in Range(ring) => Saved(x)'
    BY <1>1, <1>8 DEF Saved
  <2>2. \A x : x = e => Saved(x)'
    BY <1>8 DEF Saved
  <2> QED
    BY <1>1, <1>4, <2>1, <2>2 DEF LogInv
<1>12. Range(file') \cup Range(ring') \subseteq Range(hist')
  BY <1>1, <1>4, <1>8, RangeEmpty DEF LogInv
<1> QED
  BY <1>1, <1>8, <1>10, <1>11, <1>12 DEF LogInv

\* Recovery: the history shrinks to what survives.
LEMMA LogRecover ==
  ASSUME Types, SnapInv, HistInv, SnapshotWhole, LogInv, Recover
  PROVE  LogInv'
<1>1. /\ Range(hist') = Survivors /\ UNCHANGED <<bin, file, ring, mode, synced>> /\ ~up
      /\ ring = <<>>
  BY RecoverHist DEF Recover, Types, ServerTypes, SnapTypes
<1>2. \A e : Survives(e) <=> Saved(e)
  BY SavedIsSurvives DEF LogInv
<1>3. \A e \in Range(hist') : e \in Range(hist) /\ Saved(e)
  BY <1>1, <1>2 DEF Survivors
<1>4. \A e : Saved(e) <=> Saved(e)'
  BY <1>1 DEF Saved
<1>5. Range(file') \cup Range(ring') \subseteq Range(hist')
  <2>1. \A x \in Range(file) : Saved(x) /\ x \in Range(hist)
    BY LogRanges DEF Saved
  <2> QED
    BY <1>1, <1>2, <2>1, RangeEmpty DEF Survivors
<1> QED
  BY <1>1, <1>3, <1>4, <1>5 DEF LogInv

\* EventLoop::shutdown drains the ring into the file.
LEMMA ShutdownDrains ==
  ASSUME Types, Shutdown
  PROVE  /\ up /\ ~up' /\ bin' = bin /\ hist' = hist /\ mode' = mode
         /\ file' = file \o SubSeq(ring, 1, Len(ring))
         /\ ring' = SubSeq(ring, Len(ring) + 1, Len(ring))
         /\ Len(ring) \in 0 .. Len(ring)
         /\ mode = "always" => synced' = Len(file')
<1>1. ring \in Seq(Logged) /\ Len(ring) \in Nat
  BY DEF Types, ServerTypes, SnapTypes
<1>2. SubSeq(ring, 1, Len(ring)) = ring
  BY <1>1, SubSeqFull
<1>3. SubSeq(ring, Len(ring) + 1, Len(ring)) = <<>>
  BY <1>1, SubSeqEmpty
<1>4. /\ up /\ ~up' /\ bin' = bin /\ hist' = hist /\ mode' = mode /\ file' = file \o ring
      /\ ring' = <<>> /\ (mode = "always" => synced' = Len(file'))
  BY DEF Shutdown, ProcessGone, DrainRing
<1>5. Len(ring) \in 0 .. Len(ring)
  BY <1>1
<1> QED
  BY <1>2, <1>3, <1>4, <1>5, Zenon

\* Every step leaves a log without a gap.
LEMMA LogInvStep ==
  ASSUME Torn = FALSE, Types, SnapInv, HistInv, SnapshotWhole, LogInv, [Next]_vars
  PROVE  LogInv'
<1>0. /\ file \in Seq(Logged) /\ Len(file) \in Nat /\ synced \in 0 .. Len(file)
      /\ SubSeq(file, 1, Len(file)) = file /\ file \o <<>> = file
  <2>1. file \in Seq(Logged) /\ synced \in 0 .. Len(file)
    BY DEF LogInv, Types, ServerTypes, SnapTypes
  <2> QED
    BY <2>1, SubSeqFull
<1>1. \A f \in Fragment : f = <<>>
  BY DEF Fragment
<1>2. CASE FlushWrite
  <2>1. PICK k \in 1 .. Len(ring) :
            file' = file \o SubSeq(ring, 1, k) /\ ring' = SubSeq(ring, k + 1, Len(ring))
    BY <1>2 DEF FlushWrite
  <2>2. up /\ bin' = bin /\ hist' = hist /\ mode' = mode
    BY <1>2 DEF FlushWrite, snapfs
  <2>3. mode # "always"
    <3> SUFFICES ASSUME ring = <<>>
                 PROVE  FALSE
      BY DEF LogInv
    <3>1. Len(ring) = 0
      OBVIOUS
    <3> QED
      BY <2>1, <3>1
  <2>4. k \in 0 .. Len(ring)
    BY <2>1
  <2> QED
    BY <2>1, <2>2, <2>3, <2>4, LogFlush
<1>3. CASE FlushSync
  BY <1>3, LogKept DEF FlushSync, mem
<1>4. CASE Snapshots
  <2>1. UNCHANGED <<file, ring, hist, mode, synced, up>>
    BY <1>4 DEF Snapshots, MaybeFork, DumpCreate, DumpHeader, DumpBody, DumpRename, DumpFail, mem
  <2> QED
    BY <2>1, LogKept
<1>5. CASE CrashProcess
  <2>1. /\ bin' = bin /\ hist' = hist /\ mode' = mode /\ ~up' /\ ring' = <<>>
        /\ synced' = synced /\ file' = file
    BY <1>0, <1>1, <1>5 DEF CrashProcess, ProcessGone
  <2>2. file' = SubSeq(file, 1, Len(file)) /\ Len(file) \in 0 .. Len(file)
    BY <1>0, <2>1
  <2>3. mode = "always" => synced' = Len(file')
    BY <2>1 DEF LogInv
  <2> QED
    BY <2>1, <2>2, <2>3, LogCut
<1>6. CASE CrashMachine
  <2>1. PICK k \in synced .. Len(file), f \in Fragment : file' = SubSeq(file, 1, k) \o f
    BY <1>6 DEF CrashMachine
  <2>2. k \in 0 .. Len(file) /\ f = <<>>
    BY <1>0, <1>1
  <2>3. SubSeq(file, 1, k) \in Seq(Logged)
    BY <1>0, <2>2, SplitAt
  <2>4. file' = SubSeq(file, 1, k)
    BY <2>1, <2>2, <2>3, ConcatEmptySeq
  <2>5. /\ bin' = bin /\ hist' = hist /\ mode' = mode /\ ~up' /\ ring' = <<>>
        /\ synced' = Len(file')
    BY <1>6 DEF CrashMachine, ProcessGone
  <2>6. mode = "always" => k = Len(file)
    BY <1>0, <2>1 DEF LogInv
  <2> QED
    BY <2>2, <2>4, <2>5, <2>6, LogCut
<1>7. CASE Shutdown
  BY <1>7, ShutdownDrains, LogFlush
<1>8. CASE RecoverPanic \/ UNCHANGED vars
  <2>1. UNCHANGED <<file, ring, hist, mode, synced, up>>
    BY <1>8 DEF RecoverPanic, vars, mem
  <2> QED
    BY <2>1, LogKept
<1> QED
  BY <1>2, <1>3, <1>4, <1>5, <1>6, <1>7, <1>8, LogCommand, LogEvict, LogPanic, LogRecover
     DEF Next, Commands

\* The invariant of the log, unless a crash tears a write or the snapshot has a
\* hole.
THEOREM LogCorrect ==
  ASSUME Torn = FALSE, Lossy = FALSE
  PROVE  Spec => []LogInv
<1>1. Init => LogInv
  BY InitLog
<1>2. (Types /\ SnapInv /\ HistInv) /\ SnapshotWhole /\ LogInv /\ [Next]_vars => LogInv'
  BY LogInvStep
<1> QED
  BY <1>1, <1>2, HistCorrect, WholeUnlessLossy, PTL DEF Spec

\* The elements of the history, by index.
LEMMA HistElements ==
  ASSUME Types, NEW i \in 1 .. Len(hist)
  PROVE  hist[i] \in Range(hist)
BY RangeEquality DEF Types, ServerTypes, SnapTypes

\* Unless writes are torn or lost: a command that survives has every earlier
\* command survive with it, in the snapshot or in the file.
THEOREM SurvivorsAlwaysPrefix ==
  ASSUME Torn = FALSE, Lossy = FALSE
  PROVE  Spec => []SurvivorsArePrefix
<1>1. Types /\ SnapshotWhole /\ HistInv /\ LogInv => SurvivorsArePrefix
  <2> SUFFICES ASSUME Types, SnapshotWhole, HistInv, LogInv,
                      NEW i \in 1 .. Len(hist), NEW j \in 1 .. Len(hist), i < j,
                      IsCommand(hist[i]), Survives(hist[j])
               PROVE  Survives(hist[i])
    BY DEF SurvivorsArePrefix
  <2> DEFINE d == hist[i]
             e == hist[j]
  <2>1. d \in Range(hist) /\ e \in Range(hist) /\ d.n < e.n
    BY HistElements DEF HistInv, Sorted
  <2>2. \A x : Survives(x) <=> Saved(x)
    BY SavedIsSurvives DEF LogInv
  <2>3. IsCommand(d) /\ Saved(e)
    BY <2>2
  <2> HIDE DEF d, e
  <2>4. d.n \in Int /\ e.n \in Int /\ bin.hdr.n \in Int
    BY <2>1, ImageNumbers
  <2>5. CASE e.n <= bin.hdr.n
    BY <2>1, <2>2, <2>4, <2>5 DEF Saved, d
  <2>6. CASE ~(e.n <= bin.hdr.n)
    <3>1. PICK x \in Range(file) : x.n = e.n
      BY <2>3, <2>6 DEF Saved
    <3>2. Saved(d)
      BY <2>1, <2>3, <3>1 DEF LogInv
    <3> QED
      BY <2>2, <3>2 DEF d
  <2> QED
    BY <2>5, <2>6
<1> QED
  BY <1>1, HistCorrect, WholeUnlessLossy, LogCorrect, PTL

\* Unless writes are torn or lost: in mode always every acknowledged command
\* survives, whatever stops the server.
THEOREM AlwaysModeLosesNothing ==
  ASSUME Torn = FALSE, Lossy = FALSE
  PROVE  Spec => []AlwaysLosesNothing
<1>1. Types /\ SnapshotWhole /\ LogInv => AlwaysLosesNothing
  <2> SUFFICES ASSUME Types, SnapshotWhole, LogInv, mode = "always",
                      NEW i \in 1 .. Len(hist), IsCommand(hist[i])
               PROVE  Survives(hist[i])
    BY DEF AlwaysLosesNothing
  <2>1. hist[i] \in Range(hist)
    BY HistElements
  <2>2. Saved(hist[i])
    BY <2>1 DEF LogInv
  <2> QED
    BY <2>2, SavedIsSurvives DEF LogInv
<1> QED
  BY <1>1, HistCorrect, WholeUnlessLossy, LogCorrect, PTL

\* Unless writes are torn or lost: a graceful shutdown loses no acknowledged
\* command in any mode.
THEOREM ShutdownNeverLoses ==
  ASSUME Torn = FALSE, Lossy = FALSE
  PROVE  Spec => ShutdownLosesNothing
<1> DEFINE Kept == Shutdown => \A i \in 1 .. Len(hist) : IsCommand(hist[i]) => Survives(hist[i])'
<1>1. (Types /\ SnapInv /\ HistInv) /\ SnapshotWhole /\ LogInv /\ [Next]_vars => [Kept]_vars
  <2> SUFFICES ASSUME Types, SnapInv, HistInv, SnapshotWhole, LogInv, [Next]_vars, Shutdown,
                      NEW i \in 1 .. Len(hist), IsCommand(hist[i])
               PROVE  Survives(hist[i])'
    OBVIOUS
  <2>1. Types' /\ LogInv' /\ hist' = hist /\ up /\ bin' = bin
    BY SnapStep, LogInvStep, ShutdownDrains
  <2>2. hist[i] \in Range(hist)
    BY HistElements
  <2>3. Saved(hist[i]) \/ hist[i] \in Range(ring)
    BY <2>1, <2>2 DEF LogInv
  <2>4. Range(file') = Range(file) \cup Range(ring)
    <3>1. ring \in Seq(Logged) /\ file \in Seq(Logged)
      BY DEF Types, ServerTypes, SnapTypes, LogInv
    <3>2. file' = file \o ring
      BY DEF Shutdown, DrainRing
    <3> QED
      BY <3>1, <3>2, RangeConcatenation
  <2>5. Saved(hist[i])'
    BY <2>1, <2>3, <2>4 DEF Saved
  <2>6. (\A e : Survives(e) <=> Saved(e))'
    <3>1. Types' /\ SnapshotWhole' /\ (file \in Seq(Logged))'
      BY <2>1 DEF LogInv, SnapshotWhole
    <3> QED
      BY <3>1, SavedIsSurvives, PTL
  <2> QED
    BY <2>1, <2>5, <2>6
<1> QED
  BY <1>1, HistCorrect, WholeUnlessLossy, LogCorrect, PTL DEF Spec, ShutdownLosesNothing

-----------------------------------------------------------------------------
\* The store is what the history makes of it: the clock is never set back and
\* no write is torn or lost.

\* A part of the history, and the same part of a later one.
LEMMA UpToIs ==
  ASSUME Types, HistInv, NEW k
  PROVE  /\ UpTo(k) \in Seq(Event) /\ Sorted(UpTo(k))
         /\ Range(UpTo(k)) = {e \in Range(hist) : e.n <= k}
<1> DEFINE S == {e \in Range(hist) : e.n <= k}
<1>1. hist \in Seq(Event) /\ Sorted(hist)
  BY DEF Types, ServerTypes, SnapTypes, HistInv
<1>2. UpTo(k) = Only(hist, S)
  BY DEF UpTo
<1> HIDE DEF S
<1>3. UpTo(k) \in Seq(Event) /\ Range(UpTo(k)) = Range(hist) \cap S
  BY <1>1, <1>2, OnlyRange
<1>4. Sorted(UpTo(k))
  BY <1>1, <1>2, OnlySorted, LoggedEvents
<1>5. Range(hist) \cap S = {e \in Range(hist) : e.n <= k}
  BY DEF S
<1> QED
  BY <1>3, <1>4, <1>5

\* Histories in order are determined by their events.
LEMMA SameHistory ==
  ASSUME NEW s \in Seq(Event), NEW t \in Seq(Event), Sorted(s), Sorted(t),
         \A e : e \in Range(s) <=> e \in Range(t)
  PROVE  s = t
<1>1. Range(s) = Range(t)
  BY Zenon
<1> QED
  BY <1>1, SortedUnique, LoggedEvents

\* Before the first snapshot the image is the empty store.
LEMMA InitStore == Init => StoreInv
<1> SUFFICES ASSUME Init
             PROVE  StoreInv
  OBVIOUS
<1>1. Types /\ HistInv
  BY InitSnap, InitHist
<1>2. hist = <<>> /\ Range(hist) = {}
  BY RangeEmpty DEF Init
<1>3. Apply(EmptyStore, <<>>).store = EmptyStore
  BY ApplyEmpty
<1>4. UpTo(bin.hdr.n) = hist
  <2>1. \A e : e \in Range(UpTo(bin.hdr.n)) <=> e \in Range(hist)
    BY <1>1, <1>2, UpToIs
  <2> QED
    BY <1>1, <2>1, UpToIs, SameHistory DEF Types, ServerTypes, SnapTypes, HistInv
<1>5. bin.hdr.store = EmptyStore /\ store = EmptyStore /\ \A p \in Procs : ~Alive(p)
  BY DEF Init, NoFile, NoPart, NoProc, Alive
<1> QED
  BY <1>2, <1>3, <1>4, <1>5 DEF StoreInv, IsImage

\* An image stays the image of a part of the history.
LEMMA ImageKept ==
  ASSUME Types, HistInv, Types', HistInv', NEW i, i.n \in Int, IsImage(i),
         \A e : e \in Range(hist') /\ e.n <= i.n <=> e \in Range(hist) /\ e.n <= i.n
  PROVE  i.store = Apply(EmptyStore, Only(hist', {e \in Range(hist') : e.n <= i.n})).store
<1> DEFINE k == i.n
           new == Only(hist', {e \in Range(hist') : e.n <= k})
<1>1. UpTo(k) \in Seq(Event) /\ Sorted(UpTo(k)) /\ Range(UpTo(k)) = {e \in Range(hist) : e.n <= k}
  BY UpToIs
<1>2. hist' \in Seq(Event) /\ Sorted(hist')
  BY DEF Types, ServerTypes, SnapTypes, HistInv
<1>3. /\ new \in Seq(Event) /\ Sorted(new)
      /\ Range(new) = Range(hist') \cap {e \in Range(hist') : e.n <= k}
  BY <1>2, OnlyRange, OnlySorted, LoggedEvents
<1>4. \A e : e \in Range(new) <=> e \in Range(UpTo(k))
  BY <1>1, <1>3
<1> HIDE DEF new
<1>5. new = UpTo(k)
  BY <1>1, <1>3, <1>4, SameHistory
<1> QED
  BY <1>5 DEF IsImage, new

\* Replay applies the commands that come after the snapshot ...
LEMMA ReplayedIs ==
  ASSUME Types, SnapInv, HistInv, SnapshotWhole, CutInv, LogInv
  PROVE  /\ Replayed \in Seq(Event) /\ Sorted(Replayed)
         /\ Range(Replayed) = {e \in Range(file) : ~(e.n <= bin.hdr.n)}
         /\ SnapStore(bin) = bin.hdr.store
<1> DEFINE S == {e \in Range(file) : e.ts > SnapTs(bin)}
<1>1. file \in Seq(Logged) /\ Readable(file) = file
  BY LoggedEvents, ReadableType DEF LogInv
<1>2. Replayed = Only(file, S)
  BY <1>1 DEF Replayed
<1>3. Replayed \in Seq(Event)
  BY RecoveredIs
<1> HIDE DEF S
<1>4. Range(Replayed) = Range(file) \cap S
  BY <1>1, <1>2, OnlyRange
<1>5. Sorted(Replayed)
  BY <1>1, <1>2, OnlySorted, LogRanges, LoggedEvents
<1>6. SnapTs(bin) = bin.hdr.ts
  BY DEF SnapTs
<1>7. \A e \in Range(file) : e \in Range(hist) /\ IsCommand(e)
  BY LogRanges
<1>8. \A e \in Range(file) : e.n <= bin.hdr.n <=> e.ts <= bin.hdr.ts
  BY <1>7 DEF CutInv, Cut
<1>9. \A e \in Range(file) : e.ts > SnapTs(bin) <=> ~(e.n <= bin.hdr.n)
  BY <1>6, <1>7, <1>8, ImageNumbers
<1>10. Range(Replayed) = {e \in Range(file) : ~(e.n <= bin.hdr.n)}
  BY <1>4, <1>9 DEF S
<1>11. SnapStore(bin) = bin.hdr.store
  <2>1. bin \in SnapFile /\ bin.hdr = bin.body
    BY DEF Types, ServerTypes, SnapTypes, SnapshotWhole
  <2>2. NoPart.store = EmptyStore
    BY DEF NoPart
  <2> QED
    BY <2>1, <2>2, SnapStoreIs
<1> QED
  BY <1>3, <1>5, <1>10, <1>11

\* ... so that with the history up to the snapshot they are what survives.
LEMMA SurvivorsSplit ==
  ASSUME Types, SnapInv, HistInv, SnapshotWhole, CutInv, LogInv
  PROVE  /\ UpTo(bin.hdr.n) \o Replayed \in Seq(Event)
         /\ Sorted(UpTo(bin.hdr.n) \o Replayed)
         /\ \A e : e \in Range(UpTo(bin.hdr.n) \o Replayed) <=> e \in Survivors
<1> DEFINE k == bin.hdr.n
           a == UpTo(k)
           b == Replayed
<1>1. a \in Seq(Event) /\ Sorted(a) /\ Range(a) = {e \in Range(hist) : e.n <= k}
  BY UpToIs
<1>2. b \in Seq(Event) /\ Sorted(b) /\ Range(b) = {e \in Range(file) : ~(e.n <= k)}
  BY ReplayedIs
<1>3. k \in Int /\ \A e \in Range(file) : e \in Range(hist) /\ e.n \in Int
  BY LogRanges, ImageNumbers
<1>4. \A e : e \in Survivors <=> e \in Range(hist) /\ (e.n <= k \/ \E x \in Range(file) : x.n = e.n)
  <2>1. \A e : Survives(e) <=> Saved(e)
    BY SavedIsSurvives DEF LogInv
  <2> QED
    BY <2>1 DEF Survivors, Saved
<1>5. \A x, y \in Range(hist) : x.n = y.n => x = y
  <2> SUFFICES ASSUME NEW x \in Range(hist), NEW y \in Range(hist), x.n = y.n
               PROVE  x = y
    OBVIOUS
  <2>1. Range(hist) = {hist[i] : i \in 1 .. Len(hist)} /\ Len(hist) \in Nat
    BY RangeEquality DEF Types, ServerTypes, SnapTypes
  <2>2. PICK i \in 1 .. Len(hist), j \in 1 .. Len(hist) : x = hist[i] /\ y = hist[j]
    BY <2>1
  <2>3. ~(i < j) /\ ~(j < i)
    <3>1. x.n \in Int /\ y.n \in Int
      BY ImageNumbers
    <3> QED
      BY <2>2, <3>1 DEF HistInv, Sorted
  <2>4. i = j
    BY <2>1, <2>3
  <2> QED
    BY <2>2, <2>4
<1> HIDE DEF k, a, b
<1>6. Range(a \o b) = Range(a) \cup Range(b) /\ a \o b \in Seq(Event)
  BY <1>1, <1>2, RangeConcatenation
<1>7. Sorted(a \o b)
  <2>1. \A x \in Range(a), y \in Range(b) : x.n < y.n
    BY <1>1, <1>2, <1>3, ImageNumbers
  <2> QED
    BY <1>1, <1>2, <2>1, SortedConcat, LoggedEvents
<1>8. ASSUME NEW e
      PROVE  e \in Range(a \o b) <=> e \in Survivors
  <2>1. e \in Range(b) => e \in Survivors
    BY <1>2, <1>3, <1>4
  <2>2. e \in Range(a) => e \in Survivors
    BY <1>1, <1>4
  <2>3. ASSUME e \in Survivors
        PROVE  e \in Range(a) \/ e \in Range(b)
    <3>1. e \in Range(hist) /\ (e.n <= k \/ \E x \in Range(file) : x.n = e.n)
      BY <1>4, <2>3
    <3>2. CASE e.n <= k
      BY <1>1, <3>1, <3>2
    <3>3. CASE ~(e.n <= k)
      <4>1. PICK x \in Range(file) : x.n = e.n
        BY <3>1, <3>3
      <4>2. x = e
        BY <1>3, <1>5, <3>1, <4>1
      <4> QED
        BY <1>2, <3>3, <4>1, <4>2
    <3> QED
      BY <3>2, <3>3
  <2> QED
    BY <1>6, <2>1, <2>2, <2>3
<1> QED
  BY <1>6, <1>7, <1>8 DEF a, b, k

\* Recovery, as execution from the empty store.
LEMMA RecoveredFromEmpty ==
  ASSUME Types, SnapInv, HistInv, SnapshotWhole, CutInv, LogInv, StoreInv
  PROVE  /\ Recovered.store = Apply(EmptyStore, UpTo(bin.hdr.n) \o Replayed).store
         /\ Apply(EmptyStore, UpTo(bin.hdr.n) \o Replayed).fits => Recovered.fits
<1> DEFINE a == UpTo(bin.hdr.n)
           b == Replayed
<1>1. a \in Seq(Event) /\ b \in Seq(Event)
  BY UpToIs, ReplayedIs
<1>2. bin.hdr.store = Apply(EmptyStore, a).store
  BY DEF StoreInv, IsImage
<1>3. Recovered = Apply(bin.hdr.store, b)
  BY RecoveredIs, ReplayedIs
<1> HIDE DEF a, b
<1>4. /\ Apply(EmptyStore, a \o b).store = Apply(Apply(EmptyStore, a).store, b).store
      /\ Apply(EmptyStore, a \o b).fits <=>
            Apply(EmptyStore, a).fits /\ Apply(Apply(EmptyStore, a).store, b).fits
  BY <1>1, EmptyGood, ApplyConcat
<1>5. Recovered = Apply(Apply(EmptyStore, a).store, b)
  BY <1>2, <1>3
<1> QED
  BY <1>4, <1>5 DEF a, b

\* Every step keeps the store and the images what the history makes of them.
LEMMA StoreInvStep ==
  ASSUME Types, SnapInv, HistInv, SnapshotWhole, CutInv, LogInv, StoreInv, [Next]_vars
  PROVE  StoreInv'
<1>1. Types' /\ ImagesStep /\ HistStep /\ HistInv'
  BY SnapStep, ImagesNext, HistNext, HistInvStep
<1>2. hist \in Seq(Event)
  BY DEF Types, ServerTypes, SnapTypes
<1>3. up' => store' = Apply(EmptyStore, hist').store
  <2>1. ASSUME NEW e \in Event, Grows(e), up'
        PROVE  store' = Apply(EmptyStore, hist').store
    <3>1. /\ hist' = Append(hist, e) /\ store' = ApplyEntry(store, e)
          /\ store = Apply(EmptyStore, hist).store
      BY <2>1 DEF Grows, StoreInv
    <3>2. Apply(EmptyStore, Append(hist, e)) = Step(Apply(EmptyStore, hist), e)
      BY <1>2, ApplyAppend
    <3>3. Apply(EmptyStore, Append(hist, e)).store = ApplyEntry(Apply(EmptyStore, hist).store, e)
      BY <3>2 DEF Step
    <3> QED
      BY <3>1, <3>3
  <2>2. CASE Recover
    <3>1. \A e : e \in Range(hist') <=> e \in Range(UpTo(bin.hdr.n) \o Replayed)
      BY <2>2, RecoverHist, SurvivorsSplit
    <3>2. hist' \in Seq(Event) /\ Sorted(hist')
      BY <2>2, RecoverHist DEF HistInv
    <3>3. hist' = UpTo(bin.hdr.n) \o Replayed
      BY <3>1, <3>2, SurvivorsSplit, SameHistory
    <3> QED
      BY <2>2, <3>3, RecoveredFromEmpty DEF Recover
  <2>3. CASE UNCHANGED <<hist, seqno>> /\ (up' => up /\ store' = store)
    BY <2>3 DEF StoreInv
  <2> QED
    BY <1>1, <2>1, <2>2, <2>3 DEF HistStep
<1>4. ASSUME NEW i, i.n \in Int, i.n <= seqno, IsImage(i), Recover => i.n <= bin.hdr.n
      PROVE  i.store = Apply(EmptyStore, Only(hist', {e \in Range(hist') : e.n <= i.n})).store
  <2>1. \A e : e \in Range(hist') /\ e.n <= i.n <=> e \in Range(hist) /\ e.n <= i.n
    <3>1. ASSUME NEW e \in Event, Grows(e)
          PROVE  \A x : x \in Range(hist') /\ x.n <= i.n <=> x \in Range(hist) /\ x.n <= i.n
      <4>1. ~(e.n <= i.n)
        BY <1>4, <3>1, ImageNumbers DEF Grows
      <4> QED
        BY <3>1, <4>1, GrowsRange
    <3>2. CASE Recover
      <4>1. Range(hist') = Survivors
        BY <3>2, RecoverHist
      <4>2. \A e \in Range(hist) : e.n <= i.n => e.n <= bin.hdr.n
        BY <1>4, <3>2, ImageNumbers
      <4>3. \A e : e \in Survivors <=> e \in Range(hist) /\ Survives(e)
        BY DEF Survivors
      <4>4. \A e : e.n <= bin.hdr.n => Survives(e)
        BY DEF Survives, InSnapshot, SnapshotWhole
      <4> QED
        BY <4>1, <4>2, <4>3, <4>4
    <3>3. CASE UNCHANGED <<hist, seqno>>
      BY <3>3
    <3> QED
      BY <1>1, <3>1, <3>2, <3>3 DEF HistStep
  <2> QED
    BY <1>1, <1>4, <2>1, ImageKept
<1>5. IsImage(bin.hdr)'
  <2>1. CASE bin' = bin
    <3>1. bin.hdr.n \in Int /\ bin.hdr.n <= seqno /\ IsImage(bin.hdr)
      BY ImageNumbers DEF HistInv, StoreInv
    <3> QED
      BY <1>4, <2>1, <3>1 DEF IsImage, UpTo
  <2>2. ASSUME NEW p \in Procs, Alive(p), bin'.hdr = proc[p].img, hist' = hist
        PROVE  IsImage(bin.hdr)'
    BY <2>2 DEF StoreInv, IsImage, UpTo
  <2> QED
    BY <1>1, <2>1, <2>2 DEF ImagesStep
<1>6. ASSUME NEW p \in Procs, Alive(p)'
      PROVE  IsImage(proc[p].img)'
  <2>1. (Alive(p) /\ proc'[p].img = proc[p].img) \/ Forks(p)
    BY <1>1, <1>6 DEF ImagesStep
  <2>2. CASE Alive(p) /\ proc'[p].img = proc[p].img
    <3>1. /\ proc[p].img.n \in Int /\ proc[p].img.n <= seqno /\ IsImage(proc[p].img)
      BY <2>2, ImageNumbers DEF HistInv, StoreInv
    <3>2. ~Recover
      BY <2>2 DEF Recover, PortFree
    <3> QED
      BY <1>4, <2>2, <3>1, <3>2 DEF IsImage, UpTo
  <2>3. CASE Forks(p)
    <3>1. /\ proc'[p].img.n = seqno /\ proc'[p].img.store = store /\ hist' = hist
          /\ store = Apply(EmptyStore, hist).store
      BY <2>3 DEF Forks, Fresh, StoreInv
    <3>2. UpTo(seqno) = hist
      <4>1. \A e : e \in Range(UpTo(seqno)) <=> e \in Range(hist)
        BY UpToIs DEF HistInv
      <4> QED
        BY <1>2, <4>1, UpToIs, SameHistory DEF HistInv
    <3> QED
      BY <3>1, <3>2 DEF IsImage, UpTo
  <2> QED
    BY <2>1, <2>2, <2>3
<1> QED
  BY <1>3, <1>5, <1>6 DEF StoreInv

\* The invariant of the store.
THEOREM StoreInvCorrect ==
  ASSUME ClockBack = 0, Torn = FALSE, Lossy = FALSE
  PROVE  Spec => []StoreInv
<1>1. Init => StoreInv
  BY InitStore
<1>2. (Types /\ SnapInv /\ HistInv) /\ SnapshotWhole /\ CutInv /\ LogInv /\ StoreInv /\ [Next]_vars => StoreInv'
  BY StoreInvStep
<1> QED
  BY <1>1, <1>2, HistCorrect, WholeUnlessLossy, CutCorrect, LogCorrect, PTL DEF Spec

\* Unless the clock is set back or a write is torn or lost: after every recovery
\* the store is what the surviving commands make, each applied once and in order.
THEOREM StoreAlwaysHistory ==
  ASSUME ClockBack = 0, Torn = FALSE, Lossy = FALSE
  PROVE  Spec => []StoreIsHistory
<1>1. StoreInv => StoreIsHistory
  BY DEF StoreInv, StoreIsHistory
<1> QED
  BY <1>1, StoreInvCorrect, PTL

\* The history after what recovery applies: commands that are lost.
LEMMA HistorySplit ==
  ASSUME Types, SnapInv, HistInv, SnapshotWhole, CutInv, LogInv, EvictionsSaved
  PROVE  \E c \in Seq(Event) : hist = (UpTo(bin.hdr.n) \o Replayed) \o c
<1> DEFINE s == UpTo(bin.hdr.n) \o Replayed
           S == Range(hist) \ Survivors
           c == Only(hist, S)
<1>1. s \in Seq(Event) /\ Sorted(s) /\ \A e : e \in Range(s) <=> e \in Survivors
  BY SurvivorsSplit
<1>2. hist \in Seq(Event) /\ Sorted(hist) /\ \A e \in Event : e.n \in Nat
  BY LoggedEvents DEF Types, ServerTypes, SnapTypes, HistInv
<1> HIDE DEF s, S
<1>3. c \in Seq(Event) /\ Range(c) = Range(hist) \cap S /\ Sorted(c)
  BY <1>2, OnlyRange, OnlySorted
<1> HIDE DEF c
<1>4. \A e : e \in Range(c) <=> e \in Range(hist) /\ e \notin Survivors
  BY <1>3 DEF S
<1>5. \A e : e \in Survivors <=> e \in Range(hist) /\ Saved(e)
  <2>1. \A e : Survives(e) <=> Saved(e)
    BY SavedIsSurvives DEF LogInv
  <2> QED
    BY <2>1 DEF Survivors
<1>6. \A e \in Range(c) : IsCommand(e)
  <2> SUFFICES ASSUME NEW e \in Range(c), ~IsCommand(e)
               PROVE  FALSE
    OBVIOUS
  <2>1. e \in Range(hist) /\ ~Saved(e)
    BY <1>4, <1>5
  <2>2. PICK i \in 1 .. Len(hist) : hist[i] = e
    BY <1>2, <2>1, RangeEquality
  <2>3. InSnapshot(e)
    BY <2>2 DEF EvictionsSaved, IsCommand
  <2> QED
    BY <2>1, <2>3 DEF InSnapshot, Saved, SnapshotWhole
<1>7. ASSUME NEW x \in Range(s), NEW y \in Range(c)
      PROVE  x.n < y.n
  <2>1. /\ x \in Range(hist) /\ Saved(x) /\ y \in Range(hist) /\ ~Saved(y) /\ IsCommand(y)
        /\ x.n \in Int /\ y.n \in Int /\ bin.hdr.n \in Int
    BY <1>1, <1>4, <1>5, <1>6, ImageNumbers
  <2>2. CASE x.n <= bin.hdr.n
    BY <2>1, <2>2 DEF Saved
  <2>3. CASE ~(x.n <= bin.hdr.n)
    <3>1. PICK f \in Range(file) : f.n = x.n
      BY <2>1, <2>3 DEF Saved
    <3>2. ~(y.n < f.n) /\ f.n # y.n
      BY <2>1 DEF LogInv, Saved
    <3> QED
      BY <2>1, <3>1, <3>2
  <2> QED
    BY <2>2, <2>3
<1>8. s \o c \in Seq(Event) /\ Sorted(s \o c) /\ Range(s \o c) = Range(s) \cup Range(c)
  BY <1>1, <1>2, <1>3, <1>7, SortedConcat, RangeConcatenation
<1>9. \A e : e \in Range(s \o c) <=> e \in Range(hist)
  BY <1>1, <1>4, <1>5, <1>8
<1>10. s \o c = hist
  BY <1>2, <1>8, <1>9, SameHistory
<1> QED
  BY <1>3, <1>10 DEF s

\* Unless the clock is set back or a write is torn or lost: replay never runs out
\* of slots if execution did not and no eviction was undone.
THEOREM RecoveryAlwaysFits ==
  ASSUME ClockBack = 0, Torn = FALSE, Lossy = FALSE
  PROVE  Spec => []RecoveryFits
<1>1. (Types /\ SnapInv /\ HistInv) /\ SnapshotWhole /\ CutInv /\ LogInv /\ StoreInv => RecoveryFits
  <2> SUFFICES ASSUME Types, SnapInv, HistInv, SnapshotWhole, CutInv, LogInv, StoreInv,
                      EvictionsSaved, Apply(EmptyStore, hist).fits
               PROVE  Recovered.fits
    BY DEF RecoveryFits
  <2> DEFINE s == UpTo(bin.hdr.n) \o Replayed
  <2>1. s \in Seq(Event)
    BY SurvivorsSplit
  <2>2. PICK c \in Seq(Event) : hist = s \o c
    BY HistorySplit
  <2>3. Apply(EmptyStore, s).fits => Recovered.fits
    BY RecoveredFromEmpty
  <2> HIDE DEF s
  <2>4. Apply(EmptyStore, s \o c).fits => Apply(EmptyStore, s).fits
    BY <2>1, EmptyGood, ApplyConcat
  <2> QED
    BY <2>2, <2>3, <2>4
<1> QED
  BY <1>1, HistCorrect, WholeUnlessLossy, CutCorrect, LogCorrect, StoreInvCorrect, PTL
=============================================================================
