---------------------------- MODULE StoreProofs ----------------------------
(***************************************************************************)
(* The store for every number of slots, users and records per user.         *)
(*                                                                          *)
(* Memory safety of the slot allocator: NoAliasing and FreeListIntact need  *)
(* each other, since a push must not hit a pointer of the free list, and    *)
(* the slot taken from the list must have no owner.  NoLeak is what makes a *)
(* panic mean "full".                                                       *)
(*                                                                          *)
(* Refinement of EventLog: by RingInv the cells that a buffer counts hold   *)
(* records, which PushIndices follows around the ring: a push that          *)
(* overwrites the oldest cell is the log's LastN.                           *)
(***************************************************************************)
EXTENDS Store, SequenceTheorems, FiniteSetTheorems, TLAPS

\* Every slot is free or has an owner.
NoLeak ==
    \A s \in Slot : \/ \E i \in 1 .. Len(free) : free[i] = s
                    \/ \E u \in Uid : Present(u) /\ map[u].data = s

\* The part of TypeOK that does not concern what GET returns.
AllocType ==
    /\ mem \in [Slot -> [0 .. N - 1 -> Cell]]
    /\ map \in [Uid -> Buf \cup {NoBuf}]
    /\ free_list \in Slot \cup {Null}
    /\ free \in Seq(Slot)
    /\ panicked \in BOOLEAN

\* The inductive invariant.
AllocInv == AllocType /\ NoAliasing /\ FreeListIntact /\ NoLeak /\ PanicOnlyIfFull

\* The constants are positive: a slot has a first cell, where the next pointer lies.
LEMMA Constants == Slots \in Nat /\ Slots > 0 /\ N \in Nat /\ N > 0 /\ 0 \in 0 .. N - 1
BY SlotsAssumption, NAssumption

\* A key that is present owns a slot, an absent one none.
LEMMA PresentFacts ==
  ASSUME AllocType, NEW u \in Uid
  PROVE  /\ Present(u) => map[u] \in Buf /\ map[u].data \in Slot
         /\ ~Present(u) => map[u] = NoBuf /\ map[u].data = Null
         /\ Null \notin Slot
BY DEF AllocType, Present, Buf, NoBuf, Null, Slot

\* RingBuffer::push keeps the slot and stays within it.
LEMMA AdvanceType ==
  ASSUME NEW b \in Buf, NEW t \in Ts
  PROVE  Advance(b, t) \in Buf /\ Advance(b, t).data = b.data
<1>1. /\ b.head \in 0 .. N - 1 /\ b.count \in 0 .. N /\ b.data \in Slot
      /\ DOMAIN b = {"data", "head", "count", "ts"}
  BY DEF Buf
<1>2. (b.head + 1) % N \in 0 .. N - 1
  BY <1>1, Constants
<1>3. (IF b.count < N THEN b.count + 1 ELSE b.count) \in 0 .. N
  BY <1>1, Constants
<1>4. t \in Nat
  BY TsAssumption
<1> QED
  BY <1>1, <1>2, <1>3, <1>4 DEF Advance, Buf

\* A buffer with a slot is not the absent buffer.
LEMMA BufNotAbsent == \A b \in Buf : b # NoBuf
<1>1. Null \notin Slot
  BY DEF Null, Slot
<1> QED
  BY <1>1 DEF Buf, NoBuf

\* A push for a key that exists writes only the key's own slot.
LEMMA PushOldStep ==
  ASSUME AllocInv, NEW u \in Uid, NEW r \in Rec, NEW t \in Ts, PushOld(u, r, t)
  PROVE  AllocInv'
<1> USE DEF AllocInv
<1>1. map[u] \in Buf /\ map[u].data \in Slot /\ Present(u)
  BY PresentFacts DEF PushOld
<1> DEFINE b == map[u]
<1>2. b.head \in 0 .. N - 1
  BY <1>1 DEF Buf
<1>3. UNCHANGED <<free_list, free, panicked>>
  BY DEF PushOld
<1>4. mem' \in [Slot -> [0 .. N - 1 -> Cell]]
  <2>1. [kind |-> "rec", val |-> r] \in Cell
    BY DEF Cell
  <2> QED
    BY <1>1, <1>2, <2>1 DEF PushOld, AllocType
<1>5. /\ map' = [map EXCEPT ![u] = Advance(b, t)]
      /\ Advance(b, t) \in Buf /\ Advance(b, t).data = b.data
  BY <1>1, AdvanceType DEF PushOld
<1>6. AllocType'
  BY <1>3, <1>4, <1>5 DEF AllocType
<1>7. \A v \in Uid : map'[v].data = map[v].data /\ (Present(v)' <=> Present(v))
  BY <1>1, <1>5, BufNotAbsent DEF AllocType, Present
<1>8. NoAliasing'
  BY <1>3, <1>7 DEF NoAliasing
<1>9. FreeListIntact'
  <2>1. \A i \in 1 .. Len(free) : free[i] # b.data /\ free[i] \in Slot
    BY <1>1 DEF NoAliasing, AllocType
  <2>2. \A i \in 1 .. Len(free) : mem'[free[i]] = mem[free[i]]
    BY <2>1 DEF PushOld, AllocType
  <2> QED
    BY <1>3, <2>2 DEF FreeListIntact
<1>10. NoLeak' /\ PanicOnlyIfFull'
  BY <1>3, <1>7 DEF NoLeak, PanicOnlyIfFull
<1> QED
  BY <1>6, <1>8, <1>9, <1>10

\* A push for a new key takes the first free slot, which nobody owns.
LEMMA PushNewStep ==
  ASSUME AllocInv, NEW u \in Uid, NEW r \in Rec, NEW t \in Ts, PushNew(u, r, t)
  PROVE  AllocInv'
<1> USE DEF AllocInv
<1>1. /\ free # <<>> /\ free \in Seq(Slot) /\ Len(free) \in Nat /\ Len(free) >= 1
      /\ free_list = free[1] /\ free_list \in Slot
  <2>1. free \in Seq(Slot)
    BY DEF AllocType
  <2>2. free # <<>>
    BY DEF PushNew, FreeListIntact
  <2> QED
    BY <2>1, <2>2 DEF FreeListIntact
<1> DEFINE s == free_list
           b == [data |-> s, head |-> 0, count |-> 0, ts |-> 0]
           rec == [kind |-> "rec", val |-> r]
<1>2. /\ mem' = [mem EXCEPT ![s][0] = rec]
      /\ map' = [map EXCEPT ![u] = Advance(b, t)]
      /\ free_list' = mem[s][0].val /\ free' = Tail(free)
      /\ panicked' = panicked /\ ~panicked /\ ~Present(u)
  BY DEF PushNew
<1>3. b \in Buf
  BY <1>1, Constants DEF Buf
<1>4. Advance(b, t) \in Buf /\ Advance(b, t).data = s
  BY <1>3, AdvanceType
<1>5. /\ \A i \in 1 .. Len(free') : /\ i + 1 \in 1 .. Len(free)
                                   /\ free'[i] = free[i + 1] /\ free[i + 1] \in Slot
      /\ Len(free') = Len(free) - 1 /\ free' \in Seq(Slot)
  BY <1>1, <1>2
<1>6. mem[s][0] = Ptr(IF 1 < Len(free) THEN free[2] ELSE Null)
  BY <1>1 DEF FreeListIntact
<1>7. free_list' = IF 1 < Len(free) THEN free[2] ELSE Null
  BY <1>2, <1>6 DEF Ptr
<1>8. AllocType'
  <2>1. rec \in Cell
    BY DEF Cell
  <2>2. mem' \in [Slot -> [0 .. N - 1 -> Cell]]
    BY <1>1, <1>2, <2>1, Constants DEF AllocType
  <2>3. map' \in [Uid -> Buf \cup {NoBuf}]
    BY <1>2, <1>4 DEF AllocType
  <2>4. free_list' \in Slot \cup {Null}
    BY <1>1, <1>7
  <2> QED
    BY <1>2, <1>5, <2>2, <2>3, <2>4 DEF AllocType
<1>9. /\ map'[u].data = s /\ Present(u)'
      /\ \A v \in Uid \ {u} : map'[v] = map[v] /\ (Present(v)' <=> Present(v))
  BY <1>2, <1>4, BufNotAbsent DEF AllocType, Present
<1>10. \A v \in Uid : map[v].data # s
  <2>1. \A v \in Uid : Present(v) => map[v].data # s
    BY <1>1 DEF NoAliasing
  <2>2. \A v \in Uid : ~Present(v) => map[v].data # s
    BY <1>1, PresentFacts
  <2> QED
    BY <2>1, <2>2
<1>11. \A i \in 1 .. Len(free') : free'[i] # s
  BY <1>1, <1>5 DEF FreeListIntact
<1>12. NoAliasing'
  <2> SUFFICES ASSUME NEW v \in Uid, Present(v)'
               PROVE  /\ \A w \in Uid \ {v} : map'[w].data # map'[v].data
                      /\ \A i \in 1 .. Len(free') : free'[i] # map'[v].data
    BY DEF NoAliasing
  <2>1. CASE v = u
    BY <1>9, <1>10, <1>11, <2>1
  <2>2. CASE v # u
    <3>1. /\ Present(v) /\ map'[v].data = map[v].data
          /\ \A w \in Uid \ {v} : map[w].data # map[v].data
          /\ \A i \in 1 .. Len(free) : free[i] # map[v].data
      BY <1>9, <2>2 DEF NoAliasing
    <3> QED
      BY <1>5, <1>9, <1>10, <3>1
  <2> QED
    BY <2>1, <2>2
<1>13. FreeListIntact'
  <2>1. \A i \in 1 .. Len(free') : mem'[free'[i]] = mem[free'[i]]
    BY <1>2, <1>5, <1>11 DEF AllocType
  <2>2. free_list' = IF free' = <<>> THEN Null ELSE Head(free')
    <3>1. CASE 1 < Len(free)
      BY <1>1, <1>5, <1>7, <3>1
    <3>2. CASE ~(1 < Len(free))
      BY <1>1, <1>5, <1>7, <3>2
    <3> QED
      BY <3>1, <3>2
  <2>3. ASSUME NEW i \in 1 .. Len(free')
        PROVE  /\ mem'[free'[i]][0] = Ptr(IF i < Len(free') THEN free'[i + 1] ELSE Null)
               /\ \A j \in 1 .. Len(free') : free'[i] = free'[j] => i = j
    <3>1. mem[free[i + 1]][0] = Ptr(IF i + 1 < Len(free) THEN free[(i + 1) + 1] ELSE Null)
      BY <1>5, <2>3 DEF FreeListIntact
    <3>2. i < Len(free') <=> i + 1 < Len(free)
      BY <1>1, <1>5, <2>3
    <3>3. i < Len(free') => free'[i + 1] = free[(i + 1) + 1]
      BY <1>1, <1>5, <2>3
    <3>4. \A j \in 1 .. Len(free') : free[i + 1] = free[j + 1] => i + 1 = j + 1
      BY <1>5, <2>3 DEF FreeListIntact
    <3>5. mem'[free'[i]][0] = Ptr(IF i < Len(free') THEN free'[i + 1] ELSE Null)
      BY <1>5, <2>1, <2>3, <3>1, <3>2, <3>3
    <3>6. ASSUME NEW j \in 1 .. Len(free'), free'[i] = free'[j]
          PROVE  i = j
      <4>1. free[i + 1] = free[j + 1]
        BY <1>5, <2>3, <3>6
      <4>2. i + 1 = j + 1
        BY <3>4, <4>1
      <4> QED
        BY <4>2
    <3> QED
      BY <3>5, <3>6
  <2> QED
    BY <2>2, <2>3 DEF FreeListIntact
<1>14. NoLeak'
  <2> SUFFICES ASSUME NEW c \in Slot
               PROVE  \/ \E i \in 1 .. Len(free') : free'[i] = c
                      \/ \E v \in Uid : Present(v)' /\ map'[v].data = c
    BY DEF NoLeak
  <2>1. CASE c = s
    BY <1>9, <2>1
  <2>2. CASE c # s /\ \E i \in 1 .. Len(free) : free[i] = c
    <3>1. PICK i \in 1 .. Len(free) : free[i] = c
      BY <2>2
    <3>2. i # 1
      BY <1>1, <2>2, <3>1
    <3>3. i - 1 \in 1 .. Len(free') /\ (i - 1) + 1 = i
      BY <1>1, <1>5, <3>2
    <3>4. free'[i - 1] = c
      BY <1>5, <3>1, <3>3
    <3> QED
      BY <3>3, <3>4
  <2>3. CASE \E v \in Uid : Present(v) /\ map[v].data = c
    BY <1>2, <1>9, <2>3
  <2> QED
    BY <2>1, <2>2, <2>3 DEF NoLeak
<1>15. PanicOnlyIfFull'
  BY <1>2 DEF PanicOnlyIfFull
<1> QED
  BY <1>8, <1>12, <1>13, <1>14, <1>15

\* An erase puts the slot, now without an owner, in front of the list.
LEMMA EraseStep ==
  ASSUME AllocInv, NEW u \in Uid, Erase(u)
  PROVE  AllocInv'
<1> USE DEF AllocInv
<1>1. map[u] \in Buf /\ map[u].data \in Slot /\ Present(u) /\ Null \notin Slot
  BY PresentFacts DEF Erase
<1> DEFINE s == map[u].data
<1>2. /\ map' = [map EXCEPT ![u] = NoBuf]
      /\ mem' = [mem EXCEPT ![s][0] = Ptr(free_list)]
      /\ free_list' = s /\ free' = <<s>> \o free
      /\ panicked' = panicked /\ ~panicked
  BY DEF Erase
<1>3. free \in Seq(Slot) /\ Len(free) \in Nat /\ free_list \in Slot \cup {Null}
  BY LenProperties DEF AllocType
<1>4. /\ free' \in Seq(Slot) /\ Len(free') = Len(free) + 1 /\ free'[1] = s
      /\ \A i \in 1 .. Len(free) : free'[i + 1] = free[i] /\ free[i] \in Slot
  BY <1>1, <1>2, <1>3
<1>5. \A i \in 1 .. Len(free') : i = 1 \/ (i - 1 \in 1 .. Len(free) /\ free'[i] = free[i - 1])
  BY <1>1, <1>2, <1>3, <1>4
<1>6. /\ map'[u] = NoBuf /\ map'[u].data = Null /\ ~Present(u)'
      /\ \A v \in Uid \ {u} : map'[v] = map[v] /\ (Present(v)' <=> Present(v))
  BY <1>2 DEF AllocType, Present, NoBuf
<1>7. AllocType'
  <2>1. Ptr(free_list) \in Cell
    BY <1>3 DEF Ptr, Cell
  <2>2. mem' \in [Slot -> [0 .. N - 1 -> Cell]]
    BY <1>1, <1>2, <2>1, Constants DEF AllocType
  <2>3. map' \in [Uid -> Buf \cup {NoBuf}]
    BY <1>2 DEF AllocType
  <2> QED
    BY <1>1, <1>2, <1>4, <2>2, <2>3 DEF AllocType
<1>8. \A i \in 1 .. Len(free) : free[i] # s
  BY <1>1 DEF NoAliasing
<1>9. NoAliasing'
  <2> SUFFICES ASSUME NEW v \in Uid, Present(v)'
               PROVE  /\ \A w \in Uid \ {v} : map'[w].data # map'[v].data
                      /\ \A i \in 1 .. Len(free') : free'[i] # map'[v].data
    BY DEF NoAliasing
  <2>1. /\ v # u /\ Present(v) /\ map'[v].data = map[v].data /\ map[v].data \in Slot
        /\ \A w \in Uid \ {v} : map[w].data # map[v].data
        /\ \A i \in 1 .. Len(free) : free[i] # map[v].data
    BY <1>6, PresentFacts DEF NoAliasing
  <2>2. \A w \in Uid \ {v} : map'[w].data # map'[v].data
    BY <1>1, <1>6, <2>1
  <2>3. \A i \in 1 .. Len(free') : free'[i] # map'[v].data
    BY <1>4, <1>5, <2>1
  <2> QED
    BY <2>2, <2>3
<1>10. FreeListIntact'
  <2>1. free_list' = IF free' = <<>> THEN Null ELSE Head(free')
    BY <1>2, <1>3, <1>4
  <2>2. mem'[s][0] = Ptr(free_list)
    BY <1>1, <1>2, Constants DEF AllocType
  <2>3. \A i \in 1 .. Len(free) : mem'[free[i]] = mem[free[i]]
    BY <1>2, <1>4, <1>8 DEF AllocType
  <2>4. ASSUME NEW i \in 1 .. Len(free')
        PROVE  mem'[free'[i]][0] = Ptr(IF i < Len(free') THEN free'[i + 1] ELSE Null)
    <3>1. CASE i = 1
      <4>1. free_list = IF Len(free) >= 1 THEN free[1] ELSE Null
        BY <1>3 DEF FreeListIntact
      <4>2. Len(free) >= 1 => free'[1 + 1] = free[1]
        BY <1>3, <1>4
      <4>3. (1 < Len(free')) <=> (Len(free) >= 1)
        BY <1>3, <1>4
      <4> QED
        BY <1>4, <2>2, <3>1, <4>1, <4>2, <4>3
    <3>2. CASE i # 1
      <4> DEFINE k == i - 1
      <4>1. k \in 1 .. Len(free) /\ free'[i] = free[k] /\ i = k + 1
        BY <1>5, <2>4, <3>2
      <4>2. mem[free[k]][0] = Ptr(IF k < Len(free) THEN free[k + 1] ELSE Null)
        BY <4>1 DEF FreeListIntact
      <4>3. (i < Len(free')) <=> (k < Len(free))
        BY <1>3, <1>4, <4>1
      <4>4. k < Len(free) => free'[i + 1] = free[k + 1]
        <5>1. k < Len(free) => k + 1 \in 1 .. Len(free)
          BY <1>3, <4>1
        <5> QED
          BY <1>4, <4>1, <5>1
      <4> HIDE DEF k
      <4> QED
        BY <2>3, <4>1, <4>2, <4>3, <4>4
    <3> QED
      BY <3>1, <3>2
  <2>5. \A i, j \in 1 .. Len(free') : free'[i] = free'[j] => i = j
    <3> SUFFICES ASSUME NEW i \in 1 .. Len(free'), NEW j \in 1 .. Len(free'),
                        free'[i] = free'[j]
                 PROVE  i = j
      OBVIOUS
    <3>1. CASE i # 1 /\ j # 1
      <4>1. i - 1 \in 1 .. Len(free) /\ j - 1 \in 1 .. Len(free) /\ free[i - 1] = free[j - 1]
        BY <1>5, <3>1
      <4>2. i - 1 = j - 1
        BY <4>1 DEF FreeListIntact
      <4> QED
        BY <1>3, <1>4, <4>2
    <3>2. CASE i = 1 /\ j # 1
      BY <1>4, <1>5, <1>8, <3>2
    <3>3. CASE i # 1 /\ j = 1
      BY <1>4, <1>5, <1>8, <3>3
    <3> QED
      BY <3>1, <3>2, <3>3
  <2> QED
    BY <2>1, <2>4, <2>5 DEF FreeListIntact
<1>11. NoLeak'
  <2> SUFFICES ASSUME NEW c \in Slot
               PROVE  \/ \E i \in 1 .. Len(free') : free'[i] = c
                      \/ \E v \in Uid : Present(v)' /\ map'[v].data = c
    BY DEF NoLeak
  <2>1. CASE c = s
    <3>1. 1 \in 1 .. Len(free')
      BY <1>3, <1>4
    <3> QED
      BY <1>4, <2>1, <3>1
  <2>2. CASE \E i \in 1 .. Len(free) : free[i] = c
    <3>1. PICK i \in 1 .. Len(free) : free[i] = c
      BY <2>2
    <3>2. i + 1 \in 1 .. Len(free') /\ free'[i + 1] = c
      BY <1>3, <1>4, <3>1
    <3> QED
      BY <3>2
  <2>3. CASE c # s /\ \E v \in Uid : Present(v) /\ map[v].data = c
    BY <1>6, <2>3
  <2> QED
    BY <2>1, <2>2, <2>3 DEF NoLeak
<1>12. PanicOnlyIfFull'
  BY <1>2 DEF PanicOnlyIfFull
<1> QED
  BY <1>7, <1>9, <1>10, <1>11, <1>12

\* Every operation keeps the allocator's invariant.
LEMMA AllocStep == AllocInv /\ [Next]_vars => AllocInv'
<1> SUFFICES ASSUME AllocInv, [Next]_vars
             PROVE  AllocInv'
  OBVIOUS
<1>1. ASSUME NEW u \in Uid, PushAny(u)
      PROVE  AllocInv'
  BY <1>1, PushOldStep, PushNewStep DEF PushAny
<1>2. ASSUME NEW u \in Uid, PushPanic(u)
      PROVE  AllocInv'
  <2>1. free_list = Null /\ UNCHANGED <<mem, map, free_list, free>> /\ panicked'
    BY <1>2 DEF PushPanic
  <2>2. free = <<>>
    <3>1. free \in Seq(Slot) /\ Null \notin Slot
      BY <1>2, PresentFacts DEF AllocInv, AllocType
    <3> QED
      BY <2>1, <3>1 DEF AllocInv, FreeListIntact
  <2>3. \A s \in Slot : \E v \in Uid : Present(v) /\ map[v].data = s
    BY <2>2 DEF AllocInv, NoLeak
  <2>4. panicked' \in BOOLEAN
    BY <1>2 DEF PushPanic
  <2> QED
    BY <2>1, <2>3, <2>4 DEF AllocInv, AllocType, NoAliasing, FreeListIntact, NoLeak,
                            PanicOnlyIfFull, Present
<1>3. ASSUME NEW u \in Uid, Erase(u)
      PROVE  AllocInv'
  BY <1>3, EraseStep
<1>4. CASE UNCHANGED <<mem, map, free_list, free, panicked>>
  BY <1>4 DEF AllocInv, AllocType, NoAliasing, FreeListIntact, NoLeak, PanicOnlyIfFull, Present
<1>5. ASSUME NEW u \in Uid, NEW n, Get(u, n) \/ Dump(u)
      PROVE  AllocInv'
  BY <1>4, <1>5 DEF Get, Dump
<1> QED
  BY <1>1, <1>2, <1>3, <1>4, <1>5 DEF Next, vars

\* The allocator's invariant holds from StoreAlloc::new on.
LEMMA AllocCorrect == Spec => []AllocInv
<1>1. Init => AllocInv
  <2> SUFFICES ASSUME Init
               PROVE  AllocInv
    OBVIOUS
  <2> USE DEF Init
  <2>1. free \in Seq(Slot) /\ Len(free) = Slots /\ (\A i \in 1 .. Slots : free[i] = i - 1)
    BY Constants DEF Slot
  <2>2. AllocType
    <3>1. \A s \in Slot : Ptr(IF s + 1 < Slots THEN s + 1 ELSE Null) \in Cell
      BY Constants DEF Slot, Ptr, Cell
    <3>2. Raw \in Cell
      BY DEF Raw, Cell
    <3>3. mem \in [Slot -> [0 .. N - 1 -> Cell]]
      BY <3>1, <3>2
    <3>4. free_list \in Slot
      BY Constants DEF Slot
    <3> QED
      BY <2>1, <3>3, <3>4 DEF AllocType
  <2>3. NoAliasing
    BY DEF NoAliasing, Present
  <2>4. FreeListIntact
    <3>1. free_list = IF free = <<>> THEN Null ELSE Head(free)
      <4> HIDE DEF Init
      <4>1. Len(free) > 0
        BY <2>1, Constants
      <4>2. free # <<>>
        BY <2>1, <4>1
      <4>3. Head(free) = free[1]
        BY <2>1, <4>2
      <4>4. free[1] = 0
        BY <2>1, Constants
      <4> QED
        BY <4>2, <4>3, <4>4 DEF Init
    <3>2. ASSUME NEW i \in 1 .. Slots
          PROVE  mem[free[i]][0] = Ptr(IF i < Slots THEN free[i + 1] ELSE Null)
      <4>1. free[i] = i - 1 /\ i - 1 \in Slot /\ (i < Slots => free[i + 1] = i)
        BY <2>1, <3>2, Constants DEF Slot
      <4>2. mem[i - 1][0] = Ptr(IF (i - 1) + 1 < Slots THEN (i - 1) + 1 ELSE Null)
        BY <4>1, Constants
      <4>3. (i - 1) + 1 = i
        BY <3>2, Constants
      <4> QED
        BY <4>1, <4>2, <4>3
    <3>3. \A i, j \in 1 .. Slots : free[i] = free[j] => i = j
      BY <2>1, Constants
    <3> HIDE DEF Init
    <3>4. Len(free) = Slots
      BY <2>1
    <3> QED
      BY <3>1, <3>2, <3>3, <3>4 DEF FreeListIntact
  <2>5. NoLeak
    <3>1. \A s \in Slot : s + 1 \in 1 .. Slots /\ free[s + 1] = s
      BY <2>1, Constants DEF Slot
    <3> QED
      BY <2>1, <3>1 DEF NoLeak
  <2>6. PanicOnlyIfFull
    BY DEF PanicOnlyIfFull
  <2> QED
    BY <2>2, <2>3, <2>4, <2>5, <2>6 DEF AllocInv
<1> QED
  BY <1>1, AllocStep, PTL DEF Spec

\* No two users ever share a slot, and no slot in use is on the free list.
THEOREM NoAliasingAlways == Spec => []NoAliasing
<1>1. AllocInv => NoAliasing
  BY DEF AllocInv
<1> QED
  BY <1>1, AllocCorrect, PTL

\* The pointers inside free slots always spell a list without repetition.
THEOREM FreeListIntactAlways == Spec => []FreeListIntact
<1>1. AllocInv => FreeListIntact
  BY DEF AllocInv
<1> QED
  BY <1>1, AllocCorrect, PTL

\* "slab exhausted" is raised only when every slot has an owner.
THEOREM PanicOnlyIfFullAlways == Spec => []PanicOnlyIfFull
<1>1. AllocInv => PanicOnlyIfFull
  BY DEF AllocInv
<1> QED
  BY <1>1, AllocCorrect, PTL

-----------------------------------------------------------------------------
\* Ring-buffer indices.  All of them are sums below N + N taken modulo N.

\* A sum of two indices wraps at most once.
LEMMA WrapOnce ==
  ASSUME NEW x \in Int, 0 <= x, x < N + N
  PROVE  x % N = IF x < N THEN x ELSE x - N
<1>1. N \in Nat /\ N > 0
  BY Constants
<1> DEFINE q == x \div N
           r == x % N
<1>2. x = N * q + r /\ r \in 0 .. N - 1 /\ q \in Int
  BY <1>1
<1> HIDE DEF q, r
<1>3. q < 2
  <2> SUFFICES ASSUME q >= 2
               PROVE  FALSE
    BY <1>2
  <2>1. N * q >= N + N
    BY <1>1, <1>2
  <2> QED
    BY <1>1, <1>2, <2>1
<1>4. q > -1
  <2> SUFFICES ASSUME q <= -1
               PROVE  FALSE
    BY <1>2
  <2>1. N * q <= -N
    BY <1>1, <1>2
  <2> QED
    BY <1>1, <1>2, <2>1
<1>5. CASE q = 0
  BY <1>1, <1>2, <1>5 DEF r
<1>6. CASE q = 1
  BY <1>1, <1>2, <1>6 DEF r
<1> QED
  BY <1>2, <1>3, <1>4, <1>5, <1>6

\* Where the oldest record of a buffer lies.
First(b) == IF b.head < b.count THEN b.head + N - b.count ELSE b.head - b.count

\* The indices of a buffer's records, without the remainders.
LEMMA Indices ==
  ASSUME NEW b \in Buf
  PROVE  /\ First(b) \in 0 .. N - 1
         /\ \A i \in 0 .. N - 1 :
               IndexForward(b, i) = IF First(b) + i < N THEN First(b) + i ELSE First(b) + i - N
         /\ \A i \in 0 .. N - 1 : IndexForward(b, i) \in 0 .. N - 1
         /\ \A i \in 0 .. b.count - 1 : IndexBack(b, i) = IndexForward(b, b.count - 1 - i)
<1>1. /\ b.head \in 0 .. N - 1 /\ b.count \in 0 .. N /\ N \in Nat /\ N > 0
      /\ b.head \in Int /\ b.count \in Int
  BY Constants DEF Buf
<1>2. First(b) \in 0 .. N - 1 /\ First(b) \in Int
  BY <1>1 DEF First
<1>3. (b.head + N - b.count) % N = First(b)
  <2>1. b.head + N - b.count \in Int /\ 0 <= b.head + N - b.count /\ b.head + N - b.count < N + N
    BY <1>1
  <2>2. (b.head + N - b.count) % N =
           IF b.head + N - b.count < N THEN b.head + N - b.count ELSE b.head + N - b.count - N
    BY <1>1, <2>1, WrapOnce
  <2> QED
    BY <1>1, <2>2 DEF First
<1> HIDE DEF First
<1>4. ASSUME NEW i \in 0 .. N - 1
      PROVE  IndexForward(b, i) = IF First(b) + i < N THEN First(b) + i ELSE First(b) + i - N
  <2>1. First(b) + i \in Int /\ 0 <= First(b) + i /\ First(b) + i < N + N
    BY <1>1, <1>2
  <2> QED
    BY <1>1, <1>3, <2>1, WrapOnce DEF IndexForward
<1>5. ASSUME NEW i \in 0 .. N - 1
      PROVE  IndexForward(b, i) \in 0 .. N - 1
  BY <1>1, <1>2, <1>4
<1>6. ASSUME NEW i \in 0 .. b.count - 1
      PROVE  IndexBack(b, i) = IndexForward(b, b.count - 1 - i)
  <2>1. /\ b.head + N - 1 - i \in Int /\ 0 <= b.head + N - 1 - i
        /\ b.head + N - 1 - i < N + N /\ b.count - 1 - i \in 0 .. N - 1
    BY <1>1
  <2>2. IndexBack(b, i) =
           IF b.head + N - 1 - i < N THEN b.head + N - 1 - i ELSE b.head + N - 1 - i - N
    BY <1>1, <2>1, WrapOnce DEF IndexBack
  <2>3. IndexForward(b, b.count - 1 - i) =
           IF First(b) + (b.count - 1 - i) < N THEN First(b) + (b.count - 1 - i)
           ELSE First(b) + (b.count - 1 - i) - N
    BY <1>4, <2>1
  <2> QED
    BY <1>1, <2>1, <2>2, <2>3 DEF First
<1> QED
  BY <1>2, <1>4, <1>5, <1>6

\* A push that finds room keeps the records' places and writes behind them.
LEMMA PushIndices ==
  ASSUME NEW b \in Buf, NEW t \in Ts
  PROVE  LET a == Advance(b, t)
             k == IF b.count < N THEN 0 ELSE 1
         IN  /\ a \in Buf /\ a.data = b.data /\ a.ts = t /\ b.head \in 0 .. N - 1
             /\ a.count = b.count + 1 - k /\ b.count \in 0 .. N
             /\ \A i \in 0 .. a.count - 2 :
                   /\ IndexForward(a, i) = IndexForward(b, i + k)
                   /\ IndexForward(b, i + k) # b.head
             /\ IndexForward(a, a.count - 1) = b.head
<1> DEFINE a == Advance(b, t)
           k == IF b.count < N THEN 0 ELSE 1
<1>1. /\ b.head \in 0 .. N - 1 /\ b.count \in 0 .. N /\ N \in Nat /\ N > 0
      /\ DOMAIN b = {"data", "head", "count", "ts"}
  BY Constants DEF Buf
<1>2. a \in Buf /\ a.data = b.data
  BY AdvanceType
<1>3. /\ a.head = (b.head + 1) % N /\ a.ts = t
      /\ a.count = IF b.count < N THEN b.count + 1 ELSE b.count
  BY <1>1 DEF Advance, Buf
<1> HIDE DEF a
<1>4. a.head = IF b.head + 1 < N THEN b.head + 1 ELSE 0
  <2>1. b.head + 1 \in Int /\ 0 <= b.head + 1 /\ b.head + 1 < N + N
    BY <1>1
  <2>2. (b.head + 1) % N = IF b.head + 1 < N THEN b.head + 1 ELSE b.head + 1 - N
    BY <1>1, <2>1, WrapOnce
  <2> QED
    BY <1>1, <1>3, <2>2
<1>5. a.count = b.count + 1 - k /\ a.count \in 1 .. N /\ k \in 0 .. 1
  BY <1>1, <1>3
<1>6. First(a) = IF k = 0 THEN First(b) ELSE a.head
  BY <1>1, <1>3, <1>4 DEF First
<1>7. k = 1 => First(b) = b.head
  BY <1>1 DEF First
<1>8. ASSUME NEW i \in 0 .. a.count - 2
      PROVE  /\ IndexForward(a, i) = IndexForward(b, i + k)
             /\ IndexForward(b, i + k) # b.head
  <2>1. i \in 0 .. N - 1 /\ i + k \in 0 .. N - 1
    BY <1>1, <1>5
  <2>2. /\ IndexForward(a, i) = IF First(a) + i < N THEN First(a) + i ELSE First(a) + i - N
        /\ IndexForward(b, i + k) =
              IF First(b) + (i + k) < N THEN First(b) + (i + k) ELSE First(b) + (i + k) - N
        /\ First(b) \in 0 .. N - 1 /\ First(a) \in 0 .. N - 1
    BY <1>2, <2>1, Indices
  <2>3. CASE k = 0
    <3>1. IndexForward(a, i) = IndexForward(b, i + k)
      BY <1>6, <2>1, <2>2, <2>3
    <3>2. b.count < N /\ i < b.count
      BY <1>1, <1>5, <2>3
    <3>3. IndexForward(b, i + k) # b.head
      BY <1>1, <2>1, <2>2, <2>3, <3>2 DEF First
    <3> QED
      BY <3>1, <3>3
  <2>4. CASE k = 1
    <3>1. i + 1 \in 1 .. N - 1
      BY <1>1, <1>5, <2>4
    <3> QED
      BY <1>1, <1>4, <1>6, <1>7, <2>1, <2>2, <2>4, <3>1
  <2> QED
    BY <1>5, <2>3, <2>4
<1>9. IndexForward(a, a.count - 1) = b.head
  <2>1. a.count - 1 \in 0 .. N - 1
    BY <1>1, <1>5
  <2>2. /\ IndexForward(a, a.count - 1) =
              IF First(a) + (a.count - 1) < N THEN First(a) + (a.count - 1)
              ELSE First(a) + (a.count - 1) - N
    BY <1>2, <2>1, Indices
  <2>3. CASE k = 0
    BY <1>1, <1>5, <1>6, <2>2, <2>3 DEF First
  <2>4. CASE k = 1
    <3>1. a.count = N
      BY <1>1, <1>3, <2>4
    <3> QED
      BY <1>1, <1>4, <1>6, <2>2, <2>4, <3>1
  <2> QED
    BY <1>5, <2>3, <2>4
<1> QED
  BY <1>1, <1>2, <1>3, <1>5, <1>8, <1>9 DEF a

-----------------------------------------------------------------------------
\* The cells that a buffer counts hold records: neither a pointer of the free
\* list nor memory never written.
RingInv ==
    \A u \in Uid : \A i \in 0 .. map[u].count - 1 :
        mem[map[u].data][IndexForward(map[u], i)] \in [kind : {"rec"}, val : Rec]

\* What is known of a buffer, of a key that is present or not.
LEMMA BufFacts ==
  ASSUME AllocType, NEW u \in Uid
  PROVE  /\ map[u].count \in 0 .. N
         /\ map[u].count # 0 => map[u] \in Buf /\ map[u].data \in Slot /\ Present(u)
BY PresentFacts, Constants DEF Buf, NoBuf

\* A buffer's records are a sequence of records.
LEMMA OldestType ==
  ASSUME AllocType, RingInv, NEW u \in Uid
  PROVE  /\ Oldest(u) \in Seq(Rec) /\ Len(Oldest(u)) = map[u].count
         /\ \A i \in 1 .. map[u].count :
               Oldest(u)[i] = mem[map[u].data][IndexForward(map[u], i - 1)].val
<1>1. map[u].count \in Nat
  BY BufFacts
<1>2. ASSUME NEW i \in 1 .. map[u].count
      PROVE  mem[map[u].data][IndexForward(map[u], i - 1)].val \in Rec
  <2>1. i - 1 \in 0 .. map[u].count - 1
    BY <1>1
  <2> QED
    BY <2>1 DEF RingInv
<1> QED
  BY <1>1, <1>2 DEF Oldest

\* The records of buffer b, oldest first: Oldest(u) for b = map[u].
RecsOf(b) == [i \in 1 .. b.count |-> mem[b.data][IndexForward(b, i - 1)].val]

\* The last N of a sequence, as the event log keeps them.
Newest(s) == IF Len(s) <= N THEN s ELSE SubSeq(s, Len(s) - N + 1, Len(s))

\* Another user's records stay as they are when its slot is not written.
LEMMA OthersKept ==
  ASSUME AllocType, RingInv, NEW v \in Uid, map'[v] = map[v],
         map[v].count # 0 => mem'[map[v].data] = mem[map[v].data]
  PROVE  /\ Oldest(v)' = Oldest(v)
         /\ \A i \in 0 .. map'[v].count - 1 :
               mem'[map'[v].data][IndexForward(map'[v], i)] \in [kind : {"rec"}, val : Rec]
<1>1. map[v].count \in Nat
  BY BufFacts
<1>2. \A i \in 0 .. map[v].count - 1 :
         mem[map[v].data][IndexForward(map[v], i)] \in [kind : {"rec"}, val : Rec]
  BY DEF RingInv
<1>3. CASE map[v].count = 0
  <2>1. 1 .. map[v].count = {} /\ 0 .. map[v].count - 1 = {}
    BY <1>3
  <2> QED
    BY <2>1 DEF Oldest
<1>4. CASE map[v].count # 0
  <2>1. Oldest(v)' = Oldest(v)
    BY <1>4 DEF Oldest
  <2> QED
    BY <1>2, <1>4, <2>1
<1> QED
  BY <1>3, <1>4

\* What a push does to the records of its user: the new one comes last, and
\* the oldest goes if there were N.
LEMMA PushEffect ==
  ASSUME AllocInv, RingInv, NEW u \in Uid, NEW r \in Rec, NEW t \in Ts, NEW b \in Buf,
         \A i \in 0 .. b.count - 1 :
             mem[b.data][IndexForward(b, i)] \in [kind : {"rec"}, val : Rec],
         \A v \in Uid \ {u} : map[v].count # 0 => map[v].data # b.data,
         mem'[b.data][b.head] = [kind |-> "rec", val |-> r],
         \A j \in 0 .. N - 1 : j # b.head => mem'[b.data][j] = mem[b.data][j],
         \A s \in Slot : s # b.data => mem'[s] = mem[s],
         map'[u] = Advance(b, t), \A v \in Uid \ {u} : map'[v] = map[v]
  PROVE  /\ RingInv'
         /\ \A v \in Uid \ {u} : Oldest(v)' = Oldest(v)
         /\ Oldest(u)' = Newest(Append(RecsOf(b), r)) /\ map'[u].ts = t
<1> DEFINE a == Advance(b, t)
           k == IF b.count < N THEN 0 ELSE 1
           rec == [kind |-> "rec", val |-> r]
<1>1. /\ a \in Buf /\ a.data = b.data /\ a.ts = t /\ b.head \in 0 .. N - 1
      /\ a.count = b.count + 1 - k /\ b.count \in 0 .. N
      /\ \A i \in 0 .. a.count - 2 : /\ IndexForward(a, i) = IndexForward(b, i + k)
                                     /\ IndexForward(b, i + k) # b.head
      /\ IndexForward(a, a.count - 1) = b.head
  BY PushIndices
<1>2. b.data \in Slot /\ N \in Nat /\ N > 0 /\ b.count \in Nat /\ k \in 0 .. 1
  BY <1>1, Constants DEF Buf
<1>3. map'[u] = a
  OBVIOUS
<1>4. a.count \in 1 .. N /\ a.count \in Nat
  BY <1>1, <1>2
<1> HIDE DEF a
<1>5. mem'[b.data][b.head] = rec
  OBVIOUS
<1>6. ASSUME NEW v \in Uid \ {u}
      PROVE  /\ Oldest(v)' = Oldest(v)
             /\ \A i \in 0 .. map'[v].count - 1 :
                   mem'[map'[v].data][IndexForward(map'[v], i)] \in [kind : {"rec"}, val : Rec]
  <2>1. map[v].count # 0 => map[v].data \in Slot /\ map[v].data # b.data
    BY BufFacts DEF AllocInv
  <2> QED
    BY <1>3, <1>5, <2>1, OthersKept DEF AllocInv
<1>7. ASSUME NEW i \in 0 .. a.count - 2
      PROVE  /\ i + k \in 0 .. b.count - 1
             /\ mem'[b.data][IndexForward(a, i)] = mem[b.data][IndexForward(b, i + k)]
  <2>1. i + k \in 0 .. b.count - 1 /\ i + k \in 0 .. N - 1
    BY <1>1, <1>2, <1>4
  <2>2. IndexForward(b, i + k) \in 0 .. N - 1
    BY <2>1, Indices
  <2> QED
    BY <1>1, <1>5, <2>1, <2>2
<1>8. \A i \in 0 .. a.count - 1 : i \in 0 .. a.count - 2 \/ i = a.count - 1
  BY <1>4
<1>9. ASSUME NEW i \in 0 .. a.count - 1
      PROVE  mem'[a.data][IndexForward(a, i)] \in [kind : {"rec"}, val : Rec]
  BY <1>1, <1>5, <1>7, <1>8
<1>10. RingInv'
  <2> SUFFICES ASSUME NEW v \in Uid, NEW i \in 0 .. map'[v].count - 1
               PROVE  mem'[map'[v].data][IndexForward(map'[v], i)] \in [kind : {"rec"}, val : Rec]
    BY DEF RingInv
  <2>1. CASE v = u
    BY <1>3, <1>9, <2>1
  <2>2. CASE v # u
    BY <1>6, <2>2
  <2> QED
    BY <2>1, <2>2
<1>11. /\ RecsOf(b) \in Seq(Rec) /\ Len(RecsOf(b)) = b.count
       /\ \A i \in 1 .. b.count : RecsOf(b)[i] = mem[b.data][IndexForward(b, i - 1)].val
  <2>1. ASSUME NEW i \in 1 .. b.count
        PROVE  mem[b.data][IndexForward(b, i - 1)].val \in Rec
    <3>1. i - 1 \in 0 .. b.count - 1
      BY <1>2
    <3> QED
      BY <3>1
  <2> QED
    BY <1>2, <2>1 DEF RecsOf
<1> DEFINE old == RecsOf(b)
           new == Append(old, r)
<1>12. /\ Oldest(u)' \in Seq(Rec) /\ Len(Oldest(u)') = a.count
       /\ \A i \in 1 .. a.count : Oldest(u)'[i] = mem'[a.data][IndexForward(a, i - 1)].val
  <2>1. Oldest(u)' = [i \in 1 .. a.count |-> mem'[a.data][IndexForward(a, i - 1)].val]
    BY <1>3 DEF Oldest
  <2>2. ASSUME NEW i \in 1 .. a.count
        PROVE  mem'[a.data][IndexForward(a, i - 1)].val \in Rec
    <3>1. i - 1 \in 0 .. a.count - 1
      BY <1>4
    <3> QED
      BY <1>9, <3>1
  <2> QED
    <3> DEFINE g == [i \in 1 .. a.count |-> mem'[a.data][IndexForward(a, i - 1)].val]
    <3>1. /\ g \in Seq(Rec) /\ Len(g) = a.count
          /\ \A i \in 1 .. a.count : g[i] = mem'[a.data][IndexForward(a, i - 1)].val
      BY <1>4, <2>2
    <3> HIDE DEF g
    <3>2. Oldest(u)' = g
      BY <2>1 DEF g
    <3> QED
      BY <3>1, <3>2
<1> HIDE DEF old
<1>13. /\ new \in Seq(Rec) /\ Len(new) = b.count + 1 /\ new[b.count + 1] = r
       /\ \A i \in 1 .. b.count : new[i] = old[i]
  BY <1>2, <1>11 DEF old
<1> HIDE DEF new
<1>14. \A i \in 1 .. a.count : Oldest(u)'[i] = new[i + k]
  <2> SUFFICES ASSUME NEW i \in 1 .. a.count
               PROVE  Oldest(u)'[i] = new[i + k]
    OBVIOUS
  <2>1. CASE i = a.count
    <3>1. i + k = b.count + 1 /\ i - 1 = a.count - 1
      BY <1>1, <1>2, <2>1
    <3>2. rec.val = r
      OBVIOUS
    <3> QED
      BY <1>1, <1>5, <1>12, <1>13, <3>1, <3>2
  <2>2. CASE i # a.count
    <3>1. i - 1 \in 0 .. a.count - 2 /\ i + k \in 1 .. b.count /\ (i + k) - 1 = (i - 1) + k
      BY <1>1, <1>2, <1>4, <2>2
    <3>2. mem'[b.data][IndexForward(a, i - 1)] = mem[b.data][IndexForward(b, (i - 1) + k)]
      BY <1>7, <3>1
    <3>3. Oldest(u)'[i] = mem'[b.data][IndexForward(a, i - 1)].val
      BY <1>1, <1>12
    <3>4. new[i + k] = mem[b.data][IndexForward(b, (i + k) - 1)].val
      BY <1>11, <1>13, <3>1 DEF old
    <3> QED
      BY <3>1, <3>2, <3>3, <3>4
  <2> QED
    BY <2>1, <2>2
<1> DEFINE last == Newest(new)
<1>15. /\ last \in Seq(Rec) /\ Len(last) = a.count
       /\ \A i \in 1 .. a.count : last[i] = new[i + k]
  <2>1. CASE k = 0
    <3>1. last = new
      BY <1>1, <1>2, <1>13, <2>1 DEF Newest
    <3> QED
      BY <1>1, <1>2, <1>4, <1>13, <2>1, <3>1
  <2>2. CASE k = 1
    <3>1. b.count = N /\ a.count = N
      BY <1>1, <1>2, <2>2
    <3>2. last = SubSeq(new, 2, N + 1)
      BY <1>2, <1>13, <3>1 DEF Newest
    <3>3. \A i \in 2 .. N + 1 : new[i] \in Rec
      BY <1>2, <1>13, <3>1
    <3>4. /\ last \in Seq(Rec) /\ Len(last) = N
          /\ \A i \in 1 .. N : last[i] = new[i + 1]
      BY <1>2, <1>13, <3>1, <3>2, <3>3
    <3> QED
      BY <2>2, <3>1, <3>4
  <2> QED
    BY <1>2, <2>1, <2>2
<1>16. Oldest(u)' = last
  <2> HIDE DEF last
  <2>1. \A i \in 1 .. a.count : Oldest(u)'[i] = last[i]
    BY <1>14, <1>15
  <2> QED
    BY <1>12, <1>15, <2>1, SeqEqual
<1> QED
  BY <1>1, <1>3, <1>6, <1>10, <1>16 DEF new, old

\* The log that the store stands for.
LogOf == [u \in Uid |-> [recs |-> Oldest(u), ts |-> map[u].ts]]

\* A push is the push of the event log.
LEMMA PushRefines ==
  ASSUME AllocInv, RingInv, NEW u \in Uid, NEW r \in Rec, NEW t \in Ts,
         PushOld(u, r, t) \/ PushNew(u, r, t)
  PROVE  RingInv' /\ out' = <<>> /\ Log!Push(u, r, t)
<1>1. PICK b \in Buf :
        /\ RecsOf(b) = Oldest(u)
        /\ \A i \in 0 .. b.count - 1 :
               mem[b.data][IndexForward(b, i)] \in [kind : {"rec"}, val : Rec]
        /\ \A v \in Uid \ {u} : map[v].count # 0 => map[v].data # b.data
        /\ mem' = [mem EXCEPT ![b.data][b.head] = [kind |-> "rec", val |-> r]]
        /\ map' = [map EXCEPT ![u] = Advance(b, t)]
  <2>1. CASE PushOld(u, r, t)
    <3> DEFINE b == map[u]
    <3>1. Present(u) /\ b \in Buf
      BY <2>1, PresentFacts DEF PushOld, AllocInv
    <3>2. RecsOf(b) = Oldest(u)
      BY DEF RecsOf, Oldest
    <3>3. \A i \in 0 .. b.count - 1 :
             mem[b.data][IndexForward(b, i)] \in [kind : {"rec"}, val : Rec]
      BY DEF RingInv
    <3>4. \A v \in Uid \ {u} : map[v].data # b.data
      BY <3>1 DEF AllocInv, NoAliasing
    <3>5. /\ mem' = [mem EXCEPT ![b.data][b.head] = [kind |-> "rec", val |-> r]]
          /\ map' = [map EXCEPT ![u] = Advance(b, t)]
      BY <2>1 DEF PushOld
    <3> QED
      BY <3>1, <3>2, <3>3, <3>4, <3>5
  <2>2. CASE PushNew(u, r, t)
    <3> DEFINE b == [data |-> free_list, head |-> 0, count |-> 0, ts |-> 0]
    <3>1. /\ mem' = [mem EXCEPT ![b.data][b.head] = [kind |-> "rec", val |-> r]]
          /\ map' = [map EXCEPT ![u] = Advance(b, t)]
          /\ free_list # Null /\ ~Present(u)
      BY <2>2 DEF PushNew
    <3>2. free_list \in Slot /\ free # <<>> /\ free \in Seq(Slot) /\ free_list = free[1]
      <4>1. free \in Seq(Slot) /\ free_list \in Slot
        BY <3>1 DEF AllocInv, AllocType
      <4>2. free # <<>>
        BY <3>1 DEF AllocInv, FreeListIntact
      <4> QED
        BY <4>1, <4>2 DEF AllocInv, FreeListIntact
    <3>3. b \in Buf /\ b.count = 0 /\ b.data = free_list
      BY <3>2, Constants DEF Buf
    <3>4. map[u].count = 0
      BY <3>1, PresentFacts DEF AllocInv, NoBuf
    <3>5. \A v \in Uid \ {u} : map[v].count # 0 => map[v].data # free_list
      <4>1. 1 \in 1 .. Len(free)
        BY <3>2
      <4>2. \A v \in Uid : map[v].count # 0 => Present(v)
        BY BufFacts DEF AllocInv
      <4> QED
        BY <3>2, <4>1, <4>2 DEF AllocInv, NoAliasing
    <3> HIDE DEF b
    <3>6. 1 .. b.count = {} /\ 1 .. map[u].count = {} /\ 0 .. b.count - 1 = {}
      BY <3>3, <3>4
    <3>7. RecsOf(b) = Oldest(u)
      BY <3>6 DEF RecsOf, Oldest
    <3> QED
      BY <3>1, <3>3, <3>5, <3>6, <3>7
  <2> QED
    BY <2>1, <2>2
<1>2. /\ RingInv'
      /\ \A v \in Uid \ {u} : Oldest(v)' = Oldest(v) /\ map'[v] = map[v]
      /\ Oldest(u)' = Log!LastN(Append(Oldest(u), r), N) /\ map'[u].ts = t
  <2>1. b.data \in Slot /\ b.head \in 0 .. N - 1
    BY DEF Buf
  <2>2. /\ mem'[b.data][b.head] = [kind |-> "rec", val |-> r]
        /\ \A j \in 0 .. N - 1 : j # b.head => mem'[b.data][j] = mem[b.data][j]
        /\ \A s \in Slot : s # b.data => mem'[s] = mem[s]
    BY <1>1, <2>1 DEF AllocInv, AllocType
  <2>3. map'[u] = Advance(b, t) /\ \A v \in Uid \ {u} : map'[v] = map[v]
    BY <1>1 DEF AllocInv, AllocType
  <2>4. /\ RingInv' /\ \A v \in Uid \ {u} : Oldest(v)' = Oldest(v)
        /\ Oldest(u)' = Newest(Append(RecsOf(b), r)) /\ map'[u].ts = t
    BY <1>1, <2>2, <2>3, PushEffect
  <2>5. Newest(Append(Oldest(u), r)) = Log!LastN(Append(Oldest(u), r), N)
    BY DEF Newest, Log!LastN
  <2> QED
    BY <1>1, <2>3, <2>4, <2>5, Zenon
<1>3. out' = <<>>
  BY DEF PushOld, PushNew
<1>4. LogOf' = [LogOf EXCEPT ![u] = [recs |-> Log!LastN(Append(LogOf[u].recs, r), N), ts |-> t]]
  <2>1. LogOf[u].recs = Oldest(u)
    BY DEF LogOf
  <2>2. \A v \in Uid : LogOf'[v] = IF v = u THEN [recs |-> Log!LastN(Append(Oldest(u), r), N), ts |-> t]
                                   ELSE LogOf[v]
    BY <1>2 DEF LogOf
  <2> QED
    BY <2>1, <2>2 DEF LogOf
<1> QED
  BY <1>2, <1>3, <1>4 DEF LogOf, Log!Push

\* An erase empties the log of the user and touches no other.
LEMMA EraseRefines ==
  ASSUME AllocInv, RingInv, NEW u \in Uid, Erase(u)
  PROVE  RingInv' /\ out' = <<>> /\ Log!Erase(u)
<1>1. /\ map' = [map EXCEPT ![u] = NoBuf] /\ Present(u)
      /\ mem' = [mem EXCEPT ![map[u].data][0] = Ptr(free_list)] /\ out' = <<>>
  BY DEF Erase
<1>2. map'[u] = NoBuf /\ \A v \in Uid \ {u} : map'[v] = map[v]
  BY <1>1 DEF AllocInv, AllocType
<1>3. ASSUME NEW v \in Uid \ {u}
      PROVE  /\ Oldest(v)' = Oldest(v)
             /\ \A i \in 0 .. map'[v].count - 1 :
                   mem'[map'[v].data][IndexForward(map'[v], i)] \in [kind : {"rec"}, val : Rec]
  <2>1. map[v].data # map[u].data
    BY <1>1 DEF AllocInv, NoAliasing
  <2>2. map[v].count # 0 => map[v].data \in Slot
    BY BufFacts DEF AllocInv
  <2>3. map[v].count # 0 => mem'[map[v].data] = mem[map[v].data]
    BY <1>1, <2>1, <2>2 DEF AllocInv, AllocType
  <2> QED
    BY <1>2, <2>3, OthersKept DEF AllocInv
<1>4. NoBuf.count = 0 /\ NoBuf.ts = 0
  BY DEF NoBuf
<1>5. 0 .. map'[u].count - 1 = {} /\ 1 .. map'[u].count = {}
  BY <1>2, <1>4
<1>6. RingInv'
  <2> SUFFICES ASSUME NEW v \in Uid, NEW i \in 0 .. map'[v].count - 1
               PROVE  mem'[map'[v].data][IndexForward(map'[v], i)] \in [kind : {"rec"}, val : Rec]
    BY DEF RingInv
  <2>1. v # u
    BY <1>5
  <2> QED
    BY <1>3, <2>1
<1>7. Oldest(u)' = <<>>
  BY <1>5 DEF Oldest
<1>8. LogOf' = [LogOf EXCEPT ![u] = Log!NoLog]
  <2>1. \A v \in Uid : LogOf'[v] = IF v = u THEN [recs |-> <<>>, ts |-> 0] ELSE LogOf[v]
    BY <1>2, <1>3, <1>4, <1>7 DEF LogOf
  <2> QED
    BY <2>1 DEF LogOf, Log!NoLog
<1> QED
  BY <1>1, <1>6, <1>8 DEF LogOf, Log!Erase

\* get_last walks the newest records backwards; a dump walks all of them forwards.
LEMMA ReadRefines ==
  ASSUME AllocInv, RingInv, NEW u \in Uid, NEW n \in 1 .. N, Get(u, n) \/ Dump(u)
  PROVE  RingInv' /\ out' \in Seq(Rec) /\ (Log!Get(u, n) \/ Log!Dump(u))
<1>1. UNCHANGED <<mem, map>>
  BY DEF Get, Dump
<1>2. RingInv'
  BY <1>1 DEF RingInv
<1>3. LogOf' = LogOf
  BY <1>1 DEF LogOf, Oldest
<1> DEFINE s == Oldest(u)
           c == map[u].count
<1>4. /\ s \in Seq(Rec) /\ Len(s) = c /\ c \in 0 .. N /\ c \in Nat /\ n \in Nat
      /\ \A i \in 1 .. c : s[i] = mem[map[u].data][IndexForward(map[u], i - 1)].val
  BY OldestType, BufFacts DEF AllocInv
<1>5. LogOf[u].recs = s
  BY DEF LogOf
<1>6. CASE Dump(u)
  <2>1. out' = s
    BY <1>6 DEF Dump
  <2> QED
    BY <1>2, <1>3, <1>4, <1>5, <2>1 DEF Log!Dump, LogOf
<1>7. CASE Get(u, n)
  <2> DEFINE m == MinNat(n, c)
             g == [i \in 1 .. m |-> mem[map[u].data][IndexBack(map[u], i - 1)].val]
             l == Log!LastN(s, n)
  <2>1. out' = g
    BY <1>7 DEF Get
  <2>2. m \in 0 .. c /\ m \in Nat /\ m = IF n <= c THEN n ELSE c
    BY <1>4 DEF MinNat
  <2> HIDE DEF m, s
  <2>3. \A i \in 1 .. m : g[i] = s[c - i + 1]
    <3> SUFFICES ASSUME NEW i \in 1 .. m
                 PROVE  g[i] = s[c - i + 1]
      OBVIOUS
    <3>1. i - 1 \in 0 .. c - 1 /\ c - i + 1 \in 1 .. c /\ (c - i + 1) - 1 = c - 1 - (i - 1) /\ c # 0
      BY <1>4, <2>2
    <3>2. map[u] \in Buf
      BY <3>1, BufFacts DEF AllocInv
    <3>3. IndexBack(map[u], i - 1) = IndexForward(map[u], c - 1 - (i - 1))
      BY <3>1, <3>2, Indices
    <3> QED
      BY <1>4, <3>1, <3>3
  <2> HIDE DEF c, g
  <2>4. l \in Seq(Rec) /\ Len(l) = m /\ \A i \in 1 .. m : l[i] = s[c - m + i]
    <3>1. CASE c <= n
      <4>1. l = s /\ m = c
        BY <1>4, <2>2, <3>1 DEF Log!LastN
      <4>2. \A i \in 1 .. c : c - c + i = i
        BY <1>4
      <4> QED
        BY <1>4, <4>1, <4>2
    <3>2. CASE ~(c <= n)
      <4>1. l = SubSeq(s, c - n + 1, c) /\ m = n
        BY <1>4, <2>2, <3>2 DEF Log!LastN
      <4>2. \A i \in c - n + 1 .. c : s[i] \in Rec
        BY <1>4, <3>2
      <4>3. /\ l \in Seq(Rec) /\ Len(l) = c - (c - n + 1) + 1
            /\ \A i \in 1 .. c - (c - n + 1) + 1 : l[i] = s[(c - n + 1) + i - 1]
        <5>1. c - n + 1 \in Int /\ c \in Int /\ c - n + 1 <= c
          BY <1>4, <3>2
        <5> DEFINE j == c - n + 1
        <5>2. /\ SubSeq(s, j, c) \in Seq(Rec) /\ Len(SubSeq(s, j, c)) = c - j + 1
              /\ \A i \in 1 .. c - j + 1 : SubSeq(s, j, c)[i] = s[j + i - 1]
          <6> HIDE DEF j
          <6>1. j \in Int /\ c \in Int /\ j <= c /\ \A i \in j .. c : s[i] \in Rec
            BY <4>2, <5>1 DEF j
          <6> QED
            BY <6>1, SubSeqProperties
        <5> QED
          BY <4>1, <5>2
      <4>4. c - (c - n + 1) + 1 = n /\ \A i \in 1 .. n : (c - n + 1) + i - 1 = c - n + i
        BY <1>4
      <4> QED
        BY <4>1, <4>3, <4>4
    <3> QED
      BY <3>1, <3>2
  <2>5. Log!Reverse(l) = [i \in 1 .. m |-> l[(m - i) + 1]]
    BY <2>4 DEF Log!Reverse
  <2> HIDE DEF l
  <2>6. \A i \in 1 .. m : g[i] = l[(m - i) + 1] /\ g[i] \in Rec
    <3> SUFFICES ASSUME NEW i \in 1 .. m
                 PROVE  g[i] = l[(m - i) + 1] /\ g[i] \in Rec
      OBVIOUS
    <3>1. (m - i) + 1 \in 1 .. m /\ c - m + ((m - i) + 1) = c - i + 1 /\ c - i + 1 \in 1 .. c
      BY <1>4, <2>2
    <3>2. s[c - i + 1] \in Rec
      BY <1>4, <3>1
    <3> QED
      BY <2>3, <2>4, <3>1, <3>2
  <2>7. g = [i \in 1 .. m |-> l[(m - i) + 1]]
    BY <2>6 DEF g
  <2>8. g \in Seq(Rec)
    <3>1. \A i \in 1 .. m : l[(m - i) + 1] \in Rec
      BY <2>6
    <3> QED
      BY <2>2, <2>7, <3>1
  <2>9. Log!Get(u, n)
    BY <1>3, <1>5, <2>1, <2>5, <2>7 DEF Log!Get, LogOf, l
  <2> QED
    BY <1>2, <2>1, <2>8, <2>9
<1> QED
  BY <1>6, <1>7

-----------------------------------------------------------------------------
\* The allocator's invariant, with the records in place and a reply of records.
StoreInv == AllocInv /\ RingInv /\ out \in Seq(Rec)

\* Every operation keeps the invariant and is one of the event log's.
LEMMA StoreStep ==
  ASSUME StoreInv, [Next]_vars
  PROVE  StoreInv' /\ [Log!Next]_(Log!vars)
<1> USE DEF StoreInv
<1>1. AllocInv'
  BY AllocStep
<1>2. <<>> \in Seq(Rec)
  OBVIOUS
<1>3. ASSUME NEW u \in Uid, PushAny(u)
      PROVE  RingInv' /\ out' \in Seq(Rec) /\ Log!Next
  <2>1. PICK r \in Rec, t \in Ts : PushOld(u, r, t) \/ PushNew(u, r, t)
    BY <1>3 DEF PushAny
  <2>2. RingInv' /\ out' = <<>> /\ Log!Push(u, r, t)
    BY <2>1, PushRefines
  <2> QED
    BY <1>2, <2>2 DEF Log!Next
<1>4. ASSUME NEW u \in Uid, Erase(u)
      PROVE  RingInv' /\ out' \in Seq(Rec) /\ Log!Next
  <2>1. RingInv' /\ out' = <<>> /\ Log!Erase(u)
    BY <1>4, EraseRefines
  <2> QED
    BY <1>2, <2>1 DEF Log!Next
<1>5. ASSUME NEW u \in Uid, NEW n \in 1 .. N, Get(u, n) \/ Dump(u)
      PROVE  RingInv' /\ out' \in Seq(Rec) /\ Log!Next
  <2>1. RingInv' /\ out' \in Seq(Rec) /\ (Log!Get(u, n) \/ Log!Dump(u))
    BY <1>5, ReadRefines
  <2> QED
    BY <2>1 DEF Log!Next
<1>6. 1 \in 1 .. N
  BY Constants
<1>7. CASE UNCHANGED <<mem, map, out>>
  <2>1. RingInv' /\ out' \in Seq(Rec)
    BY <1>7 DEF RingInv
  <2>2. UNCHANGED Log!vars
    BY <1>7 DEF Log!vars, Oldest
  <2> QED
    BY <1>1, <2>1, <2>2
<1>8. ASSUME NEW u \in Uid, PushPanic(u)
      PROVE  UNCHANGED <<mem, map, out>>
  BY <1>8 DEF PushPanic
<1>9. UNCHANGED vars => UNCHANGED <<mem, map, out>>
  BY DEF vars
<1>10. \/ RingInv' /\ out' \in Seq(Rec) /\ Log!Next
       \/ UNCHANGED <<mem, map, out>>
  <2>1. CASE \E u \in Uid : PushAny(u)
    BY <1>3, <2>1
  <2>2. CASE \E u \in Uid : PushPanic(u)
    BY <1>8, <2>2
  <2>3. CASE \E u \in Uid : Erase(u)
    BY <1>4, <2>3
  <2>4. CASE \E u \in Uid : \E n \in 1 .. N : Get(u, n)
    BY <1>5, <2>4
  <2>5. CASE \E u \in Uid : Dump(u)
    BY <1>5, <1>6, <2>5
  <2>6. CASE UNCHANGED vars
    BY <1>9, <2>6
  <2> QED
    BY <2>1, <2>2, <2>3, <2>4, <2>5, <2>6 DEF Next
<1> QED
  BY <1>1, <1>7, <1>10

\* The empty store is the empty log.
LEMMA StoreInit ==
  ASSUME Init
  PROVE  RingInv /\ out \in Seq(Rec) /\ Log!Init
<1>1. \A u \in Uid : map[u].count = 0 /\ map[u].ts = 0
  BY DEF Init, NoBuf
<1>2. ASSUME NEW u \in Uid
      PROVE  1 .. map[u].count = {} /\ 0 .. map[u].count - 1 = {}
  <2>1. map[u].count = 0
    BY <1>1
  <2> QED
    BY <2>1
<1>3. RingInv
  BY <1>2 DEF RingInv
<1>4. ASSUME NEW u \in Uid
      PROVE  Oldest(u) = <<>>
  BY <1>2 DEF Oldest
<1>5. out = <<>>
  BY DEF Init
<1> QED
  BY <1>1, <1>3, <1>4, <1>5 DEF Log!Init, Log!NoLog

\* The free list has at most as many entries as there are slots.
LEMMA FreeBounded ==
  ASSUME AllocInv
  PROVE  Len(free) <= Slots
<1>1. free \in Seq(Slot) /\ Len(free) \in Nat
  BY DEF AllocInv, AllocType
<1>2. \A i, j \in 1 .. Len(free) : free[i] = free[j] => i = j
  BY DEF AllocInv, FreeListIntact
<1>3. free \in [1 .. Len(free) -> Slot]
  BY <1>1
<1>4. free \in Injection(1 .. Len(free), Slot)
  BY <1>2, <1>3 DEF Injection, IsInjective
<1>5. IsFiniteSet(Slot) /\ Cardinality(Slot) = Slots
  <2>1. 0 \in Int /\ Slots - 1 \in Int /\ ~(0 > Slots - 1)
    BY Constants
  <2>2. IsFiniteSet(0 .. Slots - 1) /\ Cardinality(0 .. Slots - 1) = (Slots - 1) - 0 + 1
    BY <2>1, FS_Interval
  <2> QED
    BY <2>2, Constants DEF Slot
<1>6. Cardinality(1 .. Len(free)) = Len(free)
  <2>1. 1 \in Int /\ Len(free) \in Int
    BY <1>1
  <2>2. Cardinality(1 .. Len(free)) = IF 1 > Len(free) THEN 0 ELSE Len(free) - 1 + 1
    BY <2>1, FS_Interval
  <2> QED
    BY <1>1, <2>2
<1>7. Cardinality(1 .. Len(free)) <= Cardinality(Slot)
  BY <1>4, <1>5, FS_Injection
<1> QED
  BY <1>5, <1>6, <1>7

\* The invariant holds in every reachable state.
LEMMA StoreCorrect == Spec => []StoreInv
<1>1. Init => RingInv /\ out \in Seq(Rec)
  BY StoreInit
<1>2. AllocInv /\ RingInv /\ out \in Seq(Rec) <=> StoreInv
  BY DEF StoreInv
<1>3. StoreInv /\ [Next]_vars => StoreInv'
  BY StoreStep
<1> QED
  BY <1>1, <1>2, <1>3, AllocCorrect, PTL DEF Spec

\* Type correctness.  That a reply is a sequence of records says that GET and
\* the snapshot never return a pointer of the free list or unwritten memory.
THEOREM StoreTypeCorrect == Spec => []TypeOK
<1>1. StoreInv => TypeOK
  BY FreeBounded DEF StoreInv, AllocInv, AllocType, TypeOK
<1> QED
  BY <1>1, StoreCorrect, PTL

\* The store implements the event log: for every capacity and number of slots,
\* GET returns the newest records in order, a snapshot's walk the same records
\* oldest first, and no operation on a user shows in the records of another.
THEOREM LogRefinement == Spec => ImplementsLog
<1>1. Init => Log!Init
  BY StoreInit
<1>2. StoreInv /\ [Next]_vars => [Log!Next]_(Log!vars)
  BY StoreStep
<1> QED
  BY <1>1, <1>2, StoreCorrect, PTL DEF Spec, ImplementsLog, Log!Spec
=============================================================================
