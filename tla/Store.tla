------------------------------- MODULE Store -------------------------------
(***************************************************************************)
(* Store (src/store.rs), RingBuffer (src/ring_buffer.rs) and the slot        *)
(* allocators, StoreAlloc::Slab and MemoryPool (src/memory_pool.rs), which   *)
(* share one algorithm: fixed slots linked into an intrusive free list whose *)
(* next pointer lies in the first bytes of a free slot, that is, over the    *)
(* slot's first record.  Slots are not cleared.                              *)
(***************************************************************************)
EXTENDS Integers, Sequences

CONSTANTS
    Uid,    \* user ids
    Rec,    \* records
    Ts,     \* write timestamps
    Slots,  \* total_slots
    N       \* capacity: records per slot

ASSUME SlotsAssumption == Slots \in Nat \ {0}
ASSUME NAssumption == N \in Nat \ {0}
ASSUME TsAssumption == Ts \subseteq Nat

Slot == 0 .. Slots - 1
Null == -1

\* What a record-sized cell may hold: a record, a pointer to a slot, or
\* memory never written.
Cell == [kind : {"rec"}, val : Rec] \cup [kind : {"ptr"}, val : Slot \cup {Null}]
            \cup {[kind |-> "raw", val |-> Null]}
Ptr(p) == [kind |-> "ptr", val |-> p]
Raw == [kind |-> "raw", val |-> Null]

\* RingBuffer, or NoBuf for a key that is not in the map.
Buf == [data : Slot, head : 0 .. N - 1, count : 0 .. N, ts : Nat]
NoBuf == [data |-> Null, head |-> 0, count |-> 0, ts |-> 0]

VARIABLES
    mem,        \* the cells of every slot
    map,        \* Uid -> RingBuffer
    free_list,  \* the first free slot
    free,       \* ghost: the free slots in list order
    panicked,   \* alloc() found the list empty
    out         \* the records in the last reply, none for a write

vars == <<mem, map, free_list, free, panicked, out>>

\* StoreAlloc::new and MemoryPool::new: slot i links to slot i + 1.
Init ==
    /\ mem = [s \in Slot |-> [c \in 0 .. N - 1 |->
                 IF c > 0 THEN Raw ELSE Ptr(IF s + 1 < Slots THEN s + 1 ELSE Null)]]
    /\ map = [u \in Uid |-> NoBuf]
    /\ free_list = 0
    /\ free = [i \in 1 .. Slots |-> i - 1]
    /\ panicked = FALSE /\ out = <<>>

Present(u) == map[u] # NoBuf

-----------------------------------------------------------------------------
\* RingBuffer::push on buffer b, whose slot is b.data.
MAdvance(b, t) ==
    [b EXCEPT !.head = (@ + 1) % N, !.count = @ + 1, !.ts = t]
Advance(b, t) ==
    [b EXCEPT !.head = (@ + 1) % N, !.count = IF @ < N THEN @ + 1 ELSE @, !.ts = t]

\* get_or_create for a key that exists, then push.
PushOld(u, r, t) ==
    /\ ~panicked /\ Present(u)
    /\ mem' = [mem EXCEPT ![map[u].data][map[u].head] = [kind |-> "rec", val |-> r]]
    /\ map' = [map EXCEPT ![u] = Advance(@, t)]
    /\ out' = <<>>
    /\ UNCHANGED <<free_list, free, panicked>>

\* alloc(): unlink the first free slot, then push into it.
MPushNew(u, r, t) ==
    /\ ~panicked /\ ~Present(u) /\ free_list # Null
    /\ LET b == [data |-> free_list, head |-> 0, count |-> 0, ts |-> 0]
       IN  /\ mem' = [mem EXCEPT ![b.data][b.head] = [kind |-> "rec", val |-> r]]
           /\ map' = [map EXCEPT ![u] = Advance(b, t)]
    /\ free_list' = IF free_list + 1 < Slots THEN free_list + 1 ELSE Null
    /\ free' = Tail(free)
    /\ out' = <<>>
    /\ UNCHANGED panicked
PushNew(u, r, t) ==
    /\ ~panicked /\ ~Present(u) /\ free_list # Null
    /\ LET b == [data |-> free_list, head |-> 0, count |-> 0, ts |-> 0]
       IN  /\ mem' = [mem EXCEPT ![b.data][b.head] = [kind |-> "rec", val |-> r]]
           /\ map' = [map EXCEPT ![u] = Advance(b, t)]
    /\ free_list' = mem[free_list][0].val
    /\ free' = Tail(free)
    /\ out' = <<>>
    /\ UNCHANGED panicked

\* alloc() with no free slot: the assertion ends the process.
PushPanic(u) ==
    /\ ~panicked /\ ~Present(u) /\ free_list = Null
    /\ panicked' = TRUE
    /\ UNCHANGED <<mem, map, free_list, free, out>>

\* erase(): remove the key, link its slot in front of the list.
MErase(u) ==
    /\ ~panicked /\ Present(u)
    /\ map' = [map EXCEPT ![u] = NoBuf]
    /\ out' = <<>>
    /\ UNCHANGED <<mem, free_list, free, panicked>>
MEraseKeep(u) ==
    /\ ~panicked /\ Present(u)
    /\ mem' = [mem EXCEPT ![map[u].data][0] = Ptr(free_list)]
    /\ free_list' = map[u].data
    /\ free' = <<map[u].data>> \o free
    /\ out' = <<>>
    /\ UNCHANGED <<map, panicked>>
Erase(u) ==
    /\ ~panicked /\ Present(u)
    /\ map' = [map EXCEPT ![u] = NoBuf]
    /\ mem' = [mem EXCEPT ![map[u].data][0] = Ptr(free_list)]
    /\ free_list' = map[u].data
    /\ free' = <<map[u].data>> \o free
    /\ out' = <<>>
    /\ UNCHANGED panicked

\* get_last(n) as get_command calls it: newest first.
MIndexBack(b, i) == (b.head + N - i) % N
IndexBack(b, i) == (b.head + N - 1 - i) % N

MinNat(a, b) == IF a <= b THEN a ELSE b

Get(u, n) ==
    /\ ~panicked
    /\ out' = [i \in 1 .. MinNat(n, map[u].count) |->
                  mem[map[u].data][IndexBack(map[u], i - 1)].val]
    /\ UNCHANGED <<mem, map, free_list, free, panicked>>

\* dump_to_path's walk over a buffer: oldest first.
IndexForward(b, i) == (((b.head + N - b.count) % N) + i) % N
Oldest(u) == [i \in 1 .. map[u].count |-> mem[map[u].data][IndexForward(map[u], i - 1)].val]

Dump(u) ==
    /\ ~panicked
    /\ out' = Oldest(u)
    /\ UNCHANGED <<mem, map, free_list, free, panicked>>

PushAny(u) == \E r \in Rec, t \in Ts : PushOld(u, r, t) \/ PushNew(u, r, t)
Next ==
    \/ \E u \in Uid :
          PushAny(u) \/ PushPanic(u) \/ Erase(u) \/ (\E n \in 1 .. N : Get(u, n)) \/ Dump(u)
    \/ panicked /\ UNCHANGED vars

Spec == Init /\ [][Next]_vars

-----------------------------------------------------------------------------
TypeOK ==
    /\ mem \in [Slot -> [0 .. N - 1 -> Cell]]
    /\ map \in [Uid -> Buf \cup {NoBuf}]
    /\ free_list \in Slot \cup {Null}
    /\ free \in Seq(Slot) /\ Len(free) <= Slots
    /\ panicked \in BOOLEAN
    /\ out \in Seq(Rec)

\* Two users never share a slot, and no user's slot is free.
NoAliasing ==
    \A u \in Uid : Present(u) =>
        /\ \A v \in Uid \ {u} : map[v].data # map[u].data
        /\ \A i \in 1 .. Len(free) : free[i] # map[u].data

\* The next pointers kept in the free slots spell the free list, although the
\* slots are reused for records in between: no slot is in it twice.
FreeListIntact ==
    /\ free_list = IF free = <<>> THEN Null ELSE Head(free)
    /\ \A i \in 1 .. Len(free) :
          /\ mem[free[i]][0] = Ptr(IF i < Len(free) THEN free[i + 1] ELSE Null)
          /\ \A j \in 1 .. Len(free) : free[i] = free[j] => i = j

\* No slot leaks: the "slab exhausted" assertion fires only with as many keys
\* in the map as there are slots.
PanicOnlyIfFull ==
    \A s \in Slot : panicked => \E u \in Uid : Present(u) /\ map[u].data = s

Log == INSTANCE EventLog WITH log <- [u \in Uid |-> [recs |-> Oldest(u), ts |-> map[u].ts]]

\* The store implements the event log: GET returns the newest records in
\* order, a slot's old contents or list pointer never show, and a snapshot's
\* walk yields the records oldest first.
ImplementsLog == Log!Spec
=============================================================================
