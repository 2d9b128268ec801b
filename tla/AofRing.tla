------------------------------ MODULE AofRing ------------------------------
(***************************************************************************)
(* AOFWriter (src/aof.rs): the event loop appends entries to a ring buffer, *)
(* a flush thread drains it into the append-only file, shutdown joins the   *)
(* thread and flushes what is left.  In mode "always" the event loop writes *)
(* and syncs the file itself and the ring is not used.                      *)
(*                                                                          *)
(* A byte is represented by its position in the stream of all bytes ever    *)
(* appended: a ring cell or a file holds the right data exactly when it     *)
(* holds the right positions.  An entry is then just a length.              *)
(***************************************************************************)
EXTENDS Integers, Sequences

CONSTANTS
    Size,           \* AOF_BUF_SIZE
    EntryLens,      \* lengths of the entries (PUSH and DEL)
    Modes,          \* the fsync modes to start in
    MaxEntries,     \* bound: entries appended
    Faulty          \* may write(2) be short or fail, and fdatasync(2) fail

ASSUME SizeAssumption == Size \in Nat \ {0}
ASSUME LensAssumption == EntryLens \subseteq 1 .. Size
ASSUME ModesAssumption == Modes \subseteq {"always", "everysec", "no"}
ASSUME MaxAssumption == MaxEntries \in Nat
ASSUME FaultyAssumption == Faulty \in BOOLEAN

VARIABLES
    mode,       \* fsync_mode
    buf,        \* the ring: stream position per cell, -1 for a zeroed cell
    head, tail, \* stream positions published and released
    running,    \* the flush thread's stop flag
    epc,        \* event loop: "ready", "space", "copy1", "copy2", "publish",
                \* "write", "sync", "join", "final", "closed"
    req,        \* length of the entry being appended
    entries,    \* entries appended so far
    acked,      \* stream length of the appends that returned
    fpc,        \* flush: "check", "load", "write1", "write2", "sync",
                \* "store", "done", or "none" without a flush thread
    last,       \* flush: this flush_once is the last one of its caller
    fh,         \* flush: the head it loaded
    file,       \* bytes handed to the kernel, in file order
    synced      \* length of the file's prefix on stable storage

loop == <<epc, req, entries, acked>>
flush == <<fpc, last, fh>>
disk == <<file, synced>>
vars == <<mode, buf, head, tail, running, loop, flush, disk>>

\* The cell of a stream position.
Offset(pos) == pos % Size

Min2(a, b) == IF a <= b THEN a ELSE b

\* Bytes of `len' pending ones at stream position `pos' that lie before the
\* end of the buffer: the first of at most two fragments.
FirstLen(pos, len) == Min2(len, Size - Offset(pos))

\* open()
Init ==
    /\ mode \in Modes
    /\ buf = [c \in 0 .. Size - 1 |-> -1]
    /\ head = 0 /\ tail = 0 /\ running = TRUE
    /\ epc = "ready" /\ req = 0 /\ entries = 0 /\ acked = 0
    /\ fpc = IF mode = "always" THEN "none" ELSE "check"
    /\ last = FALSE /\ fh = 0
    /\ file = <<>> /\ synced = 0

-----------------------------------------------------------------------------
\* checked_write(): the result of write(2) is logged and dropped, so a short
\* write leaves out the end of the data and an error leaves out all of it.
checked_write(bytes) ==
    \E n \in IF Faulty THEN 0 .. Len(bytes) ELSE {Len(bytes)} :
        file' = file \o SubSeq(bytes, 1, n)

\* fdatasync(2); its result is dropped as well.
Mfdatasync == synced' = head
fdatasync == synced' \in IF Faulty THEN {synced, Len(file)} ELSE {Len(file)}

\* Cells c .. c + len - 1 of the ring as data for checked_write.
Cells(c, len) == [i \in 1 .. len |-> buf[c + i - 1]]

\* Cells c .. c + len - 1 overwritten with the bytes at stream position pos.
CopyTo(c, pos, len) ==
    buf' = [d \in 0 .. Size - 1 |-> IF d \in c .. c + len - 1 THEN pos + (d - c) ELSE buf[d]]

-----------------------------------------------------------------------------
\* append_push(), append_del() and write_entry(): one entry of length len.
AppendEntry(len) ==
    /\ epc = "ready" /\ entries < MaxEntries
    /\ entries' = entries + 1 /\ req' = len
    /\ epc' = IF mode = "always" THEN "write" ELSE "space"
    /\ UNCHANGED <<mode, buf, head, tail, running, acked, flush, disk>>

\* Mode "always": write and sync in the event loop.
AlwaysWrite ==
    /\ epc = "write"
    /\ checked_write([i \in 1 .. req |-> acked + i - 1])
    /\ epc' = "sync"
    /\ UNCHANGED <<mode, buf, head, tail, running, req, entries, acked, flush, synced>>

MAlwaysSync ==
    /\ epc = "sync"
    /\ acked' = acked + req
    /\ epc' = "ready"
    /\ UNCHANGED <<mode, buf, head, tail, running, req, entries, flush, file, synced>>
AlwaysSync ==
    /\ epc = "sync"
    /\ fdatasync
    /\ acked' = acked + req
    /\ epc' = "ready"
    /\ UNCHANGED <<mode, buf, head, tail, running, req, entries, flush, file>>

\* ring_write(): spin until the entry fits ...
MHasSpace == head - tail <= Size
HasSpace == head - tail + req <= Size

RingSpace ==
    /\ epc = "space"
    /\ HasSpace
    /\ epc' = "copy1"
    /\ UNCHANGED <<mode, buf, head, tail, running, req, entries, acked, flush, disk>>

\* ... copy it in one fragment or two ...
MRingCopy1 ==
    /\ epc = "copy1"
    /\ CopyTo(Offset(head), head, FirstLen(head, req))
    /\ epc' = "publish"
    /\ UNCHANGED <<mode, head, tail, running, req, entries, acked, flush, disk>>
RingCopy1 ==
    /\ epc = "copy1"
    /\ CopyTo(Offset(head), head, FirstLen(head, req))
    /\ epc' = IF Offset(head) + req <= Size THEN "publish" ELSE "copy2"
    /\ UNCHANGED <<mode, head, tail, running, req, entries, acked, flush, disk>>

RingCopy2 ==
    /\ epc = "copy2"
    /\ LET first == FirstLen(head, req)
       IN  CopyTo(0, head + first, req - first)
    /\ epc' = "publish"
    /\ UNCHANGED <<mode, head, tail, running, req, entries, acked, flush, disk>>

\* ... and publish it.
RingPublish ==
    /\ epc = "publish"
    /\ head' = head + req /\ acked' = acked + req
    /\ epc' = "ready"
    /\ UNCHANGED <<mode, buf, tail, running, req, entries, flush, disk>>

-----------------------------------------------------------------------------
\* flush_loop(), and flush_sync() when shutdown runs it after the join.

FlushCheck ==
    /\ fpc = "check"
    /\ last' = ~running
    /\ fpc' = "load"
    /\ UNCHANGED <<mode, buf, head, tail, running, loop, fh, disk>>

\* Where a flush_once that has finished goes on.
MReturn == "check"
Return == IF last THEN "done" ELSE "check"

MFlushLoad ==
    /\ fpc = "load"
    /\ fh' = head
    /\ fpc' = IF head - tail < Size THEN Return ELSE "write1"
    /\ UNCHANGED <<mode, buf, head, tail, running, loop, last, disk>>
FlushLoad ==
    /\ fpc = "load"
    /\ fh' = head
    /\ fpc' = IF head = tail THEN Return ELSE "write1"
    /\ UNCHANGED <<mode, buf, head, tail, running, loop, last, disk>>

FlushWrite1 ==
    /\ fpc = "write1"
    /\ checked_write(Cells(Offset(tail), FirstLen(tail, fh - tail)))
    /\ fpc' = IF Offset(tail) + (fh - tail) <= Size THEN "sync" ELSE "write2"
    /\ UNCHANGED <<mode, buf, head, tail, running, loop, last, fh, synced>>

FlushWrite2 ==
    /\ fpc = "write2"
    /\ checked_write(Cells(0, fh - tail - FirstLen(tail, fh - tail)))
    /\ fpc' = "sync"
    /\ UNCHANGED <<mode, buf, head, tail, running, loop, last, fh, synced>>

\* flush_once() syncs in mode "everysec"; flush_sync() always does.
FlushSync ==
    /\ fpc = "sync"
    /\ IF mode = "everysec" \/ epc = "final" THEN fdatasync ELSE UNCHANGED synced
    /\ fpc' = "store"
    /\ UNCHANGED <<mode, buf, head, tail, running, loop, last, fh, file>>

MFlushStore ==
    /\ fpc = "store"
    /\ tail' = head
    /\ fpc' = Return
    /\ UNCHANGED <<mode, buf, head, running, loop, last, fh, disk>>
FlushStore ==
    /\ fpc = "store"
    /\ tail' = fh
    /\ fpc' = Return
    /\ UNCHANGED <<mode, buf, head, running, loop, last, fh, disk>>

Flush == FlushCheck \/ FlushLoad \/ FlushWrite1 \/ FlushWrite2 \/ FlushSync \/ FlushStore

-----------------------------------------------------------------------------
\* shutdown(): stop flag, join, flush_sync, close.

ShutdownStop ==
    /\ epc = "ready"
    /\ running' = FALSE
    /\ epc' = "join"
    /\ UNCHANGED <<mode, buf, head, tail, req, entries, acked, flush, disk>>

ShutdownJoin ==
    /\ epc = "join"
    /\ fpc \in {"done", "none"}
    /\ epc' = "final"
    /\ fpc' = "load" /\ last' = TRUE
    /\ UNCHANGED <<mode, buf, head, tail, running, req, entries, acked, fh, disk>>

MShutdownClose ==
    /\ epc = "join" /\ fpc \in {"check", "none"}
    /\ epc' = "closed"
    /\ UNCHANGED <<mode, buf, head, tail, running, req, entries, acked, flush, disk>>
ShutdownClose ==
    /\ epc = "final" /\ fpc = "done"
    /\ epc' = "closed"
    /\ UNCHANGED <<mode, buf, head, tail, running, req, entries, acked, flush, disk>>

AppendAny == \E len \in EntryLens : AppendEntry(len)
Ring == RingSpace \/ RingCopy1 \/ RingCopy2 \/ RingPublish
Shutdown == ShutdownStop \/ ShutdownJoin \/ ShutdownClose
EventLoop == AppendAny \/ AlwaysWrite \/ AlwaysSync \/ Ring \/ Shutdown

\* The process has exited: nothing happens any more.
Exited == epc = "closed" /\ UNCHANGED vars

Next == EventLoop \/ Flush \/ Exited

\* The flush thread keeps running, and the event loop finishes what it has
\* begun; nothing makes a client append or a signal arrive.
Spec ==
    /\ Init /\ [][Next]_vars
    /\ WF_vars(Flush)
    /\ WF_vars(AlwaysWrite \/ AlwaysSync \/ Ring \/ ShutdownJoin \/ ShutdownClose)

-----------------------------------------------------------------------------
TypeOK ==
    /\ mode \in Modes
    /\ buf \in [0 .. Size - 1 -> Int]
    /\ head \in Nat /\ tail \in Nat /\ running \in BOOLEAN
    /\ epc \in {"ready", "space", "copy1", "copy2", "publish", "write", "sync",
                "join", "final", "closed"}
    /\ req \in {0} \cup EntryLens /\ entries \in 0 .. MaxEntries /\ acked \in Nat
    /\ fpc \in {"check", "load", "write1", "write2", "sync", "store", "done", "none"}
    /\ last \in BOOLEAN /\ fh \in Nat
    /\ file \in Seq(Int) /\ synced \in 0 .. Len(file)

\* The claim of AOFBuf's SAFETY comment: cells being written by the event loop
\* are never cells the flush thread is reading.
DisjointAccess ==
    \A p \in head .. head + req - 1, r \in tail .. fh - 1 :
        epc \in {"copy1", "copy2"} /\ fpc \in {"write1", "write2"} => Offset(p) # Offset(r)

\* Every byte published and not yet released is intact in its cell: neither
\* ring_write nor a wrap-around overwrites it.
PendingIntact ==
    /\ 0 <= head - tail /\ head - tail <= Size
    /\ \A p \in tail .. head - 1 : buf[Offset(p)] = p

\* "WAL invariant: never drop an entry" (ring_write): the file is a prefix of
\* the stream, with no byte missing, repeated or out of place, and every byte
\* released from the ring is in it.
FileIsStreamPrefix ==
    /\ \A i \in 1 .. Len(file) : file[i] = i - 1
    /\ tail <= Len(file)

\* What a crash may take: in mode "always" no append that returned, in mode
\* "everysec" only bytes still in the ring.
AckedDurable ==
    /\ mode = "always" => acked <= synced
    /\ mode = "everysec" => tail <= synced

\* shutdown() loses nothing: at close the file holds every byte appended, on
\* stable storage unless the mode is "no".
CleanShutdown ==
    epc = "closed" => Len(file) = acked /\ (mode # "no" => synced = acked)

\* ring_write's spin ends: the flush thread always makes room.
SpinEnds == epc = "space" ~> epc = "ready"

\* shutdown() returns: the join never hangs.
ShutdownEnds == ~running ~> epc = "closed"
=============================================================================
