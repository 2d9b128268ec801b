---------------------------- MODULE Persistence ----------------------------
(***************************************************************************)
(* Durability of the server as a whole: commands (src/commands.rs), the     *)
(* append-only file (src/aof.rs) at the granularity of entries, snapshots   *)
(* written by a forked child (src/snapshot.rs), TTL evictions, crashes of   *)
(* the process and of the machine, shutdown, and recovery                   *)
(* (src/recovery.rs, src/main.rs).                                          *)
(*                                                                          *)
(* Every command and eviction has a number, by which the ghost variable     *)
(* hist relates what recovery rebuilds to what was executed.                *)
(***************************************************************************)
EXTENDS Integers, Sequences, FiniteSets, SequencesExt

CONSTANTS
    Uid,            \* user ids
    N,              \* COMPILED_N: records kept per user
    Slots,          \* memory_pool_slots: users the store has room for
    Modes,          \* "always" and "ring" (everysec and no)
    TTL,            \* ttl_ns
    SnapInterval,   \* snapshot_interval
    Procs,          \* process ids of snapshot children
    ClockBack,      \* by how much CLOCK_REALTIME may be set back between two reads
    Torn,           \* may a crash cut a write(2) inside an entry
    Lossy,          \* may a write of the snapshot's body fail and the last one succeed
    MaxClock,       \* bound: the latest instant the clock shows
    MaxCmds         \* bound: commands and evictions executed

ASSUME SizeAssumption == N \in Nat \ {0} /\ Slots \in Nat \ {0}
ASSUME ModeAssumption == Modes \subseteq {"always", "ring"}
ASSUME ClockAssumption == {TTL, ClockBack, MaxClock, MaxCmds} \subseteq Nat
ASSUME IntervalAssumption == SnapInterval \in 0 .. MaxClock
ASSUME FaultAssumption == {Torn, Lossy} \subseteq BOOLEAN
ASSUME ProcsAssumption == Procs \subseteq Nat \ {0}

VARIABLES
    up,         \* the server process is running and has recovered
    mode,
    clock,
    seqno,      \* number of the last command or eviction
    store,      \* Uid -> ring buffer
    ring,       \* entries acknowledged and not yet handed to the kernel
    file,       \* entries of the append-only file in the page cache
    synced,     \* length of the file's prefix on stable storage
    lastSnap,   \* last_snapshot_ts
    child_pid,  \* the child the server waits for, 0 for none
    proc,       \* the snapshot children
    tmp, bin,   \* snapshot.tmp and snapshot.bin
    hist        \* ghost: commands and evictions the state descends from

mem == <<store, ring>>
snap == <<lastSnap, child_pid>>
snapfs == <<proc, tmp, bin>>
vars == <<up, mode, clock, seqno, mem, file, synced, snap, snapfs, hist>>

-----------------------------------------------------------------------------
\* Ring buffers, seen as the last N records, oldest first (module Store).

NoBuf == [recs |-> <<>>, ts |-> 0]
EmptyStore == [u \in Uid |-> NoBuf]

\* RingBuffer::push
MBufPush(b, rec, ts) == [recs |-> Append(b.recs, rec), ts |-> ts]
BufPush(b, rec, ts) ==
    [recs |-> IF Len(b.recs) < N THEN Append(b.recs, rec) ELSE Append(Tail(b.recs), rec),
     ts |-> ts]

\* The effect of an entry on the store: get_or_create and push, or erase.
ApplyEntry(st, e) ==
    [st EXCEPT ![e.uid] = IF e.op = "PUSH" THEN BufPush(@, e.n, e.ts) ELSE NoBuf]

\* Slots taken, and whether get_or_create finds one for the entry.
Users(st) == {u \in Uid : st[u].recs # <<>>}
Room(st, e) ==
    e.op = "PUSH" => e.uid \in Users(st) \/ Cardinality(Users(st)) < Slots

\* Entries applied one after the other, and whether none exhausts the pool.
Apply(st, es) ==
    LET run[i \in 0 .. Len(es)] ==
            IF i = 0 THEN [store |-> st, fits |-> TRUE]
            ELSE [store |-> ApplyEntry(run[i - 1].store, es[i]),
                  fits |-> run[i - 1].fits /\ Room(run[i - 1].store, es[i])]
    IN  run[Len(es)]

\* The entries of es that are in S, in the order of es.
Only(es, S) == FlattenSeq([i \in 1 .. Len(es) |-> IF es[i] \in S THEN <<es[i]>> ELSE <<>>])

\* The cut-off end of an entry.
TornEntry == [op |-> "TORN", uid |-> 0, ts |-> 0, n |-> 0]

\* Snapshot files: a header and a body, which are written one after the other
\* and may come from different children.  A part not written is NoPart.
NoPart == [n |-> -1, ts |-> 0, store |-> EmptyStore]
NoFile == [exists |-> FALSE, hdr |-> NoPart, body |-> NoPart]
NoProc == [pc |-> "none", at |-> "none", img |-> NoPart]

Init ==
    /\ up = TRUE /\ mode \in Modes
    /\ clock = SnapInterval /\ seqno = 0
    /\ store = EmptyStore /\ ring = <<>>
    /\ file = <<>> /\ synced = 0
    /\ lastSnap = 0 /\ child_pid = 0
    /\ proc = [p \in Procs |-> NoProc]
    /\ tmp = NoFile /\ bin = NoFile
    /\ hist = <<>>

\* now_ns(): time passes, or the clock is set back, then it is read.
ReadClock == clock' \in (clock + 1 - ClockBack .. clock + 1) \cap (0 .. MaxClock)

-----------------------------------------------------------------------------
\* push_command and del_command, up to the acknowledgement: log, then apply.
MCommand(op, u) ==
    /\ up /\ seqno < MaxCmds
    /\ ReadClock
    /\ seqno' = seqno + 1
    /\ LET e == [op |-> op, uid |-> u, ts |-> clock', n |-> seqno']
       IN  /\ Room(store, e)
           /\ IF mode = "always"
              THEN file' = Append(file, e) /\ UNCHANGED <<ring, synced>>
              ELSE ring' = Append(ring, e) /\ UNCHANGED <<file, synced>>
           /\ store' = ApplyEntry(store, e)
           /\ hist' = Append(hist, e)
    /\ UNCHANGED <<up, mode, snap, snapfs>>
Command(op, u) ==
    /\ up /\ seqno < MaxCmds
    /\ ReadClock
    /\ seqno' = seqno + 1
    /\ LET e == [op |-> op, uid |-> u, ts |-> clock', n |-> seqno']
       IN  /\ Room(store, e)
           /\ IF mode = "always"
              THEN file' = Append(file, e) /\ synced' = Len(file') /\ UNCHANGED ring
              ELSE ring' = Append(ring, e) /\ UNCHANGED <<file, synced>>
           /\ store' = ApplyEntry(store, e)
           /\ hist' = Append(hist, e)
    /\ UNCHANGED <<up, mode, snap, snapfs>>

\* drain_expired_keys: an expired key is erased, and nothing is logged.
Evict(u) ==
    /\ up
    /\ store[u].recs # <<>> /\ clock - store[u].ts > TTL
    /\ seqno < MaxCmds
    /\ seqno' = seqno + 1
    /\ store' = [store EXCEPT ![u] = NoBuf]
    /\ hist' = Append(hist, [op |-> "EVICT", uid |-> u, ts |-> clock, n |-> seqno'])
    /\ UNCHANGED <<up, mode, clock, ring, file, synced, snap, snapfs>>

\* flush_once: k entries reach the file, in one write(2) or as a fragment ...
MFlushWrite ==
    /\ up
    /\ \E k \in 1 .. Len(ring) :
           /\ file' = file \o SubSeq(ring, 2, k)
           /\ ring' = SubSeq(ring, k + 1, Len(ring))
    /\ UNCHANGED <<up, mode, clock, seqno, store, synced, snap, snapfs, hist>>
FlushWrite ==
    /\ up
    /\ \E k \in 1 .. Len(ring) :
           /\ file' = file \o SubSeq(ring, 1, k)
           /\ ring' = SubSeq(ring, k + 1, Len(ring))
    /\ UNCHANGED <<up, mode, clock, seqno, store, synced, snap, snapfs, hist>>

\* ... and then stable storage, in mode everysec.
FlushSync ==
    /\ up /\ synced < Len(file)
    /\ synced' = Len(file)
    /\ UNCHANGED <<up, mode, clock, seqno, mem, file, snap, snapfs, hist>>

-----------------------------------------------------------------------------
\* Snapshots.

Alive(p) == proc[p].pc # "none"

\* now - last_snapshot_ts in u64: wraps to a huge value if the clock went back.
IntervalElapsed == clock' < lastSnap \/ clock' - lastSnap >= SnapInterval

\* Starting a child, or a fork() that fails.
MaybeFork ==
    /\ up
    /\ ReadClock /\ IntervalElapsed
    /\ child_pid # 0 => ~Alive(child_pid)
    /\ lastSnap' = clock'
    /\ \/ \E p \in Procs :
              /\ ~Alive(p) /\ \A q \in Procs : q < p => Alive(q)
              /\ child_pid' = p
              /\ proc' = [proc EXCEPT ![p] =
                     [pc |-> "create", at |-> "none",
                      img |-> [n |-> seqno, ts |-> clock', store |-> store]]]
       \/ child_pid' = 0 /\ UNCHANGED proc
    /\ UNCHANGED <<up, mode, seqno, mem, file, synced, tmp, bin, hist>>

\* dump_to_path in the child.  File::create truncates a snapshot.tmp that
\* exists: a child that has it open keeps writing to the same file.
DumpCreate(p) ==
    /\ proc[p].pc = "create"
    /\ tmp' = [NoFile EXCEPT !.exists = TRUE]
    /\ proc' = [proc EXCEPT ![p].pc = "header", ![p].at = "tmp"]
    /\ UNCHANGED <<up, mode, clock, seqno, mem, file, synced, snap, bin, hist>>

\* A write by p to whatever its descriptor refers to by now.
WritePart(p, part, img) ==
    /\ tmp' = IF proc[p].at = "tmp" THEN [tmp EXCEPT ![part] = img] ELSE tmp
    /\ bin' = IF proc[p].at = "bin" THEN [bin EXCEPT ![part] = img] ELSE bin

MDumpHeader(p) ==
    /\ proc[p].pc = "header"
    /\ tmp' = [tmp EXCEPT !.hdr = [proc[p].img EXCEPT !.ts = clock]]
    /\ proc' = [proc EXCEPT ![p].pc = "body"]
    /\ UNCHANGED <<up, mode, clock, seqno, mem, file, synced, snap, bin, hist>>
DumpHeader(p) ==
    /\ proc[p].pc = "header"
    /\ WritePart(p, "hdr", proc[p].img)
    /\ proc' = [proc EXCEPT ![p].pc = "body"]
    /\ UNCHANGED <<up, mode, clock, seqno, mem, file, synced, snap, hist>>

\* The walk over the keys drops the errors of write_all: what did not fit into
\* the BufWriter while the disk was full is missing, and the dump goes on.  Whole
\* keys may be missing, and records at the end of the key that came last (all of
\* them: then it counts as missing).  Other holes shift the bytes behind them and
\* are left out.
Written(b) ==
    {NoBuf, b} \cup {[b EXCEPT !.recs = SubSeq(@, 1, k)] : k \in 1 .. Len(b.recs) - 1}
Remains(st) ==
    {r \in [Uid -> UNION {Written(st[u]) : u \in Uid}] :
        /\ \A u \in Uid : r[u] \in Written(st[u])
        /\ \A u, v \in Uid : r[u] \notin {NoBuf, st[u]} /\ r[v] \notin {NoBuf, st[v]} => u = v}
Dumped(img) ==
    IF Lossy THEN {[img EXCEPT !.store = r] : r \in Remains(img.store)} ELSE {img}

DumpBody(p) ==
    /\ proc[p].pc = "body"
    /\ \E img \in Dumped(proc[p].img) : WritePart(p, "body", img)
    /\ proc' = [proc EXCEPT ![p].pc = "rename"]
    /\ UNCHANGED <<up, mode, clock, seqno, mem, file, synced, snap, hist>>

\* sync_all and rename; the name snapshot.tmp may be gone, which is an error.
\* Descriptors follow the file, not its name.
DumpRename(p) ==
    /\ proc[p].pc = "rename"
    /\ bin' = IF tmp.exists THEN tmp ELSE bin
    /\ tmp' = NoFile
    /\ proc' = [q \in Procs |->
           IF q = p THEN NoProc
           ELSE [proc[q] EXCEPT !.at = CASE ~tmp.exists -> @
                                         [] tmp.exists /\ @ = "tmp" -> "bin"
                                         [] OTHER -> "none"]]
    /\ UNCHANGED <<up, mode, clock, seqno, mem, file, synced, snap, hist>>

\* An error return of dump_to_path, or the death of the child.
DumpFail(p) ==
    /\ Alive(p)
    /\ proc' = [proc EXCEPT ![p] = NoProc]
    /\ UNCHANGED <<up, mode, clock, seqno, mem, file, synced, snap, tmp, bin, hist>>

-----------------------------------------------------------------------------
\* Stopping.  The memory of the process is gone; its snapshot child lives on.

ProcessGone ==
    /\ up' = FALSE
    /\ store' = EmptyStore /\ ring' = <<>>
    /\ lastSnap' = 0 /\ child_pid' = 0
    /\ UNCHANGED <<mode, bin>>

\* What an entry being written leaves when the process dies between its two
\* fragments, or inside write(2): nothing, or a part.
Fragment ==
    IF Torn /\ (ring # <<>> \/ mode = "always") THEN {<<>>, <<TornEntry>>} ELSE {<<>>}

CrashProcess ==
    /\ up /\ ProcessGone
    /\ \E f \in Fragment : file' = file \o f
    /\ UNCHANGED <<clock, seqno, synced, proc, tmp, hist>>

\* A machine crash keeps what was synced and any part of the rest.
CrashMachine ==
    /\ ProcessGone
    /\ \E k \in synced .. Len(file), f \in Fragment : file' = SubSeq(file, 1, k) \o f
    /\ synced' = Len(file')
    /\ proc' = [p \in Procs |-> NoProc] /\ tmp' = NoFile
    /\ UNCHANGED <<clock, seqno, hist>>

\* AOFWriter::shutdown drains the ring; in mode no nobody syncs it.
DrainRing(es) ==
    /\ file' = file \o es
    /\ synced' \in IF mode = "always" THEN {Len(file')} ELSE {synced, Len(file')}

\* EventLoop::shutdown
MShutdown ==
    /\ up /\ ProcessGone
    /\ UNCHANGED <<file, synced, clock, seqno, proc, tmp, hist>>
Shutdown ==
    /\ up /\ ProcessGone
    /\ DrainRing(ring)
    /\ UNCHANGED <<clock, seqno, proc, tmp, hist>>

\* push_command of a new user with all slots taken: the entry is logged, then
\* the allocator panics, and unwinding drops the AOFWriter, which shuts it down.
PushPanic(u) ==
    /\ up /\ seqno < MaxCmds
    /\ ReadClock
    /\ seqno' = seqno + 1
    /\ LET e == [op |-> "PUSH", uid |-> u, ts |-> clock', n |-> seqno']
       IN  /\ ~Room(store, e)
           /\ DrainRing(Append(ring, e))
           /\ hist' = Append(hist, e)
    /\ ProcessGone
    /\ UNCHANGED <<proc, tmp>>

-----------------------------------------------------------------------------
\* Recovery.

\* parse_snapshot: the records of every key are pushed in file order.  A file
\* without a header is taken for no snapshot, one without a body for no keys.
LoadBuf(b) ==
    LET load[i \in 0 .. Len(b.recs)] ==
            IF i = 0 THEN NoBuf ELSE BufPush(load[i - 1], b.recs[i], b.ts)
    IN  load[Len(b.recs)]
SnapTs(f) == f.hdr.ts
SnapStore(f) ==
    IF f.hdr = NoPart THEN EmptyStore ELSE [u \in Uid |-> LoadBuf(f.body.store[u])]

\* replay_aof: entries up to a torn one.  There the length field is garbage
\* that points behind the end of the file, and replay stops; entries appended
\* later are not found.
Readable(es) ==
    LET torn == {i \in 1 .. Len(es) : es[i].op = "TORN"}
    IN  IF torn = {} THEN es ELSE SubSeq(es, 1, Min(torn) - 1)

MReplay(es, ts, st) == Apply(st, Readable(es))
Replay(es, ts, st) == Apply(st, Only(Readable(es), {e \in Range(es) : e.ts > ts}))

\* recover()
Recovered == Replay(file, SnapTs(bin), SnapStore(bin))

\* Ghost: what recovery finds on disk, by number.  A snapshot that lost a part
\* on the way to the disk does not count.
InSnapshot(e) == bin.body = bin.hdr /\ e.n <= bin.body.n
InFile(e) == \E i \in 1 .. Len(Readable(file)) : file[i].n = e.n
Survives(e) == InSnapshot(e) \/ InFile(e)
Survivors == {e \in Range(hist) : Survives(e)}

\* A start.  A child of the last server holds the listening socket, so bind()
\* fails until it is gone (module Lifecycle).
PortFree == \A p \in Procs : ~Alive(p)

MRecover ==
    /\ ~up /\ up' = TRUE
    /\ Recovered.fits /\ store' = Recovered.store
    /\ hist' = Only(hist, Survivors)
    /\ UNCHANGED <<mode, clock, seqno, ring, file, synced, snap, snapfs>>
Recover ==
    /\ ~up /\ PortFree /\ up' = TRUE
    /\ Recovered.fits /\ store' = Recovered.store
    /\ hist' = Only(hist, Survivors)
    /\ UNCHANGED <<mode, clock, seqno, ring, file, synced, snap, snapfs>>

\* Replay panics like the command did: the server does not come up.
RecoverPanic ==
    /\ ~up /\ PortFree /\ ~Recovered.fits
    /\ UNCHANGED vars

Commands == \E u \in Uid : Command("PUSH", u) \/ Command("DEL", u) \/ Evict(u) \/ PushPanic(u)
Snapshots ==
    \/ MaybeFork
    \/ \E p \in Procs :
          DumpCreate(p) \/ DumpHeader(p) \/ DumpBody(p) \/ DumpRename(p) \/ DumpFail(p)
Next ==
    \/ Commands \/ FlushWrite \/ FlushSync \/ Snapshots
    \/ CrashProcess \/ CrashMachine \/ Shutdown \/ Recover \/ RecoverPanic

Spec == Init /\ [][Next]_vars

-----------------------------------------------------------------------------
TypeOK ==
    /\ up \in BOOLEAN /\ mode \in Modes
    /\ clock \in 0 .. MaxClock /\ seqno \in 0 .. MaxCmds
    /\ \A u \in Uid : Len(store[u].recs) <= N
    /\ Cardinality(Users(store)) <= Slots
    /\ synced \in 0 .. Len(file)
    /\ child_pid \in Procs \cup {0}
    /\ \A p \in Procs : proc[p].pc \in {"none", "create", "header", "body", "rename"}

IsCommand(e) == e.op # "EVICT"

\* Recovery rebuilds the store, records, order and timestamps, from exactly the
\* commands the disk knows of: none is applied twice, none is skipped because
\* of its timestamp, and no eviction is kept that no snapshot has seen.
StoreIsHistory == up => store = Apply(EmptyStore, hist).store

\* The commands that survive a stop are a prefix of those acknowledged, with
\* the snapshot and the file from different moments: no command survives one
\* that came before it.
SurvivorsArePrefix ==
    ~up => \A i, j \in 1 .. Len(hist) :
              i < j /\ IsCommand(hist[i]) /\ Survives(hist[j]) => Survives(hist[i])

\* Mode always, "max data loss 0": every command acknowledged survives.
AlwaysLosesNothing ==
    ~up /\ mode = "always" =>
        \A i \in 1 .. Len(hist) : IsCommand(hist[i]) => Survives(hist[i])

\* A graceful shutdown loses nothing in any mode.
ShutdownLosesNothing ==
    [][Shutdown => \A i \in 1 .. Len(hist) : IsCommand(hist[i]) => Survives(hist[i])']_vars

\* Header and body of snapshot.bin come from one child, although a child may
\* outlive its server and the next server has its own.  The body is the image of
\* that child, or what write errors left of it.
SnapshotFromOneChild == bin.body \in Dumped(bin.hdr)

\* "File is always complete or absent": the keys of snapshot.bin are those that
\* the header was written for.
SnapshotWhole == bin.hdr = bin.body

\* "All AOF entries written after fork() have write_ts > snapshot_ts".
PostForkLater ==
    bin.exists => \A i \in 1 .. Len(hist) :
        IsCommand(hist[i]) /\ hist[i].n > bin.body.n => hist[i].ts > bin.hdr.ts

\* snapshot_ts divides the log exactly: in the snapshot are the commands up to
\* that instant and no later one, "by construction".
SnapshotCutExact ==
    bin.exists => \A i \in 1 .. Len(hist) :
        IsCommand(hist[i]) => (InSnapshot(hist[i]) <=> hist[i].ts <= bin.hdr.ts)

\* A server whose store never needed more than its slots can be started again:
\* replay, which begins at the snapshot, needs no more than execution did.  Not
\* so if evictions are undone, which no entry records, and not if the pool was
\* exhausted: then the entry that did it is in the log for good.
EvictionsSaved == \A i \in 1 .. Len(hist) : hist[i].op = "EVICT" => InSnapshot(hist[i])
RecoveryFits ==
    ~up /\ EvictionsSaved /\ Apply(EmptyStore, hist).fits => Recovered.fits
=============================================================================
