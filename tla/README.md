# TLA+ specifications of lloogg

lloogg (the binary calls itself *weloxs*) is a TCP server that keeps the last N
records of every user in memory. It logs commands to an append-only file (AOF),
writes snapshots from a forked child, and evicts users who have been idle
longer than a time to live. This directory holds TLA+ models of its core, the
TLC configurations that check them, and TLAPS proofs.

Paths such as `aof.rs` below are relative to `src/src/` as `PROJECT.json` names it.

## 1. The system

One process, three threads, at most one snapshot child per process:

    clients ──epoll──▶ event loop ──AOF ring──▶ flush thread ──▶ AOF
                        │   ▲  │
          candidates_in │   │  │ fork
                        ▼   │  ▼
                   TTL worker  snapshot child ──▶ snapshot.tmp ──rename──▶ snapshot.bin

| Component | State | Operations | What is hard | What makes it correct |
|---|---|---|---|---|
| SPSC queue (`spsc.rs`) | slots, two wrapping counters | `push`, `pop` | lock-free, stale loads, wrap-around | bounded FIFO, no slot accessed by both sides |
| AOF writer (`aof.rs`) | ring, `head`, `tail`, `running`, the file | append, flush, `flush_sync`, `shutdown` | two threads on one buffer, entries that straddle its end, the shutdown race, failing writes | no byte lost, repeated or overwritten; durability per mode; shutdown ends with everything in the file |
| TTL eviction (`ttl.rs`, `event_loop.rs:149-171`) | two queues, the worker's flag, `last_ttl_collect` | collect, judge, drain, `stop` | decisions on old data that cross two queues and a thread | never evicts a live key; evicts every expired one |
| Store (`store.rs`, `ring_buffer.rs`, `memory_pool.rs`) | map of ring buffers, slots, intrusive free list | `get_or_create`, `push`, `get_last`, `erase`, the snapshot's walk | list pointers and records share memory, slots are not cleared | the last N records per user; no slot shared or leaked |
| Connections (`connection.rs`, `event_loop.rs`) | per-connection state machine, epoll registration | accept, read, process, write, close | partial reads and writes, pipelining, hang-ups, descriptor reuse | framing, reply order, no stuck connection |
| Persistence (`commands.rs`, `aof.rs`, `snapshot.rs`, `recovery.rs`) | store, log, snapshot files | PUSH, DEL, evict, flush, fork, dump, recover | crashes at every point, the cut between snapshot and log, clocks | recovery rebuilds a prefix of the acknowledged history |
| Processes (`main.rs`, `config.rs`, `bind_listen_socket`, `EventLoop::shutdown`) | configuration, listening socket, `shutdown_flag`, children | start, load, bind, listen, open, recover, signal, shutdown, crash | racing starts, signals at any point, children that outlive their server and hold its port | at most one server uses the files; a stop signal is not lost; a server can be started again |
| Clock (`time.rs`) | `CLOCK_REALTIME` | `now_ns` | it may be set back | part of the modules that read it |
| Constants, record, errors, build script, benchmarks | none | | | not modelled (section 8) |

`PROJECT.json` lists the hazards of this code, line by line, with the properties
aimed at each.

## 2. Modules

| Module | Models | Notes |
|---|---|---|
| `SPSCQueue` | `spsc.rs` | one action per atomic access; refines `BoundedFifo` |
| `BoundedFifo` | what the queue promises | abstract; a refusal needs no full queue, because of stale loads |
| `AofRing` | `aof.rs` | event loop and flush thread as two program counters |
| `TtlEviction` | `ttl.rs` and the event loop's part | composes the loop, the worker and two queues with the behaviour of `BoundedFifo` |
| `Store` | `store.rs`, `ring_buffer.rs`, `memory_pool.rs`, the index walk of `snapshot.rs` | memory as cells; refines `EventLog` |
| `EventLog` | what the store promises | abstract: last N records, newest-first GET, oldest-first dump |
| `Connection` | `connection.rs`, `event_loop.rs` | clients, sockets and epoll as environment |
| `Persistence` | commands, AOF, snapshots, crashes, recovery | composes the parts at the granularity of entries |
| `Lifecycle` | `main.rs`, `config.rs`, socket setup, shutdown order, snapshot children as processes | several servers with one configuration; justifies `PortFree` of `Persistence` |
| `MCStore`, `MCPersistence`, `MCConnection` | | symmetry sets and the clients' programs for TLC |
| `SPSCQueueProofs`, `AofRingProofs`, `TtlEvictionProofs`, `StoreProofs`, `ConnectionProofs`, `PersistenceProofs`, `LifecycleProofs` | | theorems |
| `SequenceLemmas` | | induction over numbers and sequences, and facts about `FlattenSeq`, for `ConnectionProofs` and `PersistenceProofs` |

### SPSCQueue

`head`, `tail` and `buf` are the fields of the struct. `PushCall`, `PushLoad`,
`PushWrite`, `PushPublish` are the steps of `push`; `PopLoad`, `PopRead`,
`PopAdvance` those of `pop`. The u64 counters wrap at `Wrap = Laps * CAP`, which
stands for 2^64 (CAP is a power of two, so it divides it). An acquire load
returns any value between the one seen last and the current one (`Visible`):
coherence and release/acquire give no more.

### AofRing

A byte is represented by its position in the stream of all bytes appended. A
cell or file position is right exactly when it holds the right number, so data
need no further model. `AppendEntry` is `append_push`/`append_del`, the actions
`Ring*` are the stages of `ring_write`, `Flush*` those of `flush_once` (and of
`flush_sync`, which shutdown runs after the join and which differs only in
always syncing), `Shutdown*` those of `shutdown`. With `Faulty`, write(2) may be
short or fail and fdatasync(2) may fail. Loads of `head` and `tail` are exact: an
old `tail` only makes `ring_write` spin longer, an old `head` only makes a flush
smaller, and the last flush is ordered after the last append by the join. The
u64 counters do not wrap: that takes 2^64 bytes.

### TtlEviction

`store` maps a user to `last_write_ts`. The event loop goes through `drain`, `scan`,
`serve` as `run` does; `for_each` visits keys in a fixed order, as hashbrown does
while the table is not rebuilt. The worker pops, judges with its own clock
reading, forwards, and drains once more after the flag is cleared.

`StepBack` sets the clock back. `CollectDue` then has the wrap-around of the u64
subtraction (a release build; a debug build would panic), and `Age` the
`saturating_sub`. The ghost `idle` counts real time since the last write of a key, so
`NoFalseEviction` means what a user would mean by it, whatever the clock shows.
The clock stops at `MaxNow`; there, time passes without being counted, and a
collection is due whenever the worker has emptied its queue (the real interval
of 10 s is far longer than the worker needs).

### Store

A slot is a function from cell to contents: a record, a free-list pointer (which
overlays the first record, since a record is 17 bytes and a pointer 8) or memory
never written. `free` is a ghost: the sequence the pointers should spell. The
slab and `MemoryPool` have the same code apart from where the memory comes from.
`get_or_create` and `push` are one action, as they are in every caller.

### Connection

A byte is `<<k, j>>`, byte j of the client's k-th request. A request is its opcode or
what is wrong with it (`BADHDR`, `BADCOUNT`). One iteration of the loop of
`handle_read` or `handle_write` is an action. epoll is level-triggered and reports
what is true when `epoll_wait` is called. accept4 may stop early with an error;
one that fails at the first call (EMFILE) is a stutter and a retry at the next
`epoll_wait`, and `AnsweredEventually` takes for granted that it does not fail for
ever. Client and socket behaviour are the environment.

### Persistence

Every command and eviction has a number. The ghost `hist` is the sequence the
current state descends from; recovery shortens it to what the disk knows of.
The mode `ring` stands for `everysec` and `no`: `FlushSync` may happen at any time or
never, and a shutdown in mode `no` does not sync. The snapshot child is four steps
(create, header, body, rename) and may fail at each. Errors of the header, of the
last flush and of the rename are returned (`DumpFail`); those of the keys are
dropped (`let _ =`). With `Lossy` the body is therefore any of `Dumped`: the image,
or the image without whole keys, or without records at the end of the key that
the walk wrote last. A key of which no record was written counts as missing,
although `parse_snapshot` gives it a slot. A hole inside a key that others follow
shifts the bytes behind it; what `parse_snapshot` makes of them is left out. File descriptors follow
files, not names, so two children that share `snapshot.tmp` would behave as on
POSIX. For small snapshots `BufWriter` joins header and body into one write(2); two
steps are the general case. `CrashProcess` keeps the page cache, `CrashMachine` keeps
the synced prefix and any part of the rest, and ends the children, which
everything else lets live. `Recover` waits until they are gone (`PortFree`): that is
what `Lifecycle` shows.

The pool is the third limit. `PushPanic` is a PUSH of a new user with all `Slots`
taken: the entry is logged, `alloc` panics, and unwinding runs `Drop for AOFWriter`,
which flushes the entry. Replay then meets it again (`RecoverPanic`): the server
does not come up, at any attempt.

`Torn` adds the cut-off end of an entry; its length field then points behind the
end of the file and replay stops, which is one of the outcomes the bytes can
have. Evictions take effect only for keys idle longer than the TTL, which is
what `TtlEviction` establishes.

### Lifecycle

One program counter per server follows `main()`: `Load`, `NewStore`, `Bind`, `Listen`,
`OpenAof`, `InstallHandlers`, `Recover`, then `RunTop` and `Tick` until the flag is seen,
then `StopAof` and `CloseSockets`. Every step that can end the process does
(`Exit`): a configuration error, a failing `bind`, an error of `open` or of recovery, a
panic, a signal before the handlers are installed. `conf` is the file, with one
value of each field per outcome of `validate`; an invalid one is a legal initial
state. `memory_pool_slots = 0` is valid, and `NewStore` has what can come of it.

`sock` is the state of `listen_fd`. Two sockets with SO_REUSEADDR may both be bound as
long as neither listens; then the first `listen` wins and the second fails, which
`bind_listen_socket` does not notice. The server goes on as `Deaf`: it opens the
log and runs, but has no clients.

A fork copies the descriptors (`SOCK_CLOEXEC` acts at exec only), so a snapshot
child keeps the port. When its server ends it becomes one of the `orphans`, and
the next `bind` fails until it has exited.

## 3. Runs

| Run | Bounds | Shows |
|---|---|---|
| `spsc` | 2 items, CAP 4, wrap after 2 laps | types, `ViewsOrdered`, `NoRace`, `ImplementsFifo` |
| `aof_ring` | ring of 5, entries of 2 and 3 bytes, 8 entries, all modes | the two threads never touch one cell (`DisjointAccess`), nothing pending is overwritten (`PendingIntact`), the file is a prefix of the stream (`FileIsStreamPrefix`), `AckedDurable`, `CleanShutdown`, `SpinEnds`, `ShutdownEnds` |
| `ttl` | 2 keys, TTL 1, interval 1, queues 2 and 1, clock to 2, set back once | `ForwardedExpired`, `NoFalseEviction`, `EvictedEventually`, `StopEnds` |
| `store` | 3 users, 2 slots, 3 records per slot, 2 records, 2 timestamps | `NoAliasing`, `FreeListIntact`, `PanicOnlyIfFull`, `ImplementsLog` |
| `persistence` | 3 users, 2 slots, N = 2, 4 commands, clock to 6, 2 children | `StoreIsHistory`, `SurvivorsArePrefix`, `AlwaysLosesNothing`, `SnapshotFromOneChild`, `SnapshotCutExact`, `RecoveryFits`, `ShutdownLosesNothing` |
| `lifecycle` | 2 servers, 4 faults, every configuration | `SingleWriter`, `OneDumperHoldsPort`, `ServesAgain`, `SignalStops` |
| `connections` | 2 descriptors, 3 connections, three client programs, header and reply of 2 bytes | `StreamIntact`, `RepliesInOrder`, `ArmedCorrectly`, `AnsweredEventually` |

Why the bounds suffice for the cases of interest: the queue and the ring wrap
several times, with entries that end exactly at, before and behind the end of
the ring (5 is a multiple of neither length); the queue's counters wrap; the TTL queues both
fill up, and a key can be written, expire, be written again, also while the clock
is behind the last collection; three users compete
for two slots, in the store and in recovery, and a buffer of three passes through empty, partly filled, full
and overwriting; four commands allow a snapshot with commands before, during and
after it, and several crashes and recoveries; clients pipeline two requests,
break the protocol in the first or the second, and descriptors are reused, also
closed and accepted again within one batch while another connection is open; two
servers race through startup, and four faults are enough for a crash that leaves
a child, a crash during the restart it blocks, a signal and one more crash.

`RecoveryFits` needs its two conditions. If the pool was exhausted, the entry that
did it is in the log for good. If an eviction is not yet in a snapshot, a
restart undoes it, and the key takes up its slot again during replay: with two
slots, push u1, push u2, evict u1, push u3, crash; replay finds three users. A
server close to `memory_pool_slots` that relies on eviction may therefore be
unable to restart.

### Runs that refute what the documents say

Each is an expected violation; `PROJECT.json` quotes the line it contradicts.

| Run | What it shows |
|---|---|
| `aof_write_fault` | Failing writes and syncs are only logged; mode `always` then acknowledges a command that is not on disk. |
| `ttl_starvation` | When the store has more keys than `candidates_in` has slots, the keys at the end of the walk may never be sampled. |
| `clock_step_back` | The cut between snapshot and AOF is by `CLOCK_REALTIME`; after the clock is set back, commands issued after the fork look covered by the snapshot. |
| `torn_tail` | A torn entry is not cut off at restart; commands acknowledged later are behind it and are lost at the next restart, in mode `always` too. |
| `snapshot_hole` | A write of the snapshot's keys that fails is not noticed; if the disk has room again at the last flush, a `snapshot.bin` that lacks keys or records is published, and replay skips their commands because they are older than `snapshot_ts`. |

### Other differences between documents and code

Met while modelling; the models follow the code.

- `recovery.rs:10` and `specification.md:677`, `:693`: the flush thread "starts only
  after" recovery. `AOFWriter::open` spawns it, before `recover`. Its ring is empty
  then, so no property depends on it.
- `specification.md:702`: `bind_listen_socket` exits "on any syscall failure", and
  `:694`: "partial initialisation is never left running". The result of `listen` is
  not looked at (`event_loop.rs:62`); `Deaf` is the exception in `SingleWriter`. A
  deaf server replays the log while the other one appends to it, and takes
  snapshots, of the store it recovered and with new timestamps. If one of them
  replaces `snapshot.bin`, the next recovery skips what the other server logged in
  between; `Persistence` has one server and does not show this.
- `specification.md:312`: "At most one snapshot child process alive at any time".
  Each server waits for its own child only. `OneDumperHoldsPort` is what holds
  across servers: at most one of the children that hold the listening socket. A
  child of a deaf server, or the orphan it leaves (`orphans["bound"]`), lives
  beside it, shares `snapshot.tmp` with it and replaces `snapshot.bin`.
- `specification.md:476`, `:477`, `:481`, the order of shutdown: "`close(listen_fd)`"
  comes second, before the last batch; pending `wbuf` is flushed; a snapshot child
  that is still running is waited for. The code closes `listen_fd` last (which is
  what keeps the next server away from the log, `SingleWriter`), closes connections
  without looking at `wbuf` (`Stop` of `Connection`: a reply may be cut off), and does
  not wait for the child, which lives on as an orphan and holds the port.
- `specification.md:265`: the AOF descriptor is "never inherited by snapshot child
  (`O_CLOEXEC`)". It is inherited by fork; the child does not use it.
- `specification.md:713`: an absent default configuration file is "not a fatal error".
  `from_file` returns an error and `main` exits.
- `specification.md:715`: "all numeric fields validated for range".
  `memory_pool_slots`, `snapshot_interval` and the upper end of `ttl_seconds` are not.
- `specification.md:769`: pool exhaustion is "log fatal + exit(1)". It is a panic, and
  the entry stays in the log.

## 4. Environment assumptions

- Persistence with `ClockBack = 0`: two readings of the clock are never equal. It
  has nanosecond resolution and there is a fork or a request between any two
  readings that are compared. With `ClockBack = 1` readings may be equal, and the
  cut is no longer exact.
- The snapshot's rename is durable after a machine crash. The code does not sync
  the directory. Losing the rename leaves the older snapshot, which the AOF,
  never truncated, still completes, unless a process crash had lost entries of
  the ring that only the newer snapshot holds.
- fdatasync makes everything written before it durable, unless `Faulty`.
- In the passing runs no write(2) to the AOF fails, no entry is torn by a crash
  (`Torn`) and no write of a snapshot's body is lost (`Lossy`); the violation runs
  lift one each.
- Servers that share files share the port: `Lifecycle` has one configuration.
- `TtlEviction`: the clock is not set forward. If it is, keys expire early, by the
  clock's own measure rather than against it.
- `FreshStamp` of `TtlEviction`: after the clock was set back, no write meets the very
  nanosecond of an earlier write of the same key that is in `expired_out`.

## 5. Fairness

- `AofRing`: weak fairness of the flush thread and of the steps the event loop has
  begun. Both are threads the kernel schedules; nothing makes a client append or
  a signal arrive.
- `TtlEviction`: weak fairness of time, of the event loop (epoll_wait returns after
  10 s at the latest) and of the worker (it yields but never blocks).
- `Connection`: weak fairness of the event loop; strong fairness of `WriteBytes` per
  descriptor, because a client that waits for its reply reads, so the send
  window opens again and again. Clients are free not to send and to hang up.

- `Lifecycle`: weak fairness of `Start` (somebody, or a supervisor, restarts a server
  that is down), of `main()` of each server, and of the exit of a snapshot child,
  which only writes a file. Crashes, signals and I/O errors are bounded by
  `MaxFaults`: nobody can serve while they never stop. A panic of replay that
  repeats at every start (`RecoverPanic` of `Persistence`) is not in `Lifecycle`.

## 6. Proofs

All hold for every value of the constants allowed by the named assumptions in
the modules. Where a theorem needs an environment assumption of section 4 it is
a hypothesis of the theorem: `Faulty = FALSE`, `ClockBack = 0`, `Torn = FALSE`,
`Lossy = FALSE`. The violation runs show what happens without it.

**SequenceLemmas.** The library's induction theorems take the hypothesis as an
operator, which the provers cannot instantiate. `SetInduction` takes it as a set,
the numbers that have the property, and rests on the least element of a set of
naturals (`LeastNumber`). `SequenceInduction` does the same for sequences, element by
element. From it follow the facts about `FlattenSeq`, a recursive function: what
one more part adds to the end or the front, its type and its length. Recursion in
the models that are proved about is written as recursive functions (`Apply`, `LoadBuf`)
or with `FlattenSeq` (`Only`, `Requests`, `Replies`).

**SPSCQueueProofs.** `ViewsOrdered` is itself inductive with `TypeOK`: in modular
arithmetic, `pt <= tail <= ch <= head <= pt + CAP`. Lemmas `Closer`, `Further` and `Later`
say how `Sub` changes when a counter moves. `RaceFreedom` follows: two positions less than CAP
apart have different slots, because CAP divides the wrap-around. For `FifoRefinement`,
`InFlight` adds what each side holds between two of its steps: the item written and
not published is in its slot, the item read is still the first of the queue. Then
`PushCall` is an offer, `PushPublish` an enqueue, `PopAdvance` a dequeue, a refused push a refusal,
and every other step a stutter.

**AofRingProofs.** `PendingIntact` alone is not inductive: a partly copied entry and
a flush in progress must be known too. `RingInv` adds which cells hold the
part of the entry already copied, that `tail <= fh <= head` while a flush is in
progress, and which program counters occur together in each mode and in
shutdown. From it follow `TypeCorrect`, `PendingIntactAlways` and `DisjointAccessAlways`,
with faults included. `DiskInv` adds how long the file is at each stage of a flush or
a synchronous write, and is inductive when `Faulty` is false:
`FileIsStreamPrefixAlways`, `AckedDurableAlways`, `CleanShutdownAlways`. The lemmas on `%`
(`ModUnique`, `OffsetShift`, `OffsetsDiffer`, `Fragment`) carry the argument for entries
that straddle the end.

**TtlEvictionProofs.** With a clock that goes back, `ForwardedExpired` is not
inductive: it needs that the clock never shows more time since a write than has
really passed. `IdleCounts` says so for every key; a step back only makes the
difference smaller. Then a candidate that the worker finds expired and that
still matches its key belongs to a key idle for more than the TTL (`Late`), a new
write cannot match an old candidate (`FreshStamp`), and the guard `SameWrite` turns
the invariant into `NoFalseEvictionAlways`.

**StoreProofs.** `AllocInv` conjoins `NoAliasing`, `FreeListIntact`, `PanicOnlyIfFull` and
`NoLeak` (every slot is free or owned). They need each other: a push must not hit a
pointer of the list, and the slot taken from it must have no owner; `NoLeak` is
what makes a panic mean that every slot is taken. For the refinement of `EventLog`,
`RingInv` adds that the cells a buffer counts, from `First` on around the ring, hold
records: so GET and the dump never read a pointer or memory never written
(`StoreTypeCorrect`). `PushIndices` follows an index through a push: while the
buffer is not full every index stays and one is added; when it is, the oldest
cell is overwritten and all indices move by one. That is `LastN` of the log
(`LogRefinement`).

**ConnectionProofs.** `Inv` says of every descriptor: which state, registration and
pending event go together, at each point of the batch (`Armed`); how many bytes each
state has read or still has to write (`Buffers`); and that the requests done, the
bytes in the read buffer and those in the socket are the stream, and the
replies likewise (`Framed`). `LoopInv` is about the batch itself. A byte is known by its request and
position, so `Framed` also excludes bytes of an earlier connection on the same
descriptor. The message lengths are any positive numbers, so one read may end anywhere.

**PersistenceProofs.** Five invariants, each from those before it:

| Invariant | Says | Needs | Gives |
|---|---|---|---|
| `Types`, `SnapInv` | one child writes `snapshot.tmp` at a time, and what it wrote is its own image, or what write errors left of it | nothing | `PersistenceTypeCorrect`, `SnapshotAlwaysFromOneChild` |
| `HistInv` | the history is in the order of its numbers; no image is ahead of it | nothing | the ones below |
| `CutInv` | the timestamp of an image divides the commands as its number does | `ClockBack = 0` | `SnapshotCutAlwaysExact`, with `Lossy = FALSE` |
| `LogInv` | file and ring are in order, of the history, and continue the snapshot without a gap | `Torn = FALSE`, `Lossy = FALSE` | `SurvivorsAlwaysPrefix`, `AlwaysModeLosesNothing`, `ShutdownNeverLoses` |
| `StoreInv` | the store is the history applied, an image the part of it up to its number | all three | `StoreAlwaysHistory`, `RecoveryAlwaysFits` |

Recovery is the step that is not local: it applies a suffix of the file to an
image and must reach what the shortened history gives from an empty store.
`SortedUnique` (a sequence in order is determined by its elements) reduces the
equality of the two sequences to one of sets, which `CutInv` and `LogInv` give, and
`ApplyConcat` (applying two parts in turn is applying their concatenation)
does the rest. `ImagesStep` and `HistStep` say what any step does to the images and to the
history, so that each invariant is proved once per kind of step. The invariants speak of the
image that the header was written for; `WholeUnlessLossy` says that the body is
that image, and is used where recovery reads it. The hypotheses are needed: TLC
has a counterexample for each (runs `torn_tail`, `clock_step_back`, `snapshot_hole`).

**LifecycleProofs.** `SingleWriter` and `OneDumperHoldsPort` follow from `PortInv`: which state
the socket has at each program counter (`SockOfPc`), and that of all servers and
orphans one server with its child, or else one orphan, holds a listening socket
(`OneListener`). It is inductive because `Bind` and `Listen` both look for a
listening socket, because a server has the log open only between `Listen` and
`CloseSockets`, and because a child gets the socket of its parent.

The inductive invariants of `AofRing` and `Store`, and the four invariants of
`Persistence` below `SnapInv`, were checked with TLC on small instances before they were
proved.

Only model-checked: the liveness properties (`SpinEnds`, `ShutdownEnds`, `EvictedEventually`, `StopEnds`,
`AnsweredEventually`, `ServesAgain`, `SignalStops`), which are out of the prover's reach.
Every invariant, the action property and both refinements that the passing
runs check are theorems.

## 7. Plan

Done: the modules above, in the order SPSC queue, AOF ring, TTL eviction,
persistence, store, connections, lifecycle, with proofs of the safety
properties of each; pool exhaustion, children that outlive their server, clocks set back, configuration.

Further models would be finer, not wider: holes of a snapshot body that displace
the bytes behind them; the outcomes of a torn entry in the middle of the file
that are not "stop"; a rename that a machine crash undoes; the files under a
server and a deaf one that both dump.

Next, proofs:
1. What a crash costs in mode `ring`: only commands that were in the ring or not
   yet synced are lost, from `LogInv`.
2. What is left of the cut when the clock is set back, and of the log when one
   write is torn or lost: the part of each property that needs no hypothesis.
3. `TtlEviction` as a composition: its queues as instances of `BoundedFifo`.

## 8. Not modelled

Constants, record layout, error types, the build script and the benchmarks: no
state that changes, or not part of the server. TOML parsing is one Boolean.
Servers with different ports and the same files are left out: nothing in the
code keeps them apart. Byte layouts of requests, entries and snapshots are abstracted to what
the properties distinguish. mmap, allocation layouts and destructors of the
allocators, socket options, and logging are left out. The hazards without a
property in `PROJECT.json` carry a note with the reason.

## 9. Running

    tlc -workers 2 -config AofRing.cfg AofRing
    tlapm AofRingProofs.tla

and likewise for the other runs, whose modules and configurations `PROJECT.json`
lists. Each passing run takes less than four minutes.
