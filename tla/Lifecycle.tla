----------------------------- MODULE Lifecycle -----------------------------
(***************************************************************************)
(* Server processes from start to exit: configuration (src/config.rs), the  *)
(* order of startup and the signal handlers (src/main.rs), the listening    *)
(* socket (bind_listen_socket), the order of EventLoop::shutdown and the    *)
(* snapshot child (src/snapshot.rs), which inherits the descriptors of its  *)
(* parent and outlives it: SOCK_CLOEXEC acts at exec, not at fork.          *)
(*                                                                          *)
(* Several servers may be started, by hand or by a supervisor, with one     *)
(* configuration.  Nothing locks the append-only file and the snapshot:     *)
(* what keeps two servers apart is the port, and the questions here are     *)
(* whether it does, and whether it is ever free again.                      *)
(***************************************************************************)
EXTENDS Integers

CONSTANTS
    Server,                     \* the servers somebody tries to keep running
    COMPILED_N,                 \* records per user this binary is built for
    MAX_RECORDS_PROTOCOL_LIMIT,
    MEMORY_POOL_SLOTS_DEFAULT,
    MaxFaults                   \* bound: crashes, signals and I/O errors

\* The static assertion of constants.rs.
ASSUME LimitAssumption ==
    /\ COMPILED_N \in Nat /\ MAX_RECORDS_PROTOCOL_LIMIT \in Nat
    /\ COMPILED_N <= MAX_RECORDS_PROTOCOL_LIMIT
ASSUME BoundAssumption == MaxFaults \in Nat /\ MEMORY_POOL_SLOTS_DEFAULT \in Nat \ {0}

VARIABLES
    conf,       \* the configuration file
    pc,         \* per server: where main() is
    sock,       \* per server: listen_fd, "none", "bound" or "listening"
    flag,       \* per server: shutdown_flag
    child,      \* per server: its snapshot child is alive
    orphans,    \* snapshot children whose server is gone, by the socket they hold
    faults      \* crashes, signals and errors still to come

vars == <<conf, pc, sock, flag, child, orphans, faults>>

-----------------------------------------------------------------------------
\* Configuration.

\* An optional field that the file does not have.
Absent == -1

\* The file, with one value of each field for each outcome of its checks.
RawConfig ==
    [parses : BOOLEAN,      \* it can be read and has the required fields
     max_records : {COMPILED_N, MAX_RECORDS_PROTOCOL_LIMIT + 1},
     ttl_seconds : {0, 1},
     aof_path : {"", "aof"},
     snapshot_path : {"", "dir"},
     memory_pool_slots : {Absent, 0},
     aof_fsync : {"absent", "always", "other"}]

\* default_pool_slots, default_fsync
Slots == IF conf.memory_pool_slots = Absent THEN MEMORY_POOL_SLOTS_DEFAULT
                                            ELSE conf.memory_pool_slots
Fsync == IF conf.aof_fsync = "absent" THEN "everysec" ELSE conf.aof_fsync

\* Config::from_file and Config::validate: memory_pool_slots is not looked at.
Valid ==
    /\ conf.parses
    /\ conf.max_records = COMPILED_N
    /\ conf.max_records <= MAX_RECORDS_PROTOCOL_LIMIT
    /\ conf.ttl_seconds # 0
    /\ conf.aof_path # "" /\ conf.snapshot_path # ""
    /\ Fsync \in {"always", "everysec", "no"}

\* A child is forked with its server's socket, which listens unless listen()
\* failed.
Held == {"bound", "listening"}
NoOrphans == [k \in Held |-> 0]

Init ==
    /\ conf \in RawConfig
    /\ pc = [s \in Server |-> "off"]
    /\ sock = [s \in Server |-> "none"]
    /\ flag = [s \in Server |-> FALSE]
    /\ child = [s \in Server |-> FALSE]
    /\ orphans = NoOrphans
    /\ faults = MaxFaults

-----------------------------------------------------------------------------
\* What the kernel does.

\* The process is gone and its descriptors with it; a child lives on.
Exit(s) ==
    /\ pc' = [pc EXCEPT ![s] = "off"]
    /\ sock' = [sock EXCEPT ![s] = "none"]
    /\ flag' = [flag EXCEPT ![s] = FALSE]
    /\ child' = [child EXCEPT ![s] = FALSE]
    /\ orphans' = IF child[s] THEN [orphans EXCEPT ![sock[s]] = @ + 1] ELSE orphans

\* Another socket listens on the port.  SO_REUSEADDR lets bind() and listen()
\* pass over any socket that does not.
PortTaken == (\E s \in Server : sock[s] = "listening") \/ orphans["listening"] > 0

Fault == faults > 0 /\ faults' = faults - 1

Goto(s, from, to) == pc[s] = from /\ pc' = [pc EXCEPT ![s] = to]

-----------------------------------------------------------------------------
\* main(), step by step.

Start(s) ==
    /\ Goto(s, "off", "load")
    /\ UNCHANGED <<conf, sock, flag, child, orphans, faults>>

\* Config::from_args
Load(s) ==
    /\ \/ Valid /\ Goto(s, "load", "store") /\ UNCHANGED <<sock, flag, child, orphans>>
       \/ ~Valid /\ pc[s] = "load" /\ Exit(s)
    /\ UNCHANGED <<conf, faults>>

\* Records per user up to which the store uses a slab, not a MemoryPool.
SlabRecords == 200

\* Store::with_pool_slots.  Without slots MemoryPool::new panics; the slab asks
\* for a layout of size zero, and whether it gets an address is undefined.
NewStore(s) ==
    /\ \/ /\ Goto(s, "store", "bind")
          /\ Slots > 0 \/ COMPILED_N <= SlabRecords
          /\ UNCHANGED <<sock, flag, child, orphans>>
       \/ pc[s] = "store" /\ Slots = 0 /\ Exit(s)
    /\ UNCHANGED <<conf, faults>>

\* bind_listen_socket: the result of bind() is asserted ...
MBind(s) ==
    /\ Goto(s, "bind", "listen")
    /\ sock' = [sock EXCEPT ![s] = "listening"]
    /\ UNCHANGED <<conf, flag, child, orphans, faults>>
Bind(s) ==
    /\ \/ /\ ~PortTaken
          /\ Goto(s, "bind", "listen")
          /\ sock' = [sock EXCEPT ![s] = "bound"]
          /\ UNCHANGED <<flag, child, orphans>>
       \/ PortTaken /\ pc[s] = "bind" /\ Exit(s)
    /\ UNCHANGED <<conf, faults>>

\* ... that of listen() is not used: startup goes on with a socket that will
\* never have a connection to accept.
Listen(s) ==
    /\ Goto(s, "listen", "open")
    /\ sock' = IF PortTaken THEN sock ELSE [sock EXCEPT ![s] = "listening"]
    /\ UNCHANGED <<conf, flag, child, orphans, faults>>

\* AOFWriter::open
OpenAof(s) ==
    /\ \/ Goto(s, "open", "handlers") /\ UNCHANGED <<sock, flag, child, orphans, faults>>
       \/ pc[s] = "open" /\ Fault /\ Exit(s)
    /\ UNCHANGED conf

InstallHandlers(s) ==
    /\ Goto(s, "handlers", "recover")
    /\ UNCHANGED <<conf, sock, flag, child, orphans, faults>>

\* recover(), with exit(1) on an error, then EventLoop::new.
MRecover(s) ==
    /\ Goto(s, "recover", "top")
    /\ flag' = [flag EXCEPT ![s] = FALSE]
    /\ UNCHANGED <<conf, sock, child, orphans, faults>>
Recover(s) ==
    /\ \/ Goto(s, "recover", "top") /\ UNCHANGED <<sock, flag, child, orphans, faults>>
       \/ pc[s] = "recover" /\ Fault /\ Exit(s)
    /\ UNCHANGED conf

\* EventLoop::run: the flag is read at the top of each iteration.
MRunTop(s) ==
    /\ \/ ~flag[s] /\ Goto(s, "top", "tick") /\ UNCHANGED sock
       \/ flag[s] /\ Goto(s, "top", "stop") /\ sock' = [sock EXCEPT ![s] = "none"]
    /\ UNCHANGED <<conf, flag, child, orphans, faults>>
RunTop(s) ==
    /\ \/ ~flag[s] /\ Goto(s, "top", "tick")
       \/ flag[s] /\ Goto(s, "top", "stop")
    /\ UNCHANGED <<conf, sock, flag, child, orphans, faults>>

\* The rest of an iteration; maybe_fork starts a child if none is running.
Tick(s) ==
    /\ Goto(s, "tick", "top")
    /\ \/ UNCHANGED child
       \/ ~child[s] /\ child' = [child EXCEPT ![s] = TRUE]
    /\ UNCHANGED <<conf, sock, flag, orphans, faults>>

\* shutdown(): TTLEvictionWorker::stop and AOFWriter::shutdown ...
StopAof(s) ==
    /\ Goto(s, "stop", "close")
    /\ UNCHANGED <<conf, sock, flag, child, orphans, faults>>

\* ... and, last, the sockets; main() returns.
MCloseSockets(s) ==
    /\ Goto(s, "close", "off")
    /\ UNCHANGED <<conf, sock, flag, child, orphans, faults>>
CloseSockets(s) ==
    /\ pc[s] = "close" /\ Exit(s)
    /\ UNCHANGED <<conf, faults>>

-----------------------------------------------------------------------------
\* _exit(0) of a snapshot child.

ChildExit(s) ==
    /\ child[s] /\ child' = [child EXCEPT ![s] = FALSE]
    /\ UNCHANGED <<conf, pc, sock, flag, orphans, faults>>

MOrphanExit(k) ==
    /\ orphans[k] > 1 /\ orphans' = [orphans EXCEPT ![k] = @ - 1]
    /\ UNCHANGED <<conf, pc, sock, flag, child, faults>>
OrphanExit(k) ==
    /\ orphans[k] > 0 /\ orphans' = [orphans EXCEPT ![k] = @ - 1]
    /\ UNCHANGED <<conf, pc, sock, flag, child, faults>>

\* SIGTERM or SIGINT: fatal until the handlers are installed, then a flag.
Handled(s) == pc[s] \in {"recover", "top", "tick", "stop", "close"}
Signal(s) ==
    /\ pc[s] # "off" /\ ~flag[s] /\ Fault
    /\ \/ Handled(s) /\ flag' = [flag EXCEPT ![s] = TRUE] /\ UNCHANGED <<pc, sock, child, orphans>>
       \/ ~Handled(s) /\ Exit(s)
    /\ UNCHANGED conf

\* SIGKILL, a panic, the out-of-memory killer.
Crash(s) ==
    /\ pc[s] # "off" /\ Fault /\ Exit(s)
    /\ UNCHANGED conf

CrashMachine ==
    /\ Fault
    /\ pc' = [s \in Server |-> "off"] /\ sock' = [s \in Server |-> "none"]
    /\ flag' = [s \in Server |-> FALSE] /\ child' = [s \in Server |-> FALSE]
    /\ orphans' = NoOrphans
    /\ UNCHANGED conf

Main(s) ==
    \/ Load(s) \/ NewStore(s) \/ Bind(s) \/ Listen(s) \/ OpenAof(s) \/ InstallHandlers(s)
    \/ Recover(s) \/ RunTop(s) \/ Tick(s) \/ StopAof(s) \/ CloseSockets(s)
Children == (\E s \in Server : ChildExit(s)) \/ (\E k \in Held : OrphanExit(k))
Faults == (\E s \in Server : Signal(s) \/ Crash(s)) \/ CrashMachine

Next == (\E s \in Server : Start(s) \/ Main(s)) \/ Children \/ Faults

\* Somebody restarts a server that is down, processes are scheduled, and a
\* child finishes its dump.
Fairness ==
    /\ \A s \in Server : WF_vars(Start(s)) /\ WF_vars(Main(s)) /\ WF_vars(ChildExit(s))
    /\ WF_vars(OrphanExit("listening"))

Spec == Init /\ [][Next]_vars /\ Fairness

-----------------------------------------------------------------------------
TypeOK ==
    /\ conf \in RawConfig
    /\ pc \in [Server -> {"off", "load", "store", "bind", "listen", "open", "handlers",
                          "recover", "top", "tick", "stop", "close"}]
    /\ sock \in [Server -> {"none", "bound", "listening"}]
    /\ flag \in [Server -> BOOLEAN] /\ child \in [Server -> BOOLEAN]
    /\ orphans \in [Held -> Nat]
    /\ faults \in 0 .. MaxFaults
    /\ \A s \in Server : pc[s] = "off" => sock[s] = "none"

\* The append-only file is open, for appending or for the last flush.
AofOpen(s) == pc[s] \in {"handlers", "recover", "top", "tick", "stop"}

\* listen() failed and nobody noticed: the server runs, but without clients.
Deaf(s) == sock[s] = "bound" /\ pc[s] # "listen"

\* "Hold the port while we load data": of two servers that have the log open,
\* whatever moment they were started at and however the earlier one ended, one
\* is deaf.  So at most one appends commands; a deaf one has no clients, but it
\* replays the log, and dumps what it replayed, while the other appends.
SingleWriter ==
    \A s, t \in Server : s # t /\ AofOpen(s) /\ AofOpen(t) => Deaf(s) \/ Deaf(t)

\* Of the snapshot children that hold the listening socket at most one is alive,
\* and none of an earlier server is left once a server listens, and so before it
\* reads snapshot.bin.  A child of a deaf server, alive or an orphan, holds no
\* such socket and replaces snapshot.bin like any other: "At most one snapshot
\* child process alive at any time" holds only as long as no listen() failed.
OneDumperHoldsPort ==
    /\ orphans["listening"] <= 1
    /\ \A s \in Server : sock[s] = "listening" => orphans["listening"] = 0
    /\ \A s, t \in Server :
          child[s] /\ sock[s] = "listening" /\ sock[t] = "listening" => s = t

\* However servers crash and are stopped, with a child left that holds the
\* port or not, one serves clients again in the end.
Serving == \E s \in Server : pc[s] \in {"top", "tick"} /\ sock[s] = "listening"
ServesAgain == Valid /\ Slots > 0 => []<>Serving

\* A stop signal that arrives once the handlers are installed, be it during
\* recovery, is not lost: the process ends.
SignalStops == \A s \in Server : flag[s] ~> pc[s] = "off"
=============================================================================
