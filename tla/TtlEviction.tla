---------------------------- MODULE TtlEviction ----------------------------
(***************************************************************************)
(* TTL eviction: the event loop samples every key into candidates_in, the   *)
(* worker thread (src/ttl.rs) forwards expired candidates to expired_out,   *)
(* and the event loop erases those that were not written since they were    *)
(* sampled (src/event_loop.rs).  The two SPSC queues are the lossy bounded  *)
(* FIFOs of module BoundedFifo, refusing only when full.                    *)
(*                                                                          *)
(* Of a key only last_write_ts matters.  CLOCK_REALTIME may be set back;    *)
(* the ghost idle counts the time that really passed.  The clock stops at   *)
(* the bound MaxNow, where time still passes but is no longer counted: a    *)
(* collection is due there once the worker has emptied its queue, which     *)
(* takes it milliseconds of the ten seconds between two collections.        *)
(***************************************************************************)
EXTENDS Integers, Sequences

CONSTANTS
    Keys,       \* user ids are 1 .. Keys, in the map's iteration order
    TTL,        \* ttl_ns
    Interval,   \* TTL_COLLECT_INTERVAL_S
    InCap,      \* CANDIDATES_IN_CAP
    OutCap,     \* EXPIRED_KEYS_CAP
    MaxNow,     \* bound: the last instant the clock shows
    MaxBacks    \* bound: how often the clock is set back

ASSUME KeysAssumption == Keys \in Nat
ASSUME TimeAssumption == TTL \in Nat /\ Interval \in Nat /\ MaxNow \in Nat /\ MaxBacks \in Nat
ASSUME HorizonAssumption == Interval <= MaxNow
ASSUME CapAssumption == InCap \in Nat \ {0} /\ OutCap \in Nat \ {0}

Uid == 1 .. Keys
Absent == -1
Candidate == [uid : Uid, ts : Nat]
NoCandidate == [uid |-> 0, ts |-> 0]

VARIABLES
    now,            \* now_ns()
    backs,          \* how often the clock may still be set back
    idle,           \* ghost: time passed since the last write, up to TTL + 1
    store,          \* last_write_ts per uid, Absent for a key not in the map
    lastCollect,    \* last_ttl_collect
    candidates_in, expired_out,
    epc,            \* event loop: "top", "drain", "scan", "serve", "join",
                    \* "stopped"
    scan,           \* for_each: the next uid to visit
    shutdown_flag,
    running,        \* the worker's stop flag
    wpc,            \* worker: "pop", "judge", "done"
    held,           \* worker: the candidate popped
    final           \* worker: in the drain after the loop

clock == <<now, backs, idle>>
loop == <<epc, scan, lastCollect>>
worker == <<wpc, held, final>>
vars == <<clock, store, candidates_in, expired_out, shutdown_flag, running, loop, worker>>

\* More than TTL is all the same.
UpToTTL(t) == IF t > TTL THEN TTL + 1 ELSE t

\* A store as recovery leaves it, an empty pipeline, a worker just spawned.
Init ==
    /\ now = Interval /\ backs = MaxBacks
    /\ store \in [Uid -> {Absent, 0}]
    /\ idle = [u \in Uid |-> IF store[u] = Absent THEN 0 ELSE UpToTTL(Interval)]
    /\ lastCollect = 0
    /\ candidates_in = <<>> /\ expired_out = <<>>
    /\ epc = "top" /\ scan = 1
    /\ shutdown_flag = FALSE /\ running = TRUE
    /\ wpc = "pop" /\ held = NoCandidate /\ final = FALSE

-----------------------------------------------------------------------------
\* SPSCQueue::push on a queue of capacity cap: dropped when full.
MPushed(q, cap, c) == Append(q, c)
Pushed(q, cap, c) == IF Len(q) < cap THEN Append(q, c) ELSE q

Tick ==
    /\ now < MaxNow
    /\ now' = now + 1
    /\ idle' = [u \in Uid |-> IF store[u] = Absent THEN 0 ELSE UpToTTL(idle[u] + 1)]
    /\ UNCHANGED <<backs, store, candidates_in, expired_out, shutdown_flag, running, loop, worker>>

\* An administrator or NTP sets CLOCK_REALTIME back.
StepBack ==
    /\ backs > 0 /\ backs' = backs - 1
    /\ now' \in 0 .. now - 1
    /\ UNCHANGED <<idle, store, candidates_in, expired_out, shutdown_flag, running, loop, worker>>

\* handle_signal()
Signal ==
    /\ ~shutdown_flag
    /\ shutdown_flag' = TRUE
    /\ UNCHANGED <<clock, store, candidates_in, expired_out, running, loop, worker>>

-----------------------------------------------------------------------------
\* One tick of EventLoop::run.

RunTop ==
    /\ epc = "top" /\ ~shutdown_flag
    /\ epc' = "drain"
    /\ UNCHANGED <<clock, store, candidates_in, expired_out, shutdown_flag, running, scan,
                   lastCollect, worker>>

\* The false-eviction guard of drain_expired_keys.
MSameWrite(c) == store[c.uid] # Absent
SameWrite(c) == store[c.uid] # Absent /\ store[c.uid] = c.ts

DrainPop ==
    /\ epc = "drain" /\ expired_out # <<>>
    /\ expired_out' = Tail(expired_out)
    /\ LET c == Head(expired_out)
       IN  IF SameWrite(c)
           THEN store' = [store EXCEPT ![c.uid] = Absent] /\ idle' = [idle EXCEPT ![c.uid] = 0]
           ELSE UNCHANGED <<store, idle>>
    /\ UNCHANGED <<now, backs, candidates_in, shutdown_flag, running, loop, worker>>

\* now - last_ttl_collect in u64: huge if the clock is behind (release builds;
\* a debug build panics).
CollectDue ==
    \/ now < lastCollect
    \/ now - lastCollect >= Interval
    \/ now = MaxNow /\ candidates_in = <<>> /\ wpc = "pop"

MCollectStart ==
    /\ epc = "drain" /\ expired_out = <<>>
    /\ IF CollectDue
       THEN epc' = "scan" /\ lastCollect' = now
       ELSE epc' = "serve" /\ UNCHANGED lastCollect
    /\ UNCHANGED scan
    /\ UNCHANGED <<clock, store, candidates_in, expired_out, shutdown_flag, running, worker>>
CollectStart ==
    /\ epc = "drain" /\ expired_out = <<>>
    /\ IF CollectDue
       THEN epc' = "scan" /\ scan' = 1 /\ lastCollect' = now
       ELSE epc' = "serve" /\ UNCHANGED <<scan, lastCollect>>
    /\ UNCHANGED <<clock, store, candidates_in, expired_out, shutdown_flag, running, worker>>

\* for_each: the keys of the map in order; the result of push is not used.
ScanKey ==
    /\ epc = "scan" /\ scan \in Uid
    /\ candidates_in' =
          IF store[scan] = Absent THEN candidates_in
          ELSE Pushed(candidates_in, InCap, [uid |-> scan, ts |-> store[scan]])
    /\ scan' = scan + 1
    /\ UNCHANGED <<clock, store, expired_out, shutdown_flag, running, epc, lastCollect, worker>>

ScanDone ==
    /\ epc = "scan" /\ scan \notin Uid
    /\ epc' = "serve"
    /\ UNCHANGED <<clock, store, candidates_in, expired_out, shutdown_flag, running, scan,
                   lastCollect, worker>>

\* The clock has nanoseconds: even after it was set back, a write does not meet
\* the very instant of an earlier one that is on its way to be evicted.
FreshStamp(u) ==
    \A i \in 1 .. Len(expired_out) : expired_out[i] # [uid |-> u, ts |-> now]

\* The batch epoll_wait returned: PUSH and DEL commands, then the next tick.
Push(u) ==
    /\ epc = "serve" /\ FreshStamp(u)
    /\ store' = [store EXCEPT ![u] = now]
    /\ idle' = [idle EXCEPT ![u] = 0]
    /\ UNCHANGED <<now, backs, candidates_in, expired_out, shutdown_flag, running, loop, worker>>

Del(u) ==
    /\ epc = "serve"
    /\ store' = [store EXCEPT ![u] = Absent]
    /\ idle' = [idle EXCEPT ![u] = 0]
    /\ UNCHANGED <<now, backs, candidates_in, expired_out, shutdown_flag, running, loop, worker>>

ServeDone ==
    /\ epc = "serve"
    /\ epc' = "top"
    /\ UNCHANGED <<clock, store, candidates_in, expired_out, shutdown_flag, running, scan,
                   lastCollect, worker>>

\* shutdown() calls TTLEvictionWorker::stop(): clear the flag, join.
Stop ==
    /\ epc = "top" /\ shutdown_flag
    /\ running' = FALSE
    /\ epc' = "join"
    /\ UNCHANGED <<clock, store, candidates_in, expired_out, shutdown_flag, scan,
                   lastCollect, worker>>

Joined ==
    /\ epc = "join" /\ wpc = "done"
    /\ epc' = "stopped"
    /\ UNCHANGED <<clock, store, candidates_in, expired_out, shutdown_flag, running, scan,
                   lastCollect, worker>>

-----------------------------------------------------------------------------
\* The worker: eviction_loop() and drain_batch().

WorkerPop ==
    /\ wpc = "pop" /\ candidates_in # <<>>
    /\ held' = Head(candidates_in)
    /\ candidates_in' = Tail(candidates_in)
    /\ wpc' = "judge"
    /\ UNCHANGED <<clock, store, expired_out, shutdown_flag, running, loop, final>>

\* saturating_sub: a timestamp ahead of the clock has age zero.
Age(t) == IF now >= t THEN now - t ELSE 0

MExpired(c) == Age(c.ts) >= TTL
Expired(c) == Age(c.ts) > TTL

WorkerJudge ==
    /\ wpc = "judge"
    /\ expired_out' =
          IF Expired(held) THEN Pushed(expired_out, OutCap, held) ELSE expired_out
    /\ held' = NoCandidate
    /\ wpc' = "pop"
    /\ UNCHANGED <<clock, store, candidates_in, shutdown_flag, running, loop, final>>

\* The batch is drained: load the flag; after the final drain, exit.
MWorkerIdle ==
    /\ wpc = "pop" /\ candidates_in = <<>>
    /\ final' = FALSE
    /\ wpc' = "pop"
    /\ UNCHANGED <<clock, store, candidates_in, expired_out, shutdown_flag, running, loop, held>>
WorkerIdle ==
    /\ wpc = "pop" /\ candidates_in = <<>>
    /\ IF final THEN wpc' = "done" /\ UNCHANGED final
                ELSE wpc' = "pop" /\ final' = ~running
    /\ UNCHANGED <<clock, store, candidates_in, expired_out, shutdown_flag, running, loop, held>>

Collect == CollectStart \/ ScanKey \/ ScanDone
Commands == \E u \in Uid : Push(u) \/ Del(u)
EventLoop == RunTop \/ DrainPop \/ Collect \/ ServeDone \/ Stop \/ Joined
Worker == WorkerPop \/ WorkerJudge \/ WorkerIdle
Exited == epc = "stopped" /\ UNCHANGED vars

Next == Tick \/ StepBack \/ Signal \/ EventLoop \/ Commands \/ Worker \/ Exited

\* Time passes, epoll_wait times out, both threads are scheduled.
Spec == Init /\ [][Next]_vars /\ WF_vars(Tick) /\ WF_vars(EventLoop) /\ WF_vars(Worker)

-----------------------------------------------------------------------------
TypeOK ==
    /\ now \in 0 .. MaxNow /\ backs \in 0 .. MaxBacks
    /\ idle \in [Uid -> 0 .. TTL + 1]
    /\ store \in [Uid -> Nat \cup {Absent}]
    /\ lastCollect \in Nat
    /\ candidates_in \in Seq(Candidate) /\ Len(candidates_in) <= InCap
    /\ expired_out \in Seq(Candidate) /\ Len(expired_out) <= OutCap
    /\ epc \in {"top", "drain", "scan", "serve", "join", "stopped"}
    /\ scan \in 1 .. Keys + 1
    /\ shutdown_flag \in BOOLEAN /\ running \in BOOLEAN
    /\ wpc \in {"pop", "judge", "done"}
    /\ held \in Candidate \cup {NoCandidate} /\ final \in BOOLEAN
    /\ wpc = "judge" => held \in Candidate

\* "Zero false positives": however the threads interleave, whatever is written,
\* deleted or written again while a candidate is on its way, and even if the
\* clock is set back meanwhile, the event loop evicts a key only if more than
\* TTL has passed since its last write.
NoFalseEviction ==
    [][\A u \in Uid :
          epc = "drain" /\ store[u] # Absent /\ store'[u] = Absent => idle[u] > TTL]_vars

\* A candidate in expired_out that still matches its key is of a key that has
\* been idle for more than TTL.
ForwardedExpired ==
    \A i \in 1 .. Len(expired_out) :
        LET c == expired_out[i] IN store[c.uid] = c.ts => idle[c.uid] > TTL

\* Every expired key is evicted, if nobody writes or deletes it first and the
\* server is not stopped: neither a full queue, a slow worker nor a clock set
\* back loses it for good.  Writes so near the bound MaxNow that they never
\* expire are left out.
EvictedEventually ==
    \A u \in Uid : \A t \in 0 .. MaxNow - TTL - 1 :
        store[u] = t ~> (store[u] # t \/ shutdown_flag)

\* stop() returns: the worker's final drain ends.
StopEnds == shutdown_flag ~> epc = "stopped"
=============================================================================
