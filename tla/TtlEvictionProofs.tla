------------------------- MODULE TtlEvictionProofs -------------------------
(***************************************************************************)
(* No false eviction, for every number of keys, TTL, interval and capacity  *)
(* of the two queues, and however often the clock is set back.  The         *)
(* inductive invariant is TypeOK (a candidate being judged is a real one)   *)
(* with IdleCounts and ForwardedExpired.                                    *)
(***************************************************************************)
EXTENDS TtlEviction, TLAPS

\* A key has really been idle for as long as its timestamp says, or longer:
\* the clock may have been set back since.
IdleCounts ==
    \A u \in Uid : store[u] # Absent => idle[u] > TTL \/ idle[u] >= now - store[u]

\* What the two queue operations do to a queue of candidates.
LEMMA PushedType ==
  ASSUME NEW q \in Seq(Candidate), NEW cap \in Nat, Len(q) <= cap, NEW c \in Candidate
  PROVE  Pushed(q, cap, c) \in Seq(Candidate) /\ Len(Pushed(q, cap, c)) <= cap
BY DEF Pushed

\* SPSCQueue::pop of a non-empty queue leaves a shorter queue of candidates.
LEMMA PoppedType ==
  ASSUME NEW q \in Seq(Candidate), NEW cap \in Nat, Len(q) <= cap, q # <<>>
  PROVE  Head(q) \in Candidate /\ Tail(q) \in Seq(Candidate) /\ Len(Tail(q)) <= cap
OBVIOUS

\* Every variable keeps its type and both queues their capacity.
LEMMA TypeStep == TypeOK /\ [Next]_vars => TypeOK'
<1> SUFFICES ASSUME TypeOK, [Next]_vars
             PROVE  TypeOK'
  OBVIOUS
<1> USE KeysAssumption, TimeAssumption, HorizonAssumption, CapAssumption DEF TypeOK
<1>1. CASE Tick
  BY <1>1 DEF Tick, UpToTTL, loop, worker
<1>2. CASE Signal
  BY <1>2 DEF Signal, clock, loop, worker
<1>3. CASE RunTop
  BY <1>3 DEF RunTop, clock, worker
<1>4. CASE DrainPop
  <2>1. /\ expired_out' \in Seq(Candidate)
        /\ Len(expired_out') <= OutCap
    BY <1>4, PoppedType DEF DrainPop
  <2> DEFINE c == Head(expired_out)
  <2>2. store' \in [Uid -> Nat \cup {Absent}]
    <3>1. store' = store \/ store' = [store EXCEPT ![c.uid] = Absent]
      BY <1>4 DEF DrainPop
    <3> QED BY <3>1
  <2>3. idle' \in [Uid -> 0 .. TTL + 1]
    <3>1. idle' = idle \/ idle' = [idle EXCEPT ![c.uid] = 0]
      BY <1>4 DEF DrainPop
    <3> QED BY <3>1
  <2> QED
    BY <1>4, <2>1, <2>2, <2>3 DEF DrainPop, loop, worker
<1>5. CASE StepBack
  BY <1>5 DEF StepBack, loop, worker
<1>6. CASE CollectStart
  <2>1. scan' \in 1 .. Keys + 1 /\ lastCollect' \in Nat
    BY <1>6 DEF CollectStart
  <2>2. epc' \in {"scan", "serve"}
    BY <1>6 DEF CollectStart
  <2> QED
    BY <1>6, <2>1, <2>2 DEF CollectStart, clock, worker
<1>7. CASE ScanKey
  <2>1. store[scan] # Absent => [uid |-> scan, ts |-> store[scan]] \in Candidate
    BY <1>7 DEF ScanKey, Candidate, Uid
  <2>2. candidates_in' \in Seq(Candidate) /\ Len(candidates_in') <= InCap
    BY <1>7, <2>1, PushedType DEF ScanKey
  <2>3. scan' \in 1 .. Keys + 1
    BY <1>7 DEF ScanKey, Uid
  <2> QED
    BY <1>7, <2>2, <2>3 DEF ScanKey, clock, worker
<1>8. CASE ScanDone
  BY <1>8 DEF ScanDone, clock, worker
<1>9. CASE ServeDone
  BY <1>9 DEF ServeDone, clock, worker
<1>10. CASE Stop
  BY <1>10 DEF Stop, clock, worker
<1>11. CASE Joined
  BY <1>11 DEF Joined, clock, worker
<1>12. ASSUME NEW u \in Uid, Push(u)
       PROVE  TypeOK'
  BY <1>12 DEF Push, loop, worker
<1>13. ASSUME NEW u \in Uid, Del(u)
       PROVE  TypeOK'
  BY <1>13 DEF Del, loop, worker
<1>14. CASE WorkerPop
  <2>1. /\ held' \in Candidate
        /\ candidates_in' \in Seq(Candidate)
        /\ Len(candidates_in') <= InCap
    BY <1>14, PoppedType DEF WorkerPop
  <2> QED
    BY <1>14, <2>1 DEF WorkerPop, clock, loop
<1>15. CASE WorkerJudge
  <2>1. expired_out' \in Seq(Candidate) /\ Len(expired_out') <= OutCap
    BY <1>15, PushedType DEF WorkerJudge
  <2> QED
    BY <1>15, <2>1 DEF WorkerJudge, clock, loop
<1>16. CASE WorkerIdle
  <2>1. wpc' \in {"pop", "done"} /\ final' \in BOOLEAN
    BY <1>16 DEF WorkerIdle
  <2> QED
    BY <1>16, <2>1 DEF WorkerIdle, clock, loop
<1>17. CASE UNCHANGED vars
  BY <1>17 DEF vars, clock, loop, worker
<1>18. CASE Exited
  BY <1>17, <1>18 DEF Exited
<1> QED
  BY <1>1, <1>2, <1>3, <1>4, <1>5, <1>6, <1>7, <1>8, <1>9, <1>10, <1>11, <1>12, <1>13,
     <1>14, <1>15, <1>16, <1>17, <1>18
     DEF Next, EventLoop, Collect, Commands, Worker

\* The types hold in every reachable state.
THEOREM TypeCorrect == Spec => []TypeOK
<1>1. Init => TypeOK
  <2> SUFFICES ASSUME Init
               PROVE  TypeOK
    OBVIOUS
  <2> USE KeysAssumption, TimeAssumption, HorizonAssumption, CapAssumption DEF Init
  <2>1. store \in [Uid -> Nat \cup {Absent}]
    OBVIOUS
  <2>2. now \in 0 .. MaxNow /\ idle \in [Uid -> 0 .. TTL + 1] /\ scan \in 1 .. Keys + 1
    BY DEF UpToTTL
  <2>3. /\ candidates_in \in Seq(Candidate) /\ Len(candidates_in) <= InCap
        /\ expired_out \in Seq(Candidate) /\ Len(expired_out) <= OutCap
    OBVIOUS
  <2>4. backs \in 0 .. MaxBacks /\ lastCollect \in Nat
    OBVIOUS
  <2>5. /\ epc = "top" /\ wpc = "pop" /\ held = NoCandidate
        /\ shutdown_flag = FALSE /\ running = TRUE /\ final = FALSE
    BY Zenon
  <2> HIDE DEF Init
  <2> QED
    BY <2>1, <2>2, <2>3, <2>4, <2>5 DEF TypeOK
<1> QED
  BY <1>1, TypeStep, PTL DEF Spec

-----------------------------------------------------------------------------
\* Only these actions concern a key, its timestamp or the clock.
LEMMA Concerned ==
  ASSUME [Next]_vars
  PROVE  \/ Tick \/ StepBack \/ DrainPop \/ WorkerJudge
         \/ \E u \in Uid : Push(u) \/ Del(u)
         \/ UNCHANGED <<now, idle, store, expired_out>>
BY DEF Next, EventLoop, Collect, Commands, Worker, Exited, vars, clock, loop, worker,
       Signal, RunTop, CollectStart, ScanKey, ScanDone, ServeDone, Stop,
       Joined, WorkerPop, WorkerIdle

\* A write starts the count, time adds to it and to the age alike, setting the
\* clock back only lowers the age.
LEMMA IdleStep == TypeOK /\ IdleCounts /\ [Next]_vars => IdleCounts'
<1> SUFFICES ASSUME TypeOK, IdleCounts, [Next]_vars, NEW u \in Uid, store'[u] # Absent
             PROVE  (idle[u] > TTL \/ idle[u] >= now - store[u])'
  BY DEF IdleCounts
<1> USE TimeAssumption
<1>1. now \in Nat /\ store[u] \in Nat \cup {Absent} /\ idle[u] \in 0 .. TTL + 1
  BY DEF TypeOK
<1>2. CASE Tick
  <2>1. store'[u] = store[u] /\ now' = now + 1 /\ idle'[u] = UpToTTL(idle[u] + 1)
    BY <1>2 DEF Tick
  <2>2. idle[u] > TTL \/ idle[u] >= now - store[u]
    BY <2>1 DEF IdleCounts
  <2> QED BY <1>1, <2>1, <2>2 DEF UpToTTL, Absent
<1>3. CASE StepBack
  <2>1. store' = store /\ idle' = idle /\ now' \in 0 .. now - 1
    BY <1>3 DEF StepBack
  <2>2. idle[u] > TTL \/ idle[u] >= now - store[u]
    BY <2>1 DEF IdleCounts
  <2> QED BY <1>1, <2>1, <2>2 DEF Absent
<1>4. CASE DrainPop
  <2>1. store'[u] = store[u] /\ idle'[u] = idle[u] /\ now' = now
    BY <1>4 DEF DrainPop, TypeOK
  <2> QED BY <2>1 DEF IdleCounts
<1>5. ASSUME NEW v \in Uid, Push(v)
      PROVE  (idle[u] > TTL \/ idle[u] >= now - store[u])'
  <2>1. CASE u = v
    <3>1. store'[u] = now /\ idle'[u] = 0 /\ now' = now
      BY <1>5, <2>1 DEF Push, TypeOK
    <3> QED BY <1>1, <3>1
  <2>2. CASE u # v
    <3>1. store'[u] = store[u] /\ idle'[u] = idle[u] /\ now' = now
      BY <1>5, <2>2 DEF Push, TypeOK
    <3> QED BY <3>1 DEF IdleCounts
  <2> QED BY <2>1, <2>2
<1>6. ASSUME NEW v \in Uid, Del(v)
      PROVE  (idle[u] > TTL \/ idle[u] >= now - store[u])'
  <2>1. store'[u] = store[u] /\ idle'[u] = idle[u] /\ now' = now
    BY <1>6 DEF Del, TypeOK
  <2> QED BY <2>1 DEF IdleCounts
<1>7. CASE WorkerJudge \/ UNCHANGED <<now, idle, store, expired_out>>
  <2>1. store' = store /\ idle' = idle /\ now' = now
    BY <1>7 DEF WorkerJudge, clock
  <2> QED BY <2>1 DEF IdleCounts
<1> QED BY <1>2, <1>3, <1>4, <1>5, <1>6, <1>7, Concerned

\* The count of idle time is right in every reachable state.
LEMMA IdleCountsAlways == Spec => []IdleCounts
<1>1. Init => IdleCounts
  BY TimeAssumption DEF Init, IdleCounts, UpToTTL, Absent
<1> QED
  BY <1>1, IdleStep, TypeCorrect, PTL DEF Spec

-----------------------------------------------------------------------------
\* What holds of one candidate: its key has expired, or was written since.
Late(c) == store[c.uid] = c.ts => idle[c.uid] > TTL

\* Only the worker adds to expired_out, and what it adds has expired; a new
\* write of the key has another timestamp, and time only makes it older.
LEMMA ForwardedStep ==
    TypeOK /\ IdleCounts /\ ForwardedExpired /\ [Next]_vars => ForwardedExpired'
<1> SUFFICES ASSUME TypeOK, IdleCounts, ForwardedExpired, [Next]_vars
             PROVE  ForwardedExpired'
  OBVIOUS
<1> USE KeysAssumption, TimeAssumption
<1>1. /\ now \in Nat /\ store \in [Uid -> Nat \cup {Absent}] /\ idle \in [Uid -> 0 .. TTL + 1]
      /\ expired_out \in Seq(Candidate)
  BY DEF TypeOK
<1>2. \A i \in 1 .. Len(expired_out) :
         /\ expired_out[i] \in Candidate /\ expired_out[i].uid \in Uid /\ expired_out[i].ts \in Nat
         /\ Late(expired_out[i])
  <2>1. \A i \in 1 .. Len(expired_out) : expired_out[i] \in Candidate
    BY <1>1
  <2> QED BY <2>1 DEF ForwardedExpired, Late, Candidate
<1>3. ASSUME expired_out' = expired_out,
             \A c \in Candidate : c.uid \in Uid /\ c.ts \in Nat /\ Late(c) /\
                 (\E i \in 1 .. Len(expired_out) : c = expired_out[i]) => Late(c)'
      PROVE  ForwardedExpired'
  BY <1>2, <1>3 DEF ForwardedExpired, Late
<1>4. CASE Tick
  <2>1. ASSUME NEW c \in Candidate, c.uid \in Uid, Late(c) PROVE Late(c)'
    <3>1. store' = store /\ (store[c.uid] # Absent => idle'[c.uid] = UpToTTL(idle[c.uid] + 1))
      BY <1>4, <2>1 DEF Tick
    <3>2. c.ts \in Nat
      BY DEF Candidate
    <3>3. idle[c.uid] > TTL => UpToTTL(idle[c.uid] + 1) > TTL
      BY <1>1, <2>1 DEF UpToTTL
    <3> QED BY <2>1, <3>1, <3>2, <3>3 DEF Late, Absent
  <2> QED BY <1>3, <1>4, <2>1 DEF Tick
<1>5. CASE StepBack
  BY <1>3, <1>5 DEF StepBack, Late
<1>6. CASE DrainPop
  <2>1. expired_out' = Tail(expired_out) /\ expired_out # <<>>
    BY <1>6 DEF DrainPop
  <2>2. \A i \in 1 .. Len(expired_out') :
           /\ i + 1 \in 1 .. Len(expired_out)
           /\ expired_out'[i] = expired_out[i + 1]
    BY <1>1, <2>1
  <2>3. ASSUME NEW c \in Candidate, c.uid \in Uid, c.ts \in Nat, Late(c) PROVE Late(c)'
    <3>1. CASE store'[c.uid] = store[c.uid] /\ idle'[c.uid] = idle[c.uid]
      BY <2>3, <3>1 DEF Late
    <3>2. CASE store'[c.uid] = Absent
      BY <2>3, <3>2 DEF Late, Absent
    <3> QED BY <1>1, <1>6, <2>3, <3>1, <3>2 DEF DrainPop
  <2> QED
    BY <1>2, <2>2, <2>3 DEF ForwardedExpired, Late
<1>7. ASSUME NEW u \in Uid, Push(u)
      PROVE  ForwardedExpired'
  <2>1. expired_out' = expired_out
    BY <1>7 DEF Push
  <2>2. ASSUME NEW i \in 1 .. Len(expired_out)
        PROVE  Late(expired_out[i])'
    <3> DEFINE c == expired_out[i]
    <3>1. c \in Candidate /\ c.uid \in Uid /\ Late(c)
      BY <1>2
    <3>2. CASE c.uid = u
      <4>1. c = [uid |-> c.uid, ts |-> c.ts]
        BY <3>1 DEF Candidate
      <4>2. c.ts # now
        BY <1>7, <3>2, <4>1 DEF Push, FreshStamp
      <4>3. store'[u] = now
        BY <1>1, <1>7 DEF Push
      <4> QED BY <2>1, <3>2, <4>2, <4>3 DEF Late
    <3>3. CASE c.uid # u
      <4>1. store'[c.uid] = store[c.uid] /\ idle'[c.uid] = idle[c.uid]
        BY <1>1, <1>7, <3>1, <3>3 DEF Push
      <4> QED BY <2>1, <3>1, <4>1 DEF Late
    <3> QED BY <3>2, <3>3
  <2> QED BY <2>1, <2>2 DEF ForwardedExpired, Late
<1>8. ASSUME NEW u \in Uid, Del(u)
      PROVE  ForwardedExpired'
  <2>1. ASSUME NEW c \in Candidate, c.uid \in Uid, c.ts \in Nat, Late(c) PROVE Late(c)'
    BY <1>1, <1>8, <2>1 DEF Del, Late, Absent
  <2> QED BY <1>3, <1>8, <2>1 DEF Del
<1>9. CASE WorkerJudge
  <2>1. held \in Candidate /\ now' = now /\ store' = store /\ idle' = idle
    BY <1>9 DEF WorkerJudge, TypeOK, clock
  <2>2. held.uid \in Uid /\ held.ts \in Nat
    BY <2>1 DEF Candidate
  <2>3. Expired(held) => Late(held)
    <3>1. Expired(held) => now - held.ts > TTL
      BY <1>1, <2>2 DEF Expired, Age
    <3>2. store[held.uid] = held.ts => idle[held.uid] > TTL \/ idle[held.uid] >= now - held.ts
      BY <2>2 DEF IdleCounts, Absent
    <3>3. idle[held.uid] \in Int
      BY <1>1, <2>2
    <3> QED BY <1>1, <2>2, <3>1, <3>2, <3>3 DEF Late
  <2>4. CASE expired_out' = expired_out
    BY <2>1, <2>4 DEF ForwardedExpired
  <2>5. CASE expired_out' = Append(expired_out, held) /\ Expired(held)
    <3>1. \A i \in 1 .. Len(expired_out') :
             \/ i \in 1 .. Len(expired_out) /\ expired_out'[i] = expired_out[i]
             \/ expired_out'[i] = held
      BY <1>1, <2>1, <2>5
    <3> QED
      BY <1>2, <2>1, <2>3, <2>5, <3>1 DEF ForwardedExpired, Late
  <2> QED
    BY <1>9, <2>4, <2>5 DEF WorkerJudge, Pushed
<1>10. CASE UNCHANGED <<now, idle, store, expired_out>>
  BY <1>10 DEF ForwardedExpired
<1> QED
  BY <1>4, <1>5, <1>6, <1>7, <1>8, <1>9, <1>10, Concerned

\* Every candidate in expired_out that still matches its key is of a key idle
\* for more than TTL, whatever the sizes of the queues and however the two
\* threads and changes of the clock interleave.
THEOREM ForwardedExpiredAlways == Spec => []ForwardedExpired
<1>1. Init => ForwardedExpired
  BY DEF Init, ForwardedExpired
<1> QED
  BY <1>1, ForwardedStep, TypeCorrect, IdleCountsAlways, PTL DEF Spec

\* The false-eviction guard is sound: drain_expired_keys erases only a key
\* whose last write is longer ago than TTL.
THEOREM NoFalseEvictionAlways == Spec => NoFalseEviction
<1> DEFINE Evicts(u) == epc = "drain" /\ store[u] # Absent /\ store'[u] = Absent
<1>1. ASSUME TypeOK, ForwardedExpired, [Next]_vars, NEW u \in Uid, Evicts(u)
      PROVE  idle[u] > TTL
  <2>1. store \in [Uid -> Nat \cup {Absent}] /\ expired_out \in Seq(Candidate)
    BY <1>1 DEF TypeOK
  <2>2. DrainPop
    <3>1. store' # store
      BY <1>1
    <3>2. ~\E v \in Uid : Push(v) \/ Del(v)
      BY <1>1 DEF Push, Del
    <3>3. ~(Tick \/ StepBack \/ WorkerJudge)
      BY <3>1 DEF Tick, StepBack, WorkerJudge
    <3> QED
      BY <1>1, <3>1, <3>2, <3>3, Concerned
  <2> DEFINE c == Head(expired_out)
  <2>3. expired_out # <<>> /\ c \in Candidate /\ c = expired_out[1] /\ 1 \in 1 .. Len(expired_out)
    BY <2>1, <2>2 DEF DrainPop
  <2>4. SameWrite(c) /\ c.uid = u
    BY <1>1, <2>1, <2>2, <2>3 DEF DrainPop
  <2>5. store[c.uid] = c.ts => idle[c.uid] > TTL
    BY <1>1, <2>3 DEF ForwardedExpired
  <2> QED
    BY <2>4, <2>5 DEF SameWrite
<1>2. TypeOK /\ ForwardedExpired /\ [Next]_vars
        => [\A u \in Uid :
               epc = "drain" /\ store[u] # Absent /\ store'[u] = Absent
                   => idle[u] > TTL]_vars
  BY <1>1
<1> QED
  BY <1>2, TypeCorrect, ForwardedExpiredAlways, PTL DEF Spec, NoFalseEviction
=============================================================================
