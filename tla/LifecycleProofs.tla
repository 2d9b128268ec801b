-------------------------- MODULE LifecycleProofs --------------------------
(***************************************************************************)
(* Proofs about module Lifecycle, for any number of servers and faults.      *)
(***************************************************************************)
EXTENDS Lifecycle, TLAPS

\* The socket a server has is determined by how far main() has come, except
\* that listen() may have failed.
SockOfPc ==
    \A s \in Server :
        /\ sock[s] = "none" <=> pc[s] \in {"off", "load", "store", "bind"}
        /\ pc[s] = "listen" => sock[s] = "bound"
        /\ child[s] => pc[s] \in {"top", "tick", "stop", "close"}

\* One socket listens on the port at most: a server's, shared with its child,
\* or that of a child whose server is gone.
OneListener ==
    /\ \A s, t \in Server : sock[s] = "listening" /\ sock[t] = "listening" => s = t
    /\ \A s \in Server : sock[s] = "listening" => orphans["listening"] = 0
    /\ orphans["listening"] <= 1

PortInv == TypeOK /\ SockOfPc /\ OneListener

\* At first nobody listens.
LEMMA PortInvInit == Init => PortInv
  BY BoundAssumption DEF Init, PortInv, TypeOK, SockOfPc, OneListener, NoOrphans, Held

\* The end of a process, the step that all the faults and failures share.
LEMMA ExitKeeps ==
    ASSUME PortInv, NEW s \in Server, Exit(s), UNCHANGED conf, faults' \in 0 .. MaxFaults
    PROVE  PortInv'
<1>1. TypeOK'
  <2>1. orphans' \in [Held -> Nat]
    <3>1. CASE child[s]
      <4>1. sock[s] \in Held
        BY <3>1 DEF PortInv, TypeOK, SockOfPc, Held
      <4>2. orphans' = [orphans EXCEPT ![sock[s]] = @ + 1]
        BY <3>1 DEF Exit
      <4> QED BY <4>1, <4>2 DEF PortInv, TypeOK
    <3>2. CASE ~child[s]
      BY <3>2 DEF Exit, PortInv, TypeOK
    <3> QED BY <3>1, <3>2
  <2> QED BY <2>1 DEF Exit, PortInv, TypeOK
<1>2. SockOfPc'
  BY DEF Exit, PortInv, TypeOK, SockOfPc
<1>3. OneListener'
  <2>1. ASSUME NEW t \in Server, sock'[t] = "listening"
        PROVE  /\ t # s /\ sock[t] = "listening"
               /\ orphans'["listening"] = 0
    <3>1. t # s /\ sock[t] = "listening"
      BY <2>1 DEF Exit, PortInv, TypeOK
    <3>2. sock[s] # "listening" /\ orphans["listening"] = 0
      BY <3>1 DEF PortInv, OneListener
    <3>3. orphans'["listening"] = 0
      <4>1. CASE child[s]
        <5>1. orphans' = [orphans EXCEPT ![sock[s]] = @ + 1]
          BY <4>1 DEF Exit
        <5> QED BY <5>1, <3>2 DEF PortInv, TypeOK, Held
      <4>2. CASE ~child[s]
        BY <4>2, <3>2 DEF Exit
      <4> QED BY <4>1, <4>2
    <3> QED BY <3>1, <3>3
  <2>2. orphans'["listening"] <= 1
    <3>1. CASE child[s] /\ sock[s] = "listening"
      <4>1. orphans["listening"] = 0
        BY <3>1 DEF PortInv, OneListener
      <4>2. orphans' = [orphans EXCEPT !["listening"] = orphans["listening"] + 1]
        BY <3>1 DEF Exit
      <4> QED BY <4>1, <4>2 DEF PortInv, TypeOK, Held
    <3>2. CASE child[s] /\ sock[s] # "listening"
      <4>1. orphans' = [orphans EXCEPT ![sock[s]] = @ + 1]
        BY <3>2 DEF Exit
      <4> QED BY <3>2, <4>1 DEF PortInv, TypeOK, Held, OneListener
    <3>3. CASE ~child[s]
      BY <3>3 DEF Exit, PortInv, OneListener
    <3> QED BY <3>1, <3>2, <3>3
  <2> QED BY <2>1, <2>2 DEF PortInv, OneListener
<1> QED BY <1>1, <1>2, <1>3 DEF PortInv

\* The steps of main() that leave the socket alone.
LEMMA GotoKeeps ==
    ASSUME PortInv, NEW s \in Server, NEW from, NEW to,
           Goto(s, from, to), UNCHANGED <<conf, sock, flag, orphans, faults>>,
           \/ /\ from \in {"off", "load", "store"} /\ to \in {"load", "store", "bind"}
              /\ UNCHANGED child
           \/ /\ from \in {"open", "handlers"} /\ to \in {"handlers", "recover"}
              /\ UNCHANGED child
           \/ /\ from \in {"recover", "top", "tick", "stop"}
              /\ to \in {"top", "tick", "stop", "close"}
              /\ UNCHANGED child \/ child' = [child EXCEPT ![s] = TRUE]
    PROVE  PortInv'
<1>1. TypeOK'
  BY DEF Goto, PortInv, TypeOK
<1>2. SockOfPc'
  BY DEF Goto, PortInv, TypeOK, SockOfPc
<1>3. OneListener'
  BY DEF PortInv, OneListener
<1> QED BY <1>1, <1>2, <1>3 DEF PortInv

\* bind() takes a port that nobody listens on ...
LEMMA BindKeeps ==
    ASSUME PortInv, NEW s \in Server, Bind(s)
    PROVE  PortInv'
<1>1. CASE pc[s] = "bind" /\ PortTaken /\ Exit(s)
  BY <1>1, ExitKeeps DEF Bind, PortInv, TypeOK
<1>2. CASE /\ Goto(s, "bind", "listen") /\ sock' = [sock EXCEPT ![s] = "bound"]
           /\ UNCHANGED <<flag, child, orphans>>
  <2>1. TypeOK'
    BY <1>2 DEF Bind, Goto, PortInv, TypeOK
  <2>2. SockOfPc'
    BY <1>2 DEF Bind, Goto, PortInv, TypeOK, SockOfPc
  <2>3. OneListener'
    BY <1>2 DEF PortInv, TypeOK, OneListener
  <2> QED BY <2>1, <2>2, <2>3 DEF PortInv
<1> QED BY <1>1, <1>2 DEF Bind

\* ... and listen() fails if another socket got there first.
LEMMA ListenKeeps ==
    ASSUME PortInv, NEW s \in Server, Listen(s)
    PROVE  PortInv'
<1>1. TypeOK'
  BY DEF Listen, Goto, PortInv, TypeOK
<1>2. SockOfPc'
  BY DEF Listen, Goto, PortInv, TypeOK, SockOfPc
<1>3. OneListener'
  <2>1. CASE PortTaken
    BY <2>1 DEF Listen, PortInv, OneListener
  <2>2. CASE ~PortTaken
    <3>1. sock' = [sock EXCEPT ![s] = "listening"] /\ orphans' = orphans
      BY <2>2 DEF Listen
    <3>2. orphans["listening"] = 0
      BY <2>2 DEF PortTaken, PortInv, TypeOK, Held
    <3>3. \A t \in Server : sock[t] # "listening"
      BY <2>2 DEF PortTaken
    <3> QED BY <3>1, <3>2, <3>3 DEF PortInv, TypeOK, OneListener
  <2> QED BY <2>1, <2>2
<1> QED BY <1>1, <1>2, <1>3 DEF PortInv

\* Every step of main().
LEMMA MainKeeps ==
    ASSUME PortInv, NEW s \in Server, Main(s)
    PROVE  PortInv'
<1> USE DEF PortInv, TypeOK
<1>1. CASE Load(s)
  <2>1. CASE pc[s] = "load" /\ Exit(s)
    BY <1>1, <2>1, ExitKeeps DEF Load
  <2>2. CASE Goto(s, "load", "store") /\ UNCHANGED <<sock, flag, child, orphans>>
    BY <1>1, <2>2, GotoKeeps DEF Load
  <2> QED BY <1>1, <2>1, <2>2 DEF Load
<1>2. CASE NewStore(s)
  <2>1. CASE pc[s] = "store" /\ Exit(s)
    BY <1>2, <2>1, ExitKeeps DEF NewStore
  <2>2. CASE Goto(s, "store", "bind") /\ UNCHANGED <<sock, flag, child, orphans>>
    BY <1>2, <2>2, GotoKeeps DEF NewStore
  <2> QED BY <1>2, <2>1, <2>2 DEF NewStore
<1>3. CASE Bind(s)
  BY <1>3, BindKeeps
<1>4. CASE Listen(s)
  BY <1>4, ListenKeeps
<1>5. CASE OpenAof(s)
  <2>1. CASE Fault /\ Exit(s)
    BY <1>5, <2>1, ExitKeeps, BoundAssumption DEF OpenAof, Fault
  <2>2. CASE Goto(s, "open", "handlers") /\ UNCHANGED <<sock, flag, child, orphans, faults>>
    BY <1>5, <2>2, GotoKeeps DEF OpenAof
  <2> QED BY <1>5, <2>1, <2>2 DEF OpenAof
<1>6. CASE InstallHandlers(s)
  BY <1>6, GotoKeeps DEF InstallHandlers
<1>7. CASE Recover(s)
  <2>1. CASE Fault /\ Exit(s)
    BY <1>7, <2>1, ExitKeeps, BoundAssumption DEF Recover, Fault
  <2>2. CASE Goto(s, "recover", "top") /\ UNCHANGED <<sock, flag, child, orphans, faults>>
    BY <1>7, <2>2, GotoKeeps DEF Recover
  <2> QED BY <1>7, <2>1, <2>2 DEF Recover
<1>8. CASE RunTop(s)
  BY <1>8, GotoKeeps DEF RunTop
<1>9. CASE Tick(s)
  BY <1>9, GotoKeeps DEF Tick
<1>10. CASE StopAof(s)
  BY <1>10, GotoKeeps DEF StopAof
<1>11. CASE CloseSockets(s)
  BY <1>11, ExitKeeps DEF CloseSockets
<1> QED BY <1>1, <1>2, <1>3, <1>4, <1>5, <1>6, <1>7, <1>8, <1>9, <1>10, <1>11 DEF Main

\* A child shares the socket of its server until it ends.
LEMMA ChildrenKeep == PortInv /\ Children => PortInv'
<1> SUFFICES ASSUME PortInv, Children PROVE PortInv'
  OBVIOUS
<1>1. ASSUME NEW s \in Server, ChildExit(s) PROVE PortInv'
  BY <1>1 DEF ChildExit, PortInv, TypeOK, SockOfPc, OneListener
<1>2. ASSUME NEW k \in Held, OrphanExit(k) PROVE PortInv'
  <2>1. orphans[k] \in Nat /\ orphans[k] > 0 /\ orphans' = [orphans EXCEPT ![k] = orphans[k] - 1]
    BY <1>2 DEF OrphanExit, PortInv, TypeOK
  <2>2. orphans' \in [Held -> Nat]
    BY <2>1 DEF PortInv, TypeOK
  <2>3. /\ orphans["listening"] = 0 => orphans'["listening"] = 0
        /\ orphans'["listening"] <= orphans["listening"] /\ orphans'["listening"] \in Nat
    BY <2>1, <2>2 DEF PortInv, TypeOK, Held
  <2> QED BY <1>2, <2>2, <2>3 DEF OrphanExit, PortInv, TypeOK, SockOfPc, OneListener
<1> QED BY <1>1, <1>2 DEF Children

\* Crashes and signals only end processes.
LEMMA FaultsKeep == PortInv /\ Faults => PortInv'
<1> SUFFICES ASSUME PortInv, Faults PROVE PortInv'
  OBVIOUS
<1>0. ASSUME Fault PROVE faults' \in 0 .. MaxFaults
  BY <1>0, BoundAssumption DEF Fault, PortInv, TypeOK
<1>1. ASSUME NEW s \in Server, Signal(s) PROVE PortInv'
  <2>1. CASE Exit(s)
    BY <1>0, <1>1, <2>1, ExitKeeps DEF Signal
  <2>2. CASE flag' = [flag EXCEPT ![s] = TRUE] /\ UNCHANGED <<pc, sock, child, orphans>>
    BY <1>0, <1>1, <2>2 DEF Signal, PortInv, TypeOK, SockOfPc, OneListener
  <2> QED BY <1>1, <2>1, <2>2 DEF Signal
<1>2. ASSUME NEW s \in Server, Crash(s) PROVE PortInv'
  BY <1>0, <1>2, ExitKeeps DEF Crash
<1>3. CASE CrashMachine
  BY <1>0, <1>3 DEF CrashMachine, PortInv, TypeOK, SockOfPc, OneListener, NoOrphans, Held
<1> QED BY <1>1, <1>2, <1>3 DEF Faults

\* Every step keeps the port to one socket.
LEMMA PortInvNext == PortInv /\ [Next]_vars => PortInv'
<1> SUFFICES ASSUME PortInv, [Next]_vars PROVE PortInv'
  OBVIOUS
<1>1. ASSUME NEW s \in Server, Start(s) PROVE PortInv'
  BY <1>1, GotoKeeps DEF Start
<1>2. ASSUME NEW s \in Server, Main(s) PROVE PortInv'
  BY <1>2, MainKeeps
<1>3. CASE Children
  BY <1>3, ChildrenKeep
<1>4. CASE Faults
  BY <1>4, FaultsKeep
<1>5. CASE UNCHANGED vars
  BY <1>5 DEF vars, PortInv, TypeOK, SockOfPc, OneListener
<1> QED BY <1>1, <1>2, <1>3, <1>4, <1>5 DEF Next

\* The invariant of the port.
LEMMA PortInvAlways == Spec => []PortInv
  BY PortInvInit, PortInvNext, PTL DEF Spec

\* Processes, sockets, children and the budget of faults keep their types.
THEOREM TypeCorrect == Spec => []TypeOK
<1>1. PortInv => TypeOK
  BY DEF PortInv
<1> QED BY <1>1, PortInvAlways, PTL

\* Startup order, the listening socket and the order of shutdown() together
\* keep a second writer away from the log, for any number of servers started
\* and stopped at any moment; the one exception is a listen() that failed.
THEOREM SingleWriterAlways == Spec => []SingleWriter
<1>1. PortInv => SingleWriter
  BY DEF PortInv, TypeOK, SockOfPc, OneListener, SingleWriter, AofOpen, Deaf
<1> QED BY <1>1, PortInvAlways, PTL

\* Of the children that inherited the listening socket at most one is alive, for
\* any number of servers, crashes and orphans: a child left by a crash keeps the
\* port, so nobody listens before it is gone.  Children of servers whose listen()
\* failed are not bound by it.
THEOREM OneDumperAlwaysHoldsPort == Spec => []OneDumperHoldsPort
<1>1. PortInv => OneDumperHoldsPort
  BY DEF PortInv, OneListener, OneDumperHoldsPort
<1> QED BY <1>1, PortInvAlways, PTL
=============================================================================
