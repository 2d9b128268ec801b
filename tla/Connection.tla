----------------------------- MODULE Connection -----------------------------
(***************************************************************************)
(* Connections (src/connection.rs) and the epoll loop that serves them       *)
(* (src/event_loop.rs): accept, read and validate a request, process it,     *)
(* write the reply, close; partial reads and writes, pipelined requests,     *)
(* clients that hang up, and shutdown.                                       *)
(*                                                                          *)
(* A request is its opcode or what is wrong with it.  A byte of it is a      *)
(* pair <<k, j>>: byte j of the client's k-th request, so that a byte lost,  *)
(* repeated or taken for part of another request shows.  Headers, payloads   *)
(* and replies have HdrLen, PayLen and RepLen bytes.                         *)
(***************************************************************************)
EXTENDS Integers, Sequences, SequencesExt

CONSTANTS
    Fd,             \* descriptors the kernel hands out
    Programs,       \* what a client may send: sequences of requests
    HdrLen, RepLen, \* bytes of a header and of a reply
    MaxConnects     \* bound: connections made

Ops == {"PUSH", "GET", "DEL", "BADHDR", "BADCOUNT"}

ASSUME FdAssumption == 0 \notin Fd
ASSUME ProgramsAssumption == Programs \subseteq Seq(Ops)
ASSUME LenAssumption == HdrLen \in Nat \ {0} /\ RepLen \in Nat \ {0}

\* payload_len, which a valid header determines.
PayLen(op) == CASE op = "PUSH" -> 2 [] op \in {"GET", "BADCOUNT"} -> 1 [] OTHER -> 0
Bytes(k, len) == [j \in 1 .. len |-> <<k, j>>]
Request(p, k) == Bytes(k, HdrLen + PayLen(p[k]))
Requests(p, n) == FlattenSeq([k \in 1 .. n |-> Request(p, k)])
Stream(p) == Requests(p, Len(p))
Replies(n) == FlattenSeq([k \in 1 .. n |-> Bytes(k, RepLen)])

VARIABLES
    client,     \* per descriptor: "none", "open", or "closed" by the client
    prog,       \* what the client sends
    sent,       \* bytes it has sent
    rx,         \* bytes received and not yet read
    tx,         \* reply bytes delivered to the client
    connects,   \* connections made
    conn,       \* connections: Fd -> Connection
    interest,   \* epoll registration: "none", "in" or "out"
    done,       \* ghost: requests executed per connection
    shutdown_flag,
    epc,        \* event loop: "top", "batch", "read", "write", "stopped"
    batch,      \* events of the current epoll_wait not yet handled
    cur         \* the descriptor being handled, 0 for none

peer == <<client, prog, sent, connects>>
loop == <<epc, batch, cur>>
vars == <<peer, rx, tx, conn, interest, done, shutdown_flag, loop>>

NoConn == [state |-> "None", rbuf |-> <<>>, wbuf |-> <<>>]
NewConn == [state |-> "ReadHeader", rbuf |-> <<>>, wbuf |-> <<>>]
Listen == 0

Init ==
    /\ client = [f \in Fd |-> "none"] /\ prog = [f \in Fd |-> <<>>]
    /\ sent = [f \in Fd |-> 0] /\ rx = [f \in Fd |-> <<>>] /\ tx = [f \in Fd |-> <<>>]
    /\ connects = 0
    /\ conn = [f \in Fd |-> NoConn] /\ interest = [f \in Fd |-> "none"]
    /\ done = [f \in Fd |-> 0]
    /\ shutdown_flag = FALSE
    /\ epc = "top" /\ batch = {} /\ cur = 0

-----------------------------------------------------------------------------
\* Clients and signals.  A descriptor is reused once both ends closed it.

Connect(f) ==
    /\ client[f] = "none" /\ connects < MaxConnects
    /\ client' = [client EXCEPT ![f] = "open"]
    /\ \E p \in Programs : prog' = [prog EXCEPT ![f] = p]
    /\ sent' = [sent EXCEPT ![f] = 0] /\ rx' = [rx EXCEPT ![f] = <<>>]
    /\ tx' = [tx EXCEPT ![f] = <<>>] /\ done' = [done EXCEPT ![f] = 0]
    /\ connects' = connects + 1
    /\ UNCHANGED <<conn, interest, shutdown_flag, loop>>

Send(f) ==
    /\ client[f] = "open" /\ sent[f] < Len(Stream(prog[f]))
    /\ sent' = [sent EXCEPT ![f] = @ + 1]
    /\ rx' = [rx EXCEPT ![f] = Append(@, Stream(prog[f])[sent[f] + 1])]
    /\ UNCHANGED <<client, prog, connects, tx, conn, interest, done, shutdown_flag, loop>>

Hangup(f) ==
    /\ client[f] = "open"
    /\ client' = [client EXCEPT ![f] = "closed"]
    /\ UNCHANGED <<prog, sent, connects, rx, tx, conn, interest, done, shutdown_flag, loop>>

Signal ==
    /\ ~shutdown_flag
    /\ shutdown_flag' = TRUE
    /\ UNCHANGED <<peer, rx, tx, conn, interest, done, loop>>

-----------------------------------------------------------------------------
\* EventLoop::run

\* Connections the kernel has completed and accept4 has not returned.
Backlog == {f \in Fd : client[f] # "none" /\ interest[f] = "none"}

Readable(f) == interest[f] = "in" /\ (rx[f] # <<>> \/ client[f] = "closed")
Writable(f) == interest[f] = "out"

EpollWait ==
    /\ epc = "top" /\ ~shutdown_flag
    /\ batch' = {f \in Fd : Readable(f) \/ Writable(f)}
                    \cup (IF Backlog # {} THEN {Listen} ELSE {})
    /\ epc' = "batch"
    /\ UNCHANGED <<peer, rx, tx, conn, interest, done, shutdown_flag, cur>>

BatchDone ==
    /\ epc = "batch" /\ batch = {}
    /\ epc' = "top"
    /\ UNCHANGED <<peer, rx, tx, conn, interest, done, shutdown_flag, batch, cur>>

\* accept_connections(): until EAGAIN, or an error that leaves the rest.  An
\* error of the first accept4 leaves everything for the next epoll_wait.
Accept ==
    /\ epc = "batch" /\ Listen \in batch
    /\ batch' = batch \ {Listen}
    /\ \E A \in {S \in SUBSET Backlog : Backlog # {} => S # {}} :
          /\ conn' = [f \in Fd |-> IF f \in A THEN NewConn ELSE conn[f]]
          /\ interest' = [f \in Fd |-> IF f \in A THEN "in" ELSE interest[f]]
    /\ UNCHANGED <<peer, rx, tx, done, shutdown_flag, epc, cur>>

\* An event of a connection; it was reported for the registration of f.
Dispatch(f) ==
    /\ epc = "batch" /\ f \in batch
    /\ batch' = batch \ {f} /\ cur' = f
    /\ epc' = IF interest[f] = "in" THEN "read" ELSE "write"
    /\ UNCHANGED <<peer, rx, tx, conn, interest, done, shutdown_flag>>

\* close(2), epoll_ctl DEL and removal from the map; the client sees its
\* connection closed, and the descriptor may be handed out again.
Close(f) ==
    /\ conn' = [conn EXCEPT ![f] = NoConn]
    /\ interest' = [interest EXCEPT ![f] = "none"]
    /\ client' = [client EXCEPT ![f] = "none"]
    /\ UNCHANGED <<prog, sent, connects>>

Return == epc' = "batch" /\ cur' = 0 /\ UNCHANGED batch

-----------------------------------------------------------------------------
\* handle_read(): one iteration of its loop.

Op(c) == prog[cur][c.rbuf[1][1]]

Needed(c) == IF c.state = "ReadHeader" THEN HdrLen ELSE HdrLen + PayLen(Op(c))

MReadBytes ==
    /\ epc = "read" /\ rx[cur] # <<>>
    /\ LET c == conn[cur]
           n == Len(rx[cur])
           buf == c.rbuf \o SubSeq(rx[cur], 1, n)
           full == [c EXCEPT !.rbuf = buf]
           op == Op(full)
       IN  /\ c.state \in {"ReadHeader", "ReadPayload"}
           /\ rx' = [rx EXCEPT ![cur] = SubSeq(@, n + 1, Len(@))]
           /\ IF Len(buf) < Needed(c)
              THEN conn' = [conn EXCEPT ![cur] = full] /\ UNCHANGED <<peer, interest, loop>>
              ELSE IF c.state = "ReadHeader" /\ op = "BADHDR"
              THEN Close(cur) /\ Return
              ELSE /\ conn' = [conn EXCEPT ![cur] = [full EXCEPT !.state =
                           IF c.state = "ReadHeader" /\ PayLen(op) > 0
                           THEN "ReadPayload" ELSE "Process"]]
                   /\ UNCHANGED <<peer, interest, loop>>
    /\ UNCHANGED <<tx, done, shutdown_flag>>
ReadBytes ==
    /\ epc = "read" /\ rx[cur] # <<>>
    /\ LET c == conn[cur]
           n == Min({Len(rx[cur]), Needed(c) - Len(c.rbuf)})
           buf == c.rbuf \o SubSeq(rx[cur], 1, n)
           full == [c EXCEPT !.rbuf = buf]
           op == Op(full)
       IN  /\ c.state \in {"ReadHeader", "ReadPayload"}
           /\ rx' = [rx EXCEPT ![cur] = SubSeq(@, n + 1, Len(@))]
           /\ IF Len(buf) < Needed(c)
              THEN conn' = [conn EXCEPT ![cur] = full] /\ UNCHANGED <<peer, interest, loop>>
              ELSE IF c.state = "ReadHeader" /\ op = "BADHDR"
              THEN Close(cur) /\ Return
              ELSE /\ conn' = [conn EXCEPT ![cur] = [full EXCEPT !.state =
                           IF c.state = "ReadHeader" /\ PayLen(op) > 0
                           THEN "ReadPayload" ELSE "Process"]]
                   /\ UNCHANGED <<peer, interest, loop>>
    /\ UNCHANGED <<tx, done, shutdown_flag>>

\* Nothing to read: EAGAIN, or end of file when the client has closed.
ReadNothing ==
    /\ epc = "read" /\ rx[cur] = <<>>
    /\ conn[cur].state \in {"ReadHeader", "ReadPayload"}
    /\ IF client[cur] = "closed" THEN Close(cur) ELSE UNCHANGED <<peer, conn, interest>>
    /\ Return
    /\ UNCHANGED <<rx, tx, done, shutdown_flag>>

\* process_command(): execute, arm for writing; a bad GET count closes.
MProcess ==
    /\ epc = "read" /\ conn[cur].state = "Process"
    /\ IF Op(conn[cur]) = "BADCOUNT"
       THEN Close(cur) /\ UNCHANGED done
       ELSE /\ done' = [done EXCEPT ![cur] = @ + 1]
            /\ conn' = [conn EXCEPT ![cur] =
                   [state |-> "WriteResponse", rbuf |-> <<>>, wbuf |-> Bytes(done'[cur], RepLen)]]
            /\ UNCHANGED <<peer, interest>>
    /\ Return
    /\ UNCHANGED <<rx, tx, shutdown_flag>>
Process ==
    /\ epc = "read" /\ conn[cur].state = "Process"
    /\ IF Op(conn[cur]) = "BADCOUNT"
       THEN Close(cur) /\ UNCHANGED done
       ELSE /\ done' = [done EXCEPT ![cur] = @ + 1]
            /\ conn' = [conn EXCEPT ![cur] =
                   [state |-> "WriteResponse", rbuf |-> <<>>, wbuf |-> Bytes(done'[cur], RepLen)]]
            /\ interest' = [interest EXCEPT ![cur] = "out"]
            /\ UNCHANGED peer
    /\ Return
    /\ UNCHANGED <<rx, tx, shutdown_flag>>

-----------------------------------------------------------------------------
\* handle_write(): one write(2), short or not.  The kernel may still take data
\* for a client that has closed.
MWriteBytes ==
    /\ epc = "write"
    /\ \E n \in 1 .. Len(conn[cur].wbuf) :
          /\ tx' = [tx EXCEPT ![cur] = @ \o SubSeq(conn[cur].wbuf, 1, n)]
          /\ conn' = [conn EXCEPT ![cur] = NewConn]
          /\ interest' = [interest EXCEPT ![cur] = "in"] /\ Return
    /\ UNCHANGED <<peer, rx, done, shutdown_flag>>
WriteBytes ==
    /\ epc = "write"
    /\ \E n \in 1 .. Len(conn[cur].wbuf) :
          /\ tx' = [tx EXCEPT ![cur] = @ \o SubSeq(conn[cur].wbuf, 1, n)]
          /\ IF n = Len(conn[cur].wbuf)
             THEN /\ conn' = [conn EXCEPT ![cur] = NewConn]
                  /\ interest' = [interest EXCEPT ![cur] = "in"] /\ Return
             ELSE /\ conn' = [conn EXCEPT ![cur].wbuf = SubSeq(@, n + 1, Len(@))]
                  /\ UNCHANGED <<interest, loop>>
    /\ UNCHANGED <<peer, rx, done, shutdown_flag>>

\* EAGAIN: the client's window is full.
WriteAgain ==
    /\ epc = "write"
    /\ Return
    /\ UNCHANGED <<peer, rx, tx, conn, interest, done, shutdown_flag>>

\* EPIPE or ECONNRESET.
WriteError ==
    /\ epc = "write" /\ client[cur] = "closed"
    /\ Close(cur) /\ Return
    /\ UNCHANGED <<rx, tx, done, shutdown_flag>>

\* shutdown(): every connection is closed as it stands.
Stop ==
    /\ epc = "top" /\ shutdown_flag
    /\ epc' = "stopped"
    /\ conn' = [f \in Fd |-> NoConn] /\ interest' = [f \in Fd |-> "none"]
    /\ UNCHANGED <<peer, rx, tx, done, shutdown_flag, batch, cur>>

Read == ReadBytes \/ ReadNothing \/ Process
Write == WriteBytes \/ WriteAgain \/ WriteError
Clients == \E f \in Fd : Connect(f) \/ Send(f) \/ Hangup(f)
Server == EpollWait \/ BatchDone \/ Accept \/ (\E f \in Fd : Dispatch(f)) \/ Read \/ Write \/ Stop
Exited == epc = "stopped" /\ UNCHANGED vars

Next == Clients \/ Signal \/ Server \/ Exited

\* The event loop runs, and a client that waits for a reply reads it.
Spec ==
    /\ Init /\ [][Next]_vars
    /\ WF_vars(Server)
    /\ \A f \in Fd : SF_vars(cur = f /\ WriteBytes)

-----------------------------------------------------------------------------
Byte == Nat \X Nat
State == {"None", "ReadHeader", "ReadPayload", "Process", "WriteResponse"}

TypeOK ==
    /\ client \in [Fd -> {"none", "open", "closed"}]
    /\ prog \in [Fd -> Programs \cup {<<>>}] /\ sent \in [Fd -> Nat]
    /\ rx \in [Fd -> Seq(Byte)] /\ tx \in [Fd -> Seq(Byte)] /\ connects \in Nat
    /\ conn \in [Fd -> [state : State, rbuf : Seq(Byte), wbuf : Seq(Byte)]]
    /\ \A f \in Fd : Len(conn[f].rbuf) <= HdrLen + 2 /\ Len(conn[f].wbuf) <= RepLen
    /\ interest \in [Fd -> {"none", "in", "out"}] /\ done \in [Fd -> Nat]
    /\ shutdown_flag \in BOOLEAN
    /\ epc \in {"top", "batch", "read", "write", "stopped"}
    /\ batch \subseteq Fd \cup {Listen} /\ cur \in Fd \cup {0}

\* Framing: what a client has sent is, byte for byte, the requests executed,
\* the part in rbuf and the part not yet read.  Resetting rbuf_pos after a
\* request drops nothing of a pipelined one.
StreamIntact ==
    \A f \in Fd : conn[f] # NoConn =>
        SubSeq(Stream(prog[f]), 1, sent[f]) =
            Requests(prog[f], done[f]) \o conn[f].rbuf \o rx[f]

\* A client gets the replies to its own requests, each once, in the order of
\* the requests, however the reply is cut up by short writes and whoever had
\* the descriptor before.
RepliesInOrder ==
    \A f \in Fd : conn[f] # NoConn => tx[f] \o conn[f].wbuf = Replies(done[f])

\* Between batches every connection is registered for the event that its state
\* waits for: none is left in Process, or waiting for an event that epoll will
\* not report.
ArmedCorrectly ==
    epc = "top" => \A f \in Fd :
        interest[f] = CASE conn[f].state = "None" -> "none"
                        [] conn[f].state = "WriteResponse" -> "out"
                        [] conn[f].state \in {"ReadHeader", "ReadPayload"} -> "in"
                        [] OTHER -> "lost"

\* A client that has sent its requests gets every reply, unless it hangs up,
\* breaks the protocol, or the server is stopped.
AnsweredEventually ==
    \A f \in Fd :
        client[f] = "open" /\ sent[f] = Len(Stream(prog[f]))
            ~> Len(tx[f]) = RepLen * Len(prog[f]) \/ client[f] # "open" \/ shutdown_flag
=============================================================================
