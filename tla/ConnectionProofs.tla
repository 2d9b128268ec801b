-------------------------- MODULE ConnectionProofs --------------------------
(***************************************************************************)
(* Safety of the connections and the event loop, for every number of        *)
(* descriptors, every set of client programs and all message lengths.       *)
(***************************************************************************)
EXTENDS Connection, SequenceLemmas

\* The sets and lengths that the constants stand for.
LEMMA Facts ==
  /\ HdrLen \in Nat /\ HdrLen > 0 /\ RepLen \in Nat /\ RepLen > 0 /\ 0 \notin Fd
  /\ \A op : PayLen(op) \in 0 .. 2
BY LenAssumption, FdAssumption DEF PayLen

\* A program is a sequence.
LEMMA ProgramType ==
  ASSUME NEW p \in Programs \cup {<<>>}
  PROVE  p \in Seq(Ops) /\ Len(p) \in Nat
<1>1. p \in Seq(Ops)
  <2>1. CASE p \in Programs
    BY <2>1, ProgramsAssumption, Zenon
  <2>2. CASE p = <<>>
    BY <2>2
  <2> QED
    BY <2>1, <2>2
<1> QED
  BY <1>1

\* Concatenation of byte sequences is associative.
LEMMA Assoc == \A s, t, u \in Seq(Byte) : (s \o t) \o u = s \o (t \o u)
BY ConcatAssociative

\* Two byte sequences one after the other.
LEMMA Concat ==
  ASSUME NEW s \in Seq(Byte), NEW t \in Seq(Byte)
  PROVE  /\ s \o t \in Seq(Byte) /\ Len(s \o t) = Len(s) + Len(t)
         /\ \A i \in 1 .. Len(s) : (s \o t)[i] = s[i]
         /\ \A i \in 1 .. Len(t) : (s \o t)[Len(s) + i] = t[i]
OBVIOUS

\* A byte appended to the second of two sequences.
LEMMA AppendLast ==
  ASSUME NEW s \in Seq(Byte), NEW t \in Seq(Byte), NEW b \in Byte
  PROVE  Append(s \o t, b) = s \o Append(t, b)
<1>1. /\ Append(s \o t, b) = (s \o t) \o <<b>> /\ Append(t, b) = t \o <<b>>
      /\ <<b>> \in Seq(Byte)
  <2>1. s \o t \in Seq(Byte)
    OBVIOUS
  <2> QED
    BY <2>1, AppendIsConcat
<1> QED
  BY <1>1, Assoc

\* The bytes of one message.
LEMMA BytesType ==
  ASSUME NEW k \in Nat, NEW len \in Nat
  PROVE  /\ Bytes(k, len) \in Seq(Byte) /\ Len(Bytes(k, len)) = len
         /\ \A j \in 1 .. len : Bytes(k, len)[j] = <<k, j>>
BY DEF Bytes, Byte

\* The bytes of one request.
LEMMA RequestType ==
  ASSUME NEW p, NEW k \in Nat
  PROVE  /\ Request(p, k) \in Seq(Byte) /\ Len(Request(p, k)) = HdrLen + PayLen(p[k])
         /\ \A j \in 1 .. HdrLen + PayLen(p[k]) : Request(p, k)[j] = <<k, j>>
<1>1. HdrLen + PayLen(p[k]) \in Nat
  BY Facts
<1> QED
  BY <1>1, BytesType DEF Request

\* The first n requests, and one more.
LEMMA RequestsStep ==
  ASSUME NEW p, NEW n \in Nat
  PROVE  /\ Requests(p, n) \in Seq(Byte)
         /\ Requests(p, n + 1) = Requests(p, n) \o Request(p, n + 1)
         /\ Requests(p, 0) = <<>>
<1> DEFINE g == [k \in Nat |-> Request(p, k)]
<1>1. g \in [Nat -> Seq(Byte)] /\ g[n + 1] = Request(p, n + 1)
  BY RequestType
<1>2. ASSUME NEW m \in Nat
      PROVE  Requests(p, m) = FirstFlat(g, m)
  <2>1. \A k \in 1 .. m : k \in Nat
    OBVIOUS
  <2>2. [k \in 1 .. m |-> Request(p, k)] = [k \in 1 .. m |-> g[k]]
    BY <2>1
  <2> QED
    BY <2>2, Zenon DEF Requests, FirstFlat
<1> HIDE DEF g
<1>3. /\ Requests(p, n) = FirstFlat(g, n) /\ Requests(p, 0) = FirstFlat(g, 0)
      /\ Requests(p, n + 1) = FirstFlat(g, n + 1)
  BY <1>2
<1> QED
  BY <1>1, <1>3, FirstFlatStep

\* The first n replies, and one more.
LEMMA RepliesStep ==
  ASSUME NEW n \in Nat
  PROVE  /\ Replies(n) \in Seq(Byte)
         /\ Replies(n + 1) = Replies(n) \o Bytes(n + 1, RepLen)
         /\ Replies(0) = <<>>
<1> DEFINE g == [k \in Nat |-> Bytes(k, RepLen)]
<1>1. g \in [Nat -> Seq(Byte)] /\ g[n + 1] = Bytes(n + 1, RepLen)
  <2>1. \A k \in Nat : Bytes(k, RepLen) \in Seq(Byte)
    BY BytesType, Facts
  <2> QED
    BY <2>1
<1>2. ASSUME NEW m \in Nat
      PROVE  Replies(m) = FirstFlat(g, m)
  <2>1. \A k \in 1 .. m : k \in Nat
    OBVIOUS
  <2>2. [k \in 1 .. m |-> Bytes(k, RepLen)] = [k \in 1 .. m |-> g[k]]
    BY <2>1
  <2> QED
    BY <2>2, Zenon DEF Replies, FirstFlat
<1> HIDE DEF g
<1>3. /\ Replies(n) = FirstFlat(g, n) /\ Replies(0) = FirstFlat(g, 0)
      /\ Replies(n + 1) = FirstFlat(g, n + 1)
  BY <1>2
<1> QED
  BY <1>1, <1>3, FirstFlatStep

\* The requests executed are the beginning of what the client sends.
LEMMA StreamSplit ==
  ASSUME NEW p \in Seq(Ops), NEW d \in 0 .. Len(p)
  PROVE  \E t \in Seq(Byte) : Stream(p) = Requests(p, d) \o t
<1> DEFINE S == {i \in Nat : i <= Len(p) =>
                     \E t \in Seq(Byte) : Stream(p) = Requests(p, Len(p) - i) \o t}
<1>0. Len(p) \in Nat
  OBVIOUS
<1>1. 0 \in S
  <2>1. Len(p) - 0 = Len(p)
    BY <1>0
  <2>2. Requests(p, Len(p)) \in Seq(Byte)
    BY <1>0, RequestsStep
  <2>3. Stream(p) = Requests(p, Len(p)) \o <<>> /\ <<>> \in Seq(Byte)
    BY <2>2, ConcatEmptySeq DEF Stream
  <2> QED
    BY <2>1, <2>3
<1>2. ASSUME NEW i \in Nat, i \in S
      PROVE  i + 1 \in S
  <2> SUFFICES ASSUME i + 1 <= Len(p)
               PROVE  \E t \in Seq(Byte) : Stream(p) = Requests(p, Len(p) - (i + 1)) \o t
    OBVIOUS
  <2> DEFINE n == Len(p) - (i + 1)
  <2>1. n \in Nat /\ n + 1 = Len(p) - i /\ i <= Len(p)
    BY <1>0
  <2>2. PICK t \in Seq(Byte) : Stream(p) = Requests(p, n + 1) \o t
    BY <1>2, <2>1
  <2> HIDE DEF n
  <2>3. /\ Requests(p, n) \in Seq(Byte) /\ Request(p, n + 1) \in Seq(Byte)
        /\ Requests(p, n + 1) = Requests(p, n) \o Request(p, n + 1)
    <3>1. n + 1 \in Nat
      BY <2>1
    <3> QED
      BY <2>1, <3>1, RequestsStep, RequestType
  <2>4. Stream(p) = Requests(p, n) \o (Request(p, n + 1) \o t)
    <3>1. (Requests(p, n) \o Request(p, n + 1)) \o t = Requests(p, n) \o (Request(p, n + 1) \o t)
      BY <2>2, <2>3, Assoc, Zenon
    <3> QED
      BY <2>2, <2>3, <3>1
  <2>5. Request(p, n + 1) \o t \in Seq(Byte)
    BY <2>3
  <2> QED
    BY <2>4, <2>5 DEF n
<1> HIDE DEF S
<1>3. \A i \in Nat : i \in S
  BY <1>1, <1>2, SetInduction
<1>4. Len(p) - d \in Nat /\ Len(p) - d <= Len(p) /\ Len(p) - (Len(p) - d) = d
  BY <1>0
<1> QED
  BY <1>3, <1>4 DEF S

\* What follows the requests executed is the next request, byte by byte.
LEMMA NextBytes ==
  ASSUME NEW p \in Seq(Ops), NEW d \in 0 .. Len(p), NEW n \in 0 .. Len(Stream(p)),
         NEW b \in Seq(Byte), NEW r \in Seq(Byte), b # <<>>,
         SubSeq(Stream(p), 1, n) = Requests(p, d) \o b \o r
  PROVE  /\ d < Len(p)
         /\ \A j \in 1 .. Len(b) : j <= HdrLen + PayLen(p[d + 1]) => b[j] = <<d + 1, j>>
<1> DEFINE R == Requests(p, d)
           q == Request(p, d + 1)
           m == Len(R)
           len == HdrLen + PayLen(p[d + 1])
           s == Stream(p)
<1>1. /\ d \in Nat /\ Len(p) \in Nat /\ R \in Seq(Byte) /\ m \in Nat
      /\ Len(b) \in Nat /\ Len(b) > 0 /\ Len(r) \in Nat /\ len \in Nat
  <2>1. d \in Nat /\ Len(p) \in Nat /\ Len(b) \in Nat /\ Len(b) > 0 /\ Len(r) \in Nat
    OBVIOUS
  <2>2. R \in Seq(Byte)
    BY <2>1, RequestsStep
  <2>3. m \in Nat
    BY <2>2
  <2>4. len \in Nat
    <3>1. PayLen(p[d + 1]) \in 0 .. 2
      BY Facts
    <3> QED
      BY <3>1, Facts
  <2> QED
    BY <2>1, <2>2, <2>3, <2>4
<1>2. s \in Seq(Byte) /\ Len(s) \in Nat
  BY <1>1, RequestsStep DEF Stream
<1>3. /\ q \in Seq(Byte) /\ Len(q) = len /\ \A j \in 1 .. len : q[j] = <<d + 1, j>>
  <2>1. d + 1 \in Nat
    BY <1>1
  <2> QED
    BY <2>1, RequestType
<1> HIDE DEF R, q, m, len, s
<1>4. SubSeq(s, 1, n) = (R \o b) \o r
  BY DEF s, R
<1>5. n = m + Len(b) + Len(r)
  <2>1. Len(SubSeq(s, 1, n)) = n
    BY <1>2, SplitAt DEF s
  <2>2. R \o b \in Seq(Byte) /\ Len(R \o b) = m + Len(b)
    BY <1>1 DEF m
  <2>3. Len((R \o b) \o r) = (m + Len(b)) + Len(r)
    BY <2>2
  <2> QED
    BY <1>4, <2>1, <2>3
<1>6. \A j \in 1 .. Len(b) : s[m + j] = b[j]
  <2> SUFFICES ASSUME NEW j \in 1 .. Len(b)
               PROVE  s[m + j] = b[j]
    OBVIOUS
  <2>1. m + j \in 1 .. n /\ m + j \in 1 .. m + Len(b) /\ m + j > m
    BY <1>1, <1>5
  <2>2. SubSeq(s, 1, n)[m + j] = s[m + j]
    <3>1. n \in 0 .. Len(s)
      BY DEF s
    <3> QED
      BY <1>2, <2>1, <3>1
  <2>3. R \o b \in Seq(Byte) /\ Len(R \o b) = m + Len(b) /\ (R \o b)[m + j] = b[j]
    BY <1>1, <2>1 DEF m
  <2>4. ((R \o b) \o r)[m + j] = (R \o b)[m + j]
    BY <2>1, <2>3
  <2> QED
    BY <1>4, <2>2, <2>3, <2>4
<1>7. d < Len(p)
  <2> SUFFICES ASSUME d = Len(p)
               PROVE  FALSE
    BY <1>1
  <2>1. Len(s) = m
    BY DEF s, Stream, m, R
  <2> QED
    BY <1>1, <1>5, <2>1 DEF s
<1>8. PICK t \in Seq(Byte) : s = R \o (q \o t)
  <2>1. d + 1 \in 0 .. Len(p)
    BY <1>1, <1>7
  <2>2. PICK t \in Seq(Byte) : Stream(p) = Requests(p, d + 1) \o t
    BY <2>1, StreamSplit
  <2>3. Requests(p, d + 1) = R \o q
    BY <1>1, RequestsStep DEF R, q
  <2>4. (R \o q) \o t = R \o (q \o t)
    BY <1>1, <1>3, Assoc
  <2> QED
    BY <2>2, <2>3, <2>4 DEF s
<1>9. ASSUME NEW j \in 1 .. Len(b), j <= len
      PROVE  b[j] = <<d + 1, j>>
  <2>1. j \in 1 .. len
    BY <1>1, <1>9
  <2>2. (q \o t)[j] = q[j] /\ q \o t \in Seq(Byte) /\ j \in 1 .. Len(q \o t)
    BY <1>1, <1>3, <2>1
  <2>3. (R \o (q \o t))[m + j] = (q \o t)[j]
    BY <1>1, <2>2, Concat DEF m
  <2> QED
    BY <1>3, <1>6, <1>8, <2>1, <2>2, <2>3
<1> QED
  BY <1>7, <1>9 DEF len

\* A buffer with as many bytes as the next request holds that request.
LEMMA WholeRequest ==
  ASSUME NEW p \in Seq(Ops), NEW d \in 0 .. Len(p), NEW n \in 0 .. Len(Stream(p)),
         NEW b \in Seq(Byte), NEW r \in Seq(Byte),
         SubSeq(Stream(p), 1, n) = Requests(p, d) \o b \o r,
         Len(b) = HdrLen + PayLen(p[d + 1])
  PROVE  d < Len(p) /\ b = Request(p, d + 1)
<1>1. b # <<>>
  BY Facts
<1>2. /\ d < Len(p)
      /\ \A j \in 1 .. Len(b) : j <= HdrLen + PayLen(p[d + 1]) => b[j] = <<d + 1, j>>
  BY <1>1, NextBytes
<1>3. d + 1 \in Nat /\ Len(b) \in Nat
  OBVIOUS
<1>4. /\ Request(p, d + 1) \in Seq(Byte) /\ Len(Request(p, d + 1)) = Len(b)
      /\ \A j \in 1 .. Len(b) : Request(p, d + 1)[j] = <<d + 1, j>>
  BY <1>3, RequestType
<1>5. ASSUME NEW j \in 1 .. Len(b)
      PROVE  b[j] = Request(p, d + 1)[j]
  <2>1. j <= HdrLen + PayLen(p[d + 1])
    BY <1>3
  <2> QED
    BY <1>2, <1>4, <2>1
<1> QED
  BY <1>2, <1>4, <1>5, SeqEqual

-----------------------------------------------------------------------------
\* The inductive invariant.

\* The event loop: in handle_read and handle_write the connection it handles
\* is in a state for it; the events still to be handled are of other
\* connections, none of which has been closed since epoll_wait.
LoopInv ==
    /\ epc \in {"top", "batch", "stopped"} => cur = 0
    /\ epc \in {"top", "stopped"} => batch = {}
    /\ epc = "read" => cur \in Fd /\ conn[cur].state \in {"ReadHeader", "ReadPayload", "Process"}
    /\ epc = "write" => cur \in Fd /\ conn[cur].state = "WriteResponse"
    /\ \A f \in Fd : f \in batch => f # cur /\ conn[f].state # "None"

\* The registration follows the state; Process does not outlive handle_read;
\* a connection ends before its descriptor is handed out again.
Armed(f) ==
    /\ interest[f] = CASE conn[f].state = "None" -> "none"
                       [] conn[f].state = "WriteResponse" -> "out"
                       [] OTHER -> "in"
    /\ conn[f].state = "Process" => epc = "read" /\ cur = f
    /\ conn[f].state = "None" => conn[f] = NoConn
    /\ client[f] = "none" \/ epc = "stopped" => conn[f].state = "None"

\* What the buffers hold in each state: a part of the next request, or a reply.
Buffers(f) ==
    LET c == conn[f]
        len == HdrLen + PayLen(prog[f][done[f] + 1])
    IN  /\ c.state = "ReadHeader" => Len(c.rbuf) < HdrLen
        /\ c.state = "ReadPayload" => HdrLen <= Len(c.rbuf) /\ Len(c.rbuf) < len
        /\ c.state = "Process" => Len(c.rbuf) = len
        /\ c.state = "WriteResponse" => c.rbuf = <<>>
        /\ c.state # "WriteResponse" => c.wbuf = <<>>

\* StreamIntact and RepliesInOrder, also for a client not yet accepted.
Framed(f) ==
    client[f] # "none" /\ epc # "stopped" =>
        /\ sent[f] <= Len(Stream(prog[f])) /\ done[f] <= Len(prog[f])
        /\ SubSeq(Stream(prog[f]), 1, sent[f]) =
               Requests(prog[f], done[f]) \o conn[f].rbuf \o rx[f]
        /\ tx[f] \o conn[f].wbuf = Replies(done[f])

Inv ==
    /\ TypeOK /\ LoopInv
    /\ \A f \in Fd : Armed(f) /\ Buffers(f) /\ Framed(f)

\* The part of the invariant about one connection.
ConnInv(f) == Armed(f) /\ Buffers(f) /\ Framed(f)

\* A connection that a step does not touch keeps its invariant.
LEMMA Untouched ==
  ASSUME Inv, NEW f \in Fd,
         /\ client'[f] = client[f] /\ prog'[f] = prog[f] /\ sent'[f] = sent[f]
         /\ rx'[f] = rx[f] /\ tx'[f] = tx[f] /\ conn'[f] = conn[f]
         /\ interest'[f] = interest[f] /\ done'[f] = done[f],
         epc' = "stopped" <=> epc = "stopped",
         conn[f].state = "Process" => epc' = epc /\ cur' = cur
  PROVE  ConnInv(f)'
<1>1. Armed(f) /\ Buffers(f) /\ Framed(f)
  BY DEF Inv
<1>2. Armed(f)'
  BY <1>1 DEF Armed
<1>3. Buffers(f)'
  BY <1>1 DEF Buffers
<1>4. Framed(f)'
  BY <1>1 DEF Framed
<1> QED
  BY <1>2, <1>3, <1>4 DEF ConnInv

\* What is known of one connection.
LEMMA OneConn ==
  ASSUME Inv, NEW f \in Fd
  PROVE  /\ client[f] \in {"none", "open", "closed"}
         /\ prog[f] \in Seq(Ops) /\ Len(prog[f]) \in Nat /\ sent[f] \in Nat /\ done[f] \in Nat
         /\ rx[f] \in Seq(Byte) /\ tx[f] \in Seq(Byte)
         /\ conn[f] \in [state : State, rbuf : Seq(Byte), wbuf : Seq(Byte)]
         /\ conn[f].state \in State /\ conn[f].rbuf \in Seq(Byte) /\ conn[f].wbuf \in Seq(Byte)
         /\ interest[f] \in {"none", "in", "out"}
         /\ Armed(f) /\ Buffers(f) /\ Framed(f)
BY ProgramType DEF Inv, TypeOK

\* A new connection reuses the descriptor with nothing left of the last one.
LEMMA ConnectStep ==
  ASSUME Inv, NEW f \in Fd, Connect(f)
  PROVE  Inv'
<1>1. PICK p \in Programs :
        /\ client[f] = "none" /\ client' = [client EXCEPT ![f] = "open"]
        /\ prog' = [prog EXCEPT ![f] = p]
        /\ sent' = [sent EXCEPT ![f] = 0] /\ rx' = [rx EXCEPT ![f] = <<>>]
        /\ tx' = [tx EXCEPT ![f] = <<>>] /\ done' = [done EXCEPT ![f] = 0]
        /\ connects' = connects + 1
        /\ UNCHANGED <<conn, interest, shutdown_flag, epc, batch, cur>>
  BY DEF Connect, loop
<1>2. conn[f] = NoConn
  BY <1>1, OneConn DEF Armed
<1>3. TypeOK'
  <2>1. <<>> \in Seq(Byte)
    OBVIOUS
  <2> QED
    BY <1>1, <2>1 DEF Inv, TypeOK
<1>4. LoopInv'
  BY <1>1 DEF Inv, LoopInv
<1>5. ASSUME NEW g \in Fd
      PROVE  ConnInv(g)'
  <2>1. CASE g # f
    BY <1>1, <2>1, Untouched DEF Inv, TypeOK
  <2>2. CASE g = f
    <3>1. /\ client'[f] = "open" /\ prog'[f] = p /\ sent'[f] = 0 /\ rx'[f] = <<>>
          /\ tx'[f] = <<>> /\ done'[f] = 0 /\ conn'[f] = NoConn /\ interest'[f] = interest[f]
          /\ epc' = epc /\ cur' = cur /\ interest[f] = "none"
      BY <1>1, <1>2, OneConn DEF Inv, TypeOK, Armed, NoConn
    <3>2. Armed(f)' /\ Buffers(f)'
      BY <3>1 DEF Armed, Buffers, NoConn
    <3>3. /\ p \in Seq(Ops) /\ Len(p) \in Nat /\ Stream(p) \in Seq(Byte) /\ Len(Stream(p)) \in Nat
          /\ Requests(p, 0) = <<>> /\ Replies(0) = <<>>
      <4>1. p \in Seq(Ops) /\ Len(p) \in Nat
        BY ProgramType
      <4>2. Stream(p) \in Seq(Byte)
        BY <4>1, RequestsStep DEF Stream
      <4>3. Requests(p, 0) = <<>> /\ Replies(0) = <<>>
        BY RequestsStep, RepliesStep
      <4> QED
        BY <4>1, <4>2, <4>3
    <3>4. SubSeq(Stream(p), 1, 0) = <<>>
      BY SubSeqEmpty
    <3>5. <<>> \o <<>> \o <<>> = <<>> /\ <<>> \o <<>> = <<>>
      OBVIOUS
    <3>6. Framed(f)'
      BY <3>1, <3>3, <3>4, <3>5 DEF Framed, NoConn
    <3> QED
      BY <2>2, <3>2, <3>6 DEF ConnInv
  <2> QED
    BY <2>1, <2>2
<1> QED
  BY <1>3, <1>4, <1>5 DEF Inv, ConnInv

\* A byte sent arrives behind those received before.
LEMMA SendStep ==
  ASSUME Inv, NEW f \in Fd, Send(f)
  PROVE  Inv'
<1> DEFINE p == prog[f]
           b == Stream(p)[sent[f] + 1]
<1>1. /\ client[f] = "open" /\ sent[f] < Len(Stream(p))
      /\ sent' = [sent EXCEPT ![f] = @ + 1]
      /\ rx' = [rx EXCEPT ![f] = Append(@, b)]
      /\ UNCHANGED <<client, prog, connects, tx, conn, interest, done, shutdown_flag, epc, batch, cur>>
  BY DEF Send, loop
<1>2. /\ p \in Seq(Ops) /\ sent[f] \in Nat /\ rx[f] \in Seq(Byte) /\ done[f] \in Nat
      /\ conn[f].rbuf \in Seq(Byte) /\ Armed(f) /\ Buffers(f) /\ Framed(f)
  BY OneConn
<1>3. Stream(p) \in Seq(Byte) /\ Len(Stream(p)) \in Nat
  <2>1. Stream(p) \in Seq(Byte)
    BY <1>2, RequestsStep, OneConn DEF Stream
  <2> QED
    BY <2>1
<1>4. b \in Byte
  BY <1>1, <1>2, <1>3
<1> HIDE DEF b
<1>5. TypeOK'
  <2>1. Append(rx[f], b) \in Seq(Byte)
    BY <1>2, <1>4
  <2> QED
    BY <1>1, <1>2, <2>1 DEF Inv, TypeOK
<1>6. LoopInv'
  BY <1>1 DEF Inv, LoopInv
<1>7. ASSUME NEW g \in Fd
      PROVE  ConnInv(g)'
  <2>1. CASE g # f
    BY <1>1, <2>1, Untouched DEF Inv, TypeOK
  <2>2. CASE g = f
    <3>1. sent'[f] = sent[f] + 1 /\ rx'[f] = Append(rx[f], b)
      BY <1>1 DEF Inv, TypeOK
    <3>2. Armed(f)' /\ Buffers(f)'
      BY <1>1, <1>2 DEF Armed, Buffers
    <3>3. CASE epc = "stopped"
      BY <1>1, <2>2, <3>2, <3>3 DEF ConnInv, Framed
    <3>4. CASE epc # "stopped"
      <4> DEFINE R == Requests(p, done[f])
                 c == conn[f].rbuf
      <4>1. R \in Seq(Byte) /\ SubSeq(Stream(p), 1, sent[f]) = R \o c \o rx[f]
        BY <1>1, <1>2, <3>4, RequestsStep DEF Framed
      <4>2. SubSeq(Stream(p), 1, sent[f] + 1) = Append(SubSeq(Stream(p), 1, sent[f]), b)
        <5>1. sent[f] + 1 \in 1 .. Len(Stream(p)) /\ (sent[f] + 1) - 1 = sent[f]
          BY <1>1, <1>2, <1>3
        <5>2. /\ 1 \in 1 .. Len(Stream(p)) /\ sent[f] + 1 \in 1 .. Len(Stream(p))
          BY <1>3, <5>1
        <5>3. SubSeq(Stream(p), 1, sent[f] + 1) = SubSeq(Stream(p), 1, (sent[f] + 1) - 1) \o <<b>>
          BY <1>3, <5>2, SubSeqRecursiveSecond DEF b
        <5>4. SubSeq(Stream(p), 1, sent[f]) \in Seq(Byte)
          BY <1>1, <1>2, <1>3, SplitAt
        <5> QED
          BY <1>4, <5>1, <5>3, <5>4, AppendIsConcat
      <4> HIDE DEF R, c
      <4>3. c \in Seq(Byte) /\ R \o c \in Seq(Byte)
        BY <1>2, <4>1 DEF c
      <4>4. Append((R \o c) \o rx[f], b) = (R \o c) \o Append(rx[f], b)
        BY <1>2, <1>4, <4>3, AppendLast
      <4>5. SubSeq(Stream(p), 1, sent[f] + 1) = R \o c \o Append(rx[f], b)
        BY <4>1, <4>2, <4>4
      <4>6. Framed(f)'
        <5>1. sent[f] + 1 <= Len(Stream(p)) /\ done[f] <= Len(p)
          BY <1>1, <1>2, <1>3, <3>4 DEF Framed
        <5>2. tx[f] \o conn[f].wbuf = Replies(done[f])
          BY <1>1, <1>2, <3>4 DEF Framed
        <5>3. prog'[f] = p /\ done'[f] = done[f] /\ conn'[f] = conn[f] /\ tx'[f] = tx[f]
          BY <1>1
        <5> QED
          BY <3>1, <4>5, <5>1, <5>2, <5>3 DEF Framed, R, c
      <4> QED
        BY <2>2, <3>2, <4>6 DEF ConnInv
    <3> QED
      BY <3>3, <3>4
  <2> QED
    BY <2>1, <2>2
<1> QED
  BY <1>5, <1>6, <1>7 DEF Inv, ConnInv

\* Closing ends the connection being handled, whatever is left of its input.
LEMMA CloseStep ==
  ASSUME Inv, cur \in Fd, epc \in {"read", "write"}, Close(cur), Return,
         rx' \in [Fd -> Seq(Byte)], \A g \in Fd \ {cur} : rx'[g] = rx[g],
         UNCHANGED <<tx, done, shutdown_flag>>
  PROVE  Inv'
<1>1. /\ conn' = [conn EXCEPT ![cur] = NoConn]
      /\ interest' = [interest EXCEPT ![cur] = "none"]
      /\ client' = [client EXCEPT ![cur] = "none"]
      /\ epc' = "batch" /\ cur' = 0
      /\ UNCHANGED <<prog, sent, connects, batch, tx, done, shutdown_flag>>
  BY DEF Close, Return
<1>2. NoConn \in [state : State, rbuf : Seq(Byte), wbuf : Seq(Byte)] /\ Len(NoConn.rbuf) = 0
      /\ Len(NoConn.wbuf) = 0
  BY DEF NoConn, State
<1>3. TypeOK'
  <2>1. conn' \in [Fd -> [state : State, rbuf : Seq(Byte), wbuf : Seq(Byte)]]
    BY <1>1, <1>2 DEF Inv, TypeOK
  <2>2. \A f \in Fd : Len(conn'[f].rbuf) <= HdrLen + 2 /\ Len(conn'[f].wbuf) <= RepLen
    <3>1. \A f \in Fd : conn'[f] = IF f = cur THEN NoConn ELSE conn[f]
      BY <1>1 DEF Inv, TypeOK
    <3>2. \A f \in Fd : Len(conn[f].rbuf) <= HdrLen + 2 /\ Len(conn[f].wbuf) <= RepLen
      BY DEF Inv, TypeOK
    <3> QED
      BY <1>2, <3>1, <3>2, Facts
  <2>3. /\ interest' \in [Fd -> {"none", "in", "out"}]
        /\ client' \in [Fd -> {"none", "open", "closed"}]
    BY <1>1 DEF Inv, TypeOK
  <2>4. /\ prog' \in [Fd -> Programs \cup {<<>>}] /\ sent' \in [Fd -> Nat]
        /\ tx' \in [Fd -> Seq(Byte)] /\ connects' \in Nat /\ done' \in [Fd -> Nat]
        /\ shutdown_flag' \in BOOLEAN /\ batch' \subseteq Fd \cup {Listen}
    BY <1>1 DEF Inv, TypeOK
  <2> QED
    BY <1>1, <2>1, <2>2, <2>3, <2>4 DEF TypeOK
<1>4. LoopInv'
  <2>1. \A f \in Fd : f \in batch => f # cur /\ conn[f].state # "None"
    BY DEF Inv, LoopInv
  <2>2. \A f \in Fd : f # 0
    BY Facts
  <2> QED
    <3>1. \A f \in Fd \ {cur} : conn'[f] = conn[f]
      BY <1>1 DEF Inv, TypeOK
    <3> QED
      BY <1>1, <2>1, <2>2, <3>1 DEF LoopInv
<1>5. ASSUME NEW g \in Fd
      PROVE  ConnInv(g)'
  <2>1. CASE g # cur
    <3>1. conn[g].state # "Process"
      BY <2>1, OneConn DEF Armed
    <3> QED
      BY <1>1, <2>1, <3>1, Untouched DEF Inv, TypeOK
  <2>2. CASE g = cur
    <3>1. client'[g] = "none" /\ conn'[g] = NoConn /\ interest'[g] = "none"
      BY <1>1, <2>2 DEF Inv, TypeOK
    <3> QED
      BY <3>1 DEF ConnInv, Armed, Buffers, Framed, NoConn
  <2> QED
    BY <2>1, <2>2
<1> QED
  BY <1>3, <1>4, <1>5 DEF Inv, ConnInv

\* Steps that change no connection: a hang-up, a signal, epoll_wait, the end of
\* a batch, the dispatch of an event, EAGAIN.
LEMMA QuietStep ==
  ASSUME Inv, UNCHANGED <<prog, sent, connects, rx, tx, conn, interest, done>>,
         client' \in [Fd -> {"none", "open", "closed"}],
         \A f \in Fd : client'[f] = "none" <=> client[f] = "none",
         shutdown_flag' \in BOOLEAN,
         epc' \in {"top", "batch", "read", "write", "stopped"},
         batch' \subseteq Fd \cup {Listen}, cur' \in Fd \cup {0},
         epc' = "stopped" <=> epc = "stopped",
         \A f \in Fd : conn[f].state = "Process" => epc' = epc /\ cur' = cur,
         LoopInv'
  PROVE  Inv'
<1>1. TypeOK'
  BY DEF Inv, TypeOK
<1>2. ASSUME NEW f \in Fd
      PROVE  ConnInv(f)'
  <2>1. Armed(f) /\ Buffers(f) /\ Framed(f)
    BY DEF Inv
  <2>2. Armed(f)'
    BY <2>1 DEF Armed
  <2>3. Buffers(f)'
    BY <2>1 DEF Buffers
  <2>4. Framed(f)'
    BY <2>1 DEF Framed
  <2> QED
    BY <2>2, <2>3, <2>4 DEF ConnInv
<1> QED
  BY <1>1, <1>2 DEF Inv, ConnInv

\* The steps of clients and of the loop itself that QuietStep covers.
LEMMA QuietSteps ==
  ASSUME Inv,
         \/ \E f \in Fd : Hangup(f) \/ Dispatch(f)
         \/ Signal \/ EpollWait \/ BatchDone \/ WriteAgain \/ UNCHANGED vars
  PROVE  Inv'
<1> USE DEF Inv
<1>1. ASSUME NEW f \in Fd, Hangup(f)
      PROVE  Inv'
  <2>1. /\ UNCHANGED <<prog, sent, connects, rx, tx, conn, interest, done, shutdown_flag, epc, batch, cur>>
        /\ client' = [client EXCEPT ![f] = "closed"] /\ client[f] = "open"
    BY <1>1 DEF Hangup, loop
  <2>2. LoopInv'
    BY <2>1 DEF LoopInv
  <2>3. /\ client' \in [Fd -> {"none", "open", "closed"}]
        /\ \A g \in Fd : client'[g] = "none" <=> client[g] = "none"
    BY <2>1 DEF TypeOK
  <2> HIDE DEF Inv
  <2>4. /\ shutdown_flag' \in BOOLEAN
        /\ epc' \in {"top", "batch", "read", "write", "stopped"}
        /\ batch' \subseteq Fd \cup {Listen} /\ cur' \in Fd \cup {0}
        /\ epc' = epc /\ cur' = cur
    BY <2>1 DEF Inv, TypeOK
  <2> QED
    BY <2>1, <2>2, <2>3, <2>4, QuietStep
<1>2. ASSUME NEW f \in Fd, Dispatch(f)
      PROVE  Inv'
  <2>1. /\ UNCHANGED <<client, prog, sent, connects, rx, tx, conn, interest, done, shutdown_flag>>
        /\ epc = "batch" /\ f \in batch /\ batch' = batch \ {f} /\ cur' = f
        /\ epc' = IF interest[f] = "in" THEN "read" ELSE "write"
    BY <1>2 DEF Dispatch, peer
  <2>2. \A g \in Fd : conn[g].state # "Process"
    BY <2>1 DEF Armed
  <2>3. conn[f].state # "None" /\ conn[f].state \in State
    BY <2>1, OneConn DEF LoopInv
  <2>4. /\ interest[f] = "in" => conn[f].state \in {"ReadHeader", "ReadPayload"}
        /\ interest[f] # "in" => conn[f].state = "WriteResponse"
    BY <2>2, <2>3 DEF Armed, State
  <2>5. LoopInv'
    BY <2>1, <2>4 DEF LoopInv
  <2> HIDE DEF Inv
  <2>6. /\ client' \in [Fd -> {"none", "open", "closed"}] /\ shutdown_flag' \in BOOLEAN
        /\ epc' \in {"top", "batch", "read", "write", "stopped"}
        /\ batch' \subseteq Fd \cup {Listen} /\ cur' \in Fd \cup {0}
        /\ epc' # "stopped" /\ epc # "stopped"
    BY <2>1 DEF Inv, TypeOK
  <2> QED
    BY <2>1, <2>2, <2>5, <2>6, QuietStep
<1>3. CASE Signal \/ UNCHANGED vars
  <2>1. /\ UNCHANGED <<client, prog, sent, connects, rx, tx, conn, interest, done, epc, batch, cur>>
        /\ shutdown_flag' \in BOOLEAN
    BY <1>3 DEF Signal, vars, peer, loop, TypeOK
  <2>2. LoopInv'
    BY <2>1 DEF LoopInv
  <2> HIDE DEF Inv
  <2>3. /\ client' \in [Fd -> {"none", "open", "closed"}]
        /\ epc' \in {"top", "batch", "read", "write", "stopped"}
        /\ batch' \subseteq Fd \cup {Listen} /\ cur' \in Fd \cup {0}
        /\ epc' = epc /\ cur' = cur
    BY <2>1 DEF Inv, TypeOK
  <2> QED
    BY <2>1, <2>2, <2>3, QuietStep
<1>4. CASE EpollWait
  <2>1. /\ UNCHANGED <<client, prog, sent, connects, rx, tx, conn, interest, done, shutdown_flag, cur>>
        /\ epc = "top" /\ epc' = "batch" /\ batch' \subseteq Fd \cup {Listen}
        /\ \A f \in Fd : f \in batch' => Readable(f) \/ Writable(f)
    <3>1. \A f \in Fd : f # Listen
      BY Facts DEF Listen
    <3> QED
      BY <1>4, <3>1 DEF EpollWait, peer
  <2>2. \A f \in Fd : conn[f].state # "Process"
    BY <2>1 DEF Armed
  <2>3. \A f \in Fd : f \in batch' => conn[f].state # "None"
    BY <2>1 DEF Armed, Readable, Writable
  <2>4. cur = 0 /\ \A f \in Fd : f # 0
    BY <2>1, Facts DEF LoopInv
  <2>5. LoopInv'
    BY <2>1, <2>3, <2>4 DEF LoopInv
  <2> HIDE DEF Inv
  <2>6. /\ client' \in [Fd -> {"none", "open", "closed"}] /\ shutdown_flag' \in BOOLEAN
        /\ cur' \in Fd \cup {0}
    BY <2>1 DEF Inv, TypeOK
  <2> QED
    BY <2>1, <2>2, <2>5, <2>6, QuietStep
<1>5. CASE BatchDone \/ WriteAgain
  <2>1. /\ UNCHANGED <<client, prog, sent, connects, rx, tx, conn, interest, done, shutdown_flag, batch>>
        /\ \/ epc = "batch" /\ batch = {} /\ epc' = "top" /\ cur' = cur
           \/ epc = "write" /\ epc' = "batch" /\ cur' = 0
    BY <1>5 DEF BatchDone, WriteAgain, Return, peer
  <2>2. \A f \in Fd : conn[f].state # "Process"
    BY <2>1 DEF Armed
  <2>3. \A f \in Fd : f # 0
    BY Facts
  <2>4. LoopInv'
    BY <2>1, <2>3 DEF LoopInv
  <2> HIDE DEF Inv
  <2>5. /\ client' \in [Fd -> {"none", "open", "closed"}] /\ shutdown_flag' \in BOOLEAN
        /\ batch' \subseteq Fd \cup {Listen} /\ cur' \in Fd \cup {0}
    BY <2>1 DEF Inv, TypeOK
  <2> QED
    BY <2>1, <2>2, <2>4, <2>5, QuietStep
<1> QED
  BY <1>1, <1>2, <1>3, <1>4, <1>5

\* Accepting gives the connections of the backlog empty buffers.
LEMMA AcceptStep ==
  ASSUME Inv, Accept
  PROVE  Inv'
<1>1. PICK A \in SUBSET Backlog :
        /\ conn' = [f \in Fd |-> IF f \in A THEN NewConn ELSE conn[f]]
        /\ interest' = [f \in Fd |-> IF f \in A THEN "in" ELSE interest[f]]
        /\ epc = "batch" /\ batch' = batch \ {Listen}
        /\ UNCHANGED <<client, prog, sent, connects, rx, tx, done, shutdown_flag, epc, cur>>
  BY DEF Accept, peer
<1>2. NewConn \in [state : State, rbuf : Seq(Byte), wbuf : Seq(Byte)] /\ Len(NewConn.rbuf) = 0
      /\ Len(NewConn.wbuf) = 0
  BY DEF NewConn, State
<1>3. TypeOK'
  <2>1. conn' \in [Fd -> [state : State, rbuf : Seq(Byte), wbuf : Seq(Byte)]]
    BY <1>1, <1>2 DEF Inv, TypeOK
  <2>2. \A f \in Fd : Len(conn'[f].rbuf) <= HdrLen + 2 /\ Len(conn'[f].wbuf) <= RepLen
    BY <1>1, <1>2, Facts DEF Inv, TypeOK
  <2>3. interest' \in [Fd -> {"none", "in", "out"}]
    BY <1>1 DEF Inv, TypeOK
  <2> QED
    BY <1>1, <2>1, <2>2, <2>3 DEF Inv, TypeOK
<1>4. LoopInv'
  <2>1. \A f \in Fd : conn'[f].state = conn[f].state \/ conn'[f].state = "ReadHeader"
    BY <1>1 DEF NewConn
  <2> QED
    BY <1>1, <2>1 DEF Inv, LoopInv
<1>5. ASSUME NEW g \in Fd
      PROVE  ConnInv(g)'
  <2>1. CASE g \notin A
    BY <1>1, <2>1, Untouched
  <2>2. CASE g \in A
    <3>1. client[g] # "none" /\ interest[g] = "none"
      BY <1>1, <2>2 DEF Backlog
    <3>2. conn[g] = NoConn
      BY <3>1, OneConn DEF Armed
    <3>3. conn'[g] = NewConn /\ interest'[g] = "in"
      BY <1>1, <2>2
    <3>4. Armed(g)'
      BY <1>1, <3>1, <3>3 DEF Armed, NewConn
    <3>5. Buffers(g)'
      BY <1>1, <3>3, Facts DEF Buffers, NewConn
    <3>6. Framed(g)'
      <4>1. NewConn.rbuf = conn[g].rbuf /\ NewConn.wbuf = conn[g].wbuf
        BY <3>2 DEF NewConn, NoConn
      <4>2. Framed(g)
        BY OneConn
      <4> QED
        BY <1>1, <3>3, <4>1, <4>2 DEF Framed
    <3> QED
      BY <3>4, <3>5, <3>6 DEF ConnInv
  <2> QED
    BY <2>1, <2>2
<1> QED
  BY <1>3, <1>4, <1>5 DEF Inv, ConnInv

\* Shutdown closes every connection.
LEMMA StopStep ==
  ASSUME Inv, Stop
  PROVE  Inv'
<1>1. /\ conn' = [f \in Fd |-> NoConn] /\ interest' = [f \in Fd |-> "none"]
      /\ epc = "top" /\ epc' = "stopped"
      /\ UNCHANGED <<client, prog, sent, connects, rx, tx, done, shutdown_flag, batch, cur>>
  BY DEF Stop, peer
<1>2. NoConn \in [state : State, rbuf : Seq(Byte), wbuf : Seq(Byte)] /\ Len(NoConn.rbuf) = 0
      /\ Len(NoConn.wbuf) = 0
  BY DEF NoConn, State
<1>3. TypeOK'
  <2>1. conn' \in [Fd -> [state : State, rbuf : Seq(Byte), wbuf : Seq(Byte)]]
    BY <1>1, <1>2
  <2>2. \A f \in Fd : Len(conn'[f].rbuf) <= HdrLen + 2 /\ Len(conn'[f].wbuf) <= RepLen
    BY <1>1, <1>2, Facts
  <2> QED
    BY <1>1, <2>1, <2>2 DEF Inv, TypeOK
<1>4. LoopInv'
  BY <1>1 DEF Inv, LoopInv
<1>5. ASSUME NEW g \in Fd
      PROVE  ConnInv(g)'
  BY <1>1 DEF ConnInv, Armed, Buffers, Framed, NoConn
<1> QED
  BY <1>3, <1>4, <1>5 DEF Inv, ConnInv

\* The states in which handle_read takes bytes, and what is known there.
LEMMA Reading ==
  ASSUME Inv, epc = "read"
  PROVE  /\ cur \in Fd /\ client[cur] # "none"
         /\ conn[cur].state \in {"ReadHeader", "ReadPayload", "Process"}
         /\ conn[cur].wbuf = <<>> /\ interest[cur] = "in"
         /\ sent[cur] \in 0 .. Len(Stream(prog[cur])) /\ done[cur] \in 0 .. Len(prog[cur])
         /\ SubSeq(Stream(prog[cur]), 1, sent[cur]) =
                Requests(prog[cur], done[cur]) \o conn[cur].rbuf \o rx[cur]
         /\ tx[cur] \o conn[cur].wbuf = Replies(done[cur])
<1>1. cur \in Fd /\ conn[cur].state \in {"ReadHeader", "ReadPayload", "Process"}
  BY DEF Inv, LoopInv
<1>2. /\ Armed(cur) /\ Buffers(cur) /\ Framed(cur) /\ sent[cur] \in Nat /\ done[cur] \in Nat
      /\ prog[cur] \in Seq(Ops) /\ Len(prog[cur]) \in Nat
  BY <1>1, OneConn
<1>3. client[cur] # "none" /\ interest[cur] = "in" /\ conn[cur].wbuf = <<>>
  BY <1>1, <1>2 DEF Armed, Buffers
<1>4. Len(Stream(prog[cur])) \in Nat
  <2>1. Stream(prog[cur]) \in Seq(Byte)
    BY <1>2, RequestsStep DEF Stream
  <2> QED
    BY <2>1
<1>5. /\ sent[cur] <= Len(Stream(prog[cur])) /\ done[cur] <= Len(prog[cur])
      /\ SubSeq(Stream(prog[cur]), 1, sent[cur]) =
             Requests(prog[cur], done[cur]) \o conn[cur].rbuf \o rx[cur]
      /\ tx[cur] \o conn[cur].wbuf = Replies(done[cur])
  BY <1>2, <1>3 DEF Framed
<1>6. sent[cur] \in 0 .. Len(Stream(prog[cur])) /\ done[cur] \in 0 .. Len(prog[cur])
  BY <1>2, <1>4, <1>5
<1> QED
  BY <1>1, <1>3, <1>5, <1>6

\* The first byte in a buffer tells which request it is.
LEMMA OpKnown ==
  ASSUME Inv, epc = "read", NEW b \in Seq(Byte), NEW r \in Seq(Byte), b # <<>>,
         conn[cur].rbuf \o rx[cur] = b \o r
  PROVE  /\ b[1][1] = done[cur] + 1 /\ done[cur] < Len(prog[cur])
         /\ SubSeq(Stream(prog[cur]), 1, sent[cur]) = Requests(prog[cur], done[cur]) \o b \o r
<1> DEFINE p == prog[cur]
           d == done[cur]
           R == Requests(p, d)
           c == conn[cur].rbuf
           x == rx[cur]
<1>1. /\ p \in Seq(Ops) /\ c \in Seq(Byte) /\ x \in Seq(Byte) /\ d \in Nat
      /\ d \in 0 .. Len(p) /\ sent[cur] \in 0 .. Len(Stream(p))
      /\ SubSeq(Stream(p), 1, sent[cur]) = R \o c \o x /\ c \o x = b \o r
  BY Reading, OneConn
<1>2. R \in Seq(Byte)
  BY <1>1, RequestsStep
<1> HIDE DEF p, d, R, c, x
<1>3. R \o c \o x = R \o b \o r
  <2>1. (R \o c) \o x = R \o (c \o x) /\ (R \o b) \o r = R \o (b \o r)
    BY <1>1, <1>2, Assoc
  <2> QED
    BY <1>1, <2>1
<1>4. SubSeq(Stream(p), 1, sent[cur]) = R \o b \o r
  BY <1>1, <1>3
<1>5. /\ d < Len(p)
      /\ \A j \in 1 .. Len(b) : j <= HdrLen + PayLen(p[d + 1]) => b[j] = <<d + 1, j>>
  BY <1>1, <1>4, NextBytes DEF R
<1>6. b[1] = <<d + 1, 1>>
  <2>1. 1 \in 1 .. Len(b)
    OBVIOUS
  <2>2. 1 <= HdrLen + PayLen(p[d + 1])
    <3>1. PayLen(p[d + 1]) \in 0 .. 2
      BY Facts
    <3> QED
      BY <3>1, Facts
  <2> QED
    BY <1>5, <2>1, <2>2
<1>7. b[1][1] = d + 1
  BY <1>6
<1> QED
  BY <1>4, <1>5, <1>7, Zenon DEF p, d, R

\* The bytes that one read(2) takes from the socket go to the end of rbuf.
LEMMA Taken ==
  ASSUME NEW c \in Seq(Byte), NEW x \in Seq(Byte), NEW n \in 1 .. Len(x)
  PROVE  /\ c \o SubSeq(x, 1, n) \in Seq(Byte) /\ c \o SubSeq(x, 1, n) # <<>>
         /\ Len(c \o SubSeq(x, 1, n)) = Len(c) + n
         /\ SubSeq(x, n + 1, Len(x)) \in Seq(Byte)
         /\ c \o x = (c \o SubSeq(x, 1, n)) \o SubSeq(x, n + 1, Len(x))
<1>1. n \in 0 .. Len(x) /\ n \in Nat /\ n > 0 /\ Len(c) \in Nat
  OBVIOUS
<1> DEFINE a == SubSeq(x, 1, n)
           z == SubSeq(x, n + 1, Len(x))
<1>2. a \in Seq(Byte) /\ Len(a) = n /\ z \in Seq(Byte) /\ a \o z = x
  BY <1>1, SplitAt
<1> HIDE DEF a, z
<1>3. c \o a \in Seq(Byte) /\ Len(c \o a) = Len(c) + n
  BY <1>2, Concat
<1>4. c \o a # <<>>
  BY <1>1, <1>3
<1>5. (c \o a) \o z = c \o (a \o z)
  BY <1>2, Assoc
<1> QED
  BY <1>2, <1>3, <1>4, <1>5 DEF a, z

\* How many bytes handle_read still wants, and how many it takes.
LEMMA Wanted ==
  ASSUME Inv, epc = "read", conn[cur].state \in {"ReadHeader", "ReadPayload"}, rx[cur] # <<>>
  PROVE  /\ conn[cur].state = "ReadHeader" => Needed(conn[cur]) = HdrLen
         /\ conn[cur].state = "ReadPayload" =>
                Needed(conn[cur]) = HdrLen + PayLen(prog[cur][done[cur] + 1])
         /\ Needed(conn[cur]) \in Nat /\ Len(conn[cur].rbuf) \in Nat
         /\ Len(conn[cur].rbuf) < Needed(conn[cur])
         /\ LET n == Min({Len(rx[cur]), Needed(conn[cur]) - Len(conn[cur].rbuf)})
            IN  n \in 1 .. Len(rx[cur]) /\ Len(conn[cur].rbuf) + n <= Needed(conn[cur])
<1> DEFINE c == conn[cur]
<1>1. /\ cur \in Fd /\ c.rbuf \in Seq(Byte) /\ rx[cur] \in Seq(Byte) /\ Buffers(cur)
      /\ Len(c.rbuf) \in Nat
  BY Reading, OneConn
<1>2. PayLen(prog[cur][done[cur] + 1]) \in 0 .. 2
  BY Facts
<1>3. c.state = "ReadHeader" => Needed(c) = HdrLen /\ Len(c.rbuf) < HdrLen
  BY <1>1 DEF Needed, Buffers
<1>4. c.state = "ReadPayload" => /\ Needed(c) = HdrLen + PayLen(prog[cur][done[cur] + 1])
                                 /\ Len(c.rbuf) < HdrLen + PayLen(prog[cur][done[cur] + 1])
  <2> SUFFICES ASSUME c.state = "ReadPayload"
               PROVE  /\ Needed(c) = HdrLen + PayLen(prog[cur][done[cur] + 1])
                      /\ Len(c.rbuf) < HdrLen + PayLen(prog[cur][done[cur] + 1])
    OBVIOUS
  <2>1. c.rbuf # <<>> /\ Len(c.rbuf) < HdrLen + PayLen(prog[cur][done[cur] + 1])
    BY <1>1, Facts DEF Buffers
  <2>2. c.rbuf[1][1] = done[cur] + 1
    BY <1>1, <2>1, OpKnown
  <2> QED
    BY <2>1, <2>2 DEF Needed, Op
<1>5. Needed(c) \in Nat /\ Len(c.rbuf) < Needed(c)
  BY <1>1, <1>2, <1>3, <1>4, Facts
<1> HIDE DEF c
<1>6. Len(rx[cur]) \in Nat /\ Len(rx[cur]) > 0
  BY <1>1
<1>7. /\ Min({Len(rx[cur]), Needed(c) - Len(c.rbuf)}) =
          IF Len(rx[cur]) <= Needed(c) - Len(c.rbuf)
          THEN Len(rx[cur]) ELSE Needed(c) - Len(c.rbuf)
  <2>1. Len(c.rbuf) \in Nat
    BY <1>1 DEF c
  <2>2. Len(rx[cur]) \in Int /\ Needed(c) - Len(c.rbuf) \in Int
    BY <1>5, <1>6, <2>1
  <2> QED
    BY <2>2, MinOfTwo
<1> QED
  BY <1>1, <1>3, <1>4, <1>5, <1>6, <1>7 DEF c

\* handle_read takes no byte beyond the request, so the rest stays in order.
LEMMA ReadBytesStep ==
  ASSUME Inv, ReadBytes
  PROVE  Inv'
<1> DEFINE c == conn[cur]
           x == rx[cur]
           n == Min({Len(x), Needed(c) - Len(c.rbuf)})
           buf == c.rbuf \o SubSeq(x, 1, n)
           rest == SubSeq(x, n + 1, Len(x))
           full == [c EXCEPT !.rbuf = buf]
           op == Op(full)
           d == done[cur]
           p == prog[cur]
<1>1. /\ epc = "read" /\ x # <<>> /\ c.state \in {"ReadHeader", "ReadPayload"}
      /\ rx' = [rx EXCEPT ![cur] = rest]
      /\ UNCHANGED <<tx, done, shutdown_flag>>
      /\ \/ /\ Len(buf) < Needed(c)
            /\ conn' = [conn EXCEPT ![cur] = full]
            /\ UNCHANGED <<client, prog, sent, connects, interest, epc, batch, cur>>
         \/ /\ ~(Len(buf) < Needed(c))
            /\ Close(cur) /\ Return
         \/ /\ ~(Len(buf) < Needed(c))
            /\ conn' = [conn EXCEPT ![cur] = [full EXCEPT !.state =
                    IF c.state = "ReadHeader" /\ PayLen(op) > 0
                    THEN "ReadPayload" ELSE "Process"]]
            /\ UNCHANGED <<client, prog, sent, connects, interest, epc, batch, cur>>
  BY Zenon DEF ReadBytes, peer, loop
<1>2. /\ cur \in Fd /\ client[cur] # "none" /\ c.wbuf = <<>> /\ interest[cur] = "in"
      /\ sent[cur] \in 0 .. Len(Stream(p)) /\ d \in 0 .. Len(p)
      /\ tx[cur] \o c.wbuf = Replies(d)
  BY <1>1, Reading
<1>3. /\ p \in Seq(Ops) /\ x \in Seq(Byte) /\ c.rbuf \in Seq(Byte)
      /\ c \in [state : State, rbuf : Seq(Byte), wbuf : Seq(Byte)]
  BY <1>2, OneConn
<1>4. /\ c.state = "ReadHeader" => Needed(c) = HdrLen
      /\ c.state = "ReadPayload" => Needed(c) = HdrLen + PayLen(p[d + 1])
      /\ Needed(c) \in Nat /\ Len(c.rbuf) \in Nat
      /\ n \in 1 .. Len(x) /\ Len(c.rbuf) + n <= Needed(c)
  BY <1>1, Wanted
<1> HIDE DEF n
<1>5. /\ buf \in Seq(Byte) /\ buf # <<>> /\ Len(buf) = Len(c.rbuf) + n
      /\ rest \in Seq(Byte) /\ c.rbuf \o x = buf \o rest
  BY <1>3, <1>4, Taken
<1>6. /\ buf[1][1] = d + 1
      /\ SubSeq(Stream(p), 1, sent[cur]) = Requests(p, d) \o buf \o rest
  BY <1>1, <1>5, OpKnown
<1>7. PayLen(p[d + 1]) \in 0 .. 2
  BY Facts
<1>8. /\ full.rbuf = buf /\ full.wbuf = <<>> /\ full.state = c.state
      /\ full \in [state : State, rbuf : Seq(Byte), wbuf : Seq(Byte)]
      /\ \A st \in State : /\ [full EXCEPT !.state = st].rbuf = buf
                           /\ [full EXCEPT !.state = st].wbuf = <<>>
                           /\ [full EXCEPT !.state = st].state = st
                           /\ [full EXCEPT !.state = st]
                                  \in [state : State, rbuf : Seq(Byte), wbuf : Seq(Byte)]
  BY <1>2, <1>3, <1>5
<1>9. op = p[d + 1]
  BY <1>6, <1>8 DEF Op
<1> HIDE DEF op, full, buf, rest
<1>10. rx' \in [Fd -> Seq(Byte)] /\ \A g \in Fd \ {cur} : rx'[g] = rx[g]
  BY <1>1, <1>5 DEF Inv, TypeOK
<1>11. CASE Close(cur) /\ Return
  BY <1>1, <1>2, <1>10, <1>11, CloseStep
<1>12. ASSUME NEW k, k \in [state : State, rbuf : Seq(Byte), wbuf : Seq(Byte)],
              k.rbuf = buf, k.wbuf = <<>>, k.state \in {"ReadHeader", "ReadPayload", "Process"},
              k.state = "ReadHeader" => Len(buf) < HdrLen,
              k.state = "ReadPayload" => HdrLen <= Len(buf) /\ Len(buf) < HdrLen + PayLen(p[d + 1]),
              k.state = "Process" => Len(buf) = HdrLen + PayLen(p[d + 1]),
              conn' = [conn EXCEPT ![cur] = k],
              UNCHANGED <<client, prog, sent, connects, interest, epc, batch, cur>>
       PROVE  Inv'
  <2>1. conn'[cur] = k /\ \A g \in Fd \ {cur} : conn'[g] = conn[g]
    BY <1>2, <1>12 DEF Inv, TypeOK
  <2>2. Len(k.rbuf) <= HdrLen + 2 /\ Len(k.wbuf) <= RepLen
    <3>1. Len(buf) \in Nat
      BY <1>4, <1>5
    <3>2. Len(k.wbuf) = 0
      BY <1>12
    <3> QED
      BY <1>7, <1>12, <3>1, <3>2, Facts
  <2>3. TypeOK'
    <3>1. conn' \in [Fd -> [state : State, rbuf : Seq(Byte), wbuf : Seq(Byte)]]
      BY <1>12 DEF Inv, TypeOK
    <3>2. \A f \in Fd : Len(conn[f].rbuf) <= HdrLen + 2 /\ Len(conn[f].wbuf) <= RepLen
      BY DEF Inv, TypeOK
    <3>3. \A f \in Fd : Len(conn'[f].rbuf) <= HdrLen + 2 /\ Len(conn'[f].wbuf) <= RepLen
      BY <2>1, <2>2, <3>2
    <3> QED
      BY <1>1, <1>10, <1>12, <3>1, <3>3 DEF Inv, TypeOK
  <2>4. LoopInv'
    BY <1>1, <1>2, <1>12, <2>1 DEF Inv, LoopInv
  <2>5. ASSUME NEW g \in Fd
        PROVE  ConnInv(g)'
    <3>1. CASE g # cur
      BY <1>1, <1>10, <1>12, <2>1, <3>1, Untouched
    <3>2. CASE g = cur
      <4>1. Armed(g)'
        BY <1>1, <1>2, <1>12, <2>1, <3>2 DEF Armed
      <4>2. Buffers(g)'
        BY <1>1, <1>12, <2>1, <3>2 DEF Buffers
      <4>3. rx'[cur] = rest
        BY <1>1, <1>2 DEF Inv, TypeOK
      <4>4. tx[cur] \o k.wbuf = Replies(d)
        BY <1>2, <1>12
      <4>5. sent[cur] <= Len(Stream(p)) /\ d <= Len(p)
        BY <1>2
      <4>6. /\ sent'[cur] = sent[cur] /\ prog'[cur] = p /\ done'[cur] = d /\ tx'[cur] = tx[cur]
            /\ conn'[cur].rbuf = buf /\ conn'[cur].wbuf = k.wbuf
        BY <1>1, <1>12, <2>1
      <4>7. Framed(g)'
        BY <1>6, <3>2, <4>3, <4>4, <4>5, <4>6 DEF Framed
      <4> QED
        BY <4>1, <4>2, <4>7 DEF ConnInv
    <3> QED
      BY <3>1, <3>2
  <2> QED
    BY <2>3, <2>4, <2>5 DEF Inv, ConnInv
<1> HIDE DEF c
<1>13. CASE Len(buf) < Needed(c) /\ conn' = [conn EXCEPT ![cur] = full]
            /\ UNCHANGED <<client, prog, sent, connects, interest, epc, batch, cur>>
  <2>1. c.state = "ReadPayload" => HdrLen <= Len(c.rbuf)
    BY <1>2, OneConn DEF Buffers, c
  <2>2. c.state = "ReadPayload" => HdrLen <= Len(buf)
    BY <1>4, <1>5, <2>1, Facts
  <2> QED
    BY <1>1, <1>4, <1>8, <1>12, <1>13, <2>2
<1>14. CASE /\ ~(Len(buf) < Needed(c))
            /\ conn' = [conn EXCEPT ![cur] = [full EXCEPT !.state =
                    IF c.state = "ReadHeader" /\ PayLen(op) > 0
                    THEN "ReadPayload" ELSE "Process"]]
            /\ UNCHANGED <<client, prog, sent, connects, interest, epc, batch, cur>>
  <2>1. Len(buf) = Needed(c) /\ Len(buf) \in Nat
    BY <1>4, <1>5, <1>14
  <2>2. CASE c.state = "ReadHeader" /\ PayLen(op) > 0
    <3> DEFINE k == [full EXCEPT !.state = "ReadPayload"]
    <3>1. /\ k.rbuf = buf /\ k.wbuf = <<>> /\ k.state = "ReadPayload"
          /\ k \in [state : State, rbuf : Seq(Byte), wbuf : Seq(Byte)]
      BY <1>8 DEF State
    <3>2. conn' = [conn EXCEPT ![cur] = k]
      BY <1>14, <2>2
    <3> HIDE DEF k
    <3>3. HdrLen <= Len(buf) /\ Len(buf) < HdrLen + PayLen(p[d + 1])
      BY <1>4, <1>7, <1>9, <2>1, <2>2, Facts
    <3> QED
      BY <1>12, <1>14, <3>1, <3>2, <3>3
  <2>3. CASE ~(c.state = "ReadHeader" /\ PayLen(op) > 0)
    <3> DEFINE k == [full EXCEPT !.state = "Process"]
    <3>1. /\ k.rbuf = buf /\ k.wbuf = <<>> /\ k.state = "Process"
          /\ k \in [state : State, rbuf : Seq(Byte), wbuf : Seq(Byte)]
      BY <1>8 DEF State
    <3>2. conn' = [conn EXCEPT ![cur] = k]
      BY <1>14, <2>3
    <3> HIDE DEF k
    <3>3. Len(buf) = HdrLen + PayLen(p[d + 1])
      <4>1. CASE c.state = "ReadHeader"
        <5>1. PayLen(p[d + 1]) = 0
          BY <1>7, <1>9, <2>3, <4>1
        <5> QED
          BY <1>4, <2>1, <4>1, <5>1, Facts
      <4>2. CASE c.state = "ReadPayload"
        BY <1>4, <2>1, <4>2
      <4> QED
        BY <1>1, <4>1, <4>2
    <3> QED
      BY <1>12, <1>14, <3>1, <3>2, <3>3
  <2> QED
    BY <2>2, <2>3
<1> QED
  BY <1>1, <1>11, <1>13, <1>14

\* EAGAIN ends the read, end of file the connection.
LEMMA ReadNothingStep ==
  ASSUME Inv, ReadNothing
  PROVE  Inv'
<1>1. /\ epc = "read" /\ conn[cur].state \in {"ReadHeader", "ReadPayload"} /\ Return
      /\ UNCHANGED <<rx, tx, done, shutdown_flag>>
      /\ Close(cur) \/ UNCHANGED <<client, prog, sent, connects, conn, interest>>
  BY DEF ReadNothing, peer
<1>2. cur \in Fd
  BY <1>1, Reading
<1>3. CASE Close(cur)
  <2>1. rx' \in [Fd -> Seq(Byte)] /\ \A g \in Fd \ {cur} : rx'[g] = rx[g]
    BY <1>1 DEF Inv, TypeOK
  <2> QED
    BY <1>1, <1>2, <1>3, <2>1, CloseStep
<1>4. CASE UNCHANGED <<client, prog, sent, connects, conn, interest>>
  <2>1. epc' = "batch" /\ cur' = 0 /\ UNCHANGED batch
    BY <1>1 DEF Return
  <2>2. \A f \in Fd : conn[f].state # "Process"
    <3> SUFFICES ASSUME NEW f \in Fd, conn[f].state = "Process"
                 PROVE  FALSE
      OBVIOUS
    <3>1. cur = f
      BY OneConn DEF Armed
    <3> QED
      BY <1>1, <3>1
  <2>3. \A f \in Fd : f # 0
    BY Facts
  <2>4. LoopInv'
    BY <1>4, <2>1, <2>3 DEF Inv, LoopInv
  <2>5. /\ client' \in [Fd -> {"none", "open", "closed"}] /\ shutdown_flag' \in BOOLEAN
        /\ batch' \subseteq Fd \cup {Listen} /\ cur' \in Fd \cup {0}
    BY <1>1, <1>4, <2>1 DEF Inv, TypeOK
  <2>6. \A f \in Fd : client'[f] = "none" <=> client[f] = "none"
    BY <1>4
  <2> QED
    BY <1>1, <1>4, <2>1, <2>2, <2>4, <2>5, <2>6, QuietStep
<1> QED
  BY <1>1, <1>3, <1>4

\* A step that leaves the connection being handled open, in state k: the rest
\* of the invariant follows from that connection's part of it.
LEMMA HandledStep ==
  ASSUME Inv, NEW f \in Fd, cur = f, epc \in {"read", "write"},
         NEW k \in [state : State, rbuf : Seq(Byte), wbuf : Seq(Byte)],
         Len(k.rbuf) <= HdrLen + 2, Len(k.wbuf) <= RepLen,
         conn' = [conn EXCEPT ![f] = k],
         \/ epc' = "batch" /\ cur' = 0 /\ k.state # "None"
         \/ epc' = "write" /\ epc = "write" /\ cur' = cur /\ k.state = "WriteResponse",
         interest' \in [Fd -> {"none", "in", "out"}], tx' \in [Fd -> Seq(Byte)],
         done' \in [Fd -> Nat],
         \A g \in Fd \ {f} : interest'[g] = interest[g] /\ tx'[g] = tx[g] /\ done'[g] = done[g],
         UNCHANGED <<client, prog, sent, connects, rx, shutdown_flag, batch>>,
         ConnInv(f)'
  PROVE  Inv'
<1>1. conn'[f] = k /\ \A g \in Fd \ {f} : conn'[g] = conn[g]
  BY DEF Inv, TypeOK
<1>2. TypeOK'
  <2>1. conn' \in [Fd -> [state : State, rbuf : Seq(Byte), wbuf : Seq(Byte)]]
    BY DEF Inv, TypeOK
  <2>2. \A g \in Fd : Len(conn[g].rbuf) <= HdrLen + 2 /\ Len(conn[g].wbuf) <= RepLen
    BY DEF Inv, TypeOK
  <2>3. \A g \in Fd : Len(conn'[g].rbuf) <= HdrLen + 2 /\ Len(conn'[g].wbuf) <= RepLen
    BY <1>1, <2>2
  <2>4. /\ client' \in [Fd -> {"none", "open", "closed"}]
        /\ prog' \in [Fd -> Programs \cup {<<>>}] /\ sent' \in [Fd -> Nat]
        /\ rx' \in [Fd -> Seq(Byte)] /\ connects' \in Nat
        /\ shutdown_flag' \in BOOLEAN /\ batch' \subseteq Fd \cup {Listen}
        /\ epc' \in {"top", "batch", "read", "write", "stopped"} /\ cur' \in Fd \cup {0}
    BY DEF Inv, TypeOK
  <2> QED
    BY <2>1, <2>3, <2>4 DEF TypeOK
<1>3. LoopInv'
  <2>1. \A g \in Fd : g \in batch => g # f /\ conn[g].state # "None"
    BY DEF Inv, LoopInv
  <2>2. \A g \in Fd : g # 0
    BY Facts
  <2>3. \A g \in Fd : g \in batch' => g # cur' /\ conn'[g].state # "None"
    BY <1>1, <2>1, <2>2
  <2> QED
    BY <1>1, <2>3 DEF LoopInv
<1>4. ASSUME NEW g \in Fd, g # f
      PROVE  ConnInv(g)'
  <2>1. conn[g].state # "Process"
    BY <1>4, OneConn DEF Armed
  <2>2. epc' # "stopped" /\ epc # "stopped"
    OBVIOUS
  <2>3. /\ client'[g] = client[g] /\ prog'[g] = prog[g] /\ sent'[g] = sent[g]
        /\ rx'[g] = rx[g] /\ tx'[g] = tx[g] /\ conn'[g] = conn[g]
        /\ interest'[g] = interest[g] /\ done'[g] = done[g]
    BY <1>1, <1>4
  <2> QED
    BY <2>1, <2>2, <2>3, Untouched
<1>5. \A g \in Fd : ConnInv(g)'
  BY <1>4
<1> QED
  BY <1>2, <1>3, <1>5 DEF Inv, ConnInv

\* A whole request is executed, and its reply is the next one to be written.
LEMMA ProcessStep ==
  ASSUME Inv, Process
  PROVE  Inv'
<1>1. /\ epc = "read" /\ conn[cur].state = "Process" /\ Return
      /\ UNCHANGED <<rx, tx, shutdown_flag>>
      /\ \/ Close(cur) /\ UNCHANGED done
         \/ /\ done' = [done EXCEPT ![cur] = @ + 1]
            /\ conn' = [conn EXCEPT ![cur] =
                   [state |-> "WriteResponse", rbuf |-> <<>>, wbuf |-> Bytes(done'[cur], RepLen)]]
            /\ interest' = [interest EXCEPT ![cur] = "out"]
            /\ UNCHANGED <<client, prog, sent, connects>>
  BY Zenon DEF Process, peer
<1>2. cur \in Fd
  BY <1>1, Reading
<1>3. CASE Close(cur) /\ UNCHANGED done
  <2>1. rx' \in [Fd -> Seq(Byte)] /\ \A g \in Fd \ {cur} : rx'[g] = rx[g]
    BY <1>1 DEF Inv, TypeOK
  <2> QED
    BY <1>1, <1>2, <1>3, <2>1, CloseStep
<1>4. CASE /\ done' = [done EXCEPT ![cur] = @ + 1]
           /\ conn' = [conn EXCEPT ![cur] =
                  [state |-> "WriteResponse", rbuf |-> <<>>, wbuf |-> Bytes(done'[cur], RepLen)]]
           /\ interest' = [interest EXCEPT ![cur] = "out"]
           /\ UNCHANGED <<client, prog, sent, connects>>
  <2>1. PICK f \in Fd : f = cur
    BY <1>2
  <2> DEFINE p == prog[f]
             d == done[f]
             b == conn[f].rbuf
             w == Bytes(d + 1, RepLen)
             k == [state |-> "WriteResponse", rbuf |-> <<>>, wbuf |-> w]
  <2>2. /\ p \in Seq(Ops) /\ d \in Nat /\ b \in Seq(Byte) /\ rx[f] \in Seq(Byte)
        /\ tx[f] \in Seq(Byte) /\ Buffers(f)
    BY OneConn
  <2>3. /\ client[f] # "none" /\ conn[f].wbuf = <<>>
        /\ sent[f] \in 0 .. Len(Stream(p)) /\ d \in 0 .. Len(p)
        /\ SubSeq(Stream(p), 1, sent[f]) = Requests(p, d) \o b \o rx[f]
        /\ tx[f] \o conn[f].wbuf = Replies(d)
    BY <1>1, <2>1, Reading
  <2>4. Len(b) = HdrLen + PayLen(p[d + 1])
    BY <1>1, <2>1, <2>2 DEF Buffers
  <2>5. d < Len(p) /\ b = Request(p, d + 1)
    BY <2>2, <2>3, <2>4, WholeRequest
  <2>6. Requests(p, d) \o b = Requests(p, d + 1)
    BY <2>2, <2>5, RequestsStep
  <2>7. w \in Seq(Byte) /\ Len(w) = RepLen
    <3>1. d + 1 \in Nat /\ RepLen \in Nat
      BY <2>2, Facts
    <3> QED
      BY <3>1, BytesType
  <2>8. tx[f] \o w = Replies(d + 1)
    <3>1. tx[f] = Replies(d)
      BY <2>2, <2>3, ConcatEmptySeq
    <3> QED
      BY <2>2, <3>1, RepliesStep
  <2>9. /\ done'[f] = d + 1 /\ done' \in [Fd -> Nat]
        /\ \A g \in Fd \ {f} : done'[g] = done[g]
    BY <1>4, <2>1, <2>2 DEF Inv, TypeOK
  <2>10. conn' = [conn EXCEPT ![f] = k]
    BY <1>4, <2>1, <2>9
  <2> HIDE DEF w
  <2>11. /\ k.state = "WriteResponse" /\ k.rbuf = <<>> /\ k.wbuf = w
         /\ Len(k.rbuf) <= HdrLen + 2 /\ Len(k.wbuf) <= RepLen
         /\ k \in [state : State, rbuf : Seq(Byte), wbuf : Seq(Byte)]
    <3>1. Len(<<>>) = 0 /\ <<>> \in Seq(Byte)
      OBVIOUS
    <3> QED
      BY <2>7, <3>1, Facts DEF State
  <2> HIDE DEF k
  <2>12. /\ interest'[f] = "out" /\ interest' \in [Fd -> {"none", "in", "out"}]
         /\ \A g \in Fd \ {f} : interest'[g] = interest[g]
         /\ conn'[f] = k
    BY <1>4, <2>1, <2>10 DEF Inv, TypeOK
  <2>13. epc' = "batch" /\ cur' = 0 /\ UNCHANGED batch
    BY <1>1 DEF Return
  <2>14. Framed(f)'
    <3>1. Requests(p, d + 1) \o <<>> = Requests(p, d + 1)
      <4>1. d + 1 \in Nat
        BY <2>2
      <4>2. Requests(p, d + 1) \in Seq(Byte)
        BY <4>1, RequestsStep
      <4> QED
        BY <4>2, ConcatEmptySeq
    <3>2. SubSeq(Stream(p), 1, sent[f]) = Requests(p, d + 1) \o <<>> \o rx[f]
      BY <2>3, <2>6, <3>1
    <3>3. sent[f] <= Len(Stream(p)) /\ d + 1 <= Len(p)
      BY <2>2, <2>3, <2>5
    <3>4. /\ prog'[f] = p /\ sent'[f] = sent[f] /\ rx'[f] = rx[f] /\ tx'[f] = tx[f]
          /\ conn'[f].rbuf = <<>> /\ conn'[f].wbuf = w
      BY <1>1, <1>4, <2>11, <2>12
    <3> QED
      BY <2>8, <2>9, <3>2, <3>3, <3>4 DEF Framed
  <2>15. Armed(f)'
    BY <1>4, <2>3, <2>11, <2>12, <2>13 DEF Armed
  <2>16. Buffers(f)'
    BY <2>11, <2>12 DEF Buffers
  <2>17. ConnInv(f)'
    BY <2>14, <2>15, <2>16 DEF ConnInv
  <2>18. tx' \in [Fd -> Seq(Byte)] /\ \A g \in Fd \ {f} : tx'[g] = tx[g]
    BY <1>1 DEF Inv, TypeOK
  <2> QED
    BY <1>1, <1>4, <2>1, <2>9, <2>10, <2>11, <2>12, <2>13, <2>17, <2>18, HandledStep
<1> QED
  BY <1>1, <1>3, <1>4

\* A short write moves bytes from wbuf to the client and loses none.
LEMMA WriteBytesStep ==
  ASSUME Inv, WriteBytes
  PROVE  Inv'
<1>1. epc = "write" /\ UNCHANGED <<client, prog, sent, connects, rx, done, shutdown_flag>>
  BY DEF WriteBytes, peer
<1>2. PICK f \in Fd : f = cur /\ conn[f].state = "WriteResponse"
  BY <1>1 DEF Inv, LoopInv
<1> DEFINE c == conn[f]
           w == c.wbuf
<1>3. PICK n \in 1 .. Len(w) :
        /\ tx' = [tx EXCEPT ![f] = @ \o SubSeq(w, 1, n)]
        /\ \/ /\ n = Len(w) /\ conn' = [conn EXCEPT ![f] = NewConn]
              /\ interest' = [interest EXCEPT ![f] = "in"] /\ Return
           \/ /\ n # Len(w) /\ conn' = [conn EXCEPT ![f].wbuf = SubSeq(@, n + 1, Len(@))]
              /\ UNCHANGED <<interest, epc, batch, cur>>
  BY <1>2 DEF WriteBytes, loop
<1>4. /\ c \in [state : State, rbuf : Seq(Byte), wbuf : Seq(Byte)] /\ w \in Seq(Byte)
      /\ tx[f] \in Seq(Byte) /\ rx[f] \in Seq(Byte) /\ done[f] \in Nat
      /\ Armed(f) /\ Buffers(f) /\ Framed(f)
  BY OneConn
<1>5. client[f] # "none" /\ interest[f] = "out" /\ c.rbuf = <<>> /\ Len(w) <= RepLen
  BY <1>2, <1>4 DEF Armed, Buffers, Inv, TypeOK
<1>6. /\ sent[f] <= Len(Stream(prog[f])) /\ done[f] <= Len(prog[f])
      /\ SubSeq(Stream(prog[f]), 1, sent[f]) = Requests(prog[f], done[f]) \o c.rbuf \o rx[f]
      /\ tx[f] \o w = Replies(done[f])
  BY <1>1, <1>4, <1>5 DEF Framed
<1> DEFINE a == SubSeq(w, 1, n)
           z == SubSeq(w, n + 1, Len(w))
<1>7. /\ a \in Seq(Byte) /\ z \in Seq(Byte) /\ Len(z) = Len(w) - n /\ a \o z = w
  <2>1. n \in 0 .. Len(w)
    OBVIOUS
  <2> QED
    BY <1>4, <2>1, SplitAt
<1> HIDE DEF a, z
<1>8. tx[f] \o a \in Seq(Byte) /\ (tx[f] \o a) \o z = Replies(done[f])
  <2>1. (tx[f] \o a) \o z = tx[f] \o (a \o z)
    BY <1>4, <1>7, Assoc
  <2> QED
    BY <1>4, <1>6, <1>7, <2>1
<1>9. /\ tx'[f] = tx[f] \o a /\ tx' \in [Fd -> Seq(Byte)]
      /\ \A g \in Fd \ {f} : tx'[g] = tx[g]
  <2>1. tx' = [tx EXCEPT ![f] = tx[f] \o a]
    BY <1>3 DEF a
  <2> QED
    BY <1>8, <2>1 DEF Inv, TypeOK
<1>10. done' \in [Fd -> Nat] /\ \A g \in Fd \ {f} : done'[g] = done[g]
  BY <1>1 DEF Inv, TypeOK
<1> HIDE DEF w
<1>11. CASE n = Len(w) /\ conn' = [conn EXCEPT ![f] = NewConn]
            /\ interest' = [interest EXCEPT ![f] = "in"] /\ Return
  <2>1. /\ NewConn \in [state : State, rbuf : Seq(Byte), wbuf : Seq(Byte)]
        /\ NewConn.state = "ReadHeader" /\ NewConn.rbuf = <<>> /\ NewConn.wbuf = <<>>
        /\ Len(NewConn.rbuf) = 0 /\ Len(NewConn.wbuf) = 0
    BY DEF NewConn, State
  <2>2. Len(z) = 0 /\ z = <<>>
    <3>1. Len(w) \in Nat
      BY <1>4
    <3> QED
      BY <1>7, <1>11, <3>1
  <2>3. conn'[f] = NewConn /\ interest'[f] = "in" /\ interest' \in [Fd -> {"none", "in", "out"}]
        /\ \A g \in Fd \ {f} : interest'[g] = interest[g]
    BY <1>11 DEF Inv, TypeOK
  <2>4. epc' = "batch" /\ cur' = 0 /\ UNCHANGED batch
    BY <1>11 DEF Return
  <2>5. Framed(f)'
    BY <1>1, <1>5, <1>6, <1>8, <1>9, <2>1, <2>2, <2>3 DEF Framed
  <2>6. Armed(f)'
    BY <1>1, <1>5, <2>1, <2>3, <2>4 DEF Armed
  <2>7. Buffers(f)'
    BY <1>1, <2>1, <2>3, Facts DEF Buffers
  <2>8. ConnInv(f)'
    BY <2>5, <2>6, <2>7 DEF ConnInv
  <2>9. Len(NewConn.rbuf) <= HdrLen + 2 /\ Len(NewConn.wbuf) <= RepLen
    BY <2>1, Facts
  <2> QED
    BY <1>1, <1>2, <1>9, <1>10, <1>11, <2>1, <2>3, <2>4, <2>8, <2>9, HandledStep
<1>12. CASE /\ n # Len(w) /\ conn' = [conn EXCEPT ![f].wbuf = SubSeq(@, n + 1, Len(@))]
            /\ UNCHANGED <<interest, epc, batch, cur>>
  <2> DEFINE k == [c EXCEPT !.wbuf = z]
  <2>1. /\ k \in [state : State, rbuf : Seq(Byte), wbuf : Seq(Byte)]
        /\ k.state = "WriteResponse" /\ k.rbuf = <<>> /\ k.wbuf = z
    BY <1>2, <1>4, <1>5, <1>7
  <2>2. conn' = [conn EXCEPT ![f] = k]
    BY <1>12 DEF z, w
  <2>3. Len(k.rbuf) <= HdrLen + 2 /\ Len(k.wbuf) <= RepLen
    <3>1. Len(k.rbuf) = 0 /\ Len(w) \in Nat
      BY <1>4, <2>1
    <3>2. Len(k.wbuf) = Len(w) - n /\ n \in Nat
      BY <1>7, <2>1
    <3> QED
      BY <1>5, <3>1, <3>2, Facts
  <2> HIDE DEF k
  <2>4. conn'[f] = k
    BY <2>2 DEF Inv, TypeOK
  <2>5. Framed(f)'
    BY <1>1, <1>5, <1>6, <1>8, <1>9, <2>1, <2>4 DEF Framed
  <2>6. Armed(f)'
    BY <1>1, <1>4, <1>5, <1>12, <2>1, <2>4 DEF Armed
  <2>7. Buffers(f)'
    BY <2>1, <2>4 DEF Buffers
  <2>8. ConnInv(f)'
    BY <2>5, <2>6, <2>7 DEF ConnInv
  <2>9. interest' \in [Fd -> {"none", "in", "out"}] /\ \A g \in Fd \ {f} : interest'[g] = interest[g]
    BY <1>12 DEF Inv, TypeOK
  <2> QED
    BY <1>1, <1>2, <1>9, <1>10, <1>12, <2>1, <2>2, <2>3, <2>8, <2>9, HandledStep
<1> QED
  BY <1>3, <1>11, <1>12 DEF w

\* EPIPE closes the connection.
LEMMA WriteErrorStep ==
  ASSUME Inv, WriteError
  PROVE  Inv'
<1>1. epc = "write" /\ Close(cur) /\ Return /\ UNCHANGED <<rx, tx, done, shutdown_flag>>
  BY DEF WriteError
<1>2. cur \in Fd
  BY <1>1 DEF Inv, LoopInv
<1>3. rx' \in [Fd -> Seq(Byte)] /\ \A g \in Fd \ {cur} : rx'[g] = rx[g]
  BY <1>1 DEF Inv, TypeOK
<1> QED
  BY <1>1, <1>2, <1>3, CloseStep

-----------------------------------------------------------------------------
\* The invariant holds initially.
LEMMA InvInit == Init => Inv
<1> SUFFICES ASSUME Init
             PROVE  Inv
  OBVIOUS
<1>1. TypeOK
  <2>1. /\ NoConn \in [state : State, rbuf : Seq(Byte), wbuf : Seq(Byte)]
        /\ Len(NoConn.rbuf) = 0 /\ Len(NoConn.wbuf) = 0 /\ <<>> \in Seq(Byte)
    BY DEF NoConn, State
  <2>2. conn \in [Fd -> [state : State, rbuf : Seq(Byte), wbuf : Seq(Byte)]]
    BY <2>1 DEF Init
  <2>3. \A f \in Fd : Len(conn[f].rbuf) <= HdrLen + 2 /\ Len(conn[f].wbuf) <= RepLen
    BY <2>1, Facts DEF Init
  <2> QED
    BY <2>1, <2>2, <2>3 DEF Init, TypeOK
<1>2. LoopInv
  BY DEF Init, LoopInv
<1>3. \A f \in Fd : Armed(f) /\ Buffers(f) /\ Framed(f)
  BY DEF Init, Armed, Buffers, Framed, NoConn
<1> QED
  BY <1>1, <1>2, <1>3 DEF Inv

\* Every step keeps the invariant.
LEMMA InvStep == Inv /\ [Next]_vars => Inv'
<1> SUFFICES ASSUME Inv, [Next]_vars
             PROVE  Inv'
  OBVIOUS
<1>1. CASE Clients
  BY <1>1, ConnectStep, SendStep, QuietSteps DEF Clients
<1>2. CASE Signal \/ Exited \/ UNCHANGED vars
  BY <1>2, QuietSteps DEF Exited
<1>3. CASE Server
  <2>1. CASE EpollWait \/ BatchDone \/ (\E f \in Fd : Dispatch(f))
    BY <2>1, QuietSteps
  <2>2. CASE Accept \/ Stop
    BY <2>2, AcceptStep, StopStep
  <2>3. CASE Read
    BY <2>3, ReadBytesStep, ReadNothingStep, ProcessStep DEF Read
  <2>4. CASE Write
    BY <2>4, WriteBytesStep, WriteErrorStep, QuietSteps DEF Write
  <2> QED
    BY <1>3, <2>1, <2>2, <2>3, <2>4 DEF Server
<1> QED
  BY <1>1, <1>2, <1>3 DEF Next

\* The invariant holds in every reachable state.
LEMMA InvAlways == Spec => []Inv
BY InvInit, InvStep, PTL DEF Spec

\* Type correctness; with it the bounds of the two buffers: handle_read never
\* puts more into rbuf than one request, handle_write never more than a reply.
THEOREM ConnectionTypeCorrect == Spec => []TypeOK
<1>1. Inv => TypeOK
  BY DEF Inv
<1> QED
  BY <1>1, InvAlways, PTL

\* What the invariant says of a connection that is open.
LEMMA OpenIsFramed ==
  ASSUME Inv, NEW f \in Fd, conn[f] # NoConn
  PROVE  /\ SubSeq(Stream(prog[f]), 1, sent[f]) =
                Requests(prog[f], done[f]) \o conn[f].rbuf \o rx[f]
         /\ tx[f] \o conn[f].wbuf = Replies(done[f])
<1>1. Armed(f) /\ Framed(f)
  BY DEF Inv
<1>2. client[f] # "none" /\ epc # "stopped"
  BY <1>1 DEF Armed
<1> QED
  BY <1>1, <1>2 DEF Framed

\* Framing: however the bytes of pipelined requests are cut up by the network,
\* the requests executed, rbuf and the socket hold together exactly what the
\* client has sent; resetting rbuf_pos between requests drops nothing.
THEOREM FramingIntact == Spec => []StreamIntact
<1>1. Inv => StreamIntact
  BY OpenIsFramed DEF StreamIntact
<1> QED
  BY <1>1, InvAlways, PTL

\* A client gets the replies to its own requests, in order and each once, with
\* any pattern of short writes and any reuse of its descriptor.
THEOREM RepliesAlwaysInOrder == Spec => []RepliesInOrder
<1>1. Inv => RepliesInOrder
  BY OpenIsFramed DEF RepliesInOrder
<1> QED
  BY <1>1, InvAlways, PTL

\* Between two batches every connection is registered for the event that its
\* state waits for, so that no connection is forgotten by epoll.
THEOREM AlwaysArmedCorrectly == Spec => []ArmedCorrectly
<1>1. ASSUME Inv, epc = "top", NEW f \in Fd
      PROVE  interest[f] = CASE conn[f].state = "None" -> "none"
                             [] conn[f].state = "WriteResponse" -> "out"
                             [] conn[f].state \in {"ReadHeader", "ReadPayload"} -> "in"
                             [] OTHER -> "lost"
  <2>1. Armed(f) /\ conn[f].state \in State
    BY <1>1, OneConn
  <2>2. conn[f].state # "Process"
    BY <1>1, <2>1 DEF Armed
  <2> QED
    BY <2>1, <2>2 DEF Armed, State
<1>2. Inv => ArmedCorrectly
  BY <1>1 DEF ArmedCorrectly
<1> QED
  BY <1>2, InvAlways, PTL
=============================================================================
