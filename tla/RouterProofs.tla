---------------------------- MODULE RouterProofs ----------------------------
(***************************************************************************)
(* Proofs about module Router, for any number of connections and of        *)
(* addresses and whatever clients send.                                    *)
(*                                                                         *)
(* The invariant has one part for each connection (ConnOK), one for the    *)
(* slots and one for each address of the limiter (RateOK).                 *)
(***************************************************************************)
EXTENDS Router, ProtocolProofs

----------------------------------------------------------------------------
\* The invariant

\* Where the bytes begin that a client sends behind its handshake.
Start(s) == Len(s) - Len(ReadHandshake(s).rest)

Lefts == -1 .. Max(Timeouts)

Waitings == 0 .. Max(Timeouts)

Errs == 0 .. 2

Backs == {"none", "open", "closed"}

Conn == [pc: PCs, addr: Addrs, stream: Streams \cup {<<>>}, here: Nat, read: Nat, gone: BOOLEAN,
         left: Lefts, wait: Waitings, got: Seq(Bytes), back: Backs, up: Copies, down: Copies,
         errc: Errs]

\* What the handler has taken is what has arrived, and what has arrived was sent.
InStream(r) == r.read <= r.here /\ r.here <= Len(r.stream)

\* A handler that is not yet proxying has no session, and what it has taken of the
\* stream is nothing, or the handshake and no more.
Before(r) ==
    /\ r.pc # "free" => r.stream \in Streams
    /\ r.pc \in {"limit", "handshake"} => r.read = 0
    /\ r.pc \notin {"free", "proxy"} => r.up = "none"
    /\ r.up = "none" => r.down = "none" /\ r.got = <<>> /\ r.back = "none" /\ r.errc = 0
    /\ r.pc \in {"ensure", "dial"} => ReadHandshake(r.stream).st = "ok" /\ r.read = Start(r.stream)

\* A session, also the rest of one whose handler has gone: the backend has got the
\* handshake and what was taken of the stream since.
Session(r) ==
    r.up # "none" =>
        /\ r.stream \in Streams /\ ReadHandshake(r.stream).st = "ok"
        /\ Start(r.stream) <= r.read
        /\ r.got = ReadHandshake(r.stream).val.frame \o Between(r.stream, Start(r.stream), r.read)

\* While the handler waits there is no deadline, and a goroutine that is done
\* means that one side is closed.
Waits(r) ==
    r.pc = "proxy" =>
        /\ r.up # "none" /\ r.left = -1
        /\ r.errc > 0 \/ r.up # "copy" \/ r.down # "copy" => r.gone \/ r.back = "closed"

ConnOK(r) == r \in Conn /\ InStream(r) /\ Before(r) /\ Session(r) /\ Waits(r)

ConnsOK == conn \in [Conns -> Conn] /\ \A c \in Conns : ConnOK(conn[c])

Active == {c \in Conns : conn[c].pc # "free"}

SlotsOK == IsFiniteSet(Active) /\ sem = Cardinality(Active) /\ sem <= MaxConnections

Bucket == [age: 0 .. 2 * Minute + 1, count: 0 .. Limit + 1]

Grants == [0 .. Minute - 1 -> Nat]

\* How many grants are younger than each age.
Younger(f, g) ==
    f \in [0 .. Minute -> Nat] /\ f[0] = 0 /\ \A i \in 0 .. Minute - 1 : f[i + 1] = f[i] + g[i]

\* The bucket has counted the grants since it was reset, the first of them at its
\* reset, and those before it, from one earlier bucket that has lost its first, are
\* less than the limit. A bucket whose minute is over has granted nothing since.
Rate(f, b, g) ==
    /\ Younger(f, g)
    /\ b.age < Minute =>
         /\ f[b.age + 1] <= b.count /\ f[b.age + 1] <= Limit
         /\ g[b.age] >= 1 /\ f[Minute] - f[b.age + 1] <= Limit - 1
    /\ b.age >= Minute =>
         f[Minute] <= Limit - 1 /\ \A j \in 0 .. Minute - 1 : j <= b.age - Minute => g[j] = 0

RateOK ==
    /\ bucket \in [Addrs -> Bucket] /\ grants \in [Addrs -> Grants]
    /\ \A a \in Addrs : \E f : Rate(f, bucket[a], grants[a])

\* A step that makes q of the connection c: a handler that comes or goes takes or
\* gives a slot, and one leaves its session only when one side is closed.
Becomes(c, q) ==
    /\ ConnOK(q) /\ conn' = [conn EXCEPT ![c] = q]
    /\ \/ (q.pc # "free" <=> conn[c].pc # "free") /\ sem' = sem
       \/ q.pc = "free" /\ conn[c].pc # "free" /\ sem' = sem - 1
       \/ q.pc # "free" /\ conn[c].pc = "free" /\ sem < MaxConnections /\ sem' = sem + 1
    /\ conn[c].pc = "proxy" /\ q.pc = "free" => conn[c].gone \/ conn[c].back = "closed"

RouterInv == ConnsOK /\ SlotsOK /\ RateOK
----------------------------------------------------------------------------
\* What a handler reads

\* The longest of the timeouts.
LEMMA LongestIs ==
    /\ Max(Timeouts) \in Nat
    /\ {HandshakeTimeout, StatusTimeout, PingTimeout, DialTimeout, StartupWait} \subseteq 1 .. Max(Timeouts)
    /\ Minute \in Nat \ {0}
<1>1. {HandshakeTimeout, StatusTimeout, PingTimeout, DialTimeout, StartupWait, Minute} \subseteq Nat \ {0}
  BY RouterAssumption DEF Timeouts
<1>2. \E m \in Timeouts : \A n \in Timeouts : n <= m
  BY <1>1 DEF Timeouts
<1>3. Max(Timeouts) \in Timeouts /\ \A n \in Timeouts : n <= Max(Timeouts)
  BY <1>2 DEF Max
<1> QED
  BY <1>1, <1>3 DEF Timeouts

\* Any piece of a stream can be waiting.
LEMMA PieceIs ==
    ASSUME NEW s \in Streams, NEW i \in Nat, NEW j \in Nat, i <= j, j <= Len(s)
    PROVE  /\ Between(s, i, j) \in Waiting
           /\ Between(s, i, j) \in Seq(Bytes) /\ Len(Between(s, i, j)) = j - i
<1>1. s \in Seq(Bytes) /\ Len(s) \in Nat
  BY RouterAssumption
<1>2. i \in 0 .. Len(s) /\ j \in 0 .. Len(s)
  BY <1>1
<1>3. Between(s, i, j) \in Waiting
  BY <1>2 DEF Waiting
<1>4. SubSeq(s, i + 1, j) \in Seq(Bytes) /\ Len(SubSeq(s, i + 1, j)) = j - i
  <2>1. CASE i = j
    <3>1. SubSeq(s, i + 1, j) = <<>>
      BY <1>1, <2>1, SubSeqProperties
    <3> QED
      BY <3>1, <2>1
  <2>2. CASE i < j
    BY <1>1, <1>2, <2>2, SubSeqProperties
  <2> QED
    BY <2>1, <2>2
<1> QED
  BY <1>3, <1>4 DEF Between

\* The readers are those of the codec.
LEMMA ReadersAre ==
    ASSUME NEW b \in Waiting
    PROVE  /\ Readers["handshake"][b] = ReadHandshake(b) /\ Readers["status"][b] = ReadMessage(b)
           /\ Readers.handshake[b] = ReadHandshake(b)
BY DEF Readers

\* A stream can wait as a whole.
LEMMA WholeIs ==
    ASSUME NEW s \in Streams
    PROVE  s \in Waiting /\ s \in Seq(Bytes) /\ Len(s) \in Nat
<1>1. s \in Seq(Bytes) /\ Len(s) \in Nat
  BY RouterAssumption
<1>2. Between(s, 0, Len(s)) = s
  BY <1>1, SubSeqFull DEF Between
<1>3. Between(s, 0, Len(s)) \in Waiting
  BY <1>1, PieceIs
<1> QED
  BY <1>1, <1>2, <1>3

\* What is left of a packet that was read is the end of what was there.
LEMMA MessageEnds ==
    ASSUME NEW s \in Seq(Bytes), ReadMessage(s).st = "ok"
    PROVE  Len(ReadMessage(s).rest) \in 0 .. Len(s)
<1> DEFINE packet == ReadPacket(s)
           id == ReadVarInt(packet.val)
<1>1. MaxPacket \in Nat
  BY ProtocolAssumption
<1>2. ReadMessage(s) = IF packet.st # "ok" THEN packet
                       ELSE IF id.st = "ok" /\ id.val = 0 THEN Result("ok", id.rest, packet.rest)
                       ELSE Result("bad", <<>>, <<>>)
  BY DEF ReadMessage
<1>3. packet.st = "ok" => packet.rest \in Seq(Bytes) /\ EndOf(packet.rest, s)
  BY <1>1, CountedMore DEF ReadPacket
<1> HIDE DEF packet, id
<1>4. Result("bad", <<>>, <<>>).st = "bad" /\ Result("ok", id.rest, packet.rest).rest = packet.rest
  BY ResultIs
<1>5. packet.st = "ok" /\ ReadMessage(s).rest = packet.rest
  BY <1>2, <1>4
<1>6. Len(packet.rest) <= Len(s) /\ Len(packet.rest) \in Nat
  BY <1>3, <1>5, EndOfIs
<1> QED
  BY <1>5, <1>6

\* A handshake that is read from what has arrived of a stream is the one of the
\* stream, and as much of the stream is taken for it.
LEMMA HandshakeArrived ==
    ASSUME NEW s \in Streams, NEW j \in Nat, j <= Len(s), ReadHandshake(Between(s, 0, j)).st = "ok"
    PROVE  /\ ReadHandshake(s).st = "ok"
           /\ j - Len(ReadHandshake(Between(s, 0, j)).rest) = Start(s)
           /\ Start(s) \in 0 .. j
<1>1. s \in Seq(Bytes) /\ Len(s) \in Nat /\ j \in 0 .. Len(s)
  BY RouterAssumption
<1>2. PICK u, t : u = Between(s, 0, j) /\ t = SubSeq(s, j + 1, Len(s))
  OBVIOUS
<1>a. u = SubSeq(s, 1, j)
  BY <1>2 DEF Between
<1>3. u \in Seq(Bytes) /\ Len(u) = j /\ t \in Seq(Bytes) /\ Len(t) = Len(s) - j
  BY <1>1, <1>2, <1>a, Cut
<1>4. s = u \o t
  <2>1. Len(u \o t) = Len(s) /\ u \o t \in Seq(Bytes)
    BY <1>1, <1>3
  <2>2. \A i \in 1 .. Len(s) : (u \o t)[i] = s[i]
    <3>1. (\A i \in 1 .. j : u[i] = s[i]) /\ \A i \in 1 .. Len(s) - j : t[i] = s[j + i]
      BY <1>1, <1>2, <1>a, Cut
    <3>2. \A i \in 1 .. Len(s) : (u \o t)[i] = IF i <= j THEN u[i] ELSE t[i - j]
      BY <1>1, <1>3, ConcatProperties
    <3> QED
      BY <1>1, <1>3, <3>1, <3>2
  <2> QED
    BY <1>1, <2>1, <2>2, SeqEqual
<1>5. ReadHandshake(u).st = "ok"
  BY <1>2
<1>6. PICK r : r = ReadHandshake(u).rest
  OBVIOUS
<1>7. EndOf(r, u) /\ ReadHandshake(u \o t) = Result("ok", ReadHandshake(u).val, r \o t)
  BY <1>3, <1>5, <1>6, HandshakeMore
<1>8. r \in Seq(Bytes) /\ Len(r) <= Len(u)
  BY <1>3, <1>7, EndOfIs
<1>9. ReadHandshake(s).st = "ok" /\ ReadHandshake(s).rest = r \o t
  <2>1. PICK v, q : v = ReadHandshake(u).val /\ q = r \o t
    OBVIOUS
  <2>2. ReadHandshake(s) = Result("ok", v, q)
    BY <1>4, <1>7, <2>1
  <2>3. ReadHandshake(s).st = "ok" /\ ReadHandshake(s).rest = q
    BY <2>2, ResultIs
  <2> QED
    BY <2>1, <2>3
<1>10. Len(r \o t) = Len(r) + Len(s) - j
  <2>1. Len(r \o t) = Len(r) + Len(t)
    BY <1>3, <1>8, ConcatProperties
  <2> QED
    BY <1>1, <1>3, <1>8, <2>1
<1>11. Start(s) = j - Len(r)
  BY <1>1, <1>8, <1>9, <1>10 DEF Start
<1> QED
  BY <1>1, <1>2, <1>3, <1>6, <1>8, <1>9, <1>11

\* The handshake of a stream and what follows it.
LEMMA StartIs ==
    ASSUME NEW s \in Streams, ReadHandshake(s).st = "ok"
    PROVE  /\ Start(s) \in 0 .. Len(s) /\ ReadHandshake(s).val.frame \in Seq(Bytes)
           /\ ReadHandshake(s).rest = Between(s, Start(s), Len(s))
<1>1. s \in Seq(Bytes) /\ Len(s) \in Nat
  BY RouterAssumption
<1>2. EndOf(ReadHandshake(s).rest, s) /\ ReadHandshake(s).val.frame \in Seq(Bytes)
  BY <1>1, HandshakeMore
<1>3. PICK r : r = ReadHandshake(s).rest
  OBVIOUS
<1>4. Len(s) - Len(r) \in 0 .. Len(s) /\ r = SubSeq(s, Len(s) - Len(r) + 1, Len(s))
  BY <1>1, <1>2, <1>3, EndOfIs
<1> QED
  BY <1>2, <1>3, <1>4 DEF Start, Between

----------------------------------------------------------------------------
\* What may become of a connection

\* The record of no connection.
LEMMA NoConnIs ==
    /\ NoConn \in Conn /\ ConnOK(NoConn)
    /\ NoConn.pc = "free" /\ NoConn.here = 0 /\ NoConn.read = 0 /\ NoConn.stream = <<>>
    /\ NoConn.up = "none" /\ NoConn.down = "none" /\ NoConn.got = <<>> /\ NoConn.back = "none"
    /\ NoConn.errc = 0
<1>1. (CHOOSE a \in Addrs : TRUE) \in Addrs
  BY RouterAssumption
<1>2. NoConn \in Conn
  BY <1>1, LongestIs DEF NoConn, Conn, PCs, Copies, Lefts, Waitings, Errs, Backs
<1>3. /\ NoConn.pc = "free" /\ NoConn.here = 0 /\ NoConn.read = 0 /\ NoConn.stream = <<>>
      /\ NoConn.up = "none" /\ NoConn.down = "none" /\ NoConn.got = <<>> /\ NoConn.back = "none"
      /\ NoConn.errc = 0
  BY DEF NoConn
<1>4. Len(NoConn.stream) = 0
  BY <1>3
<1> QED
  BY <1>2, <1>3, <1>4 DEF ConnOK, InStream, Before, Session, Waits

\* A connection that was accepted.
LEMMA Accepted ==
    ASSUME NEW a \in Addrs, NEW s \in Streams
    PROVE  ConnOK([NoConn EXCEPT !.pc = "limit", !.addr = a, !.stream = s])
<1> DEFINE q == [NoConn EXCEPT !.pc = "limit", !.addr = a, !.stream = s]
<1>1. NoConn \in Conn
  BY NoConnIs DEF ConnOK
<1>2. "limit" \in PCs
  BY DEF PCs
<1>3. q \in Conn
  BY <1>1, <1>2 DEF Conn
<1>4. /\ q.pc = "limit" /\ q.addr = a /\ q.stream = s
      /\ q.here = NoConn.here /\ q.read = NoConn.read /\ q.gone = NoConn.gone /\ q.left = NoConn.left /\ q.wait = NoConn.wait
      /\ q.got = NoConn.got /\ q.back = NoConn.back /\ q.up = NoConn.up /\ q.down = NoConn.down /\ q.errc = NoConn.errc
  BY <1>1 DEF Conn
<1> HIDE DEF q
<1>5. InStream(q)
  BY <1>4, NoConnIs, WholeIs DEF ConnOK, InStream
<1>6. Before(q)
  BY <1>4, NoConnIs, WholeIs DEF ConnOK, Before
<1>7. Session(q)
  BY <1>4, NoConnIs, WholeIs DEF ConnOK, Session, Before
<1>8. Waits(q)
  BY <1>4, NoConnIs, WholeIs DEF ConnOK, Waits, Before
<1> QED
  BY <1>3, <1>5, <1>6, <1>7, <1>8 DEF ConnOK, q

\* More of the stream has arrived.
LEMMA Arrived ==
    ASSUME NEW r, ConnOK(r), r.pc # "free", NEW n \in Nat, r.here < n, n <= Len(r.stream)
    PROVE  ConnOK([r EXCEPT !.here = n])
<1> DEFINE q == [r EXCEPT !.here = n]
<1>1. r \in Conn
  BY DEF ConnOK
<1>3. q \in Conn
  BY <1>1 DEF Conn
<1>4. /\ q.here = n
      /\ q.pc = r.pc /\ q.addr = r.addr /\ q.stream = r.stream /\ q.read = r.read /\ q.gone = r.gone
      /\ q.left = r.left /\ q.wait = r.wait /\ q.got = r.got /\ q.back = r.back /\ q.up = r.up
      /\ q.down = r.down /\ q.errc = r.errc
  BY <1>1 DEF Conn
<1> HIDE DEF q
<1>5. InStream(q)
  BY <1>4, <1>1 DEF ConnOK, InStream, Conn
<1>6. Before(q)
  BY <1>4 DEF ConnOK, Before
<1>7. Session(q)
  BY <1>4 DEF ConnOK, Session, Before
<1>8. Waits(q)
  BY <1>4 DEF ConnOK, Waits, Before
<1> QED
  BY <1>3, <1>5, <1>6, <1>7, <1>8 DEF ConnOK, q

\* The client has closed its side.
LEMMA ClientClosed ==
    ASSUME NEW r, ConnOK(r)
    PROVE  ConnOK([r EXCEPT !.gone = TRUE])
<1> DEFINE q == [r EXCEPT !.gone = TRUE]
<1>1. r \in Conn
  BY DEF ConnOK
<1>3. q \in Conn
  BY <1>1 DEF Conn
<1>4. /\ q.gone = TRUE
      /\ q.pc = r.pc /\ q.addr = r.addr /\ q.stream = r.stream /\ q.here = r.here /\ q.read = r.read
      /\ q.left = r.left /\ q.wait = r.wait /\ q.got = r.got /\ q.back = r.back /\ q.up = r.up
      /\ q.down = r.down /\ q.errc = r.errc
  BY <1>1 DEF Conn
<1> HIDE DEF q
<1>5. InStream(q)
  BY <1>4 DEF ConnOK, InStream
<1>6. Before(q)
  BY <1>4 DEF ConnOK, Before
<1>7. Session(q)
  BY <1>4 DEF ConnOK, Session, Before
<1>8. Waits(q)
  BY <1>4 DEF ConnOK, Waits, Before
<1> QED
  BY <1>3, <1>5, <1>6, <1>7, <1>8 DEF ConnOK, q

\* The backend has closed its side.
LEMMA BackendClosed ==
    ASSUME NEW r, ConnOK(r), r.back = "open"
    PROVE  ConnOK([r EXCEPT !.back = "closed"])
<1> DEFINE q == [r EXCEPT !.back = "closed"]
<1>1. r \in Conn
  BY DEF ConnOK
<1>2. "closed" \in Backs
  BY DEF Backs
<1>3. q \in Conn
  BY <1>1, <1>2 DEF Conn
<1>4. /\ q.back = "closed"
      /\ q.pc = r.pc /\ q.addr = r.addr /\ q.stream = r.stream /\ q.here = r.here /\ q.read = r.read
      /\ q.gone = r.gone /\ q.left = r.left /\ q.wait = r.wait /\ q.got = r.got /\ q.up = r.up
      /\ q.down = r.down /\ q.errc = r.errc
  BY <1>1 DEF Conn
<1> HIDE DEF q
<1>5. InStream(q)
  BY <1>4 DEF ConnOK, InStream
<1>6. Before(q)
  BY <1>4 DEF ConnOK, Before
<1>7. Session(q)
  BY <1>4 DEF ConnOK, Session, Before
<1>8. Waits(q)
  BY <1>4 DEF ConnOK, Waits, Before
<1> QED
  BY <1>3, <1>5, <1>6, <1>7, <1>8 DEF ConnOK, q

\* The limiter has let the connection in.
LEMMA Admitted ==
    ASSUME NEW r, ConnOK(r), r.pc = "limit"
    PROVE  ConnOK([r EXCEPT !.pc = "handshake", !.left = HandshakeTimeout])
<1> DEFINE q == [r EXCEPT !.pc = "handshake", !.left = HandshakeTimeout]
<1>1. r \in Conn
  BY DEF ConnOK
<1>2. "handshake" \in PCs /\ HandshakeTimeout \in Lefts
  BY LongestIs DEF PCs, Lefts
<1>3. q \in Conn
  BY <1>1, <1>2 DEF Conn
<1>4. /\ q.pc = "handshake" /\ q.left = HandshakeTimeout
      /\ q.addr = r.addr /\ q.stream = r.stream /\ q.here = r.here /\ q.read = r.read /\ q.gone = r.gone
      /\ q.wait = r.wait /\ q.got = r.got /\ q.back = r.back /\ q.up = r.up /\ q.down = r.down
      /\ q.errc = r.errc
  BY <1>1 DEF Conn
<1> HIDE DEF q
<1>5. InStream(q)
  BY <1>4 DEF ConnOK, InStream
<1>6. Before(q)
  BY <1>4 DEF ConnOK, Before
<1>7. Session(q)
  BY <1>4 DEF ConnOK, Session, Before
<1>8. Waits(q)
  BY <1>4 DEF ConnOK, Waits, Before
<1> QED
  BY <1>3, <1>5, <1>6, <1>7, <1>8 DEF ConnOK, q

\* A handshake for a status was read.
LEMMA Asked ==
    ASSUME NEW r, ConnOK(r), r.pc = "handshake", NEW n \in Nat, n <= r.here
    PROVE  ConnOK([r EXCEPT !.pc = "status", !.read = n, !.left = StatusTimeout, !.wait = r.wait])
<1> DEFINE q == [r EXCEPT !.pc = "status", !.read = n, !.left = StatusTimeout, !.wait = r.wait]
<1>1. r \in Conn
  BY DEF ConnOK
<1>2. "status" \in PCs /\ StatusTimeout \in Lefts /\ r.wait \in Waitings
  BY <1>1, LongestIs DEF PCs, Lefts, Waitings, Conn
<1>3. q \in Conn
  BY <1>1, <1>2 DEF Conn
<1>4. /\ q.pc = "status" /\ q.read = n /\ q.left = StatusTimeout /\ q.wait = r.wait
      /\ q.addr = r.addr /\ q.stream = r.stream /\ q.here = r.here /\ q.gone = r.gone /\ q.got = r.got
      /\ q.back = r.back /\ q.up = r.up /\ q.down = r.down /\ q.errc = r.errc
  BY <1>1 DEF Conn
<1> HIDE DEF q
<1>5. InStream(q)
  BY <1>4, <1>1 DEF ConnOK, InStream, Conn
<1>6. Before(q)
  BY <1>4 DEF ConnOK, Before
<1>7. Session(q)
  BY <1>4 DEF ConnOK, Session, Before
<1>8. Waits(q)
  BY <1>4 DEF ConnOK, Waits, Before
<1> QED
  BY <1>3, <1>5, <1>6, <1>7, <1>8 DEF ConnOK, q

\* A handshake was read for a pack.
LEMMA Routed ==
    ASSUME NEW r, ConnOK(r), r.pc = "handshake", NEW n \in Nat, n <= r.here,
           ReadHandshake(r.stream).st = "ok", n = Start(r.stream)
    PROVE  ConnOK([r EXCEPT !.pc = "ensure", !.read = n, !.left = r.left, !.wait = StartupWait])
<1> DEFINE q == [r EXCEPT !.pc = "ensure", !.read = n, !.left = r.left, !.wait = StartupWait]
<1>1. r \in Conn
  BY DEF ConnOK
<1>2. "ensure" \in PCs /\ r.left \in Lefts /\ StartupWait \in Waitings
  BY <1>1, LongestIs DEF PCs, Lefts, Waitings, Conn
<1>3. q \in Conn
  BY <1>1, <1>2 DEF Conn
<1>4. /\ q.pc = "ensure" /\ q.read = n /\ q.left = r.left /\ q.wait = StartupWait
      /\ q.addr = r.addr /\ q.stream = r.stream /\ q.here = r.here /\ q.gone = r.gone /\ q.got = r.got
      /\ q.back = r.back /\ q.up = r.up /\ q.down = r.down /\ q.errc = r.errc
  BY <1>1 DEF Conn
<1> HIDE DEF q
<1>5. InStream(q)
  BY <1>4, <1>1 DEF ConnOK, InStream, Conn
<1>6. Before(q)
  BY <1>4 DEF ConnOK, Before
<1>7. Session(q)
  BY <1>4 DEF ConnOK, Session, Before
<1>8. Waits(q)
  BY <1>4 DEF ConnOK, Waits, Before
<1> QED
  BY <1>3, <1>5, <1>6, <1>7, <1>8 DEF ConnOK, q

\* A handshake was read for no pack.
LEMMA NotRouted ==
    ASSUME NEW r, ConnOK(r), r.pc = "handshake", NEW n \in Nat, n <= r.here
    PROVE  ConnOK([r EXCEPT !.pc = "reply", !.read = n, !.left = r.left, !.wait = r.wait])
<1> DEFINE q == [r EXCEPT !.pc = "reply", !.read = n, !.left = r.left, !.wait = r.wait]
<1>1. r \in Conn
  BY DEF ConnOK
<1>2. "reply" \in PCs /\ r.left \in Lefts /\ r.wait \in Waitings
  BY <1>1, LongestIs DEF PCs, Lefts, Waitings, Conn
<1>3. q \in Conn
  BY <1>1, <1>2 DEF Conn
<1>4. /\ q.pc = "reply" /\ q.read = n /\ q.left = r.left /\ q.wait = r.wait
      /\ q.addr = r.addr /\ q.stream = r.stream /\ q.here = r.here /\ q.gone = r.gone /\ q.got = r.got
      /\ q.back = r.back /\ q.up = r.up /\ q.down = r.down /\ q.errc = r.errc
  BY <1>1 DEF Conn
<1> HIDE DEF q
<1>5. InStream(q)
  BY <1>4, <1>1 DEF ConnOK, InStream, Conn
<1>6. Before(q)
  BY <1>4 DEF ConnOK, Before
<1>7. Session(q)
  BY <1>4 DEF ConnOK, Session, Before
<1>8. Waits(q)
  BY <1>4 DEF ConnOK, Waits, Before
<1> QED
  BY <1>3, <1>5, <1>6, <1>7, <1>8 DEF ConnOK, q

\* The status was sent.
LEMMA Answered ==
    ASSUME NEW r, ConnOK(r), r.pc = "status", NEW n \in Nat, n <= r.here
    PROVE  ConnOK([r EXCEPT !.pc = "ping", !.read = n, !.left = PingTimeout])
<1> DEFINE q == [r EXCEPT !.pc = "ping", !.read = n, !.left = PingTimeout]
<1>1. r \in Conn
  BY DEF ConnOK
<1>2. "ping" \in PCs /\ PingTimeout \in Lefts
  BY LongestIs DEF PCs, Lefts
<1>3. q \in Conn
  BY <1>1, <1>2 DEF Conn
<1>4. /\ q.pc = "ping" /\ q.read = n /\ q.left = PingTimeout
      /\ q.addr = r.addr /\ q.stream = r.stream /\ q.here = r.here /\ q.gone = r.gone /\ q.wait = r.wait
      /\ q.got = r.got /\ q.back = r.back /\ q.up = r.up /\ q.down = r.down /\ q.errc = r.errc
  BY <1>1 DEF Conn
<1> HIDE DEF q
<1>5. InStream(q)
  BY <1>4, <1>1 DEF ConnOK, InStream, Conn
<1>6. Before(q)
  BY <1>4 DEF ConnOK, Before
<1>7. Session(q)
  BY <1>4 DEF ConnOK, Session, Before
<1>8. Waits(q)
  BY <1>4 DEF ConnOK, Waits, Before
<1> QED
  BY <1>3, <1>5, <1>6, <1>7, <1>8 DEF ConnOK, q

\* The server is ready.
LEMMA Ensured ==
    ASSUME NEW r, ConnOK(r), r.pc = "ensure"
    PROVE  ConnOK([r EXCEPT !.pc = "dial", !.wait = DialTimeout])
<1> DEFINE q == [r EXCEPT !.pc = "dial", !.wait = DialTimeout]
<1>1. r \in Conn
  BY DEF ConnOK
<1>2. "dial" \in PCs /\ DialTimeout \in Waitings
  BY LongestIs DEF PCs, Waitings
<1>3. q \in Conn
  BY <1>1, <1>2 DEF Conn
<1>4. /\ q.pc = "dial" /\ q.wait = DialTimeout
      /\ q.addr = r.addr /\ q.stream = r.stream /\ q.here = r.here /\ q.read = r.read /\ q.gone = r.gone
      /\ q.left = r.left /\ q.got = r.got /\ q.back = r.back /\ q.up = r.up /\ q.down = r.down
      /\ q.errc = r.errc
  BY <1>1 DEF Conn
<1> HIDE DEF q
<1>5. InStream(q)
  BY <1>4 DEF ConnOK, InStream
<1>6. Before(q)
  BY <1>4 DEF ConnOK, Before
<1>7. Session(q)
  BY <1>4 DEF ConnOK, Session, Before
<1>8. Waits(q)
  BY <1>4 DEF ConnOK, Waits, Before
<1> QED
  BY <1>3, <1>5, <1>6, <1>7, <1>8 DEF ConnOK, q

\* The client is told why not.
LEMMA Refused ==
    ASSUME NEW r, ConnOK(r), r.pc \in {"ensure", "dial"}
    PROVE  ConnOK([r EXCEPT !.pc = "reply"])
<1> DEFINE q == [r EXCEPT !.pc = "reply"]
<1>1. r \in Conn
  BY DEF ConnOK
<1>2. "reply" \in PCs
  BY DEF PCs
<1>3. q \in Conn
  BY <1>1, <1>2 DEF Conn
<1>4. /\ q.pc = "reply"
      /\ q.addr = r.addr /\ q.stream = r.stream /\ q.here = r.here /\ q.read = r.read /\ q.gone = r.gone
      /\ q.left = r.left /\ q.wait = r.wait /\ q.got = r.got /\ q.back = r.back /\ q.up = r.up
      /\ q.down = r.down /\ q.errc = r.errc
  BY <1>1 DEF Conn
<1> HIDE DEF q
<1>5. InStream(q)
  BY <1>4 DEF ConnOK, InStream
<1>6. Before(q)
  BY <1>4 DEF ConnOK, Before
<1>7. Session(q)
  BY <1>4 DEF ConnOK, Session, Before
<1>8. Waits(q)
  BY <1>4 DEF ConnOK, Waits, Before
<1> QED
  BY <1>3, <1>5, <1>6, <1>7, <1>8 DEF ConnOK, q

\* Time has passed.
LEMMA Ticked ==
    ASSUME NEW r, ConnOK(r)
    PROVE  ConnOK([r EXCEPT !.left = Less(r.left), !.wait = Less(r.wait)])
<1> DEFINE q == [r EXCEPT !.left = Less(r.left), !.wait = Less(r.wait)]
<1>1. r \in Conn
  BY DEF ConnOK
<1>2. Less(r.left) \in Lefts /\ Less(r.wait) \in Waitings
  BY <1>1, LongestIs DEF Lefts, Waitings, Conn, Less
<1>3. q \in Conn
  BY <1>1, <1>2 DEF Conn
<1>4. /\ q.left = Less(r.left) /\ q.wait = Less(r.wait)
      /\ q.pc = r.pc /\ q.addr = r.addr /\ q.stream = r.stream /\ q.here = r.here /\ q.read = r.read
      /\ q.gone = r.gone /\ q.got = r.got /\ q.back = r.back /\ q.up = r.up /\ q.down = r.down
      /\ q.errc = r.errc
  BY <1>1 DEF Conn
<1> HIDE DEF q
<1>5. InStream(q)
  BY <1>4 DEF ConnOK, InStream
<1>6. Before(q)
  BY <1>4 DEF ConnOK, Before, Less
<1>7. Session(q)
  BY <1>4 DEF ConnOK, Session, Before
<1>8. Waits(q)
  BY <1>4 DEF ConnOK, Waits, Before, Less
<1> QED
  BY <1>3, <1>5, <1>6, <1>7, <1>8 DEF ConnOK, q

\* The goroutine that copies to the backend has ended, and has a reason to.
LEMMA UpEnded ==
    ASSUME NEW r, ConnOK(r), r.up = "copy",
           r.pc = "proxy" => r.gone \/ r.back = "closed"
    PROVE  ConnOK([r EXCEPT !.up = "send"])
<1> DEFINE q == [r EXCEPT !.up = "send"]
<1>1. r \in Conn
  BY DEF ConnOK
<1>2. "send" \in Copies
  BY DEF Copies
<1>3. q \in Conn
  BY <1>1, <1>2 DEF Conn
<1>4. /\ q.up = "send"
      /\ q.pc = r.pc /\ q.addr = r.addr /\ q.stream = r.stream /\ q.here = r.here /\ q.read = r.read
      /\ q.gone = r.gone /\ q.left = r.left /\ q.wait = r.wait /\ q.got = r.got /\ q.back = r.back
      /\ q.down = r.down /\ q.errc = r.errc
  BY <1>1 DEF Conn
<1> HIDE DEF q
<1>5. InStream(q)
  BY <1>4 DEF ConnOK, InStream
<1>6. Before(q)
  BY <1>4 DEF ConnOK, Before
<1>7. Session(q)
  BY <1>4 DEF ConnOK, Session, Before
<1>8. Waits(q)
  BY <1>4 DEF ConnOK, Waits, Before
<1> QED
  BY <1>3, <1>5, <1>6, <1>7, <1>8 DEF ConnOK, q

\* So has the one that copies to the client.
LEMMA DownEnded ==
    ASSUME NEW r, ConnOK(r), r.down = "copy",
           r.pc = "proxy" => r.gone \/ r.back = "closed"
    PROVE  ConnOK([r EXCEPT !.down = "send"])
<1> DEFINE q == [r EXCEPT !.down = "send"]
<1>1. r \in Conn
  BY DEF ConnOK
<1>2. "send" \in Copies
  BY DEF Copies
<1>3. q \in Conn
  BY <1>1, <1>2 DEF Conn
<1>4. /\ q.down = "send"
      /\ q.pc = r.pc /\ q.addr = r.addr /\ q.stream = r.stream /\ q.here = r.here /\ q.read = r.read
      /\ q.gone = r.gone /\ q.left = r.left /\ q.wait = r.wait /\ q.got = r.got /\ q.back = r.back
      /\ q.up = r.up /\ q.errc = r.errc
  BY <1>1 DEF Conn
<1> HIDE DEF q
<1>5. InStream(q)
  BY <1>4 DEF ConnOK, InStream
<1>6. Before(q)
  BY <1>4 DEF ConnOK, Before
<1>7. Session(q)
  BY <1>4 DEF ConnOK, Session, Before
<1>8. Waits(q)
  BY <1>4 DEF ConnOK, Waits, Before
<1> QED
  BY <1>3, <1>5, <1>6, <1>7, <1>8 DEF ConnOK, q

\* A goroutine has told the handler that it ended.
LEMMA UpSent ==
    ASSUME NEW r, ConnOK(r), r.up = "send", r.errc < 2
    PROVE  ConnOK([r EXCEPT !.up = "done", !.errc = r.errc + 1])
<1> DEFINE q == [r EXCEPT !.up = "done", !.errc = r.errc + 1]
<1>1. r \in Conn
  BY DEF ConnOK
<1>2. "done" \in Copies /\ r.errc + 1 \in Errs
  BY <1>1 DEF Copies, Errs, Conn
<1>3. q \in Conn
  BY <1>1, <1>2 DEF Conn
<1>4. /\ q.up = "done" /\ q.errc = r.errc + 1
      /\ q.pc = r.pc /\ q.addr = r.addr /\ q.stream = r.stream /\ q.here = r.here /\ q.read = r.read
      /\ q.gone = r.gone /\ q.left = r.left /\ q.wait = r.wait /\ q.got = r.got /\ q.back = r.back
      /\ q.down = r.down
  BY <1>1 DEF Conn
<1> HIDE DEF q
<1>5. InStream(q)
  BY <1>4, <1>1 DEF ConnOK, InStream, Conn
<1>6. Before(q)
  BY <1>4 DEF ConnOK, Before
<1>7. Session(q)
  BY <1>4 DEF ConnOK, Session, Before
<1>8. Waits(q)
  BY <1>4, <1>1 DEF ConnOK, Waits, Before, Conn, Errs
<1> QED
  BY <1>3, <1>5, <1>6, <1>7, <1>8 DEF ConnOK, q

\* So has the other one.
LEMMA DownSent ==
    ASSUME NEW r, ConnOK(r), r.down = "send", r.errc < 2
    PROVE  ConnOK([r EXCEPT !.down = "done", !.errc = r.errc + 1])
<1> DEFINE q == [r EXCEPT !.down = "done", !.errc = r.errc + 1]
<1>1. r \in Conn
  BY DEF ConnOK
<1>2. "done" \in Copies /\ r.errc + 1 \in Errs
  BY <1>1 DEF Copies, Errs, Conn
<1>3. q \in Conn
  BY <1>1, <1>2 DEF Conn
<1>4. /\ q.down = "done" /\ q.errc = r.errc + 1
      /\ q.pc = r.pc /\ q.addr = r.addr /\ q.stream = r.stream /\ q.here = r.here /\ q.read = r.read
      /\ q.gone = r.gone /\ q.left = r.left /\ q.wait = r.wait /\ q.got = r.got /\ q.back = r.back
      /\ q.up = r.up
  BY <1>1 DEF Conn
<1> HIDE DEF q
<1>5. InStream(q)
  BY <1>4, <1>1 DEF ConnOK, InStream, Conn
<1>6. Before(q)
  BY <1>4 DEF ConnOK, Before
<1>7. Session(q)
  BY <1>4 DEF ConnOK, Session, Before
<1>8. Waits(q)
  BY <1>4, <1>1 DEF ConnOK, Waits, Before, Conn, Errs
<1> QED
  BY <1>3, <1>5, <1>6, <1>7, <1>8 DEF ConnOK, q

\* The handler has ended.
LEMMA Finished ==
    ASSUME NEW r, ConnOK(r), r.pc = "proxy", r.errc > 0
    PROVE  ConnOK([r EXCEPT !.pc = "free", !.errc = r.errc - 1, !.back = "closed"])
<1> DEFINE q == [r EXCEPT !.pc = "free", !.errc = r.errc - 1, !.back = "closed"]
<1>1. r \in Conn
  BY DEF ConnOK
<1>2. "free" \in PCs /\ r.errc - 1 \in Errs /\ "closed" \in Backs
  BY <1>1 DEF PCs, Errs, Backs, Conn
<1>3. q \in Conn
  BY <1>1, <1>2 DEF Conn
<1>4. /\ q.pc = "free" /\ q.errc = r.errc - 1 /\ q.back = "closed"
      /\ q.addr = r.addr /\ q.stream = r.stream /\ q.here = r.here /\ q.read = r.read /\ q.gone = r.gone
      /\ q.left = r.left /\ q.wait = r.wait /\ q.got = r.got /\ q.up = r.up /\ q.down = r.down
  BY <1>1 DEF Conn
<1> HIDE DEF q
<1>5. InStream(q)
  BY <1>4, <1>1 DEF ConnOK, InStream, Conn
<1>6. Before(q)
  BY <1>4 DEF ConnOK, Before
<1>7. Session(q)
  BY <1>4 DEF ConnOK, Session, Before
<1>8. Waits(q)
  BY <1>4, <1>1 DEF ConnOK, Waits, Before, Conn, Errs
<1> QED
  BY <1>3, <1>5, <1>6, <1>7, <1>8 DEF ConnOK, q

\* Two pieces of a stream that meet are one piece.
LEMMA PiecesJoin ==
    ASSUME NEW s \in Streams, NEW i \in Nat, NEW j \in Nat, NEW k \in Nat,
           i <= j, j <= k, k <= Len(s)
    PROVE  Between(s, i, j) \o Between(s, j, k) = Between(s, i, k)
<1>1. PICK a, b, c : a = Between(s, i, j) /\ b = Between(s, j, k) /\ c = Between(s, i, k)
  OBVIOUS
<1>2. s \in Seq(Bytes) /\ Len(s) \in Nat /\ i <= k /\ j <= Len(s)
  BY RouterAssumption
<1>3. a \in Seq(Bytes) /\ Len(a) = j - i
  BY <1>1, <1>2, PieceIs
<1>4. b \in Seq(Bytes) /\ Len(b) = k - j
  BY <1>1, <1>2, PieceIs
<1>5. c \in Seq(Bytes) /\ Len(c) = k - i
  BY <1>1, <1>2, PieceIs
<1>6. \A n \in 1 .. j - i : a[n] = s[i + n]
  BY <1>1, <1>2 DEF Between
<1>7. \A n \in 1 .. k - j : b[n] = s[j + n]
  BY <1>1, <1>2 DEF Between
<1>8. \A n \in 1 .. k - i : c[n] = s[i + n]
  BY <1>1, <1>2 DEF Between
<1>9. /\ a \o b \in Seq(Bytes) /\ Len(a \o b) = k - i
      /\ \A n \in 1 .. k - i : (a \o b)[n] = IF n <= j - i THEN a[n] ELSE b[n - (j - i)]
  <2>1. /\ a \o b \in Seq(Bytes) /\ Len(a \o b) = Len(a) + Len(b)
        /\ \A n \in 1 .. Len(a) + Len(b) : (a \o b)[n] = IF n <= Len(a) THEN a[n] ELSE b[n - Len(a)]
    BY <1>3, <1>4, ConcatProperties
  <2>2. Len(a) + Len(b) = k - i
    BY <1>3, <1>4
  <2> QED
    BY <1>3, <2>1, <2>2
<1>10. \A n \in 1 .. k - i : (a \o b)[n] = c[n]
  <2> TAKE n \in 1 .. k - i
  <2>1. CASE n <= j - i
    <3>1. n \in 1 .. j - i
      BY <2>1
    <3> QED
      BY <1>6, <1>8, <1>9, <2>1, <3>1
  <2>2. CASE n > j - i
    <3>1. n - (j - i) \in 1 .. k - j /\ j + (n - (j - i)) = i + n /\ ~(n <= j - i)
      BY <2>2
    <3>2. b[n - (j - i)] = s[j + (n - (j - i))]
      BY <1>7, <3>1
    <3>3. c[n] = s[i + n] /\ (a \o b)[n] = b[n - (j - i)]
      BY <1>8, <1>9, <3>1
    <3> QED
      BY <3>1, <3>2, <3>3
  <2>3. n <= j - i \/ n > j - i
    OBVIOUS
  <2> QED
    BY <2>1, <2>2, <2>3
<1>11. a \o b = c
  BY <1>5, <1>9, <1>10, SeqEqual
<1> QED
  BY <1>1, <1>11

\* The session begins with the handshake.
LEMMA Dialed ==
    ASSUME NEW r, ConnOK(r), r.pc = "dial"
    PROVE  ConnOK([r EXCEPT !.pc = "proxy", !.left = -1, !.wait = 0,
                            !.got = ReadHandshake(r.stream).val.frame, !.read = r.read,
                            !.back = "open", !.up = "copy", !.down = "copy"])
<1> DEFINE f == ReadHandshake(r.stream).val.frame
           q == [r EXCEPT !.pc = "proxy", !.left = -1, !.wait = 0, !.got = f, !.read = r.read,
                          !.back = "open", !.up = "copy", !.down = "copy"]
<1>1. r \in Conn /\ r.stream \in Streams /\ ReadHandshake(r.stream).st = "ok"
  BY DEF ConnOK, Before
<1>2. f \in Seq(Bytes)
  BY <1>1, StartIs
<1> HIDE DEF f
<1>3. "proxy" \in PCs /\ -1 \in Lefts /\ 0 \in Waitings /\ "open" \in Backs /\ "copy" \in Copies
  BY LongestIs DEF PCs, Lefts, Waitings, Backs, Copies
<1>4. q \in Conn
  BY <1>1, <1>2, <1>3 DEF Conn
<1>5. /\ q.pc = "proxy" /\ q.left = -1 /\ q.got = f /\ q.read = r.read /\ q.back = "open"
      /\ q.up = "copy" /\ q.down = "copy"
      /\ q.stream = r.stream /\ q.here = r.here /\ q.errc = r.errc /\ q.gone = r.gone
  BY <1>1 DEF Conn
<1> HIDE DEF q
<1>6. InStream(q)
  BY <1>5 DEF ConnOK, InStream
<1>7. Before(q)
  BY <1>1, <1>5 DEF Before
<1>8. Session(q)
  <2>1. PICK s, n : s = r.stream /\ n = Start(s)
    OBVIOUS
  <2>2. s \in Streams /\ n \in 0 .. Len(s) /\ Len(s) \in Nat /\ r.read = n
    BY <1>1, <2>1, StartIs, WholeIs DEF ConnOK, Before
  <2>3. PICK e : e = Between(s, n, n)
    OBVIOUS
  <2>4. e \in Seq(Bytes) /\ Len(e) = 0
    BY <2>2, <2>3, PieceIs
  <2>5. e = <<>>
    BY <2>4, EmptySeq
  <2>6. f = f \o e
    BY <1>2, <2>5, ConcatEmptySeq
  <2>7. q.stream = s /\ q.read = n /\ q.got = ReadHandshake(s).val.frame \o Between(s, n, n)
    BY <1>5, <2>1, <2>2, <2>3, <2>6 DEF f
  <2> QED
    BY <1>1, <2>1, <2>2, <2>7 DEF Session
<1>9. Waits(q)
  BY <1>5 DEF ConnOK, Waits, Before
<1> QED
  BY <1>4, <1>6, <1>7, <1>8, <1>9 DEF ConnOK, q, f

\* The session goes on with the bytes that have come.
LEMMA Copied ==
    ASSUME NEW r, ConnOK(r), r.up = "copy", r.pc = "proxy"
    PROVE  ConnOK([r EXCEPT !.got = r.got \o Between(r.stream, r.read, r.here), !.read = r.here])
<1> DEFINE b == Between(r.stream, r.read, r.here)
           q == [r EXCEPT !.got = r.got \o b, !.read = r.here]
<1>1. r \in Conn /\ r.read \in Nat /\ r.here \in Nat /\ r.got \in Seq(Bytes)
  BY DEF ConnOK, Conn
<1>2. /\ r.stream \in Streams /\ ReadHandshake(r.stream).st = "ok"
      /\ Start(r.stream) <= r.read /\ r.read <= r.here /\ r.here <= Len(r.stream)
  BY DEF ConnOK, InStream, Session
<1>3. b \in Seq(Bytes)
  BY <1>1, <1>2, PieceIs
<1> HIDE DEF b
<1>4. PICK g : g = r.got \o b
  OBVIOUS
<1>5. g \in Seq(Bytes)
  BY <1>1, <1>3, <1>4, ConcatProperties
<1>6. q \in Conn
  BY <1>1, <1>4, <1>5 DEF Conn
<1>7. /\ q.got = g /\ q.read = r.here /\ q.pc = r.pc /\ q.left = r.left /\ q.back = r.back
      /\ q.up = r.up /\ q.down = r.down /\ q.stream = r.stream /\ q.here = r.here
      /\ q.errc = r.errc /\ q.gone = r.gone
  BY <1>1, <1>4 DEF Conn
<1> HIDE DEF q
<1>8. InStream(q)
  BY <1>1, <1>2, <1>7 DEF InStream
<1>9. Before(q)
  BY <1>2, <1>7 DEF Before
<1>10. Session(q)
  <2>1. PICK s, n : s = r.stream /\ n = Start(s)
    OBVIOUS
  <2>2. s \in Streams /\ n \in Nat /\ Len(s) \in Nat
    BY <1>2, <2>1, StartIs, WholeIs
  <2>3. PICK f, a : f = ReadHandshake(s).val.frame /\ a = Between(s, n, r.read)
    OBVIOUS
  <2>4. f \in Seq(Bytes) /\ a \in Seq(Bytes) /\ r.got = f \o a
    <3>1. f \in Seq(Bytes)
      BY <1>2, <2>1, <2>3, StartIs
    <3>2. n <= r.read /\ r.read <= Len(s)
      BY <1>1, <1>2, <2>1, <2>2
    <3>3. a \in Seq(Bytes)
      BY <1>1, <2>2, <2>3, <3>2, PieceIs
    <3> QED
      BY <2>1, <2>3, <3>1, <3>3 DEF ConnOK, Session
  <2>5. a \o b = Between(s, n, r.here)
    <3>1. n <= r.read /\ r.read <= r.here /\ r.here <= Len(s) /\ b = Between(s, r.read, r.here)
      BY <1>2, <2>1 DEF b
    <3> QED
      BY <1>1, <2>2, <2>3, <3>1, PiecesJoin
  <2>6. g = f \o (a \o b)
    BY <1>3, <1>4, <2>4, CatIs DEF Cat
  <2>7. n <= r.here
    BY <1>1, <1>2, <2>1, <2>2
  <2> QED
    BY <1>2, <1>7, <2>1, <2>3, <2>5, <2>6, <2>7 DEF Session
<1>11. Waits(q)
  BY <1>7 DEF ConnOK, Waits
<1> QED
  BY <1>4, <1>6, <1>8, <1>9, <1>10, <1>11 DEF ConnOK, q, b

----------------------------------------------------------------------------
\* The steps of the connections

\* Fields of a connection that are changed one by one are changed together.
LEMMA FieldsChanged ==
    ASSUME NEW c \in Conns, ConnsOK, NEW v1, NEW v2
    PROVE  /\ [conn EXCEPT ![c].pc = v1] = [conn EXCEPT ![c] = [conn[c] EXCEPT !.pc = v1]]
           /\ [conn EXCEPT ![c].here = v1] = [conn EXCEPT ![c] = [conn[c] EXCEPT !.here = v1]]
           /\ [conn EXCEPT ![c].gone = v1] = [conn EXCEPT ![c] = [conn[c] EXCEPT !.gone = v1]]
           /\ [conn EXCEPT ![c].back = v1] = [conn EXCEPT ![c] = [conn[c] EXCEPT !.back = v1]]
           /\ [conn EXCEPT ![c].up = v1] = [conn EXCEPT ![c] = [conn[c] EXCEPT !.up = v1]]
           /\ [conn EXCEPT ![c].down = v1] = [conn EXCEPT ![c] = [conn[c] EXCEPT !.down = v1]]
           /\ [conn EXCEPT ![c].pc = v1, ![c].left = v2] =
                [conn EXCEPT ![c] = [conn[c] EXCEPT !.pc = v1, !.left = v2]]
           /\ [conn EXCEPT ![c].pc = v1, ![c].wait = v2] =
                [conn EXCEPT ![c] = [conn[c] EXCEPT !.pc = v1, !.wait = v2]]
           /\ [conn EXCEPT ![c].got = v1, ![c].read = v2] =
                [conn EXCEPT ![c] = [conn[c] EXCEPT !.got = v1, !.read = v2]]
<1>1. conn \in [Conns -> Conn]
  BY DEF ConnsOK
<1> QED
  BY <1>1 DEF Conn

\* What a handler has read, in terms of the codec.
LEMMA ReadingIs ==
    ASSUME NEW c \in Conns, ConnsOK, conn[c].pc # "free"
    PROVE  /\ Unread(c) \in Waiting /\ Unread(c) \in Seq(Bytes)
           /\ Len(Unread(c)) = conn[c].here - conn[c].read
           /\ At(c, "handshake") => Reading(c) = ReadHandshake(Unread(c))
           /\ At(c, "status") => Reading(c) = ReadMessage(Unread(c))
<1>1. /\ conn[c].stream \in Streams /\ conn[c].read \in Nat /\ conn[c].here \in Nat
      /\ conn[c].read <= conn[c].here /\ conn[c].here <= Len(conn[c].stream)
  BY DEF ConnsOK, ConnOK, InStream, Before, Conn
<1>2. /\ Unread(c) \in Waiting /\ Unread(c) \in Seq(Bytes)
      /\ Len(Unread(c)) = conn[c].here - conn[c].read
  BY <1>1, PieceIs DEF Unread
<1>3. PICK u : u = Unread(c)
  OBVIOUS
<1> QED
  BY <1>2, <1>3, ReadersAre DEF At, Reading

\* The connection leaves, and the handler gives its slot back.
LEMMA EndStep ==
    ASSUME NEW c \in Conns, ConnsOK, End(c), conn[c].pc \notin {"free", "proxy"}
    PROVE  \E q : Becomes(c, q)
BY NoConnIs DEF End, Becomes

\* A new connection takes a slot, or is closed at once.
LEMMA AcceptStep ==
    ASSUME NEW c \in Conns, ConnsOK, Accept(c)
    PROVE  \E q : Becomes(c, q)
<1>1. CASE /\ sem < MaxConnections /\ sem' = sem + 1
           /\ \E a \in Addrs, s \in Streams :
                conn' = [conn EXCEPT ![c] = [NoConn EXCEPT !.pc = "limit", !.addr = a, !.stream = s]]
  <2>1. PICK a \in Addrs, s \in Streams :
          conn' = [conn EXCEPT ![c] = [NoConn EXCEPT !.pc = "limit", !.addr = a, !.stream = s]]
    BY <1>1
  <2>2. PICK q : q = [NoConn EXCEPT !.pc = "limit", !.addr = a, !.stream = s]
    OBVIOUS
  <2>3. ConnOK(q)
    BY <2>2, Accepted
  <2>4. q.pc = "limit"
    BY <2>2, NoConnIs DEF Conn
  <2>5. conn' = [conn EXCEPT ![c] = q] /\ conn[c].pc = "free"
    BY <2>1, <2>2, NoConnIs DEF Accept
  <2> QED
    BY <1>1, <2>3, <2>4, <2>5 DEF Becomes
<1>2. CASE conn' = conn /\ sem' = sem
  <2>1. conn \in [Conns -> Conn] /\ ConnOK(conn[c])
    BY DEF ConnsOK
  <2>2. conn' = [conn EXCEPT ![c] = conn[c]]
    BY <1>2, <2>1
  <2> QED
    BY <1>2, <2>1, <2>2 DEF Becomes
<1> QED
  BY <1>1, <1>2 DEF Accept

\* The steps of the peers, who take and give no slot.
LEMMA PeerStep ==
    ASSUME NEW c \in Conns, ConnsOK, Arrive(c) \/ ClientCloses(c) \/ BackendCloses(c)
    PROVE  \E q : Becomes(c, q)
<1>1. conn[c] \in Conn /\ ConnOK(conn[c])
  BY DEF ConnsOK
<1>2. CASE Arrive(c)
  <2>1. PICK n \in Cuts \cup {Len(conn[c].stream)} :
          /\ conn[c].here < n /\ n <= Len(conn[c].stream)
          /\ conn' = [conn EXCEPT ![c].here = n]
    BY <1>2 DEF Arrive
  <2>2. PICK q : q = [conn[c] EXCEPT !.here = n]
    OBVIOUS
  <2>3. n \in Nat /\ conn[c].pc # "free" /\ sem' = sem
    <3>1. conn[c].stream \in Streams
      BY <1>1, <1>2 DEF Arrive, ConnOK, Before
    <3> QED
      BY <1>2, <3>1, WholeIs, RouterAssumption DEF Arrive
  <2>4. ConnOK(q) /\ q.pc = conn[c].pc
    BY <1>1, <2>1, <2>2, <2>3, Arrived DEF Conn
  <2>5. conn' = [conn EXCEPT ![c] = q]
    BY <2>1, <2>2, FieldsChanged
  <2> QED
    BY <2>3, <2>4, <2>5 DEF Becomes
<1>3. CASE ClientCloses(c)
  <2>1. PICK q : q = [conn[c] EXCEPT !.gone = TRUE]
    OBVIOUS
  <2>2. ConnOK(q) /\ q.pc = conn[c].pc
    BY <1>1, <2>1, ClientClosed DEF Conn
  <2>3. conn' = [conn EXCEPT ![c] = q] /\ sem' = sem /\ conn[c].pc # "free"
    BY <1>3, <2>1, FieldsChanged DEF ClientCloses
  <2> QED
    BY <2>2, <2>3 DEF Becomes
<1>4. CASE BackendCloses(c)
  <2>1. PICK q : q = [conn[c] EXCEPT !.back = "closed"]
    OBVIOUS
  <2>2. ConnOK(q) /\ q.pc = conn[c].pc
    BY <1>1, <1>4, <2>1, BackendClosed DEF Conn, BackendCloses
  <2>3. conn' = [conn EXCEPT ![c] = q] /\ sem' = sem
    BY <1>4, <2>1, FieldsChanged DEF BackendCloses
  <2> QED
    BY <2>2, <2>3 DEF Becomes
<1> QED
  BY <1>2, <1>3, <1>4

\* allow(): the connection goes on, or leaves.
LEMMA AllowStep ==
    ASSUME NEW c \in Conns, ConnsOK, Allow(c)
    PROVE  \E q : Becomes(c, q)
<1>1. conn[c] \in Conn /\ ConnOK(conn[c]) /\ conn[c].pc = "limit"
  BY DEF ConnsOK, Allow, At
<1>2. \/ conn' = [conn EXCEPT ![c].pc = "handshake", ![c].left = HandshakeTimeout] /\ sem' = sem
      \/ End(c)
  BY DEF Allow, Refuse
<1>3. CASE conn' = [conn EXCEPT ![c].pc = "handshake", ![c].left = HandshakeTimeout] /\ sem' = sem
  <2>1. PICK q : q = [conn[c] EXCEPT !.pc = "handshake", !.left = HandshakeTimeout]
    OBVIOUS
  <2>2. ConnOK(q) /\ q.pc = "handshake"
    BY <1>1, <2>1, Admitted DEF Conn
  <2>3. conn' = [conn EXCEPT ![c] = q]
    BY <1>3, <2>1, FieldsChanged
  <2> QED
    BY <1>1, <1>3, <2>2, <2>3 DEF Becomes
<1> QED
  BY <1>1, <1>2, <1>3, EndStep

\* A handshake is read, or refused.
LEMMA HandshakeStep ==
    ASSUME NEW c \in Conns, ConnsOK, Handshake(c)
    PROVE  \E q : Becomes(c, q)
<1>1. conn[c] \in Conn /\ ConnOK(conn[c]) /\ conn[c].pc = "handshake"
  BY DEF ConnsOK, Handshake, At
<1>2. CASE ReadFails(c) /\ End(c)
  BY <1>1, <1>2, EndStep
<1>3. ASSUME Reading(c).st = "ok", sem' = sem,
             LET pc == Routes[Unread(c)] IN
             conn' = [conn EXCEPT ![c].pc = pc, ![c].read = Consumed(c),
                                  ![c].left = IF pc = "status" THEN StatusTimeout ELSE @,
                                  ![c].wait = IF pc = "ensure" THEN StartupWait ELSE @]
      PROVE  \E q : Becomes(c, q)
  <2>1. PICK r, s, u, pc, n : /\ r = conn[c] /\ s = r.stream /\ u = Unread(c)
                              /\ pc = Routes[u] /\ n = Consumed(c)
    OBVIOUS
  <2>2. /\ r \in Conn /\ ConnOK(r) /\ r.pc = "handshake" /\ s \in Streams
        /\ r.read = 0 /\ r.here \in Nat /\ r.here <= Len(s)
    BY <1>1, <2>1 DEF ConnOK, Before, InStream, Conn
  <2>3. /\ u \in Waiting /\ Reading(c) = ReadHandshake(u) /\ ReadHandshake(u).st = "ok"
        /\ u = Between(s, 0, r.here)
    BY <1>3, <2>1, <2>2, ReadingIs DEF At, Unread
  <2>4. /\ ReadHandshake(s).st = "ok" /\ n = Start(s) /\ n \in Nat /\ n <= r.here
    <3>1. ReadHandshake(Between(s, 0, r.here)).st = "ok"
      BY <2>3
    <3>2. /\ ReadHandshake(s).st = "ok" /\ Start(s) \in 0 .. r.here
          /\ r.here - Len(ReadHandshake(Between(s, 0, r.here)).rest) = Start(s)
      BY <2>2, <3>1, HandshakeArrived
    <3>3. n = r.here - Len(ReadHandshake(u).rest)
      BY <2>1, <2>3 DEF Consumed
    <3> QED
      BY <2>2, <2>3, <3>2, <3>3
  <2>5. pc \in {"status", "reply", "ensure"}
    BY <2>1, <2>3, ReadersAre DEF Routes, AfterHandshake
  <2>6. PICK l, w : /\ l = IF pc = "status" THEN StatusTimeout ELSE r.left
                    /\ w = IF pc = "ensure" THEN StartupWait ELSE r.wait
    OBVIOUS
  <2>7. PICK q : q = [r EXCEPT !.pc = pc, !.read = n, !.left = l, !.wait = w]
    OBVIOUS
  <2>8. conn' = [conn EXCEPT ![c] = q]
    <3>1. conn' = [conn EXCEPT ![c].pc = pc, ![c].read = n, ![c].left = l, ![c].wait = w]
      BY <1>3, <2>1, <2>6 DEF ConnsOK, Conn
    <3> QED
      BY <2>1, <2>7, <3>1 DEF ConnsOK, Conn
  <2>9. ConnOK(q)
    <3>1. CASE pc = "status"
      BY <2>2, <2>4, <2>6, <2>7, <3>1, Asked
    <3>2. CASE pc = "ensure"
      BY <2>1, <2>2, <2>4, <2>6, <2>7, <3>2, Routed
    <3>3. CASE pc = "reply"
      BY <2>2, <2>4, <2>6, <2>7, <3>3, NotRouted
    <3> QED
      BY <2>5, <3>1, <3>2, <3>3
  <2>10. q.pc = pc
    BY <2>2, <2>7 DEF Conn
  <2> QED
    BY <1>1, <1>3, <2>5, <2>8, <2>9, <2>10 DEF Becomes
<1> QED
  BY <1>2, <1>3 DEF Handshake

\* The handler answers a status request, a ping, or a client it refuses.
LEMMA AnswerStep ==
    ASSUME NEW c \in Conns, ConnsOK, Status(c) \/ Ping(c) \/ Reply(c)
    PROVE  \E q : Becomes(c, q)
<1>1. conn[c] \in Conn /\ ConnOK(conn[c])
  BY DEF ConnsOK
<1>2. CASE Status(c)
  <2>1. conn[c].pc = "status"
    BY <1>2 DEF Status, At
  <2>2. CASE ReadFails(c) /\ End(c)
    BY <2>1, <2>2, EndStep
  <2>3. ASSUME Reading(c).st = "ok", sem' = sem,
               conn' = [conn EXCEPT ![c].pc = "ping", ![c].read = Consumed(c), ![c].left = PingTimeout]
        PROVE  \E q : Becomes(c, q)
    <3>1. PICK r, u, n : r = conn[c] /\ u = Unread(c) /\ n = Consumed(c)
      OBVIOUS
    <3>2. /\ u \in Seq(Bytes) /\ Len(u) = r.here - r.read /\ Reading(c) = ReadMessage(u)
          /\ r.here \in Nat /\ r.read \in Nat
      BY <1>1, <2>1, <3>1, ReadingIs DEF At, Conn
    <3>3. Len(ReadMessage(u).rest) \in 0 .. Len(u)
      BY <2>3, <3>2, MessageEnds
    <3>4. n \in Nat /\ n <= r.here
      <4>1. n = r.here - Len(ReadMessage(u).rest)
        BY <3>1, <3>2 DEF Consumed
      <4> QED
        BY <3>2, <3>3, <4>1
    <3>5. PICK q : q = [r EXCEPT !.pc = "ping", !.read = n, !.left = PingTimeout]
      OBVIOUS
    <3>6. ConnOK(q) /\ q.pc = "ping"
      BY <1>1, <2>1, <3>1, <3>4, <3>5, Answered DEF Conn
    <3>7. conn' = [conn EXCEPT ![c] = q]
      BY <2>3, <3>1, <3>5 DEF ConnsOK, Conn
    <3> QED
      BY <2>1, <2>3, <3>6, <3>7 DEF Becomes
  <2> QED
    BY <1>2, <2>2, <2>3 DEF Status
<1>3. CASE Ping(c) \/ Reply(c)
  BY <1>3, EndStep DEF Ping, Reply, At
<1> QED
  BY <1>2, <1>3

\* Ensure returns, and the backend is dialed.
LEMMA LoginStep ==
    ASSUME NEW c \in Conns, ConnsOK, Ensure(c) \/ Dial(c)
    PROVE  \E q : Becomes(c, q)
<1>1. conn[c] \in Conn /\ ConnOK(conn[c]) /\ conn[c].pc \in {"ensure", "dial"}
  BY DEF ConnsOK, Ensure, Dial, At
<1>2. CASE Go(c, "reply")
  <2>1. PICK q : q = [conn[c] EXCEPT !.pc = "reply"]
    OBVIOUS
  <2>2. ConnOK(q) /\ q.pc = "reply"
    BY <1>1, <2>1, Refused DEF Conn
  <2>3. conn' = [conn EXCEPT ![c] = q] /\ sem' = sem
    BY <1>2, <2>1, FieldsChanged DEF Go
  <2> QED
    BY <1>1, <2>2, <2>3 DEF Becomes
<1>3. CASE Ensure(c) /\ ~Go(c, "reply")
  <2>1. PICK q : q = [conn[c] EXCEPT !.pc = "dial", !.wait = DialTimeout]
    OBVIOUS
  <2>2. conn[c].pc = "ensure"
    BY <1>3 DEF Ensure, At
  <2>3. ConnOK(q) /\ q.pc = "dial"
    BY <1>1, <2>1, <2>2, Ensured DEF Conn
  <2>4. conn' = [conn EXCEPT ![c] = q] /\ sem' = sem
    <3>1. conn' = [conn EXCEPT ![c].pc = "dial", ![c].wait = DialTimeout] /\ sem' = sem
      BY <1>3 DEF Ensure
    <3>2. [conn EXCEPT ![c].pc = "dial", ![c].wait = DialTimeout] =
            [conn EXCEPT ![c] = [conn[c] EXCEPT !.pc = "dial", !.wait = DialTimeout]]
      BY FieldsChanged
    <3> QED
      BY <2>1, <3>1, <3>2
  <2> QED
    BY <1>1, <2>3, <2>4 DEF Becomes
<1>4. CASE Dial(c) /\ ~Go(c, "reply") /\ ~End(c)
  <2>1. PICK r, f : r = conn[c] /\ f = ReadHandshake(r.stream).val.frame
    OBVIOUS
  <2>2. r.pc = "dial" /\ r.stream \in Streams /\ Readers.handshake[r.stream].val.frame = f
    BY <1>1, <1>4, <2>1, WholeIs, ReadersAre DEF Dial, At, ConnOK, Before
  <2>3. PICK q : q = [r EXCEPT !.pc = "proxy", !.left = -1, !.wait = 0, !.got = f, !.read = r.read,
                               !.back = "open", !.up = "copy", !.down = "copy"]
    OBVIOUS
  <2>4. ConnOK(q) /\ q.pc = "proxy"
    BY <1>1, <2>1, <2>2, <2>3, Dialed DEF Conn
  <2>5. /\ sem' = sem
        /\ conn' = [conn EXCEPT ![c].pc = "proxy", ![c].left = -1, ![c].wait = 0, ![c].got = f,
                        ![c].read = r.read, ![c].back = "open", ![c].up = "copy", ![c].down = "copy"]
    BY <1>4, <2>1, <2>2 DEF Dial, DeadlineCleared, CopyFrom
  <2>6. conn' = [conn EXCEPT ![c] = q]
    BY <2>1, <2>3, <2>5 DEF ConnsOK, Conn
  <2> QED
    BY <1>1, <2>1, <2>4, <2>5, <2>6 DEF Becomes
<1>5. CASE End(c)
  BY <1>1, <1>5, EndStep
<1> QED
  BY <1>2, <1>3, <1>4, <1>5

\* The goroutines of a session copy, and end.
LEMMA CopyStep ==
    ASSUME NEW c \in Conns, ConnsOK, Copying(c)
    PROVE  \E q : Becomes(c, q)
<1>1. conn[c] \in Conn /\ ConnOK(conn[c])
  BY DEF ConnsOK
<1>2. CASE CopyUp(c)
  <2>1. PICK r, b : r = conn[c] /\ b = Between(r.stream, r.read, r.here)
    OBVIOUS
  <2>2. PICK q : q = [r EXCEPT !.got = r.got \o b, !.read = r.here]
    OBVIOUS
  <2>3. ConnOK(q) /\ q.pc = r.pc
    BY <1>1, <1>2, <2>1, <2>2, Copied DEF Conn, CopyUp, At
  <2>4. conn' = [conn EXCEPT ![c].got = r.got \o b, ![c].read = r.here] /\ sem' = sem
    BY <1>2, <2>1 DEF CopyUp, Unread, ConnsOK, Conn
  <2>5. conn' = [conn EXCEPT ![c] = q]
    <3>1. PICK v1, v2 : v1 = r.got \o b /\ v2 = r.here
      OBVIOUS
    <3>2. [conn EXCEPT ![c].got = v1, ![c].read = v2] =
            [conn EXCEPT ![c] = [conn[c] EXCEPT !.got = v1, !.read = v2]]
      BY FieldsChanged
    <3>3. q = [conn[c] EXCEPT !.got = v1, !.read = v2]
      BY <2>1, <2>2, <3>1
    <3>4. conn' = [conn EXCEPT ![c].got = v1, ![c].read = v2]
      BY <2>4, <3>1
    <3> QED
      BY <3>2, <3>3, <3>4
  <2> QED
    BY <2>1, <2>3, <2>4, <2>5 DEF Becomes
<1>3. CASE CopyUpEnds(c)
  <2>1. PICK q : q = [conn[c] EXCEPT !.up = "send"]
    OBVIOUS
  <2>2. conn[c].pc = "proxy" => conn[c].gone \/ conn[c].back = "closed"
    BY <1>1, <1>3 DEF CopyUpEnds, At, ConnOK, Waits
  <2>3. ConnOK(q) /\ q.pc = conn[c].pc
    BY <1>1, <1>3, <2>1, <2>2, UpEnded DEF Conn, CopyUpEnds
  <2>4. conn' = [conn EXCEPT ![c] = q] /\ sem' = sem
    BY <1>3, <2>1, FieldsChanged DEF CopyUpEnds
  <2> QED
    BY <2>3, <2>4 DEF Becomes
<1>4. CASE CopyDownEnds(c) \/ CopyDownFails(c)
  <2>1. PICK q : q = [conn[c] EXCEPT !.down = "send"]
    OBVIOUS
  <2>2. /\ conn[c].pc = "proxy" => conn[c].gone \/ conn[c].back = "closed"
        /\ conn[c].down = "copy" /\ conn' = [conn EXCEPT ![c].down = "send"] /\ sem' = sem
    BY <1>4 DEF CopyDownEnds, CopyDownFails, At
  <2>3. ConnOK(q) /\ q.pc = conn[c].pc
    BY <1>1, <2>1, <2>2, DownEnded DEF Conn
  <2>4. conn' = [conn EXCEPT ![c] = q]
    BY <2>1, <2>2, FieldsChanged
  <2> QED
    BY <2>2, <2>3, <2>4 DEF Becomes
<1> QED
  BY <1>2, <1>3, <1>4 DEF Copying

\* A connection of which nothing is left is as good as none.
LEMMA SettledIs ==
    ASSUME NEW r, ConnOK(r)
    PROVE  ConnOK(Settled(r)) /\ Settled(r).pc = r.pc
BY NoConnIs DEF Settled

\* A goroutine reports that it has ended.
LEMMA SendStep ==
    ASSUME NEW c \in Conns, ConnsOK, SendErr(c)
    PROVE  \E q : Becomes(c, q)
<1>1. conn[c] \in Conn /\ ConnOK(conn[c]) /\ conn[c].errc < 2
  BY DEF ConnsOK, SendErr, CanSend
<1>2. PICK w \in {"up", "down"} :
        /\ conn[c][w] = "send"
        /\ conn' = [conn EXCEPT ![c] = Settled([conn[c] EXCEPT ![w] = "done", !.errc = @ + 1])]
  BY DEF SendErr
<1>3. PICK q : q = [conn[c] EXCEPT ![w] = "done", !.errc = conn[c].errc + 1]
  OBVIOUS
<1>4. ConnOK(q) /\ q.pc = conn[c].pc
  <2>1. CASE w = "up"
    <3>1. q = [conn[c] EXCEPT !.up = "done", !.errc = conn[c].errc + 1]
      BY <1>3, <2>1
    <3> QED
      BY <1>1, <1>2, <2>1, <3>1, UpSent DEF Conn
  <2>2. CASE w = "down"
    <3>1. q = [conn[c] EXCEPT !.down = "done", !.errc = conn[c].errc + 1]
      BY <1>3, <2>2
    <3> QED
      BY <1>1, <1>2, <2>2, <3>1, DownSent DEF Conn
  <2> QED
    BY <2>1, <2>2
<1>5. [conn[c] EXCEPT ![w] = "done", !.errc = @ + 1] = q
  BY <1>1, <1>2, <1>3 DEF Conn
<1>6. conn' = [conn EXCEPT ![c] = Settled(q)] /\ sem' = sem
  BY <1>2, <1>5 DEF SendErr
<1>7. ConnOK(Settled(q)) /\ Settled(q).pc = conn[c].pc
  BY <1>4, SettledIs
<1> QED
  BY <1>6, <1>7 DEF Becomes

\* The handler receives a report and leaves.
LEMMA FinishStep ==
    ASSUME NEW c \in Conns, ConnsOK, Finish(c)
    PROVE  \E q : Becomes(c, q)
<1>1. conn[c] \in Conn /\ ConnOK(conn[c]) /\ conn[c].errc > 0 /\ conn[c].pc = "proxy"
  BY DEF ConnsOK, Finish, At
<1>2. PICK q : q = [conn[c] EXCEPT !.pc = "free", !.errc = conn[c].errc - 1, !.back = "closed"]
  OBVIOUS
<1>3. ConnOK(q) /\ q.pc = "free"
  BY <1>1, <1>2, Finished DEF Conn
<1>4. [conn[c] EXCEPT !.pc = "free", !.errc = @ - 1, !.back = "closed"] = q
  BY <1>1, <1>2 DEF Conn
<1>5. conn' = [conn EXCEPT ![c] = Settled(q)] /\ sem' = sem - 1
  BY <1>4 DEF Finish
<1>6. ConnOK(Settled(q)) /\ Settled(q).pc = "free"
  BY <1>3, SettledIs
<1>7. conn[c].gone \/ conn[c].back = "closed"
  BY <1>1 DEF ConnOK, Waits
<1> QED
  BY <1>1, <1>5, <1>6, <1>7 DEF Becomes

----------------------------------------------------------------------------
\* All connections and the slots

\* Whatever becomes of one connection, the others and the slots are in order.
LEMMA BecomesKeeps ==
    ASSUME NEW c \in Conns, ConnsOK, SlotsOK, NEW q, Becomes(c, q)
    PROVE  ConnsOK' /\ SlotsOK' /\ conn'[c] = q /\ \A d \in Conns \ {c} : conn'[d] = conn[d]
<1>1. conn \in [Conns -> Conn] /\ \A d \in Conns : ConnOK(conn[d])
  BY DEF ConnsOK
<1>2. conn' = [conn EXCEPT ![c] = q] /\ ConnOK(q) /\ q \in Conn
  BY DEF Becomes, ConnOK
<1>3. conn' \in [Conns -> Conn] /\ conn'[c] = q /\ \A d \in Conns \ {c} : conn'[d] = conn[d]
  BY <1>1, <1>2
<1>4. ConnsOK'
  <2>1. \A d \in Conns : ConnOK(conn'[d])
    BY <1>1, <1>2, <1>3
  <2> QED
    BY <1>3, <2>1 DEF ConnsOK
<1>5. IsFiniteSet(Active) /\ sem = Cardinality(Active) /\ sem <= MaxConnections /\ sem \in Nat
  BY FS_CardinalityType DEF SlotsOK
<1>6. SlotsOK'
  <2>1. CASE (q.pc # "free" <=> conn[c].pc # "free") /\ sem' = sem
    <3>1. Active' = Active
      BY <1>3, <2>1 DEF Active
    <3> QED
      BY <1>5, <2>1, <3>1 DEF SlotsOK
  <2>2. CASE q.pc = "free" /\ conn[c].pc # "free" /\ sem' = sem - 1
    <3>1. Active' = Active \ {c} /\ c \in Active
      BY <1>3, <2>2 DEF Active
    <3>2. IsFiniteSet(Active \ {c}) /\ Cardinality(Active \ {c}) = Cardinality(Active) - 1
      BY <1>5, <3>1, FS_RemoveElement
    <3> QED
      BY <1>5, <2>2, <3>1, <3>2, RouterAssumption DEF SlotsOK
  <2>3. CASE q.pc # "free" /\ conn[c].pc = "free" /\ sem < MaxConnections /\ sem' = sem + 1
    <3>1. Active' = Active \cup {c} /\ c \notin Active
      BY <1>3, <2>3 DEF Active
    <3>2. IsFiniteSet(Active \cup {c}) /\ Cardinality(Active \cup {c}) = Cardinality(Active) + 1
      BY <1>5, <3>1, FS_AddElement
    <3> QED
      BY <1>5, <2>3, <3>1, <3>2, RouterAssumption DEF SlotsOK
  <2> QED
    BY <2>1, <2>2, <2>3 DEF Becomes
<1> QED
  BY <1>3, <1>4, <1>6

\* The state after the daemon has started.
LEMMA StartKeeps ==
    ASSUME conn' = [c \in Conns |-> NoConn], sem' = 0
    PROVE  ConnsOK' /\ SlotsOK'
<1>1. ConnsOK'
  BY NoConnIs DEF ConnsOK
<1>2. Active' = {}
  BY NoConnIs DEF Active
<1> QED
  BY <1>1, <1>2, FS_EmptySet, RouterAssumption DEF SlotsOK

\* The state in the beginning.
LEMMA InitOK ==
    ASSUME Init
    PROVE  ConnsOK /\ SlotsOK
<1>1. ConnsOK
  BY NoConnIs DEF ConnsOK, Init
<1>2. Active = {}
  BY NoConnIs DEF Active, Init
<1> QED
  BY <1>1, <1>2, FS_EmptySet, RouterAssumption DEF SlotsOK, Init

\* Time passes for all connections.
LEMMA TickKeeps ==
    ASSUME ConnsOK, SlotsOK, Tick
    PROVE  ConnsOK' /\ SlotsOK'
<1>1. \A c \in Conns :
        /\ conn'[c] = [conn[c] EXCEPT !.left = Less(conn[c].left), !.wait = Less(conn[c].wait)]
        /\ conn[c] \in Conn /\ ConnOK(conn[c])
  BY DEF Tick, ConnsOK, Conn
<1>2. \A c \in Conns : ConnOK(conn'[c]) /\ conn'[c].pc = conn[c].pc
  <2> TAKE c \in Conns
  <2>1. PICK q : q = [conn[c] EXCEPT !.left = Less(conn[c].left), !.wait = Less(conn[c].wait)]
    OBVIOUS
  <2>2. ConnOK(q) /\ q.pc = conn[c].pc
    BY <1>1, <2>1, Ticked DEF Conn
  <2> QED
    BY <1>1, <2>1, <2>2
<1>3. conn' \in [Conns -> Conn]
  <2>1. DOMAIN conn' = Conns /\ conn' = [c \in Conns |-> conn'[c]]
    BY DEF Tick
  <2> QED
    BY <1>2, <2>1 DEF ConnOK
<1>4. Active' = Active
  BY <1>2 DEF Active
<1> QED
  BY <1>2, <1>3, <1>4 DEF ConnsOK, SlotsOK, Tick

\* What becomes of one connection in its steps.
LEMMA OneSteps ==
    ASSUME NEW c \in Conns, ConnsOK,
           \/ Accept(c) \/ Arrive(c) \/ ClientCloses(c) \/ BackendCloses(c)
           \/ Handle(c) \/ Copying(c) \/ SendErr(c)
    PROVE  \E q : Becomes(c, q)
BY AcceptStep, PeerStep, AllowStep, HandshakeStep, AnswerStep, LoginStep, CopyStep, SendStep,
   FinishStep DEF Handle

----------------------------------------------------------------------------
\* The limiter

\* The sum of the grants, which a fold computes in some order.
LEMMA FoldIs ==
    ASSUME NEW n \in Nat, NEW g \in [0 .. n - 1 -> Nat], NEW f,
           RunningSums(f, n, Masked(g, 0 .. n - 1, n, -1))
    PROVE  FoldFunctionOnSet(+, 0, g, 0 .. n - 1) = f[n]
<1> DEFINE S == 0 .. n - 1
           one(s) == CHOOSE x \in s : TRUE
           choice == [s \in SUBSET S |-> one(s)]
           Step(F) == [s \in SUBSET S |-> IF s = {} THEN 0 ELSE g[one(s)] + F[s \ {one(s)}]]
           F == CHOOSE F : F = Step(F)
<1>1. FoldFunctionOnSet(+, 0, g, 0 .. n - 1) = F[S]
  BY DEF FoldFunctionOnSet, MapThenFoldSet
<1>2. S = 1 + (-1) .. n + (-1) /\ IsFiniteSet(S)
  BY FS_Interval
<1>a. g \in [S -> Nat]
  OBVIOUS
<1>3. PICK T : Totals(T, g, S) /\ T[S] = f[n]
  <2>1. PICK o \in Int : o = -1
    OBVIOUS
  <2> HIDE DEF S
  <2>2. S = 1 + o .. n + o
    BY <1>2, <2>1
  <2>3. RunningSums(f, n, Masked(g, S, n, o))
    BY <2>1 DEF S
  <2>4. g \in [1 + o .. n + o -> Nat] /\ RunningSums(f, n, Masked(g, 1 + o .. n + o, n, o))
    BY <1>a, <2>2, <2>3
  <2>5. \E T : Totals(T, g, 1 + o .. n + o) /\ T[1 + o .. n + o] = f[n]
    BY <2>4, TotalsExist, ZenonT(30)
  <2> QED
    BY <2>2, <2>5
<1>4. \A s \in SUBSET S : s # {} => one(s) \in s
  OBVIOUS
<1> HIDE DEF one, S
<1>5. T = Step(T)
  <2>1. \A s \in SUBSET S : T[s] = IF s = {} THEN 0 ELSE g[one(s)] + T[s \ {one(s)}]
    BY <1>3, <1>4 DEF Totals
  <2> QED
    BY <1>3, <2>1 DEF Totals
<1>6. F = Step(F)
  <2> HIDE DEF Step
  <2> QED
    BY <1>5
<1> HIDE DEF F
<1>7. Folds(F, g, S, choice) /\ \A s \in SUBSET S : s # {} => choice[s] \in s
  BY <1>4, <1>6 DEF Folds
<1> HIDE DEF choice
<1>8. F[S] = T[S]
  <2>1. IsFiniteSet(S) /\ Totals(T, g, S)
    BY <1>2, <1>3
  <2> QED
    BY <1>a, <1>7, <2>1, FoldsAgree
<1> QED
  BY <1>1, <1>3, <1>8

\* The constants of the limiter.
LEMMA LimitIs == Limit \in Nat /\ Limit > 0 /\ Minute \in Nat /\ Minute > 0
BY RouterAssumption, LongestIs

\* An address that has no bucket has no grants.
LEMMA NoRate ==
    NoBucket \in Bucket /\ NoGrants \in Grants /\ \E f : Rate(f, NoBucket, NoGrants)
<1> DEFINE f == [i \in 0 .. Minute |-> 0]
<1>1. NoBucket \in Bucket /\ NoBucket.age = 2 * Minute + 1
  BY LimitIs DEF NoBucket, Bucket
<1>2. NoGrants \in Grants /\ \A j \in 0 .. Minute - 1 : NoGrants[j] = 0
  BY LimitIs DEF NoGrants, Grants
<1>3. Younger(f, NoGrants) /\ f[Minute] = 0
  BY <1>2, LimitIs DEF Younger
<1> HIDE DEF f
<1>4. Rate(f, NoBucket, NoGrants)
  BY <1>1, <1>2, <1>3, LimitIs DEF Rate
<1> QED
  BY <1>1, <1>2, <1>4

\* What a tick makes of a bucket and of the grants.
Aged(b) == [b EXCEPT !.age = IF @ > 2 * Minute THEN @ ELSE @ + 1]

Older(g) == [age \in 0 .. Minute - 1 |-> IF age = 0 THEN 0 ELSE g[age - 1]]

\* Time passes: all grants are one tick older.
LEMMA TickRate ==
    ASSUME NEW b \in Bucket, NEW g \in Grants, NEW f, Rate(f, b, g)
    PROVE  Aged(b) \in Bucket /\ Older(g) \in Grants /\ \E e : Rate(e, Aged(b), Older(g))
<1>0. PICK d, h : d = Aged(b) /\ h = Older(g)
  OBVIOUS
<1>1. b.age \in 0 .. 2 * Minute + 1 /\ b.count \in 0 .. Limit + 1
  BY DEF Bucket
<1>2. /\ d \in Bucket /\ d.count = b.count
      /\ d.age = IF b.age > 2 * Minute THEN b.age ELSE b.age + 1
  BY <1>0, <1>1, LimitIs DEF Bucket, Aged
<1>3. h \in Grants /\ \A j \in 0 .. Minute - 1 : h[j] = IF j = 0 THEN 0 ELSE g[j - 1]
  BY <1>0, LimitIs DEF Grants, Older
<1> DEFINE e == [i \in 0 .. Minute |-> IF i = 0 THEN 0 ELSE f[i - 1]]
<1>4. f \in [0 .. Minute -> Nat] /\ f[0] = 0 /\ \A i \in 0 .. Minute - 1 : f[i + 1] = f[i] + g[i]
  BY DEF Rate, Younger
<1>5. e \in [0 .. Minute -> Nat] /\ e[0] = 0 /\ \A i \in 1 .. Minute : e[i] = f[i - 1]
  BY <1>4, LimitIs
<1> HIDE DEF e
<1>6. Younger(e, h)
  <2>1. ASSUME NEW i \in 0 .. Minute - 1 PROVE e[i + 1] = e[i] + h[i]
    <3>1. i + 1 \in 1 .. Minute /\ (i + 1) - 1 = i
      BY LimitIs
    <3>2. e[i + 1] = f[i]
      BY <1>5, <3>1
    <3>3. CASE i = 0
      BY <1>3, <1>4, <1>5, <3>2, <3>3
    <3>4. CASE i # 0
      <4>1. i - 1 \in 0 .. Minute - 1 /\ i \in 1 .. Minute /\ (i - 1) + 1 = i
        BY <3>4, LimitIs
      <4>2. f[(i - 1) + 1] = f[i - 1] + g[i - 1]
        BY <1>4, <4>1
      <4> QED
        BY <1>3, <1>5, <3>2, <3>4, <4>1, <4>2
    <3> QED
      BY <3>3, <3>4
  <2> QED
    BY <1>5, <2>1 DEF Younger
<1>7. /\ e[Minute] = f[Minute - 1] /\ f[Minute] = f[Minute - 1] + g[Minute - 1]
      /\ g[Minute - 1] \in Nat /\ f[Minute - 1] \in Nat /\ f[Minute] \in Nat
  <2>1. Minute - 1 \in 0 .. Minute - 1 /\ (Minute - 1) + 1 = Minute /\ Minute \in 1 .. Minute
    BY LimitIs
  <2>2. f[(Minute - 1) + 1] = f[Minute - 1] + g[Minute - 1] /\ g[Minute - 1] \in Nat
    BY <1>4, <2>1 DEF Grants
  <2> QED
    BY <1>4, <1>5, <2>1, <2>2
<1>8. ASSUME d.age < Minute
      PROVE  /\ e[d.age + 1] <= d.count /\ e[d.age + 1] <= Limit
             /\ h[d.age] >= 1 /\ e[Minute] - e[d.age + 1] <= Limit - 1
  <2>1. d.age = b.age + 1 /\ b.age < Minute /\ b.age + 1 \in 0 .. Minute
    BY <1>1, <1>2, <1>8, LimitIs
  <2>2. e[d.age + 1] = f[b.age + 1] /\ f[b.age + 1] \in Nat
    <3>1. d.age + 1 \in 1 .. Minute /\ (d.age + 1) - 1 = b.age + 1
      BY <1>1, <1>8, <2>1, LimitIs
    <3> QED
      BY <1>4, <1>5, <2>1, <3>1
  <2>3. /\ f[b.age + 1] <= b.count /\ f[b.age + 1] <= Limit
        /\ g[b.age] >= 1 /\ f[Minute] - f[b.age + 1] <= Limit - 1
    BY <2>1 DEF Rate
  <2>4. h[d.age] = g[b.age]
    <3>1. d.age \in 0 .. Minute - 1 /\ d.age # 0 /\ d.age - 1 = b.age
      BY <1>1, <1>8, <2>1, LimitIs
    <3> QED
      BY <1>3, <3>1
  <2> QED
    BY <1>2, <1>7, <2>2, <2>3, <2>4, LimitIs
<1>9. ASSUME d.age >= Minute
      PROVE  e[Minute] <= Limit - 1 /\ \A j \in 0 .. Minute - 1 : j <= d.age - Minute => h[j] = 0
  <2>1. e[Minute] <= Limit - 1
    <3>1. CASE b.age < Minute
      <4>1. b.age + 1 = Minute /\ b.age = Minute - 1
        BY <1>1, <1>2, <1>9, <3>1, LimitIs
      <4>2. f[Minute] <= Limit /\ g[Minute - 1] >= 1
        BY <3>1, <4>1 DEF Rate
      <4> QED
        BY <1>7, <4>2, LimitIs
    <3>2. CASE b.age >= Minute
      <4>1. f[Minute] <= Limit - 1
        BY <3>2 DEF Rate
      <4> QED
        BY <1>7, <4>1, LimitIs
    <3> QED
      BY <1>1, <3>1, <3>2, LimitIs
  <2>2. ASSUME NEW j \in 0 .. Minute - 1, j <= d.age - Minute PROVE h[j] = 0
    <3>1. CASE j = 0
      BY <1>3, <3>1
    <3>2. CASE j # 0
      <4>1. j - 1 \in 0 .. Minute - 1 /\ j - 1 <= b.age - Minute /\ b.age >= Minute
        BY <1>1, <1>2, <2>2, <3>2, LimitIs
      <4>2. g[j - 1] = 0
        BY <4>1 DEF Rate
      <4> QED
        BY <1>3, <3>2, <4>2
    <3> QED
      BY <3>1, <3>2
  <2> QED
    BY <2>1, <2>2
<1>10. Rate(e, d, h)
  BY <1>6, <1>8, <1>9 DEF Rate
<1> QED
  BY <1>0, <1>2, <1>3, <1>10

\* allow() counts one more connection, and grants it within the limit.
LEMMA CountedRate ==
    ASSUME NEW b \in Bucket, NEW g \in Grants, NEW f, Rate(f, b, g), NEW d, d = Counted(b)
    PROVE  /\ d \in Bucket
           /\ d.count <= Limit => [g EXCEPT ![0] = g[0] + 1] \in Grants
                                  /\ \E e : Rate(e, d, [g EXCEPT ![0] = g[0] + 1])
           /\ d.count > Limit => \E e : Rate(e, d, g)
<1>1. b.age \in 0 .. 2 * Minute + 1 /\ b.count \in 0 .. Limit + 1
  BY DEF Bucket
<1>2. /\ d \in Bucket
      /\ d.age = IF b.age >= Minute THEN 0 ELSE b.age
      /\ d.count = IF b.age >= Minute THEN 1 ELSE IF b.count > Limit THEN b.count ELSE b.count + 1
  BY <1>1, LimitIs DEF Bucket, Counted
<1>3. f \in [0 .. Minute -> Nat] /\ f[0] = 0 /\ \A i \in 0 .. Minute - 1 : f[i + 1] = f[i] + g[i]
  BY DEF Rate, Younger
<1>4. ASSUME d.count > Limit PROVE Rate(f, d, g)
  <2>1. b.age < Minute /\ d.age = b.age /\ d.count >= b.count /\ b.count \in Nat /\ d.count \in Nat
    BY <1>1, <1>2, <1>4, LimitIs
  <2>2. f[b.age + 1] \in Nat
    BY <1>1, <1>3, <2>1, LimitIs
  <2> QED
    BY <1>1, <2>1, <2>2, LimitIs DEF Rate
<1> DEFINE h == [g EXCEPT ![0] = g[0] + 1]
           e == [i \in 0 .. Minute |-> IF i = 0 THEN 0 ELSE f[i] + 1]
<1>5. 0 \in 0 .. Minute - 1 /\ g[0] \in Nat
  BY LimitIs DEF Grants
<1>6. h \in Grants /\ h[0] = g[0] + 1 /\ \A j \in 1 .. Minute - 1 : h[j] = g[j]
  BY <1>5, LimitIs DEF Grants
<1>7. e \in [0 .. Minute -> Nat] /\ e[0] = 0 /\ \A i \in 1 .. Minute : e[i] = f[i] + 1
  BY <1>3, LimitIs
<1> HIDE DEF h, e
<1>8. Younger(e, h)
  <2>1. ASSUME NEW i \in 0 .. Minute - 1 PROVE e[i + 1] = e[i] + h[i]
    <3>1. i + 1 \in 1 .. Minute /\ e[i + 1] = f[i + 1] + 1 /\ f[i + 1] = f[i] + g[i]
      BY <1>3, <1>7, LimitIs
    <3>2. g[i] \in Nat /\ f[i] \in Nat
      BY <1>3, LimitIs DEF Grants
    <3>3. CASE i = 0
      BY <1>3, <1>6, <1>7, <3>1, <3>2, <3>3
    <3>4. CASE i # 0
      <4>1. i \in 1 .. Minute - 1 /\ i \in 1 .. Minute
        BY <3>4, LimitIs
      <4> QED
        BY <1>6, <1>7, <3>1, <3>2, <4>1
    <3> QED
      BY <3>3, <3>4
  <2> QED
    BY <1>7, <2>1 DEF Younger
<1>9. ASSUME d.count <= Limit PROVE Rate(e, d, h)
  <2>1. d.age < Minute /\ d.age \in Nat /\ d.count \in Nat
    BY <1>1, <1>2, LimitIs
  <2>2. d.age + 1 \in 1 .. Minute /\ Minute \in 1 .. Minute
    BY <2>1, LimitIs
  <2>3. /\ e[d.age + 1] = f[d.age + 1] + 1 /\ e[Minute] = f[Minute] + 1
        /\ f[d.age + 1] \in Nat /\ f[Minute] \in Nat
    BY <1>3, <1>7, <2>2
  <2>4. f[d.age + 1] + 1 <= d.count /\ f[Minute] - f[d.age + 1] <= Limit - 1 /\ h[d.age] >= 1
    <3>1. CASE b.age >= Minute
      <4>1. d.age = 0 /\ d.count = 1 /\ g[0] = 0 /\ f[Minute] <= Limit - 1
        BY <1>1, <1>2, <1>5, <3>1, LimitIs DEF Rate
      <4>2. f[0 + 1] = f[0] + g[0]
        BY <1>3, <1>5
      <4>3. f[d.age + 1] = 0
        BY <1>3, <4>1, <4>2
      <4> QED
        BY <1>6, <2>3, <4>1, <4>3, LimitIs
    <3>2. CASE b.age < Minute
      <4>1. d.age = b.age /\ d.count = b.count + 1
        BY <1>1, <1>2, <1>9, <3>2, LimitIs
      <4>2. f[b.age + 1] <= b.count /\ f[Minute] - f[b.age + 1] <= Limit - 1 /\ g[b.age] >= 1
        BY <3>2 DEF Rate
      <4>3. h[d.age] >= 1
        <5>1. CASE d.age = 0
          BY <1>5, <1>6, <5>1
        <5>2. CASE d.age # 0
          <6>1. d.age \in 1 .. Minute - 1
            BY <2>1, <5>2, LimitIs
          <6> QED
            BY <1>6, <4>1, <4>2, <6>1
        <5> QED
          BY <5>1, <5>2
      <4> QED
        BY <1>1, <2>3, <4>1, <4>2, <4>3
    <3> QED
      BY <1>1, <3>1, <3>2, LimitIs
  <2>5. /\ e[d.age + 1] <= d.count /\ e[d.age + 1] <= Limit
        /\ h[d.age] >= 1 /\ e[Minute] - e[d.age + 1] <= Limit - 1
    BY <1>9, <2>1, <2>3, <2>4, LimitIs
  <2> QED
    BY <1>8, <2>1, <2>5, LimitIs DEF Rate
<1> QED
  BY <1>2, <1>4, <1>6, <1>9 DEF h

\* A bucket that is pruned had nothing to count any more.
LEMMA PrunedRate ==
    ASSUME NEW b \in Bucket, NEW g \in Grants, NEW f, Rate(f, b, g), b.age > 2 * Minute
    PROVE  Rate(f, NoBucket, g)
<1>1. NoBucket.age = 2 * Minute + 1 /\ b.age = 2 * Minute + 1
  BY LimitIs DEF NoBucket, Bucket
<1> QED
  BY <1>1, LimitIs DEF Rate

\* allow() keeps the order of the limiter.
LEMMA AllowKeeps ==
    ASSUME NEW c \in Conns, ConnsOK, RateOK, Allow(c)
    PROVE  RateOK'
<1> DEFINE a == conn[c].addr
           b == Counted(bucket[a])
           B == [bucket EXCEPT ![a] = b]
<1>1. a \in Addrs
  BY DEF ConnsOK, Conn
<1> HIDE DEF a
<1>2. /\ bucket \in [Addrs -> Bucket] /\ grants \in [Addrs -> Grants]
      /\ \A i \in Addrs : \E f : Rate(f, bucket[i], grants[i])
  BY DEF RateOK
<1>3. bucket[a] \in Bucket /\ grants[a] \in Grants
  BY <1>1, <1>2
<1>4. PICK f : Rate(f, bucket[a], grants[a])
  BY <1>1, <1>2
<1>5. /\ b \in Bucket
      /\ b.count <= Limit => [grants[a] EXCEPT ![0] = grants[a][0] + 1] \in Grants
                             /\ \E e : Rate(e, b, [grants[a] EXCEPT ![0] = grants[a][0] + 1])
      /\ b.count > Limit => \E e : Rate(e, b, grants[a])
  BY <1>3, <1>4, CountedRate
<1>6. /\ bucket' = Prune(B)
      /\ \/ b.count <= Limit /\ grants' = [grants EXCEPT ![a][0] = @ + 1]
         \/ ~(b.count <= Limit) /\ grants' = grants
  BY DEF Allow, a
<1> HIDE DEF b
<1>7. PICK h : h = [grants[a] EXCEPT ![0] = grants[a][0] + 1]
  OBVIOUS
<1>8. b.count \in Int
  BY <1>5, LimitIs DEF Bucket
<1>9. PICK k : /\ k \in Grants /\ grants' = [grants EXCEPT ![a] = k]
               /\ \E e : Rate(e, b, k)
  <2>1. CASE b.count <= Limit /\ grants' = [grants EXCEPT ![a][0] = @ + 1]
    <3>1. grants' = [grants EXCEPT ![a] = h]
      BY <1>1, <1>2, <1>7, <2>1
    <3> QED
      BY <1>5, <1>7, <2>1, <3>1
  <2>2. CASE ~(b.count <= Limit) /\ grants' = grants
    <3>1. grants' = [grants EXCEPT ![a] = grants[a]]
      BY <1>1, <1>2, <2>2
    <3>2. b.count > Limit
      BY <1>8, <2>2, LimitIs
    <3> QED
      BY <1>3, <1>5, <3>1, <3>2
  <2> QED
    BY <1>6, <2>1, <2>2
<1>10. B \in [Addrs -> Bucket] /\ grants' \in [Addrs -> Grants]
  BY <1>1, <1>2, <1>5, <1>9
<1>11. \A i \in Addrs : \E e : Rate(e, B[i], grants'[i])
  <2> TAKE i \in Addrs
  <2>1. CASE i = a
    BY <1>1, <1>2, <1>9, <2>1
  <2>2. CASE i # a
    BY <1>1, <1>2, <1>9, <2>2
  <2> QED
    BY <2>1, <2>2
<1> HIDE DEF B
<1>12. \A i \in Addrs : bucket'[i] = IF B[i].age > 2 * Minute THEN NoBucket ELSE B[i]
  BY <1>6 DEF Prune
<1>13. bucket' \in [Addrs -> Bucket]
  <2>1. \A i \in Addrs : (IF B[i].age > 2 * Minute THEN NoBucket ELSE B[i]) \in Bucket
    BY <1>10, NoRate
  <2> QED
    BY <1>6, <2>1 DEF Prune
<1>14. \A i \in Addrs : \E e : Rate(e, bucket'[i], grants'[i])
  <2> TAKE i \in Addrs
  <2>1. PICK e : Rate(e, B[i], grants'[i])
    BY <1>11
  <2>2. CASE B[i].age > 2 * Minute
    <3>1. B[i] \in Bucket /\ grants'[i] \in Grants
      BY <1>10
    <3>2. Rate(e, NoBucket, grants'[i])
      BY <2>1, <2>2, <3>1, PrunedRate
    <3> QED
      BY <1>12, <2>2, <3>2
  <2>3. CASE ~(B[i].age > 2 * Minute)
    BY <1>12, <2>1, <2>3
  <2> QED
    BY <2>2, <2>3
<1> QED
  BY <1>10, <1>13, <1>14 DEF RateOK

\* So does time.
LEMMA TickRates ==
    ASSUME RateOK, Tick
    PROVE  RateOK'
<1>1. /\ bucket' = [a \in Addrs |-> [bucket[a] EXCEPT !.age = IF @ > 2 * Minute THEN @ ELSE @ + 1]]
      /\ grants' = [a \in Addrs |-> [age \in 0 .. Minute - 1 |-> IF age = 0 THEN 0 ELSE grants[a][age - 1]]]
  BY DEF Tick
<1>2. ASSUME NEW a \in Addrs
      PROVE  bucket'[a] \in Bucket /\ grants'[a] \in Grants /\ \E e : Rate(e, bucket'[a], grants'[a])
  <2>1. bucket[a] \in Bucket /\ grants[a] \in Grants
    BY DEF RateOK
  <2>2. PICK f : Rate(f, bucket[a], grants[a])
    BY DEF RateOK
  <2>3. bucket'[a] = Aged(bucket[a]) /\ grants'[a] = Older(grants[a])
    BY <1>1 DEF Aged, Older
  <2> QED
    BY <2>1, <2>2, <2>3, TickRate
<1>3. bucket' \in [Addrs -> Bucket] /\ grants' \in [Addrs -> Grants]
  <2>1. bucket' = [a \in Addrs |-> bucket'[a]] /\ grants' = [a \in Addrs |-> grants'[a]]
    BY <1>1
  <2> QED
    BY <1>2, <2>1
<1> QED
  BY <1>2, <1>3 DEF RateOK

----------------------------------------------------------------------------
\* The router

\* Every step keeps the invariant.
LEMMA NextKeeps ==
    ASSUME RouterInv, [Next]_vars
    PROVE  RouterInv'
<1>1. ConnsOK /\ SlotsOK /\ RateOK
  BY DEF RouterInv
<1>2. CASE UNCHANGED vars
  BY <1>1, <1>2 DEF RouterInv, vars, ConnsOK, SlotsOK, RateOK, Active
<1>3. ASSUME NEW c \in Conns,
             \/ Accept(c) \/ Arrive(c) \/ ClientCloses(c) \/ BackendCloses(c)
             \/ Handle(c) \/ Copying(c) \/ SendErr(c)
      PROVE  RouterInv'
  <2>1. PICK q : Becomes(c, q)
    BY <1>1, <1>3, OneSteps
  <2>2. ConnsOK' /\ SlotsOK'
    BY <1>1, <2>1, BecomesKeeps
  <2>3. Allow(c) \/ (bucket' = bucket /\ grants' = grants)
    BY <1>3 DEF Accept, Arrive, ClientCloses, BackendCloses, Handle, Handshake, Status, Ping, Ensure,
                Dial, Reply, Finish, Copying, CopyUp, CopyUpEnds, CopyDownEnds, CopyDownFails, SendErr
  <2>4. RateOK'
    <3>1. CASE bucket' = bucket /\ grants' = grants
      BY <1>1, <3>1 DEF RateOK
    <3> QED
      BY <1>1, <2>3, <3>1, AllowKeeps
  <2> QED
    BY <2>2, <2>4 DEF RouterInv
<1>4. CASE Exit
  <2>1. ConnsOK' /\ SlotsOK'
    BY <1>4, StartKeeps DEF Exit
  <2>2. RateOK'
    BY <1>4, NoRate DEF Exit, RateOK
  <2> QED
    BY <2>1, <2>2 DEF RouterInv
<1>5. CASE Tick
  BY <1>1, <1>5, TickKeeps, TickRates DEF RouterInv
<1> QED
  BY <1>2, <1>3, <1>4, <1>5 DEF Next

\* The invariant holds of the router: each connection is where its stream and its
\* session say, slots are counted, and the limiter has counted its grants.
THEOREM RouterInvariance == Spec => []RouterInv
<1>1. Init => RouterInv
  <2> SUFFICES ASSUME Init PROVE RouterInv
    OBVIOUS
  <2>1. RateOK
    BY NoRate DEF Init, RateOK
  <2> QED
    BY <2>1, InitOK DEF RouterInv
<1>2. RouterInv /\ [Next]_vars => RouterInv'
  BY NextKeeps
<1> QED
  BY <1>1, <1>2, PTL DEF Spec

\* The types of the router's state: among them that no handler takes more of a
\* stream than has arrived, and that the slots in use stay within their number.
THEOREM RouterTypeCorrect == Spec => []RouterTypeOK
<1>1. RouterInv => RouterTypeOK
  <2> SUFFICES ASSUME RouterInv PROVE RouterTypeOK
    OBVIOUS
  <2>1. sem \in 0 .. MaxConnections
    BY FS_CardinalityType, RouterAssumption DEF RouterInv, SlotsOK
  <2>2. ASSUME NEW c \in Conns
        PROVE  /\ DOMAIN conn[c] = DOMAIN NoConn
               /\ conn[c].pc \in PCs /\ conn[c].addr \in Addrs
               /\ conn[c].stream \in Streams \cup {<<>>}
               /\ 0 <= conn[c].read /\ conn[c].read <= conn[c].here
               /\ conn[c].here <= Len(conn[c].stream)
               /\ conn[c].left \in -1 .. Max(Timeouts) /\ conn[c].wait \in 0 .. Max(Timeouts)
               /\ conn[c].up \in Copies /\ conn[c].down \in Copies
               /\ conn[c].errc \in 0 .. 2 /\ conn[c].gone \in BOOLEAN
    <3>1. conn[c] \in Conn /\ InStream(conn[c])
      BY DEF RouterInv, ConnsOK, ConnOK
    <3>2. DOMAIN conn[c] = DOMAIN NoConn
      BY <3>1 DEF Conn, NoConn
    <3>3. /\ conn[c].pc \in PCs /\ conn[c].addr \in Addrs
          /\ conn[c].stream \in Streams \cup {<<>>} /\ conn[c].read \in Nat
          /\ conn[c].left \in Lefts /\ conn[c].wait \in Waitings
          /\ conn[c].up \in Copies /\ conn[c].down \in Copies
          /\ conn[c].errc \in Errs /\ conn[c].gone \in BOOLEAN
      BY <3>1 DEF Conn
    <3> QED
      BY <3>1, <3>2, <3>3 DEF InStream, Lefts, Waitings, Errs
  <2>3. bucket \in [Addrs -> [age: 0 .. 2 * Minute + 1, count: 0 .. Limit + 1]]
        /\ grants \in [Addrs -> [0 .. Minute - 1 -> Nat]]
    BY DEF RouterInv, RateOK, Bucket, Grants
  <2> QED
    BY <2>1, <2>2, <2>3 DEF RouterTypeOK
<1> QED
  BY <1>1, RouterInvariance, PTL

\* Serve and handle: a slot is taken exactly while a handler runs.
THEOREM SlotsKept == Spec => []SlotsConserved
<1>1. RouterInv => SlotsConserved
  BY DEF RouterInv, SlotsOK, SlotsConserved, Active
<1> QED
  BY <1>1, RouterInvariance, PTL

\* allow(): one address gets less than twice the limit within any minute.
THEOREM LimitKept == Spec => []RateBounded
<1>1. RouterInv => RateBounded
  <2> SUFFICES ASSUME RouterInv, NEW a \in Addrs
               PROVE  FoldFunctionOnSet(+, 0, grants[a], 0 .. Minute - 1) <= 2 * Limit - 1
    BY DEF RateBounded
  <2>1. bucket[a] \in Bucket /\ grants[a] \in Grants /\ \E f : Rate(f, bucket[a], grants[a])
    BY DEF RouterInv, RateOK
  <2>2. PICK b, g, f : b = bucket[a] /\ g = grants[a] /\ Rate(f, b, g)
    BY <2>1
  <2>3. b \in Bucket /\ g \in [0 .. Minute - 1 -> Nat]
    BY <2>1, <2>2 DEF Grants
  <2>4. f \in [0 .. Minute -> Nat] /\ f[0] = 0 /\ \A i \in 0 .. Minute - 1 : f[i + 1] = f[i] + g[i]
    BY <2>2 DEF Rate, Younger
  <2>5. f[Minute] <= 2 * Limit - 1
    <3>1. b.age \in Nat /\ f[Minute] \in Nat
      BY <2>3, <2>4, LimitIs DEF Bucket
    <3>2. CASE b.age < Minute
      <4>1. b.age + 1 \in 0 .. Minute
        BY <3>1, <3>2, LimitIs
      <4>2. f[b.age + 1] \in Nat /\ f[b.age + 1] <= Limit /\ f[Minute] - f[b.age + 1] <= Limit - 1
        BY <2>2, <2>4, <3>2, <4>1 DEF Rate
      <4> QED
        BY <3>1, <4>2, LimitIs
    <3>3. CASE b.age >= Minute
      BY <2>2, <3>1, <3>3, LimitIs DEF Rate
    <3> QED
      BY <3>1, <3>2, <3>3, LimitIs
  <2>6. RunningSums(f, Minute, Masked(g, 0 .. Minute - 1, Minute, -1))
    <3> SUFFICES ASSUME NEW i \in 0 .. Minute
                 PROVE  f[i] = IF i = 0 THEN 0 ELSE f[i - 1] + Masked(g, 0 .. Minute - 1, Minute, -1)[i]
      BY DEF RunningSums
    <3>1. CASE i = 0
      BY <2>4, <3>1
    <3>2. CASE i # 0
      <4>1. i \in 1 .. Minute /\ i - 1 \in 0 .. Minute - 1 /\ (i - 1) + 1 = i /\ i + (-1) = i - 1
        BY <3>2, LimitIs
      <4>2. f[(i - 1) + 1] = f[i - 1] + g[i - 1]
        BY <2>4, <4>1
      <4>3. Masked(g, 0 .. Minute - 1, Minute, -1)[i] = g[i - 1]
        BY <4>1 DEF Masked
      <4> QED
        BY <3>2, <4>1, <4>2, <4>3
    <3> QED
      BY <3>1, <3>2
  <2>7. FoldFunctionOnSet(+, 0, g, 0 .. Minute - 1) = f[Minute]
    BY <2>3, <2>6, LimitIs, FoldIs
  <2> QED
    BY <2>2, <2>5, <2>7
<1> QED
  BY <1>1, RouterInvariance, PTL

\* The copying goroutine: the backend gets the handshake that was read and then the
\* bytes of the client, in order and without a gap.
THEOREM StreamKept == Spec => []StreamIntact
<1>1. RouterInv => StreamIntact
  <2> SUFFICES ASSUME RouterInv, NEW c \in Conns, conn[c].got # <<>>
               PROVE  IsPrefix(conn[c].got, Readers.handshake[conn[c].stream].val.frame
                                            \o Readers.handshake[conn[c].stream].rest)
    BY DEF StreamIntact
  <2>1. PICK r, s, n : r = conn[c] /\ s = r.stream /\ n = Start(s)
    OBVIOUS
  <2>2. r \in Conn /\ InStream(r) /\ Before(r) /\ Session(r) /\ r.up # "none"
    BY <2>1 DEF RouterInv, ConnsOK, ConnOK, Before
  <2>3. PICK f, a, b : /\ f = ReadHandshake(s).val.frame /\ a = Between(s, n, r.read)
                       /\ b = Between(s, r.read, Len(s))
    OBVIOUS
  <2>4. /\ s \in Streams /\ ReadHandshake(s).st = "ok" /\ r.got = f \o a
        /\ n <= r.read /\ r.read <= r.here /\ r.here <= Len(s) /\ r.read \in Nat /\ r.here \in Nat
    BY <2>1, <2>2, <2>3 DEF Session, InStream, Conn
  <2>5. Len(s) \in Nat /\ n \in Nat /\ r.read <= Len(s) /\ Len(s) <= Len(s) /\ f \in Seq(Bytes)
    <3>1. s \in Seq(Bytes) /\ Len(s) \in Nat
      BY <2>4, WholeIs
    <3>2. Start(s) \in 0 .. Len(s) /\ ReadHandshake(s).val.frame \in Seq(Bytes)
      BY <2>4, StartIs
    <3>3. r.read <= Len(s) /\ Len(s) <= Len(s)
      BY <2>4, <3>1
    <3>4. n \in Nat
      BY <2>1, <3>1, <3>2
    <3> QED
      BY <2>3, <3>1, <3>2, <3>3, <3>4
  <2>6. a \in Seq(Bytes)
    BY <2>3, <2>4, <2>5, PieceIs
  <2>7. b \in Seq(Bytes)
    BY <2>3, <2>4, <2>5, PieceIs
  <2>8. ReadHandshake(s).rest = a \o b
    <3>1. ReadHandshake(s).rest = Between(s, n, Len(s))
      BY <2>1, <2>4, StartIs
    <3> QED
      BY <2>3, <2>4, <2>5, <3>1, PiecesJoin
  <2>9. /\ Readers.handshake[s].val.frame = f /\ Readers.handshake[s].rest = a \o b
    BY <2>3, <2>4, <2>8, WholeIs, ReadersAre
  <2>10. PICK g : g = f \o a /\ g \in Seq(Bytes)
    BY <2>5, <2>6, ConcatProperties
  <2>11. f \o (a \o b) = g \o b
    <3>1. (f \o a) \o b = f \o (a \o b)
      BY <2>5, <2>6, <2>7, ConcatAssociative
    <3> QED
      BY <2>10, <3>1
  <2>12. IsPrefix(g, g \o b)
    <3>1. SubSeq(g \o b, 1, Len(g)) = g /\ Len(g \o b) = Len(g) + Len(b)
      BY <2>7, <2>10, CutAll, ConcatProperties
    <3>2. SubSeq(g, 1, Len(g)) = g /\ Len(g) <= Len(g \o b)
      BY <2>7, <2>10, <3>1, SubSeqFull
    <3> QED
      BY <3>1, <3>2 DEF IsPrefix
  <2> QED
    BY <2>1, <2>4, <2>9, <2>10, <2>11, <2>12
<1> QED
  BY <1>1, RouterInvariance, PTL

\* handle: a session ends only when a side closes it, or with the daemon.
THEOREM SessionKept == Spec => SessionLasts
<1> DEFINE Lasts == \A c \in Conns :
                      conn[c].pc = "proxy" /\ conn'[c].pc = "free"
                      => conn[c].gone \/ conn[c].back = "closed" \/ Exit
<1>1. RouterInv /\ [Next]_vars => [Lasts]_vars
  <2> SUFFICES ASSUME RouterInv, Next PROVE Lasts
    BY DEF vars
  <2>1. ConnsOK /\ SlotsOK
    BY DEF RouterInv
  <2>2. ASSUME NEW d \in Conns,
               \/ Accept(d) \/ Arrive(d) \/ ClientCloses(d) \/ BackendCloses(d)
               \/ Handle(d) \/ Copying(d) \/ SendErr(d)
        PROVE  Lasts
    <3>1. PICK q : Becomes(d, q)
      BY <2>1, <2>2, OneSteps
    <3>2. conn'[d] = q /\ \A c \in Conns \ {d} : conn'[c] = conn[c]
      BY <2>1, <3>1, BecomesKeeps
    <3> QED
      BY <3>1, <3>2 DEF Becomes
  <2>3. CASE Tick
    <3>1. \A c \in Conns : conn'[c].pc = conn[c].pc
      BY <2>1, <2>3 DEF Tick, ConnsOK, Conn
    <3> QED
      BY <3>1
  <2> QED
    BY <2>2, <2>3 DEF Next
<1> QED
  BY <1>1, RouterInvariance, PTL DEF Spec, SessionLasts

\* What clients send are bytes.
LEMMA SentAre == RouterInv => Sent \subseteq Sendable /\ Sendable \subseteq Seq(Bytes)
<1>1. Sendable \subseteq Seq(Bytes)
  <2>1. <<>> \in Seq(Bytes) /\ Streams \subseteq Seq(Bytes)
    BY RouterAssumption
  <2> QED
    BY <2>1 DEF Sendable
<1>2. RouterInv => Sent \subseteq Sendable
  BY DEF RouterInv, ConnsOK, Conn, Sent, Sendable
<1> QED
  BY <1>1, <1>2

\* ReadVarInt and WriteVarInt: whatever a client sends, a number before it is read
\* back as it was written, and one that is cut off is waited for.
THEOREM VarIntsKept == Spec => []VarIntRoundTrip
<1>1. RouterInv => VarIntRoundTrip
  BY SentAre, AllVarIntsReadBack DEF VarIntRoundTrip, VarIntsSafe
<1> QED
  BY <1>1, RouterInvariance, PTL

\* ReadHandshake: whatever a client sends behind it, the backend reads the handshake
\* that the router read.
THEOREM HandshakesKept == Spec => []HandshakeForwarded
<1>1. RouterInv => HandshakeForwarded
  BY SentAre, AllHandshakesForwarded DEF HandshakeForwarded, HandshakesSafe
<1> QED
  BY <1>1, RouterInvariance, PTL

\* QueryStatus and WriteStatus agree, whatever follows.
THEOREM StatusKept == Spec => []StatusRoundTrip
<1>1. RouterInv => StatusRoundTrip
  BY SentAre, AllStatusReadBack DEF StatusRoundTrip, StatusSafe
<1> QED
  BY <1>1, RouterInvariance, PTL

\* PackForHost: every host name that a client sends is taken for a pack exactly
\* when it is a way to write the pack's name, whatever stands around it, but for a
\* final dot before a port, which is lost.
THEOREM HostsKept == Spec => []HostRouting
<1>1. ASSUME NEW s \in Seq(Bytes), NEW hs \in {ReadHandshake(s)}
      PROVE  HostsRouted(IF hs.st = "ok" THEN hs.val.host ELSE <<>>)
  <2>1. CASE hs.st = "ok"
    BY <2>1, HostRead, AllHostsRouted
  <2>2. CASE hs.st # "ok"
    BY <2>2, AllHostsRouted, EmptySeq
  <2> QED
    BY <2>1, <2>2
<1>2. RouterInv => HostRouting
  BY <1>1, SentAre DEF HostRouting, HostsSafe
<1> QED
  BY <1>2, RouterInvariance, PTL
=============================================================================
