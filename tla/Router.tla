------------------------------- MODULE Router -------------------------------
(***************************************************************************)
(* The router (internal/router/server.go): the accept loop with its        *)
(* connection slots, the per-address limiter, one handler goroutine per    *)
(* connection, and the two goroutines that copy a proxied session.         *)
(*                                                                         *)
(* What the clients send are byte streams of module Protocol that arrive   *)
(* in pieces. Ensure, which module Manager models, is seen from outside:   *)
(* it answers at any time within StartupWait. A goroutine that can run     *)
(* does so before time passes, so a deadline expires only for a handler    *)
(* that really waits. Texts of answers and bytes from the backend are left *)
(* out. Exit stands for the end of the daemon and its next boot.           *)
(***************************************************************************)
EXTENDS Protocol

CONSTANTS
    Conns,             \* identities of connections
    Addrs,             \* remote addresses
    Streams,           \* what a client may send in the end
    Cuts,              \* bound: where the arrival of a stream may pause
    MaxConnections,    \* runtime.max_connections
    Limit,             \* runtime.connections_per_minute
    Minute,            \* time.Minute, in ticks
    HandshakeTimeout,  \* 10 s
    StatusTimeout,     \* 5 s
    PingTimeout,       \* 750 ms, rounded up
    DialTimeout,       \* 5 s
    StartupWait        \* runtime.startup_wait

Timeouts == {HandshakeTimeout, StatusTimeout, PingTimeout, DialTimeout, StartupWait, Minute}

ASSUME RouterAssumption ==
    /\ MaxConnections \in Nat \ {0} /\ Limit \in Nat \ {0}
    /\ Timeouts \subseteq Nat \ {0}
    /\ Addrs # {} /\ Streams \subseteq Seq(Bytes) /\ Cuts \subseteq Nat

VARIABLES
    sem,        \* slots taken from s.sem
    conn,       \* the connections and the goroutines that serve them
    bucket,     \* l.ips
    grants      \* how many connections allow() let in, by how long ago

vars == <<sem, conn, bucket, grants>>

----------------------------------------------------------------------------
\* State

PCs == {"free", "limit", "handshake", "status", "ping", "ensure", "dial", "reply", "proxy"}

Copies == {"none", "copy", "send", "done"}

\* here: bytes that arrived; read: bytes the handler took; left: ticks to the
\* deadline of the connection, -1 without one; wait: ticks that Ensure or Dial
\* may still take; got: what the backend got; up, down: the copying goroutines.
NoConn == [pc |-> "free", addr |-> CHOOSE a \in Addrs : TRUE, stream |-> <<>>, here |-> 0,
           read |-> 0, gone |-> FALSE, left |-> -1, wait |-> 0, got |-> <<>>,
           back |-> "none", up |-> "none", down |-> "none", errc |-> 0]

\* A missing bucket is as good as one that is too old to count.
NoBucket == [age |-> 2 * Minute + 1, count |-> 0]

NoGrants == [age \in 0 .. Minute - 1 |-> 0]

RouterTypeOK ==
    /\ sem \in 0 .. MaxConnections
    /\ \A c \in Conns :
         /\ DOMAIN conn[c] = DOMAIN NoConn
         /\ conn[c].pc \in PCs /\ conn[c].addr \in Addrs
         /\ conn[c].stream \in Streams \cup {<<>>}
         /\ 0 <= conn[c].read /\ conn[c].read <= conn[c].here /\ conn[c].here <= Len(conn[c].stream)
         /\ conn[c].left \in -1 .. Max(Timeouts) /\ conn[c].wait \in 0 .. Max(Timeouts)
         /\ conn[c].up \in Copies /\ conn[c].down \in Copies
         /\ conn[c].errc \in 0 .. 2 /\ conn[c].gone \in BOOLEAN
    /\ bucket \in [Addrs -> [age: 0 .. 2 * Minute + 1, count: 0 .. Limit + 1]]
    /\ grants \in [Addrs -> [0 .. Minute - 1 -> Nat]]

Init ==
    /\ sem = 0
    /\ conn = [c \in Conns |-> NoConn]
    /\ bucket = [a \in Addrs |-> NoBucket]
    /\ grants = [a \in Addrs |-> NoGrants]

At(c, pc) == conn[c].pc = pc

\* The bytes of s behind the first i up to the first j.
Between(s, i, j) == SubSeq(s, i + 1, j)

Unread(c) == Between(conn[c].stream, conn[c].read, conn[c].here)

Go(c, pc) == conn' = [conn EXCEPT ![c].pc = pc] /\ UNCHANGED sem

\* Mutant: the slot is given back both by the handler and by its caller.
EndTwice(c) == conn' = [conn EXCEPT ![c] = NoConn] /\ sem' = sem - 2

\* The handler returns before it copies: its defers close the connection and
\* give the slot back.
End(c) == conn' = [conn EXCEPT ![c] = NoConn] /\ sem' = sem - 1

----------------------------------------------------------------------------
\* The accept loop and the peers

\* A connection that finds no slot is closed at once.
Accept(c) ==
    /\ conn[c] = NoConn
    /\ \/ /\ sem < MaxConnections /\ sem' = sem + 1
          /\ \E a \in Addrs, s \in Streams :
               conn' = [conn EXCEPT ![c] = [NoConn EXCEPT !.pc = "limit", !.addr = a, !.stream = s]]
       \/ sem = MaxConnections /\ UNCHANGED <<sem, conn>>
    /\ UNCHANGED <<bucket, grants>>

\* More of the stream arrives.
Arrive(c) ==
    /\ conn[c].pc # "free" /\ ~conn[c].gone
    /\ \E n \in Cuts \cup {Len(conn[c].stream)} :
         /\ conn[c].here < n /\ n <= Len(conn[c].stream)
         /\ conn' = [conn EXCEPT ![c].here = n]
    /\ UNCHANGED <<sem, bucket, grants>>

\* The client closes its side, or the backend the other one.
ClientCloses(c) ==
    /\ conn[c].pc # "free" /\ ~conn[c].gone
    /\ conn' = [conn EXCEPT ![c].gone = TRUE]
    /\ UNCHANGED <<sem, bucket, grants>>

BackendCloses(c) ==
    /\ conn[c].back = "open"
    /\ conn' = [conn EXCEPT ![c].back = "closed"]
    /\ UNCHANGED <<sem, bucket, grants>>

\* The manager is done or the context cancelled: the listener closes and Serve
\* returns without waiting for handlers, which run on until the daemon ends.
Exit ==
    /\ sem' = 0
    /\ conn' = [c \in Conns |-> NoConn]
    /\ bucket' = [a \in Addrs |-> NoBucket]
    /\ grants' = [a \in Addrs |-> NoGrants]

----------------------------------------------------------------------------
\* allow()

\* Mutant: buckets are pruned before their minute is over.
PruneEarly(ips) == [a \in Addrs |-> IF ips[a].age > 0 THEN NoBucket ELSE ips[a]]

Prune(ips) == [a \in Addrs |-> IF ips[a].age > 2 * Minute THEN NoBucket ELSE ips[a]]

\* Counts are only compared with Limit, so they stop one above it.
Counted(b) ==
    LET current == IF b.age >= Minute THEN [age |-> 0, count |-> 0] ELSE b
    IN  [current EXCEPT !.count = IF @ > Limit THEN @ ELSE @ + 1]

\* Mutant: the slot of a connection that the limiter refuses is kept.
RefuseKeepsSlot(c) == conn' = [conn EXCEPT ![c] = NoConn] /\ UNCHANGED sem

Refuse(c) == End(c)

Allow(c) ==
    LET a == conn[c].addr
        b == Counted(bucket[a])
    IN  /\ At(c, "limit")
        /\ bucket' = Prune([bucket EXCEPT ![a] = b])
        /\ IF b.count <= Limit
           THEN /\ conn' = [conn EXCEPT ![c].pc = "handshake", ![c].left = HandshakeTimeout]
                /\ grants' = [grants EXCEPT ![a][0] = @ + 1]
                /\ UNCHANGED sem
           ELSE Refuse(c) /\ UNCHANGED grants

----------------------------------------------------------------------------
\* handle() up to the answer

\* Bytes that can be waiting, and what the handler makes of them.
Waiting == UNION {{Between(s, i, j) : i, j \in 0 .. Len(s)} : s \in Streams}

Readers == [handshake |-> [b \in Waiting |-> ReadHandshake(b)],
            status |-> [b \in Waiting |-> ReadMessage(b)],
            ping |-> [b \in Waiting |-> ReadPing(b)]]

Reading(c) == Readers[conn[c].pc][Unread(c)]

ReadFails(c) ==
    \/ conn[c].left = 0
    \/ Reading(c).st = "bad"
    \/ Reading(c).st = "more" /\ conn[c].gone

Consumed(c) == conn[c].here - Len(Reading(c).rest)

AfterHandshake(hs) ==
    IF hs.next = 1 THEN "status"
    ELSE IF PackForHost(hs.host) = <<>> THEN "reply" ELSE "ensure"

\* Where a handler goes that has read a handshake.
Routes ==
    [b \in {b \in Waiting : Readers.handshake[b].st = "ok"} |-> AfterHandshake(Readers.handshake[b].val)]

Handshake(c) ==
    /\ At(c, "handshake")
    /\ \/ ReadFails(c) /\ End(c)
       \/ /\ ~ReadFails(c) /\ Reading(c).st = "ok"
          /\ LET pc == Routes[Unread(c)] IN
             conn' = [conn EXCEPT ![c].pc = pc, ![c].read = Consumed(c),
                                  ![c].left = IF pc = "status" THEN StatusTimeout ELSE @,
                                  ![c].wait = IF pc = "ensure" THEN StartupWait ELSE @]
          /\ UNCHANGED sem
    /\ UNCHANGED <<bucket, grants>>

\* WriteStatus: the request is answered, then a ping may follow.
Status(c) ==
    /\ At(c, "status")
    /\ \/ ReadFails(c) /\ End(c)
       \/ /\ ~ReadFails(c) /\ Reading(c).st = "ok"
          /\ conn' = [conn EXCEPT ![c].pc = "ping", ![c].read = Consumed(c),
                                  ![c].left = PingTimeout]
          /\ UNCHANGED sem
    /\ UNCHANGED <<bucket, grants>>

Ping(c) ==
    /\ At(c, "ping") /\ (ReadFails(c) \/ Reading(c).st = "ok")
    /\ End(c)
    /\ UNCHANGED <<bucket, grants>>

\* Ensure answers: ready before StartupWait is over, or a reason any time.
Ensure(c) ==
    /\ At(c, "ensure")
    /\ \/ /\ conn[c].wait > 0
          /\ conn' = [conn EXCEPT ![c].pc = "dial", ![c].wait = DialTimeout]
          /\ UNCHANGED sem
       \/ Go(c, "reply")
    /\ UNCHANGED <<bucket, grants>>

\* WriteLoginDisconnect; see RefusalReaches for when it gets through.
Reply(c) ==
    /\ At(c, "reply")
    /\ End(c)
    /\ UNCHANGED <<bucket, grants>>

\* Mutant: the deadline of the handshake stays in force.
DeadlineKept(c) == conn[c].left

\* SetDeadline(time.Time{}).
DeadlineCleared(c) == -1

\* Mutant: the goroutine reads the connection, past the bytes in the bufio.Reader.
CopyFromConn(c) == conn[c].here

\* The copy goes on where the handshake ended, in the bufio.Reader.
CopyFrom(c) == conn[c].read

Dial(c) ==
    /\ At(c, "dial")
    /\ \/ /\ conn[c].wait > 0
          /\ conn' = [conn EXCEPT ![c].pc = "proxy", ![c].left = DeadlineCleared(c), ![c].wait = 0,
                         ![c].got = Readers.handshake[conn[c].stream].val.frame,
                         ![c].read = CopyFrom(c),
                         ![c].back = "open", ![c].up = "copy", ![c].down = "copy"]
          /\ UNCHANGED sem
       \/ conn[c].wait > 0 /\ End(c)    \* the first write to the backend fails
       \/ Go(c, "reply")
    /\ UNCHANGED <<bucket, grants>>

----------------------------------------------------------------------------
\* The session

\* Goroutines that outlive the handler are the last trace of a connection.
Settled(r) == IF r.pc = "free" /\ r.up = "done" /\ r.down = "done" THEN NoConn ELSE r

\* io.Copy(backend, reader): read what arrived and write it, when the backend takes
\* it ...
CopyUp(c) ==
    /\ conn[c].up = "copy" /\ At(c, "proxy")
    /\ conn[c].left # 0 /\ conn[c].back = "open" /\ Unread(c) # <<>>
    /\ conn' = [conn EXCEPT ![c].got = @ \o Unread(c), ![c].read = conn[c].here]
    /\ UNCHANGED <<sem, bucket, grants>>

\* ... until either side is closed or a deadline passes.
CopyUpEnds(c) ==
    /\ conn[c].up = "copy"
    /\ \/ At(c, "free") \/ conn[c].left = 0
       \/ conn[c].gone /\ Unread(c) = <<>>
       \/ conn[c].back = "closed" /\ Unread(c) # <<>>
    /\ conn' = [conn EXCEPT ![c].up = "send"]
    /\ UNCHANGED <<sem, bucket, grants>>

\* io.Copy(c, backend): it meets the end of either side once the client took, or
\* failed to take, what came before it ...
CopyDownEnds(c) ==
    /\ conn[c].down = "copy" /\ (conn[c].gone \/ conn[c].back = "closed")
    /\ conn' = [conn EXCEPT ![c].down = "send"]
    /\ UNCHANGED <<sem, bucket, grants>>

\* ... or fails because the handler has closed both.
CopyDownFails(c) ==
    /\ conn[c].down = "copy" /\ At(c, "free")
    /\ conn' = [conn EXCEPT ![c].down = "send"]
    /\ UNCHANGED <<sem, bucket, grants>>

\* Mutant: errc is unbuffered.
CanSendToReceiver(c) == At(c, "proxy") /\ conn[c].errc = 0

\* errc has room for both goroutines.
CanSend(c) == conn[c].errc < 2

SendErr(c) ==
    /\ CanSend(c)
    /\ \E w \in {"up", "down"} :
         /\ conn[c][w] = "send"
         /\ conn' = [conn EXCEPT ![c] = Settled([conn[c] EXCEPT ![w] = "done", !.errc = @ + 1])]
    /\ UNCHANGED <<sem, bucket, grants>>

\* <-errc, and the defers close both connections.
Finish(c) ==
    /\ At(c, "proxy") /\ conn[c].errc > 0
    /\ conn' = [conn EXCEPT ![c] =
                   Settled([conn[c] EXCEPT !.pc = "free", !.errc = @ - 1, !.back = "closed"])]
    /\ sem' = sem - 1
    /\ UNCHANGED <<bucket, grants>>

----------------------------------------------------------------------------
\* Time

\* The handler has something to do now.
Busy(c) ==
    \/ conn[c].pc \in {"limit", "reply"}
    \/ conn[c].pc \in {"handshake", "status", "ping"} /\ (ReadFails(c) \/ Reading(c).st = "ok")
    \/ conn[c].pc \in {"ensure", "dial"} /\ conn[c].wait = 0

Less(n) == IF n > 0 THEN n - 1 ELSE n

Tick ==
    /\ \A c \in Conns : ~Busy(c)
    /\ conn' = [c \in Conns |-> [conn[c] EXCEPT !.left = Less(@), !.wait = Less(@)]]
    /\ bucket' = [a \in Addrs |-> [bucket[a] EXCEPT !.age = IF @ > 2 * Minute THEN @ ELSE @ + 1]]
    /\ grants' = [a \in Addrs |-> [age \in 0 .. Minute - 1 |-> IF age = 0 THEN 0 ELSE grants[a][age - 1]]]
    /\ UNCHANGED sem

----------------------------------------------------------------------------

Handle(c) ==
    \/ Allow(c) \/ Handshake(c) \/ Status(c) \/ Ping(c)
    \/ Ensure(c) \/ Dial(c) \/ Reply(c) \/ Finish(c)

Copying(c) == CopyUp(c) \/ CopyUpEnds(c) \/ CopyDownEnds(c) \/ CopyDownFails(c)

Next ==
    \/ \E c \in Conns :
         \/ Accept(c) \/ Arrive(c) \/ ClientCloses(c) \/ BackendCloses(c)
         \/ Handle(c) \/ Copying(c) \/ SendErr(c)
    \/ Exit \/ Tick

Spec == Init /\ [][Next]_vars

\* Goroutines run, and time passes whatever comes and goes meanwhile. Clients and
\* the backend need not do anything, so a Write to one of them may block for good.
Fairness ==
    /\ SF_vars(Tick)
    /\ \A c \in Conns : WF_vars(Handle(c)) /\ WF_vars(CopyUpEnds(c) \/ CopyDownFails(c))
                       /\ WF_vars(SendErr(c))

FairSpec == Spec /\ Fairness

----------------------------------------------------------------------------

\* A slot is taken exactly while a handler runs: whichever way handlers end, the
\* router neither leaks slots until it refuses everybody nor exceeds its limit.
SlotsConserved == sem = Cardinality({c \in Conns : conn[c].pc # "free"})

\* allow() counts in minutes that begin with a connection it lets in, so one address
\* gets less than twice the limit within any minute, however its connections fall
\* across resets and prunes.
RateBounded ==
    \A a \in Addrs : FoldFunctionOnSet(+, 0, grants[a], 0 .. Minute - 1) <= 2 * Limit - 1

\* What the clients of the connections send, and for which of it the codec and
\* the host lookup are right: a connection that is not in use sends nothing.
Sent == {conn[c].stream : c \in Conns}

Sendable == Streams \cup {<<>>}

VarIntsSafe == {s \in Sendable : VarIntsReadBack(s)}

HandshakesSafe == {s \in Sendable : HandshakesForwarded(s)}

StatusSafe == {s \in Sendable : StatusReadBack(s)}

HostsSafe == {s \in Sendable : \A hs \in {ReadHandshake(s)} : HostsRouted(IF hs.st = "ok" THEN hs.val.host ELSE <<>>)}

\* ReadVarInt and WriteVarInt: every number below 2^32 is read back as it was
\* written, up to the last group, nothing of what a client sends behind it is
\* consumed, and a number that is cut off is waited for.
VarIntRoundTrip == Sent \subseteq VarIntsSafe

\* The frame the router sends on makes the backend read the handshake the router
\* went by, also when the client spelt its numbers with needless or excess
\* groups, and what it sends behind the handshake is all still there.
HandshakeForwarded == Sent \subseteq HandshakesSafe

\* QueryStatus and WriteStatus agree: the query is read as a status handshake and
\* a status request, the answer as the body that was sent, whatever follows.
StatusRoundTrip == Sent \subseteq StatusSafe

\* PackForHost finds a pack for exactly the ways to write its name, except that it
\* loses a final dot before a port: trimming, case folding and cutting the port lose
\* no other way and let in no other host and no other pack, whatever stands around
\* the name that a client has sent.
HostRouting == Sent \subseteq HostsSafe

\* The backend gets the handshake that the router read, and after it the bytes of
\* the client in order with none missing, however the stream was cut.
StreamIntact ==
    \A c \in Conns :
        conn[c].got # <<>> =>
            LET sent == Readers.handshake[conn[c].stream]
            IN  IsPrefix(conn[c].got, sent.val.frame \o sent.rest)

\* A session ends only when a side closes it: no deadline of the handshake cuts
\* into the game.
SessionLasts ==
    [][\A c \in Conns :
          conn[c].pc = "proxy" /\ conn'[c].pc = "free"
          => conn[c].gone \/ conn[c].back = "closed" \/ Exit]_vars

\* Every connection comes to nothing, but for a session that a peer keeps: a client
\* that is there, or a backend that does not take what the client sent before it
\* left. No silent client keeps a handler before that, and when a session ends, both
\* its goroutines do.
ConnectionsSettle ==
    \A c \in Conns :
        conn[c] # NoConn ~>
            \/ conn[c] = NoConn
            \/ /\ conn[c].pc = "proxy"
               /\ ~conn[c].gone \/ (conn[c].back = "open" /\ Unread(c) # <<>>)

\* docs/configuration.md: "Initial login waits up to 25 seconds before asking the
\* client to reconnect": the answer is written while the connection still takes it.
RefusalReaches == \A c \in Conns : At(c, "reply") /\ ~conn[c].gone => conn[c].left # 0
=============================================================================
