------------------------------ MODULE Protocol ------------------------------
(***************************************************************************)
(* The part of the Minecraft protocol that hostpackd speaks                *)
(* (internal/mcproto/protocol.go), and Config.PackForHost, which reads the *)
(* host name of a handshake. Pure operators over sequences of bytes.       *)
(*                                                                         *)
(* The widths are parameters so that TLC can go through all values of a    *)
(* small instance: a byte carries a digit below Base (128 in the code) and *)
(* a continuation bit, a VarInt has at most MaxGroups bytes (5), uint32    *)
(* wraps at Word (2^32). JSON bodies stay abstract sequences.              *)
(***************************************************************************)
EXTENDS Integers, SequencesExt

CONSTANTS
    Base,       \* values of the payload of a byte
    MaxGroups,  \* bytes of the longest VarInt
    Word,       \* uint32(v) is v modulo Word
    MaxPacket,  \* maxPacket
    MaxString,  \* 32767
    MaxPing,    \* 64
    Version,    \* the protocol version QueryStatus announces, 767
    BackendPort, \* the two bytes of the port QueryStatus announces
    Dot, Colon, Space,  \* the bytes PackForHost looks for
    Letters,    \* the upper-case letters: Lower(b) of one of them is b - 1
    Domain,     \* cfg.Domain
    PackIds     \* the keys of cfg.Packs

Bytes == 0 .. 2 * Base - 1

\* 1 << (7 * i), what the group with number i of a VarInt counts.
Weight[i \in 0 .. MaxGroups] == IF i = 0 THEN 1 ELSE Base * Weight[i - 1]

ASSUME ProtocolAssumption ==
    /\ Base \in Nat /\ Base > 1
    /\ MaxGroups \in Nat \ {0}
    /\ Word \in Nat /\ Weight[MaxGroups - 1] < Word /\ Word < Weight[MaxGroups]
    /\ MaxPacket \in 0 .. Word - 1 /\ {MaxString, MaxPing} \subseteq 0 .. MaxPacket
    /\ MaxString + 2 * MaxGroups + 4 <= MaxPacket  \* a handshake fits in a packet
    /\ Version \in 0 .. Word - 1 /\ BackendPort \in [1 .. 2 -> Bytes]
    /\ {Dot, Colon, Space} \cup Letters \subseteq Bytes
    /\ Domain \in Seq(Bytes) /\ PackIds \subseteq Seq(Bytes)

\* What Config.Validate (dnsLabel) makes sure of: names are lower-case labels,
\* joined by dots in the domain.
ASSUME NamesAssumption ==
    /\ Dot # Colon /\ Dot # Space /\ Colon # Space
    /\ \A b \in Letters : b - 1 \in Bytes \ (Letters \cup {Dot, Colon, Space})
    /\ Letters \cap {Dot, Colon, Space} = {}
    /\ \A name \in PackIds \cup {Domain} :
          name # <<>> /\ \A i \in DOMAIN name : name[i] \notin Letters \cup {Colon, Space}
    /\ Domain[Len(Domain)] # Dot
    /\ \A id \in PackIds : Dot \notin ToSet(id)

----------------------------------------------------------------------------
\* Readers. A reader of the bytes s says "ok" with what it read and what is
\* left, "bad" when it refuses them, and "more" when s ends too early.

Result(st, val, rest) == [st |-> st, val |-> val, rest |-> rest]

\* The number that the first k groups of s stand for, the lowest group first.
Value(s, k) ==
    LET v[i \in 0 .. k] == IF i = 0 THEN 0 ELSE v[i - 1] + (s[i] % Base) * Weight[i - 1]
    IN  v[k]

\* Mutant: the last group is refused.
ReadVarIntShort(s) ==
    LET ends == {i \in DOMAIN s : i < MaxGroups /\ s[i] < Base}
        k == Min(ends)
    IN  IF ends = {} THEN Result(IF Len(s) + 1 < MaxGroups THEN "more" ELSE "bad", 0, <<>>)
        ELSE Result("ok", Value(s, k), SubSeq(s, k + 1, Len(s)))

\* int is wider than the groups: the value may exceed Word, it is never negative.
ReadVarInt(s) ==
    LET ends == {i \in DOMAIN s : i <= MaxGroups /\ s[i] < Base}
        k == Min(ends)
    IN  IF ends = {} THEN Result(IF Len(s) < MaxGroups THEN "more" ELSE "bad", 0, <<>>)
        ELSE Result("ok", Value(s, k), SubSeq(s, k + 1, Len(s)))

\* io.ReadFull
ReadFull(s, n) ==
    IF Len(s) < n THEN Result("more", <<>>, <<>>)
    ELSE Result("ok", SubSeq(s, 1, n), SubSeq(s, n + 1, Len(s)))

\* A VarInt within bounds and that many bytes after it: strings and packets.
ReadCounted(s, least, most) ==
    LET n == ReadVarInt(s)
    IN  IF n.st # "ok" THEN n
        ELSE IF n.val < least \/ n.val > most THEN Result("bad", <<>>, <<>>)
        ELSE ReadFull(n.rest, n.val)

readString(s) == ReadCounted(s, 0, MaxString)

ReadPacket(s) == ReadCounted(s, 1, MaxPacket)

----------------------------------------------------------------------------
\* Writers

WriteVarInt(v) ==
    LET u == v % Word
        k == Min({n \in 1 .. MaxGroups : u < Weight[n]})
    IN  [i \in 1 .. k |-> ((u \div Weight[i - 1]) % Base) + (IF i < k THEN Base ELSE 0)]

writeString(s) == WriteVarInt(Len(s)) \o s

\* Mutant: the length is written as a single byte.
frameOneByte(payload) == <<Len(payload) % Base>> \o payload

frame(payload) == WriteVarInt(Len(payload)) \o payload

\* Mutant: the packet id is left out.
MessageBare(body) == frame(writeString(body))

\* The status response and the login disconnect: packet 0 with a JSON string.
Message(body) == frame(WriteVarInt(0) \o writeString(body))

\* Echoed pings have at most MaxPing bytes; an answer to any other is silence.
ReadPing(s) == ReadCounted(s, 1, MaxPing)

----------------------------------------------------------------------------
\* Handshakes and status requests

\* A payload is parsed on its own: if it ends early the handshake is bad.
ReadHandshake(s) ==
    LET packet == ReadPacket(s)
        id == ReadVarInt(packet.val)
        proto == ReadVarInt(id.rest)
        host == readString(proto.rest)
        port == ReadFull(host.rest, 2)
        next == ReadVarInt(port.rest)
    IN  IF packet.st # "ok" THEN Result(packet.st, <<>>, <<>>)
        ELSE IF /\ \A r \in {id, proto, next} : r.st = "ok"
                /\ host.st = "ok" /\ port.st = "ok"
                /\ id.val = 0 /\ next.val \in {1, 2}
        THEN Result("ok", [protocol |-> proto.val, host |-> host.val, port |-> port.val,
                           next |-> next.val, frame |-> frame(packet.val)], packet.rest)
        ELSE Result("bad", <<>>, <<>>)

\* A packet whose id is 0: a status request, or the answer to one.
ReadMessage(s) ==
    LET packet == ReadPacket(s)
        id == ReadVarInt(packet.val)
    IN  IF packet.st # "ok" THEN packet
        ELSE IF id.st = "ok" /\ id.val = 0 THEN Result("ok", id.rest, packet.rest)
        ELSE Result("bad", <<>>, <<>>)

\* What QueryStatus sends, and how it reads the body of the answer.
Query(host) ==
    frame(WriteVarInt(0) \o WriteVarInt(Version) \o writeString(host) \o BackendPort
          \o WriteVarInt(1)) \o <<1, 0>>

QueryAnswer(s) ==
    LET message == ReadMessage(s)
    IN  IF message.st # "ok" THEN message ELSE readString(message.val)

----------------------------------------------------------------------------
\* Config.PackForHost

Lower(b) == IF b \in Letters THEN b - 1 ELSE b

TrimSpace(s) ==
    LET kept == {i \in DOMAIN s : s[i] # Space}
    IN  IF kept = {} THEN <<>> ELSE SubSeq(s, Min(kept), Max(kept))

TrimDot(s) == IF s # <<>> /\ Last(s) = Dot THEN Front(s) ELSE s

CutPort(s) ==
    LET colons == {i \in DOMAIN s : s[i] = Colon}
    IN  IF colons = {} THEN s ELSE SubSeq(s, 1, Max(colons) - 1)

\* Mutant: the letters keep their case.
NormalisedCase(host) == CutPort(TrimDot(TrimSpace(host)))

Normalised(host) ==
    LET name == TrimDot(TrimSpace(host))
    IN  CutPort([i \in DOMAIN name |-> Lower(name[i])])

\* The id of the pack a host name stands for, <<>> when there is none.
PackForHost(host) ==
    LET name == Normalised(host)
        n == Len(name) - Len(Domain) - 1
        id == SubSeq(name, 1, n)
    IN  IF /\ n > 0 /\ SubSeq(name, n + 1, Len(name)) = <<Dot>> \o Domain
           /\ Dot \notin ToSet(id) /\ id \in PackIds
        THEN id ELSE <<>>

----------------------------------------------------------------------------

\* Every spelling of a number as a VarInt, the ones with needless groups included.
Codes == UNION {[1 .. n -> Bytes] : n \in 1 .. MaxGroups}

Spellings == [v \in 0 .. Word + 2 * MaxPacket |-> {e \in Codes : ReadVarInt(e) = Result("ok", v, <<>>)}]

\* The payload of a handshake from its parts, and perhaps more.
Payload(id, proto, len, next, extra) ==
    id \o proto \o len \o <<Colon>> \o BackendPort \o next \o extra

\* Payloads of handshakes with every spelling of their numbers, some of them
\* refused: version numbers below and above uint32, unknown next states.
Payloads ==
    {Payload(id, proto, len, next, extra) :
        id \in Spellings[0], proto \in Spellings[Version] \cup Spellings[Word + 3],
        len \in Spellings[1], next \in UNION {Spellings[n] : n \in 1 .. 3},
        extra \in {<<>>, <<Base>>}}

\* What is read back of what was written, with the bytes tail behind it, and that a
\* number of which only a part has arrived is not taken for a smaller one.
VarIntsReadBack(tail) ==
    \A v \in 0 .. Word - 1 : \A e \in {WriteVarInt(v)} :
        /\ ReadVarInt(e \o tail) = Result("ok", v, tail)
        /\ \A k \in 0 .. Len(e) - 1 : ReadVarInt(SubSeq(e, 1, k)).st = "more"

HandshakesForwarded(tail) ==
    \A payload \in Payloads : \A len \in Spellings[Len(payload)] :
        \A hs \in {ReadHandshake(len \o payload \o tail)} :
            hs.st = "ok" => ReadHandshake(hs.val.frame \o hs.rest) = hs /\ hs.rest = tail

StatusReadBack(tail) ==
    \A body \in UNION {[1 .. n -> {0, Base}] : n \in 0 .. MaxString} :
        \A hs \in {ReadHandshake(Query(body) \o tail)} :
            /\ hs.st = "ok" /\ hs.val.host = body /\ hs.val.next = 1
            /\ ReadMessage(hs.rest) = Result("ok", <<>>, tail)
            /\ QueryAnswer(Message(body) \o tail) = Result("ok", body, <<>>)

\* The ways to write the name of a pack: its label and the domain in any case, with
\* space around it, perhaps with the dot of a full domain name and with a port.
Spells(host, id) ==
    LET name == id \o <<Dot>> \o Domain
        AllSpace(s) == ToSet(s) \subseteq {Space}
        PerhapsPort(s) == AllSpace(s) \/ (Head(s) = Colon /\ Colon \notin ToSet(Tail(s)))
    IN  \E i \in 0 .. Len(host) - Len(name) :
          LET tail == SubSeq(host, i + Len(name) + 1, Len(host)) IN
          /\ AllSpace(SubSeq(host, 1, i))
          /\ \A k \in DOMAIN name : Lower(host[i + k]) = name[k]
          /\ PerhapsPort(tail) \/ (Head(tail) = Dot /\ PerhapsPort(Tail(tail)))

\* The dot is trimmed before the port is cut, and so not where a port follows it.
DotBeforePort(host) == \E i \in 1 .. Len(host) - 1 : host[i] = Dot /\ host[i + 1] = Colon

\* Up to two bytes before or after a host name.
Affixes ==
    UNION {[1 .. n -> {Dot, Colon, Space} \cup Letters \cup {Lower(b) : b \in Letters}] : n \in 0 .. 2}

\* PackForHost finds packs by their names and by nothing else, but for names with a
\* dot before a port, which it does not find.
HostsRouted(host) ==
    \A before, after \in Affixes : \A id \in PackIds : \A h \in {before \o host \o after} :
        PackForHost(h) = id <=> Spells(h, id) /\ ~DotBeforePort(h)
=============================================================================
