CONSTANTS
    Base = 4
    MaxGroups = 3
    Word = 32
    MaxPacket = 24
    MaxString = 3
    MaxPing = 2
    Version = 5
    BackendPort <- MCPort
    Dot = 0
    Colon = 1
    Space = 2
    Letters = {4, 6}
    Domain <- MCDomain
    PackIds <- MCPackIds
    Conns = {c1, c2}
    Addrs = {i1}
    Streams <- MCStreams
    Cuts = {9, 13}
    MaxConnections = 1
    Limit = 2
    Minute = 3
    HandshakeTimeout = 1
    StatusTimeout = 1
    PingTimeout = 1
    DialTimeout = 1
    StartupWait = 2

SPECIFICATION FairSpec
INVARIANTS RouterTypeOK SlotsConserved RateBounded StreamIntact VarIntRoundTrip HandshakeForwarded StatusRoundTrip HostRouting
PROPERTIES SessionLasts ConnectionsSettle
