\* Fair loop and clock, every message, one descriptor: zombies, disconnects and signals
\* are dealt with, and nobody else is closed.
SPECIFICATION FairSpec
CONSTANTS
    p1 = p1
    p2 = p2
    p3 = p3
    f1 = f1
    f2 = f2
    Peer <- TwoPeers
    Fd <- OneFd
    Service = {"a", "b"}
    Load = {"low"}
    IdleLoad = "low"
    MaxServices = 1
    MaxBackends = 2
    Timeout = 1
    NoSession = NoSession
    NoPeer = NoPeer
    NoFd = NoFd
    MaxConnections = 2
    PeerMsgs = {"REPORT", "GARBAGE", "BROKENCLOSE", "UNKNOWN", "INIT", "KEEPALIVE", "FLOOD", "REFUSED", "BADCLOSE"}
    PeerFaults = {"hangup"}
    MaxStream = 1
    MaxAddFails = 0
INVARIANTS
    VipsDistinct
PROPERTIES
    ZombieClosed
    HangupCleanedUp
    SignalStops
    ClosedForCause
