\* A backend that stops reading and never resumes.
SPECIFICATION FairSpec
CONSTANTS
    p1 = p1
    p2 = p2
    p3 = p3
    f1 = f1
    f2 = f2
    Peer <- TwoPeers
    Fd <- TwoFds
    Service = {"a"}
    Load = {"low"}
    IdleLoad = "low"
    MaxServices = 1
    MaxBackends = 2
    Timeout = 0
    NoSession = NoSession
    NoPeer = NoPeer
    NoFd = NoFd
    MaxConnections = 2
    PeerMsgs = {"INIT"}
    PeerFaults = {"stall"}
    MaxStream = 1
    MaxAddFails = 0
PROPERTIES
    ZombieClosed
