\* A backend disconnects while the loop sends to it.
SPECIFICATION Spec
CONSTANTS
    p1 = p1
    p2 = p2
    p3 = p3
    f1 = f1
    f2 = f2
    Peer <- TwoPeers
    Fd <- TwoFds
    Service = {"a"}
    Load = {"low"}
    IdleLoad = "low"
    MaxServices = 1
    MaxBackends = 2
    Timeout = 0
    NoSession = NoSession
    NoPeer = NoPeer
    NoFd = NoFd
    MaxConnections = 2
    PeerMsgs = {"INIT"}
    PeerFaults = {"hangup"}
    MaxStream = 1
    MaxAddFails = 0
INVARIANTS
    SurvivesDisconnects
