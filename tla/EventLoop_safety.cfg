\* Two backends on two reused descriptors that disconnect, read slowly, and send more
\* behind CLOSE_REQ: the buffer that close_client freed is used.  An epoll_ctl fails.
SPECIFICATION Spec
CONSTANTS
    p1 = p1
    p2 = p2
    p3 = p3
    f1 = f1
    f2 = f2
    Peer <- TwoPeers
    Fd <- TwoFds
    Service = {"a"}
    Load = {"low"}
    IdleLoad = "low"
    MaxServices = 2
    MaxBackends = 2
    Timeout = 0
    NoSession = NoSession
    NoPeer = NoPeer
    NoFd = NoFd
    MaxConnections = 2
    PeerMsgs = {"INIT", "CLOSE"}
    PeerFaults = {"hangup", "tail", "slow"}
    MaxStream = 2
    MaxAddFails = 1
SYMMETRY Symmetry
INVARIANTS
    TypeOK
    SessionOwner
    CountNotAbove
    GroupsMatchSessions
    BackendsMirror
PROPERTIES
    ImplementsMembership
