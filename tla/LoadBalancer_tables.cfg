\* The tables of two services, one descriptor reused and one not, and rewrites that reach
\* any table or none.
SPECIFICATION Spec
CONSTANTS
    Fd = {f1, f2}
    s1 = s1
    s2 = s2
    k1 = k1
    k2 = k2
    Service <- BothServices
    Peer = {p1, p2}
    Load = {idle}
    IdleLoad = idle
    MaxServices = 2
    MaxBackends = 2
    Timeout = 0
    NoSession = NoSession
    NoPeer = NoPeer
    Flow = {}
    UdpFlow = {}
    FlowService <- FirstService
    Hash <- Hashes
    Size = 2
    Probes = 2
    MaxSessions = 1
    NoTable = NoTable
    NoPin = NoPin
    NoFd = NoFd
    ReusedFds = {f2}
    Pipelined = {}
    Alias <- AnyFd
    NoService = NoService
    NoPacket = NoPacket
    MaxRegistrations = 2
SYMMETRY Symmetry
INVARIANTS
    TypeOK
    NoMissedClose
    Isolated
