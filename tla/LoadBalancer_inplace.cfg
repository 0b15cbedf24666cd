\* The second rebuild of a service writes through the id of its table.
SPECIFICATION FairSpec
CONSTANTS
    Fd = {f1, f2}
    s1 = s1
    s2 = s2
    k1 = k1
    k2 = k2
    Service <- OneService
    Peer = {p1, p2}
    Load = {idle}
    IdleLoad = idle
    MaxServices = 2
    MaxBackends = 2
    Timeout = 0
    NoSession = NoSession
    NoPeer = NoPeer
    Flow = {}
    UdpFlow = {}
    FlowService <- FirstService
    Hash <- Hashes
    Size = 2
    Probes = 2
    MaxSessions = 1
    NoTable = NoTable
    NoPin = NoPin
    NoFd = NoFd
    ReusedFds = {}
    Pipelined = {}
    Alias <- NotAFd
    NoService = NoService
    NoPacket = NoPacket
    MaxRegistrations = 2
PROPERTIES
    TablesFollow
