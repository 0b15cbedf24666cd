\* A connection whose backend's descriptor is given to another backend.
SPECIFICATION Spec
CONSTANTS
    Fd = {f1}
    s1 = s1
    s2 = s2
    k1 = k1
    k2 = k2
    Service <- OneService
    Peer = {p1, p2}
    Load = {idle}
    IdleLoad = idle
    MaxServices = 2
    MaxBackends = 2
    Timeout = 0
    NoSession = NoSession
    NoPeer = NoPeer
    Flow <- OneFlow
    UdpFlow = {}
    FlowService <- FirstService
    Hash <- Hashes
    Size = 1
    Probes = 1
    MaxSessions = 1
    NoTable = NoTable
    NoPin = NoPin
    NoFd = NoFd
    ReusedFds = {f1}
    Pipelined = {}
    Alias <- NotAFd
    NoService = NoService
    NoPacket = NoPacket
    MaxRegistrations = 2
PROPERTIES
    StatefulRoute
