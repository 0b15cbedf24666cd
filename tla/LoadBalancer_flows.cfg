\* A TCP connection and a UDP flow in a sessions_map for one, a descriptor that is given to
\* one backend after the other, and backends that send frames behind their CLOSE_REQ.
SPECIFICATION Spec
CONSTANTS
    Fd = {f1}
    s1 = s1
    s2 = s2
    k1 = k1
    k2 = k2
    Service <- OneService
    Peer = {p1, p2}
    Load = {idle}
    IdleLoad = idle
    MaxServices = 2
    MaxBackends = 2
    Timeout = 0
    NoSession = NoSession
    NoPeer = NoPeer
    Flow <- BothFlows
    UdpFlow <- SecondFlow
    FlowService <- FirstService
    Hash <- Hashes
    Size = 2
    Probes = 2
    MaxSessions = 1
    NoTable = NoTable
    NoPin = NoPin
    NoFd = NoFd
    ReusedFds = {f1}
    Pipelined = {p1, p2}
    Alias <- AnyFd
    NoService = NoService
    NoPacket = NoPacket
    MaxRegistrations = 2
SYMMETRY Symmetry
VIEW Observed
INVARIANTS
    
    ActiveMeansOpen
PROPERTIES
    
    ImplementsMembership
