\* The controller starts, fails to start, and stops, while two backends come and go on a
\* fresh and a reused descriptor, two CPUs count and samples are taken.
SPECIFICATION FairSpec
CONSTANTS
    f1 = f1
    f2 = f2
    Fd <- TwoFds
    ReusedFds <- Reused
    Service = {"a"}
    Peer = {p1, p2}
    Load = {idle}
    IdleLoad = idle
    MaxServices = 1
    MaxBackends = 2
    Timeout = 0
    NoSession = NoSession
    NoPeer = NoPeer
    NoFd = NoFd
    Cpus = 2
    Word = 4
    MaxRegistrations = 2
    MaxPackets = 1
INVARIANTS
    TypeOK
    CountedOnce
    RowsNameTheirBackend
    OrderlyEnd
PROPERTIES
    SampledAgain
    StopEnds
