SPECIFICATION Spec
CONSTANTS
    kThreadPoolSize = 2
    kMaxBufferSize = 2
    kMaxEvents = 2
    kBacklogSize = 1
    Fds = {f1, f2}
    Addrs = {a1, a2, a3, a4}
    Conns = {c1, c2}
    None = None
    RespLens = {2}
    SndBuf = 1
    Pieces = 1
    MaxRequests = 1
    MaxRecvAgain = 0
    MaxSendAgain = 1
SYMMETRY Symmetry
INVARIANTS OnlyRetryTerminates MemorySafe NoLeak FairShare ServingAlive
PROPERTY ImplementsSession
