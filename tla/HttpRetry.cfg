SPECIFICATION Spec
CONSTANTS
    kThreadPoolSize = 2
    kMaxBufferSize = 2
    kMaxEvents = 1
    kBacklogSize = 1
    Fds = {f1}
    Addrs = {a1, a2}
    Conns = {c1}
    None = None
    RespLens = {2}
    SndBuf = 1
    Pieces = 1
    MaxRequests = 1
    MaxRecvAgain = 0
    MaxSendAgain = 1
INVARIANT RetrySurvives
