SPECIFICATION Spec
CONSTANTS
    kThreadPoolSize = 1
    kMaxBufferSize = 2
    kMaxEvents = 1
    kBacklogSize = 1
    Fds = {f1}
    Addrs = {a1, a2}
    Conns = {c1}
    None = None
    RespLens = {3}
    SndBuf = 1
    Pieces = 1
    MaxRequests = 1
    MaxRecvAgain = 0
    MaxSendAgain = 0
INVARIANT WithinBuffer
