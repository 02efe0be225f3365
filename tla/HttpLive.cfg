SPECIFICATION FairSpec
CONSTANTS
    kThreadPoolSize = 1
    kMaxBufferSize = 2
    kMaxEvents = 1
    kBacklogSize = 1
    Fds = {f1}
    Addrs = {a1, a2}
    Conns = {c1, c2}
    None = None
    RespLens = {2}
    SndBuf = 1
    Pieces = 1
    MaxRequests = 1
    MaxRecvAgain = 1
    MaxSendAgain = 0
PROPERTIES EachRequestAnswered DescriptorsReclaimed BacklogAccepted StopReturns
