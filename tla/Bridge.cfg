SPECIFICATION Spec
CONSTANTS
    Workers = {w1, w2}
    Vars = {x}
    Ans = ans
    Values = {one}
    Curves = {c1}
    Solids = {s1}
    Broken = {b1}
    NoText = NoText
    TabsUsed = {0, 1}
    PointReads = {0, 2}
    MaxPlots = 2
    MaxRequests = 2
    MaxUser = 1
INVARIANTS TypeOK WindowAlive CrashOnlyRaced AnswerExact ExecutedInOrder TabsAgree
    ShownIsReported
PROPERTIES AcknowledgedRuns QuitEnds
CHECK_DEADLOCK FALSE
