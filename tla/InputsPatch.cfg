SPECIFICATION Spec
CONSTANTS
    Symbol <- MCSymbol
    StartLines <- MCStartLines
    MainLines <- MCMain
    Fields <- MCFields
    Others <- MCOthers
    JsonTokens <- MCJsonTokens
    NumberBytes <- MCNumberBytes
    StringPieces <- MCStringPieces
    Scalars <- MCScalars
    ObjectKeys <- MCObjectKeys
    PointValues <- MCPointValues
    PlotNames = {"f1", "f2", "f3"}
    TableNumbers <- MCTableNumbers
    Args = {"--calculate", "--evaluate", "--print-time", "--help", "missing", "file", "file2"}
    CalcLines <- MCCalcLines
    Rects <- MCRects
    BoxValues <- MCBoxValues
    Formats <- MCFormats
    FormatBytes <- MCFormatBytes
    DataValues <- MCDataValues
    Neighbours <- MCNeighbours
    PatchScalars <- MCPatchScalars
    PatchKeys <- MCPatchKeys
    PointerTokens <- MCPointerTokens
    PointerBytes = {47, 126, 48, 49, 97}
    Radix = 128
    Callbacks <- MCCallbacks
    WideUnits <- MCWideUnits
    CommentPieces <- MCCommentPieces
    kPrecision = 14
    Significand = 5
    kBias = 17
    kAlpha <- MCkAlpha
    kGamma <- MCkGamma
    kCachedPowersMinDecExp <- MCkCachedPowersMinDecExp
    kCachedPowersDecStep = 1
    kCachedPowersSize = 11
    MaxBiased = 29
    MaxWide = 3
    MaxComment = 4
    MaxData = 2
    MaxBytes <- MCMaxBytes
    MaxDocument = 3
    MaxPair = 3
    MaxPointer = 5
    MaxPieces = 5
    MaxTokens = 9
    MaxNumber = 7
    MaxString = 2
    MaxValue = 3
    MaxPoints = 3
    MaxEvents = 5
    MaxArgs = 5
    MaxLines = 5
    MaxMoves = 4
    Unit = 3
    LIMIT = 30
    MaxUnsigned = 10011
    MinInteger <- MCMinInteger
    MaxExponent = 4
    MinExp <- MCMinExp
    MaxExp = 3
    BufferSize = 20
    Precision = 3
INVARIANT PatchAsserts
CHECK_DEADLOCK FALSE
