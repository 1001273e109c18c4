CONSTANTS
    DictSize = 32
    PosSize = 64
    MaxMatch = 6
    TooFar = 8
    LongMatch = 5
    LongSaved = 4
    FilterLen = 4
    CodeBuf = 24
    EarlyFlush = 20
    HashSize = 4
    SmallBlock = 4
    EndOfBlock = 9
    RepMax = 4
    FewZeros = 4
    ManyZeros = 8
    KeySize = 32
    Bytes <- MCBytes
    Inputs <- MCInputs
    Hash <- MCHash
    Lengths <- MCLengths
    Distances <- MCDistances
    StaticSizes <- MCStaticSizes
    Symbols <- MCSymbols
    CodeLimit <- MCCodeLimit
    Swizzle <- MCSwizzle
SPECIFICATION Spec
INVARIANTS
    Decodable
    Window
    LimitEnds
    Optimal
