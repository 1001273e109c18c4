CONSTANTS
    BufSize = 3
    DictSize = 2
    MaxBlock = 3
    MaxFile = 8
    Sessions <- MCSessions
SPECIFICATION Spec
INVARIANTS
    Conserved
    NoFalseAlarm
    NothingLost
PROPERTIES
    Termination
    CopySpec
