CONSTANTS
    EOS = EOS
    Stale = "?"
    QueueLen = 1
    CommandLines <- MCCommandLines
    Readable <- MCReadable
    BaseName <- MCBaseName
SPECIFICATION Spec
INVARIANTS
    Ownership
    LikeSequential
PROPERTIES
    Termination
CHECK_DEADLOCK FALSE
