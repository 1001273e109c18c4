CONSTANTS
    EOS = EOS
    QueueLen = 1
    columnsize = 3
    CommandLines <- MCCommandLines
SPECIFICATION Spec
INVARIANTS
    LikeSequential
    Ownership
