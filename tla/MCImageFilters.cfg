CONSTANTS
    EOS = EOS
    QueueLen = 1
    CommandLines <- MCCommandLines
    Readable <- MCReadable
    BaseName <- MCBaseName
    Numeral <- MCNumeral
SPECIFICATION Spec
INVARIANTS
    Ownership
    WholeFiles
    LikeSequential
PROPERTIES
    Termination
