CONSTANTS
    EOS = EOS
    QueueLen = 1
    CommandLines <- MCCommandLines
    Kind <- MCKind
    BaseName <- MCBaseName
    Numeral <- MCNumeral
SPECIFICATION Spec
INVARIANTS
    MemorySafe
    Archives
    ExitClean
PROPERTIES
    JobSpec
