CONSTANTS
    EOS = EOS
    QueueLen = 1
    IntBits = 4
    LongBits = 7
    FloatBits = 3
    CommandLines <- MCCommandLines
SPECIFICATION Spec
INVARIANTS
    SumPrinted
PROPERTIES
    SumSpec
