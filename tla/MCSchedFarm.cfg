CONSTANTS
    EOS = EOS
    Workers = {w1, w2, w3}
    QueueLen = 3
    Ranges <- MCRanges
SPECIFICATION Spec
INVARIANTS
    OneOwner
    HarmlessEos
PROPERTIES
    SearchSpec
