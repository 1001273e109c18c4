CONSTANTS
    EOS = EOS
    Workers = {w1, w2, w3}
    QueueLen = 2
    Ranges <- MCRanges
SPECIFICATION Spec
INVARIANTS
    Conserved
    EosIsLast
PROPERTIES
    Termination
    SearchSpec
