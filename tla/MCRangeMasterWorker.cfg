CONSTANTS
    EOS = EOS
    Workers <- MCWorkers
    QueueLen = 2
    Ranges <- MCRanges
SPECIFICATION Spec
INVARIANTS
    Tiling
    Sorted
    Ownership
PROPERTIES
    SearchSpec
