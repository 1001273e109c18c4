CONSTANTS
    Modulus = 256
    Memory = 24
    Ranges <- MCRanges
SPECIFICATION Spec
INVARIANTS
    ResultsExact
PROPERTIES
    Termination
    SearchSpec
