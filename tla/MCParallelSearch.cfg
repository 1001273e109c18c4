CONSTANTS
    CommandLines <- MCCommandLines
SPECIFICATION Spec
INVARIANTS
    PrintedInOrder
PROPERTIES
    SearchSpec
