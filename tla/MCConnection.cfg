CONSTANTS
    Node = {n1, n2, n3}
    Nonce = {x1, x2, x3, x4}
SYMMETRY Symmetric
SPECIFICATION Spec
INVARIANTS
    TypeOK
    KeysUnshared
    HandedOverOnce
    CalleeHasCaller
    CallerMatchesFile
PROPERTY Implements
