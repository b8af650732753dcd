SPECIFICATION Spec
CONSTANTS
    Products <- MCProducts
    MaxShelf = 2
    Ratios = {0, 9000}
INVARIANTS
    TypeOK
    FaceIsAGate
    AutoIsRight
    SameIsFound
CHECK_DEADLOCK FALSE
