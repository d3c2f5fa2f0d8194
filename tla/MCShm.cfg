SPECIFICATION Spec
CONSTANTS
    o1 = o1
    o2 = o2
    a1 = a1
    a2 = a2
    a3 = a3
    NULL = NULL
    MAP_FAILED = MAP_FAILED
    Obj <- Objects
    Addr <- Addresses
    SegIds = 2
    EXCL = FALSE
SYMMETRY Symmetry
INVARIANTS TypeOK PointsToOwn
PROPERTIES UnmapsOnlyOwn ForgetsOnlyUnmapped
CHECK_DEADLOCK FALSE
