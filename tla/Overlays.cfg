CONSTANTS
    r1 = r1
    r2 = r2
    e1 = e1
    e2 = e2
    k1 = k1
    o1 = o1
    ext = ext
    ver = ver
    Regions = {r1, r2}
    Features = {e1, e2, k1, o1}
    Category <- MCCategory
    Retired = {"modelLatency"}
    Jobs = {ext, ver}
    Probed <- MCProbed
    Fresh = {"available"}
    Published <- MCPublished
    Sample <- MCSample
    None = None
SPECIFICATION Spec
CHECK_DEADLOCK FALSE
INVARIANTS TypeOK CarriedOrReplaced
