CONSTANTS
    r1 = r1
    r2 = r2
    r3 = r3
    e1 = e1
    e2 = e2
    ec = ec
    k1 = k1
    cat = cat
    ver = ver
    Regions = {r1, r2, r3}
    Features = {e1, e2, ec, k1}
    Category <- MCCategory
    Retired = {}
    Probes = {cat, ver}
    Items <- MCItems
    Kind <- MCCatalog
    Sentinel <- MCSentinel
    Calls <- MCCalls
    None = None
SPECIFICATION Spec
CHECK_DEADLOCK FALSE
INVARIANTS TypeOK VerdictsAreEvidence ScanIsOverlay OutageLeavesTrace
