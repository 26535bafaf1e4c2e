CONSTANTS
    r1 = r1
    r2 = r2
    i1 = i1
    i2 = i2
    sc = sc
    o1 = o1
    Regions = {r1, r2}
    Features = {i1, i2, sc}
    Category <- MCCategory
    Retired = {"modelLatency"}
    Modality <- MCModality
    CatalogRows = {sc}
    Items = {i1, i2}
    Sentinel = sc
    Published <- Scanned
    MaxDays = 3
    MaxRuns = 2
SPECIFICATION Spec
SYMMETRY Symmetry
CHECK_DEADLOCK FALSE
INVARIANTS OutagesDelistNothing
