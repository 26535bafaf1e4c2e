CONSTANTS
    r1 = r1
    r2 = r2
    i1 = i1
    i2 = i2
    sc = sc
    o1 = o1
    Regions = {r1, r2}
    Features = {i1, sc, o1}
    Category <- MCCategory
    Retired = {"modelLatency"}
    Modality <- MCModality
    CatalogRows = {sc}
    Items = {i1}
    Sentinel = sc
    Published <- Measured
    MaxDays = 4
    MaxRuns = 2
SPECIFICATION Spec
SYMMETRY RegionSymmetry
CHECK_DEADLOCK FALSE
INVARIANTS TypeOK CitedDatesTrue NewMeansNew LostStaysTracked NewsIsObserved UnknownMeansFailed
