CONSTANTS
    s1 = s1
    s2 = s2
    s3 = s3
    Contents <- MCContents
    Interval = 3
    None = None
SPECIFICATION Spec
INVARIANTS RecordedIsReviewed
PROPERTIES NoReattempt WeeklyComes
