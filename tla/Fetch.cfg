CONSTANTS
    Gens <- MCGens
    Archived = {3}
    Legacy = {1}
    Old <- MCOld
    Attempts = 3
    Absent = Absent
    DayOf <- MCDayOf
    Fresh = {20, 22}
    Bundles <- MCBundles
SPECIFICATION Spec
CHECK_DEADLOCK FALSE
INVARIANTS TypeOK HistoryIsWhole AcceptedIsOneHistory ReplayFilesAll
PROPERTIES FetchEnds
