CONSTANTS
    ak = ak
    vm = vm
    d1 = d1
    d2 = d2
    f1 = f1
    rb = rb
    Modalities = {ak, vm}
    PathRank <- MCRank
    MaxTime = 2
    Dates <- MCDates
    DayOf <- MCDayOf
    NoDay = NoDay
    Runs = {d1, f1, rb}
    Probes <- MCProbes
    Daily = {d1}
    UpdatesHistory = {d1, f1}
    Overrides <- NoOverrides
    ArchiveMode = TRUE
    Bootstrap = FALSE
    Genesis = Genesis
    First = 2
    Sample <- MCSample
    Site = Site
    None = None
SPECIFICATION FairSpec
CHECK_DEADLOCK FALSE
PROPERTIES EveryRunEnds
