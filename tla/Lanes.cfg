CONSTANTS
    ai = ai
    ag = ag
    h1 = h1
    h2 = h2
    Branches = {ai, ag}
    Agentic = {ag}
    Runs = {1, 2}
    People = {h1, h2}
    Wide = {h2}
    Recurring = {}
    MaxPull = 3
    Opened <- MCOpened
    TTL = 1
    RunLimit = 1
    MaxClock = 2
    MaxActs = 1
    None = None
SPECIFICATION Spec
CHECK_DEADLOCK FALSE
INVARIANTS TypeOK OneReworkPerPull StatusIsTrue
PROPERTIES PushedIsTested PeopleKept
