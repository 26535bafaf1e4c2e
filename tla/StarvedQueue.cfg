CONSTANTS
    Issues = {1, 2, 3, 4}
    Recurring = {}
    Unknowns = {}
    Scoped = {1, 2, 3, 4}
    Limit = 3
    Threshold = 3
    MaxRun = 1
    MaxActs = 3
    MaxReply = 0
    MaxText = 1
    None = None
SPECIFICATION Spec
CHECK_DEADLOCK FALSE
PROPERTIES IdleMeansNothingRunnable
