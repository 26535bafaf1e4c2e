CONSTANTS
    Issues = {1}
    Recurring = {}
    Unknowns = {}
    Scoped = {1}
    Limit = 3
    Threshold = 2
    MaxRun = 3
    MaxActs = 3
    MaxReply = 2
    MaxText = 1
    None = None
SPECIFICATION Spec
CHECK_DEADLOCK FALSE
INVARIANTS TypeOK NoReplyLost CountIsEarned
PROPERTIES OneEvaluationPerReply
