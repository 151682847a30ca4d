SPECIFICATION Spec
CONSTANTS
    users = users
    tokens = tokens
    Tables <- MCTables
    References <- MCReferences
    Excluded = {}
    Apostrophes = {users}
    Json = {}
    Runs = {r1}
    DayLength = 3
    Daily = 1
    Rules <- MCRules
    MaxClock = 8
    MaxRuns = 3
    MaxEvents = 2
INVARIANT TextIsAsWritten
CHECK_DEADLOCK FALSE
