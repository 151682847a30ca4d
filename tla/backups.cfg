SPECIFICATION Spec
CONSTANTS
    users = users
    tokens = tokens
    Tables <- MCTables
    References <- MCReferences
    Excluded = {}
    Apostrophes = {}
    Json = {}
    Runs = {r1}
    DayLength = 3
    Daily = 1
    Rules <- MCRules
    MaxClock = 8
    MaxRuns = 3
    MaxEvents = 2
INVARIANT TypeOK
INVARIANT DifferentialHasManifest
INVARIANT ChainHoldsWhatWasSeen
INVARIANT BaseOutlivesDifferential
PROPERTY SuperfluousGo
CHECK_DEADLOCK FALSE
