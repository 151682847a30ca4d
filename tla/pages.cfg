SPECIFICATION Spec
CONSTANTS
    Requests = {r1, r2}
    KeepCount = 1
    MaxContents = 3
    MaxRevisions = 2
SYMMETRY Symmetry
INVARIANT OverwrittenIsKept
INVARIANT IndexIsCurrent
CHECK_DEADLOCK FALSE
