\* Two changes and a visit on two processes, from a fresh deployment; Redis fails once,
\* or loses the stored value, and a process restarts once.
SPECIFICATION Spec
CONSTANTS
  NoEntry = NoEntry
  Processes = {p1, p2}
  Visits = {v1}
  Changes = {c1, c2}
  Operations = {"schedule", "toggle", "allowIp"}
  MaxTroubles = 1
  MaxRestarts = 1
SYMMETRY Symmetry
INVARIANT TypeOK
INVARIANT LostOnlyByOverlap
INVARIANT VerdictIsCurrent
INVARIANT WindowEnds
CHECK_DEADLOCK FALSE
