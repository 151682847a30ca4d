\* Two editors, two calls.
SPECIFICATION Spec
CONSTANTS
  NoEntry = NoEntry
  Users = {u1, u2}
  Requests = {r1, r2}
  NoRequest = NoRequest
  Retries = 1
  LockTtl = 1
INVARIANT FocusKeepsField
CHECK_DEADLOCK FALSE
