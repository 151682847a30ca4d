\* Two editors, three calls, one extra round in a contended claim.
SPECIFICATION FairSpec
CONSTANTS
  NoEntry = NoEntry
  Users = {u1, u2}
  Requests = {r1, r2, r3}
  NoRequest = NoRequest
  Retries = 1
  LockTtl = 2
INVARIANT TypeOK
INVARIANT DenialHasReason
PROPERTY NoHandover
PROPERTY OnlyOwnReleased
PROPERTY ClaimsExpire
CHECK_DEADLOCK FALSE
