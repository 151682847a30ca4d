\* Two scheduled runs and one command on two instances; the lock lives two ticks.
SPECIFICATION FairSpec
CONSTANTS
  NoEntry = NoEntry
  Redis = Redis
  Instances = {i1, i2}
  JobRuns = {j1, j2}
  CommandRuns = {c1}
  NoTier = NoTier
  Ttl = 2
INVARIANT TypeOK
INVARIANT OverlapNeedsOverrun
INVARIANT OnlyFaultsLeak
PROPERTY EntryIsItsHoldersOwn
PROPERTY LeftoversExpire
CHECK_DEADLOCK FALSE
