\* Three concurrent requests, two tokens, a cap of two presentations.
SPECIFICATION FairSpec
CONSTANTS
  Tokens = {t1, t2}
  Requests = {r1, r2, r3}
  NoRequest = NoRequest
  MaxAttempts = 2
INVARIANT TypeOK
INVARIANT GuessesBounded
INVARIANT ConsumedAtMostOnce
INVARIANT EffectsAccounted
INVARIANT NewerSupersedesOlder
PROPERTY ImplementsCredential
PROPERTY RequestsEnd
CHECK_DEADLOCK FALSE
