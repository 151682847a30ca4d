\* The effect of a token is not protected by the transaction that consumes it.
SPECIFICATION Spec
CONSTANTS
  Tokens = {t1, t2}
  Requests = {r1, r2, r3}
  NoRequest = NoRequest
  MaxAttempts = 2
CHECK_DEADLOCK FALSE
INVARIANT EffectAtMostOnce
