------------------------------ MODULE CacheEntry ------------------------------
(***************************************************************************)
(* One key of one cache tier, and what the CacheDriver operations do to    *)
(* it. RedisCacheDriver and InMemoryCacheDriver honour the same contract,  *)
(* each operation atomic within its tier; an expired entry is an absent    *)
(* one (Redis evicts it, the memory driver's alive() does).                *)
(*                                                                         *)
(* Here and in the modules built on this one, a definition introduced as a *)
(* deviation is not the code: it is a mistake one could make in the        *)
(* operation below it, which some property of the model would reveal.      *)
(***************************************************************************)
EXTENDS Naturals

CONSTANT NoEntry   \* the key is absent from the tier

(* A stored value and the time it has left; 0 means that it never expires. *)
Entry(values, ttl) == [value : values, left : 0..ttl]

(* Deviation: seconds taken for milliseconds. *)
FreshInMilliseconds(v, ttl) == [value |-> v, left |-> ttl * 1000]

(* What set() writes. *)
Fresh(v, ttl) == [value |-> v, left |-> ttl]

(* The entry is alive and its value is v. *)
Holds(e, v) == e # NoEntry /\ e.value = v

AfterSetIfAbsent(e, v, ttl) == IF e = NoEntry THEN Fresh(v, ttl) ELSE e

AfterCompareAndSet(e, expected, v, ttl) == IF Holds(e, expected) THEN Fresh(v, ttl) ELSE e

AfterCompareAndDelete(e, expected) == IF Holds(e, expected) THEN NoEntry ELSE e

(* Time passes: an entry whose time is up is gone. *)
AfterTick(e) ==
  IF e = NoEntry THEN NoEntry
  ELSE IF e.left = 0 THEN e
  ELSE IF e.left = 1 THEN NoEntry
  ELSE [e EXCEPT !.left = @ - 1]
==============================================================================
