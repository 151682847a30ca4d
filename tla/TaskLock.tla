------------------------------- MODULE TaskLock -------------------------------
(***************************************************************************)
(* A maintenance task under LockService.withLock: scheduled runs on several *)
(* application instances, the manual command that does the same work, and   *)
(* the lock entry in the failover cache (Redis first, then a map private to *)
(* the instance).                                                           *)
(*                                                                          *)
(* A call to Redis can succeed, fail before it reaches the server, or fail  *)
(* after the server has applied it: in both failures FailoverCacheDriver    *)
(* replays the same operation on the instance's own map.                    *)
(***************************************************************************)
EXTENDS CacheEntry, FiniteSets

CONSTANTS
  Redis,         \* the primary tier, shared by all instances
  Instances,     \* processes, each with its own fallback tier
  JobRuns,       \* executions of the scheduled job
  CommandRuns,   \* executions of the ace command for the same task
  NoTier,        \* "no tier has granted the lock"
  Ttl            \* lockTtlSeconds; 0 holds the lock until it is released

ASSUME TaskAssumption ==
  /\ Redis \notin Instances
  /\ NoTier \notin Instances \cup {Redis}
  /\ JobRuns \cap CommandRuns = {}
  /\ Ttl \in Nat
  /\ NoEntry \notin Entry(JobRuns, Ttl)

VARIABLES
  cache,         \* the lock's entry in each tier
  pc,            \* where each run is
  home,          \* the instance a job run executes on
  grantedBy,     \* the tier whose setIfAbsent said yes
  age,           \* time since then, up to Ttl
  disturbed      \* history: runs that met a Redis error or died with their instance

vars == <<cache, pc, home, grantedBy, age, disturbed>>

Tiers == Instances \cup {Redis}
Runs == JobRuns \cup CommandRuns

Init ==
  /\ cache = [k \in Tiers |-> NoEntry]
  /\ pc = [r \in Runs |-> "idle"]
  /\ home \in [JobRuns -> Instances]
  /\ grantedBy = [r \in Runs |-> NoTier]
  /\ age = [r \in Runs |-> 0]
  /\ disturbed = {}

Goto(r, label) == pc' = [pc EXCEPT ![r] = label]

(* The scheduled job goes through withLock; the command calls the action. *)
Start(r) ==
  /\ pc[r] = "idle"
  /\ Goto(r, IF r \in JobRuns THEN "acquire" ELSE "work")
  /\ UNCHANGED <<cache, home, grantedBy, age, disturbed>>

(* setIfAbsent on tier k gives the run the lock, or tells it to skip. *)
AcquireOn(r, k) ==
  \/ /\ cache[k] = NoEntry
     /\ cache' = [cache EXCEPT ![k] = AfterSetIfAbsent(@, r, Ttl)]
     /\ grantedBy' = [grantedBy EXCEPT ![r] = k]
     /\ Goto(r, "granted")
  \/ /\ cache[k] # NoEntry
     /\ Goto(r, "skipped")
     /\ UNCHANGED <<cache, grantedBy>>

(* The operation fails on Redis, where it may have been applied. *)
FailOnRedis(r, applied) ==
  /\ \E e \in {cache[Redis], applied} : cache' = [cache EXCEPT ![Redis] = e]
  /\ disturbed' = disturbed \cup {r}

(* Deviation: setIfAbsent is get, then set. *)
AcquireOverwriting(r) ==
  /\ pc[r] = "acquire"
  /\ cache' = [cache EXCEPT ![Redis] = Fresh(r, Ttl)]
  /\ grantedBy' = [grantedBy EXCEPT ![r] = Redis]
  /\ Goto(r, "granted")
  /\ UNCHANGED <<home, age, disturbed>>

(* Deviation: the TTL is not passed on. *)
AcquireForever(r) ==
  /\ pc[r] = "acquire"
  /\ cache[Redis] = NoEntry
  /\ cache' = [cache EXCEPT ![Redis] = Fresh(r, 0)]
  /\ grantedBy' = [grantedBy EXCEPT ![r] = Redis]
  /\ Goto(r, "granted")
  /\ UNCHANGED <<home, age, disturbed>>

AcquireOnPrimary(r) ==
  /\ pc[r] = "acquire"
  /\ \/ AcquireOn(r, Redis) /\ UNCHANGED disturbed
     \/ /\ FailOnRedis(r, AfterSetIfAbsent(cache[Redis], r, Ttl))
        /\ Goto(r, "acquireAgain")
        /\ UNCHANGED grantedBy
  /\ UNCHANGED <<home, age>>

AcquireOnFallback(r) ==
  /\ pc[r] = "acquireAgain"
  /\ AcquireOn(r, home[r])
  /\ UNCHANGED <<home, age, disturbed>>

(* The answer has arrived, and fn starts. *)
Begin(r) ==
  /\ pc[r] = "granted"
  /\ Goto(r, "work")
  /\ UNCHANGED <<cache, home, grantedBy, age, disturbed>>

(* Deviation: no finally, a throwing fn leaves the lock where it is. *)
FinishForgetting(r) ==
  /\ pc[r] = "work"
  /\ \E label \in {"release", "done"} : Goto(r, label)
  /\ UNCHANGED <<cache, home, grantedBy, age, disturbed>>

(* fn returns or throws: the finally block of withLock is next. *)
Finish(r) ==
  /\ pc[r] = "work"
  /\ Goto(r, IF r \in JobRuns THEN "release" ELSE "done")
  /\ UNCHANGED <<cache, home, grantedBy, age, disturbed>>

(* Deviation: delete instead of compareAndDelete. *)
ReleaseAnyone(r) ==
  /\ pc[r] = "release"
  /\ cache' = [cache EXCEPT ![Redis] = NoEntry]
  /\ Goto(r, "done")
  /\ UNCHANGED <<home, grantedBy, age, disturbed>>

ReleaseOnPrimary(r) ==
  /\ pc[r] = "release"
  /\ LET released == AfterCompareAndDelete(cache[Redis], r)
     IN \/ /\ cache' = [cache EXCEPT ![Redis] = released]
           /\ Goto(r, "done")
           /\ UNCHANGED disturbed
        \/ /\ FailOnRedis(r, released)
           /\ Goto(r, "releaseAgain")
  /\ UNCHANGED <<home, grantedBy, age>>

ReleaseOnFallback(r) ==
  /\ pc[r] = "releaseAgain"
  /\ cache' = [cache EXCEPT ![home[r]] = AfterCompareAndDelete(@, r)]
  /\ Goto(r, "done")
  /\ UNCHANGED <<home, grantedBy, age, disturbed>>

------------------------------------------------------------------------------
(* The world around *)

Over == {"skipped", "done", "dead"}
Holding == {"granted", "work", "release", "releaseAgain"}

(* An instance stops: its runs die where they are and its map is lost. *)
Crash(i) ==
  LET hit == {r \in JobRuns : home[r] = i /\ pc[r] \notin Over \cup {"idle"}}
  IN /\ hit # {} \/ cache[i] # NoEntry
     /\ cache' = [cache EXCEPT ![i] = NoEntry]
     /\ pc' = [r \in Runs |-> IF r \in hit THEN "dead" ELSE pc[r]]
     /\ disturbed' = disturbed \cup hit
     /\ UNCHANGED <<home, grantedBy, age>>

(* Time passes for every entry, and for every run that was granted the lock. *)
Tick ==
  /\ cache' = [k \in Tiers |-> AfterTick(cache[k])]
  /\ age' = [r \in Runs |-> IF grantedBy[r] # NoTier /\ pc[r] \in Holding /\ age[r] < Ttl
                            THEN age[r] + 1 ELSE age[r]]
  /\ UNCHANGED <<pc, home, grantedBy, disturbed>>

Next ==
  \/ \E r \in Runs : Start(r) \/ Finish(r)
  \/ \E r \in JobRuns :
       \/ AcquireOnPrimary(r) \/ AcquireOnFallback(r) \/ Begin(r)
       \/ ReleaseOnPrimary(r) \/ ReleaseOnFallback(r)
  \/ \E i \in Instances : Crash(i)
  \/ Tick

Spec == Init /\ [][Next]_vars

(* Time passes; nothing else is owed. *)
FairSpec == Spec /\ WF_vars(Tick)

------------------------------------------------------------------------------
(* Properties *)

Labels == {"idle", "acquire", "acquireAgain"} \cup Holding \cup Over

(* Every variable has its type. *)
TypeOK ==
  /\ cache \in [Tiers -> Entry(JobRuns, Ttl) \cup {NoEntry}]
  /\ pc \in [Runs -> Labels]
  /\ home \in [JobRuns -> Instances]
  /\ grantedBy \in [Runs -> Tiers \cup {NoTier}]
  /\ age \in [Runs -> 0..Ttl]
  /\ disturbed \subseteq Runs

Working(r) == pc[r] = "work"

(* The run has outlived the TTL of its lock, which is never renewed. *)
Overran(r) == Ttl > 0 /\ age[r] = Ttl

(* What the lock is worth: two scheduled runs do the task at once only if   *)
(* one of them has outlived its TTL, or they got the lock from different    *)
(* tiers of the cache. Lost replies and crashes make no other exception.    *)
OverlapNeedsOverrun ==
  \A r, s \in JobRuns :
    r # s /\ Working(r) /\ Working(s) /\ grantedBy[r] = grantedBy[s] => Overran(r) \/ Overran(s)

(* A lock is left behind only by a run that met a Redis error or was killed: *)
(* fn throwing, or another run's refusal, never leaks it.                    *)
OnlyFaultsLeak ==
  \A k \in Tiers, r \in JobRuns :
    Holds(cache[k], r) /\ r \notin disturbed => pc[r] \in {"granted", "work", "release"}

(* While a run's entry is in a tier, only that run's release, the passing of  *)
(* time or the death of the tier can take it away: a run that wakes up after  *)
(* its lock went to another one does not release the other's.                 *)
EntryIsItsHoldersOwn ==
  [][\A k \in Tiers, r \in JobRuns :
       Holds(cache[k], r) /\ ~ Holds(cache'[k], r) =>
         \/ pc[r] \in {"release", "releaseAgain"} /\ pc'[r] # pc[r]
         \/ cache[k].left = 1
         \/ k \in Instances /\ cache' = [cache EXCEPT ![k] = NoEntry]]_vars

(* Whatever left a lock behind, the task can be run again: the entry of a     *)
(* run that is over goes away by itself.                                      *)
LeftoversExpire ==
  \A k \in Tiers, r \in JobRuns :
    Holds(cache[k], r) /\ pc[r] \in Over ~> ~ Holds(cache[k], r)
==============================================================================
