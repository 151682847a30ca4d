--------------------------- MODULE TaskLockProofs ---------------------------
(***************************************************************************)
(* Proofs about TaskLock, for any instances, runs and TTL. The argument is *)
(* HolderHasEntry: until its time is up, a run that was granted the lock   *)
(* has its own entry in the tier that granted it, with what is left of the *)
(* TTL; a key has one entry, so one such run.                              *)
(***************************************************************************)
EXTENDS TaskLock, TLAPS

(* The lock is granted by Redis or by the run's own instance, and a run    *)
(* that has not been granted it has no age.                                *)
GrantsAreLocal ==
  \A r \in JobRuns :
    /\ grantedBy[r] \in {NoTier, Redis, home[r]}
    /\ pc[r] \in Holding => grantedBy[r] # NoTier
    /\ pc[r] \in {"idle", "acquire", "acquireAgain"} => age[r] = 0

HolderHasEntry ==
  \A r \in JobRuns :
    pc[r] \in {"granted", "work", "release"} /\ ~ Overran(r) =>
      /\ Holds(cache[grantedBy[r]], r)
      /\ cache[grantedBy[r]].left = Ttl - age[r]

(* A run without trouble has its entry in Redis only, while it holds it. *)
UndisturbedIsPlain ==
  \A r \in JobRuns : r \notin disturbed =>
    /\ pc[r] \notin {"acquireAgain", "releaseAgain", "dead"}
    /\ \A k \in Tiers : Holds(cache[k], r) =>
         k = Redis /\ pc[r] \in {"granted", "work", "release"}

IInv == TypeOK /\ GrantsAreLocal /\ HolderHasEntry /\ UndisturbedIsPlain
------------------------------------------------------------------------------
(* A write leaves an entry of the same values within the same TTL. *)
LEMMA WritesKeepType ==
  ASSUME NEW values, NEW ttl \in Nat, NEW v \in values, NEW w,
         NEW e \in Entry(values, ttl) \cup {NoEntry}
  PROVE  /\ Fresh(v, ttl) \in Entry(values, ttl)
         /\ AfterSetIfAbsent(e, v, ttl) \in Entry(values, ttl) \cup {NoEntry}
         /\ AfterCompareAndSet(e, w, v, ttl) \in Entry(values, ttl) \cup {NoEntry}
<1>1. Fresh(v, ttl) \in Entry(values, ttl)
  BY DEF Fresh, Entry
<1> QED
  BY <1>1 DEF AfterSetIfAbsent, AfterCompareAndSet

(* So does the passing of time. *)
LEMMA TickKeepsType ==
  ASSUME NEW values, NEW ttl \in Nat, NEW e \in Entry(values, ttl) \cup {NoEntry}
  PROVE  AfterTick(e) \in Entry(values, ttl) \cup {NoEntry}
<1>1. CASE e = NoEntry
  BY <1>1 DEF AfterTick
<1>2. CASE e # NoEntry
  <2>1. e \in [value : values, left : 0..ttl]
    BY <1>2 DEF Entry
  <2>2. e.left \notin {0, 1} => [e EXCEPT !.left = @ - 1] \in [value : values, left : 0..ttl]
    BY <2>1
  <2> QED
    BY <2>1, <2>2 DEF AfterTick, Entry
<1> QED
  BY <1>1, <1>2

(* Time takes an entry away only when its last unit is up; before that the  *)
(* value stays and the entry is one unit closer to its end.                 *)
LEMMA TickAges ==
  ASSUME NEW values, NEW ttl \in Nat, NEW e \in Entry(values, ttl), e # NoEntry,
         NoEntry \notin Entry(values, ttl)
  PROVE  /\ AfterTick(e) = NoEntry <=> e.left = 1
         /\ e.left = 0 => AfterTick(e) = e
         /\ e.left > 1 => AfterTick(e).value = e.value /\ AfterTick(e).left = e.left - 1
<1>1. e \in [value : values, left : 0..ttl]
  BY DEF Entry
<1>2. CASE e.left \in {0, 1}
  BY <1>1, <1>2 DEF AfterTick
<1>3. CASE e.left > 1
  <2>1. AfterTick(e) = [e EXCEPT !.left = e.left - 1]
    BY <1>1, <1>3 DEF AfterTick
  <2>2. /\ AfterTick(e).value = e.value
        /\ AfterTick(e).left = e.left - 1
        /\ AfterTick(e) \in Entry(values, ttl)
    BY <1>1, <1>3, <2>1 DEF Entry
  <2> QED
    BY <1>3, <2>2
<1> QED
  BY <1>1, <1>2, <1>3

------------------------------------------------------------------------------
(* Types are preserved by every step. *)
LEMMA TypeIsKept ==
  ASSUME TypeOK, [Next]_vars
  PROVE  TypeOK'
<1> USE TaskAssumption DEF TypeOK, Labels, Holding, Over, Runs, Tiers, vars
<1> DEFINE Slot == Entry(JobRuns, Ttl) \cup {NoEntry}
<1>1. ASSUME NEW r \in Runs, Start(r) PROVE TypeOK'
  BY <1>1 DEF Start, Goto
<1>2. ASSUME NEW r \in JobRuns, NEW k \in Tiers, AcquireOn(r, k)
      PROVE  /\ cache' \in [Tiers -> Slot]
             /\ pc' \in [Runs -> Labels]
             /\ grantedBy' \in [Runs -> Tiers \cup {NoTier}]
  <2>1. AfterSetIfAbsent(cache[k], r, Ttl) \in Slot
    BY WritesKeepType
  <2> HIDE DEF Slot
  <2> QED
    BY <1>2, <2>1 DEF AcquireOn, Goto, Slot
<1>3. ASSUME NEW r \in JobRuns, AcquireOnPrimary(r) PROVE TypeOK'
  <2>1. CASE AcquireOn(r, Redis) /\ UNCHANGED disturbed
    BY <1>2, <1>3, <2>1 DEF AcquireOnPrimary
  <2>2. CASE FailOnRedis(r, AfterSetIfAbsent(cache[Redis], r, Ttl))
             /\ Goto(r, "acquireAgain") /\ UNCHANGED grantedBy
    <3>1. AfterSetIfAbsent(cache[Redis], r, Ttl) \in Slot
      BY WritesKeepType
    <3> HIDE DEF Slot
    <3> QED
      BY <1>3, <2>2, <3>1 DEF AcquireOnPrimary, FailOnRedis, Goto, Slot
  <2> QED
    BY <1>3, <2>1, <2>2 DEF AcquireOnPrimary
<1>4. ASSUME NEW r \in JobRuns, AcquireOnFallback(r) PROVE TypeOK'
  BY <1>2, <1>4 DEF AcquireOnFallback
<1>5. ASSUME NEW r \in JobRuns, Begin(r) PROVE TypeOK'
  BY <1>5 DEF Begin, Goto
<1>6. ASSUME NEW r \in Runs, Finish(r) PROVE TypeOK'
  BY <1>6 DEF Finish, Goto
<1>7. ASSUME NEW r \in JobRuns, ReleaseOnPrimary(r) PROVE TypeOK'
  <2>1. AfterCompareAndDelete(cache[Redis], r) \in Slot
    BY DEF AfterCompareAndDelete
  <2> HIDE DEF Slot
  <2> QED
    BY <1>7, <2>1 DEF ReleaseOnPrimary, FailOnRedis, Goto, Slot
<1>8. ASSUME NEW r \in JobRuns, ReleaseOnFallback(r) PROVE TypeOK'
  <2>1. AfterCompareAndDelete(cache[home[r]], r) \in Slot
    BY DEF AfterCompareAndDelete
  <2> HIDE DEF Slot
  <2> QED
    BY <1>8, <2>1 DEF ReleaseOnFallback, Goto, Slot
<1>9. ASSUME NEW i \in Instances, Crash(i) PROVE TypeOK'
  BY <1>9 DEF Crash
<1>10. ASSUME Tick PROVE TypeOK'
  <2>1. ASSUME NEW k \in Tiers PROVE AfterTick(cache[k]) \in Slot
    BY TickKeepsType
  <2> HIDE DEF Slot
  <2> QED
    BY <1>10, <2>1 DEF Tick, Slot
<1>11. CASE UNCHANGED vars
  BY <1>11
<1> QED
  BY <1>1, <1>3, <1>4, <1>5, <1>6, <1>7, <1>8, <1>9, <1>10, <1>11 DEF Next

(* The lock stays granted by Redis or the run's instance. *)
LEMMA GrantsStayLocal ==
  ASSUME TypeOK, GrantsAreLocal, [Next]_vars
  PROVE  GrantsAreLocal'
<1> USE TaskAssumption DEF TypeOK, GrantsAreLocal, Labels, Holding, Over, Runs, Tiers, vars
<1>1. ASSUME NEW r \in Runs, Start(r) \/ Finish(r) PROVE GrantsAreLocal'
  BY <1>1 DEF Start, Finish, Goto
<1>2. ASSUME NEW r \in JobRuns, AcquireOnPrimary(r) PROVE GrantsAreLocal'
  BY <1>2 DEF AcquireOnPrimary, AcquireOn, FailOnRedis, Goto
<1>3. ASSUME NEW r \in JobRuns, AcquireOnFallback(r) PROVE GrantsAreLocal'
  BY <1>3 DEF AcquireOnFallback, AcquireOn, Goto
<1>4. ASSUME NEW r \in JobRuns, Begin(r) PROVE GrantsAreLocal'
  BY <1>4 DEF Begin, Goto
<1>5. ASSUME NEW r \in JobRuns, ReleaseOnPrimary(r) \/ ReleaseOnFallback(r) PROVE GrantsAreLocal'
  BY <1>5 DEF ReleaseOnPrimary, ReleaseOnFallback, FailOnRedis, Goto
<1>6. ASSUME NEW i \in Instances, Crash(i) PROVE GrantsAreLocal'
  BY <1>6 DEF Crash
<1>7. CASE Tick
  BY <1>7 DEF Tick
<1>8. CASE UNCHANGED vars
  BY <1>8
<1> QED
  BY <1>1, <1>2, <1>3, <1>4, <1>5, <1>6, <1>7, <1>8 DEF Next

(* A run within its TTL keeps its entry, one unit of time after another. *)
LEMMA HolderKeepsEntry ==
  ASSUME TypeOK, GrantsAreLocal, HolderHasEntry, [Next]_vars
  PROVE  HolderHasEntry'
<1> SUFFICES ASSUME NEW s \in JobRuns,
                    pc'[s] \in {"granted", "work", "release"}, ~ Overran(s)'
             PROVE  /\ Holds(cache'[grantedBy'[s]], s)
                    /\ cache'[grantedBy'[s]].left = Ttl - age'[s]
  BY DEF HolderHasEntry
<1> DEFINE held == pc[s] \in {"granted", "work", "release"} /\ ~ Overran(s)
<1> USE TaskAssumption DEF TypeOK, GrantsAreLocal, Labels, Holding, Over, Runs, Tiers, vars, Overran
<1>h. held => /\ Holds(cache[grantedBy[s]], s)
              /\ cache[grantedBy[s]].left = Ttl - age[s]
  BY DEF HolderHasEntry
<1>k. ASSUME held, age'[s] = age[s], grantedBy'[s] = grantedBy[s],
             cache'[grantedBy[s]] = cache[grantedBy[s]]
      PROVE  /\ Holds(cache'[grantedBy'[s]], s)
             /\ cache'[grantedBy'[s]].left = Ttl - age'[s]
  BY <1>h, <1>k
<1>1. CASE \E r \in Runs : Start(r) \/ Finish(r)
  <2>1. held /\ age' = age /\ grantedBy' = grantedBy /\ cache' = cache
    BY <1>1 DEF Start, Finish, Goto
  <2> QED
    BY <1>k, <2>1
<1>2. ASSUME NEW r \in JobRuns, NEW k \in Tiers, pc[r] \in {"acquire", "acquireAgain"},
             AcquireOn(r, k), age' = age
      PROVE  /\ Holds(cache'[grantedBy'[s]], s)
             /\ cache'[grantedBy'[s]].left = Ttl - age'[s]
  <2>1. CASE s = r
    <3>1. cache' = [cache EXCEPT ![k] = AfterSetIfAbsent(cache[k], r, Ttl)]
          /\ cache[k] = NoEntry /\ grantedBy'[s] = k
      BY <1>2, <2>1 DEF AcquireOn, Goto
    <3>2. cache'[k] = Fresh(r, Ttl) /\ cache'[k] # NoEntry
      BY <3>1, WritesKeepType DEF AfterSetIfAbsent
    <3>3. age'[s] = 0
      BY <1>2, <2>1
    <3> QED
      BY <2>1, <3>1, <3>2, <3>3 DEF Fresh, Holds
  <2>2. CASE s # r
    <3>1. held /\ grantedBy'[s] = grantedBy[s]
      BY <1>2, <2>2 DEF AcquireOn, Goto
    <3>2. cache'[grantedBy[s]] = cache[grantedBy[s]]
      BY <1>2, <1>h, <3>1 DEF AcquireOn, Holds
    <3> QED
      BY <1>2, <1>k, <3>1, <3>2
  <2> QED
    BY <2>1, <2>2
<1>3. ASSUME NEW r \in JobRuns, AcquireOnPrimary(r)
      PROVE  /\ Holds(cache'[grantedBy'[s]], s)
             /\ cache'[grantedBy'[s]].left = Ttl - age'[s]
  <2>1. CASE AcquireOn(r, Redis)
    BY <1>2, <1>3, <2>1 DEF AcquireOnPrimary
  <2>2. CASE FailOnRedis(r, AfterSetIfAbsent(cache[Redis], r, Ttl))
             /\ Goto(r, "acquireAgain") /\ UNCHANGED grantedBy
    <3>1. held /\ age' = age /\ grantedBy' = grantedBy
      BY <1>3, <2>2 DEF AcquireOnPrimary, Goto
    <3>2. cache'[grantedBy[s]] = cache[grantedBy[s]]
      BY <2>2, <1>h, <3>1 DEF FailOnRedis, Holds, AfterSetIfAbsent
    <3> QED
      BY <1>k, <3>1, <3>2
  <2> QED
    BY <1>3, <2>1, <2>2 DEF AcquireOnPrimary
<1>4. ASSUME NEW r \in JobRuns, AcquireOnFallback(r)
      PROVE  /\ Holds(cache'[grantedBy'[s]], s)
             /\ cache'[grantedBy'[s]].left = Ttl - age'[s]
  BY <1>2, <1>4 DEF AcquireOnFallback
<1>5. CASE \E r \in JobRuns : Begin(r)
  <2>1. held /\ age' = age /\ grantedBy' = grantedBy /\ cache' = cache
    BY <1>5 DEF Begin, Goto
  <2> QED
    BY <1>k, <2>1
<1>6. ASSUME NEW r \in JobRuns, ReleaseOnPrimary(r) \/ ReleaseOnFallback(r)
      PROVE  /\ Holds(cache'[grantedBy'[s]], s)
             /\ cache'[grantedBy'[s]].left = Ttl - age'[s]
  <2>1. held /\ s # r /\ age' = age /\ grantedBy' = grantedBy
    BY <1>6 DEF ReleaseOnPrimary, ReleaseOnFallback, Goto
  <2>2. cache'[grantedBy[s]] = cache[grantedBy[s]]
    BY <1>6, <1>h, <2>1
    DEF ReleaseOnPrimary, ReleaseOnFallback, FailOnRedis, AfterCompareAndDelete, Holds
  <2> QED
    BY <1>k, <2>1, <2>2
<1>7. ASSUME NEW i \in Instances, Crash(i)
      PROVE  /\ Holds(cache'[grantedBy'[s]], s)
             /\ cache'[grantedBy'[s]].left = Ttl - age'[s]
  <2>1. held /\ age' = age /\ grantedBy' = grantedBy /\ home[s] # i
    BY <1>7 DEF Crash
  <2>2. cache'[grantedBy[s]] = cache[grantedBy[s]]
    BY <1>7, <2>1 DEF Crash
  <2> QED
    BY <1>k, <2>1, <2>2
<1>8. CASE Tick
  <2>1. held /\ grantedBy'[s] = grantedBy[s] /\ grantedBy[s] \in Tiers
    BY <1>8 DEF Tick
  <2> DEFINE e == cache[grantedBy[s]]
  <2>2. e \in Entry(JobRuns, Ttl) /\ e # NoEntry /\ e.value = s /\ e.left = Ttl - age[s]
    BY <1>h, <2>1 DEF Holds
  <2>3. cache'[grantedBy[s]] = AfterTick(e)
    BY <1>8, <2>1 DEF Tick
  <2>4. CASE Ttl = 0
    <3>1. e.left = 0 /\ age'[s] = age[s]
      BY <1>8, <2>1, <2>2, <2>4 DEF Tick
    <3> QED
      BY <1>h, <2>1, <2>2, <2>3, <3>1 DEF AfterTick
  <2>5. CASE Ttl > 0
    <3>1. age'[s] = age[s] + 1 /\ age[s] \in 0..Ttl /\ age'[s] \in 0..Ttl /\ age'[s] # Ttl
      BY <1>8, <2>1, <2>5, TypeIsKept DEF Tick
    <3>2. e.left > 1
      BY <2>2, <3>1
    <3>3. AfterTick(e).value = s /\ AfterTick(e).left = Ttl - age'[s] /\ AfterTick(e) # NoEntry
      BY <2>2, <3>1, <3>2, TickAges
    <3> QED
      BY <2>1, <2>3, <3>3 DEF Holds
  <2> QED
    BY <2>4, <2>5
<1>9. CASE UNCHANGED vars
  BY <1>9, <1>h
<1> QED
  BY <1>1, <1>3, <1>4, <1>5, <1>6, <1>7, <1>8, <1>9 DEF Next

(* Until it meets a fault, a run's lock is where withLock put it. *)
LEMMA UndisturbedStaysPlain ==
  ASSUME TypeOK, UndisturbedIsPlain, [Next]_vars
  PROVE  UndisturbedIsPlain'
<1> USE TaskAssumption DEF TypeOK, UndisturbedIsPlain, Labels, Holding, Over, Runs, Tiers, vars
<1>1. ASSUME NEW r \in Runs, Start(r) \/ Finish(r) PROVE UndisturbedIsPlain'
  BY <1>1 DEF Start, Finish, Goto
<1>2. ASSUME NEW r \in JobRuns, AcquireOnPrimary(r) PROVE UndisturbedIsPlain'
  BY <1>2 DEF AcquireOnPrimary, AcquireOn, FailOnRedis, Goto, AfterSetIfAbsent, Fresh, Holds
<1>3. ASSUME NEW r \in JobRuns, AcquireOnFallback(r) PROVE UndisturbedIsPlain'
  BY <1>3 DEF AcquireOnFallback, AcquireOn, Goto, AfterSetIfAbsent, Fresh, Holds
<1>4. ASSUME NEW r \in JobRuns, Begin(r) PROVE UndisturbedIsPlain'
  BY <1>4 DEF Begin, Goto
<1>5. ASSUME NEW r \in JobRuns, ReleaseOnPrimary(r) \/ ReleaseOnFallback(r)
      PROVE  UndisturbedIsPlain'
  BY <1>5 DEF ReleaseOnPrimary, ReleaseOnFallback, FailOnRedis, Goto, AfterCompareAndDelete, Holds
<1>6. ASSUME NEW i \in Instances, Crash(i) PROVE UndisturbedIsPlain'
  BY <1>6 DEF Crash, Holds
<1>7. CASE Tick
  <2>1. ASSUME NEW k \in Tiers, NEW r \in JobRuns, Holds(cache'[k], r)
        PROVE  Holds(cache[k], r)
    BY <1>7, <2>1 DEF Tick, AfterTick, Holds, Entry
  <2> QED
    BY <1>7, <2>1 DEF Tick
<1>8. CASE UNCHANGED vars
  BY <1>8 DEF Holds
<1> QED
  BY <1>1, <1>2, <1>3, <1>4, <1>5, <1>6, <1>7, <1>8 DEF Next
------------------------------------------------------------------------------
(* The inductive invariant holds in every reachable state. *)
LEMMA InvariantHolds == Spec => []IInv
<1>1. Init => IInv
  <2> SUFFICES ASSUME Init PROVE IInv
    OBVIOUS
  <2> USE TaskAssumption DEF Init, Holding, Over, Runs, Tiers
  <2>1. TypeOK
    BY DEF TypeOK, Labels
  <2>2. GrantsAreLocal /\ HolderHasEntry /\ UndisturbedIsPlain
    BY DEF GrantsAreLocal, HolderHasEntry, UndisturbedIsPlain, Holds
  <2> QED
    BY <2>1, <2>2 DEF IInv
<1>2. IInv /\ [Next]_vars => IInv'
  BY TypeIsKept, GrantsStayLocal, HolderKeepsEntry, UndisturbedStaysPlain DEF IInv
<1> QED
  BY <1>1, <1>2, PTL DEF Spec

(* Every reachable state of the task lock is well typed: in particular no    *)
(* entry ever has more time left than the TTL it was stored with.            *)
THEOREM TypeCorrect == Spec => []TypeOK
<1>1. IInv => TypeOK
  BY DEF IInv
<1> QED
  BY <1>1, InvariantHolds, PTL

(* However many instances and runs there are, two scheduled runs that one    *)
(* tier granted the lock do the task at once only when one has outlived its  *)
(* TTL; with no TTL, never.                                                  *)
THEOREM MutualExclusionWithinTtl == Spec => []OverlapNeedsOverrun
<1>1. IInv => OverlapNeedsOverrun
  <2> SUFFICES ASSUME IInv, NEW r \in JobRuns, NEW s \in JobRuns,
                      r # s, Working(r), Working(s), grantedBy[r] = grantedBy[s],
                      ~ Overran(r), ~ Overran(s)
               PROVE  FALSE
    BY DEF OverlapNeedsOverrun
  <2>1. Holds(cache[grantedBy[r]], r) /\ Holds(cache[grantedBy[s]], s)
    BY DEF IInv, HolderHasEntry, Working
  <2> QED
    BY <2>1 DEF Holds
<1> QED
  BY <1>1, InvariantHolds, PTL

(* A run that met no Redis error and was not killed leaves no lock behind,   *)
(* whether its work succeeded, threw or was skipped.                         *)
THEOREM FaultlessRunsLeaveNothing == Spec => []OnlyFaultsLeak
<1>1. IInv => OnlyFaultsLeak
  BY DEF IInv, OnlyFaultsLeak, UndisturbedIsPlain
<1> QED
  BY <1>1, InvariantHolds, PTL

(* No run ever takes away another run's lock: an entry ends by its holder's  *)
(* release, by its own expiry, or with the instance whose memory it was in.  *)
THEOREM ReleaseIsOwn == Spec => EntryIsItsHoldersOwn
<1> DEFINE Own == \A k \in Tiers, r \in JobRuns :
                    Holds(cache[k], r) /\ ~ Holds(cache'[k], r) =>
                      \/ pc[r] \in {"release", "releaseAgain"} /\ pc'[r] # pc[r]
                      \/ cache[k].left = 1
                      \/ k \in Instances /\ cache' = [cache EXCEPT ![k] = NoEntry]
<1>1. ASSUME TypeOK, [Next]_vars PROVE Own
  <2> SUFFICES ASSUME NEW k \in Tiers, NEW r \in JobRuns,
                      Holds(cache[k], r), ~ Holds(cache'[k], r)
               PROVE  \/ pc[r] \in {"release", "releaseAgain"} /\ pc'[r] # pc[r]
                      \/ cache[k].left = 1
                      \/ k \in Instances /\ cache' = [cache EXCEPT ![k] = NoEntry]
    OBVIOUS
  <2> USE <1>1, TaskAssumption DEF TypeOK, Labels, Holding, Over, Runs, Tiers, vars
  <2>1. CASE \E s \in Runs : Start(s) \/ Finish(s)
    BY <2>1 DEF Start, Finish
  <2>2. ASSUME NEW s \in JobRuns, AcquireOnPrimary(s) \/ AcquireOnFallback(s) \/ Begin(s)
        PROVE  FALSE
    BY <2>2 DEF AcquireOnPrimary, AcquireOnFallback, AcquireOn, FailOnRedis, Begin,
                AfterSetIfAbsent, Holds
  <2>3. ASSUME NEW s \in JobRuns, ReleaseOnPrimary(s) \/ ReleaseOnFallback(s)
        PROVE  s = r /\ pc[s] \in {"release", "releaseAgain"} /\ pc'[s] # pc[s]
    BY <2>3 DEF ReleaseOnPrimary, ReleaseOnFallback, FailOnRedis, Goto,
                AfterCompareAndDelete, Holds
  <2>4. ASSUME NEW i \in Instances, Crash(i)
        PROVE  k \in Instances /\ cache' = [cache EXCEPT ![k] = NoEntry]
    BY <2>4 DEF Crash, Holds
  <2>5. ASSUME Tick PROVE cache[k].left = 1
    <3>1. cache[k] \in Entry(JobRuns, Ttl) /\ cache[k] # NoEntry /\ cache[k].value = r
      BY DEF Holds
    <3>2. cache[k].left \in 0..Ttl
      BY <3>1 DEF Entry
    <3>3. cache'[k] = AfterTick(cache[k]) /\ ~ Holds(cache'[k], r)
      BY <2>5 DEF Tick
    <3>4. AfterTick(cache[k]) = NoEntry \/ AfterTick(cache[k]).value = r => cache[k].left = 1
      BY <3>1, <3>2, <3>3, TickAges DEF Holds
    <3> QED
      BY <3>1, <3>2, <3>4, TickAges
  <2>6. CASE UNCHANGED vars
    BY <2>6 DEF Holds
  <2> QED
    BY <2>1, <2>2, <2>3, <2>4, <2>5, <2>6 DEF Next
<1>2. ASSUME IInv, [Next]_vars PROVE [Own]_vars
  BY <1>1, <1>2 DEF IInv
<1> QED
  BY <1>2, InvariantHolds, PTL DEF Spec, EntryIsItsHoldersOwn
==============================================================================
