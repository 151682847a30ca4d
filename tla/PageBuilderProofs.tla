------------------------- MODULE PageBuilderProofs -------------------------
(***************************************************************************)
(* Proofs about the page builder: the locks on its fields, and the trees   *)
(* of its editors and previews.                                            *)
(*                                                                         *)
(* Field locks, for any users, requests, TTL and number of retries: a lock *)
(* is the mark of a finished claim, so that whoever has read it knows      *)
(* whose it is for good (ReadsAreOwn); and every race that a claim has     *)
(* lost, or is about to lose, was won by another change of the lock        *)
(* (LossesAreCounted).                                                     *)
(*                                                                         *)
(* Live editing, for any editors, previews, blocks and number of           *)
(* operations: every variable keeps its type.                              *)
(***************************************************************************)
EXTENDS FieldLocks, LiveEditing, FiniteSetTheorems, SequenceTheorems, Functions, TLAPS

-----------------------------------------------------------------------------
\* Field locks

(* A lock that is stored, or was read, is that of a finished claim, and the *)
(* one that was read is its reader's own.                                   *)
ReadsAreOwn ==
  /\ lock # NoEntry => pc[lock.value] = "done"
  /\ \A r \in Requests : seen[r] # NoRequest =>
       pc[r] # "idle" /\ pc[seen[r]] = "done" /\ by[seen[r]] = by[r]

(* A rival that holds the field has been noticed. *)
RivalsAreSeen ==
  \A r \in Requests : InFlight(r) /\ HeldAgainst(by[r]) => rival[r]

(* The rounds lost so far, and the one lost when what was read is stale. *)
Losses(r) ==
  IF \/ pc[r] = "claim" /\ lock # NoEntry
     \/ pc[r] = "renew" /\ ~ Holds(lock, seen[r])
  THEN tries[r] + 1 ELSE tries[r]

LossesAreCounted ==
  \A r \in Requests :
    /\ pc[r] = "idle" => tries[r] = 0
    /\ pc[r] \in {"claim", "renew"} => tries[r] <= Retries
    /\ InFlight(r) => Losses(r) <= turns[r]

(* Only a request that has ended has an answer. *)
AnswersEnd == \A r \in Requests : answer[r] # "none" => pc[r] = "done"

IInv ==
  /\ TypeOK /\ ReadsAreOwn /\ RivalsAreSeen /\ LossesAreCounted
  /\ AnswersEnd /\ DenialHasReason
------------------------------------------------------------------------------
(* A write leaves an entry of the same values within the same TTL. *)
LEMMA WritesKeepType ==
  ASSUME NEW values, NEW ttl \in Nat, NEW v \in values, NEW w,
         NEW e \in Entry(values, ttl) \cup {NoEntry}
  PROVE  /\ Fresh(v, ttl) \in Entry(values, ttl)
         /\ AfterSetIfAbsent(e, v, ttl) \in Entry(values, ttl) \cup {NoEntry}
         /\ AfterCompareAndSet(e, w, v, ttl) \in Entry(values, ttl) \cup {NoEntry}
<1>1. Fresh(v, ttl) \in Entry(values, ttl)
  BY DEF Fresh, Entry
<1> QED
  BY <1>1 DEF AfterSetIfAbsent, AfterCompareAndSet

(* So does the passing of time. *)
LEMMA TickKeepsType ==
  ASSUME NEW values, NEW ttl \in Nat, NEW e \in Entry(values, ttl) \cup {NoEntry}
  PROVE  AfterTick(e) \in Entry(values, ttl) \cup {NoEntry}
<1>1. CASE e = NoEntry
  BY <1>1 DEF AfterTick
<1>2. CASE e # NoEntry
  <2>1. e \in [value : values, left : 0..ttl]
    BY <1>2 DEF Entry
  <2>2. e.left \notin {0, 1} => [e EXCEPT !.left = @ - 1] \in [value : values, left : 0..ttl]
    BY <2>1
  <2> QED
    BY <2>1, <2>2 DEF AfterTick, Entry
<1> QED
  BY <1>1, <1>2

(* Time takes an entry away only when its last unit is up; before that the  *)
(* value stays and the entry is one unit closer to its end.                 *)
LEMMA TickAges ==
  ASSUME NEW values, NEW ttl \in Nat, NEW e \in Entry(values, ttl), e # NoEntry,
         NoEntry \notin Entry(values, ttl)
  PROVE  /\ AfterTick(e) = NoEntry <=> e.left = 1
         /\ e.left = 0 => AfterTick(e) = e
         /\ e.left > 1 => AfterTick(e).value = e.value /\ AfterTick(e).left = e.left - 1
<1>1. e \in [value : values, left : 0..ttl]
  BY DEF Entry
<1>2. CASE e.left \in {0, 1}
  BY <1>1, <1>2 DEF AfterTick
<1>3. CASE e.left > 1
  <2>1. AfterTick(e) = [e EXCEPT !.left = e.left - 1]
    BY <1>1, <1>3 DEF AfterTick
  <2>2. /\ AfterTick(e).value = e.value
        /\ AfterTick(e).left = e.left - 1
        /\ AfterTick(e) \in Entry(values, ttl)
    BY <1>1, <1>3, <2>1 DEF Entry
  <2> QED
    BY <1>3, <2>2
<1> QED
  BY <1>1, <1>2, <1>3

------------------------------------------------------------------------------
(* What a step that stores a lock does to the two histories. *)
LEMMA StoringIsNoticed ==
  ASSUME TypeOK, NEW e \in Entry(Requests, LockTtl) \cup {NoEntry}, StoreLock(e)
  PROVE  /\ lock' = e
         /\ rival' \in [Requests -> BOOLEAN]
         /\ turns' \in [Requests -> 0..(Retries + 1)]
         /\ \A r \in Requests :
              /\ rival[r] => rival'[r]
              /\ InFlight(r) /\ e # NoEntry /\ by[e.value] # by[r] => rival'[r]
              /\ turns[r] <= turns'[r]
              /\ InFlight(r) /\ turns[r] <= Retries /\ e # lock
                   /\ (e = NoEntry \/ ~ Holds(lock, e.value))
                 => turns'[r] = turns[r] + 1
<1> USE FieldAssumption DEF TypeOK
<1> DEFINE Rivals(r) == rival[r] \/ (InFlight(r) /\ e # NoEntry /\ by[e.value] # by[r])
           Counts(r) == InFlight(r) /\ turns[r] <= Retries
                          /\ (e = NoEntry \/ ~ Holds(lock, e.value)) /\ e # lock
<1>1. /\ lock' = e
      /\ rival' = [r \in Requests |-> Rivals(r)]
      /\ turns' = [r \in Requests |-> IF Counts(r) THEN turns[r] + 1 ELSE turns[r]]
  BY DEF StoreLock
<1>2. \A r \in Requests : Rivals(r) \in BOOLEAN /\ Counts(r) \in BOOLEAN
  OBVIOUS
<1>3. \A r \in Requests : Counts(r) => turns[r] <= Retries
  OBVIOUS
<1>4. /\ \A r \in Requests : rival[r] => Rivals(r)
      /\ \A r \in Requests : InFlight(r) /\ e # NoEntry /\ by[e.value] # by[r] => Rivals(r)
  OBVIOUS
<1>5. \A r \in Requests :
        InFlight(r) /\ turns[r] <= Retries /\ e # lock
          /\ (e = NoEntry \/ ~ Holds(lock, e.value)) => Counts(r)
  OBVIOUS
<1> HIDE DEF Rivals, Counts
<1>6. /\ rival' \in [Requests -> BOOLEAN]
      /\ \A r \in Requests : rival'[r] = Rivals(r)
  BY <1>1, <1>2
<1>7. /\ turns' \in [Requests -> 0..(Retries + 1)]
      /\ \A r \in Requests : turns[r] <= turns'[r] /\ (Counts(r) => turns'[r] = turns[r] + 1)
  BY <1>1, <1>3
<1> QED
  BY <1>1, <1>4, <1>5, <1>6, <1>7

(* Types are preserved by every step. *)
LEMMA TypeIsKept ==
  ASSUME TypeOK, LossesAreCounted, [Next]_vars
  PROVE  TypeOK'
<1> USE FieldAssumption DEF TypeOK, Labels, Operations, Asked, vars, request, history
<1> DEFINE Slot == Entry(Requests, LockTtl) \cup {NoEntry}
<1>v. lock # NoEntry => lock.value \in Requests
  BY DEF Entry
<1>1. ASSUME NEW r \in Requests, NEW u \in Users, NEW o \in Asked, Arrive(r, u, o)
      PROVE  TypeOK'
  <2>1. HeldAgainst(u) \in BOOLEAN
    BY DEF HeldAgainst
  <2> QED
    BY <1>1, <2>1 DEF Arrive, Goto
<1>2. ASSUME NEW r \in Requests, Read(r) \/ ReadToRelease(r) \/ List(r) PROVE TypeOK'
  BY <1>2, <1>v DEF Read, ReadToRelease, List, HeldBy, Answer, Goto
<1>3. ASSUME NEW r \in Requests, Lose(r), pc[r] \in {"claim", "renew"}
      PROVE  tries' \in [Requests -> 0..(Retries + 1)] /\ pc' \in [Requests -> Labels]
  BY <1>3 DEF Lose, Goto, LossesAreCounted
<1>4. ASSUME NEW r \in Requests, ClaimFree(r) \/ Renew(r) PROVE TypeOK'
  <2>1. AfterSetIfAbsent(lock, r, LockTtl) \in Slot
        /\ AfterCompareAndSet(lock, seen[r], r, LockTtl) \in Slot
    BY WritesKeepType
  <2>2. CASE Lose(r)
    BY <1>3, <1>4, <2>2 DEF ClaimFree, Renew, Lose
  <2>3. CASE /\ \E e \in Slot : StoreLock(e)
             /\ Answer(r, "granted")
             /\ UNCHANGED tries
    <3>1. lock' \in Slot /\ rival' \in [Requests -> BOOLEAN]
          /\ turns' \in [Requests -> 0..(Retries + 1)]
      BY <2>3, StoringIsNoticed
    <3> HIDE DEF Slot
    <3> QED
      BY <1>4, <2>3, <3>1 DEF ClaimFree, Renew, Answer, Goto, Slot
  <2> HIDE DEF Slot
  <2> QED
    BY <1>4, <2>1, <2>2, <2>3 DEF ClaimFree, Renew
<1>5. ASSUME NEW r \in Requests, Delete(r) PROVE TypeOK'
  <2>1. AfterCompareAndDelete(lock, seen[r]) \in Slot
    BY DEF AfterCompareAndDelete
  <2>2. lock' \in Slot /\ rival' \in [Requests -> BOOLEAN]
        /\ turns' \in [Requests -> 0..(Retries + 1)]
    BY <1>5, <2>1, StoringIsNoticed DEF Delete
  <2> HIDE DEF Slot
  <2> QED
    BY <1>5, <2>2 DEF Delete, GoOn, Goto, Slot
<1>6. ASSUME Tick PROVE TypeOK'
  <2>1. AfterTick(lock) \in Slot
    BY TickKeepsType
  <2>2. lock' \in Slot /\ rival' \in [Requests -> BOOLEAN]
        /\ turns' \in [Requests -> 0..(Retries + 1)]
    BY <1>6, <2>1, StoringIsNoticed DEF Tick
  <2> HIDE DEF Slot
  <2> QED
    BY <1>6, <2>2 DEF Tick, Slot
<1>7. CASE UNCHANGED vars
  BY <1>7
<1> QED
  BY <1>1, <1>2, <1>4, <1>5, <1>6, <1>7 DEF Next, Serve

(* A lock that has been stored or read keeps its owner: the claim is over,  *)
(* and a request never changes the user it is for.                          *)
LEMMA ReadsStayOwn ==
  ASSUME TypeOK, ReadsAreOwn, LossesAreCounted, [Next]_vars
  PROVE  ReadsAreOwn'
<1> USE FieldAssumption DEF TypeOK, ReadsAreOwn, Labels, Operations, Asked, vars, request, history
<1>v. lock # NoEntry => lock.value \in Requests
  BY DEF Entry
<1>1. ASSUME NEW r \in Requests, NEW u \in Users, NEW o \in Asked, Arrive(r, u, o)
      PROVE  ReadsAreOwn'
  BY <1>1, <1>v DEF Arrive, Goto
<1>2. ASSUME NEW r \in Requests, Read(r) \/ ReadToRelease(r) \/ List(r) PROVE ReadsAreOwn'
  BY <1>2, <1>v DEF Read, ReadToRelease, List, HeldBy, Answer, Goto
<1>3. ASSUME NEW r \in Requests, ClaimFree(r) \/ Renew(r) PROVE ReadsAreOwn'
  <2>1. CASE Lose(r)
    BY <1>3, <1>v, <2>1 DEF ClaimFree, Renew, Lose, Goto, Answer
  <2>2. CASE Answer(r, "granted") /\ lock' = Fresh(r, LockTtl)
    BY <1>3, <2>2 DEF ClaimFree, Renew, Answer, Goto, Fresh
  <2> QED
    BY <1>3, <2>1, <2>2
    DEF ClaimFree, Renew, StoreLock, AfterSetIfAbsent, AfterCompareAndSet
<1>4. ASSUME NEW r \in Requests, Delete(r) PROVE ReadsAreOwn'
  BY <1>4, <1>v DEF Delete, StoreLock, AfterCompareAndDelete, GoOn, Goto
<1>5. CASE Tick
  <2>1. lock' = NoEntry \/ lock'.value = lock.value
    BY <1>5 DEF Tick, StoreLock, AfterTick, Entry
  <2>2. lock = NoEntry => lock' = NoEntry
    BY <1>5 DEF Tick, StoreLock, AfterTick
  <2> QED
    BY <1>5, <1>v, <2>1, <2>2 DEF Tick
<1>6. CASE UNCHANGED vars
  BY <1>6
<1> QED
  BY <1>1, <1>2, <1>3, <1>4, <1>5, <1>6 DEF Next, Serve

(* A request in flight notices every rival that holds the field meanwhile. *)
LEMMA RivalsStaySeen ==
  ASSUME TypeOK, ReadsAreOwn, RivalsAreSeen, LossesAreCounted, [Next]_vars
  PROVE  RivalsAreSeen'
<1> USE FieldAssumption DEF TypeOK, RivalsAreSeen, InFlight, HeldAgainst, Labels, Operations,
                            Asked, vars, request, history
<1>v. lock # NoEntry => lock.value \in Requests /\ pc[lock.value] = "done"
  BY DEF Entry, ReadsAreOwn
<1>s. ASSUME NEW e \in Entry(Requests, LockTtl) \cup {NoEntry}, StoreLock(e), by' = by,
             \A s \in Requests : InFlight(s)' => InFlight(s)
      PROVE  RivalsAreSeen'
  BY <1>s, StoringIsNoticed
<1>1. ASSUME NEW r \in Requests, NEW u \in Users, NEW o \in Asked, Arrive(r, u, o)
      PROVE  RivalsAreSeen'
  BY <1>1, <1>v DEF Arrive, Goto
<1>2. ASSUME NEW r \in Requests, Read(r) \/ ReadToRelease(r) \/ List(r) PROVE RivalsAreSeen'
  BY <1>2 DEF Read, ReadToRelease, List, Answer, Goto
<1>3. ASSUME NEW r \in Requests, ClaimFree(r) \/ Renew(r) PROVE RivalsAreSeen'
  <2>1. CASE Lose(r)
    BY <1>3, <2>1 DEF ClaimFree, Renew, Lose, Goto
  <2>2. CASE /\ Answer(r, "granted")
             /\ \/ StoreLock(AfterSetIfAbsent(lock, r, LockTtl))
                \/ StoreLock(AfterCompareAndSet(lock, seen[r], r, LockTtl))
    <3>1. /\ AfterSetIfAbsent(lock, r, LockTtl) \in Entry(Requests, LockTtl) \cup {NoEntry}
          /\ AfterCompareAndSet(lock, seen[r], r, LockTtl) \in Entry(Requests, LockTtl) \cup {NoEntry}
      BY WritesKeepType
    <3>2. by' = by /\ \A s \in Requests : InFlight(s)' => InFlight(s)
      BY <1>3, <2>2 DEF ClaimFree, Renew, Answer, Goto
    <3> QED
      BY <1>s, <2>2, <3>1, <3>2
  <2> QED
    BY <1>3, <2>1, <2>2 DEF ClaimFree, Renew
<1>4. ASSUME NEW r \in Requests, Delete(r) PROVE RivalsAreSeen'
  <2>1. AfterCompareAndDelete(lock, seen[r]) \in Entry(Requests, LockTtl) \cup {NoEntry}
    BY DEF AfterCompareAndDelete
  <2>2. by' = by /\ \A s \in Requests : InFlight(s)' => InFlight(s)
    BY <1>4 DEF Delete, GoOn, Goto
  <2> QED
    BY <1>4, <1>s, <2>1, <2>2 DEF Delete
<1>5. CASE Tick
  BY <1>5, <1>s, TickKeepsType DEF Tick
<1>6. CASE UNCHANGED vars
  BY <1>6
<1> QED
  BY <1>1, <1>2, <1>3, <1>4, <1>5, <1>6 DEF Next, Serve

(* A round that is lost, or bound to be, was lost to a change of the lock. *)
LEMMA LossesStayCounted ==
  ASSUME TypeOK, ReadsAreOwn, LossesAreCounted, [Next]_vars
  PROVE  LossesAreCounted'
<1> USE FieldAssumption DEF TypeOK, InFlight, Labels, Operations, Asked, vars, request, history
<1> DEFINE Counted(s) == /\ pc[s] = "idle" => tries[s] = 0
                         /\ pc[s] \in {"claim", "renew"} => tries[s] <= Retries
                         /\ InFlight(s) => Losses(s) <= turns[s]
<1>c. \A s \in Requests : Counted(s)
  BY DEF LossesAreCounted
<1>g. SUFFICES ASSUME NEW s \in Requests PROVE Counted(s)'
  BY DEF LossesAreCounted
<1>s. ASSUME NEW e \in Entry(Requests, LockTtl) \cup {NoEntry}, StoreLock(e),
             pc'[s] = pc[s], tries'[s] = tries[s], seen'[s] = seen[s]
      PROVE  Counted(s)'
  <2>1. /\ lock' = e
        /\ turns[s] \in 0..(Retries + 1) /\ turns'[s] \in 0..(Retries + 1)
        /\ turns[s] <= turns'[s]
        /\ InFlight(s) /\ turns[s] <= Retries /\ e # lock /\ (e = NoEntry \/ ~ Holds(lock, e.value))
             => turns'[s] = turns[s] + 1
    BY <1>s, StoringIsNoticed
  <2>2. tries[s] \in Nat /\ Retries \in Nat
    OBVIOUS
  <2>3. CASE pc[s] = "claim"
    <3>1. tries[s] <= Retries /\ tries[s] <= turns[s] /\ (lock # NoEntry => tries[s] + 1 <= turns[s])
      BY <1>c, <2>2, <2>3 DEF Losses
    <3>2. lock = NoEntry /\ e # NoEntry => tries[s] + 1 <= turns'[s]
      BY <2>1, <2>2, <2>3, <3>1 DEF Holds
    <3> QED
      BY <1>s, <2>1, <2>2, <2>3, <3>1, <3>2 DEF Losses
  <2>4. CASE pc[s] = "renew"
    <3>1. /\ tries[s] <= Retries /\ tries[s] <= turns[s]
          /\ ~ Holds(lock, seen[s]) => tries[s] + 1 <= turns[s]
      BY <1>c, <2>2, <2>4 DEF Losses
    <3>2. Holds(lock, seen[s]) /\ ~ Holds(e, seen[s]) => tries[s] + 1 <= turns'[s]
      BY <2>1, <2>2, <2>4, <3>1 DEF Holds
    <3> QED
      BY <1>s, <2>1, <2>2, <2>4, <3>1, <3>2 DEF Losses
  <2>5. CASE pc[s] \notin {"claim", "renew"}
    BY <1>c, <1>s, <2>1, <2>2, <2>5 DEF Losses
  <2> QED
    BY <2>3, <2>4, <2>5
<1>u. ASSUME lock' = lock, turns' = turns, pc'[s] = pc[s], tries'[s] = tries[s], seen'[s] = seen[s]
      PROVE  Counted(s)'
  BY <1>c, <1>u DEF Losses
<1>1. ASSUME NEW r \in Requests, NEW u \in Users, NEW o \in Asked, Arrive(r, u, o)
      PROVE  Counted(s)'
  <2>1. CASE s = r
    <3>1. pc'[s] \in {"read", "list"} /\ tries'[s] = 0 /\ turns'[s] \in Nat
      BY <1>1, <1>c, <2>1 DEF Arrive, Goto
    <3> QED
      BY <3>1 DEF Losses
  <2>2. CASE s # r
    BY <1>1, <1>u, <2>2 DEF Arrive, Goto
  <2> QED
    BY <2>1, <2>2
<1>2. ASSUME NEW r \in Requests, Read(r) \/ ReadToRelease(r) \/ List(r) PROVE Counted(s)'
  <2>1. CASE s = r
    <3>1. /\ lock' = lock /\ turns' = turns /\ tries' = tries
          /\ pc[s] \in {"read", "list"} /\ pc'[s] # "idle"
          /\ pc'[s] = "claim" => lock = NoEntry /\ tries[s] <= Retries
          /\ pc'[s] = "renew" => Holds(lock, seen'[s]) /\ tries[s] <= Retries
      BY <1>2, <2>1 DEF Read, ReadToRelease, List, HeldBy, Answer, Goto, Holds
    <3>2. tries[s] <= turns[s]
      BY <1>c, <3>1 DEF Losses
    <3> QED
      BY <3>1, <3>2 DEF Losses, Holds
  <2>2. CASE s # r
    BY <1>2, <1>u, <2>2 DEF Read, ReadToRelease, List, Answer, Goto
  <2> QED
    BY <2>1, <2>2
<1>3. ASSUME NEW r \in Requests, ClaimFree(r) \/ Renew(r) PROVE Counted(s)'
  <2>1. CASE Lose(r)
    <3>1. CASE s = r
      <4>1. pc'[s] = "read" /\ tries'[s] = tries[s] + 1 /\ turns' = turns /\ Losses(s) = tries[s] + 1
        BY <1>3, <2>1, <3>1 DEF ClaimFree, Renew, Lose, Goto, Losses, Answer
      <4>2. Losses(s) <= turns[s]
        BY <1>3, <1>c, <3>1 DEF ClaimFree, Renew
      <4> QED
        BY <4>1, <4>2 DEF Losses
    <3>2. CASE s # r
      BY <1>3, <1>u, <2>1, <3>2 DEF ClaimFree, Renew, Lose, Goto
    <3> QED
      BY <3>1, <3>2
  <2>2. CASE /\ Answer(r, "granted") /\ UNCHANGED tries
             /\ \/ StoreLock(AfterSetIfAbsent(lock, r, LockTtl))
                \/ StoreLock(AfterCompareAndSet(lock, seen[r], r, LockTtl))
    <3>1. /\ AfterSetIfAbsent(lock, r, LockTtl) \in Entry(Requests, LockTtl) \cup {NoEntry}
          /\ AfterCompareAndSet(lock, seen[r], r, LockTtl) \in Entry(Requests, LockTtl) \cup {NoEntry}
      BY WritesKeepType
    <3>2. CASE s = r
      BY <2>2, <3>2 DEF Answer, Goto
    <3>3. CASE s # r
      <4>1. pc'[s] = pc[s] /\ tries'[s] = tries[s] /\ seen'[s] = seen[s]
        BY <1>3, <2>2, <3>3 DEF ClaimFree, Renew, Answer, Goto
      <4> QED
        BY <1>s, <2>2, <3>1, <4>1
    <3> QED
      BY <3>2, <3>3
  <2> QED
    BY <1>3, <2>1, <2>2 DEF ClaimFree, Renew
<1>4. ASSUME NEW r \in Requests, Delete(r) PROVE Counted(s)'
  <2>1. AfterCompareAndDelete(lock, seen[r]) \in Entry(Requests, LockTtl) \cup {NoEntry}
    BY DEF AfterCompareAndDelete
  <2>2. CASE s = r
    <3>1. pc[s] = "delete" /\ pc'[s] \in {"list", "done"} /\ tries' = tries
      BY <1>4, <2>2 DEF Delete, GoOn, Goto
    <3>2. tries[s] <= turns[s] /\ turns[s] <= turns'[s]
          /\ turns[s] \in Nat /\ turns'[s] \in Nat /\ tries[s] \in Nat
      BY <1>4, <1>c, <2>1, <3>1, StoringIsNoticed DEF Delete, Losses
    <3> QED
      BY <3>1, <3>2 DEF Losses
  <2>3. CASE s # r
    <3>1. pc'[s] = pc[s] /\ tries'[s] = tries[s] /\ seen'[s] = seen[s]
      BY <1>4, <2>3 DEF Delete, GoOn, Goto
    <3> QED
      BY <1>4, <1>s, <2>1, <3>1 DEF Delete
  <2> QED
    BY <2>2, <2>3
<1>5. CASE Tick
  BY <1>5, <1>s, TickKeepsType DEF Tick
<1>6. CASE UNCHANGED vars
  BY <1>6, <1>u
<1> QED
  BY <1>1, <1>2, <1>3, <1>4, <1>5, <1>6 DEF Next, Serve

(* An answer is given once, at the end of the request. *)
LEMMA AnswersStayLast ==
  ASSUME TypeOK, AnswersEnd, [Next]_vars
  PROVE  AnswersEnd'
<1> USE DEF TypeOK, AnswersEnd, Labels, Goto, Answer, vars, request, history
<1>1. ASSUME NEW r \in Requests, NEW u \in Users, NEW o \in Asked, Arrive(r, u, o)
      PROVE  AnswersEnd'
  BY <1>1 DEF Arrive
<1>2. ASSUME NEW r \in Requests, Serve(r) PROVE AnswersEnd'
  BY <1>2 DEF Serve, Read, ClaimFree, Renew, Lose, ReadToRelease, List, Delete, GoOn
<1>3. CASE Tick \/ UNCHANGED vars
  BY <1>3 DEF Tick
<1> QED
  BY <1>1, <1>2, <1>3 DEF Next

(* A claim is denied in two places: against a rival, or after its last round. *)
LEMMA DenialsStayReasoned ==
  ASSUME TypeOK, RivalsAreSeen, LossesAreCounted, AnswersEnd, DenialHasReason, [Next]_vars
  PROVE  DenialHasReason'
<1> USE FieldAssumption DEF TypeOK, DenialHasReason, Labels, Operations, Asked, vars, request, history
<1>s. ASSUME NEW e \in Entry(Requests, LockTtl) \cup {NoEntry}, StoreLock(e),
             \A r \in Requests : answer'[r] = "denied" => answer[r] = "denied"
      PROVE  DenialHasReason'
  BY <1>s, StoringIsNoticed
<1>1. ASSUME NEW r \in Requests, NEW u \in Users, NEW o \in Asked, Arrive(r, u, o)
      PROVE  DenialHasReason'
  BY <1>1 DEF Arrive, Goto, AnswersEnd
<1>2. ASSUME NEW r \in Requests, Read(r) PROVE DenialHasReason'
  <2>1. CASE Answer(r, "denied") /\ (tries[r] > Retries \/ HeldAgainst(by[r]))
    <3>1. InFlight(r) /\ tries[r] <= turns[r]
      BY <1>2, <2>1 DEF Read, InFlight, LossesAreCounted, Losses
    <3>2. rival[r] \/ turns[r] > Retries
      BY <2>1, <3>1 DEF RivalsAreSeen
    <3> QED
      BY <1>2, <2>1, <3>2 DEF Read, Answer, Goto
  <2>2. CASE UNCHANGED answer
    BY <1>2, <2>2 DEF Read
  <2> QED
    BY <1>2, <2>1, <2>2 DEF Read
<1>3. ASSUME NEW r \in Requests, ReadToRelease(r) \/ List(r) PROVE DenialHasReason'
  BY <1>3 DEF ReadToRelease, List
<1>4. ASSUME NEW r \in Requests, ClaimFree(r) \/ Renew(r) PROVE DenialHasReason'
  <2>1. CASE Lose(r)
    BY <1>4, <2>1 DEF ClaimFree, Renew, Lose
  <2>2. CASE /\ Answer(r, "granted")
             /\ \/ StoreLock(AfterSetIfAbsent(lock, r, LockTtl))
                \/ StoreLock(AfterCompareAndSet(lock, seen[r], r, LockTtl))
    BY <1>s, <2>2, WritesKeepType DEF Answer
  <2> QED
    BY <1>4, <2>1, <2>2 DEF ClaimFree, Renew
<1>5. ASSUME NEW r \in Requests, Delete(r) PROVE DenialHasReason'
  <2>1. AfterCompareAndDelete(lock, seen[r]) \in Entry(Requests, LockTtl) \cup {NoEntry}
    BY DEF AfterCompareAndDelete
  <2> QED
    BY <1>5, <1>s, <2>1 DEF Delete
<1>6. CASE Tick
  BY <1>6, <1>s, TickKeepsType DEF Tick, request
<1>7. CASE UNCHANGED vars
  BY <1>7
<1> QED
  BY <1>1, <1>2, <1>3, <1>4, <1>5, <1>6, <1>7 DEF Next, Serve
------------------------------------------------------------------------------
(* The inductive invariant holds in every reachable state. *)
LEMMA InvariantHolds == Spec => []IInv
<1>1. Init => IInv
  <2> SUFFICES ASSUME Init PROVE IInv
    OBVIOUS
  <2> USE FieldAssumption DEF Init
  <2>1. TypeOK
    BY DEF TypeOK, Labels, Operations, Asked
  <2>2. ReadsAreOwn /\ RivalsAreSeen /\ LossesAreCounted /\ AnswersEnd /\ DenialHasReason
    BY DEF ReadsAreOwn, RivalsAreSeen, LossesAreCounted, AnswersEnd, DenialHasReason, InFlight
  <2> QED
    BY <2>1, <2>2 DEF IInv
<1>2. IInv /\ [Next]_vars => IInv'
  BY TypeIsKept, ReadsStayOwn, RivalsStaySeen, LossesStayCounted, AnswersStayLast,
     DenialsStayReasoned DEF IInv
<1> QED
  BY <1>1, <1>2, PTL DEF Spec

(* Every reachable state of the field lock is well typed: a claim loses at   *)
(* most the first race and those of resolveContendedClaim's rounds.          *)
THEOREM TypeCorrect == Spec => []TypeOK
<1>1. IInv => TypeOK
  BY DEF IInv
<1> QED
  BY <1>1, InvariantHolds, PTL

(* A claim of a user is denied only if another user held the field while it *)
(* was decided, or if the lock changed once for every round.                *)
THEOREM DenialsAreReasoned == Spec => []DenialHasReason
<1>1. IInv => DenialHasReason
  BY DEF IInv
<1> QED
  BY <1>1, InvariantHolds, PTL

(* The field never passes from one user to another without being free. *)
THEOREM FieldIsFreeInBetween == Spec => NoHandover
<1> DEFINE Same == lock # NoEntry /\ lock' # NoEntry => by[lock.value] = by'[lock'.value]
<1>1. ASSUME IInv, [Next]_vars PROVE Same
  <2> SUFFICES ASSUME lock # NoEntry, lock' # NoEntry PROVE by[lock.value] = by'[lock'.value]
    OBVIOUS
  <2> USE <1>1, FieldAssumption DEF IInv, TypeOK, Labels, Operations, Asked, vars, request, history
  <2>v. lock.value \in Requests /\ pc[lock.value] = "done"
    BY DEF Entry, ReadsAreOwn
  <2>1. ASSUME NEW r \in Requests, NEW u \in Users, NEW o \in Asked, Arrive(r, u, o)
        PROVE  by[lock.value] = by'[lock'.value]
    BY <2>1, <2>v DEF Arrive
  <2>2. ASSUME NEW r \in Requests, Read(r) \/ ReadToRelease(r) \/ List(r) \/ ClaimFree(r)
        PROVE  by[lock.value] = by'[lock'.value]
    BY <2>2 DEF Read, ReadToRelease, List, ClaimFree, Lose
  <2>3. ASSUME NEW r \in Requests, Renew(r) PROVE by[lock.value] = by'[lock'.value]
    <3>1. CASE Holds(lock, seen[r])
      <4>1. by[lock.value] = by[r] /\ by' = by /\ lock' = Fresh(r, LockTtl)
        BY <2>3, <2>v, <3>1 DEF Renew, StoreLock, AfterCompareAndSet, Holds, ReadsAreOwn
      <4> QED
        BY <4>1 DEF Fresh
    <3>2. CASE ~ Holds(lock, seen[r])
      BY <2>3, <3>2 DEF Renew, Lose
    <3> QED
      BY <3>1, <3>2
  <2>4. ASSUME NEW r \in Requests, Delete(r) PROVE by[lock.value] = by'[lock'.value]
    BY <2>4 DEF Delete, StoreLock, AfterCompareAndDelete
  <2>5. CASE Tick
    <3>1. lock'.value = lock.value /\ by' = by
      BY <2>5 DEF Tick, StoreLock, AfterTick, Entry
    <3> QED
      BY <3>1
  <2>6. CASE UNCHANGED vars
    BY <2>6
  <2> QED
    BY <2>1, <2>2, <2>3, <2>4, <2>5, <2>6 DEF Next, Serve
<1>2. ASSUME IInv, [Next]_vars PROVE [Same]_vars
  BY <1>1, <1>2
<1> QED
  BY <1>2, InvariantHolds, PTL DEF Spec, NoHandover

(* A lock goes by expiring, or by a release of the user whose lock it is. *)
THEOREM ReleasesAreOwn == Spec => OnlyOwnReleased
<1> DEFINE Own == lock # NoEntry /\ lock' = NoEntry =>
                    \/ lock.left = 1
                    \/ \E r \in Requests : /\ pc[r] = "delete" /\ pc'[r] # "delete"
                                           /\ by[r] = by[lock.value] /\ seen[r] = lock.value
<1>1. ASSUME IInv, [Next]_vars PROVE Own
  <2> SUFFICES ASSUME lock # NoEntry, lock' = NoEntry
               PROVE  \/ lock.left = 1
                      \/ \E r \in Requests : /\ pc[r] = "delete" /\ pc'[r] # "delete"
                                             /\ by[r] = by[lock.value] /\ seen[r] = lock.value
    OBVIOUS
  <2> USE <1>1, FieldAssumption DEF IInv, TypeOK, Labels, Operations, Asked, vars, request, history
  <2>1. ASSUME NEW r \in Requests, NEW u \in Users, NEW o \in Asked, Arrive(r, u, o) PROVE FALSE
    BY <2>1 DEF Arrive
  <2>2. ASSUME NEW r \in Requests, Read(r) \/ ReadToRelease(r) \/ List(r) \/ ClaimFree(r)
        PROVE  FALSE
    BY <2>2 DEF Read, ReadToRelease, List, ClaimFree, Lose
  <2>3. ASSUME NEW r \in Requests, Renew(r) PROVE FALSE
    BY <2>3, WritesKeepType DEF Renew, Lose, StoreLock, AfterCompareAndSet
  <2>4. ASSUME NEW r \in Requests, Delete(r)
        PROVE  /\ pc[r] = "delete" /\ pc'[r] # "delete"
               /\ by[r] = by[lock.value] /\ seen[r] = lock.value
    BY <2>4 DEF Delete, StoreLock, AfterCompareAndDelete, Holds, GoOn, Goto, ReadsAreOwn, Entry
  <2>5. ASSUME Tick PROVE lock.left = 1
    BY <2>5, TickAges DEF Tick, StoreLock
  <2>6. CASE UNCHANGED vars
    BY <2>6
  <2> QED
    BY <2>1, <2>2, <2>3, <2>4, <2>5, <2>6 DEF Next, Serve
<1>2. ASSUME IInv, [Next]_vars PROVE [Own]_vars
  BY <1>1, <1>2
<1> QED
  BY <1>2, InvariantHolds, PTL DEF Spec, OnlyOwnReleased

-----------------------------------------------------------------------------
\* Live editing: lists and trees.


\* What is in a list is at some place of it.
LEMMA Members ==
  ASSUME NEW s
  PROVE  \A x : x \in Elements(s) <=> \E i \in DOMAIN s : s[i] = x
  BY DEF Elements

\* What is appended comes after everything else.
LEMMA Appending ==
  ASSUME NEW S, NEW s \in Seq(S), NEW x \in S
  PROVE  /\ Append(s, x) \in Seq(S)
         /\ Elements(Append(s, x)) = Elements(s) \cup {x}
         /\ \A i \in DOMAIN Append(s, x) :
               IF i \in DOMAIN s THEN Append(s, x)[i] = s[i] ELSE Append(s, x)[i] = x /\ \A j \in DOMAIN s : j < i
  BY DEF Elements

\* splice, deleting nothing, adds one element, wherever the index is.
LEMMA Inserting ==
  ASSUME NEW S, NEW s \in Seq(S), NEW i \in Nat, NEW x \in S
  PROVE  /\ InsertAt(s, i, x) \in Seq(S)
         /\ Elements(InsertAt(s, i, x)) = Elements(s) \cup {x}
         /\ i <= Len(s) =>
              /\ Len(InsertAt(s, i, x)) = Len(s) + 1
              /\ \A k \in 1..(Len(s) + 1) :
                    InsertAt(s, i, x)[k] = IF k <= i THEN s[k] ELSE IF k = i + 1 THEN x ELSE s[k - 1]
<1> DEFINE n == IF i > Len(s) THEN Len(s) ELSE i
           r == InsertAt(s, i, x)
<1>1. n \in 0..Len(s) /\ Len(s) \in Nat
  OBVIOUS
<1>2. r = SubSeq(s, 1, n) \o <<x>> \o SubSeq(s, n + 1, Len(s))
  BY DEF InsertAt
<1> HIDE DEF n, r
<1>3. /\ r \in Seq(S) /\ Len(r) = Len(s) + 1
      /\ \A k \in 1..(Len(s) + 1) :
            r[k] = IF k <= n THEN s[k] ELSE IF k = n + 1 THEN x ELSE s[k - 1]
  <2> DEFINE before == SubSeq(s, 1, n)
             after == SubSeq(s, n + 1, Len(s))
  <2>1. /\ before \in Seq(S) /\ Len(before) = n
        /\ \A k \in 1..n : before[k] = s[k]
    BY <1>1
  <2>2. /\ after \in Seq(S) /\ Len(after) = Len(s) - n
        /\ \A k \in 1..(Len(s) - n) : after[k] = s[n + k]
    BY <1>1
  <2>3. <<x>> \in Seq(S) /\ Len(<<x>>) = 1 /\ <<x>>[1] = x
    OBVIOUS
  <2>4. r = (before \o <<x>>) \o after
    BY <1>2
  <2> HIDE DEF before, after
  <2> DEFINE front == before \o <<x>>
  <2>5. /\ front \in Seq(S) /\ Len(front) = n + 1
        /\ \A k \in 1..(n + 1) : front[k] = IF k <= n THEN s[k] ELSE x
    BY <1>1, <2>1, <2>3
  <2>6. r = front \o after
    BY <2>4
  <2> HIDE DEF front
  <2>7. /\ r \in Seq(S) /\ Len(r) = Len(s) + 1
        /\ \A k \in 1..(Len(s) + 1) :
              r[k] = IF k <= n + 1 THEN front[k] ELSE after[k - (n + 1)]
    <3>1. /\ r \in Seq(S) /\ Len(r) = Len(front) + Len(after)
          /\ \A k \in 1..(Len(front) + Len(after)) :
                r[k] = IF k <= Len(front) THEN front[k] ELSE after[k - Len(front)]
      BY <2>2, <2>5, <2>6, ConcatProperties
    <3>2. Len(front) = n + 1 /\ Len(front) + Len(after) = Len(s) + 1
      BY <1>1, <2>2, <2>5
    <3> QED
      BY <3>1, <3>2
  <2>8. \A k \in 1..(Len(s) + 1) : k > n + 1 => k - (n + 1) \in 1..(Len(s) - n)
                                                  /\ n + (k - (n + 1)) = k - 1
    BY <1>1
  <2>9. \A k \in 1..(Len(s) + 1) :
          r[k] = IF k <= n THEN s[k] ELSE IF k = n + 1 THEN x ELSE s[k - 1]
    <3> TAKE k \in 1..(Len(s) + 1)
    <3>1. CASE k <= n + 1
      BY <1>1, <2>5, <2>7, <3>1
    <3>2. CASE k > n + 1
      <4>1. r[k] = after[k - (n + 1)]
        BY <1>1, <2>7, <3>2
      <4>2. after[k - (n + 1)] = s[k - 1]
        BY <1>1, <2>2, <2>8, <3>2
      <4> QED
        BY <1>1, <3>2, <4>1, <4>2
    <3> QED
      BY <1>1, <3>1, <3>2
  <2> QED
    BY <2>7, <2>9
<1>4. DOMAIN r = 1..Len(r) /\ DOMAIN s = 1..Len(s)
  <2>1. r \in Seq(S)
    BY <1>3
  <2> QED
    BY <2>1
<1>5. \A k \in 1..(Len(s) + 1) : r[k] = x \/ \E l \in 1..Len(s) : s[l] = r[k]
  <2> TAKE k \in 1..(Len(s) + 1)
  <2>1. CASE k <= n
    BY <1>1, <1>3, <2>1
  <2>2. CASE k = n + 1
    BY <1>1, <1>3, <2>2
  <2>3. CASE k > n + 1
    <3>1. k - 1 \in 1..Len(s) /\ r[k] = s[k - 1]
      BY <1>1, <1>3, <2>3
    <3> QED
      BY <3>1
  <2> QED
    BY <1>1, <2>1, <2>2, <2>3
<1>6. \A k \in 1..Len(s) : \E l \in 1..(Len(s) + 1) : r[l] = s[k]
  <2> TAKE k \in 1..Len(s)
  <2>1. CASE k <= n
    BY <1>1, <1>3, <2>1
  <2>2. CASE k > n
    <3>1. k + 1 \in 1..(Len(s) + 1) /\ r[k + 1] = s[(k + 1) - 1] /\ (k + 1) - 1 = k
      BY <1>1, <1>3, <2>2
    <3> QED
      BY <3>1
  <2> QED
    BY <1>1, <2>1, <2>2
<1>7. n + 1 \in 1..(Len(s) + 1) /\ r[n + 1] = x
  BY <1>1, <1>3
<1>8. Elements(r) \subseteq Elements(s) \cup {x}
  BY <1>3, <1>4, <1>5, Members
<1>9. Elements(s) \cup {x} \subseteq Elements(r)
  BY <1>3, <1>4, <1>6, <1>7, Members
<1>10. i <= Len(s) =>
         /\ Len(r) = Len(s) + 1
         /\ \A k \in 1..(Len(s) + 1) :
               r[k] = IF k <= i THEN s[k] ELSE IF k = i + 1 THEN x ELSE s[k - 1]
  <2>1. i <= Len(s) => n = i
    BY DEF n
  <2> QED
    BY <1>3, <2>1
<1> QED
  BY <1>3, <1>8, <1>9, <1>10 DEF r

\* To exchange two places of a list loses nothing and adds nothing.
LEMMA Swapping ==
  ASSUME NEW S, NEW s \in Seq(S), NEW i \in DOMAIN s, NEW j \in DOMAIN s
  PROVE  LET r == [s EXCEPT ![i] = s[j], ![j] = s[i]]
         IN  r \in Seq(S) /\ Elements(r) = Elements(s)
<1> DEFINE r == [s EXCEPT ![i] = s[j], ![j] = s[i]]
<1>1. /\ DOMAIN r = DOMAIN s /\ DOMAIN s = 1..Len(s) /\ Len(s) \in Nat
      /\ \A k \in DOMAIN s : r[k] = IF k = j THEN s[i] ELSE IF k = i THEN s[j] ELSE s[k]
  OBVIOUS
<1>2. r \in [1..Len(s) -> S]
  <2>1. s \in [1..Len(s) -> S] /\ i \in 1..Len(s) /\ j \in 1..Len(s)
    OBVIOUS
  <2>2. s[i] \in S /\ s[j] \in S
    BY <2>1
  <2> QED
    BY <2>1, <2>2
<1> HIDE DEF r
<1>3. r \in Seq(S)
  BY <1>1, <1>2
<1>4. Elements(r) \subseteq Elements(s)
  <2>1. \A k \in DOMAIN r : \E l \in DOMAIN s : s[l] = r[k]
    BY <1>1
  <2> QED
    BY <2>1, Members
<1>5. Elements(s) \subseteq Elements(r)
  <2>1. \A k \in DOMAIN s : \E l \in DOMAIN r : r[l] = s[k]
    <3> TAKE k \in DOMAIN s
    <3>1. CASE k = i
      BY <1>1, <3>1
    <3>2. CASE k = j
      <4>1. r[i] = s[j]
        BY <1>1
      <4> QED
        BY <1>1, <3>2, <4>1
    <3> QED
      BY <1>1, <3>1, <3>2
  <2> QED
    BY <2>1, Members
<1> QED
  BY <1>3, <1>4, <1>5 DEF r

\* Without keeps all the elements but one. Ranks number the places that are kept.
LEMMA Filtering ==
  ASSUME NEW S, NEW s \in Seq(S), NEW x
  PROVE  /\ Without(s, x) \in Seq(S)
         /\ Elements(Without(s, x)) = Elements(s) \ {x}
<1> DEFINE kept == {i \in DOMAIN s : s[i] # x}
           Rank(i) == Cardinality({j \in kept : j <= i})
           m == Cardinality(kept)
           rank == [i \in kept |-> Rank(i)]
           r == [n \in 1..m |-> s[CHOOSE i \in kept : Rank(i) = n]]
<1>0. r = Without(s, x)
  BY DEF Without
<1>1. kept \subseteq 1..Len(s) /\ Len(s) \in Nat /\ DOMAIN s = 1..Len(s)
  OBVIOUS
<1>2. IsFiniteSet(kept) /\ m \in Nat
  BY <1>1, FS_Interval, FS_Subset, FS_CardinalityType, 1 \in Int, Len(s) \in Int
<1>3. \A i \in kept : Rank(i) \in 1..m
  <2> TAKE i \in kept
  <2> DEFINE B == {j \in kept : j <= i}
  <2>1. B \in SUBSET kept /\ i \in B
    BY <1>1
  <2> HIDE DEF kept, B
  <2>2. IsFiniteSet(B) /\ Cardinality(B) <= m /\ Cardinality(B) \in Nat
    BY <1>2, <2>1, FS_Subset, FS_CardinalityType
  <2>3. Cardinality(B) # 0
    BY <2>1, <2>2, FS_EmptySet
  <2> QED
    BY <1>2, <2>2, <2>3 DEF B
<1>4. \A i, j \in kept : i < j => Rank(i) < Rank(j)
  <2> TAKE i, j \in kept
  <2> HAVE i < j
  <2> DEFINE B == {k \in kept : k <= i}
             C == {k \in kept : k <= j}
  <2>1. B \in SUBSET C /\ C \in SUBSET kept /\ j \in C /\ j \notin B
    BY <1>1
  <2> HIDE DEF kept, B, C
  <2>2. IsFiniteSet(C) /\ Cardinality(C) \in Nat
    BY <1>2, <2>1, FS_Subset, FS_CardinalityType
  <2>3. IsFiniteSet(B) /\ Cardinality(B) <= Cardinality(C) /\ Cardinality(B) \in Nat
    BY <2>1, <2>2, FS_Subset, FS_CardinalityType
  <2>4. Cardinality(B) # Cardinality(C)
    BY <2>1, <2>2, FS_Subset
  <2> QED
    BY <2>2, <2>3, <2>4 DEF B, C
<1>5. rank \in Injection(kept, 1..m)
  <2>1. rank \in [kept -> 1..m]
    BY <1>3
  <2>2. \A i, j \in kept : Rank(i) = Rank(j) => i = j
    <3> TAKE i, j \in kept
    <3>1. i \in Int /\ j \in Int
      BY <1>1
    <3>2. Rank(i) \in Int /\ Rank(j) \in Int
      <4> HIDE DEF kept, Rank, m
      <4> QED
        BY <1>2, <1>3
    <3>3. (i < j => Rank(i) < Rank(j)) /\ (j < i => Rank(j) < Rank(i))
      BY <1>4
    <3> HIDE DEF kept, Rank
    <3> QED
      BY <3>1, <3>2, <3>3
  <2>3. \A i \in kept : rank[i] = Rank(i)
    OBVIOUS
  <2>4. DOMAIN rank = kept
    OBVIOUS
  <2> HIDE DEF rank, kept, Rank
  <2> QED
    BY <2>1, <2>2, <2>3, <2>4 DEF Injection, IsInjective
<1>6. rank \in Surjection(kept, 1..m)
  <2>1. IsFiniteSet(1..m) /\ Cardinality(1..m) = m
    BY <1>2, FS_Interval
  <2> HIDE DEF rank, kept
  <2> QED
    BY <1>5, <2>1, FS_Injection
<1>7. \A n \in 1..m : \E i \in kept : Rank(i) = n
  BY <1>6 DEF Surjection
<1> DEFINE Choice(n) == CHOOSE i \in kept : Rank(i) = n
<1>8. \A n \in 1..m : Choice(n) \in kept /\ Rank(Choice(n)) = n
  <2> HIDE DEF kept, Rank, m
  <2> QED
    BY <1>7
<1>9. \A i \in kept : Choice(Rank(i)) = i
  <2> TAKE i \in kept
  <2>1. /\ Choice(Rank(i)) \in kept /\ Rank(Choice(Rank(i))) = Rank(i)
    BY <1>3, <1>8
  <2>2. rank[Choice(Rank(i))] = rank[i]
    BY <2>1
  <2>3. DOMAIN rank = kept
    OBVIOUS
  <2> HIDE DEF rank, kept, Choice
  <2> QED
    BY <1>5, <2>1, <2>2, <2>3 DEF Injection, IsInjective
<1>10. r = [n \in 1..m |-> s[Choice(n)]]
  OBVIOUS
<1>11. /\ \A i \in kept : s[i] \in Elements(s) \ {x} /\ s[i] \in S
       /\ \A y \in Elements(s) \ {x} : \E i \in kept : s[i] = y
  BY <1>1 DEF Elements
<1> HIDE DEF kept, Rank, Choice, m, r
<1>12. r \in [1..m -> S] /\ DOMAIN r = 1..m /\ \A n \in 1..m : r[n] = s[Choice(n)]
  BY <1>8, <1>10, <1>11
<1>13. r \in Seq(S)
  BY <1>2, <1>12
<1>14. Elements(r) \subseteq Elements(s) \ {x}
  BY <1>8, <1>11, <1>12 DEF Elements
<1>15. Elements(s) \ {x} \subseteq Elements(r)
  <2> SUFFICES ASSUME NEW y \in Elements(s) \ {x}
               PROVE  y \in Elements(r)
    OBVIOUS
  <2>1. PICK i \in kept : s[i] = y
    BY <1>11
  <2>2. Rank(i) \in 1..m /\ r[Rank(i)] = y
    BY <1>3, <1>9, <1>12, <2>1
  <2> QED
    BY <1>12, <2>2 DEF Elements
<1> QED
  BY <1>0, <1>13, <1>14, <1>15

\* A list that is not empty is its head before its tail.
LEMMA Taking ==
  ASSUME NEW S, NEW s \in Seq(S), s # <<>>
  PROVE  /\ Tail(s) \in Seq(S) /\ Head(s) \in S
         /\ Elements(s) = {Head(s)} \cup Elements(Tail(s))
         /\ Head(s) = s[1] /\ 1 \in DOMAIN s
         /\ \A i \in DOMAIN Tail(s) : i + 1 \in DOMAIN s /\ i + 1 > 1 /\ Tail(s)[i] = s[i + 1]
         /\ DOMAIN s \subseteq Nat /\ DOMAIN Tail(s) \subseteq Nat
<1>1. /\ Len(s) \in Nat \ {0} /\ DOMAIN s = 1..Len(s) /\ Head(s) = s[1]
      /\ Tail(s) \in Seq(S) /\ DOMAIN Tail(s) = 1..(Len(s) - 1)
      /\ \A i \in 1..(Len(s) - 1) : Tail(s)[i] = s[i + 1]
  OBVIOUS
<1>2. \A k \in DOMAIN s : s[k] = Head(s) \/ \E l \in DOMAIN Tail(s) : Tail(s)[l] = s[k]
  <2> TAKE k \in DOMAIN s
  <2>1. k = 1 \/ (k - 1 \in 1..(Len(s) - 1) /\ (k - 1) + 1 = k)
    BY <1>1
  <2> QED
    BY <1>1, <2>1
<1>3. \A l \in DOMAIN Tail(s) : l + 1 \in DOMAIN s /\ s[l + 1] = Tail(s)[l]
  BY <1>1
<1>4. \A x : x \in Elements(s) <=> x = Head(s) \/ x \in Elements(Tail(s))
  <2> TAKE x
  <2>1. x \in Elements(s) => x = Head(s) \/ x \in Elements(Tail(s))
    <3> HAVE x \in Elements(s)
    <3>1. PICK k \in DOMAIN s : s[k] = x
      BY Members
    <3>2. x = Head(s) \/ \E l \in DOMAIN Tail(s) : Tail(s)[l] = x
      BY <1>2, <3>1
    <3> QED
      BY <3>2, Members
  <2>2. x \in Elements(Tail(s)) => x \in Elements(s)
    <3> HAVE x \in Elements(Tail(s))
    <3>1. PICK l \in DOMAIN Tail(s) : Tail(s)[l] = x
      BY Members
    <3> QED
      BY <1>3, <3>1, Members
  <2>3. Head(s) \in Elements(s)
    BY <1>1, Members
  <2> QED
    BY <2>1, <2>2, <2>3
<1> QED
  BY <1>1, <1>3, <1>4

-----------------------------------------------------------------------------
\* Trees: who is whose child, and what can be reached from the root.

\* The children of p in t.
Kids(t, p) == Elements(t.kids[p])

\* S has the blocks of the top level and the children of its own blocks.
Spans(t, S) == \A p \in {Root} \cup (S \cap Containers) : Kids(t, p) \subseteq S

\* What a tree is made of.
LEMMA TreeParts ==
  ASSUME NEW t \in Tree
  PROVE  /\ t.kids \in [Parents -> Seq(Blocks)] /\ t.props \in [Blocks -> Values]
         /\ \A p \in Parents : t.kids[p] \in Seq(Blocks) /\ Kids(t, p) \subseteq Blocks
<1>1. t.kids \in [Parents -> Seq(Blocks)] /\ t.props \in [Blocks -> Values]
  BY DEF Tree
<1>2. \A p \in Parents : t.kids[p] \in Seq(Blocks)
  BY <1>1
<1>3. \A s \in Seq(Blocks) : Elements(s) \subseteq Blocks
  BY DEF Elements
<1> QED
  BY <1>1, <1>2, <1>3 DEF Kids

\* What can be reached is the least set that has the top level and all children.
LEMMA Reaching ==
  ASSUME NEW t \in Tree
  PROVE  /\ Present(t) \subseteq Blocks
         /\ Spans(t, Present(t))
         /\ \A S : Spans(t, S) => Present(t) \subseteq S
<1> DEFINE reached == {c \in Containers : \A S \in Closed(t) : c \in S}
<1>0. {Root} \cup Containers = Parents
  BY DEF Parents
<1>1. Present(t) = UNION {Kids(t, p) : p \in {Root} \cup reached}
  BY DEF Present, Kids
<1>2. reached \subseteq Containers
  OBVIOUS
<1>3. \A p \in {Root} \cup reached : Kids(t, p) \cap Containers \subseteq reached
  <2> SUFFICES ASSUME NEW p \in {Root} \cup reached, NEW c \in Kids(t, p) \cap Containers,
                      NEW S \in Closed(t)
               PROVE  c \in S
    OBVIOUS
  <2>1. p \in {Root} \cup S
    OBVIOUS
  <2> QED
    BY <2>1 DEF Closed, Kids
<1>4. \A S : Spans(t, S) => reached \subseteq S
  <2> SUFFICES ASSUME NEW S, Spans(t, S)
               PROVE  reached \subseteq S
    OBVIOUS
  <2>1. \A p \in {Root} \cup (S \cap Containers) :
          Elements(t.kids[p]) \cap Containers \subseteq S \cap Containers
    BY DEF Spans, Kids
  <2>2. S \cap Containers \in Closed(t)
    BY <2>1 DEF Closed
  <2> QED
    BY <2>2
<1> HIDE DEF reached
<1>5. Present(t) \subseteq Blocks
  BY <1>0, <1>1, <1>2, TreeParts
<1>6. Spans(t, Present(t))
  <2>1. Present(t) \cap Containers \subseteq reached
    BY <1>1, <1>3
  <2> QED
    BY <1>1, <2>1 DEF Spans
<1>7. \A S : Spans(t, S) => Present(t) \subseteq S
  <2> SUFFICES ASSUME NEW S, Spans(t, S)
               PROVE  Present(t) \subseteq S
    OBVIOUS
  <2>1. \A p \in {Root} \cup reached : Kids(t, p) \subseteq S
    BY <1>2, <1>4 DEF Spans
  <2> QED
    BY <1>1, <2>1
<1> QED
  BY <1>5, <1>6, <1>7

\* Trees that have the same children everywhere have the same blocks.
LEMMA SameKids ==
  ASSUME NEW t \in Tree, NEW u \in Tree, \A p \in Parents : Kids(t, p) = Kids(u, p)
  PROVE  Present(t) = Present(u)
<1>1. \A S : Spans(t, S) <=> Spans(u, S)
  BY DEF Spans, Parents
<1> QED
  BY <1>1, Reaching

\* A block of the tree is the child of the root or of a block of the tree.
LEMMA HasParent ==
  ASSUME NEW t \in Tree, NEW b \in Present(t)
  PROVE  \E p \in Parents : (p = Root \/ p \in Present(t)) /\ b \in Kids(t, p)
<1> SUFFICES ASSUME \A p \in Parents : p = Root \/ p \in Present(t) => b \notin Kids(t, p)
             PROVE  FALSE
  OBVIOUS
<1>1. Spans(t, Present(t) \ {b})
  BY Reaching DEF Spans, Parents
<1> QED
  BY <1>1, Reaching

\* What the ways to change a tree do to the children.
LEMMA Removing ==
  ASSUME NEW t \in Tree, NEW b
  PROVE  /\ RemoveBlock(t, b) \in Tree
         /\ \A p \in Parents : Kids(RemoveBlock(t, b), p) = Kids(t, p) \ {b}
<1> DEFINE k == [p \in Parents |-> Without(t.kids[p], b)]
<1>1. k \in [Parents -> Seq(Blocks)] /\ \A p \in Parents : k[p] = Without(t.kids[p], b)
  BY TreeParts, Filtering
<1>2. RemoveBlock(t, b) = [t EXCEPT !.kids = k]
  BY DEF RemoveBlock
<1> HIDE DEF k
<1>3. RemoveBlock(t, b) \in Tree /\ RemoveBlock(t, b).kids = k
  BY <1>1, <1>2 DEF Tree
<1> QED
  BY <1>1, <1>3, TreeParts, Filtering DEF Kids

\* To replace one list of children changes nothing else.
LEMMA Placing ==
  ASSUME NEW t \in Tree, NEW p \in Parents, NEW s \in Seq(Blocks)
  PROVE  /\ [t EXCEPT !.kids[p] = s] \in Tree
         /\ \A q \in Parents : Kids([t EXCEPT !.kids[p] = s], q)
                                 = IF q = p THEN Elements(s) ELSE Kids(t, q)
<1> DEFINE u == [t EXCEPT !.kids[p] = s]
<1>1. u \in Tree /\ u.kids = [t.kids EXCEPT ![p] = s]
  BY DEF Tree
<1>2. t.kids \in [Parents -> Seq(Blocks)]
  BY DEF Tree
<1> HIDE DEF u
<1>3. \A q \in Parents : u.kids[q] = IF q = p THEN s ELSE t.kids[q]
  BY <1>1, <1>2
<1> QED
  BY <1>1, <1>3 DEF Kids, u

\* insertInto puts the block in its parent if the tree has that parent.
LEMMA InsertingInto ==
  ASSUME NEW t \in Tree, NEW p \in Parents, NEW i \in Nat, NEW b \in Blocks
  PROVE  /\ InsertInto(t, p, i, b) \in Tree
         /\ \A q \in Parents : Kids(InsertInto(t, p, i, b), q)
              = IF q = p /\ (p = Root \/ p \in Present(t)) THEN Kids(t, q) \cup {b} ELSE Kids(t, q)
<1>1. t.kids[p] \in Seq(Blocks)
  BY TreeParts
<1>2. InsertInto(t, p, i, b) = IF p = Root \/ p \in Present(t)
                                 THEN [t EXCEPT !.kids[p] = InsertAt(t.kids[p], i, b)] ELSE t
  BY DEF InsertInto
<1>3. /\ InsertAt(t.kids[p], i, b) \in Seq(Blocks)
      /\ Elements(InsertAt(t.kids[p], i, b)) = Kids(t, p) \cup {b}
  <2>1. \A s \in Seq(Blocks) : /\ InsertAt(s, i, b) \in Seq(Blocks)
                               /\ Elements(InsertAt(s, i, b)) = Elements(s) \cup {b}
    BY Inserting
  <2> QED
    BY <1>1, <2>1 DEF Kids
<1>4. CASE p = Root \/ p \in Present(t)
  <2> DEFINE s == InsertAt(t.kids[p], i, b)
             u == [t EXCEPT !.kids[p] = s]
  <2>1. s \in Seq(Blocks) /\ Elements(s) = Kids(t, p) \cup {b} /\ InsertInto(t, p, i, b) = u
    BY <1>2, <1>3, <1>4
  <2> HIDE DEF s
  <2>2. u \in Tree /\ \A q \in Parents : Kids(u, q) = IF q = p THEN Elements(s) ELSE Kids(t, q)
    BY <2>1, Placing
  <2> HIDE DEF u
  <2> QED
    BY <1>4, <2>1, <2>2
<1>5. CASE ~(p = Root \/ p \in Present(t))
  BY <1>2, <1>5
<1> QED
  BY <1>4, <1>5

\* Props are no children.
LEMMA Coloring ==
  ASSUME NEW t \in Tree, NEW b \in Blocks, NEW v \in Values
  PROVE  /\ [t EXCEPT !.props[b] = v] \in Tree
         /\ \A q \in Parents : Kids([t EXCEPT !.props[b] = v], q) = Kids(t, q)
  BY DEF Tree, Kids

\* A block that has one parent at most leaves it in the tree when it is taken out.
LEMMA ParentStays ==
  ASSUME NEW t \in Tree, NEW b \in Present(t), NEW p \in Parents,
         \A q \in Parents : b \in Kids(t, q) => q = p
  PROVE  b \in Kids(t, p) /\ (p = Root \/ p \in Present(RemoveBlock(t, b)))
<1>1. b \in Kids(t, p)
  BY HasParent
<1> DEFINE u == RemoveBlock(t, b)
           S == Present(u) \ {b}
<1>2. u \in Tree /\ \A q \in Parents : Kids(u, q) = Kids(t, q) \ {b}
  BY Removing
<1> HIDE DEF u
<1>3. b \notin Present(u)
  BY <1>2, HasParent
<1>4. CASE ~(p = Root \/ p \in Present(u))
  <2>1. Spans(t, Present(u))
    <3> SUFFICES ASSUME NEW q \in {Root} \cup (Present(u) \cap Containers), NEW c \in Kids(t, q)
                 PROVE  c \in Present(u)
      BY DEF Spans
    <3>1. q \in Parents /\ q # p
      BY <1>4 DEF Parents
    <3>2. c # b
      BY <3>1
    <3>3. c \in Kids(u, q)
      BY <1>2, <3>1, <3>2
    <3> QED
      BY <1>2, <3>3, Reaching DEF Spans
  <2> QED
    BY <1>3, <2>1, Reaching
<1> QED
  BY <1>1, <1>4 DEF u


-----------------------------------------------------------------------------
\* What an operation does to a tree.

Kinds == {"ADD_BLOCK", "DELETE_BLOCK", "MOVE_BLOCK", "UPDATE_PROPS"}

\* The fields of an operation are what the trees can hold.
Fits(o) ==
    /\ o.op \in Kinds /\ o.block \in Blocks /\ o.parent \in Parents /\ o.index \in Nat
    /\ o.kids \in [Containers -> Seq(Blocks)] /\ o.props \in Values

\* The children of p in a tree that has what o brings; where o puts its block.
Grafted(t, o, p) == IF p \in BlocksOf(o) THEN Elements(o.kids[p]) ELSE Kids(t, p)
At(o, p) == IF p = o.parent THEN {o.block} ELSE {}

\* Root is a parent and no block; what is nested are blocks.
LEMMA ParentsAre ==
  ASSUME LiveEditingAssumption
  PROVE  /\ Root \in Parents /\ Root \notin Blocks /\ Containers \subseteq Blocks
         /\ \A p \in Parents : p # Root => p \in Containers
         /\ \A p \in Parents : p \in Blocks => p \in Containers
         /\ \A k \in [Containers -> Seq(Blocks)] : Nested(k) \subseteq Blocks
         /\ Bare \in [Containers -> Seq(Blocks)] /\ Nested(Bare) = {}
<1>1. \A s \in Seq(Blocks) : Elements(s) \subseteq Blocks
  BY DEF Elements
<1>2. \A k \in [Containers -> Seq(Blocks)] : Nested(k) \subseteq Blocks
  BY <1>1 DEF Nested
<1>3. Bare \in [Containers -> Seq(Blocks)] /\ \A c \in Containers : Elements(Bare[c]) = {}
  BY DEF Bare, Elements
<1> QED
  BY <1>2, <1>3 DEF LiveEditingAssumption, Parents, Nested

\* The blocks that an operation brings.
LEMMA BroughtBlocks ==
  ASSUME LiveEditingAssumption, NEW o, Fits(o)
  PROVE  /\ BlocksOf(o) \subseteq Blocks
         /\ \A p \in Parents : p \in BlocksOf(o) => p \in Containers
         /\ \A c \in Containers : o.kids[c] \in Seq(Blocks) /\ Elements(o.kids[c]) \subseteq BlocksOf(o)
<1>1. \A c \in Containers : o.kids[c] \in Seq(Blocks) /\ Elements(o.kids[c]) \subseteq Nested(o.kids)
  BY DEF Fits, Nested
<1>2. Nested(o.kids) \subseteq Blocks
  BY ParentsAre DEF Fits
<1> QED
  BY <1>1, <1>2, ParentsAre DEF BlocksOf, Fits

\* A tree with what an operation brings, and s for the children of its parent.
Put(t, o, s) == [Graft(t, o) EXCEPT !.kids[o.parent] = s]

LEMMA Grafting ==
  ASSUME LiveEditingAssumption, NEW t \in Tree, NEW o, Fits(o)
  PROVE  /\ Graft(t, o) \in Tree
         /\ \A q \in Parents : Kids(Graft(t, o), q) = Grafted(t, o, q)
         /\ \A s \in Seq(Blocks) : Elements(s) = Elements(Graft(t, o).kids[o.parent]) \cup {o.block} =>
              /\ Put(t, o, s) \in Tree
              /\ \A q \in Parents : Kids(Put(t, o, s), q) = Grafted(t, o, q) \cup At(o, q)
<1>1. PICK p \in Parents : p = o.parent
  BY DEF Fits
<1> DEFINE k == [q \in Parents |-> IF q \in BlocksOf(o) THEN o.kids[q] ELSE t.kids[q]]
           c == [b \in Blocks |-> IF b \in BlocksOf(o) THEN o.props ELSE t.props[b]]
           g == Graft(t, o)
<1>2. k \in [Parents -> Seq(Blocks)]
  BY BroughtBlocks, TreeParts
<1>3. c \in [Blocks -> Values]
  BY TreeParts DEF Fits
<1>4. g = [kids |-> k, props |-> c]
  BY DEF Graft
<1>5. g \in Tree /\ \A q \in Parents : g.kids[q] = IF q \in BlocksOf(o) THEN o.kids[q] ELSE t.kids[q]
  <2> HIDE DEF c
  <2>1. \A q \in Parents : k[q] = IF q \in BlocksOf(o) THEN o.kids[q] ELSE t.kids[q]
    OBVIOUS
  <2> HIDE DEF k, g
  <2> QED
    BY <1>2, <1>3, <1>4, <2>1 DEF Tree
<1> HIDE DEF k, c, g
<1>6. \A q \in Parents : Kids(g, q) = Grafted(t, o, q)
  BY <1>5 DEF Kids, Grafted
<1>7. ASSUME NEW s \in Seq(Blocks), Elements(s) = Elements(g.kids[p]) \cup {o.block}
      PROVE  /\ Put(t, o, s) \in Tree
             /\ \A q \in Parents : Kids(Put(t, o, s), q) = Grafted(t, o, q) \cup At(o, q)
  <2> DEFINE u == [g EXCEPT !.kids[p] = s]
  <2>1. u \in Tree /\ \A q \in Parents : Kids(u, q) = IF q = p THEN Elements(s) ELSE Kids(g, q)
    <3>1. g \in Tree
      BY <1>5
    <3> QED
      BY ONLY <3>1, p \in Parents, s \in Seq(Blocks), Placing
  <2> HIDE DEF u
  <2>2. \A q \in Parents : Kids(u, q) = Grafted(t, o, q) \cup At(o, q)
    BY <1>1, <1>6, <1>7, <2>1 DEF Kids, At
  <2>3. Put(t, o, s) = u
    BY <1>1 DEF Put, u, g
  <2> QED
    BY <2>1, <2>2, <2>3
<1> QED
  BY <1>1, <1>5, <1>6, <1>7 DEF g

\* Where an addition finds its parent.
Finds(t, o) == o.parent = Root \/ o.parent \in Present(t)

\* What an operation does to the children, by its kind.
LEMMA Applying ==
  ASSUME LiveEditingAssumption, NEW t \in Tree, NEW o, Fits(o)
  PROVE  LET u == ApplyOperation(t, o)
         IN  /\ u \in Tree
             /\ o.op = "UPDATE_PROPS" => \A q \in Parents : Kids(u, q) = Kids(t, q)
             /\ o.op = "DELETE_BLOCK" => \A q \in Parents : Kids(u, q) = Kids(t, q) \ {o.block}
             /\ o.op = "ADD_BLOCK" /\ Finds(t, o) =>
                  \A q \in Parents : Kids(u, q) = Grafted(t, o, q) \cup At(o, q)
             /\ o.op = "ADD_BLOCK" /\ ~Finds(t, o) => u = t
             /\ o.op = "MOVE_BLOCK" => \A q \in Parents : Kids(u, q) \subseteq Kids(t, q) \cup At(o, q)
             /\ o.op = "MOVE_BLOCK" /\ (\A q \in Parents : o.block \in Kids(t, q) => q = o.parent)
                  => \A q \in Parents : Kids(u, q) = Kids(t, q)
<1> DEFINE u == ApplyOperation(t, o)
<1>0. PICK b \in Blocks, p \in Parents, i \in Nat, v \in Values :
          b = o.block /\ p = o.parent /\ i = o.index /\ v = o.props
  BY DEF Fits
<1>1. CASE o.op = "UPDATE_PROPS"
  <2> DEFINE s == [t EXCEPT !.props[b] = v]
  <2>1. u = IF o.block \in Present(t) THEN s ELSE t
    BY <1>0, <1>1 DEF ApplyOperation
  <2>2. s \in Tree /\ \A q \in Parents : Kids(s, q) = Kids(t, q)
    BY Coloring
  <2> HIDE DEF s, u
  <2>3. u \in Tree /\ \A q \in Parents : Kids(u, q) = Kids(t, q)
    BY <2>1, <2>2
  <2> QED
    BY <1>1, <2>3 DEF u
<1>2. CASE o.op = "DELETE_BLOCK"
  <2>1. u = RemoveBlock(t, o.block)
    BY <1>2 DEF ApplyOperation, ApplyDelete
  <2> QED
    BY <1>2, <2>1, Removing
<1>3. CASE o.op = "ADD_BLOCK"
  <2> DEFINE l == Graft(t, o).kids[o.parent]
             s == InsertAt(l, i, b)
             r == Put(t, o, s)
  <2>1. u = IF Finds(t, o) THEN r ELSE t
    BY <1>0, <1>3 DEF ApplyOperation, Finds, Put
  <2>2. l \in Seq(Blocks)
    <3>1. Graft(t, o) \in Tree
      BY Grafting
    <3> QED
      BY <1>0, <3>1, TreeParts
  <2>3. s \in Seq(Blocks) /\ Elements(s) = Elements(l) \cup {o.block}
    <3>1. \A l2 \in Seq(Blocks) : /\ InsertAt(l2, i, b) \in Seq(Blocks)
                                 /\ Elements(InsertAt(l2, i, b)) = Elements(l2) \cup {b}
      BY ONLY i \in Nat, b \in Blocks, Inserting
    <3> HIDE DEF l
    <3> QED
      BY <1>0, <2>2, <3>1
  <2> HIDE DEF s
  <2>4. r \in Tree /\ \A q \in Parents : Kids(r, q) = Grafted(t, o, q) \cup At(o, q)
    BY <2>3, Grafting
  <2> HIDE DEF r, u
  <2>5. u \in Tree
    BY <2>1, <2>4
  <2>6. /\ Finds(t, o) => \A q \in Parents : Kids(u, q) = Grafted(t, o, q) \cup At(o, q)
        /\ ~Finds(t, o) => u = t
    BY <2>1, <2>4
  <2> QED
    BY <1>3, <2>5, <2>6 DEF u
<1>4. CASE o.op = "MOVE_BLOCK"
  <2> DEFINE s == RemoveBlock(t, o.block)
             r == InsertInto(s, p, i, b)
  <2>1. u = IF o.block \in Present(t) THEN r ELSE t
    BY <1>0, <1>4 DEF ApplyOperation, ApplyMove
  <2>2. s \in Tree /\ \A q \in Parents : Kids(s, q) = Kids(t, q) \ {o.block}
    BY Removing
  <2>3. ASSUME o.block \in Present(t), \A q \in Parents : o.block \in Kids(t, q) => q = o.parent
        PROVE  o.block \in Kids(t, o.parent) /\ (o.parent = Root \/ o.parent \in Present(s))
    <3>1. b \in Kids(t, p) /\ (p = Root \/ p \in Present(RemoveBlock(t, b)))
      BY <1>0, <2>3, ParentStays
    <3> QED
      BY <1>0, <3>1
  <2> HIDE DEF s
  <2>4. /\ r \in Tree
        /\ \A q \in Parents : Kids(r, q)
             = IF q = p /\ (p = Root \/ p \in Present(s)) THEN Kids(s, q) \cup {b} ELSE Kids(s, q)
    BY <2>2, InsertingInto
  <2> HIDE DEF r, u
  <2>5. u \in Tree
    BY <2>1, <2>4
  <2>6. \A q \in Parents : Kids(u, q) \subseteq Kids(t, q) \cup At(o, q)
    BY <1>0, <2>1, <2>2, <2>4 DEF At
  <2>7. ASSUME o.block \in Present(t), \A q \in Parents : o.block \in Kids(t, q) => q = o.parent
        PROVE  \A q \in Parents : Kids(u, q) = Kids(t, q)
    <3>1. o.block \in Kids(t, o.parent) /\ (o.parent = Root \/ o.parent \in Present(s))
      BY <2>3, <2>7
    <3>2. u = r
      BY <2>1, <2>7
    <3>3. \A q \in Parents : Kids(u, q) =
            IF q = p THEN (Kids(t, q) \ {b}) \cup {b} ELSE Kids(t, q) \ {b}
      BY <1>0, <2>2, <2>4, <3>1, <3>2
    <3>4. \A q \in Parents : q # p => Kids(t, q) \ {b} = Kids(t, q)
      BY <1>0, <2>7
    <3>5. (Kids(t, p) \ {b}) \cup {b} = Kids(t, p)
      BY <1>0, <3>1
    <3> QED
      BY <3>3, <3>4, <3>5
  <2>8. o.block \notin Present(t) => u = t
    BY <2>1
  <2> QED
    BY <1>4, <2>5, <2>6, <2>7, <2>8 DEF u
<1> QED
  BY <1>1, <1>2, <1>3, <1>4 DEF Fits, Kinds


-----------------------------------------------------------------------------
\* The types of what the windows hold and of what travels.

\* A list at the top level makes a tree.
LEMMA FlatIsTree ==
  ASSUME LiveEditingAssumption, NEW s \in Seq(Blocks)
  PROVE  /\ Flat(s) \in Tree
         /\ \A p \in Parents : Kids(Flat(s), p) = IF p = Root THEN Elements(s) ELSE {}
<1> DEFINE k == [p \in Parents |-> IF p = Root THEN s ELSE <<>>]
<1>1. k \in [Parents -> Seq(Blocks)]
  OBVIOUS
<1>2. [b \in Blocks |-> Plain] \in [Blocks -> Values]
  BY DEF LiveEditingAssumption
<1>3. Flat(s) \in Tree /\ Flat(s).kids = k
  BY <1>1, <1>2 DEF Flat, Tree
<1>4. Elements(<<>>) = {}
  BY DEF Elements
<1> QED
  BY <1>3, <1>4 DEF Kids

\* Everything has its type at the beginning.
LEMMA InitTypes ==
  ASSUME LiveEditingAssumption, EditingInit
  PROVE  EditingTypeOK
<1>1. Flat(Initial) \in Tree /\ Flat(Page) \in Tree
  BY FlatIsTree DEF LiveEditingAssumption
<1>2. \A w \in Windows : Flat(IF w \in loading THEN Page ELSE Initial) \in Tree
  BY <1>1
<1>3. tree \in [Windows -> Tree] /\ shown \in [Editors -> Tree]
  BY <1>2 DEF EditingInit, Windows
<1>4. timer \in [Editors -> SUBSET BlockOperation] /\ sent \subseteq BlockOperation
  BY DEF EditingInit
<1>5. inbox \in [Editors -> Seq(BlockOperation)]
  BY DEF EditingInit
<1>6. /\ emitted \in [Editors -> SUBSET (1..made)] /\ made \in 0..MaxEvents /\ losses \in 0..MaxEvents
      /\ loading \subseteq Editors /\ drafts \subseteq Tree
      /\ {apart, disordered} \subseteq SUBSET Windows /\ faded \in [Windows -> SUBSET Blocks]
  BY <1>1 DEF EditingInit, LiveEditingAssumption
<1> QED
  BY <1>3, <1>4, <1>5, <1>6 DEF EditingTypeOK

\* The fields of an operation.
LEMMA OperationFits ==
  ASSUME NEW o \in BlockOperation
  PROVE  Fits(o) /\ o.id \in 1..made /\ o.from \in Editors
  BY DEF BlockOperation, Fits, Kinds

\* The operation that an editor makes.
Made(e, kind, b, p, i, k, v) ==
    [op |-> kind, block |-> b, parent |-> p, index |-> i, kids |-> k, props |-> v,
     id |-> made + 1, from |-> e]

\* The operation of an addition, and an operation with its editor.
Adds(b, p, i, k, v) == [Operation("ADD_BLOCK", b, p, i, v) EXCEPT !.kids = k]
By(e, o) == [o EXCEPT !.from = e]

\* An edit by the fields of its operation.
Editing(e, m, t) == \E o : Edit(e, o, t) /\ By(e, o) = m

\* The fields are as Made has them.
LEMMA MadeIs ==
  ASSUME NEW e \in Editors, NEW kind, NEW b, NEW p, NEW i, NEW k, NEW v
  PROVE  /\ By(e, Operation(kind, b, p, i, v)) = Made(e, kind, b, p, i, Bare, v)
         /\ By(e, Adds(b, p, i, k, v)) = Made(e, "ADD_BLOCK", b, p, i, k, v)
<1> DEFINE o == [Operation("ADD_BLOCK", b, p, i, v) EXCEPT !.kids = k]
           r == [op |-> "ADD_BLOCK", block |-> b, parent |-> p, index |-> i, kids |-> k,
                 props |-> v, id |-> made + 1, from |-> Root]
<1>1. o = r
  BY DEF Operation
<1>2. By(e, r) = Made(e, "ADD_BLOCK", b, p, i, k, v)
  BY DEF Made, By
<1>3. By(e, Operation(kind, b, p, i, v)) = Made(e, kind, b, p, i, Bare, v)
  BY DEF Operation, Made, By
<1>4. Adds(b, p, i, k, v) = o
  BY DEF Adds
<1> HIDE DEF o, r
<1> QED
  BY <1>1, <1>2, <1>3, <1>4

\* What an edit by an operation of the kind does to the children of the tree s; the
\* operation is about blocks of s, or a new one.
Effect(m, s, t) ==
    \/ /\ m.op = "ADD_BLOCK" /\ Finds(s, m)
       /\ \/ m.block = NewBlock[m.id] /\ m.kids = Bare
          \/ m.block = NewBlock[m.id] /\ m.kids = Template[m.id].kids
       /\ \A q \in Parents : Kids(t, q) = Grafted(s, m, q) \cup At(m, q)
    \/ /\ m.op = "DELETE_BLOCK" /\ m.block \in Present(s)
       /\ \A q \in Parents : Kids(t, q) = Kids(s, q) \ {m.block}
    \/ /\ m.op = "MOVE_BLOCK" /\ m.block \in Kids(s, m.parent)
       /\ \A q \in Parents : Kids(t, q) = Kids(s, q)
    \/ /\ m.op = "UPDATE_PROPS"
       /\ \A q \in Parents : Kids(t, q) = Kids(s, q)

\* What the blocks of an addition are.
LEMMA FreshBlocks ==
  ASSUME LiveEditingAssumption, FreshAssumption, NEW n \in 1..MaxEvents
  PROVE  /\ NewBlock[n] \in Blocks /\ Template[n].kids \in [Containers -> Seq(Blocks)]
         /\ Template[n].props \in Values
  BY DEF FreshAssumption

\* Every edit of a user is by one operation, and its effect on the editor's own tree is
\* that of its kind.
LEMMA UserEdits ==
  ASSUME LiveEditingAssumption, FreshAssumption, EditingTypeOK, NEW e \in Editors, EditByUser(e)
  PROVE  /\ made + 1 \in 1..MaxEvents
         /\ \E kind \in Kinds, b \in Blocks, p \in Parents, i \in Nat, k \in [Containers -> Seq(Blocks)],
               v \in Values, t \in Tree :
               /\ Editing(e, Made(e, kind, b, p, i, k, v), t)
               /\ Effect(Made(e, kind, b, p, i, k, v), shown[e], t)
<1> DEFINE Goal == \E kind \in Kinds, b \in Blocks, p \in Parents, i \in Nat,
                      k \in [Containers -> Seq(Blocks)], v \in Values, t \in Tree :
                      /\ Editing(e, Made(e, kind, b, p, i, k, v), t)
                      /\ Effect(Made(e, kind, b, p, i, k, v), shown[e], t)
<1>1. shown[e] \in Tree /\ made + 1 \in 1..MaxEvents
  BY DEF EditingTypeOK, EditByUser, Bounded, LiveEditingAssumption
<1>2. /\ Root \in Parents /\ Plain \in Values /\ Bare \in [Containers -> Seq(Blocks)]
      /\ Present(shown[e]) \subseteq Blocks
  BY <1>1, Reaching, ParentsAre DEF LiveEditingAssumption
<1>3. \A kind, b, p, i, v : By(e, Operation(kind, b, p, i, v)) = Made(e, kind, b, p, i, Bare, v)
  BY MadeIs
<1>4. ASSUME NEW p \in Parents, NEW k \in [Containers -> Seq(Blocks)], NEW v \in Values,
             k = Bare \/ k = Template[made + 1].kids, Insert(e, p, k, v)
      PROVE  Goal
  <2> DEFINE s == shown[e]
  <2>0. PICK b, i : b = NewBlock[made + 1] /\ i = Len(s.kids[p])
    OBVIOUS
  <2> DEFINE o == Adds(b, p, i, k, v)
             m == Made(e, "ADD_BLOCK", b, p, i, k, v)
             l == Graft(s, o).kids[p]
             t == [Graft(s, o) EXCEPT !.kids[p] = Append(l, b)]
  <2>1. b \in Blocks /\ i \in Nat
    BY <1>1, <2>0, FreshBlocks, TreeParts
  <2>2. Edit(e, o, t) /\ (p = Root \/ p \in Present(s))
    BY <1>4, <2>0 DEF Insert, Adds
  <2>3. By(e, o) = m
    BY ONLY e \in Editors, MadeIs
  <2>4. Fits(m) /\ m.parent = p /\ m.block = b /\ m.kids = k /\ m.id = made + 1 /\ m.op = "ADD_BLOCK"
    BY <2>1 DEF Fits, Made, Kinds
  <2>5. Graft(s, o) = Graft(s, m)
    <3>1. o.block = m.block /\ o.kids = m.kids /\ o.props = m.props
      BY DEF Operation, Made, Adds
    <3> HIDE DEF o, m, s
    <3> QED
      BY <3>1 DEF Graft, BlocksOf
  <2> HIDE DEF o, m, s
  <2>6. Graft(s, m) \in Tree /\ l \in Seq(Blocks)
    BY <1>1, <2>4, <2>5, Grafting, TreeParts DEF s
  <2>7. Append(l, b) \in Seq(Blocks) /\ Elements(Append(l, b)) = Elements(l) \cup {b}
    <3> HIDE DEF l
    <3> QED
      BY <2>1, <2>6, Appending
  <2>8. t \in Tree /\ \A q \in Parents : Kids(t, q) = Grafted(s, m, q) \cup At(m, q)
    <3> DEFINE r == Append(l, b)
    <3>1. r \in Seq(Blocks) /\ Elements(r) = Elements(Graft(s, m).kids[m.parent]) \cup {m.block}
      BY <2>4, <2>5, <2>7
    <3>2. s \in Tree
      BY <1>1 DEF s
    <3> HIDE DEF r, l
    <3>3. Fits(m)
      BY <2>4
    <3>4. Put(s, m, r) \in Tree /\ \A q \in Parents : Kids(Put(s, m, r), q) = Grafted(s, m, q) \cup At(m, q)
      BY ONLY LiveEditingAssumption, <3>1, <3>2, <3>3, Grafting
    <3>5. t = Put(s, m, r)
      BY <2>4, <2>5 DEF Put, r, l
    <3> QED
      BY <3>4, <3>5
  <2> HIDE DEF t
  <2>9. Editing(e, m, t)
    BY <2>2, <2>3 DEF Editing
  <2>10. Effect(m, s, t)
    BY <1>4, <2>0, <2>2, <2>4, <2>8 DEF Effect, Finds
  <2>11. "ADD_BLOCK" \in Kinds
    BY DEF Kinds
  <2> QED
    BY <2>1, <2>8, <2>9, <2>10, <2>11 DEF m, s
<1>5. ASSUME NEW b \in Present(shown[e]), DeleteBlock(e, b)
      PROVE  Goal
  <2> DEFINE t == RemoveBlock(shown[e], b)
             m == Made(e, "DELETE_BLOCK", b, Root, 0, Bare, Plain)
  <2>1. Edit(e, Operation("DELETE_BLOCK", b, Root, 0, Plain), t)
    BY <1>5 DEF DeleteBlock
  <2>2. t \in Tree /\ \A q \in Parents : Kids(t, q) = Kids(shown[e], q) \ {b}
    BY <1>1, Removing
  <2>3. m.op = "DELETE_BLOCK" /\ m.block = b
    BY DEF Made
  <2> HIDE DEF t
  <2>4. Editing(e, m, t)
    BY <1>3, <2>1 DEF Editing
  <2> HIDE DEF m
  <2>5. Effect(m, shown[e], t)
    BY <2>2, <2>3 DEF Effect
  <2>6. b \in Blocks /\ 0 \in Nat /\ "DELETE_BLOCK" \in Kinds
    BY <1>2 DEF Kinds
  <2> QED
    BY <1>2, <2>2, <2>4, <2>5, <2>6 DEF m
<1>6. ASSUME NEW b \in Present(shown[e]), NEW p \in Parents, NEW i, NEW j, MoveBlock(e, b, p, i, j)
      PROVE  Goal
  <2> DEFINE s == shown[e].kids[p]
             r == [s EXCEPT ![i] = s[j], ![j] = b]
             t == [shown[e] EXCEPT !.kids[p] = r]
             m == Made(e, "MOVE_BLOCK", b, p, j - 1, Bare, Plain)
  <2>1. s \in Seq(Blocks) /\ Elements(s) = Kids(shown[e], p)
    BY <1>1, TreeParts DEF Kids
  <2>2. /\ i \in DOMAIN s /\ j \in DOMAIN s /\ s[i] = b
        /\ Edit(e, Operation("MOVE_BLOCK", b, p, j - 1, Plain), t)
    BY <1>6 DEF MoveBlock
  <2>3. r \in Seq(Blocks) /\ Elements(r) = Elements(s)
    <3> HIDE DEF s
    <3> QED
      BY <2>1, <2>2, Swapping
  <2>4. j - 1 \in Nat /\ b \in Elements(s)
    BY <2>1, <2>2, Members
  <2>5. m.op = "MOVE_BLOCK" /\ m.block = b /\ m.parent = p
    BY DEF Made
  <2>6. Editing(e, m, t)
    <3>1. By(e, Operation("MOVE_BLOCK", b, p, j - 1, Plain)) = m
      BY <1>3
    <3> HIDE DEF t, m, s
    <3> QED
      BY <2>2, <3>1 DEF Editing
  <2> HIDE DEF r
  <2>7. t \in Tree /\ \A q \in Parents : Kids(t, q) = IF q = p THEN Elements(r) ELSE Kids(shown[e], q)
    <3>1. r \in Seq(Blocks) /\ shown[e] \in Tree
      BY <1>1, <2>3
    <3> QED
      BY ONLY <3>1, p \in Parents, Placing
  <2> HIDE DEF t, s, m
  <2>8. Effect(m, shown[e], t)
    BY <2>1, <2>3, <2>4, <2>5, <2>7 DEF Effect
  <2>9. b \in Blocks /\ "MOVE_BLOCK" \in Kinds
    BY <1>2 DEF Kinds
  <2> QED
    BY <1>2, <2>4, <2>6, <2>7, <2>8, <2>9 DEF m
<1>7. ASSUME NEW b \in Present(shown[e]), NEW v \in Values, UpdateBlockProps(e, b, v)
      PROVE  Goal
  <2> DEFINE t == [shown[e] EXCEPT !.props[b] = v]
             m == Made(e, "UPDATE_PROPS", b, Root, 0, Bare, v)
  <2>1. Edit(e, Operation("UPDATE_PROPS", b, Root, 0, v), t)
    BY <1>7 DEF UpdateBlockProps
  <2>2. b \in Blocks /\ 0 \in Nat /\ "UPDATE_PROPS" \in Kinds
    BY <1>2 DEF Kinds
  <2>3. t \in Tree /\ \A q \in Parents : Kids(t, q) = Kids(shown[e], q)
    <3>1. b \in Blocks /\ shown[e] \in Tree
      BY <1>1, <2>2
    <3> QED
      BY ONLY <3>1, v \in Values, Coloring
  <2>4. m.op = "UPDATE_PROPS"
    BY DEF Made
  <2>5. Editing(e, m, t)
    BY <1>3, <2>1 DEF Editing
  <2> HIDE DEF t, m
  <2>6. Effect(m, shown[e], t)
    BY <2>3, <2>4 DEF Effect
  <2> QED
    BY <1>2, <2>2, <2>3, <2>5, <2>6 DEF m
<1>8. Goal
  <2>1. ASSUME NEW p \in Parents, AddBlock(e, p) PROVE Goal
    <3>1. Insert(e, p, Bare, Plain)
      BY <2>1 DEF AddBlock
    <3> HIDE DEF Goal
    <3> QED
      BY <1>2, <1>4, <3>1
  <2>2. ASSUME NEW p \in Parents, InsertTemplateBlock(e, p) PROVE Goal
    <3>1. Insert(e, p, Template[made + 1].kids, Template[made + 1].props)
      BY <2>2 DEF InsertTemplateBlock
    <3>2. Template[made + 1].kids \in [Containers -> Seq(Blocks)] /\ Template[made + 1].props \in Values
      BY <1>1, FreshBlocks
    <3> HIDE DEF Goal
    <3> QED
      BY <1>4, <3>1, <3>2
  <2> HIDE DEF Goal
  <2> QED
    BY <1>5, <1>6, <1>7, <2>1, <2>2 DEF EditByUser
<1> QED
  BY <1>1, <1>8


\* A tree as it is stored.
StoredTree(t) == [t EXCEPT !.props = [b \in Blocks |-> Stored[@[b]]]]

\* What an edit does, in terms of its operation.
LEMMA EditDoes ==
  ASSUME NEW e, NEW m, NEW t, Editing(e, m, t)
  PROVE  /\ made' = made + 1 /\ tree' = [tree EXCEPT ![e] = t]
         /\ drafts' = drafts \/ drafts' = drafts \cup {StoredTree(t)}
         /\ m.op = "UPDATE_PROPS" =>
              timer' = [timer EXCEPT ![e] = {m}] /\ sent' = sent /\ emitted' = emitted
         /\ m.op # "UPDATE_PROPS" =>
              /\ sent' = sent \cup {m} /\ timer' = timer
              /\ emitted' = [emitted EXCEPT ![e] = @ \cup {m.id}]
         /\ apart' = IF shown[e] # tree[e] THEN apart \cup {e} ELSE apart
         /\ UNCHANGED <<shown, loading, inbox, losses>>
<1>1. PICK o : Edit(e, o, t) /\ By(e, o) = m
  BY DEF Editing
<1> QED
  BY <1>1 DEF Edit, By, StoredTree

\* What an editor has still to receive from the others; the blocks whose props were
\* waiting in its timer.
Unseen(e) == {p \in Elements(inbox[e]) : p.from # e}
Unsent(e, m) == IF m.op = "UPDATE_PROPS" THEN {p.block : p \in timer[e]} \ {m.block} ELSE {}

LEMMA EditExcuses ==
  ASSUME NEW e, NEW m, NEW t, Editing(e, m, t)
  PROVE  /\ disordered' = IF ShapesWith(m, Unseen(e)) THEN disordered \cup {e} ELSE disordered
         /\ faded' = [faded EXCEPT ![e] = @ \cup Unsent(e, m) \cup ColorsWith(m, Unseen(e))]
<1>1. PICK o : Edit(e, o, t) /\ By(e, o) = m
  BY DEF Editing
<1> QED
  BY <1>1 DEF Edit, By, Unseen, Unsent

\* What is stored is a tree with the same children.
LEMMA StoringKeeps ==
  ASSUME LiveEditingAssumption, NEW t \in Tree
  PROVE  StoredTree(t) \in Tree /\ \A p \in Parents : Kids(StoredTree(t), p) = Kids(t, p)
<1> DEFINE c == [b \in Blocks |-> Stored[t.props[b]]]
<1>1. c \in [Blocks -> Values]
  BY TreeParts DEF LiveEditingAssumption
<1>2. StoredTree(t) = [t EXCEPT !.props = c]
  BY DEF StoredTree
<1> HIDE DEF c
<1> QED
  BY <1>1, <1>2 DEF Tree, Kids

\* What has been made stays a possible operation.
LEMMA OperationsGrow ==
  ASSUME EditingTypeOK, made' = made + 1
  PROVE  /\ BlockOperation \subseteq BlockOperation'
         /\ 1..made \subseteq 1..made' /\ made' \in 1..made'
         /\ Seq(BlockOperation) \subseteq Seq(BlockOperation')
<1>1. 1..made \subseteq 1..made' /\ made' \in 1..made'
  BY DEF EditingTypeOK
<1>2. BlockOperation \subseteq BlockOperation'
  BY <1>1 DEF BlockOperation
<1> QED
  BY <1>1, <1>2, SeqMonotonic

\* The operation that is made.
LEMMA MadeFits ==
  ASSUME EditingTypeOK, made' = made + 1, NEW e \in Editors,
         NEW kind \in Kinds, NEW b \in Blocks, NEW p \in Parents, NEW i \in Nat,
         NEW k \in [Containers -> Seq(Blocks)], NEW v \in Values
  PROVE  LET m == Made(e, kind, b, p, i, k, v)
         IN  /\ m \in BlockOperation' /\ Fits(m)
             /\ m.op = kind /\ m.block = b /\ m.parent = p /\ m.index = i /\ m.kids = k /\ m.props = v
             /\ m.id = made + 1 /\ m.from = e
<1>1. made + 1 \in 1..made'
  BY DEF EditingTypeOK
<1> QED
  BY <1>1 DEF Made, BlockOperation, Kinds, Fits

\* What the server makes of an operation.
CleanOf(o) == [o EXCEPT !.props = Cleaned[@]]

LEMMA CleaningKeeps ==
  ASSUME LiveEditingAssumption, NEW o \in BlockOperation
  PROVE  /\ CleanOf(o) \in BlockOperation /\ Fits(CleanOf(o))
         /\ CleanOf(o).op = o.op /\ CleanOf(o).block = o.block /\ CleanOf(o).parent = o.parent
         /\ CleanOf(o).index = o.index /\ CleanOf(o).kids = o.kids
         /\ CleanOf(o).id = o.id /\ CleanOf(o).from = o.from
         /\ CleanOf(o).props = Cleaned[o.props]
  BY DEF LiveEditingAssumption, CleanOf, BlockOperation, Fits, Kinds

\* An edit keeps all types.
LEMMA EditTypes ==
  ASSUME LiveEditingAssumption, EditingTypeOK, made + 1 \in 1..MaxEvents, NEW e \in Editors,
         NEW m \in BlockOperation', m.from = e, m.id = made + 1, NEW t \in Tree, Editing(e, m, t)
  PROVE  EditingTypeOK'
<1>1. made' = made + 1 /\ m.block \in Blocks
  BY EditDoes DEF BlockOperation
<1>2. /\ BlockOperation \subseteq BlockOperation' /\ 1..made \subseteq 1..made' /\ made' \in 1..made'
      /\ Seq(BlockOperation) \subseteq Seq(BlockOperation')
  BY <1>1, OperationsGrow
<1>3. tree' \in [Windows -> Tree] /\ shown' \in [Editors -> Tree] /\ drafts' \subseteq Tree
  <2>1. tree' = [tree EXCEPT ![e] = t] /\ shown' = shown
    BY EditDoes
  <2>2. drafts' \subseteq drafts \cup {StoredTree(t)} /\ StoredTree(t) \in Tree
    BY EditDoes, StoringKeeps
  <2> QED
    BY <2>1, <2>2 DEF EditingTypeOK, Windows
<1>4. timer' \in [Editors -> SUBSET BlockOperation'] /\ sent' \subseteq BlockOperation'
  <2>1. timer \in [Editors -> SUBSET BlockOperation'] /\ sent \subseteq BlockOperation'
    BY <1>2 DEF EditingTypeOK
  <2>2. \/ timer' = [timer EXCEPT ![e] = {m}] /\ sent' = sent
        \/ timer' = timer /\ sent' = sent \cup {m}
    BY EditDoes
  <2> QED
    BY <2>1, <2>2
<1>5. inbox' \in [Editors -> Seq(BlockOperation')]
  BY <1>2, EditDoes DEF EditingTypeOK
<1>6. emitted' \in [Editors -> SUBSET (1..made')]
  <2>1. emitted \in [Editors -> SUBSET (1..made')]
    BY <1>2 DEF EditingTypeOK
  <2>2. emitted' = emitted \/ emitted' = [emitted EXCEPT ![e] = @ \cup {made'}]
    BY <1>1, EditDoes
  <2> QED
    BY <1>2, <2>1, <2>2
<1>7. faded' \in [Windows -> SUBSET Blocks]
  <2> DEFINE unsent == Unsent(e, m)
             S == ColorsWith(m, Unseen(e))
  <2>1. faded' = [faded EXCEPT ![e] = @ \cup unsent \cup S]
    BY EditExcuses
  <2>2. unsent \subseteq Blocks
    BY DEF EditingTypeOK, BlockOperation, Unsent
  <2>3. S \subseteq Blocks
    <3>1. S \subseteq Colors(m)
      BY DEF ColorsWith
    <3>2. Fits(m)
      BY DEF BlockOperation, Fits, Kinds
    <3>3. Colors(m) \subseteq Blocks
      BY <1>1, <3>2, BroughtBlocks DEF Colors
    <3> QED
      BY <3>1, <3>3
  <2>4. faded \in [Windows -> SUBSET Blocks]
    BY DEF EditingTypeOK
  <2> HIDE DEF unsent, S
  <2> QED
    BY <2>1, <2>2, <2>3, <2>4
<1>8. made' \in 0..MaxEvents /\ losses' \in 0..MaxEvents /\ loading' \subseteq Editors
  BY <1>1, EditDoes DEF EditingTypeOK
<1>9. {apart, disordered}' \subseteq SUBSET Windows
  <2>1. apart' \subseteq apart \cup {e} /\ disordered' \subseteq disordered \cup {e}
    BY EditDoes, EditExcuses
  <2> QED
    BY <2>1 DEF EditingTypeOK, Windows
<1> QED
  BY <1>3, <1>4, <1>5, <1>6, <1>7, <1>8, <1>9 DEF EditingTypeOK, Tree


\* What a broadcast makes of an editor's inbox and of the trees: editors have the operation
\* at the end of their inbox, previews apply it at once.
Got(e, o, reached) == IF e \in reached THEN Append(inbox[e], CleanOf(o)) ELSE inbox[e]
Seen(w, o, reached) == IF w \in Previews \cap reached THEN ApplyOperation(tree[w], CleanOf(o)) ELSE tree[w]

\* The editors whose additions have been overtaken by o.
Overtaken(o) == {p.from : p \in {q \in sent : Depends(o, q)}}

LEMMA BroadcastDoes ==
  ASSUME NEW o, NEW reached, Broadcast(o, reached)
  PROVE  /\ sent' = sent \ {o}
         /\ inbox' = [e \in Editors |-> Got(e, o, reached)]
         /\ tree' = [w \in Windows |-> Seen(w, o, reached)]
         /\ apart' = apart \cup (Windows \ reached) \cup Overtaken(o)
         /\ losses' = losses \/ (Bounded /\ losses' = losses + 1)
         /\ UNCHANGED <<shown, loading, drafts, timer, emitted, made>>
<1>1. inbox' = [e \in Editors |-> Got(e, o, reached)]
  BY DEF Broadcast, Got, CleanOf
<1>2. tree' = [w \in Windows |-> Seen(w, o, reached)]
  BY DEF Broadcast, Seen, CleanOf
<1>3. apart' = apart \cup (Windows \ reached) \cup Overtaken(o)
  BY DEF Broadcast, Overtaken
<1>4. sent' = sent \ {o} /\ UNCHANGED <<shown, loading, drafts, timer, emitted, made>>
  BY DEF Broadcast
<1>5. losses' = losses \/ (Bounded /\ losses' = losses + 1)
  <2>1. IF reached = Windows THEN UNCHANGED losses ELSE Loss
    BY DEF Broadcast
  <2>2. CASE reached = Windows
    <3>1. UNCHANGED losses
      BY <2>1, <2>2
    <3> QED
      BY <3>1
  <2>3. CASE reached # Windows
    BY <2>1, <2>3 DEF Loss
  <2> QED
    BY <2>2, <2>3
<1> QED
  BY <1>1, <1>2, <1>3, <1>4, <1>5

\* One more loss is within the bound.
LEMMA LossIsCounted ==
  ASSUME LiveEditingAssumption, EditingTypeOK, Bounded, losses' = losses + 1
  PROVE  losses' \in 0..MaxEvents
  BY DEF LiveEditingAssumption, EditingTypeOK, Bounded

\* What has been received keeps its type.
LEMMA BroadcastTypes ==
  ASSUME LiveEditingAssumption, EditingTypeOK, NEW o \in sent, NEW reached \in SUBSET Windows,
         Broadcast(o, reached)
  PROVE  EditingTypeOK'
<1>1. o \in BlockOperation /\ BlockOperation' = BlockOperation
  BY BroadcastDoes DEF EditingTypeOK, BlockOperation
<1>2. CleanOf(o) \in BlockOperation /\ Fits(CleanOf(o)) /\ Fits(o) /\ o.from \in Editors
  BY <1>1, CleaningKeeps, OperationFits
<1>3. inbox' \in [Editors -> Seq(BlockOperation)]
  <2>1. \A e \in Editors : Got(e, o, reached) \in Seq(BlockOperation)
    BY <1>2, Appending DEF EditingTypeOK, Got
  <2> QED
    BY <2>1, BroadcastDoes DEF EditingTypeOK
<1>4. tree' \in [Windows -> Tree]
  <2>1. \A w \in Windows : Seen(w, o, reached) \in Tree
    BY <1>2, Applying DEF EditingTypeOK, Seen
  <2> QED
    BY <2>1, BroadcastDoes DEF EditingTypeOK
<1>5. losses' \in 0..MaxEvents
  BY BroadcastDoes, LossIsCounted DEF EditingTypeOK
<1>6. apart' \subseteq Windows
  <2>1. \A q \in sent : q.from \in Windows
    BY OperationFits DEF EditingTypeOK, Windows
  <2>2. Overtaken(o) \subseteq Windows
    BY ONLY <2>1 DEF Overtaken
  <2>3. apart' = apart \cup (Windows \ reached) \cup Overtaken(o)
    BY BroadcastDoes
  <2>4. apart \subseteq Windows
    BY DEF EditingTypeOK
  <2> QED
    BY ONLY <2>2, <2>3, <2>4
<1>7. disordered' \subseteq Windows /\ faded' \in [Windows -> SUBSET Blocks]
  <2>1. \A O : ColorsWith(o, O) \subseteq Blocks
    BY <1>2, BroughtBlocks DEF ColorsWith, Colors, Fits
  <2>2. \E C : faded' = [w \in Windows |-> IF w \in Editors THEN faded[w] \cup ColorsWith(o, C[w]) ELSE faded[w]]
    <3> DEFINE Early(w) == {p \in Waiting(w) : w = o.from => p.id < o.id}
               C == [w \in Windows |-> Early(w)]
    <3>1. faded' = [w \in Windows |-> IF w \in Editors THEN faded[w] \cup ColorsWith(o, Early(w)) ELSE faded[w]]
      BY DEF Broadcast
    <3>2. \A w \in Windows : C[w] = Early(w)
      OBVIOUS
    <3> HIDE DEF C, Early
    <3>3. faded' = [w \in Windows |-> IF w \in Editors THEN faded[w] \cup ColorsWith(o, C[w]) ELSE faded[w]]
      BY <3>1, <3>2
    <3> QED
      BY <3>3
  <2>3. disordered' \subseteq disordered \cup Editors
    BY DEF Broadcast
  <2> QED
    BY <2>1, <2>2, <2>3 DEF EditingTypeOK, Windows
<1>8. /\ sent' \subseteq BlockOperation /\ shown' \in [Editors -> Tree] /\ loading' \subseteq Editors
      /\ drafts' \subseteq Tree /\ timer' \in [Editors -> SUBSET BlockOperation]
      /\ emitted' \in [Editors -> SUBSET (1..made)] /\ made' = made /\ made \in 0..MaxEvents
  BY BroadcastDoes DEF EditingTypeOK
<1> QED
  BY <1>1, <1>3, <1>4, <1>5, <1>6, <1>7, <1>8 DEF EditingTypeOK

\* Everything keeps its type, whatever happens.
LEMMA TypesAreKept ==
  ASSUME LiveEditingAssumption, FreshAssumption, EditingTypeOK, [EditingNext]_editingVars
  PROVE  EditingTypeOK'
<1>0. \A q \in BlockOperation : Fits(q) /\ q.from \in Editors /\ q.id \in 1..made
  BY OperationFits
<1>1. CASE UNCHANGED editingVars
  BY <1>1 DEF editingVars, network, excuses, BlockOperation, EditingTypeOK
<1>2. ASSUME NEW e \in Editors, EditByUser(e) PROVE EditingTypeOK'
  <2>1. made + 1 \in 1..MaxEvents
    BY <1>2, UserEdits
  <2>2. PICK kind \in Kinds, b \in Blocks, p \in Parents, i \in Nat, k \in [Containers -> Seq(Blocks)],
             v \in Values, t \in Tree : Editing(e, Made(e, kind, b, p, i, k, v), t)
    BY <1>2, UserEdits
  <2> DEFINE m == Made(e, kind, b, p, i, k, v)
  <2>3. made' = made + 1
    BY <2>2, EditDoes
  <2>4. m \in BlockOperation' /\ m.from = e /\ m.id = made + 1
    BY <2>3, MadeFits
  <2> HIDE DEF m
  <2>5. Editing(e, m, t)
    BY <2>2 DEF m
  <2> QED
    BY <2>1, <2>4, <2>5, EditTypes
<1>3. ASSUME made' = made PROVE BlockOperation' = BlockOperation
  BY <1>3 DEF BlockOperation
<1>4. ASSUME NEW e \in Editors, FireTimer(e) PROVE EditingTypeOK'
  <2>1. sent' \subseteq BlockOperation /\ timer' \in [Editors -> SUBSET BlockOperation]
    BY <1>4 DEF FireTimer, EditingTypeOK
  <2>2. emitted' \in [Editors -> SUBSET (1..made)]
    <3> DEFINE I == {o.id : o \in timer[e]}
    <3>1. I \subseteq 1..made
      BY <1>0 DEF EditingTypeOK
    <3>2. emitted' = [emitted EXCEPT ![e] = @ \cup I]
      BY <1>4 DEF FireTimer
    <3> HIDE DEF I
    <3> QED
      BY <3>1, <3>2 DEF EditingTypeOK
  <2>3. UNCHANGED <<tree, shown, loading, drafts, inbox, made, losses, apart, disordered, faded>>
    BY <1>4 DEF FireTimer, excuses
  <2> QED
    BY <1>3, <2>1, <2>2, <2>3 DEF EditingTypeOK
<1>5. ASSUME NEW e \in Editors, LoadDraft(e) PROVE EditingTypeOK'
  <2>1. tree' \in [Windows -> Tree] /\ losses' \in 0..MaxEvents
    BY <1>5, LossIsCounted DEF LoadDraft, Loss, EditingTypeOK
  <2>2. apart' \subseteq Windows /\ loading' \subseteq Editors
    BY <1>5 DEF LoadDraft, EditingTypeOK, Windows
  <2>3. UNCHANGED <<shown, drafts, timer, sent, inbox, emitted, made, disordered, faded>>
    BY <1>5 DEF LoadDraft
  <2> QED
    BY <1>3, <2>1, <2>2, <2>3 DEF EditingTypeOK
<1>6. ASSUME NEW e \in Editors, Receive(e) PROVE EditingTypeOK'
  <2>1. inbox[e] \in Seq(BlockOperation) /\ inbox[e] # <<>> /\ inbox' = [inbox EXCEPT ![e] = Tail(@)]
    BY <1>6 DEF Receive, EditingTypeOK
  <2>2. Head(inbox[e]) \in BlockOperation /\ Tail(inbox[e]) \in Seq(BlockOperation)
    BY <2>1, Taking
  <2>3. inbox' \in [Editors -> Seq(BlockOperation)]
    BY <2>1, <2>2 DEF EditingTypeOK
  <2>4. tree' \in [Windows -> Tree]
    <3>1. tree' = tree \/ tree' = [tree EXCEPT ![e] = ApplyOperation(shown[e], Head(inbox[e]))]
      BY <1>6 DEF Receive
    <3> DEFINE u == ApplyOperation(shown[e], Head(inbox[e]))
    <3>2. u \in Tree
      BY <1>0, <2>2, Applying DEF EditingTypeOK
    <3>3. tree' = tree \/ tree' = [tree EXCEPT ![e] = u]
      BY <3>1
    <3>4. tree \in [Windows -> Tree]
      BY DEF EditingTypeOK
    <3> HIDE DEF u
    <3> QED
      BY ONLY <3>2, <3>3, <3>4
  <2>5. emitted' \in [Editors -> SUBSET (1..made)] /\ apart' \subseteq Windows
    <3> DEFINE i == Head(inbox[e]).id
    <3>1. emitted' = emitted \/ emitted' = [emitted EXCEPT ![e] = @ \ {i}]
      BY <1>6 DEF Receive
    <3>2. apart' \subseteq apart \cup {e}
      BY <1>6 DEF Receive
    <3> HIDE DEF i
    <3>5. emitted \in [Editors -> SUBSET (1..made)]
      BY DEF EditingTypeOK
    <3>3. emitted' \in [Editors -> SUBSET (1..made)]
      BY ONLY <3>1, <3>5
    <3>4. apart' \subseteq Windows
      BY <3>2 DEF EditingTypeOK, Windows
    <3> QED
      BY <3>3, <3>4
  <2>6. UNCHANGED <<shown, loading, drafts, timer, sent, made, losses, disordered, faded>>
    BY <1>6 DEF Receive
  <2> QED
    BY <1>3, <2>3, <2>4, <2>5, <2>6 DEF EditingTypeOK
<1>7. ASSUME NEW e \in Editors, Render(e) PROVE EditingTypeOK'
  <2>1. shown' \in [Editors -> Tree]
    BY <1>7 DEF Render, EditingTypeOK, Windows
  <2> QED
    BY <1>3, <1>7, <2>1 DEF Render, EditingTypeOK, network, excuses
<1>8. ASSUME NEW e \in Editors, NEW o, LoseAnswer(e, o) PROVE EditingTypeOK'
  <2>1. emitted' \in [Editors -> SUBSET (1..made)] /\ apart' \subseteq Windows
    BY <1>8 DEF LoseAnswer, EditingTypeOK, Windows
  <2>2. losses' \in 0..MaxEvents
    BY <1>8, LossIsCounted DEF LoseAnswer, Loss
  <2>3. UNCHANGED <<tree, shown, loading, drafts, timer, sent, inbox, made, disordered, faded>>
    BY <1>8 DEF LoseAnswer
  <2> QED
    BY <1>3, <2>1, <2>2, <2>3 DEF EditingTypeOK
<1>9. ASSUME NEW o \in sent, LoseRequest(o) PROVE EditingTypeOK'
  <2>1. PICK e \in Editors : e = o.from
    BY <1>0 DEF EditingTypeOK
  <2>2. emitted' \in [Editors -> SUBSET (1..made)] /\ apart' \subseteq Windows
    <3>1. emitted' = emitted \/ emitted' = [emitted EXCEPT ![e] = @ \ {o.id}]
      BY <1>9, <2>1 DEF LoseRequest
    <3>2. apart' = apart \cup {e}
      BY <1>9, <2>1 DEF LoseRequest
    <3>4. emitted \in [Editors -> SUBSET (1..made)]
      BY DEF EditingTypeOK
    <3>3. emitted' \in [Editors -> SUBSET (1..made)]
      BY ONLY <3>1, <3>4
    <3> QED
      BY <3>2, <3>3 DEF EditingTypeOK, Windows
  <2>3. losses' \in 0..MaxEvents
    BY <1>9, LossIsCounted DEF LoseRequest, Loss
  <2>4. sent' \subseteq BlockOperation
    BY <1>9 DEF LoseRequest, EditingTypeOK
  <2>5. UNCHANGED <<tree, shown, loading, drafts, timer, inbox, made, disordered, faded>>
    BY <1>9 DEF LoseRequest
  <2> QED
    BY <1>3, <2>2, <2>3, <2>4, <2>5 DEF EditingTypeOK
<1>10. ASSUME NEW o \in sent, NEW reached \in SUBSET Windows, Broadcast(o, reached) PROVE EditingTypeOK'
  BY <1>10, BroadcastTypes
<1> QED
  BY <1>1, <1>2, <1>4, <1>5, <1>6, <1>7, <1>8, <1>9, <1>10 DEF EditingNext

\* The type invariant: trees stay trees of blocks, whatever is received late, twice or
\* never, and operations keep the numbers they were given.
THEOREM EditingTypeCorrect == EditingSpec => []EditingTypeOK
<1>1. EditingInit => EditingTypeOK
  BY LiveEditingAssumption, InitTypes
<1>2. EditingTypeOK /\ [EditingNext]_editingVars => EditingTypeOK'
  BY LiveEditingAssumption, FreshAssumption, TypesAreKept
<1> QED
  BY <1>1, <1>2, PTL DEF EditingSpec
=============================================================================
