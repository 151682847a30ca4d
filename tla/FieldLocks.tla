----------------------------- MODULE FieldLocks -----------------------------
(***************************************************************************)
(* The page builder's lock on one field of one translation: the handlers   *)
(* of BuilderOperationsController and the unsubscribe hook, running         *)
(* concurrently over BuilderSessionService, and the focus of the editors.   *)
(*                                                                          *)
(* Every call on the cache is a step. A lock is stored as the claim that    *)
(* wrote it: its owner and its expiry tell it from any other. Events         *)
(* broadcast to the other editors can be late or missed, so that nothing an *)
(* editor does waits for them. The session and the colour of a user, which  *)
(* the same handlers also write, are other keys and decide nothing here.    *)
(***************************************************************************)
EXTENDS CacheEntry, FiniteSets

CONSTANTS
  Users,
  Requests,      \* calls of the handlers, each served once
  NoRequest,
  Retries,       \* rounds of resolveContendedClaim
  LockTtl        \* LOCK_TTL_S

ASSUME FieldAssumption ==
  /\ NoRequest \notin Requests
  /\ Users # {}
  /\ Retries \in Nat
  /\ LockTtl \in Nat \ {0}
  /\ NoEntry \notin Entry(Requests, LockTtl)

VARIABLES
  lock,          \* the cache entry of the field's lock
  pc, op, by,    \* where each request is, what it asks, for whom
  seen,          \* the lock a request has read and found to be its user's
  tries,         \* how many of its atomic operations have lost a race
  answer,        \* what a claim was told
  focus,         \* the claim sent when the user focused the field, until blur
  rival,         \* history: another user has held the field during the request
  turns          \* history: how often the lock changed during the request

request == <<pc, op, by, seen, tries, answer>>
history == <<rival, turns>>
vars == <<lock, request, focus, history>>

Asked == {"claim", "release", "unsubscribe"}
Operations == Asked \cup {"leave"}   \* the hook of an unsubscribe calls leave()

Init ==
  /\ lock = NoEntry
  /\ pc = [r \in Requests |-> "idle"]
  /\ op = [r \in Requests |-> "claim"]
  /\ by = [r \in Requests |-> CHOOSE u \in Users : TRUE]
  /\ seen = [r \in Requests |-> NoRequest]
  /\ tries = [r \in Requests |-> 0]
  /\ answer = [r \in Requests |-> "none"]
  /\ focus = [u \in Users |-> NoRequest]
  /\ rival = [r \in Requests |-> FALSE]
  /\ turns = [r \in Requests |-> 0]

Goto(r, label) == pc' = [pc EXCEPT ![r] = label]
Answer(r, what) == Goto(r, "done") /\ answer' = [answer EXCEPT ![r] = what]

InFlight(r) == pc[r] \notin {"idle", "done"}
HeldBy(u) == lock # NoEntry /\ by[lock.value] = u
HeldAgainst(u) == lock # NoEntry /\ by[lock.value] # u

(* The lock becomes e; the requests in flight have it happen to them. *)
StoreLock(e) ==
  /\ lock' = e
  /\ rival' = [r \in Requests |-> rival[r] \/ (InFlight(r) /\ e # NoEntry /\ by[e.value] # by[r])]
  /\ turns' = [r \in Requests |->
                 IF InFlight(r) /\ turns[r] <= Retries
                    /\ (e = NoEntry \/ ~ Holds(lock, e.value)) /\ e # lock
                 THEN turns[r] + 1 ELSE turns[r]]

------------------------------------------------------------------------------
(* A user focuses the field (or claims it again: a second tab, a repeated    *)
(* focus), leaves it, or loses the connection.                               *)
Arrive(r, u, o) ==
  /\ pc[r] = "idle"
  /\ op' = [op EXCEPT ![r] = o]
  /\ by' = [by EXCEPT ![r] = u]
  /\ focus' = [focus EXCEPT ![u] = IF o # "claim" THEN NoRequest
                                   ELSE IF @ = NoRequest THEN r ELSE @]
  /\ rival' = [rival EXCEPT ![r] = HeldAgainst(u)]
  /\ Goto(r, IF o = "unsubscribe" THEN "list" ELSE "read")
  /\ UNCHANGED <<lock, seen, tries, answer, turns>>

------------------------------------------------------------------------------
(* acquireLock and resolveContendedClaim *)

(* Deviation: one lost race is a denial. *)
ReadImpatient(r) ==
  /\ pc[r] = "read" /\ op[r] = "claim"
  /\ IF tries[r] > 0 \/ HeldAgainst(by[r])
     THEN Answer(r, "denied") /\ UNCHANGED seen
     ELSE /\ Goto(r, IF lock = NoEntry THEN "claim" ELSE "renew")
          /\ seen' = [seen EXCEPT ![r] = IF lock = NoEntry THEN NoRequest ELSE lock.value]
          /\ UNCHANGED answer
  /\ UNCHANGED <<lock, op, by, tries, focus, history>>

(* The get of acquireLock, and the one that begins each further round: a     *)
(* free field is claimed, one's own lock renewed, another's is a denial; so  *)
(* is the end of the last round, whoever holds the field then.               *)
Read(r) ==
  /\ pc[r] = "read" /\ op[r] = "claim"
  /\ \/ /\ tries[r] <= Retries /\ lock = NoEntry
        /\ Goto(r, "claim")
        /\ UNCHANGED <<seen, answer>>
     \/ /\ tries[r] <= Retries /\ HeldBy(by[r])
        /\ seen' = [seen EXCEPT ![r] = lock.value]
        /\ Goto(r, "renew")
        /\ UNCHANGED answer
     \/ /\ tries[r] > Retries \/ HeldAgainst(by[r])
        /\ Answer(r, "denied")
        /\ UNCHANGED seen
  /\ UNCHANGED <<lock, op, by, tries, focus, history>>

(* The atomic operation has lost: the lock is not what the request read. *)
Lose(r) ==
  /\ tries' = [tries EXCEPT ![r] = @ + 1]
  /\ Goto(r, "read")
  /\ UNCHANGED <<lock, answer, history>>

(* Deviation: the claim is stored without its TTL. *)
ClaimForever(r) ==
  /\ pc[r] = "claim"
  /\ \/ /\ lock = NoEntry
        /\ StoreLock(AfterSetIfAbsent(lock, r, 0))
        /\ Answer(r, "granted")
        /\ UNCHANGED tries
     \/ lock # NoEntry /\ Lose(r)
  /\ UNCHANGED <<op, by, seen, focus>>

(* setIfAbsent *)
ClaimFree(r) ==
  /\ pc[r] = "claim"
  /\ \/ /\ lock = NoEntry
        /\ StoreLock(AfterSetIfAbsent(lock, r, LockTtl))
        /\ Answer(r, "granted")
        /\ UNCHANGED tries
     \/ lock # NoEntry /\ Lose(r)
  /\ UNCHANGED <<op, by, seen, focus>>

(* Deviation: the heartbeat is a plain set. *)
RenewBlindly(r) ==
  /\ pc[r] = "renew"
  /\ StoreLock(Fresh(r, LockTtl))
  /\ Answer(r, "granted")
  /\ UNCHANGED <<op, by, seen, tries, focus>>

(* compareAndSet of the lock that was read *)
Renew(r) ==
  /\ pc[r] = "renew"
  /\ \/ /\ Holds(lock, seen[r])
        /\ StoreLock(AfterCompareAndSet(lock, seen[r], r, LockTtl))
        /\ Answer(r, "granted")
        /\ UNCHANGED tries
     \/ ~ Holds(lock, seen[r]) /\ Lose(r)
  /\ UNCHANGED <<op, by, seen, focus>>

------------------------------------------------------------------------------
(* releaseLock, releaseAllLocks and leave *)

(* The get of releaseLock. *)
ReadToRelease(r) ==
  /\ pc[r] = "read" /\ op[r] = "release"
  /\ \/ /\ HeldBy(by[r])
        /\ seen' = [seen EXCEPT ![r] = lock.value]
        /\ Goto(r, "delete")
     \/ /\ ~ HeldBy(by[r])
        /\ Goto(r, "done")
        /\ UNCHANGED seen
  /\ UNCHANGED <<lock, op, by, tries, answer, focus, history>>

(* The list of releaseAllLocks, which the hook calls, and leave() again. *)
List(r) ==
  /\ pc[r] = "list"
  /\ seen' = [seen EXCEPT ![r] = IF HeldBy(by[r]) THEN lock.value ELSE NoRequest]
  /\ Goto(r, "delete")
  /\ UNCHANGED <<lock, op, by, tries, answer, focus, history>>

(* The hook has released the locks; it goes on with leave(), which does so *)
(* once more.                                                              *)
GoOn(r) ==
  /\ op' = [op EXCEPT ![r] = IF @ = "unsubscribe" THEN "leave" ELSE @]
  /\ Goto(r, IF op[r] = "unsubscribe" THEN "list" ELSE "done")

(* Deviation: delete instead of compareAndDelete. *)
DeleteBlindly(r) ==
  /\ pc[r] = "delete"
  /\ StoreLock(IF seen[r] # NoRequest THEN NoEntry ELSE lock)
  /\ GoOn(r)
  /\ UNCHANGED <<by, seen, tries, answer, focus>>

(* compareAndDelete of the lock that was read *)
Delete(r) ==
  /\ pc[r] = "delete"
  /\ StoreLock(AfterCompareAndDelete(lock, seen[r]))
  /\ GoOn(r)
  /\ UNCHANGED <<by, seen, tries, answer, focus>>

------------------------------------------------------------------------------
(* Redis ages its keys. *)
Tick ==
  /\ StoreLock(AfterTick(lock))
  /\ UNCHANGED <<request, focus>>

Serve(r) ==
  \/ Read(r) \/ ClaimFree(r) \/ Renew(r)
  \/ ReadToRelease(r) \/ List(r) \/ Delete(r)

Next ==
  \/ \E r \in Requests, u \in Users, o \in Asked : Arrive(r, u, o)
  \/ \E r \in Requests : Serve(r)
  \/ Tick

Spec == Init /\ [][Next]_vars

(* Time passes; no handler need ever run to its end. *)
FairSpec == Spec /\ WF_vars(Tick)

------------------------------------------------------------------------------
(* Properties *)

Labels == {"idle", "read", "claim", "renew", "list", "delete", "done"}

(* Every variable has its type. *)
TypeOK ==
  /\ lock \in Entry(Requests, LockTtl) \cup {NoEntry}
  /\ pc \in [Requests -> Labels]
  /\ op \in [Requests -> Operations]
  /\ by \in [Requests -> Users]
  /\ seen \in [Requests -> Requests \cup {NoRequest}]
  /\ tries \in [Requests -> 0..(Retries + 1)]
  /\ answer \in [Requests -> {"none", "granted", "denied"}]
  /\ focus \in [Users -> Requests \cup {NoRequest}]
  /\ rival \in [Requests -> BOOLEAN]
  /\ turns \in [Requests -> 0..(Retries + 1)]

(* A claim is refused for a reason: some other user held the field while     *)
(* the claim was being decided, or the lock changed under it in every one of *)
(* its rounds. A user with few claims in flight is never refused a field     *)
(* that only that user has held.                                             *)
DenialHasReason ==
  \A r \in Requests : answer[r] = "denied" => rival[r] \/ turns[r] > Retries

(* The field never passes from one user to another: it is free in between,   *)
(* however claims, heartbeats, releases and expiries interleave.             *)
NoHandover ==
  [][lock # NoEntry /\ lock' # NoEntry => by[lock.value] = by'[lock'.value]]_vars

(* A lock goes away only because its own user gives it up, or by expiring:   *)
(* a release that was delayed until the lock had expired and been claimed    *)
(* again does not touch the new one.                                         *)
OnlyOwnReleased ==
  [][lock # NoEntry /\ lock' = NoEntry =>
       \/ lock.left = 1
       \/ \E r \in Requests : /\ pc[r] = "delete" /\ pc'[r] # "delete"
                              /\ by[r] = by[lock.value] /\ seen[r] = lock.value]_vars

(* No claim keeps the field for long: what it stored is renewed by another    *)
(* claim, released, or expires, even if its user vanished, or its release     *)
(* overtook the claim itself.                                                 *)
ClaimsExpire ==
  \A r \in Requests : Holds(lock, r) ~> ~ Holds(lock, r)

(* LockedFieldWrapper: the lock is renewed while the field is focused, so     *)
(* that it does not "expire after 5s even if the user is still actively       *)
(* typing, allowing another user to acquire it".                              *)
FocusKeepsField ==
  \A u \in Users :
    focus[u] # NoRequest /\ answer[focus[u]] = "granted" => ~ HeldAgainst(u)
==============================================================================
