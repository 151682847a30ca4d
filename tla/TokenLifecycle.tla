--------------------------- MODULE TokenLifecycle ---------------------------
(***************************************************************************)
(* The life of the tokens of one user and one type: TokenService (issue,   *)
(* verify, resolveUser, consume) over TokenRepository, as concurrent       *)
(* requests on the `tokens` table.                                         *)
(*                                                                         *)
(* Every database round trip is a step. A transaction's SELECT ... FOR     *)
(* UPDATE and its UPDATEs take row locks that it keeps until it ends, and  *)
(* its writes become visible when it commits. The write made by a          *)
(* consuming flow's `act` is the exception: the user was loaded before the *)
(* transaction was opened, so user.save() runs on a connection of its own  *)
(* and is durable at once, whatever becomes of the transaction around it.  *)
(*                                                                         *)
(* A definition introduced as a deviation is not the code: it is a mistake *)
(* one could make in the operation below it, kept because a property of    *)
(* this module fails when it takes that operation's place.                 *)
(***************************************************************************)
EXTENDS Naturals, FiniteSets

CONSTANTS
  Tokens,        \* selectors that can be issued
  Requests,      \* HTTP requests, each served once
  NoRequest,     \* "no transaction holds this row"
  MaxAttempts    \* TokenService.MAX_ATTEMPTS

ASSUME TokenAssumption ==
  /\ Tokens # {}
  /\ NoRequest \notin Requests
  /\ MaxAttempts \in Nat

VARIABLES
  status,        \* tokens.expires_at: "unissued" (no row), "live", "expired"
  attempts,      \* tokens.attempts
  rowLock,       \* the transaction holding each row's exclusive lock
  pc, op,        \* where each request is, and what it was asked to do
  tok,           \* the token a request presents, or the one it will create
  seen,          \* the attempt counter as the attempt transaction read it
  todo,          \* rows expireTokensByType has read and not yet saved
  guesses,       \* history: presentations let through the attempt cap
  acts,          \* history: writes made by a consuming flow's act
  commits,       \* history: consume transactions committed
  lost,          \* history: consume transactions rolled back after act
  supersedes     \* history: the rows an issuance found when it began

tables  == <<status, attempts, rowLock>>
control == <<pc, op, tok, seen, todo>>
history == <<guesses, acts, commits, lost, supersedes>>
vars == <<tables, control, history>>

Issuances == {"issue", "issueTrx"}
Operations == {"present"} \cup Issuances

Issued == {t \in Tokens : status[t] # "unissued"}
Held(p) == {t \in Tokens : rowLock[t] = p}
Free(p, t) == rowLock[t] \in {NoRequest, p}

(* Earlier requests may have left live tokens in the table. *)
Init ==
  /\ status \in [Tokens -> {"unissued", "live"}]
  /\ attempts = [t \in Tokens |-> 0]
  /\ rowLock = [t \in Tokens |-> NoRequest]
  /\ pc = [p \in Requests |-> "start"]
  /\ op = [p \in Requests |-> "present"]
  /\ tok = [p \in Requests |-> CHOOSE t \in Tokens : TRUE]
  /\ seen = [p \in Requests |-> 0]
  /\ todo = [p \in Requests |-> {}]
  /\ guesses = [t \in Tokens |-> 0]
  /\ acts = [t \in Tokens |-> 0]
  /\ commits = [t \in Tokens |-> 0]
  /\ lost = [t \in Tokens |-> 0]
  /\ supersedes = [t \in Tokens |-> {}]

Goto(p, label) == pc' = [pc EXCEPT ![p] = label]
TakeRow(p, t)  == rowLock' = [rowLock EXCEPT ![t] = p]
EndTransaction(p) == rowLock' = [t \in Tokens |-> IF rowLock[t] = p THEN NoRequest ELSE rowLock[t]]

------------------------------------------------------------------------------
(* Presenting a token *)

(* The selectors that are out: those with a row, and those the email-change *)
(* flow has mailed from a transaction that is open or was rolled back.      *)
Known(t) ==
  \/ t \in Issued
  \/ \E q \in Requests : op[q] = "issueTrx" /\ tok[q] = t /\ pc[q] \in {"mail", "done"}

(* A request arrives with a selector. It is here to verify, to resolve the  *)
(* user or to consume: the first two are the beginning of the third, and    *)
(* end where it may end too.                                                *)
Present(p, t) ==
  /\ pc[p] = "start"
  /\ Known(t)
  /\ tok' = [tok EXCEPT ![p] = t]
  /\ Goto(p, "attempt")
  /\ UNCHANGED <<tables, op, seen, todo, history>>

(* Deviation: the counter is read without FOR UPDATE. *)
LockForAttemptUnlocked(p) ==
  /\ pc[p] = "attempt"
  /\ seen' = [seen EXCEPT ![p] = attempts[tok[p]]]
  /\ Goto(p, IF tok[p] \in Issued THEN "count" ELSE "find")
  /\ UNCHANGED <<status, attempts, rowLock, op, tok, todo, history>>

(* checkAndIncrementAttempt opens its transaction and locks the row. An     *)
(* unknown selector has no row to count against.                            *)
LockForAttempt(p) ==
  /\ pc[p] = "attempt"
  /\ \/ /\ tok[p] \notin Issued
        /\ Goto(p, "find")
        /\ UNCHANGED <<rowLock, seen>>
     \/ /\ tok[p] \in Issued
        /\ Free(p, tok[p])
        /\ TakeRow(p, tok[p])
        /\ seen' = [seen EXCEPT ![p] = attempts[tok[p]]]
        /\ Goto(p, "count")
  /\ UNCHANGED <<status, attempts, op, tok, todo, history>>

(* Deviation: the counter counts down. *)
RecordAttemptDown(p) ==
  /\ pc[p] = "count"
  /\ EndTransaction(p)
  /\ attempts' = [attempts EXCEPT ![tok[p]] = seen[p] - 1]
  /\ Goto(p, "find")
  /\ UNCHANGED <<status, op, tok, seen, todo, history>>

(* ... and commits: refused at the cap, otherwise counted once. *)
RecordAttempt(p) ==
  /\ pc[p] = "count"
  /\ EndTransaction(p)
  /\ \/ /\ seen[p] >= MaxAttempts
        /\ Goto(p, "done")
        /\ UNCHANGED <<attempts, guesses>>
     \/ /\ seen[p] < MaxAttempts
        /\ attempts' = [attempts EXCEPT ![tok[p]] = seen[p] + 1]
        /\ guesses' = [guesses EXCEPT ![tok[p]] = @ + 1]
        /\ Goto(p, "find")
  /\ seen' = [seen EXCEPT ![p] = 0]
  /\ UNCHANGED <<status, op, tok, todo, acts, commits, lost, supersedes>>

(* findBySelector, then the validator's hash: a dead row or a wrong         *)
(* validator ends the request, and so does a match when all was verify().   *)
FindBySelector(p) ==
  /\ pc[p] = "find"
  /\ \/ Goto(p, "done")
     \/ status[tok[p]] = "live" /\ Goto(p, "resolve")
  /\ UNCHANGED <<tables, op, tok, seen, todo, history>>

(* findUserBySelector reads the row a second time; resolveUser() ends here. *)
FindUserBySelector(p) ==
  /\ pc[p] = "resolve"
  /\ \/ Goto(p, "done")
     \/ status[tok[p]] = "live" /\ Goto(p, "claim")
  /\ UNCHANGED <<tables, op, tok, seen, todo, history>>

------------------------------------------------------------------------------
(* Consuming a token: the transaction of consume() *)

(* Deviations: lockBySelector without forUpdate, and no re-check. *)
LockForConsumeUnlocked(p) ==
  /\ pc[p] = "claim"
  /\ Goto(p, IF status[tok[p]] = "live" THEN "act" ELSE "done")
  /\ UNCHANGED <<tables, op, tok, seen, todo, history>>

LockForConsumeUnchecked(p) ==
  /\ pc[p] = "claim"
  /\ Free(p, tok[p])
  /\ TakeRow(p, tok[p])
  /\ Goto(p, "act")
  /\ UNCHANGED <<status, attempts, op, tok, seen, todo, history>>

(* lockBySelector, then the isExpired re-check under the lock. *)
LockForConsume(p) ==
  /\ pc[p] = "claim"
  /\ Free(p, tok[p])
  /\ \/ /\ status[tok[p]] = "live"
        /\ TakeRow(p, tok[p])
        /\ Goto(p, "act")
     \/ /\ status[tok[p]] # "live"
        /\ Goto(p, "done")
        /\ UNCHANGED rowLock
  /\ UNCHANGED <<status, attempts, op, tok, seen, todo, history>>

(* act(user) saves the user outside the transaction; expireTokensByType    *)
(* then reads every row of the user and type, expired ones included.       *)
Act(p) ==
  /\ pc[p] = "act"
  /\ acts' = [acts EXCEPT ![tok[p]] = @ + 1]
  /\ todo' = [todo EXCEPT ![p] = Issued]
  /\ Goto(p, "retire")
  /\ UNCHANGED <<tables, op, tok, seen, guesses, commits, lost, supersedes>>

(* One save of expireTokensByType inside a transaction: the row stays       *)
(* locked, and its new expiration shows when the transaction commits.       *)
ExpireInTransaction(p, t) ==
  /\ \/ pc[p] = "retire"
     \/ pc[p] = "expire" /\ op[p] = "issueTrx"
  /\ t \in todo[p]
  /\ Free(p, t)
  /\ TakeRow(p, t)
  /\ todo' = [todo EXCEPT ![p] = @ \ {t}]
  /\ UNCHANGED <<status, attempts, pc, op, tok, seen, history>>

(* Deviation: the transaction is left open. *)
CommitConsumeUnfinished(p) ==
  /\ pc[p] = "retire"
  /\ todo[p] = {}
  /\ commits' = [commits EXCEPT ![tok[p]] = @ + 1]
  /\ Goto(p, "done")
  /\ UNCHANGED <<tables, op, tok, seen, todo, guesses, acts, lost, supersedes>>

(* The transaction of consume() commits. *)
CommitConsume(p) ==
  /\ pc[p] = "retire"
  /\ todo[p] = {}
  /\ status' = [t \in Tokens |-> IF rowLock[t] = p THEN "expired" ELSE status[t]]
  /\ commits' = [commits EXCEPT ![tok[p]] = @ + 1]
  /\ EndTransaction(p)
  /\ Goto(p, "done")
  /\ UNCHANGED <<attempts, op, tok, seen, todo, guesses, acts, lost, supersedes>>

------------------------------------------------------------------------------
(* Issuing a token *)

(* issue() reads the user's rows of the type. The selector it will create   *)
(* is 32 random bytes: one that no other request has.                       *)
BeginIssue(p, o, t) ==
  /\ pc[p] = "start"
  /\ t \notin Issued
  /\ \A q \in Requests : op[q] \in Issuances => tok[q] # t
  /\ op' = [op EXCEPT ![p] = o]
  /\ tok' = [tok EXCEPT ![p] = t]
  /\ todo' = [todo EXCEPT ![p] = Issued]
  /\ supersedes' = [supersedes EXCEPT ![t] = Issued]
  /\ Goto(p, "expire")
  /\ UNCHANGED <<tables, seen, guesses, acts, commits, lost>>

(* One save of expireTokensByType outside a transaction (verification,      *)
(* reset and invitation mails): it waits for the row and is durable.        *)
ExpireDirectly(p, t) ==
  /\ pc[p] = "expire"
  /\ op[p] = "issue"
  /\ t \in todo[p]
  /\ Free(p, t)
  /\ status' = [status EXCEPT ![t] = "expired"]
  /\ todo' = [todo EXCEPT ![p] = @ \ {t}]
  /\ UNCHANGED <<attempts, rowLock, pc, op, tok, seen, history>>

(* Deviation: the new token is created before the old ones are expired. *)
CreateFirst(p) ==
  /\ pc[p] = "expire"
  /\ status' = [status EXCEPT ![tok[p]] = "live"]
  /\ Goto(p, "done")
  /\ UNCHANGED <<attempts, rowLock, op, tok, seen, todo, history>>

(* The insert. In the email-change flow it is followed by two mails, and    *)
(* the transaction commits after them; elsewhere the row is there at once.  *)
Create(p) ==
  /\ pc[p] = "expire"
  /\ todo[p] = {}
  /\ \/ /\ op[p] = "issue"
        /\ status' = [status EXCEPT ![tok[p]] = "live"]
        /\ Goto(p, "done")
     \/ /\ op[p] = "issueTrx"
        /\ Goto(p, "mail")
        /\ UNCHANGED status
  /\ UNCHANGED <<attempts, rowLock, op, tok, seen, todo, history>>

CommitIssue(p) ==
  /\ pc[p] = "mail"
  /\ status' = [t \in Tokens |-> IF t = tok[p] THEN "live"
                                 ELSE IF rowLock[t] = p THEN "expired" ELSE status[t]]
  /\ EndTransaction(p)
  /\ Goto(p, "done")
  /\ UNCHANGED <<attempts, op, tok, seen, todo, history>>

------------------------------------------------------------------------------
(* What can go wrong *)

(* A transaction ends without its writes: its rows are released as they     *)
(* were, but what act saved on its own connection stays.                    *)
RollBack(p) ==
  /\ EndTransaction(p)
  /\ lost' = [lost EXCEPT ![tok[p]] = @ + (IF pc[p] = "retire" THEN 1 ELSE 0)]
  /\ Goto(p, "done")
  /\ UNCHANGED <<status, attempts, op, tok, seen, todo, guesses, acts, commits, supersedes>>

(* act throws, a mail is refused, a connection breaks, the process dies. *)
Fail(p) ==
  /\ pc[p] \in {"count", "act", "retire", "expire", "mail"}
  /\ RollBack(p)

(* Nothing p still has to save is free: each row is another transaction's. *)
Blocked(p) ==
  /\ pc[p] \in {"retire", "expire"}
  /\ todo[p] # {}
  /\ \A t \in todo[p] : ~ Free(p, t)

(* The database breaks a circle of transactions waiting for each other's    *)
(* rows by aborting one of them.                                            *)
AbortDeadlocked(p) ==
  /\ Blocked(p) /\ Held(p) # {}
  /\ \E circle \in SUBSET Requests :
       /\ p \in circle
       /\ \E q \in circle : todo[q] \cap Held(p) # {}
       /\ \A q \in circle : Blocked(q) /\ \A t \in todo[q] : rowLock[t] \in circle
  /\ RollBack(p)

(* A token reaches its expiration date, whoever holds its row. *)
PassExpiry(t) ==
  /\ status[t] = "live"
  /\ status' = [status EXCEPT ![t] = "expired"]
  /\ UNCHANGED <<attempts, rowLock, control, history>>

------------------------------------------------------------------------------
(* One step of what a request's code does by itself, once it has arrived. *)
Proceed(p) ==
  \/ LockForAttempt(p) \/ RecordAttempt(p) \/ FindBySelector(p) \/ FindUserBySelector(p)
  \/ LockForConsume(p) \/ Act(p) \/ CommitConsume(p)
  \/ \E t \in Tokens : ExpireInTransaction(p, t) \/ ExpireDirectly(p, t)
  \/ Create(p) \/ CommitIssue(p)
  \/ AbortDeadlocked(p)

Arrive(p) ==
  \/ \E t \in Tokens : Present(p, t)
  \/ \E o \in Issuances, t \in Tokens : BeginIssue(p, o, t)

Next ==
  \/ \E p \in Requests : Arrive(p) \/ Proceed(p) \/ Fail(p)
  \/ \E t \in Tokens : PassExpiry(t)

Spec == Init /\ [][Next]_vars

(* The process serving a request, and the database's deadlock detector,     *)
(* keep running; nothing forces requests to arrive, tokens to age, or       *)
(* failures to happen.                                                      *)
FairSpec == Spec /\ \A p \in Requests : WF_vars(Proceed(p))

------------------------------------------------------------------------------
(* Properties *)

Labels == {"start", "attempt", "count", "find", "resolve", "claim", "act", "retire",
           "expire", "mail", "done"}

(* Every variable has its type.                                             *)
TypeOK ==
  /\ status \in [Tokens -> {"unissued", "live", "expired"}]
  /\ attempts \in [Tokens -> Nat]
  /\ rowLock \in [Tokens -> Requests \cup {NoRequest}]
  /\ pc \in [Requests -> Labels]
  /\ op \in [Requests -> Operations]
  /\ tok \in [Requests -> Tokens]
  /\ seen \in [Requests -> Nat]
  /\ todo \in [Requests -> SUBSET Tokens]
  /\ guesses \in [Tokens -> Nat]
  /\ acts \in [Tokens -> Nat]
  /\ commits \in [Tokens -> Nat]
  /\ lost \in [Tokens -> Nat]
  /\ supersedes \in [Tokens -> SUBSET Tokens]

(* The brute-force lockout: however presentations overlap, no more than     *)
(* MAX_ATTEMPTS of those that find the token's row get past the cap, and    *)
(* the stored counter has counted every one of them.                        *)
GuessesBounded ==
  \A t \in Tokens : guesses[t] = attempts[t] /\ guesses[t] <= MaxAttempts

(* Single use: of all the requests that pass verification with the same     *)
(* token, at most one commits a consumption, and the token is then expired. *)
ConsumedAtMostOnce ==
  \A t \in Tokens : commits[t] <= 1 /\ (commits[t] = 1 => status[t] = "expired")

(* What act did with a token is done a second time only if an earlier       *)
(* transaction was rolled back after its act: without such a failure every  *)
(* token acts at most once.                                                 *)
EffectsAccounted ==
  \A t \in Tokens : acts[t] <= 1 + lost[t]

(* issue() expires the outstanding tokens of the type first: when a token   *)
(* can be used, every token its issuance found is dead, and stays dead.     *)
NewerSupersedesOlder ==
  \A t \in Tokens : status[t] # "unissued" =>
    \A u \in supersedes[t] : status[u] = "expired"

(* Every request that arrives ends, circles of row locks included.          *)
RequestsEnd ==
  \A p \in Requests : pc[p] # "start" ~> pc[p] = "done"

(* token_service.ts promises that the lock / re-check / act / expire        *)
(* choreography "makes every consuming flow single-use".                    *)
EffectAtMostOnce ==
  \A t \in Tokens : acts[t] <= 1

------------------------------------------------------------------------------
(* TokenLifecycle implements OneTimeCredential *)

(* A consume transaction has locked the row of t and re-checked it. *)
Claimed(t) ==
  \E p \in Requests : tok[p] = t /\ pc[p] \in {"act", "retire"}

CredentialState(t) ==
  IF commits[t] > 0 THEN "redeemed"
  ELSE IF Claimed(t) THEN "claimed"
  ELSE IF status[t] = "expired" THEN "dead"
  ELSE status[t]

Credential == INSTANCE OneTimeCredential WITH
  state <- [t \in Tokens |-> CredentialState(t)],
  tries <- guesses

(* The lifecycle keeps the credential's promise: one claim at a time, one   *)
(* redemption, a bounded number of tries, no way back.                      *)
ImplementsCredential == Credential!Spec
==============================================================================
