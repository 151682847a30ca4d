------------------------ MODULE TokenLifecycleProofs ------------------------
(***************************************************************************)
(* Proofs about TokenLifecycle, for any set of tokens and of requests and  *)
(* any cap. Row locks are what everything rests on: RowsAreOwned ties each *)
(* transaction to the row it has locked, so a counter read under the lock  *)
(* is still right when it is written, and a re-check made under the lock   *)
(* still holds at commit.                                                  *)
(***************************************************************************)
EXTENDS TokenLifecycle, TLAPS

(* A request inside the attempt or the consume transaction holds its row. *)
RowsAreOwned ==
  /\ \A p \in Requests : pc[p] \in {"count", "act", "retire"} => rowLock[tok[p]] = p
  /\ \A t \in Tokens : rowLock[t] # NoRequest => status[t] # "unissued"

(* What a request was asked to do determines where it can be. *)
RolesAreKept ==
  \A p \in Requests :
    /\ pc[p] \in {"start", "attempt", "count", "find", "resolve", "claim", "act", "retire"}
         => op[p] = "present"
    /\ pc[p] = "expire" => op[p] \in Issuances
    /\ pc[p] = "mail" => op[p] = "issueTrx" /\ todo[p] = {}
    /\ \A t \in todo[p] : status[t] # "unissued"

(* The selector an issuance will create is its own, and has no row yet. *)
SelectorsAreFresh ==
  /\ \A p \in Requests : pc[p] \in {"expire", "mail"} => status[tok[p]] = "unissued"
  /\ \A p, q \in Requests :
       p # q /\ op[p] \in Issuances /\ op[q] \in Issuances => tok[p] # tok[q]

(* The counter an attempt transaction read is the counter still stored. *)
CountersAreCurrent ==
  /\ \A p \in Requests : pc[p] = "count" => seen[p] = attempts[tok[p]]
  /\ GuessesBounded

(* A claimed token has not been consumed; a consumed one is expired. *)
SpentIsSpent ==
  /\ ConsumedAtMostOnce
  /\ \A p \in Requests : pc[p] \in {"act", "retire"} => commits[tok[p]] = 0

(* Every write made by act belongs to a consumption that was committed, was *)
(* rolled back, or is under way.                                            *)
Pending(t) == \E p \in Requests : pc[p] = "retire" /\ tok[p] = t
ActsAreExplained ==
  \A t \in Tokens : acts[t] = commits[t] + lost[t] + (IF Pending(t) THEN 1 ELSE 0)

(* The predecessors of a token about to be created are still to be saved,   *)
(* dead, or locked by the transaction that will kill them.                  *)
PredecessorsDie ==
  /\ NewerSupersedesOlder
  /\ \A p \in Requests : pc[p] \in {"expire", "mail"} =>
       \A u \in supersedes[tok[p]] :
         \/ u \in todo[p]
         \/ status[u] = "expired"
         \/ op[p] = "issueTrx" /\ rowLock[u] = p

IInv ==
  /\ TypeOK /\ RowsAreOwned /\ RolesAreKept /\ SelectorsAreFresh
  /\ CountersAreCurrent /\ SpentIsSpent /\ ActsAreExplained /\ PredecessorsDie
------------------------------------------------------------------------------
(* Types are preserved by every step. *)
LEMMA TypeIsKept ==
  ASSUME TypeOK, [Next]_vars
  PROVE  TypeOK'
<1> USE TokenAssumption DEF TypeOK, Issuances, Operations, Labels, tables, control, history
<1>1. ASSUME NEW p \in Requests, NEW t \in Tokens, Present(p, t)
      PROVE  TypeOK'
  BY <1>1 DEF Present, Goto
<1>2. ASSUME NEW p \in Requests, LockForAttempt(p)
      PROVE  TypeOK'
  <2>1. CASE tok[p] \in Issued
    <3>1. rowLock' \in [Tokens -> Requests \cup {NoRequest}]
      BY <1>2, <2>1 DEF LockForAttempt, TakeRow
    <3>2. seen' \in [Requests -> Nat]
      BY <1>2, <2>1 DEF LockForAttempt
    <3>3. pc' \in [Requests -> Labels]
      BY <1>2, <2>1 DEF LockForAttempt, Goto
    <3>4. QED
      BY <1>2, <3>1, <3>2, <3>3 DEF LockForAttempt
  <2>2. CASE tok[p] \notin Issued
    BY <1>2, <2>2 DEF LockForAttempt, Goto
  <2>3. QED
    BY <2>1, <2>2
<1>3. ASSUME NEW p \in Requests, RecordAttempt(p)
      PROVE  TypeOK'
  <2>1. pc' \in [Requests -> Labels] /\ rowLock' \in [Tokens -> Requests \cup {NoRequest}]
    BY <1>3 DEF RecordAttempt, Goto, EndTransaction
  <2>2. seen' \in [Requests -> Nat]
    BY <1>3 DEF RecordAttempt
  <2>3. attempts' \in [Tokens -> Nat] /\ guesses' \in [Tokens -> Nat]
    <3>1. CASE seen[p] >= MaxAttempts
      BY <1>3, <3>1 DEF RecordAttempt
    <3>2. CASE seen[p] < MaxAttempts
      <4>1. attempts' = [attempts EXCEPT ![tok[p]] = seen[p] + 1]
        BY <1>3, <3>2 DEF RecordAttempt
      <4>2. guesses' = [guesses EXCEPT ![tok[p]] = guesses[tok[p]] + 1]
        BY <1>3, <3>2 DEF RecordAttempt
      <4>3. seen[p] + 1 \in Nat /\ guesses[tok[p]] + 1 \in Nat
        OBVIOUS
      <4>4. QED
        BY <4>1, <4>2, <4>3
    <3>3. QED
      BY <3>1, <3>2
  <2>4. QED
    BY <1>3, <2>1, <2>2, <2>3 DEF RecordAttempt
<1>4. ASSUME NEW p \in Requests, FindBySelector(p)
      PROVE  TypeOK'
  BY <1>4 DEF FindBySelector, Goto
<1>5. ASSUME NEW p \in Requests, FindUserBySelector(p)
      PROVE  TypeOK'
  BY <1>5 DEF FindUserBySelector, Goto
<1>6. ASSUME NEW p \in Requests, LockForConsume(p)
      PROVE  TypeOK'
  <2>1. CASE status[tok[p]] = "live"
    BY <1>6, <2>1, SMTT(20) DEF LockForConsume, Goto, TakeRow, Free
  <2>2. CASE status[tok[p]] # "live"
    BY <1>6, <2>2 DEF LockForConsume, Goto, TakeRow, Free
  <2>3. QED
    BY <1>6, <2>1, <2>2 DEF LockForConsume, Issued
<1>7. ASSUME NEW p \in Requests, Act(p)
      PROVE  TypeOK'
  BY <1>7 DEF Act, Goto, Issued
<1>8. ASSUME NEW p \in Requests, NEW t \in Tokens, ExpireInTransaction(p, t)
      PROVE  TypeOK'
  BY <1>8 DEF ExpireInTransaction, TakeRow, Free
<1>9. ASSUME NEW p \in Requests, CommitConsume(p)
      PROVE  TypeOK'
  BY <1>9 DEF CommitConsume, Goto, EndTransaction
<1>10. ASSUME NEW p \in Requests, NEW o \in Issuances, NEW t \in Tokens, BeginIssue(p, o, t)
      PROVE  TypeOK'
  BY <1>10 DEF BeginIssue, Goto, Issued
<1>11. ASSUME NEW p \in Requests, NEW t \in Tokens, ExpireDirectly(p, t)
      PROVE  TypeOK'
  BY <1>11 DEF ExpireDirectly, Free
<1>12. ASSUME NEW p \in Requests, Create(p)
      PROVE  TypeOK'
  BY <1>12, SMTT(20) DEF Create, Goto
<1>13. ASSUME NEW p \in Requests, CommitIssue(p)
      PROVE  TypeOK'
  BY <1>13 DEF CommitIssue, Goto, EndTransaction
<1>14. ASSUME NEW p \in Requests, pc[p] \in {"count", "act", "retire", "expire", "mail"}, RollBack(p)
      PROVE  TypeOK'
  BY <1>14 DEF RollBack, Goto, EndTransaction
<1>15. ASSUME NEW t \in Tokens, PassExpiry(t)
      PROVE  TypeOK'
  BY <1>15 DEF PassExpiry
<1>16. CASE UNCHANGED vars
  BY <1>16 DEF vars
<1>17. QED
  BY <1>1, <1>2, <1>3, <1>4, <1>5, <1>6, <1>7, <1>8, <1>9, <1>10, <1>11, <1>12, <1>13, <1>14, <1>15, <1>16
  DEF Next, Arrive, Proceed, Fail, AbortDeadlocked, Blocked

(* Row ownership is preserved: a row changes hands only when it is free. *)
LEMMA RowsAreKept ==
  ASSUME TypeOK, RowsAreOwned, RolesAreKept, SelectorsAreFresh, [Next]_vars
  PROVE  RowsAreOwned'
<1> USE TokenAssumption DEF TypeOK, RowsAreOwned, RolesAreKept, SelectorsAreFresh, Issuances, Operations, Labels, tables, control, history
<1>1. ASSUME NEW p \in Requests, NEW t \in Tokens, Present(p, t)
      PROVE  RowsAreOwned'
  BY <1>1 DEF Present, Goto
<1>2. ASSUME NEW p \in Requests, LockForAttempt(p)
      PROVE  RowsAreOwned'
  BY <1>2 DEF LockForAttempt, Goto, TakeRow, Free, Issued
<1>3. ASSUME NEW p \in Requests, RecordAttempt(p)
      PROVE  RowsAreOwned'
  BY <1>3 DEF RecordAttempt, Goto, EndTransaction
<1>4. ASSUME NEW p \in Requests, FindBySelector(p)
      PROVE  RowsAreOwned'
  BY <1>4 DEF FindBySelector, Goto
<1>5. ASSUME NEW p \in Requests, FindUserBySelector(p)
      PROVE  RowsAreOwned'
  BY <1>5 DEF FindUserBySelector, Goto
<1>6. ASSUME NEW p \in Requests, LockForConsume(p)
      PROVE  RowsAreOwned'
  BY <1>6 DEF LockForConsume, Goto, TakeRow, Free
<1>7. ASSUME NEW p \in Requests, Act(p)
      PROVE  RowsAreOwned'
  BY <1>7 DEF Act, Goto, Issued
<1>8. ASSUME NEW p \in Requests, NEW t \in Tokens, ExpireInTransaction(p, t)
      PROVE  RowsAreOwned'
  BY <1>8 DEF ExpireInTransaction, TakeRow, Free
<1>9. ASSUME NEW p \in Requests, CommitConsume(p)
      PROVE  RowsAreOwned'
  BY <1>9 DEF CommitConsume, Goto, EndTransaction
<1>10. ASSUME NEW p \in Requests, NEW o \in Issuances, NEW t \in Tokens, BeginIssue(p, o, t)
      PROVE  RowsAreOwned'
  BY <1>10 DEF BeginIssue, Goto, Issued
<1>11. ASSUME NEW p \in Requests, NEW t \in Tokens, ExpireDirectly(p, t)
      PROVE  RowsAreOwned'
  BY <1>11 DEF ExpireDirectly, Free
<1>12. ASSUME NEW p \in Requests, Create(p)
      PROVE  RowsAreOwned'
  BY <1>12 DEF Create, Goto
<1>13. ASSUME NEW p \in Requests, CommitIssue(p)
      PROVE  RowsAreOwned'
  BY <1>13 DEF CommitIssue, Goto, EndTransaction
<1>14. ASSUME NEW p \in Requests, pc[p] \in {"count", "act", "retire", "expire", "mail"}, RollBack(p)
      PROVE  RowsAreOwned'
  BY <1>14 DEF RollBack, Goto, EndTransaction
<1>15. ASSUME NEW t \in Tokens, PassExpiry(t)
      PROVE  RowsAreOwned'
  BY <1>15 DEF PassExpiry
<1>16. CASE UNCHANGED vars
  BY <1>16 DEF vars
<1>17. QED
  BY <1>1, <1>2, <1>3, <1>4, <1>5, <1>6, <1>7, <1>8, <1>9, <1>10, <1>11, <1>12, <1>13, <1>14, <1>15, <1>16
  DEF Next, Arrive, Proceed, Fail, AbortDeadlocked, Blocked

(* Roles are preserved. *)
LEMMA RolesStay ==
  ASSUME TypeOK, RowsAreOwned, RolesAreKept, [Next]_vars
  PROVE  RolesAreKept'
<1> USE TokenAssumption DEF TypeOK, RowsAreOwned, RolesAreKept, Issuances, Operations, Labels, tables, control, history
<1>1. ASSUME NEW p \in Requests, NEW t \in Tokens, Present(p, t)
      PROVE  RolesAreKept'
  BY <1>1 DEF Present, Goto
<1>2. ASSUME NEW p \in Requests, LockForAttempt(p)
      PROVE  RolesAreKept'
  BY <1>2 DEF LockForAttempt, Goto, TakeRow, Free, Issued
<1>3. ASSUME NEW p \in Requests, RecordAttempt(p)
      PROVE  RolesAreKept'
  BY <1>3 DEF RecordAttempt, Goto, EndTransaction
<1>4. ASSUME NEW p \in Requests, FindBySelector(p)
      PROVE  RolesAreKept'
  BY <1>4 DEF FindBySelector, Goto
<1>5. ASSUME NEW p \in Requests, FindUserBySelector(p)
      PROVE  RolesAreKept'
  BY <1>5 DEF FindUserBySelector, Goto
<1>6. ASSUME NEW p \in Requests, LockForConsume(p)
      PROVE  RolesAreKept'
  BY <1>6 DEF LockForConsume, Goto, TakeRow, Free
<1>7. ASSUME NEW p \in Requests, Act(p)
      PROVE  RolesAreKept'
  BY <1>7 DEF Act, Goto, Issued
<1>8. ASSUME NEW p \in Requests, NEW t \in Tokens, ExpireInTransaction(p, t)
      PROVE  RolesAreKept'
  BY <1>8 DEF ExpireInTransaction, TakeRow, Free
<1>9. ASSUME NEW p \in Requests, CommitConsume(p)
      PROVE  RolesAreKept'
  BY <1>9 DEF CommitConsume, Goto, EndTransaction
<1>10. ASSUME NEW p \in Requests, NEW o \in Issuances, NEW t \in Tokens, BeginIssue(p, o, t)
      PROVE  RolesAreKept'
  BY <1>10 DEF BeginIssue, Goto, Issued
<1>11. ASSUME NEW p \in Requests, NEW t \in Tokens, ExpireDirectly(p, t)
      PROVE  RolesAreKept'
  BY <1>11 DEF ExpireDirectly, Free
<1>12. ASSUME NEW p \in Requests, Create(p)
      PROVE  RolesAreKept'
  BY <1>12 DEF Create, Goto
<1>13. ASSUME NEW p \in Requests, CommitIssue(p)
      PROVE  RolesAreKept'
  BY <1>13 DEF CommitIssue, Goto, EndTransaction
<1>14. ASSUME NEW p \in Requests, pc[p] \in {"count", "act", "retire", "expire", "mail"}, RollBack(p)
      PROVE  RolesAreKept'
  BY <1>14 DEF RollBack, Goto, EndTransaction
<1>15. ASSUME NEW t \in Tokens, PassExpiry(t)
      PROVE  RolesAreKept'
  BY <1>15 DEF PassExpiry
<1>16. CASE UNCHANGED vars
  BY <1>16 DEF vars
<1>17. QED
  BY <1>1, <1>2, <1>3, <1>4, <1>5, <1>6, <1>7, <1>8, <1>9, <1>10, <1>11, <1>12, <1>13, <1>14, <1>15, <1>16
  DEF Next, Arrive, Proceed, Fail, AbortDeadlocked, Blocked

(* A reserved selector gets its row from its own issuance only. *)
LEMMA SelectorsStayFresh ==
  ASSUME TypeOK, RowsAreOwned, RolesAreKept, SelectorsAreFresh, [Next]_vars
  PROVE  SelectorsAreFresh'
<1> USE TokenAssumption DEF TypeOK, RowsAreOwned, RolesAreKept, SelectorsAreFresh, Issuances, Operations, Labels, tables, control, history
<1>1. ASSUME NEW p \in Requests, NEW t \in Tokens, Present(p, t)
      PROVE  SelectorsAreFresh'
  BY <1>1 DEF Present, Goto
<1>2. ASSUME NEW p \in Requests, LockForAttempt(p)
      PROVE  SelectorsAreFresh'
  BY <1>2 DEF LockForAttempt, Goto, TakeRow, Free, Issued
<1>3. ASSUME NEW p \in Requests, RecordAttempt(p)
      PROVE  SelectorsAreFresh'
  BY <1>3 DEF RecordAttempt, Goto, EndTransaction
<1>4. ASSUME NEW p \in Requests, FindBySelector(p)
      PROVE  SelectorsAreFresh'
  BY <1>4 DEF FindBySelector, Goto
<1>5. ASSUME NEW p \in Requests, FindUserBySelector(p)
      PROVE  SelectorsAreFresh'
  BY <1>5 DEF FindUserBySelector, Goto
<1>6. ASSUME NEW p \in Requests, LockForConsume(p)
      PROVE  SelectorsAreFresh'
  BY <1>6 DEF LockForConsume, Goto, TakeRow, Free
<1>7. ASSUME NEW p \in Requests, Act(p)
      PROVE  SelectorsAreFresh'
  BY <1>7 DEF Act, Goto, Issued
<1>8. ASSUME NEW p \in Requests, NEW t \in Tokens, ExpireInTransaction(p, t)
      PROVE  SelectorsAreFresh'
  BY <1>8 DEF ExpireInTransaction, TakeRow, Free
<1>9. ASSUME NEW p \in Requests, CommitConsume(p)
      PROVE  SelectorsAreFresh'
  BY <1>9 DEF CommitConsume, Goto, EndTransaction
<1>10. ASSUME NEW p \in Requests, NEW o \in Issuances, NEW t \in Tokens, BeginIssue(p, o, t)
      PROVE  SelectorsAreFresh'
  BY <1>10 DEF BeginIssue, Goto, Issued
<1>11. ASSUME NEW p \in Requests, NEW t \in Tokens, ExpireDirectly(p, t)
      PROVE  SelectorsAreFresh'
  BY <1>11 DEF ExpireDirectly, Free
<1>12. ASSUME NEW p \in Requests, Create(p)
      PROVE  SelectorsAreFresh'
  BY <1>12 DEF Create, Goto
<1>13. ASSUME NEW p \in Requests, CommitIssue(p)
      PROVE  SelectorsAreFresh'
  BY <1>13 DEF CommitIssue, Goto, EndTransaction
<1>14. ASSUME NEW p \in Requests, pc[p] \in {"count", "act", "retire", "expire", "mail"}, RollBack(p)
      PROVE  SelectorsAreFresh'
  BY <1>14 DEF RollBack, Goto, EndTransaction
<1>15. ASSUME NEW t \in Tokens, PassExpiry(t)
      PROVE  SelectorsAreFresh'
  BY <1>15 DEF PassExpiry
<1>16. CASE UNCHANGED vars
  BY <1>16 DEF vars
<1>17. QED
  BY <1>1, <1>2, <1>3, <1>4, <1>5, <1>6, <1>7, <1>8, <1>9, <1>10, <1>11, <1>12, <1>13, <1>14, <1>15, <1>16
  DEF Next, Arrive, Proceed, Fail, AbortDeadlocked, Blocked

(* No attempt is lost between the locked read and the write. *)
LEMMA CountersStayCurrent ==
  ASSUME TypeOK, RowsAreOwned, CountersAreCurrent, [Next]_vars
  PROVE  CountersAreCurrent'
<1> USE TokenAssumption DEF TypeOK, RowsAreOwned, CountersAreCurrent, GuessesBounded, Issuances, Operations, Labels, tables, control, history
<1>1. ASSUME NEW p \in Requests, NEW t \in Tokens, Present(p, t)
      PROVE  CountersAreCurrent'
  BY <1>1 DEF Present, Goto
<1>2. ASSUME NEW p \in Requests, LockForAttempt(p)
      PROVE  CountersAreCurrent'
  BY <1>2 DEF LockForAttempt, Goto, TakeRow, Free, Issued
<1>3. ASSUME NEW p \in Requests, RecordAttempt(p)
      PROVE  CountersAreCurrent'
  BY <1>3 DEF RecordAttempt, Goto, EndTransaction
<1>4. ASSUME NEW p \in Requests, FindBySelector(p)
      PROVE  CountersAreCurrent'
  BY <1>4 DEF FindBySelector, Goto
<1>5. ASSUME NEW p \in Requests, FindUserBySelector(p)
      PROVE  CountersAreCurrent'
  BY <1>5 DEF FindUserBySelector, Goto
<1>6. ASSUME NEW p \in Requests, LockForConsume(p)
      PROVE  CountersAreCurrent'
  BY <1>6 DEF LockForConsume, Goto, TakeRow, Free
<1>7. ASSUME NEW p \in Requests, Act(p)
      PROVE  CountersAreCurrent'
  BY <1>7 DEF Act, Goto, Issued
<1>8. ASSUME NEW p \in Requests, NEW t \in Tokens, ExpireInTransaction(p, t)
      PROVE  CountersAreCurrent'
  BY <1>8 DEF ExpireInTransaction, TakeRow, Free
<1>9. ASSUME NEW p \in Requests, CommitConsume(p)
      PROVE  CountersAreCurrent'
  BY <1>9 DEF CommitConsume, Goto, EndTransaction
<1>10. ASSUME NEW p \in Requests, NEW o \in Issuances, NEW t \in Tokens, BeginIssue(p, o, t)
      PROVE  CountersAreCurrent'
  BY <1>10 DEF BeginIssue, Goto, Issued
<1>11. ASSUME NEW p \in Requests, NEW t \in Tokens, ExpireDirectly(p, t)
      PROVE  CountersAreCurrent'
  BY <1>11 DEF ExpireDirectly, Free
<1>12. ASSUME NEW p \in Requests, Create(p)
      PROVE  CountersAreCurrent'
  BY <1>12 DEF Create, Goto
<1>13. ASSUME NEW p \in Requests, CommitIssue(p)
      PROVE  CountersAreCurrent'
  BY <1>13 DEF CommitIssue, Goto, EndTransaction
<1>14. ASSUME NEW p \in Requests, pc[p] \in {"count", "act", "retire", "expire", "mail"}, RollBack(p)
      PROVE  CountersAreCurrent'
  BY <1>14 DEF RollBack, Goto, EndTransaction
<1>15. ASSUME NEW t \in Tokens, PassExpiry(t)
      PROVE  CountersAreCurrent'
  BY <1>15 DEF PassExpiry
<1>16. CASE UNCHANGED vars
  BY <1>16 DEF vars
<1>17. QED
  BY <1>1, <1>2, <1>3, <1>4, <1>5, <1>6, <1>7, <1>8, <1>9, <1>10, <1>11, <1>12, <1>13, <1>14, <1>15, <1>16
  DEF Next, Arrive, Proceed, Fail, AbortDeadlocked, Blocked

(* A second consumption would need the row of a live token. *)
LEMMA SpentStaysSpent ==
  ASSUME TypeOK, RowsAreOwned, RolesAreKept, SelectorsAreFresh, SpentIsSpent, [Next]_vars
  PROVE  SpentIsSpent'
<1> USE TokenAssumption DEF TypeOK, RowsAreOwned, RolesAreKept, SelectorsAreFresh, SpentIsSpent, ConsumedAtMostOnce, Issuances, Operations, Labels, tables, control, history
<1>1. ASSUME NEW p \in Requests, NEW t \in Tokens, Present(p, t)
      PROVE  SpentIsSpent'
  BY <1>1 DEF Present, Goto
<1>2. ASSUME NEW p \in Requests, LockForAttempt(p)
      PROVE  SpentIsSpent'
  BY <1>2 DEF LockForAttempt, Goto, TakeRow, Free, Issued
<1>3. ASSUME NEW p \in Requests, RecordAttempt(p)
      PROVE  SpentIsSpent'
  BY <1>3 DEF RecordAttempt, Goto, EndTransaction
<1>4. ASSUME NEW p \in Requests, FindBySelector(p)
      PROVE  SpentIsSpent'
  BY <1>4 DEF FindBySelector, Goto
<1>5. ASSUME NEW p \in Requests, FindUserBySelector(p)
      PROVE  SpentIsSpent'
  BY <1>5 DEF FindUserBySelector, Goto
<1>6. ASSUME NEW p \in Requests, LockForConsume(p)
      PROVE  SpentIsSpent'
  <2>1. CASE status[tok[p]] = "live"
    <3>1. commits[tok[p]] = 0
      <4>1. tok[p] \in Tokens /\ commits[tok[p]] \in Nat
        OBVIOUS
      <4>2. commits[tok[p]] <= 1 /\ commits[tok[p]] # 1
        BY <2>1, <4>1
      <4>3. \A n \in Nat : n <= 1 /\ n # 1 => n = 0
        OBVIOUS
      <4>4. QED
        BY <4>1, <4>2, <4>3
    <3>2. pc' = [pc EXCEPT ![p] = "act"] /\ UNCHANGED <<commits, status, tok>>
      BY <1>6, <2>1 DEF LockForConsume, Goto
    <3>3. QED
      BY <3>1, <3>2
  <2>2. CASE status[tok[p]] # "live"
    BY <1>6, <2>2 DEF LockForConsume, Goto
  <2>3. QED
    BY <2>1, <2>2
<1>7. ASSUME NEW p \in Requests, Act(p)
      PROVE  SpentIsSpent'
  BY <1>7 DEF Act, Goto, Issued
<1>8. ASSUME NEW p \in Requests, NEW t \in Tokens, ExpireInTransaction(p, t)
      PROVE  SpentIsSpent'
  BY <1>8 DEF ExpireInTransaction, TakeRow, Free
<1>9. ASSUME NEW p \in Requests, CommitConsume(p)
      PROVE  SpentIsSpent'
  BY <1>9 DEF CommitConsume, Goto, EndTransaction
<1>10. ASSUME NEW p \in Requests, NEW o \in Issuances, NEW t \in Tokens, BeginIssue(p, o, t)
      PROVE  SpentIsSpent'
  BY <1>10 DEF BeginIssue, Goto, Issued
<1>11. ASSUME NEW p \in Requests, NEW t \in Tokens, ExpireDirectly(p, t)
      PROVE  SpentIsSpent'
  BY <1>11 DEF ExpireDirectly, Free
<1>12. ASSUME NEW p \in Requests, Create(p)
      PROVE  SpentIsSpent'
  BY <1>12 DEF Create, Goto
<1>13. ASSUME NEW p \in Requests, CommitIssue(p)
      PROVE  SpentIsSpent'
  BY <1>13 DEF CommitIssue, Goto, EndTransaction
<1>14. ASSUME NEW p \in Requests, pc[p] \in {"count", "act", "retire", "expire", "mail"}, RollBack(p)
      PROVE  SpentIsSpent'
  BY <1>14 DEF RollBack, Goto, EndTransaction
<1>15. ASSUME NEW t \in Tokens, PassExpiry(t)
      PROVE  SpentIsSpent'
  BY <1>15 DEF PassExpiry
<1>16. CASE UNCHANGED vars
  BY <1>16 DEF vars
<1>17. QED
  BY <1>1, <1>2, <1>3, <1>4, <1>5, <1>6, <1>7, <1>8, <1>9, <1>10, <1>11, <1>12, <1>13, <1>14, <1>15, <1>16
  DEF Next, Arrive, Proceed, Fail, AbortDeadlocked, Blocked

(* The account of act's writes balances. *)
LEMMA ActsStayExplained ==
  ASSUME TypeOK, RowsAreOwned, RolesAreKept, ActsAreExplained, [Next]_vars
  PROVE  ActsAreExplained'
<1> USE TokenAssumption DEF TypeOK, RowsAreOwned, RolesAreKept, ActsAreExplained, Pending, Issuances, Operations, Labels, tables, control, history
<1>1. ASSUME NEW p \in Requests, NEW t \in Tokens, Present(p, t)
      PROVE  ActsAreExplained'
  BY <1>1 DEF Present, Goto
<1>2. ASSUME NEW p \in Requests, LockForAttempt(p)
      PROVE  ActsAreExplained'
  BY <1>2 DEF LockForAttempt, Goto, TakeRow, Free, Issued
<1>3. ASSUME NEW p \in Requests, RecordAttempt(p)
      PROVE  ActsAreExplained'
  BY <1>3 DEF RecordAttempt, Goto, EndTransaction
<1>4. ASSUME NEW p \in Requests, FindBySelector(p)
      PROVE  ActsAreExplained'
  BY <1>4 DEF FindBySelector, Goto
<1>5. ASSUME NEW p \in Requests, FindUserBySelector(p)
      PROVE  ActsAreExplained'
  BY <1>5 DEF FindUserBySelector, Goto
<1>6. ASSUME NEW p \in Requests, LockForConsume(p)
      PROVE  ActsAreExplained'
  BY <1>6 DEF LockForConsume, Goto, TakeRow, Free
<1>7. ASSUME NEW p \in Requests, Act(p)
      PROVE  ActsAreExplained'
  BY <1>7 DEF Act, Goto, Issued
<1>8. ASSUME NEW p \in Requests, NEW t \in Tokens, ExpireInTransaction(p, t)
      PROVE  ActsAreExplained'
  <2>1. UNCHANGED <<pc, tok, acts, commits, lost>>
    BY <1>8 DEF ExpireInTransaction
  <2>2. QED
    BY <2>1
<1>9. ASSUME NEW p \in Requests, CommitConsume(p)
      PROVE  ActsAreExplained'
  BY <1>9 DEF CommitConsume, Goto, EndTransaction
<1>10. ASSUME NEW p \in Requests, NEW o \in Issuances, NEW t \in Tokens, BeginIssue(p, o, t)
      PROVE  ActsAreExplained'
  BY <1>10 DEF BeginIssue, Goto, Issued
<1>11. ASSUME NEW p \in Requests, NEW t \in Tokens, ExpireDirectly(p, t)
      PROVE  ActsAreExplained'
  <2>1. UNCHANGED <<pc, tok, acts, commits, lost>>
    BY <1>11 DEF ExpireDirectly
  <2>2. QED
    BY <2>1
<1>12. ASSUME NEW p \in Requests, Create(p)
      PROVE  ActsAreExplained'
  BY <1>12 DEF Create, Goto
<1>13. ASSUME NEW p \in Requests, CommitIssue(p)
      PROVE  ActsAreExplained'
  BY <1>13 DEF CommitIssue, Goto, EndTransaction
<1>14. ASSUME NEW p \in Requests, pc[p] \in {"count", "act", "retire", "expire", "mail"}, RollBack(p)
      PROVE  ActsAreExplained'
  BY <1>14 DEF RollBack, Goto, EndTransaction
<1>15. ASSUME NEW t \in Tokens, PassExpiry(t)
      PROVE  ActsAreExplained'
  BY <1>15 DEF PassExpiry
<1>16. CASE UNCHANGED vars
  BY <1>16 DEF vars
<1> HIDE DEF TypeOK, RowsAreOwned, RolesAreKept, ActsAreExplained
<1>17. QED
  BY <1>1, <1>2, <1>3, <1>4, <1>5, <1>6, <1>7, <1>8, <1>9, <1>10, <1>11, <1>12, <1>13, <1>14, <1>15, <1>16
  DEF Next, Arrive, Proceed, Fail, AbortDeadlocked, Blocked

(* Predecessors of a token stay on their way to expiration. *)
LEMMA PredecessorsKeepDying ==
  ASSUME TypeOK, RowsAreOwned, RolesAreKept, SelectorsAreFresh, PredecessorsDie, [Next]_vars
  PROVE  PredecessorsDie'
<1> USE TokenAssumption DEF TypeOK, RowsAreOwned, RolesAreKept, SelectorsAreFresh, PredecessorsDie, NewerSupersedesOlder, Issuances, Operations, Labels, tables, control, history
<1>1. ASSUME NEW p \in Requests, NEW t \in Tokens, Present(p, t)
      PROVE  PredecessorsDie'
  BY <1>1 DEF Present, Goto
<1>2. ASSUME NEW p \in Requests, LockForAttempt(p)
      PROVE  PredecessorsDie'
  <2>1. CASE tok[p] \in Issued
    BY <1>2, <2>1, SMTT(20) DEF LockForAttempt, Goto, TakeRow, Free, Issued
  <2>2. CASE tok[p] \notin Issued
    BY <1>2, <2>2 DEF LockForAttempt, Goto, TakeRow, Free, Issued
  <2>3. QED
    BY <1>2, <2>1, <2>2 DEF LockForAttempt, Issued
<1>3. ASSUME NEW p \in Requests, RecordAttempt(p)
      PROVE  PredecessorsDie'
  <2>1. CASE seen[p] >= MaxAttempts
    BY <1>3, <2>1 DEF RecordAttempt, Goto, EndTransaction
  <2>2. CASE seen[p] < MaxAttempts
    BY <1>3, <2>2 DEF RecordAttempt, Goto, EndTransaction
  <2>3. QED
    BY <1>3, <2>1, <2>2 DEF RecordAttempt
<1>4. ASSUME NEW p \in Requests, FindBySelector(p)
      PROVE  PredecessorsDie'
  BY <1>4 DEF FindBySelector, Goto
<1>5. ASSUME NEW p \in Requests, FindUserBySelector(p)
      PROVE  PredecessorsDie'
  BY <1>5 DEF FindUserBySelector, Goto
<1>6. ASSUME NEW p \in Requests, LockForConsume(p)
      PROVE  PredecessorsDie'
  BY <1>6, SMTT(20) DEF LockForConsume, Goto, TakeRow, Free
<1>7. ASSUME NEW p \in Requests, Act(p)
      PROVE  PredecessorsDie'
  BY <1>7 DEF Act, Goto, Issued
<1>8. ASSUME NEW p \in Requests, NEW t \in Tokens, ExpireInTransaction(p, t)
      PROVE  PredecessorsDie'
  BY <1>8 DEF ExpireInTransaction, TakeRow, Free
<1>9. ASSUME NEW p \in Requests, CommitConsume(p)
      PROVE  PredecessorsDie'
  BY <1>9 DEF CommitConsume, Goto, EndTransaction
<1>10. ASSUME NEW p \in Requests, NEW o \in Issuances, NEW t \in Tokens, BeginIssue(p, o, t)
      PROVE  PredecessorsDie'
  BY <1>10 DEF BeginIssue, Goto, Issued
<1>11. ASSUME NEW p \in Requests, NEW t \in Tokens, ExpireDirectly(p, t)
      PROVE  PredecessorsDie'
  BY <1>11 DEF ExpireDirectly, Free
<1>12. ASSUME NEW p \in Requests, Create(p)
      PROVE  PredecessorsDie'
  <2>1. CASE op[p] = "issue"
    <3>1. /\ status' = [status EXCEPT ![tok[p]] = "live"] /\ todo[p] = {}
          /\ UNCHANGED <<rowLock, op, tok, todo, supersedes>> /\ pc' = [pc EXCEPT ![p] = "done"]
      BY <1>12, <2>1 DEF Create, Goto
    <3>2. \A u \in Tokens : status[u] = "expired" => status'[u] = "expired"
      BY <1>12, <3>1 DEF Create
    <3>3. \A u \in supersedes[tok[p]] : status[u] = "expired"
      BY <1>12, <2>1, <3>1 DEF Create
    <3>4. NewerSupersedesOlder'
      BY <3>1, <3>2, <3>3
    <3>5. QED
      BY <3>1, <3>2, <3>4
  <2>2. CASE op[p] = "issueTrx"
    BY <1>12, <2>2 DEF Create, Goto
  <2>3. QED
    BY <1>12, <2>1, <2>2 DEF Create
<1>13. ASSUME NEW p \in Requests, CommitIssue(p)
      PROVE  PredecessorsDie'
  BY <1>13 DEF CommitIssue, Goto, EndTransaction
<1>14. ASSUME NEW p \in Requests, pc[p] \in {"count", "act", "retire", "expire", "mail"}, RollBack(p)
      PROVE  PredecessorsDie'
  BY <1>14 DEF RollBack, Goto, EndTransaction
<1>15. ASSUME NEW t \in Tokens, PassExpiry(t)
      PROVE  PredecessorsDie'
  BY <1>15 DEF PassExpiry
<1>16. CASE UNCHANGED vars
  BY <1>16 DEF vars
<1>17. QED
  BY <1>1, <1>2, <1>3, <1>4, <1>5, <1>6, <1>7, <1>8, <1>9, <1>10, <1>11, <1>12, <1>13, <1>14, <1>15, <1>16
  DEF Next, Arrive, Proceed, Fail, AbortDeadlocked, Blocked
------------------------------------------------------------------------------
(* The strengthened invariant holds initially and is kept by every step. *)
LEMMA InvariantHolds == Spec => []IInv
<1>1. Init => IInv
  <2> SUFFICES ASSUME Init PROVE IInv
    OBVIOUS
  <2> USE TokenAssumption DEF Init
  <2>1. TypeOK
    BY DEF TypeOK, Operations, Labels
  <2>2. RowsAreOwned /\ RolesAreKept /\ SelectorsAreFresh
    BY DEF RowsAreOwned, RolesAreKept, SelectorsAreFresh, Issuances
  <2>3. CountersAreCurrent /\ SpentIsSpent
    BY DEF CountersAreCurrent, GuessesBounded, SpentIsSpent, ConsumedAtMostOnce
  <2>4. ActsAreExplained
    BY DEF ActsAreExplained, Pending
  <2>5. PredecessorsDie
    BY DEF PredecessorsDie, NewerSupersedesOlder
  <2>6. QED
    BY <2>1, <2>2, <2>3, <2>4, <2>5 DEF IInv
<1>2. IInv /\ [Next]_vars => IInv'
  BY TypeIsKept, RowsAreKept, RolesStay, SelectorsStayFresh, CountersStayCurrent,
     SpentStaysSpent, ActsStayExplained, PredecessorsKeepDying DEF IInv
<1>3. QED
  BY <1>1, <1>2, PTL DEF Spec

(* Every reachable state is well typed. *)
THEOREM TypeCorrect == Spec => []TypeOK
<1>1. IInv => TypeOK
  BY DEF IInv
<1>2. QED
  BY <1>1, InvariantHolds, PTL

(* checkAndIncrementAttempt: for any number of overlapping presentations no  *)
(* more than MaxAttempts of them pass the cap, and none goes uncounted.      *)
THEOREM LockoutHolds == Spec => []GuessesBounded
<1>1. IInv => GuessesBounded
  BY DEF IInv, CountersAreCurrent
<1>2. QED
  BY <1>1, InvariantHolds, PTL

(* consume(): of all the concurrent presentations of a token at most one    *)
(* commits, crashes, rollbacks and re-issues included.                      *)
THEOREM SingleUse == Spec => []ConsumedAtMostOnce
<1>1. IInv => ConsumedAtMostOnce
  BY DEF IInv, SpentIsSpent
<1>2. QED
  BY <1>1, InvariantHolds, PTL

(* issue(): a usable token has no usable predecessor among those its        *)
(* issuance found.                                                          *)
THEOREM Supersession == Spec => []NewerSupersedesOlder
<1>1. IInv => NewerSupersedesOlder
  BY DEF IInv, PredecessorsDie
<1>2. QED
  BY <1>1, InvariantHolds, PTL

(* act's write is repeated only after a rollback that left it behind.       *)
THEOREM RepeatsNeedRollback == Spec => []EffectsAccounted
<1>1. IInv => EffectsAccounted
  <2> SUFFICES ASSUME IInv, NEW t \in Tokens PROVE acts[t] <= 1 + lost[t]
    BY DEF EffectsAccounted
  <2>1. /\ acts[t] \in Nat /\ lost[t] \in Nat /\ commits[t] \in Nat
        /\ acts[t] = commits[t] + lost[t] + (IF Pending(t) THEN 1 ELSE 0)
        /\ commits[t] <= 1
    BY DEF IInv, TypeOK, ActsAreExplained, SpentIsSpent, ConsumedAtMostOnce
  <2>2. Pending(t) => commits[t] = 0
    BY DEF Pending, IInv, SpentIsSpent
  <2>3. QED
    BY <2>1, <2>2
<1>2. QED
  BY <1>1, InvariantHolds, PTL

------------------------------------------------------------------------------
(* TokenLifecycle implements OneTimeCredential *)

(* The invariant as the steps below use it. *)
Facts ==
  /\ TypeOK /\ RowsAreOwned /\ RolesAreKept /\ SelectorsAreFresh
  /\ CountersAreCurrent /\ SpentIsSpent

CredentialStates == [t \in Tokens |-> CredentialState(t)]

(* Whoever claims a token holds its row, so a row that is free, or held by  *)
(* a transaction about another token, is the row of an unclaimed token.     *)
LEMMA ClaimsHoldRows ==
  ASSUME Facts, NEW t \in Tokens, NEW p \in Requests, Free(p, t),
         ~ (tok[p] = t /\ pc[p] \in {"act", "retire"})
  PROVE  ~ Claimed(t)
BY TokenAssumption DEF Facts, RowsAreOwned, Claimed, Free

(* A token without a row is unissued in the abstract state too. *)
LEMMA UnissuedIsUnissued ==
  ASSUME Facts, NEW t \in Tokens, status[t] = "unissued"
  PROVE  CredentialState(t) = "unissued" /\ commits[t] = 0 /\ ~ Claimed(t)
<1>1. ~ Claimed(t)
  BY TokenAssumption DEF Facts, RowsAreOwned, Claimed
<1>2. commits[t] \in Nat /\ commits[t] <= 1 /\ commits[t] # 1
  BY DEF Facts, TypeOK, SpentIsSpent, ConsumedAtMostOnce
<1>3. \A n \in Nat : n <= 1 /\ n # 1 => n = 0
  OBVIOUS
<1>4. QED
  BY <1>1, <1>2, <1>3 DEF CredentialState

(* Steps that touch neither the rows, nor the commits, nor the claims. *)
LEMMA QuietSteps ==
  ASSUME status' = status, commits' = commits, guesses' = guesses,
         \A t \in Tokens : Claimed(t)' <=> Claimed(t)
  PROVE  UNCHANGED Credential!credVars
<1>1. \A t \in Tokens : CredentialState(t)' = CredentialState(t)
  BY DEF CredentialState
<1>2. QED
  BY <1>1 DEF Credential!credVars

(* Ending a request that claims nothing leaves every claim where it is. *)
LEMMA OthersKeepClaims ==
  ASSUME Facts, NEW p \in Requests, pc[p] \notin {"act", "retire"}, tok' = tok,
         NEW l, l \notin {"act", "retire"}, pc' = [pc EXCEPT ![p] = l]
  PROVE  \A t \in Tokens : Claimed(t)' <=> Claimed(t)
BY DEF Claimed, Facts, TypeOK

(* Claims come and go on the token of the request that moves. *)
LEMMA ClaimEnds ==
  ASSUME Facts, NEW p \in Requests, pc[p] \in {"act", "retire"}, tok' = tok,
         pc' = [pc EXCEPT ![p] = "done"]
  PROVE  /\ Claimed(tok[p]) /\ ~ Claimed(tok[p])'
         /\ \A t \in Tokens : t # tok[p] => (Claimed(t)' <=> Claimed(t))
<1>1. \A q \in Requests : q # p /\ pc[q] \in {"act", "retire"} => tok[q] # tok[p]
  BY DEF Facts, RowsAreOwned
<1>2. QED
  BY <1>1 DEF Claimed, Facts, TypeOK

(* Every step of the lifecycle is a step of the credential, or none. *)
LEMMA StepImplements ==
  ASSUME Facts, [Next]_vars
  PROVE  [Credential!Next]_(Credential!credVars)
<1> USE TokenAssumption DEF tables, control, history
<1>1. ASSUME NEW p \in Requests, NEW t \in Tokens, Present(p, t)
      PROVE  UNCHANGED Credential!credVars
  <2>1. \A u \in Tokens : Claimed(u)' <=> Claimed(u)
    BY <1>1 DEF Present, Goto, Claimed, Facts, TypeOK
  <2>2. QED
    BY <1>1, <2>1, QuietSteps DEF Present
<1>2. ASSUME NEW p \in Requests, LockForAttempt(p)
      PROVE  UNCHANGED Credential!credVars
  <2>1. \A u \in Tokens : Claimed(u)' <=> Claimed(u)
    BY <1>2 DEF LockForAttempt, Goto, Claimed, Facts, TypeOK
  <2>2. QED
    BY <1>2, <2>1, QuietSteps DEF LockForAttempt
<1>3. ASSUME NEW p \in Requests, RecordAttempt(p)
      PROVE  Credential!Try(tok[p]) \/ UNCHANGED Credential!credVars
  <2>1. \A u \in Tokens : Claimed(u)' <=> Claimed(u)
    BY <1>3 DEF RecordAttempt, Goto, Claimed, Facts, TypeOK
  <2>2. CredentialStates' = CredentialStates
    BY <1>3, <2>1 DEF RecordAttempt, CredentialStates, CredentialState
  <2>3. guesses' = guesses \/ (guesses[tok[p]] < MaxAttempts /\ guesses' = [guesses EXCEPT ![tok[p]] = @ + 1])
    BY <1>3 DEF RecordAttempt, Facts, CountersAreCurrent, GuessesBounded, TypeOK
  <2>4. QED
    BY <2>2, <2>3 DEF CredentialStates, Credential!Try, Credential!credVars
<1>4. ASSUME NEW p \in Requests, FindBySelector(p) \/ FindUserBySelector(p)
      PROVE  UNCHANGED Credential!credVars
  <2>1. \A u \in Tokens : Claimed(u)' <=> Claimed(u)
    BY <1>4 DEF FindBySelector, FindUserBySelector, Goto, Claimed, Facts, TypeOK
  <2>2. QED
    BY <1>4, <2>1, QuietSteps DEF FindBySelector, FindUserBySelector
<1>5. ASSUME NEW p \in Requests, LockForConsume(p)
      PROVE  Credential!Claim(tok[p]) \/ UNCHANGED Credential!credVars
  <2>1. CASE status[tok[p]] = "live"
    <3>1. tok[p] \in Tokens /\ pc[p] = "claim" /\ Free(p, tok[p])
      BY <1>5 DEF LockForConsume, Facts, TypeOK
    <3>2. ~ Claimed(tok[p])
      BY <3>1, ClaimsHoldRows
    <3>3. commits[tok[p]] = 0
      <4>1. commits[tok[p]] \in Nat /\ commits[tok[p]] <= 1 /\ commits[tok[p]] # 1
        BY <2>1, <3>1 DEF Facts, TypeOK, SpentIsSpent, ConsumedAtMostOnce
      <4>2. \A n \in Nat : n <= 1 /\ n # 1 => n = 0
        OBVIOUS
      <4>3. QED
        BY <4>1, <4>2
    <3>4. /\ pc' = [pc EXCEPT ![p] = "act"]
          /\ UNCHANGED <<status, tok, commits, guesses>>
      BY <1>5, <2>1 DEF LockForConsume, Goto
    <3>5. /\ Claimed(tok[p])'
          /\ \A u \in Tokens : u # tok[p] => (Claimed(u)' <=> Claimed(u))
      BY <3>1, <3>4 DEF Claimed, Facts, TypeOK
    <3>6. CredentialState(tok[p]) = "live" /\ CredentialState(tok[p])' = "claimed"
      BY <2>1, <3>1, <3>2, <3>3, <3>4, <3>5 DEF CredentialState
    <3>7. \A u \in Tokens : u # tok[p] => CredentialState(u)' = CredentialState(u)
      BY <3>4, <3>5 DEF CredentialState
    <3>8. QED
      BY <3>1, <3>4, <3>6, <3>7 DEF Credential!Claim
  <2>2. CASE status[tok[p]] # "live"
    <3>1. \A u \in Tokens : Claimed(u)' <=> Claimed(u)
      BY <1>5, <2>2 DEF LockForConsume, Goto, Claimed, Facts, TypeOK
    <3>2. QED
      BY <1>5, <3>1, QuietSteps DEF LockForConsume
  <2>3. QED
    BY <2>1, <2>2
<1>6. ASSUME NEW p \in Requests, Act(p)
      PROVE  UNCHANGED Credential!credVars
  <2>1. \A u \in Tokens : Claimed(u)' <=> Claimed(u)
    BY <1>6 DEF Act, Goto, Claimed, Facts, TypeOK
  <2>2. QED
    BY <1>6, <2>1, QuietSteps DEF Act
<1>7. ASSUME NEW p \in Requests, NEW t \in Tokens, ExpireInTransaction(p, t)
      PROVE  UNCHANGED Credential!credVars
  <2>1. \A u \in Tokens : Claimed(u)' <=> Claimed(u)
    BY <1>7 DEF ExpireInTransaction, Claimed
  <2>2. QED
    BY <1>7, <2>1, QuietSteps DEF ExpireInTransaction
<1>8. ASSUME NEW p \in Requests, CommitConsume(p)
      PROVE  Credential!Redeem(tok[p], Held(p) \ {tok[p]})
  <2>1. tok[p] \in Tokens /\ rowLock[tok[p]] = p /\ commits[tok[p]] = 0 /\ pc[p] = "retire"
    BY <1>8 DEF CommitConsume, Facts, TypeOK, RowsAreOwned, SpentIsSpent
  <2>2. /\ pc' = [pc EXCEPT ![p] = "done"] /\ UNCHANGED <<tok, guesses>>
        /\ status' = [t \in Tokens |-> IF rowLock[t] = p THEN "expired" ELSE status[t]]
        /\ commits' = [commits EXCEPT ![tok[p]] = @ + 1]
    BY <1>8 DEF CommitConsume, Goto
  <2>3. /\ Claimed(tok[p]) /\ ~ Claimed(tok[p])'
        /\ \A t \in Tokens : t # tok[p] => (Claimed(t)' <=> Claimed(t))
    BY <2>1, <2>2, ClaimEnds
  <2>4. CredentialState(tok[p]) = "claimed" /\ CredentialState(tok[p])' = "redeemed"
    <3>1. commits'[tok[p]] = 1
      BY <2>1, <2>2 DEF Facts, TypeOK
    <3>2. QED
      BY <2>1, <2>2, <2>3, <3>1 DEF CredentialState
  <2>5. ASSUME NEW t \in Tokens, t # tok[p]
        PROVE  CredentialState(t)' = IF t \in Held(p) /\ CredentialState(t) = "live"
                                     THEN "dead" ELSE CredentialState(t)
    <3>1. commits'[t] = commits[t] /\ (Claimed(t)' <=> Claimed(t))
      BY <2>2, <2>3, <2>5 DEF Facts, TypeOK
    <3>2. CASE rowLock[t] = p
      <4>1. ~ Claimed(t)
        BY <2>5, <3>2, ClaimsHoldRows DEF Free
      <4>2. status'[t] = "expired" /\ status[t] \in {"live", "expired"}
        BY <2>2, <3>2 DEF Facts, TypeOK, RowsAreOwned
      <4>3. QED
        BY <3>1, <3>2, <4>1, <4>2 DEF CredentialState, Held
    <3>3. CASE rowLock[t] # p
      BY <2>2, <3>1, <3>3 DEF CredentialState, Held
    <3>4. QED
      BY <3>2, <3>3
  <2>6. QED
    BY <2>1, <2>2, <2>4, <2>5 DEF Credential!Redeem, Credential!Killing
<1>9. ASSUME NEW p \in Requests, NEW o \in Issuances, NEW t \in Tokens, BeginIssue(p, o, t)
      PROVE  UNCHANGED Credential!credVars
  <2>1. \A u \in Tokens : Claimed(u)' <=> Claimed(u)
    BY <1>9 DEF BeginIssue, Goto, Claimed, Facts, TypeOK
  <2>2. QED
    BY <1>9, <2>1, QuietSteps DEF BeginIssue
<1>10. ASSUME NEW p \in Requests, NEW t \in Tokens, ExpireDirectly(p, t)
       PROVE  Credential!Retire({t})
  <2>1. /\ status' = [status EXCEPT ![t] = "expired"] /\ UNCHANGED <<pc, tok, commits, guesses>>
        /\ pc[p] = "expire" /\ Free(p, t) /\ status[t] # "unissued"
    BY <1>10 DEF ExpireDirectly, Facts, RolesAreKept
  <2>2. ~ Claimed(t) /\ \A u \in Tokens : Claimed(u)' <=> Claimed(u)
    BY <2>1, ClaimsHoldRows DEF Claimed
  <2>3. CredentialState(t)' = IF CredentialState(t) = "live" THEN "dead" ELSE CredentialState(t)
    BY <2>1, <2>2 DEF CredentialState, Facts, TypeOK
  <2>4. \A u \in Tokens : u # t => CredentialState(u)' = CredentialState(u)
    BY <2>1, <2>2 DEF CredentialState, Facts, TypeOK
  <2>5. QED
    BY <2>1, <2>3, <2>4 DEF Credential!Retire, Credential!Killing
<1>11. ASSUME NEW p \in Requests, Create(p)
       PROVE  Credential!Issue(tok[p], {}) \/ UNCHANGED Credential!credVars
  <2>1. tok[p] \in Tokens /\ pc[p] = "expire" /\ status[tok[p]] = "unissued"
    BY <1>11 DEF Create, Facts, TypeOK, SelectorsAreFresh
  <2>2. \A u \in Tokens : Claimed(u)' <=> Claimed(u)
    BY <1>11, <2>1, OthersKeepClaims DEF Create, Goto
  <2>3. CASE op[p] = "issue"
    <3>1. status' = [status EXCEPT ![tok[p]] = "live"] /\ UNCHANGED <<commits, guesses, tok>>
      BY <1>11, <2>3 DEF Create
    <3>2. CredentialState(tok[p]) = "unissued" /\ CredentialState(tok[p])' = "live"
      <4>1. CredentialState(tok[p]) = "unissued" /\ commits[tok[p]] = 0 /\ ~ Claimed(tok[p])
        BY <2>1, UnissuedIsUnissued
      <4>2. status'[tok[p]] = "live"
        BY <2>1, <3>1 DEF Facts, TypeOK
      <4>3. QED
        BY <2>1, <2>2, <3>1, <4>1, <4>2 DEF CredentialState
    <3>3. \A u \in Tokens : u # tok[p] => CredentialState(u)' = CredentialState(u)
      BY <2>2, <3>1 DEF CredentialState, Facts, TypeOK
    <3>4. QED
      BY <2>1, <3>1, <3>2, <3>3 DEF Credential!Issue, Credential!Killing
  <2>4. CASE op[p] = "issueTrx"
    BY <1>11, <2>2, <2>4, QuietSteps DEF Create
  <2>5. QED
    BY <1>11, <2>3, <2>4 DEF Create
<1>12. ASSUME NEW p \in Requests, CommitIssue(p)
       PROVE  Credential!Issue(tok[p], Held(p))
  <2>1. tok[p] \in Tokens /\ pc[p] = "mail" /\ status[tok[p]] = "unissued" /\ rowLock[tok[p]] # p
    BY <1>12 DEF CommitIssue, Facts, TypeOK, SelectorsAreFresh, RowsAreOwned
  <2>2. /\ status' = [t \in Tokens |-> IF t = tok[p] THEN "live"
                                       ELSE IF rowLock[t] = p THEN "expired" ELSE status[t]]
        /\ UNCHANGED <<commits, guesses, tok>>
    BY <1>12 DEF CommitIssue
  <2>3. \A u \in Tokens : Claimed(u)' <=> Claimed(u)
    BY <1>12, <2>1, OthersKeepClaims DEF CommitIssue, Goto
  <2>4. CredentialState(tok[p]) = "unissued" /\ CredentialState(tok[p])' = "live"
    <3>1. CredentialState(tok[p]) = "unissued" /\ commits[tok[p]] = 0 /\ ~ Claimed(tok[p])
      BY <2>1, UnissuedIsUnissued
    <3>2. status'[tok[p]] = "live"
      BY <2>1, <2>2
    <3>3. QED
      BY <2>1, <2>2, <2>3, <3>1, <3>2 DEF CredentialState
  <2>5. ASSUME NEW t \in Tokens, t # tok[p]
        PROVE  CredentialState(t)' = IF t \in Held(p) /\ CredentialState(t) = "live"
                                     THEN "dead" ELSE CredentialState(t)
    <3>1. CASE rowLock[t] = p
      <4>1. ~ Claimed(t)
        BY <2>1, <3>1, ClaimsHoldRows DEF Free
      <4>2. status'[t] = "expired" /\ status[t] \in {"live", "expired"}
        BY <2>2, <2>5, <3>1 DEF Facts, TypeOK, RowsAreOwned
      <4>3. QED
        BY <2>2, <2>3, <3>1, <4>1, <4>2 DEF CredentialState, Held
    <3>2. CASE rowLock[t] # p
      BY <2>2, <2>3, <2>5, <3>2 DEF CredentialState, Held
    <3>3. QED
      BY <3>1, <3>2
  <2>6. QED
    BY <2>1, <2>2, <2>4, <2>5 DEF Credential!Issue, Credential!Killing, Held
<1>13. ASSUME NEW p \in Requests, RollBack(p),
              pc[p] \in {"count", "act", "retire", "expire", "mail"}
       PROVE  Credential!Release(tok[p]) \/ UNCHANGED Credential!credVars
  <2>1. pc' = [pc EXCEPT ![p] = "done"] /\ UNCHANGED <<status, commits, guesses, tok>>
    BY <1>13 DEF RollBack, Goto
  <2>2. CASE pc[p] \notin {"act", "retire"}
    <3>1. \A u \in Tokens : Claimed(u)' <=> Claimed(u)
      BY <2>1, <2>2, OthersKeepClaims
    <3>2. QED
      BY <2>1, <3>1, QuietSteps
  <2>3. CASE pc[p] \in {"act", "retire"}
    <3>1. /\ tok[p] \in Tokens /\ commits[tok[p]] = 0
          /\ status[tok[p]] \in {"live", "expired"}
      BY <2>3 DEF Facts, TypeOK, RowsAreOwned, SpentIsSpent
    <3>2. /\ Claimed(tok[p]) /\ ~ Claimed(tok[p])'
          /\ \A t \in Tokens : t # tok[p] => (Claimed(t)' <=> Claimed(t))
      BY <2>1, <2>3, ClaimEnds
    <3>3. CredentialState(tok[p]) = "claimed" /\ CredentialState(tok[p])' \in {"live", "dead"}
      BY <2>1, <3>1, <3>2 DEF CredentialState
    <3>4. \A t \in Tokens : t # tok[p] => CredentialState(t)' = CredentialState(t)
      BY <2>1, <3>2 DEF CredentialState
    <3>5. QED
      BY <2>1, <3>1, <3>3, <3>4 DEF Credential!Release
  <2>4. QED
    BY <2>2, <2>3
<1>14. ASSUME NEW t \in Tokens, PassExpiry(t)
       PROVE  Credential!Retire({t} \cap {u \in Tokens : ~ Claimed(u)})
  <2>1. /\ status[t] = "live" /\ status' = [status EXCEPT ![t] = "expired"]
        /\ UNCHANGED <<pc, tok, commits, guesses>>
    BY <1>14 DEF PassExpiry
  <2>2. \A u \in Tokens : Claimed(u)' <=> Claimed(u)
    BY <2>1 DEF Claimed
  <2>3. CredentialState(t)' = IF ~ Claimed(t) /\ CredentialState(t) = "live"
                              THEN "dead" ELSE CredentialState(t)
    BY <2>1, <2>2 DEF CredentialState, Facts, TypeOK
  <2>4. \A u \in Tokens : u # t => CredentialState(u)' = CredentialState(u)
    BY <2>1, <2>2 DEF CredentialState, Facts, TypeOK
  <2>5. QED
    BY <2>1, <2>3, <2>4 DEF Credential!Retire, Credential!Killing
<1>15. CASE UNCHANGED vars
  <2>1. \A u \in Tokens : Claimed(u)' <=> Claimed(u)
    BY <1>15 DEF vars, Claimed
  <2>2. QED
    BY <1>15, <2>1, QuietSteps DEF vars
<1>16. \A p \in Requests : tok[p] \in Tokens
  BY DEF Facts, TypeOK
<1>17. /\ \A t \in Tokens : Credential!Try(t) \/ Credential!Claim(t) \/ Credential!Release(t)
                              => Credential!Next
       /\ \A t \in Tokens, dying \in SUBSET Tokens :
            Credential!Issue(t, dying) \/ Credential!Redeem(t, dying) => Credential!Next
       /\ \A dying \in SUBSET Tokens : Credential!Retire(dying) => Credential!Next
  BY DEF Credential!Next
<1>18. ASSUME NEW p \in Requests, Arrive(p) \/ Proceed(p) \/ Fail(p)
       PROVE  Credential!Next \/ UNCHANGED Credential!credVars
  <2>1. Held(p) \in SUBSET Tokens /\ Held(p) \ {tok[p]} \in SUBSET Tokens /\ tok[p] \in Tokens
    BY <1>16 DEF Held
  <2>2. CASE Arrive(p)
    BY <1>1, <1>9, <2>2 DEF Arrive
  <2>3. CASE \E t \in Tokens : ExpireInTransaction(p, t) \/ ExpireDirectly(p, t)
    <3>1. PICK t \in Tokens : ExpireInTransaction(p, t) \/ ExpireDirectly(p, t)
      BY <2>3
    <3>2. {t} \in SUBSET Tokens
      OBVIOUS
    <3>3. QED
      BY <1>7, <1>10, <1>17, <3>1, <3>2
  <2>4. CASE RollBack(p) /\ pc[p] \in {"count", "act", "retire", "expire", "mail"}
    BY <1>13, <1>17, <2>1, <2>4
  <2>5. CASE CommitConsume(p) \/ Create(p) \/ CommitIssue(p)
    <3>1. CASE CommitConsume(p)
      BY <1>8, <1>17, <2>1, <3>1
    <3>2. CASE Create(p)
      <4>1. {} \in SUBSET Tokens
        OBVIOUS
      <4>2. QED
        BY <1>11, <1>17, <2>1, <3>2, <4>1
    <3>3. CASE CommitIssue(p)
      BY <1>12, <1>17, <2>1, <3>3
    <3>4. QED
      BY <2>5, <3>1, <3>2, <3>3
  <2>6. CASE \/ LockForAttempt(p) \/ RecordAttempt(p) \/ FindBySelector(p)
             \/ FindUserBySelector(p) \/ LockForConsume(p) \/ Act(p)
    BY <1>2, <1>3, <1>4, <1>5, <1>6, <1>17, <2>1, <2>6
  <2>7. QED
    BY <1>18, <2>2, <2>3, <2>4, <2>5, <2>6 DEF Proceed, Fail, AbortDeadlocked, Blocked
<1>19. ASSUME NEW t \in Tokens, PassExpiry(t)
       PROVE  Credential!Next
  <2>1. {t} \cap {u \in Tokens : ~ Claimed(u)} \in SUBSET Tokens
    OBVIOUS
  <2>2. QED
    BY <1>14, <1>17, <1>19, <2>1
<1>20. QED
  BY <1>15, <1>18, <1>19 DEF Next

(* The lifecycle implements the one-time credential. *)
THEOREM LifecycleImplementsCredential == Spec => ImplementsCredential
<1>1. Init => Credential!Init
  BY DEF Init, Credential!Init, CredentialState, Claimed
<1>2. IInv /\ [Next]_vars => [Credential!Next]_(Credential!credVars)
  BY StepImplements DEF IInv, Facts
<1>3. QED
  BY <1>1, <1>2, InvariantHolds, PTL DEF Spec, ImplementsCredential, Credential!Spec
==============================================================================
