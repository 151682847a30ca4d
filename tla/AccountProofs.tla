--------------------------- MODULE AccountProofs ---------------------------
(***************************************************************************)
(* Proofs about Account, for any number of requests, addresses,            *)
(* enrollments, recovery codes and links.                                  *)
(*                                                                         *)
(* The second factor and the change of the address share the users row and *)
(* touch different columns of it, so the inductive invariant has a half    *)
(* for each, and a step of one half leaves what the other speaks of alone. *)
(***************************************************************************)
EXTENDS Account, TLAPS

ConfirmingOK(r) ==
    LET q == reqs[r]
    IN /\ q.enrollment <= enrolled /\ q.enrollment # standing
       /\ \A c \in RecoveryCodes : c.of = q.enrollment => accepted[c] = 0
       /\ q.seen.enabled /\ ~q.late => row.enabled

\* An enrollment is confirmed by one request; until then none of its codes has
\* been good for anything, and a user loaded with a second factor has it still
\* unless a disable has come between.
FactorInv ==
    /\ FactorIsTheConfirmedOne
    /\ standing <= enrolled
    /\ \A c \in RecoveryCodes :
          /\ accepted[c] <= 1
          /\ c \in row.codes \/ c.of > enrolled => accepted[c] = 0
    /\ \A r \in Requests : At(r, "confirm2fa") => ConfirmingOK(r)
    /\ \A r, s \in Requests :
          At(r, "confirm2fa") /\ At(s, "confirm2fa") /\ r # s
             => reqs[r].enrollment # reqs[s].enrollment

NobodyIssues == \A p \in Requests : ~At(p, "issue")

\* Nothing but the request's own address can be pending.
Settled(r) ==
    \/ At(r, "issue")
    \/ At(r, "save") /\ reqs[r].seen.pending = reqs[r].address

ChangingOK(r) == ~reqs[r].mixed => row.pending \in {reqs[r].address, NoAddress}

\* Between two changes a live link finds its own address pending, or none, and so
\* did a request that has opened it.
LinkInv ==
    /\ LinkConfirmsItsAddress
    /\ \A l \in Live \ crossed : NobodyIssues => row.pending \in {links[l].to, NoAddress}
    /\ \A r \in Requests : At(r, "consume") =>
          /\ links[reqs[r].link].state # "unissued"
          /\ reqs[r].link \in Live \ crossed /\ NobodyIssues
                => reqs[r].seen.pending \in {links[reqs[r].link].to, NoAddress}
    /\ \A r \in Requests : Settled(r) => ChangingOK(r)

Inv == TypeOK /\ FactorInv /\ LinkInv

-----------------------------------------------------------------------------
\* What a request keeps is told by where it is.
LEMMA RequestShape ==
    ASSUME TypeOK, NEW r \in Requests
    PROVE  /\ At(r, "verify") => reqs[r] \in Logins
           /\ At(r, "confirm2fa") => reqs[r] \in Confirmations
           /\ At(r, "disable") => reqs[r] \in Disables
           /\ At(r, "save") \/ At(r, "issue") => reqs[r] \in Changes
           /\ At(r, "consume") => reqs[r] \in Openings
<1>1. reqs[r] \in RequestStates
  BY DEF TypeOK
<1>. QED
  BY <1>1 DEF RequestStates, Idle, Parked, Logins, Confirmations, Disables, Changes, Openings, At

LEMMA InitTypeOK ==
    ASSUME Init
    PROVE  TypeOK
  BY AccountAssumption DEF Init, TypeOK, Rows, RequestStates, Idle

LEMMA NextTypeOK ==
    ASSUME TypeOK, [Next]_vars
    PROVE  TypeOK'
<1>. USE AccountAssumption DEF TypeOK
<1>1. ASSUME NEW r \in Requests, BeginEnrollment(r)
      PROVE  TypeOK'
  <2>1. [pc |-> "confirm2fa", seen |-> [enabled |-> row.enabled], enrollment |-> enrolled + 1, late |-> FALSE] \in RequestStates
    BY <1>1 DEF BeginEnrollment, Rows, RequestStates, Confirmations, Enrollments
  <2>. QED
    BY <1>1, <2>1 DEF BeginEnrollment, Set, change
<1>2. ASSUME NEW r \in Requests, ConfirmEnrollment(r)
      PROVE  TypeOK'
  <2>1. reqs[r] \in Confirmations
    BY <1>2, RequestShape DEF ConfirmEnrollment
  <2>2. row' \in Rows
    <3>. DEFINE e == reqs[r].enrollment
                 enabled == Column(reqs[r].seen.enabled, TRUE, row.enabled)
                 codes == {c \in RecoveryCodes : c.of = e}
    <3>1. row' = [email |-> row.email, pending |-> row.pending,
                  enabled |-> enabled, secret |-> e, codes |-> codes]
      BY <1>2 DEF ConfirmEnrollment
    <3>2. enabled \in BOOLEAN
      BY DEF Column, Rows
    <3>3. e \in 0..MaxEnrollments
      BY <2>1 DEF Confirmations, Enrollments
    <3>4. codes \in SUBSET RecoveryCodes
      OBVIOUS
    <3>. HIDE DEF e, enabled, codes
    <3>. QED
      BY <3>1, <3>2, <3>3, <3>4 DEF Rows
  <2>3. Idle \in RequestStates
    BY DEF RequestStates
  <2>. QED
    BY <1>2, <2>1, <2>2, <2>3 DEF ConfirmEnrollment, Confirmations, Enrollments, End, Set, change
<1>3. ASSUME NEW r \in Requests, PasswordLogin(r) \/ CheckTotp(r) \/ Refuse(r)
      PROVE  TypeOK'
  BY <1>3 DEF PasswordLogin, CheckTotp, Refuse, End, Set, RequestStates, factor, change
<1>4. ASSUME NEW r \in Requests, NEW c \in Codes, PresentCode(r, c)
      PROVE  TypeOK'
  <2>1. [pc |-> "verify", seen |-> Factor, code |-> c] \in RequestStates
    BY DEF Factor, Rows, RequestStates, Logins
  <2>. QED
    BY <1>4, <2>1 DEF PresentCode, Set, factor, change
<1>5. ASSUME NEW r \in Requests, ConsumeRecoveryCode(r)
      PROVE  TypeOK'
  <2>1. row' \in Rows
    BY <1>5 DEF ConsumeRecoveryCode, Rows
  <2>2. accepted' \in [RecoveryCodes -> Nat]
    BY <1>5 DEF ConsumeRecoveryCode, Rows
  <2>. QED
    BY <1>5, <2>1, <2>2 DEF ConsumeRecoveryCode, End, Set, RequestStates, change
<1>6. ASSUME NEW r \in Requests, NEW c \in Codes, BeginDisable(r, c)
      PROVE  TypeOK'
  <2>1. [pc |-> "disable", code |-> c] \in RequestStates
    BY DEF RequestStates, Disables
  <2>. QED
    BY <1>6, <2>1 DEF BeginDisable, Set, factor, change
<1>7. ASSUME NEW r \in Requests, DisableTwoFactor(r)
      PROVE  TypeOK'
  <2>1. row' \in Rows
    BY <1>7 DEF DisableTwoFactor, Rows
  <2>2. accepted' \in [RecoveryCodes -> Nat]
    BY <1>7 DEF DisableTwoFactor
  <2>3. \A q \in Requests : At(q, "confirm2fa") => Overtaken(reqs[q]) \in RequestStates
    <3>1. ASSUME NEW q \in Requests, At(q, "confirm2fa")
          PROVE  Overtaken(reqs[q]) \in Confirmations
      <4>1. reqs[q] \in Confirmations
        BY <3>1, RequestShape
      <4>. QED
        BY <4>1 DEF Overtaken, Confirmations
    <3>. QED
      BY <3>1 DEF RequestStates
  <2>4. reqs' \in [Requests -> RequestStates]
    BY <1>7, <2>3 DEF DisableTwoFactor, RequestStates
  <2>. QED
    BY <1>7, <2>1, <2>2, <2>4 DEF DisableTwoFactor, change
<1>8. ASSUME NEW r \in Requests, NEW a \in Addresses, BeginEmailChange(r, a)
      PROVE  TypeOK'
  <2>1. [pc |-> "save", seen |-> [pending |-> row.pending], address |-> a, mixed |-> FALSE] \in RequestStates
    BY DEF Rows, RequestStates, Changes
  <2>. QED
    BY <1>8, <2>1 DEF BeginEmailChange, Set, factor, change
<1>9. ASSUME NEW r \in Requests, SavePending(r)
      PROVE  TypeOK'
  <2>1. reqs[r] \in Changes
    BY <1>9, RequestShape DEF SavePending
  <2>2. row' \in Rows
    BY <1>9, <2>1 DEF SavePending, Rows, Changes, Column
  <2>3. \A q \in Requests : q = r \/ Mixes(q) =>
           ChangeAt(reqs[q], "issue", reqs[q].mixed) \in Changes /\ ChangeAt(reqs[q], reqs[q].pc, TRUE) \in Changes
    <3>1. \A q \in Requests : q = r \/ Mixes(q) => reqs[q] \in Changes
      BY <2>1, RequestShape DEF Mixes
    <3>. QED
      BY <3>1 DEF ChangeAt, Changes
  <2>4. reqs' \in [Requests -> RequestStates]
    BY <1>9, <2>3 DEF SavePending, RequestStates
  <2>. QED
    BY <1>9, <2>2, <2>4 DEF SavePending, factor, change
<1>10. ASSUME NEW r \in Requests, IssueLink(r) \/ FailIssue(r)
      PROVE  TypeOK'
  <2>1. reqs[r] \in Changes
    BY <1>10, RequestShape DEF IssueLink, FailIssue
  <2>2. ExpireLinks \in [Links -> [state: {"unissued", "live", "expired"}, to: Addresses \cup {NoAddress}]]
    BY DEF ExpireLinks
  <2>3. reqs' \in [Requests -> RequestStates]
    BY <1>10 DEF IssueLink, FailIssue, End, Set, RequestStates
  <2>4. CASE IssueLink(r)
    <3>1. PICK l \in Links :
             /\ links' = [ExpireLinks EXCEPT ![l] = [state |-> "live", to |-> reqs[r].address]]
             /\ crossed' = IF reqs[r].mixed THEN crossed \cup {l} ELSE crossed
      BY <2>4 DEF IssueLink
    <3>2. [state |-> "live", to |-> reqs[r].address] \in [state: {"unissued", "live", "expired"}, to: Addresses \cup {NoAddress}]
      BY <2>1 DEF Changes
    <3>3. links' \in [Links -> [state: {"unissued", "live", "expired"}, to: Addresses \cup {NoAddress}]]
      BY <2>2, <3>1, <3>2
    <3>. QED
      BY <2>3, <2>4, <3>1, <3>3 DEF IssueLink, factor
  <2>5. CASE FailIssue(r)
    BY <2>3, <2>5 DEF FailIssue, factor, Live
  <2>. QED
    BY <1>10, <2>4, <2>5
<1>11. ASSUME NEW r \in Requests, NEW l \in Links, OpenLink(r, l)
      PROVE  TypeOK'
  <2>1. [pc |-> "consume", seen |-> [email |-> row.email, pending |-> row.pending], link |-> l] \in RequestStates
    BY DEF Rows, RequestStates, Openings
  <2>. QED
    BY <1>11, <2>1 DEF OpenLink, Set, factor, change
<1>12. ASSUME NEW r \in Requests, ConfirmEmailChange(r)
      PROVE  TypeOK'
  <2>1. reqs[r] \in Openings
    BY <1>12, RequestShape DEF ConfirmEmailChange
  <2>2. row' \in Rows
    BY <1>12, <2>1 DEF ConfirmEmailChange, Rows, Openings, Column
  <2>3. links' \in [Links -> [state: {"unissued", "live", "expired"}, to: Addresses \cup {NoAddress}]]
    BY <1>12 DEF ConfirmEmailChange, ExpireLinks
  <2>4. confirmed' \subseteq [to: Addresses \cup {NoAddress}, got: Addresses, excused: BOOLEAN]
    <3>. DEFINE excused == reqs[r].link \in crossed \/ \E p \in Requests : At(p, "issue")
    <3>1. excused \in BOOLEAN
      OBVIOUS
    <3>2. links[reqs[r].link].to \in Addresses \cup {NoAddress} /\ reqs[r].seen.pending \in Addresses
      BY <1>12, <2>1 DEF ConfirmEmailChange, Openings
    <3>3. confirmed' = confirmed \cup
             {[to |-> links[reqs[r].link].to, got |-> reqs[r].seen.pending, excused |-> excused]}
      BY <1>12 DEF ConfirmEmailChange
    <3>. HIDE DEF excused
    <3>. QED
      BY <3>1, <3>2, <3>3
  <2>. QED
    BY <1>12, <2>2, <2>3, <2>4 DEF ConfirmEmailChange, End, Set, RequestStates, factor
<1>13. ASSUME UNCHANGED vars
      PROVE  TypeOK'
  BY <1>13 DEF vars
<1>. QED
  BY <1>1, <1>2, <1>3, <1>4, <1>5, <1>6, <1>7, <1>8, <1>9, <1>10, <1>11, <1>12, <1>13 DEF Next

-----------------------------------------------------------------------------
\* The columns of the second factor are left alone by a change of the address,
\* and those of the address by the second factor.
Email(r) ==
    \/ \E a \in Addresses : BeginEmailChange(r, a)
    \/ SavePending(r) \/ IssueLink(r) \/ FailIssue(r)
    \/ \E l \in Links : OpenLink(r, l)
    \/ ConfirmEmailChange(r) \/ Refuse(r)

LEMMA FactorFrame ==
    ASSUME TypeOK, FactorInv, NEW r \in Requests, Email(r)
    PROVE  FactorInv'
<1>1. /\ row'.enabled = row.enabled /\ row'.secret = row.secret /\ row'.codes = row.codes
      /\ UNCHANGED factor
  <2>1. CASE SavePending(r)
    BY <2>1 DEF SavePending, factor
  <2>2. CASE ConfirmEmailChange(r)
    BY <2>2 DEF ConfirmEmailChange, factor
  <2>3. CASE ~SavePending(r) /\ ~ConfirmEmailChange(r)
    BY <2>3 DEF Email, BeginEmailChange, IssueLink, FailIssue, OpenLink, Refuse, factor
  <2>. QED
    BY <2>1, <2>2, <2>3
<1>2. \A q \in Requests : At(q, "confirm2fa")' => reqs'[q] = reqs[q] /\ At(q, "confirm2fa")
  <2>1. CASE SavePending(r)
    <3>1. \A q \in Requests : q = r \/ Mixes(q) => reqs[q].pc \in {"save", "issue"}
      BY <2>1 DEF SavePending, Mixes, At
    <3>. QED
      BY <2>1, <3>1 DEF SavePending, TypeOK, ChangeAt, At
  <2>2. CASE ~SavePending(r)
    BY <2>2 DEF Email, BeginEmailChange, IssueLink, FailIssue, OpenLink, ConfirmEmailChange,
                Refuse, TypeOK, Set, End, Idle, At
  <2>. QED
    BY <2>1, <2>2
<1>3. FactorIsTheConfirmedOne'
  BY <1>1 DEF FactorInv, FactorIsTheConfirmedOne, factor
<1>4. (standing <= enrolled)' /\ \A c \in RecoveryCodes :
          /\ accepted'[c] <= 1
          /\ c \in row'.codes \/ c.of > enrolled' => accepted'[c] = 0
  BY <1>1 DEF FactorInv, factor
<1>5. \A q \in Requests : At(q, "confirm2fa")' => ConfirmingOK(q)'
  BY <1>1, <1>2 DEF FactorInv, ConfirmingOK, factor
<1>6. \A q, s \in Requests :
          At(q, "confirm2fa")' /\ At(s, "confirm2fa")' /\ q # s
             => reqs'[q].enrollment # reqs'[s].enrollment
  BY <1>2 DEF FactorInv
<1>. QED
  BY <1>3, <1>4, <1>5, <1>6 DEF FactorInv

Factors(r) ==
    \/ BeginEnrollment(r) \/ ConfirmEnrollment(r)
    \/ PasswordLogin(r) \/ CheckTotp(r) \/ ConsumeRecoveryCode(r)
    \/ DisableTwoFactor(r)
    \/ \E c \in Codes : PresentCode(r, c) \/ BeginDisable(r, c)
    \/ Refuse(r)

LEMMA LinkFrame ==
    ASSUME TypeOK, LinkInv, NEW r \in Requests, Factors(r)
    PROVE  LinkInv'
<1>1. row'.pending = row.pending /\ UNCHANGED change
  <2>1. CASE ConfirmEnrollment(r)
    BY <2>1 DEF ConfirmEnrollment
  <2>2. CASE ConsumeRecoveryCode(r)
    BY <2>2 DEF ConsumeRecoveryCode
  <2>3. CASE DisableTwoFactor(r)
    BY <2>3 DEF DisableTwoFactor
  <2>4. CASE ~ConfirmEnrollment(r) /\ ~ConsumeRecoveryCode(r) /\ ~DisableTwoFactor(r)
    BY <2>4 DEF Factors, BeginEnrollment, PasswordLogin, CheckTotp, PresentCode, BeginDisable, Refuse
  <2>. QED
    BY <2>1, <2>2, <2>3, <2>4
<1>2. \A q \in Requests : reqs'[q].pc \in {"save", "issue", "consume"} => reqs'[q] = reqs[q]
  <2>1. CASE DisableTwoFactor(r)
    <3>1. \A q \in Requests : reqs'[q] = reqs[q] \/ reqs'[q].pc \in {"idle", "confirm2fa"}
      BY <2>1 DEF DisableTwoFactor, Overtaken, Idle, At
    <3>. QED
      BY <3>1
  <2>2. CASE ~DisableTwoFactor(r)
    <3>. USE DEF TypeOK
    <3>1. /\ \A q \in Requests \ {r} : reqs'[q] = reqs[q]
          /\ reqs'[r].pc \in {"idle", "parked", "verify", "confirm2fa", "disable"}
      <4>1. CASE BeginEnrollment(r)
        BY <4>1 DEF BeginEnrollment, Set
      <4>2. CASE ConfirmEnrollment(r) \/ CheckTotp(r) \/ ConsumeRecoveryCode(r) \/ Refuse(r)
        <5>1. reqs' = [reqs EXCEPT ![r] = Idle]
          BY <4>2 DEF ConfirmEnrollment, CheckTotp, ConsumeRecoveryCode, Refuse, End, Set
        <5>. QED
          BY <5>1 DEF Idle
      <4>3. CASE PasswordLogin(r)
        BY <4>3 DEF PasswordLogin, Set, Parked
      <4>4. CASE \E c \in Codes : PresentCode(r, c) \/ BeginDisable(r, c)
        BY <4>4 DEF PresentCode, BeginDisable, Set
      <4>. QED
        BY <2>2, <4>1, <4>2, <4>3, <4>4 DEF Factors
    <3>. QED
      BY <3>1
  <2>. QED
    BY <2>1, <2>2
<1>3. \A q \in Requests : At(q, "issue")  => reqs'[q] = reqs[q]
  <2>1. CASE DisableTwoFactor(r)
    BY <2>1 DEF DisableTwoFactor, TypeOK, At
  <2>2. CASE ~DisableTwoFactor(r)
    BY <2>2 DEF Factors, BeginEnrollment, ConfirmEnrollment, PasswordLogin, CheckTotp,
                ConsumeRecoveryCode, PresentCode, BeginDisable, Refuse, TypeOK, Set, End, At
  <2>. QED
    BY <2>1, <2>2
<1>4. NobodyIssues' <=> NobodyIssues
  BY <1>2, <1>3 DEF NobodyIssues, At
<1>. QED
  BY <1>1, <1>2, <1>4 DEF LinkInv, LinkConfirmsItsAddress, Settled, ChangingOK, Live, change, At

-----------------------------------------------------------------------------
\* The second factor.
LEMMA InitFactorInv ==
    ASSUME Init
    PROVE  FactorInv
<1>1. \A r \in Requests : ~At(r, "confirm2fa")
  BY DEF Init, Idle, At
<1>2. \A c \in RecoveryCodes : accepted[c] = 0
  BY DEF Init
<1>. QED
  BY <1>1, <1>2 DEF Init, FactorInv, FactorIsTheConfirmedOne

\* Where no request is confirming that was not before, and the columns and the
\* histories stand, nothing has to be shown.
LEMMA FactorIdle ==
    ASSUME TypeOK, FactorInv, row' = row, UNCHANGED factor,
           \A q \in Requests : At(q, "confirm2fa")' => reqs'[q] = reqs[q]
    PROVE  FactorInv'
<1>1. \A q \in Requests : At(q, "confirm2fa")' => ConfirmingOK(q)' /\ At(q, "confirm2fa")
  BY DEF FactorInv, ConfirmingOK, factor, At
<1>. QED
  BY <1>1 DEF FactorInv, FactorIsTheConfirmedOne, factor

LEMMA BeginEnrollmentFactor ==
    ASSUME TypeOK, FactorInv, NEW r \in Requests, BeginEnrollment(r)
    PROVE  FactorInv'
<1>. DEFINE q == [pc |-> "confirm2fa", seen |-> [enabled |-> row.enabled],
                  enrollment |-> enrolled + 1, late |-> FALSE]
<1>1. /\ enrolled' = enrolled + 1 /\ reqs' = [reqs EXCEPT ![r] = q]
      /\ UNCHANGED <<row, accepted, standing, overtaken>>
  BY DEF BeginEnrollment, Set
<1>2. enrolled \in Nat /\ standing \in Nat
  BY DEF TypeOK
<1>3. FactorIsTheConfirmedOne' /\ (standing <= enrolled)'
  BY <1>1, <1>2 DEF FactorInv, FactorIsTheConfirmedOne
<1>4. \A c \in RecoveryCodes :
         /\ accepted'[c] <= 1
         /\ c \in row'.codes \/ c.of > enrolled' => accepted'[c] = 0
  <2>1. \A c \in RecoveryCodes : c.of \in Nat
    BY DEF RecoveryCodes, Enrollments
  <2>. QED
    BY <1>1, <1>2, <2>1 DEF FactorInv
<1>5. reqs'[r] = q /\ \A s \in Requests \ {r} : reqs'[s] = reqs[s]
  BY <1>1 DEF TypeOK
<1>6. \A s \in Requests \ {r} : At(s, "confirm2fa") =>
         reqs[s].enrollment \in Nat /\ reqs[s].enrollment <= enrolled
  BY RequestShape DEF FactorInv, ConfirmingOK, Confirmations, Enrollments
<1>7. \A s \in Requests \ {r} : At(s, "confirm2fa")' => ConfirmingOK(s)'
  BY <1>1, <1>2, <1>5, <1>6 DEF FactorInv, ConfirmingOK, At
<1>8. ConfirmingOK(r)'
  <2>1. \A c \in RecoveryCodes : c.of = enrolled + 1 => accepted[c] = 0
    BY <1>2 DEF FactorInv
  <2>. QED
    BY <1>1, <1>2, <1>5, <2>1 DEF FactorInv, ConfirmingOK
<1>9. \A s, t \in Requests :
         At(s, "confirm2fa")' /\ At(t, "confirm2fa")' /\ s # t
            => reqs'[s].enrollment # reqs'[t].enrollment
  BY <1>2, <1>5, <1>6 DEF FactorInv, At
<1>. QED
  BY <1>3, <1>4, <1>7, <1>8, <1>9 DEF FactorInv

LEMMA ConfirmEnrollmentFactor ==
    ASSUME TypeOK, FactorInv, NEW r \in Requests, ConfirmEnrollment(r)
    PROVE  FactorInv'
<1>. DEFINE e == reqs[r].enrollment
<1>1. /\ row'.secret = e /\ row'.codes = {c \in RecoveryCodes : c.of = e}
      /\ row'.enabled = Column(reqs[r].seen.enabled, TRUE, row.enabled)
      /\ standing' = e
      /\ overtaken' = IF reqs[r].late THEN overtaken \cup {e} ELSE overtaken
      /\ reqs' = [reqs EXCEPT ![r] = Idle]
      /\ UNCHANGED <<enrolled, accepted>>
  BY DEF ConfirmEnrollment, End, Set
<1>2. /\ reqs[r] \in Confirmations /\ e \in Nat \ {0} /\ e <= enrolled /\ ConfirmingOK(r)
      /\ At(r, "confirm2fa")
  BY RequestShape DEF ConfirmEnrollment, FactorInv, ConfirmingOK, Confirmations, Enrollments
<1>3. \A s \in Requests : At(s, "confirm2fa")' => s # r /\ reqs'[s] = reqs[s] /\ At(s, "confirm2fa")
  BY <1>1 DEF TypeOK, Idle, At
<1>4. row'.enabled \/ e \in overtaken'
  <2>1. CASE reqs[r].late
    BY <1>1, <2>1
  <2>2. CASE ~reqs[r].late /\ reqs[r].seen.enabled
    <3>1. row.enabled
      BY <1>2, <2>2 DEF ConfirmingOK
    <3>. QED
      BY <1>1, <3>1 DEF Column
  <2>3. CASE ~reqs[r].seen.enabled
    BY <1>1, <2>3 DEF Column
  <2>. QED
    BY <2>1, <2>2, <2>3
<1>5. FactorIsTheConfirmedOne'
  BY <1>1, <1>2, <1>4 DEF FactorIsTheConfirmedOne
<1>6. \A c \in RecoveryCodes :
         /\ accepted'[c] <= 1
         /\ c \in row'.codes \/ c.of > enrolled' => accepted'[c] = 0
  BY <1>1, <1>2 DEF FactorInv, ConfirmingOK
<1>7. \A s \in Requests : At(s, "confirm2fa")' => ConfirmingOK(s)'
  <2>1. ASSUME NEW s \in Requests, At(s, "confirm2fa")'
        PROVE  ConfirmingOK(s)'
    <3>1. /\ s # r /\ reqs'[s] = reqs[s] /\ At(s, "confirm2fa") /\ ConfirmingOK(s)
          /\ reqs[s].enrollment # e
      BY <1>2, <1>3, <2>1 DEF FactorInv
    <3>2. row.enabled => row'.enabled
      BY <1>1 DEF Column
    <3>. QED
      BY <1>1, <3>1, <3>2 DEF ConfirmingOK
  <2>. QED
    BY <2>1
<1>8. \A s, t \in Requests :
         At(s, "confirm2fa")' /\ At(t, "confirm2fa")' /\ s # t
            => reqs'[s].enrollment # reqs'[t].enrollment
  BY <1>3 DEF FactorInv
<1>. QED
  BY <1>1, <1>2, <1>5, <1>6, <1>7, <1>8 DEF FactorInv

LEMMA ConsumeRecoveryCodeFactor ==
    ASSUME TypeOK, FactorInv, NEW r \in Requests, ConsumeRecoveryCode(r)
    PROVE  FactorInv'
<1>. DEFINE c == reqs[r].code
<1>1. /\ c \in row.codes
      /\ row'.enabled = row.enabled /\ row'.secret = row.secret /\ row'.codes = row.codes \ {c}
      /\ accepted' = [accepted EXCEPT ![c] = @ + 1]
      /\ reqs' = [reqs EXCEPT ![r] = Idle]
      /\ UNCHANGED <<enrolled, standing, overtaken>>
  BY DEF ConsumeRecoveryCode, End, Set
<1>2. /\ c \in RecoveryCodes /\ c.of = standing /\ accepted[c] = 0
      /\ standing \in Nat /\ enrolled \in Nat /\ standing <= enrolled
  BY <1>1 DEF TypeOK, Rows, FactorInv, FactorIsTheConfirmedOne
<1>3. accepted'[c] = 1 /\ \A d \in RecoveryCodes \ {c} : accepted'[d] = accepted[d]
  BY <1>1, <1>2 DEF TypeOK
<1>4. \A s \in Requests : At(s, "confirm2fa")' => reqs'[s] = reqs[s] /\ At(s, "confirm2fa")
  BY <1>1 DEF TypeOK, Idle, At
<1>5. FactorIsTheConfirmedOne'
  BY <1>1 DEF FactorInv, FactorIsTheConfirmedOne
<1>6. \A d \in RecoveryCodes :
         /\ accepted'[d] <= 1
         /\ d \in row'.codes \/ d.of > enrolled' => accepted'[d] = 0
  BY <1>1, <1>2, <1>3 DEF FactorInv
<1>7. \A s \in Requests : At(s, "confirm2fa")' => ConfirmingOK(s)'
  BY <1>1, <1>2, <1>3, <1>4 DEF FactorInv, ConfirmingOK
<1>. QED
  BY <1>1, <1>4, <1>5, <1>6, <1>7 DEF FactorInv

LEMMA DisableTwoFactorFactor ==
    ASSUME TypeOK, FactorInv, NEW r \in Requests, DisableTwoFactor(r)
    PROVE  FactorInv'
<1>. DEFINE c == reqs[r].code
<1>1. /\ c \in row.codes \/ (row.secret # 0 /\ c = Authenticator(row.secret))
      /\ accepted' = IF c \in RecoveryCodes THEN [accepted EXCEPT ![c] = @ + 1] ELSE accepted
      /\ row'.enabled = FALSE /\ row'.secret = 0 /\ row'.codes = {}
      /\ standing' = 0
      /\ reqs' = [q \in Requests |-> IF q = r THEN Idle
                                     ELSE IF At(q, "confirm2fa") THEN Overtaken(reqs[q])
                                     ELSE reqs[q]]
      /\ UNCHANGED <<enrolled, overtaken>>
  BY DEF DisableTwoFactor
<1>2. c \in RecoveryCodes => /\ c.of = standing /\ accepted[c] = 0
                              /\ standing \in Nat /\ enrolled \in Nat /\ standing <= enrolled
  <2>1. \A n : [of |-> n, n |-> 0] \notin RecoveryCodes
    BY DEF RecoveryCodes
  <2>2. c \in RecoveryCodes => c \in row.codes
    BY <1>1, <2>1 DEF Authenticator
  <2>. QED
    BY <2>2 DEF TypeOK, FactorInv, FactorIsTheConfirmedOne
<1>3. \A d \in RecoveryCodes :
         accepted'[d] = IF d = c THEN 1 ELSE accepted[d]
  BY <1>1, <1>2 DEF TypeOK
<1>4. \A s \in Requests : At(s, "confirm2fa")' =>
         /\ reqs'[s].enrollment = reqs[s].enrollment /\ reqs'[s].late
         /\ At(s, "confirm2fa")
  BY <1>1 DEF Overtaken, Idle, At
<1>5. FactorIsTheConfirmedOne'
  BY <1>1 DEF FactorIsTheConfirmedOne
<1>6. \A d \in RecoveryCodes :
         /\ accepted'[d] <= 1
         /\ d \in row'.codes \/ d.of > enrolled' => accepted'[d] = 0
  BY <1>1, <1>2, <1>3 DEF FactorInv
<1>7. \A s \in Requests : At(s, "confirm2fa")' => ConfirmingOK(s)'
  <2>1. ASSUME NEW s \in Requests, At(s, "confirm2fa")'
        PROVE  ConfirmingOK(s)'
    <3>1. /\ ConfirmingOK(s) /\ reqs'[s].enrollment = reqs[s].enrollment /\ reqs'[s].late
          /\ reqs[s].enrollment \in Nat \ {0}
      BY <1>4, <2>1, RequestShape DEF FactorInv, Confirmations, Enrollments
    <3>. QED
      BY <1>1, <1>2, <1>3, <3>1 DEF ConfirmingOK
  <2>. QED
    BY <2>1
<1>8. (standing <= enrolled)'
  BY <1>1 DEF TypeOK
<1>9. \A s, t \in Requests :
         At(s, "confirm2fa")' /\ At(t, "confirm2fa")' /\ s # t
            => reqs'[s].enrollment # reqs'[t].enrollment
  BY <1>4 DEF FactorInv
<1>. QED
  BY <1>5, <1>6, <1>7, <1>8, <1>9 DEF FactorInv

LEMMA NextFactorInv ==
    ASSUME TypeOK, FactorInv, [Next]_vars
    PROVE  FactorInv'
<1>1. ASSUME NEW r \in Requests,
             PasswordLogin(r) \/ CheckTotp(r) \/ \E c \in Codes : PresentCode(r, c) \/ BeginDisable(r, c)
      PROVE  FactorInv'
  <2>1. row' = row /\ UNCHANGED factor
    BY <1>1 DEF PasswordLogin, CheckTotp, PresentCode, BeginDisable
  <2>2. reqs'[r].pc # "confirm2fa" /\ \A q \in Requests \ {r} : reqs'[q] = reqs[q]
    <3>. USE DEF TypeOK
    <3>1. CASE PasswordLogin(r)
      BY <3>1 DEF PasswordLogin, Set, Parked
    <3>2. CASE CheckTotp(r)
      BY <3>2 DEF CheckTotp, End, Set, Idle
    <3>3. CASE \E c \in Codes : PresentCode(r, c) \/ BeginDisable(r, c)
      BY <3>3 DEF PresentCode, BeginDisable, Set
    <3>. QED
      BY <1>1, <3>1, <3>2, <3>3
  <2>. QED
    BY <2>1, <2>2, FactorIdle DEF At
<1>2. ASSUME NEW r \in Requests, Email(r)
      PROVE  FactorInv'
  BY <1>2, FactorFrame
<1>3. ASSUME UNCHANGED vars
      PROVE  FactorInv'
  BY <1>3, FactorIdle DEF vars, factor
<1>. QED
  BY <1>1, <1>2, <1>3, BeginEnrollmentFactor, ConfirmEnrollmentFactor, ConsumeRecoveryCodeFactor,
     DisableTwoFactorFactor DEF Next, Email

-----------------------------------------------------------------------------
\* The change of the address.
LEMMA InitLinkInv ==
    ASSUME Init
    PROVE  LinkInv
<1>1. \A r \in Requests : reqs[r].pc = "idle"
  BY DEF Init, Idle
<1>2. \A l \in Links : links[l].state # "live"
  BY DEF Init
<1>. QED
  BY <1>1, <1>2 DEF Init, LinkInv, LinkConfirmsItsAddress, Live, Settled, At

LEMMA BeginEmailChangeLink ==
    ASSUME TypeOK, LinkInv, NEW r \in Requests, NEW a \in Addresses, BeginEmailChange(r, a)
    PROVE  LinkInv'
<1>. DEFINE q == [pc |-> "save", seen |-> [pending |-> row.pending], address |-> a, mixed |-> FALSE]
<1>1. reqs' = [reqs EXCEPT ![r] = q] /\ At(r, "idle") /\ row' = row /\ UNCHANGED change
  BY DEF BeginEmailChange, Set
<1>2. reqs'[r] = q /\ \A p \in Requests \ {r} : reqs'[p] = reqs[p]
  BY <1>1 DEF TypeOK
<1>3. NobodyIssues' <=> NobodyIssues
  BY <1>1, <1>2 DEF NobodyIssues, At
<1>4. \A p \in Requests : Settled(p)' => ChangingOK(p)'
  BY <1>1, <1>2 DEF LinkInv, Settled, ChangingOK, At
<1>. QED
  BY <1>1, <1>2, <1>3, <1>4 DEF LinkInv, LinkConfirmsItsAddress, Live, change, At

LEMMA SavePendingLink ==
    ASSUME TypeOK, LinkInv, NEW r \in Requests, SavePending(r)
    PROVE  LinkInv'
<1>. DEFINE a == reqs[r].address
            saves == reqs[r].seen.pending # a
<1>1. /\ At(r, "save")
      /\ row'.pending = Column(reqs[r].seen.pending, a, row.pending)
      /\ reqs' = [q \in Requests |->
                    IF q = r THEN ChangeAt(reqs[r], "issue", reqs[r].mixed)
                    ELSE IF saves /\ Mixes(q) THEN ChangeAt(reqs[q], reqs[q].pc, TRUE)
                    ELSE reqs[q]]
      /\ UNCHANGED change
  BY DEF SavePending
<1>2. At(r, "issue")' /\ ~NobodyIssues'
  BY <1>1 DEF ChangeAt, NobodyIssues, At
<1>3. \A q \in Requests : At(q, "consume")' => reqs'[q] = reqs[q]
  BY <1>1 DEF ChangeAt, Mixes, At
<1>4. ASSUME NEW q \in Requests, Settled(q)', ~reqs'[q].mixed
      PROVE  row'.pending \in {reqs'[q].address, NoAddress}
  <2>1. CASE q = r /\ saves
    BY <1>1, <2>1 DEF ChangeAt, Column
  <2>2. CASE q = r /\ ~saves
    <3>1. Settled(r) /\ ~reqs[r].mixed
      BY <1>1, <1>4, <2>2 DEF Settled, ChangeAt
    <3>. QED
      BY <1>1, <2>2, <3>1 DEF LinkInv, ChangingOK, ChangeAt, Column
  <2>3. CASE q # r
    <3>1. /\ ~(saves /\ Mixes(q)) /\ reqs'[q] = reqs[q]
      BY <1>1, <1>4, <2>3 DEF ChangeAt
    <3>2. Settled(q)
      BY <1>4, <3>1 DEF Settled, At
    <3>3. ~saves
      BY <3>1, <3>2 DEF Settled, Mixes
    <3>. QED
      BY <1>1, <1>4, <3>1, <3>2, <3>3 DEF LinkInv, ChangingOK, Column
  <2>. QED
    BY <2>1, <2>2, <2>3
<1>. QED
  BY <1>1, <1>2, <1>3, <1>4 DEF LinkInv, LinkConfirmsItsAddress, ChangingOK, change, At

LEMMA IssueLinkLink ==
    ASSUME TypeOK, LinkInv, NEW r \in Requests, IssueLink(r)
    PROVE  LinkInv'
<1>1. PICK l \in Links :
         /\ links[l].state = "unissued"
         /\ links' = [ExpireLinks EXCEPT ![l] = [state |-> "live", to |-> reqs[r].address]]
         /\ crossed' = IF reqs[r].mixed THEN crossed \cup {l} ELSE crossed
  BY DEF IssueLink
<1>2. /\ At(r, "issue") /\ reqs' = [reqs EXCEPT ![r] = Idle]
      /\ row' = row /\ confirmed' = confirmed
  BY DEF IssueLink, End, Set
<1>3. /\ links'[l] = [state |-> "live", to |-> reqs[r].address]
      /\ \A k \in Links \ {l} : links'[k].state # "live" /\
                                (links[k].state # "unissued" => links'[k].state # "unissued")
  <2>1. \A k \in Links : /\ ExpireLinks[k].state # "live"
                         /\ links[k].state # "unissued" => ExpireLinks[k].state # "unissued"
    BY DEF ExpireLinks, TypeOK
  <2>2. DOMAIN ExpireLinks = Links /\ links' = [k \in Links |-> IF k = l THEN [state |-> "live", to |-> reqs[r].address] ELSE ExpireLinks[k]]
    BY <1>1 DEF ExpireLinks
  <2>. QED
    BY <2>1, <2>2
<1>4. Live' = {l}
  BY <1>3 DEF Live
<1>5. \A q \in Requests : reqs'[q].pc # "idle" => q # r /\ reqs'[q] = reqs[q]
  BY <1>2 DEF TypeOK, Idle
<1>6. l \in crossed' \/ row'.pending \in {links'[l].to, NoAddress}
  <2>1. Settled(r)
    BY <1>2 DEF Settled
  <2>. QED
    BY <1>1, <1>2, <1>3, <2>1 DEF LinkInv, ChangingOK
<1>7. \A q \in Requests : At(q, "consume")' =>
         links'[reqs'[q].link].state # "unissued" /\ reqs'[q].link \notin Live'
  <2>1. ASSUME NEW q \in Requests, At(q, "consume")'
        PROVE  links'[reqs'[q].link].state # "unissued" /\ reqs'[q].link \notin Live'
    <3>1. reqs'[q] = reqs[q] /\ At(q, "consume")
      BY <1>5, <2>1 DEF At
    <3>2. reqs[q].link \in Links /\ links[reqs[q].link].state # "unissued"
      BY <3>1, RequestShape DEF LinkInv, Openings
    <3>. QED
      BY <1>1, <1>3, <1>4, <3>1, <3>2
  <2>. QED
    BY <2>1
<1>8. \A q \in Requests : Settled(q)' => ChangingOK(q)'
  BY <1>2, <1>5 DEF LinkInv, Settled, ChangingOK, At
<1>9. \A k \in Live' \ crossed' : NobodyIssues' => row'.pending \in {links'[k].to, NoAddress}
  BY <1>4, <1>6
<1>. QED
  BY <1>2, <1>7, <1>8, <1>9 DEF LinkInv, LinkConfirmsItsAddress

LEMMA FailIssueLink ==
    ASSUME TypeOK, LinkInv, NEW r \in Requests, FailIssue(r)
    PROVE  LinkInv'
<1>1. /\ crossed' = crossed \cup Live /\ Live' = Live
      /\ reqs' = [reqs EXCEPT ![r] = Idle]
      /\ UNCHANGED <<row, links, confirmed>>
  BY DEF FailIssue, End, Set, Live
<1>2. \A q \in Requests : reqs'[q].pc # "idle" => q # r /\ reqs'[q] = reqs[q]
  BY <1>1 DEF TypeOK, Idle
<1>3. \A q \in Requests : Settled(q)' => ChangingOK(q)'
  BY <1>1, <1>2 DEF LinkInv, Settled, ChangingOK, At
<1>. QED
  BY <1>1, <1>2, <1>3 DEF LinkInv, LinkConfirmsItsAddress, At

LEMMA OpenLinkLink ==
    ASSUME TypeOK, LinkInv, NEW r \in Requests, NEW l \in Links, OpenLink(r, l)
    PROVE  LinkInv'
<1>. DEFINE q == [pc |-> "consume", seen |-> [email |-> row.email, pending |-> row.pending], link |-> l]
<1>1. /\ reqs' = [reqs EXCEPT ![r] = q] /\ At(r, "idle") /\ l \in Live
      /\ row' = row /\ UNCHANGED change
  BY DEF OpenLink, Set
<1>2. reqs'[r] = q /\ \A p \in Requests \ {r} : reqs'[p] = reqs[p]
  BY <1>1 DEF TypeOK
<1>3. NobodyIssues' <=> NobodyIssues
  BY <1>1, <1>2 DEF NobodyIssues, At
<1>4. links[l].state # "unissued"
  BY <1>1 DEF Live
<1>5. \A p \in Requests : At(p, "consume")' =>
          /\ links[reqs'[p].link].state # "unissued"
          /\ reqs'[p].link \in Live \ crossed /\ NobodyIssues
                => reqs'[p].seen.pending \in {links[reqs'[p].link].to, NoAddress}
  BY <1>1, <1>2, <1>4 DEF LinkInv, At
<1>6. \A p \in Requests : Settled(p)' => ChangingOK(p)'
  BY <1>1, <1>2 DEF LinkInv, Settled, ChangingOK, At
<1>. QED
  BY <1>1, <1>3, <1>5, <1>6 DEF LinkInv, LinkConfirmsItsAddress, Live, change

LEMMA ConfirmEmailChangeLink ==
    ASSUME TypeOK, LinkInv, NEW r \in Requests, ConfirmEmailChange(r)
    PROVE  LinkInv'
<1>. DEFINE q == reqs[r]
            excused == q.link \in crossed \/ \E p \in Requests : At(p, "issue")
            c == [to |-> links[q.link].to, got |-> q.seen.pending, excused |-> excused]
<1>1. /\ At(r, "consume") /\ q.link \in Live /\ q.seen.pending # NoAddress
      /\ row'.pending = NoAddress
      /\ links' \in {ExpireLinks, links}
      /\ confirmed' = confirmed \cup {c}
      /\ reqs' = [reqs EXCEPT ![r] = Idle]
      /\ crossed' = crossed
  BY DEF ConfirmEmailChange, End, Set
<1>2. \A p \in Requests : reqs'[p].pc # "idle" => p # r /\ reqs'[p] = reqs[p]
  BY <1>1 DEF TypeOK, Idle
<1>3. \A k \in Links : /\ links'[k].to = links[k].to
                       /\ links'[k].state = "live" => links[k].state = "live"
                       /\ links[k].state # "unissued" => links'[k].state # "unissued"
  BY <1>1 DEF ExpireLinks, TypeOK
<1>4. Live' \subseteq Live
  BY <1>3 DEF Live
<1>5. NobodyIssues' => NobodyIssues
  BY <1>1 DEF NobodyIssues, TypeOK, At
<1>6. c.got = c.to \/ c.excused
  BY <1>1 DEF LinkInv, NobodyIssues
<1>7. LinkConfirmsItsAddress'
  BY <1>1, <1>6 DEF LinkInv, LinkConfirmsItsAddress
<1>8. \A p \in Requests : At(p, "consume")' =>
          /\ links'[reqs'[p].link].state # "unissued"
          /\ reqs'[p].link \in Live' \ crossed' /\ NobodyIssues'
                => reqs'[p].seen.pending \in {links'[reqs'[p].link].to, NoAddress}
  <2>1. ASSUME NEW p \in Requests, At(p, "consume")'
        PROVE  /\ reqs'[p] = reqs[p] /\ At(p, "consume") /\ reqs[p].link \in Links
    BY <1>2, <2>1, RequestShape DEF At, Openings
  <2>. QED
    BY <1>1, <1>3, <1>4, <1>5, <2>1 DEF LinkInv
<1>9. \A p \in Requests : Settled(p)' => ChangingOK(p)'
  BY <1>1 DEF ChangingOK
<1>. QED
  BY <1>1, <1>7, <1>8, <1>9 DEF LinkInv

LEMMA NextLinkInv ==
    ASSUME TypeOK, LinkInv, [Next]_vars
    PROVE  LinkInv'
<1>1. ASSUME UNCHANGED vars
      PROVE  LinkInv'
  <2>1. NobodyIssues' = NobodyIssues /\ Live' = Live /\ \A r \in Requests : reqs'[r] = reqs[r]
    BY <1>1 DEF vars, NobodyIssues, Live, At
  <2>. QED
    BY <1>1, <2>1 DEF vars, LinkInv, LinkConfirmsItsAddress, Settled, ChangingOK, At
<1>2. ASSUME NEW r \in Requests, Factors(r)
      PROVE  LinkInv'
  BY <1>2, LinkFrame
<1>. QED
  BY <1>1, <1>2, BeginEmailChangeLink, SavePendingLink, IssueLinkLink, FailIssueLink, OpenLinkLink,
     ConfirmEmailChangeLink DEF Next, Factors

-----------------------------------------------------------------------------
\* The strengthening of what follows: both halves hold together, of any requests.
THEOREM Invariance == Spec => []Inv
<1>1. Init => Inv
  BY InitTypeOK, InitFactorInv, InitLinkInv DEF Inv
<1>2. Inv /\ [Next]_vars => Inv'
  BY NextTypeOK, NextFactorInv, NextLinkInv DEF Inv
<1>. QED
  BY <1>1, <1>2, PTL DEF Spec

\* Whatever requests overlap, no save puts null or a stranger's value in a column
\* (confirmEnrollment, disableTwoFactor, ConfirmEmailChangeAction).
THEOREM TypeCorrect == Spec => []TypeOK
<1>1. Inv => TypeOK
  BY DEF Inv
<1>. QED
  BY Invariance, <1>1, PTL

\* No recovery code is accepted twice, for any logins, disables and enrollments
\* that overlap (consumeRecoveryCode, disableTwoFactor).
THEOREM CodesAreSpentOnce == Spec => []RecoveryCodeOnce
<1>1. Inv => RecoveryCodeOnce
  BY DEF Inv, FactorInv, RecoveryCodeOnce
<1>. QED
  BY Invariance, <1>1, PTL

\* The second factor in force is the one confirmed last, and none after a disable
\* (confirmEnrollment, disableTwoFactor).
THEOREM FactorIsConfirmed == Spec => []FactorIsTheConfirmedOne
<1>1. Inv => FactorIsTheConfirmedOne
  BY DEF Inv, FactorInv
<1>. QED
  BY Invariance, <1>1, PTL

\* A link confirms the address it was mailed to, but for crossing changes and mails
\* that failed (UpdateUserAccountAction, ConfirmEmailChangeAction).
THEOREM LinksConfirmTheirAddress == Spec => []LinkConfirmsItsAddress
<1>1. Inv => LinkConfirmsItsAddress
  BY DEF Inv, LinkInv
<1>. QED
  BY Invariance, <1>1, PTL
=============================================================================
