------------------------------ MODULE Account ------------------------------
(***************************************************************************)
(* One account, as concurrent requests see it: the second factor           *)
(* (TwoFactorService) and the change of the email address                  *)
(* (UpdateUserAccountAction, ConfirmEmailChangeAction). Both are columns   *)
(* of one `users` row.                                                     *)
(*                                                                         *)
(* A request loads the user, works, and saves. A save writes only the      *)
(* columns that differ from the user as it was loaded, and goes over a     *)
(* connection of its own unless the user was loaded inside the             *)
(* transaction. What a transaction does under SELECT ... FOR UPDATE is one *)
(* step here. How the tokens of the links are verified, locked and expired *)
(* is the subject of TokenLifecycle.                                       *)
(***************************************************************************)
EXTENDS Naturals, FiniteSets

CONSTANTS
    Requests,        \* requests under way at a time
    Addresses, Home, \* email addresses; the one the account begins with
    NoAddress,       \* pending_email is null
    MaxEnrollments, MaxLinks,  \* bounds
    CodesPerEnrollment         \* TwoFactorService.RECOVERY_CODE_COUNT

ASSUME AccountAssumption ==
    /\ Home \in Addresses /\ NoAddress \notin Addresses
    /\ {MaxEnrollments, MaxLinks, CodesPerEnrollment} \subseteq Nat

Enrollments == 1..MaxEnrollments  \* also the secret each of them confirmed; 0 is null
Links == 1..MaxLinks
RecoveryCodes == [of: Enrollments, n: 1..CodesPerEnrollment]
Authenticator(e) == [of |-> e, n |-> 0]
Codes == [of: Enrollments, n: 0..CodesPerEnrollment]

VARIABLES
    row,        \* email, pending address, 2FA: enabled, secret, recovery codes
    links,      \* per email-change link: its token's state, the address it was mailed to
    reqs,       \* per request: where it is, the user as it loaded it, its inputs
    enrolled,   \* enrollments begun so far
    accepted,   \* history: how often each code was accepted where it is spent
    standing,   \* history: the enrollment confirmed last, 0 when disabled since
    overtaken,  \* history: enrollments confirmed by a request older than a disable
    crossed,    \* history: links issued or left over in spite of a later address
    confirmed   \* history: [to, got, excused] of every confirmed link

vars == <<row, links, reqs, enrolled, accepted, standing, overtaken, crossed, confirmed>>
factor == <<enrolled, accepted, standing, overtaken>>
change == <<links, crossed, confirmed>>

Rows == [email: Addresses, pending: Addresses \cup {NoAddress},
         enabled: BOOLEAN, secret: 0..MaxEnrollments, codes: SUBSET RecoveryCodes]
Idle == [pc |-> "idle"]
Parked == [pc |-> "parked"]

\* What a request keeps: of the user it loaded, the columns it will look at.
Logins == [pc: {"verify"}, code: Codes,
           seen: [enabled: BOOLEAN, secret: 0..MaxEnrollments, codes: SUBSET RecoveryCodes]]
Confirmations == [pc: {"confirm2fa"}, seen: [enabled: BOOLEAN], enrollment: Enrollments, late: BOOLEAN]
Disables == [pc: {"disable"}, code: Codes]
Changes == [pc: {"save", "issue"}, seen: [pending: Addresses \cup {NoAddress}],
            address: Addresses, mixed: BOOLEAN]
Openings == [pc: {"consume"}, link: Links,
             seen: [email: Addresses, pending: Addresses \cup {NoAddress}]]
RequestStates == {Idle, Parked} \cup Logins \cup Confirmations \cup Disables \cup Changes \cup Openings

Init ==
    /\ row = [email |-> Home, pending |-> NoAddress,
              enabled |-> FALSE, secret |-> 0, codes |-> {}]
    /\ links = [l \in Links |-> [state |-> "unissued", to |-> NoAddress]]
    /\ reqs = [r \in Requests |-> Idle]
    /\ enrolled = 0
    /\ accepted = [c \in RecoveryCodes |-> 0]
    /\ standing = 0
    /\ overtaken = {}
    /\ crossed = {}
    /\ confirmed = {}

Set(r, q) == reqs' = [reqs EXCEPT ![r] = q]
End(r) == Set(r, Idle)
At(r, pc) == reqs[r].pc = pc

Factor == [enabled |-> row.enabled, secret |-> row.secret, codes |-> row.codes]

\* What is left of the column when one loaded value is saved over another.
Column(loaded, value, current) == IF loaded = value THEN current ELSE value

-----------------------------------------------------------------------------
\* The second factor.

\* confirm_2fa: auth has loaded the user, the session holds a secret that
\* beginEnrollment made and stored nowhere else.
BeginEnrollment(r) ==
    /\ At(r, "idle") /\ enrolled < MaxEnrollments
    /\ enrolled' = enrolled + 1
    /\ Set(r, [pc |-> "confirm2fa", seen |-> [enabled |-> row.enabled], enrollment |-> enrolled + 1, late |-> FALSE])
    /\ UNCHANGED <<row, accepted, standing, overtaken, change>>

\* confirmEnrollment, for a code of the pending secret. The secret and the codes
\* are always new, two_factor_enabled is saved if it was off when loaded.
ConfirmEnrollment(r) ==
    /\ At(r, "confirm2fa")
    /\ LET q == reqs[r]
           e == q.enrollment
       IN /\ row' = [email |-> row.email, pending |-> row.pending,
                     enabled |-> Column(q.seen.enabled, TRUE, row.enabled),
                     secret |-> e,
                     codes |-> {c \in RecoveryCodes : c.of = e}]
          /\ standing' = e
          /\ overtaken' = IF q.late THEN overtaken \cup {e} ELSE overtaken
    /\ End(r)
    /\ UNCHANGED <<enrolled, accepted, change>>

\* The password is right and the second factor enabled: the login is parked.
PasswordLogin(r) ==
    /\ At(r, "idle") /\ row.enabled
    /\ Set(r, Parked)
    /\ UNCHANGED <<row, factor, change>>

\* The code arrives and the user is loaded once more.
PresentCode(r, c) ==
    /\ At(r, "parked") /\ c.of <= enrolled
    /\ Set(r, [pc |-> "verify", seen |-> Factor, code |-> c])
    /\ UNCHANGED <<row, factor, change>>

\* verifyLoginCode: the authenticator's code, against the user as loaded.
CheckTotp(r) ==
    /\ At(r, "verify")
    /\ reqs[r].seen.secret # 0 /\ reqs[r].code = Authenticator(reqs[r].seen.secret)
    /\ End(r)
    /\ UNCHANGED <<row, factor, change>>

\* Deviations: the codes are those loaded before the lock, or all columns are saved.
ConsumeRecoveryCodeUnlocked(r) ==
    /\ At(r, "verify")
    /\ LET c == reqs[r].code
           seen == reqs[r].seen
       IN /\ c \in seen.codes
          /\ row' = [row EXCEPT !.codes = seen.codes \ {c}]
          /\ accepted' = [accepted EXCEPT ![c] = @ + 1]
    /\ End(r)
    /\ UNCHANGED <<enrolled, standing, overtaken, change>>

ConsumeRecoveryCodeWholeRow(r) ==
    /\ At(r, "verify")
    /\ LET c == reqs[r].code
           seen == reqs[r].seen
       IN /\ c \in seen.codes
          /\ row' = [email |-> row.email, pending |-> row.pending, enabled |-> seen.enabled,
                     secret |-> seen.secret, codes |-> seen.codes \ {c}]
          /\ accepted' = [accepted EXCEPT ![c] = @ + 1]
    /\ End(r)
    /\ UNCHANGED <<enrolled, standing, overtaken, change>>

\* ... or a recovery code, against the row under its lock.
ConsumeRecoveryCode(r) ==
    /\ At(r, "verify")
    /\ LET c == reqs[r].code
       IN /\ c \in row.codes
          /\ row' = [email |-> row.email, pending |-> row.pending, enabled |-> row.enabled,
                     secret |-> row.secret, codes |-> row.codes \ {c}]
          /\ accepted' = [accepted EXCEPT ![c] = @ + 1]
    /\ End(r)
    /\ UNCHANGED <<enrolled, standing, overtaken, change>>

\* disable_2fa: auth has loaded the user, the password is right.
BeginDisable(r, c) ==
    /\ At(r, "idle") /\ c.of <= enrolled
    /\ Set(r, [pc |-> "disable", code |-> c])
    /\ UNCHANGED <<row, factor, change>>

Overtaken(q) == [pc |-> q.pc, seen |-> q.seen, enrollment |-> q.enrollment, late |-> TRUE]

\* disableTwoFactor, with a code that is good for the row under its lock.
DisableTwoFactor(r) ==
    /\ At(r, "disable")
    /\ LET c == reqs[r].code
       IN /\ c \in row.codes \/ (row.secret # 0 /\ c = Authenticator(row.secret))
          /\ accepted' = IF c \in RecoveryCodes THEN [accepted EXCEPT ![c] = @ + 1] ELSE accepted
    /\ row' = [email |-> row.email, pending |-> row.pending,
               enabled |-> FALSE, secret |-> 0, codes |-> {}]
    /\ standing' = 0
    /\ reqs' = [q \in Requests |-> IF q = r THEN Idle
                                   ELSE IF At(q, "confirm2fa") THEN Overtaken(reqs[q])
                                   ELSE reqs[q]]
    /\ UNCHANGED <<enrolled, overtaken, change>>

-----------------------------------------------------------------------------
\* The change of the address.

\* update_email: an address that is not the one of the user as auth loaded it.
BeginEmailChange(r, a) ==
    /\ At(r, "idle") /\ a # row.email
    /\ \E l \in Links : links[l].state = "unissued"
    /\ Set(r, [pc |-> "save", seen |-> [pending |-> row.pending], address |-> a, mixed |-> FALSE])
    /\ UNCHANGED <<row, factor, change>>

\* A change that will not write the pending address any more.
Mixes(q) == \/ At(q, "issue")
            \/ At(q, "save") /\ reqs[q].seen.pending = reqs[q].address

ChangeAt(q, pc, mixed) == [pc |-> pc, seen |-> q.seen, address |-> q.address, mixed |-> mixed]

\* The pending address is saved at once, though a transaction has been opened;
\* not at all when it is the one that was loaded. A change that is under way and
\* will not save its own address any more is mixed up with this one.
SavePending(r) ==
    /\ At(r, "save")
    /\ LET a == reqs[r].address
           saves == reqs[r].seen.pending # a
       IN /\ row' = [email |-> row.email, pending |-> Column(reqs[r].seen.pending, a, row.pending),
                     enabled |-> row.enabled, secret |-> row.secret, codes |-> row.codes]
          /\ reqs' = [q \in Requests |->
                        IF q = r THEN ChangeAt(reqs[r], "issue", reqs[r].mixed)
                        ELSE IF saves /\ Mixes(q) THEN ChangeAt(reqs[q], reqs[q].pc, TRUE)
                        ELSE reqs[q]]
    /\ UNCHANGED <<factor, change>>

Live == {l \in Links : links[l].state = "live"}
ExpireLinks == [l \in Links |-> IF links[l].state = "live" THEN [links[l] EXCEPT !.state = "expired"]
                                                           ELSE links[l]]

\* A deviation: the links that are out are not expired.
IssueLinkBeside(r) ==
    /\ At(r, "issue")
    /\ \E l \in Links :
          /\ links[l].state = "unissued"
          /\ links' = [links EXCEPT ![l] = [state |-> "live", to |-> reqs[r].address]]
          /\ crossed' = IF reqs[r].mixed THEN crossed \cup {l} ELSE crossed
    /\ End(r)
    /\ UNCHANGED <<row, factor, confirmed>>

\* sendEmailChangeMails and the commit: the older links are dead, the new one has
\* gone to the address the request saved.
IssueLink(r) ==
    /\ At(r, "issue")
    /\ \E l \in Links :
          /\ links[l].state = "unissued"
          /\ links' = [ExpireLinks EXCEPT ![l] = [state |-> "live", to |-> reqs[r].address]]
          /\ crossed' = IF reqs[r].mixed THEN crossed \cup {l} ELSE crossed
    /\ End(r)
    /\ UNCHANGED <<row, factor, confirmed>>

\* A mail is refused, the connection breaks: the transaction is rolled back, the
\* older links live on, the pending address stays.
FailIssue(r) ==
    /\ At(r, "issue")
    /\ crossed' = crossed \cup Live
    /\ End(r)
    /\ UNCHANGED <<row, links, confirmed, factor>>

\* A link is opened: resolveUser has loaded the user.
OpenLink(r, l) ==
    /\ At(r, "idle") /\ l \in Live
    /\ Set(r, [pc |-> "consume", seen |-> [email |-> row.email, pending |-> row.pending], link |-> l])
    /\ UNCHANGED <<row, factor, change>>

\* A deviation: whether there is a pending address is not looked at.
ConfirmEmailChangeUnchecked(r) ==
    /\ At(r, "consume")
    /\ LET q == reqs[r]
       IN /\ q.link \in Live
          /\ row' = [row EXCEPT !.email = q.seen.pending, !.pending = NoAddress]
          /\ links' = ExpireLinks
    /\ End(r)
    /\ UNCHANGED <<factor, crossed, confirmed>>

\* consume: the token is still live under its lock, there is a pending address
\* that nobody has. The save of the user stays though the rest may be rolled back.
ConfirmEmailChange(r) ==
    /\ At(r, "consume")
    /\ LET q == reqs[r]
       IN /\ q.link \in Live /\ q.seen.pending # NoAddress
          /\ row' = [email |-> Column(q.seen.email, q.seen.pending, row.email),
                     pending |-> NoAddress,
                     enabled |-> row.enabled, secret |-> row.secret, codes |-> row.codes]
          /\ links' \in {ExpireLinks, links}
          /\ confirmed' = confirmed \cup
                {[to |-> links[q.link].to, got |-> q.seen.pending,
                  excused |-> q.link \in crossed \/ \E p \in Requests : At(p, "issue")]}
    /\ End(r)
    /\ UNCHANGED <<factor, crossed>>

\* A wrong code, a dead link, an address that is taken, a lost connection: a
\* request ends and has saved nothing.
Refuse(r) ==
    /\ reqs[r].pc \notin {"idle", "issue"}
    /\ End(r)
    /\ UNCHANGED <<row, factor, change>>

-----------------------------------------------------------------------------
Next ==
    \E r \in Requests :
        \/ BeginEnrollment(r) \/ ConfirmEnrollment(r)
        \/ PasswordLogin(r) \/ CheckTotp(r) \/ ConsumeRecoveryCode(r)
        \/ DisableTwoFactor(r)
        \/ \E c \in Codes : PresentCode(r, c) \/ BeginDisable(r, c)
        \/ \E a \in Addresses : BeginEmailChange(r, a)
        \/ SavePending(r) \/ IssueLink(r) \/ FailIssue(r)
        \/ \E l \in Links : OpenLink(r, l)
        \/ ConfirmEmailChange(r) \/ Refuse(r)

Spec == Init /\ [][Next]_vars

-----------------------------------------------------------------------------
TypeOK ==
    /\ row \in Rows
    /\ links \in [Links -> [state: {"unissued", "live", "expired"}, to: Addresses \cup {NoAddress}]]
    /\ reqs \in [Requests -> RequestStates]
    /\ enrolled \in 0..MaxEnrollments
    /\ accepted \in [RecoveryCodes -> Nat]
    /\ standing \in 0..MaxEnrollments
    /\ overtaken \subseteq Enrollments
    /\ crossed \subseteq Links
    /\ confirmed \subseteq [to: Addresses \cup {NoAddress}, got: Addresses, excused: BOOLEAN]

\* A recovery code is good once, however logins, disables and new enrollments of
\* the account overlap (consumeRecoveryCode, disableTwoFactor).
RecoveryCodeOnce == \A c \in RecoveryCodes : accepted[c] <= 1

\* The second factor in force is the one confirmed last, with its own recovery
\* codes, and none after a disable; and what was answered with success is in
\* force, unless the confirmation had loaded its user before a disable that came
\* first: it then saves its secret and codes, but not two_factor_enabled.
FactorIsTheConfirmedOne ==
    /\ row.secret = standing
    /\ row.enabled => standing # 0
    /\ \A c \in row.codes : c.of = standing
    /\ standing # 0 => row.enabled \/ standing \in overtaken

\* The address an email-change link confirms is the one it was mailed to. The
\* pending address is saved before the older links are expired, and stays when
\* that fails: only then, or when two changes are under way together, can a link
\* confirm an address that its mail never went to.
LinkConfirmsItsAddress ==
    \A c \in confirmed : c.got = c.to \/ c.excused
=============================================================================
