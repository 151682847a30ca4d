# adonisjs-foundry: TLA+ models and proofs

TLA+ specifications of the parts of `apps/web` whose correctness depends on what
happens *between* two database queries, two cache calls or two processes. Paths
below are relative to `apps/web/`. Each module is translated from the code;
`PROJECT.json` names, for each definition, the lines it stands for.

- `X.tla` is the model of a component, `XProofs.tla` the theorems about it,
  `*.cfg` the instances that TLC checks.
- A definition introduced as *a deviation* is not the code. It is a mistake one
  could make in the operation below it; some property fails when it takes that
  operation's place, which shows that the property depends on the code being right.

## 1. Inventory

The application is one AdonisJS program run as several web processes and several
queue workers. They share PostgreSQL, Redis (cache, queue) and a file store; each
process also keeps a private in-memory cache tier that stands in for Redis when Redis
fails. Broadcasts are not shared: `config/transmit.ts` has no transport, so an event
reaches the browsers that are connected to the process that sends it.

| Component | State | Operations | Interacts with | What is hard | What makes it correct |
|---|---|---|---|---|---|
| Tokens `src/auth/services/token_service.ts` | rows of `tokens`: expiry, attempts | issue, verify, resolveUser, consume | every account flow; row locks; mails | concurrent presentations, failing transactions, deadlock | lockout, single use, supersession, every request ends |
| Cache drivers `src/shared/services/cache` | key -> value + TTL per tier | set, setIfAbsent, compareAndSet, compareAndDelete, list, flush | Redis, the process's map | a call applied but not acknowledged is replayed on the other tier | atomic per tier |
| Task locks `src/shared/services/lock_service.ts` | one cache key per task | withLock | scheduled jobs, cache | overrunning the TTL, crash, failover, commands | exclusion while the TTL lasts, no lock kept for ever |
| Builder field locks `src/cms/services/page/builder_session_service.ts` | one cache key per field | claim, heartbeat, release, release all | HTTP handlers, Transmit hooks, editors | read-then-write on an expiring key | no handover, refusals have a reason, locks go |
| Live editing `inertia/components/cms` | a block tree per window, a draft in the cache; presence and overlays of locks | change, emit, clean, apply; load the draft; join, leave | HTTP requests, Transmit broadcasts, React's renderings | operations late, lost, reaching some windows only, or in another order in each; a draft that replaces the tree | the windows that nothing has befallen show the same page in the end |
| Inbound webhooks `src/webhook` | rows of `webhook_deliveries`, jobs | record, process, mark failed | senders, queue, workers | duplicates, crashes between insert and dispatch, stalled jobs | one processing per delivery, nothing forgotten |
| Maintenance mode `src/core/services/maintenance_service.ts` | cache key, a copy and a CIDR list per process | set, toggle, schedule, edit the allowlist, read | cache failover, middleware | stale copies, lost updates, outage overrides | changes are lost only by overlapping; verdicts are current; the window ends |
| Two-factor `src/auth/services/two_factor_service.ts` | columns of `users` | enrol, confirm, verify, disable | login, session | saves of stale columns, one recovery code used twice | each code is spent once; the factor in force is the confirmed one |
| Account flows `src/auth`, `src/account` | columns of `users` | register, invite, reset, change email, social login | tokens, mails | effects outside the transaction | an address is confirmed by its own link |
| CMS pages `src/cms` | translations, revisions, search documents | create, save, restore, publish, apply template, pin, delete | search index | lost updates, index written after the commit | what is overwritten is in a revision; the index is current at rest |
| Identity `src/identity` | users, roles, permissions | CRUD | - | checks before the transaction | unique indexes |
| Files `src/file` | rows and stored objects | upload, move, delete | drive | rows and objects apart | no row without its object |
| Backups `src/backup` | artifacts and manifests on a disk | run, clean up, restore | `pg_dump`, `psql`, the drive, the writing application, scheduled jobs | crashes between uploads, stale references, retention by age | a differential has its manifest, its base, and nothing missing; the superfluous goes |
| Log entries `src/log` | rows | log, prune | scheduled jobs | - | old rows go |
| Rate limits, mail, navigation, sitemap, UI | - | - | - | none of their own | - |

`PROJECT.json` lists the hazards one by one, each at the line where it bites.

## 2. Modules

### OneTimeCredential and TokenLifecycle

`OneTimeCredential` is what a token promises: issued once, claimed by one presenter
at a time, redeemed once, tried a bounded number of times, never revived.
`TokenLifecycle` is the code: the requests of one user for one token type. Every
query is a step. `rowLock` is the PostgreSQL row lock that `SELECT ... FOR UPDATE`
and `UPDATE` take until the transaction ends; writes of a transaction show when
it commits (`CommitConsume`, `CommitIssue`) and vanish when it fails (`RollBack`).

| Definition | Code |
|---|---|
| `Present` .. `RecordAttempt` | `verify()` calling `checkAndIncrementAttempt`, a transaction of its own |
| `FindBySelector`, `FindUserBySelector` | the two plain reads of `verify` and `resolveUser` |
| `LockForConsume`, `Act`, `ExpireInTransaction`, `CommitConsume` | the transaction of `consume()` |
| `BeginIssue`, `ExpireDirectly`, `Create` | `issue()` where no transaction is open (reset, verification, invitation) |
| `BeginIssue`, `ExpireInTransaction`, `Create`, `CommitIssue` | `issue()` in the email-change flow, whose transaction commits after two mails |
| `Fail`, `AbortDeadlocked` | errors, crashes, and the database's deadlock detector |

`Act` is durable at once. The user that `consume()` hands to `act` was loaded
before the transaction; `TransactionContext.merge` does nothing with a Lucid model
(it looks for `$tableName` and `$primaryKey` on the instance), and `user.save()`
goes through a connection of its own. A request that only verifies, or only
resolves the user, is a request that ends at that point.

### CacheEntry and TaskLock

`CacheEntry` is one key of one cache tier as a value with time left (`0` means for
ever). Its operators are the four atomic operations both drivers implement;
`AfterTick` is expiry, by Redis itself or by `alive()` in the memory driver.

`TaskLock` puts a maintenance task on it: scheduled runs through `withLock`, and the
command of the same task, which takes no lock. A call on Redis succeeds, fails
before the server saw it, or fails after the server applied it; in both failures
`FailoverCacheDriver` repeats it on the process's own tier. A run that is retried
by the queue, or that goes on after its job has timed out, is one more run.
A process may die at any point, and its tier with it.

### FieldLocks

One field of the page builder. A request is a call of `LOCK_ACQUIRE`,
`LOCK_RELEASE`, or the `unsubscribe` hook, which releases the user's locks and then
calls `leave()`, which does so again. A lock is identified by the claim that wrote it:
in the code its owner and `expiresAt` do. `Read` is both the `get` of `acquireLock`
and the one that begins each round of `resolveContendedClaim` (`Retries` rounds
after the first); `ClaimFree`, `Renew` and `Delete` are the atomic operations.
`focus` is the editor's side, set and cleared by `LockedFieldWrapper`. What the
handlers also write (session, colour, meta) is under other keys and guards nothing
here. A refused claim is answered by a conflict; in the code building that answer
can itself throw (`toISOString` on a string), which refuses the claim all the same.
A cache that fails over in the middle of a claim is TaskLock's subject, not this one's.

### WebhookDelivery

From a verified POST to a settled row. `FindByReceiverAndDeliveryId`, `CreateRecord`
and `Dispatch` are the three awaits of `recordDelivery`; each can fail, and the
process can die before each (`Crash`). A query can fail although it was applied, its
reply being lost: the insert (`CreateRecord`) and the two UPDATEs of the job
(`Throw`, `MarkDeliveryFailed`). The queue (`Take`, `Complete`, `Requeue`,
`Stall`, `Die`) is a library: it is modelled from `config/queue.ts` and from the
documented meaning of its settings. A job goes to one worker, is retried `MaxRetries`
times when `execute` throws, then its `failed()` hook runs once; a job whose worker
has been silent for `stalledThreshold` is handed out again, be that worker dead or
slow, so two executions of one job can overlap.

### Maintenance

One configuration, kept in the failover cache and copied in each process by
`MaintenanceService`; the middleware that judges each visit by it; the admin form,
REST endpoints and commands that change it. A request is a visit or a change, and
each `await` on the cache is a step:

| Definition | Code |
|---|---|
| `Visit` | the middleware's look at the cached CIDR list, before anything is read |
| `Ask`, `JobsOf` | an admin request or command arrives, with the fields it will give `setConfig` |
| `Get`, `Read`, `Refresh` | `readStoredConfig`: the read, and the `compareAndSet` that renews the TTL |
| `Take`, `TakeCopy` | `getConfig` has its answer, from the cache or from the copy |
| `Disarm`, `AfterDisarm` | `autoDisableSchedule` on a window that is over |
| `Decide` | what the caller of `getConfig` does next: `Judge` (the middleware), `Toggle`, `Schedule` and `EditIps` (which go on to a `setConfig` of their own, and so to a second read), `Prepare` (`setConfig`) |
| `Save`, `AfterSave`, `Keep` | `persistConfig` |
| `Replay` | a failed write, repeated on the process's own tier |
| `Restart`, `Remembered` | death of a process, and `initializeMemoryFallback` of its successor |

A configuration is three flags: the toggle, whether the visits' client is on the
allowlist, whether the one scheduled window is armed. The message and `retryAfter`
are read by nothing that decides, so a change of them is a job that sets no flag
(but writes all of them back). `clock` passes the window once. `Refresh` is one step
with its answer: it changes nothing but a time to live, and a failure of it is
swallowed. The `getConfig` that ends the REST PUT is one more read, which a visit
stands for. `Expire` is a day without a read. `reconcileWithRedis` is not modelled,
as nothing calls it.

`intent`, `overlapped`, `lost`, `late`, `calledFor` and `spared` are history: the
configuration had every change been applied whole, who has been overlapped by
whose write, and what was in force while a visit was under way.

### Account

The second factor and the email address of one account, both columns of one `users`
row. A request loads the user, works and saves; the save writes only the columns
that differ from the user as it was loaded (`Column`), which is what Lucid's dirty
tracking does and what makes stale saves interesting. What `findByIdForUpdate`
brackets is one step.

| Definition | Code |
|---|---|
| `BeginEnrollment`, `ConfirmEnrollment` | `confirm_2fa`: the secret kept in the session, then `confirmEnrollment` |
| `PasswordLogin`, `PresentCode` | the parked login, and the user loaded again for its code |
| `CheckTotp`, `ConsumeRecoveryCode` | `verifyLoginCode`: against the user as loaded, or the row under its lock |
| `BeginDisable`, `DisableTwoFactor` | `disable_2fa` |
| `BeginEmailChange`, `SavePending` | `update_email`: the pending address, saved outside the transaction that was opened for it |
| `IssueLink`, `FailIssue` | `sendEmailChangeMails` and the commit, or the roll back |
| `OpenLink`, `ConfirmEmailChange` | a link is followed: `resolveUser`, then `consume` |

The tokens behind the links are TokenLifecycle's; here a link is unissued, live or
expired and knows the address its mail went to.

### Pages

One translation of a page. A request loads it (`Load`), in its transaction or, for a
restore or a change of status, before; `SaveRevision` snapshots what was *loaded* and
lets `purgeOld` select; `CommitEdit` shows all of it at once, while `SaveRestored` is
seen before `CommitRestored`, the model having been loaded outside the transaction;
`Index` writes the request's own copy to the search backend, or fails, and nobody
tries again. Contents are numbers given out in order, slugs and titles part of the
content. A foreign key keeps the page from being deleted under an open snapshot.

### LiveEditing

A tree of blocks in every window, and no tree on the server but a draft.

| Definition | Code |
|---|---|
| `AddBlock`, `InsertTemplateBlock`, `DeleteBlock`, `MoveBlock`, `UpdateBlockProps` | BlockTree's functions, on the tree the window *shows*; the block of a template comes with its children, all with new ids (`cloneBlock`) |
| `Edit` | what they have in common: the new tree, `emit`, and the draft of it, which `pushDraft` stores some time later |
| `FireTimer` | props leave the window's only debounce timer |
| `Broadcast` | `BuilderOperationsController`: the props are cleaned (`Cleaned`), and the operation goes to the windows that are connected to this process and listening (`reached`, any set of them) |
| `Receive` | `handleSseEvent`: one's own are skipped by their id, the rest go through `ApplyOperation`, which is `builder_reducer` |
| `LoseRequest`, `LoseAnswer` | `emit`'s fetch fails, before or after the server has done its work |
| `LoadDraft` | the effect of the page editor, which replaces its content by the draft when the answer arrives |
| `Render` | React renders the newest tree, and `contentRef` follows |

Requests reach the server in any order. When the modelled behaviour begins, some
editors, and the previews, have been open for a while and show the stored draft
(`Initial`); the others (`loading`) have just been opened, show the page as it is in the
database (`Page`) and have asked for the draft. A tree is the children of each block
by its id, and is compared by what can be reached from the root.

No common order of operations and no lasting tree: what can be promised is relative to
what each window has met. `apart`, `disordered` and `faded` are history. A window is
`apart` when one of its requests, one of its answers or a broadcast to it was lost, when
an operation on what it adds overtook its addition, when it changed twice between two
renderings, or when it was opened in the midst of the editing; it is `disordered`, or a
block is `faded` in it, when an operation of its own crossed one that changes the order,
or the same block's props, or when props were replaced in the timer. Each of these
befalls the window itself; what befalls another window excuses nothing.

### Backups

Runs, the retention policy and restores, while tables change. A table is the instant
of its last change and the newest `updated_at` in it, which a deletion or a table
without the column does not move (`ChangeQuietly`).

| Definition | Code |
|---|---|
| `Start`, `FindBase` | `run`, `findLastFullBackup`, and the full backup that replaces a differential without a base |
| `Detect`, `Modified` | `getModifiedTables`, with the check that fails and is swallowed |
| `Dump`, `Sanitized` | `createDatabaseDump` and `sanitizeDumpForApostrophes` |
| `UploadArtifact`, `WriteManifest` | the two uploads, in one order for a full backup and the other for a differential |
| `List`, `Delete`, `FailDelete`, `StopCleanup` | `EnforceRetentionPolicyAction`: the decision on a listing, then one deletion at a time |
| `MayReset`, `MayReplay`, `Restore` | `restore`: one transaction of drops and COPYs that goes through or changes nothing |
| `Fail` | a subprocess, the disk or the process fails in a run |

The weekly, monthly and yearly windows are one rule each: the days it picks, how long
it keeps them, how many. Compression and encryption leave the content alone.

## 3. What the runs show

| Run | Instance | Result |
|---|---|---|
| `token_lifecycle` | 2 tokens, 3 requests, cap 2; 192 627 states | lockout, single use, supersession, accounting of effects, refinement of `OneTimeCredential`, every request ends |
| `token_effect` | the same | **violated**: a token can act twice (rollback after `act`) |
| `task_lock` | 2 scheduled runs, 1 command, 2 instances, TTL 2; 52 194 states | overlap only past the TTL or across tiers; only faults leak; nobody releases another's lock; leftovers expire |
| `field_locks` | 3 calls, 2 users, 1 extra round, TTL 2; 179 991 states | refusals have a reason; no handover; own releases only; claims expire |
| `field_focus` | 2 calls, 2 users | **violated**: a focused field is lost, nothing renews it |
| `webhook_delivery` | 2 deliveries, 2 requests, 2 workers, 1 retry, 1 stall; 96 378 states | one dispatch; 202 only for recorded rows; unsettled rows have a cause; settled rows change only after a stall, or after an update whose reply was lost; jobs settle |
| `maintenance` | 2 changes, 1 visit, 2 processes, 1 trouble, 1 restart; 3 332 445 states up to symmetry | changes are lost only by overlapping; a verdict was current at some time during the visit; the window ends, whatever the tiers hold |
| `backups` | 2 tables, 1 run at a time of 3, 9 instants (3 a day), 2 events; 1 827 449 states | a differential has its manifest; with its base it misses nothing but what is excused; the base outlives it where a window is meant for both; the superfluous goes |
| `backup_roundtrip` | the same, with apostrophes in a table | **violated**: a restored text has quotes around it that nobody wrote |
| `account` | 2 requests at a time, 2 addresses, 2 enrollments, 2 links; 4 042 454 states up to symmetry | a recovery code is good once; the factor in force is the one confirmed last; a link confirms its own address |
| `pages` | 2 requests at a time, 3 contents, 2 revisions of which 1 is kept; 731 621 states up to symmetry | what is overwritten stays in a revision; the index is current at rest |
| `live_editing` | 2 editors, of which one may be loading the draft, and a preview; 3 operations or losses, a template with a nested block, 3 props of which the server cleans one; 304 320 states up to symmetry | windows that are up to date and not apart show the same blocks; also in the same order, unless they are disordered, and with like props, but for faded blocks |

The three violated runs each check what the repository itself says, quoted under
`findings` in `PROJECT.json`. The models show more divergences of the kind, which
the passing properties name as the exceptions they make:

- `logs:prune` and `backup:cleanup` take no lock and so run beside the scheduled job,
  though `lock_service.ts:10-14` promises that a manual `logs:prune` would be skipped
  (TaskLock's command runs).
- A delivery whose dispatch failed after its row was committed is answered 202 as a
  duplicate when it is sent again, and nothing queues it, though
  `webhook_receiver_controller.ts:19-21` says "so senders can retry safely" (the
  causes in `UnsettledHasCause`).
- A visit that disarms an expired window writes back the toggle it had read, though
  `maintenance_service.ts:425-427` says that it "Does not touch the base `enabled`
  toggle" (the overlap in `LostOnlyByOverlap`).
- A revision pinned after `purgeOld` has selected it is deleted, though
  `page_revision_repository.ts:100` says of pinned revisions "never touched" (`raced`
  in `OverwrittenIsKept`).
- An enrollment confirmed by a request older than a disable is reported as a success
  and leaves `two_factor_enabled` off (`overtaken` in `FactorIsTheConfirmedOne`).
- An email change whose mails fail leaves its pending address behind, which an older
  link then confirms without its mail having gone there (`crossed` in
  `LinkConfirmsItsAddress`).
- A template applied to a page is not indexed, and a slow request can put a deleted
  page back into the index (`drift` in `IndexIsCurrent`).
- A full backup can be deleted before the differentials that need it, unless it was
  made on a day that a longer window keeps (the premises of `BaseOutlivesDifferential`);
  manifests are never deleted.
- An editor keeps the props it typed, and all other windows have what the server made of
  them (`builder_operations_controller.ts:159-162`), though `builder_reducer.ts:12-14`
  says of the windows that they "stay in sync without any additional communication"
  (`Alike` in `SameTrees`).
- The draft that an editor loads overwrites the broadcasts it has received since it was
  opened (`edit.tsx:82`), and may be older than they are, though
  `builder_session_service.ts:266-269` says "so that late-joining editors see the live
  state" (`LoadDraft` in `apart`).
- A broadcast reaches the windows of one web process only, as `config/transmit.ts:5` has
  no transport; with several processes the others stay apart (`Broadcast` in `apart`).

**Bounds.** Two tokens are one generation and its successor, and three requests allow
two consumers (or two issuers) with a third party between them; the cap of 2 is reached
and exceeded. Two runs and two instances give the lock to each of the three tiers that
matter (Redis and each private map); TTL 2 lets a run be granted, age and overrun. Three
calls on a field allow a claim, the claim that takes its place and a late release or
heartbeat; one extra round lets a claim win, lose and run out of rounds. Two requests
for one delivery collide, two for two do not; one retry and one stall reach the
`failed()` hook and the double execution. In `maintenance` two changes overlap each
other or the disarming visit, the operations chosen are those that read twice (`toggle`,
`schedule`, `allowIp`), and one trouble sets a fallback tier apart from Redis or loses
the value; what needs a second trouble, a stale tier read again later, is covered by the
theorem on `WindowEnds`. In `backups` three runs are a base, its differential and a
newer base or differential, nine instants are long enough for the daily window and the
weekly one to drop one artifact after the other, and two events are a change and a
failure, or a restore between two changes; the run is one at a time because two runs
share nothing but the store, which the cleanup and the restores already change under it.
In `account` two requests are enough for each of its hazards (one saves what it loaded
before the other wrote), two enrollments tell a factor from its successor, and two links
one address from the next. In `pages` `KeepCount` is 1, so that the second revision
purges the first; three contents are enough for a save to be lost between two. In
`live_editing` three operations are an addition, what is done in the added block, and
what crosses it; `MaxEvents` bounds them together with the requests, answers and
broadcasts that are lost. The block of the first template is a container with one block
in it, so that an operation on a nested block can overtake the insertion. The constraint
`Interesting` cuts off what adds nothing. When all windows but one are apart, they remain
so, and the properties compare two that are not. An editor that renders before it acts
again may as well render at once, and one that does not is apart, so that only one has to
be behind its rendering. A draft is loaded before the second operation; three operations
are followed only as long as no window is apart and what the first added is there, and
props are set among at most two events. What is left out befalls a window the properties do not speak of, or is the
crossing of two operations on blocks that were there before, which two operations have.

`CHECK_DEADLOCK FALSE` appears in every configuration because the requests, contents,
links, operations and instants are finitely many: the system stops when all are
served. `maintenance`, `account`, `pages` and `live_editing` count states up to symmetry (of
processes, visits and changes; of requests; of editors), and check no liveness
property.

**Fairness.** Each assumption is about code that keeps running: `TokenLifecycle`
assumes that a request that has arrived goes on (and that the database's deadlock
detector works), `TaskLock` and `FieldLocks` only that time passes (so their liveness
properties hold with every process stopped dead), `WebhookDelivery` that workers go on
working, `Backups` that the scheduled cleanup is started again and again
(`start/scheduler.ts`) and goes on once it has begun, though it may die each time as
long as troubles last. `Maintenance`, `Account`, `Pages` and `LiveEditing` assume
nothing. Nothing forces a request to arrive, a token to age, a call to fail or a
process to die, and nothing assumes that they do not.

## 4. What is proved

The proofs hold for all values of the constants, under the named assumptions
(`TokenAssumption`, `TaskAssumption`, `FieldAssumption`, `WebhookAssumption`,
`MaintenanceAssumption`, `AccountAssumption`, `PagesAssumption`, `BackupAssumption`,
`LiveEditingAssumption`, `FreshAssumption`, `NoEntryAssumption`): the sets are arbitrary, special values are
distinct from the elements they stand beside, counts are natural numbers, the ids of a
page's blocks differ, and the id of a new block is new (it is made of the time and of
random characters). Each rests on an inductive invariant, `IInv`; the properties are not inductive by
themselves.

- **TokenLifecycleProofs.** A counter read under a lock is only right later because
  the lock is still held: `RowsAreOwned` ties the phases of a transaction to its row
  lock, `CountersAreCurrent` (lockout) and `SpentIsSpent` (single use) follow it.
  `SelectorsAreFresh` keeps an issuance's selector its own until its row is there,
  and `PredecessorsDie` says of each row an issuance found that it is still to be
  saved, dead, or locked by the transaction that will kill it. `ActsAreExplained`
  is an equation, `acts = commits + lost + (1 if one is under way)`.
  `LifecycleImplementsCredential` maps every step to a step of `OneTimeCredential` or a
  stutter.
- **TaskLockProofs**, which like the next module begins with lemmas on the operators of
  `CacheEntry`. `HolderHasEntry`: until its time is up, a run that was granted the
  lock has its own entry in the tier that granted it, with `Ttl - age` left. A key
  has one entry, hence one such run. `UndisturbedIsPlain` gives the leak property.
- **PageBuilderProofs**, of field locks and of live editing. `ReadsAreOwn`: what a request
  has read as its own is a finished claim of its user, for good. `LossesAreCounted`:
  every race a claim has lost, or is about to lose because what it read is stale, is
  matched by a change of the lock, so running out of rounds means that the lock changed
  in each.

  Of live editing the types are proved (`EditingTypeCorrect`), which rests on what the
  lists and trees of the model do: a block is taken out or put in at one place, and what
  is reached from the root is what its parents lead to (`Reaching`, `Removing`,
  `InsertingInto`, `Grafting`).
- **WebhookDeliveryProofs.** `OneGetsThrough` (one request passes the unique index) and
  `FirstRunIsAlone` (until its job is taken for stalled one worker has it, and the row
  still waits, unless an execution has marked it and not been told).
- **MaintenanceProofs.** `ReadsAreCurrent`: while Redis answers, what a request holds
  is what is stored, unless another has written since its first read; the allowlist
  that `toggle` carries from its first read to its second is part of it
  (`OnlyAllowsIsCarried`), and so are the copies, as long as nothing has been stored
  (`AbsentIsUntouched`). `LostOnlyByOverlap` follows it: a write that nobody has
  overlapped adds its own change to what is stored, which is all the changes before.
  For `WindowEnds` Redis may fail at will: `NothingToggled` follows the toggle
  through every tier, copy and request, and what `getConfig` hands out after the
  window is disarmed, so that nothing is left to refuse by. `VerdictsAreBacked` says
  what a visit holds before it is judged that it was stored while the visit was under
  way, so that the verdict it calls for was called for then.
- **AccountProofs.** The two halves of the row have an invariant each. `FactorInv`: an
  enrollment is confirmed by one request, none of its codes has been good before
  (`ConfirmingOK`), and an accepted code is no more in the row, so a second presenter
  fails under the lock; a user loaded with a second factor has it still unless a
  disable has come between, which is what makes a save of stale columns right.
  `LinkInv`: between two changes nothing is pending but the address that the live link
  was mailed to, and so it was when the link was opened; a change that will not write
  its address again must not have been mixed with another (`Settled`, `ChangingOK`).
- **BackupsProofs.** Failures, deletions and the passing of time take away or leave
  (`TakesAway`), so the argument follows a run: `Based` (what has the name of its base
  is a full backup, now and ever, as names are instants and no run under way has that
  one), `Looked` (each table it left out is excused) and `Dumped` (a row saved in the
  ordinary way has an `updated_at` as new as itself, in the dump as in the database).
  `RetentionInv` is about the cleanup: a rule stops claiming an artifact only when its
  window is over or it has taken enough newer ones, both of which are for good
  (`Unclaimed`), and what is doomed is claimed by no rule. So the base of a differential is
  on the disk, or is unclaimed by a rule that the premises of
  `BaseOutlivesDifferential` say still claims it. That "enough" is a cardinality of
  a set that only grows, hence the lemmas on finite sets.
- **PagesProofs.** `ReadInv`: what a request loaded is the page's content unless
  somebody has written since. `RevisionInv`: a purge that is under way has a *horizon*:
  it selected nothing above it, and above it `KeepCount` revisions are left, its own
  included. Two purges overlap, and one may delete what the other has counted; but if
  its horizon is the lower one, it deletes nothing above the other's, and if it is the
  higher one, the `KeepCount` revisions above it stand in for those it deletes. So
  overlapping saves never take away more than the rule does. `OverwrittenIsKept` joins the two: the content a save
  overwrites is what it loaded, hence in its own revision, or it was overtaken.
  `IndexInv` says of each request on its way to the index whether its copy is the
  page's. The greatest number of a set of revisions is found by the well-foundedness
  of `<`, as induction over an operator is out of reach.

Only model-checked: the liveness properties (`RequestsEnd`, `LeftoversExpire`,
`ClaimsExpire`, `JobsSettle`, `SuperfluousGo`), which are beyond the prover, and
`SameBlocks` and `SameTrees` of live editing.

## 5. Plan

Done: credentials, locks, webhooks, maintenance, accounts, pages, live editing and
backups, in the order of what a mistake would cost, and a proof of every safety property
that a passing run checks, but for `SameBlocks` and `SameTrees`. Left: two tabs of one user in `FieldLocks`, with the presence
list and the overlays.

## 6. Not modelled

Signature checks, validation, rendering, mail contents, the rate
limiter (a library), sitemap and navigation registries, and the user interface outside
the builder: no state, or none that concurrency reaches. Users, roles and permissions,
registration, invitation and social login: single writes behind unique indexes. Files: a
row and an object with a name of its own, apart only when a failure comes between the
two writes. Log pruning: one DELETE by date. The generated registries and manifests
(`.adonisjs/`, `tooling/`) and the scaffolding generator produce source text and run on
a developer's machine, one at a time.

Of what is modelled: presence, colours and overlays of the builder (display only, or one
key each); what the server's cleaning removes (`Cleaned` is any function), and the
previews that are opened, or editors that are closed, in the midst of the editing; the homepage, which a partial unique index guards; the replay
of a TOTP code within its period; two backups started within one second, which
would share a name; the cache's `list` and `flush`, except through what uses them.
The database is modelled at read committed with row locks.
