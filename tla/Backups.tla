------------------------------ MODULE Backups ------------------------------
(***************************************************************************)
(* Backups of the database (src/backup): full and differential runs that   *)
(* dump, sanitise and upload, the retention policy that deletes artifacts  *)
(* by their age, and restores, while the application goes on writing.      *)
(*                                                                         *)
(* A table's content is the instant of its last change. An instant passes  *)
(* with every change, start of a run and upload, so that no two of them    *)
(* carry one time stamp; DayLength instants are a day.                     *)
(***************************************************************************)
EXTENDS Integers, FiniteSets

CONSTANTS
    Tables,       \* the tables of the managed schemas
    References,   \* pairs <<t, u>>: t has a foreign key to u
    Excluded,     \* backupConfig.differential.excludedTables
    Apostrophes,  \* tables with a text in which an apostrophe occurs
    Json,         \* tables with such a text in a json column
    Runs,         \* slots of runs that are under way together
    DayLength,    \* instants in a day
    Daily,        \* retention.daily, in days
    Rules,        \* the weekly, monthly and yearly windows: [days, span, count]
    MaxClock, MaxRuns,  \* bounds: instants, backups,
    MaxEvents           \* and changes, restores and troubles together

ASSUME BackupAssumption ==
    /\ IsFiniteSet(Tables)
    /\ DayLength \in Nat \ {0} /\ Daily \in Nat
    /\ \A rule \in Rules : rule.days \subseteq Nat /\ rule.span \in Nat /\ rule.count \in Nat
    /\ {MaxClock, MaxRuns, MaxEvents} \subseteq Nat

VARIABLES
    clock,      \* the instant
    db,         \* per table: last change, newest updated_at, quoting added to its text
    analyzed,   \* per table: last vacuum or analyze in pg_stat_user_tables
    runs,       \* the backups under way
    store,      \* the artifacts on the disk
    manifests,  \* the manifests on the disk
    doomed,     \* what a cleanup under way has still to delete
    quiet,      \* history: instants of the changes that left no updated_at
    taken,      \* history: the creation times of all artifacts there have been
    budget      \* what is left of the bounds

vars == <<clock, db, analyzed, runs, store, manifests, doomed, quiet, taken, budget>>

Kinds == {"full", "differential"}
Row == [at: Nat, stamp: Nat, marks: Nat]

\* What is known of a backup: its name is the instant it was named at; base and
\* since are the last full backup's name and creation time; seen is what the
\* tables held when it chose or dumped them, skipped what it failed to look at.
Backup == [kind: Kinds, name: Nat, base: Nat, since: Nat, seen: [Tables -> Nat],
           skipped: SUBSET Tables, tables: SUBSET Tables, dump: [Tables -> Row]]
Artifact == [kind: Kinds, name: Nat, base: Nat, since: Nat, seen: [Tables -> Nat],
             skipped: SUBSET Tables, tables: SUBSET Tables, dump: [Tables -> Row], created: Nat]
Steps == {"list", "detect", "dump", "artifact", "manifest"}
Idle == [pc |-> "idle"]

now == clock + 1
Nothing == [at |-> 0, stamp |-> 0, marks |-> 0]
Blank(kind, name) ==
    [kind |-> kind, name |-> name, base |-> 0, since |-> 0,
     seen |-> [t \in Tables |-> 0], skipped |-> {}, tables |-> {},
     dump |-> [t \in Tables |-> Nothing]]

Init ==
    /\ clock = 0
    /\ db = [t \in Tables |-> Nothing]
    /\ analyzed = [t \in Tables |-> 0]
    /\ runs = [r \in Runs |-> Idle]
    /\ store = {}
    /\ manifests = {}
    /\ doomed = {}
    /\ quiet = {}
    /\ taken = {}
    /\ budget = [what \in {"runs", "events"} |-> IF what = "runs" THEN MaxRuns ELSE MaxEvents]

Spend(what) ==
    /\ budget[what] > 0
    /\ budget' = [budget EXCEPT ![what] = @ - 1]

Passes == clock < MaxClock /\ clock' = now

-----------------------------------------------------------------------------
\* The application and PostgreSQL.

Pass ==
    /\ Passes
    /\ UNCHANGED <<db, analyzed, runs, store, manifests, doomed, quiet, taken, budget>>

\* A model is saved: Lucid sets updated_at.
Write(t) ==
    /\ Passes /\ Spend("events")
    /\ db' = [db EXCEPT ![t] = [at |-> now, stamp |-> now, marks |-> 0]]
    /\ UNCHANGED <<analyzed, runs, store, manifests, doomed, quiet, taken>>

\* A row is deleted (the newest updated_at may go with it), or a table without
\* the column changes.
ChangeQuietly(t) ==
    /\ Passes /\ Spend("events")
    /\ \E s \in {0, db[t].stamp} :
          db' = [db EXCEPT ![t] = [at |-> now, stamp |-> s, marks |-> db[t].marks]]
    /\ quiet' = quiet \cup {now}
    /\ UNCHANGED <<analyzed, runs, store, manifests, doomed, taken>>

\* Autovacuum looks at a table.
Analyze(t) ==
    /\ Passes /\ Spend("events")
    /\ analyzed' = [analyzed EXCEPT ![t] = now]
    /\ UNCHANGED <<db, runs, store, manifests, doomed, quiet, taken>>

-----------------------------------------------------------------------------
\* BackupPipeline.run

Goto(r, pc, b) == runs' = [runs EXCEPT ![r] = [pc |-> pc, of |-> b]]

\* A run is started by the schedule of the host or by hand; resolveStrategy
\* gives one kind or the other.
Start(r, kind) ==
    /\ runs[r].pc = "idle" /\ Passes /\ Spend("runs")
    /\ Goto(r, IF kind = "full" THEN "dump" ELSE "list", Blank(kind, now))
    /\ UNCHANGED <<db, analyzed, store, manifests, doomed, quiet, taken>>

Newest(S) == {a \in S : \A b \in S : b.created <= a.created}

\* findLastFullBackup: the newest full artifact, or a full backup instead.
\* list() answers with nothing when the disk fails.
Fulls == {a \in store : a.kind = "full"}

FindBaseAmong(r, candidates) ==
    /\ runs[r].pc = "list"
    /\ \/ \E f \in Newest(candidates) :
             Goto(r, "detect", [runs[r].of EXCEPT !.base = f.name, !.since = f.created])
          /\ UNCHANGED <<clock, budget>>
       \/ /\ candidates = {} \/ budget.events > 0
          /\ Passes
          /\ Goto(r, "dump", Blank("full", now))
          /\ IF candidates = {} THEN UNCHANGED budget ELSE Spend("events")
    /\ UNCHANGED <<db, analyzed, store, manifests, doomed, quiet, taken>>

\* A deviation: the newest artifact of any kind is taken for the base.
FindBaseOfAnyKind(r) == FindBaseAmong(r, store)

FindBase(r) == FindBaseAmong(r, Fulls)

\* getModifiedTables: the tables analyzed since, and those with a newer
\* updated_at. A table whose check fails is left out with a warning.
Modified(since, skipped) ==
    {t \in Tables : analyzed[t] > since}
        \cup {t \in Tables \ (Excluded \cup skipped) : db[t].stamp > since}

Detect(r) ==
    /\ runs[r].pc = "detect"
    /\ \E skipped \in {{}} \cup {{t} : t \in Tables} :
          LET b == runs[r].of
              tables == Modified(b.since, skipped)
          IN /\ IF skipped = {} THEN UNCHANGED budget ELSE Spend("events")
             /\ IF tables = {}
                  THEN runs' = [runs EXCEPT ![r] = Idle]
                  ELSE Goto(r, "dump", [b EXCEPT !.seen = [t \in Tables |-> db[t].at],
                                                 !.skipped = skipped,
                                                 !.tables = tables])
    /\ UNCHANGED <<clock, db, analyzed, store, manifests, doomed, quiet, taken>>

\* sanitizeDumpForApostrophes: fields with an apostrophe are put in quotes,
\* which the COPY format does not take off again.
Sanitized(row, t) ==
    IF t \in Apostrophes THEN [at |-> row.at, stamp |-> row.stamp, marks |-> row.marks + 1]
                         ELSE row

\* pg_dump, of every table or of the modified ones.
DumpThen(r, next) ==
    /\ runs[r].pc = "dump"
    /\ LET b == runs[r].of
           tables == IF b.kind = "full" THEN Tables ELSE b.tables
       IN Goto(r, next[b.kind],
               [b EXCEPT !.tables = tables,
                         !.dump = [t \in Tables |-> IF t \in tables THEN Sanitized(db[t], t) ELSE Nothing],
                         !.seen = IF b.kind = "full" THEN [t \in Tables |-> db[t].at] ELSE @])
    /\ UNCHANGED <<clock, db, analyzed, store, manifests, doomed, quiet, taken, budget>>

\* Deviations: a differential run, too, uploads its artifact before its manifest;
\* or its next step is lost.
DumpForArtifact(r) == DumpThen(r, [full |-> "artifact", differential |-> "artifact"])
DumpForNothing(r) == DumpThen(r, [full |-> "artifact", differential |-> "upload"])

Dump(r) == DumpThen(r, [full |-> "artifact", differential |-> "manifest"])

Uploaded(b) ==
    [kind |-> b.kind, name |-> b.name, base |-> b.base, since |-> b.since,
     seen |-> b.seen, skipped |-> b.skipped, tables |-> b.tables, dump |-> b.dump, created |-> now]

UploadArtifact(r) ==
    /\ runs[r].pc = "artifact" /\ Passes
    /\ LET b == runs[r].of
       IN /\ store' = store \cup {Uploaded(b)}
          /\ taken' = taken \cup {now}
          /\ IF b.kind = "full" THEN Goto(r, "manifest", b)
                                ELSE runs' = [runs EXCEPT ![r] = Idle]
    /\ UNCHANGED <<db, analyzed, manifests, doomed, quiet, budget>>

ManifestOf(b) == [name |-> b.name, tables |-> b.tables]

WriteManifest(r) ==
    /\ runs[r].pc = "manifest"
    /\ LET b == runs[r].of
       IN /\ manifests' = manifests \cup {ManifestOf(b)}
          /\ IF b.kind = "full" THEN runs' = [runs EXCEPT ![r] = Idle]
                                ELSE Goto(r, "artifact", b)
    /\ UNCHANGED <<clock, db, analyzed, store, doomed, quiet, taken, budget>>

\* A subprocess or the disk fails, or the process dies: what has been uploaded stays.
Fail(r) ==
    /\ runs[r].pc # "idle" /\ Spend("events")
    /\ runs' = [runs EXCEPT ![r] = Idle]
    /\ UNCHANGED <<clock, db, analyzed, store, manifests, doomed, quiet, taken>>

-----------------------------------------------------------------------------
\* EnforceRetentionPolicyAction

Day(i) == i \div DayLength
Within(a, days) == a.created + days * DayLength > clock
On(S, rule) == {a \in S : Day(a.created) \in rule.days}

\* The n newest of a set of artifacts.
Sliced(S, n) == {a \in S : Cardinality({b \in S : b.created > a.created}) < n}

\* A deviation: the daily span is used for every window.
KeptByDaily(rule, listed) == Sliced({a \in On(listed, rule) : Within(a, Daily)}, rule.count)

KeptBy(rule, listed) == Sliced({a \in On(listed, rule) : Within(a, rule.span)}, rule.count)

ToDelete(listed) ==
    {a \in listed : ~Within(a, Daily)} \ UNION {KeptBy(rule, listed) : rule \in Rules}

\* The listing and the decision; a listing that fails is empty and deletes nothing.
List ==
    /\ doomed = {}
    /\ doomed' = ToDelete(store)
    /\ UNCHANGED <<clock, db, analyzed, runs, store, manifests, quiet, taken, budget>>

\* A deviation: the manifest is deleted and the artifact is not.
DeleteManifest(a) ==
    /\ a \in doomed
    /\ doomed' = doomed \ {a}
    /\ manifests' = {m \in manifests : m.name # a.name}
    /\ UNCHANGED <<clock, db, analyzed, runs, store, quiet, taken, budget>>

\* One artifact is deleted, its manifest is not.
Delete(a) ==
    /\ a \in doomed
    /\ doomed' = doomed \ {a}
    /\ store' = store \ {a}
    /\ UNCHANGED <<clock, db, analyzed, runs, manifests, quiet, taken, budget>>

\* The disk refuses and the loop goes on.
FailDelete(a) ==
    /\ a \in doomed /\ Spend("events")
    /\ doomed' = doomed \ {a}
    /\ UNCHANGED <<clock, db, analyzed, runs, store, manifests, quiet, taken>>

\* The process dies with artifacts left to delete.
StopCleanup ==
    /\ doomed # {} /\ Spend("events")
    /\ doomed' = {}
    /\ UNCHANGED <<clock, db, analyzed, runs, store, manifests, quiet, taken>>

-----------------------------------------------------------------------------
\* BackupPipeline.restore: one psql transaction drops the tables and replays the dump.

\* A differential needs its manifest, and its tables are dropped one by one
\* without CASCADE: a reference from another table that is still there aborts.
MayReset(a) ==
    \/ a.kind = "full"
    \/ /\ \E m \in manifests : m.name = a.name
       /\ \A p \in References : p[2] \in a.tables => p[1] \in a.tables

\* A json value put in quotes is no json any more: the COPY fails.
MayReplay(a) == a.tables \cap Apostrophes \cap Json = {}

\* The tables of the dump are new to the statistics. A restore that fails, also
\* for the order of the drops, rolls back and changes nothing.
Restore(a) ==
    /\ Spend("events")
    /\ MayReset(a) /\ MayReplay(a)
    /\ db' = [t \in Tables |-> IF t \in a.tables THEN a.dump[t] ELSE db[t]]
    /\ analyzed' = [t \in Tables |-> IF t \in a.tables THEN 0 ELSE analyzed[t]]
    /\ UNCHANGED <<clock, runs, store, manifests, doomed, quiet, taken>>

-----------------------------------------------------------------------------
Next ==
    \/ Pass
    \/ \E t \in Tables : Write(t) \/ ChangeQuietly(t) \/ Analyze(t)
    \/ \E r \in Runs :
          \/ \E kind \in Kinds : Start(r, kind)
          \/ FindBase(r) \/ Detect(r) \/ Dump(r)
          \/ UploadArtifact(r) \/ WriteManifest(r) \/ Fail(r)
    \/ List \/ StopCleanup
    \/ \E a \in doomed : Delete(a) \/ FailDelete(a)
    \/ \E a \in store : Restore(a)

\* The cleanup is scheduled for ever, and goes on once it has begun.
Fairness == WF_vars(List) /\ WF_vars(\E a \in doomed : Delete(a))

Spec == Init /\ [][Next]_vars /\ Fairness

-----------------------------------------------------------------------------
TypeOK ==
    /\ clock \in 0..MaxClock
    /\ db \in [Tables -> Row]
    /\ analyzed \in [Tables -> Nat]
    /\ runs \in [Runs -> {Idle} \cup [pc: Steps, of: Backup]]
    /\ store \subseteq Artifact /\ doomed \subseteq Artifact
    /\ manifests \subseteq [name: Nat, tables: SUBSET Tables]
    /\ quiet \subseteq Nat /\ taken \subseteq Nat
    /\ budget \in [{"runs", "events"} -> Nat]

\* A differential artifact that is on the disk finds its manifest there, naming
\* the tables of its dump, whatever has failed or died: the manifest goes first
\* (executeDifferentialBackup), and without it restore() refuses the artifact.
DifferentialHasManifest ==
    \A a \in store : a.kind = "differential" => ManifestOf(a) \in manifests

\* A full backup and a differential on top of it hold every table as it was when
\* the differential looked. What may be missing is a change made before the full
\* artifact's time stamp, which is that of its upload and not of its dump, or
\* brought back by a restore since; a change that left no updated_at; a table that
\* is excluded or whose check failed (getModifiedTables, findLastFullBackup).
Excused(d, t) ==
    d.seen[t] <= d.since \/ d.seen[t] \in quiet \/ t \in Excluded \/ t \in d.skipped

ChainHoldsWhatWasSeen ==
    \A d, f \in store :
        d.kind = "differential" /\ d.base = f.name =>
            \A t \in Tables \ d.tables :
                t \in f.tables /\ (Excused(d, t) \/ f.dump[t].at = d.seen[t])

\* The base of a differential backup is on the disk as long as the daily window
\* keeps the differential, provided the base was made on a day of some other
\* window (a Sunday, say) that is long enough for both and has not been filled by
\* newer artifacts. A base made on another day goes first, and a differential kept
\* for the month or the year outlives its base (getBackupsToDelete, which looks at
\* each artifact by itself).
BaseOutlivesDifferential ==
    \A d \in store : \A rule \in Rules :
        /\ d.kind = "differential"
        /\ Within(d, Daily)
        /\ Day(d.since) \in rule.days
        /\ d.created - d.since <= (rule.span - Daily) * DayLength
        /\ Cardinality({c \in taken : c > d.since /\ Day(c) \in rule.days}) < rule.count
        => \E f \in store : f.name = d.base /\ f.created = d.since

\* Again and again the disk holds nothing but what some window keeps, though
\* deletions fail and cleanups die (EnforceBackupRetentionJob).
SuperfluousGo == []<>(ToDelete(store) = {})

\* What is in the database is what somebody wrote: a restore brings back the text
\* that was dumped (checked by a run that fails).
TextIsAsWritten == \A t \in Tables : db[t].marks = 0
=============================================================================
