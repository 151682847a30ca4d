--------------------------- MODULE BackupsProofs ---------------------------
(***************************************************************************)
(* Proofs about Backups, for any tables, retention windows and number of   *)
(* runs under way together. The cleanup and the failures only take away:   *)
(* what holds of every artifact and every run goes on holding (TakesAway), *)
(* so that the argument is about the steps of a run that make something.   *)
(***************************************************************************)
EXTENDS Backups, FiniteSetTheorems, TLAPS

\* A run that may still put an artifact on the disk.
Pending(r) ==
    \/ runs[r].pc \in {"list", "detect", "dump", "artifact"}
    \/ runs[r].pc = "manifest" /\ runs[r].of.kind = "differential"

\* A row that was saved in the ordinary way has an updated_at as new as itself.
Stamped(row) == row.at \in quiet \/ row.at <= row.stamp

\* What has the name of a differential's base is a full backup, now and ever.
Based(b) ==
    /\ b.base <= clock
    /\ \A f \in store : f.name = b.base => f.kind = "full"
    /\ \A p \in Runs : Pending(p) => runs[p].of.name # b.base

Looked(b) ==
    b.kind = "differential" => Based(b) /\ \A t \in Tables \ b.tables : Excused(b, t)

Dumped(b) ==
    /\ \A t \in Tables : Stamped(b.dump[t])
    /\ b.kind = "full" => b.tables = Tables

\* The name of a backup is its own.
NamesDiffer ==
    /\ \A a \in store : a.name <= clock
    /\ \A r \in Runs : Pending(r) => runs[r].of.name <= clock
    /\ \A a, b \in store : a.name = b.name => a.kind = b.kind
    /\ \A r \in Runs : \A a \in store : Pending(r) => runs[r].of.name # a.name
    /\ \A r, s \in Runs : Pending(r) /\ Pending(s) /\ r # s => runs[r].of.name # runs[s].of.name

RunOK(r) ==
    /\ runs[r].pc \in {"list", "detect"} => runs[r].of.kind = "differential"
    /\ runs[r].pc = "detect" => Based(runs[r].of)
    /\ runs[r].pc \in {"dump", "manifest", "artifact"} => Looked(runs[r].of)
    /\ runs[r].pc \in {"manifest", "artifact"} => Dumped(runs[r].of)
    /\ runs[r].pc = "artifact" /\ runs[r].of.kind = "differential" => ManifestOf(runs[r].of) \in manifests

ChainInv ==
    /\ NamesDiffer
    /\ \A t \in Tables : Stamped(db[t])
    /\ \A r \in Runs : RunOK(r)
    /\ \A a \in store : Looked(a) /\ Dumped(a)
    /\ DifferentialHasManifest


-----------------------------------------------------------------------------
\* What the parts of the type invariant give the steps.
LEMMA RunType ==
    ASSUME TypeOK, NEW r \in Runs, runs[r].pc # "idle"
    PROVE  runs[r] \in [pc: Steps, of: Backup] /\ runs[r].of \in Backup
  BY DEF TypeOK, Idle

LEMMA ClockType ==
    ASSUME TypeOK
    PROVE  clock \in Nat /\ now \in Nat /\ now > clock /\ (Passes => clock' = now /\ clock' \in 0..MaxClock)
  BY BackupAssumption DEF TypeOK, now, Passes

LEMMA SpendType ==
    ASSUME TypeOK, NEW what \in {"runs", "events"}, Spend(what)
    PROVE  budget' \in [{"runs", "events"} -> Nat]
<1>1. budget[what] \in Nat /\ budget[what] > 0
  BY DEF TypeOK, Spend
<1>2. budget[what] - 1 \in Nat
  BY <1>1
<1>. QED
  BY <1>2 DEF Spend, TypeOK

LEMMA GotoType ==
    ASSUME TypeOK, NEW r \in Runs, NEW pc \in Steps, NEW b \in Backup, Goto(r, pc, b)
    PROVE  runs' \in [Runs -> {Idle} \cup [pc: Steps, of: Backup]]
<1>1. [pc |-> pc, of |-> b] \in [pc: Steps, of: Backup]
  OBVIOUS
<1>. QED
  BY <1>1 DEF Goto, TypeOK

LEMMA BlankType ==
    ASSUME NEW kind \in Kinds, NEW name \in Nat
    PROVE  Blank(kind, name) \in Backup
<1>1. Nothing \in Row
  BY DEF Nothing, Row
<1>. QED
  BY <1>1 DEF Blank, Backup

LEMMA InitTypeOK ==
    ASSUME Init
    PROVE  TypeOK
<1>1. Nothing \in Row
  BY DEF Nothing, Row
<1>2. clock \in 0..MaxClock /\ budget \in [{"runs", "events"} -> Nat]
  BY BackupAssumption DEF Init
<1>. QED
  BY <1>1, <1>2 DEF Init, TypeOK

LEMMA ApplicationType ==
    ASSUME TypeOK, NEW t \in Tables, Pass \/ Write(t) \/ ChangeQuietly(t) \/ Analyze(t)
    PROVE  TypeOK'
<1>1. clock' \in 0..MaxClock /\ now \in Nat
  BY ClockType DEF Pass, Write, ChangeQuietly, Analyze
<1>2. budget' \in [{"runs", "events"} -> Nat]
  BY SpendType DEF Pass, Write, ChangeQuietly, Analyze, TypeOK
<1>3. CASE Pass
  BY <1>1, <1>3 DEF Pass, TypeOK
<1>4. CASE Write(t)
  <2>1. [at |-> now, stamp |-> now, marks |-> 0] \in Row
    BY <1>1 DEF Row
  <2>. QED
    BY <1>1, <1>2, <1>4, <2>1 DEF Write, TypeOK
<1>5. CASE ChangeQuietly(t)
  <2>1. PICK s \in {0, db[t].stamp} :
           db' = [db EXCEPT ![t] = [at |-> now, stamp |-> s, marks |-> db[t].marks]]
    BY <1>5 DEF ChangeQuietly
  <2>2. [at |-> now, stamp |-> s, marks |-> db[t].marks] \in Row
    BY <1>1 DEF Row, TypeOK
  <2>. QED
    BY <1>1, <1>2, <1>5, <2>1, <2>2 DEF ChangeQuietly, TypeOK
<1>6. CASE Analyze(t)
  BY <1>1, <1>2, <1>6 DEF Analyze, TypeOK
<1>. QED
  BY <1>3, <1>4, <1>5, <1>6

LEMMA FindBaseType ==
    ASSUME TypeOK, NEW r \in Runs, FindBase(r)
    PROVE  TypeOK'
<1>1. runs[r].of \in Backup
  BY RunType DEF FindBase, FindBaseAmong
<1>2. ASSUME NEW f \in Newest(Fulls),
             Goto(r, "detect", [runs[r].of EXCEPT !.base = f.name, !.since = f.created]),
             UNCHANGED <<clock, budget>>
      PROVE  TypeOK'
  <2>1. f \in Artifact
    BY DEF Newest, Fulls, TypeOK
  <2>2. [runs[r].of EXCEPT !.base = f.name, !.since = f.created] \in Backup
    BY <1>1, <2>1 DEF Backup, Artifact
  <2>3. runs' \in [Runs -> {Idle} \cup [pc: Steps, of: Backup]]
    BY <1>2, <2>2, GotoType DEF Steps
  <2>. QED
    BY <1>2, <2>3 DEF FindBase, FindBaseAmong, TypeOK
<1>3. ASSUME Passes, Goto(r, "dump", Blank("full", now)),
             UNCHANGED budget \/ Spend("events")
      PROVE  TypeOK'
  <2>1. clock' \in 0..MaxClock /\ now \in Nat
    BY <1>3, ClockType
  <2>2. Blank("full", now) \in Backup
    BY <2>1, BlankType DEF Kinds
  <2>3. runs' \in [Runs -> {Idle} \cup [pc: Steps, of: Backup]]
    BY <1>3, <2>2, GotoType DEF Steps
  <2>4. budget' \in [{"runs", "events"} -> Nat]
    BY <1>3, SpendType DEF TypeOK
  <2>. QED
    BY <2>1, <2>3, <2>4 DEF FindBase, FindBaseAmong, TypeOK
<1>. QED
  BY <1>2, <1>3 DEF FindBase, FindBaseAmong

LEMMA DetectType ==
    ASSUME TypeOK, NEW r \in Runs, Detect(r)
    PROVE  TypeOK'
<1>. DEFINE b == runs[r].of
<1>1. b \in Backup
  BY RunType DEF Detect
<1>2. PICK skipped \in {{}} \cup {{t} : t \in Tables} :
         /\ IF skipped = {} THEN UNCHANGED budget ELSE Spend("events")
         /\ IF Modified(b.since, skipped) = {}
              THEN runs' = [runs EXCEPT ![r] = Idle]
              ELSE Goto(r, "dump", [b EXCEPT !.seen = [t \in Tables |-> db[t].at],
                                             !.skipped = skipped,
                                             !.tables = Modified(b.since, skipped)])
  BY DEF Detect
<1>3. budget' \in [{"runs", "events"} -> Nat]
  BY <1>2, SpendType DEF TypeOK
<1>4. runs' \in [Runs -> {Idle} \cup [pc: Steps, of: Backup]]
  <2>1. Modified(b.since, skipped) \in SUBSET Tables /\ skipped \in SUBSET Tables
    BY DEF Modified
  <2>2. [t \in Tables |-> db[t].at] \in [Tables -> Nat]
    BY DEF TypeOK, Row
  <2>3. [b EXCEPT !.seen = [t \in Tables |-> db[t].at], !.skipped = skipped,
                  !.tables = Modified(b.since, skipped)] \in Backup
    BY <1>1, <2>1, <2>2 DEF Backup
  <2>4. CASE Modified(b.since, skipped) = {}
    BY <1>2, <2>4 DEF TypeOK
  <2>5. CASE Modified(b.since, skipped) # {}
    BY <1>2, <2>3, <2>5, GotoType DEF Steps
  <2>. QED
    BY <2>4, <2>5
<1>. QED
  BY <1>3, <1>4 DEF Detect, TypeOK

\* What the dump of a run is made of.
DumpedBackup(b, tables) ==
    [b EXCEPT !.tables = tables,
              !.dump = [t \in Tables |-> IF t \in tables THEN Sanitized(db[t], t) ELSE Nothing],
              !.seen = IF b.kind = "full" THEN [t \in Tables |-> db[t].at] ELSE @]

LEMMA DumpStep ==
    ASSUME TypeOK, NEW r \in Runs, Dump(r)
    PROVE  LET b == runs[r].of
               tables == IF b.kind = "full" THEN Tables ELSE b.tables
           IN /\ runs[r].pc = "dump" /\ b \in Backup
              /\ DumpedBackup(b, tables) \in Backup
              /\ Goto(r, IF b.kind = "full" THEN "artifact" ELSE "manifest", DumpedBackup(b, tables))
              /\ UNCHANGED <<clock, db, analyzed, store, manifests, doomed, quiet, taken, budget>>
<1>. DEFINE b == runs[r].of
            tables == IF b.kind = "full" THEN Tables ELSE b.tables
            next == [full |-> "artifact", differential |-> "manifest"]
<1>1. runs[r].pc = "dump" /\ b \in Backup
  BY RunType DEF Dump, DumpThen
<1>2. b.kind \in {"full", "differential"} /\ tables \in SUBSET Tables
  BY <1>1 DEF Backup, Kinds
<1>3. next[b.kind] = IF b.kind = "full" THEN "artifact" ELSE "manifest"
  <2>1. CASE b.kind = "full"
    BY <2>1
  <2>2. CASE b.kind = "differential"
    BY <2>2
  <2>. QED
    BY <1>2, <2>1, <2>2
<1>4. Goto(r, next[b.kind], DumpedBackup(b, tables))
  BY DEF Dump, DumpThen, DumpedBackup
<1>5. [t \in Tables |-> IF t \in tables THEN Sanitized(db[t], t) ELSE Nothing] \in [Tables -> Row]
  <2>1. \A t \in Tables : Sanitized(db[t], t) \in Row /\ Nothing \in Row
    BY DEF Sanitized, Nothing, Row, TypeOK
  <2>. QED
    BY <2>1
<1>6. [t \in Tables |-> db[t].at] \in [Tables -> Nat]
  BY DEF TypeOK, Row
<1>7. DumpedBackup(b, tables) \in Backup
  BY <1>1, <1>2, <1>5, <1>6 DEF DumpedBackup, Backup
<1>. QED
  BY <1>1, <1>3, <1>4, <1>7 DEF Dump, DumpThen

LEMMA UploadType ==
    ASSUME TypeOK, NEW b \in Backup
    PROVE  Uploaded(b) \in Artifact
  BY ClockType DEF Uploaded, Backup, Artifact

LEMMA NextTypeOK ==
    ASSUME TypeOK, [Next]_vars
    PROVE  TypeOK'
<1>1. CASE Pass
  <2>1. clock' \in 0..MaxClock
    BY <1>1, ClockType DEF Pass
  <2>. QED
    BY <1>1, <2>1 DEF Pass, TypeOK
<1>2. ASSUME NEW t \in Tables, Write(t) \/ ChangeQuietly(t) \/ Analyze(t)
      PROVE  TypeOK'
  BY <1>2, ApplicationType
<1>3. ASSUME NEW r \in Runs, NEW kind \in Kinds, Start(r, kind)
      PROVE  TypeOK'
  <2>1. clock' \in 0..MaxClock /\ now \in Nat
    BY <1>3, ClockType DEF Start
  <2>2. runs' \in [Runs -> {Idle} \cup [pc: Steps, of: Backup]]
    BY <1>3, <2>1, BlankType, GotoType DEF Start, Steps
  <2>3. budget' \in [{"runs", "events"} -> Nat]
    BY <1>3, SpendType DEF Start
  <2>. QED
    BY <1>3, <2>1, <2>2, <2>3 DEF Start, TypeOK
<1>4. ASSUME NEW r \in Runs, Dump(r)
      PROVE  TypeOK'
  <2>1. runs' \in [Runs -> {Idle} \cup [pc: Steps, of: Backup]]
    BY <1>4, DumpStep, GotoType DEF Steps
  <2>. QED
    BY <1>4, <2>1 DEF Dump, DumpThen, TypeOK
<1>5. ASSUME NEW r \in Runs, UploadArtifact(r)
      PROVE  TypeOK'
  <2>1. runs[r].of \in Backup
    BY <1>5, RunType DEF UploadArtifact
  <2>2. clock' \in 0..MaxClock /\ now \in Nat
    BY <1>5, ClockType DEF UploadArtifact
  <2>3. store' \subseteq Artifact /\ taken' \subseteq Nat
    BY <1>5, <2>1, <2>2, UploadType DEF UploadArtifact, TypeOK
  <2>4. runs' \in [Runs -> {Idle} \cup [pc: Steps, of: Backup]]
    BY <1>5, <2>1, GotoType DEF UploadArtifact, Steps, TypeOK
  <2>. QED
    BY <1>5, <2>2, <2>3, <2>4 DEF UploadArtifact, TypeOK
<1>6. ASSUME NEW r \in Runs, WriteManifest(r)
      PROVE  TypeOK'
  <2>1. runs[r].of \in Backup
    BY <1>6, RunType DEF WriteManifest
  <2>2. ManifestOf(runs[r].of) \in [name: Nat, tables: SUBSET Tables]
    BY <2>1 DEF ManifestOf, Backup
  <2>3. manifests' \subseteq [name: Nat, tables: SUBSET Tables]
    BY <1>6, <2>2 DEF WriteManifest, TypeOK
  <2>4. runs' \in [Runs -> {Idle} \cup [pc: Steps, of: Backup]]
    BY <1>6, <2>1, GotoType DEF WriteManifest, Steps, TypeOK
  <2>. QED
    BY <1>6, <2>3, <2>4 DEF WriteManifest, TypeOK
<1>7. ASSUME NEW r \in Runs, Fail(r)
      PROVE  TypeOK'
  <2>1. budget' \in [{"runs", "events"} -> Nat]
    BY <1>7, SpendType DEF Fail
  <2>. QED
    BY <1>7, <2>1 DEF Fail, TypeOK
<1>8. CASE List
  BY <1>8 DEF List, ToDelete, TypeOK
<1>9. CASE StopCleanup
  <2>1. budget' \in [{"runs", "events"} -> Nat]
    BY <1>9, SpendType DEF StopCleanup
  <2>. QED
    BY <1>9, <2>1 DEF StopCleanup, TypeOK
<1>10. ASSUME NEW a \in doomed, Delete(a)
       PROVE  TypeOK'
  BY <1>10 DEF Delete, TypeOK
<1>11. ASSUME NEW a \in doomed, FailDelete(a)
       PROVE  TypeOK'
  <2>1. budget' \in [{"runs", "events"} -> Nat]
    BY <1>11, SpendType DEF FailDelete
  <2>. QED
    BY <1>11, <2>1 DEF FailDelete, TypeOK
<1>12. ASSUME NEW a \in store, Restore(a)
       PROVE  TypeOK'
  <2>1. a.dump \in [Tables -> Row]
    BY DEF TypeOK, Artifact
  <2>2. budget' \in [{"runs", "events"} -> Nat]
    BY <1>12, SpendType DEF Restore
  <2>3. db' \in [Tables -> Row] /\ analyzed' \in [Tables -> Nat]
    BY <1>12, <2>1 DEF Restore, TypeOK
  <2>. QED
    BY <1>12, <2>2, <2>3 DEF Restore, TypeOK
<1>13. CASE UNCHANGED vars
  BY <1>13 DEF vars, TypeOK
<1>. QED
  BY <1>1, <1>2, <1>3, <1>4, <1>5, <1>6, <1>7, <1>8, <1>9, <1>10, <1>11, <1>12, <1>13,
     FindBaseType, DetectType DEF Next

-----------------------------------------------------------------------------
\* Time and further changes without updated_at spoil nothing that has been seen.
LEMMA InitChainInv ==
    ASSUME Init
    PROVE  ChainInv
<1>1. \A r \in Runs : runs[r].pc = "idle"
  BY DEF Init, Idle
<1>2. \A t \in Tables : Stamped(db[t])
  BY DEF Init, Nothing, Stamped
<1>3. store = {}
  BY DEF Init
<1>. QED
  BY <1>1, <1>2, <1>3 DEF ChainInv, NamesDiffer, RunOK, Pending, DifferentialHasManifest

LEMMA TakesAway ==
    ASSUME TypeOK, ChainInv, clock' \in Nat, clock <= clock',
           quiet \subseteq quiet', manifests \subseteq manifests', store' \subseteq store,
           \A r \in Runs : runs'[r] = runs[r] \/ runs'[r] = Idle,
           \A t \in Tables : Stamped(db[t])'
    PROVE  ChainInv'
<1>1. clock \in Nat
  BY DEF TypeOK
<1>2. \A r \in Runs : Pending(r)' => Pending(r) /\ runs'[r] = runs[r]
  BY DEF Pending, Idle
<1>3. \A r \in Runs : Pending(r) => runs[r].of.name \in Nat
  BY RunType DEF Pending, Backup
<1>4. \A a \in store : a.name \in Nat
  BY DEF TypeOK, Artifact
<1>5. NamesDiffer'
  BY <1>1, <1>2, <1>3, <1>4 DEF ChainInv, NamesDiffer
<1>6. ASSUME NEW b, b.base \in Nat, Looked(b)
      PROVE  Looked(b)'
  BY <1>1, <1>2, <1>6 DEF Looked, Based, Excused
<1>7. ASSUME NEW b, Dumped(b)
      PROVE  Dumped(b)'
  BY <1>7 DEF Dumped, Stamped
<1>8. ASSUME NEW a \in store'
      PROVE  Looked(a)' /\ Dumped(a)'
  <2>1. a \in store /\ a.base \in Nat
    BY DEF TypeOK, Artifact
  <2>. QED
    BY <2>1, <1>6, <1>7 DEF ChainInv
<1>9. ASSUME NEW r \in Runs
      PROVE  RunOK(r)'
  <2>1. CASE runs'[r] = Idle
    BY <2>1 DEF RunOK, Idle
  <2>2. CASE runs'[r] = runs[r] /\ runs[r].pc # "idle"
    <3>1. PICK b \in Backup : runs[r].of = b /\ runs'[r].of = b
      BY <2>2, RunType
    <3>2. b.base \in Nat /\ RunOK(r)
      BY DEF Backup, ChainInv
    <3>3. Based(b) => Based(b)'
      BY <1>1, <1>2, <3>2 DEF Based
    <3>4. (Looked(b) => Looked(b)') /\ (Dumped(b) => Dumped(b)')
      BY <1>6, <1>7, <3>2
    <3>. QED
      BY <2>2, <3>1, <3>2, <3>3, <3>4 DEF RunOK, ManifestOf
  <2>3. CASE runs'[r] = runs[r] /\ runs[r].pc = "idle"
    BY <2>3 DEF RunOK
  <2>. QED
    BY <2>1, <2>2, <2>3
<1>10. DifferentialHasManifest'
  BY DEF ChainInv, DifferentialHasManifest, ManifestOf
<1>. QED
  BY <1>5, <1>8, <1>9, <1>10 DEF ChainInv

LEMMA RestoreStamped ==
    ASSUME TypeOK, ChainInv, NEW a \in store, Restore(a)
    PROVE  \A t \in Tables : Stamped(db[t])'
<1>1. \A t \in Tables : Stamped(a.dump[t])
  BY DEF ChainInv, Dumped
<1>2. \A t \in Tables : db'[t] = IF t \in a.tables THEN a.dump[t] ELSE db[t]
  BY DEF Restore
<1>. QED
  BY <1>1, <1>2 DEF Restore, ChainInv, Stamped

\* A run that begins, or begins over as a full backup, has a name that is new.
LEMMA BeginsAnew ==
    ASSUME TypeOK, ChainInv, NEW r \in Runs, NEW pc \in {"list", "dump"}, NEW kind \in Kinds,
           Passes, Goto(r, pc, Blank(kind, now)),
           pc = "list" <=> kind = "differential",
           UNCHANGED <<db, store, manifests, quiet>>
    PROVE  ChainInv'
<1>. DEFINE b == Blank(kind, now)
<1>1. clock \in Nat /\ now \in Nat /\ now > clock /\ clock' = now
  BY ClockType
<1>2. /\ runs'[r] = [pc |-> pc, of |-> b] /\ \A s \in Runs \ {r} : runs'[s] = runs[s]
      /\ b.name = now /\ b.kind = kind
  BY DEF Goto, TypeOK, Blank
<1>3. \A s \in Runs \ {r} : Pending(s)' => Pending(s) /\ runs'[s] = runs[s]
                                           /\ runs[s].of.name \in Nat /\ runs[s].of.name <= clock
  BY <1>2, RunType DEF Pending, Backup, ChainInv, NamesDiffer
<1>4. \A a \in store : a.name \in Nat /\ a.name <= clock /\ a.base \in Nat
  BY DEF TypeOK, Artifact, ChainInv, NamesDiffer
<1>5. NamesDiffer'
  <2>. HIDE DEF b
  <2>1. \A a \in store' : a.name <= clock' /\ a.name # now
    BY <1>1, <1>4
  <2>2. \A s \in Runs : Pending(s)' => runs'[s].of.name <= clock' /\ (s # r => runs'[s].of.name # now)
    BY <1>1, <1>2, <1>3
  <2>3. \A s \in Runs : \A a \in store' : Pending(s)' => runs'[s].of.name # a.name
    BY <1>2, <1>3, <2>1 DEF ChainInv, NamesDiffer
  <2>4. \A s, t \in Runs : Pending(s)' /\ Pending(t)' /\ s # t => runs'[s].of.name # runs'[t].of.name
    BY <1>2, <1>3, <2>2 DEF ChainInv, NamesDiffer
  <2>. QED
    BY <2>1, <2>2, <2>3, <2>4 DEF ChainInv, NamesDiffer
<1>6. ASSUME NEW c, c.base \in Nat, Based(c)
      PROVE  Based(c)'
  <2>. HIDE DEF b
  <2>. QED
    BY <1>1, <1>2, <1>3, <1>6 DEF Based
<1>7. ASSUME NEW c, c.base \in Nat, Looked(c)
      PROVE  Looked(c)'
  BY <1>6, <1>7 DEF Looked, Excused
<1>8. ASSUME NEW a \in store'
      PROVE  Looked(a)' /\ Dumped(a)'
  <2>1. a \in store /\ a.base \in Nat /\ Looked(a) /\ Dumped(a)
    BY <1>4 DEF ChainInv
  <2>. QED
    BY <1>7, <2>1 DEF Dumped, Stamped
<1>9. RunOK(r)'
  BY <1>2 DEF RunOK, Looked
<1>10. ASSUME NEW s \in Runs \ {r}
       PROVE  RunOK(s)'
  <2>1. CASE runs[s].pc = "idle"
    BY <1>2, <2>1 DEF RunOK
  <2>2. CASE runs[s].pc # "idle"
    <3>1. PICK c \in Backup : runs[s].of = c /\ runs'[s].of = c /\ runs'[s].pc = runs[s].pc
      BY <1>2, <2>2, RunType
    <3>2. c.base \in Nat /\ RunOK(s)
      BY DEF Backup, ChainInv
    <3>3. (Based(c) => Based(c)') /\ (Looked(c) => Looked(c)')
      BY <1>6, <1>7, <3>2
    <3>4. Dumped(c) => Dumped(c)'
      BY DEF Dumped, Stamped
    <3>. QED
      BY <3>1, <3>2, <3>3, <3>4 DEF RunOK, ManifestOf
  <2>. QED
    BY <2>1, <2>2
<1>11. \A t \in Tables : Stamped(db[t])'
  BY DEF ChainInv, Stamped
<1>12. DifferentialHasManifest'
  BY DEF ChainInv, DifferentialHasManifest, ManifestOf
<1>. QED
  BY <1>5, <1>8, <1>9, <1>10, <1>11, <1>12 DEF ChainInv

\* A run goes on, under its name and kind, and takes no part in the store.
LEMMA GoesOn ==
    ASSUME TypeOK, ChainInv, NEW r \in Runs, NEW pc \in Steps, NEW b \in Backup,
           Pending(r), Goto(r, pc, b), b.name = runs[r].of.name, b.kind = runs[r].of.kind,
           manifests \subseteq manifests', UNCHANGED <<clock, db, store, quiet>>,
           RunOK(r)'
    PROVE  ChainInv'
<1>1. /\ runs'[r] = [pc |-> pc, of |-> b] /\ \A s \in Runs \ {r} : runs'[s] = runs[s]
  BY DEF Goto, TypeOK
<1>2. \A s \in Runs : Pending(s)' => Pending(s) /\ runs'[s].of.name = runs[s].of.name
  BY <1>1 DEF Pending
<1>3. NamesDiffer'
  BY <1>2 DEF ChainInv, NamesDiffer
<1>4. ASSUME NEW c, Based(c)
      PROVE  Based(c)'
  BY <1>2, <1>4 DEF Based
<1>5. ASSUME NEW c, Looked(c)
      PROVE  Looked(c)'
  BY <1>4, <1>5 DEF Looked, Excused
<1>6. ASSUME NEW c, Dumped(c)
      PROVE  Dumped(c)'
  BY <1>6 DEF Dumped, Stamped
<1>7. \A a \in store' : Looked(a)' /\ Dumped(a)'
  BY <1>5, <1>6 DEF ChainInv
<1>8. ASSUME NEW s \in Runs \ {r}
      PROVE  RunOK(s)'
  <2>1. PICK c : runs[s].of = c /\ runs'[s].of = c /\ runs'[s].pc = runs[s].pc
    BY <1>1
  <2>2. RunOK(s) /\ (Based(c) => Based(c)') /\ (Looked(c) => Looked(c)') /\ (Dumped(c) => Dumped(c)')
    BY <1>4, <1>5, <1>6 DEF ChainInv
  <2>. QED
    BY <2>1, <2>2 DEF RunOK, ManifestOf
<1>9. \A t \in Tables : Stamped(db[t])'
  BY DEF ChainInv, Stamped
<1>10. DifferentialHasManifest'
  BY DEF ChainInv, DifferentialHasManifest, ManifestOf
<1>. QED
  BY <1>3, <1>7, <1>8, <1>9, <1>10 DEF ChainInv

LEMMA FindBaseChain ==
    ASSUME TypeOK, ChainInv, NEW r \in Runs, FindBase(r)
    PROVE  ChainInv'
<1>1. runs[r].pc = "list" /\ runs[r].of \in Backup /\ RunOK(r) /\ Pending(r)
  BY RunType DEF FindBase, FindBaseAmong, ChainInv, Pending
<1>2. ASSUME NEW f \in Newest(Fulls),
             Goto(r, "detect", [runs[r].of EXCEPT !.base = f.name, !.since = f.created]),
             UNCHANGED <<clock, budget>>
      PROVE  ChainInv'
  <2>. DEFINE b == [runs[r].of EXCEPT !.base = f.name, !.since = f.created]
  <2>1. f \in Artifact /\ f \in store /\ f.kind = "full"
    BY DEF Newest, Fulls, TypeOK
  <2>2. b \in Backup /\ b.base = f.name /\ b.name = runs[r].of.name /\ b.kind = runs[r].of.kind
    BY <1>1, <2>1 DEF Backup, Artifact
  <2>3. UNCHANGED <<db, store, manifests, quiet>>
    BY DEF FindBase, FindBaseAmong
  <2>4. /\ runs'[r] = [pc |-> "detect", of |-> b] /\ \A s \in Runs \ {r} : runs'[s] = runs[s]
    BY <1>2 DEF Goto, TypeOK
  <2>5. RunOK(r)'
    <3>. HIDE DEF b
    <3>1. PICK c \in Backup : c = b
      BY <2>2
    <3>2. \A p \in Runs : Pending(p)' => Pending(p) /\ runs'[p].of.name = runs[p].of.name
      BY <1>1, <2>2, <2>4 DEF Pending
    <3>3. c.kind = "differential" /\ c.base = f.name /\ runs'[r].pc = "detect" /\ runs'[r].of = c
      BY <1>1, <2>2, <2>4, <3>1 DEF RunOK
    <3>4. Based(c)'
      BY <1>2, <2>1, <2>3, <3>2, <3>3 DEF Based, ChainInv, NamesDiffer
    <3>. QED
      BY <3>3, <3>4 DEF RunOK
  <2>. QED
    BY <1>1, <1>2, <2>2, <2>3, <2>5, GoesOn DEF Steps
<1>3. ASSUME Passes, Goto(r, "dump", Blank("full", now))
      PROVE  ChainInv'
  BY <1>3, BeginsAnew DEF Kinds, FindBase, FindBaseAmong
<1>. QED
  BY <1>2, <1>3 DEF FindBase, FindBaseAmong

\* What a differential leaves out has not changed since its base, or is excused.
LEMMA DetectChain ==
    ASSUME TypeOK, ChainInv, NEW r \in Runs, Detect(r)
    PROVE  ChainInv'
<1>1. runs[r].pc = "detect" /\ runs[r].of \in Backup /\ RunOK(r) /\ Pending(r)
  BY RunType DEF Detect, ChainInv, Pending
<1>2. PICK b \in Backup : b = runs[r].of
  BY <1>1
<1>3. PICK skipped \in {{}} \cup {{t} : t \in Tables} :
         IF Modified(b.since, skipped) = {}
           THEN runs' = [runs EXCEPT ![r] = Idle]
           ELSE Goto(r, "dump", [b EXCEPT !.seen = [t \in Tables |-> db[t].at],
                                          !.skipped = skipped,
                                          !.tables = Modified(b.since, skipped)])
  BY <1>2 DEF Detect
<1>4. UNCHANGED <<clock, db, store, manifests, quiet>> /\ clock \in Nat
  BY DEF Detect, TypeOK
<1>5. CASE Modified(b.since, skipped) = {}
  <2>1. \A s \in Runs : runs'[s] = runs[s] \/ runs'[s] = Idle
    BY <1>3, <1>5 DEF TypeOK
  <2>2. \A t \in Tables : Stamped(db[t])'
    BY <1>4 DEF ChainInv, Stamped
  <2>. QED
    BY <1>4, <2>1, <2>2, TakesAway
<1>6. CASE Modified(b.since, skipped) # {}
  <2>1. PICK tables \in SUBSET Tables : tables = Modified(b.since, skipped)
    BY DEF Modified
  <2>2. PICK seen \in [Tables -> Nat] : seen = [t \in Tables |-> db[t].at]
    BY DEF TypeOK, Row
  <2>3. skipped \in SUBSET Tables
    OBVIOUS
  <2>4. PICK c : c = [b EXCEPT !.seen = seen, !.skipped = skipped, !.tables = tables]
    OBVIOUS
  <2>5. /\ c \in Backup /\ c.name = b.name /\ c.kind = b.kind /\ c.base = b.base /\ c.since = b.since
        /\ c.seen = seen /\ c.skipped = skipped /\ c.tables = tables
    BY <2>3, <2>4 DEF Backup
  <2>6. Goto(r, "dump", c)
    BY <1>3, <1>6, <2>1, <2>2, <2>4
  <2>7. /\ runs'[r] = [pc |-> "dump", of |-> c] /\ \A s \in Runs \ {r} : runs'[s] = runs[s]
    BY <2>6 DEF Goto, TypeOK
  <2>8. \A p \in Runs : Pending(p)' => Pending(p) /\ runs'[p].of.name = runs[p].of.name
    BY <1>1, <1>2, <2>5, <2>7 DEF Pending
  <2>9. Based(c)'
    BY <1>1, <1>2, <1>4, <2>5, <2>8 DEF Based, RunOK
  <2>10. ASSUME NEW t \in Tables \ tables
         PROVE  Excused(c, t)'
    <3>1. /\ seen[t] = db[t].at /\ db[t].at \in Nat /\ db[t].stamp \in Nat /\ b.since \in Nat
          /\ Stamped(db[t])
      BY <2>2 DEF TypeOK, Row, Backup, ChainInv
    <3>2. t \in Excluded \/ t \in skipped \/ db[t].stamp <= b.since
      BY <2>1, <3>1 DEF Modified
    <3>. QED
      BY <1>4, <2>5, <3>1, <3>2 DEF Excused, Stamped
  <2>11. RunOK(r)'
    BY <2>5, <2>7, <2>9, <2>10 DEF RunOK, Looked
  <2>. QED
    BY <1>1, <1>2, <1>4, <2>5, <2>6, <2>11, GoesOn DEF Steps
<1>. QED
  BY <1>5, <1>6

LEMMA DumpChain ==
    ASSUME TypeOK, ChainInv, NEW r \in Runs, Dump(r)
    PROVE  ChainInv'
<1>1. runs[r].pc = "dump" /\ RunOK(r) /\ Pending(r)
  BY DumpStep DEF ChainInv, Pending
<1>2. PICK b \in Backup : b = runs[r].of
  BY DumpStep
<1>3. PICK tables : tables = IF b.kind = "full" THEN Tables ELSE b.tables
  OBVIOUS
<1>4. PICK c \in Backup : c = DumpedBackup(b, tables)
  BY <1>2, <1>3, DumpStep
<1>5. PICK pc \in {"artifact", "manifest"} : pc = IF b.kind = "full" THEN "artifact" ELSE "manifest"
  OBVIOUS
<1>6. Goto(r, pc, c) /\ UNCHANGED <<clock, db, store, manifests, quiet>>
  BY <1>2, <1>3, <1>4, <1>5, DumpStep
<1>7. /\ c.name = b.name /\ c.kind = b.kind /\ c.base = b.base /\ c.since = b.since
      /\ c.skipped = b.skipped /\ c.tables = tables
      /\ c.dump = [t \in Tables |-> IF t \in tables THEN Sanitized(db[t], t) ELSE Nothing]
      /\ b.kind # "full" => c.seen = b.seen
  BY <1>4 DEF DumpedBackup, Backup
<1>8. /\ runs'[r] = [pc |-> pc, of |-> c] /\ \A s \in Runs \ {r} : runs'[s] = runs[s]
  BY <1>6 DEF Goto, TypeOK
<1>9. \A p \in Runs : Pending(p)' => Pending(p) /\ runs'[p].of.name = runs[p].of.name
  BY <1>1, <1>2, <1>7, <1>8 DEF Pending
<1>10. Dumped(c)'
  <2>1. ASSUME NEW t \in Tables
        PROVE  Stamped(c.dump[t])'
    <3>1. Stamped(db[t]) /\ Stamped(Sanitized(db[t], t)) /\ Stamped(Nothing)
      BY DEF ChainInv, Stamped, Sanitized, Nothing
    <3>2. Stamped(c.dump[t])
      BY <1>7, <3>1
    <3>. QED
      BY <1>6, <3>2 DEF Stamped
  <2>. QED
    BY <1>3, <1>7, <2>1 DEF Dumped
<1>11. Looked(c)'
  <2>1. CASE b.kind = "differential"
    <3>1. Looked(b)
      BY <1>1, <1>2 DEF RunOK
    <3>2. Based(c)'
      BY <1>6, <1>7, <1>9, <2>1, <3>1 DEF Looked, Based
    <3>3. \A t \in Tables \ c.tables : Excused(c, t)'
      BY <1>3, <1>6, <1>7, <2>1, <3>1 DEF Looked, Excused
    <3>. QED
      BY <3>2, <3>3 DEF Looked
  <2>2. CASE b.kind # "differential"
    BY <1>7, <2>2 DEF Looked
  <2>. QED
    BY <2>1, <2>2
<1>12. RunOK(r)'
  BY <1>5, <1>7, <1>8, <1>10, <1>11 DEF RunOK
<1>. QED
  BY <1>1, <1>2, <1>6, <1>7, <1>12, GoesOn DEF Steps

\* A differential's artifact is put beside the manifest that is there already.
LEMMA UploadChain ==
    ASSUME TypeOK, ChainInv, NEW r \in Runs, UploadArtifact(r)
    PROVE  ChainInv'
<1>1. runs[r].pc = "artifact" /\ RunOK(r) /\ Pending(r)
  BY DEF UploadArtifact, ChainInv, Pending
<1>2. PICK b \in Backup : b = runs[r].of
  BY <1>1, RunType
<1>3. PICK a \in Artifact : a = Uploaded(b)
  BY UploadType
<1>4. /\ a.kind = b.kind /\ a.name = b.name /\ a.base = b.base /\ a.since = b.since /\ a.seen = b.seen
      /\ a.skipped = b.skipped /\ a.tables = b.tables /\ a.dump = b.dump
  BY <1>3 DEF Uploaded
<1>5. /\ store' = store \cup {a} /\ UNCHANGED <<db, manifests, quiet>>
      /\ IF b.kind = "full" THEN Goto(r, "manifest", b) ELSE runs' = [runs EXCEPT ![r] = Idle]
  BY <1>2, <1>3 DEF UploadArtifact
<1>6. clock \in Nat /\ clock' \in Nat /\ clock <= clock'
  BY ClockType DEF UploadArtifact
<1>7. \A s \in Runs : Pending(s)' => s # r /\ Pending(s) /\ runs'[s] = runs[s] /\ runs[s].of.name \in Nat
  <2>1. CASE b.kind = "full"
    BY <1>2, <1>5, <2>1, RunType DEF Goto, TypeOK, Pending, Backup
  <2>2. CASE b.kind # "full"
    BY <1>5, <2>2, RunType DEF TypeOK, Pending, Idle, Backup
  <2>. QED
    BY <2>1, <2>2
<1>8. \A s \in Runs \ {r} : runs'[s] = runs[s]
  BY <1>5 DEF Goto, TypeOK
<1>9. \A d \in store : d.name \in Nat /\ d.base \in Nat /\ d.name <= clock /\ d.name # a.name
  BY <1>1, <1>2, <1>4 DEF TypeOK, Artifact, ChainInv, NamesDiffer
<1>10. a.name \in Nat /\ a.name <= clock
  BY <1>1, <1>2, <1>4 DEF Backup, ChainInv, NamesDiffer
<1>11. NamesDiffer'
  <2>1. \A d \in store' : d.name <= clock'
    BY <1>5, <1>6, <1>9, <1>10
  <2>2. \A s \in Runs : Pending(s)' => runs'[s].of.name <= clock'
    BY <1>6, <1>7 DEF ChainInv, NamesDiffer
  <2>3. \A d, e \in store' : d.name = e.name => d.kind = e.kind
    BY <1>5, <1>9 DEF ChainInv, NamesDiffer
  <2>4. \A s \in Runs : \A d \in store' : Pending(s)' => runs'[s].of.name # d.name
    BY <1>1, <1>2, <1>4, <1>5, <1>7 DEF ChainInv, NamesDiffer
  <2>5. \A s, t \in Runs : Pending(s)' /\ Pending(t)' /\ s # t => runs'[s].of.name # runs'[t].of.name
    BY <1>7 DEF ChainInv, NamesDiffer
  <2>. QED
    BY <2>1, <2>2, <2>3, <2>4, <2>5 DEF NamesDiffer
<1>12. ASSUME NEW c, c.base \in Nat, Looked(c)
       PROVE  Looked(c)'
  <2>1. c.kind = "differential" => a.name # c.base
    BY <1>1, <1>2, <1>4, <1>12 DEF Looked, Based
  <2>2. c.kind = "differential" => Based(c)'
    BY <1>5, <1>6, <1>7, <1>12, <2>1 DEF Looked, Based
  <2>. QED
    BY <1>5, <1>12, <2>2 DEF Looked, Excused
<1>13. ASSUME NEW c, Dumped(c)
       PROVE  Dumped(c)'
  BY <1>5, <1>13 DEF Dumped, Stamped
<1>14. Looked(b) /\ Dumped(b) /\ b.base \in Nat
  BY <1>1, <1>2 DEF RunOK, Backup
<1>15. Looked(a) /\ Dumped(a) /\ a.base \in Nat
  BY <1>4, <1>14 DEF Looked, Based, Excused, Dumped
<1>16. ASSUME NEW d \in store'
       PROVE  Looked(d)' /\ Dumped(d)'
  <2>1. Looked(d) /\ Dumped(d) /\ d.base \in Nat
    BY <1>5, <1>9, <1>15 DEF ChainInv
  <2>. QED
    BY <1>12, <1>13, <2>1
<1>17. RunOK(r)'
  <2>1. CASE b.kind = "full"
    <3>1. runs'[r].pc = "manifest" /\ runs'[r].of = b
      BY <1>5, <2>1 DEF Goto, TypeOK
    <3>. QED
      BY <1>12, <1>13, <1>14, <3>1 DEF RunOK
  <2>2. CASE b.kind # "full"
    <3>1. runs'[r].pc = "idle"
      BY <1>5, <2>2 DEF TypeOK, Idle
    <3>. QED
      BY <3>1 DEF RunOK
  <2>. QED
    BY <2>1, <2>2
<1>18. ASSUME NEW s \in Runs \ {r}
       PROVE  RunOK(s)'
  <2>1. CASE runs[s].pc = "idle"
    BY <1>8, <2>1 DEF RunOK
  <2>2. CASE runs[s].pc # "idle"
    <3>1. PICK c \in Backup : runs[s].of = c /\ runs'[s].of = c /\ runs'[s].pc = runs[s].pc
      BY <1>8, <2>2, RunType
    <3>2. c.base \in Nat /\ RunOK(s)
      BY DEF Backup, ChainInv
    <3>3. (Looked(c) => Looked(c)') /\ (Dumped(c) => Dumped(c)')
      BY <1>12, <1>13, <3>2
    <3>4. ASSUME runs[s].pc = "detect"
          PROVE  c.kind = "differential" /\ Based(c)'
      <4>1. c.kind = "differential" /\ Based(c) /\ a.name # c.base
        BY <1>1, <1>2, <1>4, <3>1, <3>2, <3>4 DEF RunOK, Based
      <4>2. store' = store \cup {a}
        BY <1>5
      <4>. QED
        BY <1>6, <1>7, <3>2, <4>1, <4>2 DEF Based
    <3>. QED
      BY <1>5, <3>1, <3>2, <3>3, <3>4 DEF RunOK, ManifestOf
  <2>. QED
    BY <2>1, <2>2
<1>19. DifferentialHasManifest'
  <2>1. a.kind = "differential" => ManifestOf(a) \in manifests
    BY <1>1, <1>2, <1>4 DEF RunOK, ManifestOf
  <2>. QED
    BY <1>5, <2>1 DEF ChainInv, DifferentialHasManifest, ManifestOf
<1>20. \A t \in Tables : Stamped(db[t])'
  BY <1>5 DEF ChainInv, Stamped
<1>. QED
  BY <1>11, <1>16, <1>17, <1>18, <1>19, <1>20 DEF ChainInv

LEMMA WriteManifestChain ==
    ASSUME TypeOK, ChainInv, NEW r \in Runs, WriteManifest(r)
    PROVE  ChainInv'
<1>1. runs[r].pc = "manifest" /\ RunOK(r)
  BY DEF WriteManifest, ChainInv
<1>2. PICK b \in Backup : b = runs[r].of
  BY <1>1, RunType
<1>3. /\ manifests' = manifests \cup {ManifestOf(b)} /\ UNCHANGED <<clock, db, store, quiet>>
      /\ IF b.kind = "full" THEN runs' = [runs EXCEPT ![r] = Idle] ELSE Goto(r, "artifact", b)
  BY <1>2 DEF WriteManifest
<1>4. CASE b.kind = "full"
  <2>1. \A s \in Runs : runs'[s] = runs[s] \/ runs'[s] = Idle
    BY <1>3, <1>4 DEF TypeOK
  <2>2. \A t \in Tables : Stamped(db[t])'
    BY <1>3 DEF ChainInv, Stamped
  <2>3. clock' \in Nat /\ clock <= clock'
    BY <1>3 DEF TypeOK
  <2>. QED
    BY <1>3, <2>1, <2>2, <2>3, TakesAway
<1>5. CASE b.kind # "full"
  <2>1. Pending(r) /\ b.kind = "differential"
    BY <1>1, <1>2, <1>5 DEF Pending, Backup, Kinds
  <2>2. /\ runs'[r] = [pc |-> "artifact", of |-> b] /\ \A s \in Runs \ {r} : runs'[s] = runs[s]
    BY <1>3, <1>5 DEF Goto, TypeOK
  <2>3. \A p \in Runs : Pending(p)' => Pending(p) /\ runs'[p].of = runs[p].of
    BY <1>2, <2>1, <2>2 DEF Pending
  <2>4. Looked(b)' /\ Dumped(b)'
    BY <1>1, <1>2, <1>3, <2>3 DEF RunOK, Looked, Based, Excused, Dumped, Stamped
  <2>5. RunOK(r)'
    BY <1>3, <2>1, <2>2, <2>4 DEF RunOK
  <2>. QED
    BY <1>2, <1>3, <1>5, <2>1, <2>5, GoesOn DEF Steps
<1>. QED
  BY <1>4, <1>5

LEMMA NextChainInv ==
    ASSUME TypeOK, ChainInv, [Next]_vars
    PROVE  ChainInv'
<1>. DEFINE Same == UNCHANGED <<quiet, manifests, store, runs, db>>
<1>1. clock \in Nat
  BY DEF TypeOK
<1>2. ASSUME Pass \/ \E t \in Tables : Write(t) \/ ChangeQuietly(t) \/ Analyze(t)
      PROVE  ChainInv'
  <2>1. clock' \in Nat /\ now = clock' /\ clock <= clock'
    BY <1>2, ClockType DEF Pass, Write, ChangeQuietly, Analyze
  <2>2. quiet \subseteq quiet' /\ UNCHANGED <<manifests, store, runs>>
    BY <1>2 DEF Pass, Write, ChangeQuietly, Analyze
  <2>3. \A t \in Tables : Stamped(db[t])'
    <3>1. CASE Pass \/ \E t \in Tables : Analyze(t)
      BY <3>1 DEF Pass, Analyze, ChainInv, Stamped
    <3>2. ASSUME NEW t \in Tables, Write(t)
          PROVE  \A u \in Tables : Stamped(db[u])'
      BY <2>1, <3>2 DEF Write, ChainInv, Stamped, TypeOK
    <3>3. ASSUME NEW t \in Tables, ChangeQuietly(t)
          PROVE  \A u \in Tables : Stamped(db[u])'
      <4>1. /\ now \in quiet' /\ db'[t].at = now
            /\ \A u \in Tables \ {t} : db'[u] = db[u]
        BY <3>3 DEF ChangeQuietly, TypeOK
      <4>. QED
        BY <2>2, <4>1 DEF ChainInv, Stamped
    <3>. QED
      BY <1>2, <3>1, <3>2, <3>3
  <2>. QED
    BY <2>1, <2>2, <2>3, TakesAway
<1>3. ASSUME NEW r \in Runs, NEW kind \in Kinds, Start(r, kind)
      PROVE  ChainInv'
  <2>1. PICK pc \in {"list", "dump"} : pc = IF kind = "full" THEN "dump" ELSE "list"
    OBVIOUS
  <2>. QED
    BY <1>3, <2>1, BeginsAnew DEF Start, Kinds
<1>4. ASSUME NEW r \in Runs, Fail(r)
      PROVE  ChainInv'
  <2>1. \A s \in Runs : runs'[s] = runs[s] \/ runs'[s] = Idle
    BY <1>4 DEF Fail, TypeOK
  <2>2. UNCHANGED <<clock, db, store, manifests, quiet>>
    BY <1>4 DEF Fail
  <2>3. \A t \in Tables : Stamped(db[t])'
    BY <2>2 DEF ChainInv, Stamped
  <2>. QED
    BY <1>1, <2>1, <2>2, <2>3, TakesAway
<1>5. ASSUME \/ List \/ StopCleanup \/ UNCHANGED vars
             \/ \E a \in doomed : Delete(a) \/ FailDelete(a)
      PROVE  ChainInv'
  <2>1. store' \subseteq store /\ UNCHANGED <<clock, runs, db, manifests, quiet>>
    BY <1>5 DEF List, StopCleanup, Delete, FailDelete, vars
  <2>2. \A t \in Tables : Stamped(db[t])'
    BY <2>1 DEF ChainInv, Stamped
  <2>. QED
    BY <1>1, <2>1, <2>2, TakesAway
<1>6. ASSUME NEW a \in store, Restore(a)
      PROVE  ChainInv'
  <2>1. UNCHANGED <<clock, runs, store, manifests, quiet>>
    BY <1>6 DEF Restore
  <2>. QED
    BY <1>1, <1>6, <2>1, RestoreStamped, TakesAway
<1>. QED
  BY <1>2, <1>3, <1>4, <1>5, <1>6, FindBaseChain, DetectChain, DumpChain, UploadChain,
     WriteManifestChain DEF Next

-----------------------------------------------------------------------------
\* What the retention policy may take away. No window speaks for what was created
\* at c: each is over, or full of what is newer.
Newer(c, rule) == {x \in taken : x > c /\ Day(x) \in rule.days}

Unclaimed(c) ==
    \A rule \in Rules : Day(c) \in rule.days =>
        \/ c + rule.span * DayLength <= clock
        \/ rule.count <= Cardinality(Newer(c, rule))

\* The base is on the disk, or nothing claims it any more.
BaseKept(b) ==
    b.kind = "differential" =>
        Unclaimed(b.since) \/ \E f \in store : f.name = b.base /\ f.created = b.since

Claiming == {"detect", "dump", "manifest", "artifact"}

RetentionInv ==
    /\ IsFiniteSet(taken) /\ \A x \in taken : x <= clock
    /\ \A a \in store : a.created \in taken
    /\ \A a, b \in store : a.created = b.created => a = b
    /\ \A a \in doomed : Unclaimed(a.created)
    /\ \A a \in store : BaseKept(a)
    /\ \A r \in Runs : runs[r].pc \in Claiming => BaseKept(runs[r].of)

LEMMA InitRetention ==
    ASSUME Init
    PROVE  RetentionInv
<1>1. IsFiniteSet({}) /\ \A r \in Runs : runs[r].pc = "idle"
  BY FS_EmptySet DEF Init, Idle
<1>. QED
  BY <1>1 DEF Init, RetentionInv, Claiming

\* Time and newer artifacts only take claims away.
LEMMA UnclaimedStays ==
    ASSUME TypeOK, TypeOK', clock <= clock', IsFiniteSet(taken'), taken \subseteq taken',
           NEW c \in Nat, Unclaimed(c)
    PROVE  Unclaimed(c)'
<1>. SUFFICES ASSUME NEW rule \in Rules, Day(c) \in rule.days
              PROVE  \/ c + rule.span * DayLength <= clock'
                     \/ rule.count <= Cardinality(Newer(c, rule)')
  BY DEF Unclaimed, Day
<1>1. /\ clock \in Nat /\ clock' \in Nat /\ DayLength \in Nat /\ rule.span \in Nat /\ rule.count \in Nat
      /\ rule.span * DayLength \in Nat
  BY BackupAssumption DEF TypeOK
<1>2. CASE c + rule.span * DayLength <= clock
  BY <1>1, <1>2
<1>3. CASE rule.count <= Cardinality(Newer(c, rule))
  <2>1. Newer(c, rule) \in SUBSET Newer(c, rule)' /\ Newer(c, rule)' \in SUBSET taken'
    BY DEF Newer, Day
  <2>2. IsFiniteSet(Newer(c, rule)') /\ IsFiniteSet(Newer(c, rule))
    BY <2>1, FS_Subset
  <2>3. Cardinality(Newer(c, rule)) <= Cardinality(Newer(c, rule)')
    BY <2>1, <2>2, FS_Subset
  <2>4. Cardinality(Newer(c, rule)) \in Nat /\ Cardinality(Newer(c, rule)') \in Nat
    BY <2>2, FS_CardinalityType
  <2>. QED
    BY <1>1, <1>3, <2>3, <2>4
<1>. QED
  BY <1>2, <1>3 DEF Unclaimed

\* What the policy decides to delete is what no window claims.
LEMMA DoomedAreUnclaimed ==
    ASSUME TypeOK, RetentionInv, NEW a \in ToDelete(store)
    PROVE  Unclaimed(a.created)
<1>. SUFFICES ASSUME NEW rule \in Rules, Day(a.created) \in rule.days,
                     ~(a.created + rule.span * DayLength <= clock)
              PROVE  rule.count <= Cardinality(Newer(a.created, rule))
  BY DEF Unclaimed
<1>. DEFINE S == {x \in On(store, rule) : Within(x, rule.span)}
            T == {x \in S : x.created > a.created}
            U == Newer(a.created, rule)
<1>1. a \in store /\ a \notin KeptBy(rule, store)
  BY DEF ToDelete
<1>2. \A x \in store : x \in Artifact /\ x.created \in Nat
  BY DEF TypeOK, Artifact
<1>3. clock \in Nat /\ rule.span * DayLength \in Nat /\ rule.count \in Nat
  BY BackupAssumption DEF TypeOK
<1>4. a.created + rule.span * DayLength > clock
  BY <1>1, <1>2, <1>3
<1>5. a \in S
  BY <1>1, <1>4 DEF On, Within
<1>6. ~(Cardinality(T) < rule.count)
  BY <1>1, <1>5 DEF KeptBy, Sliced
<1>7. [x \in T |-> x.created] \in Injection(T, U)
  <2>1. \A x \in T : x \in store /\ x.created \in U
    BY DEF RetentionInv, On, Newer
  <2>2. \A x, y \in T : x.created = y.created => x = y
    BY <2>1 DEF RetentionInv
  <2>. HIDE DEF T, U
  <2>. QED
    BY <2>1, <2>2 DEF Injection, IsInjective
<1>8. IsFiniteSet(U)
  BY FS_Subset DEF RetentionInv, Newer
<1>9. IsFiniteSet(T) /\ Cardinality(T) <= Cardinality(U)
  <2>. HIDE DEF T, U
  <2>. QED
    BY <1>7, <1>8, FS_Injection
<1>10. Cardinality(T) \in Nat /\ Cardinality(U) \in Nat
  BY <1>8, <1>9, FS_CardinalityType
<1>. HIDE DEF T
<1>. QED
  BY <1>3, <1>6, <1>9, <1>10

\* Every step either leaves the artifacts or takes some, or adds one of its own.
LEMMA RetentionStays ==
    ASSUME TypeOK, TypeOK', RetentionInv, clock <= clock',
           \/ UNCHANGED taken /\ store' \subseteq store
           \/ \E a \in Artifact : /\ a.created = now /\ clock' = now /\ BaseKept(a)
                                  /\ store' = store \cup {a} /\ taken' = taken \cup {now},
           \A a \in store \ store' : Unclaimed(a.created),
           \A a \in doomed' : Unclaimed(a.created),
           \A r \in Runs : runs'[r].pc \in Claiming => BaseKept(runs'[r].of)
    PROVE  RetentionInv'
<1>1. clock \in Nat /\ clock' \in Nat /\ now \in Nat /\ clock < now
  BY DEF TypeOK, now
<1>2. IsFiniteSet(taken') /\ taken \subseteq taken'
  BY FS_AddElement DEF RetentionInv
<1>3. ASSUME NEW c \in Nat, Unclaimed(c)
      PROVE  Unclaimed(c)'
  BY <1>2, <1>3, UnclaimedStays
<1>4. ASSUME NEW b, b.since \in Nat, BaseKept(b)
      PROVE  BaseKept(b)'
  BY <1>3, <1>4 DEF BaseKept
<1>5. \A x \in taken' : x <= clock'
  BY <1>1 DEF RetentionInv, TypeOK
<1>6. \A a \in store' : a.created \in taken'
  BY DEF RetentionInv
<1>7. \A a, b \in store' : a.created = b.created => a = b
  <2>1. CASE store' \subseteq store
    BY <2>1 DEF RetentionInv
  <2>2. ASSUME NEW a \in Artifact, a.created = now, store' = store \cup {a}
        PROVE  \A b, c \in store' : b.created = c.created => b = c
    <3>1. \A b \in store : b.created # a.created
      BY <1>1, <2>2 DEF RetentionInv
    <3>. QED
      BY <2>2, <3>1 DEF RetentionInv
  <2>. QED
    BY <2>1, <2>2
<1>8. \A a \in doomed' : Unclaimed(a.created)'
  <2>1. \A a \in doomed' : a.created \in Nat
    BY DEF TypeOK, Artifact
  <2>. QED
    BY <1>3, <2>1
<1>9. \A a \in store' : BaseKept(a)'
  <2>1. \A a \in store' : a.since \in Nat /\ BaseKept(a)
    BY DEF RetentionInv, TypeOK, Artifact
  <2>. QED
    BY <1>4, <2>1
<1>10. ASSUME NEW r \in Runs, runs'[r].pc \in Claiming
       PROVE  BaseKept(runs[r].of)'
  <2>1. runs'[r] # Idle
    BY <1>10 DEF Idle, Claiming
  <2>2. runs'[r].of.since \in Nat
    BY <2>1 DEF TypeOK, Backup
  <2>3. BaseKept(runs'[r].of)
    BY <1>10
  <2>. QED
    BY <1>3, <1>1, <2>2, <2>3 DEF BaseKept
<1>. QED
  BY <1>2, <1>5, <1>6, <1>7, <1>8, <1>9, <1>10 DEF RetentionInv

\* The step of a run keeps the base it has, or has just found it on the disk.
LEMMA RunKeepsBase ==
    ASSUME TypeOK, RetentionInv, NEW r \in Runs,
           \/ FindBase(r) \/ Detect(r) \/ Dump(r) \/ UploadArtifact(r) \/ WriteManifest(r) \/ Fail(r)
           \/ \E kind \in Kinds : Start(r, kind)
    PROVE  \A s \in Runs : runs'[s].pc \in Claiming => BaseKept(runs'[s].of)
<1>. DEFINE Goal == \A s \in Runs : runs'[s].pc \in Claiming => BaseKept(runs'[s].of)
<1>1. ASSUME runs' = [runs EXCEPT ![r] = Idle] PROVE Goal
  BY <1>1 DEF TypeOK, RetentionInv, Idle, Claiming
<1>2. ASSUME NEW pc, NEW b, Goto(r, pc, b), pc \in Claiming => BaseKept(b) PROVE Goal
  BY <1>2 DEF Goto, TypeOK, RetentionInv
<1>3. runs[r].pc \in Claiming => BaseKept(runs[r].of) /\ runs[r].of \in Backup
  BY RunType DEF RetentionInv, Claiming
<1>4. BaseKept(Blank("full", now))
  BY DEF BaseKept, Blank
<1>5. CASE \E kind \in Kinds : Start(r, kind)
  <2>1. PICK kind \in Kinds : Start(r, kind)
    BY <1>5
  <2>2. CASE kind = "full"
    BY <1>2, <1>4, <2>1, <2>2 DEF Start
  <2>3. CASE kind # "full"
    BY <1>2, <2>1, <2>3 DEF Start, Claiming
  <2>. QED
    BY <2>2, <2>3
<1>6. CASE FindBase(r)
  <2>1. ASSUME NEW f \in Newest(Fulls),
               Goto(r, "detect", [runs[r].of EXCEPT !.base = f.name, !.since = f.created])
        PROVE  Goal
    <3>1. runs[r].of \in Backup /\ f \in store
      BY <1>6, RunType DEF FindBase, FindBaseAmong, Newest, Fulls
    <3>2. BaseKept([runs[r].of EXCEPT !.base = f.name, !.since = f.created])
      BY <3>1 DEF BaseKept, Backup
    <3>. QED
      BY <1>2, <2>1, <3>2
  <2>2. ASSUME Goto(r, "dump", Blank("full", now)) PROVE Goal
    BY <1>2, <1>4, <2>2
  <2>. QED
    BY <1>6, <2>1, <2>2 DEF FindBase, FindBaseAmong
<1>7. CASE Detect(r)
  <2>1. PICK skipped \in {{}} \cup {{t} : t \in Tables} :
           IF Modified(runs[r].of.since, skipped) = {}
             THEN runs' = [runs EXCEPT ![r] = Idle]
             ELSE Goto(r, "dump", [runs[r].of EXCEPT !.seen = [t \in Tables |-> db[t].at],
                                                     !.skipped = skipped,
                                                     !.tables = Modified(runs[r].of.since, skipped)])
    BY <1>7 DEF Detect
  <2>2. BaseKept([runs[r].of EXCEPT !.seen = [t \in Tables |-> db[t].at],
                                    !.skipped = skipped,
                                    !.tables = Modified(runs[r].of.since, skipped)])
    BY <1>3, <1>7 DEF Detect, BaseKept, Backup, Claiming
  <2>. QED
    BY <1>1, <1>2, <2>1, <2>2
<1>8. CASE Dump(r)
  <2>1. PICK tables : Goto(r, IF runs[r].of.kind = "full" THEN "artifact" ELSE "manifest",
                           DumpedBackup(runs[r].of, tables))
    BY <1>8, DumpStep
  <2>2. BaseKept(DumpedBackup(runs[r].of, tables))
    BY <1>3, <1>8 DEF Dump, DumpThen, BaseKept, Backup, Claiming, DumpedBackup
  <2>. QED
    BY <1>2, <2>1, <2>2
<1>9. CASE UploadArtifact(r) \/ WriteManifest(r) \/ Fail(r)
  <2>1. \/ runs' = [runs EXCEPT ![r] = Idle]
        \/ runs[r].pc \in Claiming /\ \E pc : Goto(r, pc, runs[r].of)
    BY <1>9 DEF UploadArtifact, WriteManifest, Fail, Claiming
  <2>. QED
    BY <1>1, <1>2, <1>3, <2>1
<1>. QED
  BY <1>5, <1>6, <1>7, <1>8, <1>9

LEMMA NextRetention ==
    ASSUME TypeOK, TypeOK', RetentionInv, [Next]_vars
    PROVE  RetentionInv'
<1>1. clock \in Nat /\ now \in Nat /\ clock < now
  BY DEF TypeOK, now
<1>2. \A a \in doomed : Unclaimed(a.created)
  BY DEF RetentionInv
<1>3. \A r \in Runs : runs[r].pc \in Claiming => BaseKept(runs[r].of)
  BY DEF RetentionInv
<1>4. CASE Pass \/ \E t \in Tables : Write(t) \/ ChangeQuietly(t) \/ Analyze(t)
  <2>1. UNCHANGED <<runs, store, doomed, taken>> /\ clock <= clock'
    BY <1>1, <1>4 DEF Pass, Write, ChangeQuietly, Analyze, Passes
  <2>. QED
    BY <1>2, <1>3, <2>1, RetentionStays
<1>5. ASSUME NEW r \in Runs,
             \/ FindBase(r) \/ Detect(r) \/ Dump(r) \/ WriteManifest(r) \/ Fail(r)
             \/ \E kind \in Kinds : Start(r, kind)
      PROVE  RetentionInv'
  <2>1. UNCHANGED <<store, doomed, taken>> /\ (clock' = clock \/ clock' = now)
    <3>1. CASE \E kind \in Kinds : Start(r, kind)
      BY <3>1 DEF Start, Passes
    <3>2. CASE FindBase(r)
      BY <3>2, ZenonT(20) DEF FindBase, FindBaseAmong, Passes
    <3>3. CASE Detect(r)
      BY <3>3, Zenon DEF Detect
    <3>4. CASE Dump(r)
      BY <3>4, Zenon DEF Dump, DumpThen
    <3>5. CASE WriteManifest(r) \/ Fail(r)
      BY <3>5, Zenon DEF WriteManifest, Fail
    <3>. QED
      BY <1>5, <3>1, <3>2, <3>3, <3>4, <3>5
  <2>2. \A s \in Runs : runs'[s].pc \in Claiming => BaseKept(runs'[s].of)
    BY <1>5, RunKeepsBase
  <2>3. clock <= clock'
    BY <1>1, <2>1
  <2>. QED
    BY <1>2, <2>1, <2>2, <2>3, RetentionStays
<1>6. ASSUME NEW r \in Runs, UploadArtifact(r)
      PROVE  RetentionInv'
  <2>1. \A s \in Runs : runs'[s].pc \in Claiming => BaseKept(runs'[s].of)
    BY <1>6, RunKeepsBase
  <2>2. runs[r].of \in Backup /\ BaseKept(runs[r].of)
    BY <1>6, RunType DEF UploadArtifact, RetentionInv, Claiming
  <2>3. PICK a \in Artifact : a = Uploaded(runs[r].of)
    BY <2>2, UploadType
  <2>4. a.created = now /\ BaseKept(a)
    BY <2>2, <2>3 DEF Uploaded, BaseKept
  <2>5. /\ clock' = now /\ store' = store \cup {a} /\ taken' = taken \cup {now}
        /\ UNCHANGED doomed
    BY <1>6, <2>3 DEF UploadArtifact, Passes
  <2>. QED
    BY <1>1, <1>2, <2>1, <2>4, <2>5, RetentionStays
<1>7. CASE List
  <2>1. UNCHANGED <<runs, store, taken, clock>> /\ doomed' = ToDelete(store)
    BY <1>7 DEF List
  <2>2. \A a \in doomed' : Unclaimed(a.created)
    BY <2>1, DoomedAreUnclaimed
  <2>. QED
    BY <1>1, <1>3, <2>1, <2>2, RetentionStays
<1>8. CASE StopCleanup \/ UNCHANGED vars \/ \E a \in doomed : Delete(a) \/ FailDelete(a)
  <2>1. /\ UNCHANGED <<runs, taken, clock>> /\ doomed' \subseteq doomed
        /\ store' \subseteq store /\ store \ store' \subseteq doomed
    BY <1>8 DEF StopCleanup, Delete, FailDelete, vars
  <2>. QED
    BY <1>1, <1>2, <1>3, <2>1, RetentionStays
<1>9. ASSUME NEW a \in store, Restore(a)
      PROVE  RetentionInv'
  <2>1. UNCHANGED <<runs, store, doomed, taken, clock>>
    BY <1>9 DEF Restore
  <2>. QED
    BY <1>1, <1>2, <1>3, <2>1, RetentionStays
<1>. QED
  BY <1>4, <1>5, <1>6, <1>7, <1>8, <1>9 DEF Next

\* A window long enough for base and differential, and not yet filled, still claims
\* the base.
LEMMA ClaimedBaseIsThere ==
    ASSUME TypeOK, RetentionInv
    PROVE  BaseOutlivesDifferential
<1>. SUFFICES ASSUME NEW d \in store, NEW rule \in Rules,
                     d.kind = "differential", Within(d, Daily), Day(d.since) \in rule.days,
                     d.created - d.since <= (rule.span - Daily) * DayLength,
                     Cardinality(Newer(d.since, rule)) < rule.count
              PROVE  \E f \in store : f.name = d.base /\ f.created = d.since
  BY DEF BaseOutlivesDifferential, Newer
<1>1. /\ d.created \in Nat /\ d.since \in Nat /\ clock \in Nat /\ rule.span \in Nat /\ Daily \in Nat
      /\ DayLength \in Nat /\ rule.count \in Nat
  BY BackupAssumption DEF TypeOK, Artifact
<1>2. (rule.span - Daily) * DayLength = rule.span * DayLength - Daily * DayLength
  BY <1>1
<1>3. rule.span * DayLength \in Int /\ Daily * DayLength \in Int
  BY <1>1
<1>4. d.created + Daily * DayLength > clock
  BY DEF Within
<1>5. ~(d.since + rule.span * DayLength <= clock)
  BY <1>1, <1>2, <1>3, <1>4
<1>6. Cardinality(Newer(d.since, rule)) \in Nat
  <2>1. IsFiniteSet(Newer(d.since, rule))
    BY FS_Subset DEF RetentionInv, Newer
  <2>. QED
    BY <2>1, FS_CardinalityType
<1>7. ~Unclaimed(d.since)
  BY <1>1, <1>5, <1>6 DEF Unclaimed
<1>. QED
  BY <1>7 DEF RetentionInv, BaseKept

-----------------------------------------------------------------------------
\* The strengthening of what follows.
Inv == TypeOK /\ ChainInv /\ RetentionInv

THEOREM Invariance == Spec => []Inv
<1>1. Init => Inv
  BY InitTypeOK, InitChainInv, InitRetention DEF Inv
<1>2. Inv /\ [Next]_vars => Inv'
  BY NextTypeOK, NextChainInv, NextRetention DEF Inv
<1>. QED
  BY <1>1, <1>2, PTL DEF Spec

\* A run is always at a step of its own and a failed one leaves nothing half
\* written behind (BackupPipeline.run).
THEOREM TypeCorrect == Spec => []TypeOK
<1>1. Inv => TypeOK
  BY DEF Inv
<1>. QED
  BY Invariance, <1>1, PTL

\* No failure, crash or cleanup leaves a differential artifact without the manifest
\* that a restore asks for (executeDifferentialBackup).
THEOREM ManifestGoesFirst == Spec => []DifferentialHasManifest
<1>1. Inv => DifferentialHasManifest
  BY DEF Inv, ChainInv
<1>. QED
  BY Invariance, <1>1, PTL

\* However many runs, restores and cleanups overlap, a differential and its base
\* hold what the differential saw, but for the named excuses (getModifiedTables).
THEOREM ChainIsComplete == Spec => []ChainHoldsWhatWasSeen
<1>1. Inv => ChainHoldsWhatWasSeen
  BY DEF Inv, ChainInv, Looked, Based, Dumped, ChainHoldsWhatWasSeen
<1>. QED
  BY Invariance, <1>1, PTL

\* However the cleanups interleave with runs and uploads, the base of a differential
\* that the daily window keeps is on the disk, if it was made on a day of a window that
\* is long enough for both and not filled by newer artifacts (getBackupsToDelete).
THEOREM BaseIsKept == Spec => []BaseOutlivesDifferential
<1>1. Inv => BaseOutlivesDifferential
  BY ClaimedBaseIsThere DEF Inv
<1>. QED
  BY Invariance, <1>1, PTL
=============================================================================
