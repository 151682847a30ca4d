------------------------------- MODULE Pages -------------------------------
(***************************************************************************)
(* One translation of a CMS page, its revisions and its search document,   *)
(* as concurrent requests change them: saving, restoring a revision,       *)
(* publishing, applying a template, pinning, deleting (src/cms/actions).   *)
(*                                                                         *)
(* Transactions read what is committed when they read it. A translation    *)
(* loaded outside the transaction is saved on a connection of its own, at  *)
(* once. A save writes the columns that differ from the translation as it  *)
(* was loaded. The search document is written after the commit, from the   *)
(* request's own copy of the translation.                                  *)
(***************************************************************************)
EXTENDS Naturals, FiniteSets

CONSTANTS
    Requests,     \* requests under way at a time
    KeepCount,    \* revisions that purgeOld leaves (10 in the code)
    MaxContents, MaxRevisions  \* bounds

ASSUME PagesAssumption == {KeepCount, MaxContents} \subseteq Nat \ {0} /\ MaxRevisions \in Nat

Contents == 1..MaxContents
Statuses == {"draft", "published"}
Absent == [content |-> 0, status |-> "absent"]

VARIABLES
    row,        \* the translation: content and status; Absent before and after
    revisions,  \* its revisions, numbered in the order of their creation
    doc,        \* its document in the search index
    reqs,       \* per request: where it is, the translation it loaded, its inputs
    written,    \* contents given out so far
    made,       \* revisions created so far
    past,       \* history: contents that have been the page's
    excused,    \* history: contents overwritten by a request that was overtaken or failed
    purged,     \* history: contents whose revision was purged by the rule
    raced,      \* history: revisions pinned after a purge had selected them
    drift       \* history: the document may differ from the translation

vars == <<row, revisions, doc, reqs, written, made, past, excused, purged, raced, drift>>
history == <<past, excused, purged>>

Idle == [pc |-> "idle"]
Under(pcs) == {r \in Requests : reqs[r].pc \in pcs}

Init ==
    /\ row = Absent
    /\ revisions = {}
    /\ doc = Absent
    /\ reqs = [r \in Requests |-> Idle]
    /\ written = 0 /\ made = 0
    /\ past = {} /\ excused = {} /\ purged = {} /\ raced = {}
    /\ drift = FALSE

End(r) == reqs' = [reqs EXCEPT ![r] = Idle]

\* r goes on as q, and whoever else is under way has been overtaken by its write.
GoOvertaking(r, q) ==
    reqs' = [p \in Requests |->
               IF p = r THEN q
               ELSE IF reqs[p].pc = "idle" THEN Idle
               ELSE [reqs[p] EXCEPT !.late = TRUE]]

\* What is left of a column when a loaded value is saved as another.
Column(loaded, value, current) == IF loaded = value THEN current ELSE value

At(r, pc) == reqs[r].pc = pc
Edits == {"save", "restore", "apply"}

Page == [content : Contents, status : Statuses]

\* A request when n revisions have been created.
Request(n) ==
    {Idle}
    \cup [pc : {"index"}, copy : Page \cup {Absent}, late : BOOLEAN]
    \cup [pc : {"loaded", "purging", "commit"}, kind : Edits \cup {"publish", "delete"},
          seen : Page, copy : Page, mine : 0..n, selected : SUBSET (1..n), late : BOOLEAN]

\* What is stored and what the requests hold: a page has a content and a status or
\* is absent, and a revision is numbered by the sequence before anybody selects it
\* (Page, PageTranslation, PageRevision, saveRevision).
TypeOK ==
    /\ row \in Page \cup {Absent} /\ doc \in Page \cup {Absent}
    /\ made \in 0..MaxRevisions /\ written \in 0..MaxContents
    /\ revisions \subseteq [id : 1..made, content : Contents, keep : BOOLEAN]
    /\ reqs \in [Requests -> Request(made)]
    /\ raced \subseteq 1..made
    /\ past \subseteq Contents /\ excused \subseteq Contents /\ purged \subseteq Contents
    /\ drift \in BOOLEAN

-----------------------------------------------------------------------------
\* The requests arrive and load the translation.

Load(r, kind, content, status) ==
    /\ At(r, "idle") /\ row # Absent
    /\ reqs' = [reqs EXCEPT ![r] = [pc |-> "loaded", kind |-> kind, seen |-> row,
                                    copy |-> [content |-> content, status |-> status],
                                    mine |-> 0, selected |-> {}, late |-> FALSE]]
    /\ UNCHANGED <<row, revisions, doc, made, history, raced, drift>>

\* UpdatePageAction and ApplyToPageAction: new content, or, of a save, none.
LoadToSave(r, kind) ==
    \/ /\ written < MaxContents /\ written' = written + 1
       /\ Load(r, kind, written + 1, row.status)
    \/ /\ kind = "save" /\ UNCHANGED written
       /\ Load(r, kind, row.content, row.status)

\* RestoreRevisionAction
LoadToRestore(r, v) == Load(r, "restore", v.content, row.status) /\ UNCHANGED written

\* ChangePageStatusAction
LoadToPublish(r, status) == Load(r, "publish", row.content, status) /\ UNCHANGED written

\* DeletePageAction
LoadToDelete(r) == Load(r, "delete", row.content, row.status) /\ UNCHANGED written

\* CreatePageAction, CreateTranslationAction: a draft, and the document of it.
CreatePage(r) ==
    /\ At(r, "idle") /\ row = Absent /\ written = 0
    /\ written' = 1
    /\ row' = [content |-> 1, status |-> "draft"]
    /\ past' = {1}
    /\ GoOvertaking(r, [pc |-> "index", copy |-> row', late |-> FALSE])
    /\ UNCHANGED <<revisions, doc, made, excused, purged, raced, drift>>

-----------------------------------------------------------------------------
\* saveRevision and the save of the translation.

Newer(S, v) == {w \in S : w.id > v.id}

\* A deviation: the revisions to purge are chosen among the pinned ones, too.
SelectOldAndPinned(S) == {v.id : v \in {u \in S : Cardinality(Newer(S, u)) >= KeepCount}}

\* purgeOld: the unpinned revisions beyond the KeepCount newest.
SelectOld(S) ==
    LET unpinned == {v \in S : ~v.keep}
    IN {v.id : v \in {u \in unpinned : Cardinality(Newer(unpinned, u)) >= KeepCount}}

\* The loaded content becomes a revision, and purgeOld selects: in the request's
\* transaction, which refers to the translation and keeps it from being deleted.
SaveRevision(r) ==
    /\ At(r, "loaded") /\ reqs[r].kind \in Edits
    /\ row # Absent /\ made < MaxRevisions
    /\ made' = made + 1
    /\ LET mine == [id |-> made + 1, content |-> reqs[r].seen.content, keep |-> FALSE]
       IN reqs' = [reqs EXCEPT ![r].pc = "purging", ![r].mine = made + 1,
                               ![r].selected = SelectOld(revisions \cup {mine})]
    /\ UNCHANGED <<row, revisions, doc, written, history, raced, drift>>

\* The save of the translation: what it overwrites unseen is excused.
WriteContent(r) ==
    LET q == reqs[r]
        content == Column(q.seen.content, q.copy.content, row.content)
    IN /\ row' = [content |-> content, status |-> row.status]
       /\ past' = past \cup {content}

Unseen(r) ==
    IF reqs[r].late /\ row.content # reqs[r].seen.content /\ row'.content # row.content
      THEN {row.content} ELSE {}

\* The commit: the new revision is there, the selected ones are deleted by their
\* numbers, whether or not they have been pinned since.
CommitRevisions(r) ==
    LET q == reqs[r]
        kept == {v \in revisions : v.id \notin q.selected}
                   \cup {[id |-> q.mine, content |-> q.seen.content, keep |-> FALSE]}
    IN /\ revisions' = kept
       /\ purged' = purged \cup
            {v.content : v \in {u \in revisions \ kept :
                                  /\ Cardinality(Newer(kept, u)) >= KeepCount
                                  /\ ~u.keep \/ u.id \in raced}}

\* UpdatePageAction and ApplyToPageAction commit all at once. Only the former
\* goes on to the index.
CommitEdit(r) ==
    /\ At(r, "purging") /\ reqs[r].kind \in {"save", "apply"}
    /\ WriteContent(r) /\ CommitRevisions(r)
    /\ excused' = excused \cup Unseen(r)
    /\ LET q == reqs[r]
       IN IF q.kind = "save"
            THEN /\ GoOvertaking(r, [pc |-> "index", late |-> q.late, copy |-> q.copy])
                 /\ UNCHANGED drift
            ELSE GoOvertaking(r, Idle) /\ drift' = TRUE
    /\ UNCHANGED <<doc, written, made, raced>>

\* RestoreRevisionAction saves a translation that was loaded before the
\* transaction: everybody sees it before the revision is committed.
SaveRestored(r) ==
    /\ At(r, "purging") /\ reqs[r].kind = "restore"
    /\ WriteContent(r)
    /\ excused' = excused \cup Unseen(r)
    /\ GoOvertaking(r, [reqs[r] EXCEPT !.pc = "commit"])
    /\ UNCHANGED <<revisions, doc, written, made, purged, raced, drift>>

\* A deviation: the restored translation is not indexed.
CommitRestoredUnindexed(r) ==
    /\ At(r, "commit")
    /\ CommitRevisions(r)
    /\ End(r)
    /\ UNCHANGED <<row, doc, written, made, past, excused, raced, drift>>

CommitRestored(r) ==
    /\ At(r, "commit")
    /\ CommitRevisions(r)
    /\ reqs' = [reqs EXCEPT ![r] = [pc |-> "index", late |-> reqs[r].late, copy |-> reqs[r].copy]]
    /\ UNCHANGED <<row, doc, written, made, past, excused, raced, drift>>

\* ChangePageStatusAction: of a page that has been deleted it updates no row, and
\* goes on.
ChangePageStatus(r) ==
    /\ At(r, "loaded") /\ reqs[r].kind = "publish"
    /\ LET q == reqs[r]
       IN /\ row' = IF row = Absent THEN row
                    ELSE [content |-> row.content,
                          status |-> Column(q.seen.status, q.copy.status, row.status)]
          /\ GoOvertaking(r, [pc |-> "index", late |-> q.late, copy |-> q.copy])
    /\ UNCHANGED <<revisions, doc, written, made, history, raced, drift>>

\* DeletePageAction: translation and revisions go with the page, as soon as no
\* open transaction refers to the translation.
DeletePage(r) ==
    /\ At(r, "loaded") /\ reqs[r].kind = "delete"
    /\ row # Absent /\ Under({"purging", "commit"}) = {}
    /\ row' = Absent
    /\ revisions' = {}
    /\ GoOvertaking(r, [pc |-> "index", late |-> reqs[r].late, copy |-> Absent])
    /\ UNCHANGED <<doc, written, made, history, raced, drift>>

\* indexTranslation, removePage
Index(r) ==
    /\ At(r, "index")
    /\ doc' = reqs[r].copy
    /\ drift' = reqs[r].late
    /\ End(r)
    /\ UNCHANGED <<row, revisions, written, made, history, raced>>

\* The search backend fails, perhaps after it has written, and the request goes
\* on without it; or the process dies.
FailIndex(r) ==
    /\ At(r, "index")
    /\ doc' \in {doc, reqs[r].copy}
    /\ drift' = TRUE
    /\ End(r)
    /\ UNCHANGED <<row, revisions, written, made, history, raced>>

\* A slug is taken, a row is gone, the connection breaks: the transaction is
\* rolled back. What a restore has saved stays, without its revision.
Abort(r) ==
    /\ At(r, "loaded") \/ At(r, "purging") \/ At(r, "commit")
    /\ IF At(r, "commit")
         THEN /\ excused' = excused \cup {reqs[r].seen.content}
              /\ drift' = TRUE
         ELSE UNCHANGED <<excused, drift>>
    /\ End(r)
    /\ UNCHANGED <<row, revisions, doc, written, made, past, purged, raced>>

\* ToggleRevisionKeepAction; a revision whose delete is not committed is locked.
ToggleKeep(v) ==
    /\ \A r \in Under({"commit"}) : v.id \notin reqs[r].selected
    /\ revisions' = (revisions \ {v}) \cup {[id |-> v.id, content |-> v.content, keep |-> ~v.keep]}
    /\ raced' = IF \E r \in Under({"purging"}) : v.id \in reqs[r].selected
                  THEN raced \cup {v.id} ELSE raced
    /\ UNCHANGED <<row, doc, reqs, written, made, history, drift>>

-----------------------------------------------------------------------------
Next ==
    \/ \E r \in Requests :
          \/ CreatePage(r)
          \/ \E kind \in {"save", "apply"} : LoadToSave(r, kind)
          \/ \E v \in revisions : LoadToRestore(r, v)
          \/ \E status \in Statuses : LoadToPublish(r, status)
          \/ LoadToDelete(r)
          \/ SaveRevision(r) \/ CommitEdit(r) \/ SaveRestored(r) \/ CommitRestored(r)
          \/ ChangePageStatus(r) \/ DeletePage(r)
          \/ Index(r) \/ FailIndex(r) \/ Abort(r)
    \/ \E v \in revisions : ToggleKeep(v)

Spec == Init /\ [][Next]_vars

-----------------------------------------------------------------------------
\* What was once the page's content can be restored: it is the page's, or in a
\* revision (that may be about to be committed), or its revision was neither pinned
\* nor among the newest KeepCount when it was purged. Not so when the save that
\* replaced it had loaded the page before it was written, when a restore replaced it
\* whose transaction failed, or when its revision was pinned after the purge had
\* selected it (saveRevision, purgeOld, RestoreRevisionAction).
OverwrittenIsKept ==
    row # Absent =>
        \A c \in past :
            \/ c = row.content \/ c \in excused \/ c \in purged
            \/ \E v \in revisions : v.content = c
            \/ \E r \in Under({"commit"}) : reqs[r].seen.content = c

\* When nothing is under way the search document is that of the translation, and
\* there is none of a deleted page; unless the last write of the index failed or
\* came from a request that another one had overtaken, or a template was applied,
\* which is not indexed at all (indexTranslation, removePage).
IndexIsCurrent ==
    (\A r \in Requests : At(r, "idle")) => drift \/ doc = row
=============================================================================
