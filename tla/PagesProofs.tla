---------------------------- MODULE PagesProofs ----------------------------
(***************************************************************************)
(* Proofs about Pages: its type invariant, that what was overwritten can be *)
(* restored, and that the search document of a page at rest is the page's. *)
(***************************************************************************)
EXTENDS Pages, FiniteSetTheorems, TLAPS

-----------------------------------------------------------------------------
\* The inductive invariant.

Ids(S) == {v.id : v \in S}
Saving == {"purging", "commit"}

\* A request that nobody has overtaken holds what is stored, an edit leaves the
\* status alone and a publication the content, and a transaction keeps its page.
ReadInv ==
    /\ \A r \in Under({"loaded", "purging"}) :
          /\ ~reqs[r].late => row = reqs[r].seen
          /\ reqs[r].kind \in Edits => reqs[r].copy.status = reqs[r].seen.status
          /\ reqs[r].kind = "publish" => reqs[r].copy.content = reqs[r].seen.content
    /\ Under(Saving) # {} => row # Absent

\* What goes to the index is the page, unless its request has been overtaken, and
\* until then somebody is on the way.
IndexInv ==
    /\ \A r \in Under({"index", "commit"}) : ~reqs[r].late => reqs[r].copy = row
    /\ drift \/ doc = row \/ Under({"index", "commit"}) # {}

Above(r, h) == {i \in Ids(revisions) \cup {reqs[r].mine} : i > h}

\* What a transaction has selected lies below a horizon, above which KeepCount
\* revisions are left when it commits, whatever the others commit before.
HasHorizon(r) ==
    reqs[r].selected # {} =>
        \E h \in 0..made : /\ \A i \in reqs[r].selected : i <= h
                           /\ KeepCount <= Cardinality(Above(r, h))

\* And it is not pinned, unless it was pinned since.
NotPinned(r) ==
    \A v \in revisions : v.id \in reqs[r].selected => ~v.keep \/ v.id \in raced

RevisionInv ==
    /\ IsFiniteSet(revisions)
    /\ \A v, w \in revisions : v.id = w.id => v = w
    /\ \A r \in Under(Saving) : reqs[r].mine \in (1..made) \ Ids(revisions)
    /\ \A r, s \in Under(Saving) : reqs[r].mine = reqs[s].mine => r = s
    /\ \A r \in Under(Saving) : HasHorizon(r) /\ NotPinned(r)

Inv == TypeOK /\ ReadInv /\ IndexInv /\ RevisionInv /\ OverwrittenIsKept

-----------------------------------------------------------------------------
\* What the steps have in common.

Holding == {"loaded", "purging", "commit"}

\* A request that does not take the step stays where it is, with what it holds.
Stays(p) ==
    /\ reqs'[p].pc = reqs[p].pc
    /\ reqs[p].pc # "idle" => reqs'[p].copy = reqs[p].copy
    /\ reqs[p].pc \in Holding =>
          /\ reqs'[p].kind = reqs[p].kind /\ reqs'[p].seen = reqs[p].seen
          /\ reqs'[p].mine = reqs[p].mine /\ reqs'[p].selected = reqs[p].selected

\* A request of a kind that holds something has the fields of its kind.
LEMMA RequestFields ==
    ASSUME NEW n \in Nat, NEW q \in Request(n)
    PROVE  /\ q.pc \in {"idle", "index"} \cup Holding
           /\ q.pc = "idle" => q = Idle
           /\ q.pc = "index" => q.copy \in Page \cup {Absent} /\ q.late \in BOOLEAN
           /\ q.pc \in Holding =>
                 /\ q.kind \in Edits \cup {"publish", "delete"}
                 /\ q.seen \in Page /\ q.copy \in Page
                 /\ q.mine \in 0..n /\ q.selected \in SUBSET (1..n) /\ q.late \in BOOLEAN
  BY DEF Request, Idle, Holding

\* What was a request remains one when more revisions are created, and when it is overtaken.
LEMMA RequestGrows ==
    ASSUME NEW n \in Nat, NEW m \in Nat, n <= m
    PROVE  Request(n) \subseteq Request(m)
<1>1. 0..n \subseteq 0..m /\ SUBSET (1..n) \subseteq SUBSET (1..m)
  OBVIOUS
<1>. QED
  BY <1>1 DEF Request

LEMMA RequestOvertaken ==
    ASSUME NEW n \in Nat, NEW q \in Request(n), q.pc # "idle"
    PROVE  /\ [q EXCEPT !.late = TRUE] \in Request(n)
           /\ [q EXCEPT !.late = TRUE].late
           /\ [q EXCEPT !.late = TRUE].pc = q.pc
           /\ [q EXCEPT !.late = TRUE].copy = q.copy
           /\ q.pc \in Holding =>
                 /\ [q EXCEPT !.late = TRUE].kind = q.kind
                 /\ [q EXCEPT !.late = TRUE].seen = q.seen
                 /\ [q EXCEPT !.late = TRUE].mine = q.mine
                 /\ [q EXCEPT !.late = TRUE].selected = q.selected
<1>1. CASE q \in [pc : {"index"}, copy : Page \cup {Absent}, late : BOOLEAN]
  <2>1. [q EXCEPT !.late = TRUE] \in [pc : {"index"}, copy : Page \cup {Absent}, late : BOOLEAN]
    BY <1>1
  <2>. QED
    BY <1>1, <2>1 DEF Request, Holding
<1>2. CASE q \in [pc : {"loaded", "purging", "commit"}, kind : Edits \cup {"publish", "delete"},
                  seen : Page, copy : Page, mine : 0..n, selected : SUBSET (1..n), late : BOOLEAN]
  <2>1. [q EXCEPT !.late = TRUE]
          \in [pc : {"loaded", "purging", "commit"}, kind : Edits \cup {"publish", "delete"},
              seen : Page, copy : Page, mine : 0..n, selected : SUBSET (1..n), late : BOOLEAN]
    BY <1>2
  <2>. QED
    BY <1>2, <2>1 DEF Request
<1>3. q # Idle
  BY DEF Idle
<1>. QED
  BY <1>1, <1>2, <1>3 DEF Request

\* One request takes the step, and the others are as they were.
LEMMA OneGoes ==
    ASSUME TypeOK, NEW r \in Requests, NEW q \in Request(made),
           reqs' = [reqs EXCEPT ![r] = q]
    PROVE  /\ reqs' \in [Requests -> Request(made)]
           /\ reqs'[r] = q
           /\ \A p \in Requests \ {r} : reqs'[p] = reqs[p] /\ Stays(p)
<1>1. reqs \in [Requests -> Request(made)]
  BY DEF TypeOK
<1>. QED
  BY <1>1 DEF Stays

\* Or all others are overtaken.
LEMMA OneOvertakes ==
    ASSUME TypeOK, NEW r \in Requests, NEW q \in Request(made), GoOvertaking(r, q)
    PROVE  /\ reqs' \in [Requests -> Request(made)]
           /\ reqs'[r] = q
           /\ \A p \in Requests \ {r} : Stays(p) /\ (reqs'[p].pc # "idle" => reqs'[p].late)
<1>1. made \in Nat /\ \A p \in Requests : reqs[p] \in Request(made)
  BY DEF TypeOK
<1>2. Idle \in Request(made)
  BY DEF Request
<1>3. reqs'[r] = q
  BY DEF GoOvertaking
<1>4. ASSUME NEW p \in Requests \ {r}
      PROVE  reqs'[p] \in Request(made) /\ Stays(p) /\ (reqs'[p].pc # "idle" => reqs'[p].late)
  <2>1. CASE reqs[p].pc = "idle"
    <3>1. reqs'[p] = Idle /\ reqs[p] = Idle
      BY <1>1, <2>1, RequestFields DEF GoOvertaking
    <3>. QED
      BY <1>2, <2>1, <3>1 DEF Stays, Holding, Idle
  <2>2. CASE reqs[p].pc # "idle"
    <3>1. reqs'[p] = [reqs[p] EXCEPT !.late = TRUE]
      BY <2>2 DEF GoOvertaking
    <3>. HIDE DEF Holding
    <3>. QED
      BY <1>1, <2>2, <3>1, RequestOvertaken DEF Stays
  <2>. QED
    BY <2>1, <2>2
<1>5. reqs' = [p \in Requests |-> reqs'[p]]
  BY DEF GoOvertaking
<1>. QED
  BY <1>3, <1>4, <1>5

\* Apart from r, a request that has not been overtaken sees the same page.
Goes(r) ==
    \A p \in Requests \ {r} :
        /\ Stays(p)
        /\ reqs'[p].pc # "idle" => reqs'[p].late \/ (reqs'[p].late = reqs[p].late /\ row' = row)

\* Where the requests are after each step, and that they are requests.
LEMMA LoadStep ==
    ASSUME TypeOK, NEW r \in Requests, NEW kind \in Edits \cup {"publish", "delete"},
           NEW content \in Contents, NEW status \in Statuses, Load(r, kind, content, status)
    PROVE  /\ reqs' \in [Requests -> Request(made)] /\ Goes(r)
           /\ reqs'[r].pc = "loaded" /\ reqs'[r].kind = kind /\ reqs'[r].seen = row
           /\ reqs'[r].copy.content = content /\ reqs'[r].copy.status = status
<1>. DEFINE q == [pc |-> "loaded", kind |-> kind, seen |-> row,
                  copy |-> [content |-> content, status |-> status],
                  mine |-> 0, selected |-> {}, late |-> FALSE]
<1>1. q \in Request(made)
  <2>1. row \in Page /\ 0 \in 0..made /\ [content |-> content, status |-> status] \in Page
    BY DEF TypeOK, Load, Page
  <2>. QED
    BY <2>1 DEF Request
<1>2. reqs' = [reqs EXCEPT ![r] = q] /\ row' = row
  BY DEF Load
<1>3. q.pc = "loaded" /\ q.kind = kind /\ q.seen = row
      /\ q.copy.content = content /\ q.copy.status = status
  OBVIOUS
<1>. HIDE DEF q
<1>4. /\ reqs' \in [Requests -> Request(made)] /\ reqs'[r] = q
      /\ \A p \in Requests \ {r} : reqs'[p] = reqs[p] /\ Stays(p)
  BY <1>1, <1>2, OneGoes
<1>. QED
  BY <1>2, <1>3, <1>4 DEF Goes

LEMMA EndStep ==
    ASSUME TypeOK, NEW r \in Requests, End(r), row' = row
    PROVE  reqs' \in [Requests -> Request(made)] /\ Goes(r) /\ reqs'[r].pc = "idle"
<1>1. Idle \in Request(made) /\ Idle.pc = "idle"
  BY DEF Request, Idle
<1>2. /\ reqs' \in [Requests -> Request(made)] /\ reqs'[r] = Idle
      /\ \A p \in Requests \ {r} : reqs'[p] = reqs[p] /\ Stays(p)
  BY <1>1, OneGoes DEF End
<1>. QED
  BY <1>1, <1>2 DEF Goes

\* On the way to the index with the page as the request has it.
LEMMA IndexNext ==
    ASSUME TypeOK, NEW r \in Requests, NEW copy \in Page \cup {Absent}, NEW late \in BOOLEAN,
           LET q == [pc |-> "index", copy |-> copy, late |-> late]
           IN GoOvertaking(r, q) \/ (reqs' = [reqs EXCEPT ![r] = q] /\ row' = row)
    PROVE  /\ reqs' \in [Requests -> Request(made)] /\ Goes(r)
           /\ reqs'[r].pc = "index" /\ reqs'[r].copy = copy /\ reqs'[r].late = late
<1>. DEFINE q == [pc |-> "index", copy |-> copy, late |-> late]
<1>1. q \in Request(made)
  BY DEF Request
<1>2. q.pc = "index" /\ q.copy = copy /\ q.late = late
  OBVIOUS
<1>3. GoOvertaking(r, q) \/ (reqs' = [reqs EXCEPT ![r] = q] /\ row' = row)
  OBVIOUS
<1>. HIDE DEF q
<1>4. CASE GoOvertaking(r, q)
  BY <1>1, <1>2, <1>4, OneOvertakes DEF Goes
<1>5. CASE reqs' = [reqs EXCEPT ![r] = q] /\ row' = row
  BY <1>1, <1>2, <1>5, OneGoes DEF Goes
<1>. QED
  BY <1>3, <1>4, <1>5

\* What a transaction writes and selects.
Mine(r) == [id |-> made + 1, content |-> reqs[r].seen.content, keep |-> FALSE]

LEMMA SaveRevisionStep ==
    ASSUME TypeOK, NEW r \in Requests, SaveRevision(r)
    PROVE  /\ made' = made + 1 /\ made' \in 0..MaxRevisions
           /\ reqs' \in [Requests -> Request(made')] /\ Goes(r)
           /\ reqs'[r].pc = "purging" /\ reqs'[r].kind = reqs[r].kind
           /\ reqs'[r].seen = reqs[r].seen /\ reqs'[r].copy = reqs[r].copy
           /\ reqs'[r].late = reqs[r].late
           /\ reqs'[r].mine = made + 1
           /\ reqs'[r].selected = SelectOld(revisions \cup {Mine(r)})
           /\ reqs[r].seen \in Page
<1>. DEFINE L(n) == [pc : {"loaded", "purging", "commit"}, kind : Edits \cup {"publish", "delete"},
                     seen : Page, copy : Page, mine : 0..n, selected : SUBSET (1..n), late : BOOLEAN]
            sel == SelectOld(revisions \cup {Mine(r)})
            q == [reqs[r] EXCEPT !.pc = "purging", !.mine = made + 1, !.selected = sel]
<1>1. /\ made \in Nat /\ made' = made + 1 /\ made' \in 0..MaxRevisions
      /\ MaxRevisions \in Nat /\ row' = row
  BY PagesAssumption DEF TypeOK, SaveRevision
<1>2. reqs[r] \in L(made)
  <2>1. reqs[r] \in Request(made) /\ reqs[r].pc = "loaded"
    BY DEF TypeOK, SaveRevision, At
  <2>. QED
    BY <2>1 DEF Request, Idle
<1>3. sel \in SUBSET (1..made')
  <2>1. \A v \in revisions \cup {Mine(r)} : v.id \in 1..made'
    BY <1>1 DEF TypeOK, Mine
  <2>. QED
    BY <2>1 DEF SelectOld
<1>. HIDE DEF sel
<1>4. q \in L(made')
  <2>1. reqs[r] \in L(made')
    BY <1>1, <1>2
  <2>2. made + 1 \in 0..made'
    BY <1>1
  <2>. QED
    BY <1>3, <2>1, <2>2
<1>5. reqs' = [reqs EXCEPT ![r] = q]
  BY DEF SaveRevision, sel, Mine
<1>6. /\ q.pc = "purging" /\ q.mine = made + 1 /\ q.selected = sel
      /\ q.kind = reqs[r].kind /\ q.seen = reqs[r].seen
      /\ q.copy = reqs[r].copy /\ q.late = reqs[r].late /\ reqs[r].seen \in Page
  BY <1>2
<1>7. q \in Request(made')
  BY <1>4 DEF Request
<1>. HIDE DEF q, L
<1>8. reqs \in [Requests -> Request(made')]
  BY <1>1, RequestGrows DEF TypeOK
<1>9. /\ reqs' \in [Requests -> Request(made')] /\ reqs'[r] = q
      /\ \A p \in Requests \ {r} : reqs'[p] = reqs[p]
  BY <1>5, <1>7, <1>8
<1>10. Goes(r)
  BY <1>1, <1>9 DEF Goes, Stays
<1>. QED
  BY <1>1, <1>6, <1>9, <1>10 DEF sel

LEMMA SaveRestoredStep ==
    ASSUME TypeOK, NEW r \in Requests, SaveRestored(r)
    PROVE  /\ reqs' \in [Requests -> Request(made)] /\ Goes(r)
           /\ reqs'[r].pc = "commit"
           /\ reqs'[r].seen = reqs[r].seen /\ reqs'[r].copy = reqs[r].copy
           /\ reqs'[r].late = reqs[r].late
           /\ reqs'[r].mine = reqs[r].mine /\ reqs'[r].selected = reqs[r].selected
<1>. DEFINE L == [pc : {"loaded", "purging", "commit"}, kind : Edits \cup {"publish", "delete"},
                  seen : Page, copy : Page, mine : 0..made, selected : SUBSET (1..made), late : BOOLEAN]
            q == [reqs[r] EXCEPT !.pc = "commit"]
<1>1. reqs[r] \in L
  <2>1. reqs[r] \in Request(made) /\ reqs[r].pc = "purging"
    BY DEF TypeOK, SaveRestored, At
  <2>. QED
    BY <2>1 DEF Request, Idle
<1>2. /\ q \in L /\ q.pc = "commit" /\ q.mine = reqs[r].mine /\ q.selected = reqs[r].selected
      /\ q.seen = reqs[r].seen /\ q.copy = reqs[r].copy /\ q.late = reqs[r].late
  BY <1>1
<1>3. q \in Request(made)
  BY <1>2 DEF Request
<1>4. GoOvertaking(r, q)
  BY DEF SaveRestored
<1>. HIDE DEF q, L
<1>. QED
  BY <1>2, <1>3, <1>4, OneOvertakes DEF Goes

\* A column that is saved is one of those that it was made from.
LEMMA ContentWritten ==
    ASSUME TypeOK, NEW r \in Requests, reqs[r].pc \in Holding, row # Absent, WriteContent(r)
    PROVE  /\ row' \in Page /\ row'.status = row.status
           /\ row'.content = Column(reqs[r].seen.content, reqs[r].copy.content, row.content)
           /\ past' = past \cup {row'.content}
           /\ row \in Page /\ reqs[r].seen \in Page /\ reqs[r].copy \in Page
<1>1. row \in Page /\ reqs[r].seen \in Page /\ reqs[r].copy \in Page
  BY RequestFields DEF TypeOK
<1>2. Column(reqs[r].seen.content, reqs[r].copy.content, row.content) \in Contents
  BY <1>1 DEF Column, Page
<1>. QED
  BY <1>1, <1>2 DEF WriteContent, Page

-----------------------------------------------------------------------------
\* Type correctness.

LEMMA CommitType ==
    ASSUME TypeOK, RevisionInv, NEW r \in Under(Saving), CommitRevisions(r)
    PROVE  /\ revisions' \subseteq [id : 1..made, content : Contents, keep : BOOLEAN]
           /\ purged' \subseteq Contents
<1>1. reqs[r].seen.content \in Contents /\ reqs[r].mine \in 1..made
  <2>1. r \in Requests /\ reqs[r] \in Request(made) /\ reqs[r].pc \in Holding /\ made \in Nat
    BY DEF TypeOK, Under, Saving, Holding
  <2>2. reqs[r].seen \in Page
    BY <2>1, RequestFields
  <2>. QED
    BY <2>2 DEF Page, RevisionInv
<1>2. \A v \in revisions : v \in [id : 1..made, content : Contents, keep : BOOLEAN]
  BY DEF TypeOK
<1>3. [id |-> reqs[r].mine, content |-> reqs[r].seen.content, keep |-> FALSE]
        \in [id : 1..made, content : Contents, keep : BOOLEAN]
  BY <1>1
<1>4. revisions' \subseteq [id : 1..made, content : Contents, keep : BOOLEAN]
  BY <1>2, <1>3 DEF CommitRevisions
<1>5. \A c \in purged' : c \in purged \/ \E v \in revisions : c = v.content
  BY DEF CommitRevisions
<1>. QED
  BY <1>2, <1>4, <1>5 DEF TypeOK

LEMMA NextType ==
    ASSUME TypeOK, ReadInv, RevisionInv, [Next]_vars
    PROVE  TypeOK'
<1>. USE DEF history
<1>1. made \in Nat /\ \A r \in Requests : reqs[r] \in Request(made)
  BY DEF TypeOK
<1>2. ASSUME NEW r \in Requests, NEW kind \in Edits \cup {"publish", "delete"},
             NEW content \in Contents, NEW status \in Statuses, Load(r, kind, content, status),
             written' \in 0..MaxContents
      PROVE  TypeOK'
  <2>1. reqs' \in [Requests -> Request(made)]
    BY <1>2, LoadStep
  <2>. QED
    BY <1>2, <2>1 DEF Load, TypeOK
<1>3. ASSUME row # Absent PROVE row.content \in Contents /\ row.status \in Statuses
  BY <1>3 DEF TypeOK, Page
<1>4. ASSUME NEW r \in Requests, CreatePage(r) PROVE TypeOK'
  <2>1. 1 \in Contents /\ written' \in 0..MaxContents
    BY <1>4, PagesAssumption DEF CreatePage, Contents, TypeOK
  <2>2. row' \in Page
    BY <1>4, <2>1 DEF CreatePage, Page, Statuses
  <2>3. reqs' \in [Requests -> Request(made)]
    BY <1>4, <2>2, IndexNext DEF CreatePage
  <2>. QED
    BY <1>4, <2>1, <2>2, <2>3 DEF CreatePage, TypeOK
<1>5. ASSUME NEW r \in Requests, SaveRevision(r) PROVE TypeOK'
  <2>1. made' = made + 1 /\ made' \in 0..MaxRevisions /\ reqs' \in [Requests -> Request(made')]
    BY <1>5, SaveRevisionStep
  <2>2. 1..made \subseteq 1..made'
    BY <1>1, <2>1
  <2>3. /\ revisions' \subseteq [id : 1..made', content : Contents, keep : BOOLEAN]
        /\ raced' \subseteq 1..made'
    BY <1>5, <2>2 DEF SaveRevision, TypeOK
  <2>. QED
    BY <1>5, <2>1, <2>3 DEF SaveRevision, TypeOK
<1>6. ASSUME NEW r \in Requests, CommitEdit(r) PROVE TypeOK'
  <2>1. r \in Under(Saving) /\ reqs[r].pc \in Holding /\ row # Absent
    BY <1>6 DEF CommitEdit, At, Under, Saving, Holding, ReadInv
  <2>2. row' \in Page /\ row'.content \in Contents /\ past' = past \cup {row'.content}
    BY <1>6, <2>1, ContentWritten DEF CommitEdit, Page
  <2>3. /\ revisions' \subseteq [id : 1..made, content : Contents, keep : BOOLEAN]
        /\ purged' \subseteq Contents
    BY <1>6, <2>1, CommitType DEF CommitEdit
  <2>4. excused' \subseteq Contents
    BY <1>3, <1>6, <2>1 DEF CommitEdit, Unseen, TypeOK
  <2>5. reqs[r].copy \in Page \cup {Absent} /\ reqs[r].late \in BOOLEAN
    BY <1>1, <2>1, RequestFields
  <2>6. reqs' \in [Requests -> Request(made)] /\ drift' \in BOOLEAN
    <3>1. CASE reqs[r].kind = "save"
      BY <1>6, <2>5, <3>1, IndexNext DEF CommitEdit, TypeOK
    <3>2. CASE reqs[r].kind # "save"
      BY <1>6, <3>2, OneOvertakes DEF CommitEdit, Request
    <3>. QED
      BY <3>1, <3>2
  <2>. QED
    BY <1>6, <2>2, <2>3, <2>4, <2>6 DEF CommitEdit, TypeOK
<1>7. ASSUME NEW r \in Requests, SaveRestored(r) PROVE TypeOK'
  <2>1. reqs[r].pc \in Holding /\ row # Absent
    BY <1>7 DEF SaveRestored, At, Under, Saving, Holding, ReadInv
  <2>2. row' \in Page /\ row'.content \in Contents /\ past' = past \cup {row'.content}
    BY <1>7, <2>1, ContentWritten DEF SaveRestored, Page
  <2>3. excused' \subseteq Contents
    BY <1>3, <1>7, <2>1 DEF SaveRestored, Unseen, TypeOK
  <2>4. reqs' \in [Requests -> Request(made)]
    BY <1>7, SaveRestoredStep
  <2>. QED
    BY <1>7, <2>2, <2>3, <2>4 DEF SaveRestored, TypeOK
<1>8. ASSUME NEW r \in Requests, CommitRestored(r) PROVE TypeOK'
  <2>1. r \in Under(Saving) /\ reqs[r].pc \in Holding
    BY <1>8 DEF CommitRestored, At, Under, Saving, Holding
  <2>2. /\ revisions' \subseteq [id : 1..made, content : Contents, keep : BOOLEAN]
        /\ purged' \subseteq Contents
    BY <1>8, <2>1, CommitType DEF CommitRestored
  <2>3. reqs[r].copy \in Page \cup {Absent} /\ reqs[r].late \in BOOLEAN
    BY <1>1, <2>1, RequestFields
  <2>4. reqs' \in [Requests -> Request(made)]
    BY <1>8, <2>3, IndexNext DEF CommitRestored
  <2>. QED
    BY <1>8, <2>2, <2>4 DEF CommitRestored, TypeOK
<1>9. ASSUME NEW r \in Requests, ChangePageStatus(r) PROVE TypeOK'
  <2>1. reqs[r].copy \in Page /\ reqs[r].late \in BOOLEAN
    BY <1>1, <1>9, RequestFields DEF ChangePageStatus, At, Holding
  <2>2. reqs' \in [Requests -> Request(made)]
    BY <1>9, <2>1, IndexNext DEF ChangePageStatus
  <2>3. row' \in Page \cup {Absent}
    BY <1>3, <1>9, <2>1 DEF ChangePageStatus, Column, Page
  <2>. QED
    BY <1>9, <2>2, <2>3 DEF ChangePageStatus, TypeOK
<1>10. ASSUME NEW r \in Requests, DeletePage(r) PROVE TypeOK'
  <2>1. reqs[r].late \in BOOLEAN
    BY <1>1, <1>10, RequestFields DEF DeletePage, At, Holding
  <2>2. reqs' \in [Requests -> Request(made)]
    BY <1>10, <2>1, IndexNext DEF DeletePage
  <2>. QED
    BY <1>10, <2>2 DEF DeletePage, TypeOK
<1>11. ASSUME NEW r \in Requests, Index(r) \/ FailIndex(r) PROVE TypeOK'
  <2>1. reqs[r].copy \in Page \cup {Absent} /\ reqs[r].late \in BOOLEAN
    BY <1>1, <1>11, RequestFields DEF Index, FailIndex, At
  <2>2. reqs' \in [Requests -> Request(made)]
    BY <1>11, EndStep DEF Index, FailIndex
  <2>. QED
    BY <1>11, <2>1, <2>2 DEF Index, FailIndex, TypeOK
<1>12. ASSUME NEW r \in Requests, Abort(r) PROVE TypeOK'
  <2>1. reqs[r].seen \in Page
    BY <1>1, <1>12, RequestFields DEF Abort, At, Holding
  <2>2. reqs' \in [Requests -> Request(made)]
    BY <1>12, EndStep DEF Abort
  <2>. QED
    BY <1>12, <2>1, <2>2 DEF Abort, Page, TypeOK
<1>13. ASSUME NEW v \in revisions, ToggleKeep(v) PROVE TypeOK'
  <2>1. [id |-> v.id, content |-> v.content, keep |-> ~v.keep]
           \in [id : 1..made, content : Contents, keep : BOOLEAN] /\ v.id \in 1..made
    BY DEF TypeOK
  <2>. QED
    BY <1>13, <2>1 DEF ToggleKeep, TypeOK
<1>14. ASSUME NEW r \in Requests, NEW kind \in {"save", "apply"}, LoadToSave(r, kind)
       PROVE  TypeOK'
  <2>1. kind \in Edits \cup {"publish", "delete"} /\ row # Absent
    BY <1>14 DEF Edits, LoadToSave, Load
  <2>2. CASE written < MaxContents /\ written' = written + 1 /\ Load(r, kind, written + 1, row.status)
    <3>1. written + 1 \in Contents /\ written' \in 0..MaxContents
      BY <2>2, PagesAssumption DEF TypeOK, Contents
    <3>. QED
      BY <1>2, <1>3, <2>1, <2>2, <3>1
  <2>3. CASE UNCHANGED written /\ Load(r, kind, row.content, row.status)
    BY <1>2, <1>3, <2>1, <2>3 DEF TypeOK
  <2>. QED
    BY <1>14, <2>2, <2>3 DEF LoadToSave
<1>15. ASSUME NEW r \in Requests,
              \/ \E v \in revisions : LoadToRestore(r, v)
              \/ \E status \in Statuses : LoadToPublish(r, status)
              \/ LoadToDelete(r)
       PROVE  TypeOK'
  <2>1. row # Absent /\ written' \in 0..MaxContents
    BY <1>15 DEF LoadToRestore, LoadToPublish, LoadToDelete, Load, TypeOK
  <2>2. \A v \in revisions : v.content \in Contents
    BY DEF TypeOK
  <2>. QED
    BY <1>2, <1>3, <1>15, <2>1, <2>2 DEF LoadToRestore, LoadToPublish, LoadToDelete, Edits
<1>16. CASE UNCHANGED vars
  BY <1>16 DEF vars, TypeOK
<1>. QED
  BY <1>4, <1>5, <1>6, <1>7, <1>8, <1>9, <1>10, <1>11, <1>12, <1>13, <1>14, <1>15, <1>16 DEF Next

-----------------------------------------------------------------------------
\* The requests and what is stored.

\* An edit that has not been overtaken leaves the page as its own copy has it.
Fresh(r) ==
    /\ ~reqs[r].late => row = reqs[r].seen
    /\ reqs[r].kind \in Edits => reqs[r].copy.status = reqs[r].seen.status
    /\ reqs[r].kind = "publish" => reqs[r].copy.content = reqs[r].seen.content

LEMMA OthersRead ==
    ASSUME TypeOK, ReadInv, NEW r \in Requests, Goes(r),
           row = Absent \/ row' # Absent \/ Under(Saving) = {},
           reqs'[r].pc \in Saving => row' # Absent,
           reqs'[r].pc \in {"loaded", "purging"} => Fresh(r)'
    PROVE  ReadInv'
<1>1. ASSUME NEW p \in Requests, reqs'[p].pc \in {"loaded", "purging"}
      PROVE  Fresh(p)'
  <2>1. CASE p # r
    <3>1. Fresh(p) /\ Stays(p) /\ reqs[p].pc \in {"loaded", "purging"}
      BY <1>1, <2>1 DEF Goes, Stays, ReadInv, Under, Fresh
    <3>2. reqs'[p].late \/ (reqs'[p].late = reqs[p].late /\ row' = row)
      BY <1>1, <2>1 DEF Goes
    <3>. QED
      BY <3>1, <3>2 DEF Fresh, Stays, Holding
  <2>. QED
    BY <1>1, <2>1
<1>2. ASSUME NEW p \in Requests, reqs'[p].pc \in Saving
      PROVE  row' # Absent
  <2>1. CASE p # r
    <3>1. reqs[p].pc \in Saving
      BY <1>2, <2>1 DEF Goes, Stays
    <3>. QED
      BY <3>1 DEF ReadInv, Under
  <2>. QED
    BY <1>2, <2>1
<1>. QED
  BY <1>1, <1>2 DEF ReadInv, Under, Fresh

LEMMA OthersIndex ==
    ASSUME TypeOK, IndexInv, NEW r \in Requests, Goes(r),
           reqs'[r].pc \in {"index", "commit"} /\ ~reqs'[r].late => reqs'[r].copy = row',
           \/ drift' \/ doc' = row' \/ reqs'[r].pc \in {"index", "commit"}
           \/ UNCHANGED <<drift, doc, row>> /\ reqs[r].pc \notin {"index", "commit"}
    PROVE  IndexInv'
<1>1. ASSUME NEW p \in Requests, reqs'[p].pc \in {"index", "commit"}, ~reqs'[p].late
      PROVE  reqs'[p].copy = row'
  <2>1. CASE p # r
    <3>1. Stays(p) /\ reqs'[p].late = reqs[p].late /\ row' = row
      BY <1>1, <2>1 DEF Goes
    <3>. QED
      BY <1>1, <3>1 DEF IndexInv, Under, Stays
  <2>. QED
    BY <1>1, <2>1
<1>2. drift' \/ doc' = row' \/ \E p \in Requests : reqs'[p].pc \in {"index", "commit"}
  <2>1. CASE UNCHANGED <<drift, doc, row>> /\ reqs[r].pc \notin {"index", "commit"}
    <3>1. ASSUME NEW p \in Under({"index", "commit"})
          PROVE  reqs'[p].pc \in {"index", "commit"}
      BY <2>1 DEF Under, Goes, Stays
    <3>. QED
      BY <2>1, <3>1 DEF IndexInv, Under
  <2>. QED
    BY <2>1
<1>. QED
  BY <1>1, <1>2 DEF IndexInv, Under

\* A load sees what is stored.
LEMMA LoadReads ==
    ASSUME TypeOK, ReadInv, IndexInv, NEW r \in Requests,
           NEW kind \in Edits \cup {"publish", "delete"},
           NEW content \in Contents, NEW status \in Statuses, Load(r, kind, content, status),
           kind \in Edits => status = row.status,
           kind = "publish" => content = row.content
    PROVE  ReadInv' /\ IndexInv'
<1>1. /\ Goes(r) /\ reqs'[r].pc = "loaded" /\ reqs'[r].kind = kind /\ reqs'[r].seen = row
      /\ reqs'[r].copy.content = content /\ reqs'[r].copy.status = status
  BY LoadStep
<1>2. UNCHANGED <<row, doc, drift>> /\ reqs[r].pc = "idle" /\ row # Absent
  BY DEF Load, At
<1>3. Fresh(r)'
  BY <1>1, <1>2 DEF Fresh
<1>4. ReadInv'
  BY <1>1, <1>2, <1>3, OthersRead
<1>5. IndexInv'
  BY <1>1, <1>2, OthersIndex
<1>. QED
  BY <1>4, <1>5

\* What an edit or a restore writes is its own copy, if nobody has overtaken it.
LEMMA CopyWritten ==
    ASSUME TypeOK, ReadInv, NEW r \in Requests, At(r, "purging"), reqs[r].kind \in Edits,
           WriteContent(r), ~reqs[r].late
    PROVE  row' = reqs[r].copy
<1>1. row # Absent /\ row = reqs[r].seen /\ reqs[r].copy.status = reqs[r].seen.status
  BY DEF ReadInv, Under, At, Saving
<1>2. /\ row \in Page /\ row' \in Page /\ reqs[r].copy \in Page /\ row'.status = row.status
      /\ row'.content = Column(reqs[r].seen.content, reqs[r].copy.content, row.content)
  BY <1>1, ContentWritten DEF At, Holding
<1>. QED
  BY <1>1, <1>2 DEF Column, Page

LEMMA NextReads ==
    ASSUME TypeOK, ReadInv, IndexInv, [Next]_vars
    PROVE  ReadInv' /\ IndexInv'
<1>1. \A r \in Requests : reqs[r] \in Request(made)
  BY DEF TypeOK
<1>2. made \in Nat
  BY DEF TypeOK
<1>3. row # Absent => row \in Page /\ row.content \in Contents /\ row.status \in Statuses
  BY DEF TypeOK, Page
<1>4. ASSUME NEW r \in Requests, CreatePage(r) PROVE ReadInv' /\ IndexInv'
  <2>1. 1 \in Contents /\ row' \in Page /\ row' # Absent
    BY <1>4, PagesAssumption DEF CreatePage, Contents, Page, Statuses, Absent
  <2>2. Goes(r) /\ reqs'[r].pc = "index" /\ reqs'[r].copy = row'
    BY <1>4, <2>1, IndexNext DEF CreatePage
  <2>3. ReadInv'
    BY <2>1, <2>2, OthersRead DEF Saving
  <2>4. IndexInv'
    BY <2>2, OthersIndex
  <2>. QED
    BY <2>3, <2>4
<1>5. ASSUME NEW r \in Requests, SaveRevision(r) PROVE ReadInv' /\ IndexInv'
  <2>1. /\ Goes(r) /\ reqs'[r].pc = "purging" /\ reqs'[r].kind = reqs[r].kind
        /\ reqs'[r].seen = reqs[r].seen /\ reqs'[r].copy = reqs[r].copy
        /\ reqs'[r].late = reqs[r].late
    BY <1>5, SaveRevisionStep
  <2>2. UNCHANGED <<row, doc, drift>> /\ reqs[r].pc = "loaded" /\ row # Absent
    BY <1>5 DEF SaveRevision, At
  <2>3. Fresh(r)'
    BY <2>1, <2>2 DEF Fresh, ReadInv, Under
  <2>4. ReadInv'
    BY <2>1, <2>2, <2>3, OthersRead
  <2>5. IndexInv'
    BY <2>1, <2>2, OthersIndex
  <2>. QED
    BY <2>4, <2>5
<1>6. ASSUME NEW r \in Requests, CommitEdit(r) PROVE ReadInv' /\ IndexInv'
  <2>1. reqs[r].pc \in Holding /\ row # Absent /\ At(r, "purging") /\ reqs[r].kind \in Edits
    BY <1>6 DEF CommitEdit, At, Under, Saving, Holding, ReadInv, Edits
  <2>2. row' # Absent
    BY <1>6, <2>1, ContentWritten DEF CommitEdit, Page, Absent, Statuses
  <2>3. reqs[r].copy \in Page \cup {Absent} /\ reqs[r].late \in BOOLEAN
    BY <1>1, <1>2, <2>1, RequestFields
  <2>4. CASE reqs[r].kind = "save"
    <3>1. /\ Goes(r) /\ reqs'[r].pc = "index"
          /\ reqs'[r].copy = reqs[r].copy /\ reqs'[r].late = reqs[r].late
      BY <1>6, <2>3, <2>4, IndexNext DEF CommitEdit
    <3>2. ~reqs[r].late => row' = reqs[r].copy
      BY <1>6, <2>1, CopyWritten DEF CommitEdit
    <3>3. ReadInv'
      BY <2>2, <3>1, OthersRead DEF Saving
    <3>4. IndexInv'
      BY <3>1, <3>2, OthersIndex
    <3>. QED
      BY <3>3, <3>4
  <2>5. CASE reqs[r].kind # "save"
    <3>1. Goes(r) /\ reqs'[r].pc = "idle" /\ drift'
      <4>1. GoOvertaking(r, Idle) /\ drift' /\ Idle \in Request(made) /\ Idle.pc = "idle"
        BY <1>6, <2>5 DEF CommitEdit, Request, Idle
      <4>. QED
        BY <4>1, OneOvertakes DEF Goes
    <3>2. ReadInv'
      BY <2>2, <3>1, OthersRead DEF Saving
    <3>3. IndexInv'
      BY <3>1, OthersIndex
    <3>. QED
      BY <3>2, <3>3
  <2>. QED
    BY <2>4, <2>5
<1>7. ASSUME NEW r \in Requests, SaveRestored(r) PROVE ReadInv' /\ IndexInv'
  <2>1. reqs[r].pc \in Holding /\ row # Absent /\ At(r, "purging") /\ reqs[r].kind \in Edits
    BY <1>7 DEF SaveRestored, At, Under, Saving, Holding, ReadInv, Edits
  <2>2. row' # Absent
    BY <1>7, <2>1, ContentWritten DEF SaveRestored, Page, Absent, Statuses
  <2>3. /\ Goes(r) /\ reqs'[r].pc = "commit"
        /\ reqs'[r].copy = reqs[r].copy /\ reqs'[r].late = reqs[r].late
    BY <1>7, SaveRestoredStep
  <2>4. ~reqs[r].late => row' = reqs[r].copy
    BY <1>7, <2>1, CopyWritten DEF SaveRestored
  <2>5. ReadInv'
    BY <2>2, <2>3, OthersRead
  <2>6. IndexInv'
    BY <2>3, <2>4, OthersIndex
  <2>. QED
    BY <2>5, <2>6
<1>8. ASSUME NEW r \in Requests, CommitRestored(r) PROVE ReadInv' /\ IndexInv'
  <2>1. reqs[r].copy \in Page \cup {Absent} /\ reqs[r].late \in BOOLEAN
    BY <1>1, <1>2, <1>8, RequestFields DEF CommitRestored, At, Holding
  <2>2. /\ Goes(r) /\ reqs'[r].pc = "index"
        /\ reqs'[r].copy = reqs[r].copy /\ reqs'[r].late = reqs[r].late
    BY <1>8, <2>1, IndexNext DEF CommitRestored
  <2>3. row' = row /\ (~reqs[r].late => reqs[r].copy = row)
    BY <1>8 DEF CommitRestored, At, IndexInv, Under
  <2>4. ReadInv'
    BY <2>2, <2>3, OthersRead DEF Saving
  <2>5. IndexInv'
    BY <2>2, <2>3, OthersIndex
  <2>. QED
    BY <2>4, <2>5
<1>9. ASSUME NEW r \in Requests, ChangePageStatus(r) PROVE ReadInv' /\ IndexInv'
  <2>1. /\ reqs[r].pc = "loaded" /\ reqs[r].copy \in Page /\ reqs[r].seen \in Page
        /\ reqs[r].late \in BOOLEAN
    BY <1>1, <1>2, <1>9, RequestFields DEF ChangePageStatus, At, Holding
  <2>2. /\ Goes(r) /\ reqs'[r].pc = "index"
        /\ reqs'[r].copy = reqs[r].copy /\ reqs'[r].late = reqs[r].late
    BY <1>9, <2>1, IndexNext DEF ChangePageStatus
  <2>3. row # Absent => row' # Absent
    BY <1>3, <1>9, <2>1 DEF ChangePageStatus, Absent, Column, Page, Statuses
  <2>4. ~reqs[r].late => reqs[r].copy = row'
    <3>1. SUFFICES ASSUME ~reqs[r].late PROVE reqs[r].copy = row'
      OBVIOUS
    <3>2. row = reqs[r].seen /\ reqs[r].copy.content = reqs[r].seen.content
      BY <1>9, <2>1, <3>1 DEF ReadInv, Under, ChangePageStatus
    <3>3. row # Absent
      BY <2>1, <3>2 DEF Page, Absent, Statuses
    <3>4. row' = [content |-> row.content,
                  status |-> Column(reqs[r].seen.status, reqs[r].copy.status, row.status)]
      BY <1>9, <3>3 DEF ChangePageStatus
    <3>. QED
      BY <2>1, <3>2, <3>4 DEF Column, Page
  <2>5. ReadInv'
    BY <2>2, <2>3, OthersRead DEF Saving
  <2>6. IndexInv'
    BY <2>2, <2>4, OthersIndex
  <2>. QED
    BY <2>5, <2>6
<1>10. ASSUME NEW r \in Requests, DeletePage(r) PROVE ReadInv' /\ IndexInv'
  <2>1. reqs[r].late \in BOOLEAN
    BY <1>1, <1>2, <1>10, RequestFields DEF DeletePage, At, Holding
  <2>2. /\ Goes(r) /\ reqs'[r].pc = "index" /\ reqs'[r].copy = Absent
        /\ row' = Absent /\ Under(Saving) = {}
    BY <1>10, <2>1, IndexNext DEF DeletePage, Saving
  <2>3. ReadInv'
    BY <2>2, OthersRead DEF Saving
  <2>4. IndexInv'
    BY <2>2, OthersIndex
  <2>. QED
    BY <2>3, <2>4
<1>11. ASSUME NEW r \in Requests, Index(r) \/ FailIndex(r) PROVE ReadInv' /\ IndexInv'
  <2>1. Goes(r) /\ reqs'[r].pc = "idle" /\ row' = row
    BY <1>11, EndStep DEF Index, FailIndex
  <2>2. drift' \/ doc' = row'
    <3>1. CASE Index(r)
      <4>1. reqs[r].late \in BOOLEAN /\ reqs[r].pc = "index"
        BY <1>1, <1>2, <3>1, RequestFields DEF Index, At
      <4>. QED
        BY <2>1, <3>1, <4>1 DEF Index, IndexInv, Under
    <3>2. CASE FailIndex(r)
      BY <3>2 DEF FailIndex
    <3>. QED
      BY <1>11, <3>1, <3>2
  <2>3. ReadInv'
    BY <2>1, OthersRead DEF Saving
  <2>4. IndexInv'
    BY <2>1, <2>2, OthersIndex
  <2>. QED
    BY <2>3, <2>4
<1>12. ASSUME NEW r \in Requests, Abort(r) PROVE ReadInv' /\ IndexInv'
  <2>1. Goes(r) /\ reqs'[r].pc = "idle" /\ row' = row
    BY <1>12, EndStep DEF Abort
  <2>2. drift' \/ (UNCHANGED <<drift, doc, row>> /\ reqs[r].pc \notin {"index", "commit"})
    BY <1>12 DEF Abort, At
  <2>3. ReadInv'
    BY <2>1, OthersRead DEF Saving
  <2>4. IndexInv'
    BY <2>1, <2>2, OthersIndex
  <2>. QED
    BY <2>3, <2>4
<1>13. ASSUME NEW r \in Requests, NEW kind \in {"save", "apply"}, LoadToSave(r, kind)
       PROVE  ReadInv' /\ IndexInv'
  <2>1. kind \in Edits \cup {"publish", "delete"} /\ kind # "publish" /\ row # Absent
    BY <1>13 DEF Edits, LoadToSave, Load
  <2>2. CASE written < MaxContents /\ Load(r, kind, written + 1, row.status)
    <3>1. written + 1 \in Contents
      BY <2>2, PagesAssumption DEF TypeOK, Contents
    <3>. QED
      BY <1>3, <2>1, <2>2, <3>1, LoadReads
  <2>3. CASE Load(r, kind, row.content, row.status)
    BY <1>3, <2>1, <2>3, LoadReads
  <2>. QED
    BY <1>13, <2>2, <2>3 DEF LoadToSave
<1>14. ASSUME NEW r \in Requests, NEW v \in revisions, LoadToRestore(r, v)
       PROVE  ReadInv' /\ IndexInv'
  <2>1. row # Absent /\ v.content \in Contents /\ "restore" \in Edits
    BY <1>14 DEF Edits, LoadToRestore, Load, TypeOK
  <2>. QED
    BY <1>3, <1>14, <2>1, LoadReads DEF LoadToRestore
<1>15. ASSUME NEW r \in Requests,
              (\E status \in Statuses : LoadToPublish(r, status)) \/ LoadToDelete(r)
       PROVE  ReadInv' /\ IndexInv'
  <2>1. row # Absent /\ "publish" \notin Edits /\ "delete" \notin Edits
    BY <1>15 DEF Edits, LoadToPublish, LoadToDelete, Load
  <2>. QED
    BY <1>3, <1>15, <2>1, LoadReads DEF LoadToPublish, LoadToDelete
<1>16. CASE UNCHANGED vars \/ \E v \in revisions : ToggleKeep(v)
  <2>1. UNCHANGED <<row, doc, reqs, drift>>
    BY <1>16 DEF vars, ToggleKeep
  <2>. QED
    BY <2>1 DEF ReadInv, IndexInv, Under
<1>. QED
  BY <1>4, <1>5, <1>6, <1>7, <1>8, <1>9, <1>10, <1>11, <1>12, <1>13, <1>14, <1>15, <1>16 DEF Next

-----------------------------------------------------------------------------
\* Numbers, and the horizon of a selection.

LEMMA GreatestOf ==
    ASSUME NEW S \in SUBSET Nat, S # {}, NEW n \in Nat, \A i \in S : i <= n
    PROVE  \E h \in S : \A i \in S : i <= h
<1>. DEFINE Bounds == {m \in Nat : \A i \in S : i <= m}
<1>1. IsWellFoundedOn(OpToRel(<, Nat), Nat)
  BY NatLessThanWellFounded
<1>2. Bounds \subseteq Nat /\ n \in Bounds
  OBVIOUS
<1>3. PICK h \in Bounds : \A m \in Bounds : ~(m < h)
  <2>. HIDE DEF Bounds
  <2>1. PICK h \in Bounds : \A m \in Bounds : ~(<<m, h>> \in OpToRel(<, Nat))
    BY <1>1, <1>2, WFMin
  <2>2. \A m \in Bounds : ~(m < h)
    BY <1>2, <2>1, Zenon DEF OpToRel
  <2>. QED
    BY <2>2, Zenon
<1>4. h \in Nat /\ \A i \in S : i <= h
  BY <1>3
<1>5. h \in S
  <2>1. SUFFICES ASSUME h \notin S PROVE FALSE
    OBVIOUS
  <2>2. \A i \in S : i < h
    BY <1>4, <2>1
  <2>3. h > 0 /\ h - 1 \in Bounds
    <3>1. PICK i \in S : i < h
      BY <2>2
    <3>2. h > 0 /\ h - 1 \in Nat
      BY <1>4, <3>1
    <3>3. \A k \in S : k <= h - 1
      BY <1>4, <2>2
    <3>. QED
      BY <3>2, <3>3
  <2>. QED
    BY <1>3, <1>4, <2>3
<1>. QED
  BY <1>4, <1>5

LEMMA IdsOf ==
    ASSUME NEW S, IsFiniteSet(S)
    PROVE  /\ IsFiniteSet(Ids(S)) /\ Cardinality(Ids(S)) <= Cardinality(S)
           /\ Cardinality(Ids(S)) \in Nat /\ Cardinality(S) \in Nat
<1>1. [v \in S |-> v.id] \in Surjection(S, Ids(S))
  BY DEF Surjection, Ids
<1>2. IsFiniteSet(Ids(S)) /\ Cardinality(Ids(S)) <= Cardinality(S)
  BY <1>1, FS_Surjection
<1>. QED
  BY <1>2, FS_CardinalityType

\* What is larger has at least as many elements.
LEMMA AtLeast ==
    ASSUME NEW S, NEW T, IsFiniteSet(T), S \subseteq T, KeepCount <= Cardinality(S)
    PROVE  KeepCount <= Cardinality(T)
<1>1. IsFiniteSet(S) /\ Cardinality(S) <= Cardinality(T)
  BY FS_Subset
<1>2. Cardinality(S) \in Nat /\ Cardinality(T) \in Nat
  BY <1>1, FS_CardinalityType
<1>. QED
  BY <1>1, <1>2, PagesAssumption

\* The greatest number that is selected is the horizon: its revision has KeepCount newer ones.
LEMMA SelectionHorizon ==
    ASSUME NEW S, IsFiniteSet(S), NEW n \in Nat, \A v \in S : v.id \in 0..n,
           \A v, w \in S : v.id = w.id => v = w,
           SelectOld(S) # {}
    PROVE  \E h \in 0..n : /\ \A i \in SelectOld(S) : i <= h
                           /\ KeepCount <= Cardinality({i \in Ids(S) : i > h})
<1>. DEFINE unpinned == {v \in S : ~v.keep}
<1>1. SelectOld(S) \in SUBSET Nat /\ \A i \in SelectOld(S) : i <= n
  <2>1. \A i \in SelectOld(S) : \E v \in S : i = v.id
    BY DEF SelectOld
  <2>2. \A i \in SelectOld(S) : i \in 0..n
    BY <2>1
  <2>. HIDE DEF SelectOld
  <2>. QED
    BY <2>2
<1>2. PICK h \in SelectOld(S) : \A i \in SelectOld(S) : i <= h
  BY <1>1, GreatestOf
<1>3. PICK u \in unpinned : u.id = h /\ Cardinality(Newer(unpinned, u)) >= KeepCount
  BY <1>2 DEF SelectOld
<1>. DEFINE N == Newer(unpinned, u)
            A == {i \in Ids(S) : i > h}
<1>4. IsFiniteSet(A)
  <2>1. A \in SUBSET Ids(S)
    OBVIOUS
  <2>. QED
    BY <2>1, IdsOf, FS_Subset
<1>5. [v \in N |-> v.id] \in Injection(N, A)
  <2>1. \A v \in N : v \in S /\ v.id \in A
    BY <1>3 DEF Newer, Ids
  <2>. HIDE DEF N, A
  <2>. QED
    BY <2>1 DEF Injection, IsInjective
<1>6. IsFiniteSet(N) /\ Cardinality(N) <= Cardinality(A)
  <2>. HIDE DEF N, A
  <2>. QED
    BY <1>4, <1>5, FS_Injection
<1>7. Cardinality(N) \in Nat /\ Cardinality(A) \in Nat
  BY <1>4, <1>6, FS_CardinalityType
<1>8. KeepCount <= Cardinality(A)
  <2>. HIDE DEF A
  <2>. QED
    BY <1>3, <1>6, <1>7, PagesAssumption
<1>9. h \in 0..n
  BY <1>3
<1>. QED
  BY <1>2, <1>8, <1>9

-----------------------------------------------------------------------------
\* The revisions.

\* Steps that leave the revisions alone.
LEMMA SameRevisions ==
    ASSUME TypeOK, RevisionInv, UNCHANGED <<revisions, made, raced>>,
           \A p \in Requests : reqs'[p].pc \in Saving =>
               /\ reqs[p].pc \in Saving
               /\ reqs'[p].mine = reqs[p].mine /\ reqs'[p].selected = reqs[p].selected
    PROVE  RevisionInv'
<1>1. ASSUME NEW p \in Under(Saving)'
      PROVE  /\ p \in Under(Saving)
             /\ reqs'[p].mine = reqs[p].mine /\ reqs'[p].selected = reqs[p].selected
             /\ HasHorizon(p)' /\ NotPinned(p)'
  <2>1. /\ p \in Under(Saving) /\ reqs'[p].mine = reqs[p].mine
        /\ reqs'[p].selected = reqs[p].selected
    BY <1>1 DEF Under
  <2>2. \A h : Above(p, h)' = Above(p, h)
    BY <2>1 DEF Above
  <2>3. HasHorizon(p) /\ NotPinned(p)
    BY <2>1 DEF RevisionInv
  <2>. QED
    BY <2>1, <2>2, <2>3 DEF HasHorizon, NotPinned
<1>. QED
  BY <1>1 DEF RevisionInv

LEMMA SaveRevisionKeeps ==
    ASSUME TypeOK, RevisionInv, NEW r \in Requests, SaveRevision(r)
    PROVE  RevisionInv'
<1>. DEFINE S == revisions \cup {Mine(r)}
<1>1. /\ made \in Nat /\ made' = made + 1 /\ UNCHANGED <<revisions, raced>>
      /\ reqs'[r].pc = "purging" /\ reqs'[r].mine = made + 1 /\ reqs'[r].selected = SelectOld(S)
      /\ \A p \in Requests \ {r} : Stays(p)
  <2>1. made \in Nat /\ UNCHANGED <<revisions, raced>>
    BY DEF TypeOK, SaveRevision
  <2>. QED
    BY <2>1, SaveRevisionStep DEF Goes
<1>2. \A v \in revisions : v.id \in 1..made
  BY DEF TypeOK
<1>3. Mine(r).id = made + 1
  BY DEF Mine
<1>4. ASSUME NEW p \in Under(Saving)', p # r
      PROVE  /\ p \in Under(Saving)
             /\ reqs'[p].mine = reqs[p].mine /\ reqs'[p].selected = reqs[p].selected
             /\ reqs[p].mine \in (1..made) \ Ids(revisions)
             /\ HasHorizon(p)' /\ NotPinned(p)'
  <2>1. /\ p \in Under(Saving) /\ reqs'[p].mine = reqs[p].mine
        /\ reqs'[p].selected = reqs[p].selected
    BY <1>1, <1>4 DEF Under, Stays, Saving, Holding
  <2>2. \A h : Above(p, h)' = Above(p, h)
    BY <1>1, <2>1 DEF Above
  <2>3. HasHorizon(p) /\ NotPinned(p) /\ reqs[p].mine \in (1..made) \ Ids(revisions)
    BY <2>1 DEF RevisionInv
  <2>4. HasHorizon(p)'
    <3>1. 0..made \subseteq 0..made'
      BY <1>1
    <3>. QED
      BY <2>1, <2>2, <2>3, <3>1 DEF HasHorizon
  <2>5. NotPinned(p)'
    BY <1>1, <2>1, <2>3 DEF NotPinned
  <2>. QED
    BY <2>1, <2>3, <2>4, <2>5
<1>5. /\ IsFiniteSet(S) /\ \A v \in S : v.id \in 0..made'
      /\ \A v, w \in S : v.id = w.id => v = w
  <2>1. IsFiniteSet(S)
    BY FS_AddElement DEF RevisionInv
  <2>2. \A v \in revisions : v.id # Mine(r).id
    BY <1>1, <1>2, <1>3
  <2>3. \A v, w \in S : v.id = w.id => v = w
    BY <2>2 DEF RevisionInv
  <2>4. \A v \in S : v.id \in 0..made'
    BY <1>1, <1>2, <1>3
  <2>. QED
    BY <2>1, <2>3, <2>4
<1>6. HasHorizon(r)'
  <2>1. SUFFICES ASSUME SelectOld(S) # {}
                 PROVE  \E h \in 0..made' : /\ \A i \in SelectOld(S) : i <= h
                                            /\ KeepCount <= Cardinality(Above(r, h)')
    BY <1>1 DEF HasHorizon
  <2>2. PICK h \in 0..made' : /\ \A i \in SelectOld(S) : i <= h
                             /\ KeepCount <= Cardinality({i \in Ids(S) : i > h})
    <3>1. made' \in Nat
      BY <1>1
    <3>. HIDE DEF S
    <3>. QED
      BY <1>5, <2>1, <3>1, SelectionHorizon
  <2>3. Ids(S) = Ids(revisions') \cup {reqs'[r].mine}
    BY <1>1, <1>3 DEF Ids
  <2>. QED
    BY <2>2, <2>3 DEF Above
<1>7. NotPinned(r)'
  <2>1. \A i \in SelectOld(S) : \E u \in S : u.id = i /\ ~u.keep
    BY DEF SelectOld
  <2>2. \A v \in revisions : v.id \in SelectOld(S) => ~v.keep
    <3>1. SUFFICES ASSUME NEW v \in revisions, v.id \in SelectOld(S) PROVE ~v.keep
      OBVIOUS
    <3>2. PICK u \in S : u.id = v.id /\ ~u.keep
      BY <2>1, <3>1
    <3>3. u = v
      BY <1>5, <3>2
    <3>. QED
      BY <3>2, <3>3
  <2>. QED
    BY <1>1, <2>2 DEF NotPinned
<1>8. made + 1 \in 1..made' /\ made + 1 \notin Ids(revisions)
  BY <1>1, <1>2 DEF Ids
<1>9. ASSUME NEW p \in Under(Saving)'
      PROVE  reqs'[p].mine \in (1..made') \ Ids(revisions') /\ HasHorizon(p)' /\ NotPinned(p)'
  BY <1>1, <1>4, <1>6, <1>7, <1>8, <1>9
<1>10. \A p, s \in Under(Saving)' : reqs'[p].mine = reqs'[s].mine => p = s
  BY <1>1, <1>4 DEF RevisionInv
<1>. QED
  BY <1>1, <1>9, <1>10 DEF RevisionInv

\* What is left above the horizon of the transaction that commits, and below it.
LEMMA CommittedIds ==
    ASSUME TypeOK, RevisionInv, NEW r \in Under(Saving), CommitRevisions(r)
    PROVE  /\ Ids(revisions') = (Ids(revisions) \ reqs[r].selected) \cup {reqs[r].mine}
           /\ IsFiniteSet(revisions')
           /\ \A v, w \in revisions' : v.id = w.id => v = w
<1>. DEFINE new == [id |-> reqs[r].mine, content |-> reqs[r].seen.content, keep |-> FALSE]
<1>1. revisions' = {v \in revisions : v.id \notin reqs[r].selected} \cup {new}
  BY DEF CommitRevisions
<1>2. new.id = reqs[r].mine /\ new.id \notin Ids(revisions)
  BY DEF RevisionInv
<1>. HIDE DEF new
<1>3. Ids(revisions') = (Ids(revisions) \ reqs[r].selected) \cup {reqs[r].mine}
  BY <1>1, <1>2 DEF Ids
<1>4. IsFiniteSet(revisions')
  <2>1. IsFiniteSet(revisions \cup {new}) /\ revisions' \in SUBSET (revisions \cup {new})
    BY <1>1, FS_AddElement DEF RevisionInv
  <2>. QED
    BY <2>1, FS_Subset
<1>5. \A v, w \in revisions' : v.id = w.id => v = w
  <2>1. \A v \in revisions : v.id # new.id
    BY <1>2 DEF Ids
  <2>. QED
    BY <1>1, <2>1 DEF RevisionInv
<1>. QED
  BY <1>3, <1>4, <1>5

\* Another transaction's horizon holds, or that of the one that commits does for both.
LEMMA HorizonSurvives ==
    ASSUME TypeOK, RevisionInv, NEW r \in Under(Saving), CommitRevisions(r), made' = made,
           NEW p \in Under(Saving),
           reqs'[p].mine = reqs[p].mine, reqs'[p].selected = reqs[p].selected
    PROVE  HasHorizon(p)'
<1>. SUFFICES ASSUME reqs[p].selected # {}
              PROVE  \E h \in 0..made : /\ \A i \in reqs[p].selected : i <= h
                                        /\ KeepCount <= Cardinality(Above(p, h)')
  BY DEF HasHorizon
<1>1. PICK h \in 0..made : /\ \A i \in reqs[p].selected : i <= h
                          /\ KeepCount <= Cardinality(Above(p, h))
  BY DEF RevisionInv, HasHorizon
<1>2. Ids(revisions') = (Ids(revisions) \ reqs[r].selected) \cup {reqs[r].mine}
  BY CommittedIds
<1>3. \A k : IsFiniteSet(Above(p, k)')
  <2>1. IsFiniteSet(Ids(revisions') \cup {reqs'[p].mine})
    BY CommittedIds, IdsOf, FS_AddElement
  <2>2. \A k : Above(p, k)' \in SUBSET (Ids(revisions') \cup {reqs'[p].mine})
    BY DEF Above
  <2>. QED
    BY <2>1, <2>2, FS_Subset
<1>4. \A i \in Ids(revisions) : i \in Nat
  BY DEF TypeOK, Ids
<1>5. made \in Nat
  BY DEF TypeOK
<1>6. CASE reqs[r].selected = {}
  <2>1. Above(p, h) \subseteq Above(p, h)'
    BY <1>2, <1>6 DEF Above
  <2>. QED
    BY <1>1, <1>3, <2>1, AtLeast
<1>7. CASE reqs[r].selected # {}
  <2>1. PICK g \in 0..made : /\ \A i \in reqs[r].selected : i <= g
                            /\ KeepCount <= Cardinality(Above(r, g))
    BY <1>7 DEF RevisionInv, HasHorizon
  <2>2. CASE g <= h
    <3>1. Above(p, h) \subseteq Above(p, h)'
      <4>1. \A i \in Ids(revisions) : i > h => i \notin reqs[r].selected
        BY <1>4, <1>5, <2>1, <2>2
      <4>. QED
        BY <1>2, <4>1 DEF Above
    <3>. QED
      BY <1>1, <1>3, <3>1, AtLeast
  <2>3. CASE h < g
    <3>1. Above(r, g) \subseteq Above(p, g)'
      <4>1. \A i \in Ids(revisions) : i > g => i \notin reqs[r].selected
        BY <1>4, <1>5, <2>1
      <4>. QED
        BY <1>2, <4>1 DEF Above
    <3>2. \A i \in reqs[p].selected : i <= g
      <4>1. \A i \in reqs[p].selected : i \in Nat
        BY <1>5, RequestFields DEF TypeOK, Under, Saving, Holding
      <4>. QED
        BY <1>1, <1>5, <2>3, <4>1
    <3>. QED
      BY <1>3, <2>1, <3>1, <3>2, AtLeast
  <2>. QED
    BY <1>5, <2>2, <2>3
<1>. QED
  BY <1>6, <1>7

LEMMA CommitKeeps ==
    ASSUME TypeOK, RevisionInv, NEW r \in Under(Saving), CommitRevisions(r),
           UNCHANGED <<made, raced>>,
           reqs'[r].pc \notin Saving, \A p \in Requests \ {r} : Stays(p)
    PROVE  RevisionInv'
<1>1. ASSUME NEW p \in Under(Saving)'
      PROVE  /\ p \in Under(Saving) /\ p # r
             /\ reqs'[p].mine = reqs[p].mine /\ reqs'[p].selected = reqs[p].selected
  BY <1>1 DEF Under, Stays, Saving, Holding
<1>2. ASSUME NEW p \in Under(Saving)'
      PROVE  reqs'[p].mine \in (1..made') \ Ids(revisions')
  <2>1. reqs[p].mine \in (1..made) \ Ids(revisions) /\ reqs[p].mine # reqs[r].mine
    BY <1>1, <1>2 DEF RevisionInv
  <2>. QED
    BY <1>1, <1>2, <2>1, CommittedIds
<1>3. ASSUME NEW p \in Under(Saving)'
      PROVE  NotPinned(p)'
  <2>1. NotPinned(p)
    BY <1>1, <1>3 DEF RevisionInv
  <2>2. \A v \in revisions' :
           v \in revisions \/ v = [id |-> reqs[r].mine, content |-> reqs[r].seen.content, keep |-> FALSE]
    BY DEF CommitRevisions
  <2>3. \A v \in revisions' : v \in revisions \/ ~v.keep
    BY <2>2
  <2>. QED
    BY <1>1, <1>3, <2>1, <2>3 DEF NotPinned
<1>4. ASSUME NEW p \in Under(Saving)'
      PROVE  HasHorizon(p)'
  BY <1>1, <1>4, HorizonSurvives
<1>5. \A p, s \in Under(Saving)' : reqs'[p].mine = reqs'[s].mine => p = s
  BY <1>1 DEF RevisionInv
<1>. QED
  BY <1>2, <1>3, <1>4, <1>5, CommittedIds DEF RevisionInv

\* A revision that goes was beyond the KeepCount newest, and not pinned in time.
LEMMA CommitPurges ==
    ASSUME TypeOK, RevisionInv, NEW r \in Under(Saving), CommitRevisions(r), NEW u \in revisions
    PROVE  u \in revisions' \/ u.content \in purged'
<1>. SUFFICES ASSUME u \notin revisions' PROVE u.content \in purged'
  OBVIOUS
<1>1. u.id \in reqs[r].selected
  BY DEF CommitRevisions
<1>2. PICK h \in 0..made : /\ \A i \in reqs[r].selected : i <= h
                          /\ KeepCount <= Cardinality(Above(r, h))
  BY <1>1 DEF RevisionInv, HasHorizon
<1>3. Above(r, h) \subseteq Ids(Newer(revisions', u))
  <2>1. \A i \in Ids(revisions) \cup {reqs[r].mine} : i \in Nat
    BY DEF TypeOK, RevisionInv, Ids
  <2>2. u.id \in Nat /\ u.id <= h /\ h \in Nat /\ made \in Nat
    BY <1>1, <1>2, <2>1 DEF TypeOK
  <2>3. \A i \in Above(r, h) : i \in Ids(revisions') /\ i > u.id
    <3>1. \A i \in Above(r, h) : i \in Nat /\ i > h
      BY <2>1 DEF Above
    <3>2. \A i \in Above(r, h) : i \notin reqs[r].selected
      BY <1>2, <2>2, <3>1
    <3>. QED
      BY <2>2, <3>1, <3>2, CommittedIds DEF Above
  <2>. QED
    BY <2>3 DEF Ids, Newer
<1>4. IsFiniteSet(Newer(revisions', u))
  <2>1. Newer(revisions', u) \in SUBSET revisions'
    BY DEF Newer
  <2>. QED
    BY <2>1, CommittedIds, FS_Subset
<1>5. KeepCount <= Cardinality(Newer(revisions', u))
  <2>1. /\ KeepCount <= Cardinality(Ids(Newer(revisions', u)))
        /\ Cardinality(Ids(Newer(revisions', u))) <= Cardinality(Newer(revisions', u))
        /\ Cardinality(Ids(Newer(revisions', u))) \in Nat
        /\ Cardinality(Newer(revisions', u)) \in Nat
    BY <1>2, <1>3, <1>4, IdsOf, AtLeast
  <2>. QED
    BY <2>1, PagesAssumption
<1>6. ~u.keep \/ u.id \in raced
  BY <1>1 DEF RevisionInv, NotPinned
<1>7. Cardinality(Newer(revisions', u)) >= KeepCount
  BY <1>4, <1>5, FS_CardinalityType, PagesAssumption
<1>. QED
  BY <1>6, <1>7 DEF CommitRevisions

LEMMA ToggleKeeps ==
    ASSUME TypeOK, RevisionInv, NEW u \in revisions, ToggleKeep(u)
    PROVE  RevisionInv'
<1>. DEFINE new == [id |-> u.id, content |-> u.content, keep |-> ~u.keep]
<1>1. /\ revisions' = (revisions \ {u}) \cup {new} /\ new.id = u.id
      /\ UNCHANGED <<reqs, made>> /\ raced \subseteq raced'
  BY DEF ToggleKeep
<1>2. IsFiniteSet(revisions')
  BY <1>1, FS_AddElement, FS_RemoveElement DEF RevisionInv
<1>3. \A v, w \in revisions' : v.id = w.id => v = w
  <2>. HIDE DEF new
  <2>. QED
    BY <1>1 DEF RevisionInv
<1>4. Ids(revisions') = Ids(revisions)
  <2>. HIDE DEF new
  <2>. QED
    BY <1>1 DEF Ids
<1>5. ASSUME NEW p \in Under(Saving)
      PROVE  HasHorizon(p)'
  <2>1. HasHorizon(p) /\ \A h : Above(p, h)' = Above(p, h)
    BY <1>1, <1>4 DEF RevisionInv, Above
  <2>. QED
    BY <1>1, <2>1 DEF HasHorizon
<1>6. ASSUME NEW p \in Under(Saving)
      PROVE  NotPinned(p)'
  <2>1. SUFFICES ASSUME NEW v \in revisions', v.id \in reqs[p].selected
                 PROVE  ~v.keep \/ v.id \in raced'
    BY <1>1 DEF NotPinned
  <2>2. CASE v \in revisions
    <3>1. ~v.keep \/ v.id \in raced
      BY <2>1, <2>2 DEF RevisionInv, NotPinned
    <3>. QED
      BY <1>1, <3>1
  <2>3. CASE v = new
    <3>1. u.id \in reqs[p].selected
      BY <2>1, <2>3
    <3>2. p \in Under({"purging"})
      BY <3>1 DEF ToggleKeep, Under, Saving
    <3>3. raced' = raced \cup {u.id}
      BY <3>1, <3>2 DEF ToggleKeep
    <3>. QED
      BY <2>3, <3>3
  <2>. HIDE DEF new
  <2>. QED
    BY <1>1, <2>2, <2>3
<1>7. Under(Saving)' = Under(Saving)
  BY <1>1 DEF Under
<1>. QED
  BY <1>1, <1>2, <1>3, <1>4, <1>5, <1>6, <1>7 DEF RevisionInv

LEMMA NextRevisions ==
    ASSUME TypeOK, ReadInv, RevisionInv, [Next]_vars
    PROVE  RevisionInv'
<1>. USE DEF Saving, Holding
<1>1. \A r \in Requests : reqs[r] \in Request(made)
  BY DEF TypeOK
<1>2. made \in Nat
  BY DEF TypeOK
<1>3. row # Absent => row.content \in Contents /\ row.status \in Statuses
  BY DEF TypeOK, Page
\* A step of r that leaves the revisions and does not bring r among those that save.
<1>4. ASSUME NEW r \in Requests, Goes(r), UNCHANGED <<revisions, made, raced>>,
             reqs'[r].pc \in Saving => /\ reqs[r].pc \in Saving
                                      /\ reqs'[r].mine = reqs[r].mine
                                      /\ reqs'[r].selected = reqs[r].selected
      PROVE  RevisionInv'
  <2>1. ASSUME NEW p \in Requests, reqs'[p].pc \in Saving
        PROVE  /\ reqs[p].pc \in Saving
               /\ reqs'[p].mine = reqs[p].mine /\ reqs'[p].selected = reqs[p].selected
    BY <1>4, <2>1 DEF Goes, Stays
  <2>. QED
    BY <1>4, <2>1, SameRevisions
<1>5. ASSUME NEW r \in Requests, NEW kind \in Edits \cup {"publish", "delete"},
             NEW content \in Contents, NEW status \in Statuses, Load(r, kind, content, status)
      PROVE  RevisionInv'
  <2>1. Goes(r) /\ reqs'[r].pc = "loaded"
    BY <1>5, LoadStep
  <2>. QED
    BY <1>4, <1>5, <2>1 DEF Load
<1>6. ASSUME NEW r \in Requests, CreatePage(r) PROVE RevisionInv'
  <2>1. 1 \in Contents
    BY PagesAssumption DEF Contents
  <2>2. row' \in Page
    BY <1>6, <2>1 DEF CreatePage, Page, Statuses
  <2>3. Goes(r) /\ reqs'[r].pc = "index"
    BY <1>6, <2>2, IndexNext DEF CreatePage
  <2>. QED
    BY <1>4, <1>6, <2>3 DEF CreatePage
<1>7. ASSUME NEW r \in Requests, SaveRevision(r) PROVE RevisionInv'
  BY <1>7, SaveRevisionKeeps
<1>8. ASSUME NEW r \in Requests, CommitEdit(r) PROVE RevisionInv'
  <2>1. r \in Under(Saving) /\ reqs[r].pc \in Holding
    BY <1>8 DEF CommitEdit, At, Under
  <2>2. reqs[r].copy \in Page \cup {Absent} /\ reqs[r].late \in BOOLEAN
    BY <1>1, <1>2, <2>1, RequestFields
  <2>3. Goes(r) /\ reqs'[r].pc \in {"idle", "index"}
    <3>1. CASE reqs[r].kind = "save"
      BY <1>8, <2>2, <3>1, IndexNext DEF CommitEdit
    <3>2. CASE reqs[r].kind # "save"
      <4>1. GoOvertaking(r, Idle) /\ Idle \in Request(made) /\ Idle.pc = "idle"
        BY <1>8, <3>2 DEF CommitEdit, Request, Idle
      <4>. QED
        BY <4>1, OneOvertakes DEF Goes
    <3>. QED
      BY <3>1, <3>2
  <2>4. CommitRevisions(r) /\ UNCHANGED <<made, raced>>
    BY <1>8 DEF CommitEdit
  <2>. QED
    BY <2>1, <2>3, <2>4, CommitKeeps DEF Goes
<1>9. ASSUME NEW r \in Requests, SaveRestored(r) PROVE RevisionInv'
  <2>1. /\ Goes(r) /\ reqs[r].pc = "purging"
        /\ reqs'[r].mine = reqs[r].mine /\ reqs'[r].selected = reqs[r].selected
    BY <1>9, SaveRestoredStep DEF SaveRestored, At
  <2>. QED
    BY <1>4, <1>9, <2>1 DEF SaveRestored
<1>10. ASSUME NEW r \in Requests, CommitRestored(r) PROVE RevisionInv'
  <2>1. reqs[r].copy \in Page \cup {Absent} /\ reqs[r].late \in BOOLEAN
    BY <1>1, <1>2, <1>10, RequestFields DEF CommitRestored, At
  <2>2. Goes(r) /\ reqs'[r].pc = "index"
    BY <1>10, <2>1, IndexNext DEF CommitRestored
  <2>3. r \in Under(Saving) /\ CommitRevisions(r) /\ UNCHANGED <<made, raced>>
    BY <1>10 DEF CommitRestored, At, Under
  <2>. QED
    BY <2>2, <2>3, CommitKeeps DEF Goes
<1>11. ASSUME NEW r \in Requests, ChangePageStatus(r) PROVE RevisionInv'
  <2>1. reqs[r].copy \in Page /\ reqs[r].late \in BOOLEAN
    BY <1>1, <1>2, <1>11, RequestFields DEF ChangePageStatus, At
  <2>2. Goes(r) /\ reqs'[r].pc = "index"
    BY <1>11, <2>1, IndexNext DEF ChangePageStatus
  <2>. QED
    BY <1>4, <1>11, <2>2 DEF ChangePageStatus
<1>12. ASSUME NEW r \in Requests, DeletePage(r) PROVE RevisionInv'
  <2>1. reqs[r].late \in BOOLEAN
    BY <1>1, <1>2, <1>12, RequestFields DEF DeletePage, At
  <2>2. Goes(r) /\ reqs'[r].pc = "index"
    BY <1>12, <2>1, IndexNext DEF DeletePage
  <2>3. Under(Saving)' = {}
    <3>1. \A p \in Requests : reqs[p].pc \notin Saving
      BY <1>12 DEF DeletePage, Under
    <3>. QED
      BY <2>2, <3>1 DEF Under, Goes, Stays
  <2>4. revisions' = {} /\ IsFiniteSet({})
    BY <1>12, FS_EmptySet DEF DeletePage
  <2>. QED
    BY <2>3, <2>4 DEF RevisionInv
<1>13. ASSUME NEW r \in Requests, Index(r) \/ FailIndex(r) \/ Abort(r) PROVE RevisionInv'
  <2>1. Goes(r) /\ reqs'[r].pc = "idle"
    BY <1>13, EndStep DEF Index, FailIndex, Abort
  <2>. QED
    BY <1>4, <1>13, <2>1 DEF Index, FailIndex, Abort
<1>14. ASSUME NEW r \in Requests, NEW kind \in {"save", "apply"}, LoadToSave(r, kind)
       PROVE  RevisionInv'
  <2>1. kind \in Edits \cup {"publish", "delete"} /\ row # Absent
    BY <1>14 DEF Edits, LoadToSave, Load
  <2>2. CASE written < MaxContents /\ Load(r, kind, written + 1, row.status)
    <3>1. written + 1 \in Contents
      BY <2>2, PagesAssumption DEF TypeOK, Contents
    <3>. QED
      BY <1>3, <1>5, <2>1, <2>2, <3>1
  <2>3. CASE Load(r, kind, row.content, row.status)
    BY <1>3, <1>5, <2>1, <2>3
  <2>. QED
    BY <1>14, <2>2, <2>3 DEF LoadToSave
<1>15. ASSUME NEW r \in Requests,
              \/ \E v \in revisions : LoadToRestore(r, v)
              \/ \E status \in Statuses : LoadToPublish(r, status)
              \/ LoadToDelete(r)
       PROVE  RevisionInv'
  <2>1. row # Absent
    BY <1>15 DEF LoadToRestore, LoadToPublish, LoadToDelete, Load
  <2>2. \A v \in revisions : v.content \in Contents
    BY DEF TypeOK
  <2>. QED
    BY <1>3, <1>5, <1>15, <2>1, <2>2 DEF LoadToRestore, LoadToPublish, LoadToDelete, Edits
<1>16. ASSUME NEW v \in revisions, ToggleKeep(v) PROVE RevisionInv'
  BY <1>16, ToggleKeeps
<1>17. CASE UNCHANGED vars
  BY <1>17, SameRevisions DEF vars
<1>. QED
  BY <1>6, <1>7, <1>8, <1>9, <1>10, <1>11, <1>12, <1>13, <1>14, <1>15, <1>16, <1>17 DEF Next

-----------------------------------------------------------------------------
\* What was overwritten is kept.

Safe(c) ==
    \/ c \in excused \/ c \in purged
    \/ \E v \in revisions : v.content = c
    \/ \E r \in Under({"commit"}) : reqs[r].seen.content = c

SafeNext(c) ==
    \/ c \in excused' \/ c \in purged'
    \/ \E v \in revisions' : v.content = c
    \/ \E r \in Requests : reqs'[r].pc = "commit" /\ reqs'[r].seen.content = c

\* A step keeps safe what was, and makes safe what it overwrites.
LEMMA StaysSafe ==
    ASSUME OverwrittenIsKept, NEW r \in Requests, Goes(r),
           row' # Absent => row # Absent,
           \A c \in past' : c \in past \/ c = row'.content,
           row' # Absent => row'.content = row.content \/ SafeNext(row.content),
           excused \subseteq excused', purged \subseteq purged',
           \A v \in revisions : v.content \in purged' \/ \E w \in revisions' : w.content = v.content,
           At(r, "commit") => SafeNext(reqs[r].seen.content)
    PROVE  OverwrittenIsKept'
<1>1. ASSUME NEW c, Safe(c) PROVE SafeNext(c)
  <2>1. ASSUME NEW p \in Under({"commit"}), reqs[p].seen.content = c
        PROVE  SafeNext(c)
    <3>1. CASE p = r
      BY <2>1, <3>1 DEF Under, At
    <3>2. CASE p # r
      <4>1. reqs'[p].pc = "commit" /\ reqs'[p].seen = reqs[p].seen /\ p \in Requests
        BY <2>1, <3>2 DEF Under, Goes, Stays, Holding
      <4>. QED
        BY <2>1, <4>1 DEF SafeNext
    <3>. QED
      BY <3>1, <3>2
  <2>2. ASSUME NEW v \in revisions, v.content = c
        PROVE  SafeNext(c)
    BY <2>2 DEF SafeNext
  <2>. QED
    BY <1>1, <2>1, <2>2 DEF Safe, SafeNext
<1>2. SUFFICES ASSUME row' # Absent, NEW c \in past' PROVE c = row'.content \/ SafeNext(c)
  BY DEF OverwrittenIsKept, SafeNext, Under
<1>3. CASE c \in past
  <2>1. c = row.content \/ Safe(c)
    BY <1>2, <1>3 DEF OverwrittenIsKept, Safe
  <2>. QED
    BY <1>1, <1>2, <2>1
<1>. QED
  BY <1>2, <1>3

\* A save overwrites what it has seen, or is excused.
LEMMA SeenOrExcused ==
    ASSUME TypeOK, ReadInv, NEW r \in Requests, At(r, "purging"),
           WriteContent(r), excused' = excused \cup Unseen(r)
    PROVE  /\ row # Absent /\ \A c \in past' : c \in past \/ c = row'.content
           /\ row'.content = row.content \/ row.content = reqs[r].seen.content \/ row.content \in excused'
<1>1. row # Absent
  BY DEF ReadInv, Under, At, Saving
<1>2. past' = past \cup {row'.content}
  BY <1>1, ContentWritten DEF At, Holding
<1>3. CASE ~reqs[r].late
  BY <1>1, <1>2, <1>3 DEF ReadInv, Under, At
<1>4. CASE reqs[r].late
  BY <1>1, <1>2, <1>4 DEF Unseen
<1>. QED
  BY <1>3, <1>4

\* A commit brings the revision of what it has seen.
LEMMA CommitSaves ==
    ASSUME NEW r \in Requests, CommitRevisions(r)
    PROVE  (\E v \in revisions' : v.content = reqs[r].seen.content) /\ purged \subseteq purged'
<1>1. [id |-> reqs[r].mine, content |-> reqs[r].seen.content, keep |-> FALSE] \in revisions'
  BY DEF CommitRevisions
<1>. QED
  BY <1>1 DEF CommitRevisions

LEMMA NextKept ==
    ASSUME TypeOK, ReadInv, RevisionInv, OverwrittenIsKept, [Next]_vars
    PROVE  OverwrittenIsKept'
<1>. USE DEF history
<1>1. \A r \in Requests : reqs[r] \in Request(made)
  BY DEF TypeOK
<1>2. made \in Nat
  BY DEF TypeOK
<1>3. row # Absent => row.content \in Contents /\ row.status \in Statuses
  BY DEF TypeOK, Page
\* A step of r that overwrites no content and purges no revision.
<1>4. ASSUME NEW r \in Requests, Goes(r), row' # Absent => row # Absent /\ row'.content = row.content,
             UNCHANGED <<past, purged>>, excused \subseteq excused',
             row' # Absent => revisions' = revisions,
             At(r, "commit") => reqs[r].seen.content \in excused'
      PROVE  OverwrittenIsKept'
  <2>1. CASE row' # Absent
    BY <1>4, <2>1, StaysSafe DEF SafeNext
  <2>2. CASE row' = Absent
    BY <2>2 DEF OverwrittenIsKept
  <2>. QED
    BY <2>1, <2>2
<1>5. ASSUME NEW r \in Requests, NEW kind \in Edits \cup {"publish", "delete"},
             NEW content \in Contents, NEW status \in Statuses, Load(r, kind, content, status)
      PROVE  OverwrittenIsKept'
  <2>1. Goes(r) /\ ~At(r, "commit")
    BY <1>5, LoadStep DEF Load, At
  <2>. QED
    BY <1>4, <1>5, <2>1 DEF Load
<1>6. ASSUME NEW r \in Requests, CreatePage(r) PROVE OverwrittenIsKept'
  BY <1>6 DEF CreatePage, OverwrittenIsKept
<1>7. ASSUME NEW r \in Requests, SaveRevision(r) PROVE OverwrittenIsKept'
  <2>1. Goes(r) /\ ~At(r, "commit")
    BY <1>7, SaveRevisionStep DEF SaveRevision, At
  <2>. QED
    BY <1>4, <1>7, <2>1 DEF SaveRevision
<1>8. ASSUME NEW r \in Requests, CommitEdit(r) PROVE OverwrittenIsKept'
  <2>1. r \in Under(Saving) /\ reqs[r].pc = "purging"
    BY <1>8 DEF CommitEdit, At, Under, Saving
  <2>2. reqs[r].copy \in Page \cup {Absent} /\ reqs[r].late \in BOOLEAN
    BY <1>1, <1>2, <2>1, RequestFields DEF Holding
  <2>3. Goes(r)
    <3>1. CASE reqs[r].kind = "save"
      BY <1>8, <2>2, <3>1, IndexNext DEF CommitEdit
    <3>2. CASE reqs[r].kind # "save"
      BY <1>8, <3>2, OneOvertakes DEF CommitEdit, Request, Goes
    <3>. QED
      BY <3>1, <3>2
  <2>4. /\ row # Absent /\ \A c \in past' : c \in past \/ c = row'.content
        /\ row'.content = row.content \/ row.content = reqs[r].seen.content \/ row.content \in excused'
    BY <1>8, SeenOrExcused DEF CommitEdit
  <2>5. (\E v \in revisions' : v.content = reqs[r].seen.content) /\ purged \subseteq purged'
    BY <1>8, CommitSaves DEF CommitEdit
  <2>6. \A u \in revisions : u.content \in purged' \/ \E w \in revisions' : w.content = u.content
    BY <1>8, <2>1, CommitPurges DEF CommitEdit
  <2>7. row'.content = row.content \/ SafeNext(row.content)
    BY <2>4, <2>5 DEF SafeNext
  <2>8. ~At(r, "commit") /\ excused \subseteq excused'
    BY <1>8, <2>1 DEF CommitEdit, At
  <2>. QED
    BY <2>3, <2>4, <2>5, <2>6, <2>7, <2>8, StaysSafe
<1>9. ASSUME NEW r \in Requests, SaveRestored(r) PROVE OverwrittenIsKept'
  <2>1. Goes(r) /\ reqs'[r].pc = "commit" /\ reqs'[r].seen = reqs[r].seen
    BY <1>9, SaveRestoredStep
  <2>2. /\ row # Absent /\ \A c \in past' : c \in past \/ c = row'.content
        /\ row'.content = row.content \/ row.content = reqs[r].seen.content \/ row.content \in excused'
    BY <1>9, SeenOrExcused DEF SaveRestored
  <2>3. row'.content = row.content \/ SafeNext(row.content)
    BY <2>1, <2>2 DEF SafeNext
  <2>4. ~At(r, "commit") /\ excused \subseteq excused' /\ UNCHANGED <<revisions, purged>>
    BY <1>9 DEF SaveRestored, At
  <2>. QED
    BY <2>1, <2>2, <2>3, <2>4, StaysSafe
<1>10. ASSUME NEW r \in Requests, CommitRestored(r) PROVE OverwrittenIsKept'
  <2>1. reqs[r].copy \in Page \cup {Absent} /\ reqs[r].late \in BOOLEAN /\ r \in Under(Saving)
    BY <1>1, <1>2, <1>10, RequestFields DEF CommitRestored, At, Under, Saving, Holding
  <2>2. Goes(r)
    BY <1>10, <2>1, IndexNext DEF CommitRestored
  <2>3. (\E v \in revisions' : v.content = reqs[r].seen.content) /\ purged \subseteq purged'
    BY <1>10, CommitSaves DEF CommitRestored
  <2>4. \A u \in revisions : u.content \in purged' \/ \E w \in revisions' : w.content = u.content
    BY <1>10, <2>1, CommitPurges DEF CommitRestored
  <2>5. SafeNext(reqs[r].seen.content)
    BY <2>3 DEF SafeNext
  <2>6. UNCHANGED <<row, past, excused>>
    BY <1>10 DEF CommitRestored
  <2>. QED
    BY <2>2, <2>3, <2>4, <2>5, <2>6, StaysSafe
<1>11. ASSUME NEW r \in Requests, ChangePageStatus(r) PROVE OverwrittenIsKept'
  <2>1. reqs[r].pc = "loaded" /\ reqs[r].copy \in Page /\ reqs[r].late \in BOOLEAN
    BY <1>1, <1>2, <1>11, RequestFields DEF ChangePageStatus, At, Holding
  <2>2. Goes(r) /\ ~At(r, "commit")
    BY <1>11, <2>1, IndexNext DEF ChangePageStatus, At
  <2>. QED
    BY <1>4, <1>11, <2>2 DEF ChangePageStatus
<1>12. ASSUME NEW r \in Requests, DeletePage(r) PROVE OverwrittenIsKept'
  BY <1>12 DEF DeletePage, OverwrittenIsKept
<1>13. ASSUME NEW r \in Requests, Index(r) \/ FailIndex(r) \/ Abort(r) PROVE OverwrittenIsKept'
  <2>1. Goes(r)
    BY <1>13, EndStep DEF Index, FailIndex, Abort
  <2>2. At(r, "commit") => reqs[r].seen.content \in excused'
    BY <1>13 DEF Index, FailIndex, Abort, At
  <2>3. excused \subseteq excused' /\ UNCHANGED <<row, revisions, past, purged>>
    BY <1>13 DEF Index, FailIndex, Abort
  <2>. QED
    BY <1>4, <2>1, <2>2, <2>3
<1>14. ASSUME NEW r \in Requests, NEW kind \in {"save", "apply"}, LoadToSave(r, kind)
       PROVE  OverwrittenIsKept'
  <2>1. kind \in Edits \cup {"publish", "delete"} /\ row # Absent
    BY <1>14 DEF Edits, LoadToSave, Load
  <2>2. CASE written < MaxContents /\ Load(r, kind, written + 1, row.status)
    <3>1. written + 1 \in Contents
      BY <2>2, PagesAssumption DEF TypeOK, Contents
    <3>. QED
      BY <1>3, <1>5, <2>1, <2>2, <3>1
  <2>3. CASE Load(r, kind, row.content, row.status)
    BY <1>3, <1>5, <2>1, <2>3
  <2>. QED
    BY <1>14, <2>2, <2>3 DEF LoadToSave
<1>15. ASSUME NEW r \in Requests,
              \/ \E v \in revisions : LoadToRestore(r, v)
              \/ \E status \in Statuses : LoadToPublish(r, status)
              \/ LoadToDelete(r)
       PROVE  OverwrittenIsKept'
  <2>1. row # Absent
    BY <1>15 DEF LoadToRestore, LoadToPublish, LoadToDelete, Load
  <2>2. \A v \in revisions : v.content \in Contents
    BY DEF TypeOK
  <2>. QED
    BY <1>3, <1>5, <1>15, <2>1, <2>2 DEF LoadToRestore, LoadToPublish, LoadToDelete, Edits
<1>16. ASSUME NEW v \in revisions, ToggleKeep(v) PROVE OverwrittenIsKept'
  <2>1. UNCHANGED <<row, reqs, past, excused, purged>>
    BY <1>16 DEF ToggleKeep
  <2>2. \A u \in revisions : \E w \in revisions' : w.content = u.content
    <3>1. [id |-> v.id, content |-> v.content, keep |-> ~v.keep].content = v.content
      OBVIOUS
    <3>. QED
      BY <1>16, <3>1 DEF ToggleKeep
  <2>. QED
    BY <2>1, <2>2 DEF OverwrittenIsKept, Under
<1>17. CASE UNCHANGED vars
  BY <1>17 DEF vars, OverwrittenIsKept, Under
<1>. QED
  BY <1>6, <1>7, <1>8, <1>9, <1>10, <1>11, <1>12, <1>13, <1>14, <1>15, <1>16, <1>17 DEF Next

-----------------------------------------------------------------------------
LEMMA InitInv == Init => Inv
<1>. SUFFICES ASSUME Init PROVE Inv
  OBVIOUS
<1>2. \A r \in Requests : reqs[r] = Idle
  BY DEF Init
<1>3. \A pcs : Under(pcs) # {} => "idle" \in pcs
  BY <1>2 DEF Under, Idle
<1>4. TypeOK
  <2>1. reqs \in [Requests -> Request(made)]
    BY DEF Init, Request
  <2>2. 0 \in 0..MaxRevisions /\ 0 \in 0..MaxContents
    BY PagesAssumption
  <2>. QED
    BY <2>1, <2>2 DEF Init, TypeOK
<1>5. IsFiniteSet({})
  BY FS_EmptySet
<1>6. Under({"loaded", "purging"}) = {} /\ Under(Saving) = {} /\ Under({"index", "commit"}) = {}
  BY <1>3 DEF Saving
<1>7. OverwrittenIsKept
  BY DEF Init, OverwrittenIsKept
<1>. QED
  BY <1>4, <1>5, <1>6, <1>7 DEF Init, Inv, ReadInv, IndexInv, RevisionInv

\* All parts of the invariant, in every state.
THEOREM Invariance == Spec => []Inv
<1>1. Init => Inv
  BY InitInv
<1>2. Inv /\ [Next]_vars => Inv'
  BY NextType, NextReads, NextRevisions, NextKept DEF Inv
<1>. QED
  BY <1>1, <1>2, PTL DEF Spec

\* What is stored and held by requests has its type: in particular no revision has
\* a number that was not given out.
THEOREM TypeCorrect == Spec => []TypeOK
<1>1. Inv => TypeOK
  BY DEF Inv
<1>. QED
  BY <1>1, Invariance, PTL

\* For any number of requests and revisions, what was once the page's content can be
\* restored, unless it was purged by the rule or one of the named exceptions applies.
THEOREM ContentIsKept == Spec => []OverwrittenIsKept
<1>1. Inv => OverwrittenIsKept
  BY DEF Inv
<1>. QED
  BY <1>1, Invariance, PTL

\* At rest the search document is that of the page, unless the index had drifted.
THEOREM IndexFollows == Spec => []IndexIsCurrent
<1>1. Inv => IndexIsCurrent
  <2>1. SUFFICES ASSUME Inv, \A r \in Requests : At(r, "idle") PROVE drift \/ doc = row
    BY DEF IndexIsCurrent
  <2>2. Under({"index", "commit"}) = {}
    BY <2>1 DEF Under, At
  <2>. QED
    BY <2>1, <2>2 DEF Inv, IndexInv
<1>. QED
  BY <1>1, Invariance, PTL
=============================================================================
