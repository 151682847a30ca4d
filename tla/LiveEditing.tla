---------------------------- MODULE LiveEditing ----------------------------
(***************************************************************************)
(* Several editors of one page: BlockTree changes the tree of its window   *)
(* at once and emits the operation, the server cleans and broadcasts it,   *)
(* and use_builder_sync and the preview apply what they receive through    *)
(* builder_reducer. There is no common order of operations. What the       *)
(* server keeps is a draft, which an editor loads once, after it opened.   *)
(*                                                                         *)
(* transmit has no transport between processes: a broadcast reaches the    *)
(* windows that are connected to the process that handled the request.     *)
(* React renders a changed tree later. An editor's handlers, those of the  *)
(* event stream included, work on the tree as rendered last; the preview's *)
(* reducer works on the newest.                                            *)
(*                                                                         *)
(* A tree holds the children by the parent's id: the two copies of a block *)
(* that was inserted twice share theirs.                                   *)
(***************************************************************************)
EXTENDS Naturals, Sequences, FiniteSets

CONSTANTS
    Editors, Previews,
    Blocks, Containers,  \* block ids, and those of them that take children
    Root,                \* the parent of the blocks at the top level
    Initial,             \* the blocks of the stored draft when the editing begins, in order
    Page,                \* those of the page, which an editor shows until it has the draft
    NewBlock,            \* per operation: the id of the block it adds
    Template,            \* and what it would bring as a template's: its children, its props
    Values,              \* what a block's props can be set to; new blocks have Plain
    Plain,
    Cleaned, Stored,     \* what the server makes of the props of an operation, of a draft
    MaxEvents            \* bound: operations, and requests, answers and broadcasts lost

Windows == Editors \cup Previews
Parents == {Root} \cup Containers
Elements(s) == {s[i] : i \in DOMAIN s}
Distinct(s) == \A i, j \in DOMAIN s : s[i] = s[j] => i = j

\* The children in a subtree, and all its blocks.
Nested(kids) == UNION {Elements(kids[c]) : c \in Containers}
Bare == [c \in Containers |-> <<>>]
NewIds(n) == {NewBlock[n]} \cup Nested(Template[n].kids)

ASSUME LiveEditingAssumption ==
    /\ Editors \cap Previews = {}
    /\ Containers \subseteq Blocks /\ Root \notin Blocks
    /\ Plain \in Values /\ {Cleaned, Stored} \subseteq [Values -> Values]
    /\ {Initial, Page} \subseteq Seq(Blocks) /\ Distinct(Initial) /\ Distinct(Page)
    /\ MaxEvents \in Nat

\* generateBlockId: no id is given twice, and each block of a template has one place in it.
ASSUME FreshAssumption ==
    \A n \in 1..MaxEvents :
       /\ NewBlock[n] \in Blocks
       /\ Template[n] \in [kids : [Containers -> Seq(Blocks)], props : Values]
       /\ NewIds(n) \cap (Elements(Initial) \cup Elements(Page)) = {}
       /\ LET kids == Template[n].kids
          IN /\ NewBlock[n] \notin Nested(kids)
             /\ \A c \in Containers :
                   /\ Distinct(kids[c])
                   /\ kids[c] # <<>> => c \in NewIds(n)
                   /\ \A d \in Containers \ {c} : Elements(kids[c]) \cap Elements(kids[d]) = {}
       /\ \A m \in 1..MaxEvents : m # n => NewIds(m) \cap NewIds(n) = {}

VARIABLES
    tree,       \* per window: the newest tree
    shown,      \* per editor: the tree as rendered last (content, contentRef)
    loading,    \* editors that show the page and wait for the draft
    drafts,     \* the drafts that can be stored by then
    timer,      \* per editor: the operations its debounce timer holds, none or one
    sent,       \* operations on their way to the server
    inbox,      \* per editor: broadcasts it has not received yet
    emitted,    \* per editor: emittedIds
    made,       \* operations made so far
    losses,     \* requests, answers and broadcasts lost so far
    apart,      \* history: windows whose blocks may differ from the others'
    disordered, \* history: windows whose order of blocks may
    faded       \* history: per window, the blocks whose props may

network == <<timer, sent, inbox, emitted, losses>>
excuses == <<apart, disordered, faded>>
editingVars == <<tree, shown, loading, drafts, network, made, excuses>>

\* What has the root's containers, and with a container the containers in it.
Closed(t) ==
    {S \in SUBSET Containers :
        \A p \in {Root} \cup S : Elements(t.kids[p]) \cap Containers \subseteq S}

\* The blocks of a tree: what can be reached from the root.
Present(t) ==
    LET closed == Closed(t)
        reached == {c \in Containers : \A S \in closed : c \in S}
    IN UNION {Elements(t.kids[p]) : p \in {Root} \cup reached}

\* filter: what is kept stays in order.
Without(s, b) ==
    LET kept == {i \in DOMAIN s : s[i] # b}
        Rank(i) == Cardinality({j \in kept : j <= i})
    IN [n \in 1..Cardinality(kept) |-> s[CHOOSE i \in kept : Rank(i) = n]]
RemoveBlock(t, b) == [t EXCEPT !.kids = [p \in Parents |-> Without(t.kids[p], b)]]

\* splice: the index counts from 0 and is at most the length.
InsertAt(s, i, b) ==
    LET n == IF i > Len(s) THEN Len(s) ELSE i
    IN SubSeq(s, 1, n) \o <<b>> \o SubSeq(s, n + 1, Len(s))

InsertInto(t, p, i, b) ==
    IF p = Root \/ p \in Present(t) THEN [t EXCEPT !.kids[p] = InsertAt(@, i, b)] ELSE t

Tree == [kids : [Parents -> Seq(Blocks)], props : [Blocks -> Values]]
BlockOperation ==
    [op : {"ADD_BLOCK", "DELETE_BLOCK", "MOVE_BLOCK", "UPDATE_PROPS"},
     block : Blocks, parent : Parents, index : Nat, kids : [Containers -> Seq(Blocks)],
     props : Values, id : 1..made, from : Editors]

\* What the windows hold and what travels: trees of blocks, and operations numbered
\* as they were made, each on blocks that trees can hold (BuilderOperation).
EditingTypeOK ==
    /\ tree \in [Windows -> Tree] /\ shown \in [Editors -> Tree]
    /\ loading \subseteq Editors /\ drafts \subseteq Tree
    /\ timer \in [Editors -> SUBSET BlockOperation]
    /\ sent \subseteq BlockOperation
    /\ inbox \in [Editors -> Seq(BlockOperation)]
    /\ emitted \in [Editors -> SUBSET (1..made)]
    /\ made \in 0..MaxEvents /\ losses \in 0..MaxEvents
    /\ {apart, disordered} \subseteq SUBSET Windows
    /\ faded \in [Windows -> SUBSET Blocks]

Flat(s) == [kids |-> [p \in Parents |-> IF p = Root THEN s ELSE <<>>],
            props |-> [b \in Blocks |-> Plain]]

\* Some windows have been open for a while; other editors still show the page.
EditingInit ==
    /\ loading \in SUBSET Editors
    /\ tree = [w \in Windows |-> Flat(IF w \in loading THEN Page ELSE Initial)]
    /\ shown = [e \in Editors |-> tree[e]]
    /\ drafts = {Flat(Initial)}
    /\ timer = [e \in Editors |-> {}]
    /\ sent = {}
    /\ inbox = [e \in Editors |-> <<>>]
    /\ emitted = [e \in Editors |-> {}]
    /\ made = 0
    /\ losses = 0
    /\ apart = {} /\ disordered = {} /\ faded = [w \in Windows |-> {}]

-----------------------------------------------------------------------------
\* applyOperation

\* The blocks an addition brings.
BlocksOf(o) == {o.block} \cup Nested(o.kids)

\* A deviation: a block that is to be deleted is looked for at the top level only.
DeleteBlockIn(t, o) == [t EXCEPT !.kids[Root] = Without(@, o.block)]

ApplyMove(t, o) ==
    IF o.block \in Present(t) THEN InsertInto(RemoveBlock(t, o.block), o.parent, o.index, o.block)
                              ELSE t
ApplyDelete(t, o) == RemoveBlock(t, o.block)

\* The tree with what an addition knows of its blocks.
Graft(t, o) ==
    [kids |-> [p \in Parents |-> IF p \in BlocksOf(o) THEN o.kids[p] ELSE t.kids[p]],
     props |-> [b \in Blocks |-> IF b \in BlocksOf(o) THEN o.props ELSE t.props[b]]]

ApplyOperation(t, o) ==
    CASE o.op = "UPDATE_PROPS" -> IF o.block \in Present(t) THEN [t EXCEPT !.props[o.block] = o.props]
                                                            ELSE t
      [] o.op = "MOVE_BLOCK"   -> ApplyMove(t, o)
      [] o.op = "ADD_BLOCK"    -> IF o.parent = Root \/ o.parent \in Present(t)
                                    THEN [Graft(t, o) EXCEPT !.kids[o.parent] = InsertAt(@, o.index, o.block)]
                                    ELSE t
      [] o.op = "DELETE_BLOCK" -> ApplyDelete(t, o)

Bounded == made + losses < MaxEvents
Loss == Bounded /\ losses' = losses + 1

-----------------------------------------------------------------------------
\* BlockTree, emit and pushDraft

\* Operations clash if both change the order of blocks, or the props of the same.
Shapes(o) == o.op # "UPDATE_PROPS"
Colors(o) == CASE o.op = "UPDATE_PROPS" -> {o.block} [] o.op = "ADD_BLOCK" -> BlocksOf(o) [] OTHER -> {}
ShapesWith(o, O) == Shapes(o) /\ \E p \in O : Shapes(p)
ColorsWith(o, O) == Colors(o) \cap UNION {Colors(p) : p \in O}

Operation(op, b, p, i, v) ==
    [op |-> op, block |-> b, parent |-> p, index |-> i, kids |-> Bare, props |-> v,
     id |-> made + 1, from |-> Root]

\* An editor changes the tree it sees to t and emits o. Props wait in the one
\* timer, where they replace what waits there. The draft of t is stored for
\* whoever opens the page later.
Edit(e, operation, t) ==
    LET o == [operation EXCEPT !.from = e]
        unseen == {p \in Elements(inbox[e]) : p.from # e}
        unsent == IF o.op = "UPDATE_PROPS" THEN {p.block : p \in timer[e]} \ {o.block} ELSE {}
    IN /\ made' = made + 1
       /\ tree' = [tree EXCEPT ![e] = t]
       /\ drafts' = IF loading = {} THEN drafts
                    ELSE drafts \cup {[t EXCEPT !.props = [b \in Blocks |-> Stored[@[b]]]]}
       /\ IF o.op = "UPDATE_PROPS"
            THEN timer' = [timer EXCEPT ![e] = {o}] /\ UNCHANGED <<sent, emitted>>
            ELSE /\ sent' = sent \cup {o}
                 /\ emitted' = [emitted EXCEPT ![e] = @ \cup {o.id}]
                 /\ UNCHANGED timer
       /\ apart' = IF shown[e] # tree[e] THEN apart \cup {e} ELSE apart
       /\ disordered' = IF ShapesWith(o, unseen) THEN disordered \cup {e} ELSE disordered
       /\ faded' = [faded EXCEPT ![e] = @ \cup unsent \cup ColorsWith(o, unseen)]
    /\ UNCHANGED <<shown, loading, inbox, losses>>

\* A new block at the end of its parent, with what is nested in it.
Insert(e, p, kids, v) ==
    LET t == shown[e]
        b == NewBlock[made + 1]
        o == [Operation("ADD_BLOCK", b, p, Len(t.kids[p]), v) EXCEPT !.kids = kids]
    IN /\ p = Root \/ p \in Present(t)
       /\ Edit(e, o, [Graft(t, o) EXCEPT !.kids[p] = Append(@, b)])

AddBlock(e, p) == Insert(e, p, Bare, Plain)
InsertTemplateBlock(e, p) == Insert(e, p, Template[made + 1].kids, Template[made + 1].props)

DeleteBlock(e, b) ==
    Edit(e, Operation("DELETE_BLOCK", b, Root, 0, Plain), RemoveBlock(shown[e], b))

\* Up or down by one place; the buttons are disabled at the ends.
MoveBlock(e, b, p, i, j) ==
    LET s == shown[e].kids[p]
    IN /\ {i, j} \subseteq DOMAIN s /\ s[i] = b
       /\ Edit(e, Operation("MOVE_BLOCK", b, p, j - 1, Plain),
               [shown[e] EXCEPT !.kids[p] = [s EXCEPT ![i] = s[j], ![j] = b]])

UpdateBlockProps(e, b, v) ==
    /\ shown[e].props[b] # v
    /\ Edit(e, Operation("UPDATE_PROPS", b, Root, 0, v), [shown[e] EXCEPT !.props[b] = v])

FireTimer(e) ==
    /\ timer[e] # {}
    /\ sent' = sent \cup timer[e]
    /\ emitted' = [emitted EXCEPT ![e] = @ \cup {o.id : o \in timer[e]}]
    /\ timer' = [timer EXCEPT ![e] = {}]
    /\ UNCHANGED <<tree, shown, loading, drafts, inbox, made, losses, excuses>>

\* The answer with the draft: what has been received, or done, since the page was
\* opened is overwritten by a draft that may not know of it. Or no answer.
LoadDraft(e) ==
    /\ e \in loading
    /\ loading' = loading \ {e}
    /\ \/ \E t \in drafts : tree' = [tree EXCEPT ![e] = t] /\ UNCHANGED losses
       \/ Loss /\ UNCHANGED tree
    /\ apart' = IF made = 0 /\ tree'[e] = Flat(Initial) THEN apart ELSE apart \cup {e}
    /\ UNCHANGED <<shown, drafts, timer, sent, inbox, emitted, made, disordered, faded>>

-----------------------------------------------------------------------------
\* The server and the network.

\* Requests can overtake each other. It matters for the blocks when one that adds
\* a block is overtaken by one that deletes it, or adds to it.
Waiting(e) == {o \in sent : o.from = e} \cup timer[e]
Depends(o, p) ==
    /\ p.op = "ADD_BLOCK"
    /\ \/ o.op = "ADD_BLOCK" /\ o.parent \in BlocksOf(p)
       \/ o.op = "DELETE_BLOCK" /\ o.block \in BlocksOf(p)

\* A preview applies everything in the order of the broadcasts and does nothing
\* else, so that it may as well do so at once.
Broadcast(o, reached) ==
    LET clean == [o EXCEPT !.props = Cleaned[@]]
        \* What the windows have done already, though it will come after o; of the
        \* window of o, only what should have come before.
        Early(w) == {p \in Waiting(w) : w = o.from => p.id < o.id}
    IN /\ IF reached = Windows THEN UNCHANGED losses ELSE Loss
       /\ sent' = sent \ {o}
       /\ inbox' = [e \in Editors |-> IF e \in reached THEN Append(inbox[e], clean) ELSE inbox[e]]
       /\ tree' = [w \in Windows |-> IF w \in Previews \cap reached THEN ApplyOperation(tree[w], clean)
                                                                  ELSE tree[w]]
       /\ apart' = apart \cup (Windows \ reached) \cup {p.from : p \in {q \in sent : Depends(o, q)}}
       /\ disordered' = disordered \cup {e \in Editors : ShapesWith(o, Early(e))}
       /\ faded' = [w \in Windows |-> IF w \in Editors THEN faded[w] \cup ColorsWith(o, Early(w)) ELSE faded[w]]
    /\ UNCHANGED <<shown, loading, drafts, timer, emitted, made>>

\* The request does not get through, and nobody else will know of the operation.
\* Its id is forgotten when nothing answers, and kept when the server refuses.
LoseRequest(o) ==
    /\ Loss
    /\ sent' = sent \ {o}
    /\ apart' = apart \cup {o.from}
    /\ \/ emitted' = [emitted EXCEPT ![o.from] = @ \ {o.id}]
       \/ UNCHANGED emitted
    /\ UNCHANGED <<tree, shown, loading, drafts, timer, inbox, made, disordered, faded>>

\* The answer does not, though the broadcast is made: the editor forgets that the
\* operation is its own.
LoseAnswer(e, o) ==
    /\ o.from = e /\ o.id \in emitted[e]
    /\ Loss
    /\ emitted' = [emitted EXCEPT ![e] = @ \ {o.id}]
    /\ apart' = apart \cup {e}
    /\ UNCHANGED <<tree, shown, loading, drafts, timer, sent, inbox, made, disordered, faded>>

\* A deviation: an operation is taken for another's although it is the editor's own.
ReceiveEverything(e) ==
    /\ inbox[e] # <<>>
    /\ inbox' = [inbox EXCEPT ![e] = Tail(@)]
    /\ tree' = [tree EXCEPT ![e] = ApplyOperation(shown[e], Head(inbox[e]))]
    /\ apart' = IF shown[e] # tree[e] THEN apart \cup {e} ELSE apart
    /\ UNCHANGED <<shown, loading, drafts, timer, sent, emitted, made, losses, disordered, faded>>

\* handleSseEvent
Receive(e) ==
    /\ inbox[e] # <<>>
    /\ inbox' = [inbox EXCEPT ![e] = Tail(@)]
    /\ LET o == Head(inbox[e])
       IN IF o.id \in emitted[e]
            THEN emitted' = [emitted EXCEPT ![e] = @ \ {o.id}] /\ UNCHANGED <<tree, apart>>
            ELSE /\ tree' = [tree EXCEPT ![e] = ApplyOperation(shown[e], o)]
                 /\ apart' = IF shown[e] # tree[e] THEN apart \cup {e} ELSE apart
                 /\ UNCHANGED emitted
    /\ UNCHANGED <<shown, loading, drafts, timer, sent, made, losses, disordered, faded>>

Render(e) ==
    /\ shown[e] # tree[e]
    /\ shown' = [shown EXCEPT ![e] = tree[e]]
    /\ UNCHANGED <<tree, loading, drafts, network, made, excuses>>

-----------------------------------------------------------------------------
EditByUser(e) ==
    /\ Bounded
    /\ \/ \E p \in Parents : AddBlock(e, p) \/ InsertTemplateBlock(e, p)
       \/ \E b \in Present(shown[e]) :
             \/ DeleteBlock(e, b)
             \/ \E v \in Values : UpdateBlockProps(e, b, v)
             \/ \E p \in Parents : \E i \in DOMAIN shown[e].kids[p] :
                   MoveBlock(e, b, p, i, i + 1) \/ MoveBlock(e, b, p, i, i - 1)

EditingNext ==
    \/ \E e \in Editors :
          \/ EditByUser(e) \/ FireTimer(e) \/ LoadDraft(e) \/ Receive(e) \/ Render(e)
          \/ \E o \in sent \cup Elements(inbox[e]) : LoseAnswer(e, o)
    \/ \E o \in sent :
          \/ LoseRequest(o)
          \/ \E reached \in SUBSET Windows : Broadcast(o, reached)

EditingSpec == EditingInit /\ [][EditingNext]_editingVars

-----------------------------------------------------------------------------
Together == Windows \ (apart \cup loading)

\* All that was broadcast has been received, and all that was done here, broadcast.
UpToDate == {w \in Together : w \in Editors => inbox[w] = <<>> /\ Waiting(w) = {}}

\* Windows that are up to date show the same blocks, however the operations of the
\* editors have crossed: a block that one adds while another moves, deletes or fills
\* its parent is everywhere or nowhere. A window is only set apart by what befalls
\* itself: its request, its answer or a broadcast to it was lost, its addition was
\* overtaken by an operation on what it adds, it changed twice between renderings,
\* or it was opened in the midst of the editing.
SameBlocks ==
    \A v \in UpToDate : \A w \in UpToDate \ {v} : Present(tree[v]) = Present(tree[w])

SameOrder(t, u) ==
    \A p \in {Root} \cup (Present(t) \cap Containers) : t.kids[p] = u.kids[p]

\* Props are alike if they are equal or the server makes them so.
Alike(x, y) == {x, Cleaned[x]} \cap {y, Cleaned[y]} # {}

\* What is up to date also has the blocks in the same order, and like props: what
\* BlockTree does to a window's own tree is what builder_reducer does to all others.
\* Again a window can only differ for what befell itself: its operation crossed one
\* that was broadcast first, or overtook another of its own, and both changed the
\* order, or the props of the same block; or the block's props were waiting in the
\* timer when another block's took their place.
SameTrees ==
    \A v \in UpToDate : \A w \in UpToDate \ {v} :
       /\ {v, w} \cap disordered = {} => SameOrder(tree[v], tree[w])
       /\ \A b \in Present(tree[v]) \ (faded[v] \cup faded[w]) :
             Alike(tree[v].props[b], tree[w].props[b])

=============================================================================
