--------------------------- MODULE MCLiveEditing ---------------------------
(***************************************************************************)
(* A small instance of LiveEditing: a page of two blocks, whose draft has  *)
(* two as well, and a template of two.                                     *)
(***************************************************************************)
EXTENDS LiveEditing, TLC

CONSTANTS
    old, section, text, new1, new2, new3, item,
    bold, markup,   \* markup is what the server removes
    styled          \* the props of the template's blocks

MCBlocks == {old, section, text, new1, new2, new3, item}
MCContainers == {section, new1}
MCInitial == <<section, text>>
MCPage == <<text, old>>

MCNewBlock == <<new1, new2, new3>>
MCTemplate ==
    LET Single == [kids |-> Bare, props |-> styled]
    IN <<[kids |-> [Bare EXCEPT ![new1] = <<item>>], props |-> Plain], Single, Single>>

MCCleaned == [v \in Values |-> IF v = markup THEN bold ELSE v]

Draft == Flat(Initial)

\* Nothing is said of what follows when all windows but one are apart. An editor that
\* renders before it acts again may as well render at once. Three operations are followed
\* as long as no window is apart, no draft has to come and the blocks of the first are
\* there; two, once props were set.
Interesting ==
    /\ Cardinality(Together) > 1
    /\ Cardinality({e \in Editors : shown[e] # tree[e]}) < 2
    /\ loading # {} \/ drafts # {Draft} => made < 2
    /\ made > 2 => apart = {} /\ \E w \in Windows : tree[w].kids[new1] # <<>>
    /\ made + losses > 2 => \A w \in Windows : tree[w].props = Draft.props

Symmetry == Permutations(Editors)
=============================================================================
