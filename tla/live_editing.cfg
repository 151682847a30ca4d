SPECIFICATION EditingSpec
CONSTANTS
    old = old
    section = section
    text = text
    new1 = new1
    new2 = new2
    new3 = new3
    item = item
    bold = bold
    markup = markup
    styled = markup
    Editors = {ann, bob}
    Previews = {preview}
    Blocks <- MCBlocks
    Containers <- MCContainers
    Root = root
    Initial <- MCInitial
    Page <- MCPage
    NewBlock <- MCNewBlock
    Template <- MCTemplate
    Values = {plain, bold, markup}
    Plain = plain
    Cleaned <- MCCleaned
    Stored <- MCCleaned
    MaxEvents = 3
SYMMETRY Symmetry
CONSTRAINT Interesting
INVARIANT SameBlocks
INVARIANT SameTrees
CHECK_DEADLOCK FALSE
