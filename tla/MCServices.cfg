\* Three utterances and one open view; three modes.
SPECIFICATION FairSpec
CONSTANTS
    i1 = i1
    i2 = i2
    i3 = i3
    view = view
    Item <- MCItem
    Scope <- MCScope
    NoScope = NoScope
    NoItem = NoItem
    m1 = m1
    m2 = m2
    m3 = m3
    Mode <- MCMode
    NoMode = NoMode
INVARIANTS
    SpeechIsSafe
    ModesAreSafe
PROPERTIES
    SpeechSettles
    ModesRetire
CHECK_DEADLOCK FALSE
