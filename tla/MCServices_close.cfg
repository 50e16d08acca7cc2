\* The registry's claim about close(), which a start under way refutes.
SPECIFICATION Spec
CONSTANTS
    i1 = i1
    i2 = i2
    i3 = i3
    view = view
    Item <- MCItem
    Scope <- MCScope
    NoScope = NoScope
    NoItem = NoItem
    m1 = m1
    m2 = m2
    m3 = m3
    Mode <- MCMode
    NoMode = NoMode
PROPERTY
    NoStartAfterClose
CHECK_DEADLOCK FALSE
