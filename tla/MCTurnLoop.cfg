SPECIFICATION FairTurnSpec
CONSTANTS
    v1 = v1
    v2 = v2
    talk = talk
    game = game
    Vision <- MCVision
    Mode <- MCMode
    Suspends <- MCSuspends
    NoMode = NoMode
    MaxTyped = 1
    MaxLaunches = 1
CHECK_DEADLOCK FALSE
INVARIANTS
    TurnTypeOK
    MenuWorkWakes
    EndsOnlyOnClose
PROPERTIES
    VisionAnswered
    CloseEndsWorker
