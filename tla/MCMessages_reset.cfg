\* The claim about restarts, which an interrupted reset refutes.
SPECIFICATION MessagesSpec
CONSTANTS
    BlobCount = 1
    Size <- MCSize
    ChunkSize = 2
    MaxEdits = 1
    MaxFaults = 1
    Nonce = {n1, n2}
    Handler = {h1, h2}
    NoNonce = none
    Skew = 1
    MaxStall = 2
    MaxBack = 2
    MaxTime = 7
    c1 = c1
    c2 = c2
    Cmd <- MCCmd
    Media <- MCMedia
    NoCmd = NoCmd
    MaxAttempts = 2
    r1 = r1
    r2 = r2
    r3 = r3
    Check <- MCCheck
    NoCheck = NoCheck
    LastEvent = 3
    Slot = {s1, s2}
    FeedWindow = 2
INVARIANT
    OffsetIsBacked
CHECK_DEADLOCK FALSE
