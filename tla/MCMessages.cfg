\* Two blobs, edits of both sources and three faults of any kind; two requests,
\* two threads, stalls and clock steps as long as may be, and time enough for a
\* nonce to be forgotten; two commands, one with media, tried twice; three
\* receipt checks; three events of any kind in a window of two.
SPECIFICATION MessagesSpec
CONSTANTS
    BlobCount = 2
    Size <- MCSize
    ChunkSize = 2
    MaxEdits = 2
    MaxFaults = 3
    Nonce = {n1, n2}
    Handler = {h1, h2}
    NoNonce = none
    Skew = 1
    MaxStall = 2
    MaxBack = 2
    MaxTime = 7
    c1 = c1
    c2 = c2
    Cmd <- MCCmd
    Media <- MCMedia
    NoCmd = NoCmd
    MaxAttempts = 2
    r1 = r1
    r2 = r2
    r3 = r3
    Check <- MCCheck
    NoCheck = NoCheck
    LastEvent = 3
    Slot = {s1, s2}
    FeedWindow = 2
INVARIANTS
    AuthIsSafe
PROPERTIES
    BlobsAreKept
    TransferEnds
    CommandsAreSafe
    LinkAnswers
    FeedIsHonest
CHECK_DEADLOCK FALSE
