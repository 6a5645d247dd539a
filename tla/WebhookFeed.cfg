\* A tailer pass that reads two feed rows at a time and may be cut off at any
\* await, feeding one delivery tick.
SPECIFICATION LiveSpec
CONSTANTS
    s1 = s1  d1 = d1  d2 = d2  t1 = t1
    Subs = {s1}
    FeedLength = 3
    Pings <- NoPings
    Wants <- ToAll
    Ticks = {d1}
    Tailers = {t1}
    Batch = 1
    Lease = 2
    Delays <- Ladder
    MaxAttempts = 2
    GoneLimit = 2
    Window = 2
    Mortal = {t1}
INVARIANTS
    CursorIsBehindQueue
PROPERTIES
    EveryDeliveryCloses
