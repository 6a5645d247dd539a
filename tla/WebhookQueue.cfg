\* Two overlapping delivery ticks that may be cut off at any await; a tick of
\* two rows is shorter than the lease.
SPECIFICATION Spec
CONSTANTS
    s1 = s1  d1 = d1  d2 = d2  t1 = t1
    Subs = {s1}
    FeedLength = 0
    Pings <- TwoPings
    Wants <- ToAll
    Ticks = {d1, d2}
    Tailers = {}
    Batch = 2
    Lease = 3
    Delays <- Ladder
    MaxAttempts = 3
    GoneLimit = 2
    Window = 1
    Mortal = {d1, d2}
SYMMETRY TickSymmetry
INVARIANTS
    TypeOK
    NeverDoubleConcurrent
    DeadIsEarned

    
