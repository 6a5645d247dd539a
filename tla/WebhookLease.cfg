\* The proportions of the code: a tick's batch takes longer than the lease
\* (20 POSTs of 10 s against 120 s, here 3 against 2).  Nothing dies.
SPECIFICATION Spec
CONSTANTS
    s1 = s1  d1 = d1  d2 = d2  t1 = t1
    Subs = {s1}
    FeedLength = 0
    Pings <- ThreePings
    Wants <- ToAll
    Ticks = {d1, d2}
    Tailers = {}
    Batch = 3
    Lease = 2
    Delays <- Ladder
    MaxAttempts = 3
    GoneLimit = 2
    Window = 1
    Mortal = {}
SYMMETRY TickSymmetry
INVARIANTS
    NeverDoubleConcurrent
