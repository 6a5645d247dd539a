\* One caller, a budget of three units a window, reads that cost one: what the
\* windows before left in the bucket counts in this one.
SPECIFICATION Spec
CONSTANTS
    i1 = i1
    Ips = {i1}
    Limiters = {}
    Window <- NoWindow
    Limit <- NoWindow
    Budget = 3
    Costs = {1}
    MaxClock = 3
INVARIANT
    WindowsStartAfresh
CHECK_DEADLOCK FALSE
