\* Every part that MCService instantiates, one of them in each behaviour.  A part
\* may come to rest: its requests are answered or its clock is at its bound.
SPECIFICATION ServiceSpec
CONSTANTS
    p1 = p1  p2 = p2  p3 = p3  d1 = d1  d2 = d2  k1 = k1  k2 = k2
    r1 = r1  r2 = r2  r3 = r3  i1 = i1  i2 = i2
    read = read  crash = crash  Off = Off
    LinkPlayers = {p1, p2}  Discords = {d1, d2}  LinkCodes = {k1, k2}
    LinkCalls = {r1, r2}  MaxRewards = 1
    Buyers = {p1, p2}  Askers = {p1}  Subs = {k1, k2}  Owner <- OwnerOf  Foreign = {k2}
    Names = {p1, p2}  Mojang = {p1}  Quantities = {0, 100}
    CacheRequests = {r1}  CacheMaxClock = 4
    BoardPlayers = {1, 2, 3}  BoardValues = {0, 1}  PageCap = 2  MaxMoves = 2
    DmMessages = {1}  Drains = {d1, d2}  MaxAttempts = 2  HourlyCap = 1
    Lease = 1  DmMaxClock = 3
    Calendar = {"omen"}  Omens = {"omen"}  Votes = {"vote"}  Personal = {"told"}
    Window <- Shown  NoticePasses = {d1, d2}  PerHour = 1  Hour = 2  Cooldown = 2
    LastMinute = 2
    Entries = {r1}  Releases = {r2}  Posts = {r3}
    DayPasses = {d1, d2}  MaxDay = 2  CatchUp = 2
    AlertKeys = {k1}  AlertLines = {r1}  Hourly = {k2}  Sweeps = {d1}
    LimitIps = {i1}  Limiters = {read, crash}  LimitWindow <- Span  Limit <- One
    Budget = 3  Costs = {2}  LimitMaxClock = 2
    GatePlayers = {p1}  Asserted = {p1, p2}  Staff = {p1}
    Queries = {r1, r2, r3}  SlotCap = 1  RowCap = 2
    Conns = {r1, r2}  StreamIps = {i1, i2}  PerIp = 1  PerIsolate = 2  RingSize = 2
    Interval = 1  StreamMaxClock = 2  MaxSeq = 3
    RefPlayers = {p1, p2, p3}  Newcomers = {p3}  Owners = {p1, p2}  RefCodes = {k1}
    RefRequests = {r1, r2}
    CommandCalls = {r1, r2}  Actors = {p1, p2}
INVARIANTS
    ServiceTypeOK
    IdentityIsProven
    
    SubscriptionsAreOwn
    
    AnswerIsRecent
    PagesPartition
    SentOnce
    EntryIsKept
    
    AlertsAlternate
    
    
PROPERTIES
    ClosedCancelWasCached
    
CHECK_DEADLOCK FALSE
