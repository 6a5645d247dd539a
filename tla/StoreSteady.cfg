\* One call at a time, reliable claims, no crash: the promise and liveness.
\* Line 1 is a gift; ledger writes may be lost.
SPECIFICATION LiveSpec
CONSTANTS
    c1 = c1  c2 = c2  p1 = p1  p2 = p2
    Calls = {c1}
    Lines <- TwoLines
    Unknown <- NoLines
    Gifts <- OneGift
    Players = {p1}
    Nobody = Nobody
    Faults = {"ledger"}
INVARIANTS
    DeliveredHasGoods
    NoOrphanClaim
    SettledIsDelivered
PROPERTIES
    ImplementsPromise
    PaidOrderIsDelivered
