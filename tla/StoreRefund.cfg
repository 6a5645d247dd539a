\* Two overlapping refund posts after a two-line order has come to rest, while
\* PayNow may still repeat the order post.
SPECIFICATION RefundSpec
CONSTANTS
    c1 = c1  p1 = p1  p2 = p2  r1 = r1  r2 = r2
    Calls = {c1}
    Lines <- TwoLines
    Unknown <- NoLines
    Gifts <- NoLines
    Players = {p1}
    Nobody = Nobody
    Faults = {}
    RefundCalls = {r1, r2}
    RefundsWaitForRest = TRUE
INVARIANTS
    RefundTypeOK
    NothingKeptAfterRefund
    DeliveredIsRevocable
PROPERTIES
    RefundedStaysQuiet
    RefundImplementsPromise
