\* A refund post at any time, nothing fails but commands that time out.
SPECIFICATION RefundSpec
CONSTANTS
    c1 = c1  p1 = p1  p2 = p2  r1 = r1  r2 = r2
    Calls = {c1}
    Lines <- OneLine
    Unknown <- NoLines
    Gifts <- NoLines
    Players = {p1}
    Nobody = Nobody
    Faults = {}
    RefundCalls = {r1}
    RefundsWaitForRest = FALSE
PROPERTIES
    NotDeliveredIsTrue
