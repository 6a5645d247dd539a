\* Two overlapping posts of an order with one known and one unknown line whose
\* customer may resolve to either of two players.  Every fault may happen:
\* claim, release and ledger writes may fail and the isolate may die.
SPECIFICATION Spec
CONSTANTS
    c1 = c1  c2 = c2  p1 = p1  p2 = p2
    Calls = {c1, c2}
    Lines <- TwoLines
    Unknown <- LastLine
    Gifts <- NoLines
    Players = {p1, p2}
    Nobody = Nobody
    Faults = {"claim", "release", "ledger", "crash"}
SYMMETRY CallSymmetry
INVARIANTS
    TypeOK
    OneOwnerPerLine
    DeliveredKeepsClaim
    CreditedAtMostOnce
PROPERTIES
    DeliveredIsFinal
