\* Two overlapping posts, nothing fails but a command that times out.
SPECIFICATION Spec
CONSTANTS
    c1 = c1  c2 = c2  p1 = p1  p2 = p2
    Calls = {c1, c2}
    Lines <- OneLine
    Unknown <- NoLines
    Gifts <- NoLines
    Players = {p1}
    Nobody = Nobody
    Faults = {}
INVARIANTS
    NothingLostAtRest
