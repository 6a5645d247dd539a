\* One identity whose sessions are all revoked more than once.
SPECIFICATION Spec
CONSTANTS
    t1 = t1  t2 = t2  discord = discord  minecraft = minecraft  w1 = w1  w2 = w2
    Tokens = {t1, t2}
    Identities = {discord}
    Writers = {w1}
    Lifetime = 3
    Skew = 1
    MaxClock = 7
INVARIANTS
    RevokeAllMeansAll
