\* A session of a player with a Discord id and a Minecraft uuid, revoked by two
\* overlapping requests, over three lifetimes.
SPECIFICATION Spec
CONSTANTS
    t1 = t1  t2 = t2  discord = discord  minecraft = minecraft  w1 = w1  w2 = w2
    Tokens = {t1}
    Identities = {discord, minecraft}
    Writers = {w1, w2}
    Lifetime = 2
    Skew = 1
    MaxClock = 6
SYMMETRY Symmetries
INVARIANTS
    TypeOK
    LoggedOutStaysOut
    ForcedOutStaysOut
    LaterLoginWorks
