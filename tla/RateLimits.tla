----------------------------- MODULE RateLimits -----------------------------
(***************************************************************************)
(* The two rate limiters, whose counters are rows of D1.  The first        *)
(* (src/src/middleware/rateLimit.ts) has one row for each limiter, caller  *)
(* and window; the second (src/src/middleware/rateLimitV2.ts) charges the  *)
(* cost of a request to one row per bucket.  Both count with an atomic     *)
(* upsert, clean old rows up now and then, and let everything through when *)
(* D1 fails.                                                               *)
(***************************************************************************)
EXTENDS Naturals, FiniteSets

CONSTANTS
    Ips,       \* callers
    Limiters,  \* the limiters of the first kind
    Window,    \* window of each, in the ticks of the clock
    Limit,     \* requests of each per window
    Budget,    \* budget of a bucket of the second kind
    Costs,     \* COST_BY_CLASS of the classes that are charged
    MaxClock

VARIABLES
    now,
    hits,      \* rate_limit_windows: the rows of the first kind
    cost,      \* rate_limit_v2_windows: cost and first window of each bucket
    admitted,  \* (history) requests let through, by window; counted to one above the limit
    forgotten, \* (history) running windows whose row was removed, and by whose cleanup
    spent,     \* (history) what a caller was charged in the current window
    refused    \* (history) the caller was refused within its budget

limitVars == <<now, hits, cost, admitted, forgotten, spent, refused>>

(* The second kind has windows of one tick, one bucket for each caller of   *)
(* either class, one for the principal the callers share.                   *)
Buckets == Ips \cup {"principal"}
WINDOW_MS == 1
NoRow == [start |-> 0, cost |-> 0, there |-> FALSE]

windowStart(t, w) == (t \div w) * w
Starts == 0..MaxClock
Keys == Limiters \X Ips \X Starts

AtMost(a, b) == IF a < b THEN a ELSE b

Init ==
    /\ now = 0
    /\ hits = [k \in Keys |-> 0]
    /\ cost = [b \in Buckets |-> NoRow]
    /\ admitted = [k \in Keys |-> 0] /\ forgotten = {}
    /\ spent = [b \in Buckets |-> 0] /\ refused = FALSE

Tick ==
    /\ now < MaxClock /\ now' = now + 1
    /\ spent' = [b \in Buckets |-> 0]
    /\ UNCHANGED <<hits, cost, admitted, forgotten, refused>>

-----------------------------------------------------------------------------
allows(h, l) == h <= Limit[l]

(* rateLimit: one upsert counts the request.                                *)
rateLimit(l, ip) ==
    LET k == <<l, ip, windowStart(now, Window[l])>> IN
    /\ hits[k] <= Limit[l]
    /\ hits' = [hits EXCEPT ![k] = @ + 1]
    /\ admitted' = [admitted EXCEPT ![k] = IF allows(hits[k] + 1, l) THEN AtMost(@ + 1, Limit[l] + 1) ELSE @]
    /\ UNCHANGED <<now, cost, forgotten, spent, refused>>

(* Mutant: the cleanup does not leave the running window alone.             *)
BegunBefore(k, l) == k[3] < now

(* Its cleanup: every row that began longer ago than this limiter's window, *)
(* of whichever limiter it is.                                              *)
expired(k, l) == k[3] + Window[l] < now

cleanup(l) ==
    LET old == {k \in Keys : hits[k] > 0 /\ expired(k, l)} IN
    /\ old # {}
    /\ hits' = [k \in Keys |-> IF k \in old THEN 0 ELSE hits[k]]
    /\ forgotten' = forgotten \cup {<<k, l>> : k \in {r \in old : r[3] = windowStart(now, Window[r[1]])}}
    /\ UNCHANGED <<now, cost, admitted, spent, refused>>

(* consumeBuckets: the bucket of the address and that of the principal, if  *)
(* there is one, in one transaction; a row keeps its first window_start.    *)
Charged(row, c) ==
    [start |-> IF row.there THEN row.start ELSE windowStart(now, WINDOW_MS),
     cost |-> row.cost + c, there |-> TRUE]
rateLimitV2(asks, c) ==
    /\ asks \cap Ips # {} /\ Cardinality(asks \cap Ips) = 1
    /\ \A b \in asks : cost[b].cost <= Budget
    /\ cost' = [b \in Buckets |-> IF b \in asks THEN Charged(cost[b], c) ELSE cost[b]]
    /\ spent' = [b \in Buckets |-> IF b \in asks THEN spent[b] + c ELSE spent[b]]
    /\ refused' = (refused \/ ( /\ \E b \in asks : cost'[b].cost > Budget
                                /\ \A b \in asks : spent'[b] <= Budget ))
    /\ UNCHANGED <<now, hits, admitted, forgotten>>
cleanupV2 ==
    LET old == {b \in Buckets : cost[b].there /\ cost[b].start + WINDOW_MS < now} IN
    /\ old # {}
    /\ cost' = [b \in Buckets |-> IF b \in old THEN NoRow ELSE cost[b]]
    /\ UNCHANGED <<now, hits, admitted, forgotten, spent, refused>>

Next ==
    \/ Tick \/ cleanupV2
    \/ \E l \in Limiters : cleanup(l) \/ \E ip \in Ips : rateLimit(l, ip)
    \/ \E asks \in SUBSET Buckets, c \in Costs : rateLimitV2(asks, c)

Spec == Init /\ [][Next]_limitVars

-----------------------------------------------------------------------------
LimitTypeOK ==
    /\ now \in 0..MaxClock
    /\ hits \in [Keys -> Nat] /\ admitted \in [Keys -> Nat]
    /\ forgotten \subseteq Keys \X Limiters /\ refused \in BOOLEAN
    /\ \A b \in Buckets : cost[b].start \in Starts /\ cost[b].cost \in Nat

(* No window of a limiter lets more requests of a caller through than its   *)
(* limit, unless a cleanup forgot it while it ran; and only the cleanup of  *)
(* a limiter with a shorter window can do that.                             *)
LimitHolds ==
    /\ \A k \in Keys : admitted[k] > Limit[k[1]] => \E f \in forgotten : f[1] = k
    /\ \A f \in forgotten : Window[f[2]] < Window[f[1][1]]

(* "Fixed 60s windows": who stays within the budget of the window is not    *)
(* refused (rateLimitV2.ts).                                                *)
WindowsStartAfresh == ~refused
=============================================================================
