--------------------------- MODULE ResponseCache ---------------------------
(***************************************************************************)
(* swrJson (src/src/api/expansion/cache.ts), the stale-while-revalidate    *)
(* cache in front of the public boards and cards: the edge cache, an entry *)
(* in the response cache, and the last good value of this isolate.         *)
(*                                                                         *)
(* One key, of one of the routes.  A payload is abstracted to its kind and *)
(* (history) the time its rows were read.  What a request or a background  *)
(* task does takes less than a unit of time.                               *)
(***************************************************************************)
EXTENDS Naturals

CONSTANTS
    Requests,   \* requests in flight at once
    Routes,     \* the routes explored
    MaxClock    \* bound of the exploration

VARIABLES
    route,   \* the route, fixed
    clock,
    edge,    \* the response in the edge cache, or Nothing
    entry,   \* the entry in the response cache, or Nothing
    good,    \* lastGood of this isolate, or Nothing
    tasks,   \* background work: refreshes and writes not yet done
    req,     \* what each request has read and will do next
    answer   \* the answer given last

vars == <<route, clock, edge, entry, good, tasks, req, answer>>

(* 1, 5 and twice 1440 minutes in the code; only their order matters.       *)
SWR_FRESH == 1
SWR_STALE == 2
SWR_LAST_GOOD_MAX == 3
SWR_REDIS_TTL == 3

StaffRoutes == {"drift", "liveops", "contraband"}
isPrivate == route \in StaffRoutes

Kinds == {"rows", "degraded", "gone"}
Data(kind) == [kind |-> kind, at |-> clock]
Failed == [kind |-> "failed", at |-> 0]
Nothing == [kind |-> "none", at |-> 0, stamp |-> 0]
Entry(data) == [kind |-> data.kind, at |-> data.at, stamp |-> clock]
Idle == [step |-> "idle", held |-> Nothing]
NoAnswer == [how |-> "none", kind |-> "none", at |-> 0]

-----------------------------------------------------------------------------
(* The fetchers.  up: which statements do not fail this time, and whether   *)
(* the row asked for exists.                                                *)
Statements == {"game", "copy", "side", "row"}

(* gameRowsOrFallback: no answer from the game database is no rows.         *)
gameRowsOrFallback(up) == {"game", "row"} \subseteq up

(* The boards: the game database's rows, else Postgres, else the failure.   *)
fetchExpansionBoard(up) ==
    IF gameRowsOrFallback(up) \/ "copy" \in up THEN Data("rows") ELSE Failed
getLeaderboard(up) == fetchExpansionBoard(up)

(* legions/:id: undefined without a legion; the war record may be missing.  *)
legionCard(up) ==
    CASE "copy" \notin up -> Failed
      [] "copy" \in up /\ "row" \notin up -> Data("gone")
      [] OTHER -> Data("rows")

(* softRows: a table that cannot be read is an empty one, and says so.      *)
softRows(up) == Data(IF "side" \in up THEN "rows" ELSE "degraded")

(* seasons/current: the season must be readable, calendar and festivals     *)
(* degrade; seasons/hall/:id, bounties/top and the staff views only degrade.*)
currentSeason(up) == IF "copy" \in up THEN softRows(up) ELSE Failed
seasonHall(up) == softRows(up)
bountiesTop(up) == softRows(up)
driftAlerts(up) == softRows(up)
liveops(up) == softRows(up)
contrabandSweeps(up) == softRows(up)

(* flow-summary: the hourly rollup, else the ledger, else the failure.      *)
flowSummary(up) == IF {"side", "copy"} \cap up # {} THEN Data("rows") ELSE Failed

(* shop/catalog: a constant of the code.                                    *)
shopCatalog(up) == Data("rows")

fetcher(up) ==
    CASE route = "board"      -> getLeaderboard(up)
      [] route = "card"       -> legionCard(up)
      [] route = "current"    -> currentSeason(up)
      [] route = "hall"       -> seasonHall(up)
      [] route = "bounties"   -> bountiesTop(up)
      [] route = "drift"      -> driftAlerts(up)
      [] route = "liveops"    -> liveops(up)
      [] route = "contraband" -> contrabandSweeps(up)
      [] route = "flow"       -> flowSummary(up)
      [] route = "catalog"    -> shopCatalog(up)

-----------------------------------------------------------------------------
Init ==
    /\ route \in Routes
    /\ clock = 1
    /\ edge = Nothing /\ entry = Nothing /\ good = Nothing
    /\ tasks = {}
    /\ req = [r \in Requests |-> Idle]
    /\ answer = NoAnswer

(* What is kept: in the isolate, after the response, and at the edge, which *)
(* may be absent or refuse, and gets no staff payload.                      *)
rememberGood(data) == good' = Entry(data)
afterResponse(do, of) == tasks' = tasks \cup {[do |-> do, of |-> of]}
edgePut(data) == edge' \in {edge, IF isPrivate THEN edge ELSE Entry(data)}

Respond(r, how, kind, at) ==
    /\ answer' = [how |-> how, kind |-> kind, at |-> at]
    /\ req' = [req EXCEPT ![r] = Idle]

(* edgeMatch: a hit is younger than its own max-age; no cache is a miss.    *)
Arrive(r) ==
    /\ req[r] = Idle
    /\ req' = [req EXCEPT ![r].step = IF isPrivate THEN "redis" ELSE "edge"]
    /\ UNCHANGED <<route, clock, edge, entry, good, tasks, answer>>

edgeMatch(r) ==
    /\ req[r].step = "edge"
    /\ \/ /\ edge # Nothing
          /\ clock <= edge.stamp + SWR_FRESH
          /\ Respond(r, "EDGE", edge.kind, edge.at)
       \/ /\ req' = [req EXCEPT ![r].step = "redis"]
          /\ UNCHANGED answer
    /\ UNCHANGED <<route, clock, edge, entry, good, tasks>>

(* getCachedJson: a miss, a failure and a timeout all read as nothing.      *)
(* HIT answers; STALE answers and refreshes after the response; anything    *)
(* older, or nothing, is fetched now.                                       *)
getCachedJson(r, found) ==
    /\ req[r].step = "redis"
    /\ \/ /\ found # Nothing /\ clock <= found.stamp + SWR_FRESH
          /\ Respond(r, "HIT", found.kind, found.at)
          /\ UNCHANGED tasks
       \/ /\ found # Nothing
          /\ clock > found.stamp + SWR_FRESH /\ clock <= found.stamp + SWR_STALE
          /\ Respond(r, "STALE", found.kind, found.at)
          /\ afterResponse("revalidate", Nothing)
       \/ /\ found = Nothing \/ clock > found.stamp + SWR_STALE
          /\ req' = [req EXCEPT ![r] = [step |-> "fetch", held |-> found]]
          /\ UNCHANGED <<tasks, answer>>
    /\ UNCHANGED <<route, clock, edge, entry, good>>

(* recallGood: not a value older than SWR_LAST_GOOD_MAX_MS.                 *)
recallGood == IF clock > good.stamp + SWR_LAST_GOOD_MAX THEN Nothing ELSE good

(* Mutant: a failed fetch keeps what it served as if it had been fetched.   *)
FetchFailsRestamp(r) ==
    LET held == IF req[r].held # Nothing THEN req[r].held ELSE recallGood IN
    /\ IF held = Nothing
       THEN Respond(r, "FAILED", "none", 0) /\ UNCHANGED tasks
       ELSE /\ Respond(r, "STALE-ERROR", held.kind, held.at)
            /\ afterResponse("write", Entry(held))
    /\ UNCHANGED <<edge, good>>

(* The catch of MISS: the entry whatever its age, else the last good value, *)
(* else the failure goes to the route, which answers 503.                   *)
FetchFails(r) ==
    LET held == IF req[r].held # Nothing THEN req[r].held ELSE recallGood IN
    /\ IF held = Nothing THEN Respond(r, "FAILED", "none", 0)
       ELSE Respond(r, "STALE-ERROR", held.kind, held.at)
    /\ UNCHANGED <<edge, good, tasks>>

(* MISS: undefined is a 404, and nothing is kept; else the value goes to    *)
(* lastGood, to the response cache after the response, and to the edge.     *)
FetchMiss(r, up) ==
    LET fresh == fetcher(up) IN
    /\ req[r].step = "fetch"
    /\ IF fresh = Failed THEN FetchFails(r)
       ELSE IF fresh.kind = "gone"
       THEN Respond(r, "NOTFOUND", "gone", clock) /\ UNCHANGED <<edge, good, tasks>>
       ELSE /\ Respond(r, "MISS", fresh.kind, fresh.at)
            /\ rememberGood(fresh)
            /\ afterResponse("write", Entry(fresh))
            /\ edgePut(fresh)
    /\ UNCHANGED <<route, clock, entry>>

(* revalidate: what was fetched is kept, a failure keeps the stale value.   *)
revalidate(up) ==
    LET fresh == fetcher(up) IN
    /\ \E t \in tasks :
          /\ t.do = "revalidate"
          /\ IF fresh = Failed THEN tasks' = tasks \ {t} /\ UNCHANGED good
             ELSE /\ rememberGood(fresh)
                  /\ tasks' = (tasks \ {t}) \cup {[do |-> "write", of |-> Entry(fresh)]}
    /\ UNCHANGED <<route, clock, edge, entry, req, answer>>

(* setCachedJson: best effort.                                              *)
setCachedJson ==
    /\ \E t \in tasks :
          /\ t.do = "write"
          /\ tasks' = tasks \ {t}
          /\ entry' \in {entry, t.of}
    /\ UNCHANGED <<route, clock, edge, good, req, answer>>

(* A deploy recycles the isolate: its memory and its background work go.    *)
Recycle ==
    /\ good # Nothing \/ tasks # {}
    /\ good' = Nothing /\ tasks' = {}
    /\ req' = [r \in Requests |-> Idle]
    /\ UNCHANGED <<route, clock, edge, entry, answer>>

(* Time passes when nothing is in flight; the response cache and the edge   *)
(* drop what is past its time to live, or sooner.                           *)
Tick ==
    /\ clock < MaxClock
    /\ tasks = {} /\ \A r \in Requests : req[r] = Idle
    /\ clock' = clock + 1
    /\ entry' \in {Nothing, IF clock' > entry.stamp + SWR_REDIS_TTL THEN Nothing ELSE entry}
    /\ edge' = IF clock' > edge.stamp + SWR_FRESH THEN Nothing ELSE edge
    /\ answer' = NoAnswer
    /\ UNCHANGED <<route, good, tasks, req>>

Next ==
    \/ \E r \in Requests :
          \/ Arrive(r) \/ edgeMatch(r)
          \/ \E found \in {entry, Nothing} : getCachedJson(r, found)
          \/ \E up \in SUBSET Statements : FetchMiss(r, up)
    \/ \E up \in SUBSET Statements : revalidate(up)
    \/ setCachedJson \/ Recycle \/ Tick

Spec == Init /\ [][Next]_vars

-----------------------------------------------------------------------------
DataType == [kind : Kinds \cup {"none"}, at : 0..MaxClock, stamp : 0..MaxClock]
CacheTypeOK ==
    /\ route \in Routes /\ clock \in 1..MaxClock
    /\ {edge, entry, good} \subseteq DataType
    /\ tasks \subseteq [do : {"revalidate", "write"}, of : DataType]
    /\ req \in [Requests -> [step : {"idle", "edge", "redis", "fetch"}, held : DataType]]
    /\ answer \in [how : {"none", "EDGE", "HIT", "STALE", "MISS", "STALE-ERROR", "NOTFOUND", "FAILED"},
                   kind : Kinds \cup {"none"}, at : 0..MaxClock]

(* X-Cache tells the truth: whatever route a payload took through the three *)
(* stores, one marked EDGE or HIT was read from the database no longer ago  *)
(* than SWR_FRESH, STALE than SWR_STALE, STALE-ERROR than the day that      *)
(* bounds both stores; and no staff payload comes from the edge.            *)
MaxAge(how) ==
    CASE how \in {"EDGE", "HIT"} -> SWR_FRESH
      [] how = "STALE" -> SWR_STALE
      [] how = "STALE-ERROR" -> SWR_LAST_GOOD_MAX
      [] OTHER -> 0
AnswerIsRecent ==
    answer.how \in {"EDGE", "HIT", "STALE", "MISS", "STALE-ERROR"} =>
        /\ clock <= answer.at + MaxAge(answer.how)
        /\ answer.how = "EDGE" => ~isPrivate

(* "A fetcher resolving to undefined means not found: the response is a 404 *)
(* and nothing is cached" (cache.ts:130).  Violated: a background refresh   *)
(* keeps what it fetched whatever it is.                                    *)
NotFoundIsNotCached == "gone" \notin {entry.kind, good.kind, edge.kind}
=============================================================================
