---------------------------- MODULE PlayerReads ----------------------------
(***************************************************************************)
(* What a player's own data is answered from (under src/src:               *)
(* api/routes.ts, db/gameMysql.ts, db/pool.ts, db/sqlite.ts): the live     *)
(* game database, its Postgres copy, which lags, and a local SQLite file;  *)
(* each read may fail.  A route answers from the first source that does    *)
(* not fail; some also go on when a source has no row.                     *)
(*                                                                         *)
(* The rows of one player are abstracted to which tables hold any.  An     *)
(* answer carries what it shows, and (history) how each read went.         *)
(***************************************************************************)
EXTENDS Naturals

VARIABLES
    game,   \* the live tables that hold rows of the player
    copy,   \* the same of the Postgres copy
    local,  \* whether the SQLite file knows the player
    kept,   \* player_profile:<uuid> in the response cache, or Uncached
    beat,   \* ImperiumMC:online_count: whether the heartbeat key is there
    memo,   \* statusCountMemo: the count of the last ten seconds, or NoMemo
    answer  \* the answer given last

dataVars == <<game, copy, local>>
vars == <<dataVars, kept, beat, memo, answer>>

Tables == {"names", "ranks", "balances", "rows"}

Down == "down"
Row == "row"
Empty == "empty"
Read(tables, t) == {IF t \in tables THEN Row ELSE Empty, Down}

(* from: the source that answered, of: the tables it was asked for;         *)
(* shows: whose rows; flag: an error or a degraded marker comes with them.  *)
Answer(status, from, of, shows, flag) ==
    [status |-> status, from |-> from, of |-> of, shows |-> shows, flag |-> flag]
Data(source, of, r) == Answer(200, source, of, IF r = Row THEN source ELSE "nothing", FALSE)
Failed(status) == Answer(status, "none", {}, "nothing", TRUE)
NoAnswer == Answer(0, "none", {}, "nothing", FALSE)
Uncached == NoAnswer
NoMemo == "none"

-----------------------------------------------------------------------------
(* Mutant: every failure becomes an empty result (the code before B-11).    *)
gameQuerySwallows(t) == {IF t \in game THEN Row ELSE Empty, Empty}

(* gameQuery: an empty array is always a real result, a failure is thrown   *)
(* as GameMySqlUnavailableError.                                            *)
gameQuery(t) == Read(game, t)

(* query: one connection per statement, every failure is thrown.            *)
query(t) == Read(copy, t)

(* One statement each: getGamePlayerStats to getGameParkourRecords, and     *)
(* getGamePlayerCosmetics, getGamePlayerDailyQuests.                        *)
getGamePlayerTable == gameQuery("rows")
getGamePlayerCards == gameQuery("rows")

getGamePlayerProfile == gameQuery("ranks")
getGamePlayerBalances == gameQuery("balances")

(* Key counts of the two stores, votes and daily rewards: both statements   *)
(* must answer, either may hold rows.                                       *)
Both(A, B) == {IF Down \in {a, b} THEN Down ELSE IF Row \in {a, b} THEN Row ELSE Empty :
                 a \in A, b \in B}
getGameCrateKeys == Both(gameQuery("rows"), gameQuery("rows"))
getGamePlayerRewards == Both(gameQuery("rows"), gameQuery("ranks"))

(* A later statement that can only make the answer fail.                    *)
Then(A, B) == {IF Down \in {a, b} THEN Down ELSE a : a \in A, b \in B}
getGameLegion == Then(gameQuery("rows"), gameQuery("rows"))

-----------------------------------------------------------------------------
(* getPlayerProfile: without a rank row a name makes a minimal profile.     *)
getPlayerProfile ==
    {Row : r \in query("ranks") \cap {Row}} \cup (query("ranks") \cap {Down})
    \cup (IF "ranks" \in copy THEN {} ELSE query("names"))

getPlayerBalances == query("balances")
getPlayerStats == query("rows")
getPlayerTransactions == Then(query("rows"), query("rows"))

(* getPlayerSkills: a failed rank read is answered as no points, which is   *)
(* not told from none earned; the nodes decide what is shown.               *)
getPlayerSkills == query("rows")
getPlayerFactions == query("rows")
getPlayerParkour == query("rows")
getPlayerAchievements == query("rows")
getPlayerCosmetics == query("rows")
getPlayerDailyQuests == query("rows")

(* getPlayerLegion: a membership without its legion row is no legion, so an *)
(* answer without one rests on no single table.                             *)
getPlayerLegion == Then(query("rows"), query("rows")) \cup {Empty}

(* The SQLite file: a failure of any kind reads as no profile.              *)
sqliteProfile == {IF local THEN Row ELSE Empty, Empty}

-----------------------------------------------------------------------------
(* Postgres answers for a game database that failed; when it fails too the  *)
(* error handler answers 500.                                               *)
FromCopy(r, of) == IF r = Down THEN Failed(500) ELSE Data("copy", of, r)
OnOutage(game_, copy_, of) ==
    {Data("game", of, g) : g \in game_ \ {Down}}
    \cup (IF Down \in game_ THEN {FromCopy(r, of) : r \in copy_} ELSE {})

(* A game database without a row is asked no further, but the copy is.      *)
OnNoRow(game_, copy_, of) ==
    {Data("game", of, g) : g \in game_ \cap {Row}} \cup {FromCopy(r, of) : r \in copy_}

BalancesRoute     == OnOutage(getGamePlayerBalances, getPlayerBalances, {"balances"})
StatsRoute        ==
    {IF a.shows = "nothing" /\ a.status = 200 THEN [a EXCEPT !.status = 404] ELSE a :
        a \in OnNoRow(getGamePlayerTable, getPlayerStats, {"rows"})}
TransactionsRoute == OnOutage(Then(gameQuery("rows"), gameQuery("rows")), getPlayerTransactions, {"rows"})
SkillsRoute       == OnOutage(Then(getGamePlayerTable, gameQuery("ranks")), getPlayerSkills, {"rows"})
FactionsRoute     == OnOutage(getGamePlayerTable, getPlayerFactions, {"rows"})
ParkourRoute      == OnOutage(getGamePlayerTable, getPlayerParkour, {"rows"})
AchievementsRoute == OnOutage(getGamePlayerTable, getPlayerAchievements, {"rows"})
CosmeticsRoute    == OnOutage(getGamePlayerCards, getPlayerCosmetics, {"rows"})
QuestsRoute       == OnOutage(getGamePlayerCards, getPlayerDailyQuests, {"rows"})
LegionRoute       == OnNoRow(getGameLegion, getPlayerLegion, {"membership"})

CratesRoute       == OnOutage(Then(getGameCrateKeys, gameQuery("rows")), query("rows"), {"rows"})

(* No copy is asked: a failure is answered as no rewards.                   *)
RewardsRoute ==
    {IF Down = g THEN Answer(200, "none", {}, "nothing", FALSE) ELSE Data("game", {"rows", "ranks"}, g) :
        g \in getGamePlayerRewards}

-----------------------------------------------------------------------------
(* /player/profile.  Profile first, from game, copy or file; none of them   *)
(* is an answer that says "not available yet".  Any failure counts as none. *)
ProfileFound ==
    {"game" : r \in getGamePlayerProfile \cap {Row}}
    \cup (IF getGamePlayerProfile \subseteq {Row} THEN {} ELSE {"copy" : r \in getPlayerProfile \cap {Row}})
    \cup (IF getPlayerProfile \subseteq {Row} THEN {} ELSE {"local" : r \in sqliteProfile \cap {Row}})

(* Then the balances: the copy answers when the game database fails or has  *)
(* none, and when the copy fails too the zeros are marked degraded.         *)
ProfileBalances ==
    {Data("game", {"balances"}, g) : g \in getGamePlayerBalances \cap {Row}}
    \cup {IF r = Down THEN Answer(200, "none", {}, "nothing", TRUE) ELSE Data("copy", {"balances"}, r) :
             r \in IF getGamePlayerBalances = {Row} THEN {} ELSE getPlayerBalances}

(* The fields are kept for 15 seconds without the marker; name, legion and  *)
(* KOTH record fall back one by one to none.                                *)
ProfileAnswer(a) ==
    /\ answer' = a
    /\ kept' \in {kept, [a EXCEPT !.flag = FALSE]}

NotAvailableYet == Answer(200, "none", {}, "nothing", TRUE)
ProfileRoute ==
    IF kept # Uncached THEN answer' = kept /\ kept' = kept
    ELSE \/ answer' = NotAvailableYet /\ kept' = kept
         \/ \E a \in ProfileBalances : ProfileFound # {} /\ ProfileAnswer(a)

CacheExpires ==
    /\ kept # Uncached /\ kept' = Uncached
    /\ UNCHANGED <<dataVars, beat, memo, answer>>

-----------------------------------------------------------------------------
(* GET /admin/player: the copy alone, every failure is a 500.               *)
AdminPlayerRoute ==
    {IF Down \in {p, b} THEN Failed(500)
     ELSE IF p = Empty THEN [Data("copy", {"ranks", "names"}, p) EXCEPT !.flag = TRUE]
     ELSE Data("copy", {"balances"}, b) :
        p \in getPlayerProfile, b \in getPlayerBalances}

(* GET /player/permissions: fails closed, no groups and no flags.           *)
PermissionsRoute ==
    {[Data("copy", {"ranks"}, r) EXCEPT !.flag = (r = Down)] : r \in query("ranks")}

(* The boards of parkour courses, ELO and waves: the copy, or 503.          *)
BoardRoute ==
    {IF r = Down THEN Failed(503) ELSE Data("copy", {"rows"}, r) : r \in query("rows")}

-----------------------------------------------------------------------------
(* GET /server/status.  getOnlinePlayerCount is null for a missing key, and *)
(* withAttemptTimeout makes null of a failed or slow attempt.               *)
HeartbeatRead == {IF beat THEN "redis" ELSE "null", "null"}
SnapshotCount == {"snapshot", "null"}
StatusCount ==
    IF memo # NoMemo THEN {memo}
    ELSE (HeartbeatRead \cap {"redis"}) \cup SnapshotCount

(* Online means a count, from whichever store; the memo keeps null as well. *)
Status(s) == Answer(200, "none", {}, IF s = "null" THEN "offline" ELSE "online", FALSE)
StatusRoute == \E s \in StatusCount : memo' = s /\ answer' = Status(s)

(* GET /admin/server/status: Redis alone.                                   *)
AdminStatusRoute == {Status(s) : s \in HeartbeatRead}

MemoExpires ==
    /\ memo # NoMemo /\ memo' = NoMemo
    /\ UNCHANGED <<dataVars, kept, beat, answer>>

-----------------------------------------------------------------------------
TypeOK ==
    /\ game \subseteq Tables /\ copy \subseteq Tables /\ local \in BOOLEAN
    /\ {kept, answer} \subseteq
          [status : {0, 200, 404, 500, 503}, from : {"game", "copy", "none"},
           of : SUBSET (Tables \cup {"membership"}), flag : BOOLEAN,
           shows : {"nothing", "game", "copy", "online", "offline"}]
    /\ beat \in BOOLEAN
    /\ memo \in {NoMemo, "redis", "snapshot", "null"}

(* A copy made some time ago, before the player had all the rows he has.    *)
Init ==
    /\ game = {} /\ copy \in {{}, {"names", "ranks", "balances"}, Tables}
    /\ local \in BOOLEAN
    /\ kept = Uncached
    /\ beat = FALSE /\ memo = NoMemo
    /\ answer = NoAnswer

(* External: the plugin writes a table, and its heartbeat; the key goes 60 s*)
(* after the last beat.                                                     *)
PluginWrites(t) == game' = game \cup {t} /\ UNCHANGED <<copy, local, kept, beat, memo, answer>>
Heartbeat == beat' = ~beat /\ UNCHANGED <<dataVars, kept, memo, answer>>

Ask ==
    \/ /\ answer' \in BalancesRoute \cup StatsRoute \cup TransactionsRoute \cup SkillsRoute
                      \cup FactionsRoute \cup ParkourRoute \cup AchievementsRoute \cup CosmeticsRoute
                      \cup QuestsRoute \cup LegionRoute \cup CratesRoute \cup RewardsRoute
                      \cup AdminPlayerRoute \cup PermissionsRoute \cup BoardRoute \cup AdminStatusRoute
       /\ UNCHANGED <<dataVars, kept, beat, memo>>
    \/ ProfileRoute /\ UNCHANGED <<dataVars, beat, memo>>
    \/ StatusRoute /\ UNCHANGED <<dataVars, kept, beat>>

Next ==
    \/ \E t \in Tables : PluginWrites(t)
    \/ Heartbeat \/ CacheExpires \/ MemoExpires
    \/ Ask

Spec == Init /\ [][Next]_vars

-----------------------------------------------------------------------------
(* "An empty array is always a real (valid) empty result, never a swallowed *)
(* outage" (B-11): a source whose answer shows nothing really holds nothing *)
(* of the player in the tables it was asked for.                            *)
Holds(source, of) == of \cap (IF source = "game" THEN game ELSE copy) # {}
EmptyIsReal ==
    [][\A s \in {"game", "copy"} :
          (answer' # answer /\ kept' = kept /\ answer'.from = s /\ answer'.shows = "nothing" /\ ~answer'.flag)
             => ~Holds(s, answer'.of)]_vars

(* "Every call site degrades explicitly (Postgres fallback where one        *)
(* exists, an available:false/degraded signal where it doesn't)": when no   *)
(* source answered, the answer says so.                                     *)
OutageIsMarked ==
    (answer.status = 200 /\ answer.from = "none" /\ answer.shows = "nothing") => answer.flag
=============================================================================
