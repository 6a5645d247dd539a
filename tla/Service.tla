------------------------------ MODULE Service -------------------------------
(***************************************************************************)
(* The parts of the service that write no row of each other's.  One of     *)
(* them moves in a behaviour: part says which.  The other ones keep an     *)
(* initial state.                                                          *)
(***************************************************************************)
EXTENDS Integers, FiniteSets

CONSTANTS
    Off,                      \* the value of the variables of a part that is out
    \* links
    LinkPlayers, Discords, LinkCodes, LinkCalls, MaxRewards,
    \* subscriptions, checkouts
    Buyers, Askers, Subs, Owner, Foreign,
    Names, Mojang, Quantities,
    \* cache, boards
    CacheRequests, CacheMaxClock,
    BoardPlayers, BoardValues, PageCap, MaxMoves,
    \* messages, notices
    DmMessages, Drains, MaxAttempts, HourlyCap, Lease, DmMaxClock,
    Calendar, Omens, Votes, Personal, Window, NoticePasses, PerHour, Hour,
    Cooldown, LastMinute,
    \* changelog, analytics, alerts
    Entries, Releases, Posts,
    DayPasses, MaxDay, CatchUp,
    AlertKeys, AlertLines, Hourly, Sweeps,
    \* limits, gates
    LimitIps, Limiters, LimitWindow, Limit, Budget, Costs, LimitMaxClock,
    GatePlayers, Asserted, Staff,
    \* queries, streams
    Queries, SlotCap, RowCap,
    Conns, StreamIps, PerIp, PerIsolate, RingSize, Interval, StreamMaxClock, MaxSeq,
    \* referrals, commands
    RefPlayers, Newcomers, Owners, RefCodes, RefRequests,
    CommandCalls, Actors

ASSUME LinksAssumption == "none" \notin Discords /\ MaxRewards \in Nat
ASSUME SubscriptionsAssumption ==
    /\ Owner \in [Subs -> Buyers] /\ Askers \subseteq Buyers
    /\ "none" \notin Foreign /\ "unavailable" \notin Foreign
ASSUME CheckoutsAssumption == Mojang \subseteq Names /\ Quantities \subseteq Int
ASSUME CacheAssumption == CacheMaxClock \in Nat \ {0}
ASSUME MessagesAssumption ==
    /\ DmMessages \subseteq Nat \ {0} /\ MaxAttempts \in Nat \ {0}
    /\ Lease \in Nat /\ DmMaxClock \in Nat \ {0}
ASSUME NoticesAssumption == LastMinute \in Nat \ {0}
ASSUME ChangelogAssumption == Entries \cap Posts = {}
ASSUME AnalyticsAssumption == MaxDay \in Nat \ {0} /\ CatchUp \in Nat \ {0}
(* The evaluations of the economy claim their hour, so that one runs.       *)
ASSUME AlertsAssumption ==
    /\ AlertKeys \cap AlertLines = {} /\ Hourly \cap Sweeps = {}
    /\ \A i, j \in Hourly : i = j
ASSUME GatesAssumption == "none" \notin GatePlayers /\ Staff \subseteq GatePlayers
ASSUME ReferralsAssumption ==
    /\ "none" \notin RefCodes /\ IsFiniteSet(RefPlayers)
    /\ Owners \subseteq RefPlayers /\ Newcomers \subseteq RefPlayers
ASSUME BoardsAssumption ==
    /\ IsFiniteSet(BoardPlayers) /\ BoardPlayers \subseteq Nat
    /\ BoardValues \subseteq Nat /\ PageCap \in Nat \ {0} /\ MaxMoves \in Nat
ASSUME LimitsAssumption ==
    /\ LimitWindow \in [Limiters -> Nat \ {0}] /\ Limit \in [Limiters -> Nat]
    /\ Costs \subseteq Nat /\ LimitMaxClock \in Nat
ASSUME QueriesAssumption == IsFiniteSet(Queries) /\ SlotCap \in Nat /\ RowCap \in Nat
ASSUME StreamsAssumption ==
    /\ IsFiniteSet(Conns) /\ "none" \notin StreamIps
    /\ PerIp \in Nat /\ PerIsolate \in Nat /\ RingSize \in Nat /\ MaxSeq \in Nat
    /\ StreamMaxClock \in Nat

VARIABLES
    part,
    linkCode, links, linkCache, linkCall, used, vouched, rewards,
    subs, events, cached, hook, cancel,
    registry, customers, session, goods,
    game, copy, local, kept, beat, memo, readAnswer,
    route, cacheClock, edge, cacheEntry, good, tasks, cacheReq, cacheAnswer,
    board, boardGame, boardCopy, cursor, shown, moved, from, moves,
    dm_queue, counted, drain, dmClock, delivered, dmRefused, slow, died,
    noticeMinute, ledger, noticePass, sent, unheard, stuck,
    entry, post, isolate, logReq, logAnswer, embeds, wrote,
    today, minute, claims, dayRow, folded, pass, mixed,
    armed, active, late, status, done, alertRow, job, said, odd, excused,
    limitClock, hits, cost, admitted, forgotten, spent, refused,
    keys, gateReq, step, user, revoked, gateAnswer,
    inFlight, waiters, at, rows, switched, faults,
    streamClock, openTotal, openByIp, source, topic, conn, replay, frames,
    rank5, referrals, refCode, cooling, total, redemptions, refReq,
    bus, call, commands, heard, table, ran, audit

Links == INSTANCE AccountLinks WITH
    Players <- LinkPlayers, Codes <- LinkCodes, Calls <- LinkCalls,
    code <- linkCode, cache <- linkCache, call <- linkCall
Subscriptions == INSTANCE Subscriptions
Checkouts == INSTANCE Checkouts WITH
    got <- goods
Reads == INSTANCE PlayerReads WITH
    answer <- readAnswer
Cache == INSTANCE ResponseCache WITH
    Requests <- CacheRequests, Routes <- {"current", "card", "drift"},
    MaxClock <- CacheMaxClock, clock <- cacheClock, entry <- cacheEntry,
    req <- cacheReq, answer <- cacheAnswer
Boards == INSTANCE BoardPages WITH
    Players <- BoardPlayers, Values <- BoardValues, Cap <- PageCap,
    Boards <- {"blocks"}, game <- boardGame, copy <- boardCopy
Messages == INSTANCE DirectMessages WITH
    Messages <- DmMessages, MaxClock <- DmMaxClock, clock <- dmClock,
    refused <- dmRefused
Notices == INSTANCE NotifySweep WITH
    Passes <- NoticePasses, minute <- noticeMinute, pass <- noticePass
Log == INSTANCE Changelog WITH
    req <- logReq, answer <- logAnswer
Days == INSTANCE DailyAnalytics WITH
    Passes <- DayPasses, row <- dayRow
Alerts == INSTANCE StaffAlerts WITH
    Keys <- AlertKeys, Lines <- AlertLines, row <- alertRow
Limits == INSTANCE RateLimits WITH
    Ips <- LimitIps, Window <- LimitWindow, MaxClock <- LimitMaxClock,
    now <- limitClock
Gate == INSTANCE Gates WITH
    Players <- GatePlayers, req <- gateReq, answer <- gateAnswer
Slots == INSTANCE GameSlots WITH
    Slots <- SlotCap
Streams == INSTANCE EventStream WITH
    Ips <- StreamIps, Topics <- {"status"}, MaxClock <- StreamMaxClock,
    now <- streamClock, got <- frames
Events == INSTANCE EventStream WITH
    Ips <- StreamIps, Topics <- {"events"}, MaxClock <- StreamMaxClock,
    now <- streamClock, got <- frames
Refs == INSTANCE Referrals WITH
    Players <- RefPlayers, Codes <- RefCodes, Requests <- RefRequests,
    code <- refCode, req <- refReq
Commands == INSTANCE PlayerCommands WITH
    Calls <- CommandCalls

linksVars == <<linkCode, links, linkCache, linkCall, used, vouched, rewards>>
subscriptionsVars == <<subs, events, cached, hook, cancel>>
checkoutsVars == <<registry, customers, session, goods>>
readsVars == <<game, copy, local, kept, beat, memo, readAnswer>>
cacheVars == <<route, cacheClock, edge, cacheEntry, good, tasks, cacheReq,
    cacheAnswer>>
boardsVars == <<board, boardGame, boardCopy, cursor, shown, moved, from,
    moves>>
messagesVars == <<dm_queue, counted, drain, dmClock, delivered, dmRefused,
    slow, died>>
noticesVars == <<noticeMinute, ledger, noticePass, sent, unheard, stuck>>
changelogVars == <<entry, post, isolate, logReq, logAnswer, embeds, wrote>>
analyticsVars == <<today, minute, claims, dayRow, folded, pass, mixed>>
alertsVars == <<armed, active, late, status, done, alertRow, job, said, odd,
    excused>>
limitsVars == <<limitClock, hits, cost, admitted, forgotten, spent, refused>>
gatesVars == <<keys, gateReq, step, user, revoked, gateAnswer>>
queriesVars == <<inFlight, waiters, at, rows, switched, faults>>
streamsVars == <<streamClock, openTotal, openByIp, source, topic, conn,
    replay, frames>>
referralsVars == <<rank5, referrals, refCode, cooling, total, redemptions,
    refReq>>
commandsVars == <<bus, call, commands, heard, table, ran, audit>>

(* The variables of a part that stays out of the behaviour. *)
linksOff ==
    /\ linkCode = Off /\ links = Off /\ linkCache = Off /\ linkCall = Off
    /\ used = Off /\ vouched = Off /\ rewards = Off
checkoutsOff ==
    /\ registry = Off /\ customers = Off /\ session = Off /\ goods = Off
cacheOff ==
    /\ route = Off /\ cacheClock = Off /\ edge = Off /\ cacheEntry = Off
    /\ good = Off /\ tasks = Off /\ cacheReq = Off /\ cacheAnswer = Off
boardsOff ==
    /\ board = Off /\ boardGame = Off /\ boardCopy = Off /\ cursor = Off
    /\ shown = Off /\ moved = Off /\ from = Off /\ moves = Off
messagesOff ==
    /\ dm_queue = Off /\ counted = Off /\ drain = Off /\ dmClock = Off
    /\ delivered = Off /\ dmRefused = Off /\ slow = Off /\ died = Off
noticesOff ==
    /\ noticeMinute = Off /\ ledger = Off /\ noticePass = Off /\ sent = Off
    /\ unheard = Off /\ stuck = Off
changelogOff ==
    /\ entry = Off /\ post = Off /\ isolate = Off /\ logReq = Off
    /\ logAnswer = Off /\ embeds = Off /\ wrote = Off
analyticsOff ==
    /\ today = Off /\ minute = Off /\ claims = Off /\ dayRow = Off
    /\ folded = Off /\ pass = Off /\ mixed = Off
alertsOff ==
    /\ armed = Off /\ active = Off /\ late = Off /\ status = Off
    /\ done = Off /\ alertRow = Off /\ job = Off /\ said = Off
    /\ odd = Off /\ excused = Off
limitsOff ==
    /\ limitClock = Off /\ hits = Off /\ cost = Off /\ admitted = Off
    /\ forgotten = Off /\ spent = Off /\ refused = Off
gatesOff ==
    /\ keys = Off /\ gateReq = Off /\ step = Off /\ user = Off
    /\ revoked = Off /\ gateAnswer = Off
queriesOff ==
    /\ inFlight = Off /\ waiters = Off /\ at = Off /\ rows = Off
    /\ switched = Off /\ faults = Off
streamsOff ==
    /\ streamClock = Off /\ openTotal = Off /\ openByIp = Off /\ source = Off
    /\ topic = Off /\ conn = Off /\ replay = Off /\ frames = Off
referralsOff ==
    /\ rank5 = Off /\ referrals = Off /\ refCode = Off /\ cooling = Off
    /\ total = Off /\ redemptions = Off /\ refReq = Off
commandsOff ==
    /\ bus = Off /\ call = Off /\ commands = Off /\ heard = Off
    /\ table = Off /\ ran = Off /\ audit = Off

ServiceInit ==
    /\ part \in {"links", "subscriptions", "checkouts", "reads", "cache",
                "boards", "messages", "notices", "changelog", "analytics",
                "alerts", "limits", "gates", "queries", "streams", "events",
                "referrals", "commands"}
    /\ IF part = "links" THEN Links!Init ELSE linksOff
    /\ Subscriptions!Init
    /\ IF part = "checkouts" THEN Checkouts!Init ELSE checkoutsOff
    /\ Reads!Init /\ (part = "reads" \/ (copy = {} /\ ~local))
    /\ IF part = "cache" THEN Cache!Init ELSE cacheOff
    /\ IF part = "boards" THEN Boards!Init ELSE boardsOff
    /\ IF part = "messages" THEN Messages!Init ELSE messagesOff
    /\ IF part = "notices" THEN Notices!Init ELSE noticesOff
    /\ IF part = "changelog" THEN Log!Init ELSE changelogOff
    /\ IF part = "analytics" THEN Days!Init ELSE analyticsOff
    /\ IF part = "alerts" THEN Alerts!Init ELSE alertsOff
    /\ IF part = "limits" THEN Limits!Init ELSE limitsOff
    /\ IF part = "gates" THEN Gate!Init ELSE gatesOff
    /\ IF part = "queries" THEN Slots!Init ELSE queriesOff
    /\ IF part = "streams" THEN Streams!Init
       ELSE IF part = "events" THEN Events!Init ELSE streamsOff
    /\ IF part = "referrals" THEN Refs!Init ELSE referralsOff
    /\ IF part = "commands" THEN Commands!Init ELSE commandsOff

(* Only part p moves.                                                       *)
Only(p) ==
    /\ part = p /\ UNCHANGED part
    /\ p # "links" => UNCHANGED linksVars
    /\ p # "subscriptions" => UNCHANGED subscriptionsVars
    /\ p # "checkouts" => UNCHANGED checkoutsVars
    /\ p # "reads" => UNCHANGED readsVars
    /\ p # "cache" => UNCHANGED cacheVars
    /\ p # "boards" => UNCHANGED boardsVars
    /\ p # "messages" => UNCHANGED messagesVars
    /\ p # "notices" => UNCHANGED noticesVars
    /\ p # "changelog" => UNCHANGED changelogVars
    /\ p # "analytics" => UNCHANGED analyticsVars
    /\ p # "alerts" => UNCHANGED alertsVars
    /\ p # "limits" => UNCHANGED limitsVars
    /\ p # "gates" => UNCHANGED gatesVars
    /\ p # "queries" => UNCHANGED queriesVars
    /\ p \notin {"streams", "events"} => UNCHANGED streamsVars
    /\ p # "referrals" => UNCHANGED referralsVars
    /\ p # "commands" => UNCHANGED commandsVars

LinksStep == part = "links" /\ Links!Next /\ Only("links")
SubscriptionsStep == part = "subscriptions" /\ Subscriptions!Next /\ Only("subscriptions")
CheckoutsStep == part = "checkouts" /\ Checkouts!Next /\ Only("checkouts")
ReadsStep == part = "reads" /\ Reads!Next /\ Only("reads")
CacheStep == part = "cache" /\ Cache!Next /\ Only("cache")
BoardsStep == part = "boards" /\ Boards!Next /\ Only("boards")
MessagesStep == part = "messages" /\ Messages!Next /\ Only("messages")
NoticesStep == part = "notices" /\ Notices!Next /\ Only("notices")
LogStep == part = "changelog" /\ Log!Next /\ Only("changelog")
DaysStep == part = "analytics" /\ Days!Next /\ Only("analytics")
AlertsStep == part = "alerts" /\ Alerts!Next /\ Only("alerts")
LimitsStep == part = "limits" /\ Limits!Next /\ Only("limits")
GateStep == part = "gates" /\ Gate!Next /\ Only("gates")
SlotsStep == part = "queries" /\ Slots!Next /\ Only("queries")
StreamsStep == part = "streams" /\ Streams!Next /\ Only("streams")
EventsStep == part = "events" /\ Events!Next /\ Only("events")
RefsStep == part = "referrals" /\ Refs!Next /\ Only("referrals")
CommandsStep == part = "commands" /\ Commands!Next /\ Only("commands")

ServiceNext ==
    \/ LinksStep
    \/ SubscriptionsStep
    \/ CheckoutsStep
    \/ ReadsStep
    \/ CacheStep
    \/ BoardsStep
    \/ MessagesStep
    \/ NoticesStep
    \/ LogStep
    \/ DaysStep
    \/ AlertsStep
    \/ LimitsStep
    \/ GateStep
    \/ SlotsStep
    \/ StreamsStep
    \/ EventsStep
    \/ RefsStep
    \/ CommandsStep

serviceVars == <<part, linksVars, subscriptionsVars, checkoutsVars, readsVars,
    cacheVars, boardsVars, messagesVars, noticesVars, changelogVars, analyticsVars,
    alertsVars, limitsVars, gatesVars, queriesVars, streamsVars, referralsVars,
    commandsVars>>

ServiceSpec == ServiceInit /\ [][ServiceNext]_serviceVars

-----------------------------------------------------------------------------
ServiceTypeOK ==
    CASE part = "links" -> Links!TypeOK
      [] part = "subscriptions" -> Subscriptions!TypeOK
      [] part = "checkouts" -> Checkouts!TypeOK
      [] part = "reads" -> Reads!TypeOK
      [] part = "cache" -> Cache!CacheTypeOK
      [] part = "boards" -> Boards!PagesTypeOK
      [] part = "messages" -> Messages!DmTypeOK
      [] part = "notices" -> Notices!NoticeTypeOK
      [] part = "changelog" -> Log!LogTypeOK
      [] part = "analytics" -> Days!DayTypeOK
      [] part = "alerts" -> Alerts!AlertTypeOK
      [] part = "limits" -> Limits!LimitTypeOK
      [] part = "gates" -> Gate!GateTypeOK
      [] part = "queries" -> Slots!SlotTypeOK
      [] part = "streams" -> Streams!StreamTypeOK
      [] part = "events" -> Events!StreamTypeOK
      [] part = "referrals" -> Refs!RefTypeOK
      [] part = "commands" -> Commands!CommandTypeOK

(* Whoever a request acts as was proved: a link, and every answer of the    *)
(* link cache, by a code of that player; the player and the role a gate     *)
(* lets through by a live session, token or key, or by the service (B-52,   *)
(* api/routes.ts, middleware/gates.ts).                                     *)
IdentityIsProven ==
    /\ part = "links" => Links!LinkIsProven
    /\ part = "gates" => Gate!IdentityIsProven

(* A code that may be used once gives once, however many requests present   *)
(* it or claim it at one time: link codes, referral codes and the payment   *)
(* for redeeming one.                                                       *)
CodesGiveOnce ==
    /\ part = "links" => Links!CodeGivesOnce
    /\ part = "referrals" => Refs!ReferralsAreSingle

(* PayNow is not told that a cancellation arrived before the cache of       *)
(* subscriptions says so (B-09, api/routes.ts).                             *)
ClosedCancelWasCached == Subscriptions!ClosedCancelWasCached

(* A cache that a webhook, a tier change or a stray row wrote decides       *)
(* nothing alone: nobody cancels the subscription of another, and nothing   *)
(* outside the catalogue is shown as a tier (B-21).                         *)
SubscriptionsAreOwn ==
    part = "subscriptions" => Subscriptions!OnlyOwnerCancels /\ Subscriptions!ShownIsDonor

(* From the typed name and the quantity of a checkout to the command of the *)
(* order webhook: what is handed out is what was paid, to whom it was       *)
(* bought for (B-C25, B-C17, B-14).                                         *)
PaidIsHandedOut == part = "checkouts" => Checkouts!PaidIsHandedOut

(* An empty answer is a real one, never a swallowed outage: from the driver *)
(* of the game database up to each route that reads a player (B-11).        *)
EmptyIsReal ==
    /\ Reads!EmptyIsReal
    /\ [](part = "queries" => Slots!FailureIsThrown)

(* An answer is not older than its X-Cache header says, through the edge,   *)
(* the entry and the isolate's last good one.                               *)
AnswerIsRecent == part = "cache" => Cache!AnswerIsRecent

(* A walk over the pages of a leaderboard shows everybody who stays where   *)
(* he is exactly once while others move.                                    *)
PagesPartition == part = "boards" => Boards!PagesPartition

(* What is told over Discord is told once by passes of the cron that        *)
(* overlap, fail and die, and is not given up before its attempts are used: *)
(* queued messages and the notices of the sweep.                            *)
SentOnce ==
    /\ part = "messages" => Messages!QuickDrainsSendOnce /\ Messages!OutcomeIsEarned
    /\ part = "notices" => Notices!NoticesAreOnce

(* One changelog id, one entry, whoever writes it and whatever the backfill *)
(* of a new isolate copies meanwhile.                                       *)
EntryIsKept == part = "changelog" => Log!EntryIsKept

(* The days of the economy are folded in order, each measured from the one  *)
(* before, and a day that failed is tried again.                            *)
FoldsChain == part = "analytics" => Days!FoldsChain

(* Staff hears an alert and its resolution in turn.                         *)
AlertsAlternate == part = "alerts" => Alerts!AlertsAlternate

(* What is counted is what is there: requests within a limit's window,      *)
(* sockets to the game database and those who wait for one, open streams.   *)
LimitsHold ==
    /\ part = "limits" => Limits!LimitHolds
    /\ part = "queries" => Slots!NoIdleSlot
    /\ part \in {"streams", "events"} => Streams!CountersAreLive

(* On a channel that many listen to everybody gets what is his: the answer  *)
(* of his own command, and the frames after the last one he saw.            *)
HeardIsOwn ==
    /\ part = "commands" => Commands!AnswersAreOwn
    /\ part \in {"streams", "events"} => Streams!FramesRise

=============================================================================
