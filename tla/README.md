# Verification of the Imperium backend

TLA+ models of the backend in `src/src` (a Cloudflare Workers service for a
Minecraft server: store, web sessions, Discord bot, outbound webhooks), the TLC
runs that check them and the TLAPS proofs about them. Paths below are relative
to `src/src` unless they start with `src/`.

## The system

The backend runs as short-lived isolates: every HTTP request and every cron
minute is a call of its own, any number of them overlap, each may end at any
`await`, and nothing but the databases survives. State lives in D1 (SQLite),
Postgres, the game's MySQL and Redis. None of the code below opens a transaction
around a whole operation, so the interleaving of single statements is the
semantics, and correctness rests on insert-or-ignore rows, conditional updates,
leases, claims and idempotent ids.

| part | code | state | operations | hard behaviour |
|---|---|---|---|---|
| store fulfilment | `paynow/fulfillment.ts`, `api/routes.ts` (webhook), `db/redis.ts`, `db/busMysql.ts`, `db/deliveryLedger.ts` | claim rows, delivery ledger, command queue; registry and goods on the game server | one call per `order_completed` post | repeated and overlapping posts, timeouts with late execution, lost writes, crashes |
| store refunds | `paynow/fulfillment.ts` | the same rows | one call per refund or chargeback post | races with the order, repeats |
| outbound webhooks | `webhooks/*`, `api/expansion/webhookAdmin.ts` | subscribers, deliveries, tailer cursor | register, delete, ping, delivery tick, tailer pass | overlapping ticks, leases, crashes, rescans |
| sessions | `auth/sessionRevocations.ts`, `auth/jwt.ts`, `middleware/auth.ts`, `api/v2/sessions.ts` | revocation rows | log in, revoke one, revoke all, purge, check | expiry against purge, repeated revocations |
| checkouts | `api/routes.ts`, `db/pool.ts`, `paynow/client.ts`, `paynow/constants.ts` | registry of names, customers, catalogue | check out, confirm, order webhook | one string naming accounts on two platforms |
| subscription cache | `db/pool.ts`, `api/routes.ts`, `paynow/client.ts` | one row per player | activated, renewed, canceled, cancel route, dashboard | reordered and repeated events, failed writes |
| game database client | `db/gameMysql.ts`, `db/mysqlWire.ts` | slots, waiters, one socket per query | query | failures at any packet, lost wake-ups |
| player data reads | `api/routes.ts`, `db/pool.ts`, `db/sqlite.ts` | game database, Postgres copy, local file | one read per route | fallback chains, outages that look empty |
| leaderboards | `db/pool.ts`, `api/v2/leaderboards.ts` | the rows | next page | rows that move during a walk |
| response caches | `api/expansion/cache.ts` | edge copy, entry, last good value | request, background refresh | three ages, overlapping refreshes |
| gates and api keys | `middleware/gates.ts`, `middleware/auth.ts`, `auth/apiKeys.ts` | keys, revocations | resolve a principal, gate a route | combined credentials, reads that fail |
| linking and codes | `api/routes.ts`, `api/clientAuth.ts`, `api/microsoftAuth.ts`, `db/redis.ts`, `db/busMysql.ts`, `db/pool.ts` | links, single-use codes, lookup cache | issue, consume, confirm, unlink, look up | check-then-act, two-statement consume |
| referrals | `api/routes.ts` | referrals, codes and redemptions | refer, create, change, redeem, complete | two requests at once |
| game commands | `api/routes.ts`, `db/redis.ts`, `db/redisSocket.ts`, `db/busMysql.ts`, `db/actionLog.ts` | commands, responses, audit rows | send, wait, time out, run | late execution, a shared channel |
| delivery and metric alerts | `alerts/deliveryAlerts.ts`, `analytics/alerts.ts` | alert columns of the ledger, breach windows | sweep | stale reads, post before record |
| cron, notifications | `bot/cron.ts`, `bot/botdb.ts`, `bot/notify/scheduler.ts` | claim keys | minute pass, claim-send-release | overlapping passes, death between claim and send |
| direct messages | `api/v2/dms.ts` | queue rows | enqueue, drain | lease with a stale clock |
| daily analytics | `analytics/cronSync.ts`, `analytics/economy.ts`, `bot/analytics/rollup.ts` | daily rows, claims | fold a day, catch up | order of days, failed days |
| changelog | `changelog/store.ts`, `db/changelogStore.ts` | entries, old posts | ensure, backfill, write, announce | backfill beside writers |
| rate limits | `middleware/rateLimit.ts`, `middleware/rateLimitV2.ts` | window counters | charge, cleanup | windows that end, foreign cleanup |
| event streams | `api/expansion/sse/*` | snapshot, ring, stream counters, per isolate | connect, poll, frame, close | many connections on one topic |
| the rest | API reads, bot commands, formatting, start-up | little or none | | listed in PROJECT.json with the reason |

How they meet: PayNow posts order, refund and subscription events to one
webhook; order calls and refund calls share the claim rows and talk to the game
server through the command queue; the alert sweep reads and writes the ledger
the order calls write; the game server appends to `web_events`, which the
webhook tailer and the event streams both follow; the cron pass runs the
delivery tick, the tailer, notifications, role audit, analytics, direct
messages and alerts one after another; every authenticated request consults
the revocation rows.

## Modules

| module | models | extends |
|---|---|---|
| `StorePromise` | what the store promises about one order: each line delivered once, settled after the last one, a closed refund leaves nothing | |
| `StoreFulfillment` | `fulfillPaynowOrder` and everything it calls, and the game server's side | |
| `StoreRefund` | `refundPaynowOrder`, composed with the above | `StoreFulfillment` |
| `StoreFulfillmentProofs` | theorems about one order | `StoreFulfillment`, TLAPS |
| `StoreRefundProofs` | theorems about an order with its refunds | `StoreRefund`, `StoreFulfillmentProofs` |
| `WebhookDelivery` | subscriptions, tailer, queue and delivery tick | |
| `WebhookDeliveryProofs` | theorems about ticks, leases and the cursor | `WebhookDelivery`, TLAPS |
| `SessionRevocations` | tokens, revocation rows, the check | |
| `SessionRevocationsProofs` | theorems about the revocations | `SessionRevocations`, TLAPS |
| `Checkouts` | from the typed name to the command of the order webhook | |
| `Subscriptions` | the cached subscription, its webhook events and the cancel route | |
| `AccountLinks` | single-use codes, links, the bot's lookup cache, the first-link reward | |
| `Gates` | `attachUser`, origin guard, client allowlist, the gates, API keys | |
| `Referrals` | referrals, referral codes, redemptions | |
| `PlayerCommands` | commands to the game over Redis or MySQL, their answers and audit rows | |
| `GameSlots` | socket slots and the MySQL wire client | |
| `PlayerReads` | which source answers what is read of a player | |
| `BoardPages` | the pages of the v2 leaderboards | |
| `ResponseCache` | `swrJson` over the edge, the entry and the last good value | |
| `DirectMessages`, `NotifySweep`, `DailyAnalytics`, `StaffAlerts` | the jobs of the cron | |
| `Changelog` | entries, backfill, embeds | |
| `RateLimits` | the two limiters | |
| `EventStream` | shared pulls, frames, rings, stream counters | |
| `Service` | the modules from `Checkouts` on with their constants and the assumptions on them, one of them in each behaviour | INSTANCE of each |
| `ServiceAccessProofs` | theorems about links and codes, gates, referrals, subscriptions and checkouts | `Service`, TLAPS |
| `ServiceJobsProofs` | theorems about messages, notices, changelog, daily folds, alerts | `Service`, TLAPS |
| `ServiceTrafficProofs` | theorems about commands, limits, slots, streams, boards, the cache and the reads | `Service`, TLAPS |
| `ServiceTypeProofs` | the types of every part | the three above |
| `MCService` | a small instance of `Service` | `Service` |
| `MC*` | the other small instances; `*.cfg` gives the constants their values | |

### StoreFulfillment

Orders share no row and no id, so one order is followed. `pc[c][l]` is where
line `l` of call `c` is between two awaits; `claims` are the rows of
`paynow_order_dispatches`, `ledger` those of `store_delivery_ledger`, `bus` the
commands not yet executed, `registry` and `goods` the game server's. The steps
of a line are the awaits of the code: `ClaimLine` (insert-or-ignore, failing
open), `LedgerQueued`, `Send`, then the answer (`PluginGrant`, `PluginReject`,
or `PluginDrop` and no answer), then `Confirm`, or `FailLine` and
`ReleaseLine`. A timeout is `FailLine` at any moment of the wait, also when the
answer is already there. A command outlives its caller (`Abandoned`) and may
execute later. `Answer` is the HTTP response: 200 may be read by PayNow or lost.
The early returns without a state change (no order id, unresolvable buyer) are
no steps. Faults are a constant, so a run says which it allows. The registry
that credits a transaction id once, and the 30 s after which a command is
dropped, are external: `docs/reviews/2026-10-24-money-path-failure-composition.md`
(under `src/`) and the comments of `paynow/fulfillment.ts` describe them.

### StoreRefund

A refund call reads the claim rows once (`RefundReceive`), derives the
transaction ids and revokes them in parallel (`RefundSend`, `PluginRefund`,
`RefundTimeout`), and answers (`RefundAnswer`). Every step of `StoreFulfillment`
stays possible at the same time. `RefundsWaitForRest` restricts refunds to
orders that are settled with nothing under way: the positive properties need
this, and `store_refund_race` shows what happens without it.

### WebhookDelivery

A delivery tick is a record: its age since its `now`, the rows it selected with
the attempt numbers it read, the row at hand, and the phase between two awaits.
Time is counted in units of the longest POST, relative to the present, so it
needs no bound: `timer[r]` is `next_attempt_at` or the lease minus the current
time. A POST takes at most one unit, database calls none. `Batch`, `Lease`,
`Delays` and `MaxAttempts` are the code's constants. A tailer pass is a record
of the same kind. `AbortRow` is the per-row `catch`, `TickDies` and
`TailerDies` are isolates that end.

### SessionRevocations

`Accepted(t)` is what `attachUser` decides: the token verifies and no live row
rejects it. Rows are written with insert-or-ignore and expire `Lifetime` after
they were written; each writer purges afterwards, with the time it started at.
When the list cannot be read the request is let through by design, so the
properties are about readable lists.

### Service

These modules write no row of each other's: no table, key or isolate variable
of one is written by another, so their product shows nothing that one part alone
does not. `Service` is therefore their disjoint sum: `part` is chosen at the
start, that part moves by its own `Next`, the variables of the others have no
value (`Off`) or keep an initial one. A property of the run is the conjunction
of what each part promises.

Each module says in its header what it abstracts. The conventions are those of
the modules above: one action per await or statement, requests as records whose
step is the await they are at, a failed read or write as a disjunct beside the
successful one, an isolate that ends as an action of its own, history variables
marked as such.

* `AccountLinks`: `Claim` and `Fetch` are the two statements of `busKvConsume`
  (on Redis they are one, a special case). `vouched` records which player
  proved which Discord account.
* `Gates`: a request carries any combination of cookie, bearer, key and service
  token; verifying them is abstracted to whose they are. Reads of revocations
  and of roles fail on their own.
* `Checkouts`: an account is a name with a platform; `Quantities` are what a
  request may ask for. `got` is what the order webhook hands out.
* `Subscriptions`: PayNow is external and the truth: it repeats an event until
  it is answered 2xx, in any order.
* `PlayerReads`: `kept` and `beat` are the per-isolate last answer and heartbeat
  that some routes fall back to.
* `GameSlots`: `woken` is the moment between `resolve` and the continuation of
  the waiter, in which a newcomer may take the slot.
* `EventStream`: instantiated twice, with the topic "status", whose frames are
  compared, and with "events", whose cursor empties the source.
* `DailyAnalytics`: a claim key is a fold and a day; `mixed` marks histories in
  which a day's supply could not be read, about which the property says nothing.
* `StaffAlerts`: `excused` are subjects of which a post could not be recorded or
  which two sweeps held at a time.
* `PlayerCommands`: `SendFails` may leave the command published: the caller
  cannot tell.

## Runs

| run | instance | shows |
|---|---|---|
| `store_overlap` | 2 calls, 1 known and 1 unknown line, 2 players, every fault | `OneOwnerPerLine`, `DeliveredKeepsClaim`, `CreditedAtMostOnce`, `DeliveredIsFinal` |
| `store_steady` | 1 call at a time, 2 lines, one a gift, lost ledger writes, fairness | `DeliveredHasGoods`, `NoOrphanClaim`, `SettledIsDelivered`, `PaidOrderIsDelivered`, refinement of `StorePromise` |
| `store_settled` | 2 calls, 1 line, no faults | finding: `NothingLostAtRest` fails |
| `store_refund` | 1 call, 2 refund calls, 2 lines | `NothingKeptAfterRefund`, `DeliveredIsRevocable`, `RefundedStaysQuiet`, refinement of `StorePromise` |
| `store_refund_race` | 1 call, 1 refund call, 1 line | finding: `NotDeliveredIsTrue` fails |
| `webhook_queue` | 2 mortal ticks, 2 rows, batch 2 below lease 3 | `NeverDoubleConcurrent`, `DeadIsEarned`, `DeliveredStaysClosed` |
| `webhook_lease` | 2 ticks, 3 rows, batch 3 above lease 2 | finding: `NeverDoubleConcurrent` fails |
| `webhook_feed` | 1 mortal tailer, 1 tick, 3 feed rows, window 2, fairness | `CursorIsBehindQueue`, `EveryDeliveryCloses` |
| `sessions` | 1 token, 2 identities, 2 writers, 3 lifetimes | `LoggedOutStaysOut`, `ForcedOutStaysOut`, `LaterLoginWorks` |
| `sessions_again` | 2 tokens, 1 identity | finding: `RevokeAllMeansAll` fails |
| `service_parts` | the parts below, 850,000 states in all | see below |
| `rate_windows` | 1 caller, budget 3, 4 windows | finding: `WindowsStartAfresh` fails |

`service_parts`, part by part:

| part | instance | states | property |
|---|---|---|---|
| `links` | 2 players, 2 Discord accounts, 2 codes, 2 requests | 44,000 | `IdentityIsProven`, `CodesGiveOnce` |
| `gates` | 1 player, 2 asserted uuids, one of them staff, all combinations of credentials | 106,000 | `IdentityIsProven` |
| `referrals` | 3 players, 1 code, 2 requests | 34,000 | `CodesGiveOnce` |
| `subscriptions` | 2 players, 2 subscriptions, one outside the catalogue, 1 cancel route | 105,000 | `ClosedCancelWasCached`, `SubscriptionsAreOwn` |
| `checkouts` | 2 names, 1 known to Mojang, quantities below and above the range | 58,000 | `PaidIsHandedOut` |
| `reads` | 1 player, 3 sources, every route | 43,000 | `EmptyIsReal` |
| `queries` | 3 queries, 1 slot, 2 rows at most | 53,000 | `EmptyIsReal`, `LimitsHold` |
| `cache` | 1 key, 1 request at a time with its background tasks, 4 units of time | 45,000 | `AnswerIsRecent` |
| `boards` | 3 players, 2 values, pages of 2, 2 moves | 3,000 | `PagesPartition` |
| `messages` | 1 message, 2 drains, 2 attempts, cap 1 | 15,000 | `SentOnce` |
| `notices` | 3 notices, one per kind, 2 passes, 2 minutes | 57,000 | `SentOnce` |
| `changelog` | 1 entry, 1 release, 1 old post, new isolates at any time | 9,000 | `EntryIsKept` |
| `analytics` | 2 passes, 3 days, catch-up of 2 | 123,000 | `FoldsChain` |
| `alerts` | 1 metric, 1 line, 1 hourly pass, 1 sweep | 32,000 | `AlertsAlternate` |
| `limits` | 1 caller, 2 limiters with windows of 1 and 3, both of limit 1 | 10,000 | `LimitsHold` |
| `streams`, `events` | 2 connections, 2 addresses, ring of 2, 3 frames | 35,000 and 70,000 | `LimitsHold`, `HeardIsOwn` |
| `commands` | 2 requests, 2 actors, both buses | 5,000 | `HeardIsOwn` |

`ServiceTypeOK` is the type invariant of whichever part moves. The run allows
deadlock because requests end and clocks stop at their bound.

Every property of a passing run has a mutant, a plausible bug in a mapped
definition that makes TLC report the property violated.

A property of `service_parts` is a conjunction; each conjunct has been seen to
fail under a bug of its own (the operators marked "Mutant" in the modules).

Why the bounds are enough. Claims, releases and answers of a line involve that
line's key only, so two calls show every pairwise overlap; a second line adds
that an answer waits for all lines and that transaction ids differ, which is
checked with one call. Two players show a changed resolution. Calls, commands
and refund posts start again without limit: only their number at one time is
bounded. Two ticks show the overlap of a slow pass with the next; the third
attempt reaches both the gone limit (2 in the model, 3 in the code) and the
last attempt (3 for 8), in both orders of the two tests. Three feed rows with a
window of two give a full and a partial pass and a rescan. Six units of time
are three lifetimes of a session, so a row can be written, expire, be purged
late and be written again. In `service_parts` two requests, passes or drains
show every pairwise overlap of statements on one row; a third query shows a
newcomer between a release and the waiter it woke. Two players or names tell
"mine" from "somebody else's". The clocks reach beyond the longest age or window
of the instance, the queues, rings and caps are exceeded, the attempts run out,
three days give a chain with a day in the middle that may fail.

### What the findings say

* `store_settled`: a post that meets another post's claim counts the line as a
  harmless duplicate. If the owner of the claim then times out, PayNow has
  already read 200 from the other post and does not repeat the event: the
  claim is gone, the ledger says failed and nobody tries again.
* `store_refund_race`: a timed-out command is still in the queue when its claim
  is released. If it executes before the order is posted again, a refund in
  that moment finds no claim rows and is closed as "not delivered".
* `webhook_lease`: the lease counts from the start of the tick, not from the
  claim. Twenty POSTs of ten seconds outlast the lease of 120 s.
* `sessions_again`: revoke-all does not move the horizon of an existing row.
* `rate_windows`: the second limiter's row has no window in its key and the
  upsert never starts it again, so a window begins with the charges of those
  before until a random cleanup removes the row.

Statements of the code's comments that fail in the models too, each written down
in its module, without a run of its own:

| definition | the comment | what happens |
|---|---|---|
| `ResponseCache.NotFoundIsNotCached` | `api/expansion/cache.ts:130` | a background refresh stores "not found" |
| `BoardPages.PagesCoverBoard` | `db/pool.ts:1261` | the prestige board sorts by a key its cursor lacks |
| `PlayerCommands.DispatchIsAudited` | `api/routes.ts:1067` | a command that runs after its caller timed out has no audit row; a row whose actor is resolved again after the wait may name the system |
| `Referrals.PaidOwnerIsCounted` | `api/routes.ts:3498` | a code that changes hands counts for its new owner |
| `StaffAlerts.DeliveredStaysDelivered` | `db/deliveryLedger.ts` | the sweep marks a line stale that was delivered meanwhile |
| `Subscriptions.CacheInSync` | `api/routes.ts` (webhook) | the last writer decides, not the last event |
| `PlayerReads.OutageIsMarked` | `db/gameMysql.ts:150` | some routes answer empty lists when no source answered |
| `AccountLinks.RewardOnce` | `api/routes.ts` (link) | two confirmations that pass the check together both reward |

### Fairness

`StoreFulfillment`: weak fairness for what the code does by itself
(`LedgerQueued`, the end of a wait, `ReleaseLine`, `Answer`) and for PayNow's
repeats until it has read a 2xx; strong fairness for what the environment
grants again and again but not always: a recipient that resolves, a command
that is queued, executed and answered in time, a 200 that is read. Without the
last three no paid order could be promised. `WebhookDelivery`: weak fairness for
time, for the cron that starts a tick and for the tick's own steps; a
subscriber's answers need none, since a silent endpoint times out. Safety
properties use no fairness.

## Proofs

Every theorem holds for every value of the constants that satisfies the named
assumptions of the module that declares them. TLC evaluates these on every run.
They say what the code gives: line numbers are naturals, there is a player,
`Nobody` is no call, faults are of known kinds (`StoreFulfillment`); the skew is
below the lifetime of a token (`SessionRevocations`); subscribers and pings are
finite sets and there is a delay (`WebhookDelivery`); in `Service` windows,
attempts, days and page sizes start at 1, caps and the bounds of the clocks are
naturals, queries, connections and the players of a board or of the referrals are
finite sets, who is named or asks is one of the players, "none" is no member of
a set of ids, and one hourly evaluation runs at a time, because it claims its
hour.

Some theorems have a hypothesis on top. It is written in their statement, is the
setting in which the code keeps the promise, and the runs of the findings show
what happens without it:

| hypothesis | means | needed, because |
|---|---|---|
| `NoLostRelease` | the faults contain neither "crash" nor "release" | a dead caller leaves its claim behind |
| `OneCall` | the posts of one order do not overlap | `store_settled` |
| `ReliableClaims` | the faults do not contain "claim" | a call that failed open sends without a claim row, so a refund finds nothing to derive an id from |
| `Rested` | the three above, and refunds wait until the order is settled and quiet | `store_refund_race` |
| `OnePlayer` | the order has one possible recipient | a re-resolved recipient of a refunded line has a key of his own |
| `TicksFitLease` | `Batch < Lease`: a full tick of POSTs is shorter than the lease | `webhook_lease`; the numbers of the code (20 POSTs of 10 s, 120 s) do not satisfy it |

### One order (`StoreFulfillmentProofs`)

| theorem | says | hypothesis |
|---|---|---|
| `TypeCorrect` | `Spec => []TypeOK` | |
| `OneOwner` | `Spec => []OneOwnerPerLine` | |
| `ClaimKept` | `Spec => []DeliveredKeepsClaim` | |
| `DeliveredStays` | `Spec => DeliveredIsFinal` | |
| `NoDoubleCredit` | `Spec => []CreditedAtMostOnce` | |
| `LedgerIsHonest` | `Spec => []DeliveredHasGoods` | |
| `ClaimsHaveReasons` | `Spec => []NoOrphanClaim` | `NoLostRelease` |
| `ToldDoneIsDelivered` | `Spec => []SettledIsDelivered` | `NoLostRelease`, `OneCall` |
| `KeepsPromise` | `Spec => ImplementsPromise`, the refinement of `StorePromise` | `NoLostRelease`, `OneCall` |

Four inductive invariants carry them.

* `OwnerInv`. The ownership properties are not inductive alone, because a
  delivered line could still be owned and its owner could fail and release;
  `OwnedNotDelivered` excludes this (a call that owns a claimed key found no
  delivered row), and `AwaitInv` adds that idle calls are fresh and that a
  queued command has its caller waiting at that line, so an answer moves only a
  waiting line. `DeliveredStays` follows from it step by step.
* `GoodsInv`: a line is "granted" only when its transaction id is recorded, and
  the registry and the goods agree id by id, which needs that `TxId` tells the
  lines apart: the B-57 fix.
* `ReasonInv`: every claim row is of a recorded line or of one whose owner is at
  work on it. Without "crash" and "release" the owner ends by confirming or
  releasing, so no row is left without a reason. It needs neither `OneCall` nor
  reliable claims: overlapping posts and lost ledger writes orphan nothing.
* `SettledInv`: a line that some call counts as through (dispatched, or skipped
  over an existing claim) is recorded at the game server. Only here does one
  post at a time matter: a skipped line is another post's promise.

`KeepsPromise` sees a line as `ItemOf(l)`: owed, delivered once it is credited,
revoked. A `PluginGrant` delivers its line or, for an id that is recorded already,
is a stutter; the first 200 that PayNow reads settles the promise, which
`SettledInv` allows; every other step is a stutter.

### Orders and refunds (`StoreRefundProofs`)

| theorem | says | hypothesis |
|---|---|---|
| `RefundTypeCorrect` | the types of both protocols together | |
| `NoDoubleCreditWithRefunds` | `CreditedAtMostOnce` with refunds between the posts | |
| `Revocable` | `DeliveredIsRevocable` | `ReliableClaims` |
| `NothingKept` | `NothingKeptAfterRefund` | `Rested` |
| `Quiet` | `RefundedStaysQuiet` | `Rested`, `OnePlayer` |
| `NotDeliveredIsHonest` | `NotDeliveredIsTrue`, the comment that `store_refund_race` refutes | `Rested` |
| `RefundKeepsThePromise` | `RefundImplementsPromise`, with the refund steps of `StorePromise` | `Rested` |
| `PromiseMeans` | `RefundImplementsPromise => []PromiseKept`: "done" is said when no line is owed, a refund is closed when none stays delivered | |

A step of an order call in the composition is a step of `StoreFulfillment`, so
its invariants are reused. A refund step does no more to the order than
`Revokes(t)`: one recorded id becomes "refunded" and its goods go. That is why
the invariants say "recorded once" and not "recorded now". `RefundInvariant` is the
inductive invariant: the goods of the order are among the ids a refund call still
works on, what a refund was told is gone is gone from the registry, and when a
refund is closed no goods are left. `NothingKept` needs all three: a call that dies
halfway leaves the rest to the next post.

### Outbound webhooks (`WebhookDeliveryProofs`)

| theorem | says | hypothesis |
|---|---|---|
| `RowInvariant` | every row fits its attempt budget; a tick's age and what it still has to do stay within `Batch` | |
| `TypeCorrect` | `TypeOK` | |
| `NoDoublePost` | `NeverDoubleConcurrent` | `TicksFitLease` |
| `DeliveredIsFinal` | `DeliveredStaysClosed` | `TicksFitLease` |
| `GivingUpIsEarned` | `DeadIsEarned` | |
| `CursorStaysBehind` | `CursorIsBehindQueue` | |

The lease argument is about time: `TicksEnd` bounds the age of a tick by the
rows it has worked off, so a tick that holds a row is younger than `Lease` and
the row's timer has not run out; no other tick finds it due. The count of real
POSTs is not inductive without what a tick has read: no attempt number, of a row
or read by a tick, exceeds the POSTs made, and a tick that holds a row has made
one more than it read, so the attempt it writes was made however stale its read
is. A row given up without attempts needs that the tick has seen its subscriber
inactive, which is forever. For the cursor, everything a pass leaves behind is
queued for whoever was due it, as is everything behind the cursor, so a pass may
write its cursor over that of another.

### Sessions (`SessionRevocationsProofs`)

`TypeCorrect`, `LoggedOut` (`LoggedOutStaysOut`), `ForcedOut`
(`ForcedOutStaysOut`) and `LaterLogin` (`LaterLoginWorks`), for every lifetime
and every skew below it. The inductive invariant `RowInv` says that a row of a
jti outlives its token, that a session forced out is stopped by a row of one of
its identities which outlives it or has expired, that a pending purge carries a
time of the past, so that a late purge removes only rows that no live token
needs, and that a horizon lies at most the skew after the order that set it.

### The service

| module | theorem | says |
|---|---|---|
| `ServiceAccessProofs` | `Identity` | `IdentityIsProven` |
| | `CodesOnce` | `CodesGiveOnce` |
| | `OwnSubscriptions` | `SubscriptionsAreOwn` |
| | `CancellationsAreKept` | `ClosedCancelWasCached`, an action property |
| | `PaidGoods` | `PaidIsHandedOut` |
| `ServiceJobsProofs` | `EntryKept` | `EntryIsKept` |
| | `ToldOnce` | `SentOnce` |
| | `DaysChain` | `FoldsChain` |
| | `AlertsInTurn` | `AlertsAlternate` |
| `ServiceTrafficProofs` | `CountersHold` | `LimitsHold` |
| | `OwnIsHeard` | `HeardIsOwn` |
| | `PagesOnce` | `PagesPartition` |
| | `AnswersRecent` | `AnswerIsRecent` |
| | `EmptyReal` | `EmptyIsReal` |
| `ServiceTypeProofs` | `AllTyped` | `ServiceTypeOK` |

None of them has a hypothesis. The first three modules open with the lemma that
the part that moves moves by its own `Next`; then each part has its inductive invariant
as a theorem of its own (`LinkInvariant`, `GateInvariant`, `ReferralInvariant`,
`SubscriptionInvariant`, `CheckoutInvariant`, `ChangelogInvariant`,
`NoticeInvariant`, `DmInvariant`, `DayInvariant`, `AlertInvariant`,
`CommandInvariant`, `LimitInvariant`, `SlotInvariant`, `FaultInvariant`,
`StreamInvariant`, `BoardInvariant`, `CacheInvariant`, `ReadInvariant`), with
one step per action; the properties are conjunctions of what these imply. What
makes them inductive:

* links: a code that some request has read is spent and has given nothing, and
  a request on its way to the link holds a pair for which a code vouched;
* referrals: what a request is about to credit is not credited and is its alone;
* messages: the history of refusals bounds the attempts any drain has read;
  while drains end within their lease a held row has one holder;
* daily folds: the days of a pass ascend and only the oldest day any pass will
  see may stand without a predecessor;
* alerts: what was said last is what the row records or a job is about to record;
* limits: while a window runs and no foreign cleanup forgets it, its row counts
  every request let through;
* slots: the slots in use are the queries that hold one or were handed one, and
  whoever waits is in the queue once, also between `resolve` and continuation;
* streams: counters equal live connections, also between the two increments of
  the cap check; ring and frames ascend below the topic's number;
* boards: while live rows answered, whoever did not move was shown once exactly
  if the cursor has passed him; this needs that a page of a finite strict order has
  a last element (`LastThereIs`, from the library's fact that the strict subsets of
  a finite set are well-founded) and that nobody lies between it and the next page;
* cache: the entry, what a request holds and what is about to be written were
  read when they were stamped and are within their time to live. It is inductive
  because what a request or a background task does takes less than a unit of
  time (a minute), as the header of the module says;
* reads: a kept profile never shows nothing in the name of the live rows.

`AllTyped` is proved part by part (`LinksTyped`, `CacheTyped`, ...), each from the
part's invariant and what the types need beyond it. Most of it is bookkeeping;
three conjuncts are not. A referrer's counter stays within the number of players:
the counted pairs of one owner inject into all that was counted, that is no
more than the redemptions, and these inject into the players, because each redeems
once. A ring never outgrows its size and a topic's number its last one
(`RingIsCut`, `StreamBoundsStay`). A request on its way through the cache carries
times within the clock, however long it was under way (`CacheStays`).

What the proofs changed in the models. Two CASE expressions had guards that
overlap (`Checkouts.StoreAuth`, `ResponseCache.legionCard`), which TLC reads in
order and the logic does not; they are disjoint now. A referrer's counter is the
size of the set `Counted` of what was counted; `EventStream.framesAfter` is an
end of the ring and `BoardPages.PageOf` the set of those whom fewer than a page
of rows precede, instead of a fold and a selection. Each is the same value, and the
runs and mutants are unchanged.

Only model-checked: liveness (`PaidOrderIsDelivered`, `EveryDeliveryCloses`),
which is out of the prover's reach. Every safety and action property of the
passing runs has its theorem. That `framesAfter`, the folds and the pages compute
what the loops of the code compute is read off the code and checked by the runs,
not proved.

## Not modelled

Signatures, payloads, formatting, prices, product descriptions; PayNow's own
retry schedule (a post may be repeated at any time); the identity services
behind the sign-ins. Guides, comments, gallery, tickets, web queue, web shop,
community and profiles are single statements per request with little state
between them; retention and revenue are arithmetic over stored rows; bot
commands are stateless; the role audit and the ticket sweep of the cron are
left for later; error alerts and crash reports are per-isolate counters and
text. PROJECT.json lists each with its reason.

## Plan

Done: the money path, the webhook queue, sessions, the parts of `Service`, and a
theorem for every safety and action property of the passing runs. What is left,
in order:

1. The role audit with its page cursor, the ticket sweep, keys and their
   administration.
2. Liveness of the jobs: a queued message and a due notice go out in the end.
