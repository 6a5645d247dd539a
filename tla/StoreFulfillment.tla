-------------------------- MODULE StoreFulfillment --------------------------
(***************************************************************************)
(* The delivery of one paid PayNow order (src/src/paynow/fulfillment.ts).  *)
(*                                                                         *)
(* PayNow posts order_completed to the webhook and posts it again until it *)
(* reads a 2xx.  Every post is a call of fulfillPaynowOrder, and calls may *)
(* overlap.  A call works on all the lines of the order in parallel: it    *)
(* claims the line in D1, notes it in the delivery ledger, queues a signed *)
(* command for the game server and waits at most six seconds for the       *)
(* answer.  A line that fails gives its claim back, and the call answers   *)
(* 500.  The game server (external) keeps a registry of transaction ids    *)
(* and credits an id once, whenever the command reaches it: also after the *)
(* caller stopped waiting.                                                 *)
(*                                                                         *)
(* Orders share nothing (claims, ledger rows and transaction ids all start *)
(* with the order id), so the module follows one order.  Not in the state: *)
(* the goods' kind and amount, the labels and the clock; a timeout is a    *)
(* step that may happen at any time while a line waits.                    *)
(***************************************************************************)
EXTENDS Naturals

CONSTANTS
    Calls,    \* webhook invocations that can be in progress at one time
    Lines,    \* indices of the order's lines
    Unknown,  \* lines whose product resolveStoreDispatch does not know
    Gifts,    \* lines bought for another player
    Players,  \* Minecraft uuids a customer can resolve to
    Nobody,   \* the caller of a command whose caller no longer waits
    Faults    \* what may go wrong: see FaultKinds

(* "claim": a D1 error on the claim, which fails open;  "release": a D1     *)
(* error on giving a claim back, which is swallowed;  "ledger": a lost      *)
(* ledger write;  "crash": the isolate dies in the middle of a call.        *)
FaultKinds == {"claim", "release", "ledger", "crash"}

ASSUME LinesAssumption == Lines \subseteq Nat /\ Unknown \subseteq Lines /\ Gifts \subseteq Lines
ASSUME PlayersAssumption == Players # {}
ASSUME CallersAssumption == Nobody \notin Calls
ASSUME FaultsAssumption == Faults \subseteq FaultKinds

VARIABLES
    live,      \* calls in progress
    pc,        \* where each line of each call is
    target,    \* the player each call resolved each line to
    claims,    \* rows of paynow_order_dispatches
    blind,     \* keys some call went on with after a failed claim (history)
    ledger,    \* status per row of store_delivery_ledger
    bus,       \* commands queued in web_commands
    registry,  \* transaction ids the game server has recorded
    goods,     \* what players were credited with
    settled    \* PayNow has read a 2xx and stops posting the event

callVars   == <<live, pc, target>>
pluginVars == <<registry, goods>>
vars == <<live, pc, target, claims, blind, ledger, bus, registry, goods, settled>>

KnownLines == Lines \ Unknown

(* line_key '<index>:<product>:<qty>:<uuid>': product and quantity are the  *)
(* line's own, so index and uuid tell two keys of one order apart.          *)
Keys == Lines \X Players

(* Mutant (B-57 undone): all lines of an order share the bare order id.     *)
TxIdBare(l) == <<>>

(* The part of transaction_id after the order id: nothing for line 0,       *)
(* ":L<index>" for the others.                                              *)
TxId(l) == IF l = 0 THEN <<>> ELSE <<l>>
TxIds == {TxId(l) : l \in Lines}

Owning == {"claimed", "queued", "waiting", "granted", "rejected", "releasing"}
Finished == {"skipped", "failed", "dispatched"}
LinePhase == {"start"} \cup Owning \cup Finished
LedgerStatus == {"absent", "pending", "delivered", "failed"}
Command == [line : Lines, player : Players, from : Calls \cup {Nobody}]

(* All lines that are not gifts go to the one buyer.                        *)
Resolutions == {t \in [Lines -> Players] : \A l, m \in Lines \ Gifts : t[l] = t[m]}
Unresolved == CHOOSE t \in Resolutions : TRUE

(* Lines of unknown products are passed over before anything else happens.  *)
Fresh == [l \in Lines |-> IF l \in Unknown THEN "skipped" ELSE "start"]

KeyOf(c, l) == <<l, target[c][l]>>
HasGoods(l) == \E p \in Players : <<l, p>> \in goods

TypeOK ==
    /\ live \subseteq Calls
    /\ pc \in [Calls -> [Lines -> LinePhase]]
    /\ target \in [Calls -> [Lines -> Players]]
    /\ claims \subseteq Keys
    /\ blind \subseteq Keys
    /\ ledger \in [Keys -> LedgerStatus]
    /\ bus \subseteq Command
    /\ registry \in [TxIds -> {"none", "recorded", "refunded"}]
    /\ goods \subseteq Keys
    /\ settled \in BOOLEAN

Init ==
    /\ live = {}
    /\ pc = [c \in Calls |-> Fresh]
    /\ target = [c \in Calls |-> Unresolved]
    /\ claims = {}
    /\ blind = {}
    /\ ledger = [k \in Keys |-> "absent"]
    /\ bus = {}
    /\ registry = [t \in TxIds |-> "none"]
    /\ goods = {}
    /\ settled = FALSE

-----------------------------------------------------------------------------
(* The ledger never fails a delivery: a write may be lost.  The first write *)
(* of a line is an upsert; the later ones update a row if it is there.      *)
LedgerUpsert(k, status) ==
    \/ ledger' = [ledger EXCEPT ![k] = status]
    \/ "ledger" \in Faults /\ UNCHANGED ledger

LedgerPatch(k, status) ==
    IF ledger[k] = "absent" THEN UNCHANGED ledger ELSE LedgerUpsert(k, status)

MoveTo(c, l, phase) == pc' = [pc EXCEPT ![c][l] = phase]

(* The commands of a caller that no longer waits stay queued.  Two of them  *)
(* with the same line and player are one: the game server would answer the  *)
(* second OK (DUPLICATE) to nobody.                                         *)
Abandoned(cmds) == (bus \ cmds) \cup {[m EXCEPT !.from = Nobody] : m \in cmds}

(* A post of order_completed arrives, at any time: PayNow repeats a post it *)
(* read no 2xx for, and may repeat one it did.  A body without an order id  *)
(* and an unresolvable buyer answer 500 and change nothing; they are not    *)
(* modelled as steps.                                                       *)
Receive(c) ==
    /\ c \notin live
    /\ live' = live \cup {c}
    /\ \E t \in Resolutions : target' = [target EXCEPT ![c] = t]
    /\ UNCHANGED <<pc, claims, blind, ledger, bus, pluginVars, settled>>

GiftUnresolvable(c, l) ==
    /\ c \in live /\ pc[c][l] = "start" /\ l \in Gifts
    /\ MoveTo(c, l, "failed")
    /\ UNCHANGED <<live, target, claims, blind, ledger, bus, pluginVars, settled>>

(* Mutant: the result of the insert is not looked at.                       *)
ClaimLineUnchecked(c, l) ==
    /\ c \in live /\ pc[c][l] = "start"
    /\ claims' = claims \cup {KeyOf(c, l)}
    /\ MoveTo(c, l, "claimed")
    /\ UNCHANGED <<live, target, blind, ledger, bus, pluginVars, settled>>

(* Mutant: the ledger is written before the claim is tried.                 *)
ClaimLineAfterLedger(c, l) ==
    /\ c \in live /\ pc[c][l] = "start"
    /\ LedgerUpsert(KeyOf(c, l), "pending")
    /\ claims' = claims \cup {KeyOf(c, l)}
    /\ MoveTo(c, l, IF KeyOf(c, l) \in claims THEN "skipped" ELSE "claimed")
    /\ UNCHANGED <<live, target, blind, bus, pluginVars, settled>>

(* claimOrderLine: insert-or-ignore.  A row that is already there means the *)
(* line was claimed before; an error means nothing and lets the call go on. *)
ClaimLine(c, l) ==
    /\ c \in live /\ pc[c][l] = "start"
    /\ \/ /\ KeyOf(c, l) \notin claims
          /\ claims' = claims \cup {KeyOf(c, l)}
          /\ MoveTo(c, l, "claimed")
          /\ UNCHANGED blind
       \/ /\ KeyOf(c, l) \in claims
          /\ MoveTo(c, l, "skipped")
          /\ UNCHANGED <<claims, blind>>
       \/ /\ "claim" \in Faults
          /\ blind' = blind \cup {KeyOf(c, l)}
          /\ MoveTo(c, l, "claimed")
          /\ UNCHANGED claims
    /\ UNCHANGED <<live, target, ledger, bus, pluginVars, settled>>

(* Mutant: a status the ledger does not know.                               *)
LedgerQueuedMisnamed(c, l) ==
    /\ pc[c][l] = "claimed"
    /\ LedgerUpsert(KeyOf(c, l), "queued")
    /\ MoveTo(c, l, "queued")
    /\ UNCHANGED <<live, target, claims, blind, bus, pluginVars, settled>>

LedgerQueued(c, l) ==
    /\ pc[c][l] = "claimed"
    /\ LedgerUpsert(KeyOf(c, l), "pending")
    /\ MoveTo(c, l, "queued")
    /\ UNCHANGED <<live, target, claims, blind, bus, pluginVars, settled>>

(* sendCommand inserts the envelope; the game server polls for it.          *)
Send(c, l) ==
    /\ pc[c][l] = "queued"
    /\ bus' = bus \cup {[line |-> l, player |-> target[c][l], from |-> c]}
    /\ MoveTo(c, l, "waiting")
    /\ UNCHANGED <<live, target, claims, blind, ledger, pluginVars, settled>>

(* The answer was OK and is read in time: the line is delivered.            *)
Confirm(c, l) ==
    /\ pc[c][l] = "granted"
    /\ LedgerPatch(KeyOf(c, l), "delivered")
    /\ MoveTo(c, l, "dispatched")
    /\ UNCHANGED <<live, target, claims, blind, bus, pluginVars, settled>>

(* Mutant: a failed line is answered 500 for, but its claim is not given    *)
(* back.                                                                    *)
FailLineUnreleased(c, l) ==
    /\ pc[c][l] \in {"queued", "waiting", "granted", "rejected"}
    /\ LedgerPatch(KeyOf(c, l), "failed")
    /\ bus' = Abandoned({m \in bus : m.from = c /\ m.line = l})
    /\ MoveTo(c, l, "failed")
    /\ UNCHANGED <<live, target, claims, blind, pluginVars, settled>>

(* The command could not be queued, was rejected, or timed out, answered or *)
(* not: the line failed.                                                    *)
FailLine(c, l) ==
    /\ pc[c][l] \in {"queued", "waiting", "granted", "rejected"}
    /\ LedgerPatch(KeyOf(c, l), "failed")
    /\ bus' = Abandoned({m \in bus : m.from = c /\ m.line = l})
    /\ MoveTo(c, l, "releasing")
    /\ UNCHANGED <<live, target, claims, blind, pluginVars, settled>>

(* Mutant: the delete names the order, not the line.                        *)
ReleaseLineOfOrder(c, l) ==
    /\ pc[c][l] = "releasing"
    /\ claims' = {}
    /\ MoveTo(c, l, "failed")
    /\ UNCHANGED <<live, target, blind, ledger, bus, pluginVars, settled>>

(* Mutant: the delete misses the row.                                       *)
ReleaseLineMissing(c, l) ==
    /\ pc[c][l] = "releasing"
    /\ MoveTo(c, l, "failed")
    /\ UNCHANGED <<live, target, claims, blind, ledger, bus, pluginVars, settled>>

ReleaseLine(c, l) ==
    /\ pc[c][l] = "releasing"
    /\ \/ claims' = claims \ {KeyOf(c, l)}
       \/ "release" \in Faults /\ UNCHANGED claims
    /\ MoveTo(c, l, "failed")
    /\ UNCHANGED <<live, target, blind, ledger, bus, pluginVars, settled>>

(* Mutant: the webhook answers 200 although lines failed.                   *)
AnswerAnyway(c) ==
    /\ c \in live
    /\ \A l \in Lines : pc[c][l] \in Finished
    /\ settled' \in {settled, TRUE}
    /\ live' = live \ {c}
    /\ pc' = [pc EXCEPT ![c] = Fresh]
    /\ target' = [target EXCEPT ![c] = Unresolved]
    /\ UNCHANGED <<claims, blind, ledger, bus, pluginVars>>

(* Mutant: a line that was delivered by an earlier post counts as failed.   *)
AnswerAllOrNothing(c) ==
    /\ c \in live
    /\ \A l \in Lines : pc[c][l] \in Finished
    /\ \/ UNCHANGED settled
       \/ (\A l \in Lines : pc[c][l] = "dispatched") /\ settled' = TRUE
    /\ live' = live \ {c}
    /\ pc' = [pc EXCEPT ![c] = Fresh]
    /\ target' = [target EXCEPT ![c] = Unresolved]
    /\ UNCHANGED <<claims, blind, ledger, bus, pluginVars>>

(* The call is over.  With a failed line the webhook answers 500 and PayNow *)
(* repeats the post; without one it answers 200, which PayNow may miss.     *)
Answer(c) ==
    /\ c \in live
    /\ \A l \in Lines : pc[c][l] \in Finished
    /\ \/ UNCHANGED settled
       \/ (\A l \in Lines : pc[c][l] # "failed") /\ settled' = TRUE
    /\ live' = live \ {c}
    /\ pc' = [pc EXCEPT ![c] = Fresh]
    /\ target' = [target EXCEPT ![c] = Unresolved]
    /\ UNCHANGED <<claims, blind, ledger, bus, pluginVars>>

Crash(c) ==
    /\ "crash" \in Faults /\ c \in live
    /\ live' = live \ {c}
    /\ pc' = [pc EXCEPT ![c] = Fresh]
    /\ target' = [target EXCEPT ![c] = Unresolved]
    /\ bus' = Abandoned({m \in bus : m.from = c})
    /\ UNCHANGED <<claims, blind, ledger, pluginVars, settled>>

-----------------------------------------------------------------------------
(* The game server, external.  It answers the caller that still waits.      *)
Reply(m, phase) ==
    IF m.from = Nobody THEN UNCHANGED pc ELSE MoveTo(m.from, m.line, phase)

(* Mutant: the registry is written but not consulted.                       *)
PluginGrantTwice(m) ==
    /\ m \in bus
    /\ bus' = bus \ {m}
    /\ registry' = [registry EXCEPT ![TxId(m.line)] = "recorded"]
    /\ goods' = goods \cup {<<m.line, m.player>>}
    /\ Reply(m, "granted")
    /\ UNCHANGED <<live, target, claims, blind, ledger, settled>>

(* A transaction id is credited once; a known one answers OK (DUPLICATE).   *)
PluginGrant(m) ==
    /\ m \in bus
    /\ bus' = bus \ {m}
    /\ IF registry[TxId(m.line)] = "none"
       THEN /\ registry' = [registry EXCEPT ![TxId(m.line)] = "recorded"]
            /\ goods' = goods \cup {<<m.line, m.player>>}
       ELSE UNCHANGED pluginVars
    /\ Reply(m, "granted")
    /\ UNCHANGED <<live, target, claims, blind, ledger, settled>>

PluginReject(m) ==
    /\ m \in bus
    /\ bus' = bus \ {m}
    /\ Reply(m, "rejected")
    /\ UNCHANGED <<live, target, claims, blind, ledger, pluginVars, settled>>

(* Commands older than the 30 s signature window are dropped unanswered.    *)
PluginDrop(m) ==
    /\ m \in bus
    /\ bus' = bus \ {m}
    /\ UNCHANGED <<live, pc, target, claims, blind, ledger, pluginVars, settled>>

-----------------------------------------------------------------------------
LineStep(c, l) ==
    \/ GiftUnresolvable(c, l) \/ ClaimLine(c, l) \/ LedgerQueued(c, l)
    \/ Send(c, l) \/ Confirm(c, l) \/ FailLine(c, l) \/ ReleaseLine(c, l)

PluginStep(m) == PluginGrant(m) \/ PluginReject(m) \/ PluginDrop(m)

Next ==
    \/ \E c \in Calls : Receive(c) \/ Answer(c) \/ Crash(c)
    \/ \E c \in Calls, l \in Lines : LineStep(c, l)
    \/ \E m \in bus : PluginStep(m)

Spec == Init /\ [][Next]_vars

(* What liveness needs.  Inside a call the code runs on by itself: a line   *)
(* moves when its next await returns, a wait ends at the latest by timeout. *)
(* Outside, PayNow repeats the post until it reads a 2xx (so a 200 is read  *)
(* sometimes), a gift's recipient resolves sometimes, and the game server   *)
(* answers a waiting call OK in time again and again.                       *)
Progress(c, l) == LedgerQueued(c, l) \/ FailLine(c, l) \/ ReleaseLine(c, l)

Fairness ==
    /\ \A c \in Calls :
          /\ WF_vars(Receive(c) /\ ~settled)
          /\ WF_vars(Answer(c))
          /\ SF_vars(Answer(c) /\ settled')
    /\ \A c \in Calls, l \in Lines :
          /\ WF_vars(Progress(c, l))
          /\ SF_vars(ClaimLine(c, l))
          /\ SF_vars(Send(c, l))
          /\ SF_vars(\E m \in bus : m.from = c /\ m.line = l /\ PluginGrant(m))
          /\ SF_vars(Confirm(c, l))

LiveSpec == Spec /\ Fairness

-----------------------------------------------------------------------------
(* A line is worked on by one call at a time, and that call's claim is on   *)
(* record: retries and overlapping posts never dispatch a line side by      *)
(* side, unless a claim write failed open.                                  *)
OneOwnerPerLine ==
    \A c \in Calls, l \in Lines :
        (pc[c][l] \in Owning /\ KeyOf(c, l) \notin blind) =>
            /\ KeyOf(c, l) \in claims
            /\ \A d \in Calls :
                  (pc[d][l] \in Owning /\ KeyOf(d, l) = KeyOf(c, l)) => d = c

(* A line the ledger calls delivered keeps its claim: the claim rows are    *)
(* what suppresses later posts and what a refund revokes from.              *)
DeliveredKeepsClaim ==
    \A k \in Keys \ blind : ledger[k] = "delivered" => k \in claims

(* Once the ledger says delivered, no late failure, retry or overlapping    *)
(* call takes it back to pending or failed.                                 *)
DeliveredIsFinal ==
    [][\A k \in Keys \ blind : ledger[k] = "delivered" => ledger'[k] = "delivered"]_vars

(* However often a line is sent, late, twice, or after its customer came to *)
(* resolve to another player, its goods are credited to one player.         *)
CreditedAtMostOnce == \A j, k \in goods : j[1] = k[1] => j = k

(* What the ledger calls delivered was credited for that very line, also    *)
(* when two lines of the cart are identical (B-57).                         *)
DeliveredHasGoods == \A k \in Keys : ledger[k] = "delivered" => HasGoods(k[1])

(* A claim row never outlives its reason: its line was credited, or a call  *)
(* is still at work on it (needs: no crash, no failed release).             *)
NoOrphanClaim ==
    \A k \in claims : \/ HasGoods(k[1])
                      \/ \E c \in live : pc[c][k[1]] \in Owning /\ KeyOf(c, k[1]) = k

(* When PayNow has been told 2xx every known line has been credited (needs: *)
(* one call at a time, no crash, no failed release).                        *)
SettledIsDelivered == settled => \A l \in KnownLines : HasGoods(l)

(* The same for any overlap of calls, read when nothing is under way any    *)
(* more: an order PayNow was told is done is not left undelivered for good. *)
NothingLostAtRest == (live = {} /\ bus = {}) => SettledIsDelivered

(* The order as StorePromise sees it.                                       *)
ItemOf(l) ==
    IF registry[TxId(l)] = "refunded" THEN "revoked"
    ELSE IF HasGoods(l) THEN "delivered" ELSE "owed"

Promise == INSTANCE StorePromise WITH
    Items <- KnownLines,
    item <- [l \in KnownLines |-> ItemOf(l)],
    settled <- settled,
    closed <- FALSE

(* With one call at a time, reliable claims and no crash the whole protocol *)
(* of claims, ledger, commands, timeouts and retries does what StorePromise *)
(* says.                                                                    *)
ImplementsPromise == Promise!Spec

(* A paid order is delivered in full and PayNow stops posting it.           *)
PaidOrderIsDelivered == <>[](settled /\ \A l \in KnownLines : HasGoods(l))
=============================================================================
