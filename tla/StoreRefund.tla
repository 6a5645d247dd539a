---------------------------- MODULE StoreRefund ----------------------------
(***************************************************************************)
(* Refunds and chargebacks of the order StoreFulfillment delivers          *)
(* (refundPaynowOrder in src/src/paynow/fulfillment.ts).                   *)
(*                                                                         *)
(* A refund post reads the order's claim rows, derives the transaction ids *)
(* its lines were sent under and asks the game server to revoke each.  An  *)
(* order without claim rows is "not delivered": 200, nothing to revoke.    *)
(* Any failed revocation answers 500 and PayNow posts the refund again.    *)
(* The claim rows stay.  Everything StoreFulfillment does goes on at the   *)
(* same time; the two meet in claims, registry and goods.                  *)
(***************************************************************************)
EXTENDS StoreFulfillment

CONSTANTS
    RefundCalls,        \* refund posts that can be in progress at one time
    RefundsWaitForRest  \* refunds start only once the order is settled and
                        \* no call and no command of it is under way

ASSUME RefundAssumption == Nobody \notin RefundCalls /\ RefundsWaitForRest \in BOOLEAN

VARIABLES
    rpc,    \* where each refund post is with each transaction id
    rbus,   \* STORE_REFUND commands queued in web_commands
    closed  \* how PayNow was last told 2xx for the refund

refundVars == <<rpc, rbus, closed>>
allVars == <<vars, refundVars>>

RefundPhase == {"off", "send", "waiting", "revoked", "already", "failed"}
AllOff == [t \in TxIds |-> "off"]
Working(r) == rpc[r] # AllOff

(* Mutant: only the bare order id is revoked.                               *)
RefundTxIdsBare == IF claims = {} THEN {} ELSE {<<>>}

(* refundTransactionIds: the ids the claimed lines were dispatched under.   *)
RefundTxIds == {TxId(k[1]) : k \in claims}

RefundTypeOK ==
    /\ rpc \in [RefundCalls -> [TxIds -> RefundPhase]]
    /\ rbus \subseteq [tx : TxIds, from : RefundCalls \cup {Nobody}]
    /\ closed \in {"no", "ok", "not_delivered"}

RefundInit ==
    /\ Init
    /\ rpc = [r \in RefundCalls |-> AllOff]
    /\ rbus = {}
    /\ closed = "no"

(* The 200 is read by PayNow, or not and then the post is repeated.         *)
Tell(how) == UNCHANGED closed \/ closed' = how

(* Mutant: a result that is not one of RefundResult's.                      *)
RefundReceiveUnnamed(r) ==
    /\ ~Working(r)
    /\ claims = {}
    /\ Tell("none")
    /\ UNCHANGED <<vars, rpc, rbus>>

(* Mutant: unreadable claim rows are taken for no claim rows.               *)
RefundReceiveBlind(r) ==
    /\ ~Working(r)
    /\ RefundsWaitForRest => settled /\ live = {} /\ bus = {}
    /\ Tell("not_delivered")
    /\ UNCHANGED <<vars, rpc, rbus>>

(* A refund post arrives; the claim rows are read.  Without an order id or  *)
(* with unreadable rows it answers 500 and changes nothing (not a step).    *)
RefundReceive(r) ==
    /\ ~Working(r)
    /\ RefundsWaitForRest => settled /\ live = {} /\ bus = {}
    /\ IF claims = {}
       THEN Tell("not_delivered") /\ UNCHANGED rpc
       ELSE /\ rpc' = [rpc EXCEPT ![r] =
                         [t \in TxIds |-> IF t \in RefundTxIds THEN "send" ELSE "off"]]
            /\ UNCHANGED closed
    /\ UNCHANGED <<vars, rbus>>

RefundSend(r, t) ==
    /\ rpc[r][t] = "send"
    /\ rpc' = [rpc EXCEPT ![r][t] = "waiting"]
    /\ rbus' = rbus \cup {[tx |-> t, from |-> r]}
    /\ UNCHANGED <<vars, closed>>

(* The command could not be queued, or no answer was read in six seconds.   *)
RefundTimeout(r, t) ==
    /\ rpc[r][t] \in {"send", "waiting", "revoked", "already"}
    /\ rpc' = [rpc EXCEPT ![r][t] = "failed"]
    /\ rbus' = {IF m.from = r /\ m.tx = t THEN [m EXCEPT !.from = Nobody] ELSE m : m \in rbus}
    /\ UNCHANGED <<vars, closed>>

(* Mutant: 200 although a revocation failed.                                *)
RefundAnswerAnyway(r) ==
    /\ Working(r)
    /\ \A t \in TxIds : rpc[r][t] \notin {"send", "waiting"}
    /\ Tell("ok")
    /\ rpc' = [rpc EXCEPT ![r] = AllOff]
    /\ UNCHANGED <<vars, rbus>>

(* Mutant: a completed refund deletes the order's claim rows.               *)
RefundAnswerForgetting(r) ==
    /\ Working(r)
    /\ \A t \in TxIds : rpc[r][t] \notin {"send", "waiting"}
    /\ IF \E t \in TxIds : rpc[r][t] = "failed" THEN UNCHANGED <<closed, claims>>
       ELSE Tell("ok") /\ claims' = {}
    /\ rpc' = [rpc EXCEPT ![r] = AllOff]
    /\ UNCHANGED <<callVars, blind, ledger, bus, pluginVars, settled, rbus>>

RefundAnswer(r) ==
    /\ Working(r)
    /\ \A t \in TxIds : rpc[r][t] \notin {"send", "waiting"}
    /\ IF \E t \in TxIds : rpc[r][t] = "failed" THEN UNCHANGED closed ELSE Tell("ok")
    /\ rpc' = [rpc EXCEPT ![r] = AllOff]
    /\ UNCHANGED <<vars, rbus>>

(* The isolate dies; PayNow read no answer and posts the refund again.      *)
RefundCrash(r) ==
    /\ Working(r)
    /\ rpc' = [rpc EXCEPT ![r] = AllOff]
    /\ rbus' = {IF m.from = r THEN [m EXCEPT !.from = Nobody] ELSE m : m \in rbus}
    /\ UNCHANGED <<vars, closed>>

-----------------------------------------------------------------------------
(* The game server, external: a recorded transaction is revoked once; an    *)
(* unknown one and a revoked one get the same "Transaction not found or     *)
(* already refunded", which counts as done.                                 *)
RefundReply(m, phase) ==
    IF m.from = Nobody THEN UNCHANGED rpc ELSE rpc' = [rpc EXCEPT ![m.from][m.tx] = phase]

PluginRefund(m) ==
    /\ m \in rbus
    /\ rbus' = rbus \ {m}
    /\ IF registry[m.tx] = "recorded"
       THEN /\ registry' = [registry EXCEPT ![m.tx] = "refunded"]
            /\ goods' = {k \in goods : TxId(k[1]) # m.tx}
            /\ RefundReply(m, "revoked")
       ELSE UNCHANGED pluginVars /\ RefundReply(m, "already")
    /\ UNCHANGED <<live, pc, target, claims, blind, ledger, bus, settled, closed>>

PluginRefundReject(m) ==
    /\ m \in rbus
    /\ rbus' = rbus \ {m}
    /\ RefundReply(m, "failed")
    /\ UNCHANGED <<vars, closed>>

PluginRefundDrop(m) ==
    /\ m \in rbus
    /\ rbus' = rbus \ {m}
    /\ UNCHANGED <<vars, rpc, closed>>

-----------------------------------------------------------------------------
RefundNext ==
    \/ \E r \in RefundCalls : RefundReceive(r) \/ RefundAnswer(r) \/ RefundCrash(r)
    \/ \E r \in RefundCalls, t \in TxIds : RefundSend(r, t) \/ RefundTimeout(r, t)
    \/ \E m \in rbus : PluginRefund(m) \/ PluginRefundReject(m) \/ PluginRefundDrop(m)

OrderNext == Next /\ UNCHANGED refundVars

RefundSpec == RefundInit /\ [][OrderNext \/ RefundNext]_allVars

-----------------------------------------------------------------------------
(* Once a refund is closed as done, no order post repeated afterwards sends *)
(* a command again: the claim rows outlive the refund (needs: the customer  *)
(* resolves to the same player as before).                                  *)
RefundedStaysQuiet == [][closed = "ok" => bus' \subseteq bus]_allVars

(* A refund that PayNow was told is done leaves the player nothing of the   *)
(* order, then and later (needs: refunds wait for the order to rest, one    *)
(* order post at a time, no crash or failed claim or release in it).        *)
NothingKeptAfterRefund == closed # "no" => goods = {}

(* "not_delivered: nothing of ours to revoke": a refund closed that way     *)
(* finds the player without goods of the order.                             *)
NotDeliveredIsTrue ==
    [][(closed' = "not_delivered" /\ closed # closed') => goods = {}]_allVars

(* Each line the ledger proves delivered has a transaction id the refund    *)
(* finds, also for a cart with identical lines.                             *)
DeliveredIsRevocable ==
    \A k \in Keys : ledger[k] = "delivered" => TxId(k[1]) \in RefundTxIds

RefundPromise == INSTANCE StorePromise WITH
    Items <- KnownLines,
    item <- [l \in KnownLines |-> ItemOf(l)],
    settled <- settled,
    closed <- (closed # "no")

(* Order and refund together do what StorePromise says, when refunds wait   *)
(* for the order to come to rest.                                           *)
RefundImplementsPromise == RefundPromise!Spec
=============================================================================
