-------------------------- MODULE StoreRefundProofs --------------------------
(***************************************************************************)
(* Proofs about StoreRefund, for any number of order posts, refund posts,  *)
(* lines and players, on top of what StoreFulfillmentProofs shows of the   *)
(* order alone.                                                            *)
(***************************************************************************)
EXTENDS StoreRefund, StoreFulfillmentProofs

(* What of the order a refund does not touch.                               *)
orderVars == <<live, pc, target, claims, blind, ledger, bus, settled>>

(* The only thing a refund does to the order: the game server marks one     *)
(* recorded transaction refunded and takes its goods back.                  *)
Revokes(t) ==
    /\ registry[t] = "recorded"
    /\ registry' = [registry EXCEPT ![t] = "refunded"]
    /\ goods' = {k \in goods : TxId(k[1]) # t}

LEMMA AllOffType == AllOff \in [TxIds -> RefundPhase]
BY DEF AllOff, RefundPhase

LEMMA RefundTypeInit == RefundInit => TypeOK /\ RefundTypeOK
BY TypeInit, AllOffType DEF RefundInit, RefundTypeOK

(* Every step is a step of the order that leaves the refunds alone, or a    *)
(* step of the refunds that does to the order no more than revoke.          *)
LEMMA RefundSplit ==
    ASSUME RefundTypeOK, [OrderNext \/ RefundNext]_allVars
    PROVE  \/ [Next]_vars /\ UNCHANGED refundVars
           \/ /\ RefundNext /\ UNCHANGED orderVars
              /\ UNCHANGED pluginVars \/ \E t \in TxIds : Revokes(t)
<1>1. CASE OrderNext \/ UNCHANGED allVars
  BY <1>1 DEF OrderNext, allVars
<1>2. ASSUME NEW r \in RefundCalls,
             \/ RefundReceive(r) \/ RefundAnswer(r) \/ RefundCrash(r)
             \/ \E t \in TxIds : RefundSend(r, t) \/ RefundTimeout(r, t)
      PROVE  UNCHANGED orderVars /\ UNCHANGED pluginVars
  BY <1>2 DEF RefundReceive, RefundAnswer, RefundCrash, RefundSend, RefundTimeout, vars,
              orderVars, pluginVars
<1>3. ASSUME NEW m \in rbus, PluginRefundReject(m) \/ PluginRefundDrop(m)
      PROVE  UNCHANGED orderVars /\ UNCHANGED pluginVars
  BY <1>3 DEF PluginRefundReject, PluginRefundDrop, vars, orderVars, pluginVars
<1>4. ASSUME NEW m \in rbus, PluginRefund(m)
      PROVE  /\ UNCHANGED orderVars
             /\ UNCHANGED pluginVars \/ \E t \in TxIds : Revokes(t)
  BY <1>4 DEF PluginRefund, RefundTypeOK, Revokes, orderVars
<1>5. CASE RefundNext
  BY <1>2, <1>3, <1>4, <1>5 DEF RefundNext
<1>. QED  BY <1>1, <1>5 DEF allVars

LEMMA RefundTypeStep ==
    ASSUME TypeOK, RefundTypeOK, [OrderNext \/ RefundNext]_allVars
    PROVE  TypeOK' /\ RefundTypeOK'
<1>1. TypeOK'
  <2>1. CASE [Next]_vars
    BY <2>1, TypeStep
  <2>2. CASE UNCHANGED orderVars /\ (UNCHANGED pluginVars \/ \E t \in TxIds : Revokes(t))
    BY <2>2 DEF TypeOK, orderVars, pluginVars, Revokes
  <2>. QED  BY <2>1, <2>2, RefundSplit
<1>2. ASSUME NEW r \in RefundCalls, RefundReceive(r) \/ RefundAnswer(r) \/ RefundCrash(r)
      PROVE  RefundTypeOK'
  <2>1. closed' \in {"no", "ok", "not_delivered"}
    BY <1>2 DEF RefundTypeOK, RefundReceive, RefundAnswer, RefundCrash, Tell
  <2>2. rpc' \in [RefundCalls -> [TxIds -> RefundPhase]]
    BY <1>2, AllOffType DEF RefundTypeOK, RefundReceive, RefundAnswer, RefundCrash, RefundPhase
  <2>3. rbus' \subseteq [tx : TxIds, from : RefundCalls \cup {Nobody}]
    BY <1>2 DEF RefundTypeOK, RefundReceive, RefundAnswer, RefundCrash
  <2>. QED  BY <2>1, <2>2, <2>3 DEF RefundTypeOK
<1>3. ASSUME NEW r \in RefundCalls, NEW t \in TxIds, RefundSend(r, t) \/ RefundTimeout(r, t)
      PROVE  RefundTypeOK'
  BY <1>3 DEF RefundTypeOK, RefundSend, RefundTimeout, RefundPhase
<1>4. ASSUME NEW m \in rbus, PluginRefund(m) \/ PluginRefundReject(m) \/ PluginRefundDrop(m)
      PROVE  RefundTypeOK'
  <2>1. rbus' = rbus \ {m} /\ closed' = closed
    BY <1>4 DEF PluginRefund, PluginRefundReject, PluginRefundDrop
  <2>2. m.tx \in TxIds /\ m.from \in RefundCalls \cup {Nobody}
    BY DEF RefundTypeOK
  <2>3. rpc' \in [RefundCalls -> [TxIds -> RefundPhase]]
    BY <1>4, <2>2 DEF RefundTypeOK, PluginRefund, PluginRefundReject, PluginRefundDrop,
                      RefundReply, RefundPhase
  <2>. QED  BY <2>1, <2>3 DEF RefundTypeOK
<1>5. CASE UNCHANGED refundVars
  BY <1>1, <1>5 DEF RefundTypeOK, refundVars
<1>. QED  BY <1>1, <1>2, <1>3, <1>4, <1>5, RefundSplit DEF RefundNext

(* Refund posts, their commands and the answer to PayNow keep their types,  *)
(* also while the order is still being posted.                              *)
THEOREM RefundTypeCorrect == RefundSpec => [](TypeOK /\ RefundTypeOK)
<1>1. TypeOK /\ RefundTypeOK /\ [OrderNext \/ RefundNext]_allVars => TypeOK' /\ RefundTypeOK'
  BY RefundTypeStep
<1>. QED  BY <1>1, RefundTypeInit, PTL DEF RefundSpec

-----------------------------------------------------------------------------
(* A refund moves no line, claim or ledger row, so who owns a line and what *)
(* is delivered is as it was without refunds.                               *)
ReliableClaims == "claim" \notin Faults

RevocableInv == OwnerInv /\ blind = {} /\ RefundTypeOK

LEMMA RevocableStep ==
    ASSUME ReliableClaims, RevocableInv, [OrderNext \/ RefundNext]_allVars
    PROVE  RevocableInv'
<1>1. TypeOK' /\ RefundTypeOK'
  BY RefundTypeStep DEF RevocableInv, OwnerInv, AwaitInv
<1>2. CASE [Next]_vars
  <2>1. blind' = {}
    BY <1>2, ZenonT(30) DEF ReliableClaims, RevocableInv, Next, Receive, Answer, Crash, LineStep,
       GiftUnresolvable, ClaimLine, LedgerQueued, Send, Confirm, FailLine, ReleaseLine,
       PluginStep, PluginGrant, PluginReject, PluginDrop, vars
  <2>. QED  BY <1>1, <1>2, <2>1, OwnerStep DEF RevocableInv
<1>3. CASE UNCHANGED orderVars
  BY <1>1, <1>3 DEF RevocableInv, orderVars, OwnerInv, AwaitInv, IdleIsFresh, CommandsAwaited,
     OneOwnerPerLine, DeliveredKeepsClaim, OwnedNotDelivered, KeyOf
<1>. QED  BY <1>2, <1>3, RefundSplit DEF RevocableInv

(* With claims that do not fail open every delivered line has a claim row,  *)
(* and the refund asks for the transaction id it was sent under: whatever   *)
(* crashes, overlaps and is refunded meanwhile.                             *)
THEOREM Revocable ==
    ASSUME ReliableClaims
    PROVE  RefundSpec => []DeliveredIsRevocable
<1>1. RefundInit => RevocableInv
  BY OwnerInit, RefundTypeInit DEF RefundInit, RevocableInv, Init
<1>2. RevocableInv /\ [OrderNext \/ RefundNext]_allVars => RevocableInv'
  BY RevocableStep
<1>3. RevocableInv => DeliveredIsRevocable
  BY DEF RevocableInv, OwnerInv, DeliveredKeepsClaim, DeliveredIsRevocable, RefundTxIds
<1>. QED  BY <1>1, <1>2, <1>3, PTL DEF RefundSpec

-----------------------------------------------------------------------------
(* With refunds the registry and the goods still agree: what a player has   *)
(* is recorded, and what is recorded (and not refunded) a player has.       *)
KeptIsRecorded ==
    /\ \A k \in goods : registry[TxId(k[1])] = "recorded"
    /\ \A l \in Lines : registry[TxId(l)] = "recorded" => HasGoods(l)

KeptInv == TypeOK /\ RefundTypeOK /\ KeptIsRecorded /\ CreditedAtMostOnce

LEMMA KeptInit == RefundInit => KeptInv
<1>1. \A l \in Lines : TxId(l) \in TxIds
  BY DEF TxIds
<1>. QED
  BY <1>1, RefundTypeInit DEF RefundInit, Init, KeptInv, KeptIsRecorded, CreditedAtMostOnce

LEMMA GrantKeepsKept ==
    ASSUME KeptInv, NEW m \in bus, PluginGrant(m)
    PROVE  KeptIsRecorded' /\ CreditedAtMostOnce'
<1>0. /\ TypeOK /\ m.line \in Lines /\ m.player \in Players
      /\ \A l \in Lines : TxId(l) \in TxIds
  BY DEF KeptInv, TypeOK, Command, TxIds
<1>1. CASE registry[TxId(m.line)] = "none"
  <2>1. /\ registry' = [registry EXCEPT ![TxId(m.line)] = "recorded"]
        /\ goods' = goods \cup {<<m.line, m.player>>}
    BY <1>1 DEF PluginGrant
  <2>2. \A k \in goods : k[1] \in Lines /\ k[1] # m.line
    BY <1>0, <1>1 DEF KeptInv, KeptIsRecorded, TypeOK, Keys
  <2>3. /\ registry'[TxId(m.line)] = "recorded"
        /\ \A l \in Lines \ {m.line} : registry'[TxId(l)] = registry[TxId(l)]
    BY <1>0, <2>1, TxIdInjective DEF TypeOK
  <2>4. CreditedAtMostOnce'
    BY <2>1, <2>2 DEF KeptInv, CreditedAtMostOnce
  <2>5. \A l \in Lines : HasGoods(l) \/ l = m.line => HasGoods(l)'
    BY <1>0, <2>1 DEF HasGoods
  <2>6. KeptIsRecorded'
    BY <2>1, <2>2, <2>3, <2>5 DEF KeptInv, KeptIsRecorded
  <2>. QED  BY <2>4, <2>6
<1>2. CASE registry[TxId(m.line)] # "none"
  BY <1>2 DEF PluginGrant, pluginVars, KeptInv, KeptIsRecorded, CreditedAtMostOnce, HasGoods
<1>. QED  BY <1>1, <1>2

LEMMA RevokeKeepsKept ==
    ASSUME KeptInv, NEW t \in TxIds, Revokes(t)
    PROVE  KeptIsRecorded' /\ CreditedAtMostOnce'
<1>1. TypeOK /\ \A l \in Lines : TxId(l) \in TxIds
  BY DEF KeptInv, TxIds
<1>2. \A k \in goods : k[1] \in Lines
  BY DEF KeptInv, TypeOK, Keys
<1>3. \A k \in goods' : k \in goods /\ TxId(k[1]) # t
  BY DEF Revokes
<1>4. \A l \in Lines : TxId(l) # t => HasGoods(l)' = HasGoods(l)
  BY DEF Revokes, HasGoods
<1>5. \A l \in Lines : registry'[TxId(l)] = IF TxId(l) = t THEN "refunded" ELSE registry[TxId(l)]
  BY <1>1 DEF Revokes, TypeOK
<1>. QED  BY <1>1, <1>2, <1>3, <1>4, <1>5 DEF KeptInv, KeptIsRecorded, CreditedAtMostOnce

LEMMA KeptStep ==
    ASSUME KeptInv, [OrderNext \/ RefundNext]_allVars
    PROVE  KeptInv'
<1>1. TypeOK' /\ RefundTypeOK'
  BY RefundTypeStep DEF KeptInv
<1>2. CASE UNCHANGED pluginVars
  BY <1>1, <1>2 DEF pluginVars, KeptInv, KeptIsRecorded, CreditedAtMostOnce, HasGoods
<1>3. CASE \E t \in TxIds : Revokes(t)
  BY <1>1, <1>3, RevokeKeepsKept DEF KeptInv
<1>4. CASE \E m \in bus : PluginGrant(m)
  BY <1>1, <1>4, GrantKeepsKept DEF KeptInv
<1>5. [Next]_vars => UNCHANGED pluginVars \/ \E m \in bus : PluginGrant(m)
  BY ZenonT(30) DEF Next, Receive, Answer, Crash, LineStep, GiftUnresolvable, ClaimLine, LedgerQueued,
     Send, Confirm, FailLine, ReleaseLine, PluginStep, PluginReject, PluginDrop, vars, pluginVars
<1>. QED  BY <1>2, <1>3, <1>4, <1>5, RefundSplit DEF KeptInv

(* With refunds under way the goods are still those whose ids the registry  *)
(* records, one player's per line.                                          *)
THEOREM KeptInvariant == RefundSpec => []KeptInv
<1>1. KeptInv /\ [OrderNext \/ RefundNext]_allVars => KeptInv'
  BY KeptStep
<1>. QED  BY <1>1, KeptInit, PTL DEF RefundSpec

(* A refund opens no way to a second credit: a refunded transaction id is   *)
(* not credited again, and no line is credited to two players, whatever the *)
(* posts, refunds and faults and however they overlap.                      *)
THEOREM NoDoubleCreditWithRefunds == RefundSpec => []CreditedAtMostOnce
BY KeptInvariant, PTL DEF KeptInv

-----------------------------------------------------------------------------
(* What a refund that waits for the order to rest relies on.  Only known    *)
(* lines are claimed, sent and credited.  A line that is through has its    *)
(* claim on record.  Once PayNow was told that the order is done, each line *)
(* has a claim that nobody is at work on and thus nobody gives back.        *)
SoldLines ==
    /\ \A c \in Calls, l \in Unknown : pc[c][l] = "skipped"
    /\ \A k \in claims : k[1] \in KnownLines
    /\ \A m \in bus : m.line \in KnownLines
    /\ \A k \in goods : k[1] \in KnownLines

ThroughClaimed ==
    \A c \in Calls, l \in KnownLines : pc[c][l] \in Through => KeyOf(c, l) \in claims

Idle(k) == \A c \in Calls : pc[c][k[1]] \in Owning => KeyOf(c, k[1]) # k
Covered(l) == \E k \in claims : k[1] = l /\ Idle(k)
SettledCovered == settled => \A l \in KnownLines : Covered(l)

SoldInv ==
    /\ RevocableInv /\ KeptInv /\ SettledInv
    /\ SoldLines /\ ThroughClaimed /\ SettledCovered

(* What a refund post knows while it works: the order is settled and every  *)
(* line the player still has is among those it asked for; what the game     *)
(* server answered for is not recorded any more.                            *)
RefundAwaited == \A m \in rbus : m.from # Nobody => rpc[m.from][m.tx] = "waiting"
WorkCoversGoods ==
    \A r \in RefundCalls : Working(r) =>
        settled /\ \A k \in goods : rpc[r][TxId(k[1])] # "off"
AnsweredIsGone ==
    \A r \in RefundCalls, t \in TxIds :
        rpc[r][t] \in {"revoked", "already"} => registry[t] # "recorded"
ClosedIsEmpty == closed # "no" => settled /\ goods = {}

RefundInv == SoldInv /\ RefundAwaited /\ WorkCoversGoods /\ AnsweredIsGone /\ ClosedIsEmpty

LEMMA SoldInit == RefundInit => SoldInv
<1> SUFFICES ASSUME RefundInit
             PROVE  SoldInv
  OBVIOUS
<1>1. RevocableInv /\ KeptInv /\ SettledInv
  BY KeptInit, SettledInit, OwnerInit, RefundTypeInit DEF RefundInit, RevocableInv, Init
<1>2. /\ \A l \in Unknown : Fresh[l] = "skipped"
      /\ \A l \in KnownLines : Fresh[l] = "start"
  BY LinesAssumption DEF Fresh, KnownLines
<1>3. SoldLines /\ ThroughClaimed /\ SettledCovered
  BY <1>2 DEF RefundInit, Init, SoldLines, ThroughClaimed, SettledCovered, Through
<1>. QED  BY <1>1, <1>3 DEF SoldInv

LEMMA SoldLinesStep ==
    ASSUME SoldInv, [Next]_vars
    PROVE  SoldLines'
<1>0. /\ TypeOK /\ bus \subseteq Command /\ \A l \in Unknown : l \in Lines /\ Fresh[l] = "skipped"
      /\ SoldLines
  BY LinesAssumption DEF SoldInv, KeptInv, TypeOK, Fresh
<1> USE DEF callVars, pluginVars
<1>1. ASSUME NEW c \in Calls, Receive(c) \/ Answer(c)
      PROVE  SoldLines'
  BY <1>0, <1>1 DEF Receive, Answer, SoldLines, TypeOK
<1>2. ASSUME NEW cmds \in SUBSET bus
      PROVE  \A m \in Abandoned(cmds) : m.line \in KnownLines
  BY <1>0 DEF Abandoned, SoldLines, Command
<1>3. ASSUME NEW c \in Calls, Crash(c)
      PROVE  SoldLines'
  BY <1>0, <1>2, <1>3 DEF Crash, SoldLines, TypeOK
<1>4. ASSUME NEW c \in Calls, NEW l \in Lines, LineStep(c, l)
      PROVE  SoldLines'
  <2>1. pc[c][l] # "skipped" /\ \E phase \in LinePhase : MoveTo(c, l, phase)
    BY <1>4 DEF LineStep, GiftUnresolvable, ClaimLine, LedgerQueued, Send, Confirm, FailLine,
                ReleaseLine, LinePhase, Owning, Finished
  <2>2. l \in KnownLines
    BY <1>0, <2>1 DEF SoldLines, KnownLines
  <2>3. \A d \in Calls, k \in Unknown : pc'[d][k] = "skipped"
    BY <1>0, <2>1, <2>2, MoveOwner DEF SoldLines, KnownLines
  <2>4. goods' = goods /\ claims' \subseteq claims \cup {KeyOf(c, l)}
    BY <1>4 DEF LineStep, GiftUnresolvable, ClaimLine, LedgerQueued, Send, Confirm, FailLine, ReleaseLine
  <2>5. \A m \in bus' : m.line \in KnownLines
    <3>1. CASE bus' = bus
      BY <1>0, <3>1 DEF SoldLines
    <3>2. CASE Send(c, l)
      BY <1>0, <2>2, <3>2 DEF Send, SoldLines
    <3>3. CASE FailLine(c, l)
      BY <1>2, <3>3 DEF FailLine
    <3>. QED
      BY <1>4, <3>1, <3>2, <3>3 DEF LineStep, GiftUnresolvable, ClaimLine, LedgerQueued, Confirm, ReleaseLine
  <2>. QED  BY <1>0, <2>2, <2>3, <2>4, <2>5 DEF SoldLines, KeyOf
<1>5. ASSUME NEW m \in bus, PluginStep(m)
      PROVE  SoldLines'
  <2>1. m.line \in KnownLines /\ m.line \in Lines /\ m.from \in Calls \cup {Nobody}
    BY <1>0 DEF SoldLines, Command
  <2>2. bus' \subseteq bus /\ claims' = claims /\ goods' \subseteq goods \cup {<<m.line, m.player>>}
    BY <1>5 DEF PluginStep, PluginGrant, PluginReject, PluginDrop
  <2>3. \A d \in Calls, k \in Unknown : pc'[d][k] = "skipped"
    <3>1. pc' = pc \/ \E phase : m.from # Nobody /\ MoveTo(m.from, m.line, phase)
      BY <1>5 DEF PluginStep, PluginGrant, PluginReject, PluginDrop, Reply
    <3>. QED  BY <1>0, <2>1, <3>1, MoveOwner DEF SoldLines, KnownLines
  <2>. QED  BY <1>0, <2>1, <2>2, <2>3 DEF SoldLines
<1>6. CASE UNCHANGED vars
  BY <1>0, <1>6 DEF vars, SoldLines
<1>. QED  BY <1>1, <1>3, <1>4, <1>5, <1>6 DEF Next

(* A line stays covered unless its claim is given back or found by a call.  *)
LEMMA CoveredFrame ==
    ASSUME SoldInv, settled' = settled, \A k \in claims \ claims' : ~Idle(k),
           \A c \in Calls, l \in Lines : pc'[c][l] \in Owning =>
               \/ pc[c][l] \in Owning /\ target'[c] = target[c]
               \/ KeyOf(c, l)' \notin claims
    PROVE  SettledCovered'
<1> SUFFICES ASSUME settled, NEW l \in KnownLines
             PROVE  Covered(l)'
  BY DEF SettledCovered
<1>1. PICK k \in claims : k[1] = l /\ Idle(k)
  BY DEF SoldInv, SettledCovered, Covered
<1>2. k \in claims' /\ l \in Lines
  BY <1>1 DEF KnownLines
<1>3. ASSUME NEW c \in Calls, pc'[c][l] \in Owning
      PROVE  KeyOf(c, l)' # k
  BY <1>1, <1>2, <1>3 DEF Idle, KeyOf
<1>. QED  BY <1>1, <1>2, <1>3 DEF Covered, Idle

LEMMA SoldMove ==
    ASSUME SoldInv, NEW c \in Calls, NEW l \in Lines, NEW phase, MoveTo(c, l, phase),
           target' = target, settled' = settled, claims \subseteq claims',
           phase \in Owning => pc[c][l] \in Owning \/ KeyOf(c, l) \notin claims,
           phase \in Through => KeyOf(c, l) \in claims'
    PROVE  ThroughClaimed' /\ SettledCovered'
<1>0. TypeOK /\ \A d \in Calls, k \in Lines : KeyOf(d, k)' = KeyOf(d, k)
  BY DEF SoldInv, KeptInv, KeyOf
<1>1. /\ pc'[c][l] = phase
      /\ \A d \in Calls, k \in Lines : ~(d = c /\ k = l) => pc'[d][k] = pc[d][k]
  BY <1>0, MoveOwner
<1>2. ThroughClaimed'
  BY <1>0, <1>1 DEF SoldInv, ThroughClaimed, KnownLines
<1>3. SettledCovered'
  BY <1>0, <1>1, CoveredFrame
<1>. QED  BY <1>2, <1>3

(* A call that owns a line has its claim on record.                         *)
LEMMA OwnerHasClaim ==
    ASSUME SoldInv, NEW c \in Calls, NEW l \in Lines, pc[c][l] \in Owning
    PROVE  KeyOf(c, l) \in claims
BY DEF SoldInv, RevocableInv, OwnerInv, OneOwnerPerLine

LEMMA SoldStep ==
    ASSUME NoLostRelease, OneCall, ReliableClaims, SoldInv, [Next]_vars
    PROVE  ThroughClaimed' /\ SettledCovered'
<1>0. /\ TypeOK /\ blind = {} /\ live \subseteq Calls /\ bus \subseteq Command
      /\ \A l \in Lines : Fresh[l] \notin Owning
      /\ \A l \in KnownLines : l \in Lines /\ Fresh[l] = "start"
      /\ Owning \cap Through = {}
  BY DEF SoldInv, KeptInv, RevocableInv, TypeOK, Fresh, KnownLines, Owning, Through
<1> USE DEF callVars, pluginVars
<1>1. ASSUME NEW c \in Calls, Receive(c)
      PROVE  ThroughClaimed' /\ SettledCovered'
  <2>1. pc[c] = Fresh /\ pc' = pc /\ claims' = claims
    BY <1>1 DEF Receive, SoldInv, RevocableInv, OwnerInv, AwaitInv, IdleIsFresh
  <2>2. \A d \in Calls : d # c => target'[d] = target[d]
    BY <1>0, <1>1 DEF Receive, TypeOK
  <2>3. ThroughClaimed'
    BY <1>0, <2>1, <2>2 DEF SoldInv, ThroughClaimed, KeyOf, Through
  <2>4. SettledCovered'
    BY <1>0, <1>1, <2>1, <2>2, CoveredFrame DEF Receive
  <2>. QED  BY <2>3, <2>4
<1>2. ASSUME NEW c \in Calls, Answer(c)
      PROVE  ThroughClaimed' /\ SettledCovered'
  <2>1. /\ pc'[c] = Fresh /\ claims' = claims
        /\ \A d \in Calls : d # c => pc'[d] = pc[d] /\ target'[d] = target[d]
    BY <1>0, <1>2 DEF Answer, TypeOK
  <2>2. ThroughClaimed'
    BY <1>0, <2>1 DEF SoldInv, ThroughClaimed, KeyOf, Through
  <2>3. CASE settled' = settled
    BY <1>0, <2>1, <2>2, <2>3, CoveredFrame
  <2>4. CASE \A l \in Lines : pc[c][l] # "failed"
    <3>1. \A l \in KnownLines : KeyOf(c, l) \in claims
      BY <1>0, <1>2, <2>4 DEF Answer, Finished, Through, SoldInv, ThroughClaimed
    <3>2. \A d \in Calls, l \in Lines : pc'[d][l] \notin Owning
      BY <1>0, <2>1 DEF OneCall
    <3>. QED  BY <1>0, <2>1, <2>2, <3>1, <3>2 DEF SettledCovered, Covered, Idle, KeyOf
  <2>. QED  BY <1>2, <2>3, <2>4 DEF Answer
<1>3. ASSUME NEW c \in Calls, NEW l \in Lines, ClaimLine(c, l)
      PROVE  ThroughClaimed' /\ SettledCovered'
  BY <1>0, <1>3, SoldMove DEF ClaimLine, ReliableClaims, Owning, Through
<1>4. ASSUME NEW c \in Calls, NEW l \in Lines, GiftUnresolvable(c, l)
      PROVE  ThroughClaimed' /\ SettledCovered'
  BY <1>0, <1>4, SoldMove DEF GiftUnresolvable, Owning, Through
<1>5. ASSUME NEW c \in Calls, NEW l \in Lines,
             LedgerQueued(c, l) \/ Send(c, l) \/ FailLine(c, l) \/ Confirm(c, l)
      PROVE  ThroughClaimed' /\ SettledCovered'
  <2>1. pc[c][l] \in Owning
    BY <1>5 DEF LedgerQueued, Send, FailLine, Confirm, Owning
  <2>2. KeyOf(c, l) \in claims
    BY <2>1, OwnerHasClaim
  <2>. QED  BY <1>5, <2>1, <2>2, SoldMove DEF LedgerQueued, Send, FailLine, Confirm
<1>6. ASSUME NEW c \in Calls, NEW l \in Lines, ReleaseLine(c, l)
      PROVE  ThroughClaimed' /\ SettledCovered'
  <2>1. /\ claims' = claims \ {KeyOf(c, l)} /\ target' = target /\ settled' = settled
        /\ pc'[c][l] = "failed" /\ pc[c][l] \in Owning
        /\ \A d \in Calls, k \in Lines : ~(d = c /\ k = l) => pc'[d][k] = pc[d][k]
    BY <1>0, <1>6, MoveOwner DEF ReleaseLine, NoLostRelease, Owning
  <2>2. ~Idle(KeyOf(c, l)) /\ KeyOf(c, l)[1] = l
    BY <2>1 DEF Idle, KeyOf
  <2>3. SettledCovered'
    BY <2>1, <2>2, CoveredFrame DEF Owning
  <2>4. ASSUME NEW d \in Calls, NEW k \in KnownLines, pc'[d][k] \in Through
        PROVE  KeyOf(d, k)' \in claims'
    <3>1. k # l /\ pc[d][k] \in Through /\ k \in Lines
      BY <1>0, <2>1, <2>4 DEF OneCall, Through
    <3>2. KeyOf(d, k) \in claims /\ KeyOf(d, k) # KeyOf(c, l)
      BY <3>1 DEF SoldInv, ThroughClaimed, KeyOf
    <3>. QED  BY <2>1, <3>2 DEF KeyOf
  <2>. QED  BY <2>3, <2>4 DEF ThroughClaimed
<1>7. ASSUME NEW m \in bus, PluginStep(m)
      PROVE  ThroughClaimed' /\ SettledCovered'
  <2>1. claims' = claims /\ target' = target /\ settled' = settled
    BY <1>7 DEF PluginStep, PluginGrant, PluginReject, PluginDrop
  <2>2. CASE pc' = pc
    BY <2>1, <2>2, CoveredFrame DEF SoldInv, ThroughClaimed, KeyOf
  <2>3. CASE m.from # Nobody /\ \E phase \in Owning : MoveTo(m.from, m.line, phase)
    <3>1. m.from \in Calls /\ m.line \in Lines /\ pc[m.from][m.line] \in Owning
      BY <1>0, <2>3 DEF Command, SoldInv, RevocableInv, OwnerInv, AwaitInv, CommandsAwaited,
                        Awaited, Owning
    <3>. QED  BY <1>0, <2>1, <2>3, <3>1, SoldMove
  <2>. QED  BY <1>7, <2>2, <2>3 DEF PluginStep, PluginGrant, PluginReject, PluginDrop, Reply, Owning
<1>8. CASE UNCHANGED vars
  BY <1>8, CoveredFrame DEF vars, SoldInv, ThroughClaimed, KeyOf
<1>9. \A c \in Calls : ~Crash(c)
  BY DEF NoLostRelease, Crash
<1>. QED
  BY <1>1, <1>2, <1>3, <1>4, <1>5, <1>6, <1>7, <1>8, <1>9 DEF Next, LineStep

(* A refund leaves all this as it is: it only revokes.                      *)
LEMMA RefundKeepsSold ==
    ASSUME SoldInv, UNCHANGED orderVars, UNCHANGED pluginVars \/ \E t \in TxIds : Revokes(t)
    PROVE  /\ ReasonInv' /\ ThroughRecorded' /\ SettledRecorded'
           /\ SoldLines' /\ ThroughClaimed' /\ SettledCovered'
<1>1. /\ goods' \subseteq goods
      /\ \A l \in Lines : Recorded(l)' = Recorded(l)
  BY DEF pluginVars, Revokes, Recorded, SoldInv, KeptInv, TypeOK, TxIds
<1>2. SoldLines' /\ ThroughClaimed' /\ SettledCovered'
  BY <1>1 DEF orderVars, SoldInv, SoldLines, ThroughClaimed, SettledCovered, Covered, Idle, KeyOf
<1>3. ThroughRecorded' /\ SettledRecorded'
  BY <1>1 DEF orderVars, SoldInv, SettledInv, ThroughRecorded, SettledRecorded, KnownLines
<1>4. AwaitInv'
  <2>1. TypeOK'
    BY DEF SoldInv, KeptInv, TypeOK, orderVars, pluginVars, Revokes
  <2>. QED
    BY <2>1 DEF orderVars, SoldInv, RevocableInv, OwnerInv, AwaitInv, IdleIsFresh, CommandsAwaited
<1>5. GrantedRecorded' /\ ClaimHasReason'
  <2>1. \A k \in claims : k[1] \in Lines
    BY DEF SoldInv, KeptInv, TypeOK, Keys
  <2>. QED
    BY <1>1, <2>1 DEF orderVars, SoldInv, SettledInv, ReasonInv, GrantedRecorded, ClaimHasReason,
                      Reason, KeyOf
<1>. QED  BY <1>2, <1>3, <1>4, <1>5 DEF ReasonInv

LEMMA SoldInvStep ==
    ASSUME NoLostRelease, OneCall, ReliableClaims, SoldInv, [OrderNext \/ RefundNext]_allVars
    PROVE  SoldInv'
<1>1. RevocableInv' /\ KeptInv'
  BY RevocableStep, KeptStep DEF SoldInv
<1>2. CASE [Next]_vars
  BY <1>1, <1>2, SettledStep, SoldLinesStep, SoldStep DEF SoldInv
<1>3. CASE UNCHANGED orderVars /\ (UNCHANGED pluginVars \/ \E t \in TxIds : Revokes(t))
  BY <1>1, <1>3, RefundKeepsSold DEF SoldInv, SettledInv
<1>. QED  BY <1>2, <1>3, RefundSplit DEF SoldInv, KeptInv

-----------------------------------------------------------------------------
LEMMA RefundInvInit == RefundInit => RefundInv
<1> SUFFICES ASSUME RefundInit
             PROVE  RefundInv
  OBVIOUS
<1>1. \A r \in RefundCalls : rpc[r] = AllOff /\ \A t \in TxIds : rpc[r][t] = "off"
  BY DEF RefundInit, AllOff
<1>. QED
  BY <1>1, SoldInit
     DEF RefundInit, RefundInv, RefundAwaited, WorkCoversGoods, AnsweredIsGone, ClosedIsEmpty, Working

(* A refund post that has got as far as asking for an id is at work.        *)
LEMMA WorkingIff ==
    ASSUME RefundTypeOK, NEW r \in RefundCalls
    PROVE  Working(r) <=> \E t \in TxIds : rpc[r][t] # "off"
BY DEF Working, AllOff, RefundTypeOK

(* In a settled order no command credits anything any more.                 *)
LEMMA SettledQuiet ==
    ASSUME SoldInv, settled, [Next]_vars
    PROVE  UNCHANGED pluginVars /\ settled'
<1>1. ASSUME NEW m \in bus, PluginGrant(m)
      PROVE  UNCHANGED pluginVars
  BY <1>1 DEF PluginGrant, SoldInv, SoldLines, SettledInv, SettledRecorded, Recorded
<1>. QED
  BY <1>1, ZenonT(30) DEF Next, Receive, Answer, Crash, LineStep, GiftUnresolvable, ClaimLine, LedgerQueued,
     Send, Confirm, FailLine, ReleaseLine, PluginStep, PluginGrant, PluginReject, PluginDrop,
     vars, pluginVars

LEMMA OrderKeepsRefund ==
    ASSUME RefundInv, [Next]_vars, UNCHANGED refundVars
    PROVE  RefundAwaited' /\ WorkCoversGoods' /\ AnsweredIsGone' /\ ClosedIsEmpty'
<1>0. RefundTypeOK
  BY DEF RefundInv, SoldInv, KeptInv
<1>1. CASE settled
  <2>1. UNCHANGED pluginVars /\ settled'
    BY <1>1, SettledQuiet DEF RefundInv
  <2>. QED
    BY <2>1 DEF refundVars, pluginVars, RefundInv, RefundAwaited, WorkCoversGoods,
                AnsweredIsGone, ClosedIsEmpty, Working
<1>2. CASE ~settled
  <2>1. closed = "no" /\ \A r \in RefundCalls : ~Working(r)
    BY <1>2 DEF RefundInv, ClosedIsEmpty, WorkCoversGoods
  <2>2. \A r \in RefundCalls, t \in TxIds : rpc[r][t] = "off"
    BY <1>0, <2>1, WorkingIff
  <2>. QED
    BY <2>1, <2>2 DEF refundVars, RefundInv, RefundAwaited, WorkCoversGoods, AnsweredIsGone,
                      ClosedIsEmpty, Working
<1>. QED  BY <1>1, <1>2

LEMMA ReceiveKeepsRefund ==
    ASSUME RefundsWaitForRest, RefundInv, NEW r \in RefundCalls, RefundReceive(r)
    PROVE  RefundAwaited' /\ WorkCoversGoods' /\ AnsweredIsGone' /\ ClosedIsEmpty'
<1>0. /\ RefundTypeOK /\ settled /\ rbus' = rbus /\ UNCHANGED <<registry, goods, settled>>
      /\ \A t \in TxIds : rpc[r][t] = "off"
      /\ \A k \in goods : k[1] \in Lines
  BY WorkingIff DEF RefundInv, SoldInv, KeptInv, TypeOK, Keys, RefundReceive, vars
<1>1. \A k \in goods : TxId(k[1]) \in RefundTxIds
  BY <1>0 DEF RefundInv, SoldInv, SoldLines, SettledCovered, Covered, RefundTxIds
<1>2. CASE claims = {}
  <2>1. goods = {} /\ rpc' = rpc
    BY <1>1, <1>2 DEF RefundTxIds, RefundReceive
  <2>. QED
    BY <1>0, <2>1 DEF RefundInv, RefundAwaited, WorkCoversGoods, AnsweredIsGone, ClosedIsEmpty, Working
<1>3. CASE claims # {}
  <2>1. /\ rpc' = [rpc EXCEPT ![r] = [t \in TxIds |-> IF t \in RefundTxIds THEN "send" ELSE "off"]]
        /\ closed' = closed
    BY <1>3 DEF RefundReceive
  <2>2. /\ \A t \in TxIds : rpc'[r][t] = IF t \in RefundTxIds THEN "send" ELSE "off"
        /\ \A q \in RefundCalls \ {r} : rpc'[q] = rpc[q]
    BY <1>0, <2>1 DEF RefundTypeOK
  <2>3. \A m \in rbus : m.tx \in TxIds /\ m.from \in RefundCalls \cup {Nobody} /\ m.from # r
    BY <1>0, RefundAssumption DEF RefundTypeOK, RefundInv, RefundAwaited
  <2>4. RefundAwaited'
    BY <1>0, <2>2, <2>3 DEF RefundInv, RefundAwaited
  <2>5. WorkCoversGoods'
    BY <1>0, <1>1, <2>2 DEF RefundInv, WorkCoversGoods, Working, TxIds
  <2>6. AnsweredIsGone'
    BY <1>0, <2>2 DEF RefundInv, AnsweredIsGone
  <2>7. ClosedIsEmpty'
    BY <1>0, <2>1 DEF RefundInv, ClosedIsEmpty
  <2>. QED  BY <2>4, <2>5, <2>6, <2>7
<1>. QED  BY <1>2, <1>3

(* A post that is answered without a failed revocation has all it asked for *)
(* revoked, so nothing is left.                                             *)
LEMMA AnsweredIsEmpty ==
    ASSUME RefundInv, NEW r \in RefundCalls, Working(r),
           \A t \in TxIds : rpc[r][t] \in {"off", "revoked", "already"}
    PROVE  goods = {}
<1> SUFFICES ASSUME NEW k \in goods
             PROVE  FALSE
  OBVIOUS
<1>1. k[1] \in Lines /\ TxId(k[1]) \in TxIds
  BY DEF RefundInv, SoldInv, KeptInv, TypeOK, Keys, TxIds
<1>2. rpc[r][TxId(k[1])] # "off"
  BY DEF RefundInv, WorkCoversGoods
<1>3. registry[TxId(k[1])] # "recorded"
  BY <1>1, <1>2 DEF RefundInv, AnsweredIsGone
<1>. QED  BY <1>3 DEF RefundInv, SoldInv, KeptInv, KeptIsRecorded

LEMMA EndKeepsRefund ==
    ASSUME RefundInv, NEW r \in RefundCalls, RefundAnswer(r) \/ RefundCrash(r)
    PROVE  RefundAwaited' /\ WorkCoversGoods' /\ AnsweredIsGone' /\ ClosedIsEmpty'
<1>0. /\ RefundTypeOK /\ Working(r) /\ UNCHANGED <<registry, goods, settled>>
      /\ rpc' = [rpc EXCEPT ![r] = AllOff] /\ \A t \in TxIds : AllOff[t] = "off"
      /\ \A m \in rbus : m.tx \in TxIds /\ m.from \in RefundCalls \cup {Nobody}
  BY DEF RefundInv, SoldInv, KeptInv, RefundTypeOK, RefundAnswer, RefundCrash, AllOff, vars
<1>1. rpc'[r] = AllOff /\ \A q \in RefundCalls \ {r} : rpc'[q] = rpc[q]
  BY <1>0 DEF RefundTypeOK
<1>2. \A m \in rbus' : m.from # Nobody => m \in rbus /\ m.from # r
  BY <1>0 DEF RefundAnswer, RefundCrash, RefundInv, RefundAwaited, RefundTypeOK
<1>3. RefundAwaited'
  BY <1>0, <1>1, <1>2 DEF RefundInv, RefundAwaited
<1>4. WorkCoversGoods' /\ AnsweredIsGone'
  BY <1>0, <1>1 DEF RefundInv, WorkCoversGoods, AnsweredIsGone, Working
<1>5. ClosedIsEmpty'
  <2>1. CASE closed' = closed
    BY <1>0, <2>1 DEF RefundInv, ClosedIsEmpty
  <2>2. CASE RefundAnswer(r) /\ \A t \in TxIds : rpc[r][t] # "failed"
    <3>1. \A t \in TxIds : rpc[r][t] \in {"off", "revoked", "already"}
      BY <1>0, <2>2 DEF RefundAnswer, RefundTypeOK, RefundPhase
    <3>2. goods = {} /\ settled
      BY <1>0, <3>1, AnsweredIsEmpty DEF RefundInv, WorkCoversGoods
    <3>. QED  BY <1>0, <3>2 DEF ClosedIsEmpty
  <2>. QED  BY <2>1, <2>2 DEF RefundAnswer, RefundCrash
<1>. QED  BY <1>3, <1>4, <1>5

LEMMA PostKeepsRefund ==
    ASSUME RefundInv, NEW r \in RefundCalls, NEW t \in TxIds, RefundSend(r, t) \/ RefundTimeout(r, t)
    PROVE  RefundAwaited' /\ WorkCoversGoods' /\ AnsweredIsGone' /\ ClosedIsEmpty'
<1>0. /\ RefundTypeOK /\ rpc[r][t] # "off" /\ UNCHANGED <<registry, goods, settled, closed>>
      /\ \E phase \in {"waiting", "failed"} : rpc' = [rpc EXCEPT ![r][t] = phase]
      /\ \A m \in rbus : m.tx \in TxIds /\ m.from \in RefundCalls \cup {Nobody}
  BY DEF RefundInv, SoldInv, KeptInv, RefundTypeOK, RefundSend, RefundTimeout, vars
<1>1. /\ rpc'[r][t] \in {"waiting", "failed"}
      /\ \A q \in RefundCalls, u \in TxIds : ~(q = r /\ u = t) => rpc'[q][u] = rpc[q][u]
  BY <1>0 DEF RefundTypeOK
<1>2. \A q \in RefundCalls : Working(q)' => Working(q)
  <2>1. rpc' \in [RefundCalls -> [TxIds -> RefundPhase]]
    BY <1>0 DEF RefundTypeOK, RefundPhase
  <2>. QED  BY <1>0, <1>1, <2>1 DEF Working, AllOff, RefundTypeOK
<1>3. WorkCoversGoods' /\ AnsweredIsGone' /\ ClosedIsEmpty'
  <2>1. \A k \in goods : TxId(k[1]) \in TxIds
    BY DEF RefundInv, SoldInv, KeptInv, TypeOK, Keys, TxIds
  <2>. QED
    BY <1>0, <1>1, <1>2, <2>1 DEF RefundInv, WorkCoversGoods, AnsweredIsGone, ClosedIsEmpty
<1>4. RefundAwaited'
  <2>1. CASE RefundSend(r, t)
    BY <1>0, <1>1, <2>1 DEF RefundSend, RefundTypeOK, RefundInv, RefundAwaited
  <2>2. CASE RefundTimeout(r, t)
    <3>1. \A m \in rbus' : m.from # Nobody => m \in rbus /\ ~(m.from = r /\ m.tx = t)
      BY <1>0, <2>2 DEF RefundTimeout, RefundTypeOK
    <3>. QED  BY <1>0, <1>1, <3>1 DEF RefundInv, RefundAwaited
  <2>. QED  BY <2>1, <2>2
<1>. QED  BY <1>3, <1>4

(* An answer of the game server reaches the post that waits for it.         *)
LEMMA ReplyKeepsRefund ==
    ASSUME RefundInv, NEW m \in rbus, NEW phase \in RefundPhase \ {"off"},
           RefundReply(m, phase) \/ UNCHANGED rpc, rbus' = rbus \ {m}
    PROVE  /\ RefundAwaited'
           /\ \A r \in RefundCalls, t \in TxIds :
                 \/ rpc'[r][t] = rpc[r][t]
                 \/ t = m.tx /\ rpc[r][t] = "waiting" /\ rpc'[r][t] = phase
           /\ \A r \in RefundCalls : Working(r)' => Working(r)
<1>0. /\ RefundTypeOK /\ m.tx \in TxIds /\ m.from \in RefundCalls \cup {Nobody}
      /\ rbus \subseteq [tx : TxIds, from : RefundCalls \cup {Nobody}]
      /\ m.from # Nobody => rpc[m.from][m.tx] = "waiting"
  BY DEF RefundInv, SoldInv, KeptInv, RefundTypeOK, RefundAwaited
<1>1. CASE rpc' = rpc
  BY <1>1 DEF RefundInv, RefundAwaited, Working
<1>2. CASE m.from # Nobody /\ rpc' = [rpc EXCEPT ![m.from][m.tx] = phase]
  <2>1. /\ rpc'[m.from][m.tx] = phase
        /\ \A r \in RefundCalls, t \in TxIds :
              ~(r = m.from /\ t = m.tx) => rpc'[r][t] = rpc[r][t]
    BY <1>0, <1>2 DEF RefundTypeOK
  <2>2. \A n \in rbus \ {m} : ~(n.from = m.from /\ n.tx = m.tx)
    BY <1>0
  <2>3. RefundAwaited'
    BY <1>0, <2>1, <2>2 DEF RefundInv, RefundAwaited
  <2>4. \A r \in RefundCalls : Working(r)' => Working(r)
    <3>1. rpc' \in [RefundCalls -> [TxIds -> RefundPhase]]
      BY <1>0, <1>2 DEF RefundTypeOK
    <3>. QED  BY <1>0, <1>2, <2>1, <3>1 DEF Working, AllOff, RefundTypeOK
  <2>. QED  BY <1>0, <1>2, <2>1, <2>3, <2>4
<1>. QED  BY <1>1, <1>2 DEF RefundReply

LEMMA PluginKeepsRefund ==
    ASSUME RefundInv, NEW m \in rbus, PluginRefund(m) \/ PluginRefundReject(m) \/ PluginRefundDrop(m)
    PROVE  RefundAwaited' /\ WorkCoversGoods' /\ AnsweredIsGone' /\ ClosedIsEmpty'
<1>0. /\ RefundTypeOK /\ m.tx \in TxIds /\ rbus' = rbus \ {m} /\ UNCHANGED <<settled, closed>>
      /\ \A k \in goods : TxId(k[1]) \in TxIds
  BY DEF RefundInv, SoldInv, KeptInv, RefundTypeOK, TypeOK, Keys, TxIds, PluginRefund,
         PluginRefundReject, PluginRefundDrop, vars
<1>1. PICK phase \in RefundPhase \ {"off"} :
        /\ RefundReply(m, phase) \/ UNCHANGED rpc
        /\ phase \in {"revoked", "already"} => PluginRefund(m)
  BY DEF PluginRefund, PluginRefundReject, PluginRefundDrop, RefundPhase
<1>2. /\ RefundAwaited'
      /\ \A r \in RefundCalls, t \in TxIds :
            \/ rpc'[r][t] = rpc[r][t]
            \/ t = m.tx /\ rpc[r][t] = "waiting" /\ rpc'[r][t] = phase
      /\ \A r \in RefundCalls : Working(r)' => Working(r)
  BY <1>0, <1>1, ReplyKeepsRefund
<1>3. /\ goods' \subseteq goods
      /\ \A t \in TxIds : registry'[t] = "recorded" => registry[t] = "recorded"
      /\ PluginRefund(m) => registry'[m.tx] # "recorded"
  BY <1>0 DEF PluginRefund, PluginRefundReject, PluginRefundDrop, vars, pluginVars,
              RefundInv, SoldInv, KeptInv, TypeOK
<1>4. WorkCoversGoods'
  BY <1>0, <1>2, <1>3 DEF RefundInv, WorkCoversGoods
<1>5. AnsweredIsGone'
  BY <1>0, <1>1, <1>2, <1>3 DEF RefundInv, AnsweredIsGone
<1>6. ClosedIsEmpty'
  BY <1>0, <1>3 DEF RefundInv, ClosedIsEmpty
<1>. QED  BY <1>2, <1>4, <1>5, <1>6

LEMMA RefundInvStep ==
    ASSUME NoLostRelease, OneCall, ReliableClaims, RefundsWaitForRest, RefundInv,
           [OrderNext \/ RefundNext]_allVars
    PROVE  RefundInv'
<1>1. SoldInv'
  BY SoldInvStep DEF RefundInv
<1>2. CASE [Next]_vars /\ UNCHANGED refundVars
  BY <1>1, <1>2, OrderKeepsRefund DEF RefundInv
<1>3. CASE RefundNext
  BY <1>1, <1>3, ReceiveKeepsRefund, EndKeepsRefund, PostKeepsRefund, PluginKeepsRefund
     DEF RefundNext, RefundInv
<1>. QED  BY <1>2, <1>3, RefundSplit DEF RefundInv, SoldInv, KeptInv

(* The circumstances in which a refund is safe: refunds come when the order *)
(* has come to rest, its posts do not overlap, no claim fails open, and     *)
(* nothing keeps a failed line's claim from being given back.               *)
Rested == NoLostRelease /\ OneCall /\ ReliableClaims /\ RefundsWaitForRest

(* A refund's work covers the goods of the order, what it was answered is   *)
(* gone from the registry, and a closed refund leaves nothing.              *)
THEOREM RefundInvariant ==
    ASSUME Rested
    PROVE  RefundSpec => []RefundInv
<1>1. RefundInv /\ [OrderNext \/ RefundNext]_allVars => RefundInv'
  BY RefundInvStep DEF Rested
<1>. QED  BY <1>1, RefundInvInit, PTL DEF RefundSpec

(* A refund PayNow was told is done leaves the player nothing of the order, *)
(* over any number of overlapping refund posts, crashes of theirs, lost     *)
(* answers and order posts repeated later, to whatever player.              *)
THEOREM NothingKept ==
    ASSUME Rested
    PROVE  RefundSpec => []NothingKeptAfterRefund
<1>1. RefundInv => NothingKeptAfterRefund
  BY DEF RefundInv, ClosedIsEmpty, NothingKeptAfterRefund
<1>. QED  BY <1>1, RefundInvariant, PTL

(* "not_delivered: nothing of ours to revoke" is true of a refund that      *)
(* waits until the order rests; store_refund_race shows one that does not.  *)
THEOREM NotDeliveredIsHonest ==
    ASSUME Rested
    PROVE  RefundSpec => NotDeliveredIsTrue
<1>1. ASSUME RefundInv, RefundInv', [OrderNext \/ RefundNext]_allVars
      PROVE  [(closed' = "not_delivered" /\ closed # closed') => goods = {}]_allVars
  <2> SUFFICES ASSUME closed' = "not_delivered", closed # closed'
               PROVE  goods = {}
    OBVIOUS
  <2>1. goods' = {}
    BY <1>1 DEF RefundInv, ClosedIsEmpty
  <2>2. RefundNext
    BY <1>1 DEF OrderNext, refundVars, allVars
  <2>3. goods' = goods
    BY <2>2 DEF RefundNext, RefundReceive, RefundAnswer, RefundCrash, RefundSend, RefundTimeout,
       PluginRefund, PluginRefundReject, PluginRefundDrop, Tell, vars, pluginVars
  <2>. QED  BY <2>1, <2>3
<1>. QED  BY <1>1, RefundInvariant, PTL DEF RefundSpec, NotDeliveredIsTrue

(* Of an order with one buyer and no second resolution nothing is sent once *)
(* its refund is closed: the claims that outlive the refund pass every line *)
(* over.                                                                    *)
OnePlayer == \A p, q \in Players : p = q

LEMMA SettledOwnsNothing ==
    ASSUME OnePlayer, SoldInv, settled, NEW c \in Calls, NEW l \in Lines
    PROVE  pc[c][l] \notin Owning
<1>1. CASE l \in KnownLines
  <2>1. PICK k \in claims : k[1] = l /\ Idle(k)
    BY <1>1 DEF SoldInv, SettledCovered, Covered
  <2>2. k = KeyOf(c, l)
    BY <2>1 DEF SoldInv, KeptInv, TypeOK, Keys, KeyOf, OnePlayer
  <2>. QED  BY <2>1, <2>2 DEF Idle
<1>2. CASE l \in Unknown
  BY <1>2 DEF SoldInv, SoldLines, Owning
<1>. QED  BY <1>1, <1>2 DEF KnownLines

(* Once a refund was answered "ok", no new command of the order is sent.    *)
THEOREM Quiet ==
    ASSUME Rested, OnePlayer
    PROVE  RefundSpec => RefundedStaysQuiet
<1>1. ASSUME RefundInv, [OrderNext \/ RefundNext]_allVars
      PROVE  [closed = "ok" => bus' \subseteq bus]_allVars
  <2> SUFFICES ASSUME closed = "ok"
               PROVE  bus' \subseteq bus
    OBVIOUS
  <2>1. \A c \in Calls, l \in Lines : pc[c][l] \notin Owning
    BY <1>1, SettledOwnsNothing DEF RefundInv, ClosedIsEmpty
  <2>2. CASE [Next]_vars
    <3>1. \A c \in Calls : ~Crash(c)
      BY DEF Rested, NoLostRelease, Crash
    <3>. QED
      BY <2>1, <2>2, <3>1, ZenonT(30) DEF Next, Receive, Answer, LineStep, GiftUnresolvable, ClaimLine,
         LedgerQueued, Send, Confirm, FailLine, ReleaseLine, PluginStep, PluginGrant,
         PluginReject, PluginDrop, vars, Owning
  <2>3. CASE UNCHANGED orderVars
    BY <2>3 DEF orderVars
  <2>. QED  BY <1>1, <2>2, <2>3, RefundSplit DEF RefundInv, SoldInv, KeptInv
<1>. QED  BY <1>1, RefundInvariant, PTL DEF RefundSpec, RefundedStaysQuiet

-----------------------------------------------------------------------------
(* Order and refund together implement the promise.                         *)
LEMMA RefundPromiseInit == RefundInit => RefundPromise!Init
<1> SUFFICES ASSUME RefundInit
             PROVE  RefundPromise!Init
  OBVIOUS
<1>1. \A l \in KnownLines : ItemOf(l) = "owed"
  BY DEF RefundInit, Init, ItemOf, HasGoods, KnownLines, TxIds
<1>. QED  BY <1>1 DEF RefundInit, Init, RefundPromise!Init

LEMMA OrderKeepsPromise ==
    ASSUME RefundInv, [Next]_vars, UNCHANGED refundVars
    PROVE  [RefundPromise!Next]_(RefundPromise!promise)
<1>0. /\ TypeOK /\ \A l \in KnownLines : l \in Lines
      /\ \A k \in goods : registry[TxId(k[1])] # "none"
      /\ SoldInv /\ SettledInv /\ closed' = closed
  BY DEF RefundInv, SoldInv, KeptInv, KeptIsRecorded, KnownLines, refundVars
<1> USE DEF callVars, pluginVars
<1>1. CASE UNCHANGED <<registry, goods, settled>>
  BY <1>0, <1>1 DEF RefundPromise!promise, ItemOf, HasGoods
<1>2. ASSUME NEW c \in Calls, Answer(c)
      PROVE  [RefundPromise!Next]_(RefundPromise!promise)
  <2>1. CASE UNCHANGED settled
    BY <1>1, <1>2, <2>1 DEF Answer
  <2>2. CASE settled' = TRUE /\ \A l \in Lines : pc[c][l] # "failed"
    <3>1. \A l \in KnownLines : ItemOf(l) # "owed"
      <4>1. \A l \in KnownLines : registry[TxId(l)] \in {"recorded", "refunded"}
        BY <1>0, <1>2, <2>2, AllThrough DEF Answer, Recorded, TypeOK, TxIds
      <4>. QED  BY <1>0, <4>1 DEF ItemOf, SoldInv, KeptInv, KeptIsRecorded
    <3>2. UNCHANGED [l \in KnownLines |-> ItemOf(l)]
      BY <1>2 DEF Answer, ItemOf, HasGoods
    <3>. QED  BY <1>0, <2>2, <3>1, <3>2 DEF RefundPromise!Next, RefundPromise!Settle
  <2>. QED  BY <1>2, <2>1, <2>2 DEF Answer
<1>3. ASSUME NEW m \in bus, PluginGrant(m), registry[TxId(m.line)] = "none"
      PROVE  [RefundPromise!Next]_(RefundPromise!promise)
  <2>1. /\ m.line \in Lines /\ ItemOf(m.line) = "owed" /\ ItemOf(m.line)' = "delivered"
        /\ \A l \in Lines \ {m.line} : ItemOf(l)' = ItemOf(l)
        /\ settled' = settled
    BY <1>0, <1>3, GrantDelivers DEF PluginGrant
  <2>2. m.line \in KnownLines
    BY <1>0 DEF SoldInv, SoldLines
  <2>3. closed = "no"
    BY <1>0, <1>3, <2>2 DEF RefundInv, ClosedIsEmpty, SettledInv, SettledRecorded, Recorded
  <2>. QED  BY <1>0, <2>1, <2>2, <2>3 DEF RefundPromise!Next, RefundPromise!Deliver
<1>. QED
  BY <1>1, <1>2, <1>3, ZenonT(30) DEF Next, Receive, Crash, LineStep, GiftUnresolvable, ClaimLine,
     LedgerQueued, Send, Confirm, FailLine, ReleaseLine, PluginStep, PluginGrant, PluginReject,
     PluginDrop, vars

(* Marking a transaction refunded revokes the one line it belongs to.       *)
LEMMA RevokeKeepsPromise ==
    ASSUME RefundInv, NEW t \in TxIds, Revokes(t), UNCHANGED <<settled, closed>>
    PROVE  [RefundPromise!Next]_(RefundPromise!promise)
<1>1. PICK l \in Lines : t = TxId(l)
  BY DEF TxIds
<1>2. /\ TypeOK /\ HasGoods(l) /\ l \in KnownLines
      /\ \A k \in KnownLines : k \in Lines /\ TxId(k) \in TxIds
  BY <1>1 DEF RefundInv, SoldInv, KeptInv, KeptIsRecorded, SoldLines, Revokes, HasGoods,
              KnownLines, TxIds
<1>3. ItemOf(l) = "delivered" /\ ItemOf(l)' = "revoked"
  BY <1>1, <1>2 DEF ItemOf, Revokes, TypeOK
<1>4. ASSUME NEW k \in KnownLines, k # l
      PROVE  ItemOf(k)' = ItemOf(k)
  <2>1. TxId(k) # t
    BY <1>1, <1>2, <1>4, TxIdInjective
  <2>2. registry'[TxId(k)] = registry[TxId(k)]
    BY <1>2, <2>1 DEF Revokes, TypeOK
  <2>3. HasGoods(k)' <=> HasGoods(k)
    BY <2>1 DEF Revokes, HasGoods
  <2>. QED  BY <2>2, <2>3 DEF ItemOf
<1>. QED  BY <1>2, <1>3, <1>4 DEF RefundPromise!Next, RefundPromise!Revoke

LEMMA RefundKeepsPromise ==
    ASSUME RefundInv, RefundInv', RefundNext, UNCHANGED orderVars,
           UNCHANGED pluginVars \/ \E t \in TxIds : Revokes(t)
    PROVE  [RefundPromise!Next]_(RefundPromise!promise)
<1>1. settled' = settled
  BY DEF orderVars
<1>2. CASE UNCHANGED pluginVars /\ closed' = closed
  BY <1>1, <1>2 DEF RefundPromise!promise, ItemOf, HasGoods, pluginVars
<1>3. CASE UNCHANGED pluginVars /\ closed' # closed
  <2>1. closed' # "no" /\ goods = {}
    BY <1>3 DEF RefundInv, ClosedIsEmpty, RefundNext, RefundReceive, RefundAnswer, RefundCrash,
       RefundSend, RefundTimeout, PluginRefund, PluginRefundReject, PluginRefundDrop, Tell, pluginVars
  <2>2. \A l \in KnownLines : ItemOf(l) # "delivered" /\ ItemOf(l)' = ItemOf(l)
    BY <1>3, <2>1 DEF ItemOf, HasGoods, pluginVars
  <2>. QED  BY <1>1, <2>1, <2>2 DEF RefundPromise!Next, RefundPromise!CloseRefund
<1>4. ASSUME NEW t \in TxIds, Revokes(t)
      PROVE  [RefundPromise!Next]_(RefundPromise!promise)
  <2>1. registry' # registry
    BY <1>4 DEF Revokes, RefundInv, SoldInv, KeptInv, TypeOK
  <2>2. closed' = closed
    BY <2>1 DEF RefundNext, RefundReceive, RefundAnswer, RefundCrash, RefundSend, RefundTimeout,
       PluginRefund, PluginRefundReject, PluginRefundDrop, vars
  <2>. QED  BY <1>1, <1>4, <2>2, RevokeKeepsPromise
<1>. QED  BY <1>2, <1>3, <1>4

(* Every line delivered once, "done" said after the last, each refund taken *)
(* to the end before PayNow is told, and nothing delivered after it.        *)
THEOREM RefundKeepsThePromise ==
    ASSUME Rested
    PROVE  RefundSpec => RefundImplementsPromise
<1>1. RefundInv /\ RefundInv' /\ [OrderNext \/ RefundNext]_allVars
        => [RefundPromise!Next]_(RefundPromise!promise)
  BY RefundSplit, OrderKeepsPromise, RefundKeepsPromise DEF RefundInv, SoldInv, KeptInv
<1>. QED
  BY <1>1, RefundPromiseInit, RefundInvariant, PTL
     DEF RefundSpec, RefundImplementsPromise, RefundPromise!Spec

-----------------------------------------------------------------------------
(* What the promise is worth, of whatever keeps it: PayNow hears "done"     *)
(* when no line is owed any more, and hears that a refund is closed when no *)
(* line stays delivered.                                                    *)
PromiseKept ==
    /\ settled => \A l \in KnownLines : ItemOf(l) # "owed"
    /\ closed # "no" => \A l \in KnownLines : ItemOf(l) # "delivered"

LEMMA PromiseGoesOn ==
    ASSUME PromiseKept, [RefundPromise!Next]_(RefundPromise!promise)
    PROVE  PromiseKept'
<1> DEFINE item == [l \in KnownLines |-> ItemOf(l)]
<1>1. ASSUME \A l \in KnownLines : item'[l] = item[l] PROVE \A l \in KnownLines : ItemOf(l)' = ItemOf(l)
  BY <1>1
<1>2. ASSUME item' = item PROVE \A l \in KnownLines : ItemOf(l)' = ItemOf(l)
  BY <1>1, <1>2
<1>3. CASE UNCHANGED RefundPromise!promise
  <2>1. item' = item /\ settled' = settled /\ (closed' # "no" <=> closed # "no")
    BY <1>3 DEF RefundPromise!promise
  <2>. QED  BY <1>2, <2>1 DEF PromiseKept
<1>4. CASE RefundPromise!Settle
  <2>1. /\ item' = item /\ (closed' # "no" <=> closed # "no")
        /\ \A l \in KnownLines : item[l] # "owed"
    BY <1>4 DEF RefundPromise!Settle
  <2>. QED  BY <1>2, <2>1 DEF PromiseKept
<1>5. CASE RefundPromise!CloseRefund
  <2>1. item' = item /\ settled' = settled /\ \A l \in KnownLines : item[l] # "delivered"
    BY <1>5 DEF RefundPromise!CloseRefund
  <2>. QED  BY <1>2, <2>1 DEF PromiseKept
<1>6. ASSUME NEW i \in KnownLines, RefundPromise!Deliver(i) PROVE PromiseKept'
  <2>1. /\ item' = [item EXCEPT ![i] = "delivered"] /\ settled' = settled
        /\ ~(closed # "no") /\ ~(closed' # "no")
    BY <1>6 DEF RefundPromise!Deliver
  <2>2. ItemOf(i)' = "delivered" /\ \A l \in KnownLines \ {i} : ItemOf(l)' = ItemOf(l)
    BY <2>1
  <2>. QED  BY <2>1, <2>2 DEF PromiseKept
<1>7. ASSUME NEW i \in KnownLines, RefundPromise!Revoke(i) PROVE PromiseKept'
  <2>1. /\ item' = [item EXCEPT ![i] = "revoked"] /\ settled' = settled
        /\ closed' # "no" <=> closed # "no"
    BY <1>7 DEF RefundPromise!Revoke
  <2>2. ItemOf(i)' = "revoked" /\ \A l \in KnownLines \ {i} : ItemOf(l)' = ItemOf(l)
    BY <2>1
  <2>. QED  BY <2>1, <2>2 DEF PromiseKept
<1>. QED  BY <1>3, <1>4, <1>5, <1>6, <1>7 DEF RefundPromise!Next

(* Every behaviour that refines the abstract order and refund keeps both,   *)
(* from the first state on: the refinements above say no less than this.    *)
THEOREM PromiseMeans == RefundImplementsPromise => []PromiseKept
<1>1. RefundPromise!Init => PromiseKept
  <2> SUFFICES ASSUME RefundPromise!Init PROVE PromiseKept
    OBVIOUS
  <2>1. settled = FALSE /\ ~(closed # "no")
    BY DEF RefundPromise!Init
  <2>. QED  BY <2>1 DEF PromiseKept
<1>2. PromiseKept /\ [RefundPromise!Next]_(RefundPromise!promise) => PromiseKept'
  BY PromiseGoesOn
<1>. QED  BY <1>1, <1>2, PTL DEF RefundImplementsPromise, RefundPromise!Spec
=============================================================================
