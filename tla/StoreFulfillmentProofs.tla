----------------------- MODULE StoreFulfillmentProofs -----------------------
(***************************************************************************)
(* Proofs about StoreFulfillment, for any number of calls, lines and       *)
(* players.                                                                *)
(***************************************************************************)
EXTENDS StoreFulfillment, TLAPS

(* Every customer resolution maps every line to a player, and there is one. *)
LEMMA UnresolvedType == Unresolved \in [Lines -> Players]
<1>1. PICK p \in Players : TRUE
  BY PlayersAssumption
<1>2. [l \in Lines |-> p] \in Resolutions
  BY <1>1, LinesAssumption DEF Resolutions
<1>3. Unresolved \in Resolutions
  BY <1>2 DEF Unresolved
<1>. QED  BY <1>3 DEF Resolutions

LEMMA FreshType == Fresh \in [Lines -> LinePhase]
BY DEF Fresh, LinePhase, Finished

LEMMA KeyType ==
    ASSUME TypeOK, NEW c \in Calls, NEW l \in Lines
    PROVE  KeyOf(c, l) \in Keys
BY DEF TypeOK, KeyOf, Keys

LEMMA MoveToType ==
    ASSUME TypeOK, NEW c \in Calls, NEW l \in Lines, NEW phase \in LinePhase, MoveTo(c, l, phase)
    PROVE  pc' \in [Calls -> [Lines -> LinePhase]]
BY DEF TypeOK, MoveTo

LEMMA LedgerType ==
    ASSUME TypeOK, NEW k \in Keys, NEW status \in LedgerStatus,
           LedgerUpsert(k, status) \/ LedgerPatch(k, status)
    PROVE  ledger' \in [Keys -> LedgerStatus]
BY DEF TypeOK, LedgerUpsert, LedgerPatch

LEMMA AbandonedType ==
    ASSUME TypeOK, NEW cmds \in SUBSET bus
    PROVE  Abandoned(cmds) \subseteq Command
BY DEF TypeOK, Abandoned, Command

(* What one step of the game server may do to a caller's line.              *)
LEMMA ReplyType ==
    ASSUME TypeOK, NEW m \in bus, NEW phase \in LinePhase, Reply(m, phase)
    PROVE  pc' \in [Calls -> [Lines -> LinePhase]]
<1>1. m \in Command
  BY DEF TypeOK
<1>2. CASE m.from = Nobody
  BY <1>2 DEF Reply, TypeOK
<1>3. CASE m.from # Nobody
  <2>1. m.from \in Calls /\ m.line \in Lines
    BY <1>1, <1>3 DEF Command
  <2>. QED  BY <1>3, <2>1, MoveToType DEF Reply
<1>. QED  BY <1>2, <1>3

LEMMA TypeInit == Init => TypeOK
BY UnresolvedType, FreshType DEF Init, TypeOK, LedgerStatus, Command

LEMMA TypeStep == TypeOK /\ [Next]_vars => TypeOK'
<1> SUFFICES ASSUME TypeOK, [Next]_vars
             PROVE  TypeOK'
  OBVIOUS
<1> USE DEF callVars, pluginVars
<1>1. ASSUME NEW c \in Calls, Receive(c)
      PROVE  TypeOK'
  BY <1>1 DEF TypeOK, Receive, Resolutions
<1>2. ASSUME NEW c \in Calls, Answer(c)
      PROVE  TypeOK'
  BY <1>2, FreshType, UnresolvedType DEF TypeOK, Answer
<1>3. ASSUME NEW c \in Calls, Crash(c)
      PROVE  TypeOK'
  <2>1. bus' \subseteq Command
    BY <1>3, AbandonedType DEF Crash
  <2>. QED  BY <1>3, <2>1, FreshType, UnresolvedType DEF TypeOK, Crash
<1>4. ASSUME NEW c \in Calls, NEW l \in Lines, GiftUnresolvable(c, l)
      PROVE  TypeOK'
  <2>1. pc' \in [Calls -> [Lines -> LinePhase]]
    BY <1>4, MoveToType DEF GiftUnresolvable, LinePhase, Finished
  <2>. QED  BY <1>4, <2>1 DEF TypeOK, GiftUnresolvable
<1>5. ASSUME NEW c \in Calls, NEW l \in Lines, ClaimLine(c, l)
      PROVE  TypeOK'
  <2>1. pc' \in [Calls -> [Lines -> LinePhase]]
    BY <1>5, MoveToType DEF ClaimLine, LinePhase, Finished, Owning
  <2>. QED  BY <1>5, <2>1, KeyType DEF TypeOK, ClaimLine
<1>6. ASSUME NEW c \in Calls, NEW l \in Lines, LedgerQueued(c, l)
      PROVE  TypeOK'
  <2>1. pc' \in [Calls -> [Lines -> LinePhase]]
    BY <1>6, MoveToType DEF LedgerQueued, LinePhase, Owning
  <2>2. ledger' \in [Keys -> LedgerStatus]
    BY <1>6, KeyType, LedgerType DEF LedgerQueued, LedgerStatus
  <2>. QED  BY <1>6, <2>1, <2>2 DEF TypeOK, LedgerQueued
<1>7. ASSUME NEW c \in Calls, NEW l \in Lines, Send(c, l)
      PROVE  TypeOK'
  <2>1. pc' \in [Calls -> [Lines -> LinePhase]]
    BY <1>7, MoveToType DEF Send, LinePhase, Owning
  <2>2. bus' \subseteq Command
    BY <1>7 DEF TypeOK, Send, Command
  <2>. QED  BY <1>7, <2>1, <2>2 DEF TypeOK, Send
<1>8. ASSUME NEW c \in Calls, NEW l \in Lines, Confirm(c, l)
      PROVE  TypeOK'
  <2>1. pc' \in [Calls -> [Lines -> LinePhase]]
    BY <1>8, MoveToType DEF Confirm, LinePhase, Finished
  <2>2. ledger' \in [Keys -> LedgerStatus]
    BY <1>8, KeyType, LedgerType DEF Confirm, LedgerStatus
  <2>. QED  BY <1>8, <2>1, <2>2 DEF TypeOK, Confirm
<1>9. ASSUME NEW c \in Calls, NEW l \in Lines, FailLine(c, l)
      PROVE  TypeOK'
  <2>1. pc' \in [Calls -> [Lines -> LinePhase]]
    BY <1>9, MoveToType DEF FailLine, LinePhase, Owning
  <2>2. ledger' \in [Keys -> LedgerStatus]
    BY <1>9, KeyType, LedgerType DEF FailLine, LedgerStatus
  <2>3. bus' \subseteq Command
    BY <1>9, AbandonedType DEF FailLine
  <2>. QED  BY <1>9, <2>1, <2>2, <2>3 DEF TypeOK, FailLine
<1>10. ASSUME NEW c \in Calls, NEW l \in Lines, ReleaseLine(c, l)
       PROVE  TypeOK'
  <2>1. pc' \in [Calls -> [Lines -> LinePhase]]
    BY <1>10, MoveToType DEF ReleaseLine, LinePhase, Finished
  <2>. QED  BY <1>10, <2>1 DEF TypeOK, ReleaseLine
<1>11. ASSUME NEW m \in bus, PluginGrant(m)
       PROVE  TypeOK'
  <2>1. pc' \in [Calls -> [Lines -> LinePhase]]
    BY <1>11, ReplyType DEF PluginGrant, LinePhase, Owning
  <2>2. m.line \in Lines /\ m.player \in Players
    BY DEF TypeOK, Command
  <2>3. registry' \in [TxIds -> {"none", "recorded", "refunded"}] /\ goods' \subseteq Keys
    BY <1>11, <2>2 DEF TypeOK, PluginGrant, Keys, TxIds
  <2>. QED  BY <1>11, <2>1, <2>3 DEF TypeOK, PluginGrant
<1>12. ASSUME NEW m \in bus, PluginReject(m)
       PROVE  TypeOK'
  <2>1. pc' \in [Calls -> [Lines -> LinePhase]]
    BY <1>12, ReplyType DEF PluginReject, LinePhase, Owning
  <2>. QED  BY <1>12, <2>1 DEF TypeOK, PluginReject
<1>13. ASSUME NEW m \in bus, PluginDrop(m)
       PROVE  TypeOK'
  BY <1>13 DEF TypeOK, PluginDrop
<1>14. CASE UNCHANGED vars
  BY <1>14 DEF TypeOK, vars
<1>. QED
  BY <1>1, <1>2, <1>3, <1>4, <1>5, <1>6, <1>7, <1>8, <1>9, <1>10, <1>11, <1>12, <1>13, <1>14
     DEF Next, LineStep, PluginStep

(* The state keeps its shape: lines stay in their phases, ledger rows in    *)
(* their statuses, every queued command names a line, a player and a caller *)
(* or Nobody.                                                               *)
THEOREM TypeCorrect == Spec => []TypeOK
BY TypeInit, TypeStep, PTL DEF Spec

-----------------------------------------------------------------------------
(* A call that is not in progress has touched no line; a command that names *)
(* a caller has that caller waiting for it, and for no other command of the *)
(* same line.                                                               *)
IdleIsFresh == \A c \in Calls \ live : pc[c] = Fresh

Awaited(m) == m.from # Nobody
CommandsAwaited ==
    \A m \in bus : Awaited(m) =>
        /\ m.from \in live /\ pc[m.from][m.line] = "waiting"
        /\ \A n \in bus : n.from = m.from /\ n.line = m.line => n = m

AwaitInv == TypeOK /\ IdleIsFresh /\ CommandsAwaited

LEMMA AwaitInit == Init => AwaitInv
BY TypeInit DEF Init, AwaitInv, IdleIsFresh, CommandsAwaited

(* A step that moves one line of a call in progress keeps idle calls fresh. *)
LEMMA MoveKeepsIdle ==
    ASSUME AwaitInv, NEW c \in live, NEW l \in Lines, NEW phase, MoveTo(c, l, phase), live' = live
    PROVE  IdleIsFresh'
BY DEF AwaitInv, TypeOK, IdleIsFresh, MoveTo, Fresh

(* It keeps callers waiting when it queues nothing and the line it moves    *)
(* has no command for its call left.                                        *)
LEMMA MoveKeepsAwaited ==
    ASSUME AwaitInv, NEW c \in live, NEW l \in Lines, NEW phase, MoveTo(c, l, phase), live' = live,
           \A m \in bus' : Awaited(m) => m \in bus /\ ~(m.from = c /\ m.line = l)
    PROVE  CommandsAwaited'
<1> SUFFICES ASSUME NEW m \in bus', Awaited(m)
             PROVE  /\ m.from \in live /\ pc'[m.from][m.line] = "waiting"
                    /\ \A n \in bus' : n.from = m.from /\ n.line = m.line => n = m
  BY DEF CommandsAwaited, Awaited
<1>1. m \in bus /\ ~(m.from = c /\ m.line = l)
  OBVIOUS
<1>2. m.from \in live /\ pc[m.from][m.line] = "waiting" /\ m.from \in Calls /\ m.line \in Lines
  BY <1>1 DEF AwaitInv, TypeOK, CommandsAwaited, Command
<1>3. pc'[m.from][m.line] = "waiting"
  BY <1>1, <1>2 DEF AwaitInv, TypeOK, MoveTo
<1>4. ASSUME NEW n \in bus', n.from = m.from, n.line = m.line
      PROVE  n = m
  <2>1. n \in bus
    BY <1>4 DEF Awaited
  <2>. QED  BY <1>1, <1>4, <2>1 DEF AwaitInv, CommandsAwaited
<1>. QED  BY <1>2, <1>3, <1>4

(* A line some call owns belongs to a call in progress.                     *)
LEMMA OwningIsLive ==
    ASSUME AwaitInv, NEW c \in Calls, NEW l \in Lines, pc[c][l] \in Owning
    PROVE  c \in live
BY DEF AwaitInv, IdleIsFresh, Fresh, Owning

(* A line that is not waiting has no command queued for its call.           *)
LEMMA NotWaiting ==
    ASSUME AwaitInv, NEW c \in Calls, NEW l \in Lines, pc[c][l] # "waiting"
    PROVE  \A m \in bus : ~(m.from = c /\ m.line = l)
BY CallersAssumption DEF AwaitInv, CommandsAwaited, Awaited

LEMMA AwaitStep == AwaitInv /\ [Next]_vars => AwaitInv'
<1> SUFFICES ASSUME AwaitInv, [Next]_vars
             PROVE  IdleIsFresh' /\ CommandsAwaited'
  BY TypeStep DEF AwaitInv
<1> USE DEF callVars, pluginVars
<1>0. live \subseteq Calls /\ bus \subseteq Command /\ Nobody \notin Calls
  BY CallersAssumption DEF AwaitInv, TypeOK
<1>1. ASSUME NEW c \in Calls, Receive(c)
      PROVE  IdleIsFresh' /\ CommandsAwaited'
  BY <1>1 DEF AwaitInv, IdleIsFresh, CommandsAwaited, Awaited, Receive, Fresh
<1>2. ASSUME NEW c \in Calls, Answer(c)
      PROVE  IdleIsFresh' /\ CommandsAwaited'
  <2>1. IdleIsFresh'
    BY <1>2 DEF AwaitInv, TypeOK, IdleIsFresh, Answer, Fresh
  <2>2. \A m \in bus : m.from # c
    BY <1>0, <1>2, NotWaiting DEF Answer, Finished, Command
  <2>. QED  BY <1>0, <1>2, <2>1, <2>2 DEF AwaitInv, TypeOK, CommandsAwaited, Awaited, Answer
<1>3. ASSUME NEW c \in Calls, Crash(c)
      PROVE  IdleIsFresh' /\ CommandsAwaited'
  <2>1. IdleIsFresh'
    BY <1>3 DEF AwaitInv, TypeOK, IdleIsFresh, Crash, Fresh
  <2>2. \A m \in bus' : Awaited(m) => m \in bus /\ m.from # c
    BY <1>0, <1>3 DEF Crash, Abandoned, Awaited, Command
  <2>. QED  BY <1>0, <1>3, <2>1, <2>2 DEF AwaitInv, TypeOK, CommandsAwaited, Awaited, Crash, Command
<1>4. ASSUME NEW c \in Calls, NEW l \in Lines, NEW phase, MoveTo(c, l, phase),
             pc[c][l] # "waiting", c \in live, live' = live, bus' = bus
      PROVE  IdleIsFresh' /\ CommandsAwaited'
  <2>1. \A m \in bus' : Awaited(m) => m \in bus /\ ~(m.from = c /\ m.line = l)
    BY <1>4, NotWaiting
  <2>. QED  BY <1>4, <2>1, MoveKeepsIdle, MoveKeepsAwaited
<1>5. ASSUME NEW c \in Calls, NEW l \in Lines,
             \/ GiftUnresolvable(c, l) \/ ClaimLine(c, l) \/ LedgerQueued(c, l)
             \/ Confirm(c, l) \/ ReleaseLine(c, l)
      PROVE  IdleIsFresh' /\ CommandsAwaited'
  <2>1. c \in live /\ pc[c][l] # "waiting" /\ live' = live /\ bus' = bus
    BY <1>5, OwningIsLive
       DEF GiftUnresolvable, ClaimLine, LedgerQueued, Confirm, ReleaseLine, Owning
  <2>2. \E phase \in LinePhase : MoveTo(c, l, phase)
    BY <1>5 DEF GiftUnresolvable, ClaimLine, LedgerQueued, Confirm, ReleaseLine,
                LinePhase, Owning, Finished
  <2>. QED  BY <1>4, <2>1, <2>2
<1>6. ASSUME NEW c \in Calls, NEW l \in Lines, Send(c, l)
      PROVE  IdleIsFresh' /\ CommandsAwaited'
  <2>1. c \in live
    BY <1>6, OwningIsLive DEF Send, Owning
  <2>2. IdleIsFresh'
    BY <1>6, <2>1, MoveKeepsIdle DEF Send
  <2>3. \A m \in bus : ~(m.from = c /\ m.line = l)
    BY <1>6, NotWaiting DEF Send
  <2>4. PICK new \in Command : new.from = c /\ new.line = l /\ bus' = bus \cup {new}
    BY <1>0, <1>6, TypeStep DEF AwaitInv, TypeOK, Send, Command
  <2>5. pc'[c][l] = "waiting"
    BY <1>6 DEF AwaitInv, TypeOK, Send, MoveTo
  <2>6. ASSUME NEW m \in bus, Awaited(m)
        PROVE  m.from \in live /\ pc'[m.from][m.line] = "waiting"
    BY <1>0, <1>6, <2>3, <2>6 DEF AwaitInv, TypeOK, CommandsAwaited, Send, MoveTo, Command
  <2>7. live' = live
    BY <1>6 DEF Send
  <2>. QED  BY <1>0, <2>1, <2>2, <2>3, <2>4, <2>5, <2>6, <2>7 DEF AwaitInv, CommandsAwaited, Awaited
<1>7. ASSUME NEW c \in Calls, NEW l \in Lines, FailLine(c, l)
      PROVE  IdleIsFresh' /\ CommandsAwaited'
  <2>1. c \in live
    BY <1>7, OwningIsLive DEF FailLine, Owning
  <2>2. \A m \in bus' : Awaited(m) => m \in bus /\ ~(m.from = c /\ m.line = l)
    BY <1>0, <1>7 DEF FailLine, Abandoned, Awaited, Command
  <2>. QED  BY <1>7, <2>1, <2>2, MoveKeepsIdle, MoveKeepsAwaited DEF FailLine
<1>8. ASSUME NEW m \in bus, NEW phase, Reply(m, phase), bus' = bus \ {m}, live' = live
      PROVE  IdleIsFresh' /\ CommandsAwaited'
  <2>1. CASE m.from = Nobody
    BY <1>8, <2>1 DEF AwaitInv, IdleIsFresh, CommandsAwaited, Reply, Fresh
  <2>2. CASE m.from # Nobody
    <3>1. m.from \in live /\ m.line \in Lines /\ MoveTo(m.from, m.line, phase)
      BY <1>0, <1>8, <2>2 DEF AwaitInv, CommandsAwaited, Awaited, Reply, Command
    <3>2. \A n \in bus' : Awaited(n) => n \in bus /\ ~(n.from = m.from /\ n.line = m.line)
      BY <1>8, <2>2 DEF AwaitInv, CommandsAwaited, Awaited
    <3>. QED  BY <1>8, <3>1, <3>2, MoveKeepsIdle, MoveKeepsAwaited
  <2>. QED  BY <2>1, <2>2
<1>9. ASSUME NEW m \in bus, PluginStep(m)
      PROVE  IdleIsFresh' /\ CommandsAwaited'
  <2>1. CASE PluginGrant(m)
    BY <1>8, <2>1 DEF PluginGrant
  <2>2. CASE PluginReject(m)
    BY <1>8, <2>2 DEF PluginReject
  <2>3. CASE PluginDrop(m)
    BY <2>3 DEF PluginDrop, AwaitInv, IdleIsFresh, CommandsAwaited, Fresh
  <2>. QED  BY <1>9, <2>1, <2>2, <2>3 DEF PluginStep
<1>10. CASE UNCHANGED vars
  BY <1>10 DEF vars, AwaitInv, IdleIsFresh, CommandsAwaited, Fresh
<1>. QED
  BY <1>1, <1>2, <1>3, <1>5, <1>6, <1>7, <1>9, <1>10 DEF Next, LineStep

-----------------------------------------------------------------------------
(* What OneOwnerPerLine and DeliveredKeepsClaim rest on: a line some call   *)
(* is still at work on is not in the ledger as delivered, so neither the    *)
(* claim it gives back nor the status it writes belongs to a delivered one. *)
OwnedNotDelivered ==
    \A c \in Calls, l \in Lines :
        (pc[c][l] \in Owning /\ KeyOf(c, l) \notin blind) => ledger[KeyOf(c, l)] # "delivered"

OwnerInv == AwaitInv /\ OneOwnerPerLine /\ DeliveredKeepsClaim /\ OwnedNotDelivered

LEMMA OwnerInit == Init => OwnerInv
<1> SUFFICES ASSUME Init
             PROVE  OwnerInv
  OBVIOUS
<1>1. \A c \in Calls, l \in Lines : pc[c][l] \notin Owning
  BY DEF Init, Fresh, Owning
<1>2. \A k \in Keys : ledger[k] # "delivered"
  BY DEF Init
<1>. QED
  BY <1>1, <1>2, AwaitInit DEF OwnerInv, OneOwnerPerLine, DeliveredKeepsClaim, OwnedNotDelivered

(* A step that leaves the claims alone, makes nobody an owner and delivers  *)
(* nothing keeps the three.                                                 *)
LEMMA NoNewOwner ==
    ASSUME OwnerInv, claims' = claims, blind' = blind,
           \A c \in Calls, l \in Lines :
               pc'[c][l] \in Owning => pc[c][l] \in Owning /\ target'[c] = target[c],
           \A k \in Keys : ledger'[k] = "delivered" => ledger[k] = "delivered"
    PROVE  OneOwnerPerLine' /\ DeliveredKeepsClaim' /\ OwnedNotDelivered'
<1>1. \A c \in Calls, l \in Lines : pc'[c][l] \in Owning => KeyOf(c, l)' = KeyOf(c, l)
  BY DEF KeyOf
<1>2. \A c \in Calls, l \in Lines : KeyOf(c, l) \in Keys
  BY KeyType DEF OwnerInv, AwaitInv
<1>3. OneOwnerPerLine'
  BY <1>1 DEF OwnerInv, OneOwnerPerLine
<1>4. DeliveredKeepsClaim'
  BY DEF OwnerInv, DeliveredKeepsClaim
<1>5. OwnedNotDelivered'
  BY <1>1, <1>2 DEF OwnerInv, OwnedNotDelivered
<1>. QED  BY <1>3, <1>4, <1>5

(* What a step that moves one line of one call does to the owners.          *)
LEMMA MoveOwner ==
    ASSUME TypeOK, NEW c \in Calls, NEW l \in Lines, NEW phase, MoveTo(c, l, phase)
    PROVE  /\ pc'[c][l] = phase
           /\ \A d \in Calls, k \in Lines : ~(d = c /\ k = l) => pc'[d][k] = pc[d][k]
BY DEF TypeOK, MoveTo

LEMMA LedgerStep ==
    ASSUME TypeOK, NEW k \in Keys, NEW status,
           LedgerUpsert(k, status) \/ LedgerPatch(k, status)
    PROVE  /\ \A j \in Keys : j # k => ledger'[j] = ledger[j]
           /\ ledger'[k] = ledger[k] \/ ledger'[k] = status
BY DEF TypeOK, LedgerUpsert, LedgerPatch

LEMMA ClaimKeepsOwner ==
    ASSUME OwnerInv, NEW c \in Calls, NEW l \in Lines, ClaimLine(c, l)
    PROVE  OneOwnerPerLine' /\ DeliveredKeepsClaim' /\ OwnedNotDelivered'
<1>0. TypeOK /\ target' = target /\ ledger' = ledger /\ KeyOf(c, l) \in Keys
  BY KeyType DEF OwnerInv, AwaitInv, ClaimLine
<1>1. \A d \in Calls, k \in Lines : KeyOf(d, k)' = KeyOf(d, k)
  BY <1>0 DEF KeyOf
<1>2. CASE KeyOf(c, l) \notin claims /\ claims' = claims \cup {KeyOf(c, l)}
           /\ MoveTo(c, l, "claimed") /\ UNCHANGED blind
  <2>1. /\ pc'[c][l] = "claimed"
        /\ \A d \in Calls, k \in Lines : ~(d = c /\ k = l) => pc'[d][k] = pc[d][k]
    BY <1>0, <1>2, MoveOwner
  <2>2. \A d \in Calls, k \in Lines :
            pc[d][k] \in Owning /\ KeyOf(d, k) \notin blind => KeyOf(d, k) # KeyOf(c, l)
    BY <1>2 DEF OwnerInv, OneOwnerPerLine
  <2>3. OneOwnerPerLine'
    BY <1>1, <1>2, <2>1, <2>2 DEF OwnerInv, OneOwnerPerLine
  <2>4. DeliveredKeepsClaim'
    BY <1>0, <1>2 DEF OwnerInv, DeliveredKeepsClaim
  <2>5. OwnedNotDelivered'
    BY <1>0, <1>1, <1>2, <2>1 DEF OwnerInv, OwnedNotDelivered, DeliveredKeepsClaim
  <2>. QED  BY <2>3, <2>4, <2>5
<1>3. CASE MoveTo(c, l, "skipped") /\ UNCHANGED <<claims, blind>>
  <2>1. /\ pc'[c][l] = "skipped"
        /\ \A d \in Calls, k \in Lines : ~(d = c /\ k = l) => pc'[d][k] = pc[d][k]
    BY <1>0, <1>3, MoveOwner
  <2>. QED  BY <1>0, <1>3, <2>1, NoNewOwner DEF Owning
<1>4. CASE blind' = blind \cup {KeyOf(c, l)} /\ MoveTo(c, l, "claimed") /\ UNCHANGED claims
  <2>1. /\ pc'[c][l] = "claimed"
        /\ \A d \in Calls, k \in Lines : ~(d = c /\ k = l) => pc'[d][k] = pc[d][k]
    BY <1>0, <1>4, MoveOwner
  <2>2. OneOwnerPerLine'
    BY <1>1, <1>4, <2>1 DEF OwnerInv, OneOwnerPerLine
  <2>3. DeliveredKeepsClaim'
    BY <1>0, <1>4 DEF OwnerInv, DeliveredKeepsClaim
  <2>4. OwnedNotDelivered'
    BY <1>0, <1>1, <1>4, <2>1 DEF OwnerInv, OwnedNotDelivered
  <2>. QED  BY <2>2, <2>3, <2>4
<1>. QED  BY <1>2, <1>3, <1>4 DEF ClaimLine

LEMMA ConfirmKeepsOwner ==
    ASSUME OwnerInv, NEW c \in Calls, NEW l \in Lines, Confirm(c, l)
    PROVE  OneOwnerPerLine' /\ DeliveredKeepsClaim' /\ OwnedNotDelivered'
<1>0. /\ TypeOK /\ KeyOf(c, l) \in Keys
      /\ target' = target /\ claims' = claims /\ blind' = blind /\ pc[c][l] \in Owning
  BY KeyType DEF OwnerInv, AwaitInv, Confirm, Owning
<1>1. \A d \in Calls, k \in Lines : KeyOf(d, k)' = KeyOf(d, k) /\ KeyOf(d, k) \in Keys
  BY <1>0, KeyType DEF KeyOf
<1>2. /\ pc'[c][l] = "dispatched"
      /\ \A d \in Calls, k \in Lines : ~(d = c /\ k = l) => pc'[d][k] = pc[d][k]
  BY <1>0, MoveOwner DEF Confirm
<1>3. \A j \in Keys : j # KeyOf(c, l) => ledger'[j] = ledger[j]
  BY <1>0, LedgerStep DEF Confirm
<1>4. KeyOf(c, l) \notin blind =>
        /\ KeyOf(c, l) \in claims
        /\ \A d \in Calls, k \in Lines :
              pc[d][k] \in Owning /\ KeyOf(d, k) = KeyOf(c, l) => d = c /\ k = l
  BY <1>0 DEF OwnerInv, OneOwnerPerLine, KeyOf
<1>5. OneOwnerPerLine'
  BY <1>0, <1>1, <1>2 DEF OwnerInv, OneOwnerPerLine, Owning
<1>6. DeliveredKeepsClaim'
  BY <1>0, <1>3, <1>4 DEF OwnerInv, DeliveredKeepsClaim
<1>7. OwnedNotDelivered'
  <2> SUFFICES ASSUME NEW d \in Calls, NEW k \in Lines, pc'[d][k] \in Owning, KeyOf(d, k) \notin blind
               PROVE  ledger'[KeyOf(d, k)] # "delivered"
    BY <1>0, <1>1 DEF OwnedNotDelivered
  <2>1. ~(d = c /\ k = l) /\ pc[d][k] \in Owning
    BY <1>2 DEF Owning
  <2>2. KeyOf(d, k) # KeyOf(c, l)
    BY <1>4, <2>1
  <2>. QED  BY <1>1, <1>3, <2>1, <2>2 DEF OwnerInv, OwnedNotDelivered
<1>. QED  BY <1>5, <1>6, <1>7

LEMMA ReleaseKeepsOwner ==
    ASSUME OwnerInv, NEW c \in Calls, NEW l \in Lines, ReleaseLine(c, l)
    PROVE  OneOwnerPerLine' /\ DeliveredKeepsClaim' /\ OwnedNotDelivered'
<1>0. /\ TypeOK /\ pc[c][l] \in Owning
      /\ target' = target /\ ledger' = ledger /\ blind' = blind
      /\ claims \ {KeyOf(c, l)} \subseteq claims'
  BY DEF OwnerInv, AwaitInv, ReleaseLine, Owning
<1>1. \A d \in Calls, k \in Lines : KeyOf(d, k)' = KeyOf(d, k)
  BY <1>0 DEF KeyOf
<1>2. /\ pc'[c][l] = "failed"
      /\ \A d \in Calls, k \in Lines : ~(d = c /\ k = l) => pc'[d][k] = pc[d][k]
  BY <1>0, MoveOwner DEF ReleaseLine
<1>3. OneOwnerPerLine'
  <2> SUFFICES ASSUME NEW d \in Calls, NEW k \in Lines, pc'[d][k] \in Owning, KeyOf(d, k) \notin blind
               PROVE  /\ KeyOf(d, k) \in claims'
                      /\ \A e \in Calls : pc'[e][k] \in Owning /\ KeyOf(e, k) = KeyOf(d, k) => e = d
    BY <1>0, <1>1 DEF OneOwnerPerLine
  <2>1. ~(d = c /\ k = l) /\ pc[d][k] \in Owning
    BY <1>2 DEF Owning
  <2>2. KeyOf(d, k) # KeyOf(c, l)
    BY <1>0, <2>1 DEF OwnerInv, OneOwnerPerLine, KeyOf
  <2>. QED  BY <1>0, <1>2, <2>1, <2>2 DEF OwnerInv, OneOwnerPerLine, Owning
<1>4. DeliveredKeepsClaim'
  BY <1>0 DEF OwnerInv, DeliveredKeepsClaim, OwnedNotDelivered
<1>5. OwnedNotDelivered'
  BY <1>0, <1>1, <1>2 DEF OwnerInv, OwnedNotDelivered, Owning
<1>. QED  BY <1>3, <1>4, <1>5

LEMMA OwnerStep == OwnerInv /\ [Next]_vars => OwnerInv'
<1> SUFFICES ASSUME OwnerInv, [Next]_vars
             PROVE  OneOwnerPerLine' /\ DeliveredKeepsClaim' /\ OwnedNotDelivered'
  BY AwaitStep DEF OwnerInv
<1> USE DEF callVars, pluginVars
<1>0. AwaitInv /\ TypeOK /\ \A c \in Calls, l \in Lines : Fresh[l] \notin Owning
  BY DEF OwnerInv, AwaitInv, Fresh, Owning
<1>1. ASSUME NEW c \in Calls, Receive(c)
      PROVE  OneOwnerPerLine' /\ DeliveredKeepsClaim' /\ OwnedNotDelivered'
  <2>1. \A d \in Calls, l \in Lines : pc'[d][l] \in Owning => pc[d][l] \in Owning /\ target'[d] = target[d]
    BY <1>0, <1>1 DEF Receive, AwaitInv, TypeOK, IdleIsFresh
  <2>. QED  BY <1>1, <2>1, NoNewOwner DEF Receive
<1>2. ASSUME NEW c \in Calls, Answer(c) \/ Crash(c)
      PROVE  OneOwnerPerLine' /\ DeliveredKeepsClaim' /\ OwnedNotDelivered'
  <2>1. \A d \in Calls, l \in Lines : pc'[d][l] \in Owning => pc[d][l] \in Owning /\ target'[d] = target[d]
    BY <1>0, <1>2 DEF Answer, Crash, TypeOK
  <2>. QED  BY <1>2, <2>1, NoNewOwner DEF Answer, Crash
<1>3. ASSUME NEW c \in Calls, NEW l \in Lines, GiftUnresolvable(c, l)
      PROVE  OneOwnerPerLine' /\ DeliveredKeepsClaim' /\ OwnedNotDelivered'
  <2>1. \A d \in Calls, k \in Lines : pc'[d][k] \in Owning => pc[d][k] \in Owning /\ target'[d] = target[d]
    BY <1>0, <1>3, MoveOwner DEF GiftUnresolvable, Owning
  <2>. QED  BY <1>3, <2>1, NoNewOwner DEF GiftUnresolvable
<1>4. ASSUME NEW c \in Calls, NEW l \in Lines, LedgerQueued(c, l) \/ Send(c, l) \/ FailLine(c, l)
      PROVE  OneOwnerPerLine' /\ DeliveredKeepsClaim' /\ OwnedNotDelivered'
  <2>1. pc[c][l] \in Owning
    BY <1>4 DEF LedgerQueued, Send, FailLine, Owning
  <2>2. \A d \in Calls, k \in Lines : pc'[d][k] \in Owning => pc[d][k] \in Owning /\ target'[d] = target[d]
    BY <1>0, <1>4, <2>1, MoveOwner DEF LedgerQueued, Send, FailLine
  <2>3. \A k \in Keys : ledger'[k] = "delivered" => ledger[k] = "delivered"
    BY <1>0, <1>4, KeyType, LedgerStep DEF LedgerQueued, Send, FailLine
  <2>. QED  BY <1>4, <2>2, <2>3, NoNewOwner DEF LedgerQueued, Send, FailLine
<1>5. ASSUME NEW m \in bus, PluginStep(m)
      PROVE  OneOwnerPerLine' /\ DeliveredKeepsClaim' /\ OwnedNotDelivered'
  <2>1. ASSUME NEW phase, Reply(m, phase), target' = target
        PROVE  \A d \in Calls, k \in Lines :
                   pc'[d][k] \in Owning => pc[d][k] \in Owning /\ target'[d] = target[d]
    <3>1. CASE m.from = Nobody
      BY <2>1, <3>1 DEF Reply
    <3>2. CASE m.from # Nobody
      <4>1. m.from \in Calls /\ m.line \in Lines /\ pc[m.from][m.line] \in Owning
        BY <1>0, <3>2 DEF TypeOK, Command, AwaitInv, CommandsAwaited, Awaited, Owning
      <4>. QED  BY <1>0, <2>1, <3>2, <4>1, MoveOwner DEF Reply
    <3>. QED  BY <3>1, <3>2
  <2>2. \A d \in Calls, k \in Lines : pc'[d][k] \in Owning => pc[d][k] \in Owning /\ target'[d] = target[d]
    BY <1>5, <2>1 DEF PluginStep, PluginGrant, PluginReject, PluginDrop
  <2>. QED  BY <1>5, <2>2, NoNewOwner DEF PluginStep, PluginGrant, PluginReject, PluginDrop
<1>6. CASE UNCHANGED vars
  BY <1>6, NoNewOwner DEF vars
<1>. QED
  BY <1>1, <1>2, <1>3, <1>4, <1>5, <1>6, ClaimKeepsOwner, ConfirmKeepsOwner, ReleaseKeepsOwner
     DEF Next, LineStep

(* A line has one owner, a delivered line keeps its claim, and who owns a   *)
(* claimed line has found it undelivered.                                   *)
THEOREM OwnerInvariant == Spec => []OwnerInv
BY OwnerInit, OwnerStep, PTL DEF Spec

(* Of any number of overlapping posts and retries, over any number of       *)
(* lines and with every fault but a failed claim, one works on a line at a  *)
(* time, and its claim is on record while it does.                          *)
THEOREM OneOwner == Spec => []OneOwnerPerLine
BY OwnerInvariant, PTL DEF OwnerInv

(* The claim of a delivered line is never given back, by whatever call.     *)
THEOREM ClaimKept == Spec => []DeliveredKeepsClaim
BY OwnerInvariant, PTL DEF OwnerInv

(* A step takes no ledger row from "delivered" back to another status.      *)
THEOREM DeliveredStays == Spec => DeliveredIsFinal
<1>1. ASSUME OwnerInv, [Next]_vars
      PROVE  [\A k \in Keys \ blind : ledger[k] = "delivered" => ledger'[k] = "delivered"]_vars
  <2> SUFFICES ASSUME Next, NEW k \in Keys \ blind, ledger[k] = "delivered"
               PROVE  ledger'[k] = "delivered"
    BY <1>1
  <2>0. TypeOK /\ ledger \in [Keys -> LedgerStatus]
    BY <1>1 DEF OwnerInv, AwaitInv, TypeOK
  <2>1. CASE \E c \in Calls : Receive(c) \/ Answer(c) \/ Crash(c)
    BY <2>1 DEF Receive, Answer, Crash
  <2>2. ASSUME NEW c \in Calls, NEW l \in Lines, LineStep(c, l)
        PROVE  ledger'[k] = "delivered"
    <3>1. CASE GiftUnresolvable(c, l) \/ ClaimLine(c, l) \/ Send(c, l) \/ ReleaseLine(c, l)
      BY <3>1 DEF GiftUnresolvable, ClaimLine, Send, ReleaseLine
    <3>2. CASE LedgerQueued(c, l) \/ FailLine(c, l)
      <4>1. KeyOf(c, l) # k
        BY <1>1, <3>2 DEF LedgerQueued, FailLine, OwnerInv, OwnedNotDelivered, Owning
      <4>. QED  BY <2>0, <3>2, <4>1, KeyType, LedgerStep DEF LedgerQueued, FailLine
    <3>3. CASE Confirm(c, l)
      BY <2>0, <3>3, KeyType, LedgerStep DEF Confirm
    <3>. QED  BY <2>2, <3>1, <3>2, <3>3 DEF LineStep
  <2>3. CASE \E m \in bus : PluginStep(m)
    BY <2>3 DEF PluginStep, PluginGrant, PluginReject, PluginDrop
  <2>. QED  BY <2>1, <2>2, <2>3 DEF Next
<1>. QED  BY <1>1, OwnerInvariant, PTL DEF Spec, DeliveredIsFinal

-----------------------------------------------------------------------------
(* The transaction ids of two lines of one order differ.  The index suffix  *)
(* is what tells two identical lines apart.                                 *)
LEMMA TxIdInjective ==
    ASSUME NEW l \in Lines, NEW m \in Lines, TxId(l) = TxId(m)
    PROVE  l = m
BY LinesAssumption DEF TxId

(* The registry and the goods agree, and a line reported granted has been   *)
(* credited.                                                                *)
RegistryMatches ==
    /\ \A k \in goods : registry[TxId(k[1])] # "none"
    /\ \A l \in Lines : registry[TxId(l)] # "none" => HasGoods(l)
GrantedHasGoods ==
    \A c \in Calls, l \in Lines : pc[c][l] = "granted" => HasGoods(l)

GoodsInv ==
    /\ TypeOK /\ RegistryMatches /\ GrantedHasGoods
    /\ CreditedAtMostOnce /\ DeliveredHasGoods

LEMMA GoodsInit == Init => GoodsInv
<1> SUFFICES ASSUME Init
             PROVE  GoodsInv
  OBVIOUS
<1>1. \A c \in Calls, l \in Lines : pc[c][l] # "granted"
  BY DEF Init, Fresh
<1>2. \A l \in Lines : TxId(l) \in TxIds
  BY DEF TxIds
<1>. QED
  BY <1>1, <1>2, TypeInit
     DEF Init, GoodsInv, RegistryMatches, GrantedHasGoods, CreditedAtMostOnce, DeliveredHasGoods

(* A step that leaves the game server alone keeps GoodsInv if it reports no *)
(* line granted and confirms only granted lines.                            *)
LEMMA GoodsFrame ==
    ASSUME GoodsInv, TypeOK', UNCHANGED <<registry, goods>>,
           \A c \in Calls, l \in Lines : pc'[c][l] = "granted" => pc[c][l] = "granted",
           \A k \in Keys : ledger'[k] = "delivered" => ledger[k] = "delivered" \/ HasGoods(k[1])
    PROVE  GoodsInv'
BY DEF GoodsInv, RegistryMatches, GrantedHasGoods, CreditedAtMostOnce, DeliveredHasGoods, HasGoods

LEMMA GrantKeepsGoods ==
    ASSUME GoodsInv, TypeOK', NEW m \in bus, PluginGrant(m)
    PROVE  GoodsInv'
<1>0. /\ TypeOK /\ m.line \in Lines /\ m.player \in Players /\ m.from \in Calls \cup {Nobody}
      /\ ledger' = ledger /\ \A l \in Lines : TxId(l) \in TxIds
  BY DEF GoodsInv, TypeOK, Command, PluginGrant, TxIds
<1>1. goods \subseteq goods' /\ \A l \in Lines : HasGoods(l) => HasGoods(l)'
  BY DEF PluginGrant, pluginVars, HasGoods
<1>2. HasGoods(m.line)'
  <2>1. CASE registry[TxId(m.line)] = "none"
    BY <1>0, <2>1 DEF PluginGrant, HasGoods
  <2>2. CASE registry[TxId(m.line)] # "none"
    BY <1>0, <1>1, <2>2 DEF GoodsInv, RegistryMatches
  <2>. QED  BY <2>1, <2>2
<1>3. RegistryMatches' /\ CreditedAtMostOnce'
  <2>1. CASE registry[TxId(m.line)] = "none"
    <3>1. /\ registry' = [registry EXCEPT ![TxId(m.line)] = "recorded"]
          /\ goods' = goods \cup {<<m.line, m.player>>}
      BY <2>1 DEF PluginGrant
    <3>2. \A k \in goods : k[1] \in Lines /\ k[1] # m.line
      BY <1>0, <2>1 DEF GoodsInv, RegistryMatches, TypeOK, Keys
    <3>3. \A l \in Lines \ {m.line} : TxId(l) # TxId(m.line)
      BY <1>0, TxIdInjective
    <3>4. /\ registry'[TxId(m.line)] # "none"
          /\ \A l \in Lines \ {m.line} : registry'[TxId(l)] = registry[TxId(l)]
      BY <1>0, <3>1, <3>3 DEF TypeOK
    <3>5. CreditedAtMostOnce'
      BY <3>1, <3>2 DEF GoodsInv, CreditedAtMostOnce
    <3>6. RegistryMatches'
      BY <1>0, <1>1, <1>2, <3>1, <3>2, <3>4 DEF GoodsInv, RegistryMatches
    <3>. QED  BY <3>5, <3>6
  <2>2. CASE registry[TxId(m.line)] # "none"
    BY <2>2 DEF PluginGrant, pluginVars, GoodsInv, RegistryMatches, CreditedAtMostOnce, HasGoods
  <2>. QED  BY <2>1, <2>2
<1>4. GrantedHasGoods'
  <2>1. CASE m.from = Nobody
    BY <1>1, <2>1 DEF PluginGrant, Reply, GoodsInv, GrantedHasGoods
  <2>2. CASE m.from # Nobody
    BY <1>0, <1>1, <1>2, <2>2, MoveOwner DEF PluginGrant, Reply, GoodsInv, GrantedHasGoods
  <2>. QED  BY <2>1, <2>2
<1>5. DeliveredHasGoods'
  <2>1. \A k \in Keys : k[1] \in Lines
    BY DEF Keys
  <2>. QED  BY <1>0, <1>1, <2>1 DEF GoodsInv, DeliveredHasGoods
<1>. QED  BY <1>3, <1>4, <1>5 DEF GoodsInv

LEMMA GoodsStep == GoodsInv /\ [Next]_vars => GoodsInv'
<1> SUFFICES ASSUME GoodsInv, [Next]_vars
             PROVE  GoodsInv'
  OBVIOUS
<1> USE DEF callVars, pluginVars
<1>0. TypeOK /\ TypeOK' /\ \A l \in Lines : Fresh[l] # "granted"
  BY TypeStep DEF GoodsInv, Fresh
<1>1. ASSUME NEW c \in Calls, Receive(c) \/ Answer(c) \/ Crash(c)
      PROVE  GoodsInv'
  <2>1. \A d \in Calls, l \in Lines : pc'[d][l] = "granted" => pc[d][l] = "granted"
    BY <1>0, <1>1 DEF Receive, Answer, Crash, TypeOK
  <2>. QED  BY <1>0, <1>1, <2>1, GoodsFrame DEF Receive, Answer, Crash
<1>2. ASSUME NEW c \in Calls, NEW l \in Lines,
             GiftUnresolvable(c, l) \/ ClaimLine(c, l) \/ Send(c, l) \/ ReleaseLine(c, l)
      PROVE  GoodsInv'
  <2>1. PICK phase \in LinePhase \ {"granted"} : MoveTo(c, l, phase)
    BY <1>2 DEF GiftUnresolvable, ClaimLine, Send, ReleaseLine, LinePhase, Owning, Finished
  <2>2. \A d \in Calls, k \in Lines : pc'[d][k] = "granted" => pc[d][k] = "granted"
    BY <1>0, <2>1, MoveOwner
  <2>. QED  BY <1>0, <1>2, <2>2, GoodsFrame DEF GiftUnresolvable, ClaimLine, Send, ReleaseLine
<1>3. ASSUME NEW c \in Calls, NEW l \in Lines, LedgerQueued(c, l) \/ FailLine(c, l)
      PROVE  GoodsInv'
  <2>1. \A d \in Calls, k \in Lines : pc'[d][k] = "granted" => pc[d][k] = "granted"
    BY <1>0, <1>3, MoveOwner DEF LedgerQueued, FailLine
  <2>2. \A k \in Keys : ledger'[k] = "delivered" => ledger[k] = "delivered"
    BY <1>0, <1>3, KeyType, LedgerStep DEF LedgerQueued, FailLine
  <2>. QED  BY <1>0, <1>3, <2>1, <2>2, GoodsFrame DEF LedgerQueued, FailLine
<1>4. ASSUME NEW c \in Calls, NEW l \in Lines, Confirm(c, l)
      PROVE  GoodsInv'
  <2>1. \A d \in Calls, k \in Lines : pc'[d][k] = "granted" => pc[d][k] = "granted"
    BY <1>0, <1>4, MoveOwner DEF Confirm
  <2>2. HasGoods(KeyOf(c, l)[1])
    BY <1>4 DEF Confirm, GoodsInv, GrantedHasGoods, KeyOf
  <2>3. \A k \in Keys : ledger'[k] = "delivered" => ledger[k] = "delivered" \/ HasGoods(k[1])
    BY <1>0, <1>4, <2>2, KeyType, LedgerStep DEF Confirm
  <2>. QED  BY <1>0, <1>4, <2>1, <2>3, GoodsFrame DEF Confirm
<1>5. ASSUME NEW m \in bus, PluginReject(m) \/ PluginDrop(m)
      PROVE  GoodsInv'
  <2>1. \A d \in Calls, k \in Lines : pc'[d][k] = "granted" => pc[d][k] = "granted"
    <3>1. m.from \in Calls \cup {Nobody} /\ m.line \in Lines
      BY <1>0 DEF TypeOK, Command
    <3>. QED  BY <1>0, <1>5, <3>1, MoveOwner DEF PluginReject, PluginDrop, Reply
  <2>. QED  BY <1>0, <1>5, <2>1, GoodsFrame DEF PluginReject, PluginDrop
<1>6. CASE UNCHANGED vars
  BY <1>0, <1>6, GoodsFrame DEF vars
<1>. QED
  BY <1>0, <1>1, <1>2, <1>3, <1>4, <1>5, <1>6, GrantKeepsGoods DEF Next, LineStep, PluginStep

(* The registry and the goods agree id by id, and a line is granted, or     *)
(* delivered in the ledger, only when its goods were given.                 *)
THEOREM GoodsInvariant == Spec => []GoodsInv
BY GoodsInit, GoodsStep, PTL DEF Spec

(* No line is credited to two players, whatever is sent late, twice or to   *)
(* another player, and whatever faults happen.                              *)
THEOREM NoDoubleCredit == Spec => []CreditedAtMostOnce
BY GoodsInvariant, PTL DEF GoodsInv

(* The ledger says delivered only of lines that were credited.              *)
THEOREM LedgerIsHonest == Spec => []DeliveredHasGoods
BY GoodsInvariant, PTL DEF GoodsInv

-----------------------------------------------------------------------------
(* What a claim row stands for.  A call takes it and keeps the line in hand *)
(* until the line is granted, which credits it, or fails, which deletes the *)
(* row; only a lost delete or a call that dies in between leaves one over.  *)
NoLostRelease == Faults \cap {"crash", "release"} = {}

Recorded(l) == registry[TxId(l)] # "none"

(* The game server forgets no transaction.  (A step that recorded goods and *)
(* one that revokes them remember alike, so StoreRefund uses these lemmas.) *)
Remembers == \A l \in Lines : Recorded(l) => Recorded(l)'

GrantedRecorded == \A c \in Calls, l \in Lines : pc[c][l] = "granted" => Recorded(l)
Reason(k) ==
    Recorded(k[1]) \/ \E c \in live : pc[c][k[1]] \in Owning /\ KeyOf(c, k[1]) = k
ClaimHasReason == \A k \in claims : Reason(k)

ReasonInv == AwaitInv /\ GrantedRecorded /\ ClaimHasReason

LEMMA ReasonInit == Init => ReasonInv
BY AwaitInit DEF ReasonInv, Init, GrantedRecorded, ClaimHasReason, Fresh

(* A step that grants a line records it; no other reports it granted.       *)
LEMMA GrantedStep ==
    ASSUME TypeOK, GrantedRecorded, [Next]_vars
    PROVE  Remembers /\ GrantedRecorded'
<1> USE DEF callVars, pluginVars
<1>0. \A l \in Lines : TxId(l) \in TxIds /\ Fresh[l] # "granted"
  BY DEF TxIds, Fresh
<1>1. ASSUME NEW m \in bus, PluginGrant(m)
      PROVE  Remembers /\ GrantedRecorded'
  <2>1. m.line \in Lines /\ m.from \in Calls \cup {Nobody}
    BY DEF TypeOK, Command
  <2>2. Remembers /\ Recorded(m.line)'
    BY <1>0, <1>1, <2>1 DEF PluginGrant, Remembers, Recorded, TypeOK
  <2>3. \A c \in Calls, l \in Lines : pc'[c][l] = "granted" => pc[c][l] = "granted" \/ l = m.line
    BY <1>1, <2>1, MoveOwner DEF PluginGrant, Reply
  <2>. QED  BY <2>2, <2>3 DEF GrantedRecorded, Remembers
<1>2. ASSUME registry' = registry,
             \A c \in Calls, l \in Lines : pc'[c][l] = "granted" => pc[c][l] = "granted"
      PROVE  Remembers /\ GrantedRecorded'
  BY <1>2 DEF Remembers, Recorded, GrantedRecorded
<1>3. ASSUME NEW c \in Calls, Receive(c) \/ Answer(c) \/ Crash(c)
      PROVE  Remembers /\ GrantedRecorded'
  <2>1. \A d \in Calls, l \in Lines : pc'[d][l] = "granted" => pc[d][l] = "granted"
    BY <1>0, <1>3 DEF Receive, Answer, Crash, TypeOK
  <2>. QED  BY <1>2, <1>3, <2>1 DEF Receive, Answer, Crash
<1>4. ASSUME NEW c \in Calls, NEW l \in Lines, LineStep(c, l)
      PROVE  Remembers /\ GrantedRecorded'
  <2>1. registry' = registry /\ \E phase \in LinePhase \ {"granted"} : MoveTo(c, l, phase)
    BY <1>4 DEF LineStep, GiftUnresolvable, ClaimLine, LedgerQueued, Send, Confirm, FailLine,
                ReleaseLine, LinePhase, Owning, Finished
  <2>. QED  BY <1>2, <2>1, MoveOwner
<1>5. ASSUME NEW m \in bus, PluginReject(m) \/ PluginDrop(m)
      PROVE  Remembers /\ GrantedRecorded'
  <2>1. \A d \in Calls, k \in Lines : pc'[d][k] = "granted" => pc[d][k] = "granted"
    <3>1. m.from \in Calls \cup {Nobody} /\ m.line \in Lines
      BY DEF TypeOK, Command
    <3>. QED  BY <1>5, <3>1, MoveOwner DEF PluginReject, PluginDrop, Reply
  <2>. QED  BY <1>2, <1>5, <2>1 DEF PluginReject, PluginDrop
<1>6. CASE UNCHANGED vars
  BY <1>2, <1>6 DEF vars
<1>. QED  BY <1>1, <1>3, <1>4, <1>5, <1>6 DEF Next, PluginStep

(* A step that takes no claim keeps the reasons if each line a call gives   *)
(* up has been recorded or loses its claim.                                 *)
LEMMA ReasonFrame ==
    ASSUME ReasonInv, claims' \subseteq claims, Remembers,
           \A c \in live, l \in Lines : pc[c][l] \in Owning =>
               \/ Recorded(l) \/ KeyOf(c, l) \notin claims'
               \/ c \in live' /\ pc'[c][l] \in Owning /\ target'[c] = target[c]
    PROVE  ClaimHasReason'
<1> SUFFICES ASSUME NEW k \in claims', ~Recorded(k[1])'
             PROVE  \E c \in live' : pc'[c][k[1]] \in Owning /\ KeyOf(c, k[1])' = k
  BY DEF ClaimHasReason, Reason
<1>1. k \in claims /\ k[1] \in Lines
  BY DEF ReasonInv, AwaitInv, TypeOK, Keys
<1>2. ~Recorded(k[1])
  BY <1>1 DEF Remembers
<1>3. PICK c \in live : pc[c][k[1]] \in Owning /\ KeyOf(c, k[1]) = k
  BY <1>1, <1>2 DEF ReasonInv, ClaimHasReason, Reason
<1>. QED  BY <1>1, <1>2, <1>3 DEF KeyOf

LEMMA ReasonMove ==
    ASSUME ReasonInv, NEW c \in Calls, NEW l \in Lines, NEW phase, MoveTo(c, l, phase),
           live' = live, target' = target, claims' \subseteq claims, Remembers,
           \/ pc[c][l] \notin Owning \/ phase \in Owning
           \/ Recorded(l) \/ KeyOf(c, l) \notin claims'
    PROVE  ClaimHasReason'
<1>1. TypeOK /\ live \subseteq Calls
  BY DEF ReasonInv, AwaitInv, TypeOK
<1>. QED  BY <1>1, MoveOwner, ReasonFrame

LEMMA ReasonStep ==
    ASSUME NoLostRelease, ReasonInv, [Next]_vars
    PROVE  ReasonInv'
<1>0. /\ TypeOK /\ live \subseteq Calls /\ bus \subseteq Command
      /\ Remembers /\ GrantedRecorded'
  BY GrantedStep DEF ReasonInv, AwaitInv, TypeOK
<1> SUFFICES ClaimHasReason'
  BY <1>0, AwaitStep DEF ReasonInv
<1> USE DEF callVars, pluginVars
<1>1. ASSUME NEW c \in Calls, Receive(c)
      PROVE  ClaimHasReason'
  BY <1>0, <1>1, ReasonFrame DEF Receive, TypeOK
<1>2. ASSUME NEW c \in Calls, Answer(c) \/ Crash(c)
      PROVE  ClaimHasReason'
  <2>1. Answer(c) /\ \A l \in Lines : pc[c][l] \notin Owning
    BY <1>2 DEF NoLostRelease, Crash, Answer, Owning, Finished
  <2>. QED  BY <1>0, <2>1, ReasonFrame DEF Answer, TypeOK
<1>3. ASSUME NEW c \in Calls, NEW l \in Lines, GiftUnresolvable(c, l)
      PROVE  ClaimHasReason'
  BY <1>0, <1>3, ReasonMove DEF GiftUnresolvable, Owning
<1>4. ASSUME NEW c \in Calls, NEW l \in Lines, ClaimLine(c, l)
      PROVE  ClaimHasReason'
  <2>1. CASE MoveTo(c, l, "claimed") /\ claims' = claims \cup {KeyOf(c, l)}
    <3>1. /\ c \in live /\ live' = live /\ target' = target
          /\ pc'[c][l] = "claimed"
          /\ \A d \in Calls, k \in Lines : ~(d = c /\ k = l) => pc'[d][k] = pc[d][k]
          /\ pc[c][l] = "start"
      BY <1>0, <1>4, <2>1, MoveOwner DEF ClaimLine
    <3>2. KeyOf(c, l)[1] = l
      BY DEF KeyOf
    <3>3. ASSUME NEW k \in claims', k # KeyOf(c, l)
          PROVE  Reason(k)'
      <4>1. k \in claims /\ k[1] \in Lines
        BY <1>0, <2>1, <3>3 DEF TypeOK, Keys
      <4>2. CASE Recorded(k[1])
        BY <1>0, <4>1, <4>2 DEF Remembers, Reason
      <4>3. ASSUME NEW d \in live, pc[d][k[1]] \in Owning, KeyOf(d, k[1]) = k
            PROVE  pc'[d][k[1]] \in Owning /\ KeyOf(d, k[1])' = k
        BY <1>0, <3>1, <4>1, <4>3 DEF KeyOf, Owning
      <4>. QED  BY <3>1, <4>1, <4>2, <4>3 DEF ReasonInv, ClaimHasReason, Reason
    <3>4. pc'[c][KeyOf(c, l)[1]] \in Owning /\ KeyOf(c, l)' = KeyOf(c, l)
      BY <3>1 DEF KeyOf, Owning
    <3>. QED  BY <2>1, <3>1, <3>2, <3>3, <3>4 DEF ClaimHasReason, Reason
  <2>2. CASE claims' = claims /\ \E phase : MoveTo(c, l, phase)
    BY <1>0, <1>4, <2>2, ReasonMove DEF ClaimLine, Owning
  <2>. QED  BY <1>4, <2>1, <2>2 DEF ClaimLine
<1>5. ASSUME NEW c \in Calls, NEW l \in Lines, LedgerQueued(c, l) \/ Send(c, l) \/ FailLine(c, l)
      PROVE  ClaimHasReason'
  BY <1>0, <1>5, ReasonMove DEF LedgerQueued, Send, FailLine, Owning
<1>6. ASSUME NEW c \in Calls, NEW l \in Lines, Confirm(c, l)
      PROVE  ClaimHasReason'
  BY <1>0, <1>6, ReasonMove DEF Confirm, ReasonInv, GrantedRecorded
<1>7. ASSUME NEW c \in Calls, NEW l \in Lines, ReleaseLine(c, l)
      PROVE  ClaimHasReason'
  BY <1>0, <1>7, ReasonMove DEF ReleaseLine, NoLostRelease
<1>8. ASSUME NEW m \in bus, PluginStep(m)
      PROVE  ClaimHasReason'
  <2>1. live' = live /\ target' = target /\ claims' = claims
    BY <1>8 DEF PluginStep, PluginGrant, PluginReject, PluginDrop
  <2>2. CASE pc' = pc
    BY <1>0, <2>1, <2>2, ReasonFrame
  <2>3. CASE m.from # Nobody /\ \E phase \in Owning : MoveTo(m.from, m.line, phase)
    <3>1. m.from \in Calls /\ m.line \in Lines
      BY <1>0, <2>3 DEF Command
    <3>. QED  BY <1>0, <2>1, <2>3, <3>1, ReasonMove
  <2>. QED  BY <1>8, <2>2, <2>3 DEF PluginStep, PluginGrant, PluginReject, PluginDrop, Reply, Owning
<1>9. CASE UNCHANGED vars
  BY <1>0, <1>9, ReasonFrame DEF vars
<1>. QED
  BY <1>1, <1>2, <1>3, <1>4, <1>5, <1>6, <1>7, <1>8, <1>9 DEF Next, LineStep

(* No claim row outlives its reason, over any number of overlapping posts,  *)
(* also when claims fail open and ledger writes are lost.                   *)
THEOREM ClaimsHaveReasons ==
    ASSUME NoLostRelease
    PROVE  Spec => []NoOrphanClaim
<1>1. ReasonInv /\ [Next]_vars => ReasonInv'
  BY ReasonStep
<1>2. ReasonInv /\ GoodsInv => NoOrphanClaim
  BY DEF ReasonInv, AwaitInv, TypeOK, Keys, ClaimHasReason, Reason, Recorded, NoOrphanClaim,
         GoodsInv, RegistryMatches
<1>. QED  BY <1>1, <1>2, ReasonInit, GoodsInvariant, PTL DEF Spec

-----------------------------------------------------------------------------
(* With one call at a time a claim that is found taken is no other call's   *)
(* work in progress: the line was recorded.  So a line that is through      *)
(* without failing was recorded, and so were all lines when PayNow is told  *)
(* that the order is done.                                                  *)
OneCall == \A c, d \in Calls : c = d

Through == {"skipped", "dispatched"}
ThroughRecorded == \A c \in Calls, l \in KnownLines : pc[c][l] \in Through => Recorded(l)
SettledRecorded == settled => \A l \in KnownLines : Recorded(l)

SettledInv == ReasonInv /\ ThroughRecorded /\ SettledRecorded

LEMMA SettledInit == Init => SettledInv
<1> SUFFICES ASSUME Init
             PROVE  SettledInv
  OBVIOUS
<1>1. \A l \in KnownLines : Fresh[l] = "start"
  BY DEF Fresh, KnownLines
<1>2. \A c \in Calls : pc[c] = Fresh
  BY DEF Init
<1>. QED
  BY <1>1, <1>2, ReasonInit
     DEF Init, SettledInv, ThroughRecorded, SettledRecorded, Through

LEMMA SettledFrame ==
    ASSUME SettledInv, Remembers,
           \A c \in Calls, l \in KnownLines :
               pc'[c][l] \in Through => pc[c][l] \in Through \/ Recorded(l),
           settled' => settled \/ \A l \in KnownLines : Recorded(l)
    PROVE  ThroughRecorded' /\ SettledRecorded'
<1>1. \A l \in KnownLines : Recorded(l) => Recorded(l)'
  BY DEF Remembers, KnownLines
<1>. QED  BY <1>1 DEF SettledInv, ThroughRecorded, SettledRecorded

LEMMA SettledMove ==
    ASSUME SettledInv, NEW c \in Calls, NEW l \in Lines, NEW phase, MoveTo(c, l, phase),
           phase \notin Through \/ Recorded(l), Remembers, settled' = settled
    PROVE  ThroughRecorded' /\ SettledRecorded'
<1>1. TypeOK
  BY DEF SettledInv, ReasonInv, AwaitInv
<1>. QED  BY <1>1, MoveOwner, SettledFrame DEF KnownLines

(* All lines of a call that ends without a failure have been credited.      *)
LEMMA AllThrough ==
    ASSUME SettledInv, NEW c \in Calls,
           \A l \in Lines : pc[c][l] \in Finished, \A l \in Lines : pc[c][l] # "failed"
    PROVE  \A l \in KnownLines : Recorded(l)
BY DEF SettledInv, ThroughRecorded, Through, Finished, KnownLines

LEMMA SettledStep ==
    ASSUME NoLostRelease, OneCall, SettledInv, [Next]_vars
    PROVE  SettledInv'
<1>0. /\ ReasonInv' /\ Remembers /\ TypeOK /\ live \subseteq Calls /\ bus \subseteq Command
      /\ \A l \in KnownLines : l \in Lines /\ Fresh[l] \notin Through
  BY ReasonStep, GrantedStep DEF SettledInv, ReasonInv, AwaitInv, TypeOK, KnownLines, Fresh, Through
<1> USE DEF callVars, pluginVars
<1>2. ASSUME NEW c \in Calls, Receive(c)
      PROVE  ThroughRecorded' /\ SettledRecorded'
  BY <1>0, <1>2, SettledFrame DEF Receive
<1>3. ASSUME NEW c \in Calls, Answer(c)
      PROVE  ThroughRecorded' /\ SettledRecorded'
  <2>1. \A d \in Calls, l \in KnownLines : pc'[d][l] \in Through => pc[d][l] \in Through
    BY <1>0, <1>3 DEF Answer, TypeOK
  <2>2. settled' => settled \/ \A l \in KnownLines : Recorded(l)
    BY <1>3, AllThrough DEF Answer
  <2>. QED  BY <1>0, <1>3, <2>1, <2>2, SettledFrame DEF Answer
<1>4. ASSUME NEW c \in Calls, NEW l \in Lines, ClaimLine(c, l)
      PROVE  ThroughRecorded' /\ SettledRecorded'
  <2>1. CASE MoveTo(c, l, "claimed")
    BY <1>0, <1>4, <2>1, SettledMove DEF ClaimLine, Through
  <2>2. CASE KeyOf(c, l) \in claims /\ MoveTo(c, l, "skipped")
    <3>1. \A d \in live : pc[d][l] \notin Owning
      BY <1>0, <1>4 DEF OneCall, ClaimLine, Owning
    <3>2. Recorded(l)
      BY <2>2, <3>1 DEF SettledInv, ReasonInv, ClaimHasReason, Reason, KeyOf
    <3>. QED  BY <1>0, <1>4, <2>2, <3>2, SettledMove DEF ClaimLine
  <2>. QED  BY <1>4, <2>1, <2>2 DEF ClaimLine
<1>5. ASSUME NEW c \in Calls, NEW l \in Lines, Confirm(c, l)
      PROVE  ThroughRecorded' /\ SettledRecorded'
  BY <1>0, <1>5, SettledMove DEF Confirm, SettledInv, ReasonInv, GrantedRecorded
<1>6. ASSUME NEW c \in Calls, NEW l \in Lines,
             \/ GiftUnresolvable(c, l) \/ LedgerQueued(c, l) \/ Send(c, l)
             \/ FailLine(c, l) \/ ReleaseLine(c, l)
      PROVE  ThroughRecorded' /\ SettledRecorded'
  BY <1>0, <1>6, SettledMove DEF GiftUnresolvable, LedgerQueued, Send, FailLine, ReleaseLine, Through
<1>7. ASSUME NEW m \in bus, PluginStep(m)
      PROVE  ThroughRecorded' /\ SettledRecorded'
  <2>1. settled' = settled
    BY <1>7 DEF PluginStep, PluginGrant, PluginReject, PluginDrop
  <2>2. CASE pc' = pc
    BY <1>0, <2>1, <2>2, SettledFrame
  <2>3. CASE m.from # Nobody /\ \E phase \in Owning : MoveTo(m.from, m.line, phase)
    <3>1. m.from \in Calls /\ m.line \in Lines /\ Owning \cap Through = {}
      BY <1>0, <2>3 DEF Command, Owning, Through
    <3>. QED  BY <1>0, <2>1, <2>3, <3>1, SettledMove
  <2>. QED  BY <1>7, <2>2, <2>3 DEF PluginStep, PluginGrant, PluginReject, PluginDrop, Reply, Owning
<1>8. ASSUME UNCHANGED vars
      PROVE  ThroughRecorded' /\ SettledRecorded'
  BY <1>0, <1>8, SettledFrame DEF vars
<1>9. \A c \in Calls : ~Crash(c)
  BY DEF NoLostRelease, Crash
<1>. QED
  BY <1>0, <1>2, <1>3, <1>4, <1>5, <1>6, <1>7, <1>8, <1>9 DEF Next, LineStep, SettledInv

(* What PayNow was told, or a call is through with, is recorded delivered.  *)
THEOREM SettledInvariant ==
    ASSUME NoLostRelease, OneCall
    PROVE  Spec => []SettledInv
<1>1. SettledInv /\ [Next]_vars => SettledInv'
  BY SettledStep
<1>. QED  BY <1>1, SettledInit, PTL DEF Spec

(* PayNow hears a 2xx, and stops posting, only when every known line of the *)
(* order has been credited: for any number of lines, failures and retries.  *)
THEOREM ToldDoneIsDelivered ==
    ASSUME NoLostRelease, OneCall
    PROVE  Spec => []SettledIsDelivered
<1>1. SettledInv /\ GoodsInv => SettledIsDelivered
  BY DEF SettledInv, SettledRecorded, Recorded, SettledIsDelivered, GoodsInv, RegistryMatches, KnownLines
<1>. QED  BY <1>1, SettledInvariant, GoodsInvariant, PTL

-----------------------------------------------------------------------------
(* The refinement.  Only two steps show in the promise: the game server     *)
(* records a transaction of a known line, and a call tells PayNow "done".   *)
LEMMA PromiseInit == Init => Promise!Init
<1> SUFFICES ASSUME Init
             PROVE  Promise!Init
  OBVIOUS
<1>1. \A l \in KnownLines : ItemOf(l) = "owed"
  BY DEF Init, ItemOf, HasGoods, KnownLines, TxIds
<1>. QED  BY <1>1 DEF Init, Promise!Init

(* No step but a refund writes "refunded".                                  *)
NothingRefunded == \A t \in TxIds : registry[t] # "refunded"

LEMMA NothingRefundedStep ==
    ASSUME TypeOK, NothingRefunded, [Next]_vars
    PROVE  NothingRefunded'
<1> USE DEF callVars, pluginVars
<1>1. ASSUME NEW m \in bus, PluginGrant(m)
      PROVE  NothingRefunded'
  <2>1. m.line \in Lines /\ TxId(m.line) \in TxIds
    BY DEF TypeOK, Command, TxIds
  <2>. QED  BY <1>1, <2>1 DEF PluginGrant, NothingRefunded, TypeOK
<1>2. CASE registry' = registry
  BY <1>2 DEF NothingRefunded
<1>. QED
  BY <1>1, <1>2, ZenonT(30) DEF Next, Receive, Answer, Crash, LineStep, GiftUnresolvable, ClaimLine,
     LedgerQueued, Send, Confirm, FailLine, ReleaseLine, PluginStep, PluginReject, PluginDrop, vars

(* A transaction that is recorded delivers its line and changes no other.   *)
LEMMA GrantDelivers ==
    ASSUME TypeOK, \A k \in goods : registry[TxId(k[1])] # "none",
           NEW m \in bus, PluginGrant(m), registry[TxId(m.line)] = "none"
    PROVE  /\ m.line \in Lines /\ ItemOf(m.line) = "owed" /\ ItemOf(m.line)' = "delivered"
           /\ \A l \in Lines \ {m.line} : ItemOf(l)' = ItemOf(l)
<1>1. /\ m.line \in Lines /\ m.player \in Players
      /\ registry' = [registry EXCEPT ![TxId(m.line)] = "recorded"]
      /\ goods' = goods \cup {<<m.line, m.player>>}
      /\ \A l \in Lines : TxId(l) \in TxIds
  BY DEF PluginGrant, TypeOK, Command, TxIds
<1>2. ASSUME NEW l \in Lines \ {m.line}
      PROVE  ItemOf(l)' = ItemOf(l)
  <2>1. TxId(l) # TxId(m.line)
    BY <1>1, TxIdInjective
  <2>2. registry'[TxId(l)] = registry[TxId(l)]
    BY <1>1, <2>1 DEF TypeOK
  <2>3. HasGoods(l)' <=> HasGoods(l)
    BY <1>1 DEF HasGoods
  <2>. QED  BY <2>2, <2>3 DEF ItemOf
<1>3. ~HasGoods(m.line)
  BY DEF HasGoods
<1>4. HasGoods(m.line)' /\ registry'[TxId(m.line)] = "recorded"
  BY <1>1 DEF HasGoods, TypeOK
<1>. QED  BY <1>1, <1>2, <1>3, <1>4 DEF ItemOf

LEMMA PromiseStep ==
    ASSUME SettledInv, GoodsInv, NothingRefunded, [Next]_vars
    PROVE  [Promise!Next]_(Promise!promise)
<1>0. /\ TypeOK /\ \A l \in KnownLines : l \in Lines
      /\ \A k \in goods : registry[TxId(k[1])] # "none"
  BY DEF SettledInv, ReasonInv, AwaitInv, GoodsInv, RegistryMatches, KnownLines
<1> USE DEF callVars, pluginVars
<1>1. CASE UNCHANGED <<registry, goods, settled>>
  BY <1>1 DEF Promise!promise, ItemOf, HasGoods
<1>2. ASSUME NEW c \in Calls, Answer(c)
      PROVE  [Promise!Next]_(Promise!promise)
  <2>1. CASE UNCHANGED settled
    BY <1>1, <1>2, <2>1 DEF Answer
  <2>2. CASE settled' = TRUE /\ \A l \in Lines : pc[c][l] # "failed"
    <3>1. \A l \in KnownLines : ItemOf(l) # "owed"
      BY <1>0, <1>2, <2>2, AllThrough DEF Answer, ItemOf, Recorded, GoodsInv, RegistryMatches
    <3>2. UNCHANGED [l \in KnownLines |-> ItemOf(l)]
      BY <1>2 DEF Answer, ItemOf, HasGoods
    <3>. QED  BY <2>2, <3>1, <3>2 DEF Promise!Next, Promise!Settle
  <2>. QED  BY <1>2, <2>1, <2>2 DEF Answer
<1>3. ASSUME NEW m \in bus, PluginGrant(m), registry[TxId(m.line)] = "none"
      PROVE  [Promise!Next]_(Promise!promise)
  <2>1. /\ m.line \in Lines /\ ItemOf(m.line) = "owed" /\ ItemOf(m.line)' = "delivered"
        /\ \A l \in Lines \ {m.line} : ItemOf(l)' = ItemOf(l)
        /\ settled' = settled
    BY <1>0, <1>3, GrantDelivers DEF PluginGrant
  <2>2. CASE m.line \notin KnownLines
    BY <1>0, <2>1, <2>2 DEF Promise!promise
  <2>3. CASE m.line \in KnownLines
    BY <1>0, <2>1, <2>3 DEF Promise!Next, Promise!Deliver
  <2>. QED  BY <2>2, <2>3
<1>. QED
  BY <1>1, <1>2, <1>3, ZenonT(30) DEF Next, Receive, Crash, LineStep, GiftUnresolvable, ClaimLine,
     LedgerQueued, Send, Confirm, FailLine, ReleaseLine, PluginStep, PluginGrant, PluginReject,
     PluginDrop, vars, SettledInv, ReasonInv

(* One call at a time, without a crash or a lost delete, the protocol of    *)
(* claims, ledger, commands, timeouts and retries implements the promise:   *)
(* every line is delivered once, and "done" is said after the last.         *)
THEOREM KeepsPromise ==
    ASSUME NoLostRelease, OneCall
    PROVE  Spec => ImplementsPromise
<1>1. Init => NothingRefunded
  BY DEF Init, NothingRefunded
<1>2. GoodsInv /\ NothingRefunded /\ [Next]_vars => NothingRefunded'
  BY NothingRefundedStep DEF GoodsInv
<1>3. SettledInv /\ GoodsInv /\ NothingRefunded /\ [Next]_vars => [Promise!Next]_(Promise!promise)
  BY PromiseStep
<1>. QED
  BY <1>1, <1>2, <1>3, PromiseInit, SettledInvariant, GoodsInvariant, PTL
     DEF Spec, ImplementsPromise, Promise!Spec
=============================================================================
