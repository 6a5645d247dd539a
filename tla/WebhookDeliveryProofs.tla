------------------------ MODULE WebhookDeliveryProofs ------------------------
(***************************************************************************)
(* Proofs about WebhookDelivery, for any number of subscribers, events,    *)
(* ticks and tailer passes, any of which may die at any await.             *)
(***************************************************************************)
EXTENDS WebhookDelivery, FiniteSetTheorems, TLAPS

-----------------------------------------------------------------------------
(* The inductive invariants.                                                *)

(* An open row has an attempt left; a row that is not there counts none.    *)
AttemptsLeft ==
    \A r \in Rows : /\ status[r] \in Open => attempt[r] < MaxAttempts
                    /\ status[r] = "absent" => attempt[r] = 0

(* What a tick knows of the row in its hands.                               *)
OutcomesFit ==
    \A d \in Ticks :
        /\ tick[d].phase = "kill" => tick[d].outcome = "gone"
        /\ tick[d].phase = "mark" => tick[d].outcome # "none"
        /\ (tick[d].phase = "mark" /\ tick[d].outcome = "failed")
              => tick[d].read[tick[d].row] + 1 < MaxAttempts

(* A tick has time for each of its rows and no more: Batch in all.          *)
TimeLeft(t) == Cardinality(t.todo) + IF t.phase \in {"claim", "post"} /\ ~t.spent THEN 1 ELSE 0
TicksEnd == \A d \in Ticks : tick[d].age + TimeLeft(tick[d]) <= Batch

(* A pass works through the rows behind the cursor it read.                 *)
PassesAdvance ==
    \A t \in Tailers : tail[t].phase \in {"subs", "queue"} =>
        tail[t].from < tail[t].next /\ tail[t].next <= tail[t].upTo

RowInv == TypeOK /\ AttemptsLeft /\ OutcomesFit /\ TicksEnd /\ PassesAdvance

(* Nothing is queued for a subscriber that has not registered.              *)
Known(s) == sub[s] # "none"
OnlyKnown ==
    /\ \A r \in Rows : status[r] # "absent" => Known(r[1])
    /\ \A d \in Ticks : \A r \in tick[d].todo : Known(r[1])
    /\ \A d \in Ticks : tick[d].row # NoRow => Known(tick[d].row[1])
    /\ \A t \in Tailers : \A s \in tail[t].to : Known(s)

(* A tick holds the row it has POSTed until it has written the answer, and  *)
(* its lease runs from the start of the tick.                               *)
Holds(d, r) ==
    /\ tick[d].row = r
    /\ \/ tick[d].phase \in {"post", "kill"}
       \/ tick[d].phase = "mark" /\ tick[d].outcome # "inactive"

Leased(d, r) == status[r] = "dead" \/ (status[r] = "sending" /\ timer[r] = Lease - tick[d].age)

LeaseHeld ==
    \A d \in Ticks, r \in Rows : (Present(r[1]) /\ Holds(d, r)) =>
        /\ Leased(d, r)
        /\ \A e \in Ticks : Holds(e, r) => e = d

LeaseInv == RowInv /\ OnlyKnown /\ LeaseHeld

(* Attempts are POSTs that were made, and a tick that gives a row up without *)
(* them has seen that its subscriber is not active; it never is again.      *)
Inactive(s) == sub[s] \notin {"none", "active"}
PostsCounted ==
    /\ \A r \in Rows : attempt[r] <= posts[r]
    /\ \A d \in Ticks, r \in Rows :
          /\ tick[d].read[r] <= posts[r]
          /\ Holds(d, r) => tick[d].read[r] + 1 <= posts[r]
          /\ (Holds(d, r) /\ tick[d].phase = "mark" /\ tick[d].outcome = "dead")
                => posts[r] >= MaxAttempts
InactiveSeen ==
    \A d \in Ticks :
        /\ \A s \in Subs : tick[d].seen[s] = "inactive" => Inactive(s)
        /\ (tick[d].phase = "mark" /\ tick[d].outcome \in {"inactive", "gone"})
              => Inactive(tick[d].row[1])

DeadInv == RowInv /\ OnlyKnown /\ PostsCounted /\ InactiveSeen /\ DeadIsEarned

(* A pass has queued every event it leaves behind.                          *)
Queued(s, e) ==
    ( /\ sub[s] = "active" /\ <<s, e>> \in Wants
      /\ e > since[s] /\ e > origin /\ e \notin lost ) => status[<<s, e>>] # "absent"

Behind(p, e) ==
    \/ p.phase = "rows" /\ e <= p.from
    \/ p.phase \in {"subs", "queue"} /\ e < p.next
    \/ p.phase = "save" /\ e <= p.upTo

CursorInv ==
    /\ RowInv
    /\ \A s \in Subs, e \in Feed : e <= cursor => Queued(s, e)
    /\ \A t \in Tailers, s \in Subs, e \in Feed : Behind(tail[t], e) => Queued(s, e)
    /\ \A t \in Tailers, s \in Subs :
          ( /\ tail[t].phase = "queue" /\ sub[s] = "active"
            /\ <<s, tail[t].next>> \in Wants /\ since[s] < tail[t].next ) => s \in tail[t].to

-----------------------------------------------------------------------------
(* Facts about the operators.                                               *)
LEMMA RowParts ==
    /\ NoRow \notin Rows
    /\ \A r \in Rows : r[1] \in Subs
    /\ \A s \in Subs, e \in Events : <<s, e>> \in Rows /\ <<s, e>>[1] = s
BY DEF NoRow, Rows

LEMMA RowsFinite == IsFiniteSet(Rows)
<1>1. IsFiniteSet(Feed)
  BY FS_Interval, WebhookAssumption DEF Feed
<1>2. IsFiniteSet(Events)
  BY <1>1, FS_Union, WebhookAssumption DEF Events
<1>. QED  BY <1>2, FS_Product, WebhookAssumption DEF Rows

LEMMA Counted ==
    ASSUME NEW S \in SUBSET Rows
    PROVE  /\ IsFiniteSet(S) /\ Cardinality(S) \in Nat
           /\ \A r \in S : Cardinality(S \ {r}) = Cardinality(S) - 1
BY RowsFinite, FS_Subset, FS_CardinalityType, FS_RemoveElement

(* A selection is of due rows, Batch at most.                               *)
LEMMA SelectionBound ==
    ASSUME NEW S \in Selections
    PROVE  /\ S \in SUBSET Rows /\ Cardinality(S) <= Batch
           /\ \A r \in S : Due(r, 0)
<1>1. Cardinality({r \in Rows : Due(r, 0)}) \in Nat
  BY Counted
<1>. QED  BY <1>1, WebhookAssumption DEF Selections

LEMMA DelayType == ASSUME NEW n \in Nat \ {0} PROVE Delay(n) \in Nat \ {0}
<1>1. /\ Len(Delays) \in Nat \ {0}
      /\ \A i \in 1 .. Len(Delays) : Delays[i] \in Nat \ {0}
  BY WebhookAssumption
<1>. QED  BY <1>1 DEF Delay

LEMMA IdleIs ==
    /\ Idle \in Tick /\ Idle.phase = "off" /\ Idle.row = NoRow /\ Idle.todo = {}
    /\ Idle.age = 0 /\ Idle.outcome = "none" /\ Idle.spent = FALSE
    /\ \A r \in Rows : Idle.read[r] = 0
    /\ \A s \in Subs : Idle.seen[s] = "unread"
    /\ TimeLeft(Idle) = 0
<1>1. Cardinality({}) = 0
  BY FS_EmptySet
<1>. QED  BY <1>1, WebhookAssumption DEF Idle, Tick, TimeLeft

(* What a tick is left with when it lets go of the row in its hands: the    *)
(* rest of its selection, or nothing.                                       *)
LetsGo(u, t) ==
    /\ u \in Tick /\ u.phase \in {"off", "row"} /\ u.row = NoRow
    /\ u.todo \subseteq t.todo
    /\ u.age + TimeLeft(u) <= Batch
    /\ \A r \in Rows : u.read[r] \in {0, t.read[r]}
    /\ \A s \in Subs : u.seen[s] \in {"unread", t.seen[s]}

LEMMA IdleLetsGo == ASSUME NEW t \in Tick PROVE LetsGo(Idle, t)
BY IdleIs, WebhookAssumption DEF LetsGo

LEMMA RowDoneLetsGo ==
    ASSUME NEW t \in Tick, t.age + TimeLeft(t) <= Batch
    PROVE  LetsGo(RowDone(t), t)
<1>1. CASE t.todo = {}
  BY <1>1, IdleLetsGo DEF RowDone
<1>2. CASE t.todo # {}
  <2>1. RowDone(t) = [t EXCEPT !.phase = "row", !.row = NoRow, !.outcome = "none", !.spent = FALSE]
    BY <1>2 DEF RowDone
  <2>2. Cardinality(t.todo) \in Nat /\ t.age \in Nat
    BY Counted, WebhookAssumption DEF Tick
  <2>3. /\ RowDone(t) \in Tick /\ RowDone(t).phase = "row" /\ RowDone(t).row = NoRow
        /\ RowDone(t).todo = t.todo /\ RowDone(t).age = t.age
        /\ RowDone(t).read = t.read /\ RowDone(t).seen = t.seen
    BY <2>1 DEF Tick
  <2>4. TimeLeft(RowDone(t)) = Cardinality(t.todo)
    BY <2>2, <2>3 DEF TimeLeft
  <2>5. TimeLeft(t) >= Cardinality(t.todo) /\ TimeLeft(t) \in Nat
    BY <2>2 DEF TimeLeft
  <2>. QED  BY <2>2, <2>3, <2>4, <2>5, WebhookAssumption DEF LetsGo
<1>. QED  BY <1>1, <1>2

-----------------------------------------------------------------------------
(* The type invariant, part by part.                                        *)
SubType == /\ sub \in [Subs -> {"none", "active", "dead", "deleting", "gone"}]
           /\ since \in [Subs -> 0 .. FeedLength]

RowType == /\ status \in [Rows -> {"absent"} \cup Open \cup Closed]
           /\ attempt \in [Rows -> 0 .. MaxAttempts]
           /\ timer \in [Rows -> Int] /\ \A r \in Rows : timer[r] >= -Batch
           /\ posts \in [Rows -> 0 .. MaxAttempts]
           /\ AttemptsLeft

TickType == /\ tick \in [Ticks -> Tick]
            /\ \A d \in Ticks : tick[d].phase \in {"off", "row"} <=> tick[d].row = NoRow
            /\ OutcomesFit /\ TicksEnd

FeedType == /\ head \in 0 .. FeedLength /\ cursor \in -1 .. head /\ origin \in 0 .. head
            /\ lost \subseteq Feed
            /\ tail \in [Tailers -> Pass]
            /\ \A t \in Tailers : tail[t].from <= head /\ tail[t].upTo <= head
            /\ PassesAdvance

LEMMA RowInvParts == RowInv <=> SubType /\ RowType /\ TickType /\ FeedType
BY DEF RowInv, TypeOK, SubType, RowType, TickType, FeedType

(* The steps of the feed leave the ticks alone and only queue rows.         *)
FeedStep == Publish \/ \E t \in Tailers : TailStep(t) \/ LoseRow(t) \/ TailerDies(t)
SubStep  == \E s \in Subs : Register(s) \/ Delete(s) \/ DeleteRows(s)
Pinging  == \E s \in Subs, e \in Pings : Ping(s, e)

Queues(rows) ==
    /\ \A r \in rows \cap Rows : \E t \in Tailers : r[1] \in tail[t].to
    /\ Enqueue(rows)

LEMMA FeedFrame ==
    ASSUME FeedStep
    PROVE  /\ UNCHANGED <<sub, since, attempt, timer, posts, tick>>
           /\ UNCHANGED status \/ \E rows : Queues(rows)
<1>1. ASSUME NEW t \in Tailers, QueueRow(t)
      PROVE  /\ UNCHANGED <<sub, since, attempt, timer, posts, tick>>
             /\ Queues({<<s, tail[t].next>> : s \in tail[t].to})
  BY <1>1 DEF QueueRow, Enqueue, Queues
<1>2. ASSUME NEW t \in Tailers,
             \/ ReadCursor(t) \/ ReadHead(t) \/ Seed(t) \/ ReadRows(t) \/ ReadSubs(t)
             \/ SaveCursor(t) \/ LoseRow(t) \/ TailerDies(t)
      PROVE  UNCHANGED <<sub, since, attempt, timer, posts, tick, status>>
  BY <1>2 DEF ReadCursor, ReadHead, Seed, ReadRows, ReadSubs, SaveCursor, LoseRow, TailerDies,
              queueVars
<1>3. ASSUME Publish PROVE UNCHANGED <<sub, since, attempt, timer, posts, tick, status>>
  BY <1>3 DEF Publish, queueVars
<1>. QED  BY <1>1, <1>2, <1>3 DEF FeedStep, TailStep

(* A tick's steps leave the feed alone.                                     *)
DeliveryStep(d) == StartTick(d) \/ TickStep(d) \/ AbortRow(d) \/ TickDies(d)

LEMMA StepCases ==
    [Next]_vars <=> \/ SubStep \/ Pinging \/ Advance \/ FeedStep
                    \/ (\E d \in Ticks : DeliveryStep(d)) \/ UNCHANGED vars
BY DEF Next, SubStep, Pinging, FeedStep, DeliveryStep

(* A step of one tick that leaves it in a legal state keeps TickType.       *)
LEMMA OneTick ==
    ASSUME TickType, NEW d \in Ticks, NEW u \in Tick, tick' = [tick EXCEPT ![d] = u],
           u.phase \in {"off", "row"} <=> u.row = NoRow,
           u.phase = "kill" => u.outcome = "gone",
           u.phase = "mark" => u.outcome # "none",
           (u.phase = "mark" /\ u.outcome = "failed") => u.read[u.row] + 1 < MaxAttempts,
           u.age + TimeLeft(u) <= Batch
    PROVE  TickType'
<1>1. tick'[d] = u /\ \A e \in Ticks \ {d} : tick'[e] = tick[e]
  BY DEF TickType
<1>2. tick' \in [Ticks -> Tick]
  BY DEF TickType
<1>. QED  BY <1>1, <1>2 DEF TickType, OutcomesFit, TicksEnd, TimeLeft

LEMMA LetsGoType ==
    ASSUME TickType, NEW d \in Ticks, NEW u, LetsGo(u, tick[d]), tick' = [tick EXCEPT ![d] = u]
    PROVE  TickType'
BY OneTick DEF LetsGo

(* The steps that let go of a row.                                          *)
LEMMA RowDoneStep ==
    ASSUME TickType, NEW d \in Ticks
    PROVE  LetsGo(RowDone(tick[d]), tick[d]) /\ LetsGo(Idle, tick[d])
BY RowDoneLetsGo, IdleLetsGo DEF TickType, TicksEnd

LEMMA LettingGo ==
    ASSUME TickType, NEW d \in Ticks,
           (ClaimRow(d) /\ ~Due(tick[d].row, tick[d].age)) \/ MarkRow(d) \/ AbortRow(d) \/ TickDies(d)
    PROVE  /\ tick' = [tick EXCEPT ![d] = tick'[d]]
           /\ LetsGo(tick'[d], tick[d])
           /\ UNCHANGED <<sub, since, feedVars, posts>>
<1>1. CASE ClaimRow(d) /\ ~Due(tick[d].row, tick[d].age)
  BY <1>1, RowDoneStep DEF ClaimRow, TickType, queueVars
<1>2. CASE MarkRow(d)
  BY <1>2, RowDoneStep DEF MarkRow, TickType, queueVars
<1>3. CASE AbortRow(d)
  BY <1>3, RowDoneStep DEF AbortRow, TickType, queueVars
<1>4. CASE TickDies(d)
  BY <1>4, RowDoneStep DEF TickDies, TickType, queueVars
<1>. QED  BY <1>1, <1>2, <1>3, <1>4

LEMMA StartIs ==
    ASSUME TickType, RowType, NEW d \in Ticks, StartTick(d)
    PROVE  \E S \in Selections, u \in Tick :
              /\ tick[d].phase = "off"
              /\ tick' = [tick EXCEPT ![d] = u]
              /\ u.phase = "row" /\ u.age = 0 /\ u.todo = S /\ u.row = NoRow
              /\ u.outcome = "none" /\ u.spent = FALSE /\ u.seen = Idle.seen
              /\ u.read = [r \in Rows |-> IF r \in S THEN attempt[r] ELSE 0]
<1>1. PICK S \in Selections \ {{}} :
         tick' = [tick EXCEPT ![d] = [Idle EXCEPT !.phase = "row", !.todo = S,
                      !.read = [r \in Rows |-> IF r \in S THEN attempt[r] ELSE 0]]]
  BY DEF StartTick
<1>2. DEFINE u == [Idle EXCEPT !.phase = "row", !.todo = S,
                      !.read = [r \in Rows |-> IF r \in S THEN attempt[r] ELSE 0]]
<1>3. S \in SUBSET Rows /\ \A r \in S : attempt[r] < MaxAttempts /\ attempt[r] \in Nat
  BY SelectionBound DEF Due, RowType, AttemptsLeft
<1>4. [r \in Rows |-> IF r \in S THEN attempt[r] ELSE 0] \in [Rows -> 0 .. MaxAttempts - 1]
  BY <1>3, WebhookAssumption
<1>5. /\ u \in Tick /\ u.phase = "row" /\ u.age = 0 /\ u.todo = S /\ u.row = NoRow
      /\ u.outcome = "none" /\ u.spent = FALSE /\ u.seen = Idle.seen
      /\ u.read = [r \in Rows |-> IF r \in S THEN attempt[r] ELSE 0]
  BY <1>3, <1>4, IdleIs DEF Tick
<1>. QED  BY <1>1, <1>5 DEF StartTick

LEMMA LookupIs ==
    ASSUME TickType, NEW d \in Ticks, NEW r \in Rows, Lookup(d, r)
    PROVE  \E u \in Tick :
              /\ tick' = [tick EXCEPT ![d] = u]
              /\ tick[d].phase = "row" /\ r \in tick[d].todo
              /\ u.age = tick[d].age /\ u.todo = tick[d].todo \ {r} /\ u.read = tick[d].read
              /\ u.row = r
              /\ \A s \in Subs : u.seen[s] = "inactive" =>
                    tick[d].seen[s] = "inactive" \/ (s = r[1] /\ sub[s] # "active")
              /\ \/ u.phase = "claim" /\ u.outcome = "none" /\ u.spent = tick[d].spent
                 \/ u.phase = "mark" /\ u.outcome = "inactive" /\ u.seen[r[1]] = "inactive"
<1> DEFINE t == tick[d]
           seen == IF t.seen[r[1]] # "unread" THEN t.seen[r[1]]
                   ELSE IF sub[r[1]] = "active" THEN "active" ELSE "inactive"
           u == [t EXCEPT
              !.phase = IF seen = "active" THEN "claim" ELSE "mark",
              !.outcome = IF seen = "active" THEN "none" ELSE "inactive",
              !.seen[r[1]] = seen, !.todo = @ \ {r}, !.row = r]
<1>1. /\ t \in Tick /\ r[1] \in Subs /\ seen \in {"active", "inactive"}
      /\ tick' = [tick EXCEPT ![d] = u]
      /\ tick[d].phase = "row" /\ r \in tick[d].todo
  BY RowParts DEF TickType, Tick, Lookup
<1>2. u.seen = [t.seen EXCEPT ![r[1]] = seen] /\ t.seen \in [Subs -> {"unread", "active", "inactive"}]
  BY <1>1 DEF Tick
<1>3. u \in Tick
  BY <1>1 DEF Tick
<1>4. /\ u.age = tick[d].age /\ u.todo = tick[d].todo \ {r} /\ u.read = tick[d].read
      /\ u.row = r /\ u.spent = tick[d].spent
      /\ u.phase = IF seen = "active" THEN "claim" ELSE "mark"
      /\ u.outcome = IF seen = "active" THEN "none" ELSE "inactive"
  BY <1>1 DEF Tick
<1>5. \A s \in Subs : u.seen[s] = "inactive" =>
                    tick[d].seen[s] = "inactive" \/ (s = r[1] /\ sub[s] # "active")
  BY <1>1, <1>2
<1>6. u.seen[r[1]] = seen
  BY <1>1, <1>2
<1>. QED  BY <1>1, <1>3, <1>4, <1>5, <1>6

(* The steps of a tick that keep the row in hand change only these fields.  *)
With(t, p, o) == [t EXCEPT !.phase = p, !.outcome = o]

LEMMA InHand ==
    ASSUME NEW t \in Tick,
           NEW p \in {"claim", "post", "kill", "mark"},
           NEW o \in {"none", "inactive", "delivered", "gone", "dead", "failed"}
    PROVE  /\ With(t, p, o) \in Tick
           /\ With(t, p, o).phase = p /\ With(t, p, o).outcome = o
           /\ With(t, p, o).row = t.row /\ With(t, p, o).age = t.age
           /\ With(t, p, o).todo = t.todo /\ With(t, p, o).read = t.read
           /\ With(t, p, o).seen = t.seen /\ With(t, p, o).spent = t.spent
BY DEF With, Tick

LEMMA ClaimIs ==
    ASSUME TickType, NEW d \in Ticks, ClaimRow(d), Due(tick[d].row, tick[d].age)
    PROVE  tick' = [tick EXCEPT ![d] = With(tick[d], "post", tick[d].outcome)]
<1>1. tick[d] \in Tick /\ tick' = [tick EXCEPT ![d].phase = "post"]
  BY DEF ClaimRow, TickType
<1>2. [tick[d] EXCEPT !.phase = "post", !.outcome = tick[d].outcome]
         = [tick[d] EXCEPT !.phase = "post"]
  BY <1>1 DEF Tick
<1>. QED  BY <1>1, <1>2 DEF TickType, With

LEMMA RespondIs ==
    ASSUME TickType, NEW d \in Ticks, NEW answer \in {"ok", "gone", "error"}, Respond(d, answer)
    PROVE  LET n == tick[d].read[tick[d].row] + 1
               o == Verdict(answer, n)
           IN  /\ o \in {"delivered", "gone", "dead", "failed"}
               /\ o = "failed" => n < MaxAttempts
               /\ o = "dead" => n >= MaxAttempts
               /\ tick[d].row \in Rows /\ n \in Nat /\ tick[d].phase = "post"
               /\ tick' = [tick EXCEPT ![d] = With(tick[d], IF o = "gone" THEN "kill" ELSE "mark", o)]
<1>1. /\ tick[d] \in Tick /\ tick[d].phase = "post" /\ tick[d].row \in Rows
  BY DEF TickType, Tick, Respond
<1>2. tick[d].read[tick[d].row] + 1 \in Nat
  BY <1>1, WebhookAssumption DEF Tick
<1> DEFINE o == Verdict(answer, tick[d].read[tick[d].row] + 1)
<1>3. tick' = [tick EXCEPT ![d].phase = IF o = "gone" THEN "kill" ELSE "mark", ![d].outcome = o]
  BY DEF Respond
<1>4. tick' = [tick EXCEPT ![d] = With(tick[d], IF o = "gone" THEN "kill" ELSE "mark", o)]
  BY <1>1, <1>3 DEF With, TickType
<1>. QED  BY <1>1, <1>2, <1>4, WebhookAssumption DEF Verdict

LEMMA KillIs ==
    ASSUME TickType, NEW d \in Ticks, KillSubscriber(d)
    PROVE  /\ tick[d].outcome = "gone" /\ tick[d].row \in Rows
           /\ tick' = [tick EXCEPT ![d] = With(tick[d], "mark", "gone")]
<1>1. /\ tick[d] \in Tick /\ tick' = [tick EXCEPT ![d].phase = "mark"]
      /\ tick[d].outcome = "gone" /\ tick[d].row \in Rows
  BY DEF KillSubscriber, TickType, OutcomesFit, Tick
<1>2. [tick[d] EXCEPT !.phase = "mark", !.outcome = "gone"] = [tick[d] EXCEPT !.phase = "mark"]
  BY <1>1 DEF Tick
<1>. QED  BY <1>1, <1>2 DEF TickType, With

LEMMA TimeLeftType ==
    ASSUME NEW t \in Tick
    PROVE  Cardinality(t.todo) \in Nat /\ TimeLeft(t) \in Nat /\ t.age \in Nat
<1>1. Cardinality(t.todo) \in Nat
  BY Counted DEF Tick
<1>. QED  BY <1>1, WebhookAssumption DEF TimeLeft, Tick

(* A tick that has answered has no less time for the rest.                  *)
LEMMA LessTime ==
    ASSUME NEW t \in Tick, NEW u \in Tick, u.todo = t.todo,
           u.phase \in {"kill", "mark"} \/ (t.phase = "claim" /\ u.spent = t.spent)
    PROVE  TimeLeft(u) <= TimeLeft(t)
<1>1. Cardinality(t.todo) \in Nat
  BY TimeLeftType
<1>2. CASE u.phase \in {"kill", "mark"}
  <2>1. TimeLeft(u) = Cardinality(t.todo)
    BY <1>1, <1>2 DEF TimeLeft
  <2>. QED  BY <1>1, <2>1 DEF TimeLeft
<1>3. CASE t.phase = "claim" /\ u.spent = t.spent
  BY <1>1, <1>3 DEF TimeLeft
<1>. QED  BY <1>2, <1>3

LEMMA TickTypeDelivery ==
    ASSUME TickType, RowType, NEW d \in Ticks, DeliveryStep(d)
    PROVE  TickType'
<1>0. tick[d] \in Tick /\ tick[d].age + TimeLeft(tick[d]) <= Batch
  BY DEF TickType, TicksEnd
<1>1. CASE StartTick(d)
  <2>1. PICK S \in Selections, u \in Tick :
              /\ tick' = [tick EXCEPT ![d] = u]
              /\ u.phase = "row" /\ u.age = 0 /\ u.todo = S /\ u.row = NoRow
    BY <1>1, StartIs
  <2>2. u.age + TimeLeft(u) <= Batch
    BY <2>1, SelectionBound, Counted DEF TimeLeft
  <2>. QED  BY <2>1, <2>2, OneTick
<1>2. ASSUME NEW r \in Rows, Lookup(d, r) PROVE TickType'
  <2>1. PICK u \in Tick :
              /\ tick' = [tick EXCEPT ![d] = u]
              /\ tick[d].phase = "row" /\ r \in tick[d].todo
              /\ u.age = tick[d].age /\ u.todo = tick[d].todo \ {r} /\ u.read = tick[d].read
              /\ u.row = r
              /\ \/ u.phase = "claim" /\ u.outcome = "none" /\ u.spent = tick[d].spent
                 \/ u.phase = "mark" /\ u.outcome = "inactive" /\ u.seen[r[1]] = "inactive"
    BY <1>2, LookupIs
  <2>2. /\ Cardinality(u.todo) = Cardinality(tick[d].todo) - 1
        /\ Cardinality(tick[d].todo) \in Nat
    BY <1>0, <2>1, Counted DEF Tick
  <2>3. u.age + TimeLeft(u) <= Batch
    BY <1>0, <2>1, <2>2, TimeLeftType, WebhookAssumption, SMTT(30) DEF TimeLeft
  <2>4. u.row # NoRow
    BY <2>1, RowParts
  <2>. QED  BY <2>1, <2>3, <2>4, OneTick
<1>3. CASE ClaimRow(d) /\ Due(tick[d].row, tick[d].age)
  <2> DEFINE u == With(tick[d], "post", tick[d].outcome)
  <2>0. tick[d].phase = "claim"
    BY <1>3 DEF ClaimRow
  <2>3. tick[d].row # NoRow /\ tick[d].outcome \in {"none", "inactive", "delivered", "gone", "dead", "failed"}
    BY <1>0, <2>0 DEF TickType, Tick
  <2>4. tick' = [tick EXCEPT ![d] = u]
    BY <1>3, ClaimIs
  <2>1. /\ u \in Tick
        /\ u.phase = "post" /\ u.row = tick[d].row /\ u.age = tick[d].age
        /\ u.todo = tick[d].todo /\ u.spent = tick[d].spent
    BY <1>0, <2>3, InHand
  <2> HIDE DEF u
  <2>2. u.age + TimeLeft(u) <= Batch
    <3>1. TimeLeft(u) <= TimeLeft(tick[d])
      BY <1>0, <2>0, <2>1, LessTime
    <3>2. TimeLeft(u) \in Nat /\ TimeLeft(tick[d]) \in Nat /\ tick[d].age \in Nat
      BY <1>0, <2>1, TimeLeftType
    <3>. QED  BY <1>0, <2>1, <3>1, <3>2, WebhookAssumption, SMTT(30)
  <2>. QED  BY <2>1, <2>2, <2>3, <2>4, OneTick
<1>4. ASSUME NEW answer \in {"ok", "gone", "error"}, Respond(d, answer) PROVE TickType'
  <2> DEFINE n == tick[d].read[tick[d].row] + 1
             o == Verdict(answer, n)
             p == IF o = "gone" THEN "kill" ELSE "mark"
             u == With(tick[d], p, o)
  <2>0. /\ o \in {"delivered", "gone", "dead", "failed"}
        /\ o = "failed" => n < MaxAttempts
        /\ tick[d].phase = "post" /\ tick[d].row # NoRow
        /\ tick' = [tick EXCEPT ![d] = u]
    BY <1>4, RespondIs, RowParts
  <2> HIDE DEF o
  <2>1. /\ u \in Tick
        /\ u.phase = p /\ u.outcome = o /\ u.row = tick[d].row /\ u.age = tick[d].age
        /\ u.todo = tick[d].todo /\ u.read = tick[d].read
    BY <1>0, <2>0, InHand
  <2> HIDE DEF u
  <2>2. u.age + TimeLeft(u) <= Batch
    BY <1>0, <2>0, <2>1, LessTime, TimeLeftType, WebhookAssumption
  <2>. QED  BY <2>0, <2>1, <2>2, OneTick
<1>5. CASE KillSubscriber(d)
  <2> DEFINE u == With(tick[d], "mark", "gone")
  <2>0. /\ tick[d].row # NoRow /\ tick[d].phase = "kill" /\ tick' = [tick EXCEPT ![d] = u]
    BY <1>5, KillIs, RowParts DEF KillSubscriber
  <2>1. /\ u \in Tick
        /\ u.phase = "mark" /\ u.outcome = "gone" /\ u.row = tick[d].row
        /\ u.age = tick[d].age /\ u.todo = tick[d].todo
    BY <1>0, InHand
  <2> HIDE DEF u
  <2>2. u.age + TimeLeft(u) <= Batch
    BY <1>0, <2>0, <2>1, LessTime, TimeLeftType, WebhookAssumption
  <2>. QED  BY <2>0, <2>1, <2>2, OneTick
<1>6. CASE (ClaimRow(d) /\ ~Due(tick[d].row, tick[d].age)) \/ MarkRow(d) \/ AbortRow(d) \/ TickDies(d)
  BY <1>6, LettingGo, LetsGoType
<1>. QED  BY <1>1, <1>2, <1>3, <1>4, <1>5, <1>6 DEF DeliveryStep, TickStep

LEMMA TickTypeAdvance == ASSUME TickType, Advance PROVE TickType'
<1>1. ASSUME NEW d \in Ticks
      PROVE  /\ tick'[d] \in Tick
             /\ tick'[d].phase \in {"off", "row"} <=> tick'[d].row = NoRow
             /\ tick'[d].phase \notin {"kill", "mark"}
             /\ tick'[d].age + TimeLeft(tick'[d]) <= Batch
  <2>1. /\ tick[d] \in Tick /\ tick[d].age + TimeLeft(tick[d]) <= Batch
        /\ tick[d].phase \in {"off", "post"} /\ ~tick[d].spent
    BY DEF TickType, TicksEnd, Advance
  <2>2. CASE tick[d].phase = "off"
    <3>1. tick'[d] = tick[d]
      BY <2>2 DEF Advance
    <3>. QED  BY <2>1, <2>2, <3>1 DEF TickType, TimeLeft
  <2>3. CASE tick[d].phase = "post"
    <3>1. tick'[d] = [tick[d] EXCEPT !.age = @ + 1, !.spent = TRUE]
      BY <2>3 DEF Advance
    <3>2. TimeLeft(tick[d]) = Cardinality(tick[d].todo) + 1 /\ Cardinality(tick[d].todo) \in Nat
      BY <2>1, <2>3, TimeLeftType DEF TimeLeft
    <3>3. /\ tick'[d].age = tick[d].age + 1 /\ tick'[d].spent = TRUE /\ tick'[d].phase = "post"
          /\ tick'[d].todo = tick[d].todo /\ tick'[d].row = tick[d].row
      BY <2>1, <2>3, <3>1 DEF Tick
    <3>4. tick[d].age + 1 \in 0 .. Batch
      BY <2>1, <3>2, TimeLeftType, WebhookAssumption
    <3>5. tick'[d] \in Tick
      BY <2>1, <3>1, <3>4 DEF Tick
    <3>6. TimeLeft(tick'[d]) = Cardinality(tick[d].todo)
      BY <3>2, <3>3 DEF TimeLeft
    <3>7. tick'[d].age + TimeLeft(tick'[d]) <= Batch
      BY <2>1, <3>2, <3>3, <3>6, TimeLeftType, WebhookAssumption
    <3>8. tick[d].row # NoRow
      BY <2>3 DEF TickType
    <3>. QED  BY <3>3, <3>5, <3>7, <3>8
  <2>. QED  BY <2>1, <2>2, <2>3
<1>2. tick' \in [Ticks -> Tick]
  BY <1>1 DEF Advance
<1>. QED  BY <1>1, <1>2 DEF TickType, OutcomesFit, TicksEnd, TimeLeft

(* What the steps of a tick do to the rows: nothing, claim the row in hand, *)
(* or mark it.                                                              *)
LEMMA RowsFrame ==
    ASSUME TickType, NEW d \in Ticks, DeliveryStep(d)
    PROVE  \/ UNCHANGED queueVars
           \/ ClaimRow(d) /\ Due(tick[d].row, tick[d].age) /\ tick[d].row \in Rows
           \/ MarkRow(d) /\ status[tick[d].row] # "absent" /\ tick[d].row \in Rows
<1>1. tick[d].phase \in {"claim", "mark"} => tick[d].row \in Rows
  BY DEF TickType, Tick
<1>. QED  BY <1>1 DEF DeliveryStep, TickStep, StartTick, Lookup, ClaimRow, Respond,
                      KillSubscriber, MarkRow, AbortRow, TickDies, queueVars

LEMMA EnqueueType == ASSUME RowType, NEW rows, Enqueue(rows) PROVE RowType'
BY WebhookAssumption DEF RowType, Enqueue, AttemptsLeft, Open, Closed

LEMMA RowTypeStep ==
    ASSUME SubType, RowType, TickType, FeedType, [Next]_vars
    PROVE  RowType'
<1>1. ASSUME NEW s \in Subs, Register(s) \/ Delete(s) \/ DeleteRows(s) PROVE RowType'
  <2>1. CASE UNCHANGED queueVars
    BY <2>1 DEF queueVars, RowType, AttemptsLeft
  <2>2. CASE DeleteRows(s)
    <3>1. /\ status' = [r \in Rows |-> IF r[1] = s THEN "absent" ELSE status[r]]
          /\ attempt' = [r \in Rows |-> IF r[1] = s THEN 0 ELSE attempt[r]]
          /\ timer' = [r \in Rows |-> IF r[1] = s THEN 0 ELSE timer[r]]
          /\ UNCHANGED posts
      BY <2>2 DEF DeleteRows
    <3>2. timer' \in [Rows -> Int] /\ \A r \in Rows : timer'[r] >= -Batch
      BY <3>1, WebhookAssumption DEF RowType
    <3>3. /\ status' \in [Rows -> {"absent"} \cup Open \cup Closed]
          /\ attempt' \in [Rows -> 0 .. MaxAttempts]
      BY <3>1, WebhookAssumption DEF RowType
    <3>4. AttemptsLeft'
      BY <3>1 DEF RowType, AttemptsLeft, Open
    <3>. QED  BY <3>1, <3>2, <3>3, <3>4 DEF RowType
  <2>. QED  BY <1>1, <2>1, <2>2 DEF Register, Delete
<1>2. CASE Pinging
  BY <1>2, EnqueueType DEF Pinging, Ping
<1>3. CASE Advance
  <2>1. /\ UNCHANGED <<status, attempt, posts>>
        /\ timer' = [r \in Rows |-> IF status[r] \in Open /\ timer[r] > -Batch
                                    THEN timer[r] - 1 ELSE timer[r]]
    BY <1>3 DEF Advance
  <2>2. timer' \in [Rows -> Int] /\ \A r \in Rows : timer'[r] >= -Batch
    BY <2>1, WebhookAssumption DEF RowType
  <2>. QED  BY <2>1, <2>2 DEF RowType, AttemptsLeft
<1>4. CASE FeedStep
  BY <1>4, FeedFrame, EnqueueType DEF RowType, AttemptsLeft, Queues
<1>5. ASSUME NEW d \in Ticks, DeliveryStep(d) PROVE RowType'
  <2> DEFINE t == tick[d]
             r == tick[d].row
             n == tick[d].read[tick[d].row] + 1
  <2>0. t \in Tick /\ t.age \in 0 .. Batch
    BY DEF TickType, Tick
  <2>1. CASE ClaimRow(d) /\ Due(r, t.age) /\ r \in Rows
    <3>1. /\ status' = [status EXCEPT ![r] = "sending"]
          /\ timer' = [timer EXCEPT ![r] = Lease - t.age]
          /\ posts' = [posts EXCEPT ![r] = IF @ < MaxAttempts THEN @ + 1 ELSE @]
          /\ UNCHANGED attempt
      BY <2>1 DEF ClaimRow
    <3>2. status[r] \in Open
      BY <2>1 DEF Due
    <3>3. timer' \in [Rows -> Int] /\ \A q \in Rows : timer'[q] >= -Batch
      BY <2>0, <2>1, <3>1, WebhookAssumption, SMTT(30) DEF RowType
    <3>4. posts' \in [Rows -> 0 .. MaxAttempts]
      BY <2>1, <3>1, WebhookAssumption DEF RowType
    <3>5. status' \in [Rows -> {"absent"} \cup Open \cup Closed]
      BY <3>1 DEF RowType, Open
    <3>6. AttemptsLeft'
      BY <2>1, <3>1, <3>2 DEF RowType, AttemptsLeft
    <3>. QED  BY <3>1, <3>3, <3>4, <3>5, <3>6 DEF RowType
  <2>2. CASE MarkRow(d) /\ status[r] # "absent" /\ r \in Rows
    <3>1. /\ status' = [status EXCEPT ![r] = IF t.outcome \in {"gone", "inactive"} THEN "dead" ELSE t.outcome]
          /\ attempt' = [attempt EXCEPT ![r] = IF t.outcome = "inactive" THEN 0 ELSE n]
          /\ timer' = [timer EXCEPT ![r] = IF t.outcome = "failed" THEN Delay(n) - t.age ELSE 0]
          /\ UNCHANGED posts
          /\ t.phase = "mark"
      BY <2>2 DEF MarkRow
    <3>2. /\ n \in 1 .. MaxAttempts
          /\ t.outcome \in {"inactive", "delivered", "gone", "dead", "failed"}
          /\ t.outcome = "failed" => n < MaxAttempts
      BY <2>0, <2>2, <3>1, WebhookAssumption DEF TickType, OutcomesFit, Tick
    <3>3. Delay(n) \in Nat \ {0}
      BY <3>2, DelayType
    <3> DEFINE w == IF t.outcome = "failed" THEN Delay(n) - t.age ELSE 0
    <3>4. timer' \in [Rows -> Int] /\ \A q \in Rows : timer'[q] >= -Batch
      <4>1. w \in Int /\ w >= -Batch
        BY <2>0, <3>3, WebhookAssumption
      <4>2. timer' = [timer EXCEPT ![r] = w]
        BY <3>1
      <4> HIDE DEF w
      <4>. QED  BY <2>2, <4>1, <4>2 DEF RowType
    <3> DEFINE o == IF t.outcome \in {"gone", "inactive"} THEN "dead" ELSE t.outcome
               m == IF t.outcome = "inactive" THEN 0 ELSE n
    <3>5. /\ o \in {"failed"} \cup Closed
          /\ o = "failed" => m < MaxAttempts
          /\ m \in 0 .. MaxAttempts
      BY <3>2, WebhookAssumption DEF Closed
    <3>6. status' = [status EXCEPT ![r] = o] /\ attempt' = [attempt EXCEPT ![r] = m]
      BY <3>1
    <3> HIDE DEF o, m
    <3>7. /\ status' \in [Rows -> {"absent"} \cup Open \cup Closed]
          /\ attempt' \in [Rows -> 0 .. MaxAttempts]
      BY <2>2, <3>5, <3>6 DEF RowType, Open
    <3>8. AttemptsLeft'
      BY <2>2, <3>5, <3>6 DEF RowType, AttemptsLeft, Open, Closed
    <3>. QED  BY <3>1, <3>4, <3>7, <3>8 DEF RowType
  <2>3. CASE UNCHANGED queueVars
    BY <2>3 DEF queueVars, RowType, AttemptsLeft
  <2>. QED  BY <1>5, <2>1, <2>2, <2>3, RowsFrame
<1>6. CASE UNCHANGED vars
  BY <1>6 DEF vars, queueVars, RowType, AttemptsLeft
<1>. QED  BY <1>1, <1>2, <1>3, <1>4, <1>5, <1>6, StepCases DEF SubStep

LEMMA TickTypeStep ==
    ASSUME SubType, RowType, TickType, FeedType, [Next]_vars
    PROVE  TickType'
<1>1. CASE UNCHANGED tick
  BY <1>1 DEF TickType, OutcomesFit, TicksEnd, TimeLeft
<1>2. CASE SubStep \/ Pinging \/ FeedStep \/ UNCHANGED vars
  BY <1>1, <1>2, FeedFrame DEF SubStep, Register, Delete, DeleteRows, Pinging, Ping, vars
<1>. QED  BY <1>2, TickTypeDelivery, TickTypeAdvance, StepCases

LEMMA SubFrame ==
    ASSUME TickType, NEW d \in Ticks, DeliveryStep(d)
    PROVE  /\ UNCHANGED <<since, feedVars>>
           /\ \/ UNCHANGED sub
              \/ /\ KillSubscriber(d) /\ tick[d].row \in Rows
                 /\ sub' = [sub EXCEPT ![tick[d].row[1]] = IF @ \in {"active", "dead"} THEN "dead" ELSE @]
<1>1. KillSubscriber(d) => tick[d].row \in Rows
  BY KillIs
<1>. QED  BY <1>1 DEF DeliveryStep, TickStep, StartTick, Lookup, ClaimRow, Respond,
                      KillSubscriber, MarkRow, AbortRow, TickDies

LEMMA SubTypeStep ==
    ASSUME SubType, RowType, TickType, FeedType, [Next]_vars
    PROVE  SubType'
<1>1. CASE SubStep
  BY <1>1 DEF SubStep, Register, Delete, DeleteRows, SubType, FeedType
<1>2. ASSUME NEW d \in Ticks, DeliveryStep(d) PROVE SubType'
  BY <1>2, SubFrame, RowParts DEF SubType
<1>3. CASE Pinging \/ Advance \/ FeedStep \/ UNCHANGED vars
  BY <1>3, FeedFrame DEF Pinging, Ping, Advance, vars, SubType
<1>. QED  BY <1>1, <1>2, <1>3, StepCases

(* A step of one pass that leaves it in a legal state keeps FeedType.       *)
LEMMA OnePass ==
    ASSUME FeedType, NEW t \in Tailers, NEW p \in Pass, tail' = [tail EXCEPT ![t] = p],
           p.from <= head, p.upTo <= head,
           p.phase \in {"subs", "queue"} => p.from < p.next /\ p.next <= p.upTo,
           UNCHANGED head, cursor' \in -1 .. head, origin' \in 0 .. head, lost' \subseteq Feed
    PROVE  FeedType'
<1>1. tail'[t] = p /\ \A u \in Tailers \ {t} : tail'[u] = tail[u]
  BY DEF FeedType
<1>2. tail' \in [Tailers -> Pass]
  BY DEF FeedType
<1>. QED  BY <1>1, <1>2 DEF FeedType, PassesAdvance

LEMMA AsleepIs ==
    /\ Asleep \in Pass /\ Asleep.from = 0 /\ Asleep.upTo = 0 /\ Asleep.phase = "off"
    /\ Asleep.to = {}
BY WebhookAssumption DEF Asleep, Pass

LEMMA AsleepStep ==
    ASSUME FeedType, NEW t \in Tailers, tail' = [tail EXCEPT ![t] = Asleep],
           UNCHANGED <<head, lost>>, cursor' \in -1 .. head, origin' \in 0 .. head
    PROVE  FeedType'
<1>1. head \in Nat /\ lost' \subseteq Feed
  BY WebhookAssumption DEF FeedType
<1>2. /\ Asleep \in Pass /\ Asleep.from <= head /\ Asleep.upTo <= head
      /\ Asleep.phase \notin {"subs", "queue"}
  BY <1>1, AsleepIs
<1>. QED  BY <1>1, <1>2, OnePass

(* What is known of a pass before its steps.                                *)
LEMMA PassIs ==
    ASSUME FeedType, NEW t \in Tailers
    PROVE  /\ tail[t] \in Pass /\ tail[t].from \in 0 .. head /\ tail[t].upTo \in 0 .. head
           /\ tail[t].next \in 0 .. FeedLength
           /\ tail[t].phase \in {"subs", "queue"} =>
                 tail[t].from < tail[t].next /\ tail[t].next <= tail[t].upTo
BY WebhookAssumption DEF FeedType, PassesAdvance, Pass

LEMMA ReadRowsIs ==
    ASSUME FeedType, NEW t \in Tailers, ReadRows(t)
    PROVE  /\ tail[t].phase = "rows"
           /\ UNCHANGED <<sub, since, queueVars, tick, head, cursor, origin, lost>>
           /\ \/ tail' = [tail EXCEPT ![t] = Asleep]
              \/ \E p \in Pass : /\ tail' = [tail EXCEPT ![t] = p]
                                 /\ p.phase = "subs" /\ p.from = tail[t].from
                                 /\ p.next = p.from + 1 /\ p.next <= p.upTo /\ p.upTo <= head
                                 /\ p.to = tail[t].to
<1> DEFINE from == tail[t].from
           upTo == IF head - from > Window THEN from + Window ELSE head
           p == [tail[t] EXCEPT !.phase = "subs", !.next = from + 1, !.upTo = upTo]
<1>0. tail[t] \in Pass /\ from \in 0 .. head /\ head \in 0 .. FeedLength
  BY PassIs DEF FeedType
<1>1. upTo <= head /\ upTo \in Int /\ from \in Int /\ 0 <= from /\ head <= FeedLength
  BY <1>0, WebhookAssumption
<1>2. CASE upTo <= from
  BY <1>2 DEF ReadRows
<1>3. CASE ~(upTo <= from)
  <2>1. tail' = [tail EXCEPT ![t] = p]
    BY <1>3 DEF ReadRows, FeedType
  <2> HIDE DEF upTo
  <2>2. from + 1 \in 0 .. FeedLength /\ upTo \in 0 .. FeedLength /\ from + 1 <= upTo
    <3>1. from < upTo /\ upTo \in Int /\ from \in Int /\ 0 <= from /\ upTo <= FeedLength
      BY <1>0, <1>1, <1>3, WebhookAssumption
    <3>. QED  BY <3>1, WebhookAssumption
  <2>3. /\ p \in Pass /\ p.phase = "subs" /\ p.from = tail[t].from
        /\ p.next = p.from + 1 /\ p.upTo = upTo /\ p.to = tail[t].to
    BY <1>0, <2>2 DEF Pass
  <2>4. UNCHANGED <<sub, since, queueVars, tick, head, cursor, origin, lost>> /\ tail[t].phase = "rows"
    BY DEF ReadRows
  <2> HIDE DEF p
  <2>. QED  BY <1>1, <2>1, <2>2, <2>3, <2>4
<1>. QED  BY <1>2, <1>3

LEMMA NextRowIs ==
    ASSUME NEW p \in Pass, p.next <= p.upTo
    PROVE  LET u == NextRow(p) IN
           /\ u \in Pass /\ u.from = p.from /\ u.upTo = p.upTo /\ u.to = {}
           /\ \/ u.phase = "save" /\ p.next = p.upTo
              \/ u.phase = "subs" /\ u.next = p.next + 1 /\ u.next <= u.upTo
<1>1. CASE p.next = p.upTo
  BY <1>1 DEF NextRow, Pass
<1>2. CASE p.next # p.upTo
  <2>1. p.next + 1 \in 0 .. FeedLength /\ p.next + 1 <= p.upTo
    BY <1>2, WebhookAssumption DEF Pass
  <2>2. NextRow(p) = [p EXCEPT !.phase = "subs", !.next = p.next + 1, !.to = {}]
    BY <1>2 DEF NextRow, Pass
  <2>. QED  BY <2>1, <2>2 DEF Pass
<1>. QED  BY <1>1, <1>2

LEMMA FeedTypeStep ==
    ASSUME SubType, RowType, TickType, FeedType, [Next]_vars
    PROVE  FeedType'
<1>1. CASE UNCHANGED feedVars
  BY <1>1 DEF feedVars, FeedType, PassesAdvance
<1>2. CASE SubStep \/ Pinging \/ Advance \/ UNCHANGED vars
  BY <1>1, <1>2 DEF SubStep, Register, Delete, DeleteRows, Pinging, Ping, Advance, vars
<1>3. ASSUME NEW d \in Ticks, DeliveryStep(d) PROVE FeedType'
  BY <1>1, <1>3, SubFrame
<1>4. CASE Publish
  BY <1>4, WebhookAssumption DEF Publish, FeedType, PassesAdvance, Pass
<1>5. ASSUME NEW t \in Tailers, TailStep(t) \/ LoseRow(t) \/ TailerDies(t) PROVE FeedType'
  <2>0. head \in 0 .. FeedLength /\ cursor \in -1 .. head /\ origin \in 0 .. head /\ lost \subseteq Feed
    BY DEF FeedType
  <2>00. /\ tail[t] \in Pass /\ tail[t].from <= head /\ tail[t].upTo <= head
         /\ 0 <= head /\ head \in 0 .. FeedLength
         /\ tail[t].phase \in {"subs", "queue"} =>
                 tail[t].from < tail[t].next /\ tail[t].next <= tail[t].upTo
    BY PassIs, WebhookAssumption DEF FeedType
  <2>1. CASE ReadCursor(t)
    <3> DEFINE p == [tail[t] EXCEPT !.phase = IF cursor = -1 THEN "head" ELSE "rows",
                                    !.from = IF cursor = -1 THEN 0 ELSE cursor]
    <3>1. (IF cursor = -1 THEN 0 ELSE cursor) \in 0 .. FeedLength
      BY <2>0, WebhookAssumption
    <3>2. /\ p \in Pass /\ p.phase \in {"head", "rows"} /\ p.upTo = tail[t].upTo
          /\ p.from = IF cursor = -1 THEN 0 ELSE cursor
      BY <2>00, <3>1 DEF Pass
    <3>4. p.from <= head
      BY <2>0, <2>00, <3>2
    <3>3. tail' = [tail EXCEPT ![t] = p]
      BY <2>1 DEF ReadCursor, FeedType
    <3> HIDE DEF p
    <3>. QED  BY <2>0, <2>00, <2>1, <3>2, <3>3, <3>4, OnePass DEF ReadCursor
  <2>2. CASE ReadHead(t)
    <3> DEFINE p == [tail[t] EXCEPT !.phase = "seed", !.upTo = head]
    <3>1. p \in Pass /\ p.phase = "seed" /\ p.from = tail[t].from /\ p.upTo = head
      BY <2>00 DEF Pass
    <3>2. tail' = [tail EXCEPT ![t] = Asleep] \/ tail' = [tail EXCEPT ![t] = p]
      BY <2>2 DEF ReadHead, FeedType
    <3> HIDE DEF p
    <3>3. p.from <= head /\ p.upTo <= head
      BY <2>00, <3>1
    <3>. QED  BY <2>0, <2>2, <3>1, <3>2, <3>3, OnePass, AsleepStep DEF ReadHead
  <2>3. CASE Seed(t)
    <3>1. tail[t].upTo \in 0 .. head
      BY PassIs
    <3>2. cursor' \in -1 .. head /\ origin' \in 0 .. head
      BY <2>0, <2>3, <3>1 DEF Seed
    <3>. QED  BY <2>3, <3>2, AsleepStep DEF Seed
  <2>4. CASE ReadRows(t)
    BY <2>0, <2>4, ReadRowsIs, PassIs, OnePass, AsleepStep
  <2>5. CASE ReadSubs(t)
    <3> DEFINE S == {s \in Subs : sub[s] = "active" /\ <<s, tail[t].next>> \in Wants}
               p == [tail[t] EXCEPT !.phase = "queue", !.to = S]
    <3>1. S \in SUBSET Subs /\ tail' = [tail EXCEPT ![t] = p] /\ tail[t].phase = "subs"
      BY <2>5 DEF ReadSubs, FeedType
    <3> HIDE DEF S
    <3>2. /\ p \in Pass /\ p.from = tail[t].from /\ p.next = tail[t].next /\ p.upTo = tail[t].upTo
      BY <2>00, <3>1 DEF Pass
    <3>. QED  BY <2>0, <2>00, <2>5, <3>1, <3>2, OnePass DEF ReadSubs
  <2>6. CASE QueueRow(t) \/ LoseRow(t)
    <3>1. tail[t].next \in Feed
      BY <2>6, PassIs, WebhookAssumption DEF QueueRow, LoseRow, Feed
    <3>2. /\ tail' = [tail EXCEPT ![t] = NextRow(tail[t])]
          /\ tail[t].phase \in {"subs", "queue"}
          /\ UNCHANGED <<head, cursor, origin>> /\ lost' \subseteq Feed
      BY <2>0, <2>6, <3>1 DEF QueueRow, LoseRow, FeedType
    <3> DEFINE p == NextRow(tail[t])
    <3>3. /\ p \in Pass /\ p.from <= head /\ p.upTo <= head
          /\ p.phase \in {"subs", "queue"} => p.from < p.next /\ p.next <= p.upTo
      BY <3>2, PassIs, NextRowIs
    <3>. QED  BY <2>0, <3>2, <3>3, OnePass
  <2>7. CASE SaveCursor(t)
    <3>1. cursor' \in -1 .. head
      BY <2>0, <2>7, PassIs DEF SaveCursor
    <3>. QED  BY <2>0, <2>7, <3>1, AsleepStep DEF SaveCursor
  <2>8. CASE TailerDies(t)
    BY <2>0, <2>8, AsleepStep DEF TailerDies
  <2>. QED  BY <1>5, <2>1, <2>2, <2>3, <2>4, <2>5, <2>6, <2>7, <2>8 DEF TailStep
<1>. QED  BY <1>2, <1>3, <1>4, <1>5, StepCases DEF FeedStep

LEMMA RowInvInit == Init => RowInv
<1> SUFFICES ASSUME Init PROVE SubType /\ RowType /\ TickType /\ FeedType
  BY RowInvParts
<1>1. SubType
  BY WebhookAssumption DEF Init, SubType
<1>2. RowType
  BY WebhookAssumption DEF Init, RowType, AttemptsLeft, Open
<1>3. TickType
  BY IdleIs, WebhookAssumption DEF Init, TickType, OutcomesFit, TicksEnd
<1>4. FeedType
  BY AsleepIs, WebhookAssumption DEF Init, FeedType, PassesAdvance
<1>. QED  BY <1>1, <1>2, <1>3, <1>4

LEMMA RowInvStep == RowInv /\ [Next]_vars => RowInv'
<1> SUFFICES ASSUME SubType, RowType, TickType, FeedType, [Next]_vars PROVE RowInv'
  BY RowInvParts
<1>1. SubType' /\ RowType' /\ TickType' /\ FeedType'
  BY SubTypeStep, RowTypeStep, TickTypeStep, FeedTypeStep
<1>. QED  BY <1>1 DEF RowInv, TypeOK, SubType, RowType, TickType, FeedType

(* Type correctness, with the budget of attempts and of time that keeps     *)
(* every counter in its bound: the retry ladder ends and a tick's age is    *)
(* the POSTs it has waited for (runDeliveryTick).                           *)
THEOREM RowInvariant == Spec => []RowInv
BY RowInvInit, RowInvStep, PTL DEF Spec

(* Every variable keeps its type: subscriptions, rows, ticks and passes.    *)
THEOREM TypeCorrect == Spec => []TypeOK
<1>1. RowInv => TypeOK
  BY DEF RowInv
<1>. QED  BY <1>1, RowInvariant, PTL

-----------------------------------------------------------------------------
(* What one step does to the tick that takes it.                            *)
LEMMA TickSummary ==
    ASSUME TickType, RowType, NEW d \in Ticks, DeliveryStep(d)
    PROVE  /\ \A e \in Ticks \ {d} : tick'[e] = tick[e]
           /\ \A r \in tick'[d].todo : r \in tick[d].todo \/ (r \in Rows /\ status[r] # "absent")
           /\ tick'[d].row \in {NoRow, tick[d].row} \cup tick[d].todo
           /\ \A r \in Rows : tick'[d].read[r] \in {0, tick[d].read[r], attempt[r]}
           /\ \A s \in Subs : tick'[d].seen[s] = "inactive" =>
                 \/ tick[d].seen[s] = "inactive"
                 \/ sub[s] # "active" /\ \E r \in tick[d].todo : s = r[1]
           /\ \A r \in Rows : Holds(d, r)' =>
                 /\ tick'[d].age = tick[d].age /\ tick'[d].read = tick[d].read
                 /\ \/ Holds(d, r)
                    \/ ClaimRow(d) /\ Due(tick[d].row, tick[d].age) /\ tick[d].row = r
                 /\ (tick'[d].phase = "mark" /\ tick'[d].outcome = "dead") =>
                       Holds(d, r) /\ tick[d].read[r] + 1 >= MaxAttempts
           /\ (tick'[d].phase = "mark" /\ tick'[d].outcome \in {"inactive", "gone"}) =>
                 \/ KillSubscriber(d) /\ tick'[d].row = tick[d].row /\ tick[d].row \in Rows
                 \/ tick'[d].row \in Rows /\ tick'[d].seen[tick'[d].row[1]] = "inactive"
<1>0. tick[d] \in Tick /\ \A u : tick' = [tick EXCEPT ![d] = u] =>
                             tick'[d] = u /\ \A e \in Ticks \ {d} : tick'[e] = tick[e]
  BY DEF TickType
<1>1. CASE StartTick(d)
  <2>1. PICK S \in Selections, u \in Tick :
              /\ tick' = [tick EXCEPT ![d] = u]
              /\ u.phase = "row" /\ u.todo = S /\ u.row = NoRow /\ u.seen = Idle.seen
              /\ u.read = [r \in Rows |-> IF r \in S THEN attempt[r] ELSE 0]
    BY <1>1, StartIs, ZenonT(30)
  <2>2. tick'[d] = u /\ \A e \in Ticks \ {d} : tick'[e] = tick[e]
    BY <1>0, <2>1
  <2>3. \A r \in S : r \in Rows /\ status[r] # "absent"
    BY SelectionBound DEF Due, Open
  <2>4. \A r \in Rows : ~Holds(d, r)'
    BY <2>1, <2>2, RowParts DEF Holds
  <2>. QED  BY <2>1, <2>2, <2>3, <2>4, IdleIs
<1>2. ASSUME NEW r \in Rows, Lookup(d, r)
      PROVE  /\ \A e \in Ticks \ {d} : tick'[e] = tick[e]
             /\ \A q \in Rows : ~Holds(d, q)'
             /\ tick'[d].todo \subseteq tick[d].todo /\ tick'[d].row = r /\ r \in tick[d].todo
             /\ tick'[d].read = tick[d].read
             /\ \A s \in Subs : tick'[d].seen[s] = "inactive" =>
                   \/ tick[d].seen[s] = "inactive"
                   \/ sub[s] # "active" /\ s = r[1]
             /\ tick'[d].phase = "mark" => tick'[d].seen[r[1]] = "inactive"
  <2>1. PICK u \in Tick :
              /\ tick' = [tick EXCEPT ![d] = u]
              /\ r \in tick[d].todo
              /\ u.todo = tick[d].todo \ {r} /\ u.read = tick[d].read /\ u.row = r
              /\ \A s \in Subs : u.seen[s] = "inactive" =>
                    tick[d].seen[s] = "inactive" \/ (s = r[1] /\ sub[s] # "active")
              /\ \/ u.phase = "claim" /\ u.outcome = "none"
                 \/ u.phase = "mark" /\ u.outcome = "inactive" /\ u.seen[r[1]] = "inactive"
    BY <1>2, LookupIs
  <2>2. tick'[d] = u /\ \A e \in Ticks \ {d} : tick'[e] = tick[e]
    BY <1>0, <2>1
  <2>. QED  BY <2>1, <2>2 DEF Holds
<1>3. CASE ClaimRow(d) /\ Due(tick[d].row, tick[d].age)
  <2> DEFINE u == With(tick[d], "post", tick[d].outcome)
  <2>1. tick' = [tick EXCEPT ![d] = u]
    BY <1>3, ClaimIs
  <2>2. /\ u.phase = "post" /\ u.row = tick[d].row /\ u.age = tick[d].age
        /\ u.todo = tick[d].todo /\ u.read = tick[d].read /\ u.seen = tick[d].seen
    <3>1. tick[d].outcome \in {"none", "inactive", "delivered", "gone", "dead", "failed"}
      BY <1>0 DEF Tick
    <3>. QED  BY <1>0, <3>1, InHand
  <2> HIDE DEF u
  <2>3. tick'[d] = u /\ \A e \in Ticks \ {d} : tick'[e] = tick[e]
    BY <1>0, <2>1
  <2>. QED  BY <1>3, <2>2, <2>3 DEF Holds
<1>4. ASSUME NEW answer \in {"ok", "gone", "error"}, Respond(d, answer)
      PROVE  /\ \A e \in Ticks \ {d} : tick'[e] = tick[e]
             /\ tick'[d].age = tick[d].age /\ tick'[d].read = tick[d].read
             /\ tick'[d].row = tick[d].row /\ tick'[d].todo = tick[d].todo
             /\ tick'[d].seen = tick[d].seen
             /\ tick'[d].phase = "mark" => tick'[d].outcome \in {"delivered", "dead", "failed"}
             /\ tick[d].phase = "post" /\ tick[d].row \in Rows
             /\ tick'[d].outcome = "dead" => tick[d].read[tick[d].row] + 1 >= MaxAttempts
  <2> DEFINE n == tick[d].read[tick[d].row] + 1
             o == Verdict(answer, n)
             p == IF o = "gone" THEN "kill" ELSE "mark"
             u == With(tick[d], p, o)
  <2>0. /\ o \in {"delivered", "gone", "dead", "failed"}
        /\ o = "dead" => n >= MaxAttempts
        /\ tick[d].phase = "post" /\ tick[d].row \in Rows
        /\ tick' = [tick EXCEPT ![d] = u]
    BY <1>4, RespondIs
  <2> HIDE DEF o
  <2>1. /\ u.phase = p /\ u.outcome = o /\ u.row = tick[d].row /\ u.age = tick[d].age
        /\ u.todo = tick[d].todo /\ u.read = tick[d].read /\ u.seen = tick[d].seen
    BY <1>0, <2>0, InHand
  <2> HIDE DEF u
  <2>2. tick'[d] = u /\ \A e \in Ticks \ {d} : tick'[e] = tick[e]
    BY <1>0, <2>0
  <2>. QED  BY <2>0, <2>1, <2>2
<1>5. CASE KillSubscriber(d)
  <2> DEFINE u == With(tick[d], "mark", "gone")
  <2>1. /\ tick' = [tick EXCEPT ![d] = u] /\ tick[d].row \in Rows /\ tick[d].phase = "kill"
    BY <1>5, KillIs DEF KillSubscriber
  <2>2. /\ u.phase = "mark" /\ u.outcome = "gone" /\ u.row = tick[d].row /\ u.age = tick[d].age
        /\ u.todo = tick[d].todo /\ u.read = tick[d].read /\ u.seen = tick[d].seen
    BY <1>0, InHand
  <2> HIDE DEF u
  <2>3. tick'[d] = u /\ \A e \in Ticks \ {d} : tick'[e] = tick[e]
    BY <1>0, <2>1
  <2>. QED  BY <1>5, <2>1, <2>2, <2>3 DEF Holds
<1>6. CASE (ClaimRow(d) /\ ~Due(tick[d].row, tick[d].age)) \/ MarkRow(d) \/ AbortRow(d) \/ TickDies(d)
  <2>1. LetsGo(tick'[d], tick[d]) /\ tick' = [tick EXCEPT ![d] = tick'[d]]
    BY <1>6, LettingGo
  <2>2. \A r \in Rows : ~Holds(d, r)'
    BY <2>1, RowParts DEF Holds, LetsGo
  <2>. QED  BY <1>0, <2>1, <2>2 DEF LetsGo
<1>. QED  BY <1>1, <1>2, <1>3, <1>4, <1>5, <1>6 DEF DeliveryStep, TickStep, Holds

-----------------------------------------------------------------------------
(* Nothing is queued or in hand for a subscriber that has not registered.   *)
LEMMA KnownStays ==
    ASSUME SubType, TickType, [Next]_vars, NEW s \in Subs
    PROVE  /\ Known(s) => Known(s)'
           /\ Inactive(s) => Inactive(s)'
           /\ Present(s)' => Present(s) \/ ~Known(s)
           /\ (sub[s] # "active" /\ sub'[s] = "active") => ~Known(s)
<1>1. CASE SubStep
  BY <1>1 DEF SubStep, Register, Delete, DeleteRows, SubType, Known, Inactive, Present
<1>2. ASSUME NEW d \in Ticks, DeliveryStep(d)
      PROVE  sub'[s] = sub[s] \/ (sub[s] = "active" /\ sub'[s] = "dead")
  BY <1>2, SubFrame, RowParts DEF SubType
<1>3. CASE \E d \in Ticks : DeliveryStep(d)
  BY <1>2, <1>3 DEF Known, Inactive, Present
<1>4. CASE Pinging \/ Advance \/ FeedStep \/ UNCHANGED vars
  <2>1. UNCHANGED sub
    BY <1>4, FeedFrame DEF Pinging, Ping, Advance, vars
  <2>. QED  BY <2>1 DEF Known, Inactive, Present
<1>. QED  BY <1>1, <1>3, <1>4, StepCases

LEMMA PassKnown ==
    ASSUME FeedType, OnlyKnown, [Next]_vars, NEW t \in Tailers, NEW s \in tail'[t].to
    PROVE  s \in Subs /\ Known(s)
<1>0. tail[t].to \subseteq Subs /\ \A q \in tail[t].to : Known(q)
  BY DEF FeedType, OnlyKnown, Pass
<1>1. CASE tail'[t].to \subseteq tail[t].to
  BY <1>0, <1>1
<1>2. ASSUME UNCHANGED tail PROVE tail'[t].to \subseteq tail[t].to
  BY <1>2
<1>3. ASSUME NEW u \in Tailers, TailStep(u) \/ LoseRow(u) \/ TailerDies(u)
      PROVE  s \in Subs /\ Known(s)
  <2>1. CASE u # t
    <3>1. tail'[t] = tail[t]
      BY <1>3, <2>1 DEF TailStep, ReadCursor, ReadHead, Seed, ReadRows, ReadSubs, QueueRow,
                        LoseRow, SaveCursor, TailerDies, FeedType
    <3>. QED  BY <1>1, <3>1
  <2>2. CASE ReadSubs(t)
    BY <2>2 DEF ReadSubs, FeedType, Pass, Known
  <2>3. CASE ReadRows(t)
    BY <1>1, <2>3, ReadRowsIs, AsleepIs DEF FeedType
  <2>4. CASE QueueRow(t) \/ LoseRow(t)
    <3>1. tail'[t] = NextRow(tail[t]) /\ tail[t] \in Pass /\ tail[t].next <= tail[t].upTo
      BY <2>4, PassIs DEF QueueRow, LoseRow, FeedType
    <3>. QED  BY <1>1, <3>1, NextRowIs
  <2>5. CASE ReadCursor(t) \/ ReadHead(t)
    <3>0. tail[t] \in Pass
      BY DEF FeedType
    <3>2. ReadCursor(t) => tail'[t].to = tail[t].to
      BY <3>0 DEF ReadCursor, FeedType, Pass
    <3>3. ReadHead(t) => \/ tail'[t] = Asleep
                         \/ tail'[t] = [tail[t] EXCEPT !.phase = "seed", !.upTo = head]
      BY DEF ReadHead, FeedType
    <3>1. tail'[t].to \subseteq tail[t].to
      BY <2>5, <3>0, <3>2, <3>3, AsleepIs DEF Pass
    <3>. QED  BY <1>1, <3>1
  <2>6. CASE Seed(t) \/ SaveCursor(t) \/ TailerDies(t)
    BY <1>1, <2>6, AsleepIs DEF Seed, SaveCursor, TailerDies, FeedType
  <2>. QED  BY <1>3, <2>1, <2>2, <2>3, <2>4, <2>5, <2>6 DEF TailStep
<1>4. CASE SubStep \/ Pinging \/ Advance \/ Publish \/ UNCHANGED vars
  BY <1>1, <1>4 DEF SubStep, Register, Delete, DeleteRows, Pinging, Ping, Advance, Publish, vars,
                    feedVars
<1>5. ASSUME NEW d \in Ticks, DeliveryStep(d) PROVE tail'[t].to \subseteq tail[t].to
  BY <1>5 DEF DeliveryStep, TickStep, StartTick, Lookup, ClaimRow, Respond, KillSubscriber,
              MarkRow, AbortRow, TickDies, feedVars
<1>. QED  BY <1>1, <1>3, <1>4, <1>5, StepCases DEF FeedStep

(* A row that is there after a step was there before, or is queued for a    *)
(* known subscriber.                                                        *)
LEMMA RowsKnown ==
    ASSUME SubType, RowType, TickType, FeedType, OnlyKnown, [Next]_vars, NEW r \in Rows,
           status'[r] # "absent"
    PROVE  status[r] # "absent" \/ Known(r[1])
<1>1. CASE SubStep \/ Advance \/ UNCHANGED vars
  BY <1>1 DEF SubStep, Register, Delete, DeleteRows, Advance, vars, queueVars, RowType
<1>2. CASE Pinging
  BY <1>2, RowParts DEF Pinging, Ping, Enqueue, Known, Events
<1>3. CASE FeedStep
  BY <1>3, FeedFrame DEF Queues, Enqueue, OnlyKnown
<1>4. ASSUME NEW d \in Ticks, DeliveryStep(d)
      PROVE  status'[r] = status[r] \/ (tick[d].row = r /\ tick[d].row # NoRow)
  BY <1>4, RowsFrame, RowParts DEF queueVars, ClaimRow, MarkRow, RowType
<1>5. CASE \E d \in Ticks : DeliveryStep(d)
  BY <1>4, <1>5 DEF OnlyKnown
<1>. QED  BY <1>1, <1>2, <1>3, <1>5, StepCases

LEMMA OnlyKnownStep ==
    ASSUME SubType, RowType, TickType, FeedType, OnlyKnown, [Next]_vars
    PROVE  OnlyKnown'
<1>1. \A s \in Subs : Known(s) => Known(s)'
  BY KnownStays
<1>2. \A r \in Rows : status'[r] # "absent" => Known(r[1])'
  BY <1>1, RowsKnown, RowParts DEF OnlyKnown
<1>3. \A t \in Tailers : \A s \in tail'[t].to : Known(s)'
  BY <1>1, PassKnown
<1>4. \A d \in Ticks : /\ tick[d].todo \subseteq Rows
                       /\ tick[d].row # NoRow => tick[d].row \in Rows
  BY DEF TickType, Tick
<1>5. ASSUME NEW d \in Ticks
      PROVE  /\ \A r \in tick'[d].todo : r \in Rows /\ Known(r[1])
             /\ tick'[d].row # NoRow => tick'[d].row \in Rows /\ Known(tick'[d].row[1])
  <2>1. CASE tick'[d].todo = tick[d].todo /\ tick'[d].row = tick[d].row
    BY <1>4, <2>1 DEF OnlyKnown
  <2>2. CASE SubStep \/ Pinging \/ FeedStep \/ UNCHANGED vars
    BY <2>1, <2>2, FeedFrame DEF SubStep, Register, Delete, DeleteRows, Pinging, Ping, vars
  <2>3. CASE Advance
    BY <2>1, <2>3, ZenonT(30) DEF Advance, TickType, Tick
  <2>4. ASSUME NEW e \in Ticks, DeliveryStep(e), e # d
        PROVE  tick'[d] = tick[d]
    BY <2>4, TickSummary
  <2>5. CASE DeliveryStep(d)
    <3>1. /\ \A r \in tick'[d].todo : r \in tick[d].todo \/ (r \in Rows /\ status[r] # "absent")
          /\ tick'[d].row \in {NoRow, tick[d].row} \cup tick[d].todo
      BY <2>5, TickSummary
    <3>. QED  BY <1>4, <3>1 DEF OnlyKnown
  <2>. QED  BY <2>1, <2>2, <2>3, <2>4, <2>5, StepCases
<1>6. \A d \in Ticks : /\ \A r \in tick'[d].todo : sub'[r[1]] # "none"
                       /\ tick'[d].row # NoRow => sub'[tick'[d].row[1]] # "none"
  BY <1>1, <1>5, RowParts DEF Known
<1>. QED  BY <1>2, <1>3, <1>6 DEF OnlyKnown, Known

-----------------------------------------------------------------------------
(* The lease.  It covers a whole tick when it is longer than Batch POSTs.   *)
TicksFitLease == Batch < Lease

(* While a tick holds a row, no tick can claim it.                          *)
LEMMA LeasedIsNotDue ==
    ASSUME TicksFitLease, TickType, NEW d \in Ticks, NEW e \in Ticks, NEW r \in Rows,
           Leased(d, r)
    PROVE  ~Due(r, tick[e].age)
<1>1. tick[d].age \in 0 .. Batch /\ tick[e].age \in 0 .. Batch
  BY DEF TickType, Tick
<1>2. ~(Lease - tick[d].age <= -tick[e].age)
  <2>1. Batch \in Nat /\ Lease \in Nat /\ Batch < Lease
    BY WebhookAssumption DEF TicksFitLease
  <2>2. \A a, b \in 0 .. Batch : ~(Lease - a <= -b)
    BY <2>1
  <2>. QED  BY <1>1, <2>2
<1>3. CASE status[r] = "dead"
  BY <1>3 DEF Due, Open
<1>4. CASE timer[r] = Lease - tick[d].age
  BY <1>2, <1>4 DEF Due
<1>. QED  BY <1>3, <1>4 DEF Leased

(* What a tick's step does to one row.                                      *)
LEMMA RowFrame ==
    ASSUME TickType, RowType, NEW d \in Ticks, DeliveryStep(d), NEW r \in Rows
    PROVE  \/ UNCHANGED <<status[r], attempt[r], timer[r], posts[r]>>
           \/ /\ ClaimRow(d) /\ Due(r, tick[d].age) /\ tick[d].row = r
              /\ status'[r] = "sending" /\ timer'[r] = Lease - tick[d].age
              /\ attempt'[r] = attempt[r]
              /\ posts'[r] = IF posts[r] < MaxAttempts THEN posts[r] + 1 ELSE posts[r]
           \/ /\ MarkRow(d) /\ tick[d].phase = "mark" /\ tick[d].row = r /\ status[r] # "absent"
              /\ status'[r] = IF tick[d].outcome \in {"gone", "inactive"} THEN "dead"
                              ELSE tick[d].outcome
              /\ attempt'[r] = IF tick[d].outcome = "inactive" THEN 0 ELSE tick[d].read[r] + 1
              /\ posts'[r] = posts[r]
BY RowsFrame DEF queueVars, ClaimRow, MarkRow, RowType

(* A tick that holds a row after its own step held it before and left it    *)
(* as it was, or has just claimed it.                                       *)
LEMMA OwnStep ==
    ASSUME TickType, RowType, NEW d \in Ticks, DeliveryStep(d), NEW r \in Rows, Holds(d, r)'
    PROVE  /\ tick'[d].age = tick[d].age
           /\ \/ Holds(d, r) /\ UNCHANGED <<status[r], timer[r]>>
              \/ /\ Due(r, tick[d].age)
                 /\ status'[r] = "sending" /\ timer'[r] = Lease - tick[d].age
<1>1. MarkRow(d) => tick'[d].row = NoRow
  BY LettingGo DEF LetsGo
<1>2. ~MarkRow(d)
  BY <1>1, RowParts DEF Holds
<1>3. Holds(d, r) => ~ClaimRow(d)
  BY DEF Holds, ClaimRow
<1>4. ClaimRow(d) /\ Due(tick[d].row, tick[d].age) /\ tick[d].row = r =>
         status'[r] = "sending" /\ timer'[r] = Lease - tick[d].age
  BY DEF ClaimRow, RowType
<1>. QED  BY <1>2, <1>3, <1>4, RowFrame, TickSummary

LEMMA LeaseStep ==
    ASSUME TicksFitLease, LeaseInv, [Next]_vars
    PROVE  LeaseHeld'
<1>0. SubType /\ RowType /\ TickType /\ FeedType /\ OnlyKnown /\ LeaseHeld
  BY RowInvParts DEF LeaseInv
<1> SUFFICES ASSUME NEW d \in Ticks, NEW r \in Rows, Present(r[1])', Holds(d, r)'
             PROVE  /\ Leased(d, r)'
                    /\ \A e \in Ticks : Holds(e, r)' => e = d
  BY DEF LeaseHeld
<1>1. ASSUME NEW e \in Ticks, Holds(e, r) PROVE Present(r[1])
  <2>1. Known(r[1])
    BY <1>0, <1>1, RowParts DEF OnlyKnown, Holds
  <2>. QED  BY <1>0, <2>1, KnownStays, RowParts
<1>2. ASSUME UNCHANGED tick, UNCHANGED <<status[r], timer[r]>> \/ status[r] = "absent"
      PROVE  /\ Leased(d, r)'
             /\ \A e \in Ticks : Holds(e, r)' => e = d
  <2>1. \A e \in Ticks : Holds(e, r)' = Holds(e, r)
    BY <1>2 DEF Holds
  <2>2. Leased(d, r) /\ \A e \in Ticks : Holds(e, r) => e = d
    BY <1>0, <1>1, <2>1 DEF LeaseHeld
  <2>. QED  BY <1>2, <2>1, <2>2 DEF Leased
<1>3. ASSUME NEW s \in Subs, Register(s) \/ Delete(s) \/ DeleteRows(s)
      PROVE  UNCHANGED tick /\ UNCHANGED <<status[r], timer[r]>>
  <2>1. DeleteRows(s) => r[1] # s
    BY <1>0 DEF DeleteRows, SubType, Present
  <2>. QED  BY <1>3, <2>1 DEF Register, Delete, DeleteRows, queueVars
<1>4. CASE SubStep
  BY <1>2, <1>3, <1>4 DEF SubStep
<1>5. CASE Pinging \/ FeedStep \/ UNCHANGED vars
  <2>1. ASSUME NEW rows, Enqueue(rows)
        PROVE  UNCHANGED <<status[r], timer[r]>> \/ status[r] = "absent"
    BY <2>1 DEF Enqueue
  <2>2. /\ UNCHANGED tick
        /\ UNCHANGED <<status[r], timer[r]>> \/ status[r] = "absent"
    BY <1>5, <2>1, FeedFrame DEF Pinging, Ping, Queues, vars, queueVars
  <2>. QED  BY <1>2, <2>2
<1>6. CASE Advance
  <2>1. ASSUME NEW e \in Ticks, Holds(e, r)'
        PROVE  Holds(e, r) /\ tick'[e].age = tick[e].age + 1
    <3>1. tick[e].phase \in {"off", "post"} /\ tick[e] \in Tick
      BY <1>0, <1>6 DEF Advance, TickType
    <3>2. CASE tick[e].phase = "off"
      <4>1. tick'[e].phase = "off"
        BY <1>6, <3>2 DEF Advance
      <4>. QED  BY <2>1, <4>1 DEF Holds
    <3>3. CASE tick[e].phase = "post"
      <4>1. tick'[e] = [tick[e] EXCEPT !.age = @ + 1, !.spent = TRUE]
        BY <1>6, <3>3 DEF Advance
      <4>2. tick'[e].row = tick[e].row /\ tick'[e].age = tick[e].age + 1
        BY <3>1, <4>1 DEF Tick
      <4>. QED  BY <2>1, <3>3, <4>2 DEF Holds
    <3>. QED  BY <3>1, <3>2, <3>3
  <2>2. Leased(d, r) /\ \A e \in Ticks : Holds(e, r) => e = d
    BY <1>0, <1>1, <2>1 DEF LeaseHeld
  <2>3. /\ status'[r] = status[r]
        /\ timer'[r] = IF status[r] \in Open /\ timer[r] > -Batch THEN timer[r] - 1 ELSE timer[r]
    BY <1>6 DEF Advance
  <2>4. tick[d].age \in 0 .. Batch
    BY <1>0 DEF TickType, Tick
  <2>5. Lease - tick[d].age > -Batch /\ Lease - (tick[d].age + 1) = Lease - tick[d].age - 1
    BY <2>4, WebhookAssumption DEF TicksFitLease
  <2>6. Leased(d, r)'
    BY <2>1, <2>2, <2>3, <2>5 DEF Leased, Open
  <2>. QED  BY <2>1, <2>2, <2>6
<1>7. ASSUME NEW e \in Ticks, DeliveryStep(e)
      PROVE  /\ Leased(d, r)'
             /\ \A f \in Ticks : Holds(f, r)' => f = d
  <2>1. \A f \in Ticks \ {e} : tick'[f] = tick[f]
    BY <1>0, <1>7, TickSummary
  <2>2. \A f \in Ticks \ {e} : Holds(f, r)' = Holds(f, r)
    BY <2>1 DEF Holds
  <2>3. ASSUME NEW f \in Ticks, Holds(f, r)
        PROVE  /\ Leased(f, r) /\ \A g \in Ticks : Holds(g, r) => g = f
               /\ \A g \in Ticks : ~Due(r, tick[g].age)
    BY <1>0, <1>1, <2>3, LeasedIsNotDue DEF LeaseHeld
  <2>4. Holds(e, r)' => /\ tick'[e].age = tick[e].age
                        /\ \/ Holds(e, r) /\ UNCHANGED <<status[r], timer[r]>>
                           \/ /\ Due(r, tick[e].age)
                              /\ status'[r] = "sending" /\ timer'[r] = Lease - tick[e].age
    BY <1>0, <1>7, OwnStep
  <2>5. CASE d = e
    BY <2>2, <2>3, <2>4, <2>5 DEF Leased
  <2>6. CASE d # e
    <3>1. Holds(d, r)
      BY <2>2, <2>6
    <3>2. \A f \in Ticks : Holds(f, r)' => f = d
      BY <2>2, <2>3, <2>4, <3>1
    <3>3. ~Holds(e, r) /\ ~Due(r, tick[e].age) /\ Leased(d, r)
      BY <2>3, <2>6, <3>1
    <3>4. UNCHANGED <<status[r], timer[r]>> \/ status'[r] = "dead"
      BY <1>0, <1>7, <3>3, RowFrame DEF Holds
    <3>. QED  BY <2>1, <2>6, <3>2, <3>3, <3>4 DEF Leased
  <2>. QED  BY <2>5, <2>6
<1>. QED  BY <1>4, <1>5, <1>6, <1>7, StepCases

LEMMA LeaseInit == Init => LeaseInv
<1>1. Init => OnlyKnown /\ LeaseHeld
  BY IdleIs, AsleepIs DEF Init, OnlyKnown, LeaseHeld, Holds
<1>. QED  BY <1>1, RowInvInit DEF LeaseInv

(* A tick that has POSTed a row holds the lease of it, and alone, until the *)
(* answer is written, if a tick of Batch POSTs is shorter than the lease.   *)
THEOREM LeaseInvariant ==
    ASSUME TicksFitLease PROVE Spec => []LeaseInv
<1>1. LeaseInv /\ [Next]_vars => LeaseInv'
  <2> SUFFICES ASSUME LeaseInv, [Next]_vars PROVE LeaseInv'
    OBVIOUS
  <2>1. SubType /\ RowType /\ TickType /\ FeedType /\ OnlyKnown /\ RowInv
    BY RowInvParts DEF LeaseInv
  <2>2. RowInv'
    BY <2>1, RowInvStep
  <2>3. OnlyKnown'
    BY <2>1, OnlyKnownStep
  <2>4. LeaseHeld'
    BY LeaseStep
  <2>. QED  BY <2>2, <2>3, <2>4 DEF LeaseInv
<1>. QED  BY <1>1, LeaseInit, PTL DEF Spec

(* No two overlapping ticks have POSTed the same row, if a tick is shorter  *)
(* than the lease; the claim is what keeps them apart (claimDelivery).      *)
THEOREM NoDoublePost ==
    ASSUME TicksFitLease PROVE Spec => []NeverDoubleConcurrent
<1>1. LeaseInv => NeverDoubleConcurrent
  BY DEF LeaseInv, LeaseHeld, NeverDoubleConcurrent, Posting, Holds
<1>. QED  BY <1>1, LeaseInvariant, PTL

(* A delivered row is not POSTed again, however late the answers of other   *)
(* ticks come, if a tick is shorter than the lease.                         *)
THEOREM DeliveredIsFinal ==
    ASSUME TicksFitLease PROVE Spec => DeliveredStaysClosed
<1> DEFINE A == \A r \in Rows :
                  (Present(r[1]) /\ status[r] = "delivered") => status'[r] \in Closed
<1>1. LeaseInv /\ [Next]_vars => [A]_vars
  <2> SUFFICES ASSUME LeaseInv, Next, NEW r \in Rows, Present(r[1]), status[r] = "delivered"
               PROVE  status'[r] \in Closed
    BY DEF A
  <2>0. SubType /\ RowType /\ TickType /\ FeedType /\ LeaseHeld
    BY RowInvParts DEF LeaseInv
  <2>1. CASE UNCHANGED status[r]
    BY <2>1 DEF Closed
  <2>2. CASE SubStep
    BY <2>1, <2>2 DEF SubStep, Register, Delete, DeleteRows, queueVars, Present
  <2>3. CASE Pinging \/ FeedStep \/ Advance
    <3>1. ASSUME NEW rows, Enqueue(rows) PROVE UNCHANGED status[r]
      BY <3>1 DEF Enqueue
    <3>. QED  BY <2>1, <2>3, <3>1, FeedFrame DEF Pinging, Ping, Queues, Advance
  <2>4. ASSUME NEW d \in Ticks, DeliveryStep(d) PROVE status'[r] \in Closed
    <3>1. ~Due(r, tick[d].age)
      BY DEF Due, Open
    <3>2. ~Holds(d, r)
      BY <2>0 DEF LeaseHeld, Leased
    <3>. QED  BY <2>0, <2>1, <2>4, <3>1, <3>2, RowFrame DEF Holds, Closed
  <2>. QED  BY <2>2, <2>3, <2>4, StepCases, <2>1 DEF vars, queueVars
<1>2. Spec => [][A]_vars
  BY <1>1, LeaseInvariant, PTL DEF Spec
<1>. QED  BY <1>2 DEF DeliveredStaysClosed

-----------------------------------------------------------------------------
(* POSTs are history: never fewer, and a claim makes one.                   *)
LEMMA PostsGrow ==
    ASSUME RowType, TickType, [Next]_vars, NEW r \in Rows
    PROVE  posts'[r] >= posts[r] /\ posts[r] \in 0 .. MaxAttempts
<1>0. posts[r] \in 0 .. MaxAttempts
  BY DEF RowType
<1>1. CASE UNCHANGED posts
  BY <1>0, <1>1, WebhookAssumption
<1>2. CASE SubStep \/ Pinging \/ Advance \/ FeedStep \/ UNCHANGED vars
  BY <1>1, <1>2, FeedFrame DEF SubStep, Register, Delete, DeleteRows, Pinging, Ping, Enqueue,
     Advance, vars, queueVars
<1>3. ASSUME NEW d \in Ticks, DeliveryStep(d) PROVE posts'[r] >= posts[r]
  BY <1>0, <1>3, RowFrame, WebhookAssumption
<1>. QED  BY <1>0, <1>2, <1>3, StepCases

(* What a step does to the state of a tick that does not take it.           *)
LEMMA OtherTicks ==
    ASSUME TickType, [Next]_vars, NEW d \in Ticks
    PROVE  \/ DeliveryStep(d)
           \/ /\ tick'[d].read = tick[d].read /\ tick'[d].seen = tick[d].seen
              /\ tick'[d].row = tick[d].row /\ tick'[d].phase = tick[d].phase
              /\ tick'[d].outcome = tick[d].outcome
<1>1. CASE UNCHANGED tick
  BY <1>1
<1>2. CASE SubStep \/ Pinging \/ FeedStep \/ UNCHANGED vars
  BY <1>1, <1>2, FeedFrame DEF SubStep, Register, Delete, DeleteRows, Pinging, Ping, vars
<1>3. CASE Advance
  <2>1. tick[d] \in Tick
    BY DEF TickType
  <2>2. tick'[d] = tick[d] \/ tick'[d] = [tick[d] EXCEPT !.age = @ + 1, !.spent = TRUE]
    BY <1>3 DEF Advance
  <2>. QED  BY <2>1, <2>2 DEF Tick
<1>4. ASSUME NEW e \in Ticks, DeliveryStep(e), e # d PROVE tick'[d] = tick[d]
  <2>1. \E u : tick' = [tick EXCEPT ![e] = u]
    BY <1>4, ZenonT(30) DEF DeliveryStep, TickStep, StartTick, Lookup, ClaimRow, Respond, KillSubscriber,
                MarkRow, AbortRow, TickDies, TickType
  <2>. QED  BY <1>4, <2>1 DEF TickType
<1>. QED  BY <1>2, <1>3, <1>4, StepCases

LEMMA PostsCountedStep ==
    ASSUME DeadInv, [Next]_vars
    PROVE  PostsCounted'
<1>0. SubType /\ RowType /\ TickType /\ FeedType /\ PostsCounted
  BY RowInvParts DEF DeadInv
<1>1. ASSUME NEW r \in Rows
      PROVE  /\ posts'[r] >= posts[r] /\ posts[r] \in Nat /\ posts'[r] \in Nat
             /\ attempt[r] \in Nat /\ attempt[r] <= posts[r]
             /\ \A d \in Ticks : tick[d].read[r] \in 0 .. MaxAttempts - 1
  <2>1. RowType'
    BY <1>0, RowTypeStep
  <2>2. posts'[r] \in Nat
    BY <2>1, WebhookAssumption DEF RowType
  <2>3. attempt[r] \in Nat /\ attempt[r] <= posts[r] /\ posts[r] \in Nat
    BY <1>0, WebhookAssumption DEF RowType, PostsCounted
  <2>4. \A d \in Ticks : tick[d].read[r] \in 0 .. MaxAttempts - 1
    BY <1>0 DEF TickType, Tick
  <2>. QED  BY <1>0, <2>2, <2>3, <2>4, PostsGrow
<1>2. ASSUME NEW r \in Rows PROVE attempt'[r] <= posts'[r]
  <2>1. CASE attempt'[r] = attempt[r] \/ attempt'[r] = 0
    BY <1>1, <2>1
  <2>2. CASE SubStep \/ Pinging \/ Advance \/ FeedStep \/ UNCHANGED vars
    BY <2>1, <2>2, FeedFrame DEF SubStep, Register, Delete, DeleteRows, Pinging, Ping, Enqueue,
       Advance, vars, queueVars
  <2>3. ASSUME NEW d \in Ticks, DeliveryStep(d) PROVE attempt'[r] <= posts'[r]
    <3>1. CASE MarkRow(d) /\ tick[d].phase = "mark" /\ tick[d].row = r /\ tick[d].outcome # "inactive"
      <4>1. Holds(d, r)
        BY <3>1 DEF Holds
      <4>2. tick[d].read[r] + 1 <= posts[r]
        BY <1>0, <4>1 DEF PostsCounted
      <4>3. attempt'[r] = tick[d].read[r] + 1 \/ attempt'[r] = attempt[r]
        BY <1>0, <2>3, <3>1, RowFrame
      <4>. QED  BY <1>1, <4>2, <4>3
    <3>. QED  BY <1>0, <2>1, <2>3, <3>1, RowFrame
  <2>. QED  BY <2>2, <2>3, StepCases
<1>3. ASSUME NEW d \in Ticks, NEW r \in Rows
      PROVE  /\ tick'[d].read[r] <= posts'[r]
             /\ Holds(d, r)' => tick'[d].read[r] + 1 <= posts'[r]
             /\ (Holds(d, r)' /\ tick'[d].phase = "mark" /\ tick'[d].outcome = "dead")
                   => posts'[r] >= MaxAttempts
  <2>0. /\ tick[d].read[r] <= posts[r] /\ tick[d].read[r] \in 0 .. MaxAttempts - 1
        /\ Holds(d, r) => tick[d].read[r] + 1 <= posts[r]
        /\ (Holds(d, r) /\ tick[d].phase = "mark" /\ tick[d].outcome = "dead")
                   => posts[r] >= MaxAttempts
    BY <1>0, <1>1 DEF PostsCounted
  <2>1. CASE ~DeliveryStep(d)
    <3>1. /\ tick'[d].read = tick[d].read /\ tick'[d].row = tick[d].row
          /\ tick'[d].phase = tick[d].phase /\ tick'[d].outcome = tick[d].outcome
      BY <1>0, <2>1, OtherTicks
    <3>2. Holds(d, r)' = Holds(d, r)
      BY <3>1 DEF Holds
    <3>. QED  BY <1>1, <2>0, <3>1, <3>2, WebhookAssumption
  <2>2. CASE DeliveryStep(d)
    <3>1. tick'[d].read[r] \in {0, tick[d].read[r], attempt[r]}
      BY <1>0, <2>2, TickSummary
    <3>2. tick'[d].read[r] <= posts'[r]
      BY <1>1, <2>0, <3>1, WebhookAssumption
    <3>3. ASSUME Holds(d, r)'
          PROVE  /\ tick'[d].read = tick[d].read
                 /\ \/ Holds(d, r)
                    \/ ClaimRow(d) /\ Due(tick[d].row, tick[d].age) /\ tick[d].row = r
                 /\ (tick'[d].phase = "mark" /\ tick'[d].outcome = "dead") =>
                       Holds(d, r) /\ tick[d].read[r] + 1 >= MaxAttempts
      BY <1>0, <2>2, <3>3, TickSummary
    <3>4. ASSUME ClaimRow(d), Due(tick[d].row, tick[d].age), tick[d].row = r
          PROVE  posts'[r] = IF posts[r] < MaxAttempts THEN posts[r] + 1 ELSE posts[r]
      BY <1>0, <3>4 DEF ClaimRow, RowType
    <3>5. ASSUME Holds(d, r)' PROVE tick[d].read[r] + 1 <= posts'[r]
      BY <1>1, <2>0, <3>3, <3>4, <3>5, WebhookAssumption
    <3>6. ASSUME Holds(d, r)', tick'[d].phase = "mark", tick'[d].outcome = "dead"
          PROVE  posts'[r] >= MaxAttempts
      BY <1>1, <2>0, <3>3, <3>6, WebhookAssumption
    <3>. QED  BY <3>2, <3>3, <3>5, <3>6
  <2>. QED  BY <2>1, <2>2
<1>. QED  BY <1>2, <1>3 DEF PostsCounted

LEMMA InactiveSeenStep ==
    ASSUME DeadInv, [Next]_vars
    PROVE  InactiveSeen'
<1>0. SubType /\ RowType /\ TickType /\ FeedType /\ OnlyKnown /\ InactiveSeen
  BY RowInvParts DEF DeadInv
<1>1. \A s \in Subs : Inactive(s) => sub'[s] \notin {"none", "active"}
  BY <1>0, KnownStays DEF Inactive
<1>2. ASSUME NEW d \in Ticks
      PROVE  /\ \A s \in Subs : tick'[d].seen[s] = "inactive" => sub'[s] \notin {"none", "active"}
             /\ (tick'[d].phase = "mark" /\ tick'[d].outcome \in {"inactive", "gone"})
                   => sub'[tick'[d].row[1]] \notin {"none", "active"}
  <2>0. /\ \A s \in Subs : tick[d].seen[s] = "inactive" => Inactive(s)
        /\ (tick[d].phase = "mark" /\ tick[d].outcome \in {"inactive", "gone"})
              => Inactive(tick[d].row[1]) /\ tick[d].row[1] \in Subs
    BY <1>0, RowParts DEF InactiveSeen, TickType, Tick
  <2>1. CASE ~DeliveryStep(d)
    BY <1>0, <1>1, <2>0, <2>1, OtherTicks
  <2>2. CASE DeliveryStep(d)
    <3>1. ASSUME NEW s \in Subs, tick'[d].seen[s] = "inactive" PROVE Inactive(s)
      <4>1. \/ tick[d].seen[s] = "inactive"
            \/ sub[s] # "active" /\ \E r \in tick[d].todo : s = r[1]
        BY <1>0, <2>2, <3>1, TickSummary
      <4>2. \A r \in tick[d].todo : Known(r[1])
        BY <1>0 DEF OnlyKnown
      <4>. QED  BY <2>0, <4>1, <4>2 DEF Known, Inactive
    <3>2. ASSUME KillSubscriber(d), tick[d].row \in Rows
          PROVE  sub'[tick[d].row[1]] \notin {"none", "active"}
      <4>1. Known(tick[d].row[1]) /\ tick[d].row[1] \in Subs
        BY <1>0, <3>2, RowParts DEF OnlyKnown
      <4>. QED  BY <1>0, <3>2, <4>1 DEF KillSubscriber, Known, SubType
    <3>3. (tick'[d].phase = "mark" /\ tick'[d].outcome \in {"inactive", "gone"}) =>
             \/ KillSubscriber(d) /\ tick'[d].row = tick[d].row /\ tick[d].row \in Rows
             \/ tick'[d].row \in Rows /\ tick'[d].seen[tick'[d].row[1]] = "inactive"
      BY <1>0, <2>2, TickSummary
    <3>. QED  BY <1>1, <3>1, <3>2, <3>3, RowParts
  <2>. QED  BY <2>1, <2>2
<1>. QED  BY <1>2 DEF InactiveSeen, Inactive

LEMMA DeadStep ==
    ASSUME DeadInv, [Next]_vars
    PROVE  DeadIsEarned'
<1>0. SubType /\ RowType /\ TickType /\ FeedType /\ OnlyKnown /\ InactiveSeen /\ PostsCounted
      /\ DeadIsEarned
  BY RowInvParts DEF DeadInv
<1> SUFFICES ASSUME NEW r \in Rows, status'[r] = "dead", sub'[r[1]] = "active"
             PROVE  posts'[r] >= MaxAttempts
  BY DEF DeadIsEarned
<1>1. posts[r] >= MaxAttempts => posts'[r] >= MaxAttempts
  <2>1. RowType'
    BY <1>0, RowTypeStep
  <2>. QED  BY <1>0, <2>1, PostsGrow, WebhookAssumption DEF RowType
<1>2. sub[r[1]] = "active" \/ status[r] = "absent"
  BY <1>0, KnownStays, RowParts DEF OnlyKnown
<1>3. CASE status[r] = "dead"
  BY <1>0, <1>1, <1>2, <1>3 DEF DeadIsEarned
<1>4. CASE status[r] # "dead"
  <2>1. ASSUME SubStep \/ Pinging \/ Advance \/ FeedStep \/ UNCHANGED vars PROVE FALSE
    BY <1>4, <2>1, FeedFrame DEF SubStep, Register, Delete, DeleteRows, Pinging, Ping, Enqueue,
       Queues, Advance, vars, queueVars
  <2>2. PICK d \in Ticks : DeliveryStep(d)
    BY <2>1, StepCases
  <2>3. /\ tick[d].phase = "mark" /\ tick[d].row = r /\ status[r] # "absent"
        /\ tick[d].outcome \in {"gone", "inactive"} \/ tick[d].outcome = "dead"
    BY <1>0, <1>4, <2>2, RowFrame
  <2>4. tick[d].outcome = "dead"
    BY <1>0, <1>2, <2>3 DEF InactiveSeen, Inactive
  <2>5. Holds(d, r)
    BY <2>3, <2>4 DEF Holds
  <2>. QED  BY <1>0, <1>1, <2>3, <2>4, <2>5 DEF PostsCounted
<1>. QED  BY <1>3, <1>4

LEMMA DeadInit == Init => DeadInv
<1> SUFFICES ASSUME Init PROVE DeadInv
  OBVIOUS
<1>1. LeaseInv
  BY LeaseInit
<1>2. PostsCounted
  BY IdleIs DEF Init, PostsCounted, Holds
<1>3. InactiveSeen /\ DeadIsEarned
  BY IdleIs DEF Init, InactiveSeen, DeadIsEarned
<1>. QED  BY <1>1, <1>2, <1>3 DEF DeadInv, LeaseInv

(* A dead row has had its attempts or lost its subscriber, and a tick that  *)
(* is to mark it dead has seen that (runDeliveryTick).                      *)
THEOREM DeadInvariant == Spec => []DeadInv
<1>1. DeadInv /\ [Next]_vars => DeadInv'
  <2> SUFFICES ASSUME DeadInv, [Next]_vars PROVE DeadInv'
    OBVIOUS
  <2>1. SubType /\ RowType /\ TickType /\ FeedType /\ OnlyKnown /\ RowInv
    BY RowInvParts DEF DeadInv
  <2>2. RowInv' /\ OnlyKnown'
    BY <2>1, RowInvStep, OnlyKnownStep
  <2>. QED  BY <2>2, PostsCountedStep, InactiveSeenStep, DeadStep DEF DeadInv
<1>. QED  BY <1>1, DeadInit, PTL DEF Spec

(* A delivery to a subscriber that is still active is given up only after   *)
(* MaxAttempts real POSTs, whatever ticks overlap or die (deliverOne).      *)
THEOREM GivingUpIsEarned == Spec => []DeadIsEarned
<1>1. DeadInv => DeadIsEarned
  BY DEF DeadInv
<1>. QED  BY <1>1, DeadInvariant, PTL

-----------------------------------------------------------------------------
(* An event that is queued, or needs not be, stays so.                      *)
LEMMA FeedGrows ==
    ASSUME FeedType, [Next]_vars
    PROVE  origin' >= origin /\ lost \subseteq lost'
<1>0. origin \in Nat
  BY WebhookAssumption DEF FeedType
<1>1. CASE UNCHANGED <<origin, lost>>
  BY <1>0, <1>1
<1>2. CASE SubStep \/ Pinging \/ Advance \/ Publish \/ UNCHANGED vars
  BY <1>1, <1>2 DEF SubStep, Register, Delete, DeleteRows, Pinging, Ping, Advance, Publish, vars,
                    feedVars
<1>3. ASSUME NEW d \in Ticks, DeliveryStep(d) PROVE UNCHANGED <<origin, lost>>
  BY <1>3 DEF DeliveryStep, TickStep, StartTick, Lookup, ClaimRow, Respond, KillSubscriber,
              MarkRow, AbortRow, TickDies, feedVars
<1>4. ASSUME NEW t \in Tailers, TailStep(t) \/ LoseRow(t) \/ TailerDies(t)
      PROVE  origin' >= origin /\ lost \subseteq lost'
  <2>1. CASE Seed(t)
    <3>1. tail[t].upTo \in Nat
      BY PassIs, WebhookAssumption DEF FeedType
    <3>. QED  BY <1>0, <2>1, <3>1 DEF Seed
  <2>2. CASE LoseRow(t)
    BY <1>0, <2>2 DEF LoseRow
  <2>3. CASE \/ ReadCursor(t) \/ ReadHead(t) \/ ReadRows(t) \/ ReadSubs(t) \/ QueueRow(t)
             \/ SaveCursor(t) \/ TailerDies(t)
    BY <1>1, <2>3 DEF ReadCursor, ReadHead, ReadRows, ReadSubs, QueueRow, SaveCursor, TailerDies
  <2>. QED  BY <1>4, <2>1, <2>2, <2>3 DEF TailStep
<1>. QED  BY <1>1, <1>2, <1>3, <1>4, StepCases DEF FeedStep

LEMMA StaysActive ==
    ASSUME SubType, TickType, [Next]_vars, NEW s \in Subs, sub'[s] = "active"
    PROVE  \/ sub[s] = "active" /\ since'[s] = since[s]
           \/ since'[s] = head
<1>1. CASE SubStep
  BY <1>1 DEF SubStep, Register, Delete, DeleteRows, SubType
<1>2. ASSUME NEW d \in Ticks, DeliveryStep(d)
      PROVE  sub[s] = "active" /\ since'[s] = since[s]
  BY <1>2, SubFrame, RowParts DEF SubType
<1>3. CASE Pinging \/ Advance \/ FeedStep \/ UNCHANGED vars
  BY <1>3, FeedFrame DEF Pinging, Ping, Advance, vars
<1>. QED  BY <1>1, <1>2, <1>3, StepCases

LEMMA RowStays ==
    ASSUME RowInv, [Next]_vars, NEW r \in Rows, status[r] # "absent", sub'[r[1]] = "active"
    PROVE  status'[r] # "absent"
<1>0. SubType /\ RowType /\ TickType /\ FeedType
  BY RowInvParts
<1>1. ASSUME NEW s \in Subs, Register(s) \/ Delete(s) \/ DeleteRows(s)
      PROVE  status'[r] # "absent"
  <2>1. DeleteRows(s) => r[1] # s
    BY <1>0 DEF DeleteRows, SubType
  <2>. QED  BY <1>1, <2>1 DEF Register, Delete, DeleteRows, queueVars
<1>2. ASSUME NEW rows, Enqueue(rows) PROVE status'[r] # "absent"
  BY <1>2 DEF Enqueue
<1>3. CASE Pinging \/ FeedStep \/ Advance \/ UNCHANGED vars
  BY <1>2, <1>3, FeedFrame DEF Pinging, Ping, Queues, Advance, vars, queueVars
<1>4. ASSUME NEW d \in Ticks, DeliveryStep(d) PROVE status'[r] # "absent"
  <2>1. tick[d] \in Tick
    BY <1>0 DEF TickType
  <2>2. tick[d].outcome # "absent"
    BY <2>1 DEF Tick
  <2>. QED  BY <1>0, <1>4, <2>2, RowFrame
<1>. QED  BY <1>1, <1>3, <1>4, StepCases DEF SubStep

LEMMA QueuedStays ==
    ASSUME RowInv, [Next]_vars, NEW s \in Subs, NEW e \in Feed, e <= head, Queued(s, e)
    PROVE  Queued(s, e)'
<1>0. SubType /\ RowType /\ TickType /\ FeedType
  BY RowInvParts
<1> SUFFICES ASSUME sub'[s] = "active", <<s, e>> \in Wants, e > since'[s], e > origin',
                    e \notin lost'
             PROVE  status'[<<s, e>>] # "absent"
  BY DEF Queued
<1>1. /\ e \in Int /\ head \in Int /\ origin \in Int /\ origin' \in Int
      /\ <<s, e>> \in Rows /\ <<s, e>>[1] = s
  <2>1. FeedType'
    BY <1>0, FeedTypeStep
  <2>. QED  BY <1>0, <2>1, RowParts, WebhookAssumption DEF FeedType, Feed, Events
<1>2. sub[s] = "active" /\ since'[s] = since[s]
  BY <1>0, <1>1, StaysActive
<1>3. e > origin /\ e \notin lost
  BY <1>0, <1>1, FeedGrows
<1>4. status[<<s, e>>] # "absent"
  BY <1>2, <1>3 DEF Queued
<1>. QED  BY <1>1, <1>4, RowStays

-----------------------------------------------------------------------------
(* The pass that takes a step.                                              *)
LEMMA OtherPass ==
    ASSUME FeedType, [Next]_vars, NEW t \in Tailers
    PROVE  tail'[t] = tail[t] \/ TailStep(t) \/ LoseRow(t) \/ TailerDies(t)
<1>1. CASE UNCHANGED tail
  BY <1>1
<1>2. CASE SubStep \/ Pinging \/ Advance \/ Publish \/ UNCHANGED vars
  BY <1>1, <1>2 DEF SubStep, Register, Delete, DeleteRows, Pinging, Ping, Advance, Publish, vars,
                    feedVars
<1>3. ASSUME NEW d \in Ticks, DeliveryStep(d) PROVE UNCHANGED tail
  BY <1>3 DEF DeliveryStep, TickStep, StartTick, Lookup, ClaimRow, Respond, KillSubscriber,
              MarkRow, AbortRow, TickDies, feedVars
<1>4. ASSUME NEW u \in Tailers, TailStep(u) \/ LoseRow(u) \/ TailerDies(u), u # t
      PROVE  tail'[t] = tail[t]
  <2>1. \E p : tail' = [tail EXCEPT ![u] = p]
    BY <1>4 DEF TailStep, ReadCursor, ReadHead, Seed, ReadRows, ReadSubs, QueueRow, LoseRow,
                SaveCursor, TailerDies, FeedType
  <2>. QED  BY <1>4, <2>1 DEF FeedType
<1>. QED  BY <1>1, <1>2, <1>3, <1>4, StepCases DEF FeedStep

(* Every event behind a pass is published.                                  *)
LEMMA BehindHead ==
    ASSUME FeedType, NEW t \in Tailers, NEW e \in Feed, Behind(tail[t], e)
    PROVE  e <= head
<1>1. /\ e \in Int /\ head \in Int /\ tail[t].from \in 0 .. head /\ tail[t].upTo \in 0 .. head
      /\ tail[t].next \in Int
      /\ tail[t].phase \in {"subs", "queue"} => tail[t].next <= tail[t].upTo
  BY PassIs, WebhookAssumption DEF FeedType, Feed
<1>. QED  BY <1>1 DEF Behind

(* What is queued when a pass leaves an event behind.                       *)
LEMMA LeavesBehind ==
    ASSUME CursorInv, [Next]_vars, NEW t \in Tailers, QueueRow(t) \/ LoseRow(t), NEW s \in Subs,
           NEW e \in Feed, Behind(tail'[t], e)
    PROVE  Queued(s, e)'
<1>0. FeedType /\ SubType
  BY RowInvParts DEF CursorInv
<1>1. /\ tail'[t] = NextRow(tail[t]) /\ tail[t] \in Pass /\ tail[t].next <= tail[t].upTo
      /\ tail[t].phase \in {"subs", "queue"} /\ tail[t].upTo <= head
      /\ tail[t].next \in Int /\ tail[t].upTo \in Int /\ head \in Int
  BY <1>0, PassIs, WebhookAssumption DEF QueueRow, LoseRow, FeedType
<1>2. e < tail[t].next \/ e = tail[t].next
  <2>1. e \in Int
    BY WebhookAssumption DEF Feed
  <2>. QED  BY <1>1, <2>1, NextRowIs DEF Behind
<1>3. CASE e < tail[t].next
  <2>1. Behind(tail[t], e)
    BY <1>1, <1>3 DEF Behind
  <2>. QED  BY <1>0, <2>1, BehindHead, QueuedStays DEF CursorInv
<1>4. CASE e = tail[t].next /\ LoseRow(t)
  BY <1>4 DEF LoseRow, Queued
<1>5. CASE e = tail[t].next /\ QueueRow(t)
  <2>1. /\ UNCHANGED <<sub, since, origin, lost>> /\ tail[t].phase = "queue"
        /\ status' = [r \in Rows |->
              IF r \in {<<q, e>> : q \in tail[t].to} /\ status[r] = "absent"
              THEN "pending" ELSE status[r]]
    BY <1>5 DEF QueueRow, Enqueue
  <2>2. ASSUME sub[s] = "active", <<s, e>> \in Wants, e > since[s]
        PROVE  s \in tail[t].to
    <3>1. since[s] < e
      BY <1>0, <2>2, WebhookAssumption DEF SubType, Feed
    <3>. QED  BY <1>5, <2>1, <2>2, <3>1 DEF CursorInv
  <2>3. <<s, e>> \in Rows
    BY RowParts DEF Events
  <2>4. s \in tail[t].to => status'[<<s, e>>] # "absent"
    BY <2>1, <2>3
  <2>. QED  BY <2>1, <2>2, <2>4 DEF Queued
<1>. QED  BY <1>2, <1>3, <1>4, <1>5

LEMMA PassBehind ==
    ASSUME CursorInv, [Next]_vars, NEW t \in Tailers, NEW s \in Subs, NEW e \in Feed,
           Behind(tail'[t], e)
    PROVE  Queued(s, e)'
<1>0. FeedType
  BY RowInvParts DEF CursorInv
<1>1. /\ tail[t] \in Pass /\ head \in Int /\ e \in Int /\ cursor \in Int /\ cursor <= head
      /\ tail[t].from \in Int
  BY <1>0, PassIs, WebhookAssumption DEF FeedType, Feed
<1>2. CASE Behind(tail[t], e)
  BY <1>0, <1>2, BehindHead, QueuedStays DEF CursorInv
<1>3. CASE tail'[t] = tail[t]
  BY <1>2, <1>3
<1>4. CASE tail'[t] = Asleep
  BY <1>4, AsleepIs DEF Behind
<1>5. CASE ReadCursor(t)
  <2>1. /\ tail'[t].phase = IF cursor = -1 THEN "head" ELSE "rows"
        /\ tail'[t].from = IF cursor = -1 THEN 0 ELSE cursor
    BY <1>0, <1>1, <1>5 DEF ReadCursor, FeedType, Pass
  <2>2. e <= cursor
    BY <2>1 DEF Behind
  <2>. QED  BY <1>1, <2>2, QueuedStays DEF CursorInv
<1>6. CASE ReadHead(t)
  <2>1. tail'[t] = Asleep \/ tail'[t] = [tail[t] EXCEPT !.phase = "seed", !.upTo = head]
    BY <1>0, <1>6 DEF ReadHead, FeedType
  <2>2. tail'[t] # Asleep => tail'[t].phase = "seed"
    BY <1>1, <2>1 DEF Pass
  <2>. QED  BY <1>4, <2>2 DEF Behind
<1>7. CASE Seed(t) \/ SaveCursor(t) \/ TailerDies(t)
  BY <1>0, <1>4, <1>7 DEF Seed, SaveCursor, TailerDies, FeedType
<1>8. CASE ReadRows(t)
  <2>1. \/ tail'[t] = Asleep
        \/ /\ tail'[t].phase = "subs" /\ tail'[t].next = tail[t].from + 1
           /\ tail[t].phase = "rows"
    BY <1>0, <1>8, ReadRowsIs DEF FeedType
  <2>2. tail'[t] # Asleep => Behind(tail[t], e)
    BY <1>1, <2>1 DEF Behind
  <2>. QED  BY <1>2, <1>4, <2>2
<1>9. CASE ReadSubs(t)
  <2>1. tail'[t].phase = "queue" /\ tail'[t].next = tail[t].next /\ tail[t].phase = "subs"
    BY <1>0, <1>1, <1>9 DEF ReadSubs, FeedType, Pass
  <2>. QED  BY <1>2, <2>1 DEF Behind
<1>10. CASE QueueRow(t) \/ LoseRow(t)
  BY <1>10, LeavesBehind
<1>. QED  BY <1>0, <1>3, <1>5, <1>6, <1>7, <1>8, <1>9, <1>10, OtherPass DEF TailStep

(* Everyone who was to be sent the event is in the list of a pass.          *)
LEMMA PassLists ==
    ASSUME CursorInv, [Next]_vars, NEW t \in Tailers, NEW s \in Subs,
           tail'[t].phase = "queue", sub'[s] = "active", <<s, tail'[t].next>> \in Wants,
           since'[s] < tail'[t].next
    PROVE  s \in tail'[t].to
<1>0. FeedType /\ SubType /\ TickType
  BY RowInvParts DEF CursorInv
<1>1. /\ tail[t] \in Pass /\ head \in Int /\ tail[t].next \in Int
      /\ tail[t].phase = "queue" => tail[t].next <= head
  BY <1>0, PassIs, WebhookAssumption DEF FeedType
<1>2. CASE tail'[t] = tail[t]
  <2>1. sub[s] = "active" /\ since'[s] = since[s]
    BY <1>0, <1>1, <1>2, StaysActive
  <2>. QED  BY <1>2, <2>1 DEF CursorInv
<1>3. CASE ReadSubs(t)
  BY <1>0, <1>1, <1>3 DEF ReadSubs, FeedType, Pass
<1>4. CASE ReadCursor(t) \/ ReadHead(t)
  <2>1. ReadCursor(t) => tail'[t].phase \in {"head", "rows"}
    BY <1>0, <1>1 DEF ReadCursor, FeedType, Pass
  <2>2. ReadHead(t) => \/ tail'[t] = Asleep
                       \/ tail'[t] = [tail[t] EXCEPT !.phase = "seed", !.upTo = head]
    BY <1>0 DEF ReadHead, FeedType
  <2>. QED  BY <1>1, <1>4, <2>1, <2>2, AsleepIs DEF Pass
<1>5. CASE Seed(t) \/ SaveCursor(t) \/ TailerDies(t)
  BY <1>0, <1>5, AsleepIs DEF Seed, SaveCursor, TailerDies, FeedType
<1>6. CASE ReadRows(t)
  BY <1>0, <1>6, ReadRowsIs, AsleepIs DEF FeedType
<1>7. CASE QueueRow(t) \/ LoseRow(t)
  <2>1. tail'[t] = NextRow(tail[t]) /\ tail[t].next <= tail[t].upTo
    BY <1>0, <1>7, PassIs DEF QueueRow, LoseRow, FeedType
  <2>. QED  BY <1>1, <2>1, NextRowIs
<1>. QED  BY <1>0, <1>2, <1>3, <1>4, <1>5, <1>6, <1>7, OtherPass DEF TailStep

LEMMA CursorStep ==
    ASSUME CursorInv, [Next]_vars, NEW s \in Subs, NEW e \in Feed, e <= cursor'
    PROVE  Queued(s, e)'
<1>0. FeedType
  BY RowInvParts DEF CursorInv
<1>1. /\ head \in Int /\ e \in Int /\ cursor \in Int /\ cursor <= head
  BY <1>0, WebhookAssumption DEF FeedType, Feed
<1>2. CASE cursor' = cursor
  BY <1>1, <1>2, QueuedStays DEF CursorInv
<1>3. ASSUME NEW t \in Tailers, Seed(t) PROVE Queued(s, e)'
  <2>1. tail[t].upTo \in Int /\ origin \in Int /\ cursor' = tail[t].upTo
    BY <1>0, <1>3, PassIs, WebhookAssumption DEF Seed, FeedType
  <2>2. ~(e > origin')
    BY <1>1, <1>3, <2>1 DEF Seed
  <2>. QED  BY <2>2 DEF Queued
<1>4. ASSUME NEW t \in Tailers, SaveCursor(t) PROVE Queued(s, e)'
  <2>1. Behind(tail[t], e)
    BY <1>4 DEF SaveCursor, Behind
  <2>. QED  BY <1>0, <2>1, BehindHead, QueuedStays DEF CursorInv
<1>5. ASSUME NEW t \in Tailers,
             \/ ReadCursor(t) \/ ReadHead(t) \/ ReadRows(t) \/ ReadSubs(t) \/ QueueRow(t)
             \/ LoseRow(t) \/ TailerDies(t)
      PROVE  cursor' = cursor
  BY <1>5 DEF ReadCursor, ReadHead, ReadRows, ReadSubs, QueueRow, LoseRow, TailerDies
<1>6. CASE FeedStep
  BY <1>2, <1>3, <1>4, <1>5, <1>6 DEF FeedStep, TailStep, Publish
<1>7. CASE SubStep \/ Pinging \/ Advance \/ UNCHANGED vars
  BY <1>2, <1>7 DEF SubStep, Register, Delete, DeleteRows, Pinging, Ping, Advance, vars, feedVars
<1>8. ASSUME NEW d \in Ticks, DeliveryStep(d) PROVE cursor' = cursor
  BY <1>8 DEF DeliveryStep, TickStep, StartTick, Lookup, ClaimRow, Respond, KillSubscriber,
              MarkRow, AbortRow, TickDies, feedVars
<1>. QED  BY <1>2, <1>6, <1>7, <1>8, StepCases

LEMMA CursorInit == Init => CursorInv
<1> SUFFICES ASSUME Init PROVE CursorInv
  OBVIOUS
<1>1. \A e \in Feed : ~(e <= cursor)
  BY WebhookAssumption DEF Init, Feed
<1>2. \A t \in Tailers : tail[t] = Asleep
  BY DEF Init
<1>. QED  BY <1>1, <1>2, AsleepIs, RowInvInit DEF CursorInv, Behind

(* The events at the cursor or before it, and those a pass is about to      *)
(* leave behind, are queued for everyone who is to be sent them.            *)
THEOREM CursorInvariant == Spec => []CursorInv
<1>1. CursorInv /\ [Next]_vars => CursorInv'
  <2> SUFFICES ASSUME CursorInv, [Next]_vars PROVE CursorInv'
    OBVIOUS
  <2>1. RowInv'
    BY RowInvStep DEF CursorInv
  <2>. QED  BY <2>1, CursorStep, PassBehind, PassLists DEF CursorInv
<1>. QED  BY <1>1, CursorInit, PTL DEF Spec

(* The cursor never passes an event that was not queued for everyone who    *)
(* was to be sent it, whatever passes overlap or die (runTailerPass, emit). *)
THEOREM CursorStaysBehind == Spec => []CursorIsBehindQueue
<1>1. CursorInv => CursorIsBehindQueue
  BY DEF CursorInv, CursorIsBehindQueue, Queued
<1>. QED  BY <1>1, CursorInvariant, PTL

=============================================================================
