-------------------------- MODULE WebhookDelivery --------------------------
(***************************************************************************)
(* Outbound webhooks (src/src/webhooks): the plugin appends rows to the    *)
(* web_events feed, a tailer turns rows behind its cursor into one queued  *)
(* delivery per subscriber, and every cron minute a delivery tick POSTs    *)
(* the deliveries that are due.  A tick that runs past its minute overlaps *)
(* the next one; any of them may die at any await.                         *)
(*                                                                         *)
(* One unit of time is the longest a POST may take (DELIVERY_TIMEOUT_MS);  *)
(* D1 calls take no time next to it.  Times are kept relative to the       *)
(* current instant, so the clock needs no bound: timer[r] is next_attempt_ *)
(* at (lease_until while the row is sending) minus the current time, and a *)
(* tick whose `now` was fixed age units ago finds a row due when           *)
(* timer[r] <= -age.  Payloads, signatures and event types are not in the  *)
(* state: Wants says who subscribed to what.                               *)
(***************************************************************************)
EXTENDS Integers, FiniteSets, Sequences

CONSTANTS
    Subs,         \* subscribers
    FeedLength,   \* bound: rows the plugin appends to web_events
    Pings,        \* ids of test.ping events, apart from the feed's ids
    Wants,        \* which subscriber is sent which event
    Ticks,        \* delivery ticks that can run at one time
    Tailers,      \* tailer passes that can run at one time
    Batch,        \* TICK_BATCH
    Lease,        \* CLAIM_LEASE_MS, in POST times
    Delays,       \* RETRY_DELAYS_MS, in POST times
    MaxAttempts,  \* MAX_ATTEMPTS
    GoneLimit,    \* 404/410 answers count as gone for good from this attempt on
    Window,       \* feed rows one tailer pass reads
    Mortal        \* the ticks and passes that may be cut off by a D1 error or
                  \* the death of their isolate

Feed   == 1 .. FeedLength
Events == Feed \cup Pings
Rows   == Subs \X Events

ASSUME WebhookAssumption ==
    /\ IsFiniteSet(Subs) /\ IsFiniteSet(Pings)
    /\ FeedLength \in Nat /\ Pings \cap (0 .. FeedLength) = {}
    /\ Wants \subseteq Rows
    /\ Batch \in Nat \ {0} /\ Lease \in Nat \ {0} /\ Window \in Nat \ {0}
    /\ MaxAttempts \in Nat \ {0} /\ GoneLimit \in Nat \ {0}
    /\ Delays \in Seq(Nat \ {0}) /\ Delays # <<>>

VARIABLES
    sub,     \* status of each row of webhook_subscribers
    since,   \* feed position at which each subscriber registered (history)
    status,  \* status per row of webhook_deliveries
    attempt, \* attempt counter of each row
    timer,   \* next_attempt_at or lease_until, relative to the current time
    posts,   \* POSTs made of each row, counted up to MaxAttempts (history)
    tick,    \* what each delivery tick is doing
    head,    \* last row of web_events
    cursor,  \* tailer cursor; -1 when there is none
    origin,  \* highest position a cursor was seeded at (history)
    lost,    \* feed rows whose emit failed (history)
    tail     \* what each tailer pass is doing

queueVars == <<status, attempt, timer, posts>>
feedVars  == <<head, cursor, origin, lost, tail>>
vars == <<sub, since, queueVars, tick, feedVars>>

Open   == {"pending", "failed", "sending"}
Closed == {"delivered", "dead"}

(* An idle tick and an idle tailer pass.                                    *)
NoRow  == <<>>
Idle   == [phase |-> "off", age |-> 0, todo |-> {}, read |-> [r \in Rows |-> 0],
           seen |-> [s \in Subs |-> "unread"], row |-> NoRow, outcome |-> "none", spent |-> FALSE]
Asleep == [phase |-> "off", from |-> 0, next |-> 0, upTo |-> 0, to |-> {}]

Init ==
    /\ sub \in [Subs -> {"none", "active"}]
    /\ since = [s \in Subs |-> 0]
    /\ status = [r \in Rows |-> "absent"]
    /\ attempt = [r \in Rows |-> 0]
    /\ timer = [r \in Rows |-> 0]
    /\ posts = [r \in Rows |-> 0]
    /\ tick = [d \in Ticks |-> Idle]
    /\ head = 0
    /\ cursor = -1
    /\ origin = 0
    /\ lost = {}
    /\ tail = [t \in Tailers |-> Asleep]

-----------------------------------------------------------------------------
(* Subscriptions.  An id is never used again after its deletion.            *)
Register(s) ==
    /\ sub[s] = "none"
    /\ sub' = [sub EXCEPT ![s] = "active"]
    /\ since' = [since EXCEPT ![s] = head]
    /\ UNCHANGED <<queueVars, tick, feedVars>>

Delete(s) ==
    /\ sub[s] \in {"active", "dead"}
    /\ sub' = [sub EXCEPT ![s] = "deleting"]
    /\ UNCHANGED <<since, queueVars, tick, feedVars>>

DeleteRows(s) ==
    /\ sub[s] = "deleting"
    /\ sub' = [sub EXCEPT ![s] = "gone"]
    /\ status' = [r \in Rows |-> IF r[1] = s THEN "absent" ELSE status[r]]
    /\ attempt' = [r \in Rows |-> IF r[1] = s THEN 0 ELSE attempt[r]]
    /\ timer' = [r \in Rows |-> IF r[1] = s THEN 0 ELSE timer[r]]
    /\ UNCHANGED <<since, posts, tick, feedVars>>

(* enqueueDeliveries: insert-or-ignore of the rows, due at once.            *)
Enqueue(rows) ==
    /\ status' = [r \in Rows |-> IF r \in rows /\ status[r] = "absent" THEN "pending" ELSE status[r]]
    /\ UNCHANGED <<attempt, timer, posts>>

Ping(s, e) ==
    /\ sub[s] = "active" /\ status[<<s, e>>] = "absent"
    /\ Enqueue({<<s, e>>})
    /\ UNCHANGED <<sub, since, tick, feedVars>>

-----------------------------------------------------------------------------
(* Mutant: the status is left out of the condition.                         *)
DueAnyStatus(r, age) == status[r] # "absent" /\ timer[r] <= -age

(* The delivery tick.  now is read once, when the tick starts.              *)
Due(r, age) == status[r] \in Open /\ timer[r] <= -age

(* dueDeliveries: the Batch rows with the lowest next_attempt_at.  That of a *)
(* sending row is not kept here (its lease is), so it may come anywhere.    *)
Selections ==
    LET due == {r \in Rows : Due(r, 0)} IN
    {S \in SUBSET due :
        /\ Cardinality(S) = IF Cardinality(due) < Batch THEN Cardinality(due) ELSE Batch
        /\ \A r \in S, q \in due \ S :
              "sending" \in {status[r], status[q]} \/ timer[r] <= timer[q]}

StartTick(d) ==
    /\ tick[d].phase = "off"
    /\ \E S \in Selections \ {{}} :
          tick' = [tick EXCEPT ![d] = [Idle EXCEPT !.phase = "row", !.todo = S,
                      !.read = [r \in Rows |-> IF r \in S THEN attempt[r] ELSE 0]]]
    /\ UNCHANGED <<sub, since, queueVars, feedVars>>

(* On to the next row of the selection, or done.                            *)
RowDone(t) ==
    IF t.todo = {} THEN Idle
    ELSE [t EXCEPT !.phase = "row", !.row = NoRow, !.outcome = "none", !.spent = FALSE]

(* The subscriber is read once per tick; the rows come in any order.        *)
Lookup(d, r) ==
    LET t == tick[d]
        seen == IF t.seen[r[1]] # "unread" THEN t.seen[r[1]]
                ELSE IF sub[r[1]] = "active" THEN "active" ELSE "inactive"
    IN  /\ t.phase = "row" /\ r \in t.todo
        /\ tick' = [tick EXCEPT ![d] = [t EXCEPT
              !.phase = IF seen = "active" THEN "claim" ELSE "mark",
              !.outcome = IF seen = "active" THEN "none" ELSE "inactive",
              !.seen[r[1]] = seen, !.todo = @ \ {r}, !.row = r]]
        /\ UNCHANGED <<sub, since, queueVars, feedVars>>

(* Mutant: the claim is not conditional.                                    *)
ClaimRowBlind(d) ==
    LET t == tick[d] IN
    /\ t.phase = "claim" /\ status[t.row] # "absent"
    /\ status' = [status EXCEPT ![t.row] = "sending"]
    /\ timer' = [timer EXCEPT ![t.row] = Lease - t.age]
    /\ posts' = [posts EXCEPT ![t.row] = IF @ < MaxAttempts THEN @ + 1 ELSE @]
    /\ tick' = [tick EXCEPT ![d].phase = "post"]
    /\ UNCHANGED <<sub, since, attempt, feedVars>>

(* claimDelivery: conditional on the row being due at the tick's now, and   *)
(* leased from that now.                                                    *)
ClaimRow(d) ==
    LET t == tick[d]
        r == t.row
    IN  /\ t.phase = "claim"
        /\ IF Due(r, t.age)
           THEN /\ status' = [status EXCEPT ![r] = "sending"]
                /\ timer' = [timer EXCEPT ![r] = Lease - t.age]
                /\ posts' = [posts EXCEPT ![r] = IF @ < MaxAttempts THEN @ + 1 ELSE @]
                /\ tick' = [tick EXCEPT ![d].phase = "post"]
                /\ UNCHANGED attempt
           ELSE tick' = [tick EXCEPT ![d] = RowDone(t)] /\ UNCHANGED queueVars
        /\ UNCHANGED <<sub, since, feedVars>>

(* Mutants: one attempt too many, one too few.                              *)
VerdictLate(answer, n) ==
    IF answer = "ok" THEN "delivered"
    ELSE IF answer = "gone" /\ n >= GoneLimit THEN "gone"
    ELSE IF n > MaxAttempts THEN "dead"
    ELSE "failed"
VerdictEarly(answer, n) ==
    IF answer = "ok" THEN "delivered"
    ELSE IF answer = "gone" /\ n >= GoneLimit THEN "gone"
    ELSE IF n >= MaxAttempts - 1 THEN "dead"
    ELSE "failed"

(* The endpoint answers 2xx ("ok"), 404 or 410 ("gone"), something else or  *)
(* not at all ("error").  The attempt counted is the one read at the start. *)
Verdict(answer, n) ==
    IF answer = "ok" THEN "delivered"
    ELSE IF answer = "gone" /\ n >= GoneLimit THEN "gone"
    ELSE IF n >= MaxAttempts THEN "dead"
    ELSE "failed"

Respond(d, answer) ==
    LET t == tick[d]
        verdict == Verdict(answer, t.read[t.row] + 1)
    IN  /\ t.phase = "post"
        /\ tick' = [tick EXCEPT ![d].phase = IF verdict = "gone" THEN "kill" ELSE "mark",
                                ![d].outcome = verdict]
        /\ UNCHANGED <<sub, since, queueVars, feedVars>>

KillSubscriber(d) ==
    /\ tick[d].phase = "kill"
    /\ sub' = [sub EXCEPT ![tick[d].row[1]] = IF @ \in {"active", "dead"} THEN "dead" ELSE @]
    /\ tick' = [tick EXCEPT ![d].phase = "mark"]
    /\ UNCHANGED <<since, queueVars, feedVars>>

Delay(n) == Delays[IF n < Len(Delays) THEN n ELSE Len(Delays)]

(* Mutant: the attempt is not written.                                      *)
MarkRowUncounted(d) ==
    LET t == tick[d]
        r == t.row
    IN  /\ t.phase = "mark"
        /\ status' = [status EXCEPT ![r] =
              IF @ = "absent" THEN @
              ELSE IF t.outcome \in {"gone", "inactive"} THEN "dead" ELSE t.outcome]
        /\ timer' = [timer EXCEPT ![r] = IF t.outcome = "failed" THEN Delay(t.read[r] + 1) - t.age ELSE 0]
        /\ tick' = [tick EXCEPT ![d] = RowDone(t)]
        /\ UNCHANGED <<sub, since, attempt, posts, feedVars>>

(* markDelivery: whatever the row has become; a row that is gone stays so.  *)
MarkRow(d) ==
    LET t == tick[d]
        r == t.row
        n == t.read[r] + 1
    IN  /\ t.phase = "mark"
        /\ IF status[r] = "absent" THEN UNCHANGED queueVars
           ELSE /\ status' = [status EXCEPT ![r] =
                      IF t.outcome \in {"gone", "inactive"} THEN "dead" ELSE t.outcome]
                /\ attempt' = [attempt EXCEPT ![r] = IF t.outcome = "inactive" THEN 0 ELSE n]
                /\ timer' = [timer EXCEPT ![r] =
                      IF t.outcome = "failed" THEN Delay(n) - t.age ELSE 0]
                /\ UNCHANGED posts
        /\ tick' = [tick EXCEPT ![d] = RowDone(t)]
        /\ UNCHANGED <<sub, since, feedVars>>

(* A D1 error is caught per row; the death of the isolate ends the tick.    *)
AbortRow(d) ==
    /\ d \in Mortal /\ tick[d].phase \in {"claim", "kill", "mark"}
    /\ tick' = [tick EXCEPT ![d] = RowDone(tick[d])]
    /\ UNCHANGED <<sub, since, queueVars, feedVars>>

TickDies(d) ==
    /\ d \in Mortal /\ tick[d].phase # "off"
    /\ tick' = [tick EXCEPT ![d] = Idle]
    /\ UNCHANGED <<sub, since, queueVars, feedVars>>

(* Time passes while every running tick waits for a POST that still has     *)
(* time left.  Timers stop at -Batch: no tick gets older than that.         *)
Advance ==
    /\ \A d \in Ticks : tick[d].phase \in {"off", "post"} /\ ~tick[d].spent
    /\ tick' = [d \in Ticks |-> IF tick[d].phase = "off" THEN tick[d]
                                ELSE [tick[d] EXCEPT !.age = @ + 1, !.spent = TRUE]]
    /\ timer' = [r \in Rows |-> IF status[r] \in Open /\ timer[r] > -Batch
                                THEN timer[r] - 1 ELSE timer[r]]
    /\ UNCHANGED <<sub, since, status, attempt, posts, feedVars>>

-----------------------------------------------------------------------------
(* The feed and the tailer.                                                 *)
Publish ==
    /\ head < FeedLength
    /\ head' = head + 1
    /\ UNCHANGED <<sub, since, queueVars, tick, cursor, origin, lost, tail>>

ReadCursor(t) ==
    /\ tail[t].phase = "off"
    /\ tail' = [tail EXCEPT ![t].phase = IF cursor = -1 THEN "head" ELSE "rows",
                            ![t].from = IF cursor = -1 THEN 0 ELSE cursor]
    /\ UNCHANGED <<sub, since, queueVars, tick, head, cursor, origin, lost>>

(* Without a cursor the pass seeds one at the head of the feed, if any.     *)
ReadHead(t) ==
    /\ tail[t].phase = "head"
    /\ tail' = [tail EXCEPT ![t] = IF head = 0 THEN Asleep
                                   ELSE [@ EXCEPT !.phase = "seed", !.upTo = head]]
    /\ UNCHANGED <<sub, since, queueVars, tick, head, cursor, origin, lost>>

Seed(t) ==
    /\ tail[t].phase = "seed"
    /\ cursor' = tail[t].upTo
    /\ origin' = IF origin < tail[t].upTo THEN tail[t].upTo ELSE origin
    /\ tail' = [tail EXCEPT ![t] = Asleep]
    /\ UNCHANGED <<sub, since, queueVars, tick, head, lost>>

(* Mutant: the cursor is saved before the rows are queued.                  *)
ReadRowsSaving(t) ==
    LET from == tail[t].from
        upTo == IF head - from > Window THEN from + Window ELSE head
    IN  /\ tail[t].phase = "rows"
        /\ tail' = [tail EXCEPT ![t] =
              IF upTo <= from THEN Asleep
              ELSE [@ EXCEPT !.phase = "subs", !.next = from + 1, !.upTo = upTo]]
        /\ cursor' = IF upTo <= from THEN cursor ELSE upTo
        /\ UNCHANGED <<sub, since, queueVars, tick, head, origin, lost>>

ReadRows(t) ==
    LET from == tail[t].from
        upTo == IF head - from > Window THEN from + Window ELSE head
    IN  /\ tail[t].phase = "rows"
        /\ tail' = [tail EXCEPT ![t] =
              IF upTo <= from THEN Asleep
              ELSE [@ EXCEPT !.phase = "subs", !.next = from + 1, !.upTo = upTo]]
        /\ UNCHANGED <<sub, since, queueVars, tick, head, cursor, origin, lost>>

(* emit: read the active subscribers, then queue one delivery for each.     *)
ReadSubs(t) ==
    /\ tail[t].phase = "subs"
    /\ tail' = [tail EXCEPT ![t].phase = "queue",
                  ![t].to = {s \in Subs : sub[s] = "active" /\ <<s, tail[t].next>> \in Wants}]
    /\ UNCHANGED <<sub, since, queueVars, tick, head, cursor, origin, lost>>

NextRow(p) ==
    IF p.next = p.upTo THEN [p EXCEPT !.phase = "save", !.to = {}]
    ELSE [p EXCEPT !.phase = "subs", !.next = @ + 1, !.to = {}]

QueueRow(t) ==
    /\ tail[t].phase = "queue"
    /\ Enqueue({<<s, tail[t].next>> : s \in tail[t].to})
    /\ tail' = [tail EXCEPT ![t] = NextRow(@)]
    /\ UNCHANGED <<sub, since, tick, head, cursor, origin, lost>>

(* An emit that throws is logged, and the pass goes on behind it.           *)
LoseRow(t) ==
    /\ tail[t].phase \in {"subs", "queue"}
    /\ lost' = lost \cup {tail[t].next}
    /\ tail' = [tail EXCEPT ![t] = NextRow(@)]
    /\ UNCHANGED <<sub, since, queueVars, tick, head, cursor, origin>>

SaveCursor(t) ==
    /\ tail[t].phase = "save"
    /\ cursor' = tail[t].upTo
    /\ tail' = [tail EXCEPT ![t] = Asleep]
    /\ UNCHANGED <<sub, since, queueVars, tick, head, origin, lost>>

(* The isolate dies, or a D1 error ends the pass.                           *)
TailerDies(t) ==
    /\ t \in Mortal /\ tail[t].phase # "off"
    /\ tail' = [tail EXCEPT ![t] = Asleep]
    /\ UNCHANGED <<sub, since, queueVars, tick, head, cursor, origin, lost>>

-----------------------------------------------------------------------------
TickStep(d) ==
    \/ \E r \in Rows : Lookup(d, r)
    \/ ClaimRow(d) \/ KillSubscriber(d) \/ MarkRow(d)
    \/ \E answer \in {"ok", "gone", "error"} : Respond(d, answer)

TailStep(t) ==
    \/ ReadCursor(t) \/ ReadHead(t) \/ Seed(t) \/ ReadRows(t)
    \/ ReadSubs(t) \/ QueueRow(t) \/ SaveCursor(t)

Next ==
    \/ \E s \in Subs : Register(s) \/ Delete(s) \/ DeleteRows(s)
    \/ \E s \in Subs, e \in Pings : Ping(s, e)
    \/ \E d \in Ticks : StartTick(d) \/ TickStep(d) \/ AbortRow(d) \/ TickDies(d)
    \/ Advance \/ Publish
    \/ \E t \in Tailers : TailStep(t) \/ LoseRow(t) \/ TailerDies(t)

Spec == Init /\ [][Next]_vars

(* Cron starts a tick every minute, a tick runs on by itself, time passes.  *)
Fairness ==
    /\ WF_vars(Advance)
    /\ \A s \in Subs : WF_vars(DeleteRows(s))
    /\ \A d \in Ticks : WF_vars(StartTick(d)) /\ WF_vars(TickStep(d))

LiveSpec == Spec /\ Fairness

-----------------------------------------------------------------------------
Tick == [phase : {"off", "row", "claim", "post", "kill", "mark"}, age : 0 .. Batch,
         todo : SUBSET Rows, read : [Rows -> 0 .. MaxAttempts - 1],
         seen : [Subs -> {"unread", "active", "inactive"}], row : Rows \cup {NoRow},
         outcome : {"none", "inactive", "delivered", "gone", "dead", "failed"},
         spent : BOOLEAN]

Pass == [phase : {"off", "head", "seed", "rows", "subs", "queue", "save"},
         from : 0 .. FeedLength, next : 0 .. FeedLength, upTo : 0 .. FeedLength,
         to : SUBSET Subs]

TypeOK ==
    /\ sub \in [Subs -> {"none", "active", "dead", "deleting", "gone"}]
    /\ since \in [Subs -> 0 .. FeedLength]
    /\ status \in [Rows -> {"absent"} \cup Open \cup Closed]
    /\ attempt \in [Rows -> 0 .. MaxAttempts]
    /\ timer \in [Rows -> Int] /\ \A r \in Rows : timer[r] >= -Batch
    /\ posts \in [Rows -> 0 .. MaxAttempts]
    /\ tick \in [Ticks -> Tick]
    /\ \A d \in Ticks : tick[d].phase \in {"off", "row"} <=> tick[d].row = NoRow
    /\ head \in 0 .. FeedLength /\ cursor \in -1 .. head /\ origin \in 0 .. head
    /\ lost \subseteq Feed
    /\ tail \in [Tailers -> Pass]
    /\ \A t \in Tailers : tail[t].from <= head /\ tail[t].upTo <= head

Posting(d, r) == tick[d].phase = "post" /\ tick[d].row = r
Present(s) == sub[s] \in {"active", "dead"}

(* "Two overlapping delivery ticks can never both POST the same row": true  *)
(* as long as a whole tick is shorter than the lease (Batch < Lease) and    *)
(* nobody deletes the subscriber in between.                                *)
NeverDoubleConcurrent ==
    \A d, e \in Ticks, r \in Rows :
        (Present(r[1]) /\ Posting(d, r) /\ Posting(e, r)) => d = e

(* An event recorded as delivered stays closed and is not POSTed again: not *)
(* after an overlapping tick's late answer, not after a rescan of the feed. *)
DeliveredStaysClosed ==
    [][\A r \in Rows :
          (Present(r[1]) /\ status[r] = "delivered") => status'[r] \in Closed]_vars

(* Giving up is earned: a delivery is dead for a subscriber that is still   *)
(* active only after MaxAttempts real POSTs, however ticks overlap or die.  *)
DeadIsEarned ==
    \A r \in Rows : (status[r] = "dead" /\ sub[r[1]] = "active") => posts[r] >= MaxAttempts

(* The cursor never passes an event that was not queued: a subscriber has a *)
(* row for every event published after it registered and after the feed was *)
(* first read, unless the emit of that event failed.                        *)
CursorIsBehindQueue ==
    \A s \in Subs, e \in Feed :
        ( /\ sub[s] = "active" /\ <<s, e>> \in Wants
          /\ e > since[s] /\ e > origin /\ e <= cursor /\ e \notin lost )
            => status[<<s, e>>] # "absent"

(* Every queued delivery is closed in the end, delivered or given up after  *)
(* MaxAttempts (needs: ticks that run to their end).                        *)
EveryDeliveryCloses == \A r \in Rows : status[r] \in Open ~> status[r] \notin Open
=============================================================================
