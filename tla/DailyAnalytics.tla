--------------------------- MODULE DailyAnalytics ---------------------------
(***************************************************************************)
(* The daily folds of the bot cron (src/src/bot/cron.ts): the bot-metrics  *)
(* rollup, newest day first (src/src/bot/analytics/rollup.ts), then the    *)
(* economy rows, oldest first because a row's net_delta is measured from   *)
(* the stored row of the day before, then the retention fold               *)
(* (src/src/analytics).  Every day of every fold is claimed in             *)
(* discord_dedupe; a failure releases the claim, so a later tick of the    *)
(* 00:05-00:59 window retries.                                             *)
(***************************************************************************)
EXTENDS Naturals

CONSTANTS
    Passes,   \* passes of the cron in the window that both legs share, from 00:06
    MaxDay,   \* days that finish; day 0 finished before the first pass
    CatchUp   \* ROLLUP_CATCHUP_DAYS = ANALYTICS_CATCHUP_DAYS

VARIABLES
    today,    \* the last finished day
    minute,   \* the pass that claimed the current minute, or "free"
    claims,   \* discord_dedupe: <<fold, day>>
    row,      \* economy_daily_row of a day: "none", "alone" or "chained"
    folded,   \* <<fold, day>> of the other folds whose data are committed
    pass,     \* what each pass does next, for which fold and day
    mixed     \* (history) passes overlapped, one died, or a release was lost

dayVars == <<today, minute, claims, row, folded, pass, mixed>>

Days == 0..MaxDay
Folds == {"metrics", "economy", "retention"}
At(step, fold, day, chained) ==
    [step |-> step, fold |-> fold, day |-> day, chained |-> chained]
Running(p) == pass[p].step \notin {"idle", "done"}
Holds(p) == pass[p].step \in {"read", "save", "release"}

(* The oldest day of the window of a pass.                                  *)
Oldest(t) == IF t > CatchUp THEN t - CatchUp + 1 ELSE 1

Init ==
    /\ today = 1 /\ minute = "free"
    /\ claims = {} /\ folded = {}
    /\ row \in {[d \in Days |-> IF d = 0 THEN r ELSE "none"] : r \in {"none", "chained"}}
    /\ pass = [p \in Passes |-> At("idle", "metrics", 0, FALSE)]
    /\ mixed = FALSE

Goto(p, at) == pass' = [pass EXCEPT ![p] = at]

-----------------------------------------------------------------------------
(* runBotCron: one pass per minute, unless the claim itself fails: then the *)
(* pass runs unguarded.  A pass may outlive its minute.                     *)
runBotCron(p) ==
    /\ pass[p].step = "idle"
    /\ Goto(p, At("claim", "metrics", today, FALSE))
    /\ minute' \in (IF minute = "free" THEN {p, minute} ELSE {minute})
    /\ mixed' = (mixed \/ \E q \in Passes : Running(q))
    /\ UNCHANGED <<today, claims, row, folded>>
Skipped(p) ==
    /\ pass[p].step = "idle" /\ minute # "free"
    /\ Goto(p, At("done", "metrics", 0, FALSE))
    /\ UNCHANGED <<today, minute, claims, row, folded, mixed>>
NextMinute ==
    /\ minute # "free" /\ minute' = "free"
    /\ UNCHANGED <<today, claims, row, folded, pass, mixed>>
(* A pass of the window is long over by the next midnight.                  *)
Midnight ==
    /\ \A p \in Passes : ~Running(p)
    /\ today < MaxDay /\ today' = today + 1
    /\ UNCHANGED <<minute, claims, row, folded, pass, mixed>>

(* What follows a day of a fold that went well, or was not ours.            *)
Following(at) ==
    CASE at.fold = "metrics" /\ at.day > Oldest(today) ->
            At("claim", "metrics", at.day - 1, FALSE)
      [] at.fold = "metrics" /\ at.day <= Oldest(today) ->
            At("claim", "economy", Oldest(today), FALSE)
      [] at.fold = "economy" /\ at.day < today ->
            At("claim", "economy", at.day + 1, FALSE)
      [] at.fold = "economy" /\ at.day >= today ->
            At("claim", "retention", today, FALSE)
      [] at.fold = "retention" -> At("done", "retention", 0, FALSE)

(* Mutant: the economy fold goes on with the next day after a failure.      *)
AfterFailureGoesOn(at) == Following(at)

(* After a failure the metrics rollup takes its next day; the economy leg   *)
(* breaks, as the next day's delta needs this one's supply.                 *)
AfterFailure(at) ==
    IF at.fold = "economy" THEN At("claim", "retention", today, FALSE)
    ELSE Following(at)

(* claim: INSERT .. ON CONFLICT DO NOTHING RETURNING; it may throw.         *)
claim(p) ==
    LET at == pass[p]  key == <<at.fold, at.day>> IN
    /\ at.step = "claim"
    /\ \/ Goto(p, AfterFailure(at)) /\ UNCHANGED claims
       \/ key \in claims /\ Goto(p, Following(at)) /\ UNCHANGED claims
       \/ /\ key \notin claims /\ claims' = claims \cup {key}
          /\ Goto(p, [at EXCEPT !.step = "read"])
    /\ UNCHANGED <<today, minute, row, folded, mixed>>

(* rollupEconomyDay reads balances, transactions and the row before;        *)
(* rollupOneDay the command log; syncRetention the players.                 *)
readDay(p) ==
    LET at == pass[p] IN
    /\ at.step = "read"
    /\ \/ Goto(p, [at EXCEPT !.step = "release"])
       \/ Goto(p, [at EXCEPT !.step = "save",
                             !.chained = at.fold = "economy" /\ row[at.day - 1] # "none"])
    /\ UNCHANGED <<today, minute, claims, row, folded, mixed>>

(* Upserts by key: a fold that is repeated writes the same rows.            *)
saveEconomyDailyRow(at) ==
    /\ at.fold = "economy"
    /\ row' = [row EXCEPT ![at.day] = IF at.chained THEN "chained" ELSE "alone"]
    /\ UNCHANGED folded
upsertRows(at) ==
    /\ at.fold # "economy"
    /\ folded' = folded \cup {<<at.fold, at.day>>}
    /\ UNCHANGED row

(* The upserts of the metrics and the retention fold may stop half way; the *)
(* churn rider of the retention fold fails without failing it.              *)
saveDay(p) ==
    LET at == pass[p] IN
    /\ at.step = "save"
    /\ \/ /\ Goto(p, Following(at))
          /\ saveEconomyDailyRow(at) \/ upsertRows(at)
       \/ Goto(p, [at EXCEPT !.step = "release"]) /\ UNCHANGED <<row, folded>>
    /\ UNCHANGED <<today, minute, claims, mixed>>

(* Mutant: the failed day keeps its claim.                                  *)
KeepClaim(key) == claims

(* release: DELETE of the key.                                              *)
Released(key) == claims \ {key}

release(p) ==
    LET at == pass[p] IN
    /\ at.step = "release"
    /\ Goto(p, AfterFailure(at))
    /\ \/ claims' = Released(<<at.fold, at.day>>) /\ UNCHANGED mixed
       \/ UNCHANGED claims /\ mixed' = TRUE
    /\ UNCHANGED <<today, minute, row, folded>>

(* The isolate of a pass goes away.                                         *)
Die(p) ==
    /\ Running(p)
    /\ Goto(p, At("done", "metrics", 0, FALSE))
    /\ mixed' = (mixed \/ Holds(p))
    /\ UNCHANGED <<today, minute, claims, row, folded>>

Next ==
    \/ \E p \in Passes :
          \/ runBotCron(p) \/ Skipped(p) \/ claim(p) \/ readDay(p)
          \/ saveDay(p) \/ release(p) \/ Die(p)
    \/ NextMinute \/ Midnight

Spec == Init /\ [][Next]_dayVars

-----------------------------------------------------------------------------
DayTypeOK ==
    /\ today \in 1..MaxDay /\ minute \in Passes \cup {"free"}
    /\ claims \subseteq Folds \X Days
    /\ folded \subseteq (Folds \ {"economy"}) \X Days
    /\ row \in [Days -> {"none", "alone", "chained"}]
    /\ pass \in [Passes -> [step : {"idle", "claim", "read", "save", "release", "done"},
                            fold : Folds, day : Days, chained : BOOLEAN]]
    /\ mixed \in BOOLEAN

(* As long as passes do not overlap and none dies while it holds a day: a   *)
(* claimed day is being folded or has its data, so that a failed day is     *)
(* tried again; and where two days in a row have economy rows, the later    *)
(* one's net_delta was measured from the earlier one (economy.ts: "the      *)
(* oldest-first catch-up guarantees the previous row exists").              *)
FoldsChain ==
    mixed \/
    /\ \A key \in claims :
          \/ \E p \in Passes : Holds(p) /\ key = <<pass[p].fold, pass[p].day>>
          \/ IF key[1] = "economy" THEN row[key[2]] # "none" ELSE key \in folded
    /\ \A d \in Days \ {0} : row[d] = "alone" => row[d - 1] = "none"
=============================================================================
