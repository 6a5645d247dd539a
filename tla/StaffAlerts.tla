----------------------------- MODULE StaffAlerts -----------------------------
(***************************************************************************)
(* Alerts to the staff channel that are deduplicated in the database:      *)
(* breaches of the economy thresholds, evaluated by one pass an hour       *)
(* (src/src/analytics/alerts.ts), and paid lines whose delivery command    *)
(* was not executed in 24 hours, swept by every pass of the cron           *)
(* (src/src/alerts/deliveryAlerts.ts).  Both post first and record it      *)
(* after; both post a resolve when the subject recovers.                   *)
(***************************************************************************)
EXTENDS FiniteSets

CONSTANTS
    Keys,    \* breach keys: gini, net_delta, faucet:<reason>
    Lines,   \* order lines of the delivery ledger
    Hourly,  \* the evaluations of the economy; one, as its hour is claimed
    Sweeps   \* the delivery sweeps that may run at a time

VARIABLES
    armed,   \* STAFF_ALERT_WEBHOOK_URL is set
    active,  \* keys that breach in the newest stored day
    late,    \* lines queued for longer than STALE_AFTER_MS
    status,  \* store_delivery_ledger.status of each line
    done,    \* lines with an executed_at
    row,     \* alerted_at and resolved_at of each subject, as set or not
    job,     \* what each job does next, and what it read
    said,    \* (history) the last post about each subject
    odd,     \* (history) subjects with a post that did not alternate
    excused  \* (history) subjects whose post was not recorded, or raced

alertVars == <<armed, active, late, status, done, row, job, said, odd, excused>>

Subjects == Keys \cup Lines
Jobs == Hourly \cup Sweeps
SubjectsOf(j) == IF j \in Hourly THEN Keys ELSE Lines
Row(alerted, resolved) == [alerted |-> alerted, resolved |-> resolved]
Open(r) == r.alerted /\ ~r.resolved

(* What a job read when it started; `bad` are the subjects in breach and    *)
(* `good` those that may be resolved.                                       *)
Resting == [step |-> "idle", todo |-> {}, subject |-> "none", post |-> "none",
            bad |-> {}, good |-> {}, pending |-> {}, row |-> [s \in Subjects |-> Row(FALSE, FALSE)]]

Init ==
    /\ armed \in BOOLEAN
    /\ active = {} /\ late = {} /\ done = {}
    /\ status = [l \in Lines |-> "pending"]
    /\ row = [s \in Subjects |-> Row(FALSE, FALSE)]
    /\ job = [j \in Jobs |-> Resting]
    /\ said = [s \in Subjects |-> "nothing"]
    /\ odd = {} /\ excused = {}

-----------------------------------------------------------------------------
(* The world: the daily fold moves the metrics, a day passes, the plugin    *)
(* executes or fails the command of a line, the owner arms the webhook.     *)
NewDay(k) ==
    /\ active' = IF k \in active THEN active \ {k} ELSE active \cup {k}
    /\ UNCHANGED <<armed, late, status, done, row, job, said, odd, excused>>
GrowsLate(l) ==
    /\ l \notin late /\ late' = late \cup {l}
    /\ UNCHANGED <<armed, active, status, done, row, job, said, odd, excused>>
Executed(l) ==
    /\ l \notin done /\ done' = done \cup {l}
    /\ status' = [status EXCEPT ![l] = "delivered"]
    /\ UNCHANGED <<armed, active, late, row, job, said, odd, excused>>
Failed(l) ==
    /\ l \notin done /\ status[l] # "failed"
    /\ status' = [status EXCEPT ![l] = "failed"]
    /\ UNCHANGED <<armed, active, late, done, row, job, said, odd, excused>>
Arm ==
    /\ ~armed /\ armed' = TRUE
    /\ UNCHANGED <<active, late, status, done, row, job, said, odd, excused>>

(* runEconomyAlertEvaluation, runDeliveryAlertSweep: read everything at     *)
(* once.  Two sweeps overlap only when one outlives its minute.             *)
Read(j) ==
    /\ job[j].step = "idle"
    /\ job' = [job EXCEPT ![j] =
         [step |-> "walk", todo |-> SubjectsOf(j), subject |-> "none", post |-> "none",
          bad |-> IF j \in Hourly THEN active ELSE late \ done,
          good |-> IF j \in Hourly THEN Keys \ active ELSE done,
          pending |-> {l \in late : status[l] = "pending"}, row |-> [s \in Subjects |-> IF s \in SubjectsOf(j) THEN row[s] ELSE Row(FALSE, FALSE)]]]
    /\ excused' = IF j \in Sweeps /\ \E i \in Sweeps : job[i].step # "idle"
                  THEN excused \cup Lines ELSE excused
    /\ UNCHANGED <<armed, active, late, status, done, row, said, odd>>

(* The stale transition of a line read as pending: patchLines writes the    *)
(* status whatever it is by now.                                            *)
ledgerLineMarkedStale(j, l) ==
    /\ j \in Sweeps /\ l \in job[j].todo \cap job[j].pending
    /\ status' = [status EXCEPT ![l] = "stale"]
    /\ job' = [job EXCEPT ![j].pending = @ \ {l}]
    /\ UNCHANGED <<armed, active, late, done, row, said, odd, excused>>

(* A breach is due once per window of a key, and once for ever of a line.   *)
BreachDue(j, s) ==
    s \in job[j].bad /\ (IF j \in Hourly THEN ~Open(job[j].row[s]) ELSE ~job[j].row[s].alerted)
RecoveryDue(j, s) == s \in job[j].good /\ Open(job[j].row[s])
Due(j, s) ==
    IF BreachDue(j, s) THEN "alert" ELSE IF RecoveryDue(j, s) THEN "resolve" ELSE "nothing"

(* postToStaffChannel: unarmed or refused, the subject waits for the next   *)
(* pass and nothing is consumed.                                            *)
postToStaffChannel(j, s) ==
    /\ job[j].step = "walk" /\ s \in job[j].todo \ job[j].pending
    /\ \/ /\ job' = [job EXCEPT ![j].todo = @ \ {s}]
          /\ UNCHANGED <<said, odd>>
       \/ /\ Due(j, s) # "nothing" /\ armed
          /\ job' = [job EXCEPT ![j].step = "mark", ![j].subject = s, ![j].post = Due(j, s)]
          /\ odd' = IF said[s] = "alert" <=> Due(j, s) = "alert" THEN odd \cup {s} ELSE odd
          /\ said' = [said EXCEPT ![s] = Due(j, s)]
    /\ UNCHANGED <<armed, active, late, status, done, row, excused>>

(* Mutant: re-opening a window leaves its resolved_at.                      *)
AlertKeepsResolve(r) == Row(TRUE, r.resolved)

(* markBreachAlerted: an upsert that clears resolved_at.                    *)
markAlerted(r) == Row(TRUE, FALSE)
markResolved(r) == Row(r.alerted, TRUE)

(* The record of a post; a failed write ends the job.                       *)
Mark(j) ==
    LET s == job[j].subject IN
    /\ job[j].step = "mark"
    /\ \/ /\ row' = [row EXCEPT ![s] = IF job[j].post = "alert" THEN markAlerted(@) ELSE markResolved(@)]
          /\ job' = [job EXCEPT ![j].step = "walk", ![j].todo = @ \ {s}]
          /\ UNCHANGED excused
       \/ /\ excused' = excused \cup {s} /\ job' = [job EXCEPT ![j] = Resting]
          /\ UNCHANGED row
    /\ UNCHANGED <<armed, active, late, status, done, said, odd>>

(* The end of a pass, or of its isolate.                                    *)
Finish(j) ==
    /\ job[j].step = "walk"
    /\ job' = [job EXCEPT ![j] = Resting]
    /\ UNCHANGED <<armed, active, late, status, done, row, said, odd, excused>>

Next ==
    \/ \E k \in Keys : NewDay(k)
    \/ \E l \in Lines : GrowsLate(l) \/ Executed(l) \/ Failed(l)
    \/ Arm
    \/ \E j \in Jobs :
          \/ Read(j) \/ Mark(j) \/ Finish(j)
          \/ \E s \in Subjects : ledgerLineMarkedStale(j, s) \/ postToStaffChannel(j, s)

Spec == Init /\ [][Next]_alertVars

-----------------------------------------------------------------------------
AlertTypeOK ==
    /\ armed \in BOOLEAN /\ active \subseteq Keys
    /\ late \subseteq Lines /\ done \subseteq Lines
    /\ status \in [Lines -> {"pending", "delivered", "failed", "stale"}]
    /\ row \in [Subjects -> [alerted : BOOLEAN, resolved : BOOLEAN]]
    /\ \A j \in Jobs : job[j].todo \subseteq SubjectsOf(j) /\ job[j].pending \subseteq Lines
    /\ said \in [Subjects -> {"nothing", "alert", "resolve"}]
    /\ odd \subseteq Subjects /\ excused \subseteq Subjects

(* "One alert per breach window; a resolve posts when the metric recovers": *)
(* the posts about a subject alternate, first an alert, whatever the metric *)
(* does meanwhile, unless a post could not be recorded or sweeps overlapped. *)
AlertsAlternate ==
    /\ odd \subseteq excused
    /\ \A l \in Lines \ excused : said[l] = "resolve" => l \in done

(* A line that was delivered is not shown as stale (deliveryLedger.ts).     *)
DeliveredStaysDelivered == \A l \in done : status[l] = "delivered"
=============================================================================
