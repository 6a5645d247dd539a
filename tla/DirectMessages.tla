--------------------------- MODULE DirectMessages ---------------------------
(***************************************************************************)
(* Notifications sent to players on Discord (src/src/api/v2/dms.ts): the   *)
(* game queues a message for a linked account, a cron drain claims the     *)
(* rows that are due and sends them.  Drains of several isolates overlap,  *)
(* die in the middle, and may outlive the lease of what they claimed.      *)
(* Messages are numbered in the order they were created.                   *)
(***************************************************************************)
EXTENDS Naturals, FiniteSets

CONSTANTS
    Messages,     \* the messages the game asks for
    Drains,       \* drains that may overlap
    MaxAttempts,  \* 3 in the code
    HourlyCap,    \* TARGET_HOURLY_CAP: 10 in the code
    Lease,        \* CLAIM_LEASE_MS, in units of the clock
    MaxClock      \* bound of the exploration

VARIABLES
    dm_queue,    \* status, attempts and claim of each message
    counted,     \* requests that passed the cap and insert next
    drain,       \* each drain: its start, the rows it read, the one it holds
    clock,
    delivered,   \* (history) how often Discord took each message
    refused,     \* (history) how often a send of it failed
    slow,        \* (history) a drain went on past the lease it claimed with
    died         \* (history) a drain died with a row in its hands

dmVars == <<dm_queue, counted, drain, clock, delivered, refused, slow, died>>

NotQueued == [status |-> "none", attempts |-> 0, claimed_at |-> 0]
Unread == MaxAttempts + 1
Resting == [step |-> "idle", now |-> 0, read |-> [m \in Messages |-> Unread], row |-> 0]

Init ==
    /\ dm_queue = [m \in Messages |-> NotQueued]
    /\ counted = {}
    /\ drain = [d \in Drains |-> Resting]
    /\ clock = 1
    /\ delivered = [m \in Messages |-> 0] /\ refused = [m \in Messages |-> 0]
    /\ slow = FALSE /\ died = FALSE

-----------------------------------------------------------------------------
(* POST /notifications/dm: a linked player (else nothing is queued), and    *)
(* fewer pending rows than the cap, counted before the insert.              *)
CountPending(m) ==
    /\ dm_queue[m].status = "none" /\ m \notin counted
    /\ Cardinality({n \in Messages : dm_queue[n].status = "pending"}) < HourlyCap
    /\ counted' = counted \cup {m}
    /\ UNCHANGED <<dm_queue, drain, clock, delivered, refused, slow, died>>
InsertDm(m) ==
    /\ m \in counted
    /\ counted' = counted \ {m}
    /\ \/ dm_queue' = [dm_queue EXCEPT ![m].status = "pending"]
       \/ UNCHANGED dm_queue
    /\ UNCHANGED <<drain, clock, delivered, refused, slow, died>>

(* What the SELECT and the conditional UPDATE of the drain ask of a row.    *)
Due(m, now) ==
    \/ dm_queue[m].status = "pending" /\ dm_queue[m].attempts < MaxAttempts
    \/ dm_queue[m].status = "sending" /\ dm_queue[m].claimed_at + Lease < now

(* processDmQueue: one look at the clock and one at the queue.              *)
StartDrain(d) ==
    /\ drain[d].step = "idle"
    /\ \E m \in Messages : Due(m, clock)
    /\ drain' = [drain EXCEPT ![d] =
         [step |-> "claim", now |-> clock, row |-> 0,
          read |-> [m \in Messages |->
                      IF Due(m, clock) THEN dm_queue[m].attempts ELSE Unread]]]
    /\ UNCHANGED <<dm_queue, counted, clock, delivered, refused, slow, died>>

Left(d) == {m \in Messages : drain[d].read[m] # Unread}
NextRow(d, m) == m \in Left(d) /\ \A n \in Left(d) : m <= n

(* Mutant: the claim does not ask whether the row is still due.             *)
ClaimAnyway(d, m) ==
    /\ drain[d].step = "claim" /\ NextRow(d, m)
    /\ dm_queue' = [dm_queue EXCEPT ![m].status = "sending", ![m].claimed_at = drain[d].now]
    /\ drain' = [drain EXCEPT ![d].step = "send", ![d].row = m]
    /\ UNCHANGED <<counted, clock, delivered, refused, slow, died>>

(* The claim flips the row if it is still due by the drain's first clock,   *)
(* and stamps it with that clock; a lost claim leaves the row to its owner. *)
Claim(d, m) ==
    /\ drain[d].step = "claim" /\ NextRow(d, m)
    /\ IF Due(m, drain[d].now)
       THEN /\ dm_queue' = [dm_queue EXCEPT ![m].status = "sending",
                                            ![m].claimed_at = drain[d].now]
            /\ drain' = [drain EXCEPT ![d].step = "send", ![d].row = m]
       ELSE /\ drain' = [drain EXCEPT ![d].read[m] = Unread]
            /\ UNCHANGED dm_queue
    /\ UNCHANGED <<counted, clock, delivered, refused, slow, died>>

Finish(d) ==
    /\ drain[d].step = "claim" /\ Left(d) = {}
    /\ drain' = [drain EXCEPT ![d] = Resting]
    /\ UNCHANGED <<dm_queue, counted, clock, delivered, refused, slow, died>>

(* sendDm: Discord takes the message, and we hear of it or not; or not.     *)
sendDm(d, taken, ok) ==
    /\ drain[d].step = "send"
    /\ ok => taken
    /\ LET m == drain[d].row IN
         /\ delivered' = [delivered EXCEPT ![m] = @ + (IF taken THEN 1 ELSE 0)]
         /\ refused' = [refused EXCEPT ![m] = @ + (IF ok THEN 0 ELSE 1)]
    /\ drain' = [drain EXCEPT ![d].step = IF ok THEN "sent" ELSE "failed"]
    /\ UNCHANGED <<dm_queue, counted, clock, slow, died>>

(* Mutant: one failure too few gives a message up.                          *)
RecordEarly(d) ==
    LET m == drain[d].row
        attempts == drain[d].read[m] + 1
    IN
    /\ drain[d].step \in {"sent", "failed"}
    /\ dm_queue' =
         IF drain[d].step = "sent" THEN [dm_queue EXCEPT ![m].status = "sent"]
         ELSE [dm_queue EXCEPT ![m].attempts = attempts,
                 ![m].status = IF attempts + 1 >= MaxAttempts THEN "failed" ELSE "pending"]
    /\ drain' = [drain EXCEPT ![d].step = "claim", ![d].read[m] = Unread, ![d].row = 0]
    /\ UNCHANGED <<counted, clock, delivered, refused, slow, died>>

(* The outcome is written whoever holds the row by now; attempts go on from *)
(* what the SELECT read.                                                    *)
Record(d) ==
    LET m == drain[d].row
        attempts == drain[d].read[m] + 1
    IN
    /\ drain[d].step \in {"sent", "failed"}
    /\ dm_queue' =
         IF drain[d].step = "sent" THEN [dm_queue EXCEPT ![m].status = "sent"]
         ELSE [dm_queue EXCEPT ![m].attempts = attempts,
                 ![m].status = IF attempts >= MaxAttempts THEN "failed" ELSE "pending"]
    /\ drain' = [drain EXCEPT ![d].step = "claim", ![d].read[m] = Unread, ![d].row = 0]
    /\ UNCHANGED <<counted, clock, delivered, refused, slow, died>>

(* The isolate is ended, or a statement throws out of the loop.             *)
Die(d) ==
    /\ drain[d].step # "idle"
    /\ died' = (died \/ drain[d].row # 0)
    /\ drain' = [drain EXCEPT ![d] = Resting]
    /\ UNCHANGED <<dm_queue, counted, clock, delivered, refused, slow>>

Tick ==
    /\ clock < MaxClock
    /\ clock' = clock + 1
    /\ slow' = (slow \/ \E d \in Drains :
                  drain[d].step # "idle" /\ drain[d].now + Lease < clock')
    /\ UNCHANGED <<dm_queue, counted, drain, delivered, refused, died>>

Next ==
    \/ \E m \in Messages : CountPending(m) \/ InsertDm(m)
    \/ \E d \in Drains :
          \/ StartDrain(d) \/ Finish(d) \/ Record(d) \/ Die(d)
          \/ \E m \in Messages : Claim(d, m)
          \/ \E taken, ok \in BOOLEAN : sendDm(d, taken, ok)
    \/ Tick

Spec == Init /\ [][Next]_dmVars

-----------------------------------------------------------------------------
DmTypeOK ==
    /\ dm_queue \in [Messages -> [status : {"none", "pending", "sending", "sent", "failed"},
                                  attempts : 0..MaxAttempts, claimed_at : 0..MaxClock]]
    /\ counted \subseteq Messages
    /\ drain \in [Drains -> [step : {"idle", "claim", "send", "sent", "failed"},
                             now : 0..MaxClock, read : [Messages -> 0..Unread],
                             row : Messages \cup {0}]]
    /\ clock \in 1..MaxClock
    /\ delivered \in [Messages -> Nat] /\ refused \in [Messages -> Nat]

(* "Queue drains CLAIM each row before sending, so overlapping cron         *)
(* isolates can't double-deliver" (dms.ts:19): true of drains that end      *)
(* within their lease and do not die holding a row, when Discord is heard.  *)
QuickDrainsSendOnce ==
    (~slow /\ ~died) => \A m \in Messages : delivered[m] <= 1 + refused[m]

(* A message is given up only after as many sends that failed as the code   *)
(* allows, and marked sent only if Discord took it, however drains overlap  *)
(* and whichever of them writes last.                                       *)
OutcomeIsEarned ==
    \A m \in Messages :
        /\ dm_queue[m].status = "failed" => refused[m] >= MaxAttempts
        /\ dm_queue[m].status = "sent" => delivered[m] >= 1
=============================================================================
