---------------------------- MODULE NotifySweep ----------------------------
(***************************************************************************)
(* The notification sweep of the every-minute cron                         *)
(* (src/src/bot/notify/scheduler.ts): war, colosseum, omen and season      *)
(* announcements, vote reminders and personal event messages, each fired   *)
(* under a key of the table discord_dedupe (src/src/bot/botdb.ts) that is  *)
(* claimed before the send and released when the send fails.  Passes of    *)
(* the cron overlap when one takes longer than a minute, or when the claim *)
(* of the minute itself fails.                                             *)
(***************************************************************************)
EXTENDS Naturals, FiniteSets

CONSTANTS
    Calendar,   \* announcements, all of one kind
    Omens,      \* those of them that keep the omens' cooldown
    Votes,      \* vote reminders, one per user and day
    Personal,   \* event messages to a player
    Window,     \* per notice: the minutes in which the sources show it
    Passes,     \* passes of the cron
    PerHour,    \* notifyMaxPerHour
    Hour,       \* the span of the ceiling, in minutes
    Cooldown,   \* omenCooldownMinutes
    LastMinute  \* bound on the clock

VARIABLES
    minute,   \* the clock, from 1
    ledger,   \* discord_dedupe: the minute each key was claimed in, 0 without a row
    pass,     \* per pass: what it does, for which notice, its fixed now, what is left
    sent,     \* (history) how many times Discord took each notice
    unheard,  \* (history) notices Discord took while the sender learned of a failure
    stuck     \* (history) notices whose claim outlived a failed or unfinished send

noticeVars == <<minute, ledger, pass, sent, unheard, stuck>>

Notices == Calendar \cup Votes \cup Personal
Nothing == "nothing"
Unborn == [at |-> "idle", now |-> 0, todo |-> {}, n |-> Nothing]

Init ==
    /\ minute = 1
    /\ ledger = [n \in Notices |-> 0]
    /\ pass = [p \in Passes |-> Unborn]
    /\ sent = [n \in Notices |-> 0] /\ unheard = {} /\ stuck = {}

Tick ==
    /\ minute < LastMinute /\ minute' = minute + 1
    /\ UNCHANGED <<ledger, pass, sent, unheard, stuck>>

To(p, at) == pass' = [pass EXCEPT ![p].at = at]
Rest(p) == pass' = [pass EXCEPT ![p].at = "run", ![p].n = Nothing]
Take(p, n, at) ==
    pass' = [pass EXCEPT ![p].at = at, ![p].n = n, ![p].todo = @ \ {n}]

-----------------------------------------------------------------------------
(* One pass per minute claims the minute; when that claim fails the pass    *)
(* runs all the same, so that another may already hold the minute.  What is *)
(* due is decided by the minute the pass began in.                          *)
Begin(p) ==
    /\ pass[p].at = "idle"
    /\ pass' = [pass EXCEPT ![p] =
                  [at |-> "run", now |-> minute, n |-> Nothing,
                   todo |-> {n \in Notices : minute \in Window[n]}]]
    /\ UNCHANGED <<minute, ledger, sent, unheard, stuck>>

(* The sources, one notice after the other.                                 *)
FireRouted(p, n) ==
    /\ pass[p].at = "run" /\ n \in pass[p].todo \cap Calendar
    /\ Take(p, n, IF n \in Omens THEN "cooldown" ELSE "ceiling")
    /\ UNCHANGED <<minute, ledger, sent, unheard, stuck>>
RemindVote(p, n) ==
    /\ pass[p].at = "run" /\ n \in pass[p].todo \cap Votes
    /\ Take(p, n, "claim")
    /\ UNCHANGED <<minute, ledger, sent, unheard, stuck>>
(* No link, no wish for such messages, or a failing lookup: on to the next. *)
TellPlayer(p, n) ==
    /\ pass[p].at = "run" /\ n \in pass[p].todo \cap Personal
    /\ Take(p, n, "claim") \/ Take(p, n, "run")
    /\ UNCHANGED <<minute, ledger, sent, unheard, stuck>>

(* claimedWithin and countClaimedWithin: the keys claimed within a span.  A *)
(* read that fails lets the notice pass.                                    *)
ClaimedWithin(S, span, t) == {n \in S : ledger[n] # 0 /\ ledger[n] + span > t}

CoolDown(p) ==
    /\ pass[p].at = "cooldown"
    /\ \/ To(p, "ceiling")
       \/ /\ ClaimedWithin(Omens, Cooldown, pass[p].now) # {}
          /\ Rest(p)
    /\ UNCHANGED <<minute, ledger, sent, unheard, stuck>>
Ceiling(p) ==
    /\ pass[p].at = "ceiling"
    /\ \/ To(p, "claim")
       \/ /\ Cardinality(ClaimedWithin(Calendar, Hour, pass[p].now)) >= PerHour
          /\ Rest(p)
    /\ UNCHANGED <<minute, ledger, sent, unheard, stuck>>

-----------------------------------------------------------------------------
(* Mutant: a read that finds the key claimed does not stop the send.        *)
ClaimOverwrites(p) ==
    /\ pass[p].at = "claim"
    /\ ledger' = [ledger EXCEPT ![pass[p].n] = minute]
    /\ To(p, "send")
    /\ UNCHANGED <<minute, sent, unheard, stuck>>

(* The insert returns a row to the one pass that made it.  When the insert  *)
(* throws, nothing is sent, and it may have been committed.                 *)
Claim(p) ==
    /\ pass[p].at = "claim"
    /\ LET n == pass[p].n
           Claimed == ledger' = [ledger EXCEPT ![n] = minute]
       IN  \/ ledger[n] = 0 /\ Claimed /\ To(p, "send") /\ UNCHANGED stuck
           \/ ledger[n] # 0 /\ Rest(p) /\ UNCHANGED <<ledger, stuck>>
           \/ Rest(p) /\ UNCHANGED <<ledger, stuck>>
           \/ ledger[n] = 0 /\ Claimed /\ Rest(p) /\ stuck' = stuck \cup {n}
    /\ UNCHANGED <<minute, sent, unheard>>

Send(p) ==
    /\ pass[p].at = "send"
    /\ sent' = [sent EXCEPT ![pass[p].n] = @ + 1]
    /\ Rest(p)
    /\ UNCHANGED <<minute, ledger, unheard, stuck>>
(* A refusal, a network error, or the eight seconds pass; in the last case  *)
(* Discord may have taken the message.                                      *)
SendFails(p) ==
    /\ pass[p].at = "send" /\ To(p, "release")
    /\ LET n == pass[p].n IN
          \/ UNCHANGED <<sent, unheard>>
          \/ sent' = [sent EXCEPT ![n] = @ + 1] /\ unheard' = unheard \cup {n}
    /\ UNCHANGED <<minute, ledger, stuck>>

(* Mutant: a send that failed keeps its claim.                              *)
KeepsClaim(p) ==
    /\ pass[p].at = "release" /\ Rest(p)
    /\ UNCHANGED <<minute, ledger, sent, unheard, stuck>>

(* The delete, or its error: reported, and the key stays claimed.           *)
Release(p) ==
    /\ pass[p].at = "release" /\ Rest(p)
    /\ \/ ledger' = [ledger EXCEPT ![pass[p].n] = 0] /\ UNCHANGED stuck
       \/ stuck' = stuck \cup {pass[p].n} /\ UNCHANGED ledger
    /\ UNCHANGED <<minute, sent, unheard>>

(* The isolate is gone, with a claim in hand or without.                    *)
Dies(p) ==
    /\ pass[p].at \notin {"idle", "dead"}
    /\ pass' = [pass EXCEPT ![p] = [Unborn EXCEPT !.at = "dead"]]
    /\ stuck' = IF pass[p].at \in {"send", "release"} THEN stuck \cup {pass[p].n} ELSE stuck
    /\ UNCHANGED <<minute, ledger, sent, unheard>>

Next ==
    \/ Tick
    \/ \E p \in Passes :
          \/ Begin(p) \/ CoolDown(p) \/ Ceiling(p) \/ Claim(p)
          \/ Send(p) \/ SendFails(p) \/ Release(p) \/ Dies(p)
          \/ \E n \in Notices : FireRouted(p, n) \/ RemindVote(p, n) \/ TellPlayer(p, n)
Spec == Init /\ [][Next]_noticeVars

-----------------------------------------------------------------------------
NoticeTypeOK ==
    /\ minute \in 1..LastMinute
    /\ ledger \in [Notices -> 0..LastMinute]
    /\ \A p \in Passes :
          /\ pass[p].at \in {"idle", "run", "cooldown", "ceiling", "claim", "send",
                             "release", "dead"}
          /\ pass[p].todo \subseteq Notices /\ pass[p].n \in Notices \cup {Nothing}
    /\ sent \in [Notices -> Nat] /\ unheard \cup stuck \subseteq Notices

(* "A never-duplicated ping": whatever passes overlap, fail or die, a       *)
(* notice goes out twice only when a send whose outcome was not heard came  *)
(* before.  And no claim eats its notice in silence: a key is held by a     *)
(* pass that is still at it, or its notice went out, or a send died with    *)
(* it.                                                                      *)
Held(n) == \E p \in Passes : pass[p].n = n /\ pass[p].at \in {"send", "release"}
NoticesAreOnce ==
    \A n \in Notices :
        /\ sent[n] > 1 => n \in unheard
        /\ ledger[n] # 0 => Held(n) \/ sent[n] > 0 \/ n \in stuck
=============================================================================
