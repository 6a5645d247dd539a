-------------------------- MODULE ServiceJobsProofs -------------------------
(***************************************************************************)
(* What is done once: theorems about the queue of direct messages, the     *)
(* notices of the sweep, the changelog, the daily folds and the alerts to  *)
(* the staff, as parts of the service.                                     *)
(***************************************************************************)
EXTENDS Service, FiniteSetTheorems, TLAPS

(* The part that moves moves by its own next-state relation.                *)
LEMMA JobsMove ==
    ASSUME [ServiceNext]_serviceVars
    PROVE  /\ part' = part
           /\ part = "messages" => [Messages!Next]_messagesVars
           /\ part = "notices" => [Notices!Next]_noticesVars
           /\ part = "changelog" => [Log!Next]_changelogVars
           /\ part = "analytics" => [Days!Next]_analyticsVars
           /\ part = "alerts" => [Alerts!Next]_alertsVars
BY DEF ServiceNext, LinksStep, SubscriptionsStep, CheckoutsStep, ReadsStep, CacheStep, BoardsStep,
   MessagesStep, NoticesStep, LogStep, DaysStep, AlertsStep, LimitsStep, GateStep, SlotsStep,
   StreamsStep, EventsStep, RefsStep, CommandsStep, Only, serviceVars, messagesVars, noticesVars,
   changelogVars, analyticsVars, alertsVars

-----------------------------------------------------------------------------
(* The changelog.  The request that created the entry is one; before an     *)
(* entry is there nobody has created it, is about to post its embed, or has *)
(* posted one.                                                              *)
LogReqRows == [step : {"idle", "legacy", "ensure", "select", "write", "notify", "done"},
               created : BOOLEAN]
LogAnswers == [status : {0, 200, 400, 502, 503}, created : BOOLEAN]

Creator(r) == logAnswer[r].created \/ (logReq[r].step = "notify" /\ logReq[r].created)
OneCreator == \A r, s \in Log!Requests : Creator(r) /\ Creator(s) => r = s
BeforeTheEntry ==
    entry = "none" => /\ ~wrote /\ embeds \cap Entries = {}
                      /\ \A r \in Log!Requests : ~Creator(r) /\ logReq[r].step # "notify"
LogTypes ==
    /\ entry \in {"none", "backfill", "upsert"}
    /\ logReq \in [Log!Requests -> LogReqRows] /\ logAnswer \in [Log!Requests -> LogAnswers]
LogInv == LogTypes /\ OneCreator /\ BeforeTheEntry /\ (wrote => entry = "upsert")

LEMMA LogInit == Log!Init => LogInv
<1> SUFFICES ASSUME Log!Init PROVE LogInv
  OBVIOUS
<1> DEFINE i == Log!At("idle", FALSE)
           a == Log!NoAnswer
<1>1. i \in LogReqRows /\ i.step = "idle" /\ a \in LogAnswers /\ ~a.created
  BY DEF Log!At, Log!NoAnswer, LogReqRows, LogAnswers
<1>2. /\ logReq = [r \in Log!Requests |-> i] /\ logAnswer = [r \in Log!Requests |-> a]
      /\ entry = "none" /\ embeds = {} /\ wrote = FALSE
  BY DEF Log!Init
<1> HIDE DEF i, a
<1>. QED  BY <1>1, <1>2 DEF LogInv, LogTypes, OneCreator, BeforeTheEntry, Creator

(* A request goes on, or ends; the entry stays or comes from the backfill.  *)
LEMMA LogMoves ==
    ASSUME LogInv, NEW r \in Log!Requests, NEW q \in LogReqRows, NEW a \in LogAnswers,
           logReq' = [logReq EXCEPT ![r] = q], logAnswer' = [logAnswer EXCEPT ![r] = a],
           a.created \/ (q.step = "notify" /\ q.created) => Creator(r),
           q.step = "notify" => entry # "none",
           entry' = entry \/ (entry = "none" /\ entry' = "backfill"), wrote' = wrote,
           embeds' \cap Entries = embeds \cap Entries \/ entry # "none"
    PROVE  LogInv'
<1>1. LogTypes'
  BY DEF LogInv, LogTypes
<1>2. \A s \in Log!Requests : Creator(s)' => Creator(s)
  BY DEF LogInv, LogTypes, Creator
<1>3. OneCreator'
  BY <1>2 DEF LogInv, OneCreator
<1>4. BeforeTheEntry'
  BY <1>2 DEF LogInv, LogTypes, BeforeTheEntry
<1>. QED  BY <1>1, <1>3, <1>4 DEF LogInv

LEMMA LogGoes ==
    ASSUME LogInv, NEW r \in Log!Requests, NEW next \in {"done", "ensure", "legacy", "select"},
           Log!Go(r, next), UNCHANGED <<logAnswer, wrote>>,
           entry' = entry \/ (entry = "none" /\ entry' = "backfill"),
           embeds' \cap Entries = embeds \cap Entries
    PROVE  LogInv'
<1> DEFINE q == [logReq[r] EXCEPT !.step = next]
           a == logAnswer[r]
<1>1. q \in LogReqRows /\ q.step = next /\ a \in LogAnswers
  BY DEF LogInv, LogTypes, LogReqRows
<1>2. logReq' = [logReq EXCEPT ![r] = q] /\ logAnswer' = [logAnswer EXCEPT ![r] = a]
  BY DEF Log!Go, LogInv, LogTypes
<1>3. a.created => Creator(r)
  BY DEF Creator
<1> HIDE DEF q, a
<1>. QED  BY <1>1, <1>2, <1>3, LogMoves

(* An end that creates nothing.                                             *)
Stops(r) ==
    \E q \in LogReqRows, a \in LogAnswers :
        /\ q.step = "done" /\ ~a.created
        /\ logReq' = [logReq EXCEPT ![r] = q] /\ logAnswer' = [logAnswer EXCEPT ![r] = a]
Stopped == [step |-> "done", created |-> FALSE]
Saying(code) == [status |-> code, created |-> FALSE]
LEMMA EndStops ==
    ASSUME NEW r, NEW code \in {200, 400, 502, 503},
           logReq' = [logReq EXCEPT ![r] = Stopped], logAnswer' = [logAnswer EXCEPT ![r] = Saying(code)]
    PROVE  Stops(r)
<1> DEFINE q == Stopped
           a == Saying(code)
<1>1. q \in LogReqRows /\ a \in LogAnswers /\ q.step = "done" /\ ~a.created
  BY DEF LogReqRows, LogAnswers, Stopped, Saying
<1> HIDE DEF q, a
<1>2. logReq' = [logReq EXCEPT ![r] = q] /\ logAnswer' = [logAnswer EXCEPT ![r] = a]
  BY DEF q, a
<1>. QED  BY <1>1, <1>2 DEF Stops

LEMMA LogStops ==
    ASSUME LogInv, NEW r \in Log!Requests, Stops(r), UNCHANGED <<entry, wrote>>,
           embeds' \cap Entries = embeds \cap Entries \/ entry # "none"
    PROVE  LogInv'
BY LogMoves DEF Stops

LEMMA LogFails ==
    ASSUME LogInv, NEW r \in Log!Requests, Log!UpsertFails(r), UNCHANGED <<entry, wrote, embeds>>
    PROVE  LogInv'
<1>1. Stops(r)
  BY EndStops DEF Log!UpsertFails, Log!End, Log!At, Log!Answer, Stopped, Saying
<1>. QED  BY <1>1, LogStops

LEMMA LogWrites == ASSUME LogInv, NEW r \in Log!Requests, Log!upsertWrite(r) PROVE LogInv'
<1>1. CASE Log!UpsertFails(r) /\ UNCHANGED <<entry, wrote>>
  BY <1>1, LogFails DEF Log!upsertWrite
<1>2. CASE ~(Log!UpsertFails(r) /\ UNCHANGED <<entry, wrote>>)
  <2>1. /\ logReq[r].step = "write" /\ (~logReq[r].created \/ entry = "none")
        /\ entry' = "upsert" /\ wrote' = TRUE /\ embeds' = embeds
        /\ IF r \in Entries THEN Log!Go(r, "notify") /\ logAnswer' = logAnswer
           ELSE Log!End(r, 200, logReq[r].created)
    BY <1>2 DEF Log!upsertWrite
  <2>2. /\ logReq \in [Log!Requests -> LogReqRows] /\ logAnswer \in [Log!Requests -> LogAnswers]
        /\ logReq[r] \in LogReqRows /\ logReq[r].created \in BOOLEAN
    BY DEF LogInv, LogTypes, LogReqRows
  <2>3. /\ LogTypes'
        /\ \A s \in Log!Requests \ {r} : Creator(s)' <=> Creator(s)
        /\ Creator(r)' => Creator(r) \/ entry = "none"
    <3>1. CASE r \in Entries
      <4> DEFINE q == [logReq[r] EXCEPT !.step = "notify"]
      <4>1. q \in LogReqRows /\ q.step = "notify" /\ q.created = logReq[r].created
        BY <2>2 DEF LogReqRows
      <4>2. logReq' = [logReq EXCEPT ![r] = q] /\ logAnswer' = logAnswer
        BY <2>1, <3>1 DEF Log!Go
      <4> HIDE DEF q
      <4>. QED  BY <2>1, <2>2, <4>1, <4>2 DEF LogTypes, Creator
    <3>2. CASE r \notin Entries
      <4> DEFINE q == Log!At("done", FALSE)
                 a == Log!Answer(200, logReq[r].created)
      <4>1. q \in LogReqRows /\ q.step = "done" /\ a \in LogAnswers /\ a.created = logReq[r].created
        BY <2>2 DEF Log!At, Log!Answer, LogReqRows, LogAnswers
      <4>2. logReq' = [logReq EXCEPT ![r] = q] /\ logAnswer' = [logAnswer EXCEPT ![r] = a]
        BY <2>1, <3>2 DEF Log!End
      <4> HIDE DEF q, a
      <4>. QED  BY <2>1, <2>2, <4>1, <4>2 DEF LogTypes, Creator
    <3>. QED  BY <3>1, <3>2
  <2>4. OneCreator'
    BY <2>3 DEF LogInv, OneCreator, BeforeTheEntry
  <2>5. BeforeTheEntry'
    BY <2>1 DEF BeforeTheEntry
  <2>. QED  BY <2>1, <2>3, <2>4, <2>5 DEF LogInv
<1>. QED  BY <1>1, <1>2

LEMMA LogNext == LogInv /\ [Log!Next]_changelogVars => LogInv'
<1> SUFFICES ASSUME LogInv, [Log!Next]_changelogVars PROVE LogInv'
  OBVIOUS
<1>1. ASSUME NEW r \in Log!Requests, Log!PostEntry(r) \/ Log!PostRelease(r) \/ Log!recordChangelogPost(r)
      PROVE  LogInv'
  <2>1. UNCHANGED <<entry, logAnswer, embeds, wrote>> /\ (Log!Go(r, "ensure") \/ Log!Go(r, "done"))
    BY <1>1 DEF Log!PostEntry, Log!PostRelease, Log!recordChangelogPost, Log!Go
  <2>. QED  BY <2>1, LogGoes
<1>2. ASSUME NEW r \in Log!Requests, Log!PostPost(r) PROVE LogInv'
  <2>1. UNCHANGED <<entry, wrote>> /\ r \notin Entries
    BY <1>2, ChangelogAssumption DEF Log!PostPost
  <2>2. CASE Log!Go(r, "legacy") /\ embeds' = embeds \cup {r} /\ UNCHANGED logAnswer
    BY <2>1, <2>2, LogGoes
  <2>3. CASE Stops(r) /\ UNCHANGED embeds
    BY <2>1, <2>3, LogStops
  <2>4. \/ Log!Go(r, "legacy") /\ embeds' = embeds \cup {r} /\ UNCHANGED logAnswer
        \/ Stops(r) /\ UNCHANGED embeds
    BY <1>2, EndStops DEF Log!PostPost, Log!End, Log!At, Log!Answer, Stopped, Saying
  <2>. QED  BY <2>2, <2>3, <2>4
<1>3. ASSUME NEW r \in Log!Requests, Log!ensureChangelogEntrySchema(r) PROVE LogInv'
  <2>1. UNCHANGED <<post, embeds, wrote>>
    BY <1>3 DEF Log!ensureChangelogEntrySchema
  <2>2. \/ Log!UpsertFails(r) /\ UNCHANGED entry
        \/ /\ Log!Go(r, "select") /\ UNCHANGED logAnswer
           /\ entry' = entry \/ entry' = Log!Backfill
    BY <1>3 DEF Log!ensureChangelogEntrySchema
  <2>. QED  BY <2>1, <2>2, LogFails, LogGoes DEF Log!Backfill
<1>4. ASSUME NEW r \in Log!Requests, Log!upsertSelect(r) PROVE LogInv'
  <2>1. UNCHANGED <<entry, embeds, wrote>>
    BY <1>4 DEF Log!upsertSelect
  <2>2. CASE Log!UpsertFails(r)
    BY <2>1, <2>2, LogFails
  <2>3. CASE ~Log!UpsertFails(r)
    <3> DEFINE q == Log!At("write", entry = "none")
               a == logAnswer[r]
    <3>1. logReq' = [logReq EXCEPT ![r] = q] /\ logAnswer' = [logAnswer EXCEPT ![r] = a]
      BY <1>4, <2>3 DEF Log!upsertSelect, LogInv, LogTypes
    <3>2. q \in LogReqRows /\ q.step = "write" /\ a \in LogAnswers
      BY DEF Log!At, LogReqRows, LogInv, LogTypes
    <3>3. a.created => Creator(r)
      BY DEF Creator
    <3> HIDE DEF q, a
    <3>. QED  BY <2>1, <3>1, <3>2, <3>3, LogMoves
  <2>. QED  BY <2>2, <2>3
<1>5. ASSUME NEW r \in Log!Requests, Log!Notify(r) PROVE LogInv'
  <2>1. /\ UNCHANGED <<entry, wrote>> /\ logReq[r].step = "notify" /\ entry # "none"
        /\ logReq[r].created \in BOOLEAN
    BY <1>5 DEF Log!Notify, LogInv, BeforeTheEntry, LogTypes, LogReqRows
  <2> DEFINE q == Log!At("done", FALSE)
             a == Log!Answer(200, logReq[r].created)
  <2>2. CASE logReq' = [logReq EXCEPT ![r] = q] /\ logAnswer' = [logAnswer EXCEPT ![r] = a]
    <3>1. q \in LogReqRows /\ q.step = "done" /\ a \in LogAnswers /\ a.created = logReq[r].created
      BY <2>1 DEF Log!At, Log!Answer, LogReqRows, LogAnswers
    <3> HIDE DEF a, q
    <3>2. a.created => Creator(r)
      BY <2>1, <3>1 DEF Creator
    <3>. QED  BY <2>1, <2>2, <3>1, <3>2, LogMoves
  <2>3. CASE Stops(r)
    BY <2>1, <2>3, LogStops
  <2>4. \/ logReq' = [logReq EXCEPT ![r] = q] /\ logAnswer' = [logAnswer EXCEPT ![r] = a]
        \/ Stops(r)
    BY <1>5, EndStops DEF Log!Notify, Log!End, Log!At, Log!Answer, Stopped, Saying
  <2>. QED  BY <2>2, <2>3, <2>4
<1>6. CASE UNCHANGED <<entry, logReq, logAnswer, embeds, wrote>>
  BY <1>6 DEF LogInv, LogTypes, OneCreator, BeforeTheEntry, Creator
<1>. QED
  BY <1>1, <1>2, <1>3, <1>4, <1>5, <1>6, LogWrites
  DEF Log!Next, Log!pruneDuplicateChangelogPosts, Log!NewIsolate, changelogVars

(* One id is created once, whoever writes it and whatever is backfilled.    *)
THEOREM ChangelogInvariant == ServiceSpec => [](part = "changelog" => LogInv)
<1>1. ServiceInit => (part = "changelog" => LogInv)
  BY LogInit DEF ServiceInit
<1>2. (part = "changelog" => LogInv) /\ [ServiceNext]_serviceVars => (part = "changelog" => LogInv)'
  BY JobsMove, LogNext
<1>. QED  BY <1>1, <1>2, PTL DEF ServiceSpec

LEMMA SameCount == \A S : Log!Cardinality(S) = Cardinality(S)
BY DEF Log!Cardinality, Cardinality

LEMMA AtMostOne ==
    ASSUME NEW S, \A x, y \in S : x = y PROVE Cardinality(S) <= 1
<1>1. CASE S = {}
  BY <1>1, FS_EmptySet
<1>2. CASE \E x : S = {x}
  BY <1>2, FS_Singleton
<1>. QED  BY <1>1, <1>2

(* No two requests are told that they created the entry, the backfill takes *)
(* nothing back, and an embed leads to a row.                               *)
THEOREM EntryKept == ServiceSpec => []EntryIsKept
<1>1. ASSUME LogInv PROVE Log!EntryIsKept
  <2> DEFINE S == {r \in Log!Requests : logAnswer[r].created}
  <2>1. \A x, y \in S : x = y
    BY <1>1 DEF LogInv, OneCreator, Creator
  <2>2. Cardinality(S) <= 1
    <3> HIDE DEF S
    <3>. QED  BY <2>1, AtMostOne
  <2>3. Log!Cardinality(S) <= 1
    BY <2>2, SameCount
  <2>. QED  BY <1>1, <2>3 DEF LogInv, BeforeTheEntry, Log!EntryIsKept
<1>2. (part = "changelog" => LogInv) => EntryIsKept
  BY <1>1 DEF EntryIsKept
<1>. QED  BY <1>2, ChangelogInvariant, PTL

-----------------------------------------------------------------------------
(* The notices.  A pass that sends or releases holds the one claim of its   *)
(* notice, and until an answer of Discord was missed nothing went out       *)
(* before that claim.                                                       *)
NoticeSteps == {"idle", "run", "cooldown", "ceiling", "claim", "send", "release", "dead"}
PassRows == [at : NoticeSteps, now : Nat, todo : SUBSET Notices!Notices, n : Notices!Notices \cup {"nothing"}]

Carries(p, n) == noticePass[p].n = n /\ noticePass[p].at \in {"send", "release"}
PassNamesOne ==
    \A p \in NoticePasses : noticePass[p].at \in {"cooldown", "ceiling", "claim", "send", "release"}
        => noticePass[p].n \in Notices!Notices
OneHolds ==
    \A n \in Notices!Notices : \A p, q \in NoticePasses :
        Carries(p, n) => ledger[n] # 0 /\ (Carries(q, n) => p = q)
SentUnderClaim ==
    \A n \in Notices!Notices : n \notin unheard =>
        /\ sent[n] <= 1
        /\ ledger[n] = 0 \/ (\E p \in NoticePasses : Carries(p, n)) => sent[n] = 0
ClaimIsUsed ==
    \A n \in Notices!Notices : ledger[n] # 0 => (\E p \in NoticePasses : Carries(p, n)) \/ sent[n] > 0 \/ n \in stuck
NoticeTypes ==
    /\ noticeMinute \in 1..LastMinute /\ ledger \in [Notices!Notices -> 0..LastMinute]
    /\ noticePass \in [NoticePasses -> PassRows]
    /\ sent \in [Notices!Notices -> Nat]
NoticeInv == NoticeTypes /\ PassNamesOne /\ OneHolds /\ SentUnderClaim /\ ClaimIsUsed

LEMMA NoticeInit == Notices!Init => NoticeInv
<1> SUFFICES ASSUME Notices!Init PROVE NoticeInv
  OBVIOUS
<1> DEFINE u == Notices!Unborn
<1>1. u \in PassRows /\ u.at = "idle"
  BY DEF Notices!Unborn, PassRows, NoticeSteps, Notices!Nothing
<1>2. noticePass = [p \in NoticePasses |-> u]
  BY DEF Notices!Init
<1> HIDE DEF u
<1>3. \A p \in NoticePasses : noticePass[p] \in PassRows /\ noticePass[p].at = "idle"
  BY <1>1, <1>2
<1>4. /\ \A n \in Notices!Notices : ledger[n] = 0 /\ sent[n] = 0
      /\ noticeMinute = 1 /\ ledger \in [Notices!Notices -> 0..LastMinute]
      /\ sent \in [Notices!Notices -> Nat]
  BY NoticesAssumption DEF Notices!Init
<1>5. NoticeTypes
  BY <1>1, <1>2, <1>4, NoticesAssumption DEF NoticeTypes
<1>. QED
  BY <1>3, <1>4, <1>5 DEF NoticeInv, PassNamesOne, OneHolds, SentUnderClaim, ClaimIsUsed, Carries

(* A pass moves with no claim in hand before and none after.                *)
LEMMA PassMoves ==
    ASSUME NoticeInv, NEW p \in NoticePasses, NEW q \in PassRows,
           noticePass' = [noticePass EXCEPT ![p] = q],
           noticePass[p].at \notin {"send", "release"}, q.at \notin {"send", "release"},
           q.at \in {"cooldown", "ceiling", "claim"} => q.n \in Notices!Notices,
           UNCHANGED <<noticeMinute, ledger, sent, unheard>>, stuck \subseteq stuck'
    PROVE  NoticeInv'
<1>1. \A r \in NoticePasses, n \in Notices!Notices : Carries(r, n)' <=> Carries(r, n)
  BY DEF NoticeInv, NoticeTypes, Carries
<1>2. NoticeTypes' /\ PassNamesOne'
  BY DEF NoticeInv, NoticeTypes, PassNamesOne
<1>3. OneHolds' /\ SentUnderClaim'
  BY <1>1 DEF NoticeInv, OneHolds, SentUnderClaim
<1>4. ClaimIsUsed'
  BY <1>1 DEF NoticeInv, ClaimIsUsed
<1>. QED  BY <1>2, <1>3, <1>4 DEF NoticeInv

(* What Rest, Take and To make of a pass.                                   *)
LEMMA Rests ==
    ASSUME NoticeInv, NEW p \in NoticePasses, Notices!Rest(p)
    PROVE  \E q \in PassRows : noticePass' = [noticePass EXCEPT ![p] = q] /\ q.at = "run"
<1> DEFINE q == [noticePass[p] EXCEPT !.at = "run", !.n = "nothing"]
<1>1. noticePass \in [NoticePasses -> PassRows] /\ noticePass[p] \in PassRows
  BY DEF NoticeInv, NoticeTypes
<1>2. noticePass' = [noticePass EXCEPT ![p] = q]
  BY <1>1 DEF Notices!Rest, Notices!Nothing, PassRows
<1>3. q \in PassRows /\ q.at = "run"
  BY <1>1 DEF PassRows, NoticeSteps
<1> HIDE DEF q
<1>. QED  BY <1>2, <1>3

LEMMA Takes ==
    ASSUME NoticeInv, NEW p \in NoticePasses, NEW n \in Notices!Notices,
           NEW next \in {"cooldown", "ceiling", "claim", "run"}, Notices!Take(p, n, next)
    PROVE  \E q \in PassRows : noticePass' = [noticePass EXCEPT ![p] = q] /\ q.at = next /\ q.n = n
<1> DEFINE q == [noticePass[p] EXCEPT !.at = next, !.n = n, !.todo = noticePass[p].todo \ {n}]
<1>1. noticePass \in [NoticePasses -> PassRows] /\ noticePass[p] \in PassRows
  BY DEF NoticeInv, NoticeTypes
<1>2. noticePass' = [noticePass EXCEPT ![p] = q]
  BY <1>1 DEF Notices!Take, PassRows
<1>3. q \in PassRows /\ q.at = next /\ q.n = n
  BY <1>1 DEF PassRows, NoticeSteps
<1> HIDE DEF q
<1>. QED  BY <1>2, <1>3

LEMMA Goes ==
    ASSUME NoticeInv, NEW p \in NoticePasses, NEW next \in NoticeSteps, Notices!To(p, next)
    PROVE  \E q \in PassRows : /\ noticePass' = [noticePass EXCEPT ![p] = q]
                               /\ q.at = next /\ q.n = noticePass[p].n
<1> DEFINE q == [noticePass[p] EXCEPT !.at = next]
<1>1. noticePass \in [NoticePasses -> PassRows] /\ noticePass[p] \in PassRows
  BY DEF NoticeInv, NoticeTypes
<1>2. noticePass' = [noticePass EXCEPT ![p] = q]
  BY DEF Notices!To
<1>3. q \in PassRows /\ q.at = next /\ q.n = noticePass[p].n
  BY <1>1 DEF PassRows
<1> HIDE DEF q
<1>. QED  BY <1>2, <1>3

LEMMA WayStep ==
    ASSUME NoticeInv, NEW p \in NoticePasses,
           \/ Notices!Begin(p) \/ Notices!CoolDown(p) \/ Notices!Ceiling(p)
           \/ \E n \in Notices!Notices :
                Notices!FireRouted(p, n) \/ Notices!RemindVote(p, n) \/ Notices!TellPlayer(p, n)
    PROVE  NoticeInv'
<1>1. CASE Notices!Begin(p)
  <2> DEFINE q == [at |-> "run", now |-> noticeMinute, n |-> "nothing",
                   todo |-> {n \in Notices!Notices : noticeMinute \in Window[n]}]
  <2>1. /\ noticePass' = [noticePass EXCEPT ![p] = q] /\ noticePass[p].at = "idle"
        /\ UNCHANGED <<noticeMinute, ledger, sent, unheard, stuck>>
    BY <1>1 DEF Notices!Begin, Notices!Nothing
  <2>2. q \in PassRows /\ q.at = "run"
    BY DEF PassRows, NoticeSteps, NoticeInv, NoticeTypes
  <2> HIDE DEF q
  <2>. QED  BY <2>1, <2>2, PassMoves
<1>2. CASE Notices!CoolDown(p) \/ Notices!Ceiling(p)
  <2>1. /\ UNCHANGED <<noticeMinute, ledger, sent, unheard, stuck>>
        /\ noticePass[p].at \in {"cooldown", "ceiling"}
        /\ Notices!Rest(p) \/ Notices!To(p, "ceiling") \/ Notices!To(p, "claim")
    BY <1>2 DEF Notices!CoolDown, Notices!Ceiling
  <2>2. noticePass[p].n \in Notices!Notices /\ "ceiling" \in NoticeSteps /\ "claim" \in NoticeSteps
    BY <2>1 DEF NoticeInv, PassNamesOne, NoticeSteps
  <2>3. \E q \in PassRows : /\ noticePass' = [noticePass EXCEPT ![p] = q]
                            /\ q.at \in {"run", "ceiling", "claim"}
                            /\ q.at # "run" => q.n \in Notices!Notices
    BY <2>1, <2>2, Rests, Goes
  <2>. QED  BY <2>1, <2>3, PassMoves
<1>3. ASSUME NEW n \in Notices!Notices,
             Notices!FireRouted(p, n) \/ Notices!RemindVote(p, n) \/ Notices!TellPlayer(p, n)
      PROVE  NoticeInv'
  <2>1. /\ UNCHANGED <<noticeMinute, ledger, sent, unheard, stuck>>
        /\ noticePass[p].at = "run"
        /\ \/ Notices!Take(p, n, "cooldown") \/ Notices!Take(p, n, "ceiling")
           \/ Notices!Take(p, n, "claim") \/ Notices!Take(p, n, "run")
    BY <1>3 DEF Notices!FireRouted, Notices!RemindVote, Notices!TellPlayer
  <2>2. \E q \in PassRows : /\ noticePass' = [noticePass EXCEPT ![p] = q]
                            /\ q.at \in {"run", "cooldown", "ceiling", "claim"} /\ q.n = n
    BY <2>1, Takes
  <2>. QED  BY <2>1, <2>2, PassMoves
<1>. QED  BY <1>1, <1>2, <1>3

LEMMA ClaimStep == ASSUME NoticeInv, NEW p \in NoticePasses, Notices!Claim(p) PROVE NoticeInv'
<1>0. noticePass[p].n \in Notices!Notices
  BY DEF Notices!Claim, NoticeInv, PassNamesOne
<1> PICK n \in Notices!Notices : n = noticePass[p].n
  BY <1>0
<1>1. /\ noticePass[p].at = "claim" /\ noticePass[p].n = n
      /\ UNCHANGED <<noticeMinute, sent, unheard>>
  BY DEF Notices!Claim
<1>2. /\ noticeMinute \in 1..LastMinute /\ noticeMinute # 0 /\ noticePass \in [NoticePasses -> PassRows]
      /\ ledger \in [Notices!Notices -> 0..LastMinute] /\ "send" \in NoticeSteps
  BY NoticesAssumption DEF NoticeInv, NoticeTypes, NoticeSteps
<1>3. \/ Notices!Rest(p) /\ UNCHANGED <<ledger, stuck>>
      \/ /\ ledger[n] = 0 /\ ledger' = [ledger EXCEPT ![n] = noticeMinute]
         /\ \/ Notices!To(p, "send") /\ UNCHANGED stuck
            \/ Notices!Rest(p) /\ stuck' = stuck \cup {n}
  BY DEF Notices!Claim
<1>4. CASE Notices!Rest(p) /\ UNCHANGED <<ledger, stuck>>
  BY <1>1, <1>4, Rests, PassMoves
<1>5. CASE /\ ledger[n] = 0 /\ ledger' = [ledger EXCEPT ![n] = noticeMinute]
           /\ \/ Notices!To(p, "send") /\ UNCHANGED stuck
              \/ Notices!Rest(p) /\ stuck' = stuck \cup {n}
  <2>1. PICK q \in PassRows : /\ noticePass' = [noticePass EXCEPT ![p] = q]
                              /\ \/ q.at = "send" /\ q.n = n
                                 \/ q.at = "run" /\ n \in stuck'
                              /\ stuck \subseteq stuck'
    BY <1>2, <1>5, Rests, Goes
  <2>2. \A r \in NoticePasses, k \in Notices!Notices :
           Carries(r, k)' <=> \/ Carries(r, k)
                              \/ r = p /\ k = n /\ q.at = "send"
    BY <1>1, <1>2, <2>1 DEF Carries
  <2>3. \A r \in NoticePasses : ~Carries(r, n)
    BY <1>5, <1>1 DEF NoticeInv, OneHolds
  <2>4. NoticeTypes' /\ PassNamesOne'
    BY <1>1, <1>2, <1>5, <2>1 DEF NoticeInv, NoticeTypes, PassNamesOne
  <2>5. ledger'[n] # 0 /\ \A k \in Notices!Notices \ {n} : ledger'[k] = ledger[k]
    BY <1>1, <1>2, <1>5
  <2>6. OneHolds'
    BY <2>2, <2>3, <2>5 DEF NoticeInv, OneHolds
  <2>7. SentUnderClaim'
    BY <1>1, <1>5, <2>2, <2>3, <2>5 DEF NoticeInv, SentUnderClaim
  <2>8. ClaimIsUsed'
    <3>1. Carries(p, n)' \/ n \in stuck'
      BY <1>1, <2>1, <2>2
    <3>. QED  BY <1>1, <2>1, <2>2, <2>5, <3>1 DEF NoticeInv, ClaimIsUsed
  <2>. QED  BY <2>4, <2>6, <2>7, <2>8 DEF NoticeInv
<1>. QED  BY <1>3, <1>4, <1>5

(* The holder of a claim sends, releases or dies.                           *)
LEMMA HolderStep ==
    ASSUME NoticeInv, NEW p \in NoticePasses,
           Notices!Send(p) \/ Notices!SendFails(p) \/ Notices!Release(p)
    PROVE  NoticeInv'
<1>0. noticePass[p].at \in {"send", "release"} /\ noticePass[p].n \in Notices!Notices
  BY DEF Notices!Send, Notices!SendFails, Notices!Release, NoticeInv, PassNamesOne
<1> PICK n \in Notices!Notices : n = noticePass[p].n
  BY <1>0
<1>1. /\ noticePass[p].at \in {"send", "release"} /\ noticePass[p].n = n /\ Carries(p, n)
      /\ UNCHANGED noticeMinute
  BY <1>0 DEF Notices!Send, Notices!SendFails, Notices!Release, Carries
<1>2. /\ noticePass \in [NoticePasses -> PassRows] /\ ledger \in [Notices!Notices -> 0..LastMinute]
      /\ sent \in [Notices!Notices -> Nat] /\ "release" \in NoticeSteps
  BY DEF NoticeInv, NoticeTypes, NoticeSteps
<1>3. \/ /\ Notices!Rest(p) /\ sent' = [sent EXCEPT ![n] = sent[n] + 1]
         /\ UNCHANGED <<ledger, unheard, stuck>>
      \/ /\ Notices!To(p, "release") /\ UNCHANGED <<ledger, stuck>>
         /\ \/ UNCHANGED <<sent, unheard>>
            \/ sent' = [sent EXCEPT ![n] = sent[n] + 1] /\ unheard' = unheard \cup {n}
      \/ /\ Notices!Rest(p) /\ UNCHANGED <<sent, unheard>>
         /\ \/ ledger' = [ledger EXCEPT ![n] = 0] /\ UNCHANGED stuck
            \/ stuck' = stuck \cup {n} /\ UNCHANGED ledger
  BY <1>2 DEF Notices!Send, Notices!SendFails, Notices!Release
<1>4. PICK q \in PassRows :
         /\ noticePass' = [noticePass EXCEPT ![p] = q]
         /\ \/ /\ q.at = "run" /\ sent' = [sent EXCEPT ![n] = sent[n] + 1]
               /\ UNCHANGED <<ledger, unheard, stuck>>
            \/ /\ q.at = "release" /\ q.n = n /\ UNCHANGED <<ledger, stuck>>
               /\ \/ UNCHANGED <<sent, unheard>>
                  \/ sent' = [sent EXCEPT ![n] = sent[n] + 1] /\ unheard' = unheard \cup {n}
            \/ /\ q.at = "run" /\ UNCHANGED <<sent, unheard>>
               /\ \/ ledger' = [ledger EXCEPT ![n] = 0] /\ UNCHANGED stuck
                  \/ stuck' = stuck \cup {n} /\ UNCHANGED ledger
  <2>1. ASSUME Notices!Rest(p)
        PROVE  \E q \in PassRows : noticePass' = [noticePass EXCEPT ![p] = q] /\ q.at = "run"
    BY <2>1, Rests
  <2>2. ASSUME Notices!To(p, "release")
        PROVE  \E q \in PassRows : /\ noticePass' = [noticePass EXCEPT ![p] = q]
                                   /\ q.at = "release" /\ q.n = n
    BY <1>1, <1>2, <2>2, Goes
  <2>. QED  BY <1>3, <2>1, <2>2
<1>5. \A r \in NoticePasses, k \in Notices!Notices :
         /\ r # p => (Carries(r, k)' <=> Carries(r, k))
         /\ Carries(p, k)' <=> q.at = "release" /\ k = n
  BY <1>1, <1>2, <1>4 DEF Carries
<1>6. \A r \in NoticePasses : Carries(r, n) => r = p
  BY <1>1 DEF NoticeInv, OneHolds
<1>7. ledger[n] # 0 /\ (n \notin unheard => sent[n] = 0)
  BY <1>1 DEF NoticeInv, OneHolds, SentUnderClaim
<1>8. \A k \in Notices!Notices : k # n => ledger'[k] = ledger[k] /\ sent'[k] = sent[k]
  BY <1>2, <1>4
<1>9. NoticeTypes' /\ PassNamesOne'
  BY <1>1, <1>2, <1>4, NoticesAssumption DEF NoticeInv, NoticeTypes, PassNamesOne
<1>10. /\ unheard \subseteq unheard' /\ stuck \subseteq stuck' /\ unheard' \subseteq unheard \cup {n}
       /\ q.at = "release" => ledger'[n] # 0 /\ (n \notin unheard' => sent'[n] = 0)
       /\ q.at = "run" => \/ /\ sent'[n] = sent[n] + 1 /\ sent'[n] > 0
                             /\ ledger'[n] # 0
                          \/ /\ sent'[n] = sent[n]
                             /\ ledger'[n] = 0 \/ n \in stuck'
  <2>1. sent[n] \in Nat
    BY <1>2
  <2>2. sent'[n] \in {sent[n], sent[n] + 1} /\ (unheard' # unheard => n \in unheard')
    BY <1>2, <1>4
  <2>. QED  BY <1>1, <1>2, <1>4, <1>7, <2>1, <2>2
<1>14. \A k \in Notices!Notices : Carries(p, k) => k = n
  BY <1>1 DEF Carries
<1>11. OneHolds'
  BY <1>1, <1>4, <1>5, <1>6, <1>8, <1>10 DEF NoticeInv, OneHolds
<1>12. SentUnderClaim'
  <2> SUFFICES ASSUME NEW k \in Notices!Notices, k \notin unheard'
               PROVE  /\ sent'[k] <= 1
                      /\ ledger'[k] = 0 \/ (\E r \in NoticePasses : Carries(r, k)') => sent'[k] = 0
    BY DEF SentUnderClaim
  <2>1. CASE k = n
    <3>1. sent[n] = 0 /\ n \notin unheard
      BY <1>7, <1>10, <2>1
    <3>2. \A r \in NoticePasses : Carries(r, n)' => q.at = "release"
      BY <1>1, <1>5, <1>6
    <3>. QED  BY <1>4, <1>10, <2>1, <3>1, <3>2
  <2>2. CASE k # n
    <3>1. \A r \in NoticePasses : Carries(r, k)' => Carries(r, k)
      BY <1>5, <2>2
    <3>. QED  BY <1>8, <1>10, <2>2, <3>1 DEF NoticeInv, SentUnderClaim
  <2>. QED  BY <2>1, <2>2
<1>13. ClaimIsUsed'
  <2> SUFFICES ASSUME NEW k \in Notices!Notices, ledger'[k] # 0
               PROVE  (\E r \in NoticePasses : Carries(r, k)') \/ sent'[k] > 0 \/ k \in stuck'
    BY DEF ClaimIsUsed
  <2>1. CASE k = n
    <3>1. q.at = "release" => Carries(p, n)'
      BY <1>1, <1>5
    <3>. QED  BY <1>4, <1>7, <1>10, <2>1, <3>1
  <2>2. CASE k # n
    <3>1. (\E r \in NoticePasses : Carries(r, k)) \/ sent[k] > 0 \/ k \in stuck
      BY <1>8, <2>2 DEF NoticeInv, ClaimIsUsed
    <3>2. \A r \in NoticePasses : Carries(r, k) => r # p
      BY <1>14, <2>2
    <3>. QED  BY <1>5, <1>8, <1>10, <2>2, <3>1, <3>2
  <2>. QED  BY <2>1, <2>2
<1>. QED  BY <1>9, <1>11, <1>12, <1>13 DEF NoticeInv

LEMMA DeathStep == ASSUME NoticeInv, NEW p \in NoticePasses, Notices!Dies(p) PROVE NoticeInv'
<1> DEFINE q == [Notices!Unborn EXCEPT !.at = "dead"]
<1>1. q \in PassRows /\ q.at = "dead"
  BY DEF Notices!Unborn, PassRows, NoticeSteps, Notices!Nothing
<1>2. /\ noticePass' = [noticePass EXCEPT ![p] = q] /\ UNCHANGED <<noticeMinute, ledger, sent, unheard>>
      /\ stuck' = IF noticePass[p].at \in {"send", "release"} THEN stuck \cup {noticePass[p].n} ELSE stuck
  BY DEF Notices!Dies
<1> HIDE DEF q
<1>3. CASE noticePass[p].at \notin {"send", "release"}
  BY <1>1, <1>2, <1>3, PassMoves
<1>4. CASE noticePass[p].at \in {"send", "release"}
  <2>1. \A r \in NoticePasses, k \in Notices!Notices : Carries(r, k)' <=> r # p /\ Carries(r, k)
    BY <1>1, <1>2 DEF NoticeInv, NoticeTypes, Carries
  <2>2. NoticeTypes' /\ PassNamesOne'
    BY <1>1, <1>2 DEF NoticeInv, NoticeTypes, PassNamesOne
  <2>3. OneHolds' /\ SentUnderClaim'
    BY <1>2, <2>1 DEF NoticeInv, OneHolds, SentUnderClaim
  <2>4. ClaimIsUsed'
    <3>1. \A k \in Notices!Notices : Carries(p, k) => k = noticePass[p].n
      BY DEF Carries
    <3>. QED  BY <1>2, <1>4, <2>1, <3>1 DEF NoticeInv, ClaimIsUsed
  <2>. QED  BY <2>2, <2>3, <2>4 DEF NoticeInv
<1>. QED  BY <1>3, <1>4

LEMMA NoticeNext == NoticeInv /\ [Notices!Next]_noticesVars => NoticeInv'
<1> SUFFICES ASSUME NoticeInv, [Notices!Next]_noticesVars PROVE NoticeInv'
  OBVIOUS
<1>1. CASE UNCHANGED <<ledger, noticePass, sent, unheard, stuck>> /\ noticeMinute' \in 1..LastMinute
  BY <1>1 DEF NoticeInv, NoticeTypes, PassNamesOne, OneHolds, SentUnderClaim, ClaimIsUsed, Carries
<1>2. Notices!Tick => UNCHANGED <<ledger, noticePass, sent, unheard, stuck>> /\ noticeMinute' \in 1..LastMinute
  BY NoticesAssumption DEF Notices!Tick, NoticeInv, NoticeTypes
<1>3. CASE UNCHANGED noticesVars
  BY <1>1, <1>3 DEF noticesVars, NoticeInv, NoticeTypes
<1>. QED
  BY <1>1, <1>2, <1>3, WayStep, ClaimStep, HolderStep, DeathStep DEF Notices!Next

(* A notice has one holder of its claim, and goes out under it.             *)
THEOREM NoticeInvariant == ServiceSpec => [](part = "notices" => NoticeInv)
<1>1. ServiceInit => (part = "notices" => NoticeInv)
  BY NoticeInit DEF ServiceInit
<1>2. (part = "notices" => NoticeInv) /\ [ServiceNext]_serviceVars => (part = "notices" => NoticeInv)'
  BY JobsMove, NoticeNext
<1>. QED  BY <1>1, <1>2, PTL DEF ServiceSpec
-----------------------------------------------------------------------------
(* The queue of direct messages.  What a drain read of a row is never ahead *)
(* of the sends that failed; while no drain outlives its lease, a row that  *)
(* is held has one holder and is not due for another.                       *)
DmRows == [status : {"none", "pending", "sending", "sent", "failed"},
           attempts : 0..MaxAttempts, claimed_at : 0..DmMaxClock]
DrainRows == [step : {"idle", "claim", "send", "sent", "failed"}, now : 0..DmMaxClock,
              read : [DmMessages -> 0..Messages!Unread], row : DmMessages \cup {0}]
DmTypes ==
    /\ dm_queue \in [DmMessages -> DmRows] /\ counted \subseteq DmMessages
    /\ drain \in [Drains -> DrainRows] /\ dmClock \in 1..DmMaxClock
    /\ delivered \in [DmMessages -> Nat] /\ dmRefused \in [DmMessages -> Nat]
    /\ slow \in BOOLEAN /\ died \in BOOLEAN

Holds(d, m) == drain[d].row = m /\ drain[d].step \in {"send", "sent", "failed"}
AttemptsAreSpent ==
    \A m \in DmMessages :
        /\ dm_queue[m].status \in {"none", "pending", "sending"} => dm_queue[m].attempts < MaxAttempts
        /\ m \in counted => dm_queue[m].status = "none"
        /\ dm_queue[m].attempts <= dmRefused[m]
        /\ dm_queue[m].status = "failed" => dmRefused[m] >= MaxAttempts
        /\ dm_queue[m].status = "sent" => delivered[m] >= 1
ReadIsBehind ==
    \A d \in Drains, m \in DmMessages : drain[d].read[m] # Messages!Unread =>
        /\ drain[d].read[m] < MaxAttempts /\ drain[d].read[m] <= dmRefused[m]
        /\ dm_queue[m].status # "none"
DrainHolds ==
    \A d \in Drains : drain[d].step \in {"send", "sent", "failed"} =>
        /\ drain[d].row \in DmMessages /\ drain[d].read[drain[d].row] # Messages!Unread
        /\ drain[d].step = "failed" => dmRefused[drain[d].row] > drain[d].read[drain[d].row]
        /\ drain[d].step = "sent" => delivered[drain[d].row] >= 1
IdleHasNoRow == \A d \in Drains : drain[d].step \in {"idle", "claim"} => drain[d].row = 0
WithinLease ==
    ~slow => \A d \in Drains : drain[d].step # "idle" =>
                 drain[d].now <= dmClock /\ dmClock <= drain[d].now + Lease
OneHolder ==
    ~slow => \A d \in Drains, m \in DmMessages : Holds(d, m) =>
                 /\ dm_queue[m].status = "sending" /\ dm_queue[m].claimed_at = drain[d].now
                 /\ \A e \in Drains : Holds(e, m) => e = d
SentWas(m) == dm_queue[m].status = "sent" \/ \E d \in Drains : drain[d].step = "sent" /\ drain[d].row = m
TakenOnce ==
    ~slow /\ ~died => \A m \in DmMessages :
        /\ delivered[m] <= dmRefused[m] + 1
        /\ delivered[m] > dmRefused[m] => SentWas(m)
DmInv ==
    /\ DmTypes /\ AttemptsAreSpent /\ ReadIsBehind /\ DrainHolds /\ IdleHasNoRow
    /\ WithinLease /\ OneHolder /\ TakenOnce

LEMMA DmInit == Messages!Init => DmInv
<1> SUFFICES ASSUME Messages!Init PROVE DmInv
  OBVIOUS
<1> DEFINE q == Messages!Resting
           z == Messages!NotQueued
<1>1. /\ q \in DrainRows /\ q.step = "idle" /\ q.row = 0
      /\ \A m \in DmMessages : q.read[m] = Messages!Unread
  BY MessagesAssumption DEF Messages!Resting, DrainRows, Messages!Unread
<1>2. z \in DmRows /\ z.status = "none" /\ z.attempts = 0
  BY MessagesAssumption DEF Messages!NotQueued, DmRows
<1>3. drain = [d \in Drains |-> q] /\ dm_queue = [m \in DmMessages |-> z]
  BY DEF Messages!Init
<1> HIDE DEF q, z
<1>4. /\ counted = {} /\ dmClock = 1 /\ ~slow /\ ~died /\ slow \in BOOLEAN /\ died \in BOOLEAN
      /\ delivered = [m \in DmMessages |-> 0] /\ dmRefused = [m \in DmMessages |-> 0]
  BY DEF Messages!Init
<1>5. DmTypes
  BY <1>1, <1>2, <1>3, <1>4, MessagesAssumption DEF DmTypes
<1>6. AttemptsAreSpent
  BY <1>2, <1>3, <1>4, MessagesAssumption DEF AttemptsAreSpent
<1>7. ReadIsBehind /\ DrainHolds /\ IdleHasNoRow /\ WithinLease /\ OneHolder
  BY <1>1, <1>3 DEF IdleHasNoRow, ReadIsBehind, DrainHolds, WithinLease, OneHolder, Holds
<1>8. TakenOnce
  BY <1>4 DEF TakenOnce
<1>. QED  BY <1>5, <1>6, <1>7, <1>8 DEF DmInv

(* A message comes into the queue: nobody holds or has read it.             *)
LEMMA QueueStep ==
    ASSUME DmInv, NEW m \in DmMessages, Messages!CountPending(m) \/ Messages!InsertDm(m)
    PROVE  DmInv'
<1>1. /\ UNCHANGED <<drain, dmClock, delivered, dmRefused, slow, died>>
      /\ dm_queue[m].status = "none" /\ counted' \in {counted \cup {m}, counted \ {m}}
      /\ \/ UNCHANGED dm_queue
         \/ counted' = counted \ {m} /\ dm_queue' = [dm_queue EXCEPT ![m].status = "pending"]
  BY DEF Messages!CountPending, Messages!InsertDm, DmInv, AttemptsAreSpent
<1> DEFINE z == [dm_queue[m] EXCEPT !.status = "pending"]
<1>2. /\ z \in DmRows /\ z.status = "pending" /\ z.attempts = dm_queue[m].attempts
      /\ dm_queue \in [DmMessages -> DmRows] /\ drain \in [Drains -> DrainRows]
  BY DEF DmInv, DmTypes, DmRows
<1>3. UNCHANGED dm_queue \/ (counted' = counted \ {m} /\ dm_queue' = [dm_queue EXCEPT ![m] = z])
  BY <1>1
<1> HIDE DEF z
<1>4. \A k \in DmMessages :
         /\ k # m => dm_queue'[k] = dm_queue[k]
         /\ dm_queue'[m] = dm_queue[m] \/ (m \notin counted' /\ dm_queue'[m] = z)
  BY <1>2, <1>3
<1>5. \A d \in Drains, k \in DmMessages : Holds(d, k)' <=> Holds(d, k)
  BY <1>1 DEF Holds
<1>6. DmTypes'
  BY <1>1, <1>2, <1>3 DEF DmInv, DmTypes
<1>7. AttemptsAreSpent'
  BY <1>1, <1>2, <1>4 DEF DmInv, AttemptsAreSpent
<1>8. ReadIsBehind' /\ DrainHolds' /\ IdleHasNoRow' /\ WithinLease'
  BY <1>1, <1>2, <1>4 DEF DmInv, IdleHasNoRow, ReadIsBehind, DrainHolds, WithinLease
<1>9. OneHolder'
  BY <1>1, <1>4, <1>5 DEF DmInv, OneHolder
<1>10. TakenOnce'
  BY <1>1, <1>4 DEF DmInv, TakenOnce, SentWas
<1>. QED  BY <1>6, <1>7, <1>8, <1>9, <1>10 DEF DmInv

(* A drain begins, gives a row up, ends or dies: it takes and holds nothing.*)
LEMMA DrainMoves ==
    ASSUME DmInv, NEW d \in Drains, NEW q \in DrainRows,
           drain' = [drain EXCEPT ![d] = q], q.step \in {"idle", "claim"}, q.row = 0,
           q.step = "claim" => q.now = drain[d].now \/ q.now = dmClock,
           q.step = "claim" /\ drain[d].step = "idle" => q.now = dmClock,
           \A m \in DmMessages : q.read[m] # Messages!Unread =>
               \/ q.read[m] = drain[d].read[m]
               \/ /\ dm_queue[m].status \in {"pending", "sending"}
                  /\ q.read[m] = dm_queue[m].attempts,
           died' \in BOOLEAN, died \/ drain[d].row # 0 => died',
           UNCHANGED <<dm_queue, counted, dmClock, delivered, dmRefused, slow>>
    PROVE  DmInv'
<1>0. /\ dm_queue \in [DmMessages -> DmRows] /\ drain \in [Drains -> DrainRows]
      /\ 0 \notin DmMessages
  BY MessagesAssumption DEF DmInv, DmTypes
<1>1. \A e \in Drains : drain'[e] = IF e = d THEN q ELSE drain[e]
  BY <1>0
<1>2. \A e \in Drains, k \in DmMessages : Holds(e, k)' <=> e # d /\ Holds(e, k)
  BY <1>1 DEF Holds
<1>3. DmTypes'
  BY <1>0 DEF DmInv, DmTypes
<1>4. AttemptsAreSpent'
  BY DEF DmInv, AttemptsAreSpent
<1>5. ReadIsBehind'
  BY <1>0, <1>1 DEF DmInv, ReadIsBehind, AttemptsAreSpent
<1>6. DrainHolds' /\ IdleHasNoRow'
  BY <1>1 DEF DmInv, DrainHolds, IdleHasNoRow
<1>7. WithinLease'
  BY <1>1, MessagesAssumption DEF DmInv, WithinLease, DmTypes
<1>8. OneHolder'
  BY <1>1, <1>2 DEF DmInv, OneHolder
<1>9. TakenOnce'
  BY <1>0, <1>1 DEF DmInv, TakenOnce, SentWas
<1>. QED  BY <1>3, <1>4, <1>5, <1>6, <1>7, <1>8, <1>9 DEF DmInv

LEMMA DrainStep ==
    ASSUME DmInv, NEW d \in Drains,
           Messages!StartDrain(d) \/ Messages!Finish(d) \/ Messages!Die(d)
    PROVE  DmInv'
<1>1. CASE Messages!StartDrain(d)
  <2> DEFINE q == [step |-> "claim", now |-> dmClock, row |-> 0,
                   read |-> [m \in DmMessages |-> IF Messages!Due(m, dmClock)
                               THEN dm_queue[m].attempts ELSE Messages!Unread]]
  <2>1. /\ drain' = [drain EXCEPT ![d] = q] /\ drain[d].step = "idle"
        /\ UNCHANGED <<dm_queue, counted, dmClock, delivered, dmRefused, slow, died>>
    BY <1>1 DEF Messages!StartDrain
  <2>2. q \in DrainRows /\ q.step = "claim" /\ q.row = 0 /\ q.now = dmClock
    BY MessagesAssumption DEF DrainRows, DmInv, DmTypes, DmRows, Messages!Unread
  <2>3. \A m \in DmMessages : q.read[m] # Messages!Unread =>
           dm_queue[m].status \in {"pending", "sending"} /\ q.read[m] = dm_queue[m].attempts
    BY DEF Messages!Due
  <2>4. drain[d].row = 0 /\ died' \in BOOLEAN /\ (died => died')
    BY <2>1 DEF DmInv, DmTypes, IdleHasNoRow
  <2> HIDE DEF q
  <2>. QED  BY <2>1, <2>2, <2>3, <2>4, DrainMoves
<1>2. CASE Messages!Finish(d) \/ Messages!Die(d)
  <2> DEFINE q == Messages!Resting
  <2>1. /\ q \in DrainRows /\ q.step = "idle" /\ q.row = 0
        /\ \A m \in DmMessages : q.read[m] = Messages!Unread
    BY MessagesAssumption DEF Messages!Resting, DrainRows, Messages!Unread
  <2>2. /\ drain' = [drain EXCEPT ![d] = q]
        /\ UNCHANGED <<dm_queue, counted, dmClock, delivered, dmRefused, slow>>
    BY <1>2 DEF Messages!Finish, Messages!Die
  <2>3. died' \in BOOLEAN /\ (died \/ drain[d].row # 0 => died')
    <3>1. CASE Messages!Finish(d)
      BY <3>1 DEF Messages!Finish, DmInv, IdleHasNoRow, DmTypes
    <3>2. CASE Messages!Die(d)
      BY <3>2 DEF Messages!Die
    <3>. QED  BY <1>2, <3>1, <3>2
  <2> HIDE DEF q
  <2>. QED  BY <2>1, <2>2, <2>3, DrainMoves
<1>. QED  BY <1>1, <1>2

(* The claim: a row that another drain holds is not due.                    *)
LEMMA DmClaim ==
    ASSUME DmInv, NEW d \in Drains, NEW m \in DmMessages, Messages!Claim(d, m)
    PROVE  DmInv'
<1>1. /\ drain[d].step = "claim" /\ drain[d].read[m] # Messages!Unread /\ drain[d].row = 0
      /\ UNCHANGED <<counted, dmClock, delivered, dmRefused, slow, died>>
  BY DEF Messages!Claim, Messages!NextRow, Messages!Left, DmInv, IdleHasNoRow
<1>2. /\ dm_queue \in [DmMessages -> DmRows] /\ drain \in [Drains -> DrainRows]
      /\ drain[d] \in DrainRows /\ dm_queue[m] \in DmRows /\ m # 0 /\ died \in BOOLEAN
  BY MessagesAssumption DEF DmInv, DmTypes
<1>3. CASE ~Messages!Due(m, drain[d].now)
  <2> DEFINE q == [drain[d] EXCEPT !.read[m] = Messages!Unread]
  <2>1. drain' = [drain EXCEPT ![d] = q] /\ UNCHANGED dm_queue
    BY <1>3 DEF Messages!Claim
  <2>2. /\ q \in DrainRows /\ q.step = "claim" /\ q.row = 0 /\ q.now = drain[d].now
        /\ \A k \in DmMessages : q.read[k] # Messages!Unread => q.read[k] = drain[d].read[k]
    BY <1>1, <1>2, MessagesAssumption DEF DrainRows, Messages!Unread
  <2> HIDE DEF q
  <2>. QED  BY <1>1, <1>2, <2>1, <2>2, DrainMoves
<1>4. CASE Messages!Due(m, drain[d].now)
  <2> DEFINE q == [drain[d] EXCEPT !.step = "send", !.row = m]
             z == [dm_queue[m] EXCEPT !.status = "sending", !.claimed_at = drain[d].now]
  <2>1. drain' = [drain EXCEPT ![d] = q] /\ dm_queue' = [dm_queue EXCEPT ![m] = z]
    BY <1>2, <1>4 DEF Messages!Claim, DmRows, DrainRows
  <2>2. /\ q \in DrainRows /\ q.step = "send" /\ q.row = m /\ q.now = drain[d].now
        /\ q.read = drain[d].read
    BY <1>2 DEF DrainRows
  <2>3. /\ z \in DmRows /\ z.status = "sending" /\ z.claimed_at = drain[d].now
        /\ z.attempts = dm_queue[m].attempts
    BY <1>2 DEF DmRows, DrainRows
  <2> HIDE DEF q, z
  <2>4. /\ \A e \in Drains : drain'[e] = IF e = d THEN q ELSE drain[e]
        /\ \A k \in DmMessages : dm_queue'[k] = IF k = m THEN z ELSE dm_queue[k]
    BY <1>2, <2>1
  <2>5. \A e \in Drains, k \in DmMessages :
           /\ e # d => (Holds(e, k)' <=> Holds(e, k))
           /\ Holds(d, k)' <=> k = m
           /\ ~Holds(d, k)
    BY <1>1, <2>2, <2>4 DEF Holds
  <2>6. /\ dm_queue[m].status \in {"pending", "sending"}
        /\ dm_queue[m].status = "sending" => dm_queue[m].claimed_at + Lease < drain[d].now
    BY <1>4 DEF Messages!Due
  <2>7. ~slow => \A e \in Drains : ~Holds(e, m)
    <3> SUFFICES ASSUME ~slow, NEW e \in Drains, Holds(e, m) PROVE FALSE
      OBVIOUS
    <3>1. dm_queue[m].status = "sending" /\ dm_queue[m].claimed_at = drain[e].now
      BY DEF DmInv, OneHolder
    <3>2. drain[e].now + Lease >= dmClock /\ drain[d].now <= dmClock
      BY <1>1 DEF DmInv, WithinLease, Holds
    <3>3. drain[e].now \in Int /\ drain[d].now \in Int /\ dmClock \in Int
      BY <1>2, MessagesAssumption DEF DmInv, DmTypes, DrainRows
    <3>. QED  BY <2>6, <3>1, <3>2, <3>3, MessagesAssumption
  <2>8. DmTypes'
    BY <1>1, <2>1, <2>2, <2>3 DEF DmInv, DmTypes
  <2>9. AttemptsAreSpent'
    BY <1>1, <2>3, <2>4, <2>6 DEF DmInv, AttemptsAreSpent
  <2>10. ReadIsBehind'
    BY <1>1, <2>2, <2>3, <2>4 DEF DmInv, ReadIsBehind
  <2>11. DrainHolds' /\ IdleHasNoRow'
    BY <1>1, <2>2, <2>4 DEF DmInv, DrainHolds, IdleHasNoRow
  <2>12. WithinLease'
    BY <1>1, <2>2, <2>4 DEF DmInv, WithinLease
  <2>13. OneHolder'
    BY <1>1, <2>2, <2>3, <2>4, <2>5, <2>7 DEF DmInv, OneHolder
  <2>14. TakenOnce'
    <3> SUFFICES ASSUME ~slow, ~died, NEW k \in DmMessages
                 PROVE  /\ delivered[k] <= dmRefused[k] + 1
                        /\ delivered[k] > dmRefused[k] => SentWas(k)'
      BY <1>1 DEF TakenOnce
    <3>1. delivered[k] <= dmRefused[k] + 1 /\ (delivered[k] > dmRefused[k] => SentWas(k))
      BY DEF DmInv, TakenOnce
    <3>2. SentWas(k) => k # m
      BY <2>6, <2>7 DEF SentWas, Holds
    <3>3. SentWas(k) /\ k # m => SentWas(k)'
      BY <1>1, <2>4 DEF SentWas
    <3>. QED  BY <3>1, <3>2, <3>3
  <2>. QED  BY <2>8, <2>9, <2>10, <2>11, <2>12, <2>13, <2>14 DEF DmInv
<1>. QED  BY <1>3, <1>4

(* Discord is asked: what it takes counts as delivered, what we hear no yes *)
(* of as refused.                                                           *)
LEMMA DmSend ==
    ASSUME DmInv, NEW d \in Drains, NEW taken \in BOOLEAN, NEW ok \in BOOLEAN,
           Messages!sendDm(d, taken, ok)
    PROVE  DmInv'
<1>0. drain[d].step = "send" /\ drain[d].row \in DmMessages
  BY DEF Messages!sendDm, DmInv, DrainHolds
<1> PICK m \in DmMessages : m = drain[d].row
  BY <1>0
<1>1. /\ drain[d].step = "send" /\ drain[d].row = m /\ drain[d].read[m] # Messages!Unread
      /\ Holds(d, m) /\ drain[d].read[m] <= dmRefused[m]
      /\ UNCHANGED <<dm_queue, counted, dmClock, slow, died>>
  BY <1>0 DEF Messages!sendDm, DmInv, DrainHolds, ReadIsBehind, Holds
<1>2. /\ drain \in [Drains -> DrainRows] /\ drain[d] \in DrainRows
      /\ delivered \in [DmMessages -> Nat] /\ dmRefused \in [DmMessages -> Nat]
      /\ delivered[m] \in Nat /\ dmRefused[m] \in Nat /\ drain[d].read[m] \in Nat
  BY MessagesAssumption DEF DmInv, DmTypes, DrainRows, Messages!Unread
<1> DEFINE q == [drain[d] EXCEPT !.step = IF ok THEN "sent" ELSE "failed"]
<1>3. /\ drain' = [drain EXCEPT ![d] = q] /\ (ok => taken)
      /\ delivered' = [delivered EXCEPT ![m] = delivered[m] + (IF taken THEN 1 ELSE 0)]
      /\ dmRefused' = [dmRefused EXCEPT ![m] = dmRefused[m] + (IF ok THEN 0 ELSE 1)]
  BY <1>1, <1>2 DEF Messages!sendDm
<1>4. /\ q \in DrainRows /\ q.row = m /\ q.now = drain[d].now /\ q.read = drain[d].read
      /\ q.step \in {"sent", "failed"} /\ (q.step = "sent" => ok) /\ (q.step = "failed" => ~ok)
  BY <1>1, <1>2 DEF DrainRows
<1> HIDE DEF q
<1>5. /\ \A k \in DmMessages : k # m => delivered'[k] = delivered[k] /\ dmRefused'[k] = dmRefused[k]
      /\ q.step = "sent" => delivered'[m] = delivered[m] + 1 /\ dmRefused'[m] = dmRefused[m]
      /\ q.step = "failed" => /\ delivered'[m] \in {delivered[m], delivered[m] + 1}
                              /\ dmRefused'[m] = dmRefused[m] + 1
  BY <1>2, <1>3, <1>4
<1>6. \A k \in DmMessages : delivered'[k] >= delivered[k] /\ dmRefused'[k] >= dmRefused[k]
  BY <1>2, <1>4, <1>5
<1>7. \A e \in Drains : drain'[e] = IF e = d THEN q ELSE drain[e]
  BY <1>2, <1>3
<1>8. \A e \in Drains, k \in DmMessages : Holds(e, k)' <=> Holds(e, k)
  BY <1>1, <1>4, <1>7 DEF Holds
<1>9. DmTypes'
  BY <1>1, <1>2, <1>3, <1>4 DEF DmInv, DmTypes
<1>10. \A k \in DmMessages : /\ delivered[k] \in Nat /\ dmRefused[k] \in Nat /\ delivered'[k] \in Nat
                             /\ dmRefused'[k] \in Nat /\ dm_queue[k] \in DmRows
                             /\ \A e \in Drains : drain[e].read[k] \in Nat
  BY <1>9, MessagesAssumption DEF DmInv, DmTypes, DrainRows, Messages!Unread
<1>11. AttemptsAreSpent'
  BY <1>1, <1>6, <1>10, MessagesAssumption DEF DmInv, AttemptsAreSpent, DmRows
<1>12. ReadIsBehind'
  BY <1>1, <1>4, <1>6, <1>7, <1>10 DEF DmInv, ReadIsBehind
<1>13. DrainHolds' /\ IdleHasNoRow'
  <2>1. ASSUME NEW e \in Drains, e # d, drain[e].step \in {"send", "sent", "failed"}
        PROVE  /\ drain[e].row \in DmMessages /\ drain[e].read[drain[e].row] # Messages!Unread
               /\ drain[e].step = "failed" => dmRefused'[drain[e].row] > drain[e].read[drain[e].row]
               /\ drain[e].step = "sent" => delivered'[drain[e].row] >= 1
    BY <1>6, <1>10, <2>1 DEF DmInv, DrainHolds
  <2>2. /\ q.step = "failed" => dmRefused'[m] > q.read[m]
        /\ q.step = "sent" => delivered'[m] >= 1
    BY <1>1, <1>2, <1>4, <1>5
  <2>. QED  BY <1>1, <1>4, <1>7, <2>1, <2>2 DEF DmInv, DrainHolds, IdleHasNoRow
<1>14. WithinLease' /\ OneHolder'
  BY <1>1, <1>4, <1>7, <1>8 DEF DmInv, WithinLease, OneHolder
<1>15. TakenOnce'
  <2> SUFFICES ASSUME ~slow, ~died, NEW k \in DmMessages
               PROVE  /\ delivered'[k] <= dmRefused'[k] + 1
                      /\ delivered'[k] > dmRefused'[k] => SentWas(k)'
    BY <1>1 DEF TakenOnce
  <2>1. delivered[k] <= dmRefused[k] + 1 /\ (delivered[k] > dmRefused[k] => SentWas(k))
    BY DEF DmInv, TakenOnce
  <2>2. CASE k = m
    <3>1. ~SentWas(m)
      BY <1>1 DEF SentWas, DmInv, OneHolder, Holds
    <3>2. q.step = "sent" => SentWas(m)'
      BY <1>4, <1>7 DEF SentWas
    <3>. QED  BY <1>2, <1>4, <1>5, <2>1, <2>2, <3>1, <3>2
  <2>3. CASE k # m
    <3>1. SentWas(k) => SentWas(k)'
      BY <1>1, <1>7, <2>3 DEF SentWas
    <3>. QED  BY <1>5, <2>1, <2>3, <3>1
  <2>. QED  BY <2>2, <2>3
<1>. QED  BY <1>9, <1>11, <1>12, <1>13, <1>14, <1>15 DEF DmInv

(* The outcome is written: the sends that failed are more than was read.    *)
LEMMA DmRecord == ASSUME DmInv, NEW d \in Drains, Messages!Record(d) PROVE DmInv'
<1>0. drain[d].step \in {"sent", "failed"} /\ drain[d].row \in DmMessages
  BY DEF Messages!Record, DmInv, DrainHolds
<1> PICK m \in DmMessages : m = drain[d].row
  BY <1>0
<1>1. /\ drain[d].step \in {"sent", "failed"} /\ drain[d].row = m
      /\ drain[d].read[m] # Messages!Unread /\ Holds(d, m) /\ drain[d].read[m] < MaxAttempts
      /\ drain[d].step = "failed" => dmRefused[m] > drain[d].read[m]
      /\ drain[d].step = "sent" => delivered[m] >= 1
      /\ dm_queue[m].status # "none" /\ dm_queue[m].attempts <= dmRefused[m]
      /\ UNCHANGED <<counted, dmClock, delivered, dmRefused, slow, died>>
  BY <1>0 DEF Messages!Record, DmInv, DrainHolds, ReadIsBehind, AttemptsAreSpent, Holds
<1>2. /\ drain \in [Drains -> DrainRows] /\ drain[d] \in DrainRows /\ m # 0
      /\ dm_queue \in [DmMessages -> DmRows] /\ dm_queue[m] \in DmRows
      /\ delivered[m] \in Nat /\ dmRefused[m] \in Nat /\ drain[d].read[m] \in Nat
  BY MessagesAssumption DEF DmInv, DmTypes, DrainRows, Messages!Unread
<1> DEFINE a == drain[d].read[m] + 1
           q == [drain[d] EXCEPT !.step = "claim", !.read[m] = Messages!Unread, !.row = 0]
           z == IF drain[d].step = "sent" THEN [dm_queue[m] EXCEPT !.status = "sent"]
                ELSE [dm_queue[m] EXCEPT !.attempts = a,
                        !.status = IF a >= MaxAttempts THEN "failed" ELSE "pending"]
<1>3. drain' = [drain EXCEPT ![d] = q] /\ dm_queue' = [dm_queue EXCEPT ![m] = z]
  <2>1. drain' = [drain EXCEPT ![d] = q]
    BY <1>1, <1>2 DEF Messages!Record, DrainRows
  <2>2. dm_queue' = [dm_queue EXCEPT ![m] = z]
    BY <1>1, <1>2 DEF Messages!Record, DmRows
  <2>. QED  BY <2>1, <2>2
<1>4. /\ q \in DrainRows /\ q.step = "claim" /\ q.row = 0 /\ q.now = drain[d].now
      /\ \A k \in DmMessages : q.read[k] # Messages!Unread => q.read[k] = drain[d].read[k]
  <2> DEFINE rd == [drain[d].read EXCEPT ![m] = Messages!Unread]
  <2>1. /\ rd \in [DmMessages -> 0..Messages!Unread]
        /\ \A k \in DmMessages : rd[k] # Messages!Unread => rd[k] = drain[d].read[k]
    BY <1>2, MessagesAssumption DEF DrainRows, Messages!Unread
  <2>2. q = [drain[d] EXCEPT !.step = "claim", !.read = rd, !.row = 0]
    OBVIOUS
  <2> HIDE DEF rd, q
  <2>. QED  BY <1>2, <2>1, <2>2 DEF DrainRows
<1>5. /\ z \in DmRows /\ z.status \in {"sent", "failed", "pending"} /\ z.attempts <= dmRefused[m]
      /\ z.status = "pending" => z.attempts < MaxAttempts
      /\ z.status = "failed" => dmRefused[m] >= MaxAttempts
      /\ z.status = "sent" => delivered[m] >= 1
      /\ drain[d].step = "sent" => z.status = "sent"
  <2>1. CASE drain[d].step = "sent"
    BY <1>1, <1>2, <2>1 DEF DmRows
  <2>2. CASE drain[d].step = "failed"
    <3>1. a \in 0..MaxAttempts /\ a <= dmRefused[m]
      BY <1>1, <1>2, <2>2, MessagesAssumption
    <3> HIDE DEF a
    <3>2. z = [dm_queue[m] EXCEPT !.attempts = a,
                 !.status = IF a >= MaxAttempts THEN "failed" ELSE "pending"]
      BY <2>2
    <3>3. CASE a >= MaxAttempts
      <4>1. z = [dm_queue[m] EXCEPT !.attempts = a, !.status = "failed"]
        BY <3>2, <3>3
      <4>2. dmRefused[m] >= MaxAttempts
        BY <1>2, <3>1, <3>3, MessagesAssumption
      <4> HIDE DEF z
      <4>. QED  BY <1>2, <2>2, <3>1, <4>1, <4>2 DEF DmRows
    <3>4. CASE ~(a >= MaxAttempts)
      <4>1. z = [dm_queue[m] EXCEPT !.attempts = a, !.status = "pending"]
        BY <3>2, <3>4
      <4>2. a < MaxAttempts
        BY <3>1, <3>4, MessagesAssumption
      <4> HIDE DEF z
      <4>. QED  BY <1>2, <2>2, <3>1, <4>1, <4>2 DEF DmRows
    <3>. QED  BY <3>3, <3>4
  <2>. QED  BY <1>1, <2>1, <2>2
<1> HIDE DEF q, z, a
<1>6. /\ \A e \in Drains : drain'[e] = IF e = d THEN q ELSE drain[e]
      /\ \A k \in DmMessages : dm_queue'[k] = IF k = m THEN z ELSE dm_queue[k]
  BY <1>2, <1>3
<1>7. \A e \in Drains, k \in DmMessages : Holds(e, k)' <=> e # d /\ Holds(e, k)
  BY <1>4, <1>6 DEF Holds
<1>8. ~slow => \A e \in Drains : Holds(e, m) => e = d
  BY <1>1 DEF DmInv, OneHolder
<1>9. DmTypes'
  BY <1>1, <1>3, <1>4, <1>5 DEF DmInv, DmTypes
<1>10. AttemptsAreSpent'
  BY <1>1, <1>5, <1>6 DEF DmInv, AttemptsAreSpent
<1>11. ReadIsBehind'
  BY <1>1, <1>4, <1>5, <1>6 DEF DmInv, ReadIsBehind
<1>12. DrainHolds' /\ IdleHasNoRow'
  BY <1>1, <1>4, <1>6 DEF DmInv, DrainHolds, IdleHasNoRow
<1>13. WithinLease'
  BY <1>1, <1>4, <1>6 DEF DmInv, WithinLease
<1>14. OneHolder'
  BY <1>1, <1>6, <1>7, <1>8 DEF DmInv, OneHolder
<1>15. TakenOnce'
  <2> SUFFICES ASSUME ~slow, ~died, NEW k \in DmMessages
               PROVE  /\ delivered[k] <= dmRefused[k] + 1
                      /\ delivered[k] > dmRefused[k] => SentWas(k)'
    BY <1>1 DEF TakenOnce
  <2>1. delivered[k] <= dmRefused[k] + 1 /\ (delivered[k] > dmRefused[k] => SentWas(k))
    BY DEF DmInv, TakenOnce
  <2>2. CASE k = m
    <3>1. SentWas(m) => drain[d].step = "sent"
      BY <1>1, <1>8 DEF SentWas, DmInv, OneHolder, Holds
    <3>. QED  BY <1>5, <1>6, <2>1, <2>2, <3>1 DEF SentWas
  <2>3. CASE k # m
    <3>1. SentWas(k) => SentWas(k)'
      BY <1>1, <1>6, <2>3 DEF SentWas
    <3>. QED  BY <2>1, <3>1
  <2>. QED  BY <2>2, <2>3
<1>. QED  BY <1>9, <1>10, <1>11, <1>12, <1>13, <1>14, <1>15 DEF DmInv

LEMMA DmTick == ASSUME DmInv, Messages!Tick PROVE DmInv'
<1>1. /\ UNCHANGED <<dm_queue, counted, drain, delivered, dmRefused, died>>
      /\ dmClock' = dmClock + 1 /\ dmClock < DmMaxClock /\ dmClock \in Nat
  BY MessagesAssumption DEF Messages!Tick, DmInv, DmTypes
<1>2. slow' \in BOOLEAN /\ (slow => slow')
  BY DEF Messages!Tick
<1>3. ~slow' => \A d \in Drains : drain[d].step # "idle" => ~(drain[d].now + Lease < dmClock')
  BY DEF Messages!Tick
<1>4. DmTypes'
  BY <1>1, <1>2, MessagesAssumption DEF DmInv, DmTypes
<1>5. AttemptsAreSpent' /\ ReadIsBehind' /\ DrainHolds' /\ IdleHasNoRow'
  BY <1>1 DEF DmInv, AttemptsAreSpent, ReadIsBehind, DrainHolds, IdleHasNoRow
<1>6. WithinLease'
  <2>1. \A d \in Drains : drain[d].now \in Nat
    BY MessagesAssumption DEF DmInv, DmTypes, DrainRows
  <2>. QED  BY <1>1, <1>2, <1>3, <2>1, MessagesAssumption DEF DmInv, WithinLease
<1>7. OneHolder'
  BY <1>1, <1>2 DEF DmInv, OneHolder, Holds
<1>8. TakenOnce'
  BY <1>1, <1>2 DEF DmInv, TakenOnce, SentWas
<1>. QED  BY <1>4, <1>5, <1>6, <1>7, <1>8 DEF DmInv

LEMMA DmNext == DmInv /\ [Messages!Next]_messagesVars => DmInv'
<1> SUFFICES ASSUME DmInv, [Messages!Next]_messagesVars PROVE DmInv'
  OBVIOUS
<1>1. CASE UNCHANGED messagesVars
  <2>1. UNCHANGED <<dm_queue, counted, drain, dmClock, delivered, dmRefused, slow, died>>
    BY <1>1 DEF messagesVars
  <2>. QED
    BY <2>1 DEF DmInv, DmTypes, AttemptsAreSpent, ReadIsBehind, DrainHolds, IdleHasNoRow, WithinLease,
       OneHolder, TakenOnce, Holds, SentWas
<1>. QED
  BY <1>1, QueueStep, DrainStep, DmClaim, DmSend, DmRecord, DmTick DEF Messages!Next

(* A held message has one sender, and every outcome was paid for.           *)
THEOREM DmInvariant == ServiceSpec => [](part = "messages" => DmInv)
<1>1. ServiceInit => (part = "messages" => DmInv)
  BY DmInit DEF ServiceInit
<1>2. (part = "messages" => DmInv) /\ [ServiceNext]_serviceVars => (part = "messages" => DmInv)'
  BY JobsMove, DmNext
<1>. QED  BY <1>1, <1>2, PTL DEF ServiceSpec

(* What is told over Discord is told once, and not given up early: a queued *)
(* message as long as no drain dies with it or outlives its lease, a notice *)
(* as long as every answer of Discord is heard.                             *)
THEOREM ToldOnce == ServiceSpec => []SentOnce
<1>1. ASSUME DmInv PROVE Messages!QuickDrainsSendOnce /\ Messages!OutcomeIsEarned
  <2>1. \A m \in DmMessages : delivered[m] \in Nat /\ dmRefused[m] \in Nat
    BY <1>1 DEF DmInv, DmTypes
  <2>. QED
    BY <1>1, <2>1 DEF DmInv, TakenOnce, AttemptsAreSpent, Messages!QuickDrainsSendOnce, Messages!OutcomeIsEarned
<1>2. ASSUME NoticeInv PROVE Notices!NoticesAreOnce
  <2>1. \A n \in Notices!Notices : sent[n] \in Nat
    BY <1>2 DEF NoticeInv, NoticeTypes
  <2>2. \A n \in Notices!Notices : (\E p \in NoticePasses : Carries(p, n)) => Notices!Held(n)
    BY DEF Notices!Held, Carries
  <2>. QED  BY <1>2, <2>1, <2>2 DEF NoticeInv, SentUnderClaim, ClaimIsUsed, Notices!NoticesAreOnce
<1>3. (part = "messages" => DmInv) /\ (part = "notices" => NoticeInv) => SentOnce
  BY <1>1, <1>2 DEF SentOnce
<1>. QED  BY <1>3, DmInvariant, NoticeInvariant, PTL

-----------------------------------------------------------------------------
(* The daily folds.  While passes do not overlap and none dies with a day,  *)
(* a claimed day is held or has its data, the economy days go up from the   *)
(* oldest or from a day that has its row, and only the oldest day that any  *)
(* pass will see stands alone.                                              *)
DayRows == [step : {"idle", "claim", "read", "save", "release", "done"}, fold : Days!Folds,
            day : Days!Days, chained : BOOLEAN]
DayTypes ==
    /\ today \in 1..MaxDay /\ minute \in DayPasses \cup {"free"}
    /\ claims \subseteq Days!Folds \X Days!Days
    /\ folded \subseteq (Days!Folds \ {"economy"}) \X Days!Days
    /\ dayRow \in [Days!Days -> {"none", "alone", "chained"}]
    /\ pass \in [DayPasses -> DayRows] /\ mixed \in BOOLEAN

Moving(q) == q.step \notin {"idle", "done"}
InWindow(q) == Moving(q) => Days!Oldest(today) <= q.day /\ q.day <= today
InOrder(q) ==
    Moving(q) /\ q.fold = "economy" => q.day = Days!Oldest(today) \/ dayRow[q.day - 1] # "none"
SavesWhatIsThere(q) ==
    q.step = "save" /\ q.fold = "economy" => (q.chained <=> dayRow[q.day - 1] # "none")
OnlyTheOldestAlone ==
    \A d \in Days!Days \ {0} : dayRow[d] = "alone" => dayRow[d - 1] = "none" /\ d <= Days!Oldest(today)
OnePass == \A p, r \in DayPasses : Moving(pass[p]) /\ Moving(pass[r]) => p = r
HoldsDay(q, f, d) == q.step \in {"read", "save", "release"} /\ q.fold = f /\ q.day = d
HasData(f, d) == IF f = "economy" THEN dayRow[d] # "none" ELSE <<f, d>> \in folded
ClaimsAreKept ==
    \A f \in Days!Folds, d \in Days!Days : <<f, d>> \in claims =>
        (\E p \in DayPasses : HoldsDay(pass[p], f, d)) \/ HasData(f, d)
DayInv ==
    /\ DayTypes /\ \A p \in DayPasses : InWindow(pass[p])
    /\ ~mixed => /\ OnePass /\ ClaimsAreKept /\ OnlyTheOldestAlone
                 /\ \A p \in DayPasses : InOrder(pass[p]) /\ SavesWhatIsThere(pass[p])

(* The window of a pass ends today and never goes back.                     *)
LEMMA OldestBounds ==
    \A t \in 1..MaxDay : /\ Days!Oldest(t) \in 1..t
                         /\ t + 1 \in 1..MaxDay => Days!Oldest(t) <= Days!Oldest(t + 1)
BY AnalyticsAssumption DEF Days!Oldest

LEMMA DaysInit == Days!Init => DayInv
<1> SUFFICES ASSUME Days!Init PROVE DayInv
  OBVIOUS
<1> DEFINE q == Days!At("idle", "metrics", 0, FALSE)
<1>1. q \in DayRows /\ ~Moving(q) /\ q.step = "idle"
  BY AnalyticsAssumption DEF Days!At, DayRows, Days!Folds, Days!Days, Moving
<1>2. /\ pass = [p \in DayPasses |-> q] /\ today = 1 /\ minute = "free" /\ claims = {} /\ folded = {}
      /\ ~mixed /\ mixed \in BOOLEAN
  BY DEF Days!Init
<1>3. /\ dayRow \in [Days!Days -> {"none", "alone", "chained"}]
      /\ \A d \in Days!Days : dayRow[d] # "alone"
  BY DEF Days!Init
<1> HIDE DEF q
<1>4. DayTypes
  BY <1>1, <1>2, <1>3, AnalyticsAssumption DEF DayTypes
<1>. QED
  BY <1>1, <1>2, <1>3, <1>4
  DEF DayInv, InWindow, OnePass, ClaimsAreKept, OnlyTheOldestAlone, InOrder, SavesWhatIsThere, Moving

(* One pass moves and leaves its own part in order.                         *)
LEMMA DayMoves ==
    ASSUME DayInv, NEW p \in DayPasses, NEW q \in DayRows, pass' = [pass EXCEPT ![p] = q],
           today' = today, minute' \in DayPasses \cup {"free"},
           mixed' \in BOOLEAN, mixed => mixed',
           claims' \subseteq Days!Folds \X Days!Days,
           folded' \subseteq (Days!Folds \ {"economy"}) \X Days!Days,
           dayRow' \in [Days!Days -> {"none", "alone", "chained"}],
           InWindow(q),
           ~mixed' /\ Moving(q) => \A r \in DayPasses \ {p} : ~Moving(pass[r]),
           dayRow' = dayRow \/ (~mixed => \A r \in DayPasses \ {p} : ~Moving(pass[r])),
           ~mixed' => /\ Moving(q) /\ q.fold = "economy"
                           => q.day = Days!Oldest(today) \/ dayRow'[q.day - 1] # "none"
                      /\ q.step = "save" /\ q.fold = "economy"
                           => (q.chained <=> dayRow'[q.day - 1] # "none")
                      /\ OnlyTheOldestAlone' /\ ClaimsAreKept'
    PROVE  DayInv'
<1>1. \A r \in DayPasses : pass'[r] = IF r = p THEN q ELSE pass[r]
  BY DEF DayInv, DayTypes
<1>2. DayTypes'
  BY DEF DayInv, DayTypes
<1>3. \A r \in DayPasses : InWindow(pass[r])'
  BY <1>1 DEF DayInv, InWindow, Moving
<1>4. ~mixed' => OnePass'
  BY <1>1 DEF DayInv, OnePass, Moving
<1>5. ~mixed' => \A r \in DayPasses : InOrder(pass[r])' /\ SavesWhatIsThere(pass[r])'
  BY <1>1 DEF DayInv, InOrder, SavesWhatIsThere, Moving
<1>. QED  BY <1>2, <1>3, <1>4, <1>5 DEF DayInv

(* Where a pass goes on: a later economy day follows the one it had.        *)
LEMMA FollowingDay ==
    ASSUME DayInv, NEW p \in DayPasses, Moving(pass[p])
    PROVE  \E q \in DayRows :
             /\ q = Days!Following(pass[p]) /\ q.step \in {"claim", "done"} /\ InWindow(q)
             /\ q.step = "claim" /\ q.fold = "economy" =>
                   \/ q.day = Days!Oldest(today)
                   \/ pass[p].fold = "economy" /\ q.day = pass[p].day + 1
<1> PICK row \in DayRows : row = pass[p]
  BY DEF DayInv, DayTypes
<1> PICK o \in 1..today : o = Days!Oldest(today)
  BY OldestBounds DEF DayInv, DayTypes
<1>1. /\ today \in 1..MaxDay /\ row.day \in Nat /\ row.fold \in {"metrics", "economy", "retention"}
      /\ o <= row.day /\ row.day <= today
  BY AnalyticsAssumption DEF DayInv, DayTypes, InWindow, DayRows, Days!Days, Days!Folds
<1> DEFINE From(f, d) == [step |-> "claim", fold |-> f, day |-> d, chained |-> FALSE]
           Ok(q) == /\ q = Days!Following(row) /\ q.step \in {"claim", "done"} /\ InWindow(q)
                    /\ q.step = "claim" /\ q.fold = "economy" =>
                          q.day = o \/ (row.fold = "economy" /\ q.day = row.day + 1)
<1>2. ASSUME NEW f \in Days!Folds, NEW d \in o..today PROVE From(f, d) \in DayRows /\ InWindow(From(f, d))
  BY <1>1, AnalyticsAssumption DEF DayRows, Days!Days, InWindow
<1>3. /\ "metrics" \in Days!Folds /\ "economy" \in Days!Folds /\ "retention" \in Days!Folds
      /\ o \in o..today /\ today \in o..today /\ today \in Int
  BY <1>1 DEF Days!Folds
<1>4. CASE row.fold = "metrics" /\ row.day > o
  <2>1. row.day - 1 \in o..today
    BY <1>1, <1>4
  <2>2. Days!Following(row) = From("metrics", row.day - 1)
    BY <1>1, <1>4 DEF Days!Following, Days!At
  <2>. QED  BY <1>2, <1>3, <2>1, <2>2
<1>5. CASE row.fold = "metrics" /\ row.day <= o
  <2>1. Days!Following(row) = From("economy", o)
    BY <1>1, <1>5 DEF Days!Following, Days!At
  <2>. QED  BY <1>2, <1>3, <2>1
<1>6. CASE row.fold = "economy" /\ row.day < today
  <2>1. row.day + 1 \in o..today
    BY <1>1, <1>6
  <2>2. Days!Following(row) = From("economy", row.day + 1)
    BY <1>1, <1>6 DEF Days!Following, Days!At
  <2>. QED  BY <1>2, <1>3, <1>6, <2>1, <2>2
<1>7. CASE row.fold = "economy" /\ row.day >= today
  <2>1. Days!Following(row) = From("retention", today)
    BY <1>1, <1>7 DEF Days!Following, Days!At
  <2>. QED  BY <1>2, <1>3, <2>1
<1>8. CASE row.fold = "retention"
  <2> DEFINE q == [step |-> "done", fold |-> "retention", day |-> 0, chained |-> FALSE]
  <2>1. Days!Following(row) = q
    BY <1>1, <1>8 DEF Days!Following, Days!At
  <2>2. q \in DayRows /\ InWindow(q) /\ q.step = "done"
    BY AnalyticsAssumption DEF DayRows, Days!Days, Days!Folds, InWindow, Moving
  <2> HIDE DEF q
  <2>. QED  BY <2>1, <2>2
<1>. QED
  <2>1. row.day > o \/ row.day <= o
    BY <1>1
  <2>2. row.day < today \/ row.day >= today
    BY <1>1
  <2>. QED  BY <1>1, <1>4, <1>5, <1>6, <1>7, <1>8, <2>1, <2>2

LEMMA AfterFailureDay ==
    ASSUME DayInv, NEW p \in DayPasses, Moving(pass[p])
    PROVE  \E q \in DayRows :
             /\ q = Days!AfterFailure(pass[p]) /\ q.step \in {"claim", "done"} /\ InWindow(q)
             /\ q.step = "claim" /\ q.fold = "economy" => q.day = Days!Oldest(today)
<1>1. CASE pass[p].fold # "economy"
  <2>1. Days!AfterFailure(pass[p]) = Days!Following(pass[p])
    BY <1>1 DEF Days!AfterFailure
  <2>. QED  BY <1>1, <2>1, FollowingDay
<1>2. CASE pass[p].fold = "economy"
  <2> DEFINE q == [step |-> "claim", fold |-> "retention", day |-> today, chained |-> FALSE]
  <2>1. Days!AfterFailure(pass[p]) = q
    BY <1>2 DEF Days!AfterFailure, Days!At
  <2>2. today \in 1..MaxDay /\ Days!Oldest(today) \in 1..today
    BY OldestBounds DEF DayInv, DayTypes
  <2>3. q \in DayRows /\ InWindow(q) /\ q.step = "claim" /\ q.fold = "retention"
    BY <2>2, AnalyticsAssumption DEF DayRows, Days!Days, Days!Folds, InWindow
  <2> HIDE DEF q
  <2>. QED  BY <2>1, <2>3
<1>. QED  BY <1>1, <1>2

(* A pass with no day in hand goes on with none.                            *)
LEMMA DayGoes ==
    ASSUME DayInv, NEW p \in DayPasses, NEW q \in DayRows, pass' = [pass EXCEPT ![p] = q],
           UNCHANGED <<today, claims, dayRow, folded>>, minute' \in DayPasses \cup {"free"},
           mixed' \in BOOLEAN, mixed => mixed',
           q.step \in {"claim", "done"}, InWindow(q),
           ~mixed' => /\ pass[p].step \notin {"read", "save", "release"}
                      /\ q.step = "claim" => \A r \in DayPasses \ {p} : ~Moving(pass[r])
                      /\ q.step = "claim" /\ q.fold = "economy" =>
                            q.day = Days!Oldest(today) \/ dayRow[q.day - 1] # "none"
    PROVE  DayInv'
<1>1. \A r \in DayPasses : pass'[r] = IF r = p THEN q ELSE pass[r]
  BY DEF DayInv, DayTypes
<1>2. ~mixed' => OnlyTheOldestAlone' /\ ClaimsAreKept'
  BY <1>1 DEF DayInv, OnlyTheOldestAlone, ClaimsAreKept, HoldsDay, HasData
<1>3. DayTypes
  BY DEF DayInv
<1>. QED  BY <1>2, <1>3, DayMoves DEF DayTypes, Moving

LEMMA DayComesAndGoes ==
    ASSUME DayInv, NEW p \in DayPasses, Days!runBotCron(p) \/ Days!Skipped(p) \/ Days!Die(p)
    PROVE  DayInv'
<1>1. /\ today \in 1..MaxDay /\ Days!Oldest(today) \in 1..today /\ mixed \in BOOLEAN
      /\ minute \in DayPasses \cup {"free"}
  BY OldestBounds DEF DayInv, DayTypes
<1>2. CASE Days!runBotCron(p)
  <2> DEFINE q == [step |-> "claim", fold |-> "metrics", day |-> today, chained |-> FALSE]
  <2>1. /\ pass' = [pass EXCEPT ![p] = q] /\ UNCHANGED <<today, claims, dayRow, folded>>
        /\ minute' \in DayPasses \cup {"free"} /\ pass[p].step = "idle"
        /\ mixed' = (mixed \/ \E r \in DayPasses : Days!Running(r))
    BY <1>1, <1>2 DEF Days!runBotCron, Days!Goto, Days!At
  <2>2. q \in DayRows /\ InWindow(q) /\ q.step = "claim" /\ q.fold = "metrics"
    BY <1>1, AnalyticsAssumption DEF DayRows, Days!Days, Days!Folds, InWindow
  <2> HIDE DEF q
  <2>3. mixed' \in BOOLEAN /\ (mixed => mixed')
    BY <1>1, <2>1
  <2>4. ~mixed' => \A r \in DayPasses \ {p} : ~Moving(pass[r])
    BY <2>1 DEF Days!Running, Moving
  <2>. QED  BY <2>1, <2>2, <2>3, <2>4, DayGoes
<1>3. CASE Days!Skipped(p) \/ Days!Die(p)
  <2> DEFINE q == [step |-> "done", fold |-> "metrics", day |-> 0, chained |-> FALSE]
  <2>1. pass' = [pass EXCEPT ![p] = q] /\ UNCHANGED <<today, minute, claims, dayRow, folded>>
    BY <1>3 DEF Days!Skipped, Days!Die, Days!Goto, Days!At
  <2>2. q \in DayRows /\ InWindow(q) /\ q.step = "done"
    BY AnalyticsAssumption DEF DayRows, Days!Days, Days!Folds, InWindow, Moving
  <2> HIDE DEF q
  <2>3. /\ mixed' \in BOOLEAN /\ (mixed => mixed')
        /\ ~mixed' => pass[p].step \notin {"read", "save", "release"}
    <3>1. CASE Days!Skipped(p)
      BY <1>1, <3>1 DEF Days!Skipped
    <3>2. CASE Days!Die(p)
      BY <1>1, <3>2 DEF Days!Die, Days!Holds
    <3>. QED  BY <1>3, <3>1, <3>2
  <2>. QED  BY <1>1, <2>1, <2>2, <2>3, DayGoes
<1>. QED  BY <1>2, <1>3

(* A claimed day that nobody holds has its data.                            *)
LEMMA DayClaim == ASSUME DayInv, NEW p \in DayPasses, Days!claim(p) PROVE DayInv'
<1> PICK row \in DayRows : row = pass[p]
  BY DEF DayInv, DayTypes
<1>1. /\ row.step = "claim" /\ Moving(pass[p]) /\ UNCHANGED <<today, minute, dayRow, folded, mixed>>
      /\ row.fold \in Days!Folds /\ row.day \in Days!Days /\ row.day \in Int
  BY AnalyticsAssumption DEF Days!claim, Moving, DayRows, Days!Days
<1>2. ~mixed => \A r \in DayPasses \ {p} : ~Moving(pass[r])
  BY <1>1 DEF DayInv, OnePass
<1>3. \/ pass' = [pass EXCEPT ![p] = Days!AfterFailure(row)] /\ UNCHANGED claims
      \/ /\ <<row.fold, row.day>> \in claims /\ UNCHANGED claims
         /\ pass' = [pass EXCEPT ![p] = Days!Following(row)]
      \/ /\ claims' = claims \cup {<<row.fold, row.day>>}
         /\ pass' = [pass EXCEPT ![p] = [row EXCEPT !.step = "read"]]
  BY DEF Days!claim, Days!Goto
<1>4. DayTypes
  BY DEF DayInv
<1>5. CASE pass' = [pass EXCEPT ![p] = Days!AfterFailure(row)] /\ UNCHANGED claims
  <2>1. PICK q \in DayRows :
           /\ q = Days!AfterFailure(pass[p]) /\ q.step \in {"claim", "done"} /\ InWindow(q)
           /\ q.step = "claim" /\ q.fold = "economy" => q.day = Days!Oldest(today)
    BY <1>1, AfterFailureDay
  <2>. QED  BY <1>1, <1>2, <1>4, <1>5, <2>1, DayGoes DEF DayTypes
<1>6. CASE /\ <<row.fold, row.day>> \in claims /\ UNCHANGED claims
           /\ pass' = [pass EXCEPT ![p] = Days!Following(row)]
  <2>1. PICK q \in DayRows :
           /\ q = Days!Following(pass[p]) /\ q.step \in {"claim", "done"} /\ InWindow(q)
           /\ q.step = "claim" /\ q.fold = "economy" =>
                 q.day = Days!Oldest(today) \/ (pass[p].fold = "economy" /\ q.day = pass[p].day + 1)
    BY <1>1, FollowingDay
  <2>2. ~mixed /\ row.fold = "economy" => dayRow[row.day] # "none"
    <3> SUFFICES ASSUME ~mixed, row.fold = "economy" PROVE dayRow[row.day] # "none"
      OBVIOUS
    <3>1. \A r \in DayPasses : ~HoldsDay(pass[r], row.fold, row.day)
      BY <1>1, <1>2 DEF HoldsDay, Moving
    <3>. QED  BY <1>1, <1>6, <3>1 DEF DayInv, ClaimsAreKept, HasData
  <2>3. q.day = row.day + 1 => q.day - 1 = row.day
    BY <1>1
  <2>. QED  BY <1>1, <1>2, <1>4, <1>6, <2>1, <2>2, <2>3, DayGoes DEF DayTypes
<1>7. CASE /\ claims' = claims \cup {<<row.fold, row.day>>}
           /\ pass' = [pass EXCEPT ![p] = [row EXCEPT !.step = "read"]]
  <2> DEFINE q == [row EXCEPT !.step = "read"]
  <2>1. q \in DayRows /\ q.step = "read" /\ q.fold = row.fold /\ q.day = row.day
    BY DEF DayRows
  <2>2. pass' = [pass EXCEPT ![p] = q]
    BY <1>7
  <2> HIDE DEF q
  <2>3. \A r \in DayPasses : pass'[r] = IF r = p THEN q ELSE pass[r]
    BY <1>4, <2>2 DEF DayTypes
  <2>4. ~mixed => ClaimsAreKept'
    BY <1>1, <1>7, <2>1, <2>3 DEF DayInv, ClaimsAreKept, HoldsDay, HasData
  <2>5. InWindow(q) /\ (~mixed /\ Moving(q) /\ q.fold = "economy" =>
                           q.day = Days!Oldest(today) \/ dayRow[q.day - 1] # "none")
    BY <1>1, <2>1 DEF DayInv, InWindow, InOrder, Moving
  <2>6. ~mixed => OnlyTheOldestAlone'
    BY <1>1 DEF DayInv, OnlyTheOldestAlone
  <2>7. claims' \subseteq Days!Folds \X Days!Days
    BY <1>1, <1>4, <1>7 DEF DayTypes
  <2>. QED  BY <1>1, <1>2, <1>4, <2>1, <2>2, <2>4, <2>5, <2>6, <2>7, DayMoves DEF DayTypes
<1>. QED  BY <1>3, <1>5, <1>6, <1>7

(* What a day is measured from is there when it is saved.                   *)
LEMMA DayRead == ASSUME DayInv, NEW p \in DayPasses, Days!readDay(p) PROVE DayInv'
<1> PICK row \in DayRows : row = pass[p]
  BY DEF DayInv, DayTypes
<1>1. /\ row.step = "read" /\ Moving(pass[p]) /\ UNCHANGED <<today, minute, claims, dayRow, folded, mixed>>
  BY DEF Days!readDay, Moving
<1>2. ~mixed => \A r \in DayPasses \ {p} : ~Moving(pass[r])
  BY <1>1 DEF DayInv, OnePass
<1>3. PICK q \in DayRows :
         /\ pass' = [pass EXCEPT ![p] = q] /\ q.step \in {"release", "save"}
         /\ q.fold = row.fold /\ q.day = row.day
         /\ q.step = "save" /\ q.fold = "economy" => (q.chained <=> dayRow[q.day - 1] # "none")
  <2>1. CASE pass' = [pass EXCEPT ![p] = [row EXCEPT !.step = "release"]]
    <3> DEFINE q == [row EXCEPT !.step = "release"]
    <3>1. q \in DayRows /\ q.step = "release" /\ q.fold = row.fold /\ q.day = row.day
      BY DEF DayRows
    <3>2. pass' = [pass EXCEPT ![p] = q]
      BY <2>1
    <3> HIDE DEF q
    <3>. QED  BY <3>1, <3>2
  <2>2. CASE pass' = [pass EXCEPT ![p] = [row EXCEPT !.step = "save",
                        !.chained = row.fold = "economy" /\ dayRow[row.day - 1] # "none"]]
    <3> DEFINE c == row.fold = "economy" /\ dayRow[row.day - 1] # "none"
               q == [row EXCEPT !.step = "save", !.chained = c]
    <3>1. c \in BOOLEAN
      OBVIOUS
    <3>2. q \in DayRows /\ q.step = "save" /\ q.fold = row.fold /\ q.day = row.day /\ q.chained = c
      <4> HIDE DEF c
      <4>. QED  BY <3>1 DEF DayRows
    <3>3. pass' = [pass EXCEPT ![p] = q]
      BY <2>2
    <3>4. c => dayRow[row.day - 1] # "none"
      OBVIOUS
    <3>5. row.fold = "economy" /\ dayRow[row.day - 1] # "none" => c
      OBVIOUS
    <3> HIDE DEF q, c
    <3>. QED  BY <3>2, <3>3, <3>4, <3>5
  <2>. QED  BY <2>1, <2>2 DEF Days!readDay, Days!Goto
<1>4. DayTypes
  BY DEF DayInv
<1>5. \A r \in DayPasses : pass'[r] = IF r = p THEN q ELSE pass[r]
  BY <1>3, <1>4 DEF DayTypes
<1>6. ~mixed => ClaimsAreKept'
  BY <1>1, <1>3, <1>5 DEF DayInv, ClaimsAreKept, HoldsDay, HasData
<1>7. InWindow(q) /\ (~mixed /\ Moving(q) /\ q.fold = "economy" =>
                         q.day = Days!Oldest(today) \/ dayRow[q.day - 1] # "none")
  BY <1>1, <1>3 DEF DayInv, InWindow, InOrder, Moving
<1>8. ~mixed => OnlyTheOldestAlone'
  BY <1>1 DEF DayInv, OnlyTheOldestAlone
<1>. QED  BY <1>1, <1>2, <1>3, <1>4, <1>6, <1>7, <1>8, DayMoves DEF DayTypes

(* The rows of a day are written; the oldest day may stand alone.           *)
LEMMA DaySave == ASSUME DayInv, NEW p \in DayPasses, Days!saveDay(p) PROVE DayInv'
<1> PICK row \in DayRows : row = pass[p]
  BY DEF DayInv, DayTypes
<1>1. /\ row.step = "save" /\ Moving(pass[p]) /\ UNCHANGED <<today, minute, claims, mixed>>
      /\ row.fold \in Days!Folds /\ row.day \in Days!Days /\ row.day \in Int
      /\ Days!Oldest(today) <= row.day /\ Days!Oldest(today) \in Nat
      /\ \A d \in Days!Days : d \in Nat
  BY AnalyticsAssumption, OldestBounds
  DEF Days!saveDay, Moving, DayRows, Days!Days, DayInv, DayTypes, InWindow
<1>2. ~mixed => \A r \in DayPasses \ {p} : ~Moving(pass[r])
  BY <1>1 DEF DayInv, OnePass
<1>3. DayTypes /\ \A q : pass' = [pass EXCEPT ![p] = q] => \A r \in DayPasses : pass'[r] = IF r = p THEN q ELSE pass[r]
  BY DEF DayInv, DayTypes
<1>4. CASE pass' = [pass EXCEPT ![p] = Days!Following(row)] /\ (Days!saveEconomyDailyRow(row) \/ Days!upsertRows(row))
  <2>1. PICK q \in DayRows :
           /\ q = Days!Following(pass[p]) /\ q.step \in {"claim", "done"} /\ InWindow(q)
           /\ q.step = "claim" /\ q.fold = "economy" =>
                 q.day = Days!Oldest(today) \/ (pass[p].fold = "economy" /\ q.day = pass[p].day + 1)
    BY <1>1, FollowingDay
  <2>2. /\ pass' = [pass EXCEPT ![p] = q]
        /\ \A r \in DayPasses : pass'[r] = IF r = p THEN q ELSE pass[r]
    BY <1>3, <1>4, <2>1
  <2>3. CASE Days!saveEconomyDailyRow(row)
    <3>1. /\ row.fold = "economy" /\ UNCHANGED folded
          /\ dayRow' = [dayRow EXCEPT ![row.day] = IF row.chained THEN "chained" ELSE "alone"]
      BY <2>3 DEF Days!saveEconomyDailyRow
    <3>2. /\ dayRow' \in [Days!Days -> {"none", "alone", "chained"}]
          /\ dayRow'[row.day] = IF row.chained THEN "chained" ELSE "alone"
          /\ \A d \in Days!Days : d # row.day => dayRow'[d] = dayRow[d]
      BY <1>1, <1>3, <3>1 DEF DayTypes
    <3>3. ~mixed => OnlyTheOldestAlone'
      <4> SUFFICES ASSUME ~mixed, NEW d \in Days!Days \ {0}, dayRow'[d] = "alone"
                   PROVE  dayRow'[d - 1] = "none" /\ d <= Days!Oldest(today)
        BY <1>1 DEF OnlyTheOldestAlone
      <4>1. d - 1 \in Days!Days /\ d \in Nat
        BY AnalyticsAssumption DEF Days!Days
      <4>2. CASE d = row.day
        <5>1. dayRow[d - 1] = "none" /\ d = Days!Oldest(today)
          BY <1>1, <3>1, <3>2, <4>2 DEF DayInv, SavesWhatIsThere, InOrder
        <5>. QED  BY <3>2, <4>1, <4>2, <5>1
      <4>3. CASE d # row.day
        <5>1. dayRow[d - 1] = "none" /\ d <= Days!Oldest(today)
          BY <3>2, <4>3 DEF DayInv, OnlyTheOldestAlone
        <5>. QED  BY <1>1, <3>2, <4>1, <5>1
      <4>. QED  BY <4>2, <4>3
    <3>4. ~mixed => ClaimsAreKept'
      <4>1. \A f \in Days!Folds, d \in Days!Days : HasData(f, d) => HasData(f, d)'
        BY <3>1, <3>2 DEF HasData
      <4>2. HasData("economy", row.day)'
        BY <3>2 DEF HasData
      <4>. QED  BY <1>1, <2>1, <2>2, <3>1, <4>1, <4>2 DEF DayInv, ClaimsAreKept, HoldsDay
    <3>5. Moving(q) /\ q.fold = "economy" => q.day = Days!Oldest(today) \/ dayRow'[q.day - 1] # "none"
      <4>1. q.day = row.day + 1 => q.day - 1 = row.day
        BY <1>1
      <4>. QED  BY <2>1, <3>2, <4>1 DEF Moving
    <3>. QED  BY <1>1, <1>2, <1>3, <2>1, <2>2, <3>1, <3>2, <3>3, <3>4, <3>5, DayMoves, ZenonT(30) DEF DayTypes
  <2>4. CASE Days!upsertRows(row)
    <3>1. /\ row.fold # "economy" /\ UNCHANGED dayRow /\ folded' = folded \cup {<<row.fold, row.day>>}
      BY <2>4 DEF Days!upsertRows
    <3>2. folded' \subseteq (Days!Folds \ {"economy"}) \X Days!Days
      BY <1>1, <1>3, <3>1 DEF DayTypes
    <3>3. ~mixed => ClaimsAreKept' /\ OnlyTheOldestAlone'
      BY <1>1, <2>1, <2>2, <3>1 DEF DayInv, ClaimsAreKept, HoldsDay, HasData, OnlyTheOldestAlone
    <3>. QED  BY <1>1, <1>2, <1>3, <2>1, <2>2, <3>1, <3>2, <3>3, DayMoves DEF DayTypes, Moving
  <2>. QED  BY <1>4, <2>3, <2>4
<1>5. CASE pass' = [pass EXCEPT ![p] = [row EXCEPT !.step = "release"]] /\ UNCHANGED <<dayRow, folded>>
  <2> DEFINE q == [row EXCEPT !.step = "release"]
  <2>1. q \in DayRows /\ q.step = "release" /\ q.fold = row.fold /\ q.day = row.day
    BY DEF DayRows
  <2>2. pass' = [pass EXCEPT ![p] = q]
    BY <1>5
  <2> HIDE DEF q
  <2>3. \A r \in DayPasses : pass'[r] = IF r = p THEN q ELSE pass[r]
    BY <1>3, <2>2
  <2>4. ~mixed => ClaimsAreKept' /\ OnlyTheOldestAlone'
    BY <1>1, <1>5, <2>1, <2>3 DEF DayInv, ClaimsAreKept, HoldsDay, HasData, OnlyTheOldestAlone
  <2>5. InWindow(q) /\ (~mixed /\ Moving(q) /\ q.fold = "economy" =>
                           q.day = Days!Oldest(today) \/ dayRow[q.day - 1] # "none")
    BY <1>1, <2>1 DEF DayInv, InWindow, InOrder, Moving
  <2>. QED  BY <1>1, <1>2, <1>3, <1>5, <2>1, <2>2, <2>4, <2>5, DayMoves DEF DayTypes
<1>. QED  BY <1>4, <1>5 DEF Days!saveDay, Days!Goto

LEMMA DayRelease == ASSUME DayInv, NEW p \in DayPasses, Days!release(p) PROVE DayInv'
<1> PICK row \in DayRows : row = pass[p]
  BY DEF DayInv, DayTypes
<1>1. /\ row.step = "release" /\ Moving(pass[p]) /\ UNCHANGED <<today, minute, dayRow, folded>>
      /\ pass' = [pass EXCEPT ![p] = Days!AfterFailure(pass[p])]
      /\ \/ claims' = claims \ {<<row.fold, row.day>>} /\ UNCHANGED mixed
         \/ UNCHANGED claims /\ mixed' = TRUE
  BY DEF Days!release, Days!Goto, Days!Released, Moving
<1>2. ~mixed => \A r \in DayPasses \ {p} : ~Moving(pass[r])
  BY <1>1 DEF DayInv, OnePass
<1>3. PICK q \in DayRows :
         /\ q = Days!AfterFailure(pass[p]) /\ q.step \in {"claim", "done"} /\ InWindow(q)
         /\ q.step = "claim" /\ q.fold = "economy" => q.day = Days!Oldest(today)
  BY <1>1, AfterFailureDay
<1>4. /\ DayTypes /\ pass' = [pass EXCEPT ![p] = q]
      /\ \A r \in DayPasses : pass'[r] = IF r = p THEN q ELSE pass[r]
  BY <1>1, <1>3 DEF DayInv, DayTypes
<1>5. mixed' \in BOOLEAN /\ (mixed => mixed') /\ claims' \subseteq claims
      /\ (~mixed' => ~mixed /\ claims' = claims \ {<<row.fold, row.day>>})
  BY <1>1, <1>4 DEF DayTypes
<1>6. ~mixed' => ClaimsAreKept'
  BY <1>1, <1>3, <1>4, <1>5 DEF DayInv, ClaimsAreKept, HoldsDay, HasData
<1>7. ~mixed' => OnlyTheOldestAlone'
  BY <1>1, <1>5 DEF DayInv, OnlyTheOldestAlone
<1>. QED  BY <1>1, <1>2, <1>3, <1>4, <1>5, <1>6, <1>7, DayMoves DEF DayTypes, Moving

LEMMA DayClock == ASSUME DayInv, Days!NextMinute \/ Days!Midnight PROVE DayInv'
<1>1. CASE Days!NextMinute
  <2>1. minute' = "free" /\ UNCHANGED <<today, claims, dayRow, folded, pass, mixed>>
    BY <1>1 DEF Days!NextMinute
  <2>. QED
    BY <2>1 DEF DayInv, DayTypes, InWindow, OnePass, ClaimsAreKept, OnlyTheOldestAlone, InOrder,
       SavesWhatIsThere, HoldsDay, HasData, Moving
<1>2. CASE Days!Midnight
  <2>1. /\ \A p \in DayPasses : ~Moving(pass[p])
        /\ today' = today + 1 /\ today < MaxDay /\ today \in 1..MaxDay
        /\ UNCHANGED <<minute, claims, dayRow, folded, pass, mixed>>
    BY <1>2 DEF Days!Midnight, Days!Running, Moving, DayInv, DayTypes
  <2>2. /\ today' \in 1..MaxDay /\ Days!Oldest(today) <= Days!Oldest(today')
        /\ Days!Oldest(today) \in Nat /\ Days!Oldest(today') \in Nat
    <3>1. today + 1 \in 1..MaxDay
      BY <2>1, AnalyticsAssumption
    <3>. QED  BY <2>1, <3>1, OldestBounds
  <2>3. OnlyTheOldestAlone => OnlyTheOldestAlone'
    <3>1. \A d \in Days!Days : d \in Nat
      BY AnalyticsAssumption DEF Days!Days
    <3>2. Days!Oldest(today)' = Days!Oldest(today')
      BY DEF Days!Oldest
    <3>. QED  BY <2>1, <2>2, <3>1, <3>2 DEF OnlyTheOldestAlone
  <2>4. DayTypes'
    BY <2>1, <2>2 DEF DayInv, DayTypes
  <2>. QED
    BY <2>1, <2>3, <2>4 DEF DayInv, InWindow, OnePass, ClaimsAreKept, InOrder,
       SavesWhatIsThere, HoldsDay, HasData, Moving
<1>. QED  BY <1>1, <1>2

LEMMA DaysNext == DayInv /\ [Days!Next]_analyticsVars => DayInv'
<1> SUFFICES ASSUME DayInv, [Days!Next]_analyticsVars PROVE DayInv'
  OBVIOUS
<1>1. CASE UNCHANGED analyticsVars
  <2>1. UNCHANGED <<today, minute, claims, dayRow, folded, pass, mixed>>
    BY <1>1 DEF analyticsVars
  <2>. QED
    BY <2>1 DEF DayInv, DayTypes, InWindow, OnePass, ClaimsAreKept, OnlyTheOldestAlone, InOrder,
       SavesWhatIsThere, HoldsDay, HasData, Moving
<1>. QED
  BY <1>1, DayComesAndGoes, DayClaim, DayRead, DaySave, DayRelease, DayClock DEF Days!Next

(* The days are folded in order and a failed one is open again.             *)
THEOREM DayInvariant == ServiceSpec => [](part = "analytics" => DayInv)
<1>1. ServiceInit => (part = "analytics" => DayInv)
  BY DaysInit DEF ServiceInit
<1>2. (part = "analytics" => DayInv) /\ [ServiceNext]_serviceVars => (part = "analytics" => DayInv)'
  BY JobsMove, DaysNext
<1>. QED  BY <1>1, <1>2, PTL DEF ServiceSpec

(* A claimed day is being folded or has its data, and a row of the economy  *)
(* that follows another was measured from it.                               *)
THEOREM DaysChain == ServiceSpec => []FoldsChain
<1>1. ASSUME DayInv, ~mixed PROVE Days!FoldsChain
  <2>1. ASSUME NEW key \in claims
        PROVE  \/ \E p \in DayPasses : Days!Holds(p) /\ key = <<pass[p].fold, pass[p].day>>
               \/ IF key[1] = "economy" THEN dayRow[key[2]] # "none" ELSE key \in folded
    <3>1. PICK f \in Days!Folds, d \in Days!Days : key = <<f, d>>
      BY <1>1 DEF DayInv, DayTypes
    <3>. QED  BY <1>1, <3>1 DEF DayInv, ClaimsAreKept, HoldsDay, HasData, Days!Holds
  <2>. QED  BY <1>1, <2>1 DEF DayInv, OnlyTheOldestAlone, Days!FoldsChain
<1>2. mixed => Days!FoldsChain
  BY DEF Days!FoldsChain
<1>3. (part = "analytics" => DayInv) => FoldsChain
  BY <1>1, <1>2 DEF FoldsChain
<1>. QED  BY <1>3, DayInvariant, PTL

-----------------------------------------------------------------------------
(* The alerts to the staff.  A subject that is not excused has at most one  *)
(* job that reads it, so that the row read is the row; what was said last   *)
(* is what the row records, or what a job is about to record.               *)
AlertRows == [alerted : BOOLEAN, resolved : BOOLEAN]
JobRows == [step : {"idle", "walk", "mark"}, todo : SUBSET Alerts!Subjects,
            subject : Alerts!Subjects \cup {"none"}, post : {"none", "alert", "resolve"},
            bad : SUBSET Alerts!Subjects, good : SUBSET Alerts!Subjects,
            pending : SUBSET AlertLines, row : [Alerts!Subjects -> AlertRows]]
AlertTypes ==
    /\ active \subseteq AlertKeys /\ late \subseteq AlertLines /\ done \subseteq AlertLines
    /\ alertRow \in [Alerts!Subjects -> AlertRows] /\ job \in [Alerts!Jobs -> JobRows]
    /\ said \in [Alerts!Subjects -> {"nothing", "alert", "resolve"}]

Walks(j, s) == job[j].step # "idle" /\ s \in Alerts!SubjectsOf(j)
Marks(j, s) == job[j].step = "mark" /\ job[j].subject = s
JobsAreTheirOwn ==
    \A j \in Alerts!Jobs :
        /\ job[j].todo \subseteq Alerts!SubjectsOf(j)
        /\ job[j].step = "mark" => job[j].subject \in job[j].todo /\ job[j].post \in {"alert", "resolve"}
        /\ j \in Sweeps => job[j].good \subseteq done
OneWalks ==
    \A i, j \in Alerts!Jobs, s \in Alerts!Subjects \ excused : Walks(i, s) /\ Walks(j, s) => i = j
ReadIsRow ==
    \A j \in Alerts!Jobs, s \in Alerts!Subjects \ excused :
        Walks(j, s) /\ s \in job[j].todo => job[j].row[s] = alertRow[s]
PostIsSaid ==
    \A j \in Alerts!Jobs, s \in Alerts!Subjects \ excused : Marks(j, s) => said[s] = job[j].post
SaidIsRow ==
    \A s \in Alerts!Subjects \ excused :
        \/ \E j \in Alerts!Jobs : Marks(j, s)
        \/ said[s] = "alert" <=> Alerts!Open(alertRow[s])
AlertInv ==
    /\ AlertTypes /\ JobsAreTheirOwn /\ OneWalks /\ ReadIsRow /\ PostIsSaid /\ SaidIsRow
    /\ odd \subseteq excused /\ \A l \in AlertLines : said[l] = "resolve" => l \in done

(* What a record makes of a row, and whose subject a subject is.            *)
LEMMA RowsAfter ==
    \A r \in AlertRows : /\ Alerts!markAlerted(r) \in AlertRows /\ Alerts!Open(Alerts!markAlerted(r))
                         /\ Alerts!markResolved(r) \in AlertRows /\ ~Alerts!Open(Alerts!markResolved(r))
BY DEF AlertRows, Alerts!markAlerted, Alerts!markResolved, Alerts!Open, Alerts!Row

LEMMA RestingJob ==
    /\ Alerts!Resting \in JobRows /\ Alerts!Resting.step = "idle"
    /\ Alerts!Resting.todo = {} /\ Alerts!Resting.good = {}
<1> DEFINE z == [s \in Alerts!Subjects |-> Alerts!Row(FALSE, FALSE)]
<1>1. z \in [Alerts!Subjects -> AlertRows]
  BY DEF Alerts!Row, AlertRows
<1>2. Alerts!Resting = [step |-> "idle", todo |-> {}, subject |-> "none", post |-> "none",
                        bad |-> {}, good |-> {}, pending |-> {}, row |-> z]
  BY DEF Alerts!Resting
<1> HIDE DEF z
<1>. QED  BY <1>1, <1>2 DEF JobRows

LEMMA AlertsInit == Alerts!Init => AlertInv
<1> SUFFICES ASSUME Alerts!Init PROVE AlertInv
  OBVIOUS
<1> DEFINE z == Alerts!Row(FALSE, FALSE)
<1>1. z \in AlertRows /\ ~Alerts!Open(z)
  BY DEF AlertRows, Alerts!Row, Alerts!Open
<1>2. /\ alertRow = [s \in Alerts!Subjects |-> z] /\ job = [j \in Alerts!Jobs |-> Alerts!Resting]
      /\ said = [s \in Alerts!Subjects |-> "nothing"]
      /\ odd = {} /\ active = {} /\ late = {} /\ done = {}
  BY DEF Alerts!Init
<1> HIDE DEF z
<1>3. AlertTypes
  BY <1>1, <1>2, RestingJob DEF AlertTypes
<1>4. \A j \in Alerts!Jobs : job[j].step = "idle" /\ job[j].todo = {} /\ job[j].good = {}
  BY <1>2, RestingJob
<1>5. \A s \in Alerts!Subjects : said[s] = "nothing" /\ ~Alerts!Open(alertRow[s])
  BY <1>1, <1>2
<1>6. \A l \in AlertLines : l \in Alerts!Subjects
  BY DEF Alerts!Subjects
<1>. QED
  BY <1>2, <1>3, <1>4, <1>5, <1>6
  DEF AlertInv, JobsAreTheirOwn, OneWalks, ReadIsRow, PostIsSaid, SaidIsRow, Walks, Marks

(* A job that posts nothing and records nothing.                            *)
LEMMA JobMoves ==
    ASSUME AlertInv, NEW j \in Alerts!Jobs, NEW q \in JobRows, job' = [job EXCEPT ![j] = q],
           UNCHANGED <<active, late, done, alertRow, said, odd>>, excused \subseteq excused',
           q.step # "mark", q.todo \subseteq Alerts!SubjectsOf(j), j \in Sweeps => q.good \subseteq done,
           job[j].step = "mark" => job[j].subject \in excused',
           q.step # "idle" =>
              /\ \A s \in q.todo \ excused' : q.row[s] = alertRow[s]
              /\ \A s \in Alerts!SubjectsOf(j) \ excused' : \A i \in Alerts!Jobs \ {j} : ~Walks(i, s)
    PROVE  AlertInv'
<1>1. \A i \in Alerts!Jobs : job'[i] = IF i = j THEN q ELSE job[i]
  BY DEF AlertInv, AlertTypes
<1>2. \A i \in Alerts!Jobs, s \in Alerts!Subjects :
         /\ i # j => (Walks(i, s)' <=> Walks(i, s)) /\ (Marks(i, s)' <=> Marks(i, s))
         /\ Walks(j, s)' <=> q.step # "idle" /\ s \in Alerts!SubjectsOf(j)
         /\ ~Marks(j, s)' /\ (Marks(j, s) => s \in excused')
  BY <1>1 DEF Walks, Marks, Alerts!SubjectsOf
<1>3. AlertTypes'
  BY DEF AlertInv, AlertTypes
<1>4. JobsAreTheirOwn'
  BY <1>1 DEF AlertInv, JobsAreTheirOwn, Alerts!SubjectsOf
<1>5. OneWalks'
  BY <1>2 DEF AlertInv, OneWalks
<1>6. ReadIsRow'
  BY <1>1, <1>2 DEF AlertInv, ReadIsRow
<1>7. PostIsSaid' /\ SaidIsRow'
  BY <1>1, <1>2 DEF AlertInv, PostIsSaid, SaidIsRow, Alerts!Open
<1>8. odd' \subseteq excused' /\ \A l \in AlertLines : said'[l] = "resolve" => l \in done'
  BY DEF AlertInv
<1>. QED  BY <1>3, <1>4, <1>5, <1>6, <1>7, <1>8 DEF AlertInv

(* Sweeps that overlap excuse their lines; otherwise a job is alone.        *)
LEMMA AlertRead == ASSUME AlertInv, NEW j \in Alerts!Jobs, Alerts!Read(j) PROVE AlertInv'
<1> DEFINE seen == [s \in Alerts!Subjects |-> IF s \in Alerts!SubjectsOf(j) THEN alertRow[s]
                                             ELSE Alerts!Row(FALSE, FALSE)]
           q == [step |-> "walk", todo |-> Alerts!SubjectsOf(j), subject |-> "none", post |-> "none",
                 bad |-> IF j \in Hourly THEN active ELSE late \ done,
                 good |-> IF j \in Hourly THEN AlertKeys \ active ELSE done,
                 pending |-> {l \in late : status[l] = "pending"}, row |-> seen]
<1>1. /\ job' = [job EXCEPT ![j] = q] /\ job[j].step = "idle"
      /\ UNCHANGED <<active, late, done, alertRow, said, odd>>
  BY DEF Alerts!Read
<1>2. excused' = IF j \in Sweeps /\ \E i \in Sweeps : job[i].step # "idle"
                 THEN excused \cup AlertLines ELSE excused
  BY DEF Alerts!Read
<1>3. /\ active \subseteq AlertKeys /\ late \subseteq AlertLines /\ done \subseteq AlertLines
      /\ alertRow \in [Alerts!Subjects -> AlertRows]
      /\ Alerts!SubjectsOf(j) \subseteq Alerts!Subjects
  BY DEF AlertInv, AlertTypes, Alerts!SubjectsOf, Alerts!Subjects
<1>4. seen \in [Alerts!Subjects -> AlertRows] /\ \A s \in Alerts!SubjectsOf(j) : seen[s] = alertRow[s]
  BY <1>3 DEF AlertRows, Alerts!Row
<1> HIDE DEF seen
<1>5. /\ q \in JobRows /\ q.step = "walk" /\ q.todo = Alerts!SubjectsOf(j) /\ q.row = seen
      /\ j \in Sweeps => q.good = done
  BY <1>3, <1>4, AlertsAssumption DEF JobRows, Alerts!Subjects
<1> HIDE DEF q
<1>6. ASSUME NEW s \in Alerts!SubjectsOf(j) \ excused', NEW i \in Alerts!Jobs \ {j} PROVE ~Walks(i, s)
  <2>1. CASE j \in Hourly
    BY <2>1, AlertsAssumption DEF Walks, Alerts!SubjectsOf, Alerts!Jobs
  <2>2. CASE j \notin Hourly
    BY <1>2, <2>2, AlertsAssumption DEF Walks, Alerts!SubjectsOf, Alerts!Jobs
  <2>. QED  BY <2>1, <2>2
<1>7. excused \subseteq excused'
  BY <1>2
<1>. QED  BY <1>1, <1>4, <1>5, <1>6, <1>7, JobMoves

LEMMA AlertStale ==
    ASSUME AlertInv, NEW j \in Alerts!Jobs, NEW l \in Alerts!Subjects, Alerts!ledgerLineMarkedStale(j, l)
    PROVE  AlertInv'
<1> DEFINE q == [job[j] EXCEPT !.pending = job[j].pending \ {l}]
<1>1. job \in [Alerts!Jobs -> JobRows] /\ job[j] \in JobRows
  BY DEF AlertInv, AlertTypes
<1>2. /\ job' = [job EXCEPT ![j] = q]
      /\ UNCHANGED <<active, late, done, alertRow, said, odd, excused>>
  BY <1>1 DEF Alerts!ledgerLineMarkedStale, JobRows
<1>3. /\ q \in JobRows /\ q.step = job[j].step /\ q.todo = job[j].todo /\ q.subject = job[j].subject
      /\ q.post = job[j].post /\ q.good = job[j].good /\ q.row = job[j].row
  BY <1>1 DEF JobRows
<1> HIDE DEF q
<1>4. \A i \in Alerts!Jobs :
         /\ job'[i].step = job[i].step /\ job'[i].todo = job[i].todo
         /\ job'[i].subject = job[i].subject /\ job'[i].post = job[i].post
         /\ job'[i].good = job[i].good /\ job'[i].row = job[i].row
  BY <1>1, <1>2, <1>3
<1>5. AlertTypes'
  BY <1>2, <1>3 DEF AlertInv, AlertTypes
<1>6. JobsAreTheirOwn'
  BY <1>2, <1>4 DEF AlertInv, JobsAreTheirOwn, Alerts!SubjectsOf
<1>7. OneWalks' /\ ReadIsRow'
  BY <1>2, <1>4 DEF AlertInv, OneWalks, ReadIsRow, Walks, Alerts!SubjectsOf
<1>8. PostIsSaid' /\ SaidIsRow'
  BY <1>2, <1>4 DEF AlertInv, PostIsSaid, SaidIsRow, Marks, Alerts!Open
<1>. QED  BY <1>2, <1>5, <1>6, <1>7, <1>8 DEF AlertInv

(* What a job reads and who else walks, at a subject that is not excused.   *)
LEMMA AloneAt ==
    ASSUME AlertInv, NEW j \in Alerts!Jobs, job[j].step # "idle"
    PROVE  \A s \in Alerts!SubjectsOf(j) \ excused :
              /\ s \in Alerts!Subjects /\ \A i \in Alerts!Jobs \ {j} : ~Walks(i, s) /\ ~Marks(i, s)
              /\ s \in job[j].todo => job[j].row[s] = alertRow[s]
<1> TAKE s \in Alerts!SubjectsOf(j) \ excused
<1>1. s \in Alerts!Subjects /\ Walks(j, s)
  BY DEF Alerts!SubjectsOf, Alerts!Subjects, Walks
<1>2. \A i \in Alerts!Jobs \ {j} : ~Walks(i, s)
  BY <1>1 DEF AlertInv, OneWalks
<1>3. \A i \in Alerts!Jobs : Marks(i, s) => Walks(i, s)
  BY DEF AlertInv, JobsAreTheirOwn, Marks, Walks
<1>4. s \in job[j].todo => job[j].row[s] = alertRow[s]
  BY <1>1 DEF AlertInv, ReadIsRow
<1>. QED  BY <1>1, <1>2, <1>3, <1>4

LEMMA AlertPasses ==
    ASSUME AlertInv, NEW j \in Alerts!Jobs, NEW s \in Alerts!Subjects, job[j].step = "walk",
           job' = [job EXCEPT ![j].todo = job[j].todo \ {s}],
           UNCHANGED <<active, late, done, alertRow, said, odd, excused>>
    PROVE  AlertInv'
<1> DEFINE q == [job[j] EXCEPT !.todo = job[j].todo \ {s}]
<1>1. job \in [Alerts!Jobs -> JobRows] /\ job[j] \in JobRows
  BY DEF AlertInv, AlertTypes
<1>2. job' = [job EXCEPT ![j] = q]
  OBVIOUS
<1>3. /\ q \in JobRows /\ q.step = "walk" /\ q.todo = job[j].todo \ {s}
      /\ q.good = job[j].good /\ q.row = job[j].row
  BY <1>1 DEF JobRows
<1> HIDE DEF q
<1>4. job[j].todo \subseteq Alerts!SubjectsOf(j) /\ (j \in Sweeps => job[j].good \subseteq done)
  BY DEF AlertInv, JobsAreTheirOwn
<1>5. /\ \A t \in q.todo \ excused' : q.row[t] = alertRow[t]
      /\ \A t \in Alerts!SubjectsOf(j) \ excused' : \A i \in Alerts!Jobs \ {j} : ~Walks(i, t)
  BY <1>3, <1>4, AloneAt
<1>. QED  BY <1>2, <1>3, <1>4, <1>5, JobMoves

(* A post is due when it alternates.                                        *)
LEMMA AlertPosts ==
    ASSUME AlertInv, NEW j \in Alerts!Jobs, NEW s \in Alerts!Subjects, NEW d \in {"alert", "resolve"},
           d = Alerts!Due(j, s), job[j].step = "walk", s \in job[j].todo,
           job' = [job EXCEPT ![j].step = "mark", ![j].subject = s, ![j].post = d],
           odd' = IF said[s] = "alert" <=> d = "alert" THEN odd \cup {s} ELSE odd,
           said' = [said EXCEPT ![s] = d],
           UNCHANGED <<active, late, done, alertRow, excused>>
    PROVE  AlertInv'
<1> DEFINE q == [job[j] EXCEPT !.step = "mark", !.subject = s, !.post = d]
<1>1. /\ job \in [Alerts!Jobs -> JobRows] /\ job[j] \in JobRows
      /\ said \in [Alerts!Subjects -> {"nothing", "alert", "resolve"}]
  BY DEF AlertInv, AlertTypes
<1>2. job' = [job EXCEPT ![j] = q]
  BY <1>1 DEF JobRows
<1>3. /\ q \in JobRows /\ q.step = "mark" /\ q.subject = s /\ q.post = d /\ q.todo = job[j].todo
      /\ q.good = job[j].good /\ q.row = job[j].row
  BY <1>1 DEF JobRows
<1> HIDE DEF q
<1>4. /\ \A i \in Alerts!Jobs : job'[i] = IF i = j THEN q ELSE job[i]
      /\ \A t \in Alerts!Subjects : said'[t] = IF t = s THEN d ELSE said[t]
  BY <1>1, <1>2
<1>5. s \in Alerts!SubjectsOf(j) /\ (j \in Sweeps => job[j].good \subseteq done)
  BY DEF AlertInv, JobsAreTheirOwn
<1>6. \A i \in Alerts!Jobs, t \in Alerts!Subjects :
         /\ Walks(i, t)' <=> Walks(i, t)
         /\ i # j => (Marks(i, t)' <=> Marks(i, t))
         /\ (Marks(j, t)' <=> t = s) /\ ~Marks(j, t)
  BY <1>3, <1>4 DEF Walks, Marks, Alerts!SubjectsOf
<1>7. s \notin excused => /\ \A i \in Alerts!Jobs \ {j} : ~Walks(i, s) /\ ~Marks(i, s)
                          /\ job[j].row[s] = alertRow[s]
  BY <1>5, AloneAt
<1>8. /\ d = "alert" => ~Alerts!Open(job[j].row[s])
      /\ d = "resolve" => Alerts!Open(job[j].row[s]) /\ s \in job[j].good
  BY DEF Alerts!Due, Alerts!BreachDue, Alerts!RecoveryDue, Alerts!Open
<1>9. s \notin excused => (said[s] = "alert" <=> d = "resolve")
  <2> SUFFICES ASSUME s \notin excused PROVE said[s] = "alert" <=> d = "resolve"
    OBVIOUS
  <2>1. said[s] = "alert" <=> Alerts!Open(alertRow[s])
    BY <1>6, <1>7 DEF AlertInv, SaidIsRow
  <2>. QED  BY <1>7, <1>8, <2>1
<1>10. odd' \subseteq excused'
  BY <1>9 DEF AlertInv
<1>11. AlertTypes'
  BY <1>1, <1>2, <1>3, ZenonT(30) DEF AlertInv, AlertTypes
<1>12. JobsAreTheirOwn'
  <2> SUFFICES ASSUME NEW i \in Alerts!Jobs
               PROVE  /\ job'[i].todo \subseteq Alerts!SubjectsOf(i)
                      /\ job'[i].step = "mark" => job'[i].subject \in job'[i].todo /\ job'[i].post \in {"alert", "resolve"}
                      /\ i \in Sweeps => job'[i].good \subseteq done
    BY DEF JobsAreTheirOwn, Alerts!SubjectsOf
  <2>1. /\ job[i].todo \subseteq Alerts!SubjectsOf(i)
        /\ job[i].step = "mark" => job[i].subject \in job[i].todo /\ job[i].post \in {"alert", "resolve"}
        /\ i \in Sweeps => job[i].good \subseteq done
    BY DEF AlertInv, JobsAreTheirOwn
  <2>. QED  BY <1>3, <1>4, <2>1
<1>13. OneWalks' /\ ReadIsRow'
  <2>1. \A i \in Alerts!Jobs : job'[i].todo = job[i].todo /\ job'[i].row = job[i].row
    BY <1>3, <1>4
  <2>2. \A i, k \in Alerts!Jobs, t \in Alerts!Subjects \ excused : Walks(i, t)' /\ Walks(k, t)' => i = k
    BY <1>6 DEF AlertInv, OneWalks
  <2>3. \A i \in Alerts!Jobs, t \in Alerts!Subjects \ excused :
           Walks(i, t)' /\ t \in job'[i].todo => job'[i].row[t] = alertRow[t]
    <3> TAKE i \in Alerts!Jobs, t \in Alerts!Subjects \ excused
    <3>1. Walks(i, t) /\ t \in job[i].todo => job[i].row[t] = alertRow[t]
      BY DEF AlertInv, ReadIsRow
    <3>. QED  BY <1>6, <2>1, <3>1
  <2>. QED  BY <2>2, <2>3 DEF OneWalks, ReadIsRow
<1>14. PostIsSaid'
  <2> SUFFICES ASSUME NEW i \in Alerts!Jobs, NEW t \in Alerts!Subjects \ excused, Marks(i, t)'
               PROVE  said'[t] = job'[i].post
    BY DEF PostIsSaid
  <2>1. CASE i = j
    BY <1>3, <1>4, <1>6, <2>1
  <2>2. CASE i # j
    <3>1. Marks(i, t) /\ t # s
      BY <1>6, <1>7, <2>2
    <3>2. said[t] = job[i].post
      BY <3>1 DEF AlertInv, PostIsSaid
    <3>. QED  BY <1>4, <2>2, <3>1, <3>2
  <2>. QED  BY <2>1, <2>2
<1>15. SaidIsRow'
  <2> SUFFICES ASSUME NEW t \in Alerts!Subjects \ excused
               PROVE  (\E i \in Alerts!Jobs : Marks(i, t)') \/ (said'[t] = "alert" <=> Alerts!Open(alertRow[t]))
    BY DEF SaidIsRow, Alerts!Open
  <2>1. CASE t = s
    BY <1>6, <2>1
  <2>2. CASE t # s
    <3>1. (\E i \in Alerts!Jobs : Marks(i, t)) \/ (said[t] = "alert" <=> Alerts!Open(alertRow[t]))
      BY DEF AlertInv, SaidIsRow
    <3>. QED  BY <1>4, <1>6, <2>2, <3>1
  <2>. QED  BY <2>1, <2>2
<1>16. \A l \in AlertLines : said'[l] = "resolve" => l \in done
  <2>1. s \in AlertLines => j \in Sweeps
    BY <1>5, AlertsAssumption DEF Alerts!SubjectsOf, Alerts!Jobs
  <2>2. \A l \in AlertLines : l \in Alerts!Subjects
    BY DEF Alerts!Subjects
  <2>. QED  BY <1>4, <1>5, <1>8, <2>1, <2>2 DEF AlertInv
<1>. QED  BY <1>10, <1>11, <1>12, <1>13, <1>14, <1>15, <1>16 DEF AlertInv

(* A record that is made says what was said.                                *)
LEMMA AlertMarks ==
    ASSUME AlertInv, NEW j \in Alerts!Jobs, NEW s \in Alerts!Subjects, NEW r \in AlertRows, Marks(j, s),
           s \in job[j].todo, Alerts!Open(r) <=> job[j].post = "alert",
           alertRow' = [alertRow EXCEPT ![s] = r],
           job' = [job EXCEPT ![j].step = "walk", ![j].todo = job[j].todo \ {s}],
           UNCHANGED <<active, late, done, said, odd, excused>>
    PROVE  AlertInv'
<1> DEFINE q == [job[j] EXCEPT !.step = "walk", !.todo = job[j].todo \ {s}]
<1>1. /\ job \in [Alerts!Jobs -> JobRows] /\ job[j] \in JobRows
      /\ alertRow \in [Alerts!Subjects -> AlertRows]
  BY DEF AlertInv, AlertTypes
<1>2. job' = [job EXCEPT ![j] = q]
  BY <1>1 DEF JobRows
<1>3. /\ q \in JobRows /\ q.step = "walk" /\ q.todo = job[j].todo \ {s}
      /\ q.good = job[j].good /\ q.row = job[j].row
  BY <1>1 DEF JobRows
<1> HIDE DEF q
<1>4. /\ \A i \in Alerts!Jobs : job'[i] = IF i = j THEN q ELSE job[i]
      /\ \A t \in Alerts!Subjects : alertRow'[t] = IF t = s THEN r ELSE alertRow[t]
  BY <1>1, <1>2
<1>5. s \in Alerts!SubjectsOf(j) /\ job[j].step = "mark" /\ job[j].subject = s
  BY DEF AlertInv, JobsAreTheirOwn, Marks
<1>6. \A i \in Alerts!Jobs, t \in Alerts!Subjects :
         /\ Walks(i, t)' <=> Walks(i, t)
         /\ i # j => (Marks(i, t)' <=> Marks(i, t))
         /\ (Marks(j, t) => t = s) /\ ~Marks(j, t)'
  BY <1>3, <1>4, <1>5 DEF Walks, Marks, Alerts!SubjectsOf
<1>7. s \notin excused => \A i \in Alerts!Jobs \ {j} : ~Walks(i, s) /\ ~Marks(i, s)
  BY <1>5, AloneAt
<1>8. s \notin excused => said[s] = job[j].post
  BY DEF AlertInv, PostIsSaid
<1>9. AlertTypes'
  BY <1>1, <1>2, <1>3 DEF AlertInv, AlertTypes
<1>10. JobsAreTheirOwn'
  <2> SUFFICES ASSUME NEW i \in Alerts!Jobs
               PROVE  /\ job'[i].todo \subseteq Alerts!SubjectsOf(i)
                      /\ job'[i].step = "mark" => job'[i].subject \in job'[i].todo /\ job'[i].post \in {"alert", "resolve"}
                      /\ i \in Sweeps => job'[i].good \subseteq done
    BY DEF JobsAreTheirOwn, Alerts!SubjectsOf
  <2>1. /\ job[i].todo \subseteq Alerts!SubjectsOf(i)
        /\ job[i].step = "mark" => job[i].subject \in job[i].todo /\ job[i].post \in {"alert", "resolve"}
        /\ i \in Sweeps => job[i].good \subseteq done
    BY DEF AlertInv, JobsAreTheirOwn
  <2>. QED  BY <1>3, <1>4, <2>1
<1>11. OneWalks'
  <2>1. \A i, k \in Alerts!Jobs, t \in Alerts!Subjects \ excused : Walks(i, t)' /\ Walks(k, t)' => i = k
    BY <1>6 DEF AlertInv, OneWalks
  <2>. QED  BY <2>1 DEF OneWalks
<1>12. ReadIsRow'
  <2> SUFFICES ASSUME NEW i \in Alerts!Jobs, NEW t \in Alerts!Subjects \ excused, Walks(i, t)', t \in job'[i].todo
               PROVE  job'[i].row[t] = alertRow'[t]
    BY DEF ReadIsRow
  <2>1. Walks(i, t) /\ t \in job[i].todo /\ job'[i].row = job[i].row /\ t # s
    BY <1>3, <1>4, <1>6, <1>7
  <2>2. job[i].row[t] = alertRow[t]
    BY <2>1 DEF AlertInv, ReadIsRow
  <2>. QED  BY <1>4, <2>1, <2>2
<1>13. PostIsSaid'
  <2> SUFFICES ASSUME NEW i \in Alerts!Jobs, NEW t \in Alerts!Subjects \ excused, Marks(i, t)'
               PROVE  said[t] = job'[i].post
    BY DEF PostIsSaid
  <2>1. i # j /\ Marks(i, t)
    BY <1>6
  <2>2. \A k \in Alerts!Jobs, u \in Alerts!Subjects \ excused : Marks(k, u) => said[u] = job[k].post
    BY DEF AlertInv, PostIsSaid
  <2>3. job'[i].post = job[i].post
    BY <1>4, <2>1
  <2>. QED  BY <2>1, <2>2, <2>3
<1>14. SaidIsRow'
  <2> SUFFICES ASSUME NEW t \in Alerts!Subjects \ excused
               PROVE  (\E i \in Alerts!Jobs : Marks(i, t)') \/ (said[t] = "alert" <=> Alerts!Open(alertRow'[t]))
    BY DEF SaidIsRow, Alerts!Open
  <2>1. CASE t = s
    BY <1>4, <1>8, <2>1
  <2>2. CASE t # s
    <3>1. (\E i \in Alerts!Jobs : Marks(i, t)) \/ (said[t] = "alert" <=> Alerts!Open(alertRow[t]))
      BY DEF AlertInv, SaidIsRow
    <3>. QED  BY <1>4, <1>6, <2>2, <3>1
  <2>. QED  BY <2>1, <2>2
<1>15. odd \subseteq excused /\ \A l \in AlertLines : said[l] = "resolve" => l \in done
  BY DEF AlertInv
<1>. QED  BY <1>9, <1>10, <1>11, <1>12, <1>13, <1>14, <1>15 DEF AlertInv

LEMMA AlertEnds ==
    ASSUME AlertInv, NEW j \in Alerts!Jobs, job' = [job EXCEPT ![j] = Alerts!Resting],
           UNCHANGED <<active, late, done, alertRow, said, odd>>, excused \subseteq excused',
           job[j].step = "mark" => job[j].subject \in excused'
    PROVE  AlertInv'
BY RestingJob, JobMoves

LEMMA AlertsNext == AlertInv /\ [Alerts!Next]_alertsVars => AlertInv'
<1> SUFFICES ASSUME AlertInv, [Alerts!Next]_alertsVars PROVE AlertInv'
  OBVIOUS
<1>1. ASSUME UNCHANGED <<alertRow, job, said, odd, excused>>, done \subseteq done', done' \subseteq AlertLines,
             active' \subseteq AlertKeys, late' \subseteq AlertLines
      PROVE  AlertInv'
  BY <1>1 DEF AlertInv, AlertTypes, JobsAreTheirOwn, OneWalks, ReadIsRow, PostIsSaid, SaidIsRow,
     Walks, Marks, Alerts!SubjectsOf, Alerts!Open
<1>2. ASSUME NEW j \in Alerts!Jobs, NEW s \in Alerts!Subjects, Alerts!postToStaffChannel(j, s)
      PROVE  AlertInv'
  <2>1. /\ job[j].step = "walk" /\ s \in job[j].todo
        /\ UNCHANGED <<active, late, done, alertRow, excused>>
    BY <1>2 DEF Alerts!postToStaffChannel
  <2>2. CASE job' = [job EXCEPT ![j].todo = job[j].todo \ {s}] /\ UNCHANGED <<said, odd>>
    BY <2>1, <2>2, AlertPasses
  <2>3. CASE /\ Alerts!Due(j, s) # "nothing"
             /\ job' = [job EXCEPT ![j].step = "mark", ![j].subject = s, ![j].post = Alerts!Due(j, s)]
             /\ odd' = IF said[s] = "alert" <=> Alerts!Due(j, s) = "alert" THEN odd \cup {s} ELSE odd
             /\ said' = [said EXCEPT ![s] = Alerts!Due(j, s)]
    <3>1. PICK d \in {"alert", "resolve"} : d = Alerts!Due(j, s)
      BY <2>3 DEF Alerts!Due
    <3>. QED  BY <2>1, <2>3, <3>1, AlertPosts
  <2>. QED  BY <1>2, <2>2, <2>3 DEF Alerts!postToStaffChannel
<1>3. ASSUME NEW j \in Alerts!Jobs, Alerts!Mark(j) PROVE AlertInv'
  <2>1. /\ job[j].step = "mark" /\ job[j].subject \in job[j].todo /\ job[j].post \in {"alert", "resolve"}
        /\ job[j].subject \in Alerts!Subjects
    BY <1>3 DEF Alerts!Mark, AlertInv, JobsAreTheirOwn, Alerts!SubjectsOf, Alerts!Subjects
  <2> PICK s \in Alerts!Subjects : s = job[j].subject
    BY <2>1
  <2>2. alertRow \in [Alerts!Subjects -> AlertRows] /\ alertRow[s] \in AlertRows
    BY DEF AlertInv, AlertTypes
  <2>3. UNCHANGED <<active, late, done, said, odd>>
    BY <1>3 DEF Alerts!Mark
  <2> DEFINE r == IF job[j].post = "alert" THEN Alerts!markAlerted(alertRow[s])
                  ELSE Alerts!markResolved(alertRow[s])
  <2>4. r \in AlertRows /\ (Alerts!Open(r) <=> job[j].post = "alert")
    BY <2>1, <2>2, RowsAfter
  <2>5. \/ /\ alertRow' = [alertRow EXCEPT ![s] = r] /\ UNCHANGED excused
           /\ job' = [job EXCEPT ![j].step = "walk", ![j].todo = job[j].todo \ {s}]
        \/ /\ excused' = excused \cup {s} /\ job' = [job EXCEPT ![j] = Alerts!Resting]
           /\ UNCHANGED alertRow
    BY <1>3, <2>2 DEF Alerts!Mark, AlertInv, AlertTypes, JobRows
  <2> HIDE DEF r
  <2>. QED  BY <2>1, <2>3, <2>4, <2>5, AlertMarks, AlertEnds DEF Marks
<1>4. ASSUME NEW j \in Alerts!Jobs, Alerts!Finish(j) PROVE AlertInv'
  <2>1. /\ job[j].step = "walk" /\ job' = [job EXCEPT ![j] = Alerts!Resting]
        /\ UNCHANGED <<active, late, done, alertRow, said, odd, excused>>
    BY <1>4 DEF Alerts!Finish
  <2>. QED  BY <2>1, AlertEnds
<1>5. CASE UNCHANGED alertsVars
  <2>1. UNCHANGED <<active, late, done, alertRow, job, said, odd, excused>>
    BY <1>5 DEF alertsVars
  <2>. QED  BY <1>1, <2>1 DEF AlertInv, AlertTypes
<1>6. CASE \/ \E k \in AlertKeys : Alerts!NewDay(k)
           \/ \E l \in AlertLines : Alerts!GrowsLate(l) \/ Alerts!Executed(l) \/ Alerts!Failed(l)
           \/ Alerts!Arm
  <2>1. /\ UNCHANGED <<alertRow, job, said, odd, excused>> /\ done \subseteq done' /\ done' \subseteq AlertLines
        /\ active' \subseteq AlertKeys /\ late' \subseteq AlertLines
    BY <1>6 DEF Alerts!NewDay, Alerts!GrowsLate, Alerts!Executed, Alerts!Failed, Alerts!Arm, AlertInv, AlertTypes
  <2>. QED  BY <1>1, <2>1
<1>. QED
  BY <1>2, <1>3, <1>4, <1>5, <1>6, AlertRead, AlertStale DEF Alerts!Next

(* One job reads a subject, and what was said last is recorded or about to. *)
THEOREM AlertInvariant == ServiceSpec => [](part = "alerts" => AlertInv)
<1>1. ServiceInit => (part = "alerts" => AlertInv)
  BY AlertsInit DEF ServiceInit
<1>2. (part = "alerts" => AlertInv) /\ [ServiceNext]_serviceVars => (part = "alerts" => AlertInv)'
  BY JobsMove, AlertsNext
<1>. QED  BY <1>1, <1>2, PTL DEF ServiceSpec

(* The posts about a subject alternate, first an alert, unless a post was   *)
(* not recorded or sweeps overlapped.                                       *)
THEOREM AlertsInTurn == ServiceSpec => []AlertsAlternate
<1>1. (part = "alerts" => AlertInv) => AlertsAlternate
  BY DEF AlertInv, Alerts!AlertsAlternate, AlertsAlternate
<1>. QED  BY <1>1, AlertInvariant, PTL
=============================================================================
