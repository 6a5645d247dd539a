------------------------- MODULE ServiceTrafficProofs ------------------------
(***************************************************************************)
(* What many callers share and what they are shown: theorems about the     *)
(* rate limiters, the slots of the game database, the event streams, the   *)
(* commands to the game, the pages of the leaderboards, the response cache *)
(* and the reads of a player, as parts of the service.                     *)
(***************************************************************************)
EXTENDS Service, SequenceTheorems, FiniteSetTheorems, WellFoundedInduction, TLAPS

(* The part that moves moves by its own next-state relation.                *)
LEMMA TrafficMoves ==
    ASSUME [ServiceNext]_serviceVars
    PROVE  /\ part' = part
           /\ part = "reads" => [Reads!Next]_readsVars
           /\ part # "reads" => UNCHANGED readsVars
           /\ part = "cache" => [Cache!Next]_cacheVars
           /\ part = "boards" => [Boards!Next]_boardsVars
           /\ part = "limits" => [Limits!Next]_limitsVars
           /\ part = "queries" => [Slots!Next]_queriesVars
           /\ part = "streams" => [Streams!Next]_streamsVars
           /\ part = "events" => [Events!Next]_streamsVars
           /\ part = "commands" => [Commands!Next]_commandsVars
BY DEF ServiceNext, LinksStep, SubscriptionsStep, CheckoutsStep, ReadsStep, CacheStep, BoardsStep,
   MessagesStep, NoticesStep, LogStep, DaysStep, AlertsStep, LimitsStep, GateStep, SlotsStep,
   StreamsStep, EventsStep, RefsStep, CommandsStep, Only, serviceVars, readsVars, cacheVars,
   boardsVars, limitsVars, queriesVars, streamsVars, commandsVars

-----------------------------------------------------------------------------
(* The commands.  A command that waits on the bus has not run, and none has *)
(* run whose request has not sent it; a response that somebody may yet hear *)
(* is one of a command that ran; an audit row belongs to a request that was *)
(* told of its success, and names who made it or the system.                *)
Outcomes == [id : CommandCalls, ok : BOOLEAN]
CallRows == [at : {"idle", "listen", "waiting", "ok", "refused", "noanswer"},
             kind : {"none", "act", "staff"}, by : Actors \cup {"none"}]

CommandTypes ==
    /\ bus \in {"redis", "mysql"}
    /\ call \in [CommandCalls -> CallRows]
    /\ commands \subseteq CommandCalls /\ ran \subseteq Outcomes
    /\ heard \in [CommandCalls -> SUBSET ran] /\ table \subseteq ran
Unrun(r) == \A m \in ran : m.id # r
RunOnce ==
    /\ \A r \in commands : Unrun(r)
    /\ \A m, n \in ran : m.id = n.id => m = n
    /\ \A r \in CommandCalls : call[r].at \in {"idle", "listen"} => r \notin commands /\ Unrun(r)
ToldIsRun ==
    \A r \in CommandCalls :
        /\ call[r].at = "ok" => [id |-> r, ok |-> TRUE] \in ran
        /\ call[r].at = "refused" => [id |-> r, ok |-> FALSE] \in ran
RowsAreTheirs ==
    /\ \A a \in audit : /\ a.id \in CommandCalls /\ call[a.id].at = "ok"
                        /\ a.actor = call[a.id].by \/ a.actor = "system"
    /\ \A a, b \in audit : a.id = b.id => a = b
CommandInv == CommandTypes /\ RunOnce /\ ToldIsRun /\ RowsAreTheirs

LEMMA CommandInit == Commands!Init => CommandInv
<1> SUFFICES ASSUME Commands!Init PROVE CommandInv
  OBVIOUS
<1>1. /\ bus \in {"redis", "mysql"} /\ call = [r \in CommandCalls |-> Commands!NoCall]
      /\ commands = {} /\ table = {} /\ ran = {} /\ audit = {}
      /\ heard = [r \in CommandCalls |-> {}]
  BY DEF Commands!Init
<1>2. Commands!NoCall \in CallRows /\ Commands!NoCall.at = "idle"
  BY DEF Commands!NoCall, Commands!None, CallRows
<1>. QED
  BY <1>1, <1>2 DEF CommandInv, CommandTypes, RunOnce, ToldIsRun, RowsAreTheirs, Unrun

(* A request goes on; if it is told something, that is in ran, and a row    *)
(* is written only with the good news.                                      *)
LEMMA CallMoves ==
    ASSUME CommandInv, NEW r \in CommandCalls, NEW q \in CallRows,
           call' = [call EXCEPT ![r] = q], UNCHANGED <<bus, ran>>,
           commands' = commands \/ (commands' = commands \cup {r} /\ call[r].at = "listen"),
           heard' \in [CommandCalls -> SUBSET ran], table' \subseteq ran,
           call[r].at \in {"idle", "listen", "waiting"}, q.at # "idle",
           q.at = "listen" => call[r].at = "idle",
           q.at = "ok" => [id |-> r, ok |-> TRUE] \in ran,
           q.at = "refused" => [id |-> r, ok |-> FALSE] \in ran,
           \/ audit' = audit
           \/ /\ q.at = "ok"
              /\ \E actor \in {q.by, "system"} : audit' = audit \cup {[id |-> r, actor |-> actor]}
    PROVE  CommandInv'
<1>1. \A s \in CommandCalls : call'[s] = IF s = r THEN q ELSE call[s]
  BY DEF CommandInv, CommandTypes
<1>2. CommandTypes'
  BY DEF CommandInv, CommandTypes
<1>3. RunOnce'
  BY <1>1 DEF CommandInv, RunOnce, Unrun
<1>4. ToldIsRun'
  BY <1>1 DEF CommandInv, ToldIsRun
<1>5. \A a \in audit : a.id \in CommandCalls /\ a.id # r
  BY DEF CommandInv, RowsAreTheirs
<1>6. RowsAreTheirs'
  <2>1. CASE audit' = audit
    BY <1>1, <1>5, <2>1 DEF CommandInv, RowsAreTheirs
  <2>2. ASSUME q.at = "ok", NEW actor \in {q.by, "system"}, audit' = audit \cup {[id |-> r, actor |-> actor]}
        PROVE  RowsAreTheirs'
    <3>1. \A a \in audit' : a \in audit \/ (a.id = r /\ a.actor = actor /\ a = [id |-> r, actor |-> actor])
      BY <2>2
    <3>2. \A a \in audit' : /\ a.id \in CommandCalls /\ call'[a.id].at = "ok"
                            /\ a.actor = call'[a.id].by \/ a.actor = "system"
      BY <1>1, <1>5, <2>2, <3>1 DEF CommandInv, RowsAreTheirs
    <3>3. \A a, b \in audit' : a.id = b.id => a = b
      BY <1>5, <3>1 DEF CommandInv, RowsAreTheirs
    <3>. QED  BY <3>2, <3>3 DEF RowsAreTheirs
  <2>. QED  BY <2>1, <2>2
<1>. QED  BY <1>2, <1>3, <1>4, <1>6 DEF CommandInv

(* A command runs once, with one outcome.                                   *)
LEMMA CommandRuns ==
    ASSUME CommandInv, NEW r \in CommandCalls, NEW ok \in BOOLEAN, Commands!PluginRuns(r, ok)
    PROVE  CommandInv'
<1> DEFINE m == [id |-> r, ok |-> ok]
<1>1. m \in Outcomes /\ m.id = r
  BY DEF Outcomes
<1>2. /\ r \in commands /\ commands' = commands \ {r} /\ ran' = ran \cup {m}
      /\ table' \subseteq table \cup {m} /\ UNCHANGED <<bus, call, audit>>
      /\ \/ heard' = heard
         \/ heard' = [w \in CommandCalls |-> IF w \in Commands!Listening THEN heard[w] \cup {m} ELSE heard[w]]
  BY DEF Commands!PluginRuns, Commands!Response
<1> HIDE DEF m
<1>3. heard' \in [CommandCalls -> SUBSET ran']
  BY <1>2 DEF CommandInv, CommandTypes
<1>4. CommandTypes'
  BY <1>1, <1>2, <1>3 DEF CommandInv, CommandTypes
<1>5. RunOnce'
  BY <1>1, <1>2 DEF CommandInv, RunOnce, Unrun
<1>6. ToldIsRun' /\ RowsAreTheirs'
  BY <1>2 DEF CommandInv, ToldIsRun, RowsAreTheirs
<1>. QED  BY <1>4, <1>5, <1>6 DEF CommandInv

(* A request that waits is answered by a response to its own command.       *)
LEMMA CommandAnswered ==
    ASSUME CommandInv, NEW w \in CommandCalls, NEW m \in ran, m.id = w, call[w].at = "waiting",
           Commands!AnswerBy(w, m), UNCHANGED <<bus, ran, commands>>,
           heard' \in [CommandCalls -> SUBSET ran], table' \subseteq ran
    PROVE  CommandInv'
<1> DEFINE q == [call[w] EXCEPT !.at = IF m.ok THEN "ok" ELSE "refused"]
<1>1. m \in Outcomes /\ call[w] \in CallRows
  BY DEF CommandInv, CommandTypes
<1>2. /\ q \in CallRows /\ q.by = call[w].by /\ q.at \in {"ok", "refused"}
      /\ q.at = "ok" => m.ok = TRUE
      /\ q.at = "refused" => m.ok = FALSE
  BY <1>1 DEF CallRows, Outcomes
<1>3. call' = [call EXCEPT ![w] = q]
  BY DEF Commands!AnswerBy, Commands!At, CommandInv, CommandTypes
<1>4. \/ audit' = audit
      \/ /\ m.ok
         /\ \E actor \in {call[w].by, "system"} : audit' = audit \cup {[id |-> w, actor |-> actor]}
  BY DEF Commands!AnswerBy, Commands!recordAction, Commands!resolveAuditActor, Commands!System
<1>5. m.ok => q.at = "ok"
  OBVIOUS
<1>6. m = [id |-> w, ok |-> m.ok]
  BY <1>1 DEF Outcomes
<1> HIDE DEF q
<1>7. /\ q.at = "ok" => [id |-> w, ok |-> TRUE] \in ran
      /\ q.at = "refused" => [id |-> w, ok |-> FALSE] \in ran
  BY <1>2, <1>6
<1>. QED  BY <1>2, <1>3, <1>4, <1>5, <1>7, CallMoves, ZenonT(30)

LEMMA CommandNext == CommandInv /\ [Commands!Next]_commandsVars => CommandInv'
<1> SUFFICES ASSUME CommandInv, [Commands!Next]_commandsVars PROVE CommandInv'
  OBVIOUS
<1>1. /\ call \in [CommandCalls -> CallRows] /\ heard \in [CommandCalls -> SUBSET ran]
      /\ table \subseteq ran
  BY DEF CommandInv, CommandTypes
<1>2. ASSUME NEW r \in CommandCalls, NEW kind \in {"act", "staff"}, NEW by \in Actors,
             Commands!Ask(r, kind, by)
      PROVE  CommandInv'
  <2> DEFINE q == [at |-> "listen", kind |-> kind, by |-> by]
  <2>1. q \in CallRows /\ q.at = "listen"
    BY DEF CallRows
  <2>2. /\ call[r].at = "idle" /\ call' = [call EXCEPT ![r] = q]
        /\ UNCHANGED <<bus, commands, heard, table, ran, audit>>
    BY <1>2 DEF Commands!Ask
  <2> HIDE DEF q
  <2>. QED  BY <1>1, <2>1, <2>2, CallMoves
<1>3. ASSUME NEW r \in CommandCalls, Commands!sendCommand(r) \/ Commands!SendFails(r) \/ Commands!TimesOut(r)
      PROVE  CommandInv'
  <2>1. PICK s \in {"waiting", "noanswer"} : call' = [call EXCEPT ![r].at = s]
    BY <1>3 DEF Commands!sendCommand, Commands!SendFails, Commands!TimesOut, Commands!At
  <2> DEFINE q == [call[r] EXCEPT !.at = s]
  <2>2. q \in CallRows /\ q.at = s /\ call' = [call EXCEPT ![r] = q]
    BY <1>1, <2>1 DEF CallRows
  <2>3. /\ call[r].at \in {"listen", "waiting"} /\ UNCHANGED <<bus, table, ran, audit>>
        /\ commands' = commands \/ (commands' = commands \cup {r} /\ call[r].at = "listen")
        /\ heard' = heard \/ heard' = [heard EXCEPT ![r] = {}]
    BY <1>3 DEF Commands!sendCommand, Commands!SendFails, Commands!TimesOut
  <2>4. heard' \in [CommandCalls -> SUBSET ran]
    BY <1>1, <2>3
  <2> HIDE DEF q
  <2>. QED  BY <1>1, <2>2, <2>3, <2>4, CallMoves
<1>4. ASSUME NEW r \in CommandCalls, Commands!CommandLost(r) PROVE CommandInv'
  <2>1. commands' \subseteq commands /\ UNCHANGED <<bus, call, heard, table, ran, audit>>
    BY <1>4 DEF Commands!CommandLost
  <2>. QED
    BY <2>1 DEF CommandInv, CommandTypes, RunOnce, ToldIsRun, RowsAreTheirs, Unrun
<1>5. ASSUME NEW w \in CommandCalls, NEW m \in heard[w], Commands!Hear(w, m) PROVE CommandInv'
  <2>1. m \in ran /\ call[w].at = "waiting" /\ UNCHANGED <<bus, commands, table, ran>>
    BY <1>1, <1>5 DEF Commands!Hear
  <2>2. CASE /\ m.id = w /\ Commands!AnswerBy(w, m) /\ heard' = [heard EXCEPT ![w] = {}]
    <3>1. heard' \in [CommandCalls -> SUBSET ran]
      BY <1>1, <2>2
    <3>. QED  BY <1>1, <2>1, <2>2, <3>1, CommandAnswered
  <2>3. CASE heard' = [heard EXCEPT ![w] = heard[w] \ {m}] /\ UNCHANGED <<call, audit>>
    <3>1. heard' \in [CommandCalls -> SUBSET ran']
      BY <1>1, <2>1, <2>3
    <3>. QED
      BY <2>1, <2>3, <3>1 DEF CommandInv, CommandTypes, RunOnce, ToldIsRun, RowsAreTheirs, Unrun
  <2>. QED  BY <1>5, <2>2, <2>3 DEF Commands!Hear, Commands!Matches
<1>6. ASSUME NEW w \in CommandCalls, NEW m \in table, Commands!Poll(w, m) PROVE CommandInv'
  <2>1. /\ m \in ran /\ m.id = w /\ call[w].at = "waiting" /\ Commands!AnswerBy(w, m)
        /\ UNCHANGED <<bus, commands, heard, ran>> /\ table' \subseteq ran
    BY <1>1, <1>6 DEF Commands!Poll, Commands!Matches
  <2>. QED  BY <1>1, <2>1, CommandAnswered
<1>7. CASE UNCHANGED commandsVars
  BY <1>7 DEF commandsVars, CommandInv, CommandTypes, RunOnce, ToldIsRun, RowsAreTheirs, Unrun
<1>. QED
  BY <1>2, <1>3, <1>4, <1>5, <1>6, <1>7, CommandRuns
     DEF Commands!Next, Commands!Sell, Commands!OpenCrate, Commands!Wear, Commands!Privacy,
         Commands!Legion, Commands!StaffCommand

(* A response is one of a command that ran, and a command runs once.        *)
THEOREM CommandInvariant == ServiceSpec => [](part = "commands" => CommandInv)
<1>1. ServiceInit => (part = "commands" => CommandInv)
  BY CommandInit DEF ServiceInit
<1>2. (part = "commands" => CommandInv) /\ [ServiceNext]_serviceVars => (part = "commands" => CommandInv)'
  BY TrafficMoves, CommandNext
<1>. QED  BY <1>1, <1>2, PTL DEF ServiceSpec

-----------------------------------------------------------------------------
(* The first limiter.  As long as no cleanup forgot a window, it has let    *)
(* through at most its limit, and while it runs no more than it counted;    *)
(* nothing is counted of a window that has not begun.                       *)
Begun(k) == Limits!windowStart(limitClock, LimitWindow[k[1]])
Forgets(k) == \E f \in forgotten : f[1] = k
LimitTypes ==
    /\ limitClock \in 0..LimitMaxClock
    /\ hits \in [Limits!Keys -> Nat] /\ admitted \in [Limits!Keys -> Nat]
CountsWhatItAdmits ==
    \A k \in Limits!Keys :
        ~Forgets(k) => admitted[k] <= Limit[k[1]] /\ (k[3] = Begun(k) => admitted[k] <= hits[k])
NothingBefore == \A k \in Limits!Keys : k[3] > limitClock => hits[k] = 0 /\ admitted[k] = 0
ShorterForgets ==
    \A f \in forgotten : f[1] \in Limits!Keys /\ f[2] \in Limiters /\ LimitWindow[f[2]] < LimitWindow[f[1][1]]
LimitInv == LimitTypes /\ CountsWhatItAdmits /\ NothingBefore /\ ShorterForgets

LEMMA TimesGrows == ASSUME NEW a \in Nat, NEW b \in Nat, NEW w \in Nat, a <= b PROVE a * w <= b * w
OBVIOUS

(* The start of the window at t is the last multiple up to t.               *)
LEMMA StartBounds ==
    ASSUME NEW t \in Nat, NEW w \in Nat \ {0}
    PROVE  /\ Limits!windowStart(t, w) \in Nat
           /\ Limits!windowStart(t, w) <= t /\ t < Limits!windowStart(t, w) + w
<1>1. t \div w \in Nat /\ t % w \in 0..(w - 1) /\ t = w * (t \div w) + (t % w)
  OBVIOUS
<1>2. PICK d \in Nat : d = t \div w
  BY <1>1
<1>3. w * d = d * w /\ d * w \in Nat
  OBVIOUS
<1>. QED  BY <1>1, <1>2, <1>3 DEF Limits!windowStart

(* A tick leaves the window as it is or begins one.                         *)
LEMMA StartStays ==
    ASSUME NEW t \in Nat, NEW w \in Nat \ {0}
    PROVE  \/ Limits!windowStart(t + 1, w) = Limits!windowStart(t, w)
           \/ Limits!windowStart(t + 1, w) > t
<1>1. PICK d \in Nat : d = t \div w
  OBVIOUS
<1>2. PICK e \in Nat : e = (t + 1) \div w
  OBVIOUS
<1>3. d * w \in Nat /\ e * w \in Nat /\ d * w <= t /\ t < d * w + w
  BY <1>1, StartBounds DEF Limits!windowStart
<1>4. e * w <= t + 1 /\ t + 1 < e * w + w
  BY <1>2, <1>3, StartBounds, t + 1 \in Nat DEF Limits!windowStart
<1>5. (d + 1) * w = d * w + w /\ (e + 1) * w = e * w + w
  OBVIOUS
<1>6. CASE e < d
  <2>1. (e + 1) * w <= d * w
    BY <1>6, TimesGrows
  <2>. QED  BY <1>3, <1>4, <1>5, <2>1
<1>7. CASE e > d
  <2>1. (d + 1) * w <= e * w
    BY <1>7, TimesGrows
  <2>. QED  BY <1>2, <1>3, <1>5, <2>1 DEF Limits!windowStart
<1>8. CASE e = d
  BY <1>1, <1>2, <1>8 DEF Limits!windowStart
<1>. QED  BY <1>6, <1>7, <1>8

LEMMA KeysOf ==
    ASSUME LimitInv, NEW k \in Limits!Keys
    PROVE  /\ k[1] \in Limiters /\ k[3] \in 0..LimitMaxClock
           /\ LimitWindow[k[1]] \in Nat \ {0} /\ Limit[k[1]] \in Nat
           /\ Begun(k) \in Nat /\ Begun(k) <= limitClock /\ limitClock < Begun(k) + LimitWindow[k[1]]
<1>1. k[1] \in Limiters /\ k[3] \in 0..LimitMaxClock
  BY DEF Limits!Keys, Limits!Starts
<1>2. LimitWindow[k[1]] \in Nat \ {0} /\ Limit[k[1]] \in Nat /\ limitClock \in Nat
  BY <1>1, LimitsAssumption DEF LimitInv, LimitTypes
<1>. QED  BY <1>1, <1>2, StartBounds DEF Begun

LEMMA LimitInit == Limits!Init => LimitInv
<1> SUFFICES ASSUME Limits!Init PROVE LimitInv
  OBVIOUS
<1>1. /\ limitClock = 0 /\ hits = [k \in Limits!Keys |-> 0] /\ admitted = [k \in Limits!Keys |-> 0]
      /\ forgotten = {}
  BY DEF Limits!Init
<1>2. \A k \in Limits!Keys : Limit[k[1]] \in Nat
  BY LimitsAssumption DEF Limits!Keys
<1>. QED
  BY <1>1, <1>2, LimitsAssumption
     DEF LimitInv, LimitTypes, CountsWhatItAdmits, NothingBefore, ShorterForgets

LEMMA LimitTick ==
    ASSUME LimitInv, limitClock < LimitMaxClock, limitClock' = limitClock + 1,
           UNCHANGED <<hits, admitted, forgotten>>
    PROVE  LimitInv'
<1>1. LimitTypes' /\ ShorterForgets'
  BY LimitsAssumption DEF LimitInv, LimitTypes, ShorterForgets
<1>2. NothingBefore'
  BY LimitsAssumption DEF LimitInv, LimitTypes, NothingBefore, Limits!Keys, Limits!Starts
<1>3. CountsWhatItAdmits'
  <2> SUFFICES ASSUME NEW k \in Limits!Keys, ~Forgets(k)
               PROVE  admitted[k] <= Limit[k[1]] /\ (k[3] = Begun(k)' => admitted[k] <= hits[k])
    BY DEF CountsWhatItAdmits, Forgets
  <2>1. admitted[k] <= Limit[k[1]] /\ (k[3] = Begun(k) => admitted[k] <= hits[k])
    BY DEF LimitInv, CountsWhatItAdmits
  <2>2. limitClock \in Nat /\ LimitWindow[k[1]] \in Nat \ {0}
    BY KeysOf DEF LimitInv, LimitTypes
  <2>3. Begun(k)' = Begun(k) \/ Begun(k)' > limitClock
    BY <2>2, StartStays DEF Begun
  <2>4. k[3] > limitClock => admitted[k] <= hits[k]
    BY DEF LimitInv, NothingBefore
  <2>. QED  BY <2>1, <2>3, <2>4
<1>. QED  BY <1>1, <1>2, <1>3 DEF LimitInv

LEMMA LimitCharge ==
    ASSUME LimitInv, NEW l \in Limiters, NEW ip \in LimitIps, Limits!rateLimit(l, ip)
    PROVE  LimitInv'
<1> DEFINE k == <<l, ip, Limits!windowStart(limitClock, LimitWindow[l])>>
<1>1. limitClock \in Nat /\ limitClock <= LimitMaxClock /\ LimitMaxClock \in Nat
      /\ LimitWindow[l] \in Nat \ {0} /\ Limit[l] \in Nat
  BY LimitsAssumption DEF LimitInv, LimitTypes
<1>2. k \in Limits!Keys /\ k[3] <= limitClock /\ k[1] = l
  <2>1. PICK s \in Nat : s = Limits!windowStart(limitClock, LimitWindow[l]) /\ s <= limitClock
    BY <1>1, StartBounds
  <2>2. s \in 0..LimitMaxClock /\ k = <<l, ip, s>>
    BY <1>1, <2>1
  <2>. QED  BY <2>1, <2>2 DEF Limits!Keys, Limits!Starts
<1>3. /\ hits' = [hits EXCEPT ![k] = hits[k] + 1]
      /\ admitted' = [admitted EXCEPT ![k] =
             IF hits[k] + 1 <= Limit[l] THEN Limits!AtMost(admitted[k] + 1, Limit[l] + 1) ELSE admitted[k]]
      /\ UNCHANGED <<limitClock, forgotten>>
  BY DEF Limits!rateLimit, Limits!allows
<1> HIDE DEF k
<1>4. /\ hits \in [Limits!Keys -> Nat] /\ admitted \in [Limits!Keys -> Nat]
      /\ hits[k] \in Nat /\ admitted[k] \in Nat
  BY <1>2 DEF LimitInv, LimitTypes
<1>5. PICK n \in Nat : n = IF hits[k] + 1 <= Limit[l] THEN Limits!AtMost(admitted[k] + 1, Limit[l] + 1)
                           ELSE admitted[k]
  BY <1>1, <1>4 DEF Limits!AtMost
<1>6. \A j \in Limits!Keys : /\ hits'[j] = IF j = k THEN hits[k] + 1 ELSE hits[j]
                             /\ admitted'[j] = IF j = k THEN n ELSE admitted[j]
  BY <1>3, <1>4, <1>5
<1>7. LimitTypes'
  <2>1. hits' \in [Limits!Keys -> Nat]
    <3>1. PICK h \in Nat : h = hits[k] + 1
      BY <1>4
    <3>2. hits' = [hits EXCEPT ![k] = h]
      BY <1>3, <3>1
    <3>. QED  BY <1>4, <3>2
  <2>2. admitted' = [admitted EXCEPT ![k] = n]
    BY <1>3, <1>5
  <2>3. admitted' \in [Limits!Keys -> Nat]
    BY <1>4, <2>2
  <2>. QED  BY <1>3, <2>1, <2>3 DEF LimitInv, LimitTypes
<1>8. CountsWhatItAdmits'
  <2> SUFFICES ASSUME NEW j \in Limits!Keys, ~Forgets(j)
               PROVE  admitted'[j] <= Limit[j[1]] /\ (j[3] = Begun(j) => admitted'[j] <= hits'[j])
    BY <1>3 DEF CountsWhatItAdmits, Forgets, Begun
  <2>1. admitted[j] <= Limit[j[1]] /\ (j[3] = Begun(j) => admitted[j] <= hits[j])
    BY DEF LimitInv, CountsWhatItAdmits
  <2>2. CASE j = k
    <3>1. k[3] = Begun(k)
      BY <1>2 DEF k, Begun
    <3>2. admitted[k] <= hits[k] /\ admitted[k] <= Limit[l]
      BY <1>2, <2>1, <2>2, <3>1
    <3>3. n <= Limit[l] /\ n <= hits[k] + 1
      BY <1>1, <1>4, <1>5, <3>2 DEF Limits!AtMost
    <3>. QED  BY <1>2, <1>6, <2>2, <3>3
  <2>3. CASE j # k
    BY <1>6, <2>1, <2>3
  <2>. QED  BY <2>2, <2>3
<1>9. NothingBefore'
  BY <1>1, <1>2, <1>3, <1>6 DEF LimitInv, NothingBefore, Limits!Keys, Limits!Starts
<1>10. ShorterForgets'
  BY <1>3 DEF LimitInv, ShorterForgets
<1>. QED  BY <1>7, <1>8, <1>9, <1>10 DEF LimitInv

(* A cleanup removes rows that began longer ago than its own window; of one *)
(* that still runs it is written down.                                      *)
LEMMA LimitCleanup == ASSUME LimitInv, NEW l \in Limiters, Limits!cleanup(l) PROVE LimitInv'
<1> DEFINE old == {k \in Limits!Keys : hits[k] > 0 /\ Limits!expired(k, l)}
           lost == {r \in old : r[3] = Limits!windowStart(limitClock, LimitWindow[r[1]])}
<1>1. /\ hits' = [k \in Limits!Keys |-> IF k \in old THEN 0 ELSE hits[k]]
      /\ forgotten' = forgotten \cup {<<k, l>> : k \in lost}
      /\ UNCHANGED <<limitClock, admitted>>
  BY DEF Limits!cleanup
<1>2. \A k \in lost : k \in Limits!Keys /\ k \in old /\ k[3] = Begun(k)
  BY DEF Begun
<1>3. \A k \in Limits!Keys : k \in old /\ k[3] = Begun(k) => k \in lost
  BY DEF Begun
<1>4. LimitWindow[l] \in Nat /\ limitClock \in Nat
  BY LimitsAssumption DEF LimitInv, LimitTypes
<1>5. \A k \in Limits!Keys : k \in old => k[3] + LimitWindow[l] < limitClock
  BY DEF Limits!expired
<1> HIDE DEF old, lost
<1>6. LimitTypes'
  BY <1>1 DEF LimitInv, LimitTypes
<1>7. \A k \in lost : LimitWindow[l] < LimitWindow[k[1]]
  <2> TAKE k \in lost
  <2>1. k \in Limits!Keys /\ k[3] = Begun(k) /\ k[3] + LimitWindow[l] < limitClock
    BY <1>2, <1>5
  <2>. QED  BY <1>4, <2>1, KeysOf
<1>8. ShorterForgets'
  BY <1>1, <1>2, <1>7 DEF LimitInv, ShorterForgets
<1>9. NothingBefore'
  BY <1>1 DEF LimitInv, NothingBefore
<1>10. \A k \in Limits!Keys : ~Forgets(k)' => ~Forgets(k) /\ k \notin lost
  <2>1. \A k : Forgets(k) => Forgets(k)'
    BY <1>1 DEF Forgets
  <2>2. \A k \in lost : <<k, l>> \in forgotten' /\ <<k, l>>[1] = k
    BY <1>1
  <2>3. \A k \in lost : Forgets(k)'
    BY <2>2 DEF Forgets
  <2>. QED  BY <2>1, <2>3
<1>11. CountsWhatItAdmits'
  <2> SUFFICES ASSUME NEW k \in Limits!Keys, ~Forgets(k)'
               PROVE  admitted[k] <= Limit[k[1]] /\ (k[3] = Begun(k) => admitted[k] <= hits'[k])
    BY <1>1 DEF CountsWhatItAdmits, Begun
  <2>1. admitted[k] <= Limit[k[1]] /\ (k[3] = Begun(k) => admitted[k] <= hits[k] /\ k \notin old)
    BY <1>3, <1>10 DEF LimitInv, CountsWhatItAdmits
  <2>. QED  BY <1>1, <2>1
<1>. QED  BY <1>6, <1>8, <1>9, <1>11 DEF LimitInv

LEMMA LimitNext == LimitInv /\ [Limits!Next]_limitsVars => LimitInv'
<1> SUFFICES ASSUME LimitInv, [Limits!Next]_limitsVars PROVE LimitInv'
  OBVIOUS
<1>1. ASSUME UNCHANGED <<limitClock, hits, admitted, forgotten>> PROVE LimitInv'
  BY <1>1 DEF LimitInv, LimitTypes, CountsWhatItAdmits, NothingBefore, ShorterForgets, Forgets, Begun
<1>2. CASE Limits!Tick
  BY <1>2, LimitTick DEF Limits!Tick
<1>3. CASE \/ Limits!cleanupV2 \/ UNCHANGED limitsVars
           \/ \E asks \in SUBSET Limits!Buckets, c \in Costs : Limits!rateLimitV2(asks, c)
  BY <1>1, <1>3 DEF Limits!cleanupV2, Limits!rateLimitV2, limitsVars
<1>. QED
  BY <1>2, <1>3, LimitCharge, LimitCleanup DEF Limits!Next

(* A window that no cleanup forgot has let through no more than it counted. *)
THEOREM LimitInvariant == ServiceSpec => [](part = "limits" => LimitInv)
<1>1. ServiceInit => (part = "limits" => LimitInv)
  BY LimitInit DEF ServiceInit
<1>2. (part = "limits" => LimitInv) /\ [ServiceNext]_serviceVars => (part = "limits" => LimitInv)'
  BY TrafficMoves, LimitNext
<1>. QED  BY <1>1, <1>2, PTL DEF ServiceSpec

LEMMA LimitsAreKept == LimitInv => Limits!LimitHolds
<1> SUFFICES ASSUME LimitInv PROVE Limits!LimitHolds
  OBVIOUS
<1>1. \A k \in Limits!Keys : admitted[k] > Limit[k[1]] => Forgets(k)
  BY KeysOf DEF LimitInv, LimitTypes, CountsWhatItAdmits
<1>. QED  BY <1>1 DEF LimitInv, ShorterForgets, Forgets, Limits!LimitHolds

-----------------------------------------------------------------------------
(* The slots.  Who is in the queue is waiting, and is there once: whoever   *)
(* is woken is one call that was not awake.                                 *)
Holding == {q \in Queries : at[q] \in Slots!InSocket}
Woken == {q \in Queries : at[q] = "woken"}
SlotSteps == {"idle", "waiting", "woken"} \cup Slots!InSocket \cup Slots!Settled
SlotTypes == inFlight \in Nat /\ waiters \in Seq(Queries) /\ at \in [Queries -> SlotSteps]
QueueIsWaiting ==
    /\ \A i \in 1..Len(waiters) : at[waiters[i]] = "waiting"
    /\ \A i, j \in 1..Len(waiters) : waiters[i] = waiters[j] => i = j
SlotsAreCounted ==
    /\ inFlight = Cardinality(Holding)
    /\ waiters # <<>> => inFlight + Cardinality(Woken) >= SlotCap
SlotInv == SlotTypes /\ QueueIsWaiting /\ SlotsAreCounted

LEMMA SlotSets ==
    /\ IsFiniteSet(Holding) /\ Cardinality(Holding) \in Nat
    /\ IsFiniteSet(Woken) /\ Cardinality(Woken) \in Nat
BY FS_Subset, FS_CardinalityType, QueriesAssumption DEF Holding, Woken

LEMMA SlotInit == Slots!Init => SlotInv
<1> SUFFICES ASSUME Slots!Init PROVE SlotInv
  OBVIOUS
<1>1. inFlight = 0 /\ waiters = <<>> /\ at = [q \in Queries |-> "idle"]
  BY DEF Slots!Init
<1>2. Holding = {}
  BY <1>1 DEF Holding, Slots!InSocket, Slots!Reading
<1>. QED
  BY <1>1, <1>2, FS_EmptySet DEF SlotInv, SlotTypes, SlotSteps, QueueIsWaiting, SlotsAreCounted

(* A call that stays in its socket.                                         *)
LEMMA SlotStays ==
    ASSUME SlotInv, NEW q \in Queries, at[q] \in Slots!InSocket,
           NEW where \in Slots!InSocket, at' = [at EXCEPT ![q] = where], UNCHANGED <<inFlight, waiters>>
    PROVE  SlotInv'
<1>1. \A r \in Queries : at'[r] = IF r = q THEN where ELSE at[r]
  BY DEF SlotInv, SlotTypes
<1>2. \A s \in Slots!InSocket : s # "waiting" /\ s # "woken"
  BY DEF Slots!InSocket, Slots!Reading
<1>3. Holding' = Holding /\ Woken' = Woken
  BY <1>1, <1>2 DEF Holding, Woken
<1>4. SlotTypes'
  BY DEF SlotInv, SlotTypes, SlotSteps
<1>5. QueueIsWaiting'
  <2>1. \A i \in 1..Len(waiters) : waiters[i] \in Queries /\ waiters[i] # q
    BY <1>2 DEF SlotInv, SlotTypes, QueueIsWaiting
  <2>. QED  BY <1>1, <2>1 DEF SlotInv, QueueIsWaiting
<1>. QED  BY <1>3, <1>4, <1>5 DEF SlotInv, SlotsAreCounted

LEMMA SlotTaken ==
    ASSUME SlotInv, NEW q \in Queries, at[q] \in {"idle", "woken"},
           at[q] = "idle" => inFlight < SlotCap,
           inFlight' = inFlight + 1, at' = [at EXCEPT ![q] = "connect"], waiters' = waiters
    PROVE  SlotInv'
<1>1. \A r \in Queries : at'[r] = IF r = q THEN "connect" ELSE at[r]
  BY DEF SlotInv, SlotTypes
<1>2. "connect" \in Slots!InSocket /\ "idle" \notin Slots!InSocket /\ "woken" \notin Slots!InSocket
  BY DEF Slots!InSocket, Slots!Reading
<1>3. Holding' = Holding \cup {q} /\ q \notin Holding /\ Woken' = Woken \ {q}
  BY <1>1, <1>2 DEF Holding, Woken
<1>4. Cardinality(Holding)' = Cardinality(Holding) + 1
  BY <1>3, SlotSets, FS_AddElement
<1>5. /\ at[q] = "woken" => Cardinality(Woken)' = Cardinality(Woken) - 1
      /\ at[q] # "woken" => Cardinality(Woken)' = Cardinality(Woken)
  <2>1. CASE at[q] = "woken"
    <3>1. q \in Woken
      BY <2>1 DEF Woken
    <3>2. Cardinality(Woken \ {q}) = Cardinality(Woken) - 1
      BY <3>1, SlotSets, FS_RemoveElement
    <3>. QED  BY <1>3, <2>1, <3>2
  <2>2. CASE at[q] # "woken"
    <3>1. Woken \ {q} = Woken
      BY <2>2 DEF Woken
    <3>. QED  BY <1>3, <2>2, <3>1
  <2>. QED  BY <2>1, <2>2
<1>6. SlotTypes'
  BY <1>2 DEF SlotInv, SlotTypes, SlotSteps
<1>7. QueueIsWaiting'
  <2>1. \A i \in 1..Len(waiters) : waiters[i] \in Queries /\ waiters[i] # q
    BY DEF SlotInv, SlotTypes, QueueIsWaiting
  <2>. QED  BY <1>1, <2>1 DEF SlotInv, QueueIsWaiting
<1>8. SlotsAreCounted'
  BY <1>4, <1>5, SlotSets, QueriesAssumption DEF SlotInv, SlotTypes, SlotsAreCounted
<1>. QED  BY <1>6, <1>7, <1>8 DEF SlotInv

LEMMA SlotAwaited ==
    ASSUME SlotInv, NEW q \in Queries, at[q] = "idle", ~(inFlight < SlotCap),
           inFlight' = inFlight, at' = [at EXCEPT ![q] = "waiting"], waiters' = Append(waiters, q)
    PROVE  SlotInv'
<1>1. \A r \in Queries : at'[r] = IF r = q THEN "waiting" ELSE at[r]
  BY DEF SlotInv, SlotTypes
<1>2. Holding' = Holding
  BY <1>1 DEF Holding, Slots!InSocket, Slots!Reading
<1>3. SlotTypes'
  BY DEF SlotInv, SlotTypes, SlotSteps
<1>4. /\ Len(waiters') = Len(waiters) + 1 /\ Len(waiters) \in Nat
      /\ \A i \in 1..Len(waiters') : waiters'[i] = IF i <= Len(waiters) THEN waiters[i] ELSE q
  BY DEF SlotInv, SlotTypes
<1>5. \A i \in 1..Len(waiters) : waiters[i] \in Queries /\ at[waiters[i]] = "waiting" /\ waiters[i] # q
  BY DEF SlotInv, SlotTypes, QueueIsWaiting
<1>6. QueueIsWaiting'
  <2>1. \A i \in 1..Len(waiters') : at'[waiters'[i]] = "waiting"
    BY <1>1, <1>4, <1>5
  <2>2. \A i, j \in 1..Len(waiters') : waiters'[i] = waiters'[j] => i = j
    BY <1>4, <1>5 DEF SlotInv, QueueIsWaiting
  <2>. QED  BY <2>1, <2>2 DEF QueueIsWaiting
<1>7. Woken' \in SUBSET Queries /\ IsFiniteSet(Woken') /\ Cardinality(Woken') \in Nat
  BY FS_Subset, FS_CardinalityType, QueriesAssumption DEF Woken
<1>8. SlotsAreCounted'
  BY <1>2, <1>7, QueriesAssumption DEF SlotInv, SlotTypes, SlotsAreCounted
<1>. QED  BY <1>3, <1>6, <1>8 DEF SlotInv

(* A slot that is given back wakes the first in the queue.                  *)
LEMMA SlotGivenBack ==
    ASSUME SlotInv, NEW q \in Queries, at[q] \in Slots!InSocket, NEW result \in Slots!Settled,
           Slots!releaseSlot(q, result)
    PROVE  SlotInv'
<1>1. /\ result \notin Slots!InSocket /\ result \notin {"waiting", "woken"}
      /\ "woken" \notin Slots!InSocket /\ "waiting" \notin Slots!InSocket
      /\ at[q] \notin {"waiting", "woken"}
  BY DEF Slots!InSocket, Slots!Reading, Slots!Settled
<1>2. inFlight' = inFlight - 1
  BY DEF Slots!releaseSlot
<1>3. /\ q \in Holding /\ Cardinality(Holding \ {q}) = Cardinality(Holding) - 1
      /\ Cardinality(Holding \ {q}) \in Nat
  <2>1. q \in Holding /\ IsFiniteSet(Holding \ {q})
    BY SlotSets, FS_Subset, Holding \ {q} \subseteq Holding DEF Holding
  <2>. QED  BY <2>1, SlotSets, FS_RemoveElement, FS_CardinalityType
<1>4. CASE waiters = <<>>
  <2>1. at' = [at EXCEPT ![q] = result] /\ waiters' = <<>>
    BY <1>4 DEF Slots!releaseSlot
  <2>2. Holding' = Holding \ {q}
    BY <1>1, <2>1 DEF SlotInv, SlotTypes, Holding
  <2>3. inFlight' = Cardinality(Holding \ {q})
    BY <1>2, <1>3 DEF SlotInv, SlotsAreCounted
  <2>4. SlotsAreCounted' /\ inFlight' \in Nat
    BY <1>3, <2>1, <2>2, <2>3 DEF SlotsAreCounted
  <2>5. SlotTypes' /\ QueueIsWaiting'
    BY <2>1, <2>4 DEF SlotInv, SlotTypes, SlotSteps, QueueIsWaiting
  <2>. QED  BY <2>4, <2>5 DEF SlotInv
<1>5. CASE waiters # <<>>
  <2>1. /\ at' = [at EXCEPT ![q] = result, ![Head(waiters)] = "woken"]
        /\ waiters' = Tail(waiters)
    BY <1>5 DEF Slots!releaseSlot
  <2>2. PICK h \in Queries : h = Head(waiters)
    BY <1>5 DEF SlotInv, SlotTypes
  <2>3. h = waiters[1] /\ Len(waiters) \in Nat \ {0} /\ at[h] = "waiting" /\ h # q
    BY <1>1, <1>5, <2>2 DEF SlotInv, SlotTypes, QueueIsWaiting
  <2>4. \A r \in Queries : at'[r] = IF r = h THEN "woken" ELSE IF r = q THEN result ELSE at[r]
    BY <2>1, <2>2, <2>3 DEF SlotInv, SlotTypes
  <2>5. Holding' = Holding \ {q} /\ Woken' = Woken \cup {h} /\ h \notin Woken
    BY <1>1, <2>3, <2>4 DEF Holding, Woken
  <2>6. Cardinality(Woken)' = Cardinality(Woken) + 1
    BY <2>5, SlotSets, FS_AddElement
  <2>7. Cardinality(Holding)' = Cardinality(Holding) - 1
    BY <1>3, <2>5
  <2>8. SlotsAreCounted' /\ inFlight' \in Nat
    <3>1. inFlight = Cardinality(Holding) /\ inFlight + Cardinality(Woken) >= SlotCap
      BY <1>5 DEF SlotInv, SlotsAreCounted
    <3>2. inFlight' = Cardinality(Holding)' /\ inFlight' \in Nat
      BY <1>2, <1>3, <2>5, <2>7, <3>1
    <3>3. inFlight' + Cardinality(Woken)' >= SlotCap
      BY <1>2, <1>3, <2>6, <3>1, <3>2, SlotSets, QueriesAssumption
    <3>. QED  BY <3>2, <3>3 DEF SlotsAreCounted
  <2>9. /\ waiters' \in Seq(Queries) /\ Len(waiters') = Len(waiters) - 1
        /\ \A i \in 1..Len(waiters') : i + 1 \in 1..Len(waiters) /\ waiters'[i] = waiters[i + 1]
    BY <1>5, <2>1, <2>3 DEF SlotInv, SlotTypes
  <2>10. at' \in [Queries -> SlotSteps]
    BY <2>1, <2>2 DEF SlotInv, SlotTypes, SlotSteps
  <2>11. \A i \in 1..Len(waiters) : waiters[i] \in Queries /\ at[waiters[i]] = "waiting"
    BY DEF SlotInv, SlotTypes, QueueIsWaiting
  <2>12. \A i \in 1..Len(waiters') : waiters'[i] # h /\ waiters'[i] # q
    BY <1>1, <2>3, <2>9, <2>11 DEF SlotInv, QueueIsWaiting
  <2>13. \A i \in 1..Len(waiters') : at'[waiters'[i]] = "waiting"
    BY <2>4, <2>9, <2>11, <2>12
  <2>14. \A i, j \in 1..Len(waiters') : waiters'[i] = waiters'[j] => i = j
    BY <2>3, <2>9 DEF SlotInv, QueueIsWaiting
  <2>. QED  BY <2>8, <2>9, <2>10, <2>13, <2>14 DEF SlotInv, SlotTypes, QueueIsWaiting
<1>. QED  BY <1>4, <1>5

(* A call that is over starts again.                                        *)
LEMMA SlotAgain ==
    ASSUME SlotInv, NEW q \in Queries, at[q] \in Slots!Settled, at' = [at EXCEPT ![q] = "idle"],
           UNCHANGED <<inFlight, waiters>>
    PROVE  SlotInv'
<1>1. /\ \A r \in Queries : at'[r] = IF r = q THEN "idle" ELSE at[r]
      /\ at[q] \notin Slots!InSocket /\ at[q] \notin {"waiting", "woken"} /\ "idle" \notin Slots!InSocket
  BY DEF SlotInv, SlotTypes, Slots!InSocket, Slots!Reading, Slots!Settled
<1>2. Holding' = Holding /\ Woken' = Woken
  BY <1>1 DEF Holding, Woken
<1>3. SlotTypes'
  BY DEF SlotInv, SlotTypes, SlotSteps
<1>4. QueueIsWaiting'
  <2>1. \A i \in 1..Len(waiters) : waiters[i] \in Queries /\ waiters[i] # q
    BY <1>1 DEF SlotInv, SlotTypes, QueueIsWaiting
  <2>. QED  BY <1>1, <2>1 DEF SlotInv, QueueIsWaiting
<1>. QED  BY <1>2, <1>3, <1>4 DEF SlotInv, SlotsAreCounted

LEMMA SlotNext == SlotInv /\ [Slots!Next]_queriesVars => SlotInv'
<1> SUFFICES ASSUME SlotInv, [Slots!Next]_queriesVars PROVE SlotInv'
  OBVIOUS
<1>1. CASE UNCHANGED queriesVars
  BY <1>1 DEF queriesVars, SlotInv, SlotTypes, QueueIsWaiting, SlotsAreCounted, Holding, Woken
<1>2. ASSUME NEW q \in Queries, Slots!acquireSlot(q) \/ Slots!Resume(q) PROVE SlotInv'
  BY <1>2, SlotTaken, SlotAwaited DEF Slots!acquireSlot, Slots!Resume
<1>3. ASSUME NEW q \in Queries, Slots!Again(q) PROVE SlotInv'
  BY <1>3, SlotAgain DEF Slots!Again
<1>4. ASSUME NEW q \in Queries,
             \/ Slots!Connect(q) \/ Slots!Handshake(q) \/ Slots!AuthSwitch(q) \/ Slots!AuthOk(q)
             \/ Slots!Columns(q)
      PROVE  SlotInv'
  <2>1. /\ at[q] \in Slots!InSocket /\ UNCHANGED <<inFlight, waiters>>
        /\ \E where \in Slots!InSocket : at' = [at EXCEPT ![q] = where]
    BY <1>4 DEF Slots!Connect, Slots!Handshake, Slots!AuthSwitch, Slots!AuthOk, Slots!Columns,
       Slots!GoOn, Slots!InSocket, Slots!Reading
  <2>. QED  BY <2>1, SlotStays
<1>5. ASSUME NEW q \in Queries,
             \/ Slots!AuthRefused(q) \/ Slots!WriteOk(q) \/ Slots!Eof(q) \/ Slots!ErrPacket(q)
             \/ Slots!SocketFails(q)
      PROVE  SlotInv'
  <2>1. /\ at[q] \in Slots!InSocket
        /\ \E result \in Slots!Settled : Slots!releaseSlot(q, result)
    BY <1>5 DEF Slots!AuthRefused, Slots!WriteOk, Slots!Eof, Slots!ErrPacket, Slots!SocketFails,
       Slots!onErr, Slots!InSocket, Slots!Reading, Slots!Settled
  <2>. QED  BY <2>1, SlotGivenBack
<1>6. ASSUME NEW q \in Queries, Slots!Row(q) PROVE SlotInv'
  <2>1. at[q] \in Slots!InSocket /\ "returned" \in Slots!Settled
    BY <1>6 DEF Slots!Row, Slots!InSocket, Slots!Reading, Slots!Settled
  <2>2. Slots!releaseSlot(q, "returned") \/ UNCHANGED <<at, inFlight, waiters>>
    BY <1>6 DEF Slots!Row
  <2>3. CASE UNCHANGED <<at, inFlight, waiters>>
    BY <2>3 DEF SlotInv, SlotTypes, QueueIsWaiting, SlotsAreCounted, Holding, Woken
  <2>. QED  BY <2>1, <2>2, <2>3, SlotGivenBack
<1>. QED
  BY <1>1, <1>2, <1>3, <1>4, <1>5, <1>6 DEF Slots!Next, Slots!wireQuery

(* The counter is the number of sockets, and nobody waits for a free slot.  *)
THEOREM SlotInvariant == ServiceSpec => [](part = "queries" => SlotInv)
<1>1. ServiceInit => (part = "queries" => SlotInv)
  BY SlotInit DEF ServiceInit
<1>2. (part = "queries" => SlotInv) /\ [ServiceNext]_serviceVars => (part = "queries" => SlotInv)'
  BY TrafficMoves, SlotNext
<1>. QED  BY <1>1, <1>2, PTL DEF ServiceSpec

LEMMA SlotsCount == \A S : Slots!Cardinality(S) = Cardinality(S)
BY DEF Slots!Cardinality, Cardinality

LEMMA SlotsAreUsed == SlotInv => Slots!NoIdleSlot
BY SlotsCount DEF SlotInv, SlotsAreCounted, Slots!NoIdleSlot, Holding, Woken

(* A call that has not been answered has met no fault.                      *)
FaultInv ==
    /\ faults \in [Queries -> Slots!Reading \cup {"socket", "none"}]
    /\ \A q \in Queries : at[q] \notin Slots!Settled => faults[q] = "none"
    /\ Slots!FailureIsThrown

LEMMA FaultGoesOn ==
    ASSUME SlotInv, FaultInv, NEW q \in Queries, NEW where \in SlotSteps \ {"returned", "wrote"},
           at' = [at EXCEPT ![q] = where], faults' = [faults EXCEPT ![q] = "none"]
    PROVE  FaultInv'
<1>1. /\ \A r \in Queries : at'[r] = IF r = q THEN where ELSE at[r]
      /\ \A r \in Queries : faults'[r] = IF r = q THEN "none" ELSE faults[r]
      /\ faults' \in [Queries -> Slots!Reading \cup {"socket", "none"}]
  BY DEF SlotInv, SlotTypes, FaultInv
<1>. QED  BY <1>1 DEF FaultInv, Slots!FailureIsThrown, Slots!None

(* A slot given back with a result: the call it wakes has met no fault.     *)
LEMMA FaultGivenBack ==
    ASSUME SlotInv, FaultInv, NEW q \in Queries, at[q] \in Slots!InSocket, NEW result \in Slots!Settled,
           NEW f \in Slots!Reading \cup {"socket", "none"}, Slots!releaseSlot(q, result),
           faults' = [faults EXCEPT ![q] = f], f \notin {"none", "rows"} => result = "threw"
    PROVE  FaultInv'
<1>1. /\ \A r \in Queries : faults'[r] = IF r = q THEN f ELSE faults[r]
      /\ faults' \in [Queries -> Slots!Reading \cup {"socket", "none"}]
  BY DEF FaultInv
<1>2. /\ at'[q] = result
      /\ \A r \in Queries \ {q} : at'[r] = at[r] \/ (at'[r] = "woken" /\ at[r] = "waiting")
  <2>1. at \in [Queries -> SlotSteps]
    BY DEF SlotInv, SlotTypes
  <2>2. CASE waiters = <<>>
    <3>1. at' = [at EXCEPT ![q] = result]
      BY <2>2 DEF Slots!releaseSlot
    <3>. QED  BY <2>1, <3>1
  <2>3. CASE waiters # <<>>
    <3>1. PICK h \in Queries : h = Head(waiters)
      BY <2>3 DEF SlotInv, SlotTypes
    <3>2. h = waiters[1] /\ Len(waiters) \in Nat \ {0}
      BY <2>3, <3>1 DEF SlotInv, SlotTypes
    <3>3. at[h] = "waiting" /\ h # q
      BY <3>2 DEF SlotInv, QueueIsWaiting, Slots!InSocket, Slots!Reading
    <3>4. at' = [at EXCEPT ![q] = result, ![h] = "woken"]
      BY <2>3, <3>1 DEF Slots!releaseSlot
    <3>. QED  BY <2>1, <3>3, <3>4
  <2>. QED  BY <2>2, <2>3
<1>3. \A r \in Queries \ {q} : at'[r] \notin Slots!Settled => faults'[r] = "none"
  BY <1>1, <1>2 DEF FaultInv, Slots!Settled
<1>4. \A r \in Queries : at'[r] \in {"returned", "wrote"} => faults'[r] \in {"none", "rows"}
  BY <1>1, <1>2 DEF FaultInv, Slots!FailureIsThrown, Slots!None
<1>. QED  BY <1>1, <1>2, <1>3, <1>4 DEF FaultInv, Slots!FailureIsThrown, Slots!None

LEMMA FaultNext == SlotInv /\ FaultInv /\ [Slots!Next]_queriesVars => FaultInv'
<1> SUFFICES ASSUME SlotInv, FaultInv, [Slots!Next]_queriesVars PROVE FaultInv'
  OBVIOUS
<1>1. CASE UNCHANGED queriesVars
  BY <1>1 DEF queriesVars, FaultInv, Slots!FailureIsThrown
<1>2. \A q \in Queries : at[q] \notin Slots!Settled => faults = [faults EXCEPT ![q] = "none"]
  BY DEF FaultInv
<1>3. \A s \in Slots!InSocket \cup {"idle", "waiting", "woken"} :
         s \in SlotSteps \ {"returned", "wrote"} /\ s \notin Slots!Settled
  BY DEF SlotSteps, Slots!InSocket, Slots!Reading, Slots!Settled
<1>4. ASSUME NEW q \in Queries,
             \/ Slots!acquireSlot(q) \/ Slots!Resume(q) \/ Slots!Connect(q) \/ Slots!Handshake(q)
             \/ Slots!AuthSwitch(q) \/ Slots!AuthOk(q) \/ Slots!Columns(q)
      PROVE  FaultInv'
  <2>1. /\ at[q] \notin Slots!Settled /\ faults' = faults
        /\ \E where \in SlotSteps \ {"returned", "wrote"} : at' = [at EXCEPT ![q] = where]
    BY <1>3, <1>4 DEF Slots!acquireSlot, Slots!Resume, Slots!Connect, Slots!Handshake, Slots!AuthSwitch,
       Slots!AuthOk, Slots!Columns, Slots!GoOn, Slots!InSocket, Slots!Reading
  <2>. QED  BY <1>2, <2>1, FaultGoesOn
<1>5. ASSUME NEW q \in Queries, Slots!Again(q) PROVE FaultInv'
  <2>1. at' = [at EXCEPT ![q] = "idle"] /\ faults' = [faults EXCEPT ![q] = "none"]
    BY <1>5 DEF Slots!Again, Slots!None
  <2>. QED  BY <1>3, <2>1, FaultGoesOn
<1>6. ASSUME NEW q \in Queries,
             Slots!AuthRefused(q) \/ Slots!WriteOk(q) \/ Slots!Eof(q) \/ Slots!ErrPacket(q) \/ Slots!SocketFails(q)
      PROVE  FaultInv'
  <2>1. at[q] \in Slots!InSocket /\ faults = [faults EXCEPT ![q] = "none"]
    BY <1>2, <1>3, <1>6 DEF Slots!AuthRefused, Slots!WriteOk, Slots!Eof, Slots!ErrPacket, Slots!SocketFails,
       Slots!InSocket, Slots!Reading
  <2>2. \E result \in Slots!Settled, f \in Slots!Reading \cup {"socket", "none"} :
           /\ Slots!releaseSlot(q, result) /\ faults' = [faults EXCEPT ![q] = f]
           /\ f \notin {"none", "rows"} => result = "threw"
    BY <1>6, <2>1 DEF Slots!AuthRefused, Slots!WriteOk, Slots!Eof, Slots!ErrPacket, Slots!SocketFails,
       Slots!onErr, Slots!Reading, Slots!Settled
  <2>. QED  BY <2>1, <2>2, FaultGivenBack
<1>7. ASSUME NEW q \in Queries, Slots!Row(q) PROVE FaultInv'
  <2>1. at[q] \in Slots!InSocket /\ faults' = faults /\ faults = [faults EXCEPT ![q] = "none"]
        /\ "returned" \in Slots!Settled
    BY <1>2, <1>3, <1>7 DEF Slots!Row, Slots!InSocket, Slots!Reading, Slots!Settled
  <2>2. Slots!releaseSlot(q, "returned") \/ UNCHANGED at
    BY <1>7 DEF Slots!Row
  <2>3. CASE UNCHANGED at
    BY <2>1, <2>3 DEF FaultInv, Slots!FailureIsThrown
  <2>. QED  BY <2>1, <2>2, <2>3, FaultGivenBack
<1>. QED  BY <1>1, <1>4, <1>5, <1>6, <1>7 DEF Slots!Next, Slots!wireQuery

LEMMA FaultInit == Slots!Init => FaultInv
<1> SUFFICES ASSUME Slots!Init PROVE FaultInv
  OBVIOUS
<1>1. at = [q \in Queries |-> "idle"] /\ faults = [q \in Queries |-> "none"]
  BY DEF Slots!Init, Slots!None
<1>. QED  BY <1>1 DEF FaultInv, Slots!FailureIsThrown

(* A failure of the game database is thrown up to whoever asked.            *)
THEOREM FaultInvariant == ServiceSpec => [](part = "queries" => SlotInv /\ FaultInv)
<1>1. ServiceInit => (part = "queries" => SlotInv /\ FaultInv)
  BY SlotInit, FaultInit DEF ServiceInit
<1>2. (part = "queries" => SlotInv /\ FaultInv) /\ [ServiceNext]_serviceVars
         => (part = "queries" => SlotInv /\ FaultInv)'
  BY TrafficMoves, SlotNext, FaultNext
<1>. QED  BY <1>1, <1>2, PTL DEF ServiceSpec

-----------------------------------------------------------------------------
(* The streams, of the one topic T of a part.  A connection that is closed  *)
(* holds nothing; the frames it still has to replay lie above those it was  *)
(* sent, and both below the number of the last frame of its topic.          *)
FrameRows == [seq : Nat]
TopicRows == [inFlight : BOOLEAN, requested : Nat, last : [value : {0, 1}, at : Nat, set : BOOLEAN],
              framed : {0, 1}, seq : Nat, ring : Seq(FrameRows)]
ConnSteps == {"replay", "poll", "pulling", "frame", "wait", "closed"}
ConnRows(T) == [at : ConnSteps, ip : StreamIps \cup {"none"}, topic : T \cup {"none"}]

StreamTypes(T) ==
    /\ streamClock \in Nat /\ source \in [T -> {0, 1}] /\ topic \in [T -> TopicRows]
    /\ openByIp \in [StreamIps -> Nat] /\ conn \in [Conns -> ConnRows(T)]
    /\ replay \in [Conns -> Seq(FrameRows)] /\ frames \in [Conns -> Seq(Nat)]
ClosedHoldsNothing(T) ==
    \A c \in Conns :
        /\ conn[c].at = "closed" => conn[c].ip = "none" /\ frames[c] = <<>>
        /\ conn[c].at # "closed" => conn[c].ip \in StreamIps /\ conn[c].topic \in T
        /\ conn[c].at # "replay" => replay[c] = <<>>
LiveConns == {c \in Conns : conn[c].at # "closed"}
From(i) == {c \in Conns : conn[c].ip = i}
StreamsAreCounted ==
    /\ openTotal = Cardinality(LiveConns) /\ openTotal <= PerIsolate
    /\ \A i \in StreamIps : openByIp[i] = Cardinality(From(i)) /\ openByIp[i] <= PerIp

Ascends(s, n) ==
    /\ \A j, k \in 1..Len(s) : j < k => s[j].seq < s[k].seq
    /\ \A j \in 1..Len(s) : s[j].seq <= n
Climbs(s, n) ==
    /\ \A j, k \in 1..Len(s) : j < k => s[j] < s[k]
    /\ \A j \in 1..Len(s) : s[j] <= n
Before(s, r) == \A j \in 1..Len(s), k \in 1..Len(r) : s[j] < r[k].seq
Sent(c, n) == Climbs(frames[c], n) /\ Ascends(replay[c], n) /\ Before(frames[c], replay[c])
RingsAscend(T) == \A t \in T : Ascends(topic[t].ring, topic[t].seq)
SentInOrder == \A c \in Conns : conn[c].at # "closed" => Sent(c, topic[conn[c].topic].seq)
StreamInv(T) ==
    /\ StreamTypes(T) /\ ClosedHoldsNothing(T) /\ StreamsAreCounted
    /\ RingsAscend(T) /\ SentInOrder

LEMMA StreamSets ==
    /\ IsFiniteSet(LiveConns) /\ Cardinality(LiveConns) \in Nat
    /\ \A i \in StreamIps : IsFiniteSet(From(i)) /\ Cardinality(From(i)) \in Nat
BY FS_Subset, FS_CardinalityType, StreamsAssumption DEF LiveConns, From

LEMMA StreamInit ==
    /\ Streams!Init => StreamInv({"status"})
    /\ Events!Init => StreamInv({"events"})
<1> SUFFICES ASSUME NEW t \in {"status", "events"},
                    (t = "status" /\ Streams!Init) \/ (t = "events" /\ Events!Init)
             PROVE  StreamInv({t})
  OBVIOUS
<1> DEFINE fresh == [inFlight |-> FALSE, requested |-> 0, last |-> [value |-> 0, at |-> 0, set |-> FALSE],
                     framed |-> 0, seq |-> 0, ring |-> <<>>]
           closed == [at |-> "closed", ip |-> "none", topic |-> "none"]
<1>1. /\ streamClock = 0 /\ openTotal = 0 /\ openByIp = [i \in StreamIps |-> 0]
      /\ source = [u \in {t} |-> 0] /\ topic = [u \in {t} |-> fresh]
      /\ conn = [c \in Conns |-> closed]
      /\ replay = [c \in Conns |-> <<>>] /\ frames = [c \in Conns |-> <<>>]
  BY DEF Streams!Init, Events!Init, Streams!NoSnapshot, Events!NoSnapshot, Streams!Closed, Events!Closed,
     Streams!None, Events!None
<1>2. fresh \in TopicRows /\ fresh.ring = <<>>
  BY DEF TopicRows
<1>3. closed \in ConnRows({t}) /\ closed.at = "closed" /\ closed.ip = "none"
  BY DEF ConnRows, ConnSteps
<1> HIDE DEF fresh, closed
<1>4. LiveConns = {} /\ \A i \in StreamIps : From(i) = {}
  BY <1>1, <1>3, StreamsAssumption DEF LiveConns, From
<1>5. StreamsAreCounted
  <2>1. Cardinality({}) = 0
    BY FS_EmptySet
  <2>2. Cardinality(LiveConns) = 0 /\ \A i \in StreamIps : Cardinality(From(i)) = 0
    BY <1>4, <2>1
  <2>. QED  BY <1>1, <2>2, StreamsAssumption DEF StreamsAreCounted
<1>. QED
  BY <1>1, <1>2, <1>3, <1>5
     DEF StreamInv, StreamTypes, ClosedHoldsNothing, RingsAscend, SentInOrder, Ascends

(* Connections that go on without a frame, and a pull that begins or ends.  *)
LEMMA StreamsGoOn ==
    ASSUME NEW T, StreamInv(T), UNCHANGED <<openTotal, openByIp, replay, frames>>,
           streamClock' \in Nat, source' \in [T -> {0, 1}],
           topic' \in [T -> TopicRows], conn' \in [Conns -> ConnRows(T)],
           \A t \in T : topic'[t].seq = topic[t].seq /\ topic'[t].ring = topic[t].ring,
           \A c \in Conns : /\ conn'[c].ip = conn[c].ip /\ conn'[c].topic = conn[c].topic
                            /\ conn'[c].at = "closed" <=> conn[c].at = "closed"
                            /\ conn'[c].at # "replay" => replay[c] = <<>>
    PROVE  StreamInv(T)'
<1>1. StreamTypes(T)'
  BY DEF StreamInv, StreamTypes
<1>2. ClosedHoldsNothing(T)'
  BY DEF StreamInv, ClosedHoldsNothing
<1>3. LiveConns' = LiveConns /\ \A i : From(i)' = From(i)
  BY DEF LiveConns, From
<1>4. StreamsAreCounted'
  BY <1>3 DEF StreamInv, StreamsAreCounted
<1>5. RingsAscend(T)'
  BY DEF StreamInv, RingsAscend
<1>6. SentInOrder'
  <2> SUFFICES ASSUME NEW c \in Conns, conn'[c].at # "closed"
               PROVE  Sent(c, topic[conn[c].topic].seq)'
    BY DEF SentInOrder
  <2>1. conn[c].topic \in T /\ Sent(c, topic[conn[c].topic].seq)
    BY DEF StreamInv, ClosedHoldsNothing, SentInOrder
  <2>2. topic'[conn'[c].topic].seq = topic[conn[c].topic].seq
    BY <2>1
  <2>. QED  BY <2>1, <2>2 DEF Sent
<1>. QED  BY <1>1, <1>2, <1>4, <1>5, <1>6 DEF StreamInv

(* The end of a sequence that ascends does so.                              *)
LEMMA EndAscends ==
    ASSUME NEW s \in Seq(FrameRows), NEW n \in Nat, Ascends(s, n), NEW m \in Nat \ {0}
    PROVE  SubSeq(s, m, Len(s)) \in Seq(FrameRows) /\ Ascends(SubSeq(s, m, Len(s)), n)
<1> DEFINE r == SubSeq(s, m, Len(s))
<1>1. Len(s) \in Nat /\ \A i \in 1..Len(s) : s[i] \in FrameRows
  OBVIOUS
<1>2. /\ r \in Seq(FrameRows) /\ Len(r) = IF m <= Len(s) THEN Len(s) - m + 1 ELSE 0
      /\ \A i \in 1..(Len(s) - m + 1) : r[i] = s[m + i - 1]
  <2>1. \A i \in m..Len(s) : s[i] \in FrameRows
    BY <1>1
  <2>. QED  BY <1>1, <2>1, SubSeqProperties
<1> HIDE DEF r
<1>3. \A i \in 1..Len(r) : m + i - 1 \in 1..Len(s) /\ r[i] = s[m + i - 1]
  BY <1>1, <1>2
<1>4. Ascends(r, n)
  <2>1. \A i \in 1..Len(r) : r[i].seq <= n
    BY <1>3 DEF Ascends
  <2>2. \A j, k \in 1..Len(r) : j < k => r[j].seq < r[k].seq
    <3> TAKE j, k \in 1..Len(r)
    <3>1. j < k => m + j - 1 < m + k - 1
      OBVIOUS
    <3>. QED  BY <1>3, <3>1 DEF Ascends
  <2>. QED  BY <2>1, <2>2 DEF Ascends
<1>. QED  BY <1>2, <1>4 DEF r

(* A connection is opened below both caps; it replays an end of the ring.   *)
LEMMA StreamOpens ==
    ASSUME NEW T, StreamInv(T), NEW c \in Conns, NEW i \in StreamIps, NEW t \in T, NEW m \in Nat \ {0},
           conn[c].at = "closed", openByIp[i] < PerIp, openTotal < PerIsolate,
           openTotal' = openTotal + 1, openByIp' = [openByIp EXCEPT ![i] = openByIp[i] + 1],
           conn' = [conn EXCEPT ![c] = [at |-> "replay", ip |-> i, topic |-> t]],
           replay' = [replay EXCEPT ![c] = SubSeq(topic[t].ring, m, Len(topic[t].ring))],
           UNCHANGED <<streamClock, source, topic, frames>>
    PROVE  StreamInv(T)'
<1> DEFINE q == [at |-> "replay", ip |-> i, topic |-> t]
           r == SubSeq(topic[t].ring, m, Len(topic[t].ring))
<1>1. q \in ConnRows(T) /\ q.at = "replay" /\ q.ip = i /\ q.topic = t
  BY DEF ConnRows, ConnSteps
<1>2. r \in Seq(FrameRows) /\ Ascends(r, topic[t].seq) /\ topic[t].seq \in Nat
  <2>1. topic[t].ring \in Seq(FrameRows) /\ topic[t].seq \in Nat /\ Ascends(topic[t].ring, topic[t].seq)
    BY DEF StreamInv, StreamTypes, TopicRows, RingsAscend
  <2>. QED  BY <2>1, EndAscends
<1>3. conn' = [conn EXCEPT ![c] = q] /\ replay' = [replay EXCEPT ![c] = r]
  OBVIOUS
<1> HIDE DEF q, r
<1>4. /\ \A d \in Conns : conn'[d] = IF d = c THEN q ELSE conn[d]
      /\ \A d \in Conns : replay'[d] = IF d = c THEN r ELSE replay[d]
  BY <1>3 DEF StreamInv, StreamTypes
<1>5. StreamTypes(T)'
  BY <1>1, <1>2, <1>3, SMTT(30) DEF StreamInv, StreamTypes
<1>6. ClosedHoldsNothing(T)'
  BY <1>1, <1>4 DEF StreamInv, ClosedHoldsNothing
<1>7. conn[c].ip = "none" /\ frames[c] = <<>>
  BY DEF StreamInv, ClosedHoldsNothing
<1>8. LiveConns' = LiveConns \cup {c} /\ c \notin LiveConns
  BY <1>1, <1>4 DEF LiveConns
<1>9. From(i)' = From(i) \cup {c} /\ c \notin From(i) /\ \A k \in StreamIps \ {i} : From(k)' = From(k)
  BY <1>1, <1>4, <1>7, StreamsAssumption DEF From
<1>10. StreamsAreCounted'
  <2>1. Cardinality(LiveConns)' = Cardinality(LiveConns) + 1 /\ Cardinality(From(i))' = Cardinality(From(i)) + 1
    BY <1>8, <1>9, StreamSets, FS_AddElement, ZenonT(30)
  <2>2. openTotal' = Cardinality(LiveConns)' /\ openTotal' <= PerIsolate
    BY <2>1, StreamSets, StreamsAssumption DEF StreamInv, StreamsAreCounted
  <2>3. \A k \in StreamIps : openByIp'[k] = Cardinality(From(k))' /\ openByIp'[k] <= PerIp
    <3> TAKE k \in StreamIps
    <3>1. CASE k = i
      BY <2>1, <3>1, StreamSets, StreamsAssumption DEF StreamInv, StreamTypes, StreamsAreCounted
    <3>2. CASE k # i
      BY <1>9, <3>2 DEF StreamInv, StreamTypes, StreamsAreCounted
    <3>. QED  BY <3>1, <3>2
  <2>. QED  BY <2>2, <2>3 DEF StreamsAreCounted
<1>11. RingsAscend(T)'
  BY DEF StreamInv, RingsAscend
<1>12. SentInOrder'
  <2> SUFFICES ASSUME NEW d \in Conns, conn'[d].at # "closed"
               PROVE  Sent(d, topic[conn[d].topic].seq)'
    BY DEF SentInOrder
  <2>1. CASE d = c
    <3>1. /\ conn'[d].topic = t /\ frames'[d] = <<>> /\ replay'[d] = r /\ topic' = topic
      BY <1>1, <1>4, <1>7, <2>1
    <3>2. Climbs(<<>>, topic[t].seq) /\ Before(<<>>, r)
      BY DEF Climbs, Before
    <3>. QED  BY <1>2, <3>1, <3>2 DEF Sent
  <2>2. CASE d # c
    BY <1>4, <2>2 DEF StreamInv, SentInOrder, Sent
  <2>. QED  BY <2>1, <2>2
<1>. QED  BY <1>5, <1>6, <1>10, <1>11, <1>12 DEF StreamInv

(* A connection that ends leaves the counters.                              *)
LEMMA StreamCloses ==
    ASSUME NEW T, StreamInv(T), NEW c \in Conns, conn[c].at # "closed",
           conn' = [conn EXCEPT ![c] = [at |-> "closed", ip |-> "none", topic |-> "none"]],
           replay' = [replay EXCEPT ![c] = <<>>], frames' = [frames EXCEPT ![c] = <<>>],
           openTotal' = openTotal - 1,
           openByIp' = [openByIp EXCEPT ![conn[c].ip] = openByIp[conn[c].ip] - 1],
           UNCHANGED <<streamClock, source, topic>>
    PROVE  StreamInv(T)'
<1> DEFINE q == [at |-> "closed", ip |-> "none", topic |-> "none"]
<1>1. q \in ConnRows(T) /\ q.at = "closed" /\ q.ip = "none"
  BY DEF ConnRows, ConnSteps
<1>2. conn' = [conn EXCEPT ![c] = q]
  OBVIOUS
<1> HIDE DEF q
<1>3. PICK i \in StreamIps : i = conn[c].ip
  BY DEF StreamInv, ClosedHoldsNothing
<1>4. /\ \A d \in Conns : conn'[d] = IF d = c THEN q ELSE conn[d]
      /\ \A d \in Conns : replay'[d] = IF d = c THEN <<>> ELSE replay[d]
      /\ \A d \in Conns : frames'[d] = IF d = c THEN <<>> ELSE frames[d]
  BY <1>2 DEF StreamInv, StreamTypes
<1>5. c \in LiveConns /\ c \in From(i)
  BY <1>3 DEF LiveConns, From
<1>6. LiveConns' = LiveConns \ {c}
  BY <1>1, <1>4 DEF LiveConns
<1>7. From(i)' = From(i) \ {c} /\ \A k \in StreamIps \ {i} : From(k)' = From(k)
  BY <1>1, <1>3, <1>4, StreamsAssumption DEF From
<1>8. /\ Cardinality(LiveConns)' = Cardinality(LiveConns) - 1
      /\ Cardinality(From(i))' = Cardinality(From(i)) - 1
  BY <1>5, <1>6, <1>7, StreamSets, FS_RemoveElement
<1>9. Cardinality(From(i))' \in Nat
  <2>1. IsFiniteSet(From(i) \ {c})
    BY StreamSets, FS_Subset, From(i) \ {c} \subseteq From(i)
  <2>. QED  BY <1>7, <2>1, FS_CardinalityType
<1>10. openByIp' = [openByIp EXCEPT ![i] = openByIp[i] - 1] /\ openByIp[i] = Cardinality(From(i))
  BY <1>3 DEF StreamInv, StreamsAreCounted
<1>11. openByIp' \in [StreamIps -> Nat]
  <2>1. openByIp[i] - 1 \in Nat
    BY <1>8, <1>9, <1>10
  <2>. QED  BY <1>10, <2>1 DEF StreamInv, StreamTypes
<1>12. StreamTypes(T)'
  BY <1>1, <1>2, <1>11 DEF StreamInv, StreamTypes
<1>13. ClosedHoldsNothing(T)'
  BY <1>1, <1>4 DEF StreamInv, ClosedHoldsNothing
<1>14. StreamsAreCounted'
  <2>1. openTotal' = Cardinality(LiveConns)' /\ openTotal' <= PerIsolate
    BY <1>8, StreamSets, StreamsAssumption DEF StreamInv, StreamsAreCounted
  <2>2. \A k \in StreamIps : openByIp'[k] = Cardinality(From(k))' /\ openByIp'[k] <= PerIp
    <3> TAKE k \in StreamIps
    <3>1. CASE k = i
      BY <1>8, <1>10, <3>1, StreamSets, StreamsAssumption DEF StreamInv, StreamTypes, StreamsAreCounted
    <3>2. CASE k # i
      BY <1>7, <1>10, <3>2 DEF StreamInv, StreamTypes, StreamsAreCounted
    <3>. QED  BY <3>1, <3>2
  <2>. QED  BY <2>1, <2>2 DEF StreamsAreCounted
<1>15. RingsAscend(T)'
  BY DEF StreamInv, RingsAscend
<1>16. SentInOrder'
  BY <1>1, <1>4 DEF StreamInv, SentInOrder, Sent
<1>. QED  BY <1>12, <1>13, <1>14, <1>15, <1>16 DEF StreamInv

(* A frame of the replay is written.                                        *)
LEMMA StreamReplays ==
    ASSUME NEW T, StreamInv(T), NEW c \in Conns, conn[c].at = "replay", replay[c] # <<>>,
           frames' = [frames EXCEPT ![c] = Append(frames[c], Head(replay[c]).seq)],
           replay' = [replay EXCEPT ![c] = Tail(replay[c])],
           UNCHANGED <<streamClock, openTotal, openByIp, source, topic, conn>>
    PROVE  StreamInv(T)'
<1> DEFINE n == topic[conn[c].topic].seq
<1>1. PICK r \in Seq(FrameRows) : r = replay[c] /\ r # <<>>
  BY DEF StreamInv, StreamTypes
<1>2. PICK s \in Seq(Nat) : s = frames[c]
  BY DEF StreamInv, StreamTypes
<1>3. Climbs(s, n) /\ Ascends(r, n) /\ Before(s, r)
  BY <1>1, <1>2 DEF StreamInv, SentInOrder, Sent
<1>4. PICK h \in Nat : h = Head(r).seq /\ h = r[1].seq /\ Len(r) \in Nat \ {0}
  <2>1. Len(r) \in Nat \ {0} /\ r[1] \in FrameRows /\ Head(r) = r[1]
    BY <1>1
  <2>. QED  BY <2>1 DEF FrameRows
<1>5. /\ Tail(r) \in Seq(FrameRows) /\ Len(Tail(r)) = Len(r) - 1
      /\ \A j \in 1..Len(Tail(r)) : j + 1 \in 1..Len(r) /\ Tail(r)[j] = r[j + 1]
  BY <1>1
<1>6. /\ Append(s, h) \in Seq(Nat) /\ Len(Append(s, h)) = Len(s) + 1 /\ Len(s) \in Nat
      /\ \A j \in 1..(Len(s) + 1) : Append(s, h)[j] = IF j <= Len(s) THEN s[j] ELSE h
  BY <1>4
<1>7. /\ frames' = [frames EXCEPT ![c] = Append(s, h)] /\ replay' = [replay EXCEPT ![c] = Tail(r)]
      /\ \A d \in Conns : frames'[d] = IF d = c THEN Append(s, h) ELSE frames[d]
      /\ \A d \in Conns : replay'[d] = IF d = c THEN Tail(r) ELSE replay[d]
  BY <1>1, <1>2, <1>4 DEF StreamInv, StreamTypes
<1>8. Climbs(Append(s, h), n)
  <2>1. \A j \in 1..Len(s) : s[j] < h
    BY <1>3, <1>4 DEF Before
  <2>2. h <= n
    BY <1>3, <1>4 DEF Ascends
  <2>. QED  BY <1>3, <1>6, <2>1, <2>2 DEF Climbs
<1>9. Ascends(Tail(r), n)
  <2>1. \A j, k \in 1..Len(Tail(r)) : j < k => Tail(r)[j].seq < Tail(r)[k].seq
    <3> TAKE j, k \in 1..Len(Tail(r))
    <3>1. j < k => j + 1 < k + 1
      OBVIOUS
    <3>. QED  BY <1>3, <1>5, <3>1 DEF Ascends
  <2>2. \A j \in 1..Len(Tail(r)) : Tail(r)[j].seq <= n
    BY <1>3, <1>5 DEF Ascends
  <2>. QED  BY <2>1, <2>2 DEF Ascends
<1>10. Before(Append(s, h), Tail(r))
  <2>1. \A k \in 1..Len(Tail(r)) : h < Tail(r)[k].seq
    <3> TAKE k \in 1..Len(Tail(r))
    <3>1. 1 \in 1..Len(r) /\ k + 1 \in 1..Len(r) /\ 1 < k + 1
      BY <1>4, <1>5
    <3>. QED  BY <1>3, <1>4, <1>5, <3>1 DEF Ascends
  <2>2. \A j \in 1..Len(s), k \in 1..Len(Tail(r)) : s[j] < Tail(r)[k].seq
    BY <1>3, <1>5 DEF Before
  <2>. QED  BY <1>6, <2>1, <2>2 DEF Before
<1>11. StreamTypes(T)'
  BY <1>5, <1>6, <1>7 DEF StreamInv, StreamTypes
<1>12. ClosedHoldsNothing(T)'
  BY <1>7 DEF StreamInv, ClosedHoldsNothing
<1>13. StreamsAreCounted' /\ RingsAscend(T)'
  BY DEF StreamInv, StreamsAreCounted, RingsAscend, LiveConns, From
<1>14. SentInOrder'
  <2> SUFFICES ASSUME NEW d \in Conns, conn[d].at # "closed"
               PROVE  Sent(d, topic[conn[d].topic].seq)'
    BY DEF SentInOrder
  <2>1. CASE d = c
    BY <1>7, <1>8, <1>9, <1>10, <2>1 DEF Sent
  <2>2. CASE d # c
    BY <1>7, <2>2 DEF StreamInv, SentInOrder, Sent
  <2>. QED  BY <2>1, <2>2
<1>. QED  BY <1>11, <1>12, <1>13, <1>14 DEF StreamInv

LEMMA MoreAscends ==
    ASSUME NEW s \in Seq(FrameRows), NEW n \in Nat, NEW k \in Nat, Ascends(s, n), n <= k
    PROVE  Ascends(s, k)
<1>1. \A j \in 1..Len(s) : s[j].seq \in Nat
  <2>1. \A j \in 1..Len(s) : s[j] \in FrameRows
    BY ElementOfSeq
  <2>. QED  BY <2>1 DEF FrameRows
<1>. QED  BY <1>1 DEF Ascends

LEMMA MoreClimbs ==
    ASSUME NEW s \in Seq(Nat), NEW n \in Nat, NEW k \in Nat, Climbs(s, n), n <= k
    PROVE  Climbs(s, k)
<1>1. \A j \in 1..Len(s) : s[j] \in Nat
  OBVIOUS
<1>. QED  BY <1>1 DEF Climbs

(* A frame above the others goes to the end.                                *)
LEMMA AppendAscends ==
    ASSUME NEW s \in Seq(FrameRows), NEW n \in Nat, Ascends(s, n), NEW f \in FrameRows, f.seq = n + 1
    PROVE  /\ Append(s, f) \in Seq(FrameRows) /\ Len(Append(s, f)) = Len(s) + 1
           /\ Ascends(Append(s, f), n + 1)
<1> DEFINE whole == Append(s, f)
<1>1. /\ whole \in Seq(FrameRows) /\ Len(whole) = Len(s) + 1 /\ Len(s) \in Nat
      /\ \A j \in 1..Len(s) : whole[j] = s[j]
      /\ whole[Len(s) + 1] = f
  OBVIOUS
<1> HIDE DEF whole
<1>2. \A j \in 1..Len(s) : whole[j].seq \in Nat /\ whole[j].seq <= n
  <2>1. \A j \in 1..Len(s) : s[j] \in FrameRows
    BY ElementOfSeq
  <2>. QED  BY <1>1, <2>1 DEF Ascends, FrameRows
<1>3. \A j, k \in 1..Len(whole) : j < k => whole[j].seq < whole[k].seq
  <2> SUFFICES ASSUME NEW j \in 1..Len(whole), NEW k \in 1..Len(whole), j < k
               PROVE  whole[j].seq < whole[k].seq
    OBVIOUS
  <2>1. j \in 1..Len(s)
    BY <1>1
  <2>2. CASE k \in 1..Len(s)
    BY <1>1, <2>1, <2>2 DEF Ascends
  <2>3. CASE k = Len(s) + 1
    BY <1>1, <1>2, <2>1, <2>3
  <2>4. k \in 1..Len(s) \/ k = Len(s) + 1
    BY <1>1
  <2>. QED  BY <2>2, <2>3, <2>4
<1>4. \A j \in 1..Len(whole) : whole[j].seq <= n + 1
  <2> TAKE j \in 1..Len(whole)
  <2>1. j \in 1..Len(s) \/ j = Len(s) + 1
    BY <1>1
  <2>. QED  BY <1>1, <1>2, <2>1
<1>. QED  BY <1>1, <1>3, <1>4 DEF Ascends, whole

LEMMA AppendClimbs ==
    ASSUME NEW s \in Seq(Nat), NEW n \in Nat, Climbs(s, n)
    PROVE  Append(s, n + 1) \in Seq(Nat) /\ Climbs(Append(s, n + 1), n + 1)
<1> DEFINE whole == Append(s, n + 1)
<1>1. /\ whole \in Seq(Nat) /\ Len(whole) = Len(s) + 1 /\ Len(s) \in Nat
      /\ \A j \in 1..Len(s) : whole[j] = s[j]
      /\ whole[Len(s) + 1] = n + 1
  OBVIOUS
<1> HIDE DEF whole
<1>2. \A j \in 1..Len(s) : whole[j] \in Nat /\ whole[j] <= n
  <2>1. \A j \in 1..Len(s) : s[j] \in Nat
    BY ElementOfSeq
  <2>. QED  BY <1>1, <2>1 DEF Climbs
<1>3. \A j, k \in 1..Len(whole) : j < k => whole[j] < whole[k]
  <2> SUFFICES ASSUME NEW j \in 1..Len(whole), NEW k \in 1..Len(whole), j < k
               PROVE  whole[j] < whole[k]
    OBVIOUS
  <2>1. j \in 1..Len(s)
    BY <1>1
  <2>2. CASE k \in 1..Len(s)
    BY <1>1, <2>1, <2>2 DEF Climbs
  <2>3. CASE k = Len(s) + 1
    <3>1. PICK x \in Nat : x = whole[j] /\ x <= n
      BY <1>2, <2>1
    <3>2. whole[k] = n + 1 /\ x < n + 1
      BY <1>1, <2>3, <3>1
    <3>. QED  BY <3>1, <3>2
  <2>4. k \in 1..Len(s) \/ k = Len(s) + 1
    BY <1>1
  <2>. QED  BY <2>2, <2>3, <2>4
<1>4. \A j \in 1..Len(whole) : whole[j] <= n + 1
  <2> TAKE j \in 1..Len(whole)
  <2>1. j \in 1..Len(s) \/ j = Len(s) + 1
    BY <1>1
  <2>. QED  BY <1>1, <1>2, <2>1
<1>. QED  BY <1>1, <1>3, <1>4 DEF Climbs, whole

(* A changed snapshot is framed: the number above the last one, at the end  *)
(* of the ring, for the connection that found it.                           *)
Framed(c, t, last, m, row, whole) ==
    /\ conn[c].at = "frame" /\ t = conn[c].topic /\ last = topic[t].seq
    /\ whole = Append(topic[t].ring, [seq |-> last + 1])
    /\ row.seq = last + 1 /\ row.ring = SubSeq(whole, m, Len(whole))
    /\ topic' = [topic EXCEPT ![t] = row] /\ frames' = [frames EXCEPT ![c] = Append(frames[c], last + 1)]
    /\ conn' = [conn EXCEPT ![c].at = "wait"]
    /\ UNCHANGED <<streamClock, openTotal, openByIp, source, replay>>

LEMMA StreamFrames ==
    ASSUME NEW T, StreamInv(T), NEW c \in Conns, NEW t \in T, NEW last \in Nat, NEW m \in Nat \ {0},
           NEW row \in TopicRows, NEW whole, Framed(c, t, last, m, row, whole)
    PROVE  StreamInv(T)'
<1> DEFINE q == [conn[c] EXCEPT !.at = "wait"]
<1>1. /\ q \in ConnRows(T) /\ q.at = "wait" /\ q.ip = conn[c].ip /\ q.topic = t
      /\ conn' = [conn EXCEPT ![c] = q]
  BY DEF Framed, StreamInv, StreamTypes, ConnRows, ConnSteps
<1>2. /\ conn[c].at = "frame" /\ t = conn[c].topic /\ last = topic[t].seq
      /\ UNCHANGED <<streamClock, openTotal, openByIp, source, replay>>
  BY DEF Framed
<1> HIDE DEF q
<1>3. topic[t].ring \in Seq(FrameRows) /\ Ascends(topic[t].ring, last)
  BY <1>2 DEF StreamInv, StreamTypes, RingsAscend, TopicRows
<1>4. [seq |-> last + 1] \in FrameRows
  BY DEF FrameRows
<1>5. whole \in Seq(FrameRows) /\ Ascends(whole, last + 1)
  BY <1>3, <1>4, AppendAscends DEF Framed
<1>6. Ascends(row.ring, last + 1)
  <2>1. last + 1 \in Nat
    OBVIOUS
  <2>2. Ascends(SubSeq(whole, m, Len(whole)), last + 1)
    BY <1>5, <2>1, EndAscends
  <2>3. row.ring = SubSeq(whole, m, Len(whole))
    BY DEF Framed
  <2>. QED  BY <2>2, <2>3 DEF Ascends
<1>7. PICK s \in Seq(Nat) : s = frames[c]
  BY DEF StreamInv, StreamTypes
<1>8. Climbs(s, last) /\ replay[c] = <<>>
  BY <1>2, <1>7 DEF StreamInv, SentInOrder, Sent, ClosedHoldsNothing
<1>9. PICK w \in Seq(Nat) : w = Append(s, last + 1) /\ Climbs(w, last + 1)
  BY <1>8, AppendClimbs
<1>10. frames' = [frames EXCEPT ![c] = w]
  BY <1>7, <1>9 DEF Framed
<1>11. /\ \A d \in Conns : conn'[d] = IF d = c THEN q ELSE conn[d]
       /\ \A d \in Conns : frames'[d] = IF d = c THEN w ELSE frames[d]
       /\ \A u \in T : topic'[u] = IF u = t THEN row ELSE topic[u]
  BY <1>1, <1>10 DEF Framed, StreamInv, StreamTypes
<1>12. StreamTypes(T)'
  <2>1. frames' \in [Conns -> Seq(Nat)] /\ topic' \in [T -> TopicRows] /\ conn' \in [Conns -> ConnRows(T)]
    BY <1>1, <1>10, ZenonT(30) DEF Framed, StreamInv, StreamTypes
  <2>. QED  BY <1>2, <2>1 DEF StreamInv, StreamTypes
<1>13. ClosedHoldsNothing(T)'
  BY <1>1, <1>2, <1>11 DEF StreamInv, ClosedHoldsNothing
<1>14. StreamsAreCounted'
  <2>1. LiveConns' = LiveConns /\ \A i : From(i)' = From(i)
    BY <1>1, <1>2, <1>11 DEF LiveConns, From
  <2>. QED  BY <1>2, <2>1 DEF StreamInv, StreamsAreCounted
<1>15. RingsAscend(T)'
  <2> SUFFICES ASSUME NEW u \in T PROVE Ascends(topic[u].ring, topic[u].seq)'
    BY DEF RingsAscend
  <2>1. CASE u = t
    <3>1. topic'[u] = row /\ row.seq = last + 1
      BY <1>11, <2>1 DEF Framed
    <3>. QED  BY <1>6, <3>1 DEF Ascends
  <2>2. CASE u # t
    <3>1. topic'[u] = topic[u] /\ Ascends(topic[u].ring, topic[u].seq)
      BY <1>11, <2>2 DEF StreamInv, RingsAscend
    <3>. QED  BY <3>1 DEF Ascends
  <2>. QED  BY <2>1, <2>2
<1>16. SentInOrder'
  <2> SUFFICES ASSUME NEW d \in Conns, conn'[d].at # "closed"
               PROVE  Sent(d, topic[conn[d].topic].seq)'
    BY DEF SentInOrder
  <2>1. /\ conn[d].at # "closed" /\ conn'[d].topic = conn[d].topic /\ conn[d].topic \in T
        /\ Sent(d, topic[conn[d].topic].seq)
    BY <1>1, <1>2, <1>11 DEF StreamInv, SentInOrder, ClosedHoldsNothing
  <2>2. CASE d = c
    <3>1. Ascends(<<>>, last + 1) /\ Before(w, <<>>)
      BY DEF Ascends, Before
    <3>2. frames'[d] = w /\ replay'[d] = <<>> /\ topic'[conn'[d].topic].seq = last + 1
      BY <1>2, <1>8, <1>11, <2>1, <2>2 DEF Framed
    <3>. QED  BY <1>9, <3>1, <3>2 DEF Sent
  <2>3. CASE d # c
    <3>1. PICK u \in T : u = conn[d].topic
      BY <2>1
    <3>2. topic[u] \in TopicRows /\ topic'[u] \in TopicRows
      BY <1>12, <3>1 DEF StreamInv, StreamTypes
    <3>3. PICK old \in Nat, new \in Nat : old = topic[u].seq /\ new = topic'[u].seq
      BY <3>2 DEF TopicRows
    <3>4. old <= new
      <4>1. CASE u = t
        <5>1. old = last /\ new = last + 1
          BY <1>2, <1>11, <3>3, <4>1 DEF Framed
        <5>. QED  BY <5>1
      <4>2. CASE u # t
        <5>1. old = new
          BY <1>11, <3>3, <4>2
        <5>. QED  BY <5>1
      <4>. QED  BY <4>1, <4>2
    <3>5. frames[d] \in Seq(Nat) /\ replay[d] \in Seq(FrameRows)
      BY DEF StreamInv, StreamTypes
    <3>6. /\ Climbs(frames[d], old) /\ Ascends(replay[d], old) /\ Before(frames[d], replay[d])
      BY <2>1, <3>1, <3>3 DEF Sent
    <3>7. Climbs(frames[d], new) /\ Ascends(replay[d], new)
      BY <3>4, <3>5, <3>6, MoreAscends, MoreClimbs
    <3>8. frames'[d] = frames[d] /\ replay'[d] = replay[d] /\ topic'[conn'[d].topic].seq = new
      BY <1>2, <1>11, <2>1, <2>3, <3>1, <3>3
    <3>. QED  BY <3>6, <3>7, <3>8 DEF Sent
  <2>. QED  BY <2>2, <2>3
<1>. QED  BY <1>12, <1>13, <1>14, <1>15, <1>16 DEF StreamInv

LEMMA StreamsCount == \A S : /\ Streams!Cardinality(S) = Cardinality(S)
                             /\ Events!Cardinality(S) = Cardinality(S)
BY DEF Streams!Cardinality, Events!Cardinality, Cardinality

(* One connection goes on, or asks for the snapshot.                        *)
LEMMA ConnGoes ==
    ASSUME NEW T, StreamInv(T), NEW c \in Conns, conn[c].at \notin {"closed"},
           NEW where \in ConnSteps \ {"closed", "replay"}, replay[c] = <<>>,
           conn' = [conn EXCEPT ![c].at = where], topic' \in [T -> TopicRows],
           \A t \in T : topic'[t].seq = topic[t].seq /\ topic'[t].ring = topic[t].ring,
           UNCHANGED <<streamClock, openTotal, openByIp, source, replay, frames>>
    PROVE  StreamInv(T)'
<1> DEFINE q == [conn[c] EXCEPT !.at = where]
<1>1. /\ q \in ConnRows(T) /\ q.at = where /\ q.ip = conn[c].ip /\ q.topic = conn[c].topic
      /\ conn' = [conn EXCEPT ![c] = q]
  BY DEF StreamInv, StreamTypes, ConnRows
<1> HIDE DEF q
<1>2. conn' \in [Conns -> ConnRows(T)] /\ \A d \in Conns : conn'[d] = IF d = c THEN q ELSE conn[d]
  BY <1>1 DEF StreamInv, StreamTypes
<1>3. \A d \in Conns : /\ conn'[d].ip = conn[d].ip /\ conn'[d].topic = conn[d].topic
                       /\ conn'[d].at = "closed" <=> conn[d].at = "closed"
                       /\ conn'[d].at # "replay" => replay[d] = <<>>
  BY <1>1, <1>2 DEF StreamInv, ClosedHoldsNothing
<1>4. streamClock' \in Nat /\ source' \in [T -> {0, 1}]
  BY DEF StreamInv, StreamTypes
<1>. QED  BY <1>2, <1>3, <1>4, StreamsGoOn

(* The steps of either topic.                                               *)
LEMMA StreamConnSteps ==
    ASSUME NEW T \in {{"status"}, {"events"}}, StreamInv(T), NEW c \in Conns,
           \/ Streams!Replay(c) \/ Streams!sharedSnapshot(c) \/ Streams!frameIfChanged(c)
           \/ Streams!Stall(c) \/ Streams!Bye(c)
           \/ Events!Replay(c) \/ Events!sharedSnapshot(c) \/ Events!frameIfChanged(c)
           \/ Events!Stall(c) \/ Events!Bye(c)
    PROVE  StreamInv(T)'
<1>1. /\ conn[c] \in ConnRows(T) /\ topic \in [T -> TopicRows]
      /\ conn[c].at # "closed" => conn[c].topic \in T
      /\ conn[c].at # "replay" => replay[c] = <<>>
  BY DEF StreamInv, StreamTypes, ClosedHoldsNothing
<1>2. CASE Streams!Replay(c) \/ Events!Replay(c)
  <2>1. /\ conn[c].at = "replay" /\ UNCHANGED <<streamClock, openTotal, openByIp, source, topic>>
        /\ \/ /\ replay[c] = <<>> /\ conn' = [conn EXCEPT ![c].at = "poll"] /\ UNCHANGED <<replay, frames>>
           \/ /\ replay[c] # <<>> /\ UNCHANGED conn
              /\ frames' = [frames EXCEPT ![c] = Append(frames[c], Head(replay[c]).seq)]
              /\ replay' = [replay EXCEPT ![c] = Tail(replay[c])]
    BY <1>2 DEF Streams!Replay, Events!Replay, Streams!At, Events!At
  <2>2. CASE replay[c] = <<>>
    <3>1. "poll" \in ConnSteps \ {"closed", "replay"}
      BY DEF ConnSteps
    <3>. QED  BY <1>1, <2>1, <2>2, <3>1, ConnGoes
  <2>3. CASE replay[c] # <<>>
    BY <2>1, <2>3, StreamReplays
  <2>. QED  BY <2>2, <2>3
<1>3. CASE Streams!sharedSnapshot(c) \/ Events!sharedSnapshot(c)
  <2>1. /\ conn[c].at \in {"poll", "wait"} /\ UNCHANGED <<streamClock, openTotal, openByIp, source, replay, frames>>
        /\ \E where \in {"pulling", "frame"} : conn' = [conn EXCEPT ![c].at = where]
        /\ \/ topic' = topic
           \/ topic' = [topic EXCEPT ![conn[c].topic].inFlight = TRUE, ![conn[c].topic].requested = streamClock]
    BY <1>3 DEF Streams!sharedSnapshot, Events!sharedSnapshot, Streams!At, Events!At
  <2>2. PICK t \in T : t = conn[c].topic
    BY <1>1, <2>1
  <2>3. topic' \in [T -> TopicRows] /\ \A u \in T : topic'[u].seq = topic[u].seq /\ topic'[u].ring = topic[u].ring
    <3> DEFINE row == [topic[t] EXCEPT !.inFlight = TRUE, !.requested = streamClock]
    <3>1. row \in TopicRows /\ row.seq = topic[t].seq /\ row.ring = topic[t].ring
      BY <1>1, ZenonT(30) DEF TopicRows, StreamInv, StreamTypes
    <3>2. topic' = topic \/ topic' = [topic EXCEPT ![t] = row]
      BY <1>1, <2>1, <2>2
    <3> HIDE DEF row
    <3>. QED  BY <1>1, <3>1, <3>2
  <2>4. {"pulling", "frame"} \subseteq ConnSteps \ {"closed", "replay"}
    BY DEF ConnSteps
  <2>. QED  BY <1>1, <2>1, <2>3, <2>4, ConnGoes
<1>4. CASE Streams!frameIfChanged(c) \/ Events!frameIfChanged(c)
  <2>1. PICK t \in T : t = conn[c].topic /\ conn[c].at = "frame"
    BY <1>1, <1>4 DEF Streams!frameIfChanged, Events!frameIfChanged
  <2>2. PICK last \in Nat : last = topic[t].seq
    BY <1>1 DEF TopicRows
  <2> DEFINE whole == Append(topic[t].ring, [seq |-> last + 1])
             m == IF Len(whole) > RingSize THEN Len(whole) - RingSize + 1 ELSE 1
             row == [topic[t] EXCEPT !.seq = last + 1, !.framed = topic[t].last.value,
                                     !.ring = SubSeq(whole, m, Len(whole))]
  <2>3. /\ conn' = [conn EXCEPT ![c].at = "wait"]
        /\ UNCHANGED <<streamClock, openTotal, openByIp, source, replay>>
        /\ \/ UNCHANGED <<topic, frames>>
           \/ /\ topic' = [topic EXCEPT ![t].seq = last + 1, ![t].framed = topic[t].last.value,
                                         ![t].ring = SubSeq(whole, m, Len(whole))]
              /\ frames' = [frames EXCEPT ![c] = Append(frames[c], last + 1)]
    BY <1>4, <2>1, <2>2
       DEF Streams!frameIfChanged, Events!frameIfChanged, Streams!At, Events!At, Streams!LastOf, Events!LastOf,
           Streams!NextSeq, Events!NextSeq
  <2>4. CASE UNCHANGED <<topic, frames>>
    <3>1. "wait" \in ConnSteps \ {"closed", "replay"}
      BY DEF ConnSteps
    <3>. QED  BY <1>1, <2>1, <2>3, <2>4, <3>1, ConnGoes
  <2>5. CASE /\ topic' = [topic EXCEPT ![t].seq = last + 1, ![t].framed = topic[t].last.value,
                                       ![t].ring = SubSeq(whole, m, Len(whole))]
             /\ frames' = [frames EXCEPT ![c] = Append(frames[c], last + 1)]
    <3>1. /\ whole \in Seq(FrameRows) /\ Len(whole) \in Nat
          /\ topic[t].ring \in Seq(FrameRows) /\ Ascends(topic[t].ring, last)
      <4>1. topic[t].ring \in Seq(FrameRows) /\ Ascends(topic[t].ring, last)
        BY <1>1, <2>2 DEF TopicRows, StreamInv, RingsAscend
      <4>2. [seq |-> last + 1] \in FrameRows
        BY DEF FrameRows
      <4>. QED  BY <4>1, <4>2
    <3>2. m \in Nat \ {0}
      BY <3>1, StreamsAssumption
    <3>3. SubSeq(whole, m, Len(whole)) \in Seq(FrameRows)
      <4>1. [seq |-> last + 1] \in FrameRows /\ [seq |-> last + 1].seq = last + 1
        BY DEF FrameRows
      <4>2. Ascends(whole, last + 1) /\ last + 1 \in Nat
        BY <3>1, <4>1, AppendAscends
      <4> HIDE DEF whole, m
      <4>. QED  BY <3>1, <3>2, <4>2, EndAscends
    <3>4. row \in TopicRows /\ row.seq = last + 1 /\ row.ring = SubSeq(whole, m, Len(whole))
      <4>1. PICK ring \in Seq(FrameRows), f \in {0, 1} :
               ring = SubSeq(whole, m, Len(whole)) /\ f = topic[t].last.value
        BY <1>1, <3>3 DEF TopicRows
      <4>2. row = [topic[t] EXCEPT !.seq = last + 1, !.framed = f, !.ring = ring]
        BY <4>1
      <4>3. topic[t] \in TopicRows /\ last + 1 \in Nat
        BY <1>1
      <4> HIDE DEF whole, m, row
      <4>4. row \in TopicRows /\ row.seq = last + 1 /\ row.ring = ring
        BY <4>2, <4>3 DEF TopicRows
      <4>. QED  BY <4>1, <4>4
    <3>5. topic' = [topic EXCEPT ![t] = row]
      BY <1>1, <2>5
    <3>6. frames' = [frames EXCEPT ![c] = Append(frames[c], last + 1)] /\ whole = Append(topic[t].ring, [seq |-> last + 1])
      BY <2>5
    <3> HIDE DEF whole, m, row
    <3>7. PICK k \in Nat \ {0} : k = m
      BY <3>2
    <3>8. PICK z \in TopicRows : z = row
      BY <3>4
    <3>9. PICK w : w = whole
      OBVIOUS
    <3>10. Framed(c, t, last, k, z, w)
      BY <2>1, <2>2, <2>3, <3>4, <3>5, <3>6, <3>7, <3>8, <3>9 DEF Framed
    <3>. QED  BY <1>1, <2>2, <3>10, StreamFrames
  <2>. QED  BY <2>3, <2>4, <2>5
<1>5. CASE Streams!Stall(c) \/ Streams!Bye(c) \/ Events!Stall(c) \/ Events!Bye(c)
  <2>1. /\ conn[c].at # "closed" /\ UNCHANGED <<streamClock, source, topic>>
        /\ conn' = [conn EXCEPT ![c] = [at |-> "closed", ip |-> "none", topic |-> "none"]]
        /\ replay' = [replay EXCEPT ![c] = <<>>] /\ frames' = [frames EXCEPT ![c] = <<>>]
        /\ openTotal' = openTotal - 1
        /\ openByIp' = [openByIp EXCEPT ![conn[c].ip] = openByIp[conn[c].ip] - 1]
    BY <1>5 DEF Streams!Stall, Streams!Bye, Events!Stall, Events!Bye, Streams!releaseStream,
       Events!releaseStream, Streams!Closed, Events!Closed, Streams!None, Events!None
  <2>. QED  BY <2>1, StreamCloses
<1>. QED  BY <1>2, <1>3, <1>4, <1>5

LEMMA StreamOtherSteps ==
    ASSUME NEW T \in {{"status"}, {"events"}}, StreamInv(T),
           \/ Streams!Tick \/ Events!Tick
           \/ \E t \in T : \/ Streams!fetch(t) \/ Streams!SourceMoves(t)
                           \/ Events!fetch(t) \/ Events!SourceMoves(t)
    PROVE  StreamInv(T)'
<1>1. /\ conn \in [Conns -> ConnRows(T)] /\ topic \in [T -> TopicRows]
      /\ streamClock \in Nat /\ source \in [T -> {0, 1}]
      /\ \A c \in Conns : conn[c].at # "replay" => replay[c] = <<>>
  BY DEF StreamInv, StreamTypes, ClosedHoldsNothing
<1>2. ASSUME UNCHANGED <<topic, conn, openTotal, openByIp, replay, frames>>,
             streamClock' \in Nat, source' \in [T -> {0, 1}]
      PROVE  StreamInv(T)'
  BY <1>1, <1>2, StreamsGoOn
<1>3. CASE Streams!Tick \/ Events!Tick
  BY <1>1, <1>2, <1>3 DEF Streams!Tick, Events!Tick
<1>4. ASSUME NEW t \in T, Streams!SourceMoves(t) \/ Events!SourceMoves(t) PROVE StreamInv(T)'
  <2>1. PICK v \in {0, 1} : v = 1 - source[t]
    BY <1>1
  <2>2. source' = [source EXCEPT ![t] = v]
    BY <1>4, <2>1 DEF Streams!SourceMoves, Events!SourceMoves
  <2>3. source' \in [T -> {0, 1}]
    BY <1>1, <2>2
  <2>. QED  BY <1>1, <1>2, <1>4, <2>3 DEF Streams!SourceMoves, Events!SourceMoves
<1>5. ASSUME NEW t \in T, Streams!fetch(t) \/ Events!fetch(t) PROVE StreamInv(T)'
  <2> DEFINE Joins(c) == conn[c].at = "pulling" /\ conn[c].topic = t
  <2>1. /\ UNCHANGED <<streamClock, openTotal, openByIp, replay, frames>>
        /\ source' = source \/ source' = [source EXCEPT ![t] = 0]
        /\ \/ \E v \in {0, source[t]} :
                 topic' = [topic EXCEPT ![t].inFlight = FALSE,
                                        ![t].last = [value |-> v, at |-> topic[t].requested, set |-> TRUE]]
           \/ topic' = [topic EXCEPT ![t].inFlight = FALSE]
        /\ \E where \in {"frame", "wait"} :
               conn' = [c \in Conns |-> IF c \in {d \in Conns : Joins(d)} THEN [conn[c] EXCEPT !.at = where] ELSE conn[c]]
    BY <1>5 DEF Streams!fetch, Events!fetch, Streams!Fetched, Events!Fetched, Streams!Settle, Events!Settle,
       Streams!Joined, Events!Joined
  <2>2. source' \in [T -> {0, 1}]
    BY <1>1, <2>1
  <2>3. topic' \in [T -> TopicRows] /\ \A u \in T : topic'[u].seq = topic[u].seq /\ topic'[u].ring = topic[u].ring
    <3>1. CASE topic' = [topic EXCEPT ![t].inFlight = FALSE]
      <4> DEFINE row == [topic[t] EXCEPT !.inFlight = FALSE]
      <4>1. row \in TopicRows /\ row.seq = topic[t].seq /\ row.ring = topic[t].ring
        BY <1>1, ZenonT(30) DEF TopicRows
      <4>2. topic' = [topic EXCEPT ![t] = row]
        BY <1>1, <3>1
      <4> HIDE DEF row
      <4>. QED  BY <1>1, <4>1, <4>2
    <3>2. ASSUME NEW v \in {0, source[t]},
                 topic' = [topic EXCEPT ![t].inFlight = FALSE,
                                        ![t].last = [value |-> v, at |-> topic[t].requested, set |-> TRUE]]
          PROVE  topic' \in [T -> TopicRows] /\ \A u \in T : topic'[u].seq = topic[u].seq /\ topic'[u].ring = topic[u].ring
      <4> DEFINE snapshot == [value |-> v, at |-> topic[t].requested, set |-> TRUE]
                 row == [topic[t] EXCEPT !.inFlight = FALSE, !.last = snapshot]
      <4>1. snapshot \in [value : {0, 1}, at : Nat, set : BOOLEAN]
        BY <1>1 DEF TopicRows
      <4>2. row \in TopicRows /\ row.seq = topic[t].seq /\ row.ring = topic[t].ring
        <5> HIDE DEF snapshot
        <5>. QED  BY <1>1, <4>1, ZenonT(30) DEF TopicRows
      <4>3. topic' = [topic EXCEPT ![t] = row]
        BY <1>1, <3>2
      <4> HIDE DEF row
      <4>. QED  BY <1>1, <4>2, <4>3
    <3>. QED  BY <2>1, <3>1, <3>2
  <2>4. /\ conn' \in [Conns -> ConnRows(T)]
        /\ \A c \in Conns : /\ conn'[c].ip = conn[c].ip /\ conn'[c].topic = conn[c].topic
                            /\ conn'[c].at = "closed" <=> conn[c].at = "closed"
                            /\ conn'[c].at # "replay" => replay[c] = <<>>
    <3>1. PICK where \in {"frame", "wait"} :
             conn' = [c \in Conns |-> IF c \in {d \in Conns : Joins(d)} THEN [conn[c] EXCEPT !.at = where] ELSE conn[c]]
      BY <2>1
    <3>2. \A c \in Conns : conn'[c] = IF Joins(c) THEN [conn[c] EXCEPT !.at = where] ELSE conn[c]
      BY <3>1
    <3>3. ASSUME NEW c \in Conns
          PROVE  /\ conn'[c] \in ConnRows(T) /\ conn'[c].ip = conn[c].ip /\ conn'[c].topic = conn[c].topic
                 /\ conn'[c].at = "closed" <=> conn[c].at = "closed"
                 /\ conn'[c].at # "replay" => replay[c] = <<>>
      <4>1. conn[c] \in ConnRows(T)
        BY <1>1
      <4>2. CASE Joins(c)
        <5> DEFINE q == [conn[c] EXCEPT !.at = where]
        <5>1. q \in ConnRows(T) /\ q.ip = conn[c].ip /\ q.topic = conn[c].topic /\ q.at = where
          BY <4>1 DEF ConnRows, ConnSteps
        <5>2. conn'[c] = q /\ conn[c].at = "pulling"
          BY <3>2, <4>2
        <5> HIDE DEF q
        <5>. QED  BY <1>1, <5>1, <5>2
      <4>3. CASE ~Joins(c)
        BY <1>1, <3>2, <4>1, <4>3
      <4>. QED  BY <4>2, <4>3
    <3>4. conn' \in [Conns -> ConnRows(T)]
      <4>1. conn' = [c \in Conns |-> conn'[c]]
        BY <3>1, <3>2
      <4>2. \A c \in Conns : conn'[c] \in ConnRows(T)
        BY <3>3
      <4>. QED  BY <4>1, <4>2
    <3>5. \A c \in Conns : /\ conn'[c].ip = conn[c].ip /\ conn'[c].topic = conn[c].topic
                           /\ conn'[c].at = "closed" <=> conn[c].at = "closed"
                           /\ conn'[c].at # "replay" => replay[c] = <<>>
      BY <3>3
    <3>. QED  BY <3>4, <3>5
  <2>. QED  BY <1>1, <2>1, <2>2, <2>3, <2>4, StreamsGoOn
<1>. QED  BY <1>3, <1>4, <1>5

LEMMA StreamNext ==
    /\ StreamInv({"status"}) /\ [Streams!Next]_streamsVars => StreamInv({"status"})'
    /\ StreamInv({"events"}) /\ [Events!Next]_streamsVars => StreamInv({"events"})'
<1>1. ASSUME NEW T, StreamInv(T), UNCHANGED streamsVars PROVE StreamInv(T)'
  <2>1. UNCHANGED <<streamClock, openTotal, openByIp, source, topic, conn, replay, frames>>
    BY <1>1 DEF streamsVars
  <2>. QED
    BY <1>1, <2>1 DEF StreamInv, StreamTypes, ClosedHoldsNothing, StreamsAreCounted, RingsAscend,
       SentInOrder, Sent, LiveConns, From
<1>2. ASSUME NEW T, StreamInv(T), NEW c \in Conns, NEW i \in StreamIps, NEW t \in T, NEW seen \in 0..MaxSeq,
             Streams!Open(c, i, t, seen) \/ Events!Open(c, i, t, seen)
      PROVE  StreamInv(T)'
  <2>1. /\ conn[c] = [at |-> "closed", ip |-> "none", topic |-> "none"]
        /\ openByIp[i] < PerIp /\ openTotal < PerIsolate
        /\ openTotal' = openTotal + 1 /\ openByIp' = [openByIp EXCEPT ![i] = openByIp[i] + 1]
        /\ conn' = [conn EXCEPT ![c] = [at |-> "replay", ip |-> i, topic |-> t]]
        /\ UNCHANGED <<streamClock, source, topic, frames>>
    BY <1>2 DEF Streams!Open, Events!Open, Streams!acquireStream, Events!acquireStream,
       Streams!Closed, Events!Closed, Streams!None, Events!None
  <2> DEFINE upTo == {k \in 1..Len(topic[t].ring) : topic[t].ring[k].seq <= seen}
  <2>2. replay' = [replay EXCEPT ![c] = SubSeq(topic[t].ring, Cardinality(upTo) + 1, Len(topic[t].ring))]
    <3>1. \/ replay' = [replay EXCEPT ![c] = Streams!framesAfter(t, seen)]
          \/ replay' = [replay EXCEPT ![c] = Events!framesAfter(t, seen)]
      BY <1>2 DEF Streams!Open, Events!Open
    <3>2. /\ Streams!framesAfter(t, seen) = SubSeq(topic[t].ring, Cardinality(upTo) + 1, Len(topic[t].ring))
          /\ Events!framesAfter(t, seen) = SubSeq(topic[t].ring, Cardinality(upTo) + 1, Len(topic[t].ring))
      BY StreamsCount DEF Streams!framesAfter, Events!framesAfter
    <3>. QED  BY <3>1, <3>2
  <2>3. Cardinality(upTo) \in Nat
    <3>1. topic[t].ring \in Seq(FrameRows)
      BY <1>2 DEF StreamInv, StreamTypes, RingsAscend, TopicRows
    <3>2. Len(topic[t].ring) \in Nat
      BY <3>1, LenProperties
    <3>3. IsFiniteSet(1..Len(topic[t].ring))
      BY <3>2, FS_Interval
    <3>4. IsFiniteSet(upTo)
      <4>1. upTo \subseteq 1..Len(topic[t].ring)
        OBVIOUS
      <4> HIDE DEF upTo
      <4>. QED  BY <3>3, <4>1, FS_Subset
    <3> HIDE DEF upTo
    <3>. QED  BY <3>4, FS_CardinalityType
  <2> HIDE DEF upTo
  <2>4. PICK m \in Nat \ {0} : m = Cardinality(upTo) + 1
    BY <2>3
  <2>5. replay' = [replay EXCEPT ![c] = SubSeq(topic[t].ring, m, Len(topic[t].ring))] /\ conn[c].at = "closed"
    BY <2>1, <2>2, <2>4
  <2>. QED  BY <1>2, <2>1, <2>5, StreamOpens
<1>3. ASSUME StreamInv({"status"}), Streams!Next PROVE StreamInv({"status"})'
  <2>1. CASE \E c \in Conns, i \in StreamIps, t \in {"status"}, seen \in 0..MaxSeq : Streams!Open(c, i, t, seen)
    BY <1>2, <1>3, <2>1
  <2>2. CASE \/ Streams!Tick \/ \E t \in {"status"} : Streams!fetch(t) \/ Streams!SourceMoves(t)
    BY <1>3, <2>2, StreamOtherSteps
  <2>3. CASE \E c \in Conns : \/ Streams!Replay(c) \/ Streams!sharedSnapshot(c)
                              \/ Streams!frameIfChanged(c) \/ Streams!Stall(c) \/ Streams!Bye(c)
    BY <1>3, <2>3, StreamConnSteps
  <2>. QED  BY <1>3, <2>1, <2>2, <2>3 DEF Streams!Next
<1>4. ASSUME StreamInv({"events"}), Events!Next PROVE StreamInv({"events"})'
  <2>1. CASE \E c \in Conns, i \in StreamIps, t \in {"events"}, seen \in 0..MaxSeq : Events!Open(c, i, t, seen)
    BY <1>2, <1>4, <2>1
  <2>2. CASE \/ Events!Tick \/ \E t \in {"events"} : Events!fetch(t) \/ Events!SourceMoves(t)
    BY <1>4, <2>2, StreamOtherSteps
  <2>3. CASE \E c \in Conns : \/ Events!Replay(c) \/ Events!sharedSnapshot(c)
                              \/ Events!frameIfChanged(c) \/ Events!Stall(c) \/ Events!Bye(c)
    BY <1>4, <2>3, StreamConnSteps
  <2>. QED  BY <1>4, <2>1, <2>2, <2>3 DEF Events!Next
<1>. QED  BY <1>1, <1>3, <1>4

(* The counters are the live streams, and what a connection was sent rises, *)
(* whichever topic the part has.                                            *)
THEOREM StreamInvariant ==
    ServiceSpec => []((part = "streams" => StreamInv({"status"})) /\ (part = "events" => StreamInv({"events"})))
<1> DEFINE I == (part = "streams" => StreamInv({"status"})) /\ (part = "events" => StreamInv({"events"}))
<1>1. ServiceInit => I
  BY StreamInit DEF ServiceInit
<1>2. I /\ [ServiceNext]_serviceVars => I'
  BY TrafficMoves, StreamNext
<1> HIDE DEF I
<1>3. ServiceSpec => []I
  BY <1>1, <1>2, PTL DEF ServiceSpec
<1>. QED  BY <1>3, PTL DEF I

LEMMA StreamPromises == ASSUME NEW T, StreamInv(T) PROVE Streams!CountersAreLive /\ Streams!FramesRise
<1>1. Streams!CountersAreLive
  BY StreamsCount DEF StreamInv, StreamsAreCounted, LiveConns, From, Streams!CountersAreLive
<1>2. Streams!FramesRise
  <2> SUFFICES ASSUME NEW c \in Conns, NEW j \in 1..Len(frames[c]), NEW k \in 1..Len(frames[c]), j < k
               PROVE  frames[c][j] < frames[c][k]
    BY DEF Streams!FramesRise
  <2>1. conn[c].at # "closed"
    BY DEF StreamInv, ClosedHoldsNothing
  <2>. QED  BY <2>1 DEF StreamInv, SentInOrder, Sent, Climbs
<1>. QED  BY <1>1, <1>2

-----------------------------------------------------------------------------
(* A running window of the first limiter lets no more requests through than *)
(* its limit unless a shorter limiter's cleanup forgot it; no query waits   *)
(* for a slot that is free; the counters of the streams are the live ones.  *)
THEOREM CountersHold == ServiceSpec => []LimitsHold
<1>1. ASSUME part = "limits" => LimitInv, part = "queries" => SlotInv,
             part = "streams" => StreamInv({"status"}), part = "events" => StreamInv({"events"})
      PROVE  LimitsHold
  <2>1. (LimitInv => Limits!LimitHolds) /\ (SlotInv => Slots!NoIdleSlot)
    BY LimitsAreKept, SlotsAreUsed
  <2>2. StreamInv({"status"}) \/ StreamInv({"events"}) => Streams!CountersAreLive
    BY StreamPromises
  <2>. QED  BY <1>1, <2>1, <2>2 DEF LimitsHold
<1>. QED  BY <1>1, LimitInvariant, SlotInvariant, StreamInvariant, PTL

(* Everybody hears what is his: the outcome of his own command, which ran   *)
(* once, and frames that rise.                                              *)
THEOREM OwnIsHeard == ServiceSpec => []HeardIsOwn
<1>1. CommandInv => Commands!AnswersAreOwn
  <2> SUFFICES ASSUME CommandInv PROVE Commands!AnswersAreOwn
    OBVIOUS
  <2>1. \A r \in CommandCalls : /\ call[r].at = "ok" => [id |-> r, ok |-> TRUE] \in ran
                                /\ call[r].at = "refused" => [id |-> r, ok |-> FALSE] \in ran
    BY DEF CommandInv, ToldIsRun
  <2>2. /\ \A m, n \in ran : m.id = n.id => m = n
        /\ \A a, b \in audit : a.id = b.id => a = b
    BY DEF CommandInv, RunOnce, RowsAreTheirs
  <2>3. \A a \in audit : [id |-> a.id, ok |-> TRUE] \in ran /\ a.actor \in {call[a.id].by, "system"}
    BY <2>1 DEF CommandInv, RowsAreTheirs
  <2>. QED  BY <2>1, <2>2, <2>3 DEF Commands!AnswersAreOwn, Commands!Response, Commands!System
<1>2. ASSUME part = "commands" => CommandInv,
             part = "streams" => StreamInv({"status"}), part = "events" => StreamInv({"events"})
      PROVE  HeardIsOwn
  <2>1. StreamInv({"status"}) \/ StreamInv({"events"}) => Streams!FramesRise
    BY StreamPromises
  <2>. QED  BY <1>1, <1>2, <2>1 DEF HeardIsOwn
<1>. QED  BY <1>2, CommandInvariant, StreamInvariant, PTL

-----------------------------------------------------------------------------
(* The pages.  A strict order on a finite set has a last element; the page  *)
(* is whom fewer than PageCap precede, so it is everybody who is left or    *)
(* everybody up to its last row.                                            *)
LEMMA LastThereIs ==
    ASSUME NEW X, IsFiniteSet(X), X # {}, NEW B,
           \A x \in X : <<x, x>> \notin B,
           \A x, y, z \in X : <<x, y>> \in B /\ <<y, z>> \in B => <<x, z>> \in B
    PROVE  \E x \in X : \A y \in X : <<x, y>> \notin B
<1> DEFINE F(x) == {y \in X : <<x, y>> \in B}
           T == {F(x) : x \in X}
<1>1. T \subseteq FiniteSubsetsOf(X) /\ T # {}
  <2>1. ASSUME NEW x \in X PROVE F(x) \in SUBSET X /\ IsFiniteSet(F(x))
    <3>1. F(x) \subseteq X
      OBVIOUS
    <3> HIDE DEF F
    <3>. QED  BY <3>1, FS_Subset
  <2> HIDE DEF F
  <2>2. T # {}
    OBVIOUS
  <2>3. ASSUME NEW t \in T PROVE t \in FiniteSubsetsOf(X)
    BY <2>1 DEF FiniteSubsetsOf
  <2>. QED  BY <2>2, <2>3
<1>2. PICK m \in T : \A n \in T : <<n, m>> \notin StrictSubsetOrdering(X)
  <2> HIDE DEF T
  <2>. QED  BY <1>1, FS_StrictSubsetOrderingWellFounded, WFMin
<1>3. PICK x \in X : m = F(x)
  OBVIOUS
<1>4. ASSUME NEW y \in X, <<x, y>> \in B PROVE FALSE
  <2>1. F(y) \subseteq F(x) /\ y \in F(x) /\ y \notin F(y)
    BY <1>4
  <2>2. F(y) \in T /\ F(y) \in SUBSET X /\ F(x) \in SUBSET X
    OBVIOUS
  <2> HIDE DEF F, T
  <2>3. F(y) # F(x)
    BY <2>1
  <2>. QED  BY <1>2, <1>3, <2>1, <2>2, <2>3 DEF StrictSubsetOrdering
<1>. QED  BY <1>4

Unmoved == BoardPlayers \ moved
Cursors == {Boards!Start, Boards!End} \cup {Boards!After(v, p) : v \in BoardValues, p \in BoardPlayers}
BoardTypes ==
    /\ board = "blocks" /\ boardGame \in Boards!Rows /\ boardCopy \in Boards!Rows
    /\ cursor \in Cursors /\ shown \in [BoardPlayers -> Nat] /\ from \subseteq {"game", "copy"}
CopyFollows == \A p \in Unmoved : boardCopy[p] = boardGame[p]
NotYet(p) == cursor # Boards!End /\ Boards!cursorPredicate(boardGame, p)
ShownOnce == from \subseteq {"game"} => \A p \in Unmoved : shown[p] = IF NotYet(p) THEN 0 ELSE 1
BoardInv == BoardTypes /\ CopyFollows /\ ShownOnce

LEMMA BoardsCount == \A S : Boards!Cardinality(S) = Cardinality(S)
BY DEF Boards!Cardinality, Cardinality

(* The order of a board of one key.                                         *)
LEMMA BoardOrder ==
    ASSUME board = "blocks", NEW r \in Boards!Rows
    PROVE  /\ \A p, q \in BoardPlayers :
                 /\ r[p].value \in Nat /\ p \in Nat
                 /\ Boards!Before(r, p, q) <=>
                       r[p].value > r[q].value \/ (r[p].value = r[q].value /\ p < q)
           /\ \A p \in BoardPlayers : ~Boards!Before(r, p, p)
           /\ \A p, q \in BoardPlayers : p = q \/ Boards!Before(r, p, q) \/ Boards!Before(r, q, p)
           /\ \A p, q, s \in BoardPlayers :
                 Boards!Before(r, p, q) /\ Boards!Before(r, q, s) => Boards!Before(r, p, s)
<1>1. \A p \in BoardPlayers : r[p].value \in Nat /\ p \in Nat
  BY BoardsAssumption DEF Boards!Rows
<1>2. \A p, q \in BoardPlayers :
         Boards!Before(r, p, q) <=> r[p].value > r[q].value \/ (r[p].value = r[q].value /\ p < q)
  BY DEF Boards!Before
<1>. QED  BY <1>1, <1>2

(* Whom the cursor has not reached.                                         *)
LEMMA BoardCursor ==
    ASSUME BoardTypes, cursor # Boards!End, NEW r \in Boards!Rows, NEW p \in BoardPlayers, NEW q \in BoardPlayers,
           Boards!cursorPredicate(r, p), Boards!Before(r, p, q)
    PROVE  Boards!cursorPredicate(r, q)
<1>1. /\ r[p].value \in Nat /\ p \in Nat /\ r[q].value \in Nat /\ q \in Nat
      /\ r[p].value > r[q].value \/ (r[p].value = r[q].value /\ p < q)
  BY BoardOrder DEF BoardTypes
<1>2. cursor.value \in Nat /\ cursor.uuid \in Nat
  <2>1. CASE cursor = Boards!Start
    BY <2>1 DEF Boards!Start
  <2>2. CASE \E v \in BoardValues, u \in BoardPlayers : cursor = Boards!After(v, u)
    BY <2>2, BoardsAssumption DEF Boards!After
  <2>. QED  BY <2>1, <2>2 DEF BoardTypes, Cursors
<1>. QED  BY <1>1, <1>2 DEF Boards!cursorPredicate, Boards!decodeCursor

(* A page.                                                                  *)
LEMMA PageIs ==
    ASSUME board = "blocks", NEW r \in Boards!Rows, NEW L, L = Boards!Left(r), NEW P, P = Boards!PageOf(r)
    PROVE  /\ P \subseteq L /\ L \subseteq BoardPlayers /\ IsFiniteSet(P)
           /\ Cardinality(P) = PageCap =>
                 /\ Boards!LastOf(r) \in P
                 /\ \A q \in P \ {Boards!LastOf(r)} : Boards!Before(r, q, Boards!LastOf(r))
                 /\ \A q \in L \ P : Boards!Before(r, Boards!LastOf(r), q)
           /\ Cardinality(P) # PageCap => P = L
<1> DEFINE Ahead(p) == {q \in L : Boards!Before(r, q, p)}
<1>1. P = {p \in L : Cardinality(Ahead(p)) < PageCap} /\ L \subseteq BoardPlayers
  BY BoardsCount DEF Boards!PageOf, Boards!Ahead, Boards!Left
<1>2. IsFiniteSet(L) /\ IsFiniteSet(P) /\ \A p : IsFiniteSet(Ahead(p)) /\ Cardinality(Ahead(p)) \in Nat
  <2>1. IsFiniteSet(L)
    BY <1>1, FS_Subset, BoardsAssumption
  <2>2. P \subseteq L /\ \A p : Ahead(p) \subseteq L
    BY <1>1
  <2> HIDE DEF Ahead
  <2>. QED  BY <2>1, <2>2, FS_Subset, FS_CardinalityType
<1>3. Cardinality(P) \in Nat
  BY <1>2, FS_CardinalityType
<1>4. ASSUME NEW X, X \subseteq BoardPlayers, X # {}
      PROVE  /\ \E x \in X : \A y \in X : ~Boards!Before(r, x, y)
             /\ \E x \in X : \A y \in X : ~Boards!Before(r, y, x)
  <2> DEFINE B == {e \in X \X X : Boards!Before(r, e[1], e[2])}
             C == {e \in X \X X : Boards!Before(r, e[2], e[1])}
  <2>1. IsFiniteSet(X)
    BY <1>4, FS_Subset, BoardsAssumption
  <2>2. \A x, y \in X : (<<x, y>> \in B <=> Boards!Before(r, x, y)) /\ (<<x, y>> \in C <=> Boards!Before(r, y, x))
    OBVIOUS
  <2>3. /\ \A x \in X : <<x, x>> \notin B /\ <<x, x>> \notin C
        /\ \A x, y, z \in X : <<x, y>> \in B /\ <<y, z>> \in B => <<x, z>> \in B
        /\ \A x, y, z \in X : <<x, y>> \in C /\ <<y, z>> \in C => <<x, z>> \in C
    <3> HIDE DEF B, C
    <3>. QED  BY <1>4, <2>2, BoardOrder
  <2> HIDE DEF B, C
  <2>4. \E x \in X : \A y \in X : <<x, y>> \notin B
    BY <1>4, <2>1, <2>3, LastThereIs
  <2>5. \E x \in X : \A y \in X : <<x, y>> \notin C
    BY <1>4, <2>1, <2>3, LastThereIs
  <2>. QED  BY <2>2, <2>4, <2>5
(* A page that does not hold everybody is full.                             *)
<1>5. ASSUME P # L PROVE Cardinality(P) >= PageCap
  <2>1. L \ P # {} /\ L \ P \subseteq BoardPlayers
    BY <1>1, <1>5
  <2>2. PICK p \in L \ P : \A q \in L \ P : ~Boards!Before(r, q, p)
    BY <1>4, <2>1
  <2>3. Ahead(p) \subseteq P
    BY <2>2
  <2>4. Cardinality(Ahead(p)) >= PageCap
    <3>1. ~(Cardinality(Ahead(p)) < PageCap)
      BY <1>1, <2>2
    <3> HIDE DEF Ahead
    <3>. QED  BY <1>2, <3>1, BoardsAssumption
  <2> HIDE DEF Ahead
  <2>5. Cardinality(Ahead(p)) <= Cardinality(P)
    BY <1>2, <2>3, FS_Subset
  <2>. QED  BY <1>2, <1>3, <2>4, <2>5, BoardsAssumption
(* The last of a page, and no page above the cap.                           *)
<1>6. ASSUME P # {}
      PROVE  Cardinality(P) <= PageCap /\ \E p \in P : \A q \in P \ {p} : Boards!Before(r, q, p)
  <2>1. PICK p \in P : \A q \in P : ~Boards!Before(r, p, q)
    BY <1>1, <1>4, <1>6
  <2>2. \A q \in P \ {p} : Boards!Before(r, q, p)
    BY <1>1, <2>1, BoardOrder
  <2>3. P \ {p} \subseteq Ahead(p) /\ Cardinality(Ahead(p)) < PageCap
    BY <1>1, <2>2
  <2> HIDE DEF Ahead
  <2>4. Cardinality(P \ {p}) <= Cardinality(Ahead(p)) /\ Cardinality(P \ {p}) = Cardinality(P) - 1
    BY <1>2, <2>1, <2>3, FS_Subset, FS_RemoveElement
  <2>. QED  BY <1>2, <1>3, <2>1, <2>2, <2>3, <2>4, BoardsAssumption
<1>7. ASSUME Cardinality(P) = PageCap
      PROVE  /\ Boards!LastOf(r) \in P
             /\ \A q \in P \ {Boards!LastOf(r)} : Boards!Before(r, q, Boards!LastOf(r))
             /\ \A q \in L \ P : Boards!Before(r, Boards!LastOf(r), q)
  <2>1. P # {}
    BY <1>2, <1>7, BoardsAssumption, FS_EmptySet
  <2>2. PICK p : p = Boards!LastOf(r)
    OBVIOUS
  <2>3. p \in P /\ \A q \in P \ {p} : Boards!Before(r, q, p)
    BY <1>6, <2>1, <2>2 DEF Boards!LastOf
  <2>4. ASSUME NEW q \in L \ P PROVE Boards!Before(r, p, q)
    <3>1. CASE Boards!Before(r, q, p)
      <4>1. q \in BoardPlayers /\ p \in BoardPlayers /\ q \in L /\ p \in L
        BY <1>1, <2>3
      <4>2. Ahead(q) \subseteq Ahead(p)
        BY <1>1, <3>1, <4>1, BoardOrder
      <4>3. Cardinality(Ahead(p)) < PageCap /\ ~(Cardinality(Ahead(q)) < PageCap)
        BY <1>1, <2>3, <2>4
      <4> HIDE DEF Ahead
      <4>4. Cardinality(Ahead(q)) <= Cardinality(Ahead(p))
        BY <1>2, <4>2, FS_Subset
      <4>. QED  BY <1>2, <4>3, <4>4, BoardsAssumption
    <3>2. CASE ~Boards!Before(r, q, p)
      BY <1>1, <2>3, <3>2, BoardOrder
    <3>. QED  BY <3>1, <3>2
  <2>. QED  BY <2>2, <2>3, <2>4
<1>8. ASSUME Cardinality(P) # PageCap PROVE P = L
  <2>1. CASE P = {}
    BY <1>2, <1>5, <2>1, FS_EmptySet, BoardsAssumption
  <2>2. CASE P # {}
    BY <1>3, <1>5, <1>6, <1>8, <2>2, BoardsAssumption
  <2>. QED  BY <2>1, <2>2
<1>. QED  BY <1>1, <1>2, <1>7, <1>8

LEMMA BoardInit == Boards!Init => BoardInv
<1> SUFFICES ASSUME Boards!Init PROVE BoardInv
  OBVIOUS
<1>1. BoardTypes
  BY DEF Boards!Init, BoardTypes, Cursors
<1>2. \A p \in BoardPlayers : NotYet(p)
  BY DEF Boards!Init, NotYet, Boards!cursorPredicate, Boards!Start, Boards!End
<1>. QED  BY <1>1, <1>2 DEF Boards!Init, BoardInv, CopyFollows, ShownOnce, Unmoved

(* A page of the live rows.                                                 *)
LEMMA GamePageStep == ASSUME BoardInv, Boards!GamePage PROVE BoardInv'
<1>1. PICK g \in Boards!Rows : g = boardGame
  BY DEF BoardInv, BoardTypes
<1>2. PICK P : P = Boards!PageOf(g)
  OBVIOUS
<1>3. PICK L : L = Boards!Left(g)
  OBVIOUS
<1>4. PICK last : last = Boards!LastOf(g)
  OBVIOUS
<1>5. /\ cursor # Boards!End /\ UNCHANGED <<board, boardGame, boardCopy, moved, moves>>
      /\ shown' = [p \in BoardPlayers |-> shown[p] + (IF p \in P THEN 1 ELSE 0)]
      /\ cursor' = IF Cardinality(P) = PageCap THEN Boards!After(g[last].value, last) ELSE Boards!End
      /\ from' = from \cup {"game"}
  BY <1>1, <1>2, <1>4, BoardsCount DEF Boards!GamePage, Boards!getLeaderboardPage
<1>6. /\ P \subseteq L /\ L \subseteq BoardPlayers
      /\ Cardinality(P) = PageCap =>
            /\ last \in P /\ \A q \in P \ {last} : Boards!Before(g, q, last)
            /\ \A q \in L \ P : Boards!Before(g, last, q)
      /\ Cardinality(P) # PageCap => P = L
  BY <1>1, <1>2, <1>3, <1>4, PageIs DEF BoardInv, BoardTypes
<1>7. \A p \in BoardPlayers : NotYet(p) <=> p \in L
  BY <1>1, <1>3, <1>5 DEF NotYet, Boards!Left
<1>8. BoardTypes'
  <2>1. cursor' \in Cursors
    BY <1>1, <1>5, <1>6 DEF Cursors, Boards!Rows
  <2>2. shown' \in [BoardPlayers -> Nat]
    BY <1>5 DEF BoardInv, BoardTypes
  <2>3. Cursors' = Cursors /\ Boards!Rows' = Boards!Rows
    BY DEF Cursors, Boards!Start, Boards!End, Boards!After, Boards!Rows
  <2>. QED  BY <1>5, <2>1, <2>2, <2>3 DEF BoardInv, BoardTypes
<1>9. CopyFollows'
  BY <1>5 DEF BoardInv, CopyFollows, Unmoved
<1>10. ASSUME Cardinality(P) = PageCap, NEW p \in BoardPlayers
       PROVE  NotYet(p)' <=> p \in L \ P
  <2>1. last \in BoardPlayers /\ last \in L /\ cursor' = Boards!After(g[last].value, last)
    BY <1>5, <1>6, <1>10
  <2>2. NotYet(p)' <=> Boards!Before(g, last, p)
    <3>1. /\ g[p].value \in Nat /\ p \in Nat /\ g[last].value \in Nat /\ last \in Nat
          /\ Boards!Before(g, last, p) <=> g[last].value > g[p].value \/ (g[last].value = g[p].value /\ last < p)
      BY <1>1, <2>1, BoardOrder DEF BoardInv, BoardTypes
    <3>2. NotYet(p)' <=> g[p].value < g[last].value \/ (g[p].value = g[last].value /\ p > last)
      BY <1>1, <1>5, <2>1 DEF NotYet, Boards!cursorPredicate, Boards!decodeCursor, Boards!After, Boards!End
    <3>. QED  BY <3>1, <3>2
  <2>3. CASE p \in P
    BY <1>1, <1>6, <1>10, <2>1, <2>2, <2>3, BoardOrder DEF BoardInv, BoardTypes
  <2>4. CASE p \in L \ P
    BY <1>6, <1>10, <2>2, <2>4
  <2>5. CASE p \notin L
    <3>1. Boards!cursorPredicate(g, last) /\ ~Boards!cursorPredicate(g, p)
      BY <1>3, <2>1, <2>5 DEF Boards!Left
    <3>. QED  BY <1>1, <1>5, <2>1, <2>2, <2>5, <3>1, BoardCursor DEF BoardInv
  <2>. QED  BY <2>3, <2>4, <2>5
<1>11. ASSUME NEW p \in BoardPlayers PROVE NotYet(p)' <=> p \in L \ P
  <2>1. CASE Cardinality(P) = PageCap
    BY <1>10, <2>1
  <2>2. CASE Cardinality(P) # PageCap
    BY <1>5, <1>6, <2>2 DEF NotYet, Boards!End
  <2>. QED  BY <2>1, <2>2
<1>12. ShownOnce'
  <2> SUFFICES ASSUME from' \subseteq {"game"}, NEW p \in Unmoved'
               PROVE  shown'[p] = IF NotYet(p)' THEN 0 ELSE 1
    BY DEF ShownOnce
  <2>1. p \in Unmoved /\ p \in BoardPlayers /\ from \subseteq {"game"}
    BY <1>5 DEF Unmoved
  <2>2. shown[p] = IF p \in L THEN 0 ELSE 1
    BY <1>7, <2>1 DEF BoardInv, ShownOnce
  <2>3. shown'[p] = shown[p] + (IF p \in P THEN 1 ELSE 0)
    BY <1>5, <2>1
  <2>. QED  BY <1>6, <1>11, <2>1, <2>2, <2>3
<1>. QED  BY <1>8, <1>9, <1>12 DEF BoardInv

(* A page of the copy: it counts only when it is empty.                     *)
LEMMA CopyPageStep == ASSUME BoardInv, Boards!CopyPage PROVE BoardInv'
<1>1. PICK r \in Boards!Rows : r = boardCopy
  BY DEF BoardInv, BoardTypes
<1>2. PICK P : P = Boards!PageOf(r)
  OBVIOUS
<1>3. PICK L : L = Boards!Left(r)
  OBVIOUS
<1>4. PICK last : last = Boards!LastOf(r)
  OBVIOUS
<1>5. /\ cursor # Boards!End /\ UNCHANGED <<board, boardGame, boardCopy, moved, moves>>
      /\ shown' = [p \in BoardPlayers |-> shown[p] + (IF p \in P THEN 1 ELSE 0)]
      /\ cursor' = IF Cardinality(P) = PageCap THEN Boards!After(r[last].value, last) ELSE Boards!End
      /\ from' = IF P = {} THEN from ELSE from \cup {"copy"}
  BY <1>1, <1>2, <1>4, BoardsCount DEF Boards!CopyPage, Boards!getLeaderboardPage
<1>6. /\ P \subseteq L /\ L \subseteq BoardPlayers
      /\ Cardinality(P) = PageCap => last \in P
      /\ Cardinality(P) # PageCap => P = L
  BY <1>1, <1>2, <1>3, <1>4, PageIs DEF BoardInv, BoardTypes
<1>7. BoardTypes'
  <2>1. cursor' \in Cursors
    BY <1>1, <1>5, <1>6 DEF Cursors, Boards!Rows
  <2>2. shown' \in [BoardPlayers -> Nat]
    BY <1>5 DEF BoardInv, BoardTypes
  <2>3. Cursors' = Cursors /\ Boards!Rows' = Boards!Rows
    BY DEF Cursors, Boards!Start, Boards!End, Boards!After, Boards!Rows
  <2>. QED  BY <1>5, <2>1, <2>2, <2>3 DEF BoardInv, BoardTypes
<1>8. CopyFollows'
  BY <1>5 DEF BoardInv, CopyFollows, Unmoved
<1>9. ShownOnce'
  <2> SUFFICES ASSUME from' \subseteq {"game"}, NEW p \in Unmoved'
               PROVE  shown'[p] = IF NotYet(p)' THEN 0 ELSE 1
    BY DEF ShownOnce
  <2>1. P = {} /\ from \subseteq {"game"} /\ p \in Unmoved /\ p \in BoardPlayers
    BY <1>5 DEF Unmoved
  <2>2. L = {} /\ cursor' = Boards!End
    <3>1. Cardinality(P) # PageCap
      BY <2>1, FS_EmptySet, BoardsAssumption
    <3>. QED  BY <1>5, <1>6, <2>1, <3>1
  <2>3. ~Boards!cursorPredicate(r, p) /\ r[p] = boardGame[p]
    BY <1>1, <1>3, <2>1, <2>2 DEF Boards!Left, BoardInv, CopyFollows
  <2>4. ~NotYet(p) /\ ~NotYet(p)'
    BY <2>2, <2>3 DEF NotYet, Boards!cursorPredicate
  <2>. QED  BY <1>5, <2>1, <2>4 DEF BoardInv, BoardTypes, ShownOnce
<1>. QED  BY <1>7, <1>8, <1>9 DEF BoardInv

LEMMA BoardNext == BoardInv /\ [Boards!Next]_boardsVars => BoardInv'
<1> SUFFICES ASSUME BoardInv, [Boards!Next]_boardsVars PROVE BoardInv'
  OBVIOUS
<1>1. CASE Boards!CopyRows
  BY <1>1 DEF Boards!CopyRows, BoardInv, BoardTypes, Cursors, CopyFollows, ShownOnce, Unmoved, NotYet,
     Boards!cursorPredicate, Boards!decodeCursor, Boards!Start, Boards!End, Boards!After
<1>2. ASSUME NEW p \in BoardPlayers, NEW v \in BoardValues, Boards!RowMoves(p, v) PROVE BoardInv'
  <2>1. /\ UNCHANGED <<board, boardCopy, cursor, shown, from>> /\ moved' = moved \cup {p}
        /\ boardGame' = [boardGame EXCEPT ![p].value = v]
    BY <1>2 DEF Boards!RowMoves
  <2>2. boardGame' \in Boards!Rows /\ \A q \in BoardPlayers \ {p} : boardGame'[q] = boardGame[q]
    <3>1. boardGame \in Boards!Rows
      BY DEF BoardInv, BoardTypes
    <3>. QED  BY <2>1, <3>1 DEF Boards!Rows
  <2>3. BoardTypes'
    BY <2>1, <2>2 DEF BoardInv, BoardTypes, Cursors, Boards!Start, Boards!End, Boards!After
  <2>4. \A q \in Unmoved' : q \in Unmoved /\ boardGame'[q] = boardGame[q] /\ (NotYet(q)' <=> NotYet(q))
    BY <2>1, <2>2 DEF Unmoved, NotYet, Boards!cursorPredicate, Boards!decodeCursor
  <2>. QED  BY <2>1, <2>3, <2>4 DEF BoardInv, CopyFollows, ShownOnce
<1>3. CASE UNCHANGED boardsVars
  BY <1>3 DEF boardsVars, BoardInv, BoardTypes, Cursors, CopyFollows, ShownOnce, Unmoved, NotYet,
     Boards!cursorPredicate, Boards!decodeCursor, Boards!Start, Boards!End, Boards!After
<1>. QED  BY <1>1, <1>2, <1>3, GamePageStep, CopyPageStep DEF Boards!Next

LEMMA PagesAreKept == BoardInv => Boards!PagesPartition
BY DEF BoardInv, ShownOnce, Unmoved, NotYet, Boards!PagesPartition

(* The rows of a page lie before the cursor it gives, in the order in which *)
(* the walk goes on, and the copy has what has not moved.                   *)
THEOREM BoardInvariant == ServiceSpec => [](part = "boards" => BoardInv)
<1>1. ServiceInit => (part = "boards" => BoardInv)
  BY BoardInit DEF ServiceInit
<1>2. (part = "boards" => BoardInv) /\ [ServiceNext]_serviceVars => (part = "boards" => BoardInv)'
  BY TrafficMoves, BoardNext
<1>. QED  BY <1>1, <1>2, PTL DEF ServiceSpec

(* A walk over the pages of a leaderboard shows everybody who stays where   *)
(* he is exactly once while others move.                                    *)
THEOREM PagesOnce == ServiceSpec => []PagesPartition
<1>1. (part = "boards" => BoardInv) => PagesPartition
  BY PagesAreKept DEF PagesPartition
<1>. QED  BY <1>1, BoardInvariant, PTL

-----------------------------------------------------------------------------
(* The response cache.  What is kept was read when it was stamped; the      *)
(* entry, and what a request holds of it or is about to be written, is not  *)
(* older than the entry's time to live, since time passes only when nothing *)
(* is in flight; a private route does not ask the edge.                     *)
Whole == {d \in [kind : {"none", "rows", "degraded", "gone"}, at : Nat, stamp : Nat] : d.at = d.stamp}
CacheSteps == {"idle", "edge", "redis", "fetch"}
CacheTypes ==
    /\ route \in {"current", "card", "drift"} /\ cacheClock \in Nat
    /\ edge \in Whole /\ cacheEntry \in Whole /\ good \in Whole
    /\ tasks \subseteq [do : {"revalidate", "write"}, of : Whole]
    /\ cacheReq \in [CacheRequests -> [step : CacheSteps, held : Whole]]
Lives(d) == d = Cache!Nothing \/ cacheClock <= d.stamp + Cache!SWR_REDIS_TTL
NothingOutlives ==
    /\ Lives(cacheEntry)
    /\ \A t \in tasks : t.do = "write" => Lives(t.of)
    /\ \A r \in CacheRequests : Lives(cacheReq[r].held)
EdgeIsPublic == \A r \in CacheRequests : cacheReq[r].step = "edge" => ~Cache!isPrivate
CacheInv == CacheTypes /\ NothingOutlives /\ EdgeIsPublic /\ Cache!AnswerIsRecent

LEMMA CacheInit == Cache!Init => CacheInv
<1> SUFFICES ASSUME Cache!Init PROVE CacheInv
  OBVIOUS
<1>1. Cache!Nothing \in Whole /\ Cache!Idle \in [step : CacheSteps, held : Whole] /\ Cache!Idle.held = Cache!Nothing
      /\ Cache!Idle.step = "idle"
  BY DEF Cache!Nothing, Cache!Idle, Whole, CacheSteps
<1>2. CacheTypes /\ NothingOutlives /\ EdgeIsPublic
  BY <1>1 DEF Cache!Init, CacheTypes, NothingOutlives, EdgeIsPublic, Lives
<1>3. Cache!AnswerIsRecent
  BY DEF Cache!Init, Cache!NoAnswer, Cache!AnswerIsRecent
<1>. QED  BY <1>2, <1>3 DEF CacheInv

(* A request that goes on without an answer, and one that answers.          *)
LEMMA CacheGoes ==
    ASSUME CacheInv, NEW r \in CacheRequests, NEW q \in [step : CacheSteps, held : Whole],
           cacheReq' = [cacheReq EXCEPT ![r] = q], Lives(q.held), q.step = "edge" => ~Cache!isPrivate,
           UNCHANGED <<route, cacheClock, edge, cacheEntry, good, tasks, cacheAnswer>>
    PROVE  CacheInv'
<1>1. cacheReq' \in [CacheRequests -> [step : CacheSteps, held : Whole]]
      /\ \A d \in CacheRequests : cacheReq'[d] = IF d = r THEN q ELSE cacheReq[d]
  BY DEF CacheInv, CacheTypes
<1>2. CacheTypes'
  BY <1>1 DEF CacheInv, CacheTypes
<1>3. NothingOutlives' /\ EdgeIsPublic'
  BY <1>1 DEF CacheInv, NothingOutlives, EdgeIsPublic, Lives, Cache!isPrivate
<1>4. Cache!AnswerIsRecent'
  BY DEF CacheInv, Cache!AnswerIsRecent, Cache!isPrivate
<1>. QED  BY <1>2, <1>3, <1>4 DEF CacheInv

LEMMA CacheAnswers ==
    ASSUME CacheInv, NEW r \in CacheRequests, NEW how, NEW kind, NEW read \in Nat,
           how \in {"EDGE", "HIT", "STALE", "MISS", "STALE-ERROR"} =>
              cacheClock <= read + Cache!MaxAge(how) /\ (how = "EDGE" => ~Cache!isPrivate),
           Cache!Respond(r, how, kind, read), UNCHANGED <<route, cacheClock, cacheEntry>>,
           edge' \in Whole, good' \in Whole,
           tasks' \subseteq [do : {"revalidate", "write"}, of : Whole],
           \A t \in tasks' : t.do = "write" => Lives(t.of)
    PROVE  CacheInv'
<1> DEFINE q == Cache!Idle
<1>1. q \in [step : CacheSteps, held : Whole] /\ q.held = Cache!Nothing /\ q.step = "idle"
  BY DEF Cache!Nothing, Cache!Idle, Whole, CacheSteps
<1>2. /\ cacheReq' = [cacheReq EXCEPT ![r] = q]
      /\ cacheAnswer'.how = how /\ cacheAnswer'.at = read
  BY DEF Cache!Respond
<1> HIDE DEF q
<1>3. cacheReq' \in [CacheRequests -> [step : CacheSteps, held : Whole]]
      /\ \A d \in CacheRequests : cacheReq'[d] = IF d = r THEN q ELSE cacheReq[d]
  BY <1>1, <1>2 DEF CacheInv, CacheTypes
<1>4. CacheTypes'
  BY <1>3 DEF CacheInv, CacheTypes
<1>5. NothingOutlives' /\ EdgeIsPublic'
  BY <1>1, <1>3 DEF CacheInv, NothingOutlives, EdgeIsPublic, Lives, Cache!isPrivate
<1>6. Cache!AnswerIsRecent'
  BY <1>2 DEF Cache!AnswerIsRecent, Cache!isPrivate
<1>. QED  BY <1>4, <1>5, <1>6 DEF CacheInv

(* What a fetcher brings is of now, or it failed.                           *)
LEMMA Fetched ==
    ASSUME CacheTypes, NEW up
    PROVE  \/ Cache!fetcher(up) = Cache!Failed
           \/ \E kind \in {"rows", "degraded", "gone"} : Cache!fetcher(up) = [kind |-> kind, at |-> cacheClock]
BY DEF CacheTypes, Cache!fetcher, Cache!currentSeason, Cache!softRows, Cache!legionCard, Cache!driftAlerts,
   Cache!Data

LEMMA FetchStep == ASSUME CacheInv, NEW r \in CacheRequests, NEW up, Cache!FetchMiss(r, up) PROVE CacheInv'
<1>1. /\ CacheTypes /\ cacheClock \in Nat /\ edge \in Whole /\ good \in Whole
      /\ cacheReq[r].held \in Whole /\ Lives(cacheReq[r].held)
      /\ \A t \in tasks : t.do = "write" => Lives(t.of)
      /\ tasks \subseteq [do : {"revalidate", "write"}, of : Whole]
      /\ UNCHANGED <<route, cacheClock, cacheEntry>>
  BY DEF CacheInv, CacheTypes, NothingOutlives, Cache!FetchMiss
<1>2. PICK fresh : fresh = Cache!fetcher(up)
  OBVIOUS
<1>3. CASE fresh = Cache!Failed
  <2>1. Cache!FetchFails(r)
    BY <1>2, <1>3 DEF Cache!FetchMiss
  <2>2. PICK held : held = IF cacheReq[r].held # Cache!Nothing THEN cacheReq[r].held ELSE Cache!recallGood
    OBVIOUS
  <2>3. /\ UNCHANGED <<edge, good, tasks>>
        /\ IF held = Cache!Nothing THEN Cache!Respond(r, "FAILED", "none", 0)
           ELSE Cache!Respond(r, "STALE-ERROR", held.kind, held.at)
    BY <2>1, <2>2 DEF Cache!FetchFails
  <2>4. CASE held = Cache!Nothing
    <3>1. Cache!Respond(r, "FAILED", "none", 0)
      BY <2>3, <2>4
    <3>. QED  BY <1>1, <2>3, <3>1, CacheAnswers
  <2>5. CASE held # Cache!Nothing
    <3>1. held \in Whole /\ cacheClock <= held.stamp + 3 /\ held.at = held.stamp
      BY <1>1, <2>2, <2>5 DEF Whole, Lives, Cache!recallGood, Cache!SWR_LAST_GOOD_MAX, Cache!SWR_REDIS_TTL
    <3>2. PICK k, since : k = held.kind /\ since = held.at
      OBVIOUS
    <3>3. Cache!MaxAge("STALE-ERROR") = 3
      BY DEF Cache!MaxAge, Cache!SWR_LAST_GOOD_MAX
    <3>4. since \in Nat /\ cacheClock <= since + Cache!MaxAge("STALE-ERROR") /\ Cache!Respond(r, "STALE-ERROR", k, since)
      BY <2>3, <2>5, <3>1, <3>2, <3>3 DEF Whole
    <3>. QED  BY <1>1, <2>3, <3>4, CacheAnswers
  <2>. QED  BY <2>4, <2>5
<1>4. CASE fresh # Cache!Failed
  <2>1. PICK kind \in {"rows", "degraded", "gone"} : fresh = [kind |-> kind, at |-> cacheClock]
    BY <1>1, <1>2, <1>4, Fetched
  <2>2. PICK now \in Nat : now = cacheClock
    BY <1>1
  <2>3. CASE kind = "gone"
    <3>1. Cache!Respond(r, "NOTFOUND", "gone", now) /\ UNCHANGED <<edge, good, tasks>>
      BY <1>2, <1>4, <2>1, <2>2, <2>3 DEF Cache!FetchMiss
    <3>. QED  BY <1>1, <3>1, CacheAnswers
  <2>4. CASE kind # "gone"
    <3> DEFINE e == [kind |-> kind, at |-> now, stamp |-> now]
    <3>1. /\ Cache!Respond(r, "MISS", kind, now) /\ good' = e
          /\ tasks' = tasks \cup {[do |-> "write", of |-> e]} /\ edge' \in {edge, e}
      BY <1>2, <1>4, <2>1, <2>2, <2>4
         DEF Cache!FetchMiss, Cache!rememberGood, Cache!afterResponse, Cache!edgePut, Cache!Entry
    <3>2. e \in Whole /\ Lives(e) /\ e.stamp = now
      BY <2>1, <2>2 DEF Whole, Lives, Cache!SWR_REDIS_TTL
    <3>3. cacheClock <= now + Cache!MaxAge("MISS")
      BY <2>2 DEF Cache!MaxAge
    <3> HIDE DEF e
    <3>4. /\ tasks' \subseteq [do : {"revalidate", "write"}, of : Whole]
          /\ \A t \in tasks' : t.do = "write" => Lives(t.of)
      BY <1>1, <3>1, <3>2
    <3>5. edge' \in Whole /\ good' \in Whole
      BY <1>1, <3>1, <3>2
    <3>. QED  BY <1>1, <3>1, <3>3, <3>4, <3>5, CacheAnswers
  <2>. QED  BY <2>3, <2>4
<1>. QED  BY <1>3, <1>4

(* The edge and the entry.                                                  *)
LEMMA LookStep ==
    ASSUME CacheInv, NEW r \in CacheRequests,
           Cache!edgeMatch(r) \/ \E found \in {cacheEntry, Cache!Nothing} : Cache!getCachedJson(r, found)
    PROVE  CacheInv'
<1>1. /\ CacheTypes /\ cacheClock \in Nat /\ edge \in Whole /\ good \in Whole /\ cacheEntry \in Whole
      /\ Lives(cacheEntry) /\ cacheReq[r] \in [step : CacheSteps, held : Whole] /\ Lives(cacheReq[r].held)
      /\ \A t \in tasks : t.do = "write" => Lives(t.of)
      /\ tasks \subseteq [do : {"revalidate", "write"}, of : Whole]
      /\ cacheReq[r].step = "edge" => ~Cache!isPrivate
  BY DEF CacheInv, CacheTypes, NothingOutlives, EdgeIsPublic
<1>2. Cache!Nothing \in Whole /\ Lives(Cache!Nothing)
  BY DEF Cache!Nothing, Whole, Lives
<1>3. CASE Cache!edgeMatch(r)
  <2>1. CASE edge # Cache!Nothing /\ cacheClock <= edge.stamp + 1 /\ Cache!Respond(r, "EDGE", edge.kind, edge.at)
             /\ UNCHANGED <<route, cacheClock, edge, cacheEntry, good, tasks>>
    <3>1. PICK k, a : k = edge.kind /\ a = edge.at
      OBVIOUS
    <3>2. a \in Nat /\ cacheClock <= a + Cache!MaxAge("EDGE") /\ Cache!Respond(r, "EDGE", k, a) /\ ~Cache!isPrivate
      BY <1>1, <1>3, <2>1, <3>1 DEF Whole, Cache!MaxAge, Cache!SWR_FRESH, Cache!edgeMatch
    <3>. QED  BY <1>1, <2>1, <3>2, CacheAnswers
  <2>2. CASE /\ cacheReq' = [cacheReq EXCEPT ![r].step = "redis"]
             /\ UNCHANGED <<route, cacheClock, edge, cacheEntry, good, tasks, cacheAnswer>>
    <3> DEFINE q == [cacheReq[r] EXCEPT !.step = "redis"]
    <3>1. q \in [step : CacheSteps, held : Whole] /\ q.step = "redis" /\ q.held = cacheReq[r].held
      BY <1>1 DEF CacheSteps
    <3>2. cacheReq' = [cacheReq EXCEPT ![r] = q]
      BY <2>2
    <3> HIDE DEF q
    <3>. QED  BY <1>1, <2>2, <3>1, <3>2, CacheGoes
  <2>. QED  BY <1>3, <2>1, <2>2 DEF Cache!edgeMatch, Cache!SWR_FRESH
<1>4. CASE \E found \in {cacheEntry, Cache!Nothing} : Cache!getCachedJson(r, found)
  <2>1. PICK found \in Whole : found \in {cacheEntry, Cache!Nothing} /\ Cache!getCachedJson(r, found)
    BY <1>1, <1>2, <1>4
  <2>2. Lives(found) /\ UNCHANGED <<route, cacheClock, edge, cacheEntry, good>>
    BY <1>1, <1>2, <2>1 DEF Cache!getCachedJson
  <2>3. PICK a \in Nat : a = found.at /\ a = found.stamp
    BY <2>1 DEF Whole
  <2>4. PICK k : k = found.kind
    OBVIOUS
  <2>5. CASE /\ cacheClock <= found.stamp + 1 /\ Cache!Respond(r, "HIT", found.kind, found.at) /\ UNCHANGED tasks
    <3>1. cacheClock <= a + Cache!MaxAge("HIT") /\ Cache!Respond(r, "HIT", k, a)
      BY <2>3, <2>4, <2>5 DEF Cache!MaxAge, Cache!SWR_FRESH
    <3>. QED  BY <1>1, <2>2, <2>3, <2>5, <3>1, CacheAnswers
  <2>6. CASE /\ cacheClock <= found.stamp + 2 /\ Cache!Respond(r, "STALE", found.kind, found.at)
             /\ Cache!afterResponse("revalidate", Cache!Nothing)
    <3>1. cacheClock <= a + Cache!MaxAge("STALE") /\ Cache!Respond(r, "STALE", k, a)
      BY <2>3, <2>4, <2>6 DEF Cache!MaxAge, Cache!SWR_STALE
    <3>2. /\ tasks' \subseteq [do : {"revalidate", "write"}, of : Whole]
          /\ \A t \in tasks' : t.do = "write" => Lives(t.of)
      BY <1>1, <1>2, <2>6 DEF Cache!afterResponse
    <3>. QED  BY <1>1, <2>2, <2>3, <3>1, <3>2, CacheAnswers
  <2>7. CASE /\ cacheReq' = [cacheReq EXCEPT ![r] = [step |-> "fetch", held |-> found]]
             /\ UNCHANGED <<tasks, cacheAnswer>>
    <3> DEFINE q == [step |-> "fetch", held |-> found]
    <3>1. q \in [step : CacheSteps, held : Whole] /\ q.step = "fetch" /\ q.held = found
      BY DEF CacheSteps
    <3>2. cacheReq' = [cacheReq EXCEPT ![r] = q]
      BY <2>7
    <3> HIDE DEF q
    <3>. QED  BY <2>2, <2>7, <3>1, <3>2, CacheGoes
  <2>. QED  BY <2>1, <2>5, <2>6, <2>7 DEF Cache!getCachedJson, Cache!SWR_FRESH, Cache!SWR_STALE
<1>. QED  BY <1>3, <1>4

(* What runs behind the requests.                                           *)
LEMMA TaskStep ==
    ASSUME CacheInv, Cache!setCachedJson \/ Cache!Recycle \/ \E up \in SUBSET Cache!Statements : Cache!revalidate(up)
    PROVE  CacheInv'
<1>1. /\ CacheTypes /\ cacheClock \in Nat /\ edge \in Whole /\ good \in Whole /\ cacheEntry \in Whole
      /\ Lives(cacheEntry) /\ cacheReq \in [CacheRequests -> [step : CacheSteps, held : Whole]]
      /\ \A r \in CacheRequests : Lives(cacheReq[r].held) /\ (cacheReq[r].step = "edge" => ~Cache!isPrivate)
      /\ \A t \in tasks : t.of \in Whole /\ (t.do = "write" => Lives(t.of))
      /\ tasks \subseteq [do : {"revalidate", "write"}, of : Whole]
  BY DEF CacheInv, CacheTypes, NothingOutlives, EdgeIsPublic
<1>2. ASSUME UNCHANGED <<route, cacheClock, edge, cacheAnswer>>, cacheEntry' \in Whole, Lives(cacheEntry'),
             good' \in Whole, tasks' \subseteq [do : {"revalidate", "write"}, of : Whole],
             \A t \in tasks' : t.do = "write" => Lives(t.of),
             cacheReq' = cacheReq \/ cacheReq' = [r \in CacheRequests |-> Cache!Idle]
      PROVE  CacheInv'
  <2>1. Cache!Idle \in [step : CacheSteps, held : Whole] /\ Cache!Idle.held = Cache!Nothing /\ Cache!Idle.step = "idle"
    BY DEF Cache!Nothing, Cache!Idle, Whole, CacheSteps
  <2>2. /\ cacheReq' \in [CacheRequests -> [step : CacheSteps, held : Whole]]
        /\ \A r \in CacheRequests : Lives(cacheReq'[r].held) /\ (cacheReq'[r].step = "edge" => ~Cache!isPrivate)
    BY <1>1, <1>2, <2>1 DEF Lives
  <2>3. CacheTypes'
    BY <1>1, <1>2, <2>2 DEF CacheTypes
  <2>4. NothingOutlives' /\ EdgeIsPublic'
    BY <1>2, <2>2 DEF NothingOutlives, EdgeIsPublic, Lives, Cache!isPrivate
  <2>5. Cache!AnswerIsRecent'
    BY <1>2 DEF CacheInv, Cache!AnswerIsRecent, Cache!isPrivate
  <2>. QED  BY <2>3, <2>4, <2>5 DEF CacheInv
<1>3. CASE Cache!setCachedJson
  <2>1. PICK t \in tasks : /\ t.do = "write" /\ tasks' = tasks \ {t} /\ cacheEntry' \in {cacheEntry, t.of}
                           /\ UNCHANGED <<route, cacheClock, edge, good, cacheReq, cacheAnswer>>
    BY <1>3 DEF Cache!setCachedJson
  <2>2. cacheEntry' \in Whole /\ Lives(cacheEntry')
    BY <1>1, <2>1
  <2>. QED  BY <1>1, <1>2, <2>1, <2>2
<1>4. CASE Cache!Recycle
  <2>1. /\ good' = Cache!Nothing /\ tasks' = {} /\ cacheReq' = [r \in CacheRequests |-> Cache!Idle]
        /\ UNCHANGED <<route, cacheClock, edge, cacheEntry, cacheAnswer>>
    BY <1>4 DEF Cache!Recycle
  <2>2. good' \in Whole
    BY <2>1 DEF Cache!Nothing, Whole
  <2>. QED  BY <1>1, <1>2, <2>1, <2>2
<1>5. ASSUME NEW up, Cache!revalidate(up) PROVE CacheInv'
  <2>1. PICK fresh : fresh = Cache!fetcher(up)
    OBVIOUS
  <2>2. PICK t \in tasks :
           /\ IF fresh = Cache!Failed THEN tasks' = tasks \ {t} /\ UNCHANGED good
              ELSE /\ good' = Cache!Entry(fresh)
                   /\ tasks' = (tasks \ {t}) \cup {[do |-> "write", of |-> Cache!Entry(fresh)]}
           /\ UNCHANGED <<route, cacheClock, edge, cacheEntry, cacheReq, cacheAnswer>>
    BY <1>5, <2>1 DEF Cache!revalidate, Cache!rememberGood
  <2>3. CASE fresh = Cache!Failed
    BY <1>1, <1>2, <2>2, <2>3
  <2>4. CASE fresh # Cache!Failed
    <3>1. PICK kind \in {"rows", "degraded", "gone"} : fresh = [kind |-> kind, at |-> cacheClock]
      BY <1>1, <2>1, <2>4, Fetched
    <3>2. PICK e : e = Cache!Entry(fresh)
      OBVIOUS
    <3>3. e \in Whole /\ Lives(e)
      BY <1>1, <3>1, <3>2 DEF Cache!Entry, Whole, Lives, Cache!SWR_REDIS_TTL
    <3>4. good' = e /\ tasks' = (tasks \ {t}) \cup {[do |-> "write", of |-> e]}
      BY <2>2, <2>4, <3>2
    <3>5. /\ tasks' \subseteq [do : {"revalidate", "write"}, of : Whole]
          /\ \A u \in tasks' : u.do = "write" => Lives(u.of)
      BY <1>1, <3>3, <3>4
    <3>. QED  BY <1>1, <1>2, <2>2, <3>3, <3>4, <3>5
  <2>. QED  BY <2>3, <2>4
<1>. QED  BY <1>3, <1>4, <1>5

LEMMA CacheNext == CacheInv /\ [Cache!Next]_cacheVars => CacheInv'
<1> SUFFICES ASSUME CacheInv, [Cache!Next]_cacheVars PROVE CacheInv'
  OBVIOUS
<1>1. ASSUME NEW r \in CacheRequests, Cache!Arrive(r) PROVE CacheInv'
  <2>1. PICK where \in {"redis", "edge"} : where = IF Cache!isPrivate THEN "redis" ELSE "edge"
    OBVIOUS
  <2> DEFINE q == [cacheReq[r] EXCEPT !.step = where]
  <2>2. q \in [step : CacheSteps, held : Whole] /\ q.step = where /\ q.held = cacheReq[r].held
    <3>1. cacheReq[r] \in [step : CacheSteps, held : Whole]
      BY DEF CacheInv, CacheTypes
    <3>. QED  BY <3>1 DEF CacheSteps
  <2>3. /\ cacheReq' = [cacheReq EXCEPT ![r] = q]
        /\ UNCHANGED <<route, cacheClock, edge, cacheEntry, good, tasks, cacheAnswer>>
    BY <1>1, <2>1 DEF Cache!Arrive
  <2> HIDE DEF q
  <2>4. Lives(q.held)
    BY <2>2 DEF CacheInv, NothingOutlives
  <2>. QED  BY <2>1, <2>2, <2>3, <2>4, CacheGoes
<1>2. CASE Cache!Tick
  <2>1. /\ tasks = {} /\ \A r \in CacheRequests : cacheReq[r] = Cache!Idle
        /\ cacheClock' = cacheClock + 1 /\ UNCHANGED <<route, good, tasks, cacheReq>>
        /\ cacheEntry' \in {Cache!Nothing, IF cacheClock' > cacheEntry.stamp + 3 THEN Cache!Nothing ELSE cacheEntry}
        /\ edge' \in {Cache!Nothing, edge} /\ cacheAnswer'.how = "none"
    BY <1>2 DEF Cache!Tick, Cache!SWR_REDIS_TTL, Cache!NoAnswer
  <2>2. Cache!Nothing \in Whole /\ Cache!Idle.held = Cache!Nothing /\ Cache!Idle.step = "idle"
    BY DEF Cache!Nothing, Whole, Cache!Idle
  <2>3. CacheTypes'
    BY <2>1, <2>2 DEF CacheInv, CacheTypes
  <2>4. cacheEntry' = Cache!Nothing \/ cacheClock' <= cacheEntry'.stamp + 3
    BY <2>1 DEF CacheInv, CacheTypes, Whole
  <2>5. NothingOutlives' /\ EdgeIsPublic'
    BY <2>1, <2>2, <2>4 DEF NothingOutlives, EdgeIsPublic, Lives, Cache!SWR_REDIS_TTL
  <2>6. Cache!AnswerIsRecent'
    BY <2>1 DEF Cache!AnswerIsRecent
  <2>. QED  BY <2>3, <2>5, <2>6 DEF CacheInv
<1>3. CASE UNCHANGED cacheVars
  BY <1>3 DEF cacheVars, CacheInv, CacheTypes, NothingOutlives, EdgeIsPublic, Lives, Cache!AnswerIsRecent,
     Cache!isPrivate
<1>. QED  BY <1>1, <1>2, <1>3, FetchStep, LookStep, TaskStep DEF Cache!Next

(* Nothing is kept longer than its time to live.                            *)
THEOREM CacheInvariant == ServiceSpec => [](part = "cache" => CacheInv)
<1>1. ServiceInit => (part = "cache" => CacheInv)
  BY CacheInit DEF ServiceInit
<1>2. (part = "cache" => CacheInv) /\ [ServiceNext]_serviceVars => (part = "cache" => CacheInv)'
  BY TrafficMoves, CacheNext
<1>. QED  BY <1>1, <1>2, PTL DEF ServiceSpec

(* An answer is not older than its X-Cache header says, through the edge,   *)
(* the entry and the isolate's last good one.                               *)
THEOREM AnswersRecent == ServiceSpec => []AnswerIsRecent
<1>1. (part = "cache" => CacheInv) => AnswerIsRecent
  BY DEF CacheInv, AnswerIsRecent
<1>. QED  BY <1>1, CacheInvariant, PTL

-----------------------------------------------------------------------------
(* The reads.  Honest: an unmarked answer that shows nothing comes from a   *)
(* source that holds nothing in the tables it was asked for.  What is kept  *)
(* of the copy is honest for good, the copy does not change; the live rows  *)
(* do, and a profile that shows none of them is not kept in their name.     *)
Honest(a) ==
    /\ a.from = "game" /\ a.shows = "nothing" /\ ~a.flag => a.of \cap game = {}
    /\ a.from = "copy" /\ a.shows = "nothing" /\ ~a.flag => a.of \cap copy = {}
ReadInv ==
    /\ game \subseteq Reads!Tables /\ copy \subseteq Reads!Tables
    /\ kept.from = "game" => kept.shows # "nothing"
    /\ kept.from = "copy" /\ kept.shows = "nothing" => kept.of \cap copy = {}

(* What each way to ask the two databases answers: a record of its own.     *)
IsAnswer(a) ==
    /\ \E code, db, of, whose, marked :
          a = [status |-> code, from |-> db, of |-> of, shows |-> whose, flag |-> marked]
    /\ Honest(a)

LEMMA HonestNone ==
    ASSUME NEW code, NEW whose, NEW marked
    PROVE  IsAnswer(Reads!Answer(code, "none", {}, whose, marked)) /\ Honest(Reads!Status(code))
BY DEF IsAnswer, Honest, Reads!Answer, Reads!Status

LEMMA HonestData ==
    ASSUME NEW r, NEW of
    PROVE  /\ r = "row" \/ of \cap game = {} => IsAnswer(Reads!Data("game", of, r))
           /\ r = "row" \/ of \cap copy = {} => IsAnswer(Reads!Data("copy", of, r))
           /\ r \in {"row", "down"} \/ of \cap copy = {} => IsAnswer(Reads!FromCopy(r, of))
<1>1. ASSUME NEW code, NEW db, NEW whose, NEW marked,
             NEW e, e = [status |-> code, from |-> db, of |-> of, shows |-> whose, flag |-> marked],
             \/ db \notin {"game", "copy"} \/ whose # "nothing" \/ marked
             \/ db = "game" /\ of \cap game = {}
             \/ db = "copy" /\ of \cap copy = {}
      PROVE  IsAnswer(e)
  <2>1. e.from = db /\ e.of = of /\ e.shows = whose /\ e.flag = marked
    BY <1>1
  <2>. QED  BY <1>1, <2>1 DEF IsAnswer, Honest
<1>. QED
  BY <1>1, HonestNone DEF Reads!Data, Reads!Failed, Reads!Answer, Reads!FromCopy, Reads!Row, Reads!Down

(* A set of what a source may say of the tables of.                         *)
Says == {"down", "row", "empty"}
GameSays(A, of) == \A r \in A : r \in Says /\ (r = "empty" => of \cap game = {})
CopySays(A, of) == \A r \in A : r \in Says /\ (r = "empty" => of \cap copy = {})

LEMMA Asked ==
    ASSUME NEW t
    PROVE  GameSays(Reads!gameQuery(t), {t}) /\ CopySays(Reads!query(t), {t})
<1>1. /\ \A r \in Reads!gameQuery(t) : r = "down" \/ (t \in game /\ r = "row") \/ (t \notin game /\ r = "empty")
      /\ \A r \in Reads!query(t) : r = "down" \/ (t \in copy /\ r = "row") \/ (t \notin copy /\ r = "empty")
  BY DEF Reads!gameQuery, Reads!query, Reads!Read, Reads!Row, Reads!Empty, Reads!Down
<1>. QED  BY <1>1 DEF GameSays, CopySays, Says

LEMMA SaysThen ==
    ASSUME NEW A, NEW B, NEW of
    PROVE  /\ GameSays(A, of) => GameSays(Reads!Then(A, B), of)
           /\ CopySays(A, of) => CopySays(Reads!Then(A, B), of)
BY DEF GameSays, CopySays, Says, Reads!Then, Reads!Down

LEMMA SaysBoth ==
    ASSUME NEW A, NEW B, NEW S, NEW T, GameSays(A, S), GameSays(B, T)
    PROVE  GameSays(Reads!Both(A, B), S \cup T)
<1> SUFFICES ASSUME NEW a \in A, NEW b \in B, NEW r,
                    r = IF "down" \in {a, b} THEN "down" ELSE IF "row" \in {a, b} THEN "row" ELSE "empty"
             PROVE  r \in Says /\ (r = "empty" => (S \cup T) \cap game = {})
  BY DEF GameSays, Reads!Both, Reads!Down, Reads!Row, Reads!Empty
<1>1. a \in Says /\ b \in Says
  BY DEF GameSays
<1>2. r = "empty" => a = "empty" /\ b = "empty"
  BY <1>1 DEF Says
<1>. QED  BY <1>2 DEF GameSays, Says

LEMMA HonestWays ==
    ASSUME NEW A, NEW B, NEW of, GameSays(A, of), CopySays(B, of)
    PROVE  /\ \A a \in Reads!OnOutage(A, B, of) : IsAnswer(a)
           /\ \A a \in Reads!OnNoRow(A, B, of) : IsAnswer(a)
<1>1. \A r \in A \ {"down"} : IsAnswer(Reads!Data("game", of, r))
  BY HonestData DEF GameSays, Says
<1>2. \A r \in B : IsAnswer(Reads!FromCopy(r, of))
  BY HonestData DEF CopySays, Says
<1>3. \A r \in A \cap {"row"} : r \in A \ {"down"}
  OBVIOUS
<1>. QED  BY <1>1, <1>2, <1>3 DEF Reads!OnOutage, Reads!OnNoRow, Reads!Down, Reads!Row

(* Every route that asks both.                                              *)
LEMMA BothAsked ==
    ASSUME ReadInv, NEW a,
           a \in Reads!BalancesRoute \cup Reads!StatsRoute \cup Reads!TransactionsRoute \cup Reads!SkillsRoute
                 \cup Reads!FactionsRoute \cup Reads!ParkourRoute \cup Reads!AchievementsRoute
                 \cup Reads!CosmeticsRoute \cup Reads!QuestsRoute \cup Reads!LegionRoute \cup Reads!CratesRoute
    PROVE  Honest(a)
<1>1. ASSUME NEW A, NEW B, NEW of, GameSays(A, of), CopySays(B, of),
             a \in Reads!OnOutage(A, B, of) \cup Reads!OnNoRow(A, B, of)
      PROVE  Honest(a)
  BY <1>1, HonestWays DEF IsAnswer
<1>2. CASE a \in Reads!BalancesRoute
  BY <1>1, <1>2, Asked DEF Reads!BalancesRoute, Reads!getGamePlayerBalances, Reads!getPlayerBalances
<1>3. CASE a \in Reads!StatsRoute
  <2>1. PICK b \in Reads!OnNoRow(Reads!gameQuery("rows"), Reads!query("rows"), {"rows"}) :
           a = IF b.shows = "nothing" /\ b.status = 200 THEN [b EXCEPT !.status = 404] ELSE b
    BY <1>3 DEF Reads!StatsRoute, Reads!getGamePlayerTable, Reads!getPlayerStats
  <2>2. IsAnswer(b)
    BY <2>1, Asked, HonestWays
  <2>. QED  BY <2>1, <2>2 DEF IsAnswer, Honest
<1>4. CASE a \in Reads!TransactionsRoute
  BY <1>1, <1>4, Asked, SaysThen DEF Reads!TransactionsRoute, Reads!getPlayerTransactions
<1>5. CASE a \in Reads!SkillsRoute
  BY <1>1, <1>5, Asked, SaysThen DEF Reads!SkillsRoute, Reads!getGamePlayerTable, Reads!getPlayerSkills
<1>6. CASE a \in Reads!OnOutage(Reads!gameQuery("rows"), Reads!query("rows"), {"rows"})
  BY <1>1, <1>6, Asked
<1>7. CASE a \in Reads!LegionRoute
  <2>1. "membership" \notin game /\ "membership" \notin copy
    BY DEF ReadInv, Reads!Tables
  <2>2. \A r \in Reads!getGameLegion \cup Reads!getPlayerLegion : r \in Says
    <3>1. GameSays(Reads!getGameLegion, {"rows"})
      BY Asked, SaysThen DEF Reads!getGameLegion
    <3>2. CopySays(Reads!Then(Reads!query("rows"), Reads!query("rows")), {"rows"})
      BY Asked, SaysThen
    <3>. QED  BY <3>1, <3>2 DEF Reads!getPlayerLegion, Reads!Empty, GameSays, CopySays, Says
  <2>3. GameSays(Reads!getGameLegion, {"membership"}) /\ CopySays(Reads!getPlayerLegion, {"membership"})
    BY <2>1, <2>2 DEF GameSays, CopySays
  <2>. QED  BY <1>1, <1>7, <2>3 DEF Reads!LegionRoute
<1>8. CASE a \in Reads!CratesRoute
  <2>1. GameSays(Reads!getGameCrateKeys, {"rows"} \cup {"rows"})
    BY Asked, SaysBoth DEF Reads!getGameCrateKeys
  <2>2. GameSays(Reads!Then(Reads!getGameCrateKeys, Reads!gameQuery("rows")), {"rows"})
    BY <2>1, SaysThen
  <2>. QED  BY <1>1, <1>8, <2>2, Asked DEF Reads!CratesRoute
<1>. QED
  BY <1>2, <1>3, <1>4, <1>5, <1>6, <1>7, <1>8
     DEF Reads!FactionsRoute, Reads!ParkourRoute, Reads!AchievementsRoute, Reads!CosmeticsRoute,
         Reads!QuestsRoute, Reads!getGamePlayerTable, Reads!getGamePlayerCards, Reads!getPlayerFactions,
         Reads!getPlayerParkour, Reads!getPlayerAchievements, Reads!getPlayerCosmetics,
         Reads!getPlayerDailyQuests

(* Every route that asks one, or none.                                      *)
LEMMA OneAsked ==
    ASSUME NEW a,
           a \in Reads!RewardsRoute \cup Reads!AdminPlayerRoute \cup Reads!PermissionsRoute
                 \cup Reads!BoardRoute \cup Reads!AdminStatusRoute
    PROVE  Honest(a)
<1>1. CASE a \in Reads!RewardsRoute
  <2>1. GameSays(Reads!getGamePlayerRewards, {"rows", "ranks"})
    <3>1. GameSays(Reads!getGamePlayerRewards, {"rows"} \cup {"ranks"})
      BY Asked, SaysBoth DEF Reads!getGamePlayerRewards
    <3>2. {"rows"} \cup {"ranks"} = {"rows", "ranks"}
      OBVIOUS
    <3>. QED  BY <3>1, <3>2
  <2>2. PICK g \in Reads!getGamePlayerRewards :
           a = IF "down" = g THEN Reads!Answer(200, "none", {}, "nothing", FALSE)
               ELSE Reads!Data("game", {"rows", "ranks"}, g)
    BY <1>1 DEF Reads!RewardsRoute, Reads!Down
  <2>. QED  BY <2>1, <2>2, HonestData, HonestNone DEF GameSays, Says, IsAnswer
<1>2. CASE a \in Reads!AdminPlayerRoute
  <2>1. PICK p \in Reads!getPlayerProfile, b \in Reads!getPlayerBalances :
           a = IF "down" \in {p, b} THEN Reads!Failed(500)
               ELSE IF p = "empty" THEN [Reads!Data("copy", {"ranks", "names"}, p) EXCEPT !.flag = TRUE]
               ELSE Reads!Data("copy", {"balances"}, b)
    BY <1>2 DEF Reads!AdminPlayerRoute, Reads!Down, Reads!Empty
  <2>2. b \in {"down", "row"} \/ {"balances"} \cap copy = {}
    BY Asked DEF CopySays, Says, Reads!getPlayerBalances
  <2>3. Honest(Reads!Failed(500)) /\ Honest([Reads!Data("copy", {"ranks", "names"}, p) EXCEPT !.flag = TRUE])
    BY DEF Honest, Reads!Failed, Reads!Data, Reads!Answer
  <2>. QED  BY <2>1, <2>2, <2>3, HonestData DEF IsAnswer
<1>3. CASE a \in Reads!PermissionsRoute
  <2>1. PICK r \in Reads!query("ranks") : a = [Reads!Data("copy", {"ranks"}, r) EXCEPT !.flag = (r = "down")]
    BY <1>3 DEF Reads!PermissionsRoute, Reads!Down
  <2>2. r \in Says /\ (r = "empty" => {"ranks"} \cap copy = {})
    BY Asked DEF CopySays
  <2>. QED  BY <2>1, <2>2 DEF Honest, Says, Reads!Data, Reads!Answer, Reads!Row
<1>4. CASE a \in Reads!BoardRoute
  <2>1. PICK r \in Reads!query("rows") : a = IF r = "down" THEN Reads!Failed(503) ELSE Reads!Data("copy", {"rows"}, r)
    BY <1>4 DEF Reads!BoardRoute, Reads!Down
  <2>2. r \in Says /\ (r = "empty" => {"rows"} \cap copy = {})
    BY Asked DEF CopySays
  <2>. QED  BY <2>1, <2>2 DEF Honest, Says, Reads!Data, Reads!Failed, Reads!Answer, Reads!Row
<1>5. CASE a \in Reads!AdminStatusRoute
  BY <1>5, HonestNone DEF Reads!AdminStatusRoute
<1>. QED  BY <1>1, <1>2, <1>3, <1>4, <1>5

(* The profile, which is kept.                                              *)
LEMMA ProfileAsked ==
    ASSUME ReadInv, Reads!ProfileRoute, UNCHANGED <<game, copy>>
    PROVE  ReadInv' /\ (kept' = kept => Honest(readAnswer'))
<1>1. CASE kept # Reads!Uncached
  BY <1>1 DEF Reads!ProfileRoute, ReadInv, Honest
<1>2. CASE kept = Reads!Uncached /\ readAnswer' = Reads!NotAvailableYet /\ kept' = kept
  <2>1. Honest(readAnswer')
    BY <1>2, HonestNone DEF Reads!NotAvailableYet, IsAnswer
  <2>. QED  BY <1>2, <2>1 DEF ReadInv
<1>3. ASSUME NEW a \in Reads!ProfileBalances, kept = Reads!Uncached, Reads!ProfileAnswer(a)
      PROVE  ReadInv' /\ Honest(readAnswer')
  <2>1. \/ a = Reads!Data("game", {"balances"}, "row")
        \/ a = Reads!Answer(200, "none", {}, "nothing", TRUE)
        \/ \E r \in {"row", "empty"} : /\ a = Reads!Data("copy", {"balances"}, r)
                                       /\ r = "empty" => {"balances"} \cap copy = {}
    BY Asked DEF Reads!ProfileBalances, Reads!getPlayerBalances, Reads!getGamePlayerBalances, Reads!Row,
       Reads!Down, CopySays, Says
  <2>2. Honest(a) /\ readAnswer' = a /\ kept' \in {kept, [a EXCEPT !.flag = FALSE]}
    BY <1>3, <2>1 DEF Reads!ProfileAnswer, Honest, Reads!Data, Reads!Answer, Reads!Row
  <2>3. /\ kept'.from = "game" => kept'.shows # "nothing"
        /\ kept'.from = "copy" /\ kept'.shows = "nothing" => kept'.of \cap copy = {}
    <3>1. CASE kept' = kept
      BY <3>1 DEF ReadInv
    <3>2. CASE kept' = [a EXCEPT !.flag = FALSE]
      BY <2>1, <3>2 DEF Reads!Data, Reads!Answer, Reads!Row
    <3>. QED  BY <2>2, <3>1, <3>2
  <2>. QED  BY <2>2, <2>3 DEF ReadInv, Honest
<1>. QED  BY <1>1, <1>2, <1>3 DEF Reads!ProfileRoute

LEMMA ReadStep ==
    ASSUME ReadInv, [Reads!Next]_readsVars
    PROVE  ReadInv' /\ (kept' = kept /\ readAnswer' # readAnswer => Honest(readAnswer'))
<1>1. CASE UNCHANGED readsVars
  BY <1>1 DEF readsVars, ReadInv
<1>2. ASSUME NEW t \in Reads!Tables, Reads!PluginWrites(t)
      PROVE  ReadInv' /\ readAnswer' = readAnswer
  BY <1>2 DEF Reads!PluginWrites, ReadInv
<1>3. CASE Reads!Heartbeat \/ Reads!MemoExpires \/ Reads!CacheExpires
  <2>1. Reads!Uncached.from = "none"
    BY DEF Reads!Uncached, Reads!NoAnswer, Reads!Answer
  <2>. QED
    BY <1>3, <2>1 DEF Reads!Heartbeat, Reads!MemoExpires, Reads!CacheExpires, Reads!dataVars, ReadInv
<1>4. CASE Reads!Ask
  <2>1. CASE Reads!ProfileRoute /\ UNCHANGED <<Reads!dataVars, beat, memo>>
    BY <2>1, ProfileAsked DEF Reads!dataVars
  <2>2. CASE Reads!StatusRoute /\ UNCHANGED <<Reads!dataVars, kept, beat>>
    <3>1. Honest(readAnswer')
      BY <2>2, HonestNone DEF Reads!StatusRoute
    <3>. QED  BY <2>2, <3>1 DEF Reads!dataVars, ReadInv, Honest
  <2>3. CASE ~Reads!ProfileRoute /\ ~Reads!StatusRoute
    <3>1. Honest(readAnswer') /\ UNCHANGED <<game, copy, kept>>
      BY <1>4, <2>3, BothAsked, OneAsked DEF Reads!Ask, Reads!dataVars
    <3>. QED  BY <3>1 DEF ReadInv
  <2>. QED  BY <1>4, <2>1, <2>2, <2>3 DEF Reads!Ask
<1>. QED  BY <1>1, <1>2, <1>3, <1>4 DEF Reads!Next

(* What is kept of a profile stays true of the source it names.             *)
THEOREM ReadInvariant == ServiceSpec => [](part = "reads" => ReadInv)
<1>1. ServiceInit => (part = "reads" => ReadInv)
  BY DEF ServiceInit, Reads!Init, ReadInv, Reads!Tables, Reads!Uncached, Reads!NoAnswer, Reads!Answer
<1>2. (part = "reads" => ReadInv) /\ [ServiceNext]_serviceVars => (part = "reads" => ReadInv)'
  BY TrafficMoves, ReadStep
<1>. QED  BY <1>1, <1>2, PTL DEF ServiceSpec

(* An empty result is never a failure that was swallowed, from the client   *)
(* of the game database up to each route that reads a player.               *)
THEOREM EmptyReal == ServiceSpec => EmptyIsReal
<1> DEFINE Told == \A s \in {"game", "copy"} :
              (readAnswer' # readAnswer /\ kept' = kept /\ readAnswer'.from = s /\ readAnswer'.shows = "nothing"
                 /\ ~readAnswer'.flag) => ~Reads!Holds(s, readAnswer'.of)
<1>1. ASSUME part = "reads" => ReadInv, [ServiceNext]_serviceVars PROVE [Told]_(Reads!vars)
  <2>1. CASE part = "reads"
    <3>1. kept' = kept /\ readAnswer' # readAnswer => Honest(readAnswer')
      BY <1>1, <2>1, TrafficMoves, ReadStep
    <3>. QED  BY <3>1 DEF Honest, Reads!Holds
  <2>2. CASE part # "reads"
    <3>1. UNCHANGED readsVars
      BY <1>1, <2>2, TrafficMoves
    <3>. QED  BY <3>1 DEF readsVars, Reads!vars, Reads!dataVars
  <2>. QED  BY <2>1, <2>2
<1>2. (part = "queries" => SlotInv /\ FaultInv) => (part = "queries" => Slots!FailureIsThrown)
  BY DEF FaultInv
<1>3. ServiceSpec => [][Told]_(Reads!vars)
  BY <1>1, ReadInvariant, PTL DEF ServiceSpec
<1>. QED  BY <1>2, <1>3, FaultInvariant, PTL DEF EmptyIsReal, Reads!EmptyIsReal
=============================================================================
