-------------------------- MODULE PlayerCommands ---------------------------
(***************************************************************************)
(* The routes of src/src/api/routes.ts that act in the game by a command   *)
(* on the bus and wait for its answer: a player's crates, tags, cosmetics, *)
(* privacy requests, sales and legion, and the staff's punishments,        *)
(* broadcasts and reloads, which leave an audit row.  A route waits for a  *)
(* limited time; the plugin may run the command after that.  The bus is    *)
(* Redis pub/sub (src/src/db/redis.ts) or two tables of the game database  *)
(* (src/src/db/busMysql.ts).                                               *)
(***************************************************************************)
EXTENDS FiniteSets

CONSTANTS
    Calls,     \* requests of players and staff
    Actors     \* who makes them

VARIABLES
    bus,       \* "redis" or "mysql"
    call,      \* per request: where it is, its kind and its actor
    commands,  \* published, not yet taken by the plugin
    heard,     \* redis: the responses a waiting request has yet to look at
    table,     \* mysql: the rows of web_responses
    ran,       \* (history) the commands the plugin ran, each with its outcome
    audit      \* the rows of action_log: the request they are about and the actor

cmdVars == <<bus, call, commands, heard, table, ran, audit>>

None == "none"
System == "system"
NoCall == [at |-> "idle", kind |-> None, by |-> None]
Answered == {"ok", "refused", "noanswer"}

Init ==
    /\ bus \in {"redis", "mysql"}
    /\ call = [r \in Calls |-> NoCall]
    /\ commands = {} /\ table = {} /\ ran = {} /\ audit = {}
    /\ heard = [r \in Calls |-> {}]

At(r, where) == call' = [call EXCEPT ![r].at = where]

-----------------------------------------------------------------------------
(* A request past its gate and its checks, as a command: a fixed verb with  *)
(* an argument of a checked shape, for the identity that the gate resolved, *)
(* or attributed to the staff actor it resolved.                            *)
Ask(r, kind, by) ==
    /\ call[r].at = "idle"
    /\ call' = [call EXCEPT ![r] = [at |-> "listen", kind |-> kind, by |-> by]]
    /\ UNCHANGED <<bus, commands, heard, table, ran, audit>>

(* The routes.  What a player does differs only in its verb; the export     *)
(* that a privacy request stages is read from the game database later.      *)
Sell(r, by) == Ask(r, "act", by)
OpenCrate(r, by) == Ask(r, "act", by)
Wear(r, by) == Ask(r, "act", by)
Privacy(r, by) == Ask(r, "act", by)
Legion(r, by) == Ask(r, "act", by)
StaffCommand(r, by) == Ask(r, "staff", by)

(* sendCommandWithResponse: on Redis it hears the channel before it         *)
(* publishes; when the subscription or the publication fails, it throws,    *)
(* also when only the reply to the publication was lost.                    *)
sendCommand(r) ==
    /\ call[r].at = "listen"
    /\ At(r, "waiting")
    /\ commands' = commands \cup {r}
    /\ UNCHANGED <<bus, heard, table, ran, audit>>
SendFails(r) ==
    /\ call[r].at = "listen" /\ At(r, "noanswer")
    /\ commands' \in {commands, commands \cup {r}}
    /\ UNCHANGED <<bus, heard, table, ran, audit>>

(* The plugin runs a command and publishes the response under its id.       *)
Listening == {w \in Calls : call[w].at = "waiting"}
Response(r, ok) == [id |-> r, ok |-> ok]
PluginRuns(r, ok) ==
    /\ r \in commands /\ commands' = commands \ {r}
    /\ ran' = ran \cup {Response(r, ok)}
    /\ IF bus = "mysql"
       THEN table' = table \cup {Response(r, ok)} /\ UNCHANGED heard
       ELSE /\ heard' = [w \in Calls |-> IF w \in Listening THEN heard[w] \cup {Response(r, ok)}
                                         ELSE heard[w]]
            /\ UNCHANGED table
    /\ UNCHANGED <<bus, call, audit>>
(* Nobody was subscribed when it was published.                             *)
CommandLost(r) ==
    /\ bus = "redis" /\ r \in commands /\ commands' = commands \ {r}
    /\ UNCHANGED <<bus, call, heard, table, ran, audit>>

-----------------------------------------------------------------------------
(* Mutant: the first response on the channel is taken for the request's.    *)
AnyResponse(w, m) == TRUE

(* The predicate on request_id, and the WHERE of the poll.                  *)
Matches(w, m) == m.id = w

(* resolveAuditActor, after the wait: the actor is resolved once more, and  *)
(* a session whose role can no longer be read is attributed to the system.  *)
resolveAuditActor(w) == {call[w].by, System}

(* The answer, by the response: the staff's audit row is written before it, *)
(* and a row that cannot be written is swallowed.                           *)
recordAction(w) ==
    \/ \E actor \in resolveAuditActor(w) : audit' = audit \cup {[id |-> w, actor |-> actor]}
    \/ UNCHANGED audit
AnswerBy(w, m) ==
    /\ At(w, IF m.ok THEN "ok" ELSE "refused")
    /\ IF m.ok /\ call[w].kind = "staff" THEN recordAction(w) ELSE UNCHANGED audit
Hear(w, m) ==
    /\ call[w].at = "waiting" /\ m \in heard[w]
    /\ IF Matches(w, m) THEN AnswerBy(w, m) /\ heard' = [heard EXCEPT ![w] = {}]
       ELSE heard' = [heard EXCEPT ![w] = @ \ {m}] /\ UNCHANGED <<call, audit>>
    /\ UNCHANGED <<bus, commands, table, ran>>
(* Selects a row and deletes it by its id.                                  *)
Poll(w, m) ==
    /\ call[w].at = "waiting" /\ m \in table /\ Matches(w, m)
    /\ AnswerBy(w, m)
    /\ table' = table \ {m}
    /\ UNCHANGED <<bus, commands, heard, ran>>

(* timeoutMs, the deadline of one read, or a failing poll: 501 or 504; the  *)
(* command stays where it is and a response to it will find nobody.         *)
TimesOut(w) ==
    /\ call[w].at = "waiting" /\ At(w, "noanswer")
    /\ heard' = [heard EXCEPT ![w] = {}]
    /\ UNCHANGED <<bus, commands, table, ran, audit>>

Next ==
    \E r \in Calls :
        \/ sendCommand(r) \/ SendFails(r) \/ CommandLost(r) \/ TimesOut(r)
        \/ \E by \in Actors :
              \/ Sell(r, by) \/ OpenCrate(r, by) \/ Wear(r, by)
              \/ Privacy(r, by) \/ Legion(r, by) \/ StaffCommand(r, by)
        \/ \E ok \in BOOLEAN : PluginRuns(r, ok)
        \/ \E m \in heard[r] : Hear(r, m)
        \/ \E m \in table : Poll(r, m)
Spec == Init /\ [][Next]_cmdVars

-----------------------------------------------------------------------------
CommandTypeOK ==
    /\ bus \in {"redis", "mysql"}
    /\ commands \subseteq Calls
    /\ \A r \in Calls : call[r].at \in {"idle", "listen", "waiting"} \cup Answered
    /\ \A m \in table \cup ran : m.id \in Calls /\ m.ok \in BOOLEAN

(* Whatever is told is what happened: a request is answered by the outcome  *)
(* of its own command, a refusal means that it did nothing, a command is    *)
(* run once, and an audit row names a command that the plugin accepted, one *)
(* row for a command, and no actor but the one who gave it or the system.   *)
AnswersAreOwn ==
    /\ \A r \in Calls : call[r].at = "ok" => Response(r, TRUE) \in ran
    /\ \A r \in Calls : call[r].at = "refused" => Response(r, FALSE) \in ran
    /\ \A m, n \in ran : m.id = n.id => m = n
    /\ \A a \in audit : Response(a.id, TRUE) \in ran /\ a.actor \in {call[a.id].by, System}
    /\ \A a, b \in audit : a.id = b.id => a = b

(* What the header of the staff's routes says, "every successful dispatch   *)
(* writes an attributed audit row": a command of the staff that was run and *)
(* whose request is over has its row.                                       *)
DispatchIsAudited ==
    \A r \in Calls :
        call[r].kind = "staff" /\ call[r].at \in Answered /\ Response(r, TRUE) \in ran
            => [id |-> r, actor |-> call[r].by] \in audit
=============================================================================
