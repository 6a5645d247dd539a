------------------------------- MODULE Gates -------------------------------
(***************************************************************************)
(* Who a request is: attachUser (src/src/middleware/auth.ts), the          *)
(* confinement of client tokens, the origin guard and the gates of a route *)
(* (src/src/middleware/gates.ts), with the API keys of                     *)
(* src/src/auth/apiKeys.ts.  Every read of a database may fail on its own. *)
(* A request carries any combination of credentials; verifying a token, a  *)
(* hash or the shape of a uuid is abstracted to its outcome.               *)
(***************************************************************************)
EXTENDS FiniteSets

CONSTANTS
    Players,   \* linked accounts
    Asserted,  \* what X-Mc-Uuid may say: players and "garbage"
    Staff      \* the players whose LuckPerms group has a staff role

VARIABLES
    keys,      \* api_keys: the owners of the keys that are active
    req,       \* the credentials of the request, or NoRequest
    step,      \* "idle", "allowlist", "csrf", "gate" or "answered"
    user,      \* what attachUser attached: who, and by which method
    revoked,   \* (history) the session cookie of the request was revoked
    answer     \* status, the gate that gave it, the uuid and the role it set

gateVars == <<keys, req, step, user, revoked, answer>>

None == "none"
Gates == {"requireBot", "requireSelfOrDelegated", "requireMcIdentity",
          "requireScope", "requireStaffRole", "requireLinked", "requireAuth"}
Nobody == [who |-> None, method |-> None]
User(who, method) == [who |-> who, method |-> method]
NoAnswer == [status |-> 0, gate |-> None, uuid |-> None, role |-> None, key |-> None]
Answer(status, g, uuid, role) ==
    [status |-> status, gate |-> g, uuid |-> uuid, role |-> role, key |-> None]

(* cookie: a session JWT of a player; discord sessions find theirs by a     *)
(* lookup.  bearer: a client token or an API key of a player.  bot: the     *)
(* shared or the service token in X-Bot-Token.  pair: a bound X-Staff-Token *)
(* and X-Staff-Actor.  role: an X-Staff-Role.  route: one that a client     *)
(* token may reach, another one, or a mutation from a foreign origin.       *)
Credentials ==
    [cookie : {Nobody} \cup {User(p, m) : p \in Players, m \in {"discord", "mc_code"}},
     bearer : {Nobody} \cup {User(p, m) : p \in Players, m \in {"mc_client", "api_key"}},
     bot : {None, "bot", "service"}, asserts : Asserted \cup {None},
     pair : BOOLEAN, role : BOOLEAN, route : {"listed", "other", "foreign"},
     gate : Gates]
NoRequest == [gate |-> None]

Init ==
    /\ keys = {} /\ req = NoRequest /\ step = "idle"
    /\ user = Nobody /\ revoked = FALSE /\ answer = NoAnswer

-----------------------------------------------------------------------------
createKey(p) ==
    /\ step = "idle" /\ p \notin keys /\ keys' = keys \cup {p}
    /\ UNCHANGED <<req, step, user, revoked, answer>>
revokeKey(p) ==
    /\ p \in keys /\ keys' = keys \ {p}
    /\ UNCHANGED <<req, step, user, revoked, answer>>

(* Mutant: a revoked cookie lets the bearer of the request in.              *)
BearerAnyway(c, dead) == c.bearer

(* clientBearerToken: only where no session was presented and killed.       *)
bearerOf(c, dead) == IF dead THEN Nobody ELSE c.bearer

(* attachUser.  isSessionRevoked fails open; a discord session whose uuid   *)
(* cannot be looked up counts as unlinked.                                  *)
attachUser(c, dead) ==
    /\ dead => c.cookie # Nobody
    /\ req' = c /\ revoked' = dead /\ step' = "allowlist"
    /\ \/ c.cookie # Nobody /\ ~dead /\ user' = c.cookie
       \/ c.cookie.method = "discord" /\ ~dead /\ user' = User(None, "discord")
       \/ /\ c.cookie = Nobody \/ dead
          /\ user' = IF bearerOf(c, dead).method = "mc_client" THEN bearerOf(c, dead) ELSE Nobody
    /\ UNCHANGED <<keys, answer>>

Refuse(status) ==
    answer' = Answer(status, req.gate, None, None) /\ step' = "answered"
LetIn(uuid, role) ==
    answer' = Answer(200, req.gate, uuid, role) /\ step' = "answered"

(* clientTokenAllowlist: exact routes, before any gate.                     *)
clientTokenAllowlist ==
    /\ step = "allowlist"
    /\ IF user.method = "mc_client" /\ req.route # "listed" THEN Refuse(403)
       ELSE step' = "csrf" /\ UNCHANGED answer
    /\ UNCHANGED <<keys, req, user, revoked>>

(* sessionCsrfGuard: a mutation in a user's name, from a foreign origin.    *)
sessionCsrfGuard ==
    /\ step = "csrf"
    /\ IF user # Nobody /\ req.route = "foreign" THEN Refuse(403)
       ELSE step' = "gate" /\ UNCHANGED answer
    /\ UNCHANGED <<keys, req, user, revoked>>

-----------------------------------------------------------------------------
(* resolvePrincipal: an API key, then the session, then the machine tokens; *)
(* a key that cannot be looked up, or is not active, counts for nothing.    *)
Principal(kind, who) == [kind |-> kind, who |-> who]
AfterKey ==
    IF user # Nobody THEN Principal("session", user.who)
    ELSE IF req.bot = "service" /\ req.asserts # None THEN Principal("delegated", req.asserts)
    ELSE IF req.bot # None THEN Principal("bot", None)
    ELSE Principal("anonymous", None)
authenticateApiKey ==
    IF req.bearer.method = "api_key" /\ req.bearer.who \in keys
    THEN {Principal("api_key", req.bearer.who)} ELSE {}
resolvePrincipal == authenticateApiKey \cup {AfterKey}

(* The gates of a player's own data.                                        *)
asDelegated(p) == IF p.who \in Players THEN LetIn(p.who, None) ELSE Refuse(400)
requireSelfOrDelegated(p) ==
    IF p.kind = "delegated" THEN asDelegated(p)
    ELSE IF p.kind \in {"session", "api_key"} /\ p.who # None THEN LetIn(p.who, None)
    ELSE Refuse(401)
requireMcIdentity(p) ==
    IF p.kind = "session" THEN IF p.who = None THEN Refuse(403) ELSE LetIn(p.who, None)
    ELSE IF p.kind = "delegated" THEN asDelegated(p)
    ELSE Refuse(IF p.kind = "bot" /\ req.asserts # None THEN 403 ELSE 401)
requireScope(p) ==
    IF p.kind = "api_key" THEN \/ LetIn(None, None)
                               \/ Refuse(403)
    ELSE IF p.kind = "anonymous" THEN Refuse(401) ELSE LetIn(None, None)
requireAuth == IF user = Nobody THEN Refuse(401) ELSE LetIn(user.who, None)
requireLinked ==
    IF user = Nobody THEN Refuse(401)
    ELSE IF user.who = None THEN Refuse(403) ELSE LetIn(user.who, None)
requireBot == IF req.bot = None THEN Refuse(401) ELSE LetIn(None, None)

(* botOrServiceTokenValid, staffTokenPairMatches.                           *)
machine == req.bot # None
staffPair == req.pair

(* Mutant: a client token counts as a session for the staff.                *)
AnyUserAuthenticates == user # Nobody \/ machine

(* resolveStaffActor.                                                       *)
authenticated == (user # Nobody /\ user.method # "mc_client") \/ machine

linkedStaffRole(p) == IF p \in Staff THEN {"staff", None} ELSE {None}
resolveStaffActor ==
    IF staffPair THEN {"staff"}
    ELSE IF authenticated /\ req.role THEN {"staff"}
    ELSE IF user # Nobody
         THEN IF user.method = "mc_client" THEN {None} ELSE linkedStaffRole(user.who)
    ELSE IF machine THEN {"staff", None}
    ELSE {None}
requireStaffRole ==
    IF user = Nobody /\ ~machine /\ ~staffPair THEN Refuse(401)
    ELSE \E role \in resolveStaffActor :
            IF role = None THEN Refuse(403) ELSE LetIn(None, role)

Gate ==
    /\ step = "gate"
    /\ \E p \in resolvePrincipal :
          CASE req.gate = "requireSelfOrDelegated" -> requireSelfOrDelegated(p)
            [] req.gate = "requireMcIdentity" -> requireMcIdentity(p)
            [] req.gate = "requireScope" -> requireScope(p)
            [] req.gate = "requireAuth" -> requireAuth
            [] req.gate = "requireLinked" -> requireLinked
            [] req.gate = "requireBot" -> requireBot
            [] req.gate = "requireStaffRole" -> requireStaffRole
    /\ UNCHANGED <<keys, req, user, revoked>>

Done ==
    /\ step = "answered"
    /\ req' = NoRequest /\ step' = "idle" /\ user' = Nobody
    /\ revoked' = FALSE /\ answer' = NoAnswer
    /\ UNCHANGED keys

Next ==
    \/ \E p \in Players : createKey(p) \/ revokeKey(p)
    \/ step = "idle" /\ \E c \in Credentials, dead \in BOOLEAN : attachUser(c, dead)
    \/ sessionCsrfGuard \/ clientTokenAllowlist \/ Gate \/ Done

Spec == Init /\ [][Next]_gateVars

-----------------------------------------------------------------------------
GateTypeOK ==
    /\ keys \subseteq Players /\ revoked \in BOOLEAN
    /\ step \in {"idle", "csrf", "allowlist", "gate", "answered"}
    /\ user.who \in Players \cup {None}
    /\ answer.status \in {0, 200, 400, 401, 403}

(* Whatever credentials a request combines, the player that a gate lets it  *)
(* be is one it proved: by its own live session or client token, by a key,  *)
(* or because the service token asserts it; the killed session promotes no  *)
(* other token; and a client token alone is neither staff nor a machine.    *)
IdentityIsProven ==
    answer.status = 200 =>
      /\ answer.uuid # None =>
            \/ req.cookie.who = answer.uuid /\ ~revoked
            \/ req.bearer.who = answer.uuid
                  /\ (req.bearer.method = "mc_client" => ~revoked /\ req.cookie = Nobody)
            \/ req.bot = "service" /\ req.asserts = answer.uuid
      /\ answer.role # None =>
            \/ req.pair \/ req.bot # None
            \/ ~revoked /\ req.cookie # Nobody /\ (req.role \/ req.cookie.who \in Staff)
      /\ user.method = "mc_client" => req.route = "listed"
=============================================================================
