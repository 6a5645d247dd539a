---------------------------- MODULE AccountLinks ----------------------------
(***************************************************************************)
(* Single-use codes and what they prove (under src/src: api/routes.ts,     *)
(* api/clientAuth.ts, api/microsoftAuth.ts, db/redis.ts, db/busMysql.ts,   *)
(* db/pool.ts): the in-game link and login codes, the OAuth handoff code,  *)
(* the client's sign-in challenge and the Microsoft PKCE state, and the    *)
(* Discord link table that the codes lead to.                              *)
(*                                                                         *)
(* Every code is a row of one key-value table with an expiry.  A request   *)
(* spends it with one statement and reads it with the next, so several     *)
(* requests may hold the same code at a time.  What a code carries is a    *)
(* record of the identities its author had proved.                         *)
(***************************************************************************)
EXTENDS Integers, FiniteSets

CONSTANTS
    Players,   \* Minecraft uuids
    Discords,  \* Discord ids
    Codes,     \* codes ever issued (random, so never issued twice)
    Calls,     \* requests that can be in progress at one time
    MaxRewards \* bound: reward commands counted per player


None == "none"
Kinds == {"link", "login", "handoff", "challenge", "pkce"}

VARIABLES
    code,    \* the row of each code: what it is for, what it carries, its state
    links,   \* discord_links: the Discord id of each player, or None
    cache,   \* response cache: the player of each Discord id, or None
    call,    \* each request in progress
    used,    \* how often each code was handed out (history)
    vouched, \* <<player, discord>> pairs that a spent link code stood for (history)
    rewards  \* CONFIRM_DISCORD_LINK commands sent per player (history)

codeVars == <<code, used>>
linkVars == <<links, cache>>
vars == <<codeVars, linkVars, call, vouched, rewards>>

Unissued == [kind |-> None, player |-> None, discord |-> None, state |-> "unissued"]
Idle == [pc |-> "idle", code |-> None, kind |-> None, player |-> None, discord |-> None]
MaybePlayer  == Players \cup {None}
MaybeDiscord == Discords \cup {None}

TypeOK ==
    /\ code \in [Codes -> [kind : Kinds \cup {None}, player : MaybePlayer,
                           discord : MaybeDiscord, state : {"unissued", "live", "spent"}]]
    /\ links \in [Players -> MaybeDiscord]
    /\ cache \in [Discords -> MaybePlayer]
    /\ call \in [Calls -> [pc : {"idle", "read", "guard", "upsert", "reward", "lookup"},
                           code : Codes \cup {None}, kind : Kinds \cup {None},
                           player : MaybePlayer, discord : MaybeDiscord]]
    /\ used \in [Codes -> Nat]
    /\ vouched \subseteq Players \X Discords
    /\ rewards \in [Players -> 0 .. MaxRewards]

Init ==
    /\ code = [k \in Codes |-> Unissued]
    /\ links = [p \in Players |-> None]
    /\ cache = [d \in Discords |-> None]
    /\ call = [c \in Calls |-> Idle]
    /\ used = [k \in Codes |-> 0]
    /\ vouched = {}
    /\ rewards = [p \in Players |-> 0]

Set(c, r) == call' = [call EXCEPT ![c] = r]
End(c) == Set(c, Idle)

-----------------------------------------------------------------------------
(* Codes are written by the plugin (login codes and in-game link codes,     *)
(* which know the player, sometimes the Discord id too), by /link/initiate  *)
(* (which knows the Discord id), by the OAuth callback, by the client's     *)
(* challenge route and by /auth/ms/start.                                   *)
Issue(k, kind, p, d) ==
    /\ code[k] = Unissued
    /\ code' = [code EXCEPT ![k] = [kind |-> kind, player |-> p, discord |-> d, state |-> "live"]]
    /\ UNCHANGED <<used, linkVars, call, vouched, rewards>>

PluginIssues(k) ==
    \E p \in Players : \/ Issue(k, "login", p, None)
                       \/ \E d \in MaybeDiscord : Issue(k, "link", p, d)
LinkInitiate(k) == \E d \in Discords : Issue(k, "link", None, d)
OAuthCallback(k) == \E d \in Discords : Issue(k, "handoff", None, d)
ClientChallenge(k) == Issue(k, "challenge", None, None)
MsStart(k) == Issue(k, "pkce", None, None)

(* A code that was not spent in time is as good as spent.                   *)
Expire(k) ==
    /\ code[k].state = "live"
    /\ code' = [code EXCEPT ![k].state = "spent"]
    /\ UNCHANGED <<used, linkVars, call, vouched, rewards>>

(* Mutant: the value is read before the row is claimed (GET, then DEL).     *)
ClaimLate(c, k) ==
    /\ call[c] = Idle /\ code[k].state = "live"
    /\ Set(c, [Idle EXCEPT !.pc = "read", !.code = k, !.kind = code[k].kind])
    /\ UNCHANGED <<codeVars, linkVars, vouched, rewards>>

(* busKvConsume, first statement: the conditional update picks one request. *)
(* A code that is not live answers 404, 401 or a redirect and does nothing. *)
Claim(c, k) ==
    /\ call[c] = Idle /\ code[k].state = "live"
    /\ code' = [code EXCEPT ![k].state = "spent"]
    /\ Set(c, [Idle EXCEPT !.pc = "read", !.code = k, !.kind = code[k].kind])
    /\ UNCHANGED <<used, linkVars, vouched, rewards>>

(* Mutant: the caller's Discord id goes before the one the code is bound to.*)
HolderOfCaller(k, body) == IF body = None THEN code[k].discord ELSE body

(* /link/confirm: the Discord id the code is bound to, else the caller's; a *)
(* caller that names another one than the code's gets nothing (403).        *)
HolderOf(k, body) ==
    IF code[k].discord = None THEN body
    ELSE IF body \in {None, code[k].discord} THEN code[k].discord
    ELSE None

(* /link/confirm after the second statement: a code without a player, no    *)
(* Discord id at all, or one that is not the code's, is refused (404, 400,  *)
(* 403) with the code spent.                                                *)
ConfirmTakes(c, k) ==
    /\ code[k].kind = "link"
    /\ \E body \in MaybeDiscord :
          LET p == code[k].player
              d == HolderOf(k, body)
              accepted == p # None /\ d # None
          IN  /\ Set(c, IF accepted
                        THEN [call[c] EXCEPT !.pc = "guard", !.player = p, !.discord = d]
                        ELSE Idle)
              /\ vouched' = IF accepted
                            THEN vouched \cup {<<p, IF code[k].discord # None THEN code[k].discord ELSE d>>}
                            ELSE vouched

(* /auth/exchange ends with the identity of the handoff; a web code knows   *)
(* its player; a challenge comes to one when Mojang confirms the join, a    *)
(* PKCE state when the Microsoft, Xbox and Minecraft chain ends in one.     *)
ExchangeTakes(c, k) == code[k].kind = "handoff" /\ End(c)
WebcodeTakes(c, k) ==
    /\ code[k].kind = "login"
    /\ Set(c, [call[c] EXCEPT !.pc = "lookup", !.player = code[k].player])
VerifyTakes(c, k) ==
    /\ code[k].kind = "challenge"
    /\ End(c) \/ \E p \in Players : Set(c, [call[c] EXCEPT !.pc = "lookup", !.player = p])
MsCallbackTakes(c, k) ==
    /\ code[k].kind = "pkce"
    /\ End(c) \/ \E p \in Players : Set(c, [call[c] EXCEPT !.pc = "lookup", !.player = p])

(* busKvConsume, second statement, and what the route makes of the record.  *)
Take(c) ==
    /\ call[c].pc = "read"
    /\ used' = [used EXCEPT ![call[c].code] = @ + 1]
    /\ LET k == call[c].code
       IN  \/ ConfirmTakes(c, k)
           \/ /\ UNCHANGED vouched
              /\ \/ ExchangeTakes(c, k) \/ WebcodeTakes(c, k)
                 \/ VerifyTakes(c, k) \/ MsCallbackTakes(c, k)
    /\ code' = [code EXCEPT ![call[c].code].state = "spent"]
    /\ UNCHANGED <<linkVars, rewards>>

(* getDiscordIdByUuid for a proven player; a failed read makes an unlinked  *)
(* session.                                                                 *)
Enriched(c) == {links[call[c].player], None}

(* The session: a cookie or a client token, which no later step of this     *)
(* module reads, or for Microsoft a handoff code for the frontend.          *)
SignIn(c) ==
    /\ call[c].pc = "lookup" /\ call[c].kind # "pkce"
    /\ End(c)
    /\ UNCHANGED <<codeVars, linkVars, vouched, rewards>>

MsHandoff(c, k) ==
    /\ call[c].pc = "lookup" /\ call[c].kind = "pkce" /\ code[k] = Unissued
    /\ \E d \in Enriched(c) :
          code' = [code EXCEPT ![k] = [kind |-> "handoff", player |-> call[c].player,
                                       discord |-> d, state |-> "live"]]
    /\ End(c)
    /\ UNCHANGED <<used, linkVars, vouched, rewards>>

(* The hijack guard; a read that fails refuses the link (503).              *)
Guard(c) ==
    /\ call[c].pc = "guard"
    /\ \/ /\ links[call[c].player] \in {None, call[c].discord}
          /\ Set(c, [call[c] EXCEPT !.pc = "upsert"])
       \/ End(c)
    /\ UNCHANGED <<codeVars, linkVars, vouched, rewards>>

(* Best-effort cache calls are cut off with the request: they may be lost.  *)
CacheWrite(d, v) == cache' \in {cache, [cache EXCEPT ![d] = v]}

(* upsertDiscordLink: inserted-or-updated decides about the reward.         *)
Upsert(c) ==
    /\ call[c].pc = "upsert"
    /\ \/ /\ links' = [links EXCEPT ![call[c].player] = call[c].discord]
          /\ CacheWrite(call[c].discord, call[c].player)
          /\ Set(c, IF links[call[c].player] = None THEN [call[c] EXCEPT !.pc = "reward"] ELSE Idle)
       \/ UNCHANGED linkVars /\ End(c)
    /\ UNCHANGED <<codeVars, vouched, rewards>>

(* CONFIRM_DISCORD_LINK: sent once, whatever comes back.                    *)
Reward(c) ==
    /\ call[c].pc = "reward" /\ rewards[call[c].player] < MaxRewards
    /\ rewards' = [rewards EXCEPT ![call[c].player] = @ + 1]
    /\ End(c)
    /\ UNCHANGED <<codeVars, linkVars, vouched>>

(* A request that ends at an await, or whose reward command is not queued.  *)
CallDies(c) == call[c] # Idle /\ End(c) /\ UNCHANGED <<codeVars, linkVars, vouched, rewards>>

(* deleteDiscordLinkByUuid and ...ByDiscordId: the row goes, then its cached*)
(* twin, if that call gets through.                                         *)
Unlink(p) ==
    /\ links[p] # None
    /\ links' = [links EXCEPT ![p] = None]
    /\ CacheWrite(links[p], None)
    /\ UNCHANGED <<codeVars, call, vouched, rewards>>

UnlinkDiscord(d) ==
    /\ links' = [p \in Players |-> IF links[p] = d THEN None ELSE links[p]]
    /\ CacheWrite(d, None)
    /\ UNCHANGED <<codeVars, call, vouched, rewards>>

(* getUuidByDiscordId for every request of a Discord session: the table's   *)
(* answer is cached; without the table the cached one is used.              *)
Resolve(d) ==
    /\ \E p \in Players : links[p] = d /\ CacheWrite(d, p)
    /\ UNCHANGED <<links, codeVars, call, vouched, rewards>>

Next ==
    \/ \E k \in Codes : \/ PluginIssues(k) \/ LinkInitiate(k) \/ OAuthCallback(k)
                        \/ ClientChallenge(k) \/ MsStart(k) \/ Expire(k)
    \/ \E c \in Calls, k \in Codes : Claim(c, k) \/ MsHandoff(c, k)
    \/ \E c \in Calls : Take(c) \/ SignIn(c) \/ Guard(c) \/ Upsert(c) \/ Reward(c) \/ CallDies(c)
    \/ \E p \in Players : Unlink(p)
    \/ \E d \in Discords : UnlinkDiscord(d) \/ Resolve(d)

Spec == Init /\ [][Next]_vars

-----------------------------------------------------------------------------
(* A code is handed to one request, however many present it at one time     *)
(* (B-52: two sessions must not walk out of one code).                      *)
CodeGivesOnce == \A k \in Codes : used[k] <= 1

(* A link, and every answer the cache can give for a Discord id, was proved *)
(* by a code of that player: bound to that Discord id if the code was bound *)
(* to one.                                                                  *)
LinkIsProven ==
    /\ \A p \in Players : links[p] # None => <<p, links[p]>> \in vouched
    /\ \A d \in Discords : cache[d] # None => <<cache[d], d>> \in vouched

(* "Re-links ... never re-trigger the reward from this route": one reward   *)
(* command per player.                                                      *)
RewardOnce == \A p \in Players : rewards[p] <= 1
=============================================================================
