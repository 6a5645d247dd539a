----------------------------- MODULE Referrals -----------------------------
(***************************************************************************)
(* Referrals and referral codes (src/src/api/routes.ts): a player names    *)
(* another as referred, owns a code and may change it, and redeems the     *)
(* code of somebody else once in a lifetime.  Every route is a chain of    *)
(* queries, and the chains of two requests interleave at each of them; the *)
(* unique indexes of migrate-tables.cjs arbitrate.  The plugin completes a *)
(* pending referral when the referred player reaches rank V, and pays on   *)
(* the answer of a redemption.                                             *)
(***************************************************************************)
EXTENDS Naturals, FiniteSets

CONSTANTS
    Players,   \* linked accounts
    Newcomers, \* the players whose name is ever given to be referred
    Owners,    \* the players that ever ask for a code
    Codes,     \* the codes that can be drawn or asked for
    Requests   \* concurrent requests

VARIABLES
    rank5,       \* the players at or above rank V, in the game database
    referrals,   \* the rows of referrals
    code,        \* referral_codes: the code of a player
    cooling,     \* the players whose custom code is younger than 30 days
    total,       \* referral_codes.total_redemptions
    redemptions, \* the rows of referral_redemptions, each of them paid by the plugin
    req          \* what each request is doing

refVars == <<rank5, referrals, code, cooling, total, redemptions, req>>

None == "none"
Idle == [kind |-> "idle", step |-> None, by |-> None, who |-> None, code |-> None]
Request(kind, step, by, who, k) == [kind |-> kind, step |-> step, by |-> by, who |-> who, code |-> k]

Init ==
    /\ rank5 = {} /\ referrals = {} /\ cooling = {}
    /\ code = [p \in Players |-> None]
    /\ total = [p \in Players |-> 0]
    /\ redemptions = {}
    /\ req = [r \in Requests |-> Idle]

Free(r) == req[r] = Idle
Go(r, step) == req' = [req EXCEPT ![r].step = step]
End(r) == req' = [req EXCEPT ![r] = Idle]
Rows == <<referrals, code, cooling, total, redemptions>>

-----------------------------------------------------------------------------
(* POST /referrals/create.  The name must resolve in the registry and be    *)
(* somebody else's.  The rank is read in the game database, else in the     *)
(* mirror, which lags and reads a missing row as rank 0, and the request is *)
(* refused when neither answers.                                            *)
Create(r, p, q) ==
    /\ Free(r) /\ p # q
    /\ req' = [req EXCEPT ![r] = Request("create", "rank", p, q, None)]
    /\ UNCHANGED <<rank5, Rows>>
CheckRank(r) ==
    /\ req[r].kind = "create" /\ req[r].step = "rank"
    /\ \/ Go(r, "referred")  \* below rank V, or at it and the mirror is behind
       \/ End(r)
    /\ UNCHANGED <<rank5, Rows>>
CheckReferred(r) ==
    /\ req[r].kind = "create" /\ req[r].step = "referred"
    /\ IF \E f \in referrals : f.referred = req[r].who THEN End(r) ELSE Go(r, "insert")
    /\ UNCHANGED <<rank5, Rows>>

Referral(p, q) == [referrer |-> p, referred |-> q, status |-> "pending"]

(* Mutant: the insert gives way only to the same pair of players.           *)
SamePair(p, q) == \E f \in referrals : f.referrer = p /\ f.referred = q

(* ON CONFLICT DO NOTHING, by the unique index on the referred player.      *)
Conflict(p, q) == \E f \in referrals : f.referred = q
InsertReferral(r) ==
    /\ req[r].kind = "create" /\ req[r].step = "insert"
    /\ referrals' = IF Conflict(req[r].by, req[r].who) THEN referrals
                    ELSE referrals \cup {Referral(req[r].by, req[r].who)}
    /\ End(r)
    /\ UNCHANGED <<rank5, code, cooling, total, redemptions>>

(* The plugin: a pending referral completes at the rank-up itself.          *)
RankUp(q) ==
    /\ q \notin rank5 /\ rank5' = rank5 \cup {q}
    /\ referrals' = {IF f.referred = q THEN [f EXCEPT !.status = "completed"] ELSE f : f \in referrals}
    /\ UNCHANGED <<code, cooling, total, redemptions, req>>

-----------------------------------------------------------------------------
(* GET /refcode/mine: the code there is, or a drawn one, inserted only if   *)
(* neither it nor the player has a row yet; a conflict draws again, ten     *)
(* times at most, and then fails.                                           *)
Taken(k) == \E p \in Players : code[p] = k
Mine(r, p) ==
    /\ Free(r) /\ code[p] = None
    /\ req' = [req EXCEPT ![r] = Request("mine", "draw", p, None, None)]
    /\ UNCHANGED <<rank5, Rows>>
Draw(r, k) ==
    /\ req[r].kind = "mine"
    /\ IF Taken(k) \/ code[req[r].by] # None THEN UNCHANGED <<code, req>>
       ELSE code' = [code EXCEPT ![req[r].by] = k] /\ End(r)
    /\ UNCHANGED <<rank5, referrals, cooling, total, redemptions>>
GiveUp(r) ==
    /\ req[r].kind = "mine" /\ code[req[r].by] # None /\ End(r)
    /\ UNCHANGED <<rank5, Rows>>

(* POST /refcode/custom: the cooldown, then whether the code is taken, then *)
(* an upsert on the player; a code taken meanwhile fails on its own index.  *)
Custom(r, p, k) ==
    /\ Free(r) /\ p \notin cooling
    /\ req' = [req EXCEPT ![r] = Request("custom", "taken", p, None, k)]
    /\ UNCHANGED <<rank5, Rows>>
CheckTaken(r) ==
    /\ req[r].kind = "custom" /\ req[r].step = "taken"
    /\ IF \E p \in Players \ {req[r].by} : code[p] = req[r].code THEN End(r) ELSE Go(r, "upsert")
    /\ UNCHANGED <<rank5, Rows>>
Upsert(r) ==
    /\ req[r].kind = "custom" /\ req[r].step = "upsert"
    /\ IF \E p \in Players \ {req[r].by} : code[p] = req[r].code
       THEN UNCHANGED <<code, cooling>>
       ELSE /\ code' = [code EXCEPT ![req[r].by] = req[r].code]
            /\ cooling' = cooling \cup {req[r].by}
    /\ End(r)
    /\ UNCHANGED <<rank5, referrals, total, redemptions>>
MonthPasses(p) ==
    /\ p \in cooling /\ cooling' = cooling \ {p}
    /\ UNCHANGED <<rank5, referrals, code, total, redemptions, req>>

-----------------------------------------------------------------------------
(* POST /refcode/redeem: the owner of the code, then one statement that     *)
(* inserts the redemption and, only if it did, counts it for whoever holds  *)
(* the code by then.  The answer names the owner that was read.             *)
Redeem(r, p, k) ==
    /\ Free(r)
    /\ \E o \in Players \ {p} :
          code[o] = k /\ req' = [req EXCEPT ![r] = Request("redeem", "insert", p, o, k)]
    /\ UNCHANGED <<rank5, Rows>>

(* ON CONFLICT (redeemer_uuid) DO NOTHING.                                  *)
Redeemed(p) == \E d \in redemptions : d.redeemer = p
InsertRedemption(r) ==
    LET p == req[r].by
        k == req[r].code IN
    /\ req[r].kind = "redeem"
    /\ IF Redeemed(p) THEN UNCHANGED <<redemptions, total>>
       ELSE /\ redemptions' = redemptions \cup
                  {[row |-> Cardinality(redemptions), redeemer |-> p, code |-> k, owner |-> req[r].who]}
            /\ total' = [o \in Players |-> IF code[o] = k THEN total[o] + 1 ELSE total[o]]
    /\ End(r)
    /\ UNCHANGED <<rank5, referrals, code, cooling>>

Next ==
    \/ \E r \in Requests :
          \/ CheckRank(r) \/ CheckReferred(r) \/ InsertReferral(r)
          \/ GiveUp(r) \/ CheckTaken(r) \/ Upsert(r) \/ InsertRedemption(r)
          \/ \E p \in Players : \E q \in Newcomers : Create(r, p, q)
          \/ \E p \in Owners : Mine(r, p)
          \/ \E k \in Codes : \/ Draw(r, k)
                              \/ \E p \in Owners : Custom(r, p, k)
                              \/ \E p \in Players : Redeem(r, p, k)
    \/ \E q \in Newcomers : RankUp(q)
    \/ \E p \in Players : MonthPasses(p)
Spec == Init /\ [][Next]_refVars

-----------------------------------------------------------------------------
RefTypeOK ==
    /\ rank5 \subseteq Players /\ cooling \subseteq Players
    /\ \A f \in referrals : f.referrer \in Players /\ f.status \in {"pending", "completed"}
    /\ code \in [Players -> Codes \cup {None}]
    /\ total \in [Players -> 0..Cardinality(Players)]
    /\ \A r \in Requests : req[r].kind \in {"idle", "create", "mine", "custom", "redeem"}

(* What the counters of the owners add up to, as a set of that size.        *)
Counted == UNION {{p} \X (1..total[p]) : p \in Players}

(* However requests interleave, nobody is referred twice, no code has two   *)
(* owners, nobody is paid for a second redemption or for redeeming a code   *)
(* of its own, and the counters of the owners show no more than was paid.   *)
ReferralsAreSingle ==
    /\ \A f, g \in referrals : f.referred = g.referred => f = g
    /\ \A p, q \in Players : code[p] = code[q] /\ code[p] # None => p = q
    /\ \A d, e \in redemptions : d.redeemer = e.redeemer => d = e
    /\ \A d \in redemptions : d.owner # d.redeemer
    /\ Cardinality(Counted) <= Cardinality(redemptions)

(* Whoever is paid as the owner of a redeemed code is the one it counts for.*)
PaidOwnerIsCounted ==
    \A p \in Players : total[p] = Cardinality({d \in redemptions : d.owner = p})
=============================================================================
