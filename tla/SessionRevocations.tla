------------------------- MODULE SessionRevocations -------------------------
(***************************************************************************)
(* Session tokens and the list that revokes them (auth/sessionRevocations  *)
(* and auth/jwt under src/src).                                            *)
(*                                                                         *)
(* A session token lives Lifetime from its iat and can only be stopped by  *)
(* a row of session_revocations, read on every request: one row per jti,   *)
(* one row per identity with a horizon below which every iat is rejected.  *)
(* Rows are written once (insert-or-ignore) and purged when they expire;   *)
(* the purge is a statement of its own, with the time its writer started.  *)
(*                                                                         *)
(* Time is abstract: Lifetime stands for the seven days of a token and of  *)
(* a row, Skew for the five seconds a horizon lies ahead.  A request writes*)
(* its row in the instant it starts; only its purge may lag.  A check that *)
(* cannot read the list lets the request through (by design) and changes   *)
(* nothing; it is not a step.                                              *)
(***************************************************************************)
EXTENDS Integers

CONSTANTS
    Tokens,      \* session tokens; each is minted at most once
    Identities,  \* Discord ids and Minecraft uuids
    Writers,     \* revocation requests that can be in progress at one time
    Lifetime,    \* JWT_EXPIRY_SECONDS and REVOCATION_TTL_MS
    Skew,        \* UUID_HORIZON_SKEW_MS
    MaxClock     \* bound: the time the model stops at

ASSUME SessionAssumption ==
    /\ Lifetime \in Nat \ {0} /\ MaxClock \in Nat
    /\ Skew \in Nat \ {0} /\ Skew < Lifetime

Never == -1

VARIABLES
    clock,
    token,     \* per token: when it was minted, for whom, and whether it has a jti
    jtiRow,    \* expiry of the row of each token's jti, or Never
    idRow,     \* horizon and expiry of the row of each identity
    purge,     \* the time with which each writer will purge, or Never
    loggedOut, \* tokens whose jti was revoked (history)
    forcedOut, \* tokens outstanding when a row for their identity was written (history)
    ordered    \* when all sessions of each identity were last revoked (history)

tokenVars   == <<clock, token>>
rowVars     == <<jtiRow, idRow>>
historyVars == <<loggedOut, forcedOut, ordered>>
vars == <<tokenVars, rowVars, purge, historyVars>>

Times == 0 .. MaxClock
NoRow == [before |-> Never, until |-> Never]
Unminted == [iat |-> Never, ids |-> {}, jti |-> FALSE]

TypeOK ==
    /\ clock \in Times
    /\ token \in [Tokens -> [iat : Times \cup {Never}, ids : SUBSET Identities, jti : BOOLEAN]]
    /\ jtiRow \in [Tokens -> 0 .. MaxClock + Lifetime \cup {Never}]
    /\ idRow \in [Identities -> [before : 0 .. MaxClock + Skew \cup {Never},
                                 until : 0 .. MaxClock + Lifetime \cup {Never}]]
    /\ purge \in [Writers -> Times \cup {Never}]
    /\ loggedOut \subseteq Tokens /\ forcedOut \subseteq Tokens
    /\ ordered \in [Identities -> Times \cup {Never}]

Init ==
    /\ clock = 0
    /\ token = [t \in Tokens |-> Unminted]
    /\ jtiRow = [t \in Tokens |-> Never]
    /\ idRow = [i \in Identities |-> NoRow]
    /\ purge = [w \in Writers |-> Never]
    /\ loggedOut = {}
    /\ forcedOut = {}
    /\ ordered = [i \in Identities |-> Never]

-----------------------------------------------------------------------------
(* verifyJwt: minted and younger than Lifetime.                             *)
Verifies(t) == token[t].iat # Never /\ clock < token[t].iat + Lifetime

(* Mutant: the horizon of an identity row is not compared.                  *)
IsRevokedAtAnyAge(t) ==
    \/ token[t].jti /\ jtiRow[t] > clock
    \/ \E i \in token[t].ids : idRow[i].until > clock

(* isSessionRevoked: expired rows are skipped, a jti row rejects its token, *)
(* an identity row rejects what was issued before its horizon.              *)
IsRevoked(t) ==
    \/ token[t].jti /\ jtiRow[t] > clock
    \/ \E i \in token[t].ids : idRow[i].until > clock /\ token[t].iat < idRow[i].before

(* attachUser gives a request that presents the token a user.               *)
Accepted(t) == Verifies(t) /\ ~IsRevoked(t)

(* signJwt; tokens from before the jti was introduced have none.            *)
Login(t) ==
    /\ token[t] = Unminted
    /\ \E ids \in SUBSET Identities \ {{}}, jti \in BOOLEAN :
          token' = [token EXCEPT ![t] = [iat |-> clock, ids |-> ids, jti |-> jti]]
    /\ UNCHANGED <<clock, rowVars, purge, historyVars>>

(* Mutants: a row that expires a lifetime late, and one that expires early. *)
RevokeJtiLong(w, t) ==
    /\ purge[w] = Never /\ token[t].jti
    /\ jtiRow' = IF jtiRow[t] = Never THEN [jtiRow EXCEPT ![t] = clock + 2 * Lifetime] ELSE jtiRow
    /\ loggedOut' = loggedOut \cup {t}
    /\ purge' = [purge EXCEPT ![w] = clock]
    /\ UNCHANGED <<tokenVars, idRow, forcedOut, ordered>>
RevokeJtiShort(w, t) ==
    /\ purge[w] = Never /\ token[t].jti
    /\ jtiRow' = IF jtiRow[t] = Never THEN [jtiRow EXCEPT ![t] = clock + Lifetime - 1] ELSE jtiRow
    /\ loggedOut' = loggedOut \cup {t}
    /\ purge' = [purge EXCEPT ![w] = clock]
    /\ UNCHANGED <<tokenVars, idRow, forcedOut, ordered>>

(* revokeSessionJti, by the logout of the token's own session (the token    *)
(* must verify) or by an admin (it need not): insert-or-ignore.             *)
RevokeJti(w, t) ==
    /\ purge[w] = Never
    /\ token[t].jti
    /\ jtiRow' = IF jtiRow[t] = Never THEN [jtiRow EXCEPT ![t] = clock + Lifetime] ELSE jtiRow
    /\ loggedOut' = loggedOut \cup {t}
    /\ purge' = [purge EXCEPT ![w] = clock]
    /\ UNCHANGED <<tokenVars, idRow, forcedOut, ordered>>

Outstanding(i) == {t \in Tokens : Verifies(t) /\ i \in token[t].ids}

(* revokeAllSessionsForIdentity: insert-or-ignore.                          *)
RevokeAll(w, i) ==
    /\ purge[w] = Never
    /\ IF idRow[i] = NoRow
       THEN /\ idRow' = [idRow EXCEPT ![i] = [before |-> clock + Skew, until |-> clock + Lifetime]]
            /\ forcedOut' = forcedOut \cup Outstanding(i)
       ELSE UNCHANGED <<idRow, forcedOut>>
    /\ ordered' = [ordered EXCEPT ![i] = clock]
    /\ purge' = [purge EXCEPT ![w] = clock]
    /\ UNCHANGED <<tokenVars, jtiRow, loggedOut>>

(* Mutant: rows that are about to expire are deleted too.                   *)
PurgeEager(w) ==
    /\ purge[w] # Never
    /\ jtiRow' = [t \in Tokens |-> IF jtiRow[t] <= purge[w] + 1 THEN Never ELSE jtiRow[t]]
    /\ idRow' = [i \in Identities |-> IF idRow[i].until <= purge[w] + 1 THEN NoRow ELSE idRow[i]]
    /\ purge' = [purge EXCEPT ![w] = Never]
    /\ UNCHANGED <<tokenVars, historyVars>>

(* purgeExpiredRevocations, with the writer's now; it may fail.             *)
Purge(w) ==
    /\ purge[w] # Never
    /\ jtiRow' = [t \in Tokens |-> IF jtiRow[t] <= purge[w] THEN Never ELSE jtiRow[t]]
    /\ idRow' = [i \in Identities |-> IF idRow[i].until <= purge[w] THEN NoRow ELSE idRow[i]]
    /\ purge' = [purge EXCEPT ![w] = Never]
    /\ UNCHANGED <<tokenVars, historyVars>>

PurgeFails(w) ==
    /\ purge[w] # Never
    /\ purge' = [purge EXCEPT ![w] = Never]
    /\ UNCHANGED <<tokenVars, rowVars, historyVars>>

Advance ==
    /\ clock < MaxClock
    /\ clock' = clock + 1
    /\ UNCHANGED <<token, rowVars, purge, historyVars>>

Next ==
    \/ \E t \in Tokens : Login(t)
    \/ \E w \in Writers, t \in Tokens : RevokeJti(w, t)
    \/ \E w \in Writers, i \in Identities : RevokeAll(w, i)
    \/ \E w \in Writers : Purge(w) \/ PurgeFails(w)
    \/ Advance

Spec == Init /\ [][Next]_vars

-----------------------------------------------------------------------------
(* A session that was logged out, or revoked by its jti, is never accepted  *)
(* again: purging its row does not bring it back.                           *)
LoggedOutStaysOut == \A t \in loggedOut : ~Accepted(t)

(* A session that was outstanding when a row for its identity was written   *)
(* is never accepted again, whatever is revoked and purged later.           *)
ForcedOutStaysOut == \A t \in forcedOut : ~Accepted(t)

(* A forced logout is no ban: a session minted after the last revocation of *)
(* its identities, past the skew, is accepted until it expires or is logged *)
(* out.                                                                     *)
LaterLoginWorks ==
    \A t \in Tokens \ loggedOut :
        (Verifies(t) /\ \A i \in token[t].ids : ordered[i] = Never \/ token[t].iat >= ordered[i] + Skew)
            => Accepted(t)

(* "Every session this identity held before the revoke is rejected on its   *)
(* next request", for every revoke.                                         *)
RevokeAllMeansAll ==
    \A t \in Tokens : (\E i \in token[t].ids : token[t].iat < ordered[i]) => ~Accepted(t)
=============================================================================
