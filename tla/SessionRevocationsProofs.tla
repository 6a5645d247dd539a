---------------------- MODULE SessionRevocationsProofs ----------------------
(***************************************************************************)
(* Proofs about SessionRevocations, for any number of tokens, identities   *)
(* and revocation requests, any lifetime and any skew below it.            *)
(***************************************************************************)
EXTENDS SessionRevocations, TLAPS

LEMMA TypeInit == Init => TypeOK
BY SessionAssumption DEF Init, TypeOK, Times, Unminted, NoRow, Never

LEMMA TypeStep == TypeOK /\ [Next]_vars => TypeOK'
<1> SUFFICES ASSUME TypeOK, [Next]_vars
             PROVE  TypeOK'
  OBVIOUS
<1> USE SessionAssumption DEF TypeOK, Times, Never, tokenVars, rowVars, historyVars
<1>1. ASSUME NEW t \in Tokens, Login(t)
      PROVE  TypeOK'
  BY <1>1 DEF Login
<1>2. ASSUME NEW w \in Writers, NEW t \in Tokens, RevokeJti(w, t)
      PROVE  TypeOK'
  BY <1>2 DEF RevokeJti
<1>3. ASSUME NEW w \in Writers, NEW i \in Identities, RevokeAll(w, i)
      PROVE  TypeOK'
  <2>1. forcedOut' \subseteq Tokens
    BY <1>3 DEF RevokeAll, Outstanding
  <2>2. idRow' \in [Identities -> [before : 0 .. MaxClock + Skew \cup {Never},
                                   until : 0 .. MaxClock + Lifetime \cup {Never}]]
    BY <1>3, SMTT(30) DEF RevokeAll
  <2>. QED  BY <1>3, <2>1, <2>2 DEF RevokeAll
<1>4. ASSUME NEW w \in Writers, Purge(w)
      PROVE  TypeOK'
  BY <1>4 DEF Purge, NoRow
<1>5. ASSUME NEW w \in Writers, PurgeFails(w)
      PROVE  TypeOK'
  BY <1>5 DEF PurgeFails
<1>6. CASE Advance
  BY <1>6 DEF Advance
<1>7. CASE UNCHANGED vars
  BY <1>7 DEF vars
<1>. QED  BY <1>1, <1>2, <1>3, <1>4, <1>5, <1>6, <1>7 DEF Next

(* Tokens, rows, pending purges and the histories keep their types, however *)
(* revocations and purges overlap.                                          *)
THEOREM TypeCorrect == Spec => []TypeOK
BY TypeInit, TypeStep, PTL DEF Spec

-----------------------------------------------------------------------------
(* What the three properties rest on.  A purge uses a time that has passed; *)
(* a row of a jti outlives its token, so that only rows whose token has     *)
(* expired are purged; and so does a row of an identity for each of the     *)
(* sessions it forced out, which were issued before its horizon.            *)
Expired(t) == clock >= token[t].iat + Lifetime

TimesHavePassed ==
    /\ \A w \in Writers : purge[w] <= clock
    /\ \A t \in Tokens : token[t].iat <= clock
    /\ \A i \in Identities : ordered[i] <= clock

JtiWhenMinted == \A t \in Tokens : token[t].jti => token[t].iat # Never

JtiRowOutlives ==
    \A t \in Tokens : jtiRow[t] # Never =>
        /\ t \in loggedOut
        /\ jtiRow[t] >= token[t].iat + Lifetime

LoggedOutHasRow ==
    \A t \in loggedOut :
        /\ token[t].iat # Never /\ token[t].jti
        /\ jtiRow[t] # Never \/ Expired(t)

Stops(i, t) ==
    /\ idRow[i] # NoRow
    /\ token[t].iat < idRow[i].before
    /\ idRow[i].until >= token[t].iat + Lifetime

ForcedOutHasRow ==
    \A t \in forcedOut :
        /\ token[t].iat # Never
        /\ (\E i \in token[t].ids : Stops(i, t)) \/ Expired(t)

HorizonWasOrdered ==
    \A i \in Identities : idRow[i].until # Never =>
        ordered[i] # Never /\ idRow[i].before <= ordered[i] + Skew

RowInv ==
    /\ TypeOK /\ TimesHavePassed /\ JtiWhenMinted /\ JtiRowOutlives /\ LoggedOutHasRow
    /\ ForcedOutHasRow /\ HorizonWasOrdered

LEMMA RowInit == Init => RowInv
<1> SUFFICES ASSUME Init
             PROVE  RowInv
  OBVIOUS
<1>. QED
  BY TypeInit, SessionAssumption
     DEF Init, RowInv, TimesHavePassed, JtiWhenMinted, JtiRowOutlives, LoggedOutHasRow, ForcedOutHasRow,
         HorizonWasOrdered, Unminted, NoRow, Never

(* A step that touches neither tokens nor rows nor histories, and lets time *)
(* run forwards, keeps what is known of the rows.                           *)
LEMMA RowFrame ==
    ASSUME RowInv, TypeOK', TimesHavePassed', clock' >= clock,
           UNCHANGED <<token, rowVars, historyVars>>
    PROVE  RowInv'
<1> USE SessionAssumption DEF RowInv, TypeOK, Times, Never, rowVars, historyVars
<1>1. \A t \in Tokens : token[t].iat # Never /\ Expired(t) => Expired(t)'
  BY DEF Expired
<1>2. JtiWhenMinted' /\ JtiRowOutlives' /\ HorizonWasOrdered'
  BY DEF JtiWhenMinted, JtiRowOutlives, HorizonWasOrdered
<1>3. LoggedOutHasRow'
  BY <1>1 DEF LoggedOutHasRow
<1>4. ForcedOutHasRow'
  BY <1>1 DEF ForcedOutHasRow, Stops
<1>. QED  BY <1>2, <1>3, <1>4

LEMMA LoginKeepsRows ==
    ASSUME RowInv, TypeOK', NEW t \in Tokens, Login(t)
    PROVE  RowInv'
<1> USE SessionAssumption DEF RowInv, TypeOK, Times, Never, rowVars, historyVars
<1>1. PICK ids \in SUBSET Identities, jti \in BOOLEAN :
        token' = [token EXCEPT ![t] = [iat |-> clock, ids |-> ids, jti |-> jti]]
  BY DEF Login
<1>2. /\ token[t].iat = Never /\ t \notin loggedOut /\ t \notin forcedOut
      /\ jtiRow[t] = Never
  BY DEF Login, Unminted, LoggedOutHasRow, ForcedOutHasRow, JtiRowOutlives
<1>3. /\ token'[t].iat = clock
      /\ \A u \in Tokens \ {t} : token'[u] = token[u]
      /\ UNCHANGED <<clock, jtiRow, idRow, purge, loggedOut, forcedOut, ordered>>
  BY <1>1 DEF Login
<1>4. TimesHavePassed'
  BY <1>3 DEF TimesHavePassed
<1>8. JtiWhenMinted' /\ HorizonWasOrdered'
  BY <1>3 DEF JtiWhenMinted, HorizonWasOrdered
<1>5. JtiRowOutlives'
  BY <1>2, <1>3 DEF JtiRowOutlives
<1>6. LoggedOutHasRow'
  BY <1>2, <1>3 DEF LoggedOutHasRow, Expired
<1>7. ForcedOutHasRow'
  BY <1>2, <1>3 DEF ForcedOutHasRow, Expired, Stops
<1>. QED  BY <1>4, <1>5, <1>6, <1>7, <1>8

LEMMA RevokeJtiKeepsRows ==
    ASSUME RowInv, TypeOK', NEW w \in Writers, NEW t \in Tokens, RevokeJti(w, t)
    PROVE  RowInv'
<1> USE SessionAssumption DEF RowInv, TypeOK, Times, Never, tokenVars
<1>1. /\ UNCHANGED <<clock, token, idRow, forcedOut, ordered>>
      /\ purge' = [purge EXCEPT ![w] = clock]
      /\ loggedOut' = loggedOut \cup {t} /\ token[t].jti
  BY DEF RevokeJti
<1>2. /\ \A u \in Tokens \ {t} : jtiRow'[u] = jtiRow[u]
      /\ jtiRow'[t] = IF jtiRow[t] = Never THEN clock + Lifetime ELSE jtiRow[t]
  BY DEF RevokeJti
<1>3. TimesHavePassed' /\ JtiWhenMinted' /\ HorizonWasOrdered'
  BY <1>1 DEF TimesHavePassed, JtiWhenMinted, HorizonWasOrdered
<1>4. JtiRowOutlives'
  BY <1>1, <1>2 DEF JtiRowOutlives, TimesHavePassed
<1>5. token[t].iat # Never
  BY <1>1 DEF JtiWhenMinted
<1>6. LoggedOutHasRow'
  BY <1>1, <1>2, <1>5 DEF LoggedOutHasRow, Expired
<1>7. ForcedOutHasRow'
  BY <1>1 DEF ForcedOutHasRow, Expired, Stops
<1>. QED  BY <1>3, <1>4, <1>6, <1>7

LEMMA RevokeAllKeepsRows ==
    ASSUME RowInv, TypeOK', NEW w \in Writers, NEW i \in Identities, RevokeAll(w, i)
    PROVE  RowInv'
<1> USE SessionAssumption DEF RowInv, TypeOK, Times, Never, tokenVars
<1>1. /\ UNCHANGED <<clock, token, jtiRow, loggedOut>>
      /\ purge' = [purge EXCEPT ![w] = clock]
      /\ ordered' = [ordered EXCEPT ![i] = clock]
  BY DEF RevokeAll
<1>2. TimesHavePassed' /\ JtiWhenMinted' /\ JtiRowOutlives' /\ LoggedOutHasRow'
  BY <1>1, \A j \in Identities : ordered'[j] \in {ordered[j], clock}
     DEF TimesHavePassed, JtiWhenMinted, JtiRowOutlives, LoggedOutHasRow, Expired
<1>3. CASE idRow[i] = NoRow
  <2>1. /\ idRow' = [idRow EXCEPT ![i] = [before |-> clock + Skew, until |-> clock + Lifetime]]
        /\ forcedOut' = forcedOut \cup Outstanding(i)
    BY <1>3 DEF RevokeAll
  <2>2. \A j \in Identities \ {i} : idRow'[j] = idRow[j]
    BY <2>1
  <2>3. HorizonWasOrdered'
    BY <1>1, <2>1 DEF HorizonWasOrdered
  <2>4. \A j \in Identities, t \in Tokens : Stops(j, t) => Stops(j, t)'
    BY <1>1, <1>3, <2>1, <2>2 DEF Stops
  <2>5. \A t \in Outstanding(i) : token[t].iat # Never /\ i \in token[t].ids /\ Stops(i, t)'
    BY <1>1, <2>1 DEF Outstanding, Verifies, Stops, TimesHavePassed, NoRow
  <2>6. ForcedOutHasRow'
    BY <1>1, <2>1, <2>4, <2>5 DEF ForcedOutHasRow, Expired
  <2>. QED  BY <1>2, <2>3, <2>6
<1>4. CASE idRow[i] # NoRow
  <2>1. UNCHANGED <<idRow, forcedOut>>
    BY <1>4 DEF RevokeAll
  <2>2. HorizonWasOrdered'
    BY <1>1, <2>1 DEF HorizonWasOrdered, TimesHavePassed
  <2>3. ForcedOutHasRow'
    BY <1>1, <2>1 DEF ForcedOutHasRow, Expired, Stops
  <2>. QED  BY <1>2, <2>2, <2>3
<1>. QED  BY <1>3, <1>4

(* What a purge deletes has expired, and so have the tokens it rejected.    *)
LEMMA PurgeKeepsRows ==
    ASSUME RowInv, TypeOK', NEW w \in Writers, Purge(w)
    PROVE  RowInv'
<1> USE SessionAssumption DEF RowInv, TypeOK, Times, Never, tokenVars, historyVars
<1>1. /\ UNCHANGED <<clock, token, loggedOut, forcedOut, ordered>>
      /\ purge' = [purge EXCEPT ![w] = Never] /\ purge[w] <= clock
      /\ \A t \in Tokens : jtiRow'[t] = IF jtiRow[t] <= purge[w] THEN Never ELSE jtiRow[t]
      /\ \A i \in Identities : idRow'[i] = IF idRow[i].until <= purge[w] THEN NoRow ELSE idRow[i]
  BY DEF Purge, TimesHavePassed
<1>2. TimesHavePassed' /\ JtiWhenMinted' /\ HorizonWasOrdered'
  BY <1>1 DEF TimesHavePassed, JtiWhenMinted, HorizonWasOrdered, NoRow
<1>3. JtiRowOutlives'
  BY <1>1 DEF JtiRowOutlives
<1>4. LoggedOutHasRow'
  BY <1>1 DEF LoggedOutHasRow, JtiRowOutlives, Expired
<1>5. \A i \in Identities, t \in Tokens : Stops(i, t) => Stops(i, t)' \/ Expired(t)'
  <2> SUFFICES ASSUME NEW i \in Identities, NEW t \in Tokens, Stops(i, t), ~Stops(i, t)'
               PROVE  Expired(t)'
    OBVIOUS
  <2>1. token' = token /\ clock' = clock /\ purge[w] <= clock /\ (idRow'[i] = idRow[i] \/ idRow[i].until <= purge[w])
    BY <1>1
  <2>. QED  BY <2>1 DEF Stops, Expired
<1>6. ForcedOutHasRow'
  BY <1>1, <1>5 DEF ForcedOutHasRow, Expired
<1>. QED  BY <1>2, <1>3, <1>4, <1>6

LEMMA RowStep == RowInv /\ [Next]_vars => RowInv'
<1> SUFFICES ASSUME RowInv, [Next]_vars
             PROVE  RowInv'
  OBVIOUS
<1>0. TypeOK /\ TypeOK'
  BY TypeStep DEF RowInv
<1>1. ASSUME NEW w \in Writers, PurgeFails(w)
      PROVE  RowInv'
  <2>1. TimesHavePassed' /\ clock' >= clock
    BY <1>0, <1>1 DEF PurgeFails, RowInv, TypeOK, Times, Never, TimesHavePassed, tokenVars, historyVars
  <2>. QED  BY <1>0, <1>1, <2>1, RowFrame DEF PurgeFails, tokenVars
<1>2. CASE Advance
  <2>0. /\ clock' = clock + 1
        /\ UNCHANGED <<token, purge, rowVars, historyVars>> /\ UNCHANGED ordered
    BY <1>2 DEF Advance, historyVars
  <2>1. clock' >= clock
    BY <1>0, <2>0 DEF TypeOK, Times
  <2>2. /\ clock \in Int /\ \A w \in Writers : purge[w] \in Int
        /\ \A t \in Tokens : token[t].iat \in Int
        /\ \A i \in Identities : ordered[i] \in Int
    BY <1>0 DEF TypeOK, Times, Never
  <2>3. TimesHavePassed'
    BY <2>0, <2>2 DEF RowInv, TimesHavePassed
  <2>. QED  BY <1>0, <2>0, <2>1, <2>3, RowFrame
<1>3. CASE UNCHANGED vars
  <2>1. TimesHavePassed' /\ clock' >= clock
    BY <1>0, <1>3 DEF vars, tokenVars, historyVars, RowInv, TypeOK, Times, TimesHavePassed
  <2>. QED  BY <1>0, <1>3, <2>1, RowFrame DEF vars, tokenVars
<1>. QED
  BY <1>0, <1>1, <1>2, <1>3, LoginKeepsRows, RevokeJtiKeepsRows, RevokeAllKeepsRows,
     PurgeKeepsRows DEF Next

(* What the revocation rows say of the past holds in every state: each row  *)
(* was ordered, and outlives the tokens it rejects (revokeJti,              *)
(* revokeAllForIdentity, purgeExpired).                                     *)
THEOREM RowInvariant == Spec => []RowInv
BY RowInit, RowStep, PTL DEF Spec

(* A session whose jti was revoked is not accepted again before its token   *)
(* expires, and never after: whatever is revoked again and purged late.     *)
THEOREM LoggedOut == Spec => []LoggedOutStaysOut
<1>1. RowInv => LoggedOutStaysOut
  <2> SUFFICES ASSUME RowInv, NEW t \in loggedOut, Verifies(t)
               PROVE  IsRevoked(t)
    BY DEF LoggedOutStaysOut, Accepted
  <2>. QED
    BY SessionAssumption
       DEF RowInv, TypeOK, Times, Never, LoggedOutHasRow, JtiRowOutlives, Expired, Verifies, IsRevoked
<1>. QED  BY <1>1, RowInvariant, PTL

(* A session that a row of one of its identities forced out stays out.      *)
THEOREM ForcedOut == Spec => []ForcedOutStaysOut
<1>1. RowInv => ForcedOutStaysOut
  <2> SUFFICES ASSUME RowInv, NEW t \in forcedOut, Verifies(t)
               PROVE  IsRevoked(t)
    BY DEF ForcedOutStaysOut, Accepted
  <2>. QED
    BY SessionAssumption
       DEF RowInv, TypeOK, Times, Never, ForcedOutHasRow, Stops, Expired, Verifies, IsRevoked
<1>. QED  BY <1>1, RowInvariant, PTL

(* Nobody is locked out: a session minted past the horizon of the last      *)
(* revocation of each of its identities is accepted.                        *)
THEOREM LaterLogin == Spec => []LaterLoginWorks
<1>1. RowInv => LaterLoginWorks
  <2> SUFFICES ASSUME RowInv, NEW t \in Tokens \ loggedOut, Verifies(t), IsRevoked(t),
                      NEW i \in token[t].ids, idRow[i].until > clock, token[t].iat < idRow[i].before
               PROVE  ~(ordered[i] = Never \/ token[t].iat >= ordered[i] + Skew)
    BY SessionAssumption
       DEF LaterLoginWorks, Accepted, IsRevoked, RowInv, JtiRowOutlives, TypeOK, Times, Never
  <2>. QED
    BY SessionAssumption DEF RowInv, TypeOK, Times, Never, HorizonWasOrdered
<1>. QED  BY <1>1, RowInvariant, PTL
=============================================================================
