------------------------ MODULE ServiceAccessProofs -------------------------
(***************************************************************************)
(* Who may act as whom and what is paid for whom: theorems about           *)
(* single-use codes and links, the gates, referral codes, subscriptions    *)
(* and checkouts, as parts of the service.                                 *)
(***************************************************************************)
EXTENDS Service, FiniteSetTheorems, TLAPS

(* The part that moves moves by its own next-state relation.                *)
LEMMA AccessMoves ==
    ASSUME [ServiceNext]_serviceVars
    PROVE  /\ part' = part
           /\ part = "links" => [Links!Next]_linksVars
           /\ part = "gates" => [Gate!Next]_gatesVars
           /\ part = "referrals" => [Refs!Next]_referralsVars
BY DEF ServiceNext, LinksStep, SubscriptionsStep, CheckoutsStep, ReadsStep, CacheStep, BoardsStep,
   MessagesStep, NoticesStep, LogStep, DaysStep, AlertsStep, LimitsStep, GateStep, SlotsStep,
   StreamsStep, EventsStep, RefsStep, CommandsStep, Only, serviceVars, linksVars, gatesVars,
   referralsVars

-----------------------------------------------------------------------------
(* Codes and links.  A code that some request reads was spent by it and has *)
(* given nothing yet; what is not spent has given nothing either.  And a    *)
(* request that goes on to link holds a pair that a code vouched for.       *)
CodeRows == [kind : Links!Kinds \cup {Links!None}, player : Links!MaybePlayer,
             discord : Links!MaybeDiscord, state : {"unissued", "live", "spent"}]
LinkCallRows == [pc : {"idle", "read", "guard", "upsert", "reward", "lookup"},
                 code : LinkCodes \cup {Links!None}, kind : Links!Kinds \cup {Links!None},
                 player : Links!MaybePlayer, discord : Links!MaybeDiscord]

ReaderHoldsCode ==
    \A c \in LinkCalls : linkCall[c].pc = "read" =>
        /\ linkCall[c].code \in LinkCodes
        /\ linkCode[linkCall[c].code].state = "spent" /\ used[linkCall[c].code] = 0
OneReader ==
    \A c, d \in LinkCalls :
        (linkCall[c].pc = "read" /\ linkCall[d].pc = "read" /\ linkCall[c].code = linkCall[d].code)
            => c = d
UnspentIsUnused == \A k \in LinkCodes : linkCode[k].state # "spent" => used[k] = 0
LoginNamesPlayer == \A k \in LinkCodes : linkCode[k].kind = "login" => linkCode[k].player \in LinkPlayers

ActsProven(r, pairs) ==
    /\ r.pc \in {"guard", "upsert"} =>
          r.player \in LinkPlayers /\ r.discord \in Discords /\ <<r.player, r.discord>> \in pairs
    /\ r.pc \in {"reward", "lookup"} => r.player \in LinkPlayers
CallsActProven == \A c \in LinkCalls : ActsProven(linkCall[c], vouched)

CodeInv == ReaderHoldsCode /\ OneReader /\ UnspentIsUnused /\ Links!CodeGivesOnce
ProofInv == LoginNamesPlayer /\ CallsActProven /\ Links!LinkIsProven
LinkInv == Links!TypeOK /\ CodeInv /\ ProofInv

LEMMA LinkInit == Links!Init => LinkInv
<1> SUFFICES ASSUME Links!Init PROVE LinkInv
  OBVIOUS
<1>1. Links!TypeOK
  BY LinksAssumption DEF Links!Init, Links!TypeOK, Links!Unissued, Links!Idle, Links!MaybePlayer, Links!MaybeDiscord
<1>2. CodeInv
  BY DEF Links!Init, CodeInv, ReaderHoldsCode, OneReader, UnspentIsUnused, Links!CodeGivesOnce, Links!Idle
<1>3. ProofInv
  BY DEF Links!Init, ProofInv, LoginNamesPlayer, CallsActProven, ActsProven, Links!LinkIsProven, Links!Idle, Links!Unissued, Links!None
<1>. QED  BY <1>1, <1>2, <1>3 DEF LinkInv

(* A new code, or one that has run out.                                     *)
LEMMA CodesMove ==
    ASSUME LinkInv, NEW k \in LinkCodes, UNCHANGED <<used, links, linkCache, linkCall, vouched, rewards>>,
           \/ Links!Expire(k)
           \/ \E kind \in Links!Kinds, p \in Links!MaybePlayer, d \in Links!MaybeDiscord :
                Links!Issue(k, kind, p, d) /\ (kind = "login" => p \in LinkPlayers)
    PROVE  LinkInv'
<1> USE DEF LinkInv, CodeInv, ProofInv
<1>1. \E r \in CodeRows :
          /\ linkCode' = [linkCode EXCEPT ![k] = r]
          /\ linkCode[k].state # "spent"
          /\ r.kind = "login" => r.player \in LinkPlayers
  <2>1. CASE Links!Expire(k)
    <3> DEFINE r == [linkCode[k] EXCEPT !.state = "spent"]
    <3>1. linkCode' = [linkCode EXCEPT ![k] = r] /\ linkCode[k].state # "spent"
      BY <2>1 DEF Links!Expire
    <3>2. linkCode[k] \in CodeRows
      BY DEF CodeRows, Links!TypeOK
    <3>3. r \in CodeRows
      BY <3>2 DEF CodeRows
    <3>4. r.kind = "login" => r.player \in LinkPlayers
      BY <3>2 DEF CodeRows, LoginNamesPlayer
    <3> HIDE DEF r
    <3>. QED  BY <3>1, <3>3, <3>4
  <2>2. CASE \E kind \in Links!Kinds, p \in Links!MaybePlayer, d \in Links!MaybeDiscord :
                Links!Issue(k, kind, p, d) /\ (kind = "login" => p \in LinkPlayers)
    <3> PICK kind \in Links!Kinds, p \in Links!MaybePlayer, d \in Links!MaybeDiscord :
                Links!Issue(k, kind, p, d) /\ (kind = "login" => p \in LinkPlayers)
      BY <2>2
    <3> DEFINE r == [kind |-> kind, player |-> p, discord |-> d, state |-> "live"]
    <3>1. linkCode' = [linkCode EXCEPT ![k] = r] /\ linkCode[k].state # "spent"
      BY DEF Links!Issue, Links!Unissued
    <3>2. r \in CodeRows
      BY DEF CodeRows
    <3>3. r.kind = "login" => r.player \in LinkPlayers
      OBVIOUS
    <3> HIDE DEF r
    <3>. QED  BY <3>1, <3>2, <3>3
  <2>. QED  BY <2>1, <2>2
<1>2. Links!TypeOK' /\ LoginNamesPlayer' /\ UnspentIsUnused'
  BY <1>1 DEF CodeRows, Links!TypeOK, LoginNamesPlayer, UnspentIsUnused
<1>2a. \A c \in LinkCalls : linkCall[c].pc = "read" =>
          linkCode'[linkCall[c].code].state = "spent"
  BY <1>1 DEF CodeRows, Links!TypeOK, ReaderHoldsCode
<1>3. ReaderHoldsCode' /\ OneReader' /\ Links!CodeGivesOnce'
  BY <1>2a DEF ReaderHoldsCode, OneReader, Links!CodeGivesOnce
<1>4. CallsActProven' /\ Links!LinkIsProven'
  BY DEF CallsActProven, ActsProven, Links!LinkIsProven
<1>. QED  BY <1>2, <1>3, <1>4

(* A request that goes on past its code, or ends.                           *)
LEMMA LinkCallMoves ==
    ASSUME LinkInv, NEW c \in LinkCalls, NEW r \in LinkCallRows, r.pc # "read",
           linkCall' = [linkCall EXCEPT ![c] = r],
           vouched \subseteq vouched', ActsProven(r, vouched'),
           \A d \in LinkCalls \ {c} : linkCall[d].pc = "read" =>
              linkCode'[linkCall[d].code].state = "spent" /\ used'[linkCall[d].code] = 0
    PROVE  /\ linkCall' \in [LinkCalls -> LinkCallRows]
           /\ ReaderHoldsCode' /\ OneReader' /\ CallsActProven'
<1>1. linkCall \in [LinkCalls -> LinkCallRows]
  BY DEF LinkInv, Links!TypeOK, LinkCallRows
<1>2. linkCall' \in [LinkCalls -> LinkCallRows]
  BY <1>1
<1>3. \A d \in LinkCalls : linkCall'[d] = IF d = c THEN r ELSE linkCall[d]
  BY <1>1
<1>4. ReaderHoldsCode' /\ OneReader'
  BY <1>3 DEF LinkInv, CodeInv, ReaderHoldsCode, OneReader
<1>5. \A d \in LinkCalls : ActsProven(linkCall[d], vouched')
  BY DEF LinkInv, ProofInv, CallsActProven, ActsProven
<1>6. CallsActProven'
  BY <1>3, <1>5 DEF CallsActProven
<1>. QED  BY <1>2, <1>4, <1>6

(* ... when codes and links stay as they are.                               *)
LEMMA OnlyCallMoves ==
    ASSUME LinkInv, NEW c \in LinkCalls, NEW r \in LinkCallRows, r.pc # "read",
           linkCall' = [linkCall EXCEPT ![c] = r], ActsProven(r, vouched),
           UNCHANGED <<linkCode, used, links, linkCache, vouched, rewards>>
    PROVE  LinkInv'
<1>1. linkCall' \in [LinkCalls -> LinkCallRows] /\ ReaderHoldsCode' /\ OneReader' /\ CallsActProven'
  BY LinkCallMoves DEF LinkInv, CodeInv, ReaderHoldsCode
<1>. QED
  BY <1>1 DEF LinkInv, CodeInv, ProofInv, Links!TypeOK, LinkCallRows, UnspentIsUnused, LoginNamesPlayer,
     Links!CodeGivesOnce, Links!LinkIsProven

LEMMA LinkClaimStep ==
    ASSUME LinkInv, NEW c \in LinkCalls, NEW k \in LinkCodes, Links!Claim(c, k)
    PROVE  LinkInv'
<1> DEFINE r == [Links!Idle EXCEPT !.pc = "read", !.code = k, !.kind = linkCode[k].kind]
<1>1. linkCall \in [LinkCalls -> LinkCallRows] /\ linkCode \in [LinkCodes -> CodeRows]
  BY DEF LinkInv, Links!TypeOK, LinkCallRows, CodeRows
<1>2. r \in LinkCallRows
  <2>1. linkCode[k].kind \in Links!Kinds \cup {Links!None}
    BY <1>1 DEF CodeRows
  <2>2. Links!Idle \in LinkCallRows
    BY DEF Links!Idle, LinkCallRows, Links!MaybePlayer, Links!MaybeDiscord
  <2>. QED  BY <2>1, <2>2 DEF LinkCallRows
<1>3. linkCall' = [linkCall EXCEPT ![c] = r]
  BY DEF Links!Claim, Links!Set
<1>4. UNCHANGED <<used, links, linkCache, vouched, rewards>>
  BY DEF Links!Claim, Links!linkVars
<1>5. linkCode[k].state = "live" /\ used[k] = 0
  BY DEF Links!Claim, LinkInv, CodeInv, UnspentIsUnused
<1>6. /\ linkCode' \in [LinkCodes -> CodeRows]
      /\ \A j \in LinkCodes : /\ linkCode'[j].state = IF j = k THEN "spent" ELSE linkCode[j].state
                              /\ linkCode'[j].kind = linkCode[j].kind
                             /\ linkCode'[j].player = linkCode[j].player
  BY <1>1 DEF Links!Claim, CodeRows
<1>7. r.pc = "read" /\ r.code = k
  BY DEF Links!Idle
<1> HIDE DEF r
<1>8. linkCall' \in [LinkCalls -> LinkCallRows]
  BY <1>1, <1>2, <1>3
<1>9. \A d \in LinkCalls : linkCall'[d] = IF d = c THEN r ELSE linkCall[d]
  BY <1>1, <1>3
<1>10. ReaderHoldsCode'
  BY <1>4, <1>5, <1>6, <1>7, <1>9 DEF LinkInv, CodeInv, ReaderHoldsCode
<1>11. OneReader'
  BY <1>5, <1>7, <1>9 DEF LinkInv, CodeInv, ReaderHoldsCode, OneReader
<1>12. UnspentIsUnused' /\ Links!CodeGivesOnce' /\ LoginNamesPlayer'
  BY <1>4, <1>6 DEF LinkInv, CodeInv, ProofInv, UnspentIsUnused, Links!CodeGivesOnce, LoginNamesPlayer
<1>13. CallsActProven' /\ Links!LinkIsProven'
  BY <1>4, <1>7, <1>9 DEF LinkInv, ProofInv, CallsActProven, ActsProven, Links!LinkIsProven
<1>14. Links!TypeOK'
  BY <1>4, <1>6, <1>8 DEF LinkInv, Links!TypeOK, LinkCallRows, CodeRows
<1>. QED  BY <1>10, <1>11, <1>12, <1>13, <1>14 DEF LinkInv, CodeInv, ProofInv

(* busKvConsume's second statement.                                         *)
LEMMA TakeStep ==
    ASSUME LinkInv, NEW c \in LinkCalls, Links!Take(c)
    PROVE  LinkInv'
<1> DEFINE k == linkCall[c].code
<1>1. linkCall \in [LinkCalls -> LinkCallRows] /\ linkCode \in [LinkCodes -> CodeRows] /\ used \in [LinkCodes -> Nat]
  BY DEF LinkInv, Links!TypeOK, LinkCallRows, CodeRows
<1>2. linkCall[c].pc = "read" /\ k \in LinkCodes /\ linkCode[k].state = "spent" /\ used[k] = 0
  BY DEF Links!Take, LinkInv, CodeInv, ReaderHoldsCode
<1>3. UNCHANGED <<links, linkCache, rewards>>
  BY DEF Links!Take, Links!linkVars
<1>4. linkCode' = linkCode
  <2>1. linkCode' = [linkCode EXCEPT ![k].state = "spent"]
    BY DEF Links!Take
  <2>2. [linkCode[k] EXCEPT !.state = "spent"] = linkCode[k]
    BY <1>1, <1>2 DEF CodeRows
  <2>. QED  BY <2>1, <2>2, <1>1
<1>5. used' = [used EXCEPT ![k] = @ + 1]
  BY DEF Links!Take
<1> DEFINE GoesOn(r) == /\ linkCall' = [linkCall EXCEPT ![c] = r]
                        /\ r.pc # "read" /\ ActsProven(r, vouched')
                        /\ vouched \subseteq vouched' /\ vouched' \subseteq LinkPlayers \X Discords
<1>6. \E r \in LinkCallRows : GoesOn(r)
  <2>1. linkCall[c] \in LinkCallRows /\ linkCode[k] \in CodeRows /\ vouched \subseteq LinkPlayers \X Discords
    BY <1>1, <1>2 DEF LinkInv, Links!TypeOK
  <2>2. Links!Idle \in LinkCallRows /\ Links!Idle.pc = "idle"
    BY DEF Links!Idle, LinkCallRows, Links!MaybePlayer, Links!MaybeDiscord
  <2>3. ASSUME linkCall' = [linkCall EXCEPT ![c] = Links!Idle], vouched' = vouched
        PROVE  \E r \in LinkCallRows : GoesOn(r)
    BY <2>1, <2>2, <2>3 DEF ActsProven
  <2>4. ASSUME NEW p \in LinkPlayers, vouched' = vouched,
               linkCall' = [linkCall EXCEPT ![c] = [linkCall[c] EXCEPT !.pc = "lookup", !.player = p]]
        PROVE  \E r \in LinkCallRows : GoesOn(r)
    <3> DEFINE r == [linkCall[c] EXCEPT !.pc = "lookup", !.player = p]
    <3>1. r \in LinkCallRows /\ r.pc = "lookup" /\ r.player = p
      BY <2>1 DEF LinkCallRows, Links!MaybePlayer
    <3> HIDE DEF r
    <3>. QED  BY <2>1, <2>4, <3>1 DEF ActsProven, r
  <2>5. CASE Links!ConfirmTakes(c, k)
    <3> PICK body \in Links!MaybeDiscord :
          LET p == linkCode[k].player
              d == Links!HolderOf(k, body)
              accepted == p # Links!None /\ d # Links!None
          IN  /\ linkCall' = [linkCall EXCEPT ![c] =
                               IF accepted
                               THEN [linkCall[c] EXCEPT !.pc = "guard", !.player = p, !.discord = d]
                               ELSE Links!Idle]
              /\ vouched' = IF accepted
                            THEN vouched \cup {<<p, IF linkCode[k].discord # Links!None
                                                     THEN linkCode[k].discord ELSE d>>}
                            ELSE vouched
      BY <2>5 DEF Links!ConfirmTakes, Links!Set
    <3> DEFINE p == linkCode[k].player
               d == Links!HolderOf(k, body)
               s == [linkCall[c] EXCEPT !.pc = "guard", !.player = p, !.discord = d]
    <3>1. CASE p # Links!None /\ d # Links!None
      <4>1. p \in LinkPlayers /\ linkCode[k].discord \in Links!MaybeDiscord
        BY <2>1, <3>1 DEF CodeRows, Links!MaybePlayer
      <4>2. d \in Discords /\ (linkCode[k].discord # Links!None => linkCode[k].discord = d)
        BY <3>1, <4>1 DEF Links!HolderOf, Links!MaybeDiscord
      <4>3. s \in LinkCallRows /\ s.pc = "guard" /\ s.player = p /\ s.discord = d
        BY <2>1, <4>1, <4>2 DEF LinkCallRows, Links!MaybePlayer, Links!MaybeDiscord
      <4>4. linkCall' = [linkCall EXCEPT ![c] = s] /\ vouched' = vouched \cup {<<p, d>>}
        BY <3>1, <4>2
      <4> HIDE DEF s, d, p
      <4>5. <<p, d>> \in LinkPlayers \X Discords
        BY <4>1, <4>2
      <4>6. GoesOn(s)
        BY <2>1, <4>1, <4>2, <4>3, <4>4, <4>5 DEF ActsProven
      <4>. QED  BY <4>3, <4>6
    <3>2. CASE ~(p # Links!None /\ d # Links!None)
      <4>1. linkCall' = [linkCall EXCEPT ![c] = Links!Idle] /\ vouched' = vouched
        BY <3>2
      <4>. QED  BY <2>3, <4>1
    <3>. QED  BY <3>1, <3>2
  <2>6. CASE /\ UNCHANGED vouched
             /\ \/ Links!ExchangeTakes(c, k) \/ Links!WebcodeTakes(c, k)
                \/ Links!VerifyTakes(c, k) \/ Links!MsCallbackTakes(c, k)
    <3>1. CASE Links!WebcodeTakes(c, k)
      <4>1. linkCode[k].player \in LinkPlayers
        BY <1>2, <3>1 DEF Links!WebcodeTakes, LinkInv, ProofInv, LoginNamesPlayer
      <4>. QED  BY <2>4, <2>6, <3>1, <4>1 DEF Links!WebcodeTakes, Links!Set
    <3>2. CASE ~Links!WebcodeTakes(c, k)
      BY <2>3, <2>4, <2>6, <3>2 DEF Links!ExchangeTakes, Links!VerifyTakes, Links!MsCallbackTakes,
         Links!Set, Links!End
    <3>. QED  BY <3>1, <3>2
  <2>. QED  BY <2>5, <2>6 DEF Links!Take
<1>7. PICK r \in LinkCallRows : GoesOn(r)
  BY <1>6
<1>8. \A d \in LinkCalls \ {c} : linkCall[d].pc = "read" =>
          linkCode'[linkCall[d].code].state = "spent" /\ used'[linkCall[d].code] = 0
  BY <1>1, <1>2, <1>4, <1>5 DEF LinkInv, CodeInv, ReaderHoldsCode, OneReader
<1>9. linkCall' \in [LinkCalls -> LinkCallRows] /\ ReaderHoldsCode' /\ OneReader' /\ CallsActProven'
  BY <1>7, <1>8, LinkCallMoves
<1>10. UnspentIsUnused' /\ Links!CodeGivesOnce' /\ used' \in [LinkCodes -> Nat]
  BY <1>1, <1>2, <1>4, <1>5 DEF LinkInv, CodeInv, UnspentIsUnused, Links!CodeGivesOnce
<1>11. Links!LinkIsProven' /\ LoginNamesPlayer'
  BY <1>3, <1>4, <1>7 DEF LinkInv, ProofInv, Links!LinkIsProven, LoginNamesPlayer
<1>12. Links!TypeOK'
  BY <1>1, <1>3, <1>4, <1>7, <1>9, <1>10 DEF LinkInv, Links!TypeOK, LinkCallRows, CodeRows
<1>. QED  BY <1>9, <1>10, <1>11, <1>12 DEF LinkInv, CodeInv, ProofInv

LEMMA IdleCall == Links!Idle \in LinkCallRows /\ Links!Idle.pc = "idle" /\ ActsProven(Links!Idle, vouched)
BY DEF Links!Idle, LinkCallRows, Links!MaybePlayer, Links!MaybeDiscord, ActsProven

(* /auth: the session, or a handoff code for the frontend; the guard of the *)
(* link route; a request that dies.                                         *)
LEMMA CallStep ==
    ASSUME LinkInv, NEW c \in LinkCalls,
           Links!SignIn(c) \/ Links!Guard(c) \/ Links!CallDies(c)
    PROVE  LinkInv'
<1>1. UNCHANGED <<linkCode, used, links, linkCache, vouched, rewards>>
  BY DEF Links!SignIn, Links!Guard, Links!CallDies, Links!codeVars, Links!linkVars
<1>2. CASE linkCall' = [linkCall EXCEPT ![c] = Links!Idle]
  BY <1>1, <1>2, IdleCall, OnlyCallMoves
<1>3. CASE linkCall[c].pc = "guard" /\ linkCall' = [linkCall EXCEPT ![c] = [linkCall[c] EXCEPT !.pc = "upsert"]]
  <2> DEFINE r == [linkCall[c] EXCEPT !.pc = "upsert"]
  <2>1. linkCall[c] \in LinkCallRows
    BY DEF LinkInv, Links!TypeOK, LinkCallRows
  <2>2. r \in LinkCallRows /\ r.pc = "upsert" /\ ActsProven(r, vouched)
    BY <1>3, <2>1 DEF LinkCallRows, LinkInv, ProofInv, CallsActProven, ActsProven
  <2>3. linkCall' = [linkCall EXCEPT ![c] = r]
    BY <1>3
  <2> HIDE DEF r
  <2>. QED  BY <1>1, <2>2, <2>3, OnlyCallMoves
<1>. QED
  BY <1>2, <1>3 DEF Links!SignIn, Links!Guard, Links!CallDies, Links!End, Links!Set

LEMMA HandoffStep ==
    ASSUME LinkInv, NEW c \in LinkCalls, NEW k \in LinkCodes, Links!MsHandoff(c, k)
    PROVE  LinkInv'
<1>1. linkCall' = [linkCall EXCEPT ![c] = Links!Idle] /\ UNCHANGED <<used, links, linkCache, vouched, rewards>>
  BY DEF Links!MsHandoff, Links!linkVars, Links!End, Links!Set
<1>2. PICK d \in Links!Enriched(c) :
          linkCode' = [linkCode EXCEPT ![k] = [kind |-> "handoff", player |-> linkCall[c].player,
                                               discord |-> d, state |-> "live"]]
  BY DEF Links!MsHandoff
<1> DEFINE r == [kind |-> "handoff", player |-> linkCall[c].player, discord |-> d, state |-> "live"]
<1>3. r \in CodeRows
  <2>1. linkCall[c].player \in LinkPlayers
    BY DEF Links!MsHandoff, LinkInv, ProofInv, CallsActProven, ActsProven
  <2>2. d \in Links!MaybeDiscord
    BY <2>1 DEF Links!Enriched, LinkInv, Links!TypeOK, Links!MaybeDiscord
  <2>. QED  BY <2>1, <2>2 DEF CodeRows, Links!Kinds, Links!MaybePlayer
<1>4. r.kind = "handoff" /\ linkCode' = [linkCode EXCEPT ![k] = r]
  BY <1>2
<1> HIDE DEF r
<1>5. linkCode[k].state = "unissued" /\ linkCode \in [LinkCodes -> CodeRows]
  BY DEF Links!MsHandoff, Links!Unissued, LinkInv, Links!TypeOK, CodeRows
<1>6. linkCode' \in [LinkCodes -> CodeRows] /\ \A j \in LinkCodes \ {k} : linkCode'[j] = linkCode[j]
  BY <1>3, <1>4, <1>5
<1>7. \A d2 \in LinkCalls : linkCall[d2].pc = "read" =>
          linkCode'[linkCall[d2].code].state = "spent" /\ used'[linkCall[d2].code] = 0
  BY <1>1, <1>5, <1>6 DEF LinkInv, CodeInv, ReaderHoldsCode
<1>8. linkCall' \in [LinkCalls -> LinkCallRows] /\ ReaderHoldsCode' /\ OneReader' /\ CallsActProven'
  BY <1>1, <1>7, IdleCall, LinkCallMoves
<1>9. UnspentIsUnused' /\ LoginNamesPlayer'
  BY <1>1, <1>4, <1>5, <1>6 DEF LinkInv, CodeInv, ProofInv, UnspentIsUnused, LoginNamesPlayer
<1>10. Links!TypeOK' /\ Links!CodeGivesOnce' /\ Links!LinkIsProven'
  BY <1>1, <1>6, <1>8 DEF LinkInv, CodeInv, ProofInv, Links!TypeOK, LinkCallRows, CodeRows,
     Links!CodeGivesOnce, Links!LinkIsProven
<1>. QED  BY <1>8, <1>9, <1>10 DEF LinkInv, CodeInv, ProofInv

(* Links and the cache of them change: by pairs that were vouched for, or   *)
(* to nobody.                                                               *)
LEMMA LinksMove ==
    ASSUME LinkInv, UNCHANGED <<linkCode, used, vouched>>,
           links' \in [LinkPlayers -> Links!MaybeDiscord],
           linkCache' \in [Discords -> Links!MaybePlayer],
           \A p \in LinkPlayers : \/ links'[p] \in {links[p], Links!None}
                                  \/ <<p, links'[p]>> \in vouched,
           \A d \in Discords : \/ linkCache'[d] \in {linkCache[d], Links!None}
                               \/ <<linkCache'[d], d>> \in vouched
    PROVE  /\ Links!LinkIsProven' /\ LoginNamesPlayer'
           /\ UnspentIsUnused' /\ Links!CodeGivesOnce'
BY DEF LinkInv, CodeInv, ProofInv, Links!LinkIsProven, LoginNamesPlayer, UnspentIsUnused, Links!CodeGivesOnce

LEMMA UpsertStep ==
    ASSUME LinkInv, NEW c \in LinkCalls, Links!Upsert(c)
    PROVE  LinkInv'
<1> DEFINE p == linkCall[c].player
           d == linkCall[c].discord
<1>1. UNCHANGED <<linkCode, used, vouched, rewards>>
  BY DEF Links!Upsert, Links!codeVars
<1>2. linkCall[c].pc = "upsert" /\ p \in LinkPlayers /\ d \in Discords /\ <<p, d>> \in vouched
  BY DEF Links!Upsert, LinkInv, ProofInv, CallsActProven, ActsProven
<1>3. CASE UNCHANGED <<links, linkCache>> /\ linkCall' = [linkCall EXCEPT ![c] = Links!Idle]
  BY <1>1, <1>3, IdleCall, OnlyCallMoves
<1>4. CASE /\ links' = [links EXCEPT ![p] = d] /\ Links!CacheWrite(d, p)
           /\ linkCall' = [linkCall EXCEPT ![c] =
                             IF links[p] = Links!None THEN [linkCall[c] EXCEPT !.pc = "reward"] ELSE Links!Idle]
  <2>1. linkCall[c] \in LinkCallRows
    BY DEF LinkInv, Links!TypeOK, LinkCallRows
  <2> DEFINE s == [linkCall[c] EXCEPT !.pc = "reward"]
  <2>2. s \in LinkCallRows /\ s.pc = "reward" /\ ActsProven(s, vouched)
    BY <1>2, <2>1 DEF LinkCallRows, ActsProven
  <2>3. \E r \in LinkCallRows : r.pc # "read" /\ ActsProven(r, vouched) /\ linkCall' = [linkCall EXCEPT ![c] = r]
    <3> HIDE DEF s
    <3>1. linkCall' = [linkCall EXCEPT ![c] = s] \/ linkCall' = [linkCall EXCEPT ![c] = Links!Idle]
      BY <1>4 DEF s
    <3>. QED  BY <2>2, <3>1, IdleCall
  <2>4. linkCall' \in [LinkCalls -> LinkCallRows] /\ ReaderHoldsCode' /\ OneReader' /\ CallsActProven'
    <3>1. \A e \in LinkCalls : linkCall[e].pc = "read" =>
             linkCode'[linkCall[e].code].state = "spent" /\ used'[linkCall[e].code] = 0
      BY <1>1 DEF LinkInv, CodeInv, ReaderHoldsCode
    <3>. QED  BY <1>1, <2>3, <3>1, LinkCallMoves
  <2>5. /\ links' \in [LinkPlayers -> Links!MaybeDiscord]
        /\ linkCache' \in [Discords -> Links!MaybePlayer]
        /\ \A q \in LinkPlayers : links'[q] = links[q] \/ <<q, links'[q]>> \in vouched
        /\ \A e \in Discords : linkCache'[e] = linkCache[e] \/ <<linkCache'[e], e>> \in vouched
    BY <1>2, <1>4 DEF LinkInv, Links!TypeOK, Links!CacheWrite, Links!MaybeDiscord, Links!MaybePlayer
  <2>6. Links!LinkIsProven' /\ LoginNamesPlayer' /\ UnspentIsUnused' /\ Links!CodeGivesOnce'
    BY <1>1, <2>5, LinksMove
  <2>7. Links!TypeOK'
    BY <1>1, <2>4, <2>5 DEF LinkInv, Links!TypeOK, LinkCallRows
  <2>. QED  BY <2>4, <2>6, <2>7 DEF LinkInv, CodeInv, ProofInv
<1>. QED
  BY <1>3, <1>4 DEF Links!Upsert, Links!End, Links!Set, Links!linkVars

LEMMA RewardStep ==
    ASSUME LinkInv, NEW c \in LinkCalls, Links!Reward(c)
    PROVE  LinkInv'
<1>1. /\ UNCHANGED <<linkCode, used, links, linkCache, vouched>>
      /\ linkCall' = [linkCall EXCEPT ![c] = Links!Idle]
  BY DEF Links!Reward, Links!codeVars, Links!linkVars, Links!End, Links!Set
<1>2. linkCall' \in [LinkCalls -> LinkCallRows] /\ ReaderHoldsCode' /\ OneReader' /\ CallsActProven'
  <2>1. \A e \in LinkCalls : linkCall[e].pc = "read" =>
           linkCode'[linkCall[e].code].state = "spent" /\ used'[linkCall[e].code] = 0
    BY <1>1 DEF LinkInv, CodeInv, ReaderHoldsCode
  <2>2. vouched \subseteq vouched' /\ ActsProven(Links!Idle, vouched')
    BY <1>1, IdleCall
  <2>. QED  BY <1>1, <2>1, <2>2, IdleCall, LinkCallMoves
<1>3. rewards' \in [LinkPlayers -> 0 .. MaxRewards]
  <2> DEFINE p == linkCall[c].player
  <2>1. rewards \in [LinkPlayers -> 0 .. MaxRewards] /\ p \in LinkPlayers
    BY DEF Links!Reward, LinkInv, Links!TypeOK, ProofInv, CallsActProven, ActsProven
  <2>2. rewards' = [rewards EXCEPT ![p] = @ + 1] /\ rewards[p] < MaxRewards
    BY DEF Links!Reward
  <2> HIDE DEF p
  <2>3. rewards[p] + 1 \in 0 .. MaxRewards
    BY <2>1, <2>2, LinksAssumption
  <2>. QED  BY <2>1, <2>2, <2>3
<1>. QED
  BY <1>1, <1>2, <1>3 DEF LinkInv, CodeInv, ProofInv, Links!TypeOK, LinkCallRows, UnspentIsUnused,
     LoginNamesPlayer, Links!CodeGivesOnce, Links!LinkIsProven

LEMMA TableStep ==
    ASSUME LinkInv,
           \/ \E p \in LinkPlayers : Links!Unlink(p)
           \/ \E d \in Discords : Links!UnlinkDiscord(d) \/ Links!Resolve(d)
    PROVE  LinkInv'
<1>1. UNCHANGED <<linkCode, used, vouched, linkCall, rewards>>
  BY DEF Links!Unlink, Links!UnlinkDiscord, Links!Resolve, Links!codeVars
<1>2. links \in [LinkPlayers -> Links!MaybeDiscord] /\ linkCache \in [Discords -> Links!MaybePlayer]
  BY DEF LinkInv, Links!TypeOK
<1>3. /\ links' \in [LinkPlayers -> Links!MaybeDiscord]
      /\ linkCache' \in [Discords -> Links!MaybePlayer]
      /\ \A q \in LinkPlayers : links'[q] \in {links[q], Links!None}
      /\ \A e \in Discords : \/ linkCache'[e] \in {linkCache[e], Links!None}
                             \/ <<linkCache'[e], e>> \in vouched
  <2>1. CASE \E p \in LinkPlayers : Links!Unlink(p)
    BY <1>2, <2>1 DEF Links!Unlink, Links!CacheWrite, Links!MaybeDiscord, Links!MaybePlayer
  <2>2. CASE \E d \in Discords : Links!UnlinkDiscord(d)
    BY <1>2, <2>2 DEF Links!UnlinkDiscord, Links!CacheWrite, Links!MaybeDiscord, Links!MaybePlayer
  <2>3. CASE \E d \in Discords : Links!Resolve(d)
    <3> PICK d \in Discords : Links!Resolve(d)
      BY <2>3
    <3> PICK p \in LinkPlayers : links[p] = d /\ Links!CacheWrite(d, p)
      BY DEF Links!Resolve
    <3>1. <<p, d>> \in vouched
      BY LinksAssumption DEF LinkInv, ProofInv, Links!LinkIsProven, Links!None
    <3>2. links' = links
      BY DEF Links!Resolve
    <3>. QED  BY <1>2, <3>1, <3>2 DEF Links!CacheWrite, Links!MaybePlayer
  <2>. QED  BY <2>1, <2>2, <2>3
<1>4. Links!LinkIsProven' /\ LoginNamesPlayer' /\ UnspentIsUnused' /\ Links!CodeGivesOnce'
  BY <1>1, <1>3, LinksMove
<1>. QED
  BY <1>1, <1>3, <1>4 DEF LinkInv, CodeInv, ProofInv, Links!TypeOK, ReaderHoldsCode, OneReader, CallsActProven

LEMMA LinkNext == LinkInv /\ [Links!Next]_linksVars => LinkInv'
<1> SUFFICES ASSUME LinkInv, [Links!Next]_linksVars PROVE LinkInv'
  OBVIOUS
<1>1. CASE \E k \in LinkCodes :
             \/ Links!PluginIssues(k) \/ Links!LinkInitiate(k) \/ Links!OAuthCallback(k)
             \/ Links!ClientChallenge(k) \/ Links!MsStart(k) \/ Links!Expire(k)
  <2> PICK k \in LinkCodes :
             \/ Links!PluginIssues(k) \/ Links!LinkInitiate(k) \/ Links!OAuthCallback(k)
             \/ Links!ClientChallenge(k) \/ Links!MsStart(k) \/ Links!Expire(k)
    BY <1>1
  <2>1. \/ Links!Expire(k)
        \/ \E kind \in Links!Kinds, p \in Links!MaybePlayer, d \in Links!MaybeDiscord :
              Links!Issue(k, kind, p, d) /\ (kind = "login" => p \in LinkPlayers)
    BY DEF Links!PluginIssues, Links!LinkInitiate, Links!OAuthCallback, Links!ClientChallenge,
       Links!MsStart, Links!Kinds, Links!MaybePlayer, Links!MaybeDiscord
  <2>2. UNCHANGED <<used, links, linkCache, linkCall, vouched, rewards>>
    BY <2>1 DEF Links!Expire, Links!Issue, Links!linkVars
  <2>. QED  BY <2>1, <2>2, CodesMove
<1>2. CASE UNCHANGED linksVars
  BY <1>2 DEF linksVars, LinkInv, CodeInv, ProofInv, Links!TypeOK, ReaderHoldsCode, OneReader,
     UnspentIsUnused, LoginNamesPlayer, CallsActProven, Links!CodeGivesOnce, Links!LinkIsProven
<1>. QED
  BY <1>1, <1>2, LinkClaimStep, TakeStep, CallStep, HandoffStep, UpsertStep, RewardStep, TableStep DEF Links!Next

(* Of any number of requests that present a code at one time one gets what  *)
(* it carries; and every link, and every cached answer for a Discord id,    *)
(* stands for a pair that such a code proved.                               *)
THEOREM LinkInvariant == ServiceSpec => [](part = "links" => LinkInv)
<1>1. ServiceInit => (part = "links" => LinkInv)
  BY LinkInit DEF ServiceInit
<1>2. (part = "links" => LinkInv) /\ [ServiceNext]_serviceVars => (part = "links" => LinkInv)'
  BY AccessMoves, LinkNext
<1>. QED  BY <1>1, <1>2, PTL DEF ServiceSpec

-----------------------------------------------------------------------------
(* The gates.  What attachUser attached was proved: by the live cookie, or  *)
(* by a client token where no session was presented; and a client token     *)
(* comes to a gate only on a listed route.                                  *)
UserIsProven ==
    \/ user = Gate!Nobody
    \/ /\ ~revoked /\ gateReq.cookie # Gate!Nobody
       /\ user = gateReq.cookie \/ user = Gate!User(Gate!None, "discord")
    \/ /\ ~revoked /\ gateReq.cookie = Gate!Nobody
       /\ user = gateReq.bearer /\ user.method = "mc_client"

AnswerIsProven(a) ==
    a.status = 200 =>
      /\ a.uuid # Gate!None =>
            \/ gateReq.cookie.who = a.uuid /\ ~revoked
            \/ gateReq.bearer.who = a.uuid
                  /\ (gateReq.bearer.method = "mc_client" => ~revoked /\ gateReq.cookie = Gate!Nobody)
            \/ gateReq.bot = "service" /\ gateReq.asserts = a.uuid
      /\ a.role # Gate!None =>
            \/ gateReq.pair \/ gateReq.bot # Gate!None
            \/ ~revoked /\ gateReq.cookie # Gate!Nobody /\ (gateReq.role \/ gateReq.cookie.who \in Staff)
      /\ user.method = "mc_client" => gateReq.route = "listed"

Statuses == {0, 200, 400, 401, 403}
GateInv ==
    /\ Gate!GateTypeOK
    /\ step # "idle" => gateReq \in Gate!Credentials /\ UserIsProven
    /\ step \in {"csrf", "gate"} => (user.method = "mc_client" => gateReq.route = "listed")
    /\ step # "answered" => gateAnswer = Gate!NoAnswer
    /\ AnswerIsProven(gateAnswer)

LEMMA GateInit == Gate!Init => GateInv
<1>1. Gate!Nobody.who = Gate!None /\ Gate!NoAnswer.status = 0
  BY DEF Gate!Nobody, Gate!NoAnswer
<1> SUFFICES ASSUME Gate!Init PROVE GateInv
  OBVIOUS
<1>2. keys = {} /\ step = "idle" /\ user = Gate!Nobody /\ gateAnswer = Gate!NoAnswer
  BY DEF Gate!Init
<1>3. revoked \in BOOLEAN
  BY DEF Gate!Init
<1>4. Gate!GateTypeOK
  BY <1>1, <1>2, <1>3 DEF Gate!GateTypeOK
<1>5. AnswerIsProven(gateAnswer)
  BY <1>1, <1>2 DEF AnswerIsProven
<1>. QED  BY <1>2, <1>4, <1>5 DEF GateInv

LEMMA AttachStep ==
    ASSUME GateInv, step = "idle", NEW c \in Gate!Credentials, NEW dead \in BOOLEAN,
           Gate!attachUser(c, dead)
    PROVE  GateInv'
<1>1. gateReq' = c /\ revoked' = dead /\ step' = "allowlist" /\ UNCHANGED <<keys, gateAnswer>>
  BY DEF Gate!attachUser
<1>2. /\ c.cookie.who \in GatePlayers \cup {Gate!None} /\ c.bearer.who \in GatePlayers \cup {Gate!None}
      /\ c.cookie.method = "discord" => c.cookie # Gate!Nobody
  BY DEF Gate!Credentials, Gate!User, Gate!Nobody, Gate!None
<1>3. UserIsProven'
  BY <1>1, <1>2 DEF Gate!attachUser, Gate!bearerOf, UserIsProven, Gate!Nobody, Gate!None
<1>4. user'.who \in GatePlayers \cup {Gate!None}
  BY <1>1, <1>2, <1>3 DEF UserIsProven, Gate!User, Gate!Nobody
<1>5. gateAnswer = Gate!NoAnswer
  BY DEF GateInv
<1>. QED
  BY <1>1, <1>3, <1>4, <1>5 DEF GateInv, Gate!GateTypeOK, AnswerIsProven, Gate!NoAnswer

(* A gate that answers.                                                     *)
LEMMA AnswerStep ==
    ASSUME GateInv, step # "idle", UNCHANGED <<keys, gateReq, user, revoked>>, step' = "answered",
           NEW a, gateAnswer' = a, a.status \in Statuses, AnswerIsProven(a)
    PROVE  GateInv'
BY DEF GateInv, Gate!GateTypeOK, AnswerIsProven, UserIsProven, Statuses

LEMMA Refusing ==
    ASSUME GateInv, step # "idle", UNCHANGED <<keys, gateReq, user, revoked>>,
           NEW code \in {400, 401, 403}, Gate!Refuse(code)
    PROVE  GateInv'
<1> DEFINE a == Gate!Answer(code, gateReq.gate, Gate!None, Gate!None)
<1>1. a.status = code
  BY DEF Gate!Answer
<1>2. gateAnswer' = a /\ step' = "answered"
  BY DEF Gate!Refuse
<1> HIDE DEF a
<1>3. a.status \in Statuses /\ AnswerIsProven(a)
  BY <1>1 DEF Statuses, AnswerIsProven
<1>. QED  BY <1>2, <1>3, AnswerStep

LEMMA LettingIn ==
    ASSUME GateInv, step = "gate", UNCHANGED <<keys, gateReq, user, revoked>>, NEW uuid, NEW role,
           Gate!LetIn(uuid, role),
           uuid # Gate!None =>
             \/ gateReq.cookie.who = uuid /\ ~revoked
             \/ gateReq.bearer.who = uuid
                   /\ (gateReq.bearer.method = "mc_client" => ~revoked /\ gateReq.cookie = Gate!Nobody)
             \/ gateReq.bot = "service" /\ gateReq.asserts = uuid,
           role # Gate!None =>
             \/ gateReq.pair \/ gateReq.bot # Gate!None
             \/ ~revoked /\ gateReq.cookie # Gate!Nobody /\ (gateReq.role \/ gateReq.cookie.who \in Staff)
    PROVE  GateInv'
<1> DEFINE a == Gate!Answer(200, gateReq.gate, uuid, role)
<1>1. a.status = 200 /\ a.uuid = uuid /\ a.role = role
  BY DEF Gate!Answer
<1>2. gateAnswer' = a /\ step' = "answered"
  BY DEF Gate!LetIn
<1>3. user.method = "mc_client" => gateReq.route = "listed"
  BY DEF GateInv
<1> HIDE DEF a
<1>4. a.status \in Statuses /\ AnswerIsProven(a)
  BY <1>1, <1>3 DEF Statuses, AnswerIsProven
<1>. QED  BY <1>2, <1>4, AnswerStep

(* What resolvePrincipal makes of the credentials.                          *)
LEMMA PrincipalIsProven ==
    ASSUME GateInv, step = "gate", NEW p \in Gate!resolvePrincipal
    PROVE  \/ p.kind = "api_key" /\ gateReq.bearer.method = "api_key" /\ p.who = gateReq.bearer.who
           \/ p.kind = "session" /\ user # Gate!Nobody /\ p.who = user.who
           \/ p.kind = "delegated" /\ gateReq.bot = "service" /\ p.who = gateReq.asserts
           \/ p.kind = "bot"
           \/ p.kind = "anonymous"
BY DEF Gate!resolvePrincipal, Gate!authenticateApiKey, Gate!AfterKey, Gate!Principal

LEMMA UserWho ==
    ASSUME GateInv, step = "gate", user.who # Gate!None
    PROVE  \/ gateReq.cookie.who = user.who /\ ~revoked /\ gateReq.cookie # Gate!Nobody
           \/ gateReq.bearer.who = user.who /\ ~revoked /\ gateReq.cookie = Gate!Nobody
BY DEF GateInv, UserIsProven, Gate!Nobody, Gate!User

LEMMA UserNotNobody ==
    ASSUME GateInv, step = "gate", user # Gate!Nobody, user.method # "mc_client"
    PROVE  ~revoked /\ gateReq.cookie # Gate!Nobody
BY DEF GateInv, UserIsProven

LEMMA StaffIsProven ==
    ASSUME GateInv, step = "gate", NEW role \in Gate!resolveStaffActor, role # Gate!None
    PROVE  \/ gateReq.pair \/ gateReq.bot # Gate!None
           \/ ~revoked /\ gateReq.cookie # Gate!Nobody /\ (gateReq.role \/ gateReq.cookie.who \in Staff)
<1>1. CASE Gate!staffPair \/ Gate!machine
  BY <1>1 DEF Gate!staffPair, Gate!machine
<1>2. CASE ~Gate!staffPair /\ ~Gate!machine /\ Gate!authenticated /\ gateReq.role
  BY <1>2, UserNotNobody DEF Gate!authenticated
<1>3. CASE ~Gate!staffPair /\ ~Gate!machine /\ ~(Gate!authenticated /\ gateReq.role)
  <2>1. user # Gate!Nobody /\ user.method # "mc_client" /\ role \in Gate!linkedStaffRole(user.who)
    BY <1>3 DEF Gate!resolveStaffActor
  <2>2. user.who \in Staff /\ user.who # Gate!None
    BY <2>1, GatesAssumption DEF Gate!linkedStaffRole, Gate!None
  <2>3. ~revoked /\ gateReq.cookie # Gate!Nobody
    BY <2>1, UserNotNobody
  <2>4. gateReq.cookie.who = user.who
    BY <2>2, <2>3, UserWho
  <2>. QED  BY <2>2, <2>3, <2>4
<1>. QED  BY <1>1, <1>2, <1>3

LEMMA GateAnswers ==
    ASSUME GateInv, Gate!Gate PROVE GateInv'
<1>1. step = "gate" /\ UNCHANGED <<keys, gateReq, user, revoked>>
  BY DEF Gate!Gate
<1>2. gateReq.gate \in Gate!Gates
  BY <1>1 DEF GateInv, Gate!Credentials
<1>3. \A code \in {400, 401, 403} : Gate!Refuse(code) => GateInv'
  BY <1>1, Refusing
<1>4. Gate!LetIn(Gate!None, Gate!None) => GateInv'
  BY <1>1, LettingIn
<1>5. Gate!LetIn(user.who, Gate!None) => GateInv'
  <2> SUFFICES ASSUME Gate!LetIn(user.who, Gate!None) PROVE GateInv'
    OBVIOUS
  <2> DEFINE w == user.who
  <2>1. w # Gate!None => \/ gateReq.cookie.who = w /\ ~revoked
                         \/ gateReq.bearer.who = w
                               /\ (gateReq.bearer.method = "mc_client" => ~revoked /\ gateReq.cookie = Gate!Nobody)
                         \/ gateReq.bot = "service" /\ gateReq.asserts = w
    BY <1>1, UserWho
  <2>2. Gate!LetIn(w, Gate!None)
    OBVIOUS
  <2> HIDE DEF w
  <2>. QED  BY <1>1, <2>1, <2>2, LettingIn
<1>6. ASSUME NEW p \in Gate!resolvePrincipal, p.kind \in {"api_key", "delegated"},
             Gate!LetIn(p.who, Gate!None)
      PROVE  GateInv'
  <2> DEFINE w == p.who
  <2>1. w # Gate!None => \/ gateReq.cookie.who = w /\ ~revoked
                         \/ gateReq.bearer.who = w
                               /\ (gateReq.bearer.method = "mc_client" => ~revoked /\ gateReq.cookie = Gate!Nobody)
                         \/ gateReq.bot = "service" /\ gateReq.asserts = w
    BY <1>1, <1>6, PrincipalIsProven
  <2>2. Gate!LetIn(w, Gate!None)
    BY <1>6
  <2> HIDE DEF w
  <2>. QED  BY <1>1, <2>1, <2>2, LettingIn
<1>7. ASSUME NEW p \in Gate!resolvePrincipal, p.kind = "session"
      PROVE  p.who = user.who
  BY <1>1, <1>7, PrincipalIsProven
<1>8. ASSUME NEW p \in Gate!resolvePrincipal, p.kind = "delegated", Gate!asDelegated(p)
      PROVE  GateInv'
  BY <1>3, <1>6, <1>8 DEF Gate!asDelegated
<1>9. ASSUME NEW p \in Gate!resolvePrincipal,
             Gate!requireSelfOrDelegated(p) \/ Gate!requireMcIdentity(p) \/ Gate!requireScope(p)
      PROVE  GateInv'
  <2>1. CASE Gate!requireSelfOrDelegated(p)
    BY <1>3, <1>5, <1>6, <1>7, <1>8, <2>1 DEF Gate!requireSelfOrDelegated
  <2>2. CASE Gate!requireMcIdentity(p)
    BY <1>3, <1>5, <1>7, <1>8, <2>2 DEF Gate!requireMcIdentity
  <2>3. CASE Gate!requireScope(p)
    BY <1>3, <1>4, <2>3 DEF Gate!requireScope
  <2>. QED  BY <1>9, <2>1, <2>2, <2>3
<1>10. Gate!requireAuth \/ Gate!requireLinked \/ Gate!requireBot => GateInv'
  BY <1>3, <1>4, <1>5 DEF Gate!requireAuth, Gate!requireLinked, Gate!requireBot
<1>11. ASSUME Gate!requireStaffRole PROVE GateInv'
  <2>1. CASE user = Gate!Nobody /\ ~Gate!machine /\ ~Gate!staffPair
    BY <1>3, <1>11, <2>1 DEF Gate!requireStaffRole
  <2>2. CASE ~(user = Gate!Nobody /\ ~Gate!machine /\ ~Gate!staffPair)
    <3> PICK role \in Gate!resolveStaffActor :
          IF role = Gate!None THEN Gate!Refuse(403) ELSE Gate!LetIn(Gate!None, role)
      BY <1>11, <2>2 DEF Gate!requireStaffRole
    <3>1. CASE role = Gate!None
      BY <1>3, <3>1
    <3>2. CASE role # Gate!None
      BY <1>1, <3>2, StaffIsProven, LettingIn
    <3>. QED  BY <3>1, <3>2
  <2>. QED  BY <2>1, <2>2
<1>. QED
  BY <1>2, <1>9, <1>10, <1>11 DEF Gate!Gate, Gate!Gates

LEMMA GateNext == GateInv /\ [Gate!Next]_gatesVars => GateInv'
<1> SUFFICES ASSUME GateInv, [Gate!Next]_gatesVars PROVE GateInv'
  OBVIOUS
<1>1. CASE Gate!clientTokenAllowlist \/ Gate!sessionCsrfGuard
  <2>1. UNCHANGED <<keys, gateReq, user, revoked>> /\ step \in {"allowlist", "csrf"}
    BY <1>1 DEF Gate!clientTokenAllowlist, Gate!sessionCsrfGuard
  <2>2. CASE Gate!Refuse(403)
    BY <2>1, <2>2, Refusing
  <2>3. CASE ~Gate!Refuse(403)
    BY <1>1, <2>1, <2>3 DEF Gate!clientTokenAllowlist, Gate!sessionCsrfGuard, GateInv, Gate!GateTypeOK,
       UserIsProven, AnswerIsProven
  <2>. QED  BY <2>2, <2>3
<1>2. CASE \E p \in GatePlayers : Gate!createKey(p) \/ Gate!revokeKey(p)
  BY <1>2 DEF Gate!createKey, Gate!revokeKey, GateInv, Gate!GateTypeOK, UserIsProven, AnswerIsProven
<1>3. CASE Gate!Done
  <2>1. Gate!Nobody.who = Gate!None /\ Gate!NoAnswer.status = 0
    BY DEF Gate!Nobody, Gate!NoAnswer
  <2>2. /\ keys' = keys /\ step' = "idle" /\ user' = Gate!Nobody /\ gateAnswer' = Gate!NoAnswer
        /\ keys \subseteq GatePlayers
    BY <1>3 DEF Gate!Done, GateInv, Gate!GateTypeOK
  <2>3. revoked' \in BOOLEAN
    BY <1>3 DEF Gate!Done
  <2>4. Gate!GateTypeOK'
    BY <2>1, <2>2, <2>3 DEF Gate!GateTypeOK
  <2>5. AnswerIsProven(gateAnswer)'
    BY <2>1, <2>2 DEF AnswerIsProven
  <2>. QED  BY <2>2, <2>4, <2>5 DEF GateInv
<1>4. CASE UNCHANGED gatesVars
  BY <1>4 DEF gatesVars, GateInv, Gate!GateTypeOK, UserIsProven, AnswerIsProven
<1>. QED  BY <1>1, <1>2, <1>3, <1>4, AttachStep, GateAnswers DEF Gate!Next

(* Whoever a gate lets in proved who he is, however credentials combine and *)
(* whichever read fails.                                                    *)
THEOREM GateInvariant == ServiceSpec => [](part = "gates" => GateInv)
<1>1. ServiceInit => (part = "gates" => GateInv)
  BY GateInit DEF ServiceInit
<1>2. (part = "gates" => GateInv) /\ [ServiceNext]_serviceVars => (part = "gates" => GateInv)'
  BY AccessMoves, GateNext
<1>. QED  BY <1>1, <1>2, PTL DEF ServiceSpec

(* Links and gates together: whoever a request acts as was proved.          *)
THEOREM Identity == ServiceSpec => []IdentityIsProven
<1>1. (part = "links" => LinkInv) /\ (part = "gates" => GateInv) => IdentityIsProven
  BY DEF IdentityIsProven, LinkInv, ProofInv, GateInv, AnswerIsProven, Gate!IdentityIsProven
<1>. QED  BY <1>1, LinkInvariant, GateInvariant, PTL

-----------------------------------------------------------------------------
(* Referrals.  A request that redeems names a code and an owner other than  *)
(* its redeemer; the unique indexes hold; and the counters add up to a set  *)
(* no larger than the redemptions.                                          *)
MaybeRefPlayer == RefPlayers \cup {Refs!None}
RefReqRows == [kind : {"idle", "create", "mine", "custom", "redeem"},
               step : {"none", "rank", "referred", "insert", "draw", "taken", "upsert"},
               by : MaybeRefPlayer, who : MaybeRefPlayer \cup Newcomers, code : RefCodes \cup {Refs!None}]

WellPut(q) ==
    /\ q.kind # "idle" => q.by \in RefPlayers
    /\ q.kind \in {"custom", "redeem"} => q.code \in RefCodes
    /\ q.kind = "redeem" => q.who # q.by
RequestsWellPut == \A r \in RefRequests : WellPut(refReq[r])

ReferredOnce == \A f, g \in referrals : f.referred = g.referred => f = g
OneOwner == \A p, q \in RefPlayers : refCode[p] = refCode[q] /\ refCode[p] # Refs!None => p = q
RedeemedOnce == \A d, e \in redemptions : d.redeemer = e.redeemer => d = e
PaidForAnother == \A d \in redemptions : d.owner # d.redeemer
CountedWasPaid ==
    /\ IsFiniteSet(redemptions) /\ IsFiniteSet(Refs!Counted)
    /\ Cardinality(Refs!Counted) <= Cardinality(redemptions)

ReqInv == refReq \in [RefRequests -> RefReqRows] /\ RequestsWellPut
CodeTableInv == refCode \in [RefPlayers -> RefCodes \cup {Refs!None}] /\ OneOwner
PaidInv == total \in [RefPlayers -> Nat] /\ RedeemedOnce /\ PaidForAnother /\ CountedWasPaid
RefInv == ReqInv /\ CodeTableInv /\ PaidInv /\ ReferredOnce

(* The instance counts sets as this module does.                            *)
LEMMA RefsCount == \A S : Refs!Cardinality(S) = Cardinality(S)
BY DEF Refs!Cardinality, Cardinality

LEMMA RefInit == Refs!Init => RefInv
<1> SUFFICES ASSUME Refs!Init PROVE RefInv
  OBVIOUS
<1>1. Refs!Idle \in RefReqRows /\ WellPut(Refs!Idle)
  BY DEF Refs!Idle, RefReqRows, MaybeRefPlayer, Refs!None, WellPut
<1>2. ReqInv
  <2> DEFINE i == Refs!Idle
  <2>1. refReq = [r \in RefRequests |-> i] /\ i \in RefReqRows /\ WellPut(i)
    BY <1>1 DEF Refs!Init
  <2> HIDE DEF i
  <2>. QED  BY <2>1 DEF ReqInv, RequestsWellPut
<1>3. CodeTableInv
  BY DEF Refs!Init, CodeTableInv, OneOwner
<1>4. PaidInv
  <2>1. Refs!Counted = {} /\ redemptions = {} /\ total \in [RefPlayers -> Nat]
    BY DEF Refs!Init, Refs!Counted
  <2>. QED  BY <2>1, FS_EmptySet DEF PaidInv, CountedWasPaid, RedeemedOnce, PaidForAnother
<1>. QED  BY <1>2, <1>3, <1>4 DEF RefInv, Refs!Init, ReferredOnce

(* A request begins, goes on or ends.                                       *)
LEMMA Putting ==
    ASSUME ReqInv, NEW r \in RefRequests, NEW q \in RefReqRows, WellPut(q),
           refReq' = [refReq EXCEPT ![r] = q]
    PROVE  ReqInv'
BY DEF ReqInv, RequestsWellPut

LEMMA Going ==
    ASSUME ReqInv, NEW r \in RefRequests, NEW s \in {"referred", "insert", "upsert"}, Refs!Go(r, s)
    PROVE  ReqInv'
<1> DEFINE q == [refReq[r] EXCEPT !.step = s]
<1>1. refReq[r] \in RefReqRows /\ WellPut(refReq[r]) /\ refReq' = [refReq EXCEPT ![r] = q]
  BY DEF ReqInv, RequestsWellPut, Refs!Go
<1>2. q \in RefReqRows
  BY <1>1 DEF RefReqRows
<1>3. q.kind = refReq[r].kind /\ q.by = refReq[r].by /\ q.code = refReq[r].code /\ q.who = refReq[r].who
  BY <1>1 DEF RefReqRows
<1> HIDE DEF q
<1>4. WellPut(q)
  BY <1>1, <1>3 DEF WellPut
<1>. QED  BY <1>1, <1>2, <1>4, Putting

LEMMA Ending == ASSUME ReqInv, NEW r \in RefRequests, Refs!End(r) PROVE ReqInv'
<1> DEFINE q == Refs!Idle
<1>1. q \in RefReqRows /\ WellPut(q)
  BY DEF Refs!Idle, RefReqRows, MaybeRefPlayer, Refs!None, WellPut
<1>2. refReq' = [refReq EXCEPT ![r] = q]
  BY DEF Refs!End
<1> HIDE DEF q
<1>. QED  BY <1>1, <1>2, Putting

LEMMA Beginning ==
    ASSUME ReqInv, NEW r \in RefRequests,
           \/ \E p \in RefPlayers, q \in Newcomers : Refs!Create(r, p, q)
           \/ \E p \in Owners : Refs!Mine(r, p)
           \/ \E p \in Owners, k \in RefCodes : Refs!Custom(r, p, k)
           \/ \E p \in RefPlayers, k \in RefCodes : Refs!Redeem(r, p, k)
    PROVE  ReqInv'
<1>1. CASE \E p \in RefPlayers, q \in Newcomers : Refs!Create(r, p, q)
  <2> PICK p \in RefPlayers, n \in Newcomers : Refs!Create(r, p, n)
    BY <1>1
  <2> DEFINE q == Refs!Request("create", "rank", p, n, Refs!None)
  <2>1. q \in RefReqRows /\ WellPut(q)
    BY DEF Refs!Request, RefReqRows, MaybeRefPlayer, WellPut
  <2>2. refReq' = [refReq EXCEPT ![r] = q]
    BY DEF Refs!Create
  <2> HIDE DEF q
  <2>. QED  BY <2>1, <2>2, Putting
<1>2. CASE \E p \in Owners : Refs!Mine(r, p)
  <2> PICK p \in Owners : Refs!Mine(r, p)
    BY <1>2
  <2> DEFINE q == Refs!Request("mine", "draw", p, Refs!None, Refs!None)
  <2>1. q \in RefReqRows /\ WellPut(q)
    BY ReferralsAssumption DEF Refs!Request, RefReqRows, MaybeRefPlayer, WellPut
  <2>2. refReq' = [refReq EXCEPT ![r] = q]
    BY DEF Refs!Mine
  <2> HIDE DEF q
  <2>. QED  BY <2>1, <2>2, Putting
<1>3. CASE \E p \in Owners, k \in RefCodes : Refs!Custom(r, p, k)
  <2> PICK p \in Owners, k \in RefCodes : Refs!Custom(r, p, k)
    BY <1>3
  <2> DEFINE q == Refs!Request("custom", "taken", p, Refs!None, k)
  <2>1. q \in RefReqRows /\ WellPut(q)
    BY ReferralsAssumption DEF Refs!Request, RefReqRows, MaybeRefPlayer, WellPut
  <2>2. refReq' = [refReq EXCEPT ![r] = q]
    BY DEF Refs!Custom
  <2> HIDE DEF q
  <2>. QED  BY <2>1, <2>2, Putting
<1>4. CASE \E p \in RefPlayers, k \in RefCodes : Refs!Redeem(r, p, k)
  <2> PICK p \in RefPlayers, k \in RefCodes : Refs!Redeem(r, p, k)
    BY <1>4
  <2> PICK o \in RefPlayers \ {p} :
        refReq' = [refReq EXCEPT ![r] = Refs!Request("redeem", "insert", p, o, k)]
    BY DEF Refs!Redeem
  <2> DEFINE q == Refs!Request("redeem", "insert", p, o, k)
  <2>1. q \in RefReqRows /\ WellPut(q)
    BY DEF Refs!Request, RefReqRows, MaybeRefPlayer, WellPut
  <2>2. refReq' = [refReq EXCEPT ![r] = q]
    OBVIOUS
  <2> HIDE DEF q
  <2>. QED  BY <2>1, <2>2, Putting
<1>. QED  BY <1>1, <1>2, <1>3, <1>4

(* A code that nobody else has goes to a player.                            *)
LEMMA Owning ==
    ASSUME CodeTableInv, NEW p, NEW k \in RefCodes,
           \A q \in RefPlayers \ {p} : refCode[q] # k,
           refCode' = [refCode EXCEPT ![p] = k]
    PROVE  CodeTableInv'
BY DEF CodeTableInv, OneOwner

(* The one statement of a redemption: the row, and the counter of whoever   *)
(* holds the code, who is one player at most.                               *)
LEMMA Redeeming ==
    ASSUME RefInv, NEW r \in RefRequests, Refs!InsertRedemption(r), ~Refs!Redeemed(refReq[r].by)
    PROVE  PaidInv'
<1> DEFINE p == refReq[r].by
           k == refReq[r].code
           d == [row |-> Cardinality(redemptions), redeemer |-> p, code |-> k, owner |-> refReq[r].who]
<1>1. /\ redemptions' = redemptions \cup {d}
      /\ total' = [o \in RefPlayers |-> IF refCode[o] = k THEN total[o] + 1 ELSE total[o]]
      /\ k \in RefCodes /\ refReq[r].who # p
  <2>1. /\ redemptions' = redemptions \cup {d}
        /\ total' = [o \in RefPlayers |-> IF refCode[o] = k THEN total[o] + 1 ELSE total[o]]
        /\ refReq[r].kind = "redeem"
    BY RefsCount DEF Refs!InsertRedemption
  <2>. QED  BY <2>1 DEF RefInv, ReqInv, RequestsWellPut, WellPut
<1>2. d.redeemer = p /\ d.owner # d.redeemer
  BY <1>1
<1>3. \A e \in redemptions : e.redeemer # p
  BY DEF Refs!Redeemed
<1>4. /\ total \in [RefPlayers -> Nat] /\ RedeemedOnce /\ PaidForAnother /\ CountedWasPaid /\ OneOwner
      /\ k # Refs!None
  BY <1>1, ReferralsAssumption DEF RefInv, PaidInv, CodeTableInv, Refs!None
<1> HIDE DEF d, p, k
<1>5. total' \in [RefPlayers -> Nat] /\ RedeemedOnce' /\ PaidForAnother'
  BY <1>1, <1>2, <1>3, <1>4 DEF RedeemedOnce, PaidForAnother
<1>6. /\ IsFiniteSet(redemptions') /\ Cardinality(redemptions') = Cardinality(redemptions) + 1
      /\ Cardinality(redemptions) \in Nat
  <2>1. d \notin redemptions
    BY <1>2, <1>3
  <2>. QED  BY <1>1, <1>4, <2>1, FS_AddElement, FS_CardinalityType DEF CountedWasPaid
<1>7. CASE \A o \in RefPlayers : refCode[o] # k
  <2>1. \A o \in RefPlayers : total'[o] = total[o]
    BY <1>1, <1>7
  <2>2. Refs!Counted' = Refs!Counted
    BY <2>1 DEF Refs!Counted
  <2>. QED  BY <1>4, <1>5, <1>6, <2>2, FS_CardinalityType DEF PaidInv, CountedWasPaid
<1>8. ASSUME NEW o \in RefPlayers, refCode[o] = k PROVE PaidInv'
  <2>1. /\ total'[o] = total[o] + 1 /\ total[o] \in Nat
        /\ \A q \in RefPlayers \ {o} : total'[q] = total[q]
    BY <1>1, <1>4, <1>8 DEF OneOwner
  <2>2. 1..(total[o] + 1) = (1..total[o]) \cup {total[o] + 1}
    BY <2>1
  <2> DEFINE x == <<o, total[o] + 1>>
  <2>3. Refs!Counted' = Refs!Counted \cup {x}
    BY <2>1, <2>2 DEF Refs!Counted
  <2> HIDE DEF x
  <2> DEFINE C == Refs!Counted
  <2>a. IsFiniteSet(C) /\ Cardinality(C) \in Nat
    BY <1>4, FS_CardinalityType DEF CountedWasPaid
  <2>b. Refs!Counted' = C \cup {x}
    BY <2>3
  <2>c. /\ IsFiniteSet(C \cup {x})
        /\ Cardinality(C \cup {x}) = Cardinality(C) \/ Cardinality(C \cup {x}) = Cardinality(C) + 1
    <3> HIDE DEF C
    <3>. QED  BY <2>a, FS_AddElement
  <2>4. IsFiniteSet(Refs!Counted') /\ Cardinality(Refs!Counted') <= Cardinality(Refs!Counted) + 1
    BY <2>a, <2>b, <2>c
  <2>5. Cardinality(Refs!Counted) \in Nat /\ Cardinality(Refs!Counted') \in Nat
    BY <1>4, <2>4, FS_CardinalityType DEF CountedWasPaid
  <2>. QED  BY <1>4, <1>5, <1>6, <2>4, <2>5 DEF PaidInv, CountedWasPaid
<1>. QED  BY <1>7, <1>8

LEMMA RefNext == RefInv /\ [Refs!Next]_referralsVars => RefInv'
<1> SUFFICES ASSUME RefInv, [Refs!Next]_referralsVars PROVE RefInv'
  OBVIOUS
<1> USE DEF RefInv
<1>1. ASSUME UNCHANGED <<total, redemptions>> PROVE PaidInv'
  BY <1>1 DEF PaidInv, RedeemedOnce, PaidForAnother, CountedWasPaid, Refs!Counted
<1>2. ASSUME UNCHANGED refCode PROVE CodeTableInv'
  BY <1>2 DEF CodeTableInv, OneOwner
<1>3. ASSUME UNCHANGED referrals PROVE ReferredOnce'
  BY <1>3 DEF ReferredOnce
<1>4. ASSUME UNCHANGED refReq PROVE ReqInv'
  BY <1>4 DEF ReqInv, RequestsWellPut
<1>5. ASSUME UNCHANGED Refs!Rows PROVE PaidInv' /\ CodeTableInv' /\ ReferredOnce'
  BY <1>1, <1>2, <1>3, <1>5 DEF Refs!Rows
<1>6. ASSUME NEW r \in RefRequests,
             \/ \E p \in RefPlayers : \E q \in Newcomers : Refs!Create(r, p, q)
             \/ \E p \in Owners : Refs!Mine(r, p)
             \/ \E k \in RefCodes : \/ \E p \in Owners : Refs!Custom(r, p, k)
                                    \/ \E p \in RefPlayers : Refs!Redeem(r, p, k)
      PROVE  RefInv'
  <2>1. UNCHANGED Refs!Rows
    BY <1>6 DEF Refs!Create, Refs!Mine, Refs!Custom, Refs!Redeem
  <2>2. ReqInv'
    BY <1>6, Beginning
  <2>. QED  BY <1>5, <2>1, <2>2
<1>7. ASSUME NEW r \in RefRequests,
             Refs!CheckRank(r) \/ Refs!CheckReferred(r) \/ Refs!GiveUp(r) \/ Refs!CheckTaken(r)
      PROVE  RefInv'
  <2>1. UNCHANGED Refs!Rows
    BY <1>7 DEF Refs!CheckRank, Refs!CheckReferred, Refs!GiveUp, Refs!CheckTaken
  <2>2. Refs!End(r) \/ Refs!Go(r, "referred") \/ Refs!Go(r, "insert") \/ Refs!Go(r, "upsert")
    BY <1>7 DEF Refs!CheckRank, Refs!CheckReferred, Refs!GiveUp, Refs!CheckTaken
  <2>3. ReqInv'
    BY <2>2, Ending, Going
  <2>. QED  BY <1>5, <2>1, <2>3
<1>8. ASSUME NEW r \in RefRequests, Refs!InsertReferral(r) PROVE RefInv'
  <2>1. UNCHANGED <<refCode, cooling, total, redemptions>> /\ Refs!End(r)
    BY <1>8 DEF Refs!InsertReferral
  <2>2. ReqInv' /\ PaidInv' /\ CodeTableInv'
    BY <1>1, <1>2, <2>1, Ending
  <2> DEFINE by == refReq[r].by
             who == refReq[r].who
             f == Refs!Referral(by, who)
  <2>3. f.referred = who
    BY DEF Refs!Referral
  <2>4. /\ referrals' = IF Refs!Conflict(by, who) THEN referrals ELSE referrals \cup {f}
        /\ ~Refs!Conflict(by, who) => \A g \in referrals : g.referred # who
    BY <1>8 DEF Refs!InsertReferral, Refs!Conflict
  <2> HIDE DEF f, by, who
  <2>5. ReferredOnce'
    BY <2>3, <2>4 DEF ReferredOnce
  <2>. QED  BY <2>2, <2>5
<1>9. ASSUME NEW q \in Newcomers, Refs!RankUp(q) PROVE RefInv'
  <2>1. UNCHANGED <<refCode, total, redemptions, refReq>>
    BY <1>9 DEF Refs!RankUp
  <2> DEFINE Up(f) == IF f.referred = q THEN [f EXCEPT !.status = "completed"] ELSE f
  <2>2. referrals' = {Up(f) : f \in referrals}
    BY <1>9 DEF Refs!RankUp
  <2>3. \A f \in referrals : Up(f).referred = f.referred
    OBVIOUS
  <2> HIDE DEF Up
  <2>4. ReferredOnce'
    BY <2>2, <2>3 DEF ReferredOnce
  <2>. QED  BY <1>1, <1>2, <1>4, <2>1, <2>4
<1>10. ASSUME NEW r \in RefRequests, NEW k \in RefCodes, Refs!Draw(r, k) PROVE RefInv'
  <2>1. UNCHANGED <<referrals, cooling, total, redemptions>> /\ refReq[r].by \in RefPlayers
    BY <1>10 DEF Refs!Draw, ReqInv, RequestsWellPut, WellPut
  <2>2. CASE UNCHANGED <<refCode, refReq>>
    BY <1>1, <1>2, <1>3, <1>4, <2>1, <2>2
  <2>3. CASE ~UNCHANGED <<refCode, refReq>>
    <3>1. /\ refCode' = [refCode EXCEPT ![refReq[r].by] = k] /\ Refs!End(r)
          /\ \A q \in RefPlayers : refCode[q] # k
      BY <1>10, <2>3 DEF Refs!Draw, Refs!Taken
    <3>. QED  BY <1>1, <1>3, <2>1, <3>1, Owning, Ending
  <2>. QED  BY <2>2, <2>3
<1>11. ASSUME NEW r \in RefRequests, Refs!Upsert(r) PROVE RefInv'
  <2>1. /\ UNCHANGED <<referrals, total, redemptions>> /\ Refs!End(r)
        /\ refReq[r].code \in RefCodes
    BY <1>11 DEF Refs!Upsert, ReqInv, RequestsWellPut, WellPut
  <2>2. CodeTableInv'
    <3>1. CASE UNCHANGED refCode
      BY <1>2, <3>1
    <3>2. CASE refCode' # refCode
      <4> DEFINE by == refReq[r].by
                 k == refReq[r].code
      <4>1. /\ refCode' = [refCode EXCEPT ![by] = k] /\ k \in RefCodes
            /\ \A q \in RefPlayers \ {by} : refCode[q] # k
        BY <1>11, <2>1, <3>2 DEF Refs!Upsert
      <4> HIDE DEF by, k
      <4>. QED  BY <4>1, Owning
    <3>. QED  BY <3>1, <3>2
  <2>. QED  BY <1>1, <1>3, <2>1, <2>2, Ending
<1>12. ASSUME NEW r \in RefRequests, Refs!InsertRedemption(r) PROVE RefInv'
  <2>1. UNCHANGED <<referrals, refCode>> /\ Refs!End(r)
    BY <1>12 DEF Refs!InsertRedemption
  <2>2. Refs!Redeemed(refReq[r].by) => UNCHANGED <<redemptions, total>>
    BY <1>12 DEF Refs!InsertRedemption
  <2>. QED  BY <1>1, <1>2, <1>3, <1>12, <2>1, <2>2, Ending, Redeeming
<1>13. ASSUME NEW p \in RefPlayers, Refs!MonthPasses(p) PROVE RefInv'
  BY <1>1, <1>2, <1>3, <1>4, <1>13 DEF Refs!MonthPasses
<1>14. CASE UNCHANGED referralsVars
  BY <1>1, <1>2, <1>3, <1>4, <1>14 DEF referralsVars
<1>15. CASE Refs!Next
  BY <1>6, <1>7, <1>8, <1>9, <1>10, <1>11, <1>12, <1>13, <1>15 DEF Refs!Next
<1>. QED  BY <1>14, <1>15

(* However requests for referrals, codes and redemptions interleave, the    *)
(* unique indexes keep each of them single.                                 *)
THEOREM ReferralInvariant == ServiceSpec => [](part = "referrals" => RefInv)
<1>1. ServiceInit => (part = "referrals" => RefInv)
  BY RefInit DEF ServiceInit
<1>2. (part = "referrals" => RefInv) /\ [ServiceNext]_serviceVars => (part = "referrals" => RefInv)'
  BY AccessMoves, RefNext
<1>. QED  BY <1>1, <1>2, PTL DEF ServiceSpec

(* Link codes and referral codes together: what may be used once gives once.*)
THEOREM CodesOnce == ServiceSpec => []CodesGiveOnce
<1>1. (part = "links" => LinkInv) /\ (part = "referrals" => RefInv) => CodesGiveOnce
  <2>1. LinkInv => Links!CodeGivesOnce
    BY DEF LinkInv, CodeInv
  <2>2. ASSUME RefInv PROVE Refs!ReferralsAreSingle
    <3>1. ReferredOnce /\ OneOwner /\ RedeemedOnce /\ PaidForAnother /\ CountedWasPaid
      BY <2>2 DEF RefInv, CodeTableInv, PaidInv
    <3>. QED  BY <3>1, RefsCount DEF ReferredOnce, OneOwner, RedeemedOnce, PaidForAnother, CountedWasPaid,
           Refs!ReferralsAreSingle
  <2>. QED  BY <2>1, <2>2 DEF CodesGiveOnce
<1>. QED  BY <1>1, LinkInvariant, ReferralInvariant, PTL

-----------------------------------------------------------------------------
(* What is paid and for whom: the cache of subscriptions, and checkouts.    *)
(* The part that moves moves by its own next-state relation.                *)
LEMMA MoneyMoves ==
    ASSUME [ServiceNext]_serviceVars
    PROVE  /\ part' = part
           /\ [Subscriptions!Next]_subscriptionsVars
           /\ part = "checkouts" => [Checkouts!Next]_checkoutsVars
BY DEF ServiceNext, LinksStep, SubscriptionsStep, CheckoutsStep, ReadsStep, CacheStep, BoardsStep,
   MessagesStep, NoticesStep, LogStep, DaysStep, AlertsStep, LimitsStep, GateStep, SlotsStep,
   StreamsStep, EventsStep, RefsStep, CommandsStep, Only, serviceVars, subscriptionsVars, checkoutsVars

-----------------------------------------------------------------------------
(* Subscriptions.  A webhook call that writes does so for the owner of the  *)
(* subscription its event is about, and a cancellation that PayNow is asked *)
(* for was verified to be of the player who asks.                           *)
EventRows == [kind : Subscriptions!Kinds, sub : Subs]
CachedRows == [sub : Subscriptions!MaybeSub, status : {"active", "canceled", "none"}, unfit : BOOLEAN]
HookRows == [pc : {"idle", "upsert"}, event : EventRows \cup {Subscriptions!NoEvent},
             uuid : Buyers \cup {"none"}]
CancelRows == [pc : {"idle", "verify", "post", "write"}, sub : Subscriptions!MaybeSub,
               named : BOOLEAN]

HookIsOwners ==
    hook.pc = "upsert" => hook.event \in EventRows /\ hook.uuid = Owner[hook.event.sub]
Asks(c, p) ==
    /\ c.pc # "idle" => c.sub \in Subs
    /\ c.pc \in {"post", "write"} => Owner[c.sub] = p
CancelIsOwners == \A p \in Askers : Asks(cancel[p], p)
SubInv == Subscriptions!TypeOK /\ HookIsOwners /\ CancelIsOwners

LEMMA SubTypes ==
    Subscriptions!TypeOK <=>
        /\ subs \in [Subs -> {"unsold", "active", "canceled"}] /\ events \subseteq EventRows
        /\ cached \in [Buyers -> CachedRows] /\ hook \in HookRows
        /\ cancel \in [Askers -> CancelRows]
BY DEF Subscriptions!TypeOK, EventRows, CachedRows, HookRows, CancelRows, Subscriptions!None

LEMMA Fillers ==
    /\ Subscriptions!NoRow \in CachedRows /\ Subscriptions!NoHook \in HookRows
    /\ Subscriptions!NoHook.pc = "idle"
    /\ Subscriptions!NoCancel \in CancelRows /\ Subscriptions!NoCancel.pc = "idle"
    /\ \A s \in Subs, st \in {"active", "canceled"}, u \in BOOLEAN : Subscriptions!Row(s, st, u) \in CachedRows
    /\ \A k \in Subscriptions!Kinds, s \in Subs : Subscriptions!Event(k, s) \in EventRows
BY DEF CachedRows, HookRows, CancelRows, EventRows, Subscriptions!NoRow, Subscriptions!NoHook,
   Subscriptions!NoCancel, Subscriptions!Row, Subscriptions!Event, Subscriptions!None,
   Subscriptions!MaybeSub, Subscriptions!NoEvent

LEMMA SubInit == Subscriptions!Init => SubInv
<1> SUFFICES ASSUME Subscriptions!Init PROVE SubInv
  OBVIOUS
<1> DEFINE h == Subscriptions!NoHook
           c == Subscriptions!NoCancel
           w == Subscriptions!NoRow
<1>1. /\ subs = [s \in Subs |-> "unsold"] /\ events = {} /\ cached = [p \in Buyers |-> w]
      /\ hook = h /\ cancel = [p \in Askers |-> c]
  BY DEF Subscriptions!Init
<1>2. h \in HookRows /\ h.pc = "idle" /\ c \in CancelRows /\ c.pc = "idle" /\ w \in CachedRows
  BY Fillers
<1> HIDE DEF h, c, w
<1>3. Subscriptions!TypeOK
  BY <1>1, <1>2, SubTypes
<1>4. HookIsOwners /\ CancelIsOwners
  BY <1>1, <1>2 DEF HookIsOwners, CancelIsOwners, Asks
<1>. QED  BY <1>3, <1>4 DEF SubInv

(* Steps of PayNow and of the rows: nobody's request moves.                 *)
LEMMA RowsMove ==
    ASSUME SubInv, UNCHANGED <<hook, cancel>>, cached' \in [Buyers -> CachedRows],
           subs' \in [Subs -> {"unsold", "active", "canceled"}], events' \subseteq EventRows
    PROVE  SubInv'
BY SubTypes DEF SubInv, HookIsOwners, CancelIsOwners, Subscriptions!TypeOK,
   EventRows, CachedRows, Subscriptions!None

LEMMA HookMoves ==
    ASSUME SubInv, UNCHANGED <<subs, cancel>>, NEW h \in HookRows, hook' = h,
           h.pc = "upsert" => h.event \in EventRows /\ h.uuid = Owner[h.event.sub],
           cached' \in [Buyers -> CachedRows], events' \subseteq EventRows
    PROVE  SubInv'
BY SubTypes DEF SubInv, HookIsOwners, CancelIsOwners, Subscriptions!TypeOK,
   EventRows, CachedRows, HookRows, Subscriptions!None

LEMMA CancelMoves ==
    ASSUME SubInv, UNCHANGED hook, NEW p \in Askers, NEW c \in CancelRows,
           cancel' = [cancel EXCEPT ![p] = c],
           Asks(c, p),
           cached' \in [Buyers -> CachedRows],
           subs' \in [Subs -> {"unsold", "active", "canceled"}], events' \subseteq EventRows
    PROVE  SubInv'
<1>1. cancel \in [Askers -> CancelRows] /\ CancelIsOwners
  BY SubTypes DEF SubInv
<1>2. cancel' \in [Askers -> CancelRows] /\ CancelIsOwners'
  BY <1>1 DEF CancelIsOwners
<1>3. Subscriptions!TypeOK'
  BY <1>2, SubTypes DEF SubInv, Subscriptions!TypeOK, EventRows, CachedRows, CancelRows, Subscriptions!None
<1>. QED  BY <1>2, <1>3 DEF SubInv, HookIsOwners

LEMMA HookStep ==
    ASSUME SubInv,
           \/ \E e \in events : Subscriptions!HookSubscription(e) \/ Subscriptions!HookCanceled(e)
           \/ Subscriptions!HookUpsert \/ Subscriptions!HookDies
    PROVE  SubInv'
<1>1. /\ events \subseteq EventRows /\ cached \in [Buyers -> CachedRows] /\ hook \in HookRows
      /\ HookIsOwners
  BY SubTypes DEF SubInv
<1>2. CASE \E e \in events : Subscriptions!HookSubscription(e) \/ Subscriptions!HookCanceled(e)
  <2> PICK e \in events : Subscriptions!HookSubscription(e) \/ Subscriptions!HookCanceled(e)
    BY <1>2
  <2> DEFINE h == [pc |-> "upsert", event |-> e, uuid |-> Owner[e.sub]]
  <2>1. /\ h \in HookRows /\ h.event \in EventRows /\ h.uuid = Owner[h.event.sub]
    BY <1>1, SubscriptionsAssumption DEF EventRows, HookRows
  <2>2. hook' = hook \/ hook' = h
    BY DEF Subscriptions!HookSubscription, Subscriptions!HookCanceled
  <2>3. UNCHANGED <<subs, cached, cancel>> /\ events' \subseteq events
    BY DEF Subscriptions!HookSubscription, Subscriptions!HookCanceled, Subscriptions!Ack, Subscriptions!Nack
  <2> HIDE DEF h
  <2>. QED  BY <1>1, <2>1, <2>2, <2>3, HookMoves DEF HookIsOwners
<1>3. CASE Subscriptions!HookUpsert
  <2>1. /\ hook.event \in EventRows /\ hook.uuid = Owner[hook.event.sub] /\ hook' = Subscriptions!NoHook
        /\ UNCHANGED <<subs, cancel>>
    BY <1>1, <1>3 DEF Subscriptions!HookUpsert, HookIsOwners
  <2>2. events' \subseteq events
    BY <1>3 DEF Subscriptions!HookUpsert, Subscriptions!HookFails, Subscriptions!Ack, Subscriptions!Nack
  <2>3. \/ cached' = cached
        \/ \E st \in {"active", "canceled"} :
             cached' = [cached EXCEPT ![hook.uuid] = Subscriptions!Row(hook.event.sub, st, FALSE)]
    BY <1>3 DEF Subscriptions!HookUpsert, Subscriptions!UpsertCached
  <2>4. hook.event.sub \in Subs
    BY <2>1 DEF EventRows
  <2>5. cached' \in [Buyers -> CachedRows]
    BY <1>1, <2>3, <2>4, Fillers
  <2> DEFINE h == Subscriptions!NoHook
  <2>6. h \in HookRows /\ h.pc = "idle" /\ hook' = h
    BY <2>1, Fillers
  <2> HIDE DEF h
  <2>. QED  BY <1>1, <2>1, <2>2, <2>5, <2>6, HookMoves
<1>4. CASE Subscriptions!HookDies
  <2> DEFINE h == Subscriptions!NoHook
  <2>1. h \in HookRows /\ h.pc = "idle" /\ hook' = h /\ UNCHANGED <<subs, events, cached, cancel>>
    BY <1>4, Fillers DEF Subscriptions!HookDies, Subscriptions!paynowVars
  <2> HIDE DEF h
  <2>. QED  BY <1>1, <2>1, HookMoves
<1>. QED  BY <1>2, <1>3, <1>4

LEMMA CancelStep ==
    ASSUME SubInv, NEW p \in Askers,
           \/ Subscriptions!CancelPick(p) \/ Subscriptions!CancelVerify(p)
           \/ Subscriptions!CancelPost(p) \/ Subscriptions!CancelWrite(p)
    PROVE  SubInv'
<1> DEFINE no == Subscriptions!NoCancel
<1>1. /\ events \subseteq EventRows /\ cached \in [Buyers -> CachedRows]
      /\ subs \in [Subs -> {"unsold", "active", "canceled"}]
      /\ cancel \in [Askers -> CancelRows] /\ cancel[p] \in CancelRows /\ p \in Buyers
      /\ Asks(cancel[p], p)
      /\ no \in CancelRows /\ no.pc = "idle" /\ Asks(no, p)
  BY SubTypes, Fillers, SubscriptionsAssumption DEF SubInv, CancelIsOwners, Asks
<1>2. CASE Subscriptions!CancelPick(p)
  <2> DEFINE S == IF cached[p] # Subscriptions!NoRow THEN {cached[p].sub} \cup Subscriptions!Live(p)
                  ELSE Subscriptions!Live(p)
             named == cached[p] # Subscriptions!NoRow
  <2>1. S \subseteq Subscriptions!MaybeSub
    BY <1>1 DEF Subscriptions!Live, Subscriptions!LiveSubs, Subscriptions!MaybeSub, CachedRows
  <2>2. PICK s \in S : s # "none" /\ cancel' = [cancel EXCEPT ![p] = [pc |-> "verify", sub |-> s, named |-> named]]
    BY <1>2 DEF Subscriptions!CancelPick, Subscriptions!None
  <2>3. UNCHANGED <<subs, events, cached, hook>>
    BY <1>2 DEF Subscriptions!CancelPick, Subscriptions!paynowVars
  <2>4. named \in BOOLEAN
    OBVIOUS
  <2> HIDE DEF S, named
  <2> DEFINE c == [pc |-> "verify", sub |-> s, named |-> named]
  <2>5. c \in CancelRows /\ Asks(c, p) /\ cancel' = [cancel EXCEPT ![p] = c]
    BY <2>1, <2>2, <2>4 DEF CancelRows, Asks, Subscriptions!MaybeSub, Subscriptions!None
  <2> HIDE DEF c
  <2>. QED  BY <1>1, <2>3, <2>5, CancelMoves
<1>3. CASE Subscriptions!CancelVerify(p)
  <2>1. UNCHANGED <<subs, events, cached, hook>>
    BY <1>3 DEF Subscriptions!CancelVerify, Subscriptions!paynowVars
  <2> DEFINE c == [cancel[p] EXCEPT !.pc = "post"]
  <2>2. \/ Owner[cancel[p].sub] = p /\ cancel' = [cancel EXCEPT ![p] = c]
        \/ cancel' = [cancel EXCEPT ![p] = no]
    BY <1>3 DEF Subscriptions!CancelVerify
  <2>3. c \in CancelRows /\ c.sub = cancel[p].sub /\ cancel[p].pc = "verify"
    BY <1>1, <1>3 DEF CancelRows, Subscriptions!CancelVerify
  <2>4. Owner[cancel[p].sub] = p => Asks(c, p)
    BY <1>1, <2>3 DEF Asks
  <2> HIDE DEF c, no
  <2>. QED  BY <1>1, <2>1, <2>2, <2>3, <2>4, CancelMoves
<1>4. CASE Subscriptions!CancelPost(p)
  <2>1. UNCHANGED <<cached, hook>> /\ cancel[p].pc = "post"
    BY <1>4 DEF Subscriptions!CancelPost
  <2> DEFINE s == cancel[p].sub
             c == [cancel[p] EXCEPT !.pc = "write"]
  <2>2. \/ UNCHANGED <<subs, events>>
        \/ /\ subs[s] = "active" /\ subs' = [subs EXCEPT ![s] = "canceled"]
           /\ events' = events \cup {Subscriptions!Event("canceled", s)}
    BY <1>4 DEF Subscriptions!CancelPost, Subscriptions!paynowVars
  <2>3. cancel' = [cancel EXCEPT ![p] = c] \/ cancel' = [cancel EXCEPT ![p] = no]
    BY <1>4 DEF Subscriptions!CancelPost
  <2>4. c \in CancelRows /\ c.sub = s
    BY <1>1 DEF CancelRows
  <2>5. Owner[s] = p /\ s \in Subs /\ Asks(c, p)
    BY <1>1, <2>1, <2>4 DEF Asks
  <2>6. subs' \in [Subs -> {"unsold", "active", "canceled"}]
    BY <1>1, <2>2
  <2>7. events' \subseteq EventRows
    BY <1>1, <2>2, <2>5, Fillers DEF Subscriptions!Kinds
  <2> HIDE DEF s, c, no
  <2>. QED  BY <1>1, <2>1, <2>3, <2>4, <2>5, <2>6, <2>7, CancelMoves
<1>5. CASE Subscriptions!CancelWrite(p)
  <2>1. UNCHANGED <<subs, events, hook>> /\ cancel[p].pc = "write" /\ cancel' = [cancel EXCEPT ![p] = no]
    BY <1>5 DEF Subscriptions!CancelWrite, Subscriptions!paynowVars
  <2>2. cancel[p].sub \in Subs /\ cancel[p].named \in BOOLEAN
    BY <1>1, <2>1 DEF Asks, CancelRows
  <2> DEFINE u == ~cancel[p].named
             w == Subscriptions!Row(cancel[p].sub, "canceled", u)
  <2>3. u \in BOOLEAN
    BY <2>2
  <2>4. w \in CachedRows
    <3> HIDE DEF u
    <3>. QED  BY <2>2, <2>3, Fillers
  <2>5. cached' \in {cached, [cached EXCEPT ![p] = w]}
    BY <1>5 DEF Subscriptions!CancelWrite
  <2> HIDE DEF w, no
  <2>6. cached' \in [Buyers -> CachedRows]
    BY <1>1, <2>4, <2>5
  <2>. QED  BY <1>1, <2>1, <2>6, CancelMoves
<1>. QED  BY <1>2, <1>3, <1>4, <1>5

LEMMA SubNext == SubInv /\ [Subscriptions!Next]_subscriptionsVars => SubInv'
<1> SUFFICES ASSUME SubInv, [Subscriptions!Next]_subscriptionsVars PROVE SubInv'
  OBVIOUS
<1>1. /\ events \subseteq EventRows /\ cached \in [Buyers -> CachedRows]
      /\ subs \in [Subs -> {"unsold", "active", "canceled"}]
  BY SubTypes DEF SubInv
<1>2. ASSUME NEW s \in Subs, Subscriptions!PaynowActs(s) PROVE SubInv'
  <2> PICK k \in Subscriptions!Kinds :
        /\ subs' = [subs EXCEPT ![s] = IF k = "canceled" THEN "canceled" ELSE "active"]
        /\ events' = events \cup {Subscriptions!Event(k, s)}
    BY <1>2 DEF Subscriptions!PaynowActs
  <2>1. UNCHANGED <<cached, hook, cancel>>
    BY <1>2 DEF Subscriptions!PaynowActs
  <2>2. events' \subseteq EventRows
    BY <1>1, Fillers
  <2>3. subs' \in [Subs -> {"unsold", "active", "canceled"}]
    BY <1>1
  <2>. QED  BY <1>1, <2>1, <2>2, <2>3, RowsMove
<1>3. ASSUME NEW p \in Buyers, Subscriptions!Ages(p) PROVE SubInv'
  <2>1. /\ cached' = [cached EXCEPT ![p] = [cached[p] EXCEPT !.unfit = TRUE]]
        /\ UNCHANGED <<subs, events, hook, cancel>>
    BY <1>3 DEF Subscriptions!Ages, Subscriptions!paynowVars
  <2>2. [cached[p] EXCEPT !.unfit = TRUE] \in CachedRows
    BY <1>1 DEF CachedRows
  <2>3. cached' \in [Buyers -> CachedRows]
    BY <1>1, <2>1, <2>2
  <2>. QED  BY <1>1, <2>1, <2>3, RowsMove
<1>4. ASSUME NEW p \in Buyers, Subscriptions!ChangeTier(p) PROVE SubInv'
  <2>1. UNCHANGED <<subs, cached, hook, cancel>>
    BY <1>4 DEF Subscriptions!ChangeTier
  <2>2. PICK s \in Subscriptions!LiveSubs(p) : events' = events \cup {Subscriptions!Event("renewed", s)}
    BY <1>4 DEF Subscriptions!ChangeTier
  <2>3. events' \subseteq EventRows
    BY <1>1, <2>2, Fillers DEF Subscriptions!LiveSubs, Subscriptions!Kinds
  <2>. QED  BY <1>1, <2>1, <2>3, RowsMove
<1>5. ASSUME NEW p \in Buyers, NEW s \in Subs, Subscriptions!RowIsTampered(p, s) PROVE SubInv'
  <2>1. /\ cached' = [cached EXCEPT ![p] = Subscriptions!Row(s, "active", FALSE)]
        /\ UNCHANGED <<subs, events, hook, cancel>>
    BY <1>5 DEF Subscriptions!RowIsTampered, Subscriptions!UpsertCached, Subscriptions!paynowVars
  <2>2. cached' \in [Buyers -> CachedRows]
    BY <1>1, <2>1, Fillers
  <2>. QED  BY <1>1, <2>1, <2>2, RowsMove
<1>6. CASE UNCHANGED subscriptionsVars
  BY <1>1, <1>6, RowsMove DEF subscriptionsVars
<1>. QED
  BY <1>2, <1>3, <1>4, <1>5, <1>6, HookStep, CancelStep DEF Subscriptions!Next

(* Types, owners of webhook calls and owners of cancellations.              *)
THEOREM SubscriptionInvariant == ServiceSpec => []SubInv
<1>1. ServiceInit => SubInv
  BY SubInit DEF ServiceInit
<1>2. SubInv /\ [ServiceNext]_serviceVars => SubInv'
  BY MoneyMoves, SubNext
<1>. QED  BY <1>1, <1>2, PTL DEF ServiceSpec

(* Whatever a cached row says, PayNow is asked to cancel nobody else's      *)
(* subscription, and no player is shown a product outside the catalogue as  *)
(* his tier.                                                                *)
THEOREM OwnSubscriptions == ServiceSpec => []SubscriptionsAreOwn
<1>1. ASSUME NEW p PROVE Subscriptions!ShowSubscription(p) \cap Foreign = {}
  BY SubscriptionsAssumption DEF Subscriptions!ShowSubscription, Subscriptions!Servable,
     Subscriptions!Live, Subscriptions!LiveSubs, Subscriptions!None
<1>2. SubInv => SubscriptionsAreOwn
  BY <1>1 DEF SubInv, CancelIsOwners, Asks, SubscriptionsAreOwn, Subscriptions!OnlyOwnerCancels,
     Subscriptions!ShownIsDonor
<1>. QED  BY <1>2, SubscriptionInvariant, PTL

(* An event about a cancellation goes only in the step that caches it for   *)
(* the owner of the subscription, whatever fails or dies in between.        *)
LEMMA ClosedIsCached ==
    ASSUME SubInv, [Subscriptions!Next]_subscriptionsVars,
           NEW e \in events \ events', e.kind = "canceled"
    PROVE  cached'[Owner[e.sub]] = Subscriptions!Row(e.sub, "canceled", FALSE)
<1>1. events \subseteq EventRows /\ cached \in [Buyers -> CachedRows] /\ HookIsOwners
  BY SubTypes DEF SubInv
<1>2. Subscriptions!HookUpsert
  <2>1. ASSUME NEW f \in events, Subscriptions!HookSubscription(f) \/ Subscriptions!HookCanceled(f)
        PROVE  FALSE
    BY <2>1 DEF Subscriptions!HookSubscription, Subscriptions!HookCanceled, Subscriptions!Ack, Subscriptions!Nack
  <2>2. ASSUME NEW s \in Subs, Subscriptions!PaynowActs(s) PROVE FALSE
    BY <2>2 DEF Subscriptions!PaynowActs
  <2>3. ASSUME NEW p, \/ Subscriptions!Ages(p) \/ Subscriptions!ChangeTier(p)
                      \/ \E s \in Subs : Subscriptions!RowIsTampered(p, s)
                      \/ Subscriptions!CancelPick(p) \/ Subscriptions!CancelVerify(p)
                      \/ Subscriptions!CancelPost(p) \/ Subscriptions!CancelWrite(p)
        PROVE  FALSE
    BY <2>3 DEF Subscriptions!Ages, Subscriptions!ChangeTier, Subscriptions!RowIsTampered,
       Subscriptions!CancelPick, Subscriptions!CancelVerify, Subscriptions!CancelPost,
       Subscriptions!CancelWrite, Subscriptions!paynowVars
  <2>. QED  BY <2>1, <2>2, <2>3 DEF Subscriptions!Next, Subscriptions!HookDies,
              Subscriptions!paynowVars, subscriptionsVars
<1>3. /\ hook.event \in EventRows /\ hook.uuid = Owner[hook.event.sub]
  BY <1>1, <1>2 DEF Subscriptions!HookUpsert, HookIsOwners
<1>4. e = hook.event
  BY <1>2 DEF Subscriptions!HookUpsert, Subscriptions!HookFails, Subscriptions!Ack, Subscriptions!Nack
<1>5. cached' = [cached EXCEPT ![hook.uuid] = Subscriptions!Row(e.sub, "canceled", FALSE)]
  BY <1>2, <1>4 DEF Subscriptions!HookUpsert, Subscriptions!UpsertCached, Subscriptions!HookFails, Subscriptions!Nack
<1>6. hook.uuid \in Buyers
  BY <1>3, SubscriptionsAssumption DEF EventRows
<1>. QED  BY <1>1, <1>3, <1>4, <1>5, <1>6

(* PayNow learns of a cancellation only after the cache was told, whatever  *)
(* calls interleave.                                                        *)
THEOREM CancellationsAreKept == ServiceSpec => ClosedCancelWasCached
<1>1. SubInv /\ [ServiceNext]_serviceVars =>
        [\A e \in events \ events' :
           e.kind = "canceled" => cached'[Owner[e.sub]] = Subscriptions!Row(e.sub, "canceled", FALSE)]_(Subscriptions!subVars)
  BY MoneyMoves, ClosedIsCached
<1>. QED
  BY <1>1, SubscriptionInvariant, PTL DEF ServiceSpec, ClosedCancelWasCached, Subscriptions!ClosedCancelWasCached

-----------------------------------------------------------------------------
(* Checkouts.  The account a checkout was opened for, or its gift is for,   *)
(* fits the name that was typed; the line is of a kind the checkout sells,  *)
(* and only a giftable product has a recipient of its own.                  *)
Fits(a, t) ==
    /\ a.platform \in {"java", "bedrock", "offline"} /\ a.name \in Names /\ a.name = t.name
    /\ (a.platform \in {"bedrock", "offline"}) = t.dot
LineRows == [product : Checkouts!Products, sub : BOOLEAN,
             giftTo : Checkouts!Accounts \cup {Checkouts!Nobody}, quantity : 1 .. 99]
LineFits(l) ==
    /\ l \in LineRows
    /\ IF l.sub THEN l.product = "subscription" ELSE Checkouts!isOneTimeStoreProduct(l.product)
    /\ l.giftTo # Checkouts!Nobody => Checkouts!isGiftableProduct(l.product)
Opened(b, l, t) ==
    /\ LineFits(l) /\ t \in Checkouts!Typed
    /\ Fits(IF l.giftTo = Checkouts!Nobody THEN b ELSE l.giftTo, t)
SessionInv == session = Checkouts!NoSession \/ Opened(session.buyer, session.line, session.named)
HandedOut(g) ==
    /\ g.to.name = session.named.name
    /\ (g.to.platform \in {"bedrock", "offline"}) = session.named.dot
    /\ g.kind \in {"rank", "aureus", "crate_key", "booster", "starter", "subscription"}
    /\ session.line.sub <=> g.kind = "subscription"
    /\ g.kind \in {"aureus", "crate_key", "booster"} => g.units = session.line.quantity
CheckoutInv ==
    /\ registry \subseteq Checkouts!Accounts /\ SessionInv
    /\ goods = Checkouts!NoGoods \/ (session # Checkouts!NoSession /\ HandedOut(goods))

(* Whoever the store takes for the buyer is the account that was named.     *)
LEMMA ResolvedFits ==
    ASSUME registry \subseteq Checkouts!Accounts, NEW t \in Checkouts!Typed,
           NEW a \in Checkouts!Resolved(t), a # Checkouts!Nobody
    PROVE  Fits(a, t)
<1>1. a \in Checkouts!ByName(t) \/ a \in Checkouts!FromMojang(t)
  BY DEF Checkouts!Resolved
<1>2. CASE a \in Checkouts!ByName(t)
  BY <1>2, CheckoutsAssumption
     DEF Checkouts!ByName, Checkouts!Accounts, Checkouts!Account, Fits, Checkouts!Typed
<1>3. CASE a \in Checkouts!FromMojang(t)
  BY <1>3, CheckoutsAssumption DEF Checkouts!FromMojang, Checkouts!Account, Fits, Checkouts!Typed
<1>. QED  BY <1>1, <1>2, <1>3

LEMMA AccountFits ==
    ASSUME NEW a \in Checkouts!Accounts
    PROVE  /\ Fits(a, [dot |-> a.platform = "bedrock", name |-> a.name])
           /\ [dot |-> a.platform = "bedrock", name |-> a.name] \in Checkouts!Typed
           /\ a # Checkouts!Nobody
<1>1. a.platform \in {"java", "bedrock"} /\ a.name \in Names
  BY CheckoutsAssumption DEF Checkouts!Accounts, Checkouts!Account
<1> DEFINE t == [dot |-> a.platform = "bedrock", name |-> a.name]
<1>2. t.name = a.name /\ t.dot = (a.platform = "bedrock") /\ t.dot \in BOOLEAN
  OBVIOUS
<1>3. t \in Checkouts!Typed
  BY <1>1 DEF Checkouts!Typed
<1>4. Fits(a, t)
  BY <1>1, <1>2 DEF Fits
<1>5. Checkouts!Nobody.platform = "none"
  BY DEF Checkouts!Nobody, Checkouts!Account, Checkouts!None
<1>. QED  BY <1>1, <1>3, <1>4, <1>5

LEMMA GuestFits ==
    ASSUME registry \subseteq Checkouts!Accounts, NEW t \in Checkouts!Typed,
           NEW a \in Checkouts!GuestBuyer(t), a # Checkouts!Nobody
    PROVE  Fits(a, t)
<1>1. \/ a \in Checkouts!Resolved(t)
      \/ t.dot /\ a = Checkouts!Account("offline", t.name)
  BY DEF Checkouts!GuestBuyer
<1>2. CASE t.dot /\ a = Checkouts!Account("offline", t.name)
  BY <1>2 DEF Checkouts!Account, Fits, Checkouts!Typed
<1>. QED  BY <1>1, <1>2, ResolvedFits

LEMMA BuyerFits ==
    ASSUME registry \subseteq Checkouts!Accounts, NEW cred \in Checkouts!Creds,
           NEW p \in Checkouts!StoreAuth(cred) \ {Checkouts!Nobody}
    PROVE  Fits(p, Checkouts!NameOf(cred, p)) /\ Checkouts!NameOf(cred, p) \in Checkouts!Typed
<1> DEFINE no == Checkouts!Nobody
           t == [dot |-> p.platform = "bedrock", name |-> p.name]
<1>1. CASE cred.token \in {"service", "bot"}
  <2>1. cred.uuid \in Checkouts!Accounts \cup {no} /\ cred.session = no
        /\ cred.guest \in Checkouts!Typed \cup {Checkouts!NoName}
    BY <1>1 DEF Checkouts!Creds, Checkouts!None
  <2>2. CASE cred.uuid # no
    <3>1. p = cred.uuid
      <4>1. CASE cred.token = "service"
        BY <2>2, <4>1 DEF Checkouts!StoreAuth
      <4>2. CASE cred.token = "bot"
        <5>1. Checkouts!StoreAuth(cred) = {no}
          BY <2>2, <4>2 DEF Checkouts!StoreAuth
        <5>. QED  BY <5>1
      <4>. QED  BY <1>1, <4>1, <4>2
    <3>2. Checkouts!NameOf(cred, p) = t
      BY <2>2 DEF Checkouts!NameOf
    <3>. QED  BY <2>1, <2>2, <3>1, <3>2, AccountFits
  <2>3. CASE cred.uuid = no
    <3>1. cred.guest # Checkouts!NoName /\ p \in Checkouts!GuestBuyer(cred.guest)
      BY <1>1, <2>3 DEF Checkouts!StoreAuth
    <3>2. Checkouts!NameOf(cred, p) = cred.guest
      BY <2>1, <2>3 DEF Checkouts!NameOf
    <3>. QED  BY <2>1, <3>1, <3>2, GuestFits
  <2>. QED  BY <2>2, <2>3
<1>2. CASE cred.token \notin {"service", "bot"}
  <2>1. cred.session \in Checkouts!Accounts
    BY <1>2 DEF Checkouts!Creds
  <2>2. p = cred.session
    BY <1>2 DEF Checkouts!StoreAuth
  <2>3. p # no
    OBVIOUS
  <2>4. Checkouts!NameOf(cred, p) = t
    BY <2>2, <2>3 DEF Checkouts!NameOf
  <2>. QED  BY <2>1, <2>2, <2>4, AccountFits
<1>. QED  BY <1>1, <1>2

(* What the three routes open.                                              *)
LEMMA OpenStep ==
    ASSUME CheckoutInv, session = Checkouts!NoSession, goods' = goods,
           registry' \subseteq Checkouts!Accounts, NEW b, NEW l, NEW t,
           Checkouts!Open(b, l, t), Opened(b, l, t)
    PROVE  CheckoutInv'
<1> DEFINE s == [buyer |-> b, line |-> l, named |-> t]
<1>1. session' = session \/ session' = s
  BY DEF Checkouts!Open
<1>2. s.buyer = b /\ s.line = l /\ s.named = t
  OBVIOUS
<1> HIDE DEF s
<1>3. goods = Checkouts!NoGoods
  BY DEF CheckoutInv
<1>. QED  BY <1>1, <1>2, <1>3 DEF CheckoutInv, SessionInv

LEMMA ClampFits == \A q \in Int : Checkouts!Clamp(q) \in 1 .. 99
BY DEF Checkouts!Clamp

(* A line for the buyer himself.                                            *)
LEMMA OwnLine ==
    ASSUME NEW product \in Checkouts!Products, NEW isSub \in BOOLEAN, NEW q \in 1 .. 99,
           IF isSub THEN product = "subscription" ELSE Checkouts!isOneTimeStoreProduct(product),
           NEW b, NEW t \in Checkouts!Typed, Fits(b, t)
    PROVE  Opened(b, Checkouts!Line(product, isSub, Checkouts!Nobody, q), t)
<1> DEFINE no == Checkouts!Nobody
           l == Checkouts!Line(product, isSub, no, q)
<1>1. l \in LineRows /\ l.product = product /\ l.sub = isSub /\ l.giftTo = no /\ l.quantity = q
  BY DEF Checkouts!Line, LineRows
<1> HIDE DEF l
<1>2. LineFits(l)
  BY <1>1 DEF LineFits
<1>3. Opened(b, l, t)
  BY <1>1, <1>2 DEF Opened
<1>. QED  BY <1>3 DEF l

LEMMA GiftLine ==
    ASSUME NEW product \in Checkouts!Products, Checkouts!isGiftableProduct(product), NEW q \in 1 .. 99,
           NEW b, NEW r, NEW t \in Checkouts!Typed, Fits(r, t), r \in Checkouts!Accounts, r # Checkouts!Nobody
    PROVE  /\ Opened(b, Checkouts!Line(product, FALSE, r, q), t)
           /\ Opened(r, Checkouts!Line(product, FALSE, Checkouts!Nobody, q), t)
<1>1. Checkouts!isOneTimeStoreProduct(product)
  BY DEF Checkouts!isGiftableProduct, Checkouts!isOneTimeStoreProduct, Checkouts!ResolveDispatch, Checkouts!None
<1> DEFINE l == Checkouts!Line(product, FALSE, r, q)
<1>2. l \in LineRows /\ l.product = product /\ ~l.sub /\ l.giftTo = r /\ l.quantity = q
  BY DEF Checkouts!Line, LineRows
<1> HIDE DEF l
<1>3. LineFits(l)
  BY <1>1, <1>2 DEF LineFits
<1>4. Opened(b, l, t)
  BY <1>2, <1>3 DEF Opened
<1>5. Opened(r, Checkouts!Line(product, FALSE, Checkouts!Nobody, q), t)
  BY <1>1, OwnLine
<1>. QED  BY <1>4, <1>5 DEF l

LEMMA RequestStep == CheckoutInv /\ Checkouts!Request => CheckoutInv'
<1> SUFFICES ASSUME CheckoutInv, Checkouts!Request PROVE CheckoutInv'
  OBVIOUS
<1> DEFINE no == Checkouts!Nobody
<1>1. registry \subseteq Checkouts!Accounts /\ session = Checkouts!NoSession /\ goods' = goods
  BY DEF CheckoutInv, Checkouts!Request
<1>2. PICK cred \in Checkouts!Creds, product \in Checkouts!Products :
        \/ \E isSub \in BOOLEAN :
              \/ Checkouts!Checkout(cred, product, isSub)
              \/ \E t \in Checkouts!Typed \cup {Checkouts!NoName}, q \in Quantities :
                    Checkouts!CartCheckout(cred, product, isSub, t, q)
        \/ \E t \in Checkouts!Typed : Checkouts!GiftCheckout(cred, product, t)
  BY DEF Checkouts!Request
<1>3. ASSUME NEW t \in Checkouts!Typed, NEW r \in Checkouts!Resolved(t) \ {no},
             registry' \in Checkouts!Remembered(r)
      PROVE  registry' \subseteq Checkouts!Accounts /\ Fits(r, t) /\ r \in Checkouts!Accounts
  <2>1. Fits(r, t)
    BY <1>1, ResolvedFits
  <2>2. r \in Checkouts!Accounts
    BY <1>1 DEF Checkouts!Resolved, Checkouts!ByName, Checkouts!FromMojang, Checkouts!Accounts
  <2>. QED  BY <1>1, <1>3, <2>1, <2>2 DEF Checkouts!Remembered
<1>4. ASSUME NEW isSub \in BOOLEAN, NEW q \in 1 .. 99, NEW p \in Checkouts!StoreAuth(cred) \ {no},
             IF isSub THEN product = "subscription" ELSE Checkouts!isOneTimeStoreProduct(product),
             Checkouts!Open(p, Checkouts!Line(product, isSub, no, q), Checkouts!NameOf(cred, p)),
             registry' = registry
      PROVE  CheckoutInv'
  <2>1. Fits(p, Checkouts!NameOf(cred, p)) /\ Checkouts!NameOf(cred, p) \in Checkouts!Typed
    BY <1>1, BuyerFits
  <2>2. Opened(p, Checkouts!Line(product, isSub, no, q), Checkouts!NameOf(cred, p))
    BY <1>4, <2>1, OwnLine
  <2>. QED  BY <1>1, <1>4, <2>2, OpenStep
<1>5. ASSUME NEW isSub \in BOOLEAN, Checkouts!Checkout(cred, product, isSub) PROVE CheckoutInv'
  BY <1>4, <1>5 DEF Checkouts!Checkout
<1>6. ASSUME NEW isSub \in BOOLEAN, NEW t \in Checkouts!Typed \cup {Checkouts!NoName}, NEW q \in Quantities,
             Checkouts!CartCheckout(cred, product, isSub, t, q)
      PROVE  CheckoutInv'
  <2> DEFINE c == Checkouts!Clamp(q)
  <2>1. c \in 1 .. 99
    BY ClampFits, CheckoutsAssumption
  <2>2. PICK p \in Checkouts!StoreAuth(cred) \ {no} :
          \/ /\ t = Checkouts!NoName
             /\ IF isSub THEN product = "subscription" ELSE Checkouts!isOneTimeStoreProduct(product)
             /\ Checkouts!Open(p, Checkouts!Line(product, isSub, no, c), Checkouts!NameOf(cred, p))
             /\ registry' = registry
          \/ /\ t # Checkouts!NoName /\ Checkouts!isGiftableProduct(product)
             /\ \E r \in Checkouts!Resolved(t) \ {no, p} :
                   /\ Checkouts!Open(p, Checkouts!Line(product, FALSE, r, c), t)
                   /\ registry' \in Checkouts!Remembered(r)
    BY <1>6 DEF Checkouts!CartCheckout
  <2> HIDE DEF c
  <2>3. CASE t = Checkouts!NoName
    BY <1>4, <2>1, <2>2, <2>3
  <2>4. CASE t # Checkouts!NoName
    <3> PICK r \in Checkouts!Resolved(t) \ {no, p} :
          /\ Checkouts!Open(p, Checkouts!Line(product, FALSE, r, c), t)
          /\ registry' \in Checkouts!Remembered(r)
      BY <2>2, <2>4
    <3>1. registry' \subseteq Checkouts!Accounts /\ Fits(r, t) /\ r \in Checkouts!Accounts /\ t \in Checkouts!Typed
      BY <1>3, <2>4
    <3>2. Opened(p, Checkouts!Line(product, FALSE, r, c), t)
      BY <2>1, <2>2, <2>4, <3>1, GiftLine
    <3>. QED  BY <1>1, <3>1, <3>2, OpenStep
  <2>. QED  BY <2>3, <2>4
<1>7. ASSUME NEW t \in Checkouts!Typed, Checkouts!GiftCheckout(cred, product, t) PROVE CheckoutInv'
  <2>1. PICK r \in Checkouts!Resolved(t) \ {no} :
          /\ Checkouts!isGiftableProduct(product) /\ registry' \in Checkouts!Remembered(r)
          /\ Checkouts!Open(r, Checkouts!Line(product, FALSE, no, 1), t)
    BY <1>7 DEF Checkouts!GiftCheckout
  <2>2. registry' \subseteq Checkouts!Accounts /\ Fits(r, t) /\ r \in Checkouts!Accounts /\ 1 \in 1 .. 99
    BY <1>3, <2>1
  <2>3. Opened(r, Checkouts!Line(product, FALSE, no, 1), t)
    BY <2>1, <2>2, GiftLine
  <2>. QED  BY <1>1, <2>1, <2>2, <2>3, OpenStep
<1>. QED  BY <1>2, <1>5, <1>6, <1>7

(* The order webhook knows every product that a line may have.              *)
LEMMA DeliverStep == CheckoutInv /\ Checkouts!Deliver => CheckoutInv'
<1> SUFFICES ASSUME CheckoutInv, Checkouts!Deliver PROVE CheckoutInv'
  OBVIOUS
<1> DEFINE no == Checkouts!Nobody
           l == session.line
           kind == Checkouts!ResolveDispatch(l.product)
           to == IF l.giftTo = no THEN session.buyer ELSE l.giftTo
<1>1. /\ Opened(session.buyer, l, session.named) /\ session # Checkouts!NoSession
      /\ UNCHANGED <<registry, session>> /\ registry \subseteq Checkouts!Accounts
  BY DEF CheckoutInv, SessionInv, Checkouts!Deliver
<1>2. LineFits(l) /\ Fits(to, session.named)
  BY <1>1 DEF Opened
<1> DEFINE o == Checkouts!OrderLine(l)
<1>3. l \in LineRows /\ l.quantity \in 1 .. 99
  BY <1>2 DEF LineFits, LineRows
<1>4. o.product = l.product /\ o.giftTo = l.giftTo /\ o.quantity = Checkouts!Clamp(l.quantity)
  BY <1>3 DEF Checkouts!OrderLine, LineRows
<1>5. Checkouts!Clamp(l.quantity) = l.quantity
  BY <1>3 DEF Checkouts!Clamp
<1>6. \/ /\ kind = Checkouts!None
         /\ goods' = [to |-> session.buyer, kind |-> l.product, units |-> 1]
      \/ /\ kind # Checkouts!None
         /\ goods' = [to |-> to, kind |-> kind, units |-> Checkouts!CommandUnits(l.product, l.quantity)]
  <2>1. goods' = IF Checkouts!ResolveDispatch(o.product) = Checkouts!None
                 THEN [to |-> session.buyer, kind |-> o.product, units |-> 1]
                 ELSE [to |-> IF o.giftTo = no THEN session.buyer ELSE o.giftTo,
                       kind |-> Checkouts!ResolveDispatch(o.product),
                       units |-> Checkouts!CommandUnits(o.product, o.quantity)]
    BY DEF Checkouts!Deliver
  <2> HIDE DEF o
  <2>. QED  BY <1>4, <1>5, <2>1
<1> DEFINE g == goods'
<1>7. CASE kind = Checkouts!None
  <2>1. l.giftTo = no /\ l.product \in {"starter", "subscription"}
    BY <1>2, <1>7 DEF LineFits, Checkouts!isGiftableProduct, Checkouts!isOneTimeStoreProduct,
       Checkouts!ResolveDispatch, Checkouts!None
  <2>2. g.to = to /\ g.kind = l.product
    BY <1>6, <1>7, <2>1
  <2>3. l.sub <=> l.product = "subscription"
    BY <1>2, <1>7, <2>1 DEF LineFits, Checkouts!isOneTimeStoreProduct
  <2> HIDE DEF g, to
  <2>4. HandedOut(g)
    BY <1>2, <2>1, <2>2, <2>3 DEF HandedOut, Fits
  <2>. QED  BY <1>1, <2>4 DEF CheckoutInv, SessionInv, HandedOut, g
<1>8. CASE kind # Checkouts!None
  <2>1. g.to = to /\ g.kind = kind /\ g.units = Checkouts!CommandUnits(l.product, l.quantity)
    BY <1>6, <1>8
  <2>2. ~l.sub /\ kind \in {"rank", "aureus", "crate_key", "booster"}
    BY <1>2, <1>8 DEF LineFits, Checkouts!ResolveDispatch, Checkouts!None
  <2>3. kind # "rank" => g.units = l.quantity
    BY <1>5, <2>1 DEF Checkouts!CommandUnits
  <2> HIDE DEF g, to, kind
  <2>4. HandedOut(g)
    BY <1>2, <2>1, <2>2, <2>3 DEF HandedOut, Fits
  <2>. QED  BY <1>1, <2>4 DEF CheckoutInv, SessionInv, HandedOut, g
<1>. QED  BY <1>7, <1>8

LEMMA CheckoutNext == CheckoutInv /\ [Checkouts!Next]_checkoutsVars => CheckoutInv'
<1> SUFFICES ASSUME CheckoutInv, [Checkouts!Next]_checkoutsVars PROVE CheckoutInv'
  OBVIOUS
<1>1. ASSUME NEW a \in Checkouts!Accounts, Checkouts!Joins(a) PROVE CheckoutInv'
  BY <1>1 DEF Checkouts!Joins, CheckoutInv, SessionInv, HandedOut
<1>2. CASE UNCHANGED checkoutsVars
  BY <1>2 DEF checkoutsVars, CheckoutInv, SessionInv, HandedOut
<1>. QED  BY <1>1, <1>2, RequestStep, DeliverStep DEF Checkouts!Next

(* What a checkout is opened with: an account that fits the typed name, and *)
(* a line that the order webhook will know.                                 *)
THEOREM CheckoutInvariant == ServiceSpec => [](part = "checkouts" => CheckoutInv)
<1>1. ServiceInit => (part = "checkouts" => CheckoutInv)
  BY DEF ServiceInit, Checkouts!Init, CheckoutInv, SessionInv
<1>2. (part = "checkouts" => CheckoutInv) /\ [ServiceNext]_serviceVars => (part = "checkouts" => CheckoutInv)'
  BY MoneyMoves, CheckoutNext
<1>. QED  BY <1>1, <1>2, PTL DEF ServiceSpec

(* What was paid is what is handed out, to whom it was bought for.          *)
THEOREM PaidGoods == ServiceSpec => []PaidIsHandedOut
<1>1. (part = "checkouts" => CheckoutInv) => PaidIsHandedOut
  BY DEF CheckoutInv, HandedOut, PaidIsHandedOut, Checkouts!PaidIsHandedOut
<1>. QED  BY <1>1, CheckoutInvariant, PTL
=============================================================================
