-------------------------- MODULE ServiceTypeProofs --------------------------
(***************************************************************************)
(* The types of the variables of every part of the service: the theorems   *)
(* of the other modules show what the parts promise, from invariants that  *)
(* hold the types their proofs need; here the rest is added.               *)
(***************************************************************************)
EXTENDS ServiceAccessProofs, ServiceJobsProofs, ServiceTrafficProofs

(* Links, subscriptions and gates: their invariants hold all the types.     *)
LEMMA LinksTyped == ServiceSpec => [](part = "links" => Links!TypeOK)
<1>1. (part = "links" => LinkInv) => (part = "links" => Links!TypeOK)
  BY DEF LinkInv
<1>. QED  BY <1>1, LinkInvariant, PTL

LEMMA SubscriptionsTyped == ServiceSpec => [](part = "subscriptions" => Subscriptions!TypeOK)
<1>1. SubInv => (part = "subscriptions" => Subscriptions!TypeOK)
  BY DEF SubInv
<1>. QED  BY <1>1, SubscriptionInvariant, PTL

LEMMA GatesTyped == ServiceSpec => [](part = "gates" => Gate!GateTypeOK)
<1>1. (part = "gates" => GateInv) => (part = "gates" => Gate!GateTypeOK)
  BY DEF GateInv
<1>. QED  BY <1>1, GateInvariant, PTL

-----------------------------------------------------------------------------
(* Checkouts.  A customer is an account or the offline account of a guest.  *)
Payers == Checkouts!Accounts \cup {Checkouts!Account("offline", n) : n \in Names}

LEMMA ResolvedIsAccount ==
    ASSUME registry \subseteq Checkouts!Accounts, NEW t,
           NEW r \in Checkouts!Resolved(t) \ {Checkouts!Nobody}
    PROVE  r \in Checkouts!Accounts
BY DEF Checkouts!Resolved, Checkouts!ByName, Checkouts!FromMojang, Checkouts!Accounts

LEMMA BuyerPays ==
    ASSUME registry \subseteq Checkouts!Accounts, NEW cred \in Checkouts!Creds,
           NEW p \in Checkouts!StoreAuth(cred) \ {Checkouts!Nobody}
    PROVE  p \in Payers
<1> DEFINE no == Checkouts!Nobody
<1>1. CASE cred.token \in {"service", "bot"}
  <2>1. cred.uuid \in Checkouts!Accounts \cup {no} /\ cred.guest \in Checkouts!Typed \cup {Checkouts!NoName}
    BY <1>1 DEF Checkouts!Creds, Checkouts!None
  <2>2. CASE cred.uuid # no
    <3>1. p \in {cred.uuid, no}
      BY <1>1, <2>2 DEF Checkouts!StoreAuth
    <3>. QED  BY <2>1, <3>1 DEF Payers
  <2>3. CASE cred.uuid = no
    <3>1. cred.guest \in Checkouts!Typed /\ p \in Checkouts!GuestBuyer(cred.guest)
      BY <1>1, <2>1, <2>3 DEF Checkouts!StoreAuth
    <3>2. p \in Checkouts!Resolved(cred.guest) \/ p = Checkouts!Account("offline", cred.guest.name)
      BY <3>1 DEF Checkouts!GuestBuyer
    <3>3. cred.guest.name \in Names
      BY <3>1 DEF Checkouts!Typed
    <3>. QED  BY <3>2, <3>3, ResolvedIsAccount DEF Payers
  <2>. QED  BY <2>2, <2>3
<1>2. CASE cred.token \notin {"service", "bot"}
  <2>1. cred.session \in Checkouts!Accounts
    BY <1>2 DEF Checkouts!Creds
  <2>2. p = cred.session
    BY <1>2 DEF Checkouts!StoreAuth
  <2>. QED  BY <2>1, <2>2 DEF Payers
<1>. QED  BY <1>1, <1>2

LEMMA CustomersStay ==
    ASSUME CheckoutInv, customers \subseteq Payers, Checkouts!Request
    PROVE  customers' \subseteq Payers
<1>1. registry \subseteq Checkouts!Accounts
  BY DEF CheckoutInv
<1>2. PICK cred \in Checkouts!Creds, product \in Checkouts!Products :
        \/ \E isSub \in BOOLEAN :
              \/ Checkouts!Checkout(cred, product, isSub)
              \/ \E t \in Checkouts!Typed \cup {Checkouts!NoName}, q \in Quantities :
                    Checkouts!CartCheckout(cred, product, isSub, t, q)
        \/ \E t \in Checkouts!Typed : Checkouts!GiftCheckout(cred, product, t)
  BY DEF Checkouts!Request
<1>3. ASSUME NEW S, S \subseteq Payers, Checkouts!CustomerKept(S)
      PROVE  customers' \subseteq Payers
  BY <1>3 DEF Checkouts!CustomerKept
<1>4. ASSUME NEW isSub \in BOOLEAN, Checkouts!Checkout(cred, product, isSub)
      PROVE  customers' \subseteq Payers
  <2>1. PICK p \in Checkouts!StoreAuth(cred) \ {Checkouts!Nobody} : Checkouts!CustomerKept({p})
    BY <1>4 DEF Checkouts!Checkout
  <2>. QED  BY <1>1, <1>3, <2>1, BuyerPays
<1>5. ASSUME NEW isSub \in BOOLEAN, NEW t \in Checkouts!Typed \cup {Checkouts!NoName}, NEW q \in Quantities,
             Checkouts!CartCheckout(cred, product, isSub, t, q)
      PROVE  customers' \subseteq Payers
  <2>1. PICK p \in Checkouts!StoreAuth(cred) \ {Checkouts!Nobody} :
          \/ Checkouts!CustomerKept({p})
          \/ \E r \in Checkouts!Resolved(t) \ {Checkouts!Nobody} : Checkouts!CustomerKept({p, r})
    BY <1>5 DEF Checkouts!CartCheckout
  <2>2. p \in Payers /\ \A r \in Checkouts!Resolved(t) \ {Checkouts!Nobody} : r \in Payers
    BY <1>1, BuyerPays, ResolvedIsAccount DEF Payers
  <2>. QED  BY <1>3, <2>1, <2>2
<1>6. ASSUME NEW t \in Checkouts!Typed, Checkouts!GiftCheckout(cred, product, t)
      PROVE  customers' \subseteq Payers
  <2>1. PICK r \in Checkouts!Resolved(t) \ {Checkouts!Nobody} : Checkouts!CustomerKept({r})
    BY <1>6 DEF Checkouts!GiftCheckout
  <2>. QED  BY <1>1, <1>3, <2>1, ResolvedIsAccount DEF Payers
<1>. QED  BY <1>2, <1>4, <1>5, <1>6

LEMMA UnitsStay ==
    ASSUME CheckoutInv, Checkouts!Deliver
    PROVE  goods'.units \in 0 .. 99
<1> DEFINE l == Checkouts!OrderLine(session.line)
           n == Checkouts!CommandUnits(l.product, l.quantity)
<1>1. session.line.quantity \in 1 .. 99 /\ session.line \in LineRows
  BY DEF CheckoutInv, SessionInv, Opened, LineFits, LineRows, Checkouts!Deliver
<1>2. l.quantity = Checkouts!Clamp(session.line.quantity)
  BY <1>1 DEF Checkouts!OrderLine, LineRows
<1>3. l.quantity \in 1 .. 99
  BY <1>1, <1>2, ClampFits
<1>4. goods'.units = 1 \/ goods'.units = n
  <2> HIDE DEF l
  <2>. QED  BY DEF Checkouts!Deliver, l
<1>5. Checkouts!Clamp(l.quantity) \in 1 .. 99
  <2> HIDE DEF l
  <2>. QED  BY <1>3, ClampFits
<1>6. n \in 1 .. 99
  <2> HIDE DEF l
  <2>. QED  BY <1>5 DEF Checkouts!CommandUnits
<1>. QED  BY <1>4, <1>6

LEMMA CheckoutsTyped == ServiceSpec => [](part = "checkouts" => Checkouts!TypeOK)
<1> DEFINE T == customers \subseteq Payers /\ goods.units \in 0 .. 99
<1>1. ServiceInit => (part = "checkouts" => T)
  BY DEF ServiceInit, Checkouts!Init, Checkouts!NoGoods
<1>2. ASSUME part = "checkouts" => CheckoutInv, part = "checkouts" => T, [ServiceNext]_serviceVars
      PROVE  (part = "checkouts" => T)'
  <2> SUFFICES ASSUME part = "checkouts" PROVE T'
    BY <1>2, MoneyMoves
  <2>1. [Checkouts!Next]_checkoutsVars /\ CheckoutInv /\ T
    BY <1>2, MoneyMoves
  <2>2. CASE UNCHANGED checkoutsVars
    BY <2>1, <2>2 DEF checkoutsVars
  <2>3. ASSUME NEW a \in Checkouts!Accounts, Checkouts!Joins(a) PROVE T'
    BY <2>1, <2>3 DEF Checkouts!Joins
  <2>4. CASE Checkouts!Request
    BY <2>1, <2>4, CustomersStay DEF Checkouts!Request
  <2>5. CASE Checkouts!Deliver
    BY <2>1, <2>5, UnitsStay DEF Checkouts!Deliver
  <2>. QED  BY <2>1, <2>2, <2>3, <2>4, <2>5 DEF Checkouts!Next
<1>3. (part = "checkouts" => CheckoutInv) /\ (part = "checkouts" => T) => (part = "checkouts" => Checkouts!TypeOK)
  <2> SUFFICES ASSUME CheckoutInv, T PROVE Checkouts!TypeOK
    OBVIOUS
  <2>1. session.line.quantity \in 1 .. 99 /\ session.named \in Checkouts!Typed \cup {Checkouts!NoName}
    <3>1. CASE session = Checkouts!NoSession
      BY <3>1 DEF Checkouts!NoSession, Checkouts!Line
    <3>2. CASE session # Checkouts!NoSession
      BY <3>2 DEF CheckoutInv, SessionInv, Opened, LineFits, LineRows
    <3>. QED  BY <3>1, <3>2
  <2>. QED  BY <2>1 DEF Checkouts!TypeOK, CheckoutInv, Payers
<1> HIDE DEF T
<1>. QED  BY <1>1, <1>2, <1>3, CheckoutInvariant, PTL DEF ServiceSpec

-----------------------------------------------------------------------------
(* The cache.  A payload is of now when it is kept or answered, and what is *)
(* answered from a store has the kind and the time it was kept with.        *)
Hows == {"none", "EDGE", "HIT", "STALE", "MISS", "STALE-ERROR", "NOTFOUND", "FAILED"}
CacheReqs == [step : CacheSteps, held : Cache!DataType]
CacheTasks == [do : {"revalidate", "write"}, of : Cache!DataType]

LEMMA KeptTyped ==
    /\ Cache!Nothing \in Cache!DataType /\ Cache!Idle \in CacheReqs
    /\ CacheMaxClock \in Nat /\ 0 \in 0..CacheMaxClock
BY CacheAssumption DEF Cache!Nothing, Cache!Idle, Cache!DataType, CacheReqs, CacheSteps, Cache!Kinds

LEMMA Responds ==
    ASSUME Cache!CacheTypeOK, NEW r \in CacheRequests, NEW how \in Hows,
           NEW kind \in Cache!Kinds \cup {"none"}, NEW read \in 0..CacheMaxClock,
           Cache!Respond(r, how, kind, read), UNCHANGED <<route, cacheClock, cacheEntry>>,
           {edge, good}' \subseteq Cache!DataType, tasks' \subseteq CacheTasks
    PROVE  Cache!CacheTypeOK'
<1>1. cacheReq \in [CacheRequests -> CacheReqs] /\ cacheReq' = [cacheReq EXCEPT ![r] = Cache!Idle]
  BY DEF Cache!CacheTypeOK, Cache!Respond, CacheReqs, CacheSteps
<1>2. cacheReq' \in [CacheRequests -> CacheReqs]
  <2> HIDE DEF CacheReqs
  <2>. QED  BY <1>1, KeptTyped
<1>3. cacheAnswer' \in [how : Hows, kind : Cache!Kinds \cup {"none"}, at : 0..CacheMaxClock]
  BY DEF Cache!Respond
<1>4. /\ route' \in {"current", "card", "drift"} /\ cacheClock' \in 1..CacheMaxClock
      /\ {edge, cacheEntry, good}' \subseteq Cache!DataType
  BY DEF Cache!CacheTypeOK
<1>. QED  BY <1>2, <1>3, <1>4 DEF Cache!CacheTypeOK, CacheReqs, CacheSteps, CacheTasks, Hows

(* What does not answer: a request goes on, a task ends, the time passes.   *)
LEMMA CacheGoesOn ==
    ASSUME Cache!CacheTypeOK, cacheClock' \in 1..CacheMaxClock, UNCHANGED route,
           {edge, cacheEntry, good}' \subseteq Cache!DataType, tasks' \subseteq CacheTasks,
           cacheReq' \in [CacheRequests -> CacheReqs],
           cacheAnswer' = cacheAnswer \/ cacheAnswer' = Cache!NoAnswer
    PROVE  Cache!CacheTypeOK'
<1>1. Cache!NoAnswer \in [how : Hows, kind : Cache!Kinds \cup {"none"}, at : 0..CacheMaxClock]
  BY KeptTyped DEF Cache!NoAnswer, Hows
<1>2. cacheAnswer \in [how : Hows, kind : Cache!Kinds \cup {"none"}, at : 0..CacheMaxClock]
  BY DEF Cache!CacheTypeOK, Hows
<1>. QED  BY <1>1, <1>2 DEF Cache!CacheTypeOK, CacheReqs, CacheSteps, CacheTasks, Hows

LEMMA Refreshes ==
    ASSUME Cache!CacheTypeOK, NEW up, Cache!fetcher(up) # Cache!Failed
    PROVE  /\ Cache!fetcher(up).kind \in Cache!Kinds
           /\ Cache!fetcher(up).at = cacheClock
           /\ Cache!Entry(Cache!fetcher(up)) \in Cache!DataType
<1>1. PICK kind \in {"rows", "degraded", "gone"} : Cache!fetcher(up) = [kind |-> kind, at |-> cacheClock]
  <2>1. route \in {"current", "card", "drift"}
    BY DEF Cache!CacheTypeOK
  <2>. QED  BY <2>1 DEF Cache!fetcher, Cache!currentSeason, Cache!softRows, Cache!legionCard,
            Cache!driftAlerts, Cache!Data
<1>2. cacheClock \in 0..CacheMaxClock
  BY KeptTyped DEF Cache!CacheTypeOK
<1>. QED  BY <1>1, <1>2 DEF Cache!Entry, Cache!DataType, Cache!Kinds

LEMMA FetchTyped ==
    ASSUME Cache!CacheTypeOK, NEW r \in CacheRequests, NEW up, Cache!FetchMiss(r, up)
    PROVE  Cache!CacheTypeOK'
<1>1. /\ UNCHANGED <<route, cacheClock, cacheEntry>> /\ {edge, good} \subseteq Cache!DataType
      /\ tasks \subseteq CacheTasks /\ cacheReq[r].held \in Cache!DataType
      /\ cacheClock \in 0..CacheMaxClock
  BY KeptTyped DEF Cache!CacheTypeOK, Cache!FetchMiss, CacheTasks
<1>2. PICK fresh : fresh = Cache!fetcher(up)
  OBVIOUS
<1>3. CASE fresh = Cache!Failed
  <2>1. PICK held : held = IF cacheReq[r].held # Cache!Nothing THEN cacheReq[r].held ELSE Cache!recallGood
    OBVIOUS
  <2>2. held \in Cache!DataType
    BY <1>1, <2>1, KeptTyped DEF Cache!recallGood
  <2>3. PICK k \in Cache!Kinds \cup {"none"}, a \in 0..CacheMaxClock : k = held.kind /\ a = held.at
    BY <2>2 DEF Cache!DataType
  <2>4. /\ UNCHANGED <<edge, good, tasks>>
        /\ Cache!Respond(r, "FAILED", "none", 0) \/ Cache!Respond(r, "STALE-ERROR", k, a)
    BY <1>2, <1>3, <2>1, <2>3 DEF Cache!FetchMiss, Cache!FetchFails
  <2>. QED  BY <1>1, <2>4, KeptTyped, Responds DEF Hows
<1>4. CASE fresh # Cache!Failed
  <2>1. PICK k \in Cache!Kinds, e \in Cache!DataType : k = fresh.kind /\ e = Cache!Entry(fresh)
    BY <1>2, <1>4, Refreshes
  <2>2. PICK a \in 0..CacheMaxClock : a = fresh.at /\ a = cacheClock
    BY <1>1, <1>2, <1>4, Refreshes
  <2>3. \/ Cache!Respond(r, "NOTFOUND", "gone", a) /\ UNCHANGED <<edge, good, tasks>>
        \/ /\ Cache!Respond(r, "MISS", k, a) /\ good' = e /\ edge' \in {edge, e}
           /\ tasks' = tasks \cup {[do |-> "write", of |-> e]}
    BY <1>2, <1>4, <2>1, <2>2
       DEF Cache!FetchMiss, Cache!rememberGood, Cache!afterResponse, Cache!edgePut
  <2>4. [do |-> "write", of |-> e] \in CacheTasks
    BY DEF CacheTasks
  <2>. QED  BY <1>1, <2>3, <2>4, Responds DEF Hows, Cache!Kinds
<1>. QED  BY <1>3, <1>4

LEMMA LookTyped ==
    ASSUME Cache!CacheTypeOK, NEW r \in CacheRequests,
           Cache!edgeMatch(r) \/ \E found \in {cacheEntry, Cache!Nothing} : Cache!getCachedJson(r, found)
    PROVE  Cache!CacheTypeOK'
<1>1. /\ {edge, cacheEntry, good} \subseteq Cache!DataType /\ tasks \subseteq CacheTasks
      /\ cacheReq \in [CacheRequests -> CacheReqs] /\ cacheClock \in 1..CacheMaxClock
  BY DEF Cache!CacheTypeOK, CacheTasks, CacheReqs, CacheSteps
<1>2. ASSUME NEW q \in CacheReqs, cacheReq' = [cacheReq EXCEPT ![r] = q],
             UNCHANGED <<route, cacheClock, edge, cacheEntry, good, tasks, cacheAnswer>>
      PROVE  Cache!CacheTypeOK'
  <2>1. cacheReq' \in [CacheRequests -> CacheReqs]
    <3> HIDE DEF CacheReqs
    <3>. QED  BY <1>1, <1>2
  <2>. QED  BY <1>1, <1>2, <2>1, CacheGoesOn
<1>3. CASE Cache!edgeMatch(r)
  <2>1. CASE Cache!Respond(r, "EDGE", edge.kind, edge.at)
    <3>1. PICK k \in Cache!Kinds \cup {"none"}, a \in 0..CacheMaxClock : k = edge.kind /\ a = edge.at
      BY <1>1 DEF Cache!DataType
    <3>. QED  BY <1>1, <1>3, <2>1, <3>1, Responds DEF Hows, Cache!edgeMatch
  <2>2. CASE cacheReq' = [cacheReq EXCEPT ![r].step = "redis"] /\ UNCHANGED cacheAnswer
    <3> DEFINE q == [cacheReq[r] EXCEPT !.step = "redis"]
    <3>1. q \in CacheReqs
      BY <1>1 DEF CacheReqs, CacheSteps
    <3>2. cacheReq' = [cacheReq EXCEPT ![r] = q]
      BY <2>2
    <3> HIDE DEF q
    <3>. QED  BY <1>2, <1>3, <2>2, <3>1, <3>2 DEF Cache!edgeMatch
  <2>. QED  BY <1>3, <2>1, <2>2 DEF Cache!edgeMatch
<1>4. ASSUME NEW found \in {cacheEntry, Cache!Nothing}, Cache!getCachedJson(r, found)
      PROVE  Cache!CacheTypeOK'
  <2>1. found \in Cache!DataType
    BY <1>1, KeptTyped
  <2>2. PICK k \in Cache!Kinds \cup {"none"}, a \in 0..CacheMaxClock : k = found.kind /\ a = found.at
    BY <2>1 DEF Cache!DataType
  <2>3. UNCHANGED <<route, cacheClock, edge, cacheEntry, good>>
    BY <1>4 DEF Cache!getCachedJson
  <2>4. CASE Cache!Respond(r, "HIT", k, a) /\ UNCHANGED tasks
    BY <1>1, <2>3, <2>4, Responds DEF Hows
  <2>5. CASE Cache!Respond(r, "STALE", k, a) /\ Cache!afterResponse("revalidate", Cache!Nothing)
    <3>1. tasks' \subseteq CacheTasks
      BY <1>1, <2>5, KeptTyped DEF Cache!afterResponse, CacheTasks
    <3>. QED  BY <1>1, <2>3, <2>5, <3>1, Responds DEF Hows
  <2>6. CASE cacheReq' = [cacheReq EXCEPT ![r] = [step |-> "fetch", held |-> found]] /\ UNCHANGED <<tasks, cacheAnswer>>
    <3>1. [step |-> "fetch", held |-> found] \in CacheReqs
      BY <2>1 DEF CacheReqs, CacheSteps
    <3>. QED  BY <1>2, <2>3, <2>6, <3>1
  <2>. QED  BY <1>4, <2>2, <2>4, <2>5, <2>6 DEF Cache!getCachedJson
<1>. QED  BY <1>3, <1>4

LEMMA CacheStays == ASSUME Cache!CacheTypeOK, [Cache!Next]_cacheVars PROVE Cache!CacheTypeOK'
<1>1. /\ {edge, cacheEntry, good} \subseteq Cache!DataType /\ tasks \subseteq CacheTasks
      /\ cacheReq \in [CacheRequests -> CacheReqs] /\ cacheClock \in 1..CacheMaxClock
  BY DEF Cache!CacheTypeOK, CacheTasks, CacheReqs, CacheSteps
<1>2. ASSUME NEW r \in CacheRequests, Cache!Arrive(r) PROVE Cache!CacheTypeOK'
  <2>1. PICK where \in {"redis", "edge"} :
           /\ cacheReq' = [cacheReq EXCEPT ![r].step = where]
           /\ UNCHANGED <<route, cacheClock, edge, cacheEntry, good, tasks, cacheAnswer>>
    BY <1>2 DEF Cache!Arrive
  <2>2. cacheReq' \in [CacheRequests -> CacheReqs]
    BY <1>1, <2>1 DEF CacheReqs, CacheSteps
  <2>. QED  BY <1>1, <2>1, <2>2, CacheGoesOn
<1>3. ASSUME NEW up, Cache!revalidate(up) PROVE Cache!CacheTypeOK'
  <2>1. PICK fresh : fresh = Cache!fetcher(up)
    OBVIOUS
  <2>2. PICK t \in tasks :
           IF fresh = Cache!Failed THEN tasks' = tasks \ {t} /\ UNCHANGED good
           ELSE /\ good' = Cache!Entry(fresh)
                /\ tasks' = (tasks \ {t}) \cup {[do |-> "write", of |-> Cache!Entry(fresh)]}
    BY <1>3, <2>1 DEF Cache!revalidate, Cache!rememberGood
  <2>3. good' \in Cache!DataType /\ tasks' \subseteq CacheTasks
    BY <1>1, <2>1, <2>2, Refreshes DEF CacheTasks
  <2>. QED  BY <1>1, <1>3, <2>3, CacheGoesOn DEF Cache!revalidate
<1>4. CASE Cache!setCachedJson
  <2>1. cacheEntry' \in Cache!DataType /\ tasks' \subseteq CacheTasks
    BY <1>1, <1>4 DEF Cache!setCachedJson, CacheTasks
  <2>. QED  BY <1>1, <1>4, <2>1, CacheGoesOn DEF Cache!setCachedJson
<1>5. CASE Cache!Recycle
  <2>1. cacheReq' \in [CacheRequests -> CacheReqs]
    BY <1>5, KeptTyped DEF Cache!Recycle
  <2>. QED  BY <1>1, <1>5, <2>1, KeptTyped, CacheGoesOn DEF Cache!Recycle
<1>6. CASE Cache!Tick
  <2>1. cacheClock' \in 1..CacheMaxClock
    BY <1>1, <1>6, KeptTyped DEF Cache!Tick
  <2>2. {edge, cacheEntry}' \subseteq Cache!DataType
    BY <1>1, <1>6, KeptTyped DEF Cache!Tick
  <2>. QED  BY <1>1, <1>6, <2>1, <2>2, CacheGoesOn DEF Cache!Tick
<1>7. CASE UNCHANGED cacheVars
  BY <1>1, <1>7, CacheGoesOn DEF cacheVars
<1>. QED  BY <1>2, <1>3, <1>4, <1>5, <1>6, <1>7, FetchTyped, LookTyped DEF Cache!Next

LEMMA CacheTyped == ServiceSpec => [](part = "cache" => Cache!CacheTypeOK)
<1>1. ServiceInit => (part = "cache" => Cache!CacheTypeOK)
  <2> SUFFICES ASSUME Cache!Init PROVE Cache!CacheTypeOK
    BY DEF ServiceInit
  <2>1. Cache!NoAnswer \in [how : Hows, kind : Cache!Kinds \cup {"none"}, at : 0..CacheMaxClock]
    BY KeptTyped DEF Cache!NoAnswer, Hows
  <2>2. cacheReq \in [CacheRequests -> CacheReqs] /\ cacheClock \in 1..CacheMaxClock
    BY KeptTyped, CacheAssumption DEF Cache!Init
  <2>. QED  BY <2>1, <2>2, KeptTyped DEF Cache!Init, Cache!CacheTypeOK, CacheReqs, CacheSteps, Hows
<1>2. (part = "cache" => Cache!CacheTypeOK) /\ [ServiceNext]_serviceVars
      => (part = "cache" => Cache!CacheTypeOK)'
  BY TrafficMoves, CacheStays
<1>. QED  BY <1>1, <1>2, PTL DEF ServiceSpec
-----------------------------------------------------------------------------
(* The reads.  Whatever the databases say, a route gives an answer.         *)
AnswerRows ==
    [status : {0, 200, 404, 500, 503}, from : {"game", "copy", "none"},
     of : SUBSET (Reads!Tables \cup {"membership"}), flag : BOOLEAN,
     shows : {"nothing", "game", "copy", "online", "offline"}]

LEMMA WaysAnswer ==
    ASSUME NEW of \in SUBSET (Reads!Tables \cup {"membership"})
    PROVE  /\ \A r : {Reads!Data("game", of, r), Reads!Data("copy", of, r), Reads!FromCopy(r, of)} \subseteq AnswerRows
           /\ \A A, B : Reads!OnOutage(A, B, of) \cup Reads!OnNoRow(A, B, of) \subseteq AnswerRows
<1>1. \A r : /\ Reads!Data("game", of, r) \in AnswerRows /\ Reads!Data("copy", of, r) \in AnswerRows
             /\ Reads!FromCopy(r, of) \in AnswerRows
  BY DEF Reads!Data, Reads!FromCopy, Reads!Failed, Reads!Answer, AnswerRows, Reads!Row
<1> HIDE DEF AnswerRows
<1>. QED  BY <1>1 DEF Reads!OnOutage, Reads!OnNoRow

LEMMA DataAnswers ==
    ASSUME NEW of \in SUBSET (Reads!Tables \cup {"membership"}), NEW r
    PROVE  Reads!Data("game", of, r) \in AnswerRows /\ Reads!Data("copy", of, r) \in AnswerRows
BY DEF Reads!Data, Reads!Failed, Reads!Answer, AnswerRows, Reads!Row

LEMMA NoneAnswers ==
    /\ Reads!NoAnswer \in AnswerRows /\ Reads!Failed(500) \in AnswerRows /\ Reads!Failed(503) \in AnswerRows
    /\ Reads!Answer(200, "none", {}, "nothing", FALSE) \in AnswerRows
    /\ Reads!Answer(200, "none", {}, "nothing", TRUE) \in AnswerRows
    /\ \A s : Reads!Status(s) \in AnswerRows
BY DEF Reads!NoAnswer, Reads!Failed, Reads!Answer, Reads!Status, AnswerRows

LEMMA Flagged ==
    ASSUME NEW e \in AnswerRows, NEW marked \in BOOLEAN
    PROVE  [e EXCEPT !.flag = marked] \in AnswerRows
<1>1. /\ e.status \in {0, 200, 404, 500, 503} /\ e.from \in {"game", "copy", "none"}
      /\ e.of \in SUBSET (Reads!Tables \cup {"membership"})
      /\ e.shows \in {"nothing", "game", "copy", "online", "offline"}
  BY DEF AnswerRows
<1>2. [e EXCEPT !.flag = marked] =
        [status |-> e.status, from |-> e.from, of |-> e.of, flag |-> marked, shows |-> e.shows]
  BY DEF AnswerRows
<1>. QED  BY <1>1, <1>2 DEF AnswerRows

LEMMA RoutesAnswer ==
    ASSUME NEW a,
           a \in Reads!BalancesRoute \cup Reads!StatsRoute \cup Reads!TransactionsRoute \cup Reads!SkillsRoute
                 \cup Reads!FactionsRoute \cup Reads!ParkourRoute \cup Reads!AchievementsRoute
                 \cup Reads!CosmeticsRoute \cup Reads!QuestsRoute \cup Reads!LegionRoute \cup Reads!CratesRoute
                 \cup Reads!RewardsRoute \cup Reads!AdminPlayerRoute \cup Reads!PermissionsRoute
                 \cup Reads!BoardRoute \cup Reads!AdminStatusRoute
    PROVE  a \in AnswerRows
<1>1. {{"balances"}, {"rows"}, {"ranks"}, {"membership"}, {"rows", "ranks"}, {"ranks", "names"}}
         \subseteq SUBSET (Reads!Tables \cup {"membership"})
  BY DEF Reads!Tables
<1>2. \A of \in {{"balances"}, {"rows"}, {"membership"}} : \A A, B :
         Reads!OnOutage(A, B, of) \cup Reads!OnNoRow(A, B, of) \subseteq AnswerRows
  BY <1>1, WaysAnswer
<1>3. CASE a \in Reads!StatsRoute
  <2>1. PICK b \in AnswerRows : a = b \/ a = [b EXCEPT !.status = 404]
    BY <1>2, <1>3 DEF Reads!StatsRoute
  <2>. QED  BY <2>1 DEF AnswerRows
<1>4. CASE a \in Reads!RewardsRoute
  <2>1. PICK g \in Reads!getGamePlayerRewards :
           \/ a = Reads!Answer(200, "none", {}, "nothing", FALSE)
           \/ a = Reads!Data("game", {"rows", "ranks"}, g)
    BY <1>4 DEF Reads!RewardsRoute
  <2>2. Reads!Data("game", {"rows", "ranks"}, g) \in AnswerRows
    BY <1>1, DataAnswers
  <2>. QED  BY <2>1, <2>2, NoneAnswers
<1>5. CASE a \in Reads!AdminPlayerRoute
  <2>1. PICK p \in Reads!getPlayerProfile, b \in Reads!getPlayerBalances :
           \/ a = Reads!Failed(500)
           \/ a = [Reads!Data("copy", {"ranks", "names"}, p) EXCEPT !.flag = TRUE]
           \/ a = Reads!Data("copy", {"balances"}, b)
    BY <1>5 DEF Reads!AdminPlayerRoute
  <2>2. Reads!Failed(500) \in AnswerRows /\ Reads!Data("copy", {"balances"}, b) \in AnswerRows
    BY <1>1, WaysAnswer, NoneAnswers
  <2>3. PICK e \in AnswerRows : e = Reads!Data("copy", {"ranks", "names"}, p)
    BY <1>1, WaysAnswer
  <2>4. [e EXCEPT !.flag = TRUE] \in AnswerRows
    BY Flagged
  <2>. QED  BY <2>1, <2>2, <2>3, <2>4
<1>6. CASE a \in Reads!PermissionsRoute
  <2>1. PICK r \in Reads!query("ranks") : a = [Reads!Data("copy", {"ranks"}, r) EXCEPT !.flag = (r = "down")]
    BY <1>6 DEF Reads!PermissionsRoute, Reads!Down
  <2>2. PICK e \in AnswerRows : e = Reads!Data("copy", {"ranks"}, r)
    BY <1>1, WaysAnswer
  <2>3. \A marked \in BOOLEAN : [e EXCEPT !.flag = marked] \in AnswerRows
    BY Flagged
  <2>. QED  BY <2>1, <2>2, <2>3
<1>7. CASE a \in Reads!BoardRoute
  <2>1. PICK r \in Reads!query("rows") : a = Reads!Failed(503) \/ a = Reads!Data("copy", {"rows"}, r)
    BY <1>7 DEF Reads!BoardRoute
  <2>. QED  BY <1>1, <2>1, WaysAnswer, NoneAnswers
<1>8. CASE a \in Reads!AdminStatusRoute
  BY <1>8, NoneAnswers DEF Reads!AdminStatusRoute
<1>. QED
  BY <1>2, <1>3, <1>4, <1>5, <1>6, <1>7, <1>8
     DEF Reads!BalancesRoute, Reads!TransactionsRoute, Reads!SkillsRoute, Reads!FactionsRoute,
         Reads!ParkourRoute, Reads!AchievementsRoute, Reads!CosmeticsRoute, Reads!QuestsRoute,
         Reads!LegionRoute, Reads!CratesRoute

LEMMA ProfileAnswers ==
    ASSUME {kept, readAnswer} \subseteq AnswerRows, Reads!ProfileRoute
    PROVE  {kept, readAnswer}' \subseteq AnswerRows
<1>1. Reads!NotAvailableYet \in AnswerRows
  BY NoneAnswers DEF Reads!NotAvailableYet
<1>2. ASSUME NEW a \in Reads!ProfileBalances, Reads!ProfileAnswer(a)
      PROVE  {kept, readAnswer}' \subseteq AnswerRows
  <2>1. PICK r : \/ a = Reads!Answer(200, "none", {}, "nothing", TRUE)
                 \/ a = Reads!Data("game", {"balances"}, r)
                 \/ a = Reads!Data("copy", {"balances"}, r)
    BY DEF Reads!ProfileBalances
  <2>2. {"balances"} \in SUBSET (Reads!Tables \cup {"membership"})
    BY DEF Reads!Tables
  <2>3. Reads!Data("game", {"balances"}, r) \in AnswerRows /\ Reads!Data("copy", {"balances"}, r) \in AnswerRows
    BY <2>2, DataAnswers
  <2>5. a \in AnswerRows
    BY <2>1, <2>3, NoneAnswers
  <2>4. [a EXCEPT !.flag = FALSE] \in AnswerRows
    BY <2>5, Flagged
  <2>. QED  BY <1>2, <2>4, <2>5 DEF Reads!ProfileAnswer
<1>. QED  BY <1>1, <1>2 DEF Reads!ProfileRoute

LEMMA ReadsStay == ASSUME Reads!TypeOK, [Reads!Next]_readsVars PROVE Reads!TypeOK'
<1>1. {kept, readAnswer} \subseteq AnswerRows /\ Reads!Uncached \in AnswerRows
  BY NoneAnswers DEF Reads!TypeOK, AnswerRows, Reads!Uncached
<1>2. CASE UNCHANGED readsVars
  BY <1>2 DEF readsVars, Reads!TypeOK
<1>3. ASSUME NEW t \in Reads!Tables, Reads!PluginWrites(t) PROVE Reads!TypeOK'
  BY <1>3 DEF Reads!PluginWrites, Reads!TypeOK
<1>4. CASE Reads!Heartbeat
  BY <1>4 DEF Reads!Heartbeat, Reads!dataVars, Reads!TypeOK
<1>5. CASE Reads!MemoExpires
  BY <1>5 DEF Reads!MemoExpires, Reads!NoMemo, Reads!dataVars, Reads!TypeOK
<1>6. ASSUME {kept, readAnswer}' \subseteq AnswerRows, UNCHANGED <<Reads!dataVars, beat>>,
             memo' \in {"none", "redis", "snapshot", "null"}
      PROVE  Reads!TypeOK'
  BY <1>6 DEF Reads!TypeOK, Reads!dataVars, Reads!NoMemo, AnswerRows
<1>7. memo \in {"none", "redis", "snapshot", "null"}
  BY DEF Reads!TypeOK, Reads!NoMemo
<1>8. CASE Reads!CacheExpires
  BY <1>1, <1>6, <1>7, <1>8 DEF Reads!CacheExpires
<1>9. CASE Reads!ProfileRoute /\ UNCHANGED <<Reads!dataVars, beat, memo>>
  BY <1>1, <1>6, <1>7, <1>9, ProfileAnswers
<1>10. CASE Reads!StatusRoute /\ UNCHANGED <<Reads!dataVars, kept, beat>>
  <2>1. PICK s \in Reads!StatusCount : memo' = s /\ readAnswer' = Reads!Status(s)
    BY <1>10 DEF Reads!StatusRoute
  <2>2. s \in {"none", "redis", "snapshot", "null"}
    BY <1>7 DEF Reads!StatusCount, Reads!SnapshotCount
  <2>. QED  BY <1>1, <1>6, <1>10, <2>1, <2>2, NoneAnswers
<1>11. CASE Reads!Ask /\ ~Reads!ProfileRoute /\ ~Reads!StatusRoute
  <2>1. readAnswer' \in AnswerRows /\ UNCHANGED <<Reads!dataVars, kept, beat, memo>>
    BY <1>11, RoutesAnswer DEF Reads!Ask
  <2>. QED  BY <1>1, <1>6, <1>7, <2>1
<1>12. CASE Reads!Ask
  BY <1>9, <1>10, <1>11, <1>12 DEF Reads!Ask
<1>. QED  BY <1>2, <1>3, <1>4, <1>5, <1>8, <1>12 DEF Reads!Next

LEMMA ReadsTyped == ServiceSpec => [](part = "reads" => Reads!TypeOK)
<1>1. ServiceInit => (part = "reads" => Reads!TypeOK)
  <2>1. Reads!NoAnswer \in AnswerRows
    BY NoneAnswers
  <2>2. ServiceInit => Reads!Init
    BY DEF ServiceInit
  <2>3. Reads!Init => kept = Reads!NoAnswer /\ readAnswer = Reads!NoAnswer
    BY DEF Reads!Init, Reads!Uncached
  <2>4. Reads!Init => game \subseteq Reads!Tables /\ copy \subseteq Reads!Tables /\ local \in BOOLEAN /\ beat \in BOOLEAN
    BY DEF Reads!Init, Reads!Tables
  <2>5. Reads!Init => memo = "none"
    BY DEF Reads!Init, Reads!NoMemo
  <2>. QED  BY <2>1, <2>2, <2>3, <2>4, <2>5 DEF Reads!TypeOK, Reads!NoMemo, AnswerRows
<1>2. (part = "reads" => Reads!TypeOK) /\ [ServiceNext]_serviceVars => (part = "reads" => Reads!TypeOK)'
  BY TrafficMoves, ReadsStay
<1>. QED  BY <1>1, <1>2, PTL DEF ServiceSpec
-----------------------------------------------------------------------------
(* The queue of direct messages, the daily folds and the commands: their    *)
(* invariants hold all the types.                                           *)
LEMMA MessagesTyped == ServiceSpec => [](part = "messages" => Messages!DmTypeOK)
<1>1. (part = "messages" => DmInv) => (part = "messages" => Messages!DmTypeOK)
  BY DEF DmInv, DmTypes, DmRows, DrainRows, Messages!DmTypeOK
<1>. QED  BY <1>1, DmInvariant, PTL

LEMMA DaysTyped == ServiceSpec => [](part = "analytics" => Days!DayTypeOK)
<1>1. (part = "analytics" => DayInv) => (part = "analytics" => Days!DayTypeOK)
  BY DEF DayInv, DayTypes, DayRows, Days!DayTypeOK
<1>. QED  BY <1>1, DayInvariant, PTL

LEMMA CommandsTyped == ServiceSpec => [](part = "commands" => Commands!CommandTypeOK)
<1>1. (part = "commands" => CommandInv) => (part = "commands" => Commands!CommandTypeOK)
  BY DEF CommandInv, CommandTypes, CallRows, Outcomes, Commands!CommandTypeOK, Commands!Answered
<1>. QED  BY <1>1, CommandInvariant, PTL

-----------------------------------------------------------------------------
(* The boards: what moved, and how often.                                   *)
LEMMA BoardsTyped == ServiceSpec => [](part = "boards" => Boards!PagesTypeOK)
<1> DEFINE T == moved \subseteq BoardPlayers /\ moves \in 0..MaxMoves
<1>1. ServiceInit => (part = "boards" => T)
  BY BoardsAssumption DEF ServiceInit, Boards!Init
<1>2. ASSUME part = "boards" => T, [ServiceNext]_serviceVars PROVE (part = "boards" => T)'
  <2> SUFFICES ASSUME T, [Boards!Next]_boardsVars PROVE T'
    BY <1>2, TrafficMoves
  <2>1. CASE UNCHANGED <<moved, moves>>
    BY <2>1
  <2>2. ASSUME NEW p \in BoardPlayers, NEW v \in BoardValues, Boards!RowMoves(p, v) PROVE T'
    BY <2>2, BoardsAssumption DEF Boards!RowMoves
  <2>. QED
    BY <2>1, <2>2 DEF Boards!Next, Boards!GamePage, Boards!CopyPage, Boards!CopyRows,
       Boards!getLeaderboardPage, boardsVars
<1>3. (part = "boards" => BoardInv) /\ (part = "boards" => T) => (part = "boards" => Boards!PagesTypeOK)
  BY DEF BoardInv, BoardTypes, Cursors, Boards!PagesTypeOK
<1> HIDE DEF T
<1>. QED  BY <1>1, <1>2, <1>3, BoardInvariant, PTL DEF ServiceSpec

(* The notices: whose answer was missed, and whose claim outlived its send. *)
LEMMA NoticesTyped == ServiceSpec => [](part = "notices" => Notices!NoticeTypeOK)
<1> DEFINE T == unheard \cup stuck \subseteq Notices!Notices
<1>1. ServiceInit => (part = "notices" => T)
  BY DEF ServiceInit, Notices!Init
<1>2. ASSUME part = "notices" => NoticeInv, part = "notices" => T, [ServiceNext]_serviceVars
      PROVE  (part = "notices" => T)'
  <2> SUFFICES ASSUME NoticeInv, T, [Notices!Next]_noticesVars PROVE T'
    BY <1>2, JobsMove
  <2>1. \A p \in NoticePasses : noticePass[p].at \in {"claim", "send", "release"} => noticePass[p].n \in Notices!Notices
    BY DEF NoticeInv, PassNamesOne
  <2>2. CASE UNCHANGED <<unheard, stuck>>
    BY <2>2
  <2>3. ASSUME NEW p \in NoticePasses,
               Notices!Claim(p) \/ Notices!SendFails(p) \/ Notices!Release(p) \/ Notices!Dies(p)
        PROVE  T'
    BY <2>1, <2>3 DEF Notices!Claim, Notices!SendFails, Notices!Release, Notices!Dies
  <2>. QED
    BY <2>2, <2>3 DEF Notices!Next, Notices!Tick, Notices!Begin, Notices!CoolDown, Notices!Ceiling, Notices!Send,
       Notices!FireRouted, Notices!RemindVote, Notices!TellPlayer, noticesVars
<1>3. (part = "notices" => NoticeInv) /\ (part = "notices" => T) => (part = "notices" => Notices!NoticeTypeOK)
  BY DEF NoticeInv, NoticeTypes, PassRows, NoticeSteps, Notices!Nothing, Notices!NoticeTypeOK
<1> HIDE DEF T
<1>. QED  BY <1>1, <1>2, <1>3, NoticeInvariant, PTL DEF ServiceSpec
-----------------------------------------------------------------------------
(* The changelog: the legacy row, what an isolate remembers of the schema,  *)
(* the embeds.                                                              *)
Memory == [schema : BOOLEAN, backfill : BOOLEAN]

LEMMA Remembers ==
    /\ Log!Fresh \in Memory /\ [schema |-> TRUE, backfill |-> TRUE] \in Memory
    /\ \A m \in Memory : [m EXCEPT !.schema = TRUE] \in Memory
<1>1. ASSUME NEW m \in Memory PROVE [m EXCEPT !.schema = TRUE] \in Memory
  BY DEF Memory
<1>. QED  BY <1>1 DEF Memory, Log!Fresh

LEMMA LogTyped == ServiceSpec => [](part = "changelog" => Log!LogTypeOK)
<1> DEFINE T == /\ post \in BOOLEAN /\ wrote \in BOOLEAN
                /\ isolate \in Memory /\ embeds \subseteq Log!Requests
<1>2. ServiceInit => (part = "changelog" => T)
  <2>1. ServiceInit /\ part = "changelog" => Log!Init
    BY DEF ServiceInit
  <2>. QED  BY <2>1, Remembers DEF Log!Init
<1>3. ASSUME part = "changelog" => T, [ServiceNext]_serviceVars PROVE (part = "changelog" => T)'
  <2> SUFFICES ASSUME T, [Log!Next]_changelogVars PROVE T'
    BY <1>3, JobsMove
  <2>1. CASE UNCHANGED <<post, isolate, embeds, wrote>>
    BY <2>1
  <2>2. ASSUME NEW r \in Log!Requests, Log!PostPost(r) \/ Log!Notify(r) PROVE T'
    <3>1. embeds' = embeds \/ embeds' = embeds \cup {r}
      <4>1. CASE Log!PostPost(r)
        BY <4>1 DEF Log!PostPost
      <4>2. CASE Log!Notify(r)
        <5> HIDE DEF T
        <5>1. \/ embeds' \in {embeds, embeds \cup {r}}
              \/ \E http \in {502, 503} :
                    embeds' \in (IF http = 502 THEN {embeds, embeds \cup {r}} ELSE {embeds})
          BY <4>2 DEF Log!Notify, Log!End, Log!At, Log!Answer
        <5>. QED  BY <5>1
      <4>. QED  BY <2>2, <4>1, <4>2
    <3>3. embeds' \subseteq Log!Requests
      BY <3>1
    <3>2. UNCHANGED <<post, isolate, wrote>>
      BY <2>2 DEF Log!PostPost, Log!Notify
    <3>. QED  BY <3>2, <3>3
  <2>3. ASSUME NEW r \in Log!Requests, Log!recordChangelogPost(r) PROVE T'
    BY <2>3 DEF Log!recordChangelogPost
  <2>4. ASSUME NEW r \in Log!Requests, Log!ensureChangelogEntrySchema(r) PROVE T'
    <3>1. \/ isolate' = isolate \/ isolate' = [schema |-> TRUE, backfill |-> TRUE]
          \/ isolate' = [isolate EXCEPT !.schema = TRUE]
      BY <2>4 DEF Log!ensureChangelogEntrySchema
    <3>2. isolate' \in Memory
      BY <3>1, Remembers
    <3>3. UNCHANGED <<post, embeds, wrote>>
      BY <2>4 DEF Log!ensureChangelogEntrySchema
    <3>. QED  BY <3>2, <3>3
  <2>5. ASSUME NEW r \in Log!Requests, Log!upsertWrite(r) PROVE T'
    BY <2>5 DEF Log!upsertWrite
  <2>6. CASE Log!pruneDuplicateChangelogPosts
    BY <2>6 DEF Log!pruneDuplicateChangelogPosts
  <2>7. CASE Log!NewIsolate
    BY <2>7, Remembers DEF Log!NewIsolate
  <2>. QED
    BY <2>1, <2>2, <2>3, <2>4, <2>5, <2>6, <2>7
       DEF Log!Next, Log!PostEntry, Log!PostRelease, Log!upsertSelect, changelogVars
<1>4. (part = "changelog" => LogInv) /\ (part = "changelog" => T) => (part = "changelog" => Log!LogTypeOK)
  BY DEF LogInv, LogTypes, LogReqRows, LogAnswers, Memory, Log!LogTypeOK
<1> HIDE DEF T
<1>. QED  BY <1>2, <1>3, <1>4, ChangelogInvariant, PTL DEF ServiceSpec

(* The alerts: the status of a line, and who is excused.                    *)
LEMMA AlertsTyped == ServiceSpec => [](part = "alerts" => Alerts!AlertTypeOK)
<1> DEFINE T == /\ armed \in BOOLEAN /\ excused \subseteq Alerts!Subjects
                /\ status \in [AlertLines -> {"pending", "delivered", "failed", "stale"}]
<1>1. ServiceInit => (part = "alerts" => T)
  BY DEF ServiceInit, Alerts!Init
<1>2. ASSUME part = "alerts" => AlertInv, part = "alerts" => T, [ServiceNext]_serviceVars
      PROVE  (part = "alerts" => T)'
  <2> SUFFICES ASSUME AlertInv, T, [Alerts!Next]_alertsVars PROVE T'
    BY <1>2, JobsMove
  <2>1. CASE UNCHANGED <<armed, status, excused>>
    BY <2>1
  <2>2. ASSUME NEW l \in AlertLines, Alerts!Executed(l) \/ Alerts!Failed(l) PROVE T'
    BY <2>2 DEF Alerts!Executed, Alerts!Failed
  <2>3. CASE Alerts!Arm
    BY <2>3 DEF Alerts!Arm
  <2>4. ASSUME NEW j \in Alerts!Jobs, Alerts!Read(j) PROVE T'
    BY <2>4 DEF Alerts!Read, Alerts!Subjects
  <2>5. ASSUME NEW j \in Alerts!Jobs, Alerts!Mark(j) PROVE T'
    <3>1. job[j].subject \in Alerts!Subjects
      BY <2>5 DEF AlertInv, JobsAreTheirOwn, Alerts!Mark, Alerts!SubjectsOf, Alerts!Subjects
    <3>. QED  BY <2>5, <3>1 DEF Alerts!Mark
  <2>6. ASSUME NEW j \in Alerts!Jobs, NEW s \in Alerts!Subjects, Alerts!ledgerLineMarkedStale(j, s) PROVE T'
    BY <2>6 DEF Alerts!ledgerLineMarkedStale
  <2>. QED
    BY <2>1, <2>2, <2>3, <2>4, <2>5, <2>6
       DEF Alerts!Next, Alerts!NewDay, Alerts!GrowsLate, Alerts!Finish, Alerts!postToStaffChannel, alertsVars
<1>3. (part = "alerts" => AlertInv) /\ (part = "alerts" => T) => (part = "alerts" => Alerts!AlertTypeOK)
  <2> SUFFICES ASSUME AlertInv, T PROVE Alerts!AlertTypeOK
    OBVIOUS
  <2>1. \A j \in Alerts!Jobs : job[j].todo \subseteq Alerts!SubjectsOf(j) /\ job[j].pending \subseteq AlertLines
    BY DEF AlertInv, AlertTypes, JobRows, JobsAreTheirOwn
  <2>. QED  BY <2>1 DEF AlertInv, AlertTypes, AlertRows, Alerts!AlertTypeOK
<1> HIDE DEF T
<1>. QED  BY <1>1, <1>2, <1>3, AlertInvariant, PTL DEF ServiceSpec
-----------------------------------------------------------------------------
(* The second limiter: a row starts with a window that has begun.           *)
LEMMA LimitsTyped == ServiceSpec => [](part = "limits" => Limits!LimitTypeOK)
<1> DEFINE T == /\ refused \in BOOLEAN /\ forgotten \subseteq Limits!Keys \X Limiters
                /\ \A b \in Limits!Buckets : cost[b].start \in Limits!Starts /\ cost[b].cost \in Nat
<1>1. ServiceInit => (part = "limits" => T)
  <2> SUFFICES ASSUME Limits!Init PROVE T
    BY DEF ServiceInit
  <2>1. 0 \in Limits!Starts /\ Limits!NoRow.start = 0 /\ Limits!NoRow.cost = 0
    BY LimitsAssumption DEF Limits!Starts, Limits!NoRow
  <2>2. \A b \in Limits!Buckets : cost[b] = Limits!NoRow
    BY DEF Limits!Init
  <2>3. \A b \in Limits!Buckets : cost[b].start \in Limits!Starts /\ cost[b].cost \in Nat
    BY <2>1, <2>2
  <2>4. refused = FALSE /\ forgotten = {}
    BY DEF Limits!Init
  <2>. QED  BY <2>3, <2>4
<1>2. ASSUME part = "limits" => LimitInv, part = "limits" => T, [ServiceNext]_serviceVars
      PROVE  (part = "limits" => T)'
  <2> SUFFICES ASSUME LimitInv, T, [Limits!Next]_limitsVars PROVE T'
    BY <1>2, TrafficMoves
  <2>1. CASE UNCHANGED <<cost, refused, forgotten>>
    BY <2>1
  <2>2. CASE Limits!cleanupV2
    BY <2>2, LimitsAssumption DEF Limits!cleanupV2, Limits!NoRow, Limits!Starts
  <2>3. ASSUME NEW asks \in SUBSET Limits!Buckets, NEW c \in Costs, Limits!rateLimitV2(asks, c) PROVE T'
    <3>1. /\ cost' = [b \in Limits!Buckets |-> IF b \in asks THEN Limits!Charged(cost[b], c) ELSE cost[b]]
          /\ refused' \in BOOLEAN
      BY <2>3 DEF Limits!rateLimitV2
    <3>2. limitClock \in Nat /\ limitClock \in Limits!Starts /\ c \in Nat
      <4>1. c \in Nat
        BY LimitsAssumption
      <4>2. limitClock \in 0..LimitMaxClock
        BY DEF LimitInv, LimitTypes
      <4>. QED  BY <4>1, <4>2, LimitsAssumption DEF Limits!Starts
    <3>3. Limits!windowStart(limitClock, 1) \in Limits!Starts
      <4>1. 1 \in Nat \ {0} /\ limitClock <= LimitMaxClock
        BY <3>2, LimitsAssumption DEF Limits!Starts
      <4>2. Limits!windowStart(limitClock, 1) \in Nat /\ Limits!windowStart(limitClock, 1) <= limitClock
        BY <3>2, <4>1, StartBounds
      <4>. QED  BY <3>2, <4>1, <4>2, LimitsAssumption DEF Limits!Starts
    <3>4. \A b \in Limits!Buckets :
             Limits!Charged(cost[b], c).start \in Limits!Starts /\ Limits!Charged(cost[b], c).cost \in Nat
      BY <3>2, <3>3 DEF Limits!Charged, Limits!WINDOW_MS
    <3>5. forgotten' = forgotten
      BY <2>3 DEF Limits!rateLimitV2
    <3>. QED  BY <3>1, <3>4, <3>5
  <2>4. ASSUME NEW l \in Limiters, Limits!cleanup(l) PROVE T'
    <3>1. forgotten' \subseteq Limits!Keys \X Limiters
      BY <2>4 DEF Limits!cleanup
    <3>2. UNCHANGED <<cost, refused>>
      BY <2>4 DEF Limits!cleanup
    <3>. QED  BY <3>1, <3>2
  <2>. QED
    BY <2>1, <2>2, <2>3, <2>4 DEF Limits!Next, Limits!Tick, Limits!rateLimit, limitsVars
<1>3. (part = "limits" => LimitInv) /\ (part = "limits" => T) => (part = "limits" => Limits!LimitTypeOK)
  BY DEF LimitInv, LimitTypes, Limits!LimitTypeOK
<1> HIDE DEF T
<1>. QED  BY <1>1, <1>2, <1>3, LimitInvariant, PTL DEF ServiceSpec

-----------------------------------------------------------------------------
(* The slots: no more sockets than calls, and the rows of a call.           *)
LEMMA SlotsTyped == ServiceSpec => [](part = "queries" => Slots!SlotTypeOK)
<1> DEFINE T == rows \in [Queries -> 0..RowCap] /\ switched \subseteq Queries
<1>1. ServiceInit => (part = "queries" => T)
  BY QueriesAssumption DEF ServiceInit, Slots!Init
<1>2. ASSUME part = "queries" => T, [ServiceNext]_serviceVars PROVE (part = "queries" => T)'
  <2> SUFFICES ASSUME T, [Slots!Next]_queriesVars PROVE T'
    BY <1>2, TrafficMoves
  <2>1. CASE UNCHANGED <<rows, switched>>
    BY <2>1
  <2>2. ASSUME NEW q \in Queries, Slots!AuthSwitch(q) PROVE T'
    BY <2>2 DEF Slots!AuthSwitch
  <2>3. ASSUME NEW q \in Queries, Slots!Row(q) PROVE T'
    BY <2>3, QueriesAssumption DEF Slots!Row
  <2>4. ASSUME NEW q \in Queries, Slots!Again(q) PROVE T'
    BY <2>4, QueriesAssumption DEF Slots!Again
  <2>. QED
    BY <2>1, <2>2, <2>3, <2>4
       DEF Slots!Next, Slots!wireQuery, Slots!acquireSlot, Slots!Resume, Slots!Connect, Slots!Handshake,
           Slots!AuthRefused, Slots!AuthOk, Slots!WriteOk, Slots!Columns, Slots!Eof, Slots!ErrPacket,
           Slots!SocketFails, queriesVars
<1>3. (part = "queries" => SlotInv /\ FaultInv) /\ (part = "queries" => T) => (part = "queries" => Slots!SlotTypeOK)
  <2> SUFFICES ASSUME SlotInv, FaultInv, T PROVE Slots!SlotTypeOK
    OBVIOUS
  <2>1. inFlight \in 0..Slots!Cardinality(Queries)
    <3>1. Cardinality(Holding) <= Cardinality(Queries) /\ Cardinality(Queries) \in Nat
      BY FS_Subset, FS_CardinalityType, QueriesAssumption DEF Holding
    <3>. QED  BY <3>1, SlotSets, SlotsCount DEF SlotInv, SlotsAreCounted
  <2>. QED  BY <2>1 DEF SlotInv, SlotTypes, SlotSteps, FaultInv, Slots!None, Slots!SlotTypeOK
<1> HIDE DEF T
<1>. QED  BY <1>1, <1>2, <1>3, FaultInvariant, PTL DEF ServiceSpec
-----------------------------------------------------------------------------
(* The streams: no ring above its size, no number above the last one.       *)
InRing(row) == Len(row.ring) <= RingSize /\ row.seq <= MaxSeq
StreamBounds(T) == streamClock <= StreamMaxClock /\ \A t \in T : InRing(topic[t])

LEMMA RingIsCut ==
    ASSUME NEW S, NEW s \in Seq(S)
    PROVE  /\ Len(Streams!LastOf(s, RingSize)) <= RingSize
           /\ Len(Events!LastOf(s, RingSize)) <= RingSize
<1>1. Len(s) \in Nat /\ RingSize \in Nat
  BY StreamsAssumption
<1>2. ASSUME NEW m \in 1..(Len(s) + 1), Len(s) - m + 1 <= RingSize
      PROVE  Len(SubSeq(s, m, Len(s))) <= RingSize
  <2>1. \A j \in m..Len(s) : s[j] \in S
    BY <1>1
  <2>2. Len(SubSeq(s, m, Len(s))) = IF m <= Len(s) THEN Len(s) - m + 1 ELSE 0
    BY <1>1, <2>1, SubSeqProperties
  <2>. QED  BY <1>1, <1>2, <2>2
<1>3. PICK m \in 1..(Len(s) + 1) : /\ Len(s) - m + 1 <= RingSize
                                   /\ m = IF Len(s) > RingSize THEN Len(s) - RingSize + 1 ELSE 1
  <2>1. CASE Len(s) > RingSize
    <3>1. Len(s) - RingSize + 1 \in 1..(Len(s) + 1) /\ Len(s) - (Len(s) - RingSize + 1) + 1 <= RingSize
      BY <1>1, <2>1
    <3>. QED  BY <2>1, <3>1
  <2>2. CASE ~(Len(s) > RingSize)
    <3>1. 1 \in 1..(Len(s) + 1) /\ Len(s) - 1 + 1 <= RingSize
      BY <1>1, <2>2
    <3>. QED  BY <2>2, <3>1
  <2>. QED  BY <2>1, <2>2
<1>. QED  BY <1>2, <1>3 DEF Streams!LastOf, Events!LastOf

(* A step that only moves the pull of a topic.                              *)
LEMMA RingsStay ==
    ASSUME NEW T, StreamBounds(T), streamClock' <= StreamMaxClock,
           \A u \in T : topic'[u].seq = topic[u].seq /\ topic'[u].ring = topic[u].ring
    PROVE  StreamBounds(T)'
BY DEF StreamBounds, InRing

LEMMA PullsKeepRings ==
    ASSUME NEW T, StreamInv(T), NEW t \in T,
           \/ topic' = topic
           \/ topic' = [topic EXCEPT ![t].inFlight = FALSE]
           \/ topic' = [topic EXCEPT ![t].inFlight = TRUE, ![t].requested = streamClock]
           \/ \E x : topic' = [topic EXCEPT ![t].inFlight = FALSE, ![t].last = x]
    PROVE  \A u \in T : topic'[u].seq = topic[u].seq /\ topic'[u].ring = topic[u].ring
<1>1. topic \in [T -> TopicRows]
  BY DEF StreamInv, StreamTypes
<1>2. topic[t] \in TopicRows
  BY <1>1
<1>3. ASSUME NEW row, row.seq = topic[t].seq, row.ring = topic[t].ring, topic' = [topic EXCEPT ![t] = row]
      PROVE  \A u \in T : topic'[u].seq = topic[u].seq /\ topic'[u].ring = topic[u].ring
  BY <1>1, <1>3
<1>4. CASE topic' = topic
  BY <1>4
<1>5. CASE topic' = [topic EXCEPT ![t].inFlight = FALSE]
  <2> DEFINE row == [topic[t] EXCEPT !.inFlight = FALSE]
  <2>1. row.seq = topic[t].seq /\ row.ring = topic[t].ring
    BY <1>2, ZenonT(30) DEF TopicRows
  <2>2. topic' = [topic EXCEPT ![t] = row]
    BY <1>5
  <2> HIDE DEF row
  <2>. QED  BY <1>3, <2>1, <2>2
<1>6. CASE topic' = [topic EXCEPT ![t].inFlight = TRUE, ![t].requested = streamClock]
  <2> DEFINE row == [topic[t] EXCEPT !.inFlight = TRUE, !.requested = streamClock]
  <2>1. row.seq = topic[t].seq /\ row.ring = topic[t].ring
    BY <1>2, ZenonT(30) DEF TopicRows
  <2>2. topic' = [topic EXCEPT ![t] = row]
    BY <1>1, <1>6
  <2> HIDE DEF row
  <2>. QED  BY <1>3, <2>1, <2>2
<1>7. ASSUME NEW x, topic' = [topic EXCEPT ![t].inFlight = FALSE, ![t].last = x]
      PROVE  \A u \in T : topic'[u].seq = topic[u].seq /\ topic'[u].ring = topic[u].ring
  <2> DEFINE row == [topic[t] EXCEPT !.inFlight = FALSE, !.last = x]
  <2>1. row.seq = topic[t].seq /\ row.ring = topic[t].ring
    BY <1>2, ZenonT(30) DEF TopicRows
  <2>2. topic' = [topic EXCEPT ![t] = row]
    BY <1>1, <1>7
  <2> HIDE DEF row
  <2>. QED  BY <1>3, <2>1, <2>2
<1>. QED  BY <1>4, <1>5, <1>6, <1>7

LEMMA StreamBoundsStay ==
    ASSUME NEW T \in {{"status"}, {"events"}}, StreamInv(T), StreamBounds(T),
           \/ T = {"status"} /\ [Streams!Next]_streamsVars
           \/ T = {"events"} /\ [Events!Next]_streamsVars
    PROVE  StreamBounds(T)'
<1>1. /\ streamClock \in Nat /\ streamClock <= StreamMaxClock /\ topic \in [T -> TopicRows]
      /\ \A u \in T : InRing(topic[u])
      /\ \A c \in Conns : conn[c].at # "closed" => conn[c].topic \in T
  BY DEF StreamInv, StreamTypes, StreamBounds, ClosedHoldsNothing
<1>2. CASE UNCHANGED <<streamClock, topic>>
  BY <1>2, RingsStay DEF StreamBounds
<1>3. CASE Streams!Tick \/ Events!Tick
  <2>1. streamClock' <= StreamMaxClock /\ topic' = topic
    BY <1>1, <1>3, StreamsAssumption DEF Streams!Tick, Events!Tick
  <2>. QED  BY <2>1, RingsStay
<1>4. ASSUME NEW t \in T, Streams!fetch(t) \/ Events!fetch(t) PROVE StreamBounds(T)'
  <2>1. /\ streamClock' = streamClock
        /\ \/ topic' = [topic EXCEPT ![t].inFlight = FALSE]
           \/ \E x : topic' = [topic EXCEPT ![t].inFlight = FALSE, ![t].last = x]
    BY <1>4 DEF Streams!fetch, Events!fetch, Streams!Fetched, Events!Fetched
  <2>. QED  BY <1>1, <2>1, PullsKeepRings, RingsStay
<1>5. ASSUME NEW c \in Conns, Streams!sharedSnapshot(c) \/ Events!sharedSnapshot(c) PROVE StreamBounds(T)'
  <2>1. PICK t \in T : t = conn[c].topic
    BY <1>1, <1>5 DEF Streams!sharedSnapshot, Events!sharedSnapshot
  <2>2. /\ streamClock' = streamClock
        /\ \/ topic' = topic
           \/ topic' = [topic EXCEPT ![t].inFlight = TRUE, ![t].requested = streamClock]
    BY <1>5, <2>1 DEF Streams!sharedSnapshot, Events!sharedSnapshot
  <2>. QED  BY <1>1, <2>2, PullsKeepRings, RingsStay
<1>6. ASSUME NEW c \in Conns, Streams!frameIfChanged(c) \/ Events!frameIfChanged(c) PROVE StreamBounds(T)'
  <2>1. PICK t \in T : t = conn[c].topic
    BY <1>1, <1>6 DEF Streams!frameIfChanged, Events!frameIfChanged
  <2>2. PICK last \in Nat, ring \in Seq(FrameRows) : last = topic[t].seq /\ ring = topic[t].ring
    BY <1>1 DEF TopicRows
  <2>3. [seq |-> last + 1] \in FrameRows
    BY DEF FrameRows
  <2> DEFINE whole == Append(ring, [seq |-> last + 1])
  <2>4. whole \in Seq(FrameRows)
    BY <2>3
  <2>5. /\ streamClock' = streamClock
        /\ \/ topic' = topic
           \/ /\ last < MaxSeq
              /\ \E x, cut : /\ cut \in {Streams!LastOf(whole, RingSize), Events!LastOf(whole, RingSize)}
                             /\ topic' = [topic EXCEPT ![t].seq = last + 1, ![t].framed = x, ![t].ring = cut]
    BY <1>1, <1>6, <2>1, <2>2 DEF Streams!frameIfChanged, Events!frameIfChanged, Streams!NextSeq, Events!NextSeq
  <2>6. ASSUME NEW x, NEW cut, last < MaxSeq,
               cut \in {Streams!LastOf(whole, RingSize), Events!LastOf(whole, RingSize)},
               topic' = [topic EXCEPT ![t].seq = last + 1, ![t].framed = x, ![t].ring = cut]
        PROVE  StreamBounds(T)'
    <3> DEFINE row == [topic[t] EXCEPT !.seq = last + 1, !.framed = x, !.ring = cut]
    <3> HIDE DEF whole
    <3>1. Len(cut) <= RingSize
      BY <2>4, <2>6, RingIsCut
    <3>2. topic[t] \in TopicRows
      BY <1>1
    <3>3. row.seq = last + 1 /\ row.ring = cut
      BY <3>2 DEF TopicRows
    <3>4. topic' = [topic EXCEPT ![t] = row]
      BY <1>1, <2>6
    <3> HIDE DEF row
    <3>5. last + 1 <= MaxSeq
      BY <2>2, <2>6, StreamsAssumption
    <3>6. InRing(row)
      BY <3>1, <3>3, <3>5 DEF InRing
    <3>7. \A u \in T : InRing(topic'[u])
      BY <1>1, <3>4, <3>6
    <3>. QED  BY <1>1, <2>5, <3>7 DEF StreamBounds, InRing
  <2> HIDE DEF whole
  <2>. QED  BY <1>2, <2>5, <2>6
<1>. QED
  BY <1>2, <1>3, <1>4, <1>5, <1>6
     DEF Streams!Next, Events!Next, Streams!Replay, Events!Replay, Streams!Stall, Events!Stall,
         Streams!Bye, Events!Bye, Streams!Open, Events!Open, Streams!SourceMoves, Events!SourceMoves, streamsVars

LEMMA StreamsTyped ==
    ServiceSpec => []( /\ part = "streams" => Streams!StreamTypeOK
                       /\ part = "events" => Events!StreamTypeOK )
<1> DEFINE T == /\ part = "streams" => StreamBounds({"status"})
                /\ part = "events" => StreamBounds({"events"})
           I == (part = "streams" => StreamInv({"status"})) /\ (part = "events" => StreamInv({"events"}))
<1>1. ServiceInit => T
  <2>1. ASSUME NEW t \in {"status", "events"}, (t = "status" /\ Streams!Init) \/ (t = "events" /\ Events!Init)
        PROVE  StreamBounds({t})
    <3>1. streamClock = 0 /\ topic[t].seq = 0 /\ topic[t].ring = <<>>
      BY <2>1 DEF Streams!Init, Events!Init
    <3>. QED  BY <3>1, StreamsAssumption DEF StreamBounds, InRing
  <2>. QED  BY <2>1 DEF ServiceInit
<1>2. I /\ T /\ [ServiceNext]_serviceVars => T'
  <2> SUFFICES ASSUME I, T, [ServiceNext]_serviceVars PROVE T'
    OBVIOUS
  <2>1. CASE part = "streams"
    BY <2>1, TrafficMoves, StreamBoundsStay
  <2>2. CASE part = "events"
    BY <2>2, TrafficMoves, StreamBoundsStay
  <2>. QED  BY <2>1, <2>2, TrafficMoves
<1>3. I /\ T => (part = "streams" => Streams!StreamTypeOK) /\ (part = "events" => Events!StreamTypeOK)
  <2>1. ASSUME NEW U, StreamInv(U), StreamBounds(U)
        PROVE  /\ streamClock \in 0..StreamMaxClock /\ openTotal \in Nat
               /\ \A i \in StreamIps : openByIp[i] \in Nat
               /\ \A c \in Conns : conn[c].at \in ConnSteps
               /\ \A t \in U : Len(topic[t].ring) <= RingSize /\ topic[t].seq \in 0..MaxSeq
    <3>1. openTotal \in Nat
      BY <2>1, StreamSets DEF StreamInv, StreamsAreCounted
    <3>2. /\ streamClock \in 0..StreamMaxClock
          /\ \A i \in StreamIps : openByIp[i] \in Nat
      BY <2>1, StreamsAssumption DEF StreamInv, StreamTypes, StreamBounds
    <3>3. \A c \in Conns : conn[c].at \in ConnSteps
      BY <2>1 DEF StreamInv, StreamTypes, ConnRows
    <3>4. \A t \in U : topic[t].seq \in Nat /\ InRing(topic[t])
      BY <2>1 DEF StreamInv, StreamTypes, StreamBounds, TopicRows
    <3>. QED  BY <3>1, <3>2, <3>3, <3>4, StreamsAssumption DEF InRing
  <2>2. Streams!Live \cup {"closed"} = ConnSteps /\ Events!Live \cup {"closed"} = ConnSteps
    BY DEF Streams!Live, Events!Live, ConnSteps
  <2>. QED  BY <2>1, <2>2 DEF Streams!StreamTypeOK, Events!StreamTypeOK
<1> HIDE DEF T, I
<1>4. ServiceSpec => []I
  BY StreamInvariant DEF I
<1>. QED  BY <1>1, <1>2, <1>3, <1>4, PTL DEF ServiceSpec
-----------------------------------------------------------------------------
(* The referrals: the rows, and a counter for every player, that counts no  *)
(* more redemptions than there are players, since each redeems once.        *)
ReferralRows == [referrer : RefPlayers, referred : MaybeRefPlayer \cup Newcomers, status : {"pending", "completed"}]
RefTypes ==
    /\ rank5 \subseteq RefPlayers /\ cooling \subseteq RefPlayers
    /\ referrals \subseteq ReferralRows
    /\ \A d \in redemptions : d.redeemer \in RefPlayers

LEMMA CountsInPlayers ==
    ASSUME RefInv, RefTypes
    PROVE  \A p \in RefPlayers : total[p] \in 0..Cardinality(RefPlayers)
<1>1. /\ IsFiniteSet(RefPlayers) /\ Cardinality(RefPlayers) \in Nat
      /\ IsFiniteSet(redemptions) /\ Cardinality(redemptions) \in Nat
      /\ IsFiniteSet(Refs!Counted) /\ Cardinality(Refs!Counted) \in Nat
      /\ Cardinality(Refs!Counted) <= Cardinality(redemptions)
  BY FS_CardinalityType, ReferralsAssumption DEF RefInv, PaidInv, CountedWasPaid
<1>2. Cardinality(redemptions) <= Cardinality(RefPlayers)
  <2> DEFINE f == [d \in redemptions |-> d.redeemer]
  <2>1. f \in Injection(redemptions, RefPlayers)
    BY DEF RefInv, RefTypes, PaidInv, RedeemedOnce, Injection, IsInjective
  <2> HIDE DEF f
  <2>. QED  BY <1>1, <2>1, FS_Injection
<1>3. ASSUME NEW p \in RefPlayers PROVE total[p] \in 0..Cardinality(RefPlayers)
  <2>1. PICK n \in Nat : n = total[p]
    BY DEF RefInv, PaidInv
  <2> DEFINE f == [i \in 1..n |-> <<p, i>>]
  <2>2. f \in Injection(1..n, Refs!Counted)
    <3>1. \A i \in 1..n : <<p, i>> \in Refs!Counted
      BY <2>1 DEF Refs!Counted
    <3>. QED  BY <3>1 DEF Injection, IsInjective
  <2>3. Cardinality(1..n) = n
    BY FS_Interval
  <2> HIDE DEF f
  <2>4. n <= Cardinality(Refs!Counted)
    BY <1>1, <2>2, <2>3, FS_Injection
  <2>. QED  BY <1>1, <1>2, <2>1, <2>4
<1>. QED  BY <1>3

LEMMA RefTypesStay == ASSUME RefInv, RefTypes, [Refs!Next]_referralsVars PROVE RefTypes'
<1>1. CASE UNCHANGED <<rank5, referrals, cooling, redemptions>>
  BY <1>1 DEF RefTypes
<1>2. \A r \in RefRequests : /\ refReq[r].kind # "idle" => refReq[r].by \in RefPlayers
                             /\ refReq[r].who \in MaybeRefPlayer \cup Newcomers
  BY DEF RefInv, ReqInv, RequestsWellPut, WellPut, RefReqRows
<1>3. ASSUME NEW r \in RefRequests, Refs!InsertReferral(r) PROVE RefTypes'
  <2> DEFINE by == refReq[r].by
             who == refReq[r].who
             f == Refs!Referral(by, who)
  <2>1. by \in RefPlayers /\ who \in MaybeRefPlayer \cup Newcomers
    BY <1>2, <1>3 DEF Refs!InsertReferral
  <2>2. /\ UNCHANGED <<rank5, cooling, redemptions>>
        /\ referrals' \subseteq referrals \cup {f}
    BY <1>3 DEF Refs!InsertReferral
  <2> HIDE DEF by, who
  <2>3. f \in ReferralRows
    BY <2>1 DEF ReferralRows, Refs!Referral
  <2> HIDE DEF f
  <2>. QED  BY <2>2, <2>3 DEF RefTypes
<1>4. ASSUME NEW q \in Newcomers, Refs!RankUp(q) PROVE RefTypes'
  <2> DEFINE Up(f) == IF f.referred = q THEN [f EXCEPT !.status = "completed"] ELSE f
  <2>1. UNCHANGED <<cooling, redemptions>> /\ rank5' = rank5 \cup {q} /\ q \in RefPlayers
    BY <1>4, ReferralsAssumption DEF Refs!RankUp
  <2>2. referrals' = {Up(f) : f \in referrals}
    BY <1>4 DEF Refs!RankUp
  <2>3. \A f \in ReferralRows : Up(f) \in ReferralRows
    BY DEF ReferralRows
  <2> HIDE DEF Up
  <2>. QED  BY <2>1, <2>2, <2>3 DEF RefTypes
<1>5. ASSUME NEW r \in RefRequests, Refs!Upsert(r) PROVE RefTypes'
  <2>1. refReq[r].by \in RefPlayers
    BY <1>2, <1>5 DEF Refs!Upsert
  <2>2. UNCHANGED <<rank5, referrals, redemptions>> /\ cooling' \subseteq cooling \cup {refReq[r].by}
    BY <1>5 DEF Refs!Upsert
  <2>. QED  BY <2>1, <2>2 DEF RefTypes
<1>6. ASSUME NEW r \in RefRequests, Refs!InsertRedemption(r) PROVE RefTypes'
  <2> DEFINE p == refReq[r].by
             d == [row |-> Cardinality(redemptions), redeemer |-> p, code |-> refReq[r].code, owner |-> refReq[r].who]
  <2>1. p \in RefPlayers
    BY <1>2, <1>6 DEF Refs!InsertRedemption
  <2>2. UNCHANGED <<rank5, referrals, cooling>> /\ redemptions' \subseteq redemptions \cup {d}
    BY <1>6, RefsCount DEF Refs!InsertRedemption
  <2>3. d.redeemer = p
    OBVIOUS
  <2> HIDE DEF d, p
  <2>. QED  BY <2>1, <2>2, <2>3 DEF RefTypes
<1>7. ASSUME NEW p \in RefPlayers, Refs!MonthPasses(p) PROVE RefTypes'
  BY <1>7 DEF Refs!MonthPasses, RefTypes
<1>. QED
  BY <1>1, <1>3, <1>4, <1>5, <1>6, <1>7
     DEF Refs!Next, Refs!Create, Refs!CheckRank, Refs!CheckReferred, Refs!Mine, Refs!Draw, Refs!GiveUp,
         Refs!Custom, Refs!CheckTaken, Refs!Redeem, Refs!Rows, referralsVars

LEMMA ReferralsTyped == ServiceSpec => [](part = "referrals" => Refs!RefTypeOK)
<1>1. ServiceInit => (part = "referrals" => RefTypes)
  BY DEF ServiceInit, Refs!Init, RefTypes
<1>2. /\ part = "referrals" => RefInv
      /\ part = "referrals" => RefTypes
      /\ [ServiceNext]_serviceVars
      => (part = "referrals" => RefTypes)'
  BY AccessMoves, RefTypesStay
<1>3. (part = "referrals" => RefInv) /\ (part = "referrals" => RefTypes) => (part = "referrals" => Refs!RefTypeOK)
  <2> SUFFICES ASSUME RefInv, RefTypes PROVE Refs!RefTypeOK
    OBVIOUS
  <2>1. \A f \in referrals : f.referrer \in RefPlayers /\ f.status \in {"pending", "completed"}
    BY DEF RefTypes, ReferralRows
  <2>2. total \in [RefPlayers -> 0..Cardinality(RefPlayers)]
    BY CountsInPlayers DEF RefInv, PaidInv
  <2>3. \A r \in RefRequests : refReq[r].kind \in {"idle", "create", "mine", "custom", "redeem"}
    BY DEF RefInv, ReqInv, RefReqRows
  <2>. QED  BY <2>1, <2>2, <2>3, RefsCount DEF RefInv, CodeTableInv, RefTypes, Refs!RefTypeOK
<1>. QED  BY <1>1, <1>2, <1>3, ReferralInvariant, PTL DEF ServiceSpec

-----------------------------------------------------------------------------
(* A behaviour is that of one part, which it never leaves.                  *)
Parts == {"links", "subscriptions", "checkouts", "reads", "cache", "boards", "messages", "notices", "changelog",
          "analytics", "alerts", "limits", "gates", "queries", "streams", "events", "referrals", "commands"}

LEMMA PartStays == ServiceSpec => [](part \in Parts)
<1>1. ServiceInit => part \in Parts
  BY DEF ServiceInit, Parts
<1>2. part \in Parts /\ [ServiceNext]_serviceVars => (part \in Parts)'
  BY TrafficMoves
<1>. QED  BY <1>1, <1>2, PTL DEF ServiceSpec

(* Every part keeps its types, whatever the constants: the rows of every    *)
(* table are rows of that table, no clock, counter or ring leaves its       *)
(* bounds, a request or a pass is at a step of its own handler, and no      *)
(* player's counter shows more redemptions than there are players.          *)
THEOREM AllTyped == ServiceSpec => []ServiceTypeOK
<1>1. ServiceSpec => [](part \in {"links", "subscriptions", "checkouts", "gates", "referrals"} => ServiceTypeOK)
  <2>1. /\ part = "links" => Links!TypeOK
        /\ part = "subscriptions" => Subscriptions!TypeOK
        /\ part = "checkouts" => Checkouts!TypeOK
        /\ part = "gates" => Gate!GateTypeOK
        /\ part = "referrals" => Refs!RefTypeOK
        => (part \in {"links", "subscriptions", "checkouts", "gates", "referrals"} => ServiceTypeOK)
    BY DEF ServiceTypeOK
  <2>. QED  BY <2>1, LinksTyped, SubscriptionsTyped, CheckoutsTyped, GatesTyped, ReferralsTyped, PTL
<1>2. ServiceSpec => [](part \in {"messages", "notices", "changelog", "analytics", "alerts"} => ServiceTypeOK)
  <2>1. /\ part = "messages" => Messages!DmTypeOK
        /\ part = "notices" => Notices!NoticeTypeOK
        /\ part = "changelog" => Log!LogTypeOK
        /\ part = "analytics" => Days!DayTypeOK
        /\ part = "alerts" => Alerts!AlertTypeOK
        => (part \in {"messages", "notices", "changelog", "analytics", "alerts"} => ServiceTypeOK)
    BY DEF ServiceTypeOK
  <2>. QED  BY <2>1, MessagesTyped, NoticesTyped, LogTyped, DaysTyped, AlertsTyped, PTL
<1>3. ServiceSpec => [](part \in {"reads", "cache", "boards", "limits"} => ServiceTypeOK)
  <2>1. /\ part = "reads" => Reads!TypeOK
        /\ part = "cache" => Cache!CacheTypeOK
        /\ part = "boards" => Boards!PagesTypeOK
        /\ part = "limits" => Limits!LimitTypeOK
        => (part \in {"reads", "cache", "boards", "limits"} => ServiceTypeOK)
    BY DEF ServiceTypeOK
  <2>. QED  BY <2>1, ReadsTyped, CacheTyped, BoardsTyped, LimitsTyped, PTL
<1>4. ServiceSpec => [](part \in {"queries", "streams", "events", "commands"} => ServiceTypeOK)
  <2>1. /\ part = "queries" => Slots!SlotTypeOK
        /\ part = "streams" => Streams!StreamTypeOK
        /\ part = "events" => Events!StreamTypeOK
        /\ part = "commands" => Commands!CommandTypeOK
        => (part \in {"queries", "streams", "events", "commands"} => ServiceTypeOK)
    BY DEF ServiceTypeOK
  <2>. QED  BY <2>1, SlotsTyped, StreamsTyped, CommandsTyped, PTL
<1>5. /\ part \in {"links", "subscriptions", "checkouts", "gates", "referrals"} => ServiceTypeOK
      /\ part \in {"messages", "notices", "changelog", "analytics", "alerts"} => ServiceTypeOK
      /\ part \in {"reads", "cache", "boards", "limits"} => ServiceTypeOK
      /\ part \in {"queries", "streams", "events", "commands"} => ServiceTypeOK
      /\ part \in Parts
      => ServiceTypeOK
  BY DEF Parts
<1>. QED  BY <1>1, <1>2, <1>3, <1>4, <1>5, PartStays, PTL
=============================================================================
