----------------------------- MODULE Checkouts ------------------------------
(***************************************************************************)
(* What can be bought and for whom (under src/src: api/routes.ts,          *)
(* db/pool.ts, paynow/client.ts, paynow/constants.ts,                      *)
(* paynow/fulfillment.ts): who the buyer of a store request is, how a name *)
(* becomes an account, which lines a checkout is opened with, and what the *)
(* order webhook makes of the same lines after payment.                    *)
(*                                                                         *)
(* An account is a Java, a Bedrock (Floodgate) or an offline-mode uuid.  A *)
(* Java name and a Bedrock gamertag may be the same string: the store UI   *)
(* writes the latter with a dot, the registry may hold it without.         *)
(***************************************************************************)
EXTENDS Integers

CONSTANTS
    Names,      \* player names, without a dot
    Mojang,     \* the names that are Java accounts
    Quantities  \* quantities a client sends


None == "none"
Platforms == {"java", "bedrock", "offline"}
Account(pf, n) == [platform |-> pf, name |-> n]
Nobody == Account(None, None)
Accounts == {Account("java", n) : n \in Mojang} \cup {Account("bedrock", n) : n \in Names}
Typed == [dot : BOOLEAN, name : Names]
NoName == [dot |-> FALSE, name |-> None]

VARIABLES
    registry, \* player_names: the accounts with a row
    customers,\* paynow_customers: the accounts with a cached customer id
    session,  \* the lines of the checkout opened last, the buyer, and what was asked
    got       \* what the order of that checkout delivered

vars == <<registry, customers, session, got>>

-----------------------------------------------------------------------------
Products == {"subscription", "lifetime", "aureus", "upgrade", "crate_key", "booster",
             "starter", "foreign"}

(* resolveStoreDispatch: the command of the order webhook, or none.         *)
ResolveDispatch(product) ==
    IF product \in {"lifetime", "upgrade"} THEN "rank"
    ELSE IF product \in {"aureus", "crate_key", "booster"} THEN product
    ELSE None

isOneTimeStoreProduct(product) == ResolveDispatch(product) # None \/ product = "starter"
isGiftableProduct(product) == product \in {"lifetime", "aureus", "crate_key"}

Clamp(q) == IF q < 1 THEN 1 ELSE IF q > 99 THEN 99 ELSE q

(* buildStoreDispatchCommand: stackable goods are multiplied, ranks not.    *)
CommandUnits(product, q) == IF ResolveDispatch(product) = "rank" THEN 1 ELSE Clamp(q)

(* Mutant: the first row of that name, whatever its platform.               *)
ByNameFirst(t) == {a \in registry : a.name = t.name}

(* getUuidByUsername with strictPlatform, registry part.                    *)
ByName(t) == {a \in registry : a.name = t.name /\ (a.platform = "bedrock") = t.dot}

(* Its external part: Mojang, else PlayerDB, for Java names only; either or *)
(* both may be out of reach.                                                *)
FromMojang(t) ==
    IF ~t.dot /\ t.name \in Mojang THEN {Account("java", t.name), Nobody} ELSE {Nobody}
Resolved(t) == IF ByName(t) # {} THEN ByName(t) ELSE FromMojang(t)

(* A Mojang answer is kept in the registry, if the write succeeds.          *)
Remembered(a) ==
    IF a = Nobody \/ a.platform # "java" THEN {registry} ELSE {registry, registry \cup {a}}

(* resolveGuestBuyerUuid: a Bedrock name without a row, or whose row cannot *)
(* be read, gets the uuid the plugin derives for it in offline mode.        *)
GuestBuyer(t) ==
    {IF a = Nobody /\ t.dot THEN Account("offline", t.name) ELSE a : a \in Resolved(t) \cup {Nobody}}

(* storeAuth: the service token names an account, the bot token may carry a *)
(* guest's name only, anyone else needs a linked session.  NoName and       *)
(* Nobody stand for what is absent; Nobody is refused.                      *)
StoreAuth(cred) ==
    CASE cred.token = "service" /\ cred.uuid # Nobody -> {cred.uuid}
      [] cred.token = "bot" /\ cred.uuid # Nobody -> {Nobody}
      [] cred.token \in {"service", "bot"} /\ cred.uuid = Nobody ->
            IF cred.guest = NoName THEN {Nobody} ELSE GuestBuyer(cred.guest)
      [] OTHER -> {cred.session}
Creds ==
    {[token |-> tk, uuid |-> u, guest |-> g, session |-> Nobody] :
        tk \in {"service", "bot"}, u \in Accounts \cup {Nobody}, g \in Typed \cup {NoName}}
    \cup {[token |-> None, uuid |-> Nobody, guest |-> NoName, session |-> a] : a \in Accounts}

(* The PayNow customer of an account: cached here or found at PayNow, which *)
(* resolves a Bedrock name itself; the id stands for the account.           *)
CustomerKept(S) == customers' \in {customers, customers \cup S}

(* createCheckoutSession with what the request asked for (history).         *)
Line(product, isSub, giftTo, q) == [product |-> product, sub |-> isSub, giftTo |-> giftTo, quantity |-> q]
NoSession == [buyer |-> Nobody, line |-> Line(None, FALSE, Nobody, 1), named |-> NoName]
Open(customer, line, named) ==
    session' \in {session, [buyer |-> customer, line |-> line, named |-> named]}

(* A guest is named by the request, everybody else proved who he is.        *)
NameOf(cred, p) ==
    IF cred.uuid = Nobody /\ cred.session = Nobody THEN cred.guest
    ELSE [dot |-> p.platform = "bedrock", name |-> p.name]

Checkout(cred, product, isSub) ==
    \E p \in StoreAuth(cred) \ {Nobody} :
        /\ IF isSub THEN product = "subscription" ELSE isOneTimeStoreProduct(product)
        /\ Open(p, Line(product, isSub, Nobody, 1), NameOf(cred, p))
        /\ CustomerKept({p})
        /\ registry' = registry

(* The customer of a gift checkout is the recipient.                        *)
GiftCheckout(cred, product, t) ==
    \E p \in StoreAuth(cred) \ {Nobody}, r \in Resolved(t) \ {Nobody} :
        /\ isGiftableProduct(product) /\ r # p
        /\ Open(r, Line(product, FALSE, Nobody, 1), t)
        /\ CustomerKept({r})
        /\ registry' \in Remembered(r)

(* Every line of a cart is judged by itself and one refusal refuses all, so *)
(* a cart is represented by any one of its lines.                           *)
CartCheckout(cred, product, isSub, t, q) ==
    \E p \in StoreAuth(cred) \ {Nobody} :
        \/ /\ t = NoName
           /\ IF isSub THEN product = "subscription" ELSE isOneTimeStoreProduct(product)
           /\ Open(p, Line(product, isSub, Nobody, Clamp(q)), NameOf(cred, p))
           /\ CustomerKept({p})
           /\ registry' = registry
        \/ /\ t # NoName /\ isGiftableProduct(product)
           /\ \E r \in Resolved(t) \ {Nobody, p} :
                 /\ Open(p, Line(product, FALSE, r, Clamp(q)), t)
                 /\ CustomerKept({p, r})
                 /\ registry' \in Remembered(r)

-----------------------------------------------------------------------------
NoGoods == [to |-> Nobody, kind |-> None, units |-> 0]

TypeOK ==
    /\ registry \subseteq Accounts
    /\ customers \subseteq Accounts \cup {Account("offline", n) : n \in Names}
    /\ session.line.quantity \in 1 .. 99
    /\ session.named \in Typed \cup {NoName}
    /\ got.units \in 0 .. 99

Init ==
    /\ registry = {} /\ customers = {}
    /\ session = NoSession
    /\ got = NoGoods

(* A player joins: the plugin writes his row (external).                    *)
Joins(a) ==
    /\ registry' = registry \cup {a}
    /\ UNCHANGED <<customers, session, got>>

(* The paid line comes back in the order post: parsed, resolved to an       *)
(* account and dispatched once more by its product.  The order skips a line *)
(* without a command: the starter pack is handed out by its own commands at *)
(* PayNow, a subscription by its own events, each to the customer.          *)
OrderLine(line) == [line EXCEPT !.quantity = Clamp(@)]
Deliver ==
    /\ session # NoSession /\ got = NoGoods
    /\ LET l == OrderLine(session.line)
           kind == ResolveDispatch(l.product)
       IN  got' = IF kind = None
                  THEN [to |-> session.buyer, kind |-> l.product, units |-> 1]
                  ELSE [to |-> IF l.giftTo = Nobody THEN session.buyer ELSE l.giftTo,
                        kind |-> kind, units |-> CommandUnits(l.product, l.quantity)]
    /\ UNCHANGED <<registry, customers, session>>

Request ==
    /\ session = NoSession
    /\ \E cred \in Creds, product \in Products :
          \/ \E isSub \in BOOLEAN :
                \/ Checkout(cred, product, isSub)
                \/ \E t \in Typed \cup {NoName}, q \in Quantities : CartCheckout(cred, product, isSub, t, q)
          \/ \E t \in Typed : GiftCheckout(cred, product, t)
    /\ UNCHANGED got

Next == (\E a \in Accounts : Joins(a)) \/ Request \/ Deliver

Spec == Init /\ [][Next]_vars

-----------------------------------------------------------------------------
(* What was paid is what is handed out, to the account that was named: a    *)
(* dot-name never reaches a Java account nor a bare name a Bedrock one, the *)
(* order webhook knows every product a checkout accepts, and it hands out   *)
(* the quantity that was charged (B-C25, B-C17, B-14).                      *)
PaidIsHandedOut ==
    got # NoGoods =>
        /\ got.to.name = session.named.name
        /\ (got.to.platform \in {"bedrock", "offline"}) = session.named.dot
        /\ got.kind \in {"rank", "aureus", "crate_key", "booster", "starter", "subscription"}
        /\ session.line.sub <=> got.kind = "subscription"
        /\ got.kind \in {"aureus", "crate_key", "booster"} => got.units = session.line.quantity
=============================================================================
