--------------------------- MODULE Subscriptions ----------------------------
(***************************************************************************)
(* The cached donor subscription (under src/src: api/routes.ts,            *)
(* db/pool.ts, paynow/client.ts): one row per player that the PayNow       *)
(* webhook, the cancel route and the dashboard share.                      *)
(*                                                                         *)
(* PayNow is external: it has one customer per player, repeats an event    *)
(* until it is answered 2xx, in any order, and is the truth.               *)
(***************************************************************************)
EXTENDS Naturals

CONSTANTS
    Buyers,   \* Minecraft uuids
    Askers,   \* the buyers who ask for a cancellation
    Subs,     \* subscriptions ever sold
    Owner,    \* the buyer (and so the customer) of each subscription
    Foreign   \* subscriptions of products outside the donor catalogue


VARIABLES
    subs,     \* PayNow: "unsold", "active" or "canceled"
    events,   \* webhook events PayNow will still post
    cached,   \* paynow_subscriptions: the row of each player, or None
    hook,     \* the webhook call in progress
    cancel    \* the cancel request of each player

paynowVars == <<subs, events>>
subVars == <<paynowVars, cached, hook, cancel>>

None == "none"
Kinds == {"activated", "renewed", "canceled"}
Event(k, s) == [kind |-> k, sub |-> s]
NoEvent == Event(None, None)
(* unfit: not written for 45 days, or written without a product id.         *)
Row(s, st, unfit) == [sub |-> s, status |-> st, unfit |-> unfit]
NoRow == Row(None, None, FALSE)
NoHook == [pc |-> "idle", event |-> NoEvent, uuid |-> None]
NoCancel == [pc |-> "idle", sub |-> None, named |-> FALSE]
MaybeSub == Subs \cup {None}

-----------------------------------------------------------------------------
TypeOK ==
    /\ subs \in [Subs -> {"unsold", "active", "canceled"}]
    /\ events \subseteq [kind : Kinds, sub : Subs]
    /\ cached \in [Buyers -> [sub : MaybeSub, status : {"active", "canceled", None}, unfit : BOOLEAN]]
    /\ hook \in [pc : {"idle", "upsert"}, event : [kind : Kinds, sub : Subs] \cup {NoEvent},
                 uuid : Buyers \cup {None}]
    /\ cancel \in [Askers -> [pc : {"idle", "verify", "post", "write"}, sub : MaybeSub,
                            named : BOOLEAN]]

Init ==
    /\ subs = [s \in Subs |-> "unsold"]
    /\ events = {}
    /\ cached = [p \in Buyers |-> NoRow]
    /\ hook = NoHook
    /\ cancel = [p \in Askers |-> NoCancel]

(* PayNow sells, renews and ends subscriptions and announces each.          *)
PaynowActs(s) ==
    /\ \E k \in Kinds :
          /\ subs[s] = IF k = "activated" THEN "unsold" ELSE "active"
          /\ subs' = [subs EXCEPT ![s] = IF k = "canceled" THEN "canceled" ELSE "active"]
          /\ events' = events \cup {Event(k, s)}
    /\ UNCHANGED <<cached, hook, cancel>>

(* The answer to an event: 2xx ends PayNow's repeats, unless it is lost.    *)
Ack(e) == events' \in {events \ {e}, events}
Nack == UNCHANGED events

(* upsertCachedSubscription: one row per player, the last writer stays.     *)
UpsertCached(p, s, status) == cached' = [cached EXCEPT ![p] = Row(s, status, FALSE)]

(* Activation and renewal of a product outside the catalogue are not        *)
(* cached; a cancellation is not asked for its product.                     *)
HookSubscription(e) ==
    /\ hook = NoHook /\ e \in events /\ e.kind # "canceled"
    /\ \/ e.sub \in Foreign /\ Ack(e) /\ UNCHANGED hook
       \/ e.sub \notin Foreign /\ Ack(e) /\ UNCHANGED hook     \* not resolved: logged, 200
       \/ /\ e.sub \notin Foreign
          /\ hook' = [pc |-> "upsert", event |-> e, uuid |-> Owner[e.sub]]
          /\ Nack
    /\ UNCHANGED <<subs, cached, cancel>>

HookCanceled(e) ==
    /\ hook = NoHook /\ e \in events /\ e.kind = "canceled"
    /\ \/ UNCHANGED hook                                        \* not resolved: 500
       \/ hook' = [pc |-> "upsert", event |-> e, uuid |-> Owner[e.sub]]
    /\ Nack
    /\ UNCHANGED <<subs, cached, cancel>>

(* Mutant: a failed write of any event is answered 200.                     *)
HookFailsQuietly(e) == Ack(e)

(* The outer catch: a cancellation is answered 500, anything else 200.      *)
HookFails(e) == IF e.kind = "canceled" THEN Nack ELSE Ack(e)

HookUpsert ==
    /\ hook.pc = "upsert"
    /\ LET e == hook.event
           status == IF e.kind = "canceled" THEN "canceled" ELSE "active"
       IN  \/ /\ UpsertCached(hook.uuid, e.sub, status)
              /\ Ack(e)
           \/ HookFails(e) /\ UNCHANGED cached
    /\ hook' = NoHook
    /\ UNCHANGED <<subs, cancel>>

HookDies ==
    /\ hook # NoHook /\ hook' = NoHook
    /\ UNCHANGED <<paynowVars, cached, cancel>>

(* After 45 days without a write a row is stale.                            *)
Ages(p) ==
    /\ cached[p] # NoRow /\ ~cached[p].unfit
    /\ cached' = [cached EXCEPT ![p].unfit = TRUE]
    /\ UNCHANGED <<paynowVars, hook, cancel>>

-----------------------------------------------------------------------------
(* The live answer of the Storefront API: the first donor subscription.     *)
LiveSubs(p) == {s \in Subs \ Foreign : Owner[s] = p /\ subs[s] # "unsold"}
Live(p) == IF LiveSubs(p) = {} THEN {None} ELSE LiveSubs(p)

(* Mutant: the cached row is served whatever its product.                   *)
ServableAny(p) == cached[p] # NoRow /\ ~cached[p].unfit
Servable(p) == cached[p] # NoRow /\ cached[p].sub \notin Foreign /\ ~cached[p].unfit

(* GET /store/subscription; a read that fails goes to PayNow, and PayNow    *)
(* that fails makes an answer that says so.                                 *)
ShowSubscription(p) ==
    (IF Servable(p) THEN {cached[p].sub} ELSE {}) \cup Live(p) \cup {"unavailable"}

(* POST /store/subscription/cancel.  The candidate comes from the cache,    *)
(* whatever the row says, or from PayNow.                                   *)
CancelPick(p) ==
    /\ cancel[p] = NoCancel
    /\ \E s \in IF cached[p] # NoRow THEN {cached[p].sub} \cup Live(p) ELSE Live(p) :
          /\ s # None
          /\ cancel' = [cancel EXCEPT ![p] = [pc |-> "verify", sub |-> s, named |-> cached[p] # NoRow]]
    /\ UNCHANGED <<paynowVars, cached, hook>>

(* Mutant: the id from the cache is enough.                                 *)
CancelTrust(p) ==
    /\ cancel[p].pc = "verify"
    /\ cancel' = [cancel EXCEPT ![p].pc = "post"]
    /\ UNCHANGED <<paynowVars, cached, hook>>

(* The owner is asked of PayNow; another one, 404 or no answer ends it.     *)
CancelVerify(p) ==
    /\ cancel[p].pc = "verify"
    /\ \/ /\ Owner[cancel[p].sub] = p
          /\ cancel' = [cancel EXCEPT ![p].pc = "post"]
       \/ cancel' = [cancel EXCEPT ![p] = NoCancel]
    /\ UNCHANGED <<paynowVars, cached, hook>>

(* PayNow cancels an active subscription and refuses any other; its answer  *)
(* may be lost, which is an error for the caller.                           *)
CancelPost(p) ==
    /\ cancel[p].pc = "post"
    /\ LET s == cancel[p].sub
       IN  \/ /\ subs[s] = "active"
              /\ subs' = [subs EXCEPT ![s] = "canceled"]
              /\ events' = events \cup {Event("canceled", s)}
              /\ \E pc \in {"write", "idle"} :
                    cancel' = [cancel EXCEPT ![p] = IF pc = "idle" THEN NoCancel ELSE [@ EXCEPT !.pc = pc]]
           \/ cancel' = [cancel EXCEPT ![p] = NoCancel] /\ UNCHANGED paynowVars
    /\ UNCHANGED <<cached, hook>>

(* The awaited write of the cancel path, with the product the cache named,  *)
(* if it had a row; a failure is logged.                                    *)
CancelWrite(p) ==
    /\ cancel[p].pc = "write"
    /\ cached' \in {cached, [cached EXCEPT ![p] = Row(cancel[p].sub, "canceled", ~cancel[p].named)]}
    /\ cancel' = [cancel EXCEPT ![p] = NoCancel]
    /\ UNCHANGED <<paynowVars, hook>>

(* POST /store/subscription/change: PayNow moves an active subscription to  *)
(* another tier and announces it; it may ask for a verification code first. *)
ChangeTier(p) ==
    /\ \E s \in LiveSubs(p) :
          /\ subs[s] = "active"
          /\ events' = events \cup {Event("renewed", s)}
    /\ UNCHANGED <<subs, cached, hook, cancel>>

(* A row may name a subscription of somebody else: the route's own threat,  *)
(* "a stale/tampered cache row".                                            *)
RowIsTampered(p, s) ==
    /\ subs[s] # "unsold" /\ cached[p].sub # s
    /\ UpsertCached(p, s, "active")
    /\ UNCHANGED <<paynowVars, hook, cancel>>

Next ==
    \/ \E s \in Subs : PaynowActs(s)
    \/ \E e \in events : HookSubscription(e) \/ HookCanceled(e)
    \/ HookUpsert \/ HookDies
    \/ \E p \in Buyers : Ages(p) \/ ChangeTier(p) \/ \E s \in Subs : RowIsTampered(p, s)
    \/ \E p \in Askers : CancelPick(p) \/ CancelVerify(p) \/ CancelPost(p) \/ CancelWrite(p)

Spec == Init /\ [][Next]_subVars

-----------------------------------------------------------------------------
(* PayNow stops posting a cancellation only when it was cached: "one        *)
(* swallowed failure strands status active in the cache forever" (B-09).    *)
ClosedCancelWasCached ==
    [][\A e \in events \ events' :
          e.kind = "canceled" => cached'[Owner[e.sub]] = Row(e.sub, "canceled", FALSE)]_subVars

(* Whatever the cache row says, no cancellation of somebody else's          *)
(* subscription is sent to PayNow.                                          *)
OnlyOwnerCancels ==
    \A p \in Askers : cancel[p].pc \in {"post", "write"} => Owner[cancel[p].sub] = p

(* A product outside the catalogue is never shown as a player's tier, even  *)
(* though a cancellation may put one into the cache (B-21).                 *)
ShownIsDonor == \A p \in Buyers : ShowSubscription(p) \cap Foreign = {}

(* "Keeps paynow_subscriptions in sync so the dashboard can read current-   *)
(* tier state": with no event left to come and none under way, a player     *)
(* with an active donor subscription is not cached as having a cancelled    *)
(* one.                                                                     *)
CacheInSync ==
    \A p \in Buyers :
        (/\ \A e \in events : Owner[e.sub] # p
         /\ hook = NoHook /\ (p \in Askers => cancel[p] = NoCancel)
         /\ \E s \in LiveSubs(p) : subs[s] = "active")
        => cached[p].status # "canceled"
=============================================================================
