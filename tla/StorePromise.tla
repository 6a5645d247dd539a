---------------------------- MODULE StorePromise ----------------------------
(***************************************************************************)
(* What the store promises about one paid order, with no claims, ledger,   *)
(* commands or calls in sight: every line is delivered once, PayNow is     *)
(* told "done" only after the last of them, and a closed refund leaves     *)
(* nothing delivered and lets nothing be delivered afterwards.             *)
(***************************************************************************)
CONSTANT Items

VARIABLES
    item,     \* per order line: owed, delivered or revoked
    settled,  \* PayNow has been told that the order is done
    closed    \* PayNow has been told that the refund is done

promise == <<item, settled, closed>>

Init ==
    /\ item = [i \in Items |-> "owed"]
    /\ settled = FALSE
    /\ closed = FALSE

Deliver(i) ==
    /\ item[i] = "owed" /\ ~closed
    /\ item' = [item EXCEPT ![i] = "delivered"]
    /\ UNCHANGED <<settled, closed>>

Settle ==
    /\ \A i \in Items : item[i] # "owed"
    /\ settled' = TRUE
    /\ UNCHANGED <<item, closed>>

Revoke(i) ==
    /\ item[i] = "delivered"
    /\ item' = [item EXCEPT ![i] = "revoked"]
    /\ UNCHANGED <<settled, closed>>

CloseRefund ==
    /\ \A i \in Items : item[i] # "delivered"
    /\ closed' = TRUE
    /\ UNCHANGED <<item, settled>>

Next ==
    \/ Settle \/ CloseRefund
    \/ \E i \in Items : Deliver(i) \/ Revoke(i)

Spec == Init /\ [][Next]_promise
=============================================================================
