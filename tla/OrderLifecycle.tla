--------------------------- MODULE OrderLifecycle ---------------------------
(***************************************************************************)
(* What a client is promised about an order it sent (README.md, the list   *)
(* of messages the server sends): the order is accepted or rejected first, *)
(* an accepted order trades in steps, and the last word about it is        *)
(* "filled" or "canceled".  The state is what the client knows from the    *)
(* execution reports it has been sent.                                     *)
(***************************************************************************)
EXTENDS Integers

CONSTANTS Requests,        \* the new orders
          QuantityOf(_)    \* the quantity a request asks for

VARIABLES status, filledQty

lifecycleVars == <<status, filledQty>>

Init ==
    /\ status = [r \in Requests |-> "unknown"]
    /\ filledQty = [r \in Requests |-> 0]

Acknowledge(r, answer) ==
    /\ status[r] = "unknown"
    /\ answer \in {"ACCEPTED", "REJECTED"}
    /\ status' = [status EXCEPT ![r] = answer]
    /\ UNCHANGED filledQty

IsLive(r) == status[r] \in {"ACCEPTED", "PARTIALLY_FILLED"}

(* A trade of nothing takes an order for nothing, on one side of it.        *)
Tradable(quantity) == quantity > 0 \/ \E r \in Requests : QuantityOf(r) = 0

Trade(r, quantity) ==
    /\ IsLive(r)
    /\ Tradable(quantity)
    /\ filledQty[r] + quantity <= QuantityOf(r)
    /\ filledQty' = [filledQty EXCEPT ![r] = @ + quantity]
    /\ status' = [status EXCEPT ![r] =
            IF filledQty[r] + quantity = QuantityOf(r) THEN "FILLED"
                                                       ELSE "PARTIALLY_FILLED"]

Cancel(r) ==
    /\ IsLive(r)
    /\ status' = [status EXCEPT ![r] = "CANCELED"]
    /\ UNCHANGED filledQty

Next ==
    \E r \in Requests :
        \/ \E answer \in {"ACCEPTED", "REJECTED"} : Acknowledge(r, answer)
        \/ \E quantity \in 0..QuantityOf(r) : Trade(r, quantity)
        \/ Cancel(r)

Spec == Init /\ [][Next]_lifecycleVars
=============================================================================
