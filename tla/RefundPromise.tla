---------------------------- MODULE RefundPromise ----------------------------
(***************************************************************************)
(* What the shop promises about the refunds of one payment, without saying *)
(* how: a refund asks for units nobody else has asked for, counts as       *)
(* returned only after the gateway has moved its money, or is declined and *)
(* lets its units go; neither answer is ever taken back, and the payment   *)
(* is closed, once, by the refund that returns the last of it.             *)
(***************************************************************************)
CONSTANTS Keys, Units

VARIABLES
  phase,   \* per refund: "none", "asked", "returned", "declined"
  share,   \* per refund: the units of the payment it holds
  moved,   \* refunds whose money the gateway has paid out
  closed,  \* nothing is left to refund
  coupon   \* "used", or "returned" to the customer

refundVars == <<phase, share, moved, closed, coupon>>

Returned == UNION {share[k] : k \in {j \in Keys : phase[j] = "returned"}}

RefundInit ==
  /\ phase  = [k \in Keys |-> "none"]
  /\ share  = [k \in Keys |-> {}]
  /\ moved  = {}
  /\ closed = FALSE
  /\ coupon = "used"

Ask(k, s) ==
  /\ phase[k] = "none"
  /\ ~closed
  /\ s # {} /\ \A j \in Keys : s \cap share[j] = {}
  /\ phase' = [phase EXCEPT ![k] = "asked"]
  /\ share' = [share EXCEPT ![k] = s]
  /\ UNCHANGED <<moved, closed, coupon>>

\* Money moves at most once per refund, perhaps long after it was asked for.
Move(k) ==
  /\ phase[k] # "none" /\ k \notin moved
  /\ moved' = moved \cup {k}
  /\ UNCHANGED <<phase, share, closed, coupon>>

Return(k) ==
  /\ phase[k] = "asked" /\ k \in moved
  /\ phase' = [phase EXCEPT ![k] = "returned"]
  /\ closed' = (Returned \cup share[k] = Units)
  /\ coupon' \in IF closed' THEN {coupon, "returned"} ELSE {coupon}
  /\ UNCHANGED <<share, moved>>

Decline(k) ==
  /\ phase[k] = "asked"
  /\ phase' = [phase EXCEPT ![k] = "declined"]
  /\ share' = [share EXCEPT ![k] = {}]
  /\ UNCHANGED <<moved, closed, coupon>>

RefundNext ==
  \E k \in Keys :
    \/ \E s \in SUBSET Units : Ask(k, s)
    \/ Move(k) \/ Return(k) \/ Decline(k)

RefundSpec == RefundInit /\ [][RefundNext]_refundVars
=============================================================================
