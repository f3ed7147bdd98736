---------------------------- MODULE OrderPromise ----------------------------
(***************************************************************************)
(* What the shop promises about orders, stock and money, without saying    *)
(* how: an order takes a unit when it is placed, is then either paid with  *)
(* one payment or withdrawn, a withdrawn order gives its unit back once,   *)
(* and every payment ever acknowledged is either kept for the one order it *)
(* pays or owed back to the customer of a withdrawn one.                   *)
(***************************************************************************)
EXTENDS Integers

CONSTANTS Orders, Payments, InitialStock, NoOrder

VARIABLES
  phase,    \* per order: "none", "open", "paid", "withdrawn"
  free,     \* units on sale
  receipt   \* per payment: what it was acknowledged as, and for which order

promiseVars == <<phase, free, receipt>>

Nothing  == [kind |-> "none", order |-> NoOrder]
Kept(o)  == [kind |-> "kept", order |-> o]
Owed(o)  == [kind |-> "owed", order |-> o]

PromiseInit ==
  /\ phase   = [o \in Orders |-> "none"]
  /\ free    = InitialStock
  /\ receipt = [p \in Payments |-> Nothing]

Place(o) ==
  /\ phase[o] = "none"
  /\ free > 0
  /\ phase' = [phase EXCEPT ![o] = "open"]
  /\ free'  = free - 1
  /\ UNCHANGED receipt

Withdraw(o) ==
  /\ phase[o] = "open"
  /\ phase' = [phase EXCEPT ![o] = "withdrawn"]
  /\ free'  = free + 1
  /\ UNCHANGED receipt

Settle(o, p) ==
  /\ phase[o] = "open"
  /\ receipt[p] = Nothing
  /\ phase'   = [phase EXCEPT ![o] = "paid"]
  /\ receipt' = [receipt EXCEPT ![p] = Kept(o)]
  /\ UNCHANGED free

Owe(o, p) ==
  /\ phase[o] = "withdrawn"
  /\ receipt[p] = Nothing
  /\ receipt' = [receipt EXCEPT ![p] = Owed(o)]
  /\ UNCHANGED <<phase, free>>

PromiseNext ==
  \E o \in Orders :
    \/ Place(o)
    \/ Withdraw(o)
    \/ \E p \in Payments : Settle(o, p) \/ Owe(o, p)

PromiseSpec == PromiseInit /\ [][PromiseNext]_promiseVars
=============================================================================
