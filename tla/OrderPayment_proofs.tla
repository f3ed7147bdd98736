------------------------- MODULE OrderPayment_proofs -------------------------
(***************************************************************************)
(* Proofs about OrderPayment, for any sets of orders, payments, coupons    *)
(* and workers and any stock.                                              *)
(***************************************************************************)
EXTENDS OrderPayment, FiniteSetTheorems, TLAPS

\* An accepted event adds one row.
LEMMA EventCounted ==
  ASSUME TypeOK, NEW p \in Payments, NEW e \in Events, WebhookAccepted(p, e)
  PROVE  processed' \in [Payments \X Events -> 0..MaxEvents]
<1> DEFINE x == <<p, e>>
<1>1. x \in Payments \X Events /\ processed \in [Payments \X Events -> 0..MaxEvents]
  BY DEF TypeOK
<1>2. processed[x] < MaxEvents /\ processed' = [processed EXCEPT ![x] = @ + 1]
  BY DEF WebhookAccepted
<1> HIDE DEF x
<1>3. processed[x] + 1 \in 0..MaxEvents
  BY <1>1, <1>2, EventsAssumption
<1> QED
  BY <1>1, <1>2, <1>3

\* What a cancellation writes, on whatever copy, is well formed.
CancelTypes ==
  /\ status'       \in [Orders -> {"none", "pending_payment", "paid", "cancelled"}]
  /\ payStatus'    \in [Orders -> {"unpaid", "paid", "refunding"}]
  /\ paidBy'       \in [Orders -> Payments \cup {NoPayment}]
  /\ applied'      \in [Orders -> SUBSET Coupons]
  /\ stock'        \in Int
  /\ couponStatus' \in [Coupons -> {"available", "locked", "used", "expired"}]
  /\ couponOrder'  \in [Coupons -> Orders \cup {NoOrder}]

LEMMA CancelWrites ==
  ASSUME TypeOK, NEW o \in Orders, CancelOrder(o)
  PROVE  CancelTypes
<1>1. couponStatus' \in [Coupons -> {"available", "locked", "used", "expired"}]
  BY DEF TypeOK, CancelOrder, ReleaseCoupon
<1>2. couponOrder' \in [Coupons -> Orders \cup {NoOrder}]
  BY DEF TypeOK, CancelOrder, ReleaseCoupon
<1> QED
  BY <1>1, <1>2 DEF TypeOK, CancelOrder, RestoreStock, CancelTypes

(* TypeOK holds of the whole system: every handler, locked or not, and every
   crash leaves well-formed rows and well-formed jobs.  This is the type
   invariant of the runs "locked" and "full". *)
THEOREM TypeCorrect == Spec => []TypeOK
<1>1. Init => TypeOK
  BY StockAssumption, EventsAssumption DEF Init, TypeOK, Jobs
<1>2. TypeOK /\ [Next]_vars => TypeOK'
  <2> SUFFICES ASSUME TypeOK, [Next]_vars PROVE TypeOK'
    OBVIOUS
  <2> USE DEF TypeOK, orderVars, couponVars, logVars, eventVars, gatewayVars, workerVars
  <2>1. ASSUME NEW o \in Orders, NEW cs \in SUBSET Coupons, Checkout(o, cs) PROVE TypeOK'
    BY <2>1 DEF Checkout
  <2>2. ASSUME NEW o \in Orders, UserCancel(o) PROVE TypeOK'
    BY <2>2, CancelWrites DEF UserCancel, CancelTypes
  <2>3. ASSUME NEW o \in Orders, AutoCancel(o) PROVE TypeOK'
    BY <2>3, CancelWrites DEF AutoCancel, CancelTypes
  <2>4. ASSUME NEW o \in Orders, OrderDue(o) PROVE TypeOK'
    BY <2>4 DEF OrderDue
  <2>5. ASSUME NEW p \in Payments, NEW o \in Orders, CreatePayment(o, p) PROVE TypeOK'
    BY <2>5 DEF CreatePayment
  <2>6. ASSUME NEW p \in Payments, GatewayAccept(p) \/ GatewayReject(p) \/ SaveGatewayId(p)
        PROVE TypeOK'
    <3>1. CASE GatewayAccept(p)
      BY <3>1 DEF GatewayAccept
    <3>2. CASE GatewayReject(p)
      BY <3>2 DEF GatewayReject
    <3>3. CASE SaveGatewayId(p)
      BY <3>3 DEF SaveGatewayId
    <3> QED
      BY <2>6, <3>1, <3>2, <3>3
  <2>7. ASSUME NEW p \in Payments, PaymentAges(p) PROVE TypeOK'
    BY <2>7 DEF PaymentAges
  <2>8. ASSUME NEW p \in Payments, WebhookPaid(p) PROVE TypeOK'
    <3>1. processed' \in [Payments \X Events -> 0..MaxEvents]
      BY <2>8, EventCounted DEF WebhookPaid, Events
    <3> QED
      BY <2>8, <3>1 DEF WebhookPaid, PayOrder, ConsumeCoupon
  <2>9. ASSUME NEW p \in Payments, WebhookLate(p) PROVE TypeOK'
    <3>1. processed' \in [Payments \X Events -> 0..MaxEvents]
      BY <2>9, EventCounted DEF WebhookLate, Events
    <3>2. payStatus' \in [Orders -> {"unpaid", "paid", "refunding"}]
      BY <2>9 DEF WebhookLate
    <3>3. log' = [log EXCEPT ![p] = "success"] /\ lateRefund' = lateRefund \cup {p}
      BY <2>9 DEF WebhookLate
    <3>4. UNCHANGED <<status, paidBy, applied, due, stock, couponStatus, couponOrder, logOrder,
                      age, step, charge, declined, pc, on>>
      BY <2>9 DEF WebhookLate
    <3> QED
      BY <3>1, <3>2, <3>3, <3>4
  <2>10. ASSUME NEW p \in Payments, NEW e \in Events, WebhookUnpaid(p, e) PROVE TypeOK'
    <3>1. processed' \in [Payments \X Events -> 0..MaxEvents]
      BY <2>10, EventCounted DEF WebhookUnpaid
    <3> QED
      BY <2>10, <3>1 DEF WebhookUnpaid, Events
  <2>11. ASSUME NEW p \in Payments, GatewayCapture(p) \/ GatewayDecline(p) \/ GatewayClose(p)
         PROVE TypeOK'
    <3>1. CASE GatewayCapture(p)
      BY <3>1 DEF GatewayCapture
    <3>2. CASE GatewayDecline(p)
      BY <3>2 DEF GatewayDecline
    <3>3. CASE GatewayClose(p)
      BY <3>3 DEF GatewayClose
    <3> QED
      BY <2>11, <3>1, <3>2, <3>3
  <2>12. ASSUME NEW c \in Coupons, LazyRelease(c) PROVE TypeOK'
    BY <2>12 DEF LazyRelease
  <2>13. ASSUME NEW w \in Workers, NEW o \in Orders, AdminCancelRead(w, o) PROVE TypeOK'
    BY <2>13 DEF AdminCancelRead, Start, Jobs
  <2>14. ASSUME NEW w \in Workers, AdminCancelWrite(w) PROVE TypeOK'
    <3>1. on[w] \in Orders
      BY <2>14 DEF AdminCancelWrite
    <3> QED
      BY <2>14, <3>1, CancelWrites DEF AdminCancelWrite, CancelTypes, Finish, Jobs
  <2>15. ASSUME NEW w \in Workers, NEW p \in Payments, PollRead(w, p) \/ AbandonRead(w, p)
         PROVE TypeOK'
    <3>1. CASE PollRead(w, p)
      BY <3>1 DEF PollRead, Start, Jobs
    <3>2. CASE AbandonRead(w, p)
      BY <3>2 DEF AbandonRead, Start, Jobs
    <3> QED
      BY <2>15, <3>1, <3>2
  <2>16. ASSUME NEW w \in Workers, PollAnswer(w) PROVE TypeOK'
    <3>1. on[w] \in Payments
      BY <2>16 DEF PollAnswer
    <3>2. log' \in [Payments -> {"none", "pending", "success", "failed", "cancelled",
                               "refunded"}]
      BY <2>16, <3>1 DEF PollAnswer
    <3>3. CASE charge[on[w]] = "captured"
      BY <2>16, <3>1, <3>2, <3>3 DEF PollAnswer, Jobs
    <3>4. CASE charge[on[w]] # "captured"
      <4>1. Finish(w)
        BY <2>16, <3>4 DEF PollAnswer
      <4> QED
        BY <2>16, <3>2, <4>1 DEF PollAnswer, Finish, Jobs
    <3> QED
      BY <3>3, <3>4
  <2>17. ASSUME NEW w \in Workers, PollReadOrder(w) PROVE TypeOK'
    BY <2>17 DEF PollReadOrder, Finish, Jobs
  <2>18. ASSUME NEW w \in Workers, PollPay(w) PROVE TypeOK'
    BY <2>18 DEF PollPay, PayOrder, ConsumeCoupon, Finish, Jobs
  <2>19. ASSUME NEW w \in Workers, AbandonWrite(w) PROVE TypeOK'
    BY <2>19 DEF AbandonWrite, Finish, Jobs
  <2>20. ASSUME NEW w \in Workers, WorkerCrash(w) PROVE TypeOK'
    BY <2>20 DEF WorkerCrash, Finish, Jobs
  <2>21. CASE UNCHANGED vars
    BY <2>21 DEF vars
  <2> QED
    BY <2>1, <2>2, <2>3, <2>4, <2>5, <2>6, <2>7, <2>8, <2>9, <2>10, <2>11, <2>12, <2>13,
       <2>14, <2>15, <2>16, <2>17, <2>18, <2>19, <2>20, <2>21
    DEF Next, LockedNext, OrderNext, PaymentNext, GatewayNext, UnlockedNext, CrashNext
<1> QED
  BY <1>1, <1>2, PTL DEF Spec

-----------------------------------------------------------------------------
(* The whole system.  BackedInv adds to the checked properties what is needed
   to make them inductive: rows exist for placed orders only (RowsOK), and a
   worker about to mark a payment or an order paid has seen the money captured
   (JobsOK). *)
LEMMA BackedInvariant == Spec => []BackedInv
<1>1. Init => BackedInv
  BY DEF Init, BackedInv, RowsOK, JobsOK, MoneyBacked, SinglePending, CouponLockLive, PendingOf
<1>2. TypeOK /\ TypeOK' /\ BackedInv /\ [Next]_vars => BackedInv'
  <2> SUFFICES ASSUME TypeOK, TypeOK', BackedInv, [Next]_vars PROVE BackedInv'
    OBVIOUS
  <2> USE OrdersAssumption, PaymentAssumption
      DEF TypeOK, BackedInv, RowsOK, JobsOK, MoneyBacked, SinglePending, CouponLockLive,
          PendingOf, orderVars, couponVars, logVars, eventVars, gatewayVars, workerVars
  <2>1. ASSUME NEW o \in Orders, NEW cs \in SUBSET Coupons, Checkout(o, cs) PROVE BackedInv'
    BY <2>1 DEF Checkout
  <2>2. ASSUME NEW o \in Orders, UserCancel(o) PROVE BackedInv'
    BY <2>2 DEF UserCancel, CancelOrder, ReleaseCoupon, LockedFor
  <2>3. ASSUME NEW o \in Orders, AutoCancel(o) PROVE BackedInv'
    BY <2>3 DEF AutoCancel, CancelOrder, ReleaseCoupon, LockedFor
  <2>4. ASSUME NEW o \in Orders, OrderDue(o) PROVE BackedInv'
    BY <2>4 DEF OrderDue
  <2>5. ASSUME NEW p \in Payments, NEW o \in Orders, CreatePayment(o, p) PROVE BackedInv'
    BY <2>5 DEF CreatePayment
  <2>6. ASSUME NEW p \in Payments, GatewayAccept(p) \/ GatewayReject(p) \/ SaveGatewayId(p) PROVE BackedInv'
    BY <2>6 DEF GatewayAccept, GatewayReject, SaveGatewayId
  <2>7. ASSUME NEW p \in Payments, PaymentAges(p) PROVE BackedInv'
    BY <2>7 DEF PaymentAges
  <2>8. ASSUME NEW p \in Payments, WebhookPaid(p) PROVE BackedInv'
    BY <2>8 DEF WebhookPaid, WebhookAccepted, Reported, PayOrder, ConsumeCoupon, LockedFor
  <2>9. ASSUME NEW p \in Payments, WebhookLate(p) PROVE BackedInv'
    BY <2>9 DEF WebhookLate, WebhookAccepted, Reported
  <2>10. ASSUME NEW p \in Payments, NEW e \in Events, WebhookUnpaid(p, e) PROVE BackedInv'
    BY <2>10 DEF WebhookUnpaid, WebhookAccepted, Reported, Events
  <2>11. ASSUME NEW p \in Payments, GatewayCapture(p) \/ GatewayDecline(p) \/ GatewayClose(p) PROVE BackedInv'
    BY <2>11 DEF GatewayCapture, GatewayDecline, GatewayClose
  <2>12. ASSUME NEW c \in Coupons, LazyRelease(c) PROVE BackedInv'
    BY <2>12 DEF LazyRelease
  <2>13. ASSUME NEW w \in Workers, NEW o \in Orders, AdminCancelRead(w, o) PROVE BackedInv'
    BY <2>13 DEF AdminCancelRead, Start, Jobs
  <2>14. ASSUME NEW w \in Workers, AdminCancelWrite(w) PROVE BackedInv'
    BY <2>14 DEF AdminCancelWrite, CancelOrder, ReleaseCoupon, LockedFor, Finish
  <2>15. ASSUME NEW w \in Workers, NEW p \in Payments, PollRead(w, p) \/ AbandonRead(w, p) PROVE BackedInv'
    BY <2>15 DEF PollRead, AbandonRead, Start
  <2>16. ASSUME NEW w \in Workers, PollAnswer(w) PROVE BackedInv'
    <3>1. CASE charge[on[w]] = "captured"
      BY <2>16, <3>1 DEF PollAnswer
    <3>2. CASE charge[on[w]] = "closed"
      BY SMTT(60), <2>16, <3>2 DEF PollAnswer, Finish
    <3>3. CASE charge[on[w]] = "open"
      BY <2>16, <3>3 DEF PollAnswer, Finish
    <3> QED
      BY <2>16, <3>1, <3>2, <3>3 DEF PollAnswer
  <2>17. ASSUME NEW w \in Workers, PollReadOrder(w) PROVE BackedInv'
    BY <2>17 DEF PollReadOrder, Finish
  <2>18. ASSUME NEW w \in Workers, PollPay(w) PROVE BackedInv'
    BY <2>18 DEF PollPay, PayOrder, ConsumeCoupon, LockedFor, Finish
  <2>19. ASSUME NEW w \in Workers, AbandonWrite(w) PROVE BackedInv'
    BY <2>19 DEF AbandonWrite, Finish
  <2>20. ASSUME NEW w \in Workers, WorkerCrash(w) PROVE BackedInv'
    BY <2>20 DEF WorkerCrash, Finish
  <2>21. CASE UNCHANGED vars
    BY <2>21 DEF vars
  <2> QED
    BY <2>1, <2>2, <2>3, <2>4, <2>5, <2>6, <2>7, <2>8, <2>9, <2>10, <2>11, <2>12, <2>13,
       <2>14, <2>15, <2>16, <2>17, <2>18, <2>19, <2>20, <2>21
    DEF Next, LockedNext, OrderNext, PaymentNext, GatewayNext, UnlockedNext, CrashNext
<1> QED
  BY <1>1, <1>2, TypeCorrect, PTL DEF Spec

(* No order is paid and no refund row written without captured money of that
   order's own payment behind it, in the whole system. *)
THEOREM MoneyIsBacked == Spec => []MoneyBacked
  BY BackedInvariant, PTL DEF BackedInv

(* create_payment never leaves two pending rows for one order. *)
THEOREM PendingIsSingle == Spec => []SinglePending
  BY BackedInvariant, PTL DEF BackedInv

(* No coupon stays locked for an order that is already paid or cancelled. *)
THEOREM LocksAreLive == Spec => []CouponLockLive
  BY BackedInvariant, PTL DEF BackedInv

-----------------------------------------------------------------------------
(* Counting the orders that hold a unit. *)

LEMMA HeldFinite == IsFiniteSet(Held) /\ Cardinality(Held) \in Nat
  BY OrdersAssumption, FS_Subset, FS_CardinalityType DEF Held

\* A checkout adds its order to those holding a unit.
LEMMA CheckoutHolds ==
  ASSUME TypeOK, NEW o \in Orders, NEW cs, Checkout(o, cs)
  PROVE  /\ Cardinality(Held') = Cardinality(Held) + 1
         /\ stock > 0 /\ stock' = stock - 1
<1>1. o \notin Held /\ Held' = Held \cup {o}
  BY DEF Checkout, Held, TypeOK
<1> QED
  BY <1>1, HeldFinite, FS_AddElement DEF Checkout

\* A cancellation takes its order out of them, if it was there, and returns a
\* unit either way.
LEMMA CancelReturns ==
  ASSUME TypeOK, NEW o \in Orders, CancelOrder(o)
  PROVE  /\ stock' = stock + 1
         /\ status[o] = "pending_payment" =>
              Cardinality(Held') = Cardinality(Held) - 1
         /\ Cardinality(Held') \in Nat
         /\ Cardinality(Held') >= Cardinality(Held) - 1
<1>1. Held' = Held \ {o}
  BY DEF CancelOrder, Held, TypeOK
<1>2. CASE o \in Held
  <2>1. /\ IsFiniteSet(Held \ {o})
        /\ Cardinality(Held \ {o}) = Cardinality(Held) - 1
    BY <1>2, HeldFinite, FS_RemoveElement
  <2>2. Cardinality(Held') \in Nat
    BY <1>1, <2>1, FS_CardinalityType
  <2>3. Cardinality(Held') = Cardinality(Held) - 1
    BY <1>1, <2>1
  <2>4. stock' = stock + 1
    BY DEF CancelOrder, RestoreStock
  <2> QED
    BY <2>2, <2>3, <2>4, HeldFinite
<1>3. CASE o \notin Held
  <2>1. Held' = Held /\ status[o] # "pending_payment"
    BY <1>1, <1>3 DEF Held
  <2> QED
    BY <2>1, HeldFinite DEF CancelOrder, RestoreStock
<1> QED
  BY <1>2, <1>3

\* Paying an order keeps every order that held a unit.
LEMMA PayKeeps ==
  ASSUME TypeOK, NEW o, NEW p, PayOrder(o, p)
  PROVE  /\ Cardinality(Held') \in Nat
         /\ Cardinality(Held') >= Cardinality(Held)
         /\ status[o] = "pending_payment" => Held' = Held
<1>1. Held \subseteq Held' /\ Held' \subseteq Orders
  BY DEF PayOrder, Held, TypeOK
<1>2. IsFiniteSet(Held')
  BY <1>1, OrdersAssumption, FS_Subset
<1>3. status[o] = "pending_payment" => Held' = Held
  BY DEF PayOrder, Held, TypeOK
<1> QED
  BY <1>1, <1>2, <1>3, HeldFinite, FS_Subset, FS_CardinalityType

(* A race may return a unit twice but no interleaving loses one: the units on
   sale and the units held make up at least the initial stock. *)
THEOREM UnitsAreKept == Spec => []NoUnitLost
<1>1. Init => NoUnitLost
  <2>1. Init => Held = {}
    BY DEF Init, Held
  <2> QED
    <3>1. Cardinality({}) = 0
      BY FS_EmptySet
    <3>2. Init => Cardinality(Held) = 0
      BY <2>1, <3>1
    <3> QED
      BY <3>2, StockAssumption DEF Init, NoUnitLost
<1>2. TypeOK /\ NoUnitLost /\ [Next]_vars => NoUnitLost'
  <2> SUFFICES ASSUME TypeOK, NoUnitLost, [Next]_vars PROVE NoUnitLost'
    OBVIOUS
  <2> USE StockAssumption, HeldFinite
  <2>0. stock \in Int
    BY DEF TypeOK
  <2>1. ASSUME NEW o \in Orders, NEW cs \in SUBSET Coupons, Checkout(o, cs) PROVE NoUnitLost'
    BY <2>0, <2>1, CheckoutHolds DEF NoUnitLost
  <2>2. ASSUME NEW o \in Orders, CancelOrder(o) PROVE NoUnitLost'
    BY <2>0, <2>2, CancelReturns DEF NoUnitLost
  <2>3. ASSUME NEW o, NEW p, PayOrder(o, p), UNCHANGED stock PROVE NoUnitLost'
    BY <2>0, <2>3, PayKeeps DEF NoUnitLost
  <2>4. ASSUME UNCHANGED <<status, stock>> PROVE NoUnitLost'
    BY <2>4 DEF NoUnitLost, Held
  <2>5. ASSUME NEW o \in Orders, UserCancel(o) \/ AutoCancel(o) PROVE NoUnitLost'
    BY <2>2, <2>5 DEF UserCancel, AutoCancel
  <2>6. ASSUME NEW w \in Workers, AdminCancelWrite(w) PROVE NoUnitLost'
    BY <2>2, <2>6 DEF AdminCancelWrite, TypeOK
  <2>7. ASSUME NEW p \in Payments, WebhookPaid(p) PROVE NoUnitLost'
    BY <2>3, <2>7 DEF WebhookPaid
  <2>8. ASSUME NEW w \in Workers, PollPay(w) PROVE NoUnitLost'
    BY <2>3, <2>8 DEF PollPay
  <2> QED
    <3> USE <2>1, <2>4, <2>5, <2>6, <2>7, <2>8
        DEF orderVars, couponVars, logVars, eventVars, gatewayVars, workerVars
    <3>1. CASE LockedNext
      BY <3>1
      DEF LockedNext, OrderNext, PaymentNext, GatewayNext, OrderDue, CreatePayment,
          GatewayAccept, GatewayReject, SaveGatewayId, PaymentAges, WebhookLate,
          WebhookUnpaid, GatewayCapture, GatewayDecline, GatewayClose, LazyRelease
    <3>2. CASE UnlockedNext
      BY <3>2 DEF UnlockedNext, AdminCancelRead, PollRead, AbandonRead, PollAnswer,
                  PollReadOrder, AbandonWrite
    <3>3. CASE CrashNext \/ UNCHANGED vars
      BY <3>3 DEF CrashNext, WorkerCrash, vars
    <3> QED
      BY <3>1, <3>2, <3>3 DEF Next
<1> QED
  BY <1>1, <1>2, TypeCorrect, PTL DEF Spec

-----------------------------------------------------------------------------
(* What only a stale copy can do.  The locked handlers conserve the stock and
   never change a decision; the theorems here say which steps of the whole
   system do not, and that there are no others. *)

Units == stock + Cardinality(Held)

\* A job saves what it read while the order was still to be paid over an order
\* that has been cancelled meanwhile.
OverCancelled(w) ==
  \/ AdminCancelWrite(w) /\ status[on[w]] = "cancelled"
  \/ PollPay(w) /\ status[logOrder[on[w]]] = "cancelled"

\* Units change only when an admin cancels an order that is cancelled already,
\* or a poll pays one.
UnitsConserved == [][Units' = Units \/ \E w \in Workers : OverCancelled(w)]_vars

\* A job saves its copy of order o.
Saves(w, o) ==
  \/ AdminCancelWrite(w) /\ on[w] = o
  \/ PollPay(w) /\ logOrder[on[w]] = o

\* A decided order changes only by the save of an unlocked copy, and a SUCCESS
\* payment is taken back only by a job that gave it up a day after it was opened.
StaleStep ==
  /\ \A o \in Orders : status[o] \in {"paid", "cancelled"} =>
       \/ status'[o] = status[o] /\ paidBy'[o] = paidBy[o]
       \/ \E w \in Workers : Saves(w, o)
  /\ \A p \in Payments : log[p] = "success" =>
       \/ log'[p] = "success"
       \/ \E w \in Workers : AbandonWrite(w) /\ on[w] = p

FinalUnlessStale == [][StaleStep]_vars

\* No payment is SUCCESS without captured money.
ReceiptReal == \A p \in Payments : log[p] = "success" => charge[p] = "captured"

\* The payments marked SUCCESS have been captured, whoever marked them.
THEOREM ReceiptsAreReal == Spec => []ReceiptReal
<1>1. Init => ReceiptReal
  BY DEF Init, ReceiptReal
<1>2. TypeOK /\ BackedInv /\ ReceiptReal /\ [Next]_vars => ReceiptReal'
  <2> SUFFICES ASSUME TypeOK, BackedInv, ReceiptReal, [Next]_vars PROVE ReceiptReal'
    OBVIOUS
  <2> USE DEF TypeOK, BackedInv, RowsOK, JobsOK, ReceiptReal, orderVars, couponVars, logVars,
              eventVars, gatewayVars, workerVars
  <2>1. ASSUME NEW p \in Payments, NEW o \in Orders, CreatePayment(o, p) PROVE ReceiptReal'
    BY <2>1 DEF CreatePayment, PendingOf
  <2>2. ASSUME NEW o \in Orders, AutoCancel(o) PROVE ReceiptReal'
    BY <2>2 DEF AutoCancel
  <2>3. ASSUME NEW p \in Payments, GatewayAccept(p) \/ GatewayReject(p) PROVE ReceiptReal'
    BY <2>3 DEF GatewayAccept, GatewayReject
  <2>4. ASSUME NEW p \in Payments, GatewayCapture(p) \/ GatewayClose(p) PROVE ReceiptReal'
    BY <2>4 DEF GatewayCapture, GatewayClose
  <2>5. ASSUME NEW p \in Payments, WebhookPaid(p) \/ WebhookLate(p) PROVE ReceiptReal'
    BY <2>5 DEF WebhookPaid, WebhookLate, WebhookAccepted, Reported
  <2>6. ASSUME NEW p \in Payments, NEW e \in Events, WebhookUnpaid(p, e) PROVE ReceiptReal'
    BY <2>6 DEF WebhookUnpaid, Events
  <2>7. ASSUME NEW w \in Workers, PollAnswer(w) \/ AbandonWrite(w) PROVE ReceiptReal'
    BY <2>7 DEF PollAnswer, AbandonWrite
  <2>8. ASSUME UNCHANGED <<log, charge>> PROVE ReceiptReal'
    BY <2>8
  <2> QED
    <3> USE <2>1, <2>2, <2>3, <2>4, <2>5, <2>6, <2>7, <2>8
    <3>1. CASE LockedNext
      BY <3>1
      DEF LockedNext, OrderNext, PaymentNext, GatewayNext, Checkout, UserCancel, OrderDue,
          SaveGatewayId, PaymentAges, GatewayDecline, LazyRelease
    <3>2. CASE UnlockedNext
      BY <3>2 DEF UnlockedNext, AdminCancelRead, AdminCancelWrite, PollRead, AbandonRead,
                  PollReadOrder, PollPay
    <3>3. CASE CrashNext \/ UNCHANGED vars
      BY <3>3 DEF CrashNext, WorkerCrash, vars
    <3> QED
      BY <3>1, <3>2, <3>3 DEF Next
<1> QED
  BY <1>1, <1>2, TypeCorrect, BackedInvariant, PTL DEF Spec

\* In the whole system a unit is doubled only by a job that saves its copy over a
\* cancelled order: every other step, crashes included, conserves the stock.
THEOREM UnitsAreDoubledOnlyOverCancelled == Spec => UnitsConserved
<1> DEFINE Kept == Units' = Units \/ \E w \in Workers : OverCancelled(w)
<1>1. TypeOK /\ BackedInv /\ [Next]_vars => Kept
  <2> SUFFICES ASSUME TypeOK, BackedInv, [Next]_vars PROVE Kept
    OBVIOUS
  <2> USE HeldFinite
  <2>0. stock \in Int
    BY DEF TypeOK
  <2>1. ASSUME NEW o \in Orders, NEW cs \in SUBSET Coupons, Checkout(o, cs) PROVE Kept
    BY <2>0, <2>1, CheckoutHolds DEF Units
  <2>2. ASSUME NEW o \in Orders, status[o] = "pending_payment", CancelOrder(o) PROVE Kept
    BY <2>0, <2>2, CancelReturns DEF Units
  <2>3. ASSUME UNCHANGED <<status, stock>> PROVE Kept
    BY <2>3 DEF Units, Held
  <2>4. ASSUME NEW o \in Orders, UserCancel(o) \/ AutoCancel(o) PROVE Kept
    BY <2>2, <2>4 DEF UserCancel, AutoCancel
  <2>5. ASSUME NEW p \in Payments, WebhookPaid(p) PROVE Kept
    BY <2>5, PayKeeps DEF WebhookPaid, Units
  <2>6. ASSUME NEW w \in Workers, AdminCancelWrite(w) PROVE Kept
    <3>1. on[w] \in Orders /\ CancelOrder(on[w]) /\ status[on[w]] # "none"
      BY <2>6 DEF AdminCancelWrite, TypeOK, BackedInv, JobsOK
    <3>2. CASE status[on[w]] = "cancelled"
      BY <2>6, <3>2 DEF OverCancelled
    <3>3. CASE on[w] \in Held
      <4>1. Held' = Held \ {on[w]} /\ stock' = stock + 1
        BY <3>1 DEF CancelOrder, RestoreStock, Held, TypeOK
      <4>2. Cardinality(Held') = Cardinality(Held) - 1
        BY <3>3, <4>1, FS_RemoveElement
      <4> QED
        BY <2>0, <4>1, <4>2 DEF Units
    <3> QED
      BY <3>1, <3>2, <3>3 DEF TypeOK, Held
  <2>7. ASSUME NEW w \in Workers, PollPay(w) PROVE Kept
    <3> DEFINE o == logOrder[on[w]]
    <3>1. on[w] \in Payments /\ o \in Orders /\ status[o] # "none"
      BY <2>7 DEF PollPay, TypeOK, BackedInv, JobsOK, RowsOK
    <3>2. CASE status[o] = "cancelled"
      BY <2>7, <3>2 DEF OverCancelled
    <3>3. CASE o \in Held
      <4>1. Held' = Held /\ stock' = stock
        BY <2>7, <3>3 DEF PollPay, PayOrder, Held, TypeOK
      <4> QED
        BY <4>1 DEF Units
    <3> QED
      BY <3>1, <3>2, <3>3 DEF TypeOK, Held
  <2> QED
    <3> USE <2>1, <2>3, <2>4, <2>5, <2>6, <2>7
        DEF orderVars, couponVars, logVars, eventVars, gatewayVars, workerVars
    <3> HIDE DEF Kept
    <3>1. CASE LockedNext
      BY <3>1
      DEF LockedNext, OrderNext, PaymentNext, GatewayNext, OrderDue, CreatePayment,
          GatewayAccept, GatewayReject, SaveGatewayId, PaymentAges, WebhookLate,
          WebhookUnpaid, GatewayCapture, GatewayDecline, GatewayClose, LazyRelease
    <3>2. CASE UnlockedNext
      BY <3>2 DEF UnlockedNext, AdminCancelRead, PollRead, AbandonRead, PollAnswer,
                  PollReadOrder, AbandonWrite
    <3>3. CASE CrashNext \/ UNCHANGED vars
      BY <3>3 DEF CrashNext, WorkerCrash, vars
    <3> QED
      BY <3>1, <3>2, <3>3 DEF Next
<1> QED
  BY <1>1, TypeCorrect, BackedInvariant, PTL DEF Spec, UnitsConserved

\* In the whole system a decision is overwritten only by an unlocked copy: the
\* admin's cancellation, the poll that pays, and the job that gives a payment up.
THEOREM DecisionsChangeOnlyStale == Spec => FinalUnlessStale
<1>1. TypeOK /\ BackedInv /\ ReceiptReal /\ [Next]_vars => [StaleStep]_vars
  <2> SUFFICES ASSUME TypeOK, BackedInv, ReceiptReal, Next PROVE StaleStep
    OBVIOUS
  <2> USE DEF TypeOK, StaleStep, orderVars, couponVars, logVars, eventVars, gatewayVars,
              workerVars
  <2>1. CASE LockedNext
    <3>1. ASSUME NEW o \in Orders, NEW cs \in SUBSET Coupons, Checkout(o, cs) PROVE StaleStep
      BY <3>1 DEF Checkout
    <3>2. ASSUME NEW o \in Orders, UserCancel(o) \/ AutoCancel(o) PROVE StaleStep
      BY <3>2 DEF UserCancel, AutoCancel, CancelOrder
    <3>3. ASSUME NEW p \in Payments, NEW o \in Orders, CreatePayment(o, p) PROVE StaleStep
      BY <3>3 DEF CreatePayment, PendingOf
    <3>4. ASSUME NEW p \in Payments, GatewayReject(p) PROVE StaleStep
      BY <3>4 DEF GatewayReject
    <3>5. ASSUME NEW p \in Payments, WebhookPaid(p) PROVE StaleStep
      BY <3>5 DEF WebhookPaid, WebhookAccepted, PayOrder
    <3>6. ASSUME NEW p \in Payments, WebhookLate(p) PROVE StaleStep
      BY <3>6 DEF WebhookLate
    <3>7. ASSUME NEW p \in Payments, NEW e \in Events, WebhookUnpaid(p, e) PROVE StaleStep
      BY <3>7 DEF WebhookUnpaid, WebhookAccepted
    <3>8. ASSUME UNCHANGED <<status, paidBy, log>> PROVE StaleStep
      BY <3>8
    <3> QED
      BY <2>1, <3>1, <3>2, <3>3, <3>4, <3>5, <3>6, <3>7, <3>8
      DEF LockedNext, OrderNext, PaymentNext, GatewayNext, OrderDue, GatewayAccept,
          SaveGatewayId, PaymentAges, GatewayCapture, GatewayDecline, GatewayClose, LazyRelease
  <2>2. ASSUME NEW w \in Workers, AdminCancelWrite(w) PROVE StaleStep
    BY <2>2 DEF AdminCancelWrite, CancelOrder, Saves
  <2>3. ASSUME NEW w \in Workers, PollPay(w) PROVE StaleStep
    BY <2>3 DEF PollPay, PayOrder, Saves
  <2>4. ASSUME NEW w \in Workers, AbandonWrite(w) PROVE StaleStep
    BY <2>4 DEF AbandonWrite
  <2>5. ASSUME NEW w \in Workers, PollAnswer(w) PROVE StaleStep
    <3>1. \A p \in Payments : log[p] = "success" => log'[p] = "success"
      BY <2>5 DEF PollAnswer, ReceiptReal
    <3> QED
      BY <2>5, <3>1 DEF PollAnswer
  <2>6. ASSUME UNCHANGED <<status, paidBy, log>> PROVE StaleStep
    BY <2>6
  <2> QED
    BY <2>1, <2>2, <2>3, <2>4, <2>5, <2>6
    DEF Next, UnlockedNext, AdminCancelRead, PollRead, AbandonRead, PollReadOrder, CrashNext,
        WorkerCrash
<1> QED
  BY <1>1, TypeCorrect, BackedInvariant, ReceiptsAreReal, PTL DEF Spec, FinalUnlessStale

-----------------------------------------------------------------------------
(* The handlers that lock what they decide on. *)

LEMMA LockedIsSpec == LockedSpec => Spec
<1>1. [LockedNext]_vars => [Next]_vars
  BY DEF Next
<1> QED
  BY <1>1, PTL DEF LockedSpec, Spec

LEMMA LockedBasics == LockedSpec => [](TypeOK /\ RowsOK)
  BY LockedIsSpec, TypeCorrect, BackedInvariant, PTL DEF BackedInv

(* Every unit of stock is on sale or with an order that is open or paid, and
   the shop never sells one it does not have: checkout decides under the SKU
   lock, and each order returns its unit at most once. *)
THEOREM StockIsConserved == LockedSpec => []StockConserved
<1>1. Init => StockConserved
  <2>1. Init => Held = {}
    BY DEF Init, Held
  <2>2. Cardinality({}) = 0
    BY FS_EmptySet
  <2>3. Init => Cardinality(Held) = 0
    BY <2>1, <2>2
  <2> QED
    BY <2>3, StockAssumption DEF Init, StockConserved
<1>2. TypeOK /\ StockConserved /\ [LockedNext]_vars => StockConserved'
  <2> SUFFICES ASSUME TypeOK, StockConserved, [LockedNext]_vars PROVE StockConserved'
    OBVIOUS
  <2> USE StockAssumption, HeldFinite
  <2>0. stock \in Int
    BY DEF TypeOK
  <2>1. ASSUME NEW o \in Orders, NEW cs \in SUBSET Coupons, Checkout(o, cs)
        PROVE StockConserved'
    BY <2>0, <2>1, CheckoutHolds DEF StockConserved
  <2>2. ASSUME NEW o \in Orders, UserCancel(o) \/ AutoCancel(o) PROVE StockConserved'
    BY <2>0, <2>2, CancelReturns DEF StockConserved, UserCancel, AutoCancel
  <2>3. ASSUME NEW p \in Payments, WebhookPaid(p) PROVE StockConserved'
    BY <2>0, <2>3, PayKeeps DEF StockConserved, WebhookPaid
  <2>4. ASSUME UNCHANGED <<status, stock>> PROVE StockConserved'
    BY <2>4 DEF StockConserved, Held
  <2> QED
    BY <2>1, <2>2, <2>3, <2>4
    DEF LockedNext, OrderNext, PaymentNext, GatewayNext, OrderDue, CreatePayment,
        GatewayAccept, GatewayReject, SaveGatewayId, PaymentAges, WebhookLate,
        WebhookUnpaid, GatewayCapture, GatewayDecline, GatewayClose, LazyRelease,
        orderVars, couponVars, logVars, eventVars, gatewayVars, workerVars, vars
<1> QED
  BY <1>1, <1>2, LockedBasics, PTL DEF LockedSpec

(* A locked coupon belongs to an open order and a redeemed one to a paid
   order. *)
THEOREM CouponsFollowOrders == LockedSpec => []CouponFollowsOrder
<1>1. Init => CouponFollowsOrder
  BY DEF Init, CouponFollowsOrder
<1>2. TypeOK /\ RowsOK /\ CouponFollowsOrder /\ [LockedNext]_vars => CouponFollowsOrder'
  <2> SUFFICES ASSUME TypeOK, RowsOK, CouponFollowsOrder, [LockedNext]_vars
               PROVE CouponFollowsOrder'
    OBVIOUS
  <2> USE OrdersAssumption DEF TypeOK, RowsOK, CouponFollowsOrder, orderVars, couponVars,
          logVars, eventVars, gatewayVars, workerVars
  <2>1. ASSUME NEW o \in Orders, NEW cs \in SUBSET Coupons, Checkout(o, cs) PROVE CouponFollowsOrder'
    BY <2>1 DEF Checkout
  <2>2. ASSUME NEW o \in Orders, UserCancel(o) PROVE CouponFollowsOrder'
    BY <2>2 DEF UserCancel, CancelOrder, ReleaseCoupon, LockedFor
  <2>3. ASSUME NEW o \in Orders, AutoCancel(o) PROVE CouponFollowsOrder'
    BY <2>3 DEF AutoCancel, CancelOrder, ReleaseCoupon, LockedFor
  <2>4. ASSUME NEW o \in Orders, OrderDue(o) PROVE CouponFollowsOrder'
    BY <2>4 DEF OrderDue
  <2>5. ASSUME NEW p \in Payments, NEW o \in Orders, CreatePayment(o, p) PROVE CouponFollowsOrder'
    BY <2>5 DEF CreatePayment, PendingOf
  <2>6. ASSUME NEW p \in Payments, GatewayAccept(p) \/ GatewayReject(p) \/ SaveGatewayId(p) PROVE CouponFollowsOrder'
    BY <2>6 DEF GatewayAccept, GatewayReject, SaveGatewayId
  <2>7. ASSUME NEW p \in Payments, PaymentAges(p) PROVE CouponFollowsOrder'
    BY <2>7 DEF PaymentAges
  <2>8. ASSUME NEW p \in Payments, WebhookPaid(p) PROVE CouponFollowsOrder'
    BY <2>8 DEF WebhookPaid, WebhookAccepted, PayOrder, ConsumeCoupon, LockedFor
  <2>9. ASSUME NEW p \in Payments, WebhookLate(p) PROVE CouponFollowsOrder'
    BY <2>9 DEF WebhookLate, WebhookAccepted
  <2>10. ASSUME NEW p \in Payments, NEW e \in Events, WebhookUnpaid(p, e) PROVE CouponFollowsOrder'
    BY <2>10 DEF WebhookUnpaid, WebhookAccepted, Reported, Events
  <2>11. ASSUME NEW p \in Payments, GatewayCapture(p) \/ GatewayDecline(p) \/ GatewayClose(p) PROVE CouponFollowsOrder'
    BY <2>11 DEF GatewayCapture, GatewayDecline, GatewayClose
  <2>12. ASSUME NEW c \in Coupons, LazyRelease(c) PROVE CouponFollowsOrder'
    BY <2>12 DEF LazyRelease
  <2>13. CASE UNCHANGED vars
    BY <2>13 DEF vars
  <2> QED
    BY <2>1, <2>2, <2>3, <2>4, <2>5, <2>6, <2>7, <2>8, <2>9, <2>10, <2>11, <2>12, <2>13
    DEF LockedNext, OrderNext, PaymentNext, GatewayNext
<1> QED
  BY <1>1, <1>2, LockedBasics, PTL DEF LockedSpec

(* Money recorded as received pays its order, or its order is cancelled and the
   money is put down for refund: exactly one of the two. *)
THEOREM MoneyIsAccounted == LockedSpec => []MoneyAccounted
<1>1. Init => MoneyAccounted
  BY DEF Init, MoneyAccounted
<1>2. TypeOK /\ RowsOK /\ MoneyAccounted /\ [LockedNext]_vars => MoneyAccounted'
  <2> SUFFICES ASSUME TypeOK, RowsOK, MoneyAccounted, [LockedNext]_vars
               PROVE MoneyAccounted'
    OBVIOUS
  <2> USE OrdersAssumption DEF TypeOK, RowsOK, MoneyAccounted, orderVars, couponVars,
          logVars, eventVars, gatewayVars, workerVars
  <2>1. ASSUME NEW o \in Orders, NEW cs \in SUBSET Coupons, Checkout(o, cs) PROVE MoneyAccounted'
    BY <2>1 DEF Checkout
  <2>2. ASSUME NEW o \in Orders, UserCancel(o) PROVE MoneyAccounted'
    BY <2>2 DEF UserCancel, CancelOrder, ReleaseCoupon, LockedFor
  <2>3. ASSUME NEW o \in Orders, AutoCancel(o) PROVE MoneyAccounted'
    BY <2>3 DEF AutoCancel, CancelOrder, ReleaseCoupon, LockedFor
  <2>4. ASSUME NEW o \in Orders, OrderDue(o) PROVE MoneyAccounted'
    BY <2>4 DEF OrderDue
  <2>5. ASSUME NEW p \in Payments, NEW o \in Orders, CreatePayment(o, p) PROVE MoneyAccounted'
    BY <2>5 DEF CreatePayment, PendingOf
  <2>6. ASSUME NEW p \in Payments, GatewayAccept(p) \/ GatewayReject(p) \/ SaveGatewayId(p) PROVE MoneyAccounted'
    BY <2>6 DEF GatewayAccept, GatewayReject, SaveGatewayId
  <2>7. ASSUME NEW p \in Payments, PaymentAges(p) PROVE MoneyAccounted'
    BY <2>7 DEF PaymentAges
  <2>8. ASSUME NEW p \in Payments, WebhookPaid(p) PROVE MoneyAccounted'
    BY <2>8 DEF WebhookPaid, WebhookAccepted, PayOrder, ConsumeCoupon, LockedFor
  <2>9. ASSUME NEW p \in Payments, WebhookLate(p) PROVE MoneyAccounted'
    BY <2>9 DEF WebhookLate, WebhookAccepted
  <2>10. ASSUME NEW p \in Payments, NEW e \in Events, WebhookUnpaid(p, e) PROVE MoneyAccounted'
    BY <2>10 DEF WebhookUnpaid, WebhookAccepted, Reported, Events
  <2>11. ASSUME NEW p \in Payments, GatewayCapture(p) \/ GatewayDecline(p) \/ GatewayClose(p) PROVE MoneyAccounted'
    BY <2>11 DEF GatewayCapture, GatewayDecline, GatewayClose
  <2>12. ASSUME NEW c \in Coupons, LazyRelease(c) PROVE MoneyAccounted'
    BY <2>12 DEF LazyRelease
  <2>13. CASE UNCHANGED vars
    BY <2>13 DEF vars
  <2> QED
    BY <2>1, <2>2, <2>3, <2>4, <2>5, <2>6, <2>7, <2>8, <2>9, <2>10, <2>11, <2>12, <2>13
    DEF LockedNext, OrderNext, PaymentNext, GatewayNext
<1> QED
  BY <1>1, <1>2, LockedBasics, PTL DEF LockedSpec

(* A paid or cancelled order keeps its status and its payment, and a SUCCESS
   payment is never taken back. *)
THEOREM DecisionsAreFinal == LockedSpec => Final
<1>1. TypeOK /\ [LockedNext]_vars => [FinalStep]_vars
  <2> SUFFICES ASSUME TypeOK, LockedNext PROVE FinalStep
    OBVIOUS
  <2> USE DEF TypeOK, FinalStep, orderVars, couponVars, logVars, eventVars, gatewayVars,
              workerVars
  <2>1. ASSUME NEW o \in Orders, NEW cs \in SUBSET Coupons, Checkout(o, cs) PROVE FinalStep
    BY <2>1 DEF Checkout
  <2>2. ASSUME NEW o \in Orders, UserCancel(o) \/ AutoCancel(o) PROVE FinalStep
    BY <2>2 DEF UserCancel, AutoCancel, CancelOrder
  <2>3. ASSUME NEW p \in Payments, NEW o \in Orders, CreatePayment(o, p) PROVE FinalStep
    BY <2>3 DEF CreatePayment, PendingOf
  <2>4. ASSUME NEW p \in Payments, GatewayReject(p) PROVE FinalStep
    BY <2>4 DEF GatewayReject
  <2>5. ASSUME NEW p \in Payments, WebhookPaid(p) PROVE FinalStep
    BY <2>5 DEF WebhookPaid, WebhookAccepted, PayOrder
  <2>6. ASSUME NEW p \in Payments, WebhookLate(p) PROVE FinalStep
    BY <2>6 DEF WebhookLate
  <2>7. ASSUME NEW p \in Payments, NEW e \in Events, WebhookUnpaid(p, e) PROVE FinalStep
    BY <2>7 DEF WebhookUnpaid, WebhookAccepted
  <2>8. ASSUME UNCHANGED <<status, paidBy, log>> PROVE FinalStep
    BY <2>8
  <2> QED
    BY <2>1, <2>2, <2>3, <2>4, <2>5, <2>6, <2>7, <2>8
    DEF LockedNext, OrderNext, PaymentNext, GatewayNext, OrderDue, GatewayAccept,
        SaveGatewayId, PaymentAges, GatewayCapture, GatewayDecline, GatewayClose, LazyRelease
<1> QED
  BY <1>1, LockedBasics, PTL DEF LockedSpec, Final

(* The locked handlers implement OrderPromise: each of their steps places,
   withdraws or settles one order, owes one payment back, or changes nothing
   the promise speaks of. *)
THEOREM PromiseIsKept == LockedSpec => ImplementsPromise
<1> USE DEF Promise!promiseVars, Promise!Nothing, Promise!Kept, Promise!Owed, Phase, Receipt
<1>1. Init => Promise!PromiseInit
  BY DEF Init, Promise!PromiseInit
<1>2. TypeOK /\ RowsOK /\ MoneyAccounted /\ [LockedNext]_vars
        => [Promise!PromiseNext]_(Promise!promiseVars)
  <2> SUFFICES ASSUME TypeOK, RowsOK, MoneyAccounted, [LockedNext]_vars
               PROVE [Promise!PromiseNext]_(Promise!promiseVars)
    OBVIOUS
  <2> USE DEF TypeOK, RowsOK, orderVars, couponVars, logVars, eventVars, gatewayVars, workerVars
  <2>1. ASSUME NEW o \in Orders, NEW cs \in SUBSET Coupons, Checkout(o, cs)
        PROVE Promise!Place(o)
    <3>1. [q \in Orders |-> Phase(status[q])]'
            = [[q \in Orders |-> Phase(status[q])] EXCEPT ![o] = "open"]
      BY <2>1 DEF Checkout
    <3>2. Phase(status[o]) = "none" /\ stock > 0 /\ stock' = stock - 1
      BY <2>1 DEF Checkout
    <3>3. [p \in Payments |-> Receipt(p)]' = [p \in Payments |-> Receipt(p)]
      BY <2>1 DEF Checkout
    <3> HIDE DEF Phase, Receipt
    <3> QED
      BY <3>1, <3>2, <3>3 DEF Promise!Place
  <2>2. ASSUME NEW o \in Orders, UserCancel(o) PROVE Promise!Withdraw(o)
    BY <2>2 DEF UserCancel, CancelOrder, RestoreStock, Promise!Withdraw
  <2>3. ASSUME NEW o \in Orders, AutoCancel(o) PROVE Promise!Withdraw(o)
    BY <2>3 DEF AutoCancel, CancelOrder, RestoreStock, Promise!Withdraw
  <2>4. ASSUME NEW p \in Payments, WebhookPaid(p)
        PROVE logOrder[p] \in Orders /\ Promise!Settle(logOrder[p], p)
    <3> DEFINE o == logOrder[p]
    <3>1. o \in Orders /\ log[p] # "success" /\ p \notin lateRefund
      BY <2>4 DEF WebhookPaid, WebhookAccepted, MoneyAccounted
    <3>2. Receipt(p) = Promise!Nothing
      BY <3>1
    <3>3. Receipt(p)' = Promise!Kept(o)
      BY <2>4, <3>1 DEF WebhookPaid, PayOrder
    <3>4. \A q \in Payments : q # p => Receipt(q)' = Receipt(q)
      BY <2>4 DEF WebhookPaid, PayOrder
    <3>5. [q \in Payments |-> Receipt(q)]'
            = [[q \in Payments |-> Receipt(q)] EXCEPT ![p] = Promise!Kept(o)]
      <4> HIDE DEF Receipt, Promise!Kept
      <4> QED BY <3>3, <3>4
    <3> HIDE DEF Receipt, Promise!Kept, Promise!Nothing
    <3> QED
      <4>1. [q \in Orders |-> Phase(status[q])]'
              = [[q \in Orders |-> Phase(status[q])] EXCEPT ![o] = "paid"]
        BY <2>4, <3>1 DEF WebhookPaid, PayOrder
      <4>2. Phase(status[o]) = "open" /\ UNCHANGED stock
        BY <2>4 DEF WebhookPaid
      <4> HIDE DEF Phase
      <4> QED
        BY <3>1, <3>2, <3>5, <4>1, <4>2 DEF Promise!Settle
  <2>5. ASSUME NEW p \in Payments, WebhookLate(p)
        PROVE logOrder[p] \in Orders /\ Promise!Owe(logOrder[p], p)
    <3> DEFINE o == logOrder[p]
    <3>1. o \in Orders /\ log[p] # "success" /\ p \notin lateRefund
      BY <2>5 DEF WebhookLate, WebhookAccepted, MoneyAccounted
    <3>2. Receipt(p) = Promise!Nothing
      BY <3>1
    <3>3. Receipt(p)' = Promise!Owed(o)
      BY <2>5, <3>1 DEF WebhookLate
    <3>4. \A q \in Payments : q # p => Receipt(q)' = Receipt(q)
      BY <2>5 DEF WebhookLate
    <3>5. [q \in Payments |-> Receipt(q)]'
            = [[q \in Payments |-> Receipt(q)] EXCEPT ![p] = Promise!Owed(o)]
      <4> HIDE DEF Receipt, Promise!Owed
      <4> QED BY <3>3, <3>4
    <3> HIDE DEF Receipt, Promise!Owed, Promise!Nothing
    <3> QED
      BY <2>5, <3>1, <3>2, <3>5 DEF WebhookLate, Promise!Owe
  <2>6. ASSUME NEW p \in Payments, NEW o \in Orders, CreatePayment(o, p)
        PROVE UNCHANGED Promise!promiseVars
    BY <2>6 DEF CreatePayment, PendingOf
  <2>7. ASSUME NEW p \in Payments, GatewayReject(p) PROVE UNCHANGED Promise!promiseVars
    BY <2>7 DEF GatewayReject
  <2>8. ASSUME NEW p \in Payments, NEW e \in Events, WebhookUnpaid(p, e)
        PROVE UNCHANGED Promise!promiseVars
    BY <2>8 DEF WebhookUnpaid, WebhookAccepted, Events
  <2>9. ASSUME UNCHANGED <<status, stock, log, logOrder, lateRefund>>
        PROVE UNCHANGED Promise!promiseVars
    BY <2>9
  <2> QED
    BY <2>1, <2>2, <2>3, <2>4, <2>5, <2>6, <2>7, <2>8, <2>9
    DEF LockedNext, OrderNext, PaymentNext, GatewayNext, OrderDue, GatewayAccept,
        SaveGatewayId, PaymentAges, GatewayCapture, GatewayDecline, GatewayClose, LazyRelease,
        vars, Promise!PromiseNext
<1> QED
  BY <1>1, <1>2, LockedBasics, MoneyIsAccounted, PTL
  DEF LockedSpec, ImplementsPromise, Promise!PromiseSpec
=============================================================================
