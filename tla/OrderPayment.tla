---------------------------- MODULE OrderPayment ----------------------------
(***************************************************************************)
(* The life of an order from checkout to "paid" or "cancelled", together   *)
(* with the rows every payment path touches: the SKU stock, the customer's *)
(* coupon, the PaymentLog rows, the PaymentEvent rows and the refund row   *)
(* written for money that arrives after a cancellation.                    *)
(*                                                                         *)
(* A handler that takes SELECT ... FOR UPDATE on every row it decides on   *)
(* is one action (LockedNext).  A handler that reads a row without a lock  *)
(* and writes it back later is a job of a worker: one action for the read, *)
(* one for the write, and any other action between them (UnlockedNext).    *)
(*                                                                         *)
(* Every order buys one unit of one SKU with at most one coupon.  Money is *)
(* abstract: a gateway event always carries the right amount (the handlers *)
(* refuse any other one without changing a row).                           *)
(***************************************************************************)
EXTENDS Integers, FiniteSets

CONSTANTS
  Orders,        \* orders that may ever be placed
  Payments,      \* PaymentLog rows (and gateway sessions) that may be created
  Coupons,       \* UserCoupon rows, one per customer
  Workers,       \* request threads and Celery workers running unlocked handlers
  MaxEvents,     \* bounds the events of one kind about one payment
  InitialStock,  \* units of the SKU on sale
  NoOrder, NoPayment, NoJob

ASSUME StockAssumption   == InitialStock \in Nat
ASSUME OrdersAssumption  == IsFiniteSet(Orders) /\ NoOrder \notin Orders
ASSUME PaymentAssumption == NoPayment \notin Payments
ASSUME EventsAssumption  == MaxEvents \in Nat

VARIABLES
  status,        \* Order.status ("none": not placed)
  payStatus,     \* Order.payment_status
  paidBy,        \* Order.payment_no
  applied,       \* Order.user_coupon: {} or one coupon
  due,           \* orders past payment_deadline (and past the coupon lock window)
  stock,         \* SKU.stock
  couponStatus,  \* UserCoupon.status
  couponOrder,   \* UserCoupon.used_order_no
  log,           \* PaymentLog.status ("none": no row)
  logOrder,      \* PaymentLog.order
  age,           \* of a pending PaymentLog: 0 fresh, 1 over 15 min, 2 over 24 h
  step,          \* progress of the create_payment call that made the row
  charge,        \* the session at the gateway
  declined,      \* sessions with a declined attempt
  processed,     \* PaymentEvent rows: how many of each kind a payment has
  lateRefund,    \* payments with a "late-payment:" RefundLog row
  pc, on         \* per worker: the unlocked job it is in, and on which row

orderVars   == <<status, payStatus, paidBy, applied>>
couponVars  == <<couponStatus, couponOrder>>
logVars     == <<log, logOrder, age, step>>
eventVars   == <<processed, lateRefund>>
gatewayVars == <<charge, declined>>
workerVars  == <<pc, on>>
vars == <<orderVars, due, stock, couponVars, logVars, eventVars, gatewayVars,
          workerVars>>

Events == {"completed", "failed", "cancelled", "refunded"}
Jobs   == {"idle", "cancel", "query", "abandon", "settle", "pay"}

TypeOK ==
  /\ status       \in [Orders -> {"none", "pending_payment", "paid", "cancelled"}]
  /\ payStatus    \in [Orders -> {"unpaid", "paid", "refunding"}]
  /\ paidBy       \in [Orders -> Payments \cup {NoPayment}]
  /\ applied      \in [Orders -> SUBSET Coupons]
  /\ due          \in SUBSET Orders
  /\ stock        \in Int
  /\ couponStatus \in [Coupons -> {"available", "locked", "used", "expired"}]
  /\ couponOrder  \in [Coupons -> Orders \cup {NoOrder}]
  /\ log          \in [Payments -> {"none", "pending", "success", "failed", "cancelled",
                                 "refunded"}]
  /\ logOrder     \in [Payments -> Orders \cup {NoOrder}]
  /\ age          \in [Payments -> 0..2]
  /\ step         \in [Payments -> {"idle", "reserved", "accepted", "saved", "rejected"}]
  /\ charge       \in [Payments -> {"none", "open", "captured", "closed"}]
  /\ declined     \in SUBSET Payments
  /\ processed    \in [Payments \X Events -> 0..MaxEvents]
  /\ lateRefund   \in SUBSET Payments
  /\ pc           \in [Workers -> Jobs]
  /\ on           \in [Workers -> Orders \cup Payments \cup {NoJob}]
  /\ \A w \in Workers :
       /\ pc[w] = "cancel" => on[w] \in Orders
       /\ pc[w] \in {"query", "abandon", "settle", "pay"} => on[w] \in Payments

Init ==
  /\ status       = [o \in Orders |-> "none"]
  /\ payStatus    = [o \in Orders |-> "unpaid"]
  /\ paidBy       = [o \in Orders |-> NoPayment]
  /\ applied      = [o \in Orders |-> {}]
  /\ due          = {}
  /\ stock        = InitialStock
  /\ couponStatus = [c \in Coupons |-> "available"]
  /\ couponOrder  = [c \in Coupons |-> NoOrder]
  /\ log          = [p \in Payments |-> "none"]
  /\ logOrder     = [p \in Payments |-> NoOrder]
  /\ age          = [p \in Payments |-> 0]
  /\ step         = [p \in Payments |-> "idle"]
  /\ charge       = [p \in Payments |-> "none"]
  /\ declined     = {}
  /\ processed    = [x \in Payments \X Events |-> 0]
  /\ lateRefund   = {}
  /\ pc           = [w \in Workers |-> "idle"]
  /\ on           = [w \in Workers |-> NoJob]

-----------------------------------------------------------------------------
(* What the models do to the rows they share. *)

LockedFor(c, o) == couponStatus[c] = "locked" /\ couponOrder[c] = o

\* PromotionService.release_for_order: a coupon whose own window has ended
\* meanwhile is released as expired.
ReleaseCoupon(o) ==
  \E s \in {"available", "expired"} :
    /\ couponStatus' = [c \in Coupons |-> IF LockedFor(c, o) THEN s ELSE couponStatus[c]]
    /\ couponOrder'  = [c \in Coupons |-> IF LockedFor(c, o) THEN NoOrder ELSE couponOrder[c]]

\* PromotionService.consume_for_order
ConsumeCoupon(o) ==
  /\ couponStatus' = [c \in Coupons |-> IF LockedFor(c, o) THEN "used" ELSE couponStatus[c]]
  /\ UNCHANGED couponOrder

\* Mutant: paying does not redeem the coupon.
PayOrder_KeepsLock(o, p) ==
  /\ status'    = [status EXCEPT ![o] = "paid"]
  /\ payStatus' = [payStatus EXCEPT ![o] = "paid"]
  /\ paidBy'    = [paidBy EXCEPT ![o] = p]
  /\ UNCHANGED <<applied, couponVars>>

\* Order.pay past its guard, by a caller whose copy of the row says pending.
PayOrder(o, p) ==
  /\ status'    = [status EXCEPT ![o] = "paid"]
  /\ payStatus' = [payStatus EXCEPT ![o] = "paid"]
  /\ paidBy'    = [paidBy EXCEPT ![o] = p]
  /\ UNCHANGED applied
  /\ ConsumeCoupon(o)

\* Mutant: the cancelled order's units are forgotten.
RestoreStock_Forgets == UNCHANGED stock

\* Order._restore_stock: the increment is relative, in SQL.
RestoreStock == stock' = stock + 1

\* Mutant: cancelling does not release the coupon.
CancelOrder_KeepsLock(o) ==
  /\ RestoreStock
  /\ status'    = [status EXCEPT ![o] = "cancelled"]
  /\ payStatus' = [payStatus EXCEPT ![o] = "unpaid"]
  /\ paidBy'    = [paidBy EXCEPT ![o] = NoPayment]
  /\ UNCHANGED <<applied, couponVars>>

\* Order.cancel past its guard, by a caller whose copy of the row says pending:
\* save() writes every column of that copy.
CancelOrder(o) ==
  /\ RestoreStock
  /\ ReleaseCoupon(o)
  /\ status'    = [status EXCEPT ![o] = "cancelled"]
  /\ payStatus' = [payStatus EXCEPT ![o] = "unpaid"]
  /\ paidBy'    = [paidBy EXCEPT ![o] = NoPayment]
  /\ UNCHANGED applied

-----------------------------------------------------------------------------
(* Orders: handlers that lock what they decide on. *)

\* Mutant: the stock is not looked at again under the lock.
Checkout_Oversells(o, cs) ==
  /\ status[o] = "none"
  /\ \A c \in cs : couponStatus[c] = "available"
  /\ status'       = [status EXCEPT ![o] = "pending_payment"]
  /\ applied'      = [applied EXCEPT ![o] = cs]
  /\ stock'        = stock - 1
  /\ couponStatus' = [c \in Coupons |-> IF c \in cs THEN "locked" ELSE couponStatus[c]]
  /\ couponOrder'  = [c \in Coupons |-> IF c \in cs THEN o ELSE couponOrder[c]]
  /\ UNCHANGED <<payStatus, paidBy, due, logVars, eventVars, gatewayVars, workerVars>>

\* OrderService.checkout; cs holds the coupon applied, if any.
Checkout(o, cs) ==
  /\ status[o] = "none"
  /\ stock > 0
  /\ \A c \in cs : couponStatus[c] = "available"
  /\ status'       = [status EXCEPT ![o] = "pending_payment"]
  /\ applied'      = [applied EXCEPT ![o] = cs]
  /\ stock'        = stock - 1
  /\ couponStatus' = [c \in Coupons |-> IF c \in cs THEN "locked" ELSE couponStatus[c]]
  /\ couponOrder'  = [c \in Coupons |-> IF c \in cs THEN o ELSE couponOrder[c]]
  /\ UNCHANGED <<payStatus, paidBy, due, logVars, eventVars, gatewayVars, workerVars>>

\* OrderService.cancel_order, by the customer.
UserCancel(o) ==
  /\ status[o] = "pending_payment"
  /\ CancelOrder(o)
  /\ UNCHANGED <<due, logVars, eventVars, gatewayVars, workerVars>>

\* Mutant: the candidate is not looked at again under the lock.
AutoCancel_NoRecheck(o) ==
  /\ status[o] # "none"
  /\ o \in due
  /\ CancelOrder(o)
  /\ log' = [p \in Payments |->
               IF logOrder[p] = o /\ log[p] = "pending" THEN "cancelled" ELSE log[p]]
  /\ UNCHANGED <<due, logOrder, age, step, eventVars, gatewayVars, workerVars>>

\* Mutant: an order with a payment under way is left for later.
AutoCancel_SparesPending(o) ==
  /\ status[o] = "pending_payment"
  /\ o \in due
  /\ \A p \in Payments : ~(logOrder[p] = o /\ log[p] = "pending")
  /\ CancelOrder(o)
  /\ UNCHANGED <<due, logVars, eventVars, gatewayVars, workerVars>>

\* One iteration of auto_cancel_unpaid_orders: lock, re-check, cancel, and
\* cancel the order's pending PaymentLog rows in the same transaction.
AutoCancel(o) ==
  /\ status[o] = "pending_payment"
  /\ payStatus[o] = "unpaid"
  /\ o \in due
  /\ CancelOrder(o)
  /\ log' = [p \in Payments |->
               IF logOrder[p] = o /\ log[p] = "pending" THEN "cancelled" ELSE log[p]]
  /\ UNCHANGED <<due, logOrder, age, step, eventVars, gatewayVars, workerVars>>

\* release_expired_locks(user), run whenever the customer lists coupons.
LazyRelease(c) ==
  /\ couponStatus[c] = "locked"
  /\ couponOrder[c] \in due
  /\ \E s \in {"available", "expired"} :
       couponStatus' = [couponStatus EXCEPT ![c] = s]
  /\ couponOrder' = [couponOrder EXCEPT ![c] = NoOrder]
  /\ UNCHANGED <<orderVars, due, stock, logVars, eventVars, gatewayVars, workerVars>>

-----------------------------------------------------------------------------
(* create_payment: reserve a row, call the gateway outside any transaction,
   then store the gateway's id.  A crash in between is a call that never takes
   its next step. *)

PendingOf(o) == {p \in Payments : log[p] = "pending" /\ logOrder[p] = o}

\* Mutant: the expired row is replaced but not cancelled.
CreatePayment_KeepsExpired(o, p) ==
  /\ log[p] = "none"
  /\ payStatus[o] # "paid"
  /\ status[o] = "pending_payment"
  /\ \A q \in PendingOf(o) : age[q] > 0
  /\ log'      = [log EXCEPT ![p] = "pending"]
  /\ logOrder' = [logOrder EXCEPT ![p] = o]
  /\ step'     = [step EXCEPT ![p] = "reserved"]
  /\ UNCHANGED <<orderVars, due, stock, couponVars, age, eventVars, gatewayVars, workerVars>>

\* First transaction.  A fresh pending row is reused and nothing changes; one
\* older than the TTL is cancelled and replaced.
CreatePayment(o, p) ==
  /\ log[p] = "none"
  /\ payStatus[o] # "paid"
  /\ status[o] = "pending_payment"
  /\ \A q \in PendingOf(o) : age[q] > 0
  /\ log' = [q \in Payments |->
               IF q = p THEN "pending"
               ELSE IF q \in PendingOf(o) THEN "cancelled" ELSE log[q]]
  /\ logOrder' = [logOrder EXCEPT ![p] = o]
  /\ step'     = [step EXCEPT ![p] = "reserved"]
  /\ UNCHANGED <<orderVars, due, stock, couponVars, age, eventVars, gatewayVars, workerVars>>

GatewayAccept(p) ==
  /\ step[p] = "reserved"
  /\ step'   = [step EXCEPT ![p] = "accepted"]
  /\ charge' = [charge EXCEPT ![p] = "open"]
  /\ UNCHANGED <<orderVars, due, stock, couponVars, log, logOrder, age, eventVars,
                 declined, workerVars>>

\* The gateway call raised: the row is failed only while it is still pending.
GatewayReject(p) ==
  /\ step[p] = "reserved"
  /\ step' = [step EXCEPT ![p] = "rejected"]
  /\ log'  = [log EXCEPT ![p] = IF @ = "pending" THEN "failed" ELSE @]
  /\ UNCHANGED <<orderVars, due, stock, couponVars, logOrder, age, eventVars,
                 gatewayVars, workerVars>>

\* Second transaction: only from here on can the customer open the session and
\* a webhook or a poll find the row by its gateway id.
SaveGatewayId(p) ==
  /\ step[p] = "accepted"
  /\ step' = [step EXCEPT ![p] = "saved"]
  /\ UNCHANGED <<orderVars, due, stock, couponVars, log, logOrder, age, eventVars,
                 gatewayVars, workerVars>>

-----------------------------------------------------------------------------
(* The gateway (external) and the passing of time. *)

GatewayCapture(p) ==
  /\ step[p] = "saved" /\ charge[p] = "open"
  /\ charge' = [charge EXCEPT ![p] = "captured"]
  /\ UNCHANGED <<orderVars, due, stock, couponVars, logVars, eventVars, declined, workerVars>>

GatewayDecline(p) ==
  /\ step[p] = "saved" /\ charge[p] = "open"
  /\ declined' = declined \cup {p}
  /\ UNCHANGED <<orderVars, due, stock, couponVars, logVars, eventVars, charge, workerVars>>

GatewayClose(p) ==
  /\ step[p] = "saved" /\ charge[p] = "open"
  /\ charge' = [charge EXCEPT ![p] = "closed"]
  /\ UNCHANGED <<orderVars, due, stock, couponVars, logVars, eventVars, declined, workerVars>>

\* payment_deadline passes.
OrderDue(o) ==
  /\ status[o] # "none"
  /\ due' = due \cup {o}
  /\ UNCHANGED <<orderVars, stock, couponVars, logVars, eventVars, gatewayVars, workerVars>>

\* A payment is younger than its order, so it is 15 minutes old only after
\* the order is due.  Only a pending row's age is ever read.
PaymentAges(p) ==
  /\ log[p] = "pending" /\ age[p] < 2
  /\ logOrder[p] \in due
  /\ age' = [age EXCEPT ![p] = @ + 1]
  /\ UNCHANGED <<orderVars, due, stock, couponVars, log, logOrder, step, eventVars,
                 gatewayVars, workerVars>>

-----------------------------------------------------------------------------
(* handle_webhook: one transaction that locks the payment and its order.   *)
(* Events may come late, out of order, again, or never.                    *)

\* What the gateway has to report about a session; of refunds, only those the shop asks for.
Reported(p) == {e \in Events : \/ e = "completed" /\ charge[p] = "captured"
                               \/ e = "failed"    /\ p \in declined
                               \/ e = "cancelled" /\ charge[p] = "closed"
                               \/ e = "refunded"  /\ p \in lateRefund}

\* The checks before the state change: known payment, new event, not yet SUCCESS.  An event
\* that comes again finds its row and changes nothing.
WebhookAccepted(p, e) ==
  /\ step[p] = "saved"
  /\ e \in Reported(p)
  /\ processed[<<p, e>>] < MaxEvents
  /\ processed' = [processed EXCEPT ![<<p, e>>] = @ + 1]
  /\ log[p] # "success"

\* payment_completed, order pending.  With the order paid already Order.pay
\* raises, the transaction rolls back and nothing changes.
WebhookPaid(p) ==
  LET o == logOrder[p] IN
  /\ WebhookAccepted(p, "completed")
  /\ status[o] = "pending_payment"
  /\ log' = [log EXCEPT ![p] = "success"]
  /\ PayOrder(o, p)
  /\ UNCHANGED <<due, stock, logOrder, age, step, lateRefund, gatewayVars, workerVars>>

\* Mutant: late money is recorded but nobody is asked to send it back.
WebhookLate_NoRefund(p) ==
  /\ WebhookAccepted(p, "completed")
  /\ status[logOrder[p]] = "cancelled"
  /\ log' = [log EXCEPT ![p] = "success"]
  /\ payStatus' = [payStatus EXCEPT ![logOrder[p]] = "refunding"]
  /\ UNCHANGED <<status, paidBy, applied, due, stock, couponVars, logOrder, age, step,
                 lateRefund, gatewayVars, workerVars>>

\* payment_completed, order cancelled: the money is put down for refund.
WebhookLate(p) ==
  LET o == logOrder[p] IN
  /\ WebhookAccepted(p, "completed")
  /\ status[o] = "cancelled"
  /\ log' = [log EXCEPT ![p] = "success"]
  /\ payStatus' = [payStatus EXCEPT ![o] = "refunding"]
  /\ lateRefund' = lateRefund \cup {p}
  /\ UNCHANGED <<status, paidBy, applied, due, stock, couponVars, logOrder, age, step,
                 gatewayVars, workerVars>>

\* Mutant: the event's name is stored where the status belongs.
WebhookUnpaid_StoresEvent(p, e) ==
  /\ e # "completed"
  /\ WebhookAccepted(p, e)
  /\ log' = [log EXCEPT ![p] = "payment_failed"]
  /\ UNCHANGED <<orderVars, due, stock, couponVars, logOrder, age, step, lateRefund,
                 gatewayVars, workerVars>>

\* payment_failed, payment_cancelled or refund_completed; any other event only leaves its
\* payload.
WebhookUnpaid(p, e) ==
  /\ e # "completed"
  /\ WebhookAccepted(p, e)
  /\ log' = [log EXCEPT ![p] = e]
  /\ UNCHANGED <<orderVars, due, stock, couponVars, logOrder, age, step, lateRefund,
                 gatewayVars, workerVars>>

-----------------------------------------------------------------------------
(* Handlers that decide on a row read without a lock. *)

Start(w, job, row) ==
  /\ pc[w] = "idle"
  /\ pc' = [pc EXCEPT ![w] = job]
  /\ on' = [on EXCEPT ![w] = row]

Finish(w) ==
  /\ pc' = [pc EXCEPT ![w] = "idle"]
  /\ on' = [on EXCEPT ![w] = NoJob]

\* OrderAdminCancelView: get_order, then Order.cancel on that copy.
AdminCancelRead(w, o) ==
  /\ status[o] = "pending_payment"
  /\ Start(w, "cancel", o)
  /\ UNCHANGED <<orderVars, due, stock, couponVars, logVars, eventVars, gatewayVars>>

AdminCancelWrite(w) ==
  /\ pc[w] = "cancel"
  /\ CancelOrder(on[w])
  /\ Finish(w)
  /\ UNCHANGED <<due, logVars, eventVars, gatewayVars>>

\* get_status or sync_expired_payments picks a pending row to ask about.
PollRead(w, p) ==
  /\ log[p] = "pending" /\ step[p] = "saved"
  /\ Start(w, "query", p)
  /\ UNCHANGED <<orderVars, due, stock, couponVars, logVars, eventVars, gatewayVars>>

\* Mutant: a session that is merely open counts as paid.
PollAnswer_TrustsOpen(w) ==
  /\ pc[w] = "query"
  /\ charge[on[w]] # "closed"
  /\ log' = [log EXCEPT ![on[w]] = "success"]
  /\ pc' = [pc EXCEPT ![w] = "settle"]
  /\ UNCHANGED <<on, orderVars, due, stock, couponVars, logOrder, age, step, eventVars, gatewayVars>>

\* _query_gateway_status: the gateway answers and save() writes the stale copy.
PollAnswer(w) ==
  LET p == on[w] IN
  /\ pc[w] = "query"
  /\ \/ /\ charge[p] = "captured"
        /\ log' = [log EXCEPT ![p] = "success"]
        /\ pc' = [pc EXCEPT ![w] = "settle"]
        /\ UNCHANGED on
     \/ /\ charge[p] = "closed"
        /\ log' = [log EXCEPT ![p] = "failed"]
        /\ Finish(w)
     \/ /\ charge[p] = "open"
        /\ Finish(w)
        /\ UNCHANGED log
  /\ UNCHANGED <<orderVars, due, stock, couponVars, logOrder, age, step, eventVars, gatewayVars>>

\* payment.order is fetched and Order.pay looks at its status; a ValueError is
\* logged by the caller and the SUCCESS row stays as it is.
PollReadOrder(w) ==
  /\ pc[w] = "settle"
  /\ IF status[logOrder[on[w]]] = "pending_payment"
     THEN pc' = [pc EXCEPT ![w] = "pay"] /\ UNCHANGED on
     ELSE Finish(w)
  /\ UNCHANGED <<orderVars, due, stock, couponVars, logVars, eventVars, gatewayVars>>

PollPay(w) ==
  /\ pc[w] = "pay"
  /\ PayOrder(logOrder[on[w]], on[w])
  /\ Finish(w)
  /\ UNCHANGED <<due, stock, logVars, eventVars, gatewayVars>>

\* sync_expired_payments gives up on a row it saw pending for over a day.
AbandonRead(w, p) ==
  /\ log[p] = "pending" /\ step[p] = "saved" /\ age[p] = 2
  /\ Start(w, "abandon", p)
  /\ UNCHANGED <<orderVars, due, stock, couponVars, logVars, eventVars, gatewayVars>>

AbandonWrite(w) ==
  /\ pc[w] = "abandon"
  /\ log' = [log EXCEPT ![on[w]] = "cancelled"]
  /\ Finish(w)
  /\ UNCHANGED <<orderVars, due, stock, couponVars, logOrder, age, step, eventVars, gatewayVars>>

\* The process dies between two of its writes; nothing resumes the job.
WorkerCrash(w) ==
  /\ pc[w] # "idle"
  /\ Finish(w)
  /\ UNCHANGED <<orderVars, due, stock, couponVars, logVars, eventVars, gatewayVars>>

-----------------------------------------------------------------------------
OrderNext ==
  \E o \in Orders :
    \/ \E cs \in SUBSET Coupons : Cardinality(cs) <= 1 /\ Checkout(o, cs)
    \/ UserCancel(o)
    \/ AutoCancel(o)
    \/ OrderDue(o)

PaymentNext ==
  \E p \in Payments :
    \/ \E o \in Orders : CreatePayment(o, p)
    \/ GatewayAccept(p)
    \/ GatewayReject(p)
    \/ SaveGatewayId(p)
    \/ PaymentAges(p)
    \/ WebhookPaid(p)
    \/ WebhookLate(p)
    \/ \E e \in Events : WebhookUnpaid(p, e)

GatewayNext ==
  \E p \in Payments : GatewayCapture(p) \/ GatewayDecline(p) \/ GatewayClose(p)

LockedNext == OrderNext \/ PaymentNext \/ GatewayNext \/ \E c \in Coupons : LazyRelease(c)

UnlockedNext ==
  \E w \in Workers :
    \/ \E o \in Orders : AdminCancelRead(w, o)
    \/ AdminCancelWrite(w)
    \/ \E p \in Payments : PollRead(w, p) \/ AbandonRead(w, p)
    \/ PollAnswer(w)
    \/ PollReadOrder(w)
    \/ PollPay(w)
    \/ AbandonWrite(w)

CrashNext == \E w \in Workers : WorkerCrash(w)

Next == LockedNext \/ UnlockedNext \/ CrashNext

\* The system without its unlocked handlers, and the whole system.
LockedSpec == Init /\ [][LockedNext]_vars
Spec       == Init /\ [][Next]_vars

\* The clock runs and Celery Beat keeps scheduling auto_cancel_unpaid_orders.
BeatFairness ==
  \A o \in Orders : WF_vars(OrderDue(o)) /\ WF_vars(AutoCancel(o))

FairSpec == Spec /\ BeatFairness
-----------------------------------------------------------------------------
(* Properties of the locked handlers. *)

Held == {o \in Orders : status[o] \in {"pending_payment", "paid"}}

\* Every unit taken by a checkout is in exactly one place: with an order that
\* may still want it, or back on sale.
StockConserved == stock >= 0 /\ stock + Cardinality(Held) = InitialStock

\* A locked coupon belongs to an order still to be paid and a used one to a
\* paid order: pay() and cancel() leave no coupon behind.
CouponFollowsOrder ==
  \A c \in Coupons :
    /\ couponStatus[c] = "locked" =>
         couponOrder[c] \in Orders /\ status[couponOrder[c]] = "pending_payment"
    /\ couponStatus[c] = "used" =>
         couponOrder[c] \in Orders /\ status[couponOrder[c]] = "paid"

\* Money recorded as received either pays its order, or that order is cancelled
\* and the money is put down for refund; never both, never neither.
MoneyAccounted ==
  \A p \in Payments :
    /\ log[p] = "success" =>
         /\ logOrder[p] \in Orders
         /\ IF p \in lateRefund
            THEN status[logOrder[p]] = "cancelled"
            ELSE status[logOrder[p]] = "paid" /\ paidBy[logOrder[p]] = p
    /\ p \in lateRefund => log[p] = "success"

\* Once paid or cancelled an order stays so and keeps the payment it was paid
\* with, and a SUCCESS payment row is never taken back.
FinalStep ==
  /\ \A o \in Orders : status[o] \in {"paid", "cancelled"} =>
       status'[o] = status[o] /\ paidBy'[o] = paidBy[o]
  /\ \A p \in Payments : log[p] = "success" => log'[p] = "success"

Final == [][FinalStep]_vars

\* The locked handlers implement the promise of OrderPromise.
Phase(st) == CASE st = "pending_payment" -> "open"
               [] st = "cancelled"       -> "withdrawn"
               [] OTHER                  -> st

Receipt(p) == [kind  |-> IF log[p] # "success" THEN "none"
                         ELSE IF p \in lateRefund THEN "owed" ELSE "kept",
               order |-> IF log[p] = "success" THEN logOrder[p] ELSE NoOrder]

Promise == INSTANCE OrderPromise WITH
  phase   <- [o \in Orders |-> Phase(status[o])],
  free    <- stock,
  receipt <- [p \in Payments |-> Receipt(p)]

\* Orders, stock and acknowledged payments move only as OrderPromise allows.
ImplementsPromise == Promise!PromiseSpec

-----------------------------------------------------------------------------
(* Properties of the whole system, unlocked handlers and crashes included. *)

\* No order is paid, and no refund row written, without captured money for that
\* very order behind it.
MoneyBacked ==
  /\ \A o \in Orders : status[o] = "paid" =>
       /\ paidBy[o] \in Payments
       /\ logOrder[paidBy[o]] = o
       /\ charge[paidBy[o]] = "captured"
  /\ \A p \in lateRefund : charge[p] = "captured"

\* An order has at most one pending PaymentLog row, however often
\* create_payment, polling and cancellation interleave.
SinglePending == \A o \in Orders : \A p, q \in PendingOf(o) : p = q

\* A locked coupon always belongs to an order still to be paid, so no coupon
\* stays locked for good once the order is decided.
CouponLockLive ==
  \A c \in Coupons : couponStatus[c] = "locked" =>
    couponOrder[c] \in Orders /\ status[couponOrder[c]] = "pending_payment"

\* A race may put a unit back twice but never loses one: what is neither on
\* sale nor held does not exist.
NoUnitLost == stock + Cardinality(Held) >= InitialStock

\* Every placed order is eventually decided: no interleaving of polls, admin
\* actions and retries keeps it in pending_payment for ever.
OrderDecided ==
  \A o \in Orders : status[o] = "pending_payment" ~> status[o] # "pending_payment"

-----------------------------------------------------------------------------
(* Why the properties above hold: the inductive invariants of the proofs. *)

\* A PaymentLog row exists from the first transaction of create_payment on,
\* always for a placed order, and only a saved session can be paid.
RowsOK ==
  \A p \in Payments :
    /\ log[p] = "none" <=> step[p] = "idle"
    /\ step[p] # "idle" => logOrder[p] \in Orders /\ status[logOrder[p]] # "none"
    /\ charge[p] = "captured" => step[p] = "saved"

\* What a worker in the middle of a job may still rely on.
JobsOK ==
  \A w \in Workers :
    /\ pc[w] = "cancel" => status[on[w]] # "none"
    /\ pc[w] \in {"query", "abandon", "settle", "pay"} => step[on[w]] = "saved"
    /\ pc[w] \in {"settle", "pay"} => charge[on[w]] = "captured"

BackedInv == RowsOK /\ JobsOK /\ MoneyBacked /\ SinglePending /\ CouponLockLive

-----------------------------------------------------------------------------
(* What a comment of the code promises; refuted by a run. *)

\* models.py:228 "Only Pending Payment orders can be cancelled; paid orders
\* require a refund".
PaidNeverCancelled ==
  [][\A o \in Orders : status[o] = "paid" => status'[o] # "cancelled"]_vars
=============================================================================
