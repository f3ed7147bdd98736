----------------------------- MODULE Fulfilment -----------------------------
(***************************************************************************)
(* One order after its payment: shipping, receipt, completion, after-sales *)
(* and the refund they entitle to, with the handlers that touch the same   *)
(* row from before (payment by webhook or poll, cancellation).             *)
(*                                                                         *)
(* The customer's handlers, the webhook and Beat lock the order and are    *)
(* one action each.  Status polls and the admin's handlers (cancel, ship,  *)
(* review an after-sale) read a row without a lock and later save every    *)
(* column of that copy: they are jobs of a worker, one action for the read *)
(* and one for the save, and any other action may come between.            *)
(*                                                                         *)
(* The order buys one unit, and its one payment is refunded in full or not *)
(* at all; the life of payments is in OrderPayment, that of refunds in     *)
(* Refund.  "pending" stands for every state of the payment before its     *)
(* money is recorded, "dropped" for FAILED or CANCELLED written over that. *)
(***************************************************************************)
EXTENDS Integers, FiniteSets

CONSTANTS
  Claims,    \* AfterSale rows that may be opened
  Workers,   \* request threads and Celery workers running unlocked handlers
  OnSale,    \* SKU.stock once the order is placed
  NoJob

ASSUME ClaimsAssumption == IsFiniteSet(Claims)
ASSUME OnSaleAssumption == OnSale \in Nat

VARIABLES
  row,        \* the Order's status, payment_status and delivered_at
  shipment,   \* the order has a Shipment row
  stock,      \* SKU.stock
  payment,    \* PaymentLog.status of the order's payment
  refund,     \* RefundLog.status of the refund somebody asks for and of the shop's own
  claim,      \* the AfterSale rows
  job,        \* per worker: the unlocked job it is in, with the row it has read
  confirmed,  \* ghost: the customer has once confirmed the receipt
  approved,   \* ghost: after-sales an admin has once approved
  asked       \* ghost: who asked for a refund

vars == <<row, shipment, stock, payment, refund, claim, job, confirmed, approved, asked>>
ghosts == <<confirmed, approved, asked>>

Statuses == {"pending_payment", "paid", "shipped", "delivered", "completed", "cancelled"}
Rows == [status      : Statuses,
         payStatus   : {"unpaid", "paid", "refunding", "partially_refunded", "refunded"},
         deliveredAt : {"null", "recent", "past"}]   \* "past": COMPLETE_DELIVERED_DAYS ago
AfterSales == [status : {"none", "pending_review", "approved", "rejected", "completed"},
               type   : {"return", "exchange", "reship"}]
Refunds == {"asked", "late"}
RefundStatuses == {"none", "pending", "unknown", "succeeded", "failed"}
Decisions == {"approve", "reject", "complete_refund"}
OrderJobs == [kind : {"settle", "settled", "abandon"}]
               \cup [kind : {"pay", "cancel", "ship"}, copy : Rows]
ReviewJobs == [kind : {"review"}, id : Claims, decision : Decisions, copy : AfterSales]

TypeOK ==
  /\ row \in Rows
  /\ shipment \in BOOLEAN
  /\ stock \in Nat
  /\ payment \in {"pending", "success", "refunded", "dropped"}
  /\ refund \in [Refunds -> RefundStatuses]
  /\ claim \in [Claims -> AfterSales]
  /\ job \in [Workers -> {NoJob} \cup OrderJobs \cup ReviewJobs]
  /\ confirmed \in BOOLEAN
  /\ approved \in SUBSET Claims
  /\ asked \in {"nobody", "customer", "admin"}

\* The order has just been placed.
Init ==
  /\ row = [status |-> "pending_payment", payStatus |-> "unpaid", deliveredAt |-> "null"]
  /\ shipment = FALSE
  /\ stock = OnSale
  /\ payment = "pending"
  /\ refund = [k \in Refunds |-> "none"]
  /\ claim \in [Claims -> {a \in AfterSales : a.status = "none"}]
  /\ job = [w \in Workers |-> NoJob]
  /\ confirmed = FALSE
  /\ approved = {}
  /\ asked = "nobody"

-----------------------------------------------------------------------------
(* What the methods of Order and AfterSale save, given the copy they run on. *)

Paid(copy) == [copy EXCEPT !.status = "paid", !.payStatus = "paid"]
Cancelled(copy) == [copy EXCEPT !.status = "cancelled"]
Shipped(copy) == [copy EXCEPT !.status = "shipped"]
Reviewed(copy, decision) ==
  [copy EXCEPT !.status = CASE decision = "approve" -> "approved"
                            [] decision = "reject"  -> "rejected"
                            [] OTHER                -> "completed"]

\* What the copy must say for a decision to be accepted.
Reviewable(copy, decision) ==
  copy.status = IF decision = "complete_refund" THEN "approved" ELSE "pending_review"

Idle(w) == job[w] = NoJob
Runs(w, kind) == job[w] # NoJob /\ job[w].kind = kind
Begin(w, j) == job' = [job EXCEPT ![w] = j]
End(w) == job' = [job EXCEPT ![w] = NoJob]

-----------------------------------------------------------------------------
(* Handlers that lock the order. *)

\* Webhooks of completed payments, each with an event of its own: one pays the order, or puts
\* a refund down if the order has been cancelled meanwhile.  For any other order pay() raises
\* and undoes everything; a payment already SUCCESS is skipped, any other one is not.
Webhook ==
  /\ payment # "success"
  /\ payment' = "success"
  /\ \/ /\ row.status = "pending_payment"
        /\ row' = Paid(row)
        /\ UNCHANGED refund
     \/ /\ row.status = "cancelled"
        /\ row' = [row EXCEPT !.payStatus = "refunding"]
        /\ refund' = [refund EXCEPT !["late"] = IF @ = "none" THEN "pending" ELSE @]
  /\ UNCHANGED <<shipment, stock, claim, job, ghosts>>

\* Webhooks of an attempt that was declined or of a refund that went through, of which only
\* the ones that find the money recorded, and not SUCCESS any more, make a difference here.
LateWebhook ==
  /\ payment \in {"refunded", "dropped"}
  /\ \/ payment' = "dropped"
     \/ payment' = "refunded" /\ \E k \in Refunds : refund[k] = "succeeded"
  /\ UNCHANGED <<row, shipment, stock, refund, claim, job, ghosts>>

\* The customer or auto_cancel_unpaid_orders.
Cancel ==
  /\ row.status = "pending_payment"
  /\ row' = Cancelled(row)
  /\ stock' = stock + 1
  /\ UNCHANGED <<shipment, payment, refund, claim, job, ghosts>>

ConfirmDelivered ==
  /\ row.status = "shipped"
  /\ row' = [row EXCEPT !.status = "delivered", !.deliveredAt = "recent"]
  /\ confirmed' = TRUE
  /\ UNCHANGED <<shipment, stock, payment, refund, claim, job, approved, asked>>

\* The clock.
DaysPass ==
  /\ row.deliveredAt = "recent"
  /\ row' = [row EXCEPT !.deliveredAt = "past"]
  /\ UNCHANGED <<shipment, stock, payment, refund, claim, job, ghosts>>

AutoComplete ==
  /\ row.status = "delivered" /\ row.deliveredAt = "past"
  /\ row' = [row EXCEPT !.status = "completed"]
  /\ UNCHANGED <<shipment, stock, payment, refund, claim, job, ghosts>>

ApplyAfterSale(c) ==
  /\ row.status \in {"delivered", "completed"}
  /\ claim[c].status = "none"
  /\ claim' = [claim EXCEPT ![c].status = "pending_review"]
  /\ UNCHANGED <<row, shipment, stock, payment, refund, job, ghosts>>

\* Mutant: the gate is forgotten.
Entitled_Anybody(who) == TRUE

\* Customers need an after-sale an admin has approved, admins do not.
Entitled(who) ==
  who = "customer" => \E c \in Claims : claim[c].status \in {"approved", "completed"}

Open(k) == refund[k] \in {"pending", "unknown"}

\* What an open or paid refund reserves leaves nothing for another one.
CreateRefund(who) ==
  /\ payment = "success" /\ row.payStatus # "refunded"
  /\ Entitled(who)
  /\ \A k \in Refunds : refund[k] \in {"none", "failed"}
  /\ refund' = [refund EXCEPT !["asked"] = "pending"]
  /\ row' = [row EXCEPT !.payStatus = "refunding"]
  /\ asked' = who
  /\ UNCHANGED <<shipment, stock, payment, claim, job, confirmed, approved>>

\* What the gateway's answer to refund k makes of the order's payment status.
LedgerStatus(k, answer) ==
  LET others == Refunds \ {k} IN
  CASE answer = "succeeded" -> "refunded"
    [] answer = "unknown" \/ \E r \in others : Open(r) -> "refunding"
    [] \E r \in others : refund[r] = "succeeded" -> "partially_refunded"
    [] OTHER -> "paid"

\* The gateway's answer, at once or by reconciliation.
FinalizeRefund(k) ==
  /\ Open(k)
  /\ \E answer \in {"succeeded", "failed", "unknown"} :
       /\ refund' = [refund EXCEPT ![k] = answer]
       /\ payment' = IF answer = "succeeded" THEN "refunded" ELSE payment
       /\ row' = [row EXCEPT !.payStatus = LedgerStatus(k, answer)]
  /\ UNCHANGED <<shipment, stock, claim, job, ghosts>>

LockedNext ==
  \/ Webhook \/ LateWebhook \/ Cancel \/ ConfirmDelivered \/ DaysPass \/ AutoComplete
  \/ \E c \in Claims : ApplyAfterSale(c)
  \/ \E who \in {"customer", "admin"} : CreateRefund(who)
  \/ \E k \in Refunds : FinalizeRefund(k)

-----------------------------------------------------------------------------
(* Handlers that read without a lock and save every column of what they read. *)

\* A poll finds the payment pending, learns from the gateway that it was paid and saves that,
\* then reads the order and, if its copy is still to be paid, pays it.
PollRead(w) ==
  /\ Idle(w) /\ payment = "pending"
  /\ Begin(w, [kind |-> "settle"])
  /\ UNCHANGED <<row, shipment, stock, payment, refund, claim, ghosts>>

PollAnswer(w) ==
  /\ Runs(w, "settle")
  /\ payment' = "success"
  /\ Begin(w, [kind |-> "settled"])
  /\ UNCHANGED <<row, shipment, stock, refund, claim, ghosts>>

PollReadOrder(w) ==
  /\ Runs(w, "settled") /\ row.status = "pending_payment"
  /\ Begin(w, [kind |-> "pay", copy |-> row])
  /\ UNCHANGED <<row, shipment, stock, payment, refund, claim, ghosts>>

PollPay(w) ==
  /\ Runs(w, "pay")
  /\ row' = Paid(job[w].copy)
  /\ End(w)
  /\ UNCHANGED <<shipment, stock, payment, refund, claim, ghosts>>

\* sync_expired_payments gives up on a payment it saw pending for over a day.
AbandonRead(w) ==
  /\ Idle(w) /\ payment = "pending"
  /\ Begin(w, [kind |-> "abandon"])
  /\ UNCHANGED <<row, shipment, stock, payment, refund, claim, ghosts>>

AbandonSave(w) ==
  /\ Runs(w, "abandon")
  /\ payment' = IF payment = "pending" THEN "pending" ELSE "dropped"
  /\ End(w)
  /\ UNCHANGED <<row, shipment, stock, refund, claim, ghosts>>

CancelRead(w) ==
  /\ Idle(w) /\ row.status = "pending_payment"
  /\ Begin(w, [kind |-> "cancel", copy |-> row])
  /\ UNCHANGED <<row, shipment, stock, payment, refund, claim, ghosts>>

CancelSave(w) ==
  /\ Runs(w, "cancel")
  /\ row' = Cancelled(job[w].copy)
  /\ stock' = stock + 1
  /\ End(w)
  /\ UNCHANGED <<shipment, payment, refund, claim, ghosts>>

ShipRead(w) ==
  /\ Idle(w) /\ row.status = "paid"
  /\ Begin(w, [kind |-> "ship", copy |-> row])
  /\ UNCHANGED <<row, shipment, stock, payment, refund, claim, ghosts>>

\* The waybill is written in the transaction of the save, unless there is one.
ShipSave(w) ==
  /\ Runs(w, "ship")
  /\ row' = Shipped(job[w].copy)
  /\ shipment' = TRUE
  /\ End(w)
  /\ UNCHANGED <<stock, payment, refund, claim, ghosts>>

ReviewRead(w, c, decision) ==
  /\ Idle(w) /\ Reviewable(claim[c], decision)
  /\ Begin(w, [kind |-> "review", id |-> c, decision |-> decision, copy |-> claim[c]])
  /\ UNCHANGED <<row, shipment, stock, payment, refund, claim, ghosts>>

\* Mutant: an order that is already refunded gets nothing back.
Restock_Once(j) ==
  stock' = IF j.decision = "complete_refund" /\ j.copy.type = "return"
                /\ row.payStatus # "refunded"
           THEN stock + 1 ELSE stock

\* The increment is relative, in SQL.
Restock(j) ==
  stock' = IF j.decision = "complete_refund" /\ j.copy.type = "return" THEN stock + 1 ELSE stock

ReviewSave(w) ==
  /\ Runs(w, "review")
  /\ LET j == job[w] IN
       /\ claim' = [claim EXCEPT ![j.id] = Reviewed(j.copy, j.decision)]
       /\ Restock(j)
       /\ row' = IF j.decision = "complete_refund"
                 THEN [row EXCEPT !.payStatus = "refunded"] ELSE row
       /\ approved' = IF j.decision = "approve" THEN approved \cup {j.id} ELSE approved
  /\ End(w)
  /\ UNCHANGED <<shipment, payment, refund, confirmed, asked>>

\* The request is cut off, or what it read is refused.
GiveUp(w) ==
  /\ ~Idle(w)
  /\ End(w)
  /\ UNCHANGED <<row, shipment, stock, payment, refund, claim, ghosts>>

UnlockedNext ==
  \E w \in Workers :
    \/ PollRead(w) \/ PollAnswer(w) \/ PollReadOrder(w) \/ PollPay(w)
    \/ AbandonRead(w) \/ AbandonSave(w)
    \/ CancelRead(w) \/ CancelSave(w)
    \/ ShipRead(w) \/ ShipSave(w)
    \/ \E c \in Claims, decision \in Decisions : ReviewRead(w, c, decision)
    \/ ReviewSave(w)
    \/ GiveUp(w)

Next == LockedNext \/ UnlockedNext
Spec == Init /\ [][Next]_vars

-----------------------------------------------------------------------------
(* Properties. *)

\* Whatever stale copies are saved in between, each step of an order has the one before it
\* behind it: a customer's refund an approval ("a real refund must have an approved after-sale
\* first", payment/services.py:394-396), an approval the customer's receipt, a receipt a waybill
\* (models.py:185-197), and a waybill money once recorded ("ship only once the money is really
\* there").
Trail ==
  /\ asked = "customer" => approved # {}
  /\ approved # {} \/ (\E c \in Claims : claim[c].status # "none") => confirmed
  /\ row.status \in {"delivered", "completed"} => confirmed
  /\ confirmed \/ row.status = "shipped" => shipment
  /\ shipment => payment # "pending"

\* However often reviews of one after-sale overwrite each other, and whatever else has
\* refunded the order, no return is completed without its unit going back on sale
\* (AfterSale.complete_refund).
Returned == {c \in Claims : claim[c].status = "completed" /\ claim[c].type = "return"}
ReturnsRestocked == stock >= OnSale + Cardinality(Returned)
=============================================================================
