------------------------- MODULE Fulfilment_proofs -------------------------
(***************************************************************************)
(* Theorems about Fulfilment, for any after-sales (finitely many), workers *)
(* and stock.                                                              *)
(*                                                                         *)
(* Trail is not inductive: a job that is under way saves what it has read, *)
(* so Carried says what stands behind each job, and what stands behind the *)
(* states of the rows that jobs and handlers start from.                   *)
(***************************************************************************)
EXTENDS Fulfilment, FiniteSetTheorems, TLAPS

-----------------------------------------------------------------------------
(* Types. *)

\* A job under way has the parts its kind says.
LEMMA JobParts ==
    ASSUME TypeOK, NEW w \in Workers, job[w] # NoJob
    PROVE  /\ job[w].kind \in {"pay", "cancel", "ship"} => job[w].copy \in Rows
           /\ job[w].kind = "review" =>
                /\ job[w].id \in Claims /\ job[w].decision \in Decisions
                /\ job[w].copy \in AfterSales
<1>1. job[w] \in OrderJobs \cup ReviewJobs
  BY DEF TypeOK
<1>2. CASE job[w] \in [kind : {"settle", "settled", "abandon"}]
  BY <1>2
<1>3. CASE job[w] \in [kind : {"pay", "cancel", "ship"}, copy : Rows]
  BY <1>3
<1>4. CASE job[w] \in ReviewJobs
  BY <1>4 DEF ReviewJobs
<1> QED
  BY <1>1, <1>2, <1>3, <1>4 DEF OrderJobs

\* The rows the methods save are rows.
LEMMA SavedRows ==
    ASSUME NEW copy \in Rows
    PROVE  /\ Paid(copy) \in Rows /\ Cancelled(copy) \in Rows /\ Shipped(copy) \in Rows
           /\ \A p \in {"refunding", "refunded", "partially_refunded", "paid"} :
                [copy EXCEPT !.payStatus = p] \in Rows
           /\ \A d \in {"recent", "past"} : [copy EXCEPT !.deliveredAt = d] \in Rows
           /\ [copy EXCEPT !.status = "delivered", !.deliveredAt = "recent"] \in Rows
           /\ [copy EXCEPT !.status = "completed"] \in Rows
  BY DEF Rows, Statuses, Paid, Cancelled, Shipped

LEMMA SavedClaim ==
    ASSUME NEW copy \in AfterSales, NEW decision \in Decisions
    PROVE  /\ Reviewed(copy, decision) \in AfterSales
           /\ Reviewed(copy, decision).type = copy.type
           /\ Reviewed(copy, decision).status # "none"
           /\ Reviewed(copy, decision).status = "approved" => decision = "approve"
           /\ Reviewed(copy, decision).status = "completed" => decision = "complete_refund"
  BY DEF AfterSales, Decisions, Reviewed

LEMMA InitTypeOK == Init => TypeOK
<1> SUFFICES ASSUME Init PROVE TypeOK
  OBVIOUS
<1>1. row \in Rows
  BY DEF Init, Rows, Statuses
<1>2. claim \in [Claims -> AfterSales]
  BY DEF Init
<1>3. refund \in [Refunds -> RefundStatuses]
  BY DEF Init, RefundStatuses
<1> QED
  BY <1>1, <1>2, <1>3, OnSaleAssumption DEF Init, TypeOK

LEMMA LockedTypeOK == TypeOK /\ LockedNext => TypeOK'
<1> SUFFICES ASSUME TypeOK, LockedNext PROVE TypeOK'
  OBVIOUS
<1>1. CASE Webhook
  <2>1. row' \in Rows
    BY <1>1, SavedRows DEF Webhook, TypeOK
  <2>2. refund' \in [Refunds -> RefundStatuses]
    BY <1>1 DEF Webhook, TypeOK, Refunds, RefundStatuses
  <2> QED
    BY <1>1, <2>1, <2>2 DEF Webhook, TypeOK, ghosts
<1>2. CASE Cancel
  <2>1. row' \in Rows
    BY <1>2, SavedRows DEF Cancel, TypeOK
  <2>2. stock' \in Nat
    BY <1>2 DEF Cancel, TypeOK
  <2> QED
    BY <1>2, <2>1, <2>2 DEF Cancel, TypeOK, ghosts
<1>3. CASE ConfirmDelivered
  BY <1>3, SavedRows DEF ConfirmDelivered, TypeOK
<1>4. CASE DaysPass
  BY <1>4, SavedRows DEF DaysPass, TypeOK, ghosts
<1>5. CASE AutoComplete
  BY <1>5, SavedRows DEF AutoComplete, TypeOK, ghosts
<1>6. ASSUME NEW c \in Claims, ApplyAfterSale(c) PROVE TypeOK'
  <2>1. claim' \in [Claims -> AfterSales]
    BY <1>6 DEF ApplyAfterSale, TypeOK, AfterSales
  <2> QED
    BY <1>6, <2>1 DEF ApplyAfterSale, TypeOK, ghosts
<1>7. ASSUME NEW who \in {"customer", "admin"}, CreateRefund(who) PROVE TypeOK'
  <2>1. refund' \in [Refunds -> RefundStatuses]
    BY <1>7 DEF CreateRefund, TypeOK, Refunds, RefundStatuses
  <2>2. row' \in Rows
    BY <1>7, SavedRows DEF CreateRefund, TypeOK
  <2> QED
    BY <1>7, <2>1, <2>2 DEF CreateRefund, TypeOK
<1>8. ASSUME NEW k \in Refunds, FinalizeRefund(k) PROVE TypeOK'
  <2>1. PICK answer \in {"succeeded", "failed", "unknown"} :
          /\ refund' = [refund EXCEPT ![k] = answer]
          /\ payment' = IF answer = "succeeded" THEN "refunded" ELSE payment
          /\ row' = [row EXCEPT !.payStatus = LedgerStatus(k, answer)]
    BY <1>8 DEF FinalizeRefund
  <2>2. LedgerStatus(k, answer) \in {"refunding", "refunded", "partially_refunded", "paid"}
    BY DEF LedgerStatus
  <2>3. row' \in Rows
    BY <2>1, <2>2, SavedRows DEF TypeOK
  <2>4. refund' \in [Refunds -> RefundStatuses]
    BY <2>1 DEF TypeOK, RefundStatuses
  <2> QED
    BY <1>8, <2>1, <2>3, <2>4 DEF FinalizeRefund, TypeOK, ghosts
<1>9. CASE LateWebhook
  BY <1>9 DEF LateWebhook, TypeOK, ghosts
<1> QED
  BY <1>1, <1>2, <1>3, <1>4, <1>5, <1>6, <1>7, <1>8, <1>9 DEF LockedNext

\* A job begun or ended keeps the type of the jobs.
LEMMA JobTypes ==
    ASSUME TypeOK, NEW w \in Workers
    PROVE  /\ End(w) => job' \in [Workers -> {NoJob} \cup OrderJobs \cup ReviewJobs]
           /\ \A j \in OrderJobs \cup ReviewJobs :
                Begin(w, j) => job' \in [Workers -> {NoJob} \cup OrderJobs \cup ReviewJobs]
  BY DEF TypeOK, Begin, End

LEMMA UnlockedTypeOK == TypeOK /\ UnlockedNext => TypeOK'
<1> SUFFICES ASSUME TypeOK, UnlockedNext PROVE TypeOK'
  OBVIOUS
<1>1. PICK w \in Workers :
        \/ PollRead(w) \/ PollAnswer(w) \/ PollReadOrder(w) \/ PollPay(w)
        \/ AbandonRead(w) \/ AbandonSave(w) \/ CancelRead(w) \/ CancelSave(w)
        \/ ShipRead(w) \/ ShipSave(w)
        \/ (\E c \in Claims, decision \in Decisions : ReviewRead(w, c, decision))
        \/ ReviewSave(w) \/ GiveUp(w)
  BY DEF UnlockedNext
<1>2. /\ [kind |-> "settle"] \in OrderJobs /\ [kind |-> "settled"] \in OrderJobs
      /\ [kind |-> "abandon"] \in OrderJobs
      /\ \A kind \in {"pay", "cancel", "ship"} : [kind |-> kind, copy |-> row] \in OrderJobs
  BY DEF TypeOK, OrderJobs
<1>3. CASE PollRead(w)
  BY <1>2, <1>3, JobTypes DEF PollRead, TypeOK, ghosts
<1>4. CASE PollAnswer(w)
  BY <1>2, <1>4, JobTypes DEF PollAnswer, TypeOK, ghosts
<1>5. CASE PollReadOrder(w)
  BY <1>2, <1>5, JobTypes DEF PollReadOrder, TypeOK, ghosts
<1>6. CASE PollPay(w)
  BY <1>6, JobTypes, JobParts, SavedRows DEF PollPay, Runs, TypeOK, ghosts
<1>7. CASE CancelRead(w)
  BY <1>2, <1>7, JobTypes DEF CancelRead, TypeOK, ghosts
<1>8. CASE CancelSave(w)
  <2>1. row' \in Rows
    BY <1>8, JobParts, SavedRows DEF CancelSave, Runs
  <2>2. stock' \in Nat
    BY <1>8 DEF CancelSave, TypeOK
  <2> QED
    BY <1>8, <2>1, <2>2, JobTypes DEF CancelSave, TypeOK, ghosts
<1>9. CASE ShipRead(w)
  BY <1>2, <1>9, JobTypes DEF ShipRead, TypeOK, ghosts
<1>10. CASE ShipSave(w)
  BY <1>10, JobTypes, JobParts, SavedRows DEF ShipSave, Runs, TypeOK, ghosts
<1>11. ASSUME NEW c \in Claims, NEW decision \in Decisions, ReviewRead(w, c, decision)
       PROVE  TypeOK'
  <2>1. [kind |-> "review", id |-> c, decision |-> decision, copy |-> claim[c]] \in ReviewJobs
    BY DEF TypeOK, ReviewJobs
  <2> QED
    BY <1>11, <2>1, JobTypes DEF ReviewRead, TypeOK, ghosts
<1>12. CASE ReviewSave(w)
  <2>1. /\ job[w].id \in Claims /\ job[w].decision \in Decisions /\ job[w].copy \in AfterSales
    BY <1>12, JobParts DEF ReviewSave, Runs
  <2>2. claim' \in [Claims -> AfterSales]
    BY <1>12, <2>1, SavedClaim DEF ReviewSave, TypeOK
  <2>3. row' \in Rows
    BY <1>12, SavedRows DEF ReviewSave, TypeOK
  <2>4. stock' \in Nat
    BY <1>12 DEF ReviewSave, Restock, TypeOK
  <2>5. approved' \in SUBSET Claims
    BY <1>12, <2>1 DEF ReviewSave, TypeOK
  <2> QED
    BY <1>12, <2>2, <2>3, <2>4, <2>5, JobTypes DEF ReviewSave, TypeOK
<1>13. CASE GiveUp(w)
  BY <1>13, JobTypes DEF GiveUp, TypeOK, ghosts
<1>14. CASE AbandonRead(w)
  BY <1>2, <1>14, JobTypes DEF AbandonRead, TypeOK, ghosts
<1>15. CASE AbandonSave(w)
  BY <1>15, JobTypes DEF AbandonSave, TypeOK, ghosts
<1> QED
  BY <1>1, <1>3, <1>4, <1>5, <1>6, <1>7, <1>8, <1>9, <1>10, <1>11, <1>12, <1>13, <1>14, <1>15

\* Every row keeps its type, and so does every copy a job holds.
THEOREM FulfilmentTypeCorrect == Spec => []TypeOK
<1>1. TypeOK /\ [Next]_vars => TypeOK'
  <2>1. TypeOK /\ UNCHANGED vars => TypeOK'
    BY DEF TypeOK, vars
  <2> QED
    BY <2>1, LockedTypeOK, UnlockedTypeOK DEF Next
<1> QED
  BY <1>1, InitTypeOK, PTL DEF Spec

-----------------------------------------------------------------------------
(* Returned units. *)

\* One completed return more is at most one more to count.
LEMMA ReturnCount ==
    ASSUME NEW S \in SUBSET Claims
    PROVE  /\ Cardinality(S) \in Nat
           /\ \A T \in SUBSET S : Cardinality(T) <= Cardinality(S)
           /\ \A c \in Claims : \A T \in SUBSET (S \cup {c}) :
                Cardinality(T) <= Cardinality(S) + 1
<1>1. IsFiniteSet(S)
  BY ClaimsAssumption, FS_Subset
<1>2. Cardinality(S) \in Nat
  BY <1>1, FS_CardinalityType
<1>3. \A T \in SUBSET S : Cardinality(T) <= Cardinality(S)
  BY <1>1, FS_Subset
<1>4. ASSUME NEW c \in Claims, NEW T \in SUBSET (S \cup {c})
      PROVE  Cardinality(T) <= Cardinality(S) + 1
  <2>1. /\ IsFiniteSet(S \cup {c})
        /\ Cardinality(S \cup {c}) \in {Cardinality(S), Cardinality(S) + 1}
    BY <1>1, FS_AddElement
  <2>2. Cardinality(T) \in Nat /\ Cardinality(T) <= Cardinality(S \cup {c})
    BY <2>1, FS_Subset, FS_CardinalityType
  <2> QED
    BY <1>2, <2>1, <2>2
<1> QED
  BY <1>2, <1>3, <1>4

\* Stock that does not fall, while no return is completed, keeps the balance.
LEMMA NoNewReturn ==
    ASSUME TypeOK, TypeOK', ReturnsRestocked, stock' >= stock, Returned' \subseteq Returned
    PROVE  ReturnsRestocked'
<1>1. Returned \in SUBSET Claims /\ Returned' \in SUBSET Claims
  BY DEF Returned
<1>2. /\ Cardinality(Returned) \in Nat /\ Cardinality(Returned') \in Nat
      /\ Cardinality(Returned') <= Cardinality(Returned)
  BY <1>1, ReturnCount
<1> QED
  BY <1>2, OnSaleAssumption DEF ReturnsRestocked, TypeOK

LEMMA InitRestocked == Init => ReturnsRestocked
<1> SUFFICES ASSUME Init PROVE ReturnsRestocked
  OBVIOUS
<1>1. Returned = {}
  BY DEF Init, Returned
<1>2. Cardinality(Returned) = 0
  BY <1>1, FS_EmptySet
<1> QED
  BY <1>2, OnSaleAssumption DEF Init, ReturnsRestocked

LEMMA ReviewRestocked ==
    ASSUME TypeOK, TypeOK', ReturnsRestocked, NEW w \in Workers, ReviewSave(w)
    PROVE  ReturnsRestocked'
<1>1. /\ job[w].id \in Claims /\ job[w].decision \in Decisions /\ job[w].copy \in AfterSales
  BY JobParts DEF ReviewSave, Runs
<1>2. claim' = [claim EXCEPT ![job[w].id] = Reviewed(job[w].copy, job[w].decision)]
  BY DEF ReviewSave
<1>3. \A c \in Claims : c # job[w].id => claim'[c] = claim[c]
  BY <1>2 DEF TypeOK
<1>4. claim'[job[w].id] = Reviewed(job[w].copy, job[w].decision)
  BY <1>1, <1>2 DEF TypeOK
<1>5. CASE job[w].decision = "complete_refund" /\ job[w].copy.type = "return"
  <2>1. stock' = stock + 1
    BY <1>5 DEF ReviewSave, Restock
  <2>2. Returned \in SUBSET Claims /\ Returned' \in SUBSET Claims
    BY DEF Returned
  <2>3. Returned' \in SUBSET (Returned \cup {job[w].id})
    BY <1>3 DEF Returned
  <2>4. Cardinality(Returned') \in Nat /\ Cardinality(Returned) \in Nat
        /\ Cardinality(Returned') <= Cardinality(Returned) + 1
    BY <1>1, <2>2, <2>3, ReturnCount
  <2> QED
    BY <2>1, <2>4, OnSaleAssumption DEF ReturnsRestocked, TypeOK
<1>6. CASE ~(job[w].decision = "complete_refund" /\ job[w].copy.type = "return")
  <2>1. stock' = stock
    BY <1>6 DEF ReviewSave, Restock
  <2>2. job[w].id \notin Returned'
    BY <1>1, <1>4, <1>6, SavedClaim DEF Returned
  <2>3. Returned' \subseteq Returned
    BY <1>3, <2>2 DEF Returned
  <2>4. stock' >= stock
    BY <2>1 DEF TypeOK
  <2> QED
    BY <2>3, <2>4, NoNewReturn
<1> QED
  BY <1>5, <1>6

LEMMA NextRestocked ==
    ASSUME TypeOK, TypeOK', ReturnsRestocked, [Next]_vars
    PROVE  ReturnsRestocked'
<1>1. ASSUME NEW c \in Claims, ApplyAfterSale(c) PROVE ReturnsRestocked'
  <2>1. Returned' \subseteq Returned
    BY <1>1 DEF ApplyAfterSale, Returned, TypeOK, AfterSales
  <2>2. stock' >= stock
    BY <1>1 DEF ApplyAfterSale, TypeOK
  <2> QED
    BY <2>1, <2>2, NoNewReturn
<1>2. ASSUME UNCHANGED claim, stock' \in {stock, stock + 1} PROVE ReturnsRestocked'
  <2>1. Returned' \subseteq Returned
    BY <1>2 DEF Returned
  <2>2. stock' >= stock
    BY <1>2 DEF TypeOK
  <2> QED
    BY <2>1, <2>2, NoNewReturn
<1>3. ASSUME LockedNext, ~ \E c \in Claims : ApplyAfterSale(c)
      PROVE  UNCHANGED claim /\ stock' \in {stock, stock + 1}
  BY <1>3 DEF LockedNext, Webhook, LateWebhook, Cancel, ConfirmDelivered, DaysPass, AutoComplete,
              CreateRefund, FinalizeRefund
<1>4. ASSUME NEW w \in Workers,
             \/ PollRead(w) \/ PollAnswer(w) \/ PollReadOrder(w) \/ PollPay(w)
             \/ AbandonRead(w) \/ AbandonSave(w) \/ CancelRead(w) \/ CancelSave(w)
             \/ ShipRead(w) \/ ShipSave(w) \/ GiveUp(w)
             \/ (\E c \in Claims, decision \in Decisions : ReviewRead(w, c, decision))
      PROVE  UNCHANGED claim /\ stock' \in {stock, stock + 1}
  BY <1>4 DEF PollRead, PollAnswer, PollReadOrder, PollPay, AbandonRead, AbandonSave, CancelRead,
              CancelSave, ShipRead, ShipSave, GiveUp, ReviewRead
<1>5. CASE UNCHANGED vars
  BY <1>2, <1>5 DEF vars
<1>6. CASE LockedNext
  BY <1>1, <1>2, <1>3, <1>6
<1>7. CASE UnlockedNext
  BY <1>2, <1>4, <1>7, ReviewRestocked DEF UnlockedNext
<1> QED
  BY <1>5, <1>6, <1>7 DEF Next

\* For any after-sales and workers: no return is completed without its unit going back on
\* sale, however often reviews of one after-sale overwrite each other.
THEOREM ReturnsAreRestocked == Spec => []ReturnsRestocked
<1>1. TypeOK /\ TypeOK' /\ ReturnsRestocked /\ [Next]_vars => ReturnsRestocked'
  BY NextRestocked
<1> QED
  BY <1>1, InitRestocked, FulfilmentTypeCorrect, PTL DEF Spec

-----------------------------------------------------------------------------
(* The trail of an order. *)

\* What stands behind the rows and the jobs that later steps start from.
Carried ==
  /\ row.status = "paid" => payment # "pending"
  /\ \A c \in Claims : claim[c].status \in {"approved", "completed"} => approved # {}
  /\ \A w \in Workers :
       /\ Runs(w, "settled") \/ Runs(w, "pay") \/ Runs(w, "ship") => payment # "pending"
       /\ Runs(w, "review") => confirmed
       /\ Runs(w, "review") /\ job[w].decision = "complete_refund" => approved # {}

IInv == Trail /\ Carried

LEMMA InitTrail == Init => IInv
  BY DEF Init, IInv, Trail, Carried, Runs

\* A handler that locks the order leaves the jobs as they are.
LEMMA LockedTrail ==
    ASSUME TypeOK, IInv, LockedNext
    PROVE  IInv'
<1> USE DEF IInv, Trail, Carried, Runs
<1>1. CASE Webhook
  BY <1>1 DEF Webhook, Paid, ghosts, TypeOK, Rows
<1>2. CASE Cancel
  BY <1>2 DEF Cancel, Cancelled, ghosts, TypeOK, Rows
<1>3. CASE ConfirmDelivered
  BY <1>3 DEF ConfirmDelivered, TypeOK, Rows
<1>4. CASE DaysPass
  BY <1>4 DEF DaysPass, ghosts, TypeOK, Rows
<1>5. CASE AutoComplete
  BY <1>5 DEF AutoComplete, ghosts, TypeOK, Rows
<1>6. ASSUME NEW c \in Claims, ApplyAfterSale(c) PROVE IInv'
  BY <1>6 DEF ApplyAfterSale, ghosts, TypeOK, AfterSales
<1>7. ASSUME NEW who \in {"customer", "admin"}, CreateRefund(who) PROVE IInv'
  BY <1>7 DEF CreateRefund, Entitled, TypeOK, Rows
<1>8. ASSUME NEW k \in Refunds, FinalizeRefund(k) PROVE IInv'
  <2>1. PICK answer \in {"succeeded", "failed", "unknown"} :
          /\ payment' = IF answer = "succeeded" THEN "refunded" ELSE payment
          /\ row' = [row EXCEPT !.payStatus = LedgerStatus(k, answer)]
    BY <1>8 DEF FinalizeRefund
  <2>2. row'.status = row.status
    BY <2>1 DEF TypeOK, Rows
  <2>3. payment' = "pending" => payment = "pending"
    BY <2>1
  <2> QED
    BY <1>8, <2>2, <2>3 DEF FinalizeRefund, ghosts
<1>9. CASE LateWebhook
  BY <1>9 DEF LateWebhook, ghosts
<1> QED
  BY <1>1, <1>2, <1>3, <1>4, <1>5, <1>6, <1>7, <1>8, <1>9 DEF LockedNext

LEMMA UnlockedTrail ==
    ASSUME TypeOK, IInv, UnlockedNext
    PROVE  IInv'
<1>1. PICK w \in Workers :
        \/ PollRead(w) \/ PollAnswer(w) \/ PollReadOrder(w) \/ PollPay(w)
        \/ AbandonRead(w) \/ AbandonSave(w) \/ CancelRead(w) \/ CancelSave(w)
        \/ ShipRead(w) \/ ShipSave(w)
        \/ (\E c \in Claims, decision \in Decisions : ReviewRead(w, c, decision))
        \/ ReviewSave(w) \/ GiveUp(w)
  BY DEF UnlockedNext
<1> USE DEF IInv, Trail, Carried, Runs, Begin, End
<1>2. CASE PollRead(w)
  BY <1>2 DEF PollRead, ghosts, TypeOK
<1>3. CASE PollAnswer(w)
  BY <1>3 DEF PollAnswer, ghosts, TypeOK
<1>4. CASE PollReadOrder(w)
  BY <1>4 DEF PollReadOrder, ghosts, TypeOK
<1>5. CASE PollPay(w)
  BY <1>5, JobParts DEF PollPay, Paid, ghosts, TypeOK, Rows
<1>6. CASE CancelRead(w)
  BY <1>6 DEF CancelRead, ghosts, TypeOK
<1>7. CASE CancelSave(w)
  BY <1>7, JobParts DEF CancelSave, Cancelled, ghosts, TypeOK, Rows
<1>8. CASE ShipRead(w)
  BY <1>8 DEF ShipRead, ghosts, TypeOK
<1>9. CASE ShipSave(w)
  BY <1>9, JobParts DEF ShipSave, Shipped, ghosts, TypeOK, Rows
<1>10. ASSUME NEW c \in Claims, NEW decision \in Decisions, ReviewRead(w, c, decision)
       PROVE  IInv'
  BY <1>10 DEF ReviewRead, Reviewable, ghosts, TypeOK
<1>11. CASE ReviewSave(w)
  <2>1. /\ job[w].id \in Claims /\ job[w].decision \in Decisions /\ job[w].copy \in AfterSales
    BY <1>11, JobParts DEF ReviewSave
  <2>2. confirmed /\ (job[w].decision = "complete_refund" => approved # {})
    BY <1>11 DEF ReviewSave
  <2>3. \A c \in Claims : claim'[c] = IF c = job[w].id
                                      THEN Reviewed(job[w].copy, job[w].decision) ELSE claim[c]
    BY <1>11, <2>1 DEF ReviewSave, TypeOK
  <2>4. row'.status = row.status
    BY <1>11 DEF ReviewSave, TypeOK, Rows
  <2>5. approved \subseteq approved' /\ (job[w].decision = "approve" => approved' # {})
    BY <1>11 DEF ReviewSave
  <2>6. \A c \in Claims : claim'[c].status \in {"approved", "completed"} => approved' # {}
    BY <2>1, <2>2, <2>3, <2>5, SavedClaim
  <2>7. \A v \in Workers : job'[v] # NoJob => job'[v] = job[v]
    BY <1>11 DEF ReviewSave, TypeOK
  <2> QED
    BY <1>11, <2>2, <2>4, <2>5, <2>6, <2>7 DEF ReviewSave
<1>12. CASE GiveUp(w)
  BY <1>12 DEF GiveUp, ghosts, TypeOK
<1>13. CASE AbandonRead(w)
  BY <1>13 DEF AbandonRead, ghosts, TypeOK
<1>14. CASE AbandonSave(w)
  BY <1>14 DEF AbandonSave, ghosts, TypeOK
<1> QED
  BY <1>1, <1>2, <1>3, <1>4, <1>5, <1>6, <1>7, <1>8, <1>9, <1>10, <1>11, <1>12, <1>13, <1>14

\* For any after-sales and workers: a customer's refund has an approval behind it, an approval
\* a receipt, a receipt a waybill and a waybill the money, whatever stale copies are saved.
THEOREM TrailIsComplete == Spec => []Trail
<1>1. TypeOK /\ IInv /\ [Next]_vars => IInv'
  <2>1. IInv /\ UNCHANGED vars => IInv'
    BY DEF IInv, Trail, Carried, Runs, vars
  <2> QED
    BY <2>1, LockedTrail, UnlockedTrail DEF Next
<1>2. IInv => Trail
  BY DEF IInv
<1> QED
  BY <1>1, <1>2, InitTrail, FulfilmentTypeCorrect, PTL DEF Spec

-----------------------------------------------------------------------------
(* The order of the steps.  Trail says what stands behind a row, whatever stale
   copies have done to it; here it is which steps leave the way that the methods
   of Order and AfterSale allow. *)

OrderSteps ==
  { <<"pending_payment", "paid">>, <<"pending_payment", "cancelled">>, <<"paid", "shipped">>,
    <<"shipped", "delivered">>, <<"delivered", "completed">> }
ClaimSteps ==
  { <<"none", "pending_review">>, <<"pending_review", "approved">>,
    <<"pending_review", "rejected">>, <<"approved", "completed">> }

\* A job saves a copy whose status is no longer that of the row.
StaleOrder(w) ==
  /\ PollPay(w) \/ CancelSave(w) \/ ShipSave(w)
  /\ job[w].copy.status # row.status
StaleReview(w, c) ==
  ReviewSave(w) /\ job[w].id = c /\ job[w].copy.status # claim[c].status

OrderlyStep ==
  /\ \/ row'.status = row.status
     \/ <<row.status, row'.status>> \in OrderSteps
     \/ \E w \in Workers : StaleOrder(w)
  /\ \A c \in Claims :
       \/ claim'[c].status = claim[c].status
       \/ <<claim[c].status, claim'[c].status>> \in ClaimSteps
       \/ \E w \in Workers : StaleReview(w, c)

\* An order and an after-sale leave their way only when a copy is saved over a
\* row that has moved on since it was read.
OrderlyUnlessStale == [][OrderlyStep]_vars

\* What a job has read allowed what it is going to save.
Read ==
  \A w \in Workers :
    /\ Runs(w, "pay") \/ Runs(w, "cancel") => job[w].copy.status = "pending_payment"
    /\ Runs(w, "ship") => job[w].copy.status = "paid"
    /\ Runs(w, "review") => Reviewable(job[w].copy, job[w].decision)

LEMMA ReadKept == TypeOK /\ Read /\ [Next]_vars => Read'
<1> SUFFICES ASSUME TypeOK, Read, [Next]_vars PROVE Read'
  OBVIOUS
<1> USE DEF Read, Runs
<1>1. CASE LockedNext \/ UNCHANGED vars
  <2>1. job' = job
    BY <1>1 DEF LockedNext, Webhook, LateWebhook, Cancel, ConfirmDelivered, DaysPass, AutoComplete,
                ApplyAfterSale, CreateRefund, FinalizeRefund, vars
  <2> QED
    BY <2>1
<1>2. ASSUME NEW w \in Workers,
             \/ PollRead(w) \/ PollAnswer(w) \/ PollReadOrder(w) \/ PollPay(w)
             \/ AbandonRead(w) \/ AbandonSave(w) \/ CancelRead(w) \/ CancelSave(w)
             \/ ShipRead(w) \/ ShipSave(w)
             \/ (\E c \in Claims, decision \in Decisions : ReviewRead(w, c, decision))
             \/ ReviewSave(w) \/ GiveUp(w)
      PROVE  Read'
  <2>1. \A v \in Workers : v # w => job'[v] = job[v]
    BY <1>2 DEF PollRead, PollAnswer, PollReadOrder, PollPay, AbandonRead, AbandonSave,
                CancelRead, CancelSave, ShipRead, ShipSave, ReviewRead, ReviewSave, GiveUp, Begin, End, TypeOK
  <2>2. CASE PollRead(w) \/ PollAnswer(w) \/ AbandonRead(w)
    <3>1. job'[w] \in [kind : {"settle", "settled", "abandon"}]
      BY <2>2 DEF PollRead, PollAnswer, AbandonRead, Begin, TypeOK
    <3> QED
      BY <2>1, <3>1
  <2>3. CASE PollReadOrder(w)
    <3>1. job'[w] = [kind |-> "pay", copy |-> row] /\ row.status = "pending_payment"
      BY <2>3 DEF PollReadOrder, Begin, TypeOK
    <3> QED
      BY <2>1, <3>1
  <2>4. CASE CancelRead(w)
    <3>1. job'[w] = [kind |-> "cancel", copy |-> row] /\ row.status = "pending_payment"
      BY <2>4 DEF CancelRead, Begin, TypeOK
    <3> QED
      BY <2>1, <3>1
  <2>5. CASE ShipRead(w)
    <3>1. job'[w] = [kind |-> "ship", copy |-> row] /\ row.status = "paid"
      BY <2>5 DEF ShipRead, Begin, TypeOK
    <3> QED
      BY <2>1, <3>1
  <2>6. ASSUME NEW c \in Claims, NEW decision \in Decisions, ReviewRead(w, c, decision)
        PROVE  Read'
    <3>1. /\ job'[w] = [kind |-> "review", id |-> c, decision |-> decision, copy |-> claim[c]]
          /\ Reviewable(claim[c], decision)
      BY <2>6 DEF ReviewRead, Begin, TypeOK
    <3> QED
      BY <2>1, <3>1
  <2>7. CASE \/ PollPay(w) \/ AbandonSave(w) \/ CancelSave(w) \/ ShipSave(w) \/ ReviewSave(w)
             \/ GiveUp(w)
    <3>1. job'[w] = NoJob
      BY <2>7 DEF PollPay, AbandonSave, CancelSave, ShipSave, ReviewSave, GiveUp, End, TypeOK
    <3> QED
      BY <2>1, <3>1
  <2> QED
    BY <1>2, <2>2, <2>3, <2>4, <2>5, <2>6, <2>7
<1> QED
  BY <1>1, <1>2 DEF Next, UnlockedNext

LEMMA LockedOrderly == TypeOK /\ LockedNext => OrderlyStep
<1> SUFFICES ASSUME TypeOK, LockedNext PROVE OrderlyStep
  OBVIOUS
<1> USE DEF OrderlyStep, OrderSteps, ClaimSteps, TypeOK, Rows
<1>1. CASE Webhook \/ LateWebhook \/ Cancel \/ ConfirmDelivered \/ DaysPass \/ AutoComplete
  BY <1>1 DEF Webhook, LateWebhook, Cancel, ConfirmDelivered, DaysPass, AutoComplete, Paid,
              Cancelled
<1>2. ASSUME NEW c \in Claims, ApplyAfterSale(c) PROVE OrderlyStep
  BY <1>2 DEF ApplyAfterSale, AfterSales
<1>3. ASSUME NEW who \in {"customer", "admin"}, CreateRefund(who) PROVE OrderlyStep
  BY <1>3 DEF CreateRefund
<1>4. ASSUME NEW k \in Refunds, FinalizeRefund(k) PROVE OrderlyStep
  <2>1. row'.status = row.status /\ claim' = claim
    BY <1>4 DEF FinalizeRefund
  <2> QED
    BY <2>1
<1> QED
  BY <1>1, <1>2, <1>3, <1>4 DEF LockedNext

LEMMA UnlockedOrderly == TypeOK /\ Read /\ UnlockedNext => OrderlyStep
<1> SUFFICES ASSUME TypeOK, Read, UnlockedNext PROVE OrderlyStep
  OBVIOUS
<1>1. PICK w \in Workers :
        \/ PollRead(w) \/ PollAnswer(w) \/ PollReadOrder(w) \/ PollPay(w)
        \/ AbandonRead(w) \/ AbandonSave(w) \/ CancelRead(w) \/ CancelSave(w)
        \/ ShipRead(w) \/ ShipSave(w)
        \/ (\E c \in Claims, decision \in Decisions : ReviewRead(w, c, decision))
        \/ ReviewSave(w) \/ GiveUp(w)
  BY DEF UnlockedNext
<1>2. CASE \/ PollRead(w) \/ PollAnswer(w) \/ PollReadOrder(w) \/ AbandonRead(w)
           \/ AbandonSave(w) \/ CancelRead(w) \/ ShipRead(w)
           \/ (\E c \in Claims, decision \in Decisions : ReviewRead(w, c, decision))
           \/ GiveUp(w)
  <2>1. row' = row /\ claim' = claim
    BY <1>2 DEF PollRead, PollAnswer, PollReadOrder, AbandonRead, AbandonSave, CancelRead,
                ShipRead, ReviewRead, GiveUp
  <2> QED
    BY <2>1 DEF OrderlyStep
<1>3. CASE PollPay(w) \/ CancelSave(w) \/ ShipSave(w)
  <2>1. job[w].copy \in Rows /\ claim' = claim
    BY <1>3, JobParts DEF PollPay, CancelSave, ShipSave, Runs
  <2>2. \/ job[w].copy.status = "pending_payment" /\ row'.status \in {"paid", "cancelled"}
        \/ job[w].copy.status = "paid" /\ row'.status = "shipped"
    BY <1>3, <2>1 DEF PollPay, CancelSave, ShipSave, Read, Paid, Cancelled, Shipped, Rows
  <2>3. CASE job[w].copy.status = row.status
    BY <2>1, <2>2, <2>3 DEF OrderlyStep, OrderSteps
  <2>4. CASE job[w].copy.status # row.status
    BY <1>3, <2>1, <2>4 DEF OrderlyStep, StaleOrder
  <2> QED
    BY <2>3, <2>4
<1>4. CASE ReviewSave(w)
  <2> DEFINE j == job[w]
  <2>1. /\ j.id \in Claims /\ j.decision \in Decisions /\ j.copy \in AfterSales
        /\ Reviewable(j.copy, j.decision)
    BY <1>4, JobParts DEF ReviewSave, Read, Runs
  <2>2. row'.status = row.status
    BY <1>4 DEF ReviewSave, TypeOK, Rows
  <2>3. \A c \in Claims : claim'[c] = IF c = j.id THEN Reviewed(j.copy, j.decision) ELSE claim[c]
    BY <1>4, <2>1 DEF ReviewSave, TypeOK
  <2>4. <<j.copy.status, Reviewed(j.copy, j.decision).status>> \in ClaimSteps
    BY <2>1 DEF Reviewable, Reviewed, AfterSales, Decisions, ClaimSteps
  <2>5. ASSUME NEW c \in Claims
        PROVE  \/ claim'[c].status = claim[c].status
               \/ <<claim[c].status, claim'[c].status>> \in ClaimSteps
               \/ StaleReview(w, c)
    BY <1>4, <2>3, <2>4 DEF StaleReview
  <2> QED
    BY <2>2, <2>5 DEF OrderlyStep
<1> QED
  BY <1>1, <1>2, <1>3, <1>4

\* For any after-sales and workers: orders and after-sales go one legal step at a time
\* (models.py, Order.pay to complete and AfterSale.approve to complete_refund), unless a
\* copy is saved over a row that has left the status it was read with.
THEOREM StepsAreOrderly == Spec => OrderlyUnlessStale
<1>1. Init => Read
  BY DEF Init, Read, Runs
<1>2. TypeOK /\ Read /\ [Next]_vars => [OrderlyStep]_vars
  BY LockedOrderly, UnlockedOrderly DEF Next
<1> QED
  BY <1>1, <1>2, ReadKept, FulfilmentTypeCorrect, PTL DEF Spec, OrderlyUnlessStale
=============================================================================
