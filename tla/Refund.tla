------------------------------- MODULE Refund -------------------------------
(***************************************************************************)
(* Refunds of one SUCCESS payment: create_refund reserves a part of the    *)
(* payment in a locked transaction, calls the gateway outside of it and    *)
(* writes the outcome down in another; reconcile_unknown_refunds asks the  *)
(* gateway about the refunds whose outcome got lost.  The order's payment  *)
(* status and the payment's status have other writers, which are here for  *)
(* what they write there.  The order stands: it is not cancelled.          *)
(*                                                                         *)
(* Money is a set of units: a refund of n cents reserves n of the          *)
(* payment's units, so "the sum of the refunds" is a union of sets.        *)
(* RefundLog rows are named by their idempotency key (unique per payment). *)
(***************************************************************************)
EXTENDS Integers, FiniteSets

CONSTANTS
  Keys,         \* idempotency keys a RefundLog row may be created under
  Units,        \* the payment's amount, unit by unit
  Workers,      \* Celery workers running reconcile_unknown_refunds
  Admins,       \* admins who ship the order
  Polls,        \* polls and sync jobs that read the payment before it was paid
  MaxAttempts,  \* REFUND_RECONCILIATION_MAX_ATTEMPTS
  Idempotent,   \* the gateway honours the request id (Stripe, PayPal; not Creem)
  Queryable,    \* the gateway can be asked about a refund (not Creem)
  Strict,       \* it only reports a rejection of the refund itself as one (not
                \* PayPal: any 4xx, a throttled or unauthorised request too)
  NoKey

ASSUME MaxAssumption     == MaxAttempts \in Nat \ {0}
ASSUME UnitsAssumption   == Units # {}
ASSUME GatewayAssumption == {Idempotent, Queryable, Strict} \subseteq BOOLEAN
ASSUME KeyAssumption     == NoKey \notin Keys

VARIABLES
  row,        \* RefundLog.status ("none": no row)
  part,       \* RefundLog.amount: the units it reserves
  hasId,      \* rows with a gateway_refund_id
  capped,     \* rows whose gateway_data is RECONCILIATION_MAX_ATTEMPTS_EXCEEDED
  attempts,   \* RefundLog.reconcile_attempts
  payLog,     \* PaymentLog.status
  payStatus,  \* Order.payment_status
  coupon,     \* UserCoupon.status of the order's coupon
  call,       \* per key: what the create_refund call is about to do or write
  gw,         \* the refund at the gateway
  times,      \* how often the gateway paid it out: 0, 1, or 2 for "more than once"
  batch,      \* per worker: the rows it has listed and not yet taken
  job,        \* per worker: its step, its row, what it read of it, what it was told
  copy,       \* per admin: payment_status in its copy of the order, or "none", "saved"
  polls       \* the polls that have not been answered yet

rowVars    == <<row, part, hasId, capped, coupon>>
ledgerVars == <<rowVars, payLog, payStatus>>
gwVars     == <<gw, times>>
workerVars == <<batch, job>>
otherVars  == <<copy, polls>>
vars == <<ledgerVars, attempts, call, gwVars, workerVars, otherVars>>

\* Replies of the gateway: "pending" carries a gateway_refund_id but no usable
\* outcome, "lost" carries nothing (an exception, a timeout).
Replies == {"succeeded", "failed", "pending", "lost"}

Steps == {"query", "replay", "write", "count"}
NoJob == [at |-> "idle", key |-> NoKey, tries |-> 0, id |-> FALSE, reply |-> "lost"]
Jobs  == {NoJob}
  \cup [at : {"cap"}, key : Keys, tries : {MaxAttempts}, id : BOOLEAN, reply : Replies]
  \cup [at : Steps, key : Keys, tries : 0..(MaxAttempts - 1), id : BOOLEAN, reply : Replies]

PayStatuses == {"paid", "refunding", "partially_refunded", "refunded"}

TypeOK ==
  /\ row       \in [Keys -> {"none", "pending", "unknown", "succeeded", "failed"}]
  /\ part      \in [Keys -> SUBSET Units]
  /\ hasId     \in SUBSET Keys
  /\ capped    \in SUBSET Keys
  /\ attempts  \in [Keys -> 0..MaxAttempts]
  /\ payLog    \in {"success", "failed", "cancelled", "refunded"}
  /\ payStatus \in PayStatuses
  /\ coupon    \in {"used", "returned"}
  /\ call      \in [Keys -> {"idle", "ready"} \cup Replies]
  /\ gw        \in [Keys -> {"none", "processing", "refunded", "refused"}]
  /\ times     \in [Keys -> 0..2]
  /\ batch     \in [Workers -> SUBSET Keys]
  /\ job       \in [Workers -> Jobs]
  /\ copy      \in [Admins -> PayStatuses \cup {"none", "saved"}]
  /\ polls     \in SUBSET Polls

Init ==
  /\ row       = [k \in Keys |-> "none"]
  /\ part      = [k \in Keys |-> {}]
  /\ hasId     = {}
  /\ capped    = {}
  /\ attempts  = [k \in Keys |-> 0]
  /\ payLog    = "success"
  /\ payStatus = "paid"
  /\ coupon    = "used"
  /\ call      = [k \in Keys |-> "idle"]
  /\ gw        = [k \in Keys |-> "none"]
  /\ times     = [k \in Keys |-> 0]
  /\ batch     = [w \in Workers |-> {}]
  /\ job       = [w \in Workers |-> NoJob]
  /\ copy      = [a \in Admins |-> "none"]
  /\ polls     = Polls

-----------------------------------------------------------------------------
(* The ledger. *)

Open    == {"pending", "unknown"}
Live    == Open \cup {"succeeded"}

\* The units in the rows of r with one of the given statuses.
UnitsOf(r, statuses) == UNION {part[k] : k \in {j \in Keys : r[j] \in statuses}}

\* Mutant: a success closes the matter although another refund is still open.
OrderAfter_SuccessFirst(r, k) ==
  IF r[k] = "succeeded"
  THEN IF UnitsOf(r, {"succeeded"}) = Units THEN "refunded" ELSE "partially_refunded"
  ELSE IF \E j \in Keys : r[j] \in Open THEN "refunding"
  ELSE IF UnitsOf(r, {"succeeded"}) # {} THEN "partially_refunded"
  ELSE "paid"

\* What _finalize_refund makes of the order once rows r hold.
OrderAfter(r, k) ==
  IF r[k] = "succeeded" /\ UnitsOf(r, {"succeeded"}) = Units THEN "refunded"
  ELSE IF \E j \in Keys : r[j] \in Open THEN "refunding"
  ELSE IF UnitsOf(r, {"succeeded"}) # {} THEN "partially_refunded"
  ELSE "paid"

\* Mutant: a decided row is decided again.
Finalize_Again(k, st) ==
  LET r == [row EXCEPT ![k] = st]
      full == OrderAfter(r, k) = "refunded" IN
  /\ row' = r
  /\ payStatus' = OrderAfter(r, k)
  /\ payLog' = IF full THEN "refunded" ELSE payLog
  /\ coupon' \in IF full THEN {coupon, "returned"} ELSE {coupon}

\* _finalize_refund: locked, and a decided row is never decided again.  A full
\* refund returns the coupon unless the coupon's own window is over.
Finalize(k, st) ==
  LET r == [row EXCEPT ![k] = st]
      full == row[k] \in Open /\ OrderAfter(r, k) = "refunded" IN
  /\ row' = IF row[k] \in Open THEN r ELSE row
  /\ payStatus' = IF row[k] \in Open THEN OrderAfter(r, k) ELSE payStatus
  /\ payLog' = IF full THEN "refunded" ELSE payLog
  /\ coupon' \in IF full THEN {coupon, "returned"} ELSE {coupon}

\* Mutants: an accepted request is taken for a refund; a lost answer for a refusal.
Classify_Accepted(reply) ==
  IF reply \in {"succeeded", "pending"} THEN "succeeded"
  ELSE IF reply = "failed" THEN reply ELSE "unknown"
Classify_LostIsFailed(reply) ==
  IF reply = "lost" THEN "failed"
  ELSE IF reply \in {"succeeded", "failed"} THEN reply ELSE "unknown"

\* _classify_refund_result
Classify(reply) == IF reply \in {"succeeded", "failed"} THEN reply ELSE "unknown"

\* Finalize with the gateway's reply; an id it carries is kept.
Record(k, reply) ==
  /\ Finalize(k, Classify(reply))
  /\ hasId' = IF row[k] \in Open /\ reply \in {"succeeded", "pending"}
              THEN hasId \cup {k} ELSE hasId

-----------------------------------------------------------------------------
(* The gateway (external). *)

Once(k) == [times EXCEPT ![k] = IF @ = 0 THEN 1 ELSE 2]

\* What a gateway in state s says of a refund, by query or by replay; a refund
\* reported with another amount or no amount is not taken for a success.
Told(s) == CASE s = "refunded"   -> {"succeeded", "pending"}
             [] s = "processing" -> {"pending"}
             [] s = "refused"    -> {"failed"}
             [] OTHER            -> {}

\* A create_refund request of row k arrives and is answered with reply.
GatewayTakes(k, reply) ==
  \/ /\ Idempotent /\ gw[k] # "none"
     /\ reply \in Told(gw[k]) \cup {"lost"}
     /\ UNCHANGED gwVars
  \/ /\ gw[k] = "none" \/ ~Idempotent
     /\ \/ /\ gw'    = [gw EXCEPT ![k] = "refunded"]
           /\ times' = Once(k)
           /\ reply \in {"succeeded", "pending", "lost"}
        \/ /\ gw[k] = "none"
           /\ gw' = [gw EXCEPT ![k] = "processing"]
           /\ UNCHANGED times
           /\ reply \in {"pending", "lost"}
        \/ /\ gw' = [gw EXCEPT ![k] = IF @ = "none" THEN "refused" ELSE @]
           /\ UNCHANGED times
           /\ reply \in {"failed", "lost"}

\* The request never arrives, or its answer does not.
GatewaySilent(reply) == reply = "lost" /\ UNCHANGED gwVars

GatewaySettles(k) ==
  /\ gw[k] = "processing"
  /\ \/ gw' = [gw EXCEPT ![k] = "refunded"] /\ times' = Once(k)
     \/ gw' = [gw EXCEPT ![k] = "refused"] /\ UNCHANGED times
  /\ UNCHANGED <<ledgerVars, attempts, call, workerVars, otherVars>>

-----------------------------------------------------------------------------
(* create_refund *)

\* Mutant: a refund of unknown outcome reserves nothing.
CreateRefund_FreesUnknown(k, s) ==
  /\ row[k] = "none"
  /\ payLog = "success" /\ payStatus # "refunded"
  /\ s # {} /\ s \cap UnitsOf(row, {"pending", "succeeded"}) = {}
  /\ row'  = [row EXCEPT ![k] = "pending"]
  /\ part' = [part EXCEPT ![k] = s]
  /\ payStatus' = "refunding"
  /\ call' = [call EXCEPT ![k] = "ready"]
  /\ UNCHANGED <<hasId, capped, attempts, payLog, coupon, gwVars, workerVars, otherVars>>

\* The first transaction; a second call with the same key returns the row it
\* finds and changes nothing.
CreateRefund(k, s) ==
  /\ row[k] = "none"
  /\ payLog = "success" /\ payStatus # "refunded"
  /\ s # {} /\ s \cap UnitsOf(row, Live) = {}
  /\ row'  = [row EXCEPT ![k] = "pending"]
  /\ part' = [part EXCEPT ![k] = s]
  /\ payStatus' = "refunding"
  /\ call' = [call EXCEPT ![k] = "ready"]
  /\ UNCHANGED <<hasId, capped, attempts, payLog, coupon, gwVars, workerVars, otherVars>>

\* _process_reserved_refund calls the gateway.  A ValueError is taken for a
\* refusal: raised before the request, or by Creem's reading of its answer.
CallGateway(k) ==
  /\ call[k] = "ready"
  /\ \E reply \in Replies :
       /\ \/ GatewayTakes(k, reply)
          \/ GatewaySilent(reply)
          \/ reply = "failed" /\ UNCHANGED gwVars
          \/ reply = "failed" /\ GatewayTakes(k, "succeeded") /\ ~Idempotent
       /\ call' = [call EXCEPT ![k] = reply]
  /\ UNCHANGED <<ledgerVars, attempts, workerVars, otherVars>>

\* ... and writes the outcome down.
FinishRefund(k) ==
  /\ call[k] \in Replies
  /\ Record(k, call[k])
  /\ call' = [call EXCEPT ![k] = "idle"]
  /\ UNCHANGED <<part, capped, attempts, gwVars, workerVars, otherVars>>

\* The request process dies after reserving: the row stays as it is.
RequestCrash(k) ==
  /\ call[k] # "idle"
  /\ call' = [call EXCEPT ![k] = "idle"]
  /\ UNCHANGED <<ledgerVars, attempts, gwVars, workerVars, otherVars>>

-----------------------------------------------------------------------------
(* reconcile_unknown_refunds; two runs may overlap. *)

Advance(w, step) == job' = [job EXCEPT ![w].at = step]
Hear(w, step, reply) ==
  job' = [job EXCEPT ![w] = [at |-> step, key |-> @.key, tries |-> @.tries,
                             id |-> @.id, reply |-> reply]]
Release(w) == job' = [job EXCEPT ![w] = NoJob]

\* The rows to look at are listed once (batch_size of them; all of them here).
ReconcileList(w) ==
  /\ job[w] = NoJob /\ batch[w] = {}
  /\ \E k \in Keys : row[k] = "unknown"
  /\ batch' = [batch EXCEPT ![w] = {k \in Keys : row[k] = "unknown"}]
  /\ UNCHANGED <<ledgerVars, attempts, call, gwVars, job, otherVars>>

\* Mutant: one attempt too many.
ReconcileRead_OffByOne(w) ==
  /\ job[w] = NoJob
  /\ \E k \in batch[w] :
       /\ batch' = [batch EXCEPT ![w] = @ \ {k}]
       /\ job' = [job EXCEPT ![w] =
                    [at    |-> IF attempts[k] > MaxAttempts THEN "cap" ELSE "query",
                     key   |-> k, tries |-> attempts[k], id |-> k \in hasId,
                     reply |-> "lost"]]
  /\ UNCHANGED <<ledgerVars, attempts, call, gwVars, otherVars>>

\* The next one is read without a lock; its status is not looked at again.
ReconcileRead(w) ==
  /\ job[w] = NoJob
  /\ \E k \in batch[w] :
       /\ batch' = [batch EXCEPT ![w] = @ \ {k}]
       /\ job' = [job EXCEPT ![w] =
                    [at    |-> IF attempts[k] >= MaxAttempts THEN "cap" ELSE "query",
                     key   |-> k, tries |-> attempts[k], id |-> k \in hasId,
                     reply |-> "lost"]]
  /\ UNCHANGED <<ledgerVars, attempts, call, gwVars, otherVars>>

\* Out of attempts: FAILED, whatever happened at the gateway.
ReconcileCap(w) ==
  LET k == job[w].key IN
  /\ job[w].at = "cap"
  /\ Finalize(k, "failed")
  /\ capped' = IF row[k] \in Open THEN capped \cup {k} ELSE capped
  /\ Release(w)
  /\ UNCHANGED <<part, hasId, attempts, call, gwVars, batch, otherVars>>

\* query_refund asks by gateway_refund_id; without one, or when the gateway
\* cannot be asked, it answers "unavailable", and a row without an id is sent
\* again.  It may also raise.
ReconcileQuery(w) ==
  /\ job[w].at = "query"
  /\ \/ Advance(w, "count")
     \/ /\ Queryable /\ job[w].id
        /\ \E reply \in Told(gw[job[w].key]) : Hear(w, "write", reply)
     \/ job[w].id /\ Advance(w, "write")
     \/ ~job[w].id /\ Advance(w, "replay")
  /\ UNCHANGED <<ledgerVars, attempts, call, gwVars, batch, otherVars>>

\* Mutant: the replay carries a new request id.
ReconcileReplay_NewId(w) ==
  LET k == job[w].key IN
  /\ job[w].at = "replay"
  /\ gw'    = [gw EXCEPT ![k] = "refunded"]
  /\ times' = Once(k)
  /\ Hear(w, "write", "succeeded")
  /\ UNCHANGED <<ledgerVars, attempts, call, batch, otherVars>>

\* create_refund again, under the same request id.
ReconcileReplay(w) ==
  /\ job[w].at = "replay"
  /\ \E reply \in Replies :
       /\ \/ GatewayTakes(job[w].key, reply)
          \/ GatewaySilent(reply)
          \/ reply = "failed" /\ ~Strict /\ UNCHANGED gwVars
       /\ Hear(w, "write", reply)
  /\ UNCHANGED <<ledgerVars, attempts, call, batch, otherVars>>

ReconcileWrite(w) ==
  LET reply == job[w].reply IN
  /\ job[w].at = "write"
  /\ Record(job[w].key, reply)
  /\ IF Classify(reply) = "unknown" THEN Advance(w, "count") ELSE Release(w)
  /\ UNCHANGED <<part, capped, attempts, call, gwVars, batch, otherVars>>

\* Mutant: an attempt that stays without outcome is not counted.
ReconcileCount_Forgets(w) ==
  /\ job[w].at = "count"
  /\ attempts' = [attempts EXCEPT ![job[w].key] = job[w].tries]
  /\ Release(w)
  /\ UNCHANGED <<ledgerVars, call, gwVars, batch, otherVars>>

\* The counter is set from what the worker read, not incremented.
ReconcileCount(w) ==
  /\ job[w].at = "count"
  /\ attempts' = [attempts EXCEPT ![job[w].key] = job[w].tries + 1]
  /\ Release(w)
  /\ UNCHANGED <<ledgerVars, call, gwVars, batch, otherVars>>

\* The worker dies; the rows of its batch wait for the next run.
WorkerCrash(w) ==
  /\ job[w] # NoJob \/ batch[w] # {}
  /\ batch' = [batch EXCEPT ![w] = {}]
  /\ Release(w)
  /\ UNCHANGED <<ledgerVars, attempts, call, gwVars, otherVars>>

-----------------------------------------------------------------------------
(* The other writers of the two status columns. *)

\* AfterSale.complete_refund: the order is marked refunded, with no refund put down.
CompleteRefund ==
  /\ payStatus' = "refunded"
  /\ UNCHANGED <<rowVars, payLog, attempts, call, gwVars, workerVars, otherVars>>

\* An event for a payment that is not SUCCESS.  payment_completed raises in Order.pay and
\* is rolled back; an event of any other type is only filed.
Webhook(status) ==
  /\ payLog # "success"
  /\ payLog' = status
  /\ UNCHANGED <<rowVars, payStatus, attempts, call, gwVars, workerVars, otherVars>>

\* A poll that read the payment while it was PENDING saves what the gateway says of it, and
\* the sync job gives up (cancelled) a payment it read so.
PollSaves(p, status) ==
  /\ p \in polls
  /\ polls' = polls \ {p}
  /\ payLog' = status
  /\ UNCHANGED <<rowVars, payStatus, attempts, call, gwVars, workerVars, copy>>

\* An admin ships a copy of the order: read without a lock while the order is paid,
OrderRead(a) ==
  /\ copy[a] = "none" /\ \A b \in Admins : copy[b] # "saved"
  /\ copy' = [copy EXCEPT ![a] = payStatus]
  /\ UNCHANGED <<ledgerVars, attempts, call, gwVars, workerVars, polls>>

\* ... and saved with every column.
OrderSave(a) ==
  /\ copy[a] \in PayStatuses
  /\ payStatus' = copy[a]
  /\ copy' = [copy EXCEPT ![a] = "saved"]
  /\ UNCHANGED <<rowVars, payLog, attempts, call, gwVars, workerVars, polls>>

-----------------------------------------------------------------------------
RequestNext ==
  \E k \in Keys :
    \/ \E s \in SUBSET Units : CreateRefund(k, s)
    \/ CallGateway(k)
    \/ FinishRefund(k)
    \/ RequestCrash(k)
    \/ GatewaySettles(k)

WorkerStep(w) ==
  \/ ReconcileList(w)
  \/ ReconcileRead(w)
  \/ ReconcileCap(w)
  \/ ReconcileQuery(w)
  \/ ReconcileReplay(w)
  \/ ReconcileWrite(w)
  \/ ReconcileCount(w)

ReconcileNext == \E w \in Workers : WorkerStep(w)

CrashNext == \E w \in Workers : WorkerCrash(w)

OtherNext ==
  \/ CompleteRefund
  \/ \E status \in {"failed", "cancelled", "refunded"} : Webhook(status)
  \/ \E p \in Polls, status \in {"success", "failed", "cancelled"} : PollSaves(p, status)
  \/ \E a \in Admins : OrderRead(a) \/ OrderSave(a)

Next == RequestNext \/ ReconcileNext \/ CrashNext \/ OtherNext

Spec == Init /\ [][Next]_vars

\* Celery Beat schedules the reconciliation every five minutes and a worker that
\* is alive goes through its batch.
ReconcileFairness == \A w \in Workers : WF_vars(WorkerStep(w))

FairSpec == Init /\ [][RequestNext \/ ReconcileNext \/ OtherNext]_vars /\ ReconcileFairness
-----------------------------------------------------------------------------
\* No unit of the payment is promised to two refunds that may both be paid out.
NeverOverReserved ==
  \A j, k \in Keys :
    j # k /\ row[j] \in Live /\ row[k] \in Live => part[j] \cap part[k] = {}

\* A refund counts as succeeded only if the gateway paid it out.
SuccessIsReal == \A k \in Keys : row[k] = "succeeded" => gw[k] = "refunded"

\* What the refunds of the payment add up to.
LedgerStatus ==
  IF UnitsOf(row, {"succeeded"}) = Units THEN "refunded"
  ELSE IF \E k \in Keys : row[k] \in Open THEN "refunding"
  ELSE IF UnitsOf(row, {"succeeded"}) # {} THEN "partially_refunded"
  ELSE "paid"

\* Every step of a refund leaves the order's payment status at what all the refunds add up to,
\* whatever complete_refund, a webhook, a poll or a stale save had put there before, and the
\* last one closes the payment; the coupon goes back with that step and no other.
BooksFollowRefunds ==
  [][/\ row' # row =>
          /\ payStatus' = LedgerStatus'
          /\ LedgerStatus' = "refunded" => payLog' = "refunded"
     /\ coupon' # coupon => LedgerStatus # "refunded" /\ LedgerStatus' = "refunded"]_vars

\* base.py:16 "The gateway explicitly rejected the refund and no refund was
\* created": short of running out of attempts, a refund is failed only when it
\* never reached the gateway or was refused there: nothing was or will be paid.
FailureIsReal == \A k \in Keys : row[k] = "failed" /\ k \notin capped => gw[k] \in {"none", "refused"}

\* serializers.py:38 "the client's refund idempotency key": a refund is paid out
\* at most once, however often it is sent to the gateway.
PaidOutOnce == \A k \in Keys : times[k] <= 1

\* A decided refund stays decided.
DecidedIsFinal ==
  [][\A k \in Keys : row[k] \in {"succeeded", "failed"} => row'[k] = row[k]]_vars

\* The ledger as RefundPromise sees it: pending and unknown rows are asked for, and only live
\* rows hold units.
Phase(st) == CASE st \in Open        -> "asked"
               [] st = "succeeded" -> "returned"
               [] st = "failed"    -> "declined"
               [] OTHER            -> st

Share(k) == IF row[k] \in Live THEN part[k] ELSE {}

Promise == INSTANCE RefundPromise WITH
  phase  <- [k \in Keys |-> Phase(row[k])],
  share  <- [k \in Keys |-> Share(k)],
  moved  <- {k \in Keys : gw[k] = "refunded"},
  closed <- UnitsOf(row, {"succeeded"}) = Units

\* Refunds are asked for, paid out and answered only as RefundPromise allows: an answer is
\* final, comes after the money, and ends the asking with the last unit, whichever of the
\* request, its retries and the overlapping workers writes it.
ImplementsRefundPromise == Promise!RefundSpec

\* A refund of unknown outcome is eventually decided, even when several workers
\* reconcile it at once and overwrite each other's attempt counter.
UnknownIsResolved ==
  \A k \in Keys : row[k] = "unknown" ~> row[k] \in {"succeeded", "failed"}
=============================================================================
