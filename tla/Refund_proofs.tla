---------------------------- MODULE Refund_proofs ----------------------------
(***************************************************************************)
(* What Refund promises for any number of refunds, units and workers and   *)
(* any attempt limit.                                                      *)
(*                                                                         *)
(* Three invariants carry it.  Ownership says who may still write a row:   *)
(* the request that reserved it while it is pending, workers only once it  *)
(* has been unknown.  Truth says that every answer in flight is true of    *)
(* the gateway, and Closed, for gateways that honour request ids and report *)
(* only rejections as such, that a refusal stays one.                      *)
(***************************************************************************)
EXTENDS Refund, TLAPS

USE MaxAssumption, KeyAssumption, GatewayAssumption

Holds(w, k) == k \in batch[w] \/ job[w].key = k

Ownership ==
  /\ TypeOK
  /\ \A k \in Keys :
       /\ call[k] # "idle" => row[k] = "pending"
       /\ call[k] = "ready" \/ row[k] = "none" => gw[k] = "none"
       /\ row[k] \in {"none", "pending"} => \A w \in Workers : ~Holds(w, k)

Truth ==
  /\ SuccessIsReal
  /\ \A k \in Keys : call[k] = "succeeded" => gw[k] = "refunded"
  /\ \A w \in Workers : job[w].reply = "succeeded" => gw[job[w].key] = "refunded"

PaidOnce == \A k \in Keys : times[k] = IF gw[k] = "refunded" THEN 1 ELSE 0

Closed ==
  /\ FailureIsReal
  /\ \A k \in Keys :
       /\ call[k] = "failed" => gw[k] \in {"none", "refused"}
       /\ row[k] = "failed" /\ k \notin capped /\ gw[k] = "none"
            => \A w \in Workers : ~Holds(w, k)
  /\ \A w \in Workers : job[w].reply = "failed" => gw[job[w].key] = "refused"

Booked ==
  /\ NeverOverReserved
  /\ \A k \in Keys : row[k] # "none" => part[k] # {}

-----------------------------------------------------------------------------
(* Types *)

LEMMA TypeInit == Init => TypeOK
  BY DEF Init, TypeOK, Jobs, NoJob, PayStatuses

\* A job advances, hears or is released within its type.
LEMMA JobTypes ==
  ASSUME TypeOK, NEW w \in Workers, job[w].at \in Steps,
         NEW step \in Steps, NEW reply \in Replies
  PROVE  /\ Advance(w, step) => job' \in [Workers -> Jobs]
         /\ Hear(w, step, reply) => job' \in [Workers -> Jobs]
  BY DEF TypeOK, Jobs, Steps, NoJob, Advance, Hear

LEMMA ReleaseType ==
  ASSUME TypeOK, NEW w \in Workers, Release(w)
  PROVE  job' \in [Workers -> Jobs]
  BY DEF TypeOK, Jobs, Release

LEMMA FinalizeTypes ==
  ASSUME TypeOK, NEW k \in Keys, NEW st \in {"unknown", "succeeded", "failed"}, Finalize(k, st)
  PROVE  /\ row' \in [Keys -> {"none", "pending", "unknown", "succeeded", "failed"}]
         /\ payLog' \in {"success", "failed", "cancelled", "refunded"}
         /\ payStatus' \in PayStatuses
         /\ coupon' \in {"used", "returned"}
  BY DEF TypeOK, Finalize, OrderAfter, PayStatuses

LEMMA GatewayTypes ==
  ASSUME TypeOK, NEW k \in Keys, NEW reply,
         GatewayTakes(k, reply) \/ GatewaySilent(reply)
  PROVE  /\ gw' \in [Keys -> {"none", "processing", "refunded", "refused"}]
         /\ times' \in [Keys -> 0..2]
  BY DEF TypeOK, GatewayTakes, GatewaySilent, gwVars, Once

\* The other writers of the status columns leave refunds, requests, workers and gateway alone.
LEMMA OthersTouch ==
  ASSUME OtherNext
  PROVE  UNCHANGED <<rowVars, attempts, call, gwVars, workerVars>>
  BY DEF OtherNext, CompleteRefund, Webhook, PollSaves, OrderRead, OrderSave, ledgerVars

LEMMA TypeNext == TypeOK /\ [Next]_vars => TypeOK'
<1> SUFFICES ASSUME TypeOK, [Next]_vars PROVE TypeOK'
  OBVIOUS
<1>1. ASSUME NEW k \in Keys, NEW s \in SUBSET Units, CreateRefund(k, s) PROVE TypeOK'
  BY <1>1 DEF TypeOK, CreateRefund, gwVars, workerVars, otherVars, PayStatuses
<1>2. ASSUME NEW k \in Keys, CallGateway(k) PROVE TypeOK'
  <2>1. call' \in [Keys -> {"idle", "ready"} \cup Replies]
    BY <1>2 DEF TypeOK, CallGateway
  <2>2. /\ gw' \in [Keys -> {"none", "processing", "refunded", "refused"}]
        /\ times' \in [Keys -> 0..2]
    BY <1>2, GatewayTypes DEF TypeOK, CallGateway, gwVars
  <2> QED
    BY <1>2, <2>1, <2>2 DEF TypeOK, CallGateway, ledgerVars, rowVars, workerVars, otherVars
<1>3. ASSUME NEW k \in Keys, FinishRefund(k) PROVE TypeOK'
  <2>1. Classify(call[k]) \in {"unknown", "succeeded", "failed"}
    BY DEF Classify
  <2>2. hasId' \in SUBSET Keys
    BY <1>3 DEF TypeOK, FinishRefund, Record
  <2> QED
    BY <1>3, <2>1, <2>2, FinalizeTypes DEF TypeOK, FinishRefund, Record, gwVars, workerVars, otherVars
<1>4. ASSUME NEW k \in Keys, RequestCrash(k) PROVE TypeOK'
  BY <1>4 DEF TypeOK, RequestCrash, ledgerVars, rowVars, gwVars, workerVars, otherVars
<1>5. ASSUME NEW k \in Keys, GatewaySettles(k) PROVE TypeOK'
  BY <1>5 DEF TypeOK, GatewaySettles, Once, ledgerVars, rowVars, workerVars, otherVars
<1>6. ASSUME NEW w \in Workers, ReconcileList(w) PROVE TypeOK'
  BY <1>6 DEF TypeOK, ReconcileList, ledgerVars, rowVars, gwVars, otherVars
<1>7. ASSUME NEW w \in Workers, ReconcileRead(w) PROVE TypeOK'
  <2>1. PICK k \in Keys :
          /\ k \in batch[w]
          /\ batch' = [batch EXCEPT ![w] = @ \ {k}]
          /\ job' = [job EXCEPT ![w] =
                       [at    |-> IF attempts[k] >= MaxAttempts THEN "cap" ELSE "query",
                        key   |-> k, tries |-> attempts[k], id |-> k \in hasId,
                        reply |-> "lost"]]
    BY <1>7 DEF TypeOK, ReconcileRead
  <2>2. job' \in [Workers -> Jobs]
    <3>1. attempts[k] \in 0..MaxAttempts /\ MaxAttempts \in Nat
      BY <2>1 DEF TypeOK
    <3>2. CASE attempts[k] >= MaxAttempts
      <4>1. attempts[k] = MaxAttempts
        BY <3>1, <3>2
      <4> QED
        BY <2>1, <3>2, <4>1 DEF TypeOK, Jobs, Replies
    <3>3. CASE ~(attempts[k] >= MaxAttempts)
      <4>1. attempts[k] \in 0..(MaxAttempts - 1)
        BY <3>1, <3>3
      <4> QED
        BY <2>1, <3>3, <4>1 DEF TypeOK, Jobs, Steps, Replies
    <3> QED
      BY <3>2, <3>3
  <2>3. batch' \in [Workers -> SUBSET Keys]
    BY <2>1 DEF TypeOK
  <2> QED
    BY <1>7, <2>2, <2>3 DEF TypeOK, ReconcileRead, ledgerVars, rowVars, gwVars, otherVars
<1>8. ASSUME NEW w \in Workers, ReconcileCap(w) PROVE TypeOK'
  <2>1. job[w] # NoJob /\ job[w].key \in Keys
    BY <1>8 DEF TypeOK, ReconcileCap, Jobs, NoJob
  <2>2. job' \in [Workers -> Jobs]
    BY <1>8, ReleaseType DEF ReconcileCap
  <2>3. capped' \in SUBSET Keys
    BY <1>8, <2>1 DEF TypeOK, ReconcileCap
  <2> QED
    BY <1>8, <2>1, <2>2, <2>3, FinalizeTypes DEF TypeOK, ReconcileCap, gwVars, otherVars
<1>9. ASSUME NEW w \in Workers, ReconcileQuery(w) PROVE TypeOK'
  <2>1. job[w].at \in Steps
    BY <1>9 DEF ReconcileQuery, Steps
  <2>2. Told(gw[job[w].key]) \subseteq Replies
    BY DEF Told, Replies
  <2>3. job' \in [Workers -> Jobs]
    BY <1>9, <2>1, <2>2, JobTypes DEF ReconcileQuery, Steps, Replies
  <2> QED
    BY <1>9, <2>3 DEF TypeOK, ReconcileQuery, ledgerVars, rowVars, gwVars, otherVars
<1>10. ASSUME NEW w \in Workers, ReconcileReplay(w) PROVE TypeOK'
  <2>1. job[w].at \in Steps /\ job[w].key \in Keys
    BY <1>10 DEF TypeOK, ReconcileReplay, Jobs, NoJob, Steps
  <2>2. job' \in [Workers -> Jobs]
    BY <1>10, <2>1, JobTypes DEF ReconcileReplay, Steps
  <2>3. /\ gw' \in [Keys -> {"none", "processing", "refunded", "refused"}]
        /\ times' \in [Keys -> 0..2]
    BY <1>10, <2>1, GatewayTypes DEF TypeOK, ReconcileReplay, gwVars
  <2> QED
    BY <1>10, <2>2, <2>3 DEF TypeOK, ReconcileReplay, ledgerVars, rowVars, otherVars
<1>11. ASSUME NEW w \in Workers, ReconcileWrite(w) PROVE TypeOK'
  <2>1. job[w].at \in Steps /\ job[w].key \in Keys
    BY <1>11 DEF TypeOK, ReconcileWrite, Jobs, NoJob, Steps
  <2>2. job' \in [Workers -> Jobs]
    BY <1>11, <2>1, JobTypes, ReleaseType DEF ReconcileWrite, Steps, Replies
  <2>3. Classify(job[w].reply) \in {"unknown", "succeeded", "failed"}
    BY DEF Classify
  <2>4. hasId' \in SUBSET Keys
    BY <1>11, <2>1 DEF TypeOK, ReconcileWrite, Record
  <2> QED
    BY <1>11, <2>1, <2>2, <2>3, <2>4, FinalizeTypes
       DEF TypeOK, ReconcileWrite, Record, gwVars, otherVars
<1>12. ASSUME NEW w \in Workers, ReconcileCount(w) PROVE TypeOK'
  <2>1. job[w].key \in Keys /\ job[w].tries \in 0..(MaxAttempts - 1)
    BY <1>12 DEF TypeOK, ReconcileCount, Jobs, NoJob
  <2>2. attempts' \in [Keys -> 0..MaxAttempts]
    BY <1>12, <2>1 DEF TypeOK, ReconcileCount
  <2>3. job' \in [Workers -> Jobs]
    BY <1>12, ReleaseType DEF ReconcileCount
  <2> QED
    BY <1>12, <2>2, <2>3 DEF TypeOK, ReconcileCount, ledgerVars, rowVars, gwVars, otherVars
<1>13. ASSUME NEW w \in Workers, WorkerCrash(w) PROVE TypeOK'
  BY <1>13 DEF TypeOK, WorkerCrash, Release, Jobs, ledgerVars, rowVars, gwVars, otherVars
<1>14. CASE UNCHANGED vars
  BY <1>14 DEF TypeOK, vars, ledgerVars, rowVars, gwVars, workerVars, otherVars
<1>15. CASE OtherNext
  <2>1. payLog' \in {"success", "failed", "cancelled", "refunded"}
    BY <1>15 DEF TypeOK, OtherNext, CompleteRefund, Webhook, PollSaves, OrderRead, OrderSave,
                ledgerVars
  <2>2. payStatus' \in PayStatuses
    BY <1>15 DEF TypeOK, OtherNext, CompleteRefund, Webhook, PollSaves, OrderRead, OrderSave,
                ledgerVars, PayStatuses
  <2>3. copy' \in [Admins -> PayStatuses \cup {"none", "saved"}] /\ polls' \in SUBSET Polls
    BY <1>15 DEF TypeOK, OtherNext, CompleteRefund, Webhook, PollSaves, OrderRead, OrderSave,
                otherVars
  <2> QED
    BY <1>15, <2>1, <2>2, <2>3, OthersTouch DEF TypeOK, rowVars, gwVars, workerVars
<1> QED
  BY <1>1, <1>2, <1>3, <1>4, <1>5, <1>6, <1>7, <1>8, <1>9, <1>10, <1>11, <1>12, <1>13,
     <1>14, <1>15 DEF Next, RequestNext, ReconcileNext, CrashNext, WorkerStep

-----------------------------------------------------------------------------
(* Ownership *)

\* A job that goes on, or ends, holds no row it did not hold.
LEMMA HoldsNoMore ==
  ASSUME TypeOK, UNCHANGED batch, NEW w \in Workers,
         \/ Release(w)
         \/ \E step \in Steps : Advance(w, step)
         \/ \E step \in Steps, reply \in Replies : Hear(w, step, reply)
  PROVE  \A v \in Workers, k \in Keys : Holds(v, k)' => Holds(v, k)
<1>1. CASE Release(w)
  BY <1>1 DEF TypeOK, Release, Holds, NoJob
<1>2. ASSUME NEW step \in Steps, Advance(w, step)
      PROVE  \A v \in Workers : job'[v].key = job[v].key
  <2>1. job'[w].key = job[w].key
    BY <1>2 DEF TypeOK, Advance, Jobs, NoJob
  <2>2. \A v \in Workers : v # w => job'[v] = job[v]
    BY <1>2 DEF TypeOK, Advance
  <2> QED
    BY <2>1, <2>2
<1>3. ASSUME NEW step \in Steps, NEW reply \in Replies, Hear(w, step, reply)
      PROVE  \A v \in Workers : job'[v].key = job[v].key
  <2>1. job'[w].key = job[w].key
    BY <1>3 DEF TypeOK, Hear, Jobs, NoJob
  <2>2. \A v \in Workers : v # w => job'[v] = job[v]
    BY <1>3 DEF TypeOK, Hear
  <2> QED
    BY <2>1, <2>2
<1> QED
  BY <1>1, <1>2, <1>3 DEF Holds

LEMMA OwnershipInit == Init => Ownership
  BY TypeInit DEF Init, Ownership, Holds, NoJob

LEMMA OwnershipNext == Ownership /\ [Next]_vars => Ownership'
<1> SUFFICES ASSUME Ownership, [Next]_vars PROVE Ownership'
  OBVIOUS
<1>0. TypeOK /\ TypeOK'
  BY TypeNext DEF Ownership
<1> DEFINE Kept == \A w \in Workers, k \in Keys : Holds(w, k)' => Holds(w, k)
<1> HIDE DEF Kept
<1>1. ASSUME NEW k \in Keys, NEW s \in SUBSET Units, CreateRefund(k, s) PROVE Ownership'
  BY <1>0, <1>1 DEF Ownership, TypeOK, CreateRefund, Holds, gwVars, workerVars
<1>2. ASSUME NEW k \in Keys, CallGateway(k) PROVE Ownership'
  <2>1. \A j \in Keys : j # k => gw'[j] = gw[j] /\ call'[j] = call[j]
    BY <1>0, <1>2 DEF TypeOK, CallGateway, GatewayTakes, GatewaySilent, gwVars
  <2>2. call'[k] \in Replies /\ row[k] = "pending"
    BY <1>0, <1>2 DEF Ownership, TypeOK, CallGateway
  <2> QED
    BY <1>0, <1>2, <2>1, <2>2
       DEF Ownership, CallGateway, Holds, Replies, ledgerVars, rowVars, workerVars
<1>3. ASSUME NEW k \in Keys, FinishRefund(k) PROVE Ownership'
  <2>1. \A j \in Keys : j # k => row'[j] = row[j] /\ call'[j] = call[j]
    BY <1>0, <1>3 DEF TypeOK, FinishRefund, Record, Finalize
  <2>2. call'[k] = "idle" /\ row'[k] \in {"unknown", "succeeded", "failed"}
    BY <1>0, <1>3 DEF Ownership, TypeOK, FinishRefund, Record, Finalize, Classify, Open, Replies
  <2> QED
    BY <1>0, <1>3, <2>1, <2>2 DEF Ownership, FinishRefund, Holds, gwVars, workerVars
<1>4. ASSUME NEW k \in Keys, RequestCrash(k) PROVE Ownership'
  BY <1>0, <1>4 DEF Ownership, TypeOK, RequestCrash, Holds, ledgerVars, rowVars, gwVars, workerVars
<1>5. ASSUME NEW k \in Keys, GatewaySettles(k) PROVE Ownership'
  BY <1>0, <1>5 DEF Ownership, TypeOK, GatewaySettles, Holds, ledgerVars, rowVars, workerVars
<1>6. ASSUME NEW w \in Workers, ReconcileList(w) PROVE Ownership'
  BY <1>0, <1>6 DEF Ownership, TypeOK, ReconcileList, Holds, ledgerVars, rowVars, gwVars
\* The remaining steps are of workers, on rows they already hold.
<1>7. ASSUME Kept, UNCHANGED call,
             \A k \in Keys : row'[k] # row[k] => row'[k] \in {"unknown", "succeeded", "failed"},
             \A k \in Keys : row[k] \in {"none", "pending"} => row'[k] = row[k] /\ gw'[k] = gw[k]
      PROVE  Ownership'
  BY <1>0, <1>7 DEF Ownership, TypeOK, Kept
<1>8. ASSUME NEW w \in Workers, ReconcileRead(w) PROVE Ownership'
  <2>1. Kept
    BY <1>0, <1>8 DEF TypeOK, Kept, ReconcileRead, Holds
  <2> QED
    BY <1>7, <1>8, <2>1 DEF ReconcileRead, ledgerVars, rowVars, gwVars
<1>9. ASSUME NEW w \in Workers, ReconcileCap(w) PROVE Ownership'
  <2>1. Kept
    BY <1>0, <1>9 DEF TypeOK, Kept, ReconcileCap, Release, Holds, NoJob
  <2>2. job[w].key \in Keys /\ Holds(w, job[w].key)
    BY <1>0, <1>9 DEF TypeOK, ReconcileCap, Jobs, NoJob, Holds
  <2> QED
    BY <1>0, <1>7, <1>9, <2>1, <2>2 DEF Ownership, TypeOK, ReconcileCap, Finalize, gwVars
<1>10. ASSUME NEW w \in Workers, ReconcileQuery(w) PROVE Ownership'
  <2>1. Kept
    <3>1. Told(gw[job[w].key]) \subseteq Replies
      BY DEF Told, Replies
    <3> QED
      BY <1>0, <1>10, <3>1, HoldsNoMore DEF Kept, ReconcileQuery, Steps
  <2> QED
    BY <1>7, <1>10, <2>1 DEF ReconcileQuery, ledgerVars, rowVars, gwVars
<1>11. ASSUME NEW w \in Workers, ReconcileReplay(w) PROVE Ownership'
  <2>1. Kept
    BY <1>0, <1>11 DEF TypeOK, Kept, ReconcileReplay, Hear, Holds
  <2>2. job[w].key \in Keys /\ Holds(w, job[w].key)
    BY <1>0, <1>11 DEF TypeOK, ReconcileReplay, Jobs, NoJob, Holds
  <2>3. \A k \in Keys : k # job[w].key => gw'[k] = gw[k]
    BY <1>0, <1>11, <2>2 DEF TypeOK, ReconcileReplay, GatewayTakes, GatewaySilent, gwVars
  <2> QED
    BY <1>7, <1>11, <2>1, <2>2, <2>3 DEF Ownership, ReconcileReplay, ledgerVars, rowVars
<1>12. ASSUME NEW w \in Workers, ReconcileWrite(w) PROVE Ownership'
  <2>1. Kept
    BY <1>0, <1>12, HoldsNoMore DEF Kept, ReconcileWrite, Steps
  <2>2. job[w].key \in Keys /\ Holds(w, job[w].key)
    BY <1>0, <1>12 DEF TypeOK, ReconcileWrite, Jobs, NoJob, Holds
  <2>3. Classify(job[w].reply) \in {"unknown", "succeeded", "failed"}
    BY DEF Classify
  <2> QED
    BY <1>0, <1>7, <1>12, <2>1, <2>2, <2>3
       DEF Ownership, TypeOK, ReconcileWrite, Record, Finalize, gwVars
<1>13. ASSUME NEW w \in Workers, ReconcileCount(w) PROVE Ownership'
  <2>1. Kept
    BY <1>0, <1>13 DEF TypeOK, Kept, ReconcileCount, Release, Holds, NoJob
  <2> QED
    BY <1>7, <1>13, <2>1 DEF ReconcileCount, ledgerVars, rowVars, gwVars
<1>14. ASSUME NEW w \in Workers, WorkerCrash(w) PROVE Ownership'
  <2>1. Kept
    BY <1>0, <1>14 DEF TypeOK, Kept, WorkerCrash, Release, Holds, NoJob
  <2> QED
    BY <1>7, <1>14, <2>1 DEF WorkerCrash, ledgerVars, rowVars, gwVars
<1>15. CASE UNCHANGED vars
  BY <1>0, <1>15 DEF Ownership, Holds, vars, ledgerVars, rowVars, gwVars, workerVars
<1>16. CASE OtherNext
  BY <1>0, <1>16, OthersTouch DEF Ownership, Holds, rowVars, gwVars, workerVars
<1> QED
  BY <1>1, <1>2, <1>3, <1>4, <1>5, <1>6, <1>8, <1>9, <1>10, <1>11, <1>12, <1>13, <1>14,
     <1>15, <1>16 DEF Next, RequestNext, ReconcileNext, CrashNext, WorkerStep

-----------------------------------------------------------------------------
(* Truth *)

\* What a request can do at the gateway.
LEMMA GatewayStep ==
  ASSUME TypeOK, NEW k \in Keys, NEW reply \in Replies,
         GatewayTakes(k, reply) \/ GatewaySilent(reply)
  PROVE  /\ \A j \in Keys : j # k => gw'[j] = gw[j]
         /\ gw[k] = "refunded" => gw'[k] = "refunded"
         /\ reply = "succeeded" => gw'[k] = "refunded"
  BY DEF TypeOK, GatewayTakes, GatewaySilent, Told, gwVars

\* What has been paid out stays so.
LEMMA RefundedStays ==
  ASSUME TypeOK, [Next]_vars, NEW k \in Keys, gw[k] = "refunded"
  PROVE  gw'[k] = "refunded"
<1>1. ASSUME NEW j \in Keys, CallGateway(j) PROVE gw'[k] = "refunded"
  BY <1>1, GatewayStep DEF CallGateway, gwVars, Replies
<1>2. ASSUME NEW j \in Keys, GatewaySettles(j) PROVE gw'[k] = "refunded"
  BY <1>2 DEF TypeOK, GatewaySettles
<1>3. ASSUME NEW w \in Workers, ReconcileReplay(w) PROVE gw'[k] = "refunded"
  <2>1. job[w].key \in Keys
    BY <1>3 DEF TypeOK, ReconcileReplay, Jobs, NoJob
  <2> QED
    BY <1>3, <2>1, GatewayStep DEF ReconcileReplay, gwVars
<1>4. CASE UNCHANGED gw
  BY <1>4
<1>5. CASE OtherNext
  BY <1>5, OthersTouch DEF gwVars
<1> QED
  BY <1>1, <1>2, <1>3, <1>4, <1>5
     DEF Next, RequestNext, ReconcileNext, CrashNext, WorkerStep, CreateRefund, FinishRefund,
         RequestCrash, ReconcileList, ReconcileRead, ReconcileCap, ReconcileQuery,
         ReconcileWrite, ReconcileCount, WorkerCrash, vars, gwVars

\* The worker has not heard anything new.
Silent(w) ==
  \/ job'[w].reply = "lost"
  \/ /\ job'[w].reply = job[w].reply
     /\ job'[w].key = job[w].key

\* A step that leaves rows and answers alone keeps Truth.
LEMMA TruthKept ==
  ASSUME Ownership, Truth, [Next]_vars, UNCHANGED <<row, call>>,
         \A w \in Workers : Silent(w),
         \A w \in Workers : job[w].key \in Keys \/ job[w].reply = "lost"
  PROVE  Truth'
  BY RefundedStays DEF Ownership, Truth, SuccessIsReal, Silent

LEMMA JobKeys == ASSUME TypeOK, NEW w \in Workers
                 PROVE  job[w].key \in Keys \/ job[w].reply = "lost"
  BY DEF TypeOK, Jobs, NoJob

LEMMA AdvanceKeeps ==
  ASSUME TypeOK, NEW w \in Workers, NEW step, Advance(w, step)
  PROVE  \A v \in Workers : Silent(v)
<1>1. job'[w].reply = job[w].reply /\ job'[w].key = job[w].key
  BY DEF TypeOK, Advance, Jobs, NoJob
<1>2. \A v \in Workers : v # w => job'[v] = job[v]
  BY DEF TypeOK, Advance
<1> QED
  BY <1>1, <1>2 DEF Silent

LEMMA ReleaseForgets ==
  ASSUME TypeOK, NEW w \in Workers, Release(w)
  PROVE  \A v \in Workers : Silent(v)
<1>1. job'[w].reply = "lost"
  BY DEF TypeOK, Release, NoJob
<1>2. \A v \in Workers : v # w => job'[v] = job[v]
  BY DEF TypeOK, Release
<1> QED
  BY <1>1, <1>2 DEF Silent

LEMMA TruthInit == Init => Truth
  BY DEF Init, Truth, SuccessIsReal, NoJob

LEMMA TruthNext == Ownership /\ Truth /\ [Next]_vars => Truth'
<1> SUFFICES ASSUME Ownership, Truth, [Next]_vars PROVE Truth'
  OBVIOUS
<1>0. TypeOK /\ \A w \in Workers : job[w].key \in Keys \/ job[w].reply = "lost"
  BY JobKeys DEF Ownership
<1>1. ASSUME NEW k \in Keys, NEW s \in SUBSET Units, CreateRefund(k, s) PROVE Truth'
  BY <1>0, <1>1 DEF TypeOK, Truth, SuccessIsReal, CreateRefund, gwVars, workerVars
<1>2. ASSUME NEW k \in Keys, CallGateway(k) PROVE Truth'
  <2>1. PICK reply \in Replies :
          /\ \/ GatewayTakes(k, reply) \/ GatewaySilent(reply)
             \/ reply = "failed" /\ UNCHANGED gwVars
             \/ reply = "failed" /\ GatewayTakes(k, "succeeded") /\ ~Idempotent
          /\ call' = [call EXCEPT ![k] = reply]
    BY <1>2 DEF CallGateway
  <2>2. reply = "succeeded" => gw'[k] = "refunded"
    BY <1>0, <2>1, GatewayStep
  <2>3. \A j \in Keys : call'[j] = "succeeded" => gw'[j] = "refunded"
    BY <1>0, <2>1, <2>2, RefundedStays DEF TypeOK, Truth
  <2> QED
    BY <1>0, <1>2, <2>3, RefundedStays
       DEF Truth, SuccessIsReal, CallGateway, ledgerVars, rowVars, workerVars
<1>3. ASSUME NEW k \in Keys, FinishRefund(k) PROVE Truth'
  <2>1. \A j \in Keys : row'[j] = "succeeded" => row[j] = "succeeded" \/ call[j] = "succeeded"
    BY <1>0, <1>3 DEF TypeOK, FinishRefund, Record, Finalize, Classify
  <2>2. \A j \in Keys : call'[j] = "succeeded" => call[j] = "succeeded"
    BY <1>0, <1>3 DEF TypeOK, FinishRefund
  <2> QED
    BY <1>3, <2>1, <2>2 DEF Truth, SuccessIsReal, FinishRefund, gwVars, workerVars
<1>4. ASSUME NEW k \in Keys, RequestCrash(k) PROVE Truth'
  BY <1>0, <1>4
     DEF TypeOK, Truth, SuccessIsReal, RequestCrash, ledgerVars, rowVars, gwVars, workerVars
<1>5. ASSUME NEW k \in Keys, GatewaySettles(k) PROVE Truth'
  BY <1>0, <1>5, TruthKept DEF Silent, GatewaySettles, ledgerVars, rowVars, workerVars
<1>6. ASSUME NEW w \in Workers, ReconcileList(w) PROVE Truth'
  BY <1>0, <1>6, TruthKept DEF Silent, ReconcileList, ledgerVars, rowVars
<1>7. ASSUME NEW w \in Workers, ReconcileRead(w) PROVE Truth'
  <2>1. job'[w].reply = "lost" /\ \A v \in Workers : v # w => job'[v] = job[v]
    BY <1>0, <1>7 DEF TypeOK, ReconcileRead
  <2>2. \A v \in Workers : Silent(v)
    BY <2>1 DEF Silent
  <2> QED
    BY <1>0, <1>7, <2>2, TruthKept DEF ReconcileRead, ledgerVars, rowVars
<1>8. ASSUME NEW w \in Workers, ReconcileCap(w) PROVE Truth'
  <2>1. \A j \in Keys : row'[j] = "succeeded" => row[j] = "succeeded"
    BY <1>0, <1>8 DEF TypeOK, ReconcileCap, Finalize
  <2>2. \A v \in Workers : Silent(v)
    BY <1>0, <1>8, ReleaseForgets DEF ReconcileCap
  <2> QED
    BY <1>8, <2>1, <2>2 DEF Truth, SuccessIsReal, Silent, ReconcileCap, gwVars
<1>9. ASSUME NEW w \in Workers, ReconcileQuery(w) PROVE Truth'
  <2>1. ASSUME NEW reply \in Told(gw[job[w].key]), Hear(w, "write", reply) PROVE Truth'
    <3>1. reply = "succeeded" => gw[job[w].key] = "refunded"
      BY <2>1 DEF Told
    <3>2. \A v \in Workers : job'[v].reply = "succeeded" => gw[job'[v].key] = "refunded"
      BY <1>0, <2>1, <3>1 DEF TypeOK, Truth, Hear
    <3> QED
      BY <1>9, <3>2 DEF Truth, SuccessIsReal, ReconcileQuery, ledgerVars, rowVars, gwVars
  <2>2. ASSUME NEW step, Advance(w, step) PROVE Truth'
    BY <1>0, <1>9, <2>2, AdvanceKeeps, TruthKept DEF ReconcileQuery, ledgerVars, rowVars
  <2> QED
    BY <1>9, <2>1, <2>2 DEF ReconcileQuery
<1>10. ASSUME NEW w \in Workers, ReconcileReplay(w) PROVE Truth'
  <2>1. PICK reply \in Replies :
          /\ \/ GatewayTakes(job[w].key, reply) \/ GatewaySilent(reply)
             \/ reply = "failed" /\ ~Strict /\ UNCHANGED gwVars
          /\ Hear(w, "write", reply)
    BY <1>10 DEF ReconcileReplay
  <2>2. job[w].key \in Keys
    BY <1>0, <1>10 DEF TypeOK, ReconcileReplay, Jobs, NoJob
  <2>3. reply = "succeeded" => gw'[job[w].key] = "refunded"
    BY <1>0, <2>1, <2>2, GatewayStep
  <2>4. \A v \in Workers : job'[v].reply = "succeeded" => gw'[job'[v].key] = "refunded"
    BY <1>0, <2>1, <2>2, <2>3, RefundedStays DEF TypeOK, Truth, Hear
  <2> QED
    BY <1>0, <1>10, <2>4, RefundedStays DEF Truth, SuccessIsReal, ReconcileReplay, ledgerVars, rowVars
<1>11. ASSUME NEW w \in Workers, ReconcileWrite(w) PROVE Truth'
  <2>1. \A j \in Keys : row'[j] = "succeeded" =>
          row[j] = "succeeded" \/ (j = job[w].key /\ job[w].reply = "succeeded")
    BY <1>0, <1>11 DEF TypeOK, ReconcileWrite, Record, Finalize, Classify
  <2>2. \A v \in Workers : Silent(v)
    <3>1. CASE Release(w)
      BY <1>0, <3>1, ReleaseForgets
    <3>2. CASE Advance(w, "count")
      BY <1>0, <3>2, AdvanceKeeps
    <3> QED
      BY <1>11, <3>1, <3>2 DEF ReconcileWrite
  <2> QED
    BY <1>11, <2>1, <2>2 DEF Truth, SuccessIsReal, Silent, ReconcileWrite, gwVars
<1>12. ASSUME NEW w \in Workers, ReconcileCount(w) PROVE Truth'
  <2>1. Release(w)
    BY <1>12 DEF ReconcileCount
  <2> QED
    BY <1>0, <1>12, <2>1, ReleaseForgets, TruthKept DEF ReconcileCount, ledgerVars, rowVars
<1>13. ASSUME NEW w \in Workers, WorkerCrash(w) PROVE Truth'
  <2>1. Release(w)
    BY <1>13 DEF WorkerCrash
  <2> QED
    BY <1>0, <1>13, <2>1, ReleaseForgets, TruthKept DEF WorkerCrash, ledgerVars, rowVars
<1>14. CASE UNCHANGED vars
  BY <1>14 DEF Truth, SuccessIsReal, vars, ledgerVars, rowVars, gwVars, workerVars
<1>15. CASE OtherNext
  BY <1>15, OthersTouch DEF Truth, SuccessIsReal, rowVars, gwVars, workerVars
<1> QED
  BY <1>1, <1>2, <1>3, <1>4, <1>5, <1>6, <1>7, <1>8, <1>9, <1>10, <1>11, <1>12, <1>13,
     <1>14, <1>15 DEF Next, RequestNext, ReconcileNext, CrashNext, WorkerStep

-----------------------------------------------------------------------------
(* Closed: gateways that honour request ids *)

\* A request for a refund the gateway knows changes nothing there; a new one is
\* paid out once, and told to have failed only if it was refused.
LEMMA IdempotentStep ==
  ASSUME Idempotent, TypeOK, NEW k \in Keys, NEW reply \in Replies,
         GatewayTakes(k, reply) \/ GatewaySilent(reply)
  PROVE  /\ \A j \in Keys : j # k => gw'[j] = gw[j]
         /\ gw[k] # "none" => gw'[k] = gw[k]
         /\ reply = "failed" => gw'[k] = "refused"
         /\ PaidOnce => PaidOnce'
  BY DEF TypeOK, GatewayTakes, GatewaySilent, Told, Once, PaidOnce, gwVars

\* A step that leaves the ledger and the gateway alone keeps Closed.
LEMMA ClosedKept ==
  ASSUME Closed, UNCHANGED <<row, capped, call, gw>>,
         \A w \in Workers : Silent(w),
         \A w \in Workers, k \in Keys : row[k] = "failed" /\ Holds(w, k)' => Holds(w, k)
  PROVE  Closed'
  BY DEF Closed, FailureIsReal, Silent

LEMMA ClosedInit == Init => Closed
  BY DEF Init, Closed, FailureIsReal, NoJob

LEMMA ClosedNext == ASSUME Idempotent, Strict, Ownership, Closed, [Next]_vars PROVE Closed'
<1>0. /\ TypeOK
      /\ \A w \in Workers : job[w].key \in Keys \/ job[w].reply = "lost"
  BY JobKeys DEF Ownership
<1>1. ASSUME NEW k \in Keys, NEW s \in SUBSET Units, CreateRefund(k, s) PROVE Closed'
  BY <1>0, <1>1 DEF TypeOK, Closed, FailureIsReal, CreateRefund, Holds, gwVars, workerVars
<1>2. ASSUME NEW k \in Keys, CallGateway(k) PROVE Closed'
  <2>1. PICK reply \in Replies :
          /\ \/ GatewayTakes(k, reply) \/ GatewaySilent(reply)
             \/ reply = "failed" /\ UNCHANGED gwVars
          /\ call' = [call EXCEPT ![k] = reply]
    BY <1>2 DEF CallGateway
  <2>2. row[k] = "pending" /\ gw[k] = "none"
    BY <1>2 DEF Ownership, CallGateway
  <2>3. \A j \in Keys : j # k => gw'[j] = gw[j]
    BY <1>0, <2>1, IdempotentStep DEF gwVars
  <2>4. reply = "failed" => gw'[k] \in {"none", "refused"}
    BY <1>0, <2>1, <2>2, IdempotentStep DEF gwVars
  <2>5. \A j \in Keys : call'[j] = "failed" => gw'[j] \in {"none", "refused"}
    BY <1>0, <2>1, <2>3, <2>4 DEF TypeOK, Closed
  <2>6. UNCHANGED <<row, capped, batch, job>>
    BY <1>2 DEF CallGateway, ledgerVars, rowVars, workerVars
  <2>7. \A w \in Workers : job[w].reply = "failed" => gw'[job[w].key] = "refused"
    BY <1>0, <2>2, <2>3 DEF Closed
  <2> QED
    BY <2>2, <2>3, <2>5, <2>6, <2>7 DEF Closed, FailureIsReal, Holds
<1>3. ASSUME NEW k \in Keys, FinishRefund(k) PROVE Closed'
  <2>1. /\ row[k] = "pending"
        /\ \A w \in Workers : ~Holds(w, k)
    BY <1>3 DEF Ownership, FinishRefund, Replies
  <2>2. \A j \in Keys : row'[j] = "failed" => row[j] = "failed" \/ (j = k /\ call[j] = "failed")
    BY <1>0, <1>3 DEF TypeOK, FinishRefund, Record, Finalize, Classify
  <2>3. \A j \in Keys : call'[j] = "failed" => call[j] = "failed"
    BY <1>0, <1>3 DEF TypeOK, FinishRefund
  <2> QED
    BY <1>3, <2>1, <2>2, <2>3 DEF Closed, FailureIsReal, FinishRefund, Holds, gwVars, workerVars
<1>4. ASSUME NEW k \in Keys, RequestCrash(k) PROVE Closed'
  BY <1>0, <1>4
     DEF TypeOK, Closed, FailureIsReal, RequestCrash, Holds, ledgerVars, rowVars, gwVars, workerVars
<1>5. ASSUME NEW k \in Keys, GatewaySettles(k) PROVE Closed'
  <2>1. gw[k] = "processing" /\ gw'[k] \in {"refunded", "refused"}
    BY <1>0, <1>5 DEF TypeOK, GatewaySettles
  <2>2. \A j \in Keys : j # k => gw'[j] = gw[j]
    BY <1>0, <1>5 DEF TypeOK, GatewaySettles
  <2>3. UNCHANGED <<row, capped, call, batch, job>>
    BY <1>5 DEF GatewaySettles, ledgerVars, rowVars, workerVars
  <2>4. \A w \in Workers : job[w].reply = "failed" => gw'[job[w].key] = "refused"
    BY <1>0, <2>1, <2>2 DEF Closed
  <2> QED
    BY <2>1, <2>2, <2>3, <2>4 DEF Closed, FailureIsReal, Holds
<1>6. ASSUME NEW w \in Workers, ReconcileList(w) PROVE Closed'
  <2>1. \A v \in Workers, k \in Keys : row[k] = "failed" /\ Holds(v, k)' => Holds(v, k)
    BY <1>0, <1>6 DEF TypeOK, ReconcileList, Holds
  <2> QED
    BY <1>6, <2>1, ClosedKept DEF ReconcileList, Silent, ledgerVars, rowVars, gwVars
<1>7. ASSUME NEW w \in Workers, ReconcileRead(w) PROVE Closed'
  <2>1. job'[w].reply = "lost" /\ \A v \in Workers : v # w => job'[v] = job[v]
    BY <1>0, <1>7 DEF TypeOK, ReconcileRead
  <2>2. \A v \in Workers : Silent(v)
    BY <2>1 DEF Silent
  <2>3. \A v \in Workers, k \in Keys : Holds(v, k)' => Holds(v, k)
    BY <1>0, <1>7 DEF TypeOK, ReconcileRead, Holds
  <2> QED
    BY <1>7, <2>2, <2>3, ClosedKept DEF ReconcileRead, ledgerVars, rowVars, gwVars
<1>8. ASSUME NEW w \in Workers, ReconcileCap(w) PROVE Closed'
  <2>1. /\ \A j \in Keys : row'[j] = "failed" => row[j] = "failed" \/ j \in capped'
        /\ capped \subseteq capped'
    BY <1>0, <1>8 DEF TypeOK, ReconcileCap, Finalize
  <2>2. \A v \in Workers : Silent(v)
    BY <1>0, <1>8, ReleaseForgets DEF ReconcileCap
  <2>3. \A v \in Workers, k \in Keys : Holds(v, k)' => Holds(v, k)
    BY <1>0, <1>8, HoldsNoMore DEF ReconcileCap
  <2> QED
    BY <1>8, <2>1, <2>2, <2>3 DEF Closed, FailureIsReal, Silent, ReconcileCap, gwVars
<1>9. ASSUME NEW w \in Workers, ReconcileQuery(w) PROVE Closed'
  <2>0. Told(gw[job[w].key]) \subseteq Replies
    BY DEF Told, Replies
  <2>1. \A v \in Workers, k \in Keys : Holds(v, k)' => Holds(v, k)
    BY <1>0, <1>9, <2>0, HoldsNoMore DEF ReconcileQuery, Steps
  <2>2. ASSUME NEW reply \in Told(gw[job[w].key]), Hear(w, "write", reply) PROVE Closed'
    <3>1. reply = "failed" => gw[job[w].key] = "refused"
      BY <2>2 DEF Told
    <3>2. \A v \in Workers : job'[v].reply = "failed" => gw[job'[v].key] = "refused"
      BY <1>0, <2>2, <3>1 DEF TypeOK, Closed, Hear
    <3> QED
      BY <1>9, <2>1, <3>2 DEF Closed, FailureIsReal, ReconcileQuery, ledgerVars, rowVars, gwVars
  <2>3. ASSUME NEW step, Advance(w, step) PROVE Closed'
    BY <1>0, <1>9, <2>1, <2>3, AdvanceKeeps, ClosedKept DEF ReconcileQuery, ledgerVars, rowVars, gwVars
  <2> QED
    BY <1>9, <2>2, <2>3 DEF ReconcileQuery
<1>10. ASSUME NEW w \in Workers, ReconcileReplay(w) PROVE Closed'
  <2>1. PICK reply \in Replies :
          /\ \/ GatewayTakes(job[w].key, reply) \/ GatewaySilent(reply)
             \/ reply = "failed" /\ ~Strict /\ UNCHANGED gwVars
          /\ Hear(w, "write", reply)
    BY <1>10 DEF ReconcileReplay
  <2>2. job[w].key \in Keys /\ Holds(w, job[w].key)
    BY <1>0, <1>10 DEF TypeOK, ReconcileReplay, Jobs, NoJob, Holds
  <2>3. /\ \A j \in Keys : gw'[j] # gw[j] => j = job[w].key /\ gw[j] = "none"
        /\ reply = "failed" => gw'[job[w].key] = "refused"
    BY <1>0, <2>1, <2>2, IdempotentStep
  <2>4. UNCHANGED <<row, capped, call>>
    BY <1>10 DEF ReconcileReplay, ledgerVars, rowVars
  <2>5. \A v \in Workers : job'[v].reply = "failed" => gw'[job'[v].key] = "refused"
    <3>1. job'[w].key = job[w].key /\ job'[w].reply = reply
      BY <1>0, <2>1 DEF TypeOK, Hear
    <3>2. \A v \in Workers : v # w => job'[v] = job[v]
      BY <1>0, <2>1 DEF TypeOK, Hear
    <3> QED
      BY <1>0, <2>3, <3>1, <3>2 DEF Closed
  <2>6. \A v \in Workers, k \in Keys : Holds(v, k)' => Holds(v, k)
    BY <1>0, <1>10, <2>1, HoldsNoMore DEF ReconcileReplay, Steps
  <2>7. call[job[w].key] = "idle"
    BY <2>2 DEF Ownership
  <2>8. row[job[w].key] = "failed" => job[w].key \in capped \/ gw[job[w].key] # "none"
    BY <2>2 DEF Closed
  <2> QED
    BY <2>2, <2>3, <2>4, <2>5, <2>6, <2>7, <2>8 DEF Closed, FailureIsReal
<1>11. ASSUME NEW w \in Workers, ReconcileWrite(w) PROVE Closed'
  <2>1. \A j \in Keys : row'[j] = "failed" =>
          row[j] = "failed" \/ (j = job[w].key /\ job[w].reply = "failed")
    BY <1>0, <1>11 DEF TypeOK, ReconcileWrite, Record, Finalize, Classify
  <2>2. \A v \in Workers : Silent(v)
    <3>1. CASE Release(w)
      BY <1>0, <3>1, ReleaseForgets
    <3>2. CASE Advance(w, "count")
      BY <1>0, <3>2, AdvanceKeeps
    <3> QED
      BY <1>11, <3>1, <3>2 DEF ReconcileWrite
  <2>3. \A v \in Workers, k \in Keys : Holds(v, k)' => Holds(v, k)
    BY <1>0, <1>11, HoldsNoMore DEF ReconcileWrite, Steps
  <2> QED
    BY <1>11, <2>1, <2>2, <2>3 DEF Closed, FailureIsReal, Silent, ReconcileWrite, gwVars
<1>12. ASSUME NEW w \in Workers, ReconcileCount(w) \/ WorkerCrash(w) PROVE Closed'
  <2>1. Release(w) /\ UNCHANGED <<row, capped, call, gw>>
    BY <1>12 DEF ReconcileCount, WorkerCrash, ledgerVars, rowVars, gwVars
  <2>2. \A v \in Workers : batch'[v] \subseteq batch[v]
    BY <1>0, <1>12 DEF TypeOK, ReconcileCount, WorkerCrash
  <2>3. \A v \in Workers, k \in Keys : Holds(v, k)' => Holds(v, k)
    BY <1>0, <2>1, <2>2 DEF TypeOK, Release, Holds, NoJob
  <2> QED
    BY <1>0, <2>1, <2>3, ReleaseForgets, ClosedKept
<1>13. CASE UNCHANGED vars
  BY <1>13 DEF Closed, FailureIsReal, Holds, vars, ledgerVars, rowVars, gwVars, workerVars
<1>14. CASE OtherNext
  BY <1>14, OthersTouch DEF Closed, FailureIsReal, Holds, rowVars, gwVars, workerVars
<1> QED
  BY <1>1, <1>2, <1>3, <1>4, <1>5, <1>6, <1>7, <1>8, <1>9, <1>10, <1>11, <1>12, <1>13,
     <1>14 DEF Next, RequestNext, ReconcileNext, CrashNext, WorkerStep

-----------------------------------------------------------------------------
(* Booked *)

\* What Booked speaks of does not change.
LEMMA BookedKept ==
  ASSUME Booked, UNCHANGED <<row, part>>
  PROVE  Booked'
  BY DEF Booked, NeverOverReserved

\* Units that no succeeded row holds are left of the payment.
LEMMA SomeAreLeft ==
  ASSUME NEW s \in SUBSET Units, s # {},
         \A j \in Keys : row[j] = "succeeded" => s \cap part[j] = {}
  PROVE  UnitsOf(row, {"succeeded"}) # Units
<1>1. PICK u \in s : u \in Units
  OBVIOUS
<1>2. u \notin UnitsOf(row, {"succeeded"})
  BY <1>1 DEF UnitsOf
<1> QED
  BY <1>1, <1>2

\* An open row is a part of the payment that has not been refunded yet.
LEMMA OpenIsLeft ==
  ASSUME TypeOK, Booked, NEW k \in Keys, row[k] \in Open
  PROVE  UnitsOf(row, {"succeeded"}) # Units
<1>1. part[k] \in SUBSET Units /\ part[k] # {}
  BY DEF TypeOK, Booked, Open
<1>2. \A j \in Keys : row[j] = "succeeded" => part[k] \cap part[j] = {}
  BY DEF Booked, NeverOverReserved, Live, Open
<1> QED
  BY <1>1, <1>2, SomeAreLeft

\* What BooksFollowRefunds says of one step.
BooksStep ==
  /\ row' # row =>
       /\ payStatus' = LedgerStatus'
       /\ LedgerStatus' = "refunded" => payLog' = "refunded"
  /\ coupon' # coupon => LedgerStatus # "refunded" /\ LedgerStatus' = "refunded"

\* _finalize_refund keeps the books.
LEMMA FinalizeBooks ==
  ASSUME TypeOK, Booked, NEW k \in Keys, NEW st \in {"unknown", "succeeded", "failed"},
         Finalize(k, st), UNCHANGED part
  PROVE  Booked' /\ BooksStep
<1>1. CASE row[k] \notin Open
  <2>1. UNCHANGED <<row, coupon>>
    BY <1>1 DEF Finalize
  <2> QED
    BY <2>1, BookedKept DEF BooksStep
<1>2. CASE row[k] \in Open
  <2> DEFINE r == [row EXCEPT ![k] = st]
  <2>1. row' = r /\ payStatus' = OrderAfter(r, k)
    BY <1>2 DEF Finalize
  <2>2. UnitsOf(row, {"succeeded"}) # Units
    BY <1>2, OpenIsLeft
  <2>3. \A j \in Keys : j # k => row'[j] = row[j]
    BY <2>1 DEF TypeOK
  <2>4. row'[k] = st
    BY <2>1 DEF TypeOK
  <2>5. NeverOverReserved'
    BY <1>2, <2>3, <2>4 DEF Booked, NeverOverReserved, Live, Open
  <2>6. \A j \in Keys : row'[j] # "none" => part'[j] # {}
    BY <1>2, <2>3 DEF Booked, Open
  <2>7. st # "succeeded" => UnitsOf(row', {"succeeded"}) = UnitsOf(row, {"succeeded"})
    BY <1>2, <2>3, <2>4 DEF UnitsOf, Open
  <2>8. payStatus' = LedgerStatus'
    <3>1. LedgerStatus' = IF UnitsOf(row', {"succeeded"}) = Units THEN "refunded"
                          ELSE IF \E j \in Keys : row'[j] \in Open THEN "refunding"
                          ELSE IF UnitsOf(row', {"succeeded"}) # {} THEN "partially_refunded"
                          ELSE "paid"
      BY DEF LedgerStatus, UnitsOf
    <3>2. payStatus' = OrderAfter(row', k)
      BY <2>1
    <3>3. CASE st = "succeeded"
      BY <2>4, <3>1, <3>2, <3>3 DEF OrderAfter
    <3>4. CASE st # "succeeded"
      <4>1. UnitsOf(row', {"succeeded"}) # Units
        BY <2>2, <2>7, <3>4
      <4> QED
        BY <2>4, <3>1, <3>2, <3>4, <4>1 DEF OrderAfter
    <3> QED
      BY <3>3, <3>4
  <2>9. /\ payStatus' = "refunded" => payLog' = "refunded"
        /\ coupon' # coupon => payStatus' = "refunded"
    BY <1>2 DEF Finalize
  <2>10. LedgerStatus # "refunded"
    BY <2>2 DEF LedgerStatus
  <2> QED
    BY <2>5, <2>6, <2>8, <2>9, <2>10 DEF Booked, BooksStep
<1> QED
  BY <1>1, <1>2

\* create_refund reserves what no live row holds, and marks the order as refunding.
LEMMA CreateBooks ==
  ASSUME TypeOK, Booked, NEW k \in Keys, NEW s \in SUBSET Units, CreateRefund(k, s)
  PROVE  Booked' /\ BooksStep
<1>1. /\ row'[k] = "pending" /\ part'[k] = s /\ s # {}
      /\ \A j \in Keys : j # k => row'[j] = row[j] /\ part'[j] = part[j]
      /\ row[k] = "none"
  BY DEF TypeOK, CreateRefund
<1>2. \A j \in Keys : row[j] \in Live => s \cap part[j] = {}
  BY DEF CreateRefund, UnitsOf
<1>3. NeverOverReserved'
  BY <1>1, <1>2 DEF Booked, NeverOverReserved
<1>4. \A j \in Keys : row'[j] # "none" => part'[j] # {}
  BY <1>1 DEF Booked
<1>5. UnitsOf(row, {"succeeded"})' = UnitsOf(row, {"succeeded"})
  BY <1>1 DEF UnitsOf
<1>6. UnitsOf(row, {"succeeded"}) # Units
  BY <1>1, <1>2, SomeAreLeft DEF Live
<1>7. LedgerStatus' = "refunding"
  BY <1>1, <1>5, <1>6 DEF LedgerStatus, Open
<1> QED
  BY <1>3, <1>4, <1>7 DEF Booked, BooksStep, CreateRefund

LEMMA BookedInit == Init => Booked
  BY DEF Init, Booked, NeverOverReserved, Live, Open

LEMMA BookedNext == TypeOK /\ Booked /\ [Next]_vars => Booked' /\ BooksStep
<1> SUFFICES ASSUME TypeOK, Booked, [Next]_vars PROVE Booked' /\ BooksStep
  OBVIOUS
<1>1. ASSUME NEW k \in Keys, NEW s \in SUBSET Units, CreateRefund(k, s)
      PROVE  Booked' /\ BooksStep
  BY <1>1, CreateBooks
<1>2. ASSUME NEW k \in Keys, FinishRefund(k) PROVE Booked' /\ BooksStep
  <2>1. Classify(call[k]) \in {"unknown", "succeeded", "failed"}
    BY DEF Classify
  <2> QED
    BY <1>2, <2>1, FinalizeBooks DEF FinishRefund, Record
<1>3. ASSUME NEW w \in Workers, ReconcileCap(w) PROVE Booked' /\ BooksStep
  <2>1. job[w].key \in Keys
    BY <1>3 DEF TypeOK, ReconcileCap, Jobs, NoJob
  <2> QED
    BY <1>3, <2>1, FinalizeBooks DEF ReconcileCap
<1>4. ASSUME NEW w \in Workers, ReconcileWrite(w) PROVE Booked' /\ BooksStep
  <2>1. job[w].key \in Keys
    BY <1>4 DEF TypeOK, ReconcileWrite, Jobs, NoJob
  <2>2. Classify(job[w].reply) \in {"unknown", "succeeded", "failed"}
    BY DEF Classify
  <2> QED
    BY <1>4, <2>1, <2>2, FinalizeBooks DEF ReconcileWrite, Record
<1>5. CASE UNCHANGED rowVars
  BY <1>5, BookedKept DEF BooksStep, rowVars
<1>6. CASE OtherNext
  BY <1>5, <1>6, OthersTouch
<1> QED
  BY <1>1, <1>2, <1>3, <1>4, <1>5, <1>6
     DEF Next, RequestNext, ReconcileNext, CrashNext, WorkerStep, CallGateway, RequestCrash,
         GatewaySettles, ReconcileList, ReconcileRead, ReconcileQuery, ReconcileReplay,
         ReconcileCount, WorkerCrash, vars, ledgerVars

-----------------------------------------------------------------------------
(* The theorems *)

\* The rows, jobs and statuses stay within their types; in particular no row is
\* tried more often than REFUND_RECONCILIATION_MAX_ATTEMPTS allows, however
\* many workers overwrite its counter.
THEOREM RefundTypeCorrect == Spec => []TypeOK
  BY TypeInit, TypeNext, PTL DEF Spec

LEMMA LedgerInvariant == Spec => [](Ownership /\ Truth /\ Booked)
<1>1. Init => Ownership /\ Truth /\ Booked
  BY OwnershipInit, TruthInit, BookedInit
<1>2. Ownership /\ Truth /\ Booked /\ [Next]_vars => (Ownership /\ Truth /\ Booked)'
  <2>1. Ownership => TypeOK
    BY DEF Ownership
  <2> QED
    BY <2>1, OwnershipNext, TruthNext, BookedNext
<1> QED
  BY <1>1, <1>2, PTL DEF Spec

\* Concurrent refunds, by whatever key, never promise more than was paid.
THEOREM ReservationsAreSafe == Spec => []NeverOverReserved
<1>1. Ownership /\ Truth /\ Booked => NeverOverReserved
  BY DEF Booked
<1> QED
  BY <1>1, LedgerInvariant, PTL

\* A refund recorded as succeeded has been paid out, with any gateway.
THEOREM SuccessesAreReal == Spec => []SuccessIsReal
<1>1. Ownership /\ Truth /\ Booked => SuccessIsReal
  BY DEF Truth
<1> QED
  BY <1>1, LedgerInvariant, PTL

\* Whoever wrote the order's payment status before, the step of a refund that follows sets it
\* to what the refunds add up to, and only the one that returns the last unit closes the
\* payment and gives the coupon back.
THEOREM RefundsKeepBooks == Spec => BooksFollowRefunds
<1>1. Ownership /\ Truth /\ Booked /\ [Next]_vars => [BooksStep]_vars
  BY BookedNext DEF Ownership
<1> QED
  BY <1>1, LedgerInvariant, PTL DEF Spec, BooksFollowRefunds, BooksStep

\* A refund that succeeded or failed is never changed again, by a late answer or
\* by a worker that read it before.
THEOREM DecisionsStay == Spec => DecidedIsFinal
<1>1. TypeOK /\ [Next]_vars =>
        [\A k \in Keys : row[k] \in {"succeeded", "failed"} => row'[k] = row[k]]_vars
  <2> SUFFICES ASSUME TypeOK, [Next]_vars, NEW k \in Keys,
                      row[k] \in {"succeeded", "failed"}
               PROVE  row'[k] = row[k]
    OBVIOUS
  <2>1. ASSUME NEW j, NEW st, Finalize(j, st) PROVE row'[k] = row[k]
    BY <2>1 DEF TypeOK, Finalize, Open
  <2>2. ASSUME NEW j \in Keys, NEW s \in SUBSET Units, CreateRefund(j, s) PROVE row'[k] = row[k]
    BY <2>2 DEF TypeOK, CreateRefund
  <2>3. CASE UNCHANGED row
    BY <2>3
  <2>4. CASE OtherNext
    BY <2>4, OthersTouch DEF rowVars
  <2> QED
    BY <2>1, <2>2, <2>3, <2>4
       DEF Next, RequestNext, ReconcileNext, CrashNext, WorkerStep, CallGateway, FinishRefund,
           RequestCrash, GatewaySettles, ReconcileList, ReconcileRead, ReconcileCap,
           ReconcileQuery, ReconcileReplay, ReconcileWrite, ReconcileCount, WorkerCrash,
           Record, vars, ledgerVars, rowVars
<1> QED
  BY <1>1, RefundTypeCorrect, PTL DEF Spec, DecidedIsFinal

LEMMA PaidNext == ASSUME Idempotent, TypeOK, PaidOnce, [Next]_vars PROVE PaidOnce'
<1>1. ASSUME NEW k \in Keys, NEW reply \in Replies, GatewayTakes(k, reply) PROVE PaidOnce'
  BY <1>1, IdempotentStep
<1>2. ASSUME NEW k \in Keys, CallGateway(k) PROVE PaidOnce'
  BY <1>1, <1>2 DEF CallGateway, GatewaySilent, PaidOnce, gwVars
<1>3. ASSUME NEW k \in Keys, GatewaySettles(k) PROVE PaidOnce'
  BY <1>3 DEF TypeOK, GatewaySettles, Once, PaidOnce
<1>4. ASSUME NEW w \in Workers, ReconcileReplay(w) PROVE PaidOnce'
  <2>1. job[w].key \in Keys
    BY <1>4 DEF TypeOK, ReconcileReplay, Jobs, NoJob
  <2> QED
    BY <1>1, <1>4, <2>1 DEF ReconcileReplay, GatewaySilent, PaidOnce, gwVars
<1>5. CASE UNCHANGED gwVars
  BY <1>5 DEF PaidOnce, gwVars
<1>6. CASE OtherNext
  BY <1>5, <1>6, OthersTouch
<1> QED
  BY <1>2, <1>3, <1>4, <1>5, <1>6
     DEF Next, RequestNext, ReconcileNext, CrashNext, WorkerStep, CreateRefund, FinishRefund,
         RequestCrash, ReconcileList, ReconcileRead, ReconcileCap, ReconcileQuery,
         ReconcileWrite, ReconcileCount, WorkerCrash, vars

\* Where request ids are honoured no refund is paid out twice, whatever is lost,
\* repeated or replayed by overlapping workers.
THEOREM NothingPaidTwice == ASSUME Idempotent PROVE Spec => []PaidOutOnce
<1>1. Init => TypeOK /\ PaidOnce
  BY TypeInit DEF Init, PaidOnce
<1>2. TypeOK /\ PaidOnce /\ [Next]_vars => (TypeOK /\ PaidOnce)'
  BY TypeNext, PaidNext
<1>3. TypeOK /\ PaidOnce => PaidOutOnce
  BY DEF PaidOnce, PaidOutOnce
<1> QED
  BY <1>1, <1>2, <1>3, PTL DEF Spec

\* ... and if it reports nothing but rejections as such, only running out of
\* attempts can fail a refund that was paid out.
THEOREM FailuresAreReal == ASSUME Idempotent, Strict PROVE Spec => []FailureIsReal
<1>1. Init => Ownership /\ Closed
  BY OwnershipInit, ClosedInit
<1>2. Ownership /\ Closed /\ [Next]_vars => (Ownership /\ Closed)'
  BY OwnershipNext, ClosedNext
<1>3. Ownership /\ Closed => FailureIsReal
  BY DEF Closed
<1> QED
  BY <1>1, <1>2, <1>3, PTL DEF Spec

\* No unit of the payment goes back twice: the gateway has paid no refund out twice, and no two
\* refunds with a unit in common, unless one of them was given up after too many attempts.
NoUnitTwice ==
  /\ \A k \in Keys : times[k] <= 1
  /\ \A j, k \in Keys :
       j # k /\ {gw[j], gw[k]} \subseteq {"processing", "refunded"}
         => part[j] \cap part[k] = {} \/ j \in capped \/ k \in capped

\* What the reservations, the answers and the request ids come to together, for a gateway
\* like Stripe: whatever is lost, retried, replayed or reconciled twice, money leaves once.
THEOREM MoneyLeavesOnce == ASSUME Idempotent, Strict PROVE Spec => []NoUnitTwice
<1>1. Ownership /\ Booked /\ FailureIsReal /\ PaidOutOnce => NoUnitTwice
  <2> SUFFICES ASSUME Ownership, Booked, FailureIsReal, PaidOutOnce,
                      NEW j \in Keys, NEW k \in Keys, j # k,
                      gw[j] \in {"processing", "refunded"}, gw[k] \in {"processing", "refunded"},
                      j \notin capped, k \notin capped
               PROVE  part[j] \cap part[k] = {}
    BY DEF NoUnitTwice, PaidOutOnce
  <2>1. row[j] \in Live /\ row[k] \in Live
    BY DEF Ownership, FailureIsReal, TypeOK, Live, Open
  <2> QED
    BY <2>1 DEF Booked, NeverOverReserved
<1> QED
  BY <1>1, LedgerInvariant, FailuresAreReal, NothingPaidTwice, PTL

-----------------------------------------------------------------------------
(* RefundPromise *)

\* A step that only the gateway takes, for a refund that has been asked for.
LEMMA GatewayMoves ==
  ASSUME TypeOK, NEW k \in Keys, row[k] # "none",
         \A j \in Keys : j # k => gw'[j] = gw[j], gw[k] = "refunded" => gw'[k] = "refunded",
         UNCHANGED ledgerVars
  PROVE  Promise!Move(k) \/ UNCHANGED Promise!refundVars
<1> DEFINE moved == {j \in Keys : gw[j] = "refunded"}
<1>1. UNCHANGED <<row, part, coupon>>
  BY DEF ledgerVars, rowVars
<1>2. /\ [j \in Keys |-> Phase(row[j])]' = [j \in Keys |-> Phase(row[j])]
      /\ [j \in Keys |-> Share(j)]' = [j \in Keys |-> Share(j)]
      /\ (UnitsOf(row, {"succeeded"}) = Units)' = (UnitsOf(row, {"succeeded"}) = Units)
  BY <1>1 DEF Share, UnitsOf
<1>3. CASE gw'[k] = "refunded" /\ gw[k] # "refunded"
  <2>1. moved' = moved \cup {k} /\ k \notin moved
    BY <1>3
  <2>2. Phase(row[k]) # "none"
    BY DEF TypeOK, Phase, Open
  <2> QED
    BY <1>1, <1>2, <2>1, <2>2 DEF Promise!Move
<1>4. CASE ~(gw'[k] = "refunded" /\ gw[k] # "refunded")
  <2>1. moved' = moved
    BY <1>4
  <2> QED
    BY <1>1, <1>2, <2>1 DEF Promise!refundVars
<1> QED
  BY <1>3, <1>4

\* _finalize_refund answers a refund that is open, once, and a success after the money.
LEMMA FinalizeAnswers ==
  ASSUME TypeOK, Booked, NEW k \in Keys, NEW st \in {"unknown", "succeeded", "failed"},
         Finalize(k, st), UNCHANGED <<part, gw>>, st = "succeeded" => gw[k] = "refunded"
  PROVE  Promise!Return(k) \/ Promise!Decline(k) \/ UNCHANGED Promise!refundVars
<1> DEFINE phase == [j \in Keys |-> Phase(row[j])]
           share == [j \in Keys |-> Share(j)]
           moved == {j \in Keys : gw[j] = "refunded"}
           closed == UnitsOf(row, {"succeeded"}) = Units
<1>1. moved' = moved
  OBVIOUS
<1>2. CASE row[k] \notin Open
  <2>1. UNCHANGED <<row, coupon>>
    BY <1>2 DEF Finalize
  <2> QED
    BY <1>1, <2>1 DEF Promise!refundVars, Share, UnitsOf
<1>3. CASE row[k] \in Open
  <2> DEFINE r == [row EXCEPT ![k] = st]
  <2>1. row' = r /\ payStatus' = OrderAfter(r, k)
    BY <1>3 DEF Finalize
  <2>2. /\ Phase(row[k]) = "asked" /\ Share(k) = part[k]
        /\ UnitsOf(row, {"succeeded"}) # Units
    BY <1>3, OpenIsLeft DEF Phase, Share, Live, Open
  <2>3. row'[k] = st /\ \A j \in Keys : j # k => row'[j] = row[j]
    BY <2>1 DEF TypeOK
  <2>4. \A j \in Keys : j # k => Phase(row[j])' = Phase(row[j]) /\ Share(j)' = Share(j)
    BY <2>3 DEF Phase, Share
  <2>5. /\ (UnitsOf(row, {"succeeded"}) = Units)' <=> UnitsOf(row', {"succeeded"}) = Units
        /\ st # "succeeded" => UnitsOf(row', {"succeeded"}) = UnitsOf(row, {"succeeded"})
        /\ coupon' \in IF st = "succeeded" /\ closed' THEN {coupon, "returned"} ELSE {coupon}
    <3>1. (UnitsOf(row, {"succeeded"}) = Units)' <=> UnitsOf(row', {"succeeded"}) = Units
      BY DEF UnitsOf
    <3>2. st # "succeeded" => UnitsOf(row', {"succeeded"}) = UnitsOf(row, {"succeeded"})
      BY <1>3, <2>3 DEF UnitsOf, Open
    <3>3. OrderAfter(r, k) = "refunded" <=> st = "succeeded" /\ UnitsOf(row', {"succeeded"}) = Units
      BY <2>1, <2>3 DEF OrderAfter
    <3> QED
      BY <1>3, <3>1, <3>2, <3>3 DEF Finalize
  <2> HIDE DEF phase, share, moved, closed
  <2>6. CASE st = "succeeded"
    <3>1. phase' = [phase EXCEPT ![k] = "returned"] /\ phase[k] = "asked"
      <4>1. Phase(row[k])' = "returned"
        BY <2>3, <2>6 DEF Phase, Open
      <4> QED
        BY <2>2, <2>4, <4>1 DEF phase
    <3>2. share' = share /\ share[k] = part[k]
      <4>1. Share(k)' = Share(k)
        BY <1>3, <2>3, <2>6 DEF Share, Live
      <4> QED
        BY <2>2, <2>4, <4>1 DEF share
    <3>3. UnitsOf(row', {"succeeded"}) = UnitsOf(row, {"succeeded"}) \cup part[k]
      BY <1>3, <2>3, <2>6 DEF UnitsOf, Open
    <3>4. UNION {share[j] : j \in {i \in Keys : phase[i] = "returned"}} = UnitsOf(row, {"succeeded"})
      <4>1. \A j \in Keys : phase[j] = "returned" <=> row[j] = "succeeded"
        BY DEF TypeOK, phase, Phase, Open
      <4>2. \A j \in Keys : row[j] = "succeeded" => share[j] = part[j]
        BY DEF share, Share, Live
      <4> QED
        BY <4>1, <4>2 DEF UnitsOf
    <3>5. closed' = ((UNION {share[j] : j \in {i \in Keys : phase[i] = "returned"}}) \cup share[k] = Units)
      <4>1. closed' <=> UnitsOf(row', {"succeeded"}) = Units
        BY <2>5, <2>6 DEF closed
      <4>2. UnitsOf(row', {"succeeded"})
              = (UNION {share[j] : j \in {i \in Keys : phase[i] = "returned"}}) \cup share[k]
        BY <3>2, <3>3, <3>4
      <4>3. closed' \in BOOLEAN
        BY DEF closed
      <4> QED
        BY <4>1, <4>2, <4>3
    <3>6. k \in moved
      BY <2>6 DEF moved
    <3>7. /\ phase[k] = "asked" /\ k \in moved
          /\ phase' = [phase EXCEPT ![k] = "returned"]
          /\ closed' = ((UNION {share[j] : j \in {i \in Keys : phase[i] = "returned"}})
                          \cup share[k] = Units)
          /\ coupon' \in IF closed' THEN {coupon, "returned"} ELSE {coupon}
          /\ UNCHANGED <<share, moved>>
      BY <1>1, <2>5, <3>1, <3>2, <3>5, <3>6, Zenon
    <3> QED
      BY <3>7, Zenon DEF Promise!Return, Promise!Returned, phase, share, moved, closed
  <2>7. CASE st = "failed"
    <3>1. phase' = [phase EXCEPT ![k] = "declined"] /\ phase[k] = "asked"
      <4>1. Phase(row[k])' = "declined"
        BY <2>3, <2>7 DEF Phase, Open
      <4> QED
        BY <2>2, <2>4, <4>1 DEF phase
    <3>2. share' = [share EXCEPT ![k] = {}]
      <4>1. Share(k)' = {}
        BY <2>3, <2>7 DEF Share, Live, Open
      <4> QED
        BY <2>4, <4>1 DEF share
    <3>3. closed' = closed /\ coupon' = coupon
      BY <2>2, <2>5, <2>7 DEF closed
    <3> QED
      BY <1>1, <3>1, <3>2, <3>3 DEF Promise!Decline, phase, share, moved, closed
  <2>8. CASE st = "unknown"
    <3>1. Phase(row[k])' = "asked" /\ Share(k)' = Share(k)
      BY <1>3, <2>3, <2>8 DEF Phase, Share, Live, Open
    <3>2. phase' = phase /\ share' = share
      BY <2>2, <2>4, <3>1 DEF phase, share
    <3>3. closed' = closed /\ coupon' = coupon
      BY <2>2, <2>5, <2>8 DEF closed
    <3> QED
      BY <1>1, <3>2, <3>3 DEF Promise!refundVars, phase, share, moved, closed
  <2> QED
    BY <2>6, <2>7, <2>8
<1> QED
  BY <1>2, <1>3

\* create_refund asks for units that no live row holds, of a payment that is not closed.
LEMMA CreateAsks ==
  ASSUME TypeOK, NEW k \in Keys, NEW s \in SUBSET Units, CreateRefund(k, s)
  PROVE  Promise!Ask(k, s)
<1> DEFINE phase == [j \in Keys |-> Phase(row[j])]
           share == [j \in Keys |-> Share(j)]
<1>1. /\ row[k] = "none" /\ s # {}
      /\ row'[k] = "pending" /\ part'[k] = s
      /\ \A j \in Keys : j # k => row'[j] = row[j] /\ part'[j] = part[j]
      /\ UNCHANGED <<coupon, gw>>
  BY DEF TypeOK, CreateRefund, gwVars
<1>2. \A j \in Keys : s \cap Share(j) = {}
  BY DEF CreateRefund, UnitsOf, Share
<1>3. /\ Phase(row[k]) = "none" /\ Phase(row[k])' = "asked" /\ Share(k)' = s
      /\ \A j \in Keys : j # k => Phase(row[j])' = Phase(row[j]) /\ Share(j)' = Share(j)
  BY <1>1 DEF Phase, Share, Live, Open
<1>4. phase' = [phase EXCEPT ![k] = "asked"] /\ share' = [share EXCEPT ![k] = s]
  BY <1>3
<1>5. phase[k] = "none" /\ \A j \in Keys : s \cap share[j] = {}
  BY <1>2, <1>3
<1>6. UnitsOf(row, {"succeeded"}) # Units /\ UnitsOf(row, {"succeeded"})' = UnitsOf(row, {"succeeded"})
  <2>1. UnitsOf(row, {"succeeded"})' = UnitsOf(row, {"succeeded"})
    BY <1>1 DEF UnitsOf
  <2>2. \A j \in Keys : row[j] = "succeeded" => s \cap part[j] = {}
    BY <1>2 DEF Share, Live
  <2> QED
    BY <1>1, <2>1, <2>2, SomeAreLeft
<1> HIDE DEF phase, share
<1> QED
  BY <1>1, <1>4, <1>5, <1>6 DEF Promise!Ask, phase, share

LEMMA PromiseInit == Init => Promise!RefundInit
<1> SUFFICES ASSUME Init PROVE Promise!RefundInit
  OBVIOUS
<1>1. \A k \in Keys : Phase(row[k]) = "none" /\ Share(k) = {} /\ gw[k] # "refunded"
  BY DEF Init, Phase, Share, Live, Open
<1>2. UnitsOf(row, {"succeeded"}) = {}
  BY DEF Init, UnitsOf
<1> QED
  BY <1>1, <1>2, UnitsAssumption DEF Init, Promise!RefundInit

LEMMA PromiseNext ==
  Ownership /\ Truth /\ Booked /\ [Next]_vars => [Promise!RefundNext]_(Promise!refundVars)
<1> SUFFICES ASSUME Ownership, Truth, Booked, [Next]_vars
             PROVE  [Promise!RefundNext]_(Promise!refundVars)
  OBVIOUS
<1>0. TypeOK
  BY DEF Ownership
<1>1. ASSUME NEW k \in Keys, NEW s \in SUBSET Units, CreateRefund(k, s)
      PROVE  Promise!RefundNext
  BY <1>0, <1>1, CreateAsks DEF Promise!RefundNext
<1>2. ASSUME NEW k \in Keys, Promise!Move(k) \/ UNCHANGED Promise!refundVars
      PROVE  [Promise!RefundNext]_(Promise!refundVars)
  BY <1>2 DEF Promise!RefundNext
<1>3. ASSUME NEW k \in Keys,
             Promise!Return(k) \/ Promise!Decline(k) \/ UNCHANGED Promise!refundVars
      PROVE  [Promise!RefundNext]_(Promise!refundVars)
  BY <1>3 DEF Promise!RefundNext
<1>4. ASSUME NEW k \in Keys, NEW reply,
             GatewayTakes(k, reply) \/ GatewaySilent(reply) \/ UNCHANGED gwVars
      PROVE  /\ \A j \in Keys : j # k => gw'[j] = gw[j]
             /\ gw[k] = "refunded" => gw'[k] = "refunded"
  BY <1>0, <1>4 DEF TypeOK, GatewayTakes, GatewaySilent, gwVars
<1>5. ASSUME NEW k \in Keys, CallGateway(k) PROVE [Promise!RefundNext]_(Promise!refundVars)
  <2>1. row[k] # "none" /\ UNCHANGED ledgerVars
    BY <1>5 DEF Ownership, CallGateway
  <2>2. \E reply \in Replies \cup {"succeeded"} :
          GatewayTakes(k, reply) \/ GatewaySilent(reply) \/ UNCHANGED gwVars
    BY <1>5 DEF CallGateway
  <2>3. /\ \A j \in Keys : j # k => gw'[j] = gw[j]
        /\ gw[k] = "refunded" => gw'[k] = "refunded"
    BY <1>4, <2>2
  <2> QED
    BY <1>0, <1>2, <2>1, <2>3, GatewayMoves
<1>6. ASSUME NEW k \in Keys, GatewaySettles(k) PROVE [Promise!RefundNext]_(Promise!refundVars)
  <2>1. row[k] # "none" /\ UNCHANGED ledgerVars
    BY <1>6 DEF Ownership, GatewaySettles
  <2>2. /\ \A j \in Keys : j # k => gw'[j] = gw[j]
        /\ gw[k] = "refunded" => gw'[k] = "refunded"
    BY <1>0, <1>6 DEF TypeOK, GatewaySettles
  <2> QED
    BY <1>0, <1>2, <2>1, <2>2, GatewayMoves
<1>7. ASSUME NEW w \in Workers, job[w] # NoJob
      PROVE  job[w].key \in Keys /\ row[job[w].key] # "none"
  <2>1. job[w].key \in Keys
    BY <1>0, <1>7 DEF TypeOK, Jobs
  <2> QED
    BY <2>1 DEF Ownership, Holds
<1>8. ASSUME NEW w \in Workers, ReconcileReplay(w)
      PROVE  [Promise!RefundNext]_(Promise!refundVars)
  <2> DEFINE k == job[w].key
  <2>1. job[w] # NoJob
    BY <1>8 DEF ReconcileReplay, NoJob
  <2>2. k \in Keys /\ row[k] # "none"
    BY <1>7, <2>1
  <2>3. UNCHANGED ledgerVars /\ \E reply \in Replies :
          GatewayTakes(k, reply) \/ GatewaySilent(reply) \/ UNCHANGED gwVars
    BY <1>8 DEF ReconcileReplay
  <2> HIDE DEF k
  <2>4. /\ \A j \in Keys : j # k => gw'[j] = gw[j]
        /\ gw[k] = "refunded" => gw'[k] = "refunded"
    BY <1>4, <2>2, <2>3
  <2> QED
    BY <1>0, <1>2, <2>2, <2>3, <2>4, GatewayMoves
<1>9. ASSUME NEW k \in Keys, FinishRefund(k) PROVE [Promise!RefundNext]_(Promise!refundVars)
  <2>1. /\ Classify(call[k]) \in {"unknown", "succeeded", "failed"}
        /\ Classify(call[k]) = "succeeded" => gw[k] = "refunded"
    BY DEF Classify, Truth
  <2>2. Finalize(k, Classify(call[k])) /\ UNCHANGED <<part, gw>>
    BY <1>9 DEF FinishRefund, Record, gwVars
  <2> QED
    BY <1>0, <1>3, <2>1, <2>2, FinalizeAnswers
<1>10. ASSUME NEW w \in Workers, ReconcileCap(w) PROVE [Promise!RefundNext]_(Promise!refundVars)
  <2>1. job[w] # NoJob
    BY <1>10 DEF ReconcileCap, NoJob
  <2>2. Finalize(job[w].key, "failed") /\ UNCHANGED <<part, gw>>
    BY <1>10 DEF ReconcileCap, gwVars
  <2> QED
    BY <1>0, <1>3, <1>7, <2>1, <2>2, FinalizeAnswers
<1>11. ASSUME NEW w \in Workers, ReconcileWrite(w) PROVE [Promise!RefundNext]_(Promise!refundVars)
  <2> DEFINE k == job[w].key
             st == Classify(job[w].reply)
  <2>1. job[w] # NoJob
    BY <1>11 DEF ReconcileWrite, NoJob
  <2>2. /\ st \in {"unknown", "succeeded", "failed"}
        /\ st = "succeeded" => gw[k] = "refunded"
    BY DEF Classify, Truth
  <2>3. Finalize(k, st) /\ UNCHANGED <<part, gw>>
    BY <1>11 DEF ReconcileWrite, Record, gwVars
  <2>4. k \in Keys
    BY <1>7, <2>1
  <2> HIDE DEF k, st
  <2> QED
    BY <1>0, <1>3, <2>2, <2>3, <2>4, FinalizeAnswers
\* The remaining steps touch neither the ledger nor the gateway.
<1>12. CASE UNCHANGED <<rowVars, gwVars>>
  BY <1>12 DEF rowVars, gwVars, Promise!refundVars, Share, UnitsOf
<1>13. CASE OtherNext
  BY <1>12, <1>13, OthersTouch
<1> QED
  BY <1>1, <1>5, <1>6, <1>8, <1>9, <1>10, <1>11, <1>12, <1>13
     DEF Next, RequestNext, ReconcileNext, CrashNext, WorkerStep, RequestCrash, ReconcileList,
         ReconcileRead, ReconcileQuery, ReconcileCount, WorkerCrash, vars, ledgerVars

\* The refund code implements RefundPromise with any gateway: whichever of the request, its
\* retries and the overlapping workers writes an answer, every step asks for, pays out, returns
\* or declines one refund, or changes nothing the promise speaks of.
THEOREM RefundPromiseIsKept == Spec => ImplementsRefundPromise
  BY PromiseInit, PromiseNext, OwnershipInit, LedgerInvariant, PTL
     DEF Spec, ImplementsRefundPromise, Promise!RefundSpec
=============================================================================
