-------------------------- MODULE Promotion_proofs --------------------------
(***************************************************************************)
(* Theorems about Promotion, for every set of users, coupons, codes and     *)
(* admin requests and every issue size.                                     *)
(*                                                                          *)
(* The counters are compared with sets of rows, so the argument is about    *)
(* how each action changes those sets: by one row, or not at all.           *)
(***************************************************************************)
EXTENDS Promotion, FiniteSetTheorems, TLAPS

-----------------------------------------------------------------------------
(* Counting rows. *)

\* A set of rows has a natural number of members; one row more or less
\* changes it by one, and a subset has no more.
LEMMA RowCount ==
    ASSUME NEW S \in SUBSET Rows
    PROVE  /\ IsFiniteSet(S)
           /\ Cardinality(S) \in Nat
           /\ \A r \in Rows \ S : Cardinality(S \cup {r}) = Cardinality(S) + 1
           /\ \A r \in S : Cardinality(S \ {r}) = Cardinality(S) - 1
           /\ \A T \in SUBSET S : Cardinality(T) <= Cardinality(S)
<1>1. IsFiniteSet(S)
  BY PromotionAssumption, FS_Subset
<1>2. Cardinality(S) \in Nat
  BY <1>1, FS_CardinalityType
<1>3. \A r \in Rows \ S : Cardinality(S \cup {r}) = Cardinality(S) + 1
  BY <1>1, FS_AddElement
<1>4. \A r \in S : Cardinality(S \ {r}) = Cardinality(S) - 1
  BY <1>1, FS_RemoveElement
<1>5. \A T \in SUBSET S : Cardinality(T) <= Cardinality(S)
  BY <1>1, FS_Subset
<1> QED
  BY <1>1, <1>2, <1>3, <1>4, <1>5

-----------------------------------------------------------------------------
(* Types. *)

LEMMA InitTypeOK == Init => TypeOK
<1> SUFFICES ASSUME Init PROVE TypeOK
  OBVIOUS
<1>1. appTotal \in Totals /\ total \in Totals
  BY DEF Init
<1>2. /\ status \in [Rows -> {"none", "available", "locked", "used", "expired", "returned"}]
      /\ owner \in [Rows -> Users \cup {NoUser}]
      /\ via \in [Rows -> Codes \cup {NoCode}]
  BY DEF Init
<1>3. /\ code \in [Codes -> {"none", "on", "off", "gone"}]
      /\ claims \in [Codes -> Nat] /\ paid \in [Codes -> Nat]
  BY DEF Init
<1>4. edit \in [Admins -> {NotBegun, Done} \cup CouponCopy \cup CodeCopy]
  BY DEF Init
<1> QED
  BY <1>1, <1>2, <1>3, <1>4 DEF Init, TypeOK

LEMMA AppStepTypeOK == TypeOK /\ AppStep => TypeOK'
<1> SUFFICES ASSUME TypeOK, AppStep PROVE TypeOK'
  OBVIOUS
<1>1. CASE Submit
  BY <1>1 DEF TypeOK, Submit, counters, rows, promo, ghosts
<1>2. CASE Reject
  BY <1>2 DEF TypeOK, Reject, counters, rows, promo, ghosts
<1>3. CASE Tick
  BY <1>3 DEF TypeOK, Tick, counters, rows, promo, ghosts
<1>4. CASE \E t \in Totals : Revise(t)
  BY <1>4 DEF TypeOK, Revise, counters, rows, promo, ghosts
<1>5. CASE \E w \in Windows : Approve(w)
  BY <1>5 DEF TypeOK, Approve, Windows, counters, rows, promo, ghosts
<1> QED
  BY <1>1, <1>2, <1>3, <1>4, <1>5 DEF AppStep

LEMMA RowStepTypeOK == TypeOK /\ RowStep => TypeOK'
<1> SUFFICES ASSUME TypeOK, RowStep PROVE TypeOK'
  OBVIOUS
<1>1. ASSUME NEW r \in Rows, Lock(r) PROVE TypeOK'
  BY <1>1 DEF TypeOK, Lock, campaign, counters, promo, ghosts
<1>2. ASSUME NEW r \in Rows, Consume(r) PROVE TypeOK'
  BY <1>2 DEF TypeOK, Consume, campaign, ghosts
<1>3. ASSUME NEW S \in SUBSET Rows, Free(S) PROVE TypeOK'
  BY <1>3 DEF TypeOK, Free, campaign, counters, promo, ghosts
<1>4. ASSUME NEW r \in Rows, Release(r) PROVE TypeOK'
  BY <1>3, <1>4 DEF Release
<1>5. ASSUME NEW S \in SUBSET Rows, ReleaseExpired(S) PROVE TypeOK'
  BY <1>3, <1>5 DEF ReleaseExpired
<1>6. ASSUME NEW r \in Rows, Return(r) PROVE TypeOK'
  BY <1>6 DEF TypeOK, Return, campaign, promo, ghosts
<1>7. ASSUME NEW u \in Users, ListExpire(u) PROVE TypeOK'
  BY <1>7 DEF TypeOK, ListExpire, campaign, counters, promo, ghosts
<1>8. ASSUME NEW u \in Users, NEW p \in Codes \cup {NoCode}, NEW r \in Rows, Claim(u, p, r)
      PROVE TypeOK'
  BY <1>8 DEF TypeOK, Claim, campaign, ghosts
<1> QED
  BY <1>1, <1>2, <1>4, <1>5, <1>6, <1>7, <1>8 DEF RowStep

LEMMA AdminStepTypeOK == TypeOK /\ AdminStep => TypeOK'
<1> SUFFICES ASSUME TypeOK, AdminStep PROVE TypeOK'
  OBVIOUS
<1>1. ASSUME NEW p \in Codes, CreateCode(p) PROVE TypeOK'
  BY <1>1 DEF TypeOK, CreateCode, campaign, counters, rows, ghosts
<1>2. ASSUME NEW p \in Codes, DeleteCode(p) PROVE TypeOK'
  BY <1>2 DEF TypeOK, DeleteCode, campaign, counters, ghosts
<1>3. ASSUME NEW a \in Admins, PutRead(a) PROVE TypeOK'
  BY <1>3 DEF TypeOK, PutRead, CouponCopy, campaign, counters, rows, promo, ghosts
<1>4. ASSUME NEW a \in Admins, NEW on \in BOOLEAN, NEW t \in Totals, NEW w \in Windows,
             PutSave(a, on, t, w)
      PROVE TypeOK'
  BY <1>4 DEF TypeOK, PutSave, CouponCopy, Windows, counters, rows, promo
<1>5. ASSUME NEW a \in Admins, NEW p \in Codes, PatchRead(a, p) PROVE TypeOK'
  BY <1>5 DEF TypeOK, PatchRead, CodeCopy, campaign, counters, rows, promo, ghosts
<1>6. ASSUME NEW a \in Admins, NEW p \in Codes, NEW c \in {"on", "off"}, PatchSave(a, p, c)
      PROVE TypeOK'
  BY <1>6 DEF TypeOK, PatchSave, CodeCopy, campaign, counters, rows
<1> QED
  BY <1>1, <1>2, <1>3, <1>4, <1>5, <1>6 DEF AdminStep

\* The type invariant holds: no counter ever falls below zero, even after an
\* admin has written back a used_count that is too low.
THEOREM PromotionTypeCorrect == Spec => []TypeOK
<1>1. TypeOK /\ UNCHANGED vars => TypeOK'
  BY DEF TypeOK, vars, campaign, counters, rows, promo, ghosts
<1>2. TypeOK /\ [Next]_vars => TypeOK'
  BY <1>1, AppStepTypeOK, RowStepTypeOK, AdminStepTypeOK DEF Next
<1> QED
  BY <1>2, InitTypeOK, PTL DEF Spec

-----------------------------------------------------------------------------
(* The Coupon's counters. *)

\* A row that changes between two statuses other than "used", none of them
\* "none", moves neither count.
LEMMA SameCounts ==
    ASSUME TypeOK, CountersTrue, UNCHANGED <<counters, lost>>,
           \A r \in Rows : (status'[r] = "none" <=> status[r] = "none")
                          /\ (status'[r] = "used" <=> status[r] = "used")
    PROVE  CountersTrue'
<1>1. Issued' = Issued /\ Redeemed' = Redeemed
  BY DEF Issued, Redeemed
<1> QED
  BY <1>1 DEF CountersTrue, counters

LEMMA RowStepCounts == TypeOK /\ CountersTrue /\ RowStep => CountersTrue'
<1> SUFFICES ASSUME TypeOK, CountersTrue, RowStep PROVE CountersTrue'
  OBVIOUS
<1>0. /\ Issued \in SUBSET Rows /\ Redeemed \in SUBSET Rows
      /\ Cardinality(Issued) \in Nat /\ Cardinality(Redeemed) \in Nat
      /\ claimed \in Nat /\ used \in Nat
  BY RowCount DEF Issued, Redeemed, TypeOK
<1>1. ASSUME NEW r \in Rows, Lock(r) PROVE CountersTrue'
  BY <1>1, SameCounts DEF Lock, TypeOK, ghosts
<1>2. ASSUME NEW r \in Rows, Consume(r) PROVE CountersTrue'
  <2>1. Issued' = Issued /\ Redeemed' = Redeemed \cup {r} /\ r \in Rows \ Redeemed
    BY <1>2 DEF Consume, TypeOK, Issued, Redeemed
  <2>2. Cardinality(Redeemed') = Cardinality(Redeemed) + 1
    BY <2>1, <1>0, RowCount
  <2> QED
    BY <1>2, <2>1, <2>2 DEF Consume, CountersTrue, ghosts
<1>3. ASSUME NEW S \in SUBSET Rows, \A r \in S : status[r] = "locked", Free(S)
      PROVE CountersTrue'
  BY <1>3, SameCounts DEF Free, TypeOK, ghosts
<1>4. ASSUME NEW r \in Rows, Release(r) PROVE CountersTrue'
  BY <1>3, <1>4 DEF Release
<1>5. ASSUME NEW S \in SUBSET Rows, ReleaseExpired(S) PROVE CountersTrue'
  BY <1>3, <1>5 DEF ReleaseExpired
<1>6. ASSUME NEW r \in Rows, Return(r) PROVE CountersTrue'
  <2>1. Issued' = Issued /\ Redeemed' = Redeemed \ {r} /\ r \in Redeemed
    BY <1>6 DEF Return, TypeOK, Issued, Redeemed
  <2>2. Cardinality(Redeemed') = Cardinality(Redeemed) - 1
    BY <2>1, <1>0, RowCount
  <2>3. Cardinality(Redeemed') \in Nat
    BY <1>0, RowCount, <2>1
  <2>4. TheCoupon \notin lost => used > 0
    BY <2>2, <2>3, <1>0 DEF CountersTrue
  <2> QED
    BY <1>6, <2>1, <2>2, <2>4 DEF Return, CountersTrue, ghosts
<1>7. ASSUME NEW u \in Users, ListExpire(u) PROVE CountersTrue'
  BY <1>7, SameCounts DEF ListExpire, HeldBy, Issued, TypeOK, ghosts
<1>8. ASSUME NEW u \in Users, NEW p \in Codes \cup {NoCode}, NEW r \in Rows, Claim(u, p, r)
      PROVE CountersTrue'
  <2>1. Issued' = Issued \cup {r} /\ Redeemed' = Redeemed /\ r \in Rows \ Issued
    BY <1>8 DEF Claim, TypeOK, Issued, Redeemed
  <2>2. Cardinality(Issued') = Cardinality(Issued) + 1
    BY <2>1, <1>0, RowCount
  <2> QED
    BY <1>8, <2>1, <2>2 DEF Claim, CountersTrue, ghosts
<1> QED
  BY <1>1, <1>2, <1>4, <1>5, <1>6, <1>7, <1>8 DEF RowStep

\* No other action touches a coupon's status or, without a trace in lost, a
\* counter.
LEMMA OtherStepCounts ==
    TypeOK /\ CountersTrue /\ (AppStep \/ AdminStep \/ UNCHANGED vars) => CountersTrue'
<1> SUFFICES ASSUME TypeOK, CountersTrue, AppStep \/ AdminStep \/ UNCHANGED vars
             PROVE CountersTrue'
  OBVIOUS
<1>1. status' = status
  BY DEF AppStep, Submit, Reject, Tick, Revise, Approve, AdminStep, CreateCode, DeleteCode,
         PutRead, PutSave, PatchRead, PatchSave, vars, rows
<1>2. TheCoupon \notin lost' => UNCHANGED counters /\ TheCoupon \notin lost
  <2>1. CASE AppStep \/ UNCHANGED vars
    BY <2>1 DEF AppStep, Submit, Reject, Tick, Revise, Approve, vars, ghosts
  <2>2. CASE AdminStep
    BY <2>2 DEF AdminStep, CreateCode, DeleteCode, PutRead, PutSave, PatchRead, PatchSave, ghosts
  <2> QED
    BY <2>1, <2>2
<1>3. Issued' = Issued /\ Redeemed' = Redeemed
  BY <1>1 DEF Issued, Redeemed
<1> QED
  BY <1>2, <1>3 DEF CountersTrue, counters

\* claimed_count and used_count are right until an admin writes the Coupon
\* back out of date.
THEOREM CountersAreTrue == Spec => []CountersTrue
<1>1. Init => CountersTrue
  <2>1. Init => Issued = {} /\ Redeemed = {}
    BY DEF Init, Issued, Redeemed
  <2> QED
    BY <2>1, FS_EmptySet DEF Init, CountersTrue
<1>2. TypeOK /\ CountersTrue /\ [Next]_vars => CountersTrue'
  BY RowStepCounts, OtherStepCounts DEF Next
<1> QED
  BY <1>1, <1>2, PromotionTypeCorrect, PTL DEF Spec

\* Claims stop at the issue size in force.
THEOREM NothingOverIssued == Spec => NeverOverIssued
<1> DEFINE Within == TheCoupon \notin lost /\ Issued' # Issued
                      => Cardinality(Issued) < total
<1>1. TypeOK /\ CountersTrue /\ [Next]_vars => Within
  <2> SUFFICES ASSUME TypeOK, CountersTrue, [Next]_vars PROVE Within
    OBVIOUS
  <2>1. CASE AppStep \/ AdminStep \/ UNCHANGED vars
    <3>1. status' = status
      BY <2>1 DEF AppStep, Submit, Reject, Tick, Revise, Approve, AdminStep, CreateCode,
             DeleteCode, PutRead, PutSave, PatchRead, PatchSave, vars, rows
    <3> QED
      BY <3>1 DEF Issued
  <2>2. ASSUME NEW u \in Users, NEW p \in Codes \cup {NoCode}, NEW r \in Rows, Claim(u, p, r)
        PROVE Within
    BY <2>2 DEF Claim, CountersTrue
  <2>3. ASSUME NEW r \in Rows, Lock(r) \/ Consume(r) \/ Return(r) PROVE Within
    <3>1. Issued' = Issued
      BY <2>3 DEF Lock, Consume, Return, TypeOK, Issued
    <3> QED
      BY <3>1
  <2>4. ASSUME NEW S \in SUBSET Rows, \A r \in S : status[r] = "locked", Free(S) PROVE Within
    <3>1. Issued' = Issued
      BY <2>4 DEF Free, TypeOK, Issued
    <3> QED
      BY <3>1
  <2>5. ASSUME NEW u \in Users, ListExpire(u) PROVE Within
    <3>1. Issued' = Issued
      BY <2>5 DEF ListExpire, HeldBy, TypeOK, Issued
    <3> QED
      BY <3>1
  <2>6. ASSUME NEW r \in Rows, Release(r) PROVE Within
    BY <2>4, <2>6 DEF Release
  <2>7. ASSUME NEW S \in SUBSET Rows, ReleaseExpired(S) PROVE Within
    BY <2>4, <2>7 DEF ReleaseExpired
  <2> QED
    BY <2>1, <2>2, <2>3, <2>5, <2>6, <2>7 DEF Next, RowStep
<1> QED
  BY <1>1, PromotionTypeCorrect, CountersAreTrue, PTL DEF Spec, NeverOverIssued

-----------------------------------------------------------------------------
(* Limits that hold in every state, and not only when a coupon is claimed. *)

\* No customer ever holds more than per_user_limit coupons: the limit counts the
\* rows themselves, so no out-of-date edit of a counter can lift it.
PerUserKept == \A u \in Users : Cardinality(HeldBy(u)) <= PerUser

\* While claimed_count can be relied on, the campaign has handed out no more
\* coupons than the largest issue size it was ever allowed to have.
IssueBounded == TheCoupon \notin lost => \E t \in Totals : Cardinality(Issued) <= t

\* Only a claim hands a coupon out, one, and to a customer below the limit; no
\* other step touches who holds what.
LEMMA OnlyClaims ==
    ASSUME TypeOK, [Next]_vars
    PROVE  \/ UNCHANGED <<Issued, owner>>
           \/ \E u \in Users, p \in Codes \cup {NoCode}, r \in Rows : Claim(u, p, r)
<1>1. CASE AppStep \/ AdminStep \/ UNCHANGED vars
  <2>1. UNCHANGED <<status, owner>>
    BY <1>1 DEF AppStep, Submit, Reject, Tick, Revise, Approve, AdminStep, CreateCode,
           DeleteCode, PutRead, PutSave, PatchRead, PatchSave, vars, rows
  <2> QED
    BY <2>1 DEF Issued
<1>2. ASSUME NEW r \in Rows, Lock(r) \/ Consume(r) \/ Return(r) PROVE UNCHANGED <<Issued, owner>>
  BY <1>2 DEF Lock, Consume, Return, TypeOK, Issued
<1>3. ASSUME NEW S \in SUBSET Rows, \A r \in S : status[r] = "locked", Free(S)
      PROVE  UNCHANGED <<Issued, owner>>
  BY <1>3 DEF Free, TypeOK, Issued
<1>4. ASSUME NEW u \in Users, ListExpire(u) PROVE UNCHANGED <<Issued, owner>>
  BY <1>4 DEF ListExpire, HeldBy, TypeOK, Issued
<1>5. ASSUME NEW r \in Rows, Release(r) PROVE UNCHANGED <<Issued, owner>>
  BY <1>3, <1>5 DEF Release
<1>6. ASSUME NEW S \in SUBSET Rows, ReleaseExpired(S) PROVE UNCHANGED <<Issued, owner>>
  BY <1>3, <1>6 DEF ReleaseExpired
<1> QED
  BY <1>1, <1>2, <1>4, <1>5, <1>6 DEF Next, RowStep

\* The limit per customer (services.py, claim) survives lost counters and edits of every
\* other term.
THEOREM PerUserLimitIsKept == Spec => []PerUserKept
<1>1. Init => PerUserKept
  <2>1. Init => \A u \in Users : HeldBy(u) = {}
    BY DEF Init, HeldBy, Issued
  <2> QED
    BY <2>1, FS_EmptySet, PromotionAssumption DEF PerUserKept
<1>2. TypeOK /\ PerUserKept /\ [Next]_vars => PerUserKept'
  <2> SUFFICES ASSUME TypeOK, PerUserKept, [Next]_vars, NEW v \in Users
               PROVE  Cardinality(HeldBy(v)') <= PerUser
    BY DEF PerUserKept
  <2>1. HeldBy(v) \in SUBSET Rows /\ Cardinality(HeldBy(v)) \in Nat /\ PerUser \in Nat
    BY RowCount, PromotionAssumption DEF HeldBy, Issued
  <2>2. CASE UNCHANGED <<Issued, owner>>
    BY <2>2 DEF PerUserKept, HeldBy
  <2>3. ASSUME NEW u \in Users, NEW p \in Codes \cup {NoCode}, NEW r \in Rows, Claim(u, p, r)
        PROVE  Cardinality(HeldBy(v)') <= PerUser
    <3>1. r \notin Issued
      BY <2>3 DEF Claim, Issued
    <3>2. HeldBy(v)' = IF u = v THEN HeldBy(v) \cup {r} ELSE HeldBy(v)
      BY <2>3, <3>1 DEF Claim, TypeOK, HeldBy, Issued
    <3>3. CASE u = v
      <4>1. Cardinality(HeldBy(v)') = Cardinality(HeldBy(v)) + 1
        BY <2>1, <3>1, <3>2, <3>3, RowCount DEF HeldBy
      <4> QED
        BY <2>1, <2>3, <3>3, <4>1 DEF Claim
    <3>4. CASE u # v
      BY <3>2, <3>4 DEF PerUserKept
    <3> QED
      BY <3>3, <3>4
  <2> QED
    BY <2>2, <2>3, OnlyClaims
<1> QED
  BY <1>1, <1>2, PromotionTypeCorrect, PTL DEF Spec

\* However often the issue size is revised up and down, the coupons handed out never
\* exceed the largest of the sizes, until a counter is written back out of date.
THEOREM IssueStaysBounded == Spec => []IssueBounded
<1>1. Init => IssueBounded
  <2> SUFFICES ASSUME Init PROVE \E t \in Totals : Cardinality(Issued) <= t
    BY DEF IssueBounded
  <2>1. Issued = {} /\ total \in Totals
    BY DEF Init, Issued
  <2>2. Cardinality(Issued) = 0 /\ 0 <= total
    BY <2>1, FS_EmptySet, PromotionAssumption
  <2> QED
    BY <2>1, <2>2
<1>2. TypeOK /\ CountersTrue /\ IssueBounded /\ [Next]_vars => IssueBounded'
  <2> SUFFICES ASSUME TypeOK, CountersTrue, IssueBounded, [Next]_vars,
                      TheCoupon \notin lost'
               PROVE  \E t \in Totals : Cardinality(Issued') <= t
    BY DEF IssueBounded
  <2>1. TheCoupon \notin lost
    <3>1. lost \subseteq lost'
      BY DEF Next, AppStep, RowStep, AdminStep, Submit, Reject, Tick, Revise, Approve, Lock,
             Consume, Release, Return, ReleaseExpired, ListExpire, Free, Claim, CreateCode,
             DeleteCode, PutRead, PutSave, PatchRead, PatchSave, vars, ghosts
    <3> QED
      BY <3>1
  <2>2. CASE Issued' = Issued
    BY <2>1, <2>2 DEF IssueBounded
  <2>3. ASSUME NEW u \in Users, NEW p \in Codes \cup {NoCode}, NEW r \in Rows, Claim(u, p, r)
        PROVE  \E t \in Totals : Cardinality(Issued') <= t
    <3>1. Issued' = Issued \cup {r} /\ r \in Rows \ Issued /\ Issued \in SUBSET Rows
      BY <2>3 DEF Claim, TypeOK, Issued
    <3>2. /\ Cardinality(Issued') = Cardinality(Issued) + 1
          /\ Cardinality(Issued) \in Nat
      BY <3>1, RowCount
    <3>3. Cardinality(Issued) < total /\ total \in Totals /\ total \in Nat
      BY <2>1, <2>3, PromotionAssumption DEF Claim, CountersTrue, TypeOK
    <3> QED
      BY <3>2, <3>3
  <2> QED
    BY <2>2, <2>3, OnlyClaims
<1> QED
  BY <1>1, <1>2, PromotionTypeCorrect, CountersAreTrue, PTL DEF Spec

-----------------------------------------------------------------------------
(* Promo codes. *)

\* What CodesCredited says of one code, and the sets it counts.
Credited(p) ==
    /\ claims[p] = Cardinality(Via(p))
    /\ paid[p] >= Cardinality(Via(p) \cap Redeemed)

LEMMA ViaCount ==
    ASSUME TypeOK, NEW p \in Codes
    PROVE  /\ Via(p) \in SUBSET Rows /\ Via(p) \cap Redeemed \in SUBSET Rows
           /\ Cardinality(Via(p)) \in Nat /\ Cardinality(Via(p) \cap Redeemed) \in Nat
           /\ claims[p] \in Nat /\ paid[p] \in Nat
BY RowCount DEF Via, Issued, TypeOK

\* Credit survives when the counters and the rows claimed through p stay and
\* no more of them stand redeemed.
LEMMA SameCredit ==
    ASSUME TypeOK, NEW p \in Codes, Credited(p),
           claims'[p] = claims[p], paid'[p] = paid[p],
           Via(p)' = Via(p), (Via(p) \cap Redeemed)' \subseteq Via(p) \cap Redeemed
    PROVE  Credited(p)'
<1>1. Cardinality((Via(p) \cap Redeemed)') <= Cardinality(Via(p) \cap Redeemed)
  BY ViaCount, RowCount
<1>2. Cardinality((Via(p) \cap Redeemed)') \in Nat
  BY ViaCount, RowCount
<1> QED
  BY <1>1, <1>2, ViaCount DEF Credited

\* A step on rows that issues none, redeems none and moves none between codes.
LEMMA RowsKeepCredit ==
    ASSUME TypeOK, NEW p \in Codes, Credited(p), UNCHANGED <<via, claims, paid>>,
           \A r \in Rows : (status'[r] = "none" <=> status[r] = "none")
                          /\ (status'[r] = "used" => status[r] = "used")
    PROVE  Credited(p)'
<1>1. Via(p)' = Via(p) /\ (Via(p) \cap Redeemed)' \subseteq Via(p) \cap Redeemed
  BY DEF Via, Issued, Redeemed
<1> QED
  BY <1>1, SameCredit

LEMMA RowStepCredit ==
    ASSUME TypeOK, RowStep, NEW p \in Codes, Credited(p)
    PROVE  Credited(p)'
<1>1. ASSUME NEW r \in Rows, Lock(r) PROVE Credited(p)'
  BY <1>1, RowsKeepCredit DEF Lock, TypeOK, promo
<1>2. ASSUME NEW r \in Rows, Consume(r) PROVE Credited(p)'
  <2>1. Via(p)' = Via(p)
    BY <1>2 DEF Consume, TypeOK, Via, Issued
  <2>2. claims'[p] = claims[p]
    BY <1>2 DEF Consume
  <2>3. CASE via[r] = p
    <3>1. /\ (Via(p) \cap Redeemed)' = (Via(p) \cap Redeemed) \cup {r}
          /\ r \in Rows \ (Via(p) \cap Redeemed)
      BY <1>2, <2>3 DEF Consume, TypeOK, Via, Issued, Redeemed
    <3>2. Cardinality((Via(p) \cap Redeemed)') = Cardinality(Via(p) \cap Redeemed) + 1
      BY <3>1, ViaCount, RowCount
    <3>3. paid'[p] = paid[p] + 1
      BY <1>2, <2>3 DEF Consume
    <3> QED
      BY <2>1, <2>2, <3>2, <3>3, ViaCount DEF Credited
  <2>4. CASE via[r] # p
    <3>1. (Via(p) \cap Redeemed)' = Via(p) \cap Redeemed
      BY <1>2, <2>4 DEF Consume, TypeOK, Via, Issued, Redeemed
    <3>2. paid'[p] = paid[p]
      BY <1>2, <2>4 DEF Consume
    <3> QED
      BY <2>1, <2>2, <3>1, <3>2, SameCredit
  <2> QED
    BY <2>3, <2>4
<1>3. ASSUME NEW S \in SUBSET Rows, \A r \in S : status[r] = "locked", Free(S)
      PROVE Credited(p)'
  BY <1>3, RowsKeepCredit DEF Free, TypeOK, promo
<1>4. ASSUME NEW r \in Rows, Release(r) PROVE Credited(p)'
  BY <1>3, <1>4 DEF Release
<1>5. ASSUME NEW S \in SUBSET Rows, ReleaseExpired(S) PROVE Credited(p)'
  BY <1>3, <1>5 DEF ReleaseExpired
<1>6. ASSUME NEW r \in Rows, Return(r) PROVE Credited(p)'
  BY <1>6, RowsKeepCredit DEF Return, TypeOK, promo
<1>7. ASSUME NEW u \in Users, ListExpire(u) PROVE Credited(p)'
  BY <1>7, RowsKeepCredit DEF ListExpire, HeldBy, Issued, TypeOK, promo
<1>8. ASSUME NEW u \in Users, NEW q \in Codes \cup {NoCode}, NEW r \in Rows, Claim(u, q, r)
      PROVE Credited(p)'
  <2>1. paid'[p] = paid[p]
    BY <1>8 DEF Claim
  <2>2. (Via(p) \cap Redeemed)' = Via(p) \cap Redeemed
    BY <1>8 DEF Claim, TypeOK, Via, Issued, Redeemed
  <2>3. CASE q = p
    <3>1. Via(p)' = Via(p) \cup {r} /\ r \in Rows \ Via(p)
      BY <1>8, <2>3 DEF Claim, TypeOK, Via, Issued
    <3>2. Cardinality(Via(p)') = Cardinality(Via(p)) + 1
      BY <3>1, ViaCount, RowCount
    <3>3. claims'[p] = claims[p] + 1
      BY <1>8, <2>3 DEF Claim
    <3> QED
      BY <2>1, <2>2, <3>2, <3>3, ViaCount DEF Credited
  <2>4. CASE q # p
    <3>1. Via(p)' = Via(p)
      BY <1>8, <2>4 DEF Claim, TypeOK, Via, Issued
    <3>2. claims'[p] = claims[p]
      BY <1>8, <2>4 DEF Claim
    <3> QED
      BY <2>1, <2>2, <3>1, <3>2, SameCredit
  <2> QED
    BY <2>3, <2>4
<1> QED
  BY <1>1, <1>2, <1>4, <1>5, <1>6, <1>7, <1>8 DEF RowStep

LEMMA AdminStepCredit ==
    ASSUME TypeOK, AdminStep, NEW p \in Codes, Credited(p), p \notin lost'
    PROVE  Credited(p)'
<1>1. status' = status
  BY DEF AdminStep, CreateCode, DeleteCode, PutRead, PutSave, PatchRead, PatchSave, rows
<1>2. ASSUME UNCHANGED via, claims'[p] = claims[p], paid'[p] = paid[p] PROVE Credited(p)'
  <2>1. Via(p)' = Via(p) /\ (Via(p) \cap Redeemed)' = Via(p) \cap Redeemed
    BY <1>1, <1>2 DEF Via, Issued, Redeemed
  <2> QED
    BY <1>2, <2>1, SameCredit
<1>3. ASSUME NEW q \in Codes, DeleteCode(q) PROVE Credited(p)'
  <2>1. CASE q = p
    <3>1. Via(p)' = {} /\ (Via(p) \cap Redeemed)' = {}
      BY <1>3, <2>1, PromotionAssumption DEF DeleteCode, TypeOK, Via, Issued
    <3>2. claims'[p] = 0 /\ paid'[p] = 0
      BY <1>3, <2>1 DEF DeleteCode, TypeOK
    <3> QED
      BY <3>1, <3>2, FS_EmptySet DEF Credited
  <2>2. CASE q # p
    <3>1. Via(p)' = Via(p) /\ (Via(p) \cap Redeemed)' = Via(p) \cap Redeemed
      BY <1>1, <1>3, <2>2, PromotionAssumption DEF DeleteCode, TypeOK, Via, Issued, Redeemed
    <3>2. claims'[p] = claims[p] /\ paid'[p] = paid[p]
      BY <1>3, <2>2 DEF DeleteCode, TypeOK
    <3> QED
      BY <3>1, <3>2, SameCredit
  <2> QED
    BY <2>1, <2>2
<1>4. ASSUME NEW a \in Admins, NEW q \in Codes, NEW c \in {"on", "off"}, PatchSave(a, q, c)
      PROVE Credited(p)'
  <2>1. claims'[p] = claims[p] /\ paid'[p] = paid[p]
    BY <1>4 DEF PatchSave, TypeOK
  <2> QED
    BY <1>2, <1>4, <2>1 DEF PatchSave, rows
<1>5. ASSUME NEW q \in Codes, CreateCode(q) PROVE Credited(p)'
  BY <1>2, <1>5 DEF CreateCode, rows
<1>6. ASSUME NEW a \in Admins, PutRead(a) PROVE Credited(p)'
  BY <1>2, <1>6 DEF PutRead, rows, promo
<1>7. ASSUME NEW a \in Admins, NEW on \in BOOLEAN, NEW t \in Totals, NEW w \in Windows,
             PutSave(a, on, t, w)
      PROVE Credited(p)'
  BY <1>2, <1>7 DEF PutSave, rows, promo
<1>8. ASSUME NEW a \in Admins, NEW q \in Codes, PatchRead(a, q) PROVE Credited(p)'
  BY <1>2, <1>8 DEF PatchRead, rows, promo
<1> QED
  BY <1>3, <1>4, <1>5, <1>6, <1>7, <1>8 DEF AdminStep

\* A promo code keeps its credit until its row is written back out of date.
THEOREM CodesAreCredited == Spec => []CodesCredited
<1>1. Init => CodesCredited
  <2> SUFFICES ASSUME Init, NEW p \in Codes PROVE Credited(p)
    BY DEF CodesCredited, Credited
  <2>1. Via(p) = {}
    BY DEF Init, Via, Issued
  <2> QED
    BY <2>1, FS_EmptySet DEF Init, Credited
<1>2. TypeOK /\ CodesCredited /\ [Next]_vars => CodesCredited'
  <2> SUFFICES ASSUME TypeOK, CodesCredited, [Next]_vars, NEW p \in Codes, p \notin lost'
               PROVE Credited(p)'
    BY DEF CodesCredited, Credited
  <2>1. lost \subseteq lost'
    BY DEF Next, AppStep, Submit, Reject, Tick, Revise, Approve, RowStep, Lock, Consume, Release,
           ReleaseExpired, Free, Return, ListExpire, Claim, AdminStep, CreateCode, DeleteCode,
           PutRead, PutSave, PatchRead, PatchSave, vars, ghosts
  <2>2. Credited(p)
    BY <2>1 DEF CodesCredited, Credited
  <2>3. CASE RowStep
    BY <2>2, <2>3, RowStepCredit
  <2>4. CASE AdminStep
    BY <2>2, <2>4, AdminStepCredit
  <2>5. CASE AppStep \/ UNCHANGED vars
    <3>1. UNCHANGED <<rows, promo>>
      BY <2>5 DEF AppStep, Submit, Reject, Tick, Revise, Approve, vars
    <3>2. Via(p)' = Via(p) /\ (Via(p) \cap Redeemed)' = Via(p) \cap Redeemed
      BY <3>1 DEF Via, Issued, Redeemed, rows
    <3> QED
      BY <2>2, <3>1, <3>2, SameCredit DEF promo
  <2> QED
    BY <2>3, <2>4, <2>5 DEF Next
<1> QED
  BY <1>1, <1>2, PromotionTypeCorrect, PTL DEF Spec

-----------------------------------------------------------------------------
(* The application. *)

\* A coupon on offer carries the approved material unless an admin edited it.
THEOREM OffersAreReviewed == Spec => []LiveAsReviewed
<1>1. Init => LiveAsReviewed
  BY DEF Init, LiveAsReviewed
<1>2. LiveAsReviewed /\ [Next]_vars => LiveAsReviewed'
  <2> SUFFICES ASSUME LiveAsReviewed, [Next]_vars PROVE LiveAsReviewed'
    OBVIOUS
  <2>1. CASE AppStep
    BY <2>1 DEF AppStep, Submit, Reject, Tick, Revise, Approve, LiveAsReviewed, ghosts
  <2>2. CASE RowStep \/ UNCHANGED vars
    <3>1. UNCHANGED <<campaign, edited>>
      BY <2>2 DEF RowStep, Lock, Consume, Release, ReleaseExpired, Free, Return, ListExpire,
             Claim, vars, ghosts
    <3> QED
      BY <3>1 DEF LiveAsReviewed, campaign
  <2>3. CASE AdminStep
    BY <2>3 DEF AdminStep, CreateCode, DeleteCode, PutRead, PutSave, PatchRead, PatchSave,
           LiveAsReviewed, campaign, ghosts
  <2> QED
    BY <2>1, <2>2, <2>3 DEF Next
<1> QED
  BY <1>1, <1>2, PTL DEF Spec

=============================================================================
