------------------------------ MODULE Promotion ------------------------------
(***************************************************************************)
(* One coupon campaign of backend/apps/promotion: the application that      *)
(* brings it to life, its Coupon row with two counters, the PromoCode rows  *)
(* through which it is handed out and credited, the UserCoupon rows handed  *)
(* out, and the orders that lock, redeem, free and give back those rows.    *)
(*                                                                          *)
(* Every customer-side operation runs in one transaction that holds a row   *)
(* lock (select_for_update) on what it decides on, so each is one action.   *)
(* The two admin edit views lock nothing: they read a row, and later write  *)
(* every column of the copy back (serializer.save), counters included.      *)
(* Such a request is two actions, and edit[a] is the copy it holds.         *)
(***************************************************************************)
EXTENDS Integers, FiniteSets

CONSTANTS
    Users,      \* customers
    Rows,       \* UserCoupon rows that may ever be created (a bound)
    Codes,      \* PromoCode rows that may ever be created (a bound)
    Admins,     \* admin edit requests (a bound)
    Totals,     \* issue sizes an application may ask for
    PerUser,    \* per_user_limit of the campaign
    MaxPaid,    \* bound on each paid_order_count
    NoUser, NoCode, NotBegun, Done

ASSUME PromotionAssumption ==
    /\ IsFiniteSet(Rows)
    /\ Totals \subseteq Nat /\ PerUser \in Nat /\ MaxPaid \in Nat
    /\ NoUser \notin Users /\ NoCode \notin Codes

VARIABLES
    app,        \* status of the CouponApplication
    appTotal,   \* the issue size it asks for, standing for its material
    active,     \* Coupon.is_active
    window,     \* the clock against start_time and end_time; "none": no Coupon yet
    total,      \* Coupon.total_count
    claimed,    \* Coupon.claimed_count
    used,       \* Coupon.used_count
    status,     \* status of each UserCoupon, "none" before it is created
    owner,      \* its user
    via,        \* its promo_code
    code,       \* each PromoCode: not created, enabled, disabled or deleted
    claims,     \* its claim_count
    paid,       \* its paid_order_count
    edit,       \* each admin request: not begun, the copy it holds, or done
    edited,     \* ghost: an admin has edited the Coupon past its application
    lost        \* ghost: rows whose counters an admin wrote back out of date

campaign == <<app, appTotal, active, window, total>>
counters == <<claimed, used>>
rows     == <<status, owner, via>>
promo    == <<code, claims, paid>>
ghosts   == <<edited, lost>>
vars     == <<campaign, counters, rows, promo, edit, ghosts>>

\* The Coupon in the ghost lost, beside the members of Codes.
TheCoupon == "coupon"

CouponCopy == [of : {TheCoupon}, claimed : Nat, used : Nat]
CodeCopy   == [of : Codes, claims : Nat, paid : Nat]

\* The type invariant. Counters are PositiveIntegerFields: none goes below 0.
TypeOK ==
    /\ app \in {"draft", "pending", "rejected", "live"}
    /\ appTotal \in Totals
    /\ active \in BOOLEAN
    /\ window \in {"none", "before", "open", "after"}
    /\ total \in Totals
    /\ claimed \in Nat /\ used \in Nat
    /\ status \in [Rows -> {"none", "available", "locked", "used", "expired", "returned"}]
    /\ owner \in [Rows -> Users \cup {NoUser}]
    /\ via \in [Rows -> Codes \cup {NoCode}]
    /\ code \in [Codes -> {"none", "on", "off", "gone"}]
    /\ claims \in [Codes -> Nat] /\ paid \in [Codes -> Nat]
    /\ edit \in [Admins -> {NotBegun, Done} \cup CouponCopy \cup CodeCopy]
    /\ edited \in BOOLEAN
    /\ lost \subseteq Codes \cup {TheCoupon}

Init ==
    /\ app = "draft" /\ appTotal \in {t \in Totals : PerUser <= t}
    /\ active = FALSE /\ window = "none" /\ total = appTotal
    /\ claimed = 0 /\ used = 0
    /\ status = [r \in Rows |-> "none"]
    /\ owner = [r \in Rows |-> NoUser]
    /\ via = [r \in Rows |-> NoCode]
    /\ code = [p \in Codes |-> "none"]
    /\ claims = [p \in Codes |-> 0] /\ paid = [p \in Codes |-> 0]
    /\ edit = [a \in Admins |-> NotBegun]
    /\ edited = FALSE /\ lost = {}

Live      == active /\ window = "open"
Issued    == {r \in Rows : status[r] # "none"}
Redeemed  == {r \in Rows : status[r] = "used"}
HeldBy(u) == {r \in Issued : owner[r] = u}
Via(p)    == {r \in Issued : via[r] = p}

-----------------------------------------------------------------------------
(* The application: what the campaign offers is what a superadmin approved. *)

Submit ==
    /\ app \in {"draft", "rejected"}
    /\ app' = "pending"
    /\ UNCHANGED <<appTotal, active, window, total, counters, rows, promo, edit, ghosts>>

\* Mutant of Revise: a running campaign stays on offer.
Revise_StaysOnline(t) ==
    /\ PerUser <= t
    /\ appTotal' = t
    /\ app' = IF app \in {"draft", "rejected"} THEN "draft" ELSE "pending"
    /\ UNCHANGED <<active, window, total, counters, rows, promo, edit, ghosts>>

\* The material may be changed in every status; a running campaign goes
\* offline and back to review.
Revise(t) ==
    /\ PerUser <= t
    /\ appTotal' = t
    /\ app' = IF app \in {"draft", "rejected"} THEN "draft" ELSE "pending"
    /\ active' = FALSE
    /\ UNCHANGED <<window, total, counters, rows, promo, edit, ghosts>>

\* Mutant of Approve: the approved Coupon is saved as a fresh row.
Approve_Afresh(w) ==
    /\ app = "pending"
    /\ app' = "live"
    /\ total' = appTotal /\ active' = TRUE /\ window' = w
    /\ claimed' = 0 /\ used' = 0
    /\ UNCHANGED <<appTotal, rows, promo, edit, ghosts>>

\* Creates the Coupon or overwrites its terms, never its counters.
Approve(w) ==
    /\ app = "pending"
    /\ app' = "live"
    /\ total' = appTotal /\ active' = TRUE /\ window' = w
    /\ UNCHANGED <<appTotal, counters, rows, promo, edit, ghosts>>

Reject ==
    /\ app = "pending"
    /\ app' = "rejected"
    /\ UNCHANGED <<appTotal, active, window, total, counters, rows, promo, edit, ghosts>>

\* Time passes start_time, then end_time.
Tick ==
    /\ \/ window = "before" /\ window' = "open"
       \/ window = "open" /\ window' = "after"
    /\ UNCHANGED <<app, appTotal, active, total, counters, rows, promo, edit, ghosts>>

-----------------------------------------------------------------------------
(* Customers and their orders. *)

\* Mutant of Claim: the last coupon is counted one too late.
Claim_PastEnd(u, p, r) ==
    /\ p # NoCode => code[p] = "on"
    /\ Live /\ claimed <= total
    /\ Cardinality(HeldBy(u)) < PerUser
    /\ status[r] = "none"
    /\ status' = [status EXCEPT ![r] = "available"]
    /\ owner' = [owner EXCEPT ![r] = u]
    /\ via' = [via EXCEPT ![r] = p]
    /\ claimed' = claimed + 1
    /\ claims' = [q \in Codes |-> IF q = p THEN claims[q] + 1 ELSE claims[q]]
    /\ UNCHANGED <<campaign, used, code, paid, edit, ghosts>>

\* User u takes a coupon, directly (NoCode) or through promo code p.
Claim(u, p, r) ==
    /\ p # NoCode => code[p] = "on"
    /\ Live /\ claimed < total
    /\ Cardinality(HeldBy(u)) < PerUser
    /\ status[r] = "none"
    /\ status' = [status EXCEPT ![r] = "available"]
    /\ owner' = [owner EXCEPT ![r] = u]
    /\ via' = [via EXCEPT ![r] = p]
    /\ claimed' = claimed + 1
    /\ claims' = [q \in Codes |-> IF q = p THEN claims[q] + 1 ELSE claims[q]]
    /\ UNCHANGED <<campaign, used, code, paid, edit, ghosts>>

\* A checkout puts the coupon under its order. An out-of-date coupon is
\* marked expired and the mark rolled back by the exception that follows.
Lock(r) ==
    /\ status[r] \in {"available", "returned"}
    /\ Live
    /\ status' = [status EXCEPT ![r] = "locked"]
    /\ UNCHANGED <<campaign, counters, owner, via, promo, edit, ghosts>>

\* Mutant of Consume: the promo code is credited only while it is enabled.
Consume_OnlyEnabled(r) ==
    /\ status[r] = "locked"
    /\ \A p \in Codes : via[r] = p => paid[p] < MaxPaid
    /\ status' = [status EXCEPT ![r] = "used"]
    /\ used' = used + 1
    /\ paid' = [p \in Codes |-> IF via[r] = p /\ code[p] = "on"
                                THEN paid[p] + 1 ELSE paid[p]]
    /\ UNCHANGED <<campaign, claimed, owner, via, code, claims, edit, ghosts>>

\* The order that holds the coupon is paid. MaxPaid bounds the model, not the code.
Consume(r) ==
    /\ status[r] = "locked"
    /\ \A p \in Codes : via[r] = p => paid[p] < MaxPaid
    /\ status' = [status EXCEPT ![r] = "used"]
    /\ used' = used + 1
    /\ paid' = [p \in Codes |-> IF via[r] = p THEN paid[p] + 1 ELSE paid[p]]
    /\ UNCHANGED <<campaign, claimed, owner, via, code, claims, edit, ghosts>>

Free(S) ==
    /\ status' = [r \in Rows |-> IF r \notin S THEN status[r]
                                 ELSE IF Live THEN "available" ELSE "expired"]
    /\ UNCHANGED <<campaign, counters, owner, via, promo, edit, ghosts>>

\* The order that holds the coupon is cancelled.
Release(r) ==
    /\ status[r] = "locked"
    /\ Free({r})

\* Before a user's coupons are listed, and on command for all users, the
\* locks past their expiry are freed in one transaction.
ReleaseExpired(S) ==
    /\ S # {} /\ \A r \in S : status[r] = "locked"
    /\ Free(S)

\* Mutant of Return: used_count is decremented without its guard.
Return_Unguarded(r) ==
    /\ status[r] = "used"
    /\ Live
    /\ status' = [status EXCEPT ![r] = "returned"]
    /\ used' = used - 1
    /\ UNCHANGED <<campaign, claimed, owner, via, promo, edit, ghosts>>

\* The order is refunded in full: while the campaign runs, the coupon may be
\* used again. The credit of its promo code stays.
Return(r) ==
    /\ status[r] = "used"
    /\ Live
    /\ status' = [status EXCEPT ![r] = "returned"]
    /\ used' = IF used > 0 THEN used - 1 ELSE used
    /\ UNCHANGED <<campaign, claimed, owner, via, promo, edit, ghosts>>

\* Listing a user's coupons expires those of a campaign that is over or
\* switched off, for good.
ListExpire(u) ==
    LET out == {r \in HeldBy(u) : status[r] \in {"available", "returned"}} IN
    /\ ~active \/ window = "after"
    /\ out # {}
    /\ status' = [r \in Rows |-> IF r \in out THEN "expired" ELSE status[r]]
    /\ UNCHANGED <<campaign, counters, owner, via, promo, edit, ghosts>>

-----------------------------------------------------------------------------
(* Promo codes and the admin edit views. *)

CreateCode(p) ==
    /\ window # "none" /\ code[p] = "none"
    /\ code' = [code EXCEPT ![p] = "on"]
    /\ UNCHANGED <<campaign, counters, rows, claims, paid, edit, ghosts>>

\* on_delete=SET_NULL: the coupons handed out through the code stay.
DeleteCode(p) ==
    /\ code[p] \in {"on", "off"}
    /\ code' = [code EXCEPT ![p] = "gone"]
    /\ claims' = [claims EXCEPT ![p] = 0] /\ paid' = [paid EXCEPT ![p] = 0]
    /\ via' = [r \in Rows |-> IF via[r] = p THEN NoCode ELSE via[r]]
    /\ UNCHANGED <<campaign, counters, status, owner, edit, ghosts>>

PutRead(a) ==
    /\ window # "none" /\ edit[a] = NotBegun
    /\ edit' = [edit EXCEPT ![a] = [of |-> TheCoupon, claimed |-> claimed, used |-> used]]
    /\ UNCHANGED <<campaign, counters, rows, promo, ghosts>>

\* Any term may be edited; the counters of the copy are written back.
PutSave(a, on, t, w) ==
    /\ edit[a] \in CouponCopy
    /\ active' = on /\ total' = t /\ window' = w
    /\ claimed' = edit[a].claimed /\ used' = edit[a].used
    /\ edit' = [edit EXCEPT ![a] = Done]
    /\ edited' = TRUE
    /\ lost' = IF counters' = counters THEN lost ELSE lost \cup {TheCoupon}
    /\ UNCHANGED <<app, appTotal, rows, promo>>

PatchRead(a, p) ==
    /\ code[p] \in {"on", "off"} /\ edit[a] = NotBegun
    /\ edit' = [edit EXCEPT ![a] = [of |-> p, claims |-> claims[p], paid |-> paid[p]]]
    /\ UNCHANGED <<campaign, counters, rows, promo, ghosts>>

\* Saving a row that was deleted meanwhile inserts it again.
PatchSave(a, p, c) ==
    /\ edit[a] \in CodeCopy /\ edit[a].of = p
    /\ code' = [code EXCEPT ![p] = c]
    /\ claims' = [claims EXCEPT ![p] = edit[a].claims]
    /\ paid' = [paid EXCEPT ![p] = edit[a].paid]
    /\ edit' = [edit EXCEPT ![a] = Done]
    /\ lost' = IF <<claims, paid>>' = <<claims, paid>> THEN lost ELSE lost \cup {p}
    /\ UNCHANGED <<campaign, counters, rows, edited>>

-----------------------------------------------------------------------------
Windows == {"before", "open", "after"}

AppStep ==
    \/ Submit \/ Reject \/ Tick
    \/ \E t \in Totals : Revise(t)
    \/ \E w \in Windows : Approve(w)

RowStep ==
    \/ \E r \in Rows : Lock(r) \/ Consume(r) \/ Release(r) \/ Return(r)
    \/ \E S \in SUBSET Rows : ReleaseExpired(S)
    \/ \E u \in Users : ListExpire(u)
    \/ \E u \in Users, p \in Codes \cup {NoCode}, r \in Rows : Claim(u, p, r)

AdminStep ==
    \/ \E p \in Codes : CreateCode(p) \/ DeleteCode(p)
    \/ \E a \in Admins : PutRead(a)
    \/ \E a \in Admins, on \in BOOLEAN, t \in Totals, w \in Windows : PutSave(a, on, t, w)
    \/ \E a \in Admins, p \in Codes : PatchRead(a, p)
    \/ \E a \in Admins, p \in Codes, c \in {"on", "off"} : PatchSave(a, p, c)

Next == AppStep \/ RowStep \/ AdminStep

Spec == Init /\ [][Next]_vars

-----------------------------------------------------------------------------
(* Properties. *)

\* As long as no admin has written the Coupon back out of date, claimed_count
\* is the number of coupons handed out and used_count the number redeemed and
\* not given back, through every claim, payment, cancellation and refund.
CountersTrue ==
    TheCoupon \notin lost =>
        /\ claimed = Cardinality(Issued)
        /\ used = Cardinality(Redeemed)

\* A promo code whose row was not written back out of date is credited with
\* every coupon claimed through it, and with at least every coupon of those
\* that stands redeemed (a refund takes no credit back).
CodesCredited ==
    \A p \in Codes \ lost :
        /\ claims[p] = Cardinality(Via(p))
        /\ paid[p] >= Cardinality(Via(p) \cap Redeemed)

\* Unless an admin edits the Coupon itself, a coupon is on offer only with the
\* material a superadmin approved: a revision takes it offline first.
LiveAsReviewed ==
    active /\ ~edited => app = "live" /\ total = appTotal

\* No coupon is handed out beyond the issue size in force, whatever the
\* revisions of that size, while claimed_count can be relied on.
NeverOverIssued ==
    [][TheCoupon \notin lost /\ Issued' # Issued
         => Cardinality(Issued) < total]_vars

=============================================================================
