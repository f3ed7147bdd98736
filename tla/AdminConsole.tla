---------------------------- MODULE AdminConsole ----------------------------
(***************************************************************************)
(* The screens of the admin console (src/web/react/src/pages/Admin) and of *)
(* the customer's account that work the same way: each loads a list with   *)
(* GETs that pass through the HttpCache, and runs handlers that send       *)
(* mutations and load the list again.  The server's                        *)
(* list is the number of changes made to it, its display the set of        *)
(* changes it contains.  A page with two lists is two screens, as no       *)
(* handler makes one list depend on the other.  Buttons that a page        *)
(* disables while it is busy are not modelled: any two handlers of a       *)
(* screen may overlap.  Screens whose handlers do the same to their list   *)
(* are one screen of the model.                                            *)
(***************************************************************************)
EXTENDS HttpCache, FiniteSets

CONSTANTS
  Guard,        \* ticks after which useDebounceSubmit unlocks a save that hangs
  MaxChanges,   \* bounds the changes made on the server
  MaxFlying,    \* bounds the GETs in flight and the handlers running, together
  MaxFaults     \* bounds the requests that fail or are lost

ASSUME GuardAssumption == Guard \in Nat \ {0}
ASSUME BoundsAssumption == MaxChanges \in Nat /\ MaxFlying \in Nat /\ MaxFaults \in Nat

VARIABLES
  screen,    \* the screen that is open
  made,      \* number of changes the server has made to the screen's list
  shown,     \* the changes its display on the screen contains
  gets,      \* GETs in flight
  calls,     \* handlers running
  own,       \* the changes of this user the server has confirmed, each with whether
             \* the mutation's path covers the list
  clouded,   \* a GET of the list failed or overlapped a change of this user
  since,     \* ticks since the server last changed the list
  lock,      \* useDebounceSubmit: pendingRef and the ticks until it unlocks by itself
  slow,      \* the lock has once unlocked by itself
  faults     \* requests failed or lost

pageVars == <<shown, gets, calls, own, clouded>>
lockVars == <<lock, slow>>
serverVars == <<made, since>>
cacheVars == <<cache, timers>>
vars == <<screen, made, shown, gets, calls, own, clouded, since,
          lock, slow, faults, cache, timers>>

----------------------------------------------------------------------------
\* The lists (src/web/react/src/api).  "1" is a numeric id, "ZG" an account or order
\* number, "team" the slug of a group, "welcome" a template type, "code" a coupon's.
BrandList == <<"goods", "brand">>
TagList == <<"goods", "tag">>
CategoryTree == <<"goods", "category", "subtree">>
GroupList == <<"admin", "groups", "">>
MemberList == <<"admin", "groups", "team", "members">>
RecycleList == <<"goods", "recycle">>
ProductList == <<"goods", "spu", "admin">>
CouponList == <<"promotion", "coupon">>
PromoBoard == <<"promotion", "coupon", "1", "promo-dashboard">>
CouponApps == <<"promotion", "application", "my", "">>
ActivityList == <<"promotion", "activity">>
ActivitySkus == <<"promotion", "activity", "1", "skus">>
MyApps == <<"goods", "application", "my">>
PendingApps == <<"goods", "application", "pending">>
Matrix == <<"rbac", "matrix">>
UserList == <<"admin", "users", "">>
OrderList == <<"order", "admin", "list", "">>
OrderDetail == <<"order", "admin", "1", "">>
AfterSales == <<"order", "admin", "aftersale", "">>
Templates == <<"users", "email", "templates", "">>
Notices == <<"notification", "">>
UnreadCount == <<"notification", "unread_count", "">>
TaskList == <<"goods", "task">>
Conversations == <<"chat", "conversations", "">>
AddressBook == <<"address", "">>
CouponOffers == <<"promotion", "">>
SharedCoupon == <<"promotion", "code", "">>
SharedPromo == <<"promotion", "promo", "code", "">>
OwnOrder == <<"order", "ZG", "">>
OwnRefunds == <<"payment", "refunds", "">>
ProductReviews == <<"review", "">>

\* A handler: the mutations it sends one after the other, whether it loads the list again
\* after success and after failure, whether it updates the display itself, and whether it
\* runs through useDebounceSubmit.
Does(paths) == [paths |-> paths, onOk |-> TRUE, onFail |-> FALSE, local |-> FALSE, once |-> FALSE]
Silent(paths) == [Does(paths) EXCEPT !.onOk = FALSE]
Debounced(h) == [h EXCEPT !.once = TRUE]

----------------------------------------------------------------------------
\* The handlers, page by page.
BrandSave == {Debounced(Does(<<p>>)) :
                p \in {<<"goods", "brand", "1", "update">>, <<"goods", "brand", "create">>}}
BrandDelete == Does(<< <<"goods", "brand", "1", "delete">> >>)

TagSave == {Does(<<p>>) :
              p \in {<<"goods", "tag", "1", "update">>, <<"goods", "tag", "create">>}}
TagDelete == Does(<< <<"goods", "tag", "1", "delete">> >>)

\* Only the form of an existing category is saved through useDebounceSubmit.
CategorySave == Debounced(Does(<< <<"goods", "category", "1", "update">> >>))
CategoryCreate == Does(<< <<"goods", "category", "create">> >>)
CategoryDelete == Does(<< <<"goods", "category", "1", "delete">> >>)
CategoryMigrate == Does(<< <<"goods", "category", "migrate">> >>)

Restore == Does(<< <<"goods", "recycle", "1", "restore">> >>)
PermanentDelete == Does(<< <<"goods", "recycle", "1", "permanent">> >>)

\* The list is loaded again whether the shelf action succeeds or not.
Shelf == [Does(<< <<"goods", "spu", "1", "shelf">> >>)
            EXCEPT !.onFail = TRUE]
SubmitAudit == Does(<< <<"goods", "spu", "1", "submit">> >>)
BatchAction == Does(<< <<"goods", "spu", "batch">> >>)
\* The audit page navigates to the list once the audit is recorded.
Audit == Does(<< <<"goods", "spu", "1", "audit">> >>)
ProductDelete == Does(<< <<"goods", "spu", "1", "delete">> >>)

CouponSave == {Debounced(Does(<<p>>)) :
                 p \in {<<"promotion", "coupon", "1", "update">>, <<"promotion", "coupon", "create">>}}
CouponDelete == [Does(<< <<"promotion", "coupon", "1", "delete">> >>)
                   EXCEPT !.local = TRUE]
\* A coupon without an application gets one first; then it is submitted.
SubmitReview ==
  LET draft == <<"promotion", "application", "">>
      submit == <<"promotion", "application", "1", "submit", "">>
  IN {Does(p) : p \in {<<submit>>, <<draft, submit>>}}

PromoToggle == Does(<< <<"promotion", "coupon", "promo", "1", "">> >>)
PromoDelete == Does(<< <<"promotion", "coupon", "promo", "1", "">> >>)
PromoCreate == Does(<< <<"promotion", "coupon", "1", "promo-codes">> >>)

ActivitySave == {Debounced(Does(<<p>>)) :
                   p \in {<<"promotion", "activity", "1", "update">>, <<"promotion", "activity", "create">>}}
ActivityDelete == Does(<< <<"promotion", "activity", "1", "delete">> >>)
SkusEdit == Does(<<ActivitySkus>>)
SkusClear == [Silent(<<ActivitySkus>>) EXCEPT !.local = TRUE]
SkuPrice == [SkusClear EXCEPT !.onFail = TRUE]

Apply == Does(<< <<"goods", "application">> >>)
ReviseDraft == Does(<< <<"promotion", "application", "1", "">> >>)
SubmitDraft == Does(<< <<"promotion", "application", "1", "submit", "">> >>)
ReviewPending == Does(<< <<"goods", "application", "1", "review">> >>)

GroupCreate == Does(<< <<"admin", "groups", "create", "">> >>)
GroupDelete == Does(<< <<"admin", "groups", "team", "delete">> >>)
MemberAdd == Does(<<MemberList>>)
MemberRemove == Does(<< <<"admin", "groups", "team", "members", "ZG">> >>)

SaveMatrix == [Silent(<<Matrix>>) EXCEPT !.local = TRUE]
SaveUserRoles == Does(<< <<"admin", "users", "ZG", "roles">> >>)
CreateAdmin == Does(<< <<"admin", "users", "create", "">> >>)

\* An open detail is loaded again after the table.
Ship == Does(<< <<"order", "admin", "1", "ship", "">> >>)
CancelOrder == Does(<< <<"order", "admin", "1", "cancel", "">> >>)
ReviewAfterSale == Does(<< <<"order", "admin", "aftersale", "1", "review", "">> >>)

SaveTemplate == Silent(<< <<"users", "email", "templates", "welcome", "">> >>)
ResetTemplate == Does(<< <<"users", "email", "templates", "welcome", "reset", "">> >>)

MarkRead == [Silent(<< <<"notification", "1", "read", "">> >>) EXCEPT !.local = TRUE]
MarkAllRead == [Silent(<< <<"notification", "read-all", "">> >>) EXCEPT !.local = TRUE]

\* The customer's account, order, product and coupon pages.
AddressCreate == Does(<<AddressBook>>)
AddressChange == Does(<< <<"address", "1", "">> >>)
ClaimCoupon == Does(<< <<"promotion", "code", "claim", "">> >>)
ClaimByPromoCode == Does(<< <<"promotion", "promo", "code", "claim", "">> >>)
CancelOwnOrder == [Does(<< <<"order", "ZG", "cancel", "">> >>) EXCEPT !.local = TRUE]
RequestRefund == Does(<< <<"payment", "refund", "">> >>)
SubmitOwnReview == Does(<< <<"review", "create", "">> >>)
CreateConversation == Does(<<Conversations>>)
CloseConversation == Does(<< <<"chat", "conversations", "1", "close", "">> >>)

----------------------------------------------------------------------------
\* What a handler does to a list: how many mutations it sends, the ones that invalidate
\* the list, and the rest.
On(list, h) == [sends |-> Len(h.paths),
                drops |-> {i \in DOMAIN h.paths : Covers(ResourceBase(h.paths[i]), list)},
                onOk |-> h.onOk, onFail |-> h.onFail, local |-> h.local, once |-> h.once]

\* Loading these lists in vain empties their display; the others keep what they show.
Emptied == {MemberList, ActivitySkus, AddressBook, CouponOffers}

\* The screens: what can be done to the list each shows, whether a failed GET empties the
\* display, and whether it polls.
Screen(list, does) ==
  [does |-> {On(list, h) : h \in does}, empties |-> list \in Emptied, polls |-> "no"]

Brands == Screen(BrandList, BrandSave \cup {BrandDelete})
Tags == Screen(TagList, TagSave \cup {TagDelete})
Categories == Screen(CategoryTree, {CategorySave, CategoryCreate, CategoryDelete, CategoryMigrate})
RecycleBin == Screen(RecycleList, {Restore, PermanentDelete})
Products == Screen(ProductList, {Shelf, SubmitAudit, BatchAction, Audit, ProductDelete})
Coupons == Screen(CouponList, CouponSave \cup {CouponDelete})
CouponReviews == Screen(CouponApps, SubmitReview)
PromoCodes == Screen(PromoBoard, {PromoToggle, PromoDelete, PromoCreate})
Activities == Screen(ActivityList, ActivitySave \cup {ActivityDelete})
LinkedSkus == Screen(ActivitySkus, {SkusEdit, SkusClear, SkuPrice})
ApplicationsMine == Screen(MyApps, {Apply, ReviseDraft, SubmitDraft})
ApplicationsPending == Screen(PendingApps, {ReviewPending})
Groups == Screen(GroupList, {GroupCreate, GroupDelete})
Members == Screen(MemberList, {MemberAdd, MemberRemove})
Rbac == Screen(Matrix, {SaveMatrix})
RbacUsers == Screen(UserList, {SaveUserRoles, CreateAdmin})
Orders == Screen(OrderList, {Ship, CancelOrder})
OrderPanel == Screen(OrderDetail, {Ship, CancelOrder})
AfterSaleTab == Screen(AfterSales, {ReviewAfterSale})
EmailTemplates == Screen(Templates, {SaveTemplate, ResetTemplate})
Notifications == Screen(Notices, {MarkRead, MarkAllRead})
Bell == [Screen(UnreadCount, {}) EXCEPT !.polls = "always"]
ChatList == [Screen(Conversations, {}) EXCEPT !.polls = "always"]
TaskCenter == [Screen(TaskList, {}) EXCEPT !.polls = "always"]
\* The task page polls while a task is running; change 1 is the end of the task.
Tasks == [Screen(TaskList, {}) EXCEPT !.polls = "running"]

Addresses == Screen(AddressBook, {AddressCreate, AddressChange})
CouponCenter == Screen(CouponOffers, {ClaimCoupon})
CouponShare == Screen(SharedCoupon, {ClaimCoupon})
PromoShare == Screen(SharedPromo, {ClaimByPromoCode})
CustomerOrder == Screen(OwnOrder, {CancelOwnOrder})
Refunds == Screen(OwnRefunds, {RequestRefund})
Reviews == Screen(ProductReviews, {SubmitOwnReview})
\* Loading the conversations in vain empties the customer's list, but not the agents'.
Support == [Screen(Conversations, {CreateConversation, CloseConversation})
              EXCEPT !.empties = TRUE]

Screens == {Brands, Tags, Categories, RecycleBin, Products, Coupons, CouponReviews,
            PromoCodes, Activities, LinkedSkus, ApplicationsMine, ApplicationsPending,
            Groups, Members, Rbac, RbacUsers, Orders, OrderPanel, AfterSaleTab,
            EmailTemplates, Notifications, Bell, ChatList, TaskCenter, Tasks,
            Addresses, CouponCenter, CouponShare, PromoShare, CustomerOrder, Refunds,
            Reviews, Support}

List == <<"list">>           \* the key of the screen's GET in the cache
Changes == 1..MaxChanges
Late == Ttl + Flight + 1     \* since stops counting here

----------------------------------------------------------------------------
TypeOK ==
  /\ screen \in Screens
  /\ made \in 0..MaxChanges
  /\ shown \subseteq 1..made
  /\ own \subseteq (1..made) \X BOOLEAN
  /\ clouded \in BOOLEAN
  /\ since \in 0..Late
  /\ gets \subseteq [served : BOOLEAN, body : 0..made, old : 0..Flight, left : 0..Flight]
  /\ \A g \in gets : g.old + g.left <= Flight
  /\ calls \subseteq [does : screen.does, step : Nat, ran : 0..made]
  /\ lock \in 0..Guard
  /\ slow \in BOOLEAN
  /\ faults \in 0..MaxFaults
  /\ DOMAIN cache \subseteq {List}
  /\ \A k \in DOMAIN cache : cache[k].body \in 0..made
  /\ timers \subseteq {List} \X (0..Ttl)

\* The screen has just loaded a list without changes, and nothing of it is cached any more.
Init ==
  /\ screen \in Screens
  /\ made = 0 /\ shown = {} /\ own = {} /\ clouded = FALSE /\ since = Late
  /\ gets = {} /\ calls = {} /\ lock = 0 /\ slow = FALSE /\ faults = 0
  /\ CacheInit

----------------------------------------------------------------------------
\* Entries gone are dropped from the cache, then the list is loaded: what is still
\* cached replaces the display at once, otherwise a GET is sent and base is shown.
Load(gone, base) ==
  LET hits == DOMAIN cache \ gone
  IN /\ Reuse(gone, hits)
     /\ shown' = IF hits # {} THEN 1..cache[List].body ELSE base
     /\ gets' = IF hits # {} THEN gets
                ELSE gets \cup {[served |-> FALSE, body |-> 0, old |-> 0, left |-> Flight]}

\* A list is loaded or not, as told.
MaybeLoad(loads, gone, base) ==
  IF loads THEN Load(gone, base)
  ELSE Reuse(gone, {}) /\ shown' = base /\ gets' = gets

Room == Cardinality(gets) + Cardinality(calls) < MaxFlying

\* The screen is mounted again, a filter is set back or the page is retried.
Open ==
  /\ Room
  /\ Load({}, shown)
  /\ UNCHANGED <<screen, serverVars, calls, own, clouded, lockVars, faults>>

\* Mutant: a GET that failed stops the polling.
Poll_StopsOnError ==
  /\ screen.polls = "always" /\ ~clouded
  /\ Room
  /\ Load({}, shown)
  /\ UNCHANGED <<screen, serverVars, calls, own, clouded, lockVars, faults>>

\* setInterval of a screen that polls loads the list.
Poll ==
  /\ \/ screen.polls = "always"
     \/ screen.polls = "running" /\ 1 \notin shown
  /\ Room
  /\ Load({}, shown)
  /\ UNCHANGED <<screen, serverVars, calls, own, clouded, lockVars, faults>>

\* The server answers a GET with what the list contains now.
Serve(g) ==
  /\ ~g.served
  /\ gets' = (gets \ {g}) \cup {[g EXCEPT !.served = TRUE, !.body = made]}
  /\ UNCHANGED <<screen, serverVars, shown, calls, own, clouded, lockVars, faults, cacheVars>>

\* The answer arrives: it is cached and shown, even if a newer one was shown before.
Arrive(g) ==
  /\ g.served
  /\ Store(List, g.body, g.old)
  /\ shown' = 1..g.body
  /\ gets' = gets \ {g}
  /\ UNCHANGED <<screen, serverVars, calls, own, clouded, lockVars, faults>>

\* The GET fails or times out: the entry is deleted and the display stays, or is emptied.
GetFails(g) ==
  /\ faults < MaxFaults
  /\ faults' = faults + 1
  /\ Reuse(DOMAIN cache, {})
  /\ shown' = IF screen.empties THEN {} ELSE shown
  /\ gets' = gets \ {g}
  /\ clouded' = TRUE
  /\ UNCHANGED <<screen, serverVars, calls, own, lockVars>>

----------------------------------------------------------------------------
\* Mutant: the lock of a save is not looked at.
Start_Unlocked(h) ==
  LET c == [does |-> h, step |-> 1, ran |-> 0]
  IN /\ Room
     /\ c \notin calls
     /\ lock' = IF h.once THEN Guard ELSE lock
     /\ calls' = calls \cup {c}
     /\ UNCHANGED <<screen, serverVars, shown, gets, own, clouded, slow, faults, cacheVars>>

\* A handler sends its first mutation; a save that is locked does nothing.
Start(h) ==
  LET c == [does |-> h, step |-> 1, ran |-> 0]
  IN /\ Room
     /\ c \notin calls
     /\ h.once => lock = 0
     /\ lock' = IF h.once THEN Guard ELSE lock
     /\ calls' = calls \cup {c}
     /\ UNCHANGED <<screen, serverVars, shown, gets, own, clouded, slow, faults, cacheVars>>

\* The server changes the list.
ChangeList == made < MaxChanges /\ made' = made + 1 /\ since' = 0

\* The server runs a mutation.
Execute(c) ==
  /\ c.ran = 0
  /\ ChangeList
  /\ calls' = (calls \ {c}) \cup {[c EXCEPT !.ran = made + 1]}
  /\ UNCHANGED <<screen, shown, gets, own, clouded, lockVars, faults, cacheVars>>

\* Another admin, a customer or a background job changes the list.
OthersChange ==
  /\ ChangeList
  /\ UNCHANGED <<screen, pageVars, lockVars, faults, cacheVars>>

\* Mutant: the entries are deleted only after the handler has gone on.
Dropped_TooLate(c) == {}

\* The entries the response interceptor deletes after the mutation c has sent.
Dropped(c) == IF c.step \in c.does.drops THEN DOMAIN cache ELSE {}

\* The mutation succeeded and the handler has another one to send.
NextCall(c) ==
  /\ c.ran # 0
  /\ c.step < c.does.sends
  /\ Reuse(Dropped(c), {})
  /\ calls' = (calls \ {c}) \cup {[c EXCEPT !.step = @ + 1, !.ran = 0]}
  /\ UNCHANGED <<screen, serverVars, shown, gets, own, clouded, lockVars, faults>>

\* useDebounceSubmit unlocks when the promise of a save settles, whichever save it was.
Unlock(h) == lock' = IF h.once THEN 0 ELSE lock

\* The last mutation succeeded: its entries are invalidated, the handler updates its
\* display and loads the list again.
CallOk(c) ==
  LET h == c.does
      base == IF h.local THEN shown \cup {c.ran} ELSE shown
  IN /\ c.ran # 0
     /\ c.step = h.sends
     /\ MaybeLoad(h.onOk, Dropped(c), base)
     /\ own' = own \cup (IF h.onOk \/ h.local
                         THEN {<<c.ran, c.step \in h.drops>>} ELSE {})
     /\ clouded' = (clouded \/ gets # {})
     /\ calls' = calls \ {c}
     /\ Unlock(h)
     /\ UNCHANGED <<screen, serverVars, slow, faults>>

\* A mutation is refused, fails or its answer is lost, whether the server ran it or not.
CallFails(c) ==
  /\ faults < MaxFaults
  /\ faults' = faults + 1
  /\ MaybeLoad(c.does.onFail, {}, shown)
  /\ calls' = calls \ {c}
  /\ Unlock(c.does)
  /\ UNCHANGED <<screen, serverVars, own, clouded, slow>>

----------------------------------------------------------------------------
\* A timer of the cache is due.
Expire(t) ==
  /\ Fire(t)
  /\ UNCHANGED <<screen, serverVars, pageVars, lockVars, faults>>

\* Mutant: a GET has no timeout.
Tick_NoTimeout ==
  /\ CacheTick
  /\ gets' = {[g EXCEPT !.left = @ - 1, !.old = IF g.served THEN @ + 1 ELSE 0] : g \in gets}
  /\ since' = IF since = Late THEN Late ELSE since + 1
  /\ lock' = IF lock = 0 THEN 0 ELSE lock - 1
  /\ slow' = (slow \/ lock = 1)
  /\ UNCHANGED <<screen, made, shown, calls, own, clouded, faults>>

\* Time passes while no request is out of time.
Tick ==
  /\ CacheTick
  /\ \A g \in gets : g.left > 0
  /\ gets' = {[g EXCEPT !.left = @ - 1, !.old = IF g.served THEN @ + 1 ELSE 0] : g \in gets}
  /\ since' = IF since = Late THEN Late ELSE since + 1
  /\ lock' = IF lock = 0 THEN 0 ELSE lock - 1
  /\ slow' = (slow \/ lock = 1)
  /\ UNCHANGED <<screen, made, shown, calls, own, clouded, faults>>

Next ==
  \/ Open \/ Poll \/ OthersChange \/ Tick
  \/ \E g \in gets : Serve(g) \/ Arrive(g) \/ GetFails(g)
  \/ \E h \in screen.does : Start(h)
  \/ \E c \in calls : Execute(c) \/ NextCall(c) \/ CallOk(c) \/ CallFails(c)
  \/ \E t \in timers : Expire(t)

Spec == Init /\ [][Next]_vars

\* The browser's timers fire, the clock runs, a screen goes on polling, and a request
\* that is not among the bounded failures is answered.
FairSpec ==
  /\ Spec
  /\ WF_vars(Tick \/ \E t \in timers : Expire(t))
  /\ WF_vars(Poll)
  /\ WF_vars(\E g \in gets : Serve(g) \/ Arrive(g))

----------------------------------------------------------------------------
\* What the cache holds of a list that has not changed for the time to live and a
\* request's flight together is what the server holds (request.ts: an entry is deleted
\* however often it is hit, and an answer that was under way is not kept for longer).
QuietIsFresh ==
  \A k \in DOMAIN cache : since > Ttl + Flight => cache[k].body = made

\* Once nothing is loading, the display contains every change this user made with a
\* mutation whose path covers the list, unless a GET of the list failed or was under way
\* when the server confirmed a change (the response interceptor invalidates before the
\* page loads again).
OwnChangeShown ==
  gets = {} /\ ~clouded => \A n \in Changes : <<n, TRUE>> \in own => n \in shown

\* Two saves of one form run together only after a save outlasted useDebounceSubmit's
\* guard (the lock is freed when a save settles or hangs, never before).
SavesOverlapOnlyWhenSlow ==
  \A c, d \in calls : c.does.once /\ d.does.once /\ c # d => slow

\* A screen that polls shows the end of a task or a new message in the end, although all
\* its polls within the time to live are answered from the cache.
PollersCatchUp ==
  (screen.polls # "no" /\ made > 0) ~> (1 \in shown)
=============================================================================
