# Ziggner: a TLA+ model of the shop's orders, payments and front end

Ziggner is a Django/Celery shop (`src/backend`) with a React front end
(`src/web/react`), MySQL for rows, Redis for caches and locks, and external
payment gateways (Stripe, PayPal, Creem; Alipay and a mock exist as adapters).
Two things in it are hard. On the server an order, its stock, its coupon and its
payments are changed by HTTP requests, gateway webhooks, status polls,
administrators and Celery Beat jobs at the same time, some under row locks and
some not. In the browser every page shows answers that are cached for 30 seconds,
may be overtaken by others, and are mixed with what the page itself has done and
with what a WebSocket pushes. This directory models both: the life of an order
from checkout to refund with the campaigns it spends, and the tabs of a shopper,
an administrator and a customer-service agent. TLC checks the models on small
instances; TLAPS proves most of the invariants for instances of any size.

Paths below are relative to `src/backend/apps/` (server) or
`src/web/react/src/` (`.ts`, `.tsx`) unless they start with `src/`.

## 1. Inventory

| Component | State | Operations | Interacts with | Hard behaviour | What makes it correct |
|---|---|---|---|---|---|
| orders (`order/`) | `Order.status`, `payment_status`, `payment_no`, `payment_deadline`, `delivered_at`, `user_coupon`; `SKU.stock`; `Shipment`; `AfterSale.status` | `checkout`, `pay`, `cancel` (customer, admin, Beat), `ship`, `deliver`, `complete`, after-sale application and review | coupons and stock in the same transaction; payments call `pay`; refunds ask for an approved after-sale | customer, admin, Beat and gateway race for one row; the admin views lock nothing | stock is conserved; a decided order stays decided; every order is decided; each step has the one before it behind it |
| payments (`payment/`) | `PaymentLog`, `PaymentEvent` | `create_payment`, `handle_webhook`, `get_status`, `sync_expired_payments` | gateway calls outside transactions; `Order.pay` | lost, repeated and late webhooks; polls on stale rows; crashes between two transactions | money received pays its order or goes back |
| refunds (`payment/`) | `RefundLog` rows, `reconcile_attempts` | `create_refund`, `_finalize_refund`, `reconcile_unknown_refunds` | gateway; order payment status; coupon return | unknown outcomes, replay, overlapping reconciliation runs | never more than the payment; recorded outcomes are real |
| gateways (`src/backend/payment/gateways/`) | none | create and retrieve payment, create and query refund | the providers' HTTP APIs | what counts as a refusal, what is idempotent | an answer says what happened |
| promotion (`promotion/`) | `Coupon` counters, `UserCoupon.status`, `PromoCode` counters, `CouponApplication.status` | claim, lock, consume, release, return, application workflow, admin edits | orders, refunds | limits under concurrency; unlocked full-row admin edits; lock order | limits are kept; counters match rows; a coupon follows its order |
| cart (`cart/`, `store/CartContext.tsx`) | `CartItem` rows; the tab's `items` | add, update, remove, clear, checkout | GET cache, orders | the tab acts on items that are cached, stale or already ordered | nothing is ordered twice |
| customer service (`customer_service/`, `pages/Chat`, `pages/Admin/AdminChatDetail.tsx`) | conversations, messages, `_user_connections`; the page's messages and socket | post, load, push, acknowledge, close, take over | channels layer, GET cache | pushes, answers and loads of one message in any order; connections lost or taken over | what others write is shown once; nothing stays "sending"; read means opened |
| web front end (`src/web/react/src`) | `pendingRequests`, one display per page | load, mutate, invalidate, poll, submit through `useDebounceSubmit` | every API | cached, late and overtaking answers; overlapping saves; failures halfway | own changes are shown; pages reach a verdict and a true one |
| goods (`goods/`) | SPU/SKU publish states, applications, caches, bloom filter | review, scheduled publish, import | cache invalidation | unlocked scheduled publish against manual edits | only approved goods are sold |
| users (`users/`) | sessions, tokens, verification codes | register, log in, refresh, verify | cache | counter and one-time code are read and written in separate steps | a code is used once, guesses are bounded |
| cache and limits (`src/backend/utils/`, `src/backend/middleware/`) | Redis keys | rebuild under a lock, sliding window, token bucket | every view | lock expiry, stale refill, check-then-add | one rebuild at a time; no stale value survives |
| address, review, favourites, tracking, notification, support, logistics, rbac, health | rows of one user | CRUD | orders | little | uniqueness of defaults and limits |
| project and deployment | settings, Beat schedule | start-up | all | - | the schedules the models' fairness relies on |

The hazards found in this code are listed in `PROJECT.json` at the line where
they bite, each with the properties that would notice it.

## 2. What is modelled

### `OrderPayment`: from checkout to paid or cancelled

State and code: `status`, `payStatus`, `paidBy`, `applied` are columns of
`Order`; `stock` is `SKU.stock`; `couponStatus`/`couponOrder` are columns of
`UserCoupon`; `log`, `logOrder` are `PaymentLog`; `processed` counts the
`PaymentEvent` rows of each kind (an event that is repeated finds its row; a new one of the
same kind, up to `MaxEvents`, does not); `lateRefund` marks payments with a `late-payment:`
`RefundLog` row. `due` and `age` are the clock as far as the code looks at it
(`payment_deadline`; 15 minutes and 24 hours of a pending payment). `charge`
and `declined` are what really happened at the gateway. `step` is how far the
`create_payment` call that made the row has come. `pc`/`on` are the unlocked
jobs under way.

A handler that locks what it decides on (`SELECT ... FOR UPDATE` inside
`transaction.atomic`) is one action: `Checkout`, `UserCancel`, `AutoCancel`,
`LazyRelease`, `CreatePayment`, the three webhook actions. The other handlers
are split at every point where another process can run:

- `create_payment` is three steps (reserve the row, call the gateway, save the
  gateway's id), and may die between any two of them: it then simply never takes
  its next step;
- the admin's cancellation reads the order (`AdminCancelRead`) and later saves
  every column of that copy (`AdminCancelWrite`);
- polling and `sync_expired_payments` read a pending row (`PollRead`), write the
  gateway's answer to it (`PollAnswer`), read the order (`PollReadOrder`) and pay
  it (`PollPay`); giving a payment up is `AbandonRead`/`AbandonWrite`;
- `WorkerCrash` ends any of them in between.

`LockedSpec` is the system without these unlocked handlers, `Spec` all of it.
`WebhookUnpaid` takes declines, cancellations and the provider's word that a refund is
complete, which it can have only of a refund this shop has asked for (`lateRefund` here);
events of other types only file their payload.
MySQL runs at Django's default isolation level, READ COMMITTED, so a locked
handler sees the latest committed rows.

### `OrderPromise`: what the shop promises

Four actions on three variables: an order takes a unit, is paid by one payment
or withdrawn, a withdrawn order gives its unit back once, and each acknowledged
payment is kept for one order or owed back. `OrderPayment!Promise` maps the
detailed state to it; `ImplementsPromise` is the refinement.

### `Fulfilment`: from payment to receipt, after-sale and refund

One order and everything that writes to its row afterwards, together with the
handlers from before that still may. `row` is `Order.status`, `payment_status` and
`delivered_at`; `shipment` the existence of the `Shipment`; `claim` the `AfterSale`
rows; `payment` and `refund` the `PaymentLog` and the `RefundLog` rows, of which
there may be two, the one somebody asks for and the one a late webhook creates.
A payment is "pending" until its money is recorded, and "dropped" when FAILED or CANCELLED
is written over that: by the webhook of a declined attempt that arrives late (`LateWebhook`)
or by the job that gives a payment up on what it read a day after it was made (`AbandonSave`).
`Cancel`, `Webhook`, `ConfirmDelivered`, `AutoComplete`, `ApplyAfterSale`, `CreateRefund`
and `FinalizeRefund` lock the order. The admin's cancel, ship and review, the
status poll and that job do not: each is a job that keeps the row it has read (`ShipRead`,
`ShipSave`, ...) and writes all of it back. `confirmed`, `approved` and `asked`
are history, for `Trail`.

### `Refund`: the refunds of one payment

Money is a set of units, so a refund reserves a subset and "the sum of the
refunds" is a union. `row`, `part`, `hasId`, `attempts` are `RefundLog`;
`payLog`, `payStatus`, `coupon` the rows `_finalize_refund` also writes; `call`
is the `create_refund` request between its two transactions; `batch` and `job`
are overlapping runs of `reconcile_unknown_refunds`, each with the values it
read without a lock. Three constants say what kind of gateway it is:
`Idempotent` (request ids honoured: Stripe, PayPal), `Queryable` (refunds can be
looked up), `Strict` (only a rejection of the refund itself is reported as one).
`gw` and `times` are what the gateway did, and how often it paid out.

The order's payment status and the `PaymentLog` have other writers, and they are here as well:
`CompleteRefund` is a completed after-sale, which sets the order refunded without a refund;
`Webhook` an event over a payment that is not SUCCESS any more; `PollSaves` a poll or the sync
job that read the payment PENDING (each of `polls` once); `OrderRead`/`OrderSave` an admin who
ships a copy of the order (`copy`, one save in all). So the books say at times what no refund has
done, and `BooksFollowRefunds` says what is left: whoever wrote before, each step that changes a
refund leaves the order at what the refunds add up to, and only the one that returns the last
unit closes the payment and gives the coupon back. The order stands throughout: money for a
cancelled order is `OrderPayment`'s.

### `RefundPromise`: what the shop promises about refunds

Four actions: a refund asks for units nobody else holds, the gateway moves its money
once, a refund whose money has moved counts as returned, or it is declined and lets its
units go. Neither answer is taken back, and the payment is closed by the refund that
returns the last of it, which may give the coupon back. `closed` is what the refunds say of the
payment, not the `PaymentLog` row, which others write. `Refund!Promise` maps `RefundLog`
to it: PENDING and UNKNOWN rows are both "asked", `Share` is the part of a row that is not
FAILED, and money has moved when the gateway paid out at least once, so that a second
payment by a gateway without request ids is a stutter (`PaidOutOnce` is about that).
`ImplementsRefundPromise` is the refinement.

### `Promotion`: one coupon campaign

`app`, `appTotal` are the `CouponApplication`, its issue size standing for all of
its material; `active`, `window`, `total`, `claimed`, `used` the `Coupon`, where
`window` is the clock against its start and end; `status`, `owner`, `via` the
`UserCoupon` rows; `code`, `claims`, `paid` the `PromoCode` rows. Claims, locks,
redemptions, releases and returns hold row locks and are one action each; orders
appear only through what they do to the row they hold. The two admin edit views
lock nothing and save every column of the copy they read: `PutRead`/`PutSave` for
the coupon, `PatchRead`/`PatchSave` for a promo code (whose save inserts the row
again if it was deleted meanwhile). Each request runs once. The ghost `lost`
names the rows whose counters such a save set back, `edited` says that an admin
changed the coupon past its application: the properties say what holds until
then, and `TypeOK` what holds even after.

### `RequestUrl`, `HttpCache`: the GET cache of the front end

`api/request.ts` keeps the answer of every GET for `DEDUP_TTL`, answers repeated
GETs from it, and after each successful mutation deletes the entries whose key
starts with the mutation's `resourceBase`. `RequestUrl` computes that on real paths,
so a model says for each handler whether it really invalidates the list it loads
again: `PUT /address/1/` does not cover `/address/`, `POST /address/` does.
`HttpCache` is the cache with its timers: a hit puts the entry back with one more
timer and cancels none, so the first timer due deletes whatever is stored by then.

### `AdminConsole`: lists that are loaded, changed and loaded again

A page is a record of what its handlers do: the mutations each sends one after
the other, which of them cover the list, whether it loads the list again after
success and failure, whether it updates the display itself, and whether it runs
through `useDebounceSubmit`. 25 screens of the admin console and eight of the
customer's account (addresses, coupon centre, shared coupons, order, refunds,
reviews, conversations) are written down with their paths, and one set of actions
runs them all: `Start`, `Execute`, `NextCall`, `CallOk`, `CallFails`
for handlers, `Open`, `Poll`, `Serve`, `Arrive`, `GetFails` for GETs, `OthersChange`
for everybody else, `Tick` and `Expire` for time. The list on the server is the number
of changes made to it; the display is the set of changes it shows. `lock` is the
guard of `useDebounceSubmit`, which a slow save outlives.

### `StoreFront`: from the cart to the payment and back

`cart`, `orders`, `bought`, `paid` are the server's; `items` is `CartContext`; `gets` and
`calls` are requests in flight; `page` is where the tab is (shop, placing an order, the
provider, the return page, the order page); `polling` is `PaymentReturn`. The calls of a
checkout are steps of their own (`CheckoutOk` sends `create` and `clear`,
`CreateOk` leaves for the provider), each may fail before or after the server ran
it, and the answer of a GET may be overtaken. `OtherDevice` changes the same
cart. `ServerRefuses` refuses any addition, quantity and checkout, since other shoppers
take the stock and a coupon or an address may be wrong, and any item that is gone. Leaving the
page drops what is in flight (`Abandon`).

### `Chat`: a conversation in one tab

`messages`, `thread`, `closed` are the tables, `registered` the process-wide
`_user_connections` of `consumers.py`, `channels` every WebSocket of the tab with the
state of both of its ends and the pushes under way, `page` what the component keeps
(the conversation, the messages shown, `wsRef`, retries and timers, acknowledged
ids), `sends` the mutations and `loads` the GETs in progress. `Greet`, `Accept`,
`Subscribe` are the awaits of `connect`; a new connection of the same user kicks
the old one (`Kick`, `Usurp` from another tab). A message the page sends is shown
under a temporary id until the answer (`Answered`) or its own echo (`Deliver`,
`Merge`) replaces it. `Elsewhere` is everybody else who posts. The tab is a shopper's, an
agent's, or that of a member of staff on the shopper's page, whose messages the server stores as
"admin" and the page takes for somebody else's (`Role` against `MySide`, `Chat.tsx:1033`). The
Enter key sends while the last message is still on its way, so sends overlap.

`Accept` takes the awaits of `connect` that follow the registration together (join the groups,
accept, mark as read): the consumer dispatches neither a disconnection nor `force_disconnect`
before `connect` has returned, so the merge hides one thing, a message stored between `accept` and
the marking, which is marked read too. The await before the registration, where a second
connection can come in between, is a step of its own (`Greet`).

## 3. Runs

| Run | Checks | Instance and result |
|---|---|---|
| `locked` | `TypeOK`, `StockConserved`, `CouponFollowsOrder`, `MoneyAccounted`, `ImplementsPromise` under `LockedSpec` | 2 orders, 2 payments, 1 coupon, 1 unit, 2 events of a kind: two customers compete for the last unit and for a coupon, one order can be paid twice or late. About 585 000 states. |
| `full` | `MoneyBacked`, `SinglePending`, `CouponLockLive`, `NoUnitLost`, `OrderDecided` under `FairSpec` with the unlocked handlers and crashes | 1 order, 2 payments, 1 worker: any unlocked job overlaps with every locked handler. About 1 040 000 states. |
| `after` | `Trail`, `ReturnsRestocked` | 2 after-sales, 2 workers, nothing left on sale. About 3 650 000 states. |
| `refund_safe` | `TypeOK`, `NeverOverReserved`, `FailureIsReal`, `PaidOutOnce`, `BooksFollowRefunds`, `ImplementsRefundPromise` | a Stripe-like gateway; 2 refunds of 2 units, 2 reconciliation workers, 2 attempts; after-sales and webhooks write the books as well. About 1 600 000 states. |
| `refund_worst` | `SuccessIsReal`, `UnknownIsResolved` | a gateway with none of the three virtues; 1 refund, 2 workers, 3 attempts, 1 stale poll and 1 stale shipment. About 538 000 states. |
| `campaign` | `TypeOK`, `CountersTrue`, `CodesCredited`, `LiveAsReviewed`, `NeverOverIssued` | 2 customers, 2 coupons, 1 promo code, 1 admin request, issue sizes 1 and 2, one coupon per user. About 230 000 states. |
| `console` | `TypeOK`, `QuietIsFresh`, `OwnChangeShown`, `SavesOverlapOnlyWhenSlow`, `PollersCatchUp` | every screen; 2 changes, 2 requests or handlers at once, 1 failure, time to live, timeout and guard of one tick. About 865 000 states. |
| `shop` | `TypeOK`, `OrderedOnce`, `SuccessIsPaid`, `OrderLeadsOn`, `ReturnDecides` | 1 SKU, 2 cart items (so two orders), 2 requests at once, 1 failure, 2 polls. About 403 000 states. |
| `chat` | `TypeOK`, `OthersShownOnce`, `TempIsSending`, `AgentSeesAll` | shopper, agent, and staff on the shopper's page; 1 conversation, 2 messages, 2 overlapping sends, 2 sockets, 1 reconnection, 1 failure. About 786 000 states. |
| `chat_switch` | `ReadMeansOpened` | 2 conversations, 1 message, sends of every kind, of a text with its attachment too, 2 sockets. About 1 660 000 states. |
| `paid_cancelled` | `PaidNeverCancelled` | refuted: see section 6. |
| `payment_unseen` | `PaymentSeen` | refuted: see section 6. |

Bounds. Orders interact only through stock and coupons, so two suffice for
every pairwise competition; payments interact only within an order (replaced,
late, double), which two show; two events of a kind are the one that is acted on and the one that
comes again over what followed; with one unit on sale the second checkout finds none unless the
first has given its unit back; a worker holds one job, and every race in the
code is between one stale job and the locked handlers or a second stale job. `full`
has one worker, as its invariants are proved for any number of them; two overlapping stale jobs
are in `after`, where they are two reviews of one after-sale, two
returns, or a review and a shipment. No stock is left on sale there, so that every
unit restored shows.
`age` stops at 2 because the code compares a payment's age with two limits. In
`Refund`, two keys and two units give partial, full and competing refunds, and
`times` is capped at 2, "more than once". Stale polls and shipments, which write the books without
looking, are in `refund_worst` only; that they disturb no answer of `refund_safe` is proved. In `Promotion` two coupons are
the last one and the one too many of an issue of one, or both of an issue of two;
one stale edit suffices to set a counter wrong in either direction, and `MaxPaid`
= 2 lets a returned coupon be redeemed and credited again.

In `AdminConsole` the durations are equal, so that an answer can arrive just before or
after its entry expires and a save just before or after it is unlocked; a GET
and a handler, two GETs (an older answer after a newer one) or two handlers overlap; two
changes are one's own and another's, or two of one's own. In `StoreFront` two cart items are two
orders whose items could coincide, and a first poll that is answered by the server and a second
answered by the cache. In `Chat` a second message arrives while the first is pushed, sent
or loaded, and the second socket is the one that replaces the first; switching
conversations needs a second conversation but only one message. Two sends at once are two texts in
`chat`, which is where their echoes meet; a send of two parts is in `chat_switch`. One failure is a
lost call, answer, push, acknowledgement or connection, at any point.

Symmetry is used only for safety. Deadlock is checked except where the system may
stop: `refund_safe` and `refund_worst`, when every refund is decided or left
`PENDING` by a crash, `after`, when everything is decided, and the two chat runs, when the
bounded messages are used up.

Fairness. `BeatFairness` is the clock and `auto_cancel_unpaid_orders`, which
Beat starts every 300 s (`src/backend/project/config/settings/base.py:816`).
`ReconcileFairness` is `reconcile_unknown_refunds` every 300 s (base.py:841) with
a worker that goes through its batch. In the browser, timers fire and intervals
go on (`setTimeout`, `setInterval`) as long as the page is open, and axios settles
every request, so a GET outside the bounded failures is answered; that is all
that `AdminConsole`, `StoreFront` (with the call that creates the payment) and `Chat`
assume. Nothing is assumed of customers, administrators, gateways, sockets or
pushes.

## 4. Proofs

`OrderPayment_proofs` proves, for any sets of orders, payments, coupons and
workers (orders finite, where units are counted) and any initial stock:

- `TypeCorrect` for `Spec`;
- `MoneyIsBacked`, `PendingIsSingle`, `LocksAreLive` for `Spec` from the inductive
  `BackedInv`. `MoneyBacked` alone is not inductive: a poll that has already
  written SUCCESS pays the order later, so `JobsOK` records what a job in progress
  may rely on, and `RowsOK` that only a saved session can be captured;
- `UnitsAreKept` for `Spec`: a stale cancel restores at least what it stops
  holding (cardinality lemmas on `Held`);
- `StockIsConserved`, `CouponsFollowOrders`, `MoneyIsAccounted`,
  `DecisionsAreFinal` for `LockedSpec`, and `PromiseIsKept`: each locked action is
  a step or a stutter of `OrderPromise`;
- for `Spec` again, where exactly it falls short of `LockedSpec`: every step conserves
  the stock except a cancellation or a poll's payment saved over an order
  cancelled since it was read (`UnitsAreDoubledOnlyOverCancelled`), and only the saves of
  unlocked copies change a decided order or take a SUCCESS payment back
  (`DecisionsChangeOnlyStale`). The second needs `ReceiptsAreReal`, that SUCCESS means
  captured: a poll that finds a session closed then never overwrites a SUCCESS.

`Fulfilment_proofs` proves, for any number of after-sales and workers,
`FulfilmentTypeCorrect`, `TrailIsComplete`, `ReturnsAreRestocked` and `StepsAreOrderly`. `Trail` is not
inductive: a stale copy brings an old status back. `Carried` says what is behind
every job and every state a job starts from: money behind a paid row or a
shipment under way, a receipt behind a review, an approval behind a completion. For the stock, `ReturnCount` and `NoNewReturn` say by how much one save can
enlarge the set of completed returns. `StepsAreOrderly` says that orders and after-sales
take only the steps their methods allow, unless a copy is saved over a row that has left
the status it was read with; it rests on `Read`, what each job has read.

`Refund_proofs` proves, for any keys, units, workers, attempt limit:
`RefundTypeCorrect`, `ReservationsAreSafe`, `SuccessesAreReal`,
`RefundsKeepBooks`, `DecisionsStay` with any gateway, `NothingPaidTwice` for
idempotent ones and `FailuresAreReal` for idempotent strict ones. The argument
rests on `Ownership` (a key's row, call and jobs belong together), `Truth` (what
a job or call was told is true of the gateway), `PaidOnce`, `Closed` and
`Booked` (no unit is in two live refunds, and each refund asks for some). None of them speaks of the
order's payment status or of the `PaymentLog`, which anybody may write, so `RefundsKeepBooks`
is a theorem about steps (`BookedNext`) with any number of admins and polls. From `Ownership`,
`Truth` and `Booked` follows `RefundPromiseIsKept`, with any gateway: every step of `Refund` is a step of
`RefundPromise` or a stutter. `GatewayMoves` maps what the gateway does, `CreateAsks`
the first transaction of a request, and `FinalizeAnswers` the one routine through which the
request, its retry and the reconciliation decide: under the row lock it acts on a
row still undecided, and what it was told, perhaps long before, is still true.
`MoneyLeavesOnce` puts reservations, answers and request ids together: no unit of the
payment leaves twice, by one refund or by two, unless a refund was given up (`capped`).

`Promotion_proofs` proves, for any users, coupons, codes, admin requests and issue
sizes, all five properties of `campaign`: `PromotionTypeCorrect`,
`CountersAreTrue`, `CodesAreCredited`, `NothingOverIssued`, `OffersAreReviewed`. Each
counter is compared with a set of rows, and `RowCount` says how a set of rows grows
and shrinks by one; that a refund finds `used_count` above zero follows from
`CountersTrue`, and the type invariant rests on the guard for the case it is not.
`NothingOverIssued` follows from `CountersTrue` and the guard of `Claim`. Two more bound every
state instead of the step: `IssueStaysBounded` (by the largest issue size, until a counter
is lost) and `PerUserLimitIsKept`, which even lost counters cannot lift, as `claim`
counts the rows; `OnlyClaims` is the lemma behind both.

`HttpCache_proofs` proves lemma by lemma that every operation of the cache keeps
`TimerCovers`: each entry has a timer that ends it before it is older than the time
to live and one flight together. About `resourceBase`, for paths of any length:
`ShorterStays`, a mutation whose path ends in a slash never invalidates a shorter URL,
so that an item's own URL is no use to its list, and `ItemCoversList`, which without the slash
invalidates exactly the keys that begin with its list's path as strings do
(`request.ts:113`): the list, what is below it, and siblings whose names begin like it.

`AdminConsole_proofs` uses them, for every screen, time to live, timeout, guard and bound:
`ConsoleTypes`, `ConsoleQuietIsFresh`, `ConsoleOwnChangeShown`, `ConsoleSavesOverlap`. The
invariant adds to the types that an answer that differs from the server's list is older
than the list's last change (`Kept`), that cached and served answers contain the
covered changes unless clouded (`OwnKept`), and that one save at most runs, with the
lock, until one has outlived it (`Locked`).

`StoreFront_proofs` proves `ShopOrderedOnce` (an item leaves the cart when it is ordered and
ids are not reused), `ShopSuccessIsPaid` (a positive answer, in flight or cached, is true
of the order it was asked for) and `ShopTypes`, for any SKUs, bounds and number of polls. For
the last, `Shaped` adds to the types that the tab's order exists and that a checkout the
server has run put an item it names into an order. `CartStaysCached` says why the cart
shows its old contents after every change: no mutation of the shop covers `/cart/`.

`Chat_proofs` proves `TypeCorrect`, `OthersOnce`, `NoneStaysSending` and `ReadIsOpened` for any
conversations, messages, sockets, retries, failures and mutations under way at once.
`Sane` is the types with the fact that every id shown, queued, sent or cached is a message of the
table and stands in its conversation once; `Temporary` is that each temporary id shown stands
once and belongs to a send in progress, whichever sends end first, and that what may stand twice
is the tab's own (`Once`, `Mine`); `Reading` is that what a shopper's tab shows, loads,
caches, is pushed or marks as read comes from conversations it has dialled.

Assumptions: `StockAssumption`, `OrdersAssumption`, `PaymentAssumption`,
`ClaimsAssumption`, `OnSaleAssumption`, `MaxAssumption`, `UnitsAssumption`, `GatewayAssumption`,
`KeyAssumption`, `PromotionAssumption`, `TtlAssumption`, `FlightAssumption`, `GuardAssumption`,
`BoundsAssumption`, `ShopAssumption`, `ChatAssumption`, `EventsAssumption`.

Every invariant and action property of the passing runs and both refinements are proved.
Only model-checked: the liveness properties (`OrderDecided`, `UnknownIsResolved`,
`PollersCatchUp`, `OrderLeadsOn`, `ReturnDecides`, `AgentSeesAll`), since liveness under
fairness and ENABLED are outside what TLAPS proves here. Induction over data is outside
it too; no theorem needs it, as no model computes by recursion.

## 5. Not modelled

On the server: HTTP, signatures, amounts and currencies of webhooks (a wrong amount
changes nothing but a log line); several SKUs per order (each is treated as the one
modelled); the Alipay adapter, which cannot pay; tracking numbers and logistics
updates, which no decision depends on; partial refunds within `Fulfilment` (they are
`Refund`'s). Of promotion: deleting a `Coupon` (its rows go with it), audiences and
scopes, which only refuse, discounts, campaigns entered without an application,
activities, `per_user_limit` as part of the revised material, and
`use`/`use_by_code`, which nothing calls. Verification codes and the cache rebuild
lock: both are best effort by design (read and write back without atomicity, a lock
that expires without a token), so no bound holds that is worth stating. Rate limits,
for the same reason. The goods publishing workflow acts on unlocked copies throughout
and promises nothing under concurrency. Which of several agents holds a conversation
stands in `Chat` as a post that may be refused.

In the browser: rendering, styled components, translations and static templates, a large
part of the front end's lines; pages that only load and show; forms before
they are sent; buttons disabled while a page is busy (the models let any two handlers
overlap, which allows more than the pages do); favourites and the shopper's
notifications, which change their display before the call and take it back;
the session and its refresh; the product form (`AdminProductForm.tsx`)
and the media manager, whose state is a form and not a list of the server; uploads.

## 6. Where code and text disagree

Two runs refute a statement of the repository, and are findings in `PROJECT.json`.

- `paid_cancelled`: `order/models.py:228` lets only pending orders be cancelled, but the
  admin's cancel saves a copy read without a lock over an order paid in between.
- `payment_unseen`: `pages/PaymentReturn/PaymentReturn.tsx:92` polls ten times at two
  seconds' distance, but all polls after the first are answered from the cache of 30 s.

Seen while modelling, and without a run of their own. Orders, payments and refunds:

- `payment/services.py:260` promises "Automatic refund for payment received after order
  cancellation", which only the webhook keeps: polling marks the payment of a cancelled
  order SUCCESS (788), `pay()` raises (790), nothing is refunded, and later
  webhooks are answered `already_processed` (202);
- `promotion/services.py:163` and 173 say a lazily released coupon cannot collide with a
  payment under way, but the coupon of an overdue pending order is freed
  (170) while its payment session is still open;
- `payment/services.py:711` compensates lost webhooks, but asks only about PENDING payments
  (725), while `order/tasks.py:60`, a second `create_payment` (123) and the job itself (733) set
  rows CANCELLED without closing the session;
- `payment/serializers.py:38` describes an idempotency key for refunds; `CreemGateway` never sends it
  (`src/backend/payment/gateways/creem.py:174`) and cannot query (207), so
  reconciliation replays a refund and pays it out again;
- `src/backend/payment/gateways/base.py:16` reserves `GatewayRefundRejectedError` for refunds that were not
  created; PayPal raises it for every 4xx, throttling included (`paypal.py:160`, 206);
- an admin cancellation from a stale copy of an already cancelled order restores
  the stock twice (`order/admin_views.py:201`); `NoUnitLost` is therefore `>=`;
- `order/admin_views.py:196` says an admin may cancel paid orders and
  `order/views.py:95` that cancelling a paid order restores stock; `Order.cancel`
  refuses both;
- a refund whose attempts are used up becomes FAILED even if it was paid out
  (`payment/services.py:644`); `FailureIsReal` excludes these `capped` rows;
- a Creem answer that is not JSON raises ValueError (`creem.py:199`) and is recorded as
  FAILED though the refund may have been made;
- a request that dies after reserving leaves a PENDING refund nothing picks up
  (`payment/services.py:636` lists only UNKNOWN rows);
- `order/models.py:178` says only paid orders can be shipped; `ship()` on a stale copy sets
  delivered, completed or cancelled orders back to shipped, and resets `payment_status`
  with them, over whatever a refund has written there (`OrderSave` in `Refund`). A second admin's
  `ship` overwrites the order's tracking number but not the shipment's;
- two overlapping `complete_refund` saves restore the stock twice, and a stale approval or
  rejection overwrites a completed after-sale; each completed return restores the
  whole order. `ReturnsRestocked` is therefore `>=`;
- `complete_refund` marks the order refunded without any refund at the gateway, after which
  `create_refund` answers `ORDER_ALREADY_REFUNDED`: the customer cannot get the money
  through the API. No invariant therefore says that order, payment and refunds agree;
  `BooksFollowRefunds` is about the steps of refunds;
- a webhook with a new event for a payment already REFUNDED is not "already processed"
  (`payment/services.py:202` tests SUCCESS only): for a cancelled order it sets the
  payment to SUCCESS and puts a second refund down; a late decline or cancellation sets it
  FAILED or CANCELLED (270-275), for any order;
- a coupon edit saved from a stale copy sets `claimed_count` back
  (`promotion/admin_views.py:63`), after which claims go beyond `total_count`, "发行总量"
  (`promotion/models.py:76`); `CouponAdminSerializer` also lets a request set
  `claimed_count` itself (`promotion/serializers.py:34`);
- `lock` marks an out-of-date coupon EXPIRED and raises inside the same
  transaction (`promotion/services.py:271`), so the mark is always rolled back;
- a revision switches a running campaign off; customers who list their coupons
  before it is approved again lose the unspent ones for good
  (`promotion/services.py:146`).

The front end:

- `api/request.ts:107` says a mutation invalidates its list, but `/cart/items/...`,
  `/cart/clear/`, `/address/1/`, `/order/.../cancel/`, `/review/create/` and many admin paths do not
  cover the list they change: the reload that follows shows the old list for up to 30 s,
  and an order just shown as cancelled is shown pending again. `OwnChangeShown` therefore speaks of covering
  mutations only;
- the "+" of a cart line counts from the items shown, so increments are lost; the checkout sends
  the ids shown and then clears the whole cart of the server (`store/CartContext.tsx:105`), so an item
  added on another device disappears without being ordered; every press of the order
  button has an idempotency key of its own (`pages/Checkout/Checkout.tsx:830`);
- the lock of `useDebounceSubmit` is freed by whichever save settles (49-59), so that a third save may run
  beside a slow second one;
- `AdminProductForm.tsx` sends a sequence of calls that is not resumed after a failure: a retry
  creates a second product although line 1460 wants to avoid that, a retry after a deleted
  SKU gets 404 and can never pass, and failed image uploads are swallowed.

The chat:

- an agent's socket hears every shopper's message (`chat_admin_broadcast`), and neither
  `AdminChatDetail.tsx:1028-1035` nor `mergeWsMessage` compares the conversation: it is shown in
  the open window, acknowledged and becomes read. `ReadMeansOpened` speaks of shoppers only;
- a load replaces the list by an answer up to 30 s old, so the newest message vanishes for
  a while; the POST of a message does not cover the conversation's key;
- the shopper's page has no poll: a push lost before `Subscribe` or while disconnected is
  lost until the next load, hence `AgentSeesAll` and no such promise for shoppers. It says
  "in the end" only: the agent's poll every three seconds (`constants.ts:29-31`) is answered
  by the cache for thirty;
- the Enter key does not wait for the previous send (`Chat.tsx:1018`), and an echo replaces
  the first temporary message, whichever it is the echo of: a message of the tab's own may be
  shown twice until the next load. `Chat.tsx:1033` means to recognise one's own messages, but
  goes by the sender's side, so that of staff on the shopper's page appears beside its temporary
  twin and stays twice when the answer replaces that. Both are in the model;
  `OthersShownOnce` promises nothing of one's own messages;
- two connections of one user at the same time both stay (`consumers.py:93-100` reads, awaits and
  assigns), and two tabs of one user disconnect each other for ever, as `onopen` resets
  the retry counter;
- `SupportPanel.tsx` marks a message that failed as sent.

## 7. What could come next

`Coupon` deletion while orders hold its coupons, and the over-issue after a stale edit
as a run of its own; several SKUs per order; partial refunds of an order that is cancelled and
paid late (`Refund` has the order standing, `Fulfilment` refunds in full); a promise about one's
own messages in `Chat` once the page serialises its sends; the session's refresh against logout;
the product form as a resumable sequence.
