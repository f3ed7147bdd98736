----------------------------- MODULE StoreFront -----------------------------
(***************************************************************************)
(* One browser tab of the shop, from the cart to the payment: CartContext  *)
(* over the GET cache, the cart and checkout pages, the way to the         *)
(* payment provider and back, and the page that polls the payment status.  *)
(* The server's cart is changed by the tab and by the shopper's other      *)
(* devices.  Payments are OrderPayment's subject: here an order is paid    *)
(* or not.  Prices, coupons and addresses are left out, and so is the      *)
(* selected flag of a cart item, which the front end never clears.  Time   *)
(* is left out: a cached answer may expire at any moment or never.         *)
(***************************************************************************)
EXTENDS RequestUrl, FiniteSets, Functions

CONSTANTS
  Skus,         \* what can be bought
  NoSku,
  MaxQuantity,  \* the most there ever is of each on sale
  MaxItems,     \* bounds the cart items ever created
  MaxFlying,    \* bounds the requests in flight
  MaxFaults,    \* bounds the requests that fail or are lost
  Polls         \* polls of the payment status (maxAttempts)

ASSUME ShopAssumption ==
  /\ MaxQuantity \in Nat /\ MaxItems \in Nat /\ MaxFlying \in Nat /\ MaxFaults \in Nat
  /\ Polls \in Nat \ {0} /\ NoSku \notin Skus

VARIABLES
  cart,     \* the server's cart: item id -> SKU and quantity
  created,  \* number of cart items ever created; the next one has the next id
  orders,   \* number of orders
  bought,   \* of each order the ids of the cart items in it
  paid,     \* the orders the server knows to be paid
  items,    \* CartContext's items, the cart as the tab shows it
  gets,     \* GETs of the cart in flight
  calls,    \* mutations in flight
  page,     \* where the checkout has got to
  orderNo,  \* the order the page has been told of, 0 if none
  polling,  \* PaymentReturn: what it is doing, the attempts made, the verdict it shows and
            \* the GET of the status in flight
  cached,   \* pendingRequests: url -> the answer kept
  faults    \* requests failed or lost

serverVars == <<cart, created, orders, bought, paid>>
cartVars == <<items, gets>>
vars == <<cart, created, orders, bought, paid, items, gets, calls, page, orderNo,
          polling, cached, faults>>

----------------------------------------------------------------------------
CartKey == <<"cart", "">>
\* The status of the order the page returned for; the tab's memory of an earlier order is gone.
StatusKey == <<"payment", "status", "N", "">>

\* The path of each mutation (api/public.ts, api/payment.ts).
Path(op) ==
  CASE op = "add"      -> <<"cart", "items", "">>
    [] op = "set"      -> <<"cart", "items", "1", "">>
    [] op = "remove"   -> <<"cart", "items", "1", "remove", "">>
    [] op = "clear"    -> <<"cart", "clear", "">>
    [] op = "checkout" -> <<"order", "checkout", "">>
    [] op = "create"   -> <<"payment", "create", "">>

\* What the response interceptor deletes when a mutation has succeeded.
Dropped(op) == {k \in DOMAIN cached : Covers(ResourceBase(Path(op)), k)}

Ids == 1..MaxItems
Lines == [sku : Skus, quantity : 1..MaxQuantity]
\* The page that polls is not open.
Unopened == [step |-> "off", attempts |-> 0, verdict |-> "loading", body |-> FALSE]

\* A mutation: what it is sent with, and what the server made of it.
Call(op, sku, id, quantity, ids) ==
  [op |-> op, sku |-> sku, id |-> id, quantity |-> quantity, ids |-> ids, ran |-> "no"]
Plain(op) == Call(op, NoSku, 0, 0, {})

Get(sku) == [adds |-> sku, served |-> FALSE, body |-> <<>>]

TypeOK ==
  /\ created \in 0..MaxItems /\ orders \in 0..MaxItems
  /\ DOMAIN cart \subseteq 1..created /\ \A i \in DOMAIN cart : cart[i] \in Lines
  /\ bought \in [1..orders -> SUBSET Ids]
  /\ paid \subseteq 1..orders
  /\ DOMAIN items \subseteq Ids
  /\ \A i \in DOMAIN items : items[i].quantity \in 1..(MaxQuantity + 1)
  /\ \A g \in gets : g.adds \in Skus \cup {NoSku}
  /\ \A c \in calls : c.ids \subseteq Ids /\ c.ran \in {"no", "yes", "refused"}
  /\ page \in {"shop", "placing", "error", "order", "login", "provider", "return"}
  /\ orderNo \in 0..orders
  /\ polling.step \in {"off", "due", "asked", "served", "wait"}
  /\ polling.attempts \in 0..Polls
  /\ faults \in 0..MaxFaults
  /\ DOMAIN cached \subseteq {CartKey, StatusKey}

Init ==
  /\ cart = <<>> /\ created = 0 /\ orders = 0 /\ bought = <<>> /\ paid = {}
  /\ items = <<>> /\ gets = {} /\ calls = {}
  /\ page = "shop" /\ orderNo = 0 /\ polling = Unopened /\ faults = 0
  /\ cached = <<>>

----------------------------------------------------------------------------
Room == Cardinality(gets) + Cardinality(calls) < MaxFlying
Here == page # "provider"

\* Entries are deleted; an answer is kept.
Forget(keys) == cached' = Restrict(cached, DOMAIN cached \ keys)
Keep(key, body) == cached' = [k \in DOMAIN cached \cup {key} |-> IF k = key THEN body ELSE cached[k]]

\* getCart: the cached cart replaces the items at once, or a GET is sent.
FetchCart(gone, sku) ==
  /\ Forget(gone)
  /\ IF CartKey \in DOMAIN cached \ gone
     THEN items' = cached[CartKey] /\ gets' = gets
     ELSE items' = items /\ gets' = gets \cup {Get(sku)}

\* The provider of the cart is mounted for a user who is logged in.
OpenShop ==
  /\ Here /\ Room
  /\ FetchCart({}, NoSku)
  /\ UNCHANGED <<serverVars, calls, page, orderNo, polling, faults>>

\* addInProgress: a SKU being added or loaded afterwards is not added again.
Adding(sku) == (\E c \in calls : c.sku = sku) \/ (\E g \in gets : g.adds = sku)

Send(c) ==
  /\ Room
  /\ c \notin calls
  /\ calls' = calls \cup {c}
  /\ UNCHANGED <<serverVars, cartVars, orderNo, polling, faults, cached>>

AddItem(sku, quantity) ==
  /\ Here /\ ~Adding(sku)
  /\ Send(Call("add", sku, 0, quantity, {}))
  /\ UNCHANGED page

\* Mutant: one less than one is sent as a quantity.
UpdateQuantity_ToZero(id, step) ==
  LET quantity == items[id].quantity + step
  IN /\ Here /\ quantity <= MaxQuantity + 1
     /\ Send(Call("set", NoSku, id, quantity, {}))
     /\ UNCHANGED page

\* The buttons of the cart page: one more or one less than shown, and none is a removal.
\* One more than the stock, which is refused but shown, is as far as the model goes.
UpdateQuantity(id, step) ==
  LET quantity == items[id].quantity + step
  IN /\ Here /\ quantity <= MaxQuantity + 1
     /\ Send(IF quantity <= 0 THEN Call("remove", NoSku, id, 0, {})
             ELSE Call("set", NoSku, id, quantity, {}))
     /\ UNCHANGED page

RemoveItem(id) == Here /\ Send(Call("remove", NoSku, id, 0, {})) /\ UNCHANGED page
ClearCart == Here /\ Send(Plain("clear")) /\ UNCHANGED page

\* The order button, disabled while an order is being placed; every press has a new
\* idempotency key.
PlaceOrder ==
  /\ page \in {"shop", "error"}
  /\ DOMAIN items # {}
  /\ Send(Call("checkout", NoSku, 0, 0, DOMAIN items))
  /\ page' = "placing"

----------------------------------------------------------------------------
\* The server adds to the line of the SKU, or makes a new one, within the stock.
ServerAdds(sku, quantity) ==
  LET held == {i \in DOMAIN cart : cart[i].sku = sku}
      New == created + 1
  IN \/ /\ held = {} /\ created < MaxItems /\ quantity <= MaxQuantity
        /\ created' = New
        /\ cart' = [i \in DOMAIN cart \cup {New} |->
                      IF i = New THEN [sku |-> sku, quantity |-> quantity] ELSE cart[i]]
     \/ \E i \in held :
          /\ cart[i].quantity + quantity <= MaxQuantity
          /\ cart' = [cart EXCEPT ![i].quantity = @ + quantity]
          /\ UNCHANGED created

Leaving(ids) == cart' = Restrict(cart, DOMAIN cart \ ids)

\* Mutant: checkout leaves the settled items for the page to clear.
ServerChecksOut_KeepsItems(ids) ==
  /\ ids \cap DOMAIN cart # {}
  /\ orders' = orders + 1
  /\ bought' = [n \in 1..(orders + 1) |-> IF n = orders + 1 THEN ids \cap DOMAIN cart ELSE bought[n]]
  /\ UNCHANGED <<cart, created, paid>>

\* Checkout orders the items that are still there and takes them out of the cart.
ServerChecksOut(ids) ==
  /\ ids \cap DOMAIN cart # {}
  /\ orders' = orders + 1
  /\ bought' = [n \in 1..(orders + 1) |-> IF n = orders + 1 THEN ids \cap DOMAIN cart ELSE bought[n]]
  /\ Leaving(ids)
  /\ UNCHANGED <<created, paid>>

ServerRuns(c) ==
  \/ c.op = "add" /\ ServerAdds(c.sku, c.quantity) /\ UNCHANGED <<orders, bought, paid>>
  \/ /\ c.op = "set" /\ c.id \in DOMAIN cart /\ c.quantity <= MaxQuantity
     /\ IF c.quantity <= 0 THEN Leaving({c.id})
        ELSE cart' = [cart EXCEPT ![c.id].quantity = c.quantity]
     /\ UNCHANGED <<created, orders, bought, paid>>
  \/ /\ c.op = "remove" /\ c.id \in DOMAIN cart
     /\ Leaving({c.id}) /\ UNCHANGED <<created, orders, bought, paid>>
  \/ c.op = "clear" /\ Leaving(DOMAIN cart) /\ UNCHANGED <<created, orders, bought, paid>>
  \/ c.op = "checkout" /\ orders < MaxItems /\ ServerChecksOut(c.ids)
  \/ c.op = "create" /\ UNCHANGED serverVars

\* No such item, or less stock than that: other shoppers buy too.  A checkout may also be
\* refused for its coupon or its address.
ServerRefuses(c) ==
  /\ \/ c.op \in {"add", "set", "checkout"}
     \/ c.op = "remove" /\ c.id \notin DOMAIN cart
  /\ UNCHANGED serverVars

\* The server runs a mutation or refuses it.
Execute(c) ==
  /\ c.ran = "no"
  /\ \/ ServerRuns(c) /\ calls' = (calls \ {c}) \cup {[c EXCEPT !.ran = "yes"]}
     \/ ServerRefuses(c) /\ calls' = (calls \ {c}) \cup {[c EXCEPT !.ran = "refused"]}
  /\ UNCHANGED <<cartVars, page, orderNo, polling, faults, cached>>

\* Another device puts something into the cart or takes something out.
OtherDevice ==
  /\ \/ \E s \in Skus : ServerAdds(s, 1)
     \/ \E i \in DOMAIN cart : Leaving({i}) /\ UNCHANGED created
  /\ UNCHANGED <<orders, bought, paid, cartVars, calls, page, orderNo, polling, faults, cached>>

----------------------------------------------------------------------------
\* The server answers a GET of the cart.
Serve(g) ==
  /\ ~g.served
  /\ gets' = (gets \ {g}) \cup {[g EXCEPT !.served = TRUE, !.body = cart]}
  /\ UNCHANGED <<serverVars, items, calls, page, orderNo, polling, faults, cached>>

\* The answer is cached and shown.
Arrive(g) ==
  /\ g.served
  /\ Keep(CartKey, g.body)
  /\ items' = g.body
  /\ gets' = gets \ {g}
  /\ UNCHANGED <<serverVars, calls, page, orderNo, polling, faults>>

\* A GET that fails deletes the entry and leaves the items.
GetFails(g) ==
  /\ faults < MaxFaults
  /\ faults' = faults + 1
  /\ Forget({CartKey})
  /\ gets' = gets \ {g}
  /\ UNCHANGED <<serverVars, items, calls, page, orderNo, polling>>

----------------------------------------------------------------------------
\* An add, a new quantity or a removal succeeded: the cart is loaded again.
ChangeOk(c) ==
  /\ c.op \in {"add", "set", "remove"}
  /\ c.ran = "yes"
  /\ FetchCart(Dropped(c.op), c.sku)
  /\ calls' = calls \ {c}
  /\ UNCHANGED <<serverVars, page, orderNo, polling, faults>>

\* A mutation failed: the server refused it, or one of the bounded faults.
Failing(c) ==
  IF c.ran = "refused" THEN UNCHANGED faults
  ELSE faults < MaxFaults /\ faults' = faults + 1

\* The new quantity or the removal is shown although it failed.
ChangeFails(c) ==
  /\ c.op \in {"add", "set", "remove"}
  /\ Failing(c)
  /\ items' = CASE c.op = "add" -> items
                [] c.op = "set" -> [i \in DOMAIN items |->
                     IF i = c.id THEN [items[i] EXCEPT !.quantity = c.quantity] ELSE items[i]]
                [] c.op = "remove" -> Restrict(items, DOMAIN items \ {c.id})
  /\ calls' = calls \ {c}
  /\ UNCHANGED <<serverVars, gets, page, orderNo, polling, cached>>

\* clearCart empties the items whether the server did or not.
ClearDone(c) ==
  /\ c.op = "clear"
  /\ \/ c.ran = "yes" /\ Forget(Dropped("clear")) /\ UNCHANGED faults
     \/ Failing(c) /\ UNCHANGED cached
  /\ items' = <<>>
  /\ calls' = calls \ {c}
  /\ UNCHANGED <<serverVars, gets, page, orderNo, polling>>

\* The order is placed: the page clears the cart and asks for the payment, at once.
CheckoutOk(c) ==
  /\ c.op = "checkout" /\ c.ran = "yes"
  /\ Forget(Dropped("checkout"))
  /\ orderNo' = CHOOSE n \in 1..orders : c.ids \cap bought[n] # {}
  /\ calls' = (calls \ {c}) \cup {Plain("clear"), Plain("create")}
  /\ UNCHANGED <<serverVars, cartVars, page, polling, faults>>

\* The order could not be placed, as far as the page knows; it goes to the login page if
\* the session has ended.
CheckoutFails(c) ==
  /\ c.op = "checkout"
  /\ Failing(c)
  /\ page' \in IF c.ran = "refused" THEN {"error"} ELSE {"error", "login"}
  /\ calls' = calls \ {c}
  /\ UNCHANGED <<serverVars, cartVars, orderNo, polling, cached>>

\* The payment exists: the browser leaves for the provider, and the tab's memory with it,
\* or, without a pay_url, the order is shown.
CreateOk(c) ==
  /\ c.op = "create" /\ c.ran = "yes"
  /\ \/ /\ page' = "provider"
        /\ cached' = <<>> /\ items' = <<>> /\ gets' = {}
     \/ page' = "order" /\ Forget(Dropped("create")) /\ UNCHANGED cartVars
  /\ calls' = calls \ {c}
  /\ UNCHANGED <<serverVars, orderNo, polling, faults>>

\* Mutant: a payment that could not be created leaves the page at its error.
CreateFails_ShowsError(c) ==
  /\ c.op = "create" /\ Failing(c)
  /\ page' \in {"error", "login"}
  /\ calls' = calls \ {c}
  /\ UNCHANGED <<serverVars, cartVars, orderNo, polling, cached>>

\* The payment could not be created: the order is shown, to be paid later.
CreateFails(c) ==
  /\ c.op = "create" /\ Failing(c)
  /\ page' \in {"order", "login"}
  /\ calls' = calls \ {c}
  /\ UNCHANGED <<serverVars, cartVars, orderNo, polling, cached>>

\* What the tab sent before it left is run by the server or not, and answered to no one.
Abandon(c) ==
  /\ ~Here
  /\ calls' = calls \ {c}
  /\ UNCHANGED <<serverVars, cartVars, page, orderNo, polling, faults, cached>>

\* The customer goes on shopping.
BackToShop ==
  /\ page \in {"error", "order", "login", "return"}
  /\ page' = "shop" /\ orderNo' = 0 /\ polling' = Unopened
  /\ UNCHANGED <<serverVars, cartVars, calls, faults, cached>>

----------------------------------------------------------------------------
\* The provider tells the server that an order is paid, in time or late.
Pay(n) ==
  /\ paid' = paid \cup {n}
  /\ UNCHANGED <<cart, created, orders, bought, cartVars, calls, page, orderNo,
                 polling, faults, cached>>

\* The provider sends the browser back: the shop is loaded afresh.
Return ==
  /\ page = "provider" /\ calls = {}
  /\ page' = "return"
  /\ polling' = [Unopened EXCEPT !.step = "due"]
  /\ gets' = {Get(NoSku)}
  /\ UNCHANGED <<serverVars, items, calls, orderNo, faults, cached>>

\* Mutant: only a poll that failed counts as an attempt.
After_CountsFailures(isPaid) ==
  LET n == IF polling.step = "served" THEN polling.attempts ELSE polling.attempts + 1
  IN IF isPaid THEN [Unopened EXCEPT !.verdict = "success"]
     ELSE IF n < Polls THEN [Unopened EXCEPT !.step = "wait", !.attempts = n]
     ELSE [Unopened EXCEPT !.verdict = "failure", !.attempts = n]

\* Mutant: after the last poll the page believes the provider's success flag.
After_BelievesUrl(isPaid) ==
  LET n == polling.attempts + 1
  IN IF isPaid \/ n >= Polls THEN [Unopened EXCEPT !.verdict = "success"]
     ELSE [Unopened EXCEPT !.step = "wait", !.attempts = n]

\* A poll has ended: the order is paid, another poll is due in a tick, or it was the last.
After(isPaid) ==
  LET n == polling.attempts + 1
  IN IF isPaid THEN [Unopened EXCEPT !.verdict = "success"]
     ELSE IF n < Polls THEN [Unopened EXCEPT !.step = "wait", !.attempts = n]
     ELSE [Unopened EXCEPT !.verdict = "failure", !.attempts = n]

\* poll: the status is cached, or a GET is sent.
Poll ==
  /\ polling.step = "due"
  /\ polling' = IF StatusKey \in DOMAIN cached THEN After(cached[StatusKey])
                ELSE [polling EXCEPT !.step = "asked"]
  /\ UNCHANGED <<serverVars, cartVars, calls, page, orderNo, cached, faults>>

ServeStatus ==
  /\ polling.step = "asked"
  /\ polling' = [polling EXCEPT !.step = "served", !.body = (orderNo \in paid)]
  /\ UNCHANGED <<serverVars, cartVars, calls, page, orderNo, faults, cached>>

StatusArrives ==
  /\ polling.step = "served"
  /\ Keep(StatusKey, polling.body)
  /\ polling' = After(polling.body)
  /\ UNCHANGED <<serverVars, cartVars, calls, page, orderNo, faults>>

\* A poll that fails counts as one that found the order unpaid.
StatusFails ==
  /\ polling.step \in {"asked", "served"}
  /\ faults < MaxFaults
  /\ faults' = faults + 1
  /\ Forget({StatusKey})
  /\ polling' = After(FALSE)
  /\ UNCHANGED <<serverVars, cartVars, calls, page, orderNo>>

----------------------------------------------------------------------------
\* The timer of a cached answer.
Expire(k) ==
  /\ Forget({k})
  /\ UNCHANGED <<serverVars, cartVars, calls, page, orderNo, polling, faults>>

\* Two seconds after a poll the next one is due.
NextPoll ==
  /\ polling.step = "wait"
  /\ polling' = [polling EXCEPT !.step = "due"]
  /\ UNCHANGED <<serverVars, cartVars, calls, page, orderNo, cached, faults>>

CartSteps ==
  \/ OpenShop \/ ClearCart \/ PlaceOrder \/ OtherDevice
  \/ \E s \in Skus, q \in 1..MaxQuantity : AddItem(s, q)
  \/ \E i \in DOMAIN items : RemoveItem(i) \/ UpdateQuantity(i, 1) \/ UpdateQuantity(i, -1)
  \/ \E g \in gets : Serve(g) \/ Arrive(g) \/ GetFails(g)

Answer(c) ==
  \/ ChangeOk(c) \/ ChangeFails(c) \/ ClearDone(c)
  \/ CheckoutOk(c) \/ CheckoutFails(c) \/ CreateOk(c) \/ CreateFails(c)

PollSteps == NextPoll \/ Poll \/ ServeStatus \/ StatusArrives \/ StatusFails

Next ==
  \/ CartSteps \/ PollSteps \/ BackToShop \/ Return
  \/ \E c \in calls : Execute(c) \/ (Here /\ Answer(c)) \/ Abandon(c)
  \/ \E n \in 1..orders : Pay(n)
  \/ \E k \in DOMAIN cached : Expire(k)

Spec == Init /\ [][Next]_vars

\* The return page goes on polling, and a request that is not among the bounded failures
\* is answered.
FairSpec ==
  /\ Spec
  /\ WF_vars(PollSteps)
  /\ WF_vars(\E c \in calls : c.op = "create" /\ (Execute(c) \/ (Here /\ Answer(c))))

----------------------------------------------------------------------------
\* No cart item is ordered twice, although every press of the order button has an
\* idempotency key of its own, answers are lost and retried, and the tab can show items
\* that are ordered already (checkout takes what it orders out of the cart it locked).
OrderedOnce ==
  \A m, n \in 1..orders : m # n => bought[m] \cap bought[n] = {}

\* The return page says an order is paid only when the server knows it is, with the
\* answers of a poll cached and served to later polls.
SuccessIsPaid == polling.verdict = "success" => orderNo \in paid

\* A page that was told of an order goes on to the provider, the order or the login page,
\* whatever fails on the way to the payment.
OrderLeadsOn ==
  (orderNo # 0 /\ page = "placing") ~> (page \in {"provider", "order", "login"})

\* The return page comes to a verdict, or the customer leaves it.
ReturnDecides == (page = "return") ~> (page # "return" \/ polling.verdict # "loading")

\* The last poll sees a payment the server knew of before it (PaymentReturn.tsx polls up
\* to ten times, every two seconds).
PaymentSeen ==
  [][Poll /\ orderNo \in paid => polling'.verdict # "failure"]_vars
=============================================================================
