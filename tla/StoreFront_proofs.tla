------------------------- MODULE StoreFront_proofs -------------------------
(***************************************************************************)
(* What the tab and the server hold is well formed, no cart item is        *)
(* ordered twice and no unpaid order is shown as paid, for every number of *)
(* items, requests, failures and polls.                                    *)
(***************************************************************************)
EXTENDS StoreFront, TLAPS

\* An id is given to one cart item only, and one that was ordered is not in the cart.
IdsOnce ==
  /\ created \in Nat /\ orders \in Nat
  /\ DOMAIN cart \subseteq 1..created
  /\ \A n \in 1..orders : bought[n] \subseteq 1..created /\ bought[n] \cap DOMAIN cart = {}
  /\ OrderedOnce

\* What the return page has learned of its order is so, and it opens with an empty memory.
Learned ==
  /\ DOMAIN polling = {"step", "attempts", "verdict", "body"}
  /\ page # "return" => polling = Unopened
  /\ page = "return" =>
       /\ \A c \in calls : c.op \notin {"checkout", "create"}
       /\ StatusKey \in DOMAIN cached /\ cached[StatusKey] => orderNo \in paid
       /\ polling.step = "served" /\ polling.body => orderNo \in paid
  /\ page = "provider" => gets = {} /\ StatusKey \notin DOMAIN cached
  /\ \A k \in DOMAIN cached : k \in {CartKey, StatusKey}
  /\ SuccessIsPaid

----------------------------------------------------------------------------
LEMMA AddsOnce ==
  ASSUME IdsOnce, NEW s, NEW q, ServerAdds(s, q), UNCHANGED <<orders, bought>>
  PROVE  IdsOnce'
<1>1. CASE created' = created + 1 /\ DOMAIN cart' = DOMAIN cart \cup {created + 1}
    BY <1>1 DEF IdsOnce, OrderedOnce
<1>2. CASE created' = created /\ DOMAIN cart' = DOMAIN cart
    BY <1>2 DEF IdsOnce, OrderedOnce
<1> QED
    BY <1>1, <1>2 DEF ServerAdds

LEMMA LeavesOnce ==
  ASSUME IdsOnce, NEW ids, Leaving(ids), UNCHANGED <<created, orders, bought>>
  PROVE  IdsOnce'
<1>1. DOMAIN cart' = DOMAIN cart \ ids
    BY DEF Leaving, Restrict
<1> QED
    BY <1>1 DEF IdsOnce, OrderedOnce

LEMMA ChecksOutOnce ==
  ASSUME IdsOnce, NEW ids, ServerChecksOut(ids)
  PROVE  IdsOnce'
<1>1. DOMAIN cart' = DOMAIN cart \ ids
    BY DEF ServerChecksOut, Leaving, Restrict
<1>2. /\ orders \in Nat /\ orders' = orders + 1 /\ created' = created
      /\ bought'[orders + 1] = ids \cap DOMAIN cart
      /\ \A n \in 1..orders : bought'[n] = bought[n]
    BY DEF ServerChecksOut, IdsOnce
<1>3. \A n \in 1..orders' : n \in 1..orders \/ n = orders + 1
    BY <1>2
<1>4. \A n \in 1..orders' : bought'[n] \subseteq 1..created /\ bought'[n] \cap DOMAIN cart' = {}
    BY <1>1, <1>2, <1>3 DEF IdsOnce
<1>5. OrderedOnce'
  <2> SUFFICES ASSUME NEW m \in 1..orders', NEW n \in 1..orders', m # n
               PROVE  bought'[m] \cap bought'[n] = {}
      BY DEF OrderedOnce
  <2>1. CASE m \in 1..orders /\ n \in 1..orders
      BY <2>1, <1>2 DEF IdsOnce, OrderedOnce
  <2>2. CASE m = orders + 1 /\ n \in 1..orders
      BY <2>2, <1>2 DEF IdsOnce
  <2>3. CASE m \in 1..orders /\ n = orders + 1
      BY <2>3, <1>2 DEF IdsOnce
  <2> QED
      BY <2>1, <2>2, <2>3, <1>3
<1> QED
    BY <1>1, <1>2, <1>4, <1>5 DEF IdsOnce

LEMMA SameServerOnce ==
  ASSUME IdsOnce, UNCHANGED <<cart, created, orders, bought>>
  PROVE  IdsOnce'
BY DEF IdsOnce, OrderedOnce

LEMMA ExecuteOnce ==
  ASSUME IdsOnce, NEW c \in calls, Execute(c)
  PROVE  IdsOnce'
<1>1. CASE ServerRuns(c)
  <2>1. CASE ServerAdds(c.sku, c.quantity) /\ UNCHANGED <<orders, bought>>
      BY <2>1, AddsOnce
  <2>2. CASE /\ c.id \in DOMAIN cart /\ cart' = [cart EXCEPT ![c.id].quantity = c.quantity]
             /\ UNCHANGED <<created, orders, bought>>
    <3>1. DOMAIN cart' = DOMAIN cart
        BY <2>2
    <3> QED
        BY <2>2, <3>1 DEF IdsOnce, OrderedOnce
  <2>3. CASE \E ids : Leaving(ids) /\ UNCHANGED <<created, orders, bought>>
      BY <2>3, LeavesOnce
  <2>4. CASE ServerChecksOut(c.ids)
      BY <2>4, ChecksOutOnce
  <2>5. CASE UNCHANGED serverVars
      BY <2>5, SameServerOnce DEF serverVars
  <2> QED
      BY <1>1, <2>1, <2>2, <2>3, <2>4, <2>5 DEF ServerRuns
<1>2. CASE ServerRefuses(c)
    BY <1>2, SameServerOnce DEF ServerRefuses, serverVars
<1> QED
    BY <1>1, <1>2 DEF Execute

LEMMA NextOnce == IdsOnce /\ [Next]_vars => IdsOnce'
<1> SUFFICES ASSUME IdsOnce, [Next]_vars PROVE IdsOnce'
    OBVIOUS
<1>1. CASE UNCHANGED <<cart, created, orders, bought>>
    BY <1>1, SameServerOnce
<1>2. CASE OtherDevice
  <2>1. CASE \E s \in Skus : ServerAdds(s, 1)
      BY <1>2, <2>1, AddsOnce DEF OtherDevice
  <2>2. CASE \E i \in DOMAIN cart : Leaving({i}) /\ UNCHANGED created
      BY <1>2, <2>2, LeavesOnce DEF OtherDevice
  <2> QED
      BY <1>2, <2>1, <2>2 DEF OtherDevice
<1>3. CASE \E c \in calls : Execute(c)
    BY <1>3, ExecuteOnce
<1>4. CASE CartSteps
    BY <1>1, <1>2, <1>4 DEF CartSteps, OpenShop, ClearCart, PlaceOrder, AddItem, RemoveItem, UpdateQuantity,
       Send, Serve, Arrive, GetFails, serverVars
<1>5. CASE PollSteps \/ BackToShop \/ Return
    BY <1>1, <1>5 DEF PollSteps, NextPoll, Poll, ServeStatus, StatusArrives, StatusFails, BackToShop, Return,
       serverVars
<1>6. CASE \E c \in calls : Answer(c) \/ Abandon(c)
    BY <1>1, <1>6 DEF Answer, Abandon, ChangeOk, ChangeFails, ClearDone, CheckoutOk, CheckoutFails,
       CreateOk, CreateFails, serverVars
<1>7. CASE (\E n \in 1..orders : Pay(n)) \/ (\E k \in DOMAIN cached : Expire(k)) \/ UNCHANGED vars
    BY <1>1, <1>7 DEF Pay, Expire, serverVars, vars
<1> QED
    BY <1>3, <1>4, <1>5, <1>6, <1>7 DEF Next

\* No cart item is ordered twice, however often the order button is pressed and whatever
\* answers are lost (the locked cart items leave the cart with the order).
THEOREM ShopOrderedOnce == Spec => []OrderedOnce
<1>1. Init => IdsOnce
    BY DEF Init, IdsOnce, OrderedOnce
<1>2. IdsOnce => OrderedOnce
    BY DEF IdsOnce
<1> QED
    BY <1>1, <1>2, NextOnce, PTL DEF Spec

----------------------------------------------------------------------------
\* Deleting and keeping answers.
LEMMA Forgotten ==
  ASSUME NEW keys, Forget(keys)
  PROVE  \A k \in DOMAIN cached' : k \in DOMAIN cached /\ k \notin keys /\ cached'[k] = cached[k]
BY DEF Forget, Restrict

LEMMA Kept ==
  ASSUME NEW key, NEW body, Keep(key, body)
  PROVE  /\ DOMAIN cached' = DOMAIN cached \cup {key} /\ cached'[key] = body
         /\ \A k \in DOMAIN cached : k # key => cached'[k] = cached[k]
BY DEF Keep

LEMMA KeysDiffer == CartKey # StatusKey /\ CartKey \notin {StatusKey}
BY DEF CartKey, StatusKey

\* A step that keeps the page and its order and adds nothing to the memory.
LEMMA ShrinkingLearns ==
  ASSUME Learned, UNCHANGED <<page, orderNo, polling>>, paid \subseteq paid',
         page = "provider" => gets' = {},
         page = "return" => \A c \in calls' : c.op \notin {"checkout", "create"},
         \A k \in DOMAIN cached' : k \in DOMAIN cached /\ cached'[k] = cached[k]
  PROVE  Learned'
BY DEF Learned, SuccessIsPaid

LEMMA CartStepsLearn ==
  ASSUME Learned, CartSteps
  PROVE  Learned'
<1>1. ASSUME OpenShop PROVE Learned'
  <2>1. /\ \A k \in DOMAIN cached' : k \in DOMAIN cached /\ cached'[k] = cached[k]
        /\ page # "provider" /\ UNCHANGED <<page, orderNo, polling, paid, calls>>
      BY <1>1, Forgotten DEF OpenShop, FetchCart, Here, serverVars
  <2> QED
      BY <2>1, ShrinkingLearns DEF Learned
<1>2. ASSUME NEW c, c.op \notin {"checkout", "create"}, Send(c), UNCHANGED page PROVE Learned'
    BY <1>2, ShrinkingLearns DEF Send, Learned, serverVars, cartVars
<1>3. ASSUME PlaceOrder PROVE Learned'
    BY <1>3 DEF PlaceOrder, Send, Learned, SuccessIsPaid, Unopened, serverVars, cartVars
<1>4. ASSUME OtherDevice PROVE Learned'
    BY <1>4, ShrinkingLearns DEF OtherDevice, Learned, cartVars
<1>5. ASSUME NEW s, NEW q, AddItem(s, q) PROVE Learned'
  <2>1. Call("add", s, 0, q, {}).op = "add"
      BY DEF Call
  <2> QED
      BY <2>1, <1>2, <1>5 DEF AddItem
<1>6. ASSUME NEW i, RemoveItem(i) PROVE Learned'
  <2>1. Call("remove", NoSku, i, 0, {}).op = "remove"
      BY DEF Call
  <2> QED
      BY <2>1, <1>2, <1>6 DEF RemoveItem
<1>7. ASSUME NEW i, NEW n, UpdateQuantity(i, n) PROVE Learned'
  <2>1. \A q : Call("remove", NoSku, i, 0, {}).op = "remove" /\ Call("set", NoSku, i, q, {}).op = "set"
      BY DEF Call
  <2> QED
      BY <2>1, <1>2, <1>7 DEF UpdateQuantity
<1>8. ASSUME ClearCart PROVE Learned'
  <2>1. Plain("clear").op = "clear"
      BY DEF Plain, Call
  <2> QED
      BY <2>1, <1>2, <1>8 DEF ClearCart
<1>9. ASSUME NEW g \in gets, Serve(g) \/ GetFails(g) PROVE Learned'
  <2>1. /\ \A k \in DOMAIN cached' : k \in DOMAIN cached /\ cached'[k] = cached[k]
        /\ page # "provider" /\ UNCHANGED <<page, orderNo, polling, paid, calls>>
      BY <1>9, Forgotten DEF Serve, GetFails, Learned, serverVars
  <2> QED
      BY <2>1, ShrinkingLearns DEF Learned
<1>10. ASSUME NEW g \in gets, Arrive(g) PROVE Learned'
  <2>1. /\ page # "provider" /\ UNCHANGED <<page, orderNo, polling, paid, calls>>
        /\ Keep(CartKey, g.body)
      BY <1>10 DEF Arrive, Learned, serverVars
  <2>2. /\ DOMAIN cached' = DOMAIN cached \cup {CartKey}
        /\ StatusKey \in DOMAIN cached' => StatusKey \in DOMAIN cached /\ cached'[StatusKey] = cached[StatusKey]
      BY <2>1, Kept, KeysDiffer
  <2> QED
      BY <2>1, <2>2 DEF Learned, SuccessIsPaid
<1> QED
    BY <1>1, <1>3, <1>4, <1>5, <1>6, <1>7, <1>8, <1>9, <1>10 DEF CartSteps

LEMMA AnswersLearn ==
  ASSUME Learned, NEW c \in calls, Here /\ Answer(c)
  PROVE  Learned'
<1> USE DEF Here
<1>1. ASSUME \/ ChangeOk(c) \/ ChangeFails(c) \/ ClearDone(c) PROVE Learned'
  <2>1. /\ \A k \in DOMAIN cached' : k \in DOMAIN cached /\ cached'[k] = cached[k]
        /\ UNCHANGED <<page, orderNo, polling, paid>> /\ calls' = calls \ {c}
      BY <1>1, Forgotten DEF ChangeOk, ChangeFails, ClearDone, FetchCart, serverVars
  <2> QED
      BY <2>1, ShrinkingLearns DEF Learned
<1>2. ASSUME CheckoutOk(c) PROVE Learned'
  <2>1. /\ \A k \in DOMAIN cached' : k \in DOMAIN cached /\ cached'[k] = cached[k]
        /\ UNCHANGED <<page, polling, paid>> /\ page # "return"
      BY <1>2, Forgotten DEF CheckoutOk, Learned, serverVars
  <2> QED
      BY <2>1 DEF Learned, SuccessIsPaid, Unopened
<1>3. ASSUME CheckoutFails(c) \/ CreateFails(c) PROVE Learned'
  <2>1. /\ UNCHANGED <<cached, polling, paid, orderNo>> /\ page # "return"
        /\ page' \in {"error", "order", "login"}
      BY <1>3 DEF CheckoutFails, CreateFails, Learned, serverVars
  <2> QED
      BY <2>1 DEF Learned, SuccessIsPaid, Unopened
<1>4. ASSUME CreateOk(c) PROVE Learned'
  <2>1. page # "return" /\ UNCHANGED <<polling, paid, orderNo>>
      BY <1>4 DEF CreateOk, Learned, serverVars
  <2>2. CASE page' = "provider" /\ cached' = <<>> /\ gets' = {}
    <3>1. DOMAIN cached' = {}
        BY <2>2
    <3> QED
        BY <2>1, <2>2, <3>1 DEF Learned, SuccessIsPaid, Unopened
  <2>3. CASE page' = "order" /\ Forget(Dropped("create"))
    <3>1. \A k \in DOMAIN cached' : k \in DOMAIN cached
        BY <2>3, Forgotten
    <3> QED
        BY <2>1, <2>3, <3>1 DEF Learned, SuccessIsPaid, Unopened
  <2> QED
      BY <1>4, <2>2, <2>3 DEF CreateOk
<1> QED
    BY <1>1, <1>2, <1>3, <1>4 DEF Answer

LEMMA PollsLearn ==
  ASSUME Learned, PollSteps
  PROVE  Learned'
<1>1. page = "return" /\ UNCHANGED <<page, orderNo, paid, gets, calls>>
  <2>1. polling.step # "off"
      BY DEF PollSteps, NextPoll, Poll, ServeStatus, StatusArrives, StatusFails
  <2>2. polling # Unopened
      BY <2>1 DEF Unopened
  <2>3. UNCHANGED <<page, orderNo, paid, gets, calls>>
      BY DEF PollSteps, NextPoll, Poll, ServeStatus, StatusArrives, StatusFails, serverVars, cartVars
  <2> QED
      BY <2>2, <2>3 DEF Learned
<1>2. ASSUME NEW is, is => orderNo \in paid
      PROVE  /\ After(is).verdict = "success" => orderNo \in paid
             /\ After(is).step # "served"
             /\ DOMAIN After(is) = {"step", "attempts", "verdict", "body"}
    BY <1>2 DEF After, Unopened
<1>3. ASSUME NextPoll PROVE Learned'
  <2>1. polling' = [polling EXCEPT !.step = "due"] /\ cached' = cached
      BY <1>3 DEF NextPoll
  <2> QED
      BY <1>1, <2>1 DEF Learned, SuccessIsPaid
<1>4. ASSUME Poll PROVE Learned'
  <2>1. cached' = cached
      BY <1>4 DEF Poll
  <2>2. CASE StatusKey \in DOMAIN cached
    <3>1. polling' = After(cached[StatusKey])
        BY <1>4, <2>2 DEF Poll
    <3>2. cached[StatusKey] => orderNo \in paid
        BY <1>1, <2>2 DEF Learned
    <3> QED
        BY <1>1, <1>2, <2>1, <3>1, <3>2 DEF Learned, SuccessIsPaid
  <2>3. CASE StatusKey \notin DOMAIN cached
    <3>1. polling' = [polling EXCEPT !.step = "asked"]
        BY <1>4, <2>3 DEF Poll
    <3> QED
        BY <1>1, <2>1, <3>1 DEF Learned, SuccessIsPaid
  <2> QED
      BY <2>2, <2>3
<1>5. ASSUME ServeStatus PROVE Learned'
  <2>1. cached' = cached /\ polling' = [polling EXCEPT !.step = "served", !.body = (orderNo \in paid)]
      BY <1>5 DEF ServeStatus
  <2> QED
      BY <1>1, <2>1 DEF Learned, SuccessIsPaid
<1>6. ASSUME StatusArrives PROVE Learned'
  <2>1. polling.body => orderNo \in paid
      BY <1>1, <1>6 DEF StatusArrives, Learned
  <2>2. Keep(StatusKey, polling.body) /\ polling' = After(polling.body)
      BY <1>6 DEF StatusArrives
  <2>3. DOMAIN cached' = DOMAIN cached \cup {StatusKey} /\ cached'[StatusKey] = polling.body
      BY <2>2, Kept
  <2> QED
      BY <1>1, <1>2, <2>1, <2>2, <2>3 DEF Learned, SuccessIsPaid
<1>7. ASSUME StatusFails PROVE Learned'
  <2>1. polling' = After(FALSE) /\ Forget({StatusKey})
      BY <1>7 DEF StatusFails
  <2>2. \A k \in DOMAIN cached' : k \in DOMAIN cached /\ k # StatusKey
      BY <2>1, Forgotten
  <2> QED
      BY <1>1, <1>2, <2>1, <2>2 DEF Learned, SuccessIsPaid
<1> QED
    BY <1>3, <1>4, <1>5, <1>6, <1>7 DEF PollSteps

LEMMA NextLearns == Learned /\ [Next]_vars => Learned'
<1> SUFFICES ASSUME Learned, [Next]_vars PROVE Learned'
    OBVIOUS
<1>1. CASE CartSteps
    BY <1>1, CartStepsLearn
<1>2. CASE PollSteps
    BY <1>2, PollsLearn
<1>3. CASE BackToShop
    BY <1>3 DEF BackToShop, Learned, SuccessIsPaid, Unopened, serverVars, cartVars
<1>4. CASE Return
  <2>1. /\ page = "provider" /\ page' = "return" /\ calls' = {} /\ cached' = cached
        /\ polling' = [Unopened EXCEPT !.step = "due"]
      BY <1>4 DEF Return
  <2>2. polling'.verdict = "loading" /\ polling'.step = "due"
      BY <2>1 DEF Unopened
  <2> QED
      BY <2>1, <2>2 DEF Learned, SuccessIsPaid
<1>5. CASE \E c \in calls : Execute(c)
  <2>1. PICK c \in calls : Execute(c)
      BY <1>5
  <2>2. \E ran \in {"yes", "refused"} : calls' = (calls \ {c}) \cup {[c EXCEPT !.ran = ran]}
      BY <2>1 DEF Execute
  <2>3. UNCHANGED <<page, orderNo, polling, cached, gets>> /\ paid' = paid
      BY <2>1 DEF Execute, ServerRuns, ServerRefuses, ServerAdds, ServerChecksOut, serverVars, cartVars
  <2>4. \A ran : [c EXCEPT !.ran = ran].op = c.op
      OBVIOUS
  <2>5. page = "return" => \A d \in calls' : d.op \notin {"checkout", "create"}
      BY <2>2, <2>4 DEF Learned
  <2> QED
      BY <2>3, <2>5, ShrinkingLearns DEF Learned
<1>6. CASE \E c \in calls : Here /\ Answer(c)
    BY <1>6, AnswersLearn
<1>7. CASE \E c \in calls : Abandon(c)
    BY <1>7, ShrinkingLearns DEF Abandon, Learned, serverVars, cartVars
<1>8. CASE \E n \in 1..orders : Pay(n)
    BY <1>8, ShrinkingLearns DEF Pay, Learned, cartVars
<1>9. CASE \E k \in DOMAIN cached : Expire(k)
    BY <1>9, Forgotten, ShrinkingLearns DEF Expire, Learned, serverVars, cartVars
<1>10. CASE UNCHANGED vars
    BY <1>10, ShrinkingLearns DEF vars, Learned
<1> QED
    BY <1>1, <1>2, <1>3, <1>4, <1>5, <1>6, <1>7, <1>8, <1>9, <1>10 DEF Next

\* The return page never says an unpaid order is paid, through any number of polls, cached
\* answers and orders of one tab.
THEOREM ShopSuccessIsPaid == Spec => []SuccessIsPaid
<1>1. Init => Learned
    BY DEF Init, Learned, SuccessIsPaid, Unopened
<1>2. Learned => SuccessIsPaid
    BY DEF Learned
<1> QED
    BY <1>1, <1>2, NextLearns, PTL DEF Spec

----------------------------------------------------------------------------
\* A cart as an answer carries it and the tab shows it; a failed change can show one
\* more than the stock.
IsCart(f) ==
  /\ DOMAIN f \subseteq Ids
  /\ \A i \in DOMAIN f : f[i] \in [sku : Skus, quantity : 1..(MaxQuantity + 1)]

Mutations ==
  [op : {"add", "set", "remove", "clear", "checkout", "create"}, sku : Skus \cup {NoSku}, id : Ids \cup {0},
   quantity : 0..(MaxQuantity + 1), ids : SUBSET Ids, ran : {"no", "yes", "refused"}]

\* A mutation in flight: what is added or set is at least one, and a checkout that ran
\* left an order with one of its items.
IsCall(c) ==
  /\ c \in Mutations
  /\ c.op = "add" => c.sku \in Skus /\ c.quantity \in 1..MaxQuantity
  /\ c.op = "set" => c.quantity \in 1..(MaxQuantity + 1)
  /\ c.op = "checkout" /\ c.ran = "yes" => \E n \in 1..orders : c.ids \cap bought[n] # {}

IsGet(g) ==
  DOMAIN g = {"adds", "served", "body"} /\ g.adds \in Skus \cup {NoSku} /\ IsCart(g.body)

\* The types of the cart wherever it is held: by the server, on its way, kept and shown.
Carts ==
  /\ IsCart(items)
  /\ \A g \in gets : IsGet(g)
  /\ CartKey \in DOMAIN cached => IsCart(cached[CartKey])

\* Of the server, and of the page that polls.
Counts ==
  /\ created \in 0..MaxItems /\ orders \in 0..MaxItems
  /\ DOMAIN cart \subseteq 1..created /\ \A i \in DOMAIN cart : cart[i] \in Lines
  /\ bought \in [1..orders -> SUBSET Ids]
  /\ paid \subseteq 1..orders
  /\ faults \in 0..MaxFaults

Polled ==
  /\ DOMAIN polling = {"step", "attempts", "verdict", "body"}
  /\ polling.step \in {"off", "due", "asked", "served", "wait"}
  /\ polling.attempts \in 0..Polls
  /\ polling.step # "off" => polling.attempts < Polls

Shaped ==
  /\ Counts /\ Carts /\ Polled
  /\ \A c \in calls : IsCall(c)
  /\ page \in {"shop", "placing", "error", "order", "login", "provider", "return"}
  /\ orderNo \in 0..orders
  /\ DOMAIN cached \subseteq {CartKey, StatusKey}

LEMMA ShapedTypes == Shaped => TypeOK
BY DEF Shaped, Counts, Carts, Polled, TypeOK, IsCart, IsGet, IsCall, Mutations

\* The server's side.
LEMMA AddsShape ==
  ASSUME Counts, NEW s \in Skus, NEW q \in Nat \ {0}, ServerAdds(s, q), UNCHANGED <<orders, bought, paid, faults>>
  PROVE  Counts'
<1> USE ShopAssumption
<1>1. CASE /\ created < MaxItems /\ q <= MaxQuantity /\ created' = created + 1
           /\ cart' = [i \in DOMAIN cart \cup {created + 1} |->
                         IF i = created + 1 THEN [sku |-> s, quantity |-> q] ELSE cart[i]]
    BY <1>1 DEF Counts, Lines
<1>2. CASE \E i \in DOMAIN cart : /\ cart[i].quantity + q <= MaxQuantity
                                  /\ cart' = [cart EXCEPT ![i].quantity = @ + q]
                                  /\ created' = created
  <2>1. PICK i \in DOMAIN cart : /\ cart[i].quantity + q <= MaxQuantity
                                 /\ cart' = [cart EXCEPT ![i].quantity = @ + q]
                                 /\ created' = created
      BY <1>2
  <2>2. DOMAIN cart' = DOMAIN cart /\ \A j \in DOMAIN cart : j # i => cart'[j] = cart[j]
      BY <2>1
  <2>3. cart[i] \in Lines /\ cart'[i] = [cart[i] EXCEPT !.quantity = @ + q]
      BY <2>1 DEF Counts
  <2>4. cart'[i] \in Lines
      BY <2>1, <2>3 DEF Lines
  <2> QED
      BY <2>1, <2>2, <2>4 DEF Counts
<1> QED
    BY <1>1, <1>2 DEF ServerAdds

LEMMA LeavesShape ==
  ASSUME Counts, NEW ids, Leaving(ids), UNCHANGED <<created, orders, bought, paid, faults>>
  PROVE  Counts'
<1>1. DOMAIN cart' \subseteq DOMAIN cart /\ \A i \in DOMAIN cart' : cart'[i] = cart[i]
    BY DEF Leaving, Restrict
<1> QED
    BY <1>1 DEF Counts

LEMMA ChecksOutShape ==
  ASSUME Counts, NEW ids \in SUBSET Ids, orders < MaxItems, ServerChecksOut(ids), UNCHANGED faults
  PROVE  /\ Counts' /\ orders' = orders + 1 /\ ids \cap bought'[orders'] # {}
         /\ \A n \in 1..orders : bought'[n] = bought[n]
<1> USE ShopAssumption
<1>1. DOMAIN cart' \subseteq DOMAIN cart /\ \A i \in DOMAIN cart' : cart'[i] = cart[i]
    BY DEF ServerChecksOut, Leaving, Restrict
<1>2. orders \in Nat /\ orders' = orders + 1 /\ UNCHANGED <<created, paid>>
    BY DEF ServerChecksOut, Counts
<1>3. bought'[orders + 1] = ids \cap DOMAIN cart /\ \A n \in 1..orders : bought'[n] = bought[n]
    BY <1>2 DEF ServerChecksOut
<1>4. bought' \in [1..orders' -> SUBSET Ids]
    BY <1>2 DEF ServerChecksOut, Counts
<1> QED
    BY <1>1, <1>2, <1>3, <1>4 DEF ServerChecksOut, Counts

\* The orders of the server are never taken back, and a checkout keeps what it made.
LEMMA CallsKept ==
  ASSUME orders \in Nat, orders' \in Nat, orders <= orders', \A n \in 1..orders : bought'[n] = bought[n],
         NEW c, IsCall(c)
  PROVE  IsCall(c)'
BY DEF IsCall, Mutations

\* The tab is not touched.
LEMMA ServerShapes ==
  ASSUME Shaped, Counts', orders <= orders', UNCHANGED <<cartVars, page, orderNo, polling, cached>>,
         \A c \in calls' : IsCall(c)'
  PROVE  Shaped'
<1>1. orderNo' \in 0..orders'
    BY DEF Shaped, Counts
<1>2. Carts' /\ Polled'
    BY DEF Shaped, Carts, Polled, IsCart, IsGet, cartVars
<1> QED
    BY <1>1, <1>2 DEF Shaped

LEMMA RanShape ==
  ASSUME NEW c, IsCall(c)', NEW ran \in {"no", "yes", "refused"},
         c.op = "checkout" /\ ran = "yes" => (\E n \in 1..orders : c.ids \cap bought[n] # {})'
  PROVE  IsCall([c EXCEPT !.ran = ran])'
BY DEF IsCall, Mutations

LEMMA ExecuteShapes ==
  ASSUME Shaped, NEW c \in calls, Execute(c)
  PROVE  Shaped'
<1> USE ShopAssumption
<1>1. IsCall(c) /\ Counts /\ faults' = faults /\ c.op \in {"add", "set", "remove", "clear", "checkout", "create"}
    BY DEF Execute, Shaped, IsCall, Mutations
<1>2. /\ Counts' /\ orders <= orders' /\ \A n \in 1..orders : bought'[n] = bought[n]
      /\ c.op = "checkout" /\ ServerRuns(c) => (\E n \in 1..orders : c.ids \cap bought[n] # {})'
  <2>1. CASE UNCHANGED <<orders, bought>> /\ Counts' /\ (c.op = "checkout" => ~ServerRuns(c))
      BY <1>1, <2>1 DEF Counts
  <2>2. CASE ServerRuns(c)
    <3>1. CASE c.op = "add"
      <4>1. ServerAdds(c.sku, c.quantity) /\ UNCHANGED <<orders, bought, paid>>
          BY <2>2, <3>1 DEF ServerRuns
      <4>2. c.sku \in Skus /\ c.quantity \in Nat \ {0}
          BY <1>1, <3>1 DEF IsCall
      <4>3. Counts'
          BY <1>1, <4>1, <4>2, AddsShape
      <4> QED
          BY <4>1, <4>3, <3>1, <2>1
    <3>2. CASE c.op = "set"
      <4> c.quantity \in 1..(MaxQuantity + 1)
          BY <1>1, <3>2 DEF IsCall
      <4>1. /\ c.id \in DOMAIN cart /\ c.quantity <= MaxQuantity
            /\ cart' = [cart EXCEPT ![c.id].quantity = c.quantity]
            /\ UNCHANGED <<created, orders, bought, paid>>
          BY <2>2, <3>2 DEF ServerRuns
      <4>2. c.quantity \in 1..MaxQuantity
          BY <4>1
      <4>3. DOMAIN cart' = DOMAIN cart /\ \A j \in DOMAIN cart : j # c.id => cart'[j] = cart[j]
          BY <4>1
      <4>4. cart[c.id] \in Lines /\ cart'[c.id] = [cart[c.id] EXCEPT !.quantity = c.quantity]
          BY <1>1, <4>1 DEF Counts
      <4>5. cart'[c.id] \in Lines
          BY <4>2, <4>4 DEF Lines
      <4>6. Counts'
          BY <1>1, <4>1, <4>3, <4>5 DEF Counts
      <4> QED
          BY <4>1, <4>6, <3>2, <2>1
    <3>3. CASE c.op \in {"remove", "clear"}
      <4>1. (\E ids : Leaving(ids)) /\ UNCHANGED <<created, orders, bought, paid>>
          BY <2>2, <3>3 DEF ServerRuns
      <4>2. Counts'
          BY <1>1, <4>1, LeavesShape
      <4> QED
          BY <4>1, <4>2, <3>3, <2>1
    <3>4. CASE c.op = "checkout"
      <4>1. orders < MaxItems /\ ServerChecksOut(c.ids) /\ c.ids \in SUBSET Ids
          BY <1>1, <2>2, <3>4 DEF ServerRuns, IsCall, Mutations
      <4>2. /\ Counts' /\ orders' = orders + 1 /\ c.ids \cap bought'[orders'] # {}
            /\ \A n \in 1..orders : bought'[n] = bought[n]
          BY <1>1, <4>1, ChecksOutShape
      <4> QED
          BY <1>1, <4>2 DEF Counts
    <3>5. CASE c.op = "create"
      <4>1. UNCHANGED <<cart, created, orders, bought, paid>>
          BY <2>2, <3>5 DEF ServerRuns, serverVars
      <4> QED
          BY <1>1, <4>1, <3>5, <2>1 DEF Counts
    <3> QED
        BY <1>1, <3>1, <3>2, <3>3, <3>4, <3>5
  <2>3. CASE ServerRefuses(c) /\ ~ServerRuns(c)
    <3>1. UNCHANGED <<cart, created, orders, bought, paid>>
        BY <2>3 DEF ServerRefuses, serverVars
    <3> QED
        BY <1>1, <3>1, <2>1, <2>3 DEF Counts
  <2> QED
      BY <2>2, <2>3 DEF Execute
<1>3. orders \in Nat /\ orders' \in Nat
    BY <1>1, <1>2 DEF Counts
<1>4. \A d \in calls : IsCall(d)'
    BY <1>2, <1>3, CallsKept DEF Shaped
<1>5. \A d \in calls' : IsCall(d)'
  <2>1. CASE ServerRuns(c) /\ calls' = (calls \ {c}) \cup {[c EXCEPT !.ran = "yes"]}
      BY <1>2, <1>4, <2>1, RanShape
  <2>2. CASE calls' = (calls \ {c}) \cup {[c EXCEPT !.ran = "refused"]}
      BY <1>4, <2>2, RanShape
  <2> QED
      BY <2>1, <2>2 DEF Execute
<1> QED
    BY <1>2, <1>5, ServerShapes DEF Execute

\* The tab's side: a step of it that leaves the server alone.
LEMMA TabShapes ==
  ASSUME Shaped, UNCHANGED serverVars, faults' \in 0..MaxFaults, Carts', Polled',
         \A c \in calls' : c \in calls \/ IsCall(c),
         page' \in {"shop", "placing", "error", "order", "login", "provider", "return"},
         orderNo' \in 0..orders, DOMAIN cached' \subseteq {CartKey, StatusKey}
  PROVE  Shaped'
<1>1. Counts'
    BY DEF Shaped, Counts, serverVars
<1>2. \A c \in calls' : IsCall(c)'
    BY DEF Shaped, IsCall, serverVars
<1> QED
    BY <1>1, <1>2 DEF Shaped, serverVars

LEMMA FetchShapes ==
  ASSUME Shaped, NEW gone, NEW sku \in Skus \cup {NoSku}, FetchCart(gone, sku)
  PROVE  Carts' /\ DOMAIN cached' \subseteq {CartKey, StatusKey}
<1>1. \A k \in DOMAIN cached' : k \in DOMAIN cached /\ cached'[k] = cached[k]
    BY Forgotten DEF FetchCart
<1>2. IsGet(Get(sku))
    BY DEF IsGet, Get, IsCart
<1>3. IsCart(items) /\ \A g \in gets : IsGet(g)
    BY DEF Shaped, Carts
<1>4. CASE CartKey \in DOMAIN cached \ gone
    BY <1>1, <1>3, <1>4 DEF FetchCart, Shaped, Carts
<1>5. CASE CartKey \notin DOMAIN cached \ gone
    BY <1>1, <1>2, <1>3, <1>5 DEF FetchCart, Shaped, Carts
<1> QED
    BY <1>4, <1>5

\* Answers that are dropped leave the carts as they are.
LEMMA DropShapes ==
  ASSUME Shaped, NEW keys, Forget(keys), IsCart(items'), \A g \in gets' : g \in gets
  PROVE  Carts' /\ DOMAIN cached' \subseteq {CartKey, StatusKey}
BY Forgotten DEF Shaped, Carts, IsCart, IsGet

LEMMA SendShapes ==
  ASSUME Shaped, NEW c, IsCall(c), Send(c),
         page' \in {"shop", "placing", "error", "order", "login", "provider", "return"}
  PROVE  Shaped'
<1>1. Carts' /\ Polled'
    BY DEF Shaped, Carts, Polled, IsCart, IsGet, Send, cartVars
<1> QED
    BY <1>1, TabShapes DEF Send, Shaped, Counts

LEMMA NewCalls ==
  ASSUME NEW op \in {"add", "set", "remove", "clear", "checkout", "create"}, NEW sku \in Skus \cup {NoSku},
         NEW id \in Ids \cup {0}, NEW quantity \in 0..(MaxQuantity + 1), NEW ids \in SUBSET Ids,
         op = "add" => sku \in Skus /\ quantity \in 1..MaxQuantity,
         op = "set" => quantity \in 1..(MaxQuantity + 1)
  PROVE  IsCall(Call(op, sku, id, quantity, ids))
BY DEF IsCall, Mutations, Call

LEMMA PlainCalls == IsCall(Plain("clear")) /\ IsCall(Plain("create"))
BY ShopAssumption DEF IsCall, Mutations, Plain, Call

LEMMA CartStepsShape ==
  ASSUME Shaped, CartSteps
  PROVE  Shaped'
<1> USE ShopAssumption
<1>1. ASSUME OpenShop PROVE Shaped'
  <2>1. FetchCart({}, NoSku) /\ UNCHANGED <<serverVars, calls, page, orderNo, polling, faults>>
      BY <1>1 DEF OpenShop
  <2>2. Carts' /\ DOMAIN cached' \subseteq {CartKey, StatusKey}
      BY <2>1, FetchShapes
  <2> QED
      BY <2>1, <2>2, TabShapes DEF Shaped, Counts, Polled
<1>2. ASSUME PlaceOrder PROVE Shaped'
  <2>1. IsCall(Call("checkout", NoSku, 0, 0, DOMAIN items))
      BY NewCalls DEF Shaped, Carts, IsCart
  <2> QED
      BY <1>2, <2>1, SendShapes DEF PlaceOrder
<1>3. ASSUME ClearCart PROVE Shaped'
    BY <1>3, PlainCalls, SendShapes DEF ClearCart, Shaped
<1>4. ASSUME NEW s \in Skus, NEW q \in 1..MaxQuantity, AddItem(s, q) PROVE Shaped'
  <2>1. IsCall(Call("add", s, 0, q, {}))
      BY NewCalls
  <2> QED
      BY <1>4, <2>1, SendShapes DEF AddItem, Shaped
<1>5. ASSUME NEW i \in DOMAIN items, RemoveItem(i) PROVE Shaped'
  <2>1. IsCall(Call("remove", NoSku, i, 0, {}))
      BY NewCalls DEF Shaped, Carts, IsCart
  <2> QED
      BY <1>5, <2>1, SendShapes DEF RemoveItem, Shaped
<1>6. ASSUME NEW i \in DOMAIN items, NEW n \in {-1, 1}, UpdateQuantity(i, n) PROVE Shaped'
  <2>1. i \in Ids /\ items[i].quantity \in 1..(MaxQuantity + 1)
      BY DEF Shaped, Carts, IsCart
  <2>2. items[i].quantity + n <= MaxQuantity + 1 /\ page' = page
      BY <1>6 DEF UpdateQuantity
  <2>3. CASE items[i].quantity + n <= 0
    <3>1. Send(Call("remove", NoSku, i, 0, {}))
        BY <1>6, <2>3 DEF UpdateQuantity
    <3>2. IsCall(Call("remove", NoSku, i, 0, {}))
        BY <2>1, NewCalls
    <3> QED
        BY <2>2, <3>1, <3>2, SendShapes DEF Shaped
  <2>4. CASE ~(items[i].quantity + n <= 0)
    <3>1. Send(Call("set", NoSku, i, items[i].quantity + n, {}))
        BY <1>6, <2>4 DEF UpdateQuantity
    <3>2. items[i].quantity + n \in 1..(MaxQuantity + 1)
        BY <2>1, <2>2, <2>4
    <3>3. IsCall(Call("set", NoSku, i, items[i].quantity + n, {}))
        BY <2>1, <3>2, NewCalls
    <3> QED
        BY <2>2, <3>1, <3>3, SendShapes DEF Shaped
  <2> QED
      BY <2>3, <2>4
<1>7. ASSUME OtherDevice PROVE Shaped'
  <2>1. UNCHANGED <<orders, bought, paid, cartVars, calls, page, orderNo, polling, faults, cached>>
      BY <1>7 DEF OtherDevice
  <2>2. CASE \E s \in Skus : ServerAdds(s, 1)
      BY <2>1, <2>2, AddsShape, ServerShapes DEF Shaped, IsCall, Counts
  <2>3. CASE \E i \in DOMAIN cart : Leaving({i}) /\ UNCHANGED created
      BY <2>1, <2>3, LeavesShape, ServerShapes DEF Shaped, IsCall, Counts
  <2> QED
      BY <1>7, <2>2, <2>3 DEF OtherDevice
<1>8. ASSUME NEW g \in gets, Serve(g) PROVE Shaped'
  <2>1. /\ gets' = (gets \ {g}) \cup {[g EXCEPT !.served = TRUE, !.body = cart]}
        /\ UNCHANGED <<serverVars, items, calls, page, orderNo, polling, faults, cached>>
      BY <1>8 DEF Serve
  <2>2. IsCart(cart)
      BY DEF Shaped, Counts, IsCart, Ids, Lines
  <2>3. IsGet(g)
      BY DEF Shaped, Carts
  <2>4. IsGet([g EXCEPT !.served = TRUE, !.body = cart])
    <3>1. /\ DOMAIN [g EXCEPT !.served = TRUE, !.body = cart] = DOMAIN g
          /\ [g EXCEPT !.served = TRUE, !.body = cart].adds = g.adds
          /\ [g EXCEPT !.served = TRUE, !.body = cart].body = cart
        BY <2>3 DEF IsGet
    <3> QED
        BY <2>2, <2>3, <3>1 DEF IsGet
  <2>5. Carts'
      BY <2>1, <2>4 DEF Shaped, Carts, IsCart, IsGet
  <2> QED
      BY <2>1, <2>5, TabShapes DEF Shaped, Counts, Polled
<1>9. ASSUME NEW g \in gets, Arrive(g) PROVE Shaped'
  <2>1. /\ Keep(CartKey, g.body) /\ items' = g.body /\ gets' = gets \ {g}
        /\ UNCHANGED <<serverVars, calls, page, orderNo, polling, faults>>
      BY <1>9 DEF Arrive
  <2>2. IsCart(g.body)
      BY DEF Shaped, Carts, IsGet
  <2>3. DOMAIN cached' = DOMAIN cached \cup {CartKey} /\ cached'[CartKey] = g.body
      BY <2>1, Kept
  <2>4. Carts'
      BY <2>1, <2>2, <2>3 DEF Shaped, Carts, IsCart, IsGet
  <2> QED
      BY <2>1, <2>3, <2>4, TabShapes DEF Shaped, Counts, Polled
<1>10. ASSUME NEW g \in gets, GetFails(g) PROVE Shaped'
  <2>1. /\ Forget({CartKey}) /\ gets' = gets \ {g} /\ faults' \in 0..MaxFaults
        /\ UNCHANGED <<serverVars, items, calls, page, orderNo, polling>>
      BY <1>10 DEF GetFails, Shaped, Counts
  <2>2. Carts' /\ DOMAIN cached' \subseteq {CartKey, StatusKey}
      BY <2>1, DropShapes DEF Shaped, Carts
  <2> QED
      BY <2>1, <2>2, TabShapes DEF Shaped, Counts, Polled
<1> QED
    BY <1>1, <1>2, <1>3, <1>4, <1>5, <1>6, <1>7, <1>8, <1>9, <1>10 DEF CartSteps

LEMMA AnswersShape ==
  ASSUME Shaped, NEW c \in calls, Answer(c)
  PROVE  Shaped'
<1> USE ShopAssumption
<1>1. IsCall(c) /\ faults \in 0..MaxFaults /\ IsCart(items) /\ IsCart(<<>>)
    BY DEF Shaped, Counts, Carts, IsCart
<1>2. ASSUME Failing(c) PROVE faults' \in 0..MaxFaults
    BY <1>1, <1>2 DEF Failing
<1>3. ASSUME ChangeOk(c) PROVE Shaped'
  <2>1. /\ FetchCart(Dropped(c.op), c.sku) /\ calls' = calls \ {c}
        /\ UNCHANGED <<serverVars, page, orderNo, polling, faults>>
      BY <1>3 DEF ChangeOk
  <2>2. Carts' /\ DOMAIN cached' \subseteq {CartKey, StatusKey}
      BY <1>1, <2>1, FetchShapes DEF IsCall, Mutations
  <2> QED
      BY <2>1, <2>2, TabShapes DEF Shaped, Counts, Polled
<1>4. ASSUME ChangeFails(c) PROVE Shaped'
  <2>1. /\ calls' = calls \ {c} /\ Failing(c)
        /\ UNCHANGED <<serverVars, gets, page, orderNo, polling, cached>>
      BY <1>4 DEF ChangeFails
  <2>2. IsCart(items')
    <3>1. CASE c.op = "add"
        BY <1>1, <1>4, <3>1 DEF ChangeFails
    <3>2. CASE c.op = "set"
      <4>1. items' = [i \in DOMAIN items |->
                        IF i = c.id THEN [items[i] EXCEPT !.quantity = c.quantity] ELSE items[i]]
          BY <1>4, <3>2 DEF ChangeFails
      <4>2. c.quantity \in 1..(MaxQuantity + 1)
          BY <1>1, <3>2 DEF IsCall
      <4> QED
          BY <1>1, <4>1, <4>2 DEF IsCart
    <3>3. CASE c.op = "remove"
      <4>1. items' = Restrict(items, DOMAIN items \ {c.id})
          BY <1>4, <3>3 DEF ChangeFails
      <4> QED
          BY <1>1, <4>1 DEF IsCart, Restrict
    <3> QED
        BY <1>4, <3>1, <3>2, <3>3 DEF ChangeFails
  <2>3. Carts'
      BY <2>1, <2>2 DEF Shaped, Carts, IsCart, IsGet
  <2> QED
      BY <1>2, <2>1, <2>3, TabShapes DEF Shaped, Counts, Polled
<1>5. ASSUME ClearDone(c) PROVE Shaped'
  <2>1. /\ calls' = calls \ {c} /\ items' = <<>> /\ UNCHANGED <<serverVars, gets, page, orderNo, polling>>
        /\ faults' \in 0..MaxFaults
      BY <1>1, <1>2, <1>5 DEF ClearDone
  <2>2. Carts' /\ DOMAIN cached' \subseteq {CartKey, StatusKey}
    <3>1. CASE Forget(Dropped("clear"))
        BY <1>1, <2>1, <3>1, DropShapes
    <3>2. CASE UNCHANGED cached
        BY <1>1, <2>1, <3>2 DEF Shaped, Carts, IsCart, IsGet
    <3> QED
        BY <1>5, <3>1, <3>2 DEF ClearDone
  <2> QED
      BY <2>1, <2>2, TabShapes DEF Shaped, Polled
<1>6. ASSUME CheckoutOk(c) PROVE Shaped'
  <2>1. /\ calls' = (calls \ {c}) \cup {Plain("clear"), Plain("create")} /\ Forget(Dropped("checkout"))
        /\ UNCHANGED <<serverVars, items, gets, page, polling, faults>>
      BY <1>6 DEF CheckoutOk, cartVars
  <2>2. orderNo' \in 1..orders
    <3>1. \E n \in 1..orders : c.ids \cap bought[n] # {}
        BY <1>1, <1>6 DEF CheckoutOk, IsCall
    <3>2. orderNo' = CHOOSE n \in 1..orders : c.ids \cap bought[n] # {}
        BY <1>6 DEF CheckoutOk
    <3> QED
        BY <3>1, <3>2
  <2>3. Carts' /\ DOMAIN cached' \subseteq {CartKey, StatusKey}
      BY <1>1, <2>1, DropShapes
  <2> QED
      BY <1>1, <2>1, <2>2, <2>3, PlainCalls, TabShapes DEF Shaped, Polled
<1>7. ASSUME CheckoutFails(c) \/ CreateFails(c) PROVE Shaped'
  <2>1. /\ calls' = calls \ {c} /\ Failing(c) /\ page' \in {"error", "order", "login"}
        /\ UNCHANGED <<serverVars, items, gets, orderNo, polling, cached>>
      BY <1>7 DEF CheckoutFails, CreateFails, cartVars
  <2>2. Carts'
      BY <2>1 DEF Shaped, Carts, IsCart, IsGet
  <2> QED
      BY <1>2, <2>1, <2>2, TabShapes DEF Shaped, Polled
<1>8. ASSUME CreateOk(c) PROVE Shaped'
  <2>1. /\ calls' = calls \ {c} /\ page' \in {"provider", "order"}
        /\ UNCHANGED <<serverVars, orderNo, polling, faults>>
      BY <1>8 DEF CreateOk
  <2>2. Carts' /\ DOMAIN cached' \subseteq {CartKey, StatusKey}
    <3>1. CASE cached' = <<>> /\ items' = <<>> /\ gets' = {}
        BY <3>1 DEF Carts, IsCart
    <3>2. CASE Forget(Dropped("create")) /\ UNCHANGED cartVars
        BY <1>1, <3>2, DropShapes DEF cartVars
    <3> QED
        BY <1>8, <3>1, <3>2 DEF CreateOk
  <2> QED
      BY <1>1, <2>1, <2>2, TabShapes DEF Shaped, Polled
<1> QED
    BY <1>3, <1>4, <1>5, <1>6, <1>7, <1>8 DEF Answer

LEMMA PollsShape ==
  ASSUME Shaped, PollSteps
  PROVE  Shaped'
<1> USE ShopAssumption
<1>1. UNCHANGED <<serverVars, items, gets, calls, page, orderNo>> /\ faults' \in 0..MaxFaults
  <2>1. UNCHANGED <<serverVars, items, gets, calls, page, orderNo>>
      BY DEF PollSteps, NextPoll, Poll, ServeStatus, StatusArrives, StatusFails, cartVars
  <2>2. faults' = faults \/ (faults < MaxFaults /\ faults' = faults + 1)
      BY DEF PollSteps, NextPoll, Poll, ServeStatus, StatusArrives, StatusFails
  <2> QED
      BY <2>1, <2>2 DEF Shaped, Counts
<1>2. Polled /\ polling.attempts < Polls
    BY DEF Shaped, Polled, PollSteps, NextPoll, Poll, ServeStatus, StatusArrives, StatusFails
<1>3. Polled'
  <2>1. ASSUME NEW is PROVE
          /\ DOMAIN After(is) = {"step", "attempts", "verdict", "body"}
          /\ After(is).step \in {"off", "wait"} /\ After(is).attempts \in 0..Polls
          /\ After(is).step # "off" => After(is).attempts < Polls
    <3>1. polling.attempts \in 0..(Polls - 1)
        BY <1>2 DEF Polled
    <3> QED
        BY <3>1 DEF After, Unopened
  <2>2. CASE \E is : polling' = After(is)
      BY <2>1, <2>2 DEF Polled
  <2>3. CASE polling' = [polling EXCEPT !.step = "due"] \/ polling' = [polling EXCEPT !.step = "asked"]
      BY <1>2, <2>3 DEF Polled
  <2>4. CASE polling' = [polling EXCEPT !.step = "served", !.body = (orderNo \in paid)]
      BY <1>2, <2>4 DEF Polled
  <2> QED
      BY <2>2, <2>3, <2>4 DEF PollSteps, NextPoll, Poll, ServeStatus, StatusArrives, StatusFails
<1>4. Carts' /\ DOMAIN cached' \subseteq {CartKey, StatusKey}
  <2>1. CASE UNCHANGED cached
      BY <1>1, <2>1 DEF Shaped, Carts, IsCart, IsGet
  <2>2. CASE Keep(StatusKey, polling.body)
    <3>1. DOMAIN cached' = DOMAIN cached \cup {StatusKey}
        BY <2>2, Kept
    <3>2. CartKey \in DOMAIN cached => cached'[CartKey] = cached[CartKey]
        BY <2>2, Kept, KeysDiffer
    <3> QED
        BY <1>1, <3>1, <3>2, KeysDiffer DEF Shaped, Carts, IsCart, IsGet
  <2>3. CASE Forget({StatusKey})
      BY <1>1, <2>3, DropShapes DEF Shaped, Carts
  <2> QED
      BY <2>1, <2>2, <2>3 DEF PollSteps, NextPoll, Poll, ServeStatus, StatusArrives, StatusFails
<1> QED
    BY <1>1, <1>3, <1>4, TabShapes DEF Shaped

LEMMA NextShapes == Shaped /\ [Next]_vars => Shaped'
<1> SUFFICES ASSUME Shaped, [Next]_vars PROVE Shaped'
    OBVIOUS
<1> USE ShopAssumption
<1>1. CASE CartSteps
    BY <1>1, CartStepsShape
<1>2. CASE PollSteps
    BY <1>2, PollsShape
<1>3. CASE BackToShop
  <2>1. /\ page' = "shop" /\ orderNo' = 0 /\ polling' = Unopened
        /\ UNCHANGED <<serverVars, items, gets, calls, faults, cached>>
      BY <1>3 DEF BackToShop, cartVars
  <2>2. Carts' /\ Polled'
      BY <2>1 DEF Shaped, Carts, IsCart, IsGet, Polled, Unopened
  <2> QED
      BY <2>1, <2>2, TabShapes DEF Shaped, Counts
<1>4. CASE Return
  <2>1. /\ page' = "return" /\ polling' = [Unopened EXCEPT !.step = "due"] /\ gets' = {Get(NoSku)}
        /\ UNCHANGED <<serverVars, items, calls, orderNo, faults, cached>>
      BY <1>4 DEF Return
  <2>2. Carts' /\ Polled'
      BY <2>1 DEF Shaped, Carts, IsCart, IsGet, Polled, Unopened, Get
  <2> QED
      BY <2>1, <2>2, TabShapes DEF Shaped, Counts
<1>5. CASE \E c \in calls : Execute(c)
    BY <1>5, ExecuteShapes
<1>6. CASE \E c \in calls : Here /\ Answer(c)
    BY <1>6, AnswersShape
<1>7. CASE \E c \in calls : Abandon(c)
  <2>1. /\ calls' \subseteq calls
        /\ UNCHANGED <<serverVars, items, gets, page, orderNo, polling, faults, cached>>
      BY <1>7 DEF Abandon, cartVars
  <2>2. Carts' /\ Polled'
      BY <2>1 DEF Shaped, Carts, IsCart, IsGet, Polled
  <2> QED
      BY <2>1, <2>2, TabShapes DEF Shaped, Counts
<1>8. CASE \E n \in 1..orders : Pay(n)
  <2>1. Counts' /\ orders' = orders
      BY <1>8 DEF Pay, Shaped, Counts
  <2> QED
      BY <1>8, <2>1, ServerShapes DEF Pay, Shaped, Counts, IsCall
<1>9. CASE \E k \in DOMAIN cached : Expire(k)
  <2>1. PICK k : Forget({k}) /\ UNCHANGED <<serverVars, items, gets, calls, page, orderNo, polling, faults>>
      BY <1>9 DEF Expire, cartVars
  <2>2. Carts' /\ DOMAIN cached' \subseteq {CartKey, StatusKey}
      BY <2>1, DropShapes DEF Shaped, Carts
  <2> QED
      BY <2>1, <2>2, TabShapes DEF Shaped, Counts, Polled
<1>10. CASE UNCHANGED vars
    BY <1>10 DEF vars, Shaped, Counts, Carts, IsCart, IsGet, IsCall, Polled
<1> QED
    BY <1>1, <1>2, <1>3, <1>4, <1>5, <1>6, <1>7, <1>8, <1>9, <1>10 DEF Next

\* Of whatever a failed change leaves on the screen, no line is ever below one or more
\* than one above the stock, the server's cart stays within the stock, no poll is made
\* after the last, and an order that the page is told of exists.
THEOREM ShopTypes == Spec => []TypeOK
<1>1. Init => Shaped
    BY ShopAssumption DEF Init, Shaped, Counts, Carts, IsCart, Polled, Unopened
<1> QED
    BY <1>1, ShapedTypes, NextShapes, PTL DEF Spec

----------------------------------------------------------------------------
(* The cart in the GET cache. *)

\* A path that ends in a slash and has more segments than the cart's.
Deeper(p) == p # <<>> /\ p[Len(p)] = "" /\ Len(p) \in Nat /\ Len(p) > 2

\* No mutation of the tab invalidates the cart: fetchCart() after add, set, remove, clear or
\* checkout finds the list that was kept before, until its timer deletes it.
THEOREM CartStaysCached ==
  \A op \in {"add", "set", "remove", "clear", "checkout", "create"} : CartKey \notin Dropped(op)
<1>1. ASSUME NEW p, Deeper(p)
      PROVE  ~Covers(ResourceBase(p), CartKey)
  <2>1. "" \notin Verbs /\ "" \notin Numerals
      BY DEF Verbs, Numerals
  <2>2. ResourceBase(p) = p
      BY <1>1, <2>1, Zenon DEF ResourceBase, DropLast, Deeper
  <2>3. Len(CartKey) = 2
      BY DEF CartKey
  <2>4. Covers(p, CartKey) => Len(p) <= Len(CartKey)
      BY Zenon DEF Covers
  <2>5. Len(p) \in Nat /\ Len(p) > 2
      BY <1>1, Zenon DEF Deeper
  <2> QED
      BY <2>2, <2>3, <2>4, <2>5
<1>2. ASSUME NEW op \in {"add", "set", "remove", "clear", "checkout", "create"}
      PROVE  Deeper(Path(op))
  <2>1. CASE op = "add"
      BY <2>1 DEF Path, Deeper
  <2>2. CASE op = "set"
      BY <2>2 DEF Path, Deeper
  <2>3. CASE op = "remove"
      BY <2>3 DEF Path, Deeper
  <2>4. CASE op = "clear"
      BY <2>4 DEF Path, Deeper
  <2>5. CASE op = "checkout"
      BY <2>5 DEF Path, Deeper
  <2>6. CASE op = "create"
      BY <2>6 DEF Path, Deeper
  <2> QED
      BY <2>1, <2>2, <2>3, <2>4, <2>5, <2>6
<1> QED
    BY <1>1, <1>2 DEF Dropped
=============================================================================
