------------------------------ MODULE Checkout ------------------------------
(***************************************************************************)
(* One customer buys with the account balance, in several browser tabs:    *)
(* BasketMiddleware, the preview page, PaymentDetailsView.submit,          *)
(* gateway.redeem and OrderPlacementMixin; and by the REST interface,      *)
(* whose CheckoutView places an order that nothing has been paid for.      *)
(*                                                                         *)
(* Every request fetches the open basket and the session when it begins    *)
(* and works on these copies; the session is written back as a whole when  *)
(* the response leaves, and not at all when the response is an error 500.  *)
(* The order number is 100000 + basket id, so orders and payments are      *)
(* indexed by the basket.  A transfer is one step here: what happens       *)
(* inside is the subject of Posting.                                       *)
(***************************************************************************)
EXTENDS Integers, FiniteSetsExt, Functions

CONSTANTS
    Requests,     \* web workers that may serve this customer
    Products,
    Accounts,     \* the customer's accounts
    Price,        \* per product
    Opening,      \* the Account rows at the start: whether today is between their
                  \* dates, whether their status is Open, and their balance
    NoOrder,      \* no order with this number
    MaxRequests,  \* bound: requests made in all
    MaxQuantity,  \* bound: pieces of one product
    MaxEvents     \* bound: changes made to the accounts from outside

Lines == [Products -> 0 .. MaxQuantity]
NoLines == [p \in Products |-> 0]

AccountRow == [current : BOOLEAN, open : BOOLEAN, balance : Int]

ASSUME CheckoutAssumption ==
    /\ IsFiniteSet(Products) /\ IsFiniteSet(Accounts)
    /\ MaxRequests \in Nat /\ MaxQuantity \in Nat /\ MaxEvents \in Nat
    /\ Price \in [Products -> Nat \ {0}]
    /\ Opening \in [Accounts -> AccountRow]
    /\ NoOrder \notin Lines

\* A request creates at most one basket; 0 is no basket.
BasketIds == 1 .. MaxRequests

VARIABLES
    basket,       \* rows of the Basket and basket Line tables
    order,        \* rows of the Order table: the lines ordered
    paid,         \* sum of the transfers whose merchant_reference is the order
    account,      \* the customer's Account rows
    session,      \* the allocations in the session: account code to amount
    req,          \* the requests in progress
    started,      \* requests begun so far
    events,       \* outside changes so far
    overlapped,   \* history: baskets two submissions held at the same time
    interrupted,  \* history: baskets a submission failed on half-way
    viaApi        \* history: baskets ordered by the REST interface

vars == <<basket, order, paid, account, session, req, started, events,
          overlapped, interrupted, viaApi>>

Status == {"None", "Open", "Frozen", "Submitted", "Merged"}
Stage == {"idle", "asking", "creating", "holding", "loaded", "frozen",
          "verifying", "debiting", "refused", "paid", "ordered", "rendering",
          "saving", "validated", "placed"}
Kind == {"add", "preview", "submit", "rest"}
Ordering == {"submit", "rest"}
AreAllocations(f) == \E S \in SUBSET Accounts : f \in [S -> Int]
NoAllocations == [a \in {} |-> 0]

Total(lines) ==
    SumFunctionOnSet([p \in Products |-> Price[p] * lines[p]], Products)
Allocated(allocations) == SumFunctionOnSet(allocations, DOMAIN allocations)

Idle == [kind |-> "preview", stage |-> "idle", basket |-> 0,
         lines |-> NoLines, allocations |-> NoAllocations, todo |-> {}]

Init ==
    /\ basket = [b \in BasketIds |-> [status |-> "None", lines |-> NoLines]]
    /\ order = [b \in BasketIds |-> NoOrder]
    /\ paid = [b \in BasketIds |-> 0]
    /\ account = Opening
    /\ session = NoAllocations
    /\ req = [r \in Requests |-> Idle]
    /\ started = 0 /\ events = 0
    /\ overlapped = {} /\ interrupted = {} /\ viaApi = {}

Shop == <<basket, order>>
Money == <<paid, account>>
Bounds == <<started, events>>
History == <<overlapped, interrupted, viaApi>>

Submitting(r, b) == /\ req[r].kind \in Ordering
                    /\ req[r].stage # "idle"
                    /\ req[r].basket = b

At(r, kinds, stage) == req[r].kind \in kinds /\ req[r].stage = stage
Goto(r, stage) == req' = [req EXCEPT ![r].stage = stage]
End(r) == req' = [req EXCEPT ![r] = Idle]

(***************************************************************************)
(* The open basket of the request.                                         *)
(***************************************************************************)

Begin(r, kind) ==
    /\ req[r].stage = "idle"
    /\ started < MaxRequests
    /\ started' = started + 1
    /\ req' = [req EXCEPT ![r] =
                 [Idle EXCEPT !.kind = kind, !.stage = "asking",
                              !.allocations = session]]
    /\ UNCHANGED <<Shop, Money, session, events, History>>

OpenBaskets == {b \in BasketIds : basket[b].status = "Open"}

\* The request keeps basket b for as long as it lasts.
Hold(r, b) ==
    /\ req' = [req EXCEPT ![r].stage = "holding", ![r].basket = b]
    /\ overlapped' =
         IF req[r].kind \in Ordering /\ \E q \in Requests : Submitting(q, b)
           THEN overlapped \cup {b} ELSE overlapped

\* A product that is in several baskets keeps its largest quantity.
MergedLines(baskets) ==
    [p \in Products |-> Max({basket[b].lines[p] : b \in baskets})]

\* BasketMiddleware: the open basket; when there are several, one of them takes
\* the lines of the others.
GetBasket(r) ==
    /\ At(r, Kind \ {"rest"}, "asking")
    /\ \E b \in OpenBaskets :
         /\ basket' = [c \in BasketIds |->
              IF c \notin OpenBaskets THEN basket[c]
              ELSE IF c = b
                THEN [basket[b] EXCEPT !.lines = MergedLines(OpenBaskets)]
                ELSE [status |-> "Merged", lines |-> NoLines]]
         /\ Hold(r, b)
    /\ UNCHANGED <<order, Money, session, Bounds, interrupted, viaApi>>

\* get_or_create found none; by the time it inserts there may be one again.
NoBasket(r) ==
    /\ At(r, Kind \ {"rest"}, "asking")
    /\ OpenBaskets = {}
    /\ Goto(r, "creating")
    /\ UNCHANGED <<Shop, Money, session, Bounds, History>>

CreateBasket(r) ==
    /\ req[r].stage = "creating"
    /\ \E b \in BasketIds :
         /\ basket[b].status = "None"
         /\ \A c \in 1 .. b - 1 : basket[c].status # "None"
         /\ basket' = [basket EXCEPT ![b].status = "Open"]
         /\ Hold(r, b)
    /\ UNCHANGED <<order, Money, session, Bounds, interrupted, viaApi>>

\* Basket.add_product.  Line.save tests the status of the request's own copy
\* of the basket, which was open when it was fetched.
AddProduct(r) ==
    /\ At(r, {"add"}, "holding")
    /\ \E p \in Products :
         /\ basket[req[r].basket].lines[p] < MaxQuantity
         /\ basket' = [basket EXCEPT ![req[r].basket].lines[p] = @ + 1]
    /\ End(r)
    /\ UNCHANGED <<order, Money, session, Bounds, History>>

\* The basket page says it is full.
AddNothing(r) ==
    /\ At(r, {"add"}, "holding")
    /\ \A p \in Products : basket[req[r].basket].lines[p] = MaxQuantity
    /\ End(r)
    /\ UNCHANGED <<Shop, Money, session, Bounds, History>>

AfterLines == [preview |-> "rendering", submit |-> "loaded", rest |-> "validated"]

\* check_basket_is_not_empty and build_submission, or CheckoutSerializer.validate:
\* the lines are cached on the request's basket from here on.
ReadLines(r) ==
    /\ At(r, DOMAIN AfterLines, "holding")
    /\ LET lines == basket[req[r].basket].lines IN
         IF Total(lines) = 0 THEN End(r)
         ELSE req' = [req EXCEPT ![r].lines = lines,
                                 ![r].stage = AfterLines[req[r].kind]]
    /\ UNCHANGED <<Shop, Money, session, Bounds, History>>

(***************************************************************************)
(* The preview page, after a payment that failed too.                      *)
(***************************************************************************)

\* get_context_data: the first account Account.active knows is to pay the order,
\* with all it has when that is less.  The manager looks at the dates only, so the
\* account may be frozen.  Allocations to other accounts stay.
Allocate(r) ==
    /\ req[r].stage = "rendering"
    /\ \E a \in {b \in Accounts : account[b].current} :
         LET amount == Min({account[a].balance, Total(req[r].lines)})
             allocations == [c \in DOMAIN req[r].allocations \cup {a} |->
                               IF c = a THEN amount ELSE req[r].allocations[c]]
         IN req' = [req EXCEPT ![r].allocations = allocations,
                               ![r].stage = "saving"]
    /\ UNCHANGED <<Shop, Money, session, Bounds, History>>

\* Without such an account the page is an error 500.
NothingToAllocate(r) ==
    /\ req[r].stage = "rendering"
    /\ \A a \in Accounts : ~account[a].current
    /\ End(r)
    /\ UNCHANGED <<Shop, Money, session, Bounds, History>>

\* SessionMiddleware writes the whole session back.
SaveSession(r) ==
    /\ req[r].stage = "saving"
    /\ session' = req[r].allocations
    /\ End(r)
    /\ UNCHANGED <<Shop, Money, Bounds, History>>

(***************************************************************************)
(* PaymentDetailsView.submit.                                              *)
(***************************************************************************)

Freeze(r) ==
    /\ req[r].stage = "loaded"
    /\ basket' = [basket EXCEPT ![req[r].basket].status = "Frozen"]
    /\ Goto(r, "frozen")
    /\ UNCHANGED <<order, Money, session, Bounds, History>>

\* Faulty variant: allocations that cover only part of the order pass.
CoveredInPart(r) ==
    Allocated(req[r].allocations) \in 1 .. Total(req[r].lines)

\* Faulty variant: allocations of more than the order pass.
CoveredAmply(r) == Allocated(req[r].allocations) >= Total(req[r].lines)

Covered(r) == Allocated(req[r].allocations) = Total(req[r].lines)

CheckAllocations(r) ==
    /\ req[r].stage = "frozen"
    /\ IF Covered(r)
         THEN req' = [req EXCEPT ![r].stage = "verifying",
                                 ![r].todo = DOMAIN req[r].allocations]
         ELSE Goto(r, "refused")
    /\ UNCHANGED <<Shop, Money, session, Bounds, History>>

\* gateway.redeem's first loop: Account.active.get, and verify_transfer, to which a
\* frozen or closed account is not open.
Verify(r, a) ==
    /\ req[r].stage = "verifying"
    /\ a \in req[r].todo
    /\ LET amount == req[r].allocations[a]
           rest == req[r].todo \ {a}
       IN IF ~(/\ account[a].current /\ account[a].open
               /\ 0 < amount /\ amount <= account[a].balance)
            THEN Goto(r, "refused")
          ELSE IF rest # {}
            THEN req' = [req EXCEPT ![r].todo = rest]
          ELSE req' = [req EXCEPT ![r].stage = "debiting",
                                  ![r].todo = DOMAIN req[r].allocations]
    /\ UNCHANGED <<Shop, Money, session, Bounds, History>>

\* Faulty variant: source and destination of the transfer are swapped.
DebitSwapped(r, a) ==
    /\ req[r].stage = "debiting"
    /\ a \in req[r].todo
    /\ LET amount == req[r].allocations[a] IN
         /\ account' = [account EXCEPT ![a].balance = @ + amount]
         /\ paid' = [paid EXCEPT ![req[r].basket] = @ - amount]
    /\ req' = [req EXCEPT ![r].todo = @ \ {a},
                          ![r].stage = IF req[r].todo = {a} THEN "paid" ELSE @]
    /\ UNCHANGED <<Shop, session, Bounds, History>>

\* Its second loop: facade.transfer verifies on the copies read by the first,
\* so a balance spent meanwhile is not noticed.
Debit(r, a) ==
    /\ req[r].stage = "debiting"
    /\ a \in req[r].todo
    /\ LET amount == req[r].allocations[a] IN
         /\ account' = [account EXCEPT ![a].balance = @ - amount]
         /\ paid' = [paid EXCEPT ![req[r].basket] = @ + amount]
    /\ req' = [req EXCEPT ![r].todo = @ \ {a},
                          ![r].stage = IF req[r].todo = {a} THEN "paid" ELSE @]
    /\ UNCHANGED <<Shop, session, Bounds, History>>

\* Some of the money has left the accounts.
MoneyIsGone(r) ==
    \/ req[r].stage = "paid"
    \/ req[r].stage = "debiting" /\ req[r].todo # DOMAIN req[r].allocations

\* Any exception of handle_payment, a transfer that fails in the database or the
\* payment source that cannot be saved after the last one, and UnableToPlaceOrder:
\* the basket is to be restored.  The transfers so far are committed.
PaymentFails(r) ==
    /\ req[r].stage \in {"frozen", "verifying", "debiting", "paid"}
    /\ Goto(r, "refused")
    /\ interrupted' = IF MoneyIsGone(r) THEN interrupted \cup {req[r].basket}
                      ELSE interrupted
    /\ UNCHANGED <<Shop, Money, session, Bounds, overlapped, viaApi>>

\* Faulty variant: the thawed basket is not saved.
ThawInMemory(r) ==
    /\ req[r].stage = "refused"
    /\ Goto(r, "rendering")
    /\ UNCHANGED <<Shop, Money, session, Bounds, History>>

\* restore_frozen_basket; the page with the error message, which allocates anew,
\* follows.
Thaw(r) ==
    /\ req[r].stage = "refused"
    /\ basket' = [basket EXCEPT ![req[r].basket].status = "Open"]
    /\ Goto(r, "rendering")
    /\ UNCHANGED <<order, Money, session, Bounds, History>>

\* OrderCreator.place_order, with the lines cached when the request began.  A
\* number that is taken is a ValueError nobody catches: an error 500.
PlaceOrder(r) ==
    /\ req[r].stage = "paid"
    /\ IF order[req[r].basket] = NoOrder
         THEN /\ order' = [order EXCEPT ![req[r].basket] = req[r].lines]
              /\ Goto(r, "ordered")
         ELSE End(r) /\ UNCHANGED order
    /\ UNCHANGED <<basket, Money, session, Bounds, History>>

\* Faulty variant: the basket is left as place_order found it.
LeaveFrozen(r) ==
    /\ req[r].stage = "ordered"
    /\ req' = [req EXCEPT ![r].stage = "saving",
                          ![r].allocations = NoAllocations]
    /\ UNCHANGED <<Shop, Money, session, Bounds, History>>

\* basket.submit and handle_successful_order, which flushes the session data.
MarkSubmitted(r) ==
    /\ req[r].stage = "ordered"
    /\ basket' = [basket EXCEPT ![req[r].basket].status = "Submitted"]
    /\ req' = [req EXCEPT ![r].stage = "saving",
                          ![r].allocations = NoAllocations]
    /\ UNCHANGED <<order, Money, session, Bounds, History>>

(***************************************************************************)
(* CheckoutView.post of the REST interface.                                *)
(***************************************************************************)

\* parse_basket_from_hyperlink and request_allows_access_to_basket: any basket
\* of the customer, if it can be edited; else error 401.  Of the editable statuses
\* only Open occurs: saved baskets are not modelled.
ParseBasket(r) ==
    /\ At(r, {"rest"}, "asking")
    /\ \E b \in BasketIds :
         /\ basket[b].status # "None"
         /\ IF basket[b].status = "Open" THEN Hold(r, b)
            ELSE End(r) /\ UNCHANGED overlapped
    /\ UNCHANGED <<Shop, Money, session, Bounds, interrupted, viaApi>>

\* Faulty variant: a number that is taken is not noticed.
PlaceApiOrderAnyway(r) ==
    /\ req[r].stage = "validated"
    /\ order' = [order EXCEPT ![req[r].basket] = req[r].lines]
    /\ viaApi' = viaApi \cup {req[r].basket}
    /\ Goto(r, "placed")
    /\ UNCHANGED <<basket, Money, session, Bounds, overlapped, interrupted>>

\* CheckoutSerializer.create: no payment; a number that is taken is error 406.
PlaceApiOrder(r) ==
    /\ req[r].stage = "validated"
    /\ IF order[req[r].basket] = NoOrder
         THEN /\ order' = [order EXCEPT ![req[r].basket] = req[r].lines]
              /\ viaApi' = viaApi \cup {req[r].basket}
              /\ Goto(r, "placed")
         ELSE End(r) /\ UNCHANGED <<order, viaApi>>
    /\ UNCHANGED <<basket, Money, session, Bounds, overlapped, interrupted>>

\* basket.freeze(), on the instance read by ParseBasket.
FreezeOrdered(r) ==
    /\ req[r].stage = "placed"
    /\ basket' = [basket EXCEPT ![req[r].basket].status = "Frozen"]
    /\ End(r)
    /\ UNCHANGED <<order, Money, session, Bounds, History>>

\* A worker that is killed, or an exception nobody catches: those of handle_payment
\* and UnableToPlaceOrder are, a ValueError for a voucher that ran out, or one of
\* the database or the mail server once payment is through, are not.
Fail(r) ==
    /\ req[r].stage # "idle"
    /\ interrupted' =
         IF req[r].kind \in Ordering /\ req[r].stage \in
              {"frozen", "verifying", "debiting", "refused", "paid", "ordered",
               "placed"}
           THEN interrupted \cup {req[r].basket} ELSE interrupted
    /\ End(r)
    /\ UNCHANGED <<Shop, Money, session, Bounds, overlapped, viaApi>>

\* Meanwhile the account is topped up or spent from, frozen or thawed, or a date of
\* its passes or is edited.
AccountChanges(a) ==
    /\ events < MaxEvents
    /\ events' = events + 1
    /\ \/ \E amount \in {-1, 1} :
            account' = [account EXCEPT ![a].balance = @ + amount]
       \/ account' = [account EXCEPT ![a].open = ~@]
       \/ account' = [account EXCEPT ![a].current = ~@]
    /\ UNCHANGED <<Shop, paid, session, req, started, History>>

Step(r) ==
    \/ GetBasket(r) \/ NoBasket(r) \/ CreateBasket(r)
    \/ AddProduct(r) \/ AddNothing(r) \/ ReadLines(r)
    \/ Allocate(r) \/ NothingToAllocate(r) \/ SaveSession(r)
    \/ Freeze(r) \/ CheckAllocations(r)
    \/ \E a \in Accounts : Verify(r, a) \/ Debit(r, a)
    \/ PaymentFails(r) \/ Thaw(r) \/ PlaceOrder(r) \/ MarkSubmitted(r)
    \/ ParseBasket(r) \/ PlaceApiOrder(r) \/ FreezeOrdered(r)

Next ==
    \/ \E r \in Requests :
         \/ \E kind \in Kind : Begin(r, kind)
         \/ Step(r)
         \/ Fail(r)
    \/ \E a \in Accounts : AccountChanges(a)

\* A worker that serves a request goes on with it.
Fairness == \A r \in Requests : WF_vars(Step(r))

Spec == Init /\ [][Next]_vars
FairSpec == Spec /\ Fairness

(***************************************************************************)
(* Properties.                                                             *)
(***************************************************************************)

\* Every table and every request holds what the code can put there.
TypeOK ==
    /\ basket \in [BasketIds -> [status : Status, lines : Lines]]
    /\ order \in [BasketIds -> Lines \cup {NoOrder}]
    /\ paid \in [BasketIds -> Nat]
    /\ account \in [Accounts -> AccountRow]
    /\ AreAllocations(session)
    /\ DOMAIN req = Requests
    /\ \A r \in Requests :
         /\ DOMAIN req[r] = DOMAIN Idle
         /\ req[r].kind \in Kind /\ req[r].stage \in Stage
         /\ req[r].basket \in BasketIds \cup {0} /\ req[r].lines \in Lines
         /\ AreAllocations(req[r].allocations)
         /\ req[r].todo \in SUBSET DOMAIN req[r].allocations
    /\ started \in 0 .. MaxRequests /\ events \in 0 .. MaxEvents
    /\ overlapped \subseteq BasketIds /\ interrupted \subseteq BasketIds
    /\ viaApi \subseteq BasketIds

\* No order of the site without its money: whatever tabs, REST requests, stale
\* sessions and failures did, the transfers that carry the number of an order
\* cover what was ordered.  Orders of the REST interface are placed unpaid.
OrdersArePaid ==
    \A b \in BasketIds :
      order[b] # NoOrder => b \in viaApi \/ paid[b] >= Total(order[b])

Quiet(b) == \A r \in Requests : ~Submitting(r, b)
Undisturbed(b) == Quiet(b) /\ b \notin overlapped \cup interrupted

\* The customer is charged what was ordered, to the cent and once, unless two
\* submissions of the basket overlapped or one failed half-way; a payment that
\* was refused has taken nothing, and what was ordered by REST is not charged
\* by the site afterwards.
ChargedExactly ==
    \A b \in BasketIds : Undisturbed(b) =>
      paid[b] = IF order[b] = NoOrder \/ b \in viaApi THEN 0 ELSE Total(order[b])

\* Step by step: the checkout takes from an account only what it books for a
\* basket, never changes an order, orders nothing empty, and has the money before
\* the site places the order, whatever tabs, stale copies and failures do.
Sale == INSTANCE Sales WITH
          Baskets <- BasketIds,
          Orders <- Lines,
          Worth <- [lines \in Lines |-> Total(lines)],
          Opening <- [a \in Accounts |-> Opening[a].balance],
          balance <- [a \in Accounts |-> account[a].balance],
          given <- viaApi,
          outside <- events
SalesSpec == Sale!Spec

\* Outside the exceptions of ChargedExactly the status tells the truth: the basket is submitted
\* just when the site ordered it, and frozen just when the REST interface did.
StatusMatchesOrder ==
    \A b \in BasketIds : Undisturbed(b) =>
      /\ basket[b].status = "Submitted" <=> order[b] # NoOrder /\ b \notin viaApi
      /\ basket[b].status = "Frozen" <=> order[b] # NoOrder /\ b \in viaApi

\* A frozen basket is ordered or given back in the end, with the same
\* exceptions: the customer is not locked out of it.
NotLeftFrozen ==
    \A b \in BasketIds :
      basket[b].status = "Frozen" ~>
        (basket[b].status # "Frozen" \/ b \in overlapped \cup interrupted \cup viaApi)

\* What Basket.freeze says: "Freezes the basket so it cannot be modified."
FrozenMeansFrozen ==
    [][\A b \in BasketIds :
         basket[b].status = "Frozen" /\ basket'[b].status = "Frozen"
           => basket'[b].lines = basket[b].lines]_vars

=============================================================================
