# Formal models of the quant platform

The platform is a Django 1.11 site (MySQL/InnoDB, autocommit, RabbitMQ, Celery)
that sells *trading policies*: a customer tops up an account, orders a policy
with the account's balance, gets a window of time in which policies of that kind
may run, enters the exchange keys, prices and period of a policy, and a Celery
worker trades on the exchange until the period is over. The shop is a copy of
django-oscar with django-oscar-accounts; the policies, their tasks and
strategies are this project's own.

This directory holds TLA+ models of the parts where the order of steps decides
whether money, orders and policies come out right, TLC runs that check them on
small instances, and TLAPS proofs of the central results. `PROJECT.json` maps
every definition that models code to its lines and lists the hazards with the
properties aimed at them.

Paths below are relative to `src/blockapps/` unless they start with `src/`.

## 1. Inventory

| Component | State it keeps | Operations | Talks to | What is hard | What makes it correct | Status |
|---|---|---|---|---|---|---|
| **Transfers** `oscar_accounts/abstract_models.py`, `facade.py` | Account, Transfer, Transaction rows; a cached balance per account | `facade.transfer`, `PostingManager.create`, `Account.save` | everything that moves money | overlapping transfers on stale instances, InnoDB deadlocks, a failure between five writes | money only moves whole; balance = sum of transactions; credit limits; requests end | `Posting`, `Ledger`; proved |
| **Account administration** `facade.close_expired_accounts`, dashboard views and forms | Account.status | freeze, thaw, edit, close expired accounts | transfers | three kinds of unlocked whole-row saves at once, a command in two transactions | cached balance; a status stays as set; closed accounts were emptied and hold nothing | `AccountLife`; proved |
| **Policy lifecycle** `duiqiao`, `sanjiao`, `limitbuy`: `views.py`, `tasks.py` | policy rows (status, operation, period), Celery queue | create, update, delete, stop; the task's loop | database, broker, exchange | views and task save whole stale rows; lost messages; tasks that die; slots held for days | one task per policy; the status shown is true; rounds are decided on inside the purchased window; every policy gets its turn | `PolicyRunner`, `TaskLife`; proved |
| **Checkout** `oscar/apps/checkout`, `oscar_accounts/checkout`, `order/utils.py` | session allocations, Order rows, payments | preview, submit, redeem, place order, restore | basket, transfers | several tabs, stale sessions, failure after the money is taken | an order is paid; charged once and exactly; basket status agrees with the order | `Checkout`, `Sales`; proved |
| **Basket** `oscar/apps/basket` | Basket, Line rows | get or create, merge, add, freeze, thaw, submit | checkout | open baskets created twice, status tested on a stale instance | frozen means frozen; not left frozen | in `Checkout` (one customer; no vouchers or offers) |
| **Sanjiao strategy** `sanjiao/business.py` | open orders on the exchange, the local copy of their state | three legs, cancel, trade back | exchange | fills between fetch and cancel, partial fills, calls that raise after taking effect | no direction is left half way; one leg at a time; nothing is traded back that was not filled; no second stake before the first came back | `Sanjiao`; proved |
| **Subscriptions** `blockuser/management/commands/sync_orders.py` | QuantPolicyOrder rows | extend or create the window of each order line | orders, create views | a one-second look-back, not idempotent, unlocked read-modify-write | an order of the look-back is counted; a window lasts for what was bought; windows never shrink | `Subscription`; proved |
| **Deposits** `.../eos_deposit_monitor.py` | deposit records | poll the chain, record, credit | accounts | recorded before credited; `Decimal + float` | each deposit is credited once | not modelled: every credit raises TypeError |
| **Reversal, refund** `facade.reverse`, `api/views.py` | parent of a transfer | reverse, refund up to `max_refund` | transfers | check-then-act; reversals without parent | at most the amount goes back | not modelled: the API is not mounted |
| **REST interface** `oscarapi` | the shop's rows | baskets, checkout | basket, orders | a second route to an order, without payment and with freeze after the order | as for Checkout | its checkout in `Checkout` |
| **Duiqiao, limitbuy, fcoin** `*/business.py` | none between rounds (fcoin: remaining amount) | place orders | exchange | swallowed errors, orders nobody cancels | not selling the same coins twice | not modelled: rounds keep no state, nothing starts the fcoin loop |
| **Ticker feeds** `exwss` | a bounded list per symbol | append, read last | websocket threads | delete-then-append against an unlocked reader | a reader finds a ticker | not modelled: nothing of the platform reads them |
| **Log streaming** `wslog` | Channels groups | forward | browser | | | not modelled: stateless |
| **Throttle** `oscar_accounts/security.py` | failure counters per address | increment, reset, test | code entry | counters saved unlocked | | not modelled |
| **Stock, shipping, payment events** `oscar/apps/order/processing.py`, `partner` | stock, events | allocate, consume, cancel | orders | atomic update beside read-modify-write | | not modelled: policies track no stock |
| **Redirect payments** `payjs`, `alipay` | order number in the session | notification | payment sites | late, repeated notifications | | not modelled: neither path finishes an order as written |
| Users, oscar's catalogue, offers, search, dashboards; `chat`; `djcom`, `blockdjcom`; `3rdapps`, `py3rd`, `acom`, `blockcomm` | | | | | | not modelled: pages, vendored or library code |

How they interact: *Checkout* debits accounts by *Transfers* and writes Order
rows; *Subscriptions* turns them into the window (QuantPolicyOrder) that the
create view of the *Policy lifecycle* tests; a policy's task calls a *strategy*
each round. Shared state is always database rows; nothing is locked explicitly
(`select_for_update` is not used), so what holds is owed to InnoDB's implicit
locks, unique keys, or to who writes what.

## 2. Modules

| Module | Models | Composition |
|---|---|---|
| `Ledger` | what the accounts application promises, abstractly: `posted` changes only by whole transfers | refined by `Posting` |
| `TaskLife` | what the workers promise of a policy's task, abstractly: waited for, run once, over | refined by `PolicyRunner` |
| `Sales` | what the shop promises of money and orders, abstractly: whole payments for one basket, orders that are paid for and never changed | refined by `Checkout` |
| `Posting` | `facade.transfer` and `PostingManager.create`, statement by statement, with the row locks | `L == INSTANCE Ledger` |
| `AccountLife` | dashboard saves, `close_expired_accounts`, and transfers around them | a transfer is one step, which is what `Posting` shows |
| `PolicyRunner` | views, table, broker, workers of one user's policies | `Life == INSTANCE TaskLife` |
| `Checkout` | the requests of one customer in several tabs and by REST, from basket to order | a transfer is one step; `Sale == INSTANCE Sales` |
| `Subscription` | overlapping runs of `sync_orders` beside the transactions that place orders, and the create view's test of the rows | the orders are those `Checkout` places, the window is `PolicyRunner`'s purchased period |
| `Sanjiao` | one `Sanjiao.run` beside an exchange that fills and withdraws orders | |
| `PostingProofs`, `PolicyRunnerProofs`, `AccountLifeProofs`, `CheckoutProofs`, `SubscriptionProofs`, `SanjiaoProofs` | theorems | extend the module they are about |
| `SumProofs` | lemmas about sums over finite sets | extended by the proofs of `Posting`, `Checkout` and `Subscription` |
| `MC...` | constants for TLC | extend the module they instantiate |

Operators whose comment begins with "Faulty variant" or "For the mutation of" are not
used by any specification: each is the form a definition would have after a
plausible bug, and with it the property it is paired with in `PROJECT.json`
fails. They document that the property can tell the difference.

### Posting

State: `row` (committed Account rows), `posted` (sum of the committed
Transaction rows per account), and per request its `job`, `stage`, the `copy` of
the two Account instances, and the `shared`/`excl` row locks. Actions follow the
code: `Fetch` (the two SELECTs), `VerifyTransfer` (`facade.transfer`'s test and
`verify_transfer`, on the copies), `InsertTransfer` (the INSERTs, whose foreign
keys lock both account rows in shared mode), `SumSource`, `UpdateSource`,
`SumDestination`, `UpdateDestination` (`Account.save`), `Commit`. Statements whose
order nothing can observe (the three INSERTs) are one step. `LockWaitAbort` is
InnoDB's deadlock detection or lock wait timeout, possible only for a request
that waits for another; `Crash` may happen at any statement before COMMIT. The reads inside the
transaction see the latest committed sum: the shared locks taken
before keep other writers of the same accounts from committing in between, so
the snapshot and the current state agree.

### AccountLife

Three sorts of actor: requests (fetch, then verify-and-post in one step),
dashboard saves (`Load`, `SumForm`, `SaveForm`: the sum is read one statement
before the UPDATE), and runs of `close_expired_accounts` (`FetchLapsed`, `Find`,
then per account `Lapse` or `SkipAccount`, `SumClosing`, `SaveClosing`). Every
save writes the whole row from an instance read earlier, status included.
History variables: `spoilt` (accounts a save gave a sum from before a transfer),
`emptied` (accounts whose balance the command moved to Lapsed), `lastSet` (the
status an account was last given on purpose) and `crossed` (accounts written
while somebody else held an instance that may still be saved; an edit of a
status that nobody overlaps takes the account out again). Account creation,
deletion of a code and reports are left out.

### PolicyRunner

`now` is the clock; `table` the policy rows; `creating` the policies between
`form.save()` and `.delay()` in the create view; `editing` the update view's
instance; `queue` the broker; `at`, `policy`, `copy`, `since` the worker slots.
A task reads its row and decides: `Finish`, `WaitForStart` or `DecideToTrade`. To
trade it saves the whole row and calls `quant.run()` (`Start`), any time after the
`nowtime` it decided on (`since`), and reads again when that returns (`Trade`).
`Model.save` of a row that is gone inserts it: hence `table'[p] = ...` without a
guard in `SaveAs`. The slots are shared with other users: a slot is "lent" while it
runs somebody else's policy, and nothing is assumed of when it comes back (`Return`).
`Over` is the end of the modelled time, not a step of the code.

The three kinds of policy share this loop; the map names lines of each. Where they
differ: limitbuy starts up to 100 microseconds early (`limitbuy/tasks.py:51`), which
is `Tolerance`, given per policy; they sleep for different times, which the clock
leaves open; duiqiao saves `update_time` when the row was updated five minutes in the
future (`duiqiao/tasks.py:65`, the difference is taken the wrong way round), which
does not happen; duiqiao's loop alone catches a missing row, the others raise on it,
and both end the task.

`TaskDies` covers exceptions (the limitbuy error handler raises one) and killed
workers. The message is gone by then: Celery acknowledges it when the task starts.
The settings ask for the opposite, `task_acks_late = True` and
`task_reject_on_worker_lost = True` (`src/blockserver/blockserver/settings.py:514-515`),
but the application reads only settings whose names begin with `CELERY_`
(`src/blockserver/blockserver/celery.py:14`), and Django's settings object only
names in capitals, so neither is in force. `LifeSpec` depends on
that: were the settings in force, the message of a lost task would be delivered
again, and the task started a second time.

As a `TaskLife`, a policy is
waited for while the create view holds it or its message is queued, running in
the slot that works on it, and over when its id is used and it is in none of
these places; whether its row exists does not matter to that.

### Checkout

`basket`, `order`, `paid`, `account` are tables; `session` the allocations in
the customer's session; `req` the requests in progress with their copies.
The middleware gets the open basket (merging several, or creating one in two
steps), `AddProduct` saves a line, the preview page allocates the balance
(`Allocate`, `SaveSession`), and a submission runs `Freeze`, `CheckAllocations`,
`Verify` for each allocation, `Debit` for each, `PlaceOrder`, `MarkSubmitted`.
A refusal, any exception of `handle_payment` and `UnableToPlaceOrder`
(`PaymentFails`) lead to `Thaw` and the preview page again, even when money has
been taken; `Fail` is an exception nobody catches, or a killed worker, at any point. The
session is written back as a whole at the end of a request and not at all on an error
500. An account has two conditions: `current`, that today is between its dates, which
is all `Account.active` and so the preview page look at, and `open`, its status,
which `verify_transfer` tests as well: the preview allocates a frozen account,
and the submission is refused. The order number is 100000 + basket id,
so `order` and `paid` are indexed by basket. Left out: merging is one step;
offers and vouchers (none defined); addresses and shipping (digital products);
`add_allocation`, `remove_allocation` and `select_account` (no request reaches
them); redirect payments.

A REST request (`kind = "rest"`) is `oscarapi`'s `CheckoutView`: `ParseBasket`
(any basket of the customer that can be edited; of the two
editable statuses only Open occurs here), `ReadLines`, `PlaceApiOrder` (no
payment; a number that is taken is an error 406), `FreezeOrdered` (afterwards,
from the instance read first). `viaApi` records the baskets ordered that way.

Seen as `Sales`, only four things happen: an account pays for one basket
(`Debit`), the site orders what is paid for (`PlaceOrder`), the REST interface
orders (`PlaceApiOrder`), and an account changes from outside (`AccountChanges`).

### Subscription

`placed` and `committed` are the two ends of `place_order`'s transaction: an
order is dated when its row is written and visible when the transaction ends.
`window` holds the QuantPolicyOrder rows, with their primary keys in order. A
run fixes `since` (`Begin`), selects the lines (`List`), and for each, newest order
first, reads the customer's rows for the product (`ReadRows`) and saves every one of
them (`SaveRow`) or, if there is none, inserts one (`CreateRow`). A product outside
`policy_url_map` raises (`RaiseKeyError`). Nothing is locked, so `copy` may be
outdated when it is saved. A run may be killed at any point. The create view's
test (`CreateVerdict`) accepts, refuses or fails on zero or several rows. A
"product" is a product as one customer buys it, since rows are looked up by
both. `counted` and `clashed` are history variables. Edits of the rows in the
admin and the names and URLs a row carries are left out.

### Sanjiao

`orders` is the exchange's, the rest are the local variables of `run`: the
direction and leg it is at, the volumes, the last fetched `filled`, the legs still to
be traded back. A volume is an amount of the base coin of its order's market, as in
the code. There are no prices: a leg and the order that trades it back are on the
same market, so the properties compare volumes of one market and say nothing of what
the trades cost. Where the code divides by a price the result is a free choice (`Choose`
for the first leg, `Handed` for the second of direction 1); where it hands a number on
as it is, so does `Handed`, also to the third leg of direction 2, where the coin is
another one. `Net` is the taker's fee with the rounding, one for the three markets.
Balances are the exchange's right to refuse any order (`Rejected`): a leg that
brought less than the next one sells, or a trade back that its price does not cover,
ends like that. What the market limits permit is free, too, and every call may fail
before or after it took effect. `disturbed` records what went wrong, and the
properties say which disturbances they tolerate. The two
`ipdb.set_trace()` calls (`sanjiao/business.py:108`, `:194`) are taken to return.

## 3. Runs

"Violation" runs check what a comment, docstring or the README of the source
says, and TLC finds it violated; each has an entry under `findings`.

| Run | Question | Instance | States (about) |
|---|---|---|---|
| `posting` | do verification, locks and recomputed balances keep the ledger right, and does every request end? | 3 requests: one asks for any of 13 transfers, including every reason for refusal, the others contend for the same two rows in both orders | 264 000 |
| `posting_overdraft` (violation) | "cannot run a negative balance" | 2 requests | small |
| `account_life` | what survives the dashboard, two closing runs and a transfer at once: balances, statuses, emptied accounts? | 4 accounts (one unlimited, two expired, one of them empty), 1 request, 1 save, 2 commands | 1 391 000 |
| `account_life_stale_balance` (violation) | "balance is always correct when saving" | 1 edit, 1 top-up | small |
| `account_life_left_open` (violation) | "Close expired, open accounts" | the command alone, one account used up | small |
| `policy` | one task per policy, true status, purchased window, one life per task, everybody's turn | 2 policies, one of them with a tolerance of 1 instant, 2 worker slots of which 1 may be lent, 3 instants, 1 edit | 500 000 |
| `policy_undeleted` (violation) | "deleting policy": the row comes back and the policy trades | 1 policy, 1 worker | small |
| `checkout` | paid orders, exact charges, statuses, whole payments and unchanged orders, no frozen basket | 2 tabs, 4 requests (pages or REST), up to 2 pieces of a product, 2 accounts of which one is not current at first, 1 outside change | 267 000 |
| `checkout_frozen` (violation) | "cannot be modified" | the same, no outside change | small |
| `subscription` | is every order of the look-back counted, what is a window worth, does the create view accept it? | 2 orders of a known and an unknown product, 2 rows, 2 runs, 5 instants | 9 800 000 |
| `sanjiao` | no direction left half way, one leg at a time, nothing traded back beyond what was filled, the stake made again only after a full round | volumes up to 3, a whole coin is 2 steps, a fee of 1 step from 3 on, both directions | 1 370 000 |
| `sanjiao_sells` (violation) | "sell everything" | the same | small |

### Why the bounds are enough

- *Posting*: a lock conflict or a lost update needs two transfers; the third
  request makes cycles with a bystander and queues behind an aborted transfer.
  One request is free to ask for anything while two contend; if all three were free the run
  would add only permutations.
- *AccountLife*: every race is between a save and one other commit; the second
  run of the command makes it race with itself.
- *PolicyRunner*: two policies and two slots suffice for "run twice". With one slot
  lent, the two policies share the other: one waits in the queue until the other's
  task is over, which is what `EveryPolicyStarts` is about. With 3
  instants and one of them purchased, "too early", "inside" and "over" all
  occur, and with a tolerance of one instant the first policy may start at instant 0. `MaxEdits` = 1: an edit acts through the row it writes, and one stale write is
  enough to disturb; the theorems have no such bound.
- *Checkout*: 4 requests are a filled basket, a preview and two submissions.
  Two pieces cost 2, more than one account's balance of 1, so paying with two accounts,
  which makes half-paid orders possible, occurs after the start date of
  the second account has come, and a larger allocation after a top-up. Other runs freeze
  the first account, which is allocated and then refused, or let it expire, when there
  is nothing to allocate. `MaxQuantity` = 2 leaves two
  non-empty baskets of different price. A run may deadlock (`CHECK_DEADLOCK FALSE`) because customers stop
  making requests at the bound.
- *Subscription*: two orders show a loop that raises between them and an
  extension after an insertion; two runs overlap, or follow each other closer
  than the look-back. With a look-back of 2, a month of 3 and 5 instants, orders fall
  before, at and after its edge, and windows lapse before they are renewed. Runs
  do not differ, so they are a symmetry set (there are no liveness properties here).
- *Sanjiao*: volumes up to 3 with whole coins of 2 have fills below, at and above a
  whole coin, partial fills of each leg, and one volume that pays a fee and two
  that do not, so a volume handed on before and after the fee can be told apart.

### Fairness

- `Posting`: weak fairness of every request's next statement, and of
  `LockWaitAbort`: InnoDB does break deadlocks and end lock waits. Nothing is
  assumed about `Crash`.
- `PolicyRunner`: the clock goes on; a worker slot goes on with its task and
  takes a message when it is idle and there is one; the create view, once
  it has saved, sends the message or fails. No fairness for users, operators,
  crashes, or for the return of a lent slot. That `quant.run()` returns is part of it: the strategies modelled have timeouts at
  the exchange client; the fcoin loop, which is not run by these tasks, has not.
- `Checkout`: a worker serving a request goes on with it. Nothing is assumed of
  customers or of `Fail`.
- `AccountLife`, `Subscription` and `Sanjiao` have safety properties only, and no
  fairness: the dashboard and a command started by hand or by cron promise no progress.

Safety properties are checked under the same specifications and do not depend
on fairness.

## 4. Properties

`Posting` — `CachedBalance`: the cached balance is the sum of the transactions
whatever overlaps. `SoleDebitorStaysInCredit`: the part of the credit limit that
does hold (an account only one request debits). `LedgerMatchesAnswers`: a
request that reports success has moved its amount once, any other has moved
nothing. `OnlyOpenAccountsMove`. `LedgerSpec`: refinement of `Ledger`.
`EveryRequestEnds`, `SomeoneGetsThrough`: deadlocks do not starve everybody.

`AccountLife` — `SpoiltOnlyByOverlap`: the cached balance can be wrong only
after a dashboard or closing save overlapped a transfer, and the next transfer heals it.
`StatusIsAsSet`: an account keeps the status it was given, and
`ClosedHoldsNothing`: what was closed holds and owes nothing, both up to accounts
written while somebody else held an instance of them. `ClosedWereEmptied`.

`PolicyRunner` — `OneTaskPerPolicy`, `StoppedMeansIdle`, `RunMeansWorked` (up to
tasks that died and rows an update view saved back). `DecidedInWindow`: a round is
decided on inside the purchased window, or before it within the tolerance of the
policy's kind (up to edits, which are not checked); when the save and the round follow,
the code does not say. `EveryTaskEnds`; `EveryPolicyStarts`: a policy that is queued
behind the tasks of others gets a slot. `LifeSpec`:
refinement of `TaskLife`; `OneTaskPerPolicy` is about a moment, this one says that a
task that is over, be it stopped, finished, dead or never sent, is not started
again, although views and tasks go on inserting and updating its row.

`Checkout` — `OrdersArePaid` without exception; `ChargedExactly` and
`StatusMatchesOrder` for baskets that no two submissions shared and no
submission failed on half-way; `NotLeftFrozen` with the same exception. The
exceptions are real: two overlapping submissions charge twice, a crash after the
debit takes money without an order. Orders of the REST interface are the third exception,
and the properties say what holds of them instead: nothing is charged, and the
basket ends frozen, not submitted. `SalesSpec`: refinement of `Sales`; it adds
to `OrdersArePaid` that an order is paid for when it is placed, is not empty
and is never changed, that what an account loses to the checkout is booked for a
basket in the same step, and that nothing is taken back.

`Subscription` — `CountsTheLastSecond`: a run that ends normally counts every order of
the second before it began, and no run counts an older one. `RaiseSparesNewer`: a
KeyError never costs an order newer than the one that raised; its own other lines, orders
of the same instant and older ones it may. `WindowsOnlyGrow`, up to saves of outdated copies.
`BuyerCanTrade`: unless two runs clashed on the product, a customer whose order
was counted passes the create view's test for everything bought since.
`NeverMoreThanCounted`: overlapping runs never grant more than they count.

`Sanjiao` — `EndsSquare`: a run nothing disturbed leaves no direction half way; either
each of its legs is traded back for just what it was filled, or it went all the way
round and the coin that `symbol1` and `symbol2` share was sold as it was bought.
`OneLegAtATime` unless a call about an existing order failed. `TradesBackNoMore`:
however fills and cancellations race, no more of a leg is traded back than it was
filled for, unless a leg the exchange had cancelled was taken for filled.
`SecondStakeAfterFirst`: the opposite direction stakes `base_volume` again only after
the first placed nothing or closed its third leg, unless a call raised or a cancelled leg
was taken for filled. None of them says that the run does not lose money: spread
and fees are outside the model. `SellsEverything`, what the comments promise, is violated.

## 5. Proofs

Checked by TLAPS, for all values of the constants that satisfy the modules'
assumptions (types of the constants; the "nothing" values are distinct from the
real ones):

| Theorem | Statement |
|---|---|
| `PostingProofs!TypeCorrect` | `Spec => []TypeOK` |
| `PostingProofs!BalanceIsCached` | `Spec => []CachedBalance` |
| `PostingProofs!SoleDebitorIsSafe` | `Spec => []SoleDebitorStaysInCredit` |
| `PostingProofs!PostingImplementsLedger` | `Spec => LedgerSpec` |
| `PostingProofs!OnlyOpenMove` | `Spec => []OnlyOpenAccountsMove` |
| `PostingProofs!AnswersAreTrue` | `Spec => []LedgerMatchesAnswers` |
| `PolicyRunnerProofs!TypeCorrect` | `Spec => []TypeOK` |
| `PolicyRunnerProofs!NeverRunTwice` | `Spec => []OneTaskPerPolicy` |
| `PolicyRunnerProofs!StoppedIsIdle` | `Spec => []StoppedMeansIdle` |
| `PolicyRunnerProofs!UneditedIsPaidFor` | `Spec => []DecidedInWindow` |
| `PolicyRunnerProofs!RunningIsWorked` | `Spec => []RunMeansWorked` |
| `PolicyRunnerProofs!TasksHaveOneLife` | `Spec => LifeSpec` |
| `AccountLifeProofs!TypeCorrect` | `Spec => []TypeOK` |
| `AccountLifeProofs!OnlyOverlapSpoils` | `Spec => []SpoiltOnlyByOverlap` |
| `AccountLifeProofs!ClosedEmptied` | `Spec => []ClosedWereEmptied` |
| `AccountLifeProofs!StatusKept` | `Spec => []StatusIsAsSet` |
| `AccountLifeProofs!ClosedIsZero` | `Spec => []ClosedHoldsNothing` |
| `CheckoutProofs!StatusTellsTheTruth` | `Spec => []StatusMatchesOrder` |
| `CheckoutProofs!TypeCorrect` | `Spec => []TypeOK` |
| `CheckoutProofs!NoOrderUnpaid` | `Spec => []OrdersArePaid` |
| `CheckoutProofs!ChargedToTheCent` | `Spec => []ChargedExactly` |
| `CheckoutProofs!CheckoutImplementsSales` | `Spec => SalesSpec` |
| `SubscriptionProofs!TypeCorrect` | `Spec => []TypeOK` |
| `SubscriptionProofs!LastSecondCounted` | `Spec => []CountsTheLastSecond` |
| `SubscriptionProofs!NewerOrdersSpared` | `Spec => []RaiseSparesNewer` |
| `SubscriptionProofs!WindowsGrow` | `Spec => WindowsOnlyGrow` |
| `SubscriptionProofs!NothingGivenAway` | `Spec => []NeverMoreThanCounted` |
| `SubscriptionProofs!BuyersCanTrade` | `Spec => []BuyerCanTrade` |
| `SanjiaoProofs!TypeCorrect` | `Spec => []TypeOK` |
| `SanjiaoProofs!LegsTakeTurns` | `Spec => []OneLegAtATime` |
| `SanjiaoProofs!NeverTradesBackMore` | `Spec => []TradesBackNoMore` |
| `SanjiaoProofs!SecondComesAfterFirst` | `Spec => []SecondStakeAfterFirst` |
| `SanjiaoProofs!RunEndsSquare` | `Spec => []EndsSquare` |

**Sums.** Transfers, allocations and order lines are added up with
`SumFunctionOnSet`, which is defined by recursion on subsets in an order left to
CHOOSE. `SumProofs` shows that this recursion has a solution on every finite set
(`SumsExist`), that any two solutions agree (`SumsAgree`), and from these how a
sum changes with one of its terms (`SumWithChange`) or with one more element
(`SumWithMore`). Where one would argue by induction on the set, the proof takes a
smallest subset for which the claim fails (`Minimal`), so no induction principle with an
operator parameter is used. `Checkout` assumes
`Products` and `Accounts` finite, as tables are; the other sums are over sets that
are proved finite: the requests that have posted, the lines that were counted.

**Posting.** `CachedBalance` is not inductive: COMMIT writes sums that were read
some statements earlier. `Inv` adds why they are still true: `LocksMatchStage`
(locks follow from the stage), `WritersAreAlone` (nobody holds a row another has
written), `SumsStayTrue` (a sum read under lock equals the sum at COMMIT) and
`VerifiedJobs`. The heart is `CommitsAreDisjoint`: when one request commits, any
other request inside a transaction holds other accounts, so its sums are
untouched. `SoleDebitorIsSafe` needs `DebitorInv` besides: what the only debitor
has fetched is at most what is there, since everybody else only adds. For the
refinement, `Commit` is a step `Post` of `Ledger` (two different accounts, a
positive amount: `VerifiedJobs`) and every other step stutters. `OnlyOpenMove` adds
`DormantInv`: of an account that starts frozen or closed every copy still has
the first row, so verification refuses it and no request ever holds it locked
for writing. `AnswersAreTrue` needs, beside `Inv`, that the requests that have
posted are finitely many: COMMIT adds one request to them and its `Moved` to
both its accounts, and nothing else touches either side.

**PolicyRunner.** `OneTaskPerPolicy` rests on `InOnePlace` (a policy is with the
create view, in the queue or with one worker, never in two of these) and
`UnusedIsNowhere` (ids are given out once, so a place that was left is not
entered again). `StoppedMeansIdle` would be broken by any stale copy that says
"stop" while the policy lives: `StopIsNowhere` extends it to the update view's
instances and `CopyIsNotStopped` to the tasks'. `DecidedInWindow` rests on
`Paid`: of a policy that was never edited, the row and all copies are inside the
window, and a decision was made inside the period of such a copy, up to its tolerance.

`TasksHaveOneLife` needs the same two: `Create` is `Order` since a new id is in no
place, `DelayFails` is `Drop`, `Take` is `Begin`, and whatever makes a worker leave
(`Finish`, `ReadNothing`, `TaskDies`) is `End`, after which the policy is used and in no
place. The other steps, `Delay` among them, which moves a policy from the view to
the queue, stutter.

`RunningIsWorked` is inductive beside the types (`Worked`): a row comes to say "run"
only by its task or by an update view (`RunComesFrom`), a worker leaves a row that
says so only by dying, and the excuses (`lost`, `edited`) are never taken back.

**AccountLife.** `Shape` says what is in memory at each stage of a save and of
the command. `SumsHold`: a sum that was read is still right or the account is in
`spoilt`. `LegalOf`: no instance anywhere says "Closed" of an account that was
not emptied. `Agreed`: of an account not in `crossed`, every instance that may
still be saved has the status it was last given; `Settled`: and there is in it
what the command believes. The last two need `SpoiltAreCrossed`.

**Checkout.** `StatusMatchesOrder` only speaks of baskets at rest. `TruthOf` says
what holds on the way: of a basket that was neither shared nor left half-way
there is at most one submission; its stage tells whether the order exists
(`Unordered`, "ordered", "placed"); and when it is `Settled`, status and order agree.
`Shape` gives the fields of tables and requests; that merging baskets yields
lines again needs that a bounded set of numbers has a largest element, which follows
from the well-foundedness of the naturals (`LargestIsThere`).

For the money, `TypeInv` adds what is known of a payment under way (`IsPayment`):
once accepted the allocations add up to the price, those already verified are
positive, and nothing is left to debit when the submission goes on. That makes
`paid` grow only (`PaidGrows`), whatever other tabs do, so `Covers` is inductive: what
is booked for the basket is at least what this submission has taken (`Done`), hence
at least the price when it orders. `ChargedToTheCent` makes it an equation for
baskets that are left alone: `Charged` says that a quiet basket has cost what is due
(`Due`) and one that is being submitted what the submission has `Taken`; with two
submissions, or one that broke off, neither equation survives, which is why the
exceptions are there. For `Sales`, `Priced` adds that a submission's lines, read
once, are not empty.

**Subscription.** `Typed` adds `Dated` (orders are dated before they are
committed) and `Sound` (a run works on lines it asked for). For the counts:
`NothingForgotten` (a line that could be seen in time is counted, at hand, or
still to do), `NewestFirst` (what is left is not newer than the line at hand) and
`CountedWereFresh`.

`NothingGivenAway` compares a window with the months counted for it: `CopiesGranted`
says that a row somebody has read is no longer than what was counted before the
line at hand, so saving it, outdated or not, adds at most that line. `BuyersCanTrade`
rests on `OneWindow`: a product that no two runs clashed on has one row, which has
begun and lasts, from any date on, for all that was counted of the orders placed
since; an outdated copy cannot occur there without a clash.

**Sanjiao.** `Sound` is what the exchange keeps (`Books`: no order is filled
beyond its volume) and what the run keeps (`Locals`, with `Rows`: the legs still to be
traded back are the lowest ones, highest first). `Fresh`: orders the run has
yet to come to do not exist. `OnlyThisIsOpen` gives `OneLegAtATime`.

`TradesBackNoMore` is carried by `NoMore`: what is handed on, due or traded back of a
leg is `Covered` by what was filled, since `filled` was fetched from an order that is only
filled further. `SecondStakeAfterFirst` needs `InTurn`: while the second direction is under
way the first is over, and once over it stays so, for a closed order does not change.

For `EndsSquare` the inequality becomes an equation, as long as nothing disturbed the
run (`Undisturbed`): `Exact` says of each leg before the current one, and of each leg
that is due, that its volume is just what it was filled for, `HandedOn` that the coin
bought on leg `Bought` is the volume of the next leg, and `Halfway` that legs above those due
are traded back already. A leg that is cancelled without a trade back was not filled at all:
otherwise the run was raced or left dust. When a direction is over, either no leg is
due any more or its third leg was closed, which makes it `Square`, and `OverStays`
keeps that: nothing touches the orders of a direction that is behind, but fills and
withdrawals, for which its legs would have to be open.

Only model-checked:

- liveness, which needs fairness: `EveryRequestEnds`, `SomeoneGetsThrough`,
  `EveryTaskEnds`, `EveryPolicyStarts`, `NotLeftFrozen`;
- the violated properties, by their nature.

Every other property of the passing runs is a theorem above.

## 6. Known disagreements

With a run: see `findings` in `PROJECT.json` (overdraft by two payments; a deleted
policy that its task inserts again and trades for; a dashboard save that stores an outdated balance; expired
accounts left open; a frozen basket that is changed; partial fills that are never sold).

Within the properties, as their exceptions:

- the update view does not test the purchased window (`duiqiao/views.py:47`;
  the create view does, `:38`), which `DecidedInWindow` excepts;
- a freeze, thaw or closure is undone by the save of a transfer or edit that had read the
  account before (`oscar_accounts/abstract_models.py:295`), an account can be
  credited between the command's transfer and its save, and `close()` accepts an
  account with a negative balance (`:243`): the exceptions of `StatusIsAsSet` and
  `ClosedHoldsNothing`;
- overlapping runs of `sync_orders` lose an extension or insert two rows, and
  runs within a second of each other count an order twice: `clashed`,
  `Outdated`, and the wording of `CountsTheLastSecond`;
- a user without a subscription, or with two rows for one policy, gets an
  UnboundLocalError from the create view (`duiqiao/views.py:41`): the verdict
  `BuyerCanTrade` excludes for those who bought;
- REST orders are placed unpaid: the exception of `OrdersArePaid`;
- two submissions of one basket, and a submission that fails once money is taken, charge
  without or beyond an order; a second submission that is refused thaws a basket
  the first has ordered: `overlapped` and `interrupted` in the properties of `Checkout`;
- in `Sanjiao`, a call that raises leaves the legs before it as they are
  (`sanjiao/business.py:186`), and a later leg the exchange has cancelled is taken for
  filled (`:161`): "rejected", "error" and "withdrawn".

These properties do not show that the excepted cases come out well; they show that
nothing else goes wrong.

Read in the code, without a property:

- the settings for late acknowledgement have no effect
  (`src/blockserver/blockserver/settings.py:514-515`, see PolicyRunner above): a policy
  whose worker is lost is not run again, which `RunMeansWorked` excepts as `lost`;
- the third leg of Sanjiao's reverse direction sells the volume of the second leg,
  an amount of `symbol1`'s base coin, as an amount of `symbol`'s; the
  factor `bid2_price` is missing (`sanjiao/business.py:247`), and trading a leg back pays
  the spread (`:264`): the model hands on the number, and `EndsSquare` claims
  nothing about that coin;
- the task's whole-row save undoes an edit made meanwhile (`duiqiao/tasks.py:71`);
- `ChangeStatusForm` never looks at the current status, so a closed account can
  be thawed (modelled, and not in conflict with anything the source says);
- `restore_frozen_basket` says the thawed basket is the only open one, which
  another tab can make untrue.

## 7. Not modelled

- **EOS deposits** (`eos_deposit_monitor`): the credit adds a float to a Decimal
  and raises TypeError after the deposit was recorded, in every order of steps.
- **Reversal and refund**, the rest of `oscar_accounts/api`: not mounted in
  `blockserver`; no request reaches them. A reversal is a transfer as in `Posting`.
- **The rest of the REST interface**: basket lines, addresses, users. They change the
  tables as the pages do, one row at a time.
- **Duiqiao and limitbuy rounds**: sequential calls to an exchange that keep
  nothing between rounds; what the platform sees of them (they return, or die)
  is in `PolicyRunner`. **fcoin**: `do_sell_policy` is started by nothing in
  the repository, and `autotrade.py`, meant to, imports a module that is not there.
- **Ticker feeds**: a list per symbol filled by a websocket thread; no page or policy of
  the platform reads it.
- **Throttle, redirect payments, stock, offers, catalogue, dashboards,
  customers, chat, log streaming, helpers**: see the notes in `PROJECT.json`;
  they are not reached by this site, do not finish as written, or keep no
  state whose order of changes matters.
- **Account creation, gift cards, codes and reports** of the accounts dashboard, and **removing
  lines, saved baskets, vouchers and anonymous baskets** of the basket: single
  writes to rows that nothing else in the models touches.
- **JavaScript**: the scripts in the tree (jQuery, Semantic UI, select2,
  inputmask, the static files of oscar and of Django's admin, some of them in several
  copies) are third-party assets. The program's own logic is Python, and that is
  what `map` refers to.

What could be added next: liveness of the closing command once a scheduler for
it is part of the repository, and reversals beside `Posting` should the API be
mounted.
