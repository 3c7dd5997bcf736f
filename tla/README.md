# Baguspay backend: a TLA+ verification project

Baguspay (`src/`, NestJS, Prisma on PostgreSQL, Bull on Redis) sells digital
goods. A user or a guest orders a product, pays at a payment provider
(Paydisini) or from an account balance (SALDO), and the goods are ordered at a
supplier (Digiflazz). Users fill their balance with deposits. This directory
holds TLA+ models of the parts that move money and goods, the TLC
configurations that check them, and TLAPS proofs. Paths below are relative to
`src/src/` unless they start with `prisma/`.

## 1. Inventory

| Component | State | Operations | Models |
|---|---|---|---|
| BalanceService (`modules/payment/providers/balance`) | `users.balance`, `balance_mutation` | `getBalance`, `addBalance`, `deductBalance` | `BalanceService` |
| Deposits (`web/deposit`) | `deposit.deposit_status`, `expired_at` | `createDeposit`, `cancelDeposit`, `updateStatusDeposit`, two listings | `Deposit`, `Pricing`, `Listing` |
| Orders (`web/transaction`) | `transactions` (four status fields), `transaction_inquiry` | `createTransaction`, `createInquiry`, `payInquiry`, `cancelTransaction`, `updateStatusTransaction`, two listings | `Checkout` (stock), `Storefront` (money), `Transaction` (the rest), `Listing` |
| Callbacks (`web/callback`) | none of its own | `paydisiniCallback`, `digiflazzCallback` | `Deposit`, `Transaction` |
| Queue (`queue/`) | jobs in Redis | producers in `queue.service.ts`; `process`, `processDeposit`, `processRefund` in `queue.consumer.ts` | `Deposit`, `Transaction`, `Checkout` |
| AutoService (`auto/`) | none of its own | two cron jobs each minute, `getDigiflazzProduct` | `Deposit`, `Transaction`, `Checkout`, `Catalogue` |
| PaymentService (`modules/payment`) | none of its own | `createPayment`, `cancelPayment`, `handleCallbackPayment` | as actions of the above; what is charged and answered in `Storefront` |
| Catalogue (`web/products`, `web/services`, banners) | `products`, `product_groups`, `services`, ... | CRUD, the catalogue sync | products in `Catalogue`, lists in `Listing`; the rest not modelled |
| Payment methods (`web/payment-method`) | `payment_method` | CRUD, list | `Catalogue`, `Listing` |
| Authentication and sessions (`auth/`) | `users`, `login_history` | `register`, `login`, `validateUser` | `Accounts` |
| Guards and roles (`auth/`, all controllers) | none, read | `JwtStrategy`, `RolesGuard`, `TransactionGuard` | `Accounts` |
| Users and charts (`web/users`) | `users` | `changeProfile`, lists, two charts | `Accounts`, `Listing`, `Charts` |
| Checkout page (`web/users/ui`) | none, reads | `getPaymentMethod`, `getPaymentMethodInquiry` | `Storefront` |
| Provider clients, file picker, app shell | none | HTTP calls, object store, wiring | environment, or not modelled |

How they interact. HTTP handlers, cron jobs and queue jobs run in one Node
process and interleave at every `await`. They share the database only; no
handler takes a lock of its own. Some updates carry the status they expect in
their WHERE clause (`paydisiniCallback`, the cron jobs) and are atomic; others
read the row first, await, and update by id (`cancelDeposit`,
`cancelTransaction`, both `updateStatus...`, every job, the stock). The
producers write the row first and add the job afterwards. The providers act at
any time and call back any number of times. `prisma.$transaction` protects only
what goes through its `tx`: the balance, the id generator and the providers do
not.

What makes this hard: interleavings of two handlers between a read and a
write; a crash between a row and its job, or between a credit and the record of
it; Bull handing a stalled job out again; answers of the supplier out of order;
payments after a cancellation; transactions that wait for each other.

What makes each component correct:

* balance: no update is lost, the ledger explains the balance, no overdraft;
* deposit: credited at most once, exactly when paid, and the status tells;
* order: goods only for money, refund only for rejected orders and once, the
  status fields true, nothing paid left lying;
* checkout: no unit sold that is not there, every checkout ends;
* prices: what the page says is what is charged, once; a refund gives it back up
  to the fees; nothing is sold below cost by accident;
* accounts: no two accounts for one e-mail address, one session per device, and
  a guard looks at what the account is now;
* lists and charts: whoever turns all pages has seen every row, and a chart
  shows each month once.

Several of these do not hold of the code as it is. The models then state the
strongest form that does hold, with the exception named (a history variable
records when it applies), and a separate run shows the exception to be real.

## 2. The modules

Proof modules have the name of the module they are about and end in `Proofs`;
`MC...` modules give the constants values for TLC.

### BalanceService

Any number of calls of `addBalance`/`deductBalance`, each in two steps: the
read (`GetBalance`, with the check in `DeductBalanceRead`/`Refused`) and the
write (`Write`: increment or decrement of the column and the ledger row, one
database transaction), or its failure (`WriteFails`). `call[c].read` is the
value that is stale when used. `overlapped` and `contended` are history: users
two of whose calls, or two of whose deductions, overlapped. `Totals` is the list
of partial sums of a ledger.

### Deposit

A deposit's row, its payment at the provider (`invoice`), HTTP requests as
processes, and the jobs with their steps (`FindDeposit`, `CreditDeposit`,
`FinishDeposit`). `createDeposit` makes the payment inside an open database
transaction, so `CreatePayment` precedes the row (`CreateCommit`), which may
also never come (`CreateRollback`). A request that must still add a job is
"enqueueing"; `AddJob` adds it, or `queue.add` throws (`QueueAddFails`), which
leaves a row in PROCESS without a job (mark "lost"), as a crash at that place
does. `Crash` drops requests and puts running jobs back `MaxStalled` times
(Bull's default is one). `credits` counts ledger rows of the
deposit; `addBalance` is one step here because its own interleavings are
`BalanceService`'s subject.

### Transaction

The life of an order from the payment on: `paidStatus`, `orderStatus`,
`isRefunded` and `refundStatus` as they are written by the payment callback,
the cron job, the cancellation (three steps: read, cancel at the provider,
write), the administrator (read, write, add jobs), the jobs `transaction` (find,
order at the supplier, write the answer, refund, record, restock) and `refund`,
and the supplier's callback. The supplier takes an order once per `ref_id` and
answers a repeated one with its present status. He calls the shop any number of
times with where the order is by then, Pending included (`SupplierNotifies`), and
his calls arrive in any order. `DigiflazzCallback` writes FAILED for every status
but 'Sukses' and looks at nothing before: FAILED for an order he has not rejected
is marked `misread`, an older status written over the true final one `regressed`.
`QueueAddFails` is as in `Deposit`. `AdminAgain` is a bound: may an administrator
open an order again that he has changed. `createTransaction` and `payInquiry`
share the actions `CreatePayment`, `CreateCommit` and `CreateRollback`: from the
payment on they do the same.

### Checkout

`createTransaction` up to its commit, for the stock: the check outside of the
transaction, the absolute write that locks the product's row until the commit,
the second connection the handler needs inside its transaction, the time limit;
with the restock of a refund (an increment) and the catalogue sync or an
administrator (`SetStock`). `onHand` is history: the units there really are.
`overlapped` and `contended` are history as well: products whose stock changed in
the middle of a checkout, and those where that was not only a restock.

### Pricing, Catalogue, Storefront

`Pricing` holds the formulas: the price of a product, the totals of an order and
of a deposit, the two ways limits are compared. `Math.ceil(price / (100 - pct) *
100)` rounds twice, so a whole result may be one Rupiah more; `excess` says so,
and the constant `Inexact` for which prices.

`Catalogue` is one product and one payment method as administrators and the
catalogue sync change them. What an administrator sends for a product is any
integers: `product.dto.ts` asks for numbers and no more. `risk` is history, the
reasons why the price may be below the cost: "negative", it was computed from a
negative number; "stale", an update changed the cost after that and left the
price, because the code recomputes it only if cost and profit are sent.

`Storefront` extends it by buyers. Each looks at the page (the product or a bill,
then the methods), orders (the product or bill again, then the method), and pays:
the insert of the row, the charge, the commit or the rollback are steps of their
own. A bill's order has the bill's id, so the primary key makes a second payment
of it wait (`InsertOrder`) and fail (`InsertRefused`). The payment answers with
numbers of its own (`Answers`), which the handler writes to the row as they are:
SALDO with the price without the fees it has debited, a provider with his amount
and his fee (`Surcharges`, `ProviderFees`), which is also what the buyer pays him.
With `type_fee` 2 the buyer bears the fee, so a provider is assumed to ask for no
less than he was sent. A row keeps the amount asked for (`asked`) beside the one
answered (`total`). `changed` is history: the buyers under whom the catalogue
changed between page and order.

### Accounts

`register` (check, hash, create), `login` (find, compare and sign, search the
device's row, update or create it), `changeProfile`, and one guarded call per
kind of guard. The routes of all controllers are there with their guards
(`UsersRoutes`, ...). A token is the account as the login read it and the second
it was signed in; a session row keeps the last one. A guarded call may present
any token (`Admit`): that of an open session, one that a later login has replaced,
one that was never signed. `crossed`, `doubled` and `latest` are history: e-mail
addresses two of whose registrations overlapped or that a change of a profile
wrote, users two of whose logins from a device overlapped, and the token of the
last login to end for each user and device. `MaxSigned` (the last second in which a
login signs) is a bound. So is `Promote`: whoever writes the first administrator
into the database does so before anybody logs in.

### Listing

Ten lists of the shop, by what distinguishes them: the orders a caller may ask
for, whether rows are counted before or after they are read or not at all, how
the number of pages is rounded, and whether rows can be deleted. One reader
turns the pages; rows come and go between any two queries. The order of a list
gives each row a place (`Place`: how many rows there are up to it), and a page is the
rows of some places (`OnPage`), so sorting needs no sequence; where the code
gives no order, any distinct places will do (`Pages`).

### Charts

The charts of twelve months: the dates JavaScript's `setMonth` gives to the loop,
and the first day PostgreSQL sums up from. The only action is the next day.

### Shop

`Storefront` and `Listing` as one specification (`ShopSpec`), for the run `shop`.
They share no variable; `focus` says which of the two a behaviour is about.

### What the parts promise: PayOnce, AtomicOrder, AtomicBalance, AtomicCheckout

Four abstract specifications, each implemented by a detailed one under a
refinement mapping (`INSTANCE ... WITH`).

`PayOnce`: what the shop promises about money it pays into a balance: whoever is entitled is
paid at most once, unless the promise is waived. `Deposit` implements it for the
credit of a deposit, `Transaction` for the refund of an order (`Promise ==
INSTANCE PayOnce WITH ...`, `KeepsPromise`). Entitled is what the outside world
settled (the payment at the provider; the supplier's 'Gagal'); waived is what an
administrator touched and what a stalled job ran again after its payout.

`AtomicOrder`: an order as its customer thinks of it, and the shop as one
shopkeeper: the money comes in or is refused, the order is accepted, the
supplier is asked once, the customer is told what became of it, the money of a
rejected order goes back once. `Transaction` implements it (`ActsAsOneOrder`):
whichever of the callback, the cron, a cancellation and the jobs takes a step,
it is one of these or not seen from outside. Three exceptions are part of it. An
administrator may do as he likes to an order (`touched`). A crash may make the
shop forget a return (`forgotten`: the job that is run again). And the shop may
mishear a supplier who has accepted or delivered and call the order rejected
(`Mishear`, `misheard`): that is the callback that tells Pending, and nothing is
returned for it. A refund in two steps, a cancellation in three and a row that
precedes its job all disappear; what stays, `Tell`, shows that the shop may fall
back from "failed" to saying nothing, because the job's late answer can replace
the supplier's callback. `AtomicOrder` in turn implements `PayOnce` for its
returns (`ReturnsOnce`).

`AtomicBalance`: a call of `addBalance` or `deductBalance` as its caller thinks of
it, one step that moves the balance and adds a row, or does neither.
`BalanceService` implements it (`ActsAtomically`): a call takes effect when it
writes. What it read earlier must then be excused, and the abstract
specification says by what: a user in `contended` may be overdrawn, and the row
of a user in `overlapped` may start from an earlier balance, but from one the
account had. The mapping takes the past balances from the ledger, so a lost
update would break it too.

`AtomicCheckout`: an order as one step that takes its units off the stock and off
the shelf, or is refused, or fails. `Checkout` implements it (`SellsAtomically`):
an order takes effect at its commit. A product in `overlapped` may have any
number in its stock after a sale; one that is not in `contended` never more than
there is.

### What the models leave out

Amounts, except in `BalanceService` and `Storefront`; names, notes and payment
details; signatures (a callback that is not authentic changes nothing). The
numbers of a payment method are assumed to make sense (fees and limits not
negative, a percentage below 100), which `payment-method.dto.ts` does not ask for:
with other numbers the formula of the total divides by zero or gives a discount. An
order's job that restocks and the one that refunds appear in `Checkout` as one
increment; how often it may happen is `RefundAccounts` of `Transaction`. A
single-statement writer that waits for a row lock holds a connection too, which
`Checkout` does not count. Section 5 lists the code that is not modelled.

## 3. The runs

| Run | Question | Bounds |
|---|---|---|
| `balance` | what overlapping calls do to a balance and its ledger, are they single steps (`AtomicBalance`); which months a chart shows | 2 users, 3 calls, amounts 1 and 3, symmetric calls; each day of 2023 to 2026 |
| `balance_overdraft` | can a balance be negative? Yes. | the same |
| `deposit` | credited how often, and how often when crashes run jobs again; what does the status tell, does it get on, does it keep `PayOnce` | 1 deposit, 2 requests at once, 2 jobs, 2 crashes, administrator |
| `deposit_cancel` | is only a pending deposit cancelled? No. | no crash, no administrator |
| `deposit_callback` | is only a paid deposit credited? No. | no crash, no administrator |
| `transaction` | do goods and refunds follow the money, do all handlers act as one shopkeeper (`AtomicOrder`) | 1 order, 2 requests at once, 2 jobs, 1 crash, an administrator who opens the order once, the supplier's callbacks without limit; requests and jobs symmetric |
| `transaction_liveness` | does each paid, settled, rejected order get on, is there always somebody to do it, how many refunds can crashes cost | 1 order, 2 requests at once, 2 jobs, 2 crashes, no administrator, the supplier's callbacks without limit |
| `transaction_refund` | is an order refunded at most once? No. | no crash, an administrator who changes the order again and again |
| `checkout` | what is the stock worth, is an order a single step (`AtomicCheckout`), does every checkout end | 1 product of 2 units, 3 calls, 2 connections, sync to 0 or 3 |
| `checkout_oversell` | is no unit sold twice? No. | no sync |
| `users` | who has an account and a session, and whose token a login ends | 2 users, 2 devices, 2 spellings of an e-mail, 2 names, 2 requests at once, 2 sessions, 1 change of a profile, 3 seconds, in the first 2 of which tokens are signed that live for 2, all symmetric |
| `shop` | is what the page says charged and given back; are lists complete | 2 buyers (one a guest), 1 bill, 1 change of the catalogue, 1 rollback per order, a product with a negative profit among the new ones, a provider who adds 5 and names a fee of 7; lists of 4 to 6 rows, 3 on a page (`ShopSpec`) |

Why the bounds are enough. Deposits, orders and products do not share state
with each other but for the consumer's slots and the pool, so one is enough for
what concerns a single one; the hazards need two handlers at a time, which two
requests and two jobs give, and three calls cover a pair and a bystander. A job
can be added again by the administrator, so the second job is reached. That he
opens an order once is enough in `transaction`, because from then on every
property waives that order; `transaction_refund`, whose counterexample needs him,
sets no such bound. A job
stalls at most once, so the second crash reaches the failing of a job that
stalled too often.

In `balance` and `shop` two models that share no variable are checked together;
a variable `focus` makes a behaviour about one of them, so that the number of
states is the sum and not the product. The prices of `shop` are chosen to meet
the limits exactly: the price on the lower limit of one method, the total on the
upper limit of the other, with and without the double rounding. One
change of the catalogue can fall between any two reads of either buyer. Three
rows on a page and four to six rows give a full page, a last page of one row,
and a creation or a deletion before, on and after the page being read. In
`users`, a second login, a second device, and a role that is given or taken away
all fit the bounds; a token expires after two seconds of the clock instead of
seven days, so that one can be replaced while it still is valid by its signature,
and another can outlive it. Four years hold every length of a February, except that of a
century year, which the proof covers. `CHECK_DEADLOCK FALSE` is set because every call is made
once and every order ends: the models really stop.

The five runs that expect a violation check what a line of the code claims
(listed under "findings" in `PROJECT.json`, with the line): the overdraft check,
`cancelDeposit`'s refusal, the callback's status, the refund job's guard and the
check of the stock. Each counterexample is an interleaving of two handlers,
except the callback's, which is a single path.

Some properties waive a case in which the code does what a reader may not expect,
and say nothing about it; the hazards in `PROJECT.json` note where:

* what an administrator's change leads to (`touched`): that saving a deposit in
  PROCESS adds a second job (`deposit.service.ts:426`), that two of his updates
  that overlap both add one (`transaction.service.ts:865`), that his refund and
  the job's both pay (shown by `transaction_refund`);
* a rejection after Pending (`late`): the supplier's callback does not refund, and
  `RejectedIsRefunded` and `NothingForgotten` except exactly these orders;
* a callback that tells Pending (`misread`) is told as a failure, which
  `ActsAsOneOrder` has as a step of its own, `Mishear`; that the final status is
  written in the end is `SettledIsReported`;
* checkouts that overlap a sync (`overlapped`), which may undo it:
  `SellsAtomically` shows that nothing else miscounts a stock.

Each property of a passing run has a mutant: a plausible bug put in place of a
definition ("Mutant" in the comments of the modules), under which TLC finds the
property violated.

### Fairness

* `Deposit`, `Transaction`: a handler that was started goes on, a waiting job is
  handed out, and the provider repeats its callback while it is answered
  'false'. Nothing obliges a user to cancel, an administrator to act, the cron
  to run first or a process not to crash. In `Transaction` the callback is
  strongly fair: the model has two slots for requests, which other requests may
  take again and again, and the server has no such limit.
* `Checkout`: a call that was started goes on, or its time limit ends it
  (`{ timeout: 20000 }`). The mutant without that limit shows that it alone
  resolves the waiting.
* `BalanceService`, `Accounts`, `Storefront`, `Listing` and `Charts` claim nothing
  that needs fairness.

## 4. The proofs

All are for every value of the constants that meets the named ASSUMEs of the
modules; TLC evaluates those on every run. They say that amounts, the supplier's
costs and stocks are not negative and quantities positive, the percentage of a
payment method below 100, a provider's fees and surcharges natural numbers, bounds
natural numbers, calls and jobs finitely many, one of the amounts the largest.
Cost, profit and percentage of a product, as an administrator sends them, may be
any integers.

* `BalanceServiceProofs`: types; `NoOverdraft_Unless_Contended`,
  `Statement_Holds_Unless_Overlapped`, `Debt_Bounded_By_Overlap`. None of the three is
  inductive, because none mentions what calls in flight have read. `CoveredInv`:
  while a user is not contended, at most one deduction is in flight and still
  covered. `AloneInv`: while a user's calls have not overlapped, at most one is
  in flight and what it read is the balance. `DebtInv` counts the calls that
  have written: the first was covered, each later one adds one amount at most.
  `Ledger_Explains_Balance` is about a sum over all rows of a ledger. That the
  recursive function `Totals` is such a list of sums, and what one more row makes
  of it, are shown from a least number for which it would be wrong
  (`LeastOfSome`, from the library's `WFMin`): the library's induction theorems
  take a predicate, which cannot be instantiated here, while this one takes a
  set. `Acts_Atomically` is the refinement of `AtomicBalance`: `CoveredInv` lets a
  deduction through at its write, `AloneInv` says what an undisturbed row starts
  from, and `PastInv` says that what any call in flight has read is a balance the
  account has had, because a write only adds to those (`WriteExtendsPast`).
* `DepositProofs`: types; `CreditedOnce_Unless_Rerun`, `Credits_Bounded_By_Reruns`,
  `Status_Tells_Credit`, `Never_Reopened`, and `Deposit_Keeps_Promise`, the
  refinement of `PayOnce`.
  `RowInv` says when a deposit has a row. `OnceInv` follows the right to credit
  from the PENDING row to the request that will add the job, to the job, to the
  credit: at most one of them holds it as long as no administrator acts and no
  job is run again after its credit. `SettledInv` says that whoever holds it got
  it from a settled payment or an administrator. `TellsInv` adds that a deposit
  with a status of one not credited has no job and nobody who will add one.
  `Nothing_Forgotten` is what the liveness property rests on (see below):
  `CarriedInv` says that a deposit in PROCESS that was not credited is carried by
  the request that will add its job or by a job that will credit it, unless who
  dropped it left one of the marks of `Forfeited`. `RerunInv` says how bad reruns
  can get: a deposit nobody touched has one job at most, and that job has made no
  more credits than it was put back, plus the one it is past; so a deposit is
  credited at most once more per crash and never more than `1 + MaxStalled`
  times. `Jobs_Only_Go_On` says that every change of a job leaves it fewer steps
  (`StepsLeft`: those until it is done, and as many again for each time it may be
  put back).
* `TransactionProofs`: types; every property of the run `transaction`, of which
  `Transaction_Acts_As_One_Order` says the most; `Refund_Only_If_Rejected`,
  `Order_Status_Truthful` and `Transaction_Keeps_Promise`;
  `Refunds_Bounded_By_Reruns`, `Jobs_Only_Go_On` and `Order_Never_Forgotten`. The
  invariant is a conjunction over the
  orders: `RowInv` (who may still write the first status, and what a
  cancellation knows), `MoneyInv` (the row and the payment), `AnswerInv` and
  `SupplyInv` (all that remembers an answer of the supplier, and what the
  supplier did), `OnceInv` (the right to run the order's job), `StockInv` (the
  jobs that may still restock), `OwedInv` (who goes on with an order that is owed
  a delivery, a status or a refund). `OwedInv` needs two of the others at its
  narrow points: that a cancellation which names only the id never meets an order
  the supplier has (`RowInv` with `MoneyInv`), and that an answer the job has not
  written yet is the supplier's last word or Pending (`AnswerInv`), so that only a
  write marked "regressed" can hide a final status. A status FAILED is true of an
  order, or the order is marked "misread" (`Order_Status_Truthful`). The refinement of
  `AtomicOrder` goes action by action: the invariants above say that the step an
  action maps to is allowed where the handler itself checks nothing (a job asks
  the supplier without a look at the row it read; a cancellation writes by id
  alone), and `BlankInv` that an order without a row yet shows nothing. `RerunInv`
  relates refunds, `stalls` and `crashes` as in `DepositProofs`.
* `PromiseProofs`: what follows from the abstract specifications alone, and so for
  everything that implements them. `PaidOnce_Always`: a payout is made once and
  to the entitled only. `Account_Promise`: no overdraft of an account that is not
  contended, rows that move the balance by their amounts, between balances the
  account had. `Shelf_Promise`: the stock is what there is, and no unit is sold
  that is not there, with the named exceptions. `Order_Promise`: of an order no
  administrator changed, the shop asks for goods only if accepted, accepts only
  for money, says what is true unless it has misheard, and then only that the
  order is rejected, and returns the money only if rejected and, but for a
  crash, once. `Order_Final`: it stays accepted, delivered, rejected,
  cancelled. `Order_Returns_Once`: its returns keep `PayOnce`.
* `CheckoutProofs`: types (with the stock never negative),
  `StockCounts_Unless_Overlapped`, `NoOversell_Unless_Contended`. `StockInv`
  relates what the calls in progress have read to the stock and to the units
  there are. From the same invariant `Sells_Atomically`, the refinement of
  `AtomicCheckout`.
* `StorefrontProofs`: types and every property of the storefront that the run
  `shop` checks. First the arithmetic: `CeilDiv` rounds up, so a total covers price and
  fees (`Pricing_OrderTotal`, `Pricing_DepositTotal`), and a price covers its
  cost. `LossInv` follows a price without a risk (neither stale nor computed from a
  negative number) from the shelf to the row. `ChargeInv` says that the primary key
  lets one buyer at a time pay for an order, and what has been charged so far,
  in terms of the answer the payment gave. `QuoteInv` says that price and quote
  of a buyer are those of the catalogue as long as nothing changed under it, and
  after that those of the method it keeps.
* `AccountsProofs`: types and the other four properties of the run `users`. `Inv` says
  what a request still knows after an await: the e-mail it checked is free
  unless crossed, the row it found is there, the row it did not find is not
  there unless its user is in `doubled`. For `ALoginEndsTheOneBefore` it relates the
  rows to `latest`: each row holds the token of the last login of its user from its
  device, unless that user is in `doubled`, so a guard finds no row for a token
  that was replaced.
* `ViewsProofs`: `Charts_Months`, for all years: after a month of less than 31
  days comes one of 31, so `setMonth` passes on to the next month only. And
  `Nothing_Missed_Unless_Moved`, `Shown_Twice_Only_If_Pushed` and the types of
  `Listing`, for any page size and any number of rows. `ListInv` says where the
  rows are that the reader has not been shown (`MissingIsAhead`: on a page to
  come, unless an exception applies) and those it has (`ShownIsBehind`: on the
  pages turned, unless a creation pushed them on). Both rest on lemmas about
  `Place`: no two rows share a place, the places of n rows are 1 to n, and a
  row that comes or goes moves only those behind it, by one. `Shop_Is_Both`: the
  composed `ShopSpec` implements the specifications of both its halves, so that
  `Shop_TypeOK` and `Shop_Keeps_Its_Word` carry every result about them over to
  what the run `shop` checks.

Some properties are proved and no run checks them, because a run checks one they
follow from: `CreditedOnceUnlessRerun` follows from `KeepsPromise` of `Deposit`
by `PaidOnce_Always`; `RefundedOnceUnlessRerun`, `RefundOnlyIfRejected`,
`OrderStatusTruthful` and `KeepsPromise` of `Transaction` from `ActsAsOneOrder` by
`Order_Promise` and `Order_Returns_Once`; `NoOversellUnlessContended` and
`StockCountsUnlessOverlapped` from `SellsAtomically` by `Shelf_Promise`.
`JobsOnlyGoOn` stands beside the liveness properties (below).

Every invariant and every action property of the passing runs, and every
refinement, is proved. Only model-checked: the five liveness properties
(`PaidIsCreditedOrForfeited`, `PaidIsOrdered`, `SettledIsReported`,
`RejectedIsRefunded`, `CheckoutEnds`), because fairness and ENABLED are outside of
what the prover can do. Their safety half is proved for deposits and orders.
`NothingForgotten` says that what is owed always has a request, a callback or a
job that will see to it, or was dropped in a way the liveness property names;
`JobsOnlyGoOn` says that a job never goes back but for a crash that uses up one of
its retries, so it ends after a bounded number of steps. What is left to TLC is
that a step which is possible is taken, which is what the fairness assumes.

## 5. Not modelled

* Services, service groups and banners, and the writes of product groups: CRUD
  handlers of one Prisma call each. No other handler that is modelled reads
  them. Their routes and guards are in `Accounts`.
* `createPaymentMethod`: it adds a row no running order has read.
  `deleteManyPaymentMethods` is not called.
* TOKOPAY and DUITKU: the first has no callback in this code, so an order paid
  there only ever expires; the second does nothing.
* The chart of the last 31 days: it steps with `setDate`, which is exact. The
  other chart is modelled for a server and a database in UTC.
* `resellerPrice`, the method the page selects, and the order of its list.
* The filters of the administrators' lists. With both `from` and `to` the count
  (`transaction.service.ts:798-807`, `deposit.service.ts:334-343`) keeps the second
  only, because both are the key `createdAt`: it is no less than the rows found, so
  the list may end in empty pages and misses nothing. `Listing` has these lists
  without filters.
* The size of a page that a caller asks for: the controllers pass on a string, so
  `Listing` has the default. Two rows of the same `createdAt`.
* The provider clients, which are HTTP wrappers without state; the services
  behind them are the environment. The file picker, which is I/O to an object
  store. The application shell: framework wiring, and a middleware no module
  uses.
* The queries that return one row, or the data of one user, without writing.
