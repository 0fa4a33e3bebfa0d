# Formal models of coins-backend

TLA+ models of the parts of this repository that move money, decide prices, talk
to providers, let accounts in and number things, the TLC runs that check them on
small instances, and TLAPS proofs of the most important properties for every
size of the system. Paths below are relative to the application's directory
`src/` (modules under `src/modules/`), documents to `docs/`, tests to
`src/tests/`.

Run, in this directory:

    tlc -workers 2 -config MCWallet.cfg MCWallet      # any run of PROJECT.json
    tlapm MoneyProofs.tla                             # any *Proofs module

`PROJECT.json` lists components, runs, mutants (for every property a plausible
bug that the run must catch), the source lines behind every definition, the
disagreements between documents and code, the hazards, and the theorems.

## 1. The system

A Node/Express server over MongoDB sells digital products. A customer has a
wallet embedded in the user document; administrators approve deposits into it;
an order is paid from it, is stored, and is fulfilled by hand or by an external
provider, which a cron job polls. The catalogue of products is synchronised with
the price lists of those providers. A server process is single-threaded: code
runs without interruption between two `await`s, and everything else interleaves,
including the requests of different users and administrators, the cron jobs and
the fire-and-forget fulfilment of an order. Nothing in memory survives a
restart, and nothing resumes an interrupted request.

### Inventory

| component | state | operations | hard behaviour | what makes it correct |
|---|---|---|---|---|
| Wallet (`wallet/`, `admin/admin.wallet.service.js`) | `walletBalance`, `creditLimit`, `creditUsed`, `WalletTransaction` documents | debit, refund, credit (atomic); forced debit, addFunds, deductFunds, setBalance, two debt adjustments (read, compute, `$set`) | two families of updates on one document, the ledger record as a second write, crashes in between | no money is lost, the ledger replays to the balance, the overdraft floor, `creditUsed` mirrors the balance |
| Order creation (`orders/order.service.js`) | `Order` documents, order numbers, the unique index on (user, key) | createOrder, _attemptCreateOrder | duplicate requests, collisions, retries, compensation on a server without transactions | one order per request and key, every charge accounted for, honest answers |
| Order lifecycle (`orders/orderFulfillment.service.js`, `order.service.js`, `fulfillmentJob.js`, `admin/admin.orders.service.js`) | status, `refunded`, `retryCount`, `providerOrderId`, the job's `_running` lock | executeOrder, the polling run, three refund procedures, fail / complete / approve by administrators | stale documents across awaits, concurrent refunds, late answers, crash between flag and money | refunds never exceed what was paid; failed orders are refunded; acknowledged orders settle |
| Provider adapters (`providers/adapters/`, `statusMapper.js`) | none | placeOrder, checkOrders | lost answers, answers without number or word, numbers that coincide, a link that changes while an order runs | the final status is what the order's own service says |
| Deposits, targets (`deposits/`, `targets/`) | status and amount of a request | create, approve, reject, edit | concurrent reviews, a payment that fails after the decision | paid at most once, the decision stands, the amount paid is the amount shown |
| Currencies (`currency/`, `services/currencyConverter.service.js`, `admin/admin.routes.js`) | rates, a 60 s cache | create, update, enable, delete, convert, switch of a user | a cache per worker filled by late answers; rate saved, then every debtor adjusted; check-then-delete against a switch | a cache follows the collection but for what overtook it; amounts move in the currency of the wallet; no wallet loses its currency |
| Catalogue (`providers/`, `products/`) | provider products, product prices, price cache, in-process locks | synchronise, price check of an order, edit, publish, switch, delete | fetches in flight during an invalidation, prices pushed with an old mark-up, saves over a newer price, locks lost or kept | nothing is sold below cost unnoticed, no worker replaces newer prices by older ones, locks are given back |
| Accounts, authentication (`auth/`, `users/`, `admin/admin.users.service.js`, `config/google.strategy.js`, `middlewares/`) | status, verification link, one-time code, second factor, API key, deletion mark | register, verify, sign in three ways, 2FA, keys, decisions of administrators | a handler saves what it loaded before a decision; codes generated, used and unset by overlapping requests | a shut-out account stays out, a used code is gone |
| Client, reseller and customer APIs (`clientCompat/`, `reseller/`, `me/`, `orders/orderFields.validator.js`, `scripts/backfill-compat-ids.js`) | numbers of products, codes of orders, the counter, order forms | list, get, place, check; backfill | concurrent assignment on first use, a counter moved by a script, names mapped and values converted by two readings of a form | numbers told stay true and unique; an order has what its form asks for |
| Second poller (`orders/orderPolling.*.js`) | as the lifecycle | poll | - | never started by `server.js` |
| Notifications, WhatsApp, audit, categories, settings, statistics, uploads, groups | their own documents | reads, single-document writes, fire-and-forget calls | little | not modelled |

### How they interact

createOrder debits the wallet (or the quantity quota) and stores the order,
then calls executeOrder without awaiting it. Before, it asks the price cache
whether the provider has become dearer. The lifecycle refunds through the
wallet; completeOrder debits it by force. An approved deposit credits it. Orders
and deposits look up rates through the converter. Rate changes adjust the debts
in the wallets of the currency, a switch of currency converts a wallet. But for
the converter's and the price cache, and the locks of synchronisation and
polling, the only shared state is the database; the only concurrency control is
what each MongoDB operation gives (one document, or a transaction), a few
compare-and-swaps (`refunded`, the deposit's `PENDING`, the debit's filter, the
missing number or code), the unique indexes and the in-memory locks. Those, and
the places that lack one, are what the models are about.

What is in memory is one process's. `ecosystem.config.js` starts
`instances: 'max'` in cluster mode, so that the rate caches, the price caches, the
locks of the synchronisation and of the polling job exist once per worker:
`Currencies` and `Catalogue` have `Workers` and give each its own; the lifecycle
models one worker with its job.

## 2. The models

Conventions. A step of an actor is what the code does between two awaits on the
database or on a provider; a MongoDB operation takes effect at once; a
transaction is one step that commits or changes nothing, which is what snapshot
isolation with write conflicts gives to transactions that read what they write.
A document kept in memory across an await is part of the actor's state. A
Mongoose save writes the paths that differ from what was loaded. An
operation that reports an error is taken not to have happened (an error after a
write that did happen, other than the ledger's, is not modelled). History
variables (`stale`, `overridden`, `interrupted`, `stranded`, `edited`, `lost`,
`late`, `elsewhere`, `unlisted`, `joined`, `wrong`, `torn`, `asked`, `served`,
`told`, `spent`, `banned`, `unwritten`, `saved`, and `by` of a stored item) record
what properties speak of or exempt; no guard reads them. A second form of an
operator, such as `Affordable_IgnoresAmount`, is a mutation used to test that
the properties can fail, and no action uses it.

### Wallet (`Wallet.tla`)

Balance, limit, `creditUsed`, activation, the ledger, and any number of calls.
`DebitWalletAtomic`, `RefundWalletAtomic` and `CreditWalletDirect` are one
findOneAndUpdate each (`Apply`), with the filter of the debit (`Affordable`).
The others are `ReadUsers` followed by `WriteBalance` (`SaveLimit` for the
credit limit, which is a Mongoose save and writes only changed paths). The
ledger record (`RecordTransaction`) is one more step, except in a session, where
it commits with the balance; the schema's minimum amount can refuse it. A bulk
adjustment reads every debtor at once and writes them one at a time. Money is an
integer number of cents, on which `safeRound` and `$round` are the identity;
only the percentage of a debt adjustment rounds. Amounts are positive: the
services refuse others first, and their upper bound is left out.

### Order lifecycle (`OrderLifecycle.tla`, abstract `OrderAccount.tla`)

Starts when createOrder has committed. Per order the document (`status`,
`refunded` with `refundedAt`, `retry`, `hasPid`), what the customer has paid net
of refunds (`paid`), the provider's own state, and one `exec` actor; one `poll`
actor (the lock admits a single run); administrators' calls; and whether the
provider is `active`.

* `ExecStart ... ExecFinish` are executeOrder; `ExecFatal` its crash guard, and
  `ExecGivesUp` a crash guard whose own write fails, which is only logged.
  What a provider answers is any member of `Results`, with any state at the
  provider that is consistent with it: an adapter turns a lost answer into a
  rejection, so a rejected order may be alive there (`Placement` has how).
* `MarkRefunded`, `PayRefund`, `LoseRefund` are refundFailedOrder: the
  compare-and-swap, the wallet transaction, and its failure with or without the
  undo of the flag. They are shared by the executor and the poller.
* `PollStart ... PollRefundAborts` are pollProcessingOrders and
  processOrderStatusResult. The batch holds the documents as they were read
  (`todo`, `count`); writes hit whatever the order has become. Groups of
  different providers are one group: an active provider may answer
  (`PollAnswered`); an inactive one, and one whose request fails, leaves all of it
  as it is, without counting a retry (`PollUnanswered`). `SetActive` is
  toggleProvider. The limit of 200 orders per run is left out.
* `AdminFail` is markOrderAsFailed in its transaction (also behind refundOrder
  and updateOrderStatus, whose controllers always pass remains = 0);
  `AdminApprove` and `AdminSave` are markOrderAsCompleted; `AdminComplete`,
  `AdminDebit` and `AdminSave` are completeOrder, with a decision taken from the
  document read first. `AdminRetry` is retryOrder, which refuses every FAILED
  order: without a provider because there is none, with one because it looks for
  the product number in two paths that the order schema does not have.
* `Crash` forgets every actor. Nothing resumes executeOrder.

syncOrderProviderStatus populates a path the schema does not have and fails
before it changes anything, so it is not an action. The lifecycle assumes the
transactions of a replica set, as production has; on a standalone server every
refund transaction is refused and ends in `LoseRefund`. Wallet effects are
reduced to `paid`: the wallet's own races are in `Wallet.tla`.

`OrderAccount` says what all this promises about money: a refund never exceeds
what was paid, and only a forced completion takes a full price again.
`ImplementsAccount` instantiates it with the identity on the money orders.

### Placement and the adapters (`Placement.tla`)

What the lifecycle leaves open about providers: which provider an order goes to,
what each of the six adapters makes of its service's replies and status words,
and how the poller finds the answer that belongs to an order. A service is its
`book`: the orders it accepted, numbered from 1, so that the numbers of two
services coincide.

* `Resolve` and `Store` are createOrder: the provider's code goes into the
  order, its adapter to the executor, if the provider is active. The populate
  after the commit may fail, and then nothing dispatches the order. `Execute` is
  the start of executeOrder, which takes the product's present provider when it
  was given none. `Accept` and `Refuse` are the service, with any reply that it
  may give, a lost one included; `Placed` is placeOrder of the adapters, `Word`
  their tables, `Internal` statusMapper.js. `Record` with `Outcome` is the
  handling of the result, `Return` the reads after it. `Guard` is the crash guard:
  any operation of executeOrder may fail, and the order is marked FAILED whatever
  was recorded before, or the guard fails as well and changes nothing. How a call
  ended is kept in its `pc`: returned, guarded, or cut off.
* `PollBegin`, `PollGroup`, `PollApply` are the job: open orders are grouped by
  code, each group is asked for at once (`Answers` has how each adapter matches
  numbers), and each answer is applied to its order.
* `Relink` and `SetActive` are administration, `Crash` a restart.

The unregistered name of a provider gets the mock adapter in the code; the mock
is one of `Kinds`. It gives every order one number, 99001 (`MockNumber`), an
ordinary number, which any service may have given to another order. Money is not
in this module.

`CompletedWasAccepted` has one exception. An order whose provider is inactive when
it is created keeps that provider's code; if its product is then linked to a
provider without an adapter, the mock takes the order under that code. When the
first provider is active again, the poller asks it for the mock's number, and the
service answers for another order that has this number; the dealer's adapter
answers "Completed" for every number (`dealerApi.service.js:398`).
`SettledAsReported` has another: an order whose placement succeeded and was
recorded is marked FAILED by the guard when one of the reads after it fails.

### Deposits and target orders (`Deposits.tla`)

Requests with a status and an amount, and reviews that read, then act. Approval:
`ClaimDeposit` (compare-and-swap on PENDING, persisting an administrator's
amount), then `CreditWallet`; `LoseApproval` is any failure in between.
`SaveRejection` and `SaveEdit` save over whatever the document has become.
The wallet conversion is abstracted to its failure, since amounts are only
compared, never added. Target orders (`targets/target.service.js`) are requests
of a second kind: `CreateTargetOrder`, and both decisions as a read
(`ReadTarget`) and a guarded replacement of the status (`SwapTarget`), which is
what distinguishes them from a deposit's rejection.

### Order creation (`OrderCreation.tla`)

Every request is an actor: the look-up of its key, a random order number, then
either a transaction in one step (`TransactionCommits`, `TransactionAborted`,
`TransactionRefused`) or, on a standalone server, the debit, the insertion and
the compensating refund as separate steps that may fail. `Throw` and `Retry` are
the outer catch block; `Proceed` what follows a compensation. `deployment`
distinguishes a replica set, a standalone server that is detected, and one
that is not and falls back. The quota branch has the same control flow as the
wallet branch with `$inc` in place of debit and refund; `funds` stands for
either. `Reject` is every validation before money moves, the price check
included. `Clash` includes the null key: the index is sparse, but the user id is
always present, so that two orders of a user without a key violate it.

### Currencies (`Currencies.tla`)

The Currency collection, the converter's cache in each worker, the currency of
each wallet, and any number of calls, each served by one worker. An amount is
represented by the currency it was computed in: what the properties tell apart
is whether an amount that moves (`MoveMoney`) is in the currency its wallet has
at that moment.

* `CacheHit`, `CacheMiss` and `Fill` are _getCurrency: a document is cached when
  the database has answered, whatever happened to the currency since, in the
  worker of the call. `Invalidate` drops an entry of that worker only; `Outdate`
  notes the entries that other workers keep. `Expire` is the time to live; an
  expired entry and none are the same. `todo` holds the
  rates a conversion still needs (a deposit between two currencies needs two).
* `ReadCurrency` to `Refund` are the parts of an order and of an approval that
  look up a currency and move money. The currency of an order is read in its
  transaction, the rate outside it; MongoDB aborts a transaction that debits a
  user written since its snapshot (`Conflict`, kept in `touched`). On a
  standalone server nothing does. A conflict ends the call here: `OrderCreation`
  has the retries.
* `ReadUser` to `WriteCurrency` are updateUserCurrency, `ReadDocument` to
  `SaveStatus` updateCurrencyRate, its debt adjustment and setCurrencyStatus.
  Mongoose writes the paths that differ from what was read, to the document that
  was read: `id` tells a deleted and recreated one apart (`Stored`). The PATCH
  route saves a new status after the service returned, without invalidating the
  cache, and may disable USD, which the service refuses; a PATCH without a rate
  is one with the rate that is stored.
* `Create`, `FindDocument`, `CheckUnused`, `Delete`: creation and deletion. The
  unique index makes the look-up before a creation redundant.

The customer may have a currency without a document, since registration accepts
any code. The document of USD may be missing, since nothing calls
seedBaseCurrency. The exchange-rate synchronisation is never started. Rates
other than the base's differ from 1 (`OnesAssumption`): 1 stands for "taken for
the base currency", which is what `SwitchIsSound` has to see. A debt
adjustment may find any of the currency's customers in debt.

### Catalogue (`Catalogue.tla`)

A provider's price list goes through versions; `Offer` says what each version
says of an item. What the platform stores of a list (`raw`), caches of it and
pushes from it is the version it was read at; the prices of the platform's own
products are numbers, so that they can be compared with their cost.

* `SyncBegin` to `SyncEnd` are the synchronisation of one provider, of all, or
  by the job (`running` is the mark that its timer checks): the lock in the
  process's memory, the list, as it was at some time since it was asked for, the
  concurrent upserts that may each fail, the deactivation of what was not
  written, and the prices pushed into products in sync mode with the mark-up
  that was looked up. Every exit passes through `Release` (the finally clause).
* `OrderLooks`, `FetchArrives`, `FetchFails`, `Expire`, `OrderConcludes` are
  the price check of an order and providerPriceCache: `flights` are the fetches
  under way, which all who wait share. An increase refuses the order, writes the
  new price in the background (`AutoUpdate`) and drops the cache entry.
  `FetchFails` takes the process down: `fetchPromise.finally(...)`
  (`providers/providerPriceCache.js:83`) leaves a rejected promise that nobody
  handles, and `server.js` shuts down on those.
* `CreateBegin`, `Create`, `UpdateBegin`, `UpdateSave`, `DeleteBegin`, `Detach`,
  `Drop` are the administrators' operations on products and providers, which
  read, compute (`Patched`: relinking, repricing, the adjustment of a manual
  price) and save what changed (`Merged`). `SetGood` and `SetProvider` are the
  toggles. `Restart` empties a worker's memory.

Mark-ups are taken on whole units, since decimal strings of any length only have
to be compared.

### Accounts (`Accounts.tla`)

The fields of a user document that decide who gets in, the full and the pending
tokens given out, and any number of handlers. A handler loads the account,
checks it, and saves later; because save() writes only what the handler changed,
its effect is known when it has loaded: its `patch`. `Changed` says what a save
writes (an assigned path that equals the loaded value is not written, unless the
query did not select it), `Patched` what it does to a document.

* Visitors: `Register`, `VerifyEmail`, `ResendVerification`, `LogIn`,
  `LogInSecond` (a code is stored and mailed), `VerifySecond`, `Google`.
  Customers: `Admit` is the gate of every request with a token, after which the
  handler loads the account again: `GenerateSecond`, `EnableSecond`,
  `DisableSecond`, `GenerateKey`, `EditProfile`. Administrators: `ApproveUser`
  (an update without a load), `RejectUser`, `UpdateUser`, `DeleteUser`,
  `RestoreUser`, `AdminEdit`.
* `Insert` is User.create with its unique index, `Save` the end of every other
  handler, `Abandon` a refusal, a failing save or the end of the process.

`banned` follows the decisions by what they are for (`ShutsOut`, `LetsIn`), not by
what their save happens to write. The two differ: the deletion of an account that
is rejected already assigns the status it has, so that save() leaves it alone. An
approval that was saved between its load and its save then stays in force
(`unwritten`).

Links and codes are numbered in the order they were generated, since only
equality of hashes matters. Passwords, reset links, expiry times as such (a code
may always be found expired) and roles are left out.

### Client APIs (`ClientApi.tla`)

Two protocols share the module because they share its requests.

* Numbers and codes. `Show`, `AddProduct` and the backfill script
  (`BackfillStart`, `BackfillSync`, `BackfillNext`) all obtain a number by
  `FindCounter`, `CreateCounter`, `Increment` (getNextSequence) and `Assign` it
  on the condition that the product has none, with a retry when the unique index
  refuses; `CheckOrder` and `AssignCode` give an order a random code likewise.
  `told` are the pairs that clients were answered. Products may come with a
  number that the counter does not know.
* What a customer enters. `PlaceCompat`, `PlaceReseller`, `PlaceOwn` and
  `PlaceOrder` are the four ways in, each with its own treatment of names:
  `Kept` and `CompatName`, `Spread`, `FirstFilled`, `Merged`. Only the first reads
  the form. `ValidateOrder` is _attemptCreateOrder's own reading of the form
  (`FormToFit`), which `EditForm` may have changed since, with the renaming by
  aliases (`FieldName`), `Unknown` and `Missing` names, and the conversion of the
  values (`Converted`). `StoreOrder` stores what was validated (`saved`), gives up
  after any of the operations in between, or has the attempt begun again, whose
  first step is to read the form once more.

A name is an element of `Names` with its two normal forms, `Lower` and `Squashed`.
What a field takes, and what it makes of it (a number, a trimmed text), is a
function, `accepts`. A value that is empty counts as one that was not sent. When
two names fall on one field, either value may win (`Renamed`). Several fields may
have one key, which nothing prevents for orderFields, nor for dynamicFields in
the administrators' routes (`admin/admin.validation.js:224`): then each converts
the value, a formal one what was sent, a dynamic one what its predecessor left,
and the last one counts. Filtering a form
for its active fields and then searching it is a search with one more condition:
`ActiveOf` is a set, and `Owner` the first field of the form that is in it. Of the
names a field goes by, its key and its label are modelled; its `id` and, in the
compatibility API, its placeholder and Arabic names are further ones of that kind.
## 3. The runs

Each takes at most about four minutes; bounds are chosen so that each interesting
overlap fits once more than it needs.

| run | instance | what it shows |
|---|---|---|
| `wallet` | 1 wallet, 3 calls of any of 10 operations, one amount, limits and targets around zero, crashes | `TypeOK`, `BalanceExplained`, `LedgerReplays`, `FloorHeld`, `CreditMirrors` |
| `order_safety` | an automatic order, a manual one and one paid from a quota, 2 administrators, 2 failures, 1 crash, retry limit 2 | `NoOverRefund`, `SetAside`, `FlagMatchesMoney`, `ImplementsAccount` |
| `order_live` | 2 orders in a batch, a provider switched off and on, 1 administrator, retry limit 1, no failures | `FailedIsRefunded`, `ProcessingSettles` |
| `deposits` | 2 deposit requests, 1 target order, 3 reviews, 2 amounts, 1 failure, 1 crash | `PaidOnceAsShown`, `NoSilentLoss`, `DecisionStands` |
| `order_creation` | 3 requests of 1 customer (two with one key), 2 numbers, 3 deployments, 1 failure, 1 crash, 1 collision | `FundsExplained`, `OneOrder`, `HonestAnswer`, `DispatchedOnce`, `Answered` |
| `currencies` | 3 calls of any of 14 jobs in 1 worker, or, standalone and in 2, of the 8 jobs that meet a cache; 1 customer, USD and one more currency with 2 rates, both deployments | `CacheFollows`, `TransactionsChargeInCurrency`, `SwitchIsSound` |
| `catalogue_prices` | 1 provider with 2 items and 2 versions of its list, 1 product, 1 synchronisation, 1 order, 1 administrator's request of any kind | `LossIsExplained` |
| `catalogue_sync` | 1 item, 2 versions, 2 synchronisations (asked for or of the job), 2 price checks, 1 crash, no administrator | `LocksHeld`, `StoredPricesAdvance`, `AnswersAdvance` |
| `placement` | 2 orders of one product, 2 providers: one behind Royal Crown and the other behind any other adapter, or a dealer and the mock; any lost replies, 1 provider off or 1 order cut off or failed by the guard, retry limit 1, the mock's number is 1 | `SettledAsReported`, `StuckIsExplained`, `CompletedWasAccepted` |
| `placement_refused` | Royal Crown and ibra in any combination, 1 order | `FailedWasRefused` fails |
| `accounts` | 1 account, 2 overlapping handlers of any operation, 1 link, 2 codes | `BannedStaysOut`, `SpentCodeIsGone` |
| `client_api` | 2 overlapping requests or scripts, 2 products, 2 orders, no form; or 1 order entered in any way, 5 forms with repeated keys and colliding names, edited at any time | `AnswersStand`, `InputFitsForm`, `CounterAdvances` |

`TypeOK` (`DepositsTypeOK` for the deposits) is checked where the type invariant
says more than the shape of a record; those of `Catalogue`, `Placement` and
`ClientApi` document their states.

Why the bounds are enough. Every violation known, of a property or of a mutant,
needs at most two actors on one document and a third to expose it, so three
calls, or an executor, a poller and two administrators, are more than a
counterexample needs. A second wallet adds nothing, since operations on
different users never share a document; a bulk adjustment is still several steps
of one call. The account is one for the same reason: codes and tokens of
different accounts never meet. Two failures allow a refund that is lost, retried
by another procedure and lost again. The charge 5, quantity 2 and unit 2 make a
half refund round down. A retry limit of 2 has a step before, at and after the
boundary; `order_live` has 1, so that it can afford two orders and an
administrator, and the provider is switched only before the administrator acts
(`Calm`; neither is a step that fairness is assumed of). The currencies have one
customer, whose wallet everything meets at, and of the codes the base and one
other, since only the base is special. Two workers are the one that writes and
another one; the second worker matters only to the caches, so that with two
there are only the jobs that read or invalidate one (`MCInit`). Two versions of
a price list are an older and a newer price; the order of further ones adds no
case, since only neighbours in time race. Two providers and two orders are what
coinciding numbers take; one thing is disturbed at a time, a provider that is
off or an order that is cut off or failed by the guard (`OneDisturbance`), and
one order at most ends at its service otherwise than completed (`OneIsSpecial`),
so that the two can be told apart. `MockNumber` is 1 where the code has 99001:
the number that a service gave to another order. Toros is not instantiated,
because it is Royal Crown's adapter in every operator of the module. The second
code is what a used one could be replaced by. The bounds on failures, crashes
and collisions (`MaxFaults`, `MaxCrashes`, `MaxCollisions`) and on things
generated (`MaxLinks`, `MaxCodes`, `MaxNumber`, `LastVersion`) only disable
steps. Beyond these bounds, what is proved (section 5) holds for all; the rest
does not carry over by proof.

Two requests suffice for `client_api`, of which one may be the script; each may
take any number of turns, since a request that ended begins anew. Numbering does
not look at forms, and requests that place orders meet only in the form, which is
edited at any step: so either several requests meet and there is no form
(`Meeting`), or one request enters one order under changing forms (`Entering`). In
`catalogue_prices` the crash is left out (a process that shuts down after a
failed fetch is in), because `LossIsExplained` speaks of stored prices only; in
`catalogue_sync` there is no administrator, because no operation of one touches
`raw`, the locks or the cache.

Deadlock is not checked where the system may stop: calls are used once, so a run
ends when all are done. `order_creation` does check it, with `AllFinished` as
the one legitimate end.

Fairness. `OrderLifecycle!Fairness`: weak fairness for the continuations of an
executor and of an administrator's call that has begun (the event loop runs
them) and for the polling job (cron starts it every five minutes and its lock is
released in a `finally`); weak fairness for the end of a request to a provider,
with an answer or without one, since requests have a timeout; strong fairness
for an answer, since a provider that is asked again and again answers some time.
The poller does not ask a provider that is switched off, so that its answers are
not enabled then. None is assumed for failures, for crashes, for the provider
finishing an order or being switched on again, or for an administrator starting
anything. `ProcessingSettles` is therefore conditional: of a provider that is
active from some time on. Without that condition it fails (section 4).
`OrderCreation!FairSpec`: weak fairness for the steps of a request that has
arrived. Liveness holds for runs without failing operations in the lifecycle;
with them a refund that failed is lost, because nothing retries it.

## 4. Where documents and code disagree

One run refutes a comment. `orderFulfillment.service.js:299` says of a placement
that fails in transit that refunding at once would cause a double loss, since
the provider may have accepted the order; every adapter but the mock catches the
error and reports a rejection, so the executor refunds (`placement_refused`).

Others were met while modelling. The models contain the code's behaviour, as an
action or as an exemption of a property.

* Money. `docs/wallet-system.md:12` promises single atomic updates of balances;
  `admin/admin.wallet.service.js:121` reads, computes and sets (`stale`).
  `docs/wallet-system.md:304` excludes double refunds; a completed quota order
  is charged in money and its refund pays in money
  (`admin/admin.orders.service.js:402`), so the account is of money orders.
  `orderFulfillment.service.js:157` says that a failed refund will be retried;
  nothing does. `order.service.js:1110` calls refunds cross-currency safe; they
  pay the amount charged into a wallet whose currency may have been switched.
* Decisions. `deposits/deposit.model.js:9` says that decisions are one-way; a
  rejection saves over an approval that came after its read
  (`deposit.service.js:375`). `docs/order-system.md:233` makes idempotency keys
  optional; a second order without one collides in the index
  (`orders/order.model.js:391`). Line 231 there says that a repeated
  key is answered 409; the code answers the stored order.
* Retries and outages. The comment at `admin/admin.orders.service.js:119`,
  `docs/order-system.md:285` and `docs/admin-panel.md:142` say that a retry sends a
  FAILED order to its provider again. retryOrder looks for the product's number in
  fields that orders do not have (line 149) and always throws: the order stays
  FAILED (`AdminRetry`). `orderFulfillment.service.js:796` says that the limit on
  retries prevents endless polling of a provider that went offline, and
  `docs/provider-integration.md:310` that its orders are failed and refunded.
  Nothing is counted for an inactive provider (lines 934-941) or a failed request
  (957-975), so that such an order stays PROCESSING (`PollUnanswered`): that is why
  `ProcessingSettles` is of a provider that is active from some time on.
* Execution. Case C of executeOrder (`orderFulfillment.service.js:179`,
  tests/fulfillment.test.js) says that a placement answered with success and
  Cancelled fails and is refunded, while line 429 completes it (`Outcome`). "leaving
  PROCESSING for cron retry" (line 314) describes orders that the poller's
  query excludes. `order.service.js:476` says that the stored provider code keeps
  a later swap from corrupting orders in flight; executeOrder resolves the
  product's present provider when it was given none (`Elsewhere`).
  An AlkasrVip order with an unknown or partial word counts as cancelled;
  an ibra order without a number gets a uuid that its service does not know.
* Prices. `currency.service.js:15` says that a new rate takes effect for the
  very next order. The cache is one worker's, and the invalidation reaches no
  other one: for up to a minute it converts at the old rate (`elsewhere`).
  `order.service.js:624` says that an outage of a provider should not block
  orders; a failed fetch shuts the process down (`FetchFails`). Comments at
  `providers/providerProductSync.service.js:270` mean to keep items whose upsert
  failed; they are switched off (`SyncDeactivate`). A price pushed in the
  background replaces a price that an administrator named, and an update that
  was computed from an older price saves over a newer one (`torn`, `asked`).
* Accounts. Two overlapping verifications of one code both succeed
  (`auth/auth.service.js:605`). A rejection that races an approval leaves both
  `approvedBy` and `rejectedBy`. `admin/admin.users.service.js:186` says of the status
  that a deletion assigns that it prevents login. Approving a deleted user lets it
  in; and of an account that is rejected already the deletion writes no status, so
  that an approval that overlaps leaves it deleted and ACTIVE (`unwritten`), which
  no login refuses. Restoring sets ACTIVE,
  its comment says PENDING (line 234). updateMyProfile changes the address and
  keeps it verified. Signing in with Google skips the second factor.
* APIs. getProfile of the compatibility API counts a debt twice
  (`clientCompat.service.js:52`). buildOrderFields of the reseller API adds
  names that validateOrderFields refuses (`Spread`). `docs/dynamic-order-fields.md:358`
  says that any values for a product without a form are rejected; they are stored.
  An alias of an inactive field hides another field's key
  (`FieldName`). `products/product.model.js:320` means the keys of a form to be
  distinct; the schema does not see to it, for dynamicFields only the routes of
  products do (`products/product.validation.js`), not the administrators'.

## 5. The proofs

The theorems are statements `Spec => ...` about the specifications above, for
every value of the constants that satisfies the named assumptions of their
module (finite sets of calls, positive amounts, a positive retry limit). They
use the libraries' theorems on finite sets and sequences.

* `MoneyProofs`, of `Wallet` and of `Deposits` (it extends both: that is why
  some names of `Deposits` carry a prefix), whose theorems follow below.
  `TypeCorrect`; `FloorAlwaysHeld`; `CreditAlwaysMirrors`; `BalanceAddsUp`;
  `LedgerIsATrail`. `FloorHeld` is not inductive: a writer in progress carries a
  balance and a limit that it read earlier. The invariant adds that what a call
  has read of a wallet that no override touched satisfied the floor with the
  limit the wallet still has, since only an override moves a limit; a deduction
  was then checked against that very read, and an addition and a debt reduction
  only raise it. The two theorems on the ledger rest on one fact about steps: a
  step posts nothing and leaves every balance, or posts one new entry for the
  user whose balance it changes, by the amount the entry says (`StepPosts`). The
  entry is new because the users a call still has to process have none of its
  entries (`Fresh`), which neither property says. With it, an entry lengthens
  the walk by one step (`WalkGoesOn`) and the sum by its amount
  (`SumOfOneMore`). `SumSigned` is a recursive function on the subsets of the
  entries. No induction scheme can be cited for it; that it exists, that two of
  them agree, and that the order of the entries does not matter are each shown
  by taking a smallest set for which it would not be so, which the library has
  for finite sets (`SmallestSet`).
* `OrderLifecycleProofs`. `TypeCorrect`; `SetAsideAlways`, from which
  `NeverOverRefunded` and `AccountRefined` follow; `KillSwitchNeverFires`;
  `FlagAlwaysMatches`. `NoOverRefund` (paid >= 0) is not inductive, because a
  refund in flight has already set the flag and will still subtract the price,
  and an administrator who debited the order will clear the flag and so let it
  be refunded once more. `SetAside` counts these claims: paid covers one price
  for an order not refunded, one for every refund in flight and one for every
  administrator about to clear the flag. Each step moves the count and the money
  by the same number of prices (`MovesBy`, one lemma per actor), except the
  partial refund, which pays no more than a price (`AmountBound`, which rests on
  the rounding being downwards). `FlagAlwaysMatches` rests on `Matched`: an
  order that nothing excuses has at most one refund in flight, and then its flag
  is set and its money untouched; every step means for an order no refund, one
  of the two steps of a refund, both at once, or its failure (`RefundStep`).
* `MoneyProofs` on deposits. `DepositsTypeCorrect`; `PaymentInvariant`, from
  which `PaidAtMostOnce`, `ApprovedIsPaid`, `PaidAsShown` and their conjunction
  `PaidOnce` follow; `DecisionAlwaysStands`, which covers target orders. That a
  request is credited once is not inductive: the invariant adds that a claimed
  or paid request is not PENDING, that at most one review holds a claim and none
  does once the request was paid, and that a claim carries the amount shown.
* `CurrenciesProofs`. `TypeCorrect`; `CacheCorrect`, for any number of workers,
  where the property is inductive as it stands, because its exemptions name every
  step that can leave a worker's cache behind, a write of another worker among
  them; `ChargeCorrect`, which adds that an order whose user was not
  written since its snapshot holds the currency the wallet has (`SnapshotHolds`);
  `WalletCurrencyCorrect`, which adds that a deletion past its check knows every
  user who took the currency since (`SeenByCheck`); `SwitchCorrect`, an action
  property, from that invariant and `OnesAreBase`; `SwitchAlwaysSound` joins them
  to the property of the run.
* `AccountsProofs`. `TypeCorrect`; `ShutOutStaysOut`; `SpentCodeStaysGone`. All
  three are about what handlers under way will write. Every operation but the
  final write is shown to be one kind of step, `Begins(r, t)`: handler r goes on
  with t, of which it is known what it carries (`LoadingSteps`). What keeps an
  account out that an administrator banned, by whatever operation, is that
  nothing but a decision of an administrator, on an account that exists, or the
  creation of one that does not, carries a status (`StatusCarried`), and that a
  decision to shut out carries no other than it should (`Lawful`). The exception
  is the decision that had no status to write (`unwritten`). What keeps a used
  code away is that a handler carries no code or a fresh one, which nobody has
  stored, used or carries but itself, and that a handler which uses a code will
  unset it on the only account that has it (`CodeInv`).
* `CatalogueProofs`. `AnswersNeverAge`: what a cache holds is what was answered
  last, and at most one fetch per cache is under way, with prices no older than
  that answer (`AdvanceInv`): the map of promises in flight is what it rests on.
  `NoLockLeaks`: a lock belongs to a synchronisation between its two ends
  (`LockInv`). `StoredPricesNeverAge`: a synchronisation under way
  holds its lock, so that a worker has at most one per provider, and nothing that
  the worker stored is newer than what it asked for (`StoredInv`). The locks are
  variables of a process: that one worker replaces what another stored by older
  prices is possible (TLC finds it with two), and the property allows it.
  `LossExplainedAlways` rests on `LossInv`: besides the products, every write that
  is still to come is sound (the background write of an order's check, a new or
  edited document in an administrator's request) or will be computed from the
  markup of a product that exists (the links of a synchronisation), and items that
  were stored once stay stored, so that every cost read is a price.
* `ClientApiProofs`. `AnswersAlwaysStand`: nothing told is taken back, because a
  number is written only to a product without one or to one about to be
  inserted, which nobody can have been told about, and two insertions are of
  different products; two records with one number are excluded by the unique
  index. `CounterNeverFalls` needs of the same invariant that what a script will
  write is a number. Products and orders, and numbers and codes, are assumed to
  be different things (`IdsAreDistinct`). `InputAlwaysFits` speaks of the
  values that orders are stored with. Its invariant (`InputInv`) is that what a
  request has validated fits the form it read when it did (`Checked`), so that
  storing it is all a step may do with it; an edit of the form concerns neither.
  That validation gives what fits is a fact about forms and entries (`ValidFits`):
  a value passes through all fields with its key, of which the first must take it
  and the last makes what is stored (`ConvertedFits`, by `FirstIsFirst`).
* `OrderCreationProofs`. `TypeCorrect`, `ChargesExplained`, `OneOrderEver`,
  `AnswersAreHonest`, `DispatchedOnceEver`, all from one invariant. A step of a
  request is one of three kinds (`StepKinds`): it stores its order, it
  dispatches it, or it is quiet. What makes the dispatch unique is that a call
  about to dispatch has its own order stored and not dispatched (`LoudCall`), and
  that two calls with one order number are one, since numbers are unique
  (`OneOwner`); a call that retries after a failing populate finds its own order
  in the index and stays quiet. Money is counted: one price leaves the funds as
  one charge, order or loss joins (`Balanced`), and funds stay natural because
  the debit is filtered.
* `PlacementProofs`. `PlacementInvariant`, from which `TypeCorrect`,
  `ReportsAreKept`, `StuckAlwaysExplained` and `CompletedIsAccepted` follow. None of
  the three properties is inductive, since a status is written from a result in
  hand and a result is about an entry that moves meanwhile. The invariant follows
  a report from the service to the document: no order is accepted twice, and only
  in the step that its caller waits for (`Once`, `Handled`); a result in hand is a
  refusal, the mock's constant or that of an entry (`Took`); the number kept
  stands for such an entry, or it is the mock's and no service has the order
  (`Numbered`); an answer of the poller that is still to be applied is one the
  order's own entry fits (`Answered`). The mock's number is any natural number, so
  that it may be another order's. An order that polling has read may only have
  been failed meanwhile by the guard of executeOrder, which never touches the
  number (`Polled`); that guard is the one exception of `SettledAsReported` that a
  failing operation makes. An order in progress without a number is with
  executeOrder or was cut off (`Filed`). "Fits" is what stays
  true of an entry while its service goes on: what was final remains so
  (`Fits`, `StatusFits`). Numbers of services coincide, so that matching an
  answer with an order (`AnswersFit`) needs that the adapter was asked with the
  numbers of its own group only. The assumption that `None` is no word of a
  service is needed here, and states what the code takes for granted: a missing
  status is not a status.

What stays with TLC: liveness (`FailedIsRefunded`, `ProcessingSettles`,
`Answered`), which needs ENABLED, and the refutation. Every other property
of a run is a theorem.

## 6. What is not modelled

Each component without a module has its reason in `PROJECT.json`. Inside the
modelled ones: validation of input other than an order's fields, the price one
customer pays (group, quantity, conversion: constants, or one nondeterministic
refusal), floating-point representation of money, audit logs
and notifications (fire-and-forget, never read back), pagination and queries,
amounts' upper limits, a database operation that fails although it was applied,
and wallet operations inside the order models
(one step there, while `Wallet` models them in detail).
Orders stored but never dispatched, after a crash or a failing populate, are
reachable in `OrderCreation` and `Placement` and stay PROCESSING
(`StuckIsExplained` says that there are no others without a number).
The polling job is modelled in one worker; the documents' compare-and-swap
(`refunded`) protects its refunds when several workers poll.
Dead code is not modelled: recalcProductPrices, publishProduct and
updatePublishedProduct of provider.service.js, the second poller, and the
exchange-rate synchronisation are never called or started.
Two small things about createOrder are left out because no property sees them:
an error of generateUniqueOrderNumber, thrown before the try block, leaves its
session open; and the errors of resolving the provider, which are swallowed.
Categories of the compatibility API have a second counter with the protocol of
the products' and are left out.

## 7. What is left

Done: `Wallet`, `OrderAccount`, `OrderLifecycle`, `Deposits` with the target
orders, `OrderCreation`, `Currencies`, `Catalogue`, `Placement`, `Accounts`,
`ClientApi`; proofs of every safety invariant and action property that the runs check.

Left, most important first:

1. The hazards without a property (`PROJECT.json`, each with its reason): the
   poller's oldest 200 orders may starve younger ones; a group's billing mode
   decides at the time of the refund; a deposit's currency may be switched
   between claim and credit.
2. A composition of `OrderCreation`, `Placement` and `OrderLifecycle`: the
   account of an order from its first charge, over several workers; and of
   `Currencies` with `Wallet`: a switch as one more read-modify-write.
3. Pure functions against reference definitions over bounded inputs: conversion
   and rounding of money, the price of a customer.
4. Proofs: where a provider's book and the account of an order meet, once the
   composition of 2 is there.
