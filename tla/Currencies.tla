----------------------------- MODULE Currencies -----------------------------
(***************************************************************************)
(* Exchange rates and the currency of a wallet: the converter and its      *)
(* cache, the administration of currencies, the change of a customer's     *)
(* currency, and the orders and deposits that convert amounts.             *)
(*                                                                         *)
(* Every call is a sequence of database operations with other calls in     *)
(* between.  An amount of money is represented by the currency it was      *)
(* computed in; the sums themselves are the business of Wallet.            *)
(***************************************************************************)
EXTENDS Naturals, Sequences

CONSTANTS
  Calls,       \* identities of calls
  Workers,     \* the processes of the server, each with a converter of its own
  Jobs,        \* what a call may be asked to do
  Users,       \* the customers
  Codes,       \* currency codes
  USD,         \* the base currency
  Rates,       \* platform rates of the others
  Seed,        \* identity of the documents that are there at first
  NoDoc,       \* no document
  NoCode,      \* no currency read yet
  Deployments  \* subset of {"replicaSet", "standalone"}

Statuses == {"keep", "on", "off"}

\* The calls of the API: an order of a user; the approval of a deposit, made
\* in some currency; the switch of a user to a currency; and the operations
\* on a currency.  The unused fields of a job have any value.
JobSet == [op: {"order", "deposit", "switch", "setRate", "setStatus", "create", "delete"},
           u: Users, code: Codes, rate: Rates \cup {1}, status: Statuses, adjust: BOOLEAN]

ASSUME CodesAssumption  == USD \in Codes /\ NoCode \notin Codes
ASSUME RatesAssumption  == Rates \subseteq Nat \ {0, 1}
ASSUME JobsAssumption   == Jobs \subseteq JobSet
\* The rate 1 is left to the base currency, which it stands for.
ASSUME OnesAssumption   == \A j \in Jobs : j.rate \in Rates \/ j.code = USD
                                           \/ j.op \notin {"setRate", "create"}
ASSUME SeedAssumption   == Seed \notin Calls
ASSUME DeployAssumption == Deployments \subseteq {"replicaSet", "standalone"}

Docs == [id: Calls \cup {Seed}, rate: Rates \cup {1}, active: BOOLEAN]

ASSUME NoDocAssumption == NoDoc \notin Docs

VARIABLES
  deployment, \* whether orders run in transactions
  currencies, \* the Currency collection
  worker,     \* the process that serves each call
  cache,      \* _cache of each process' converter, without the entries that expired
  currency,   \* the currency of each user's wallet
  job,        \* what each call was asked to do
  pc,         \* how far it is
  doc,        \* the Currency document a call holds
  own,        \* the currency of the user, as the call read it
  todo,       \* the rates a conversion still needs
  from,       \* the rate a switch divides the balance by
  debtors,    \* the debts an adjustment still has to write
  late,       \* history: cached documents that were overtaken
  elsewhere,  \* history: cached documents that another process' write has outdated
  unlisted,   \* history: users whose currency is missing, for a known reason
  joined,     \* history: users who took a currency a call is about to delete
  touched,    \* history: orders whose user was written after their snapshot
  wrong       \* history: amounts moved in another currency than the wallet's

vars == <<deployment, worker, currencies, cache, currency, job, pc, doc, own, todo,
          from, debtors, late, elsewhere, unlisted, joined, touched, wrong>>

placement  == <<deployment, worker>>
caches     == <<cache, late, elsewhere>>

collection == <<currencies, unlisted>>
locals     == <<doc, own, todo, from, debtors>>
wallets    == <<currency, touched, wrong>>

PCs == {"start", "rate", "fill", "move", "paid", "refunded", "target", "source", "write",
        "save", "invalidate", "adjust", "debts", "status", "check", "delete", "done", "failed"}

TypeOK ==
  /\ deployment \in Deployments
  /\ currencies \in [Codes -> Docs \cup {NoDoc}]
  /\ worker \in [Calls -> Workers] /\ cache \in [Workers \X Codes -> Docs \cup {NoDoc}]
  /\ currency \in [Users -> Codes]
  /\ job \in [Calls -> Jobs] /\ pc \in [Calls -> PCs]
  /\ doc \in [Calls -> Docs \cup {NoDoc}]
  /\ own \in [Calls -> Codes \cup {NoCode}]
  /\ todo \in [Calls -> Seq(Codes)]
  /\ from \in [Calls -> Rates \cup {1}]
  /\ debtors \in [Calls -> SUBSET Users]
  /\ late \subseteq Workers \X Codes /\ elsewhere \subseteq Workers \X Codes
  /\ unlisted \subseteq Users
  /\ joined \subseteq Calls \X Users /\ touched \subseteq Calls
  /\ wrong \subseteq Calls \X {"charge", "credit", "refund", "adjust"}

\* The document seedBaseCurrency creates; nothing calls it, so that it may be
\* missing.  The converter does not need it.
Base == [id |-> Seed, rate |-> 1, active |-> TRUE]

\* A customer registers with any code: it need not be the code of a currency.
Init ==
  /\ deployment \in Deployments
  /\ currencies \in [Codes -> [id: {Seed}, rate: Rates, active: BOOLEAN] \cup {NoDoc, Base}]
  /\ \A k \in Codes : IF k = USD THEN currencies[k] \in {Base, NoDoc} ELSE currencies[k] # Base
  /\ worker \in [Calls -> Workers]
  /\ cache = [e \in Workers \X Codes |-> NoDoc]
  /\ currency \in [Users -> Codes]
  /\ job \in [Calls -> Jobs] /\ pc = [c \in Calls |-> "start"]
  /\ doc = [c \in Calls |-> NoDoc] /\ own = [c \in Calls |-> NoCode]
  /\ todo = [c \in Calls |-> <<>>] /\ from = [c \in Calls |-> 1]
  /\ debtors = [c \in Calls |-> {}]
  /\ unlisted = {u \in Users : currencies[currency[u]] = NoDoc}
  /\ late = {} /\ elsewhere = {} /\ joined = {} /\ touched = {} /\ wrong = {}

-----------------------------------------------------------------------------
(* The operators the steps share.                                          *)

At(c, op, step) == job[c].op = op /\ pc[c] = step
Go(c, step)     == pc' = [pc EXCEPT ![c] = step]
Code(c)         == job[c].code
User(c)         == job[c].u
Cached(c, k)    == cache[<<worker[c], k>>]

\* The document a call holds is still the one in the collection.
Stored(c) == currencies[Code(c)] # NoDoc /\ currencies[Code(c)].id = doc[c].id

\* A document of a user is written: transactions with an older snapshot of it
\* will conflict.
Touch(u) ==
  touched' = touched \cup {d \in Calls : /\ job[d].op = "order" /\ User(d) = u
                                         /\ pc[d] \in {"rate", "fill", "move"}}

\* An amount in currency `in` is added to or taken from the wallet of u.
MoveMoney(c, u, in, what) ==
  /\ wrong' = IF in = currency[u] THEN wrong ELSE wrong \cup {<<c, what>>}
  /\ Touch(u)
  /\ UNCHANGED currency

-----------------------------------------------------------------------------
(* The converter.                                                          *)

\* Reads the user's currency, an order within its transaction: what has to be
\* looked up.  A deposit in the currency of the wallet is credited directly.
ReadCurrency(c) ==
  LET mine == currency[User(c)] IN
  /\ At(c, "order", "start") \/ At(c, "deposit", "start")
  /\ own' = [own EXCEPT ![c] = mine]
  /\ LET needs == IF job[c].op = "order" THEN <<mine>>
                  ELSE IF Code(c) = mine THEN <<>> ELSE <<Code(c), mine>>
     IN /\ todo' = [todo EXCEPT ![c] = needs]
        /\ Go(c, IF needs = <<>> THEN "move" ELSE "rate")
  /\ UNCHANGED <<placement, collection, caches, wallets, job, doc, from, debtors, joined>>

\* One rate is known; the conversion goes on with the next.
Known(c) ==
  /\ todo' = [todo EXCEPT ![c] = Tail(@)]
  /\ Go(c, IF Len(todo[c]) = 1 THEN "move" ELSE "rate")

\* _getCurrency without the database: the base currency, or a document that the
\* process of the call has in its cache.
CacheHit(c) ==
  /\ pc[c] = "rate"
  /\ Head(todo[c]) = USD \/ Cached(c, Head(todo[c])) # NoDoc
  /\ Known(c)
  /\ UNCHANGED <<placement, collection, caches, wallets, job, doc, own, from, debtors, joined>>

\* _getCurrency with Currency.findOne, which is not part of a transaction: a
\* currency that is missing or inactive ends the call.
CacheMiss(c) ==
  LET k == Head(todo[c]) IN
  /\ pc[c] = "rate" /\ k # USD /\ Cached(c, k) = NoDoc
  /\ IF currencies[k] # NoDoc /\ currencies[k].active
     THEN doc' = [doc EXCEPT ![c] = currencies[k]] /\ Go(c, "fill")
     ELSE UNCHANGED doc /\ Go(c, "failed")
  /\ UNCHANGED <<placement, collection, caches, wallets, job, own, todo, from, debtors, joined>>

\* The document is put into the cache when the answer arrives, whatever
\* happened to the currency since it was read.
Fill(c) ==
  LET k == Head(todo[c])
      e == <<worker[c], k>>
  IN
  /\ pc[c] = "fill"
  /\ cache' = [cache EXCEPT ![e] = doc[c]]
  /\ late' = IF doc[c] = currencies[k] THEN late \ {e} ELSE late \cup {e}
  /\ elsewhere' = elsewhere \ {e}
  /\ Known(c)
  /\ UNCHANGED <<placement, collection, wallets, job, doc, own, from, debtors, joined>>

\* An entry leaves the cache of a process.
Drop(e) ==
  /\ cache' = [cache EXCEPT ![e] = NoDoc]
  /\ late' = late \ {e} /\ elsewhere' = elsewhere \ {e}

\* An entry is a minute old.
Expire(e) ==
  /\ cache[e] # NoDoc
  /\ Drop(e)
  /\ UNCHANGED <<placement, collection, wallets, job, pc, locals, joined>>

\* The entries of other processes that a write of call c has outdated; nothing
\* tells them.
Outdate(c) ==
  elsewhere' = elsewhere \cup
    {e \in Workers \X {Code(c)} : /\ e[1] # worker[c] /\ cache[e] # NoDoc
                                  /\ cache[e] = currencies[e[2]] /\ cache[e] # currencies'[e[2]]}

-----------------------------------------------------------------------------
(* Orders and deposits.                                                    *)

\* The user was written after the snapshot of the order's transaction.
Conflict(c) == deployment = "replicaSet" /\ c \in touched

\* A debit that is not given the session of the order's transaction.
Charge_OutsideTransaction(c) ==
  /\ At(c, "order", "move")
  /\ MoveMoney(c, User(c), own[c], "charge") /\ Go(c, "paid")
  /\ UNCHANGED <<placement, collection, caches, job, locals, joined>>

\* debitWalletAtomic, in the currency that was read.
Charge(c) ==
  /\ At(c, "order", "move") /\ ~Conflict(c)
  /\ MoveMoney(c, User(c), own[c], "charge") /\ Go(c, "paid")
  /\ UNCHANGED <<placement, collection, caches, job, locals, joined>>

\* The wallet does not cover the order, or its transaction conflicts; a
\* conflict is retried by another call.
ChargeFails(c) ==
  /\ At(c, "order", "move")
  /\ Go(c, "failed")
  /\ UNCHANGED <<placement, collection, caches, wallets, job, locals, joined>>

\* creditWalletDirect, at the end of an approval.
Credit(c) ==
  /\ At(c, "deposit", "move")
  /\ MoveMoney(c, User(c), own[c], "credit") /\ Go(c, "done")
  /\ UNCHANGED <<placement, collection, caches, job, locals, joined>>

\* An order fails, any time later: the wallet gets the amount that was taken.
Refund(c) ==
  /\ At(c, "order", "paid")
  /\ MoveMoney(c, User(c), own[c], "refund") /\ Go(c, "refunded")
  /\ UNCHANGED <<placement, collection, caches, job, locals, joined>>

-----------------------------------------------------------------------------
(* updateUserCurrency.                                                     *)

\* The user is read; the currency it has already is no change.
ReadUser(c) ==
  /\ At(c, "switch", "start")
  /\ own' = [own EXCEPT ![c] = currency[User(c)]]
  /\ Go(c, IF currency[User(c)] = Code(c) THEN "done" ELSE "target")
  /\ UNCHANGED <<placement, collection, caches, wallets, job, doc, todo, from, debtors, joined>>

\* The new currency must be there and active.
ReadTarget(c) ==
  LET k == Code(c) IN
  /\ At(c, "switch", "target")
  /\ IF currencies[k] # NoDoc /\ currencies[k].active
     THEN doc' = [doc EXCEPT ![c] = currencies[k]] /\ Go(c, "source")
     ELSE UNCHANGED doc /\ Go(c, "failed")
  /\ UNCHANGED <<placement, collection, caches, wallets, job, own, todo, from, debtors, joined>>

OldRate_ActiveOnly(k) ==
  IF k = USD \/ currencies[k] = NoDoc THEN 1
  ELSE IF currencies[k].active THEN currencies[k].rate ELSE 1

OldRate_NoDefault(k) ==
  IF k = USD THEN 1 ELSE IF currencies[k] = NoDoc THEN 0 ELSE currencies[k].rate

\* The rate of the old currency; one that is not found counts as the base.
OldRate(k) == IF k = USD \/ currencies[k] = NoDoc THEN 1 ELSE currencies[k].rate

ReadSource(c) ==
  /\ At(c, "switch", "source")
  /\ from' = [from EXCEPT ![c] = OldRate(own[c])]
  /\ Go(c, "write")
  /\ UNCHANGED <<placement, collection, caches, wallets, job, doc, own, todo, debtors, joined>>

\* The currency and the converted balance are written together.
WriteCurrency(c) ==
  LET u == User(c) k == Code(c) IN
  /\ At(c, "switch", "write")
  /\ currency' = [currency EXCEPT ![u] = k]
  /\ unlisted' = IF currencies[k] = NoDoc /\ doc[c] # NoDoc THEN unlisted \cup {u}
                 ELSE unlisted \ {u}
  /\ joined' = joined \cup {<<d, u>> : d \in {e \in Calls : At(e, "delete", "delete") /\ Code(e) = k}}
  /\ Touch(u)
  /\ Go(c, "done")
  /\ UNCHANGED <<placement, currencies, caches, job, locals, wrong>>

-----------------------------------------------------------------------------
(* The administration of currencies.                                       *)

\* updateCurrencyRate and setCurrencyStatus read the document first.  The base
\* currency keeps its rate, and its status where the service changes it.
ReadDocument(c) ==
  LET k == Code(c) IN
  /\ At(c, "setRate", "start") \/ At(c, "setStatus", "start")
  /\ LET refused == \/ currencies[k] = NoDoc
                    \/ k = USD /\ job[c].op = "setRate" /\ job[c].rate # 1
                    \/ k = USD /\ job[c].op = "setStatus" /\ job[c].status = "off"
     IN IF refused THEN UNCHANGED doc /\ Go(c, "failed")
        ELSE doc' = [doc EXCEPT ![c] = currencies[k]] /\ Go(c, "save")
  /\ UNCHANGED <<placement, collection, caches, wallets, job, own, todo, from, debtors, joined>>

\* doc.save: the fields that differ from what was read are written, to this
\* very document, or the save fails.
SaveDocument(c) ==
  LET k == Code(c) j == job[c] IN
  /\ At(c, "setRate", "save") \/ At(c, "setStatus", "save")
  /\ IF ~Stored(c) THEN Go(c, "failed") /\ UNCHANGED currencies
     ELSE /\ currencies' =
               IF j.op = "setRate" /\ j.rate # doc[c].rate
               THEN [currencies EXCEPT ![k] = [id |-> @.id, rate |-> j.rate, active |-> @.active]]
               ELSE IF j.op = "setStatus" /\ (j.status = "on") # doc[c].active
               THEN [currencies EXCEPT ![k] = [id |-> @.id, rate |-> @.rate,
                                               active |-> j.status = "on"]]
               ELSE currencies
          /\ Go(c, "invalidate")
  /\ Outdate(c)
  /\ UNCHANGED <<placement, unlisted, cache, late, wallets, job, locals, joined>>

\* Of a change of the rate, the debt adjustment and then the status follow.
Change(c) == job[c].rate - doc[c].rate
Adjusts(c) ==
  /\ job[c].adjust /\ job[c].rate # doc[c].rate
  /\ job[c].rate <= 2 * doc[c].rate \* by no more than 100 percent
Toggles(c) == job[c].status # "keep" /\ (job[c].status = "on") # doc[c].active

AfterAdjustment(c) == IF Toggles(c) THEN "status" ELSE "done"

Invalidate_Forgotten(c) ==
  /\ pc[c] = "invalidate"
  /\ Go(c, "done")
  /\ UNCHANGED <<placement, collection, caches, wallets, job, locals, joined>>

\* invalidateCurrencyCache, when the database has answered: the cache of this
\* process, which is the only one it can reach.
Invalidate(c) ==
  /\ pc[c] = "invalidate"
  /\ Drop(<<worker[c], Code(c)>>)
  /\ Go(c, IF job[c].op # "setRate" THEN "done"
           ELSE IF Adjusts(c) THEN "adjust" ELSE AfterAdjustment(c))
  /\ UNCHANGED <<placement, collection, wallets, job, locals, joined>>

\* The customers of the currency who are in debt, which any may be ...
ReadDebtors(c) ==
  /\ At(c, "setRate", "adjust")
  /\ \E us \in SUBSET {u \in Users : currency[u] = Code(c)} :
       debtors' = [debtors EXCEPT ![c] = us]
  /\ Go(c, "debts")
  /\ UNCHANGED <<placement, collection, caches, wallets, job, doc, own, todo, from, joined>>

\* ... get their balances one by one, in that currency.
AdjustDebt(c) ==
  /\ At(c, "setRate", "debts")
  /\ \E u \in debtors[c] :
       /\ debtors' = [debtors EXCEPT ![c] = @ \ {u}]
       /\ MoveMoney(c, u, Code(c), "adjust")
  /\ UNCHANGED <<placement, collection, caches, job, pc, doc, own, todo, from, joined>>

EndAdjustment(c) ==
  /\ At(c, "setRate", "debts") /\ debtors[c] = {}
  /\ Go(c, AfterAdjustment(c))
  /\ UNCHANGED <<placement, collection, caches, wallets, job, locals, joined>>

\* The route of the rate saves a new status as well; the cache is not told.
SaveStatus(c) ==
  LET k == Code(c) IN
  /\ At(c, "setRate", "status")
  /\ IF ~Stored(c) THEN Go(c, "failed") /\ UNCHANGED <<currencies, late, elsewhere>>
     ELSE /\ currencies' = [currencies EXCEPT ![k] = [id |-> @.id, rate |-> @.rate,
                                                      active |-> job[c].status = "on"]]
          /\ late' = IF Cached(c, k) = NoDoc THEN late ELSE late \cup {<<worker[c], k>>}
          /\ Outdate(c)
          /\ Go(c, "done")
  /\ UNCHANGED <<placement, unlisted, cache, wallets, job, locals, joined>>

\* Currency.create; the index on the code admits one document.
Create(c) ==
  LET k == Code(c) IN
  /\ At(c, "create", "start")
  /\ IF currencies[k] # NoDoc THEN Go(c, "failed") /\ UNCHANGED collection
     ELSE /\ currencies' = [currencies EXCEPT ![k] = [id |-> c, rate |-> job[c].rate,
                                                      active |-> job[c].status # "off"]]
          /\ unlisted' = {u \in unlisted : currency[u] # k}
          /\ Go(c, "done")
  /\ UNCHANGED <<placement, caches, wallets, job, locals, joined>>

\* deleteCurrency finds a document other than the base's ...
FindDocument(c) ==
  LET k == Code(c) IN
  /\ At(c, "delete", "start")
  /\ IF currencies[k] = NoDoc \/ k = USD THEN UNCHANGED doc /\ Go(c, "failed")
     ELSE doc' = [doc EXCEPT ![c] = currencies[k]] /\ Go(c, "check")
  /\ UNCHANGED <<placement, collection, caches, wallets, job, own, todo, from, debtors, joined>>

CheckUnused_Never(c) ==
  /\ At(c, "delete", "check")
  /\ Go(c, "delete")
  /\ UNCHANGED <<placement, collection, caches, wallets, job, locals, joined>>

\* ... that is the currency of no user ...
CheckUnused(c) ==
  /\ At(c, "delete", "check")
  /\ Go(c, IF \E u \in Users : currency[u] = Code(c) THEN "failed" ELSE "delete")
  /\ UNCHANGED <<placement, collection, caches, wallets, job, locals, joined>>

\* ... and deletes it.
Delete(c) ==
  LET k == Code(c) IN
  /\ At(c, "delete", "delete")
  /\ IF Stored(c)
     THEN /\ currencies' = [currencies EXCEPT ![k] = NoDoc]
          /\ unlisted' = unlisted \cup {u \in Users : currency[u] = k /\ <<c, u>> \in joined}
     ELSE UNCHANGED collection
  /\ Outdate(c)
  /\ Go(c, "invalidate")
  /\ UNCHANGED <<placement, cache, wallets, job, locals, late, joined>>

-----------------------------------------------------------------------------
Step(c) ==
  \/ ReadCurrency(c) \/ CacheHit(c) \/ CacheMiss(c) \/ Fill(c)
  \/ Charge(c) \/ ChargeFails(c) \/ Credit(c) \/ Refund(c)
  \/ ReadUser(c) \/ ReadTarget(c) \/ ReadSource(c) \/ WriteCurrency(c)
  \/ ReadDocument(c) \/ SaveDocument(c) \/ Invalidate(c)
  \/ ReadDebtors(c) \/ AdjustDebt(c) \/ EndAdjustment(c) \/ SaveStatus(c)
  \/ Create(c) \/ FindDocument(c) \/ CheckUnused(c) \/ Delete(c)

Next == (\E c \in Calls : Step(c)) \/ (\E e \in Workers \X Codes : Expire(e))

Spec == Init /\ [][Next]_vars

-----------------------------------------------------------------------------
(* Properties.                                                             *)

\* The document of a currency that a process serves is the stored one, but for
\* the time between a write of its own and the invalidation, and for entries that
\* were overtaken: read before a write and cached after its invalidation, or
\* whose status the route saved, or outdated by the write of another process.
CacheFollows ==
  \A w \in Workers, k \in Codes :
    \/ cache[<<w, k>>] \in {NoDoc, currencies[k]}
    \/ <<w, k>> \in late \cup elsewhere
    \/ \E c \in Calls : worker[c] = w /\ pc[c] = "invalidate" /\ Code(c) = k

\* In a transaction the currency an order is charged in is the currency the
\* wallet has at that moment, whoever changes it meanwhile.
TransactionsChargeInCurrency ==
  deployment = "replicaSet" => \A c \in Calls : <<c, "charge">> \notin wrong

\* The currency of a wallet has a document, unless the customer registered
\* without one or a switch and a deletion overtook each other's checks.
WalletCurrencyExists ==
  \A u \in Users : currencies[currency[u]] # NoDoc \/ u \in unlisted

\* A switch divides by 1 what is not in the base currency only for a customer
\* whose currency has no document, or has another currency by now.
ConvertsAtKnownRate ==
  [][\A c \in Calls :
       At(c, "switch", "source") /\ pc'[c] = "write" /\ own[c] # USD /\ from'[c] = 1
         => User(c) \in unlisted \/ currency[User(c)] # own[c]]_vars

\* A switch of a customer's currency is sound: it neither leaves the wallet in
\* a currency that was deleted, nor converts its balance at a rate nobody set,
\* however it overlaps with the administration of currencies.
SwitchIsSound == []WalletCurrencyExists /\ ConvertsAtKnownRate
=============================================================================
