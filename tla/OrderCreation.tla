---------------------------- MODULE OrderCreation ----------------------------
(***************************************************************************)
(* createOrder and _attemptCreateOrder: the customer pays and the order is *)
(* stored, under concurrent requests, repeated requests with the same      *)
(* idempotency key, failing database operations and crashes.               *)
(*                                                                         *)
(* On a replica set an attempt runs in a transaction, which is one step:   *)
(* it commits, or the database refuses it and nothing is changed.  On a    *)
(* standalone server the debit, the insertion and the compensating refund  *)
(* are separate steps.  The wallet and the quantity quota differ only in   *)
(* what is counted: `funds` is what the user may still spend of either.    *)
(***************************************************************************)
EXTENDS Integers, FiniteSets

CONSTANTS
  Requests,      \* identities of calls of createOrder, each used at most once
  Automatic,     \* requests for a product that a provider fulfils
  Users,         \* the customers
  UserOf,        \* the customer who sends each request
  KeyOf,         \* its idempotency key
  NoKey,         \* ... or this, when it has none: stored as null
  Numbers,       \* order numbers that can be drawn
  NoNumber,      \* no number drawn yet
  Deployments,   \* subset of {"replicaSet", "standalone", "misdetected"}
  Opening,       \* what every user may spend at first
  Price,         \* what every order costs
  MaxCollisions, \* ORDER_NUMBER_MAX_ATTEMPTS
  MaxFaults,     \* bound: failing database operations
  MaxCrashes     \* bound: crashes of the process

ASSUME RequestsAssumption  == Automatic \subseteq Requests /\ IsFiniteSet(Requests)
ASSUME InputsAssumption    == /\ UserOf \in [Requests -> Users]
                              /\ DOMAIN KeyOf = Requests
                              /\ NoNumber \notin Numbers
ASSUME DeployAssumption    == Deployments \subseteq {"replicaSet", "standalone", "misdetected"}
ASSUME MoneyAssumption     == Opening \in Nat /\ Price \in Nat \ {0}
ASSUME BoundAssumption     == MaxCollisions \in Nat /\ MaxFaults \in Nat /\ MaxCrashes \in Nat

VARIABLES
  deployment, \* what shouldUseOrderTransactions detects, and the truth of it
  funds,      \* what each user may still spend
  orders,     \* Order documents
  req,        \* the state of every request
  dispatched, \* how often executeOrder was called for an order number
  lost,       \* history: charges taken from a user that nothing returns
  faults,     \* bound: failing operations so far
  crashes     \* bound: crashes so far

vars == <<deployment, funds, orders, req, dispatched, lost, faults, crashes>>

OrderDocs == [by: Requests, number: Numbers]

\* What follows a compensating refund.
Sequels == {"none", "redraw", "lookup", "failed", "retry"}

Calls == [pc: {"idle", "check", "draw", "transaction", "debit", "insert",
               "compensate", "lookup", "populate",
               "created", "existing", "failed", "dead"},
          number: Numbers \cup {NoNumber}, then: Sequels,
          isRetry: BOOLEAN, standalone: BOOLEAN, collisions: 0..MaxCollisions]

Finished == {"created", "existing", "failed", "dead"}

NewCall == [pc |-> "idle", number |-> NoNumber, then |-> "none",
            isRetry |-> FALSE, standalone |-> FALSE, collisions |-> 0]

TypeOK ==
  /\ deployment \in Deployments
  /\ funds \in [Users -> Nat]
  /\ orders \subseteq OrderDocs
  /\ req \in [Requests -> Calls]
  /\ dispatched \in [Numbers -> Nat]
  /\ lost \in [Users -> Nat]
  /\ faults \in 0..MaxFaults
  /\ crashes \in 0..MaxCrashes

Init ==
  /\ deployment \in Deployments
  /\ funds = [u \in Users |-> Opening]
  /\ orders = {}
  /\ req = [r \in Requests |-> NewCall]
  /\ dispatched = [n \in Numbers |-> 0]
  /\ lost = [u \in Users |-> 0]
  /\ faults = 0
  /\ crashes = 0

-----------------------------------------------------------------------------
(* The operators the steps share.                                          *)

Go(r, pc) == req' = [req EXCEPT ![r].pc = pc]

Fails == faults < MaxFaults /\ faults' = faults + 1

\* The order that holds the key of a request, among its user's orders.
OrderOf(r) == {d \in orders : UserOf[d.by] = UserOf[r] /\ KeyOf[d.by] = KeyOf[r]}

Affordable_Unchecked(u) == TRUE

\* The filter of the atomic debit: the balance and the credit limit, or the
\* quota that is left, cover the price.
Affordable(u) == funds[u] >= Price

Clash_OnlyKeyed(r) == KeyOf[r] # NoKey /\ OrderOf(r) # {}

\* The index unique_user_idempotency_key refuses the document.  It is sparse,
\* but userId is always there and the schema stores a missing key as null:
\* the orders of a user without a key clash with each other.
Clash(r) == OrderOf(r) # {}

NumberTaken(n) == \E d \in orders : d.number = n

\* A new attempt of the same request; only a collision counter survives.
Retry(r, standalone) ==
  req' = [req EXCEPT ![r].pc = "draw", ![r].number = NoNumber, ![r].then = "none",
                     ![r].isRetry = TRUE, ![r].standalone = standalone]

Throw_Always(r, retryable) ==
  IF retryable THEN Retry(r, req[r].standalone)
  ELSE req' = [req EXCEPT ![r].pc = "failed", ![r].then = "none"]

\* The outer catch block: a write conflict or a lock timeout is retried once.
\* Any other error reaches the caller.
Throw(r, retryable) ==
  IF retryable /\ ~req[r].isRetry THEN Retry(r, req[r].standalone)
  ELSE req' = [req EXCEPT ![r].pc = "failed", ![r].then = "none"]

Refused_AnyDuplicate(r, then) ==
  /\ Clash(r) \/ NumberTaken(req[r].number)
  /\ then = IF KeyOf[r] # NoKey THEN "lookup" ELSE "failed"

\* The catch block around Order.create.  A taken number is drawn again while
\* attempts are left; any other violated index is answered, to a request with
\* a key, from the order that is there.
Refused(r, then) ==
  LET call == req[r]
      redraw == NumberTaken(call.number) /\ call.collisions < MaxCollisions
      other  == Clash(r) \/ (NumberTaken(call.number) /\ call.collisions = MaxCollisions)
  IN \/ redraw /\ then = "redraw"
     \/ other /\ then = IF KeyOf[r] # NoKey THEN "lookup" ELSE "failed"

Accepted(r) == ~Clash(r) /\ ~NumberTaken(req[r].number)

Document(r) == [by |-> r, number |-> req[r].number]

\* Carries on after a refused insertion left nothing behind.
Proceed(r, then) ==
  CASE then = "redraw" -> req' = [req EXCEPT ![r].pc = "draw", ![r].number = NoNumber,
                                             ![r].then = "none", ![r].collisions = @ + 1]
    [] then = "retry"  -> Throw(r, TRUE)
    [] OTHER           -> req' = [req EXCEPT ![r].pc = then, ![r].then = "none"]

-----------------------------------------------------------------------------
(* The steps of a request.                                                 *)

\* The client's request arrives; only one with a key is looked up first.
Arrive(r) ==
  /\ req[r].pc = "idle"
  /\ Go(r, IF KeyOf[r] = NoKey THEN "draw" ELSE "check")
  /\ UNCHANGED <<deployment, funds, orders, dispatched, lost, faults, crashes>>

\* The pre-check: an order with this key answers the request.
CheckKey(r) ==
  /\ req[r].pc = "check"
  /\ Go(r, IF OrderOf(r) = {} THEN "draw" ELSE "existing")
  /\ UNCHANGED <<deployment, funds, orders, dispatched, lost, faults, crashes>>

\* generateUniqueOrderNumber.  It sees the committed orders only, and gives
\* up when every number it tries is taken, before the try block.
DrawNumber(r) ==
  /\ req[r].pc = "draw"
  /\ \/ \E n \in Numbers :
          /\ ~NumberTaken(n)
          /\ req' = [req EXCEPT ![r].number = n,
                                ![r].pc = IF req[r].standalone \/ deployment = "standalone"
                                          THEN "debit" ELSE "transaction"]
     \/ /\ \A n \in Numbers : NumberTaken(n)
        /\ Go(r, "failed")
  /\ UNCHANGED <<deployment, funds, orders, dispatched, lost, faults, crashes>>

\* The product, the quantity, the fields, the provider's price or the amount
\* is refused before anything is taken.
Reject(r) ==
  /\ req[r].pc \in {"transaction", "debit"}
  /\ Go(r, "failed")
  /\ UNCHANGED <<deployment, funds, orders, dispatched, lost, faults, crashes>>

\* The server refuses the transaction for what it is or for a concurrent one.
TransactionRefused(r) ==
  /\ req[r].pc = "transaction"
  /\ IF deployment = "misdetected" THEN Retry(r, TRUE) ELSE Throw(r, TRUE)
  /\ UNCHANGED <<deployment, funds, orders, dispatched, lost, faults, crashes>>

\* The transaction is aborted by an index or by the filter of the debit: the
\* debit, if it was made, is gone with it.
TransactionAborted(r) ==
  /\ req[r].pc = "transaction" /\ deployment = "replicaSet"
  /\ IF Affordable(UserOf[r]) THEN \E then \in Sequels : Refused(r, then) /\ Proceed(r, then)
     ELSE Throw(r, FALSE)
  /\ UNCHANGED <<deployment, funds, orders, dispatched, lost, faults, crashes>>

\* The debit and the insertion commit together.
TransactionCommits(r) ==
  /\ req[r].pc = "transaction" /\ deployment = "replicaSet"
  /\ Affordable(UserOf[r]) /\ Accepted(r)
  /\ funds' = [funds EXCEPT ![UserOf[r]] = @ - Price]
  /\ orders' = orders \cup {Document(r)}
  /\ Go(r, "populate")
  /\ UNCHANGED <<deployment, dispatched, lost, faults, crashes>>

\* Without a transaction: the atomic debit ...
Debit(r) ==
  /\ req[r].pc = "debit"
  /\ LET u == UserOf[r] IN
       IF Affordable(u) THEN funds' = [funds EXCEPT ![u] = @ - Price] /\ Go(r, "insert")
       ELSE UNCHANGED funds /\ Throw(r, FALSE)
  /\ UNCHANGED <<deployment, orders, dispatched, lost, faults, crashes>>

\* ... whose ledger record may fail: the error leaves debitWalletAtomic, the
\* caller knows of no debit and nothing compensates it.
DebitUnrecorded(r) ==
  /\ req[r].pc = "debit" /\ Affordable(UserOf[r])
  /\ funds' = [funds EXCEPT ![UserOf[r]] = @ - Price]
  /\ lost' = [lost EXCEPT ![UserOf[r]] = @ + 1]
  /\ \E retryable \in BOOLEAN : Throw(r, retryable)
  /\ Fails
  /\ UNCHANGED <<deployment, orders, dispatched, crashes>>

\* ... then Order.create, stored ...
Insert(r) ==
  /\ req[r].pc = "insert" /\ Accepted(r)
  /\ orders' = orders \cup {Document(r)}
  /\ Go(r, "populate")
  /\ UNCHANGED <<deployment, funds, dispatched, lost, faults, crashes>>

InsertRefused_KeepsCharge(r) ==
  /\ req[r].pc = "insert"
  /\ \E then \in Sequels : Refused(r, then) /\ Proceed(r, then)
  /\ UNCHANGED <<deployment, funds, orders, dispatched, lost, faults, crashes>>

\* ... or refused by an index ...
InsertRefused(r) ==
  /\ req[r].pc = "insert"
  /\ \E then \in Sequels :
       /\ Refused(r, then)
       /\ req' = [req EXCEPT ![r].pc = "compensate", ![r].then = then]
  /\ UNCHANGED <<deployment, funds, orders, dispatched, lost, faults, crashes>>

\* ... or failing for another reason.
InsertFails(r) ==
  /\ req[r].pc = "insert"
  /\ \E then \in {"failed", "retry"} :
       req' = [req EXCEPT ![r].pc = "compensate", ![r].then = then]
  /\ Fails
  /\ UNCHANGED <<deployment, funds, orders, dispatched, lost, crashes>>

\* refundWalletAtomic, or the $inc of the quota, gives the charge back.
Compensate(r) ==
  /\ req[r].pc = "compensate"
  /\ funds' = [funds EXCEPT ![UserOf[r]] = @ + Price]
  /\ Proceed(r, req[r].then)
  /\ UNCHANGED <<deployment, orders, dispatched, lost, faults, crashes>>

\* Its failure is logged, and the attempt goes on as if it had been paid.
CompensationFails(r) ==
  /\ req[r].pc = "compensate"
  /\ lost' = [lost EXCEPT ![UserOf[r]] = @ + 1]
  /\ Proceed(r, req[r].then)
  /\ Fails
  /\ UNCHANGED <<deployment, funds, orders, dispatched, crashes>>

Lookup_Dispatches(r) ==
  /\ req[r].pc = "lookup"
  /\ Go(r, "existing")
  /\ dispatched' = [n \in Numbers |->
       IF \E d \in OrderOf(r) : d.number = n THEN dispatched[n] + 1 ELSE dispatched[n]]
  /\ UNCHANGED <<deployment, funds, orders, lost, faults, crashes>>

\* The order that holds the key is read again for the idempotent answer.
Lookup(r) ==
  /\ req[r].pc = "lookup"
  /\ Go(r, "existing")
  /\ UNCHANGED <<deployment, funds, orders, dispatched, lost, faults, crashes>>

\* order.populate, then executeOrder, not awaited, and the answer.
Conclude(r) ==
  /\ req[r].pc = "populate"
  /\ dispatched' = IF r \in Automatic THEN [dispatched EXCEPT ![req[r].number] = @ + 1]
                   ELSE dispatched
  /\ Go(r, "created")
  /\ UNCHANGED <<deployment, funds, orders, lost, faults, crashes>>

\* order.populate fails: the order is stored, but its caller gets an error,
\* or the attempt is made again.
PopulateFails(r) ==
  /\ req[r].pc = "populate"
  /\ \E retryable \in BOOLEAN : Throw(r, retryable)
  /\ Fails
  /\ UNCHANGED <<deployment, funds, orders, dispatched, lost, crashes>>

Charged(r) == req[r].pc \in {"insert", "compensate"}

\* The process stops: the requests it was serving are never answered, and
\* what they had taken stays taken.
Crash ==
  /\ crashes < MaxCrashes
  /\ crashes' = crashes + 1
  /\ req' = [r \in Requests |-> IF req[r].pc = "idle" \/ req[r].pc \in Finished THEN req[r]
                                ELSE [NewCall EXCEPT !.pc = "dead"]]
  /\ lost' = [u \in Users |->
               lost[u] + Cardinality({r \in Requests : Charged(r) /\ UserOf[r] = u})]
  /\ UNCHANGED <<deployment, funds, orders, dispatched, faults>>

Step(r) ==
  \/ CheckKey(r) \/ DrawNumber(r) \/ Reject(r)
  \/ TransactionRefused(r) \/ TransactionAborted(r) \/ TransactionCommits(r)
  \/ Debit(r) \/ DebitUnrecorded(r)
  \/ Insert(r) \/ InsertRefused(r) \/ InsertFails(r)
  \/ Compensate(r) \/ CompensationFails(r)
  \/ Lookup(r) \/ Conclude(r) \/ PopulateFails(r)

\* Every request was answered, or will never be.
AllFinished == (\A r \in Requests : req[r].pc \in Finished) /\ UNCHANGED vars

Next == (\E r \in Requests : Arrive(r) \/ Step(r)) \/ Crash \/ AllFinished

Spec == Init /\ [][Next]_vars

\* The event loop resumes every request whose operation was answered.
FairSpec == Spec /\ \A r \in Requests : WF_vars(Step(r))

-----------------------------------------------------------------------------
(* Properties.                                                             *)

OrdersOf(u)   == {d \in orders : UserOf[d.by] = u}
ChargedFor(u) == {r \in Requests : Charged(r) /\ UserOf[r] = u}

\* Every charge taken from a customer is an order that is stored, or belongs
\* to an attempt that is still going to store one or to give it back, or was
\* lost to a failure or a crash.
FundsExplained ==
  \A u \in Users :
    funds[u] + Price * (Cardinality(OrdersOf(u)) + Cardinality(ChargedFor(u)) + lost[u])
      = Opening

\* However often an attempt is repeated, by the client with the same key or
\* by the code after an error, it stores one order.
OneOrder ==
  \A d, e \in orders :
    d.by = e.by \/ (KeyOf[d.by] # NoKey /\ d \in OrderOf(e.by)) => d = e

\* A request answered with success has its order: one of its own, paid and
\* stored, or the one that holds its key.  (Twenty collisions of the order
\* number would make the code answer a request with a key with no order.)
HonestAnswer ==
  \A r \in Requests :
    /\ req[r].pc = "created" => Document(r) \in orders
    /\ req[r].pc = "existing" => OrderOf(r) # {} \/ req[r].collisions = MaxCollisions

\* An order reaches executeOrder once at most, only when it is stored, and
\* always when its request was answered "created" for an automatic product.
DispatchedOnce ==
  /\ \A n \in Numbers : dispatched[n] <= 1 /\ (dispatched[n] = 1 => NumberTaken(n))
  /\ \A r \in Automatic : req[r].pc = "created" => dispatched[req[r].number] = 1

\* Collisions, conflicts and failures are retried a bounded number of times:
\* every request that arrived is answered, unless the process stops.
Answered == \A r \in Requests : req[r].pc = "draw" ~> req[r].pc \in Finished
=============================================================================
