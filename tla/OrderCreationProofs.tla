------------------------- MODULE OrderCreationProofs -------------------------
(***************************************************************************)
(* Proofs about OrderCreation for any number of customers, requests, keys  *)
(* and order numbers, any prices and any bounds on collisions, failures    *)
(* and crashes: every charge is explained, a key or a request has one      *)
(* order, answers are honest and an order is dispatched once.              *)
(*                                                                         *)
(* A step of a request is of one of three kinds: it stores the order, it   *)
(* dispatches it, or it is quiet, which leaves the orders alone and at     *)
(* most moves the price between the customer's funds and the request.      *)
(***************************************************************************)
EXTENDS OrderCreation, FiniteSetTheorems, TLAPS

-----------------------------------------------------------------------------
(* The invariant *)

\* What a request is answered with exists, or all numbers it drew were taken.
Held(r, collisions) == OrderOf(r) # {} \/ collisions = MaxCollisions

\* A call that claims neither to have stored an order nor to have dispatched it.
QuietCall(r, x) ==
  /\ x \in Calls /\ x.pc \notin {"populate", "created"}
  /\ x.pc \in {"transaction", "debit", "insert", "compensate"} => x.number \in Numbers
  /\ x.pc = "compensate" => x.then \in {"redraw", "lookup", "failed", "retry"}
  /\ x.then = "redraw" => x.collisions < MaxCollisions
  /\ x.pc \in {"existing", "lookup"} => Held(r, x.collisions)
  /\ x.pc = "compensate" /\ x.then = "lookup" => Held(r, x.collisions)

\* One that does.
LoudCall(r, x) ==
  /\ x \in Calls /\ x.pc \in {"populate", "created"} /\ x.number \in Numbers
  /\ x.then = "redraw" => x.collisions < MaxCollisions
  /\ Document(r) \in orders
  /\ x.pc = "populate" => dispatched[x.number] = 0
  /\ x.pc = "created" /\ r \in Automatic => dispatched[x.number] = 1

CallsOK ==
  /\ req \in [Requests -> Calls]
  /\ \A r \in Requests : QuietCall(r, req[r]) \/ LoudCall(r, req[r])

\* The indexes hold, and only stored orders were dispatched.
StoreOK ==
  /\ orders \subseteq OrderDocs /\ IsFiniteSet(orders)
  /\ \A d, e \in orders : UserOf[d.by] = UserOf[e.by] /\ KeyOf[d.by] = KeyOf[e.by] => d = e
  /\ \A d, e \in orders : d.number = e.number => d = e
  /\ dispatched \in [Numbers -> Nat]
  /\ \A n \in Numbers : dispatched[n] <= 1 /\ (dispatched[n] = 1 => NumberTaken(n))

\* The number of charges that are not with the customer.
Outstanding(u) == Cardinality(OrdersOf(u)) + Cardinality(ChargedFor(u)) + lost[u]

MoneyOK ==
  /\ funds \in [Users -> Nat] /\ lost \in [Users -> Nat]
  /\ \A u \in Users : funds[u] + Price * Outstanding(u) = Opening

BoundsOK == deployment \in Deployments /\ faults \in 0..MaxFaults /\ crashes \in 0..MaxCrashes

IInv == CallsOK /\ StoreOK /\ MoneyOK /\ BoundsOK

\* What the invariant says of the properties.
LEMMA InvMeans ==
  ASSUME IInv
  PROVE  TypeOK /\ FundsExplained /\ OneOrder /\ HonestAnswer /\ DispatchedOnce
<1>1. TypeOK
  BY DEF IInv, CallsOK, StoreOK, MoneyOK, BoundsOK, TypeOK
<1>2. FundsExplained
  BY DEF IInv, MoneyOK, Outstanding, FundsExplained
<1>3. OneOrder
  BY DEF IInv, StoreOK, OneOrder, OrderOf
<1>4. HonestAnswer
  BY DEF IInv, CallsOK, QuietCall, LoudCall, Held, HonestAnswer
<1>5. DispatchedOnce
  BY RequestsAssumption DEF IInv, CallsOK, StoreOK, QuietCall, LoudCall, DispatchedOnce
<1> QED BY <1>1, <1>2, <1>3, <1>4, <1>5

-----------------------------------------------------------------------------
(* The kinds of steps *)

ChargedCall(x) == x.pc \in {"insert", "compensate"}

\* What a step does with the money of the customer of request r.
NoMoney(r, x) == UNCHANGED <<funds, lost>> /\ (ChargedCall(x) <=> Charged(r))
Takes(r, x) ==
  /\ ~Charged(r) /\ Affordable(UserOf[r])
  /\ funds' = [funds EXCEPT ![UserOf[r]] = @ - Price]
  /\ \/ ChargedCall(x) /\ UNCHANGED lost
     \/ ~ChargedCall(x) /\ lost' = [lost EXCEPT ![UserOf[r]] = @ + 1]
Returns(r, x) ==
  /\ Charged(r) /\ ~ChargedCall(x) /\ UNCHANGED lost
  /\ funds' = [funds EXCEPT ![UserOf[r]] = @ + Price]
Loses(r, x) ==
  /\ Charged(r) /\ ~ChargedCall(x) /\ UNCHANGED funds
  /\ lost' = [lost EXCEPT ![UserOf[r]] = @ + 1]

Quiet(r, x) ==
  /\ QuietCall(r, x) /\ UNCHANGED <<orders, dispatched>>
  /\ NoMoney(r, x) \/ Takes(r, x) \/ Returns(r, x) \/ Loses(r, x)

Stores(r, x) ==
  /\ x = [req[r] EXCEPT !.pc = "populate"] /\ req[r].pc \in {"transaction", "insert"}
  /\ Accepted(r) /\ orders' = orders \cup {Document(r)} /\ UNCHANGED <<dispatched, lost>>
  /\ IF Charged(r) THEN UNCHANGED funds
     ELSE Affordable(UserOf[r]) /\ funds' = [funds EXCEPT ![UserOf[r]] = @ - Price]

Dispatches(r, x) ==
  /\ x = [req[r] EXCEPT !.pc = "created"] /\ req[r].pc = "populate"
  /\ dispatched' = IF r \in Automatic THEN [dispatched EXCEPT ![req[r].number] = @ + 1]
                   ELSE dispatched
  /\ UNCHANGED <<orders, funds, lost>>

StepKind(r) ==
  \E x : /\ req' = [req EXCEPT ![r] = x]
         /\ Quiet(r, x) \/ Stores(r, x) \/ Dispatches(r, x)

\* Ends of an attempt.
LEMMA Thrown ==
  ASSUME CallsOK, NEW r \in Requests, NEW retryable \in BOOLEAN, Throw(r, retryable)
  PROVE  \E x : /\ req' = [req EXCEPT ![r] = x] /\ QuietCall(r, x) /\ ~ChargedCall(x)
<1>0. req[r] \in Calls
  BY DEF CallsOK
<1>1. CASE Retry(r, req[r].standalone)
  <2> DEFINE x == [req[r] EXCEPT !.pc = "draw", !.number = NoNumber, !.then = "none",
                                 !.isRetry = TRUE, !.standalone = req[r].standalone]
  <2>1. req' = [req EXCEPT ![r] = x]
    BY <1>1 DEF Retry, CallsOK
  <2>2. QuietCall(r, x) /\ ~ChargedCall(x)
    BY <1>0 DEF Calls, Sequels, QuietCall, ChargedCall
  <2> QED BY <2>1, <2>2
<1>2. CASE req' = [req EXCEPT ![r].pc = "failed", ![r].then = "none"]
  <2> DEFINE x == [req[r] EXCEPT !.pc = "failed", !.then = "none"]
  <2>1. req' = [req EXCEPT ![r] = x]
    BY <1>2 DEF CallsOK
  <2>2. QuietCall(r, x) /\ ~ChargedCall(x)
    BY <1>0 DEF Calls, Sequels, QuietCall, ChargedCall
  <2> QED BY <2>1, <2>2
<1> QED BY <1>1, <1>2 DEF Throw

LEMMA Retried ==
  ASSUME CallsOK, NEW r \in Requests, Retry(r, TRUE)
  PROVE  \E x : /\ req' = [req EXCEPT ![r] = x] /\ QuietCall(r, x) /\ ~ChargedCall(x)
<1> DEFINE x == [req[r] EXCEPT !.pc = "draw", !.number = NoNumber, !.then = "none",
                               !.isRetry = TRUE, !.standalone = TRUE]
<1>1. req' = [req EXCEPT ![r] = x] /\ req[r] \in Calls
  BY DEF Retry, CallsOK
<1>2. QuietCall(r, x) /\ ~ChargedCall(x)
  BY <1>1 DEF Calls, Sequels, QuietCall, ChargedCall
<1> QED BY <1>1, <1>2

LEMMA WasRefused ==
  ASSUME NEW r \in Requests, NEW then, Refused(r, then), req[r] \in Calls
  PROVE  /\ then \in {"redraw", "lookup", "failed"}
         /\ then = "redraw" => req[r].collisions < MaxCollisions
         /\ then = "lookup" => Held(r, req[r].collisions)
  BY DEF Refused, Held, Clash

LEMMA Proceeded ==
  ASSUME CallsOK, NEW r \in Requests, NEW then \in {"redraw", "lookup", "failed", "retry"},
         Proceed(r, then),
         then = "redraw" => req[r].collisions < MaxCollisions,
         then = "lookup" => Held(r, req[r].collisions)
  PROVE  \E x : /\ req' = [req EXCEPT ![r] = x] /\ QuietCall(r, x) /\ ~ChargedCall(x)
<1>0. req[r] \in Calls
  BY DEF CallsOK
<1>1. CASE then = "redraw"
  <2> DEFINE x == [req[r] EXCEPT !.pc = "draw", !.number = NoNumber, !.then = "none",
                                 !.collisions = @ + 1]
  <2>1. req' = [req EXCEPT ![r] = x]
    BY <1>1 DEF Proceed, CallsOK
  <2>2. req[r].collisions + 1 \in 0..MaxCollisions
    BY <1>0, <1>1, BoundAssumption DEF Calls
  <2>3. QuietCall(r, x) /\ ~ChargedCall(x)
    BY <1>0, <2>2 DEF Calls, Sequels, QuietCall, ChargedCall
  <2> QED BY <2>1, <2>3
<1>2. CASE then = "retry"
  BY <1>2, Thrown DEF Proceed
<1>3. CASE then \in {"lookup", "failed"}
  <2> DEFINE x == [req[r] EXCEPT !.pc = then, !.then = "none"]
  <2>1. req' = [req EXCEPT ![r] = x]
    BY <1>3 DEF Proceed, CallsOK
  <2>2. QuietCall(r, x) /\ ~ChargedCall(x)
    BY <1>0, <1>3 DEF Calls, Sequels, QuietCall, ChargedCall
  <2> QED BY <2>1, <2>2
<1> QED BY <1>1, <1>2, <1>3

\* A call that waits for the database or is about to store its order.
LEMMA QuietState ==
  ASSUME CallsOK, NEW r \in Requests, req[r].pc \notin {"populate", "created"}
  PROVE  QuietCall(r, req[r]) /\ req[r] \in Calls
  BY DEF CallsOK, LoudCall

\* Moving to another state of a call.
LEMMA Gone ==
  ASSUME CallsOK, NEW r \in Requests, NEW pc, Go(r, pc)
  PROVE  req' = [req EXCEPT ![r] = [req[r] EXCEPT !.pc = pc]]
  BY DEF Go, CallsOK

\* Steps before anything is taken.
LEMMA EarlyKind ==
  ASSUME CallsOK, NEW r \in Requests,
         Arrive(r) \/ CheckKey(r) \/ DrawNumber(r) \/ Reject(r) \/ Lookup(r)
  PROVE  StepKind(r)
<1>0. /\ UNCHANGED <<orders, dispatched, funds, lost>>
      /\ req[r].pc \notin {"populate", "created"} /\ ~Charged(r)
  BY DEF Arrive, CheckKey, DrawNumber, Reject, Lookup, Charged
<1>1. QuietCall(r, req[r]) /\ req[r] \in Calls
  BY <1>0, QuietState
<1>2. ASSUME NEW x, req' = [req EXCEPT ![r] = x], QuietCall(r, x), ~ChargedCall(x)
      PROVE  StepKind(r)
  BY <1>0, <1>2 DEF StepKind, Quiet, NoMoney
<1>3. CASE Arrive(r) \/ Reject(r)
  <2>1. PICK pc \in {"draw", "check", "failed"} : Go(r, pc)
    BY <1>3 DEF Arrive, Reject
  <2>2. QuietCall(r, [req[r] EXCEPT !.pc = pc]) /\ ~ChargedCall([req[r] EXCEPT !.pc = pc])
    BY <1>1 DEF Calls, QuietCall, ChargedCall
  <2> QED BY <1>2, <2>1, <2>2, Gone
<1>4. CASE CheckKey(r)
  <2>1. PICK pc \in {"draw", "existing"} : Go(r, pc) /\ (pc = "existing" => OrderOf(r) # {})
    BY <1>4 DEF CheckKey
  <2>2. QuietCall(r, [req[r] EXCEPT !.pc = pc]) /\ ~ChargedCall([req[r] EXCEPT !.pc = pc])
    BY <1>1, <2>1 DEF Calls, QuietCall, ChargedCall, Held
  <2> QED BY <1>2, <2>1, <2>2, Gone
<1>5. CASE DrawNumber(r)
  <2>1. ASSUME NEW n \in Numbers, NEW pc \in {"debit", "transaction"},
               req' = [req EXCEPT ![r].number = n, ![r].pc = pc]
        PROVE  StepKind(r)
    <3> DEFINE x == [req[r] EXCEPT !.number = n, !.pc = pc]
    <3>1. req' = [req EXCEPT ![r] = x]
      BY <2>1 DEF CallsOK
    <3>2. QuietCall(r, x) /\ ~ChargedCall(x)
      BY <1>1 DEF Calls, QuietCall, ChargedCall
    <3> QED BY <1>2, <3>1, <3>2
  <2>2. CASE Go(r, "failed")
    <3>1. /\ QuietCall(r, [req[r] EXCEPT !.pc = "failed"])
          /\ ~ChargedCall([req[r] EXCEPT !.pc = "failed"])
      BY <1>1 DEF Calls, QuietCall, ChargedCall
    <3> QED BY <1>2, <2>2, <3>1, Gone
  <2> QED BY <1>5, <2>1, <2>2 DEF DrawNumber
<1>6. CASE Lookup(r)
  <2>1. Go(r, "existing") /\ req[r].pc = "lookup"
    BY <1>6 DEF Lookup
  <2>2. /\ QuietCall(r, [req[r] EXCEPT !.pc = "existing"])
        /\ ~ChargedCall([req[r] EXCEPT !.pc = "existing"])
    BY <1>1, <2>1 DEF Calls, QuietCall, ChargedCall
  <2> QED BY <1>2, <2>1, <2>2, Gone
<1> QED BY <1>3, <1>4, <1>5, <1>6

\* Steps of a transaction.
LEMMA TransactionKind ==
  ASSUME CallsOK, NEW r \in Requests,
         TransactionRefused(r) \/ TransactionAborted(r) \/ TransactionCommits(r)
  PROVE  StepKind(r)
<1>0. req[r].pc = "transaction" /\ ~Charged(r) /\ UNCHANGED dispatched
  BY DEF TransactionRefused, TransactionAborted, TransactionCommits, Charged
<1>1. req[r] \in Calls
  BY DEF CallsOK
<1>2. CASE TransactionRefused(r) \/ TransactionAborted(r)
  <2>1. UNCHANGED <<orders, dispatched, funds, lost>>
    BY <1>2 DEF TransactionRefused, TransactionAborted
  <2>2. \E x : /\ req' = [req EXCEPT ![r] = x] /\ QuietCall(r, x) /\ ~ChargedCall(x)
    <3>1. CASE TransactionRefused(r)
      BY <3>1, Retried, Thrown DEF TransactionRefused
    <3>2. CASE TransactionAborted(r)
      <4>1. CASE Throw(r, FALSE)
        BY <4>1, Thrown
      <4>2. ASSUME NEW then \in Sequels, Refused(r, then), Proceed(r, then)
            PROVE  \E x : /\ req' = [req EXCEPT ![r] = x] /\ QuietCall(r, x) /\ ~ChargedCall(x)
        BY <1>1, <4>2, WasRefused, Proceeded
      <4> QED BY <3>2, <4>1, <4>2 DEF TransactionAborted
    <3> QED BY <1>2, <3>1, <3>2
  <2> QED BY <1>0, <2>1, <2>2 DEF StepKind, Quiet, NoMoney
<1>3. CASE TransactionCommits(r)
  <2> DEFINE x == [req[r] EXCEPT !.pc = "populate"]
  <2>1. req' = [req EXCEPT ![r] = x]
    BY <1>3, Gone DEF TransactionCommits
  <2>2. Stores(r, x)
    BY <1>0, <1>3 DEF TransactionCommits, Stores
  <2> QED BY <2>1, <2>2 DEF StepKind
<1> QED BY <1>2, <1>3

\* Steps without one, while the charge is taken, kept or given back.
LEMMA PlainKind ==
  ASSUME CallsOK, NEW r \in Requests,
         \/ Debit(r) \/ DebitUnrecorded(r) \/ Insert(r) \/ InsertRefused(r) \/ InsertFails(r)
         \/ Compensate(r) \/ CompensationFails(r)
  PROVE  StepKind(r)
<1>0. /\ UNCHANGED dispatched /\ req[r].pc \in {"debit", "insert", "compensate"}
  BY DEF Debit, DebitUnrecorded, Insert, InsertRefused, InsertFails, Compensate,
     CompensationFails
<1>1. QuietCall(r, req[r]) /\ req[r] \in Calls
  BY <1>0, QuietState
<1>2. CASE Debit(r)
  <2>1. UNCHANGED <<orders, lost>> /\ ~Charged(r)
    BY <1>2 DEF Debit, Charged
  <2>2. CASE Affordable(UserOf[r])
    <3> DEFINE x == [req[r] EXCEPT !.pc = "insert"]
    <3>1. req' = [req EXCEPT ![r] = x] /\ funds' = [funds EXCEPT ![UserOf[r]] = @ - Price]
      BY <1>2, <2>2, Gone DEF Debit
    <3>2. QuietCall(r, x) /\ ChargedCall(x)
      BY <1>0, <1>1 DEF Calls, QuietCall, ChargedCall
    <3> QED BY <1>0, <2>1, <2>2, <3>1, <3>2 DEF StepKind, Quiet, Takes
  <2>3. CASE ~Affordable(UserOf[r])
    <3>1. Throw(r, FALSE) /\ UNCHANGED funds
      BY <1>2, <2>3 DEF Debit
    <3>2. \E x : /\ req' = [req EXCEPT ![r] = x] /\ QuietCall(r, x) /\ ~ChargedCall(x)
      BY <3>1, Thrown
    <3> QED BY <1>0, <2>1, <3>1, <3>2 DEF StepKind, Quiet, NoMoney
  <2> QED BY <2>2, <2>3
<1>3. CASE DebitUnrecorded(r)
  <2>1. /\ UNCHANGED orders /\ ~Charged(r) /\ Affordable(UserOf[r])
        /\ funds' = [funds EXCEPT ![UserOf[r]] = @ - Price]
        /\ lost' = [lost EXCEPT ![UserOf[r]] = @ + 1]
        /\ \E retryable \in BOOLEAN : Throw(r, retryable)
    BY <1>3 DEF DebitUnrecorded, Charged
  <2>2. \E x : /\ req' = [req EXCEPT ![r] = x] /\ QuietCall(r, x) /\ ~ChargedCall(x)
    BY <2>1, Thrown
  <2> QED BY <1>0, <2>1, <2>2 DEF StepKind, Quiet, Takes
<1>4. CASE Insert(r)
  <2> DEFINE x == [req[r] EXCEPT !.pc = "populate"]
  <2>1. req' = [req EXCEPT ![r] = x]
    BY <1>4, Gone DEF Insert
  <2>2. Stores(r, x)
    BY <1>4 DEF Insert, Stores, Charged
  <2> QED BY <2>1, <2>2 DEF StepKind
<1>5. CASE InsertRefused(r) \/ InsertFails(r)
  <2>1. /\ UNCHANGED <<orders, funds, lost>> /\ Charged(r) /\ req[r].pc = "insert"
    BY <1>5 DEF InsertRefused, InsertFails, Charged
  <2>2. PICK then \in {"redraw", "lookup", "failed", "retry"} :
          /\ req' = [req EXCEPT ![r].pc = "compensate", ![r].then = then]
          /\ then = "redraw" => req[r].collisions < MaxCollisions
          /\ then = "lookup" => Held(r, req[r].collisions)
    <3>1. CASE InsertRefused(r)
      BY <1>1, <3>1, WasRefused DEF InsertRefused
    <3>2. CASE InsertFails(r)
      BY <3>2 DEF InsertFails
    <3> QED BY <1>5, <3>1, <3>2
  <2> DEFINE x == [req[r] EXCEPT !.pc = "compensate", !.then = then]
  <2>3. req' = [req EXCEPT ![r] = x]
    BY <2>2 DEF CallsOK
  <2>4. QuietCall(r, x) /\ ChargedCall(x)
    BY <1>1, <2>1, <2>2 DEF Calls, Sequels, QuietCall, ChargedCall
  <2> QED BY <1>0, <2>1, <2>3, <2>4 DEF StepKind, Quiet, NoMoney
<1>6. CASE Compensate(r) \/ CompensationFails(r)
  <2>1. /\ UNCHANGED orders /\ Charged(r) /\ req[r].pc = "compensate" /\ Proceed(r, req[r].then)
    BY <1>6 DEF Compensate, CompensationFails, Charged
  <2>2. /\ req[r].then \in {"redraw", "lookup", "failed", "retry"}
        /\ req[r].then = "redraw" => req[r].collisions < MaxCollisions
        /\ req[r].then = "lookup" => Held(r, req[r].collisions)
    BY <1>1, <2>1 DEF QuietCall
  <2>3. \E x : /\ req' = [req EXCEPT ![r] = x] /\ QuietCall(r, x) /\ ~ChargedCall(x)
    BY <2>1, <2>2, Proceeded
  <2>4. \/ funds' = [funds EXCEPT ![UserOf[r]] = @ + Price] /\ UNCHANGED lost
        \/ lost' = [lost EXCEPT ![UserOf[r]] = @ + 1] /\ UNCHANGED funds
    BY <1>6 DEF Compensate, CompensationFails
  <2> QED BY <1>0, <2>1, <2>3, <2>4 DEF StepKind, Quiet, Returns, Loses
<1> QED BY <1>2, <1>3, <1>4, <1>5, <1>6

\* The end of a request.
LEMMA LateKind ==
  ASSUME CallsOK, NEW r \in Requests, Conclude(r) \/ PopulateFails(r)
  PROVE  StepKind(r)
<1>1. CASE Conclude(r)
  <2> DEFINE x == [req[r] EXCEPT !.pc = "created"]
  <2>1. req' = [req EXCEPT ![r] = x]
    BY <1>1, Gone DEF Conclude
  <2>2. Dispatches(r, x)
    BY <1>1 DEF Conclude, Dispatches
  <2> QED BY <2>1, <2>2 DEF StepKind
<1>2. CASE PopulateFails(r)
  <2>1. /\ UNCHANGED <<orders, dispatched, funds, lost>> /\ ~Charged(r)
        /\ \E retryable \in BOOLEAN : Throw(r, retryable)
    BY <1>2 DEF PopulateFails, Charged
  <2>2. \E x : /\ req' = [req EXCEPT ![r] = x] /\ QuietCall(r, x) /\ ~ChargedCall(x)
    BY <2>1, Thrown
  <2> QED BY <2>1, <2>2 DEF StepKind, Quiet, NoMoney
<1> QED BY <1>1, <1>2

\* Every step of a request is of one of the kinds.
LEMMA StepKinds ==
  ASSUME CallsOK, NEW r \in Requests, Arrive(r) \/ Step(r)
  PROVE  StepKind(r)
  BY EarlyKind, TransactionKind, PlainKind, LateKind DEF Step

-----------------------------------------------------------------------------
(* Calls and orders *)

\* An answer that was owed an order is still owed one when there are more.
LEMMA QuietStays ==
  ASSUME orders \subseteq orders', NEW s \in Requests, QuietCall(s, req[s]), req'[s] = req[s]
  PROVE  QuietCall(s, req[s])'
  BY DEF QuietCall, Held, OrderOf

\* A call and its order number have one owner.
LEMMA OneOwner ==
  ASSUME StoreOK, NEW r \in Requests, NEW s \in Requests, LoudCall(r, req[r]),
         LoudCall(s, req[s]), req[r].number = req[s].number
  PROVE  r = s
  BY DEF StoreOK, LoudCall, Document

LEMMA QuietCalls ==
  ASSUME CallsOK, StoreOK, NEW r \in Requests, NEW x, req' = [req EXCEPT ![r] = x],
         QuietCall(r, x), UNCHANGED <<orders, dispatched>>
  PROVE  CallsOK' /\ StoreOK'
<1>1. StoreOK'
  BY DEF StoreOK, NumberTaken
<1>2. req' \in [Requests -> Calls]
  BY DEF CallsOK, QuietCall
<1>3. ASSUME NEW s \in Requests
      PROVE  QuietCall(s, req[s])' \/ LoudCall(s, req[s])'
  <2>1. CASE s = r
    <3>1. req'[s] = x
      BY <2>1 DEF CallsOK
    <3> QED BY <2>1, <3>1 DEF QuietCall, Held, OrderOf
  <2>2. CASE s # r
    <3>1. req'[s] = req[s]
      BY <2>2 DEF CallsOK
    <3>2. CASE QuietCall(s, req[s])
      BY <3>1, <3>2, QuietStays
    <3>3. CASE LoudCall(s, req[s])
      BY <3>1, <3>3 DEF LoudCall, Document
    <3> QED BY <3>2, <3>3 DEF CallsOK
  <2> QED BY <2>1, <2>2
<1> QED BY <1>1, <1>2, <1>3 DEF CallsOK

LEMMA StoredCalls ==
  ASSUME CallsOK, StoreOK, NEW r \in Requests, NEW x, req' = [req EXCEPT ![r] = x],
         Stores(r, x)
  PROVE  CallsOK' /\ StoreOK'
<1>1. /\ x = [req[r] EXCEPT !.pc = "populate"] /\ req[r] \in Calls
      /\ QuietCall(r, req[r]) /\ req[r].pc \in {"transaction", "insert"}
      /\ orders' = orders \cup {Document(r)} /\ dispatched' = dispatched
      /\ OrderOf(r) = {} /\ ~NumberTaken(req[r].number)
  BY QuietState DEF Stores, Accepted, Clash
<1>2. req[r].number \in Numbers /\ dispatched[req[r].number] = 0
  BY <1>1 DEF QuietCall, StoreOK
<1>3. x \in Calls /\ x.pc = "populate" /\ x.number = req[r].number
      /\ (x.then = "redraw" => x.collisions < MaxCollisions)
  BY <1>1 DEF Calls, QuietCall
<1>4. Document(r) \in OrderDocs
  BY <1>2 DEF Document, OrderDocs
<1>5. StoreOK'
  <2>1. orders' \subseteq OrderDocs /\ IsFiniteSet(orders')
    BY <1>1, <1>4, FS_AddElement DEF StoreOK
  <2>2. \A d, e \in orders' :
          UserOf[d.by] = UserOf[e.by] /\ KeyOf[d.by] = KeyOf[e.by] => d = e
    BY <1>1 DEF StoreOK, OrderOf, Document
  <2>3. \A d, e \in orders' : d.number = e.number => d = e
    BY <1>1 DEF StoreOK, NumberTaken, Document
  <2>4. \A n \in Numbers : dispatched'[n] <= 1 /\ (dispatched'[n] = 1 => NumberTaken(n)')
    BY <1>1 DEF StoreOK, NumberTaken
  <2> QED BY <1>1, <2>1, <2>2, <2>3, <2>4 DEF StoreOK
<1>6. ASSUME NEW s \in Requests
      PROVE  QuietCall(s, req[s])' \/ LoudCall(s, req[s])'
  <2>1. CASE s = r
    <3>1. req'[s] = x
      BY <2>1 DEF CallsOK
    <3>2. Document(s)' \in orders'
      BY <1>1, <1>3, <2>1, <3>1 DEF Document
    <3> QED BY <1>1, <1>2, <1>3, <2>1, <3>1, <3>2 DEF LoudCall
  <2>2. CASE s # r
    <3>1. req'[s] = req[s]
      BY <2>2 DEF CallsOK
    <3>2. CASE QuietCall(s, req[s])
      BY <1>1, <3>1, <3>2, QuietStays
    <3>3. CASE LoudCall(s, req[s])
      BY <1>1, <3>1, <3>3 DEF LoudCall, Document
    <3> QED BY <3>2, <3>3 DEF CallsOK
  <2> QED BY <2>1, <2>2
<1>7. req' \in [Requests -> Calls]
  BY <1>3 DEF CallsOK
<1> QED BY <1>5, <1>6, <1>7 DEF CallsOK

LEMMA DispatchedCalls ==
  ASSUME CallsOK, StoreOK, NEW r \in Requests, NEW x, req' = [req EXCEPT ![r] = x],
         Dispatches(r, x)
  PROVE  CallsOK' /\ StoreOK'
<1>1. /\ x = [req[r] EXCEPT !.pc = "created"] /\ req[r].pc = "populate"
      /\ dispatched' = IF r \in Automatic THEN [dispatched EXCEPT ![req[r].number] = @ + 1]
                       ELSE dispatched
      /\ orders' = orders /\ req[r] \in Calls /\ LoudCall(r, req[r])
  BY DEF Dispatches, CallsOK, QuietCall
<1>2. /\ req[r].number \in Numbers /\ dispatched[req[r].number] = 0
      /\ Document(r) \in orders /\ NumberTaken(req[r].number)
  BY <1>1 DEF LoudCall, NumberTaken, Document
<1>3. x \in Calls /\ x.pc = "created" /\ x.number = req[r].number
      /\ (x.then = "redraw" => x.collisions < MaxCollisions)
  BY <1>1 DEF Calls, LoudCall
<1>4. /\ dispatched' \in [Numbers -> Nat]
      /\ \A n \in Numbers : n # req[r].number => dispatched'[n] = dispatched[n]
      /\ dispatched'[req[r].number] = IF r \in Automatic THEN 1 ELSE 0
  BY <1>1, <1>2 DEF StoreOK
<1>5. StoreOK'
  BY <1>1, <1>2, <1>4 DEF StoreOK, NumberTaken
<1>6. ASSUME NEW s \in Requests
      PROVE  QuietCall(s, req[s])' \/ LoudCall(s, req[s])'
  <2>1. CASE s = r
    <3>1. req'[s] = x
      BY <2>1 DEF CallsOK
    <3>2. Document(s)' \in orders'
      BY <1>1, <1>2, <1>3, <2>1, <3>1 DEF Document
    <3> QED BY <1>1, <1>2, <1>3, <1>4, <2>1, <3>1, <3>2 DEF LoudCall
  <2>2. CASE s # r
    <3>1. req'[s] = req[s]
      BY <2>2 DEF CallsOK
    <3>2. CASE QuietCall(s, req[s])
      BY <1>1, <3>1, <3>2, QuietStays
    <3>3. CASE LoudCall(s, req[s])
      <4>1. req[s].number # req[r].number
        BY <1>1, <2>2, <3>3, OneOwner
      <4> QED BY <1>1, <1>4, <3>1, <3>3, <4>1 DEF LoudCall, Document
    <3> QED BY <3>2, <3>3 DEF CallsOK
  <2> QED BY <2>1, <2>2
<1>7. req' \in [Requests -> Calls]
  BY <1>3 DEF CallsOK
<1> QED BY <1>5, <1>6, <1>7 DEF CallsOK

LEMMA CallsKept ==
  ASSUME CallsOK, StoreOK, NEW r \in Requests, StepKind(r)
  PROVE  CallsOK' /\ StoreOK'
<1>1. PICK x : req' = [req EXCEPT ![r] = x] /\ (Quiet(r, x) \/ Stores(r, x) \/ Dispatches(r, x))
  BY DEF StepKind
<1>2. CASE Quiet(r, x)
  BY <1>1, <1>2, QuietCalls DEF Quiet
<1> QED BY <1>1, <1>2, StoredCalls, DispatchedCalls

-----------------------------------------------------------------------------
(* Money *)

LEMMA Finite ==
  ASSUME StoreOK, NEW u
  PROVE  /\ IsFiniteSet(ChargedFor(u)) /\ Cardinality(ChargedFor(u)) \in Nat
         /\ IsFiniteSet(OrdersOf(u)) /\ Cardinality(OrdersOf(u)) \in Nat
<1>1. IsFiniteSet(ChargedFor(u))
  BY RequestsAssumption, FS_Subset DEF ChargedFor
<1>2. IsFiniteSet(OrdersOf(u))
  BY FS_Subset DEF OrdersOf, StoreOK
<1> QED BY <1>1, <1>2, FS_CardinalityType

\* The charges a customer's requests hold follow the request that moves.
LEMMA Recount ==
  ASSUME CallsOK, StoreOK, NEW r \in Requests, NEW x, req' = [req EXCEPT ![r] = x], NEW u
  PROVE  Cardinality(ChargedFor(u))' = Cardinality(ChargedFor(u))
           + (IF u = UserOf[r] /\ ChargedCall(x) /\ ~Charged(r) THEN 1 ELSE 0)
           - (IF u = UserOf[r] /\ ~ChargedCall(x) /\ Charged(r) THEN 1 ELSE 0)
<1>1. req'[r] = x /\ \A s \in Requests : s # r => req'[s] = req[s]
  BY DEF CallsOK
<1>2. IsFiniteSet(ChargedFor(u)) /\ Cardinality(ChargedFor(u)) \in Nat
  BY Finite
<1>3. CASE u = UserOf[r] /\ ChargedCall(x) /\ ~Charged(r)
  <2>1. ChargedFor(u)' = ChargedFor(u) \cup {r} /\ r \notin ChargedFor(u)
    BY <1>1, <1>3 DEF ChargedFor, Charged, ChargedCall
  <2> QED BY <1>2, <1>3, <2>1, FS_AddElement
<1>4. CASE u = UserOf[r] /\ ~ChargedCall(x) /\ Charged(r)
  <2>1. ChargedFor(u)' = ChargedFor(u) \ {r} /\ r \in ChargedFor(u)
    BY <1>1, <1>4 DEF ChargedFor, Charged, ChargedCall
  <2> QED BY <1>2, <1>4, <2>1, FS_RemoveElement
<1>5. CASE u # UserOf[r] \/ (ChargedCall(x) <=> Charged(r))
  <2>1. ChargedFor(u)' = ChargedFor(u)
    BY <1>1, <1>5 DEF ChargedFor, Charged, ChargedCall
  <2> QED BY <1>2, <1>5, <2>1
<1> QED BY <1>3, <1>4, <1>5

LEMMA OneMore ==
  ASSUME NEW n \in Nat
  PROVE  Price * (n + 1) = Price * n + Price /\ Price * n \in Nat
  BY MoneyAssumption

\* What holds when the price moves between the funds and the charges.
LEMMA Balanced ==
  ASSUME MoneyOK, StoreOK, NEW c \in Users,
         funds' \in [Users -> Nat], lost' \in [Users -> Nat],
         \A u \in Users \ {c} : funds'[u] = funds[u] /\ Outstanding(u)' = Outstanding(u),
         \/ funds'[c] = funds[c] /\ Outstanding(c)' = Outstanding(c)
         \/ funds'[c] = funds[c] - Price /\ Outstanding(c)' = Outstanding(c) + 1
         \/ funds'[c] = funds[c] + Price /\ Outstanding(c)' = Outstanding(c) - 1,
         Outstanding(c)' \in Nat
  PROVE  MoneyOK'
<1>1. Outstanding(c) \in Nat
  BY Finite DEF Outstanding, MoneyOK
<1>2. funds'[c] + Price * (Outstanding(c)') = Opening
  <2>1. funds[c] + Price * Outstanding(c) = Opening /\ funds[c] \in Nat /\ funds'[c] \in Nat
    BY DEF MoneyOK
  <2>2. CASE funds'[c] = funds[c] /\ Outstanding(c)' = Outstanding(c)
    BY <2>1, <2>2
  <2>3. CASE funds'[c] = funds[c] - Price /\ Outstanding(c)' = Outstanding(c) + 1
    BY <1>1, <2>1, <2>3, OneMore, MoneyAssumption
  <2>4. CASE funds'[c] = funds[c] + Price /\ Outstanding(c)' = Outstanding(c) - 1
    <3>1. Outstanding(c) = Outstanding(c)' + 1
      BY <1>1, <2>4
    <3>2. Price * Outstanding(c) = Price * (Outstanding(c)') + Price
      BY <3>1, OneMore
    <3> QED BY <2>1, <2>4, <3>2, OneMore, MoneyAssumption
  <2> QED BY <2>2, <2>3, <2>4
<1>3. \A u \in Users \ {c} : funds'[u] + Price * (Outstanding(u)') = Opening
  BY DEF MoneyOK
<1> QED BY <1>2, <1>3 DEF MoneyOK

\* A step that leaves the orders alone.
LEMMA QuietMoney ==
  ASSUME IInv, NEW r \in Requests, NEW x, req' = [req EXCEPT ![r] = x], Quiet(r, x)
  PROVE  MoneyOK'
<1> DEFINE c == UserOf[r]
<1>0. CallsOK /\ StoreOK /\ MoneyOK /\ c \in Users
  BY InputsAssumption DEF IInv
<1>1. /\ funds \in [Users -> Nat] /\ lost \in [Users -> Nat]
      /\ Price \in Nat \ {0} /\ (Affordable(c) => funds[c] >= Price)
  BY <1>0, MoneyAssumption DEF MoneyOK, Affordable
<1>2. \A u \in Users :
        /\ Cardinality(ChargedFor(u)) \in Nat /\ Cardinality(OrdersOf(u)) \in Nat
        /\ Cardinality(OrdersOf(u))' = Cardinality(OrdersOf(u))
        /\ Cardinality(ChargedFor(u))' = Cardinality(ChargedFor(u))
             + (IF u = c /\ ChargedCall(x) /\ ~Charged(r) THEN 1 ELSE 0)
             - (IF u = c /\ ~ChargedCall(x) /\ Charged(r) THEN 1 ELSE 0)
  BY <1>0, Finite, Recount DEF Quiet, OrdersOf
<1>3. Cardinality(ChargedFor(c))' \in Nat
  BY <1>0, QuietCalls, RequestsAssumption, FS_Subset, FS_CardinalityType DEF ChargedFor
<1>4. CASE NoMoney(r, x)
  <2>1. \A u \in Users : Outstanding(u)' = Outstanding(u) /\ funds'[u] = funds[u]
    BY <1>1, <1>2, <1>4 DEF NoMoney, Outstanding
  <2> QED BY <1>0, <1>4, <2>1 DEF NoMoney, MoneyOK
<1>5. CASE Takes(r, x)
  <2>1. /\ funds' \in [Users -> Nat] /\ lost' \in [Users -> Nat]
        /\ funds'[c] = funds[c] - Price
        /\ \A u \in Users \ {c} : funds'[u] = funds[u] /\ lost'[u] = lost[u]
    BY <1>0, <1>1, <1>5 DEF Takes
  <2>2. Cardinality(ChargedFor(c))' + lost'[c] = Cardinality(ChargedFor(c)) + lost[c] + 1
    BY <1>0, <1>1, <1>2, <1>5 DEF Takes
  <2>3. /\ Outstanding(c)' = Outstanding(c) + 1 /\ Outstanding(c)' \in Nat
    <3>1. /\ Cardinality(ChargedFor(c)) \in Nat /\ Cardinality(OrdersOf(c)) \in Nat
          /\ Cardinality(OrdersOf(c))' = Cardinality(OrdersOf(c))
          /\ lost[c] \in Nat /\ lost'[c] \in Nat
      BY <1>0, <1>1, <1>2, <2>1
    <3> QED BY <1>3, <2>2, <3>1 DEF Outstanding
  <2>4. \A u \in Users \ {c} : Outstanding(u)' = Outstanding(u)
    BY <1>2, <2>1 DEF Outstanding
  <2> QED BY <1>0, <2>1, <2>3, <2>4, Balanced
<1>6. CASE Returns(r, x)
  <2>1. /\ funds' \in [Users -> Nat] /\ lost' = lost /\ funds'[c] = funds[c] + Price
        /\ \A u \in Users \ {c} : funds'[u] = funds[u]
    BY <1>0, <1>1, <1>6 DEF Returns
  <2>2. Cardinality(ChargedFor(c))' = Cardinality(ChargedFor(c)) - 1
    BY <1>0, <1>2, <1>6 DEF Returns
  <2>3. /\ Outstanding(c)' = Outstanding(c) - 1 /\ Outstanding(c)' \in Nat
    BY <1>0, <1>1, <1>2, <1>3, <2>1, <2>2 DEF Outstanding
  <2>4. \A u \in Users \ {c} : Outstanding(u)' = Outstanding(u)
    BY <1>2, <2>1 DEF Outstanding
  <2> QED BY <1>0, <1>1, <2>1, <2>3, <2>4, Balanced
<1>7. CASE Loses(r, x)
  <2>1. /\ funds' = funds /\ lost' \in [Users -> Nat] /\ lost'[c] = lost[c] + 1
        /\ \A u \in Users \ {c} : lost'[u] = lost[u]
    BY <1>0, <1>1, <1>7 DEF Loses
  <2>2. Cardinality(ChargedFor(c))' = Cardinality(ChargedFor(c)) - 1
    BY <1>0, <1>2, <1>7 DEF Loses
  <2>3. /\ Outstanding(c)' = Outstanding(c) /\ Outstanding(c)' \in Nat
    BY <1>0, <1>1, <1>2, <1>3, <2>1, <2>2 DEF Outstanding
  <2>4. \A u \in Users \ {c} : Outstanding(u)' = Outstanding(u)
    BY <1>2, <2>1 DEF Outstanding
  <2> QED BY <1>0, <1>1, <2>1, <2>3, <2>4, Balanced
<1> QED BY <1>4, <1>5, <1>6, <1>7 DEF Quiet

\* A step that stores an order: its charge becomes the order.
LEMMA StoredMoney ==
  ASSUME IInv, NEW r \in Requests, NEW x, req' = [req EXCEPT ![r] = x], Stores(r, x)
  PROVE  MoneyOK'
<1> DEFINE c == UserOf[r]
<1>0. CallsOK /\ StoreOK /\ MoneyOK /\ c \in Users
  BY InputsAssumption DEF IInv
<1>1. /\ funds \in [Users -> Nat] /\ lost \in [Users -> Nat] /\ lost' = lost
      /\ Price \in Nat \ {0} /\ (Affordable(c) => funds[c] >= Price)
      /\ orders' = orders \cup {Document(r)} /\ Document(r) \notin orders
      /\ Document(r).by = r /\ ~ChargedCall(x)
  BY <1>0, MoneyAssumption
  DEF MoneyOK, Affordable, Stores, Accepted, NumberTaken, Document, ChargedCall, CallsOK, Calls
<1>2. \A u \in Users :
        /\ Cardinality(ChargedFor(u)) \in Nat /\ Cardinality(OrdersOf(u)) \in Nat
        /\ Cardinality(ChargedFor(u))' = Cardinality(ChargedFor(u))
             - (IF u = c /\ Charged(r) THEN 1 ELSE 0)
  <2> SUFFICES ASSUME NEW u \in Users
               PROVE  /\ Cardinality(ChargedFor(u)) \in Nat /\ Cardinality(OrdersOf(u)) \in Nat
                      /\ Cardinality(ChargedFor(u))' = Cardinality(ChargedFor(u))
                           - (IF u = c /\ Charged(r) THEN 1 ELSE 0)
    OBVIOUS
  <2>1. Cardinality(ChargedFor(u)) \in Nat /\ Cardinality(OrdersOf(u)) \in Nat
    BY <1>0, Finite
  <2>2. Cardinality(ChargedFor(u))' = Cardinality(ChargedFor(u))
          + (IF u = c /\ ChargedCall(x) /\ ~Charged(r) THEN 1 ELSE 0)
          - (IF u = c /\ ~ChargedCall(x) /\ Charged(r) THEN 1 ELSE 0)
    BY <1>0, Recount
  <2> QED BY <1>1, <2>1, <2>2
<1>3. Cardinality(OrdersOf(c))' = Cardinality(OrdersOf(c)) + 1
  <2>1. OrdersOf(c)' = OrdersOf(c) \cup {Document(r)} /\ Document(r) \notin OrdersOf(c)
    BY <1>1 DEF OrdersOf
  <2> QED BY <1>0, <2>1, Finite, FS_AddElement
<1>4. \A u \in Users \ {c} : Outstanding(u)' = Outstanding(u)
  <2>1. \A u \in Users \ {c} : OrdersOf(u)' = OrdersOf(u)
    BY <1>1 DEF OrdersOf
  <2> QED BY <1>1, <1>2, <2>1 DEF Outstanding
<1>5. CASE Charged(r)
  <2>1. funds' = funds
    BY <1>5 DEF Stores
  <2>2. Outstanding(c)' = Outstanding(c) /\ Outstanding(c)' \in Nat
    BY <1>0, <1>1, <1>2, <1>3, <1>5, Finite DEF Outstanding
  <2> QED BY <1>0, <1>1, <1>4, <2>1, <2>2, Balanced
<1>6. CASE ~Charged(r)
  <2>1. /\ funds' \in [Users -> Nat] /\ funds'[c] = funds[c] - Price
        /\ \A u \in Users \ {c} : funds'[u] = funds[u]
    BY <1>0, <1>1, <1>6 DEF Stores
  <2>2. Outstanding(c)' = Outstanding(c) + 1 /\ Outstanding(c)' \in Nat
    BY <1>0, <1>1, <1>2, <1>3, <1>6, Finite DEF Outstanding
  <2> QED BY <1>0, <1>1, <1>4, <2>1, <2>2, Balanced
<1> QED BY <1>5, <1>6

LEMMA DispatchedMoney ==
  ASSUME IInv, NEW r \in Requests, NEW x, req' = [req EXCEPT ![r] = x], Dispatches(r, x)
  PROVE  MoneyOK'
<1>1. ~ChargedCall(x) /\ ~Charged(r) /\ CallsOK /\ StoreOK /\ MoneyOK
      /\ UNCHANGED <<orders, funds, lost>>
  BY DEF Dispatches, ChargedCall, Charged, IInv, CallsOK, Calls
<1>2. \A u \in Users : Cardinality(ChargedFor(u))' = Cardinality(ChargedFor(u))
  <2> SUFFICES ASSUME NEW u \in Users
               PROVE  Cardinality(ChargedFor(u))' = Cardinality(ChargedFor(u))
    OBVIOUS
  <2>1. Cardinality(ChargedFor(u)) \in Nat
    BY <1>1, Finite
  <2>2. Cardinality(ChargedFor(u))' = Cardinality(ChargedFor(u))
          + (IF u = UserOf[r] /\ ChargedCall(x) /\ ~Charged(r) THEN 1 ELSE 0)
          - (IF u = UserOf[r] /\ ~ChargedCall(x) /\ Charged(r) THEN 1 ELSE 0)
    BY <1>1, Recount
  <2> QED BY <1>1, <2>1, <2>2
<1> QED BY <1>1, <1>2 DEF MoneyOK, Outstanding, OrdersOf

LEMMA MoneyKept ==
  ASSUME IInv, NEW r \in Requests, StepKind(r)
  PROVE  MoneyOK'
  BY QuietMoney, StoredMoney, DispatchedMoney DEF StepKind

-----------------------------------------------------------------------------
(* Every step keeps the invariant *)

LEMMA InvInit == Init => IInv
<1> SUFFICES ASSUME Init PROVE IInv
  OBVIOUS
<1>1. NewCall \in Calls /\ NewCall.pc = "idle" /\ NewCall.then = "none"
  BY BoundAssumption DEF NewCall, Calls, Sequels
<1>2. CallsOK
  BY <1>1 DEF Init, CallsOK, QuietCall
<1>3. StoreOK
  BY FS_EmptySet DEF Init, StoreOK
<1>4. MoneyOK
  <2>1. \A u \in Users : OrdersOf(u) = {} /\ ChargedFor(u) = {}
    BY <1>1 DEF Init, OrdersOf, ChargedFor, Charged
  <2>2. \A u \in Users : Outstanding(u) = 0
    BY <2>1, FS_EmptySet DEF Init, Outstanding
  <2> QED BY <2>2, MoneyAssumption DEF Init, MoneyOK
<1>5. BoundsOK
  BY BoundAssumption DEF Init, BoundsOK
<1> QED BY <1>2, <1>3, <1>4, <1>5 DEF IInv

\* A step of a request counts at most one failure.
LEMMA BoundsKept ==
  ASSUME BoundsOK, NEW r \in Requests, Arrive(r) \/ Step(r)
  PROVE  BoundsOK'
<1>1. UNCHANGED <<deployment, crashes>> /\ (UNCHANGED faults \/ Fails)
  BY DEF Arrive, Step, CheckKey, DrawNumber, Reject, TransactionRefused, TransactionAborted,
     TransactionCommits, Debit, DebitUnrecorded, Insert, InsertRefused, InsertFails,
     Compensate, CompensationFails, Lookup, Conclude, PopulateFails
<1> QED BY <1>1, BoundAssumption DEF BoundsOK, Fails

\* A crash turns the charges of the requests it stops into lost ones.
LEMMA CrashKept ==
  ASSUME IInv, Crash
  PROVE  IInv'
<1> DEFINE gone == [NewCall EXCEPT !.pc = "dead"]
<1>0. CallsOK /\ StoreOK /\ MoneyOK /\ BoundsOK
  BY DEF IInv
<1>1. /\ UNCHANGED <<deployment, funds, orders, dispatched, faults>>
      /\ \A r \in Requests :
           req'[r] = IF req[r].pc = "idle" \/ req[r].pc \in Finished THEN req[r] ELSE gone
      /\ lost' = [u \in Users |-> lost[u] + Cardinality(ChargedFor(u))]
  BY DEF Crash, ChargedFor
<1>2. gone \in Calls /\ gone.pc = "dead" /\ gone.then = "none"
  <2>1. NewCall \in Calls /\ NewCall.then = "none"
    BY BoundAssumption DEF NewCall, Calls, Sequels
  <2> QED BY <2>1 DEF Calls
<1>3. CallsOK'
  <2>1. req' \in [Requests -> Calls]
    BY <1>0, <1>2 DEF Crash, CallsOK
  <2>2. ASSUME NEW s \in Requests
        PROVE  QuietCall(s, req[s])' \/ LoudCall(s, req[s])'
    <3>1. CASE req'[s] = gone
      BY <1>2, <3>1 DEF QuietCall
    <3>2. CASE req'[s] = req[s]
      <4>1. CASE QuietCall(s, req[s])
        BY <1>1, <3>2, <4>1, QuietStays
      <4>2. CASE LoudCall(s, req[s])
        BY <1>1, <3>2, <4>2 DEF LoudCall, Document
      <4> QED BY <1>0, <4>1, <4>2 DEF CallsOK
    <3> QED BY <1>1, <3>1, <3>2
  <2> QED BY <2>1, <2>2 DEF CallsOK
<1>4. StoreOK'
  BY <1>0, <1>1 DEF StoreOK, NumberTaken
<1>5. MoneyOK'
  <2>1. \A u \in Users : ChargedFor(u)' = {}
    BY <1>1, <1>2 DEF ChargedFor, Charged, Finished
  <2>2. \A u \in Users : Cardinality(ChargedFor(u)) \in Nat /\ Cardinality(OrdersOf(u)) \in Nat
    BY <1>0, Finite
  <2>3. \A u \in Users : Cardinality(ChargedFor(u))' = 0
    BY <2>1, FS_EmptySet
  <2>4. lost' \in [Users -> Nat]
    BY <1>0, <1>1, <2>2 DEF MoneyOK
  <2>5. \A u \in Users : Outstanding(u)' = Outstanding(u)
    <3> SUFFICES ASSUME NEW u \in Users PROVE Outstanding(u)' = Outstanding(u)
      OBVIOUS
    <3>1. /\ Cardinality(OrdersOf(u))' = Cardinality(OrdersOf(u))
          /\ lost'[u] = lost[u] + Cardinality(ChargedFor(u)) /\ lost[u] \in Nat
      BY <1>0, <1>1 DEF OrdersOf, MoneyOK
    <3> QED BY <2>2, <2>3, <3>1 DEF Outstanding
  <2> QED BY <1>0, <1>1, <2>4, <2>5 DEF MoneyOK
<1>6. BoundsOK'
  BY <1>0, <1>1, BoundAssumption DEF Crash, BoundsOK
<1> QED BY <1>3, <1>4, <1>5, <1>6 DEF IInv

LEMMA InvStutters ==
  ASSUME IInv, UNCHANGED vars
  PROVE  IInv'
<1>1. CallsOK' /\ StoreOK'
  BY DEF vars, IInv, CallsOK, StoreOK, QuietCall, LoudCall, Held, OrderOf, Document, NumberTaken
<1>2. MoneyOK' /\ BoundsOK'
  BY DEF vars, IInv, MoneyOK, BoundsOK, Outstanding, OrdersOf, ChargedFor, Charged
<1> QED BY <1>1, <1>2 DEF IInv

LEMMA InvNext == IInv /\ [Next]_vars => IInv'
<1> SUFFICES ASSUME IInv, [Next]_vars PROVE IInv'
  OBVIOUS
<1>1. ASSUME NEW r \in Requests, Arrive(r) \/ Step(r)
      PROVE  IInv'
  BY <1>1, StepKinds, CallsKept, MoneyKept, BoundsKept DEF IInv
<1>2. CASE Crash
  BY <1>2, CrashKept
<1>3. CASE UNCHANGED vars
  BY <1>3, InvStutters
<1> QED BY <1>1, <1>2, <1>3 DEF Next, AllFinished

-----------------------------------------------------------------------------
(* The theorems *)

\* In every reachable state the invariant holds.
LEMMA Inductive == Spec => []IInv
  BY InvInit, InvNext, PTL DEF Spec

\* createOrder keeps every variable in its type: no balance goes below zero.
THEOREM TypeCorrect == Spec => []TypeOK
<1>1. IInv => TypeOK
  BY InvMeans
<1> QED BY <1>1, Inductive, PTL

\* However debits, insertions, compensations, their failures and crashes
\* interleave, every charge taken from a customer is a stored order, a charge
\* of an attempt under way, or one that a failure or a crash lost.
THEOREM ChargesExplained == Spec => []FundsExplained
<1>1. IInv => FundsExplained
  BY InvMeans
<1> QED BY <1>1, Inductive, PTL

\* However often an attempt is repeated, by the client or by the outer catch
\* block, one request stores one order, and so do the requests with its key.
THEOREM OneOrderEver == Spec => []OneOrder
<1>1. IInv => OneOrder
  BY InvMeans
<1> QED BY <1>1, Inductive, PTL

\* A request answered with success has its order, or drew taken numbers only.
THEOREM AnswersAreHonest == Spec => []HonestAnswer
<1>1. IInv => HonestAnswer
  BY InvMeans
<1> QED BY <1>1, Inductive, PTL

\* executeOrder is called once at most for an order, and never for one that
\* is not stored.
THEOREM DispatchedOnceEver == Spec => []DispatchedOnce
<1>1. IInv => DispatchedOnce
  BY InvMeans
<1> QED BY <1>1, Inductive, PTL
=============================================================================
