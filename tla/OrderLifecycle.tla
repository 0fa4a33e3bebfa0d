--------------------------- MODULE OrderLifecycle ---------------------------
(***************************************************************************)
(* The life of an order after it was created and paid: fulfilment by       *)
(* executeOrder, polling by pollProcessingOrders and                       *)
(* processOrderStatusResult, the refund paths (refundFailedOrder,          *)
(* processOrderRefund, markOrderAsFailed) and the administrators'          *)
(* completeOrder and markOrderAsCompleted, all running concurrently in one *)
(* Node process over MongoDB.                                              *)
(*                                                                         *)
(* A step is what runs between two awaits on the database or a provider.   *)
(* A transaction is one step: its snapshot reads and its writes commit     *)
(* together, or the database refuses it (a write conflict) and nothing is  *)
(* changed.  Documents that code holds in memory across an await are part  *)
(* of the state of the actor that holds them.                              *)
(***************************************************************************)
EXTENDS Integers, FiniteSets

CONSTANTS
  Orders,     \* the orders
  Manual,     \* orders of manual products: never dispatched to a provider
  Quota,      \* orders paid from a quantity quota instead of money
  Charge,     \* chargedAmount of a money order, in cents
  Qty,        \* quantity of every order; also the price of a quota order
  Unit,       \* cents in the unit that Math.floor rounds a partial refund to
  MaxRetry,   \* MAX_RETRY_COUNT
  Admins,     \* identities of administrators' calls, each used once
  MaxFaults,  \* bound: failing database operations
  MaxCrashes, \* bound: crashes of the process
  Outages,    \* bound: whether the provider is switched off and on
  NoOrder     \* "no order", outside Orders

ASSUME OrdersAssumption == Manual \subseteq Orders /\ Quota \subseteq Orders /\ NoOrder \notin Orders
ASSUME MoneyAssumption  == /\ Charge \in Nat \ {0}
                           /\ Qty \in Nat \ {0}
                           /\ Unit \in Nat \ {0}
ASSUME AdminsAssumption == IsFiniteSet(Admins)
ASSUME RetryAssumption  == MaxRetry \in Nat \ {0}
ASSUME BoundAssumption  == MaxFaults \in Nat /\ MaxCrashes \in Nat /\ Outages \in BOOLEAN

VARIABLES
  status,      \* Order.status
  refunded,    \* Order.refunded (Order.refundedAt is set and cleared with it)
  retry,       \* Order.retryCount
  hasPid,      \* Order.providerOrderId is not null
  paid,        \* net amount taken from the customer's wallet or quota for it
  provider,    \* the provider's own state of the order
  active,      \* Provider.isActive
  exec,        \* the executeOrder call of each order
  poll,        \* the polling job; its _running lock admits a single run
  admin,       \* the administrators' calls
  faults,      \* bound: failing operations so far
  crashes,     \* bound: crashes so far
  interrupted  \* history: orders whose refund stopped between flag and money

vars == <<status, refunded, retry, hasPid, paid, provider, active, exec, poll,
          admin, faults, crashes, interrupted>>
document == <<status, refunded, retry, hasPid>>
services == <<provider, active>>
bounds   == <<faults, crashes, interrupted>>

Statuses == {"PENDING", "PROCESSING", "COMPLETED", "CANCELED", "PARTIAL",
             "FAILED", "MANUAL_REVIEW"}
Terminal == {"completed", "partial", "canceled", "failed"}
ProviderStates == {"none", "pending"} \cup Terminal

\* What placeOrder gives executeOrder: a provider status; a rejection, which
\* is also what an adapter turns a network error into; or a thrown transient
\* error, after which the provider may or may not have the order.
Results == {"pending", "rejected", "lost"} \cup Terminal

Price(o) == IF o \in Quota THEN Qty ELSE Charge

NoResult == "pending"
IdleExec == [pc |-> "done", result |-> NoResult, guarded |-> FALSE]
IdlePoll == [pc |-> "idle", todo |-> {}, count |-> [o \in Orders |-> 0],
             answer |-> [o \in Orders |-> "none"], current |-> NoOrder, remains |-> 0]

ExecStates  == [pc: {"spawned", "read", "got", "cas", "refunding", "tail", "done"},
                result: Results, guarded: BOOLEAN]
PollStates  == [pc: {"idle", "query", "apply", "cas", "refunding", "transaction"},
                todo: SUBSET Orders, count: [Orders -> Nat],
                answer: [Orders -> ProviderStates],
                current: Orders \cup {NoOrder}, remains: 0..Qty]
AdminStates == [pc: {"idle", "debit", "save", "done", "dead"},
                order: Orders \cup {NoOrder}, sawRefunded: BOOLEAN, debited: BOOLEAN]

\* What an actor works on is an order, and a call that has not begun has
\* seen and debited nothing.
ActorsOK ==
  /\ poll.pc \in {"cas", "refunding", "transaction"} => poll.current \in Orders
  /\ \A a \in Admins :
       /\ admin[a].pc \in {"debit", "save"} => admin[a].order \in Orders
       /\ admin[a].pc \in {"idle", "debit"} => ~admin[a].debited
       /\ admin[a].pc = "idle" => ~admin[a].sawRefunded

TypeOK ==
  /\ status \in [Orders -> Statuses]
  /\ refunded \in [Orders -> BOOLEAN]
  /\ retry \in [Orders -> Nat]
  /\ hasPid \in [Orders -> BOOLEAN]
  /\ paid \in [Orders -> Int]
  /\ provider \in [Orders -> ProviderStates]
  /\ active \in BOOLEAN
  /\ exec \in [Orders -> ExecStates]
  /\ poll \in PollStates
  /\ admin \in [Admins -> AdminStates]
  /\ faults \in Nat
  /\ crashes \in Nat
  /\ interrupted \subseteq Orders
  /\ ActorsOK

\* createOrder has committed: the customer has paid, and an automatic order
\* has been handed to executeOrder.
Init ==
  /\ status = [o \in Orders |-> IF o \in Manual THEN "PENDING" ELSE "PROCESSING"]
  /\ refunded = [o \in Orders |-> FALSE]
  /\ retry = [o \in Orders |-> 0]
  /\ hasPid = [o \in Orders |-> FALSE]
  /\ paid = [o \in Orders |-> Price(o)]
  /\ provider = [o \in Orders |-> "none"]
  /\ active = TRUE
  /\ exec = [o \in Orders |-> IF o \in Manual THEN IdleExec
                              ELSE [IdleExec EXCEPT !.pc = "spawned"]]
  /\ poll = IdlePoll
  /\ admin = [a \in Admins |-> [pc |-> "idle", order |-> NoOrder,
                                sawRefunded |-> FALSE, debited |-> FALSE]]
  /\ faults = 0
  /\ crashes = 0
  /\ interrupted = {}

-----------------------------------------------------------------------------
(* The two refund procedures.                                              *)

RefundAmount_ShareOnly(o, remains) ==
  IF o \in Quota THEN remains ELSE ((remains * Charge) \div (Qty * Unit)) * Unit

\* What a PARTIAL order gives back for its undelivered units.  The share of
\* a money order is rounded down to whole units of the currency; none or all
\* of the quantity undelivered means a full refund.
RefundAmount(o, remains) ==
  IF remains \in 1..(Qty - 1)
  THEN IF o \in Quota THEN remains ELSE ((remains * Charge) \div (Qty * Unit)) * Unit
  ELSE Price(o)

Repay(o, amount) == paid' = [paid EXCEPT ![o] = @ - amount]

MarkRefunded_Blindly(o, yes, no) ==
  /\ yes /\ refunded' = [refunded EXCEPT ![o] = TRUE]

\* refundFailedOrder, first step: compare-and-swap of the refunded flag.
MarkRefunded(o, yes, no) ==
  IF refunded[o] THEN no /\ UNCHANGED refunded
                 ELSE yes /\ refunded' = [refunded EXCEPT ![o] = TRUE]

\* ... second step: the wallet transaction commits.  A quota order has no
\* amount to pay back: the flag is cleared again.
PayRefund(o) ==
  IF o \in Quota
  THEN refunded' = [refunded EXCEPT ![o] = FALSE] /\ UNCHANGED paid
  ELSE Repay(o, Charge) /\ UNCHANGED refunded

LoseRefund_KeepsFlag(o, pc) ==
  /\ faults < MaxFaults
  /\ faults' = faults + 1
  /\ UNCHANGED <<refunded, interrupted>>

\* A refund that throws.  Before the compare-and-swap nothing has changed.
\* When the transaction aborts, by a write conflict on the wallet for one,
\* the flag is cleared; it stays when that write fails too, or when there was
\* no session to start the transaction in.
LoseRefund(o, pc) ==
  /\ faults < MaxFaults
  /\ faults' = faults + 1
  /\ \/ pc = "cas" /\ UNCHANGED <<refunded, interrupted>>
     \/ /\ pc = "refunding"
        /\ refunded' = [refunded EXCEPT ![o] = FALSE]
        /\ UNCHANGED interrupted
     \/ /\ pc = "refunding"
        /\ interrupted' = interrupted \cup {o}
        /\ UNCHANGED refunded

-----------------------------------------------------------------------------
(* executeOrder.                                                           *)

ExecGoto(o, pc) == exec' = [exec EXCEPT ![o].pc = pc]

\* It reads the order and goes on only if it is PROCESSING.
ExecStart(o) ==
  /\ exec[o].pc = "spawned"
  /\ ExecGoto(o, IF status[o] = "PROCESSING" THEN "read" ELSE "done")
  /\ UNCHANGED <<document, paid, services, poll, admin, bounds>>

\* The product has no usable provider: FAILED, then the refund.
ExecUnresolved(o) ==
  /\ exec[o].pc = "read"
  /\ status' = [status EXCEPT ![o] = "FAILED"]
  /\ ExecGoto(o, "cas")
  /\ UNCHANGED <<refunded, retry, hasPid, paid, services, poll, admin, bounds>>

\* The call to the provider.
ExecPlace(o) ==
  /\ exec[o].pc = "read"
  /\ \E r \in Results :
       /\ exec' = [exec EXCEPT ![o] = [pc |-> "got", result |-> r, guarded |-> FALSE]]
       /\ \E p \in IF r \in {"rejected", "lost"} THEN {"none", "pending"} ELSE {r} :
            provider' = [provider EXCEPT ![o] = p]
  /\ UNCHANGED <<document, paid, active, poll, admin, bounds>>

PlacedStatus_Unmapped(o, result) ==
  IF result \in {"rejected", "failed"} THEN "FAILED"
  ELSE IF result \in {"pending", "lost"} THEN status[o] ELSE result

\* The status that the interpretation of a placement writes.  A pending
\* placement leaves Order.status alone; everything that is neither FAILED
\* nor PROCESSING is taken as completed.
PlacedStatus(o, result) ==
  IF result \in {"rejected", "failed"} THEN "FAILED"
  ELSE IF result \in {"pending", "lost"} THEN status[o] ELSE "COMPLETED"

\* The response is persisted, whatever happened to the order meanwhile.
ExecRecord(o) ==
  LET r == exec[o].result IN
  /\ exec[o].pc = "got"
  /\ status' = [status EXCEPT ![o] = PlacedStatus(o, r)]
  /\ hasPid' = [hasPid EXCEPT ![o] = r \notin {"rejected", "lost"}]
  /\ ExecGoto(o, IF r \in {"rejected", "failed"} THEN "cas" ELSE "tail")
  /\ UNCHANGED <<refunded, retry, paid, services, poll, admin, bounds>>

ExecMarkRefunded(o) ==
  /\ exec[o].pc = "cas"
  /\ MarkRefunded(o, ExecGoto(o, "refunding"), ExecGoto(o, "tail"))
  /\ UNCHANGED <<status, retry, hasPid, paid, services, poll, admin, bounds>>

ExecPayRefund(o) ==
  /\ exec[o].pc = "refunding"
  /\ PayRefund(o)
  /\ ExecGoto(o, "tail")
  /\ UNCHANGED <<status, retry, hasPid, services, poll, admin, bounds>>

ExecLoseRefund(o) ==
  /\ exec[o].pc \in {"cas", "refunding"}
  /\ LoseRefund(o, exec[o].pc)
  /\ ExecGoto(o, "tail")
  /\ UNCHANGED <<status, retry, hasPid, paid, services, poll, admin, crashes>>

\* The reads that build the returned value.
ExecFinish(o) ==
  /\ exec[o].pc = "tail"
  /\ exec' = [exec EXCEPT ![o] = IdleExec]
  /\ UNCHANGED <<document, paid, services, poll, admin, bounds>>

\* The crash guard: any other operation that throws, a read included, makes
\* the order FAILED and refunds it, however far it had come ...
ExecFatal(o) ==
  /\ exec[o].pc \in {"spawned", "read", "got", "tail"} /\ ~exec[o].guarded
  /\ faults < MaxFaults
  /\ faults' = faults + 1
  /\ status' = [status EXCEPT ![o] = "FAILED"]
  /\ exec' = [exec EXCEPT ![o] = [pc |-> "cas", result |-> @.result, guarded |-> TRUE]]
  /\ UNCHANGED <<refunded, retry, hasPid, paid, services, poll, admin, crashes, interrupted>>

\* ... unless its own write throws as well, which is only logged.
ExecGivesUp(o) ==
  /\ exec[o].pc \in {"spawned", "read", "got", "tail"} /\ ~exec[o].guarded
  /\ faults + 2 <= MaxFaults
  /\ faults' = faults + 2
  /\ exec' = [exec EXCEPT ![o] = IdleExec]
  /\ UNCHANGED <<document, paid, services, poll, admin, crashes, interrupted>>

-----------------------------------------------------------------------------
(* The provider, and the polling job.                                      *)

\* An order the provider accepted reaches a final state there, in its time.
ProviderProgress(o) ==
  /\ provider[o] = "pending"
  /\ \E p \in Terminal : provider' = [provider EXCEPT ![o] = p]
  /\ UNCHANGED <<document, paid, active, exec, poll, admin, bounds>>

\* An administrator switches the provider off or on.
SetActive ==
  /\ Outages
  /\ active' = ~active
  /\ UNCHANGED <<document, paid, provider, exec, poll, admin, bounds>>

Polled == {o \in Orders \ Manual : status[o] = "PROCESSING" /\ hasPid[o]}

\* A run reads the PROCESSING orders with a provider id.  Those that have
\* exhausted their retries go to MANUAL_REVIEW; the rest is to be checked.
PollStart ==
  LET exhausted == {o \in Polled : retry[o] >= MaxRetry}
      healthy   == Polled \ exhausted
  IN /\ poll.pc = "idle" /\ Polled # {}
     /\ status' = [o \in Orders |-> IF o \in exhausted THEN "MANUAL_REVIEW" ELSE status[o]]
     /\ poll' = IF healthy = {} THEN IdlePoll
                ELSE [IdlePoll EXCEPT !.pc = "query", !.todo = healthy, !.count =
                        [o \in Orders |-> IF o \in healthy THEN retry[o] ELSE 0]]
     /\ UNCHANGED <<refunded, retry, hasPid, paid, services, exec, admin, bounds>>

PollNext_KeepsLock(todo) ==
  [pc |-> "apply", todo |-> todo, count |-> poll.count, answer |-> poll.answer,
   current |-> NoOrder, remains |-> 0]

\* On to the next order of the batch, or the end of the run.
PollNext(todo) ==
  IF todo = {} THEN IdlePoll
  ELSE [pc |-> "apply", todo |-> todo, count |-> poll.count, answer |-> poll.answer,
        current |-> NoOrder, remains |-> 0]

\* The provider, if it is active, answers for the orders it knows of.
PollAnswered ==
  /\ poll.pc = "query" /\ active
  /\ poll' = [poll EXCEPT !.pc = "apply", !.answer =
                 [o \in Orders |-> IF o \in poll.todo THEN provider[o] ELSE "none"]]
  /\ UNCHANGED <<document, paid, services, exec, admin, bounds>>

\* The provider is inactive or unreachable: all its orders wait, and no
\* retry is counted.
PollUnanswered ==
  /\ poll.pc = "query"
  /\ poll' = IdlePoll
  /\ UNCHANGED <<document, paid, services, exec, admin, bounds>>

\* The answer leaves an order out, or its update throws: it is skipped.
PollSkip(o) ==
  /\ poll.pc = "apply" /\ o \in poll.todo
  /\ faults < MaxFaults
  /\ faults' = faults + 1
  /\ poll' = PollNext(poll.todo \ {o})
  /\ UNCHANGED <<document, paid, services, exec, admin, crashes, interrupted>>

LimitReached(count) == count >= MaxRetry

\* Not final yet: one retry more, counted from the document read at the
\* start of the run, and FAILED when that reaches the limit.
PollPending(o) ==
  LET count == poll.count[o] + 1 IN
  /\ poll.pc = "apply" /\ o \in poll.todo
  /\ poll.answer[o] \notin Terminal
  /\ retry' = [retry EXCEPT ![o] = count]
  /\ IF LimitReached(count)
     THEN /\ status' = [status EXCEPT ![o] = "FAILED"]
          /\ poll' = [poll EXCEPT !.pc = "cas", !.todo = @ \ {o}, !.current = o]
     ELSE poll' = PollNext(poll.todo \ {o}) /\ UNCHANGED status
  /\ UNCHANGED <<refunded, hasPid, paid, services, exec, admin, bounds>>

\* Final: the status is written, whatever happened to the order meanwhile,
\* and every outcome but completion goes on to its refund.
PollFinal(o) ==
  LET answer == poll.answer[o]
      rest   == [poll EXCEPT !.todo = @ \ {o}, !.current = o]
      Written(s) == status' = [status EXCEPT ![o] = s]
  IN /\ poll.pc = "apply" /\ o \in poll.todo
     /\ \/ answer = "completed" /\ Written("COMPLETED") /\ poll' = PollNext(poll.todo \ {o})
        \/ answer = "failed"    /\ Written("FAILED")    /\ poll' = [rest EXCEPT !.pc = "cas"]
        \/ answer = "canceled"  /\ Written("CANCELED")  /\ poll' = [rest EXCEPT !.pc = "transaction"]
        \/ /\ answer = "partial" /\ Written("PARTIAL")
           /\ \E n \in 0..Qty : poll' = [rest EXCEPT !.pc = "transaction", !.remains = n]
     /\ UNCHANGED <<refunded, retry, hasPid, paid, services, exec, admin, bounds>>

PollMarkRefunded ==
  /\ poll.pc = "cas"
  /\ MarkRefunded(poll.current, poll' = [poll EXCEPT !.pc = "refunding"],
                                poll' = PollNext(poll.todo))
  /\ UNCHANGED <<status, retry, hasPid, paid, services, exec, admin, bounds>>

PollPayRefund ==
  /\ poll.pc = "refunding"
  /\ PayRefund(poll.current)
  /\ poll' = PollNext(poll.todo)
  /\ UNCHANGED <<status, retry, hasPid, services, exec, admin, bounds>>

PollLoseRefund ==
  /\ poll.pc \in {"cas", "refunding"}
  /\ LoseRefund(poll.current, poll.pc)
  /\ poll' = PollNext(poll.todo)
  /\ UNCHANGED <<status, retry, hasPid, paid, services, exec, admin, crashes>>

\* processOrderRefund, one transaction: a second refund and a refund of
\* nothing are refused.
PollRefund ==
  LET o      == poll.current
      amount == RefundAmount(o, poll.remains)
  IN /\ poll.pc = "transaction"
     /\ IF ~refunded[o] /\ amount > 0
        THEN Repay(o, amount) /\ refunded' = [refunded EXCEPT ![o] = TRUE]
        ELSE UNCHANGED <<paid, refunded>>
     /\ poll' = PollNext(poll.todo)
     /\ UNCHANGED <<status, retry, hasPid, services, exec, admin, bounds>>

\* ... or the transaction aborts: the error is logged, and nothing retries.
PollRefundAborts ==
  /\ poll.pc = "transaction"
  /\ faults < MaxFaults
  /\ faults' = faults + 1
  /\ poll' = PollNext(poll.todo)
  /\ UNCHANGED <<document, paid, services, exec, admin, crashes, interrupted>>

-----------------------------------------------------------------------------
(* Administrators.                                                         *)

Refundable_IgnoresFlag(o) == status[o] # "FAILED"

\* The guard of markOrderAsFailed.
Refundable(o) == status[o] # "FAILED" /\ ~refunded[o]

\* markOrderAsFailed, also behind the refund and the status endpoint: status,
\* flag and money move in one transaction.
AdminFail(a, o) ==
  /\ admin[a].pc = "idle"
  /\ Refundable(o)
  /\ status' = [status EXCEPT ![o] = "FAILED"]
  /\ refunded' = [refunded EXCEPT ![o] = TRUE]
  /\ Repay(o, Price(o))
  /\ admin' = [admin EXCEPT ![a] = [@ EXCEPT !.pc = "done", !.order = o]]
  /\ UNCHANGED <<retry, hasPid, services, exec, poll, bounds>>

\* markOrderAsCompleted reads a PENDING order ...
AdminApprove(a, o) ==
  /\ admin[a].pc = "idle"
  /\ status[o] = "PENDING"
  /\ admin' = [admin EXCEPT ![a] = [@ EXCEPT !.pc = "save", !.order = o]]
  /\ UNCHANGED <<document, paid, services, exec, poll, bounds>>

TakenBack(o) == refunded[o] \/ status[o] \in {"FAILED", "PARTIAL", "CANCELED"}

\* completeOrder reads an order that is not COMPLETED.  If its money went
\* back, or its status says it should have, the price is taken again first.
AdminComplete(a, o) ==
  /\ admin[a].pc = "idle"
  /\ status[o] # "COMPLETED"
  /\ admin' = [admin EXCEPT ![a] =
                 [pc |-> IF TakenBack(o) THEN "debit" ELSE "save",
                  order |-> o, sawRefunded |-> refunded[o], debited |-> FALSE]]
  /\ UNCHANGED <<document, paid, services, exec, poll, bounds>>

ReDeduction_PerUnit(o) == Qty * Charge

\* What completeOrder deducts again: a quota order has no charged amount.
ReDeduction(o) == IF o \in Quota THEN 0 ELSE Charge

\* forcedDebitWallet.
AdminDebit(a) ==
  LET o == admin[a].order IN
  /\ admin[a].pc = "debit"
  /\ paid' = [paid EXCEPT ![o] = @ + ReDeduction(o)]
  /\ admin' = [admin EXCEPT ![a] = [@ EXCEPT !.pc = "save", !.debited = TRUE]]
  /\ UNCHANGED <<document, services, exec, poll, bounds>>

\* save() writes the paths that differ from the document that was read: the
\* status, and the refunded flag only if it was set then.
ClearsFlag(a) == admin[a].debited /\ admin[a].sawRefunded

AdminSave(a) ==
  LET o == admin[a].order IN
  /\ admin[a].pc = "save"
  /\ status' = [status EXCEPT ![o] = "COMPLETED"]
  /\ refunded' = IF ClearsFlag(a) THEN [refunded EXCEPT ![o] = FALSE] ELSE refunded
  /\ admin' = [admin EXCEPT ![a].pc = "done"]
  /\ UNCHANGED <<retry, hasPid, paid, services, exec, poll, bounds>>

\* retryOrder.  It is for FAILED orders and refuses them all: those without a
\* provider, and the others because an order has no product number of the
\* provider: neither of the two paths it looks up is in the schema.
AdminRetry(a, o) ==
  /\ admin[a].pc = "idle"
  /\ status[o] = "FAILED"
  /\ admin' = [admin EXCEPT ![a] = [@ EXCEPT !.pc = "done", !.order = o]]
  /\ UNCHANGED <<document, paid, services, exec, poll, bounds>>

-----------------------------------------------------------------------------
(* Crash and restart: what was only in memory is gone.  Nothing resumes an *)
(* executeOrder; the polling job starts anew.                              *)

One(b) == IF b THEN 1 ELSE 0

\* Refunds of o that have set the flag and not yet paid.
RefundsInFlight(o) ==
  One(exec[o].pc = "refunding") + One(poll.pc = "refunding" /\ poll.current = o)

Crash ==
  /\ crashes < MaxCrashes
  /\ crashes' = crashes + 1
  /\ interrupted' = interrupted \cup {o \in Orders : RefundsInFlight(o) > 0}
  /\ exec' = [o \in Orders |-> IdleExec]
  /\ poll' = IdlePoll
  /\ admin' = [a \in Admins |-> IF admin[a].pc \in {"debit", "save"}
                                THEN [admin[a] EXCEPT !.pc = "dead"] ELSE admin[a]]
  /\ UNCHANGED <<document, paid, services, faults>>

ExecStep(o) ==
  \/ ExecStart(o) \/ ExecPlace(o) \/ ExecRecord(o)
  \/ ExecMarkRefunded(o) \/ ExecPayRefund(o) \/ ExecFinish(o)

PollStep ==
  \/ PollStart
  \/ \E o \in Orders : PollPending(o) \/ PollFinal(o)
  \/ PollMarkRefunded \/ PollPayRefund \/ PollRefund

AdminStep(a) ==
  \/ \E o \in Orders : \/ AdminFail(a, o) \/ AdminApprove(a, o)
                       \/ AdminComplete(a, o) \/ AdminRetry(a, o)
  \/ AdminDebit(a) \/ AdminSave(a)

Failure ==
  \/ \E o \in Orders : ExecFatal(o) \/ ExecGivesUp(o) \/ ExecLoseRefund(o) \/ PollSkip(o)
  \/ PollLoseRefund \/ PollRefundAborts
  \/ Crash

Next ==
  \/ \E o \in Orders : ExecStep(o) \/ ExecUnresolved(o) \/ ProviderProgress(o)
  \/ PollStep \/ PollAnswered \/ PollUnanswered \/ SetActive
  \/ \E a \in Admins : AdminStep(a)
  \/ Failure

Spec == Init /\ [][Next]_vars

\* The event loop runs every pending continuation, the cron job fires every
\* five minutes, a request to a provider ends, and a provider that is asked
\* again and again, which only an active one is, answers.
Fairness ==
  /\ \A o \in Orders : WF_vars(ExecStep(o))
  /\ \A a \in Admins : WF_vars(AdminDebit(a) \/ AdminSave(a))
  /\ WF_vars(PollStep)
  /\ WF_vars(PollAnswered \/ PollUnanswered)
  /\ SF_vars(PollAnswered)

FairSpec == Spec /\ Fairness

-----------------------------------------------------------------------------
(* Properties.                                                             *)

Clearing(o) == {a \in Admins : admin[a].pc = "save" /\ admin[a].order = o /\ ClearsFlag(a)}

\* Money is never paid back more often than it was taken, although the flag
\* that prevents it is set by four procedures, cleared by two, and written
\* back by administrators from documents that may be out of date.
NoOverRefund == \A o \in Orders \ Quota : paid[o] >= 0

\* Why: every refund that has set the flag and not yet paid, and every
\* administrator who is about to clear the flag, has a full price set aside
\* for it, beside the one that an order not refunded holds.
Claims(o) == One(~refunded[o]) + RefundsInFlight(o) + Cardinality(Clearing(o))

SetAside == \A o \in Orders \ Quota : paid[o] >= Charge * Claims(o)

\* The refunded flag tells the truth about the money whenever no refund of
\* the order is between its two steps, unless one was cut off there or an
\* administrator forced the order's completion.
FlagMatchesMoney ==
  \A o \in Orders :
    \/ RefundsInFlight(o) > 0
    \/ o \in interrupted
    \/ \E a \in Admins : admin[a].order = o /\ admin[a].debited
    \/ refunded[o] <=> paid[o] < Price(o)

\* No order reaches the polling job with its retries exhausted, so the
\* job's kill switch to MANUAL_REVIEW never fires: the step that exhausts
\* them fails the order itself.
KillSwitchIdle == \A o \in Orders : status[o] = "PROCESSING" => retry[o] < MaxRetry

\* The money of every money order behaves as OrderAccount promises.
Account == INSTANCE OrderAccount
             WITH Orders <- Orders \ Quota, FullPrice <- Charge,
                  paid <- [o \in Orders \ Quota |-> paid[o]]
ImplementsAccount == Account!Spec

\* Without failing operations, a money order that is FAILED or CANCELED gets
\* its money back, unless an administrator completes it after all.
RefundDue(o) == status[o] \in {"FAILED", "CANCELED"} /\ ~refunded[o]
Repaid(o) == refunded[o] /\ paid[o] < Charge
FailedIsRefunded ==
  \A o \in Orders \ Quota :
    RefundDue(o) ~> (Repaid(o) \/ status[o] \notin {"FAILED", "CANCELED"})

\* An order that a provider acknowledged does not stay PROCESSING for ever,
\* however late it becomes final there, if the provider is not switched off
\* for good.
Acknowledged(o) == status[o] = "PROCESSING" /\ hasPid[o]
ProcessingSettles ==
  <>[]active => \A o \in Orders : Acknowledged(o) ~> ~Acknowledged(o)
=============================================================================
