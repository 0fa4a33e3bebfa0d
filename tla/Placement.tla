------------------------------ MODULE Placement ------------------------------
(***************************************************************************)
(* Automatic orders and the services that execute them: the resolution of  *)
(* an order's provider, the adapters, which turn a service's reply into a  *)
(* result and its reports into statuses, the executor's placement and the  *)
(* polling of open orders, grouped by the provider code of each order.     *)
(*                                                                         *)
(* A service is known by the entries of its own book: orders it accepted,  *)
(* numbered from 1, so that the numbers of two services coincide.  Money   *)
(* is not here (see OrderLifecycle): FAILED, CANCELED and PARTIAL refund.  *)
(***************************************************************************)
EXTENDS Integers, FiniteSets, Sequences

CONSTANTS
  Orders,      \* automatic orders, all of the same product
  Providers,   \* providers; a provider's code is the provider
  Kinds,       \* the adapters that the factory's registry gives to providers
  Batch,       \* orders that a polling run looks at
  MaxRetry,    \* MAX_RETRY_COUNT
  MockNumber,  \* the constant number that the mock gives to every order
  None         \* nothing

Adapters == {"royalCrown", "toros", "alkasr", "ibra", "dealer", "mock"}

ASSUME KindsAssumption  == Kinds \subseteq Adapters
ASSUME BatchAssumption  == Batch \in Nat \ {0}
ASSUME RetryAssumption  == MaxRetry \in Nat \ {0}
ASSUME MockAssumption   == MockNumber \in Nat \ {0}

\* Words that services use for the state of an order, by their meaning to
\* statusMapper.js; every other word is "unknown".
Words == {"completed", "processing", "partial", "cancelled", "failed", "unknown"}
Final == {"completed", "partial", "cancelled", "failed"}

ASSUME NoneAssumption == None \notin Providers \cup Int \cup Words

\* A service's reply to a request: whether it declares a failure, gives an
\* order number, and a word, if any.  A request without a reply, and an HTTP
\* error, are None.
Replies == [flagged: BOOLEAN, id: BOOLEAN, word: Words \cup {None}] \cup {None}

\* Order numbers: those of a service, which the mock's constant one may equal,
\* and the uuid that an adapter made for the order.
Uuid == -1
Pids == {None, Uuid} \cup (Nat \ {0})

VARIABLES
  kind,     \* the adapter of each provider
  link,     \* the provider the product is linked to
  active,   \* active providers
  book,     \* what each service accepted: order and state
  doc,      \* Order documents: status, providerOrderId, providerCode, retryCount
  exec,     \* createOrder and executeOrder of each order
  poll      \* the polling job: the orders it has yet to ask for, and the answers to apply

vars == <<kind, link, active, book, doc, exec, poll>>

Statuses == {"none", "PROCESSING", "COMPLETED", "PARTIAL", "CANCELED", "FAILED"}
Result   == [success: BOOLEAN, pid: {"none", "number", "uuid", "mock"}, word: Words]
DocSet   == [status: Statuses, pid: Pids, code: Providers \cup {None}, retry: 0..MaxRetry]
\* A call that ends does so in one of three ways: it returned, its guard marked
\* the order failed, or it was cut off.
Ends     == {"done", "guarded", "cut"}
ExecSet  == [pc: {"idle", "store", "run", "sent", "replied", "tail"} \cup Ends,
             code: Providers \cup {None}, adapter: Providers \cup {None},
             result: Result \cup {None}]
PollSet  == [todo: SUBSET Orders, answer: [Orders -> Words \cup {None}]]

TypeOK ==
  /\ kind \in [Providers -> Kinds]
  /\ link \in Providers /\ active \subseteq Providers
  /\ book \in [Providers -> Seq([order: Orders, state: Final \cup {"processing"}])]
  /\ doc \in [Orders -> DocSet]
  /\ exec \in [Orders -> ExecSet]
  /\ poll \in PollSet

NoExec == [pc |-> "idle", code |-> None, adapter |-> None, result |-> None]
NoPoll == [todo |-> {}, answer |-> [o \in Orders |-> None]]

Init ==
  /\ kind \in [Providers -> Kinds]
  /\ link \in Providers /\ active = Providers
  /\ book = [p \in Providers |-> <<>>]
  /\ doc = [o \in Orders |-> [status |-> "none", pid |-> None, code |-> None, retry |-> 0]]
  /\ exec = [o \in Orders |-> NoExec] /\ poll = NoPoll

-----------------------------------------------------------------------------
(* The adapters.                                                           *)

\* The words that the adapters make of a service's word.  Two of them have a
\* table of their own; to AlkasrVip a word it does not know is a cancellation.
Word(k, w) ==
  CASE k = "alkasr" -> IF w \in {"completed", "processing"} THEN w ELSE "cancelled"
    [] k = "ibra"   -> IF w = None THEN "processing" ELSE IF w = "failed" THEN "cancelled" ELSE w
    [] k \in {"royalCrown", "toros"} -> IF w = None THEN "processing" ELSE w
    [] k = "dealer" -> "completed"
    [] k = "mock"   -> "processing"

Refusal == [success |-> FALSE, pid |-> "none", word |-> "cancelled"]

\* A reply that is missing, declares a failure or lacks a number that the
\* adapter needs.
Unusable(k, r) == r = None \/ r.flagged \/ (~r.id /\ k \in {"royalCrown", "toros", "alkasr"})

\* Mutant: a request without a reply is reported as in progress.
PlacedUnknown(k, r) ==
  IF r = None THEN [success |-> TRUE, pid |-> "none", word |-> "processing"]
  ELSE IF k = "mock" \/ Unusable(k, r) THEN Refusal
  ELSE [success |-> TRUE, word |-> Word(k, r.word), pid |-> IF k = "dealer" THEN "none" ELSE "number"]

\* What placeOrder makes of a reply.  No adapter throws: a request that has no
\* reply is a refusal.
Placed(k, r) ==
  CASE k = "mock" -> [success |-> TRUE, pid |-> "mock", word |-> "processing"]
    [] k # "mock" /\ Unusable(k, r) -> Refusal
    [] k # "mock" /\ ~Unusable(k, r) ->
         [success |-> TRUE, word |-> Word(k, r.word),
          pid |-> CASE k = "dealer" -> "none" [] k = "ibra" /\ ~r.id -> "uuid" [] OTHER -> "number"]

-----------------------------------------------------------------------------
(* The services.                                                           *)

\* What a service may say of an order it has: its state, or for one that is
\* not final a word that our tables do not know, or no word.
Says(state) == {state} \cup (IF state = "processing" THEN {"unknown", None} ELSE {})

\* The adapter has the result of its request.
Returns(o, r) ==
  exec' = [exec EXCEPT ![o] = [exec[o] EXCEPT !.pc = "replied", !.result = Placed(kind[exec[o].adapter], r)]]

\* The request arrives and is accepted.  The reply may lack parts, or be lost.
Accept(o) ==
  LET p == exec[o].adapter IN
  /\ exec[o].pc = "sent" /\ kind[p] # "mock"
  /\ \E state \in Final \cup {"processing"} :
       /\ book' = [book EXCEPT ![p] = Append(@, [order |-> o, state |-> state])]
       /\ \E r \in {None} \cup [flagged: {FALSE}, id: BOOLEAN, word: Says(state)] : Returns(o, r)
  /\ UNCHANGED <<kind, link, active, doc, poll>>

\* The request is lost or refused; or none is made: by the mock, and, but for
\* ibra, by an adapter that finds no player's id.
Refuse(o) ==
  /\ exec[o].pc = "sent"
  /\ \E r \in {None, [flagged |-> TRUE, id |-> FALSE, word |-> "failed"]} : Returns(o, r)
  /\ UNCHANGED <<kind, link, active, book, doc, poll>>

\* A service finishes an order.
Progress(p) ==
  /\ \E n \in 1..Len(book[p]), state \in Final :
       /\ book[p][n].state = "processing"
       /\ book' = [book EXCEPT ![p] = [book[p] EXCEPT ![n] =
                      [order |-> book[p][n].order, state |-> state]]]
  /\ UNCHANGED <<kind, link, active, doc, exec, poll>>

-----------------------------------------------------------------------------
(* Creation and execution.                                                 *)

\* toInternalStatus.
Internal(w) ==
  CASE w = "completed" -> "COMPLETED" [] w = "partial" -> "PARTIAL"
    [] w = "cancelled" -> "CANCELED"  [] w = "failed" -> "FAILED"
    [] w \in {"processing", "unknown"} -> "PROCESSING"

Settle(o, status) == doc' = [doc EXCEPT ![o] = [doc[o] EXCEPT !.status = status]]
Become(o, pc)     == exec' = [exec EXCEPT ![o] = [NoExec EXCEPT !.pc = pc]]

\* createOrder reads the provider of the product: its code is kept for the
\* order, its adapter is built if it is active.
Resolve(o) ==
  /\ exec[o].pc = "idle"
  /\ exec' = [exec EXCEPT ![o] = [pc |-> "store", code |-> link, result |-> None,
                  adapter |-> IF link \in active THEN link ELSE None]]
  /\ UNCHANGED <<kind, link, active, book, doc, poll>>

\* The order is stored with the code and handed to executeOrder; unless the
\* populate that comes before fails, after which nothing dispatches the order.
Store(o) ==
  /\ exec[o].pc = "store"
  /\ doc' = [doc EXCEPT ![o] = [status |-> "PROCESSING", pid |-> None, code |-> exec[o].code,
                                retry |-> 0]]
  /\ \/ exec' = [exec EXCEPT ![o] = [exec[o] EXCEPT !.pc = "run", !.code = None]]
     \/ Become(o, "cut")
  /\ UNCHANGED <<kind, link, active, book, poll>>

\* executeOrder takes the product's provider itself when it was given none;
\* without an active one the order fails.
Execute(o) ==
  LET p == IF exec[o].adapter = None THEN link ELSE exec[o].adapter IN
  /\ exec[o].pc = "run"
  /\ IF exec[o].adapter = None /\ link \notin active
     THEN Settle(o, "FAILED") /\ Become(o, "done")
     ELSE /\ exec' = [exec EXCEPT ![o] = [exec[o] EXCEPT !.pc = "sent", !.adapter = p]]
          /\ UNCHANGED doc
  /\ UNCHANGED <<kind, link, active, book, poll>>

\* The number the document keeps: the service's for the entry it just made.
PidOf(o, form) ==
  CASE form = "none" -> None [] form = "uuid" -> Uuid [] form = "mock" -> MockNumber
    [] form = "number" -> LET p == exec[o].adapter IN
         CHOOSE n \in 1..Len(book[p]) : book[p][n].order = o

\* Mutant: only the word counts.
OutcomeOfWord(x) ==
  CASE Internal(x.word) = "FAILED" -> "FAILED"
    [] Internal(x.word) = "PROCESSING" -> "PROCESSING"
    [] OTHER -> "COMPLETED"

\* The status an order has after its placement.  A result that is neither a
\* failure nor in progress is a completion.
Outcome(x) ==
  CASE ~x.success \/ Internal(x.word) = "FAILED" -> "FAILED"
    [] x.success /\ Internal(x.word) = "PROCESSING" -> "PROCESSING"
    [] OTHER -> "COMPLETED"

\* The result is recorded.  Reads of the order follow.
Record(o) ==
  LET x == exec[o].result IN
  /\ exec[o].pc = "replied"
  /\ doc' = [doc EXCEPT ![o] = [doc[o] EXCEPT !.pid = PidOf(o, x.pid), !.status = Outcome(x)]]
  /\ Become(o, "tail")
  /\ UNCHANGED <<kind, link, active, book, poll>>

Return(o) ==
  /\ exec[o].pc = "tail"
  /\ Become(o, "done")
  /\ UNCHANGED <<kind, link, active, book, doc, poll>>

\* An operation of executeOrder fails: a read of the order, or the write of the
\* result.  Its guard marks the order failed, whatever was recorded before; or
\* the guard's own write fails too, and nothing is changed.
Guard(o) ==
  /\ exec[o].pc \in {"run", "replied", "tail"}
  /\ \/ Settle(o, "FAILED") /\ Become(o, "guarded")
     \/ Become(o, "cut") /\ UNCHANGED doc
  /\ UNCHANGED <<kind, link, active, book, poll>>

-----------------------------------------------------------------------------
(* Polling.                                                                *)

Open(o)    == doc[o].status = "PROCESSING" /\ doc[o].pid # None
PollIdle   == poll = NoPoll
Applying   == \E o \in Orders : poll.answer[o] # None

\* A run takes at most Batch open orders.  (Which ones depends on the times of
\* their last checks; here they are any.)
PollBegin ==
  /\ PollIdle
  /\ \E todo \in SUBSET {o \in Orders : Open(o)} :
       /\ todo # {} /\ Cardinality(todo) <= Batch
       /\ poll' = [NoPoll EXCEPT !.todo = todo]
  /\ UNCHANGED <<kind, link, active, book, doc, exec>>

\* What the answer of provider p says of the order o, that is, of the number
\* kept with it: nothing, or the word for the entry with this number.  The
\* dealer's adapter and the mock ask nobody.
Entries(p, o) ==
  {n \in 1..Len(book[p]) : n = doc[o].pid \/ (doc[o].pid = Uuid /\ book[p][n].order = o)}
Answers(p, o) ==
  LET k == kind[p] IN
  {None} \cup
  IF k \in {"dealer", "mock"} THEN {Word(k, None)}
  ELSE UNION {{Word(k, w) : w \in Says(book[p][n].state)} : n \in Entries(p, o)}

\* Mutant: the orders are not grouped.
AskedWithAll(o) == poll.todo

\* The orders with one code are asked for together, of the provider with that
\* code.
AskedWith(o) == {x \in poll.todo : doc[x].code = doc[o].code}
AskedOf(o)   == doc[o].code

\* The next group is skipped, its provider being inactive or out of reach, or
\* its provider answers for all of it.
PollGroup ==
  /\ ~Applying
  /\ \E o \in poll.todo :
       LET group == AskedWith(o)
           p     == AskedOf(o)
       IN \/ poll' = [poll EXCEPT !.todo = @ \ group]
          \/ /\ p \in active
             /\ \E f \in [group -> Words \cup {None}] :
                  /\ \A x \in group : f[x] \in Answers(p, x)
                  /\ poll' = [todo |-> poll.todo \ group,
                              answer |-> [x \in Orders |-> IF x \in group THEN f[x] ELSE None]]
  /\ UNCHANGED <<kind, link, active, book, doc, exec>>

\* One order's answer is applied, although the order may have been marked failed
\* since it was read: it settles the order, or counts as a retry, the last of
\* which fails it.
PollApply(o) ==
  LET w == poll.answer[o]
      n == doc[o].retry + 1
  IN
  /\ w # None
  /\ poll' = [poll EXCEPT !.answer = [poll.answer EXCEPT ![o] = None]]
  /\ IF Internal(w) # "PROCESSING"
     THEN Settle(o, Internal(w))
     ELSE doc' = [doc EXCEPT ![o] = [doc[o] EXCEPT !.retry = n,
                    !.status = IF n >= MaxRetry THEN "FAILED" ELSE doc[o].status]]
  /\ UNCHANGED <<kind, link, active, book, exec>>

-----------------------------------------------------------------------------
(* Administration and crashes.                                             *)

\* The product is linked to another provider.
Relink(p) ==
  /\ p # link
  /\ link' = p
  /\ UNCHANGED <<kind, active, book, doc, exec, poll>>

\* A provider is switched off or on.
SetActive(p) ==
  /\ active' = IF p \in active THEN active \ {p} ELSE active \cup {p}
  /\ UNCHANGED <<kind, link, book, doc, exec, poll>>

\* The server restarts while something runs.  What ran is gone; nothing takes up
\* an order that was stored and not placed.
Crash ==
  /\ \/ \E o \in Orders : exec[o].pc \notin {"idle"} \cup Ends
     \/ poll # NoPoll
  /\ exec' = [o \in Orders |-> IF exec[o].pc \in {"idle"} \cup Ends THEN exec[o]
                               ELSE [NoExec EXCEPT !.pc = "cut"]]
  /\ poll' = NoPoll
  /\ UNCHANGED <<kind, link, active, book, doc>>

Next ==
  \/ \E o \in Orders : \/ Resolve(o) \/ Store(o) \/ Execute(o) \/ Record(o) \/ Return(o)
                       \/ Guard(o) \/ Accept(o) \/ Refuse(o) \/ PollApply(o)
  \/ PollBegin \/ PollGroup
  \/ \E p \in Providers : Progress(p) \/ Relink(p) \/ SetActive(p)
  \/ Crash

Spec == Init /\ [][Next]_vars

-----------------------------------------------------------------------------
(* Properties.                                                             *)

Accepted(o)   == \E p \in Providers : \E n \in 1..Len(book[p]) : book[p][n].order = o
Elsewhere(o)  == \E p \in Providers \ {doc[o].code} : \E n \in 1..Len(book[p]) : book[p][n].order = o
StateOf(o)    == LET p == doc[o].code IN
                 book[p][CHOOSE n \in 1..Len(book[p]) : book[p][n].order = o].state

\* The final status of an order is what its own service says of it, although
\* the numbers of services coincide, other orders are polled with it and the
\* product may be linked to another provider meanwhile.  The exceptions are the
\* code's: the retries run out; an order that is final when its request is
\* answered is recorded as completed, whatever became of it; AlkasrVip's
\* adapter takes a word it does not know for a cancellation (which, in the
\* answer to the request, again makes the order completed); an order of an inactive
\* provider is placed with the product's new one, under the old one's code; and
\* the guard of executeOrder marks an order failed when an operation fails after
\* the result was recorded, although its service has accepted it.
SettledAsReported ==
  \A o \in Orders : Accepted(o) /\ ~Elsewhere(o) /\ doc[o].pid # None =>
    LET k == kind[doc[o].code]
        s == StateOf(o)
    IN /\ doc[o].status = "COMPLETED" /\ k # "alkasr" => s \in Final
       /\ doc[o].status = "PARTIAL"   => s = "partial"
       /\ doc[o].status = "CANCELED" /\ k # "alkasr" =>
            s = "cancelled" \/ (k = "ibra" /\ s = "failed")
       /\ doc[o].status = "FAILED" /\ doc[o].retry < MaxRetry /\ exec[o].pc # "guarded" =>
            s = "failed"

\* Polling finds only orders with a provider's number; one in progress that is
\* left without is out of its reach for ever.  No placement that executeOrder
\* concludes leaves one so, whatever adapters make of replies that lack parts or
\* never come.  What does is being cut off: by a crash, by the populate that
\* fails before the order is dispatched, or by two failures in a row, of an
\* operation of executeOrder and of its guard.
StuckIsExplained ==
  \A o \in Orders : doc[o].status = "PROCESSING" /\ doc[o].pid = None =>
    exec[o].pc \in {"run", "sent", "replied", "cut"}

\* An order is completed only when some service accepted it, in whatever order
\* replies are lost, providers are switched off and the product is linked anew.
\* The exception is the code's: an order that only the mock took, the product
\* having been linked from its provider to one without an adapter, has the mock's
\* constant number and is asked for at the provider of its code, where the
\* number is another order's (and the dealer's adapter completes any).
CompletedWasAccepted ==
  \A o \in Orders : doc[o].status = "COMPLETED" =>
    \/ Accepted(o)
    \/ /\ doc[o].pid = MockNumber /\ kind[doc[o].code] # "mock"
       /\ \E p \in Providers \ {doc[o].code} : kind[p] = "mock"

\* executeOrder says of a placement that fails in transit: "Refunding
\* immediately on a network blip would cause a double-loss: the provider may
\* have already accepted and queued the order."  So an order whose placement
\* was concluded as a failure was not accepted.
FailedWasRefused ==
  \A o \in Orders : doc[o].status = "FAILED" /\ doc[o].pid = None /\ exec[o].pc = "done" =>
    ~Accepted(o)
=============================================================================
