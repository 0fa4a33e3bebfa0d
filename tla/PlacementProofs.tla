--------------------------- MODULE PlacementProofs ---------------------------
(***************************************************************************)
(* Theorems about Placement, for every number of orders and providers,     *)
(* every assignment of adapters, any constant of the mock and any number   *)
(* of crashes and failing operations.                                      *)
(***************************************************************************)
EXTENDS Placement, TLAPS

-----------------------------------------------------------------------------
(* The invariant.                                                          *)

\* Service p has the order o under the number n.
At(o, p, n) == n \in 1..Len(book[p]) /\ book[p][n].order = o

\* No order is accepted twice, so that a number of a service is one order.
Once ==
  \A o \in Orders, p, q \in Providers, n, m \in Nat : At(o, p, n) /\ At(o, q, m) => p = q /\ n = m

\* What a word w, once an adapter of kind k reported it, says for ever of the
\* state s of the entry it is about.
Fits(k, w, s) ==
  /\ w = "completed" /\ k # "alkasr" => s \in Final
  /\ w = "partial" => s = "partial"
  /\ w = "cancelled" /\ k # "alkasr" => s = "cancelled" \/ (k = "ibra" /\ s = "failed")
  /\ w = "failed" => s = "failed"

\* A result in hand: a refusal, the mock's constant, or that of an entry.
Took(o) ==
  LET x == exec[o].result
      p == exec[o].adapter
      k == kind[p]
  IN \/ x = Refusal
     \/ /\ x = [success |-> TRUE, pid |-> "mock", word |-> "processing"] /\ k = "mock"
        /\ \A q \in Providers, n \in Nat : ~At(o, q, n)
     \/ /\ x.success /\ k = "dealer" /\ x.pid = "none" /\ x.word = "completed"
        /\ \E n \in Nat : At(o, p, n)
     \/ /\ x.success /\ k \notin {"dealer", "mock"}
        /\ x.pid = "number" \/ (x.pid = "uuid" /\ k = "ibra")
        /\ \E n \in Nat : At(o, p, n) /\ Fits(k, x.word, book[p][n].state)

Handled(o) ==
  /\ \A p \in Providers, n \in Nat : At(o, p, n) => exec[o].pc \in {"replied", "tail"} \cup Ends
  /\ exec[o].pc = "store" => exec[o].code \in Providers
  /\ exec[o].pc \in {"sent", "replied"} => exec[o].adapter \in Providers
  /\ exec[o].pc = "replied" => exec[o].result \in Result /\ Took(o)

\* A document's status fits the state s of the order at a service of kind k.
StatusFits(o, k, s) ==
  /\ doc[o].status = "COMPLETED" /\ k # "alkasr" => s \in Final
  /\ doc[o].status = "PARTIAL" => s = "partial"
  /\ doc[o].status = "CANCELED" /\ k # "alkasr" =>
       s = "cancelled" \/ (k = "ibra" /\ s = "failed")
  /\ doc[o].status = "FAILED" /\ doc[o].retry < MaxRetry /\ exec[o].pc # "guarded" => s = "failed"

\* What the number kept with an order stands for.
Numbered(o) ==
  \/ /\ doc[o].pid = MockNumber /\ \E p \in Providers : kind[p] = "mock"
     /\ \A p \in Providers, n \in Nat : ~At(o, p, n)
  \/ \E p \in Providers, n \in Nat :
       /\ At(o, p, n) /\ kind[p] \notin {"dealer", "mock"}
       /\ doc[o].pid = n \/ doc[o].pid = Uuid
       /\ p = doc[o].code => StatusFits(o, kind[p], book[p][n].state)

CompletedHow(o) ==
  doc[o].status = "COMPLETED" =>
    \/ \E p \in Providers, n \in Nat : At(o, p, n)
    \/ /\ doc[o].pid = MockNumber /\ kind[doc[o].code] # "mock"
       /\ \E p \in Providers : kind[p] = "mock"

Filed(o) ==
  /\ exec[o].pc \in {"idle", "store"} => doc[o].status = "none"
  /\ exec[o].pc \in {"run", "sent", "replied"} => doc[o].status = "PROCESSING" /\ doc[o].code \in Providers
  /\ doc[o].pid # None =>
       exec[o].pc \in {"tail"} \cup Ends /\ doc[o].code \in Providers /\ Numbered(o)
  /\ doc[o].status = "PROCESSING" => doc[o].retry < MaxRetry
  /\ doc[o].status = "PROCESSING" /\ doc[o].pid = None =>
       exec[o].pc \in {"run", "sent", "replied", "cut"}
  /\ CompletedHow(o)

\* An answer that is still to be applied.
Answered(o) ==
  LET p == doc[o].code
      w == poll.answer[o]
  IN /\ kind[p] = "mock" => w = "processing"
     /\ \A n \in Nat : At(o, p, n) => Fits(kind[p], w, book[p][n].state)

\* An order that polling has read has a number; it may have been marked failed
\* since, by the guard only.
Polled(o) ==
  /\ o \in poll.todo \/ poll.answer[o] # None =>
       /\ doc[o].pid # None /\ doc[o].retry < MaxRetry
       /\ doc[o].status = "PROCESSING" \/ (doc[o].status = "FAILED" /\ exec[o].pc = "guarded")
  /\ poll.answer[o] # None => o \notin poll.todo /\ Answered(o)

OrderInv(o) == Handled(o) /\ Filed(o) /\ Polled(o)
PlaceInv    == Once /\ \A o \in Orders : OrderInv(o)

-----------------------------------------------------------------------------
(* Types.                                                                  *)

LEMMA WordType ==
  ASSUME NEW k \in Adapters, NEW w \in Words \cup {None}
  PROVE  Word(k, w) \in Words
BY NoneAssumption DEF Word, Adapters, Words

LEMMA InternalType ==
  ASSUME NEW w \in Words
  PROVE  /\ Internal(w) \in {"COMPLETED", "PARTIAL", "CANCELED", "FAILED", "PROCESSING"}
         /\ Internal(w) = "PROCESSING" <=> w \in {"processing", "unknown"}
         /\ Internal(w) = "COMPLETED" <=> w = "completed"
         /\ Internal(w) = "PARTIAL" <=> w = "partial"
         /\ Internal(w) = "CANCELED" <=> w = "cancelled"
         /\ Internal(w) = "FAILED" <=> w = "failed"
BY DEF Internal, Words

\* What a service says of a state, as an adapter reports it.
LEMMA SaysType ==
  ASSUME NEW s \in Final \cup {"processing"}, NEW w \in Says(s)
  PROVE  w \in Words \cup {None}
BY DEF Says, Final, Words

LEMMA PlacedType ==
  ASSUME NEW k \in Adapters,
         NEW r \in {None} \cup [flagged: BOOLEAN, id: BOOLEAN, word: Words \cup {None}]
  PROVE  Placed(k, r) \in Result
<1>1. CASE k = "mock"
  BY <1>1 DEF Placed, Result, Words
<1>2. CASE k # "mock" /\ Unusable(k, r)
  BY <1>2 DEF Placed, Result, Refusal, Words
<1>3. CASE k # "mock" /\ ~Unusable(k, r)
  <2>1. r.word \in Words \cup {None}
    BY <1>3 DEF Unusable
  <2>2. Word(k, r.word) \in Words
    BY <2>1, WordType
  <2>3. Placed(k, r) = [success |-> TRUE, word |-> Word(k, r.word),
          pid |-> CASE k = "dealer" -> "none" [] k = "ibra" /\ ~r.id -> "uuid" [] OTHER -> "number"]
    BY <1>3 DEF Placed
  <2> QED
    BY <2>2, <2>3 DEF Result
<1> QED
  BY <1>1, <1>2, <1>3

LEMMA ElementOf ==
  ASSUME NEW S, NEW s \in Seq(S), NEW i \in 1..Len(s)
  PROVE  s[i] \in S
OBVIOUS

\* A call's state, and a document, that change within their types.
LEMMA ExecMoves ==
  ASSUME TypeOK, NEW o \in Orders, NEW x \in ExecSet, exec' = [exec EXCEPT ![o] = x]
  PROVE  exec' \in [Orders -> ExecSet] /\ exec'[o] = x /\ \A y \in Orders \ {o} : exec'[y] = exec[y]
BY DEF TypeOK

LEMMA DocMoves ==
  ASSUME TypeOK, NEW o \in Orders, NEW x \in DocSet, doc' = [doc EXCEPT ![o] = x]
  PROVE  doc' \in [Orders -> DocSet] /\ doc'[o] = x /\ \A y \in Orders \ {o} : doc'[y] = doc[y]
BY DEF TypeOK

LEMMA EndType ==
  ASSUME NEW pc \in {"tail"} \cup Ends
  PROVE  [NoExec EXCEPT !.pc = pc] \in ExecSet /\ [NoExec EXCEPT !.pc = pc].pc = pc
BY DEF NoExec, ExecSet, Ends

LEMMA ReplyType ==
  ASSUME TypeOK, NEW o \in Orders, exec[o].adapter \in Providers,
         NEW r \in {None} \cup [flagged: BOOLEAN, id: BOOLEAN, word: Words \cup {None}],
         Returns(o, r)
  PROVE  /\ exec' \in [Orders -> ExecSet] /\ \A y \in Orders \ {o} : exec'[y] = exec[y]
         /\ exec'[o].pc = "replied" /\ exec'[o].adapter = exec[o].adapter
         /\ exec'[o].result = Placed(kind[exec[o].adapter], r) /\ exec'[o].result \in Result
<1> DEFINE x == [exec[o] EXCEPT !.pc = "replied", !.result = Placed(kind[exec[o].adapter], r)]
<1>1. kind[exec[o].adapter] \in Adapters
  BY KindsAssumption DEF TypeOK
<1>2. Placed(kind[exec[o].adapter], r) \in Result
  BY <1>1, PlacedType
<1>3. exec[o] \in ExecSet
  BY DEF TypeOK
<1>4. x \in ExecSet /\ x.pc = "replied" /\ x.adapter = exec[o].adapter
      /\ x.result = Placed(kind[exec[o].adapter], r)
  BY <1>2, <1>3 DEF ExecSet
<1>5. exec' = [exec EXCEPT ![o] = x]
  BY DEF Returns
<1>6. exec' \in [Orders -> ExecSet] /\ exec'[o] = x /\ \A y \in Orders \ {o} : exec'[y] = exec[y]
  BY <1>4, <1>5, ExecMoves
<1> QED
  BY <1>2, <1>4, <1>6

-----------------------------------------------------------------------------
(* What a step leaves alone.                                               *)

\* The entries of an order stay, and only one in progress changes.
Keeps(o) ==
  \A p \in Providers, n \in Nat :
    /\ At(o, p, n)' <=> At(o, p, n)
    /\ At(o, p, n) => book'[p][n].state = book[p][n].state \/ book[p][n].state = "processing"

\* What fits an order in progress fits whatever becomes of it.
LEMMA FitsStays ==
  ASSUME NEW k, NEW w, NEW s, Fits(k, w, "processing")
  PROVE  Fits(k, w, s)
BY DEF Fits, Final

LEMMA StatusFitsStays ==
  ASSUME NEW o, NEW k, NEW s, StatusFits(o, k, "processing")
  PROVE  StatusFits(o, k, s)
BY DEF StatusFits, Final

\* A result in hand stays what it was.
LEMMA TookStays ==
  ASSUME NEW o \in Orders, Keeps(o), Took(o), exec'[o] = exec[o], kind' = kind,
         exec[o].adapter \in Providers
  PROVE  Took(o)'
<1> DEFINE p == exec[o].adapter
           x == exec[o].result
<1>1. CASE x = Refusal
  BY <1>1 DEF Took
<1>2. CASE /\ x = [success |-> TRUE, pid |-> "mock", word |-> "processing"] /\ kind[p] = "mock"
           /\ \A q \in Providers, n \in Nat : ~At(o, q, n)
  BY <1>2 DEF Took, Keeps
<1>3. CASE /\ x.success /\ kind[p] = "dealer" /\ x.pid = "none" /\ x.word = "completed"
           /\ \E n \in Nat : At(o, p, n)
  <2>1. \E n \in Nat : At(o, p, n)'
    BY <1>3 DEF Keeps
  <2> QED
    BY <1>3, <2>1 DEF Took
<1>4. CASE /\ x.success /\ kind[p] \notin {"dealer", "mock"}
           /\ x.pid = "number" \/ (x.pid = "uuid" /\ kind[p] = "ibra")
           /\ \E n \in Nat : At(o, p, n) /\ Fits(kind[p], x.word, book[p][n].state)
  <2>1. PICK n \in Nat : At(o, p, n) /\ Fits(kind[p], x.word, book[p][n].state)
    BY <1>4
  <2>2. At(o, p, n)' /\ Fits(kind[p], x.word, book'[p][n].state)
    BY <2>1, FitsStays DEF Keeps
  <2>3. Fits(kind[p], x.word, book[p][n].state)'
    BY <2>2 DEF Fits
  <2> QED
    BY <1>4, <2>2, <2>3 DEF Took
<1> QED
  BY <1>1, <1>2, <1>3, <1>4 DEF Took

\* So does what the number of a document stands for.
LEMMA NumberedStays ==
  ASSUME NEW o \in Orders, Keeps(o), Numbered(o), doc'[o] = doc[o], kind' = kind,
         exec[o].pc = "guarded" => exec'[o].pc = "guarded"
  PROVE  Numbered(o)'
<1>1. CASE /\ doc[o].pid = MockNumber /\ \E p \in Providers : kind[p] = "mock"
           /\ \A p \in Providers, n \in Nat : ~At(o, p, n)
  BY <1>1 DEF Numbered, Keeps
<1>2. CASE \E p \in Providers, n \in Nat :
             /\ At(o, p, n) /\ kind[p] \notin {"dealer", "mock"}
             /\ doc[o].pid = n \/ doc[o].pid = Uuid
             /\ p = doc[o].code => StatusFits(o, kind[p], book[p][n].state)
  <2>1. PICK p \in Providers, n \in Nat :
             /\ At(o, p, n) /\ kind[p] \notin {"dealer", "mock"}
             /\ doc[o].pid = n \/ doc[o].pid = Uuid
             /\ p = doc[o].code => StatusFits(o, kind[p], book[p][n].state)
    BY <1>2
  <2>2. At(o, p, n)' /\ (p = doc[o].code => StatusFits(o, kind[p], book'[p][n].state))
    BY <2>1, StatusFitsStays DEF Keeps
  <2>3. p = doc'[o].code => StatusFits(o, kind[p], book[p][n].state)'
    BY <2>2 DEF StatusFits
  <2> QED
    BY <2>1, <2>2, <2>3 DEF Numbered
<1> QED
  BY <1>1, <1>2 DEF Numbered

LEMMA AnsweredStays ==
  ASSUME NEW o \in Orders, Keeps(o), Answered(o), doc'[o] = doc[o], kind' = kind,
         poll'.answer[o] = poll.answer[o], doc[o].code \in Providers
  PROVE  Answered(o)'
<1>1. ASSUME NEW n \in Nat, At(o, doc[o].code, n)'
      PROVE  Fits(kind[doc[o].code], poll.answer[o], book[doc[o].code][n].state)'
  <2>1. Fits(kind[doc[o].code], poll.answer[o], book'[doc[o].code][n].state)
    BY <1>1, FitsStays DEF Keeps, Answered
  <2> QED
    BY <2>1 DEF Fits
<1> QED
  BY <1>1 DEF Answered

\* The parts of the invariant, for an order whose own state a step leaves.
LEMMA HandledStays ==
  ASSUME NEW o \in Orders, Keeps(o), Handled(o), exec'[o] = exec[o], kind' = kind
  PROVE  Handled(o)'
BY TookStays DEF Handled, Keeps

LEMMA FiledStays ==
  ASSUME NEW o \in Orders, Keeps(o), Filed(o), doc'[o] = doc[o], exec'[o] = exec[o], kind' = kind
  PROVE  Filed(o)'
<1>1. CompletedHow(o)'
  BY DEF Filed, CompletedHow, Keeps
<1>2. doc'[o].pid # None => Numbered(o)'
  BY NumberedStays DEF Filed
<1> QED
  BY <1>1, <1>2 DEF Filed

LEMMA PolledStays ==
  ASSUME NEW o \in Orders, Keeps(o), Polled(o), Filed(o), doc'[o] = doc[o], kind' = kind,
         exec[o].pc = "guarded" => exec'[o].pc = "guarded",
         o \in poll'.todo => o \in poll.todo, poll'.answer[o] \in {None, poll.answer[o]}
  PROVE  Polled(o)'
<1>1. poll'.answer[o] # None => Answered(o)'
  BY AnsweredStays DEF Polled, Filed
<1> QED
  BY <1>1 DEF Polled

LEMMA Untouched ==
  ASSUME NEW o \in Orders, Keeps(o), OrderInv(o), doc'[o] = doc[o], exec'[o] = exec[o], kind' = kind,
         o \in poll'.todo => o \in poll.todo, poll'.answer[o] \in {None, poll.answer[o]}
  PROVE  OrderInv(o)'
BY HandledStays, FiledStays, PolledStays DEF OrderInv

LEMMA SameBook ==
  ASSUME UNCHANGED book, NEW o \in Orders
  PROVE  Keeps(o)
BY DEF Keeps, At

\* While every order keeps its entries, no order gets two.
LEMMA OnceStays ==
  ASSUME Once, \A o \in Orders : Keeps(o)
  PROVE  Once'
BY DEF Once, Keeps

-----------------------------------------------------------------------------
(* The services' steps.                                                    *)

Inductive == TypeOK /\ PlaceInv

\* A service appends an entry to its book.
LEMMA Appended ==
  ASSUME TypeOK, NEW o \in Orders, NEW p \in Providers, NEW state \in Final \cup {"processing"},
         book' = [book EXCEPT ![p] = Append(@, [order |-> o, state |-> state])]
  PROVE  /\ book' \in [Providers -> Seq([order: Orders, state: Final \cup {"processing"}])]
         /\ \A x \in Orders \ {o} : Keeps(x)
         /\ \A q \in Providers, n \in Nat :
              At(o, q, n)' <=> At(o, q, n) \/ (q = p /\ n = Len(book[p]) + 1)
         /\ Len(book[p]) + 1 \in Nat /\ book'[p][Len(book[p]) + 1].state = state
<1> DEFINE e == [order |-> o, state |-> state]
           S == [order: Orders, state: Final \cup {"processing"}]
<1>0. book \in [Providers -> Seq(S)] /\ e \in S /\ book' = [book EXCEPT ![p] = Append(book[p], e)]
  BY DEF TypeOK
<1> HIDE DEF S, e
<1>1. book[p] \in Seq(S) /\ Len(book[p]) \in Nat
  BY <1>0
<1>l. PICK last \in Nat : last = Len(book[p]) + 1
  BY <1>1
<1>2. book'[p] = Append(book[p], e) /\ \A q \in Providers \ {p} : book'[q] = book[q]
  BY <1>0
<1>3. Append(book[p], e) \in Seq(S)
  BY <1>0, <1>1
<1>4. /\ Len(book'[p]) = last /\ book'[p][last] = e
      /\ \A n \in 1..Len(book[p]) : book'[p][n] = book[p][n]
  BY <1>0, <1>1, <1>2, <1>l
<1>e. e.order = o /\ e.state = state
  BY DEF e
<1>5. book' \in [Providers -> Seq(S)]
  BY <1>0, <1>3
<1>6. ASSUME NEW x \in Orders, NEW q \in Providers, NEW n \in Nat
      PROVE  /\ At(x, q, n)' <=> At(x, q, n) \/ (x = o /\ q = p /\ n = last)
             /\ At(x, q, n) => book'[q][n] = book[q][n]
  <2>1. CASE q # p
    BY <1>2, <2>1 DEF At
  <2>2. CASE q = p /\ n = last
    <3>1. At(x, p, last)' <=> x = o
      BY <1>1, <1>l, <1>4, <1>e DEF At
    <3>2. ~At(x, p, last)
      BY <1>1, <1>l DEF At
    <3> QED
      BY <2>2, <3>1, <3>2
  <2>3. CASE q = p /\ n # last
    BY <1>1, <1>l, <1>4, <2>3 DEF At
  <2> QED
    BY <2>1, <2>2, <2>3
<1>7. \A x \in Orders \ {o} : Keeps(x)
  BY <1>6 DEF Keeps
<1>8. \A q \in Providers, n \in Nat :
        At(o, q, n)' <=> At(o, q, n) \/ (q = p /\ n = Len(book[p]) + 1)
  BY <1>6, <1>l
<1>9. Len(book[p]) + 1 \in Nat /\ book'[p][Len(book[p]) + 1].state = state
  BY <1>1, <1>l, <1>4, <1>e
<1>10. book' \in [Providers -> Seq([order: Orders, state: Final \cup {"processing"}])]
  BY <1>5 DEF S
<1> QED
  BY <1>7, <1>8, <1>9, <1>10

\* The replies to a request that was accepted, the order being in state s.
RepliesOf(s) == {None} \cup [flagged: {FALSE}, id: BOOLEAN, word: Says(s)]

\* What an adapter of kind k makes of a reply about an entry in state s.
Made(k, x, s) ==
  \/ x = Refusal
  \/ x.success /\ k = "dealer" /\ x.pid = "none" /\ x.word = "completed"
  \/ /\ x.success /\ k # "dealer"
     /\ x.pid = "number" \/ (x.pid = "uuid" /\ k = "ibra")
     /\ Fits(k, x.word, s)

LEMMA PlacedFits ==
  ASSUME NEW k \in Adapters \ {"mock"}, NEW s \in Final \cup {"processing"},
         NEW r \in RepliesOf(s)
  PROVE  Made(k, Placed(k, r), s)
<1>1. CASE Unusable(k, r)
  BY <1>1 DEF Placed, Made
<1>2. CASE ~Unusable(k, r)
  <2>1. r \in [flagged: {FALSE}, id: BOOLEAN, word: Says(s)] /\ r.word \in Says(s)
    BY <1>2 DEF Unusable, RepliesOf
  <2>2. Placed(k, r) = [success |-> TRUE, word |-> Word(k, r.word),
          pid |-> CASE k = "dealer" -> "none" [] k = "ibra" /\ ~r.id -> "uuid" [] OTHER -> "number"]
    BY <1>2 DEF Placed
  <2>3. k # "dealer" => Fits(k, Word(k, r.word), s)
    BY <2>1, NoneAssumption DEF Fits, Word, Says, Final, Words, Adapters
  <2>4. k = "dealer" => Word(k, r.word) = "completed"
    BY DEF Word
  <2> QED
    BY <2>2, <2>3, <2>4 DEF Made
<1> QED
  BY <1>1, <1>2

LEMMA AcceptInv ==
  ASSUME Inductive, NEW o \in Orders, Accept(o)
  PROVE  Inductive'
<1>p. PICK p \in Providers : p = exec[o].adapter
  BY DEF Accept, Inductive, PlaceInv, OrderInv, Handled
<1>1. /\ exec[o].pc = "sent" /\ kind[p] # "mock" /\ UNCHANGED <<kind, link, active, doc, poll>>
      /\ kind[p] \in Adapters \ {"mock"}
  BY <1>p, KindsAssumption DEF Accept, Inductive, TypeOK
<1>2. PICK state \in Final \cup {"processing"} :
        /\ book' = [book EXCEPT ![p] = Append(@, [order |-> o, state |-> state])]
        /\ \E r \in RepliesOf(state) : Returns(o, r)
  BY <1>p DEF Accept, RepliesOf
<1>r. PICK r \in RepliesOf(state) : Returns(o, r)
  BY <1>2
<1>3. /\ book' \in [Providers -> Seq([order: Orders, state: Final \cup {"processing"}])]
      /\ \A x \in Orders \ {o} : Keeps(x)
      /\ \E last \in Nat :
           /\ \A q \in Providers, n \in Nat : At(o, q, n)' <=> At(o, q, n) \/ (q = p /\ n = last)
           /\ book'[p][last].state = state
  BY <1>2, Appended DEF Inductive
<1>l. PICK last \in Nat :
        /\ \A q \in Providers, n \in Nat : At(o, q, n)' <=> At(o, q, n) \/ (q = p /\ n = last)
        /\ book'[p][last].state = state
  BY <1>3
<1>4. r \in {None} \cup [flagged: BOOLEAN, id: BOOLEAN, word: Words \cup {None}]
  BY SaysType DEF RepliesOf
<1>5. /\ exec' \in [Orders -> ExecSet] /\ \A y \in Orders \ {o} : exec'[y] = exec[y]
      /\ exec'[o].pc = "replied" /\ exec'[o].adapter = p
      /\ exec'[o].result = Placed(kind[p], r) /\ exec'[o].result \in Result
  BY <1>p, <1>r, <1>4, ReplyType DEF Inductive
<1>6. TypeOK'
  BY <1>1, <1>3, <1>5 DEF Inductive, TypeOK
<1>7. \A q \in Providers, n \in Nat : ~At(o, q, n)
  BY <1>1 DEF Inductive, PlaceInv, OrderInv, Handled, Ends
<1>8. \A q \in Providers, n \in Nat : At(o, q, n)' <=> q = p /\ n = last
  BY <1>l, <1>7
<1>9. Once'
  <2> SUFFICES ASSUME NEW x \in Orders, NEW q \in Providers, NEW t \in Providers,
                      NEW n \in Nat, NEW m \in Nat, At(x, q, n)', At(x, t, m)'
               PROVE  q = t /\ n = m
    BY DEF Once
  <2>1. CASE x = o
    BY <1>8, <2>1
  <2>2. CASE x # o
    BY <1>3, <2>2 DEF Keeps, Inductive, PlaceInv, Once
  <2> QED
    BY <2>1, <2>2
<1>10. Took(o)'
  <2>1. At(o, p, last)'
    BY <1>8
  <2>2. Fits(kind[p], exec'[o].result.word, state) => Fits(kind[p], exec[o].result.word, book[p][last].state)'
    BY <1>1, <1>l DEF Fits
  <2>3. CASE exec'[o].result = Refusal
    BY <2>3 DEF Took, Refusal
  <2>4. CASE /\ exec'[o].result.success /\ kind[p] = "dealer" /\ exec'[o].result.pid = "none"
             /\ exec'[o].result.word = "completed"
    BY <1>1, <1>5, <2>1, <2>4 DEF Took
  <2>5. CASE /\ exec'[o].result.success /\ kind[p] # "dealer"
             /\ exec'[o].result.pid = "number" \/ (exec'[o].result.pid = "uuid" /\ kind[p] = "ibra")
             /\ Fits(kind[p], exec'[o].result.word, state)
    BY <1>1, <1>5, <2>1, <2>2, <2>5 DEF Took
  <2>6. Made(kind[p], exec'[o].result, state)
    BY <1>1, <1>5, PlacedFits
  <2> QED
    BY <2>3, <2>4, <2>5, <2>6 DEF Made
<1>11. OrderInv(o)'
  <2>1. Handled(o)'
    BY <1>1, <1>5, <1>10 DEF Handled
  <2>2. /\ doc[o].pid = None /\ doc[o].status = "PROCESSING" /\ doc[o].code \in Providers
        /\ doc[o].retry < MaxRetry
    BY <1>1 DEF Inductive, PlaceInv, OrderInv, Filed, Ends
  <2>3. Filed(o)'
    BY <1>1, <1>5, <2>2 DEF Filed, CompletedHow
  <2>4. o \notin poll.todo /\ poll.answer[o] = None
    BY <2>2 DEF Inductive, PlaceInv, OrderInv, Polled
  <2>5. Polled(o)'
    BY <1>1, <2>4 DEF Polled
  <2> QED
    BY <2>1, <2>3, <2>5 DEF OrderInv
<1>12. \A x \in Orders \ {o} : OrderInv(x)'
  BY <1>1, <1>3, <1>5, Untouched DEF Inductive, PlaceInv
<1> QED
  BY <1>6, <1>9, <1>11, <1>12 DEF Inductive, PlaceInv

LEMMA RefuseInv ==
  ASSUME Inductive, NEW o \in Orders, Refuse(o)
  PROVE  Inductive'
<1>p. PICK p \in Providers : p = exec[o].adapter
  BY DEF Refuse, Inductive, PlaceInv, OrderInv, Handled
<1>1. /\ exec[o].pc = "sent" /\ UNCHANGED <<kind, link, active, book, doc, poll>>
      /\ kind[p] \in Adapters
  BY <1>p, KindsAssumption DEF Refuse, Inductive, TypeOK
<1>2. PICK r \in {None, [flagged |-> TRUE, id |-> FALSE, word |-> "failed"]} : Returns(o, r)
  BY DEF Refuse
<1>3. r \in {None} \cup [flagged: BOOLEAN, id: BOOLEAN, word: Words \cup {None}] /\ (r = None \/ r.flagged)
  <2>1. CASE r = None
    BY <2>1
  <2>2. CASE r = [flagged |-> TRUE, id |-> FALSE, word |-> "failed"]
    BY <2>2 DEF Words
  <2> QED
    BY <2>1, <2>2
<1>4. /\ exec' \in [Orders -> ExecSet] /\ \A y \in Orders \ {o} : exec'[y] = exec[y]
      /\ exec'[o].pc = "replied" /\ exec'[o].adapter = p
      /\ exec'[o].result = Placed(kind[p], r) /\ exec'[o].result \in Result
  BY <1>p, <1>2, <1>3, ReplyType DEF Inductive
<1>5. TypeOK'
  BY <1>1, <1>4 DEF Inductive, TypeOK
<1>6. \A x \in Orders : Keeps(x)
  BY <1>1, SameBook
<1>7. Took(o)'
  <2>1. \A q \in Providers, n \in Nat : ~At(o, q, n)'
    BY <1>1 DEF Inductive, PlaceInv, OrderInv, Handled, At, Ends
  <2>2. CASE kind[p] = "mock"
    <3>1. exec'[o].result = [success |-> TRUE, pid |-> "mock", word |-> "processing"]
      BY <1>4, <2>2 DEF Placed
    <3> QED
      BY <1>1, <1>4, <2>1, <2>2, <3>1 DEF Took
  <2>3. CASE kind[p] # "mock"
    <3>1. exec'[o].result = Refusal
      BY <1>3, <1>4, <2>3 DEF Placed, Unusable
    <3> QED
      BY <3>1 DEF Took, Refusal
  <2> QED
    BY <2>2, <2>3
<1>8. OrderInv(o)'
  <2>1. Handled(o)'
    BY <1>1, <1>4, <1>6, <1>7 DEF Handled
  <2>2. /\ doc[o].pid = None /\ doc[o].status = "PROCESSING" /\ doc[o].code \in Providers
        /\ doc[o].retry < MaxRetry
    BY <1>1 DEF Inductive, PlaceInv, OrderInv, Filed, Ends
  <2>3. Filed(o)'
    BY <1>1, <1>4, <2>2 DEF Filed, CompletedHow
  <2>4. o \notin poll.todo /\ poll.answer[o] = None
    BY <2>2 DEF Inductive, PlaceInv, OrderInv, Polled
  <2>5. Polled(o)'
    BY <1>1, <2>4 DEF Polled
  <2> QED
    BY <2>1, <2>3, <2>5 DEF OrderInv
<1>9. \A x \in Orders \ {o} : OrderInv(x)'
  BY <1>1, <1>4, <1>6, Untouched DEF Inductive, PlaceInv
<1> QED
  BY <1>5, <1>6, <1>8, <1>9, OnceStays DEF Inductive, PlaceInv

LEMMA ProgressInv ==
  ASSUME Inductive, NEW p \in Providers, Progress(p)
  PROVE  Inductive'
<1>1. PICK n \in 1..Len(book[p]), state \in Final :
        /\ book[p][n].state = "processing"
        /\ book' = [book EXCEPT ![p] = [book[p] EXCEPT ![n] =
                                          [order |-> book[p][n].order, state |-> state]]]
  BY DEF Progress
<1> DEFINE S == [order: Orders, state: Final \cup {"processing"}]
           e == [order |-> book[p][n].order, state |-> state]
           b == [book[p] EXCEPT ![n] = e]
<1>2. UNCHANGED <<kind, link, active, doc, exec, poll>>
  BY DEF Progress
<1>3. book \in [Providers -> Seq(S)] /\ book[p] \in Seq(S)
  BY DEF Inductive, TypeOK
<1> HIDE DEF S
<1>4. book[p][n] \in S
  BY <1>3
<1> USE DEF S
<1>5. e \in S /\ e.order = book[p][n].order /\ book' = [book EXCEPT ![p] = b]
  BY <1>1, <1>4
<1> HIDE DEF S, e
<1>6. /\ b \in Seq(S) /\ Len(b) = Len(book[p]) /\ b[n] = e
      /\ \A m \in 1..Len(book[p]) : m # n => b[m] = book[p][m]
  BY <1>3, <1>5
<1> HIDE DEF b
<1>7. book' \in [Providers -> Seq(S)] /\ book'[p] = b /\ \A q \in Providers \ {p} : book'[q] = book[q]
  BY <1>3, <1>5, <1>6
<1>8. \A x \in Orders : Keeps(x)
  <2> SUFFICES ASSUME NEW x \in Orders, NEW q \in Providers, NEW m \in Nat
               PROVE  /\ At(x, q, m)' <=> At(x, q, m)
                      /\ At(x, q, m) => \/ book'[q][m].state = book[q][m].state
                                        \/ book[q][m].state = "processing"
    BY DEF Keeps
  <2>1. CASE q # p
    BY <1>7, <2>1 DEF At
  <2>2. CASE q = p /\ m # n
    BY <1>6, <1>7, <2>2 DEF At
  <2>3. CASE q = p /\ m = n
    BY <1>1, <1>5, <1>6, <1>7, <2>3 DEF At
  <2> QED
    BY <2>1, <2>2, <2>3
<1>9. TypeOK'
  BY <1>2, <1>7 DEF Inductive, TypeOK, S
<1>10. \A x \in Orders : OrderInv(x)'
  BY <1>2, <1>8, Untouched DEF Inductive, PlaceInv
<1> QED
  BY <1>8, <1>9, <1>10, OnceStays DEF Inductive, PlaceInv

-----------------------------------------------------------------------------
(* Creation and execution.                                                 *)

\* A step of the order's own call, which no service sees: it is enough to know
\* what becomes of the call, of the document and of what polling has in hand.
LEMMA CallSteps ==
  ASSUME Inductive, NEW o \in Orders, UNCHANGED <<kind, link, active, book, poll>>,
         NEW x \in ExecSet, exec' = [exec EXCEPT ![o] = x],
         NEW d \in DocSet, doc' = [doc EXCEPT ![o] = d],
         Handled(o)', Filed(o)', Polled(o)'
  PROVE  Inductive'
<1>1. exec' \in [Orders -> ExecSet] /\ exec'[o] = x /\ \A y \in Orders \ {o} : exec'[y] = exec[y]
  BY ExecMoves DEF Inductive
<1>2. doc' \in [Orders -> DocSet] /\ doc'[o] = d /\ \A y \in Orders \ {o} : doc'[y] = doc[y]
  BY DocMoves DEF Inductive
<1>3. TypeOK'
  BY <1>1, <1>2 DEF Inductive, TypeOK
<1>4. \A y \in Orders : Keeps(y)
  BY SameBook
<1>5. \A y \in Orders \ {o} : OrderInv(y)'
  BY <1>1, <1>2, <1>4, Untouched DEF Inductive, PlaceInv
<1> QED
  BY <1>3, <1>4, <1>5, OnceStays DEF Inductive, PlaceInv, OrderInv

\* Polling has nothing in hand of an order without a number.
LEMMA CallMoves ==
  ASSUME Inductive, NEW o \in Orders, UNCHANGED <<kind, link, active, book, poll>>,
         NEW x \in ExecSet, exec' = [exec EXCEPT ![o] = x],
         NEW d \in DocSet, doc' = [doc EXCEPT ![o] = d],
         exec[o].pc \notin {"tail"} \cup Ends, Handled(o)', Filed(o)'
  PROVE  Inductive'
<1>1. doc[o].pid = None
  BY DEF Inductive, PlaceInv, OrderInv, Filed
<1>2. Polled(o)'
  BY <1>1 DEF Inductive, PlaceInv, OrderInv, Polled
<1> QED
  BY <1>2, CallSteps

LEMMA ResolveInv ==
  ASSUME Inductive, NEW o \in Orders, Resolve(o)
  PROVE  Inductive'
<1> DEFINE x == [pc |-> "store", code |-> link, result |-> None,
                 adapter |-> IF link \in active THEN link ELSE None]
<1>1. /\ exec[o].pc = "idle" /\ exec' = [exec EXCEPT ![o] = x]
      /\ UNCHANGED <<kind, link, active, book, doc, poll>>
  BY DEF Resolve
<1>2. x \in ExecSet /\ doc[o] \in DocSet /\ doc' = [doc EXCEPT ![o] = doc[o]]
  BY <1>1 DEF Inductive, TypeOK, ExecSet
<1>3. exec'[o] = x /\ doc'[o] = doc[o] /\ x.pc = "store" /\ x.code \in Providers
  BY <1>1 DEF Inductive, TypeOK
<1> HIDE DEF x
<1>4. Handled(o)'
  BY <1>1, <1>3 DEF Inductive, PlaceInv, OrderInv, Handled, At, Ends
<1>5. doc[o].status = "none" /\ doc[o].pid = None
  BY <1>1 DEF Inductive, PlaceInv, OrderInv, Filed, Ends
<1>6. Filed(o)'
  BY <1>1, <1>3, <1>5 DEF Filed, CompletedHow
<1> QED
  BY <1>1, <1>2, <1>4, <1>6, CallMoves DEF Ends

LEMMA StoreInv ==
  ASSUME Inductive, NEW o \in Orders, Store(o)
  PROVE  Inductive'
<1> DEFINE d == [status |-> "PROCESSING", pid |-> None, code |-> exec[o].code, retry |-> 0]
<1>1. /\ exec[o].pc = "store" /\ doc' = [doc EXCEPT ![o] = d]
      /\ UNCHANGED <<kind, link, active, book, poll>>
  BY DEF Store
<1>2. exec[o].code \in Providers /\ exec[o] \in ExecSet
  BY <1>1 DEF Inductive, TypeOK, PlaceInv, OrderInv, Handled
<1>3. PICK x \in ExecSet : exec' = [exec EXCEPT ![o] = x] /\ x.pc \in {"run", "cut"}
  <2>1. CASE exec' = [exec EXCEPT ![o] = [exec[o] EXCEPT !.pc = "run", !.code = None]]
    <3>1. /\ [exec[o] EXCEPT !.pc = "run", !.code = None] \in ExecSet
          /\ [exec[o] EXCEPT !.pc = "run", !.code = None].pc = "run"
      BY <1>2 DEF ExecSet
    <3> QED
      BY <2>1, <3>1
  <2>2. CASE Become(o, "cut")
    <3>1. "cut" \in {"tail"} \cup Ends
      BY DEF Ends
    <3> QED
      BY <2>2, <3>1, EndType DEF Become
  <2> QED
    BY <2>1, <2>2 DEF Store
<1>4. d \in DocSet /\ d.status = "PROCESSING" /\ d.pid = None /\ d.code \in Providers /\ d.retry < MaxRetry
  BY <1>2, RetryAssumption DEF DocSet, Statuses, Pids
<1>5. exec'[o] = x /\ doc'[o] = d
  BY <1>1, <1>3 DEF Inductive, TypeOK
<1> HIDE DEF d
<1>6. Handled(o)'
  BY <1>1, <1>3, <1>5 DEF Inductive, PlaceInv, OrderInv, Handled, At, Ends
<1>7. Filed(o)'
  BY <1>3, <1>4, <1>5 DEF Filed, CompletedHow
<1> QED
  BY <1>1, <1>3, <1>4, <1>6, <1>7, CallMoves DEF Ends

LEMMA ExecuteInv ==
  ASSUME Inductive, NEW o \in Orders, Execute(o)
  PROVE  Inductive'
<1>1. exec[o].pc = "run" /\ UNCHANGED <<kind, link, active, book, poll>>
  BY DEF Execute
<1>2. exec[o] \in ExecSet /\ doc[o] \in DocSet /\ link \in Providers
  BY DEF Inductive, TypeOK
<1>3. /\ doc[o].status = "PROCESSING" /\ doc[o].pid = None /\ doc[o].code \in Providers
      /\ doc[o].retry < MaxRetry
  BY <1>1 DEF Inductive, PlaceInv, OrderInv, Filed, Ends
<1>4. CASE exec[o].adapter = None /\ link \notin active
  <2> DEFINE x == [NoExec EXCEPT !.pc = "done"]
             d == [doc[o] EXCEPT !.status = "FAILED"]
  <2>1. exec' = [exec EXCEPT ![o] = x] /\ doc' = [doc EXCEPT ![o] = d]
    BY <1>4 DEF Execute, Settle, Become
  <2>2. x \in ExecSet /\ x.pc = "done"
    BY EndType DEF Ends
  <2>3. d \in DocSet /\ d.status = "FAILED" /\ d.pid = None
    BY <1>2, <1>3 DEF DocSet, Statuses
  <2>4. exec'[o] = x /\ doc'[o] = d
    BY <2>1 DEF Inductive, TypeOK
  <2> HIDE DEF x, d
  <2>5. Handled(o)'
    BY <1>1, <2>2, <2>4 DEF Handled, Ends
  <2>6. Filed(o)'
    BY <1>1, <2>2, <2>3, <2>4 DEF Filed, CompletedHow
  <2> QED
    BY <1>1, <2>1, <2>2, <2>3, <2>5, <2>6, CallMoves DEF Ends
<1>5. CASE ~(exec[o].adapter = None /\ link \notin active)
  <2>1. PICK p : p = IF exec[o].adapter = None THEN link ELSE exec[o].adapter
    OBVIOUS
  <2>2. p \in Providers
    BY <1>2, <2>1 DEF ExecSet
  <2> DEFINE x == [exec[o] EXCEPT !.pc = "sent", !.adapter = p]
  <2>3. exec' = [exec EXCEPT ![o] = x] /\ doc' = [doc EXCEPT ![o] = doc[o]]
    BY <1>5, <2>1 DEF Execute, Inductive, TypeOK
  <2>4. x \in ExecSet /\ x.pc = "sent" /\ x.adapter = p
    BY <1>2, <2>2 DEF ExecSet
  <2>5. exec'[o] = x /\ doc'[o] = doc[o]
    BY <2>3 DEF Inductive, TypeOK
  <2> HIDE DEF x
  <2>6. Handled(o)'
    BY <1>1, <2>2, <2>4, <2>5 DEF Inductive, PlaceInv, OrderInv, Handled, At, Ends
  <2>7. Filed(o)'
    BY <1>1, <1>3, <2>4, <2>5 DEF Filed, CompletedHow
  <2> QED
    BY <1>1, <1>2, <2>3, <2>4, <2>6, <2>7, CallMoves DEF Ends
<1> QED
  BY <1>4, <1>5

\* The number of a document that just got a service's number.
LEMMA PidIsEntry ==
  ASSUME TypeOK, NEW o \in Orders, NEW p \in Providers, p = exec[o].adapter,
         \E n \in Nat : At(o, p, n)
  PROVE  PidOf(o, "number") \in Nat \ {0} /\ At(o, p, PidOf(o, "number"))
<1>1. PidOf(o, "number") = CHOOSE n \in 1..Len(book[p]) : book[p][n].order = o
  BY DEF PidOf
<1>2. \E n \in 1..Len(book[p]) : book[p][n].order = o
  BY DEF At
<1>3. PidOf(o, "number") \in 1..Len(book[p]) /\ book[p][PidOf(o, "number")].order = o
  BY <1>1, <1>2
<1>4. Len(book[p]) \in Nat
  BY DEF TypeOK
<1> QED
  BY <1>3, <1>4 DEF At

\* A result in hand, recorded.
LEMMA RecordInv ==
  ASSUME Inductive, NEW o \in Orders, Record(o)
  PROVE  Inductive'
<1> DEFINE r == exec[o].result
           x == [NoExec EXCEPT !.pc = "tail"]
           d == [doc[o] EXCEPT !.pid = PidOf(o, r.pid), !.status = Outcome(r)]
<1>1. /\ exec[o].pc = "replied" /\ exec' = [exec EXCEPT ![o] = x] /\ doc' = [doc EXCEPT ![o] = d]
      /\ UNCHANGED <<kind, link, active, book, poll>>
  BY DEF Record, Become
<1>2. /\ exec[o] \in ExecSet /\ doc[o] \in DocSet /\ r \in Result /\ Took(o)
      /\ exec[o].adapter \in Providers /\ kind[exec[o].adapter] \in Adapters
  BY <1>1, KindsAssumption DEF Inductive, TypeOK, PlaceInv, OrderInv, Handled
<1>3. /\ doc[o].status = "PROCESSING" /\ doc[o].pid = None /\ doc[o].code \in Providers
      /\ doc[o].retry < MaxRetry
  BY <1>1 DEF Inductive, PlaceInv, OrderInv, Filed, Ends
<1>4. x \in ExecSet /\ x.pc = "tail"
  BY EndType
<1>5. exec'[o] = x /\ doc'[o] = d
  BY <1>1 DEF Inductive, TypeOK
<1>6. Handled(o)'
  BY <1>1, <1>4, <1>5 DEF Handled
<1>p. PICK p \in Providers : p = exec[o].adapter
  BY <1>2
<1>s. /\ d.status = Outcome(r) /\ d.pid = PidOf(o, r.pid) /\ d.code = doc[o].code /\ d.retry = doc[o].retry
      /\ PidOf(o, r.pid) \in Pids /\ Outcome(r) \in Statuses => d \in DocSet
  BY <1>2 DEF DocSet
<1> HIDE DEF x, d
<1>7. CASE r = Refusal
  <2>1. Outcome(r) = "FAILED" /\ PidOf(o, r.pid) = None
    BY <1>7 DEF Refusal, Outcome, PidOf
  <2>2. d \in DocSet
    BY <1>s, <2>1 DEF Pids, Statuses
  <2>3. Filed(o)'
    BY <1>1, <1>4, <1>5, <1>s, <2>1 DEF Filed, CompletedHow
  <2> QED
    BY <1>1, <1>4, <1>6, <2>2, <2>3, CallMoves DEF Ends
<1>8. CASE /\ r = [success |-> TRUE, pid |-> "mock", word |-> "processing"] /\ kind[p] = "mock"
           /\ \A q \in Providers, n \in Nat : ~At(o, q, n)
  <2>1. Outcome(r) = "PROCESSING" /\ PidOf(o, r.pid) = MockNumber
    BY <1>8 DEF Outcome, PidOf, Internal
  <2>2. d \in DocSet
    BY <1>s, <2>1, MockAssumption DEF Pids, Statuses
  <2>3. \A q \in Providers, n \in Nat : ~At(o, q, n)'
    BY <1>1, <1>8 DEF At
  <2>4. MockNumber # None
    BY NoneAssumption, MockAssumption
  <2>5. Numbered(o)'
    BY <1>1, <1>5, <1>8, <1>s, <2>1, <2>3 DEF Numbered
  <2>6. Filed(o)'
    BY <1>1, <1>3, <1>4, <1>5, <1>s, <2>1, <2>4, <2>5 DEF Filed, CompletedHow
  <2> QED
    BY <1>1, <1>4, <1>6, <2>2, <2>6, CallMoves DEF Ends
<1>9. CASE /\ r.success /\ kind[p] = "dealer" /\ r.pid = "none" /\ r.word = "completed"
           /\ \E n \in Nat : At(o, p, n)
  <2>1. Outcome(r) = "COMPLETED" /\ PidOf(o, r.pid) = None
    BY <1>9 DEF Outcome, PidOf, Internal
  <2>2. d \in DocSet
    BY <1>s, <2>1 DEF Pids, Statuses
  <2>3. \E n \in Nat : At(o, p, n)'
    BY <1>1, <1>9 DEF At
  <2>4. Filed(o)'
    BY <1>1, <1>4, <1>5, <1>s, <2>1, <2>3 DEF Filed, CompletedHow
  <2> QED
    BY <1>1, <1>4, <1>6, <2>2, <2>4, CallMoves DEF Ends
<1>10. CASE /\ r.success /\ kind[p] \notin {"dealer", "mock"}
            /\ r.pid = "number" \/ (r.pid = "uuid" /\ kind[p] = "ibra")
            /\ \E n \in Nat : At(o, p, n) /\ Fits(kind[p], r.word, book[p][n].state)
  <2>1. PICK n \in Nat : At(o, p, n) /\ Fits(kind[p], r.word, book[p][n].state)
    BY <1>10
  <2>2. r.word \in Words /\ Outcome(r) \in {"FAILED", "PROCESSING", "COMPLETED"}
    BY <1>2 DEF Result, Outcome
  <2>3. PidOf(o, r.pid) \in {n, Uuid}
    <3>1. CASE r.pid = "uuid"
      BY <3>1 DEF PidOf
    <3>2. CASE r.pid = "number"
      <4>1. PidOf(o, "number") \in Nat \ {0} /\ At(o, p, PidOf(o, "number"))
        BY <1>p, <2>1, PidIsEntry DEF Inductive
      <4>2. PidOf(o, "number") = n
        BY <2>1, <4>1 DEF Inductive, PlaceInv, Once
      <4> QED
        BY <3>2, <4>2
    <3> QED
      BY <1>10, <3>1, <3>2
  <2>4. n # 0 /\ n \in Pids /\ Uuid \in Pids /\ n # None /\ Uuid # None
    BY <2>1, NoneAssumption DEF At, Pids, Uuid
  <2>5. d \in DocSet
    BY <1>s, <2>2, <2>3, <2>4 DEF Statuses
  <2>6. StatusFits(o, kind[p], book[p][n].state)'
    <3>1. Fits(kind[p], r.word, book[p][n].state)
      BY <2>1
    <3>2. r.success
      BY <1>10
    <3> QED
      BY <1>1, <1>5, <1>s, <2>2, <3>1, <3>2, InternalType DEF StatusFits, Fits, Outcome, Final, Words
  <2>7. At(o, p, n)' /\ kind' = kind
    BY <1>1, <2>1 DEF At
  <2>8. Numbered(o)'
    BY <1>5, <1>10, <1>s, <2>3, <2>6, <2>7 DEF Numbered
  <2>9. Filed(o)'
    BY <1>1, <1>3, <1>4, <1>5, <1>s, <2>2, <2>3, <2>4, <2>7, <2>8 DEF Filed, CompletedHow
  <2> QED
    BY <1>1, <1>4, <1>6, <2>5, <2>9, CallMoves DEF Ends
<1> QED
  BY <1>2, <1>p, <1>7, <1>8, <1>9, <1>10 DEF Took

LEMMA ReturnInv ==
  ASSUME Inductive, NEW o \in Orders, Return(o)
  PROVE  Inductive'
<1> DEFINE x == [NoExec EXCEPT !.pc = "done"]
<1>1. /\ exec[o].pc = "tail" /\ exec' = [exec EXCEPT ![o] = x]
      /\ UNCHANGED <<kind, link, active, book, doc, poll>>
  BY DEF Return, Become
<1>2. x \in ExecSet /\ x.pc = "done"
  BY EndType DEF Ends
<1>3. doc[o] \in DocSet /\ doc' = [doc EXCEPT ![o] = doc[o]] /\ exec'[o] = x /\ doc'[o] = doc[o]
  BY <1>1 DEF Inductive, TypeOK
<1> HIDE DEF x
<1>4. Keeps(o) /\ kind' = kind
  BY <1>1, SameBook
<1>5. Handled(o)'
  BY <1>2, <1>3 DEF Handled, Ends
<1>6. doc[o].pid # None => Numbered(o)'
  BY <1>1, <1>3, <1>4, NumberedStays DEF Inductive, PlaceInv, OrderInv, Filed
<1>7. CompletedHow(o)'
  BY <1>1, <1>3 DEF Inductive, PlaceInv, OrderInv, Filed, CompletedHow, At
<1>8. Filed(o)'
  BY <1>1, <1>2, <1>3, <1>6, <1>7 DEF Inductive, PlaceInv, OrderInv, Filed, Ends
<1>9. Polled(o)'
  BY <1>1, <1>3, <1>4, PolledStays DEF Inductive, PlaceInv, OrderInv
<1> QED
  BY <1>1, <1>2, <1>3, <1>5, <1>8, <1>9, CallSteps

\* The guard marks an order failed, or is cut off itself.
LEMMA GuardInv ==
  ASSUME Inductive, NEW o \in Orders, Guard(o)
  PROVE  Inductive'
<1>1. exec[o].pc \in {"run", "replied", "tail"} /\ UNCHANGED <<kind, link, active, book, poll>>
  BY DEF Guard
<1>2. doc[o] \in DocSet /\ Handled(o) /\ Filed(o) /\ Polled(o)
  BY DEF Inductive, TypeOK, PlaceInv, OrderInv
<1>3. Keeps(o) /\ kind' = kind
  BY <1>1, SameBook
<1>4. CASE Settle(o, "FAILED") /\ Become(o, "guarded")
  <2> DEFINE x == [NoExec EXCEPT !.pc = "guarded"]
             d == [doc[o] EXCEPT !.status = "FAILED"]
  <2>1. exec' = [exec EXCEPT ![o] = x] /\ doc' = [doc EXCEPT ![o] = d]
    BY <1>4 DEF Settle, Become
  <2>2. x \in ExecSet /\ x.pc = "guarded"
    BY EndType DEF Ends
  <2>3. /\ d \in DocSet /\ d.status = "FAILED" /\ d.pid = doc[o].pid /\ d.code = doc[o].code
        /\ d.retry = doc[o].retry
    BY <1>2 DEF DocSet, Statuses
  <2>4. exec'[o] = x /\ doc'[o] = d
    BY <2>1 DEF Inductive, TypeOK
  <2> HIDE DEF x, d
  <2>5. Handled(o)'
    BY <2>2, <2>4 DEF Handled, Ends
  <2>6. ASSUME doc[o].pid # None PROVE Numbered(o)'
    <3>1. Numbered(o)
      BY <1>2, <2>6 DEF Filed
    <3>2. CASE /\ doc[o].pid = MockNumber /\ \E p \in Providers : kind[p] = "mock"
               /\ \A p \in Providers, n \in Nat : ~At(o, p, n)
      BY <1>3, <2>3, <2>4, <3>2 DEF Numbered, Keeps
    <3>3. CASE \E p \in Providers, n \in Nat :
                 /\ At(o, p, n) /\ kind[p] \notin {"dealer", "mock"}
                 /\ doc[o].pid = n \/ doc[o].pid = Uuid
      <4>1. PICK p \in Providers, n \in Nat :
                 /\ At(o, p, n) /\ kind[p] \notin {"dealer", "mock"}
                 /\ doc[o].pid = n \/ doc[o].pid = Uuid
        BY <3>3
      <4>2. StatusFits(o, kind[p], book[p][n].state)'
        BY <2>2, <2>3, <2>4 DEF StatusFits
      <4> QED
        BY <1>3, <2>3, <2>4, <4>1, <4>2 DEF Numbered, Keeps
    <3> QED
      BY <3>1, <3>2, <3>3 DEF Numbered
  <2>7. Filed(o)'
    BY <1>2, <2>2, <2>3, <2>4, <2>6 DEF Filed, CompletedHow, Ends
  <2>8. poll.answer[o] # None => Answered(o)'
    <3>1. poll.answer[o] # None => Answered(o)
      BY <1>2 DEF Polled
    <3> QED
      BY <1>1, <2>3, <2>4, <3>1 DEF Answered, At, Fits
  <2>9. Polled(o)'
    BY <1>1, <1>2, <2>2, <2>3, <2>4, <2>8 DEF Polled
  <2> QED
    BY <1>1, <2>1, <2>2, <2>3, <2>5, <2>7, <2>9, CallSteps
<1>5. CASE Become(o, "cut") /\ UNCHANGED doc
  <2> DEFINE x == [NoExec EXCEPT !.pc = "cut"]
  <2>1. exec' = [exec EXCEPT ![o] = x] /\ doc' = [doc EXCEPT ![o] = doc[o]]
    BY <1>5 DEF Become, Inductive, TypeOK
  <2>2. x \in ExecSet /\ x.pc = "cut"
    BY EndType DEF Ends
  <2>3. exec'[o] = x /\ doc'[o] = doc[o]
    BY <2>1 DEF Inductive, TypeOK
  <2> HIDE DEF x
  <2>4. Handled(o)'
    BY <2>2, <2>3 DEF Handled, Ends
  <2>5. doc[o].pid # None => Numbered(o)'
    BY <1>1, <1>2, <1>3, <2>3, NumberedStays DEF Filed
  <2>6. CompletedHow(o)'
    BY <1>1, <1>2, <2>3 DEF Filed, CompletedHow, At
  <2>7. Filed(o)'
    BY <1>1, <1>2, <2>2, <2>3, <2>5, <2>6 DEF Filed, Ends
  <2>8. Polled(o)'
    BY <1>1, <1>2, <1>3, <2>3, PolledStays
  <2> QED
    BY <1>1, <1>2, <2>1, <2>2, <2>4, <2>7, <2>8, CallSteps
<1> QED
  BY <1>4, <1>5 DEF Guard

-----------------------------------------------------------------------------
(* Polling.                                                                *)

LEMMA PollBeginInv ==
  ASSUME Inductive, PollBegin
  PROVE  Inductive'
<1>1. UNCHANGED <<kind, link, active, book, doc, exec>>
  BY DEF PollBegin
<1>2. PICK todo \in SUBSET {o \in Orders : Open(o)} : poll' = [NoPoll EXCEPT !.todo = todo]
  BY DEF PollBegin
<1>3. poll' \in PollSet /\ poll'.todo = todo /\ \A o \in Orders : poll'.answer[o] = None
  BY <1>2 DEF NoPoll, PollSet
<1>4. TypeOK'
  BY <1>1, <1>3 DEF Inductive, TypeOK
<1>5. \A o \in Orders : Keeps(o)
  BY <1>1, SameBook
<1>6. ASSUME NEW o \in Orders PROVE OrderInv(o)'
  <2>1. Handled(o)' /\ Filed(o)'
    BY <1>1, <1>5, HandledStays, FiledStays DEF Inductive, PlaceInv, OrderInv
  <2>2. Polled(o)'
    <3>1. \A x \in todo : doc[x].pid # None /\ doc[x].status = "PROCESSING" /\ doc[x].retry < MaxRetry
      BY DEF Inductive, PlaceInv, OrderInv, Filed, Open
    <3> QED
      BY <1>1, <1>3, <3>1 DEF Polled
  <2> QED
    BY <2>1, <2>2 DEF OrderInv
<1> QED
  BY <1>4, <1>5, <1>6, OnceStays DEF Inductive, PlaceInv

\* What a provider answers for an order is about the order's own entry, if it
\* has one there: numbers of other orders are not its own.
LEMMA AnswersFit ==
  ASSUME Inductive, NEW o \in Orders, doc[o].pid # None, NEW w \in Answers(doc[o].code, o), w # None
  PROVE  /\ w \in Words
         /\ kind[doc[o].code] = "mock" => w = "processing"
         /\ \A n \in Nat : At(o, doc[o].code, n) => Fits(kind[doc[o].code], w, book[doc[o].code][n].state)
<1>1. PICK p \in Providers : p = doc[o].code
  BY DEF Inductive, PlaceInv, OrderInv, Filed
<1>2. kind[p] \in Adapters /\ book[p] \in Seq([order: Orders, state: Final \cup {"processing"}])
  BY KindsAssumption DEF Inductive, TypeOK
<1>3. Numbered(o)
  BY DEF Inductive, PlaceInv, OrderInv, Filed
<1>4. CASE kind[p] \in {"dealer", "mock"}
  <2>1. w = Word(kind[p], None)
    BY <1>1, <1>4 DEF Answers
  <2>2. IF kind[p] = "dealer" THEN w = "completed" ELSE w = "processing"
    BY <1>4, <2>1 DEF Word
  <2>3. \A n \in Nat : ~At(o, p, n)
    BY <1>3, <1>4 DEF Numbered, Inductive, PlaceInv, Once
  <2> QED
    BY <1>1, <1>4, <2>2, <2>3 DEF Words
<1>5. CASE kind[p] \notin {"dealer", "mock"}
  <2>1. PICK m \in Entries(p, o) : \E v \in Says(book[p][m].state) : w = Word(kind[p], v)
    BY <1>1, <1>5 DEF Answers
  <2>2. PICK v \in Says(book[p][m].state) : w = Word(kind[p], v)
    BY <2>1
  <2>3. m \in 1..Len(book[p]) /\ m \in Nat /\ (m = doc[o].pid \/ (doc[o].pid = Uuid /\ book[p][m].order = o))
    BY <1>2 DEF Entries
  <2>4. book[p][m].state \in Final \cup {"processing"}
    <3>1. book[p][m] \in [order: Orders, state: Final \cup {"processing"}]
      BY <1>2, <2>3, ElementOf
    <3> QED
      BY <3>1
  <2>5. w \in Words
    BY <1>2, <2>2, <2>4, SaysType, WordType
  <2>7. Fits(kind[p], w, book[p][m].state)
    BY <1>2, <1>5, <2>2, <2>4, NoneAssumption DEF Fits, Word, Says, Final, Words, Adapters
  <2>8. ASSUME NEW n \in Nat, At(o, p, n) PROVE n = m
    <3>1. PICK q \in Providers, j \in Nat : At(o, q, j) /\ (doc[o].pid = j \/ doc[o].pid = Uuid)
      BY <1>3, <2>8 DEF Numbered
    <3>2. q = p /\ j = n
      BY <2>8, <3>1 DEF Inductive, PlaceInv, Once
    <3>3. CASE doc[o].pid = j
      BY <2>3, <3>2, <3>3 DEF Uuid
    <3>4. CASE doc[o].pid = Uuid
      <4>1. At(o, p, m)
        BY <2>3, <3>4 DEF At, Uuid
      <4> QED
        BY <2>3, <2>8, <4>1 DEF Inductive, PlaceInv, Once
    <3> QED
      BY <3>1, <3>3, <3>4
  <2> QED
    BY <1>1, <1>5, <2>5, <2>7, <2>8
<1> QED
  BY <1>4, <1>5

\* A group is asked for, or skipped.
LEMMA PollGroupInv ==
  ASSUME Inductive, PollGroup
  PROVE  Inductive'
<1>1. UNCHANGED <<kind, link, active, book, doc, exec>> /\ ~Applying
  BY DEF PollGroup
<1>2. poll \in PollSet /\ poll.todo \subseteq Orders /\ poll.answer \in [Orders -> Words \cup {None}]
  BY DEF Inductive, TypeOK, PollSet
<1>3. \A x \in Orders : poll.answer[x] = None
  BY <1>1 DEF Applying
<1>4. \A x \in Orders : Keeps(x)
  BY <1>1, SameBook
<1>5. PICK o \in poll.todo :
        \/ poll' = [poll EXCEPT !.todo = poll.todo \ AskedWith(o)]
        \/ \E f \in [AskedWith(o) -> Words \cup {None}] :
             /\ \A x \in AskedWith(o) : f[x] \in Answers(AskedOf(o), x)
             /\ poll' = [todo |-> poll.todo \ AskedWith(o),
                         answer |-> [x \in Orders |-> IF x \in AskedWith(o) THEN f[x] ELSE None]]
  BY DEF PollGroup
<1>6. CASE poll' = [poll EXCEPT !.todo = poll.todo \ AskedWith(o)]
  <2>1. poll' \in PollSet /\ poll'.todo \subseteq poll.todo /\ poll'.answer = poll.answer
    BY <1>2, <1>6 DEF PollSet
  <2>2. TypeOK'
    BY <1>1, <2>1 DEF Inductive, TypeOK
  <2>3. \A x \in Orders : OrderInv(x)'
    BY <1>1, <1>4, <2>1, Untouched DEF Inductive, PlaceInv
  <2> QED
    BY <1>4, <2>2, <2>3, OnceStays DEF Inductive, PlaceInv
<1>7. ASSUME NEW f \in [AskedWith(o) -> Words \cup {None}],
             \A x \in AskedWith(o) : f[x] \in Answers(AskedOf(o), x),
             poll' = [todo |-> poll.todo \ AskedWith(o),
                      answer |-> [x \in Orders |-> IF x \in AskedWith(o) THEN f[x] ELSE None]]
      PROVE  Inductive'
  <2>1. /\ poll'.todo = poll.todo \ AskedWith(o)
        /\ \A x \in Orders : poll'.answer[x] = IF x \in AskedWith(o) THEN f[x] ELSE None
    BY <1>7
  <2>2. poll' \in PollSet
    BY <1>2, <1>7 DEF PollSet
  <2>3. TypeOK'
    BY <1>1, <2>2 DEF Inductive, TypeOK
  <2>4. ASSUME NEW x \in Orders PROVE OrderInv(x)'
    <3>1. CASE x \notin AskedWith(o)
      BY <1>1, <1>4, <2>1, <3>1, Untouched DEF Inductive, PlaceInv
    <3>2. CASE x \in AskedWith(o)
      <4>1. x \in poll.todo /\ AskedOf(o) = doc[x].code
        BY <3>2 DEF AskedWith, AskedOf
      <4>2. /\ doc[x].pid # None /\ doc[x].retry < MaxRetry
            /\ doc[x].status = "PROCESSING" \/ (doc[x].status = "FAILED" /\ exec[x].pc = "guarded")
        BY <4>1 DEF Inductive, PlaceInv, OrderInv, Polled
      <4>3. poll'.answer[x] \in Answers(doc[x].code, x)
        BY <1>7, <2>1, <3>2, <4>1
      <4>4. Handled(x)' /\ Filed(x)'
        BY <1>1, <1>4, HandledStays, FiledStays DEF Inductive, PlaceInv, OrderInv
      <4>5. ASSUME poll'.answer[x] # None PROVE Answered(x)'
        <5>1. PICK w : w = poll'.answer[x]
          OBVIOUS
        <5>2. /\ kind[doc[x].code] = "mock" => w = "processing"
              /\ \A n \in Nat : At(x, doc[x].code, n) =>
                   Fits(kind[doc[x].code], w, book[doc[x].code][n].state)
          BY <4>2, <4>3, <4>5, <5>1, AnswersFit
        <5> QED
          BY <1>1, <5>1, <5>2 DEF Answered, At, Fits
      <4> QED
        BY <1>1, <2>1, <3>2, <4>2, <4>4, <4>5 DEF Polled, OrderInv
    <3> QED
      BY <3>1, <3>2
  <2> QED
    BY <1>4, <2>3, <2>4, OnceStays DEF Inductive, PlaceInv
<1> QED
  BY <1>5, <1>6, <1>7

\* An answer is applied.
LEMMA PollApplyInv ==
  ASSUME Inductive, NEW o \in Orders, PollApply(o)
  PROVE  Inductive'
<1> DEFINE n == doc[o].retry + 1
           d == IF Internal(poll.answer[o]) # "PROCESSING"
                THEN [doc[o] EXCEPT !.status = Internal(poll.answer[o])]
                ELSE [doc[o] EXCEPT !.retry = n,
                                    !.status = IF n >= MaxRetry THEN "FAILED" ELSE doc[o].status]
<1>1. /\ UNCHANGED <<kind, link, active, book, exec>> /\ poll.answer[o] # None
      /\ poll' = [poll EXCEPT !.answer = [poll.answer EXCEPT ![o] = None]]
  BY DEF PollApply
<1>2. doc' = [doc EXCEPT ![o] = d]
  BY DEF PollApply, Settle
<1>3. /\ poll \in PollSet /\ poll.todo \subseteq Orders /\ poll.answer \in [Orders -> Words \cup {None}]
      /\ doc[o] \in DocSet
  BY DEF Inductive, TypeOK, PollSet
<1>4. PICK w \in Words : w = poll.answer[o]
  BY <1>1, <1>3
<1>5. /\ doc[o].pid # None /\ doc[o].retry < MaxRetry /\ Answered(o) /\ Filed(o)
      /\ doc[o].status = "PROCESSING" \/ (doc[o].status = "FAILED" /\ exec[o].pc = "guarded")
  BY <1>1 DEF Inductive, PlaceInv, OrderInv, Polled
<1>6. /\ doc[o].pid # None /\ exec[o].pc \in {"tail"} \cup Ends
      /\ doc[o].code \in Providers /\ Numbered(o) /\ doc[o].retry < MaxRetry /\ doc[o].retry \in Nat
  BY <1>3, <1>5 DEF Filed, DocSet
<1>7. /\ poll' \in PollSet /\ poll'.todo = poll.todo /\ poll'.answer[o] = None
      /\ \A x \in Orders \ {o} : poll'.answer[x] = poll.answer[x]
  BY <1>1, <1>3 DEF PollSet
<1>8. /\ d \in DocSet /\ d.pid = doc[o].pid /\ d.code = doc[o].code
      /\ d.status = "PROCESSING" => d.retry < MaxRetry
      /\ \/ d.status = Internal(w) /\ Internal(w) # "PROCESSING"
         \/ d.status = "PROCESSING"
         \/ d.status = "FAILED" /\ ~(d.retry < MaxRetry)
         \/ d.status = "FAILED" /\ exec[o].pc = "guarded"
  <2>1. CASE Internal(w) # "PROCESSING"
    <3>1. d = [doc[o] EXCEPT !.status = Internal(w)]
      BY <1>4, <2>1
    <3>2. Internal(w) \in Statuses
      BY InternalType DEF Statuses
    <3>3. d \in DocSet
      BY <1>3, <3>1, <3>2 DEF DocSet
    <3>4. d.status = Internal(w) /\ d.pid = doc[o].pid /\ d.code = doc[o].code
      BY <1>3, <3>1 DEF DocSet
    <3> QED
      BY <2>1, <3>3, <3>4
  <2>2. CASE Internal(w) = "PROCESSING"
    <3>1. d = [doc[o] EXCEPT !.retry = n, !.status = IF n >= MaxRetry THEN "FAILED" ELSE doc[o].status]
      BY <1>4, <2>2
    <3>2. n \in 0..MaxRetry
      BY <1>6, RetryAssumption
    <3>3. d \in DocSet /\ d.retry = n /\ d.pid = doc[o].pid /\ d.code = doc[o].code
      BY <1>3, <3>1, <3>2 DEF DocSet, Statuses
    <3>4. d.status = IF n >= MaxRetry THEN "FAILED" ELSE doc[o].status
      BY <1>3, <3>1 DEF DocSet
    <3> QED
      BY <1>5, <1>6, <3>2, <3>3, <3>4, RetryAssumption
  <2> QED
    BY <2>1, <2>2
<1> HIDE DEF d
<1>9. doc' \in [Orders -> DocSet] /\ doc'[o] = d /\ \A y \in Orders \ {o} : doc'[y] = doc[y]
  BY <1>2, <1>8, DocMoves DEF Inductive
<1>10. TypeOK'
  BY <1>1, <1>7, <1>9 DEF Inductive, TypeOK
<1>11. \A x \in Orders : Keeps(x)
  BY <1>1, SameBook
<1>12. Handled(o)'
  BY <1>1, <1>11, HandledStays DEF Inductive, PlaceInv, OrderInv
<1>13. Numbered(o)'
  <2>1. CASE /\ doc[o].pid = MockNumber /\ \E p \in Providers : kind[p] = "mock"
             /\ \A p \in Providers, m \in Nat : ~At(o, p, m)
    BY <1>1, <1>8, <1>9, <2>1 DEF Numbered, At
  <2>2. CASE \E p \in Providers, m \in Nat :
               /\ At(o, p, m) /\ kind[p] \notin {"dealer", "mock"}
               /\ doc[o].pid = m \/ doc[o].pid = Uuid
    <3>1. PICK p \in Providers, m \in Nat :
               /\ At(o, p, m) /\ kind[p] \notin {"dealer", "mock"}
               /\ doc[o].pid = m \/ doc[o].pid = Uuid
      BY <2>2
    <3>2. ASSUME p = doc[o].code PROVE StatusFits(o, kind[p], book[p][m].state)'
      <4>1. Fits(kind[p], w, book[p][m].state)
        BY <1>4, <1>5, <3>1, <3>2 DEF Answered
      <4> QED
        BY <1>1, <1>8, <1>9, <4>1, InternalType DEF StatusFits, Fits
    <3>3. At(o, p, m)' /\ kind' = kind /\ doc'[o].code = doc[o].code /\ doc'[o].pid = doc[o].pid
      BY <1>1, <1>8, <1>9, <3>1 DEF At
    <3> QED
      BY <3>1, <3>2, <3>3 DEF Numbered
  <2> QED
    BY <1>6, <2>1, <2>2 DEF Numbered
<1>14. CompletedHow(o)'
  <2> SUFFICES ASSUME d.status = "COMPLETED"
               PROVE  \/ \E p \in Providers, m \in Nat : At(o, p, m)'
                      \/ /\ doc[o].pid = MockNumber /\ kind[doc[o].code] # "mock"
                         /\ \E p \in Providers : kind[p] = "mock"
    BY <1>1, <1>8, <1>9 DEF CompletedHow
  <2>1. w = "completed"
    BY <1>8, InternalType
  <2>2. kind[doc[o].code] # "mock"
    BY <1>4, <1>5, <2>1 DEF Answered
  <2> QED
    BY <1>1, <1>6, <2>2 DEF Numbered, At
<1>15. Filed(o)'
  BY <1>1, <1>6, <1>8, <1>9, <1>13, <1>14 DEF Filed, Ends
<1>16. Polled(o)'
  <2>1. o \notin poll.todo
    BY <1>1 DEF Inductive, PlaceInv, OrderInv, Polled
  <2> QED
    BY <1>7, <2>1 DEF Polled
<1>17. \A x \in Orders \ {o} : OrderInv(x)'
  BY <1>1, <1>7, <1>9, <1>11, Untouched DEF Inductive, PlaceInv
<1> QED
  BY <1>10, <1>11, <1>12, <1>15, <1>16, <1>17, OnceStays DEF Inductive, PlaceInv, OrderInv

-----------------------------------------------------------------------------
(* Administration and crashes.                                             *)

LEMMA AdminInv ==
  ASSUME Inductive, NEW p \in Providers, Relink(p) \/ SetActive(p)
  PROVE  Inductive'
<1>1. UNCHANGED <<kind, book, doc, exec, poll>>
  BY DEF Relink, SetActive
<1>2. link' \in Providers /\ active' \subseteq Providers
  BY DEF Relink, SetActive, Inductive, TypeOK
<1>3. TypeOK'
  BY <1>1, <1>2 DEF Inductive, TypeOK
<1>4. \A x \in Orders : Keeps(x)
  BY <1>1, SameBook
<1>5. \A x \in Orders : OrderInv(x)'
  BY <1>1, <1>4, Untouched DEF Inductive, PlaceInv
<1> QED
  BY <1>3, <1>4, <1>5, OnceStays DEF Inductive, PlaceInv

LEMMA CrashInv ==
  ASSUME Inductive, Crash
  PROVE  Inductive'
<1> DEFINE x == [NoExec EXCEPT !.pc = "cut"]
<1>1. /\ UNCHANGED <<kind, link, active, book, doc>> /\ poll' = NoPoll
      /\ exec' = [o \in Orders |-> IF exec[o].pc \in {"idle"} \cup Ends THEN exec[o] ELSE x]
  BY DEF Crash
<1>2. x \in ExecSet /\ x.pc = "cut"
  BY EndType DEF Ends
<1>3. \A o \in Orders : exec'[o] = exec[o] \/ (exec'[o] = x /\ exec[o].pc \notin {"idle"} \cup Ends)
  BY <1>1
<1> HIDE DEF x
<1>4. exec' \in [Orders -> ExecSet]
  BY <1>1, <1>2 DEF Inductive, TypeOK
<1>5. poll' \in PollSet /\ poll'.todo = {} /\ \A o \in Orders : poll'.answer[o] = None
  BY <1>1 DEF NoPoll, PollSet
<1>7. TypeOK'
  BY <1>1, <1>4, <1>5 DEF Inductive, TypeOK
<1>8. \A o \in Orders : Keeps(o)
  BY <1>1, SameBook
<1>9. ASSUME NEW o \in Orders PROVE OrderInv(o)'
  <2>1. Polled(o)'
    BY <1>5 DEF Polled
  <2>2. CASE exec'[o] = exec[o]
    BY <1>1, <1>8, <2>1, <2>2, HandledStays, FiledStays DEF Inductive, PlaceInv, OrderInv
  <2>3. CASE exec'[o] = x /\ exec[o].pc \notin {"idle"} \cup Ends
    <3>1. Handled(o)'
      BY <1>2, <2>3 DEF Handled, Ends
    <3>2. CompletedHow(o)'
      BY <1>1, <1>8 DEF Inductive, PlaceInv, OrderInv, Filed, CompletedHow, At
    <3>3. doc[o].pid # None => Numbered(o)'
      BY <1>1, <1>8, <2>3, NumberedStays DEF Inductive, PlaceInv, OrderInv, Filed, Ends
    <3>4. Filed(o)'
      BY <1>1, <1>2, <2>3, <3>2, <3>3 DEF Inductive, PlaceInv, OrderInv, Filed, Ends
    <3> QED
      BY <2>1, <3>1, <3>4 DEF OrderInv
  <2> QED
    BY <1>3, <2>2, <2>3
<1> QED
  BY <1>7, <1>8, <1>9, OnceStays DEF Inductive, PlaceInv

-----------------------------------------------------------------------------
(* The theorems.                                                           *)

LEMMA Starts == Init => Inductive
<1> SUFFICES ASSUME Init PROVE Inductive
  OBVIOUS
<1>1. /\ \A p \in Providers : book[p] = <<>>
      /\ \A o \in Orders : /\ exec[o] = NoExec /\ poll.answer[o] = None
                           /\ doc[o] = [status |-> "none", pid |-> None, code |-> None, retry |-> 0]
      /\ poll.todo = {}
  BY DEF Init, NoPoll
<1>2. TypeOK
  <2>1. NoExec \in ExecSet /\ NoPoll \in PollSet
    BY DEF NoExec, NoPoll, ExecSet, PollSet
  <2>2. [status |-> "none", pid |-> None, code |-> None, retry |-> 0] \in DocSet
    BY RetryAssumption DEF DocSet, Statuses, Pids
  <2> QED
    BY <2>1, <2>2 DEF Init, TypeOK
<1>3. \A o \in Orders, p \in Providers, n \in Nat : ~At(o, p, n)
  BY <1>1 DEF At
<1>4. ASSUME NEW o \in Orders PROVE OrderInv(o)
  <2>1. Handled(o)
    BY <1>1, <1>3 DEF Handled, NoExec
  <2>2. Filed(o)
    BY <1>1, RetryAssumption DEF Filed, CompletedHow, NoExec
  <2>3. Polled(o)
    BY <1>1 DEF Polled
  <2> QED
    BY <2>1, <2>2, <2>3 DEF OrderInv
<1> QED
  BY <1>2, <1>3, <1>4 DEF Inductive, PlaceInv, Once

\* The invariant: no order is accepted twice, a result in hand and an answer
\* still to be applied fit the entry they are about, and a document agrees with
\* what its number stands for.
THEOREM PlacementInvariant == Spec => []Inductive
<1>1. ASSUME Inductive, [Next]_vars PROVE Inductive'
  <2>1. ASSUME NEW o \in Orders,
               \/ Resolve(o) \/ Store(o) \/ Execute(o) \/ Record(o) \/ Return(o)
               \/ Guard(o) \/ Accept(o) \/ Refuse(o) \/ PollApply(o)
        PROVE  Inductive'
    BY <1>1, <2>1, ResolveInv, StoreInv, ExecuteInv, RecordInv, ReturnInv, GuardInv, AcceptInv,
       RefuseInv, PollApplyInv
  <2>2. ASSUME NEW p \in Providers, Progress(p) \/ Relink(p) \/ SetActive(p) PROVE Inductive'
    BY <1>1, <2>2, ProgressInv, AdminInv
  <2>3. CASE UNCHANGED vars
    <3>1. UNCHANGED <<kind, link, active, book, doc, exec, poll>>
      BY <2>3 DEF vars
    <3>2. \A o \in Orders : OrderInv(o)'
      BY <1>1, <3>1, SameBook, Untouched DEF Inductive, PlaceInv
    <3> QED
      BY <1>1, <3>1, <3>2, SameBook, OnceStays DEF Inductive, TypeOK, PlaceInv
  <2> QED
    BY <1>1, <2>1, <2>2, <2>3, PollBeginInv, PollGroupInv, CrashInv DEF Next
<1> QED
  BY <1>1, Starts, PTL DEF Spec

\* Every reachable state is well typed: numbers are numbers, retries stay
\* within their limit.
THEOREM TypeCorrect == Spec => []TypeOK
<1>1. Inductive => TypeOK
  BY DEF Inductive
<1> QED
  BY <1>1, PlacementInvariant, PTL

\* For any number of orders and providers, the final status of an order is what
\* its own service says of it, but for the exceptions that the property names.
THEOREM ReportsAreKept == Spec => []SettledAsReported
<1>1. Inductive => SettledAsReported
  <2> SUFFICES ASSUME Inductive, NEW o \in Orders, Accepted(o), ~Elsewhere(o), doc[o].pid # None
               PROVE  StatusFits(o, kind[doc[o].code], StateOf(o))
    BY DEF SettledAsReported, StatusFits
  <2>1. doc[o].code \in Providers /\ Numbered(o)
    BY DEF Inductive, PlaceInv, OrderInv, Filed
  <2>2. PICK c \in Providers : c = doc[o].code
    BY <2>1
  <2>a. PICK p \in Providers : \E n \in 1..Len(book[p]) : book[p][n].order = o
    BY DEF Accepted
  <2>3. PICK n \in 1..Len(book[p]) : book[p][n].order = o
    BY <2>a
  <2>4. p = c /\ n \in Nat /\ At(o, c, n)
    <3>1. p = c
      BY <2>2, <2>3 DEF Elsewhere
    <3>2. Len(book[p]) \in Nat
      BY DEF Inductive, TypeOK
    <3> QED
      BY <2>3, <3>1, <3>2 DEF At
  <2>5. \A m \in 1..Len(book[c]) : book[c][m].order = o <=> m = n
    <3>1. Len(book[c]) \in Nat
      BY DEF Inductive, TypeOK
    <3> QED
      BY <2>4, <3>1 DEF At, Inductive, PlaceInv, Once
  <2>6. StateOf(o) = book[c][n].state
    <3>1. (CHOOSE m \in 1..Len(book[c]) : book[c][m].order = o) = n
      BY <2>4, <2>5 DEF At
    <3> QED
      BY <2>2, <3>1 DEF StateOf
  <2>7. PICK q \in Providers, m \in Nat :
          At(o, q, m) /\ (q = doc[o].code => StatusFits(o, kind[q], book[q][m].state))
    BY <2>1, <2>4 DEF Numbered
  <2>8. q = c /\ m = n
    BY <2>4, <2>7 DEF Inductive, PlaceInv, Once
  <2> QED
    BY <2>2, <2>6, <2>7, <2>8
<1> QED
  BY <1>1, PlacementInvariant, PTL

\* Whatever replies are lost or lack parts, and whatever operations fail, an
\* order in progress without a number is being placed or was cut off.
THEOREM StuckAlwaysExplained == Spec => []StuckIsExplained
<1>1. Inductive => StuckIsExplained
  BY DEF Inductive, PlaceInv, OrderInv, Filed, StuckIsExplained
<1> QED
  BY <1>1, PlacementInvariant, PTL

\* A completed order was accepted, but for one that only the mock took and that
\* another provider takes for its own.
THEOREM CompletedIsAccepted == Spec => []CompletedWasAccepted
<1>1. Inductive => CompletedWasAccepted
  <2> SUFFICES ASSUME Inductive, NEW o \in Orders, doc[o].status = "COMPLETED", ~Accepted(o)
               PROVE  /\ doc[o].pid = MockNumber /\ kind[doc[o].code] # "mock"
                      /\ \E p \in Providers \ {doc[o].code} : kind[p] = "mock"
    BY DEF CompletedWasAccepted
  <2>1. \A p \in Providers, n \in Nat : ~At(o, p, n)
    BY DEF Accepted, At
  <2>2. CompletedHow(o)
    BY DEF Inductive, PlaceInv, OrderInv, Filed
  <2> QED
    BY <2>1, <2>2 DEF CompletedHow
<1> QED
  BY <1>1, PlacementInvariant, PTL
=============================================================================
