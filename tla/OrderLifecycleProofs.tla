------------------------ MODULE OrderLifecycleProofs ------------------------
(***************************************************************************)
(* Theorems about OrderLifecycle, for every number of orders and           *)
(* administrators, every price, and every number of failures and crashes.  *)
(***************************************************************************)
EXTENDS OrderLifecycle, FiniteSetTheorems, TLAPS

USE DEF One, services

-----------------------------------------------------------------------------
(* Types.                                                                  *)

LEMMA PriceType == \A o \in Orders : Price(o) \in Nat
BY MoneyAssumption DEF Price

LEMMA AmountType == \A o \in Orders, n \in 0..Qty : RefundAmount(o, n) \in Int
<1> SUFFICES ASSUME NEW o \in Orders, NEW n \in 0..Qty PROVE RefundAmount(o, n) \in Int
  OBVIOUS
<1>1. Price(o) \in Nat
  BY PriceType
<1>2. n * Charge \in Int /\ Qty * Unit \in Nat \ {0} /\ n \in Int
  BY MoneyAssumption
<1>3. (n * Charge) \div (Qty * Unit) \in Int
  BY <1>2
<1>4. ((n * Charge) \div (Qty * Unit)) * Unit \in Int
  BY <1>3, MoneyAssumption
<1> QED
  BY <1>1, <1>2, <1>4 DEF RefundAmount

\* The actors' records stay well formed and paid stays a number, whatever
\* order the steps come in.
LEMMA IdleTypes == IdlePoll \in PollStates /\ IdleExec \in ExecStates
<1>1. 0 \in 0..Qty
  BY MoneyAssumption
<1>2. [o \in Orders |-> 0] \in [Orders -> Nat]
  OBVIOUS
<1>3. [o \in Orders |-> "none"] \in [Orders -> ProviderStates]
  BY DEF ProviderStates
<1> QED
  BY <1>1, <1>2, <1>3 DEF IdlePoll, PollStates, IdleExec, NoResult, ExecStates, Results

LEMMA InitType == Init => TypeOK
<1> SUFFICES ASSUME Init PROVE TypeOK
  OBVIOUS
<1>1. exec \in [Orders -> ExecStates]
  <2>1. [IdleExec EXCEPT !.pc = "spawned"] \in ExecStates
    BY IdleTypes DEF ExecStates
  <2> QED
    BY <2>1, IdleTypes DEF Init
<1>2. admin \in [Admins -> AdminStates]
  BY DEF Init, AdminStates
<1>3. ActorsOK
  BY DEF Init, ActorsOK, IdlePoll
<1>4. status \in [Orders -> Statuses] /\ provider \in [Orders -> ProviderStates]
  BY DEF Init, Statuses, ProviderStates
<1>5. paid \in [Orders -> Int]
  BY PriceType DEF Init
<1> QED
  BY <1>1, <1>2, <1>3, <1>4, <1>5, IdleTypes DEF Init, TypeOK

LEMMA PollNextType ==
  ASSUME poll \in PollStates, NEW o
  PROVE  LET next == PollNext(poll.todo \ {o}) IN
         next \in PollStates /\ next.pc \in {"idle", "apply"}
<1> DEFINE todo == poll.todo \ {o}
<1>1. 0 \in 0..Qty /\ todo \in SUBSET Orders
  BY MoneyAssumption DEF PollStates
<1>2. CASE todo = {}
  BY <1>2, IdleTypes DEF PollNext, IdlePoll
<1>3. CASE todo # {}
  BY <1>1, <1>3 DEF PollNext, PollStates
<1> QED
  BY <1>2, <1>3

LEMMA PollEndType ==
  ASSUME poll \in PollStates
  PROVE  LET next == PollNext(poll.todo) IN
         next \in PollStates /\ next.pc \in {"idle", "apply"}
<1>1. 0 \in 0..Qty
  BY MoneyAssumption
<1> QED
  BY <1>1, IdleTypes DEF PollNext, IdlePoll, PollStates

\* The refunded flags stay Booleans, and the net payments numbers.
LEMMA MarkRefundedType ==
  ASSUME TypeOK, NEW o \in Orders, NEW yes, NEW no, MarkRefunded(o, yes, no)
  PROVE  refunded' \in [Orders -> BOOLEAN]
BY Zenon DEF TypeOK, MarkRefunded

LEMMA PayRefundType ==
  ASSUME TypeOK, NEW o \in Orders, PayRefund(o)
  PROVE  refunded' \in [Orders -> BOOLEAN] /\ paid' \in [Orders -> Int]
<1>1. refunded' \in [Orders -> BOOLEAN]
  BY Zenon DEF TypeOK, PayRefund
<1>2. paid' \in [Orders -> Int]
  BY MoneyAssumption DEF TypeOK, PayRefund, Repay
<1> QED
  BY <1>1, <1>2

LEMMA LoseRefundType ==
  ASSUME TypeOK, NEW o \in Orders, NEW pc, LoseRefund(o, pc)
  PROVE  refunded' \in [Orders -> BOOLEAN] /\ faults' \in Nat /\ interrupted' \subseteq Orders
<1>1. refunded' \in [Orders -> BOOLEAN]
  BY Zenon DEF TypeOK, LoseRefund
<1>2. faults' \in Nat /\ interrupted' \subseteq Orders
  BY DEF TypeOK, LoseRefund
<1> QED
  BY <1>1, <1>2

LEMMA ExecStepType ==
  ASSUME TypeOK, NEW o \in Orders, ExecStep(o) \/ ExecUnresolved(o)
  PROVE  TypeOK'
<1> USE DEF TypeOK, ActorsOK, document, bounds, ExecGoto, ExecStates
<1>1. CASE ExecStart(o)
  BY <1>1 DEF ExecStart
<1>2. CASE ExecPlace(o)
  <2>1. PICK r \in Results :
          /\ exec' = [exec EXCEPT ![o] = [pc |-> "got", result |-> r, guarded |-> FALSE]]
          /\ \E p \in IF r \in {"rejected", "lost"} THEN {"none", "pending"} ELSE {r} :
               provider' = [provider EXCEPT ![o] = p]
    BY <1>2 DEF ExecPlace
  <2>2. PICK p \in ProviderStates : provider' = [provider EXCEPT ![o] = p]
    BY <2>1 DEF ProviderStates, Results
  <2>3. exec' \in [Orders -> ExecStates]
    BY <2>1
  <2>4. provider' \in [Orders -> ProviderStates]
    BY <2>2
  <2> QED
    BY <1>2, <2>3, <2>4 DEF ExecPlace
<1>3. CASE ExecRecord(o)
  <2>1. PlacedStatus(o, exec[o].result) \in Statuses
    BY DEF PlacedStatus, Statuses
  <2> QED
    BY <1>3, <2>1 DEF ExecRecord
<1>4. CASE ExecMarkRefunded(o)
  <2>1. refunded' \in [Orders -> BOOLEAN]
    BY <1>4, MarkRefundedType DEF ExecMarkRefunded
  <2>2. ExecGoto(o, "refunding") \/ ExecGoto(o, "tail")
    BY <1>4, Zenon DEF ExecMarkRefunded, MarkRefunded
  <2>3. exec' \in [Orders -> ExecStates]
    <3>1. CASE ExecGoto(o, "refunding")
      BY <3>1
    <3>2. CASE ExecGoto(o, "tail")
      BY <3>2
    <3> QED
      BY <2>2, <3>1, <3>2
  <2> QED
    BY <1>4, <2>1, <2>3 DEF ExecMarkRefunded
<1>5. CASE ExecPayRefund(o)
  <2>1. refunded' \in [Orders -> BOOLEAN] /\ paid' \in [Orders -> Int]
    BY <1>5, PayRefundType DEF ExecPayRefund
  <2> QED
    BY <1>5, <2>1 DEF ExecPayRefund
<1>6. CASE ExecFinish(o)
  BY <1>6 DEF ExecFinish, IdleExec, NoResult, Results
<1>7. CASE ExecUnresolved(o)
  BY <1>7 DEF ExecUnresolved, Statuses
<1> QED
  BY <1>1, <1>2, <1>3, <1>4, <1>5, <1>6, <1>7 DEF ExecStep

LEMMA PollStartType ==
  ASSUME TypeOK, PollStart
  PROVE  TypeOK'
<1> DEFINE healthy == Polled \ {o \in Polled : retry[o] >= MaxRetry}
           count == [o \in Orders |-> IF o \in healthy THEN retry[o] ELSE 0]
<1>1. healthy \subseteq Orders /\ count \in [Orders -> Nat]
  BY DEF Polled, TypeOK
<1>2. IdlePoll \in PollStates /\ IdlePoll.pc = "idle"
  BY MoneyAssumption DEF IdlePoll, PollStates, ProviderStates
<1>3. poll' \in PollStates /\ poll'.pc \in {"idle", "query"}
  <2>1. poll' = IF healthy = {} THEN IdlePoll
                ELSE [IdlePoll EXCEPT !.pc = "query", !.todo = healthy, !.count = count]
    BY DEF PollStart
  <2> QED
    BY <2>1, <1>1, <1>2 DEF PollStates, IdlePoll
<1>4. status' \in [Orders -> Statuses]
  BY DEF PollStart, TypeOK, Statuses
<1> QED
  BY <1>3, <1>4 DEF PollStart, TypeOK, ActorsOK, bounds

LEMMA PollStepType ==
  ASSUME TypeOK, PollStep \/ PollAnswered \/ PollUnanswered
  PROVE  TypeOK'
<1> USE DEF TypeOK, ActorsOK, document, bounds
<1>1. CASE PollStart
  BY <1>1, PollStartType
<1>2. ASSUME NEW o \in Orders, PollPending(o) PROVE TypeOK'
  <2>1. \/ poll' = PollNext(poll.todo \ {o})
        \/ poll' = [poll EXCEPT !.pc = "cas", !.todo = @ \ {o}, !.current = o]
    BY <1>2 DEF PollPending
  <2> DEFINE failing == [poll EXCEPT !.pc = "cas", !.todo = @ \ {o}, !.current = o]
  <2>6. failing \in PollStates /\ failing.current = o
    BY DEF PollStates
  <2>2. /\ poll' \in PollStates
        /\ poll'.pc \in {"idle", "apply"} \/ poll'.current = o
    BY <2>1, <2>6, PollNextType
  <2>3. poll.count[o] + 1 \in Nat
    BY DEF PollStates
  <2>4. retry' \in [Orders -> Nat]
    BY <1>2, <2>3 DEF PollPending
  <2>5. status' \in [Orders -> Statuses]
    BY <1>2 DEF PollPending, Statuses
  <2> QED
    BY <1>2, <2>2, <2>4, <2>5 DEF PollPending
<1>3. ASSUME NEW o \in Orders, PollFinal(o) PROVE TypeOK'
  <2> DEFINE rest == [poll EXCEPT !.todo = @ \ {o}, !.current = o]
  <2>1. \/ poll' = PollNext(poll.todo \ {o})
        \/ poll' = [rest EXCEPT !.pc = "cas"]
        \/ poll' = [rest EXCEPT !.pc = "transaction"]
        \/ \E n \in 0..Qty : poll' = [rest EXCEPT !.pc = "transaction", !.remains = n]
    BY <1>3 DEF PollFinal
  <2>2. rest \in PollStates /\ rest.current = o
    BY DEF PollStates
  <2>3. /\ poll' \in PollStates
        /\ poll'.pc \in {"idle", "apply"} \/ poll'.current = o
    <3> HIDE DEF rest
    <3> QED
      BY <2>1, <2>2, PollNextType DEF PollStates
  <2>4. status' \in [Orders -> Statuses]
    BY <1>3 DEF PollFinal, Statuses
  <2> QED
    BY <1>3, <2>3, <2>4 DEF PollFinal
<1>4. CASE PollMarkRefunded
  <2>1. poll' = [poll EXCEPT !.pc = "refunding"] \/ poll' = PollNext(poll.todo)
    BY <1>4, Zenon DEF PollMarkRefunded, MarkRefunded
  <2>2. /\ poll' \in PollStates
        /\ poll'.pc \in {"idle", "apply"} \/ poll'.current = poll.current
    BY <2>1, PollEndType DEF PollStates
  <2>3. poll.current \in Orders
    BY <1>4 DEF PollMarkRefunded
  <2>4. refunded' \in [Orders -> BOOLEAN]
    BY <1>4, <2>3, MarkRefundedType DEF PollMarkRefunded
  <2> QED
    BY <1>4, <2>2, <2>3, <2>4 DEF PollMarkRefunded
<1>5. CASE PollPayRefund
  <2>1. poll' \in PollStates /\ poll'.pc \in {"idle", "apply"}
    BY <1>5, PollEndType DEF PollPayRefund
  <2>2. refunded' \in [Orders -> BOOLEAN] /\ paid' \in [Orders -> Int]
    BY <1>5, PayRefundType DEF PollPayRefund
  <2> QED
    BY <1>5, <2>1, <2>2 DEF PollPayRefund
<1>6. CASE PollRefund
  <2> DEFINE o == poll.current
             amount == RefundAmount(o, poll.remains)
  <2>1. poll' \in PollStates /\ poll'.pc \in {"idle", "apply"}
    BY <1>6, PollEndType DEF PollRefund
  <2>2. o \in Orders /\ amount \in Int
    BY <1>6, AmountType DEF PollRefund, PollStates
  <2>3. refunded' = refunded \/ refunded' = [refunded EXCEPT ![o] = TRUE]
    BY <1>6, Zenon DEF PollRefund
  <2>4. refunded' \in [Orders -> BOOLEAN]
    BY <2>3
  <2>5. paid' = paid \/ paid' = [paid EXCEPT ![o] = @ - amount]
    BY <1>6, Zenon DEF PollRefund, Repay
  <2>6. paid' \in [Orders -> Int]
    <3> HIDE DEF amount
    <3> QED
      BY <2>5, <2>2
  <2> QED
    BY <1>6, <2>1, <2>4, <2>6 DEF PollRefund
<1>7. CASE PollAnswered
  <2>1. poll' \in PollStates /\ poll'.pc = "apply"
    BY <1>7 DEF PollAnswered, PollStates, ProviderStates
  <2> QED
    BY <1>7, <2>1 DEF PollAnswered
<1>8. CASE PollUnanswered
  <2>1. IdlePoll \in PollStates /\ IdlePoll.pc = "idle"
    BY IdleTypes DEF IdlePoll
  <2> QED
    BY <1>8, <2>1 DEF PollUnanswered
<1> QED
  BY <1>1, <1>2, <1>3, <1>4, <1>5, <1>6, <1>7, <1>8 DEF PollStep

LEMMA AdminStepType ==
  ASSUME TypeOK, NEW a \in Admins, AdminStep(a)
  PROVE  TypeOK'
<1> USE DEF TypeOK, ActorsOK, document, bounds
<1>1. ASSUME NEW o \in Orders, AdminFail(a, o) PROVE TypeOK'
  <2>1. refunded' \in [Orders -> BOOLEAN]
    BY <1>1, Zenon DEF AdminFail
  <2>2. paid' \in [Orders -> Int]
    BY <1>1, PriceType DEF AdminFail, Repay
  <2>3. status' \in [Orders -> Statuses] /\ admin' \in [Admins -> AdminStates]
    BY <1>1 DEF AdminFail, Statuses, AdminStates
  <2> QED
    BY <1>1, <2>1, <2>2, <2>3 DEF AdminFail
<1>2. ASSUME NEW o \in Orders, AdminApprove(a, o) PROVE TypeOK'
  <2>1. admin' \in [Admins -> AdminStates]
    BY <1>2 DEF AdminApprove, AdminStates
  <2> QED
    BY <1>2, <2>1 DEF AdminApprove
<1>3. ASSUME NEW o \in Orders, AdminComplete(a, o) PROVE TypeOK'
  <2>1. PICK pc \in {"debit", "save"} :
          admin' = [admin EXCEPT ![a] =
                      [pc |-> pc, order |-> o, sawRefunded |-> refunded[o], debited |-> FALSE]]
    BY <1>3 DEF AdminComplete
  <2>2. admin' \in [Admins -> AdminStates]
    BY <2>1 DEF AdminStates
  <2> QED
    BY <1>3, <2>1, <2>2 DEF AdminComplete, AdminStates
<1>4. CASE AdminDebit(a)
  <2>1. admin[a].order \in Orders
    BY <1>4 DEF AdminDebit
  <2>2. paid' \in [Orders -> Int]
    BY <1>4, <2>1, MoneyAssumption DEF AdminDebit, ReDeduction
  <2>3. admin' \in [Admins -> AdminStates]
    BY <1>4 DEF AdminDebit, AdminStates
  <2> QED
    BY <1>4, <2>1, <2>2, <2>3 DEF AdminDebit
<1>5. CASE AdminSave(a)
  <2>1. refunded' \in [Orders -> BOOLEAN]
    BY <1>5, Zenon DEF AdminSave
  <2>2. status' \in [Orders -> Statuses] /\ admin' \in [Admins -> AdminStates]
    BY <1>5 DEF AdminSave, Statuses, AdminStates
  <2> QED
    BY <1>5, <2>1, <2>2 DEF AdminSave
<1>6. ASSUME NEW o \in Orders, AdminRetry(a, o) PROVE TypeOK'
  <2>1. admin' \in [Admins -> AdminStates]
    BY <1>6 DEF AdminRetry, AdminStates
  <2> QED
    BY <1>6, <2>1 DEF AdminRetry
<1> QED
  BY <1>1, <1>2, <1>3, <1>4, <1>5, <1>6 DEF AdminStep

LEMMA FailureType ==
  ASSUME TypeOK, Failure
  PROVE  TypeOK'
<1> USE DEF TypeOK, ActorsOK, document, bounds
<1>1. ASSUME NEW o \in Orders, ExecFatal(o) PROVE TypeOK'
  <2>1. exec' \in [Orders -> ExecStates]
    BY <1>1 DEF ExecFatal, ExecStates
  <2>2. status' \in [Orders -> Statuses] /\ faults' \in Nat
    BY <1>1 DEF ExecFatal, Statuses
  <2> QED
    BY <1>1, <2>1, <2>2 DEF ExecFatal
<1>2. ASSUME NEW o \in Orders, ExecLoseRefund(o) PROVE TypeOK'
  <2>1. refunded' \in [Orders -> BOOLEAN] /\ faults' \in Nat /\ interrupted' \subseteq Orders
    BY <1>2, LoseRefundType DEF ExecLoseRefund
  <2>2. exec' \in [Orders -> ExecStates]
    BY <1>2 DEF ExecLoseRefund, ExecGoto, ExecStates
  <2> QED
    BY <1>2, <2>1, <2>2 DEF ExecLoseRefund
<1>3. ASSUME NEW o \in Orders, PollSkip(o) PROVE TypeOK'
  <2>1. poll' \in PollStates /\ poll'.pc \in {"idle", "apply"}
    BY <1>3, PollNextType DEF PollSkip
  <2> QED
    BY <1>3, <2>1 DEF PollSkip
<1>4. CASE PollLoseRefund
  <2>1. poll' \in PollStates /\ poll'.pc \in {"idle", "apply"}
    BY <1>4, PollEndType DEF PollLoseRefund
  <2>2. poll.current \in Orders
    BY <1>4 DEF PollLoseRefund
  <2>3. refunded' \in [Orders -> BOOLEAN] /\ faults' \in Nat /\ interrupted' \subseteq Orders
    BY <1>4, <2>2, LoseRefundType DEF PollLoseRefund
  <2> QED
    BY <1>4, <2>1, <2>3 DEF PollLoseRefund
<1>5. CASE PollRefundAborts
  <2>1. poll' \in PollStates /\ poll'.pc \in {"idle", "apply"}
    BY <1>5, PollEndType DEF PollRefundAborts
  <2> QED
    BY <1>5, <2>1 DEF PollRefundAborts
<1>6. CASE Crash
  <2>1. poll' \in PollStates /\ poll'.pc = "idle"
    BY <1>6, IdleTypes DEF Crash, IdlePoll
  <2>2. exec' \in [Orders -> ExecStates]
    BY <1>6, IdleTypes DEF Crash
  <2>3. admin' \in [Admins -> AdminStates]
    BY <1>6 DEF Crash, AdminStates
  <2>4. interrupted' \subseteq Orders /\ crashes' \in Nat
    BY <1>6 DEF Crash
  <2>5. ActorsOK'
    BY <1>6, <2>1 DEF Crash, AdminStates
  <2> QED
    BY <1>6, <2>1, <2>2, <2>3, <2>4, <2>5 DEF Crash
<1>7. ASSUME NEW o \in Orders, ExecGivesUp(o) PROVE TypeOK'
  <2>1. exec' \in [Orders -> ExecStates] /\ faults' \in Nat
    BY <1>7, IdleTypes DEF ExecGivesUp
  <2> QED
    BY <1>7, <2>1 DEF ExecGivesUp
<1> QED
  BY <1>1, <1>2, <1>3, <1>4, <1>5, <1>6, <1>7 DEF Failure

\* Type correctness of the order engine.
THEOREM TypeCorrect == Spec => []TypeOK
<1>1. ASSUME TypeOK, [Next]_vars PROVE TypeOK'
  <2>1. ASSUME NEW o \in Orders, ProviderProgress(o) PROVE TypeOK'
    BY <1>1, <2>1 DEF TypeOK, ActorsOK, ProviderProgress, document, bounds, ProviderStates
  <2>2. CASE UNCHANGED vars
    BY <1>1, <2>2 DEF vars, TypeOK, ActorsOK
  <2>3. CASE SetActive
    BY <1>1, <2>3 DEF TypeOK, ActorsOK, SetActive, document, bounds
  <2> QED
    BY <1>1, <2>1, <2>2, <2>3, ExecStepType, PollStepType, AdminStepType, FailureType DEF Next
<1> QED
  BY <1>1, InitType, PTL DEF Spec

-----------------------------------------------------------------------------
(* Refunds.  The invariant is SetAside: every claim on an order's money is *)
(* covered by what is paid.  One lemma does the arithmetic; the others say *)
(* how each step moves the claims and the money of one money order w.      *)

LEMMA ClaimTypes ==
  ASSUME NEW w \in Orders
  PROVE  /\ IsFiniteSet(Clearing(w)) /\ Cardinality(Clearing(w)) \in Nat
         /\ RefundsInFlight(w) \in Nat /\ Claims(w) \in Nat
         /\ IsFiniteSet(Clearing(w)') /\ Cardinality(Clearing(w)') \in Nat
         /\ RefundsInFlight(w)' \in Nat /\ Claims(w)' \in Nat
<1>1. IsFiniteSet(Clearing(w)) /\ IsFiniteSet(Clearing(w)')
  BY AdminsAssumption, FS_Subset DEF Clearing
<1>2. Cardinality(Clearing(w)) \in Nat /\ Cardinality(Clearing(w)') \in Nat
  BY <1>1, FS_CardinalityType
<1>3. RefundsInFlight(w) \in Nat /\ RefundsInFlight(w)' \in Nat
  BY DEF RefundsInFlight
<1> QED
  BY <1>1, <1>2, <1>3 DEF Claims

LEMMA Arithmetic ==
  ASSUME NEW p \in Int, NEW q \in Int, NEW m \in Nat, NEW n \in Nat,
         NEW d \in {-1, 0, 1},
         p >= Charge * m, q >= p + Charge * d, n <= m + d
  PROVE  q >= Charge * n
<1>1. Charge \in Nat
  BY MoneyAssumption
<1>2. Charge * (m + d) = Charge * m + Charge * d
  BY <1>1
<1>3. Charge * n <= Charge * (m + d)
  BY <1>1
<1>4. Charge * m \in Int /\ Charge * d \in Int /\ Charge * n \in Int
  BY <1>1
<1> QED
  BY <1>2, <1>3, <1>4

\* Money and claims may only move together.
MovesBy(w, d) == paid'[w] >= paid[w] + Charge * d /\ Claims(w)' <= Claims(w) + d

LEMMA StaysCovered ==
  ASSUME TypeOK, TypeOK', NEW w \in Orders, paid[w] >= Charge * Claims(w),
         NEW d \in {-1, 0, 1}, MovesBy(w, d)
  PROVE  (paid[w] >= Charge * Claims(w))'
<1>1. paid[w] \in Int /\ paid'[w] \in Int
  BY DEF TypeOK
<1>2. Claims(w) \in Nat /\ Claims(w)' \in Nat
  BY ClaimTypes
<1> QED
  BY <1>1, <1>2, Arithmetic DEF MovesBy

\* A step that leaves money, flags and administrators alone and starts no
\* refund of w keeps w covered.
LEMMA QuietStep ==
  ASSUME NEW w \in Orders, UNCHANGED <<paid, refunded, admin>>, TypeOK,
         exec'[w].pc = "refunding" => exec[w].pc = "refunding",
         poll'.pc = "refunding" => poll.pc = "refunding" /\ poll'.current = poll.current
  PROVE  MovesBy(w, 0)
<1>1. Clearing(w)' = Clearing(w)
  BY DEF Clearing, ClearsFlag
<1>2. Cardinality(Clearing(w))' = Cardinality(Clearing(w))
  BY <1>1
<1>3. RefundsInFlight(w)' <= RefundsInFlight(w)
  BY DEF RefundsInFlight
<1>4. Claims(w)' <= Claims(w)
  BY <1>2, <1>3, ClaimTypes DEF Claims
<1>5. paid'[w] >= paid[w] + Charge * 0 /\ Claims(w) + 0 = Claims(w)
  BY ClaimTypes, MoneyAssumption DEF TypeOK
<1> QED
  BY <1>4, <1>5 DEF MovesBy

LEMMA SameClearing ==
  ASSUME NEW w \in Orders, UNCHANGED admin
  PROVE  Cardinality(Clearing(w)') = Cardinality(Clearing(w))
BY DEF Clearing, ClearsFlag

\* The two steps of refundFailedOrder and its failures, seen from w.
LEMMA MarkEffect ==
  ASSUME TypeOK, NEW w \in Orders, NEW o \in Orders, NEW yes, NEW no, MarkRefunded(o, yes, no)
  PROVE  \/ no /\ UNCHANGED refunded
         \/ yes /\ ~refunded[o] /\ refunded'[o] /\ (w # o => refunded'[w] = refunded[w])
BY Zenon DEF TypeOK, MarkRefunded

LEMMA PayEffect ==
  ASSUME TypeOK, NEW w \in Orders \ Quota, NEW o \in Orders, PayRefund(o)
  PROVE  /\ refunded'[w] = refunded[w]
         /\ paid'[w] = IF w = o THEN paid[w] - Charge ELSE paid[w]
<1>1. CASE o \in Quota
  <2>1. refunded' = [refunded EXCEPT ![o] = FALSE] /\ UNCHANGED paid /\ w # o
    BY <1>1 DEF PayRefund
  <2> QED
    BY <2>1, Zenon DEF TypeOK
<1>2. CASE o \notin Quota
  BY <1>2, MoneyAssumption DEF PayRefund, Repay, TypeOK
<1> QED
  BY <1>1, <1>2

LEMMA LoseEffect ==
  ASSUME TypeOK, NEW w \in Orders, NEW o \in Orders, NEW pc, LoseRefund(o, pc)
  PROVE  refunded'[w] = refunded[w] \/ (pc = "refunding" /\ w = o)
<1>1. UNCHANGED refunded \/ (pc = "refunding" /\ refunded' = [refunded EXCEPT ![o] = FALSE])
  BY Zenon DEF LoseRefund
<1> QED
  BY <1>1, Zenon DEF TypeOK

\* Steps of executeOrder.
LEMMA ExecMoves ==
  ASSUME TypeOK, NEW w \in Orders \ Quota, NEW o \in Orders,
         ExecStep(o) \/ ExecUnresolved(o) \/ ExecFatal(o) \/ ExecGivesUp(o) \/ ExecLoseRefund(o)
  PROVE  MovesBy(w, 0) \/ MovesBy(w, -1)
<1> USE DEF document, bounds, ExecGoto
<1>0. /\ exec \in [Orders -> ExecStates] /\ refunded \in [Orders -> BOOLEAN]
      /\ paid \in [Orders -> Int] /\ Charge \in Nat /\ w \in Orders
  BY MoneyAssumption DEF TypeOK
<1>1. CASE \/ ExecStart(o) \/ ExecPlace(o) \/ ExecRecord(o) \/ ExecFinish(o)
           \/ ExecUnresolved(o) \/ ExecFatal(o) \/ ExecGivesUp(o)
  <2>1. UNCHANGED <<paid, refunded, admin, poll>>
    BY <1>1 DEF ExecStart, ExecPlace, ExecRecord, ExecFinish, ExecUnresolved, ExecFatal,
           ExecGivesUp
  <2>2. exec'[w].pc = "refunding" => exec[w].pc = "refunding"
    BY <1>0, <1>1 DEF ExecStart, ExecPlace, ExecRecord, ExecFinish, ExecUnresolved,
                      ExecFatal, ExecGivesUp, IdleExec, ExecStates
  <2> QED
    BY <1>0, <2>1, <2>2, QuietStep
<1>2. CASE ExecMarkRefunded(o)
  <2>1. UNCHANGED <<paid, admin, poll>> /\ exec[o].pc = "cas"
    BY <1>2 DEF ExecMarkRefunded
  <2>2. \/ ExecGoto(o, "tail") /\ UNCHANGED refunded
        \/ /\ ExecGoto(o, "refunding") /\ ~refunded[o] /\ refunded'[o]
           /\ w # o => refunded'[w] = refunded[w]
    BY <1>2, <1>0, MarkEffect DEF ExecMarkRefunded
  <2>3. Claims(w)' <= Claims(w)
    BY <1>0, <2>1, <2>2, SameClearing, ClaimTypes DEF Claims, RefundsInFlight, ExecStates
  <2> QED
    BY <1>0, <2>1, <2>3, ClaimTypes DEF MovesBy
<1>3. CASE ExecPayRefund(o)
  <2>1. /\ UNCHANGED <<admin, poll>> /\ exec[o].pc = "refunding" /\ ExecGoto(o, "tail")
        /\ refunded'[w] = refunded[w]
        /\ paid'[w] = IF w = o THEN paid[w] - Charge ELSE paid[w]
    BY <1>3, PayEffect DEF ExecPayRefund
  <2>2. Claims(w)' <= IF w = o THEN Claims(w) - 1 ELSE Claims(w)
    BY <1>0, <2>1, SameClearing, ClaimTypes DEF Claims, RefundsInFlight, ExecStates
  <2> QED
    BY <1>0, <2>1, <2>2, ClaimTypes DEF MovesBy
<1>4. CASE ExecLoseRefund(o)
  <2>1. /\ UNCHANGED <<paid, admin, poll>> /\ ExecGoto(o, "tail")
        /\ refunded'[w] = refunded[w] \/ (exec[o].pc = "refunding" /\ w = o)
    BY <1>4, <1>0, LoseEffect DEF ExecLoseRefund
  <2>2. Claims(w)' <= Claims(w)
    BY <1>0, <2>1, SameClearing, ClaimTypes DEF Claims, RefundsInFlight, ExecStates
  <2> QED
    BY <1>0, <2>1, <2>2, ClaimTypes DEF MovesBy
<1> QED
  BY <1>1, <1>2, <1>3, <1>4 DEF ExecStep

\* A partial refund never exceeds the price.
LEMMA DivisionBound ==
  ASSUME NEW x \in Nat, NEW y \in Nat \ {0}
  PROVE  (x \div y) * y <= x
OBVIOUS

LEMMA AmountBound ==
  ASSUME NEW w \in Orders \ Quota, NEW n \in 0..Qty
  PROVE  RefundAmount(w, n) \in Int /\ RefundAmount(w, n) <= Charge
<1> DEFINE q == (n * Charge) \div (Qty * Unit)
<1>1. /\ Charge \in Nat \ {0} /\ Qty \in Nat \ {0} /\ Unit \in Nat \ {0}
      /\ n \in Nat /\ n <= Qty
  BY MoneyAssumption
<1>2. n * Charge \in Nat /\ Qty * Unit \in Nat \ {0}
  BY <1>1
<1>3. q \in Int
  BY <1>2
<1>4. q * (Qty * Unit) <= n * Charge
  BY <1>2, DivisionBound
<1>5. n * Charge <= Qty * Charge
  BY <1>1
<1> HIDE DEF q
<1>6. q * (Qty * Unit) = (q * Unit) * Qty /\ Qty * Charge = Charge * Qty
  BY <1>1, <1>3
<1>7. (q * Unit) * Qty <= Charge * Qty
  BY <1>1, <1>2, <1>3, <1>4, <1>5, <1>6
<1>8. q * Unit \in Int
  BY <1>1, <1>3
<1>9. q * Unit <= Charge
  <2> DEFINE r == q * Unit
  <2>1. r \in Int /\ r * Qty <= Charge * Qty
    BY <1>7, <1>8
  <2> HIDE DEF r
  <2>2. r <= Charge
    BY <1>1, <2>1
  <2> QED
    BY <2>2 DEF r
<1> QED
  BY <1>1, <1>8, <1>9 DEF RefundAmount, Price, q

\* Steps of the polling job.
LEMMA PollMoves ==
  ASSUME TypeOK, NEW w \in Orders \ Quota,
         \/ PollStep \/ PollAnswered \/ PollUnanswered \/ PollLoseRefund \/ PollRefundAborts
         \/ \E o \in Orders : PollSkip(o)
  PROVE  MovesBy(w, 0) \/ MovesBy(w, -1)
<1> USE DEF document, bounds
<1>0. /\ refunded \in [Orders -> BOOLEAN] /\ paid \in [Orders -> Int]
      /\ Charge \in Nat /\ w \in Orders /\ poll \in PollStates
  BY MoneyAssumption DEF TypeOK
<1>1. \A o : PollNext(poll.todo \ {o}).pc # "refunding"
  BY <1>0, PollNextType
<1>2. PollNext(poll.todo).pc # "refunding" /\ IdlePoll.pc # "refunding"
  BY <1>0, PollEndType DEF IdlePoll
<1>3. ASSUME UNCHANGED <<paid, refunded, admin, exec>>, poll'.pc # "refunding"
      PROVE  MovesBy(w, 0)
  BY <1>0, <1>3, QuietStep
<1>4. CASE PollStart
  BY <1>2, <1>3, <1>4 DEF PollStart, IdlePoll
<1>5. ASSUME NEW o \in Orders, PollPending(o) \/ PollFinal(o) \/ PollSkip(o)
      PROVE  MovesBy(w, 0)
  <2>1. UNCHANGED <<paid, refunded, admin, exec>>
    BY <1>5 DEF PollPending, PollFinal, PollSkip
  <2>2. CASE PollPending(o)
    BY <2>1, <2>2, <1>0, <1>1, <1>3 DEF PollPending, PollStates
  <2>3. CASE PollFinal(o)
    BY <2>1, <2>3, <1>0, <1>1, <1>3 DEF PollFinal, PollStates
  <2>4. CASE PollSkip(o)
    BY <2>1, <2>4, <1>1, <1>3 DEF PollSkip
  <2> QED
    BY <1>5, <2>2, <2>3, <2>4
<1>6. CASE PollAnswered \/ PollUnanswered \/ PollRefundAborts
  <2>1. UNCHANGED <<paid, refunded, admin, exec>>
    BY <1>6 DEF PollAnswered, PollUnanswered, PollRefundAborts
  <2>2. poll'.pc # "refunding"
    BY <1>6, <1>0, <1>2 DEF PollAnswered, PollUnanswered, PollRefundAborts, PollStates
  <2> QED
    BY <2>1, <2>2, <1>3
<1>7. CASE PollMarkRefunded
  <2>1. UNCHANGED <<paid, admin, exec>> /\ poll.pc = "cas" /\ poll.current \in Orders
    BY <1>7 DEF PollMarkRefunded, TypeOK, ActorsOK
  <2>2. \/ poll' = PollNext(poll.todo) /\ UNCHANGED refunded
        \/ /\ poll' = [poll EXCEPT !.pc = "refunding"]
           /\ ~refunded[poll.current] /\ refunded'[poll.current]
           /\ w # poll.current => refunded'[w] = refunded[w]
    BY <1>7, <2>1, <1>0, MarkEffect DEF PollMarkRefunded
  <2>3. Claims(w)' <= Claims(w)
    BY <1>0, <1>2, <2>1, <2>2, SameClearing, ClaimTypes DEF Claims, RefundsInFlight, PollStates
  <2> QED
    BY <1>0, <2>1, <2>3, ClaimTypes DEF MovesBy
<1>8. CASE PollPayRefund
  <2>1. /\ UNCHANGED <<admin, exec>> /\ poll.pc = "refunding" /\ poll' = PollNext(poll.todo)
        /\ refunded'[w] = refunded[w]
        /\ paid'[w] = IF w = poll.current THEN paid[w] - Charge ELSE paid[w]
    BY <1>8, PayEffect DEF PollPayRefund, TypeOK, ActorsOK
  <2>2. Claims(w)' <= IF w = poll.current THEN Claims(w) - 1 ELSE Claims(w)
    BY <1>0, <1>2, <2>1, SameClearing, ClaimTypes DEF Claims, RefundsInFlight
  <2> QED
    BY <1>0, <2>1, <2>2, ClaimTypes DEF MovesBy
<1>9. CASE PollLoseRefund
  <2>1. /\ UNCHANGED <<paid, admin, exec>> /\ poll' = PollNext(poll.todo)
        /\ refunded'[w] = refunded[w] \/ (poll.pc = "refunding" /\ w = poll.current)
    BY <1>9, <1>0, LoseEffect DEF PollLoseRefund, TypeOK, ActorsOK
  <2>2. Claims(w)' <= Claims(w)
    BY <1>0, <1>2, <2>1, SameClearing, ClaimTypes DEF Claims, RefundsInFlight
  <2> QED
    BY <1>0, <2>1, <2>2, ClaimTypes DEF MovesBy
<1>10. CASE PollRefund
  <2> DEFINE o == poll.current
             amount == RefundAmount(o, poll.remains)
  <2>1. /\ UNCHANGED <<admin, exec>> /\ poll.pc = "transaction" /\ o \in Orders
        /\ poll' = PollNext(poll.todo)
    BY <1>10 DEF PollRefund, TypeOK, ActorsOK
  <2>2. \/ UNCHANGED <<paid, refunded>>
        \/ /\ ~refunded[o] /\ refunded' = [refunded EXCEPT ![o] = TRUE]
           /\ paid' = [paid EXCEPT ![o] = @ - amount]
    BY <1>10, Zenon DEF PollRefund, Repay
  <2>3. CASE UNCHANGED <<paid, refunded>>
    BY <2>1, <2>3, <1>2, <1>0, QuietStep
  <2>4. CASE /\ ~refunded[o] /\ refunded' = [refunded EXCEPT ![o] = TRUE]
             /\ paid' = [paid EXCEPT ![o] = @ - amount]
    <3>1. w # o => refunded'[w] = refunded[w] /\ paid'[w] = paid[w]
      BY <1>0, <2>4, Zenon
    <3>2. w = o => ~refunded[w] /\ refunded'[w]
      BY <1>0, <2>4, Zenon
    <3>3. w = o => paid'[w] >= paid[w] - Charge
      <4> SUFFICES ASSUME w = o PROVE paid'[w] >= paid[w] - Charge
        OBVIOUS
      <4>1. amount \in Int /\ amount <= Charge
        BY <1>0, AmountBound DEF PollStates
      <4>2. paid'[w] = paid[w] - amount
        BY <1>0, <2>4
      <4> HIDE DEF amount
      <4> QED
        BY <1>0, <4>1, <4>2
    <3> HIDE DEF amount
    <3>4. Claims(w)' <= IF w = o THEN Claims(w) - 1 ELSE Claims(w)
      BY <1>0, <1>2, <2>1, <3>1, <3>2, SameClearing, ClaimTypes DEF Claims, RefundsInFlight
    <3> QED
      BY <1>0, <3>1, <3>3, <3>4, ClaimTypes DEF MovesBy
  <2> QED
    BY <2>2, <2>3, <2>4
<1> QED
  BY <1>4, <1>5, <1>6, <1>7, <1>8, <1>9, <1>10 DEF PollStep
\* Steps of the administrators.  Only the debit of a forced completion adds a
\* claim, and it brings the money for it.
LEMMA ClearingMoves ==
  ASSUME TypeOK, NEW w \in Orders, NEW a \in Admins,
         \A b \in Admins \ {a} : admin'[b] = admin[b]
  PROVE  /\ a \notin Clearing(w)' => Cardinality(Clearing(w)') <= Cardinality(Clearing(w))
         /\ Cardinality(Clearing(w)') <= Cardinality(Clearing(w)) + 1
         /\ a \in Clearing(w) /\ a \notin Clearing(w)'
              => Cardinality(Clearing(w)') = Cardinality(Clearing(w)) - 1
<1>1. \A b \in Admins \ {a} : b \in Clearing(w)' <=> b \in Clearing(w)
  BY DEF Clearing, ClearsFlag
<1>2. Clearing(w) \subseteq Admins /\ Clearing(w)' \subseteq Admins
  BY DEF Clearing
<1>3. IsFiniteSet(Clearing(w)) /\ Cardinality(Clearing(w)) \in Nat
  BY ClaimTypes
<1>4. \/ Clearing(w)' = Clearing(w)
      \/ a \in Clearing(w) /\ a \notin Clearing(w)' /\ Clearing(w)' = Clearing(w) \ {a}
      \/ a \notin Clearing(w) /\ a \in Clearing(w)' /\ Clearing(w)' = Clearing(w) \cup {a}
  BY <1>1, <1>2
<1>5. CASE Clearing(w)' = Clearing(w)
  <2>1. Cardinality(Clearing(w)') = Cardinality(Clearing(w))
    BY <1>5
  <2> QED
    BY <1>3, <1>5, <2>1
<1>6. CASE a \in Clearing(w) /\ a \notin Clearing(w)' /\ Clearing(w)' = Clearing(w) \ {a}
  <2>1. Cardinality(Clearing(w) \ {a}) = Cardinality(Clearing(w)) - 1
    BY <1>3, <1>6, FS_RemoveElement
  <2>2. Cardinality(Clearing(w)') = Cardinality(Clearing(w)) - 1
    BY <1>6, <2>1
  <2> QED
    BY <1>3, <2>2
<1>7. CASE a \notin Clearing(w) /\ a \in Clearing(w)' /\ Clearing(w)' = Clearing(w) \cup {a}
  <2>1. Cardinality(Clearing(w) \cup {a}) = Cardinality(Clearing(w)) + 1
    BY <1>3, <1>7, FS_AddElement
  <2>2. Cardinality(Clearing(w)') = Cardinality(Clearing(w)) + 1
    BY <1>7, <2>1
  <2> QED
    BY <1>3, <1>7, <2>2
<1> QED
  BY <1>4, <1>5, <1>6, <1>7

LEMMA AdminMoves ==
  ASSUME TypeOK, NEW w \in Orders \ Quota, NEW a \in Admins, AdminStep(a)
  PROVE  MovesBy(w, 0) \/ MovesBy(w, -1) \/ MovesBy(w, 1)
<1> USE DEF document, bounds
<1>0. /\ refunded \in [Orders -> BOOLEAN] /\ paid \in [Orders -> Int]
      /\ Charge \in Nat /\ w \in Orders /\ admin \in [Admins -> AdminStates]
  BY MoneyAssumption DEF TypeOK
<1>1. ASSUME NEW o \in Orders, AdminFail(a, o) PROVE MovesBy(w, 0) \/ MovesBy(w, -1)
  <2>1. /\ UNCHANGED <<exec, poll>> /\ \A b \in Admins \ {a} : admin'[b] = admin[b]
        /\ admin'[a].pc = "done"
    BY <1>0, <1>1 DEF AdminFail, AdminStates
  <2>2. Cardinality(Clearing(w)') <= Cardinality(Clearing(w))
    BY <2>1, ClearingMoves DEF Clearing
  <2>3. ~refunded[o] /\ refunded' = [refunded EXCEPT ![o] = TRUE]
    BY <1>1 DEF AdminFail, Refundable
  <2>4. w = o => ~refunded[w] /\ refunded'[w]
    BY <1>0, <2>3, Zenon
  <2>5. w # o => refunded'[w] = refunded[w]
    BY <1>0, <2>3, Zenon
  <2>6. paid'[w] = IF w = o THEN paid[w] - Charge ELSE paid[w]
    BY <1>0, <1>1 DEF AdminFail, Repay, Price
  <2>7. Claims(w)' <= IF w = o THEN Claims(w) - 1 ELSE Claims(w)
    BY <1>0, <2>1, <2>2, <2>4, <2>5, ClaimTypes DEF Claims, RefundsInFlight
  <2> QED
    BY <1>0, <2>6, <2>7, ClaimTypes DEF MovesBy
<1>2. ASSUME NEW o \in Orders, AdminApprove(a, o) \/ AdminComplete(a, o) \/ AdminRetry(a, o) PROVE MovesBy(w, 0)
  <2>1. UNCHANGED <<exec, poll, paid, refunded>> /\ \A b \in Admins \ {a} : admin'[b] = admin[b]
    BY <1>0, <1>2 DEF AdminApprove, AdminComplete, AdminRetry
  <2>2. ~admin'[a].debited
    <3>1. CASE AdminApprove(a, o)
      BY <1>0, <3>1 DEF AdminApprove, TypeOK, ActorsOK, AdminStates
    <3>2. CASE AdminComplete(a, o)
      <4>1. PICK pc : admin' = [admin EXCEPT ![a] =
                        [pc |-> pc, order |-> o, sawRefunded |-> refunded[o], debited |-> FALSE]]
        BY <3>2, Zenon DEF AdminComplete
      <4> QED
        BY <1>0, <4>1
    <3>3. CASE AdminRetry(a, o)
      BY <1>0, <3>3 DEF AdminRetry, TypeOK, ActorsOK, AdminStates
    <3> QED
      BY <1>2, <3>1, <3>2, <3>3
  <2>3. Cardinality(Clearing(w)') <= Cardinality(Clearing(w))
    BY <2>1, <2>2, ClearingMoves DEF Clearing, ClearsFlag
  <2>4. Claims(w)' <= Claims(w)
    BY <2>1, <2>3, ClaimTypes DEF Claims, RefundsInFlight
  <2> QED
    BY <1>0, <2>1, <2>4, ClaimTypes DEF MovesBy
<1>3. CASE AdminDebit(a)
  <2> DEFINE o == admin[a].order
  <2>1. /\ UNCHANGED <<exec, poll, refunded>> /\ \A b \in Admins \ {a} : admin'[b] = admin[b]
        /\ o \in Orders /\ admin'[a].order = o
    BY <1>0, <1>3 DEF AdminDebit, TypeOK, ActorsOK, AdminStates
  <2>2. w = o => paid'[w] = paid[w] + Charge
    BY <1>0, <1>3 DEF AdminDebit, ReDeduction
  <2>3. w # o => paid'[w] = paid[w]
    BY <1>0, <1>3 DEF AdminDebit
  <2>4. w # o => Cardinality(Clearing(w)') <= Cardinality(Clearing(w))
    BY <2>1, ClearingMoves DEF Clearing
  <2>5. Cardinality(Clearing(w)') <= Cardinality(Clearing(w)) + 1
    BY <2>1, ClearingMoves
  <2>6. Claims(w)' <= IF w = o THEN Claims(w) + 1 ELSE Claims(w)
    BY <2>1, <2>4, <2>5, ClaimTypes DEF Claims, RefundsInFlight
  <2> QED
    BY <1>0, <2>2, <2>3, <2>6, ClaimTypes DEF MovesBy
<1>4. CASE AdminSave(a)
  <2> DEFINE o == admin[a].order
  <2>1. /\ UNCHANGED <<exec, poll, paid>> /\ \A b \in Admins \ {a} : admin'[b] = admin[b]
        /\ admin'[a].pc = "done" /\ admin[a].pc = "save"
    BY <1>0, <1>4 DEF AdminSave, AdminStates
  <2>2. a \notin Clearing(w)'
    BY <2>1 DEF Clearing
  <2>3. refunded' = IF ClearsFlag(a) THEN [refunded EXCEPT ![o] = FALSE] ELSE refunded
    BY <1>4, Zenon DEF AdminSave
  <2>4. CASE ClearsFlag(a) /\ w = o
    <3>1. a \in Clearing(w)
      BY <2>1, <2>4 DEF Clearing
    <3>2. Cardinality(Clearing(w)') = Cardinality(Clearing(w)) - 1
      BY <2>1, <2>2, <3>1, ClearingMoves
    <3>3. Claims(w)' <= Claims(w)
      BY <2>1, <3>2, ClaimTypes DEF Claims, RefundsInFlight
    <3> QED
      BY <1>0, <2>1, <3>3, ClaimTypes DEF MovesBy
  <2>5. CASE ~(ClearsFlag(a) /\ w = o)
    <3>1. refunded'[w] = refunded[w]
      BY <1>0, <2>3, <2>5, Zenon
    <3>2. Cardinality(Clearing(w)') <= Cardinality(Clearing(w))
      BY <2>1, <2>2, ClearingMoves
    <3>3. Claims(w)' <= Claims(w)
      BY <2>1, <3>1, <3>2, ClaimTypes DEF Claims, RefundsInFlight
    <3> QED
      BY <1>0, <2>1, <3>3, ClaimTypes DEF MovesBy
  <2> QED
    BY <2>4, <2>5
<1> QED
  BY <1>1, <1>2, <1>3, <1>4 DEF AdminStep

LEMMA CrashMoves ==
  ASSUME TypeOK, NEW w \in Orders \ Quota, Crash
  PROVE  MovesBy(w, 0)
<1>0. paid \in [Orders -> Int] /\ Charge \in Nat /\ admin \in [Admins -> AdminStates]
  BY MoneyAssumption DEF TypeOK
<1>1. UNCHANGED <<paid, refunded>> /\ RefundsInFlight(w)' = 0
  BY DEF Crash, document, RefundsInFlight, IdleExec, IdlePoll
<1>2. \A a \in Admins : admin'[a].pc # "save"
  BY <1>0 DEF Crash, AdminStates
<1>3. Clearing(w)' = {}
  BY <1>2 DEF Clearing
<1>4. Cardinality(Clearing(w)') = 0
  BY <1>3, FS_EmptySet
<1>5. Claims(w)' <= Claims(w)
  BY <1>1, <1>4, ClaimTypes DEF Claims
<1> QED
  BY <1>0, <1>1, <1>5, ClaimTypes DEF MovesBy

LEMMA NextMoves ==
  ASSUME TypeOK, NEW w \in Orders \ Quota, [Next]_vars
  PROVE  MovesBy(w, 0) \/ MovesBy(w, -1) \/ MovesBy(w, 1)
<1>1. ASSUME NEW o \in Orders, ProviderProgress(o) PROVE MovesBy(w, 0)
  BY <1>1, QuietStep DEF ProviderProgress, document
<1>2. CASE UNCHANGED vars
  BY <1>2, QuietStep DEF vars
<1>3. CASE SetActive
  BY <1>3, QuietStep DEF SetActive, document
<1> QED
  BY <1>1, <1>2, <1>3, ExecMoves, PollMoves, AdminMoves, CrashMoves DEF Next, Failure

\* Everything that can still take money out of an order has it set aside.
LEMMA SetAsideInitially == Init => SetAside
<1> SUFFICES ASSUME Init, NEW w \in Orders \ Quota PROVE paid[w] >= Charge * Claims(w)
  BY DEF SetAside
<1>1. paid[w] = Charge /\ ~refunded[w]
  BY DEF Init, Price
<1>2. Clearing(w) = {} /\ RefundsInFlight(w) = 0
  BY DEF Init, Clearing, RefundsInFlight, IdleExec, IdlePoll
<1>3. Claims(w) = 1
  BY <1>1, <1>2, FS_EmptySet DEF Claims
<1> QED
  BY <1>1, <1>3, MoneyAssumption

\* SetAside is inductive on top of the types, and holds of every behaviour.
THEOREM SetAsideAlways == Spec => []SetAside
<1>1. ASSUME TypeOK, TypeOK', SetAside, [Next]_vars PROVE SetAside'
  <2> SUFFICES ASSUME NEW w \in Orders \ Quota PROVE (paid[w] >= Charge * Claims(w))'
    BY DEF SetAside
  <2>1. paid[w] >= Charge * Claims(w)
    BY <1>1 DEF SetAside
  <2>2. PICK d \in {-1, 0, 1} : MovesBy(w, d)
    BY <1>1, NextMoves
  <2> QED
    BY <1>1, <2>1, <2>2, StaysCovered
<1> QED
  BY <1>1, SetAsideInitially, TypeCorrect, PTL DEF Spec

\* No interleaving of the executor, the polling job, administrators, failures
\* and crashes pays a customer back more than was taken.
THEOREM NeverOverRefunded == Spec => []NoOverRefund
<1>1. ASSUME TypeOK, SetAside PROVE NoOverRefund
  <2> SUFFICES ASSUME NEW w \in Orders \ Quota PROVE paid[w] >= 0
    BY DEF NoOverRefund
  <2>1. paid[w] >= Charge * Claims(w) /\ paid[w] \in Int
    BY <1>1 DEF SetAside, TypeOK
  <2>2. Charge \in Nat /\ Claims(w) \in Nat
    BY MoneyAssumption, ClaimTypes
  <2>3. Charge * Claims(w) >= 0
    BY <2>2
  <2> QED
    BY <2>1, <2>2, <2>3
<1> QED
  BY <1>1, SetAsideAlways, TypeCorrect, PTL
-----------------------------------------------------------------------------
(* The money refines OrderAccount.                                         *)

\* What a step may do to the wallet: nothing to money orders, a covered
\* refund, or a forced completion's debit.
Pays(w, amount) ==
  /\ amount \in 1..Charge /\ amount <= paid[w]
  /\ paid' = [paid EXCEPT ![w] = @ - amount]

AccountStep ==
  \/ \A w \in Orders \ Quota : paid'[w] = paid[w]
  \/ \E w \in Orders \ Quota : \E amount \in Int : Pays(w, amount)
  \/ \E w \in Orders \ Quota : paid' = [paid EXCEPT ![w] = @ + Charge]

\* One claim is enough to cover a full refund.
LEMMA ClaimCovers ==
  ASSUME TypeOK, SetAside, NEW w \in Orders \ Quota,
         ~refunded[w] \/ exec[w].pc = "refunding" \/ (poll.pc = "refunding" /\ poll.current = w)
  PROVE  paid[w] >= Charge /\ Charge \in 1..Charge
<1>1. Claims(w) \in Nat /\ Claims(w) >= 1
  BY ClaimTypes DEF Claims, RefundsInFlight
<1>2. Charge \in Nat \ {0} /\ paid[w] \in Int
  BY MoneyAssumption DEF TypeOK
<1>3. Charge * Claims(w) >= Charge /\ Charge * Claims(w) \in Int
  BY <1>1, <1>2
<1>4. paid[w] >= Charge * Claims(w)
  BY DEF SetAside
<1> QED
  BY <1>2, <1>3, <1>4

LEMMA PayRefundAccount ==
  ASSUME TypeOK, SetAside, NEW o \in Orders, PayRefund(o),
         exec[o].pc = "refunding" \/ (poll.pc = "refunding" /\ poll.current = o)
  PROVE  AccountStep
<1>1. CASE o \in Quota
  BY <1>1 DEF PayRefund, AccountStep
<1>2. CASE o \notin Quota
  <2>1. Pays(o, Charge)
    BY <1>2, ClaimCovers DEF PayRefund, Repay, Pays
  <2> QED
    BY <1>2, <2>1, MoneyAssumption DEF AccountStep
<1> QED
  BY <1>1, <1>2

LEMMA PollRefundAccount ==
  ASSUME TypeOK, SetAside, PollRefund
  PROVE  AccountStep
<1> DEFINE o == poll.current
           amount == RefundAmount(o, poll.remains)
<1>1. o \in Orders /\ poll.remains \in 0..Qty
  BY DEF PollRefund, TypeOK, ActorsOK, PollStates
<1>2. \/ UNCHANGED paid
      \/ ~refunded[o] /\ amount > 0 /\ paid' = [paid EXCEPT ![o] = @ - amount]
  BY Zenon DEF PollRefund, Repay
<1>3. CASE UNCHANGED paid
  BY <1>3 DEF AccountStep
<1>4. CASE /\ ~refunded[o] /\ amount > 0 /\ paid' = [paid EXCEPT ![o] = @ - amount]
  <2>1. CASE o \in Quota
    <3>1. \A w \in Orders \ Quota : paid'[w] = paid[w]
      BY <1>1, <1>4, <2>1 DEF TypeOK
    <3> QED
      BY <3>1 DEF AccountStep
  <2>2. CASE o \notin Quota
    <3>1. amount \in Int /\ amount <= Charge
      BY <1>1, <2>2, AmountBound
    <3>2. paid[o] >= Charge /\ paid[o] \in Int /\ Charge \in Nat
      BY <1>1, <1>4, <2>2, ClaimCovers, MoneyAssumption DEF TypeOK
    <3>3. amount > 0 /\ paid' = [paid EXCEPT ![o] = @ - amount]
      BY <1>4
    <3> HIDE DEF amount
    <3>4. amount \in 1..Charge /\ amount <= paid[o]
      BY <3>1, <3>2, <3>3
    <3>5. Pays(o, amount)
      BY <3>3, <3>4 DEF Pays
    <3> QED
      BY <1>1, <2>2, <3>1, <3>5 DEF AccountStep
  <2> QED
    BY <2>1, <2>2
<1> QED
  BY <1>2, <1>3, <1>4

LEMMA AdminAccount ==
  ASSUME TypeOK, SetAside, NEW a \in Admins, AdminStep(a)
  PROVE  AccountStep
<1>0. paid \in [Orders -> Int] /\ Charge \in Nat
  BY MoneyAssumption DEF TypeOK
<1>1. ASSUME NEW o \in Orders, AdminFail(a, o) PROVE AccountStep
  <2>1. paid' = [paid EXCEPT ![o] = @ - Price(o)] /\ ~refunded[o]
    BY <1>1 DEF AdminFail, Repay, Refundable
  <2>2. CASE o \in Quota
    BY <1>0, <2>1, <2>2 DEF AccountStep
  <2>3. CASE o \notin Quota
    <3>1. Pays(o, Charge)
      BY <2>1, <2>3, ClaimCovers DEF Pays, Price
    <3> QED
      BY <1>0, <2>3, <3>1 DEF AccountStep
  <2> QED
    BY <2>2, <2>3
<1>2. ASSUME NEW o \in Orders, AdminApprove(a, o) \/ AdminComplete(a, o) \/ AdminRetry(a, o) PROVE AccountStep
  BY <1>2 DEF AdminApprove, AdminComplete, AdminRetry, AccountStep
<1>3. CASE AdminDebit(a)
  <2> DEFINE o == admin[a].order
  <2>1. o \in Orders /\ paid' = [paid EXCEPT ![o] = @ + ReDeduction(o)]
    BY <1>3 DEF AdminDebit, TypeOK, ActorsOK
  <2>2. CASE o \in Quota
    BY <1>0, <2>1, <2>2 DEF AccountStep
  <2>3. CASE o \notin Quota
    BY <2>1, <2>3 DEF AccountStep, ReDeduction
  <2> QED
    BY <2>2, <2>3
<1>4. CASE AdminSave(a)
  BY <1>4 DEF AdminSave, AccountStep
<1> QED
  BY <1>1, <1>2, <1>3, <1>4 DEF AdminStep

LEMMA NextAccount ==
  ASSUME TypeOK, SetAside, [Next]_vars
  PROVE  AccountStep
<1>1. ASSUME NEW o \in Orders, ExecPayRefund(o) PROVE AccountStep
  BY <1>1, PayRefundAccount DEF ExecPayRefund
<1>2. CASE PollPayRefund
  BY <1>2, PayRefundAccount DEF PollPayRefund, TypeOK, ActorsOK
<1>3. ASSUME NEW o \in Orders,
             \/ ExecStart(o) \/ ExecPlace(o) \/ ExecRecord(o) \/ ExecMarkRefunded(o)
             \/ ExecFinish(o) \/ ExecUnresolved(o) \/ ProviderProgress(o)
             \/ ExecFatal(o) \/ ExecGivesUp(o) \/ ExecLoseRefund(o)
      PROVE  UNCHANGED paid
  BY <1>3 DEF ExecStart, ExecPlace, ExecRecord, ExecMarkRefunded, ExecFinish, ExecUnresolved,
              ProviderProgress, ExecFatal, ExecGivesUp, ExecLoseRefund
<1>4. ASSUME \/ PollStart \/ PollAnswered \/ PollUnanswered \/ PollMarkRefunded
             \/ PollLoseRefund \/ PollRefundAborts \/ Crash \/ SetActive
             \/ \E o \in Orders : PollPending(o) \/ PollFinal(o) \/ PollSkip(o)
      PROVE  UNCHANGED paid
  BY <1>4 DEF SetActive, PollStart, PollAnswered, PollUnanswered, PollMarkRefunded, PollLoseRefund,
              PollRefundAborts, Crash, PollPending, PollFinal, PollSkip
<1>5. UNCHANGED paid => AccountStep
  BY DEF AccountStep
<1>6. UNCHANGED vars => UNCHANGED paid
  BY DEF vars
<1> QED
  BY <1>1, <1>2, <1>3, <1>4, <1>5, <1>6, PollRefundAccount, AdminAccount
     DEF Next, ExecStep, PollStep, Failure

LEMMA MoneyView ==
  ASSUME paid \in [Orders -> Int], paid' \in [Orders -> Int], AccountStep
  PROVE  [Account!Next]_[o \in Orders \ Quota |-> paid[o]]
<1> DEFINE view == [o \in Orders \ Quota |-> paid[o]]
<1>1. CASE \A w \in Orders \ Quota : paid'[w] = paid[w]
  BY <1>1
<1>2. ASSUME NEW w \in Orders \ Quota, NEW amount \in Int, Pays(w, amount) PROVE Account!Next
  <2>1. view' = [view EXCEPT ![w] = @ - amount]
    BY <1>2 DEF Pays
  <2> QED
    BY <1>2, <2>1 DEF Account!Next, Account!Refund, Pays
<1>3. ASSUME NEW w \in Orders \ Quota, paid' = [paid EXCEPT ![w] = @ + Charge]
      PROVE  Account!Next
  <2>1. view' = [view EXCEPT ![w] = @ + Charge]
    BY <1>3
  <2> QED
    BY <2>1 DEF Account!Next, Account!ReDebit
<1> QED
  BY <1>1, <1>2, <1>3 DEF AccountStep

\* Refunds and forced completions of the order engine are those of the
\* abstract account: money flows back only when it is there.
THEOREM AccountRefined == Spec => ImplementsAccount
<1>1. Init => Account!Init
  BY DEF Init, Account!Init, Price
<1>2. ASSUME TypeOK, TypeOK', SetAside, [Next]_vars
      PROVE  [Account!Next]_[o \in Orders \ Quota |-> paid[o]]
  BY <1>2, NextAccount, MoneyView DEF TypeOK
<1> QED
  BY <1>1, <1>2, TypeCorrect, SetAsideAlways, PTL DEF Spec, ImplementsAccount, Account!Spec

-----------------------------------------------------------------------------
(* Status.                                                                 *)

\* Every step leaves the status of an order alone or decides it.
LEMMA StatusDecides ==
  ASSUME TypeOK, NEW w \in Orders, [Next]_vars
  PROVE  status'[w] = status[w] \/ status'[w] \notin {"PENDING", "PROCESSING"}
<1> USE DEF document
<1>0. status \in [Orders -> Statuses]
  BY DEF TypeOK
<1>1. ASSUME NEW o \in Orders, ExecStep(o) \/ ExecUnresolved(o) \/ ProviderProgress(o)
      PROVE  status'[w] = status[w] \/ status'[w] \notin {"PENDING", "PROCESSING"}
  BY <1>0, <1>1 DEF ExecStep, ExecUnresolved, ProviderProgress, ExecStart, ExecPlace, ExecRecord,
     ExecMarkRefunded, ExecPayRefund, ExecFinish, PlacedStatus
<1>2. ASSUME PollStep \/ PollAnswered \/ PollUnanswered
      PROVE  status'[w] = status[w] \/ status'[w] \notin {"PENDING", "PROCESSING"}
  <2>1. CASE PollStart
    BY <2>1 DEF PollStart
  <2>2. ASSUME NEW o \in Orders, PollPending(o) \/ PollFinal(o)
        PROVE  status'[w] = status[w] \/ status'[w] \notin {"PENDING", "PROCESSING"}
    BY <1>0, <2>2 DEF PollPending, PollFinal
  <2> QED
    BY <1>2, <2>1, <2>2 DEF PollStep, PollAnswered, PollUnanswered, PollMarkRefunded,
       PollPayRefund, PollRefund
<1>3. ASSUME NEW a \in Admins, AdminStep(a)
      PROVE  status'[w] = status[w] \/ status'[w] \notin {"PENDING", "PROCESSING"}
  BY <1>0, <1>3 DEF AdminStep, AdminFail, AdminApprove, AdminComplete, AdminRetry, AdminDebit, AdminSave
<1>4. ASSUME Failure
      PROVE  status'[w] = status[w] \/ status'[w] \notin {"PENDING", "PROCESSING"}
  BY <1>0, <1>4 DEF Failure, ExecFatal, ExecGivesUp, ExecLoseRefund, PollSkip, PollLoseRefund,
     PollRefundAborts, Crash
<1> QED
  BY <1>1, <1>2, <1>3, <1>4 DEF Next, SetActive, vars

\* The polling job's kill switch never fires: a retry count that reaches the
\* limit is written together with the status FAILED.
THEOREM KillSwitchNeverFires == Spec => []KillSwitchIdle
<1>1. Init => KillSwitchIdle
  BY RetryAssumption DEF Init, KillSwitchIdle
<1>2. ASSUME TypeOK, KillSwitchIdle, [Next]_vars PROVE KillSwitchIdle'
  <2> SUFFICES ASSUME NEW w \in Orders, status'[w] = "PROCESSING" PROVE retry'[w] < MaxRetry
    BY DEF KillSwitchIdle
  <2>0. /\ status \in [Orders -> Statuses] /\ retry \in [Orders -> Nat]
        /\ poll \in PollStates /\ MaxRetry \in Nat
    BY <1>2, RetryAssumption DEF TypeOK
  <2>1. status[w] = "PROCESSING" /\ retry[w] < MaxRetry
    BY <1>2, StatusDecides DEF KillSwitchIdle
  <2>2. ASSUME NEW o \in Orders, PollPending(o) PROVE retry'[w] < MaxRetry
    <3>1. retry' = [retry EXCEPT ![o] = poll.count[o] + 1] /\ poll.count[o] + 1 \in Nat
      BY <2>0, <2>2 DEF PollPending, PollStates
    <3>2. LimitReached(poll.count[o] + 1) => status'[o] = "FAILED"
      BY <2>0, <2>2 DEF PollPending
    <3> QED
      BY <2>0, <2>1, <3>1, <3>2 DEF LimitReached
  <2>3. ASSUME UNCHANGED retry PROVE retry'[w] < MaxRetry
    BY <2>1, <2>3
  <2>4. UNCHANGED retry \/ \E o \in Orders : PollPending(o)
    BY <1>2 DEF Next, vars, document, SetActive, ExecStep, ExecUnresolved, ProviderProgress, ExecStart,
       ExecPlace, ExecRecord, ExecMarkRefunded, ExecPayRefund, ExecFinish, PollStep, PollAnswered,
       PollUnanswered, PollStart, PollFinal, PollMarkRefunded, PollPayRefund, PollRefund,
       AdminStep, AdminFail, AdminApprove, AdminComplete, AdminRetry, AdminDebit, AdminSave, Failure,
       ExecFatal, ExecGivesUp, ExecLoseRefund, PollSkip, PollLoseRefund, PollRefundAborts, Crash
  <2> QED
    BY <2>2, <2>3, <2>4
<1> QED
  BY <1>1, <1>2, TypeCorrect, PTL DEF Spec
-----------------------------------------------------------------------------
(* The flag and the money.  Between a refund's two steps the flag is ahead *)
(* of the money; at most one refund of an order is there, and everything   *)
(* else moves them together, until a refund is cut off or an administrator *)
(* forces the completion.                                                  *)

Exempt(w) ==
  w \in interrupted \/ \E a \in Admins : admin[a].order = w /\ admin[a].debited

Matched(w) ==
  \/ Exempt(w)
  \/ RefundsInFlight(w) = 1 /\ refunded[w] /\ paid[w] = Price(w)
  \/ RefundsInFlight(w) = 0 /\ IF refunded[w] THEN paid[w] < Price(w) ELSE paid[w] = Price(w)

\* What a step may mean for the refund of w: nothing, its first step, both at
\* once, or the second step or its failure.
Unrelated(w) == /\ refunded'[w] = refunded[w] /\ paid'[w] = paid[w]
                /\ RefundsInFlight(w)' = RefundsInFlight(w)
Flags(w)     == /\ ~refunded[w] /\ refunded'[w] /\ paid'[w] = paid[w]
                /\ RefundsInFlight(w)' = RefundsInFlight(w) + 1
Refunds(w)   == /\ ~refunded[w] /\ refunded'[w] /\ paid'[w] < paid[w]
                /\ RefundsInFlight(w)' = RefundsInFlight(w)
Settles(w)   == /\ RefundsInFlight(w)' = RefundsInFlight(w) - 1
                /\ \/ refunded'[w] = refunded[w] /\ paid'[w] < paid[w]
                   \/ ~refunded'[w] /\ paid'[w] = paid[w]
Excused(w)   == Exempt(w) \/ Exempt(w)'
RefundStep(w) == Excused(w) \/ Unrelated(w) \/ Flags(w) \/ Refunds(w) \/ Settles(w)

\* Once excused, an order stays so.
LEMMA ExemptStays ==
  ASSUME TypeOK, [Next]_vars, NEW w \in Orders, Exempt(w)
  PROVE  Exempt(w)'
<1>1. interrupted \subseteq interrupted'
  BY DEF Next, SetActive, ExecStep, ExecStart, ExecPlace, ExecRecord, ExecMarkRefunded, ExecPayRefund,
     ExecFinish, ExecUnresolved, ProviderProgress, PollStep, PollStart, PollPending, PollFinal,
     PollMarkRefunded, PollPayRefund, PollRefund, PollAnswered, PollUnanswered, AdminStep,
     AdminFail, AdminApprove, AdminComplete, AdminRetry, AdminDebit, AdminSave, Failure,
     ExecFatal, ExecGivesUp,
     ExecLoseRefund, PollSkip, PollLoseRefund, PollRefundAborts, Crash, LoseRefund, bounds, vars
<1>2. ASSUME NEW a \in Admins, admin[a].debited
      PROVE  admin'[a].debited /\ admin'[a].order = admin[a].order
  <2>0. /\ admin \in [Admins -> AdminStates]
        /\ \A b \in Admins : admin[b].pc \in {"idle", "debit"} => ~admin[b].debited
    BY DEF TypeOK, ActorsOK
  <2>1. CASE UNCHANGED admin
    BY <1>2, <2>1
  <2>2. ASSUME NEW b \in Admins, AdminStep(b)
        PROVE  admin'[a].debited /\ admin'[a].order = admin[a].order
    <3>1. ASSUME admin[b].pc \in {"idle", "debit"}, \E x : admin' = [admin EXCEPT ![b] = x]
          PROVE  admin'[a] = admin[a]
      BY <1>2, <2>0, <3>1
    <3>2. ASSUME NEW o \in Orders, AdminFail(b, o)
          PROVE  admin'[a] = admin[a]
      BY <3>1, <3>2 DEF AdminFail
    <3>3. ASSUME NEW o \in Orders, AdminApprove(b, o)
          PROVE  admin'[a] = admin[a]
      BY <3>1, <3>3 DEF AdminApprove
    <3>4. ASSUME NEW o \in Orders, AdminComplete(b, o)
          PROVE  admin'[a] = admin[a]
      BY <3>1, <3>4, Zenon DEF AdminComplete
    <3>5. CASE AdminDebit(b)
      <4>1. admin[b].pc = "debit" /\ \E x : admin' = [admin EXCEPT ![b] = x]
        BY <3>5, Zenon DEF AdminDebit
      <4>2. admin'[a] = admin[a]
        BY <3>1, <4>1
      <4> QED BY <1>2, <4>2
    <3>6. CASE AdminSave(b)
      BY <1>2, <2>0, <3>6 DEF AdminSave, AdminStates
    <3>7. ASSUME NEW o \in Orders, AdminRetry(b, o)
          PROVE  admin'[a] = admin[a]
      BY <3>1, <3>7 DEF AdminRetry
    <3> QED BY <1>2, <2>2, <3>2, <3>3, <3>4, <3>5, <3>6, <3>7 DEF AdminStep
  <2>3. CASE Crash
    BY <1>2, <2>0, <2>3 DEF Crash, AdminStates
  <2>4. ASSUME NEW o \in Orders,
               \/ ExecStep(o) \/ ExecUnresolved(o) \/ ProviderProgress(o)
               \/ ExecFatal(o) \/ ExecGivesUp(o) \/ ExecLoseRefund(o) \/ PollSkip(o)
        PROVE  UNCHANGED admin
    BY <2>4 DEF ExecStep, ExecStart, ExecPlace, ExecRecord, ExecMarkRefunded, ExecPayRefund,
       ExecFinish, ExecUnresolved, ProviderProgress, ExecFatal, ExecGivesUp, ExecLoseRefund, PollSkip
  <2>5. CASE \/ PollStep \/ PollAnswered \/ PollUnanswered \/ SetActive
             \/ PollLoseRefund \/ PollRefundAborts
    BY <2>1, <2>5 DEF SetActive, PollStep, PollStart, PollPending, PollFinal, PollMarkRefunded,
       PollPayRefund, PollRefund, PollAnswered, PollUnanswered, PollLoseRefund, PollRefundAborts
  <2> QED BY <2>1, <2>2, <2>3, <2>4, <2>5 DEF Next, Failure, vars
<1> QED BY <1>1, <1>2 DEF Exempt

\* The second step, of a money order or of a quota order, and its failures.
LEMMA PaySettles ==
  ASSUME TypeOK, NEW w \in Orders, NEW o \in Orders, PayRefund(o)
  PROVE  IF w # o THEN refunded'[w] = refunded[w] /\ paid'[w] = paid[w]
         ELSE \/ refunded'[w] = refunded[w] /\ paid'[w] < paid[w]
              \/ ~refunded'[w] /\ paid'[w] = paid[w]
<1>1. CASE o \in Quota
  <2>1. refunded' = [refunded EXCEPT ![o] = FALSE] /\ UNCHANGED paid
    BY <1>1 DEF PayRefund
  <2>2. (w # o => refunded'[w] = refunded[w]) /\ (w = o => ~refunded'[w])
    BY <2>1, Zenon DEF TypeOK
  <2> QED BY <2>1, <2>2
<1>2. CASE o \notin Quota
  <2>1. UNCHANGED refunded /\ paid' = [paid EXCEPT ![o] = @ - Charge]
    BY <1>2 DEF PayRefund, Repay
  <2>2. paid \in [Orders -> Int] /\ Charge \in Nat \ {0}
    BY MoneyAssumption DEF TypeOK
  <2> QED BY <2>1, <2>2
<1> QED BY <1>1, <1>2

LEMMA LoseSettles ==
  ASSUME TypeOK, NEW w \in Orders, NEW o \in Orders, NEW pc, LoseRefund(o, pc)
  PROVE  /\ w # o => refunded'[w] = refunded[w]
         /\ pc # "refunding" => refunded'[w] = refunded[w]
         /\ pc = "refunding" /\ w = o => ~refunded'[w] \/ w \in interrupted'
<1>1. \/ pc = "cas" /\ UNCHANGED refunded
      \/ pc = "refunding" /\ refunded' = [refunded EXCEPT ![o] = FALSE]
      \/ pc = "refunding" /\ o \in interrupted' /\ UNCHANGED refunded
  BY DEF LoseRefund
<1>2. CASE pc = "refunding" /\ refunded' = [refunded EXCEPT ![o] = FALSE]
  BY <1>2, Zenon DEF TypeOK
<1> QED BY <1>1, <1>2

\* Steps that neither pay nor mark nor start or end a refund's second step.
LEMMA UnrelatedStep ==
  ASSUME NEW w \in Orders, UNCHANGED <<paid, refunded>>,
         exec'[w].pc = "refunding" <=> exec[w].pc = "refunding",
         (poll'.pc = "refunding" /\ poll'.current = w)
           <=> (poll.pc = "refunding" /\ poll.current = w)
  PROVE  Unrelated(w)
BY DEF Unrelated, RefundsInFlight

LEMMA ExecRefundSteps ==
  ASSUME TypeOK, NEW w \in Orders, NEW o \in Orders,
         ExecStep(o) \/ ExecUnresolved(o) \/ ExecFatal(o) \/ ExecGivesUp(o) \/ ExecLoseRefund(o)
  PROVE  RefundStep(w)
<1> USE DEF document, bounds, ExecGoto, RefundStep
<1>0. exec \in [Orders -> ExecStates] /\ refunded \in [Orders -> BOOLEAN]
  BY DEF TypeOK
<1>1. CASE \/ ExecStart(o) \/ ExecPlace(o) \/ ExecRecord(o) \/ ExecFinish(o)
           \/ ExecUnresolved(o) \/ ExecFatal(o) \/ ExecGivesUp(o)
  <2>1. UNCHANGED <<paid, refunded, poll>>
    BY <1>1 DEF ExecStart, ExecPlace, ExecRecord, ExecFinish, ExecUnresolved, ExecFatal,
           ExecGivesUp
  <2>2. exec'[w].pc = "refunding" <=> exec[w].pc = "refunding"
    BY <1>0, <1>1 DEF ExecStart, ExecPlace, ExecRecord, ExecFinish, ExecUnresolved,
                      ExecFatal, ExecGivesUp, IdleExec, ExecStates
  <2> QED BY <2>1, <2>2, UnrelatedStep
<1>2. CASE ExecMarkRefunded(o)
  <2>1. UNCHANGED <<paid, poll>> /\ exec[o].pc = "cas"
    BY <1>2 DEF ExecMarkRefunded
  <2>2. \/ ExecGoto(o, "tail") /\ UNCHANGED refunded
        \/ /\ ExecGoto(o, "refunding") /\ ~refunded[o] /\ refunded'[o]
           /\ w # o => refunded'[w] = refunded[w]
    BY <1>2, <1>0, MarkEffect DEF ExecMarkRefunded
  <2> QED BY <1>0, <2>1, <2>2 DEF Unrelated, Flags, RefundsInFlight, ExecStates
<1>3. CASE ExecPayRefund(o)
  <2>1. /\ UNCHANGED poll /\ exec[o].pc = "refunding" /\ ExecGoto(o, "tail") /\ PayRefund(o)
    BY <1>3 DEF ExecPayRefund
  <2>2. RefundsInFlight(w)' = IF w = o THEN RefundsInFlight(w) - 1 ELSE RefundsInFlight(w)
    BY <1>0, <2>1 DEF RefundsInFlight, ExecStates
  <2> QED BY <2>1, <2>2, PaySettles DEF Unrelated, Settles
<1>4. CASE ExecLoseRefund(o)
  <2>1. /\ UNCHANGED <<paid, poll>> /\ ExecGoto(o, "tail") /\ LoseRefund(o, exec[o].pc)
    BY <1>4 DEF ExecLoseRefund
  <2>2. RefundsInFlight(w)' = IF w = o /\ exec[o].pc = "refunding" THEN RefundsInFlight(w) - 1
                                                               ELSE RefundsInFlight(w)
    BY <1>0, <2>1 DEF RefundsInFlight, ExecStates
  <2> QED BY <2>1, <2>2, LoseSettles DEF Unrelated, Settles, Excused, Exempt
<1> QED BY <1>1, <1>2, <1>3, <1>4 DEF ExecStep

\* A partial refund is of something.
LEMMA PollRefundSteps ==
  ASSUME TypeOK, NEW w \in Orders,
         \/ PollStep \/ PollAnswered \/ PollUnanswered \/ PollLoseRefund \/ PollRefundAborts
         \/ \E o \in Orders : PollSkip(o)
  PROVE  RefundStep(w)
<1> USE DEF document, bounds, RefundStep
<1>0. refunded \in [Orders -> BOOLEAN] /\ paid \in [Orders -> Int] /\ poll \in PollStates
  BY DEF TypeOK
<1>1. \A o : PollNext(poll.todo \ {o}).pc # "refunding"
  BY <1>0, PollNextType
<1>2. PollNext(poll.todo).pc # "refunding" /\ IdlePoll.pc # "refunding"
  BY <1>0, PollEndType DEF IdlePoll
<1>3. ASSUME UNCHANGED <<paid, refunded, exec>>, poll.pc # "refunding", poll'.pc # "refunding"
      PROVE  Unrelated(w)
  BY <1>3, UnrelatedStep
<1>4. CASE PollStart
  BY <1>2, <1>3, <1>4 DEF PollStart, IdlePoll
<1>5. ASSUME NEW o \in Orders, PollPending(o) \/ PollFinal(o) \/ PollSkip(o)
      PROVE  Unrelated(w)
  <2>1. UNCHANGED <<paid, refunded, exec>> /\ poll.pc = "apply"
    BY <1>5 DEF PollPending, PollFinal, PollSkip
  <2>2. CASE PollPending(o)
    BY <2>1, <2>2, <1>0, <1>1, <1>3 DEF PollPending, PollStates
  <2>3. CASE PollFinal(o)
    BY <2>1, <2>3, <1>0, <1>1, <1>3 DEF PollFinal, PollStates
  <2>4. CASE PollSkip(o)
    BY <2>1, <2>4, <1>1, <1>3 DEF PollSkip
  <2> QED BY <1>5, <2>2, <2>3, <2>4
<1>6. CASE PollAnswered \/ PollUnanswered \/ PollRefundAborts
  <2>1. UNCHANGED <<paid, refunded, exec>> /\ poll.pc # "refunding"
    BY <1>6 DEF PollAnswered, PollUnanswered, PollRefundAborts
  <2>2. poll'.pc # "refunding"
    BY <1>6, <1>0, <1>2 DEF PollAnswered, PollUnanswered, PollRefundAborts, PollStates
  <2> QED BY <2>1, <2>2, <1>3
<1>7. CASE PollMarkRefunded
  <2>1. UNCHANGED <<paid, exec>> /\ poll.pc = "cas" /\ poll.current \in Orders
    BY <1>7 DEF PollMarkRefunded, TypeOK, ActorsOK
  <2>2. \/ poll' = PollNext(poll.todo) /\ UNCHANGED refunded
        \/ /\ poll' = [poll EXCEPT !.pc = "refunding"]
           /\ ~refunded[poll.current] /\ refunded'[poll.current]
           /\ w # poll.current => refunded'[w] = refunded[w]
    BY <1>7, <2>1, <1>0, MarkEffect DEF PollMarkRefunded
  <2> QED BY <1>0, <1>2, <2>1, <2>2 DEF Unrelated, Flags, RefundsInFlight, PollStates
<1>8. CASE PollPayRefund
  <2>1. /\ UNCHANGED exec /\ poll.pc = "refunding" /\ poll' = PollNext(poll.todo)
        /\ poll.current \in Orders /\ PayRefund(poll.current)
    BY <1>8 DEF PollPayRefund, TypeOK, ActorsOK
  <2>2. RefundsInFlight(w)' = IF w = poll.current THEN RefundsInFlight(w) - 1
                                                  ELSE RefundsInFlight(w)
    BY <1>2, <2>1 DEF RefundsInFlight
  <2> QED BY <2>1, <2>2, PaySettles DEF Unrelated, Settles
<1>9. CASE PollLoseRefund
  <2>1. /\ UNCHANGED <<paid, exec>> /\ poll' = PollNext(poll.todo)
        /\ poll.current \in Orders /\ LoseRefund(poll.current, poll.pc)
    BY <1>9 DEF PollLoseRefund, TypeOK, ActorsOK
  <2>2. RefundsInFlight(w)' = IF w = poll.current /\ poll.pc = "refunding"
                              THEN RefundsInFlight(w) - 1 ELSE RefundsInFlight(w)
    BY <1>2, <2>1 DEF RefundsInFlight
  <2> QED BY <2>1, <2>2, LoseSettles DEF Unrelated, Settles, Excused, Exempt
<1>10. CASE PollRefund
  <2> DEFINE o == poll.current
             amount == RefundAmount(o, poll.remains)
  <2>1. /\ UNCHANGED exec /\ poll.pc = "transaction" /\ o \in Orders
        /\ poll' = PollNext(poll.todo) /\ poll.remains \in 0..Qty
    BY <1>0, <1>10 DEF PollRefund, TypeOK, ActorsOK, PollStates
  <2>2. \/ UNCHANGED <<paid, refunded>>
        \/ /\ ~refunded[o] /\ amount > 0 /\ refunded' = [refunded EXCEPT ![o] = TRUE]
           /\ paid' = [paid EXCEPT ![o] = @ - amount]
    BY <1>10, Zenon DEF PollRefund, Repay
  <2>3. RefundsInFlight(w)' = RefundsInFlight(w)
    BY <1>2, <2>1 DEF RefundsInFlight
  <2>4. amount \in Int
    BY <2>1, AmountType
  <2> HIDE DEF amount
  <2>5. CASE /\ ~refunded[o] /\ amount > 0 /\ refunded' = [refunded EXCEPT ![o] = TRUE]
             /\ paid' = [paid EXCEPT ![o] = @ - amount]
    <3>1. w # o => refunded'[w] = refunded[w] /\ paid'[w] = paid[w]
      BY <1>0, <2>5, Zenon
    <3>2. w = o => ~refunded[w] /\ refunded'[w]
      BY <1>0, <2>5, Zenon
    <3>3. w = o => paid'[w] < paid[w]
      BY <1>0, <2>4, <2>5
    <3> QED BY <2>3, <3>1, <3>2, <3>3 DEF Unrelated, Refunds
  <2> QED BY <2>2, <2>3, <2>5 DEF Unrelated
<1> QED
  BY <1>4, <1>5, <1>6, <1>7, <1>8, <1>9, <1>10 DEF PollStep

LEMMA AdminRefundSteps ==
  ASSUME TypeOK, NEW w \in Orders, NEW a \in Admins, AdminStep(a)
  PROVE  RefundStep(w)
<1> USE DEF RefundStep
<1>0. /\ refunded \in [Orders -> BOOLEAN] /\ paid \in [Orders -> Int]
      /\ admin \in [Admins -> AdminStates] /\ \A o \in Orders : Price(o) \in Nat \ {0}
  BY MoneyAssumption DEF TypeOK, Price
<1>1. RefundsInFlight(w)' = RefundsInFlight(w)
  BY DEF AdminStep, AdminFail, AdminApprove, AdminComplete, AdminRetry, AdminDebit, AdminSave,
     RefundsInFlight
<1>2. ASSUME NEW o \in Orders, AdminFail(a, o) PROVE Unrelated(w) \/ Refunds(w)
  <2>1. ~refunded[o] /\ refunded' = [refunded EXCEPT ![o] = TRUE]
    BY <1>2 DEF AdminFail, Refundable
  <2>2. w = o => ~refunded[w] /\ refunded'[w]
    BY <1>0, <2>1, Zenon
  <2>3. w # o => refunded'[w] = refunded[w]
    BY <1>0, <2>1, Zenon
  <2>4. paid'[w] = IF w = o THEN paid[w] - Price(o) ELSE paid[w]
    BY <1>0, <1>2 DEF AdminFail, Repay
  <2> QED BY <1>0, <1>1, <2>2, <2>3, <2>4 DEF Unrelated, Refunds
<1>3. ASSUME NEW o \in Orders, AdminApprove(a, o) \/ AdminComplete(a, o) \/ AdminRetry(a, o) PROVE Unrelated(w)
  BY <1>1, <1>3 DEF AdminApprove, AdminComplete, AdminRetry, document, Unrelated
<1>4. CASE AdminDebit(a)
  <2>1. UNCHANGED refunded /\ admin'[a].order = admin[a].order /\ admin'[a].debited
    BY <1>0, <1>4 DEF AdminDebit, document, AdminStates
  <2>2. w # admin[a].order => paid'[w] = paid[w]
    BY <1>0, <1>4 DEF AdminDebit
  <2> QED BY <1>1, <2>1, <2>2 DEF Unrelated, Excused, Exempt
<1>5. CASE AdminSave(a)
  <2>1. UNCHANGED paid /\ refunded' = IF ClearsFlag(a)
                                      THEN [refunded EXCEPT ![admin[a].order] = FALSE]
                                      ELSE refunded
    BY <1>5, Zenon DEF AdminSave
  <2>2. CASE ClearsFlag(a) /\ w = admin[a].order
    BY <2>2 DEF ClearsFlag, Excused, Exempt
  <2>3. CASE ~(ClearsFlag(a) /\ w = admin[a].order)
    <3>1. refunded'[w] = refunded[w]
      BY <1>0, <2>1, <2>3, Zenon
    <3> QED BY <1>1, <2>1, <3>1 DEF Unrelated
  <2> QED BY <2>2, <2>3
<1> QED BY <1>2, <1>3, <1>4, <1>5 DEF AdminStep

LEMMA RefundSteps ==
  ASSUME TypeOK, NEW w \in Orders, [Next]_vars
  PROVE  RefundStep(w)
<1> USE DEF RefundStep
<1>1. ASSUME NEW o \in Orders, ProviderProgress(o) PROVE Unrelated(w)
  BY <1>1, UnrelatedStep DEF ProviderProgress, document
<1>2. CASE UNCHANGED vars
  BY <1>2, UnrelatedStep DEF vars
<1>4. CASE SetActive
  BY <1>4, UnrelatedStep DEF SetActive, document
<1>3. CASE Crash
  <2>1. /\ UNCHANGED <<paid, refunded>> /\ RefundsInFlight(w)' = 0
        /\ RefundsInFlight(w) > 0 => w \in interrupted'
    BY <1>3 DEF Crash, document, RefundsInFlight, IdleExec, IdlePoll
  <2>2. RefundsInFlight(w) \in Nat
    BY ClaimTypes
  <2> QED BY <2>1, <2>2 DEF Unrelated, Excused, Exempt
<1> QED
  BY <1>1, <1>2, <1>3, <1>4, ExecRefundSteps, PollRefundSteps, AdminRefundSteps DEF Next, Failure

\* The refunded flag and the money agree, except between a refund's two steps
\* and where a refund was cut off or a completion forced.
THEOREM FlagAlwaysMatches == Spec => []FlagMatchesMoney
<1> DEFINE FlagInv == \A w \in Orders : Matched(w)
<1>1. Init => FlagInv
  BY DEF Init, Matched, RefundsInFlight, IdleExec, IdlePoll
<1>2. ASSUME TypeOK, TypeOK', FlagInv, [Next]_vars PROVE FlagInv'
  <2> SUFFICES ASSUME NEW w \in Orders PROVE Matched(w)'
    OBVIOUS
  <2>1. Matched(w) /\ RefundStep(w)
    BY <1>2, RefundSteps
  <2>2. /\ paid[w] \in Int /\ paid'[w] \in Int /\ Price(w) \in Nat
        /\ RefundsInFlight(w) \in Nat /\ RefundsInFlight(w)' \in Nat /\ Price(w)' = Price(w)
    BY <1>2, PriceType, ClaimTypes DEF TypeOK, Price
  <2>3. CASE Excused(w)
    BY <1>2, <2>3, ExemptStays DEF Excused, Matched
  <2>4. CASE ~Excused(w)
    BY <2>1, <2>2, <2>4 DEF RefundStep, Excused, Matched, Unrelated, Flags, Refunds, Settles
  <2> QED BY <2>3, <2>4
<1>3. TypeOK /\ FlagInv => FlagMatchesMoney
  <2> SUFFICES ASSUME TypeOK, NEW w \in Orders, Matched(w)
               PROVE  \/ RefundsInFlight(w) > 0 \/ w \in interrupted
                      \/ \E a \in Admins : admin[a].order = w /\ admin[a].debited
                      \/ refunded[w] <=> paid[w] < Price(w)
    BY DEF FlagMatchesMoney
  <2>1. paid[w] \in Int /\ Price(w) \in Nat /\ refunded[w] \in BOOLEAN
    BY PriceType DEF TypeOK
  <2> QED BY <2>1 DEF Matched, Exempt
<1> QED
  BY <1>1, <1>2, <1>3, TypeCorrect, PTL DEF Spec
=============================================================================
