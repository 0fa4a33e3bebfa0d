---------------------------- MODULE MoneyProofs ----------------------------
(***************************************************************************)
(* Theorems about the money of customers.  First about Wallet, for every   *)
(* number of users and concurrent calls, every amount, limit and           *)
(* percentage; then about Deposits, whose approvals credit a wallet, for   *)
(* every number of requests and reviews.                                   *)
(***************************************************************************)
EXTENDS Wallet, Deposits, FiniteSetTheorems, TLAPS

-----------------------------------------------------------------------------
(* Values.                                                                 *)

LEMMA CreditUsedType ==
  ASSUME NEW b \in Int, NEW l \in Nat
  PROVE  CreditUsed(b, l) \in Nat
BY DEF CreditUsed, Least, Abs

LEMMA DivisionType ==
  ASSUME NEW x \in Nat
  PROVE  x \div 200 \in Nat
OBVIOUS

LEMMA AdjustmentType ==
  ASSUME NEW b \in Int, NEW p \in Percents
  PROVE  Adjustment(b, p) \in Nat
<1>1. p \in Nat
  BY PercentsAssumption
<1>2. Abs(b) \in Nat
  BY DEF Abs
<1>3. 2 * Abs(b) * p + 100 \in Nat
  BY <1>1, <1>2
<1> QED
  BY <1>3, DivisionType DEF Adjustment

LEMMA ArgsType ==
  ASSUME NEW op \in AllOps, NEW a \in Args(op)
  PROVE  a \in Int /\ (op # "setBalance" => a \in Nat)
BY AmountsAssumption, TargetsAssumption, LimitsAssumption, PercentsAssumption
   DEF Args, BulkOps, SingleOps, AtomicOps, AllOps

LEMMA TargetType ==
  ASSUME NEW op \in AllOps \ (AtomicOps \cup {"setLimit"}), NEW a \in Args(op), NEW seen \in View
  PROVE  Target(op, a, seen) \in Int
<1>1. seen.bal \in Int /\ a \in Int
  BY ArgsType DEF View
<1>2. CASE op \in BulkOps
  <2>1. Adjustment(seen.bal, a) \in Nat
    BY <1>1, <1>2, AdjustmentType DEF Args, BulkOps
  <2> QED
    BY <1>1, <1>2, <2>1 DEF Target, BulkOps
<1>3. CASE op \notin BulkOps
  BY <1>1, <1>3 DEF Target, BulkOps, SingleOps, AllOps, AtomicOps
<1> QED
  BY <1>2, <1>3

LEMMA SnapshotType ==
  ASSUME TypeOK
  PROVE  [u \in Users |-> Snapshot(u)] \in [Users -> View]
BY DEF TypeOK, Snapshot, View

LEMMA InitType == Init => TypeOK
<1> SUFFICES ASSUME Init PROVE TypeOK
  OBVIOUS
<1>1. used \in [Users -> Nat]
  BY CreditUsedType, OpeningAssumption DEF Init
<1>2. call \in [Calls -> CallStates]
  <2>1. [u \in Users |-> [bal |-> 0, lim |-> 0, used |-> 0]] \in [Users -> View]
    BY DEF View
  <2> QED
    BY <2>1 DEF Init, CallStates, AllOps, AtomicOps, PCs
<1>3. active \in [Users -> BOOLEAN]
  BY Zenon DEF Init
<1>4. CallsOK
  BY DEF Init, CallsOK
<1> QED
  BY <1>1, <1>2, <1>3, <1>4, OpeningAssumption DEF Init, TypeOK

\* What every step must show of the call it moves.
LEMMA CallMoves ==
  ASSUME TypeOK, NEW c \in Calls, NEW k \in CallStates, call' = [call EXCEPT ![c] = k],
         k.pc = "apply" => k.op \in AtomicOps,
         k.pc \in {"read", "write"} => k.op \notin AtomicOps,
         k.pc # "idle" => k.op \in Ops /\ k.arg \in Args(k.op)
  PROVE  call' \in [Calls -> CallStates] /\ CallsOK'
BY DEF TypeOK, CallsOK

LEMMA CallOf ==
  ASSUME TypeOK, NEW c \in Calls
  PROVE  /\ call[c] \in CallStates /\ call[c].todo \subseteq Users
         /\ call[c].pc # "idle" => call[c].op \in Ops /\ call[c].arg \in Args(call[c].op)
         /\ call[c].pc = "apply" => call[c].op \in AtomicOps
         /\ call[c].pc \in {"read", "write"} => call[c].op \notin AtomicOps
BY DEF TypeOK, CallsOK, CallStates

LEMMA GotoType ==
  ASSUME TypeOK, NEW c \in Calls, NEW pc \in {"done", "failed", "record"}, Goto(c, pc),
         call[c].pc # "idle"
  PROVE  call' \in [Calls -> CallStates] /\ CallsOK'
<1> DEFINE k == [call[c] EXCEPT !.pc = pc]
<1>1. call' = [call EXCEPT ![c] = k]
  BY DEF Goto, TypeOK, CallStates
<1>2. k \in CallStates /\ k.pc = pc /\ k.op = call[c].op /\ k.arg = call[c].arg
  BY CallOf DEF CallStates, PCs
<1> HIDE DEF k
<1> QED
  BY <1>1, <1>2, CallOf, CallMoves

\* A call begins: its operation and arguments are among those its caller may give.
LEMMA BeginType ==
  ASSUME TypeOK, NEW c \in Calls, Begin(c)
  PROVE  TypeOK'
<1>0. PICK op \in Ops, u \in Users, s \in BOOLEAN :
        \E a \in Args(op) :
           call' = [call EXCEPT ![c] =
                         [@ EXCEPT !.op = op, !.arg = a, !.session = s,
                                   !.todo = IF op \in BulkOps THEN Users ELSE {u},
                                   !.pc = IF op \in AtomicOps THEN "apply" ELSE "read"]]
  BY DEF Begin
<1>1. PICK a \in Args(op) :
        call' = [call EXCEPT ![c] =
                      [@ EXCEPT !.op = op, !.arg = a, !.session = s,
                                !.todo = IF op \in BulkOps THEN Users ELSE {u},
                                !.pc = IF op \in AtomicOps THEN "apply" ELSE "read"]]
  BY <1>0
<1> DEFINE k == [call[c] EXCEPT !.op = op, !.arg = a, !.session = s,
                   !.todo = IF op \in BulkOps THEN Users ELSE {u},
                   !.pc = IF op \in AtomicOps THEN "apply" ELSE "read"]
<1>2. op \in AllOps /\ a \in Int
  BY OpsAssumption, ArgsType
<1>3. call[c] \in CallStates
  BY CallOf
<1>4. k \in CallStates /\ k.op = op /\ k.arg = a
  BY <1>2, <1>3 DEF CallStates, PCs
<1>5. k.pc = IF op \in AtomicOps THEN "apply" ELSE "read"
  BY <1>3 DEF CallStates
<1>6. call' = [call EXCEPT ![c] = k]
  BY <1>1 DEF TypeOK
<1> HIDE DEF k
<1>7. call' \in [Calls -> CallStates] /\ CallsOK'
  BY <1>1, <1>4, <1>5, <1>6, CallMoves
<1> QED
  BY <1>7 DEF Begin, TypeOK

LEMMA EntryType ==
  ASSUME NEW c \in Calls, NEW u \in Users, NEW type \in Types, NEW cents \in Nat,
         NEW before \in Int, NEW after \in Int
  PROVE  EntryOf(c, u, type, cents, before, after) \in Entries
BY DEF EntryOf, Entries

\* The three atomic operations, and the forms of their new balance.
LEMMA ApplyType ==
  ASSUME TypeOK, NEW c \in Calls, NEW u \in Users, NEW type \in Types, NEW new \in Int,
         call[c].pc = "apply", Apply(c, u, type, new)
  PROVE  TypeOK'
<1> DEFINE e == EntryOf(c, u, type, call[c].arg, balance[u], new)
<1>1. call[c].arg \in Nat /\ balance[u] \in Int
  BY CallOf, OpsAssumption, ArgsType DEF TypeOK, AtomicOps
<1>2. e \in Entries
  BY <1>1, EntryType
<1>3. CreditUsed(new, limit[u]) \in Nat
  BY CreditUsedType DEF TypeOK
<1>4. \/ ledger' = ledger \cup {e} /\ Goto(c, "done") /\ UNCHANGED unrecorded
      \/ unrecorded' = unrecorded \cup {e} /\ Goto(c, "record") /\ UNCHANGED ledger
  BY Zenon DEF Apply
<1> HIDE DEF e
<1>5. call' \in [Calls -> CallStates] /\ CallsOK'
  BY <1>4, GotoType
<1>6. ledger' \subseteq Entries /\ unrecorded' \subseteq Entries
  BY <1>2, <1>4 DEF TypeOK
<1>7. balance' \in [Users -> Int] /\ used' \in [Users -> Nat]
  BY <1>3 DEF Apply, TypeOK
<1>8. UNCHANGED <<limit, active, stale, overridden>>
  BY DEF Apply
<1> QED
  BY <1>5, <1>6, <1>7, <1>8 DEF TypeOK

LEMMA AtomicType ==
  ASSUME TypeOK, NEW c \in Calls,
         DebitWalletAtomic(c) \/ RefundWalletAtomic(c) \/ CreditWalletDirect(c)
  PROVE  TypeOK'
<1>1. call[c].pc = "apply" /\ call[c].todo \subseteq Users /\ call[c].arg \in Int
  BY CallOf DEF DebitWalletAtomic, RefundWalletAtomic, CreditWalletDirect, CallStates
<1>2. \A u \in call[c].todo : balance[u] - call[c].arg \in Int /\ balance[u] + call[c].arg \in Int
  BY <1>1 DEF TypeOK
<1>3. CASE \E u \in call[c].todo, type \in Types, new \in Int : Apply(c, u, type, new)
  BY <1>1, <1>3, ApplyType
<1>4. CASE /\ Goto(c, "failed")
           /\ UNCHANGED <<balance, limit, used, active, ledger, unrecorded, stale, overridden>>
  BY <1>1, <1>4, GotoType DEF TypeOK
<1> QED
  BY <1>2, <1>3, <1>4 DEF DebitWalletAtomic, RefundWalletAtomic, CreditWalletDirect, Types

LEMMA ReadType ==
  ASSUME TypeOK, NEW c \in Calls, ReadUsers(c)
  PROVE  TypeOK'
<1> DEFINE rest == IF call[c].op \in BulkOps THEN {u \in call[c].todo : balance[u] < 0}
                   ELSE call[c].todo
           seen == [u \in Users |-> Snapshot(u)]
<1>1. PICK pc \in {"failed", "done", "write"} :
        call' = [call EXCEPT ![c] = [@ EXCEPT !.todo = rest, !.pc = pc, !.seen = seen]]
  BY DEF ReadUsers
<1> DEFINE k == [call[c] EXCEPT !.todo = rest, !.pc = pc, !.seen = seen]
<1>2. call[c] \in CallStates /\ rest \subseteq Users /\ call[c].pc = "read"
  BY CallOf DEF ReadUsers
<1>3. seen \in [Users -> View]
  BY SnapshotType
<1>4. call' = [call EXCEPT ![c] = k]
  BY <1>1 DEF TypeOK
<1> HIDE DEF rest, seen
<1>5. k \in CallStates /\ k.op = call[c].op /\ k.arg = call[c].arg /\ k.pc = pc
  BY <1>2, <1>3 DEF CallStates, PCs
<1> HIDE DEF k
<1>6. call' \in [Calls -> CallStates] /\ CallsOK'
  BY <1>2, <1>4, <1>5, CallOf, CallMoves
<1> QED
  BY <1>6 DEF ReadUsers, TypeOK

\* What WriteBalance writes for the user it picks.
LEMMA WriteType ==
  ASSUME TypeOK, NEW c \in Calls, WriteBalance(c)
  PROVE  TypeOK'
<1> DEFINE Before(u) == call[c].seen[u].bal
           After(u) == Target(call[c].op, call[c].arg, call[c].seen[u])
           E(u) == EntryOf(c, u, RecordedType(call[c].op, Before(u), After(u)),
                           RecordedAmount(call[c].op, call[c].arg, Before(u), After(u)),
                           Before(u), After(u))
<1>1. PICK u \in call[c].todo :
        /\ balance' = [balance EXCEPT ![u] = After(u)]
        /\ used' = [used EXCEPT ![u] = CreditUsed(After(u), call[c].seen[u].lim)]
        /\ unrecorded' = unrecorded \cup {E(u)}
        /\ call' = [call EXCEPT ![c].todo = @ \ {u}, ![c].pc = "record"]
        /\ NoteWrite(c, u)
  BY DEF WriteBalance
<1>2. /\ call[c] \in CallStates /\ u \in Users /\ call[c].pc = "write"
      /\ call[c].op \in AllOps \ (AtomicOps \cup {"setLimit"})
      /\ call[c].arg \in Args(call[c].op)
  BY CallOf, OpsAssumption DEF WriteBalance
<1>3. call[c].seen[u] \in View
  BY <1>2 DEF CallStates
<1>4. After(u) \in Int /\ Before(u) \in Int /\ call[c].seen[u].lim \in Nat
  BY <1>2, <1>3, TargetType DEF View
<1>5. RecordedType(call[c].op, Before(u), After(u)) \in Types
  BY DEF RecordedType, Types
<1>6. RecordedAmount(call[c].op, call[c].arg, Before(u), After(u)) \in Nat
  <2> HIDE DEF Before, After
  <2>1. call[c].op # "setBalance" => call[c].arg \in Nat
    BY <1>2, ArgsType
  <2>2. Abs(After(u) - Before(u)) \in Nat
    BY <1>4 DEF Abs
  <2> QED
    BY <2>1, <2>2 DEF RecordedAmount
<1>7. E(u) \in Entries
  BY <1>2, <1>4, <1>5, <1>6, EntryType
<1>8. CreditUsed(After(u), call[c].seen[u].lim) \in Nat
  BY <1>4, CreditUsedType
<1>9. stale' \subseteq Users /\ overridden' \subseteq Users
  BY <1>1, <1>2 DEF NoteWrite, TypeOK
<1>10. call' \in [Calls -> CallStates] /\ CallsOK'
  <2> DEFINE k == [call[c] EXCEPT !.todo = @ \ {u}, !.pc = "record"]
  <2>1. call' = [call EXCEPT ![c] = k]
    BY <1>1 DEF TypeOK
  <2>2. k \in CallStates /\ k.pc = "record" /\ k.op = call[c].op /\ k.arg = call[c].arg
    BY <1>2 DEF CallStates, PCs
  <2> HIDE DEF k
  <2> QED
    BY <1>2, <2>1, <2>2, CallOf, CallMoves
<1> HIDE DEF Before, After, E
<1> QED
  BY <1>1, <1>4, <1>7, <1>8, <1>9, <1>10 DEF WriteBalance, TypeOK

LEMMA SkipType ==
  ASSUME TypeOK, NEW c \in Calls, SkipNegligible(c)
  PROVE  TypeOK'
<1>1. PICK u \in call[c].todo, pc \in {"done", "write"} :
        call' = [call EXCEPT ![c].todo = @ \ {u}, ![c].pc = pc]
  BY DEF SkipNegligible
<1> DEFINE k == [call[c] EXCEPT !.todo = @ \ {u}, !.pc = pc]
<1>2. call[c] \in CallStates /\ call[c].pc = "write"
  BY CallOf DEF SkipNegligible
<1>3. call' = [call EXCEPT ![c] = k]
  BY <1>1 DEF TypeOK
<1>4. k \in CallStates /\ k.pc = pc /\ k.op = call[c].op /\ k.arg = call[c].arg
  BY <1>2 DEF CallStates, PCs
<1> HIDE DEF k
<1>5. call' \in [Calls -> CallStates] /\ CallsOK'
  BY <1>2, <1>3, <1>4, CallOf, CallMoves
<1> QED
  BY <1>5 DEF SkipNegligible, TypeOK

LEMMA SaveLimitType ==
  ASSUME TypeOK, NEW c \in Calls, SaveLimit(c)
  PROVE  TypeOK'
<1>1. PICK u \in call[c].todo :
        /\ limit' = limit \/ limit' = [limit EXCEPT ![u] = call[c].arg]
        /\ \/ used' = used
           \/ used' = [used EXCEPT ![u] = CreditUsed(call[c].seen[u].bal, call[c].arg)]
        /\ NoteWrite(c, u)
  BY DEF SaveLimit
<1>2. call[c] \in CallStates /\ u \in Users /\ call[c].arg \in Nat /\ call[c].pc = "write"
  BY CallOf, OpsAssumption, ArgsType DEF SaveLimit
<1>3. CreditUsed(call[c].seen[u].bal, call[c].arg) \in Nat
  BY <1>2, CreditUsedType DEF CallStates, View
<1>4. limit' \in [Users -> Nat] /\ used' \in [Users -> Nat]
  BY <1>1, <1>2, <1>3 DEF TypeOK
<1>5. stale' \subseteq Users /\ overridden' \subseteq Users
  BY <1>1, <1>2 DEF NoteWrite, TypeOK
<1>6. call' \in [Calls -> CallStates] /\ CallsOK'
  BY <1>2, GotoType DEF SaveLimit
<1> QED
  BY <1>4, <1>5, <1>6 DEF SaveLimit, TypeOK

LEMMA RecordType ==
  ASSUME TypeOK, NEW c \in Calls, RecordTransaction(c)
  PROVE  TypeOK'
<1>1. call[c].pc = "record" /\ ledger' \subseteq Entries /\ unrecorded' \subseteq Entries
  BY DEF RecordTransaction, TypeOK
<1>2. PICK pc \in {"write", "failed", "done"} :
        Goto(c, pc) /\ (pc = "write" => call[c].op \in BulkOps)
  BY DEF RecordTransaction
<1> DEFINE k == [call[c] EXCEPT !.pc = pc]
<1>3. call' = [call EXCEPT ![c] = k]
  BY <1>2 DEF Goto, TypeOK
<1>4. k \in CallStates /\ k.pc = pc /\ k.op = call[c].op /\ k.arg = call[c].arg
  BY CallOf DEF CallStates, PCs
<1> HIDE DEF k
<1>5. call' \in [Calls -> CallStates] /\ CallsOK'
  BY <1>1, <1>2, <1>3, <1>4, CallOf, CallMoves DEF BulkOps, AtomicOps
<1> QED
  BY <1>1, <1>5 DEF RecordTransaction, TypeOK

LEMMA OutsideType ==
  ASSUME TypeOK, Crash \/ \E u \in Users : SetStatus(u)
  PROVE  TypeOK'
<1>1. CASE Crash
  <2>1. call' \in [Calls -> CallStates]
    BY <1>1 DEF Crash, TypeOK, CallStates, PCs
  <2>2. CallsOK'
    BY <1>1 DEF Crash, TypeOK, CallsOK, CallStates, InFlight
  <2> QED
    BY <1>1, <2>1, <2>2 DEF Crash, TypeOK
<1>2. ASSUME NEW u \in Users, SetStatus(u) PROVE TypeOK'
  <2>1. active' \in [Users -> BOOLEAN]
    BY <1>2, Zenon DEF SetStatus, TypeOK
  <2>2. CallsOK'
    BY <1>2 DEF SetStatus, TypeOK, CallsOK
  <2> QED
    BY <1>2, <2>1, <2>2 DEF SetStatus, TypeOK
<1> QED
  BY <1>1, <1>2

\* Type correctness of wallets, calls and ledger.
THEOREM TypeCorrect == Spec => []TypeOK
<1>1. ASSUME TypeOK, [Next]_vars PROVE TypeOK'
  <2>1. ASSUME NEW c \in Calls, Step(c) PROVE TypeOK'
    BY <1>1, <2>1, BeginType, AtomicType, ReadType, WriteType, SkipType, SaveLimitType,
       RecordType DEF Step
  <2>2. CASE UNCHANGED vars
    BY <1>1, <2>2 DEF vars, TypeOK, CallsOK
  <2> QED
    BY <1>1, <2>1, <2>2, OutsideType DEF Next
<1> QED
  BY <1>1, InitType, PTL DEF Spec
-----------------------------------------------------------------------------
(* The overdraft floor.  An operation that computed its balance from a     *)
(* document which is out of date by now still respects the floor, because  *)
(* the limit it read is the limit of every user no override has touched.   *)

Careful == {"addFunds", "deductFunds", "deflate"}

Safe(k, u) ==
  /\ k.seen[u].lim = limit[u]
  /\ Target(k.op, k.arg, k.seen[u]) >= -limit[u]

FloorReady ==
  \A c \in Calls :
    call[c].pc \in {"write", "record"} /\ call[c].op \in Careful
      => \A u \in call[c].todo \ overridden : Safe(call[c], u)

FloorInv == FloorHeld /\ FloorReady

LEMMA FloorInitially == Init => FloorInv
<1> SUFFICES ASSUME Init PROVE FloorInv
  OBVIOUS
<1>1. FloorHeld
  BY OpeningAssumption DEF Init, FloorHeld
<1>2. FloorReady
  BY DEF Init, FloorReady
<1> QED
  BY <1>1, <1>2 DEF FloorInv

\* A step of c that changes no limit and no override keeps FloorReady if it
\* does so for c itself.
LEMMA ReadyForOthers ==
  ASSUME TypeOK, FloorReady, NEW c \in Calls, NEW k, call' = [call EXCEPT ![c] = k],
         UNCHANGED limit, overridden \subseteq overridden',
         k.pc \in {"write", "record"} /\ k.op \in Careful
           => \A u \in k.todo \ overridden' : Safe(k, u)
  PROVE  FloorReady'
<1> SUFFICES ASSUME NEW d \in Calls, (call[d].pc \in {"write", "record"} /\ call[d].op \in Careful)',
                    NEW u \in call'[d].todo, u \notin overridden'
             PROVE  Safe(call[d], u)'
  BY DEF FloorReady
<1>1. call \in [Calls -> CallStates]
  BY DEF TypeOK
<1>2. CASE d = c
  <2>1. call'[d] = k
    BY <1>1, <1>2
  <2>2. Safe(k, u)
    BY <2>1
  <2> QED
    BY <2>1, <2>2 DEF Safe
<1>3. CASE d # c
  <2>1. call'[d] = call[d]
    BY <1>1, <1>3
  <2>2. Safe(call[d], u)
    BY <2>1 DEF FloorReady
  <2> QED
    BY <2>1, <2>2 DEF Safe
<1> QED
  BY <1>2, <1>3

\* What c has established is kept while its record only loses users.
LEMMA ReadyKept ==
  ASSUME TypeOK, FloorReady, NEW c \in Calls, NEW todo \in SUBSET call[c].todo, NEW pc \in PCs,
         call' = [call EXCEPT ![c].todo = todo, ![c].pc = pc],
         UNCHANGED limit, overridden \subseteq overridden',
         pc \in {"write", "record"} => call[c].pc \in {"write", "record"} \/ call[c].op \notin Careful
  PROVE  FloorReady'
<1> DEFINE k == [call[c] EXCEPT !.todo = todo, !.pc = pc]
<1>1. call' = [call EXCEPT ![c] = k] /\ call[c] \in CallStates
  BY DEF TypeOK
<1>2. /\ k.pc = pc /\ k.op = call[c].op /\ k.arg = call[c].arg /\ k.seen = call[c].seen
      /\ k.todo = todo
  BY <1>1 DEF CallStates
<1> HIDE DEF k
<1>3. k.pc \in {"write", "record"} /\ k.op \in Careful
        => \A u \in k.todo \ overridden' : Safe(k, u)
  BY <1>2 DEF FloorReady, Safe
<1> QED
  BY <1>1, <1>3, ReadyForOthers

LEMMA BeginFloor ==
  ASSUME TypeOK, FloorInv, NEW c \in Calls, Begin(c)
  PROVE  FloorInv'
<1>1. UNCHANGED <<balance, limit, overridden>>
  BY DEF Begin
<1>2. PICK k : call' = [call EXCEPT ![c] = k] /\ k.pc \in {"apply", "read"}
  <2>0. PICK op \in Ops, u \in Users, s \in BOOLEAN :
          \E a \in Args(op) :
             call' = [call EXCEPT ![c] =
                         [@ EXCEPT !.op = op, !.arg = a, !.session = s,
                                   !.todo = IF op \in BulkOps THEN Users ELSE {u},
                                   !.pc = IF op \in AtomicOps THEN "apply" ELSE "read"]]
    BY DEF Begin
  <2>1. PICK a \in Args(op) :
          call' = [call EXCEPT ![c] =
                      [@ EXCEPT !.op = op, !.arg = a, !.session = s,
                                !.todo = IF op \in BulkOps THEN Users ELSE {u},
                                !.pc = IF op \in AtomicOps THEN "apply" ELSE "read"]]
    BY <2>0
  <2> DEFINE k == [call[c] EXCEPT !.op = op, !.arg = a, !.session = s,
                     !.todo = IF op \in BulkOps THEN Users ELSE {u},
                     !.pc = IF op \in AtomicOps THEN "apply" ELSE "read"]
  <2>2. call' = [call EXCEPT ![c] = k]
    BY <2>1 DEF TypeOK
  <2>3. k.pc \in {"apply", "read"}
    BY CallOf DEF CallStates
  <2> HIDE DEF k
  <2> QED
    BY <2>2, <2>3
<1>3. FloorReady'
  BY <1>1, <1>2, ReadyForOthers DEF FloorInv
<1> QED
  BY <1>1, <1>3 DEF FloorInv, FloorHeld

LEMMA ApplyFloor ==
  ASSUME TypeOK, FloorInv, NEW c \in Calls, NEW u \in Users, NEW type, NEW new \in Int,
         call[c].pc = "apply", Apply(c, u, type, new), new >= -limit[u] \/ new >= balance[u]
  PROVE  FloorInv'
<1>1. /\ UNCHANGED <<limit, overridden>> /\ balance' = [balance EXCEPT ![u] = new]
      /\ \E pc \in {"done", "record"} : Goto(c, pc)
  BY DEF Apply
<1>2. call[c].op \notin Careful
  BY CallOf DEF AtomicOps, Careful
<1>3. PICK pc \in {"done", "record"} : call' = [call EXCEPT ![c].todo = call[c].todo, ![c].pc = pc]
  BY <1>1 DEF Goto, TypeOK, CallStates
<1>4. FloorReady'
  BY <1>1, <1>2, <1>3, ReadyKept DEF FloorInv, PCs
<1>5. FloorHeld'
  <2> SUFFICES ASSUME NEW v \in Users \ overridden PROVE balance'[v] >= -limit[v]
    BY <1>1 DEF FloorHeld
  <2>1. balance[v] >= -limit[v] /\ balance[v] \in Int /\ limit[v] \in Nat
    BY DEF FloorInv, FloorHeld, TypeOK
  <2> QED
    BY <1>1, <2>1 DEF TypeOK
<1> QED
  BY <1>4, <1>5 DEF FloorInv

LEMMA AtomicFloor ==
  ASSUME TypeOK, FloorInv, NEW c \in Calls,
         DebitWalletAtomic(c) \/ RefundWalletAtomic(c) \/ CreditWalletDirect(c)
  PROVE  FloorInv'
<1>1. call[c].pc = "apply" /\ call[c].todo \subseteq Users /\ call[c].arg \in Nat
  <2>1. call[c].pc = "apply"
    BY DEF DebitWalletAtomic, RefundWalletAtomic, CreditWalletDirect
  <2> QED
    BY <2>1, CallOf, OpsAssumption, ArgsType DEF AtomicOps
<1>2. \A u \in call[c].todo :
        /\ balance[u] \in Int /\ limit[u] \in Nat
        /\ balance[u] - call[c].arg \in Int /\ balance[u] + call[c].arg \in Int
        /\ balance[u] + call[c].arg >= balance[u]
        /\ Affordable(u, call[c].arg) => balance[u] - call[c].arg >= -limit[u]
  BY <1>1 DEF TypeOK, Affordable
<1>3. CASE \E u \in call[c].todo, type \in Types, new \in Int :
             Apply(c, u, type, new) /\ (new >= -limit[u] \/ new >= balance[u])
  BY <1>1, <1>3, ApplyFloor
<1>4. CASE /\ Goto(c, "failed")
           /\ UNCHANGED <<balance, limit, used, active, ledger, unrecorded, stale, overridden>>
  <2>1. call' = [call EXCEPT ![c].todo = call[c].todo, ![c].pc = "failed"]
    BY <1>4 DEF Goto, TypeOK, CallStates
  <2>2. FloorReady'
    BY <1>4, <2>1, ReadyKept DEF FloorInv, PCs
  <2> QED
    BY <1>4, <2>2 DEF FloorInv, FloorHeld
<1> QED
  BY <1>2, <1>3, <1>4 DEF DebitWalletAtomic, RefundWalletAtomic, CreditWalletDirect, Types

\* The balance a careful operation computes is above the floor it read.
LEMMA TargetAboveFloor ==
  ASSUME TypeOK, NEW c \in Calls, ReadUsers(c), call'[c].pc = "write", call[c].op \in Careful,
         NEW u \in Users, balance[u] >= -limit[u],
         u \in IF call[c].op \in BulkOps THEN {v \in call[c].todo : balance[v] < 0} ELSE call[c].todo
  PROVE  Target(call[c].op, call[c].arg, Snapshot(u)) >= -limit[u]
<1>1. /\ balance[u] \in Int /\ limit[u] \in Nat /\ Snapshot(u).bal = balance[u]
      /\ call[c].pc = "read"
  BY DEF TypeOK, Snapshot, ReadUsers
<1>2. call[c].arg \in Args(call[c].op) /\ call[c].arg \in Nat
  BY <1>1, CallOf, OpsAssumption, ArgsType DEF Careful
<1>3. CASE call[c].op = "addFunds"
  BY <1>1, <1>2, <1>3 DEF Target
<1>4. CASE call[c].op = "deflate"
  <2>1. Adjustment(balance[u], call[c].arg) \in Nat
    BY <1>1, <1>2, <1>4, AdjustmentType DEF Args, BulkOps
  <2> QED
    BY <1>1, <1>4, <2>1 DEF Target
<1>5. CASE call[c].op = "deductFunds"
  <2>1. ~(call[c].arg > balance[u] + limit[u])
    BY <1>5 DEF ReadUsers, BulkOps, TypeOK, CallStates
  <2> QED
    BY <1>1, <1>2, <1>5, <2>1 DEF Target
<1> QED
  BY <1>3, <1>4, <1>5 DEF Careful

LEMMA ReadFloor ==
  ASSUME TypeOK, FloorInv, NEW c \in Calls, ReadUsers(c)
  PROVE  FloorInv'
<1> DEFINE rest == IF call[c].op \in BulkOps THEN {u \in call[c].todo : balance[u] < 0}
                   ELSE call[c].todo
           seen == [u \in Users |-> Snapshot(u)]
<1>1. PICK pc \in {"failed", "done", "write"} :
        call' = [call EXCEPT ![c] = [@ EXCEPT !.todo = rest, !.pc = pc, !.seen = seen]]
  BY DEF ReadUsers
<1> DEFINE k == [call[c] EXCEPT !.todo = rest, !.pc = pc, !.seen = seen]
<1>2. call[c] \in CallStates /\ rest \subseteq Users
  BY CallOf
<1>3. call' = [call EXCEPT ![c] = k] /\ call'[c] = k
  BY <1>1 DEF TypeOK
<1>4. /\ k.pc = pc /\ k.op = call[c].op /\ k.arg = call[c].arg /\ k.todo = rest
      /\ k.seen = seen
  BY <1>2 DEF CallStates
<1>5. UNCHANGED <<balance, limit, overridden>>
  BY DEF ReadUsers
<1>6. ASSUME pc = "write", call[c].op \in Careful, NEW u \in rest, u \notin overridden
      PROVE  Safe(k, u)
  <2>1. u \in Users /\ seen[u] = Snapshot(u) /\ Snapshot(u).lim = limit[u]
    BY <1>2, <1>6 DEF Snapshot
  <2>2. balance[u] >= -limit[u]
    BY <2>1, <1>6 DEF FloorInv, FloorHeld
  <2>3. call'[c].pc = "write"
    BY <1>3, <1>4, <1>6
  <2>4. Target(call[c].op, call[c].arg, Snapshot(u)) >= -limit[u]
    BY <1>6, <2>1, <2>2, <2>3, TargetAboveFloor
  <2> HIDE DEF k, seen
  <2> QED
    BY <1>4, <2>1, <2>4 DEF Safe
<1> HIDE DEF k, rest, seen
<1>7. FloorReady'
  BY <1>3, <1>4, <1>5, <1>6, ReadyForOthers DEF FloorInv
<1> QED
  BY <1>5, <1>7 DEF FloorInv, FloorHeld

LEMMA WriteFloor ==
  ASSUME TypeOK, FloorInv, NEW c \in Calls, WriteBalance(c)
  PROVE  FloorInv'
<1> DEFINE After(u) == Target(call[c].op, call[c].arg, call[c].seen[u])
<1>1. PICK u \in call[c].todo :
        /\ balance' = [balance EXCEPT ![u] = After(u)]
        /\ call' = [call EXCEPT ![c].todo = @ \ {u}, ![c].pc = "record"]
        /\ NoteWrite(c, u)
  BY DEF WriteBalance
<1>2. /\ call[c] \in CallStates /\ u \in Users /\ call[c].pc = "write"
      /\ call[c].op \in AllOps \ (AtomicOps \cup {"setLimit"}) /\ UNCHANGED limit
  BY CallOf, OpsAssumption DEF WriteBalance
<1>3. overridden \subseteq overridden' /\ (call[c].op \notin Careful => u \in overridden')
  BY <1>1, <1>2 DEF NoteWrite, Careful, FloorOverrides, AllOps, SingleOps, BulkOps, AtomicOps
<1>4. FloorReady'
  <2>1. call' = [call EXCEPT ![c].todo = call[c].todo \ {u}, ![c].pc = "record"]
    BY <1>1
  <2> QED
    BY <1>2, <1>3, <2>1, ReadyKept DEF FloorInv, PCs
<1>5. FloorHeld'
  <2> SUFFICES ASSUME NEW v \in Users, v \notin overridden' PROVE balance'[v] >= -limit[v]
    BY <1>2 DEF FloorHeld
  <2>1. CASE v = u
    <3>1. call[c].op \in Careful /\ v \notin overridden
      BY <1>3, <2>1
    <3>2. Safe(call[c], u)
      BY <1>2, <2>1, <3>1 DEF FloorInv, FloorReady
    <3>3. balance'[u] = After(u)
      BY <1>1, <1>2 DEF TypeOK
    <3> QED
      BY <2>1, <3>2, <3>3 DEF Safe
  <2>2. CASE v # u
    <3>1. balance'[v] = balance[v]
      BY <1>1, <2>2 DEF TypeOK
    <3> QED
      BY <1>3, <3>1 DEF FloorInv, FloorHeld
  <2> QED
    BY <2>1, <2>2
<1> QED
  BY <1>4, <1>5 DEF FloorInv

\* Moving the limit of a user puts the user among the overridden.
LEMMA SaveLimitFloor ==
  ASSUME TypeOK, FloorInv, NEW c \in Calls, SaveLimit(c)
  PROVE  FloorInv'
<1>1. PICK u \in call[c].todo :
        /\ limit' = limit \/ limit' = [limit EXCEPT ![u] = call[c].arg]
        /\ NoteWrite(c, u)
  BY DEF SaveLimit
<1>2. overridden' = overridden \cup {u}
  BY <1>1 DEF NoteWrite, SaveLimit, FloorOverrides
<1>3. \A v \in Users : v # u => limit'[v] = limit[v]
  BY <1>1 DEF TypeOK
<1>4. UNCHANGED balance /\ call' = [call EXCEPT ![c].pc = "done"] /\ call \in [Calls -> CallStates]
  BY DEF SaveLimit, Goto, TypeOK
<1>5. FloorHeld'
  BY <1>2, <1>3, <1>4 DEF FloorInv, FloorHeld
<1>6. FloorReady'
  <2> SUFFICES ASSUME NEW d \in Calls,
                      (call[d].pc \in {"write", "record"} /\ call[d].op \in Careful)',
                      NEW v \in call'[d].todo, v \notin overridden'
               PROVE  Safe(call[d], v)'
    BY DEF FloorReady
  <2>1. d # c /\ call'[d] = call[d]
    BY <1>4 DEF CallStates
  <2>2. Safe(call[d], v) /\ v \in Users
    BY <1>2, <2>1, CallOf DEF FloorInv, FloorReady
  <2>3. limit'[v] = limit[v]
    BY <1>2, <1>3, <2>2
  <2> QED
    BY <2>1, <2>2, <2>3 DEF Safe
<1> QED
  BY <1>5, <1>6 DEF FloorInv

LEMMA OtherFloor ==
  ASSUME TypeOK, FloorInv, NEW c \in Calls, SkipNegligible(c) \/ RecordTransaction(c)
  PROVE  FloorInv'
<1>1. UNCHANGED <<balance, limit, overridden>> /\ call[c].pc \in {"write", "record"}
  BY DEF SkipNegligible, RecordTransaction
<1>2. PICK todo \in SUBSET call[c].todo, pc \in {"write", "done", "failed"} :
        call' = [call EXCEPT ![c].todo = todo, ![c].pc = pc]
  <2>1. CASE SkipNegligible(c)
    BY <2>1 DEF SkipNegligible
  <2>2. CASE RecordTransaction(c)
    <3>1. PICK pc \in {"write", "done", "failed"} : Goto(c, pc)
      BY <2>2 DEF RecordTransaction
    <3>2. call' = [call EXCEPT ![c].todo = call[c].todo, ![c].pc = pc]
      BY <3>1 DEF Goto, TypeOK, CallStates
    <3> QED
      BY <3>2
  <2> QED
    BY <2>1, <2>2
<1>3. FloorReady'
  BY <1>1, <1>2, ReadyKept DEF FloorInv, PCs
<1> QED
  BY <1>1, <1>3 DEF FloorInv, FloorHeld

LEMMA OutsideFloor ==
  ASSUME TypeOK, FloorInv, Crash \/ (\E u \in Users : SetStatus(u)) \/ UNCHANGED vars
  PROVE  FloorInv'
<1>1. UNCHANGED <<balance, limit, overridden>>
  BY DEF Crash, SetStatus, vars
<1>2. \A c \in Calls : call'[c].pc \in {"write", "record"} => call'[c] = call[c]
  BY DEF Crash, SetStatus, vars, TypeOK, CallStates
<1>3. FloorReady'
  BY <1>1, <1>2 DEF FloorInv, FloorReady, Safe
<1> QED
  BY <1>1, <1>3 DEF FloorInv, FloorHeld

\* No wallet that only debits, refunds, credits, deposits, deductions and
\* debt relief touched is ever below its credit limit, however stale the
\* documents these work from.
THEOREM FloorAlwaysHeld == Spec => []FloorHeld
<1>1. ASSUME TypeOK, FloorInv, [Next]_vars PROVE FloorInv'
  <2>1. ASSUME NEW c \in Calls, Step(c) PROVE FloorInv'
    BY <1>1, <2>1, BeginFloor, AtomicFloor, ReadFloor, WriteFloor, SaveLimitFloor, OtherFloor
       DEF Step
  <2> QED
    BY <1>1, <2>1, OutsideFloor DEF Next
<1>2. FloorInv => FloorHeld
  BY DEF FloorInv
<1> QED
  BY <1>1, <1>2, FloorInitially, TypeCorrect, PTL DEF Spec
-----------------------------------------------------------------------------
(* The reporting mirror of the credit line.                                *)

\* One step moves balance, limit and mirror of the users it does not make
\* stale together, or not at all.
Mirrored(u) == used[u] = CreditUsed(balance[u], limit[u])

LEMMA ApplyMirror ==
  ASSUME TypeOK, NEW c, NEW v \in Users, NEW type, NEW new, Apply(c, v, type, new),
         NEW u \in Users, u \notin stale => Mirrored(u), u \notin stale'
  PROVE  Mirrored(u)'
<1>1. /\ balance' = [balance EXCEPT ![v] = new] /\ UNCHANGED <<limit, stale>>
      /\ used' = [used EXCEPT ![v] = CreditUsed(new, limit[v])]
  BY DEF Apply
<1> QED
  BY <1>1 DEF TypeOK, Mirrored

LEMMA WriteMirror ==
  ASSUME TypeOK, NEW c \in Calls, WriteBalance(c),
         NEW u \in Users, u \notin stale => Mirrored(u), u \notin stale'
  PROVE  Mirrored(u)'
<1>0. PICK v \in call[c].todo :
        \E after :
          /\ balance' = [balance EXCEPT ![v] = after]
          /\ used' = [used EXCEPT ![v] = CreditUsed(after, call[c].seen[v].lim)]
          /\ NoteWrite(c, v) /\ UNCHANGED limit
  BY DEF WriteBalance
<1>1. PICK after :
        /\ balance' = [balance EXCEPT ![v] = after]
        /\ used' = [used EXCEPT ![v] = CreditUsed(after, call[c].seen[v].lim)]
        /\ NoteWrite(c, v) /\ UNCHANGED limit
  BY <1>0
<1>2. v \in Users /\ u \notin stale
  BY <1>1, CallOf DEF NoteWrite
<1>3. v = u => call[c].seen[v].lim = limit[v]
  BY <1>1 DEF NoteWrite, Snapshot
<1> QED
  BY <1>1, <1>2, <1>3 DEF TypeOK, Mirrored

LEMMA SaveLimitMirror ==
  ASSUME TypeOK, NEW c \in Calls, SaveLimit(c),
         NEW u \in Users, u \notin stale => Mirrored(u), u \notin stale'
  PROVE  Mirrored(u)'
<1>1. PICK v \in call[c].todo :
        LET drawn == CreditUsed(call[c].seen[v].bal, call[c].arg) IN
        /\ limit' = IF call[c].arg = call[c].seen[v].lim THEN limit
                    ELSE [limit EXCEPT ![v] = call[c].arg]
        /\ used' = IF drawn = call[c].seen[v].used THEN used ELSE [used EXCEPT ![v] = drawn]
        /\ NoteWrite(c, v)
  BY DEF SaveLimit
<1>2. v \in Users /\ u \notin stale /\ UNCHANGED balance
  BY <1>1, CallOf DEF NoteWrite, SaveLimit
<1>3. CASE v # u
  BY <1>1, <1>2, <1>3 DEF TypeOK, Mirrored
<1>4. CASE v = u
  <2>1. call[c].seen[u] = Snapshot(u)
    BY <1>1, <1>4 DEF NoteWrite
  <2>2. /\ call[c].seen[u].bal = balance[u] /\ call[c].seen[u].lim = limit[u]
        /\ call[c].seen[u].used = used[u]
    BY <2>1 DEF Snapshot
  <2>3. limit'[u] = call[c].arg
    BY <1>1, <1>4, <2>2 DEF TypeOK
  <2>4. used'[u] = CreditUsed(balance[u], call[c].arg)
    BY <1>1, <1>4, <2>2 DEF TypeOK
  <2> QED
    BY <1>2, <2>3, <2>4 DEF Mirrored
<1> QED
  BY <1>3, <1>4

\* creditUsed agrees with balance and limit in every wallet that was not
\* overwritten from an outdated document.
THEOREM CreditAlwaysMirrors == Spec => []CreditMirrors
<1>1. Init => CreditMirrors
  BY DEF Init, CreditMirrors
<1>2. ASSUME TypeOK, CreditMirrors, [Next]_vars PROVE CreditMirrors'
  <2> SUFFICES ASSUME NEW u \in Users, u \notin stale' PROVE Mirrored(u)'
    BY DEF CreditMirrors, Mirrored
  <2>1. u \notin stale => Mirrored(u)
    BY <1>2 DEF CreditMirrors, Mirrored
  <2>2. UNCHANGED <<balance, limit, used, stale>> => Mirrored(u)'
    BY <2>1 DEF Mirrored
  <2>3. ASSUME NEW c \in Calls, Step(c) PROVE Mirrored(u)'
    <3>1. CASE Begin(c) \/ ReadUsers(c) \/ SkipNegligible(c) \/ RecordTransaction(c)
      BY <2>2, <3>1 DEF Begin, ReadUsers, SkipNegligible, RecordTransaction
    <3>2. CASE DebitWalletAtomic(c) \/ RefundWalletAtomic(c) \/ CreditWalletDirect(c)
      <4>1. \/ \E v \in call[c].todo : \E type, new : Apply(c, v, type, new)
            \/ UNCHANGED <<balance, limit, used, stale>>
        BY <3>2 DEF DebitWalletAtomic, RefundWalletAtomic, CreditWalletDirect
      <4> QED
        BY <1>2, <2>1, <2>2, <4>1, CallOf, ApplyMirror
    <3> QED
      BY <1>2, <2>1, <2>3, <3>1, <3>2, WriteMirror, SaveLimitMirror DEF Step
  <2> QED
    BY <1>2, <2>2, <2>3 DEF Next, Crash, SetStatus, vars
<1> QED
  BY <1>1, <1>2, TypeCorrect, PTL DEF Spec

-----------------------------------------------------------------------------
(* The ledger.  A step posts at most one entry, a new one, for the user    *)
(* whose balance it changes: so the entries of a user, in the ledger or    *)
(* still to be inserted, walk from the opening balance to the present one. *)

Posted == ledger \cup unrecorded

\* A call posts at most one entry for a user: the users it still has to
\* process have none of its entries.
Fresh ==
  \A e \in Posted :
    LET k == call[e.call] IN
    /\ k.pc \notin {"idle", "apply", "read"}
    /\ k.pc \in {"write", "record"} /\ k.op \notin AtomicOps => e.user \notin k.todo

Posts(e) ==
  /\ e \notin Posted /\ Posted' = Posted \cup {e}
  /\ balance' = [balance EXCEPT ![e.user] = e.after]
  /\ e.user \in stale' \/ e.before = balance[e.user]
  /\ Signed(e) = e.after - e.before

\* What a step may do to balances and entries.
Moved ==
  /\ stale \subseteq stale'
  /\ \/ Posted' = Posted /\ UNCHANGED balance
     \/ \E e \in Entries : Posts(e)

LEMMA FreshKept ==
  ASSUME TypeOK, Fresh, NEW c \in Calls, NEW k, call' = [call EXCEPT ![c] = k],
         \A e \in Posted' : e \in Posted \/ e.call = c,
         \A e \in Posted' : e.call = c =>
           /\ k.pc \notin {"idle", "apply", "read"}
           /\ k.pc \in {"write", "record"} /\ k.op \notin AtomicOps => e.user \notin k.todo
  PROVE  Fresh'
<1> SUFFICES ASSUME NEW e \in Posted'
             PROVE  /\ call'[e.call].pc \notin {"idle", "apply", "read"}
                    /\ call'[e.call].pc \in {"write", "record"} /\ call'[e.call].op \notin AtomicOps
                         => e.user \notin call'[e.call].todo
  BY DEF Fresh
<1>1. CASE e.call = c
  <2>1. call'[e.call] = k
    BY <1>1 DEF TypeOK
  <2> QED
    BY <1>1, <2>1
<1>2. CASE e.call # c
  <2>1. e \in Posted
    BY <1>2
  <2>2. call'[e.call] = call[e.call]
    BY <1>2, <2>1 DEF TypeOK, Posted, Entries
  <2> QED
    BY <2>1, <2>2 DEF Fresh
<1> QED
  BY <1>1, <1>2

\* A step that posts nothing.
LEMMA PostsNothing ==
  ASSUME TypeOK, Fresh, NEW c \in Calls, NEW k, call' = [call EXCEPT ![c] = k],
         Posted' = Posted,
         \/ call[c].pc \in {"idle", "apply", "read"}
         \/ /\ k.pc \notin {"idle", "apply", "read"}
            /\ k.pc \in {"write", "record"} =>
                 call[c].pc \in {"write", "record"} /\ k.op = call[c].op /\ k.todo \subseteq call[c].todo
  PROVE  Fresh'
<1>1. \A e \in Posted' : e \in Posted \/ e.call = c
  OBVIOUS
<1>2. ASSUME NEW e \in Posted', e.call = c
      PROVE  /\ k.pc \notin {"idle", "apply", "read"}
             /\ k.pc \in {"write", "record"} /\ k.op \notin AtomicOps => e.user \notin k.todo
  BY <1>2 DEF Fresh
<1> HIDE DEF Fresh
<1> QED
  BY <1>1, <1>2, FreshKept

LEMMA BeginPosts ==
  ASSUME TypeOK, Fresh, NEW c \in Calls, Begin(c) \/ ReadUsers(c)
  PROVE  Fresh' /\ Moved
<1>1. /\ call[c].pc \in {"idle", "read"} /\ Posted' = Posted
      /\ UNCHANGED <<balance, stale>>
  BY DEF Begin, ReadUsers, Posted
<1>2. PICK k : call' = [call EXCEPT ![c] = k]
  BY DEF Begin, ReadUsers
<1> QED
  BY <1>1, <1>2, PostsNothing DEF Moved

LEMMA GotoPosts ==
  ASSUME TypeOK, Fresh, NEW c \in Calls, NEW pc \in {"done", "failed"}, Goto(c, pc),
         UNCHANGED <<ledger, unrecorded>>
  PROVE  Fresh'
<1> DEFINE k == [call[c] EXCEPT !.pc = pc]
<1>1. call' = [call EXCEPT ![c] = k]
  BY DEF Goto, TypeOK
<1>2. k.pc = pc
  BY CallOf DEF CallStates
<1>3. Posted' = Posted
  BY DEF Posted
<1> HIDE DEF k
<1> QED
  BY <1>1, <1>2, <1>3, PostsNothing

\* The entry that the atomic operations post.
LEMMA ApplyPosts ==
  ASSUME TypeOK, Fresh, NEW c \in Calls, NEW u \in Users, NEW type \in Types, NEW new \in Int,
         call[c].pc = "apply", Apply(c, u, type, new), call[c].arg \in Nat,
         \/ type = "DEBIT" /\ new = balance[u] - call[c].arg
         \/ type \in {"REFUND", "CREDIT"} /\ new = balance[u] + call[c].arg
  PROVE  Fresh' /\ Moved
<1> DEFINE e == EntryOf(c, u, type, call[c].arg, balance[u], new)
<1>1. \/ ledger' = ledger \cup {e} /\ Goto(c, "done") /\ UNCHANGED unrecorded
      \/ unrecorded' = unrecorded \cup {e} /\ Goto(c, "record") /\ UNCHANGED ledger
  BY Zenon DEF Apply
<1>2. /\ balance' = [balance EXCEPT ![u] = new] /\ UNCHANGED stale
      /\ balance[u] \in Int /\ call[c].op \in AtomicOps
  BY CallOf DEF Apply, TypeOK
<1>3. e \in Entries /\ e.call = c /\ e.user = u /\ e.before = balance[u] /\ e.after = new
  BY <1>2, EntryType DEF EntryOf
<1>4. Signed(e) = new - balance[u]
  BY <1>2 DEF Signed, EntryOf
<1> HIDE DEF e
<1>5. e \notin Posted /\ Posted' = Posted \cup {e}
  BY <1>1, <1>3 DEF Fresh, Posted
<1>6. Posts(e)
  BY <1>2, <1>3, <1>4, <1>5 DEF Posts
<1>7. Fresh'
  <2>1. PICK pc \in {"done", "record"} : Goto(c, pc)
    BY <1>1
  <2> DEFINE k == [call[c] EXCEPT !.pc = pc]
  <2>2. call' = [call EXCEPT ![c] = k]
    BY <2>1 DEF Goto, TypeOK
  <2>3. k.pc = pc /\ k.op \in AtomicOps
    BY <1>2, CallOf DEF CallStates
  <2> HIDE DEF k
  <2>4. \A f \in Posted' : f \in Posted \/ f.call = c
    BY <1>3, <1>5
  <2> QED
    BY <2>2, <2>3, <2>4, FreshKept
<1> QED
  BY <1>2, <1>3, <1>6, <1>7 DEF Moved

LEMMA AtomicPosts ==
  ASSUME TypeOK, Fresh, NEW c \in Calls,
         DebitWalletAtomic(c) \/ RefundWalletAtomic(c) \/ CreditWalletDirect(c)
  PROVE  Fresh' /\ Moved
<1>1. call[c].pc = "apply" /\ call[c].todo \subseteq Users /\ call[c].arg \in Nat
  <2>1. call[c].pc = "apply"
    BY DEF DebitWalletAtomic, RefundWalletAtomic, CreditWalletDirect
  <2> QED
    BY <2>1, CallOf, OpsAssumption, ArgsType DEF AtomicOps
<1>2. \A u \in call[c].todo : balance[u] - call[c].arg \in Int /\ balance[u] + call[c].arg \in Int
  BY <1>1 DEF TypeOK
<1>3. CASE \E u \in call[c].todo, type \in Types, new \in Int :
             /\ Apply(c, u, type, new)
             /\ \/ type = "DEBIT" /\ new = balance[u] - call[c].arg
                \/ type \in {"REFUND", "CREDIT"} /\ new = balance[u] + call[c].arg
  BY <1>1, <1>3, ApplyPosts
<1>4. CASE /\ Goto(c, "failed")
           /\ UNCHANGED <<balance, limit, used, active, ledger, unrecorded, stale, overridden>>
  <2>1. Fresh'
    BY <1>4, GotoPosts
  <2>2. Posted' = Posted /\ UNCHANGED <<balance, stale>>
    BY <1>4 DEF Posted
  <2> QED
    BY <2>1, <2>2 DEF Moved
<1> QED
  BY <1>2, <1>3, <1>4 DEF DebitWalletAtomic, RefundWalletAtomic, CreditWalletDirect, Types

\* The amount and the type that are recorded give the change of the balance.
LEMMA SignedChange ==
  ASSUME NEW c \in Calls, NEW u \in Users, NEW op \in AllOps \ (AtomicOps \cup {"setLimit"}),
         NEW arg \in Args(op), NEW seen \in View,
         op \in BulkOps => Adjustment(seen.bal, arg) > 0
  PROVE  LET before == seen.bal
             after  == Target(op, arg, seen)
         IN Signed(EntryOf(c, u, RecordedType(op, before, after),
                           RecordedAmount(op, arg, before, after), before, after))
              = after - before
<1> DEFINE before == seen.bal
           after  == Target(op, arg, seen)
<1> SUFFICES Signed(EntryOf(c, u, RecordedType(op, before, after),
                            RecordedAmount(op, arg, before, after), before, after)) = after - before
  OBVIOUS
<1>1. before \in Int /\ after \in Int /\ arg \in Int
  BY TargetType, ArgsType DEF View
<1>2. CASE op \in BulkOps
  <2> HIDE DEF after, before
  <2> QED
    BY <1>1, <1>2 DEF Signed, EntryOf, RecordedType, RecordedAmount, Abs, BulkOps
<1>3. CASE op = "setBalance"
  <2> HIDE DEF after, before
  <2> QED
    BY <1>1, <1>3 DEF Signed, EntryOf, RecordedType, RecordedAmount, Abs
<1>4. CASE op = "addFunds"
  BY <1>1, <1>4 DEF Signed, EntryOf, RecordedType, RecordedAmount, Target
<1>5. CASE op \in {"deductFunds", "forcedDebit"}
  BY <1>1, <1>5 DEF Signed, EntryOf, RecordedType, RecordedAmount, Target
<1> QED
  BY <1>2, <1>3, <1>4, <1>5 DEF AllOps, SingleOps

LEMMA WritePosts ==
  ASSUME TypeOK, Fresh, NEW c \in Calls, WriteBalance(c)
  PROVE  Fresh' /\ Moved
<1> DEFINE Before(u) == call[c].seen[u].bal
           After(u) == Target(call[c].op, call[c].arg, call[c].seen[u])
           E(u) == EntryOf(c, u, RecordedType(call[c].op, Before(u), After(u)),
                           RecordedAmount(call[c].op, call[c].arg, Before(u), After(u)),
                           Before(u), After(u))
<1>1. PICK u \in call[c].todo :
        /\ call[c].op \in BulkOps => Adjustment(Before(u), call[c].arg) > 0
        /\ balance' = [balance EXCEPT ![u] = After(u)]
        /\ unrecorded' = unrecorded \cup {E(u)}
        /\ call' = [call EXCEPT ![c].todo = @ \ {u}, ![c].pc = "record"]
        /\ NoteWrite(c, u)
  BY DEF WriteBalance
<1>2. /\ call[c] \in CallStates /\ u \in Users /\ call[c].pc = "write"
      /\ call[c].op \in AllOps \ (AtomicOps \cup {"setLimit"})
      /\ call[c].arg \in Args(call[c].op)
  BY CallOf, OpsAssumption DEF WriteBalance
<1>3. call[c].seen[u] \in View /\ Before(u) \in Int /\ After(u) \in Int
  BY <1>2, TargetType DEF CallStates, View
<1>4. Signed(E(u)) = After(u) - Before(u)
  BY <1>1, <1>2, <1>3, SignedChange
<1>5. E(u).call = c /\ E(u).user = u /\ E(u).before = Before(u) /\ E(u).after = After(u)
  BY DEF EntryOf
<1>6. u \in stale' \/ Before(u) = balance[u]
  BY <1>1, <1>2 DEF NoteWrite, Snapshot
<1> DEFINE e == E(u)
<1>7. e \in Entries /\ Posted' = Posted \cup {e}
  <2>1. TypeOK'
    BY WriteType
  <2> HIDE DEF E
  <2>2. e \in unrecorded' /\ UNCHANGED ledger
    BY <1>1 DEF WriteBalance
  <2> QED
    BY <1>1, <2>1, <2>2 DEF TypeOK, Posted
<1> HIDE DEF Before, After, E
<1>8. e \notin Posted
  BY <1>2, <1>5 DEF Fresh, AtomicOps, AllOps
<1>9. Posts(e)
  BY <1>1, <1>4, <1>5, <1>6, <1>7, <1>8 DEF Posts
<1>10. stale \subseteq stale'
  BY <1>1 DEF NoteWrite
<1> HIDE DEF e
<1>11. Fresh'
  <2> DEFINE k == [call[c] EXCEPT !.todo = @ \ {u}, !.pc = "record"]
  <2>1. call' = [call EXCEPT ![c] = k]
    BY <1>1 DEF TypeOK
  <2>2. k.pc = "record" /\ k.op = call[c].op /\ k.todo = call[c].todo \ {u}
    BY <1>2 DEF CallStates
  <2> HIDE DEF k
  <2>3. \A f \in Posted' : f \in Posted \/ f.call = c
    BY <1>5, <1>7 DEF e
  <2>4. ASSUME NEW f \in Posted', f.call = c
        PROVE  /\ k.pc \notin {"idle", "apply", "read"}
               /\ k.pc \in {"write", "record"} /\ k.op \notin AtomicOps => f.user \notin k.todo
    <3>1. CASE f = e
      BY <1>5, <2>2, <3>1 DEF e
    <3>2. CASE f \in Posted
      <4>1. f.user \notin call[c].todo
        BY <1>2, <2>4, <3>2 DEF Fresh
      <4> QED
        BY <2>2, <4>1
    <3> QED
      BY <1>7, <3>1, <3>2
  <2> QED
    BY <2>1, <2>3, <2>4, FreshKept
<1> QED
  BY <1>7, <1>9, <1>10, <1>11 DEF Moved

LEMMA SkipPosts ==
  ASSUME TypeOK, Fresh, NEW c \in Calls, SkipNegligible(c)
  PROVE  Fresh' /\ Moved
<1>1. PICK u \in call[c].todo, pc \in {"done", "write"} :
        call' = [call EXCEPT ![c].todo = @ \ {u}, ![c].pc = pc]
  BY DEF SkipNegligible
<1> DEFINE k == [call[c] EXCEPT !.todo = @ \ {u}, !.pc = pc]
<1>2. call[c] \in CallStates /\ call[c].pc = "write"
  BY CallOf DEF SkipNegligible
<1>3. call' = [call EXCEPT ![c] = k]
  BY <1>1 DEF TypeOK
<1>4. k.pc = pc /\ k.op = call[c].op /\ k.todo \subseteq call[c].todo
  BY <1>2 DEF CallStates
<1> HIDE DEF k
<1>5. Posted' = Posted /\ UNCHANGED <<balance, stale>>
  BY DEF SkipNegligible, Posted
<1>6. Fresh'
  BY <1>2, <1>3, <1>4, <1>5, PostsNothing
<1> QED
  BY <1>5, <1>6 DEF Moved

LEMMA SaveLimitPosts ==
  ASSUME TypeOK, Fresh, NEW c \in Calls, SaveLimit(c)
  PROVE  Fresh' /\ Moved
<1>1. Fresh'
  BY GotoPosts DEF SaveLimit
<1>2. Posted' = Posted /\ UNCHANGED balance /\ stale \subseteq stale'
  BY DEF SaveLimit, NoteWrite, Posted
<1> QED
  BY <1>1, <1>2 DEF Moved

LEMMA RecordPosts ==
  ASSUME TypeOK, Fresh, NEW c \in Calls, RecordTransaction(c)
  PROVE  Fresh' /\ Moved
<1>1. PICK pc \in {"write", "failed", "done"} : Goto(c, pc)
  BY DEF RecordTransaction
<1> DEFINE k == [call[c] EXCEPT !.pc = pc]
<1>2. call' = [call EXCEPT ![c] = k] /\ call[c].pc = "record"
  BY <1>1 DEF Goto, TypeOK, RecordTransaction
<1>3. k.pc = pc /\ k.op = call[c].op /\ k.todo = call[c].todo
  BY CallOf DEF CallStates
<1> HIDE DEF k
<1>4. Posted' = Posted /\ UNCHANGED <<balance, stale>>
  BY DEF RecordTransaction, Posted
<1>5. Fresh'
  BY <1>2, <1>3, <1>4, PostsNothing
<1> QED
  BY <1>4, <1>5 DEF Moved

LEMMA OutsidePosts ==
  ASSUME TypeOK, Fresh, Crash \/ (\E u \in Users : SetStatus(u)) \/ UNCHANGED vars
  PROVE  Fresh' /\ Moved
<1>1. Posted' = Posted /\ UNCHANGED <<balance, stale>>
  BY DEF Crash, SetStatus, vars, Posted
<1>2. \A c \in Calls : call'[c] = call[c] \/ call'[c].pc = "dead"
  BY DEF Crash, SetStatus, vars, TypeOK, CallStates
<1>3. Fresh'
  BY <1>1, <1>2 DEF Fresh, TypeOK, Posted, Entries
<1> QED
  BY <1>1, <1>3 DEF Moved

LEMMA StepPosts ==
  ASSUME TypeOK, Fresh, [Next]_vars
  PROVE  Fresh' /\ Moved
<1>1. ASSUME NEW c \in Calls, Step(c) PROVE Fresh' /\ Moved
  BY <1>1, BeginPosts, AtomicPosts, WritePosts, SkipPosts, SaveLimitPosts, RecordPosts DEF Step
<1> QED
  BY <1>1, OutsidePosts DEF Next

\* How often a set of entries leaves the balance v of u, and how often it
\* reaches it.
Leaves(S, u, v)  == {e \in S : e.user = u /\ e.before = v}
Reaches(S, u, v) == {e \in S : e.user = u /\ e.after = v}
Once(b) == IF b THEN 1 ELSE 0

Walks(S, u, b) ==
  \A v \in Int :
    Cardinality(Leaves(S, u, v)) - Cardinality(Reaches(S, u, v)) = Once(v = Opening) - Once(v = b)

LEMMA OneMore ==
  ASSUME NEW S, IsFiniteSet(S), NEW e, e \notin S, NEW u, NEW v
  PROVE  /\ Cardinality(Leaves(S, u, v)) \in Nat /\ Cardinality(Reaches(S, u, v)) \in Nat
         /\ Cardinality(Leaves(S \cup {e}, u, v))
              = Cardinality(Leaves(S, u, v)) + Once(e.user = u /\ e.before = v)
         /\ Cardinality(Reaches(S \cup {e}, u, v))
              = Cardinality(Reaches(S, u, v)) + Once(e.user = u /\ e.after = v)
<1>1. Leaves(S, u, v) \in SUBSET S /\ Reaches(S, u, v) \in SUBSET S
  BY DEF Leaves, Reaches
<1>2. IsFiniteSet(Leaves(S, u, v)) /\ IsFiniteSet(Reaches(S, u, v))
  BY <1>1, FS_Subset
<1>3. Cardinality(Leaves(S, u, v)) \in Nat /\ Cardinality(Reaches(S, u, v)) \in Nat
  BY <1>2, FS_CardinalityType
<1>4. e \notin Leaves(S, u, v) /\ e \notin Reaches(S, u, v)
  BY <1>1
<1>5. Cardinality(Leaves(S \cup {e}, u, v))
        = Cardinality(Leaves(S, u, v)) + Once(e.user = u /\ e.before = v)
  <2>1. CASE e.user = u /\ e.before = v
    <3>1. Leaves(S \cup {e}, u, v) = Leaves(S, u, v) \cup {e}
      BY <2>1 DEF Leaves
    <3>2. Cardinality(Leaves(S, u, v) \cup {e}) = Cardinality(Leaves(S, u, v)) + 1
      BY <1>2, <1>4, FS_AddElement
    <3> QED
      BY <2>1, <3>1, <3>2 DEF Once
  <2>2. CASE ~(e.user = u /\ e.before = v)
    <3>1. Leaves(S \cup {e}, u, v) = Leaves(S, u, v)
      BY <2>2 DEF Leaves
    <3> QED
      BY <1>3, <2>2, <3>1 DEF Once
  <2> QED
    BY <2>1, <2>2
<1>6. Cardinality(Reaches(S \cup {e}, u, v))
        = Cardinality(Reaches(S, u, v)) + Once(e.user = u /\ e.after = v)
  <2>1. CASE e.user = u /\ e.after = v
    <3>1. Reaches(S \cup {e}, u, v) = Reaches(S, u, v) \cup {e}
      BY <2>1 DEF Reaches
    <3>2. Cardinality(Reaches(S, u, v) \cup {e}) = Cardinality(Reaches(S, u, v)) + 1
      BY <1>2, <1>4, FS_AddElement
    <3> QED
      BY <2>1, <3>1, <3>2 DEF Once
  <2>2. CASE ~(e.user = u /\ e.after = v)
    <3>1. Reaches(S \cup {e}, u, v) = Reaches(S, u, v)
      BY <2>2 DEF Reaches
    <3> QED
      BY <1>3, <2>2, <3>1 DEF Once
  <2> QED
    BY <2>1, <2>2
<1> QED
  BY <1>3, <1>5, <1>6

\* An entry that leaves the present balance lengthens the walk.
LEMMA WalkGoesOn ==
  ASSUME NEW S, IsFiniteSet(S), NEW e, e \notin S, NEW u, e.user = u, Walks(S, u, e.before)
  PROVE  Walks(S \cup {e}, u, e.after)
<1> SUFFICES ASSUME NEW v \in Int
             PROVE  Cardinality(Leaves(S \cup {e}, u, v)) - Cardinality(Reaches(S \cup {e}, u, v))
                      = Once(v = Opening) - Once(v = e.after)
  BY DEF Walks
<1> DEFINE l == Cardinality(Leaves(S, u, v))
           r == Cardinality(Reaches(S, u, v))
<1>1. /\ l \in Nat /\ r \in Nat
      /\ Cardinality(Leaves(S \cup {e}, u, v)) = l + Once(e.before = v)
      /\ Cardinality(Reaches(S \cup {e}, u, v)) = r + Once(e.after = v)
  BY OneMore
<1>2. l - r = Once(v = Opening) - Once(v = e.before)
  BY DEF Walks
<1> HIDE DEF l, r
<1> QED
  BY <1>1, <1>2 DEF Once

LEMMA WalkOfOthers ==
  ASSUME NEW S, IsFiniteSet(S), NEW e, e \notin S, NEW u, e.user # u, NEW b, Walks(S, u, b)
  PROVE  Walks(S \cup {e}, u, b)
<1>1. \A v \in Int : Leaves(S \cup {e}, u, v) = Leaves(S, u, v) /\ Reaches(S \cup {e}, u, v) = Reaches(S, u, v)
  BY DEF Leaves, Reaches
<1> QED
  BY <1>1 DEF Walks

-----------------------------------------------------------------------------
(* Sums.  SumSigned folds a set with a recursive function on its subsets,  *)
(* which takes out one chosen entry after the other.  That the function    *)
(* exists, and that the order does not matter, follows from the smallest   *)
(* set for which it would not be so.                                       *)

Pick(s) == CHOOSE e \in s : TRUE

\* f adds up the entries of every subset of S.
Adds(f, S) ==
  f = [s \in SUBSET S |-> IF s = {} THEN 0 ELSE Signed(Pick(s)) + f[s \ {Pick(s)}]]

LEMMA SmallestSet ==
  ASSUME NEW S, IsFiniteSet(S), NEW T, T \subseteq SUBSET S, T # {}
  PROVE  \E s \in T : \A t \in T : t \subseteq s => t = s
<1>1. IsWellFoundedOn(StrictSubsetOrdering(S), SUBSET S)
  BY FS_StrictSubsetOrderingWellFounded, FS_FiniteSubsetsOfFinite
<1>2. PICK s \in T : \A t \in T : <<t, s>> \notin StrictSubsetOrdering(S)
  BY <1>1, WFMin
<1>3. \A t \in T : t \subseteq s => t = s
  BY <1>2 DEF StrictSubsetOrdering
<1> QED
  BY <1>3

LEMMA PickIn ==
  ASSUME NEW s, s # {}
  PROVE  Pick(s) \in s
BY DEF Pick

LEMMA AddsStep ==
  ASSUME NEW S, NEW f, Adds(f, S), NEW s \in SUBSET S
  PROVE  f[s] = IF s = {} THEN 0 ELSE Signed(Pick(s)) + f[s \ {Pick(s)}]
BY DEF Adds

\* Two such functions agree where both are defined.
LEMMA SameSum ==
  ASSUME NEW S, IsFiniteSet(S), NEW S2, NEW f, NEW g, Adds(f, S), Adds(g, S2),
         NEW t \in SUBSET S, t \subseteq S2
  PROVE  f[t] = g[t]
<1> DEFINE T == {s \in SUBSET S : s \subseteq S2 /\ f[s] # g[s]}
<1> SUFFICES ASSUME T # {} PROVE FALSE
  OBVIOUS
<1>1. PICK s \in T : \A r \in T : r \subseteq s => r = s
  <2>1. T \subseteq SUBSET S
    OBVIOUS
  <2> HIDE DEF T
  <2> QED
    BY <2>1, SmallestSet
<1>2. /\ f[s] = IF s = {} THEN 0 ELSE Signed(Pick(s)) + f[s \ {Pick(s)}]
      /\ g[s] = IF s = {} THEN 0 ELSE Signed(Pick(s)) + g[s \ {Pick(s)}]
  BY AddsStep
<1>3. s # {} => f[s \ {Pick(s)}] = g[s \ {Pick(s)}]
  BY <1>1, PickIn
<1> QED
  BY <1>2, <1>3

LEMMA SumType ==
  ASSUME NEW S, IsFiniteSet(S), \A e \in S : Signed(e) \in Int, NEW f, Adds(f, S), NEW t \in SUBSET S
  PROVE  f[t] \in Int
<1> DEFINE T == {s \in SUBSET S : f[s] \notin Int}
<1> SUFFICES ASSUME T # {} PROVE FALSE
  OBVIOUS
<1>1. PICK s \in T : \A r \in T : r \subseteq s => r = s
  <2>1. T \subseteq SUBSET S
    OBVIOUS
  <2> HIDE DEF T
  <2> QED
    BY <2>1, SmallestSet
<1>2. f[s] = IF s = {} THEN 0 ELSE Signed(Pick(s)) + f[s \ {Pick(s)}]
  <2>1. s \in SUBSET S
    OBVIOUS
  <2> HIDE DEF T
  <2> QED
    BY <2>1, AddsStep
<1>3. s # {} => Pick(s) \in S /\ f[s \ {Pick(s)}] \in Int
  BY <1>1, PickIn
<1> QED
  BY <1>2, <1>3

\* It does not matter which entry is taken out first.
LEMMA AnyFirst ==
  ASSUME NEW S, IsFiniteSet(S), \A e \in S : Signed(e) \in Int, NEW f, Adds(f, S),
         NEW t \in SUBSET S, NEW e \in t
  PROVE  f[t] = Signed(e) + f[t \ {e}]
<1> DEFINE T == {s \in SUBSET S : \E d \in s : f[s] # Signed(d) + f[s \ {d}]}
<1> SUFFICES ASSUME T # {} PROVE FALSE
  OBVIOUS
<1>1. PICK s \in T : \A r \in T : r \subseteq s => r = s
  <2>1. T \subseteq SUBSET S
    OBVIOUS
  <2> HIDE DEF T
  <2> QED
    BY <2>1, SmallestSet
<1>2. PICK d \in s : f[s] # Signed(d) + f[s \ {d}]
  OBVIOUS
<1> DEFINE x == Pick(s)
<1>3. x \in s /\ f[s] = Signed(x) + f[s \ {x}]
  BY <1>2, AddsStep, PickIn
<1>4. x # d
  BY <1>2, <1>3
<1> HIDE DEF x
<1>5. f[s \ {x}] = Signed(d) + f[(s \ {x}) \ {d}]
  BY <1>1, <1>2, <1>3, <1>4
<1>6. f[s \ {d}] = Signed(x) + f[(s \ {d}) \ {x}]
  BY <1>1, <1>2, <1>3, <1>4
<1>7. (s \ {x}) \ {d} = (s \ {d}) \ {x}
  OBVIOUS
<1>8. f[(s \ {d}) \ {x}] \in Int /\ Signed(x) \in Int /\ Signed(d) \in Int
  BY <1>2, <1>3, SumType
<1> DEFINE n == f[(s \ {d}) \ {x}]
           a == Signed(x)
           b == Signed(d)
<1>9. f[s] = a + (b + n) /\ f[s] # b + (a + n) /\ n \in Int /\ a \in Int /\ b \in Int
  BY <1>2, <1>3, <1>5, <1>6, <1>7, <1>8
<1> HIDE DEF n, a, b, T
<1> QED
  BY <1>9

\* The function exists for every finite set.
LEMMA SumExists ==
  ASSUME NEW S, IsFiniteSet(S)
  PROVE  \E f : Adds(f, S)
<1> DEFINE T == {s \in SUBSET S : ~\E f : Adds(f, s)}
<1>1. CASE T = {}
  BY <1>1
<1>2. CASE T # {}
  <2>1. PICK s \in T : \A r \in T : r \subseteq s => r = s
    <3>1. T \subseteq SUBSET S
      OBVIOUS
    <3> HIDE DEF T
    <3> QED
      BY <1>2, <3>1, SmallestSet
  <2>2. IsFiniteSet(s)
    BY FS_Subset
  <2> DEFINE F(r) == CHOOSE f : Adds(f, r)
             Rest(r) == r \ {Pick(r)}
             g == [r \in SUBSET s |-> IF r = {} THEN 0 ELSE Signed(Pick(r)) + F(Rest(r))[Rest(r)]]
  <2>3. \A r \in SUBSET s : r # s => Adds(F(r), r)
    BY <2>1
  <2>4. \A r \in SUBSET s : r # {} => Rest(r) \in SUBSET s /\ Rest(r) # s /\ IsFiniteSet(Rest(r))
    BY <2>2, PickIn, FS_Subset
  <2>5. ASSUME NEW r \in SUBSET s, r # s PROVE g[r] = F(r)[r]
    <3>1. CASE r = {}
      BY <2>3, <2>5, <3>1, AddsStep
    <3>2. CASE r # {}
      <4>1. Adds(F(r), r) /\ Adds(F(Rest(r)), Rest(r)) /\ IsFiniteSet(Rest(r))
        BY <2>3, <2>4, <2>5, <3>2
      <4>2. Rest(r) \subseteq r
        OBVIOUS
      <4>3. F(r)[r] = Signed(Pick(r)) + F(r)[Rest(r)]
        BY <3>2, <4>1, AddsStep
      <4> HIDE DEF F
      <4>4. F(Rest(r))[Rest(r)] = F(r)[Rest(r)]
        BY <4>1, <4>2, SameSum
      <4> QED
        BY <3>2, <4>3, <4>4
    <3> QED
      BY <3>1, <3>2
  <2>6. \A r \in SUBSET s : r # {} => g[Rest(r)] = F(Rest(r))[Rest(r)]
    <3> HIDE DEF F, Rest, g
    <3> QED
      BY <2>4, <2>5
  <2>7. Adds(g, s)
    <3>1. g = [r \in SUBSET s |-> IF r = {} THEN 0 ELSE Signed(Pick(r)) + g[Rest(r)]]
      <4>1. ASSUME NEW r \in SUBSET s
            PROVE  (IF r = {} THEN 0 ELSE Signed(Pick(r)) + F(Rest(r))[Rest(r)])
                     = (IF r = {} THEN 0 ELSE Signed(Pick(r)) + g[Rest(r)])
        <5> HIDE DEF F, Rest, g
        <5> QED
          BY <2>6
      <4> DEFINE h == g
      <4>2. \A r \in SUBSET s : g[r] = IF r = {} THEN 0 ELSE Signed(Pick(r)) + F(Rest(r))[Rest(r)]
        OBVIOUS
      <4>3. g = [r \in SUBSET s |-> g[r]]
        OBVIOUS
      <4> HIDE DEF F, Rest, g
      <4> QED
        BY <4>1, <4>2, <4>3
    <3> HIDE DEF F, g
    <3> QED
      BY <3>1 DEF Adds
  <2> QED
    BY <2>1, <2>7
<1> QED
  BY <1>1, <1>2

LEMMA SumIs ==
  ASSUME NEW S, IsFiniteSet(S)
  PROVE  \E f : Adds(f, S) /\ SumSigned(S) = f[S]
<1> DEFINE f == CHOOSE f : Adds(f, S)
<1>1. Adds(f, S)
  BY SumExists
<1>2. SumSigned(S) = f[S]
  BY DEF SumSigned, MapThenFoldSet, Adds, Pick
<1> HIDE DEF f
<1> QED
  BY <1>1, <1>2

LEMMA SumOfNothing == SumSigned({}) = 0
<1>1. PICK f : Adds(f, {}) /\ SumSigned({}) = f[{}]
  BY FS_EmptySet, SumIs
<1> QED
  BY <1>1, AddsStep

LEMMA SumOfOneMore ==
  ASSUME NEW S, IsFiniteSet(S), NEW e, e \notin S, \A d \in S \cup {e} : Signed(d) \in Int
  PROVE  SumSigned(S) \in Int /\ SumSigned(S \cup {e}) = SumSigned(S) + Signed(e)
<1> DEFINE S2 == S \cup {e}
<1>1. IsFiniteSet(S2)
  BY FS_AddElement
<1>2. PICK f : Adds(f, S) /\ SumSigned(S) = f[S]
  BY SumIs
<1>3. PICK g : Adds(g, S2) /\ SumSigned(S2) = g[S2]
  BY <1>1, SumIs
<1>4. f[S] = g[S] /\ f[S] \in Int
  <2>1. S \in SUBSET S /\ S \subseteq S2
    OBVIOUS
  <2> HIDE DEF S2
  <2> QED
    BY <1>2, <1>3, <2>1, SameSum, SumType
<1>5. g[S2] = Signed(e) + g[S2 \ {e}]
  <2>1. S2 \in SUBSET S2 /\ e \in S2 /\ \A d \in S2 : Signed(d) \in Int
    OBVIOUS
  <2> HIDE DEF S2
  <2> QED
    BY <1>1, <1>3, <2>1, AnyFirst
<1>6. S2 \ {e} = S
  OBVIOUS
<1>7. Signed(e) \in Int
  OBVIOUS
<1>8. SumSigned(S) = f[S] /\ SumSigned(S2) = Signed(e) + f[S]
  BY <1>2, <1>3, <1>4, <1>5, <1>6
<1> DEFINE n == f[S]
           a == Signed(e)
<1> HIDE DEF n, a
<1>9. n \in Int /\ a \in Int /\ SumSigned(S) = n /\ SumSigned(S2) = a + n
  BY <1>4, <1>7, <1>8 DEF n, a
<1> HIDE DEF S2
<1>10. SumSigned(S) \in Int /\ SumSigned(S2) = SumSigned(S) + a
  BY <1>9
<1> QED
  BY <1>10 DEF S2, a

-----------------------------------------------------------------------------
(* Conservation and replay.                                                *)

OfUser(S, u) == {e \in S : e.user = u}

LedgerInv ==
  /\ Fresh
  /\ IsFiniteSet(Posted)
  /\ \A u \in Users \ stale :
       /\ balance[u] = Opening + SumSigned(OfUser(Posted, u))
       /\ Walks(Posted, u, balance[u])

LEMMA SignedType ==
  ASSUME NEW e \in Entries
  PROVE  Signed(e) \in Int
<1>1. e.amount \in Nat
  BY DEF Entries
<1> QED
  BY <1>1 DEF Signed

LEMMA LedgerInitially == Init => LedgerInv
<1> SUFFICES ASSUME Init PROVE LedgerInv
  OBVIOUS
<1>1. Posted = {}
  BY DEF Init, Posted
<1>2. IsFiniteSet({}) /\ Cardinality({}) = 0
  BY FS_EmptySet
<1>3. ASSUME NEW u \in Users
      PROVE  balance[u] = Opening + SumSigned(OfUser({}, u)) /\ Walks({}, u, balance[u])
  <2>1. OfUser({}, u) = {} /\ balance[u] = Opening /\ Opening \in Int
    BY OpeningAssumption DEF OfUser, Init
  <2>2. \A v \in Int : Leaves({}, u, v) = {} /\ Reaches({}, u, v) = {}
    BY DEF Leaves, Reaches
  <2>3. Walks({}, u, Opening)
    BY <1>2, <2>2 DEF Walks, Once
  <2> QED
    BY <2>1, <2>3, SumOfNothing
<1>4. Fresh
  BY <1>1 DEF Fresh
<1> QED
  BY <1>1, <1>2, <1>3, <1>4 DEF LedgerInv

\* What one more entry does to the two equations of a user.
LEMMA PostsExplain ==
  ASSUME TypeOK, LedgerInv, NEW e \in Entries, e \notin Posted, Signed(e) = e.after - e.before,
         NEW u \in Users, u \notin stale, e.user = u => e.before = balance[u],
         NEW b \in Int, b = IF e.user = u THEN e.after ELSE balance[u]
  PROVE  /\ b = Opening + SumSigned(OfUser(Posted \cup {e}, u))
         /\ Walks(Posted \cup {e}, u, b)
<1>1. /\ IsFiniteSet(Posted) /\ Posted \subseteq Entries
      /\ balance[u] = Opening + SumSigned(OfUser(Posted, u))
      /\ Walks(Posted, u, balance[u])
  BY DEF LedgerInv, TypeOK, Posted
<1>2. e.before \in Int /\ e.after \in Int /\ Opening \in Int /\ balance[u] \in Int
  BY OpeningAssumption DEF Entries, TypeOK
<1>3. CASE e.user = u
  <2> DEFINE S == OfUser(Posted, u)
  <2>1. S \in SUBSET Posted /\ e \notin S /\ \A d \in S \cup {e} : d \in Entries
    BY <1>1 DEF OfUser
  <2>2. OfUser(Posted \cup {e}, u) = S \cup {e}
    BY <1>3 DEF OfUser
  <2> HIDE DEF S
  <2>3. IsFiniteSet(S) /\ \A d \in S \cup {e} : Signed(d) \in Int
    BY <1>1, <2>1, FS_Subset, SignedType
  <2>4. SumSigned(S) \in Int /\ SumSigned(S \cup {e}) = SumSigned(S) + Signed(e)
    BY <2>1, <2>3, SumOfOneMore
  <2>5. e.after = Opening + SumSigned(S \cup {e})
    <3>1. balance[u] = Opening + SumSigned(S)
      BY <1>1 DEF S
    <3> QED
      BY <1>2, <1>3, <2>4, <3>1
  <2>6. Walks(Posted \cup {e}, u, e.after)
    BY <1>1, <1>3, WalkGoesOn
  <2> QED
    BY <1>3, <2>2, <2>5, <2>6
<1>4. CASE e.user # u
  <2>1. OfUser(Posted \cup {e}, u) = OfUser(Posted, u)
    BY <1>4 DEF OfUser
  <2>2. Walks(Posted \cup {e}, u, balance[u])
    BY <1>1, <1>4, WalkOfOthers
  <2> QED
    BY <1>1, <1>4, <2>1, <2>2
<1> QED
  BY <1>3, <1>4

LEMMA LedgerStep ==
  ASSUME TypeOK, TypeOK', LedgerInv, [Next]_vars
  PROVE  LedgerInv'
<1>1. Fresh' /\ Moved
  BY StepPosts DEF LedgerInv
<1>2. CASE Posted' = Posted /\ UNCHANGED balance
  BY <1>1, <1>2 DEF LedgerInv, Moved, OfUser, Walks, Leaves, Reaches
<1>3. ASSUME NEW e \in Entries, Posts(e) PROVE LedgerInv'
  <2>1. IsFiniteSet(Posted')
    BY <1>3, FS_AddElement DEF Posts, LedgerInv
  <2>2. ASSUME NEW u \in Users, u \notin stale'
        PROVE  /\ balance'[u] = Opening + SumSigned(OfUser(Posted', u))
               /\ Walks(Posted', u, balance'[u])
    <3>1. u \notin stale /\ (e.user = u => e.before = balance[u])
      BY <1>1, <1>3, <2>2 DEF Moved, Posts
    <3>2. balance'[u] = (IF e.user = u THEN e.after ELSE balance[u]) /\ balance'[u] \in Int
      BY <1>3 DEF Posts, TypeOK
    <3>3. PICK b \in Int : b = balance'[u] /\ b = IF e.user = u THEN e.after ELSE balance[u]
      BY <3>2
    <3>4. /\ b = Opening + SumSigned(OfUser(Posted \cup {e}, u))
          /\ Walks(Posted \cup {e}, u, b)
      BY <1>3, <3>1, <3>3, PostsExplain DEF Posts
    <3>5. PICK S : S = Posted' /\ S = Posted \cup {e}
      BY <1>3 DEF Posts
    <3> QED
      BY <3>3, <3>4, <3>5
  <2> QED
    BY <1>1, <2>1, <2>2 DEF LedgerInv
<1> QED
  BY <1>1, <1>2, <1>3 DEF Moved

LEMMA LedgerInvariant == Spec => [](TypeOK /\ LedgerInv)
<1>1. Init => TypeOK /\ LedgerInv
  BY InitType, LedgerInitially
<1>2. TypeOK /\ TypeOK' /\ LedgerInv /\ [Next]_vars => LedgerInv'
  BY LedgerStep
<1> QED
  BY <1>1, <1>2, TypeCorrect, PTL DEF Spec

LEMMA EntriesOfUser ==
  ASSUME NEW u
  PROVE  EntriesFor(u) = OfUser(Posted, u)
BY DEF EntriesFor, OfUser, Posted

\* For any number of users and calls: unless a write based on an old read
\* replaced a newer balance, a balance is the opening one plus all that was
\* recorded or is still to be.
THEOREM BalanceAddsUp == Spec => []BalanceExplained
<1>1. LedgerInv => BalanceExplained
  BY EntriesOfUser DEF LedgerInv, BalanceExplained
<1> QED
  BY <1>1, LedgerInvariant, PTL

\* For any number of users and calls the entries of a user replay from the
\* opening balance to the present one.
THEOREM LedgerIsATrail == Spec => []LedgerReplays
<1>1. TypeOK /\ LedgerInv => LedgerReplays
  <2> SUFFICES ASSUME TypeOK, LedgerInv, NEW u \in Users \ stale,
                      NEW v \in {e.before : e \in EntriesFor(u)} \cup {e.after : e \in EntriesFor(u)}
                                  \cup {Opening, balance[u]}
               PROVE  Cardinality({e \in EntriesFor(u) : e.before = v})
                        - Cardinality({e \in EntriesFor(u) : e.after = v})
                        = Once(v = Opening) - Once(v = balance[u])
    BY DEF LedgerReplays, Once
  <2>1. v \in Int
    BY OpeningAssumption DEF EntriesFor, TypeOK, Entries
  <2>2. {e \in EntriesFor(u) : e.before = v} = Leaves(Posted, u, v)
    BY DEF EntriesFor, Posted, Leaves
  <2>3. {e \in EntriesFor(u) : e.after = v} = Reaches(Posted, u, v)
    BY DEF EntriesFor, Posted, Reaches
  <2>4. Walks(Posted, u, balance[u])
    BY DEF LedgerInv
  <2> QED
    BY <2>1, <2>2, <2>3, <2>4 DEF Walks
<1> QED
  BY <1>1, LedgerInvariant, PTL

-----------------------------------------------------------------------------
(* Deposits.                                                               *)

\* Reviews stay well formed when one of them moves to a well-formed state and
\* no request is withdrawn.
LEMMA ReviewMoves ==
  ASSUME DepositsTypeOK, NEW r \in Reviews, NEW k \in ReviewStates, review' = [review EXCEPT ![r] = k],
         ReviewOK(k)', \A d \in Deposits : status[d] # "NONE" => status'[d] # "NONE"
  PROVE  review' \in [Reviews -> ReviewStates] /\ \A s \in Reviews : ReviewOK(review[s])'
<1>1. review' \in [Reviews -> ReviewStates]
  BY DEF DepositsTypeOK
<1>2. ASSUME NEW s \in Reviews PROVE ReviewOK(review[s])'
  <2>1. CASE s = r
    <3>1. review'[s] = k
      BY <2>1 DEF DepositsTypeOK
    <3> QED
      BY <3>1 DEF ReviewOK
  <2>2. CASE s # r
    <3>1. review'[s] = review[s] /\ ReviewOK(review[s])
      BY <2>2 DEF DepositsTypeOK
    <3> QED
      BY <3>1 DEF ReviewOK
  <2> QED
    BY <2>1, <2>2
<1> QED
  BY <1>1, <1>2

\* A review that only moves on: its record keeps what it read.
LEMMA GotoMoves ==
  ASSUME DepositsTypeOK, NEW r \in Reviews, NEW pc \in {"claimed", "done", "refused", "lost"}, ReviewGoes(r, pc),
         review[r].pc \in {"read", "claimed"}, pc = "claimed" => review[r].op = "approve",
         \A d \in Deposits : status[d] # "NONE" => status'[d] # "NONE"
  PROVE  review' \in [Reviews -> ReviewStates] /\ \A s \in Reviews : ReviewOK(review[s])'
<1>1. review[r] \in ReviewStates /\ ReviewOK(review[r])
  BY DEF DepositsTypeOK
<1>2. PICK k \in ReviewStates :
        /\ review' = [review EXCEPT ![r] = k] /\ k.pc = pc /\ k.op = review[r].op
        /\ k.deposit = review[r].deposit /\ k.seen = review[r].seen
  <2> DEFINE k == [review[r] EXCEPT !.pc = pc]
  <2>1. review' = [review EXCEPT ![r] = k]
    BY DEF DepositsTypeOK, ReviewGoes
  <2>2. k \in ReviewStates /\ k.pc = pc /\ k.op = review[r].op
    BY <1>1 DEF ReviewStates
  <2>3. k.deposit = review[r].deposit /\ k.seen = review[r].seen
    BY <1>1 DEF ReviewStates
  <2> QED
    BY <2>1, <2>2, <2>3
<1>3. ReviewOK(k)'
  BY <1>1, <1>2 DEF ReviewOK
<1> QED
  BY <1>2, <1>3, ReviewMoves

LEMMA ReadDepositType ==
  ASSUME DepositsTypeOK, NEW r \in Reviews, NEW d \in Deposits, ReadDeposit(r, d)
  PROVE  DepositsTypeOK'
<1>1. PICK op \in ReviewOps, n \in DepositAmounts \cup {Nothing}, pc \in {"read", "refused"} :
        /\ op = "edit" => n # Nothing
        /\ review' = [review EXCEPT ![r] =
                        [pc |-> pc, op |-> op, deposit |-> d, seen |-> amount[d], set |-> n]]
  BY DEF ReadDeposit
<1> DEFINE k == [pc |-> pc, op |-> op, deposit |-> d, seen |-> amount[d], set |-> n]
<1>2. UNCHANGED <<status, amount, credits, paidOut, faults, crashes, stranded, edited>>
  BY DEF ReadDeposit
<1>3. amount[d] \in DepositAmounts /\ status[d] # "NONE"
  BY DEF ReadDeposit, DepositsTypeOK
<1>4. k \in ReviewStates
  BY <1>3 DEF ReviewStates
<1>5. ReviewOK(k)'
  BY <1>1, <1>2, <1>3 DEF ReviewOK
<1>6. review' \in [Reviews -> ReviewStates] /\ \A s \in Reviews : ReviewOK(review[s])'
  BY <1>1, <1>2, <1>4, <1>5, ReviewMoves
<1> QED
  BY <1>2, <1>6 DEF DepositsTypeOK

LEMMA ReadTargetType ==
  ASSUME DepositsTypeOK, NEW r \in Reviews, NEW d \in Deposits, ReadTarget(r, d)
  PROVE  DepositsTypeOK'
<1>1. PICK op \in {"approve", "reject"}, pc \in {"read", "refused"} :
        review' = [review EXCEPT ![r] =
                     [pc |-> pc, op |-> op, deposit |-> d, seen |-> amount[d], set |-> Nothing]]
  BY DEF ReadTarget
<1> DEFINE k == [pc |-> pc, op |-> op, deposit |-> d, seen |-> amount[d], set |-> Nothing]
<1>2. UNCHANGED <<status, amount, credits, paidOut, faults, crashes, stranded, edited>>
  BY DEF ReadTarget
<1>3. amount[d] \in DepositAmounts /\ status[d] # "NONE"
  BY DEF ReadTarget, DepositsTypeOK
<1>4. k \in ReviewStates
  BY <1>3 DEF ReviewStates, ReviewOps
<1>5. ReviewOK(k)'
  BY <1>1, <1>2, <1>3 DEF ReviewOK
<1>6. review' \in [Reviews -> ReviewStates] /\ \A s \in Reviews : ReviewOK(review[s])'
  BY <1>1, <1>2, <1>4, <1>5, ReviewMoves
<1> QED
  BY <1>2, <1>6 DEF DepositsTypeOK

\* The review of a claim, a payment, a loss, a rejection or an edit.
LEMMA WorksOn ==
  ASSUME DepositsTypeOK, NEW r \in Reviews,
         \/ ClaimDeposit(r) \/ CreditWallet(r) \/ LoseApproval(r)
         \/ SaveRejection(r) \/ SaveEdit(r) \/ ApproveTarget(r) \/ RejectTarget(r)
  PROVE  /\ review[r] \in ReviewStates /\ review[r].pc \in {"read", "claimed"}
         /\ review[r].deposit \in Deposits /\ review[r].seen \in DepositAmounts
         /\ status[review[r].deposit] # "NONE" /\ FinalAmount(review[r]) \in DepositAmounts
         /\ review[r].op = "edit" /\ review[r].pc = "read" => review[r].set \in DepositAmounts
BY DEF DepositsTypeOK, ReviewOK, ClaimDeposit, CreditWallet, LoseApproval, SaveRejection, SaveEdit,
       ApproveTarget, RejectTarget, SwapTarget, FinalAmount, ReviewStates

LEMMA StepType ==
  ASSUME DepositsTypeOK, NEW r \in Reviews,
         \/ ClaimDeposit(r) \/ CreditWallet(r) \/ LoseApproval(r)
         \/ SaveRejection(r) \/ SaveEdit(r) \/ ApproveTarget(r) \/ RejectTarget(r)
  PROVE  DepositsTypeOK'
<1> DEFINE k == review[r]
           d == k.deposit
<1>1. /\ k \in ReviewStates /\ k.pc \in {"read", "claimed"} /\ d \in Deposits
      /\ k.seen \in DepositAmounts /\ status[d] # "NONE" /\ FinalAmount(k) \in DepositAmounts
      /\ k.op = "edit" /\ k.pc = "read" => k.set \in DepositAmounts
  BY WorksOn
<1>2. /\ status' = status \/ \E s \in {"APPROVED", "REJECTED"} : status' = [status EXCEPT ![d] = s]
      /\ amount' = amount \/ \E n \in DepositAmounts : amount' = [amount EXCEPT ![d] = n]
  BY <1>1 DEF ClaimDeposit, CreditWallet, LoseApproval, SaveRejection, SaveEdit, Decision,
     ApproveTarget, RejectTarget, SwapTarget,
     ClaimedAmount, EditedStatus, ReviewStates
<1>3. /\ status' \in [Deposits -> Statuses] /\ amount' \in [Deposits -> DepositAmounts \cup {Nothing}]
      /\ \A e \in Deposits : status'[e] # "NONE" => amount'[e] \in DepositAmounts
      /\ \A e \in Deposits : status[e] # "NONE" => status'[e] # "NONE"
  BY <1>1, <1>2 DEF DepositsTypeOK, Statuses
<1>4. \E pc \in {"claimed", "done", "refused", "lost"} :
        ReviewGoes(r, pc) /\ (pc = "claimed" => k.op = "approve")
  BY DEF ClaimDeposit, CreditWallet, LoseApproval, SaveRejection, SaveEdit,
       ApproveTarget, RejectTarget, SwapTarget
<1>5. review' \in [Reviews -> ReviewStates] /\ \A s \in Reviews : ReviewOK(review[s])'
  BY <1>1, <1>3, <1>4, GotoMoves
<1>6. credits' \in [Deposits -> Nat] /\ paidOut' \in [Deposits -> DepositAmounts \cup {Nothing}]
  BY <1>1 DEF DepositsTypeOK, ClaimDeposit, CreditWallet, LoseApproval, SaveRejection, SaveEdit,
       ApproveTarget, RejectTarget, SwapTarget
<1>7. /\ faults' \in Nat /\ crashes' \in Nat /\ stranded' \subseteq Deposits
      /\ edited' \subseteq Deposits
  BY <1>1 DEF DepositsTypeOK, ClaimDeposit, CreditWallet, LoseApproval, SaveRejection, SaveEdit,
       ApproveTarget, RejectTarget, SwapTarget
<1> QED
  BY <1>3, <1>5, <1>6, <1>7 DEF DepositsTypeOK

\* Type correctness of requests and reviews.
THEOREM DepositsTypeCorrect == DepositsSpec => []DepositsTypeOK
<1>1. DepositsInit => DepositsTypeOK
  BY DEF DepositsInit, DepositsTypeOK, Statuses, ReviewStates, ReviewOps, ReviewOK
<1>2. ASSUME DepositsTypeOK, [DepositsNext]_depositVars PROVE DepositsTypeOK'
  <2>1. ASSUME NEW d \in Deposits, CreateDepositRequest(d) \/ CreateTargetOrder(d) PROVE DepositsTypeOK'
    BY <1>2, <2>1 DEF CreateDepositRequest, CreateTargetOrder, DepositsTypeOK, Statuses, ReviewOK
  <2>2. CASE CrashReviews
    <3>1. review' \in [Reviews -> ReviewStates]
      BY <1>2, <2>2 DEF CrashReviews, DepositsTypeOK, ReviewStates
    <3>2. \A r \in Reviews : ReviewOK(review[r])'
      BY <1>2, <2>2 DEF CrashReviews, DepositsTypeOK, ReviewStates, ReviewOK
    <3> QED
      BY <1>2, <2>2, <3>1, <3>2 DEF CrashReviews, DepositsTypeOK
  <2>3. CASE UNCHANGED depositVars
    BY <1>2, <2>3 DEF depositVars, DepositsTypeOK, ReviewOK
  <2> QED
    BY <1>2, <2>1, <2>2, <2>3, ReadDepositType, ReadTargetType, StepType DEF DepositsNext, ReviewStep
<1> QED
  BY <1>1, <1>2, PTL DEF DepositsSpec
-----------------------------------------------------------------------------
(* Payment.  Claiming is exclusive: from the claim on the request is       *)
(* decided, no other review can claim it, and it is not yet paid.          *)

Decided(d) == status[d] \in {"APPROVED", "REJECTED"}
Claims(r, d) == review[r].pc = "claimed" /\ review[r].deposit = d

Exclusive ==
  \A d \in Deposits :
    /\ \A r, s \in Reviews : Claims(r, d) /\ Claims(s, d) => r = s
    /\ \A r \in Reviews : Claims(r, d) => Decided(d) /\ credits[d] = 0
    /\ credits[d] > 0 => Decided(d)
    /\ credits[d] <= 1

\* What a claimant is about to pay is what the request shows.
Honest ==
  \A d \in Deposits \ edited :
    \A r \in Reviews : Claims(r, d) => FinalAmount(review[r]) = amount[d]

PayInv == Exclusive /\ NoSilentLoss /\ Honest /\ CreditShown

\* How a step of r that only moves on changes the claims.
LEMMA ClaimsMove ==
  ASSUME DepositsTypeOK, NEW r \in Reviews, NEW pc, ReviewGoes(r, pc)
  PROVE  /\ \A s \in Reviews \ {r} : review'[s] = review[s]
         /\ review'[r].pc = pc /\ review'[r].deposit = review[r].deposit
         /\ FinalAmount(review'[r]) = FinalAmount(review[r])
<1>1. review[r] \in ReviewStates /\ review' = [review EXCEPT ![r] = [review[r] EXCEPT !.pc = pc]]
  BY DEF DepositsTypeOK, ReviewGoes
<1>2. /\ review'[r].pc = pc /\ review'[r].deposit = review[r].deposit
      /\ review'[r].seen = review[r].seen /\ review'[r].set = review[r].set
  BY <1>1 DEF DepositsTypeOK, ReviewStates
<1> QED
  BY <1>1, <1>2 DEF DepositsTypeOK, FinalAmount
\* A step that pays nothing, claims nothing and decides nothing in favour,
\* and loses a claim only by stranding it.
LEMMA QuietPay ==
  ASSUME DepositsTypeOK, PayInv, UNCHANGED <<credits, paidOut>>, stranded \subseteq stranded',
         edited \subseteq edited',
         \A r \in Reviews, d \in Deposits :
           /\ Claims(r, d)' => Claims(r, d) /\ FinalAmount(review'[r]) = FinalAmount(review[r])
           /\ Claims(r, d) => Claims(r, d)' \/ d \in stranded',
         \A d \in Deposits :
           /\ Decided(d) => Decided(d)' /\ (d \notin edited' => amount'[d] = amount[d])
           /\ d \notin TargetOrders /\ status'[d] = "APPROVED" => status[d] = "APPROVED"
  PROVE  PayInv'
<1>1. Exclusive'
  BY DEF PayInv, Exclusive
<1>2. NoSilentLoss'
  BY DEF PayInv, NoSilentLoss, Claimants, Claims
<1>3. Honest'
  BY DEF PayInv, Exclusive, Honest
<1>4. CreditShown'
  BY DEF PayInv, Exclusive, CreditShown
<1> QED
  BY <1>1, <1>2, <1>3, <1>4 DEF PayInv

\* A review that stays away from claims, or gives its claim up as stranded.
LEMMA QuietReview ==
  ASSUME DepositsTypeOK, NEW r \in Reviews, review'[r].pc # "claimed", stranded \subseteq stranded',
         \A s \in Reviews \ {r} : review'[s] = review[s],
         review[r].pc = "claimed" => review[r].deposit \in stranded'
  PROVE  \A s \in Reviews, d \in Deposits :
           /\ Claims(s, d)' => Claims(s, d) /\ FinalAmount(review'[s]) = FinalAmount(review[s])
           /\ Claims(s, d) => Claims(s, d)' \/ d \in stranded'
<1> SUFFICES ASSUME NEW s \in Reviews, NEW d \in Deposits
             PROVE  /\ Claims(s, d)' => Claims(s, d) /\ FinalAmount(review'[s]) = FinalAmount(review[s])
                    /\ Claims(s, d) => Claims(s, d)' \/ d \in stranded'
  OBVIOUS
<1>1. CASE s = r
  BY <1>1 DEF Claims
<1>2. CASE s # r
  <2>1. review'[s] = review[s]
    BY <1>2
  <2> QED
    BY <2>1 DEF Claims
<1> QED
  BY <1>1, <1>2

LEMMA CreatePay ==
  ASSUME DepositsTypeOK, PayInv, NEW d \in Deposits, CreateDepositRequest(d) \/ CreateTargetOrder(d)
  PROVE  PayInv'
<1>1. UNCHANGED <<review, credits, paidOut, stranded, edited>>
  BY DEF CreateDepositRequest, CreateTargetOrder
<1>2. \A e \in Deposits :
        /\ Decided(e) => Decided(e)' /\ (e \notin edited' => amount'[e] = amount[e])
        /\ e \notin TargetOrders /\ status'[e] = "APPROVED" => status[e] = "APPROVED"
  BY DEF CreateDepositRequest, CreateTargetOrder, Decided, DepositsTypeOK
<1> QED
  BY <1>1, <1>2, QuietPay DEF Claims

LEMMA ReadPay ==
  ASSUME DepositsTypeOK, PayInv, NEW r \in Reviews, NEW d \in Deposits,
         ReadDeposit(r, d) \/ ReadTarget(r, d)
  PROVE  PayInv'
<1>1. UNCHANGED <<status, amount, credits, paidOut, stranded, edited>> /\ review[r].pc = "idle"
  BY DEF ReadDeposit, ReadTarget
<1>2. review'[r].pc # "claimed" /\ \A s \in Reviews \ {r} : review'[s] = review[s]
  BY DEF ReadDeposit, ReadTarget, DepositsTypeOK
<1>3. \A s \in Reviews, e \in Deposits :
        /\ Claims(s, e)' => Claims(s, e) /\ FinalAmount(review'[s]) = FinalAmount(review[s])
        /\ Claims(s, e) => Claims(s, e)' \/ e \in stranded'
  BY <1>1, <1>2, QuietReview
<1> QED
  BY <1>1, <1>3, QuietPay DEF Decided

\* Decisions on target orders, rejections, edits, refused claims and lost approvals.
LEMMA WritePay ==
  ASSUME DepositsTypeOK, PayInv, NEW r \in Reviews,
         \/ SaveRejection(r) \/ SaveEdit(r) \/ LoseApproval(r)
         \/ ClaimDeposit(r) /\ ~Claimable(review[r].deposit)
         \/ ApproveTarget(r) \/ RejectTarget(r)
  PROVE  PayInv'
<1> DEFINE d == review[r].deposit
<1>0. d \in Deposits /\ review[r].pc \in {"read", "claimed"}
  BY WorksOn
<1>1. UNCHANGED <<credits, paidOut>> /\ stranded \subseteq stranded' /\ edited \subseteq edited'
  BY DEF SaveRejection, SaveEdit, LoseApproval, ClaimDeposit, ApproveTarget, RejectTarget,
     SwapTarget
<1>2. /\ \E pc \in {"done", "lost", "refused"} : ReviewGoes(r, pc)
      /\ review[r].pc = "claimed" => d \in stranded'
  BY DEF SaveRejection, SaveEdit, LoseApproval, ClaimDeposit, ApproveTarget, RejectTarget,
     SwapTarget
<1>3. \A s \in Reviews, e \in Deposits :
        /\ Claims(s, e)' => Claims(s, e) /\ FinalAmount(review'[s]) = FinalAmount(review[s])
        /\ Claims(s, e) => Claims(s, e)' \/ e \in stranded'
  <2>1. review'[r].pc # "claimed" /\ \A s \in Reviews \ {r} : review'[s] = review[s]
    BY <1>2, ClaimsMove
  <2> QED
    BY <1>1, <1>2, <2>1, QuietReview
<1>4. \A e \in Deposits :
        /\ Decided(e) => Decided(e)' /\ (e \notin edited' => amount'[e] = amount[e])
        /\ e \notin TargetOrders /\ status'[e] = "APPROVED" => status[e] = "APPROVED"
  <2>1. CASE SaveRejection(r)
    BY <1>0, <2>1 DEF SaveRejection, Decision, Decided, DepositsTypeOK
  <2>2. CASE SaveEdit(r)
    <3>1. UNCHANGED status
      BY <2>2 DEF SaveEdit, EditedStatus
    <3>2. CASE status[d] = "PENDING"
      BY <1>0, <2>2, <3>1, <3>2 DEF SaveEdit, Decided, DepositsTypeOK
    <3>3. CASE status[d] # "PENDING"
      BY <1>0, <2>2, <3>1, <3>3 DEF SaveEdit, Decided, DepositsTypeOK
    <3> QED
      BY <3>2, <3>3
  <2>3. CASE LoseApproval(r) \/ (ClaimDeposit(r) /\ ~Claimable(d))
    BY <2>3 DEF LoseApproval, ClaimDeposit, Decided
  <2>4. CASE ApproveTarget(r) \/ RejectTarget(r)
    BY <1>0, <2>4 DEF ApproveTarget, RejectTarget, SwapTarget, Decided, DepositsTypeOK
  <2> QED
    BY <2>1, <2>2, <2>3, <2>4
<1> QED
  BY <1>1, <1>3, <1>4, QuietPay

LEMMA CrashPay ==
  ASSUME DepositsTypeOK, PayInv, CrashReviews
  PROVE  PayInv'
<1>1. UNCHANGED <<status, amount, credits, paidOut, edited>> /\ stranded \subseteq stranded'
  BY DEF CrashReviews
<1>2. \A r \in Reviews : review'[r].pc # "claimed"
  BY DEF CrashReviews, DepositsTypeOK, ReviewStates
<1>3. \A r \in Reviews, d \in Deposits :
        /\ ~Claims(r, d)'
        /\ Claims(r, d) => d \in stranded'
  BY <1>2 DEF CrashReviews, Claims
<1> QED
  BY <1>1, <1>3, QuietPay DEF Decided

\* The claim: the request was PENDING, so nobody else has claimed it.
LEMMA ClaimPay ==
  ASSUME DepositsTypeOK, PayInv, NEW r \in Reviews, ClaimDeposit(r), Claimable(review[r].deposit)
  PROVE  PayInv'
<1> DEFINE d == review[r].deposit
<1>0. d \in Deposits /\ status[d] = "PENDING" /\ ReviewGoes(r, "claimed") /\ review[r].op = "approve"
  BY WorksOn DEF ClaimDeposit, Claimable
<1>1. UNCHANGED <<credits, paidOut, stranded>> /\ edited \subseteq edited'
  BY DEF ClaimDeposit
<1>2. status' = [status EXCEPT ![d] = "APPROVED"] /\ status'[d] = "APPROVED"
  BY <1>0 DEF ClaimDeposit, Decision, DepositsTypeOK
<1>3. /\ \A s \in Reviews \ {r} : review'[s] = review[s]
      /\ review'[r].pc = "claimed" /\ review'[r].deposit = d
      /\ FinalAmount(review'[r]) = FinalAmount(review[r])
      /\ \A e \in Deposits \ {d} : ~Claims(r, e)'
  BY <1>0, ClaimsMove DEF Claims
<1>4. \A s \in Reviews : ~Claims(s, d)
  BY <1>0 DEF PayInv, Exclusive, Decided
<1>5. credits[d] = 0
  BY <1>0 DEF PayInv, Exclusive, Decided, DepositsTypeOK
<1>6. \A e \in Deposits \ {d} : status'[e] = status[e] /\ amount'[e] = amount[e]
  BY <1>0, <1>2 DEF ClaimDeposit, ClaimedAmount, DepositsTypeOK
<1>7. \A s \in Reviews \ {r}, e \in Deposits :
        (Claims(s, e)' <=> Claims(s, e)) /\ FinalAmount(review'[s]) = FinalAmount(review[s])
  BY <1>3 DEF Claims
<1>8. ~Claims(r, d) /\ \A e \in Deposits : ~Claims(r, e)
  BY <1>4 DEF Claims, ClaimDeposit
<1>9. Exclusive'
  <2> SUFFICES ASSUME NEW e \in Deposits
               PROVE  /\ \A s, t \in Reviews : Claims(s, e)' /\ Claims(t, e)' => s = t
                      /\ \A s \in Reviews : Claims(s, e)' => Decided(e)' /\ credits'[e] = 0
                      /\ credits'[e] > 0 => Decided(e)'
                      /\ credits'[e] <= 1
    BY DEF Exclusive
  <2>1. CASE e = d
    BY <1>1, <1>2, <1>4, <1>5, <1>7, <2>1 DEF Decided
  <2>2. CASE e # d
    BY <1>1, <1>3, <1>6, <1>7, <2>2 DEF PayInv, Exclusive, Decided
  <2> QED
    BY <2>1, <2>2
<1>10. NoSilentLoss'
  <2> SUFFICES ASSUME NEW e \in Deposits \ TargetOrders, status'[e] = "APPROVED"
               PROVE  credits'[e] > 0 \/ (\E s \in Reviews : Claims(s, e)') \/ e \in stranded'
    BY DEF NoSilentLoss, Claimants, Claims
  <2>1. CASE e = d
    <3>1. Claims(r, e)'
      BY <1>3, <2>1 DEF Claims
    <3> QED
      BY <3>1
  <2>2. CASE e # d
    <3>1. credits[e] > 0 \/ (\E s \in Reviews : Claims(s, e)) \/ e \in stranded
      BY <1>6, <2>2 DEF PayInv, NoSilentLoss, Claimants, Claims
    <3> QED
      BY <1>1, <1>7, <1>8, <3>1
  <2> QED
    BY <2>1, <2>2
<1>11. Honest'
  <2> SUFFICES ASSUME NEW e \in Deposits, e \notin edited', NEW s \in Reviews, Claims(s, e)'
               PROVE  FinalAmount(review'[s]) = amount'[e]
    BY DEF Honest
  <2>1. CASE s = r
    <3>1. e = d
      BY <1>3, <2>1
    <3>2. CASE review[r].set # Nothing
      BY <1>0, <1>3, <2>1, <3>1, <3>2 DEF ClaimDeposit, ClaimedAmount, FinalAmount, DepositsTypeOK
    <3>3. CASE review[r].set = Nothing
      BY <1>0, <1>3, <2>1, <3>1, <3>3 DEF ClaimDeposit, ClaimedAmount, FinalAmount, Claimable
    <3> QED
      BY <3>2, <3>3
  <2>2. CASE s # r
    <3>1. e # d /\ Claims(s, e) /\ e \notin edited
      BY <1>1, <1>4, <1>7, <2>2
    <3> QED
      BY <1>6, <1>7, <2>2, <3>1 DEF PayInv, Honest
  <2> QED
    BY <2>1, <2>2
<1>12. CreditShown'
  BY <1>1, <1>5, <1>6 DEF PayInv, CreditShown
<1> QED
  BY <1>9, <1>10, <1>11, <1>12 DEF PayInv

\* The payment: the claim becomes the one credit.
LEMMA CreditPay ==
  ASSUME DepositsTypeOK, PayInv, NEW r \in Reviews, CreditWallet(r)
  PROVE  PayInv'
<1> DEFINE d == review[r].deposit
<1>0. d \in Deposits /\ Claims(r, d) /\ ReviewGoes(r, "done")
  BY WorksOn DEF CreditWallet, Claims
<1>1. UNCHANGED <<status, amount, stranded, edited>>
  BY DEF CreditWallet
<1>2. /\ credits[d] = 0 /\ credits'[d] = 1 /\ paidOut'[d] = FinalAmount(review[r])
      /\ \A e \in Deposits \ {d} : credits'[e] = credits[e] /\ paidOut'[e] = paidOut[e]
  BY <1>0 DEF CreditWallet, PayInv, Exclusive, DepositsTypeOK
<1>3. /\ \A s \in Reviews \ {r} : review'[s] = review[s]
      /\ \A e \in Deposits : ~Claims(r, e)'
  BY <1>0, ClaimsMove DEF Claims
<1>4. \A s \in Reviews \ {r} : ~Claims(s, d) /\ \A e \in Deposits : Claims(s, e)' <=> Claims(s, e)
  BY <1>0, <1>3 DEF PayInv, Exclusive, Claims
<1>5. Exclusive'
  BY <1>0, <1>1, <1>2, <1>3, <1>4 DEF PayInv, Exclusive, Decided
<1>6. NoSilentLoss'
  <2> SUFFICES ASSUME NEW e \in Deposits \ TargetOrders, status'[e] = "APPROVED"
               PROVE  credits'[e] > 0 \/ (\E s \in Reviews : Claims(s, e)') \/ e \in stranded'
    BY DEF NoSilentLoss, Claimants, Claims
  <2>1. CASE e = d
    BY <1>2, <2>1
  <2>2. CASE e # d
    <3>1. credits[e] > 0 \/ (\E s \in Reviews : Claims(s, e)) \/ e \in stranded
      BY <1>1 DEF PayInv, NoSilentLoss, Claimants, Claims
    <3>2. ~Claims(r, e)
      BY <1>0, <2>2 DEF Claims
    <3> QED
      BY <1>1, <1>2, <1>4, <2>2, <3>1, <3>2
  <2> QED
    BY <2>1, <2>2
<1>7. Honest'
  BY <1>1, <1>3, <1>4 DEF PayInv, Honest
<1>8. CreditShown'
  BY <1>0, <1>1, <1>2 DEF PayInv, CreditShown, Honest
<1> QED
  BY <1>5, <1>6, <1>7, <1>8 DEF PayInv

\* PayInv is inductive on top of the types.
THEOREM PaymentInvariant == DepositsSpec => []PayInv
<1>1. DepositsInit => PayInv
  BY DEF DepositsInit, PayInv, Exclusive, NoSilentLoss, Honest, CreditShown, Claims
<1>2. ASSUME DepositsTypeOK, PayInv, [DepositsNext]_depositVars PROVE PayInv'
  <2>1. ASSUME NEW r \in Reviews, ReviewStep(r) PROVE PayInv'
    BY <1>2, <2>1, ReadPay, WritePay, ClaimPay, CreditPay DEF ReviewStep
  <2>2. CASE UNCHANGED depositVars
    BY <1>2, <2>2, QuietPay DEF depositVars, Claims, Decided
  <2> QED
    BY <1>2, <2>1, <2>2, CreatePay, CrashPay DEF DepositsNext
<1> QED
  BY <1>1, <1>2, DepositsTypeCorrect, PTL DEF DepositsSpec

\* No request is ever paid twice.
THEOREM PaidAtMostOnce == DepositsSpec => []CreditedOnce
<1>1. PayInv => CreditedOnce
  BY DEF PayInv, Exclusive, CreditedOnce
<1> QED
  BY <1>1, PaymentInvariant, PTL

\* An approved request goes unpaid only through a failure or a crash between
\* claim and payment.
THEOREM ApprovedIsPaid == DepositsSpec => []NoSilentLoss
<1>1. PayInv => NoSilentLoss
  BY DEF PayInv
<1> QED
  BY <1>1, PaymentInvariant, PTL

\* Without a late edit, the amount paid is the amount shown.
THEOREM PaidAsShown == DepositsSpec => []CreditShown
<1>1. PayInv => CreditShown
  BY DEF PayInv
<1> QED
  BY <1>1, PaymentInvariant, PTL

\* Both together: paid at most once, and as shown.
THEOREM PaidOnce == DepositsSpec => []PaidOnceAsShown
<1>1. CreditedOnce /\ CreditShown => PaidOnceAsShown
  BY DEF PaidOnceAsShown
<1> QED
  BY <1>1, PaidAtMostOnce, PaidAsShown, PTL

\* A reviewed request stays reviewed, and a target order as it was decided
\* first.
THEOREM DecisionAlwaysStands == DepositsSpec => DecisionStands
<1> DEFINE Stands(d) == \/ status'[d] = status[d]
                        \/ d \notin TargetOrders /\ status'[d] = "REJECTED"
<1>1. ASSUME DepositsTypeOK, [DepositsNext]_depositVars, NEW d \in Deposits, Decided(d) PROVE Stands(d)
  <2>1. ASSUME NEW r \in Reviews, ReviewStep(r) PROVE Stands(d)
    <3>1. CASE ClaimDeposit(r) \/ SaveRejection(r)
      BY <1>1, <3>1 DEF ClaimDeposit, Claimable, SaveRejection, Decision, Decided, DepositsTypeOK
    <3>2. CASE ApproveTarget(r) \/ RejectTarget(r)
      BY <1>1, <3>2 DEF ApproveTarget, RejectTarget, SwapTarget, Decided, DepositsTypeOK
    <3> QED
      BY <2>1, <3>1, <3>2 DEF ReviewStep, ReadDeposit, ReadTarget, CreditWallet, LoseApproval,
         SaveEdit, EditedStatus
  <2>2. CASE \E e \in Deposits : CreateDepositRequest(e) \/ CreateTargetOrder(e)
    BY <1>1, <2>2 DEF CreateDepositRequest, CreateTargetOrder, Decided, DepositsTypeOK
  <2> QED
    BY <1>1, <2>1, <2>2 DEF DepositsNext, CrashReviews, depositVars
<1>2. ASSUME DepositsTypeOK, [DepositsNext]_depositVars
      PROVE  [\A d \in Deposits : status[d] \in {"APPROVED", "REJECTED"} => Stands(d)]_depositVars
  BY <1>1, <1>2 DEF Decided
<1> QED
  BY <1>2, DepositsTypeCorrect, PTL DEF DepositsSpec, DecisionStands
=============================================================================
