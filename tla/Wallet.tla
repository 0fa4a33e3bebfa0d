------------------------------- MODULE Wallet -------------------------------
(***************************************************************************)
(* The embedded wallet of a user (User.walletBalance, creditLimit,         *)
(* creditUsed) and its append-only ledger (WalletTransaction), under       *)
(* concurrent callers of wallet.service.js and admin.wallet.service.js.    *)
(*                                                                         *)
(* A call is one invocation of one of those functions.  Its steps are the  *)
(* database operations it awaits, so everything between two awaits is one  *)
(* action.  Two families exist in the code:                                *)
(*   - Atomic: the new balance is computed inside one findOneAndUpdate;    *)
(*   - the others read the user, compute in JavaScript, and write the      *)
(*     absolute result back with $set.                                     *)
(* In both, the ledger record is a later, separate write, unless the call  *)
(* runs in a session, in which case the two commit together.               *)
(*                                                                         *)
(* Money is an integer number of cents: safeRound and $round are the       *)
(* identity on it, except in the percentage of a debt adjustment.          *)
(***************************************************************************)
EXTENDS Integers, FiniteSets, Folds

CONSTANTS
  Users,       \* the users whose wallets are modelled
  Calls,       \* identities of calls; each identity is used at most once
  Ops,         \* the operations that callers of this instance may invoke
  Amounts,     \* amounts of money passed by callers, in cents
  Targets,     \* balances an admin sets with setBalance
  Limits,      \* credit limits an admin sets
  Percents,    \* percentages of a bulk debt adjustment
  Opening,     \* the balance every wallet starts from
  OpeningLimit \* the credit limit every wallet starts from

AtomicOps == {"debit", "refund", "credit"}
BulkOps   == {"inflate", "deflate"}
SingleOps == {"forcedDebit", "addFunds", "deductFunds", "setBalance", "setLimit"}
AllOps    == AtomicOps \cup BulkOps \cup SingleOps

\* Operations the code documents as bypassing the overdraft floor, and the
\* one that moves the floor itself.
FloorOverrides == {"forcedDebit", "setBalance", "inflate", "setLimit"}

ASSUME OpsAssumption      == Ops \subseteq AllOps
ASSUME AmountsAssumption  == Amounts \subseteq Nat \ {0}
ASSUME TargetsAssumption  == Targets \subseteq Int
ASSUME LimitsAssumption   == Limits \subseteq Nat
ASSUME PercentsAssumption == Percents \subseteq 1..100
ASSUME OpeningAssumption  == /\ Opening \in Int
                             /\ OpeningLimit \in Nat
                             /\ Opening + OpeningLimit >= 0

VARIABLES
  balance,     \* User.walletBalance
  limit,       \* User.creditLimit
  used,        \* User.creditUsed
  active,      \* User.status = ACTIVE
  call,        \* the state of every call
  ledger,      \* WalletTransaction documents
  unrecorded,  \* history: entries applied to a balance, not yet in the ledger
  stale,       \* history: users overwritten from a read that was out of date
  overridden   \* history: users touched by an operation in FloorOverrides

vars == <<balance, limit, used, active, call, ledger, unrecorded, stale, overridden>>

-----------------------------------------------------------------------------
(* Values.                                                                 *)

Abs(n) == IF n < 0 THEN -n ELSE n
Least(a, b) == IF a < b THEN a ELSE b

CreditUsed_Unclamped(bal, lim) == IF lim <= 0 THEN 0 ELSE Least(-bal, lim)

\* The part of the credit line that a balance draws.
CreditUsed(bal, lim) == IF bal >= 0 \/ lim <= 0 THEN 0 ELSE Least(Abs(bal), lim)

\* percent of |bal|, rounded to the nearest cent, halves up.
Adjustment(bal, percent) == (2 * Abs(bal) * percent + 100) \div 200

Types == {"DEBIT", "REFUND", "CREDIT", "DEBT_ADJUSTMENT"}

Entries == [call: Calls, user: Users, type: Types,
            amount: Nat, before: Int, after: Int]

\* A debt adjustment is recorded with a positive amount in both directions;
\* its sign shows only in the two balances.
Signed(e) == CASE e.type \in {"CREDIT", "REFUND"} -> e.amount
               [] e.type = "DEBIT"                -> -e.amount
               [] OTHER -> IF e.after < e.before THEN -e.amount ELSE e.amount

Args(op) == CASE op = "setBalance" -> Targets
              [] op = "setLimit"   -> Limits
              [] op \in BulkOps    -> Percents
              [] OTHER             -> Amounts

PCs == {"idle", "apply", "read", "write", "record", "done", "failed", "dead"}

View == [bal: Int, lim: Nat, used: Nat]

\* What a call knows: its arguments, the users it still has to process, the
\* documents it has read, and its progress.
CallStates == [op: AllOps, arg: Int, session: BOOLEAN, todo: SUBSET Users,
               seen: [Users -> View], pc: PCs]

\* Atomic operations apply, the others read and write; arguments are what a
\* caller of the operation may pass.
CallsOK ==
  \A c \in Calls :
    /\ call[c].pc = "apply" => call[c].op \in AtomicOps
    /\ call[c].pc \in {"read", "write"} => call[c].op \notin AtomicOps
    /\ call[c].pc # "idle" => call[c].op \in Ops /\ call[c].arg \in Args(call[c].op)

TypeOK ==
  /\ balance \in [Users -> Int]
  /\ limit \in [Users -> Nat]
  /\ used \in [Users -> Nat]
  /\ active \in [Users -> BOOLEAN]
  /\ call \in [Calls -> CallStates]
  /\ ledger \subseteq Entries
  /\ unrecorded \subseteq Entries
  /\ stale \subseteq Users
  /\ overridden \subseteq Users
  /\ CallsOK

Init ==
  /\ balance = [u \in Users |-> Opening]
  /\ limit = [u \in Users |-> OpeningLimit]
  /\ used = [u \in Users |-> CreditUsed(Opening, OpeningLimit)]
  /\ active = [u \in Users |-> TRUE]
  /\ call = [c \in Calls |->
               [op |-> "debit", arg |-> 0, session |-> FALSE, todo |-> {},
                seen |-> [u \in Users |-> [bal |-> 0, lim |-> 0, used |-> 0]],
                pc |-> "idle"]]
  /\ ledger = {}
  /\ unrecorded = {}
  /\ stale = {}
  /\ overridden = {}

-----------------------------------------------------------------------------
(* Calls.                                                                  *)

Goto(c, pc) == call' = [call EXCEPT ![c].pc = pc]

\* A call starts.  A bulk adjustment addresses every user, and only the
\* operations of the order flow are ever passed a session.
Begin(c) ==
  /\ call[c].pc = "idle"
  /\ \E op \in Ops, u \in Users, s \in BOOLEAN :
       \E a \in Args(op) :
         /\ s => op \in {"debit", "refund"}
         /\ call' = [call EXCEPT ![c] =
                       [@ EXCEPT !.op = op, !.arg = a, !.session = s,
                                 !.todo = IF op \in BulkOps THEN Users ELSE {u},
                                 !.pc = IF op \in AtomicOps THEN "apply" ELSE "read"]]
  /\ UNCHANGED <<balance, limit, used, active, ledger, unrecorded, stale, overridden>>

EntryOf_ReadsNewDocument(c, u, type, amount, before, after) ==
  [call |-> c, user |-> u, type |-> type, amount |-> amount,
   before |-> after, after |-> after]

EntryOf(c, u, type, amount, before, after) ==
  [call |-> c, user |-> u, type |-> type, amount |-> amount,
   before |-> before, after |-> after]

-----------------------------------------------------------------------------
(* Atomic operations: one findOneAndUpdate on the user.                    *)

Affordable_IgnoresAmount(u, amount) == active[u] /\ balance[u] + limit[u] > 0

\* The filter of the debit's findOneAndUpdate.
Affordable(u, amount) == active[u] /\ balance[u] + limit[u] >= amount

\* The update pipeline: new balance, and the credit drawn recomputed from the
\* limit stored in the same document.  In a session the ledger record commits
\* with it; otherwise it is still to be written.
Apply(c, u, type, new) ==
  LET e == EntryOf(c, u, type, call[c].arg, balance[u], new) IN
  /\ balance' = [balance EXCEPT ![u] = new]
  /\ used' = [used EXCEPT ![u] = CreditUsed(new, limit[u])]
  /\ IF call[c].session
     THEN ledger' = ledger \cup {e} /\ Goto(c, "done") /\ UNCHANGED unrecorded
     ELSE unrecorded' = unrecorded \cup {e} /\ Goto(c, "record") /\ UNCHANGED ledger
  /\ UNCHANGED <<limit, active, stale, overridden>>

DebitWalletAtomic(c) ==
  /\ call[c].pc = "apply" /\ call[c].op = "debit"
  /\ \E u \in call[c].todo :
       \/ /\ Affordable(u, call[c].arg)
          /\ Apply(c, u, "DEBIT", balance[u] - call[c].arg)
       \/ /\ ~Affordable(u, call[c].arg)
          /\ Goto(c, "failed")
          /\ UNCHANGED <<balance, limit, used, active, ledger, unrecorded, stale, overridden>>

RefundWalletAtomic(c) ==
  /\ call[c].pc = "apply" /\ call[c].op = "refund"
  /\ \E u \in call[c].todo : Apply(c, u, "REFUND", balance[u] + call[c].arg)

CreditWalletDirect(c) ==
  /\ call[c].pc = "apply" /\ call[c].op = "credit"
  /\ \E u \in call[c].todo : Apply(c, u, "CREDIT", balance[u] + call[c].arg)

-----------------------------------------------------------------------------
(* Read, compute in JavaScript, write back.                                *)

Snapshot(u) == [bal |-> balance[u], lim |-> limit[u], used |-> used[u]]

\* The read.  deductFunds checks what it read against the amount; a bulk
\* adjustment keeps only the users in debt and stops when there are none.
ReadUsers(c) ==
  LET k    == call[c]
      rest == IF k.op \in BulkOps THEN {u \in k.todo : balance[u] < 0} ELSE k.todo
      pc   == IF k.op = "deductFunds" /\ \E u \in rest : k.arg > balance[u] + limit[u]
              THEN "failed"
              ELSE IF rest = {} THEN "done" ELSE "write"
  IN /\ k.pc = "read"
     /\ call' = [call EXCEPT ![c] =
                   [@ EXCEPT !.todo = rest, !.pc = pc,
                             !.seen = [u \in Users |-> Snapshot(u)]]]
     /\ UNCHANGED <<balance, limit, used, active, ledger, unrecorded, stale, overridden>>

\* The balance an operation computes from what it read.
Target(op, arg, seen) ==
  CASE op = "addFunds"                      -> seen.bal + arg
    [] op \in {"deductFunds", "forcedDebit"} -> seen.bal - arg
    [] op = "setBalance"                    -> arg
    [] op = "inflate"                       -> seen.bal - Adjustment(seen.bal, arg)
    [] OTHER                                -> seen.bal + Adjustment(seen.bal, arg)

RecordedType(op, before, after) ==
  CASE op = "addFunds"                      -> "CREDIT"
    [] op \in {"deductFunds", "forcedDebit"} -> "DEBIT"
    [] op = "setBalance" -> IF after >= before THEN "CREDIT" ELSE "DEBIT"
    [] OTHER                                -> "DEBT_ADJUSTMENT"

RecordedAmount_SetRecordsTarget(op, arg, before, after) ==
  CASE op \in {"addFunds", "deductFunds", "forcedDebit"} -> arg
    [] op = "setBalance" -> Abs(after)
    [] OTHER -> Abs(after - before)

RecordedAmount(op, arg, before, after) ==
  IF op \in {"addFunds", "deductFunds", "forcedDebit"} THEN arg ELSE Abs(after - before)

\* The bookkeeping of this model, not of the code: who was overwritten from
\* an outdated read, and whose floor was deliberately overridden.
NoteWrite(c, u) ==
  /\ stale' = IF call[c].seen[u] = Snapshot(u) THEN stale ELSE stale \cup {u}
  /\ overridden' = IF call[c].op \in FloorOverrides THEN overridden \cup {u} ELSE overridden

\* $set of the absolute balance, and of the credit drawn computed from the
\* limit that was read.
WriteBalance(c) ==
  LET k == call[c] IN
  /\ k.pc = "write" /\ k.op # "setLimit"
  /\ \E u \in k.todo :
       LET before == k.seen[u].bal
           after  == Target(k.op, k.arg, k.seen[u])
       IN /\ k.op \in BulkOps => Adjustment(before, k.arg) > 0
          /\ balance' = [balance EXCEPT ![u] = after]
          /\ used' = [used EXCEPT ![u] = CreditUsed(after, k.seen[u].lim)]
          /\ unrecorded' = unrecorded \cup
               {EntryOf(c, u, RecordedType(k.op, before, after),
                        RecordedAmount(k.op, k.arg, before, after), before, after)}
          /\ call' = [call EXCEPT ![c].todo = @ \ {u}, ![c].pc = "record"]
          /\ NoteWrite(c, u)
  /\ UNCHANGED <<limit, active, ledger>>

\* A debt too small to move by a cent is skipped.
SkipNegligible(c) ==
  LET k == call[c] IN
  /\ k.pc = "write" /\ k.op \in BulkOps
  /\ \E u \in k.todo :
       /\ Adjustment(k.seen[u].bal, k.arg) = 0
       /\ call' = [call EXCEPT ![c].todo = @ \ {u},
                               ![c].pc = IF k.todo = {u} THEN "done" ELSE "write"]
  /\ UNCHANGED <<balance, limit, used, active, ledger, unrecorded, stale, overridden>>

SaveLimit_KeepsUsed(c) ==
  LET k == call[c] IN
  /\ k.pc = "write" /\ k.op = "setLimit"
  /\ \E u \in k.todo :
       /\ limit' = [limit EXCEPT ![u] = k.arg]
       /\ NoteWrite(c, u)
  /\ Goto(c, "done")
  /\ UNCHANGED <<balance, used, active, ledger, unrecorded>>

\* Mongoose save(): only the paths that differ from the document read are
\* written, so an unchanged creditUsed stays as it is in the database.
SaveLimit(c) ==
  LET k == call[c] IN
  /\ k.pc = "write" /\ k.op = "setLimit"
  /\ \E u \in k.todo :
       LET drawn == CreditUsed(k.seen[u].bal, k.arg)
       IN /\ limit' = IF k.arg = k.seen[u].lim THEN limit ELSE [limit EXCEPT ![u] = k.arg]
          /\ used' = IF drawn = k.seen[u].used THEN used ELSE [used EXCEPT ![u] = drawn]
          /\ NoteWrite(c, u)
  /\ Goto(c, "done")
  /\ UNCHANGED <<balance, active, ledger, unrecorded>>

-----------------------------------------------------------------------------
(* The ledger record, account status, and a crash of the process.          *)

\* The schema refuses an amount below 0.01: the insert throws and the balance
\* keeps its new value.  A bulk adjustment goes on with the next user.
RecordTransaction(c) ==
  LET mine == {e \in unrecorded : e.call = c}
      valid == {e \in mine : e.amount >= 1}
  IN /\ call[c].pc = "record"
     /\ ledger' = ledger \cup valid
     /\ unrecorded' = unrecorded \ valid
     /\ Goto(c, IF call[c].todo # {} /\ call[c].op \in BulkOps THEN "write"
                ELSE IF valid = {} THEN "failed" ELSE "done")
     /\ UNCHANGED <<balance, limit, used, active, stale, overridden>>

\* An admin activates or rejects an account at any moment.
SetStatus(u) ==
  /\ active' = [active EXCEPT ![u] = ~@]
  /\ UNCHANGED <<balance, limit, used, call, ledger, unrecorded, stale, overridden>>

InFlight(c) == call[c].pc \in {"apply", "read", "write", "record"}

\* The process stops: every call in progress is lost, the database is kept.
Crash ==
  /\ \E c \in Calls : InFlight(c)
  /\ call' = [c \in Calls |-> IF InFlight(c) THEN [call[c] EXCEPT !.pc = "dead"] ELSE call[c]]
  /\ UNCHANGED <<balance, limit, used, active, ledger, unrecorded, stale, overridden>>

Step(c) ==
  \/ Begin(c)
  \/ DebitWalletAtomic(c)
  \/ RefundWalletAtomic(c)
  \/ CreditWalletDirect(c)
  \/ ReadUsers(c)
  \/ WriteBalance(c)
  \/ SkipNegligible(c)
  \/ SaveLimit(c)
  \/ RecordTransaction(c)

Next ==
  \/ \E c \in Calls : Step(c)
  \/ \E u \in Users : SetStatus(u)
  \/ Crash

Spec == Init /\ [][Next]_vars

-----------------------------------------------------------------------------
(* Properties.                                                             *)

EntriesFor(u) == {e \in ledger \cup unrecorded : e.user = u}

SumSigned(S) == MapThenFoldSet(+, 0, Signed, LAMBDA s : CHOOSE e \in s : TRUE, S)

\* Conservation.  Unless a read-modify-write overwrote a newer document, the
\* balance is the opening balance plus everything the ledger says, counting
\* the entries whose insert is still to come (or was lost to a crash or to
\* the schema's minimum): concurrent debits, refunds and credits never lose
\* each other's money.
BalanceExplained ==
  \A u \in Users \ stale : balance[u] = Opening + SumSigned(EntriesFor(u))

\* The balanceBefore / balanceAfter pairs of a user's entries form one walk
\* from the opening balance to the current one, whatever order the records
\* were inserted in: every balance is left as often as it is reached.  This
\* is what makes the ledger an audit trail of a concurrent wallet.
LedgerReplays ==
  \A u \in Users \ stale :
    LET es    == EntriesFor(u)
        seenB == {e.before : e \in es} \cup {e.after : e \in es} \cup {Opening, balance[u]}
        One(b) == IF b THEN 1 ELSE 0
    IN \A v \in seenB :
         Cardinality({e \in es : e.before = v}) - Cardinality({e \in es : e.after = v})
           = One(v = Opening) - One(v = balance[u])

\* The overdraft floor.  A wallet no override has touched never goes below
\* -(creditLimit), although deductFunds checks a balance that may be out of
\* date by the time it writes.
FloorHeld == \A u \in Users \ overridden : balance[u] >= -limit[u]

\* creditUsed is the reporting mirror of the balance and the limit: after
\* every write, in every interleaving without an outdated write.
CreditMirrors == \A u \in Users \ stale : used[u] = CreditUsed(balance[u], limit[u])
=============================================================================
