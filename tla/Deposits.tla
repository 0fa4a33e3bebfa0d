------------------------------ MODULE Deposits ------------------------------
(***************************************************************************)
(* Deposit requests and their review (deposit.service.js): a customer      *)
(* files a request, administrators approve, reject and edit it at the same *)
(* time, and an approval credits the customer's wallet.                    *)
(*                                                                         *)
(* Every review reads the request first and checks that it is PENDING.     *)
(* An approval then claims it by a compare-and-swap on the status and pays *)
(* in a separate step; a rejection and an edit write back what they        *)
(* changed of the document they read, without looking at the status again. *)
(* DepositAmounts are those of the request's own currency: the conversion into    *)
(* the wallet's currency, which can fail after the claim, is one of the    *)
(* ways an approval is lost.                                               *)
(*                                                                         *)
(* Target orders (target.service.js) are requests of a second kind: the    *)
(* customer has paid outside the system, so that both of their decisions   *)
(* are one compare-and-swap each, nothing is credited and nothing edited.  *)
(*                                                                         *)
(* The names that Wallet has too are prefixed, so that one module can      *)
(* extend both.                                                            *)
(***************************************************************************)
EXTENDS Integers, FiniteSets

CONSTANTS
  Deposits,       \* the requests: deposits and target orders
  TargetOrders,   \* those that are target orders
  Reviews,        \* identities of administrators' calls, each used once
  DepositAmounts, \* amounts a customer requests or an administrator sets
  MaxFaults,      \* bound: approvals whose payment throws
  MaxCrashes,     \* bound: crashes of the process
  Nothing         \* "no deposit", "no override", "no reviewer"

ASSUME DepositAmountsAssumption ==
  DepositAmounts \subseteq Nat \ {0} /\ Nothing \notin DepositAmounts
ASSUME TargetOrdersAssumption   == TargetOrders \subseteq Deposits
ASSUME NamesAssumption          == Nothing \notin Deposits /\ Nothing \notin Reviews
ASSUME ReviewsAssumption        == IsFiniteSet(Reviews)
ASSUME BoundAssumption          == MaxFaults \in Nat /\ MaxCrashes \in Nat

VARIABLES
  status,   \* DepositRequest.status, TargetOrder.status; NONE before the request is filed
  amount,   \* DepositRequest.requestedAmount, TargetOrder.totalPrice
  review,   \* the administrators' calls
  credits,  \* how often creditWalletDirect paid for the request
  paidOut,  \* the amount it was last called with
  faults,   \* bound: payments that threw so far
  crashes,  \* bound: crashes so far
  stranded, \* history: claimed requests whose approval was cut off
  edited    \* history: requests edited after the approval that claimed
            \* them had read them

depositVars ==
  <<status, amount, review, credits, paidOut, faults, crashes, stranded, edited>>

Statuses == {"NONE", "PENDING", "APPROVED", "REJECTED"}
ReviewOps == {"approve", "reject", "edit"}

\* seen: the amount in the document that was read; set: the amount the
\* administrator asks for, if any.
ReviewStates ==
  [pc: {"idle", "read", "claimed", "done", "refused", "lost"},
   op: ReviewOps, deposit: Deposits \cup {Nothing},
   seen: DepositAmounts \cup {Nothing}, set: DepositAmounts \cup {Nothing}]

\* A review that goes on has read a request that was filed; an edit always
\* asks for an amount.
ReviewOK(k) ==
  /\ k.pc \in {"read", "claimed"} =>
       k.deposit \in Deposits /\ k.seen \in DepositAmounts /\ status[k.deposit] # "NONE"
  /\ k.pc = "claimed" => k.op = "approve"
  /\ k.pc = "read" /\ k.op = "edit" => k.set \in DepositAmounts

DepositsTypeOK ==
  /\ status \in [Deposits -> Statuses]
  /\ amount \in [Deposits -> DepositAmounts \cup {Nothing}]
  /\ review \in [Reviews -> ReviewStates]
  /\ credits \in [Deposits -> Nat]
  /\ paidOut \in [Deposits -> DepositAmounts \cup {Nothing}]
  /\ faults \in Nat
  /\ crashes \in Nat
  /\ stranded \subseteq Deposits
  /\ edited \subseteq Deposits
  /\ \A d \in Deposits : status[d] # "NONE" => amount[d] \in DepositAmounts
  /\ \A r \in Reviews : ReviewOK(review[r])

DepositsInit ==
  /\ status = [d \in Deposits |-> "NONE"]
  /\ amount = [d \in Deposits |-> Nothing]
  /\ review = [r \in Reviews |-> [pc |-> "idle", op |-> "approve", deposit |-> Nothing,
                                  seen |-> Nothing, set |-> Nothing]]
  /\ credits = [d \in Deposits |-> 0]
  /\ paidOut = [d \in Deposits |-> Nothing]
  /\ faults = 0
  /\ crashes = 0
  /\ stranded = {}
  /\ edited = {}

-----------------------------------------------------------------------------
ReviewGoes(r, pc) == review' = [review EXCEPT ![r].pc = pc]

\* createDepositRequest.
CreateDepositRequest(d) ==
  /\ d \notin TargetOrders
  /\ status[d] = "NONE"
  /\ \E n \in DepositAmounts : amount' = [amount EXCEPT ![d] = n]
  /\ status' = [status EXCEPT ![d] = "PENDING"]
  /\ UNCHANGED <<review, credits, paidOut, faults, crashes, stranded, edited>>

\* createTargetOrder: the price is a snapshot of the app's at this moment.  An
\* unknown or inactive app, one without a price and a method it does not
\* accept refuse the order and write nothing.
CreateTargetOrder(d) ==
  /\ d \in TargetOrders
  /\ status[d] = "NONE"
  /\ \E n \in DepositAmounts : amount' = [amount EXCEPT ![d] = n]
  /\ status' = [status EXCEPT ![d] = "PENDING"]
  /\ UNCHANGED <<review, credits, paidOut, faults, crashes, stranded, edited>>

\* The read that opens approveDeposit, rejectDeposit and
\* updatePendingDeposit, and its check.
ReadDeposit(r, d) ==
  /\ d \notin TargetOrders
  /\ review[r].pc = "idle"
  /\ status[d] # "NONE"
  /\ \E op \in ReviewOps, n \in DepositAmounts \cup {Nothing} :
       /\ op = "reject" => n = Nothing
       /\ op = "edit" => n # Nothing
       /\ review' = [review EXCEPT ![r] =
                       [pc |-> IF status[d] = "PENDING" THEN "read" ELSE "refused",
                        op |-> op, deposit |-> d, seen |-> amount[d], set |-> n]]
  /\ UNCHANGED <<status, amount, credits, paidOut, faults, crashes, stranded, edited>>

\* The read that opens approveTargetOrder and rejectTargetOrder, and its
\* check: an administrator sets no amount.
ReadTarget(r, d) ==
  /\ d \in TargetOrders
  /\ review[r].pc = "idle"
  /\ status[d] # "NONE"
  /\ \E op \in {"approve", "reject"} :
       review' = [review EXCEPT ![r] =
                    [pc |-> IF status[d] = "PENDING" THEN "read" ELSE "refused",
                     op |-> op, deposit |-> d, seen |-> amount[d], set |-> Nothing]]
  /\ UNCHANGED <<status, amount, credits, paidOut, faults, crashes, stranded, edited>>

\* An administrator's amount takes priority over the one that was read.
FinalAmount(k) == IF k.set # Nothing THEN k.set ELSE k.seen

Decision_CopyPasted(op) == "APPROVED"
Decision_Credited(op) == IF op = "approve" THEN "CREDITED" ELSE "REJECTED"

\* The status a review writes.
Decision(op) == IF op = "approve" THEN "APPROVED" ELSE "REJECTED"

ClaimedAmount_NotPersisted(k) == amount

\* An approval persists an overriding amount with the claim.
ClaimedAmount(k) ==
  IF k.set # Nothing THEN [amount EXCEPT ![k.deposit] = k.set] ELSE amount

Claimable_Any(d) == TRUE

\* The filter of the compare-and-swap.
Claimable(d) == status[d] = "PENDING"

ClaimDeposit(r) ==
  LET k == review[r]
      d == k.deposit
  IN /\ k.pc = "read" /\ k.op = "approve" /\ d \notin TargetOrders
     /\ IF Claimable(d)
        THEN /\ status' = [status EXCEPT ![d] = Decision(k.op)]
             /\ amount' = ClaimedAmount(k)
             /\ edited' = IF k.set = Nothing /\ amount[d] # k.seen
                          THEN edited \cup {d} ELSE edited
             /\ ReviewGoes(r, "claimed")
        ELSE ReviewGoes(r, "refused") /\ UNCHANGED <<status, amount, edited>>
     /\ UNCHANGED <<credits, paidOut, faults, crashes, stranded>>

\* creditWalletDirect.
CreditWallet(r) ==
  LET k == review[r] IN
  /\ k.pc = "claimed"
  /\ credits' = [credits EXCEPT ![k.deposit] = @ + 1]
  /\ paidOut' = [paidOut EXCEPT ![k.deposit] = FinalAmount(k)]
  /\ ReviewGoes(r, "done")
  /\ UNCHANGED <<status, amount, faults, crashes, stranded, edited>>

\* A read of the customer, a conversion rate that is missing or inactive, an
\* amount that converts to nothing, or the credit itself throws: the claim
\* stays.
LoseApproval(r) ==
  /\ review[r].pc = "claimed"
  /\ faults < MaxFaults
  /\ faults' = faults + 1
  /\ stranded' = stranded \cup {review[r].deposit}
  /\ ReviewGoes(r, "lost")
  /\ UNCHANGED <<status, amount, credits, paidOut, crashes, edited>>

\* rejectDeposit saves its decision over whatever the document has become.
SaveRejection(r) ==
  LET k == review[r] IN
  /\ k.pc = "read" /\ k.op = "reject" /\ k.deposit \notin TargetOrders
  /\ status' = [status EXCEPT ![k.deposit] = Decision(k.op)]
  /\ ReviewGoes(r, "done")
  /\ UNCHANGED <<amount, credits, paidOut, faults, crashes, stranded, edited>>

EditedStatus_WholeDocument(k) == [status EXCEPT ![k.deposit] = "PENDING"]

\* save() writes the paths that were changed: never the status.
EditedStatus(k) == status

\* updatePendingDeposit saves its amount over whatever the document has
\* become; an amount equal to the one read is not a change.
SaveEdit(r) ==
  LET k == review[r] IN
  /\ k.pc = "read" /\ k.op = "edit" /\ k.deposit \notin TargetOrders
  /\ amount' = IF k.set = k.seen THEN amount ELSE [amount EXCEPT ![k.deposit] = k.set]
  /\ status' = EditedStatus(k)
  /\ edited' = IF status[k.deposit] = "PENDING" THEN edited ELSE edited \cup {k.deposit}
  /\ ReviewGoes(r, "done")
  /\ UNCHANGED <<credits, paidOut, faults, crashes, stranded>>

SwapTarget_Saves(r, d, s) == status' = [status EXCEPT ![d] = s] /\ ReviewGoes(r, "done")

\* The compare-and-swap of a target order's decision: there is nothing left
\* to do after it, and nothing to lose.
SwapTarget(r, d, s) ==
  IF status[d] = "PENDING"
  THEN status' = [status EXCEPT ![d] = s] /\ ReviewGoes(r, "done")
  ELSE UNCHANGED status /\ ReviewGoes(r, "refused")

ApproveTarget(r) ==
  LET k == review[r] IN
  /\ k.pc = "read" /\ k.op = "approve" /\ k.deposit \in TargetOrders
  /\ SwapTarget(r, k.deposit, "APPROVED")
  /\ UNCHANGED <<amount, credits, paidOut, faults, crashes, stranded, edited>>

RejectTarget(r) ==
  LET k == review[r] IN
  /\ k.pc = "read" /\ k.op = "reject" /\ k.deposit \in TargetOrders
  /\ SwapTarget(r, k.deposit, "REJECTED")
  /\ UNCHANGED <<amount, credits, paidOut, faults, crashes, stranded, edited>>

\* The process stops.  What a review had claimed stays claimed.
CrashReviews ==
  /\ crashes < MaxCrashes
  /\ crashes' = crashes + 1
  /\ review' = [r \in Reviews |->
                  IF review[r].pc \in {"read", "claimed"}
                  THEN [review[r] EXCEPT !.pc = "lost"] ELSE review[r]]
  /\ stranded' = stranded \cup
       {d \in Deposits : \E r \in Reviews : review[r].pc = "claimed" /\ review[r].deposit = d}
  /\ UNCHANGED <<status, amount, credits, paidOut, faults, edited>>

ReviewStep(r) ==
  \/ \E d \in Deposits : ReadDeposit(r, d)
  \/ ClaimDeposit(r) \/ CreditWallet(r) \/ LoseApproval(r)
  \/ SaveRejection(r) \/ SaveEdit(r)
  \/ \E d \in Deposits : ReadTarget(r, d)
  \/ ApproveTarget(r) \/ RejectTarget(r)

DepositsNext ==
  \/ \E d \in Deposits : CreateDepositRequest(d) \/ CreateTargetOrder(d)
  \/ \E r \in Reviews : ReviewStep(r)
  \/ CrashReviews

DepositsSpec == DepositsInit /\ [][DepositsNext]_depositVars

-----------------------------------------------------------------------------
(* Properties.                                                             *)

\* However many administrators approve, reject and edit a request at the
\* same time, and wherever the process stops, it is paid at most once.
CreditedOnce == \A d \in Deposits : credits[d] <= 1

\* A request that reads APPROVED has been paid, is being paid, or lost its
\* approval after the claim to a failure or a crash; nothing else makes an
\* approval go unpaid.
Claimants(d) == {r \in Reviews : review[r].pc = "claimed" /\ review[r].deposit = d}

NoSilentLoss ==
  \A d \in Deposits \ TargetOrders :
    status[d] = "APPROVED" => credits[d] > 0 \/ Claimants(d) # {} \/ d \in stranded

\* A reviewed request never becomes PENDING again, so that no stale write of
\* an editor lets it be approved, and paid, a second time; and of the
\* decisions on a target order that overtake each other the first one stands
\* (on a deposit a rejection may still overwrite an approval).
DecisionStands ==
  [][\A d \in Deposits : status[d] \in {"APPROVED", "REJECTED"}
                          => \/ status'[d] = status[d]
                             \/ d \notin TargetOrders /\ status'[d] = "REJECTED"]_depositVars

\* The amount that was paid is the amount the request shows, unless an edit
\* was saved between the approver's read and the claim, or after it.
CreditShown ==
  \A d \in Deposits \ edited : credits[d] > 0 => paidOut[d] = amount[d]

\* The payment of a request in one statement: at most one, of the amount shown.
PaidOnceAsShown == CreditedOnce /\ CreditShown
=============================================================================
