---------------------------- MODULE OrderAccount ----------------------------
(***************************************************************************)
(* What the order engine promises about the money behind an order, and     *)
(* nothing else: an order is paid when it is created; money flows back at  *)
(* most once for every time it was taken; an administrator who forces the  *)
(* completion of an order takes its full price again.                      *)
(***************************************************************************)
EXTENDS Integers

CONSTANTS
  Orders,    \* the orders paid with money
  FullPrice  \* what each of them costs, a positive number of cents

VARIABLE paid   \* paid[o]: what the customer has paid for o, net of refunds

Init == paid = [o \in Orders |-> FullPrice]

\* A full or a partial refund, never of more than what was paid.
Refund(o, amount) ==
  /\ amount <= paid[o]
  /\ paid' = [paid EXCEPT ![o] = @ - amount]

\* A forced completion takes the price again, unconditionally.
ReDebit(o) == paid' = [paid EXCEPT ![o] = @ + FullPrice]

Next ==
  \E o \in Orders :
    \/ \E amount \in 1..FullPrice : Refund(o, amount)
    \/ ReDebit(o)

Spec == Init /\ [][Next]_paid
=============================================================================
