-------------------------- MODULE MCOrderLifecycle --------------------------
(* OrderLifecycle on small instances: an automatic order, a manual one and *)
(* a manual one paid from a quota under every kind of actor and failure,   *)
(* or two automatic orders in one polling batch.                           *)
EXTENDS OrderLifecycle, TLC

CONSTANTS o1, o2, o3, a1, a2

TwoOrders == {o1, o2}
Third     == {o3}
ThreeOrders == {o1, o2, o3}
OneAdmin  == {a1}
TwoAdmins == {a1, a2}
SecondThird == {o2, o3}
Nobody    == {}

\* Bound of the liveness run: the provider is switched off and on only before an
\* administrator acts.  Neither is a step that fairness speaks of.
Calm == active' \/ \A a \in Admins : admin'[a].pc = "idle"

AdminSymmetry == Permutations(Admins)
=============================================================================
