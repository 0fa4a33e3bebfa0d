-------------------------- MODULE MCOrderCreation --------------------------
(* OrderCreation on a small instance: one customer sends the same request  *)
(* twice with a key, and a third one without a key; the second and the     *)
(* third are for an automatic product.  All three deployments are tried.   *)
(* SentKeyless sends all three without a key.                              *)
EXTENDS OrderCreation

CONSTANTS r1, r2, r3, u1, k1, n1, n2

ThreeRequests == {r1, r2, r3}
TwoAutomatic  == {r2, r3}
OneUser       == {u1}
SentBy        == [r \in ThreeRequests |-> u1]
SentKeyless   == [r \in ThreeRequests |-> NoKey]
SentWith      == [r \in ThreeRequests |-> IF r = r3 THEN NoKey ELSE k1]
TwoNumbers    == {n1, n2}
AnyDeployment == {"replicaSet", "standalone", "misdetected"}
=============================================================================
