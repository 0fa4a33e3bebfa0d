----------------------------- MODULE MCPlacement -----------------------------
(* Two orders of a product that two providers offer: exactly one of them is *)
(* behind the Royal Crown adapter, or they are a dealer and a provider       *)
(* without an adapter of its own, which the mock serves.                     *)
EXTENDS Placement, TLC

CONSTANTS o1, o2, pa, pb

MCInit ==
  /\ Init
  /\ \/ Cardinality({p \in Providers : kind[p] = "royalCrown"}) = 1
     \/ {kind[p] : p \in Providers} = {"dealer", "mock"}
MCSpec == MCInit /\ [][Next]_vars

\* Bounds: one of the two providers is switched off, or one of the two orders is
\* cut off or failed by the guard; and one order at most ends at its service
\* otherwise than completed.
Disturbed      == {o \in Orders : exec[o].pc \in {"cut", "guarded"}}
OneDisturbance == Cardinality(Disturbed) + Cardinality(Providers \ active) <= 1
OneIsSpecial   ==
  \A p, q \in Providers : \A m \in DOMAIN book[p], n \in DOMAIN book[q] :
    {book[p][m].state, book[q][n].state} \subseteq Final \ {"completed"} => <<p, m>> = <<q, n>>

Symmetries == Permutations(Orders) \cup Permutations(Providers)
=============================================================================
