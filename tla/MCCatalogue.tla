----------------------------- MODULE MCCatalogue -----------------------------
(* The catalogue on small instances: one provider with two items, whose      *)
(* price list has three versions, and one or two products.                   *)
EXTENDS Catalogue, TLC

CONSTANTS w1, w2, p1, i1, i2, g1, g2, s1, s2, o1, o2, a1, a2

Free    == [type |-> "fixed", value |-> 0]
Plus    == [type |-> "fixed", value |-> 1]
Double  == [type |-> "percentage", value |-> 100]

Listed(price, on) == [listed |-> TRUE, price |-> price, on |-> on]
Unlisted          == [listed |-> FALSE, price |-> 0, on |-> FALSE]

MCMarkups   == {Free, Plus}
OneMarkup == {Plus}
NoPatches == {}
OneSupplier == (i1 :> p1) @@ (i2 :> p1)
TwoLists    == (i1 :> <<Listed(2, TRUE), Listed(3, TRUE)>>) @@
               (i2 :> <<Listed(1, TRUE), Unlisted>>)
ThreeLists  == (i1 :> <<Listed(2, TRUE), Listed(3, FALSE), Listed(1, TRUE)>>) @@
               (i2 :> <<Listed(1, TRUE), Unlisted, Unlisted>>)
OneItem     == (i1 :> p1)
OneItemList == (i1 :> <<Listed(2, TRUE), Listed(3, TRUE), Listed(1, TRUE)>>)
TwoPrices == (i1 :> <<Listed(2, TRUE), Listed(3, TRUE)>>)

Keep == [item |-> None, mode |-> None, flag |-> "keep", markup |-> None, base |-> None,
         adj |-> None]
SomePatches == {[Keep EXCEPT !.markup = Free], [Keep EXCEPT !.mode = "manual", !.base = 1],
                [Keep EXCEPT !.flag = "on"], [Keep EXCEPT !.adj = -1],
                [Keep EXCEPT !.item = i2]}

OneWorker  == [x \in Syncs \cup Orders |-> w1]
TwoWorkers == [x \in Syncs \cup Orders |-> IF x \in {s1, o1} THEN w1 ELSE w2]

RequestSymmetry == Permutations(Syncs) \cup Permutations(Orders)
=============================================================================
