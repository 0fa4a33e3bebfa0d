----------------------------- MODULE MCDeposits -----------------------------
(* Deposits on a small instance: two deposits, a target order and three    *)
(* reviews, enough for a decision to be overtaken by another one or by an  *)
(* edit between its read and its write, and between claim and payment.     *)
EXTENDS Deposits, TLC

CONSTANTS d1, d2, t1, r1, r2, r3

MCDeposits  == {d1, d2, t1}
MCTargets   == {t1}
MCReviews   == {r1, r2, r3}
MCAmounts   == {1, 2}
MCSymmetry  == Permutations(MCReviews) \cup Permutations(MCDeposits \ MCTargets)
=============================================================================
