------------------------------ MODULE MCWallet ------------------------------
(* Wallet on a small instance: three concurrent calls on one wallet.       *)
EXTENDS Wallet, TLC

CONSTANTS c1, c2, c3, u1

MCUsers    == {u1}
MCCalls    == {c1, c2, c3}
MCOps      == AllOps
MCAmounts  == {2}
MCTargets  == {-1, 2}
MCLimits   == {0, 3}
MCPercents == {20, 50}
MCSymmetry == Permutations(MCCalls)
=============================================================================
