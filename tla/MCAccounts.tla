----------------------------- MODULE MCAccounts -----------------------------
(* Accounts on small instances. *)
EXTENDS Accounts, TLC

CONSTANTS u1, r1, r2

RequestSymmetry == Permutations(Requests)
=============================================================================
