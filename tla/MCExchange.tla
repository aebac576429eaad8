----------------------------- MODULE MCExchange -----------------------------
(* Exchange with a few accounts, prices and requests. *)
EXTENDS Exchange, TLC

AccountSymmetry == Permutations(Accounts)
=============================================================================
