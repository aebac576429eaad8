---------------------------- MODULE MCOrderBook ----------------------------
(* OrderBook and its queries: the users are interchangeable for safety runs. *)
EXTENDS OrderBookQueries

UserSymmetry == Permutations(Users)
=============================================================================
