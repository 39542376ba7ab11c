------------------------------ MODULE MCTrade ------------------------------
(* Each party has one row to trade, and there are up to three revisions.    *)
EXTENDS Trade
=============================================================================
