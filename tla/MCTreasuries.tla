----------------------------- MODULE MCTreasuries -----------------------------
(* Treasuries on a small instance: three addresses, two calls at a time.     *)
EXTENDS Treasuries, TLC

CONSTANTS a1, a2, a3, o1, o2
===============================================================================
