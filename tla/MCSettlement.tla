----------------------------- MODULE MCSettlement -----------------------------
(* Settlement on small instances: which wallet each transfer pays into.      *)
EXTENDS Settlement, TLC

CONSTANTS t1, t2, w1, w2

(* Two payments to one address, the case the sweep of a whole balance makes  *)
(* interesting, and one address each, the normal case.                       *)
SharedWallet == [t \in Transfers |-> w1]
OwnWallet == [t \in Transfers |-> IF t = t1 THEN w1 ELSE w2]

(* The transfers of one wallet are interchangeable.                          *)
Symmetry == Permutations(Transfers)
===============================================================================
