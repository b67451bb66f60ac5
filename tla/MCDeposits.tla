------------------------------ MODULE MCDeposits ------------------------------
(* Deposits on small instances: whom each log pays and what its amount fits. *)
EXTENDS Deposits, TLC

CONSTANTS wallet, direct1, direct2, pay1, pay2, sweep

(* pay1 pays the temporary wallet, everything else the treasury *)
Payees == [l \in Logs |-> IF l = pay1 THEN wallet ELSE Treasury]

(* All payments to the treasury pay it: no temporary wallet *)
ToTreasury == [l \in Logs |-> Treasury]

(* pay2 is within tolerance of the first direct request, pay1 (where it pays *)
(* the treasury) of both, a sweep of none.                                   *)
Amounts == [l \in Logs |-> IF l = pay2 THEN Direct \intersect {direct1}
                           ELSE IF l = pay1 THEN Direct ELSE {}]
===============================================================================
