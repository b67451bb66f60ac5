------------------------------ MODULE MCDashboard ------------------------------
(* Dashboard on a small instance: two wallet transactions, whose refreshes   *)
(* may overlap each other and one of the page.                               *)
EXTENDS Dashboard, TLC

CONSTANTS c1, c2, c3, p1
===============================================================================
