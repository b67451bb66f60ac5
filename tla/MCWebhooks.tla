------------------------------ MODULE MCWebhooks ------------------------------
(* Webhooks on small instances: types and callback overrides of the events.  *)
EXTENDS Webhooks, TLC

CONSTANTS e1, e2, e3

TypesOf == [e \in Events |-> IF e = e1 THEN "wallet.created" ELSE "transfer.detected"]

(* No request of the API has a secret of its own (Requests), so no event here *)
(* has one either.                                                            *)
Overrides == [e \in Events |-> IF e = e1 THEN "url" ELSE "none"]
===============================================================================
