------------------------------ MODULE MCRequests ------------------------------
(* Requests on small instances: what the calls carry.                        *)
EXTENDS Requests, TLC

CONSTANTS c1, c2, c3, c4, n1, n2, n3, k1, client1, client2

(* Bodies a and b are of one client, d is of another.                        *)
ClientsOf == [b \in Bodies |-> IF b \in {"a", "b"} THEN client1 ELSE client2]

(* A call and its retry with the same key and body, a call of the same       *)
(* client without a key, and one that uses the key with another body and the *)
(* nonce of the first.                                                       *)
BodiesOf == [c \in Calls |-> CASE c \in {c1, c2} -> "a" [] c = c3 -> "b" [] c = c4 -> "d"]
KeysOf == [c \in Calls |-> IF c = c3 THEN NoKey ELSE k1]
NoncesOf == [c \in Calls |-> CASE c \in {c1, c4} -> n1 [] c = c2 -> n2 [] c = c3 -> n3]

WalletsWanted == [b \in Bodies |-> IF b = "d" THEN 2 ELSE 0]

(* The owner may switch the events of direct requests off, and may come to   *)
(* allow a client more than one request.                                     *)
PreferencesChosen == {{"wallet.created", "direct_deposit.created"}, {"wallet.created"}}
SettingsChosen == [strict : {TRUE}, config : BOOLEAN, enabled : PreferencesChosen]
===============================================================================
