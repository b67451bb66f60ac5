------------------------------- MODULE MCStores -------------------------------
(* Stores on a small instance: every table, three rows.                      *)
EXTENDS Stores, TLC

CONSTANTS i1, i2, i3, m1, m2, k1, k2

AllTables ==
  {"merchants", "merchant_api_keys", "request_nonces", "webhook_configs",
   "notification_preferences", "idempotency_keys", "operational_wallets",
   "treasury_wallets", "deposit_addresses", "chain_cursors", "token_transfers",
   "treasury_transfers", "gas_top_ups", "sweeps", "wallet_transactions",
   "webhook_events"}

(* Which key, merchant or id a row has does not matter, only whether two     *)
(* rows have the same.                                                       *)
Symmetry == Permutations(Ids) \union Permutations(Merchants) \union Permutations(Keys)
===============================================================================
