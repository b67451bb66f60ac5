CONSTANTS
  t1 = t1
  t2 = t2
  w1 = w1
  w2 = w2
  Transfers = {t1}
  Direct = {}
  Wallets = {w1}
  WalletOf <- SharedWallet
  Worker = worker
  Owners = {owner}
  Faults = {"send", "revert"}
  MaxRetries = 1
  MaxAborts = 1
SPECIFICATION Spec
INVARIANTS
  AttemptHistory
  RowsMatchChain
  SettledBySweep
  NoDuplicateEvent
  EventsMatchRows

