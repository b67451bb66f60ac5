CONSTANTS
  t1 = t1
  t2 = t2
  w1 = w1
  w2 = w2
  Transfers = {t1, t2}
  Direct = {t2}
  Wallets = {w1, w2}
  WalletOf <- OwnWallet
  Worker = worker
  Owners = {}
  Faults = {"send", "lost", "revert"}
  MaxRetries = 0
  MaxAborts = 0
SPECIFICATION FairSpec
INVARIANTS
  SettlementReflectsAttempts
PROPERTIES
  EventuallySettled
  ConfirmedTopUpIsSwept
