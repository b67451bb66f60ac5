CONSTANTS
  t1 = t1
  t2 = t2
  w1 = w1
  w2 = w2
  Transfers = {t1, t2}
  Direct = {}
  Wallets = {w1}
  WalletOf <- SharedWallet
  Worker = worker
  Owners = {}
  Faults = {"db", "revert", "config", "treasury"}
  MaxRetries = 0
  MaxAborts = 1
SPECIFICATION Spec
SYMMETRY Symmetry
INVARIANTS
  SettledFundsLeft
  OneInFlight
PROPERTIES
  FailureNeedsOwner
