CONSTANTS
  wallet = wallet
  direct1 = direct1
  direct2 = direct2
  pay1 = pay1
  pay2 = pay2
  sweep = sweep
  Requests = {direct1, direct2}
  Direct = {direct1, direct2}
  Logs = {pay1}
  Sweeps = {}
  Recipient <- ToTreasury
  Treasury = treasury
  Fits <- Amounts
  Worker = worker
  Owners = {owner}
  MaxScan = 1
  MaxHead = 1
  MaxAborts = 1
SPECIFICATION FairSpec
PROPERTIES
  DirectIsSettled
  PaymentIsAnnounced
  ExpiryIsAnnounced
