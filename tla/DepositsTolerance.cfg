CONSTANTS
  wallet = wallet
  direct1 = direct1
  direct2 = direct2
  pay1 = pay1
  pay2 = pay2
  sweep = sweep
  Requests = {wallet, direct1}
  Direct = {direct1}
  Logs = {pay1, sweep}
  Sweeps = {}
  Recipient <- Payees
  Treasury = treasury
  Fits <- Amounts
  Worker = worker
  Owners = {}
  MaxScan = 2
  MaxHead = 3
  MaxAborts = 0
SPECIFICATION Spec
INVARIANTS
  OutOfToleranceIsReviewed
