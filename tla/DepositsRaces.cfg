CONSTANTS
  wallet = wallet
  direct1 = direct1
  direct2 = direct2
  pay1 = pay1
  pay2 = pay2
  sweep = sweep
  Requests = {wallet, direct1}
  Direct = {direct1}
  Logs = {pay1, pay2, sweep}
  Sweeps = {sweep}
  Recipient <- Payees
  Treasury = treasury
  Fits <- Amounts
  Worker = worker
  Owners = {owner}
  MaxScan = 2
  MaxHead = 2
  MaxAborts = 1
SPECIFICATION Spec
INVARIANTS
  TypeOK
  NothingAnnouncedTwice
  AnnouncementsStayTrue
  NothingLost
  CreditedIsReviewed
PROPERTIES
  KeepsCredits
