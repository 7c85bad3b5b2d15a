\* One request at a time.
SPECIFICATION Spec
CONSTANTS
  r1 = r1  r2 = r2  None = None
  MaxInt = 536870911
  User = {1, 2, 3}
  GlobalAdmin = {3}
  Creator = 1
  Request = {r1}
  Amount = {3}
  Shares <- EqualOrNamed
  Day = {1}
  Dates <- OneDay
  MaxRow = 3
  MaxExpense = 2
INVARIANTS OneAdmin SharersAreApproved SnapshotReconciles
