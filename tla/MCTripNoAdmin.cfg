\* A removal races a transfer of the admin role.
SPECIFICATION Spec
CONSTANTS
  r1 = r1  r2 = r2  None = None
  MaxInt = 536870911
  User = {1, 2}
  GlobalAdmin = {}
  Creator = 1
  Request = {r1, r2}
  Amount = {3}
  Shares <- EqualOrNamed
  Day = {1}
  Dates <- OneDay
  MaxRow = 2
  MaxExpense = 0
INVARIANTS OneAdmin
