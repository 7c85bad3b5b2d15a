\* Two requests at a time.
SPECIFICATION Spec
CONSTANTS
  r1 = r1  r2 = r2  None = None
  MaxInt = 536870911
  User = {1, 2}
  GlobalAdmin = {}
  Creator = 1
  Request = {r1, r2}
  Amount = {3, 4}
  Shares <- EqualOrNamed
  Day = {1, 2}
  Dates <- ShortOrLong
  MaxRow = 3
  MaxExpense = 1
SYMMETRY Requests
INVARIANTS TypeOK NothingSlipsPast PayersAreApproved PartiesStay AdminsAreApproved AuditExplainsTotal ClosedSummaryIsFrozen
PROPERTIES ImplementsLedger
\* A settled group whose last admin was removed accepts no further request.
CHECK_DEADLOCK FALSE
