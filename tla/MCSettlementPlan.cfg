\* Four members: one expense split in every way, two equal or subset splits,
\* and an expense of every member split equally.
SPECIFICATION Spec
CONSTANTS
  MaxInt = 536870911
  Member = {2, 3, 5, 8}
  Amounts = {1, 2, 5, 6, 9, 13}
  FewAmounts = {2, 5}
  MaxWeight = 3
  Ledgers <- MixedLedgers
INVARIANTS TypeOK SharesSumToTotal WithinOneBaisa EqualWeightsAreFair TransfersAreDebts AtMostNMinusOne PairsAreDistinct PlanReconciles PlanIsDetermined
