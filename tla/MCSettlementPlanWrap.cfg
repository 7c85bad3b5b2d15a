\* Amounts whose product with a weight fits the integers, and one whose does not.
SPECIFICATION Spec
CONSTANTS
  MaxInt = 31
  Member = {2, 4}
  Amounts = {10, 15}
  FewAmounts = {10}
  MaxWeight = 3
  Ledgers <- OneExpense
INVARIANTS SharesSumToTotal
