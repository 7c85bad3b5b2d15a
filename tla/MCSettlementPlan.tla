-------------------------- MODULE MCSettlementPlan --------------------------
(***************************************************************************)
(* Small ledgers for SettlementPlan.                                       *)
(***************************************************************************)
EXTENDS SettlementPlan

CONSTANTS
  Amounts,      \* the amounts an expense may have
  FewAmounts,   \* ... when the ledger has several expenses
  MaxWeight     \* the largest weight of a share

Expenses(amounts, weights) ==
  [paidBy : Member, amount : amounts,
   shares : UNION {[S -> weights] : S \in SUBSET Member}]

\* One expense, split in every way.
OneExpense == [{1} -> Expenses(Amounts, 1..MaxWeight)]

\* Two expenses, each equal among some or all of the members.
TwoExpenses == [1..2 -> Expenses(FewAmounts, {1})]

\* Every member has paid one amount, and all are split equally: several
\* debtors against several creditors.
Equal(u, a) == [paidBy |-> u, amount |-> a, shares |-> << >>]

EqualLedgers == {<<Equal(2, a), Equal(3, b), Equal(5, c), Equal(8, d)>> :
                   a, b, c, d \in Amounts}

MixedLedgers == {<< >>} \cup OneExpense \cup TwoExpenses \cup EqualLedgers
=============================================================================
