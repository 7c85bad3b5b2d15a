--------------------------- MODULE SettlementPlan ---------------------------
(***************************************************************************)
(* The settlement of one group as a computation: the balances of a ledger, *)
(* then the loop of computePlan, one action per turn.                      *)
(***************************************************************************)
EXTENDS Settlement

CONSTANTS
  Member,   \* the approved members, a finite set of user ids
  Ledgers   \* the sequences of expenses the group may close with

ASSUME LedgerAssumption ==
  /\ IsFiniteSet(Member)
  /\ Member \subseteq Nat
  /\ \A l \in Ledgers : Balances(Member, l) \in [Member -> -MaxInt..MaxInt]

VARIABLES
  ledger,     \* the expenses
  net,        \* the balances they leave
  debtors,    \* the accounts not yet even, largest first
  creditors,
  plan        \* the transfers so far

vars == <<ledger, net, debtors, creditors, plan>>

Init ==
  /\ ledger \in Ledgers
  /\ net = Balances(Member, ledger)
  /\ \E q \in SortedDebtors(net) : debtors = Accounts(q, net)
  /\ \E q \in SortedCreditors(net) : creditors = Accounts(q, net)
  /\ plan = << >>

Now == [debtors |-> debtors, creditors |-> creditors, plan |-> plan]

Done == Matched(Now)

Turn ==
  /\ ~Done
  /\ debtors' = MatchHeads(Now).debtors
  /\ creditors' = MatchHeads(Now).creditors
  /\ plan' = MatchHeads(Now).plan
  /\ UNCHANGED <<ledger, net>>

\* The loop has ended: the plan is returned.
Return == Done /\ UNCHANGED vars

Next == Turn \/ Return

Spec == Init /\ [][Next]_vars
-----------------------------------------------------------------------------
\* Type invariant.
TypeOK ==
  /\ ledger \in Ledgers
  /\ net \in [Member -> Int]
  /\ debtors \in Seq([user : Member, net : Int])
  /\ creditors \in Seq([user : Member, net : Int])
  /\ plan \in Seq([From : Member, To : Member, Amount : Int])

\* settlement.go: "Shares always sum exactly to total": for each expense, and
\* so for the balances, which sum to zero.
SharesSumToTotal ==
  /\ \A k \in DOMAIN ledger : SumFunction(Owes(ledger[k], Member)) = ledger[k].amount
  /\ SumFunction(net) = 0

\* A share is the exact fraction of the expense rounded down, or one baisa more:
\* less than a baisa below the fraction, and at most a baisa above it.  A whole
\* baisa above it is possible, for the remainder goes to the first participants
\* and not to those who lost most: 2 baisa of weights 2, 1, 1 are split 2, 0, 0.
WithinOneBaisa ==
  \A k \in DOMAIN ledger :
    LET e == ledger[k]
        users == Participants(e, Member)
        W == SumFunction([u \in users |-> Weight(e, u)])
    IN \A u \in users :
         LET off == Owes(e, Member)[u] * W - e.amount * Weight(e, u)
         IN -W < off /\ off <= W

\* The comment on weightedShares: with equal weights it equals fairShares.
EqualWeightsAreFair ==
  \A k \in DOMAIN ledger :
    LET e == ledger[k]
        users == ById(Participants(e, Member))
    IN (\A u, v \in Participants(e, Member) : Weight(e, u) = Weight(e, v)) =>
         [i \in DOMAIN users |-> Owes(e, Member)[users[i]]] =
         fairShares(e.amount, Len(users))

\* README: every transfer makes somebody even, so there are at most D + C - 1
\* of them, for D debtors and C creditors, and D + C never exceeds n.
AtMostNMinusOne ==
  plan # << >> => Len(plan) + 1 <= Cardinality(Owing(net)) + Cardinality(Owed(net))

\* Each transfer is a positive amount from somebody who owes to somebody who
\* is owed (payments has CHECKs for amount > 0 and from # to).
TransfersAreDebts == PaysDebts(net, plan)

\* No two members are made to pay each other twice.
PairsAreDistinct ==
  \A k, l \in DOMAIN plan :
    plan[k].From = plan[l].From /\ plan[k].To = plan[l].To => k = l

\* settlement_test.go, for every ledger: when the loop ends the transfers have
\* brought every balance to zero.
PlanReconciles == Done => Evens(net, plan)

\* The comment on computePlan: "Ties broken by user id for determinism".  In
\* whatever order equal balances arrive, the loop ends with the plan that the
\* function computes: the plan of a close depends on the balances alone.
PlanIsDetermined == Done => plan = computePlan(net)
=============================================================================
