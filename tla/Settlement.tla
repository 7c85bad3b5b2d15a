----------------------------- MODULE Settlement -----------------------------
(***************************************************************************)
(* The settlement arithmetic (server/services/settlement.go): how expenses *)
(* become fair shares, and balances a plan of transfers.  Users are        *)
(* numbers, in the order of their ids.  Money is integer baisa.            *)
(***************************************************************************)
EXTENDS Integers, Sequences, FiniteSets, Functions

CONSTANT
  MaxInt  \* the largest of the integers that hold money: 2^63 - 1 in the code

ASSUME MaxIntAssumption == MaxInt \in Nat

\* Two's complement, as a product of two int64 wraps.
Wrap(x) == ((x + MaxInt + 1) % (2 * MaxInt + 2)) - MaxInt - 1

\* A sum whose every addition wraps is the whole sum, wrapped.
WrapSum(f) == Wrap(SumFunction(f))

\* Division truncates towards zero.
Quotient(a, b) == IF a >= 0 THEN a \div b ELSE -((-a) \div b)

\* The members of a finite set of users in the order of their ids.
ById(S) ==
  CHOOSE q \in [1..Cardinality(S) -> S] :
    \A a, b \in 1..Cardinality(S) : a < b => q[a] < q[b]

fairShares(total, n) ==
  [i \in 1..n |-> total \div n + (IF i <= (total % n) THEN 1 ELSE 0)]

\* What rounding down leaves of the total.
NoRemainder(total, base) == 0

Remainder(total, base) == Wrap(total - WrapSum(base))

Base(total, weights) ==
  [i \in DOMAIN weights |-> Quotient(Wrap(total * weights[i]), WrapSum(weights))]

RemainderToFirst(total, weights) ==
  LET base == Base(total, weights)
  IN [i \in DOMAIN weights |-> base[i] + (IF i = 1 THEN Remainder(total, base) ELSE 0)]

\* The remainder goes one baisa each to the first participants.
weightedShares(total, weights) ==
  LET base == Base(total, weights)
  IN IF WrapSum(weights) <= 0 THEN [i \in DOMAIN weights |-> 0]
     ELSE [i \in DOMAIN weights |->
             Wrap(base[i] + (IF i <= Remainder(total, base) THEN 1 ELSE 0))]

\* An expense: who paid how much, and the weights of the named participants
\* (nobody named: all approved members at the time of the settlement, equally).
Participants(e, members) ==
  IF DOMAIN e.shares = {} THEN members ELSE DOMAIN e.shares

Weight(e, u) == IF DOMAIN e.shares = {} THEN 1 ELSE e.shares[u]

\* What each participant owes of expense e.
Owes(e, members) ==
  LET users == ById(Participants(e, members))
      shares == weightedShares(e.amount, [i \in DOMAIN users |-> Weight(e, users[i])])
  IN [u \in Participants(e, members) |->
        shares[CHOOSE i \in DOMAIN users : users[i] = u]]

\* Everybody's total fair share of a sequence of expenses; a participant who
\* is not a member gets one too.
buildFairShares(members, expenses) ==
  LET all == members \cup UNION {DOMAIN expenses[k].shares : k \in DOMAIN expenses}
      part(k, u) == IF u \in Participants(expenses[k], members)
                    THEN Owes(expenses[k], members)[u] ELSE 0
  IN [u \in all |-> WrapSum([k \in DOMAIN expenses |-> part(k, u)])]

\* A sum of the database, which fails rather than wraps: the amounts of an
\* account are taken to fit.
SumPaidByMember(members, expenses) ==
  [u \in members |->
     SumFunction([k \in DOMAIN expenses |-> IF expenses[k].paidBy = u THEN expenses[k].amount ELSE 0])]

\* The balances of the members, as close.go puts them into the snapshot.
Balances(members, expenses) ==
  LET paid == SumPaidByMember(members, expenses)
      fair == buildFairShares(members, expenses)
  IN [u \in members |-> Wrap(paid[u] - fair[u])]
-----------------------------------------------------------------------------
\* The accounts with a balance on one side of zero, largest first.
\* ... without the tie-break by user id.
OwesNoLess(net, u, v) == net[u] <= net[v] /\ u # v

DebtorBefore(net, u, v) == net[u] < net[v] \/ (net[u] = net[v] /\ u < v)

CreditorBefore(net, u, v) == net[u] > net[v] \/ (net[u] = net[v] /\ u < v)

Owing(net) == {u \in DOMAIN net : net[u] < 0}

Owed(net) == {u \in DOMAIN net : net[u] > 0}

\* The orders the two sorts can return (there is exactly one of each).
SortedDebtors(net) ==
  {q \in [1..Cardinality(Owing(net)) -> Owing(net)] :
     \A a, b \in DOMAIN q : a < b => DebtorBefore(net, q[a], q[b])}

SortedCreditors(net) ==
  {q \in [1..Cardinality(Owed(net)) -> Owed(net)] :
     \A a, b \in DOMAIN q : a < b => CreditorBefore(net, q[a], q[b])}

AccountsByIndex(q, net) == [i \in DOMAIN q |-> [user |-> i, net |-> net[q[i]]]]

Accounts(q, net) == [i \in DOMAIN q |-> [user |-> q[i], net |-> net[q[i]]]]

Acct == [user : Nat, net : Int]

Transfer == [From : Nat, To : Nat, Amount : Int]

\* min(owe, credit), for the two accounts at the head of the lists.  Here the
\* integers need no width: the accounts only move towards zero, and the least
\* integer, the one without a negative, is not taken for a balance.
OweAmount(d, c) == -d.net

AmountOf(d, c) == IF c.net < -d.net THEN c.net ELSE -d.net

HeadStays(accts, net) == [accts EXCEPT ![1] = [user |-> accts[1].user, net |-> net]]

\* The head account after the transfer; it leaves the list when it is even.
Advance(accts, net) ==
  IF net = 0 THEN Tail(accts)
  ELSE [accts EXCEPT ![1] = [user |-> accts[1].user, net |-> net]]

\* One turn of the loop of computePlan.
MatchHeads(s) ==
  LET d == s.debtors[1]
      c == s.creditors[1]
      amt == AmountOf(d, c)
  IN [debtors |-> Advance(s.debtors, d.net + amt),
      creditors |-> Advance(s.creditors, c.net - amt),
      plan |-> Append(s.plan, [From |-> d.user, To |-> c.user, Amount |-> amt])]

PlanState == [debtors : Seq(Acct), creditors : Seq(Acct), plan : Seq(Transfer)]

Matched(s) == s.debtors = << >> \/ s.creditors = << >>

Match[s \in PlanState] == IF Matched(s) THEN s.plan ELSE Match[MatchHeads(s)]

computePlan(net) ==
  Match[[debtors |-> Accounts(CHOOSE q \in SortedDebtors(net) : TRUE, net),
         creditors |-> Accounts(CHOOSE q \in SortedCreditors(net) : TRUE, net),
         plan |-> << >>]]
-----------------------------------------------------------------------------
(***************************************************************************)
(* What a plan is for.                                                     *)
(***************************************************************************)

\* What the plan has u pay, less what it has u receive.
Flow(plan, u) ==
  SumFunction([k \in DOMAIN plan |->
    IF plan[k].From = u THEN plan[k].Amount
    ELSE IF plan[k].To = u THEN -plan[k].Amount ELSE 0])

Evens(net, plan) == \A u \in DOMAIN net : net[u] + Flow(plan, u) = 0

\* Each transfer is a positive amount from somebody who owes to somebody who
\* is owed.
PaysDebts(net, plan) ==
  \A k \in DOMAIN plan :
    /\ plan[k].Amount > 0
    /\ plan[k].From \in Owing(net)
    /\ plan[k].To \in Owed(net)
=============================================================================
