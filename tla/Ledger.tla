------------------------------- MODULE Ledger -------------------------------
(***************************************************************************)
(* What the books of a group promise, without requests, locks or           *)
(* memberships: expenses and dates change while the group is open, each    *)
(* in one step; the settlement is made in one step of the expenses there   *)
(* are, for members among whom is everybody who paid; and from then on     *)
(* the books are frozen.  Which transfers settle is left to whoever        *)
(* implements it, as long as they pay debts and, if nobody outside has a   *)
(* share, leave every member even.                                         *)
(***************************************************************************)
EXTENDS Naturals, Sequences

CONSTANTS
  User, Expense, Dates,
  SumFunction(_),   \* the sum of a function
  Balances(_, _),   \* what members are owed (or owe) after some expenses
  PaysDebts(_, _),  \* the transfers are of debts
  Evens(_, _)       \* the transfers bring the balances to zero

VARIABLES
  status,    \* "open", "closed" or "settled"
  dates,     \* <<first day, last day>>
  expenses,  \* in the order they were recorded; deleted ones stay, not live
  runs       \* the settlement, once it is made

vars == <<status, dates, expenses, runs>>

Init ==
  /\ status = "open"
  /\ dates \in Dates
  /\ expenses = << >>
  /\ runs = << >>

Counted == {k \in DOMAIN expenses : expenses[k].live}

Total == SumFunction([k \in DOMAIN expenses |-> IF k \in Counted THEN expenses[k].amount ELSE 0])

InRange(day) == dates[1] <= day /\ day <= dates[2]

\* A new expense.
Enter(e) ==
  /\ status = "open"
  /\ e \in Expense /\ e.live /\ InRange(e.on)
  /\ expenses' = Append(expenses, e)
  /\ UNCHANGED <<status, dates, runs>>

\* Expense k becomes e: who paid it and how it is split stay as they were.
Amend(k, e) ==
  /\ status = "open"
  /\ k \in Counted
  /\ e \in Expense /\ e.live /\ InRange(e.on)
  /\ <<e.payer, e.paidBy, e.shares>> = <<expenses[k].payer, expenses[k].paidBy, expenses[k].shares>>
  /\ expenses' = [expenses EXCEPT ![k] = e]
  /\ UNCHANGED <<status, dates, runs>>

Strike(k) ==
  /\ status = "open"
  /\ k \in Counted
  /\ expenses' = [expenses EXCEPT ![k].live = FALSE]
  /\ UNCHANGED <<status, dates, runs>>

Redate(d) ==
  /\ status = "open"
  /\ dates' = d
  /\ UNCHANGED <<status, expenses, runs>>

\* The settlement s of the members M.  Nobody who paid is left out.
Settle(M, s) ==
  /\ status = "open"
  /\ \A k \in Counted : expenses[k].paidBy \in M
  /\ s.members = M
  /\ s.total = Total
  /\ s.net = Balances(M, [k \in Counted |-> expenses[k]])
  /\ PaysDebts(s.net, s.plan)
  /\ (\A k \in Counted : DOMAIN expenses[k].shares \subseteq M) => Evens(s.net, s.plan)
  /\ runs' = <<s>>
  /\ status' = IF s.plan = << >> THEN "settled" ELSE "closed"
  /\ UNCHANGED <<dates, expenses>>

\* The last payment is settled.
Finish ==
  /\ status = "closed"
  /\ status' = "settled"
  /\ UNCHANGED <<dates, expenses, runs>>

\* An expense written is the one found at its place afterwards, and a
\* settlement the one found afterwards: TLC need not try them all.
Next ==
  \/ \E k \in DOMAIN expenses' : Enter(expenses'[k]) \/ Amend(k, expenses'[k])
  \/ \E k \in DOMAIN expenses : Strike(k)
  \/ \E d \in Dates : Redate(d)
  \/ \E M \in SUBSET User, k \in DOMAIN runs' : Settle(M, runs'[k])
  \/ Finish

Spec == Init /\ [][Next]_vars
=============================================================================
