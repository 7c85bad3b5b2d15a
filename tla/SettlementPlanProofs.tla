------------------------ MODULE SettlementPlanProofs ------------------------
(***************************************************************************)
(* What the loop of computePlan promises for any ledger of any group: its  *)
(* transfers are debts, no two of them join the same members, there are    *)
(* fewer of them than members who owe or are owed, and they even every     *)
(* balance; and what the balances rest on, the exact shares.               *)
(*                                                                         *)
(* The invariant: both lists hold different members on their side of zero, *)
(* every transfer so far has cost the lists an account, and so no transfer *)
(* joins two members who are both still listed.  For the sums, what is     *)
(* left in the lists is what the transfers so far leave of the balances    *)
(* (Loop), of a ledger whose expenses its members can share (LedgersFit).  *)
(***************************************************************************)
EXTENDS SettlementPlan, SettlementProofs, FiniteSetTheorems, SequenceTheorems, TLAPS

\* The accounts of a list are those of different members of S.
Listed(accts, S) ==
  /\ \A i \in 1..Len(accts) : accts[i].user \in S
  /\ \A i, j \in 1..Len(accts) : accts[i].user = accts[j].user => i = j

Sides ==
  /\ Listed(debtors, Owing(net)) /\ \A i \in 1..Len(debtors) : debtors[i].net < 0
  /\ Listed(creditors, Owed(net)) /\ \A i \in 1..Len(creditors) : creditors[i].net > 0

\* Each transfer has cost an account.
Spent ==
  Len(plan) + Len(debtors) + Len(creditors) <= Cardinality(Owing(net)) + Cardinality(Owed(net))

\* u is still listed.
Pending(accts, u) == \E i \in 1..Len(accts) : accts[i].user = u

\* Nobody who was paired is paired again: one of the two is even.
PairsAreDone ==
  \A k \in 1..Len(plan) : ~(Pending(debtors, plan[k].From) /\ Pending(creditors, plan[k].To))

IInv ==
  /\ TypeOK /\ Sides
  /\ Spent /\ AtMostNMinusOne
  /\ TransfersAreDebts
  /\ PairsAreDone /\ PairsAreDistinct
-----------------------------------------------------------------------------
\* The numbers of those who owe and are owed.
LEMMA SidesAreFinite ==
  ASSUME net \in [Member -> Int]
  PROVE  Cardinality(Owing(net)) \in Nat /\ Cardinality(Owed(net)) \in Nat
<1>1. Owing(net) \in SUBSET Member /\ Owed(net) \in SUBSET Member
  BY DEF Owing, Owed
<1> QED BY <1>1, LedgerAssumption, FS_Subset, FS_CardinalityType

\* A sorted list has each account once.
LEMMA AccountsListed ==
  ASSUME net \in [Member -> Int], NEW S, S \subseteq Member, NEW n \in Nat, NEW q \in [1..n -> S],
         \A a, b \in 1..n : a < b => q[a] # q[b]
  PROVE  /\ Accounts(q, net) \in Seq(AcctOf(Member))
         /\ Len(Accounts(q, net)) = n
         /\ \A i \in 1..n : Accounts(q, net)[i] = [user |-> q[i], net |-> net[q[i]]]
         /\ Listed(Accounts(q, net), S)
<1> DEFINE l == Accounts(q, net)
<1>1. l = [i \in 1..n |-> [user |-> q[i], net |-> net[q[i]]]]
  BY DEF Accounts
<1>2. \A i \in 1..n : [user |-> q[i], net |-> net[q[i]]] \in AcctOf(Member)
  BY DEF AcctOf
<1>3. l \in [1..n -> AcctOf(Member)]
  BY <1>1, <1>2
<1>4. l \in Seq(AcctOf(Member)) /\ Len(l) = n
  BY <1>3
<1>5. \A a, b \in 1..n : q[a] = q[b] => a = b
  OBVIOUS
<1>6. Listed(l, S)
  BY <1>1, <1>4, <1>5 DEF Listed
<1> QED BY <1>1, <1>4, <1>6

\* So the list stays one of different members of S, on their side of zero.
LEMMA AdvancedListed ==
  ASSUME NEW accts \in Seq(AcctOf(Member)), accts # << >>, NEW x \in Int, NEW S, Listed(accts, S)
  PROVE  LET a == Advance(accts, x) IN
         /\ Listed(a, S)
         /\ x = 0 => ~Pending(a, accts[1].user)
         /\ \A u : Pending(a, u) => Pending(accts, u)
         /\ \A i \in 1..Len(a) : (a[i].net = x /\ x # 0) \/ \E j \in 1..Len(accts) : a[i] = accts[j]
<1> DEFINE a == Advance(accts, x)
           n == Len(accts)
<1>1. n \in Nat \ {0} /\ a \in Seq(AcctOf(Member)) /\ Len(a) \in Nat
  <2>1. n \in Nat \ {0}
    BY EmptySeq
  <2>2. a \in Seq(AcctOf(Member))
    BY Advanced
  <2> HIDE DEF a, n
  <2> QED BY <2>1, <2>2
<1>2. /\ x = 0 => Len(a) = n - 1 /\ \A i \in 1..Len(a) : a[i] = accts[i + 1]
      /\ x # 0 => /\ Len(a) = n
                  /\ a[1] = [user |-> accts[1].user, net |-> x]
                  /\ \A i \in 2..Len(a) : a[i] = accts[i]
  BY Advanced
<1>3. /\ \A i \in 1..n : accts[i].user \in S
      /\ \A i, j \in 1..n : accts[i].user = accts[j].user => i = j
  BY DEF Listed
<1> HIDE DEF a, n
<1>4. CASE x = 0
  <2>1. \A i \in 1..Len(a) : i + 1 \in 2..n /\ i + 1 \in 1..n /\ a[i] = accts[i + 1]
    BY <1>1, <1>2, <1>4
  <2>2. \A i, j \in 1..Len(a) : a[i].user = a[j].user => i = j
    BY <1>1, <1>3, <2>1
  <2>3. Listed(a, S)
    BY <1>3, <2>1, <2>2 DEF Listed
  <2>4. ~Pending(a, accts[1].user)
    BY <1>1, <1>3, <2>1 DEF Pending
  <2>5. \A u : Pending(a, u) => Pending(accts, u)
    BY <2>1 DEF Pending, n
  <2> QED BY <2>1, <2>3, <2>4, <2>5, <1>4 DEF a, n
<1>5. CASE x # 0
  <2>1. \A i \in 1..Len(a) : i \in 1..n /\ a[i].user = accts[i].user
    BY <1>1, <1>2, <1>5
  <2>2. Listed(a, S)
    BY <1>3, <2>1 DEF Listed
  <2>3. \A u : Pending(a, u) => Pending(accts, u)
    BY <2>1 DEF Pending, n
  <2>4. \A i \in 1..Len(a) : a[i].net = x \/ \E j \in 1..n : a[i] = accts[j]
    BY <1>1, <1>2, <1>5
  <2> QED BY <1>5, <2>2, <2>3, <2>4 DEF a, n
<1> QED BY <1>4, <1>5
-----------------------------------------------------------------------------
\* The invariant holds of the sorted ledger ...
LEMMA InitIInv == Init => IInv
<1> SUFFICES ASSUME Init PROVE IInv
  OBVIOUS
<1>1. ledger \in Ledgers /\ net \in [Member -> Int] /\ plan = << >>
  BY LedgerAssumption DEF Init
<1>2. /\ Owing(net) \subseteq Member /\ \A u \in Owing(net) : net[u] \in Int /\ net[u] < 0
      /\ Owed(net) \subseteq Member /\ \A u \in Owed(net) : net[u] \in Int /\ net[u] > 0
  BY <1>1 DEF Owing, Owed
<1>3. Cardinality(Owing(net)) \in Nat /\ Cardinality(Owed(net)) \in Nat
  BY <1>1, SidesAreFinite
<1>4. /\ debtors \in Seq(AcctOf(Member)) /\ Len(debtors) = Cardinality(Owing(net))
      /\ Listed(debtors, Owing(net)) /\ \A i \in 1..Len(debtors) : debtors[i].net < 0
  <2>1. PICK q \in SortedDebtors(net) : debtors = Accounts(q, net)
    BY DEF Init
  <2> DEFINE S == Owing(net)
             n == Cardinality(S)
  <2>2. q \in [1..n -> S] /\ \A a, b \in 1..n : a < b => DebtorBefore(net, q[a], q[b])
    BY DEF SortedDebtors
  <2>3. S \subseteq Member /\ n \in Nat /\ \A u \in S : ~DebtorBefore(net, u, u)
    <3>1. \A u \in S : net[u] \in Int /\ u \in Nat
      BY <1>2, LedgerAssumption
    <3>2. \A u \in S : ~DebtorBefore(net, u, u)
      BY <3>1 DEF DebtorBefore
    <3> QED BY <1>2, <1>3, <3>2
  <2> HIDE DEF n, S
  <2>4. \A a, b \in 1..n : a < b => q[a] # q[b]
    BY <2>2, <2>3
  <2>5. /\ debtors \in Seq(AcctOf(Member)) /\ Len(debtors) = n /\ Listed(debtors, S)
        /\ \A i \in 1..n : debtors[i] = [user |-> q[i], net |-> net[q[i]]]
    <3>1. net \in [Member -> Int] /\ S \subseteq Member /\ n \in Nat /\ q \in [1..n -> S]
          /\ \A a, b \in 1..n : a < b => q[a] # q[b]
      BY <1>1, <2>2, <2>3, <2>4
    <3>2. /\ Accounts(q, net) \in Seq(AcctOf(Member)) /\ Len(Accounts(q, net)) = n
          /\ \A i \in 1..n : Accounts(q, net)[i] = [user |-> q[i], net |-> net[q[i]]]
          /\ Listed(Accounts(q, net), S)
      BY ONLY <3>1, AccountsListed
    <3> QED BY <2>1, <3>2
  <2> QED BY <1>2, <2>2, <2>5 DEF n, S
<1>5. /\ creditors \in Seq(AcctOf(Member)) /\ Len(creditors) = Cardinality(Owed(net))
      /\ Listed(creditors, Owed(net)) /\ \A i \in 1..Len(creditors) : creditors[i].net > 0
  <2>1. PICK q \in SortedCreditors(net) : creditors = Accounts(q, net)
    BY DEF Init
  <2> DEFINE S == Owed(net)
             n == Cardinality(S)
  <2>2. q \in [1..n -> S] /\ \A a, b \in 1..n : a < b => CreditorBefore(net, q[a], q[b])
    BY DEF SortedCreditors
  <2>3. S \subseteq Member /\ n \in Nat /\ \A u \in S : ~CreditorBefore(net, u, u)
    <3>1. \A u \in S : net[u] \in Int /\ u \in Nat
      BY <1>2, LedgerAssumption
    <3>2. \A u \in S : ~CreditorBefore(net, u, u)
      BY <3>1 DEF CreditorBefore
    <3> QED BY <1>2, <1>3, <3>2
  <2> HIDE DEF n, S
  <2>4. \A a, b \in 1..n : a < b => q[a] # q[b]
    BY <2>2, <2>3
  <2>5. /\ creditors \in Seq(AcctOf(Member)) /\ Len(creditors) = n /\ Listed(creditors, S)
        /\ \A i \in 1..n : creditors[i] = [user |-> q[i], net |-> net[q[i]]]
    <3>1. net \in [Member -> Int] /\ S \subseteq Member /\ n \in Nat /\ q \in [1..n -> S]
          /\ \A a, b \in 1..n : a < b => q[a] # q[b]
      BY <1>1, <2>2, <2>3, <2>4
    <3>2. /\ Accounts(q, net) \in Seq(AcctOf(Member)) /\ Len(Accounts(q, net)) = n
          /\ \A i \in 1..n : Accounts(q, net)[i] = [user |-> q[i], net |-> net[q[i]]]
          /\ Listed(Accounts(q, net), S)
      BY ONLY <3>1, AccountsListed
    <3> QED BY <2>1, <3>2
  <2> QED BY <1>2, <2>2, <2>5 DEF n, S
<1>6. TypeOK
  BY <1>1, <1>4, <1>5 DEF TypeOK, AcctOf
<1>7. Spent
  BY <1>1, <1>3, <1>4, <1>5 DEF Spent
<1>8. AtMostNMinusOne /\ TransfersAreDebts /\ PairsAreDone /\ PairsAreDistinct
  BY <1>1 DEF AtMostNMinusOne, TransfersAreDebts, PaysDebts, PairsAreDone, PairsAreDistinct
<1> QED BY <1>4, <1>5, <1>6, <1>7, <1>8 DEF IInv, Sides

\* A turn settles the head debtor against the head creditor; one of them is even.
LEMMA TurnFacts ==
  ASSUME IInv, Turn
  PROVE  LET d == debtors[1]
             c == creditors[1]
             amt == AmountOf(d, c)
         IN /\ debtors # << >> /\ creditors # << >>
            /\ d \in AcctOf(Member) /\ d.net < 0 /\ d.user \in Owing(net)
            /\ c \in AcctOf(Member) /\ c.net > 0 /\ c.user \in Owed(net)
            /\ amt \in Int /\ amt > 0
            /\ d.net + amt \in Int /\ d.net + amt <= 0
            /\ c.net - amt \in Int /\ c.net - amt >= 0
            /\ d.net + amt = 0 \/ c.net - amt = 0
            /\ debtors' = Advance(debtors, d.net + amt)
            /\ creditors' = Advance(creditors, c.net - amt)
            /\ plan' = Append(plan, [From |-> d.user, To |-> c.user, Amount |-> amt])
            /\ UNCHANGED <<ledger, net>>
<1> DEFINE d == debtors[1]
           c == creditors[1]
           amt == AmountOf(d, c)
<1>1. debtors # << >> /\ creditors # << >>
  BY DEF Turn, Done, Now, Matched
<1>2. debtors \in Seq(AcctOf(Member)) /\ creditors \in Seq(AcctOf(Member))
  BY DEF IInv, TypeOK, AcctOf
<1>3. Len(debtors) \in Nat \ {0} /\ Len(creditors) \in Nat \ {0}
  BY <1>1, <1>2, EmptySeq
<1>4. /\ d \in AcctOf(Member) /\ d.net < 0 /\ d.user \in Owing(net)
      /\ c \in AcctOf(Member) /\ c.net > 0 /\ c.user \in Owed(net)
  BY <1>2, <1>3 DEF IInv, Sides, Listed
<1>5. d.net \in Int /\ c.net \in Int
  BY <1>4 DEF AcctOf
<1>6. /\ debtors' = Advance(debtors, d.net + amt)
      /\ creditors' = Advance(creditors, c.net - amt)
      /\ plan' = Append(plan, [From |-> d.user, To |-> c.user, Amount |-> amt])
      /\ UNCHANGED <<ledger, net>>
  BY DEF Turn, MatchHeads, Now
<1>7. amt = IF c.net < -d.net THEN c.net ELSE -d.net
  BY DEF AmountOf
<1> HIDE DEF d, c, amt
<1>8. /\ amt \in Int /\ amt > 0
      /\ d.net + amt \in Int /\ d.net + amt <= 0
      /\ c.net - amt \in Int /\ c.net - amt >= 0
      /\ d.net + amt = 0 \/ c.net - amt = 0
  BY <1>4, <1>5, <1>7
<1> QED BY <1>1, <1>4, <1>6, <1>8 DEF d, c, amt

\* ... and every turn of the loop keeps it.
LEMMA TurnIInv == IInv /\ Turn => IInv'
<1> SUFFICES ASSUME IInv, Turn PROVE IInv'
  OBVIOUS
<1> DEFINE d == debtors[1]
           c == creditors[1]
           amt == AmountOf(d, c)
           x == d.net + amt
           y == c.net - amt
           e == [From |-> d.user, To |-> c.user, Amount |-> amt]
           T == [From : Member, To : Member, Amount : Int]
<1>1. /\ debtors # << >> /\ creditors # << >>
      /\ d \in AcctOf(Member) /\ d.user \in Owing(net) /\ c \in AcctOf(Member) /\ c.user \in Owed(net)
      /\ amt \in Int /\ amt > 0
      /\ x \in Int /\ x <= 0 /\ y \in Int /\ y >= 0 /\ (x = 0 \/ y = 0)
      /\ debtors' = Advance(debtors, x) /\ creditors' = Advance(creditors, y)
      /\ plan' = Append(plan, e) /\ ledger' = ledger /\ net' = net
  BY TurnFacts
<1>2. /\ debtors \in Seq(AcctOf(Member)) /\ creditors \in Seq(AcctOf(Member)) /\ plan \in Seq(T)
      /\ ledger \in Ledgers /\ net \in [Member -> Int]
      /\ Listed(debtors, Owing(net)) /\ Listed(creditors, Owed(net))
      /\ \A i \in 1..Len(debtors) : debtors[i].net < 0
      /\ \A i \in 1..Len(creditors) : creditors[i].net > 0
  BY DEF IInv, TypeOK, Sides, AcctOf
<1>3. e \in T
  BY <1>1 DEF AcctOf
<1>4. /\ Len(debtors) \in Nat \ {0} /\ Len(creditors) \in Nat \ {0} /\ Len(plan) \in Nat
      /\ Pending(debtors, d.user) /\ Pending(creditors, c.user)
  BY <1>1, <1>2, EmptySeq DEF Pending
<1> HIDE DEF d, c, amt, x, y, e, T
<1>5. /\ debtors' \in Seq(AcctOf(Member)) /\ creditors' \in Seq(AcctOf(Member))
      /\ Len(debtors') = IF x = 0 THEN Len(debtors) - 1 ELSE Len(debtors)
      /\ Len(creditors') = IF y = 0 THEN Len(creditors) - 1 ELSE Len(creditors)
  BY <1>1, <1>2, Advanced
<1>6. /\ Listed(debtors', Owing(net))
      /\ x = 0 => ~Pending(debtors', d.user)
      /\ \A u : Pending(debtors', u) => Pending(debtors, u)
      /\ \A i \in 1..Len(debtors') :
           \/ debtors'[i].net = x /\ x # 0
           \/ \E j \in 1..Len(debtors) : debtors'[i] = debtors[j]
  BY <1>1, <1>2, AdvancedListed DEF d
<1>7. /\ Listed(creditors', Owed(net))
      /\ y = 0 => ~Pending(creditors', c.user)
      /\ \A u : Pending(creditors', u) => Pending(creditors, u)
      /\ \A i \in 1..Len(creditors') :
           \/ creditors'[i].net = y /\ y # 0
           \/ \E j \in 1..Len(creditors) : creditors'[i] = creditors[j]
  BY <1>1, <1>2, AdvancedListed DEF c
<1>8. /\ plan' \in Seq(T) /\ Len(plan') = Len(plan) + 1
      /\ plan'[Len(plan) + 1] = e
      /\ \A k \in 1..Len(plan) : plan'[k] = plan[k]
      /\ DOMAIN plan = 1..Len(plan) /\ DOMAIN plan' = 1..(Len(plan) + 1)
  BY <1>1, <1>2, <1>3
<1>9. \A k \in 1..(Len(plan) + 1) : k \in 1..Len(plan) \/ k = Len(plan) + 1
  BY <1>4
<1>10. e.From = d.user /\ e.To = c.user /\ e.Amount = amt
  BY DEF e
<1>11. TypeOK'
  BY <1>1, <1>2, <1>5, <1>8 DEF TypeOK, AcctOf, T
<1>12. Sides'
  <2>1. \A i \in 1..Len(debtors') : debtors'[i].net < 0
    BY <1>1, <1>2, <1>6
  <2>2. \A i \in 1..Len(creditors') : creditors'[i].net > 0
    BY <1>1, <1>2, <1>7
  <2> QED BY <1>1, <1>6, <1>7, <2>1, <2>2 DEF Sides
<1>13. Spent' /\ AtMostNMinusOne'
  <2>1. Cardinality(Owing(net)) \in Nat /\ Cardinality(Owed(net)) \in Nat
    BY <1>2, SidesAreFinite
  <2>2. Len(plan) + Len(debtors) + Len(creditors)
          <= Cardinality(Owing(net)) + Cardinality(Owed(net))
    BY DEF IInv, Spent
  <2>3. Len(plan') + Len(debtors') + Len(creditors')
          <= Cardinality(Owing(net)) + Cardinality(Owed(net))
    <3>1. CASE x = 0
      <4>1. Len(debtors') = Len(debtors) - 1 /\ Len(creditors') \in Nat /\ Len(creditors') <= Len(creditors)
        BY <1>4, <1>5, <3>1
      <4> QED BY <1>4, <1>8, <2>1, <2>2, <4>1
    <3>2. CASE y = 0
      <4>1. Len(creditors') = Len(creditors) - 1 /\ Len(debtors') \in Nat /\ Len(debtors') <= Len(debtors)
        BY <1>4, <1>5, <3>2
      <4> QED BY <1>4, <1>8, <2>1, <2>2, <4>1
    <3> QED BY <1>1, <3>1, <3>2
  <2>4. Len(plan') + 1 <= Cardinality(Owing(net)) + Cardinality(Owed(net))
    BY <1>4, <1>8, <2>1, <2>2
  <2> QED BY <1>1, <2>3, <2>4 DEF Spent, AtMostNMinusOne
<1>14. TransfersAreDebts'
  <2>1. PICK D, C : D = Owing(net) /\ C = Owed(net) /\ d.user \in D /\ c.user \in C
    BY <1>1
  <2>2. \A k \in 1..Len(plan) : plan[k].Amount > 0 /\ plan[k].From \in D /\ plan[k].To \in C
    BY <1>8, <2>1 DEF IInv, TransfersAreDebts, PaysDebts
  <2>3. \A k \in 1..(Len(plan) + 1) :
          plan'[k].Amount > 0 /\ plan'[k].From \in D /\ plan'[k].To \in C
    BY <1>1, <1>8, <1>9, <1>10, <2>1, <2>2
  <2>4. Owing(net)' = D /\ Owed(net)' = C
    BY <1>1, <2>1
  <2> QED BY <1>1, <1>8, <2>3, <2>4 DEF TransfersAreDebts, PaysDebts
<1>15. \A k \in 1..Len(plan) : ~(Pending(debtors, plan[k].From) /\ Pending(creditors, plan[k].To))
  BY DEF IInv, PairsAreDone
<1>16. PairsAreDone'
  <2>1. ~(Pending(debtors', d.user) /\ Pending(creditors', c.user))
    BY <1>1, <1>6, <1>7
  <2>2. \A k \in 1..(Len(plan) + 1) :
          ~(Pending(debtors', plan'[k].From) /\ Pending(creditors', plan'[k].To))
    BY <1>6, <1>7, <1>8, <1>9, <1>10, <1>15, <2>1
  <2> QED BY <1>8, <2>2 DEF PairsAreDone
<1>17. PairsAreDistinct'
  <2>1. \A k, l \in 1..Len(plan) :
          plan[k].From = plan[l].From /\ plan[k].To = plan[l].To => k = l
    BY <1>8 DEF IInv, PairsAreDistinct
  <2>2. \A k \in 1..Len(plan) : ~(plan[k].From = d.user /\ plan[k].To = c.user)
    BY <1>4, <1>15
  <2>3. \A k, l \in 1..(Len(plan) + 1) :
          plan'[k].From = plan'[l].From /\ plan'[k].To = plan'[l].To => k = l
    BY <1>8, <1>9, <1>10, <2>1, <2>2
  <2> QED BY <1>8, <2>3 DEF PairsAreDistinct
<1> QED BY <1>11, <1>12, <1>13, <1>14, <1>16, <1>17 DEF IInv
-----------------------------------------------------------------------------
\* The inductive invariant of the loop of computePlan holds for every ledger.
THEOREM PlanInvariant == Spec => []IInv
<1>1. ASSUME IInv, UNCHANGED vars PROVE IInv'
  BY <1>1 DEF vars, IInv, TypeOK, Sides, Spent, AtMostNMinusOne, TransfersAreDebts,
              PairsAreDone, PairsAreDistinct
<1>2. IInv /\ [Next]_vars => IInv'
  BY <1>1, TurnIInv DEF Next, Return
<1> QED BY <1>2, InitIInv, PTL DEF Spec

\* The lists and the plan keep their types.
THEOREM PlanTyped == Spec => []TypeOK
<1>1. IInv => TypeOK
  BY DEF IInv
<1> QED BY <1>1, PlanInvariant, PTL

\* README: at most n - 1 transfers, whatever the balances.
THEOREM FewTransfers == Spec => []AtMostNMinusOne
<1>1. IInv => AtMostNMinusOne
  BY DEF IInv
<1> QED BY <1>1, PlanInvariant, PTL

\* Every transfer is a positive amount from who owes to who is owed, so that
\* the CHECKs of the table payments never fail a close.
THEOREM DebtsOnly == Spec => []TransfersAreDebts
<1>1. IInv => TransfersAreDebts
  BY DEF IInv
<1> QED BY <1>1, PlanInvariant, PTL

\* No two members are made to pay each other twice.
THEOREM OncePerPair == Spec => []PairsAreDistinct
<1>1. IInv => PairsAreDistinct
  BY DEF IInv
<1> QED BY <1>1, PlanInvariant, PTL
-----------------------------------------------------------------------------
\* Every ledger is one of expenses that the members can share, small enough
\* for the width of the integers.
LedgersFit == \A l \in Ledgers : Shareable(l, Member)

\* The balances are those of the ledger, and the loop has not lost any of them.
Sums ==
  /\ ledger \in Ledgers /\ net = Balances(Member, ledger)
  /\ Loop(Member, net, Now)

\* The loop starts with the balances of the ledger, whichever way they are listed.
LEMMA InitSums ==
  ASSUME LedgersFit, Init
  PROVE  Sums
<1>1. ledger \in Ledgers /\ net = Balances(Member, ledger)
  BY DEF Init
<1>2. /\ IsFiniteSet(Member) /\ Member \subseteq Nat
      /\ net \in [Member -> Int] /\ SumFunctionOnSet(net, Member) = 0
  <2>1. PICK l : l = ledger /\ Shareable(l, Member)
    BY <1>1 DEF LedgersFit
  <2>2. IsFiniteSet(Member) /\ Member \subseteq Nat
    BY LedgerAssumption
  <2>3. Balances(Member, l) \in [Member -> Int] /\ SumFunctionOnSet(Balances(Member, l), Member) = 0
    BY ONLY <2>1, <2>2, BalancesToZero
  <2> QED BY <1>1, <2>1, <2>2, <2>3
<1>3. PICK p \in SortedDebtors(net), q \in SortedCreditors(net) :
        debtors = Accounts(p, net) /\ creditors = Accounts(q, net)
  BY DEF Init
<1>4. PICK n, s : n = net /\ s = Now
  OBVIOUS
<1>5. s = [debtors |-> Accounts(p, n), creditors |-> Accounts(q, n), plan |-> << >>]
  BY <1>3, <1>4 DEF Now, Init
<1>6. Loop(Member, n, s)
  <2>1. /\ n \in [Member -> Int] /\ SumFunctionOnSet(n, Member) = 0
        /\ p \in SortedDebtors(n) /\ q \in SortedCreditors(n)
    BY <1>2, <1>3, <1>4
  <2> QED BY <1>2, <1>5, <2>1, LoopStart
<1> QED BY <1>1, <1>4, <1>6 DEF Sums

\* A turn moves an amount from a balance to the plan and loses nothing.
LEMMA NextSums ==
  ASSUME IInv, Sums, [Next]_vars
  PROVE  Sums'
<1>1. CASE Turn
  <2>1. PICK n, s, t : n = net /\ s = Now /\ t = MatchHeads(Now)
    OBVIOUS
  <2>2. n \in [Member -> Int] /\ Loop(Member, n, s) /\ ~Matched(s)
    BY <1>1, <2>1 DEF Sums, IInv, TypeOK, Turn, Done
  <2>3. Loop(Member, n, MatchHeads(s))
    BY <2>2, LoopTurn
  <2>4. Now' = t /\ net' = n /\ ledger' = ledger
    BY <1>1, <2>1 DEF Turn, Now, MatchHeads
  <2>5. t = MatchHeads(s)
    BY <2>1
  <2> QED BY <2>1, <2>3, <2>4, <2>5 DEF Sums
<1>2. CASE UNCHANGED vars
  <2>1. Now' = Now /\ net' = net /\ ledger' = ledger
    BY <1>2 DEF vars, Now
  <2> QED BY <2>1 DEF Sums
<1> QED BY <1>1, <1>2 DEF Next, Return

\* The sums hold for every ledger that fits.
THEOREM SumsInvariant == ASSUME LedgersFit PROVE Spec => []Sums
<1>1. Init => Sums
  BY InitSums
<1>2. IInv /\ Sums /\ [Next]_vars => Sums'
  BY NextSums
<1> QED BY <1>1, <1>2, PlanInvariant, PTL DEF Spec

\* What is known of an expense of the ledger.
LEMMA LedgerShares ==
  ASSUME LedgersFit, ledger \in Ledgers, NEW k \in DOMAIN ledger,
         NEW e, e = ledger[k], NEW P, P = Participants(e, Member)
  PROVE  /\ DOMAIN Owes(e, Member) = P
         /\ \E W : Exact(e, P, W, Owes(e, Member))
         /\ (\A u, v \in P : Weight(e, u) = Weight(e, v)) =>
              [i \in DOMAIN ById(P) |-> Owes(e, Member)[ById(P)[i]]] =
              fairShares(e.amount, Len(ById(P)))
<1>1. WellFormed(e, Member) /\ IsFiniteSet(Member) /\ Member \subseteq Nat
  BY LedgerAssumption DEF LedgersFit, Shareable
<1>2. PICK Q : Q = Participants(e, Member)
  OBVIOUS
<1>3. DOMAIN Owes(e, Member) = Q /\ \E W : Exact(e, Q, W, Owes(e, Member))
  BY ONLY <1>1, <1>2, OwesExactly
<1>4. (\A u, v \in Q : Weight(e, u) = Weight(e, v)) =>
        [i \in DOMAIN ById(Q) |-> Owes(e, Member)[ById(Q)[i]]] =
        fairShares(e.amount, Len(ById(Q)))
  BY ONLY <1>1, <1>2, OwesExactly
<1> QED BY <1>2, <1>3, <1>4

\* settlement.go: the shares of every expense sum to its amount, and so the
\* balances to zero.
THEOREM ExactShares == ASSUME LedgersFit PROVE Spec => []SharesSumToTotal
<1>1. ASSUME Sums PROVE SharesSumToTotal
  <2>1. PICK l : l = ledger /\ l \in Ledgers /\ net = Balances(Member, l)
    BY <1>1 DEF Sums
  <2>2. ASSUME NEW k \in DOMAIN ledger
        PROVE  SumFunction(Owes(ledger[k], Member)) = ledger[k].amount
    <3>1. PICK e, P, o : e = ledger[k] /\ P = Participants(e, Member) /\ o = Owes(e, Member)
      OBVIOUS
    <3>2. DOMAIN o = P /\ \E W : Exact(e, P, W, o)
      BY <2>1, <3>1, LedgerShares
    <3>3. SumFunctionOnSet(o, P) = e.amount
      BY <3>2 DEF Exact
    <3> QED BY <3>1, <3>2, <3>3, SumOfFunction
  <2>3. SumFunction(net) = 0
    <3>1. IsFiniteSet(Member) /\ Member \subseteq Nat /\ Shareable(l, Member)
      BY <2>1, LedgerAssumption DEF LedgersFit
    <3>2. SumFunction(Balances(Member, l)) = 0
      BY ONLY <3>1, BalancesToZero
    <3> QED BY <2>1, <3>2
  <2> QED BY <2>2, <2>3 DEF SharesSumToTotal
<1> QED BY <1>1, SumsInvariant, PTL

\* Everybody's share of an expense is less than a baisa below its exact fraction
\* and at most a baisa above it.
THEOREM RoundedShares == ASSUME LedgersFit PROVE Spec => []WithinOneBaisa
<1>1. ASSUME Sums PROVE WithinOneBaisa
  <2>1. ASSUME NEW k \in DOMAIN ledger,
               NEW e, e = ledger[k], NEW P, P = Participants(e, Member),
               NEW W, W = SumFunction([v \in P |-> Weight(e, v)]), NEW u \in P,
               NEW off, off = Owes(e, Member)[u] * W - e.amount * Weight(e, u)
        PROVE  -W < off /\ off <= W
    <3>1. PICK V : Exact(e, P, V, Owes(e, Member))
      BY <1>1, <2>1, LedgerShares DEF Sums
    <3>2. PICK f : f = [v \in P |-> Weight(e, v)]
      OBVIOUS
    <3>3. DOMAIN f = P /\ f = Weights(e, P)
      BY <3>2 DEF Weights
    <3>4. W = V
      BY <2>1, <3>1, <3>2, <3>3, SumOfFunction DEF Exact
    <3> QED BY <2>1, <3>1, <3>4 DEF Exact
  <2> QED BY <2>1 DEF WithinOneBaisa
<1> QED BY <1>1, SumsInvariant, PTL

\* The comment on weightedShares: equal weights give the equal shares.
THEOREM EqualShares == ASSUME LedgersFit PROVE Spec => []EqualWeightsAreFair
<1>1. ASSUME Sums PROVE EqualWeightsAreFair
  <2>1. ASSUME NEW k \in DOMAIN ledger,
               NEW e, e = ledger[k], NEW P, P = Participants(e, Member),
               \A u, v \in P : Weight(e, u) = Weight(e, v)
        PROVE  [i \in DOMAIN ById(P) |-> Owes(e, Member)[ById(P)[i]]] =
                 fairShares(e.amount, Len(ById(P)))
    BY <1>1, <2>1, LedgerShares DEF Sums
  <2> QED BY <2>1 DEF EqualWeightsAreFair
<1> QED BY <1>1, SumsInvariant, PTL

\* settlement_test.go, for every ledger that fits: when the loop ends, the
\* transfers have brought every balance to zero.
THEOREM PlanEvens == ASSUME LedgersFit PROVE Spec => []PlanReconciles
<1>1. ASSUME IInv, Sums PROVE PlanReconciles
  <2> SUFFICES ASSUME Done, NEW u \in DOMAIN net PROVE net[u] + Flow(plan, u) = 0
    BY DEF PlanReconciles, Evens
  <2>1. PICK n, s, p : n = net /\ s = Now /\ p = plan
    OBVIOUS
  <2>2. n \in [Member -> Int] /\ Loop(Member, n, s) /\ Matched(s) /\ u \in Member /\ p = s.plan
    BY <1>1, <2>1 DEF Sums, IInv, TypeOK, Done, Now
  <2>3. n[u] + Sent(p, u) - Received(p, u) = 0
    BY <2>2, LoopEnd
  <2>4. p \in Seq([From : Member, To : Member, Amount : Int]) /\ \A k \in DOMAIN p : p[k].From # p[k].To
    <3>1. p \in Seq([From : Member, To : Member, Amount : Int])
      BY <1>1, <2>1 DEF IInv, TypeOK
    <3>2. ASSUME NEW k \in DOMAIN p, p[k].From = p[k].To PROVE FALSE
      <4>1. p[k].From \in Owing(n) /\ p[k].To \in Owed(n)
        BY <1>1, <2>1 DEF IInv, TransfersAreDebts, PaysDebts
      <4>2. PICK v : v = p[k].From
        OBVIOUS
      <4>3. v \in Member /\ n[v] < 0 /\ n[v] > 0
        BY <2>2, <3>2, <4>1, <4>2 DEF Owing, Owed
      <4> QED BY <2>2, <4>3
    <3> QED BY <3>1, <3>2
  <2>5. Flow(p, u) = Sent(p, u) - Received(p, u) /\ Sent(p, u) \in Int /\ Received(p, u) \in Int
    BY ONLY <2>4, FlowIs
  <2>6. PICK x, y, z : x = Sent(p, u) /\ y = Received(p, u) /\ z = n[u] /\ z \in Int
    BY <2>2
  <2> QED BY <2>1, <2>3, <2>5, <2>6
<1> QED BY <1>1, PlanInvariant, SumsInvariant, PTL
-----------------------------------------------------------------------------
\* The loop is on its way to the plan of its balances.
OnTheWay == Now \in PlanState /\ Match[Now] = computePlan(net)

\* settlement.go: ties are broken by user id, so the loop ends with the one plan
\* that computePlan returns for the balances, in whatever order they come.
THEOREM PlanDetermined == Spec => []PlanIsDetermined
<1>1. Init => OnTheWay
  <2> SUFFICES ASSUME Init PROVE OnTheWay
    OBVIOUS
  <2>1. PICK n, z : n = net /\ z = Now
    OBVIOUS
  <2>2. n \in [Member -> Int] /\ IsFiniteSet(Member) /\ Member \subseteq Nat
    BY <2>1, LedgerAssumption DEF Init
  <2>3. PICK p \in SortedDebtors(n), q \in SortedCreditors(n), s \in PlanState :
          /\ s = [debtors |-> Accounts(p, n), creditors |-> Accounts(q, n), plan |-> << >>]
          /\ computePlan(n) = Match[s]
    BY <2>2, PlanStarts
  <2>4. /\ \E y : SortedDebtors(n) = {y}
        /\ \E y : SortedCreditors(n) = {y}
    BY ONLY <2>2, SidesSorted
  <2>5. \A x \in SortedDebtors(n) : x = p
    <3>1. PICK y : SortedDebtors(n) = {y}
      BY <2>4
    <3> QED BY <2>3, <3>1
  <2>6. \A x \in SortedCreditors(n) : x = q
    <3>1. PICK y : SortedCreditors(n) = {y}
      BY <2>4
    <3> QED BY <2>3, <3>1
  <2>7. debtors = Accounts(p, n) /\ creditors = Accounts(q, n) /\ plan = << >>
    BY <2>1, <2>5, <2>6 DEF Init
  <2>8. z = s
    BY <2>1, <2>3, <2>7 DEF Now
  <2> QED BY <2>1, <2>3, <2>8 DEF OnTheWay
<1>2. OnTheWay /\ [Next]_vars => OnTheWay'
  <2> SUFFICES ASSUME OnTheWay, [Next]_vars PROVE OnTheWay'
    OBVIOUS
  <2>1. PICK n, s, t : n = net /\ s = Now /\ t = MatchHeads(Now)
    OBVIOUS
  <2>2. s \in PlanState /\ Match[s] = computePlan(n) /\ t = MatchHeads(s)
    BY <2>1 DEF OnTheWay
  <2>3. CASE Turn
    <3>1. ~Matched(s)
      BY <2>1, <2>3 DEF Turn, Done
    <3>2. t \in PlanState
      BY <2>2, <3>1, PlanStates
    <3>3. Match[s] = Match[t]
      BY <2>2, <3>1, MatchReturns
    <3>4. Now' = t /\ net' = n
      BY <2>1, <2>3 DEF Turn, Now, MatchHeads
    <3>5. computePlan(net') = computePlan(n)
      BY <3>4
    <3> QED BY <2>2, <3>2, <3>3, <3>4, <3>5 DEF OnTheWay
  <2>4. CASE UNCHANGED vars
    <3>1. Now' = s /\ net' = n
      BY <2>1, <2>4 DEF vars, Now
    <3> QED BY <2>2, <3>1 DEF OnTheWay
  <2> QED BY <2>3, <2>4 DEF Next, Return
<1>3. OnTheWay => PlanIsDetermined
  <2> SUFFICES ASSUME OnTheWay, Done PROVE plan = computePlan(net)
    BY DEF PlanIsDetermined
  <2>1. PICK s : s = Now /\ s \in PlanState /\ Matched(s) /\ Match[s] = computePlan(net)
    BY DEF OnTheWay, Done
  <2>2. Match[s] = s.plan
    BY <2>1, MatchReturns
  <2> QED BY <2>1, <2>2 DEF Now
<1> QED BY <1>1, <1>2, <1>3, PTL DEF Spec
=============================================================================
