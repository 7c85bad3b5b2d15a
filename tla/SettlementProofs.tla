--------------------------- MODULE SettlementProofs ---------------------------
(***************************************************************************)
(* The settlement arithmetic for any members and expenses.                 *)
(***************************************************************************)
EXTENDS Settlement, SumProofs, SequenceTheorems

\* The accounts and transfers of the members M.
AcctOf(M) == [user : M, net : Int]

TransferOf(M) == [From : M, To : M, Amount : Int]

\* What the accounts of the users U still come to.
Rest(accts, U) ==
  SumFunctionOnSet([i \in DOMAIN accts |-> IF accts[i].user \in U THEN accts[i].net ELSE 0],
                   DOMAIN accts)

\* What u has sent and received by the transfers of a plan.
Sent(plan, u) ==
  SumFunctionOnSet([k \in DOMAIN plan |-> IF plan[k].From = u THEN plan[k].Amount ELSE 0],
                   DOMAIN plan)

Received(plan, u) ==
  SumFunctionOnSet([k \in DOMAIN plan |-> IF plan[k].To = u THEN plan[k].Amount ELSE 0],
                   DOMAIN plan)

\* The account at the head of a list takes the transfer; even, it leaves.
LEMMA Advanced ==
  ASSUME NEW M, NEW accts \in Seq(AcctOf(M)), accts # << >>, NEW x \in Int
  PROVE  LET a == Advance(accts, x) IN
         /\ a \in Seq(AcctOf(M))
         /\ x = 0 => /\ Len(a) = Len(accts) - 1
                     /\ \A i \in 1..Len(a) : a[i] = accts[i + 1]
         /\ x # 0 => /\ Len(a) = Len(accts)
                     /\ a[1] = [user |-> accts[1].user, net |-> x]
                     /\ \A i \in 2..Len(a) : a[i] = accts[i]
<1>1. Len(accts) \in Nat \ {0} /\ accts[1] \in AcctOf(M)
  BY EmptySeq
<1>2. CASE x = 0
  <2>1. Advance(accts, x) = Tail(accts)
    BY <1>2 DEF Advance
  <2> QED BY <1>2, <2>1, HeadTailProperties
<1>3. CASE x # 0
  <2> DEFINE e == [user |-> accts[1].user, net |-> x]
  <2>1. e \in AcctOf(M)
    BY <1>1 DEF AcctOf
  <2>2. Advance(accts, x) = [accts EXCEPT ![1] = e]
    BY <1>3 DEF Advance
  <2>3. 1 \in 1..Len(accts)
    BY <1>1
  <2> HIDE DEF e
  <2>4. /\ [accts EXCEPT ![1] = e] \in Seq(AcctOf(M))
        /\ Len([accts EXCEPT ![1] = e]) = Len(accts)
        /\ \A j \in 1..Len(accts) : [accts EXCEPT ![1] = e][j] = IF j = 1 THEN e ELSE accts[j]
    BY <2>1, <2>3, ExceptSeq
  <2>5. /\ [accts EXCEPT ![1] = e][1] = e
        /\ \A j \in 2..Len(accts) : [accts EXCEPT ![1] = e][j] = accts[j]
    BY <1>1, <2>3, <2>4
  <2> QED BY <1>3, <2>2, <2>4, <2>5 DEF e
<1> QED BY <1>2, <1>3

\* An index of a sequence of accounts.
LEMMA AcctFacts ==
  ASSUME NEW M, NEW accts \in Seq(AcctOf(M))
  PROVE  /\ Len(accts) \in Nat /\ DOMAIN accts = 1..Len(accts) /\ IsFiniteSet(1..Len(accts))
         /\ \A i \in 1..Len(accts) : accts[i] \in AcctOf(M) /\ accts[i].net \in Int
                                       /\ accts[i].user \in M
<1>1. Len(accts) \in Nat /\ DOMAIN accts = 1..Len(accts)
      /\ \A i \in 1..Len(accts) : accts[i] \in AcctOf(M)
  OBVIOUS
<1>2. IsFiniteSet(1..Len(accts))
  BY <1>1, FS_Interval
<1>3. \A a \in AcctOf(M) : a.net \in Int /\ a.user \in M
  BY DEF AcctOf
<1> QED BY <1>1, <1>2, <1>3

\* So what is left changes by what the head account changes.
LEMMA AdvancedRest ==
  ASSUME NEW M, NEW accts \in Seq(AcctOf(M)), accts # << >>, NEW x \in Int, NEW U
  PROVE  /\ Rest(accts, U) \in Int
         /\ Rest(Advance(accts, x), U) =
              Rest(accts, U) + IF accts[1].user \in U THEN x - accts[1].net ELSE 0
<1>0. PICK a : a = Advance(accts, x)
  OBVIOUS
<1> DEFINE n == Len(accts)
           m == Len(a)
           f == [i \in 1..n |-> IF accts[i].user \in U THEN accts[i].net ELSE 0]
           g == [i \in 1..m |-> IF a[i].user \in U THEN a[i].net ELSE 0]
<1>1. /\ a \in Seq(AcctOf(M))
      /\ x = 0 => m = n - 1 /\ \A i \in 1..m : a[i] = accts[i + 1]
      /\ x # 0 => /\ m = n
                  /\ a[1] = [user |-> accts[1].user, net |-> x]
                  /\ \A i \in 2..m : a[i] = accts[i]
  BY <1>0, Advanced
<1>2. /\ n \in Nat \ {0} /\ m \in Nat /\ DOMAIN accts = 1..n /\ DOMAIN a = 1..m
      /\ IsFiniteSet(1..n) /\ IsFiniteSet(1..m)
      /\ \A i \in 1..n : accts[i].net \in Int
      /\ \A i \in 1..m : a[i].net \in Int
  BY <1>1, AcctFacts, EmptySeq
<1>3. Rest(accts, U) = SumFunctionOnSet(f, 1..n) /\ Rest(a, U) = SumFunctionOnSet(g, 1..m)
  BY <1>2 DEF Rest
<1>4. /\ \A i \in 1..n : f[i] \in Int /\ f[i] = IF accts[i].user \in U THEN accts[i].net ELSE 0
      /\ \A i \in 1..m : g[i] \in Int /\ g[i] = IF a[i].user \in U THEN a[i].net ELSE 0
  BY <1>2
<1> HIDE DEF n, m, f, g
<1>5. SumFunctionOnSet(f, 1..n) \in Int
  BY <1>2, <1>4, SumFacts
<1>6. CASE x = 0
  <2>1. PICK S : S = 1..m
    OBVIOUS
  <2>2. PICK q : q = [i \in S |-> i + 1]
    OBVIOUS
  <2>3. PICK T : T = (1..n) \ {1}
    OBVIOUS
  <2>b. /\ \A i \in S : q[i] \in T
        /\ \A j \in T : \E i \in S : q[i] = j
    <3>1. \A i \in S : q[i] \in (1..n) \ {1}
      BY <1>1, <1>2, <1>6, <2>1, <2>2 DEF m, n
    <3>2. \A j \in (1..n) \ {1} : j - 1 \in S /\ q[j - 1] = j
      BY <1>1, <1>2, <1>6, <2>1, <2>2 DEF m, n
    <3> QED BY <2>3, <3>1, <3>2
  <2>4. /\ IsFiniteSet(S)
        /\ \A i \in S : f[q[i]] \in Int
        /\ \A i \in S : g[i] = f[q[i]]
    BY <1>1, <1>2, <1>4, <1>6, <2>1, <2>2 DEF m, n
  <2>5. \A i, j \in S : q[i] = q[j] => i = j
    BY <1>2, <2>1, <2>2
  <2>6. SumFunctionOnSet(f, T) = SumFunctionOnSet(g, S)
    <3>1. Renames(q, S, T)
      BY <2>5, <2>b DEF Renames
    <3> QED BY <2>4, <3>1, SumRenamed
  <2>7. PICK N : N = 1..n
    OBVIOUS
  <2>8. 1 \in N /\ IsFiniteSet(N) /\ \A i \in N : f[i] \in Int
    BY <1>2, <1>4, <2>7
  <2>9. SumFunctionOnSet(f, N) = f[1] + SumFunctionOnSet(f, N \ {1})
    BY <2>8, SumFacts
  <2>a. SumFunctionOnSet(g, S) \in Int
    <3>1. \A i \in S : g[i] \in Int
      BY <1>4, <2>1
    <3> QED BY <2>4, <3>1, SumFacts
  <2>10. SumFunctionOnSet(g, 1..m) = SumFunctionOnSet(f, 1..n) - f[1]
    BY <2>1, <2>3, <2>6, <2>7, <2>8, <2>9, <2>a
  <2>11. f[1] = (IF accts[1].user \in U THEN accts[1].net ELSE 0) /\ accts[1].net \in Int
    BY <1>2, <1>4, <2>7, <2>8
  <2> QED BY <1>0, <1>3, <1>5, <1>6, <2>10, <2>11
<1>7. CASE x # 0
  <2>1. PICK S : S = 1..n
    OBVIOUS
  <2>2. /\ IsFiniteSet(S) /\ 1 \in S /\ S = 1..m
        /\ \A i \in S : f[i] \in Int
        /\ \A i \in S \ {1} : g[i] = f[i]
    <3>1. m = n /\ IsFiniteSet(S) /\ 1 \in S
      <4>1. m = n
        BY <1>1, <1>7 DEF m, n
      <4> QED BY <1>2, <2>1, <4>1
    <3>2. \A i \in S : f[i] \in Int
      BY <1>4, <2>1
    <3>3. ASSUME NEW i \in S \ {1} PROVE g[i] = f[i]
      <4>1. i \in 1..n /\ i \in 1..m /\ i \in 2..m
        BY <1>2, <2>1, <3>1, <3>3
      <4>2. a[i] = accts[i]
        BY <1>1, <1>7, <4>1 DEF m
      <4> QED BY <1>4, <4>1, <4>2
    <3> QED BY <2>1, <3>1, <3>2, <3>3
  <2>3. g[1] \in Int /\ g[1] = IF accts[1].user \in U THEN x ELSE 0
    BY <1>1, <1>4, <1>7, <2>2
  <2>4. SumFunctionOnSet(g, S) = SumFunctionOnSet(f, S) - f[1] + g[1]
    <3>1. PICK i : i = 1
      OBVIOUS
    <3>2. /\ IsFiniteSet(S) /\ i \in S /\ g[i] \in Int
          /\ \A k \in S : f[k] \in Int
          /\ \A k \in S \ {i} : g[k] = f[k]
      BY <2>2, <2>3, <3>1
    <3>3. SumFunctionOnSet(g, S) = SumFunctionOnSet(f, S) - f[i] + g[i]
      BY <3>2, SumChanged
    <3> QED BY <3>1, <3>3
  <2>5. f[1] = (IF accts[1].user \in U THEN accts[1].net ELSE 0) /\ accts[1].net \in Int
    BY <1>2, <1>4, <2>1, <2>2
  <2>6. SumFunctionOnSet(g, 1..m) = SumFunctionOnSet(f, 1..n) - f[1] + g[1]
    BY <2>1, <2>2, <2>4
  <2> QED BY <1>0, <1>3, <1>5, <2>3, <2>5, <2>6
<1> QED BY <1>5, <1>3, <1>6, <1>7

\* A transfer counts for who sends and who receives it.
LEMMA AppendedTransfer ==
  ASSUME NEW M, NEW plan \in Seq(TransferOf(M)), NEW t \in TransferOf(M), NEW u
  PROVE  /\ Sent(plan, u) \in Int /\ Received(plan, u) \in Int
         /\ Sent(Append(plan, t), u) = Sent(plan, u) + IF t.From = u THEN t.Amount ELSE 0
         /\ Received(Append(plan, t), u) = Received(plan, u) + IF t.To = u THEN t.Amount ELSE 0
<1>0. PICK p : p = Append(plan, t)
  OBVIOUS
<1> DEFINE n == Len(plan)
           f == [k \in 1..n |-> IF plan[k].From = u THEN plan[k].Amount ELSE 0]
           g == [k \in 1..n |-> IF plan[k].To = u THEN plan[k].Amount ELSE 0]
           ff == [k \in 1..(n + 1) |-> IF p[k].From = u THEN p[k].Amount ELSE 0]
           gg == [k \in 1..(n + 1) |-> IF p[k].To = u THEN p[k].Amount ELSE 0]
<1>1. /\ n \in Nat /\ DOMAIN plan = 1..n /\ DOMAIN p = 1..(n + 1) /\ p[n + 1] = t
      /\ \A k \in 1..n : p[k] = plan[k] /\ plan[k] \in TransferOf(M)
  BY <1>0
<1>2. /\ Sent(plan, u) = SumFunctionOnSet(f, 1..n)
      /\ Received(plan, u) = SumFunctionOnSet(g, 1..n)
      /\ Sent(p, u) = SumFunctionOnSet(ff, 1..(n + 1))
      /\ Received(p, u) = SumFunctionOnSet(gg, 1..(n + 1))
  BY <1>1 DEF Sent, Received
<1>3. \A d \in TransferOf(M) : d.Amount \in Int
  BY DEF TransferOf
<1> HIDE DEF n
<1>4. /\ \A k \in 1..n : f[k] \in Int /\ g[k] \in Int /\ ff[k] = f[k] /\ gg[k] = g[k]
      /\ ff[n + 1] = IF t.From = u THEN t.Amount ELSE 0
      /\ gg[n + 1] = IF t.To = u THEN t.Amount ELSE 0
      /\ ff[n + 1] \in Int /\ gg[n + 1] \in Int
  BY <1>1, <1>3
<1> HIDE DEF f, g, ff, gg
<1>5. PICK S, i : S = 1..n /\ i = n + 1
  OBVIOUS
<1>6. i \notin S /\ S \cup {i} = 1..(n + 1) /\ IsFiniteSet(S)
  <2>1. i \notin S /\ S \cup {i} = 1..(n + 1) /\ 1 \in Int /\ n \in Int
    BY <1>1, <1>5
  <2>2. IsFiniteSet(1..n)
    BY <2>1, FS_Interval
  <2> QED BY <1>5, <2>1, <2>2
<1>7. \A k \in S : f[k] \in Int /\ g[k] \in Int /\ ff[k] = f[k] /\ gg[k] = g[k]
  BY <1>4, <1>5
<1>8. /\ SumFunctionOnSet(ff, S \cup {i}) = SumFunctionOnSet(f, S) + ff[i]
      /\ SumFunctionOnSet(gg, S \cup {i}) = SumFunctionOnSet(g, S) + gg[i]
  <2>1. /\ IsFiniteSet(S) /\ i \notin S /\ ff[i] \in Int /\ gg[i] \in Int
        /\ \A k \in S : f[k] \in Int /\ ff[k] = f[k]
        /\ \A k \in S : g[k] \in Int /\ gg[k] = g[k]
    BY <1>4, <1>5, <1>6, <1>7
  <2> QED BY <2>1, SumExtended
<1>9. SumFunctionOnSet(f, S) \in Int /\ SumFunctionOnSet(g, S) \in Int
  BY <1>6, <1>7, SumFacts
<1> QED BY <1>0, <1>2, <1>4, <1>5, <1>6, <1>8, <1>9
-----------------------------------------------------------------------------
\* The loop of computePlan, from the balances of M: who is listed is listed on
\* their side of zero, what is listed adds up to nothing, and what a member has
\* sent and received is what is missing in the lists from the balance.
Loop(M, net, s) ==
  /\ s.debtors \in Seq(AcctOf(M)) /\ s.creditors \in Seq(AcctOf(M))
  /\ s.plan \in Seq(TransferOf(M))
  /\ \A i \in 1..Len(s.debtors) : s.debtors[i].net < 0
  /\ \A i \in 1..Len(s.creditors) : s.creditors[i].net > 0
  /\ Rest(s.debtors, M) + Rest(s.creditors, M) = 0
  /\ \A u \in M : net[u] + Sent(s.plan, u) - Received(s.plan, u) =
                    Rest(s.debtors, {u}) + Rest(s.creditors, {u})

\* A turn keeps it.
LEMMA LoopTurn ==
  ASSUME NEW M, NEW net \in [M -> Int], NEW s, Loop(M, net, s), ~Matched(s)
  PROVE  Loop(M, net, MatchHeads(s))
<1> DEFINE d == s.debtors[1]
           c == s.creditors[1]
           amt == AmountOf(d, c)
           e == [From |-> d.user, To |-> c.user, Amount |-> amt]
           x == d.net + amt
           y == c.net - amt
           t == MatchHeads(s)
<1>1. /\ s.debtors \in Seq(AcctOf(M)) /\ s.creditors \in Seq(AcctOf(M))
      /\ s.debtors # << >> /\ s.creditors # << >> /\ s.plan \in Seq(TransferOf(M))
  BY DEF Loop, Matched
<1>2. /\ t.debtors = Advance(s.debtors, x) /\ t.creditors = Advance(s.creditors, y)
      /\ t.plan = Append(s.plan, e)
  BY DEF MatchHeads
<1>3. amt = IF c.net < -d.net THEN c.net ELSE -d.net
  BY DEF AmountOf
<1>4. /\ Len(s.debtors) \in Nat \ {0} /\ Len(s.creditors) \in Nat \ {0}
      /\ d.net \in Int /\ c.net \in Int /\ d.user \in M /\ c.user \in M
      /\ d.net < 0 /\ c.net > 0
  <2>1. Len(s.debtors) \in Nat \ {0} /\ Len(s.creditors) \in Nat \ {0}
    BY <1>1, EmptySeq
  <2>2. 1 \in 1..Len(s.debtors) /\ 1 \in 1..Len(s.creditors)
    BY <2>1
  <2> QED BY <1>1, <2>1, <2>2, AcctFacts DEF Loop
<1> HIDE DEF d, c, amt, x, y, e, t
<1>5. amt \in Int /\ x \in Int /\ y \in Int /\ x <= 0 /\ y >= 0
  BY <1>3, <1>4 DEF x, y
<1>6. e \in TransferOf(M) /\ e.From = d.user /\ e.To = c.user /\ e.Amount = amt
  BY <1>4, <1>5 DEF e, TransferOf
<1>7. t.debtors \in Seq(AcctOf(M)) /\ t.creditors \in Seq(AcctOf(M))
      /\ t.plan \in Seq(TransferOf(M))
  <2>1. t.debtors \in Seq(AcctOf(M)) /\ t.creditors \in Seq(AcctOf(M))
    <3>1. PICK ds \in Seq(AcctOf(M)), cs \in Seq(AcctOf(M)) : ds = s.debtors /\ cs = s.creditors
      BY <1>1
    <3>2. Advance(ds, x) \in Seq(AcctOf(M)) /\ Advance(cs, y) \in Seq(AcctOf(M))
      BY <1>1, <1>5, <3>1, Advanced
    <3> QED BY <1>2, <3>1, <3>2
  <2>2. t.plan \in Seq(TransferOf(M))
    BY <1>1, <1>2, <1>6
  <2> QED BY <2>1, <2>2
<1>8. \A i \in 1..Len(t.debtors) : t.debtors[i].net < 0
  <2>1. PICK l \in Seq(AcctOf(M)) : l = s.debtors /\ l # << >>
    BY <1>1
  <2>2. PICK a : a = Advance(l, x)
    OBVIOUS
  <2>3. /\ a \in Seq(AcctOf(M))
        /\ x = 0 => Len(a) = Len(l) - 1 /\ \A i \in 1..Len(a) : a[i] = l[i + 1]
        /\ x # 0 => /\ Len(a) = Len(l) /\ a[1] = [user |-> l[1].user, net |-> x]
                    /\ \A i \in 2..Len(a) : a[i] = l[i]
    BY <1>5, <2>1, <2>2, Advanced
  <2>4. Len(l) \in Nat /\ Len(a) \in Nat /\ \A i \in 1..Len(l) : l[i].net < 0
    BY <2>1, <2>3 DEF Loop
  <2>5. ASSUME NEW i \in 1..Len(a) PROVE a[i].net < 0
    <3>1. CASE x = 0
      BY <2>3, <2>4, <3>1
    <3>2. CASE x # 0 /\ i = 1
      BY <1>5, <2>3, <3>2
    <3>3. CASE x # 0 /\ i # 1
      <4>1. i \in 2..Len(a) /\ i \in 1..Len(l)
        BY <2>3, <2>4, <3>3
      <4> QED BY <2>3, <2>4, <3>3, <4>1
    <3> QED BY <3>1, <3>2, <3>3
  <2> QED BY <1>2, <2>1, <2>2, <2>5
<1>9. \A i \in 1..Len(t.creditors) : t.creditors[i].net > 0
  <2>1. PICK l \in Seq(AcctOf(M)) : l = s.creditors /\ l # << >>
    BY <1>1
  <2>2. PICK a : a = Advance(l, y)
    OBVIOUS
  <2>3. /\ a \in Seq(AcctOf(M))
        /\ y = 0 => Len(a) = Len(l) - 1 /\ \A i \in 1..Len(a) : a[i] = l[i + 1]
        /\ y # 0 => /\ Len(a) = Len(l) /\ a[1] = [user |-> l[1].user, net |-> y]
                    /\ \A i \in 2..Len(a) : a[i] = l[i]
    BY <1>5, <2>1, <2>2, Advanced
  <2>4. Len(l) \in Nat /\ Len(a) \in Nat /\ \A i \in 1..Len(l) : l[i].net > 0
    BY <2>1, <2>3 DEF Loop
  <2>5. ASSUME NEW i \in 1..Len(a) PROVE a[i].net > 0
    <3>1. CASE y = 0
      BY <2>3, <2>4, <3>1
    <3>2. CASE y # 0 /\ i = 1
      BY <1>5, <2>3, <3>2
    <3>3. CASE y # 0 /\ i # 1
      <4>1. i \in 2..Len(a) /\ i \in 1..Len(l)
        BY <2>3, <2>4, <3>3
      <4> QED BY <2>3, <2>4, <3>3, <4>1
    <3> QED BY <3>1, <3>2, <3>3
  <2> QED BY <1>2, <2>1, <2>2, <2>5
<1>10. ASSUME NEW U
       PROVE  /\ Rest(s.debtors, U) \in Int /\ Rest(s.creditors, U) \in Int
              /\ Rest(t.debtors, U) = Rest(s.debtors, U) + IF d.user \in U THEN amt ELSE 0
              /\ Rest(t.creditors, U) = Rest(s.creditors, U) - IF c.user \in U THEN amt ELSE 0
  <2>1. /\ Rest(s.debtors, U) \in Int
        /\ Rest(t.debtors, U) = Rest(s.debtors, U) + IF d.user \in U THEN x - d.net ELSE 0
    BY <1>1, <1>2, <1>5, AdvancedRest DEF d
  <2>2. /\ Rest(s.creditors, U) \in Int
        /\ Rest(t.creditors, U) = Rest(s.creditors, U) + IF c.user \in U THEN y - c.net ELSE 0
    BY <1>1, <1>2, <1>5, AdvancedRest DEF c
  <2>3. x - d.net = amt /\ y - c.net = -amt
    BY <1>4, <1>5 DEF x, y
  <2> QED BY <1>5, <2>1, <2>2, <2>3
<1>11. Rest(t.debtors, M) + Rest(t.creditors, M) = 0
  BY <1>4, <1>5, <1>10 DEF Loop
<1>12. ASSUME NEW u \in M
       PROVE  net[u] + Sent(t.plan, u) - Received(t.plan, u) =
                Rest(t.debtors, {u}) + Rest(t.creditors, {u})
  <2>1. /\ Sent(s.plan, u) \in Int /\ Received(s.plan, u) \in Int
        /\ Sent(t.plan, u) = Sent(s.plan, u) + IF d.user = u THEN amt ELSE 0
        /\ Received(t.plan, u) = Received(s.plan, u) + IF c.user = u THEN amt ELSE 0
    BY <1>1, <1>2, <1>6, AppendedTransfer
  <2>2. /\ Rest(s.debtors, {u}) \in Int /\ Rest(s.creditors, {u}) \in Int
        /\ Rest(t.debtors, {u}) = Rest(s.debtors, {u}) + IF d.user = u THEN amt ELSE 0
        /\ Rest(t.creditors, {u}) = Rest(s.creditors, {u}) - IF c.user = u THEN amt ELSE 0
    BY <1>10
  <2>3. net[u] + Sent(s.plan, u) - Received(s.plan, u) =
          Rest(s.debtors, {u}) + Rest(s.creditors, {u})
    BY DEF Loop
  <2> QED BY <1>5, <2>1, <2>2, <2>3
<1> QED BY <1>7, <1>8, <1>9, <1>11, <1>12 DEF Loop, t
-----------------------------------------------------------------------------
\* A one-to-one sequence of the elements of a finite set names all of them.
LEMMA Enumerates ==
  ASSUME NEW S, IsFiniteSet(S), NEW q \in [1..Cardinality(S) -> S],
         \A a, b \in 1..Cardinality(S) : q[a] = q[b] => a = b
  PROVE  Renames(q, 1..Cardinality(S), S)
<1>1. PICK n : n = Cardinality(S) /\ n \in Nat
  BY FS_CardinalityType
<1>2. PICK N : N = 1..n
  OBVIOUS
<1>3. q \in Injection(N, S)
  BY <1>1, <1>2 DEF Injection, IsInjective
<1>4. Cardinality(N) = n
  <2>1. 1 \in Int /\ n \in Int
    BY <1>1
  <2>2. Cardinality(1..n) = IF 1 > n THEN 0 ELSE n - 1 + 1
    BY ONLY <2>1, FS_Interval
  <2> QED BY <1>1, <1>2, <2>2
<1>5. q \in Surjection(N, S)
  BY <1>1, <1>3, <1>4, FS_Injection
<1>6. \A y \in S : \E x \in N : q[x] = y
  BY <1>5 DEF Surjection
<1> QED BY <1>1, <1>2, <1>6 DEF Renames

\* A sum over some of the elements is one over all with zero for the others.
LEMMA SumOfSome ==
  ASSUME NEW M, IsFiniteSet(M), NEW S \in SUBSET M, NEW f, \A x \in S : f[x] \in Int,
         NEW h, \A x \in M : h[x] = IF x \in S THEN f[x] ELSE 0
  PROVE  SumFunctionOnSet(f, S) = SumFunctionOnSet(h, M)
<1> DEFINE C == {s \in SUBSET M : SumFunctionOnSet(f, s \cap S) = SumFunctionOnSet(h, s)}
<1>1. \A x \in M : h[x] \in Int
  OBVIOUS
<1>2. {} \in C
  <2>1. PICK z : z = {}
    OBVIOUS
  <2>2. IsFiniteSet(z) /\ (\A x \in z : f[x] \in Int) /\ (\A x \in z : h[x] \in Int)
    BY <2>1, FS_EmptySet
  <2>3. SumFunctionOnSet(f, z) = 0 /\ SumFunctionOnSet(h, z) = 0
    BY <2>1, <2>2, SumFacts
  <2>4. z \cap S = z
    BY <2>1
  <2> QED BY <2>1, <2>3, <2>4
<1>3. ASSUME NEW s \in SUBSET M, NEW x \in s, s \ {x} \in C PROVE s \in C
  <2>1. PICK r, t, rr, tt : r = s /\ t = s \cap S /\ rr = s \ {x} /\ tt = (s \ {x}) \cap S
    OBVIOUS
  <2>2. IsFiniteSet(r) /\ IsFiniteSet(t)
    <3>1. r \in SUBSET M /\ t \in SUBSET M
      BY <2>1
    <3> QED BY <3>1, FS_Subset
  <2>3. SumFunctionOnSet(h, r) = h[x] + SumFunctionOnSet(h, r \ {x})
    <3>1. \A y \in r : h[y] \in Int
      BY <1>1, <2>1
    <3> QED BY <2>1, <2>2, <3>1, SumFacts
  <2>4. SumFunctionOnSet(f, tt) = SumFunctionOnSet(h, rr)
    BY <1>3, <2>1
  <2>5. SumFunctionOnSet(h, rr) \in Int
    <3>1. IsFiniteSet(rr) /\ \A y \in rr : h[y] \in Int
      BY <1>1, <2>1, <2>2, FS_RemoveElement
    <3> QED BY <3>1, SumFacts
  <2>6. CASE x \in S
    <3>1. \A y \in t : f[y] \in Int
      BY <2>1
    <3>2. SumFunctionOnSet(f, t) = f[x] + SumFunctionOnSet(f, t \ {x})
      BY <2>1, <2>2, <2>6, <3>1, SumFacts
    <3>3. t \ {x} = tt /\ r \ {x} = rr /\ h[x] = f[x]
      BY <2>1, <2>6
    <3>4. SumFunctionOnSet(f, t) = SumFunctionOnSet(h, r)
      BY <2>3, <2>4, <3>2, <3>3
    <3> QED BY <2>1, <3>4
  <2>7. CASE x \notin S
    <3>1. t = tt /\ r \ {x} = rr /\ h[x] = 0
      BY <2>1, <2>7
    <3>2. SumFunctionOnSet(h, r) = 0 + SumFunctionOnSet(h, rr)
      BY <2>3, <3>1
    <3>3. SumFunctionOnSet(f, t) = SumFunctionOnSet(h, r)
      BY <2>4, <2>5, <3>1, <3>2
    <3> QED BY <2>1, <3>3
  <2> QED BY <2>6, <2>7
<1>4. SUBSET M \subseteq C
  <2>1. PICK c : c = C
    OBVIOUS
  <2>2. {} \in c /\ \A s \in SUBSET M : \A x \in s : s \ {x} \in c => s \in c
    BY <1>2, <1>3, <2>1
  <2>3. SUBSET M \subseteq c
    BY <2>2, SubsetInduction
  <2> QED BY <2>1, <2>3
<1>5. M \cap S = S
  OBVIOUS
<1>6. M \in C
  BY <1>4
<1> QED BY <1>5, <1>6

\* The balances of those in both S and U, and zero for the others of M.
Of(M, net, S, U) == [u \in M |-> IF u \in S /\ u \in U THEN net[u] ELSE 0]

\* The list of the accounts of S, in any order.
LEMMA ListedRest ==
  ASSUME NEW M, IsFiniteSet(M), NEW net \in [M -> Int], NEW S \in SUBSET M,
         NEW q \in [1..Cardinality(S) -> S],
         Renames(q, 1..Cardinality(S), S)
  PROVE  /\ Accounts(q, net) \in Seq(AcctOf(M))
         /\ Len(Accounts(q, net)) = Cardinality(S)
         /\ \A i \in 1..Cardinality(S) : Accounts(q, net)[i] = [user |-> q[i], net |-> net[q[i]]]
         /\ \A U : Rest(Accounts(q, net), U) = SumFunctionOnSet(Of(M, net, S, U), M)
<1>1. PICK n : n = Cardinality(S) /\ n \in Nat
  BY FS_Subset, FS_CardinalityType
<1>2. PICK l : l = Accounts(q, net)
  OBVIOUS
<1>3. l = [i \in 1..n |-> [user |-> q[i], net |-> net[q[i]]]]
  BY <1>1, <1>2 DEF Accounts
<1>4. \A i \in 1..n : [user |-> q[i], net |-> net[q[i]]] \in AcctOf(M)
  BY <1>1 DEF AcctOf
<1>5. l \in [1..n -> AcctOf(M)]
  BY <1>3, <1>4
<1>6. l \in Seq(AcctOf(M)) /\ Len(l) = n
  BY <1>1, <1>5
<1>7. ASSUME NEW U
      PROVE  Rest(l, U) = SumFunctionOnSet(Of(M, net, S, U), M)
  <2>1. PICK N : N = 1..n
    OBVIOUS
  <2>2. PICK f : f = [u \in S |-> IF u \in U THEN net[u] ELSE 0]
    OBVIOUS
  <2>3. PICK g : g = [i \in N |-> IF l[i].user \in U THEN l[i].net ELSE 0]
    OBVIOUS
  <2>4. PICK h : h = [u \in M |-> IF u \in S /\ u \in U THEN net[u] ELSE 0]
    OBVIOUS
  <2>5. IsFiniteSet(N) /\ IsFiniteSet(S)
    <3>1. 1 \in Int /\ n \in Int
      BY <1>1
    <3>2. IsFiniteSet(1..n)
      BY <3>1, FS_Interval
    <3> QED BY <2>1, <3>2, FS_Subset
  <2>6. Renames(q, N, S)
    BY <1>1, <2>1
  <2>7. \A i \in N : q[i] \in S /\ l[i].user = q[i] /\ l[i].net = net[q[i]]
    BY <1>1, <1>3, <2>1
  <2>8. /\ \A i \in N : f[q[i]] \in Int
        /\ \A i \in N : g[i] = f[q[i]]
    BY <2>2, <2>3, <2>7
  <2>9. SumFunctionOnSet(f, S) = SumFunctionOnSet(g, N)
    <3>1. PICK p, T : p = q /\ T = S
      OBVIOUS
    <3>2. /\ IsFiniteSet(N) /\ Renames(p, N, T)
          /\ \A i \in N : f[p[i]] \in Int
          /\ \A i \in N : g[i] = f[p[i]]
      BY <2>5, <2>6, <2>8, <3>1
    <3>3. SumFunctionOnSet(f, T) = SumFunctionOnSet(g, N)
      BY ONLY <3>2, SumRenamed
    <3> QED BY <3>1, <3>3
  <2>10. SumFunctionOnSet(f, S) = SumFunctionOnSet(h, M)
    <3>1. \A x \in S : f[x] \in Int
      BY <2>2
    <3>2. \A x \in M : h[x] = IF x \in S THEN f[x] ELSE 0
      BY <2>2, <2>4
    <3> QED BY <3>1, <3>2, SumOfSome
  <2>11. DOMAIN l = N
    BY <1>3, <2>1
  <2>12. Rest(l, U) = SumFunctionOnSet(g, N)
    BY <2>3, <2>11 DEF Rest
  <2> QED BY <2>4, <2>9, <2>10, <2>12 DEF Of
<1> QED BY <1>1, <1>2, <1>3, <1>6, <1>7

\* What is sorted: B[u] are the elements after u, in an order of all of S.
Orders(B, S) ==
  /\ \A u, v \in S : u # v => v \in B[u] \/ u \in B[v]
  /\ \A u, v, w \in S : v \in B[u] /\ w \in B[v] => w \in B[u]
  /\ \A u \in S : u \notin B[u]

Sorted(B, S, q) ==
  /\ q \in [1..Cardinality(S) -> S]
  /\ \A a, b \in 1..Cardinality(S) : a < b => q[b] \in B[q[a]]

\* A finite set has a last element ...
LEMMA LastExists ==
  ASSUME NEW S, IsFiniteSet(S), S # {}, NEW B, Orders(B, S)
  PROVE  \E m \in S : \A u \in S \ {m} : m \in B[u]
<1> DEFINE C == {s \in SUBSET S : s = {} \/ \E m \in s : \A u \in s \ {m} : m \in B[u]}
<1>1. {} \in C
  OBVIOUS
<1>2. ASSUME NEW s \in SUBSET S, NEW x \in s, s \ {x} \in C PROVE s \in C
  <2>1. CASE s \ {x} = {}
    BY <2>1
  <2>2. CASE s \ {x} # {}
    <3>1. PICK m \in s \ {x} : \A u \in (s \ {x}) \ {m} : m \in B[u]
      BY <1>2, <2>2
    <3>2. CASE m \in B[x]
      <4>1. \A u \in s \ {m} : m \in B[u]
        BY <3>1, <3>2
      <4> QED BY <4>1
    <3>3. CASE x \in B[m]
      <4>1. \A u \in s \ {x} : x \in B[u]
        BY <3>1, <3>3 DEF Orders
      <4> QED BY <4>1
    <3> QED BY <3>2, <3>3 DEF Orders
  <2> QED BY <2>1, <2>2
<1>3. SUBSET S \subseteq C
  <2>1. PICK c : c = C
    OBVIOUS
  <2>2. {} \in c /\ \A s \in SUBSET S : \A x \in s : s \ {x} \in c => s \in c
    BY <1>1, <1>2, <2>1
  <2>3. SUBSET S \subseteq c
    BY <2>2, SubsetInduction
  <2> QED BY <2>1, <2>3
<1> QED BY <1>3

\* ... so it can be sorted: the last element comes after the others, sorted.
LEMMA SortedExists ==
  ASSUME NEW S, IsFiniteSet(S), NEW B, Orders(B, S)
  PROVE  \E q : Sorted(B, S, q)
<1> DEFINE C == {s \in SUBSET S : \E q : Sorted(B, s, q)}
<1>1. {} \in C
  <2>1. PICK z : z = {} /\ Cardinality(z) = 0
    BY FS_EmptySet
  <2>2. PICK q : q = [i \in 1..0 |-> i]
    OBVIOUS
  <2>3. 1..Cardinality(z) = {} /\ 1..0 = {}
    BY <2>1
  <2>4. Sorted(B, z, q)
    BY <2>2, <2>3 DEF Sorted
  <2> QED BY <2>1, <2>4
<1>2. ASSUME NEW s \in SUBSET S, s # {}, \A x \in s : s \ {x} \in C PROVE s \in C
  <2>1. IsFiniteSet(s) /\ Orders(B, s)
    <3>1. IsFiniteSet(s)
      BY FS_Subset
    <3>2. Orders(B, s)
      BY DEF Orders
    <3> QED BY <3>1, <3>2
  <2>2. PICK m \in s : \A u \in s \ {m} : m \in B[u]
    BY <1>2, <2>1, LastExists
  <2>3. PICK q : Sorted(B, s \ {m}, q)
    BY <1>2
  <2>4. PICK n : n = Cardinality(s \ {m}) /\ n \in Nat /\ Cardinality(s) = n + 1
    BY SubsetFacts
  <2>5. /\ q \in [1..n -> s \ {m}]
        /\ \A a, b \in 1..n : a < b => q[b] \in B[q[a]]
    BY <2>3, <2>4 DEF Sorted
  <2>6. PICK p : p = [i \in 1..(n + 1) |-> IF i = n + 1 THEN m ELSE q[i]]
    OBVIOUS
  <2>7. p \in [1..(n + 1) -> s] /\ p[n + 1] = m /\ \A i \in 1..n : p[i] = q[i]
    <3>1. \A i \in 1..(n + 1) : i # n + 1 => i \in 1..n
      BY <2>4
    <3>2. \A i \in 1..(n + 1) : (IF i = n + 1 THEN m ELSE q[i]) \in s
      BY <2>5, <3>1
    <3>3. n + 1 \in 1..(n + 1) /\ \A i \in 1..n : i \in 1..(n + 1) /\ i # n + 1
      BY <2>4
    <3> QED BY <2>6, <3>2, <3>3
  <2>8. ASSUME NEW a \in 1..(n + 1), NEW b \in 1..(n + 1), a < b PROVE p[b] \in B[p[a]]
    <3>0. a \in 1..n
      BY <2>4, <2>8
    <3>1. a \in 1..n /\ p[a] = q[a] /\ q[a] \in s \ {m}
      BY <2>5, <2>7, <3>0
    <3>2. CASE b = n + 1
      BY <2>2, <2>7, <3>1, <3>2
    <3>3. CASE b # n + 1
      <4>1. b \in 1..n
        BY <2>4, <3>3
      <4>2. q[b] \in B[q[a]] /\ p[b] = q[b]
        BY <2>5, <2>7, <2>8, <3>1, <4>1
      <4> QED BY <3>1, <4>2
    <3> QED BY <3>2, <3>3
  <2>9. Sorted(B, s, p)
    BY <2>4, <2>7, <2>8 DEF Sorted
  <2> QED BY <2>9
<1>3. SUBSET S \subseteq C
  <2>1. PICK c : c = C
    OBVIOUS
  <2>2. {} \in c /\ \A s \in SUBSET S : s # {} /\ (\A x \in s : s \ {x} \in c) => s \in c
    BY <1>1, <1>2, <2>1
  <2>3. SUBSET S \subseteq c
    BY <2>2, RemovalInduction
  <2> QED BY <2>1, <2>3
<1> QED BY <1>3

\* An order names each element once.
LEMMA SortedNames ==
  ASSUME NEW S, IsFiniteSet(S), NEW B, Orders(B, S), NEW q, Sorted(B, S, q)
  PROVE  Renames(q, 1..Cardinality(S), S)
<1>1. PICK n : n = Cardinality(S) /\ n \in Nat
  BY FS_CardinalityType
<1>2. /\ q \in [1..n -> S]
      /\ \A a, b \in 1..n : a < b => q[b] \in B[q[a]]
  BY <1>1 DEF Sorted
<1>3. \A a, b \in 1..n : a < b => q[a] # q[b]
  BY <1>2 DEF Orders
<1>4. \A a, b \in 1..n : q[a] = q[b] => a = b
  BY <1>1, <1>3
<1>5. q \in [1..Cardinality(S) -> S] /\ \A a, b \in 1..Cardinality(S) : q[a] = q[b] => a = b
  BY <1>1, <1>2, <1>4
<1> QED BY ONLY <1>5, IsFiniteSet(S), Enumerates

\* There is one such order: where two of them differ first, each would have to
\* name later what the other names here.
LEMMA SortedOnce ==
  ASSUME NEW S, IsFiniteSet(S), NEW B, Orders(B, S),
         NEW p, Sorted(B, S, p), NEW q, Sorted(B, S, q)
  PROVE  p = q
<1>1. PICK n : n = Cardinality(S) /\ n \in Nat
  BY FS_CardinalityType
<1>2. /\ p \in [1..n -> S] /\ \A a, b \in 1..n : a < b => p[b] \in B[p[a]]
      /\ q \in [1..n -> S] /\ \A a, b \in 1..n : a < b => q[b] \in B[q[a]]
  BY <1>1 DEF Sorted
<1>3. Renames(p, 1..n, S) /\ Renames(q, 1..n, S)
  BY <1>1, SortedNames
<1> DEFINE D == {i \in 1..n : p[i] # q[i]}
<1>4. ASSUME D # {} PROVE FALSE
  <2>1. PICK m \in D : \A k \in D : m <= k
    <3>1. D \in SUBSET Nat
      BY <1>1
    <3> HIDE DEF D
    <3> QED BY <1>4, <3>1, LeastNumber
  <2>2. m \in 1..n /\ p[m] # q[m] /\ \A i \in 1..n : i < m => p[i] = q[i]
    BY <1>1, <2>1
  <2>3. PICK j \in 1..n : p[j] = q[m]
    BY <1>2, <1>3, <2>2 DEF Renames
  <2>4. PICK k \in 1..n : q[k] = p[m]
    BY <1>2, <1>3, <2>2 DEF Renames
  <2>5. m < j
    <3>1. CASE j < m
      <4>1. q[j] = q[m] /\ j # m
        BY <2>2, <2>3, <3>1
      <4> QED BY <1>3, <2>2, <4>1 DEF Renames
    <3>2. j # m
      BY <2>2, <2>3
    <3> QED BY <1>1, <2>2, <3>1, <3>2
  <2>6. m < k
    <3>1. CASE k < m
      <4>1. p[k] = p[m] /\ k # m
        BY <2>2, <2>4, <3>1
      <4> QED BY <1>3, <2>2, <4>1 DEF Renames
    <3>2. k # m
      BY <2>2, <2>4
    <3> QED BY <1>1, <2>2, <3>1, <3>2
  <2>7. q[m] \in B[p[m]] /\ p[m] \in B[q[m]] /\ p[m] \in S /\ q[m] \in S
    BY <1>2, <2>2, <2>3, <2>4, <2>5, <2>6
  <2> QED BY <2>7 DEF Orders
<1>5. \A i \in 1..n : p[i] = q[i]
  BY <1>4
<1>6. PICK N : N = 1..n
  OBVIOUS
<1>7. p \in [N -> S] /\ q \in [N -> S] /\ \A i \in N : p[i] = q[i]
  BY <1>2, <1>5, <1>6
<1> HIDE DEF D
<1> QED BY ONLY <1>7

\* The users of S by id are all of them, each once.
LEMMA ByIdNames ==
  ASSUME NEW S, IsFiniteSet(S), S \subseteq Nat
  PROVE  /\ ById(S) \in [1..Cardinality(S) -> S]
         /\ Renames(ById(S), 1..Cardinality(S), S)
<1>1. PICK B : B = [u \in S |-> {v \in S : u < v}]
  OBVIOUS
<1>2. \A u, v \in S : u \in Nat /\ (v \in B[u] <=> u < v)
  BY <1>1
<1>3. Orders(B, S)
  BY <1>2 DEF Orders
<1>4. PICK p : Sorted(B, S, p)
  BY <1>3, SortedExists
<1>5. PICK n : n = Cardinality(S)
  OBVIOUS
<1>6. p \in [1..n -> S] /\ \A a, b \in 1..n : a < b => p[a] < p[b]
  BY <1>2, <1>4, <1>5 DEF Sorted
<1>7. PICK q : q = ById(S)
  OBVIOUS
<1>8. q \in [1..n -> S] /\ \A a, b \in 1..n : a < b => q[a] < q[b]
  BY <1>5, <1>6, <1>7 DEF ById
<1>9. Sorted(B, S, q)
  <2>1. \A a, b \in 1..n : a < b => q[b] \in B[q[a]]
    BY <1>2, <1>8
  <2> QED BY <1>5, <1>8, <2>1 DEF Sorted
<1>10. Renames(q, 1..Cardinality(S), S)
  BY <1>3, <1>9, SortedNames
<1> QED BY <1>5, <1>7, <1>8, <1>10

\* The two sorts of computePlan have one order each to return.
LEMMA SidesSorted ==
  ASSUME NEW M, IsFiniteSet(M), M \subseteq Nat, NEW net \in [M -> Int]
  PROVE  /\ \E q : SortedDebtors(net) = {q}
         /\ \E q : SortedCreditors(net) = {q}
<1>0. \A u \in M : net[u] \in Int /\ u \in Nat
  OBVIOUS
<1>1. \E q : SortedDebtors(net) = {q}
  <2>1. PICK S : S = Owing(net)
    OBVIOUS
  <2>2. S \in SUBSET M /\ IsFiniteSet(S)
    BY <2>1, FS_Subset DEF Owing
  <2>3. PICK B : B = [u \in S |-> {v \in S : DebtorBefore(net, u, v)}]
    OBVIOUS
  <2>4. \A u, v \in S : v \in B[u] <=> net[u] < net[v] \/ (net[u] = net[v] /\ u < v)
    BY <2>3 DEF DebtorBefore
  <2>5. Orders(B, S)
    <3>1. \A u \in S : net[u] \in Int /\ u \in Nat
      BY <1>0, <2>2
    <3> QED BY <2>4, <3>1 DEF Orders
  <2>6. PICK q : Sorted(B, S, q)
    BY <2>2, <2>5, SortedExists
  <2>7. ASSUME NEW p PROVE p \in SortedDebtors(net) <=> Sorted(B, S, p)
    <3>1. PICK N : N = 1..Cardinality(S)
      OBVIOUS
    <3>2. p \in SortedDebtors(net) <=>
            p \in [N -> S] /\ \A a, b \in N : a < b => DebtorBefore(net, p[a], p[b])
      BY <2>1, <3>1 DEF SortedDebtors
    <3>3. p \in [N -> S] =>
            \A a, b \in N : DebtorBefore(net, p[a], p[b]) <=> p[b] \in B[p[a]]
      BY <2>4 DEF DebtorBefore
    <3> QED BY <3>1, <3>2, <3>3 DEF Sorted
  <2>8. \A p : Sorted(B, S, p) => p = q
    BY <2>2, <2>5, <2>6, SortedOnce
  <2> QED BY <2>6, <2>7, <2>8
<1>2. \E q : SortedCreditors(net) = {q}
  <2>1. PICK S : S = Owed(net)
    OBVIOUS
  <2>2. S \in SUBSET M /\ IsFiniteSet(S)
    BY <2>1, FS_Subset DEF Owed
  <2>3. PICK B : B = [u \in S |-> {v \in S : CreditorBefore(net, u, v)}]
    OBVIOUS
  <2>4. \A u, v \in S : v \in B[u] <=> net[u] > net[v] \/ (net[u] = net[v] /\ u < v)
    BY <2>3 DEF CreditorBefore
  <2>5. Orders(B, S)
    <3>1. \A u \in S : net[u] \in Int /\ u \in Nat
      BY <1>0, <2>2
    <3> QED BY <2>4, <3>1 DEF Orders
  <2>6. PICK q : Sorted(B, S, q)
    BY <2>2, <2>5, SortedExists
  <2>7. ASSUME NEW p PROVE p \in SortedCreditors(net) <=> Sorted(B, S, p)
    <3>1. PICK N : N = 1..Cardinality(S)
      OBVIOUS
    <3>2. p \in SortedCreditors(net) <=>
            p \in [N -> S] /\ \A a, b \in N : a < b => CreditorBefore(net, p[a], p[b])
      BY <2>1, <3>1 DEF SortedCreditors
    <3>3. p \in [N -> S] =>
            \A a, b \in N : CreditorBefore(net, p[a], p[b]) <=> p[b] \in B[p[a]]
      BY <2>4 DEF CreditorBefore
    <3> QED BY <3>1, <3>2, <3>3 DEF Sorted
  <2>8. \A p : Sorted(B, S, p) => p = q
    BY <2>2, <2>5, <2>6, SortedOnce
  <2> QED BY <2>6, <2>7, <2>8
<1> QED BY <1>1, <1>2

\* The loop starts with the sorted accounts of balances that come to nothing.
LEMMA LoopStart ==
  ASSUME NEW M, IsFiniteSet(M), M \subseteq Nat,
         NEW net \in [M -> Int], SumFunctionOnSet(net, M) = 0,
         NEW p \in SortedDebtors(net), NEW q \in SortedCreditors(net),
         NEW s, s = [debtors |-> Accounts(p, net), creditors |-> Accounts(q, net), plan |-> << >>]
  PROVE  Loop(M, net, s)
<1>1. PICK O, C : O = Owing(net) /\ C = Owed(net)
  OBVIOUS
<1>2. /\ O \in SUBSET M /\ \A u \in M : u \in O <=> net[u] < 0
      /\ C \in SUBSET M /\ \A u \in M : u \in C <=> net[u] > 0
  BY <1>1 DEF Owing, Owed
<1>3. /\ p \in [1..Cardinality(O) -> O]
      /\ \A a, b \in 1..Cardinality(O) : a < b => DebtorBefore(net, p[a], p[b])
  BY <1>1 DEF SortedDebtors
<1>4. /\ q \in [1..Cardinality(C) -> C]
      /\ \A a, b \in 1..Cardinality(C) : a < b => CreditorBefore(net, q[a], q[b])
  BY <1>1 DEF SortedCreditors
<1>5. Cardinality(O) \in Nat /\ Cardinality(C) \in Nat
  BY <1>2, FS_Subset, FS_CardinalityType
<1>6. \A u \in M : net[u] \in Int /\ u \in Nat
  OBVIOUS
<1>7. \A u \in M : ~DebtorBefore(net, u, u) /\ ~CreditorBefore(net, u, u)
  BY <1>6 DEF DebtorBefore, CreditorBefore
<1>8. \A a, b \in 1..Cardinality(O) : p[a] = p[b] => a = b
  <2>1. PICK n : n = Cardinality(O) /\ n \in Nat
    BY <1>5
  <2>2. \A a \in 1..n : p[a] \in M
    BY <1>2, <1>3, <2>1
  <2>3. \A a, b \in 1..n : a < b => p[a] # p[b]
    BY <1>3, <1>7, <2>1, <2>2
  <2> QED BY <2>1, <2>3
<1>9. \A a, b \in 1..Cardinality(C) : q[a] = q[b] => a = b
  <2>1. PICK n : n = Cardinality(C) /\ n \in Nat
    BY <1>5
  <2>2. \A a \in 1..n : q[a] \in M
    BY <1>2, <1>4, <2>1
  <2>3. \A a, b \in 1..n : a < b => q[a] # q[b]
    BY <1>4, <1>7, <2>1, <2>2
  <2> QED BY <2>1, <2>3
<1>10. PICK ds, cs : ds = Accounts(p, net) /\ cs = Accounts(q, net)
  OBVIOUS
<1>11. /\ ds \in Seq(AcctOf(M)) /\ Len(ds) = Cardinality(O)
       /\ \A i \in 1..Cardinality(O) : ds[i] = [user |-> p[i], net |-> net[p[i]]]
       /\ \A U : Rest(ds, U) = SumFunctionOnSet(Of(M, net, O, U), M)
  <2>0. PICK m, n, T, r : m = M /\ n = net /\ T = O /\ r = p
    OBVIOUS
  <2>1. /\ IsFiniteSet(m) /\ n \in [m -> Int] /\ T \in SUBSET m /\ r \in [1..Cardinality(T) -> T]
        /\ Renames(r, 1..Cardinality(T), T)
    <3>1. /\ IsFiniteSet(T) /\ r \in [1..Cardinality(T) -> T]
          /\ \A a, b \in 1..Cardinality(T) : r[a] = r[b] => a = b
      BY <1>2, <1>3, <1>8, <2>0, FS_Subset
    <3>2. Renames(r, 1..Cardinality(T), T)
      BY ONLY <3>1, Enumerates
    <3> QED BY <1>2, <2>0, <3>1, <3>2
  <2>2. /\ Accounts(r, n) \in Seq(AcctOf(m)) /\ Len(Accounts(r, n)) = Cardinality(T)
        /\ \A i \in 1..Cardinality(T) : Accounts(r, n)[i] = [user |-> r[i], net |-> n[r[i]]]
        /\ \A U : Rest(Accounts(r, n), U) = SumFunctionOnSet(Of(m, n, T, U), m)
    <3>1. Accounts(r, n) \in Seq(AcctOf(m)) /\ Len(Accounts(r, n)) = Cardinality(T)
      BY ONLY <2>1, ListedRest
    <3>2. ASSUME NEW i \in 1..Cardinality(T)
          PROVE  Accounts(r, n)[i] = [user |-> r[i], net |-> n[r[i]]]
      BY ONLY <2>1, ListedRest
    <3>3. ASSUME NEW U
          PROVE  Rest(Accounts(r, n), U) = SumFunctionOnSet(Of(m, n, T, U), m)
      BY ONLY <2>1, ListedRest
    <3> QED BY <3>1, <3>2, <3>3
  <2> QED BY <1>10, <2>0, <2>2
<1>12. /\ cs \in Seq(AcctOf(M)) /\ Len(cs) = Cardinality(C)
       /\ \A i \in 1..Cardinality(C) : cs[i] = [user |-> q[i], net |-> net[q[i]]]
       /\ \A U : Rest(cs, U) = SumFunctionOnSet(Of(M, net, C, U), M)
  <2>0. PICK m, n, T, r : m = M /\ n = net /\ T = C /\ r = q
    OBVIOUS
  <2>1. /\ IsFiniteSet(m) /\ n \in [m -> Int] /\ T \in SUBSET m /\ r \in [1..Cardinality(T) -> T]
        /\ Renames(r, 1..Cardinality(T), T)
    <3>1. /\ IsFiniteSet(T) /\ r \in [1..Cardinality(T) -> T]
          /\ \A a, b \in 1..Cardinality(T) : r[a] = r[b] => a = b
      BY <1>2, <1>4, <1>9, <2>0, FS_Subset
    <3>2. Renames(r, 1..Cardinality(T), T)
      BY ONLY <3>1, Enumerates
    <3> QED BY <1>2, <2>0, <3>1, <3>2
  <2>2. /\ Accounts(r, n) \in Seq(AcctOf(m)) /\ Len(Accounts(r, n)) = Cardinality(T)
        /\ \A i \in 1..Cardinality(T) : Accounts(r, n)[i] = [user |-> r[i], net |-> n[r[i]]]
        /\ \A U : Rest(Accounts(r, n), U) = SumFunctionOnSet(Of(m, n, T, U), m)
    <3>1. Accounts(r, n) \in Seq(AcctOf(m)) /\ Len(Accounts(r, n)) = Cardinality(T)
      BY ONLY <2>1, ListedRest
    <3>2. ASSUME NEW i \in 1..Cardinality(T)
          PROVE  Accounts(r, n)[i] = [user |-> r[i], net |-> n[r[i]]]
      BY ONLY <2>1, ListedRest
    <3>3. ASSUME NEW U
          PROVE  Rest(Accounts(r, n), U) = SumFunctionOnSet(Of(m, n, T, U), m)
      BY ONLY <2>1, ListedRest
    <3> QED BY <3>1, <3>2, <3>3
  <2> QED BY <1>10, <2>0, <2>2
<1>13. s.debtors = ds /\ s.creditors = cs /\ s.plan = << >>
  BY <1>10
<1>14. \A i \in 1..Len(ds) : ds[i].net < 0
  <2>1. \A i \in 1..Len(ds) : p[i] \in O /\ ds[i].net = net[p[i]]
    BY <1>3, <1>11
  <2> QED BY <1>2, <2>1
<1>15. \A i \in 1..Len(cs) : cs[i].net > 0
  <2>1. \A i \in 1..Len(cs) : q[i] \in C /\ cs[i].net = net[q[i]]
    BY <1>4, <1>12
  <2> QED BY <1>2, <2>1
<1>16. ASSUME NEW U
       PROVE  Rest(ds, U) + Rest(cs, U) =
                SumFunctionOnSet([u \in M |-> IF u \in U THEN net[u] ELSE 0], M)
  <2>1. PICK f, g, h : /\ f = [u \in M |-> IF u \in O /\ u \in U THEN net[u] ELSE 0]
                       /\ g = [u \in M |-> IF u \in C /\ u \in U THEN net[u] ELSE 0]
                       /\ h = [u \in M |-> IF u \in U THEN net[u] ELSE 0]
    OBVIOUS
  <2>2. \A x \in M : f[x] \in Int /\ g[x] \in Int /\ h[x] = f[x] + g[x]
    BY <1>2, <1>6, <2>1
  <2>4. f = Of(M, net, O, U) /\ g = Of(M, net, C, U)
    BY <2>1 DEF Of
  <2>3. SumFunctionOnSet(h, M) = SumFunctionOnSet(f, M) + SumFunctionOnSet(g, M)
    <3>1. PICK T : T = M
      OBVIOUS
    <3>2. IsFiniteSet(T) /\ \A x \in T : f[x] \in Int /\ g[x] \in Int /\ h[x] = f[x] + g[x]
      BY <2>2, <3>1
    <3>3. SumFunctionOnSet(h, T) = SumFunctionOnSet(f, T) + SumFunctionOnSet(g, T)
      BY ONLY <3>2, SumPlus
    <3> QED BY <3>1, <3>3
  <2> QED BY <1>11, <1>12, <2>1, <2>3, <2>4
<1>17. Rest(ds, M) + Rest(cs, M) = 0
  <2>1. PICK h : h = [u \in M |-> IF u \in M THEN net[u] ELSE 0]
    OBVIOUS
  <2>2. h = net
    BY <2>1
  <2> QED BY <1>16, <2>1, <2>2
<1>18. ASSUME NEW u \in M PROVE Rest(ds, {u}) + Rest(cs, {u}) = net[u]
  <2>1. PICK h : h = [v \in M |-> IF v \in {u} THEN net[v] ELSE 0]
    OBVIOUS
  <2>2. h[u] \in Int /\ h[u] = net[u] /\ \A v \in M \ {u} : h[v] = 0
    BY <1>6, <2>1
  <2>3. SumFunctionOnSet(h, M) = h[u]
    BY <2>2, SumOfOne
  <2> QED BY <1>16, <2>1, <2>2, <2>3
<1>19. ASSUME NEW u \in M PROVE Sent(<< >>, u) = 0 /\ Received(<< >>, u) = 0
  <2>1. PICK f, g, z :
          /\ z = {}
          /\ f = [k \in {} |-> IF << >>[k].From = u THEN << >>[k].Amount ELSE 0]
          /\ g = [k \in {} |-> IF << >>[k].To = u THEN << >>[k].Amount ELSE 0]
    OBVIOUS
  <2>2. IsFiniteSet(z) /\ (\A x \in z : f[x] \in Int) /\ (\A x \in z : g[x] \in Int)
    BY <2>1, FS_EmptySet
  <2>3. SumFunctionOnSet(f, z) = 0 /\ SumFunctionOnSet(g, z) = 0
    BY <2>1, <2>2, SumFacts
  <2>4. DOMAIN << >> = {}
    OBVIOUS
  <2>5. Sent(<< >>, u) = SumFunctionOnSet(f, z) /\ Received(<< >>, u) = SumFunctionOnSet(g, z)
    BY <2>1, <2>4 DEF Sent, Received
  <2> QED BY <2>3, <2>5
<1>20. ASSUME NEW u \in M
       PROVE  net[u] + Sent(s.plan, u) - Received(s.plan, u) =
                Rest(s.debtors, {u}) + Rest(s.creditors, {u})
  BY <1>6, <1>13, <1>18, <1>19
<1>21. << >> \in Seq(TransferOf(M))
  OBVIOUS
<1> QED BY <1>11, <1>12, <1>13, <1>14, <1>15, <1>17, <1>20, <1>21 DEF Loop

\* Accounts on one side of zero that come to nothing are none.
LEMMA OneSided ==
  ASSUME NEW M, NEW accts \in Seq(AcctOf(M)), Rest(accts, M) = 0,
         \/ \A i \in 1..Len(accts) : accts[i].net > 0
         \/ \A i \in 1..Len(accts) : accts[i].net < 0
  PROVE  accts = << >>
<1>1. PICK n : n = Len(accts) /\ n \in Nat
  OBVIOUS
<1>2. PICK N : N = 1..n
  OBVIOUS
<1>3. /\ DOMAIN accts = N /\ IsFiniteSet(N)
      /\ \A i \in N : accts[i].net \in Int /\ accts[i].user \in M
  BY <1>1, <1>2, AcctFacts
<1>4. PICK f : f = [i \in N |-> IF accts[i].user \in M THEN accts[i].net ELSE 0]
  OBVIOUS
<1>5. \A i \in N : f[i] = accts[i].net /\ f[i] \in Int
  BY <1>3, <1>4
<1>6. SumFunctionOnSet(f, N) = 0
  BY <1>3, <1>4 DEF Rest
<1>7. N = {}
  <2>1. CASE \A i \in N : f[i] > 0
    <3>1. \A i \in N : f[i] \in Nat
      BY <1>5, <2>1
    <3>2. \A i \in N : f[i] <= 0
      BY <1>3, <1>6, <3>1, SumOfNaturals
    <3> QED BY <1>5, <2>1, <3>2
  <2>2. CASE \A i \in N : f[i] < 0
    <3>1. PICK c : c = -1
      OBVIOUS
    <3>2. PICK h : h = [i \in N |-> f[i] * c]
      OBVIOUS
    <3>3. c \in Int /\ \A i \in N : f[i] \in Int /\ h[i] = f[i] * c
      BY <1>5, <3>1, <3>2
    <3>4. SumFunctionOnSet(h, N) = SumFunctionOnSet(f, N) * c
      BY <1>3, <3>3, SumScaled
    <3>5. SumFunctionOnSet(h, N) = 0
      BY <1>6, <3>1, <3>4
    <3>6. \A i \in N : h[i] = -f[i]
      BY <1>5, <3>1, <3>2
    <3>7. \A i \in N : h[i] \in Nat /\ h[i] > 0
      BY <1>5, <2>2, <3>6
    <3>8. \A i \in N : h[i] <= 0
      BY <1>3, <3>5, <3>7, SumOfNaturals
    <3> QED BY <3>7, <3>8
  <2> QED BY <1>1, <1>2, <1>5, <2>1, <2>2
<1>8. n = 0
  BY <1>1, <1>2, <1>7
<1> QED BY <1>1, <1>8, EmptySeq

\* When a list is empty both are, and the transfers have evened every balance.
LEMMA LoopEnd ==
  ASSUME NEW M, NEW net \in [M -> Int], NEW s, Loop(M, net, s), Matched(s)
  PROVE  \A u \in M : net[u] + Sent(s.plan, u) - Received(s.plan, u) = 0
<1>1. PICK ds \in Seq(AcctOf(M)), cs \in Seq(AcctOf(M)) : ds = s.debtors /\ cs = s.creditors
  BY DEF Loop
<1>2. /\ \A i \in 1..Len(ds) : ds[i].net < 0
      /\ \A i \in 1..Len(cs) : cs[i].net > 0
      /\ Rest(ds, M) + Rest(cs, M) = 0
      /\ \A u \in M : net[u] + Sent(s.plan, u) - Received(s.plan, u) =
                        Rest(ds, {u}) + Rest(cs, {u})
      /\ ds = << >> \/ cs = << >>
  BY <1>1 DEF Loop, Matched
<1>3. ASSUME NEW U PROVE Rest(<< >>, U) = 0
  <2>1. PICK f, z : z = {} /\ f = [k \in {} |-> IF << >>[k].user \in U THEN << >>[k].net ELSE 0]
    OBVIOUS
  <2>2. IsFiniteSet(z) /\ \A x \in z : f[x] \in Int
    BY <2>1, FS_EmptySet
  <2>3. SumFunctionOnSet(f, z) = 0
    BY <2>1, <2>2, SumFacts
  <2>4. DOMAIN << >> = {}
    OBVIOUS
  <2>5. Rest(<< >>, U) = SumFunctionOnSet(f, z)
    BY <2>1, <2>4 DEF Rest
  <2> QED BY <2>3, <2>5
<1>4. ds = << >> /\ cs = << >>
  <2>1. \A a \in Seq(AcctOf(M)) : Rest(a, M) \in Int
    <3>1. ASSUME NEW a \in Seq(AcctOf(M)) PROVE Rest(a, M) \in Int
      <4>1. CASE a = << >>
        BY <1>3, <4>1
      <4>2. CASE a # << >>
        <5>1. PICK x : x = 0
          OBVIOUS
        <5>2. x \in Int
          BY <5>1
        <5> QED BY ONLY <4>2, <5>2, AdvancedRest
      <4> QED BY <4>1, <4>2
    <3> QED BY <3>1
  <2>2. Rest(ds, M) \in Int /\ Rest(cs, M) \in Int
    BY <2>1
  <2>3. CASE ds = << >>
    <3>1. Rest(cs, M) = 0
      BY <1>2, <1>3, <2>2, <2>3
    <3> QED BY <1>2, <2>3, <3>1, OneSided
  <2>4. CASE cs = << >>
    <3>1. Rest(ds, M) = 0
      BY <1>2, <1>3, <2>2, <2>4
    <3> QED BY <1>2, <2>4, <3>1, OneSided
  <2> QED BY <1>2, <2>3, <2>4
<1>5. ASSUME NEW u \in M PROVE net[u] + Sent(s.plan, u) - Received(s.plan, u) = 0
  <2>1. Rest(ds, {u}) = 0 /\ Rest(cs, {u}) = 0
    BY <1>3, <1>4
  <2> QED BY <1>2, <2>1
<1> QED BY <1>5
-----------------------------------------------------------------------------
\* Division with a remainder.
LEMMA Divided ==
  ASSUME NEW a \in Nat, NEW b \in Nat \ {0}
  PROVE  \E q \in Nat, r \in Nat :
           a \div b = q /\ a % b = r /\ r < b /\ q * b + r = a
<1>1. PICK x, y : x = a /\ y = b
  OBVIOUS
<1>2. x \in Int /\ y \in Int /\ y > 0 /\ x >= 0
  BY <1>1
<1>3. x \div y \in Int /\ x % y \in Int /\ 0 <= x % y /\ x % y < y
  BY ONLY <1>2
<1>4. x = y * (x \div y) + (x % y)
  BY ONLY <1>2, SMTT(30)
<1>5. PICK q, r : q = x \div y /\ r = x % y
  OBVIOUS
<1>6. q \in Int /\ r \in Int /\ 0 <= r /\ r < y /\ x = q * y + r
  BY <1>2, <1>3, <1>4, <1>5
<1>7. q >= 0
  <2> SUFFICES ASSUME q < 0 PROVE FALSE
    BY <1>6
  <2>1. PICK z \in Nat : q = -1 - z
    <3>1. -1 - q \in Nat /\ q = -1 - (-1 - q)
      BY <1>6
    <3> QED BY <3>1
  <2>2. z * y \in Nat /\ q * y = -y - z * y
    BY <1>2, <2>1
  <2> QED BY <1>2, <1>6, <2>2
<1>8. q \in Nat /\ r \in Nat
  BY <1>6, <1>7
<1>9. q \in Nat /\ r \in Nat /\ r < b /\ q * b + r = a
  BY <1>1, <1>6, <1>8
<1>10. q = a \div b /\ r = a % b
  BY <1>1, <1>5
<1> QED BY ONLY <1>9, <1>10

\* There is one quotient.
LEMMA Quotients ==
  ASSUME NEW b \in Nat \ {0}, NEW x \in Nat, NEW y \in Nat, NEW k \in Nat, NEW l \in Nat, k < b, l < b,
         x * b + k = y * b + l
  PROVE  x = y
<1>1. ~(x < y)
  <2> SUFFICES ASSUME x < y PROVE FALSE
    OBVIOUS
  <2>1. PICK z \in Nat : y = x + 1 + z
    <3>1. y - x - 1 \in Nat /\ y = x + 1 + (y - x - 1)
      OBVIOUS
    <3> QED BY <3>1
  <2>2. z * b \in Nat /\ y * b = x * b + b + z * b
    BY <2>1
  <2> QED BY <2>2
<1>2. ~(y < x)
  <2> SUFFICES ASSUME y < x PROVE FALSE
    OBVIOUS
  <2>1. PICK z \in Nat : x = y + 1 + z
    <3>1. x - y - 1 \in Nat /\ x = y + 1 + (x - y - 1)
      OBVIOUS
    <3> QED BY <3>1
  <2>2. z * b \in Nat /\ x * b = y * b + b + z * b
    BY <2>1
  <2> QED BY <2>2
<1> QED BY <1>1, <1>2

\* A common factor leaves the quotient alone.
LEMMA Reduced ==
  ASSUME NEW t \in Nat, NEW n \in Nat \ {0}, NEW w \in Nat \ {0}
  PROVE  (t * w) \div (n * w) = t \div n
<1>1. PICK q \in Nat, r \in Nat : t \div n = q /\ t % n = r /\ r < n /\ q * n + r = t
  BY Divided
<1>2. q \in Nat /\ r \in Nat /\ r < n /\ q * n + r = t
  BY <1>1
<1>3. PICK b, a : b = n * w /\ a = t * w
  OBVIOUS
<1>4. b \in Nat \ {0} /\ a \in Nat
  BY <1>3
<1>5. PICK x \in Nat, k \in Nat : a \div b = x /\ a % b = k /\ k < b /\ x * b + k = a
  BY <1>4, Divided
<1>6. x \in Nat /\ k \in Nat /\ k < b /\ x * b + k = a
  BY <1>5
<1>7. PICK l : l = r * w
  OBVIOUS
<1>8. l \in Nat /\ l < b
  <2>1. PICK d \in Nat : n = r + 1 + d
    <3>1. n - r - 1 \in Nat /\ n = r + 1 + (n - r - 1)
      BY <1>2
    <3> QED BY <3>1
  <2>2. n * w = r * w + w + d * w /\ d * w \in Nat /\ r * w \in Nat
    BY <1>2, <2>1
  <2> QED BY <1>3, <1>7, <2>2
<1>9. q * b + l = a
  <2>1. (q * n + r) * w = q * (n * w) + r * w
    BY <1>2
  <2> QED BY <1>2, <1>3, <1>7, <2>1
<1>10. x * b + k = q * b + l
  BY <1>6, <1>9
<1>11. x = q
  BY <1>2, <1>4, <1>6, <1>8, <1>10, Quotients
<1> QED BY <1>1, <1>3, <1>5, <1>11

\* A multiple of w between 0 and n * w.
LEMMA Between ==
  ASSUME NEW w \in Nat \ {0}, NEW x \in Int, NEW n \in Nat, 0 <= x * w, x * w < n * w
  PROVE  0 <= x /\ x < n
<1>1. x >= 0
  <2> SUFFICES ASSUME x < 0 PROVE FALSE
    OBVIOUS
  <2>1. PICK y \in Nat : x = -1 - y
    <3>1. -1 - x \in Nat /\ x = -1 - (-1 - x)
      OBVIOUS
    <3> QED BY <3>1
  <2>2. y * w \in Nat /\ x * w = -w - y * w
    BY <2>1
  <2> QED BY <2>2
<1>2. x < n
  <2> SUFFICES ASSUME x >= n PROVE FALSE
    OBVIOUS
  <2>1. PICK y \in Nat : x = n + y
    <3>1. x - n \in Nat /\ x = n + (x - n)
      OBVIOUS
    <3> QED BY <3>1
  <2>2. y * w \in Nat /\ x * w = n * w + y * w
    BY <2>1
  <2> QED BY <2>2
<1> QED BY <1>1, <1>2

\* The number of the first r of n.
LEMMA SumOfFirst ==
  ASSUME NEW n \in Nat, NEW r \in Nat, r <= n,
         NEW f, \A i \in 1..n : f[i] = IF i <= r THEN 1 ELSE 0
  PROVE  SumFunctionOnSet(f, 1..n) = r
<1>1. PICK N, R : N = 1..n /\ R = 1..r
  OBVIOUS
<1>2. /\ IsFiniteSet(N) /\ R \in SUBSET N /\ IsFiniteSet(R) /\ Cardinality(R) = r
      /\ \A i \in N : i \in R <=> i <= r
  <2>1. 1 \in Int /\ n \in Int /\ r \in Int
    OBVIOUS
  <2>2. IsFiniteSet(1..n) /\ IsFiniteSet(1..r) /\ Cardinality(1..r) = IF 1 > r THEN 0 ELSE r - 1 + 1
    BY ONLY <2>1, FS_Interval
  <2>3. 1..r \in SUBSET (1..n) /\ \A i \in 1..n : i \in 1..r <=> i <= r
    OBVIOUS
  <2> QED BY <1>1, <2>2, <2>3
<1>3. PICK g : g = [i \in R |-> 1]
  OBVIOUS
<1>4. (\A i \in R : g[i] = 1) /\ (\A i \in R : g[i] \in Int)
  BY <1>3
<1>5. SumFunctionOnSet(g, R) = r
  BY <1>2, <1>4, SumOfOnes
<1>6. \A i \in N : f[i] = IF i \in R THEN g[i] ELSE 0
  BY <1>1, <1>2, <1>4
<1>7. SumFunctionOnSet(g, R) = SumFunctionOnSet(f, N)
  BY ONLY <1>2, <1>4, <1>6, SumOfSome
<1> QED BY <1>1, <1>5, <1>7

\* The integers wrap to integers, and to themselves when they fit.
LEMMA Wraps ==
  ASSUME NEW x \in Int
  PROVE  Wrap(x) \in Int /\ (-MaxInt <= x /\ x <= MaxInt => Wrap(x) = x)
<1>1. PICK y, b : y = x + MaxInt + 1 /\ b = 2 * MaxInt + 2 /\ y \in Int /\ b \in Int /\ b > 0
  BY MaxIntAssumption
<1>2. y % b \in Int
  BY <1>1
<1>3. ASSUME -MaxInt <= x, x <= MaxInt PROVE y % b = y
  <2>1. y \in Nat /\ b \in Nat \ {0} /\ y < b
    BY <1>1, <1>3, MaxIntAssumption
  <2>2. PICK q \in Nat, r \in Nat : y \div b = q /\ y % b = r /\ r < b /\ q * b + r = y
    BY <2>1, Divided
  <2>3. 0 * b = 0
    BY <2>1
  <2>4. 0 * b + y = q * b + r
    BY <2>1, <2>2, <2>3
  <2>5. q = 0
    BY <2>1, <2>2, <2>4, Quotients
  <2> QED BY <2>1, <2>2, <2>3, <2>5
<1>4. Wrap(x) = (y % b) - MaxInt - 1
  BY <1>1 DEF Wrap
<1>5. Wrap(x) \in Int
  <2>1. PICK r : r = y % b /\ r \in Int
    BY <1>2
  <2> QED BY <1>4, <2>1, MaxIntAssumption
<1>6. ASSUME -MaxInt <= x, x <= MaxInt PROVE Wrap(x) = x
  <2>1. Wrap(x) = y - MaxInt - 1
    BY <1>3, <1>4, <1>6
  <2> QED BY <1>1, <2>1, MaxIntAssumption
<1> QED BY <1>5, <1>6

\* A natural number that the integers hold.
Fits(x) == x \in Nat /\ x <= MaxInt

\* So does a sum that fits.
LEMMA WrapSums ==
  ASSUME NEW f, NEW S, S = DOMAIN f, Fits(SumFunctionOnSet(f, S))
  PROVE  WrapSum(f) = SumFunctionOnSet(f, S)
<1>1. PICK x : x = SumFunctionOnSet(f, S) /\ x \in Nat /\ x <= MaxInt
  BY DEF Fits
<1>2. SumFunction(f) = x
  BY <1>1, SumOfFunction
<1>3. x \in Int /\ -MaxInt <= x /\ x <= MaxInt
  BY <1>1, MaxIntAssumption
<1>4. Wrap(x) = x
  BY <1>3, Wraps
<1> QED BY <1>1, <1>2, <1>4 DEF WrapSum

\* The weights of n participants, which the products with the total fit, as do
\* the total and the weights together.
Weighs(total, n, weights) ==
  /\ Fits(total) /\ n \in Nat \ {0}
  /\ DOMAIN weights = 1..n /\ Fits(SumFunctionOnSet(weights, 1..n))
  /\ \A i \in 1..n : /\ weights[i] \in Nat \ {0}
                     /\ total * weights[i] <= MaxInt

\* What weightedShares computes: fractions rounded down, and the first r of the
\* n participants pay one baisa more, which is what the rounding has left.
Split(total, n, weights, W, r, base, rest) ==
  /\ W \in Nat \ {0} /\ W = SumFunctionOnSet(weights, 1..n)
  /\ r \in Nat /\ r < n
  /\ \A i \in 1..n : /\ base[i] \in Nat /\ rest[i] \in Nat /\ rest[i] < W
                     /\ base[i] * W + rest[i] = total * weights[i]
                     /\ base[i] = (total * weights[i]) \div W
  /\ SumFunctionOnSet(base, 1..n) + r = total
  /\ weightedShares(total, weights) = [i \in 1..n |-> base[i] + IF i <= r THEN 1 ELSE 0]

\* It does, of weights that fit.
LEMMA SharesAre ==
  ASSUME NEW total, NEW n, NEW weights, Weighs(total, n, weights)
  PROVE  \E W, r, base, rest : Split(total, n, weights, W, r, base, rest)
<1>1. PICK N : N = 1..n
  OBVIOUS
<1>2. /\ total \in Nat /\ total <= MaxInt /\ n \in Nat \ {0} /\ DOMAIN weights = N /\ 1 \in N
      /\ \A i \in N : weights[i] \in Nat \ {0} /\ Wrap(total * weights[i]) = total * weights[i]
  <2>1. ASSUME NEW i \in N PROVE Wrap(total * weights[i]) = total * weights[i]
    <3>1. PICK x : x = total * weights[i] /\ x \in Int /\ 0 <= x /\ x <= MaxInt
      BY <1>1, <2>1 DEF Weighs, Fits
    <3>2. -MaxInt <= x
      BY <3>1, MaxIntAssumption
    <3> QED BY <3>1, <3>2, Wraps
  <2> QED BY <1>1, <2>1 DEF Weighs, Fits
<1>3. IsFiniteSet(N) /\ Cardinality(N) = n
  <2>1. 1 \in Int /\ n \in Int
    BY <1>2
  <2>2. IsFiniteSet(1..n) /\ Cardinality(1..n) = IF 1 > n THEN 0 ELSE n - 1 + 1
    BY ONLY <2>1, FS_Interval
  <2> QED BY <1>1, <1>2, <2>2
<1>4. PICK W : W = SumFunctionOnSet(weights, N)
  OBVIOUS
<1>5. W \in Nat \ {0}
  <2>1. \A i \in N : weights[i] \in Nat
    BY <1>2
  <2>2. W \in Nat /\ \A i \in N : weights[i] <= W
    BY <1>3, <1>4, <2>1, SumOfNaturals
  <2> QED BY <1>2, <2>2
<1>6. PICK base : base = [i \in N |-> (total * weights[i]) \div W]
  OBVIOUS
<1>7. PICK rest : rest = [i \in N |-> total * weights[i] - base[i] * W]
  OBVIOUS
<1>8. ASSUME NEW i \in N
      PROVE  /\ base[i] \in Nat /\ rest[i] \in Nat /\ rest[i] < W
             /\ base[i] * W + rest[i] = total * weights[i]
             /\ base[i] = (total * weights[i]) \div W
  <2>1. PICK a : a = total * weights[i] /\ a \in Nat
    BY <1>2
  <2>2. PICK q \in Nat, k \in Nat : a \div W = q /\ a % W = k /\ k < W /\ q * W + k = a
    BY <1>5, <2>1, Divided
  <2>3. base[i] = q
    BY <1>6, <2>1, <2>2
  <2>4. rest[i] = a - q * W
    BY <1>7, <2>1, <2>3
  <2>5. rest[i] = k
    BY <1>5, <2>1, <2>2, <2>4
  <2>6. base[i] \in Nat /\ rest[i] \in Nat /\ rest[i] < W /\ base[i] * W + rest[i] = a
    BY <2>2, <2>3, <2>5
  <2>7. base[i] = a \div W
    BY <2>2, <2>3
  <2> QED BY <2>1, <2>6, <2>7
<1>9. PICK s : s = SumFunctionOnSet(base, N) /\ s \in Nat /\ \A i \in N : base[i] <= s
  <2>1. \A i \in N : base[i] \in Nat
    BY <1>8
  <2> QED BY <1>3, <2>1, SumOfNaturals
<1>10. PICK r : r = total - s /\ r \in Int
  BY <1>2, <1>9
<1>11. SumFunctionOnSet(rest, N) = r * W /\ SumFunctionOnSet(rest, N) \in Nat
  <2>1. PICK a, b : a = [i \in N |-> base[i] * W] /\ b = [i \in N |-> weights[i] * total]
    OBVIOUS
  <2>2. SumFunctionOnSet(a, N) = s * W
    <3>1. W \in Int /\ \A i \in N : base[i] \in Int /\ a[i] = base[i] * W
      BY <1>5, <1>8, <2>1
    <3> QED BY <1>3, <1>9, <3>1, SumScaled
  <2>3. SumFunctionOnSet(b, N) = W * total
    <3>1. total \in Int /\ \A i \in N : weights[i] \in Int /\ b[i] = weights[i] * total
      BY <1>2, <2>1
    <3> QED BY <1>3, <1>4, <3>1, SumScaled
  <2>4. \A i \in N : a[i] \in Int /\ rest[i] \in Int /\ b[i] = a[i] + rest[i]
    <3>1. ASSUME NEW i \in N PROVE a[i] \in Int /\ rest[i] \in Int /\ b[i] = a[i] + rest[i]
      <4>1. a[i] = base[i] * W /\ b[i] = total * weights[i]
        BY <1>2, <2>1
      <4>2. base[i] * W \in Int /\ rest[i] \in Int
        BY <1>5, <1>8
      <4> QED BY <1>8, <4>1, <4>2
    <3> QED BY <3>1
  <2>5. SumFunctionOnSet(b, N) = SumFunctionOnSet(a, N) + SumFunctionOnSet(rest, N)
    BY <1>3, <2>4, SumPlus
  <2>6. SumFunctionOnSet(rest, N) \in Nat
    <3>1. \A i \in N : rest[i] \in Nat
      BY <1>8
    <3> QED BY <1>3, <3>1, SumOfNaturals
  <2>7. PICK t : t = SumFunctionOnSet(rest, N) /\ t \in Nat
    BY <2>6
  <2>8. W * total = s * W + t
    BY <2>2, <2>3, <2>5, <2>7
  <2>9. t = (total - s) * W
    BY <1>2, <1>5, <1>9, <2>7, <2>8
  <2> QED BY <1>10, <2>7, <2>9
<1>12. SumFunctionOnSet(rest, N) <= n * (W - 1)
  <2>1. PICK o, c, d, v : /\ v = W - 1 /\ o = [i \in N |-> 1] /\ c = [i \in N |-> 1 * v]
                          /\ d = [i \in N |-> v - rest[i]]
    OBVIOUS
  <2>2. SumFunctionOnSet(o, N) = n
    <3>1. \A i \in N : o[i] = 1
      BY <2>1
    <3> QED BY <1>3, <3>1, SumOfOnes
  <2>3. v \in Nat
    BY <1>5, <2>1
  <2>4. SumFunctionOnSet(c, N) = n * v
    <3>1. v \in Int /\ \A i \in N : o[i] \in Int /\ c[i] = o[i] * v
      BY <2>1, <2>3
    <3> QED BY <1>3, <2>2, <3>1, SumScaled
  <2>5. \A i \in N : rest[i] \in Int /\ d[i] \in Nat /\ d[i] \in Int /\ c[i] = rest[i] + d[i]
    BY <1>5, <1>8, <2>1
  <2>6. SumFunctionOnSet(c, N) = SumFunctionOnSet(rest, N) + SumFunctionOnSet(d, N)
    BY <1>3, <2>5, SumPlus
  <2>7. SumFunctionOnSet(d, N) \in Nat
    BY <1>3, <2>5, SumOfNaturals
  <2>8. PICK x, y : x = SumFunctionOnSet(rest, N) /\ y = SumFunctionOnSet(d, N)
    OBVIOUS
  <2>9. x \in Nat /\ y \in Nat /\ n * v = x + y
    BY <1>11, <2>4, <2>6, <2>7, <2>8
  <2> QED BY <2>1, <2>8, <2>9
<1>13. 0 <= r * W /\ r * W < n * W
  <2>1. n * (W - 1) = n * W - n
    BY <1>2, <1>5
  <2>2. PICK x, y : x = r * W /\ y = n * W /\ x \in Nat /\ y \in Int
    BY <1>2, <1>5, <1>11
  <2> QED BY <1>2, <1>11, <1>12, <2>1, <2>2
<1>14. r \in Nat /\ r < n
  <2>1. 0 <= r /\ r < n
    BY <1>2, <1>5, <1>10, <1>13, Between
  <2> QED BY <1>10, <2>1
<1>a. WrapSum(weights) = W
  <2>1. DOMAIN weights = N /\ Fits(SumFunctionOnSet(weights, N))
    BY <1>1 DEF Weighs
  <2> QED BY <1>4, <2>1, WrapSums
<1>15. Base(total, weights) = base
  <2>1. ASSUME NEW i \in N
        PROVE  Quotient(Wrap(total * weights[i]), W) = (total * weights[i]) \div W
    <3>1. PICK a : a = total * weights[i] /\ a \in Nat /\ Wrap(a) = a
      BY <1>2
    <3>2. Quotient(a, W) = a \div W
      BY <3>1 DEF Quotient
    <3> QED BY <3>1, <3>2
  <2> QED BY <1>2, <1>6, <1>a, <2>1 DEF Base
<1>b. s <= total /\ s <= MaxInt /\ r <= MaxInt
  BY <1>2, <1>9, <1>10, <1>14, MaxIntAssumption
<1>16. Remainder(total, base) = r
  <2>1. DOMAIN base = N /\ Fits(SumFunctionOnSet(base, N))
    BY <1>6, <1>9, <1>b DEF Fits
  <2>2. WrapSum(base) = s
    BY <1>9, <2>1, WrapSums
  <2>3. r \in Int /\ -MaxInt <= r /\ r <= MaxInt
    BY <1>14, <1>b, MaxIntAssumption
  <2>4. Wrap(r) = r
    BY <2>3, Wraps
  <2> QED BY <1>10, <2>2, <2>4 DEF Remainder
<1>17. weightedShares(total, weights) = [i \in N |-> base[i] + IF i <= r THEN 1 ELSE 0]
  <2>1. ~(WrapSum(weights) <= 0)
    BY <1>5, <1>a
  <2>2. weightedShares(total, weights) = [i \in N |-> Wrap(base[i] + (IF i <= r THEN 1 ELSE 0))]
    BY <1>2, <1>15, <1>16, <2>1 DEF weightedShares
  <2>3. ASSUME NEW i \in N
        PROVE  Wrap(base[i] + (IF i <= r THEN 1 ELSE 0)) = base[i] + (IF i <= r THEN 1 ELSE 0)
    <3>1. PICK x : x = base[i] + (IF i <= r THEN 1 ELSE 0)
      OBVIOUS
    <3>2. base[i] \in Nat /\ base[i] <= s
      BY <1>8, <1>9
    <3>3. i \in Nat /\ 1 <= i
      BY <1>1
    <3>4. x \in Nat /\ x <= s + r
      BY <1>9, <1>14, <3>1, <3>2, <3>3
    <3>5. x \in Int /\ -MaxInt <= x /\ x <= MaxInt
      BY <1>2, <1>9, <1>10, <3>4, MaxIntAssumption
    <3>6. Wrap(x) = x
      BY <3>5, Wraps
    <3> QED BY <3>1, <3>6
  <2> QED BY <2>2, <2>3
<1>18. s + r = total
  BY <1>2, <1>9, <1>10
<1>19. Split(total, n, weights, W, r, base, rest)
  BY <1>1, <1>4, <1>5, <1>8, <1>9, <1>14, <1>17, <1>18 DEF Split
<1> QED BY <1>19

\* The comments of settlement.go on the shares: they sum to the total, each is
\* its fraction rounded down or a baisa more, and equal weights give the equal
\* shares.
LEMMA SharesFacts ==
  ASSUME NEW total, NEW n, NEW weights, Weighs(total, n, weights)
  PROVE  \E sh, W :
           /\ sh = weightedShares(total, weights) /\ W = SumFunctionOnSet(weights, 1..n)
           /\ DOMAIN sh = 1..n /\ \A i \in 1..n : sh[i] \in Nat
           /\ SumFunctionOnSet(sh, 1..n) = total
           /\ \A i \in 1..n : /\ -W < sh[i] * W - total * weights[i]
                              /\ sh[i] * W - total * weights[i] <= W
           /\ (\A i, j \in 1..n : weights[i] = weights[j]) => sh = fairShares(total, n)
<1>1. PICK W, r, base, rest : Split(total, n, weights, W, r, base, rest)
  BY SharesAre
<1>2. /\ W \in Nat \ {0} /\ W = SumFunctionOnSet(weights, 1..n)
      /\ r \in Nat /\ r < n
      /\ \A i \in 1..n : /\ base[i] \in Nat /\ rest[i] \in Nat /\ rest[i] < W
                         /\ base[i] * W + rest[i] = total * weights[i]
                         /\ base[i] = (total * weights[i]) \div W
      /\ SumFunctionOnSet(base, 1..n) + r = total
      /\ weightedShares(total, weights) =
           [i \in 1..n |-> base[i] + IF i <= r THEN 1 ELSE 0]
  BY <1>1 DEF Split
<1>3. PICK N, sh : N = 1..n /\ sh = weightedShares(total, weights)
  OBVIOUS
<1>4. total \in Nat /\ n \in Nat \ {0} /\ \A i \in N : weights[i] \in Nat \ {0}
  BY <1>3 DEF Weighs, Fits
<1>5. IsFiniteSet(N) /\ Cardinality(N) = n
  <2>1. 1 \in Int /\ n \in Int
    BY <1>4
  <2>2. IsFiniteSet(1..n) /\ Cardinality(1..n) = IF 1 > n THEN 0 ELSE n - 1 + 1
    BY ONLY <2>1, FS_Interval
  <2> QED BY <1>3, <1>4, <2>2
<1>6. PICK first : first = [i \in N |-> IF i <= r THEN 1 ELSE 0]
  OBVIOUS
<1>7. sh = [i \in N |-> base[i] + first[i]]
  BY <1>2, <1>3, <1>6
<1>8. \A i \in N : base[i] \in Int /\ first[i] \in Int /\ sh[i] = base[i] + first[i] /\ sh[i] \in Nat
  BY <1>2, <1>3, <1>6, <1>7
<1>9. SumFunctionOnSet(sh, N) = total
  <2>1. \A i \in N : base[i] \in Int /\ first[i] \in Int /\ sh[i] = base[i] + first[i]
    BY <1>8
  <2>2. SumFunctionOnSet(sh, N) = SumFunctionOnSet(base, N) + SumFunctionOnSet(first, N)
    BY <1>5, <2>1, SumPlus
  <2>3. \A i \in 1..n : first[i] = IF i <= r THEN 1 ELSE 0
    BY <1>3, <1>6
  <2>4. SumFunctionOnSet(first, 1..n) = r
    <3>1. n \in Nat /\ r \in Nat /\ r <= n
      BY <1>2, <1>4
    <3> QED BY <2>3, <3>1, SumOfFirst
  <2> QED BY <1>2, <1>3, <2>2, <2>4
<1>10. ASSUME NEW i \in N
       PROVE  -W < sh[i] * W - total * weights[i] /\ sh[i] * W - total * weights[i] <= W
  <2>1. PICK b, k, a : b = base[i] /\ k = rest[i] /\ a = total * weights[i]
    OBVIOUS
  <2>0. base[i] \in Nat /\ rest[i] \in Nat /\ rest[i] < W
        /\ base[i] * W + rest[i] = total * weights[i]
    BY <1>2, <1>3
  <2>2. b \in Nat /\ k \in Nat /\ k < W /\ b * W + k = a /\ b * W \in Nat
    BY <1>2, <2>0, <2>1
  <2>3. CASE i <= r
    <3>1. sh[i] = b + 1
      BY <1>6, <1>8, <2>1, <2>3
    <3>2. (b + 1) * W = b * W + W
      BY <1>2, <2>2
    <3>3. (b + 1) * W - a = W - k
      BY <1>2, <2>2, <3>2
    <3>4. -W < W - k /\ W - k <= W
      BY <1>2, <2>2
    <3>5. sh[i] * W - total * weights[i] = W - k
      BY <2>1, <3>1, <3>3
    <3> QED BY <3>4, <3>5
  <2>4. CASE ~(i <= r)
    <3>1. sh[i] = b
      BY <1>6, <1>8, <2>1, <2>4
    <3>2. b * W - a = -k
      BY <2>2
    <3>3. -W < -k /\ -k <= W
      BY <1>2, <2>2
    <3>4. sh[i] * W - total * weights[i] = -k
      BY <2>1, <3>1, <3>2
    <3> QED BY <3>3, <3>4
  <2> QED BY <2>3, <2>4
<1>11. ASSUME \A i, j \in N : weights[i] = weights[j] PROVE sh = fairShares(total, n)
  <2>1. 1 \in N
    BY <1>3, <1>4
  <2>2. PICK w : w = weights[1] /\ w \in Nat \ {0} /\ w \in Int
    BY <1>4, <2>1
  <2>3. \A i \in N : weights[i] = w
    BY <1>11, <2>1, <2>2
  <2>4. W = n * w
    <3>1. PICK o : o = [i \in N |-> 1]
      OBVIOUS
    <3>2. \A i \in N : o[i] = 1
      BY <3>1
    <3>3. SumFunctionOnSet(o, N) = n
      BY <1>5, <3>2, SumOfOnes
    <3>4. \A i \in N : o[i] \in Int /\ weights[i] = o[i] * w
      BY <2>2, <2>3, <3>2
    <3>5. SumFunctionOnSet(weights, N) = n * w
      BY <1>5, <2>2, <3>3, <3>4, SumScaled
    <3> QED BY <1>2, <1>3, <3>5
  <2>5. PICK q \in Nat, k \in Nat : total \div n = q /\ total % n = k /\ k < n /\ q * n + k = total
    BY <1>4, Divided
  <2>6. \A i \in N : base[i] = q
    <3>1. (total * w) \div (n * w) = total \div n
      BY <1>4, <2>2, Reduced
    <3>2. ASSUME NEW i \in N PROVE base[i] = q
      <4>1. base[i] = (total * weights[i]) \div W
        BY <1>2, <1>3
      <4>2. base[i] = (total * w) \div (n * w)
        BY <2>3, <2>4, <4>1
      <4> QED BY <2>5, <3>1, <4>2
    <3> QED BY <3>2
  <2>7. SumFunctionOnSet(base, N) = n * q
    <3>1. PICK o : o = [i \in N |-> 1]
      OBVIOUS
    <3>2. \A i \in N : o[i] = 1
      BY <3>1
    <3>3. SumFunctionOnSet(o, N) = n
      BY <1>5, <3>2, SumOfOnes
    <3>4. q \in Int /\ \A i \in N : o[i] \in Int /\ base[i] = o[i] * q
      BY <2>6, <3>2
    <3> QED BY <1>5, <3>3, <3>4, SumScaled
  <2>8. r = k
    <3>1. n * q = q * n
      BY <1>4
    <3>2. PICK x : x = q * n /\ x \in Nat
      BY <1>4
    <3>3. x + r = total /\ x + k = total
      BY <1>2, <1>3, <2>5, <2>7, <3>1, <3>2
    <3> QED BY <1>2, <3>2, <3>3
  <2>9. fairShares(total, n) = [i \in N |-> q + IF i <= k THEN 1 ELSE 0]
    BY <1>3, <2>5 DEF fairShares
  <2>10. \A i \in N : sh[i] = q + IF i <= k THEN 1 ELSE 0
    BY <1>6, <1>8, <2>6, <2>8
  <2> QED BY <1>7, <2>9, <2>10
<1>12. /\ sh = weightedShares(total, weights) /\ W = SumFunctionOnSet(weights, 1..n)
       /\ DOMAIN sh = 1..n /\ \A i \in 1..n : sh[i] \in Nat
       /\ SumFunctionOnSet(sh, 1..n) = total
       /\ \A i \in 1..n : /\ -W < sh[i] * W - total * weights[i]
                          /\ sh[i] * W - total * weights[i] <= W
       /\ (\A i, j \in 1..n : weights[i] = weights[j]) => sh = fairShares(total, n)
  BY <1>2, <1>3, <1>7, <1>8, <1>9, <1>10, <1>11
<1> QED BY ONLY <1>12
-----------------------------------------------------------------------------
Weights(e, P) == [u \in P |-> Weight(e, u)]

\* An expense that the members can share: its payer and its sharers are among
\* them, the weights are positive, and nothing overflows: not the amount, not
\* its products with the weights, not the weights together.
WellFormed(e, members) ==
  /\ Fits(e.amount)
  /\ e.paidBy \in members
  /\ DOMAIN e.shares \subseteq members
  /\ \A u \in DOMAIN e.shares : e.shares[u] \in Nat \ {0}
  /\ \A u \in Participants(e, members) : e.amount * Weight(e, u) <= MaxInt
  /\ Fits(SumFunction(Weights(e, Participants(e, members))))

\* What the participants P owe of an expense of this amount, and how exactly.
Exact(e, P, W, owes) ==
  /\ \A u \in P : owes[u] \in Nat
  /\ SumFunctionOnSet(owes, P) = e.amount
  /\ W \in Nat \ {0} /\ W = SumFunctionOnSet(Weights(e, P), P)
  /\ \A u \in P : /\ -W < owes[u] * W - e.amount * Weight(e, u)
                  /\ owes[u] * W - e.amount * Weight(e, u) <= W

\* The shares of an expense are exact.
LEMMA OwesExactly ==
  ASSUME NEW M, IsFiniteSet(M), M \subseteq Nat, NEW e, WellFormed(e, M)
  PROVE  LET P == Participants(e, M)
             users == ById(P)
         IN /\ P # {} /\ P \in SUBSET M /\ DOMAIN Owes(e, M) = P
            /\ \E W : Exact(e, P, W, Owes(e, M))
            /\ (\A u, v \in P : Weight(e, u) = Weight(e, v)) =>
                 [i \in DOMAIN users |-> Owes(e, M)[users[i]]] = fairShares(e.amount, Len(users))
<1>1. PICK P : P = Participants(e, M)
  OBVIOUS
<1>2. /\ P # {} /\ P \in SUBSET M /\ IsFiniteSet(P) /\ P \subseteq Nat
      /\ Fits(e.amount) /\ Fits(SumFunctionOnSet(Weights(e, P), P))
      /\ \A u \in P : /\ Weight(e, u) \in Nat \ {0}
                      /\ e.amount * Weight(e, u) <= MaxInt
  <2>1. P # {} /\ P \in SUBSET M
    BY <1>1 DEF WellFormed, Participants
  <2>2. IsFiniteSet(P)
    BY <2>1, FS_Subset
  <2>3. \A u \in P : Weight(e, u) \in Nat \ {0}
    <3>1. CASE DOMAIN e.shares = {}
      BY <3>1 DEF Weight
    <3>2. CASE DOMAIN e.shares # {}
      BY <1>1, <3>2 DEF WellFormed, Participants, Weight
    <3> QED BY <3>1, <3>2
  <2>4. Fits(SumFunctionOnSet(Weights(e, P), P))
    BY <1>1, SumOfFunction DEF WellFormed, Weights
  <2> QED BY <1>1, <2>1, <2>2, <2>3, <2>4 DEF WellFormed
<1>3. PICK n, users : n = Cardinality(P) /\ users = ById(P)
  OBVIOUS
<1>4. PICK N : N = 1..n
  OBVIOUS
<1>5. n \in Nat \ {0} /\ IsFiniteSet(N) /\ DOMAIN users = N /\ Len(users) = n
      /\ users \in [N -> P] /\ Renames(users, N, P)
  <2>1. n \in Nat \ {0}
    BY <1>2, <1>3, FS_CardinalityType, FS_EmptySet
  <2>2. users \in [N -> P] /\ Renames(users, N, P)
    BY <1>2, <1>3, <1>4, ByIdNames
  <2>3. IsFiniteSet(N)
    <3>1. 1 \in Int /\ n \in Int
      BY <2>1
    <3>2. IsFiniteSet(1..n)
      BY ONLY <3>1, FS_Interval
    <3> QED BY <1>4, <3>2
  <2>4. users \in Seq(P) /\ Len(users) = n
    BY <1>4, <2>1, <2>2
  <2> QED BY <2>1, <2>2, <2>3, <2>4
<1>6. /\ \A i \in N : users[i] \in P
      /\ \A i, j \in N : users[i] = users[j] => i = j
      /\ \A u \in P : \E i \in N : users[i] = u
  BY <1>5 DEF Renames
<1>7. PICK weights : weights = [i \in N |-> Weight(e, users[i])]
  OBVIOUS
<1>8. PICK t : t = e.amount /\ Fits(t) /\ t \in Nat
  BY <1>2 DEF Fits
<1>9. Weighs(t, n, weights)
  <2>1. PICK V : V = Weights(e, P)
    OBVIOUS
  <2>2. \A u \in P : V[u] = Weight(e, u) /\ V[u] \in Int
    BY <1>2, <2>1 DEF Weights
  <2>3. /\ IsFiniteSet(N) /\ Renames(users, N, P)
        /\ \A i \in N : V[users[i]] \in Int
        /\ \A i \in N : weights[i] = V[users[i]]
    BY <1>5, <1>6, <1>7, <2>2
  <2>4. SumFunctionOnSet(V, P) = SumFunctionOnSet(weights, N)
    BY ONLY <2>3, SumRenamed
  <2> QED BY <1>2, <1>4, <1>5, <1>6, <1>7, <1>8, <2>1, <2>4 DEF Weighs
<1>10. PICK sh, W :
           /\ sh = weightedShares(t, weights) /\ W = SumFunctionOnSet(weights, N)
           /\ DOMAIN sh = N /\ \A i \in N : sh[i] \in Nat
           /\ SumFunctionOnSet(sh, N) = t
           /\ \A i \in N : /\ -W < sh[i] * W - t * weights[i]
                           /\ sh[i] * W - t * weights[i] <= W
           /\ (\A i, j \in N : weights[i] = weights[j]) => sh = fairShares(t, n)
  BY <1>4, <1>9, SharesFacts
<1>11. PICK owes : owes = Owes(e, M)
  OBVIOUS
<1>12. owes = [u \in P |-> sh[CHOOSE i \in N : users[i] = u]]
  BY <1>1, <1>3, <1>5, <1>7, <1>8, <1>10, <1>11 DEF Owes
<1>13. ASSUME NEW i \in N PROVE owes[users[i]] = sh[i]
  <2>1. (CHOOSE j \in N : users[j] = users[i]) = i
    BY <1>6
  <2> QED BY <1>6, <1>12, <2>1
<1>14. \A u \in P : owes[u] \in Nat
  BY <1>6, <1>10, <1>13
<1>15. SumFunctionOnSet(owes, P) = t
  <2>1. /\ IsFiniteSet(N) /\ Renames(users, N, P)
        /\ \A i \in N : owes[users[i]] \in Int
        /\ \A i \in N : sh[i] = owes[users[i]]
    BY <1>5, <1>10, <1>13
  <2>2. SumFunctionOnSet(owes, P) = SumFunctionOnSet(sh, N)
    BY ONLY <2>1, SumRenamed
  <2> QED BY <1>10, <2>2
<1>16. PICK V : V = Weights(e, P)
  OBVIOUS
<1>17. \A i \in N : V[users[i]] = weights[i] /\ weights[i] \in Nat \ {0} /\ weights[i] \in Int
  <2>1. \A u \in P : V[u] = Weight(e, u)
    BY <1>16 DEF Weights
  <2>2. ASSUME NEW i \in N PROVE V[users[i]] = weights[i] /\ weights[i] \in Nat \ {0}
    <3>1. users[i] \in P /\ weights[i] = Weight(e, users[i])
      BY <1>6, <1>7
    <3> QED BY <1>2, <2>1, <3>1
  <2> QED BY <2>2
<1>18. SumFunctionOnSet(V, P) = W
  <2>1. /\ IsFiniteSet(N) /\ Renames(users, N, P)
        /\ \A i \in N : V[users[i]] \in Int
        /\ \A i \in N : weights[i] = V[users[i]]
    BY <1>5, <1>17
  <2>2. SumFunctionOnSet(V, P) = SumFunctionOnSet(weights, N)
    BY ONLY <2>1, SumRenamed
  <2> QED BY <1>10, <2>2
<1>19. W \in Nat \ {0}
  <2>1. \A i \in N : weights[i] \in Nat
    BY <1>17
  <2>2. W \in Nat /\ \A i \in N : weights[i] <= W
    BY <1>5, <1>10, <2>1, SumOfNaturals
  <2>3. 1 \in N
    BY <1>4, <1>5
  <2> QED BY <1>17, <2>2, <2>3
<1>20. ASSUME NEW u \in P
       PROVE  -W < owes[u] * W - t * Weight(e, u) /\ owes[u] * W - t * Weight(e, u) <= W
  <2>1. PICK i \in N : users[i] = u
    BY <1>6
  <2>2. owes[u] = sh[i] /\ Weight(e, u) = weights[i]
    BY <1>7, <1>13, <2>1
  <2> QED BY <1>10, <2>2
<1>21. Exact(e, P, W, owes)
  BY <1>8, <1>14, <1>15, <1>16, <1>18, <1>19, <1>20 DEF Exact
<1>22. ASSUME \A u, v \in P : Weight(e, u) = Weight(e, v)
       PROVE  [i \in DOMAIN users |-> owes[users[i]]] = fairShares(t, Len(users))
  <2>1. \A i, j \in N : weights[i] = weights[j]
    BY <1>6, <1>7, <1>22
  <2>2. sh = fairShares(t, n)
    BY <1>10, <2>1
  <2>3. fairShares(t, n) = [i \in N |-> t \div n + (IF i <= (t % n) THEN 1 ELSE 0)]
    BY <1>4 DEF fairShares
  <2>4. sh = [i \in N |-> sh[i]]
    BY <2>2, <2>3
  <2>5. [i \in DOMAIN users |-> owes[users[i]]] = sh
    BY <1>5, <1>13, <2>4
  <2> QED BY <1>5, <2>2, <2>5
<1>23. DOMAIN owes = P
  BY <1>12
<1> QED BY <1>1, <1>2, <1>3, <1>8, <1>11, <1>21, <1>22, <1>23

\* A ledger of such expenses, which fit the integers together too.
AmountsOf(l) == [k \in DOMAIN l |-> l[k].amount]

Shareable(l, members) ==
  /\ IsFiniteSet(DOMAIN l)
  /\ \A k \in DOMAIN l : WellFormed(l[k], members)
  /\ Fits(SumFunction(AmountsOf(l)))

\* What the members have paid less what they owe comes to nothing.
LEMMA BalancesToZero ==
  ASSUME NEW M, IsFiniteSet(M), M \subseteq Nat, NEW l, Shareable(l, M)
  PROVE  /\ Balances(M, l) \in [M -> Int]
         /\ SumFunctionOnSet(Balances(M, l), M) = 0
         /\ SumFunction(Balances(M, l)) = 0
<1>1. PICK K : K = DOMAIN l
  OBVIOUS
<1>2. IsFiniteSet(K) /\ \A k \in K : WellFormed(l[k], M) /\ l[k].amount \in Int /\ l[k].paidBy \in M
  BY <1>1 DEF Shareable, WellFormed, Fits
<1>3. PICK total : total = [k \in K |-> l[k].amount]
  OBVIOUS
<1>4. PICK a : a = [k \in K |-> [u \in M |-> IF l[k].paidBy = u THEN l[k].amount ELSE 0]]
  OBVIOUS
<1>5. PICK b : b = [k \in K |-> [u \in M |-> IF u \in Participants(l[k], M)
                                            THEN Owes(l[k], M)[u] ELSE 0]]
  OBVIOUS
<1>6. PICK paid : paid = [u \in M |-> SumFunctionOnSet([k \in K |-> a[k][u]], K)]
  OBVIOUS
<1>7. PICK fair : fair = [u \in M |-> SumFunctionOnSet([k \in K |-> b[k][u]], K)]
  OBVIOUS
<1>8. \A k \in K, u \in M : a[k][u] \in Nat /\ a[k][u] \in Int
  <2>1. \A k \in K : l[k].amount \in Nat
    BY <1>2 DEF WellFormed, Fits
  <2> QED BY <1>4, <2>1
<1>9. ASSUME NEW k \in K
      PROVE  /\ \A u \in M : b[k][u] \in Nat /\ b[k][u] \in Int
             /\ total[k] = SumFunctionOnSet(b[k], M)
  <2>1. PICK e, P, o, r : e = l[k] /\ P = Participants(e, M) /\ o = Owes(e, M) /\ r = b[k]
    OBVIOUS
  <2>2. WellFormed(e, M)
    BY <1>2, <2>1
  <2>3. P \in SUBSET M /\ \E W : Exact(e, P, W, o)
    BY <2>1, <2>2, OwesExactly
  <2>4. (\A u \in P : o[u] \in Nat) /\ SumFunctionOnSet(o, P) = e.amount
    BY <2>3 DEF Exact
  <2>5. \A u \in M : r[u] = IF u \in P THEN o[u] ELSE 0
    BY <1>5, <2>1
  <2>6. SumFunctionOnSet(o, P) = SumFunctionOnSet(r, M)
    <3>1. /\ IsFiniteSet(M) /\ P \in SUBSET M /\ \A x \in P : o[x] \in Int
          /\ \A x \in M : r[x] = IF x \in P THEN o[x] ELSE 0
      BY <2>3, <2>4, <2>5
    <3> QED BY ONLY <3>1, SumOfSome
  <2>7. total[k] = e.amount
    BY <1>3, <2>1
  <2>8. \A u \in M : r[u] \in Nat
    BY <2>4, <2>5
  <2>9. total[k] = SumFunctionOnSet(r, M)
    BY <2>4, <2>6, <2>7
  <2> QED BY <2>1, <2>8, <2>9
<1>10. ASSUME NEW k \in K PROVE total[k] = SumFunctionOnSet(a[k], M)
  <2>1. PICK r, p : r = a[k] /\ p = l[k].paidBy
    OBVIOUS
  <2>2. p \in M /\ r[p] \in Int /\ r[p] = total[k] /\ \A u \in M \ {p} : r[u] = 0
    BY <1>2, <1>3, <1>4, <2>1
  <2>3. SumFunctionOnSet(r, M) = r[p]
    BY <2>2, SumOfOne
  <2> QED BY <2>1, <2>2, <2>3
<1>11. SumFunctionOnSet(total, K) = SumFunctionOnSet(paid, M)
  <2>1. \A u \in M : paid[u] = SumFunctionOnSet([k \in K |-> a[k][u]], K)
    BY <1>6
  <2>2. Table(a, K, M, total, paid)
    BY <1>8, <1>10, <2>1 DEF Table
  <2> QED BY <1>2, <2>2, SumSwapped
<1>12. SumFunctionOnSet(total, K) = SumFunctionOnSet(fair, M)
  <2>1. \A u \in M : fair[u] = SumFunctionOnSet([k \in K |-> b[k][u]], K)
    BY <1>7
  <2>2. Table(b, K, M, total, fair)
    BY <1>9, <2>1 DEF Table
  <2> QED BY <1>2, <2>2, SumSwapped
<1>13. ASSUME NEW u \in M PROVE Fits(paid[u]) /\ Fits(fair[u])
  <2>1. \A v \in M : paid[v] \in Nat /\ fair[v] \in Nat
    <3> TAKE v \in M
    <3>1. PICK f, g : f = [k \in K |-> a[k][v]] /\ g = [k \in K |-> b[k][v]]
      OBVIOUS
    <3>2. (\A k \in K : f[k] \in Nat) /\ (\A k \in K : g[k] \in Nat)
      BY <1>8, <1>9, <3>1
    <3>3. SumFunctionOnSet(f, K) \in Nat /\ SumFunctionOnSet(g, K) \in Nat
      BY <1>2, <3>2, SumOfNaturals
    <3> QED BY <1>6, <1>7, <3>1, <3>3
  <2>2. paid[u] <= SumFunctionOnSet(paid, M) /\ fair[u] <= SumFunctionOnSet(fair, M)
    BY <2>1, SumOfNaturals
  <2>3. PICK t : t = SumFunctionOnSet(total, K) /\ Fits(t)
    <3>1. total = AmountsOf(l) /\ DOMAIN total = K
      BY <1>1, <1>3 DEF AmountsOf
    <3> QED BY <3>1, SumOfFunction DEF Shareable
  <2>4. paid[u] <= t /\ fair[u] <= t /\ t \in Nat /\ t <= MaxInt
    BY <1>11, <1>12, <2>2, <2>3 DEF Fits
  <2> QED BY <2>1, <2>4, MaxIntAssumption DEF Fits
<1>14. PICK net : net = Balances(M, l)
  OBVIOUS
<1>15. ASSUME NEW u \in M
       PROVE  /\ SumPaidByMember(M, l)[u] = paid[u]
              /\ buildFairShares(M, l)[u] = fair[u]
  <2>1. PICK f : f = [k \in K |-> IF l[k].paidBy = u THEN l[k].amount ELSE 0]
    OBVIOUS
  <2>2. PICK g : g = [k \in K |-> IF u \in Participants(l[k], M) THEN Owes(l[k], M)[u] ELSE 0]
    OBVIOUS
  <2>3. f = [k \in K |-> a[k][u]] /\ g = [k \in K |-> b[k][u]]
    BY <1>4, <1>5, <2>1, <2>2
  <2>4. DOMAIN f = K /\ DOMAIN g = K
    BY <2>1, <2>2
  <2>5. SumFunctionOnSet(f, K) = paid[u] /\ SumFunctionOnSet(g, K) = fair[u]
    BY <1>6, <1>7, <2>3
  <2>6. SumPaidByMember(M, l)[u] = SumFunction(f)
    BY <1>1, <2>1 DEF SumPaidByMember
  <2>7. buildFairShares(M, l)[u] = WrapSum(g)
    BY <1>1, <2>2 DEF buildFairShares
  <2>8. WrapSum(g) = SumFunctionOnSet(g, K)
    BY <1>13, <2>4, <2>5, WrapSums
  <2> QED BY <2>4, <2>5, <2>6, <2>7, <2>8, SumOfFunction
<1>16. net = [u \in M |-> paid[u] - fair[u]]
  <2>1. net = [u \in M |-> Wrap(paid[u] - fair[u])]
    BY <1>14, <1>15 DEF Balances
  <2>2. ASSUME NEW u \in M PROVE Wrap(paid[u] - fair[u]) = paid[u] - fair[u]
    <3>1. PICK x : x = paid[u] - fair[u] /\ x \in Int /\ -MaxInt <= x /\ x <= MaxInt
      BY <1>13, MaxIntAssumption DEF Fits
    <3> QED BY <3>1, Wraps
  <2> QED BY <2>1, <2>2
<1>17. \A u \in M : net[u] \in Int /\ fair[u] \in Int /\ paid[u] = net[u] + fair[u]
  <2>1. \A u \in M : paid[u] \in Int /\ fair[u] \in Int
    BY <1>13 DEF Fits
  <2> QED BY <1>16, <2>1
<1>18. SumFunctionOnSet(paid, M) = SumFunctionOnSet(net, M) + SumFunctionOnSet(fair, M)
  <2>1. IsFiniteSet(M) /\ \A u \in M : net[u] \in Int /\ fair[u] \in Int /\ paid[u] = net[u] + fair[u]
    BY <1>17
  <2> QED BY ONLY <2>1, SumPlus
<1>19. SumFunctionOnSet(net, M) \in Int /\ SumFunctionOnSet(fair, M) \in Int
  BY <1>17, SumFacts
<1>20. SumFunctionOnSet(net, M) = 0
  <2>1. PICK x, y : x = SumFunctionOnSet(net, M) /\ y = SumFunctionOnSet(fair, M)
    OBVIOUS
  <2>2. x \in Int /\ y \in Int /\ y = x + y
    BY <1>11, <1>12, <1>18, <1>19, <2>1
  <2> QED BY <2>1, <2>2
<1>21. net \in [M -> Int] /\ DOMAIN net = M
  BY <1>16, <1>17
<1> QED BY <1>14, <1>20, <1>21, SumOfFunction
-----------------------------------------------------------------------------
\* The lists and transfers of debtors D and creditors C, and how long the lists are.
Sided(D, C, s) ==
  /\ s.debtors \in Seq(AcctOf(D)) /\ s.creditors \in Seq(AcctOf(C))
  /\ s.plan \in Seq([From : D, To : C, Amount : Int])

Size(s) == Len(s.debtors) + Len(s.creditors)

\* A turn keeps the types and evens an account.
LEMMA TurnTyped ==
  ASSUME NEW D, NEW C, NEW s, Sided(D, C, s), ~Matched(s)
  PROVE  /\ Sided(D, C, MatchHeads(s))
         /\ Size(s) \in Nat /\ Size(MatchHeads(s)) \in Nat /\ Size(MatchHeads(s)) < Size(s)
<1>1. PICK ds \in Seq(AcctOf(D)), cs \in Seq(AcctOf(C)) : ds = s.debtors /\ cs = s.creditors
  BY DEF Sided
<1>2. ds # << >> /\ cs # << >>
  BY <1>1 DEF Matched
<1>3. PICK d, c : d = ds[1] /\ c = cs[1]
  OBVIOUS
<1>4. PICK m, n : m = Len(ds) /\ n = Len(cs) /\ m \in Nat \ {0} /\ n \in Nat \ {0}
  BY <1>2, EmptySeq
<1>5. d.net \in Int /\ c.net \in Int /\ d.user \in D /\ c.user \in C
  <2>1. 1 \in 1..m /\ 1 \in 1..n
    BY <1>4
  <2>2. d \in AcctOf(D) /\ c \in AcctOf(C)
    BY <1>3, <1>4, <2>1
  <2> QED BY <2>2 DEF AcctOf
<1>6. PICK amt : amt = AmountOf(d, c)
  OBVIOUS
<1>7. PICK x, y : x = d.net + amt /\ y = c.net - amt
  OBVIOUS
<1>8. amt \in Int /\ x \in Int /\ y \in Int /\ (x = 0 \/ y = 0)
  BY <1>5, <1>6, <1>7 DEF AmountOf
<1>9. PICK e : e = [From |-> d.user, To |-> c.user, Amount |-> amt]
  OBVIOUS
<1>10. PICK t : t = MatchHeads(s)
  OBVIOUS
<1>11. /\ t.debtors = Advance(ds, x) /\ t.creditors = Advance(cs, y)
       /\ t.plan = Append(s.plan, e)
  BY <1>1, <1>3, <1>6, <1>7, <1>9, <1>10 DEF MatchHeads
<1>12. /\ Advance(ds, x) \in Seq(AcctOf(D)) /\ Advance(cs, y) \in Seq(AcctOf(C))
       /\ Len(Advance(ds, x)) = IF x = 0 THEN m - 1 ELSE m
       /\ Len(Advance(cs, y)) = IF y = 0 THEN n - 1 ELSE n
  <2>1. /\ Advance(ds, x) \in Seq(AcctOf(D))
        /\ Len(Advance(ds, x)) = IF x = 0 THEN m - 1 ELSE m
    BY <1>2, <1>4, <1>8, Advanced
  <2>2. /\ Advance(cs, y) \in Seq(AcctOf(C))
        /\ Len(Advance(cs, y)) = IF y = 0 THEN n - 1 ELSE n
    BY <1>2, <1>4, <1>8, Advanced
  <2> QED BY <2>1, <2>2
<1>13. t.plan \in Seq([From : D, To : C, Amount : Int])
  <2>1. e \in [From : D, To : C, Amount : Int]
    BY <1>5, <1>8, <1>9
  <2>2. s.plan \in Seq([From : D, To : C, Amount : Int])
    BY DEF Sided
  <2> QED BY <1>11, <2>1, <2>2
<1>14. Sided(D, C, t)
  BY <1>11, <1>12, <1>13 DEF Sided
<1>15. Size(s) = m + n /\ Size(t) = (IF x = 0 THEN m - 1 ELSE m) + (IF y = 0 THEN n - 1 ELSE n)
  BY <1>1, <1>4, <1>11, <1>12 DEF Size
<1>16. Size(s) \in Nat /\ Size(t) \in Nat /\ Size(t) < Size(s)
  <2>1. CASE x = 0
    BY <1>4, <1>15, <2>1
  <2>2. CASE y = 0
    BY <1>4, <1>15, <2>2
  <2> QED BY <1>8, <2>1, <2>2
<1> QED BY <1>10, <1>14, <1>16

\* So the loop is defined on all its states.
LEMMA PlanStates ==
  /\ \A s \in PlanState : Sided(Nat, Nat, s) /\ Size(s) \in Nat
  /\ \A s \in PlanState : ~Matched(s) =>
       MatchHeads(s) \in PlanState /\ Size(MatchHeads(s)) < Size(s)
<1>1. Acct = AcctOf(Nat) /\ Transfer = [From : Nat, To : Nat, Amount : Int]
  BY DEF Acct, AcctOf, Transfer
<1>2. ASSUME NEW s \in PlanState PROVE Sided(Nat, Nat, s) /\ Size(s) \in Nat
  <2>1. /\ s.debtors \in Seq(Acct) /\ s.creditors \in Seq(Acct)
        /\ s.plan \in Seq(Transfer)
    BY DEF PlanState
  <2>2. Sided(Nat, Nat, s)
    BY <1>1, <2>1 DEF Sided
  <2>3. Len(s.debtors) \in Nat /\ Len(s.creditors) \in Nat
    BY <2>1
  <2>4. PICK m, n : m = Len(s.debtors) /\ n = Len(s.creditors)
    OBVIOUS
  <2>5. Size(s) = m + n /\ m \in Nat /\ n \in Nat
    BY <2>3, <2>4 DEF Size
  <2>6. Size(s) \in Nat
    BY <2>5
  <2> QED BY ONLY <2>2, <2>6
<1>3. ASSUME NEW s \in PlanState, ~Matched(s)
      PROVE  MatchHeads(s) \in PlanState /\ Size(MatchHeads(s)) < Size(s)
  <2>1. PICK t : t = MatchHeads(s)
    OBVIOUS
  <2>2. Sided(Nat, Nat, t) /\ Size(t) < Size(s)
    BY <1>2, <1>3, <2>1, TurnTyped
  <2>3. t = [debtors |-> t.debtors, creditors |-> t.creditors, plan |-> t.plan]
    BY <2>1 DEF MatchHeads
  <2>4. /\ t.debtors \in Seq(Acct) /\ t.creditors \in Seq(Acct) /\ t.plan \in Seq(Transfer)
    BY <1>1, <2>2 DEF Sided
  <2>5. t \in PlanState
    BY <2>3, <2>4 DEF PlanState
  <2> QED BY <2>1, <2>2, <2>5
<1> QED BY <1>2, <1>3

\* What the loop returns from s, when it returns g from the states after it.
Returned(s, g) == IF Matched(s) THEN s.plan ELSE g[MatchHeads(s)]

Solves(n, g) == \A s \in PlanState : Size(s) <= n => g[s] = Returned(s, g)

\* What the loop returns from the states with at most n accounts there is ...
LEMMA SolvesExists ==
  ASSUME NEW n \in Nat
  PROVE  \E g : Solves(n, g)
<1> DEFINE N == {k \in Nat : \E g : Solves(k, g)}
<1>1. 0 \in N
  <2>1. PICK g : g = [s \in PlanState |-> s.plan]
    OBVIOUS
  <2>2. ASSUME NEW s \in PlanState, Size(s) <= 0 PROVE g[s] = Returned(s, g)
    <3>1. Matched(s)
      BY <2>2, PlanStates
    <3> QED BY <2>1, <3>1 DEF Returned
  <2> QED BY <2>2 DEF Solves
<1>2. ASSUME NEW k \in N PROVE k + 1 \in N
  <2>1. PICK g : Solves(k, g)
    OBVIOUS
  <2>2. PICK h : h = [s \in PlanState |-> IF Size(s) <= k THEN g[s] ELSE Returned(s, g)]
    OBVIOUS
  <2>3. ASSUME NEW s \in PlanState, Size(s) <= k + 1 PROVE h[s] = Returned(s, h)
    <3>1. h[s] = Returned(s, g)
      BY <2>1, <2>2 DEF Solves
    <3>2. CASE Matched(s)
      BY <3>1, <3>2 DEF Returned
    <3>3. CASE ~Matched(s)
      <4>1. PICK t : t = MatchHeads(s) /\ t \in PlanState /\ Size(t) < Size(s)
        BY <3>3, PlanStates
      <4>2. Size(t) \in Nat /\ Size(s) \in Nat
        BY <4>1, PlanStates
      <4>3. h[t] = g[t]
        BY <2>2, <2>3, <4>1, <4>2
      <4> QED BY <3>1, <3>3, <4>1, <4>3 DEF Returned
    <3> QED BY <3>2, <3>3
  <2>4. Solves(k + 1, h)
    BY <2>3 DEF Solves
  <2> QED BY <2>4
<1>3. N = Nat
  <2> HIDE DEF N
  <2>1. N \in SUBSET Nat
    BY DEF N
  <2> QED BY <1>1, <1>2, <2>1, SetInduction
<1> QED BY <1>3

\* ... and only one.
LEMMA SolvesAgree ==
  ASSUME NEW n \in Nat, NEW g, NEW h, Solves(n, g), Solves(n, h),
         NEW s \in PlanState, Size(s) <= n
  PROVE  g[s] = h[s]
<1> DEFINE B == {m \in Nat : \E t \in PlanState : Size(t) = m /\ m <= n /\ g[t] # h[t]}
<1>1. ASSUME B # {} PROVE FALSE
  <2>1. PICK m \in B : \A k \in B : m <= k
    <3>1. B \in SUBSET Nat
      OBVIOUS
    <3> HIDE DEF B
    <3> QED BY <1>1, <3>1, LeastNumber
  <2>2. PICK t \in PlanState : Size(t) = m /\ m <= n /\ g[t] # h[t]
    BY <2>1
  <2>3. g[t] = Returned(t, g) /\ h[t] = Returned(t, h)
    BY <2>2 DEF Solves
  <2>4. ~Matched(t)
    BY <2>2, <2>3 DEF Returned
  <2>5. PICK r : r = MatchHeads(t) /\ r \in PlanState /\ Size(r) < Size(t) /\ Size(r) \in Nat
    BY <2>4, PlanStates
  <2>6. g[r] # h[r]
    BY <2>2, <2>3, <2>4, <2>5 DEF Returned
  <2>7. Size(r) \in B
    BY <2>2, <2>5, <2>6
  <2> QED BY <2>1, <2>2, <2>5, <2>7
<1>2. Size(s) \in Nat
  BY PlanStates
<1> QED BY <1>1, <1>2

\* So the recursion has a solution, which the loop returns.
LEMMA MatchReturns ==
  \A s \in PlanState : Match[s] = IF Matched(s) THEN s.plan ELSE Match[MatchHeads(s)]
<1> DEFINE Recursive(g) ==
      g = [s \in PlanState |-> IF Matched(s) THEN s.plan ELSE g[MatchHeads(s)]]
<1>1. PICK h : h = [s \in PlanState |-> (CHOOSE g : Solves(Size(s), g))[s]]
  OBVIOUS
<1>2. ASSUME NEW s \in PlanState PROVE h[s] = Returned(s, h)
  <2>1. PICK n : n = Size(s) /\ n \in Nat
    BY PlanStates
  <2>2. PICK g : g = (CHOOSE k : Solves(n, k)) /\ Solves(n, g)
    BY <2>1, SolvesExists
  <2>3. h[s] = g[s]
    BY <1>1, <2>1, <2>2
  <2>4. g[s] = Returned(s, g)
    BY <2>1, <2>2 DEF Solves
  <2>5. CASE Matched(s)
    BY <2>3, <2>4, <2>5 DEF Returned
  <2>6. CASE ~Matched(s)
    <3>1. PICK t : t = MatchHeads(s) /\ t \in PlanState /\ Size(t) < Size(s) /\ Size(t) \in Nat
      BY <2>6, PlanStates
    <3>2. PICK m : m = Size(t) /\ m \in Nat /\ m < n
      BY <2>1, <3>1
    <3>3. PICK f : f = (CHOOSE k : Solves(m, k)) /\ Solves(m, f)
      BY <3>2, SolvesExists
    <3>4. h[t] = f[t]
      BY <1>1, <3>1, <3>2, <3>3
    <3>5. Solves(m, g)
      <4>1. ASSUME NEW r \in PlanState, Size(r) <= m PROVE g[r] = Returned(r, g)
        <5>1. Size(r) \in Nat
          BY PlanStates
        <5>2. Size(r) <= n
          BY <2>1, <3>2, <4>1, <5>1
        <5> QED BY <2>2, <5>2 DEF Solves
      <4> QED BY <4>1 DEF Solves
    <3>6. f[t] = g[t]
      <4>1. Size(t) <= m
        BY <3>2
      <4> QED BY <3>1, <3>2, <3>3, <3>5, <4>1, SolvesAgree
    <3> QED BY <2>3, <2>4, <2>6, <3>1, <3>4, <3>6 DEF Returned
  <2> QED BY <2>5, <2>6
<1>3. Recursive(h)
  BY <1>1, <1>2 DEF Returned
<1>4. Match = CHOOSE g : Recursive(g)
  BY DEF Match
<1>5. Recursive(Match)
  <2> HIDE DEF Recursive
  <2> QED BY <1>3, <1>4
<1> QED BY <1>5

\* What every turn keeps holds of a state that the loop has ended in, with the
\* plan that it returns.
LEMMA MatchEnds ==
  ASSUME NEW I \in SUBSET PlanState, \A s \in I : ~Matched(s) => MatchHeads(s) \in I,
         NEW s \in I
  PROVE  \E t \in I : Matched(t) /\ Match[s] = t.plan
<1> DEFINE Ends(r) == \E t \in I : Matched(t) /\ Match[r] = t.plan
           B == {m \in Nat : \E r \in I : Size(r) = m /\ ~Ends(r)}
<1>1. ASSUME B # {} PROVE FALSE
  <2>1. PICK m \in B : \A k \in B : m <= k
    <3>1. B \in SUBSET Nat
      OBVIOUS
    <3> HIDE DEF B
    <3> QED BY <1>1, <3>1, LeastNumber
  <2>2. PICK r \in I : Size(r) = m /\ ~Ends(r)
    BY <2>1
  <2>3. r \in PlanState
    OBVIOUS
  <2>4. ~Matched(r)
    BY <2>2, <2>3, MatchReturns
  <2>5. PICK q : q = MatchHeads(r) /\ q \in I /\ Size(q) < Size(r) /\ Size(q) \in Nat
    BY <2>3, <2>4, PlanStates
  <2>6. Match[r] = Match[q]
    BY <2>3, <2>4, <2>5, MatchReturns
  <2>7. ~Ends(q)
    BY <2>2, <2>6
  <2>8. Size(q) \in B
    BY <2>5, <2>7
  <2> HIDE DEF B
  <2>9. Size(r) \in Nat
    BY <2>3, PlanStates
  <2> QED BY <2>1, <2>2, <2>5, <2>8, <2>9
<1>2. Size(s) \in Nat
  BY PlanStates
<1> QED BY <1>1, <1>2

\* The accounts of some users of D.
LEMMA AccountsTyped ==
  ASSUME NEW n \in Nat, NEW q, DOMAIN q = 1..n, NEW net, NEW D,
         \A i \in 1..n : q[i] \in D /\ net[q[i]] \in Int
  PROVE  Accounts(q, net) \in Seq(AcctOf(D))
<1>1. Accounts(q, net) = [i \in 1..n |-> [user |-> q[i], net |-> net[q[i]]]]
  BY DEF Accounts
<1>2. \A i \in 1..n : [user |-> q[i], net |-> net[q[i]]] \in AcctOf(D)
  BY DEF AcctOf
<1>3. [i \in 1..n |-> [user |-> q[i], net |-> net[q[i]]]] \in [1..n -> AcctOf(D)]
  BY <1>2
<1> QED BY <1>1, <1>3

\* computePlan starts its loop with the sorted accounts.
LEMMA PlanStarts ==
  ASSUME NEW M, IsFiniteSet(M), M \subseteq Nat, NEW net \in [M -> Int]
  PROVE  \E p \in SortedDebtors(net), q \in SortedCreditors(net), s \in PlanState :
           /\ s = [debtors |-> Accounts(p, net), creditors |-> Accounts(q, net), plan |-> << >>]
           /\ Sided(Owing(net), Owed(net), s)
           /\ computePlan(net) = Match[s]
<1>1. PICK p \in SortedDebtors(net), q \in SortedCreditors(net) :
        /\ p = (CHOOSE x \in SortedDebtors(net) : TRUE)
        /\ q = (CHOOSE x \in SortedCreditors(net) : TRUE)
  BY SidesSorted
<1>2. PICK s : s = [debtors |-> Accounts(p, net), creditors |-> Accounts(q, net), plan |-> << >>]
  OBVIOUS
<1>3. computePlan(net) = Match[s]
  BY <1>1, <1>2 DEF computePlan
<1>4. PICK O, C : O = Owing(net) /\ C = Owed(net)
  OBVIOUS
<1>5. /\ O \in SUBSET M /\ C \in SUBSET M /\ \A u \in M : net[u] \in Int /\ u \in Nat
  BY <1>4 DEF Owing, Owed
<1>6. PICK m, n : m = Cardinality(O) /\ n = Cardinality(C) /\ m \in Nat /\ n \in Nat
  <2>1. IsFiniteSet(O) /\ IsFiniteSet(C)
    BY <1>5, FS_Subset
  <2> QED BY <2>1, FS_CardinalityType
<1>7. p \in [1..m -> O] /\ q \in [1..n -> C]
  BY <1>4, <1>6 DEF SortedDebtors, SortedCreditors
<1>8. /\ DOMAIN p = 1..m /\ \A i \in 1..m : p[i] \in O /\ p[i] \in Nat /\ net[p[i]] \in Int
      /\ DOMAIN q = 1..n /\ \A i \in 1..n : q[i] \in C /\ q[i] \in Nat /\ net[q[i]] \in Int
  BY <1>5, <1>7
<1>9. PICK ds, cs : ds = Accounts(p, net) /\ cs = Accounts(q, net)
  OBVIOUS
<1>10. ds \in Seq(AcctOf(O)) /\ ds \in Seq(AcctOf(Nat))
  BY <1>6, <1>8, <1>9, AccountsTyped
<1>11. cs \in Seq(AcctOf(C)) /\ cs \in Seq(AcctOf(Nat))
  BY <1>6, <1>8, <1>9, AccountsTyped
<1>12. Sided(O, C, s)
  <2>1. s.debtors = ds /\ s.creditors = cs /\ s.plan = << >>
    BY <1>2, <1>9
  <2>2. << >> \in Seq([From : O, To : C, Amount : Int])
    OBVIOUS
  <2> QED BY <1>10, <1>11, <2>1, <2>2 DEF Sided
<1>13. s \in PlanState
  <2>1. Acct = AcctOf(Nat)
    BY DEF Acct, AcctOf
  <2>2. << >> \in Seq(Transfer)
    OBVIOUS
  <2>3. ds \in Seq(Acct) /\ cs \in Seq(Acct)
    BY <1>10, <1>11, <2>1
  <2>4. s = [debtors |-> ds, creditors |-> cs, plan |-> << >>]
    BY <1>2, <1>9
  <2> QED BY <2>2, <2>3, <2>4 DEF PlanState
<1> QED BY <1>1, <1>2, <1>3, <1>4, <1>12, <1>13

\* The plan is one of transfers from who owes to who is owed ...
LEMMA PlanTransfers ==
  ASSUME NEW M, IsFiniteSet(M), M \subseteq Nat, NEW net \in [M -> Int]
  PROVE  computePlan(net) \in Seq([From : Owing(net), To : Owed(net), Amount : Int])
<1>1. PICK s \in PlanState : Sided(Owing(net), Owed(net), s) /\ computePlan(net) = Match[s]
  BY PlanStarts
<1>2. PICK I : I = {t \in PlanState : Sided(Owing(net), Owed(net), t)}
  OBVIOUS
<1>3. I \in SUBSET PlanState /\ s \in I
  BY <1>1, <1>2
<1>4. ASSUME NEW t \in I, ~Matched(t) PROVE MatchHeads(t) \in I
  <2>1. MatchHeads(t) \in PlanState
    BY <1>2, <1>4, PlanStates
  <2>2. Sided(Owing(net), Owed(net), MatchHeads(t))
    <3>1. PICK O, C : O = Owing(net) /\ C = Owed(net)
      OBVIOUS
    <3>2. Sided(O, C, t)
      BY <1>2, <3>1
    <3>3. Sided(O, C, MatchHeads(t))
      BY ONLY <1>4, <3>2, TurnTyped
    <3> QED BY <3>1, <3>3
  <2> QED BY <1>2, <2>1, <2>2
<1>5. PICK t \in I : Matched(t) /\ Match[s] = t.plan
  BY <1>3, <1>4, MatchEnds
<1>6. t.plan \in Seq([From : Owing(net), To : Owed(net), Amount : Int])
  BY <1>2 DEF Sided
<1> QED BY <1>1, <1>5, <1>6

\* ... which even all balances, if they come to nothing together.
LEMMA PlanSettles ==
  ASSUME NEW M, IsFiniteSet(M), M \subseteq Nat,
         NEW net \in [M -> Int], SumFunctionOnSet(net, M) = 0
  PROVE  \A u \in M : net[u] + Sent(computePlan(net), u) - Received(computePlan(net), u) = 0
<1>1. PICK p \in SortedDebtors(net), q \in SortedCreditors(net), s \in PlanState :
        /\ s = [debtors |-> Accounts(p, net), creditors |-> Accounts(q, net), plan |-> << >>]
        /\ computePlan(net) = Match[s]
  BY PlanStarts
<1>2. Loop(M, net, s)
  BY <1>1, LoopStart
<1>3. PICK I : I = {t \in PlanState : Loop(M, net, t)}
  OBVIOUS
<1>4. I \in SUBSET PlanState /\ s \in I
  BY <1>1, <1>2, <1>3
<1>5. ASSUME NEW t \in I, ~Matched(t) PROVE MatchHeads(t) \in I
  <2>1. MatchHeads(t) \in PlanState
    BY <1>3, <1>5, PlanStates
  <2>2. Loop(M, net, t)
    BY <1>3
  <2>3. Loop(M, net, MatchHeads(t))
    BY <1>5, <2>2, LoopTurn
  <2> QED BY <1>3, <2>1, <2>3
<1>6. PICK t \in I : Matched(t) /\ Match[s] = t.plan
  BY <1>4, <1>5, MatchEnds
<1>7. Loop(M, net, t)
  BY <1>3
<1>8. \A u \in M : net[u] + Sent(t.plan, u) - Received(t.plan, u) = 0
  BY <1>6, <1>7, LoopEnd
<1> QED BY <1>1, <1>6, <1>8
-----------------------------------------------------------------------------
\* An expense of any participants, whether or not the members can share it.
Splits(e, members) ==
  /\ e.amount \in Int
  /\ IsFiniteSet(Participants(e, members)) /\ Participants(e, members) \subseteq Nat
  /\ \A u \in Participants(e, members) : Weight(e, u) \in Int

\* Division gives an integer.
LEMMA QuotientType ==
  ASSUME NEW a \in Int, NEW b \in Int, b > 0
  PROVE  Quotient(a, b) \in Int
<1>1. a \div b \in Int /\ (-a) \div b \in Int
  OBVIOUS
<1>2. PICK x, y : x = a \div b /\ y = (-a) \div b /\ x \in Int /\ y \in Int
  BY <1>1
<1>3. Quotient(a, b) = x \/ Quotient(a, b) = -y
  BY <1>2 DEF Quotient
<1> QED BY <1>2, <1>3

\* What the participants owe of it are integers, also when a product overflows.
LEMMA OwesType ==
  ASSUME NEW M, NEW e, Splits(e, M)
  PROVE  \A u \in Participants(e, M) : Owes(e, M)[u] \in Int
<1>1. PICK P, n, users, t : P = Participants(e, M) /\ n = Cardinality(P) /\ users = ById(P) /\ t = e.amount
  OBVIOUS
<1>2. PICK N : N = 1..n
  OBVIOUS
<1>3. IsFiniteSet(P) /\ P \subseteq Nat /\ n \in Nat /\ t \in Int /\ \A u \in P : Weight(e, u) \in Int
  BY <1>1, FS_CardinalityType DEF Splits
<1>4. users \in [N -> P] /\ \A u \in P : \E i \in N : users[i] = u
  BY <1>1, <1>2, <1>3, ByIdNames DEF Renames
<1>5. PICK weights : weights = [i \in N |-> Weight(e, users[i])]
  OBVIOUS
<1>6. DOMAIN weights = N /\ \A i \in N : weights[i] \in Int
  BY <1>3, <1>4, <1>5
<1>7. IsFiniteSet(N)
  <2>1. 1 \in Int /\ n \in Int
    BY <1>3
  <2>2. IsFiniteSet(1..n)
    BY ONLY <2>1, FS_Interval
  <2> QED BY <1>2, <2>2
<1>8. PICK W : W = WrapSum(weights) /\ W \in Int
  <2>1. SumFunction(weights) \in Int
    BY <1>6, <1>7, SumOfFunction, SumFacts
  <2> QED BY <2>1, Wraps DEF WrapSum
<1>9. PICK sh : sh = weightedShares(t, weights)
  OBVIOUS
<1>10. \A i \in N : sh[i] \in Int
  <2>1. CASE W <= 0
    BY <1>6, <1>8, <1>9, <2>1 DEF weightedShares
  <2>2. CASE ~(W <= 0)
    <3>1. PICK base : base = Base(t, weights)
      OBVIOUS
    <3>2. ASSUME NEW i \in N PROVE base[i] \in Int
      <4>1. PICK x : x = Wrap(t * weights[i]) /\ x \in Int
        BY <1>3, <1>6, Wraps
      <4>2. Quotient(x, W) \in Int
        BY <1>8, <2>2, <4>1, QuotientType
      <4> QED BY <1>6, <1>8, <3>1, <4>1, <4>2 DEF Base
    <3>3. sh = [i \in N |-> Wrap(base[i] + (IF i <= Remainder(t, base) THEN 1 ELSE 0))]
      BY <1>6, <1>8, <1>9, <2>2, <3>1 DEF weightedShares
    <3>4. \A i \in N : base[i] + (IF i <= Remainder(t, base) THEN 1 ELSE 0) \in Int
      BY <3>2
    <3> QED BY <3>3, <3>4, Wraps
  <2> QED BY <2>1, <2>2
<1>11. DOMAIN users = N
  BY <1>4
<1>12. Owes(e, M) = [u \in P |-> sh[CHOOSE i \in N : users[i] = u]]
  BY <1>1, <1>5, <1>9, <1>11 DEF Owes
<1>13. \A u \in P : (CHOOSE i \in N : users[i] = u) \in N
  BY <1>4
<1> QED BY <1>1, <1>10, <1>12, <1>13

\* So are the balances.
LEMMA BalancesType ==
  ASSUME NEW M, NEW l, IsFiniteSet(DOMAIN l), \A k \in DOMAIN l : Splits(l[k], M)
  PROVE  Balances(M, l) \in [M -> Int]
<1>1. ASSUME NEW u \in M PROVE SumPaidByMember(M, l)[u] \in Int
  <2>1. PICK f : f = [k \in DOMAIN l |-> IF l[k].paidBy = u THEN l[k].amount ELSE 0]
    OBVIOUS
  <2>2. DOMAIN f = DOMAIN l /\ \A k \in DOMAIN l : f[k] \in Int
    BY <2>1 DEF Splits
  <2>3. SumFunction(f) \in Int
    BY <2>2, SumOfFunction, SumFacts
  <2> QED BY <2>1, <2>3 DEF SumPaidByMember
<1>2. ASSUME NEW u \in M PROVE buildFairShares(M, l)[u] \in Int
  <2>1. PICK f : f = [k \in DOMAIN l |-> IF u \in Participants(l[k], M) THEN Owes(l[k], M)[u] ELSE 0]
    OBVIOUS
  <2>2. DOMAIN f = DOMAIN l /\ \A k \in DOMAIN l : f[k] \in Int
    BY <2>1, OwesType
  <2>3. SumFunction(f) \in Int
    BY <2>2, SumOfFunction, SumFacts
  <2>4. WrapSum(f) \in Int
    BY <2>3, Wraps DEF WrapSum
  <2> QED BY <2>1, <2>4 DEF buildFairShares
<1>3. Balances(M, l) = [u \in M |-> Wrap(SumPaidByMember(M, l)[u] - buildFairShares(M, l)[u])]
  BY DEF Balances
<1>4. \A u \in M : SumPaidByMember(M, l)[u] - buildFairShares(M, l)[u] \in Int
  BY <1>1, <1>2
<1> QED BY <1>3, <1>4, Wraps

\* What a plan between different members has u pay and receive.
LEMMA FlowIs ==
  ASSUME NEW M, NEW p \in Seq([From : M, To : M, Amount : Int]),
         \A k \in DOMAIN p : p[k].From # p[k].To, NEW u
  PROVE  /\ Flow(p, u) = Sent(p, u) - Received(p, u)
         /\ Sent(p, u) \in Int /\ Received(p, u) \in Int
<1>1. PICK n, K : n = Len(p) /\ n \in Nat /\ K = 1..n /\ DOMAIN p = K
  OBVIOUS
<1>2. IsFiniteSet(K)
  <2>1. 1 \in Int /\ n \in Int
    BY <1>1
  <2>2. IsFiniteSet(1..n)
    BY ONLY <2>1, FS_Interval
  <2> QED BY <1>1, <2>2
<1>3. \A k \in K : p[k].Amount \in Int /\ p[k].From # p[k].To
  <2>1. PICK T : T = [From : M, To : M, Amount : Int]
    OBVIOUS
  <2>2. p \in Seq(T)
    BY <2>1
  <2>3. \A k \in K : p[k] \in T
    BY <1>1, <2>2
  <2> QED BY <1>1, <2>1, <2>3
<1>4. PICK s : s = [k \in K |-> IF p[k].From = u THEN p[k].Amount ELSE 0]
  OBVIOUS
<1>5. PICK r : r = [k \in K |-> IF p[k].To = u THEN p[k].Amount ELSE 0]
  OBVIOUS
<1>6. PICK flow : flow = [k \in K |-> IF p[k].From = u THEN p[k].Amount
                                       ELSE IF p[k].To = u THEN -p[k].Amount ELSE 0]
  OBVIOUS
<1>7. ASSUME NEW k \in K PROVE flow[k] \in Int /\ r[k] \in Int /\ s[k] = flow[k] + r[k]
  <2>1. PICK a, from, to : a = p[k].Amount /\ from = p[k].From /\ to = p[k].To
    OBVIOUS
  <2>2. a \in Int /\ from # to
    BY <1>3, <1>7, <2>1
  <2>3. /\ s[k] = IF from = u THEN a ELSE 0
        /\ r[k] = IF to = u THEN a ELSE 0
        /\ flow[k] = IF from = u THEN a ELSE IF to = u THEN -a ELSE 0
    BY <1>4, <1>5, <1>6, <1>7, <2>1
  <2>4. CASE from = u
    BY <2>2, <2>3, <2>4
  <2>5. CASE from # u /\ to = u
    BY <2>2, <2>3, <2>5
  <2>6. CASE from # u /\ to # u
    BY <2>3, <2>6
  <2> QED BY <2>4, <2>5, <2>6
<1>8. SumFunctionOnSet(s, K) = SumFunctionOnSet(flow, K) + SumFunctionOnSet(r, K)
  <2>1. IsFiniteSet(K) /\ \A k \in K : flow[k] \in Int /\ r[k] \in Int /\ s[k] = flow[k] + r[k]
    BY <1>2, <1>7
  <2> QED BY ONLY <2>1, SumPlus
<1>9. SumFunctionOnSet(flow, K) \in Int /\ SumFunctionOnSet(r, K) \in Int
  BY <1>2, <1>7, SumFacts
<1>10. Sent(p, u) = SumFunctionOnSet(s, K) /\ Received(p, u) = SumFunctionOnSet(r, K)
  BY <1>1, <1>4, <1>5 DEF Sent, Received
<1>11. Flow(p, u) = SumFunctionOnSet(flow, K)
  BY <1>1, <1>6, SumOfFunction DEF Flow
<1>12. PICK x, y : x = SumFunctionOnSet(flow, K) /\ y = SumFunctionOnSet(r, K)
  OBVIOUS
<1> QED BY <1>8, <1>9, <1>10, <1>11, <1>12

\* An account keeps its side of zero while it is listed.
Signed(s) ==
  /\ \A i \in 1..Len(s.debtors) : s.debtors[i].net < 0
  /\ \A i \in 1..Len(s.creditors) : s.creditors[i].net > 0
  /\ \A k \in 1..Len(s.plan) : s.plan[k].Amount > 0

\* The accounts listed after one has advanced to x are on the same side.
LEMMA AdvanceKeeps ==
  ASSUME NEW D, NEW accts \in Seq(AcctOf(D)), accts # << >>, NEW x \in Int, NEW I \in SUBSET Int,
         \A i \in 1..Len(accts) : accts[i].net \in I, x = 0 \/ x \in I,
         NEW i \in 1..Len(Advance(accts, x))
  PROVE  Advance(accts, x)[i].net \in I
<1>1. PICK a : a = Advance(accts, x)
  OBVIOUS
<1>2. /\ a \in Seq(AcctOf(D))
      /\ x = 0 => Len(a) = Len(accts) - 1 /\ \A j \in 1..Len(a) : a[j] = accts[j + 1]
      /\ x # 0 => /\ Len(a) = Len(accts)
                  /\ a[1] = [user |-> accts[1].user, net |-> x]
                  /\ \A j \in 2..Len(a) : a[j] = accts[j]
  BY <1>1, Advanced
<1>3. PICK n : n = Len(accts) /\ n \in Nat
  OBVIOUS
<1>4. CASE x = 0
  <2>1. i \in 1..(n - 1) /\ a[i] = accts[i + 1]
    BY <1>1, <1>2, <1>3, <1>4
  <2>2. i + 1 \in 1..n
    BY <1>3, <2>1
  <2> QED BY <1>1, <1>3, <2>1, <2>2
<1>5. CASE x # 0 /\ i = 1
  BY <1>1, <1>2, <1>5
<1>6. CASE x # 0 /\ i # 1
  <2>1. i \in 2..n /\ i \in 1..n /\ Len(a) = n
    BY <1>1, <1>2, <1>3, <1>6
  <2> QED BY <1>1, <1>2, <1>3, <1>6, <2>1
<1> QED BY <1>4, <1>5, <1>6

\* A turn keeps the signs.
LEMMA TurnSigned ==
  ASSUME NEW D, NEW C, NEW s, Sided(D, C, s), Signed(s), ~Matched(s)
  PROVE  Signed(MatchHeads(s))
<1>1. PICK ds \in Seq(AcctOf(D)), cs \in Seq(AcctOf(C)) : ds = s.debtors /\ cs = s.creditors
  BY DEF Sided
<1>2. ds # << >> /\ cs # << >>
  BY <1>1 DEF Matched
<1>3. PICK d, c : d = ds[1] /\ c = cs[1]
  OBVIOUS
<1>4. 1 \in 1..Len(ds) /\ 1 \in 1..Len(cs)
  BY <1>2, EmptySeq
<1>5. d.net \in Int /\ c.net \in Int /\ d.net < 0 /\ c.net > 0
  BY <1>1, <1>3, <1>4, AcctFacts DEF Signed
<1>6. PICK amt : amt = AmountOf(d, c)
  OBVIOUS
<1>7. PICK x, y : x = d.net + amt /\ y = c.net - amt
  OBVIOUS
<1>8. /\ amt \in Int /\ amt > 0 /\ x \in Int /\ y \in Int
      /\ x = 0 \/ x < 0
      /\ y = 0 \/ y > 0
  BY <1>5, <1>6, <1>7 DEF AmountOf
<1>9. PICK e : e = [From |-> d.user, To |-> c.user, Amount |-> amt]
  OBVIOUS
<1>10. PICK t : t = MatchHeads(s)
  OBVIOUS
<1>11. /\ t.debtors = Advance(ds, x) /\ t.creditors = Advance(cs, y)
       /\ t.plan = Append(s.plan, e)
  BY <1>1, <1>3, <1>6, <1>7, <1>9, <1>10 DEF MatchHeads
<1>12. PICK N, P : N = {z \in Int : z < 0} /\ P = {z \in Int : z > 0}
  OBVIOUS
<1>13. \A i \in 1..Len(t.debtors) : t.debtors[i].net \in N
  <2>1. N \in SUBSET Int /\ (x = 0 \/ x \in N) /\ \A i \in 1..Len(ds) : ds[i].net \in N
    BY <1>1, <1>8, <1>12, AcctFacts DEF Signed
  <2>2. \A i \in 1..Len(Advance(ds, x)) : Advance(ds, x)[i].net \in N
    BY <1>2, <1>8, <2>1, AdvanceKeeps
  <2> QED BY <1>11, <2>2
<1>14. \A i \in 1..Len(t.creditors) : t.creditors[i].net \in P
  <2>1. P \in SUBSET Int /\ (y = 0 \/ y \in P) /\ \A i \in 1..Len(cs) : cs[i].net \in P
    BY <1>1, <1>8, <1>12, AcctFacts DEF Signed
  <2>2. \A i \in 1..Len(Advance(cs, y)) : Advance(cs, y)[i].net \in P
    BY <1>2, <1>8, <2>1, AdvanceKeeps
  <2> QED BY <1>11, <2>2
<1>15. \A k \in 1..Len(t.plan) : t.plan[k].Amount > 0
  <2>1. PICK T, p : T = [From : D, To : C, Amount : Int] /\ p = s.plan /\ p \in Seq(T)
    BY DEF Sided
  <2>2. PICK n : n = Len(p) /\ n \in Nat
    BY <2>1
  <2>3. /\ Len(Append(p, e)) = n + 1 /\ Append(p, e)[n + 1] = e
        /\ \A k \in 1..n : Append(p, e)[k] = p[k]
    BY <2>1, <2>2
  <2>4. ASSUME NEW k \in 1..(n + 1) PROVE Append(p, e)[k].Amount > 0
    <3>1. CASE k = n + 1
      BY <1>8, <1>9, <2>3, <3>1
    <3>2. CASE k # n + 1
      <4>1. k \in 1..n
        BY <2>2, <3>2
      <4> QED BY <2>1, <2>2, <2>3, <4>1 DEF Signed
    <3> QED BY <3>1, <3>2
  <2> QED BY <1>11, <2>1, <2>3, <2>4
<1> QED BY <1>10, <1>12, <1>13, <1>14, <1>15 DEF Signed

\* The accounts of one side start with its sign.
LEMMA AccountsSigned ==
  ASSUME NEW S, NEW q \in [1..Cardinality(S) -> S], IsFiniteSet(S), NEW net,
         NEW i \in 1..Len(Accounts(q, net))
  PROVE  \E u \in S : Accounts(q, net)[i].net = net[u]
<1>1. PICK n : n = Cardinality(S) /\ n \in Nat
  BY FS_CardinalityType
<1>2. Accounts(q, net) = [j \in 1..n |-> [user |-> q[j], net |-> net[q[j]]]]
  BY <1>1 DEF Accounts
<1>3. Len(Accounts(q, net)) = n
  BY <1>1, <1>2
<1> QED BY <1>1, <1>2, <1>3

\* A plan pays debts, also when the balances do not come to nothing together.
LEMMA PlanPays ==
  ASSUME NEW M, IsFiniteSet(M), M \subseteq Nat, NEW net \in [M -> Int]
  PROVE  PaysDebts(net, computePlan(net))
<1>1. PICK p \in SortedDebtors(net), q \in SortedCreditors(net), s \in PlanState :
        /\ s = [debtors |-> Accounts(p, net), creditors |-> Accounts(q, net), plan |-> << >>]
        /\ Sided(Owing(net), Owed(net), s)
        /\ computePlan(net) = Match[s]
  BY PlanStarts
<1>2. PICK D, C : D = Owing(net) /\ C = Owed(net)
  OBVIOUS
<1>3. /\ IsFiniteSet(D) /\ \A u \in D : net[u] < 0
      /\ IsFiniteSet(C) /\ \A u \in C : net[u] > 0
  <2>1. D \in SUBSET M /\ C \in SUBSET M /\ (\A u \in D : net[u] < 0) /\ \A u \in C : net[u] > 0
    BY <1>2 DEF Owing, Owed
  <2> QED BY <2>1, FS_Subset
<1>4. Signed(s)
  <2>1. p \in [1..Cardinality(D) -> D] /\ q \in [1..Cardinality(C) -> C]
    BY <1>2 DEF SortedDebtors, SortedCreditors
  <2>2. \A i \in 1..Len(Accounts(p, net)) : Accounts(p, net)[i].net < 0
    BY <1>3, <2>1, AccountsSigned
  <2>3. \A i \in 1..Len(Accounts(q, net)) : Accounts(q, net)[i].net > 0
    BY <1>3, <2>1, AccountsSigned
  <2> QED BY <1>1, <2>2, <2>3 DEF Signed
<1>5. PICK I : I = {t \in PlanState : Sided(D, C, t) /\ Signed(t)}
  OBVIOUS
<1>6. I \in SUBSET PlanState /\ s \in I
  BY <1>1, <1>2, <1>4, <1>5
<1>7. ASSUME NEW t \in I, ~Matched(t) PROVE MatchHeads(t) \in I
  <2>1. t \in PlanState /\ Sided(D, C, t) /\ Signed(t)
    BY <1>5
  <2>2. MatchHeads(t) \in PlanState
    BY <1>7, <2>1, PlanStates
  <2>3. Sided(D, C, MatchHeads(t))
    BY ONLY <1>7, <2>1, TurnTyped
  <2>4. Signed(MatchHeads(t))
    BY ONLY <1>7, <2>1, TurnSigned
  <2> QED BY <1>5, <2>2, <2>3, <2>4
<1>8. PICK t \in I : Matched(t) /\ Match[s] = t.plan
  BY <1>6, <1>7, MatchEnds
<1>9. PICK plan : plan = t.plan /\ plan = computePlan(net)
  BY <1>1, <1>8
<1>10. plan \in Seq([From : D, To : C, Amount : Int]) /\ \A k \in 1..Len(plan) : plan[k].Amount > 0
  BY <1>5, <1>9 DEF Sided, Signed
<1>11. ASSUME NEW k \in DOMAIN plan
       PROVE  plan[k].Amount > 0 /\ plan[k].From \in D /\ plan[k].To \in C
  <2>1. PICK T : T = [From : D, To : C, Amount : Int]
    OBVIOUS
  <2>2. plan \in Seq(T)
    BY <1>10, <2>1
  <2>3. k \in 1..Len(plan) /\ plan[k] \in T
    BY <2>2
  <2> QED BY <1>10, <2>1, <2>3
<1> QED BY <1>2, <1>9, <1>11 DEF PaysDebts

\* The parties of a plan are different members.
LEMMA PlanPairs ==
  ASSUME NEW M, IsFiniteSet(M), M \subseteq Nat, NEW net \in [M -> Int]
  PROVE  /\ computePlan(net) \in Seq([From : M, To : M, Amount : Int])
         /\ \A k \in DOMAIN computePlan(net) :
              /\ computePlan(net)[k].From \in M /\ computePlan(net)[k].To \in M
              /\ computePlan(net)[k].From # computePlan(net)[k].To
<1>1. PICK p, D, C : p = computePlan(net) /\ D = Owing(net) /\ C = Owed(net)
  OBVIOUS
<1>2. D \in SUBSET M /\ C \in SUBSET M /\ \A d \in D : d \notin C
  <2>1. \A v \in M : net[v] \in Int
    OBVIOUS
  <2>2. D = {v \in M : net[v] < 0} /\ C = {v \in M : net[v] > 0}
    BY <1>1 DEF Owing, Owed
  <2> QED BY <2>1, <2>2
<1>3. PICK T, U : T = [From : D, To : C, Amount : Int] /\ U = [From : M, To : M, Amount : Int]
  OBVIOUS
<1>4. p \in Seq(T)
  BY <1>1, <1>3, PlanTransfers
<1>5. \A t \in T : t \in U /\ t.From \in M /\ t.To \in M /\ t.From # t.To
  BY <1>2, <1>3
<1>6. DOMAIN p = 1..Len(p) /\ Len(p) \in Nat /\ \A k \in 1..Len(p) : p[k] \in T
  BY <1>4
<1>7. p \in Seq(U)
  <2>1. PICK n : n = Len(p) /\ n \in Nat /\ DOMAIN p = 1..n
    BY <1>6
  <2>2. p \in [1..n -> T]
    BY <1>4, <2>1
  <2>3. p \in [1..n -> U]
    BY <1>5, <1>6, <2>1, <2>2
  <2> QED BY <2>1, <2>3
<1> QED BY <1>1, <1>3, <1>5, <1>6, <1>7

\* A plan evens the balances, if they come to nothing together.
LEMMA PlanEvensAll ==
  ASSUME NEW M, IsFiniteSet(M), M \subseteq Nat,
         NEW net \in [M -> Int], SumFunctionOnSet(net, M) = 0
  PROVE  Evens(net, computePlan(net))
<1>1. PICK p : p = computePlan(net)
  OBVIOUS
<1>2. p \in Seq([From : M, To : M, Amount : Int]) /\ \A k \in DOMAIN p : p[k].From # p[k].To
  BY <1>1, PlanPairs
<1>3. ASSUME NEW u \in M PROVE net[u] + Flow(p, u) = 0
  <2>1. Flow(p, u) = Sent(p, u) - Received(p, u) /\ Sent(p, u) \in Int /\ Received(p, u) \in Int
    BY ONLY <1>2, FlowIs
  <2>2. net[u] + Sent(p, u) - Received(p, u) = 0
    BY <1>1, PlanSettles
  <2>3. PICK x, y, z : x = Sent(p, u) /\ y = Received(p, u) /\ z = net[u] /\ z \in Int
    OBVIOUS
  <2> QED BY <2>1, <2>2, <2>3
<1> QED BY <1>1, <1>3 DEF Evens
=============================================================================
