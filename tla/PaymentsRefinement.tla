------------------------- MODULE PaymentsRefinement -------------------------
(***************************************************************************)
(* The transactions of Payments implement the two-key promise of TwoKey,   *)
(* for any accounts, payments, requests and proofs.                        *)
(*                                                                         *)
(* TwoKey knows neither requests nor versions: its keys are read off the   *)
(* committed audit trail.  The one thing to add to the invariant of        *)
(* PaymentsProofs is that the status, which alone the code looks at, tells *)
(* which keys are turned.  Then every commit is a step of TwoKey, and all  *)
(* the statements before it stutter.                                       *)
(***************************************************************************)
EXTENDS PaymentsProofs

\* The status of a payment stands for its keys.
KeysMatch ==
  \A p \in Payment :
    /\ pay[p].status \in {"pending", "disputed"} => KeysFrom(trail[p]) = {}
    /\ pay[p].status = "proof_submitted" => KeysFrom(trail[p]) = {Debtor[p]}
    /\ pay[p].status = "creditor_confirmed" => KeysFrom(trail[p]) = {Debtor[p], Creditor[p]}

Matched == Typed /\ Guarded /\ Audited /\ Counted /\ KeysMatch
-----------------------------------------------------------------------------
(***************************************************************************)
(* The keys of a trail that grows.                                         *)
(***************************************************************************)

\* The entries of a trail that still vouch for its payment.
Vouching(t) ==
  {k \in 1..Len(t) : /\ t[k].after \in {"proof_submitted", "creditor_confirmed"}
                     /\ \A l \in k..Len(t) : t[l].after # "disputed"}

\* The keys are turned by who made the entries that vouch.
LEMMA KeysAreVouched ==
  ASSUME NEW t
  PROVE  KeysFrom(t) = {t[i].actor : i \in Vouching(t)}
BY DEF KeysFrom, Vouching

\* A new entry throws all keys back, turns one more, or leaves them alone.
LEMMA VouchingAppend ==
  ASSUME NEW t \in Seq(Entry), NEW e \in Entry
  PROVE  LET n == Len(t) + 1 IN
         Vouching(Append(t, e)) =
           IF e.after = "disputed" THEN {}
           ELSE IF e.after \in {"proof_submitted", "creditor_confirmed"}
                THEN Vouching(t) \cup {n} ELSE Vouching(t)
<1> DEFINE s == Append(t, e)
           m == Len(t)
<1>1. /\ m \in Nat /\ Len(s) = m + 1
      /\ \A k \in 1..m : s[k] = t[k]
      /\ s[m + 1] = e
  OBVIOUS
<1> HIDE DEF s, m
<1>2. \A k \in 1..m : (\A l \in k..(m + 1) : s[l].after # "disputed")
                        <=> (\A l \in k..m : t[l].after # "disputed") /\ e.after # "disputed"
  <2> TAKE k \in 1..m
  <2>1. k..(m + 1) = k..m \cup {m + 1} /\ k..m \subseteq 1..m
    BY <1>1
  <2> QED BY <1>1, <2>1
<1>3. (m + 1)..(m + 1) = {m + 1} /\ 1..(m + 1) = 1..m \cup {m + 1} /\ m + 1 \notin 1..m
  BY <1>1
<1>4. Vouching(s) = {k \in 1..m \cup {m + 1} :
                       /\ s[k].after \in {"proof_submitted", "creditor_confirmed"}
                       /\ \A l \in k..(m + 1) : s[l].after # "disputed"}
  BY <1>1, <1>3 DEF Vouching
<1>5. \A k : k \in Vouching(s) <=>
        \/ k \in Vouching(t) /\ e.after # "disputed"
        \/ k = m + 1 /\ e.after \in {"proof_submitted", "creditor_confirmed"}
  <2> TAKE k
  <2>1. CASE k \in 1..m
    <3>1. k # m + 1
      BY <1>3, <2>1
    <3>2. k \in Vouching(t) <=> /\ t[k].after \in {"proof_submitted", "creditor_confirmed"}
                                /\ \A l \in k..m : t[l].after # "disputed"
      BY <2>1 DEF Vouching, m
    <3> QED BY <1>1, <1>2, <1>4, <2>1, <3>1, <3>2
  <2>2. CASE k = m + 1
    <3>1. k \notin Vouching(t)
      BY <1>3, <2>2 DEF Vouching, m
    <3>2. k \in Vouching(s) <=> /\ s[m + 1].after \in {"proof_submitted", "creditor_confirmed"}
                                /\ \A l \in {m + 1} : s[l].after # "disputed"
      BY <1>3, <1>4, <2>2
    <3> QED BY <1>1, <2>2, <3>1, <3>2
  <2>3. CASE k \notin 1..m /\ k # m + 1
    BY <1>4, <2>3 DEF Vouching, m
  <2> QED BY <2>1, <2>2, <2>3
<1>6. Vouching(s) = IF e.after = "disputed" THEN {}
                    ELSE IF e.after \in {"proof_submitted", "creditor_confirmed"}
                         THEN Vouching(t) \cup {m + 1} ELSE Vouching(t)
  <2>1. CASE e.after = "disputed"
    BY <1>5, <2>1
  <2>2. CASE e.after \in {"proof_submitted", "creditor_confirmed"}
    BY <1>5, <2>2
  <2>3. CASE e.after \notin {"proof_submitted", "creditor_confirmed", "disputed"}
    BY <1>5, <2>3
  <2> QED BY <2>1, <2>2, <2>3
<1> QED BY <1>6 DEF s, m

\* The keys after one more entry.
LEMMA KeysAppend ==
  ASSUME NEW t \in Seq(Entry), NEW e \in Entry
  PROVE  KeysFrom(Append(t, e)) =
           IF e.after = "disputed" THEN {}
           ELSE IF e.after \in {"proof_submitted", "creditor_confirmed"}
                THEN KeysFrom(t) \cup {e.actor} ELSE KeysFrom(t)
<1> DEFINE s == Append(t, e)
           m == Len(t)
<1>1. /\ m \in Nat /\ s[m + 1] = e
      /\ \A k \in 1..m : s[k] = t[k]
  OBVIOUS
<1>2. Vouching(t) \subseteq 1..m
  BY DEF Vouching
<1>3. Vouching(s) = IF e.after = "disputed" THEN {}
                    ELSE IF e.after \in {"proof_submitted", "creditor_confirmed"}
                         THEN Vouching(t) \cup {m + 1} ELSE Vouching(t)
  BY VouchingAppend
<1>4. {s[i].actor : i \in Vouching(t)} = {t[i].actor : i \in Vouching(t)}
  <2> HIDE DEF s, m
  <2> QED BY <1>1, <1>2
<1> HIDE DEF s, m
<1>5. KeysFrom(s) = {s[i].actor : i \in Vouching(s)} /\ KeysFrom(t) = {t[i].actor : i \in Vouching(t)}
  BY KeysAreVouched
<1>6. ASSUME e.after = "disputed" PROVE KeysFrom(s) = {}
  BY <1>3, <1>5, <1>6
<1>7. ASSUME e.after \in {"proof_submitted", "creditor_confirmed"}
      PROVE  KeysFrom(s) = KeysFrom(t) \cup {e.actor}
  <2>1. {s[i].actor : i \in Vouching(t) \cup {m + 1}}
          = {s[i].actor : i \in Vouching(t)} \cup {s[m + 1].actor}
    OBVIOUS
  <2> QED BY <1>1, <1>3, <1>4, <1>5, <1>7, <2>1
<1>8. ASSUME e.after \notin {"proof_submitted", "creditor_confirmed", "disputed"}
      PROVE  KeysFrom(s) = KeysFrom(t)
  BY <1>3, <1>4, <1>5, <1>8
<1>9. KeysFrom(s) = IF e.after = "disputed" THEN {}
           ELSE IF e.after \in {"proof_submitted", "creditor_confirmed"}
                THEN KeysFrom(t) \cup {e.actor} ELSE KeysFrom(t)
  BY <1>6, <1>7, <1>8
<1> QED BY <1>9 DEF s
-----------------------------------------------------------------------------
(***************************************************************************)
(* What a commit does to a payment and its keys.                           *)
(***************************************************************************)

\* A proof is submitted on a payment without keys.
LEMMA SubmitsWithoutKeys ==
  ASSUME Typed, NEW r \in Request, req[r].pc # "idle", req[r].action = "submit_proof"
  PROVE  req[r].status \in {"pending", "disputed"}
<1>1. /\ req[r].new = validatePaymentTransition(req[r].action, req[r].actor, req[r].status)
      /\ req[r].new # Refused
  BY DEF Typed, Carries
<1> QED BY <1>1 DEF validatePaymentTransition, MaySubmit, Refused

\* What a commit does to the statuses, the keys and the group.
LEMMA CommitWrites ==
  ASSUME Typed, Guarded, NEW r \in Request, Commit(r)
  PROVE  LET t == req[r]
             p == t.payment
             e == EntryOf(t)
         IN /\ p \in Payment /\ t.user \in User
            /\ pay[p].status = t.status /\ t.status # "settled"
            /\ \A q \in Payment : pay'[q].status = IF q = p THEN t.new ELSE pay[q].status
            /\ \A q \in Payment \ {p} : trail'[q] = trail[q]
            /\ KeysFrom(trail'[p]) =
                 IF t.new = "disputed" THEN {}
                 ELSE IF t.new = "settled" THEN KeysFrom(trail[p])
                      ELSE KeysFrom(trail[p]) \cup {t.user}
            /\ group' = IF t.mark THEN "settled" ELSE group
            /\ t.new \in {"proof_submitted", "creditor_confirmed", "disputed", "settled"}
            /\ t.new = "proof_submitted" => t.user = Debtor[p] /\ t.status \in {"pending", "disputed"}
            /\ t.new = "creditor_confirmed" => t.user = Creditor[p] /\ t.status = "proof_submitted"
            /\ t.new = "settled" => /\ t.user # Debtor[p]
                                    /\ t.user \in GlobalAdmin \/ t.status = "creditor_confirmed"
<1> DEFINE t == req[r]
           p == t.payment
           e == EntryOf(t)
<1>1. /\ p \in Payment /\ t.user \in User /\ t \in Txn
      /\ pay[p] = [status |-> t.status, version |-> t.version] /\ t.status # "settled"
      /\ t.action \in paymentAction
      /\ t.new \in PaymentStatus \ {"pending"}
      /\ t.action = "submit_proof" <=> t.new = "proof_submitted"
      /\ t.action = "submit_proof" => Debtor[p] = t.user
      /\ t.new = "creditor_confirmed" => Creditor[p] = t.user /\ t.status = "proof_submitted"
      /\ t.new = "settled" => /\ Debtor[p] # t.user
                              /\ t.user \in GlobalAdmin \/ t.status = "creditor_confirmed"
  BY CommitFacts
<1>2. t.new = "proof_submitted" => t.status \in {"pending", "disputed"}
  BY <1>1, SubmitsWithoutKeys DEF Commit
<1>3. e \in Entry /\ e.after = t.new /\ e.actor = t.user
  BY <1>1, AuditType DEF EntryOf, Entry, Txn
<1>4. /\ pay \in [Payment -> [status : PaymentStatus, version : Nat]]
      /\ trail \in [Payment -> Seq(Entry)]
  BY DEF Typed, TypeOK
<1>5. /\ pay' = [pay EXCEPT ![p] = [status |-> t.new, version |-> @.version + 1]]
      /\ trail' = [trail EXCEPT ![p] = Append(@, e)]
      /\ group' = IF t.mark THEN "settled" ELSE group
  BY DEF Commit
<1> HIDE DEF t, e, p
<1>6. t.new \in {"proof_submitted", "creditor_confirmed", "disputed", "settled"}
  BY <1>1 DEF PaymentStatus
<1>7. trail'[p] = Append(trail[p], e) /\ trail[p] \in Seq(Entry)
  BY <1>1, <1>4, <1>5
<1>8. KeysFrom(trail'[p]) =
        IF t.new = "disputed" THEN {}
        ELSE IF t.new = "settled" THEN KeysFrom(trail[p])
             ELSE KeysFrom(trail[p]) \cup {t.user}
  BY <1>3, <1>6, <1>7, KeysAppend
<1>9. /\ \A q \in Payment : pay'[q].status = IF q = p THEN t.new ELSE pay[q].status
      /\ \A q \in Payment \ {p} : trail'[q] = trail[q]
      /\ pay[p].status = t.status
  BY <1>1, <1>4, <1>5
<1> QED BY <1>1, <1>2, <1>5, <1>6, <1>8, <1>9 DEF t, p, e

\* At first no key is turned ...
LEMMA KeysInit == Init => KeysMatch
<1> SUFFICES ASSUME Init, NEW p \in Payment
             PROVE  pay[p].status = "pending" /\ KeysFrom(trail[p]) = {}
  BY DEF KeysMatch
<1>1. pay[p].status = "pending" /\ trail[p] = << >>
  BY DEF Init
<1>2. Vouching(<< >>) = {}
  BY DEF Vouching
<1> QED BY <1>1, <1>2, KeysAreVouched

\* ... and every step keeps status and keys in accord.
LEMMA KeysNext == Typed /\ Guarded /\ KeysMatch /\ [Next]_vars => KeysMatch'
<1> SUFFICES ASSUME Typed, Guarded, KeysMatch, [Next]_vars PROVE KeysMatch'
  OBVIOUS
<1>1. CASE UNCHANGED <<group, pay, current, trail>>
  BY <1>1 DEF KeysMatch
<1>2. ASSUME NEW r \in Request, Commit(r), NEW q \in Payment
      PROVE  /\ pay'[q].status \in {"pending", "disputed"} => KeysFrom(trail'[q]) = {}
             /\ pay'[q].status = "proof_submitted" => KeysFrom(trail'[q]) = {Debtor[q]}
             /\ pay'[q].status = "creditor_confirmed" => KeysFrom(trail'[q]) = {Debtor[q], Creditor[q]}
  <2> DEFINE t == req[r]
             p == t.payment
  <2>1. CASE q # p
    <3>1. pay'[q].status = pay[q].status /\ trail'[q] = trail[q]
      BY <1>2, <2>1, CommitWrites
    <3> QED BY <3>1 DEF KeysMatch
  <2>2. CASE q = p
    <3>1. CASE t.new = "proof_submitted"
      <4>1. /\ pay'[q].status = t.new /\ pay[q].status \in {"pending", "disputed"}
            /\ KeysFrom(trail'[q]) = KeysFrom(trail[q]) \cup {Debtor[q]}
        BY <1>2, <2>2, <3>1, CommitWrites
      <4> QED BY <3>1, <4>1 DEF KeysMatch
    <3>2. CASE t.new = "creditor_confirmed"
      <4>1. /\ pay'[q].status = t.new /\ pay[q].status = "proof_submitted"
            /\ KeysFrom(trail'[q]) = KeysFrom(trail[q]) \cup {Creditor[q]}
        BY <1>2, <2>2, <3>2, CommitWrites
      <4> QED BY <3>2, <4>1 DEF KeysMatch
    <3>3. CASE t.new \in {"disputed", "settled"}
      BY <1>2, <2>2, <3>3, CommitWrites DEF KeysMatch
    <3> QED BY <1>2, <3>1, <3>2, <3>3, CommitWrites
  <2> QED BY <2>1, <2>2
<1>3. ASSUME NEW r \in Request, Commit(r) PROVE KeysMatch'
  BY <1>2, <1>3 DEF KeysMatch
<1> QED BY <1>1, <1>3, OnlyCommitWrites
-----------------------------------------------------------------------------
(***************************************************************************)
(* Every commit is a step of TwoKey.                                       *)
(***************************************************************************)
settledOnes == {p \in Payment : pay[p].status = "settled"}

keysOf == [p \in Payment |-> KeysFrom(trail[p])]

\* The closed group is an initial state of TwoKey.
LEMMA AbstractInit == Init => Abstract!Init
<1> SUFFICES ASSUME Init PROVE Abstract!Init
  OBVIOUS
<1>1. group = "closed" /\ \A p \in Payment : pay[p].status = "pending" /\ KeysFrom(trail[p]) = {}
  BY KeysInit DEF Init, KeysMatch
<1> QED BY <1>1 DEF Abstract!Init

\* The keys after a commit.
LEMMA CommitTurns ==
  ASSUME Typed, Guarded, NEW r \in Request, Commit(r)
  PROVE  LET t == req[r]
             p == t.payment
         IN /\ keysOf' = [keysOf EXCEPT ![p] =
                 IF t.new = "disputed" THEN {}
                 ELSE IF t.new = "settled" THEN KeysFrom(trail[p])
                      ELSE KeysFrom(trail[p]) \cup {t.user}]
            /\ settledOnes' = IF t.new = "settled" THEN settledOnes \cup {p} ELSE settledOnes
            /\ p \in Payment /\ p \notin settledOnes
            /\ keysOf[p] = KeysFrom(trail[p])
<1> DEFINE t == req[r]
           p == t.payment
           k == IF t.new = "disputed" THEN {}
                ELSE IF t.new = "settled" THEN KeysFrom(trail[p])
                     ELSE KeysFrom(trail[p]) \cup {t.user}
<1>1. /\ p \in Payment /\ pay[p].status # "settled"
      /\ \A q \in Payment : pay'[q].status = IF q = p THEN t.new ELSE pay[q].status
      /\ \A q \in Payment \ {p} : trail'[q] = trail[q]
      /\ KeysFrom(trail'[p]) = k
  <2>1. p \in Payment /\ pay[p].status = t.status /\ t.status # "settled"
    BY CommitWrites
  <2>2. \A q \in Payment : pay'[q].status = IF q = p THEN t.new ELSE pay[q].status
    BY CommitWrites
  <2>3. \A q \in Payment \ {p} : trail'[q] = trail[q]
    BY CommitWrites
  <2>4. KeysFrom(trail'[p]) = k
    BY CommitWrites
  <2> HIDE DEF t, p, k
  <2> QED BY <2>1, <2>2, <2>3, <2>4
<1> HIDE DEF t, p, k
<1>2. \A q \in Payment : KeysFrom(trail'[q]) = IF q = p THEN k ELSE KeysFrom(trail[q])
  BY <1>1
<1>3. keysOf' = [q \in Payment |-> KeysFrom(trail'[q])]
  BY DEF keysOf
<1>4. keysOf' = [keysOf EXCEPT ![p] = k]
  BY <1>1, <1>2, <1>3 DEF keysOf
<1>5. settledOnes' = IF t.new = "settled" THEN settledOnes \cup {p} ELSE settledOnes
  BY <1>1 DEF settledOnes
<1>6. p \notin settledOnes /\ keysOf[p] = KeysFrom(trail[p])
  BY <1>1 DEF settledOnes, keysOf
<1> QED BY <1>1, <1>4, <1>5, <1>6 DEF t, p, k

\* A commit is a step of TwoKey.
LEMMA CommitIsAbstract ==
  ASSUME Matched, NEW r \in Request, Commit(r), [Next]_vars
  PROVE  Abstract!Next
<1> DEFINE t == req[r]
           p == t.payment
<1>0. Typed /\ Guarded /\ Counted /\ KeysMatch
  BY DEF Matched
<1>1. /\ p \in Payment /\ t.user \in User
      /\ pay[p].status = t.status
      /\ group' = IF t.mark THEN "settled" ELSE group
      /\ t.new \in {"proof_submitted", "creditor_confirmed", "disputed", "settled"}
      /\ t.new = "proof_submitted" => t.user = Debtor[p] /\ t.status \in {"pending", "disputed"}
      /\ t.new = "creditor_confirmed" => t.user = Creditor[p] /\ t.status = "proof_submitted"
      /\ t.new = "settled" => /\ t.user # Debtor[p]
                              /\ t.user \in GlobalAdmin \/ t.status = "creditor_confirmed"
  BY <1>0, CommitWrites
<1>2. /\ keysOf' = [keysOf EXCEPT ![p] =
            IF t.new = "disputed" THEN {}
            ELSE IF t.new = "settled" THEN KeysFrom(trail[p])
                 ELSE KeysFrom(trail[p]) \cup {t.user}]
      /\ settledOnes' = IF t.new = "settled" THEN settledOnes \cup {p} ELSE settledOnes
      /\ p \notin settledOnes
      /\ keysOf[p] = KeysFrom(trail[p])
  BY <1>0, CommitTurns
<1>3. /\ t.status \in {"pending", "disputed"} => keysOf[p] = {}
      /\ t.status = "proof_submitted" => keysOf[p] = {Debtor[p]}
      /\ t.status = "creditor_confirmed" => keysOf[p] = {Debtor[p], Creditor[p]}
  BY <1>0, <1>1, <1>2 DEF KeysMatch
<1>4. t.mark => t.new = "settled" /\ settledOnes' = Payment
  <2>1. SUFFICES ASSUME t.mark PROVE t.new = "settled" /\ settledOnes' = Payment
    OBVIOUS
  <2>2. t.new = "settled" /\ NoneUnsettled(t)
    BY <1>0, <2>1 DEF Counted, CountSound
  <2>3. settledOnes = Payment \ {p}
    BY <1>2, <2>2 DEF NoneUnsettled, settledOnes
  <2> QED BY <1>1, <1>2, <2>2, <2>3
<1>5. keysOf \in [Payment -> {keysOf[q] : q \in Payment}] /\ DOMAIN keysOf = Payment
  BY DEF keysOf
<1> HIDE DEF t, p
<1>6. CASE t.new = "proof_submitted"
  <2>1. keysOf' = [keysOf EXCEPT ![p] = {Debtor[p]}] /\ settledOnes' = settledOnes /\ group' = group
    BY <1>1, <1>2, <1>3, <1>4, <1>6
  <2>2. Abstract!Prove(p)
    BY <1>1, <1>2, <1>3, <1>6, <2>1 DEF Abstract!Prove, settledOnes, keysOf
  <2> QED BY <1>1, <2>2 DEF Abstract!Next
<1>7. CASE t.new = "creditor_confirmed"
  <2>1. keysOf' = [keysOf EXCEPT ![p] = @ \cup {Creditor[p]}]
        /\ settledOnes' = settledOnes /\ group' = group /\ keysOf[p] = {Debtor[p]}
    BY <1>1, <1>2, <1>3, <1>4, <1>7
  <2>2. Abstract!Attest(p)
    BY <1>1, <1>2, <1>7, <2>1 DEF Abstract!Attest, settledOnes, keysOf
  <2> QED BY <1>1, <2>2 DEF Abstract!Next
<1>8. CASE t.new = "disputed"
  <2>1. keysOf' = [keysOf EXCEPT ![p] = {}] /\ settledOnes' = settledOnes /\ group' = group
    BY <1>1, <1>2, <1>4, <1>8
  <2>2. Abstract!ThrowBack(p)
    BY <1>2, <2>1 DEF Abstract!ThrowBack, settledOnes, keysOf
  <2> QED BY <1>1, <2>2 DEF Abstract!Next
<1>9. CASE t.new = "settled"
  <2>1. keysOf' = keysOf /\ settledOnes' = settledOnes \cup {p}
    BY <1>1, <1>2, <1>5, <1>9
  <2>2. \/ group' = group
        \/ settledOnes' = Payment /\ group' = "settled"
    BY <1>1, <1>4
  <2>3. t.user # Debtor[p] /\ (keysOf[p] = {Debtor[p], Creditor[p]} \/ t.user \in GlobalAdmin)
    BY <1>1, <1>3, <1>9
  <2>4. PICK u \in User : u = t.user
    BY <1>1
  <2>5. Abstract!Settle(p, u)
    BY <1>2, <2>1, <2>2, <2>3, <2>4 DEF Abstract!Settle, settledOnes, keysOf
  <2> QED BY <1>1, <2>5 DEF Abstract!Next
<1> QED BY <1>1, <1>6, <1>7, <1>8, <1>9

\* Every step is one of TwoKey, or a stutter.
LEMMA StepRefines == Matched /\ [Next]_vars => [Abstract!Next]_(Abstract!vars)
<1> SUFFICES ASSUME Matched, [Next]_vars PROVE [Abstract!Next]_(Abstract!vars)
  OBVIOUS
<1>1. CASE UNCHANGED <<group, pay, current, trail>>
  BY <1>1 DEF Abstract!vars
<1>2. ASSUME NEW r \in Request, Commit(r) PROVE Abstract!Next
  BY <1>2, CommitIsAbstract
<1> QED BY <1>1, <1>2, OnlyCommitWrites
-----------------------------------------------------------------------------
\* The status of a payment tells which keys are turned, at any time.
THEOREM StatusTellsKeys == Spec => []Matched
<1>1. Init => KeysMatch
  BY KeysInit
<1>2. Typed /\ Guarded /\ KeysMatch /\ [Next]_vars => KeysMatch'
  BY KeysNext
<1> QED BY <1>1, <1>2, Invariant, PTL DEF Spec, Matched

\* payments.go implements the two keys: whatever requests run at the same time
\* and wherever they fail, what is committed is a behaviour of TwoKey.
THEOREM Refines == Spec => ImplementsTwoKey
<1>1. Init => Abstract!Init
  BY AbstractInit
<1>2. Matched /\ [Next]_vars => [Abstract!Next]_(Abstract!vars)
  BY StepRefines
<1> QED BY <1>1, <1>2, StatusTellsKeys, PTL DEF Spec, ImplementsTwoKey, Abstract!Spec
=============================================================================
