------------------------------- MODULE TwoKey -------------------------------
(***************************************************************************)
(* What the confirmation of payments promises, without transactions,       *)
(* versions or roles: a payment is settled with two keys, the debtor's and *)
(* the creditor's, both turned since it was last disputed or rejected, and *)
(* a third person's finalize; or by the override of a global admin who is  *)
(* not its debtor.  A settled payment never changes again.  The group may  *)
(* become settled only with the last payment.                              *)
(***************************************************************************)
CONSTANTS Payment, User, GlobalAdmin, Debtor, Creditor

VARIABLES
  settled,  \* the payments that are settled
  keys,     \* keys[p]: who vouched for p since it was last thrown back
  group     \* "closed" or "settled"

vars == <<settled, keys, group>>

Init ==
  /\ settled = {}
  /\ keys = [p \in Payment |-> {}]
  /\ group = "closed"

\* The debtor submits a proof.
Prove(p) ==
  /\ p \notin settled
  /\ keys[p] = {}
  /\ keys' = [keys EXCEPT ![p] = {Debtor[p]}]
  /\ UNCHANGED <<settled, group>>

\* The creditor attests receipt.
Attest(p) ==
  /\ p \notin settled
  /\ keys[p] = {Debtor[p]}
  /\ keys' = [keys EXCEPT ![p] = @ \cup {Creditor[p]}]
  /\ UNCHANGED <<settled, group>>

\* The creditor disputes, or an admin rejects: both keys must turn again.
ThrowBack(p) ==
  /\ p \notin settled
  /\ keys' = [keys EXCEPT ![p] = {}]
  /\ UNCHANGED <<settled, group>>

\* u finalizes p.
Settle(p, u) ==
  /\ p \notin settled
  /\ u # Debtor[p]
  /\ keys[p] = {Debtor[p], Creditor[p]} \/ u \in GlobalAdmin
  /\ settled' = settled \cup {p}
  /\ \/ group' = group
     \/ settled' = Payment /\ group' = "settled"
  /\ UNCHANGED keys

Next ==
  \E p \in Payment :
    \/ Prove(p) \/ Attest(p) \/ ThrowBack(p)
    \/ \E u \in User : Settle(p, u)

Spec == Init /\ [][Next]_vars
=============================================================================
