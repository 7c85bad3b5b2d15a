--------------------------- MODULE PaymentsProofs ---------------------------
(***************************************************************************)
(* The safety of Payments for any accounts, payments, requests and proofs. *)
(*                                                                         *)
(* The invariant is built in layers; each layer is inductive relative to   *)
(* the ones before it:                                                     *)
(*   Typed      the types, and what a request carries since Begin;         *)
(*   Guarded    the version a request read is the payment's version or an  *)
(*              older one, and the row lock pins it once it was compared;  *)
(*   Audited    the trail is a chain of lawful entries;                    *)
(*   Evidenced  the proof and the image behind each claim;                 *)
(*   Counted    a group marked as settled is settled.                      *)
(* Beside them, Held says where a request is that holds a lock.            *)
(***************************************************************************)
EXTENDS Payments, TLAPS

\* What a request in progress carries: its caller, its roles and the status
\* the rules gave it.
Carries(t) ==
  /\ t.user \in User
  /\ t.payment \in Payment
  /\ t.action \in paymentAction
  /\ t.action = "submit_proof" => t.ev \in Evidence
  /\ t.pc \in {"put", "unset", "unsetting", "insert"} => t.action = "submit_proof"
  /\ t.actor.IsDebtor <=> Debtor[t.payment] = t.user
  /\ t.actor.IsCreditor <=> Creditor[t.payment] = t.user
  /\ t.actor.IsGlobalAdmin <=> t.user \in GlobalAdmin
  /\ t.new = validatePaymentTransition(t.action, t.actor, t.status)
  /\ t.new # Refused

Typed == TypeOK /\ \A r \in Request : req[r].pc # "idle" => Carries(req[r])

\* A request's snapshot is at most as new as the payment, and as good as the
\* payment while the version has not moved.
SnapshotOK(t) ==
  /\ t.version <= pay[t.payment].version
  /\ t.version = pay[t.payment].version => t.status = pay[t.payment].status

Pinned(r) ==
  req[r].pc \in {"count", "commit"} =>
    /\ rowLock[req[r].payment] = r
    /\ req[r].version = pay[req[r].payment].version

Guarded ==
  \A r \in Request : (req[r].pc # "idle" => SnapshotOK(req[r])) /\ Pinned(r)

\* What validatePaymentTransition lets into the trail of p.
Lawful(p, e) ==
  /\ e.before # "settled"
  /\ e.after # "pending"
  /\ e.after = "proof_submitted" =>
       e.action = "payment.proof_submitted" /\ e.actor = Debtor[p]
  /\ e.after = "creditor_confirmed" =>
       /\ e.action = "payment.creditor_confirmed"
       /\ e.actor = Creditor[p]
       /\ e.before = "proof_submitted"
  /\ e.after = "settled" =>
       /\ e.actor # Debtor[p]
       /\ \/ e.action = "payment.settled.override" /\ e.actor \in GlobalAdmin
          \/ e.action = "payment.settled" /\ e.before = "creditor_confirmed"

Audited ==
  /\ TrailIsChain
  /\ \A p \in Payment : \A i \in 1..Len(trail[p]) : Lawful(p, trail[p][i])

\* An uploaded image precedes every write of the request that submits it.
Uploaded(t) ==
  /\ t.action = "submit_proof" /\ t.ev \in Image /\ t.pc \notin {"idle", "put"}
  => <<t.payment, t.ev>> \in objects

Evidenced ==
  /\ ProofBacksClaim
  /\ ProofImageStored
  /\ \A r \in Request : Uploaded(req[r])

\* Who counts has settled its own payment; who will mark the group has seen
\* all the others settled.
CountSound(t) ==
  /\ t.pc = "count" => t.new = "settled"
  /\ t.mark => t.pc = "commit" /\ t.new = "settled" /\ NoneUnsettled(t)

Counted == GroupSettledIsTrue /\ \A r \in Request : CountSound(req[r])

\* Who holds the row of p has written it, and only commits from there; who
\* holds its proof slot is past UnsetCurrentProof.
RowHeld(p) ==
  rowLock[p] # NoOne =>
    req[rowLock[p]].payment = p /\ req[rowLock[p]].pc \in {"count", "commit"}

SlotHeld(p) ==
  proofLock[p] # NoOne =>
    /\ req[proofLock[p]].payment = p
    /\ req[proofLock[p]].pc \in {"insert", "update", "count", "commit"}

Held == \A p \in Payment : RowHeld(p) /\ SlotHeld(p)
-----------------------------------------------------------------------------
(***************************************************************************)
(* The rules.                                                              *)
(***************************************************************************)

\* validatePaymentTransition answers with a status or Refused.
LEMMA TransitionType ==
  ASSUME NEW action, NEW actor \in paymentActor, NEW status \in PaymentStatus
  PROVE  validatePaymentTransition(action, actor, status) \in PaymentStatus \cup {Refused}
BY DEF validatePaymentTransition, PaymentStatus, Refused

\* What an accepted request tells of its caller and of the payment it found.
LEMMA TransitionFacts ==
  ASSUME NEW action \in paymentAction, NEW actor \in paymentActor, NEW status \in PaymentStatus,
         NEW new, new = validatePaymentTransition(action, actor, status), new # Refused
  PROVE  /\ status # "settled"
         /\ new \in PaymentStatus \ {"pending"}
         /\ action = "submit_proof" <=> new = "proof_submitted"
         /\ action = "submit_proof" => actor.IsDebtor
         /\ action = "confirm" <=> new = "creditor_confirmed"
         /\ action = "confirm" => actor.IsCreditor /\ status = "proof_submitted"
         /\ action = "finalize" <=> new = "settled"
         /\ action = "finalize" =>
              /\ ~actor.IsDebtor
              /\ actor.IsGlobalAdmin \/ status = "creditor_confirmed"
<1>1. CASE action = "submit_proof"
  BY <1>1 DEF validatePaymentTransition, MaySubmit, PaymentStatus, Refused
<1>2. CASE action = "confirm"
  BY <1>2 DEF validatePaymentTransition, MayConfirm, PaymentStatus, Refused
<1>3. CASE action = "dispute"
  BY <1>3 DEF validatePaymentTransition, MayDispute, PaymentStatus, Refused
<1>4. CASE action = "finalize"
  BY <1>4 DEF validatePaymentTransition, MayFinalize, PaymentStatus, Refused
<1>5. CASE action = "reject"
  BY <1>5 DEF validatePaymentTransition, MayReject, PaymentStatus, Refused
<1> QED BY <1>1, <1>2, <1>3, <1>4, <1>5 DEF paymentAction

\* Every request has its name in the audit log.
LEMMA AuditType ==
  ASSUME NEW action \in paymentAction, NEW actor \in paymentActor, NEW status \in PaymentStatus
  PROVE  auditActionFor(action, actor, status) \in AuditAction
BY DEF auditActionFor, paymentAction, AuditAction

\* The local state of a request stays of its type when it goes one statement on.
LEMMA GoneOn ==
  ASSUME NEW t \in Txn, NEW pc \in Step, NEW seen \in Proof \cup {NoOne}, NEW b \in BOOLEAN
  PROVE  /\ [t EXCEPT !.pc = pc] \in Txn
         /\ [t EXCEPT !.pc = pc, !.seen = seen] \in Txn
         /\ [t EXCEPT !.pc = pc, !.unset = b] \in Txn
         /\ [t EXCEPT !.pc = pc, !.mark = b] \in Txn
<1> DEFINE n == [t EXCEPT !.pc = pc]
<1>1. n \in Txn
  BY DEF Txn
<1>2. /\ [n EXCEPT !.seen = seen] \in Txn
      /\ [n EXCEPT !.unset = b] \in Txn
      /\ [n EXCEPT !.mark = b] \in Txn
  <2> HIDE DEF n
  <2> QED BY <1>1 DEF Txn
<1>3. /\ [t EXCEPT !.pc = pc, !.seen = seen] = [n EXCEPT !.seen = seen]
      /\ [t EXCEPT !.pc = pc, !.unset = b] = [n EXCEPT !.unset = b]
      /\ [t EXCEPT !.pc = pc, !.mark = b] = [n EXCEPT !.mark = b]
  BY Zenon
<1> QED BY <1>1, <1>2, <1>3, Zenon
-----------------------------------------------------------------------------
(***************************************************************************)
(* Steps.                                                                  *)
(***************************************************************************)

\* Every route begins a request about a payment.
LEMMA Arrival ==
  ASSUME NEW r \in Request, Arrive(r)
  PROVE  \E u \in User, a \in paymentAction, p \in Payment, e \in Evidence \cup {NoOne} :
           Begin(r, u, a, p, e)
<1> DEFINE B == \E u \in User, a \in paymentAction, p \in Payment, e \in Evidence \cup {NoOne} :
                  Begin(r, u, a, p, e)
<1>1. {"submit_proof", "confirm", "dispute", "finalize", "reject"} = paymentAction
  BY DEF paymentAction
<1>2. CASE PostProof(r)
  BY <1>1, <1>2 DEF PostProof
<1>3. CASE PostConfirm(r)
  BY <1>1, <1>3 DEF PostConfirm
<1>4. CASE PostDispute(r)
  BY <1>1, <1>4 DEF PostDispute
<1>5. CASE PostFinalize(r)
  BY <1>1, <1>5 DEF PostFinalize
<1>6. CASE PostReject(r)
  BY <1>1, <1>6 DEF PostReject
<1> QED BY <1>2, <1>3, <1>4, <1>5, <1>6 DEF Arrive

\* Only a commit changes a payment, its proof, its trail or the group.
LEMMA OnlyCommitWrites ==
  ASSUME [Next]_vars
  PROVE  \/ \E r \in Request : Commit(r)
         \/ UNCHANGED <<group, pay, current, trail>>
<1>1. CASE UNCHANGED vars
  BY <1>1 DEF vars, tables
<1>2. CASE \E u \in Member : TransferAdmin(u)
  BY <1>2 DEF TransferAdmin
<1>3. ASSUME NEW r \in Request, Arrive(r)
      PROVE  UNCHANGED <<group, pay, current, trail>>
  BY <1>3, Arrival DEF Begin, tables
<1>4. ASSUME NEW r \in Request, Fail(r)
      PROVE  UNCHANGED <<group, pay, current, trail>>
  BY <1>4 DEF Fail, Rollback, tables
<1>5. ASSUME NEW r \in Request, Work(r)
      PROVE  Commit(r) \/ UNCHANGED <<group, pay, current, trail>>
  BY <1>5 DEF Work, Put, UnsetStart, UnsetFinish, InsertProof, Update, Count, Rollback, tables
<1> QED BY <1>1, <1>2, <1>3, <1>4, <1>5 DEF Next
-----------------------------------------------------------------------------
(***************************************************************************)
(* Types.                                                                  *)
(***************************************************************************)

\* A request that goes on keeps what it carries.
LEMMA CarriesOn ==
  ASSUME NEW t \in Txn, Carries(t), NEW pc \in Step, NEW seen, NEW b,
         pc \in {"put", "unset", "unsetting", "insert"} => t.action = "submit_proof"
  PROVE  /\ Carries([t EXCEPT !.pc = pc])
         /\ Carries([t EXCEPT !.pc = pc, !.seen = seen])
         /\ Carries([t EXCEPT !.pc = pc, !.unset = b])
         /\ Carries([t EXCEPT !.pc = pc, !.mark = b])
BY DEF Carries, Txn

\* One request goes on, the payments stay.
LEMMA TypedOn ==
  ASSUME Typed, NEW r \in Request, NEW n \in Txn, Carries(n), req' = [req EXCEPT ![r] = n],
         UNCHANGED <<group, groupAdmin, pay, current, trail>>,
         objects' \subseteq Payment \X Evidence,
         rowLock' \in [Payment -> Request \cup {NoOne}],
         proofLock' \in [Payment -> Request \cup {NoOne}]
  PROVE  Typed'
<1>1. TypeOK'
  BY DEF Typed, TypeOK
<1>2. \A q \in Request : req'[q].pc # "idle" => Carries(req'[q])
  BY DEF Typed, TypeOK
<1> QED BY <1>1, <1>2 DEF Typed, Carries

\* Typed holds when the group has just been closed ...
LEMMA TypedInit == Init => Typed
<1> SUFFICES ASSUME Init PROVE Typed
  OBVIOUS
<1>1. Idle \in Txn /\ Idle.pc = "idle"
  BY DEF Idle, Txn, Step, Stranger, paymentActor, PaymentStatus
<1>2. TypeOK
  BY <1>1, PaymentsAssumption DEF Init, TypeOK, PaymentStatus
<1> QED BY <1>1, <1>2 DEF Typed, Init

\* ... and every step keeps it.
LEMMA TypedNext == Typed /\ [Next]_vars => Typed'
<1> SUFFICES ASSUME Typed, [Next]_vars PROVE Typed'
  OBVIOUS
<1> USE PaymentsAssumption
<1>0. TypeOK /\ \A r \in Request : req[r].pc # "idle" => Carries(req[r])
  BY DEF Typed
<1>1. Idle \in Txn /\ Idle.pc = "idle"
  BY DEF Idle, Txn, Step, Stranger, paymentActor, PaymentStatus
<1>2. ASSUME NEW r \in Request, End(r)
      PROVE  /\ req' \in [Request -> Txn]
             /\ rowLock' \in [Payment -> Request \cup {NoOne}]
             /\ proofLock' \in [Payment -> Request \cup {NoOne}]
             /\ \A q \in Request : req'[q].pc # "idle" => Carries(req'[q])
  BY <1>0, <1>1, <1>2 DEF End, Released, TypeOK
<1>3. ASSUME NEW r \in Request, Rollback(r) PROVE Typed'
  BY <1>0, <1>2, <1>3 DEF Rollback, tables, Typed, TypeOK, Carries
<1>4. CASE UNCHANGED vars
  BY <1>0, <1>4 DEF vars, tables, locks, Typed, TypeOK, Carries
<1>5. CASE \E u \in Member : TransferAdmin(u)
  BY <1>0, <1>5 DEF TransferAdmin, locks, Typed, TypeOK, Carries
<1>6. ASSUME NEW r \in Request, Fail(r) PROVE Typed'
  BY <1>3, <1>6 DEF Fail
<1>7. ASSUME NEW r \in Request, NEW u \in User, NEW a \in paymentAction, NEW p \in Payment,
             NEW e \in Evidence \cup {NoOne}, Begin(r, u, a, p, e)
      PROVE  Typed'
  <2> DEFINE actor == actorOf(u, p)
             new == validatePaymentTransition(a, actor, pay[p].status)
             t == [pc |-> FirstStep(a, e), user |-> u, action |-> a, payment |-> p, ev |-> e,
                   actor |-> actor, status |-> pay[p].status, version |-> pay[p].version,
                   new |-> new, seen |-> NoOne, unset |-> FALSE, mark |-> FALSE]
  <2>1. actor \in paymentActor
    BY DEF actorOf, paymentActor
  <2>2. pay[p].status \in PaymentStatus /\ pay[p].version \in Nat
    BY <1>0 DEF TypeOK
  <2>3. new \in PaymentStatus \cup {Refused}
    BY <2>1, <2>2, TransitionType
  <2>4. /\ FirstStep(a, e) \in Step
        /\ FirstStep(a, e) \in {"put", "unset", "unsetting", "insert"} => a = "submit_proof"
    BY DEF FirstStep, Step
  <2>5. t \in Txn
    <3> HIDE DEF actor, new
    <3> QED BY <2>1, <2>2, <2>3, <2>4 DEF Txn
  <2>6. new # Refused /\ (a = "submit_proof" => e \in Evidence)
    BY <1>7 DEF Begin, Accepted
  <2>7. Carries(t)
    <3>1. /\ actor.IsDebtor <=> Debtor[p] = u
          /\ actor.IsCreditor <=> Creditor[p] = u
          /\ actor.IsGlobalAdmin <=> u \in GlobalAdmin
      BY DEF actorOf
    <3>2. new = validatePaymentTransition(a, actor, pay[p].status)
      OBVIOUS
    <3> HIDE DEF actor, new
    <3> QED BY <2>4, <2>6, <3>1, <3>2 DEF Carries
  <2>8. req' = [req EXCEPT ![r] = t] /\ UNCHANGED <<tables, locks>>
    BY <1>7 DEF Begin
  <2> HIDE DEF t
  <2> HIDE DEF t
  <2> QED BY <1>0, <2>5, <2>7, <2>8, TypedOn DEF TypeOK, tables, locks
<1>8. ASSUME NEW r \in Request, Work(r) PROVE Typed'
  <2> DEFINE t == req[r]
  <2>0. /\ req \in [Request -> Txn] /\ t \in Txn
        /\ current \in [Payment -> Proof \cup {NoOne}]
        /\ rowLock \in [Payment -> Request \cup {NoOne}]
        /\ proofLock \in [Payment -> Request \cup {NoOne}]
        /\ objects \subseteq Payment \X Evidence
    BY <1>0 DEF TypeOK
  <2>a. /\ t.pc # "idle" => Carries(t) /\ t.payment \in Payment
        /\ t.pc \in {"put", "unset", "unsetting", "insert"} =>
             t.action = "submit_proof" /\ t.ev \in Evidence
    BY <1>0 DEF Carries
  <2>b. {"unset", "unsetting", "insert", "update", "count", "commit"} \subseteq Step
    BY DEF Step
  <2>1. CASE Put(r)
    <3> DEFINE n == [t EXCEPT !.pc = "unset"]
    <3>1. n \in Txn /\ Carries(n)
      BY <2>0, <2>a, <2>b, <2>1, GoneOn, CarriesOn DEF Put
    <3>2. objects' \subseteq Payment \X Evidence
      BY <2>0, <2>a, <2>1 DEF Put
    <3> QED BY <2>0, <2>1, <3>1, <3>2, TypedOn DEF Put, locks
  <2>2. CASE UnsetStart(r)
    <3> DEFINE n == [t EXCEPT !.pc = "unsetting", !.seen = current[t.payment]]
    <3>1. current[t.payment] \in Proof \cup {NoOne}
      BY <2>0, <2>a, <2>2 DEF UnsetStart
    <3>2. n \in Txn /\ Carries(n)
      BY <2>0, <2>a, <2>b, <2>2, <3>1, GoneOn, CarriesOn DEF UnsetStart
    <3> QED BY <2>0, <2>2, <3>2, TypedOn DEF UnsetStart, tables, locks
  <2>3. CASE UnsetFinish(r)
    <3> DEFINE still == t.seen # NoOne /\ current[t.payment] = t.seen
               n == [t EXCEPT !.pc = "insert", !.unset = still]
    <3>1. n \in Txn /\ Carries(n)
      BY <2>0, <2>a, <2>b, <2>3, still \in BOOLEAN, GoneOn, CarriesOn DEF UnsetFinish
    <3>2. proofLock' \in [Payment -> Request \cup {NoOne}]
      BY <2>0, <2>3 DEF UnsetFinish
    <3>3. req' = [req EXCEPT ![r] = n] /\ UNCHANGED <<tables, rowLock>>
      BY <2>3 DEF UnsetFinish
    <3> QED BY <2>0, <3>1, <3>2, <3>3, TypedOn DEF tables
  <2>4. CASE InsertProof(r)
    <3> DEFINE n == [t EXCEPT !.pc = "update"]
    <3>1. n \in Txn /\ Carries(n)
      BY <2>0, <2>a, <2>b, <2>4, GoneOn, CarriesOn DEF InsertProof
    <3>2. CASE /\ proofLock' = [proofLock EXCEPT ![t.payment] = r]
               /\ req' = [req EXCEPT ![r] = n]
               /\ UNCHANGED <<tables, rowLock>>
      BY <2>0, <3>1, <3>2, TypedOn DEF tables
    <3> QED BY <1>3, <2>4, <3>2 DEF InsertProof
  <2>5. CASE Update(r)
    <3> DEFINE n == [t EXCEPT !.pc = IF t.new = "settled" THEN "count" ELSE "commit"]
    <3>1. n \in Txn /\ Carries(n)
      BY <2>0, <2>a, <2>b, <2>5, GoneOn, CarriesOn DEF Update
    <3>2. CASE /\ rowLock' = [rowLock EXCEPT ![t.payment] = r]
               /\ req' = [req EXCEPT ![r] = n]
               /\ UNCHANGED <<tables, proofLock>>
      BY <2>0, <3>1, <3>2, TypedOn DEF tables
    <3> QED BY <1>3, <2>5, <3>2 DEF Update
  <2>6. CASE Count(r)
    <3> DEFINE n == [t EXCEPT !.pc = "commit", !.mark = NoneUnsettled(t)]
    <3>1. n \in Txn /\ Carries(n)
      BY <2>0, <2>a, <2>b, <2>6, NoneUnsettled(t) \in BOOLEAN, GoneOn, CarriesOn
      DEF Count, NoneUnsettled
    <3> QED BY <2>0, <2>6, <3>1, TypedOn DEF Count, tables, locks
  <2>7. CASE Commit(r)
    <3>1. t.payment \in Payment /\ t.user \in User /\ t.new \in PaymentStatus
      BY <1>0, <2>0, <2>7 DEF Commit, Carries, Txn
    <3>2. pay' \in [Payment -> [status : PaymentStatus, version : Nat]]
      BY <1>0, <3>1, <2>7 DEF Commit, TypeOK
    <3>3. CurrentAfter(t) \in Proof \cup {NoOne}
      BY <1>0, <2>0, <2>7, <3>1 DEF Commit, CurrentAfter, Proof, Carries, Txn
    <3>4. current' \in [Payment -> Proof \cup {NoOne}]
      BY <2>0, <2>7, <3>1, <3>3 DEF Commit
    <3>5. EntryOf(t) \in Entry
      BY <1>0, <2>0, <2>7, <3>1, AuditType DEF Commit, EntryOf, Entry, Carries, Txn
    <3>6. trail' \in [Payment -> Seq(Entry)]
      BY <1>0, <3>1, <3>5, <2>7 DEF Commit, TypeOK
    <3>7. group' \in {"closed", "settled"} /\ groupAdmin' \in Member /\ objects' \subseteq Payment \X Evidence
      BY <1>0, <2>7 DEF Commit, TypeOK
    <3> QED BY <1>2, <2>7, <3>2, <3>4, <3>6, <3>7 DEF Commit, Typed, TypeOK, Carries
  <2> QED BY <1>8, <2>1, <2>2, <2>3, <2>4, <2>5, <2>6, <2>7 DEF Work
<1> QED BY <1>4, <1>5, <1>6, <1>7, <1>8, Arrival DEF Next
-----------------------------------------------------------------------------
(***************************************************************************)
(* Versions and locks.                                                     *)
(***************************************************************************)
LEMMA GuardedInit == Init => Guarded
BY DEF Init, Guarded, Pinned, Idle

\* One request goes on with the snapshot it has; a lock it takes was free.
LEMMA GuardedOn ==
  ASSUME Typed, Guarded, NEW r \in Request, NEW n, req' = [req EXCEPT ![r] = n],
         UNCHANGED pay, SnapshotOK(n),
         \A p \in Payment : rowLock'[p] = rowLock[p] \/ rowLock[p] = NoOne,
         n.pc \in {"count", "commit"} =>
           rowLock'[n.payment] = r /\ n.version = pay[n.payment].version
  PROVE  Guarded'
<1> USE PaymentsAssumption
<1>1. req \in [Request -> Txn] /\ \A q \in Request : req[q].pc # "idle" => req[q].payment \in Payment
  BY DEF Typed, TypeOK, Carries
<1>2. \A q \in Request : req'[q].pc # "idle" => SnapshotOK(req'[q])
  BY <1>1 DEF Guarded
<1>3. \A q \in Request : Pinned(q)'
  BY <1>1 DEF Guarded, Pinned
<1> QED BY <1>2, <1>3 DEF Guarded, SnapshotOK

\* One request ends; a payment it changed was locked by it and moved on.
LEMMA GuardedEnd ==
  ASSUME Typed, Guarded, NEW r \in Request, End(r),
         \A p \in Payment :
           \/ pay'[p] = pay[p]
           \/ rowLock[p] = r /\ pay'[p].version = pay[p].version + 1
  PROVE  Guarded'
<1> USE PaymentsAssumption
<1>1. /\ req \in [Request -> Txn]
      /\ \A q \in Request : req[q].pc # "idle" => req[q].payment \in Payment /\ req[q].version \in Nat
      /\ \A p \in Payment : pay[p].version \in Nat
      /\ rowLock \in [Payment -> Request \cup {NoOne}]
  BY DEF Typed, TypeOK, Carries, Txn
<1>2. req'[r].pc = "idle" /\ \A q \in Request \ {r} : req'[q] = req[q]
  BY <1>1 DEF End, Idle
<1>3. ASSUME NEW q \in Request, req'[q].pc # "idle" PROVE SnapshotOK(req[q])'
  BY <1>1, <1>2, <1>3 DEF Guarded, SnapshotOK
<1>4. ASSUME NEW q \in Request PROVE Pinned(q)'
  BY <1>1, <1>2 DEF Guarded, Pinned, End, Released
<1> QED BY <1>3, <1>4 DEF Guarded

\* Every step keeps Guarded: who is past Update holds the row, so the version stays.
LEMMA GuardedNext == Typed /\ Guarded /\ [Next]_vars => Guarded'
<1> SUFFICES ASSUME Typed, Guarded, [Next]_vars PROVE Guarded'
  OBVIOUS
<1>0. /\ req \in [Request -> Txn]
      /\ \A q \in Request : req[q].pc # "idle" => req[q].payment \in Payment
      /\ pay \in [Payment -> [status : PaymentStatus, version : Nat]]
      /\ rowLock \in [Payment -> Request \cup {NoOne}]
  BY DEF Typed, TypeOK, Carries
<1>1. CASE UNCHANGED vars
  BY <1>1 DEF vars, tables, locks, Guarded, Pinned, SnapshotOK
<1>2. CASE \E u \in Member : TransferAdmin(u)
  BY <1>2 DEF TransferAdmin, locks, Guarded, Pinned, SnapshotOK
<1>3. ASSUME NEW r \in Request, Rollback(r) PROVE Guarded'
  BY <1>3, GuardedEnd DEF Rollback, tables
<1>4. ASSUME NEW r \in Request, Fail(r) PROVE Guarded'
  BY <1>3, <1>4 DEF Fail
<1>5. ASSUME NEW r \in Request, NEW u \in User, NEW a \in paymentAction, NEW p \in Payment,
             NEW e \in Evidence \cup {NoOne}, Begin(r, u, a, p, e)
      PROVE  Guarded'
  <2> DEFINE n == [pc |-> FirstStep(a, e), user |-> u, action |-> a, payment |-> p, ev |-> e,
                   actor |-> actorOf(u, p), status |-> pay[p].status, version |-> pay[p].version,
                   new |-> validatePaymentTransition(a, actorOf(u, p), pay[p].status),
                   seen |-> NoOne, unset |-> FALSE, mark |-> FALSE]
  <2>0. req' = [req EXCEPT ![r] = n] /\ UNCHANGED <<tables, locks>>
    BY <1>5 DEF Begin
  <2>1. SnapshotOK(n)
    BY <1>0 DEF SnapshotOK
  <2>2. n.pc \notin {"count", "commit"}
    BY DEF FirstStep
  <2> QED BY <2>0, <2>1, <2>2, GuardedOn DEF tables, locks
<1>6. ASSUME NEW r \in Request, Work(r) PROVE Guarded'
  <2> DEFINE t == req[r]
  <2>0. t \in Txn /\ (t.pc # "idle" => SnapshotOK(t)) /\ Pinned(r)
    BY <1>0 DEF Guarded
  <2>1. CASE Put(r)
    <3> DEFINE n == [t EXCEPT !.pc = "unset"]
    <3>1. SnapshotOK(n) /\ n.pc = "unset"
      BY <2>0, <2>1 DEF Put, SnapshotOK, Txn
    <3> QED BY <2>1, <3>1, GuardedOn DEF Put, locks
  <2>2. CASE UnsetStart(r)
    <3> DEFINE n == [t EXCEPT !.pc = "unsetting", !.seen = current[t.payment]]
    <3>1. SnapshotOK(n) /\ n.pc = "unsetting"
      BY <2>0, <2>2 DEF UnsetStart, SnapshotOK, Txn
    <3> QED BY <2>2, <3>1, GuardedOn DEF UnsetStart, tables, locks
  <2>3. CASE UnsetFinish(r)
    <3> DEFINE still == t.seen # NoOne /\ current[t.payment] = t.seen
               n == [t EXCEPT !.pc = "insert", !.unset = still]
    <3>1. SnapshotOK(n) /\ n.pc = "insert"
      BY <2>0, <2>3 DEF UnsetFinish, SnapshotOK, Txn
    <3>2. req' = [req EXCEPT ![r] = n] /\ UNCHANGED <<tables, rowLock>>
      BY <2>3 DEF UnsetFinish
    <3> QED BY <3>1, <3>2, GuardedOn DEF tables
  <2>4. CASE InsertProof(r)
    <3> DEFINE n == [t EXCEPT !.pc = "update"]
    <3>1. SnapshotOK(n) /\ n.pc = "update"
      BY <2>0, <2>4 DEF InsertProof, SnapshotOK, Txn
    <3>2. CASE req' = [req EXCEPT ![r] = n] /\ UNCHANGED <<tables, rowLock>>
      BY <3>1, <3>2, GuardedOn DEF tables
    <3> QED BY <1>3, <2>4, <3>2 DEF InsertProof
  <2>5. CASE Update(r)
    <3> DEFINE n == [t EXCEPT !.pc = IF t.new = "settled" THEN "count" ELSE "commit"]
    <3>1. SnapshotOK(n) /\ n.payment = t.payment /\ n.version = t.version
      BY <2>0, <2>5 DEF Update, SnapshotOK, Txn
    <3>2. CASE ~Rollback(r)
      <4>1. /\ rowLock[t.payment] = NoOne /\ Fresh(t)
            /\ rowLock' = [rowLock EXCEPT ![t.payment] = r]
            /\ req' = [req EXCEPT ![r] = n]
            /\ UNCHANGED tables
        BY <2>5, <3>2 DEF Update
      <4>2. t.payment \in Payment
        BY <1>0, <2>5 DEF Update
      <4>3. /\ rowLock'[n.payment] = r /\ n.version = pay[n.payment].version
            /\ \A p \in Payment : rowLock'[p] = rowLock[p] \/ rowLock[p] = NoOne
        BY <1>0, <3>1, <4>1, <4>2 DEF Fresh
      <4> QED BY <3>1, <4>1, <4>3, GuardedOn DEF tables
    <3> QED BY <1>3, <3>2
  <2>6. CASE Count(r)
    <3> DEFINE n == [t EXCEPT !.pc = "commit", !.mark = NoneUnsettled(t)]
    <3>1. SnapshotOK(n) /\ n.payment = t.payment /\ n.version = t.version
      BY <2>0, <2>6 DEF Count, SnapshotOK, Txn
    <3>2. rowLock[n.payment] = r /\ n.version = pay[n.payment].version
      BY <2>0, <2>6, <3>1 DEF Count, Pinned
    <3>3. req' = [req EXCEPT ![r] = n] /\ UNCHANGED <<tables, locks>>
      BY <2>6 DEF Count
    <3> QED BY <3>1, <3>2, <3>3, GuardedOn DEF tables, locks
  <2>7. CASE Commit(r)
    BY <1>0, <2>0, <2>7, GuardedEnd DEF Commit, Pinned
  <2> QED BY <1>6, <2>1, <2>2, <2>3, <2>4, <2>5, <2>6, <2>7 DEF Work
<1> QED BY <1>1, <1>2, <1>4, <1>5, <1>6, Arrival DEF Next

\* What is known of a request that commits: the payment is as it found it,
\* and the rules allowed what it writes.
LEMMA CommitFacts ==
  ASSUME Typed, Guarded, NEW r \in Request, Commit(r)
  PROVE  LET t == req[r]
             p == t.payment
         IN /\ t \in Txn /\ t.pc = "commit"
            /\ p \in Payment /\ t.user \in User /\ t.action \in paymentAction
            /\ t.action = "submit_proof" => t.ev \in Evidence
            /\ pay[p] = [status |-> t.status, version |-> t.version]
            /\ t.status # "settled"
            /\ t.new \in PaymentStatus \ {"pending"}
            /\ t.action = "submit_proof" <=> t.new = "proof_submitted"
            /\ t.action = "submit_proof" => Debtor[p] = t.user
            /\ t.action = "confirm" <=> t.new = "creditor_confirmed"
            /\ t.action = "confirm" => Creditor[p] = t.user /\ t.status = "proof_submitted"
            /\ t.action = "finalize" <=> t.new = "settled"
            /\ t.action = "finalize" =>
                 /\ Debtor[p] # t.user
                 /\ t.user \in GlobalAdmin \/ t.status = "creditor_confirmed"
<1> DEFINE t == req[r]
           p == t.payment
<1>1. t \in Txn /\ t.pc = "commit" /\ Carries(t)
  BY DEF Commit, Typed, TypeOK
<1>2. pay[p].status = t.status /\ pay[p].version = t.version
  BY <1>1 DEF Guarded, Pinned, SnapshotOK
<1>3. pay[p] = [status |-> t.status, version |-> t.version]
  BY <1>1, <1>2 DEF Typed, TypeOK, Carries
<1>4. /\ t.action \in paymentAction /\ t.actor \in paymentActor /\ t.status \in PaymentStatus
      /\ t.new = validatePaymentTransition(t.action, t.actor, t.status) /\ t.new # Refused
  BY <1>1 DEF Carries, Txn
<1> HIDE DEF t
<1>5. /\ t.status # "settled"
      /\ t.new \in PaymentStatus \ {"pending"}
      /\ t.action = "submit_proof" <=> t.new = "proof_submitted"
      /\ t.action = "submit_proof" => t.actor.IsDebtor
      /\ t.action = "confirm" <=> t.new = "creditor_confirmed"
      /\ t.action = "confirm" => t.actor.IsCreditor /\ t.status = "proof_submitted"
      /\ t.action = "finalize" <=> t.new = "settled"
      /\ t.action = "finalize" =>
           ~t.actor.IsDebtor /\ (t.actor.IsGlobalAdmin \/ t.status = "creditor_confirmed")
  BY <1>4, TransitionFacts
<1> QED BY <1>1, <1>3, <1>5 DEF Carries, t
-----------------------------------------------------------------------------
(***************************************************************************)
(* The audit trail.                                                        *)
(***************************************************************************)
LEMMA AuditedInit == Init => Audited
BY DEF Init, Audited, TrailIsChain

\* The entry a commit adds is lawful and begins where the payment was.
LEMMA EntryLawful ==
  ASSUME Typed, Guarded, NEW r \in Request, Commit(r)
  PROVE  LET t == req[r] IN
         /\ Lawful(t.payment, EntryOf(t))
         /\ EntryOf(t).before = pay[t.payment].status
         /\ EntryOf(t).after = t.new
<1> DEFINE t == req[r]
           p == t.payment
           e == EntryOf(t)
<1>1. /\ e.before = t.status /\ e.after = t.new /\ e.actor = t.user
      /\ e.action = auditActionFor(t.action, t.actor, t.status)
  BY DEF EntryOf
<1>2. t.actor.IsGlobalAdmin <=> t.user \in GlobalAdmin
  BY CommitFacts DEF Typed, Carries
<1>3. /\ t.action = "submit_proof" => e.action = "payment.proof_submitted"
      /\ t.action = "confirm" => e.action = "payment.creditor_confirmed"
      /\ t.action = "finalize" /\ t.status # "creditor_confirmed" /\ t.user \in GlobalAdmin =>
           e.action = "payment.settled.override"
      /\ t.action = "finalize" /\ t.status = "creditor_confirmed" => e.action = "payment.settled"
  BY <1>1, <1>2 DEF auditActionFor
<1>4. /\ t.status # "settled" /\ t.new # "pending" /\ pay[p].status = t.status
      /\ t.new = "proof_submitted" => t.action = "submit_proof" /\ Debtor[p] = t.user
      /\ t.new = "creditor_confirmed" =>
           t.action = "confirm" /\ Creditor[p] = t.user /\ t.status = "proof_submitted"
      /\ t.new = "settled" =>
           /\ t.action = "finalize" /\ Debtor[p] # t.user
           /\ t.user \in GlobalAdmin \/ t.status = "creditor_confirmed"
  <2>1. pay[p] = [status |-> t.status, version |-> t.version]
    BY CommitFacts
  <2> QED BY <2>1, CommitFacts
<1> HIDE DEF t, e
<1>5. Lawful(p, e)
  BY <1>1, <1>3, <1>4 DEF Lawful
<1> QED BY <1>1, <1>4, <1>5 DEF t, e

\* Every step keeps Audited: a commit appends a lawful entry to the chain.
LEMMA AuditedNext == Typed /\ Guarded /\ Audited /\ [Next]_vars => Audited'
<1> SUFFICES ASSUME Typed, Guarded, Audited, [Next]_vars PROVE Audited'
  OBVIOUS
<1>1. CASE UNCHANGED <<group, pay, current, trail>>
  BY <1>1 DEF Audited, TrailIsChain
<1>2. ASSUME NEW r \in Request, Commit(r) PROVE Audited'
  <2> DEFINE t == req[r]
             x == t.payment
             e == EntryOf(t)
  <2>1. /\ x \in Payment
        /\ Lawful(x, e) /\ e.before = pay[x].status /\ e.after = t.new
        /\ e \in Entry
    <3>1. e \in Entry
      BY <1>2, CommitFacts, AuditType DEF EntryOf, Entry, Txn
    <3> QED BY <1>2, <3>1, CommitFacts, EntryLawful
  <2>2. /\ pay \in [Payment -> [status : PaymentStatus, version : Nat]]
        /\ trail \in [Payment -> Seq(Entry)]
    BY DEF Typed, TypeOK
  <2>3. /\ pay' = [pay EXCEPT ![x] = [status |-> t.new, version |-> @.version + 1]]
        /\ trail' = [trail EXCEPT ![x] = Append(@, e)]
    BY <1>2 DEF Commit
  <2> HIDE DEF t, e, x
  <2>4. ASSUME NEW p \in Payment, p # x
        PROVE  pay'[p] = pay[p] /\ trail'[p] = trail[p]
    BY <2>1, <2>2, <2>3, <2>4
  <2>5. /\ pay'[x].status = t.new /\ pay'[x].version = pay[x].version + 1
        /\ trail'[x] = Append(trail[x], e)
        /\ trail[x] \in Seq(Entry)
    BY <2>1, <2>2, <2>3
  <2>6. /\ Len(trail'[x]) = Len(trail[x]) + 1
        /\ trail'[x][Len(trail[x]) + 1] = e
        /\ \A i \in 1..Len(trail[x]) : trail'[x][i] = trail[x][i]
    BY <2>1, <2>5
  <2>7. ASSUME NEW p \in Payment
        PROVE  /\ Len(trail'[p]) = pay'[p].version
               /\ \A i \in 1..Len(trail'[p]) :
                    trail'[p][i].before = IF i = 1 THEN "pending" ELSE trail'[p][i - 1].after
               /\ pay'[p].status =
                    IF trail'[p] = << >> THEN "pending" ELSE trail'[p][Len(trail'[p])].after
    <3>1. /\ Len(trail[p]) = pay[p].version
          /\ \A i \in 1..Len(trail[p]) :
               trail[p][i].before = IF i = 1 THEN "pending" ELSE trail[p][i - 1].after
          /\ pay[p].status = IF trail[p] = << >> THEN "pending" ELSE trail[p][Len(trail[p])].after
      BY DEF Audited, TrailIsChain
    <3>2. CASE p # x
      BY <2>4, <3>1, <3>2
    <3>3. CASE p = x
      <4>1. Len(trail[x]) \in Nat /\ (trail[x] = << >> <=> Len(trail[x]) = 0)
        BY <2>5
      <4>2. ASSUME NEW i \in 1..Len(trail'[x])
            PROVE  trail'[x][i].before = IF i = 1 THEN "pending" ELSE trail'[x][i - 1].after
        <5>1. CASE i = Len(trail[x]) + 1
          BY <2>1, <2>6, <3>1, <3>3, <4>1, <5>1
        <5>2. CASE i \in 1..Len(trail[x])
          <6>1. trail'[x][i] = trail[x][i] /\ (i # 1 => trail'[x][i - 1] = trail[x][i - 1])
            BY <2>6, <4>1, <5>2
          <6> QED BY <3>1, <3>3, <5>2, <6>1
        <5> QED BY <2>6, <4>1, <5>1, <5>2
      <4>3. Len(trail'[x]) = pay'[x].version
        BY <2>5, <2>6, <3>1, <3>3
      <4>4. trail'[x] # << >> /\ pay'[x].status = trail'[x][Len(trail'[x])].after
        <5>1. Len(trail'[x]) # 0
          BY <2>6, <4>1
        <5>2. trail'[x][Len(trail'[x])].after = t.new
          BY <2>1, <2>6
        <5> QED BY <2>5, <5>1, <5>2
      <4> QED BY <3>3, <4>2, <4>3, <4>4
    <3> QED BY <3>2, <3>3
  <2>8. ASSUME NEW p \in Payment, NEW i \in 1..Len(trail'[p])
        PROVE  Lawful(p, trail'[p][i])
    <3>1. \A j \in 1..Len(trail[p]) : Lawful(p, trail[p][j])
      BY DEF Audited
    <3>2. CASE p # x
      BY <2>4, <2>8, <3>1, <3>2
    <3>3. CASE p = x
      <4>1. Len(trail[x]) \in Nat
        BY <2>5
      <4> QED BY <2>1, <2>6, <2>8, <3>1, <3>3, <4>1
    <3> QED BY <3>2, <3>3
  <2>9. TrailIsChain'
    BY <2>7 DEF TrailIsChain
  <2> QED BY <2>8, <2>9 DEF Audited, Lawful
<1> QED BY <1>1, <1>2, OnlyCommitWrites

\* A lawful chain that ends settled was opened by the two keys or overridden.
LEMMA ChainHasTwoKeys == Typed /\ Audited => TwoKeysBeforeSettled
<1> SUFFICES ASSUME Typed, Audited, NEW p \in Payment, pay[p].status = "settled"
             PROVE  LET t == trail[p]
                        n == Len(t)
                    IN /\ t[n].actor # Debtor[p]
                       /\ \/ t[n].action = "payment.settled.override" /\ t[n].actor \in GlobalAdmin
                          \/ /\ n >= 3
                             /\ t[n - 1].action = "payment.creditor_confirmed"
                             /\ t[n - 1].actor = Creditor[p]
                             /\ t[n - 2].action = "payment.proof_submitted"
                             /\ t[n - 2].actor = Debtor[p]
  BY DEF TwoKeysBeforeSettled
<1> DEFINE t == trail[p]
           n == Len(t)
<1>1. t \in Seq(Entry) /\ n \in Nat /\ (t = << >> <=> n = 0)
  BY DEF Typed, TypeOK
<1>2. /\ \A i \in 1..n : t[i].before = IF i = 1 THEN "pending" ELSE t[i - 1].after
      /\ pay[p].status = IF t = << >> THEN "pending" ELSE t[n].after
      /\ \A i \in 1..n : Lawful(p, t[i])
  BY DEF Audited, TrailIsChain
<1> HIDE DEF t, n
<1>3. n \in 1..n /\ t[n].after = "settled"
  BY <1>1, <1>2
<1>4. /\ t[n].actor # Debtor[p]
      /\ \/ t[n].action = "payment.settled.override" /\ t[n].actor \in GlobalAdmin
         \/ t[n].before = "creditor_confirmed"
  BY <1>2, <1>3 DEF Lawful
<1>5. CASE t[n].before = "creditor_confirmed"
  <2>1. n # 1 /\ n - 1 \in 1..n /\ t[n - 1].after = "creditor_confirmed"
    BY <1>1, <1>2, <1>3, <1>5
  <2>2. /\ t[n - 1].action = "payment.creditor_confirmed" /\ t[n - 1].actor = Creditor[p]
        /\ t[n - 1].before = "proof_submitted"
    BY <1>2, <2>1 DEF Lawful
  <2>3. n - 1 # 1 /\ n - 2 \in 1..n /\ n >= 3 /\ t[n - 2].after = "proof_submitted"
    BY <1>1, <1>2, <2>1, <2>2
  <2>4. t[n - 2].action = "payment.proof_submitted" /\ t[n - 2].actor = Debtor[p]
    BY <1>2, <2>3 DEF Lawful
  <2> QED BY <1>4, <2>2, <2>3, <2>4 DEF t, n
<1> QED BY <1>4, <1>5 DEF t, n

\* The last entry of t with one of the actions is the one the report goes by.
LEMMA LastIs ==
  ASSUME NEW t \in Seq(Entry), NEW A, NEW k \in 1..Len(t), t[k].action \in A,
         \A l \in 1..Len(t) : t[l].action \in A => l <= k
  PROVE  LastActor(t, A) = t[k].actor
<1> DEFINE at == {i \in 1..Len(t) : t[i].action \in A}
<1>1. k \in at /\ \A l \in at : l <= k /\ l \in Nat
  OBVIOUS
<1>2. (CHOOSE i \in at : \A l \in at : l <= i) = k
  <2>1. \A i \in at : (\A l \in at : l <= i) <=> i = k
    BY <1>1
  <2> QED BY <1>1, <2>1
<1> QED BY <1>1, <1>2 DEF LastActor

\* In a settled group the last entry about each payment settled it, and a
\* confirmation before it is its creditor's.
LEMMA ReportFollows == Typed /\ Audited /\ Counted => ReportIsTrue
<1> SUFFICES ASSUME Typed, Audited, Counted, group = "settled", NEW p \in Payment
             PROVE  LET last == trail[p][Len(trail[p])] IN
                    /\ last.after = "settled"
                    /\ finalizedBy(p) = last.actor /\ last.actor # Debtor[p]
                    /\ confirmedBy(p) = Creditor[p] \/ last.action = "payment.settled.override"
  BY DEF ReportIsTrue
<1> DEFINE t == trail[p]
           n == Len(t)
<1>1. pay[p].status = "settled"
  BY DEF Counted, GroupSettledIsTrue
<1>2. t \in Seq(Entry) /\ n \in Nat /\ (t = << >> <=> n = 0)
  BY DEF Typed, TypeOK
<1>3. /\ n \in 1..n /\ t[n].after = "settled"
      /\ \A i \in 1..n : Lawful(p, t[i])
  BY <1>1, <1>2 DEF Audited, TrailIsChain
<1>4. /\ t[n].actor # Debtor[p]
      /\ t[n].action \in {"payment.settled", "payment.settled.override"}
  BY <1>3 DEF Lawful
<1>5. finalizedBy(p) = t[n].actor
  <2> DEFINE A == {"payment.settled", "payment.settled.override"}
  <2>1. t[n].action \in A /\ \A l \in 1..n : t[l].action \in A => l <= n
    BY <1>2, <1>4
  <2> HIDE DEF A
  <2>2. LastActor(t, A) = t[n].actor
    BY <1>2, <1>3, <2>1, LastIs
  <2> QED BY <2>2 DEF finalizedBy, A, t
<1>6. CASE t[n].action # "payment.settled.override"
  <2>1. t[n].action = "payment.settled"
    BY <1>4, <1>6
  <2>2. /\ n >= 3
        /\ t[n - 1].action = "payment.creditor_confirmed"
        /\ t[n - 1].actor = Creditor[p]
    BY <1>1, <1>6, ChainHasTwoKeys DEF TwoKeysBeforeSettled
  <2>3. /\ n - 1 \in 1..n
        /\ \A l \in 1..n : t[l].action \in {"payment.creditor_confirmed"} => l <= n - 1
    BY <1>2, <2>1, <2>2
  <2>4. confirmedBy(p) = t[n - 1].actor
    <3> DEFINE A == {"payment.creditor_confirmed"}
    <3>1. t[n - 1].action \in A /\ \A l \in 1..n : t[l].action \in A => l <= n - 1
      BY <2>2, <2>3
    <3> HIDE DEF A
    <3>2. LastActor(t, A) = t[n - 1].actor
      BY <1>2, <2>3, <3>1, LastIs
    <3> QED BY <3>2 DEF confirmedBy, A, t
  <2> QED BY <1>3, <1>4, <1>5, <2>2, <2>4
<1> QED BY <1>3, <1>4, <1>5, <1>6
-----------------------------------------------------------------------------
(***************************************************************************)
(* Settled payments.                                                       *)
(***************************************************************************)

\* No step touches a settled payment, its trail or its proof.
LEMMA SettledStays ==
  ASSUME Typed, Guarded, [Next]_vars, NEW p \in Payment, pay[p].status = "settled"
  PROVE  pay'[p] = pay[p] /\ trail'[p] = trail[p] /\ current'[p] = current[p]
<1>1. ASSUME NEW r \in Request, Commit(r)
      PROVE  pay'[p] = pay[p] /\ trail'[p] = trail[p] /\ current'[p] = current[p]
  <2>1. req[r].payment # p
    <3>1. /\ pay[req[r].payment] = [status |-> req[r].status, version |-> req[r].version]
          /\ req[r].status # "settled"
      BY <1>1, CommitFacts
    <3> QED BY <3>1
  <2> QED BY <1>1, <2>1 DEF Commit, Typed, TypeOK
<1> QED BY <1>1, OnlyCommitWrites
-----------------------------------------------------------------------------
(***************************************************************************)
(* The proof behind a claim.                                               *)
(***************************************************************************)
LEMMA EvidencedInit == Init => Evidenced
BY DEF Init, Evidenced, ProofBacksClaim, ProofImageStored, IsImage, Fetched, Uploaded, Idle

\* One request changes; objects only come.
LEMMA UploadedOn ==
  ASSUME Typed, \A q \in Request : Uploaded(req[q]), NEW r \in Request, NEW n,
         req' = [req EXCEPT ![r] = n], objects \subseteq objects',
         n.action = "submit_proof" /\ n.ev \in Image /\ n.pc \notin {"idle", "put"} =>
           <<n.payment, n.ev>> \in objects'
  PROVE  \A q \in Request : Uploaded(req[q])'
<1>1. req \in [Request -> Txn]
  BY DEF Typed, TypeOK
<1> QED BY <1>1 DEF Uploaded

\* Objects only come, and a request inserts only what it has uploaded.
LEMMA UploadedNext ==
  ASSUME Typed, \A q \in Request : Uploaded(req[q]), [Next]_vars
  PROVE  objects \subseteq objects' /\ \A q \in Request : Uploaded(req[q])'
<1> DEFINE Goal == objects \subseteq objects' /\ \A q \in Request : Uploaded(req[q])'
<1>1. CASE UNCHANGED vars
  BY <1>1 DEF vars, tables, Uploaded
<1>2. CASE \E u \in Member : TransferAdmin(u)
  BY <1>2 DEF TransferAdmin, Uploaded
<1>3. ASSUME NEW r \in Request, req' = [req EXCEPT ![r] = Idle], UNCHANGED objects
      PROVE  Goal
  BY <1>3, UploadedOn DEF Idle
<1>4. ASSUME NEW r \in Request, Fail(r) PROVE Goal
  BY <1>3, <1>4 DEF Fail, Rollback, End, tables
<1>5. ASSUME NEW r \in Request, NEW u \in User, NEW a \in paymentAction, NEW p \in Payment,
             NEW e \in Evidence \cup {NoOne}, Begin(r, u, a, p, e)
      PROVE  Goal
  <2> DEFINE n == [pc |-> FirstStep(a, e), user |-> u, action |-> a, payment |-> p, ev |-> e,
                   actor |-> actorOf(u, p), status |-> pay[p].status, version |-> pay[p].version,
                   new |-> validatePaymentTransition(a, actorOf(u, p), pay[p].status),
                   seen |-> NoOne, unset |-> FALSE, mark |-> FALSE]
  <2>1. req' = [req EXCEPT ![r] = n] /\ UNCHANGED objects
    BY <1>5 DEF Begin, tables
  <2>2. n.action = "submit_proof" /\ n.ev \in Image => n.pc = "put"
    BY DEF FirstStep
  <2> QED BY <2>1, <2>2, UploadedOn
<1>6. ASSUME NEW r \in Request, Work(r) PROVE Goal
  <2> DEFINE t == req[r]
  <2>0. t \in Txn /\ Uploaded(t)
    BY DEF Typed, TypeOK
  <2>1. CASE Put(r)
    <3>1. req' = [req EXCEPT ![r] = [t EXCEPT !.pc = "unset"]]
          /\ objects' = objects \cup {<<t.payment, t.ev>>}
      BY <2>1 DEF Put
    <3> QED BY <2>0, <3>1, UploadedOn DEF Txn
  <2>2. CASE UnsetStart(r)
    <3> DEFINE n == [t EXCEPT !.pc = "unsetting", !.seen = current[t.payment]]
    <3>1. req' = [req EXCEPT ![r] = n] /\ UNCHANGED objects /\ t.pc = "unset"
      BY <2>2 DEF UnsetStart, tables
    <3>2. n.action = t.action /\ n.ev = t.ev /\ n.payment = t.payment
      BY <2>0 DEF Txn
    <3> QED BY <2>0, <3>1, <3>2, UploadedOn DEF Uploaded
  <2>3. CASE UnsetFinish(r)
    <3> DEFINE n == [t EXCEPT !.pc = "insert",
                              !.unset = t.seen # NoOne /\ current[t.payment] = t.seen]
    <3>1. req' = [req EXCEPT ![r] = n] /\ UNCHANGED objects /\ t.pc = "unsetting"
      BY <2>3 DEF UnsetFinish, tables
    <3>2. n.action = t.action /\ n.ev = t.ev /\ n.payment = t.payment
      BY <2>0 DEF Txn
    <3> QED BY <2>0, <3>1, <3>2, UploadedOn DEF Uploaded
  <2>4. CASE InsertProof(r)
    <3> DEFINE n == [t EXCEPT !.pc = "update"]
    <3>1. t.pc = "insert" /\ UNCHANGED objects
          /\ (req' = [req EXCEPT ![r] = n] \/ req' = [req EXCEPT ![r] = Idle])
      BY <2>4 DEF InsertProof, Rollback, End, tables
    <3>2. n.action = t.action /\ n.ev = t.ev /\ n.payment = t.payment
      BY <2>0 DEF Txn
    <3>3. CASE req' = [req EXCEPT ![r] = n]
      BY <2>0, <3>1, <3>2, <3>3, UploadedOn DEF Uploaded
    <3> QED BY <1>3, <3>1, <3>3
  <2>5. CASE Update(r)
    <3> DEFINE n == [t EXCEPT !.pc = IF t.new = "settled" THEN "count" ELSE "commit"]
    <3>1. t.pc = "update" /\ UNCHANGED objects
          /\ (req' = [req EXCEPT ![r] = n] \/ req' = [req EXCEPT ![r] = Idle])
      BY <2>5 DEF Update, Rollback, End, tables
    <3>2. n.action = t.action /\ n.ev = t.ev /\ n.payment = t.payment
      BY <2>0 DEF Txn
    <3>3. CASE req' = [req EXCEPT ![r] = n]
      BY <2>0, <3>1, <3>2, <3>3, UploadedOn DEF Uploaded
    <3> QED BY <1>3, <3>1, <3>3
  <2>6. CASE Count(r)
    <3> DEFINE n == [t EXCEPT !.pc = "commit", !.mark = NoneUnsettled(t)]
    <3>1. req' = [req EXCEPT ![r] = n] /\ UNCHANGED objects /\ t.pc = "count"
      BY <2>6 DEF Count, tables
    <3>2. n.action = t.action /\ n.ev = t.ev /\ n.payment = t.payment
      BY <2>0 DEF Txn
    <3> QED BY <2>0, <3>1, <3>2, UploadedOn DEF Uploaded
  <2>7. CASE Commit(r)
    BY <1>3, <2>7 DEF Commit, End
  <2> QED BY <1>6, <2>1, <2>2, <2>3, <2>4, <2>5, <2>6, <2>7 DEF Work
<1> QED BY <1>1, <1>2, <1>4, <1>5, <1>6, Arrival DEF Next

\* Every step keeps Evidenced: a submission brings its proof, what leaves it brings none.
LEMMA EvidencedNext == Typed /\ Guarded /\ Evidenced /\ [Next]_vars => Evidenced'
<1> SUFFICES ASSUME Typed, Guarded, Evidenced, [Next]_vars PROVE Evidenced'
  OBVIOUS
<1>1. objects \subseteq objects' /\ \A q \in Request : Uploaded(req[q])'
  BY UploadedNext DEF Evidenced
<1>2. ProofBacksClaim /\ ProofImageStored /\ \A q \in Request : Uploaded(req[q])
  BY DEF Evidenced
<1>3. CASE UNCHANGED <<group, pay, current, trail>>
  <2>1. ProofBacksClaim'
    BY <1>2, <1>3 DEF ProofBacksClaim
  <2>2. ProofImageStored'
    BY <1>1, <1>2, <1>3 DEF ProofImageStored, IsImage, Fetched
  <2> QED BY <1>1, <2>1, <2>2 DEF Evidenced
<1>4. ASSUME NEW r \in Request, Commit(r) PROVE Evidenced'
  <2> DEFINE t == req[r]
             x == t.payment
             new == CurrentAfter(t)
  <2>1. /\ x \in Payment
        /\ pay \in [Payment -> [status : PaymentStatus, version : Nat]]
        /\ current \in [Payment -> Proof \cup {NoOne}]
        /\ pay' = [pay EXCEPT ![x] = [status |-> t.new, version |-> @.version + 1]]
        /\ current' = [current EXCEPT ![x] = new]
    BY <1>4, CommitFacts DEF Commit, Typed, TypeOK
  <2>2. pay[x].status = t.status /\ pay[x].version = t.version /\ t.version \in Nat
    <3>1. pay[x] = [status |-> t.status, version |-> t.version] /\ t \in Txn
      BY <1>4, CommitFacts
    <3> QED BY <3>1 DEF Txn
  <2>3. CASE t.action = "submit_proof"
    <3>1. new = [ev |-> t.ev, ver |-> t.version + 1] /\ new \in Proof
      <4>1. t.ev \in Evidence
        BY <1>4, <2>3, CommitFacts
      <4> QED BY <2>2, <2>3, <4>1 DEF CurrentAfter, Proof
    <3>2. t.new = "proof_submitted" /\ (t.ev \in Image => <<x, t.ev>> \in objects)
      BY <1>2, <1>4, <2>3, CommitFacts DEF Uploaded
    <3> HIDE DEF t, x, new
    <3>3. ProofBacksClaim'
      BY <1>2, <2>1, <2>2, <3>1, <3>2, PaymentsAssumption DEF ProofBacksClaim
    <3>4. ProofImageStored'
      BY <1>1, <1>2, <2>1, <3>1, <3>2 DEF ProofImageStored, IsImage, Fetched
    <3> QED BY <1>1, <3>3, <3>4 DEF Evidenced
  <2>4. CASE t.action # "submit_proof"
    <3>1. new = current[x]
      BY <2>4 DEF CurrentAfter
    <3>2. t.new # "proof_submitted" /\ (t.new = "creditor_confirmed" => t.status = "proof_submitted")
      BY <1>4, <2>4, CommitFacts
    <3> HIDE DEF t, x, new
    <3>3. ProofBacksClaim'
      BY <1>2, <2>1, <2>2, <3>1, <3>2 DEF ProofBacksClaim
    <3>4. ProofImageStored'
      BY <1>1, <1>2, <2>1, <3>1 DEF ProofImageStored, IsImage, Fetched
    <3> QED BY <1>1, <3>3, <3>4 DEF Evidenced
  <2> QED BY <2>3, <2>4
<1> QED BY <1>3, <1>4, OnlyCommitWrites
-----------------------------------------------------------------------------
(***************************************************************************)
(* The count of unsettled payments.                                        *)
(***************************************************************************)
LEMMA CountedInit == Init => Counted
BY DEF Init, Counted, GroupSettledIsTrue, CountSound, Idle

\* What has been counted stays so.
LEMMA NoneUnsettledStays ==
  ASSUME Typed, Guarded, [Next]_vars, NEW t, NoneUnsettled(t)
  PROVE  \A q \in Payment \ {t.payment} : pay'[q].status = "settled"
BY SettledStays DEF NoneUnsettled

\* One request changes.
LEMMA CountSoundOn ==
  ASSUME Typed, Guarded, [Next]_vars, \A q \in Request : CountSound(req[q]),
         NEW r \in Request, NEW n, req' = [req EXCEPT ![r] = n],
         n.pc = "count" => n.new = "settled",
         n.mark => /\ n.pc = "commit" /\ n.new = "settled"
                   /\ \A q \in Payment \ {n.payment} : pay'[q].status = "settled"
  PROVE  \A q \in Request : CountSound(req[q])'
<1>1. req \in [Request -> Txn]
  BY DEF Typed, TypeOK
<1>2. ASSUME NEW q \in Request, q # r PROVE CountSound(req[q])'
  <2>1. req'[q] = req[q] /\ CountSound(req[q])
    BY <1>1, <1>2
  <2>2. req[q].mark => \A x \in Payment \ {req[q].payment} : pay'[x].status = "settled"
    BY <2>1, NoneUnsettledStays DEF CountSound
  <2> QED BY <2>1, <2>2 DEF CountSound, NoneUnsettled
<1>3. req'[r] = n
  BY <1>1
<1>4. CountSound(req[r])'
  BY <1>3 DEF CountSound, NoneUnsettled
<1> QED BY <1>2, <1>4

\* Every step keeps what the requests have counted true.
LEMMA CountSoundNext ==
  ASSUME Typed, Guarded, \A q \in Request : CountSound(req[q]), [Next]_vars
  PROVE  \A q \in Request : CountSound(req[q])'
<1> DEFINE Goal == \A q \in Request : CountSound(req[q])'
<1>1. CASE UNCHANGED vars
  BY <1>1 DEF vars, tables, CountSound, NoneUnsettled
<1>2. CASE \E u \in Member : TransferAdmin(u)
  BY <1>2 DEF TransferAdmin, CountSound, NoneUnsettled
<1>3. ASSUME NEW r \in Request, req' = [req EXCEPT ![r] = Idle] PROVE Goal
  BY <1>3, CountSoundOn DEF Idle
<1>4. ASSUME NEW r \in Request, Fail(r) PROVE Goal
  BY <1>3, <1>4 DEF Fail, Rollback, End
<1>5. ASSUME NEW r \in Request, NEW u \in User, NEW a \in paymentAction, NEW p \in Payment,
             NEW e \in Evidence \cup {NoOne}, Begin(r, u, a, p, e)
      PROVE  Goal
  <2> DEFINE n == [pc |-> FirstStep(a, e), user |-> u, action |-> a, payment |-> p, ev |-> e,
                   actor |-> actorOf(u, p), status |-> pay[p].status, version |-> pay[p].version,
                   new |-> validatePaymentTransition(a, actorOf(u, p), pay[p].status),
                   seen |-> NoOne, unset |-> FALSE, mark |-> FALSE]
  <2>1. req' = [req EXCEPT ![r] = n]
    BY <1>5 DEF Begin
  <2>2. n.pc # "count" /\ ~n.mark
    BY DEF FirstStep
  <2> QED BY <2>1, <2>2, CountSoundOn
<1>6. ASSUME NEW r \in Request, Work(r) PROVE Goal
  <2> DEFINE t == req[r]
  <2>0. t \in Txn /\ CountSound(t)
    BY DEF Typed, TypeOK
  <2>1. CASE Put(r)
    <3> DEFINE n == [t EXCEPT !.pc = "unset"]
    <3>1. req' = [req EXCEPT ![r] = n] /\ t.pc = "put"
      BY <2>1 DEF Put
    <3>2. n.pc = "unset" /\ ~n.mark
      BY <2>0, <3>1 DEF Txn, CountSound
    <3> QED BY <3>1, <3>2, CountSoundOn
  <2>2. CASE UnsetStart(r)
    <3> DEFINE n == [t EXCEPT !.pc = "unsetting", !.seen = current[t.payment]]
    <3>1. req' = [req EXCEPT ![r] = n] /\ t.pc = "unset"
      BY <2>2 DEF UnsetStart
    <3>2. n.pc = "unsetting" /\ ~n.mark
      BY <2>0, <3>1 DEF Txn, CountSound
    <3> QED BY <3>1, <3>2, CountSoundOn
  <2>3. CASE UnsetFinish(r)
    <3> DEFINE n == [t EXCEPT !.pc = "insert",
                              !.unset = t.seen # NoOne /\ current[t.payment] = t.seen]
    <3>1. req' = [req EXCEPT ![r] = n] /\ t.pc = "unsetting"
      BY <2>3 DEF UnsetFinish
    <3>2. n.pc = "insert" /\ ~n.mark
      BY <2>0, <3>1 DEF Txn, CountSound
    <3> QED BY <3>1, <3>2, CountSoundOn
  <2>4. CASE InsertProof(r)
    <3> DEFINE n == [t EXCEPT !.pc = "update"]
    <3>1. t.pc = "insert" /\ (req' = [req EXCEPT ![r] = n] \/ req' = [req EXCEPT ![r] = Idle])
      BY <2>4 DEF InsertProof, Rollback, End
    <3>2. n.pc = "update" /\ ~n.mark
      BY <2>0, <3>1 DEF Txn, CountSound
    <3>3. CASE req' = [req EXCEPT ![r] = n]
      BY <3>2, <3>3, CountSoundOn
    <3> QED BY <1>3, <3>1, <3>3
  <2>5. CASE Update(r)
    <3> DEFINE n == [t EXCEPT !.pc = IF t.new = "settled" THEN "count" ELSE "commit"]
    <3>1. t.pc = "update" /\ (req' = [req EXCEPT ![r] = n] \/ req' = [req EXCEPT ![r] = Idle])
      BY <2>5 DEF Update, Rollback, End
    <3>2. (n.pc = "count" => n.new = "settled") /\ ~n.mark
      BY <2>0, <3>1 DEF Txn, CountSound
    <3>3. CASE req' = [req EXCEPT ![r] = n]
      <4> HIDE DEF n
      <4> QED BY <3>2, <3>3, CountSoundOn
    <3> QED BY <1>3, <3>1, <3>3
  <2>6. CASE Count(r)
    <3> DEFINE n == [t EXCEPT !.pc = "commit", !.mark = NoneUnsettled(t)]
    <3>1. req' = [req EXCEPT ![r] = n] /\ t.pc = "count" /\ UNCHANGED tables
      BY <2>6 DEF Count
    <3>2. n.pc = "commit" /\ n.new = "settled" /\ n.payment = t.payment
          /\ (n.mark <=> NoneUnsettled(t))
      BY <2>0, <3>1 DEF Txn, CountSound, NoneUnsettled
    <3>3. NoneUnsettled(t) => \A q \in Payment \ {n.payment} : pay'[q].status = "settled"
      BY <3>1, <3>2 DEF NoneUnsettled, tables
    <3> QED BY <3>1, <3>2, <3>3, CountSoundOn
  <2>7. CASE Commit(r)
    BY <1>3, <2>7 DEF Commit, End
  <2> QED BY <1>6, <2>1, <2>2, <2>3, <2>4, <2>5, <2>6, <2>7 DEF Work
<1> QED BY <1>1, <1>2, <1>4, <1>5, <1>6, Arrival DEF Next

\* Every step keeps Counted: the group is marked on a count that still holds.
LEMMA CountedNext == Typed /\ Guarded /\ Counted /\ [Next]_vars => Counted'
<1> SUFFICES ASSUME Typed, Guarded, Counted, [Next]_vars PROVE Counted'
  OBVIOUS
<1>1. \A q \in Request : CountSound(req[q])'
  BY CountSoundNext DEF Counted
<1>2. ASSUME group' = "settled", NEW p \in Payment PROVE pay'[p].status = "settled"
  <2>1. CASE group = "settled"
    BY <2>1, SettledStays DEF Counted, GroupSettledIsTrue
  <2>2. ASSUME group # "settled", NEW r \in Request, Commit(r)
        PROVE  pay'[p].status = "settled"
    <3>1. req[r].mark
      BY <1>2, <2>2 DEF Commit
    <3>2. req[r].new = "settled" /\ NoneUnsettled(req[r])
      BY <3>1 DEF Counted, CountSound
    <3>3. CASE p = req[r].payment
      BY <2>2, <3>2, <3>3 DEF Commit, Typed, TypeOK
    <3>4. CASE p # req[r].payment
      BY <3>2, <3>4, NoneUnsettledStays
    <3> QED BY <3>3, <3>4
  <2> QED BY <1>2, <2>1, <2>2, OnlyCommitWrites
<1> QED BY <1>1, <1>2 DEF Counted, GroupSettledIsTrue
-----------------------------------------------------------------------------
(***************************************************************************)
(* Locks.                                                                  *)
(***************************************************************************)

LEMMA HeldInit == Init => Held
BY DEF Init, Held, RowHeld, SlotHeld

\* One request goes on; the locks it has then fit the place it is at.
LEMMA HeldOn ==
  ASSUME Typed, Held, NEW r \in Request, NEW n, req' = [req EXCEPT ![r] = n],
         \A p \in Payment :
           /\ rowLock'[p] = r => n.payment = p /\ n.pc \in {"count", "commit"}
           /\ rowLock'[p] # r => rowLock'[p] = rowLock[p]
           /\ proofLock'[p] = r =>
                n.payment = p /\ n.pc \in {"insert", "update", "count", "commit"}
           /\ proofLock'[p] # r => proofLock'[p] = proofLock[p]
  PROVE  Held'
<1>1. req \in [Request -> Txn]
  BY DEF Typed, TypeOK
<1>2. /\ rowLock \in [Payment -> Request \cup {NoOne}]
      /\ proofLock \in [Payment -> Request \cup {NoOne}]
  BY DEF Typed, TypeOK
<1>3. ASSUME NEW p \in Payment PROVE RowHeld(p)'
  BY <1>1, <1>2 DEF Held, RowHeld
<1>4. ASSUME NEW p \in Payment PROVE SlotHeld(p)'
  BY <1>1, <1>2 DEF Held, SlotHeld
<1> QED BY <1>3, <1>4 DEF Held

\* One request ends and holds nothing any more.
LEMMA HeldEnd ==
  ASSUME Typed, Held, NEW r \in Request, End(r)
  PROVE  Held'
<1>1. NoOne \notin Request
  BY PaymentsAssumption
<1>2. \A p \in Payment :
        /\ rowLock'[p] = IF rowLock[p] = r THEN NoOne ELSE rowLock[p]
        /\ proofLock'[p] = IF proofLock[p] = r THEN NoOne ELSE proofLock[p]
  BY DEF End, Released
<1>3. \A p \in Payment : rowLock'[p] # r /\ proofLock'[p] # r
  BY <1>1, <1>2
<1>4. req \in [Request -> Txn] /\ req' = [req EXCEPT ![r] = Idle]
  BY DEF Typed, TypeOK, End
<1>5. \A q \in Request \ {r} : req'[q] = req[q]
  BY <1>4
<1>6. /\ rowLock \in [Payment -> Request \cup {NoOne}]
      /\ proofLock \in [Payment -> Request \cup {NoOne}]
  BY DEF Typed, TypeOK
<1>7. ASSUME NEW p \in Payment PROVE RowHeld(p)'
  BY <1>2, <1>3, <1>5, <1>6 DEF Held, RowHeld
<1>8. ASSUME NEW p \in Payment PROVE SlotHeld(p)'
  BY <1>2, <1>3, <1>5, <1>6 DEF Held, SlotHeld
<1> QED BY <1>7, <1>8 DEF Held

\* Every step keeps Held: the slot is taken before the row, the row before the
\* commit, and both are given back with the transaction.
LEMMA HeldNext == Typed /\ Held /\ [Next]_vars => Held'
<1> SUFFICES ASSUME Typed, Held, [Next]_vars PROVE Held'
  OBVIOUS
<1>0. /\ req \in [Request -> Txn]
      /\ \A q \in Request : req[q].pc # "idle" => req[q].payment \in Payment
      /\ rowLock \in [Payment -> Request \cup {NoOne}]
      /\ proofLock \in [Payment -> Request \cup {NoOne}]
      /\ NoOne \notin Request
  BY PaymentsAssumption DEF Typed, TypeOK, Carries
<1>a. ASSUME NEW p \in Payment, NEW r \in Request
      PROVE  /\ rowLock[p] = r => req[r].payment = p /\ req[r].pc \in {"count", "commit"}
             /\ proofLock[p] = r =>
                  /\ req[r].payment = p
                  /\ req[r].pc \in {"insert", "update", "count", "commit"}
  BY <1>0 DEF Held, RowHeld, SlotHeld
<1>1. CASE UNCHANGED vars
  BY <1>1 DEF vars, locks, Held, RowHeld, SlotHeld
<1>2. CASE \E u \in Member : TransferAdmin(u)
  BY <1>2 DEF TransferAdmin, locks, Held, RowHeld, SlotHeld
<1>3. ASSUME NEW r \in Request, Rollback(r) PROVE Held'
  BY <1>3, HeldEnd DEF Rollback
<1>4. ASSUME NEW r \in Request, Fail(r) PROVE Held'
  BY <1>3, <1>4 DEF Fail
<1>5. ASSUME NEW r \in Request, NEW u \in User, NEW a \in paymentAction, NEW p \in Payment,
             NEW e \in Evidence \cup {NoOne}, Begin(r, u, a, p, e)
      PROVE  Held'
  <2>1. PICK n : req' = [req EXCEPT ![r] = n]
    BY <1>5 DEF Begin
  <2>2. req[r].pc = "idle" /\ UNCHANGED locks
    BY <1>5 DEF Begin
  <2>3. \A q \in Payment : rowLock[q] # r /\ proofLock[q] # r
    BY <1>a, <2>2
  <2> QED BY <2>1, <2>2, <2>3, HeldOn DEF locks
<1>6. ASSUME NEW r \in Request, Work(r) PROVE Held'
  <2> DEFINE t == req[r]
  <2>0. t \in Txn
    BY <1>0
  <2>1. CASE Put(r)
    <3>1. PICK n : n = [t EXCEPT !.pc = "unset"]
      OBVIOUS
    <3>2. req' = [req EXCEPT ![r] = n] /\ UNCHANGED locks /\ t.pc = "put"
      BY <2>1, <3>1 DEF Put
    <3>3. \A q \in Payment : rowLock[q] # r /\ proofLock[q] # r
      BY <1>a, <3>2
    <3> QED BY <3>2, <3>3, HeldOn DEF locks
  <2>2. CASE UnsetStart(r)
    <3>1. PICK n : n = [t EXCEPT !.pc = "unsetting", !.seen = current[t.payment]]
      OBVIOUS
    <3>2. req' = [req EXCEPT ![r] = n] /\ UNCHANGED locks /\ t.pc = "unset"
      BY <2>2, <3>1 DEF UnsetStart
    <3>3. \A q \in Payment : rowLock[q] # r /\ proofLock[q] # r
      BY <1>a, <3>2
    <3> QED BY <3>2, <3>3, HeldOn DEF locks
  <2>3. CASE UnsetFinish(r)
    <3> DEFINE still == t.seen # NoOne /\ current[t.payment] = t.seen
    <3>1. PICK n : n = [t EXCEPT !.pc = "insert", !.unset = still]
      OBVIOUS
    <3>2. /\ req' = [req EXCEPT ![r] = n] /\ rowLock' = rowLock /\ t.pc = "unsetting"
          /\ proofLock' = [proofLock EXCEPT ![t.payment] = IF still THEN r ELSE @]
      BY <2>3, <3>1 DEF UnsetFinish
    <3>3. n.pc = "insert" /\ n.payment = t.payment
      BY <2>0, <3>1 DEF Txn
    <3>4. \A q \in Payment : rowLock[q] # r /\ proofLock[q] # r
      BY <1>a, <3>2
    <3>5. \A q \in Payment :
            /\ proofLock'[q] = r => q = t.payment
            /\ proofLock'[q] # r => proofLock'[q] = proofLock[q]
      BY <1>0, <3>2, <3>4
    <3>6. \A q \in Payment :
            /\ rowLock'[q] = r => n.payment = q /\ n.pc \in {"count", "commit"}
            /\ rowLock'[q] # r => rowLock'[q] = rowLock[q]
            /\ proofLock'[q] = r =>
                 n.payment = q /\ n.pc \in {"insert", "update", "count", "commit"}
            /\ proofLock'[q] # r => proofLock'[q] = proofLock[q]
      BY <3>2, <3>3, <3>4, <3>5
    <3>7. req' = [req EXCEPT ![r] = n]
      BY <3>2
    <3> QED BY ONLY Typed, Held, r \in Request, <3>6, <3>7, HeldOn
  <2>4. CASE InsertProof(r) /\ ~Rollback(r)
    <3>1. PICK n : n = [t EXCEPT !.pc = "update"]
      OBVIOUS
    <3>2. /\ req' = [req EXCEPT ![r] = n] /\ rowLock' = rowLock /\ t.pc = "insert"
          /\ proofLock' = [proofLock EXCEPT ![t.payment] = r]
      BY <2>4, <3>1 DEF InsertProof
    <3>3. n.pc = "update" /\ n.payment = t.payment
      BY <2>0, <3>1 DEF Txn
    <3>4. \A q \in Payment : rowLock[q] # r /\ (proofLock[q] = r => q = t.payment)
      BY <1>a, <3>2
    <3>5. \A q \in Payment :
            /\ proofLock'[q] = r => q = t.payment
            /\ proofLock'[q] # r => proofLock'[q] = proofLock[q]
      BY <1>0, <3>2, <3>4
    <3>6. \A q \in Payment :
            /\ rowLock'[q] = r => n.payment = q /\ n.pc \in {"count", "commit"}
            /\ rowLock'[q] # r => rowLock'[q] = rowLock[q]
            /\ proofLock'[q] = r =>
                 n.payment = q /\ n.pc \in {"insert", "update", "count", "commit"}
            /\ proofLock'[q] # r => proofLock'[q] = proofLock[q]
      BY <3>2, <3>3, <3>4, <3>5
    <3>7. req' = [req EXCEPT ![r] = n]
      BY <3>2
    <3> QED BY ONLY Typed, Held, r \in Request, <3>6, <3>7, HeldOn
  <2>5. CASE Update(r) /\ ~Rollback(r)
    <3>1. PICK n : n = [t EXCEPT !.pc = IF t.new = "settled" THEN "count" ELSE "commit"]
      OBVIOUS
    <3>2. /\ req' = [req EXCEPT ![r] = n] /\ proofLock' = proofLock /\ t.pc = "update"
          /\ rowLock' = [rowLock EXCEPT ![t.payment] = r]
      BY <2>5, <3>1 DEF Update
    <3>3. n.pc \in {"count", "commit"} /\ n.payment = t.payment
      BY <2>0, <3>1 DEF Txn
    <3>4. \A q \in Payment : rowLock[q] # r /\ (proofLock[q] = r => q = t.payment)
      BY <1>a, <3>2
    <3>5. \A q \in Payment :
            /\ rowLock'[q] = r => q = t.payment
            /\ rowLock'[q] # r => rowLock'[q] = rowLock[q]
      BY <1>0, <3>2, <3>4
    <3> QED BY <3>2, <3>3, <3>4, <3>5, HeldOn
  <2>6. CASE Count(r)
    <3>1. PICK n : n = [t EXCEPT !.pc = "commit", !.mark = NoneUnsettled(t)]
      OBVIOUS
    <3>2. req' = [req EXCEPT ![r] = n] /\ UNCHANGED locks
      BY <2>6, <3>1 DEF Count
    <3>3. n.pc = "commit" /\ n.payment = t.payment
      BY <2>0, <3>1 DEF Txn
    <3>4. \A q \in Payment :
            /\ rowLock[q] = r => n.payment = q
            /\ proofLock[q] = r => n.payment = q
      BY <1>a, <3>3
    <3>5. rowLock' = rowLock /\ proofLock' = proofLock
      BY <3>2 DEF locks
    <3> QED BY <3>2, <3>3, <3>4, <3>5, HeldOn
  <2>7. CASE Commit(r)
    BY <2>7, HeldEnd DEF Commit
  <2> QED BY <1>3, <1>6, <2>1, <2>2, <2>3, <2>4, <2>5, <2>6, <2>7 DEF Work
<1> QED BY <1>1, <1>2, <1>4, <1>5, <1>6, Arrival DEF Next

\* Who holds the row waits for nobody; who holds the slot waits, if at all, for
\* the holder of the row.
LEMMA HoldersGoOn ==
  ASSUME Typed, Held, NEW r \in Request, NEW s \in Request, NEW p \in Payment, Waits(r, s)
  PROVE  /\ rowLock[p] # r
         /\ proofLock[p] = r => rowLock[req[r].payment] = s
<1>1. req[r].pc \in {"unsetting", "insert", "update"}
  BY DEF Waits
<1>2. NoOne \notin Request
  BY PaymentsAssumption
<1>3. rowLock[p] # r
  BY <1>1, <1>2 DEF Held, RowHeld
<1>4. ASSUME proofLock[p] = r PROVE rowLock[req[r].payment] = s
  <2>1. req[r].payment = p /\ req[r].pc \in {"insert", "update", "count", "commit"}
    BY <1>2, <1>4 DEF Held, SlotHeld
  <2> QED BY <2>1, <1>4 DEF Waits
<1> QED BY <1>3, <1>4

\* Waiting goes from no lock to the slot, from the slot to the row, and ends.
LEMMA NoCircle == Typed /\ Held => NobodyWaitsInACircle
<1> SUFFICES ASSUME Typed, Held, NEW S \in SUBSET Request, S # {},
                    \A r \in S : \E s \in S : Waits(r, s)
             PROVE  FALSE
  BY DEF NobodyWaitsInACircle
<1>1. PICK a \in S, b \in S, c \in S, d \in S : Waits(a, b) /\ Waits(b, c) /\ Waits(c, d)
  OBVIOUS
<1>2. \A r \in S : req[r].pc # "idle" => req[r].payment \in Payment
  BY DEF Typed, Carries
<1>3. req[a].payment \in Payment /\ req[b].payment \in Payment /\ req[c].payment \in Payment
  BY <1>1, <1>2 DEF Waits
<1>4. rowLock[req[a].payment] = b \/ proofLock[req[a].payment] = b
  BY <1>1 DEF Waits
<1>5. proofLock[req[a].payment] = b
  BY <1>1, <1>3, <1>4, HoldersGoOn
<1>6. rowLock[req[b].payment] = c
  BY <1>1, <1>3, <1>5, HoldersGoOn
<1> QED BY <1>1, <1>3, <1>6, HoldersGoOn
-----------------------------------------------------------------------------
(***************************************************************************)
(* The theorems.                                                           *)
(***************************************************************************)

\* The inductive invariant of Payments holds in every behaviour.
THEOREM Invariant == Spec => [](Typed /\ Guarded /\ Audited /\ Evidenced /\ Counted)
<1> DEFINE IInv == Typed /\ Guarded /\ Audited /\ Evidenced /\ Counted
<1>1. Init => IInv
  BY TypedInit, GuardedInit, AuditedInit, EvidencedInit, CountedInit
<1>2. IInv /\ [Next]_vars => IInv'
  BY TypedNext, GuardedNext, AuditedNext, EvidencedNext, CountedNext
<1> QED BY <1>1, <1>2, PTL DEF Spec

\* The tables, requests and locks keep their types.
THEOREM TypeCorrect == Spec => []TypeOK
<1>1. Typed => TypeOK
  BY DEF Typed
<1> QED BY <1>1, Invariant, PTL

\* The audit trail of each payment is one chain, an entry per version: the
\* version guard makes every transition exactly-once (transitionPayment).
THEOREM ExactlyOnce == Spec => []TrailIsChain
<1>1. Audited => TrailIsChain
  BY DEF Audited
<1> QED BY <1>1, Invariant, PTL

\* Whatever requests interleave and fail, a payment is settled by the two keys
\* and a third person's finalize, or by the global admin's override.
THEOREM TwoKeys == Spec => []TwoKeysBeforeSettled
BY ChainHasTwoKeys, Invariant, PTL

\* A claim is backed by the proof of the submission that opened it, although
\* several submissions may replace the current proof at the same time.
THEOREM ClaimsAreBacked == Spec => []ProofBacksClaim
<1>1. Evidenced => ProofBacksClaim
  BY DEF Evidenced
<1> QED BY <1>1, Invariant, PTL

\* A current proof never names an image that was not stored.
THEOREM ImagesAreStored == Spec => []ProofImageStored
<1>1. Evidenced => ProofImageStored
  BY DEF Evidenced
<1> QED BY <1>1, Invariant, PTL

\* A settled group has no open payment: the count inside one transaction is
\* never overtaken, since a settled payment stays settled.
THEOREM SettledGroupsAreSettled == Spec => []GroupSettledIsTrue
<1>1. Counted => GroupSettledIsTrue
  BY DEF Counted
<1> QED BY <1>1, Invariant, PTL

\* However many requests run, those that wait for locks never wait for each
\* other in a circle: the lock order of submissions and the other transitions.
THEOREM NoDeadlock == Spec => []NobodyWaitsInACircle
<1>1. Init => Held
  BY HeldInit
<1>2. Typed /\ Held /\ [Next]_vars => Held'
  BY HeldNext
<1>3. Typed /\ Held => NobodyWaitsInACircle
  BY NoCircle
<1>4. Spec => []Typed
  <2> DEFINE P == Guarded /\ Audited /\ Evidenced /\ Counted
  <2>1. Spec => [](Typed /\ P)
    BY Invariant
  <2> HIDE DEF P
  <2> QED BY <2>1, PTL
<1> QED BY <1>1, <1>2, <1>3, <1>4, PTL DEF Spec

\* The settlement report names who settled each payment and, but for an
\* override, the creditor as who confirmed it, whatever came before.
THEOREM ReportTells == Spec => []ReportIsTrue
BY ReportFollows, Invariant, PTL

\* Settled is terminal for every request, also one that read the payment before.
THEOREM SettledTerminal == Spec => SettledIsFinal
<1> DEFINE Stays == \A p \in Payment :
                      pay[p].status = "settled" =>
                        /\ pay'[p] = pay[p]
                        /\ trail'[p] = trail[p]
                        /\ current'[p] = current[p]
<1>1. Typed /\ Guarded /\ [Next]_vars => [Stays]_vars
  BY SettledStays
<1> QED BY <1>1, Invariant, PTL DEF Spec, SettledIsFinal
=============================================================================
