------------------------------ MODULE Payments ------------------------------
(***************************************************************************)
(* The payments of one closed group, and the requests that move them.      *)
(*                                                                         *)
(* Every request is one READ COMMITTED transaction (transitionPayment):    *)
(* each statement reads what other transactions have committed by then,    *)
(* writes stay private to the transaction until it commits, a written row  *)
(* stays locked until the transaction ends.  The model has one action per  *)
(* statement whose place in the interleaving matters.  A request may fail  *)
(* at any statement (database error, client gone, server crash): its       *)
(* transaction rolls back.                                                 *)
(***************************************************************************)
EXTENDS Integers, Sequences, PaymentRules

CONSTANTS
  User,         \* registered accounts
  Member,       \* those with an approved membership in the group
  GlobalAdmin,  \* the accounts with is_global_admin (at most one)
  Payment,      \* the payments created when the group was closed
  Debtor,       \* Debtor[p], Creditor[p]: from_user_id and to_user_id of p
  Creditor,
  Request,      \* the requests the server works on at the same time
  Evidence,     \* what a debtor can submit as a proof ...
  Image,        \* ... and the part of it that is an image, not a note
  MaxVersion,   \* bound: no payment is changed more often than this
  NoOne         \* no account, no payment, no request, no proof, no evidence

\* A row of proofs: what was submitted, and the payment's version after it.
Proof == [ev : Evidence, ver : Nat]

ASSUME PaymentsAssumption ==
  /\ Member \subseteq User
  /\ GlobalAdmin \subseteq User
  /\ Debtor \in [Payment -> Member]
  /\ Creditor \in [Payment -> Member]
  /\ \A p \in Payment : Debtor[p] # Creditor[p]
  /\ Image \subseteq Evidence
  /\ MaxVersion \in Nat
  /\ NoOne \notin User \cup Payment \cup Request \cup Evidence \cup Proof
  /\ Payment # {}

VARIABLES
  group,        \* groups.status: "closed" or "settled"
  groupAdmin,   \* the member with role group_admin
  pay,          \* payments: [status, version] of every payment
  current,      \* proofs: the row of each payment with is_current
  objects,      \* the object store: keys <<payment, evidence>> written so far
  trail,        \* audit_log: the committed entries about each payment
  req,          \* the local state of every request in progress
  rowLock,      \* which request holds the row lock of a payment
  proofLock     \* which request holds the current-proof slot of a payment

tables == <<group, groupAdmin, pay, current, objects, trail>>
locks  == <<rowLock, proofLock>>
vars   == <<tables, req, locks>>

Entry ==
  [actor : User, action : AuditAction, before : PaymentStatus, after : PaymentStatus]

Step == {"idle", "put", "unset", "unsetting", "insert",
         "update", "count", "commit"}

Txn ==
  [pc : Step, user : User \cup {NoOne}, action : paymentAction \cup {"none"},
   payment : Payment \cup {NoOne}, ev : Evidence \cup {NoOne}, actor : paymentActor,
   status : PaymentStatus, version : Nat, new : PaymentStatus \cup {Refused},
   seen : Proof \cup {NoOne}, unset : BOOLEAN, mark : BOOLEAN]

Stranger ==
  [IsDebtor |-> FALSE, IsCreditor |-> FALSE, IsGroupAdmin |-> FALSE, IsGlobalAdmin |-> FALSE]

Idle ==
  [pc |-> "idle", user |-> NoOne, action |-> "none", payment |-> NoOne, ev |-> NoOne,
   actor |-> Stranger, status |-> "pending", version |-> 0, new |-> Refused,
   seen |-> NoOne, unset |-> FALSE, mark |-> FALSE]

\* CloseGroup has just committed: it created every payment pending.
Init ==
  /\ group = "closed"
  /\ groupAdmin \in Member
  /\ pay = [p \in Payment |-> [status |-> "pending", version |-> 0]]
  /\ current = [p \in Payment |-> NoOne]
  /\ objects = {}
  /\ trail = [p \in Payment |-> << >>]
  /\ req = [r \in Request |-> Idle]
  /\ rowLock = [p \in Payment |-> NoOne]
  /\ proofLock = [p \in Payment |-> NoOne]
-----------------------------------------------------------------------------
\* The locks left when the transaction of r has ended.
Kept(lock, r) == lock

Released(lock, r) == [p \in Payment |-> IF lock[p] = r THEN NoOne ELSE lock[p]]

\* The transaction of r ends: its locks go, nothing of it stays behind.
End(r) ==
  /\ req' = [req EXCEPT ![r] = Idle]
  /\ rowLock' = Released(rowLock, r)
  /\ proofLock' = Released(proofLock, r)

Rollback(r) == End(r) /\ UNCHANGED tables

\* The caller's roles, from the payment's parties, the membership row and the
\* users row.
actorOf(u, p) ==
  [IsDebtor |-> Debtor[p] = u, IsCreditor |-> Creditor[p] = u,
   IsGroupAdmin |-> groupAdmin = u, IsGlobalAdmin |-> u \in GlobalAdmin]

\* The first write of the transition.
NoUpload(a, e) == IF a = "submit_proof" THEN "unset" ELSE "update"

FirstStep(a, e) ==
  IF a # "submit_proof" THEN "update" ELSE IF e \in Image THEN "put" ELSE "unset"

Participates(actor, new) == Participant(actor)

\* A participant, and the transition is allowed.
Accepted(actor, new) == Participant(actor) /\ new # Refused

\* A request of u arrives: resolve the caller, open the transaction, read the
\* payment and the caller's membership, decide.  A refused request changes
\* nothing.  What was read is a snapshot from here on.  (The two reads are one
\* step: had the payment changed between them, its version would no longer be
\* the one read, and Update would refuse the request.)
Begin(r, u, a, p, e) ==
  LET actor == actorOf(u, p)
      new == validatePaymentTransition(a, actor, pay[p].status)
  IN /\ req[r].pc = "idle"
     /\ pay[p].version < MaxVersion
     /\ a = "submit_proof" <=> e # NoOne
     /\ Accepted(actor, new)
     /\ req' = [req EXCEPT ![r] =
          [pc |-> FirstStep(a, e), user |-> u, action |-> a, payment |-> p, ev |-> e,
           actor |-> actor, status |-> pay[p].status, version |-> pay[p].version,
           new |-> new, seen |-> NoOne, unset |-> FALSE, mark |-> FALSE]]
     /\ UNCHANGED <<tables, locks>>

\* SubmitImageProof uploads the image before any row refers to it; the object
\* store takes no part in the transaction, a rollback leaves the object there.
Put(r) ==
  LET t == req[r] IN
  /\ t.pc = "put"
  /\ objects' = objects \cup {<<t.payment, t.ev>>}
  /\ req' = [req EXCEPT ![r] = [t EXCEPT !.pc = "unset"]]
  /\ UNCHANGED <<group, groupAdmin, pay, current, trail, locks>>

\* UnsetCurrentProof starts: the rows its WHERE matches are fixed here ...
UnsetStart(r) ==
  LET t == req[r] IN
  /\ t.pc = "unset"
  /\ req' = [req EXCEPT ![r] = [t EXCEPT !.pc = "unsetting", !.seen = current[t.payment]]]
  /\ UNCHANGED <<tables, locks>>

\* ... a matched row is locked, after waiting for its holder, and changed if
\* it still is the current one.
UnsetFinish(r) ==
  LET t == req[r]
      p == t.payment
      still == t.seen # NoOne /\ current[p] = t.seen
  IN /\ t.pc = "unsetting"
     /\ t.seen = NoOne \/ proofLock[p] = NoOne
     /\ proofLock' = [proofLock EXCEPT ![p] = IF still THEN r ELSE @]
     /\ req' = [req EXCEPT ![r] = [t EXCEPT !.pc = "insert", !.unset = still]]
     /\ UNCHANGED <<tables, rowLock>>

\* CreateProof: the unique index one_current_proof_per_payment makes it wait
\* for an open transaction on the slot, and fail on a committed row.
InsertProof(r) ==
  LET t == req[r]
      p == t.payment
  IN /\ t.pc = "insert"
     /\ proofLock[p] \in {NoOne, r}
     /\ IF t.unset \/ current[p] = NoOne
        THEN /\ proofLock' = [proofLock EXCEPT ![p] = r]
             /\ req' = [req EXCEPT ![r] = [t EXCEPT !.pc = "update"]]
             /\ UNCHANGED <<tables, rowLock>>
        ELSE Rollback(r)

\* The version guard of TransitionPayment.
Unguarded(t) == TRUE

Fresh(t) == pay[t.payment].version = t.version

\* TransitionPayment, guarded by the version read at the start, after waiting
\* for a transaction that holds the row; the audit entry goes with it.
Update(r) ==
  LET t == req[r]
      p == t.payment
  IN /\ t.pc = "update"
     /\ rowLock[p] = NoOne
     /\ IF Fresh(t)
        THEN /\ rowLock' = [rowLock EXCEPT ![p] = r]
             /\ req' = [req EXCEPT ![r] =
                  [t EXCEPT !.pc = IF t.new = "settled" THEN "count" ELSE "commit"]]
             /\ UNCHANGED <<tables, proofLock>>
        ELSE Rollback(r)

\* CountUnsettledPayments is zero: it sees this transaction's own update and
\* what the others have committed.
NonePending(t) == \A q \in Payment \ {t.payment} : pay[q].status # "pending"

NoneUnsettled(t) == \A q \in Payment \ {t.payment} : pay[q].status = "settled"

\* The count, and MarkGroupSettled if it is zero.
Count(r) ==
  LET t == req[r] IN
  /\ t.pc = "count"
  /\ req' = [req EXCEPT ![r] = [t EXCEPT !.pc = "commit", !.mark = NoneUnsettled(t)]]
  /\ UNCHANGED <<tables, locks>>

\* The proof that is current once t has committed.
FirstProofStays(t) ==
  IF t.action = "submit_proof" /\ current[t.payment] = NoOne
  THEN [ev |-> t.ev, ver |-> t.version + 1] ELSE current[t.payment]

CurrentAfter(t) ==
  IF t.action = "submit_proof" THEN [ev |-> t.ev, ver |-> t.version + 1]
  ELSE current[t.payment]

EntryOf(t) ==
  [actor |-> t.user, action |-> auditActionFor(t.action, t.actor, t.status),
   before |-> t.status, after |-> t.new]

Commit(r) ==
  LET t == req[r]
      p == t.payment
  IN /\ t.pc = "commit"
     /\ pay' = [pay EXCEPT ![p] = [status |-> t.new, version |-> @.version + 1]]
     /\ current' = [current EXCEPT ![p] = CurrentAfter(t)]
     /\ trail' = [trail EXCEPT ![p] = Append(@, EntryOf(t))]
     /\ group' = IF t.mark THEN "settled" ELSE group
     /\ End(r)
     /\ UNCHANGED <<groupAdmin, objects>>

\* Any statement, or the commit itself, may fail.
Fail(r) == req[r].pc # "idle" /\ Rollback(r)

\* TransferAdmin commits (modelled in full by module Trip).
TransferAdmin(u) ==
  /\ u # groupAdmin
  /\ groupAdmin' = u
  /\ UNCHANGED <<group, pay, current, objects, trail, req, locks>>

\* GetProofImage: the current proof is looked up, and an image is fetched.
IsImage(p) == current[p] # NoOne /\ current[p].ev \in Image

Fetched(p) == <<p, current[p].ev>> \in objects

\* The routes of the payment handlers.
PostProof(r) ==
  \E u \in User, p \in Payment, e \in Evidence : Begin(r, u, "submit_proof", p, e)

PostConfirm(r) == \E u \in User, p \in Payment : Begin(r, u, "confirm", p, NoOne)

PostDispute(r) == \E u \in User, p \in Payment : Begin(r, u, "dispute", p, NoOne)

PostFinalize(r) == \E u \in User, p \in Payment : Begin(r, u, "finalize", p, NoOne)

PostReject(r) == \E u \in User, p \in Payment : Begin(r, u, "reject", p, NoOne)

Arrive(r) ==
  PostProof(r) \/ PostConfirm(r) \/ PostDispute(r) \/ PostFinalize(r) \/ PostReject(r)

Work(r) ==
  \/ Put(r) \/ UnsetStart(r) \/ UnsetFinish(r) \/ InsertProof(r)
  \/ Update(r) \/ Count(r) \/ Commit(r)

Next ==
  \/ \E r \in Request : Arrive(r) \/ Work(r) \/ Fail(r)
  \/ \E u \in Member : TransferAdmin(u)

Spec == Init /\ [][Next]_vars

\* The server runs every request it has accepted, and the database hands a
\* lock to waiting transactions in turn; nobody has to send a request.
FairSpec == Spec /\ \A r \in Request : SF_vars(Work(r))
-----------------------------------------------------------------------------
(***************************************************************************)
(* Properties.                                                             *)
(***************************************************************************)

\* Type invariant: the tables, the requests and the locks keep their shape.
TypeOK ==
  /\ group \in {"closed", "settled"}
  /\ groupAdmin \in Member
  /\ pay \in [Payment -> [status : PaymentStatus, version : Nat]]
  /\ current \in [Payment -> Proof \cup {NoOne}]
  /\ objects \subseteq Payment \X Evidence
  /\ trail \in [Payment -> Seq(Entry)]
  /\ req \in [Request -> Txn]
  /\ rowLock \in [Payment -> Request \cup {NoOne}]
  /\ proofLock \in [Payment -> Request \cup {NoOne}]

\* The comment on transitionPayment: the version guard makes every transition
\* exactly-once.  However requests interleave and fail, each payment's audit
\* trail is one unbroken chain from pending to its present status, one entry
\* per version: no transition is lost, repeated or applied to a stale status.
TrailIsChain ==
  \A p \in Payment :
    LET t == trail[p] IN
    /\ Len(t) = pay[p].version
    /\ \A i \in 1..Len(t) :
         t[i].before = IF i = 1 THEN "pending" ELSE t[i - 1].after
    /\ pay[p].status = IF t = << >> THEN "pending" ELSE t[Len(t)].after

\* README, two-key confirmation: a payment settled without an override has,
\* right before, the creditor's confirmation and the debtor's proof, and was
\* finalized by somebody else than its debtor.
TwoKeysBeforeSettled ==
  \A p \in Payment :
    LET t == trail[p]
        n == Len(t)
    IN pay[p].status = "settled" =>
         /\ t[n].actor # Debtor[p]
         /\ \/ t[n].action = "payment.settled.override" /\ t[n].actor \in GlobalAdmin
            \/ /\ n >= 3
               /\ t[n - 1].action = "payment.creditor_confirmed"
               /\ t[n - 1].actor = Creditor[p]
               /\ t[n - 2].action = "payment.proof_submitted"
               /\ t[n - 2].actor = Debtor[p]

\* A payment under claim has a current proof, the very one inserted by the
\* submission that opened the claim: the creditor never confirms, and the
\* admin never finalizes, against a proof left over from an earlier claim.
ProofBacksClaim ==
  \A p \in Payment :
    LET since == IF pay[p].status = "proof_submitted" THEN pay[p].version
                 ELSE pay[p].version - 1
    IN pay[p].status \in {"proof_submitted", "creditor_confirmed"} =>
         current[p] # NoOne /\ current[p].ver = since

\* GetProofImage can always fetch what the current row names: an image is in
\* the object store before a committed proof refers to it.
ProofImageStored ==
  \A p \in Payment : IsImage(p) => Fetched(p)

\* The report is served for a settled group only (report.go): then no payment
\* of the group is open, though the count ran inside one transaction.
GroupSettledIsTrue ==
  group = "settled" => \A p \in Payment : pay[p].status = "settled"

\* Settled is terminal, also for requests that read the payment before it was.
SettledIsFinal ==
  [][\A p \in Payment :
       pay[p].status = "settled" =>
         /\ pay'[p] = pay[p]
         /\ trail'[p] = trail[p]
         /\ current'[p] = current[p]]_vars

\* The transaction of r cannot go on before that of s ends: s holds the row it
\* is about to write, or the slot of the current proof.
Waits(r, s) ==
  LET t == req[r] IN
  \/ t.pc = "update" /\ rowLock[t.payment] = s
  \/ t.pc = "unsetting" /\ t.seen # NoOne /\ proofLock[t.payment] = s
  \/ t.pc = "insert" /\ proofLock[t.payment] = s /\ s # r

\* A submission takes the proof slot and then the payment row, the other
\* requests take the row alone: among any requests one waits for none of the
\* others, so PostgreSQL never finds a deadlock to break.
NobodyWaitsInACircle ==
  \A S \in SUBSET Request : S # {} => \E r \in S : \A s \in S : ~Waits(r, s)

\* Every request that was begun ends, with an answer or an error, however many
\* others take the locks it waits for.
RequestsEnd == \A r \in Request : req[r].pc # "idle" ~> req[r].pc = "idle"

\* README, step 9 of the day: once every payment is settled the report can be
\* pulled, which needs the group to be settled too.
SettledGroupFollows ==
  (\A p \in Payment : pay[p].status = "settled") ~> group = "settled"

\* The columns "Confirmed by" and "Finalized by" of the settlement report: the
\* audit trail is read in order, a later entry replaces an earlier one.
LastActor(t, actions) ==
  LET at == {k \in 1..Len(t) : t[k].action \in actions}
  IN IF at = {} THEN NoOne ELSE t[CHOOSE k \in at : \A l \in at : l <= k].actor

confirmedBy(p) == LastActor(trail[p], {"payment.creditor_confirmed"})

ExactlySettled(p) == LastActor(trail[p], {"payment.settled"})

finalizedBy(p) == LastActor(trail[p], {"payment.settled", "payment.settled.override"})

\* report.go: served once the group is settled, it names for every payment who
\* really settled it, never the debtor, and the creditor as who confirmed,
\* unless the global admin settled over its head.
ReportIsTrue ==
  group = "settled" => \A p \in Payment :
    LET last == trail[p][Len(trail[p])] IN
    /\ last.after = "settled"
    /\ finalizedBy(p) = last.actor /\ last.actor # Debtor[p]
    /\ confirmedBy(p) = Creditor[p] \/ last.action = "payment.settled.override"

\* The keys of TwoKey, read off the audit trail the way report.go reads who
\* confirmed: who vouched for the payment since it was last thrown back.
KeysFrom(t) ==
  {t[i].actor : i \in {k \in 1..Len(t) :
     /\ t[k].after \in {"proof_submitted", "creditor_confirmed"}
     /\ \A l \in k..Len(t) : t[l].after # "disputed"}}

Abstract == INSTANCE TwoKey WITH
  settled <- {p \in Payment : pay[p].status = "settled"},
  keys <- [p \in Payment |-> KeysFrom(trail[p])]

\* The transactions implement the two-key promise.
ImplementsTwoKey == Abstract!Spec
=============================================================================
