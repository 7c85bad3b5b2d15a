------------------------------- MODULE Nudges -------------------------------
(***************************************************************************)
(* The payments of a closed group together with the reminders about them.  *)
(*                                                                         *)
(* A run of RunNudges is a request of its own: it lists the payments that  *)
(* did not move for some hours, then reminds, statement by statement and   *)
(* without a transaction, whoever holds each of them up.  Meanwhile time   *)
(* passes, the payments move, and other runs list and remind.              *)
(***************************************************************************)
EXTENDS Payments

CONSTANTS
  Runner,      \* the reminder runs the server works on at the same time
  Hours,       \* the thresholds asked for (0 to 720 in the code)
  MaxClock     \* bound: the hours that pass

ASSUME NudgesAssumption ==
  /\ Hours \subseteq 0..720
  /\ MaxClock \in Nat
  /\ NoOne \notin Nat \cup Runner

VARIABLES
  clock,       \* now(), in hours
  began,       \* now() of the transaction of each request in progress
  touched,     \* payments.updated_at
  notified,    \* notifications.last_sent_at of a payment's debtor and creditor
  run          \* the local state of every run in progress, or NoOne

reminders == <<notified, run>>
times     == <<began, touched>>
allVars   == <<vars, clock, times, reminders>>

\* nudge_type: the recipient is the debtor or the creditor of the payment.
NudgeType == {"debtor", "creditor"}

Key == Payment \X NudgeType

Stalled == {"pending", "proof_submitted"}

NudgesInit ==
  /\ Init
  /\ clock = 0
  /\ began = [r \in Request |-> NoOne]
  /\ touched = [p \in Payment |-> 0]
  /\ notified = [k \in Key |-> NoOne]
  /\ run = [n \in Runner |-> NoOne]
-----------------------------------------------------------------------------
Receive(r) ==
  /\ Arrive(r)
  /\ began' = [began EXCEPT ![r] = clock]
  /\ UNCHANGED <<clock, touched, reminders>>

Leaves(r) == began' = [began EXCEPT ![r] = IF req'[r].pc = "idle" THEN NoOne ELSE @]

\* A transition sets updated_at to now(), which is when its transaction began.
Serve(r) ==
  /\ Work(r)
  /\ touched' = [p \in Payment |-> IF pay'[p] # pay[p] THEN began[r] ELSE touched[p]]
  /\ Leaves(r)
  /\ UNCHANGED <<clock, reminders>>

Break(r) == Fail(r) /\ Leaves(r) /\ UNCHANGED <<clock, touched, reminders>>

PromoteMember(u) == TransferAdmin(u) /\ UNCHANGED <<clock, times, reminders>>

Tick ==
  /\ clock < MaxClock
  /\ clock' = clock + 1
  /\ UNCHANGED <<vars, times, reminders>>
-----------------------------------------------------------------------------
Idles(p, h) == touched[p] < clock - h

ListStalePayments(h) == {p \in Payment : pay[p].status \in Stalled /\ Idles(p, h)}

\* Whom to remind: the debtor has to submit a proof, the creditor to confirm it.
NudgeOf(p) == <<p, IF pay[p].status = "pending" THEN "debtor" ELSE "creditor">>

\* RunNudges, by an admin of the group, lists what is stale; was is a ghost.
RunNudges(n, u, h) ==
  /\ run[n] = NoOne
  /\ u = groupAdmin \/ u \in GlobalAdmin
  /\ run' = [run EXCEPT ![n] =
       [hours |-> h, at |-> clock, todo |-> {NudgeOf(p) : p \in ListStalePayments(h)},
        was |-> pay]]
  /\ UNCHANGED <<vars, clock, times, notified>>

\* UpsertNudge: insert, or update what was sent long enough ago, or nothing.
DueOnce(k, h) == notified[k] = NoOne

Due(k, h) == notified[k] = NoOne \/ notified[k] < clock - h

UpsertNudge(n, k) ==
  /\ run[n] # NoOne /\ k \in run[n].todo
  /\ notified' = IF Due(k, run[n].hours) THEN [notified EXCEPT ![k] = clock] ELSE notified
  /\ run' = [run EXCEPT ![n].todo = @ \ {k}]
  /\ UNCHANGED <<vars, clock, times>>

Answer(n) ==
  /\ run[n] # NoOne /\ run[n].todo = {}
  /\ run' = [run EXCEPT ![n] = NoOne]
  /\ UNCHANGED <<vars, clock, times, notified>>

\* A statement of a run fails: what it has sent stays sent.
NudgeFails(n) ==
  /\ run[n] # NoOne /\ run[n].todo # {}
  /\ run' = [run EXCEPT ![n] = NoOne]
  /\ UNCHANGED <<vars, clock, times, notified>>

PostNudges(n) == \E u \in User, h \in Hours : RunNudges(n, u, h)

Remind(n) == Answer(n) \/ \E k \in Key : UpsertNudge(n, k)

NudgesNext ==
  \/ \E r \in Request : Receive(r) \/ Serve(r) \/ Break(r)
  \/ \E u \in Member : PromoteMember(u)
  \/ \E n \in Runner : PostNudges(n) \/ Remind(n) \/ NudgeFails(n)
  \/ Tick

NudgesSpec == NudgesInit /\ [][NudgesNext]_allVars
-----------------------------------------------------------------------------
(***************************************************************************)
(* Properties.                                                             *)
(***************************************************************************)

\* Type invariant of what is added to Payments.
NudgesTypeOK ==
  /\ TypeOK
  /\ clock \in 0..MaxClock
  /\ began \in [Request -> 0..MaxClock \cup {NoOne}]
  /\ touched \in [Payment -> 0..MaxClock]
  /\ notified \in [Key -> 0..MaxClock \cup {NoOne}]
  /\ run \in [Runner -> [hours : Hours, at : 0..MaxClock, todo : SUBSET Key,
                         was : [Payment -> [status : PaymentStatus, version : Nat]]]
                        \cup {NoOne}]

\* nudges.go: a run that ends without an error has seen to every payment that
\* was stale when it began and has not moved since: whoever holds it up was
\* reminded within the threshold, by this run or by another.
NobodyStalledIsMissed ==
  [][\A n \in Runner :
       run[n] # NoOne /\ run[n].todo = {} /\ run'[n] = NoOne =>
         \A p \in Payment :
           /\ pay[p] = run[n].was[p]
           /\ pay[p].status \in Stalled
           /\ touched[p] < run[n].at - run[n].hours
           => /\ notified[NudgeOf(p)] # NoOne
              /\ notified[NudgeOf(p)] >= run[n].at - run[n].hours]_allVars
=============================================================================
