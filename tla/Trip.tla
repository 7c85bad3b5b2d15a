-------------------------------- MODULE Trip --------------------------------
(***************************************************************************)
(* One group from its creation to its settlement: memberships, dates,      *)
(* expenses, the transfer of the admin role, the close and the summary, as *)
(* concurrent requests.                                                    *)
(*                                                                         *)
(* A statement that runs outside a transaction (every read before Begin,   *)
(* all of RequestToJoin and RemoveMember) is an action of its own.  A      *)
(* transaction is split where another request can come between two of its  *)
(* statements and be noticed.  Locks on the group row: expense operations  *)
(* take it FOR SHARE, the close FOR UPDATE, an update of the group waits   *)
(* for both, and an insert that refers to it (membership, audit entry) for *)
(* a close.  An edit of an expense holds that expense's row as well.       *)
(***************************************************************************)
EXTENDS Settlement

CONSTANTS
  User,         \* registered, verified accounts, in the order of their ids
  GlobalAdmin,  \* those with is_global_admin
  Creator,      \* who created the group
  Request,      \* the requests the server works on at the same time
  Amount,       \* the amounts of an expense
  Shares,       \* the share lists of an expense: weights of named users
  Day,          \* the days an expense is for
  Dates,        \* the dates a group is given: <<start_date, end_date>>
  MaxRow,       \* bound: no more membership rows than this are ever created
  MaxExpense,   \* bound: no more expenses than this are ever recorded
  None

\* What the requests' Validate lets through.
ValidShares(s) == DOMAIN s \subseteq User /\ \A u \in DOMAIN s : s[u] \in 1..1000

ValidDates(d) == d[1] <= d[2]

ASSUME TripAssumption ==
  /\ User \subseteq Nat /\ IsFiniteSet(User)
  /\ GlobalAdmin \subseteq User
  /\ Creator \in User
  /\ Amount \subseteq Nat \ {0}
  /\ Day \subseteq Nat
  /\ Dates \subseteq Nat \X Nat /\ Dates # {} /\ \A d \in Dates : ValidDates(d)
  /\ \A s \in Shares : ValidShares(s)
  /\ MaxRow \in Nat \ {0} /\ MaxExpense \in Nat
  /\ None \notin Nat \cup User \cup Request

VARIABLES
  status,     \* groups.status
  dates,      \* groups.start_date and end_date
  member,     \* memberships: the row [id, role, st] of each user, or None
  rows,       \* how many membership rows were ever created (the last id)
  expenses,   \* expenses, in the order they were recorded
  audited,    \* audit_log: what its entries about expenses add up to
  runs,       \* settlement_runs: no row, or the one with the snapshot and plan
  req,        \* the local state of every request in progress
  closer,     \* the request that holds the group row FOR UPDATE, or None
  sharers     \* the requests that hold the group row FOR SHARE

books  == <<expenses, audited>>
tables == <<status, dates, member, rows, books, runs>>
vars   == <<tables, req, closer, sharers>>

GroupStatus == {"open", "closed", "settled"}
MembershipStatus == {"requested", "approved", "rejected"}

Row == [id : 1..MaxRow, role : {"group_admin", "member"}, st : MembershipStatus]

ASSUME RowAssumption == None \notin Row

Expense == [payer : 1..MaxRow, paidBy : User, amount : Amount, on : Day, shares : Shares,
            live : BOOLEAN]

Idle == [pc |-> "idle"]

Init ==
  /\ status = "open"
  /\ dates \in Dates
  /\ member = [u \in User |->
       IF u = Creator THEN [id |-> 1, role |-> "group_admin", st |-> "approved"] ELSE None]
  /\ rows = 1
  /\ expenses = << >> /\ audited = 0
  /\ runs = << >>
  /\ req = [r \in Request |-> Idle]
  /\ closer = None
  /\ sharers = {}
-----------------------------------------------------------------------------
HasRow(u) == member[u] # None

Approved(u) == HasRow(u) /\ member[u].st = "approved"

ApprovedMembers == {u \in User : Approved(u)}

Admins == {u \in User : HasRow(u) /\ member[u].role = "group_admin"}

\* RequireGroupRole(group_admin): the global admin passes without a row.
IsAdmin(u) == u \in GlobalAdmin \/ (Approved(u) /\ member[u].role = "group_admin")

Live == Restrict(expenses, {k \in DOMAIN expenses : expenses[k].live})

Total ==
  SumFunction([k \in DOMAIN expenses |-> IF expenses[k].live THEN expenses[k].amount ELSE 0])

End(r) ==
  /\ req' = [req EXCEPT ![r] = Idle]
  /\ closer' = IF closer = r THEN None ELSE closer
  /\ sharers' = sharers \ {r}

Rollback(r) == End(r) /\ UNCHANGED tables

\* A request reads and goes on: local becomes its state.
Goes(r, local) ==
  /\ req' = [req EXCEPT ![r] = local]
  /\ UNCHANGED <<tables, closer, sharers>>
-----------------------------------------------------------------------------
\* RequestToJoin: the status is read, then the row is inserted, no lock and no
\* transaction around the two.
JoinRead(r, u) ==
  /\ req[r] = Idle
  /\ status = "open"
  /\ rows < MaxRow
  /\ Goes(r, [pc |-> "join", user |-> u])

JoinInsert(r) ==
  LET u == req[r].user IN
  /\ req[r].pc = "join"
  /\ closer = None
  /\ rows < MaxRow
  /\ IF HasRow(u) THEN Rollback(r)
     ELSE /\ member' = [member EXCEPT ![u] =
               [id |-> rows + 1, role |-> "member", st |-> "requested"]]
          /\ rows' = rows + 1
          /\ End(r)
          /\ UNCHANGED <<status, dates, books, runs>>

\* ApproveMember, RejectMember: the caller's role is read before the
\* transaction; the update asks for a pending request and nothing else.
DecideRead(r, a, t, d) ==
  /\ req[r] = Idle
  /\ IsAdmin(a)
  /\ Goes(r, [pc |-> "decide", target |-> t, decision |-> d])

Decide(r) ==
  LET t == req[r].target IN
  /\ req[r].pc = "decide"
  /\ closer = None
  /\ IF HasRow(t) /\ member[t].st = "requested"
     THEN /\ member' = [member EXCEPT ![t].st = req[r].decision]
          /\ End(r)
          /\ UNCHANGED <<status, dates, rows, books, runs>>
     ELSE Rollback(r)

\* TransferAdmin: caller and target are read before the transaction.
TransferRead(r, a, t) ==
  /\ req[r] = Idle
  /\ IsAdmin(a)
  /\ Approved(t) /\ member[t].role = "member"
  /\ Goes(r, [pc |-> "transfer", target |-> t])

\* The memberships with the role taken from everybody and given to t.
OnlyPromoted(t) == [member EXCEPT ![t].role = "group_admin"]

Promoted(t) ==
  [u \in User |->
     IF HasRow(u) THEN [member[u] EXCEPT !.role = IF u = t THEN "group_admin" ELSE "member"]
     ELSE None]

\* Demote must find an admin and promote an approved member, else all is undone.
AnyRow(t) == Admins # {} /\ HasRow(t)

Transferable(t) == Admins # {} /\ Approved(t)

TransferAdmin(r) ==
  LET t == req[r].target IN
  /\ req[r].pc = "transfer"
  /\ closer = None
  /\ IF Transferable(t)
     THEN /\ member' = Promoted(t)
          /\ End(r)
          /\ UNCHANGED <<status, dates, rows, books, runs>>
     ELSE Rollback(r)

\* RemoveMember: caller, target, expenses and shares are read one after the
\* other, then the row is deleted by its id; no transaction, no lock.
RemoveRead(r, a, t) ==
  /\ req[r] = Idle
  /\ a = t \/ IsAdmin(a)
  /\ HasRow(t) /\ member[t].role # "group_admin"
  /\ Goes(r, [pc |-> "check", target |-> t, id |-> member[t].id])

\* Deleted expenses count for the payer, not for the participants.
HasExpenses(id) == \E k \in DOMAIN expenses : expenses[k].payer = id

HasShares(u) == \E k \in DOMAIN expenses : expenses[k].live /\ u \in DOMAIN expenses[k].shares

SharesIgnored(id, u) == HasExpenses(id)

Involved(id, u) == HasExpenses(id) \/ HasShares(u)

RemoveCheck(r) ==
  /\ req[r].pc = "check"
  /\ IF Involved(req[r].id, req[r].target) THEN Rollback(r)
     ELSE Goes(r, [req[r] EXCEPT !.pc = "delete"])

\* The settlement of the group, once there is one, and who is named in it.
HasRun == runs # << >>

run == runs[1]

Parties == IF ~HasRun THEN {} ELSE
  {run.plan[k].From : k \in DOMAIN run.plan} \cup {run.plan[k].To : k \in DOMAIN run.plan}

\* The foreign keys of expenses and payments refuse the deletion of a row they
\* refer to.
NeverReferred(id, u) == FALSE

Referred(id, u) == HasExpenses(id) \/ u \in Parties

RemoveDelete(r) ==
  LET t == req[r].target IN
  /\ req[r].pc = "delete"
  /\ IF HasRow(t) /\ member[t].id = req[r].id /\ ~Referred(req[r].id, t)
     THEN /\ member' = [member EXCEPT ![t] = None]
          /\ End(r)
          /\ UNCHANGED <<status, dates, rows, books, runs>>
     ELSE Rollback(r)
-----------------------------------------------------------------------------
\* The group row FOR SHARE: wait for a close in progress, then see its status.
WaitsForNobody == TRUE

NoClose == closer = None

\* LockGroupForExpense: the day is compared with the dates seen under the lock.
InRange(day) == dates[1] <= day /\ day <= dates[2]

\* RecordExpense: lock, check the group, the caller and the participants ...
RecordCheck(r, u, amount, day, shares) ==
  /\ req[r] = Idle
  /\ Len(expenses) < MaxExpense
  /\ NoClose
  /\ status = "open"
  /\ InRange(day)
  /\ Approved(u)
  /\ \A v \in DOMAIN shares : Approved(v)
  /\ req' = [req EXCEPT ![r] =
       [pc |-> "record", expense |->
          [payer |-> member[u].id, paidBy |-> u, amount |-> amount, on |-> day,
           shares |-> shares, live |-> TRUE]]]
  /\ sharers' = sharers \cup {r}
  /\ UNCHANGED <<tables, closer>>

\* ... then insert; the payer's membership is a foreign key, the participants'
\* are not; and log the amount.
Record(r) ==
  LET e == req[r].expense IN
  /\ req[r].pc = "record"
  /\ Len(expenses) < MaxExpense
  /\ IF HasRow(e.paidBy) /\ member[e.paidBy].id = e.payer
     THEN /\ expenses' = Append(expenses, e)
          /\ audited' = audited + e.amount
          /\ End(r)
          /\ UNCHANGED <<status, dates, member, rows, runs>>
     ELSE Rollback(r)

\* LockExpenseForUpdate: wait for another edit of the expense, then see whether
\* it is there, and its amount.
WhateverIsEdited(k) == TRUE

RowIsFree(k) == \A r \in Request : req[r].pc \in {"edit", "drop"} => req[r].row # k

\* The caller's own expense, not deleted, while the group is open.
Editable(u, k) ==
  /\ NoClose /\ status = "open"
  /\ RowIsFree(k) /\ expenses[k].live /\ expenses[k].paidBy = u

Holds(r, local) ==
  /\ req' = [req EXCEPT ![r] = local]
  /\ sharers' = sharers \cup {r}
  /\ UNCHANGED <<tables, closer>>

\* UpdateExpense: lock and check, then update, and log what the amount was and is.
UpdateCheck(r, u, k, amount, day) ==
  /\ req[r] = Idle
  /\ InRange(day)
  /\ Editable(u, k)
  /\ Holds(r, [pc |-> "edit", row |-> k, old |-> expenses[k].amount,
               amount |-> amount, on |-> day])

Edited(q) == [expenses EXCEPT ![q.row].amount = q.amount, ![q.row].on = q.on]

UpdateExpense(r) ==
  LET q == req[r] IN
  /\ q.pc = "edit"
  /\ expenses' = Edited(q)
  /\ audited' = audited - q.old + q.amount
  /\ End(r)
  /\ UNCHANGED <<status, dates, member, rows, runs>>

\* DeleteExpense: the same, whatever day it is for.
DeleteCheck(r, u, k) ==
  /\ req[r] = Idle
  /\ Editable(u, k)
  /\ Holds(r, [pc |-> "drop", row |-> k, old |-> expenses[k].amount])

Dropped(q) == [expenses EXCEPT ![q.row].live = FALSE]

DeleteExpense(r) ==
  LET q == req[r] IN
  /\ q.pc = "drop"
  /\ expenses' = Dropped(q)
  /\ audited' = audited - q.old
  /\ End(r)
  /\ UNCHANGED <<status, dates, member, rows, runs>>
-----------------------------------------------------------------------------
\* The group row FOR UPDATE, or to be updated: nobody else holds it.
OnlyOneClose == closer = None

Unlocked == closer = None /\ sharers = {}

\* UpdateGroup: role and status are read first; the update then waits for the
\* locks on the group row and asks for an open group again.
UpdateRead(r, a, d) ==
  /\ req[r] = Idle
  /\ IsAdmin(a)
  /\ status = "open"
  /\ Goes(r, [pc |-> "update", dates |-> d])

UpdateOpenGroup(r) ==
  /\ req[r].pc = "update"
  /\ Unlocked
  /\ IF status = "open"
     THEN /\ dates' = req[r].dates
          /\ End(r)
          /\ UNCHANGED <<status, member, rows, books, runs>>
     ELSE Rollback(r)

\* CloseGroup: the role is read first, outside the transaction ...
CloseRead(r, a) ==
  /\ req[r] = Idle
  /\ IsAdmin(a)
  /\ Goes(r, [pc |-> "lock"])

\* ... the group row is locked FOR UPDATE, after the holders of a share, and
\* its status looked at under the lock; the approved members are listed ...
CloseLock(r) ==
  /\ req[r].pc = "lock"
  /\ Unlocked
  /\ IF status = "open"
     THEN /\ req' = [req EXCEPT ![r] = [pc |-> "close", members |-> ApprovedMembers]]
          /\ closer' = r
          /\ UNCHANGED <<tables, sharers>>
     ELSE Rollback(r)

ReadTwice(members) ==
  LET net == Balances(ApprovedMembers, Live)
  IN [members |-> members, net |-> net, plan |-> computePlan(net), total |-> Total]

Settlement(members) ==
  LET net == Balances(members, Live)
  IN [members |-> members, net |-> net, plan |-> computePlan(net), total |-> Total]

\* ... the expenses are summed, the plan made; the payments' foreign keys need
\* a membership row for every party; an empty plan settles the group.
Close(r) ==
  LET s == Settlement(req[r].members)
      parties == {s.plan[k].From : k \in DOMAIN s.plan}
                   \cup {s.plan[k].To : k \in DOMAIN s.plan}
  IN /\ req[r].pc = "close"
     /\ IF ~HasRun /\ \A u \in parties : HasRow(u)
        THEN /\ runs' = <<s>>
             /\ status' = IF s.plan = << >> THEN "settled" ELSE "closed"
             /\ End(r)
             /\ UNCHANGED <<dates, member, rows, books>>
        ELSE Rollback(r)

\* The last payment is settled (module Payments).
SettlePayments ==
  /\ status = "closed"
  /\ status' = "settled"
  /\ UNCHANGED <<dates, member, rows, books, runs, req, closer, sharers>>
-----------------------------------------------------------------------------
\* GroupSummary: the status is read first, then what was paid, then what the
\* shares are of, each by a statement of its own; then it is answered.
SummaryRead(r, u) ==
  /\ req[r] = Idle
  /\ u \in GlobalAdmin \/ Approved(u)
  /\ Goes(r, [pc |-> "paid", status |-> status])

SummaryPaid(r) ==
  /\ req[r].pc = "paid"
  /\ Goes(r, [pc |-> "allocated", status |-> req[r].status, paid |-> Total])

StatusNow(q) == status

StatusRead(q) == q.status

SummaryAllocated(r) ==
  /\ req[r].pc = "allocated"
  /\ Goes(r, [pc |-> "answer", status |-> StatusRead(req[r]), paid |-> req[r].paid,
              allocated |-> Total])

Answer(r) == req[r].pc = "answer" /\ Rollback(r)

\* PublicGroupStatus: status and total in one statement.
PublicGroupStatus == [status |-> status, total |-> Total]

\* GetSettlementPlan, of a group that is not open: the payments and the snapshot.
GetSettlementPlan == IF status = "open" THEN << >> ELSE runs

\* Any statement may fail; an open transaction is rolled back.
Fail(r) == req[r] # Idle /\ Rollback(r)
-----------------------------------------------------------------------------
\* The routes of the router, by the handlers that serve them.
PutGroup(r) == \E u \in User, d \in Dates : UpdateRead(r, u, d)

PostClose(r) == \E u \in User : CloseRead(r, u)

PostJoin(r) == \E u \in User : JoinRead(r, u)

PostMembers(r) ==
  \E u, t \in User, d \in {"approved", "rejected"} : DecideRead(r, u, t, d)

PostTransferAdmin(r) == \E u, t \in User : TransferRead(r, u, t)

DeleteMembers(r) == \E u, t \in User : RemoveRead(r, u, t)

PostExpenses(r) ==
  \E u \in User, amount \in Amount, day \in Day, shares \in Shares :
    RecordCheck(r, u, amount, day, shares)

PutExpenses(r) ==
  \E u \in User, k \in DOMAIN expenses, amount \in Amount, day \in Day :
    UpdateCheck(r, u, k, amount, day)

DeleteExpenses(r) == \E u \in User, k \in DOMAIN expenses : DeleteCheck(r, u, k)

GetSummary(r) == \E u \in User : SummaryRead(r, u)

Arrive(r) ==
  \/ PutGroup(r) \/ PostClose(r)
  \/ PostJoin(r) \/ PostMembers(r) \/ PostTransferAdmin(r) \/ DeleteMembers(r)
  \/ PostExpenses(r) \/ PutExpenses(r) \/ DeleteExpenses(r)
  \/ GetSummary(r)

Work(r) ==
  \/ JoinInsert(r) \/ Decide(r) \/ TransferAdmin(r)
  \/ RemoveCheck(r) \/ RemoveDelete(r)
  \/ Record(r) \/ UpdateExpense(r) \/ DeleteExpense(r)
  \/ UpdateOpenGroup(r) \/ CloseLock(r) \/ Close(r)
  \/ SummaryPaid(r) \/ SummaryAllocated(r) \/ Answer(r)

Next ==
  \/ \E r \in Request : Arrive(r) \/ Work(r) \/ Fail(r)
  \/ SettlePayments

Spec == Init /\ [][Next]_vars
-----------------------------------------------------------------------------
(***************************************************************************)
(* Properties.                                                             *)
(***************************************************************************)

\* Type invariant.
TypeOK ==
  /\ status \in GroupStatus
  /\ dates \in Dates
  /\ member \in [User -> Row \cup {None}]
  /\ rows \in 1..MaxRow
  /\ expenses \in Seq(Expense) /\ audited \in Int
  /\ HasRun => runs = <<run>> /\ run.members \subseteq User /\ DOMAIN run.net = run.members
  /\ DOMAIN req = Request
  /\ closer \in Request \cup {None}
  /\ sharers \subseteq Request

\* README, concurrency & locking: an expense that lands, changes or goes while
\* the group is being closed is in the snapshot or refused: what anybody is shown
\* of a closed group is the total its plan was made of, and there is a plan.
NothingSlipsPast ==
  PublicGroupStatus.status # "open" =>
    /\ GetSettlementPlan # << >>
    /\ GetSettlementPlan[1].total = PublicGroupStatus.total

\* README: a group settles exactly once; and its expenses and dates are frozen.
SettlesOnce ==
  [][HasRun =>
       runs' = runs /\ expenses' = expenses /\ dates' = dates /\ status' # "open"]_vars

\* expenses.go: "occurred_on is outside the trip dates" is said against the dates
\* the expense is written under, though they were compared a statement earlier.
\* (An update of the dates may leave it outside later.)
InRangeWhenWritten ==
  [][\A k \in DOMAIN expenses' :
       LET e == expenses'[k] IN
       e.live /\ (k \notin DOMAIN expenses \/ e # expenses[k]) => InRange(e.on)]_vars

\* audit.go: what was created, changed and deleted according to the audit log is
\* the total of the expenses, also when edits of one expense overlap.
AuditExplainsTotal == audited = Total

\* summary.go: "For closed groups the expenses are frozen, so this matches the
\* settlement snapshot": a summary that says so was not put together around the
\* close: what was paid and what is allocated are both the snapshot's total.
ClosedSummaryIsFrozen ==
  \A r \in Request : req[r].pc = "answer" /\ req[r].status # "open" =>
    req[r].paid = run.total /\ req[r].allocated = run.total

\* Every live expense is paid by an approved member, in whatever order
\* approvals, removals and expenses arrive: no payment of a member's is lost.
PayersAreApproved ==
  \A k \in DOMAIN expenses : expenses[k].live =>
    /\ Approved(expenses[k].paidBy)
    /\ member[expenses[k].paidBy].id = expenses[k].payer

\* A payment's debtor and creditor stay approved members of the group, so each
\* can still be resolved and reminded.
PartiesStay == \A u \in Parties : Approved(u)

\* handler/memberships.go: "there is always exactly one group-admin".
OneAdmin == Cardinality(Admins) = 1

\* The admin of the group is an approved member of it.
AdminsAreApproved == \A u \in Admins : Approved(u)

\* expenses.go: every participant of a split is an approved member, "otherwise
\* settlement could assign debt to an outsider".
SharersAreApproved ==
  \A k \in DOMAIN expenses : expenses[k].live =>
    \A u \in DOMAIN expenses[k].shares : Approved(u)

\* What settlement_test.go proves of computePlan, of the plan a group is
\* really closed with: it brings every balance of the snapshot to zero.
SnapshotReconciles == HasRun => Evens(run.net, run.plan)

\* summary.go: the summary of a closed group "matches the settlement snapshot".
SummaryMatchesSnapshot ==
  HasRun => run.net = Balances(ApprovedMembers, Live)

\* README, concurrency & locking: settlement is "computed exactly once over a
\* consistent snapshot while expenses may be landing concurrently": whatever
\* overlaps, the books of the group change as those of Ledger do, in which each
\* operation is one step and the close takes all there is.
Abstract == INSTANCE Ledger

ImplementsLedger == Abstract!Spec
=============================================================================
