----------------------------- MODULE TripProofs -----------------------------
(***************************************************************************)
(* The safety of Trip for any users, amounts, dates, splits and requests.  *)
(*                                                                         *)
(* The invariant is built in layers:                                       *)
(*   Typed     the types, and what a request carries between its steps;    *)
(*   Locked    who holds the group row, and that it is open meanwhile;     *)
(*   Frozen    a group that is not open has its run, made of the expenses  *)
(*             there are, and a summary under way knows it;                *)
(*   Vouched   admins and payers are approved members, and an expense      *)
(*             about to be inserted is its payer's or refused;             *)
(*   Ranged    an expense about to be written lies within the dates;       *)
(*   Few       the bound on the number of expenses.                        *)
(* On top of it, each in a section of its own:                             *)
(*   Booked    the log explains the total;                                 *)
(*   Standing  the members a close has listed stay approved;               *)
(*   Serial    what one request at a time can rely on between its steps;   *)
(*   Charged   everybody an expense names, and whoever paid it, is listed. *)
(* The last section shows that the books of a group are those of Ledger.   *)
(***************************************************************************)
EXTENDS Trip, SettlementProofs, TLAPS

\* What a request carries, by the step it is at.
LocalOK(q) ==
  /\ q.pc = "join" => q.user \in User
  /\ q.pc = "decide" => q.target \in User /\ q.decision \in {"approved", "rejected"}
  /\ q.pc \in {"transfer", "check", "delete"} => q.target \in User
  /\ q.pc = "record" => q.expense \in Expense
  /\ q.pc \in {"edit", "drop"} => q.row \in DOMAIN expenses /\ q.old \in Nat
  /\ q.pc = "edit" => q.amount \in Amount /\ q.on \in Day
  /\ q.pc = "update" => q.dates \in Dates
  /\ q.pc = "close" => q.members \subseteq User

Typed == TypeOK /\ \A r \in Request : LocalOK(req[r])

\* The steps at which a request holds the group row.
Editing == {"record", "edit", "drop"}

Quiet(q) == q.pc \notin Editing \cup {"close"}

Locked ==
  /\ \A r \in Request : closer = r <=> req[r].pc = "close"
  /\ \A r \in Request : r \in sharers <=> req[r].pc \in Editing
  /\ closer # None => sharers = {} /\ status = "open"
  /\ sharers # {} => status = "open"

\* What a summary has read of a group that was not open.
AnswerOK(q) ==
  /\ q.pc \in {"paid", "allocated", "answer"} /\ q.status # "open" => HasRun
  /\ q.pc \in {"allocated", "answer"} /\ q.status # "open" => q.paid = run.total
  /\ q.pc = "answer" /\ q.status # "open" => q.allocated = run.total

Frozen ==
  /\ HasRun <=> status # "open"
  /\ HasRun => run.total = Total
  /\ \A r \in Request : AnswerOK(req[r])

\* The row the payer had when the expense was checked is approved, or gone.
PayerOK(q) ==
  q.pc = "record" =>
    LET e == q.expense IN
    /\ e.payer <= rows
    /\ HasRow(e.paidBy) /\ member[e.paidBy].id = e.payer => Approved(e.paidBy)

Vouched ==
  /\ \A u \in User : HasRow(u) => member[u].id <= rows
  /\ AdminsAreApproved
  /\ \A k \in DOMAIN expenses :
       /\ Approved(expenses[k].paidBy)
       /\ member[expenses[k].paidBy].id = expenses[k].payer
  /\ \A r \in Request : PayerOK(req[r])

RangeOK(q) ==
  /\ q.pc = "record" => InRange(q.expense.on)
  /\ q.pc = "edit" => InRange(q.on)

Ranged == \A r \in Request : RangeOK(req[r])

Few == Len(expenses) <= MaxExpense

IInv == Typed /\ Locked /\ Frozen /\ Vouched /\ Ranged /\ Few
-----------------------------------------------------------------------------
(***************************************************************************)
(* The kinds of steps.                                                     *)
(***************************************************************************)

\* A request reads, and holds nothing before and after.
Reads(r) ==
  \E local : /\ Goes(r, local)
             /\ Quiet(req[r]) /\ Quiet(local)
             /\ LocalOK(local) /\ AnswerOK(local)

\* A request checks an expense and holds the group row from there on.
Checks(r) == PostExpenses(r) \/ PutExpenses(r) \/ DeleteExpenses(r)

\* A request writes a membership.
Enrolls(r) ==
  /\ JoinInsert(r) \/ Decide(r) \/ TransferAdmin(r) \/ RemoveDelete(r)
  /\ ~Rollback(r)

\* A request writes an expense.
Books(r) == (Record(r) \/ UpdateExpense(r) \/ DeleteExpense(r)) /\ ~Rollback(r)

\* A request writes the group row, or locks it for that.
Redates(r) == UpdateOpenGroup(r) /\ ~Rollback(r)

Locks(r) == CloseLock(r) /\ ~Rollback(r)

Closes(r) == Close(r) /\ ~Rollback(r)

\* The total is a function of the expenses.
LEMMA StoredTotal == ASSUME expenses' = expenses PROVE Total' = Total
BY DEF Total

\* The run is that of the table.
LEMMA StillThere == ASSUME runs' = runs PROVE run' = run /\ (HasRun' <=> HasRun)
BY DEF run, HasRun

\* The steps that only read, or refuse.
LEMMA ReadKinds ==
  ASSUME IInv, NEW r \in Request,
         \/ PutGroup(r) \/ PostClose(r) \/ PostJoin(r) \/ PostMembers(r)
         \/ PostTransferAdmin(r) \/ DeleteMembers(r) \/ GetSummary(r)
         \/ SummaryPaid(r) \/ SummaryAllocated(r) \/ RemoveCheck(r)
  PROVE  Reads(r) \/ Rollback(r)
<1>0. Typed /\ Frozen /\ LocalOK(req[r]) /\ AnswerOK(req[r])
  BY DEF IInv, Typed, Frozen
<1>1. ASSUME NEW local, Goes(r, local), Quiet(req[r]), Quiet(local), LocalOK(local), AnswerOK(local)
      PROVE  Reads(r)
  BY <1>1 DEF Reads
<1>2. ASSUME req[r] = Idle PROVE Quiet(req[r])
  BY <1>2 DEF Idle, Quiet, Editing
<1>3. ASSUME PutGroup(r) PROVE Reads(r)
  <2>1. PICK u \in User, d \in Dates : UpdateRead(r, u, d)
    BY <1>3 DEF PutGroup
  <2> DEFINE l == [pc |-> "update", dates |-> d]
  <2>2. Goes(r, l) /\ Quiet(req[r]) /\ Quiet(l) /\ LocalOK(l) /\ AnswerOK(l)
    BY <1>2, <2>1 DEF UpdateRead, Quiet, Editing, LocalOK, AnswerOK
  <2> QED BY <2>2, <1>1
<1>4. ASSUME PostClose(r) PROVE Reads(r)
  <2> DEFINE l == [pc |-> "lock"]
  <2>2. Goes(r, l) /\ Quiet(req[r]) /\ Quiet(l) /\ LocalOK(l) /\ AnswerOK(l)
    BY <1>2, <1>4 DEF PostClose, CloseRead, Quiet, Editing, LocalOK, AnswerOK
  <2> QED BY <2>2, <1>1
<1>5. ASSUME PostJoin(r) PROVE Reads(r)
  <2>1. PICK u \in User : JoinRead(r, u)
    BY <1>5 DEF PostJoin
  <2> DEFINE l == [pc |-> "join", user |-> u]
  <2>2. Goes(r, l) /\ Quiet(req[r]) /\ Quiet(l) /\ LocalOK(l) /\ AnswerOK(l)
    BY <1>2, <2>1 DEF JoinRead, Quiet, Editing, LocalOK, AnswerOK
  <2> QED BY <2>2, <1>1
<1>6. ASSUME PostMembers(r) PROVE Reads(r)
  <2>1. PICK u \in User, t \in User, d \in {"approved", "rejected"} : DecideRead(r, u, t, d)
    BY <1>6 DEF PostMembers
  <2> DEFINE l == [pc |-> "decide", target |-> t, decision |-> d]
  <2>2. Goes(r, l) /\ Quiet(req[r]) /\ Quiet(l) /\ LocalOK(l) /\ AnswerOK(l)
    BY <1>2, <2>1 DEF DecideRead, Quiet, Editing, LocalOK, AnswerOK
  <2> QED BY <2>2, <1>1
<1>7. ASSUME PostTransferAdmin(r) PROVE Reads(r)
  <2>1. PICK u \in User, t \in User : TransferRead(r, u, t)
    BY <1>7 DEF PostTransferAdmin
  <2> DEFINE l == [pc |-> "transfer", target |-> t]
  <2>2. Goes(r, l) /\ Quiet(req[r]) /\ Quiet(l) /\ LocalOK(l) /\ AnswerOK(l)
    BY <1>2, <2>1 DEF TransferRead, Quiet, Editing, LocalOK, AnswerOK
  <2> QED BY <2>2, <1>1
<1>8. ASSUME DeleteMembers(r) PROVE Reads(r)
  <2>1. PICK u \in User, t \in User : RemoveRead(r, u, t)
    BY <1>8 DEF DeleteMembers
  <2> DEFINE l == [pc |-> "check", target |-> t, id |-> member[t].id]
  <2>2. Goes(r, l) /\ Quiet(req[r]) /\ Quiet(l) /\ LocalOK(l) /\ AnswerOK(l)
    BY <1>2, <2>1 DEF RemoveRead, Quiet, Editing, LocalOK, AnswerOK
  <2> QED BY <2>2, <1>1
<1>9. ASSUME GetSummary(r) PROVE Reads(r)
  <2> DEFINE l == [pc |-> "paid", status |-> status]
  <2>1. Goes(r, l) /\ req[r] = Idle
    BY <1>9 DEF GetSummary, SummaryRead
  <2>2. Quiet(req[r]) /\ Quiet(l) /\ LocalOK(l) /\ AnswerOK(l)
    BY <1>0, <1>2, <2>1 DEF Quiet, Editing, LocalOK, AnswerOK, Frozen
  <2> QED BY <2>1, <2>2, <1>1
<1>10. ASSUME SummaryPaid(r) PROVE Reads(r)
  <2> DEFINE l == [pc |-> "allocated", status |-> req[r].status, paid |-> Total]
  <2>1. Goes(r, l) /\ req[r].pc = "paid"
    BY <1>10 DEF SummaryPaid
  <2>2. Quiet(req[r]) /\ Quiet(l) /\ LocalOK(l) /\ AnswerOK(l)
    BY <1>0, <2>1 DEF Quiet, Editing, LocalOK, AnswerOK, Frozen
  <2> QED BY <2>1, <2>2, <1>1
<1>11. ASSUME SummaryAllocated(r) PROVE Reads(r)
  <2> DEFINE l == [pc |-> "answer", status |-> req[r].status, paid |-> req[r].paid,
                   allocated |-> Total]
  <2>1. Goes(r, l) /\ req[r].pc = "allocated"
    BY <1>11 DEF SummaryAllocated, StatusRead
  <2>2. Quiet(req[r]) /\ Quiet(l) /\ LocalOK(l) /\ AnswerOK(l)
    BY <1>0, <2>1 DEF Quiet, Editing, LocalOK, AnswerOK, Frozen
  <2> QED BY <2>1, <2>2, <1>1
<1>12. ASSUME RemoveCheck(r) PROVE Reads(r) \/ Rollback(r)
  <2> DEFINE l == [req[r] EXCEPT !.pc = "delete"]
  <2>1. req[r].pc = "check" /\ (Goes(r, l) \/ Rollback(r))
    BY <1>12 DEF RemoveCheck
  <2>2. l.pc = "delete" /\ l.target = req[r].target
    BY <2>1
  <2>3. Quiet(req[r]) /\ Quiet(l) /\ LocalOK(l) /\ AnswerOK(l)
    BY <1>0, <2>1, <2>2 DEF Quiet, Editing, LocalOK, AnswerOK
  <2> QED BY <2>1, <2>3, <1>1
<1> QED BY <1>3, <1>4, <1>5, <1>6, <1>7, <1>8, <1>9, <1>10, <1>11, <1>12

\* Every step of a trip is of one of the kinds above.
LEMMA StepKinds ==
  ASSUME IInv, [Next]_vars
  PROVE  \/ UNCHANGED vars
         \/ SettlePayments
         \/ \E r \in Request :
              \/ Rollback(r) \/ Reads(r) \/ Checks(r)
              \/ Enrolls(r) \/ Books(r) \/ Redates(r) \/ Locks(r) \/ Closes(r)
<1>1. ASSUME NEW r \in Request, Arrive(r) PROVE Reads(r) \/ Rollback(r) \/ Checks(r)
  BY <1>1, ReadKinds DEF Arrive, Checks
<1>2. ASSUME NEW r \in Request, Work(r)
      PROVE  \/ Rollback(r) \/ Reads(r)
             \/ Enrolls(r) \/ Books(r) \/ Redates(r) \/ Locks(r) \/ Closes(r)
  BY <1>2, ReadKinds DEF Work, Enrolls, Books, Redates, Locks, Closes, Answer
<1>3. ASSUME NEW r \in Request, Fail(r) PROVE Rollback(r)
  BY <1>3 DEF Fail
<1> QED BY <1>1, <1>2, <1>3 DEF Next
-----------------------------------------------------------------------------
(***************************************************************************)
(* What the kinds of steps do.                                             *)
(***************************************************************************)

\* A row of the table, and what it is not.
LEMMA RowFacts ==
  ASSUME TypeOK
  PROVE  /\ \A u \in User : HasRow(u) => member[u] \in Row
         /\ \A u \in User : member[u] \in Row => HasRow(u)
BY RowAssumption DEF TypeOK, HasRow

\* What the check of an expense operation establishes.
LEMMA CheckFacts ==
  ASSUME IInv, NEW r \in Request, Checks(r)
  PROVE  /\ \E v : /\ req' = [req EXCEPT ![r] = v]
                   /\ v.pc \in Editing /\ LocalOK(v) /\ PayerOK(v) /\ RangeOK(v) /\ AnswerOK(v)
         /\ sharers' = sharers \cup {r}
         /\ UNCHANGED <<status, dates, member, rows, expenses, audited, runs, closer>>
         /\ Quiet(req[r]) /\ closer = None /\ status = "open"
<1>0. TypeOK /\ Vouched
  BY DEF IInv, Typed
<1>1. CASE PostExpenses(r)
  <2>1. PICK u \in User, amount \in Amount, day \in Day, shares \in Shares :
          RecordCheck(r, u, amount, day, shares)
    BY <1>1 DEF PostExpenses
  <2> DEFINE e == [payer |-> member[u].id, paidBy |-> u, amount |-> amount, on |-> day,
                   shares |-> shares, live |-> TRUE]
             v == [pc |-> "record", expense |-> e]
  <2>2. /\ req' = [req EXCEPT ![r] = v] /\ sharers' = sharers \cup {r}
        /\ UNCHANGED <<tables, closer>> /\ req[r] = Idle /\ closer = None /\ status = "open"
        /\ InRange(day) /\ Approved(u)
    BY <2>1 DEF RecordCheck, NoClose
  <2>3. HasRow(u) /\ member[u] \in Row /\ member[u].id <= rows
    BY <1>0, <2>2, RowFacts DEF Approved, Vouched
  <2>4. e \in Expense
    BY <2>3 DEF Expense, Row
  <2>5. e.payer <= rows /\ Approved(e.paidBy) /\ InRange(e.on)
    BY <2>2, <2>3
  <2> HIDE DEF e
  <2>6. v.pc \in Editing /\ LocalOK(v) /\ PayerOK(v) /\ RangeOK(v) /\ AnswerOK(v)
    BY <2>4, <2>5 DEF Editing, LocalOK, PayerOK, RangeOK, AnswerOK
  <2>7. UNCHANGED <<status, dates, member, rows, expenses, audited, runs, closer>> /\ Quiet(req[r])
    BY <2>2 DEF tables, books, Quiet, Editing, Idle
  <2> HIDE DEF v
  <2> QED BY <2>2, <2>6, <2>7
<1>2. CASE PutExpenses(r)
  <2>1. PICK u \in User, k \in DOMAIN expenses, amount \in Amount, day \in Day :
          UpdateCheck(r, u, k, amount, day)
    BY <1>2 DEF PutExpenses
  <2> DEFINE v == [pc |-> "edit", row |-> k, old |-> expenses[k].amount,
                   amount |-> amount, on |-> day]
  <2>2. /\ req' = [req EXCEPT ![r] = v] /\ sharers' = sharers \cup {r}
        /\ UNCHANGED <<tables, closer>> /\ req[r] = Idle /\ closer = None /\ status = "open"
        /\ InRange(day)
    BY <2>1 DEF UpdateCheck, Editable, Holds, NoClose
  <2>3. expenses[k].amount \in Nat
    <3>1. expenses[k] \in Expense
      BY <1>0 DEF TypeOK
    <3> QED BY <3>1, TripAssumption DEF Expense
  <2>6. v.pc \in Editing /\ LocalOK(v) /\ PayerOK(v) /\ RangeOK(v) /\ AnswerOK(v)
    BY <2>2, <2>3 DEF Editing, LocalOK, PayerOK, RangeOK, AnswerOK
  <2>7. UNCHANGED <<status, dates, member, rows, expenses, audited, runs, closer>> /\ Quiet(req[r])
    BY <2>2 DEF tables, books, Quiet, Editing, Idle
  <2> HIDE DEF v
  <2> QED BY <2>2, <2>6, <2>7
<1>3. CASE DeleteExpenses(r)
  <2>1. PICK u \in User, k \in DOMAIN expenses : DeleteCheck(r, u, k)
    BY <1>3 DEF DeleteExpenses
  <2> DEFINE v == [pc |-> "drop", row |-> k, old |-> expenses[k].amount]
  <2>2. /\ req' = [req EXCEPT ![r] = v] /\ sharers' = sharers \cup {r}
        /\ UNCHANGED <<tables, closer>> /\ req[r] = Idle /\ closer = None /\ status = "open"
    BY <2>1 DEF DeleteCheck, Editable, Holds, NoClose
  <2>3. expenses[k].amount \in Nat
    <3>1. expenses[k] \in Expense
      BY <1>0 DEF TypeOK
    <3> QED BY <3>1, TripAssumption DEF Expense
  <2>6. v.pc \in Editing /\ LocalOK(v) /\ PayerOK(v) /\ RangeOK(v) /\ AnswerOK(v)
    BY <2>2, <2>3 DEF Editing, LocalOK, PayerOK, RangeOK, AnswerOK
  <2>7. UNCHANGED <<status, dates, member, rows, expenses, audited, runs, closer>> /\ Quiet(req[r])
    BY <2>2 DEF tables, books, Quiet, Editing, Idle
  <2> HIDE DEF v
  <2> QED BY <2>2, <2>6, <2>7
<1> QED BY <1>1, <1>2, <1>3 DEF Checks

\* A membership is asked for, decided, promoted or removed.
Asks(u) ==
  /\ ~HasRow(u) /\ rows < MaxRow
  /\ member' = [member EXCEPT ![u] = [id |-> rows + 1, role |-> "member", st |-> "requested"]]
  /\ rows' = rows + 1

Decides(t) ==
  /\ HasRow(t) /\ member[t].st = "requested"
  /\ \E d \in {"approved", "rejected"} : member' = [member EXCEPT ![t].st = d]
  /\ rows' = rows

Promotes(t) == Approved(t) /\ member' = Promoted(t) /\ rows' = rows

Removes(t) ==
  /\ HasRow(t) /\ ~HasExpenses(member[t].id) /\ t \notin Parties
  /\ member' = [member EXCEPT ![t] = None] /\ rows' = rows

\* A change of the memberships is one of four, and leaves the rest alone.
LEMMA EnrollFacts ==
  ASSUME IInv, NEW r \in Request, Enrolls(r)
  PROVE  /\ End(r) /\ UNCHANGED <<status, dates, expenses, audited, runs>> /\ Quiet(req[r])
         /\ \E u \in User : Asks(u) \/ Decides(u) \/ Promotes(u) \/ Removes(u)
<1>0. LocalOK(req[r])
  BY DEF IInv, Typed
<1>1. CASE JoinInsert(r)
  <2>1. End(r) /\ UNCHANGED <<status, dates, books, runs>> /\ req[r].pc = "join" /\ Asks(req[r].user)
    BY <1>1 DEF JoinInsert, Enrolls, Asks
  <2> QED BY <1>0, <2>1 DEF LocalOK, books, Quiet, Editing
<1>2. CASE Decide(r)
  <2>1. /\ End(r) /\ UNCHANGED <<status, dates, rows, books, runs>> /\ req[r].pc = "decide"
        /\ HasRow(req[r].target) /\ member[req[r].target].st = "requested"
        /\ member' = [member EXCEPT ![req[r].target].st = req[r].decision]
    BY <1>2 DEF Decide, Enrolls
  <2>2. req[r].target \in User /\ Decides(req[r].target)
    BY <1>0, <2>1 DEF LocalOK, Decides
  <2> QED BY <2>1, <2>2 DEF books, Quiet, Editing
<1>3. CASE TransferAdmin(r)
  <2>1. /\ End(r) /\ UNCHANGED <<status, dates, rows, books, runs>> /\ req[r].pc = "transfer"
        /\ Promotes(req[r].target)
    BY <1>3 DEF TransferAdmin, Enrolls, Transferable, Promotes
  <2> QED BY <1>0, <2>1 DEF LocalOK, books, Quiet, Editing
<1>4. CASE RemoveDelete(r)
  <2>1. /\ End(r) /\ UNCHANGED <<status, dates, rows, books, runs>> /\ req[r].pc = "delete"
        /\ Removes(req[r].target)
    BY <1>4 DEF RemoveDelete, Enrolls, Referred, Removes
  <2> QED BY <1>0, <2>1 DEF LocalOK, books, Quiet, Editing
<1> QED BY <1>1, <1>2, <1>3, <1>4 DEF Enrolls

\* What becomes of the expense k when r writes.
Kept(k) == k \in DOMAIN expenses /\ expenses'[k] = expenses[k]

Rewritten(r, k) ==
  /\ k \in DOMAIN expenses
  /\ expenses'[k].payer = expenses[k].payer /\ expenses'[k].paidBy = expenses[k].paidBy
  /\ expenses'[k].live => req[r].pc = "edit" /\ expenses'[k].on = req[r].on

Recorded(r, k) ==
  LET e == req[r].expense IN
  /\ k \notin DOMAIN expenses
  /\ req[r].pc = "record" /\ expenses'[k] = e
  /\ HasRow(e.paidBy) /\ member[e.paidBy].id = e.payer

\* A write to the expenses keeps, rewrites or records each of them, and leaves the rest alone.
LEMMA BookFacts ==
  ASSUME IInv, NEW r \in Request, Books(r)
  PROVE  /\ End(r) /\ UNCHANGED <<status, dates, member, rows, runs>> /\ req[r].pc \in Editing
         /\ expenses' \in Seq(Expense) /\ audited' \in Int
         /\ DOMAIN expenses \subseteq DOMAIN expenses'
         /\ \A k \in DOMAIN expenses' : Kept(k) \/ Rewritten(r, k) \/ Recorded(r, k)
         /\ Few'
<1>0. LocalOK(req[r]) /\ expenses \in Seq(Expense) /\ audited \in Int /\ Len(expenses) <= MaxExpense
  BY DEF IInv, Typed, TypeOK, Few
<1> DEFINE n == Len(expenses)
           q == req[r]
<1>1. n \in Nat /\ DOMAIN expenses = 1..n
  BY <1>0
<1>2. CASE Record(r)
  <2> DEFINE e == q.expense
  <2>1. /\ End(r) /\ UNCHANGED <<status, dates, member, rows, runs>> /\ q.pc = "record"
        /\ expenses' = Append(expenses, e) /\ audited' = audited + e.amount
        /\ HasRow(e.paidBy) /\ member[e.paidBy].id = e.payer
    BY <1>2 DEF Record, Books
  <2>2. e \in Expense /\ e.amount \in Nat
    BY <1>0, <2>1, TripAssumption DEF LocalOK, Expense
  <2> HIDE DEF e, n
  <2>3. /\ expenses' \in Seq(Expense) /\ DOMAIN expenses' = 1..(n + 1) /\ expenses'[n + 1] = e
        /\ \A k \in 1..n : expenses'[k] = expenses[k]
    BY <1>0, <1>1, <2>1, <2>2 DEF n
  <2>4. ASSUME NEW k \in DOMAIN expenses' PROVE Kept(k) \/ Recorded(r, k)
    <3>1. k \in 1..n \/ (k = n + 1 /\ k \notin 1..n)
      BY <1>1, <2>3
    <3> QED BY <1>1, <2>1, <2>3, <3>1 DEF Kept, Recorded, e
  <2>5. DOMAIN expenses \subseteq DOMAIN expenses'
    BY <1>1, <2>3
  <2>6. Few'
    <3>1. Len(expenses') = n + 1 /\ n < MaxExpense
      BY <1>0, <1>2, <2>1, <2>2 DEF n, Record
    <3> QED BY <1>1, <3>1, TripAssumption DEF Few
  <2> QED BY <1>0, <2>1, <2>2, <2>3, <2>4, <2>5, <2>6 DEF Editing
<1>3. CASE UpdateExpense(r)
  <2>1. /\ End(r) /\ UNCHANGED <<status, dates, member, rows, runs>> /\ q.pc = "edit"
        /\ expenses' = Edited(q) /\ audited' = audited - q.old + q.amount
    BY <1>3 DEF UpdateExpense, Books
  <2>2. q.row \in 1..n /\ q.old \in Nat /\ q.amount \in Amount /\ q.amount \in Nat /\ q.on \in Day
    BY <1>0, <1>1, <2>1, TripAssumption DEF LocalOK
  <2> DEFINE f == [expenses[q.row] EXCEPT !.amount = q.amount, !.on = q.on]
  <2>3. expenses' = [expenses EXCEPT ![q.row] = f]
    BY <1>0, <2>1, <2>2 DEF Edited
  <2>4. f \in Expense /\ f.payer = expenses[q.row].payer /\ f.paidBy = expenses[q.row].paidBy
        /\ f.on = q.on
    <3>1. expenses[q.row] \in Expense
      BY <1>0, <1>1, <2>2
    <3> QED BY <2>2, <3>1 DEF Expense
  <2> HIDE DEF f, n
  <2>5. /\ expenses' \in Seq(Expense) /\ DOMAIN expenses' = 1..n /\ expenses'[q.row] = f
        /\ \A k \in 1..n : k # q.row => expenses'[k] = expenses[k]
    BY <1>0, <1>1, <2>2, <2>3, <2>4
  <2>6. ASSUME NEW k \in DOMAIN expenses' PROVE Kept(k) \/ Rewritten(r, k)
    BY <1>1, <2>1, <2>4, <2>5 DEF Kept, Rewritten
  <2>7. audited' \in Int
    BY <1>0, <2>1, <2>2
  <2>8. Few'
    <3>1. Len(expenses') = Len(expenses)
      BY <1>0, <1>1, <2>5 DEF n
    <3> QED BY <1>0, <3>1 DEF Few
  <2> QED BY <1>1, <2>1, <2>5, <2>6, <2>7, <2>8 DEF Editing
<1>4. CASE DeleteExpense(r)
  <2>1. /\ End(r) /\ UNCHANGED <<status, dates, member, rows, runs>> /\ q.pc = "drop"
        /\ expenses' = Dropped(q) /\ audited' = audited - q.old
    BY <1>4 DEF DeleteExpense, Books
  <2>2. q.row \in 1..n /\ q.old \in Nat
    BY <1>0, <1>1, <2>1 DEF LocalOK
  <2> DEFINE f == [expenses[q.row] EXCEPT !.live = FALSE]
  <2>3. expenses' = [expenses EXCEPT ![q.row] = f]
    BY <1>0, <2>1, <2>2 DEF Dropped
  <2>4. f \in Expense /\ f.payer = expenses[q.row].payer /\ f.paidBy = expenses[q.row].paidBy
        /\ ~f.live
    <3>1. expenses[q.row] \in Expense
      BY <1>0, <1>1, <2>2
    <3> QED BY <2>2, <3>1 DEF Expense
  <2> HIDE DEF f, n
  <2>5. /\ expenses' \in Seq(Expense) /\ DOMAIN expenses' = 1..n /\ expenses'[q.row] = f
        /\ \A k \in 1..n : k # q.row => expenses'[k] = expenses[k]
    BY <1>0, <1>1, <2>2, <2>3, <2>4
  <2>6. ASSUME NEW k \in DOMAIN expenses' PROVE Kept(k) \/ Rewritten(r, k)
    BY <1>1, <2>1, <2>4, <2>5 DEF Kept, Rewritten
  <2>7. audited' \in Int
    BY <1>0, <2>1, <2>2
  <2>8. Few'
    <3>1. Len(expenses') = Len(expenses)
      BY <1>0, <1>1, <2>5 DEF n
    <3> QED BY <1>0, <3>1 DEF Few
  <2> QED BY <1>1, <2>1, <2>5, <2>6, <2>7, <2>8 DEF Editing
<1> QED BY <1>2, <1>3, <1>4 DEF Books

\* What the lock of a close establishes.
LEMMA LockFacts ==
  ASSUME NEW r \in Request, Locks(r)
  PROVE  /\ req[r].pc = "lock" /\ closer = None /\ sharers = {} /\ status = "open"
         /\ req' = [req EXCEPT ![r] = [pc |-> "close", members |-> ApprovedMembers]]
         /\ closer' = r
         /\ UNCHANGED <<status, dates, member, rows, expenses, audited, runs, sharers>>
BY DEF Locks, CloseLock, Unlocked, tables, books

\* What an update of the dates needs and leaves alone.
LEMMA RedateFacts ==
  ASSUME IInv, NEW r \in Request, Redates(r)
  PROVE  /\ req[r].pc = "update" /\ closer = None /\ sharers = {}
         /\ End(r) /\ dates' = req[r].dates /\ dates' \in Dates
         /\ UNCHANGED <<status, member, rows, expenses, audited, runs>>
<1>1. LocalOK(req[r])
  BY DEF IInv, Typed
<1> QED BY <1>1 DEF Redates, UpdateOpenGroup, Unlocked, books, LocalOK

\* What a close writes.
LEMMA CloseFacts ==
  ASSUME IInv, NEW r \in Request, Closes(r)
  PROVE  /\ req[r].pc = "close" /\ ~HasRun
         /\ End(r) /\ status' \in {"settled", "closed"}
         /\ \E s : /\ runs' = <<s>> /\ s.total = Total
                   /\ s.members \subseteq User /\ DOMAIN s.net = s.members
         /\ UNCHANGED <<dates, member, rows, expenses, audited>>
<1> DEFINE s == Settlement(req[r].members)
<1>1. LocalOK(req[r])
  BY DEF IInv, Typed
<1>2. /\ req[r].pc = "close" /\ ~HasRun /\ End(r) /\ runs' = <<s>>
      /\ status' \in {"settled", "closed"}
      /\ UNCHANGED <<dates, member, rows, expenses, audited>>
  BY DEF Closes, Close, books
<1>3. s.total = Total /\ s.members = req[r].members /\ s.net = Balances(req[r].members, Live)
  BY DEF Settlement
<1>4. DOMAIN Balances(req[r].members, Live) = req[r].members
  BY DEF Balances
<1>5. req[r].members \subseteq User
  BY <1>1, <1>2 DEF LocalOK
<1> HIDE DEF s
<1> QED BY <1>2, <1>3, <1>4, <1>5
-----------------------------------------------------------------------------
(***************************************************************************)
(* The layers.                                                             *)
(***************************************************************************)
LEMMA InitIInv == Init => IInv
<1> SUFFICES ASSUME Init PROVE IInv
  OBVIOUS
<1>1. /\ status = "open" /\ runs = << >> /\ expenses = << >> /\ rows = 1 /\ audited = 0
      /\ dates \in Dates /\ closer = None /\ sharers = {}
      /\ req = [r \in Request |-> [pc |-> "idle"]]
  BY DEF Init, Idle
<1> DEFINE first == [id |-> 1, role |-> "group_admin", st |-> "approved"]
<1>2. member = [u \in User |-> IF u = Creator THEN first ELSE None]
  BY DEF Init
<1>3. 1 \in 1..MaxRow /\ first \in Row
  BY TripAssumption DEF Row, MembershipStatus
<1>4. \A r \in Request : req[r].pc = "idle"
  BY <1>1
<1>5. Typed
  BY <1>1, <1>2, <1>3, <1>4 DEF Typed, TypeOK, GroupStatus, HasRun, LocalOK
<1>6. Locked
  BY <1>1, <1>4, TripAssumption DEF Locked, Editing
<1>7. Frozen
  BY <1>1, <1>4 DEF Frozen, HasRun, AnswerOK
<1>8. Vouched
  <2>1. \A u \in User : HasRow(u) => member[u] = first
    BY <1>2 DEF HasRow
  <2> QED BY <1>1, <1>4, <2>1 DEF Vouched, AdminsAreApproved, Admins, Approved, PayerOK
<1>9. Ranged
  BY <1>4 DEF Ranged, RangeOK
<1>10. Few
  BY <1>1, TripAssumption DEF Few
<1> QED BY <1>5, <1>6, <1>7, <1>8, <1>9, <1>10 DEF IInv

\* One request changes, and the tables stay typed.
LEMMA TypedOn ==
  ASSUME Typed, NEW r \in Request, NEW v, req' = [req EXCEPT ![r] = v], LocalOK(v)',
         DOMAIN expenses \subseteq DOMAIN expenses',
         status' \in GroupStatus, dates' \in Dates, member' \in [User -> Row \cup {None}],
         rows' \in 1..MaxRow, expenses' \in Seq(Expense), audited' \in Int,
         HasRun' => runs' = <<run'>> /\ run'.members \subseteq User /\ DOMAIN run'.net = run'.members,
         closer' \in Request \cup {None}, sharers' \subseteq Request
  PROVE  Typed'
<1>1. DOMAIN req = Request
  BY DEF Typed, TypeOK
<1>2. DOMAIN req' = Request /\ req'[r] = v /\ \A q \in Request : q # r => req'[q] = req[q]
  BY <1>1
<1>3. ASSUME NEW q \in Request PROVE LocalOK(req[q])'
  BY <1>2 DEF Typed, LocalOK
<1> QED BY <1>2, <1>3 DEF Typed, TypeOK

\* A request ends.
LEMMA EndLocks ==
  ASSUME TypeOK, NEW r \in Request, End(r)
  PROVE  closer' \in Request \cup {None} /\ sharers' \subseteq Request
BY DEF TypeOK, End

\* The memberships keep their types when one of them changes.
LEMMA EnrollTyped ==
  ASSUME TypeOK, NEW u \in User, Asks(u) \/ Decides(u) \/ Promotes(u) \/ Removes(u)
  PROVE  member' \in [User -> Row \cup {None}] /\ rows' \in 1..MaxRow
<1>1. member \in [User -> Row \cup {None}] /\ rows \in 1..MaxRow /\ MaxRow \in Nat
      /\ \A v \in User : HasRow(v) => member[v] \in Row
  BY RowFacts, TripAssumption DEF TypeOK
<1>2. CASE Asks(u)
  <2>1. rows + 1 \in 1..MaxRow
    BY <1>1, <1>2 DEF Asks
  <2>2. [id |-> rows + 1, role |-> "member", st |-> "requested"] \in Row
    BY <2>1 DEF Row, MembershipStatus
  <2> QED BY <1>1, <1>2, <2>1, <2>2 DEF Asks
<1>3. CASE Decides(u)
  <2>1. PICK d \in {"approved", "rejected"} : member' = [member EXCEPT ![u].st = d]
    BY <1>3 DEF Decides
  <2>2. [member[u] EXCEPT !.st = d] \in Row
    BY <1>1, <1>3 DEF Decides, Row, MembershipStatus
  <2> QED BY <1>1, <1>3, <2>1, <2>2 DEF Decides
<1>4. CASE Promotes(u)
  <2>1. \A v \in User : HasRow(v) =>
          [member[v] EXCEPT !.role = IF v = u THEN "group_admin" ELSE "member"] \in Row
    BY <1>1 DEF Row
  <2> QED BY <1>1, <1>4, <2>1 DEF Promotes, Promoted
<1>5. CASE Removes(u)
  BY <1>1, <1>5 DEF Removes
<1> QED BY <1>2, <1>3, <1>4, <1>5

\* Every step keeps the types.
LEMMA TypedNext == IInv /\ [Next]_vars => Typed'
<1> SUFFICES ASSUME IInv, [Next]_vars PROVE Typed'
  OBVIOUS
<1>1. Typed
  BY DEF IInv
<1>2. /\ status \in GroupStatus /\ dates \in Dates /\ member \in [User -> Row \cup {None}]
      /\ rows \in 1..MaxRow /\ expenses \in Seq(Expense) /\ audited \in Int
      /\ HasRun => runs = <<run>> /\ run.members \subseteq User /\ DOMAIN run.net = run.members
      /\ closer \in Request \cup {None} /\ sharers \subseteq Request
  BY <1>1 DEF Typed, TypeOK
<1>3. CASE UNCHANGED vars
  BY <1>1, <1>3 DEF vars, tables, books, Typed, TypeOK, LocalOK, HasRun, run
<1>4. CASE SettlePayments
  BY <1>1, <1>4 DEF SettlePayments, books, Typed, TypeOK, LocalOK, HasRun, run, GroupStatus
<1>5. LocalOK(Idle)'
  BY DEF LocalOK, Idle
<1>6. ASSUME NEW r \in Request, Rollback(r) PROVE Typed'
  <2>1. UNCHANGED <<status, dates, member, rows, expenses, audited, runs>> /\ req' = [req EXCEPT ![r] = Idle]
    BY <1>6 DEF Rollback, End, tables, books
  <2>2. closer' \in Request \cup {None} /\ sharers' \subseteq Request
    BY <1>1, <1>6, EndLocks DEF Rollback, Typed
  <2> QED BY <1>1, <1>2, <1>5, <2>1, <2>2, StillThere, TypedOn
<1>7. ASSUME NEW r \in Request, Reads(r) PROVE Typed'
  <2>1. PICK v : Goes(r, v) /\ LocalOK(v)
    BY <1>7 DEF Reads
  <2>2. /\ req' = [req EXCEPT ![r] = v]
        /\ UNCHANGED <<status, dates, member, rows, expenses, audited, runs, closer, sharers>>
    BY <2>1 DEF Goes, tables, books
  <2>3. LocalOK(v)'
    BY <2>1, <2>2 DEF LocalOK
  <2> QED BY <1>1, <1>2, <2>2, <2>3, StillThere, TypedOn
<1>8. ASSUME NEW r \in Request, Checks(r) PROVE Typed'
  <2>1. /\ sharers' = sharers \cup {r}
        /\ UNCHANGED <<status, dates, member, rows, expenses, audited, runs, closer>>
    BY <1>8, CheckFacts
  <2>2. PICK v : req' = [req EXCEPT ![r] = v] /\ LocalOK(v)
    BY <1>8, CheckFacts
  <2>3. LocalOK(v)'
    BY <2>1, <2>2 DEF LocalOK
  <2> QED BY <1>1, <1>2, <2>1, <2>2, <2>3, StillThere, TypedOn
<1>9. ASSUME NEW r \in Request, Enrolls(r) PROVE Typed'
  <2>1. End(r) /\ UNCHANGED <<status, dates, expenses, audited, runs>>
    BY <1>9, EnrollFacts
  <2>2. member' \in [User -> Row \cup {None}] /\ rows' \in 1..MaxRow
    BY <1>1, <1>9, EnrollFacts, EnrollTyped DEF Typed
  <2>3. closer' \in Request \cup {None} /\ sharers' \subseteq Request /\ req' = [req EXCEPT ![r] = Idle]
    BY <1>1, <2>1, EndLocks DEF Typed, End
  <2> QED BY <1>1, <1>2, <1>5, <2>1, <2>2, <2>3, StillThere, TypedOn
<1>10. ASSUME NEW r \in Request, Books(r) PROVE Typed'
  <2>1. /\ End(r) /\ UNCHANGED <<status, dates, member, rows, runs>>
        /\ expenses' \in Seq(Expense) /\ audited' \in Int
        /\ DOMAIN expenses \subseteq DOMAIN expenses'
    BY <1>10, BookFacts
  <2>3. closer' \in Request \cup {None} /\ sharers' \subseteq Request /\ req' = [req EXCEPT ![r] = Idle]
    BY <1>1, <2>1, EndLocks DEF Typed, End
  <2> QED BY <1>1, <1>2, <1>5, <2>1, <2>3, StillThere, TypedOn
<1>11. ASSUME NEW r \in Request, Redates(r) PROVE Typed'
  <2>1. /\ End(r) /\ dates' \in Dates
        /\ UNCHANGED <<status, member, rows, expenses, audited, runs>>
    BY <1>11, RedateFacts
  <2>3. closer' \in Request \cup {None} /\ sharers' \subseteq Request /\ req' = [req EXCEPT ![r] = Idle]
    BY <1>1, <2>1, EndLocks DEF Typed, End
  <2> QED BY <1>1, <1>2, <1>5, <2>1, <2>3, StillThere, TypedOn
<1>12. ASSUME NEW r \in Request, Locks(r) PROVE Typed'
  <2>1. PICK v : v = [pc |-> "close", members |-> ApprovedMembers]
    OBVIOUS
  <2>2. /\ req' = [req EXCEPT ![r] = v] /\ closer' = r
        /\ UNCHANGED <<status, dates, member, rows, expenses, audited, runs, sharers>>
    BY <1>12, <2>1, LockFacts
  <2>3. LocalOK(v)'
    BY <2>1 DEF LocalOK, ApprovedMembers
  <2> QED BY <1>1, <1>2, <2>2, <2>3, StillThere, TypedOn
<1>13. ASSUME NEW r \in Request, Closes(r) PROVE Typed'
  <2>1. /\ End(r) /\ status' \in {"settled", "closed"}
        /\ UNCHANGED <<dates, member, rows, expenses, audited>>
    BY <1>13, CloseFacts
  <2>2. PICK s : runs' = <<s>> /\ s.members \subseteq User /\ DOMAIN s.net = s.members
    BY <1>13, CloseFacts
  <2>3. closer' \in Request \cup {None} /\ sharers' \subseteq Request /\ req' = [req EXCEPT ![r] = Idle]
    BY <1>1, <2>1, EndLocks DEF Typed, End
  <2>4. run' = s /\ status' \in GroupStatus
    BY <2>1, <2>2 DEF run, GroupStatus
  <2> QED BY <1>1, <1>2, <1>5, <2>1, <2>2, <2>3, <2>4, TypedOn
<1> QED BY <1>3, <1>4, <1>6, <1>7, <1>8, <1>9, <1>10, <1>11, <1>12, <1>13, StepKinds

\* A request that ends gives back what it holds, and nobody else's lock.
LEMMA EndLocked ==
  ASSUME IInv, NEW r \in Request, End(r), status' = status \/ req[r].pc = "close"
  PROVE  Locked'
<1>1. DOMAIN req = Request /\ Locked /\ None \notin Request
  BY TripAssumption DEF IInv, Typed, TypeOK
<1>2. req' = [req EXCEPT ![r] = Idle]
      /\ closer' = (IF closer = r THEN None ELSE closer) /\ sharers' = sharers \ {r}
  BY DEF End
<1>3. req'[r].pc = "idle" /\ \A q \in Request : q # r => req'[q] = req[q]
  BY <1>1, <1>2 DEF Idle
<1> QED BY <1>1, <1>2, <1>3 DEF Locked, Editing

\* Every step keeps the locks: shares exclude a close, a close excludes all.
LEMMA LockedNext == IInv /\ [Next]_vars => Locked'
<1> SUFFICES ASSUME IInv, [Next]_vars PROVE Locked'
  OBVIOUS
<1>1. DOMAIN req = Request /\ Locked /\ None \notin Request
  BY TripAssumption DEF IInv, Typed, TypeOK
<1>2. CASE UNCHANGED vars
  BY <1>1, <1>2 DEF vars, tables, Locked
<1>3. CASE SettlePayments
  BY <1>1, <1>3 DEF SettlePayments, Locked
<1>4. ASSUME NEW r \in Request, Rollback(r) PROVE Locked'
  BY <1>4, EndLocked DEF Rollback, tables
<1>5. ASSUME NEW r \in Request, Reads(r) PROVE Locked'
  <2>1. PICK v : Goes(r, v) /\ Quiet(v) /\ Quiet(req[r])
    BY <1>5 DEF Reads
  <2>2. req' = [req EXCEPT ![r] = v] /\ UNCHANGED <<status, closer, sharers>>
    BY <2>1 DEF Goes, tables
  <2>3. req'[r] = v /\ \A q \in Request : q # r => req'[q] = req[q]
    BY <1>1, <2>2
  <2> QED BY <1>1, <2>1, <2>2, <2>3 DEF Locked, Quiet, Editing
<1>6. ASSUME NEW r \in Request, Checks(r) PROVE Locked'
  <2>1. /\ sharers' = sharers \cup {r} /\ UNCHANGED <<status, closer>>
        /\ closer = None /\ status = "open" /\ Quiet(req[r])
    BY <1>6, CheckFacts
  <2>2. PICK v : req' = [req EXCEPT ![r] = v] /\ v.pc \in Editing
    BY <1>6, CheckFacts
  <2>3. req'[r] = v /\ \A q \in Request : q # r => req'[q] = req[q]
    BY <1>1, <2>2
  <2> QED BY <1>1, <2>1, <2>2, <2>3 DEF Locked, Quiet, Editing
<1>7. ASSUME NEW r \in Request, Enrolls(r) PROVE Locked'
  BY <1>7, EnrollFacts, EndLocked
<1>8. ASSUME NEW r \in Request, Books(r) PROVE Locked'
  BY <1>8, BookFacts, EndLocked
<1>9. ASSUME NEW r \in Request, Redates(r) PROVE Locked'
  BY <1>9, RedateFacts, EndLocked
<1>10. ASSUME NEW r \in Request, Locks(r) PROVE Locked'
  <2>1. PICK v : v = [pc |-> "close", members |-> ApprovedMembers]
    OBVIOUS
  <2>2. /\ req' = [req EXCEPT ![r] = v] /\ closer' = r /\ status = "open" /\ sharers = {}
        /\ closer = None /\ UNCHANGED <<status, sharers>> /\ req[r].pc = "lock"
    BY <1>10, <2>1, LockFacts
  <2>3. req'[r] = v /\ v.pc = "close" /\ \A q \in Request : q # r => req'[q] = req[q]
    BY <1>1, <2>1, <2>2
  <2> QED BY <1>1, <2>2, <2>3 DEF Locked, Editing
<1>11. ASSUME NEW r \in Request, Closes(r) PROVE Locked'
  BY <1>11, CloseFacts, EndLocked
<1> QED BY <1>2, <1>3, <1>4, <1>5, <1>6, <1>7, <1>8, <1>9, <1>10, <1>11, StepKinds

\* One request changes, and neither the settlement nor the expenses.
LEMMA FrozenOn ==
  ASSUME IInv, NEW r \in Request, NEW v, req' = [req EXCEPT ![r] = v], AnswerOK(v),
         UNCHANGED <<runs, expenses, status>>
  PROVE  Frozen'
<1>1. DOMAIN req = Request /\ Frozen
  BY DEF IInv, Typed, TypeOK
<1>2. run' = run /\ (HasRun' <=> HasRun) /\ Total' = Total
  BY StillThere, StoredTotal
<1>3. req'[r] = v /\ \A q \in Request : q # r => req'[q] = req[q]
  BY <1>1
<1>4. ASSUME NEW q \in Request PROVE AnswerOK(req[q])'
  BY <1>1, <1>2, <1>3 DEF AnswerOK, Frozen
<1> QED BY <1>1, <1>2, <1>4 DEF Frozen

\* Every step keeps Frozen: who edits holds a share, so no close is under way.
LEMMA FrozenNext == IInv /\ [Next]_vars => Frozen'
<1> SUFFICES ASSUME IInv, [Next]_vars PROVE Frozen'
  OBVIOUS
<1>0. AnswerOK(Idle)
  BY DEF AnswerOK, Idle
<1>1. DOMAIN req = Request /\ Frozen /\ Locked /\ None \notin Request
  BY TripAssumption DEF IInv, Typed, TypeOK
<1>2. CASE UNCHANGED vars
  BY <1>1, <1>2, StillThere, StoredTotal DEF vars, tables, books, Frozen, AnswerOK
<1>3. CASE SettlePayments
  BY <1>1, <1>3, StillThere, StoredTotal DEF SettlePayments, books, Frozen, AnswerOK
<1>4. ASSUME NEW r \in Request, Rollback(r) PROVE Frozen'
  BY <1>0, <1>4, FrozenOn DEF Rollback, End, tables, books
<1>5. ASSUME NEW r \in Request, Reads(r) PROVE Frozen'
  <2>1. PICK v : Goes(r, v) /\ AnswerOK(v)
    BY <1>5 DEF Reads
  <2> QED BY <2>1, FrozenOn DEF Goes, tables, books
<1>6. ASSUME NEW r \in Request, Checks(r) PROVE Frozen'
  <2>1. UNCHANGED <<status, runs, expenses>>
    BY <1>6, CheckFacts
  <2>2. PICK v : req' = [req EXCEPT ![r] = v] /\ AnswerOK(v)
    BY <1>6, CheckFacts
  <2> QED BY <2>1, <2>2, FrozenOn
<1>7. ASSUME NEW r \in Request, Enrolls(r) PROVE Frozen'
  BY <1>0, <1>7, EnrollFacts, FrozenOn DEF End
<1>8. ASSUME NEW r \in Request, Books(r) PROVE Frozen'
  <2>1. req' = [req EXCEPT ![r] = Idle] /\ UNCHANGED <<status, runs>> /\ req[r].pc \in Editing
    BY <1>8, BookFacts DEF End
  <2>2. status = "open" /\ ~HasRun
    BY <1>1, <2>1 DEF Locked, Frozen
  <2>3. ~HasRun' /\ status' = "open"
    BY <2>1, <2>2, StillThere
  <2>4. \A q \in Request : req'[q] = Idle \/ req'[q] = req[q]
    BY <1>1, <2>1
  <2>5. ASSUME NEW q \in Request PROVE AnswerOK(req[q])'
    BY <1>1, <2>2, <2>3, <2>4 DEF AnswerOK, Frozen, Idle
  <2> QED BY <2>3, <2>5 DEF Frozen
<1>9. ASSUME NEW r \in Request, Redates(r) PROVE Frozen'
  BY <1>0, <1>9, RedateFacts, FrozenOn DEF End
<1>10. ASSUME NEW r \in Request, Locks(r) PROVE Frozen'
  <2>1. PICK v : v = [pc |-> "close", members |-> ApprovedMembers]
    OBVIOUS
  <2>2. req' = [req EXCEPT ![r] = v] /\ UNCHANGED <<status, expenses, runs>>
    BY <1>10, <2>1, LockFacts
  <2>3. AnswerOK(v)
    BY <2>1 DEF AnswerOK
  <2> QED BY <2>2, <2>3, FrozenOn
<1>11. ASSUME NEW r \in Request, Closes(r) PROVE Frozen'
  <2>1. /\ req' = [req EXCEPT ![r] = Idle] /\ status' # "open" /\ expenses' = expenses /\ ~HasRun
    BY <1>11, CloseFacts DEF End
  <2>2. PICK s : runs' = <<s>> /\ s.total = Total
    BY <1>11, CloseFacts
  <2>3. HasRun' /\ run'.total = Total'
    BY <2>1, <2>2, StoredTotal DEF HasRun, run
  <2>4. \A q \in Request : req'[q] = Idle \/ req'[q] = req[q]
    BY <1>1, <2>1
  <2>5. ASSUME NEW q \in Request PROVE AnswerOK(req[q])'
    BY <1>1, <2>1, <2>4 DEF AnswerOK, Frozen, Idle
  <2> QED BY <2>1, <2>3, <2>5 DEF Frozen
<1> QED BY <1>2, <1>3, <1>4, <1>5, <1>6, <1>7, <1>8, <1>9, <1>10, <1>11, StepKinds

\* What a change of one membership leaves of the others: who is approved stays
\* so with his row, unless he is removed, and no row comes back with its id.
LEMMA EnrollKeeps ==
  ASSUME IInv, NEW u \in User, Asks(u) \/ Decides(u) \/ Promotes(u) \/ Removes(u)
  PROVE  /\ rows <= rows' /\ rows \in Nat /\ rows' \in Nat
         /\ \A v \in User : HasRow(v)' => member'[v].id <= rows'
         /\ AdminsAreApproved'
         /\ \A v \in User : Approved(v) /\ (Removes(u) => v # u)
                             => Approved(v)' /\ member'[v].id = member[v].id
         /\ \A v \in User : HasRow(v)' /\ member'[v].id <= rows
                             => HasRow(v) /\ member'[v].id = member[v].id
<1>1. /\ member \in [User -> Row \cup {None}] /\ rows \in 1..MaxRow /\ MaxRow \in Nat
      /\ \A v \in User : HasRow(v) => member[v] \in Row /\ member[v].id <= rows
      /\ AdminsAreApproved
  BY RowFacts, TripAssumption DEF IInv, Typed, TypeOK, Vouched
<1>2. rows \in Nat /\ None \notin Row /\ \A w \in Row : w.id \in Nat
  BY <1>1, RowAssumption DEF Row
<1>3. /\ member' \in [User -> Row \cup {None}] /\ rows' \in Nat
  BY <1>1, EnrollTyped DEF IInv, Typed
<1>4. \A v \in User : HasRow(v)' <=> member'[v] # None
  BY DEF HasRow
<1>5. \A v \in User : Approved(v)' <=> member'[v] # None /\ member'[v].st = "approved"
  BY DEF Approved, HasRow
<1>6. AdminsAreApproved' <=>
        \A v \in User : member'[v] # None /\ member'[v].role = "group_admin"
                          => member'[v].st = "approved"
  BY DEF AdminsAreApproved, Admins, Approved, HasRow
<1>7. \A v \in User : member[v] # None /\ member[v].role = "group_admin"
                          => member[v].st = "approved"
  BY <1>1 DEF AdminsAreApproved, Admins, Approved, HasRow
<1>8. CASE Asks(u)
  <2>1. /\ member[u] = None /\ rows' = rows + 1
        /\ member'[u] = [id |-> rows + 1, role |-> "member", st |-> "requested"]
        /\ \A v \in User : v # u => member'[v] = member[v]
    BY <1>1, <1>8 DEF Asks, HasRow
  <2>2. AdminsAreApproved'
    BY <1>6, <1>7, <2>1
  <2> QED BY <1>1, <1>2, <1>3, <1>4, <1>5, <1>8, <2>1, <2>2 DEF Approved, HasRow, Removes
<1>9. CASE Decides(u)
  <2>1. PICK d \in {"approved", "rejected"} : member' = [member EXCEPT ![u].st = d]
    BY <1>9 DEF Decides
  <2>2. /\ HasRow(u) /\ member[u] \in Row /\ member[u].st = "requested" /\ rows' = rows
        /\ member'[u] = [member[u] EXCEPT !.st = d]
        /\ \A v \in User : v # u => member'[v] = member[v]
    BY <1>1, <1>9, <2>1 DEF Decides
  <2>3. member'[u].id = member[u].id /\ member'[u].role = member[u].role /\ member'[u].st = d
    BY <2>2 DEF Row
  <2>4. AdminsAreApproved'
    BY <1>6, <1>7, <2>2, <2>3 DEF HasRow
  <2>5. \A v \in User : Approved(v) => v # u /\ Approved(v)' /\ member'[v].id = member[v].id
    BY <1>5, <2>2 DEF Approved, HasRow
  <2>6. \A v \in User : HasRow(v)' => HasRow(v) /\ member'[v].id = member[v].id
    BY <1>4, <2>2, <2>3 DEF HasRow
  <2> QED BY <1>1, <1>2, <2>2, <2>4, <2>5, <2>6
<1>10. CASE Promotes(u)
  <2>1. /\ Approved(u) /\ rows' = rows
        /\ \A v \in User : member'[v] =
             IF HasRow(v) THEN [member[v] EXCEPT !.role = IF v = u THEN "group_admin" ELSE "member"]
             ELSE None
    BY <1>10 DEF Promotes, Promoted
  <2>2. \A v \in User : HasRow(v) =>
          /\ member'[v] \in Row
          /\ member'[v].id = member[v].id /\ member'[v].st = member[v].st
          /\ member'[v].role = IF v = u THEN "group_admin" ELSE "member"
    BY <1>1, <2>1 DEF Row
  <2>3. \A v \in User : HasRow(v)' <=> HasRow(v)
    BY <1>2, <1>4, <2>1, <2>2
  <2>4. AdminsAreApproved'
    BY <1>4, <1>6, <2>1, <2>2, <2>3 DEF Approved
  <2>5. \A v \in User : Approved(v) => Approved(v)' /\ member'[v].id = member[v].id
    BY <1>4, <1>5, <2>2, <2>3 DEF Approved
  <2> QED BY <1>1, <1>2, <2>1, <2>2, <2>3, <2>4, <2>5
<1>11. CASE Removes(u)
  <2>1. /\ rows' = rows /\ member'[u] = None
        /\ \A v \in User : v # u => member'[v] = member[v]
    BY <1>1, <1>11 DEF Removes
  <2>2. AdminsAreApproved'
    BY <1>6, <1>7, <2>1
  <2> QED BY <1>1, <1>2, <1>4, <1>5, <1>11, <2>1, <2>2 DEF Approved, HasRow
<1> QED BY <1>8, <1>9, <1>10, <1>11

\* One request changes, and no membership.
LEMMA VouchedOn ==
  ASSUME IInv, NEW r \in Request, NEW v, req' = [req EXCEPT ![r] = v], PayerOK(v),
         UNCHANGED <<member, rows>>,
         \A k \in DOMAIN expenses' :
           \/ k \in DOMAIN expenses /\ expenses'[k].paidBy = expenses[k].paidBy
                                     /\ expenses'[k].payer = expenses[k].payer
           \/ /\ Approved(expenses'[k].paidBy)
              /\ member[expenses'[k].paidBy].id = expenses'[k].payer
  PROVE  Vouched'
<1>1. DOMAIN req = Request /\ Vouched
  BY DEF IInv, Typed, TypeOK
<1>2. req'[r] = v /\ \A q \in Request : q # r => req'[q] = req[q]
  BY <1>1
<1>3. ASSUME NEW u PROVE (HasRow(u)' <=> HasRow(u)) /\ (Approved(u)' <=> Approved(u))
  BY DEF HasRow, Approved
<1>4. ASSUME NEW q \in Request PROVE PayerOK(req[q])'
  BY <1>1, <1>2, <1>3 DEF PayerOK, Vouched
<1>5. \A u \in User : HasRow(u)' => member'[u].id <= rows'
  BY <1>1, <1>3 DEF Vouched
<1>6. AdminsAreApproved'
  BY <1>1 DEF Vouched, AdminsAreApproved, Admins, Approved, HasRow
<1>7. ASSUME NEW k \in DOMAIN expenses'
      PROVE  (Approved(expenses[k].paidBy) /\ member[expenses[k].paidBy].id = expenses[k].payer)'
  BY <1>1, <1>7 DEF Vouched, Approved, HasRow
<1> QED BY <1>4, <1>5, <1>6, <1>7 DEF Vouched

\* Every step keeps Vouched: a row is deleted only if no expense refers to it.
LEMMA VouchedNext == IInv /\ [Next]_vars => Vouched'
<1> SUFFICES ASSUME IInv, [Next]_vars PROVE Vouched'
  OBVIOUS
<1>0. PayerOK(Idle)
  BY DEF PayerOK, Idle
<1>1. DOMAIN req = Request /\ Vouched /\ expenses \in Seq(Expense)
  BY DEF IInv, Typed, TypeOK
<1>2. CASE UNCHANGED vars
  BY <1>1, <1>2 DEF vars, tables, books, Vouched, AdminsAreApproved, Admins, Approved, HasRow, PayerOK
<1>3. CASE SettlePayments
  BY <1>1, <1>3 DEF SettlePayments, books, Vouched, AdminsAreApproved, Admins, Approved, HasRow, PayerOK
<1>4. ASSUME NEW r \in Request, Rollback(r) PROVE Vouched'
  BY <1>0, <1>4, VouchedOn DEF Rollback, End, tables, books
<1>5. ASSUME NEW r \in Request, Reads(r) PROVE Vouched'
  <2>1. PICK v : Goes(r, v) /\ Quiet(v)
    BY <1>5 DEF Reads
  <2>2. PayerOK(v)
    BY <2>1 DEF PayerOK, Quiet, Editing
  <2> QED BY <2>1, <2>2, VouchedOn DEF Goes, tables, books
<1>6. ASSUME NEW r \in Request, Checks(r) PROVE Vouched'
  <2>1. UNCHANGED <<member, rows, expenses>>
    BY <1>6, CheckFacts
  <2>2. PICK v : req' = [req EXCEPT ![r] = v] /\ PayerOK(v)
    BY <1>6, CheckFacts
  <2> QED BY <2>1, <2>2, VouchedOn
<1>7. ASSUME NEW r \in Request, Enrolls(r) PROVE Vouched'
  <2>1. PICK u \in User : Asks(u) \/ Decides(u) \/ Promotes(u) \/ Removes(u)
    BY <1>7, EnrollFacts
  <2>2. expenses' = expenses /\ req' = [req EXCEPT ![r] = Idle]
    BY <1>7, EnrollFacts DEF End
  <2>3. /\ rows <= rows' /\ rows \in Nat /\ rows' \in Nat
        /\ \A v \in User : HasRow(v)' => member'[v].id <= rows'
        /\ AdminsAreApproved'
        /\ \A v \in User : Approved(v) /\ (Removes(u) => v # u)
                            => Approved(v)' /\ member'[v].id = member[v].id
        /\ \A v \in User : HasRow(v)' /\ member'[v].id <= rows
                            => HasRow(v) /\ member'[v].id = member[v].id
    BY <2>1, EnrollKeeps
  <2>4. ASSUME NEW k \in DOMAIN expenses'
        PROVE  (Approved(expenses[k].paidBy) /\ member[expenses[k].paidBy].id = expenses[k].payer)'
    <3>1. PICK p \in User : p = expenses[k].paidBy
      <4>1. expenses[k] \in Expense
        BY <1>1, <2>2, <2>4
      <4> QED BY <4>1 DEF Expense
    <3>2. Approved(p) /\ member[p].id = expenses[k].payer
      BY <1>1, <2>2, <3>1 DEF Vouched
    <3>3. Removes(u) => p # u
      <4>1. HasExpenses(member[p].id)
        BY <2>2, <3>2 DEF HasExpenses
      <4> QED BY <4>1 DEF Removes
    <3>4. Approved(p)' /\ member'[p].id = member[p].id
      BY <2>3, <3>2, <3>3
    <3> QED BY <2>2, <3>1, <3>2, <3>4
  <2>5. ASSUME NEW q \in Request PROVE PayerOK(req[q])'
    <3>1. CASE q = r
      BY <1>1, <2>2, <3>1 DEF PayerOK, Idle
    <3>2. CASE q # r
      <4>1. req'[q] = req[q] /\ PayerOK(req[q]) /\ LocalOK(req[q])
        BY <1>1, <2>2, <3>2 DEF Vouched, IInv, Typed
      <4>2. SUFFICES ASSUME req[q].pc = "record" PROVE PayerOK(req[q])'
        BY <4>1 DEF PayerOK
      <4> DEFINE e == req[q].expense
      <4>3. e \in Expense /\ e.payer <= rows
            /\ (HasRow(e.paidBy) /\ member[e.paidBy].id = e.payer => Approved(e.paidBy))
        BY <4>1, <4>2 DEF LocalOK, PayerOK
      <4>4. PICK p \in User, i \in 1..MaxRow : p = e.paidBy /\ i = e.payer
        BY <4>3 DEF Expense
      <4>5. i <= rows /\ (HasRow(p) /\ member[p].id = i => Approved(p))
        BY <4>3, <4>4
      <4>6. i <= rows'
        BY <2>3, <4>5
      <4>7. HasRow(p)' /\ member'[p].id = i => Approved(p)'
        <5>1. SUFFICES ASSUME HasRow(p)', member'[p].id = i PROVE Approved(p)'
          OBVIOUS
        <5>2. HasRow(p) /\ member[p].id = i /\ Approved(p)
          BY <2>3, <4>5, <5>1
        <5>3. Removes(u) => p # u
          BY <5>1 DEF Removes, HasRow, IInv, Typed, TypeOK
        <5> QED BY <2>3, <5>2, <5>3
      <4> QED BY <4>1, <4>4, <4>6, <4>7 DEF PayerOK
    <3> QED BY <3>1, <3>2
  <2> QED BY <2>3, <2>4, <2>5 DEF Vouched
<1>8. ASSUME NEW r \in Request, Books(r) PROVE Vouched'
  <2>1. /\ req' = [req EXCEPT ![r] = Idle] /\ UNCHANGED <<member, rows>>
        /\ \A k \in DOMAIN expenses' : Kept(k) \/ Rewritten(r, k) \/ Recorded(r, k)
    BY <1>8, BookFacts DEF End
  <2>2. \A k \in DOMAIN expenses' :
           \/ k \in DOMAIN expenses /\ expenses'[k].paidBy = expenses[k].paidBy
                                     /\ expenses'[k].payer = expenses[k].payer
           \/ /\ Approved(expenses'[k].paidBy)
              /\ member[expenses'[k].paidBy].id = expenses'[k].payer
    BY <1>1, <2>1 DEF Kept, Rewritten, Recorded, Vouched, PayerOK
  <2> QED BY <1>0, <2>1, <2>2, VouchedOn
<1>9. ASSUME NEW r \in Request, Redates(r) PROVE Vouched'
  BY <1>0, <1>9, RedateFacts, VouchedOn DEF End
<1>10. ASSUME NEW r \in Request, Locks(r) PROVE Vouched'
  <2>1. PICK v : v = [pc |-> "close", members |-> ApprovedMembers]
    OBVIOUS
  <2>2. req' = [req EXCEPT ![r] = v] /\ UNCHANGED <<member, rows, expenses>>
    BY <1>10, <2>1, LockFacts
  <2>3. PayerOK(v)
    BY <2>1 DEF PayerOK
  <2> QED BY <2>2, <2>3, VouchedOn
<1>11. ASSUME NEW r \in Request, Closes(r) PROVE Vouched'
  BY <1>0, <1>11, CloseFacts, VouchedOn DEF End
<1> QED BY <1>2, <1>3, <1>4, <1>5, <1>6, <1>7, <1>8, <1>9, <1>10, <1>11, StepKinds

\* One request changes, and the dates do not.
LEMMA RangedOn ==
  ASSUME IInv, NEW r \in Request, NEW v, req' = [req EXCEPT ![r] = v], RangeOK(v), dates' = dates
  PROVE  Ranged'
<1>1. DOMAIN req = Request /\ Ranged
  BY DEF IInv, Typed, TypeOK
<1>2. req'[r] = v /\ \A q \in Request : q # r => req'[q] = req[q]
  BY <1>1
<1> QED BY <1>1, <1>2 DEF Ranged, RangeOK, InRange

\* Every step keeps Ranged: the dates wait for those who hold a share.
LEMMA RangedNext == IInv /\ [Next]_vars => Ranged'
<1> SUFFICES ASSUME IInv, [Next]_vars PROVE Ranged'
  OBVIOUS
<1>0. RangeOK(Idle)
  BY DEF RangeOK, Idle
<1>1. DOMAIN req = Request /\ Ranged /\ Locked
  BY DEF IInv, Typed, TypeOK
<1>2. CASE UNCHANGED vars
  BY <1>1, <1>2 DEF vars, tables, Ranged, RangeOK, InRange
<1>3. CASE SettlePayments
  BY <1>1, <1>3 DEF SettlePayments, Ranged, RangeOK, InRange
<1>4. ASSUME NEW r \in Request, Rollback(r) PROVE Ranged'
  BY <1>0, <1>4, RangedOn DEF Rollback, End, tables
<1>5. ASSUME NEW r \in Request, Reads(r) PROVE Ranged'
  <2>1. PICK v : Goes(r, v) /\ Quiet(v)
    BY <1>5 DEF Reads
  <2>2. RangeOK(v)
    BY <2>1 DEF RangeOK, Quiet, Editing
  <2> QED BY <2>1, <2>2, RangedOn DEF Goes, tables
<1>6. ASSUME NEW r \in Request, Checks(r) PROVE Ranged'
  <2>1. dates' = dates
    BY <1>6, CheckFacts
  <2>2. PICK v : req' = [req EXCEPT ![r] = v] /\ RangeOK(v)
    BY <1>6, CheckFacts
  <2> QED BY <2>1, <2>2, RangedOn
<1>7. ASSUME NEW r \in Request, Enrolls(r) PROVE Ranged'
  BY <1>0, <1>7, EnrollFacts, RangedOn DEF End
<1>8. ASSUME NEW r \in Request, Books(r) PROVE Ranged'
  BY <1>0, <1>8, BookFacts, RangedOn DEF End
<1>9. ASSUME NEW r \in Request, Redates(r) PROVE Ranged'
  <2>1. sharers = {} /\ req' = [req EXCEPT ![r] = Idle]
    BY <1>9, RedateFacts DEF End
  <2>2. \A q \in Request : req[q].pc \notin Editing
    BY <1>1, <2>1 DEF Locked
  <2>3. \A q \in Request : req'[q] = Idle \/ req'[q] = req[q]
    BY <1>1, <2>1
  <2> QED BY <2>2, <2>3 DEF Ranged, RangeOK, Editing, Idle
<1>10. ASSUME NEW r \in Request, Locks(r) PROVE Ranged'
  <2>1. PICK v : v = [pc |-> "close", members |-> ApprovedMembers]
    OBVIOUS
  <2>2. req' = [req EXCEPT ![r] = v] /\ dates' = dates
    BY <1>10, <2>1, LockFacts
  <2>3. RangeOK(v)
    BY <2>1 DEF RangeOK
  <2> QED BY <2>2, <2>3, RangedOn
<1>11. ASSUME NEW r \in Request, Closes(r) PROVE Ranged'
  BY <1>0, <1>11, CloseFacts, RangedOn DEF End
<1> QED BY <1>2, <1>3, <1>4, <1>5, <1>6, <1>7, <1>8, <1>9, <1>10, <1>11, StepKinds

\* Every step keeps the bound.
LEMMA FewNext == IInv /\ [Next]_vars => Few'
<1> SUFFICES ASSUME IInv, [Next]_vars PROVE Few'
  OBVIOUS
<1>1. ASSUME expenses' = expenses PROVE Few'
  BY <1>1 DEF IInv, Few
<1>2. CASE UNCHANGED vars \/ SettlePayments
  BY <1>1, <1>2 DEF vars, tables, SettlePayments, books
<1>3. ASSUME NEW r \in Request,
             \/ Rollback(r) \/ Reads(r) \/ Checks(r)
             \/ Enrolls(r) \/ Redates(r) \/ Locks(r) \/ Closes(r)
      PROVE  Few'
  BY <1>1, <1>3, CheckFacts, EnrollFacts, RedateFacts, LockFacts, CloseFacts
     DEF Rollback, Reads, Goes, tables, books
<1>4. ASSUME NEW r \in Request, Books(r) PROVE Few'
  BY <1>4, BookFacts
<1> QED BY <1>2, <1>3, <1>4, StepKinds
-----------------------------------------------------------------------------
(***************************************************************************)
(* The steps.                                                              *)
(***************************************************************************)

\* Once there is a run, no step changes it, the expenses or the dates.
LEMMA NothingMoves ==
  ASSUME IInv, [Next]_vars, HasRun
  PROVE  runs' = runs /\ expenses' = expenses /\ dates' = dates /\ status' # "open"
<1>1. Frozen /\ Locked /\ status # "open"
  BY DEF IInv, Frozen
<1>2. closer = None /\ sharers = {} /\ None \notin Request
  BY <1>1, TripAssumption DEF Locked
<1>3. ASSUME NEW r \in Request, Books(r) PROVE FALSE
  <2>1. req[r].pc \in Editing
    BY <1>3, BookFacts
  <2> QED BY <1>1, <1>2, <2>1 DEF Locked
<1>4. ASSUME NEW r \in Request, Redates(r) PROVE FALSE
  BY <1>1, <1>4 DEF Redates, UpdateOpenGroup
<1>5. ASSUME NEW r \in Request, Closes(r) PROVE FALSE
  BY <1>5, CloseFacts
<1>6. ASSUME NEW r \in Request, Locks(r) PROVE FALSE
  BY <1>1, <1>6, LockFacts
<1>7. CASE UNCHANGED vars
  BY <1>1, <1>7 DEF vars, tables, books
<1>8. CASE SettlePayments
  BY <1>8 DEF SettlePayments, books
<1>9. ASSUME NEW r \in Request, Rollback(r) \/ Reads(r)
      PROVE  UNCHANGED <<runs, expenses, dates, status>>
  BY <1>9 DEF Rollback, Reads, Goes, tables, books
<1>10. ASSUME NEW r \in Request, Checks(r) PROVE UNCHANGED <<runs, expenses, dates, status>>
  BY <1>10, CheckFacts
<1>11. ASSUME NEW r \in Request, Enrolls(r) PROVE UNCHANGED <<runs, expenses, dates, status>>
  BY <1>11, EnrollFacts
<1> QED BY <1>1, <1>3, <1>4, <1>5, <1>6, <1>7, <1>8, <1>9, <1>10, <1>11, StepKinds

\* An expense that a step writes lies within the dates.
LEMMA WritesInRange ==
  ASSUME IInv, [Next]_vars, NEW k \in DOMAIN expenses', expenses'[k].live,
         k \notin DOMAIN expenses \/ expenses'[k] # expenses[k]
  PROVE  InRange(expenses'[k].on)
<1>1. Ranged
  BY DEF IInv
<1>2. ASSUME NEW r \in Request, Books(r) PROVE InRange(expenses'[k].on)
  <2>1. Rewritten(r, k) \/ Recorded(r, k)
    BY <1>2, BookFacts DEF Kept
  <2> QED BY <1>1, <2>1 DEF Rewritten, Recorded, Ranged, RangeOK
<1>3. CASE UNCHANGED vars
  BY <1>3 DEF vars, tables, books
<1>4. CASE SettlePayments
  BY <1>4 DEF SettlePayments, books
<1>5. ASSUME NEW r \in Request, Rollback(r) \/ Reads(r) PROVE expenses' = expenses
  BY <1>5 DEF Rollback, Reads, Goes, tables, books
<1>6. ASSUME NEW r \in Request, Checks(r) PROVE expenses' = expenses
  BY <1>6, CheckFacts
<1>7. ASSUME NEW r \in Request, Enrolls(r) PROVE expenses' = expenses
  BY <1>7, EnrollFacts
<1>8. ASSUME NEW r \in Request, Redates(r) \/ Locks(r) \/ Closes(r) PROVE expenses' = expenses
  BY <1>8, RedateFacts, LockFacts, CloseFacts
<1> QED BY <1>2, <1>3, <1>4, <1>5, <1>6, <1>7, <1>8, StepKinds
-----------------------------------------------------------------------------
(***************************************************************************)
(* What the audit log adds up to.                                          *)
(***************************************************************************)

\* What an expense counts for, and a sequence of them.
Counted(e) == IF e.live THEN e.amount ELSE 0

TotalOf(es) == SumFunctionOnSet([k \in DOMAIN es |-> Counted(es[k])], DOMAIN es)

\* The expense that a request is about to write is there as the request read
\* it, and is not another's to write.
Rewriting(q) == q.pc \in {"edit", "drop"}

BookOK(q) ==
  /\ q.pc = "record" => q.expense.live
  /\ Rewriting(q) => expenses[q.row].live /\ q.old = expenses[q.row].amount

Booked ==
  /\ AuditExplainsTotal
  /\ \A r \in Request : BookOK(req[r])
  /\ \A r, s \in Request :
       r # s /\ Rewriting(req[r]) /\ Rewriting(req[s]) => req[r].row # req[s].row

\* What an expense counts for is an integer.
LEMMA CountedType == \A d \in Expense : Counted(d) \in Int
<1> SUFFICES ASSUME NEW d \in Expense PROVE Counted(d) \in Int
  OBVIOUS
<1>1. d.amount \in Amount
  BY DEF Expense
<1>2. d.amount \in Nat
  BY <1>1, TripAssumption
<1> QED BY <1>2 DEF Counted

\* The total of Trip as a sum over the set of recorded expenses ...
LEMMA TotalIsOf == Total = TotalOf(expenses)
BY SumOfFunction DEF Total, TotalOf, Counted

\* ... and after the step.
LEMMA TotalNextOf == Total' = TotalOf(expenses')
<1>1. PICK f : f = [k \in DOMAIN expenses' |-> Counted(expenses'[k])]
  OBVIOUS
<1>2. Total' = SumFunction(f) /\ TotalOf(expenses') = SumFunctionOnSet(f, DOMAIN f)
  BY <1>1 DEF Total, TotalOf, Counted
<1> QED BY <1>2, SumOfFunction

\* A recorded expense adds its amount.
LEMMA AppendedTotal ==
  ASSUME NEW es \in Seq(Expense), NEW e \in Expense
  PROVE  TotalOf(Append(es, e)) = TotalOf(es) + Counted(e)
<1> DEFINE n == Len(es)
           fs == Append(es, e)
           f == [k \in DOMAIN es |-> Counted(es[k])]
           h == [k \in DOMAIN fs |-> Counted(fs[k])]
<1>1. /\ n \in Nat /\ DOMAIN es = 1..n /\ DOMAIN fs = 1..(n + 1) /\ fs[n + 1] = e
      /\ \A k \in 1..n : fs[k] = es[k] /\ es[k] \in Expense
  OBVIOUS
<1>2. \A d \in Expense : Counted(d) \in Int
  BY CountedType
<1> HIDE DEF n, fs
<1>3. /\ \A k \in 1..n : f[k] \in Int /\ h[k] = f[k]
      /\ h[n + 1] = Counted(e) /\ h[n + 1] \in Int
  BY <1>1, <1>2
<1>4. n + 1 \notin 1..n /\ (1..n) \cup {n + 1} = 1..(n + 1) /\ 1 \in Int /\ n \in Int
  BY <1>1
<1>a. IsFiniteSet(1..n)
  BY <1>4, FS_Interval
<1> HIDE DEF f, h
<1>5. SumFunctionOnSet(h, (1..n) \cup {n + 1}) = SumFunctionOnSet(f, 1..n) + h[n + 1]
  <2>1. PICK S, i : S = 1..n /\ i = n + 1
    OBVIOUS
  <2>2. IsFiniteSet(S) /\ i \notin S /\ h[i] \in Int /\ \A x \in S : f[x] \in Int /\ h[x] = f[x]
    BY <1>3, <1>4, <1>a, <2>1
  <2>3. SumFunctionOnSet(h, S \cup {i}) = SumFunctionOnSet(f, S) + h[i]
    BY <2>2, SumExtended
  <2> QED BY <2>1, <2>3
<1>6. TotalOf(fs) = SumFunctionOnSet(h, 1..(n + 1)) /\ TotalOf(es) = SumFunctionOnSet(f, 1..n)
  BY <1>1 DEF TotalOf, f, h
<1> QED BY <1>3, <1>4, <1>5, <1>6 DEF fs

\* A changed expense adds what it counts for more.
LEMMA ChangedTotal ==
  ASSUME NEW es \in Seq(Expense), NEW i \in DOMAIN es, NEW e \in Expense
  PROVE  TotalOf([es EXCEPT ![i] = e]) = TotalOf(es) - Counted(es[i]) + Counted(e)
<1> DEFINE n == Len(es)
           fs == [es EXCEPT ![i] = e]
           f == [k \in DOMAIN es |-> Counted(es[k])]
           h == [k \in DOMAIN fs |-> Counted(fs[k])]
<1>1. /\ n \in Nat /\ DOMAIN es = 1..n /\ DOMAIN fs = 1..n /\ fs[i] = e
      /\ \A k \in 1..n : es[k] \in Expense /\ (k # i => fs[k] = es[k])
  OBVIOUS
<1>2. \A d \in Expense : Counted(d) \in Int
  BY CountedType
<1> HIDE DEF n, fs
<1>3. /\ \A k \in 1..n : f[k] \in Int
      /\ \A k \in (1..n) \ {i} : h[k] = f[k]
      /\ h[i] = Counted(e) /\ h[i] \in Int /\ f[i] = Counted(es[i])
  BY <1>1, <1>2
<1>4. IsFiniteSet(1..n) /\ i \in 1..n
  BY <1>1, FS_Interval
<1> HIDE DEF f, h
<1>5. SumFunctionOnSet(h, 1..n) = SumFunctionOnSet(f, 1..n) - f[i] + h[i]
  <2>1. PICK S : S = 1..n
    OBVIOUS
  <2>2. /\ IsFiniteSet(S) /\ i \in S /\ h[i] \in Int
        /\ \A x \in S : f[x] \in Int
        /\ \A x \in S \ {i} : h[x] = f[x]
    BY <1>3, <1>4, <2>1
  <2>3. SumFunctionOnSet(h, S) = SumFunctionOnSet(f, S) - f[i] + h[i]
    BY <2>2, SumChanged
  <2> QED BY <2>1, <2>3
<1>6. TotalOf(fs) = SumFunctionOnSet(h, 1..n) /\ TotalOf(es) = SumFunctionOnSet(f, 1..n)
  BY <1>1 DEF TotalOf, f, h
<1> QED BY <1>3, <1>5, <1>6 DEF fs

\* The check of an edit reads the expense, and finds nobody else at it.
LEMMA CheckedRow ==
  ASSUME IInv, NEW r \in Request, Checks(r)
  PROVE  \E v : /\ req' = [req EXCEPT ![r] = v]
                /\ BookOK(v)
                /\ Rewriting(v) => \A s \in Request : Rewriting(req[s]) => req[s].row # v.row
<1>1. CASE PostExpenses(r)
  <2>1. PICK u \in User, amount \in Amount, day \in Day, shares \in Shares :
          RecordCheck(r, u, amount, day, shares)
    BY <1>1 DEF PostExpenses
  <2> DEFINE e == [payer |-> member[u].id, paidBy |-> u, amount |-> amount, on |-> day,
                   shares |-> shares, live |-> TRUE]
  <2>2. PICK v : v = [pc |-> "record", expense |-> e]
    OBVIOUS
  <2>3. ~Rewriting(v) /\ v.expense.live
    BY <2>2 DEF Rewriting
  <2>4. req' = [req EXCEPT ![r] = v]
    BY <2>1, <2>2 DEF RecordCheck
  <2> QED BY <2>3, <2>4 DEF BookOK
<1>2. CASE PutExpenses(r)
  <2>1. PICK u \in User, k \in DOMAIN expenses, amount \in Amount, day \in Day :
          UpdateCheck(r, u, k, amount, day)
    BY <1>2 DEF PutExpenses
  <2>2. PICK v : v = [pc |-> "edit", row |-> k, old |-> expenses[k].amount,
                      amount |-> amount, on |-> day]
    OBVIOUS
  <2>3. req' = [req EXCEPT ![r] = v] /\ RowIsFree(k) /\ expenses[k].live
    BY <2>1, <2>2 DEF UpdateCheck, Editable, Holds
  <2>4. v.pc = "edit" /\ v.row = k /\ v.old = expenses[k].amount
    BY <2>2
  <2>5. \A s \in Request : Rewriting(req[s]) => req[s].row # v.row
    BY <2>3, <2>4 DEF Rewriting, RowIsFree
  <2>6. BookOK(v)
    BY <2>3, <2>4 DEF BookOK
  <2> QED BY <2>3, <2>5, <2>6
<1>3. CASE DeleteExpenses(r)
  <2>1. PICK u \in User, k \in DOMAIN expenses : DeleteCheck(r, u, k)
    BY <1>3 DEF DeleteExpenses
  <2>2. PICK v : v = [pc |-> "drop", row |-> k, old |-> expenses[k].amount]
    OBVIOUS
  <2>3. req' = [req EXCEPT ![r] = v] /\ RowIsFree(k) /\ expenses[k].live
    BY <2>1, <2>2 DEF DeleteCheck, Editable, Holds
  <2>4. v.pc = "drop" /\ v.row = k /\ v.old = expenses[k].amount
    BY <2>2
  <2>5. \A s \in Request : Rewriting(req[s]) => req[s].row # v.row
    BY <2>3, <2>4 DEF Rewriting, RowIsFree
  <2>6. BookOK(v)
    BY <2>3, <2>4 DEF BookOK
  <2> QED BY <2>3, <2>5, <2>6
<1> QED BY <1>1, <1>2, <1>3 DEF Checks

\* A write logs what the total gains, and leaves the other expenses alone.
LEMMA LoggedWrite ==
  ASSUME IInv, Booked, NEW r \in Request, Books(r)
  PROVE  /\ audited' = Total'
         /\ \A k \in DOMAIN expenses :
              (Rewriting(req[r]) => k # req[r].row) => expenses'[k] = expenses[k]
<1>0. /\ LocalOK(req[r]) /\ expenses \in Seq(Expense) /\ audited \in Int
      /\ audited = TotalOf(expenses) /\ BookOK(req[r])
  BY TotalIsOf DEF IInv, Typed, TypeOK, Booked, AuditExplainsTotal
<1> DEFINE q == req[r]
<1>1. CASE Record(r)
  <2>1. /\ q.pc = "record" /\ expenses' = Append(expenses, q.expense)
        /\ audited' = audited + q.expense.amount
    BY <1>1 DEF Record, Books
  <2>2. q.expense \in Expense
    BY <1>0, <2>1 DEF LocalOK
  <2>3. q.expense.live
    BY <1>0, <2>1 DEF BookOK
  <2> QED BY <1>0, <2>1, <2>2, <2>3, AppendedTotal, TotalNextOf DEF Counted
<1>2. CASE UpdateExpense(r)
  <2>1. q.pc = "edit" /\ expenses' = Edited(q) /\ audited' = audited - q.old + q.amount
    BY <1>2 DEF UpdateExpense, Books
  <2>2. q.row \in DOMAIN expenses /\ q.amount \in Amount /\ q.on \in Day
        /\ expenses[q.row].live /\ q.old = expenses[q.row].amount
    BY <1>0, <2>1 DEF LocalOK, BookOK, Rewriting
  <2>3. PICK i \in DOMAIN expenses : i = q.row
    BY <2>2
  <2>4. PICK e : e = [expenses[i] EXCEPT !.amount = q.amount, !.on = q.on]
    OBVIOUS
  <2>5. expenses[i] \in Expense
    BY <1>0
  <2>6. e \in Expense /\ e.live = expenses[i].live /\ e.amount = q.amount
    BY <2>2, <2>4, <2>5 DEF Expense
  <2>7. expenses' = [expenses EXCEPT ![i] = e]
    BY <1>0, <2>1, <2>3, <2>4 DEF Edited
  <2>8. TotalOf(expenses') = TotalOf(expenses) - Counted(expenses[i]) + Counted(e)
    BY <1>0, <2>6, <2>7, ChangedTotal
  <2>9. Counted(expenses[i]) = q.old /\ Counted(e) = q.amount
    BY <2>2, <2>3, <2>6 DEF Counted
  <2>10. \A k \in DOMAIN expenses : k # i => expenses'[k] = expenses[k]
    BY <1>0, <2>7
  <2> QED BY <1>0, <2>1, <2>3, <2>8, <2>9, <2>10, TotalNextOf DEF Rewriting
<1>3. CASE DeleteExpense(r)
  <2>1. q.pc = "drop" /\ expenses' = Dropped(q) /\ audited' = audited - q.old
    BY <1>3 DEF DeleteExpense, Books
  <2>2. /\ q.row \in DOMAIN expenses
        /\ expenses[q.row].live /\ q.old = expenses[q.row].amount /\ q.old \in Int
    BY <1>0, <2>1 DEF LocalOK, BookOK, Rewriting
  <2>3. PICK i \in DOMAIN expenses : i = q.row
    BY <2>2
  <2>4. PICK e : e = [expenses[i] EXCEPT !.live = FALSE]
    OBVIOUS
  <2>5. expenses[i] \in Expense
    BY <1>0
  <2>6. e \in Expense /\ ~e.live
    BY <2>4, <2>5 DEF Expense
  <2>7. expenses' = [expenses EXCEPT ![i] = e]
    BY <1>0, <2>1, <2>3, <2>4 DEF Dropped
  <2>8. TotalOf(expenses') = TotalOf(expenses) - Counted(expenses[i]) + Counted(e)
    BY <1>0, <2>6, <2>7, ChangedTotal
  <2>9. Counted(expenses[i]) = q.old /\ Counted(e) = 0
    BY <2>2, <2>3, <2>6 DEF Counted
  <2>10. \A k \in DOMAIN expenses : k # i => expenses'[k] = expenses[k]
    BY <1>0, <2>7
  <2>11. TotalOf(expenses') = TotalOf(expenses) - q.old
    BY <1>0, <2>2, <2>8, <2>9
  <2> QED BY <1>0, <2>1, <2>3, <2>10, <2>11, TotalNextOf DEF Rewriting
<1> QED BY <1>1, <1>2, <1>3 DEF Books

\* Where no expense changes, one request does, and its row is its own.
LEMMA BookedOn ==
  ASSUME IInv, Booked, NEW r \in Request, NEW v, req' = [req EXCEPT ![r] = v], BookOK(v),
         Rewriting(v) => \A s \in Request : Rewriting(req[s]) => req[s].row # v.row,
         UNCHANGED <<expenses, audited>>
  PROVE  Booked'
<1>1. DOMAIN req = Request
  BY DEF IInv, Typed, TypeOK
<1>2. req'[r] = v /\ \A s \in Request : s # r => req'[s] = req[s]
  BY <1>1
<1>3. AuditExplainsTotal'
  BY TotalIsOf, TotalNextOf DEF Booked, AuditExplainsTotal
<1>4. ASSUME NEW s \in Request PROVE BookOK(req[s])'
  BY <1>2 DEF Booked, BookOK
<1>5. ASSUME NEW s, NEW t, s \in Request, t \in Request, s # t,
             Rewriting(req'[s]), Rewriting(req'[t])
      PROVE  req'[s].row # req'[t].row
  BY <1>2, <1>5 DEF Booked
<1> QED BY <1>3, <1>4, <1>5 DEF Booked, Rewriting

\* A step of any other kind writes no expense, and checks none.
LEMMA BookedElsewhere ==
  ASSUME IInv, [Next]_vars
  PROVE  \/ \E r \in Request : Checks(r) \/ Books(r)
         \/ UNCHANGED <<expenses, audited, req>>
         \/ /\ UNCHANGED <<expenses, audited>>
            /\ \E r \in Request : \E v : req' = [req EXCEPT ![r] = v] /\ Quiet(v)
         \/ /\ UNCHANGED <<expenses, audited>>
            /\ \E r \in Request : \E v : req' = [req EXCEPT ![r] = v] /\ v.pc = "close"
<1>0. Quiet(Idle)
  BY DEF Quiet, Editing, Idle
<1>1. CASE UNCHANGED vars
  BY <1>1 DEF vars, tables, books
<1>2. CASE SettlePayments
  BY <1>2 DEF SettlePayments, books
<1>3. ASSUME NEW r \in Request, Rollback(r)
      PROVE  UNCHANGED <<expenses, audited>> /\ req' = [req EXCEPT ![r] = Idle]
  BY <1>3 DEF Rollback, End, tables, books
<1>4. ASSUME NEW r \in Request, Reads(r)
      PROVE  UNCHANGED <<expenses, audited>> /\ \E v : req' = [req EXCEPT ![r] = v] /\ Quiet(v)
  BY <1>4 DEF Reads, Goes, tables, books
<1>5. ASSUME NEW r \in Request, Enrolls(r) \/ Redates(r) \/ Closes(r)
      PROVE  UNCHANGED <<expenses, audited>> /\ req' = [req EXCEPT ![r] = Idle]
  BY <1>5, EnrollFacts, RedateFacts, CloseFacts DEF End
<1>6. ASSUME NEW r \in Request, Locks(r)
      PROVE  /\ UNCHANGED <<expenses, audited>>
             /\ \E v : req' = [req EXCEPT ![r] = v] /\ v.pc = "close"
  <2>1. PICK v : v = [pc |-> "close", members |-> ApprovedMembers]
    OBVIOUS
  <2>2. v.pc = "close"
    BY <2>1
  <2> QED BY <1>6, <2>1, <2>2, LockFacts
<1> QED BY <1>0, <1>1, <1>2, <1>3, <1>4, <1>5, <1>6, StepKinds

\* Every step keeps Booked.
LEMMA BookedNext == IInv /\ Booked /\ [Next]_vars => Booked'
<1> SUFFICES ASSUME IInv, Booked, [Next]_vars PROVE Booked'
  OBVIOUS
<1>1. DOMAIN req = Request
  BY DEF IInv, Typed, TypeOK
<1>2. CASE UNCHANGED <<expenses, audited, req>>
  BY <1>2, TotalIsOf, TotalNextOf DEF Booked, AuditExplainsTotal, BookOK
<1>3. ASSUME NEW r \in Request, NEW v, UNCHANGED <<expenses, audited>>,
             req' = [req EXCEPT ![r] = v], Quiet(v) \/ v.pc = "close"
      PROVE  Booked'
  <2>1. BookOK(v) /\ ~Rewriting(v)
    BY <1>3 DEF BookOK, Rewriting, Quiet, Editing
  <2> QED BY <1>3, <2>1, BookedOn
<1>4. ASSUME NEW r \in Request, Checks(r) PROVE Booked'
  <2>1. UNCHANGED <<expenses, audited>>
    BY <1>4, CheckFacts
  <2> QED BY <1>4, <2>1, CheckedRow, BookedOn
<1>5. ASSUME NEW r \in Request, Books(r) PROVE Booked'
  <2>1. req' = [req EXCEPT ![r] = Idle]
    BY <1>5, BookFacts DEF End
  <2>2. req'[r].pc = "idle" /\ \A s \in Request : s # r => req'[s] = req[s]
    BY <1>1, <2>1 DEF Idle
  <2>3. AuditExplainsTotal'
    BY <1>5, LoggedWrite DEF AuditExplainsTotal
  <2>4. ASSUME NEW s \in Request PROVE BookOK(req[s])'
    <3>1. CASE s = r
      BY <2>2, <3>1 DEF BookOK, Rewriting
    <3>2. CASE s # r
      <4>1. req'[s] = req[s] /\ BookOK(req[s]) /\ LocalOK(req[s])
        BY <2>2, <3>2 DEF Booked, IInv, Typed
      <4>2. ASSUME Rewriting(req[s]) PROVE expenses'[req[s].row] = expenses[req[s].row]
        <5>1. req[s].row \in DOMAIN expenses
          BY <4>1, <4>2 DEF LocalOK, Rewriting
        <5>2. Rewriting(req[r]) => req[s].row # req[r].row
          BY <3>2, <4>2 DEF Booked
        <5> QED BY <1>5, <5>1, <5>2, LoggedWrite
      <4> QED BY <4>1, <4>2 DEF BookOK, Rewriting
    <3> QED BY <3>1, <3>2
  <2>5. ASSUME NEW s, NEW t, s \in Request, t \in Request, s # t,
               Rewriting(req'[s]), Rewriting(req'[t])
        PROVE  req'[s].row # req'[t].row
    BY <2>2, <2>5 DEF Booked, Rewriting
  <2> QED BY <2>3, <2>4, <2>5 DEF Booked, Rewriting
<1> QED BY <1>2, <1>3, <1>4, <1>5, BookedElsewhere

\* To begin with there are no expenses.
LEMMA InitBooked == Init => Booked
<1> SUFFICES ASSUME Init PROVE Booked
  OBVIOUS
<1>1. expenses = << >> /\ audited = 0 /\ \A r \in Request : req[r].pc = "idle"
  BY DEF Init, Idle
<1>2. TotalOf(<< >>) = 0
  <2>1. PICK f : f = [k \in DOMAIN << >> |-> Counted(<< >>[k])]
    OBVIOUS
  <2>2. DOMAIN << >> = {} /\ IsFiniteSet({})
    BY FS_EmptySet
  <2>3. SumFunctionOnSet(f, {}) = 0
    BY <2>2, SumFacts
  <2> QED BY <2>1, <2>2, <2>3 DEF TotalOf
<1> QED BY <1>1, <1>2, TotalIsOf DEF Booked, AuditExplainsTotal, BookOK, Rewriting
-----------------------------------------------------------------------------
(***************************************************************************)
(* The parties of the settlement.                                          *)
(***************************************************************************)

\* Whom a close has listed is approved, or gone.
Listed(q) == q.pc = "close" => \A u \in q.members : HasRow(u) => Approved(u)

\* The parties of the plan are approved, and those of a plan about to be made.
Standing ==
  /\ Parties \subseteq User
  /\ PartiesStay
  /\ \A r \in Request : Listed(req[r])

\* What is recorded of an expense.
LEMMA ExpenseFacts ==
  ASSUME NEW e \in Expense
  PROVE  /\ e.amount \in Amount /\ e.amount \in Nat /\ e.paidBy \in User
         /\ DOMAIN e.shares \subseteq User
         /\ \A u \in DOMAIN e.shares : e.shares[u] \in 1..1000
<1>1. e.amount \in Amount /\ e.paidBy \in User /\ e.shares \in Shares
  BY DEF Expense
<1>2. ValidShares(e.shares)
  BY <1>1, TripAssumption
<1>3. e.amount \in Nat
  BY <1>1, TripAssumption
<1> QED BY ONLY <1>1, <1>2, <1>3 DEF ValidShares

\* The expenses that count are finitely many of the recorded ones.
LEMMA LiveFacts ==
  ASSUME IInv
  PROVE  /\ IsFiniteSet(DOMAIN Live)
         /\ \A k \in DOMAIN Live : /\ k \in DOMAIN expenses /\ expenses[k].live
                                   /\ Live[k] = expenses[k] /\ Live[k] \in Expense
<1>1. PICK n : n = Len(expenses) /\ n \in Nat /\ DOMAIN expenses = 1..n
               /\ \A k \in 1..n : expenses[k] \in Expense
  BY DEF IInv, Typed, TypeOK
<1>2. DOMAIN Live = {k \in 1..n : expenses[k].live} /\ \A k \in DOMAIN Live : Live[k] = expenses[k]
  BY <1>1 DEF Live, Restrict
<1>3. IsFiniteSet(1..n)
  <2>1. 1 \in Int /\ n \in Int
    BY <1>1
  <2> QED BY ONLY <2>1, FS_Interval
<1>4. IsFiniteSet(DOMAIN Live)
  BY <1>2, <1>3, FS_Subset
<1> QED BY <1>1, <1>2, <1>4

\* The balances of a close are integers, also if an expense is shared by somebody
\* who left, or its products overflow.
LEMMA SettlementTyped ==
  ASSUME IInv, NEW M \in SUBSET User
  PROVE  Balances(M, Live) \in [M -> Int]
<1>1. IsFiniteSet(M) /\ M \subseteq Nat
  BY FS_Subset, TripAssumption
<1>2. PICK l, net : l = Live /\ net = Balances(M, l)
  OBVIOUS
<1>3. IsFiniteSet(DOMAIN l) /\ \A i \in DOMAIN l : l[i] \in Expense
  BY <1>2, LiveFacts
<1>4. ASSUME NEW i \in DOMAIN l PROVE Splits(l[i], M)
  <2>1. PICK e \in Expense : e = l[i]
    BY <1>3
  <2>2. PICK P : P = Participants(e, M)
    OBVIOUS
  <2>3. /\ e.amount \in Nat /\ DOMAIN e.shares \subseteq User
        /\ \A u \in DOMAIN e.shares : e.shares[u] \in Nat
    <3>1. /\ e.amount \in Nat /\ DOMAIN e.shares \subseteq User
          /\ \A u \in DOMAIN e.shares : e.shares[u] \in 1..1000
      BY ExpenseFacts
    <3>2. \A x \in 1..1000 : x \in Nat
      OBVIOUS
    <3> QED BY ONLY <3>1, <3>2
  <2>4. P \subseteq User
    BY <2>2, <2>3 DEF Participants
  <2>5. IsFiniteSet(P) /\ P \subseteq Nat
    BY <2>4, FS_Subset, TripAssumption
  <2>6. \A u \in P : Weight(e, u) \in Int
    BY <2>2, <2>3 DEF Participants, Weight
  <2> QED BY <2>1, <2>2, <2>3, <2>5, <2>6 DEF Splits
<1>5. net \in [M -> Int]
  BY <1>2, <1>3, <1>4, BalancesType
<1> QED BY <1>2, <1>5

\* The plan of a close is one among the members it listed.
LEMMA PlanParties ==
  ASSUME IInv, NEW M \in SUBSET User, NEW k \in DOMAIN Settlement(M).plan
  PROVE  Settlement(M).plan[k].From \in M /\ Settlement(M).plan[k].To \in M
<1>1. IsFiniteSet(M) /\ M \subseteq Nat
  BY FS_Subset, TripAssumption
<1>2. PICK net : net = Balances(M, Live) /\ net \in [M -> Int]
  BY SettlementTyped
<1>3. Settlement(M).plan = computePlan(net)
  BY <1>2 DEF Settlement
<1>4. \A j \in DOMAIN computePlan(net) : computePlan(net)[j].From \in M /\ computePlan(net)[j].To \in M
  BY <1>1, <1>2, PlanPairs
<1> QED BY <1>3, <1>4

\* A close stores the settlement of whom it listed, and its parties have rows.
LEMMA ClosedRun ==
  ASSUME NEW r \in Request, Closes(r), NEW s, s = Settlement(req[r].members)
  PROVE  /\ req[r].pc = "close" /\ runs' = <<s>> /\ member' = member /\ expenses' = expenses
         /\ req' = [req EXCEPT ![r] = Idle]
         /\ \A k \in DOMAIN s.plan : HasRow(s.plan[k].From) /\ HasRow(s.plan[k].To)
BY DEF Closes, Close, End, books

\* A row changes other than by a removal only while no close is under way.
LEMMA EnrollWaits ==
  ASSUME IInv, NEW r \in Request, Enrolls(r)
  PROVE  closer = None \/ \E u \in User : Removes(u)
<1>1. CASE RemoveDelete(r)
  <2>1. Removes(req[r].target) /\ req[r].pc = "delete"
    BY <1>1 DEF RemoveDelete, Enrolls, Referred, Removes
  <2> QED BY <2>1 DEF IInv, Typed, LocalOK
<1> QED BY <1>1 DEF Enrolls, JoinInsert, Decide, TransferAdmin

\* Neither a membership nor the settlement changes, and one request does.
LEMMA StandingOn ==
  ASSUME IInv, Standing, NEW r \in Request, NEW v, req' = [req EXCEPT ![r] = v], Listed(v),
         UNCHANGED <<member, runs>>
  PROVE  Standing'
<1>1. req'[r] = v /\ \A q \in Request : q # r => req'[q] = req[q]
  BY DEF IInv, Typed, TypeOK
<1>2. Parties' = Parties
  BY DEF Parties, HasRun, run
<1>3. \A u : (HasRow(u)' <=> HasRow(u)) /\ (Approved(u)' <=> Approved(u))
  BY DEF HasRow, Approved
<1>4. ASSUME NEW q \in Request PROVE Listed(req[q])'
  BY <1>1, <1>3 DEF Listed, Standing
<1> QED BY <1>2, <1>3, <1>4 DEF Standing, PartiesStay

\* Every step keeps Standing.
LEMMA StandingNext == IInv /\ Standing /\ [Next]_vars => Standing'
<1> SUFFICES ASSUME IInv, Standing, [Next]_vars PROVE Standing'
  OBVIOUS
<1>0. Listed(Idle)
  BY DEF Listed, Idle
<1>1. DOMAIN req = Request /\ member \in [User -> Row \cup {None}] /\ Locked /\ None \notin Request
  BY TripAssumption DEF IInv, Typed, TypeOK
<1>2. ASSUME UNCHANGED <<member, runs, req>> PROVE Standing'
  BY <1>2 DEF Standing, Parties, PartiesStay, HasRun, run, Listed, HasRow, Approved
<1>3. CASE UNCHANGED vars \/ SettlePayments
  BY <1>2, <1>3 DEF vars, tables, SettlePayments
<1>4. ASSUME NEW r \in Request, Rollback(r) PROVE Standing'
  BY <1>0, <1>4, StandingOn DEF Rollback, End, tables
<1>5. ASSUME NEW r \in Request, Reads(r) PROVE Standing'
  <2>1. PICK v : Goes(r, v) /\ Quiet(v)
    BY <1>5 DEF Reads
  <2>2. Listed(v)
    BY <2>1 DEF Listed, Quiet
  <2> QED BY <2>1, <2>2, StandingOn DEF Goes, tables
<1>6. ASSUME NEW r \in Request, Checks(r) PROVE Standing'
  <2>1. UNCHANGED <<member, runs>>
    BY <1>6, CheckFacts
  <2>2. PICK v : req' = [req EXCEPT ![r] = v] /\ v.pc \in Editing
    BY <1>6, CheckFacts
  <2>3. Listed(v)
    BY <2>2 DEF Listed, Editing
  <2> QED BY <2>1, <2>2, <2>3, StandingOn
<1>7. ASSUME NEW r \in Request, Enrolls(r) PROVE Standing'
  <2>1. req' = [req EXCEPT ![r] = Idle] /\ runs' = runs /\ req[r].pc # "close"
    BY <1>7, EnrollFacts DEF End, Quiet
  <2>2. PICK u \in User : /\ Asks(u) \/ Decides(u) \/ Promotes(u) \/ Removes(u)
                          /\ closer = None \/ Removes(u)
    BY <1>7, EnrollFacts, EnrollWaits
  <2>3. Parties' = Parties
    BY <2>1 DEF Parties, HasRun, run
  <2>4. \A v \in User : Approved(v) /\ (Removes(u) => v # u) => Approved(v)'
    BY <2>2, EnrollKeeps
  <2>5. Removes(u) => u \notin Parties
    BY DEF Removes
  <2>6. Parties' \subseteq User /\ PartiesStay'
    BY <2>3, <2>4, <2>5 DEF Standing, PartiesStay
  <2>7. req'[r].pc = "idle" /\ \A q \in Request : q # r => req'[q] = req[q]
    BY <1>1, <2>1 DEF Idle
  <2>8. ASSUME NEW q \in Request, req'[q].pc = "close", NEW v \in req'[q].members, HasRow(v)'
        PROVE  Approved(v)'
    <3>1. q # r /\ req[q].pc = "close" /\ v \in req[q].members /\ v \in User
      BY <2>7, <2>8 DEF IInv, Typed, LocalOK
    <3>2. Removes(u)
      BY <1>1, <2>2, <3>1 DEF Locked
    <3>3. member' = [member EXCEPT ![u] = None]
      BY <3>2 DEF Removes
    <3>4. v # u /\ member'[v] = member[v]
      BY <1>1, <2>8, <3>1, <3>3 DEF HasRow
    <3>5. HasRow(v)
      BY <2>8, <3>4 DEF HasRow
    <3>6. Approved(v)
      BY <3>1, <3>5 DEF Standing, Listed
    <3> QED BY <2>4, <3>1, <3>4, <3>6
  <2> QED BY <2>6, <2>8 DEF Standing, Listed
<1>8. ASSUME NEW r \in Request, Books(r) PROVE Standing'
  BY <1>0, <1>8, BookFacts, StandingOn DEF End
<1>9. ASSUME NEW r \in Request, Redates(r) PROVE Standing'
  BY <1>0, <1>9, RedateFacts, StandingOn DEF End
<1>10. ASSUME NEW r \in Request, Locks(r) PROVE Standing'
  <2>1. PICK v : v = [pc |-> "close", members |-> ApprovedMembers]
    OBVIOUS
  <2>2. req' = [req EXCEPT ![r] = v] /\ UNCHANGED <<member, runs>>
    BY <1>10, <2>1, LockFacts
  <2>3. Listed(v)
    BY <2>1 DEF Listed, ApprovedMembers
  <2> QED BY <2>2, <2>3, StandingOn
<1>11. ASSUME NEW r \in Request, Closes(r) PROVE Standing'
  <2>1. PICK M, s : M = req[r].members /\ s = Settlement(M)
    OBVIOUS
  <2>2. /\ req[r].pc = "close" /\ runs' = <<s>> /\ member' = member
        /\ req' = [req EXCEPT ![r] = Idle]
        /\ \A k \in DOMAIN s.plan : HasRow(s.plan[k].From) /\ HasRow(s.plan[k].To)
    BY <1>11, <2>1, ClosedRun
  <2>3. M \in SUBSET User /\ \A u \in M : HasRow(u) => Approved(u)
    BY <2>1, <2>2 DEF IInv, Typed, LocalOK, Standing, Listed
  <2>4. \A k \in DOMAIN s.plan : s.plan[k].From \in M /\ s.plan[k].To \in M
    BY <2>1, <2>3, PlanParties
  <2>5. HasRun' /\ run' = s
    BY <2>2 DEF HasRun, run
  <2>6. Parties' = {s.plan[k].From : k \in DOMAIN s.plan} \cup {s.plan[k].To : k \in DOMAIN s.plan}
    BY <2>5 DEF Parties
  <2>7. \A u \in Parties' : u \in User /\ Approved(u)
    BY <2>2, <2>3, <2>4, <2>6
  <2>8. \A u : (HasRow(u)' <=> HasRow(u)) /\ (Approved(u)' <=> Approved(u))
    BY <2>2 DEF HasRow, Approved
  <2>9. req'[r].pc = "idle" /\ \A q \in Request : q # r => req'[q] = req[q]
    BY <1>1, <2>2 DEF Idle
  <2>10. ASSUME NEW q \in Request PROVE Listed(req[q])'
    BY <2>8, <2>9 DEF Listed, Standing
  <2> QED BY <2>7, <2>8, <2>10 DEF Standing, PartiesStay
<1> QED BY <1>3, <1>4, <1>5, <1>6, <1>7, <1>8, <1>9, <1>10, <1>11, StepKinds

\* To begin with there is no settlement.
LEMMA InitStanding == Init => Standing
<1> SUFFICES ASSUME Init PROVE Standing
  OBVIOUS
<1>1. runs = << >> /\ \A r \in Request : req[r].pc = "idle"
  BY DEF Init, Idle
<1> QED BY <1>1 DEF Standing, Parties, PartiesStay, HasRun, Listed
-----------------------------------------------------------------------------
(***************************************************************************)
(* One request at a time.                                                  *)
(*                                                                         *)
(* Two removals, transfers and expenses that overlap can leave a group     *)
(* without an admin, and an expense with a participant who is gone: what   *)
(* was read of a member is not looked at again.  Request after request     *)
(* neither can happen.                                                     *)
(***************************************************************************)
Alone == \A r, s \in Request : r = s

\* What the request has read of the members is still so.
ReadOK(q) ==
  /\ q.pc \in {"check", "delete"} /\ HasRow(q.target) => member[q.target].role # "group_admin"
  /\ q.pc = "delete" => ~HasShares(q.target)
  /\ q.pc = "record" => \A v \in DOMAIN q.expense.shares : Approved(v)
  /\ q.pc = "close" => q.members = ApprovedMembers

Serial ==
  /\ \E a \in User : Admins = {a}
  /\ SharersAreApproved
  /\ \A r \in Request : ReadOK(req[r])

\* The removal that r is at the end of.
Deletes(r, u) ==
  Removes(u) /\ req[r].pc = "delete" /\ req[r].target = u

\* Of the four changes of a membership, only a removal takes a row away.
LEMMA EnrollKinds ==
  ASSUME IInv, NEW r \in Request, Enrolls(r)
  PROVE  \E u \in User : /\ Asks(u) \/ Decides(u) \/ Promotes(u) \/ Deletes(r, u)
                         /\ Removes(u) => Deletes(r, u)
<1>0. LocalOK(req[r]) /\ member \in [User -> Row \cup {None}] /\ None \notin Row
      /\ \A u \in User : HasRow(u) => member[u] \in Row
  BY RowAssumption, RowFacts DEF IInv, Typed, TypeOK
<1>1. CASE JoinInsert(r)
  <2>1. req[r].user \in User /\ Asks(req[r].user)
    BY <1>0, <1>1 DEF JoinInsert, Enrolls, Asks, LocalOK
  <2> QED BY <2>1 DEF Asks, Removes
<1>2. CASE Decide(r)
  <2>1. PICK t \in User : t = req[r].target
    BY <1>0, <1>2 DEF Decide, LocalOK
  <2>2. /\ HasRow(t) /\ member[t].st = "requested"
        /\ member' = [member EXCEPT ![t].st = req[r].decision] /\ rows' = rows
        /\ req[r].decision \in {"approved", "rejected"}
    BY <1>0, <1>2, <2>1 DEF Decide, Enrolls, LocalOK
  <2>3. Decides(t)
    BY <2>2 DEF Decides
  <2>4. [member[t] EXCEPT !.st = req[r].decision] \in Row
    BY <1>0, <2>2 DEF Row, MembershipStatus
  <2>5. member'[t] # None
    BY <1>0, <2>2, <2>4
  <2>6. ~Removes(t)
    BY <1>0, <2>5 DEF Removes
  <2> QED BY <2>3, <2>6
<1>3. CASE TransferAdmin(r)
  <2>1. PICK t \in User : t = req[r].target
    BY <1>0, <1>3 DEF TransferAdmin, LocalOK
  <2>2. Promotes(t)
    BY <1>3, <2>1 DEF TransferAdmin, Enrolls, Transferable, Promotes
  <2>3. HasRow(t) /\ member'[t] = [member[t] EXCEPT !.role = "group_admin"]
    BY <2>2 DEF Promotes, Promoted, Approved
  <2>4. member'[t] \in Row
    BY <1>0, <2>3 DEF Row
  <2>5. ~Removes(t)
    BY <1>0, <2>4 DEF Removes
  <2> QED BY <2>2, <2>5
<1>4. CASE RemoveDelete(r)
  <2>1. PICK t \in User : t = req[r].target
    BY <1>0, <1>4 DEF RemoveDelete, LocalOK
  <2>2. Deletes(r, t)
    BY <1>4, <2>1 DEF RemoveDelete, Enrolls, Referred, Removes, Deletes
  <2> QED BY <2>2
<1> QED BY <1>1, <1>2, <1>3, <1>4 DEF Enrolls

\* A change of one membership, by the only request there is, leaves one admin.
LEMMA EnrollSerial ==
  ASSUME IInv, Serial, NEW r \in Request, Enrolls(r)
  PROVE  (\E a \in User : Admins = {a})' /\ SharersAreApproved'
<1>1. PICK u \in User : /\ Asks(u) \/ Decides(u) \/ Promotes(u) \/ Deletes(r, u)
                        /\ Removes(u) => Deletes(r, u)
  BY EnrollKinds
<1>2. Asks(u) \/ Decides(u) \/ Promotes(u) \/ Removes(u)
  BY <1>1 DEF Deletes
<1>3. \A v \in User : Approved(v) /\ (Removes(u) => v # u) => Approved(v)'
  BY <1>2, EnrollKeeps
<1>4. /\ member \in [User -> Row \cup {None}] /\ None \notin Row
      /\ \A v \in User : HasRow(v) => member[v] \in Row
      /\ ReadOK(req[r])
  BY RowAssumption, RowFacts DEF IInv, Typed, TypeOK, Serial
<1>5. expenses' = expenses /\ expenses \in Seq(Expense)
  BY EnrollFacts DEF IInv, Typed, TypeOK
<1>6. SharersAreApproved'
  <2> SUFFICES ASSUME NEW k \in DOMAIN expenses, expenses[k].live,
                      NEW v \in DOMAIN expenses[k].shares
               PROVE  Approved(v)'
    BY <1>5 DEF SharersAreApproved
  <2>1. Approved(v)
    BY DEF Serial, SharersAreApproved
  <2>2. v \in User
    <3>1. expenses[k] \in Expense
      BY <1>5
    <3>2. expenses[k].shares \in Shares
      BY <3>1 DEF Expense
    <3> QED BY <3>2, TripAssumption DEF ValidShares
  <2>3. ASSUME Removes(u) PROVE v # u
    BY <1>1, <1>4, <2>3 DEF Deletes, ReadOK, HasShares
  <2> QED BY <1>3, <2>1, <2>2, <2>3
<1>7. PICK a \in User : Admins = {a}
  BY DEF Serial
<1>8. /\ \A v \in User : (member[v] # None /\ member[v].role = "group_admin") <=> v = a
      /\ Admins' = {v \in User : member'[v] # None /\ member'[v].role = "group_admin"}
  BY <1>7 DEF Admins, HasRow
<1>9. CASE Asks(u)
  <2>1. /\ member[u] = None /\ member'[u].role = "member"
        /\ \A v \in User : v # u => member'[v] = member[v]
    BY <1>4, <1>9 DEF Asks, HasRow
  <2> QED BY <1>6, <1>8, <2>1
<1>10. CASE Decides(u)
  <2>1. PICK d \in {"approved", "rejected"} : member' = [member EXCEPT ![u].st = d]
    BY <1>10 DEF Decides
  <2>2. member[u] # None /\ member[u] \in Row
    BY <1>4, <1>10 DEF Decides, HasRow
  <2>3. [member[u] EXCEPT !.st = d] \in Row /\ [member[u] EXCEPT !.st = d].role = member[u].role
    BY <2>2 DEF Row, MembershipStatus
  <2>4. member'[u] = [member[u] EXCEPT !.st = d] /\ \A v \in User : v # u => member'[v] = member[v]
    BY <1>4, <2>1
  <2>5. member'[u] # None /\ member'[u].role = member[u].role
    BY <1>4, <2>3, <2>4
  <2>6. \A v \in User : (member'[v] # None /\ member'[v].role = "group_admin") <=> v = a
    <3>1. ASSUME NEW v \in User, v # u
          PROVE  (member'[v] # None /\ member'[v].role = "group_admin") <=> v = a
      <4>1. member'[v] = member[v]
        BY <2>4, <3>1
      <4> QED BY <1>8, <4>1
    <3>2. (member'[u] # None /\ member'[u].role = "group_admin") <=> u = a
      BY <1>8, <2>2, <2>5
    <3> QED BY <3>1, <3>2
  <2> QED BY <1>6, <1>8, <2>6
<1>11. CASE Promotes(u)
  <2>1. \A v \in User : member'[v] =
             IF HasRow(v) THEN [member[v] EXCEPT !.role = IF v = u THEN "group_admin" ELSE "member"]
             ELSE None
    BY <1>11 DEF Promotes, Promoted
  <2>2. HasRow(u)
    BY <1>11 DEF Promotes, Approved
  <2>3. \A v \in User : HasRow(v) =>
          member'[v] \in Row /\ member'[v].role = IF v = u THEN "group_admin" ELSE "member"
    BY <1>4, <2>1 DEF Row
  <2>4. Admins' = {u}
    BY <1>4, <1>8, <2>1, <2>2, <2>3
  <2> QED BY <1>6, <2>4
<1>12. CASE Deletes(r, u)
  <2>1. /\ member'[u] = None /\ \A v \in User : v # u => member'[v] = member[v]
        /\ HasRow(u) /\ u # a
    BY <1>4, <1>8, <1>12 DEF Deletes, Removes, ReadOK, HasRow
  <2> QED BY <1>6, <1>8, <2>1
<1> QED BY <1>1, <1>9, <1>10, <1>11, <1>12

\* A write to the expenses keeps who shares them, or adds the one that was checked.
LEMMA BookShares ==
  ASSUME IInv, NEW r \in Request, Books(r), NEW k \in DOMAIN expenses'
  PROVE  \/ /\ k \in DOMAIN expenses /\ expenses'[k].shares = expenses[k].shares
            /\ expenses'[k].live => expenses[k].live
         \/ req[r].pc = "record" /\ expenses'[k] = req[r].expense
<1>0. LocalOK(req[r]) /\ expenses \in Seq(Expense)
  BY DEF IInv, Typed, TypeOK
<1> DEFINE n == Len(expenses)
           q == req[r]
<1>1. n \in Nat /\ DOMAIN expenses = 1..n /\ \A i \in 1..n : expenses[i] \in Expense
  BY <1>0
<1>2. CASE Record(r)
  <2>1. q.pc = "record" /\ expenses' = Append(expenses, q.expense)
    BY <1>2 DEF Record, Books
  <2>2. q.expense \in Expense
    BY <1>0, <2>1 DEF LocalOK
  <2>3. PICK e \in Expense : e = q.expense
    BY <2>2
  <2>4. k \in 1..n \/ k = n + 1
    BY <1>0, <1>1, <2>1, <2>3
  <2>5. k \in 1..n => expenses'[k] = expenses[k]
    BY <1>0, <1>1, <2>1, <2>3
  <2>6. k = n + 1 => expenses'[k] = e
    BY <1>0, <1>1, <2>1, <2>3
  <2> QED BY <1>1, <2>1, <2>3, <2>4, <2>5, <2>6
<1>3. CASE UpdateExpense(r)
  <2>1. expenses' = Edited(q) /\ q.row \in 1..n
    BY <1>0, <1>1, <1>3 DEF UpdateExpense, LocalOK
  <2>2. k \in 1..n
    BY <1>0, <1>1, <2>1 DEF Edited
  <2>3. \/ expenses'[k] = expenses[k]
        \/ expenses'[k] = [expenses[k] EXCEPT !.amount = q.amount, !.on = q.on]
    BY <1>0, <1>1, <2>1, <2>2 DEF Edited
  <2>4. expenses[k] \in Expense
    BY <1>1, <2>2
  <2>5. expenses'[k].shares = expenses[k].shares /\ expenses'[k].live = expenses[k].live
    BY <2>3, <2>4 DEF Expense
  <2> QED BY <1>1, <2>2, <2>5
<1>4. CASE DeleteExpense(r)
  <2>1. expenses' = Dropped(q) /\ q.row \in 1..n
    BY <1>0, <1>1, <1>4 DEF DeleteExpense, LocalOK
  <2>2. k \in 1..n
    BY <1>0, <1>1, <2>1 DEF Dropped
  <2>3. expenses'[k] = expenses[k] \/ expenses'[k] = [expenses[k] EXCEPT !.live = FALSE]
    BY <1>0, <1>1, <2>1, <2>2 DEF Dropped
  <2>4. expenses[k] \in Expense
    BY <1>1, <2>2
  <2>5. expenses'[k].shares = expenses[k].shares /\ (expenses'[k].live => expenses[k].live)
    BY <2>3, <2>4 DEF Expense
  <2> QED BY <1>1, <2>2, <2>5
<1> QED BY <1>2, <1>3, <1>4 DEF Books

\* What a request has read, when it reads on: the members are as it found them.
LEMMA ReadsOn ==
  ASSUME IInv, Serial, NEW r \in Request, Arrive(r) \/ RemoveCheck(r) \/ SummaryPaid(r)
           \/ SummaryAllocated(r) \/ CloseLock(r)
  PROVE  Rollback(r) \/ \E v : req' = [req EXCEPT ![r] = v] /\ ReadOK(v)
<1>1. ASSUME NEW v, req' = [req EXCEPT ![r] = v], v.pc \notin {"check", "delete", "record", "close"}
      PROVE  \E w : req' = [req EXCEPT ![r] = w] /\ ReadOK(w)
  BY <1>1 DEF ReadOK
<1>2. CASE DeleteMembers(r)
  <2>1. PICK u \in User, t \in User : RemoveRead(r, u, t)
    BY <1>2 DEF DeleteMembers
  <2>2. PICK v : v = [pc |-> "check", target |-> t, id |-> member[t].id]
    OBVIOUS
  <2>3. req' = [req EXCEPT ![r] = v] /\ member[t].role # "group_admin"
    BY <2>1, <2>2 DEF RemoveRead, Goes
  <2>4. v.pc = "check" /\ v.target = t
    BY <2>2
  <2> QED BY <2>3, <2>4 DEF ReadOK
<1>3. CASE RemoveCheck(r)
  <2>1. PICK v : v = [req[r] EXCEPT !.pc = "delete"]
    OBVIOUS
  <2>2. req[r].pc = "check" /\ ReadOK(req[r])
    BY <1>3 DEF RemoveCheck, Serial
  <2>3. v.pc = "delete" /\ v.target = req[r].target
    BY <2>1, <2>2
  <2>4. ASSUME ~Rollback(r) PROVE req' = [req EXCEPT ![r] = v] /\ ~HasShares(req[r].target)
    BY <1>3, <2>1, <2>4 DEF RemoveCheck, Goes, Involved
  <2> QED BY <2>2, <2>3, <2>4 DEF ReadOK
<1>4. CASE PostExpenses(r)
  <2>1. PICK u \in User, amount \in Amount, day \in Day, shares \in Shares :
          RecordCheck(r, u, amount, day, shares)
    BY <1>4 DEF PostExpenses
  <2> DEFINE e == [payer |-> member[u].id, paidBy |-> u, amount |-> amount, on |-> day,
                   shares |-> shares, live |-> TRUE]
  <2>2. PICK v : v = [pc |-> "record", expense |-> e]
    OBVIOUS
  <2>3. req' = [req EXCEPT ![r] = v] /\ \A w \in DOMAIN shares : Approved(w)
    BY <2>1, <2>2 DEF RecordCheck
  <2>4. v.pc = "record" /\ v.expense.shares = shares
    BY <2>2
  <2> QED BY <2>3, <2>4 DEF ReadOK
<1>5. CASE PutGroup(r)
  <2>1. PICK u \in User, d \in Dates : UpdateRead(r, u, d)
    BY <1>5 DEF PutGroup
  <2>2. PICK v : v = [pc |-> "update", dates |-> d]
    OBVIOUS
  <2>3. req' = [req EXCEPT ![r] = v] /\ v.pc \notin {"check", "delete", "record", "close"}
    BY <2>1, <2>2 DEF UpdateRead, Goes
  <2> QED BY <1>1, <2>3
<1>6. CASE PostClose(r)
  <2>1. PICK u \in User : CloseRead(r, u)
    BY <1>6 DEF PostClose
  <2>2. PICK v : v = [pc |-> "lock"]
    OBVIOUS
  <2>3. req' = [req EXCEPT ![r] = v] /\ v.pc \notin {"check", "delete", "record", "close"}
    BY <2>1, <2>2 DEF CloseRead, Goes
  <2> QED BY <1>1, <2>3
<1>7. CASE PostJoin(r)
  <2>1. PICK u \in User : JoinRead(r, u)
    BY <1>7 DEF PostJoin
  <2>2. PICK v : v = [pc |-> "join", user |-> u]
    OBVIOUS
  <2>3. req' = [req EXCEPT ![r] = v] /\ v.pc \notin {"check", "delete", "record", "close"}
    BY <2>1, <2>2 DEF JoinRead, Goes
  <2> QED BY <1>1, <2>3
<1>8. CASE PostMembers(r)
  <2>1. PICK u \in User, t \in User, d \in {"approved", "rejected"} : DecideRead(r, u, t, d)
    BY <1>8 DEF PostMembers
  <2>2. PICK v : v = [pc |-> "decide", target |-> t, decision |-> d]
    OBVIOUS
  <2>3. req' = [req EXCEPT ![r] = v] /\ v.pc \notin {"check", "delete", "record", "close"}
    BY <2>1, <2>2 DEF DecideRead, Goes
  <2> QED BY <1>1, <2>3
<1>9. CASE PostTransferAdmin(r)
  <2>1. PICK u \in User, t \in User : TransferRead(r, u, t)
    BY <1>9 DEF PostTransferAdmin
  <2>2. PICK v : v = [pc |-> "transfer", target |-> t]
    OBVIOUS
  <2>3. req' = [req EXCEPT ![r] = v] /\ v.pc \notin {"check", "delete", "record", "close"}
    BY <2>1, <2>2 DEF TransferRead, Goes
  <2> QED BY <1>1, <2>3
<1>10. CASE PutExpenses(r)
  <2>1. PICK u \in User, k \in DOMAIN expenses, amount \in Amount, day \in Day : UpdateCheck(r, u, k, amount, day)
    BY <1>10 DEF PutExpenses
  <2>2. PICK v : v = [pc |-> "edit", row |-> k, old |-> expenses[k].amount,
                      amount |-> amount, on |-> day]
    OBVIOUS
  <2>3. req' = [req EXCEPT ![r] = v] /\ v.pc \notin {"check", "delete", "record", "close"}
    BY <2>1, <2>2 DEF UpdateCheck, Holds
  <2> QED BY <1>1, <2>3
<1>11. CASE DeleteExpenses(r)
  <2>1. PICK u \in User, k \in DOMAIN expenses : DeleteCheck(r, u, k)
    BY <1>11 DEF DeleteExpenses
  <2>2. PICK v : v = [pc |-> "drop", row |-> k, old |-> expenses[k].amount]
    OBVIOUS
  <2>3. req' = [req EXCEPT ![r] = v] /\ v.pc \notin {"check", "delete", "record", "close"}
    BY <2>1, <2>2 DEF DeleteCheck, Holds
  <2> QED BY <1>1, <2>3
<1>12. CASE GetSummary(r)
  <2>1. PICK u \in User : SummaryRead(r, u)
    BY <1>12 DEF GetSummary
  <2>2. PICK v : v = [pc |-> "paid", status |-> status]
    OBVIOUS
  <2>3. req' = [req EXCEPT ![r] = v] /\ v.pc \notin {"check", "delete", "record", "close"}
    BY <2>1, <2>2 DEF SummaryRead, Goes
  <2> QED BY <1>1, <2>3
<1>13. CASE SummaryPaid(r)
  <2>2. PICK v : v = [pc |-> "allocated", status |-> req[r].status, paid |-> Total]
    OBVIOUS
  <2>3. req' = [req EXCEPT ![r] = v] /\ v.pc \notin {"check", "delete", "record", "close"}
    BY <1>13, <2>2 DEF SummaryPaid, Goes
  <2> QED BY <1>1, <2>3
<1>14. CASE SummaryAllocated(r)
  <2>2. PICK v : v = [pc |-> "answer", status |-> StatusRead(req[r]), paid |-> req[r].paid,
                      allocated |-> Total]
    OBVIOUS
  <2>3. req' = [req EXCEPT ![r] = v] /\ v.pc \notin {"check", "delete", "record", "close"}
    BY <1>14, <2>2 DEF SummaryAllocated, Goes
  <2> QED BY <1>1, <2>3
<1>15. CASE CloseLock(r)
  <2>2. PICK v : v = [pc |-> "close", members |-> ApprovedMembers]
    OBVIOUS
  <2>3. Rollback(r) \/ req' = [req EXCEPT ![r] = v]
    BY <1>15, <2>2 DEF CloseLock
  <2>4. ReadOK(v)
    BY <2>2 DEF ReadOK
  <2> QED BY <2>3, <2>4
<1> QED BY <1>2, <1>3, <1>4, <1>5, <1>6, <1>7, <1>8, <1>9, <1>10, <1>11, <1>12,
          <1>13, <1>14, <1>15 DEF Arrive

\* Members and expenses as they were, and the one request as it should be.
LEMMA SerialOn ==
  ASSUME IInv, Serial, Alone, NEW r \in Request, NEW v, req' = [req EXCEPT ![r] = v], ReadOK(v),
         UNCHANGED <<member, expenses>>
  PROVE  Serial'
<1>1. DOMAIN req = Request
  BY DEF IInv, Typed, TypeOK
<1>2. \A s \in Request : req'[s] = v
  BY <1>1 DEF Alone
<1>3. Admins' = Admins /\ SharersAreApproved'
  BY DEF Serial, Admins, HasRow, SharersAreApproved, Approved
<1>4. ReadOK(v)'
  BY DEF ReadOK, HasRow, HasShares, Approved, ApprovedMembers
<1>5. \A s \in Request : ReadOK(req[s])'
  BY <1>2, <1>4 DEF ReadOK
<1> QED BY <1>3, <1>5 DEF Serial

\* One request at a time keeps Serial.
LEMMA SerialNext == IInv /\ Serial /\ Alone /\ [Next]_vars => Serial'
<1> SUFFICES ASSUME IInv, Serial, Alone, [Next]_vars PROVE Serial'
  OBVIOUS
<1>0. ReadOK(Idle) /\ ReadOK(Idle)' /\ DOMAIN req = Request
  BY DEF ReadOK, Idle, IInv, Typed, TypeOK
<1>1. CASE UNCHANGED vars
  BY <1>1 DEF vars, tables, books, Serial, Admins, HasRow, SharersAreApproved, Approved,
              ReadOK, HasShares, ApprovedMembers
<1>2. CASE SettlePayments
  BY <1>2 DEF SettlePayments, books, Serial, Admins, HasRow, SharersAreApproved, Approved,
              ReadOK, HasShares, ApprovedMembers
<1>3. ASSUME NEW r \in Request, Rollback(r) PROVE Serial'
  BY <1>0, <1>3, SerialOn DEF Rollback, End, tables, books
<1>4. ASSUME NEW r \in Request, Arrive(r) \/ RemoveCheck(r) \/ SummaryPaid(r)
               \/ SummaryAllocated(r) \/ CloseLock(r)
      PROVE  Serial'
  <2>1. UNCHANGED <<member, expenses>>
    BY <1>4 DEF Arrive, PutGroup, PostClose, PostJoin, PostMembers, PostTransferAdmin,
         DeleteMembers, PostExpenses, PutExpenses, DeleteExpenses, GetSummary, UpdateRead,
         CloseRead, JoinRead, DecideRead, TransferRead, RemoveRead, RecordCheck, UpdateCheck,
         DeleteCheck, SummaryRead, RemoveCheck, SummaryPaid, SummaryAllocated, CloseLock, Holds,
         Goes, Rollback, tables, books
  <2> QED BY <1>3, <1>4, <2>1, ReadsOn, SerialOn
<1>5. ASSUME NEW r \in Request, Enrolls(r) PROVE Serial'
  <2>1. req' = [req EXCEPT ![r] = Idle]
    BY <1>5, EnrollFacts DEF End
  <2>2. \A s \in Request : req'[s] = Idle
    BY <1>0, <2>1 DEF Alone
  <2>3. \A s \in Request : ReadOK(req[s])'
    BY <1>0, <2>2 DEF ReadOK
  <2> QED BY <1>5, <2>3, EnrollSerial DEF Serial
<1>6. ASSUME NEW r \in Request, Books(r) PROVE Serial'
  <2>1. req' = [req EXCEPT ![r] = Idle] /\ member' = member
    BY <1>6, BookFacts DEF End
  <2>2. \A s \in Request : req'[s] = Idle
    BY <1>0, <2>1 DEF Alone
  <2>3. \A s \in Request : ReadOK(req[s])'
    BY <1>0, <2>2 DEF ReadOK
  <2>4. Admins' = Admins
    BY <2>1 DEF Admins, HasRow
  <2>5. ASSUME NEW k \in DOMAIN expenses', expenses'[k].live,
               NEW u \in DOMAIN expenses'[k].shares
        PROVE  Approved(u)'
    <3>1. Approved(u)
      BY <1>6, <2>5, BookShares DEF Serial, SharersAreApproved, ReadOK
    <3> QED BY <2>1, <3>1 DEF Approved, HasRow
  <2>6. SharersAreApproved'
    BY <2>5 DEF SharersAreApproved
  <2> QED BY <2>3, <2>4, <2>6 DEF Serial
<1>7. ASSUME NEW r \in Request, UpdateOpenGroup(r) \/ Close(r) PROVE Serial'
  <2>1. req' = [req EXCEPT ![r] = Idle] /\ UNCHANGED <<member, expenses>>
    BY <1>7 DEF UpdateOpenGroup, Close, Rollback, End, tables, books
  <2> QED BY <1>0, <2>1, SerialOn
<1>8. ASSUME NEW r \in Request, Work(r) PROVE Serial'
  BY <1>3, <1>4, <1>5, <1>6, <1>7, <1>8 DEF Work, Enrolls, Books, Answer
<1> QED BY <1>1, <1>2, <1>3, <1>4, <1>8 DEF Next, Fail

\* The group begins with its creator as the admin.
LEMMA InitSerial == Init => Serial
<1> SUFFICES ASSUME Init PROVE Serial
  OBVIOUS
<1>1. expenses = << >> /\ \A r \in Request : req[r].pc = "idle"
  BY DEF Init, Idle
<1> DEFINE first == [id |-> 1, role |-> "group_admin", st |-> "approved"]
<1>2. \A u \in User : member[u] = IF u = Creator THEN first ELSE None
  BY DEF Init
<1>3. first \in Row
  BY TripAssumption DEF Row, MembershipStatus
<1>4. first # None /\ first.role = "group_admin" /\ Creator \in User
  BY <1>3, RowAssumption, TripAssumption
<1> HIDE DEF first
<1>5. Admins = {Creator}
  BY <1>2, <1>4 DEF Admins, HasRow
<1> QED BY <1>1, <1>4, <1>5 DEF Serial, SharersAreApproved, ReadOK

\* The amounts and weights leave room in the integers: for the product of an
\* amount and a weight, the weights of all users, and all expenses together.
AmountsFit ==
  /\ \E most \in Nat : /\ \A a \in Amount : a <= most
                       /\ 1000 * most <= MaxInt /\ MaxExpense * most <= MaxInt
  /\ Cardinality(User) * 1000 <= MaxInt

\* What the code lets through has weights of 1 to 1000, so the products fit.
LEMMA ProductFits ==
  ASSUME AmountsFit, NEW a \in Amount, NEW w \in 1..1000
  PROVE  a <= MaxInt /\ a * w <= MaxInt
<1>1. PICK most \in Nat : a <= most /\ 1000 * most <= MaxInt
  BY DEF AmountsFit
<1>2. a \in Nat /\ w \in Nat /\ w <= 1000 /\ MaxInt \in Nat
  BY TripAssumption, MaxIntAssumption
<1>3. a * w <= a * 1000
  BY <1>2
<1> QED BY <1>1, <1>2, <1>3

\* The expenses that count are all paid and shared by members.
Inside(M) ==
  \A k \in DOMAIN Live : Live[k].paidBy \in M /\ DOMAIN Live[k].shares \subseteq M

LEMMA LiveWellFormed ==
  ASSUME IInv, AmountsFit, NEW M \in SUBSET User, Inside(M), NEW k \in DOMAIN Live
  PROVE  WellFormed(Live[k], M)
<1>1. Live[k] \in Expense /\ Live[k].paidBy \in M /\ DOMAIN Live[k].shares \subseteq M
  BY LiveFacts DEF Inside
<1>2. PICK e \in Expense : e = Live[k]
  BY <1>1
<1>3. /\ e.amount \in Amount /\ e.amount \in Nat
      /\ \A u \in DOMAIN e.shares : e.shares[u] \in 1..1000
  BY ONLY ExpenseFacts, e \in Expense
<1>4. (\A w \in 1..1000 : w \in Nat \ {0}) /\ 1 \in 1..1000
  OBVIOUS
<1>a. \A w \in 1..1000 : w \in Nat /\ w <= 1000
  OBVIOUS
<1>5. PICK P : P = Participants(e, M)
  OBVIOUS
<1>6. \A u \in P : Weight(e, u) \in 1..1000
  BY <1>3, <1>4, <1>5 DEF Participants, Weight
<1>7. \A u \in P : e.amount * Weight(e, u) <= MaxInt
  BY <1>3, <1>6, ProductFits
<1>8. Fits(e.amount)
  BY <1>3, <1>4, ProductFits DEF Fits
<1>9. Fits(SumFunction(Weights(e, P)))
  <2>1. PICK f : f = Weights(e, P)
    OBVIOUS
  <2>a. DOMAIN f = P /\ \A u \in P : f[u] = Weight(e, u)
    BY <2>1 DEF Weights
  <2>2. P \in SUBSET User
    BY <1>1, <1>2, <1>5 DEF Participants
  <2>3. PICK p, n : p = Cardinality(P) /\ n = Cardinality(User)
    OBVIOUS
  <2>4. IsFiniteSet(P) /\ p \in Nat /\ n \in Nat /\ p <= n
    BY <2>2, <2>3, TripAssumption, FS_Subset, FS_CardinalityType
  <2>5. \A u \in P : f[u] \in Nat /\ f[u] <= 1000
    BY <1>6, <1>a, <2>a
  <2>6. SumFunctionOnSet(f, P) \in Nat /\ SumFunctionOnSet(f, P) <= p * 1000
    BY <2>3, <2>4, <2>5, SumBounded
  <2>7. n * 1000 <= MaxInt /\ MaxInt \in Nat
    BY <2>3, MaxIntAssumption DEF AmountsFit
  <2>8. PICK x : x = SumFunctionOnSet(f, P)
    OBVIOUS
  <2>9. x \in Nat /\ x <= MaxInt
    BY <2>4, <2>6, <2>7, <2>8
  <2> QED BY <2>1, <2>a, <2>8, <2>9, SumOfFunction DEF Fits
<1>10. \A u \in DOMAIN e.shares : e.shares[u] \in Nat \ {0}
  BY ONLY <1>3, <1>4
<1>11. WellFormed(e, M)
  BY <1>1, <1>2, <1>5, <1>7, <1>8, <1>9, <1>10 DEF WellFormed
<1> QED BY <1>2, <1>11

\* Together the expenses fit too.
LEMMA LiveShareable ==
  ASSUME IInv, AmountsFit, NEW M \in SUBSET User, Inside(M)
  PROVE  Shareable(Live, M)
<1>1. PICK l, D, n : l = Live /\ D = DOMAIN l /\ n = Len(expenses)
  OBVIOUS
<1>2. IsFiniteSet(D) /\ \A k \in D : k \in DOMAIN expenses /\ l[k] \in Expense
  BY <1>1, LiveFacts
<1>3. n \in Nat /\ DOMAIN expenses = 1..n /\ n <= MaxExpense /\ MaxExpense \in Nat
  BY <1>1, TripAssumption DEF IInv, Typed, TypeOK, Few
<1>4. PICK c : c = Cardinality(D)
  OBVIOUS
<1>5. c \in Nat /\ c <= n
  <2>1. 1 \in Int /\ n \in Int
    BY <1>3
  <2>2. IsFiniteSet(1..n) /\ Cardinality(1..n) = IF 1 > n THEN 0 ELSE n - 1 + 1
    BY ONLY <2>1, FS_Interval
  <2>3. D \in SUBSET (1..n)
    BY <1>2, <1>3
  <2>4. Cardinality(D) <= Cardinality(1..n) /\ Cardinality(D) \in Nat
    BY <2>2, <2>3, FS_Subset, FS_CardinalityType
  <2>5. Cardinality(1..n) = n
    BY <1>3, <2>2
  <2> QED BY <1>4, <2>4, <2>5
<1>6. PICK most \in Nat : (\A a \in Amount : a <= most) /\ MaxExpense * most <= MaxInt
  BY DEF AmountsFit
<1>7. PICK f : f = AmountsOf(l)
  OBVIOUS
<1>a. DOMAIN f = D /\ \A k \in D : f[k] = l[k].amount
  BY <1>1, <1>7 DEF AmountsOf
<1>8. \A k \in D : f[k] \in Nat /\ f[k] <= most
  BY <1>2, <1>6, <1>a, ExpenseFacts
<1>9. SumFunctionOnSet(f, D) \in Nat /\ SumFunctionOnSet(f, D) <= c * most
  BY <1>2, <1>4, <1>8, SumBounded
<1>10. c * most <= MaxExpense * most
  BY <1>3, <1>5
<1>11. PICK x : x = SumFunctionOnSet(f, D)
  OBVIOUS
<1>12. x \in Nat /\ x <= MaxInt
  <2>1. PICK y, z : y = c * most /\ z = MaxExpense * most /\ y \in Nat /\ z \in Nat
    BY <1>3, <1>5
  <2> QED BY <1>6, <1>9, <1>10, <1>11, <2>1, MaxIntAssumption
<1>13. Fits(SumFunction(AmountsOf(l)))
  BY <1>7, <1>a, <1>11, <1>12, SumOfFunction DEF Fits
<1> QED BY <1>1, <1>2, <1>13, LiveWellFormed DEF Shareable

\* A settlement of members with whom all expenses stay evens them all.
LEMMA SettlementEvens ==
  ASSUME IInv, AmountsFit, NEW M \in SUBSET User, Inside(M), NEW s, s = Settlement(M)
  PROVE  Evens(s.net, s.plan)
<1>1. PICK l, net : l = Live /\ net = Balances(M, l)
  OBVIOUS
<1>2. IsFiniteSet(M) /\ M \subseteq Nat
  BY FS_Subset, TripAssumption
<1>3. Shareable(l, M)
  BY <1>1, LiveShareable
<1>4. net \in [M -> Int] /\ SumFunctionOnSet(net, M) = 0
  BY <1>1, <1>2, <1>3, BalancesToZero
<1>5. s.net = net /\ s.plan = computePlan(net)
  BY <1>1 DEF Settlement
<1>6. Evens(net, computePlan(net))
  BY <1>2, <1>4, PlanEvensAll
<1> QED BY <1>5, <1>6

\* Whatever a settlement is of, its plan pays debts.
LEMMA SettlementPays ==
  ASSUME IInv, NEW M \in SUBSET User, NEW s, s = Settlement(M)
  PROVE  PaysDebts(s.net, s.plan)
<1>1. IsFiniteSet(M) /\ M \subseteq Nat
  BY FS_Subset, TripAssumption
<1>2. PICK net : net = Balances(M, Live) /\ net \in [M -> Int]
  BY SettlementTyped
<1>3. s.net = net /\ s.plan = computePlan(net)
  BY <1>2 DEF Settlement
<1>4. PaysDebts(net, computePlan(net))
  BY <1>1, <1>2, PlanPays
<1> QED BY <1>3, <1>4

\* A settlement that evens its members is never replaced.
LEMMA ReconcilesNext ==
  AmountsFit /\ IInv /\ Serial /\ SnapshotReconciles /\ [Next]_vars => SnapshotReconciles'
<1> SUFFICES ASSUME AmountsFit, IInv, Serial, SnapshotReconciles, [Next]_vars
             PROVE  SnapshotReconciles'
  OBVIOUS
<1>1. ASSUME runs' = runs PROVE SnapshotReconciles'
  BY <1>1 DEF SnapshotReconciles, HasRun, run
<1>2. ASSUME NEW r \in Request,
             \/ Rollback(r) \/ Reads(r) \/ Checks(r)
             \/ Enrolls(r) \/ Books(r) \/ Redates(r) \/ Locks(r)
      PROVE  runs' = runs
  BY <1>2, CheckFacts, EnrollFacts, BookFacts, RedateFacts, LockFacts
     DEF Rollback, Reads, Goes, tables
<1>3. ASSUME NEW r \in Request, Closes(r) PROVE SnapshotReconciles'
  <2>1. PICK M, s : M = req[r].members /\ s = Settlement(M)
    OBVIOUS
  <2>2. req[r].pc = "close" /\ runs' = <<s>>
    BY <1>3, <2>1, ClosedRun
  <2>3. M = ApprovedMembers /\ M \in SUBSET User
    BY <2>1, <2>2 DEF Serial, ReadOK, ApprovedMembers
  <2>4. Inside(M)
    <3> SUFFICES ASSUME NEW k \in DOMAIN Live
                 PROVE  Live[k].paidBy \in M /\ DOMAIN Live[k].shares \subseteq M
      BY DEF Inside
    <3>1. k \in DOMAIN expenses /\ expenses[k].live /\ Live[k] = expenses[k] /\ Live[k] \in Expense
      BY LiveFacts
    <3>2. Live[k].paidBy \in User /\ DOMAIN Live[k].shares \subseteq User
      BY <3>1, ExpenseFacts
    <3> QED BY <2>3, <3>1, <3>2 DEF IInv, Vouched, Serial, SharersAreApproved, ApprovedMembers
  <2>5. HasRun' /\ run' = s
    BY <2>2 DEF HasRun, run
  <2>6. Evens(s.net, s.plan)
    BY <2>1, <2>3, <2>4, SettlementEvens
  <2> QED BY <2>5, <2>6 DEF SnapshotReconciles
<1>4. CASE UNCHANGED vars \/ SettlePayments
  BY <1>1, <1>4 DEF vars, tables, SettlePayments
<1> QED BY <1>1, <1>2, <1>3, <1>4, StepKinds
-----------------------------------------------------------------------------
(***************************************************************************)
(* The books of the group are those of Ledger.                             *)
(***************************************************************************)

\* Everybody who paid is among the members a close has listed.
ChargedOK(q) ==
  q.pc = "close" => \A k \in DOMAIN expenses : expenses[k].live => expenses[k].paidBy \in q.members

Charged == \A r \in Request : ChargedOK(req[r])

\* One request changes, and no expense does.
LEMMA ChargedOn ==
  ASSUME IInv, Charged, NEW r \in Request, NEW v, req' = [req EXCEPT ![r] = v], ChargedOK(v),
         expenses' = expenses
  PROVE  Charged'
<1>1. req'[r] = v /\ \A q \in Request : q # r => req'[q] = req[q]
  BY DEF IInv, Typed, TypeOK
<1>2. ASSUME NEW q \in Request PROVE ChargedOK(req[q])'
  BY <1>1 DEF ChargedOK, Charged
<1> QED BY <1>2 DEF Charged

\* Every step keeps Charged: an expense is written by who holds a share of the
\* group row, and then nobody is at a close.
LEMMA ChargedNext == IInv /\ Charged /\ [Next]_vars => Charged'
<1> SUFFICES ASSUME IInv, Charged, [Next]_vars PROVE Charged'
  OBVIOUS
<1>0. ChargedOK(Idle) /\ DOMAIN req = Request /\ Locked /\ None \notin Request
  BY TripAssumption DEF ChargedOK, Idle, IInv, Typed, TypeOK
<1>1. CASE UNCHANGED vars \/ SettlePayments
  BY <1>1 DEF vars, tables, books, SettlePayments, Charged, ChargedOK
<1>2. ASSUME NEW r \in Request, Rollback(r) PROVE Charged'
  BY <1>0, <1>2, ChargedOn DEF Rollback, End, tables, books
<1>3. ASSUME NEW r \in Request, Reads(r) PROVE Charged'
  <2>1. PICK v : Goes(r, v) /\ Quiet(v)
    BY <1>3 DEF Reads
  <2>2. ChargedOK(v)
    BY <2>1 DEF ChargedOK, Quiet
  <2> QED BY <2>1, <2>2, ChargedOn DEF Goes, tables, books
<1>4. ASSUME NEW r \in Request, Checks(r) PROVE Charged'
  <2>1. expenses' = expenses
    BY <1>4, CheckFacts
  <2>2. PICK v : req' = [req EXCEPT ![r] = v] /\ v.pc \in Editing
    BY <1>4, CheckFacts
  <2>3. ChargedOK(v)
    BY <2>2 DEF ChargedOK, Editing
  <2> QED BY <2>1, <2>2, <2>3, ChargedOn
<1>5. ASSUME NEW r \in Request, Enrolls(r) PROVE Charged'
  BY <1>0, <1>5, EnrollFacts, ChargedOn DEF End
<1>6. ASSUME NEW r \in Request, Books(r) PROVE Charged'
  <2>1. req' = [req EXCEPT ![r] = Idle] /\ req[r].pc \in Editing
    BY <1>6, BookFacts DEF End
  <2>2. closer = None
    BY <1>0, <2>1 DEF Locked
  <2>3. \A q \in Request : req[q].pc # "close"
    BY <1>0, <2>2 DEF Locked
  <2>4. req'[r].pc = "idle" /\ \A q \in Request : q # r => req'[q] = req[q]
    BY <1>0, <2>1 DEF Idle
  <2>5. \A q \in Request : req'[q].pc # "close"
    BY <2>3, <2>4
  <2> QED BY <2>5 DEF Charged, ChargedOK
<1>7. ASSUME NEW r \in Request, Redates(r) PROVE Charged'
  BY <1>0, <1>7, RedateFacts, ChargedOn DEF End
<1>8. ASSUME NEW r \in Request, Locks(r) PROVE Charged'
  <2>1. PICK v : v = [pc |-> "close", members |-> ApprovedMembers]
    OBVIOUS
  <2>2. req' = [req EXCEPT ![r] = v] /\ expenses' = expenses
    BY <1>8, <2>1, LockFacts
  <2>3. ASSUME NEW k \in DOMAIN expenses, expenses[k].live PROVE expenses[k].paidBy \in ApprovedMembers
    <3>1. expenses[k] \in Expense
      BY DEF IInv, Typed, TypeOK
    <3> QED BY <2>3, <3>1, ExpenseFacts DEF IInv, Vouched, ApprovedMembers
  <2>4. ChargedOK(v)
    BY <2>1, <2>3 DEF ChargedOK
  <2> QED BY <2>2, <2>4, ChargedOn
<1>9. ASSUME NEW r \in Request, Closes(r) PROVE Charged'
  BY <1>0, <1>9, CloseFacts, ChargedOn DEF End
<1> QED BY <1>1, <1>2, <1>3, <1>4, <1>5, <1>6, <1>7, <1>8, <1>9, StepKinds

\* A write to an expense is one of Ledger: it is checked and written under one lock.
LEMMA BookEnters ==
  ASSUME IInv, Booked, NEW r \in Request, Books(r)
  PROVE  Abstract!Next
<1> DEFINE q == req[r]
<1>0. /\ LocalOK(q) /\ BookOK(q) /\ RangeOK(q) /\ expenses \in Seq(Expense)
      /\ UNCHANGED <<status, dates, runs>>
  BY BookFacts DEF IInv, Typed, TypeOK, Booked, Ranged
<1>1. status = "open"
  <2>1. r \in sharers
    BY BookFacts DEF IInv, Locked
  <2> QED BY <2>1 DEF IInv, Locked
<1>2. CASE Record(r)
  <2>1. q.pc = "record" /\ expenses' = Append(expenses, q.expense)
    BY <1>2 DEF Record, Books
  <2>2. q.expense \in Expense /\ q.expense.live /\ InRange(q.expense.on)
    BY <1>0, <2>1 DEF LocalOK, BookOK, RangeOK
  <2>3. PICK e \in Expense : e = q.expense
    BY <2>2
  <2>4. Abstract!Enter(e)
    BY <1>0, <1>1, <2>1, <2>2, <2>3 DEF Abstract!Enter, Abstract!InRange, InRange
  <2>5. PICK k : k = Len(expenses) + 1
    OBVIOUS
  <2>6. k \in DOMAIN expenses' /\ expenses'[k] = e
    BY <1>0, <2>1, <2>3, <2>5
  <2> QED BY <2>4, <2>6 DEF Abstract!Next
<1>3. CASE UpdateExpense(r)
  <2>1. q.pc = "edit" /\ expenses' = Edited(q)
    BY <1>3 DEF UpdateExpense, Books
  <2>2. q.row \in DOMAIN expenses /\ q.amount \in Amount /\ q.on \in Day
        /\ expenses[q.row].live /\ InRange(q.on)
    BY <1>0, <2>1 DEF LocalOK, BookOK, RangeOK, Rewriting
  <2>3. PICK k \in DOMAIN expenses : k = q.row
    BY <2>2
  <2>4. expenses[k] \in Expense
    BY <1>0
  <2>5. PICK e : e = [expenses[k] EXCEPT !.amount = q.amount, !.on = q.on]
    OBVIOUS
  <2>6. /\ e \in Expense /\ e.live = expenses[k].live /\ e.on = q.on
        /\ e.payer = expenses[k].payer /\ e.paidBy = expenses[k].paidBy
        /\ e.shares = expenses[k].shares
    BY <2>2, <2>4, <2>5 DEF Expense
  <2>7. expenses' = [expenses EXCEPT ![k] = e]
    BY <1>0, <2>1, <2>3, <2>5 DEF Edited
  <2>8. k \in Abstract!Counted
    BY <2>2, <2>3 DEF Abstract!Counted
  <2>9. Abstract!Amend(k, e)
    BY <1>0, <1>1, <2>2, <2>3, <2>6, <2>7, <2>8 DEF Abstract!Amend, Abstract!InRange, InRange
  <2>10. k \in DOMAIN expenses' /\ expenses'[k] = e
    BY <1>0, <2>7
  <2> QED BY <2>9, <2>10 DEF Abstract!Next
<1>4. CASE DeleteExpense(r)
  <2>1. q.pc = "drop" /\ expenses' = Dropped(q)
    BY <1>4 DEF DeleteExpense, Books
  <2>2. q.row \in DOMAIN expenses /\ expenses[q.row].live
    BY <1>0, <2>1 DEF LocalOK, BookOK, Rewriting
  <2>3. PICK k \in DOMAIN expenses : k = q.row
    BY <2>2
  <2>4. k \in Abstract!Counted
    BY <2>2, <2>3 DEF Abstract!Counted
  <2>5. Abstract!Strike(k)
    BY <1>0, <1>1, <2>1, <2>3, <2>4 DEF Abstract!Strike, Dropped
  <2> QED BY <2>5 DEF Abstract!Next
<1> QED BY <1>2, <1>3, <1>4 DEF Books

\* A close is that of Ledger: everybody who paid is listed, and the plan pays.
LEMMA CloseSettles ==
  ASSUME AmountsFit, IInv, Charged, NEW r \in Request, Closes(r)
  PROVE  Abstract!Next
<1>1. PICK M, s : M = req[r].members /\ s = Settlement(M)
  OBVIOUS
<1>2. /\ req[r].pc = "close" /\ runs' = <<s>> /\ UNCHANGED <<dates, expenses>>
      /\ status' = IF s.plan = << >> THEN "settled" ELSE "closed"
  BY <1>1 DEF Closes, Close, books
<1>3. M \in SUBSET User /\ status = "open"
  BY <1>1, <1>2, CloseFacts DEF IInv, Typed, LocalOK, Frozen
<1>4. PICK C : C = Abstract!Counted /\ C = {k \in DOMAIN expenses : expenses[k].live}
  BY DEF Abstract!Counted
<1>5. \A k \in C : expenses[k].paidBy \in M
  BY <1>1, <1>2, <1>4 DEF Charged, ChargedOK
<1>6. Live = [k \in C |-> expenses[k]]
  BY <1>4 DEF Live, Restrict
<1>7. Abstract!Total = Total
  <2>1. [k \in DOMAIN expenses |-> IF k \in C THEN expenses[k].amount ELSE 0] =
        [k \in DOMAIN expenses |-> IF expenses[k].live THEN expenses[k].amount ELSE 0]
    BY <1>4
  <2> QED BY <1>4, <2>1 DEF Abstract!Total, Total
<1>8. s.members = M /\ s.total = Total /\ s.net = Balances(M, Live)
  BY <1>1 DEF Settlement
<1>9. PaysDebts(s.net, s.plan)
  BY <1>1, <1>3, SettlementPays
<1>10. ASSUME \A k \in C : DOMAIN expenses[k].shares \subseteq M PROVE Evens(s.net, s.plan)
  <2>1. Inside(M)
    BY <1>4, <1>5, <1>10, LiveFacts DEF Inside
  <2> QED BY <1>1, <1>3, <2>1, SettlementEvens
<1>11. Abstract!Settle(M, s)
  BY <1>2, <1>3, <1>4, <1>5, <1>6, <1>7, <1>8, <1>9, <1>10 DEF Abstract!Settle
<1>12. 1 \in DOMAIN runs' /\ runs'[1] = s
  BY <1>2
<1> QED BY <1>3, <1>11, <1>12 DEF Abstract!Next

\* Every step is one of Ledger, or a stutter.
LEMMA StepIsLedgers ==
  ASSUME AmountsFit, IInv, Booked, Charged, [Next]_vars
  PROVE  [Abstract!Next]_(Abstract!vars)
<1>1. ASSUME UNCHANGED <<status, dates, expenses, runs>> PROVE UNCHANGED Abstract!vars
  BY <1>1 DEF Abstract!vars
<1>2. CASE UNCHANGED vars
  BY <1>1, <1>2 DEF vars, tables, books
<1>3. CASE SettlePayments
  <2>1. Abstract!Finish
    BY <1>3 DEF SettlePayments, books, Abstract!Finish
  <2> QED BY <2>1 DEF Abstract!Next
<1>4. ASSUME NEW r \in Request,
             Rollback(r) \/ Reads(r) \/ Checks(r) \/ Enrolls(r) \/ Locks(r)
      PROVE  UNCHANGED <<status, dates, expenses, runs>>
  BY <1>4, CheckFacts, EnrollFacts, LockFacts DEF Rollback, Reads, Goes, tables, books
<1>5. ASSUME NEW r \in Request, Redates(r) PROVE Abstract!Next
  <2>1. /\ dates' \in Dates /\ status = "open" /\ UNCHANGED <<status, expenses, runs>>
    <3>1. status = "open"
      BY <1>5 DEF Redates, UpdateOpenGroup
    <3> QED BY <1>5, <3>1, RedateFacts
  <2>2. PICK d \in Dates : d = dates'
    BY <2>1
  <2>3. Abstract!Redate(d)
    BY <2>1, <2>2 DEF Abstract!Redate
  <2> QED BY <2>3 DEF Abstract!Next
<1>6. ASSUME NEW r \in Request, Books(r) PROVE Abstract!Next
  BY <1>6, BookEnters
<1>7. ASSUME NEW r \in Request, Closes(r) PROVE Abstract!Next
  BY <1>7, CloseSettles
<1> QED BY <1>1, <1>2, <1>3, <1>4, <1>5, <1>6, <1>7, StepKinds
-----------------------------------------------------------------------------
(***************************************************************************)
(* The theorems.                                                           *)
(***************************************************************************)

\* The inductive invariant of Trip holds in every behaviour.
THEOREM TripInvariant == Spec => []IInv
<1>1. IInv /\ [Next]_vars => IInv'
  BY TypedNext, LockedNext, FrozenNext, VouchedNext, RangedNext, FewNext DEF IInv
<1> QED BY <1>1, InitIInv, PTL DEF Spec

\* The tables keep their types.
THEOREM TripTyped == Spec => []TypeOK
<1>1. IInv => TypeOK
  BY DEF IInv, Typed
<1> QED BY <1>1, TripInvariant, PTL

\* close.go, expenses.go: an expense that races the close is in the snapshot or
\* refused, whatever else is going on.
THEOREM NothingSlips == Spec => []NothingSlipsPast
<1>1. IInv => NothingSlipsPast
  BY DEF IInv, Frozen, NothingSlipsPast, PublicGroupStatus, GetSettlementPlan, HasRun, run
<1> QED BY <1>1, TripInvariant, PTL

\* memberships.go, expenses.go: who paid a live expense is an approved member.
THEOREM PayersApproved == Spec => []PayersAreApproved
<1>1. IInv => PayersAreApproved
  BY DEF IInv, Vouched, PayersAreApproved
<1> QED BY <1>1, TripInvariant, PTL

\* memberships.go: the admin of the group is an approved member of it.
THEOREM AdminsApproved == Spec => []AdminsAreApproved
<1>1. IInv => AdminsAreApproved
  BY DEF IInv, Vouched
<1> QED BY <1>1, TripInvariant, PTL

\* summary.go: a summary that says the group is closed is of the snapshot's
\* expenses, though it is made of reads of different moments.
THEOREM SummaryOfClosed == Spec => []ClosedSummaryIsFrozen
<1>1. IInv => ClosedSummaryIsFrozen
  BY DEF IInv, Frozen, AnswerOK, ClosedSummaryIsFrozen
<1> QED BY <1>1, TripInvariant, PTL

\* close.go: a group settles exactly once, and is frozen then.
THEOREM SettledOnce == Spec => SettlesOnce
<1> DEFINE Stays == HasRun => runs' = runs /\ expenses' = expenses /\ dates' = dates /\ status' # "open"
<1>1. IInv /\ [Next]_vars => [Stays]_vars
  BY NothingMoves
<1> QED BY <1>1, TripInvariant, PTL DEF Spec, SettlesOnce

\* expenses.go: no expense is written outside the dates of the trip, though they
\* may change between its check and its insert.
THEOREM WrittenInRange == Spec => InRangeWhenWritten
<1> DEFINE Good == \A k \in DOMAIN expenses' :
                     LET e == expenses'[k] IN
                     e.live /\ (k \notin DOMAIN expenses \/ e # expenses[k]) => InRange(e.on)
<1>1. IInv /\ [Next]_vars => [Good]_vars
  BY WritesInRange
<1> QED BY <1>1, TripInvariant, PTL DEF Spec, InRangeWhenWritten

\* audit.go: the audit log explains the total of the expenses, however edits,
\* deletions and the close overlap.
THEOREM AuditExplains == Spec => []AuditExplainsTotal
<1>1. Spec => []Booked
  BY InitBooked, BookedNext, TripInvariant, PTL DEF Spec
<1>2. Booked => AuditExplainsTotal
  BY DEF Booked
<1> QED BY <1>1, <1>2, PTL

\* A payment's debtor and creditor stay approved members, whatever overlaps: a
\* close keeps approvals out while it works, and the payments keep the row.
THEOREM PartiesStayApproved == Spec => []PartiesStay
<1>1. Spec => []Standing
  BY InitStanding, StandingNext, TripInvariant, PTL DEF Spec
<1>2. Standing => PartiesStay
  BY DEF Standing
<1> QED BY <1>1, <1>2, PTL

\* One request at a time keeps what the removals, transfers and expenses rely on.
THEOREM SerialInvariant == ASSUME Alone PROVE Spec => []Serial
<1>1. IInv /\ Serial /\ [Next]_vars => Serial'
  BY SerialNext
<1> QED BY <1>1, InitSerial, TripInvariant, PTL DEF Spec

\* handler/memberships.go: "there is always exactly one group-admin", as long as
\* no two requests overlap (a removal that overlaps a transfer leaves none).
THEOREM ExactlyOneAdmin == ASSUME Alone PROVE Spec => []OneAdmin
<1>1. Serial => OneAdmin
  BY FS_Singleton DEF Serial, OneAdmin
<1> QED BY <1>1, SerialInvariant, PTL

\* expenses.go: every participant is an approved member, as long as no two
\* requests overlap (a removal that overlaps an expense leaves an outsider).
THEOREM SharersApproved == ASSUME Alone PROVE Spec => []SharersAreApproved
<1>1. Serial => SharersAreApproved
  BY DEF Serial
<1> QED BY <1>1, SerialInvariant, PTL

\* close.go with settlement.go: the plan a group is closed with brings every
\* balance of its snapshot to zero, as long as no two requests overlap and the
\* products of amounts and weights fit the integers.
THEOREM SnapshotEvens == ASSUME Alone, AmountsFit PROVE Spec => []SnapshotReconciles
<1>1. Init => SnapshotReconciles
  BY DEF Init, SnapshotReconciles, HasRun
<1>2. IInv /\ Serial /\ SnapshotReconciles /\ [Next]_vars => SnapshotReconciles'
  BY ReconcilesNext
<1> QED BY <1>1, <1>2, SerialInvariant, TripInvariant, PTL DEF Spec

\* README, concurrency & locking: the settlement is computed exactly once over a
\* consistent snapshot while expenses may be landing: whatever requests overlap,
\* the books change as those of Ledger, one operation at a time.
THEOREM BooksAreLedgers == ASSUME AmountsFit PROVE Spec => ImplementsLedger
<1>1. Init => Abstract!Init
  BY DEF Init, Abstract!Init
<1>2. Init => Charged
  BY DEF Init, Idle, Charged, ChargedOK
<1>3. IInv /\ Booked /\ Charged /\ [Next]_vars => [Abstract!Next]_(Abstract!vars)
  BY StepIsLedgers
<1> QED BY <1>1, <1>2, <1>3, ChargedNext, InitBooked, BookedNext, TripInvariant, PTL
        DEF Spec, ImplementsLedger, Abstract!Spec
=============================================================================
