# Verification of the expense splitter

TLA+ models of `server/`, their TLC instances and TLAPS proofs. Paths below are
relative to the repository (`src/` in the map).

The system is the backend for shared trips. Members of a group record what they
paid; the group's admin closes it; the closing computes everybody's fair share
and a short plan of payments; each payment then goes through a confirmation
with two keys (the debtor's proof, the creditor's confirmation) and an admin's
finalize. No money flows through it: its job is correct arithmetic and a
confirmation nobody can cheat or break by acting at the same time as others.
All state is in PostgreSQL (READ COMMITTED), in Keycloak and in an object store;
the server keeps none, so every behaviour that is hard comes from several
requests running against the same rows.

## Inventory

| Component | State | Operations | Module |
|---|---|---|---|
| Payment confirmation (`services/payments.go`, `proofs.go`) | `payments` (status, version), `proofs` (one current row per payment), image objects, `audit_log` | submit a text or image proof, confirm, dispute, finalize, reject | `PaymentRules`, `Payments`, `TwoKey` |
| Settlement arithmetic (`services/settlement.go`) | none (pure) | fair and weighted shares, balances, plan | `Settlement`, `SettlementPlan` |
| Memberships and admin role (`services/memberships.go`, `authz.go`) | `memberships` (role, status) | join, approve, reject, transfer, remove | `Trip`; against deletions `Accounts` |
| Expenses (`services/expenses.go`) | `expenses`, `expense_shares` | record, update, soft-delete | `Trip`, `Ledger` |
| Closing (`services/close.go`) | `groups.status`, `settlement_runs`, `payments` | close | `Trip`, `Ledger` |
| Groups (`services/groups.go`) | `groups` | update of the dates; create, with the choice of the admin | `Trip`; `Accounts` |
| Accounts, verification (`services/registration.go`, `auth.go`, `verification.go`) | `users`, Keycloak accounts | sign up, log in, register, link, submit and decide a verification | `Accounts` |
| Administration (`services/admin.go`) | all tables | delete a user, delete a group | `Accounts` |
| Nudges (`services/nudges.go`) | `notifications` | remind whoever holds up a stale payment | `Nudges` |
| Summary, report, public status (`summary.go`, `report.go`) | none | read | reads of `Trip`, operators of `Payments` |
| Audit log (`audit.go`) | `audit_log` | append inside the caller's transaction, list | `trail` of `Payments`, `audited` of `Trip`, `audit` of `Accounts` |
| Handlers and router | none | decode, call one service, answer | the routes (`PostProof`, `DeleteMembers`, ...) that each `Arrive` is made of |
| Keycloak and storage clients, middleware | none | I/O; tokens | their answers only (`SignUp`, `HasToken`, `Put`) |
| `database/repo` | none | generated by sqlc from `database/queries` | the queries are modelled where they are used |
| `database/migrations`, `seeding` | the schema | constraints; the global admin's row | guards of the models; `SeedGlobalAdmin` |
| Configuration, commands, `docs` (generated) | none | start-up | not modelled |

How they interact: every handler calls one method of `services`, which runs SQL
statements, some alone and some in one transaction. Components meet in rows:

* an expense, the close of its group and an update of its dates meet at the
  `groups` row (the expense locks it `FOR SHARE`, the close `FOR UPDATE`); two
  edits of one expense meet at its own row;
* expenses and payments refer to `memberships` by foreign keys, the
  participants of a split do not;
* requests about one payment meet at its `version` (`UPDATE ... WHERE
  version = ...`) and at the unique index on its current proof;
* requests about different payments of one group meet only when the last one
  settled marks the group, on the strength of a count;
* reminder runs and payments meet at `payments.updated_at`, reminder runs with
  each other at the rows of `notifications`;
* sign-up, log-in and registration of one person meet at the unique address and
  the unique subject of `users`; a submission and a decision of a verification
  at its status;
* a deletion by the global admin meets everything else at the foreign keys.

What is hard, and what must hold of it:

* **Interleaving of transactions.** Two people act on one payment; two debtors
  submit proofs; two admins finalize the last two payments; an expense arrives
  during a close; two edits of an expense overlap. A transition is applied
  exactly once and to the status it was decided for; an expense is in the
  snapshot or refused; a group settles once; the log explains the total.
* **Decisions on stale reads.** A role, a membership row, a status, a count, a
  list of stale payments or a lack of history is read, then acted on in a later
  statement. What was relied on may be gone.
* **Failure half-way.** A request can fail at every statement; the database
  rolls back, the object store, Keycloak and the reminders sent so far do not.
* **Arithmetic.** Shares must add up to the amount, to the baisa; the plan must
  bring every balance to zero, in few transfers.
* **Waiting.** Requests hold one lock while they wait for another.

The hazards, each at its line, are in `PROJECT.json`.

## Modules

Everywhere a request `r` has a local record `req[r]` (the local variables of the
Go function) with a program counter over the statements whose order other
requests can notice. A refused request is no step, or ends with nothing
changed; `Fail` ends any request at any statement. `Arrive` is the disjunction
of the routes, one operator per handler.

### `PaymentRules`, `Payments`, `TwoKey`

`PaymentRules` is `validatePaymentTransition` and `auditActionFor` as pure
operators. The switch of the code is split into one operator per request
(`MaySubmit`, `MayConfirm`, `MayDispute`, `MayFinalize`, `MayReject`): who may
ask, from which status. The 403s and 409s are one value, `Refused`.

`Payments` runs them inside `transitionPayment`:

| Action | Code |
|---|---|
| `Begin` | resolve the caller, `GetPayment`, `GetMembership`, validate |
| `Put` | `SubmitImageProof`: the upload, before any row |
| `UnsetStart`, `UnsetFinish` | `UnsetCurrentProof`: rows matched, then locked and rechecked |
| `InsertProof` | `CreateProof` against the unique index `one_current_proof_per_payment` |
| `Update` | `TransitionPayment` with its version guard, and the audit entry |
| `Count` | `CountUnsettledPayments`, `MarkGroupSettled` |
| `Commit` | the transaction's writes become visible, its locks go |
| `Fail` | an error anywhere: rollback |
| `TransferAdmin` | the role changes hands meanwhile (`Trip` has the whole operation) |

A transaction's own writes stay in `req[r]` until `Commit`; others see only
what is committed. A locked row makes `Update`, `UnsetFinish` and `InsertProof`
wait. The two reads of `Begin` are one step: if the payment changed between them
its version is no longer the one read, and `Update` refuses. The report's
columns are `confirmedBy` and `finalizedBy`, read off the trail as `report.go`
reads them off `audit_log`.

`TwoKey` is the promise without transactions, versions, roles or proofs: a
payment settles when both keys were turned since it was last thrown back and
somebody who is not the debtor finalizes it, or when the global admin
overrides; the group becomes settled only with the last payment. `Payments`
implements it (`ImplementsTwoKey`), with the keys read off the audit trail.

### `Nudges`

`Payments` with reminders and time. `clock` is `now()` in hours; `touched` is
`updated_at`, which a transition sets to the moment its transaction *began*
(`began`), as `now()` does. A run of `RunNudges` lists the stale payments of the
group (`ListStalePayments`), then upserts one reminder after the other
(`UpsertNudge`), each a statement of its own, while the payments move, time
passes and other runs with other thresholds do the same. A run that fails leaves
what it sent. `was`, what the payments were when the run listed them, is a
ghost.

### `Settlement`, `SettlementPlan`

`Settlement` translates `settlement.go` and the balance part of `close.go`:
`weightedShares`, `fairShares`, `buildFairShares`, `computePlan`. Products, sums
and differences of money wrap past `MaxInt`, as those of `int64` do past 2^63 -
1: `total * w`, the sums of weights, of base shares and of fair shares, the
remainder, the shares and the balances. What was paid is summed by the database,
whose `SUM` is exact and whose cast to `bigint` fails rather than wraps; that a
member's sum fits is taken for granted. So is that no balance is the least
integer, which has no negative for the loop to owe. Users are numbers in the
order of their ids, since remainders go to the first users in that order.
`computePlan` is a recursive function over the state of its loop, so that `Trip`
can call it; `SettlementPlan` runs the same loop one turn per step (`Turn`) and
states what shares, balances and plan must satisfy. What a plan is for is said
once, at the end of `Settlement`: `PaysDebts` (every transfer is a positive
amount from who owes to who is owed) and `Evens` (after the transfers nobody
owes anything).

### `Trip`

One group from creation to settlement. Operations that run outside a
transaction (join, remove, the summary) or that read before their transaction
(approve, transfer, update of the dates, close) are one action per read or
write; operations inside a transaction are split where another request can come
between two statements and be noticed:

| Actions | Code |
|---|---|
| `JoinRead`, `JoinInsert` | `RequestToJoin` |
| `DecideRead`, `Decide` | `ApproveMember`, `RejectMember` |
| `TransferRead`, `TransferAdmin` | `TransferAdmin`: demote, promote, or undo both |
| `RemoveRead`, `RemoveCheck`, `RemoveDelete` | `RemoveMember` |
| `RecordCheck`, `Record` | `RecordExpense` under `LockGroupForExpense` |
| `UpdateCheck`, `UpdateExpense` | the same with `LockExpenseForUpdate`, and the audit entry with the old and the new amount |
| `DeleteCheck`, `DeleteExpense` | the same |
| `UpdateRead`, `UpdateOpenGroup` | `UpdateGroup` |
| `CloseRead`, `CloseLock`, `Close` | `CloseGroup` |
| `SummaryRead`, `SummaryPaid`, `SummaryAllocated`, `Answer` | `GroupSummary`, whose three reads share no snapshot |

`closer` and `sharers` are the group-row locks; the lock on an expense row is
held by whoever is at `"edit"` or `"drop"`. Membership rows carry an id, because
`RemoveMember` deletes by the id it read and a user may have joined again in
between. The foreign keys are guards (`Referred`, the `IF` of `Record` and of
`Close`). `audited` is what the log says the expenses add up to. The payments of
the close are followed further by `Payments`; `Trip` only lets the group become
settled (`SettlePayments`).

### `Ledger`

What the books of a group promise without requests, locks and memberships
(README, "Concurrency & locking": a settlement is computed exactly once over a
consistent snapshot). An expense is entered, amended or struck, and the dates
change, in one step each and only while the group is open; one step settles what
is recorded at that moment, for members among whom is everybody who paid; after
it nothing changes but the status. An expense is written within the dates there
are then. `Ledger` does not say how the plan is made: its transfers pay debts,
and leave every member even unless a split names somebody who is not one. `Trip`
implements it (`ImplementsLedger`): the writes of `Trip`
are its steps, all reads, checks and locks stutter.

### `Accounts`

Who may use the system. Each request is a read (its checks) and a write (its
statements, under the constraints of the schema at that moment). Membership
rows have ids, by which `RemoveMember` deletes and expenses name who paid:

* `SignUp` creates a Keycloak account and then registers it; a failure between
  leaves an account without a row, which `Login` and `Register` repair.
  `Register` looks for its subject, claims an unlinked row with its address
  (`LinkUserKeycloakID`) or creates one (`CreateUser`), each a statement of its
  own. `Departs` removes an account in Keycloak, whose address may be taken over.
* `SubmitVerification` sets what it read as not verified to pending whatever it
  is by then; `SetVerification` decides. `SeedGlobalAdmin` is the seed command.
* `CreateGroup` chooses the admin (`resolveGroupAdmin`), `RequestToJoin` needs a
  verified caller, `RecordExpense` and the decisions on members need roles only.
* `RecordExpense` checks payer and participants while it holds the group
  (`Locked`, for which a deletion of the group waits), and `CreateExpense` writes
  expense, shares and audit entry against the foreign keys: a membership for the
  payer, a user for each share and for the entry.
* `AdminDeleteUser` and `AdminDeleteGroup` check, then delete against the
  foreign keys (`Referenced`, `GroupHasHistory`) and log it, also when another
  deletion was faster.

`audit` is a bag: what is logged twice is there twice. `cleared` is a ghost: who
was verified at some time. `late` marks a submission that a decision has
overtaken. Roles and dates inside a group are `Trip`'s.

### The instances

| Run | Instance | Question |
|---|---|---|
| `MCPaymentsOne` | 1 payment, 3 users (one the global admin), 2 concurrent requests, image proofs, 4 transitions, fairness | exactly-once, two keys, current proof, stored image, report, settled is final, refinement of `TwoKey`; no circle of waiting requests, every request ends |
| `MCPaymentsTwo` | 2 payments of one debtor, 4 users, 2 requests, 2 transitions each | the group is settled only when all its payments are |
| `MCNudges` | `Nudges`: 1 payment, 1 request, 2 reminder runs, thresholds 0 and 1, 3 hours | nobody stalled is missed by a run, whatever another run and the payment do meanwhile |
| `MCPaymentsSkew` | 2 payments, 2 requests, fairness | *violated*: all payments settled, the group never |
| `MCSettlementPlan` | 4 members; one expense split in every way with weights to 3; two subset splits; one equal expense of each member | shares and plan; that the loop ends with the plan of `computePlan` |
| `MCSettlementPlanWrap` | integers to 31 | *violated*: shares do not sum to the total |
| `MCTripSerial` | 3 users (one the global admin), one request at a time, 2 expenses, 3 membership rows | one admin, approved participants, reconciled snapshot |
| `MCTripRace` | 2 users, 2 concurrent requests, 1 expense of 3 or 4 baisa on day 1 or 2, a short and a long trip, 3 membership rows | close against expenses and dates (refinement of `Ledger`), edits and their log, removal against expenses and payments, transfers, the summary |
| `MCTripNoAdmin` | 2 requests, no expense | *violated*: a group without an admin |
| `MCTripOutsider` | 2 requests, 1 expense | *violated*: a split names an outsider |
| `MCTripSummary` | 1 request, 1 expense | *violated*: summary differs from snapshot |
| `MCAccounts` | 2 addresses (one the admin's), 2 subjects, 2 user ids, 1 group, 3 membership ids, 1 expense, 2 requests | identities, verification, deletions |

Bounds, and why they are enough. `MaxVersion` = 4 lets a payment be submitted,
thrown back, submitted and confirmed again, or go through the whole confirmation
and then be asked for more; two requests suffice for every race the version
guard and the proof index decide, because each decides between one holder and
one other. `MCPaymentsTwo` needs only the global admin's finalize (one
transition) and one transition before it. For the waiting of requests four
transitions matter too: a proof is resubmitted (which locks the old proof before
the payment) while another request holds the payment. In `MCNudges` three hours
and the thresholds 0 and 1 let a payment become stale, be reminded of by one run
after the other has listed it, and be due again for one threshold and not for
the other; the one request claims the payment or settles it between a run's list
and its reminder, and may have begun before the list and commit after it. Three
membership rows let one user be removed and come back. One expense is enough for
every race over an expense in `MCTripRace`, since an operation touches one;
`MCTripSerial` has two, so that one is deleted and one stays. Two amounts and
two days let an edit be lost or fall out of the dates. Four members give two
debtors against two creditors and every shape with fewer. Two subjects and two
addresses in `MCAccounts` let an address be taken over and a user be deleted by
the admin; three membership ids are two members and one that a request may still
have in mind. For an expense under way while one of its participants is deleted
there, an instance needs three users (the admin, who pays, who takes part),
which is out of TLC's reach; the proof of `NothingDangles` has them.
`MaxDecided` bounds how often one decision of one member is logged (a member can
be removed and join again without end); the other entries cannot repeat without
end. `MaxRow`, `MaxExpense`, `MaxClock`, `MaxVersion`, the finite sets of ids
and, in `Accounts`, `Decision` (approvals only) and `Splits` (one participant)
are the only bounds. `MCTripRace` and `MCAccounts` switch deadlock checking off:
with all rows, ids and expenses used up nothing has to happen.

Fairness. `MCPaymentsOne` and `MCPaymentsSkew` (`FairSpec`) assume strong
fairness of the next statement of a request already accepted (`Work`). The
server runs a request it has accepted until it answers, and PostgreSQL queues
the waiters of a lock, so a request that can take its lock again and again gets
it. Nothing is assumed of users or of failures: no request ever has to arrive,
and none has to fail (a circle of waiting requests would stay one). The other
runs assume nothing.

## What the violations show

1. `MCPaymentsSkew` (`payments.go:303`): two finalizations at the same time
   each count the other's payment as open. The group stays closed although all
   payments are settled, nothing counts again, and the report stays
   unavailable, against step 9 of the README's walk-through.
2. `MCTripNoAdmin` (`memberships.go:287`): a member is promoted between the
   role check of `RemoveMember` and its delete. The group has no admin, and
   `TransferAdmin` cannot give it one, since it must demote one first.
3. `MCTripOutsider` (`memberships.go:287`): an expense that names the member
   is recorded between the share check and the delete.
4. `MCTripSummary` (`memberships.go:86`): approvals go on after the close, and
   the live summary of an equal split then divides among more people than the
   snapshot did.
5. `MCSettlementPlanWrap` (`settlement.go:71`): `total * w` overflows; there is
   no upper bound on an amount. With integers to 31, 15 baisa of one participant
   of weight 3 have the product -19 and the base share -6; the remainder of 21
   hands out one baisa, and the share is -5. Here neither sum nor remainder
   leaves the integers, so it is the product alone that does the harm.

Also noticed while reading, without a run of their own:

* `verification.go:30` overwrites a decision made since its read
  (`VerifiedLostOnlyToRace` says that this is the only way to lose one).
* `auth.go` says a log-in leaves no account without a row; a failed `Register`
  is only logged there, and a subject whose address belongs to a linked row
  never gets one.
* Two registrations of one subject at a time: the second answers 409, though the
  caller is registered.
* An update of the dates of an open group may leave recorded expenses outside
  them (`Ledger`, too, is about the moment of writing).
* The summary of an open group may mix moments; of a closed one it does not.
* Two deletions of one user or group at a time are both logged: `LogIsTrue` is
  about what is deleted, not about how often the log says so.
* A group whose expenses or entries arrive after the check of
  `AdminDeleteGroup` is kept by a foreign key, and the answer is a 500.
* `RecordExpense` asks for membership, not for verification: who was verified on
  joining (`MembersWereVerified`) may have lost it since.
* A role read before a transaction counts in it, though it may be gone: `Trip`
  lets it, and its properties hold of such callers too. `Ledger` has no roles.
* Rounding goes to the first participants by id, not to those who lost most, so
  a share can be a whole baisa above its exact fraction: 2 baisa of weights 2, 1
  and 1 are split 2, 0 and 0 (`WithinOneBaisa` is exact about this).
* Reminders are sent for `pending` and `proof_submitted` only, never to the
  admin who has to finalize nor to the debtor of a disputed payment.
* `admin.go:113` says that whoever ever joined keeps their row; who joined and
  was removed without a trace can be deleted.
* The report may name as confirming somebody whose confirmation was later
  undone, if the global admin then settled over it; `ReportIsTrue` leaves that
  case out.

## Proofs

Eight modules of proofs hold for all values of the constants. Their assumptions
are the named `ASSUME`s of the modules: `PaymentsAssumption` (members and
global admins are users, a payment has two different members as its parties),
`NudgesAssumption` (thresholds of 0 to 720 hours), `MaxIntAssumption` (the
greatest integer is a natural number), `LedgerAssumption` (finitely many
members, whose balances are integers), `TripAssumption` (amounts positive, dates
in order, what the requests' `Validate` lets through), `AccountsAssumption` (the
admin's address is one), and that the placeholders for NULL are none of the
values they stand for (`RowAssumption`, `RowsAssumption` and parts of the
others).

Three more facts are hypotheses of the theorems that need them, because the code
does not guarantee them, and the runs show what happens without:

* `LedgersFit`: the expenses can be shared among the members, their weights, the
  products of weights and amounts, and the amounts together fit the integers
  (`MCSettlementPlanWrap` without);
* `AmountsFit`: the same in `Trip`, where weights are 1 to 1000 by `Validate`:
  1000 times an amount, as many amounts as there may be expenses, and 1000 for
  every user, each fit;
* `Alone`: one request at a time (`MCTripNoAdmin`, `MCTripOutsider` without).

### `PaymentsProofs`

`TypeOK`, `TrailIsChain`, `TwoKeysBeforeSettled`, `ProofBacksClaim`,
`ProofImageStored`, `GroupSettledIsTrue`, `ReportIsTrue`,
`NobodyWaitsInACircle`, `SettledIsFinal`. None is inductive. The invariant
(`Invariant`) is built in layers, each inductive given the ones before it:

1. `Typed`: the types, and what a request carries from `Begin` on: its roles are
   those of its caller and the new status is what the rules gave for the
   status read. Without it a commit could write anything.
2. `Guarded`: a request's version is at most the payment's, and while they are
   equal the status it read is the payment's; from `Update` on it holds the row
   lock and the versions are equal. A commit raises the version of the one row
   it has locked, so nobody else can be past `Update` on that row, and all
   older snapshots become unequal. This is why the optimistic lock works.
3. `Audited`: the chain, and that each entry is one the rules allow (`Lawful`).
   `TwoKeysBeforeSettled` and `ReportIsTrue` follow by walking the chain back
   from its end (`ChainHasTwoKeys`, `ReportFollows`).
4. `Evidenced`: the current proof has the version of the submission behind the
   claim; an image is stored from `Put` on.
5. `Counted`: who will mark the group has settled its own payment and seen all
   others settled; by `SettledStays` they still are when it commits.

`Held` stands beside these, for `NobodyWaitsInACircle`: the proof slot is held
only from `UnsetFinish` on and the payment row only from `Update` on, both for
the request's own payment. Who holds the row waits for nobody, who holds the
slot waits for the row at most (`HoldersGoOn`), so no wait is longer than slot,
row, end. The row of the group is left out: only who counted no other open
payment writes it, and goes on to commit.

`OnlyCommitWrites` (no step but a commit changes payments, proofs, trails or the
group) carries most steps. `MaxVersion` is a constant without an upper bound.

### `PaymentsRefinement`

`Refines`: `Payments` implements `TwoKey`. The keys of `TwoKey` are read off the
trail, the code looks at the status only; the layer to add is `KeysMatch`, that
the status tells the keys. Then every commit is a step of `TwoKey` and
everything before it stutters.

### `NudgesProofs`

`NudgesArePayments`: the payments move beside the reminders as they do alone, so
all of the above holds in `Nudges`. `Timed` types the clock readings; `Attended`
says that whoever held up a payment a run found stale, and that has not moved,
is on the list of the run or has been reminded within its threshold. A commit
changes the version, so what it moved no longer equals what the run saw; a
reminder the database refuses is one that another run has sent recently enough
(here a run's own start must not lie in the future). `NobodyStalledIsMissed`
follows, for any number of runs at once. That a reminder is not repeated within
its threshold is no property here: it is the WHERE of the one statement that
writes it (`Due`).

### `SumProofs`

What `SumFunction` and `SumFunctionOnSet` of the community modules add up to.
They are folds that take the elements out in an order of their own, so nothing
follows from their definitions directly. `SumIsMeasured`: whatever is zero of
nothing and grows by `f[x]` with `x`, for any `x`, is the sum of `f`. Sums of
sums, of multiples, of renamed elements, of one changed value, and the exchange
of two sums follow. Induction principles that take a predicate are out of reach
of the installed provers; here induction is over sets (`SetInduction`: a set of
numbers with 0 and every successor has them all; `SubsetInduction` for finite
sets), where the set is what would be the predicate.

### `SettlementProofs`

The arithmetic, for any members and any expenses.

* *Shares* (`SharesAre`, `SharesFacts`): if weights and products fit the integers
  nothing wraps, a share is the floor of its exact fraction, or one more for the
  first of them; the remainder is less than the number of participants, so the
  shares sum to the amount. `BalancesToZero`: what
  all members owe is what they paid.
* *The two sides* (`SidesSorted`): `sort.Slice` is modelled as the choice of a
  sorted order; there is one (`SortedExists`) and only one (`SortedOnce`), since
  ties are broken by the ids.
* *The loop* (`LoopStart`, `LoopTurn`, `LoopEnd`): what is left in the accounts of
  a member, with what the transfers have brought, is always the member's balance
  (`Loop`), and when one side is empty the other must be too, since both had the
  same sum.
* *`computePlan`* is a recursive function on the states of the loop. That such a
  function exists (`SolvesExists`), is the only one (`SolvesAgree`) and returns
  what the loop ends with (`MatchReturns`, `MatchEnds`) is shown by the number of
  accounts left, each turn taking at least one. Hence `PlanSettles`, `PlanPays`
  and `PlanPairs`: the plan of any balances that sum to zero brings them to zero,
  by positive amounts from debtors to creditors.

### `SettlementPlanProofs`

For any balances whatever: `TypeOK`, `TransfersAreDebts`, `AtMostNMinusOne`,
`PairsAreDistinct`, `PlanIsDetermined`. `Sides`: the two lists hold different
members on their side of zero; `Spent`: every transfer so far has cost one
account (so the loop also terminates), and the last one leaves an account over
or costs two; `PairsAreDone`: no two who were paired are both still listed;
`OnTheWay`: what `computePlan` would return from here is what it returns for the
balances.

Under `LedgersFit`: `SharesSumToTotal`, `WithinOneBaisa`, `EqualWeightsAreFair`
and `PlanReconciles`. The ledgers of `MCSettlementPlan` are of this kind.

### `TripProofs`

For any number of users and concurrent requests. Every step is of one of a few
kinds (`StepKinds`): it reads, checks an expense, writes a membership, an
expense or the dates, locks, closes, settles or gives up. The layers:

* `Typed`; `Locked` (a close excludes everybody, and the group is open while
  anybody holds its row); `Frozen` (a group that is not open has its run, made of
  the expenses there are; a summary that saw it so has read that total);
  `Vouched` (who paid is an approved member with the very row the expense refers
  to, and a removal cannot take the row, because the foreign key looks again);
  `Ranged` (who is about to write holds a share, and the dates wait for it).
  They give `TypeOK`, `NothingSlipsPast`, `PayersAreApproved`,
  `AdminsAreApproved` and `ClosedSummaryIsFrozen`, and two action properties
  that `ImplementsLedger` contains, here without `AmountsFit`: a settlement is
  final (`SettlesOnce`) and what is written is within the dates
  (`InRangeWhenWritten`). `MCTripRace` checks them as parts of `Ledger`.
* `Booked`, for `AuditExplainsTotal`: who is about to edit or delete an expense
  has read the amount it replaces, and no two are about the same expense.
* `Standing`, for `PartiesStay`: the members a close has listed stay approved
  until it ends, or lose their row, which the foreign key of the payment then
  refuses; afterwards the payments keep the rows. The plan names only members it
  was given, whether or not its sums are right, so this holds with outsiders and
  overflow too. It also discharges what `Payments` assumes: a payment has two
  different members as its parties and a positive amount, as the CHECKs of the
  schema ask (`0001_init.sql:93`, `:98`).
* `Serial`, under `Alone`, for `OneAdmin` and `SharersAreApproved`: what the
  request has read is still so. With `AmountsFit` too, `SnapshotReconciles`: the
  participants of all expenses are members then, so the balances sum to zero.
* `Charged`, for `ImplementsLedger` (`BooksAreLedgers`), under `AmountsFit` alone:
  everybody who paid for an expense is among the members a close has listed, since
  who holds the row of the group keeps others from recording, and payers keep
  their rows. This is the form in which `SnapshotReconciles` holds of concurrent
  requests: the members come out even unless a split names an outsider.

### `AccountsProofs`

All six invariants of `Accounts` and both action properties. The invariant adds
to them what a request relies on between its read and its write (`Carried`: the
account it registers is there, the admin it acts for is still one, the founder
or joiner was cleared, a submission not overtaken is about somebody not
verified) and `VerifiedAreCleared`. A row of `users` changes in six ways only,
and each is followed through the references to it.

### Only model-checked

Liveness (`RequestsEnd`, `SettledGroupFollows`): the prover has no fairness.
Every other property of the passing runs is also a theorem. Of
`SettledGroupFollows` and the other violated properties there is nothing to
prove; `OneAdmin`, `SharersAreApproved` and `SnapshotReconciles` are proved of
one request at a time because they are false of two.

## Plan

Done: all modules above, their runs and proofs.

Left, in the order of what they would add: rejected accounts and expired
tokens inside `Trip`, which takes its users as verified for good; the payments
of a plan and the memberships in one composition (`Payments` takes its members
as given, on the strength of `PartiesStay`); paging of listings while rows are
added (pages by offset may skip or repeat a row).

## Not modelled

* Configuration and commands: start-up, no state afterwards.
* Tokens, HTTP, JSON and validation of formats: a token is valid or not
  (`HasToken`), a request that is refused for its form is none. What `Validate`
  says about values the models keep (weights, dates, amounts) is in the
  assumptions of `Trip`.
* The Keycloak and storage clients beyond their answers: retries and refresh are
  I/O. An object once put stays.
* Text: descriptions, categories, names, notes, invite tokens, currency. No
  property distinguishes them. The PDF's layout.
* Listings, counters of pages, and reads that answer and change nothing, except
  the ones the properties are about (summary, public status, plan, report).
* Audit entries about groups, transfers and verifications: no read depends on
  them.
* `docs/docs.go` is generated documentation, more than a quarter of the code by lines;
  `database/repo` is generated from the queries, modelled where they are used.
