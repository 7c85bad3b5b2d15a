------------------------------ MODULE Accounts ------------------------------
(***************************************************************************)
(* Who may use the system: Keycloak accounts, the users rows linked to     *)
(* them, their verification, the groups they found and join, and the       *)
(* global admin's deletions, as concurrent requests.                       *)
(*                                                                         *)
(* Services read outside transactions and write later, so every request is *)
(* a read (its checks) and a write (its statements and their constraints). *)
(* A write is one step: its rows are locked until the commit, and nobody   *)
(* sees it earlier.  Roles inside a group, dates and the life of a group   *)
(* after its creation are in Trip.                                         *)
(***************************************************************************)
EXTENDS FiniteSets, Integers, Bags, BagsExt

CONSTANTS
  Address,      \* e-mail addresses
  Subject,      \* ids Keycloak gives to its accounts, never twice
  UserId,       \* ids of users rows, never given twice
  GroupId,      \* ids of groups rows, never given twice
  MembershipId, \* ids of memberships rows, given again once nobody knows them
  Request,      \* the requests the server works on at the same time
  AdminEmail,   \* cfg.GlobalAdminEmail
  Decision,     \* bound: what group admins decide of a join request
  Splits,       \* bound: the sets of participants of an expense
  MaxExpense,   \* bound: no more expenses than this are ever recorded
  MaxDecided,   \* bound: how often one decision on one user is logged
  None,         \* NULL, or an id not given yet
  Deleted       \* an id whose row was deleted

ASSUME AccountsAssumption ==
  /\ AdminEmail \in Address
  /\ Decision \subseteq {"approved", "rejected"}
  /\ Splits \subseteq SUBSET UserId
  /\ MaxExpense \in Nat /\ MaxDecided \in Nat \ {0}
  /\ None # Deleted
  /\ {None, Deleted} \cap (Address \cup Subject \cup UserId \cup GroupId \cup Request) = {}

VARIABLES
  realm,        \* Keycloak: the account of each subject, or None
  users,        \* the users row of each id
  groups,       \* the groups row of each id
  memberships,  \* the membership rows
  expenses,     \* the expenses and their shares
  audit,        \* audit_log: a bag of entries
  req,          \* the local state of every request in progress
  cleared       \* ghost: the users who were verified at some time

tables == <<users, groups, memberships, expenses, audit, cleared>>
vars   == <<realm, tables, req>>

VerificationStatus == {"registered", "pending_verification", "verified", "rejected"}

Account == [email : Address, there : BOOLEAN]

User == [email : Address, kc : Subject \cup {None}, ga : BOOLEAN,
         st : VerificationStatus, by : UserId \cup {None}]

Group == [createdBy : UserId]

Membership == [id : MembershipId, group : GroupId, user : UserId,
               role : {"group_admin", "member"}, st : {"requested", "approved", "rejected"}]

Expense == [group : GroupId, paidBy : MembershipId, shares : SUBSET UserId]

AuditAction == {"membership.approved", "membership.rejected", "expense.created",
                "user.deleted", "group.deleted"}

Entry == [group : GroupId \cup {None}, actor : UserId, action : AuditAction,
          about : UserId \cup GroupId]

\* NULL and the deleted are no rows.
ASSUME RowsAssumption == {None, Deleted} \cap (Account \cup User \cup Group) = {}

Idle == [pc |-> "idle"]

Init ==
  /\ realm = [s \in Subject |-> None]
  /\ users = [u \in UserId |-> None]
  /\ groups = [g \in GroupId |-> None]
  /\ memberships = {} /\ expenses = {} /\ audit = EmptyBag
  /\ req = [r \in Request |-> Idle]
  /\ cleared = {}
-----------------------------------------------------------------------------
Exists(u) == users[u] \notin {None, Deleted}

Rows == {u \in UserId : Exists(u)}

GroupExists(g) == groups[g] \notin {None, Deleted}

GetUserByKeycloakID(s) == {u \in Rows : users[u].kc = s}

\* The row of an e-mail address (citext, unique), as a set of at most one.
RowOf(e) == {u \in Rows : users[u].email = e}

TheAdmins == {u \in Rows : users[u].ga}

Verified(u) == users[u].st = "verified"

\* gen_random_uuid(): some id that no row has and no request remembers.
NewIds ==
  MembershipId \ ({m.id : m \in memberships}
    \cup {req[r].row : r \in {o \in Request : req[o].pc \in {"remove", "record"}}})

NewId == CHOOSE i \in NewIds : TRUE

IsMember(g, u) == \E m \in memberships : m.group = g /\ m.user = u

Approved(g, u) == \E m \in memberships : m.group = g /\ m.user = u /\ m.st = "approved"

RequireGroupAdmin(g, u) ==
  \/ users[u].ga
  \/ \E m \in memberships :
       m.group = g /\ m.user = u /\ m.st = "approved" /\ m.role = "group_admin"

\* A token is accepted as long as it is valid, whatever became of the account
\* it was issued for.
HasToken(s) == realm[s] # None

\* Who sends a request with a token of s: nobody, if no row is linked to s.
Caller(s) == IF HasToken(s) THEN GetUserByKeycloakID(s) ELSE {}

Goes(r, local) ==
  /\ req' = [req EXCEPT ![r] = local]
  /\ UNCHANGED <<realm, tables>>

Ends(r) == req' = [req EXCEPT ![r] = Idle]

Refused(r) == Ends(r) /\ UNCHANGED <<realm, tables>>

\* The requests in progress once the admin, or the seed, has decided on t.
Overtaken(t) ==
  [r \in Request |-> IF req[r].pc = "ask" /\ req[r].user = t
                    THEN [req[r] EXCEPT !.late = TRUE] ELSE req[r]]
-----------------------------------------------------------------------------
\* The seed command: the admin's row is created or raised; a second global
\* admin is refused by the index one_global_admin.
Raised(u) == [users[u] EXCEPT !.ga = TRUE, !.st = "verified"]

SeedRow == [email |-> AdminEmail, kc |-> None, ga |-> TRUE, st |-> "verified", by |-> None]

SeedGlobalAdmin ==
  /\ TheAdmins \subseteq RowOf(AdminEmail)
  /\ \E u \in UserId :
       /\ \/ /\ u \in RowOf(AdminEmail) /\ ~(users[u].ga /\ Verified(u))
             /\ users' = [users EXCEPT ![u] = Raised(u)]
          \/ /\ RowOf(AdminEmail) = {} /\ users[u] = None
             /\ users' = [users EXCEPT ![u] = SeedRow]
       /\ cleared' = cleared \cup {u}
       /\ req' = Overtaken(u)
  /\ UNCHANGED <<realm, groups, memberships, expenses, audit>>

\* SignUp: Keycloak refuses an address it has; the new subject then registers.
KeycloakHas(e) == \E s \in Subject : realm[s] # None /\ realm[s].there /\ realm[s].email = e

SignUp(r, e) ==
  /\ req[r] = Idle
  /\ ~KeycloakHas(e)
  /\ \E s \in Subject :
       /\ realm[s] = None
       /\ realm' = [realm EXCEPT ![s] = [email |-> e, there |-> TRUE]]
       /\ req' = [req EXCEPT ![r] = [pc |-> "lookup", subject |-> s]]
  /\ UNCHANGED tables

\* An account is removed in Keycloak; its users row knows nothing of it.
Departs(s) ==
  /\ realm[s] # None /\ realm[s].there
  /\ realm' = [realm EXCEPT ![s].there = FALSE]
  /\ UNCHANGED <<tables, req>>

\* Register: a subject with a row is done ...
Lookup(r, s) ==
  IF GetUserByKeycloakID(s) # {} THEN Refused(r)
  ELSE Goes(r, [pc |-> "link", subject |-> s])

Register(r, s) == req[r] = Idle /\ HasToken(s) /\ Lookup(r, s)

\* Login: only for an account Keycloak has; what Register answers is logged.
Login(r, s) == req[r] = Idle /\ HasToken(s) /\ realm[s].there /\ Lookup(r, s)

SignUpLookup(r) == req[r].pc = "lookup" /\ Lookup(r, req[r].subject)

\* ... else an unlinked row with its e-mail address is claimed ...
Claims(e) == RowOf(e)

Unclaimed(e) == {u \in RowOf(e) : users[u].kc = None}

LinkUserKeycloakID(r) ==
  LET s == req[r].subject IN
  /\ req[r].pc = "link"
  /\ IF Unclaimed(realm[s].email) = {} THEN Goes(r, [pc |-> "create", subject |-> s])
     ELSE /\ \E u \in Unclaimed(realm[s].email) : users' = [users EXCEPT ![u].kc = s]
          /\ Ends(r)
          /\ UNCHANGED <<realm, groups, memberships, expenses, audit, cleared>>

\* ... else a row is created, unless the address or the subject has one by now.
OtherSubject(s) == GetUserByKeycloakID(s) = {}

Free(s) == RowOf(realm[s].email) = {} /\ GetUserByKeycloakID(s) = {}

NewUser(s) ==
  [email |-> realm[s].email, kc |-> s, ga |-> FALSE, st |-> "registered", by |-> None]

CreateUser(r) ==
  LET s == req[r].subject IN
  /\ req[r].pc = "create"
  /\ IF Free(s)
     THEN /\ \E u \in UserId : users[u] = None /\ users' = [users EXCEPT ![u] = NewUser(s)]
          /\ Ends(r)
          /\ UNCHANGED <<realm, groups, memberships, expenses, audit, cleared>>
     ELSE Refused(r)
-----------------------------------------------------------------------------
\* SubmitVerification: a pending or verified account is answered at once ...
NotPending(u) == users[u].st # "pending_verification"

MayAsk(u) == users[u].st \in {"registered", "rejected"}

SubmitVerification(r, s) ==
  /\ req[r] = Idle
  /\ \E u \in Caller(s) :
       MayAsk(u) /\ Goes(r, [pc |-> "ask", user |-> u, late |-> FALSE])

\* ... and any other set to pending, whatever it is by now.  late is a ghost:
\* the admin has decided since the read.
SetUserVerificationPending(r) ==
  LET u == req[r].user IN
  /\ req[r].pc = "ask"
  /\ IF Exists(u)
     THEN /\ users' = [users EXCEPT ![u].st = "pending_verification"]
          /\ Ends(r)
          /\ UNCHANGED <<realm, groups, memberships, expenses, audit, cleared>>
     ELSE Refused(r)

\* SetVerification: the caller is the global admin; the target may be anyone.
Anyone(u) == TRUE

RequireGlobalAdmin(u) == users[u].ga

SetVerification(r, s, t, d) ==
  /\ req[r] = Idle
  /\ \E u \in Caller(s) :
       /\ RequireGlobalAdmin(u)
       /\ Goes(r, [pc |-> "verify", admin |-> u, target |-> t, decision |-> d])

SetUserVerification(r) ==
  LET t == req[r].target
      d == req[r].decision
  IN /\ req[r].pc = "verify"
     /\ IF Exists(t) /\ Exists(req[r].admin)
        THEN /\ users' = [users EXCEPT ![t].st = d, ![t].by = req[r].admin]
             /\ cleared' = IF d = "verified" THEN cleared \cup {t} ELSE cleared
             /\ req' = [Overtaken(t) EXCEPT ![r] = Idle]
             /\ UNCHANGED <<realm, groups, memberships, expenses, audit>>
        ELSE Refused(r)
-----------------------------------------------------------------------------
\* resolveGroupAdmin: a verified user leads the group it creates; the global
\* admin names another, verified user.
AssignsAnyone(u, t) == IF users[u].ga THEN t # u /\ Exists(t) ELSE t = u /\ Verified(u)

resolveGroupAdmin(u, t) ==
  IF users[u].ga THEN t # u /\ Exists(t) /\ Verified(t) ELSE t = u /\ Verified(u)

CreateGroup(r, s, t) ==
  /\ req[r] = Idle
  /\ \E u \in Caller(s) :
       /\ resolveGroupAdmin(u, t)
       /\ Goes(r, [pc |-> "found", creator |-> u, admin |-> t])

\* CreateGroupAdminMembership: its admin is its first member.
AdminMembership(i, g, u) ==
  [id |-> i, group |-> g, user |-> u, role |-> "group_admin", st |-> "approved"]

CreateGroupTx(r) ==
  LET q == req[r] IN
  /\ q.pc = "found"
  /\ IF Exists(q.creator) /\ Exists(q.admin)
     THEN /\ NewIds # {}
          /\ \E g \in GroupId :
               /\ groups[g] = None
               /\ groups' = [groups EXCEPT ![g] = [createdBy |-> q.creator]]
               /\ memberships' = memberships \cup {AdminMembership(NewId, g, q.admin)}
          /\ Ends(r)
          /\ UNCHANGED <<realm, users, expenses, audit, cleared>>
     ELSE Refused(r)

\* RequestToJoin, of an open group.
RequestToJoin(r, s, g) ==
  /\ req[r] = Idle
  /\ GroupExists(g)
  /\ \E u \in Caller(s) : Verified(u) /\ Goes(r, [pc |-> "join", user |-> u, group |-> g])

JoinRequest(i, g, u) ==
  [id |-> i, group |-> g, user |-> u, role |-> "member", st |-> "requested"]

CreateJoinRequest(r) ==
  LET q == req[r] IN
  /\ q.pc = "join"
  /\ IF Exists(q.user) /\ GroupExists(q.group) /\ ~IsMember(q.group, q.user)
     THEN /\ NewIds # {}
          /\ memberships' = memberships \cup {JoinRequest(NewId, q.group, q.user)}
          /\ Ends(r)
          /\ UNCHANGED <<realm, users, groups, expenses, audit, cleared>>
     ELSE Refused(r)

\* setMemberStatus: decided and logged in one transaction.
DecideMember(r, s, g, t, d) ==
  /\ req[r] = Idle
  /\ \E u \in Caller(s) :
       /\ RequireGroupAdmin(g, u)
       /\ Goes(r, [pc |-> "member", actor |-> u, group |-> g, target |-> t, decision |-> d])

BareEntry(q) ==
  [group |-> q.group, actor |-> q.actor, about |-> q.target, action |-> q.decision]

DecisionEntry(q) ==
  [group |-> q.group, actor |-> q.actor, about |-> q.target,
   action |-> IF q.decision = "approved" THEN "membership.approved" ELSE "membership.rejected"]

DecideJoinRequest(r) ==
  LET q == req[r] IN
  /\ q.pc = "member"
  /\ BagIn(DecisionEntry(q), audit) => audit[DecisionEntry(q)] < MaxDecided
  /\ IF Exists(q.actor) /\ \E m \in memberships :
          m.group = q.group /\ m.user = q.target /\ m.st = "requested"
     THEN /\ memberships' =
               {IF m.group = q.group /\ m.user = q.target THEN [m EXCEPT !.st = q.decision] ELSE m :
                  m \in memberships}
          /\ audit' = BagAdd(audit, DecisionEntry(q))
          /\ Ends(r)
          /\ UNCHANGED <<realm, users, groups, expenses, cleared>>
     ELSE Refused(r)

\* RemoveMember: no admin, no payer, no participant ...
Paid(i) == \E x \in expenses : x.paidBy = i

Shares(g, u) == \E x \in expenses : x.group = g /\ u \in x.shares

RemoveMember(r, s, m) ==
  /\ req[r] = Idle
  /\ m.role = "member"
  /\ \E u \in Caller(s) : u = m.user \/ RequireGroupAdmin(m.group, u)
  /\ ~Paid(m.id) /\ ~Shares(m.group, m.user)
  /\ Goes(r, [pc |-> "remove", row |-> m.id])

\* ... is deleted later, by its id, unless an expense refers to it by now.
DeleteMembership(r) ==
  LET i == req[r].row IN
  /\ req[r].pc = "remove"
  /\ IF ~Paid(i)
     THEN /\ memberships' = {m \in memberships : m.id # i}
          /\ Ends(r)
          /\ UNCHANGED <<realm, users, groups, expenses, audit, cleared>>
     ELSE Refused(r)

\* RecordExpense: payer and participants are approved members; nothing is said
\* of their verification.  The group is locked, they are not.
RecordExpense(r, s, g, shares) ==
  /\ req[r] = Idle
  /\ Cardinality(expenses) < MaxExpense
  /\ GroupExists(g)
  /\ \A v \in shares : Approved(g, v)
  /\ \E u \in Caller(s) : \E m \in memberships :
       /\ m.group = g /\ m.user = u /\ m.st = "approved"
       /\ Goes(r, [pc |-> "record", actor |-> u, row |-> m.id, group |-> g, shares |-> shares])

Locked(g) == \E r \in Request : req[r].pc = "record" /\ req[r].group = g

Payable(g, i) == \E m \in memberships : m.id = i /\ m.group = g

ExpenseEntry(q) ==
  [group |-> q.group, actor |-> q.actor, action |-> "expense.created", about |-> q.group]

\* The expense refers to the payer's membership, its shares to users.
CreateExpense(r) ==
  LET q == req[r] IN
  /\ q.pc = "record"
  /\ Cardinality(expenses) < MaxExpense
  /\ IF Payable(q.group, q.row) /\ \A v \in q.shares \cup {q.actor} : Exists(v)
     THEN /\ expenses' = expenses \cup
               {[group |-> q.group, paidBy |-> q.row, shares |-> q.shares]}
          /\ audit' = BagAdd(audit, ExpenseEntry(q))
          /\ Ends(r)
          /\ UNCHANGED <<realm, users, groups, memberships, cleared>>
     ELSE Refused(r)
-----------------------------------------------------------------------------
\* GetUserAdminView: there, and not a global admin.
Dismissible(t) == Exists(t) /\ ~users[t].ga

\* CountUserMemberships.
Joined(t) == \E m \in memberships : m.user = t

\* AdminDeleteUser: not the caller, not a global admin, without memberships ...
AdminDeleteUser(r, s, t) ==
  /\ req[r] = Idle
  /\ \E u \in Caller(s) :
       /\ RequireGlobalAdmin(u)
       /\ u # t
       /\ Dismissible(t) /\ ~Joined(t)
       /\ Goes(r, [pc |-> "deleteUser", actor |-> u, target |-> t])

\* ... and deleted if no foreign key refers to it: memberships, groups, shares,
\* the audit log, the verifications it decided.
CountedOnly(t) == FALSE

Referenced(t) ==
  \/ Joined(t)
  \/ \E g \in GroupId : GroupExists(g) /\ groups[g].createdBy = t
  \/ \E x \in expenses : t \in x.shares
  \/ \E a \in BagToSet(audit) : a.actor = t
  \/ \E u \in Rows \ {t} : users[u].by = t

LogEntry(actor, action, about) ==
  [group |-> None, actor |-> actor, action |-> action, about |-> about]

Unlogged(actor, action, about) == audit

Logged(actor, action, about) == BagAdd(audit, LogEntry(actor, action, about))

\* Of two deletions of one row the second finds nothing, and is logged too.
DeleteUser(r) ==
  LET q == req[r] IN
  /\ q.pc = "deleteUser"
  /\ IF Exists(q.actor) /\ ~Referenced(q.target)
     THEN /\ users' = [users EXCEPT ![q.target] = Deleted]
          /\ audit' = Logged(q.actor, "user.deleted", q.target)
          /\ Ends(r)
          /\ UNCHANGED <<realm, groups, memberships, expenses, cleared>>
     ELSE Refused(r)

\* AdminDeleteGroup: a group without expenses or audit entries ...
GroupHasHistory(g) ==
  (\E x \in expenses : x.group = g) \/ (\E a \in BagToSet(audit) : a.group = g)

AdminDeleteGroup(r, s, g) ==
  /\ req[r] = Idle
  /\ GroupExists(g)
  /\ ~GroupHasHistory(g)
  /\ \E u \in Caller(s) :
       RequireGlobalAdmin(u) /\ Goes(r, [pc |-> "deleteGroup", actor |-> u, target |-> g])

\* ... is deleted with its memberships, unless an expense refers to one of them
\* or an audit entry to the group by now; it waits for those who locked it.
DeleteGroup(r) ==
  LET q == req[r] IN
  /\ q.pc = "deleteGroup"
  /\ ~Locked(q.target)
  /\ IF Exists(q.actor) /\ ~GroupHasHistory(q.target)
     THEN /\ memberships' = {m \in memberships : m.group # q.target}
          /\ groups' = [groups EXCEPT ![q.target] = Deleted]
          /\ audit' = Logged(q.actor, "group.deleted", q.target)
          /\ Ends(r)
          /\ UNCHANGED <<realm, users, expenses, cleared>>
     ELSE Refused(r)

\* Any statement or call may fail; an open transaction is rolled back, an
\* account created in Keycloak stays.
Fail(r) == req[r] # Idle /\ Refused(r)
-----------------------------------------------------------------------------
\* The routes of the router, by the handlers that serve them.
PostAuthRegister(r) == \E e \in Address : SignUp(r, e)

PostAuthLogin(r) == \E s \in Subject : Login(r, s)

PostRegister(r) == \E s \in Subject : Register(r, s)

PostVerification(r) == \E s \in Subject : SubmitVerification(r, s)

PostUserDecision(r) ==
  \E s \in Subject, t \in UserId, d \in {"verified", "rejected"} : SetVerification(r, s, t, d)

PostGroups(r) == \E s \in Subject, t \in UserId : CreateGroup(r, s, t)

PostGroupsJoin(r) == \E s \in Subject, g \in GroupId : RequestToJoin(r, s, g)

PostMemberDecision(r) ==
  \E s \in Subject, g \in GroupId, t \in UserId, d \in Decision :
    DecideMember(r, s, g, t, d)

DeleteMember(r) == \E s \in Subject, m \in memberships : RemoveMember(r, s, m)

PostExpenses(r) ==
  \E s \in Subject, g \in GroupId, shares \in Splits : RecordExpense(r, s, g, shares)

DeleteAdminUsers(r) == \E s \in Subject, t \in UserId : AdminDeleteUser(r, s, t)

DeleteAdminGroups(r) == \E s \in Subject, g \in GroupId : AdminDeleteGroup(r, s, g)

Arrive(r) ==
  \/ PostAuthRegister(r) \/ PostAuthLogin(r) \/ PostRegister(r)
  \/ PostVerification(r) \/ PostUserDecision(r)
  \/ PostGroups(r) \/ PostGroupsJoin(r) \/ PostMemberDecision(r) \/ DeleteMember(r)
  \/ PostExpenses(r) \/ DeleteAdminUsers(r) \/ DeleteAdminGroups(r)

Work(r) ==
  \/ SignUpLookup(r) \/ LinkUserKeycloakID(r) \/ CreateUser(r)
  \/ SetUserVerificationPending(r) \/ SetUserVerification(r)
  \/ CreateGroupTx(r) \/ CreateJoinRequest(r) \/ DecideJoinRequest(r) \/ DeleteMembership(r)
  \/ CreateExpense(r) \/ DeleteUser(r) \/ DeleteGroup(r)

Next ==
  \/ \E r \in Request : Arrive(r) \/ Work(r) \/ Fail(r)
  \/ SeedGlobalAdmin
  \/ \E s \in Subject : Departs(s)

Spec == Init /\ [][Next]_vars
-----------------------------------------------------------------------------
(***************************************************************************)
(* Properties.                                                             *)
(***************************************************************************)

\* Type invariant: the tables, and what a request carries from its read to its
\* write.
Local ==
  {Idle}
  \cup [pc : {"lookup", "link", "create"}, subject : Subject]
  \cup [pc : {"ask"}, user : UserId, late : BOOLEAN]
  \cup [pc : {"verify"}, admin : UserId, target : UserId, decision : {"verified", "rejected"}]
  \cup [pc : {"found"}, creator : UserId, admin : UserId]
  \cup [pc : {"join"}, user : UserId, group : GroupId]
  \cup [pc : {"member"}, actor : UserId, group : GroupId, target : UserId,
        decision : {"approved", "rejected"}]
  \cup [pc : {"remove"}, row : MembershipId]
  \cup [pc : {"record"}, actor : UserId, row : MembershipId, group : GroupId,
        shares : SUBSET UserId]
  \cup [pc : {"deleteUser"}, actor : UserId, target : UserId]
  \cup [pc : {"deleteGroup"}, actor : UserId, target : GroupId]

TypeOK ==
  /\ realm \in [Subject -> Account \cup {None}]
  /\ users \in [UserId -> User \cup {None, Deleted}]
  /\ groups \in [GroupId -> Group \cup {None, Deleted}]
  /\ memberships \subseteq Membership
  /\ expenses \subseteq Expense
  /\ IsABag(audit) /\ BagToSet(audit) \subseteq Entry
  /\ req \in [Request -> Local]
  /\ cleared \subseteq UserId

\* registration.go: concurrent registrations of one subject or one address, the
\* seeding and the linking leave one row each, linked to the account that has
\* its address; and there is one global admin.
IdentitiesAreApart ==
  /\ \A u, v \in Rows : u # v =>
       /\ users[u].email # users[v].email
       /\ users[u].kc # users[v].kc \/ users[u].kc = None
       /\ ~(users[u].ga /\ users[v].ga)
  /\ \A u \in Rows : users[u].kc # None =>
       realm[users[u].kc] # None /\ realm[users[u].kc].email = users[u].email

\* A row once linked keeps its subject and its address: whoever takes over an
\* address in Keycloak does not get the row of the one who had it.
RowKeepsItsSubject ==
  [][\A u \in UserId :
       Exists(u) /\ users[u].kc # None /\ Exists(u)' =>
         users'[u].kc = users[u].kc /\ users'[u].email = users[u].email]_vars

\* admin.go: deleting users and groups on the strength of a check made earlier
\* never corrupts the books: whatever they refer to is still there.
NothingDangles ==
  /\ \A m \in memberships : Exists(m.user) /\ GroupExists(m.group)
  /\ \A g \in GroupId : GroupExists(g) => Exists(groups[g].createdBy)
  /\ \A x \in expenses :
       /\ GroupExists(x.group) /\ Payable(x.group, x.paidBy)
       /\ \A u \in x.shares : Exists(u)
  /\ \A a \in BagToSet(audit) : Exists(a.actor) /\ (a.group # None => GroupExists(a.group))
  /\ \A u \in Rows : users[u].by # None => Exists(users[u].by)

\* What is deleted is logged, and what is logged as deleted is gone for good,
\* also when two deletions of it run at the same time.
LogIsTrue ==
  /\ \A u \in UserId : users[u] = Deleted <=>
       \E a \in BagToSet(audit) : a.action = "user.deleted" /\ a.about = u
  /\ \A g \in GroupId : groups[g] = Deleted <=>
       \E a \in BagToSet(audit) : a.action = "group.deleted" /\ a.about = g

\* README: only verified users create or join groups: every member was verified
\* at some time (not necessarily still is).
MembersWereVerified == \A m \in memberships : m.user \in cleared

\* An account is verified by the global admin's decision or the seed, however
\* submissions and decisions interleave.
VerifiedByTheAdmin ==
  \A u \in Rows : Verified(u) =>
    users[u].ga \/ (users[u].by # None /\ users[u].by \in TheAdmins)

\* verification.go: a verified account asks for nothing ("already verified"), so
\* it loses that only to a submission that read it before the admin decided.
VerifiedLostOnlyToRace ==
  [][\A u \in UserId :
       Exists(u) /\ Verified(u) /\ Exists(u)' /\ users'[u].st = "pending_verification" =>
         \E r \in Request : req[r].pc = "ask" /\ req[r].user = u /\ req[r].late]_vars
=============================================================================
