--------------------------- MODULE AccountsProofs ---------------------------
(***************************************************************************)
(* Proofs of the safety properties of Accounts, for any addresses, ids and *)
(* requests.                                                               *)
(***************************************************************************)
EXTENDS Accounts, TLAPS

\* What a request relies on between its read and its write.
Carried(r) ==
  LET q == req[r] IN
  /\ q.pc \in {"lookup", "link", "create"} => realm[q.subject] # None
  /\ q.pc = "ask" => (~q.late /\ Exists(q.user) => ~Verified(q.user))
  /\ q.pc = "verify" => q.admin \in TheAdmins
  /\ q.pc = "found" => q.admin \in cleared
  /\ q.pc = "join" => q.user \in cleared
  /\ q.pc = "deleteUser" => q.actor \in TheAdmins /\ q.actor # q.target

RequestsAreSound == \A r \in Request : Carried(r)

VerifiedAreCleared == \A u \in Rows : Verified(u) => u \in cleared

IInv ==
  /\ TypeOK
  /\ IdentitiesAreApart
  /\ RequestsAreSound
  /\ VerifiedAreCleared
  /\ VerifiedByTheAdmin
  /\ MembersWereVerified
  /\ NothingDangles
  /\ LogIsTrue
-----------------------------------------------------------------------------
(***************************************************************************)
(* Types.                                                                  *)
(***************************************************************************)

\* What the local state of a request holds, by its program counter.
LEMMA LocalFields ==
  ASSUME NEW q \in Local
  PROVE  /\ q.pc \in {"lookup", "link", "create"} => q.subject \in Subject
         /\ q.pc = "ask" => q.user \in UserId /\ q.late \in BOOLEAN
         /\ q.pc = "verify" =>
              /\ q.admin \in UserId /\ q.target \in UserId
              /\ q.decision \in {"verified", "rejected"}
         /\ q.pc = "found" => q.creator \in UserId /\ q.admin \in UserId
         /\ q.pc = "join" => q.user \in UserId /\ q.group \in GroupId
         /\ q.pc = "member" =>
              /\ q.actor \in UserId /\ q.group \in GroupId /\ q.target \in UserId
              /\ q.decision \in {"approved", "rejected"}
         /\ q.pc = "remove" => q.row \in MembershipId
         /\ q.pc = "record" =>
              /\ q.actor \in UserId /\ q.row \in MembershipId /\ q.group \in GroupId
              /\ q.shares \subseteq UserId
         /\ q.pc = "deleteUser" => q.actor \in UserId /\ q.target \in UserId
         /\ q.pc = "deleteGroup" => q.actor \in UserId /\ q.target \in GroupId
BY DEF Local, Idle

\* An entry added to a bag is in it, beside the others.
LEMMA Added ==
  ASSUME NEW B, NEW e
  PROVE  /\ BagToSet(BagAdd(B, e)) = BagToSet(B) \cup {e}
         /\ IsABag(B) => IsABag(BagAdd(B, e))
BY DEF BagToSet, BagAdd, IsABag

\* A new membership has an id.
LEMMA NewIdTyped == NewIds # {} => NewId \in MembershipId
BY DEF NewId, NewIds

\* The rows and the lookups on them have the types of their tables.
LEMMA RowTypes ==
  ASSUME TypeOK
  PROVE  /\ \A u \in UserId : Exists(u) => users[u] \in User
         /\ \A g \in GroupId : GroupExists(g) => groups[g] \in Group
         /\ \A s \in Subject : realm[s] # None => realm[s] \in Account
         /\ \A u \in UserId : users[u] \in User => Exists(u)
         /\ \A g \in GroupId : groups[g] \in Group => GroupExists(g)
         /\ \A s \in Subject : realm[s] \in Account => realm[s] # None
BY RowsAssumption DEF TypeOK, Exists, GroupExists

\* A request that ends leaves the rest of the requests alone.
LEMMA EndsTyped ==
  ASSUME TypeOK, NEW r \in Request, Ends(r)
  PROVE  req' \in [Request -> Local]
BY DEF TypeOK, Ends, Local

\* A request that is refused leaves the requests typed.
LEMMA RefusedTyped ==
  ASSUME TypeOK, NEW r \in Request, Refused(r)
  PROVE  TypeOK'
BY EndsTyped DEF TypeOK, Refused, tables

\* A request that goes on with typed fields leaves the requests typed.
LEMMA GoesTyped ==
  ASSUME TypeOK, NEW r \in Request, NEW q \in Local, Goes(r, q)
  PROVE  TypeOK'
BY DEF TypeOK, Goes, tables

\* A decision marks the requests it overtakes and changes nothing else of them.
LEMMA OvertakenTyped ==
  ASSUME TypeOK, NEW t \in UserId
  PROVE  /\ Overtaken(t) \in [Request -> Local]
         /\ \A r \in Request :
              \/ Overtaken(t)[r] = req[r]
              \/ /\ req[r].pc = "ask" /\ req[r].user = t
                 /\ Overtaken(t)[r] = [pc |-> "ask", user |-> t, late |-> TRUE]
<1> SUFFICES ASSUME NEW r \in Request
             PROVE  /\ Overtaken(t)[r] \in Local
                    /\ \/ Overtaken(t)[r] = req[r]
                       \/ /\ req[r].pc = "ask" /\ req[r].user = t
                          /\ Overtaken(t)[r] = [pc |-> "ask", user |-> t, late |-> TRUE]
  BY DEF Overtaken
<1>1. req[r] \in Local
  BY DEF TypeOK
<1>2. CASE req[r].pc = "ask" /\ req[r].user = t
  <2>1. req[r] \in [pc : {"ask"}, user : UserId, late : BOOLEAN]
    BY <1>1, <1>2 DEF Local, Idle
  <2>2. Overtaken(t)[r] = [pc |-> "ask", user |-> t, late |-> TRUE]
    BY <1>2, <2>1 DEF Overtaken
  <2> QED
    BY <1>2, <2>2 DEF Local
<1>3. CASE ~(req[r].pc = "ask" /\ req[r].user = t)
  BY <1>1, <1>3 DEF Overtaken
<1> QED
  BY <1>2, <1>3

\* What a request reads when it arrives is of its type.
LEMMA ArriveTyped ==
  ASSUME TypeOK, NEW r \in Request, Arrive(r)
  PROVE  TypeOK'
<1> USE DEF Local
<1>0. \A s \in Subject : Caller(s) \subseteq UserId
  BY DEF Caller, GetUserByKeycloakID, Rows
<1>1. ASSUME NEW s \in Subject, Lookup(r, s)
      PROVE  TypeOK'
  <2>1. CASE Refused(r)
    BY <2>1, RefusedTyped
  <2>2. CASE Goes(r, [pc |-> "link", subject |-> s])
    BY <2>2, GoesTyped
  <2> QED
    BY <1>1, <2>1, <2>2 DEF Lookup
<1>2. CASE PostAuthRegister(r)
  <2>1. PICK e \in Address : SignUp(r, e)
    BY <1>2 DEF PostAuthRegister
  <2>2. PICK s \in Subject :
          /\ realm' = [realm EXCEPT ![s] = [email |-> e, there |-> TRUE]]
          /\ req' = [req EXCEPT ![r] = [pc |-> "lookup", subject |-> s]]
    BY <2>1 DEF SignUp
  <2> QED
    BY <2>1, <2>2 DEF SignUp, TypeOK, Account, tables
<1>3. CASE PostAuthLogin(r) \/ PostRegister(r)
  BY <1>1, <1>3 DEF PostAuthLogin, PostRegister, Login, Register
<1>4. CASE PostVerification(r)
  <2>1. PICK s \in Subject, u \in UserId : Goes(r, [pc |-> "ask", user |-> u, late |-> FALSE])
    BY <1>0, <1>4 DEF PostVerification, SubmitVerification
  <2> QED
    BY <2>1, GoesTyped
<1>5. CASE PostUserDecision(r)
  <2>1. PICK s \in Subject, t \in UserId, d \in {"verified", "rejected"}, u \in UserId :
          Goes(r, [pc |-> "verify", admin |-> u, target |-> t, decision |-> d])
    BY <1>0, <1>5 DEF PostUserDecision, SetVerification
  <2> QED
    BY <2>1, GoesTyped
<1>6. CASE PostGroups(r)
  <2>1. PICK s \in Subject, t \in UserId, u \in UserId :
          Goes(r, [pc |-> "found", creator |-> u, admin |-> t])
    BY <1>0, <1>6 DEF PostGroups, CreateGroup
  <2> QED
    BY <2>1, GoesTyped
<1>7. CASE PostGroupsJoin(r)
  <2>1. PICK s \in Subject, g \in GroupId, u \in UserId :
          Goes(r, [pc |-> "join", user |-> u, group |-> g])
    BY <1>0, <1>7 DEF PostGroupsJoin, RequestToJoin
  <2> QED
    BY <2>1, GoesTyped
<1>8. CASE PostMemberDecision(r)
  <2>1. PICK s \in Subject, g \in GroupId, t \in UserId, d \in Decision, u \in UserId :
          Goes(r, [pc |-> "member", actor |-> u, group |-> g, target |-> t, decision |-> d])
    BY <1>0, <1>8 DEF PostMemberDecision, DecideMember
  <2> QED
    BY <2>1, GoesTyped, AccountsAssumption
<1>9. CASE DeleteMember(r)
  <2>1. PICK m \in memberships : Goes(r, [pc |-> "remove", row |-> m.id])
    BY <1>9 DEF DeleteMember, RemoveMember
  <2>2. m.id \in MembershipId
    BY DEF TypeOK, Membership
  <2> QED
    BY <2>1, <2>2, GoesTyped
<1>10. CASE DeleteAdminUsers(r)
  <2>1. PICK s \in Subject, t \in UserId, u \in UserId :
          Goes(r, [pc |-> "deleteUser", actor |-> u, target |-> t])
    BY <1>0, <1>10 DEF DeleteAdminUsers, AdminDeleteUser
  <2> QED
    BY <2>1, GoesTyped
<1>11. CASE DeleteAdminGroups(r)
  <2>1. PICK s \in Subject, g \in GroupId, u \in UserId :
          Goes(r, [pc |-> "deleteGroup", actor |-> u, target |-> g])
    BY <1>0, <1>11 DEF DeleteAdminGroups, AdminDeleteGroup
  <2> QED
    BY <2>1, GoesTyped
<1>12. CASE PostExpenses(r)
  <2>1. PICK g \in GroupId, shares \in Splits, u \in UserId, m \in memberships :
          Goes(r, [pc |-> "record", actor |-> u, row |-> m.id, group |-> g, shares |-> shares])
    BY <1>0, <1>12 DEF PostExpenses, RecordExpense
  <2>2. m.id \in MembershipId /\ shares \subseteq UserId
    BY AccountsAssumption DEF TypeOK, Membership
  <2> QED
    BY <2>1, <2>2, GoesTyped
<1> QED
  BY <1>2, <1>3, <1>4, <1>5, <1>6, <1>7, <1>8, <1>9, <1>10, <1>11, <1>12 DEF Arrive

\* A write of a request keeps the types.
LEMMA WorkTyped ==
  ASSUME TypeOK, RequestsAreSound, NEW r \in Request, Work(r)
  PROVE  TypeOK'
<1> DEFINE q == req[r]
<1>0. /\ q \in Local
      /\ users \in [UserId -> User \cup {None, Deleted}]
      /\ \A u \in UserId : Exists(u) => users[u] \in User
  BY RowTypes DEF TypeOK
<1>1. CASE SignUpLookup(r)
  <2>1. q.subject \in Subject
    BY <1>0, <1>1, LocalFields DEF SignUpLookup
  <2>2. CASE Goes(r, [pc |-> "link", subject |-> q.subject])
    BY <2>1, <2>2, GoesTyped DEF Local
  <2> QED
    BY <1>1, <2>2, RefusedTyped DEF SignUpLookup, Lookup
<1>2. CASE LinkUserKeycloakID(r)
  <2>1. q.subject \in Subject
    BY <1>0, <1>2, LocalFields DEF LinkUserKeycloakID
  <2>2. CASE Unclaimed(realm[q.subject].email) = {}
    <3>1. Goes(r, [pc |-> "create", subject |-> q.subject])
      BY <1>2, <2>2 DEF LinkUserKeycloakID
    <3> QED
      BY <2>1, <3>1, GoesTyped DEF Local
  <2>3. CASE Unclaimed(realm[q.subject].email) # {}
    <3>1. PICK u \in Unclaimed(realm[q.subject].email) :
            users' = [users EXCEPT ![u].kc = q.subject]
      BY <1>2, <2>3 DEF LinkUserKeycloakID
    <3>2. u \in UserId /\ users[u] \in User
      BY <1>0 DEF Unclaimed, RowOf, Rows
    <3>3. users' \in [UserId -> User \cup {None, Deleted}]
      BY <1>0, <2>1, <3>1, <3>2 DEF User
    <3> QED
      BY <1>2, <2>3, <3>3, EndsTyped DEF LinkUserKeycloakID, TypeOK
  <2> QED
    BY <2>2, <2>3
<1>3. CASE CreateUser(r)
  <2>1. q.subject \in Subject
    BY <1>0, <1>3, LocalFields DEF CreateUser
  <2>2. CASE Free(q.subject)
    <3>1. PICK u \in UserId : users' = [users EXCEPT ![u] = NewUser(q.subject)]
      BY <1>3, <2>2 DEF CreateUser
    <3>2. realm[q.subject] \in Account
      BY <1>3, <2>1 DEF CreateUser, RequestsAreSound, Carried, TypeOK
    <3>3. NewUser(q.subject) \in User
      BY <2>1, <3>2 DEF NewUser, User, Account, VerificationStatus
    <3>4. users' \in [UserId -> User \cup {None, Deleted}]
      BY <1>0, <3>1, <3>3
    <3> QED
      BY <1>3, <2>2, <3>4, EndsTyped DEF CreateUser, TypeOK
  <2> QED
    BY <1>3, <2>2, RefusedTyped DEF CreateUser
<1>4. CASE SetUserVerificationPending(r)
  <2>1. q.user \in UserId
    BY <1>0, <1>4, LocalFields DEF SetUserVerificationPending
  <2>2. CASE Exists(q.user)
    <3>1. users' \in [UserId -> User \cup {None, Deleted}]
      BY <1>0, <1>4, <2>1, <2>2 DEF SetUserVerificationPending, User, VerificationStatus
    <3> QED
      BY <1>4, <2>2, <3>1, EndsTyped DEF SetUserVerificationPending, TypeOK
  <2> QED
    BY <1>4, <2>2, RefusedTyped DEF SetUserVerificationPending
<1>5. CASE SetUserVerification(r)
  <2>1. /\ q.target \in UserId /\ q.admin \in UserId
        /\ q.decision \in {"verified", "rejected"}
    BY <1>0, <1>5, LocalFields DEF SetUserVerification
  <2>2. CASE Exists(q.target) /\ Exists(q.admin)
    <3>1. users' \in [UserId -> User \cup {None, Deleted}]
      BY <1>0, <1>5, <2>1, <2>2 DEF SetUserVerification, User, VerificationStatus
    <3>2. req' \in [Request -> Local]
      <4>1. Idle \in Local /\ Overtaken(q.target) \in [Request -> Local]
        BY <2>1, OvertakenTyped DEF Local
      <4> HIDE DEF q
      <4>2. req' = [Overtaken(q.target) EXCEPT ![r] = Idle]
        BY <1>5, <2>2 DEF SetUserVerification, q
      <4> QED
        BY <4>1, <4>2
    <3>3. cleared' \subseteq UserId
      BY <1>5, <2>1, <2>2 DEF SetUserVerification, TypeOK
    <3> QED
      BY <1>5, <2>2, <3>1, <3>2, <3>3 DEF SetUserVerification, TypeOK
  <2> QED
    BY <1>5, <2>2, RefusedTyped DEF SetUserVerification
<1>6. CASE CreateGroupTx(r)
  <2>1. q.creator \in UserId /\ q.admin \in UserId
    BY <1>0, <1>6, LocalFields DEF CreateGroupTx
  <2>2. CASE Exists(q.creator) /\ Exists(q.admin)
    <3>1. PICK g \in GroupId :
            /\ groups' = [groups EXCEPT ![g] = [createdBy |-> q.creator]]
            /\ memberships' = memberships \cup {AdminMembership(NewId, g, q.admin)}
            /\ NewId \in MembershipId
      BY <1>6, <2>2, NewIdTyped DEF CreateGroupTx
    <3>2. memberships' \subseteq Membership /\ groups' \in [GroupId -> Group \cup {None, Deleted}]
      BY <2>1, <3>1 DEF TypeOK, AdminMembership, Membership, Group
    <3> QED
      BY <1>6, <2>2, <3>2, EndsTyped DEF CreateGroupTx, TypeOK
  <2> QED
    BY <1>6, <2>2, RefusedTyped DEF CreateGroupTx
<1>7. CASE CreateJoinRequest(r)
  <2>1. q.user \in UserId /\ q.group \in GroupId
    BY <1>0, <1>7, LocalFields DEF CreateJoinRequest
  <2>2. CASE Refused(r)
    BY <2>2, RefusedTyped
  <2>3. CASE ~Refused(r)
    <3>1. memberships' \subseteq Membership
      BY <1>7, <2>1, <2>3, NewIdTyped DEF CreateJoinRequest, JoinRequest, TypeOK, Membership
    <3> QED
      BY <1>7, <2>3, <3>1, EndsTyped DEF CreateJoinRequest, TypeOK
  <2> QED
    BY <2>2, <2>3
<1>8. CASE DecideJoinRequest(r)
  <2>1. /\ q.actor \in UserId /\ q.group \in GroupId /\ q.target \in UserId
        /\ q.decision \in {"approved", "rejected"}
    BY <1>0, <1>8, LocalFields DEF DecideJoinRequest
  <2>2. CASE Refused(r)
    BY <2>2, RefusedTyped
  <2>3. CASE ~Refused(r)
    <3>1. memberships' \subseteq Membership
      <4>1. \A m \in Membership : [m EXCEPT !.st = q.decision] \in Membership
        BY <2>1 DEF Membership
      <4> QED
        BY <1>8, <2>3, <4>1 DEF DecideJoinRequest, TypeOK
    <3>2. IsABag(audit') /\ BagToSet(audit') \subseteq Entry
      <4>1. DecisionEntry(q) \in Entry
        BY <2>1 DEF DecisionEntry, Entry, AuditAction
      <4>2. audit' = BagAdd(audit, DecisionEntry(q))
        BY <1>8, <2>3 DEF DecideJoinRequest
      <4> QED
        BY <4>1, <4>2, Added DEF TypeOK
    <3> QED
      BY <1>8, <2>3, <3>1, <3>2, EndsTyped DEF DecideJoinRequest, TypeOK
  <2> QED
    BY <2>2, <2>3
<1>9. CASE DeleteMembership(r)
  <2>1. CASE Refused(r)
    BY <2>1, RefusedTyped
  <2>2. CASE ~Refused(r)
    BY <1>9, <2>2, EndsTyped DEF DeleteMembership, TypeOK
  <2> QED
    BY <2>1, <2>2
<1>10. CASE DeleteUser(r)
  <2>1. q.actor \in UserId /\ q.target \in UserId
    BY <1>0, <1>10, LocalFields DEF DeleteUser
  <2>2. CASE Refused(r)
    BY <2>2, RefusedTyped
  <2>3. CASE ~Refused(r)
    <3>1. users' \in [UserId -> User \cup {None, Deleted}]
      BY <1>0, <1>10, <2>3 DEF DeleteUser
    <3>2. IsABag(audit') /\ BagToSet(audit') \subseteq Entry
      <4>1. LogEntry(q.actor, "user.deleted", q.target) \in Entry
        BY <2>1 DEF LogEntry, Entry, AuditAction
      <4>2. audit' = BagAdd(audit, LogEntry(q.actor, "user.deleted", q.target))
        BY <1>10, <2>3 DEF DeleteUser, Logged
      <4> QED
        BY <4>1, <4>2, Added DEF TypeOK
    <3> QED
      BY <1>10, <2>3, <3>1, <3>2, EndsTyped DEF DeleteUser, TypeOK
  <2> QED
    BY <2>2, <2>3
<1>11. CASE DeleteGroup(r)
  <2>1. q.actor \in UserId /\ q.target \in GroupId
    BY <1>0, <1>11, LocalFields DEF DeleteGroup
  <2>2. CASE Refused(r)
    BY <2>2, RefusedTyped
  <2>3. CASE ~Refused(r)
    <3>1. groups' \in [GroupId -> Group \cup {None, Deleted}] /\ memberships' \subseteq Membership
      BY <1>11, <2>3 DEF DeleteGroup, TypeOK
    <3>2. IsABag(audit') /\ BagToSet(audit') \subseteq Entry
      <4>1. LogEntry(q.actor, "group.deleted", q.target) \in Entry
        BY <2>1 DEF LogEntry, Entry, AuditAction
      <4>2. audit' = BagAdd(audit, LogEntry(q.actor, "group.deleted", q.target))
        BY <1>11, <2>3 DEF DeleteGroup, Logged
      <4> QED
        BY <4>1, <4>2, Added DEF TypeOK
    <3> QED
      BY <1>11, <2>3, <3>1, <3>2, EndsTyped DEF DeleteGroup, TypeOK
  <2> QED
    BY <2>2, <2>3
<1>12. CASE CreateExpense(r)
  <2>1. /\ q.actor \in UserId /\ q.row \in MembershipId /\ q.group \in GroupId
        /\ q.shares \subseteq UserId
    BY <1>0, <1>12, LocalFields DEF CreateExpense
  <2>2. CASE Refused(r)
    BY <2>2, RefusedTyped
  <2>3. CASE ~Refused(r)
    <3>1. expenses' \subseteq Expense
      BY <1>12, <2>1, <2>3 DEF CreateExpense, TypeOK, Expense
    <3>2. IsABag(audit') /\ BagToSet(audit') \subseteq Entry
      <4>1. ExpenseEntry(q) \in Entry
        BY <2>1 DEF ExpenseEntry, Entry, AuditAction
      <4>2. audit' = BagAdd(audit, ExpenseEntry(q))
        BY <1>12, <2>3 DEF CreateExpense
      <4> QED
        BY <4>1, <4>2, Added DEF TypeOK
    <3> QED
      BY <1>12, <2>3, <3>1, <3>2, EndsTyped DEF CreateExpense, TypeOK
  <2> QED
    BY <2>2, <2>3
<1> QED
  BY <1>1, <1>2, <1>3, <1>4, <1>5, <1>6, <1>7, <1>8, <1>9, <1>10, <1>11, <1>12 DEF Work

\* Seeding and an account removed at Keycloak keep the types.
LEMMA OthersTyped ==
  ASSUME TypeOK, SeedGlobalAdmin \/ (\E s \in Subject : Departs(s))
  PROVE  TypeOK'
<1>1. CASE SeedGlobalAdmin
  <2>1. PICK u \in UserId :
          /\ \/ Exists(u) /\ users' = [users EXCEPT ![u] = Raised(u)]
             \/ users' = [users EXCEPT ![u] = SeedRow]
          /\ cleared' = cleared \cup {u}
          /\ req' = Overtaken(u)
    BY <1>1 DEF SeedGlobalAdmin, RowOf, Rows
  <2>2. SeedRow \in User
    BY AccountsAssumption DEF SeedRow, User, VerificationStatus
  <2>3. Exists(u) => Raised(u) \in User
    BY RowTypes DEF Raised, User, VerificationStatus
  <2>4. users' \in [UserId -> User \cup {None, Deleted}]
    BY <2>1, <2>2, <2>3 DEF TypeOK
  <2> QED
    BY <1>1, <2>1, <2>4, OvertakenTyped DEF SeedGlobalAdmin, TypeOK
<1>2. CASE \E s \in Subject : Departs(s)
  BY <1>2 DEF Departs, TypeOK, Account, tables
<1> QED
  BY <1>1, <1>2

\* The types hold after every step.
LEMMA StepTyped ==
  ASSUME TypeOK, RequestsAreSound, [Next]_vars
  PROVE  TypeOK'
<1>1. ASSUME NEW r \in Request, Fail(r)
      PROVE  TypeOK'
  BY <1>1, RefusedTyped DEF Fail
<1>2. CASE UNCHANGED vars
  BY <1>2 DEF vars, tables, TypeOK
<1> QED
  BY <1>1, <1>2, ArriveTyped, WorkTyped, OthersTyped DEF Next
-----------------------------------------------------------------------------
(***************************************************************************)
(* What a step does to the tables.                                         *)
(***************************************************************************)

\* Reads write nothing; only a sign-up changes the realm.
LEMMA ArriveReads ==
  ASSUME NEW r \in Request, Arrive(r)
  PROVE  UNCHANGED tables /\ (PostAuthRegister(r) \/ realm' = realm)
<1>1. ASSUME NEW s \in Subject, Lookup(r, s)
      PROVE  UNCHANGED <<realm, tables>>
  BY <1>1 DEF Lookup, Refused, Goes
<1>2. CASE PostAuthRegister(r)
  BY <1>2 DEF PostAuthRegister, SignUp
<1>3. CASE PostAuthLogin(r) \/ PostRegister(r)
  BY <1>1, <1>3 DEF PostAuthLogin, PostRegister, Login, Register
<1>4. CASE PostVerification(r) \/ PostUserDecision(r) \/ PostGroups(r) \/ PostGroupsJoin(r)
  BY <1>4 DEF PostVerification, SubmitVerification, PostUserDecision, SetVerification,
              PostGroups, CreateGroup, PostGroupsJoin, RequestToJoin, Goes
<1>5. CASE PostMemberDecision(r) \/ DeleteMember(r) \/ PostExpenses(r)
           \/ DeleteAdminUsers(r) \/ DeleteAdminGroups(r)
  BY <1>5 DEF PostMemberDecision, DecideMember, DeleteMember, RemoveMember, PostExpenses,
              RecordExpense, DeleteAdminUsers, AdminDeleteUser, DeleteAdminGroups, AdminDeleteGroup, Goes
<1> QED
  BY <1>2, <1>3, <1>4, <1>5 DEF Arrive

\* Keycloak forgets no subject and no address of one.
LEMMA RealmKeeps ==
  ASSUME TypeOK, [Next]_vars
  PROVE  \A s \in Subject : realm[s] # None =>
           realm'[s] # None /\ realm'[s].email = realm[s].email
<1>1. ASSUME NEW r \in Request, Arrive(r)
      PROVE  \A s \in Subject : realm[s] # None =>
               realm'[s] # None /\ realm'[s].email = realm[s].email
  <2>1. CASE PostAuthRegister(r)
    BY <2>1 DEF PostAuthRegister, SignUp, TypeOK
  <2> QED
    BY <1>1, <2>1, ArriveReads
<1>2. ASSUME NEW r \in Request, Work(r) \/ Fail(r)
      PROVE  realm' = realm
  BY <1>2 DEF Work, Fail, SignUpLookup, Lookup, LinkUserKeycloakID, CreateUser,
              SetUserVerificationPending, SetUserVerification, CreateGroupTx, CreateJoinRequest,
              DecideJoinRequest, DeleteMembership, CreateExpense, DeleteUser, DeleteGroup,
              Refused, Goes
<1>3. CASE SeedGlobalAdmin
  BY <1>3 DEF SeedGlobalAdmin
<1>4. ASSUME NEW t \in Subject, Departs(t)
      PROVE  \A s \in Subject : realm[s] # None =>
               realm'[s] # None /\ realm'[s].email = realm[s].email
  <2>1. realm[t] \in Account
    BY <1>4 DEF Departs, TypeOK
  <2>2. realm' = [realm EXCEPT ![t] = [realm[t] EXCEPT !.there = FALSE]]
    BY <1>4 DEF Departs
  <2>3. [realm[t] EXCEPT !.there = FALSE] \in Account
    BY <2>1 DEF Account
  <2>4. [realm[t] EXCEPT !.there = FALSE].email = realm[t].email
    BY <2>1 DEF Account
  <2> QED
    BY <2>2, <2>3, <2>4, RowsAssumption DEF TypeOK
<1> QED
  BY <1>1, <1>2, <1>3, <1>4 DEF Next, vars

\* The six ways a users row changes.
Links(u) ==
  /\ Exists(u) /\ users[u].kc = None
  /\ \E s \in Subject :
       /\ realm[s] # None /\ realm[s].email = users[u].email
       /\ users' = [users EXCEPT ![u].kc = s]

Creates(u) ==
  /\ users[u] = None
  /\ \E s \in Subject :
       /\ realm[s] # None /\ Free(s)
       /\ users' = [users EXCEPT ![u] = NewUser(s)]

Seeds(u) ==
  /\ TheAdmins \subseteq RowOf(AdminEmail)
  /\ \/ u \in RowOf(AdminEmail) /\ users' = [users EXCEPT ![u] = Raised(u)]
     \/ RowOf(AdminEmail) = {} /\ users[u] = None /\ users' = [users EXCEPT ![u] = SeedRow]
  /\ cleared' = cleared \cup {u}
  /\ req' = Overtaken(u)

Asks(u) ==
  /\ Exists(u)
  /\ users' = [users EXCEPT ![u].st = "pending_verification"]
  /\ \E r \in Request : req[r].pc = "ask" /\ req[r].user = u

Decides(u) ==
  /\ Exists(u)
  /\ \E r \in Request, a \in TheAdmins, d \in {"verified", "rejected"} :
       /\ users' = [users EXCEPT ![u].st = d, ![u].by = a]
       /\ d = "verified" => u \in cleared'
       /\ req' = [Overtaken(u) EXCEPT ![r] = Idle]

Dismisses(u) ==
  /\ users' = [users EXCEPT ![u] = Deleted]
  /\ ~Referenced(u)
  /\ u \notin TheAdmins
  /\ UNCHANGED <<groups, memberships, expenses>>
  /\ \E a \in Rows \ {u} : audit' = Logged(a, "user.deleted", u)

Changes(u) == Links(u) \/ Creates(u) \/ Seeds(u) \/ Asks(u) \/ Decides(u) \/ Dismisses(u)

\* Nobody deletes himself, so the one admin stays.
LEMMA DeletionDismisses ==
  ASSUME TypeOK, IdentitiesAreApart, RequestsAreSound, NEW r \in Request, DeleteUser(r)
  PROVE  Refused(r) \/ \E u \in UserId : Dismisses(u)
<1> DEFINE q == req[r]
<1>1. /\ q.actor \in UserId /\ q.target \in UserId
      /\ q.actor \in TheAdmins /\ q.actor # q.target
  <2>1. q \in Local /\ Carried(r)
    BY DEF TypeOK, RequestsAreSound
  <2> QED
    BY <2>1, LocalFields DEF DeleteUser, Carried
<1>2. q.target \notin TheAdmins
  BY <1>1 DEF IdentitiesAreApart, TheAdmins
<1>3. CASE Exists(q.actor) /\ ~Referenced(q.target)
  BY <1>1, <1>2, <1>3 DEF DeleteUser, Dismisses, Rows
<1> QED
  BY <1>3 DEF DeleteUser

\* The six ways in which the work of a request changes the users table.
LEMMA WorkChanges ==
  ASSUME TypeOK, IdentitiesAreApart, RequestsAreSound, NEW r \in Request, Work(r)
  PROVE  users' = users \/ \E u \in UserId : Changes(u)
<1> DEFINE q == req[r]
<1>0. q \in Local /\ Carried(r)
  BY DEF TypeOK, RequestsAreSound
<1>1. CASE SignUpLookup(r)
  BY <1>1 DEF SignUpLookup, Lookup, Refused, Goes, tables
<1>2. CASE LinkUserKeycloakID(r)
  <2>1. q.subject \in Subject /\ realm[q.subject] # None
    BY <1>0, <1>2, LocalFields DEF LinkUserKeycloakID, Carried
  <2>2. CASE Unclaimed(realm[q.subject].email) = {}
    BY <1>2, <2>2 DEF LinkUserKeycloakID, Goes, tables
  <2>3. CASE Unclaimed(realm[q.subject].email) # {}
    <3>1. PICK u \in Unclaimed(realm[q.subject].email) :
            users' = [users EXCEPT ![u].kc = q.subject]
      BY <1>2, <2>3 DEF LinkUserKeycloakID
    <3>2. Links(u) /\ u \in UserId
      BY <2>1, <3>1 DEF Links, Unclaimed, RowOf, Rows
    <3> QED
      BY <3>2 DEF Changes
  <2> QED
    BY <2>2, <2>3
<1>3. CASE CreateUser(r)
  <2>1. q.subject \in Subject /\ realm[q.subject] # None
    BY <1>0, <1>3, LocalFields DEF CreateUser, Carried
  <2>2. CASE Free(q.subject)
    BY <1>3, <2>1, <2>2 DEF CreateUser, Changes, Creates
  <2> QED
    BY <1>3, <2>2 DEF CreateUser, Refused, tables
<1>4. CASE SetUserVerificationPending(r)
  <2>1. q.user \in UserId
    BY <1>0, <1>4, LocalFields DEF SetUserVerificationPending
  <2>2. CASE Exists(q.user)
    BY <1>4, <2>1, <2>2 DEF SetUserVerificationPending, Changes, Asks
  <2> QED
    BY <1>4, <2>2 DEF SetUserVerificationPending, Refused, tables
<1>5. CASE SetUserVerification(r)
  <2>1. q.target \in UserId /\ q.admin \in TheAdmins /\ q.decision \in {"verified", "rejected"}
    BY <1>0, <1>5, LocalFields DEF SetUserVerification, Carried
  <2>2. CASE Exists(q.target) /\ Exists(q.admin)
    <3>1. Decides(q.target)
      BY <1>5, <2>1, <2>2 DEF SetUserVerification, Decides
    <3> QED
      BY <2>1, <3>1 DEF Changes
  <2> QED
    BY <1>5, <2>2 DEF SetUserVerification, Refused, tables
<1>6. CASE CreateGroupTx(r) \/ CreateJoinRequest(r) \/ DecideJoinRequest(r) \/ DeleteMembership(r)
           \/ CreateExpense(r) \/ DeleteGroup(r)
  BY <1>6 DEF CreateGroupTx, CreateJoinRequest, DecideJoinRequest, DeleteMembership,
              CreateExpense, DeleteGroup, Refused, tables
<1>7. CASE DeleteUser(r)
  BY <1>7, DeletionDismisses DEF Refused, tables, Changes
<1> QED
  BY <1>1, <1>2, <1>3, <1>4, <1>5, <1>6, <1>7 DEF Work

\* The six ways in which any step changes the users table.
LEMMA RowChanges ==
  ASSUME TypeOK, IdentitiesAreApart, RequestsAreSound, [Next]_vars
  PROVE  users' = users \/ \E u \in UserId : Changes(u)
<1>1. ASSUME NEW r \in Request, Arrive(r) \/ Fail(r)
      PROVE  users' = users
  BY <1>1, ArriveReads DEF Fail, Refused, tables
<1>2. CASE SeedGlobalAdmin
  BY <1>2 DEF SeedGlobalAdmin, Changes, Seeds
<1>3. CASE \E s \in Subject : Departs(s)
  BY <1>3 DEF Departs, tables
<1> QED
  BY <1>1, <1>2, <1>3, WorkChanges DEF Next, vars, tables

\* Linking gives a row its subject and changes nothing else.
LEMMA LinkedRow ==
  ASSUME TypeOK, NEW u \in UserId, Links(u)
  PROVE  /\ \A v \in UserId \ {u} : users'[v] = users[v]
         /\ Exists(u) /\ Exists(u)' /\ users[u].kc = None
         /\ users'[u].email = users[u].email /\ users'[u].ga = users[u].ga
         /\ users'[u].st = users[u].st /\ users'[u].by = users[u].by
         /\ \E s \in Subject : /\ realm[s] # None /\ realm[s].email = users[u].email
                               /\ users'[u].kc = s
<1>1. PICK s \in Subject : /\ realm[s] # None /\ realm[s].email = users[u].email
                           /\ users' = [users EXCEPT ![u].kc = s]
  BY DEF Links
<1>2. users[u] \in User /\ users \in [UserId -> User \cup {None, Deleted}]
  BY RowTypes DEF Links, TypeOK
<1>3. users'[u] = [users[u] EXCEPT !.kc = s] /\ users'[u] \in User
  BY <1>1, <1>2 DEF User
<1>4. Exists(u)'
  BY <1>3, RowsAssumption DEF Exists
<1> QED
  BY <1>1, <1>2, <1>3, <1>4 DEF Links, User

\* A row is created for a subject and an address that have none.
LEMMA CreatedRow ==
  ASSUME TypeOK, NEW u \in UserId, Creates(u)
  PROVE  /\ \A v \in UserId \ {u} : users'[v] = users[v]
         /\ users[u] = None /\ ~Exists(u) /\ Exists(u)'
         /\ ~users'[u].ga /\ users'[u].st = "registered" /\ users'[u].by = None
         /\ \E s \in Subject : /\ realm[s] # None /\ Free(s)
                               /\ users'[u].email = realm[s].email /\ users'[u].kc = s
<1>1. PICK s \in Subject : /\ realm[s] # None /\ Free(s)
                           /\ users' = [users EXCEPT ![u] = NewUser(s)]
  BY DEF Creates
<1>2. users \in [UserId -> User \cup {None, Deleted}] /\ realm[s] \in Account
  BY <1>1 DEF TypeOK
<1>3. users'[u] = NewUser(s) /\ users'[u] \in User
  BY <1>1, <1>2 DEF User, NewUser, Account, VerificationStatus
<1>4. Exists(u)'
  BY <1>3, RowsAssumption DEF Exists
<1> QED
  BY <1>1, <1>2, <1>3, <1>4 DEF Creates, NewUser, Exists

\* Seeding makes the row of the configured address the admin's.
LEMMA SeededRow ==
  ASSUME TypeOK, NEW u \in UserId, Seeds(u)
  PROVE  /\ \A v \in UserId \ {u} : users'[v] = users[v]
         /\ Exists(u)' /\ users[u] # Deleted
         /\ users'[u].ga /\ users'[u].st = "verified" /\ users'[u].email = AdminEmail
         /\ Exists(u) => /\ users[u].email = AdminEmail
                         /\ users'[u].kc = users[u].kc /\ users'[u].by = users[u].by
         /\ ~Exists(u) => /\ users'[u].kc = None /\ users'[u].by = None
                          /\ RowOf(AdminEmail) = {}
<1>0. users \in [UserId -> User \cup {None, Deleted}] /\ (Exists(u) => users[u] \in User)
  BY RowTypes DEF TypeOK
<1>1. CASE u \in RowOf(AdminEmail) /\ users' = [users EXCEPT ![u] = Raised(u)]
  <2>1. Exists(u) /\ users[u].email = AdminEmail
    BY <1>1 DEF RowOf, Rows
  <2>2. users'[u] = Raised(u) /\ users'[u] \in User
    BY <1>0, <1>1, <2>1 DEF Raised, User, VerificationStatus
  <2>3. Exists(u)'
    BY <2>2, RowsAssumption DEF Exists
  <2> QED
    BY <1>0, <1>1, <2>1, <2>2, <2>3 DEF Raised, User, Exists
<1>2. CASE RowOf(AdminEmail) = {} /\ users[u] = None /\ users' = [users EXCEPT ![u] = SeedRow]
  <2>1. users'[u] = SeedRow /\ users'[u] \in User
    BY <1>0, <1>2, AccountsAssumption DEF SeedRow, User, VerificationStatus
  <2>2. Exists(u)' /\ ~Exists(u)
    BY <1>2, <2>1, RowsAssumption DEF Exists
  <2> QED
    BY <1>0, <1>2, <2>1, <2>2, AccountsAssumption DEF SeedRow
<1> QED
  BY <1>1, <1>2 DEF Seeds

\* Asking for verification changes the status alone.
LEMMA AskedRow ==
  ASSUME TypeOK, NEW u \in UserId, Asks(u)
  PROVE  /\ \A v \in UserId \ {u} : users'[v] = users[v]
         /\ Exists(u) /\ Exists(u)'
         /\ users'[u].email = users[u].email /\ users'[u].ga = users[u].ga
         /\ users'[u].kc = users[u].kc /\ users'[u].by = users[u].by
         /\ users'[u].st = "pending_verification"
<1>1. users[u] \in User /\ users \in [UserId -> User \cup {None, Deleted}]
  BY RowTypes DEF Asks, TypeOK
<1>2. users'[u] = [users[u] EXCEPT !.st = "pending_verification"] /\ users'[u] \in User
  BY <1>1 DEF Asks, User, VerificationStatus
<1>3. Exists(u)'
  BY <1>2, RowsAssumption DEF Exists
<1> QED
  BY <1>1, <1>2, <1>3 DEF Asks, User

\* A decision changes the status and who decided.
LEMMA DecidedRow ==
  ASSUME TypeOK, NEW u \in UserId, Decides(u)
  PROVE  /\ \A v \in UserId \ {u} : users'[v] = users[v]
         /\ Exists(u) /\ Exists(u)'
         /\ users'[u].email = users[u].email /\ users'[u].ga = users[u].ga
         /\ users'[u].kc = users[u].kc /\ users'[u].by \in TheAdmins
         /\ users'[u].st \in {"verified", "rejected"}
         /\ users'[u].st = "verified" => u \in cleared'
<1>1. users[u] \in User /\ users \in [UserId -> User \cup {None, Deleted}]
  BY RowTypes DEF Decides, TypeOK
<1>2. PICK a \in TheAdmins, d \in {"verified", "rejected"} :
        /\ users' = [users EXCEPT ![u].st = d, ![u].by = a]
        /\ d = "verified" => u \in cleared'
  BY DEF Decides
<1>3. a \in UserId
  BY DEF TheAdmins, Rows
<1>4. users'[u] = [users[u] EXCEPT !.st = d, !.by = a] /\ users'[u] \in User
  BY <1>1, <1>2, <1>3 DEF User, VerificationStatus
<1>5. Exists(u)'
  BY <1>4, RowsAssumption DEF Exists
<1> QED
  BY <1>1, <1>2, <1>4, <1>5 DEF Decides, User

\* Deleting a user deletes one row, nobody's reference.
LEMMA DismissedRow ==
  ASSUME TypeOK, NEW u \in UserId, Dismisses(u)
  PROVE  /\ \A v \in UserId \ {u} : users'[v] = users[v]
         /\ users'[u] = Deleted /\ ~Exists(u)'
BY DEF Dismisses, TypeOK, Exists
-----------------------------------------------------------------------------
(***************************************************************************)
(* Identities.                                                             *)
(***************************************************************************)

\* Rows have subjects of Keycloak.
LEMMA SubjectsTyped ==
  ASSUME TypeOK
  PROVE  \A u \in Rows : users[u].kc \in Subject \cup {None}
BY RowTypes DEF Rows, User

\* A step that changes the row of one user leaves the other rows as they are.
LEMMA RowsOf ==
  ASSUME TypeOK, NEW u \in UserId, Changes(u)
  PROVE  /\ Rows' \subseteq Rows \cup {u}
         /\ \A v \in Rows' \ {u} : users'[v] = users[v] /\ v \in Rows
         /\ \A v \in Rows \ {u} : v \in Rows'
<1>1. \A v \in UserId \ {u} : users'[v] = users[v]
  BY LinkedRow, CreatedRow, SeededRow, AskedRow, DecidedRow, DismissedRow DEF Changes
<1> QED
  BY <1>1 DEF Rows, Exists

\* No step gives two rows one subject or one address.
LEMMA IdentitiesStep ==
  ASSUME TypeOK, IdentitiesAreApart, RequestsAreSound, [Next]_vars
  PROVE  IdentitiesAreApart'
<1>0. \A s \in Subject : realm[s] # None =>
        realm'[s] # None /\ realm'[s].email = realm[s].email
  BY RealmKeeps
<1>1. CASE users' = users
  BY <1>0, <1>1, SubjectsTyped DEF IdentitiesAreApart, Rows, Exists
<1>2. ASSUME NEW u \in UserId, Changes(u)
      PROVE  IdentitiesAreApart'
  <2>1. /\ Rows' \subseteq Rows \cup {u}
        /\ \A v \in Rows' \ {u} : users'[v] = users[v] /\ v \in Rows
    BY <1>2, RowsOf
  <2>2. SUFFICES
          ASSUME Exists(u)'
          PROVE  /\ \A v \in Rows \ {u} :
                      /\ users'[u].email # users[v].email
                      /\ users'[u].kc # users[v].kc \/ users'[u].kc = None
                      /\ ~(users'[u].ga /\ users[v].ga)
                 /\ users'[u].kc # None =>
                      /\ users'[u].kc \in Subject
                      /\ realm[users'[u].kc] # None
                      /\ realm[users'[u].kc].email = users'[u].email
    <3>1. CASE ~Exists(u)'
      <4>1. \A v \in Rows' : users'[v] = users[v] /\ v \in Rows
        BY <2>1, <3>1 DEF Rows
      <4> QED
        BY <1>0, <4>1, SubjectsTyped DEF IdentitiesAreApart
    <3>2. CASE Exists(u)'
      BY <1>0, <2>1, <2>2, <3>2, SubjectsTyped DEF IdentitiesAreApart
    <3> QED
      BY <3>1, <3>2
  <2>3. Exists(u) <=> u \in Rows
    BY DEF Rows
  <2>4. CASE Links(u)
    BY <2>3, <2>4, LinkedRow, SubjectsTyped, AccountsAssumption DEF IdentitiesAreApart
  <2>5. CASE Creates(u)
    BY <2>5, CreatedRow, SubjectsTyped DEF IdentitiesAreApart, Free, RowOf, GetUserByKeycloakID
  <2>6. CASE Seeds(u)
    <3>1. \A v \in Rows : users[v].ga => users[v].email = AdminEmail
      BY <2>6 DEF Seeds, TheAdmins, RowOf
    <3> QED
      BY <2>3, <2>6, <3>1, SeededRow, SubjectsTyped DEF IdentitiesAreApart, RowOf
  <2>7. CASE Asks(u)
    BY <2>3, <2>7, AskedRow, SubjectsTyped DEF IdentitiesAreApart
  <2>8. CASE Decides(u)
    BY <2>3, <2>8, DecidedRow, SubjectsTyped DEF IdentitiesAreApart
  <2> QED
    BY <1>2, <2>2, <2>4, <2>5, <2>6, <2>7, <2>8, DismissedRow DEF Changes
<1> QED
  BY <1>1, <1>2, RowChanges

\* The global admin is never deleted and never loses the role.
LEMMA AdminsStay ==
  ASSUME TypeOK, IdentitiesAreApart, RequestsAreSound, [Next]_vars
  PROVE  TheAdmins \subseteq TheAdmins'
<1>1. CASE users' = users
  BY <1>1 DEF TheAdmins, Rows, Exists
<1>2. ASSUME NEW u \in UserId, Changes(u)
      PROVE  TheAdmins \subseteq TheAdmins'
  <2>1. \A v \in Rows \ {u} : v \in Rows' /\ users'[v] = users[v]
    BY <1>2, RowsOf
  <2>2. u \in TheAdmins => Exists(u)' /\ users'[u].ga
    BY <1>2, LinkedRow, CreatedRow, SeededRow, AskedRow, DecidedRow
    DEF Changes, Dismisses, TheAdmins, Rows
  <2> QED
    BY <2>1, <2>2 DEF TheAdmins, Rows
<1> QED
  BY <1>1, <1>2, RowChanges

\* Who was cleared by the admin or the seed stays so.
LEMMA ClearedStays ==
  ASSUME [Next]_vars
  PROVE  cleared \subseteq cleared'
<1>1. ASSUME NEW r \in Request, Arrive(r) \/ Fail(r)
      PROVE  cleared' = cleared
  BY <1>1, ArriveReads DEF Fail, Refused, tables
<1>2. ASSUME NEW r \in Request, Work(r)
      PROVE  cleared \subseteq cleared'
  BY <1>2 DEF Work, SignUpLookup, Lookup, LinkUserKeycloakID, CreateUser, tables,
              SetUserVerificationPending, SetUserVerification, CreateGroupTx, CreateJoinRequest,
              DecideJoinRequest, DeleteMembership, CreateExpense, DeleteUser, DeleteGroup,
              Refused, Goes
<1>3. CASE SeedGlobalAdmin \/ \E s \in Subject : Departs(s)
  BY <1>3 DEF SeedGlobalAdmin, Departs, tables
<1> QED
  BY <1>1, <1>2, <1>3 DEF Next, vars, tables

\* Who is verified was so already, is the seeded admin, or was just decided upon.
LEMMA VerificationStep ==
  ASSUME TypeOK, IdentitiesAreApart, RequestsAreSound, VerifiedAreCleared, VerifiedByTheAdmin,
         [Next]_vars
  PROVE  VerifiedAreCleared' /\ VerifiedByTheAdmin'
<1>0. TheAdmins \subseteq TheAdmins' /\ cleared \subseteq cleared'
  BY AdminsStay, ClearedStays
<1>1. CASE users' = users
  BY <1>0, <1>1 DEF VerifiedAreCleared, VerifiedByTheAdmin, Verified, Rows, Exists
<1>2. ASSUME NEW u \in UserId, Changes(u)
      PROVE  VerifiedAreCleared' /\ VerifiedByTheAdmin'
  <2>1. \A v \in Rows' \ {u} : users'[v] = users[v] /\ v \in Rows
    BY <1>2, RowsOf
  <2>2. SUFFICES ASSUME Exists(u)', users'[u].st = "verified"
                 PROVE  /\ u \in cleared'
                        /\ \/ users'[u].ga
                           \/ users'[u].by # None /\ users'[u].by \in TheAdmins
    BY <1>0, <2>1 DEF VerifiedAreCleared, VerifiedByTheAdmin, Verified, Rows
  <2>3. None \notin TheAdmins
    BY AccountsAssumption DEF TheAdmins, Rows
  <2>4. CASE Links(u)
    BY <1>0, <2>2, <2>4, LinkedRow DEF VerifiedAreCleared, VerifiedByTheAdmin, Verified, Rows
  <2>5. CASE Seeds(u)
    BY <2>5, SeededRow DEF Seeds
  <2>6. CASE Decides(u)
    BY <2>2, <2>3, <2>6, DecidedRow
  <2> QED
    BY <1>2, <2>2, <2>4, <2>5, <2>6, CreatedRow, AskedRow, DismissedRow DEF Changes
<1> QED
  BY <1>1, <1>2, RowChanges

\* A row that has a subject keeps it.
LEMMA SubjectStep ==
  ASSUME TypeOK, IdentitiesAreApart, RequestsAreSound, [Next]_vars,
         NEW u \in UserId, Exists(u), users[u].kc # None, Exists(u)'
  PROVE  users'[u].kc = users[u].kc /\ users'[u].email = users[u].email
<1>1. ASSUME NEW v \in UserId, Changes(v)
      PROVE  users'[u].kc = users[u].kc /\ users'[u].email = users[u].email
  BY <1>1, LinkedRow, CreatedRow, SeededRow, AskedRow, DecidedRow, DismissedRow DEF Changes
<1> QED
  BY <1>1, RowChanges

\* Only an overtaken request takes a verification back.
LEMMA RaceStep ==
  ASSUME TypeOK, IdentitiesAreApart, RequestsAreSound, [Next]_vars,
         NEW u \in UserId, Exists(u), Verified(u), Exists(u)', users'[u].st = "pending_verification"
  PROVE  \E r \in Request : req[r].pc = "ask" /\ req[r].user = u /\ req[r].late
<1>1. ASSUME NEW v \in UserId, Changes(v)
      PROVE  Asks(u)
  BY <1>1, LinkedRow, CreatedRow, SeededRow, AskedRow, DecidedRow, DismissedRow
  DEF Changes, Verified
<1>2. Asks(u)
  BY <1>1, RowChanges DEF Verified
<1>3. PICK r \in Request : req[r].pc = "ask" /\ req[r].user = u
  BY <1>2 DEF Asks
<1> QED
  BY <1>3 DEF RequestsAreSound, Carried
-----------------------------------------------------------------------------
(***************************************************************************)
(* References and the log.                                                 *)
(***************************************************************************)

\* The steps that change something else than users.
Books == <<groups, memberships, expenses, audit>>

BookSteps(r) ==
  \/ CreateGroupTx(r) \/ CreateJoinRequest(r) \/ DecideJoinRequest(r) \/ DeleteMembership(r)
  \/ CreateExpense(r) \/ DeleteGroup(r)

\* A step leaves the books alone, deletes one user, or writes the books and no row.
LEMMA StepKinds ==
  ASSUME TypeOK, IdentitiesAreApart, RequestsAreSound, [Next]_vars
  PROVE  \/ UNCHANGED Books /\ Rows \subseteq Rows'
         \/ \E u \in UserId : Dismisses(u)
         \/ UNCHANGED users /\ \E r \in Request : BookSteps(r) /\ ~Refused(r)
<1>1. Rows \subseteq Rows' \/ \E u \in UserId : Dismisses(u)
  <2>1. ASSUME NEW u \in UserId, Changes(u), ~Dismisses(u)
        PROVE  Rows \subseteq Rows'
    <3>1. Exists(u)'
      BY <2>1, LinkedRow, CreatedRow, SeededRow, AskedRow, DecidedRow DEF Changes
    <3> QED
      BY <2>1, <3>1, RowsOf DEF Rows
  <2>2. users' = users => Rows' = Rows
    BY DEF Rows, Exists
  <2> QED
    BY <2>1, <2>2, RowChanges
<1>2. ASSUME NEW r \in Request, Arrive(r) \/ Fail(r) \/ Refused(r)
      PROVE  UNCHANGED Books
  BY <1>2, ArriveReads DEF Fail, Refused, tables, Books
<1>3. ASSUME NEW r \in Request, Work(r), ~Refused(r)
      PROVE  \/ UNCHANGED Books
             \/ UNCHANGED users /\ BookSteps(r)
             \/ \E u \in UserId : Dismisses(u)
  <2>1. CASE DeleteUser(r)
    BY <1>3, <2>1, DeletionDismisses
  <2> QED
    BY <1>3, <2>1
    DEF Work, SignUpLookup, Lookup, LinkUserKeycloakID, CreateUser, SetUserVerificationPending,
        SetUserVerification, CreateGroupTx, CreateJoinRequest, DecideJoinRequest, DeleteMembership,
        CreateExpense, DeleteGroup, Goes, tables, Books, BookSteps
<1>4. CASE SeedGlobalAdmin \/ \E s \in Subject : Departs(s)
  BY <1>1, <1>4 DEF SeedGlobalAdmin, Departs, tables, Books
<1> QED
  BY <1>1, <1>2, <1>3, <1>4 DEF Next, vars, tables, Books

\* A member joins verified, whatever becomes of the verification later.
LEMMA MembersStep ==
  ASSUME TypeOK, IdentitiesAreApart, RequestsAreSound, MembersWereVerified, [Next]_vars
  PROVE  MembersWereVerified'
<1>0. cleared \subseteq cleared'
  BY ClearedStays
<1>1. ASSUME NEW r \in Request, BookSteps(r), ~Refused(r)
      PROVE  \A m \in memberships' : m.user \in cleared
  <2>0. Carried(r)
    BY DEF RequestsAreSound
  <2>1. CASE CreateGroupTx(r)
    <3>1. PICK g \in GroupId :
            memberships' = memberships \cup {AdminMembership(NewId, g, req[r].admin)}
      BY <1>1, <2>1 DEF CreateGroupTx
    <3>2. req[r].admin \in cleared
      BY <2>0, <2>1 DEF CreateGroupTx, Carried
    <3> QED
      BY <3>1, <3>2 DEF MembersWereVerified, AdminMembership
  <2>2. CASE CreateJoinRequest(r)
    BY <1>1, <2>0, <2>2 DEF CreateJoinRequest, JoinRequest, Carried, MembersWereVerified
  <2>3. CASE DecideJoinRequest(r)
    <3>1. \A m \in memberships' : \E n \in memberships : m.user = n.user
      <4>1. \A n \in Membership : [n EXCEPT !.st = req[r].decision].user = n.user
        BY DEF Membership
      <4>2. memberships' =
              {IF m.group = req[r].group /\ m.user = req[r].target
                 THEN [m EXCEPT !.st = req[r].decision] ELSE m : m \in memberships}
        BY <1>1, <2>3 DEF DecideJoinRequest
      <4>3. memberships \subseteq Membership
        BY DEF TypeOK
      <4> QED
        BY <4>1, <4>2, <4>3
    <3> QED
      BY <3>1 DEF MembersWereVerified
  <2>4. CASE DeleteMembership(r) \/ CreateExpense(r) \/ DeleteGroup(r)
    BY <1>1, <2>4 DEF DeleteMembership, CreateExpense, DeleteGroup, MembersWereVerified
  <2> QED
    BY <1>1, <2>1, <2>2, <2>3, <2>4 DEF BookSteps
<1>2. CASE memberships' = memberships
  BY <1>0, <1>2 DEF MembersWereVerified
<1> QED
  BY <1>0, <1>1, <1>2, StepKinds
  DEF Books, Dismisses, MembersWereVerified

\* Whoever decided on a row is there: no admin is deleted, nor anybody who decided.
DecidersExist == \A u \in Rows : users[u].by # None => Exists(users[u].by)

\* Who decided on a verification has a row.
LEMMA DecidersStep ==
  ASSUME TypeOK, IdentitiesAreApart, RequestsAreSound, DecidersExist, [Next]_vars
  PROVE  DecidersExist'
<1>0. /\ TheAdmins \subseteq TheAdmins'
      /\ \A u \in Rows : users[u].by \in UserId \cup {None}
  BY AdminsStay, RowTypes DEF Rows, User
<1>1. CASE users' = users
  BY <1>1 DEF DecidersExist, Rows, Exists
<1>2. ASSUME NEW u \in UserId, Changes(u)
      PROVE  DecidersExist'
  <2>1. /\ \A v \in Rows' \ {u} : users'[v] = users[v] /\ v \in Rows
        /\ \A v \in Rows \ {u} : v \in Rows'
    BY <1>2, RowsOf
  <2>2. CASE Dismisses(u)
    <3>1. \A v \in Rows' : v \in Rows \ {u} /\ users'[v] = users[v]
      BY <2>1, <2>2, DismissedRow DEF Rows
    <3>2. \A v \in Rows \ {u} : users[v].by # u
      BY <2>2 DEF Dismisses, Referenced
    <3> QED
      BY <1>0, <2>1, <3>1, <3>2 DEF DecidersExist, Rows
  <2>3. CASE ~Dismisses(u)
    <3>1. Exists(u)'
      BY <1>2, <2>3, LinkedRow, CreatedRow, SeededRow, AskedRow, DecidedRow DEF Changes
    <3>2. Rows \subseteq Rows'
      BY <2>1, <3>1 DEF Rows
    <3>3. users'[u].by # None => users'[u].by \in Rows'
      <4>1. CASE Decides(u)
        BY <1>0, <4>1, DecidedRow DEF TheAdmins
      <4>2. CASE ~Decides(u)
        <5>1. \/ users'[u].by = None
              \/ u \in Rows /\ users'[u].by = users[u].by
          BY <1>2, <2>3, <4>2, LinkedRow, CreatedRow, SeededRow, AskedRow DEF Changes, Rows
        <5> QED
          BY <1>0, <3>2, <5>1 DEF DecidersExist, Rows
      <4> QED
        BY <4>1, <4>2
    <3> QED
      BY <1>0, <2>1, <3>2, <3>3 DEF DecidersExist, Rows
  <2> QED
    BY <2>2, <2>3
<1> QED
  BY <1>1, <1>2, RowChanges

\* The other references: memberships, groups, expenses and the log.
BooksReferToRows ==
  /\ \A m \in memberships : Exists(m.user) /\ GroupExists(m.group)
  /\ \A g \in GroupId : GroupExists(g) => Exists(groups[g].createdBy)
  /\ \A x \in expenses :
       /\ GroupExists(x.group) /\ Payable(x.group, x.paidBy)
       /\ \A u \in x.shares : Exists(u)
  /\ \A a \in BagToSet(audit) : Exists(a.actor) /\ (a.group # None => GroupExists(a.group))

\* Each write of a group's books refers to rows that are there.
LEMMA BookStepsRefer ==
  ASSUME TypeOK, BooksReferToRows, UNCHANGED users, NEW r \in Request, BookSteps(r), ~Refused(r)
  PROVE  BooksReferToRows'
<1> DEFINE q == req[r]
<1>0. q \in Local /\ \A u : Exists(u)' <=> Exists(u)
  BY DEF TypeOK, Exists
<1>1. CASE CreateGroupTx(r)
  <2>1. q.creator \in UserId /\ q.admin \in UserId /\ Exists(q.creator) /\ Exists(q.admin)
    BY <1>0, <1>1, LocalFields DEF CreateGroupTx
  <2>2. PICK g \in GroupId :
          /\ groups[g] = None
          /\ groups' = [groups EXCEPT ![g] = [createdBy |-> q.creator]]
          /\ memberships' = memberships \cup {AdminMembership(NewId, g, q.admin)}
    BY <1>1, <2>1 DEF CreateGroupTx
  <2>3. UNCHANGED <<expenses, audit>>
    BY <1>1, <2>1 DEF CreateGroupTx
  <2>4. /\ GroupExists(g)' /\ groups'[g].createdBy = q.creator
        /\ \A h \in GroupId \ {g} : groups'[h] = groups[h]
    <3>1. [createdBy |-> q.creator] \in Group
      BY <2>1 DEF Group
    <3> QED
      BY <2>2, <3>1, RowsAssumption DEF TypeOK, GroupExists
  <2>5. \A h \in GroupId : GroupExists(h) => GroupExists(h)'
    BY <2>4 DEF GroupExists
  <2>6. /\ AdminMembership(NewId, g, q.admin).user = q.admin
        /\ AdminMembership(NewId, g, q.admin).group = g
    BY DEF AdminMembership
  <2>7. \A m \in memberships' : Exists(m.user)' /\ GroupExists(m.group)'
    BY <1>0, <2>1, <2>2, <2>4, <2>5, <2>6 DEF BooksReferToRows, TypeOK, Membership
  <2>8. \A h \in GroupId : GroupExists(h)' => Exists(groups[h].createdBy)'
    BY <1>0, <2>1, <2>4 DEF BooksReferToRows, GroupExists
  <2>9. \A x \in expenses :
          /\ GroupExists(x.group)' /\ Payable(x.group, x.paidBy)'
          /\ \A u \in x.shares : Exists(u)'
    BY <1>0, <2>2, <2>5 DEF BooksReferToRows, TypeOK, Expense, Payable
  <2> QED
    BY <1>0, <2>3, <2>5, <2>7, <2>8, <2>9, AccountsAssumption
    DEF BooksReferToRows, TypeOK, Entry, BagToSet
<1>2. CASE CreateJoinRequest(r)
  <2>1. /\ Exists(q.user) /\ GroupExists(q.group)
        /\ memberships' = memberships \cup {JoinRequest(NewId, q.group, q.user)}
        /\ UNCHANGED <<groups, expenses, audit>>
    BY <1>2 DEF CreateJoinRequest
  <2> QED
    BY <1>0, <2>1 DEF BooksReferToRows, GroupExists, Payable, JoinRequest, BagToSet
<1>3. CASE DecideJoinRequest(r)
  <2>1. /\ memberships' =
             {IF m.group = q.group /\ m.user = q.target THEN [m EXCEPT !.st = q.decision] ELSE m :
                m \in memberships}
        /\ audit' = BagAdd(audit, DecisionEntry(q))
        /\ UNCHANGED <<groups, expenses>>
        /\ Exists(q.actor) /\ \E m \in memberships : m.group = q.group
    BY <1>3 DEF DecideJoinRequest
  <2>2. \A n \in Membership : LET m == [n EXCEPT !.st = q.decision] IN
          m.id = n.id /\ m.user = n.user /\ m.group = n.group
    BY DEF Membership
  <2>3. /\ \A m \in memberships' : \E n \in memberships : m.user = n.user /\ m.group = n.group
        /\ \A n \in memberships : \E m \in memberships' : m.id = n.id /\ m.group = n.group
    <3>1. memberships \subseteq Membership
      BY DEF TypeOK
    <3> DEFINE D(n) == IF n.group = q.group /\ n.user = q.target
                       THEN [n EXCEPT !.st = q.decision] ELSE n
    <3>2. \A n \in memberships : D(n).id = n.id /\ D(n).user = n.user /\ D(n).group = n.group
      BY <2>2, <3>1
    <3>3. memberships' = {D(m) : m \in memberships}
      BY <2>1
    <3> QED
      BY <3>2, <3>3
  <2>4. DecisionEntry(q).actor = q.actor /\ DecisionEntry(q).group = q.group
    BY DEF DecisionEntry
  <2>5. \A g : GroupExists(g)' <=> GroupExists(g)
    BY <2>1 DEF GroupExists
  <2>6. \A g, i : Payable(g, i) => Payable(g, i)'
    BY <2>3 DEF Payable
  <2>7. BagToSet(audit') = BagToSet(audit) \cup {DecisionEntry(q)}
    BY <2>1, Added
  <2>8. \A a \in BagToSet(audit') : Exists(a.actor)' /\ (a.group # None => GroupExists(a.group)')
    BY <1>0, <2>1, <2>4, <2>5, <2>7 DEF BooksReferToRows
  <2> QED
    BY <1>0, <2>1, <2>3, <2>5, <2>6, <2>8 DEF BooksReferToRows
<1>4. CASE DeleteMembership(r)
  <2>1. /\ ~Paid(q.row)
        /\ memberships' = {m \in memberships : m.id # q.row}
        /\ UNCHANGED <<groups, expenses, audit>>
    BY <1>4 DEF DeleteMembership
  <2> QED
    BY <1>0, <2>1 DEF BooksReferToRows, GroupExists, Payable, Paid, BagToSet
<1>5. CASE DeleteGroup(r)
  <2>0. PICK t \in GroupId : t = q.target
    BY <1>0, <1>5, LocalFields DEF DeleteGroup
  <2>1. /\ Exists(q.actor) /\ ~GroupHasHistory(t)
        /\ memberships' = {m \in memberships : m.group # t}
        /\ groups' = [groups EXCEPT ![t] = Deleted]
        /\ audit' = Logged(q.actor, "group.deleted", t)
        /\ UNCHANGED expenses
    BY <1>5, <2>0 DEF DeleteGroup
  <2>2. /\ \A g \in GroupId \ {t} : groups'[g] = groups[g]
        /\ \A g \in GroupId : GroupExists(g)' => GroupExists(g)
        /\ \A g \in GroupId \ {t} : GroupExists(g) => GroupExists(g)'
    BY <2>1 DEF TypeOK, GroupExists
  <2>3. ~GroupExists(t)'
    BY <2>1 DEF TypeOK, GroupExists
  <2>4. \A a \in BagToSet(audit') : Exists(a.actor)' /\ (a.group # None => GroupExists(a.group)')
    <3>1. BagToSet(audit') = BagToSet(audit) \cup {LogEntry(q.actor, "group.deleted", t)}
      BY <2>1, Added DEF Logged
    <3> QED
      BY <1>0, <2>1, <2>2, <3>1, AccountsAssumption
      DEF BooksReferToRows, LogEntry, GroupHasHistory, TypeOK, Entry
  <2>5. \A m \in memberships' : Exists(m.user)' /\ GroupExists(m.group)'
    BY <1>0, <2>1, <2>2 DEF BooksReferToRows, TypeOK, Membership
  <2>6. \A x \in expenses' :
          /\ GroupExists(x.group)' /\ Payable(x.group, x.paidBy)'
          /\ \A u \in x.shares : Exists(u)'
    BY <1>0, <2>1, <2>2 DEF BooksReferToRows, TypeOK, Expense, GroupHasHistory, Payable
  <2>7. \A g \in GroupId : GroupExists(g)' => Exists(groups[g].createdBy)'
    BY <1>0, <2>2, <2>3 DEF BooksReferToRows
  <2> QED
    BY <2>4, <2>5, <2>6, <2>7 DEF BooksReferToRows
<1>6. CASE CreateExpense(r)
  <2>1. /\ Payable(q.group, q.row)
        /\ \A v \in q.shares \cup {q.actor} : Exists(v)
        /\ expenses' = expenses \cup
             {[group |-> q.group, paidBy |-> q.row, shares |-> q.shares]}
        /\ audit' = BagAdd(audit, ExpenseEntry(q))
        /\ UNCHANGED <<groups, memberships>>
    BY <1>6 DEF CreateExpense
  <2>2. GroupExists(q.group)
    BY <2>1 DEF Payable, BooksReferToRows
  <2>3. /\ \A g : GroupExists(g)' <=> GroupExists(g)
        /\ \A g, i : Payable(g, i)' <=> Payable(g, i)
    BY <2>1 DEF GroupExists, Payable
  <2>4. BagToSet(audit') = BagToSet(audit) \cup {ExpenseEntry(q)}
    BY <2>1, Added
  <2>5. \A a \in BagToSet(audit') : Exists(a.actor)' /\ (a.group # None => GroupExists(a.group)')
    BY <1>0, <2>1, <2>2, <2>3, <2>4 DEF BooksReferToRows, ExpenseEntry
  <2>6. \A x \in expenses' :
          /\ GroupExists(x.group)' /\ Payable(x.group, x.paidBy)'
          /\ \A u \in x.shares : Exists(u)'
    BY <1>0, <2>1, <2>2, <2>3 DEF BooksReferToRows
  <2> QED
    BY <1>0, <2>1, <2>3, <2>5, <2>6 DEF BooksReferToRows
<1> QED
  BY <1>1, <1>2, <1>3, <1>4, <1>5, <1>6 DEF BookSteps

\* No deletion takes a row the books refer to.
LEMMA BooksStep ==
  ASSUME TypeOK, IdentitiesAreApart, RequestsAreSound, BooksReferToRows, [Next]_vars
  PROVE  BooksReferToRows'
<1>0. \A u \in UserId : u \in Rows <=> Exists(u)
  BY DEF Rows
<1>1. CASE UNCHANGED Books /\ Rows \subseteq Rows'
  <2>1. \A u \in UserId : Exists(u) => Exists(u)'
    BY <1>1 DEF Rows
  <2>2. /\ \A g : GroupExists(g)' <=> GroupExists(g)
        /\ \A g, i : Payable(g, i)' <=> Payable(g, i)
    BY <1>1 DEF Books, GroupExists, Payable
  <2>3. \A g \in GroupId : GroupExists(g) => groups[g].createdBy \in UserId
    BY RowTypes DEF Group
  <2> QED
    BY <1>1, <2>1, <2>2, <2>3
    DEF Books, BooksReferToRows, TypeOK, Membership, Expense, Entry, BagToSet
<1>2. ASSUME NEW u \in UserId, Dismisses(u)
      PROVE  BooksReferToRows'
  <2>1. PICK a \in Rows \ {u} : audit' = Logged(a, "user.deleted", u)
    BY <1>2 DEF Dismisses
  <2>2. \A v \in UserId \ {u} : Exists(v) => Exists(v)'
    BY <1>2, DismissedRow DEF Exists
  <2>3. /\ \A g : GroupExists(g)' <=> GroupExists(g)
        /\ \A g, i : Payable(g, i)' <=> Payable(g, i)
        /\ UNCHANGED <<groups, memberships, expenses>>
    BY <1>2 DEF Dismisses, GroupExists, Payable
  <2>4. /\ ~Joined(u)
        /\ \A g \in GroupId : GroupExists(g) => groups[g].createdBy # u
        /\ \A x \in expenses : u \notin x.shares
        /\ \A e \in BagToSet(audit) : e.actor # u
    BY <1>2 DEF Dismisses, Referenced
  <2>5. \A g \in GroupId : GroupExists(g) => groups[g].createdBy \in UserId
    BY RowTypes DEF Group
  <2>6. \A e \in BagToSet(audit') : Exists(e.actor)' /\ (e.group # None => GroupExists(e.group)')
    <3>1. BagToSet(audit') = BagToSet(audit) \cup {LogEntry(a, "user.deleted", u)}
      BY <2>1, Added DEF Logged
    <3> QED
      BY <2>1, <2>2, <2>3, <2>4, <3>1 DEF BooksReferToRows, LogEntry, TypeOK, Entry, Rows
  <2> QED
    BY <2>2, <2>3, <2>4, <2>5, <2>6
    DEF BooksReferToRows, Joined, TypeOK, Membership, Expense
<1>3. ASSUME UNCHANGED users, NEW r \in Request, BookSteps(r), ~Refused(r)
      PROVE  BooksReferToRows'
  BY <1>3, BookStepsRefer
<1> QED
  BY <1>1, <1>2, <1>3, StepKinds

\* A row is deleted when the log says so.
LEMMA LogStep ==
  ASSUME TypeOK, IdentitiesAreApart, RequestsAreSound, LogIsTrue, [Next]_vars
  PROVE  LogIsTrue'
<1>0. \A u \in UserId : (users[u] = Deleted <=> users'[u] = Deleted) \/ Dismisses(u)
  <2>1. ASSUME NEW v \in UserId, Changes(v), ~Dismisses(v)
        PROVE  \A u \in UserId : users[u] = Deleted <=> users'[u] = Deleted
    BY <2>1, LinkedRow, CreatedRow, SeededRow, AskedRow, DecidedRow, AccountsAssumption
    DEF Changes, Exists
  <2>2. ASSUME NEW v \in UserId, Dismisses(v)
        PROVE  \A u \in UserId \ {v} : users[u] = Deleted <=> users'[u] = Deleted
    BY <2>2, DismissedRow DEF Changes
  <2> QED
    BY <2>1, <2>2, RowChanges
<1>1. CASE UNCHANGED Books /\ Rows \subseteq Rows'
  <2>1. \A u \in UserId : users[u] = Deleted <=> users'[u] = Deleted
    <3>1. ASSUME NEW u \in UserId, Dismisses(u)
          PROVE  users[u] = Deleted /\ users'[u] = Deleted
      <4>1. PICK a \in Rows : audit' = Logged(a, "user.deleted", u)
        BY <3>1 DEF Dismisses
      <4>2. LogEntry(a, "user.deleted", u) \in BagToSet(audit)
        BY <1>1, <4>1, Added DEF Books, Logged
      <4> QED
        BY <3>1, <4>2, DismissedRow DEF LogIsTrue, LogEntry
    <3> QED
      BY <1>0, <3>1
  <2> QED
    BY <1>1, <2>1 DEF Books, LogIsTrue, BagToSet
<1>2. ASSUME NEW u \in UserId, Dismisses(u)
      PROVE  LogIsTrue'
  <2>1. PICK a \in Rows : audit' = Logged(a, "user.deleted", u)
    BY <1>2 DEF Dismisses
  <2>2. /\ users'[u] = Deleted /\ groups' = groups
        /\ \A v \in UserId \ {u} : users'[v] = users[v]
    BY <1>2, DismissedRow DEF Dismisses
  <2>3. PICK e : /\ BagToSet(audit') = BagToSet(audit) \cup {e}
                 /\ e.action = "user.deleted" /\ e.about = u
    <3> DEFINE e0 == LogEntry(a, "user.deleted", u)
    <3>1. BagToSet(audit') = BagToSet(audit) \cup {e0}
      BY <2>1, Added DEF Logged
    <3>2. e0.action = "user.deleted" /\ e0.about = u
      BY DEF LogEntry
    <3> HIDE DEF e0
    <3> QED
      BY <3>1, <3>2
  <2> QED
    BY <2>2, <2>3 DEF LogIsTrue
<1>3. ASSUME UNCHANGED users, NEW r \in Request, BookSteps(r), ~Refused(r)
      PROVE  LogIsTrue'
  <2>1. CASE CreateGroupTx(r)
    <3>1. req[r].creator \in UserId
      BY <2>1, LocalFields DEF CreateGroupTx, TypeOK
    <3>2. PICK g \in GroupId :
            groups[g] = None /\ groups' = [groups EXCEPT ![g] = [createdBy |-> req[r].creator]]
      BY <1>3, <2>1 DEF CreateGroupTx
    <3>3. [createdBy |-> req[r].creator] # Deleted
      BY <3>1, RowsAssumption DEF Group
    <3>4. \A h \in GroupId : groups[h] = Deleted <=> groups'[h] = Deleted
      BY <3>2, <3>3, AccountsAssumption DEF TypeOK
    <3>5. audit' = audit
      BY <1>3, <2>1 DEF CreateGroupTx
    <3> QED
      BY <1>3, <3>4, <3>5 DEF LogIsTrue, BagToSet
  <2>2. CASE CreateJoinRequest(r) \/ DeleteMembership(r)
    BY <1>3, <2>2 DEF CreateJoinRequest, DeleteMembership, LogIsTrue, BagToSet
  <2>3. CASE DecideJoinRequest(r)
    <3>1. /\ BagToSet(audit') = BagToSet(audit) \cup {DecisionEntry(req[r])}
          /\ UNCHANGED <<users, groups>>
      BY <1>3, <2>3, Added DEF DecideJoinRequest
    <3>2. DecisionEntry(req[r]).action \notin {"user.deleted", "group.deleted"}
      BY DEF DecisionEntry
    <3> QED
      BY <3>1, <3>2 DEF LogIsTrue
  <2>4. CASE DeleteGroup(r)
    <3>1. /\ audit' = Logged(req[r].actor, "group.deleted", req[r].target)
          /\ groups' = [groups EXCEPT ![req[r].target] = Deleted]
          /\ req[r].target \in GroupId
      BY <1>3, <2>4, LocalFields DEF DeleteGroup, TypeOK
    <3>2. PICK g \in GroupId : g = req[r].target
      BY <3>1
    <3>3. PICK e : /\ BagToSet(audit') = BagToSet(audit) \cup {e}
                   /\ e.action = "group.deleted" /\ e.about = g
      <4> DEFINE e0 == LogEntry(req[r].actor, "group.deleted", g)
      <4>1. BagToSet(audit') = BagToSet(audit) \cup {e0}
        BY <3>1, <3>2, Added DEF Logged
      <4>2. e0.action = "group.deleted" /\ e0.about = g
        BY DEF LogEntry
      <4> HIDE DEF e0
      <4> QED
        BY <4>1, <4>2
    <3>4. groups'[g] = Deleted /\ \A h \in GroupId \ {g} : groups'[h] = groups[h]
      BY <3>1, <3>2 DEF TypeOK
    <3> QED
      BY <1>3, <3>3, <3>4 DEF LogIsTrue
  <2>5. CASE CreateExpense(r)
    <3>1. /\ BagToSet(audit') = BagToSet(audit) \cup {ExpenseEntry(req[r])}
          /\ UNCHANGED <<users, groups>>
      BY <1>3, <2>5, Added DEF CreateExpense
    <3>2. ExpenseEntry(req[r]).action \notin {"user.deleted", "group.deleted"}
      BY DEF ExpenseEntry
    <3> QED
      BY <3>1, <3>2 DEF LogIsTrue
  <2> QED
    BY <1>3, <2>1, <2>2, <2>3, <2>4, <2>5 DEF BookSteps
<1> QED
  BY <1>1, <1>2, <1>3, StepKinds
-----------------------------------------------------------------------------
(***************************************************************************)
(* What requests rely on.                                                  *)
(***************************************************************************)

\* What a request relies on survives the steps of the others: a decision that
\* would break it marks the request late.
LEMMA CarriedStays ==
  ASSUME TypeOK, IdentitiesAreApart, RequestsAreSound, [Next]_vars,
         NEW r \in Request, req'[r] = req[r]
  PROVE  Carried(r)'
<1> DEFINE q == req[r]
<1>0. q \in Local /\ Carried(r)
  BY DEF TypeOK, RequestsAreSound
<1>1. q.pc \in {"lookup", "link", "create"} => realm'[q.subject] # None
  BY <1>0, LocalFields, RealmKeeps DEF Carried
<1>2. /\ q.pc = "verify" => q.admin \in TheAdmins'
      /\ q.pc = "deleteUser" => q.actor \in TheAdmins' /\ q.actor # q.target
      /\ q.pc = "found" => q.admin \in cleared'
      /\ q.pc = "join" => q.user \in cleared'
  BY <1>0, AdminsStay, ClearedStays DEF Carried
<1>3. ASSUME q.pc = "ask", ~q.late, NEW u \in UserId, u = q.user, Exists(u)'
      PROVE  ~Verified(u)'
  <2>1. Exists(u) => users[u].st # "verified"
    BY <1>0, <1>3 DEF Carried, Verified
  <2>2. CASE users' = users
    BY <1>3, <2>1, <2>2 DEF Verified, Exists
  <2>3. ASSUME NEW v \in UserId, Changes(v)
        PROVE  ~Verified(u)'
    <3>1. CASE v # u
      <4>1. u \in Rows' \ {v}
        BY <1>3, <3>1 DEF Rows
      <4> QED
        BY <2>1, <2>3, <4>1, RowsOf DEF Rows, Verified
    <3>2. CASE v = u
      <4>1. ~Seeds(u) /\ ~Decides(u)
        <5>1. Overtaken(u)[r].late
          BY <1>0, <1>3 DEF Overtaken, Local, Idle
        <5>2. q # Idle
          BY <1>3 DEF Idle
        <5> QED
          BY <1>3, <5>1, <5>2 DEF Seeds, Decides, Overtaken
      <4> QED
        BY <1>3, <2>1, <2>3, <3>2, <4>1, LinkedRow, CreatedRow, AskedRow, DismissedRow
        DEF Changes, Verified
    <3> QED
      BY <3>1, <3>2
  <2> QED
    BY <2>2, <2>3, RowChanges
<1>4. q.pc = "ask" => q.user \in UserId
  BY <1>0, LocalFields
<1> QED
  BY <1>1, <1>2, <1>3, <1>4 DEF Carried, TheAdmins

\* A request is sound when it begins to wait for its write.
LEMMA ArriveCarried ==
  ASSUME TypeOK, VerifiedAreCleared, IdentitiesAreApart, NEW r \in Request, Arrive(r)
  PROVE  Carried(r)' /\ \A o \in Request \ {r} : req'[o] = req[o]
<1>0. /\ \A s \in Subject : Caller(s) \subseteq Rows
      /\ \A s \in Subject : HasToken(s) => realm[s] # None
      /\ req \in [Request -> Local]
      /\ Rows \subseteq UserId
  BY DEF Caller, GetUserByKeycloakID, HasToken, TypeOK, Rows
<1>1. ASSUME NEW q, Goes(r, q)
      PROVE  /\ req'[r] = q /\ \A o \in Request \ {r} : req'[o] = req[o]
             /\ UNCHANGED <<realm, users, cleared>>
             /\ Rows' = Rows /\ TheAdmins' = TheAdmins
  BY <1>0, <1>1 DEF Goes, tables, Rows, TheAdmins, Exists
<1>2. ASSUME Refused(r)
      PROVE  /\ req'[r] = Idle /\ \A o \in Request \ {r} : req'[o] = req[o]
             /\ Carried(r)'
  <2>1. req'[r] = Idle /\ \A o \in Request \ {r} : req'[o] = req[o]
    BY <1>0, <1>2 DEF Refused, Ends
  <2> QED
    BY <2>1 DEF Carried, Idle
<1>3. ASSUME NEW s \in Subject, realm[s] # None, Lookup(r, s)
      PROVE  Carried(r)' /\ \A o \in Request \ {r} : req'[o] = req[o]
  <2>1. CASE Goes(r, [pc |-> "link", subject |-> s])
    BY <1>1, <1>3, <2>1 DEF Carried
  <2> QED
    BY <1>2, <1>3, <2>1 DEF Lookup
<1>4. CASE PostAuthRegister(r)
  <2>1. PICK e \in Address : SignUp(r, e)
    BY <1>4 DEF PostAuthRegister
  <2>2. PICK s \in Subject :
          /\ realm' = [realm EXCEPT ![s] = [email |-> e, there |-> TRUE]]
          /\ req' = [req EXCEPT ![r] = [pc |-> "lookup", subject |-> s]]
    BY <2>1 DEF SignUp
  <2>3. [email |-> e, there |-> TRUE] # None
    <3>1. [email |-> e, there |-> TRUE] \in Account
      BY DEF Account
    <3> QED
      BY <3>1, RowsAssumption
  <2> QED
    BY <1>0, <2>2, <2>3 DEF Carried, TypeOK
<1>5. CASE PostAuthLogin(r) \/ PostRegister(r)
  BY <1>0, <1>3, <1>5 DEF PostAuthLogin, PostRegister, Login, Register
<1>6. CASE PostVerification(r)
  <2>1. PICK s \in Subject, u \in UserId :
          MayAsk(u) /\ Goes(r, [pc |-> "ask", user |-> u, late |-> FALSE])
    BY <1>0, <1>6 DEF PostVerification, SubmitVerification
  <2> QED
    BY <1>1, <2>1 DEF Carried, MayAsk, Verified, Exists
<1>7. CASE PostUserDecision(r)
  <2>1. PICK s \in Subject, t \in UserId, d \in {"verified", "rejected"}, u \in TheAdmins :
          Goes(r, [pc |-> "verify", admin |-> u, target |-> t, decision |-> d])
    BY <1>0, <1>7 DEF PostUserDecision, SetVerification, RequireGlobalAdmin, TheAdmins
  <2> QED
    BY <1>1, <2>1 DEF Carried
<1>8. CASE PostGroups(r)
  <2>1. PICK s \in Subject, t \in UserId, u \in Rows :
          resolveGroupAdmin(u, t) /\ Goes(r, [pc |-> "found", creator |-> u, admin |-> t])
    BY <1>0, <1>8 DEF PostGroups, CreateGroup
  <2>2. t \in cleared
    BY <2>1 DEF resolveGroupAdmin, VerifiedAreCleared, Rows
  <2> QED
    BY <1>1, <2>1, <2>2 DEF Carried
<1>9. CASE PostGroupsJoin(r)
  <2>1. PICK s \in Subject, g \in GroupId, u \in Rows :
          Verified(u) /\ Goes(r, [pc |-> "join", user |-> u, group |-> g])
    BY <1>0, <1>9 DEF PostGroupsJoin, RequestToJoin
  <2> QED
    BY <1>1, <2>1 DEF Carried, VerifiedAreCleared
<1>10. CASE PostMemberDecision(r)
  <2>1. PICK s \in Subject, g \in GroupId, t \in UserId, d \in Decision, u \in UserId :
          Goes(r, [pc |-> "member", actor |-> u, group |-> g, target |-> t, decision |-> d])
    BY <1>0, <1>10 DEF PostMemberDecision, DecideMember
  <2> QED
    BY <1>1, <2>1 DEF Carried
<1>11. CASE DeleteMember(r)
  <2>1. PICK m \in memberships : Goes(r, [pc |-> "remove", row |-> m.id])
    BY <1>11 DEF DeleteMember, RemoveMember
  <2> QED
    BY <1>1, <2>1 DEF Carried
<1>12. CASE DeleteAdminUsers(r)
  <2>1. PICK s \in Subject, t \in UserId, u \in TheAdmins :
          u # t /\ Goes(r, [pc |-> "deleteUser", actor |-> u, target |-> t])
    BY <1>0, <1>12 DEF DeleteAdminUsers, AdminDeleteUser, RequireGlobalAdmin, TheAdmins
  <2> QED
    BY <1>1, <2>1 DEF Carried
<1>13. CASE DeleteAdminGroups(r)
  <2>1. PICK s \in Subject, g \in GroupId, u \in UserId :
          Goes(r, [pc |-> "deleteGroup", actor |-> u, target |-> g])
    BY <1>0, <1>13 DEF DeleteAdminGroups, AdminDeleteGroup
  <2> QED
    BY <1>1, <2>1 DEF Carried
<1>14. CASE PostExpenses(r)
  <2>1. PICK g \in GroupId, shares \in Splits, u \in UserId, m \in memberships :
          Goes(r, [pc |-> "record", actor |-> u, row |-> m.id, group |-> g, shares |-> shares])
    BY <1>0, <1>14 DEF PostExpenses, RecordExpense
  <2> QED
    BY <1>1, <2>1 DEF Carried
<1> QED
  BY <1>4, <1>5, <1>6, <1>7, <1>8, <1>9, <1>10, <1>11, <1>12, <1>13, <1>14 DEF Arrive

\* A request that goes on keeps its subject, and one that ends relies on nothing.
LEMMA WorkCarried ==
  ASSUME TypeOK, RequestsAreSound, NEW r \in Request, Work(r) \/ Fail(r)
  PROVE  /\ Carried(r)'
         /\ \A o \in Request \ {r} :
              req'[o] = req[o] \/ (req'[o].pc = "ask" /\ req'[o].late)
<1>0. req \in [Request -> Local] /\ Carried(r)
  BY DEF TypeOK, RequestsAreSound
<1>1. ASSUME Ends(r)
      PROVE  /\ Carried(r)'
             /\ \A o \in Request \ {r} : req'[o] = req[o]
  <2>1. req'[r] = Idle /\ \A o \in Request \ {r} : req'[o] = req[o]
    BY <1>0, <1>1 DEF Ends
  <2> QED
    BY <2>1 DEF Carried, Idle
<1>2. ASSUME NEW pc \in {"link", "create"}, req[r].pc \in {"lookup", "link"},
             Goes(r, [pc |-> pc, subject |-> req[r].subject])
      PROVE  /\ Carried(r)'
             /\ \A o \in Request \ {r} : req'[o] = req[o]
  <2>1. /\ req'[r] = [pc |-> pc, subject |-> req[r].subject] /\ realm' = realm
        /\ \A o \in Request \ {r} : req'[o] = req[o]
    BY <1>0, <1>2 DEF Goes
  <2>2. req'[r].pc = pc /\ req'[r].subject = req[r].subject
    BY <2>1
  <2> QED
    BY <1>0, <1>2, <2>1, <2>2 DEF Carried
<1>3. CASE SignUpLookup(r)
  BY <1>1, <1>2, <1>3 DEF SignUpLookup, Lookup, Refused
<1>4. CASE LinkUserKeycloakID(r)
  BY <1>1, <1>2, <1>4 DEF LinkUserKeycloakID
<1>5. CASE SetUserVerification(r) /\ ~Ends(r)
  <2>1. req[r].target \in UserId
    BY <1>0, <1>5, LocalFields DEF SetUserVerification
  <2>2. req' = [Overtaken(req[r].target) EXCEPT ![r] = Idle]
    BY <1>5 DEF SetUserVerification, Refused
  <2>3. PICK t \in UserId : t = req[r].target
    BY <2>1
  <2>4. Overtaken(t) \in [Request -> Local]
    BY OvertakenTyped
  <2>5. req'[r] = Idle /\ \A o \in Request \ {r} : req'[o] = Overtaken(t)[o]
    BY <2>2, <2>3, <2>4
  <2>6. \A o \in Request : \/ Overtaken(t)[o] = req[o]
                           \/ Overtaken(t)[o] = [pc |-> "ask", user |-> t, late |-> TRUE]
    BY OvertakenTyped
  <2> QED
    BY <2>5, <2>6 DEF Carried, Idle
<1>6. CASE Fail(r) \/ CreateUser(r) \/ SetUserVerificationPending(r) \/ CreateGroupTx(r)
           \/ CreateJoinRequest(r) \/ DecideJoinRequest(r) \/ DeleteMembership(r)
           \/ CreateExpense(r) \/ DeleteUser(r) \/ DeleteGroup(r) \/ Ends(r)
  <2>1. Ends(r)
    BY <1>6 DEF Fail, CreateUser, SetUserVerificationPending, CreateGroupTx,
                CreateJoinRequest, DecideJoinRequest, DeleteMembership, CreateExpense,
                DeleteUser, DeleteGroup, Refused
  <2> QED
    BY <1>1, <2>1
<1> QED
  BY <1>3, <1>4, <1>5, <1>6 DEF Work

\* What requests rely on between their read and their write stays true.
LEMMA CarriedStep ==
  ASSUME TypeOK, IdentitiesAreApart, RequestsAreSound, VerifiedAreCleared, [Next]_vars
  PROVE  RequestsAreSound'
<1> SUFFICES ASSUME NEW r \in Request
             PROVE  Carried(r)'
  BY DEF RequestsAreSound
<1>1. CASE req'[r].pc = "ask" /\ req'[r].late
  BY <1>1 DEF Carried
<1>2. CASE req'[r] = req[r]
  BY <1>2, CarriedStays
<1>3. ASSUME NEW o \in Request, Arrive(o)
      PROVE  req'[r] = req[r] \/ Carried(r)'
  BY <1>3, ArriveCarried
<1>4. ASSUME NEW o \in Request, Work(o) \/ Fail(o)
      PROVE  req'[r] = req[r] \/ Carried(r)' \/ (req'[r].pc = "ask" /\ req'[r].late)
  BY <1>4, WorkCarried
<1>5. CASE SeedGlobalAdmin
  <2>1. PICK u \in UserId : req' = Overtaken(u)
    BY <1>5 DEF SeedGlobalAdmin
  <2> QED
    <3>1. \/ Overtaken(u)[r] = req[r]
          \/ Overtaken(u)[r] = [pc |-> "ask", user |-> u, late |-> TRUE]
      BY OvertakenTyped
    <3>2. CASE Overtaken(u)[r] = [pc |-> "ask", user |-> u, late |-> TRUE]
      BY <1>1, <2>1, <3>2
    <3> QED
      BY <1>2, <2>1, <3>1, <3>2
<1>6. CASE (\E s \in Subject : Departs(s)) \/ UNCHANGED vars
  BY <1>2, <1>6 DEF Departs, vars
<1> QED
  BY <1>1, <1>2, <1>3, <1>4, <1>5, <1>6 DEF Next
-----------------------------------------------------------------------------
(***************************************************************************)
(* The invariant and its theorems.                                         *)
(***************************************************************************)

\* The invariant holds at the start ...
LEMMA InitIInv ==
  ASSUME Init
  PROVE  IInv
<1>1. TypeOK
  BY DEF Init, TypeOK, Local, EmptyBag, SetToBag, IsABag, BagToSet
<1>2. Rows = {} /\ \A g \in GroupId : ~GroupExists(g)
  BY DEF Init, Rows, Exists, GroupExists
<1>3. \A r \in Request : req[r].pc = "idle"
  BY DEF Init, Idle
<1>4. RequestsAreSound
  BY <1>3 DEF RequestsAreSound, Carried
<1> QED
  BY <1>1, <1>2, <1>4, AccountsAssumption
  DEF IInv, Init, IdentitiesAreApart, VerifiedAreCleared, VerifiedByTheAdmin, MembersWereVerified,
      NothingDangles, LogIsTrue, EmptyBag, SetToBag, BagToSet

\* Nothing dangles if neither deciders nor books do.
LEMMA ReferencesSplit == NothingDangles <=> DecidersExist /\ BooksReferToRows
BY DEF NothingDangles, DecidersExist, BooksReferToRows

\* ... and every step keeps it.
LEMMA StepIInv ==
  ASSUME IInv, [Next]_vars
  PROVE  IInv'
<1>1. TypeOK' /\ IdentitiesAreApart' /\ RequestsAreSound'
  BY StepTyped, IdentitiesStep, CarriedStep DEF IInv
<1>2. VerifiedAreCleared' /\ VerifiedByTheAdmin' /\ MembersWereVerified' /\ LogIsTrue'
  BY VerificationStep, MembersStep, LogStep DEF IInv
<1>3. DecidersExist' /\ BooksReferToRows'
  BY ReferencesSplit, DecidersStep, BooksStep DEF IInv
<1>4. NothingDangles'
  BY <1>3 DEF NothingDangles, DecidersExist, BooksReferToRows
<1> QED
  BY <1>1, <1>2, <1>4 DEF IInv

\* The inductive invariant of Accounts: what each request relies on between its
\* read and its write is what the table invariants need at the write.
THEOREM AccountsInvariant == Spec => []IInv
BY InitIInv, StepIInv, PTL DEF Spec

\* The tables and the requests keep their types.
THEOREM AccountsTyped == Spec => []TypeOK
<1>1. IInv => TypeOK
  BY DEF IInv
<1> QED
  BY <1>1, AccountsInvariant, PTL

\* registration.go: one row per address and per subject, one global admin, and
\* every linked row has the address of its account.
THEOREM OneRowEach == Spec => []IdentitiesAreApart
<1>1. IInv => IdentitiesAreApart
  BY DEF IInv
<1> QED
  BY <1>1, AccountsInvariant, PTL

\* admin.go: a deletion on the strength of an earlier check breaks no reference.
THEOREM DeletionsAreSafe == Spec => []NothingDangles
<1>1. IInv => NothingDangles
  BY DEF IInv
<1> QED
  BY <1>1, AccountsInvariant, PTL

\* admin.go: the log says deleted of exactly what is.
THEOREM DeletionsAreLogged == Spec => []LogIsTrue
<1>1. IInv => LogIsTrue
  BY DEF IInv
<1> QED
  BY <1>1, AccountsInvariant, PTL

\* groups.go, memberships.go: a membership belongs to somebody once verified.
THEOREM MembersVerified == Spec => []MembersWereVerified
<1>1. IInv => MembersWereVerified
  BY DEF IInv
<1> QED
  BY <1>1, AccountsInvariant, PTL

\* verification.go: nobody is verified but by the global admin or the seed.
THEOREM AdminVerifies == Spec => []VerifiedByTheAdmin
<1>1. IInv => VerifiedByTheAdmin
  BY DEF IInv
<1> QED
  BY <1>1, AccountsInvariant, PTL

\* registration.go: an account linked to its row keeps it.
THEOREM RowsAreKept == Spec => RowKeepsItsSubject
<1>1. IInv /\ [Next]_vars =>
        [\A u \in UserId :
           Exists(u) /\ users[u].kc # None /\ Exists(u)' =>
             users'[u].kc = users[u].kc /\ users'[u].email = users[u].email]_vars
  BY SubjectStep DEF IInv
<1> QED
  BY <1>1, AccountsInvariant, PTL DEF Spec, RowKeepsItsSubject

\* verification.go: a verified account turns pending again only by a submission
\* that read it before the admin's decision.
THEOREM LostOnlyToRace == Spec => VerifiedLostOnlyToRace
<1>1. IInv /\ [Next]_vars =>
        [\A u \in UserId :
           Exists(u) /\ Verified(u) /\ Exists(u)' /\ users'[u].st = "pending_verification" =>
             \E r \in Request : req[r].pc = "ask" /\ req[r].user = u /\ req[r].late]_vars
  BY RaceStep DEF IInv
<1> QED
  BY <1>1, AccountsInvariant, PTL DEF Spec, VerifiedLostOnlyToRace
=============================================================================
