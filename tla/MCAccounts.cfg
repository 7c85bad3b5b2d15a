\* An admin, a user and an address taken over; two requests at a time.
SPECIFICATION Spec
CONSTANTS
  r1 = r1  r2 = r2  s1 = s1  s2 = s2  u1 = u1  u2 = u2
  root = root  ann = ann  g1 = g1
  None = None  Deleted = Deleted
  Address = {root, ann}
  Subject = {s1, s2}
  UserId = {u1, u2}
  GroupId = {g1}
  MembershipId = {1, 2, 3}
  Request = {r1, r2}
  AdminEmail = root
  Decision = {"approved"}
  Splits <- Singles
  MaxExpense = 1
  MaxDecided = 1
INVARIANTS TypeOK IdentitiesAreApart NothingDangles LogIsTrue MembersWereVerified VerifiedByTheAdmin
PROPERTIES RowKeepsItsSubject VerifiedLostOnlyToRace
SYMMETRY Ids
CHECK_DEADLOCK FALSE
