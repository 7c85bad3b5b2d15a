\* Two payments of one plan: the group's own status.
SPECIFICATION Spec
CONSTANTS
  ahmed = ahmed  omar = omar  mohammed = mohammed  root = root
  p1 = p1  p2 = p2  note = note  photo = photo  NoOne = NoOne
  r1 = r1  r2 = r2
  User = {ahmed, omar, mohammed, root}
  Member = {ahmed, omar, mohammed}
  GlobalAdmin = {root}
  Payment = {p1, p2}
  Debtor <- TwoDebtors
  Creditor <- TwoCreditors
  Request = {r1, r2}
  Evidence = {note}
  Image = {}
  MaxVersion = 2
SYMMETRY Requests
INVARIANTS GroupSettledIsTrue
