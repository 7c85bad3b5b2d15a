\* Two reminder runs that overlap, while a payment is claimed and moves on.
SPECIFICATION NudgesSpec
CONSTANTS
  ahmed = ahmed  mohammed = mohammed  root = root
  p1 = p1  note = note  NoOne = NoOne
  r1 = r1  n1 = n1  n2 = n2
  User = {ahmed, mohammed, root}
  Member = {ahmed, mohammed}
  GlobalAdmin = {root}
  Payment = {p1}
  Debtor <- OneDebtor
  Creditor <- OneCreditor
  Request = {r1}
  Evidence = {note}
  Image = {}
  MaxVersion = 2
  Runner = {n1, n2}
  Hours = {0, 1}
  MaxClock = 3
SYMMETRY Alike
PROPERTIES NobodyStalledIsMissed
