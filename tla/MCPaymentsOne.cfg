\* One payment, two requests at a time, every role, image proofs.
SPECIFICATION FairSpec
CONSTANTS
  ahmed = ahmed  omar = omar  mohammed = mohammed  root = root
  p1 = p1  p2 = p2  note = note  photo = photo  NoOne = NoOne
  r1 = r1  r2 = r2
  User = {ahmed, mohammed, root}
  Member = {ahmed, mohammed}
  GlobalAdmin = {root}
  Payment = {p1}
  Debtor <- OneDebtor
  Creditor <- OneCreditor
  Request = {r1, r2}
  Evidence = {photo}
  Image = {photo}
  MaxVersion = 4
INVARIANTS TypeOK TrailIsChain TwoKeysBeforeSettled ProofBacksClaim ProofImageStored ReportIsTrue NobodyWaitsInACircle
PROPERTIES SettledIsFinal RequestsEnd ImplementsTwoKey
