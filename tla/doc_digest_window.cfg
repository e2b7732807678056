CONSTANTS
  e1 = e1
  a = a
  b = b
  x = x
  software = software
  p1 = p1
  p2 = p2
  Emails = {e1}
  NoOne = NoOne
  Jobs = {a, b}
  Companies = {x}
  CompanyOf <- MCCompanyOf
  Role <- MCRole
  DetailOf <- MCDetailOf
  Kinds = {software}
  KindOf <- MCKindOf
  Wishes = {{software}}
  Senders = {p1, p2}
  MaxIds = 1
  MaxTime = 3
  MaxVisits = 1
  MaxFaults = 1
SPECIFICATION Spec
INVARIANTS FetchedSinceIsFound
CHECK_DEADLOCK FALSE
