\* A child and another account that may take the same address, two parents,
\* two requests in flight.
SPECIFICATION Spec
CONSTANTS
  Ids = {kid, other}
  Children = {kid}
  Emails = {e1, e2}
  Parents = {mum, dad}
  Requests = {r1, r2}
  None = None
SYMMETRY Interchangeable
INVARIANTS
  TypeOK
  UniqueActiveEmail
  AnnouncedHasConsent
  ParentTablesAgree
PROPERTY
  LinkIsFinal
