\* A parent, two children and a teacher; a token lives one tick and the rest
\* of the next.
SPECIFICATION Spec
CONSTANTS
  Parents = {mum}
  Children = {kid, sis}
  Teacher = teacher
  Tokens = {t1}
  Requests = {r1}
  TTL = 1
  None = None
SYMMETRY Interchangeable
INVARIANTS
  TypeOK
  SightFollowsScope
  SightReachesScope
