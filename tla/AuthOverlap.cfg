\* Two requests in flight over four tokens of one account, no resets.
SPECIFICATION Spec
CONSTANTS
  Users = {kid}
  Children = {kid}
  Tokens = {t1, t2, t3, t4}
  Links = {}
  Requests = {r1, r2}
  MaxPassword = 0
  NoUser = NoUser
  NoToken = NoToken
  NoLink = NoLink
SYMMETRY Interchangeable
VIEW Lineage
INVARIANTS
  OneLiveUnlessForked
  PasswordSessionNeedsConsent
PROPERTIES
  DeadFamilyStaysDead
  ForestSpec
  SignedOutUntilLogin
  GoneIssuesNothing
