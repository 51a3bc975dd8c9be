\* Two requests in flight over three tokens and a reset link of one account.
SPECIFICATION Spec
CONSTANTS
  Users = {mum}
  Children = {}
  Tokens = {t1, t2, t3}
  Links = {k1}
  Requests = {r1, r2}
  MaxPassword = 2
  NoUser = NoUser
  NoToken = NoToken
  NoLink = NoLink
SYMMETRY Interchangeable
VIEW Aftermath
INVARIANTS
  BurntUnlessOvertaken
  OldSessionsExplained
