\* Five tokens, two refreshes under way, two timers left behind.
SPECIFICATION Spec
CONSTANTS
  Tokens = {t0, t1, t2, t3, t4}
  First = t0
  Calls = {c1, c2}
  MaxTimers = 2
  NoToken = NoToken
SYMMETRY Interchangeable
INVARIANTS
  StrandedOnlyByMishap
PROPERTY
  SessionSurvives
