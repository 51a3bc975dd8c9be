\* Two overlapping requests on a session created online and one created offline.
SPECIFICATION Spec
CONSTANTS
  on = on
  off1 = off1
  off2 = off2
  a1 = a1
  a2 = a2
  Online = {on}
  Offline = {off1}
  Attempts = {a1, a2}
  SessionOf <- SessionOfAttempt
  ReportedStatus <- FirstCompleted
  Requests = {r1, r2}
  Patches = {"finish"}
  NoSession = NoSession
  NoAttempt = NoAttempt
SYMMETRY Interchangeable
INVARIANTS
  AckedIsStored
  EventsAreTrue
  FluencyIsReal
PROPERTY
  RecordedOnce
