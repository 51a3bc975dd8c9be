\* Two rooms, one student, three codes, two requests in flight.
SPECIFICATION Spec
CONSTANTS
  Rooms = {c1, c2}
  Students = {s1}
  Teacher = teacher
  Codes = {k1, k2, k3}
  Requests = {r1, r2}
  None = None
SYMMETRY Interchangeable
VIEW Told
INVARIANTS
  TypeOK
  AdmittedWhereAsked
  EventsMatchStays
PROPERTY
  ClosedRoomIsClosed
\* Creations that broke off may use up the two rooms of the instance.
CHECK_DEADLOCK FALSE
