\* A child's registration and an assignment; the producer may send a message
\* twice, the consumer breaks off at most twice.
SPECIFICATION Spec
CONSTANTS
  Events = {child, push}
  Children = {child}
  Pushes = {push}
  Deletions = {}
  MaxLog = 1
  MaxAborts = 2
  Nothing = Nothing
INVARIANTS
  TypeOK
  CommittedIsHandled
  DuplicatesHaveACause
PROPERTIES
  PublishSettles
  PublishedIsHandled
\* The process rests when every row is published and every message handled.
CHECK_DEADLOCK FALSE
