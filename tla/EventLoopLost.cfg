\* A descriptor is removed while the loop is terminated.
SPECIFICATION FairSpec
CONSTANTS
  Fds = {5}
  ControlFd = 3
  Prepared = {}
  Users = {u1}
  UserOps = {"add", "remove"}
  AnyOrder = FALSE
  Waiters = {w}
  Posters = {}
PROPERTIES TerminationConfirmed
\* The loop ends when it is terminated, or crashes.
CHECK_DEADLOCK FALSE
