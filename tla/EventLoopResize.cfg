\* Descriptors are added in any order.
SPECIFICATION Spec
CONSTANTS
  Fds = {4, 5, 6}
  ControlFd = 3
  Prepared = {}
  Users = {u1}
  UserOps = {"add"}
  AnyOrder = TRUE
  Waiters = {}
  Posters = {}
INVARIANTS WatchedHasDescriptor
\* The loop ends when it is terminated, or crashes.
CHECK_DEADLOCK FALSE
