\* Two threads that add in ascending order and remove.
SPECIFICATION Spec
CONSTANTS
  Fds = {4, 5}
  ControlFd = 3
  Prepared = {5}
  Users = {u1, u2}
  UserOps = {"add", "push", "remove"}
  AnyOrder = FALSE
  Waiters = {w}
  Posters = {}
INVARIANTS WatchedHasDescriptor SlotsMatch
\* The loop ends when it is terminated, or crashes.
CHECK_DEADLOCK FALSE
