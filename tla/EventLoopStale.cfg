\* A descriptor is removed while the loop handles events.
SPECIFICATION Spec
CONSTANTS
  Fds = {5}
  ControlFd = 3
  Prepared = {}
  Users = {u1}
  UserOps = {"add", "remove"}
  AnyOrder = FALSE
  Waiters = {}
  Posters = {}
INVARIANTS NoNullDispatch
\* The loop ends when it is terminated, or crashes.
CHECK_DEADLOCK FALSE
