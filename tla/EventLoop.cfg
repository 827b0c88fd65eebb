\* Adds, pushes and terminations, descriptors added in ascending order.
SPECIFICATION FairSpec
CONSTANTS
  Fds = {5, 6}
  ControlFd = 3
  Prepared = {5, 6}
  Users = {u1}
  UserOps = {"add", "push"}
  AnyOrder = FALSE
  Waiters = {w}
  Posters = {p}
INVARIANTS NoNullDispatch NoLostTerminate ConfirmedAfterLastDispatch
PROPERTIES TerminationConfirmed WantServed
\* The loop ends when it is terminated.
CHECK_DEADLOCK FALSE
