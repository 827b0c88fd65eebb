\* Bytes arrive between two recv of one handle_read.
SPECIFICATION Spec
CONSTANTS
  Contents = {1, 3}
  HeaderSize = 2
  Align = 2
  BufSize = 4
  Senders = {s1}
  Ways = {"try"}
  AnyTime = TRUE
  Stale = Stale
INVARIANTS PacketsIntact
\* Every packet has been sent.
CHECK_DEADLOCK FALSE
