\* A server with two connections, two messages, two threads that push into a channel,
\* a port with two senders in two sessions, a Windows port in two sessions, and one
\* caller of the byte protocol with two requests over a line that loses a byte, and a
\* server of three connections with as many descriptors.
SPECIFICATION FairSpecAll
CONSTANTS
  Peers = {c1, c2}
  Self = Self
  Null = Null
  PipeRoom = 15
  Feeders = {u1}
  Apart = TRUE
  MaxTerminates = 1
  MaxFeeds = 2
  Letters = {l1, l2}
  Long = {l1}
  Empty = {}
  Pushers = {p1, p2}
  PushSize = 3
  PipeSize = 2
  AllocatedSize = 2
  Interrupts = FALSE
  Messages = {m1, m2}
  MessageSize = 2
  BufSize = 3
  MaxInput = 3
  MaxSessions = 2
  WriteSize = 2
  MaxReads = 2
  MaxOpens = 2
  Callers = {k1}
  Commands = {"0x3A"}
  Punctual = TRUE
  MaxTries = 1
  MaxRequests = 2
  MaxSyncs = 1
  MaxEvents = 1
  MaxLost = 1
  Connections = {n1, n2, n3}
  Descriptors = {1, 2, 3}
  NoPeer = NoPeer
  Listener = Listener
  Local = Local
INVARIANTS PortKeeps SerialByteServes
PROPERTIES NetPointServes MessagesServed ChannelServes WinPortServes PeersServed
\* Every object may have done all there is to do.
CHECK_DEADLOCK FALSE
