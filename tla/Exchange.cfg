\* Two senders, two packets and a buffer smaller than the largest packet; a server
\* with two domains, three devices and three packets; a client that takes four; five
\* pings under four marks; three requests and two responses.
SPECIFICATION FairSpecAll
CONSTANTS
  Contents = {1, 3}
  HeaderSize = 2
  Align = 2
  BufSize = 4
  Senders = {s1, s2}
  Ways = {"try", "timed"}
  AnyTime = FALSE
  Stale = Stale
  Domains = {1, 2}
  Elements = {d1, d2, d3}
  Owned = {d1, d2}
  MayRepeat = FALSE
  Packets = {p1, p2, p3}
  Fast = {p2}
  Local = {p3}
  Common = Common
  Stat = 1
  Pings = {p1}
  Terminate = Terminate
  Early = FALSE
  Parcels = {a, b, c, d}
  PingWays = {"poll", "timed"}
  Orderly = TRUE
  Cleared = TRUE
  MaxPings = 5
  MaxMarks = 4
  Requests = {q1, q2, q3}
  Responses = {r1, r2}
INVARIANTS TrueMeansSent OwnRoundTrip WireIsWhole
PROPERTIES EverythingArrives ImplementsPacketChannel ManagerServes StubForwards
\* Every packet has been sent, every device deleted, every request made.
CHECK_DEADLOCK FALSE
