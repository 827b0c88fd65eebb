------------------------------- MODULE Exchange -------------------------------
(***************************************************************************)
(* The parts of the data exchange, one object of each: the connection of   *)
(* two peers, the manager of a server's devices, the stub that stands for  *)
(* a client in it, the tool that measures round trips, and the manager of  *)
(* a client.  Each hands packets to the next by calls that return at once, *)
(* and none waits for another: a behaviour works on one of them, so that   *)
(* the state spaces are explored side by side.                             *)
(***************************************************************************)
EXTENDS NetPeer

CONSTANTS
  Domains, Elements, Owned, MayRepeat,            \* the device manager
  Packets, Fast, Local, Common, Stat, Pings, Terminate, Early,
  Parcels,                                        \* the client stub
  PingWays, Orderly, Cleared, MaxPings, MaxMarks, \* the ping tool
  Requests, Responses                             \* the client's manager

ASSUME ExchangeAssumption ==
  /\ Owned \subseteq Elements /\ Stat \in Domains /\ Common \notin Domains
  /\ Fast \subseteq Packets /\ Local \subseteq Packets /\ Pings \subseteq Packets
  /\ Local \cap Pings = {} /\ Terminate \notin Packets
  /\ {MayRepeat, Early, Orderly, Cleared} \subseteq BOOLEAN
  /\ PingWays \subseteq {"poll", "timed", "forever"}
  /\ MaxPings \in Nat /\ MaxMarks \in Nat \ {0}

VARIABLES
  object,                                                        \* what is worked on
  lists, destroyed, outbox, posted, sent, thread, packet2send, flag, owner,
  queue, sending, loopAt, refused, via, took, wrote,
  mark, time, expecting, user, way, line, pings, returned,
  requests, outgoing, outParts, outWire, inWire, answers, incoming, delivered, asked

serverVars == <<lists, destroyed, outbox, posted, sent, thread, packet2send, flag, owner>>
stubVars == <<queue, sending, loopAt, refused, via, took, wrote>>
pingVars == <<mark, time, expecting, user, way, line, pings, returned>>
clientVars == <<requests, outgoing, outParts, outWire, inWire, answers, incoming,
                delivered, asked>>
allVars == <<object, vars, serverVars, stubVars, pingVars, clientVars>>

M == INSTANCE DeviceManager
S == INSTANCE ClientStub
P == INSTANCE PingTool
C == INSTANCE ClientManager

InitAll ==
  /\ object \in {"peer", "server", "stub", "ping", "client"}
  /\ Init /\ M!Init /\ S!Init /\ P!Init /\ C!Init

NextAll ==
  /\ \/ object = "peer" /\ Next /\ UNCHANGED <<serverVars, stubVars, pingVars, clientVars>>
     \/ object = "server" /\ M!Next /\ UNCHANGED <<vars, stubVars, pingVars, clientVars>>
     \/ object = "stub" /\ S!Next /\ UNCHANGED <<vars, serverVars, pingVars, clientVars>>
     \/ object = "ping" /\ P!Next /\ UNCHANGED <<vars, serverVars, stubVars, clientVars>>
     \/ object = "client" /\ C!Next /\ UNCHANGED <<vars, serverVars, stubVars, pingVars>>
  /\ UNCHANGED object

\* The fairness of each (NetPeer, DeviceManager and ClientStub); the other two are only
\* safe.
FairSpecAll ==
  /\ InitAll /\ [][NextAll]_allVars
  /\ WF_vars(object = "peer" /\ outFlag /\ Write) /\ WF_vars(object = "peer" /\ Read)
  /\ WF_serverVars(object = "server" /\ M!RequestThread)
  /\ WF_serverVars(object = "server" /\ M!AwaitTermination)
  /\ WF_stubVars(object = "stub" /\ S!Loop) /\ SF_stubVars(object = "stub" /\ S!Ready)
  /\ SF_stubVars(object = "stub" /\ S!Done)

-----------------------------------------------------------------------------
\* ude::device_manager (DeviceManager.tla): what is posted is sent; the destructor
\* returns, and not before the request thread is through with the object; no device is
\* deleted twice or called after it (ude::element_map).
ManagerServes ==
  []M!NobodyDangles /\ []M!GoneAfterThread /\ M!PostedIsSent /\ M!DestructorReturns

\* ude::client_stub (ClientStub.tla): no packet for a client is lost or sent twice, and
\* what the loop knows of is written, packets that are queued behind it included.
StubForwards == S!StubForwards

\* ude::pingTool (PingTool.tla): what is returned is the latest request's round trip.
OwnRoundTrip == P!OwnRoundTrip

\* ude::client_device_manager (ClientManager.tla): packets are whole and in order.
WireIsWhole == C!WireIsWhole
=============================================================================
