-------------------------------- MODULE Lines --------------------------------
(***************************************************************************)
(* What carries bytes into and out of a process, one object of each: the   *)
(* select loop of a net point, the messages of simple net points, the      *)
(* channel between the threads of one process, the serial port of POSIX    *)
(* and that of Windows, the byte protocol spoken over such a port, and the *)
(* sockets of a server that accepts connections.                           *)
(* They share nothing: a behaviour works on one of them, so that the state *)
(* spaces are explored side by side.                                       *)
(***************************************************************************)
EXTENDS Naturals, Sequences, FiniteSets

CONSTANTS
  Peers, Self, Null, PipeRoom, Feeders, Apart, MaxTerminates, MaxFeeds,   \* net point
  Letters, Long, Empty,                                                   \* messages
  Pushers, PushSize, PipeSize, AllocatedSize, Interrupts,                 \* channel
  Messages, MessageSize, BufSize, MaxInput, MaxSessions,                  \* serial port
  WriteSize, MaxReads, MaxOpens,                                          \* its variant
  Callers, Commands, Punctual, MaxTries, MaxRequests, MaxSyncs,           \* protocol
  MaxEvents, MaxLost,
  Connections, Descriptors, NoPeer, Listener, Local                       \* TCP peers

ASSUME LinesAssumption ==
  /\ Self \notin Peers /\ Null \notin Peers \cup {Self}
  /\ Long \subseteq Letters /\ Empty \subseteq Letters \ Long
  /\ {Apart, Interrupts, Punctual} \subseteq BOOLEAN
  /\ {PushSize, PipeSize, AllocatedSize, BufSize, WriteSize} \subseteq Nat \ {0}
  /\ {NoPeer, Listener, Local} \cap Connections = {}
  /\ Descriptors \subseteq Nat \ {0} /\ IsFiniteSet(Descriptors)
  /\ {MessageSize, MaxInput, MaxRequests} \subseteq Nat
  /\ Listener # Local
  /\ "0x20" \notin Commands   \* what a packet of an event ends with is no command
  /\ {"out", "polling", "accepted", "added", "stopped"} \cap Connections = {}

VARIABLES
  object,                                                        \* what is worked on
  mode, clients, fds, polledOut, revents, coming, deleted, hungUp, wants, control,
  pipeInBuf, restartFlag, at, feeder, feeds, terminates,
  side, posting, restart, polling,
  outbox, outContents, outNeeded, outNextByte, outBytesRest, bytes, inMessage, inContents,
  inBytesRest, arrived, closed, sentLetters, gotLetters,
  pushAt, msg, bytesRest, pipeBytes, called,
  connected, options, saved, handles, sessions, outBuf, flushing, endPtr, runPtr,
  stage, rest, accepted, posted, wire, dropped, inBuf, strInBuf, taken, received, mixed,
  spinning,
  open, timeouts, terminate, terminated, reader, writer, left, cut, waiter, reads, opens,
  waitCom, waitSync, outgoing, incoming, inbox, inBytes, caller, tries, asked, answer,
  toCtl, fromCtl, requests, syncs, lost, events, popped,
  sameLoop, number, owns, opened, places, born, gone, arriving, ended, accepting, serving, stray

netVars == <<mode, clients, fds, polledOut, revents, coming, deleted, hungUp, wants, control,
             pipeInBuf, restartFlag, at, feeder, feeds, terminates>>
letterVars == <<side, posting, restart, polling, outbox, outContents, outNeeded, outNextByte,
                outBytesRest, bytes, inMessage, inContents, inBytesRest, arrived, closed,
                sentLetters, gotLetters>>
ipVars == <<pushAt, msg, bytesRest, pipeBytes, called>>
portVars == <<connected, options, saved, handles, sessions, outBuf, flushing, endPtr,
              runPtr, stage, rest, accepted, posted, wire, dropped, inBuf, strInBuf, taken,
              received, mixed, spinning>>
winVars == <<open, timeouts, terminate, terminated, reader, writer, left, cut, waiter, reads,
             opens>>
byteVars == <<waitCom, waitSync, outgoing, incoming, inbox, inBytes, caller, tries, asked,
              answer, toCtl, fromCtl, requests, syncs, lost, events, popped>>
peerVars == <<sameLoop, number, owns, opened, places, born, gone, arriving, ended, accepting,
              serving, stray>>
allVars == <<object, netVars, letterVars, ipVars, portVars, winVars, byteVars, peerVars>>

N == INSTANCE NetPoint
L == INSTANCE SimpleMessages WITH inbox <- arrived
I == INSTANCE IpChannel
R == INSTANCE SerialPort
W == INSTANCE WinPort
B == INSTANCE SerialByte
T == INSTANCE TcpPeer WITH open <- opened, deleted <- gone, hungUp <- ended

Objects == {"net point", "messages", "channel", "port", "win port", "byte", "peers"}

InitAll ==
  /\ object \in Objects
  /\ N!Init /\ L!Init /\ I!Init /\ R!Init /\ W!Init /\ B!Init /\ T!Init
  /\ object # "net point" => mode = "server"
  /\ object # "peers" => ~sameLoop
  /\ object # "messages" => side = "client"

\* Only one of the objects is worked on.
Others(name) ==
  /\ object = name /\ UNCHANGED object
  /\ name # "net point" => UNCHANGED netVars
  /\ name # "messages" => UNCHANGED letterVars
  /\ name # "channel" => UNCHANGED ipVars
  /\ name # "port" => UNCHANGED portVars
  /\ name # "win port" => UNCHANGED winVars
  /\ name # "byte" => UNCHANGED byteVars
  /\ name # "peers" => UNCHANGED peerVars

NextAll ==
  \/ Others("net point") /\ N!Next
  \/ Others("messages") /\ L!Next
  \/ Others("channel") /\ I!Next
  \/ Others("port") /\ R!Next
  \/ Others("win port") /\ W!Next
  \/ Others("byte") /\ B!Next
  \/ Others("peers") /\ T!Next

\* The fairness of each; the serial port and the protocol are only safe.
FairSpecAll ==
  /\ InitAll /\ [][NextAll]_allVars
  /\ WF_netVars(object = "net point" /\ N!Loop)
  /\ \A u \in Feeders :
       WF_netVars(object = "net point" /\ (N!PostRestart(u) \/ N!WriteRestart(u)))
  /\ WF_letterVars(object = "messages" /\ L!Sender)
  /\ WF_letterVars(object = "messages" /\ L!Loop)
  /\ SF_letterVars(object = "messages" /\ L!Transmit)
  /\ WF_letterVars(object = "messages" /\ L!Receive)
  /\ WF_ipVars(object = "channel" /\ I!HandleRead)
  /\ \A p \in Pushers : SF_ipVars(object = "channel" /\ I!WriteBytes(p))
  /\ WF_winVars(object = "win port" /\ W!ReadPends)
  /\ WF_winVars(object = "win port" /\ W!ReadCompletes)
  /\ SF_winVars(object = "win port" /\ W!ReadTerminated)
  /\ WF_winVars(object = "win port" /\ W!WaitReturns)
  /\ SF_peerVars(object = "peers" /\ T!Serve)
  /\ \A d \in Descriptors : WF_peerVars(object = "peers" /\ T!DeletePeer(d))
  /\ WF_peerVars(object = "peers" /\ T!ClearPlace)

-----------------------------------------------------------------------------
\* CrossClass::posixNetPoint (NetPoint.tla): what poll reports is handled by the client
\* it was reported for, queued output is transmitted, and a terminated loop stops.
NetPointServes == []N!HandlesPolledClient /\ N!ControlServed

\* CrossClass::simpleNetPoint (SimpleMessages.tla): messages arrive whole and in order, those
\* of a client for certain.
MessagesServed == L!MessagesServed

\* CrossClass::basic_ip_channel (IpChannel.tla): what is pushed is called back with.
ChannelServes == I!ChannelServes

\* CrossClass::posixRS232port (SerialPort.tla): settings are restored, output is kept but
\* for what a full device refuses, and so is input.
PortKeeps == R!PortKeeps

\* CrossClass::win32RS232port (WinPort.tla): sessions and their events match, and who
\* terminates the port is not left waiting.
WinPortServes == []W!WinPortOrderly /\ W!WinPortStops

\* CrossClass::serialByte (SerialByte.tla): a caller gets the reply to its own command.
SerialByteServes == B!SerialByteServes

\* CrossClass::tcp_peer (TcpPeer.tla): a connection is registered where its descriptor
\* says while it exists, and the server goes on accepting.
PeersServed == T!PeersServed
=============================================================================
