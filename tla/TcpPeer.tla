------------------------------ MODULE TcpPeer ------------------------------
(***************************************************************************)
(* CrossClass::tcp_peer (crs/tcp_peer.cpp) and the sockets it is made of   *)
(* (crs/bits/hostsocket.hpp): a listening peer accepts connections in the  *)
(* thread of one event loop and adds a new peer for each to the loop it    *)
(* was constructed with, which deletes a peer when its connection is       *)
(* closed.  The system gives each new socket the lowest free number, so    *)
(* that of a closed one comes again.  A socket object owns its number or   *)
(* has passed it on; either way it keeps it.                               *)
(***************************************************************************)
EXTENDS Naturals, FiniteSetsExt

CONSTANTS Connections,  \* the peers a server creates
          Descriptors,  \* the numbers the system has for sockets
          NoPeer,       \* an empty place in descriptors_list
          Listener,     \* the _socket of the listening peer
          Local         \* new_peer of handle_read

VARIABLES
  sameLoop,     \* the server is in the loop it adds its connections to
  number, owns, \* of each socket object: _socket and _own
  open,         \* the descriptors that are open
  places,       \* descriptors_list of that loop, where connections are
  born,         \* history: the peers that were created
  deleted,      \* history: those that were deleted
  arriving,     \* connections that were not accepted
  hungUp,       \* descriptors whose other side has closed
  accepting,    \* where the thread of the server is
  serving,      \* the descriptor of the peer the thread of the loop deletes, or 0
  stray         \* history: a descriptor was closed that was not open, or what is no place cleared
peerVars == <<sameLoop, number, owns, open, places, born, deleted, arriving, hungUp, accepting,
              serving, stray>>

Sockets == Connections \cup {Listener, Local}
Free == Descriptors \ open

Init ==
  /\ sameLoop \in BOOLEAN
  /\ number = [s \in Sockets |-> 0] /\ owns = [s \in Sockets |-> FALSE]
  /\ open = {} /\ places = [d \in Descriptors |-> NoPeer]
  /\ born = {} /\ deleted = {} /\ arriving = Cardinality(Connections) /\ hungUp = {}
  /\ accepting = "out" /\ serving = 0 /\ stray = FALSE

-----------------------------------------------------------------------------
(* cHostSocket.                                                            *)

\* cHostSocket::operator = (sock): a number the object has already is not taken over.
TakeNumber(s, d) ==
  number' = [number EXCEPT ![s] = d] /\ owns' = [owns EXCEPT ![s] = @ \/ number[s] # d]

\* Fault: the object that was copied goes on owning the number.
CopyShared(from, to) ==
  /\ number' = [number EXCEPT ![to] = number[from]]
  /\ owns' = [owns EXCEPT ![to] = owns[from]]

\* The copy constructor takes the number over.
CopyFrom(from, to) ==
  /\ number' = [number EXCEPT ![to] = number[from]]
  /\ owns' = [owns EXCEPT ![to] = owns[from], ![from] = FALSE]

\* The destructor: doClose, of an object that owns its number.
Destroy(s) ==
  /\ number' = [number EXCEPT ![s] = 0]
  /\ owns' = [owns EXCEPT ![s] = FALSE]
  /\ open' = IF owns[s] THEN open \ {number[s]} ELSE open
  /\ hungUp' = IF owns[s] THEN hungUp \ {number[s]} ELSE hungUp

Wild(s) == owns[s] /\ number[s] \notin open

-----------------------------------------------------------------------------
(* The listening peer.                                                     *)

\* The constructor and start_server; without a free number it throws.
StartServer ==
  /\ accepting = "out" /\ Free # {}
  /\ TakeNumber(Listener, Min(Free)) /\ open' = open \cup {Min(Free)}
  /\ accepting' = "polling"
  /\ UNCHANGED <<sameLoop, places, born, deleted, arriving, hungUp, serving, stray>>

\* A server in the loop of its connections holds the mutex of that loop meanwhile.
Locked == serving # 0 \/ (sameLoop /\ accepting \notin {"out", "polling", "stopped"})

\* handle_read: accept gives new_peer a number; without a free one it fails.
Accept ==
  /\ accepting = "polling" /\ arriving > 0 /\ Free # {}
  /\ sameLoop => ~Locked
  /\ TakeNumber(Local, Min(Free)) /\ open' = open \cup {Min(Free)}
  /\ arriving' = arriving - 1
  /\ accepting' = "accepted"
  /\ UNCHANGED <<sameLoop, places, born, deleted, hungUp, serving, stray>>

\* handle_new_connection: a peer that is a client.
HandleNewConnection(p) ==
  /\ accepting = "accepted" /\ p \notin born
  /\ CopyFrom(Local, p)
  /\ born' = born \cup {p}
  /\ accepting' = p
  /\ UNCHANGED <<sameLoop, open, places, deleted, arriving, hungUp, serving, stray>>

\* event_loop::add, which locks descriptors_list_mutex.
Add(p) ==
  /\ accepting = p /\ ~Locked
  /\ places' = [places EXCEPT ![number[p]] = p]
  /\ accepting' = "added"
  /\ UNCHANGED <<sameLoop, number, owns, open, born, deleted, arriving, hungUp, serving, stray>>

\* The end of handle_read: new_peer is destroyed.
Return ==
  /\ accepting = "added"
  /\ Destroy(Local) /\ stray' = (stray \/ Wild(Local))
  /\ accepting' = "polling"
  /\ UNCHANGED <<sameLoop, places, born, deleted, arriving, serving>>

\* The server is removed from its loop and destroyed.
Stop ==
  /\ accepting = "polling"
  /\ Destroy(Listener) /\ stray' = (stray \/ Wild(Listener))
  /\ accepting' = "stopped"
  /\ UNCHANGED <<sameLoop, places, born, deleted, arriving, serving>>

-----------------------------------------------------------------------------
(* The loop of the connections.                                            *)

HangUp(d) ==
  /\ d \in open \ hungUp /\ places[d] \notin deleted \cup {NoPeer}
  /\ hungUp' = hungUp \cup {d}
  /\ UNCHANGED <<sameLoop, number, owns, open, places, born, deleted, arriving, accepting,
                 serving, stray>>

\* event_loop::remove_descriptor, under the mutex: a peer that is a client is deleted ...
DeletePeer(d) ==
  /\ serving = 0 /\ ~Locked /\ d \in hungUp /\ places[d] # NoPeer
  /\ Destroy(places[d]) /\ stray' = (stray \/ Wild(places[d]))
  /\ deleted' = deleted \cup {places[d]}
  /\ serving' = d
  /\ UNCHANGED <<sameLoop, places, born, arriving, accepting>>

\* Fault: the mutex is not unlocked.
ClearPlaceLocked ==
  /\ serving # 0
  /\ stray' = TRUE
  /\ UNCHANGED <<sameLoop, number, owns, open, places, born, deleted, arriving, hungUp,
                 accepting, serving>>

\* ... and, deleted, asked for its descriptor once more, to find the place to clear.
\* doClose has made that -1: what is cleared is in front of the list, and the place goes
\* on naming the peer.  The properties about places claim nothing afterwards; that the
\* loops themselves go on is taken for granted.
ClearPlace ==
  /\ serving # 0
  /\ serving' = 0 /\ stray' = TRUE
  /\ UNCHANGED <<sameLoop, number, owns, open, places, born, deleted, arriving, hungUp,
                 accepting>>

-----------------------------------------------------------------------------
Serve ==
  \/ Accept \/ (\E p \in Connections : HandleNewConnection(p) \/ Add(p)) \/ Return

Next ==
  \/ StartServer \/ Serve \/ Stop
  \/ \E d \in Descriptors : HangUp(d) \/ DeletePeer(d)
  \/ ClearPlace

Spec == Init /\ [][Next]_peerVars

\* Both threads run, and the mutex is not kept from the server for ever.
Fairness ==
  /\ SF_peerVars(Serve)
  /\ \A d \in Descriptors : WF_peerVars(DeletePeer(d))
  /\ WF_peerVars(ClearPlace)

FairSpec == Spec /\ Fairness

-----------------------------------------------------------------------------
\* Every open descriptor has one owner and every owner an open descriptor, however
\* sockets are passed on and numbers come again (cHostSocket).
OneOwner ==
  /\ \A d \in open : Cardinality({s \in Sockets : owns[s] /\ number[s] = d}) = 1
  /\ \A s \in Sockets : owns[s] => number[s] \in open

\* A connection that is registered exists and is the one its place is for; one that
\* exists is registered, or about to be (tcp_peer::handle_read, remove_descriptor).
Registered ==
  /\ \A d \in Descriptors :
       places[d] # NoPeer /\ serving # d =>
         places[d] \notin deleted /\ owns[places[d]] /\ number[places[d]] = d
  /\ \A p \in born \ deleted : accepting # p => places[number[p]] = p

PeersKept == stray \/ (OneOwner /\ Registered)

\* A server that is not in the loop of its connections goes on accepting.
ConnectionsServed == ~sameLoop => (accepting \in Connections) ~> (accepting = "polling")

\* "lock free versions for cases when you need to call it from the 'handle_events'"
\* (eveloop.h:91): so does one that is.
AlwaysServed == (accepting \in Connections) ~> (accepting = "polling")

PeersServed == []PeersKept /\ ConnectionsServed
=============================================================================
