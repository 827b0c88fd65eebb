------------------------------ MODULE NetPoint ------------------------------
(***************************************************************************)
(* CrossClass::basicNetPoint and posixNetPoint (crs/bits/): the loop of    *)
(* the thread that calls serverSendRecv () or clientSendRecv () until it   *)
(* returns false, users that queue output on a connection and wake the     *)
(* loop up with postRestart (), and postTerminate ().  The control channel *)
(* carries two strings of two characters, and what was read of it waits in *)
(* a buffer until it is one of them.                                       *)
(***************************************************************************)
EXTENDS Naturals, Sequences, SequencesExt, FiniteSets

CONSTANTS Peers,        \* the connections of a server
          Self,         \* the connection of a client
          Null,
          PipeRoom,     \* sizeof (pipeInBuf) - 1
          Feeders,      \* users that queue output
          Apart,        \* TRUE: the loop is terminated while nothing else is in the pipe
          MaxTerminates,\* bound: calls of postTerminate ()
          MaxFeeds      \* bound: output queued by each user

VARIABLES
  mode,           \* "server" or "client"
  clients,        \* _clientList
  fds,            \* the connections that are polled, in the order of fds
  polledOut,      \* those polled for POLLOUT
  revents,        \* those with something to handle: an index into fds, and what it is
  coming,         \* connections that were not accepted yet
  deleted,        \* history: the connections that were deleted
  hungUp,         \* connections the other side has closed
  wants,          \* connections with want2transmit ()
  control,        \* the characters in the pipe
  pipeInBuf,      \* the characters in pipeInBuf
  restartFlag,    \* postRestartFlag
  at,             \* where the loop is
  feeder,         \* where each user is
  feeds,          \* history: how often each user has queued output
  terminates      \* history: the number of calls of postTerminate ()

listVars == <<clients, fds, polledOut, revents, coming, deleted, hungUp>>
pipeVars == <<control, pipeInBuf, restartFlag>>
userVars == <<feeder, feeds, terminates>>
netVars == <<mode, listVars, wants, pipeVars, at, userVars>>

termString == <<"^", "X">>
restartString == <<"^", "R">>

Init ==
  /\ mode \in {"server", "client"}
  /\ clients = <<>> /\ fds = <<>> /\ polledOut = {} /\ revents = {}
  /\ coming = (IF mode = "server" THEN Peers ELSE {})
  /\ deleted = {} /\ hungUp = {} /\ wants = {}
  /\ control = <<>> /\ pipeInBuf = <<>> /\ restartFlag = FALSE
  /\ at = "building"
  /\ feeder = [u \in Feeders |-> "out"] /\ feeds = [u \in Feeders |-> 0] /\ terminates = 0

-----------------------------------------------------------------------------
(* The list of connections.                                                *)

\* Fault: the connection that fills a gap is not looked at.
CompactOnce(s) ==
  FoldLeft(LAMBDA t, i : IF i <= Len(t) /\ t[i] = Null THEN Front([t EXCEPT ![i] = Last(t)])
                         ELSE t, s, [i \in DOMAIN s |-> i])

\* The last connection fills the first gap that deleted ones have left, and so on.
Compact(s) ==
  LET live == {i \in DOMAIN s : s[i] # Null}
      gaps(i) == Cardinality(1..i \ live)
      filler(i) == CHOOSE q \in live : Cardinality({j \in live : j >= q}) = gaps(i)
  IN  [i \in 1..Cardinality(live) |-> s[IF i \in live THEN i ELSE filler(i)]]

BuildSelectList ==
  /\ at = "building"
  /\ clients' = Compact(clients)
  /\ fds' = IF mode = "client" THEN <<Self>> ELSE clients'
  /\ polledOut' = ToSet(fds') \cap wants
  /\ at' = "polling"
  /\ UNCHANGED <<mode, revents, coming, deleted, hungUp, wants, pipeVars, userVars>>

AddClient ==
  /\ at = "accepting" /\ mode = "server"
  /\ \/ \E c \in coming : clients' = Append(clients, c) /\ coming' = coming \ {c}
     \/ coming = {} /\ UNCHANGED <<clients, coming>>
  /\ at' = "handling"
  /\ UNCHANGED <<mode, fds, polledOut, revents, deleted, hungUp, wants, pipeVars, userVars>>

\* A client has nothing to accept.
SkipAccept ==
  /\ at = "accepting" /\ mode = "client"
  /\ at' = "handling"
  /\ UNCHANGED <<mode, listVars, wants, pipeVars, userVars>>

RemoveClient(i) ==
  /\ deleted' = deleted \cup {clients[i]}
  /\ clients' = [clients EXCEPT ![i] = Null]

-----------------------------------------------------------------------------
(* The loop.                                                               *)

\* poll () returns when anything is ready; a socket that is polled for output has room.
Poll ==
  /\ at = "polling"
  /\ control # <<>> \/ coming # {} \/ (\E c \in ToSet(fds) : c \in hungUp \cup polledOut)
  /\ revents' = {<<i, "hup">> : i \in {j \in DOMAIN fds : fds[j] \in hungUp}}
                \cup {<<i, "out">> : i \in {j \in DOMAIN fds : fds[j] \in polledOut}}
  /\ at' = IF control # <<>> THEN "reading" ELSE "accepting"
  /\ UNCHANGED <<mode, clients, fds, polledOut, coming, deleted, hungUp, wants, pipeVars,
                 userVars>>

\* The buffer must hold one command, and nothing else, to be understood; a full one is
\* emptied the next time.
CheckTerminate ==
  /\ at = "reading"
  /\ LET room == PipeRoom - Len(pipeInBuf)
         n == IF Len(control) < room THEN Len(control) ELSE room
         buf == pipeInBuf \o SubSeq(control, 1, n)
     IN  IF room = 0
         THEN pipeInBuf' = <<>> /\ at' = "accepting" /\ UNCHANGED control
         ELSE /\ control' = SubSeq(control, n + 1, Len(control))
              /\ pipeInBuf' = IF buf \in {termString, restartString} THEN <<>> ELSE buf
              /\ at' = CASE buf = termString -> "stopped"
                         [] buf = restartString -> "restarting"
                         [] OTHER -> "accepting"
  /\ UNCHANGED <<mode, listVars, wants, restartFlag, userVars>>

\* Fault: the flag stays up.
LeaveRestartFlag ==
  /\ at = "restarting"
  /\ at' = "accepting"
  /\ UNCHANGED <<mode, listVars, wants, control, pipeInBuf, restartFlag, userVars>>

\* Under postRestartMutex.
LowerRestartFlag ==
  /\ at = "restarting"
  /\ restartFlag' = FALSE /\ at' = "accepting"
  /\ UNCHANGED <<mode, listVars, wants, control, pipeInBuf, userVars>>

\* What was polled is handled in the order of fds; a connection that was closed is
\* deleted if it is a client's, and ends the loop if it is the loop's own.
Handle(i) ==
  /\ at = "handling"
  /\ \E e \in revents : e[1] = i /\ \A f \in revents : f[1] >= i
  /\ LET closed == <<i, "hup">> \in revents
     IN  /\ wants' = IF closed /\ mode = "server" THEN wants ELSE wants \ {fds[i]}
         /\ IF closed /\ mode = "server" THEN RemoveClient(i) ELSE UNCHANGED <<clients, deleted>>
         /\ at' = IF closed /\ mode = "client" THEN "stopped" ELSE at
  /\ revents' = {e \in revents : e[1] # i}
  /\ UNCHANGED <<mode, fds, polledOut, coming, hungUp, pipeVars, userVars>>

Return ==
  /\ at = "handling" /\ revents = {}
  /\ at' = "building"
  /\ UNCHANGED <<mode, listVars, wants, pipeVars, userVars>>

\* The destructor: disconnectAll.
Destroy ==
  /\ at = "stopped"
  /\ at' = "destroyed"
  /\ deleted' = deleted \cup (ToSet(clients) \ {Null})
  /\ clients' = [i \in DOMAIN clients |-> Null]
  /\ UNCHANGED <<mode, fds, polledOut, revents, coming, hungUp, wants, pipeVars, userVars>>

-----------------------------------------------------------------------------
(* The users.                                                              *)

Running == at \notin {"stopped", "destroyed"}
Live(c) == (mode = "client" /\ c = Self) \/ Contains(clients, c)

\* Output is queued on a connection; then postRestart () is called.
Feed(u, c) ==
  /\ Running /\ feeder[u] = "out" /\ feeds[u] < MaxFeeds /\ Live(c)
  /\ Apart => terminates = 0
  /\ wants' = wants \cup {c}
  /\ feeder' = [feeder EXCEPT ![u] = "posting"]
  /\ feeds' = [feeds EXCEPT ![u] = @ + 1]
  /\ UNCHANGED <<mode, listVars, pipeVars, at, terminates>>

\* A restart that is on its way is enough.
PostRestart(u) ==
  /\ feeder[u] = "posting"
  /\ feeder' = [feeder EXCEPT ![u] = IF restartFlag THEN "out" ELSE "writing"]
  /\ restartFlag' = TRUE
  /\ UNCHANGED <<mode, listVars, wants, control, pipeInBuf, at, feeds, terminates>>

\* Without the mutex.
WriteRestart(u) ==
  /\ feeder[u] = "writing"
  /\ control' = control \o restartString
  /\ feeder' = [feeder EXCEPT ![u] = "out"]
  /\ UNCHANGED <<mode, listVars, wants, pipeInBuf, restartFlag, at, feeds, terminates>>

PostTerminate ==
  /\ Running /\ terminates < MaxTerminates
  /\ Apart => control = <<>> /\ ~restartFlag /\ \A u \in Feeders : feeder[u] = "out"
  /\ control' = control \o termString
  /\ terminates' = terminates + 1
  /\ UNCHANGED <<mode, listVars, wants, pipeInBuf, restartFlag, at, feeder, feeds>>

HangUp(c) ==
  /\ Live(c)
  /\ hungUp' = hungUp \cup {c}
  /\ UNCHANGED <<mode, clients, fds, polledOut, revents, coming, deleted, wants, pipeVars,
                 at, userVars>>

-----------------------------------------------------------------------------
Loop ==
  \/ BuildSelectList \/ Poll \/ CheckTerminate \/ LowerRestartFlag
  \/ AddClient \/ SkipAccept \/ (\E i \in DOMAIN fds : Handle(i)) \/ Return

User(u) ==
  \/ \E c \in Peers \cup {Self} : Feed(u, c)
  \/ PostRestart(u) \/ WriteRestart(u)

Next ==
  \/ Loop \/ Destroy \/ PostTerminate
  \/ \E u \in Feeders : User(u)
  \/ \E c \in Peers \cup {Self} : HangUp(c)

Spec == Init /\ [][Next]_netVars

\* The loop's thread runs, and a call that was begun is ended.
Fairness ==
  /\ WF_netVars(Loop)
  /\ \A u \in Feeders : WF_netVars(PostRestart(u) \/ WriteRestart(u))
FairSpec == Spec /\ Fairness

-----------------------------------------------------------------------------
\* Type invariant.
TypeOK ==
  /\ mode \in {"server", "client"}
  /\ clients \in Seq(Peers \cup {Null}) /\ fds \in Seq(Peers \cup {Self, Null})
  /\ polledOut \subseteq Peers \cup {Self} /\ revents \subseteq (DOMAIN fds) \X {"hup", "out"}
  /\ coming \subseteq Peers /\ deleted \subseteq Peers
  /\ hungUp \subseteq Peers \cup {Self} /\ wants \subseteq Peers \cup {Self}
  /\ control \in Seq({"^", "R", "X"}) /\ pipeInBuf \in Seq({"^", "R", "X"})
  /\ Len(pipeInBuf) <= PipeRoom /\ restartFlag \in BOOLEAN
  /\ at \in {"building", "polling", "reading", "restarting", "accepting", "handling",
             "stopped", "destroyed"}
  /\ feeder \in [Feeders -> {"out", "posting", "writing"}]
  /\ feeds \in [Feeders -> 0..MaxFeeds] /\ terminates \in 0..MaxTerminates

\* What poll reports for the i-th descriptor is handled by the i-th connection of the
\* list, and that one still exists (clientTransmit (i - 2), removeClient (i - 2)).
HandlesPolledClient ==
  mode = "server" /\ at \notin {"building", "stopped", "destroyed"} =>
    \A i \in DOMAIN fds :
      /\ fds[i] # Null
      /\ clients[i] \in {fds[i], Null}
      /\ clients[i] = Null => \A e \in revents : e[1] # i

\* Output that was queued before a restart is transmitted, or its connection is closed,
\* or the loop is stopped (posixNetPoint::postRestart).
RestartIsServed ==
  \A c \in Peers \cup {Self} :
    (c \in wants) ~> (c \notin wants \/ c \in hungUp \/ terminates > 0 \/ ~Running)

\* "new server termination algorithm based on pipes" (posix.netpoint.h:25): a loop that
\* is terminated stops.
TerminateStops == (terminates > 0) ~> ~Running

ControlServed == RestartIsServed /\ TerminateStops
=============================================================================
