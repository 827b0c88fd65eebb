--------------------------- MODULE SimpleMessages ---------------------------
(***************************************************************************)
(* SimpleNetPoint::server (crs/simplenetpoint.cpp): messages of any length *)
(* on a stream, each as its size and then its contents, which both sides   *)
(* move on in parts whenever their net point finds the socket ready.  A    *)
(* message that is sent wakes the loop of its connection up through a pipe *)
(* (posixNetPoint::postRestart), which only the end that has connected has.*)
(***************************************************************************)
EXTENDS Naturals, Sequences, SequencesExt

CONSTANTS Letters,     \* the messages, each sent once
          Long,        \* those with two bytes; others have one
          Empty        \* those without contents

VARIABLES
  side,                \* the end that sends: "client" has connected, "accepted" was accepted
  posting,             \* calls of sendMessage () that have not looked at postRestartFlag yet
  restart,             \* "down", "up": postRestartFlag, "written": and the pipe has the string
  polling,             \* the loop is "building" its list, polls for "in"put, or also for "out"put
  outbox,              \* _outbox
  outContents,         \* _outContents
  outNeeded,           \* _outNeeded
  outNextByte,         \* _outNextByte, as a place in the size or in the contents
  outBytesRest,        \* _outBytesRest
  bytes,               \* what is on its way
  inMessage,           \* _inMessage: the message its size announces, and what has come of it
  inContents,          \* _inContents
  inBytesRest,         \* _inBytesRest
  inbox,               \* _inbox
  closed,              \* receive () has thrown end_of_file
  sentLetters, gotLetters   \* history: what sendMessage took, and recvMessage returned

outLetterVars == <<outbox, outContents, outNeeded, outNextByte, outBytesRest>>
inLetterVars == <<inMessage, inContents, inBytesRest, inbox, closed>>
loopVars == <<side, posting, restart, polling>>
letterVars == <<loopVars, outLetterVars, inLetterVars, bytes, sentLetters, gotLetters>>

SizeOfSize == 2
Size(m) == IF m \in Empty THEN 0 ELSE IF m \in Long THEN 2 ELSE 1
NoLetter == [of |-> <<>>, got |-> <<>>]

Init ==
  /\ side \in {"client", "accepted"}
  /\ posting = 0 /\ restart = "down" /\ polling = "building"
  /\ outbox = <<>> /\ outContents = TRUE /\ outNeeded = FALSE
  /\ outNextByte = 0 /\ outBytesRest = 0
  /\ bytes = <<>>
  /\ inMessage = NoLetter /\ inContents = FALSE /\ inBytesRest = SizeOfSize
  /\ inbox = <<>> /\ closed = FALSE
  /\ sentLetters = <<>> /\ gotLetters = <<>>

\* The message is in the outbox; postRestart () comes next, without the mutex.
SendMessage(m) ==
  /\ ~Contains(sentLetters, m)
  /\ outbox' = Append(outbox, m) /\ sentLetters' = Append(sentLetters, m)
  /\ posting' = posting + 1
  /\ UNCHANGED <<side, restart, polling, outContents, outNeeded, outNextByte, outBytesRest,
                 bytes, inLetterVars, gotLetters>>

\* A restart that is on its way is enough.
PostRestart ==
  /\ posting > 0 /\ posting' = posting - 1
  /\ restart' = IF restart = "down" THEN "up" ELSE restart
  /\ UNCHANGED <<side, polling, outLetterVars, inLetterVars, bytes, sentLetters, gotLetters>>

\* The pipe of an accepted connection is -1: write () fails, sendMessage () throws, the
\* message stays in the outbox and the flag up.
WriteRestart ==
  /\ restart = "up" /\ side = "client"
  /\ restart' = "written"
  /\ UNCHANGED <<side, posting, polling, outLetterVars, inLetterVars, bytes, sentLetters,
                 gotLetters>>

Want2Transmit == outbox # <<>> \/ outNeeded

BuildList ==
  /\ polling = "building"
  /\ polling' = IF Want2Transmit THEN "out" ELSE "in"
  /\ UNCHANGED <<side, posting, restart, outLetterVars, inLetterVars, bytes, sentLetters,
                 gotLetters>>

\* checkTerminate reads the string and takes the flag down.
Restarted ==
  /\ polling # "building" /\ restart = "written"
  /\ restart' = "down" /\ polling' = "building"
  /\ UNCHANGED <<side, posting, outLetterVars, inLetterVars, bytes, sentLetters, gotLetters>>

\* poll returns for something else: input, or another connection of the server.
WakeUp ==
  /\ polling # "building" /\ polling' = "building"
  /\ UNCHANGED <<side, posting, restart, outLetterVars, inLetterVars, bytes, sentLetters,
                 gotLetters>>

\* What transmit () is about: the part it goes on with, or the next one.
Part ==
  LET m == Head(outbox)
  IN  IF outBytesRest # 0
      THEN [contents |-> outContents, next |-> outNextByte, rest |-> outBytesRest]
      ELSE IF outContents THEN [contents |-> FALSE, next |-> 1, rest |-> SizeOfSize]
      ELSE [contents |-> TRUE, next |-> 1, rest |-> Size(m)]

\* n bytes are sent; after the last of the contents the message leaves the outbox.
TransmitBytes(p, n, rest) ==
  LET done == p.contents /\ rest = 0
  IN  /\ bytes' = bytes \o [i \in 1..n |-> [of |-> Head(outbox), contents |-> p.contents,
                                            place |-> p.next + i - 1]]
      /\ outContents' = p.contents
      /\ outNextByte' = p.next + n /\ outBytesRest' = rest
      /\ outbox' = IF done THEN Tail(outbox) ELSE outbox
      /\ outNeeded' = ~(done /\ Len(outbox) = 1)
      /\ polling' = "building"
      /\ UNCHANGED <<side, posting, restart, inLetterVars, sentLetters, gotLetters>>

\* Fault: a part that was begun counts as sent.
TransmitOnce ==
  /\ Want2Transmit /\ polling = "out"
  /\ \E n \in 0..Part.rest : (n = 0 <=> Part.rest = 0) /\ TransmitBytes(Part, n, 0)

\* ::send takes a part of what is left; nothing, if there is nothing.
Transmit ==
  /\ Want2Transmit /\ polling = "out"
  /\ \E n \in 0..Part.rest :
       (n = 0 <=> Part.rest = 0) /\ TransmitBytes(Part, n, Part.rest - n)

\* ::recv gets n bytes.
Receive ==
  /\ bytes # <<>> /\ ~closed /\ inBytesRest # 0
  /\ \E n \in 1..Len(bytes) :
       /\ n <= inBytesRest
       /\ bytes' = SubSeq(bytes, n + 1, Len(bytes))
       /\ LET got == inMessage.got \o SubSeq(bytes, 1, n)
              all == n = inBytesRest
              m == got[1].of
          IN  IF ~all
              THEN inMessage' = [inMessage EXCEPT !.got = got] /\ inBytesRest' = inBytesRest - n
                   /\ UNCHANGED <<inContents, inbox>>
              ELSE IF inContents
              THEN /\ inbox' = Append(inbox, got)
                   /\ inMessage' = NoLetter
                   /\ inContents' = FALSE /\ inBytesRest' = SizeOfSize
              ELSE /\ inMessage' = [of |-> m, got |-> <<>>]
                   /\ inContents' = (Size(m) # 0) /\ inBytesRest' = Size(m)
                   /\ UNCHANGED inbox
  /\ UNCHANGED <<loopVars, outLetterVars, closed, sentLetters, gotLetters>>

\* After the size of an empty message nothing is asked for, and nothing is what a
\* closed connection gives.
ReceiveNothing ==
  /\ inBytesRest = 0 /\ ~closed
  /\ closed' = TRUE
  /\ UNCHANGED <<loopVars, outLetterVars, inMessage, inContents, inBytesRest, inbox, bytes,
                 sentLetters, gotLetters>>

RecvMessage ==
  /\ inbox # <<>>
  /\ gotLetters' = Append(gotLetters, Head(inbox)) /\ inbox' = Tail(inbox)
  /\ UNCHANGED <<loopVars, outLetterVars, inMessage, inContents, inBytesRest, closed, bytes,
                 sentLetters>>

Next ==
  \/ \E m \in Letters : SendMessage(m)
  \/ PostRestart \/ WriteRestart \/ BuildList \/ Restarted \/ WakeUp
  \/ Transmit \/ RecvMessage
  \/ IF inBytesRest = 0 THEN ReceiveNothing ELSE Receive

Spec == Init /\ [][Next]_letterVars

\* sendMessage () goes on, the loops run, and a socket that is polled for output has room
\* again and again.  Nothing else has to wake the sender's loop up.
Sender == PostRestart \/ WriteRestart
Loop == BuildList \/ Restarted
Fairness ==
  /\ WF_letterVars(Sender) /\ WF_letterVars(Loop)
  /\ SF_letterVars(Transmit) /\ WF_letterVars(Receive)
FairSpec == Spec /\ Fairness

-----------------------------------------------------------------------------
\* The messages that were put together, in order: one is known by its bytes.
Received ==
  LET all == gotLetters \o inbox
      Whole(m) == [i \in 1..Size(m) |-> [of |-> m, contents |-> TRUE, place |-> i]]
  IN  [i \in DOMAIN all |-> IF all[i] = Whole(all[i][1].of) THEN all[i][1].of ELSE <<>>]

\* The messages of one side reach the other whole, once and in order, however the
\* stream is cut (transmit, receive): they implement a packet channel.
Abstract == INSTANCE PacketChannel WITH
  Packets <- Letters, accepted <- sentLetters, delivered <- Received
ImplementsMessageChannel == Abstract!Spec

\* Every message of the end that has connected gets there; one of an accepted connection
\* does if the loop looks for it, which it does when something else has woken it up.
MessagesArrive ==
  \A m \in Letters :
    Contains(sentLetters, m) /\ (side = "client" \/ polling # "in") ~> Contains(Received, m)

MessagesServed == ImplementsMessageChannel /\ MessagesArrive

\* It does not hold without that condition: nothing wakes the loop of an accepted
\* connection up.
AllMessagesArrive == \A m \in Letters : Contains(sentLetters, m) ~> Contains(Received, m)
=============================================================================
