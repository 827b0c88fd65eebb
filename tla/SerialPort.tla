----------------------------- MODULE SerialPort -----------------------------
(***************************************************************************)
(* sc::basicRS232port and sc::posixRS232port (crs/sc/): the session of a   *)
(* port whose settings are saved and restored, the bytes that users write  *)
(* directly or leave in outBuf for the event loop, and the text that is    *)
(* cut out of what arrives.                                                *)
(***************************************************************************)
EXTENDS Naturals, Sequences, SequencesExt, FiniteSets

CONSTANTS
  Messages,       \* what is sent, each once and by a thread of its own
  MessageSize,    \* its bytes
  BufSize,        \* inBufSize: the size of both buffers
  MaxInput,       \* bound: the characters that arrive in a session
  MaxSessions     \* bound: calls of open ()

VARIABLES
  connected,      \* m_bConnected
  options,        \* the settings of the device: "original" or "raw"
  saved,          \* m_portOptions
  handles,        \* how many descriptors of the device are open
  sessions,       \* history: the calls of open ()
  outBuf,         \* [outBuf, outBufPtr)
  flushing,       \* where handle_write is: "out" or "writing"
  endPtr, runPtr, \* its local variables, counted from outBuf
  stage, rest,    \* where the sender of each message is, and what write () has left of it
  accepted,       \* history: the bytes that were taken over from the senders
  posted,         \* history: the messages that went through outBuf whole, in order
  wire,           \* history: what was written to the device
  dropped,        \* history: the bytes handle_write gave up because the device was full
  inBuf,          \* [_inBuf, _inBufPtr)
  strInBuf,       \* _strInBuf
  taken,          \* history: what getString () has returned in this session
  received,       \* history: what was read in this session
  mixed,          \* history: memcpy has mixed up what was read in this session
  spinning        \* handle_read never returns

sessionVars == <<connected, options, saved, handles, sessions>>
outputVars == <<outBuf, flushing, endPtr, runPtr, stage, rest, accepted, posted, wire,
                dropped>>
inputVars == <<inBuf, strInBuf, taken, received, mixed, spinning>>
portVars == <<sessionVars, outputVars, inputVars>>

Init ==
  /\ connected = FALSE
  /\ options = "original" /\ saved = "original" /\ handles = 0 /\ sessions = 0
  /\ outBuf = <<>> /\ flushing = "out" /\ endPtr = 0 /\ runPtr = 0
  /\ stage = [m \in Messages |-> "new"] /\ rest = [m \in Messages |-> <<>>]
  /\ accepted = {} /\ posted = <<>> /\ wire = <<>> /\ dropped = {}
  /\ inBuf = <<>> /\ strInBuf = <<>> /\ taken = <<>> /\ received = <<>>
  /\ mixed = FALSE /\ spinning = FALSE

-----------------------------------------------------------------------------
(* The session.  The port is opened and closed while nobody else uses it.  *)

Quiet == flushing = "out" /\ ~spinning /\ \A m \in Messages : stage[m] # "writing"

\* A port that cannot be set up is closed again.  The speed and the other settings are
\* left out, but that they may be refused; so is a call in which close () throws, which
\* changes nothing else.
OpenWith(was) ==
  /\ Quiet /\ sessions < MaxSessions
  /\ sessions' = sessions + 1
  /\ \/ /\ connected' = TRUE
        /\ saved' = was.options /\ options' = "raw" /\ handles' = was.handles + 1
        /\ inBuf' = <<>> /\ strInBuf' = <<>> /\ taken' = <<>> /\ received' = <<>>
        /\ mixed' = FALSE /\ UNCHANGED spinning
     \/ /\ connected' = FALSE
        /\ options' = was.options /\ handles' = was.handles
        /\ saved' \in {saved, was.options}
        /\ UNCHANGED inputVars
  /\ UNCHANGED outputVars

\* Fault: the port is opened on top of a session.
OpenAgain == OpenWith([options |-> options, handles |-> handles])

\* open (port, baud), and open (stream), which ends with it: a port that is connected
\* is closed first.
Open ==
  OpenWith([options |-> IF connected THEN saved ELSE options,
            handles |-> IF connected THEN handles - 1 ELSE handles])

\* A device that refuses its old settings stays connected.
Close ==
  /\ connected /\ Quiet
  /\ connected' = FALSE /\ options' = saved /\ handles' = handles - 1
  /\ UNCHANGED <<saved, sessions, outputVars, inputVars>>

-----------------------------------------------------------------------------
(* Output.                                                                 *)

Bytes(m) == [i \in 1..MessageSize |-> <<m, i>>]
HasRoom(bytes) == BufSize - Len(outBuf) >= Len(bytes)
LoopVars == <<flushing, endPtr, runPtr>>

Post(m) ==
  /\ connected /\ stage[m] = "new"
  /\ IF HasRoom(Bytes(m))
     THEN /\ outBuf' = outBuf \o Bytes(m)
          /\ stage' = [stage EXCEPT ![m] = "sent"]
          /\ accepted' = accepted \cup ToSet(Bytes(m))
          /\ posted' = Append(posted, m)
     ELSE /\ stage' = [stage EXCEPT ![m] = "refused"]
          /\ UNCHANGED <<outBuf, accepted, posted>>
  /\ UNCHANGED <<sessionVars, LoopVars, rest, wire, dropped, inputVars>>

Write(m) ==
  /\ connected /\ stage[m] = "new"
  /\ stage' = [stage EXCEPT ![m] = "writing"]
  /\ rest' = [rest EXCEPT ![m] = Bytes(m)]
  /\ accepted' = accepted \cup ToSet(Bytes(m))
  /\ UNCHANGED <<sessionVars, outBuf, LoopVars, posted, wire, dropped, inputVars>>

\* ::write takes a part.
WriteSome(m) ==
  /\ stage[m] = "writing"
  /\ \E n \in 1..Len(rest[m]) :
       /\ wire' = wire \o SubSeq(rest[m], 1, n)
       /\ rest' = [rest EXCEPT ![m] = SubSeq(@, n + 1, Len(@))]
       /\ stage' = [stage EXCEPT ![m] = IF n = Len(rest[m]) THEN "sent" ELSE @]
  /\ UNCHANGED <<sessionVars, outBuf, LoopVars, accepted, posted, dropped, inputVars>>

\* EAGAIN: the rest is posted, or the write fails.
WriteLater(m) ==
  /\ stage[m] = "writing"
  /\ rest' = [rest EXCEPT ![m] = <<>>]
  /\ IF HasRoom(rest[m])
     THEN /\ outBuf' = outBuf \o rest[m]
          /\ stage' = [stage EXCEPT ![m] = "sent"]
          /\ UNCHANGED accepted
     ELSE /\ stage' = [stage EXCEPT ![m] = "refused"]
          /\ accepted' = accepted \ ToSet(rest[m])
          /\ UNCHANGED outBuf
  /\ UNCHANGED <<sessionVars, LoopVars, posted, wire, dropped, inputVars>>

\* handle_write, which the loop calls when want2write () said so, reads the pointers
\* under outBufMutex ...
HandleWrite ==
  /\ connected /\ flushing = "out" /\ ~spinning /\ outBuf # <<>>
  /\ flushing' = "writing" /\ endPtr' = Len(outBuf) /\ runPtr' = 0
  /\ UNCHANGED <<sessionVars, outBuf, stage, rest, accepted, posted, wire, dropped,
                 inputVars>>

\* ... writes without it ...
FlushSome ==
  /\ flushing = "writing" /\ runPtr < endPtr
  /\ \E n \in 1..endPtr - runPtr :
       wire' = wire \o SubSeq(outBuf, runPtr + 1, runPtr + n) /\ runPtr' = runPtr + n
  /\ UNCHANGED <<sessionVars, outBuf, flushing, endPtr, stage, rest, accepted, posted,
                 dropped, inputVars>>

\* ... and when all is written, or the device takes no more (EAGAIN), keeps, under it
\* again, what was posted in the meantime, and only that.
EndFlushWith(kept) ==
  /\ flushing = "writing"
  /\ outBuf' = kept
  /\ dropped' = dropped \cup ToSet(SubSeq(outBuf, runPtr + 1, endPtr))
  /\ flushing' = "out" /\ endPtr' = 0 /\ runPtr' = 0
  /\ UNCHANGED <<sessionVars, stage, rest, accepted, posted, wire, inputVars>>

\* Fault: what was posted in the meantime is dropped.
EndFlushEmpty == EndFlushWith(<<>>)

EndFlush == EndFlushWith(SubSeq(outBuf, endPtr + 1, Len(outBuf)))

-----------------------------------------------------------------------------
(* Input: delimiters, and other characters, which are told apart by their  *)
(* place in what was received.                                             *)

Delim == 0

\* compileResponse: the text in front of the first delimiter, and what follows the
\* delimiters after it.  One line at most is taken out, and no more is looked for.
\* strpbrk may search on behind what was received; what it finds there does not count.
FirstDelim(s) == SelectInSeq(s, LAMBDA c : c = Delim)
AfterDelim(s) ==
  SelectInSubSeq(s, FirstDelim(s), Len(s), LAMBDA c : c # Delim)
CompileResponse(s) ==
  IF FirstDelim(s) = 0 THEN [line |-> <<>>, left |-> s]
  ELSE [line |-> SubSeq(s, 1, FirstDelim(s) - 1),
        left |-> IF AfterDelim(s) = 0 THEN <<>> ELSE SubSeq(s, AfterDelim(s), Len(s))]

\* memcpy moves the last n characters of s to its front (processIncomingBytes).  Where
\* the ranges overlap that is undefined: copied from the back, the last Len(s) - n
\* characters come again and again.
Moved(s, n) ==
  LET k == Len(s) - n
      fromTheBack == [i \in 1..n |-> s[i + k * ((Len(s) - i) \div k)]]
  IN  {SubSeq(s, k + 1, Len(s))} \cup IF k > 0 THEN {fromTheBack} ELSE {}

\* What can arrive next, n characters.
Chunks(n) ==
  {[i \in 1..n |-> IF i \in T THEN Len(received) + i ELSE Delim] : T \in SUBSET (1..n)}

HandleRead ==
  /\ connected /\ flushing = "out" /\ ~spinning
  /\ LET room == BufSize - Len(inBuf)
         coming == MaxInput - Len(received)
     IN  IF room = 0
         THEN \* ::read of no bytes returns 0
              spinning' = TRUE /\ UNCHANGED <<inBuf, strInBuf, received, mixed>>
         ELSE \E n \in 1..(IF room < coming THEN room ELSE coming) :
              \E chunk \in Chunks(n) :
                LET compiled == CompileResponse(inBuf \o chunk)
                IN  /\ received' = received \o chunk
                    /\ strInBuf' = strInBuf \o compiled.line
                    /\ inBuf' \in Moved(inBuf \o chunk, Len(compiled.left))
                    /\ mixed' = (mixed \/ inBuf' # compiled.left)
                    /\ UNCHANGED spinning
  /\ UNCHANGED <<sessionVars, outputVars, taken>>

GetString ==
  /\ strInBuf # <<>>
  /\ taken' = taken \o strInBuf /\ strInBuf' = <<>>
  /\ UNCHANGED <<sessionVars, outputVars, inBuf, received, mixed, spinning>>

-----------------------------------------------------------------------------
Next ==
  \/ Open \/ Close
  \/ \E m \in Messages : Post(m) \/ Write(m) \/ WriteSome(m) \/ WriteLater(m)
  \/ HandleWrite \/ FlushSome \/ EndFlush
  \/ HandleRead \/ GetString

Spec == Init /\ [][Next]_portVars

\* "preserve original port options" and "restore original port options"
\* (UpdateConnection, close): a port that is not connected has its own settings and no
\* open descriptor, a connected one has one.
SettingsRestored ==
  IF connected THEN handles = 1 /\ saved = "original" ELSE handles = 0 /\ options = "original"

\* What was taken over is on the wire, or still to be written, once, or was given up by a
\* handle_write that the device stopped; what went through outBuf is written in the
\* order in which it was posted (post, write, handle_write).
Pending == IF flushing = "out" THEN outBuf ELSE SubSeq(outBuf, runPtr + 1, Len(outBuf))
Earlier(b, c) ==
  \/ b[1] = c[1] /\ b[2] < c[2]
  \/ \E i, j \in DOMAIN posted : i < j /\ posted[i] = b[1] /\ posted[j] = c[1]
NothingLost ==
  LET sent == wire \o Pending
      unsent == UNION {ToSet(rest[m]) : m \in Messages}
  IN  /\ IsInjective(sent) /\ ToSet(sent) \cup unsent \cup dropped = accepted
      /\ \A m \in Messages : IsInjective(rest[m]) /\ \A b \in ToSet(rest[m]) : b[1] = m
      /\ ToSet(sent) \cap unsent = {} /\ dropped \cap (ToSet(sent) \cup unsent) = {}
      /\ \A i \in DOMAIN posted : ToSet(Bytes(posted[i])) \subseteq ToSet(sent) \cup dropped
      /\ \A i, j \in DOMAIN sent :
           i < j /\ {sent[i][1], sent[j][1]} \subseteq ToSet(posted) => Earlier(sent[i], sent[j])

\* What getString () has returned or will return, and what waits for its delimiter, is
\* the text that was read: all of it, once and in order, which are the places where it
\* was received, unless memcpy has mixed it up (compileResponse, processIncomingBytes).
TextInOrder ==
  LET text == taken \o strInBuf \o inBuf
  IN  ~mixed =>
        /\ Delim \notin ToSet(taken \o strInBuf)
        /\ ToSet(text) \ {Delim} = ToSet(received) \ {Delim}
        /\ \A i, j \in DOMAIN text :
             i < j /\ Delim \notin {text[i], text[j]} => text[i] < text[j]

PortKeeps == SettingsRestored /\ NothingLost /\ TextInOrder

\* Neither of these holds: handle_write says that nothing waits when the device took only
\* a part, and a line in front of a longer rest makes the ranges of memcpy overlap.
NothingDropped == dropped = {}
NothingMixed == ~mixed
=============================================================================
