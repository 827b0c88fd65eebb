# libcrs in TLA+

Specifications, model-checking runs and proofs for *libcrs* (`crs/`), a C++
library of synchronisation primitives, threads, event loops, data-acquisition
stores, serial and network protocols and a few data structures.

Only a part of the tree is compiled by the current build (`crs/Makefile.am`:
semaphore, barrier, disjoint set, heap, interval map).  The rest is the older
`CrossClass` / `msdc` / `ude` / `sc` / `oio` code, whose headers
`condition_variable.hpp`, `atomic_flag.h`, `callback.h` and `semaphore.hpp` are no
longer there; what those classes do is taken from how the code uses them.
`oio/FileVar.h` is half way through a change of names and does not compile: its
classes are read as `iniFile.cpp` uses them.

Line numbers in this file and in the comments of the modules are those of the
source file the module's header names.

## 1. Inventory

| Component | State | Operations | What makes it hard | What makes it correct |
|---|---|---|---|---|
| `crs::semaphore` | counter, mutex, condition variable | `post`, `wait`, `wait_for`, `wait_until` | lost wake-ups, time-outs, saturation | it is a counting semaphore |
| `crs::barrier` | countdown, mutex, condition variable | `wait`, `wait_for`, `wait_until` | missed `notify_all`, repeated calls after time-outs | it is a rendezvous |
| `event_loop` (epoll) | list of descriptors, prepare list, epoll set, events array, control pipe, flags | `add`, `remove`, `restart`, `terminate`, `runOnce` | interleavings around `epoll_wait`, edge-triggered pipe, flag tested outside the lock | what is watched is listed; no descriptor is called after it was removed; termination is noticed and confirmed; output is sent |
| `cPosixThread`, `cWin32Thread` | flags (events), condition variable, the thread | `Resume`, `Stop`, `kill`, `Step` of the derived class | flags tested without the mutex, `kill` against start and end | no wake-up is lost, nothing runs in a freed object, `kill` returns |
| `msdc::ring_pool` | ring of memory and file pools, positions, semaphore, swap thread | `push`, the swap thread's `Step`, iterators, `validate`, `recent` | producer, swap thread and readers under different mutexes | the window holds the latest records in order, an iterator keeps its record |
| `msdc::cDAQCore` | links from points to field states, index of states | `field`, `acquire`, `_release`, `_fixLink` | links across pools that are given up | a state is deleted once, and not while it is indexed |
| `crs::interval_map` | `std::map` of the starts of intervals | `assign`, `operator[]` | overlaps, boundaries | it is a function of the keys, kept canonical |
| `crs::heap` | vector | `insert`, `remove`, `get` | removal in the middle | it is a priority bag |
| `crs::disjoint_set` | parents, ranks, number of groups | `make_set`, `find`, `join`, `clear` | lazily made sets, path compression | it is a partition |
| `cHandle`, `Tracer` | counts of handles; map of interval bounds, cached interval | copy, assign, bind, destroy; append, remove, erase, select | two threads, handles inside objects; stale cache | an object lives while it has handles; the cache never answers wrong |
| `tcp_peer`, sockets | descriptors owned by socket objects, places in the loop | `handle_read`, `handle_new_connection`, copy, close | numbers that are used again; locks held in handlers | a number has one owner; a connection is registered where it says; accepting goes on |
| `ude::net_peer`, packets | output packet and flag, input buffer, packet being assembled, queue | `send_packet`, `handle_write`, `handle_read`, `recv_packet` | bytes cut anywhere, buffer smaller than a packet, waits that race the next packet | two peers are a packet channel; who is told so has sent |
| `ude::device_manager`, `element_map`, `client_stub` | lists of devices, outbox, request thread; queue of a client | `register_device`, `register_request`, `deliver_response`, the request thread, the destructor; `take`, `handle_write` | detached thread against destruction; queue against direct sending | what is posted is sent; nobody uses what is gone; packets keep their order |
| `ude::client_device_manager`, `pingTool` | one packet out, one in; mark and time of a ping | `_send`, `receive`, `transmit`; `ping`, `take`, `reset` | a packet half sent; late answers | packets are whole; a ping returns its own time |
| serial ports (POSIX, Windows) | settings, buffers, events | `open`, `close`, `write`, `post`, `handle_write`, `handle_read`, `receive`, `postTerminate` | partial writes, a buffer filled meanwhile, overlapped calls against termination | settings restored, nothing lost or doubled, who terminates is not left waiting |
| `serialByte` | packet being received, inbox, waiting command | `comSection`, `synchronize`, `pop` | lost bytes, events amid replies | a caller gets its own reply |
| `posixNetPoint`, `SimpleNetPoint` | clients and poll list, control pipe; messages | `serverSendRecv`, `clientSendRecv`, `postRestart`, `postTerminate`; `sendMessage`, `transmit`, `receive` | stale indices, control strings in pieces | what poll reports is handled for whom it was reported; messages arrive whole |
| `ip_channel` | a pipe | `push`, `handle_read` | many writers, partial writes | what is pushed is called back with |
| `oio::cINIFile` | hubs and variables | `read`, `write`, `readvar`, `writevar`, `erase` | duplicates, comments, last lines | a file that is loaded and saved is the same |
| `massSpectrum`, `Interpolation` | arrays; sums | `addPoint`, `read`, smoothing, `estimateGuess`; `ipBuild`, `regressBuild`, `regressAddPoint` | reallocation, one pass for many measures, degenerate points | the one pass agrees with the functions it replaces; a fit fits |
| locks, timer, text, Windows net point, small numerics | | | | not modelled, see section 7 |

How they interact: `ring_pool` owns a `cPosixThread` (the swap thread) and a
semaphore; `cDAQCore` is a `ring_pool` with linked records; `tcp_peer` and
`ude::net_peer` are descriptors that an `event_loop` calls and that call the loop's
`add` and `restart`; `ude::server` is a `tcp_peer` that makes a client stub for each
connection and hands its packets to the device manager, whose request thread sends
them on; the client's device manager is driven by the older net point; the serial
port is a descriptor too, and the byte protocol is derived from it.

Every hazard, with its line and the properties that are about it, is in
`PROJECT.json`, and so is every disagreement between code and comment we met
(`findings`).

## 2. Modules

| Module | Models | Abstract specification | Proofs |
|---|---|---|---|
| `Semaphore` | `crs::semaphore` | `CountingSemaphore` | `ThreadingProofs` |
| `Barrier` | `crs::barrier` | `Rendezvous` | `ThreadingProofs` |
| `PosixThread`, `WinThread` | `cPosixThread`, `cWin32Thread` | | `ThreadingProofs` |
| `Threading` | one object of each of these, for model checking | | `ThreadingProofs` |
| `EventLoop` | `event_loop`, epoll variant | | `EventLoopProofs` |
| `RingPool` | `ring_pool` and its pools; INSTANCEs `PosixThread` for the swap thread | | `RingPoolProofs` |
| `NetPeer` | one direction between two `ude::net_peer` | `PacketChannel` | `ExchangeProofs` |
| `DeviceManager` | `device_manager` with its `element_map` | | `ExchangeProofs` |
| `ClientStub` | `client_stub` | | `ExchangeProofs` |
| `ClientManager` | `client_device_manager` over `ude::netPoint` | | `ExchangeProofs` |
| `PingTool` | `pingTool` | | `ExchangeProofs` |
| `Exchange` | the five above, for model checking | | |
| `NetPoint` | `basicNetPoint`, `posixNetPoint` | | `LinesProofs` |
| `SimpleMessages` | `SimpleNetPoint::server` | `PacketChannel` | `StreamProofs` |
| `IpChannel` | `posix_ip_channel` | | `StreamProofs` |
| `SerialPort`, `WinPort` | `posixRS232port`, `win32RS232port` | | `StreamProofs` |
| `SerialByte` | `serialByte` | | `LinesProofs` |
| `TcpPeer` | `tcp_peer` and its sockets | | `LinesProofs` |
| `Lines` | the seven above, for model checking | | |
| `IntervalMap` | `crs::interval_map` | `PointwiseMap` | `IntervalMapProofs` |
| `Heap` | `crs::heap` | `PriorityBag` | |
| `DisjointSet` | `crs::disjoint_set` | `Partition` | |
| `Handles`, `Tracer` | `cHandle`, `Regions::Tracer` | | `ContainersProofs` |
| `CompositeCore` | `cDAQCore` | | `ContainersProofs` |
| `PoolMetrics` | `bit_mask_calculator` | | |
| `IniFile` | `cINIFile`, `Hub`, `Var` | | |
| `Spectrum`, `Regression` | `massSpectrum` and `estimateGuess`; `line` and `parabola` | | `ContainersProofs` (`Spectrum`) |
| `Containers` | one object of each of the last eleven, for model checking | | |

In `Threading`, `Exchange`, `Lines` and `Containers` the objects share nothing, and a
behaviour works on one of them: the state spaces are explored side by side. These modules also
hold the assumptions on the constants of their objects. A property there that names a
component says in its comment which.

Conventions.  A critical section is one step: a mutex is held from its first to
its last statement, so what happens inside cannot be seen.  Atomic flags are
read and written in steps of their own.  A condition variable is the set of
threads whose place is `"asleep"`; `notify_one` moves any one of them,
`notify_all` all of them, and a spurious wake-up may move one at any time.
Operators whose comment begins with *Fault:* are not part of a specification:
each is a definition with a plausible bug in it, and TLC finds a property violated
when it takes the place of the definition that follows it.  `PROJECT.json` pairs one
with each property; the others do the same for further conjuncts of these.
A constant that is a BOOLEAN and whose comment says what it excludes (`Apart`,
`Early`, `Orderly`, `FromInside`, `Interrupts`, `Punctual`, ...) marks a way of
calling that the runs leave out because the code does not withstand it: the
property fails with the other value (section 3).

### Semaphore, Barrier

`counter` is `_counter`.  Each thread is `"idle"` / `"out"`, asleep in the
condition variable, `"awake"` (unblocked, not yet back in the mutex) or
`"expired"` (its time is over; the timed waits test the predicate once more).
`Wait` is the section from the call to the first test of the predicate,
`Recheck` and `LastCheck` are the later ones.  `calls` and `passed` in `Barrier`
are history variables.

`post (inc)` notifies one thread whatever `inc` is.  With increments of two a
unit and a sleeper may be left side by side, so `WakeupsCoverUnits` is checked
and proved for increments of at most one; the refinement holds for all.
A barrier never counts a timed-out call back: it counts calls, not threads, and
`OpensAfterCountThreads` says what that gives its users.

### PosixThread, WinThread

`at` is where the thread is in `thread_routine` and `Run`; `_wake_up` is a step
of its caller after the one that changes a flag.  `owner` is the thread that
destroys the object: the destructor of a derived class calls `kill ()`, and the
object is `"freed"` when it returns.  Objects are destroyed when no other call is
in progress.  On Windows the flags are events, which are set and reset by hand;
nothing resets the one that resumes, so a stopped thread spins instead of sleeping
(`StoppedThreadSleeps` does not hold, which costs time and breaks nothing else).

### EventLoop

The loop thread goes through the places `prepare`, `poll`, `flag`, `lock`,
`dispatch`, `notify`, `leaving`: one per critical section or shared access of
`runOnce`.  The list mutex is held throughout `dispatch`, so users' `Add` and
`Unlink` wait (`MutexFree`), but `restart` and `terminate` do not take it.
`listed` and `listSize` are `descriptors_list` with what `resize` does to it,
`watched` and `polledOut` the epoll set, `slots` the size of `events`.  The control pipe
holds kinds of bytes: `check_terminate` empties it whatever its length.  `edge`
says that it was written since epoll last reported it (it is registered
`EPOLLET`, line 190).  A dispatch of an entry that is null ends in the place `crashed`.

### RingPool, CompositeCore, PoolMetrics

In `RingPool` records are numbers, in the order they are pushed.  `Push` is
`basic_pool::push` (under no mutex: only the producer writes the current pool);
`Acquire`, `ResumeSwapper`, `WakeSwapper` and `CountRecord` are the rest of
`ring_pool::push`; `Evict`, `Notify`, `Copy`, `Exchange` and `Release` are `_swap`.  The
flags and the places of the swap thread are those of `PosixThread`, with two
users: the producer, which resumes, and the thread itself, which stops itself.
Indices are masked by powers of two; the model takes remainders, and `PoolMetrics`
checks the calculator of the masks for every pair of sizes of a five-digit word.
A reader takes an iterator from `begin` or `recent`, moves it, and lets `validate`
correct it in the call-back (`CallBack`).  A reader that calls `validate` now and
then instead can be a whole turn behind: `ValidateIsEnough` does not hold.

`CompositeCore` takes the ring as a number of saved pools and follows the field
states: the swap thread gives up the states whose links change inside the pool that
goes, then moves the link of the state that the next pool begins with.

### NetPeer, DeviceManager, ClientStub, ClientManager, PingTool

The senders of one process and its event loop share `outBuf`, `outVirtualBytes`
and `outFlag` under `_outMutex`; the calls that wait leave the mutex between
raising the flag (`SendPacket`) and waiting (`WaitForNotify`).  `HandleWrite (k)` is
one `send` that takes `k` bytes, and the end of the packet when they are the last.
The connection is the sequence of bytes written and the number of those read: TCP
loses and reorders nothing, and cuts anywhere.  `handle_read` is a step per `recv`,
per packet and per test of its loops; it runs in one thread, and only the writer
may act between its steps.  A byte is a packet and an offset, a packet is named by
the size of its contents, and a header that was never sent may say anything.
`accepted`, `told`, `taken` and `stream` are history.

The sockets of the model do not block.  `tcp_peer::set_non_block` is empty and
virtual; with a socket that blocks a second `recv` waits for bytes that come later,
which is the situation of the run `net_peer_between`.  A caller that gives up
leaves its packet to be sent: `EverythingArrives` counts it too.

`DeviceManager` has the request thread of `proceed_request_job`, users that register
devices and requests, and the destructor.  A device that leaves while a list is
walked is replaced by the last one, which the walk then misses; `deliver_response`
chooses any set of devices that ask to leave.  `Early` lets the destructor begin
before the thread has marked its start: it then does not wait for it, and
`GoneAfterThread` does not hold.

`ClientStub` treats a packet as one step of writing and has two threads: the callers of
`take` (one at a time: `deliver_response` holds the mutex of the devices, and they are the
request thread or users) and the event loop, which asks `want2write`, waits, and writes.
`take` is two steps, and the loop may act between them: `Take` finds the output busy,
`PushBack` puts the packet in the queue whatever has become of the output since.  So packets
can overtake each other, and a packet can be left in the queue with nothing that sends it.
What the code does give is `StubForwards`: no packet is lost or doubled, those that were sent
at once keep their order, so do those that were queued, and what is in the output, or behind
it in the queue, is written if the loop is not asleep without waiting for output.
`StubSendsAll` and `StubNeverStuck` say more and do not hold (section 3).

`ClientManager` sends through a net point that refuses a packet while
one is under way; `proceed_request` has taken it out of the queue by then, so that
`NothingDropped` does not hold, and `WireIsWhole` says what does.  In `PingTool` a
time is the number of the request it was read for.  A ping without a time-out waits
without a predicate and returns what it finds after any wake-up.  A packet is posted as a
handle, so a `reset ()` changes the mark of one that is not written yet, and its late answer
is then taken for a new one; and it leaves the time that was read in the packet, where a poll
that comes next takes it for a round trip.  `Orderly` excludes these two ways of calling, and
no other: answers to earlier requests may be on their way, several of them, under the mark
in use or under older ones, while new requests are made.  A poll before any ping returns
what the memory of the packet held (`Cleared = FALSE`).

### NetPoint, SimpleMessages, IpChannel

`NetPoint` has the places of the loop of `serverSendRecv`: `buildSelectList`, `poll`, the
control pipe, a new client, and one step per client that is handled. `clients` and `fds` are
the two lists that are indexed alike; the list of clients is compacted when the loop builds
its list. The control pipe carries the two strings byte by byte, as pipes with room for
`PipeRoom` do. A message of `SimpleMessages` is its size and its contents, in parts. Its
sender is either end: `postRestart` wakes the loop of the end that has connected, through the
control pipe; an accepted connection's pipe is -1, so that the first `sendMessage` throws
(after the message was put in the outbox), and later ones find the flag up and wake nobody.
Its messages wait until something else makes its loop build the list, and `MessagesArrive`
promises only these. `IpChannel` lets two threads write to a pipe with room for less than one
message.

### SerialPort, WinPort, SerialByte

`SerialPort`: `Write` puts bytes on the wire directly, and what the device does not
take into `outBuf`; `HandleWrite`, `FlushSome` and `EndFlush` are the loop's share.
`write` does not look at what waits in `outBuf`, so the order of two senders is not
kept by the code and `NothingLost` does not ask for it, but for the messages that were
posted.  When the device takes no more (`EAGAIN`) `handle_write` moves the pointers as if all
had been written: the rest is given up (`dropped`), and only what was posted meanwhile is
kept.  `NothingLost` accounts for every byte, the dropped ones included.  In the
input, `memcpy` moves the rest of the buffer to its front, also where the two overlap; what
is there afterwards is either the rest or what a copy from the back makes of it (`mixed`),
and `TextInOrder` speaks of sessions in which it was not mixed up.  `WinPort`: a
reader, a writer and a thread that terminates, with their events.  A read that fails
never sets `m_evntTerminated` and leaves `postTerminate (true)` waiting: failing
calls are left out.  `SerialByte` is told of bytes that are lost and of events in
between; with time-outs that race answers (`Punctual = FALSE`), or two callers, a
reply may be taken for that of another command, since replies carry an address and
no number.

### TcpPeer

Numbers of descriptors are handed out lowest first and used again. A socket owns a number or
has passed it on; both `tcp_peer`'s constructors set `_server_mode`, so that
`connect_to_server` always throws and is not modelled. `remove_descriptor` deletes a peer and
then asks it for its descriptor; its socket has been set to -1, so the place that is cleared
is in front of the list and the peer's own place goes on naming it. What the numbers and
places are after that is undefined behaviour (`stray`), of which nothing is claimed.
`sameLoop` says whether the listener is in the loop of its connections, in which case `add`
waits for a mutex its own thread holds: only a server with a loop of its own is shown to go
on.

### IntervalMap, Heap, DisjointSet, Handles, Tracer

Sequential structures, one action per member function that changes state.  The
recursive loops of the heap and of `find` are recursive functions.  `make_set` is
called only for a point that is in no set yet or that is a root, which is how
`find` calls it; called for another one it would split a set without counting it.
`Handles` has two threads with handles of their own to shared objects, and handles
inside objects; its steps are the counting under the spin lock and the deletions
after it.

### IniFile, Spectrum, Regression

A file is a sequence of lines, a line the head of a hub, a variable or a blank or comment.
`Sorted` is the bubble sort of `_write_contents`, stable for what has no entries.
Spectra have integer intensities, multiplied by the width of the window so that
averages are exact; `EstimateMatches` compares the one pass of `estimateGuess` with
the separate functions for the same measures.  Fits are computed in fractions.

## 3. Runs

| Run | Configuration | Shows |
|---|---|---|
| `threading` | semaphore: three callers, counter up to 3, posts of 0 and 1; barrier: three threads, count 3, two calls each; POSIX and Windows thread: two users, every way for `Step` to end, kill after the start | no lost wake-up, units reach sleepers, everybody returns, `kill` returns, nothing runs in a freed object, refinement of `CountingSemaphore` and `Rendezvous` |
| `event_loop` | two descriptors that may write, one user, one waiting and one posting terminator | termination is confirmed after the last dispatch, output is served |
| `event_loop_removing` | two descriptors, two users that add (in ascending order), push and remove, one terminator | the list, the epoll set and `events` agree |
| `event_loop_resize` | adds in any order | violated: `resize` forgets registered descriptors |
| `event_loop_stale` | a remove while events are handled | violated: dispatch through a null pointer |
| `event_loop_lost` | a remove while the loop is terminated | violated: the terminate byte is not reported again |
| `posix_thread_early` | kill before the thread has started | violated: neither terminated nor joined |
| `ring_pool` | four pools of two records, two in memory, 20 records, a reader that takes an iterator anywhere, moves it and validates it in the call-back | the window holds the latest records, the iterator keeps its record; producer and swap thread get on |
| `exchange` | two senders with and without waiting, packets of one and two blocks, a buffer of two headers; a server with two domains, three devices and three packets; a stub that takes four; five pings under four marks; three requests and two responses | packets arrive whole and in order, also those of senders that gave up, and refine `PacketChannel`; requests are sent and the destructor returns; a client's packets are whole and in order, a stub loses none and sends on; a ping returns its own time |
| `net_peer_between` | bytes arrive between two `recv` of one `handle_read` | violated: they are looked for at a stale pointer |
| `containers` | six keys and three values; heaps of seven out of four values; five points; four bounds of intervals; three objects with handles of two threads; a ring of four pools with three field states; words of five bits; files of up to three lines; two spectra of up to four points; fits of up to four points | the three refinements; what is referred to is kept, and given up once; what is computed is what was asked for |
| `lines` | two clients of a net point; two messages, one of them long, of either end of a connection; two threads at a channel; two senders in two sessions of a port, and of its Windows variant; two requests over a line that may lose a byte; three connections and as many descriptors | what is reported is handled for whom it was reported, output and termination are served, messages arrive whole and in order and bytes are accounted for, settings are restored, a caller gets its own reply, a server goes on accepting |

Properties of composed runs that begin with `[]` or are joined by `/\` in their
definition are several properties of one component: `DataKept`, for instance, is one
statement for each kind of object.  Several of the properties the modules state are
not in a run, or not with these constants, because they fail there, and
`findings` quotes what the code says instead:

| Property | Fails because |
|---|---|
| `RingPool!SwapFindsPools` with `MemPools = RootSize` | a ring of memory pools only has no file pool |
| `RingPool!ValidateIsEnough` | a position a whole turn behind looks valid |
| `CompositeCore!LinkedExists` | a state goes with the pool it begins in |
| `ClientStub!StubSendsAll`, `StubNeverStuck` | the loop empties the output while `take` is on its way to the queue, or sleeps |
| `ClientManager!NothingDropped` | a refused packet is out of the queue already |
| `PingTool!OwnRoundTrip` with `Orderly = FALSE` | a reset leaves the time in the packet, and remarks what is posted |
| `NetPoint!TerminateStops` with `Apart = FALSE` | two strings read together match neither |
| `SimpleMessages!MessagesArrive` with a message in `Empty` | nothing is asked for, and nothing means end of file |
| `SimpleMessages!AllMessagesArrive` | nothing wakes the loop of an accepted connection |
| `SerialPort!NothingDropped` | `handle_write` forgets what the device did not take |
| `SerialPort!NothingMixed` | `memcpy` of ranges that overlap |
| `IpChannel!PushedOnce` with `Interrupts = TRUE` | -1 is subtracted from the rest |
| `Handles!HandlesSafe` with `FromInside = TRUE` | the source of an assignment is deleted before it is read |
| `TcpPeer!AlwaysServed` | `add` locks a mutex its caller holds |
| `TcpPeer!Registered`, once a peer is deleted | the place to clear is asked of a socket that was closed |
| `DeviceManager!GoneAfterThread` with `Early = TRUE` | the flag that is waited for is up before the thread starts |
| `IniFile!KeepsHubs` | the last line is rolled back and not read again |
| `Spectrum!EstimatesAll` | the indices at 98 % are never set |
| `Regression!ParabolaFits` | the constant coefficient lacks a term |

Why the bounds are enough.  Three callers let one be notified, one overtake it
and one sleep, and three units exceed them.  At a barrier for three, two
sleepers may be missed by a notification, and second calls let one thread count
twice.  A loop needs two descriptors to have one handled before the other, and
one of them removed or disconnected while the other is in the batch; `events`
and the list are resized at most twice, and the proofs cover any number.  Twenty
records come round a ring of eight more than twice, so every pool has been
evicted, copied to and exchanged in every role, and an iterator can be overtaken.
The packets between peers are four and six bytes long and the buffer four: one fills
the buffer and one exceeds it, a packet is cut at every place, and half of the room,
all of it and less than a header are received.  Two senders let one take the flag
while the other is between its two sections.  Three devices in two lists let the last
one take the place of one that leaves, be skipped, and be met in another list; four
packets at a stub let one be sent, one wait, one be refused and one overtake.
Five pings under four marks let the answers to three that were given up, each of another
mark, meet a fourth and a fifth request.  A net point
of two clients loses one while the other, moved to its place, is reported; two
restarts make the second find the flag up.  A message of two parts follows one of one
part; two pushes of three bytes meet in a pipe of two.  The port's buffer holds one
message and a half, so that a post fails, succeeds, and finds the loop writing.
Three connections on three descriptors use every number again.  Six keys give
intervals that end before, at, inside and after others; a heap of seven is a full tree
of three levels, with equal values among them; five points make trees of rank two;
fourteen points turn a ring of eight while three states begin in any of its pools;
four points make the arrays of a spectrum, with room for two, grow twice, and fill its
window with both ends.

The runs that stop by design (all threads have made their calls, the loop has
ended, the records are pushed, the object is freed) do not check for deadlock; that
waiting ends is stated by the liveness properties instead.

## 4. Fairness

- `Semaphore`, `Barrier`: a thread that was unblocked gets the mutex (`Recheck`,
  `LastCheck`), because sections are short and end.  Nobody has to call anything.
- `EventLoop`: the loop thread runs while it can (`epoll_wait` blocks only when it
  has nothing to report), and a call that was begun is carried on.  A remove that
  waits for the list mutex is weakly fair only: a loop that is always in `dispatch`
  when it looks may hold it up.
- `PosixThread`, `WinThread`, `RingPool`: threads are scheduled, `Step` returns, and a
  call that was begun goes on.
- `NetPeer`: both event loops are scheduled, and the connection moves bytes.  Nobody
  has to call anything or to give up.
- `DeviceManager`: the request thread runs, and so does the owner once it is in the
  destructor.
- `ClientStub`: the loop runs, but nothing wakes it up while it is asleep; strongly, a
  socket that is polled for output becomes ready, and a packet is written to its end, now
  and then, because a peer that reads makes room again and again.
- `SimpleMessages`: a call of `sendMessage` ends, the loops run, and a socket that is polled
  for output has room again and again.  `postRestart` wakes only the loop of an end that has
  connected; nobody has to wake that of an accepted connection.
- `NetPoint`, `IpChannel`: the loop runs and a call of `postRestart` ends; strongly, each
  thread that pushes writes now and then, since a pipe that has room lets some writer in and
  the system's queue of writers is served in turn.
- `WinPort`: reader and waiting thread run; strongly, a wait that begins with the
  terminate event set returns for it, although the read it belongs to may complete
  first now and then.
- `TcpPeer`: both loops run; strongly for the server, which waits for a mutex that is
  free again and again.  A deletion of a peer ends and gives the mutex back, whatever place it
  has cleared.

`PingTool`, `ClientManager`, `SerialPort`, `SerialByte` and the data structures state
safety only: nothing in them has to happen by itself.

## 5. What is proved

For every value of the constants, by TLAPS:

- `EventLoopProofs`: `ListInv` (what is prepared, polled or counted is watched; a
  removed descriptor is in no list) gives `SlotsMatch` and type correctness;
  `ConfirmInv` follows a confirmation from the byte to the waiting thread;
  `TerminateInv` says where a terminate byte in the pipe is still to be noticed
  (assuming no `remove`: with it the run `event_loop_lost` refutes the property);
  `OrderInv` keeps the list ascending (assuming `~AnyOrder`: without it
  `event_loop_resize` refutes the property).  With both assumptions no dispatch looks
  for an entry that is not there (`NoNullDispatch`): what `epoll_wait` has reported is
  still watched when its turn comes, since only the loop itself removes descriptors,
  between two polls (`event_loop_stale` shows what happens otherwise).
- `ThreadingProofs`, of each object and of the composition that the run `threading`
  checks, whose parts behave as the modules of the objects specify:
  - Semaphore: the counter stays in range; no wake-up is lost, from
    `WakeupsCoverUnits`, which is inductive with the type invariant (assuming
    `Increments \subseteq {0, 1}`, needed as said above); the refinement of
    `CountingSemaphore`, for all increments.
  - Barrier: `BarrierInv` is inductive.  Its part `CountdownMatches` (countdown and
    calls made agree until the barrier opens) is what the refinement needs: *open* in
    the code is *enough calls* in `Rendezvous`.  From it: nobody sleeps behind the open
    barrier, nobody passes before enough threads have arrived, and the refinement.
  - POSIX thread: `WakeInv` says who still has to announce a raised flag;
    `FreedAfterRun` is inductive with the type invariant (assuming `StartedFirst`:
    without it `posix_thread_early` refutes it); `KillInv` strengthens it for threads
    that do not end by themselves.
  - Windows thread: `FreedAfterEnd`, without these assumptions.  The event that `kill`
    waits for is set by the thread's last step only.
- `RingPoolProofs`: everything the run `ring_pool` says of safety, for any number and
  size of pools, if one at least is a file pool (`MemPools < RootSize`).  The code's
  three indices, its credits and its counters all move at different moments, under
  different locks.  The invariant `RingInv` therefore counts pools straight through,
  without wrapping: `Passed` pools were filled, of which `saved` were copied to
  files, and every index is one of these numbers modulo `RootSize`.
  - `Book(saved)` ties the indices, the credits, the full pools and the steps of a copy
    in progress to the two numbers.  From it: `push` has room and `_swap` finds its pools.
  - `Contents(saved)` says which record each place of each pool holds, evicted and half
    copied pools included; `Window(saved)` says where `begin ()` and `end ()` are in
    the same counting.  Together they give `WindowReadable` and `KeepsLatest`.
  - `PoolsFit` adds the type of everything, from what the two say and the finite history.
  - `Place` says of an iterator which number it stands for.  `ReaderKeepsPlace` follows
    for readers that validate in the call-back, if the file pools hold two records at
    least (`PoolSize * (RootSize - MemPools) >= 2`).  With room for one, TLC finds the
    window empty in the call-back, where `validate` does nothing: the iterator is left on
    a record that the next push overwrites.
- `ExchangeProofs`, over the composition that the run `exchange` checks:
  - `NetPeer`: type correctness (the reader's cursors stay inside its buffer, if nothing
    arrives between two `recv`), and `TrueMeansSent`.  For the latter `SentInv` says that a
    waiting caller's packet is either on the wire or the one being sent: so a flag that
    is down when the caller looks tells it the truth, whoever lowered it.  It assumes
    that nobody waits without a time-out (`"forever" \notin Ways`): such a call tests
    nothing after it was woken, and returns true for another packet.
  - `NetPeer` implements `PacketChannel`, under both of these conditions (no wait without a
    time-out, nothing arrives between two `recv`). One `recv` may bring the end of a packet,
    several whole ones and the beginning of another, so `ChannelInv` counts bytes from the
    first one that was ever written: `off` says where each accepted packet begins. `InTurn`
    puts the bytes of each at its place, the last one's up to where `handle_write` got to;
    `Together` says that what is complete, what was copied into the packet being assembled and
    what the buffer holds continue each other without a gap. `CopyKeeps` is the heart: copying
    goes on or begins the next packet at the right byte. A packet that is complete is
    therefore the next one that was accepted (`Foremost`), which is a step of the channel;
    everything else leaves the channel alone.
  - `PingTool`: `OwnRoundTrip`.  A call that gives up leaves the tool expecting its answer,
    and `reset ()` leaves packets of an old mark on their way.  `OneLive` says that of all
    the packets on the line one at most, the latest request or its answer, can still pass
    the test of its mark, that the tool expects it, and that it carries the time of that
    request; `Awaited` says what the user finds when it looks.  Several
    answers may be late, and of any marks.  Assumed are the conditions of section 2, each of
    which TLC shows to be needed: nobody waits without a time-out (`"forever" \notin PingWays`),
    `Orderly` and `Cleared`.
  - `ClientManager`: `WireIsWhole`.  A packet that is refused while another is being sent
    is gone, so packets on the wire are not simply those posted.  `Wire (m, turn)` is a
    witness: the increasing map from the packets on the wire to their turns among those
    posted, the one that is half sent being the last.  `ReceivingInv` counts the parts
    in flight: what is in the buffer and in the connection belongs, in order, to the
    packets sent and not delivered yet.
  - `ClientStub`: `StubLosesNothing`, the safety part of `StubForwards`, without a condition:
    whichever thread calls `take`, and whatever the loop does between its two halves, each
    packet is on the socket or in one of `_outBuf`, the queue and the hands of `take`, and
    those of either kind, sent at once or queued, are there in the order of the calls
    (`StubInv`).
  - `DeviceManager`: `GoneAfterThread`, assuming `~Early`.  The flag that the destructor
    waits for is up before the thread has marked its start and after its end
    (`ThreadInv`); begun after the start, the destructor can only see the second.
- `StreamProofs`, over the composition that the run `lines` checks:
  - `SerialPort`: `PortKeeps`, for any messages, senders, buffers and sessions, whatever part
    of the output the device takes and however `memcpy` moves what overlaps. What a sender was
    told to be taken over is spread over the device, `outBuf` and the rest the sender still
    holds, and is found there as bytes in one order or another, so the proof speaks of
    sequences through three relations: what is in one (`Elements`), that nothing is in it
    twice (`Once`), and what comes before what (`Before`). `OutRight` says of the wire with
    what waits behind it that each byte that was accepted is in it once, or still with its
    sender, or was given up by `handle_write`, and that the bytes of posted messages come in
    the order of the posts; `TextRight` says of the text that was handed out, the text that
    was compiled and the rest in the buffer that they are what was received, in order, but for
    the delimiters between, unless it was mixed up. The lemmas about output and input are
    about such sequences and know nothing of the port; `PortInv` puts the variables of the
    port in their place, with their types and the settings (`SettingsRestored`).
    `NothingDropped` and `NothingMixed` do not hold (section 3).
  - `WinPort`: `WinPortOrderly`, for any sessions.  The event that `postTerminate (true)` waits
    for is set by the reader's last step only, and reset by the next `open` (`WinPortInv`), so
    that a wait never ends with a termination of an earlier session.
  - `IpChannel`: `PushedInOrder` and `PushedOnce`, assuming `~Interrupts` (with it the
    channel writes the byte before a message, section 3).  `msg` says how much of each
    message is on its way: what was called back with, followed by what is in the pipe, holds
    that much of it, once and in order, whatever other threads write in between (`PassedInv`).
  - `SimpleMessages` implements `PacketChannel`, for any messages, empty ones included
    (`LetterInv`).  A place in the stream is a turn, a part and a byte of it; `NextPlace` says
    which one follows.  The bytes on their way lead, place by place, from where the receiver
    waits to where the sender goes on (`Leads`), although the sender's variables speak of
    the part it is in or has finished and the receiver's of what is missing.  So a part is
    complete when its last byte comes, and a message that is put together is the one whose
    turn it is, which is a step of the channel; all else leaves the channel alone.
- `LinesProofs`, over the same composition:
  - `SerialByte`: `OwnReply`, assuming `Punctual` and a single caller.  `ReplyInv` says of a
    thread that asks that everything on its way to the controller is its request or a
    synchronization, that everything on its way back is the reply, an echo or an event,
    and that a packet of which both bytes are of one origin is what was asked for.  Bytes
    may be lost, so that packets are cut in the wrong place: `StreamRight` orders what an
    event may be mixed up with.  Two callers may get each other's replies: a flag that
    one has raised is lowered for the other.
  - `SerialByte`: `EventsKept`, for any callers, punctual or not.  `EventInv` says that while no
    byte was lost the line holds whole packets, and `AllPackets` (those popped, those in the
    inbox and those on the line) have all events in order, whatever replies are taken from
    between them.
  - `TcpPeer`: `Kept` says who owns a number (`Owners`: peers that live, the listening socket in
    its time, and `new_peer` between `accept` and the copy), that no two own the same and
    everything open is owned (`Numbers`), and which places of the loop are whose (`Places`).
    It gives `PeersKept`, the safety part of `PeersServed`: one owner and the right place,
    however often numbers come again, until the first deletion of a peer has
    cleared its place: `remove_descriptor` asks the deleted peer for it (section 2), and nothing
    is claimed afterwards.
  - `NetPoint`: `HandlesPolledClient`.  Clients come, are marked as gone and are left out when
    the list is built again; between, the list begins with those that were polled, at the
    places `poll` reported them for (`NetInv`).  `CompactIs` says that the list that is
    built has no gap and keeps its order: every connection that stays has a rank among
    those that do, and every rank is taken (`EachHasItsTurn`).
- `ContainersProofs`, over the composition that the run `containers` checks: `DataKept`, which
  is four statements, each from an inductive invariant of its own:
  - `Handles` (assuming `~FromInside`: with it `HandlesSafe` fails, section 3): a handle that
    its thread is about to assign is counted out already and not in yet (`Pending`), so
    the counter is the number of the other holders (`Counted`), handles inside objects
    included.  `Held` and `Doomed` say that what is held is alive, and that what nobody holds
    any more is what exactly one thread is about to delete: the step that brings a counter
    to zero decides who.  A deletion that lets go of another object in turn, of which it
    may be the last holder too, is the same step again (`CountsOutKeeps`).
  - `CompositeCore`: `LinksGrow` says that links name states in the order in which they were
    made, so a state is linked from one run of points only; `FreedRight` says that a state was
    freed because its run ended in a pool that went, that this happens once, and that what
    the index names is linked and was not freed.
  - `Tracer`: the cached interval, if there is one, is an interval of the map (`TracerInv`),
    through insertions at, before and behind it, so `select` finds the interval of its key
    from the cache or without it.
  - `Spectrum` (assuming `Orderly`: smoothed before it is measured or copied): the arrays have
    room for one point more than there are, through growth, copies and smoothing, and
    nothing that was given is changed (`SpectrumInv`).
- `IntervalMapProofs`: `assign` is followed entry by entry; the invariant `MapInv`
  is canonicity with the entry at the smallest key, and the refinement of `PointwiseMap`
  follows from lemmas about the last entry before a key.

## 6. What is only model-checked

Liveness (`UnitsReachSleepers`, `EverybodyReturns`, `TerminationConfirmed`,
`WantServed`, `KillReturns`, `RingGoesOn`, `EverythingArrives`, and the `~>` parts of
`ManagerServes`, `StubForwards`, `NetPointServes`, `MessagesServed`, `ChannelServes`,
`WinPortServes` and `PeersServed`): fairness and ENABLED are out of the prover's reach.

Safety without a proof:

- `ComputedRight`: what `Regression`, `PoolMetrics`, `IniFile` and `estimateGuess` compute is
  defined by recursion or by a fold over their input, and what such a definition computes
  for every input is proved by induction over it, which is out of the prover's reach;
- the refinements of `Heap` and `DisjointSet`, whose loops (`up`, `down`, `climb`) are recursive
  functions, for the same reason;
- `NobodyDangles` of `DeviceManager`, about a walk over a list that changes meanwhile.

The specifications are composed of disjoint objects, and no theorem states that one object
uses another correctly, except `RingPool`, which includes its thread.

## 7. What is not modelled, and why

- `win32.netpoint.cpp`: a variant of `posixNetPoint` with `select`, a time-out of 100
  microseconds and an auto-reset event in the place of the pipe.
- Locks and timer: wrappers of system calls; mutexes and condition variables are
  part of every other module's steps.
- `cmdLine`, `parsing`, `charprintbuf`: scanning and formatting, without state that
  several calls share.
- `math`: rounding; centroids, the Savitzky-Golay filter, the noise estimate,
  `unimath` and `stddev`, which are formulas without control.
- `EventLoop`: failing system calls (exceptions out of the loop), the poll variant,
  `handle_events` with a time-out (it returns at once); `auto_destroy` is part of
  removing.  `CheckRestartFlag` reads and clears the flag in one step, where the code does it
  in two (lines 464 and 466); a restart between them is the same as one before them.
- `NetPeer`: errors of `recv` and `send`, the end of the connection, the call-back for
  new packets (`client_stub` sets none), packets whose shared contents are changed
  after `send_packet` took them, a send after which nobody restarts the event loop.
- `ClientManager`: the second round of `recv` in `netPoint::receive`, which begins at a stale
  pointer (157, 214), as `net_peer::handle_read` does; the run `net_peer_between` shows it there.
- `DeviceManager`: an element that is registered twice (`MayRepeat = FALSE`).
- `ClientStub`: calls of `take` by two threads at once (`_dnsMutex` excludes them).
- `NetPeer`, `PingTool`: waits without a time-out are in the modules (`"forever"`), but not in the
  run: they test nothing after they were woken, so that neither `TrueMeansSent` nor
  `OwnRoundTrip` holds of them.
- `RingPool`, `CompositeCore`: the search by time, look-ups that only read, failing files;
  `field` reads through the last state's pointer, which may have been freed
  (`composite_core.cpp:66`).
- `TcpPeer`: `connect_to_server` (see section 2), socket options, failing calls, what the loop
  does with the place of a peer that was deleted.
- `SerialPort`, `WinPort`: failing system calls, the text of settings, speeds; among the
  failing calls are those of `win32.rs232port.cpp:264-273` (a port whose time-outs cannot be
  restored is no longer connected, and stays open) and 395-424 (a read that fails). `strpbrk`
  (`basic.rs232port.cpp:91`) may search on behind what was received, in a buffer that nothing
  terminates: a delimiter it finds there does not count, but the memory is read.
- `SerialByte`: a second `synchronize` while one waits, which the code allows since the wait
  leaves the mutex (`serialbyte.h:395-402`).  `twelvebyte.h` and
  `i41serial.h` are `serialbyte.h` with other packets.
- `IniFile`: comments behind contents or heads; contents with a semicolon that a program sets
  (`Commented` is empty in the run: they are cut when they are read again); the locks
  (`readvar` and `writevar` are taken for one thread's), formatting of values,
  `Var::base_assign`, which never sets `_modified`.

## 8. Plan

All modules that were planned are written, and the theorems about them that the provers
reach and that matter most are proved.  What would come next: `NobodyDangles` of
`DeviceManager`, and the Windows net point, as a second loop beside `NetPoint`.
