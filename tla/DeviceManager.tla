---------------------------- MODULE DeviceManager ----------------------------
(***************************************************************************)
(* ude::device_manager (crs/ude/server.cpp): devices register, unregister  *)
(* and post packets from any thread, a request thread in                   *)
(* proceed_request_job () sends them, and an owner destroys the manager,   *)
(* which first makes the request thread end.  The devices are kept in an   *)
(* element_map (data_core.h) under _dnsMutex.  A critical section is one   *)
(* step, and so is a delivery, which holds _dnsMutex to its end: the       *)
(* devices' take () takes no other lock that is held here.                 *)
(***************************************************************************)
EXTENDS Naturals, Sequences, SequencesExt

CONSTANTS
  Domains, Elements,
  Owned,         \* the devices for which destroy_predicate is true
  MayRepeat,     \* TRUE: a device is added to several lists, or twice
  Packets,       \* the packets, each of which is posted once
  Fast,          \* those with idFast
  Local,         \* those with idLocal and idDTD
  Common,        \* domainCommon
  Stat,          \* domainStat, a member of Domains
  Pings,         \* the packets for domainStat; other remote ones are for nobody here
  Terminate,     \* the packet that ends the request thread
  Early          \* TRUE: the destructor may run before the thread has started

VARIABLES
  lists,             \* _container: the vector of each domain
  destroyed,         \* history: the devices that were deleted, in order
  outbox,            \* _outbox
  posted, sent,      \* history: the packets that were posted, and sent
  thread,            \* where the request thread is
  packet2send,       \* the local variable of proceed_request
  flag,              \* _requestThreadFlag
  owner              \* where the owner is

managerVars == <<outbox, posted, sent, thread, packet2send, flag, owner>>
vars == <<lists, destroyed, managerVars>>

Init ==
  /\ lists = [d \in Domains |-> <<>>] /\ destroyed = <<>>
  /\ outbox = <<>> /\ posted = {} /\ sent = {}
  /\ thread = "new" /\ packet2send = Terminate
  /\ flag = TRUE /\ owner = "using"

-----------------------------------------------------------------------------
(* The element map: a vector of pointers per domain.  An element that asks *)
(* for it is taken out while its vector is walked, and deleted if          *)
(* destroy_predicate says so.                                              *)

\* The walk over s, in which the elements of W leave: what is kept, and who left, in
\* order.  The last element takes the place of one that leaves, and is not met there.
Walk(s, W) ==
  LET Met[i \in 0..Len(s)] ==
        IF i = 0 THEN [all |-> s, l |-> Len(s), left |-> <<>>]
        ELSE LET w == Met[i - 1]
             IN  IF i > w.l \/ w.all[i] \notin W THEN w
                 ELSE [all  |-> [w.all EXCEPT ![i] = w.all[w.l], ![w.l] = w.all[i]],
                       l    |-> w.l - 1,
                       left |-> Append(w.left, w.all[i])]
      end == Met[Len(s)]
  IN  [kept |-> SubSeq(end.all, 1, end.l), left |-> end.left]

ForEach(d, W) == Walk(lists[d], W)

Listed(e) == \E d \in Domains : Contains(lists[d], e)

AddElement(d, e) ==
  /\ MayRepeat \/ ~Listed(e)
  /\ ~Contains(destroyed, e)
  /\ lists' = [lists EXCEPT ![d] = Append(@, e)]
  /\ UNCHANGED destroyed

\* The lists of the domains ds are walked in this order.
WalkLists(ds, W) ==
  LET left == FlattenSeq([i \in DOMAIN ds |-> ForEach(ds[i], W).left])
  IN  /\ lists' = [d \in Domains |-> IF Contains(ds, d) THEN ForEach(d, W).kept ELSE lists[d]]
      /\ destroyed' = destroyed \o SelectSeq(left, LAMBDA e : e \in Owned)

RemoveElement(d, e) == WalkLists(<<d>>, {e})

\* A std::map is walked in the order of its keys.
WalkMap(W) == WalkLists(SetToSortSeq(Domains, <), W)

\* The destructor of the map deletes every list, and a list its elements.
DestroyElements ==
  LET all == FlattenSeq([i \in 1..Len(SetToSortSeq(Domains, <)) |->
                           lists[SetToSortSeq(Domains, <)[i]]])
  IN  /\ destroyed' = destroyed \o SelectSeq(all, LAMBDA e : e \in Owned)
      /\ lists' = [d \in Domains |-> <<>>]

-----------------------------------------------------------------------------
(* The devices.                                                            *)

RegisterDevice(d, e) ==
  /\ owner = "using"
  /\ AddElement(d, e)
  /\ UNCHANGED managerVars

UnregisterDevice(d, e) ==
  /\ owner = "using"
  /\ RemoveElement(d, e)
  /\ UNCHANGED managerVars

\* The devices of W are satisfied by the packet for domain d and ask to be removed.
DeliverResponse(d, W) == IF d = Common THEN WalkMap(W) ELSE WalkLists(<<d>>, W)

NotifyOutbox == thread' = IF thread = "asleep" THEN "awake" ELSE thread

\* Fault: a fast packet is placed in front and nobody is told.
PostQuietly(p) ==
  /\ outbox' = IF p \in Fast THEN <<p>> \o outbox ELSE Append(outbox, p)
  /\ IF p \in Fast THEN UNCHANGED thread ELSE NotifyOutbox

Post(p) ==
  /\ outbox' = IF p \in Fast THEN <<p>> \o outbox ELSE Append(outbox, p)
  /\ NotifyOutbox

RegisterRequest(p) ==
  /\ owner = "using" /\ p \notin posted
  /\ posted' = posted \cup {p}
  /\ \/ /\ p \in Local
        /\ \E d \in Domains \cup {Common}, W \in SUBSET Elements : DeliverResponse(d, W)
        /\ UNCHANGED <<outbox, sent, thread>>
     \/ p \notin Local /\ Post(p) /\ UNCHANGED <<lists, destroyed, sent>>
  /\ UNCHANGED <<packet2send, flag, owner>>

-----------------------------------------------------------------------------
(* The request thread.                                                     *)

Go(place) == thread' = place

MarkRequestThreadStart ==
  /\ thread = "new"
  /\ flag' = FALSE /\ Go("proceeding")
  /\ UNCHANGED <<lists, destroyed, outbox, posted, sent, packet2send, owner>>

\* The front packet is taken; an empty outbox is looked at again under a new lock.
ProceedRequest ==
  /\ thread = "proceeding"
  /\ IF outbox = <<>>
     THEN Go("activating") /\ UNCHANGED <<outbox, packet2send>>
     ELSE Go("sending") /\ packet2send' = Head(outbox) /\ outbox' = Tail(outbox)
  /\ UNCHANGED <<lists, destroyed, posted, sent, flag, owner>>

\* Without the lock.  A packet of the ping tool is delivered, the one that ends the
\* thread throws.
Send ==
  /\ thread = "sending"
  /\ \/ packet2send = Terminate /\ Go("terminating") /\ UNCHANGED <<lists, destroyed>>
     \/ /\ packet2send \in Pings
        /\ \E W \in SUBSET Elements : DeliverResponse(Stat, W)
        /\ Go("sent")
     \/ /\ packet2send \notin Pings \cup {Terminate}
        /\ Go("sent") /\ UNCHANGED <<lists, destroyed>>
  /\ sent' = sent \cup {packet2send}
  /\ UNCHANGED <<outbox, posted, packet2send, flag, owner>>

\* proceed_request says whether there is more to send.
LookAgain ==
  /\ thread = "sent"
  /\ Go(IF outbox = <<>> THEN "activating" ELSE "proceeding")
  /\ UNCHANGED <<lists, destroyed, outbox, posted, sent, packet2send, flag, owner>>

WaitActivation ==
  /\ thread \in {"activating", "awake"}
  /\ Go(IF outbox = <<>> THEN "asleep" ELSE "proceeding")
  /\ UNCHANGED <<lists, destroyed, outbox, posted, sent, packet2send, flag, owner>>

SpuriousWakeup ==
  /\ \/ thread = "asleep" /\ Go("awake") /\ UNCHANGED owner
     \/ owner = "asleep" /\ owner' = "waiting" /\ UNCHANGED thread
  /\ UNCHANGED <<lists, destroyed, outbox, posted, sent, packet2send, flag>>

NotifyTermination ==
  /\ thread = "terminating"
  /\ flag' = TRUE /\ Go("gone")
  /\ owner' = IF owner = "asleep" THEN "waiting" ELSE owner
  /\ UNCHANGED <<lists, destroyed, outbox, posted, sent, packet2send>>

-----------------------------------------------------------------------------
(* The destructor.                                                         *)

PostTerminate ==
  /\ owner = "using" /\ (Early \/ thread # "new")
  /\ outbox' = <<Terminate>> \o outbox /\ NotifyOutbox
  /\ owner' = "waiting"
  /\ UNCHANGED <<lists, destroyed, posted, sent, packet2send, flag>>

\* When the flag is up the members are destroyed, _container among them.
AwaitTermination ==
  /\ owner = "waiting"
  /\ \/ ~flag /\ owner' = "asleep" /\ UNCHANGED <<lists, destroyed>>
     \/ flag /\ owner' = "gone" /\ DestroyElements
  /\ UNCHANGED <<outbox, posted, sent, thread, packet2send, flag>>

-----------------------------------------------------------------------------
RequestThread ==
  \/ MarkRequestThreadStart \/ ProceedRequest \/ Send \/ LookAgain
  \/ WaitActivation \/ NotifyTermination

Next ==
  \/ \E d \in Domains, e \in Elements : RegisterDevice(d, e) \/ UnregisterDevice(d, e)
  \/ \E p \in Packets : RegisterRequest(p)
  \/ RequestThread \/ SpuriousWakeup
  \/ PostTerminate \/ AwaitTermination

Spec == Init /\ [][Next]_vars

\* The request thread runs, and so does the owner that is awake in the destructor.
Fairness == WF_vars(RequestThread) /\ WF_vars(AwaitTermination)
FairSpec == Spec /\ Fairness

-----------------------------------------------------------------------------
\* Type invariant.
TypeOK ==
  /\ lists \in [Domains -> Seq(Elements)] /\ destroyed \in Seq(Owned)
  /\ outbox \in Seq(Packets \cup {Terminate})
  /\ posted \subseteq Packets /\ sent \subseteq Packets \cup {Terminate}
  /\ thread \in {"new", "proceeding", "sending", "sent", "activating", "asleep", "awake",
                 "terminating", "gone"}
  /\ packet2send \in Packets \cup {Terminate}
  /\ flag \in BOOLEAN /\ owner \in {"using", "waiting", "asleep", "gone"}

\* "waiting for actual termination of the request thread" (server.cpp:147-149): when the
\* manager is gone nothing of it is used by the thread any more.
GoneAfterThread == owner = "gone" => thread = "gone"

\* "process requests from devices and send them to hardware" (server.h:219): what was
\* posted is sent, unless the manager is destroyed.
PostedIsSent ==
  \A p \in Packets : (p \in posted \ Local) ~> (p \in sent \/ owner # "using")

\* The destructor returns: the packet that ends the thread is not missed.
DestructorReturns == (owner = "waiting") ~> (owner = "gone")

\* Nothing is deleted twice, and nothing that was deleted is in a list, where the next
\* packet would call it (element_list::remove, element_list::for_each).
NobodyDangles ==
  /\ \A i, j \in DOMAIN destroyed : i # j => destroyed[i] # destroyed[j]
  /\ \A i \in DOMAIN destroyed : ~Listed(destroyed[i])
=============================================================================
