--------------------------- MODULE EventLoopProofs ---------------------------
(* Theorems about event_loop for every set of descriptors and threads. *)
EXTENDS EventLoop, FiniteSetTheorems, TLAPS

\* A call under way has a descriptor.
OpTyped ==
  /\ op \in [Users -> [at : {"idle", "restart", "hardRestart", "unlink"},
                       fd : Fds \cup {ControlFd}]]
  /\ \A u \in Users : op[u].at # "idle" => op[u].fd \in Fds

\* The bookkeeping invariant: descriptors_list, prepare_list, the epoll set and the
\* length of events agree, in every order of the calls.
ListInv ==
  /\ listed \subseteq watched /\ watched \subseteq Fds
  /\ prepareList \subseteq watched \cap Prepared
  /\ polledOut \subseteq prepareList
  /\ listSize \in Nat
  /\ SlotsMatch

\* Every set of descriptors is finite.
LEMMA FdSetsFinite ==
  ASSUME NEW S \in SUBSET Fds
  PROVE  IsFiniteSet(S) /\ Cardinality(S) \in Nat
<1>1. QED
  BY EventLoopAssumption, FS_Subset, FS_CardinalityType

\* add_descriptor keeps the lists consistent.
LEMMA AddKeepsLists ==
  ASSUME ListInv, NEW fd \in Fds, fd \notin watched, AddDescriptor(fd)
  PROVE  ListInv'
<1>1. /\ listed' \subseteq watched' /\ watched' \subseteq Fds
      /\ prepareList' \subseteq watched' \cap Prepared
      /\ polledOut' \subseteq prepareList'
  BY DEF ListInv, AddDescriptor
<1>2. listSize' \in Nat
  BY EventLoopAssumption DEF AddDescriptor
<1>3. Cardinality(watched') = Cardinality(watched) + 1
  BY FdSetsFinite, FS_AddElement DEF ListInv, AddDescriptor
<1>4. SlotsMatch'
  BY <1>3, FdSetsFinite DEF ListInv, AddDescriptor, SlotsMatch
<1>5. QED
  BY <1>1, <1>2, <1>4 DEF ListInv

\* remove_descriptor keeps them consistent, for a descriptor epoll watches or one
\* inside the list.
LEMMA RemoveKeepsLists ==
  ASSUME ListInv, NEW fd \in Fds, fd \in watched \/ fd < listSize, RemoveDescriptor(fd)
  PROVE  ListInv'
<1>1. CASE fd < listSize /\ fd \notin listed
  BY <1>1 DEF RemoveDescriptor, listVars, ListInv, SlotsMatch
<1>2. CASE ~(fd < listSize /\ fd \notin listed)
  <2>1. fd \in watched
    BY <1>2 DEF ListInv
  <2>2. /\ listed' \subseteq watched' /\ watched' \subseteq Fds
        /\ prepareList' \subseteq watched' \cap Prepared
        /\ polledOut' \subseteq prepareList'
        /\ listSize' \in Nat
    BY <1>2 DEF ListInv, RemoveDescriptor
  <2>3. Cardinality(watched') = Cardinality(watched) - 1
    BY <1>2, <2>1, FdSetsFinite, FS_RemoveElement DEF ListInv, RemoveDescriptor
  <2>4. SlotsMatch'
    BY <1>2, <2>3, FdSetsFinite DEF ListInv, RemoveDescriptor, SlotsMatch
  <2>5. QED
    BY <2>2, <2>4 DEF ListInv
<1>3. QED
  BY <1>1, <1>2

\* prepare drops unlisted descriptors from every list.
LEMMA PrepareKeepsLists ==
  ASSUME ListInv, Prepare
  PROVE  ListInv'
<1> DEFINE dropped == prepareList \ listed
<1>1. /\ listed' \subseteq watched' /\ watched' \subseteq Fds
      /\ prepareList' \subseteq watched' \cap Prepared
      /\ polledOut' \subseteq prepareList'
      /\ listSize' \in Nat
  BY DEF ListInv, Prepare
<1>2. /\ dropped \subseteq watched /\ watched' = watched \ dropped
      /\ slots' = slots - Cardinality(dropped)
  BY DEF ListInv, Prepare
<1>3. IsFiniteSet(watched) /\ IsFiniteSet(dropped)
  BY <1>2, FdSetsFinite DEF ListInv
<1>4. Cardinality(watched \ dropped) = Cardinality(watched) - Cardinality(watched \cap dropped)
  BY <1>3, FS_Difference
<1>5. watched \cap dropped = dropped
  BY <1>2
<1>6. Cardinality(watched) \in Nat /\ Cardinality(dropped) \in Nat
  BY <1>3, FS_CardinalityType
<1>7. SlotsMatch'
  BY <1>2, <1>4, <1>5, <1>6 DEF ListInv, SlotsMatch
<1>8. QED
  BY <1>1, <1>7 DEF ListInv

\* Calls keep their descriptor until they return.
LEMMA OpStep == OpTyped /\ [Next]_vars => OpTyped'
<1> SUFFICES ASSUME OpTyped, [Next]_vars PROVE OpTyped'
  OBVIOUS
<1>1. CASE UNCHANGED op
  BY <1>1 DEF OpTyped
<1>2. ASSUME NEW u \in Users, NEW fd \in Fds, Add(u, fd) \/ Push(u, fd) \/ Remove(u, fd)
      PROVE  OpTyped'
  BY <1>2 DEF Add, Push, Remove, OpTyped
<1>3. ASSUME NEW u \in Users, Restart(u) \/ HardRestart(u) \/ Unlink(u)
      PROVE  OpTyped'
  BY <1>3 DEF Restart, HardRestart, Unlink, OpTyped, Idle
<1>4. QED
  BY <1>1, <1>2, <1>3
     DEF Next, vars, LoopStep, UserStep, Arrive, PostTerminate, TestTerminateFlag,
         Prepare, DoPoll, CheckRestartFlag, LockList, HandleControl, HandleDescriptor,
         FinishBatch, NotifyTerminate, LeaveLoop

\* Every step keeps the lists consistent.
LEMMA ListStep == OpTyped /\ ListInv /\ [Next]_vars => ListInv'
<1> SUFFICES ASSUME OpTyped, ListInv, [Next]_vars PROVE ListInv'
  OBVIOUS
<1>1. ASSUME UNCHANGED listVars PROVE ListInv'
  BY <1>1 DEF listVars, ListInv, SlotsMatch
<1>2. CASE Prepare
  BY <1>2, PrepareKeepsLists
<1>3. ASSUME NEW fd \in Fds, HandleDescriptor(fd) PROVE ListInv'
  BY <1>1, <1>3, RemoveKeepsLists DEF HandleDescriptor, ListInv
<1>4. ASSUME NEW u \in Users, NEW fd \in Fds, Add(u, fd) PROVE ListInv'
  BY <1>4, AddKeepsLists DEF Add
<1>5. ASSUME NEW u \in Users, Unlink(u) PROVE ListInv'
  <2>1. op[u].fd \in Fds
    BY <1>5 DEF Unlink, OpTyped
  <2>2. QED
    BY <1>1, <1>5, <2>1, RemoveKeepsLists DEF Unlink
<1>6. CASE UNCHANGED vars
  BY <1>1, <1>6 DEF vars
<1>7. QED
  BY <1>1, <1>2, <1>3, <1>4, <1>5, <1>6
     DEF Next, LoopStep, UserStep, Arrive, PostTerminate, TestTerminateFlag, Push,
         Restart, Remove, HardRestart, DoPoll, CheckRestartFlag, LockList,
         HandleControl, FinishBatch, NotifyTerminate, LeaveLoop

\* The lists agree, whatever is added, removed or disconnected in whatever order.
THEOREM ListsAgree == Spec => [](OpTyped /\ ListInv)
<1>1. Init => OpTyped /\ ListInv
  BY FS_EmptySet DEF Init, OpTyped, ListInv, SlotsMatch, Idle
<1>2. QED
  BY <1>1, OpStep, ListStep, PTL DEF Spec

\* events has room for the control pipe and every watched descriptor.
THEOREM EventsHaveRoom == Spec => []SlotsMatch
<1>1. ListInv => SlotsMatch
  BY DEF ListInv
<1>2. QED
  BY <1>1, ListsAgree, PTL

\* Type correctness of the whole loop.
THEOREM TypeCorrect == Spec => []TypeOK
<1>1. Init => TypeOK
  <2> SUFFICES ASSUME Init PROVE TypeOK
    OBVIOUS
  <2>1. term \in [Terminators -> {"idle", "test", "asleep", "done"}]
    BY DEF Init
  <2>2. op \in [Users -> [at : {"idle", "restart", "hardRestart", "unlink"},
                         fd : Fds \cup {ControlFd}]]
    BY DEF Init, Idle
  <2>3. QED
    BY <2>1, <2>2 DEF Init, TypeOK
<1>2. OpTyped /\ OpTyped' /\ ListInv /\ ListInv' /\ TypeOK /\ [Next]_vars => TypeOK'
  <2> SUFFICES ASSUME OpTyped, OpTyped', ListInv, ListInv', TypeOK, [Next]_vars
               PROVE  TypeOK'
    OBVIOUS
  <2>1. /\ listed' \subseteq Fds /\ listSize' \in Nat
        /\ prepareList' \subseteq Prepared
        /\ watched' \subseteq Fds /\ polledOut' \subseteq prepareList'
    BY DEF ListInv
  <2>2. slots' \in Nat
    BY FdSetsFinite DEF ListInv, SlotsMatch
  <2>3. op' \in [Users -> [at : {"idle", "restart", "hardRestart", "unlink"},
                          fd : Fds \cup {ControlFd}]]
    BY DEF OpTyped
  <2> DEFINE Rest ==
        /\ ready \subseteq Fds /\ wants \subseteq Prepared
        /\ pipe \subseteq {"R", "T"} /\ edge \in BOOLEAN /\ restartFlag \in BOOLEAN
        /\ loop \in {"prepare", "poll", "flag", "lock", "dispatch", "notify", "leaving",
                     "ended", "crashed"}
        /\ batchIn \subseteq Fds \cup {ControlFd} /\ batchOut \subseteq Prepared
        /\ gotTerminate \in BOOLEAN /\ terminateFlag \in BOOLEAN
        /\ term \in [Terminators -> {"idle", "test", "asleep", "done"}]
  <2>4. Rest /\ polledOut \subseteq prepareList /\ prepareList \subseteq Prepared
    BY DEF TypeOK
  <2>5. CASE LoopStep
    <3>1. ASSUME Prepare PROVE Rest'
      BY <2>4, <3>1 DEF Prepare, pipeVars
    <3>2. ASSUME DoPoll PROVE Rest'
      BY <2>4, <3>2 DEF DoPoll
    <3>3. ASSUME CheckRestartFlag PROVE Rest'
      BY <2>4, <3>3 DEF CheckRestartFlag, pipeVars
    <3>4. ASSUME LockList PROVE Rest'
      BY <2>4, <3>4 DEF LockList, pipeVars
    <3>5. ASSUME HandleControl PROVE Rest'
      <4>1. gotTerminate' \in BOOLEAN
        <5>1. gotTerminate' = ("T" \in pipe)
          BY <3>5 DEF HandleControl
        <5>2. CASE "T" \in pipe
          BY <5>1, <5>2
        <5>3. CASE "T" \notin pipe
          BY <5>1, <5>3
        <5>4. QED
          BY <5>2, <5>3
      <4>2. QED
        BY <2>4, <3>5, <4>1 DEF HandleControl
    <3>6. ASSUME NEW fd \in Fds, HandleDescriptor(fd) PROVE Rest'
      BY <2>4, <3>6 DEF HandleDescriptor, pipeVars
    <3>7. ASSUME FinishBatch PROVE Rest'
      BY <2>4, <3>7 DEF FinishBatch, pipeVars
    <3>8. ASSUME NotifyTerminate PROVE Rest'
      BY <2>4, <3>8 DEF NotifyTerminate, pipeVars
    <3>9. ASSUME LeaveLoop PROVE Rest'
      BY <2>4, <3>9 DEF LeaveLoop, pipeVars
    <3>10. Rest'
      BY <2>5, <3>1, <3>2, <3>3, <3>4, <3>5, <3>6, <3>7, <3>8, <3>9 DEF LoopStep
    <3>11. QED  BY <2>1, <2>2, <2>3, <3>10 DEF TypeOK
  <2>6. ASSUME NEW w \in Terminators, PostTerminate(w) \/ TestTerminateFlag(w)
        PROVE  TypeOK'
    <3>1. Rest'
      BY <2>4, <2>6 DEF PostTerminate, TestTerminateFlag, PipeOut, pipeVars, loopVars
    <3>2. QED  BY <2>1, <2>2, <2>3, <3>1 DEF TypeOK
  <2>7. ASSUME NEW u \in Users, NEW fd \in Fds, Add(u, fd) \/ Push(u, fd) \/ Remove(u, fd)
        PROVE  TypeOK'
    <3>1. Rest'
      BY <2>4, <2>7 DEF Add, Push, Remove, pipeVars, loopVars
    <3>2. QED  BY <2>1, <2>2, <2>3, <3>1 DEF TypeOK
  <2>8. ASSUME NEW u \in Users, Restart(u) \/ HardRestart(u) \/ Unlink(u) PROVE TypeOK'
    <3>1. Rest'
      BY <2>4, <2>8 DEF Restart, HardRestart, Unlink, PipeOut, pipeVars, loopVars
    <3>2. QED  BY <2>1, <2>2, <2>3, <3>1 DEF TypeOK
  <2>9. ASSUME NEW fd \in Fds, Arrive(fd) PROVE TypeOK'
    <3>1. Rest'
      BY <2>4, <2>9 DEF Arrive, pipeVars, loopVars
    <3>2. QED  BY <2>1, <2>2, <2>3, <3>1 DEF TypeOK
  <2>10. CASE UNCHANGED vars
    <3>1. Rest'
      BY <2>4, <2>10 DEF vars, pipeVars, loopVars
    <3>2. QED  BY <2>1, <2>2, <2>3, <3>1 DEF TypeOK
  <2>11. QED
    BY <2>5, <2>6, <2>7, <2>8, <2>9, <2>10 DEF Next, UserStep
<1>3. QED
  BY <1>1, <1>2, ListsAgree, PTL DEF Spec
-----------------------------------------------------------------------------
\* The flag of a confirmation is only up once the loop is on its way out.
ConfirmInv ==
  /\ terminateFlag => loop \in {"leaving", "ended"}
  /\ ConfirmedAfterLastDispatch

\* terminate (true) never returns while descriptors are still being called,
\* whatever the other threads do and however many of them terminate.
THEOREM ConfirmsAfterDispatch == Spec => []ConfirmedAfterLastDispatch
<1>1. Init => ConfirmInv
  BY DEF Init, ConfirmInv, ConfirmedAfterLastDispatch, Terminators
<1>2. TypeOK /\ ConfirmInv /\ [Next]_vars => ConfirmInv'
  <2> SUFFICES ASSUME TypeOK, ConfirmInv, [Next]_vars PROVE ConfirmInv'
    OBVIOUS
  <2>1. ASSUME UNCHANGED <<terminateFlag, term>>,
               loop' = loop \/ loop \notin {"leaving", "ended"} \/ loop' = "ended"
        PROVE  ConfirmInv'
    BY <2>1 DEF ConfirmInv, ConfirmedAfterLastDispatch
  <2>2. CASE NotifyTerminate
    BY <2>2 DEF NotifyTerminate, ConfirmInv, ConfirmedAfterLastDispatch, TypeOK,
                Terminators
  <2>3. ASSUME NEW w \in Terminators, PostTerminate(w) \/ TestTerminateFlag(w)
        PROVE  ConfirmInv'
    BY <2>3 DEF PostTerminate, TestTerminateFlag, loopVars, ConfirmInv,
                ConfirmedAfterLastDispatch, TypeOK, Terminators
  <2>4. ASSUME NEW u \in Users, UserStep(u) PROVE ConfirmInv'
    BY <2>1, <2>4 DEF UserStep, Add, Push, Remove, Restart, HardRestart, Unlink, loopVars
  <2>5. ASSUME NEW fd \in Fds, Arrive(fd) PROVE ConfirmInv'
    BY <2>1, <2>5 DEF Arrive, loopVars
  <2>6. ASSUME NEW fd \in Fds, HandleDescriptor(fd) PROVE ConfirmInv'
    BY <2>1, <2>6 DEF HandleDescriptor
  <2>7. CASE Prepare \/ DoPoll \/ CheckRestartFlag \/ LockList \/ HandleControl
             \/ FinishBatch \/ LeaveLoop
    BY <2>1, <2>7 DEF Prepare, DoPoll, CheckRestartFlag, LockList, HandleControl,
                      FinishBatch, LeaveLoop
  <2>8. CASE UNCHANGED vars
    BY <2>1, <2>8 DEF vars, loopVars
  <2>9. QED
    BY <2>2, <2>3, <2>4, <2>5, <2>6, <2>7, <2>8 DEF Next, LoopStep
<1>3. ConfirmInv => ConfirmedAfterLastDispatch
  BY DEF ConfirmInv
<1>4. QED
  BY <1>1, <1>2, <1>3, TypeCorrect, PTL DEF Spec

-----------------------------------------------------------------------------
\* Without remove there is no hard restart, and between two batches the loop
\* keeps no event back.
TerminateInv ==
  /\ restartFlag = FALSE
  /\ \A u \in Users : op[u].at \in {"idle", "restart"}
  /\ loop \in {"prepare", "poll"} => batchIn = {} /\ batchOut = {}
  /\ NoLostTerminate

\* Every step keeps the byte from being swallowed.
LEMMA TerminateStep ==
  ASSUME "remove" \notin UserOps, TypeOK, TerminateInv, [Next]_vars
  PROVE  TerminateInv'
<1>1. ASSUME UNCHANGED <<pipeVars, restartFlag, loopVars, op>> PROVE TerminateInv'
  BY <1>1 DEF pipeVars, loopVars, TerminateInv, NoLostTerminate
<1>2. ASSUME NEW u \in Users, UserStep(u) PROVE TerminateInv'
  <2>1. UNCHANGED <<restartFlag, loopVars>>
    BY <1>2 DEF UserStep, Add, Push, Remove, Restart, HardRestart, Unlink, TerminateInv
  <2>2. UNCHANGED pipeVars \/ edge' = TRUE
    BY <1>2 DEF UserStep, Add, Push, Remove, Restart, HardRestart, Unlink, PipeOut
  <2>3. \A v \in Users : op'[v].at \in {"idle", "restart"}
    BY <1>2 DEF UserStep, Add, Push, Remove, Restart, HardRestart, Unlink,
                TerminateInv, TypeOK, Idle
  <2>4. QED
    BY <2>1, <2>2, <2>3 DEF TerminateInv, NoLostTerminate, loopVars, pipeVars
<1>3. ASSUME NEW w \in Terminators, PostTerminate(w) PROVE TerminateInv'
  BY <1>3 DEF PostTerminate, PipeOut, loopVars, TerminateInv, NoLostTerminate
<1>4. ASSUME NEW w \in Terminators, TestTerminateFlag(w) PROVE TerminateInv'
  BY <1>1, <1>4 DEF TestTerminateFlag
<1>5. ASSUME NEW fd \in Fds, Arrive(fd) PROVE TerminateInv'
  BY <1>1, <1>5 DEF Arrive
<1>6. CASE Prepare \/ DoPoll \/ CheckRestartFlag \/ LockList
  BY <1>6 DEF Prepare, DoPoll, CheckRestartFlag, LockList, pipeVars, TerminateInv,
              NoLostTerminate
<1>7. CASE HandleControl
  BY <1>7 DEF HandleControl, TerminateInv, NoLostTerminate
<1>8. ASSUME NEW fd \in Fds, HandleDescriptor(fd) PROVE TerminateInv'
  BY <1>8, EventLoopAssumption
     DEF HandleDescriptor, pipeVars, TerminateInv, NoLostTerminate
<1>9. CASE FinishBatch \/ NotifyTerminate \/ LeaveLoop
  BY <1>9 DEF FinishBatch, NotifyTerminate, LeaveLoop, pipeVars, TerminateInv,
              NoLostTerminate
<1>10. CASE UNCHANGED vars
  BY <1>1, <1>10 DEF vars
<1>11. QED
  BY <1>2, <1>3, <1>4, <1>5, <1>6, <1>7, <1>8, <1>9, <1>10 DEF Next, LoopStep

\* As long as nobody calls remove, a terminate byte is never swallowed: the
\* precondition EventLoopLost.cfg shows to be necessary.
THEOREM TerminateIsNotLost ==
  ASSUME "remove" \notin UserOps
  PROVE  Spec => []NoLostTerminate
<1>1. Init => TerminateInv
  BY DEF Init, TerminateInv, NoLostTerminate, Idle
<1>2. TypeOK /\ TerminateInv /\ [Next]_vars => TerminateInv'
  BY TerminateStep
<1>3. TerminateInv => NoLostTerminate
  BY DEF TerminateInv
<1>4. QED
  BY <1>1, <1>2, <1>3, TypeCorrect, PTL DEF Spec

-----------------------------------------------------------------------------
\* Descriptors added in ascending order are all inside descriptors_list.
OrderInv ==
  /\ WatchedHasDescriptor
  /\ \A fd \in listed : fd < listSize

\* So they stay, unless they are removed.
LEMMA OrderStep ==
  ASSUME ~AnyOrder, OpTyped, ListInv, OrderInv, [Next]_vars
  PROVE  OrderInv'
<1>1. ASSUME UNCHANGED listVars PROVE OrderInv'
  BY <1>1 DEF listVars, OrderInv, WatchedHasDescriptor
<1>2. ASSUME NEW fd \in Fds, RemoveDescriptor(fd) PROVE OrderInv'
  BY <1>1, <1>2 DEF RemoveDescriptor, OrderInv, WatchedHasDescriptor
<1>3. ASSUME NEW u \in Users, NEW fd \in Fds, Add(u, fd) PROVE OrderInv'
  <2>1. fd \in Nat /\ \A f \in listed : f \in Nat /\ f < fd
    BY <1>3, EventLoopAssumption DEF Add, ListInv
  <2>2. /\ listed' = listed \cup {fd}
        /\ watched' = watched \cup {fd}
        /\ listSize' = fd + 1
    BY <1>3 DEF Add, AddDescriptor, OrderInv
  <2>3. QED
    BY <2>1, <2>2 DEF OrderInv, WatchedHasDescriptor
<1>4. ASSUME NEW u \in Users, Unlink(u) PROVE OrderInv'
  <2>1. op[u].fd \in Fds
    BY <1>4 DEF Unlink, OpTyped
  <2>2. QED
    BY <1>1, <1>2, <1>4, <2>1 DEF Unlink
<1>5. ASSUME NEW fd \in Fds, HandleDescriptor(fd) PROVE OrderInv'
  BY <1>1, <1>2, <1>5 DEF HandleDescriptor
<1>6. CASE Prepare
  BY <1>6 DEF Prepare, OrderInv, WatchedHasDescriptor
<1>7. CASE UNCHANGED vars
  BY <1>1, <1>7 DEF vars
<1>8. QED
  BY <1>1, <1>3, <1>4, <1>5, <1>6, <1>7
     DEF Next, LoopStep, UserStep, Arrive, PostTerminate, TestTerminateFlag, Push,
         Restart, Remove, HardRestart, DoPoll, CheckRestartFlag, LockList,
         HandleControl, FinishBatch, NotifyTerminate, LeaveLoop

\* Adding in ascending order of descriptors keeps every registered descriptor in
\* the list: the precondition EventLoopResize.cfg shows to be necessary.
THEOREM AscendingAddsKeepDescriptors ==
  ASSUME ~AnyOrder
  PROVE  Spec => []WatchedHasDescriptor
<1>1. Init => OrderInv
  BY DEF Init, OrderInv, WatchedHasDescriptor
<1>2. OpTyped /\ ListInv /\ OrderInv /\ [Next]_vars => OrderInv'
  BY OrderStep
<1>3. OrderInv => WatchedHasDescriptor
  BY DEF OrderInv
<1>4. QED
  BY <1>1, <1>2, <1>3, ListsAgree, PTL DEF Spec

-----------------------------------------------------------------------------
\* Every event that is left of the batch belongs to a listed descriptor: only the
\* loop thread takes descriptors out, and the ones it takes out it has just called.
DispatchInv ==
  /\ loop # "crashed"
  /\ batchIn \ {ControlFd} \subseteq listed
  /\ batchOut \subseteq listed

\* As long as descriptors are added in ascending order and nobody calls remove, the
\* loop never calls through a null pointer: the preconditions EventLoopResize.cfg
\* and EventLoopRemoving.cfg show to be necessary.
THEOREM DispatchFindsDescriptors ==
  ASSUME ~AnyOrder, "remove" \notin UserOps
  PROVE  Spec => []NoNullDispatch
<1> DEFINE Inv == OrderInv /\ TerminateInv /\ DispatchInv
<1>1. Init => Inv
  BY DEF Init, OrderInv, WatchedHasDescriptor, TerminateInv, NoLostTerminate, Idle,
         DispatchInv
<1>2. OpTyped /\ ListInv /\ TypeOK /\ Inv /\ [Next]_vars => Inv'
  <2> SUFFICES ASSUME OpTyped, ListInv, TypeOK, Inv, [Next]_vars PROVE Inv'
    OBVIOUS
  <2>1. OrderInv'
    BY OrderStep
  <2>2. TerminateInv'
    BY TerminateStep
  <2> SUFFICES DispatchInv'
    BY <2>1, <2>2
  <2>3. ASSUME listed \subseteq listed', UNCHANGED <<batchIn, batchOut>>,
               loop' = loop \/ loop' # "crashed"
        PROVE  DispatchInv'
    BY <2>3 DEF DispatchInv
  <2>4. CASE DoPoll
    BY <2>4 DEF DoPoll, DispatchInv, ListInv, OrderInv, WatchedHasDescriptor, listVars
  <2>5. ASSUME NEW fd \in Fds, HandleDescriptor(fd) PROVE DispatchInv'
    <3>1. fd \in listed
      BY <2>5, EventLoopAssumption DEF HandleDescriptor, DispatchInv
    <3>2. listed \ {fd} \subseteq listed'
      BY <2>5, <3>1 DEF HandleDescriptor, RemoveDescriptor, listVars
    <3>3. QED
      BY <2>5, <3>1, <3>2 DEF HandleDescriptor, DispatchInv
  <2>6. ASSUME NEW u \in Users, NEW fd \in Fds, Add(u, fd) PROVE DispatchInv'
    <3>1. listed \subseteq listed'
      BY <2>6 DEF Add, AddDescriptor, OrderInv
    <3>2. QED
      BY <2>3, <2>6, <3>1 DEF Add, loopVars
  <2>7. ASSUME NEW u \in Users, Restart(u) \/ HardRestart(u) \/ Unlink(u)
                \/ \E fd \in Fds : Push(u, fd) \/ Remove(u, fd)
        PROVE  DispatchInv'
    BY <2>3, <2>7 DEF Restart, HardRestart, Unlink, Push, Remove, TerminateInv, listVars,
                      loopVars
  <2>8. CASE HandleControl
    BY <2>8 DEF HandleControl, DispatchInv, listVars
  <2>9. CASE CheckRestartFlag
    BY <2>9 DEF CheckRestartFlag, DispatchInv, TerminateInv, listVars
  <2>10. CASE Prepare \/ LockList \/ FinishBatch \/ NotifyTerminate \/ LeaveLoop
    BY <2>3, <2>10 DEF Prepare, LockList, FinishBatch, NotifyTerminate, LeaveLoop, listVars
  <2>11. ASSUME NEW w \in Terminators, PostTerminate(w) \/ TestTerminateFlag(w)
         PROVE  DispatchInv'
    BY <2>3, <2>11 DEF PostTerminate, TestTerminateFlag, listVars, loopVars
  <2>12. CASE UNCHANGED vars \/ \E fd \in Fds : Arrive(fd)
    BY <2>3, <2>12 DEF vars, Arrive, listVars, loopVars
  <2>13. QED
    BY <2>4, <2>5, <2>6, <2>7, <2>8, <2>9, <2>10, <2>11, <2>12
       DEF Next, LoopStep, UserStep
<1>3. Inv => NoNullDispatch
  BY DEF DispatchInv, NoNullDispatch
<1>4. QED
  BY <1>1, <1>2, <1>3, ListsAgree, TypeCorrect, PTL DEF Spec
=============================================================================
