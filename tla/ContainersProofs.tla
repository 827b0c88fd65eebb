---------------------------- MODULE ContainersProofs ----------------------------
(***************************************************************************)
(* Theorems about four of the data structures, of any size: the handles    *)
(* (cHandle), the field states of a composite core, the intervals of a     *)
(* Tracer and the points of spectra.  Each has its inductive invariant,    *)
(* which a step of another object leaves alone; the last theorem is about  *)
(* all of them.                                                            *)
(***************************************************************************)
EXTENDS Containers, Sequences, SequenceTheorems, FiniteSetTheorems, WellFoundedInduction, TLAPS

-----------------------------------------------------------------------------
(***************************************************************************)
(* Handles: who holds an object is counted, and who brings the count to    *)
(* zero deletes it.                                                        *)
(***************************************************************************)

\* Handles, objects and nothing are different things, there are finitely many of them, and
\* a thread assigns its handles from its own, not from those inside of objects.
Parted ==
  /\ Null \notin Roots \cup Objects /\ Roots \cap Objects = {}
  /\ IsFiniteSet(Roots) /\ IsFiniteSet(Objects)
  /\ Owner \in [Roots -> Threads]
  /\ ~FromInside

LEMMA HandlesParted == ASSUME ~FromInside PROVE Parted
BY ContainersAssumption DEF Parted, Owner

Binds(t) ==
  {b \in [does : {"bind"}, handle : Roots, from : Roots \cup {Null}] :
     /\ Owner[b.handle] = t
     /\ b.from # Null => Owner[b.from] = t /\ b.from # b.handle}
Deletes(t) == [does : {"delete"}, what : Objects, then : Binds(t)]

\* The thread of a handle is about to assign it: it counted the handle out, and did not
\* count it in yet.
Pending(h) ==
  LET k == task[Owner[h]]
  IN  \/ k.does = "bind" /\ k.handle = h
      \/ k.does = "delete" /\ k.then.handle = h

Deleting(t, o) == task[t].does = "delete" /\ task[t].what = o

\* The handles that are counted in at an object.
Holders(o) == {h \in Roots : refersTo[h] = o /\ ~Pending(h)} \cup {p \in alive : refersTo[p] = o}

HandleTypes ==
  /\ refersTo \in [P!Handle -> Objects \cup {Null}]
  /\ links \in [Objects -> Int]
  /\ alive \subseteq used /\ used \subseteq Objects
  /\ task = [t \in Threads |-> task[t]]
  /\ \A t \in Threads : task[t] \in {P!Idle} \cup Binds(t) \cup Deletes(t)
  /\ ~dangling

Counted == \A o \in Objects : links[o] = Cardinality(Holders(o))

\* What is held is alive, and what nobody holds any more is what one thread deletes.
Held == \A o \in Objects : Holders(o) # {} => o \in alive
Doomed ==
  /\ \A t \in Threads, o \in Objects : Deleting(t, o) => o \in alive /\ Holders(o) = {}
  /\ \A o \in alive : Holders(o) = {} => \E t \in Threads : Deleting(t, o)
  /\ \A t, u \in Threads, o \in Objects : Deleting(t, o) /\ Deleting(u, o) => t = u

HandlesInv == HandleTypes /\ Counted /\ Held /\ Doomed

\* What a thread is doing.
LEMMA KindsOf ==
  ASSUME HandleTypes, NEW t \in Threads
  PROVE  /\ task[t].does \in {"nothing", "bind", "delete"}
         /\ task[t] = P!Idle <=> task[t].does = "nothing"
         /\ task[t].does = "bind" => task[t] \in Binds(t)
         /\ task[t].does = "delete" => task[t] \in Deletes(t)
<1>1. task[t] \in {P!Idle} \cup Binds(t) \cup Deletes(t)
  BY DEF HandleTypes
<1>2. P!Idle.does = "nothing"
  BY DEF P!Idle
<1>3. \A b \in Binds(t) : b.does = "bind"
  BY DEF Binds
<1>4. \A k \in Deletes(t) : k.does = "delete"
  BY DEF Deletes
<1>5. QED
  BY <1>1, <1>2, <1>3, <1>4

\* There are finitely many holders, so one more and one less can be counted.
LEMMA HoldersAre ==
  ASSUME Parted, HandleTypes, NEW o
  PROVE  IsFiniteSet(Holders(o)) /\ Cardinality(Holders(o)) \in Nat /\ Holders(o) \subseteq P!Handle
<1>1. IsFiniteSet(Roots \cup Objects)
  BY FS_Union DEF Parted
<1>2. Holders(o) \subseteq Roots \cup Objects
  BY DEF Holders, HandleTypes
<1>3. QED
  BY <1>1, <1>2, FS_Subset, FS_CardinalityType DEF P!Handle

LEMMA OneMore ==
  ASSUME NEW A, IsFiniteSet(A), NEW x, x \notin A
  PROVE  Cardinality(A \cup {x}) = Cardinality(A) + 1
BY FS_AddElement

LEMMA OneLess ==
  ASSUME NEW A, IsFiniteSet(A), NEW x \in A
  PROVE  /\ Cardinality(A \ {x}) = Cardinality(A) - 1
         /\ Cardinality(A) = 1 <=> A \ {x} = {}
<1>1. /\ IsFiniteSet(A \ {x}) /\ Cardinality(A \ {x}) = Cardinality(A) - 1
      /\ Cardinality(A) \in Nat /\ Cardinality(A \ {x}) \in Nat
  BY FS_RemoveElement, FS_CardinalityType
<1>2. Cardinality(A \ {x}) = 0 <=> A \ {x} = {}
  BY <1>1, FS_EmptySet
<1>3. QED
  BY <1>1, <1>2

\* A handle is pending at most while its own thread is busy with it.
LEMMA PendingIs ==
  ASSUME Parted, HandleTypes, NEW h \in Roots, Pending(h)
  PROVE  LET k == task[Owner[h]] IN
           \/ k \in Binds(Owner[h]) /\ k.handle = h
           \/ k \in Deletes(Owner[h]) /\ k.then \in Binds(Owner[h]) /\ k.then.handle = h
<1> DEFINE t == Owner[h]
           k == task[t]
<1>1. t \in Threads
  BY DEF Parted
<1>2. (k.does = "bind" /\ k.handle = h) \/ (k.does = "delete" /\ k.then.handle = h)
  BY Zenon DEF Pending
<1>3. (k.does = "bind" => k \in Binds(t)) /\ (k.does = "delete" => k \in Deletes(t))
  BY <1>1, KindsOf
<1> HIDE DEF t
<1>4. k.does = "delete" => k.then \in Binds(t)
  BY <1>3 DEF Deletes
<1>5. QED
  BY <1>2, <1>3, <1>4 DEF t

\* A thread that does nothing has no pending handle.
LEMMA IdleHasNone ==
  ASSUME NEW h \in Roots, task[Owner[h]] = P!Idle
  PROVE  ~Pending(h)
BY DEF Pending, P!Idle

-----------------------------------------------------------------------------
(***************************************************************************)
(* The steps of unbind.                                                    *)
(***************************************************************************)

\* A handle is counted out at object x by a thread that is deleting nothing else then, and
\* goes on with b; nobody else's handle or task changes.
CountsOut(t, x, h, b) ==
  /\ links' = [links EXCEPT ![x] = @ - 1]
  /\ task' = [task EXCEPT ![t] = IF links[x] = 1
                                 THEN [does |-> "delete", what |-> x, then |-> b]
                                 ELSE b]
  /\ h \in Holders(x) /\ Holders(x)' = Holders(x) \ {h}
  /\ \A o \in Objects \ {x} : Holders(o)' = Holders(o)

\* What was counted right is counted right after it, and is deleted if it is held no more.
LEMMA CountsOutKeeps ==
  ASSUME Parted, HandleTypes, Counted, Held, Doomed,
         NEW t \in Threads, NEW x \in Objects, NEW h, NEW b \in Binds(t), CountsOut(t, x, h, b),
         alive' = {o \in alive : ~Deleting(t, o)}
  PROVE  /\ Counted' /\ Held' /\ Doomed'
         /\ links' \in [Objects -> Int] /\ task' = [u \in Threads |-> task'[u]]
         /\ \A u \in Threads : task'[u] \in {P!Idle} \cup Binds(u) \cup Deletes(u)
<1> DEFINE d == [does |-> "delete", what |-> x, then |-> b]
<1>1. /\ links[x] = Cardinality(Holders(x)) /\ IsFiniteSet(Holders(x)) /\ h \in Holders(x)
  BY HoldersAre DEF Counted, CountsOut
<1>2. /\ Cardinality(Holders(x)') = links[x] - 1
      /\ links[x] = 1 <=> Holders(x)' = {}
  BY <1>1, OneLess DEF CountsOut
<1>3. /\ links'[x] = links[x] - 1 /\ links' \in [Objects -> Int]
      /\ \A o \in Objects \ {x} : links'[o] = links[o]
  BY DEF CountsOut, HandleTypes
<1>4. Counted'
  BY <1>2, <1>3 DEF Counted, CountsOut
<1>5. d \in Deletes(t) /\ d.does = "delete" /\ d.what = x /\ b.does = "bind"
  BY DEF Deletes, Binds
<1> HIDE DEF d
<1>6. /\ task'[t] = IF links[x] = 1 THEN d ELSE b
      /\ \A u \in Threads \ {t} : task'[u] = task[u]
      /\ task' = [u \in Threads |-> task'[u]]
  BY DEF CountsOut, HandleTypes, d
<1>7. \A u \in Threads : task'[u] \in {P!Idle} \cup Binds(u) \cup Deletes(u)
  BY <1>5, <1>6 DEF HandleTypes
<1>8. x \in alive /\ (\A u \in Threads : ~Deleting(u, x)) /\ x \in alive'
  BY <1>1 DEF Held, Doomed
<1>9. /\ \A o \in Objects : Deleting(t, o)' <=> o = x /\ links[x] = 1
      /\ \A u \in Threads \ {t}, o \in Objects : Deleting(u, o)' <=> Deleting(u, o)
  BY <1>5, <1>6 DEF Deleting
<1>10. Held'
  <2>1. ASSUME NEW o \in Objects, o # x, Holders(o)' # {} PROVE o \in alive'
    BY <2>1 DEF CountsOut, Held, Doomed
  <2>2. QED
    BY <1>8, <2>1 DEF Held
<1>11. Doomed'
  <2>1. ASSUME NEW u \in Threads, NEW o \in Objects, Deleting(u, o)'
        PROVE  o \in alive' /\ Holders(o)' = {}
    <3>1. CASE u = t
      BY <1>2, <1>8, <1>9, <2>1, <3>1
    <3>2. CASE u # t
      <4>1. Deleting(u, o) /\ o # x
        BY <1>8, <1>9, <2>1, <3>2
      <4>2. o \in alive /\ Holders(o) = {} /\ ~Deleting(t, o)
        BY <3>2, <4>1 DEF Doomed
      <4>3. QED
        BY <4>1, <4>2 DEF CountsOut
    <3>3. QED
      BY <3>1, <3>2
  <2>2. ASSUME NEW o \in alive', Holders(o)' = {} PROVE \E u \in Threads : Deleting(u, o)'
    <3>1. o \in Objects /\ o \in alive /\ ~Deleting(t, o)
      BY <2>2 DEF HandleTypes
    <3>2. CASE o = x
      BY <1>2, <1>9, <2>2, <3>2
    <3>3. CASE o # x
      <4>1. Holders(o) = {}
        BY <2>2, <3>1, <3>3 DEF CountsOut
      <4>2. PICK u \in Threads : Deleting(u, o)
        BY <3>1, <4>1 DEF Doomed
      <4>3. QED
        BY <1>9, <3>1, <4>2
    <3>4. QED
      BY <3>2, <3>3
  <2>3. ASSUME NEW u \in Threads, NEW v \in Threads, NEW o \in Objects,
               Deleting(u, o)', Deleting(v, o)'
        PROVE  u = v
    <3>1. CASE o = x
      BY <1>8, <1>9, <2>3, <3>1
    <3>2. CASE o # x
      BY <1>9, <2>3, <3>2 DEF Doomed
    <3>3. QED
      BY <3>1, <3>2
  <2>4. QED
    BY <2>1, <2>2, <2>3 DEF Doomed
<1>12. QED
  BY <1>3, <1>4, <1>6, <1>7, <1>10, <1>11

-----------------------------------------------------------------------------
(***************************************************************************)
(* Steps that change no counter, and those that count a handle in.         *)
(***************************************************************************)

\* A step that leaves who holds what alone.
LEMMA NothingCounts ==
  ASSUME Counted, Held, Doomed, UNCHANGED <<links, alive>>,
         \A o \in Objects : Holders(o)' = Holders(o),
         \A t \in Threads, o \in Objects : Deleting(t, o)' <=> Deleting(t, o),
         alive \subseteq Objects
  PROVE  Counted' /\ Held' /\ Doomed'
<1>1. Counted' /\ Held'
  BY DEF Counted, Held
<1>2. Doomed'
  BY DEF Doomed
<1>3. QED
  BY <1>1, <1>2

\* A handle is counted in at an object that is held.
LEMMA CountsIn ==
  ASSUME Parted, HandleTypes, Counted, Held, Doomed, UNCHANGED alive,
         NEW x \in Objects, NEW h, Holders(x) # {}, h \notin Holders(x),
         links' = [links EXCEPT ![x] = @ + 1],
         Holders(x)' = Holders(x) \cup {h},
         \A o \in Objects \ {x} : Holders(o)' = Holders(o),
         \A t \in Threads, o \in Objects : Deleting(t, o)' <=> Deleting(t, o)
  PROVE  Counted' /\ Held' /\ Doomed' /\ links' \in [Objects -> Int]
<1>1. links[x] = Cardinality(Holders(x)) /\ IsFiniteSet(Holders(x))
  BY HoldersAre DEF Counted
<1>2. Cardinality(Holders(x)') = links[x] + 1
  BY <1>1, OneMore
<1>3. /\ links'[x] = links[x] + 1 /\ links' \in [Objects -> Int]
      /\ \A o \in Objects \ {x} : links'[o] = links[o]
  BY DEF HandleTypes
<1>4. Counted' /\ Held'
  BY <1>2, <1>3 DEF Counted, Held
<1>5. Doomed'
  <2>1. \A t \in Threads : ~Deleting(t, x)
    BY DEF Doomed
  <2>2. alive \subseteq Objects
    BY DEF HandleTypes
  <2>3. QED
    BY <2>1, <2>2 DEF Doomed
<1>6. QED
  BY <1>3, <1>4, <1>5

\* A handle that is not pending holds its object.
LEMMA IdleHolds ==
  ASSUME HandleTypes, NEW h \in Roots, ~Pending(h), refersTo[h] # Null
  PROVE  refersTo[h] \in Objects /\ h \in Holders(refersTo[h])
BY DEF HandleTypes, Holders, P!Handle

-----------------------------------------------------------------------------
(***************************************************************************)
(* The actions.                                                            *)
(***************************************************************************)

\* The first half of an assignment.
LEMMA AssignKeeps ==
  ASSUME Parted, HandlesInv, NEW h \in Roots, NEW source \in P!Readable(Owner[h]) \cup {Null},
         P!Assign(Owner[h], h, source)
  PROVE  HandlesInv'
<1> DEFINE t == Owner[h]
           b == P!BindTo(h, source)
<1>1. /\ HandleTypes /\ Counted /\ Held /\ Doomed /\ t \in Threads
      /\ alive \subseteq Objects
  BY DEF HandlesInv, Parted, HandleTypes
<1>2. /\ task[t] = P!Idle /\ UNCHANGED <<refersTo, alive, used, dangling>>
      /\ refersTo[h] # (IF source = Null THEN Null ELSE refersTo[source])
  BY DEF P!Assign
<1>3. source # h /\ (source # Null => source \in Roots /\ Owner[source] = t)
  BY <1>2 DEF P!Readable, Parted
<1>4. b \in Binds(t) /\ b.does = "bind" /\ b.handle = h
  BY <1>3 DEF Binds, P!BindTo
<1>5. \A g \in Roots : Owner[g] = t => ~Pending(g)
  BY <1>2, IdleHasNone
<1> HIDE DEF t, b
<1>6. CASE refersTo[h] = Null
  <2>1. task' = [task EXCEPT ![t] = b] /\ UNCHANGED links
    BY <1>6 DEF P!Assign, t, b
  <2>2. task'[t] = b /\ (\A u \in Threads \ {t} : task'[u] = task[u])
    BY <1>1, <2>1 DEF HandleTypes
  <2>3. \A g \in Roots \ {h} : Pending(g)' <=> Pending(g)
    BY <1>1, <1>4, <1>5, <2>2 DEF Pending, Parted
  <2>4. \A o \in Objects : Holders(o)' = Holders(o)
    BY <1>2, <1>6, <2>3 DEF Holders, Parted
  <2>5. \A u \in Threads, o \in Objects : Deleting(u, o)' <=> Deleting(u, o)
    BY <1>2, <1>4, <2>2 DEF Deleting, P!Idle
  <2>6. Counted' /\ Held' /\ Doomed'
    BY <1>1, <1>2, <2>1, <2>4, <2>5, NothingCounts
  <2>7. HandleTypes'
    BY <1>1, <1>2, <1>4, <2>1, <2>2 DEF HandleTypes
  <2>8. QED
    BY <2>6, <2>7 DEF HandlesInv
<1>7. CASE refersTo[h] # Null
  <2>0. PICK x : x = refersTo[h]
    OBVIOUS
  <2> DEFINE upon == IF links[x] = 1 THEN [does |-> "delete", what |-> x, then |-> b] ELSE b
  <2>1. /\ links' = [links EXCEPT ![x] = @ - 1]
        /\ task' = [task EXCEPT ![t] = upon]
    BY <1>7, <2>0 DEF P!Assign, P!Release, t, b
  <2>2. x \in Objects /\ h \in Holders(x)
    BY <1>1, <1>5, <1>7, <2>0, IdleHolds DEF t
  <2>3. task'[t] = upon /\ (\A u \in Threads \ {t} : task'[u] = task[u])
    BY <1>1, <2>1 DEF HandleTypes
  <2>4. (upon.does = "bind" /\ upon.handle = h) \/ (upon.does = "delete" /\ upon.then.handle = h)
    <3>1. CASE links[x] = 1
      BY <1>4, <3>1
    <3>2. CASE links[x] # 1
      BY <1>4, <3>2
    <3>3. QED
      BY <3>1, <3>2
  <2> HIDE DEF upon
  <2>5. Pending(h)' /\ \A g \in Roots \ {h} : Pending(g)' <=> Pending(g)
    <3>1. Pending(h)'
      BY <1>4, <2>3, <2>4 DEF Pending, t
    <3>2. ASSUME NEW g \in Roots \ {h} PROVE Pending(g)' <=> Pending(g)
      <4>1. CASE Owner[g] = t
        BY <1>4, <1>5, <2>3, <2>4, <4>1 DEF Pending
      <4>2. CASE Owner[g] # t
        BY <2>3, <4>2 DEF Pending, Parted
      <4>3. QED
        BY <4>1, <4>2
    <3>3. QED
      BY <3>1, <3>2
  <2>6. /\ Holders(x)' = Holders(x) \ {h}
        /\ \A o \in Objects \ {x} : Holders(o)' = Holders(o)
    BY <1>1, <1>2, <2>0, <2>5 DEF Holders, Parted
  <2>7. CountsOut(t, x, h, b)
    BY <2>1, <2>2, <2>6 DEF CountsOut, upon
  <2>8. \A o \in alive : ~Deleting(t, o)
    BY <1>2 DEF Deleting, P!Idle
  <2>9. /\ Counted' /\ Held' /\ Doomed'
        /\ links' \in [Objects -> Int] /\ task' = [u \in Threads |-> task'[u]]
        /\ \A u \in Threads : task'[u] \in {P!Idle} \cup Binds(u) \cup Deletes(u)
    BY <1>1, <1>2, <1>4, <2>2, <2>7, <2>8, CountsOutKeeps
  <2>10. QED
    BY <1>1, <1>2, <2>9 DEF HandlesInv, HandleTypes
<1>8. QED
  BY <1>6, <1>7

\* The second half of unbind, when the count came to zero: the object goes, and the handle
\* that it has lets go of its object in turn.
LEMMA DeleteKeeps ==
  ASSUME Parted, HandlesInv, NEW t \in Threads, P!Delete(t)
  PROVE  HandlesInv'
<1>0. PICK o, b, x : o = task[t].what /\ b = task[t].then /\ x = refersTo[o]
  OBVIOUS
<1>1. /\ HandleTypes /\ Counted /\ Held /\ Doomed /\ alive \subseteq Objects
  BY DEF HandlesInv, HandleTypes
<1>2. /\ task[t].does = "delete" /\ alive' = alive \ {o} /\ UNCHANGED <<refersTo, used>>
      /\ dangling' = (dangling \/ o \notin alive)
  BY <1>0 DEF P!Delete
<1>3. task[t] \in Deletes(t) /\ o \in Objects /\ b \in Binds(t)
  BY <1>1, <1>2, <1>0, KindsOf DEF Deletes
<1>4. b.does = "bind" /\ b.handle \in Roots /\ Owner[b.handle] = t
  BY <1>3 DEF Binds
<1>5. Deleting(t, o) /\ (\A p \in Objects : Deleting(t, p) <=> p = o)
  BY <1>0, <1>2 DEF Deleting
<1>6. o \in alive /\ Holders(o) = {} /\ (\A u \in Threads \ {t} : ~Deleting(u, o))
  BY <1>1, <1>3, <1>5 DEF Doomed
<1>7. o \notin Roots /\ refersTo \in [P!Handle -> Objects \cup {Null}] /\ o \in P!Handle
  BY <1>1, <1>3 DEF Parted, HandleTypes, P!Handle
<1>8. \A h \in Roots : Owner[h] = t => (Pending(h) <=> b.handle = h)
  BY <1>0, <1>2 DEF Pending
<1>9. ~dangling'
  BY <1>1, <1>2, <1>6 DEF HandleTypes
<1>10. alive' \subseteq used' /\ used' \subseteq Objects /\ refersTo' \in [P!Handle -> Objects \cup {Null}]
  BY <1>1, <1>2 DEF HandleTypes
<1>11. CASE x = Null
  <2>1. task' = [task EXCEPT ![t] = b] /\ UNCHANGED links
    BY <1>0, <1>11 DEF P!Delete
  <2>2. task'[t] = b /\ (\A u \in Threads \ {t} : task'[u] = task[u])
    BY <1>1, <2>1 DEF HandleTypes
  <2>3. \A h \in Roots : Pending(h)' <=> Pending(h)
    <3>1. ASSUME NEW h \in Roots PROVE Pending(h)' <=> Pending(h)
      <4>1. CASE Owner[h] = t
        BY <1>4, <1>8, <2>2, <4>1 DEF Pending
      <4>2. CASE Owner[h] # t
        BY <2>2, <4>2 DEF Pending, Parted
      <4>3. QED
        BY <4>1, <4>2
    <3>2. QED
      BY <3>1
  <2>4. \A p \in Objects : Holders(p)' = Holders(p)
    BY <1>0, <1>2, <1>11, <2>3 DEF Holders, Parted
  <2>5. /\ \A p \in Objects : ~Deleting(t, p)'
        /\ \A u \in Threads \ {t}, p \in Objects : Deleting(u, p)' <=> Deleting(u, p)
    BY <1>4, <2>2 DEF Deleting
  <2>6. Counted' /\ Held'
    BY <1>1, <1>2, <1>6, <2>1, <2>4 DEF Counted, Held
  <2>7. Doomed'
    <3>1. ASSUME NEW u \in Threads, NEW p \in Objects, Deleting(u, p)'
          PROVE  p \in alive' /\ Holders(p)' = {}
      <4>1. Deleting(u, p) /\ u # t
        BY <2>5, <3>1
      <4>2. QED
        BY <1>1, <1>2, <1>6, <2>4, <4>1 DEF Doomed
    <3>2. ASSUME NEW p \in alive', Holders(p)' = {} PROVE \E u \in Threads : Deleting(u, p)'
      <4>1. p \in alive /\ p # o /\ p \in Objects
        BY <1>1, <1>2, <3>2
      <4>2. Holders(p) = {}
        BY <2>4, <3>2, <4>1
      <4>3. PICK u \in Threads : Deleting(u, p)
        BY <1>1, <4>1, <4>2 DEF Doomed
      <4>4. u # t
        BY <1>5, <4>1, <4>3
      <4>5. QED
        BY <2>5, <4>1, <4>3, <4>4
    <3>3. ASSUME NEW u \in Threads, NEW v \in Threads, NEW p \in Objects,
                 Deleting(u, p)', Deleting(v, p)'
          PROVE  u = v
      BY <1>1, <2>5, <3>3 DEF Doomed
    <3>4. QED
      BY <3>1, <3>2, <3>3 DEF Doomed
  <2>8. QED
    BY <1>1, <1>3, <1>9, <1>10, <2>1, <2>2, <2>6, <2>7 DEF HandlesInv, HandleTypes
<1>12. CASE x # Null
  <2> DEFINE upon == IF links[x] = 1 THEN [does |-> "delete", what |-> x, then |-> b] ELSE b
  <2>1. links' = [links EXCEPT ![x] = @ - 1] /\ task' = [task EXCEPT ![t] = upon]
    BY <1>0, <1>12 DEF P!Delete, P!Release
  <2>2. x \in Objects /\ o \in Holders(x)
    BY <1>0, <1>6, <1>7, <1>12 DEF Holders
  <2>3. task'[t] = upon /\ (\A u \in Threads \ {t} : task'[u] = task[u])
    BY <1>1, <2>1 DEF HandleTypes
  <2>4. \/ upon.does = "bind" /\ upon.handle = b.handle
        \/ upon.does = "delete" /\ upon.then = b
    <3>1. CASE links[x] = 1
      BY <1>4, <3>1
    <3>2. CASE links[x] # 1
      BY <1>4, <3>2
    <3>3. QED
      BY <3>1, <3>2
  <2> HIDE DEF upon
  <2>5. \A h \in Roots : Pending(h)' <=> Pending(h)
    <3>1. ASSUME NEW h \in Roots PROVE Pending(h)' <=> Pending(h)
      <4>1. CASE Owner[h] = t
        BY <1>4, <1>8, <2>3, <2>4, <4>1 DEF Pending
      <4>2. CASE Owner[h] # t
        BY <2>3, <4>2 DEF Pending, Parted
      <4>3. QED
        BY <4>1, <4>2
    <3>2. QED
      BY <3>1
  <2>6. /\ Holders(x)' = Holders(x) \ {o}
        /\ \A p \in Objects \ {x} : Holders(p)' = Holders(p)
    <3>1. \A p \in Objects : Holders(p)' = Holders(p) \ {o}
      BY <1>2, <1>7, <2>5 DEF Holders
    <3>2. \A p \in Objects \ {x} : o \notin Holders(p)
      BY <1>0, <1>7 DEF Holders
    <3>3. ASSUME NEW p \in Objects \ {x} PROVE Holders(p)' = Holders(p)
      BY <3>1, <3>2, <3>3
    <3>4. QED
      BY <2>2, <3>1, <3>3
  <2>7. CountsOut(t, x, o, b)
    BY <2>1, <2>2, <2>6 DEF CountsOut, upon
  <2>8. alive' = {p \in alive : ~Deleting(t, p)}
    BY <1>1, <1>2, <1>5
  <2>9. /\ Counted' /\ Held' /\ Doomed'
        /\ links' \in [Objects -> Int] /\ task' = [u \in Threads |-> task'[u]]
        /\ \A u \in Threads : task'[u] \in {P!Idle} \cup Binds(u) \cup Deletes(u)
    BY <1>1, <1>3, <2>2, <2>7, <2>8, CountsOutKeeps
  <2>10. QED
    BY <1>9, <1>10, <2>9 DEF HandlesInv, HandleTypes
<1>13. QED
  BY <1>11, <1>12

\* The second half of an assignment, from a handle of the thread or from nothing.
LEMMA BindKeeps ==
  ASSUME Parted, HandlesInv, NEW t \in Threads, P!Bind(t)
  PROVE  HandlesInv'
<1>0. PICK h, source, x : /\ h = task[t].handle /\ source = task[t].from
                          /\ x = IF source = Null THEN Null ELSE refersTo[source]
  OBVIOUS
<1>1. /\ HandleTypes /\ Counted /\ Held /\ Doomed /\ alive \subseteq Objects
  BY DEF HandlesInv, HandleTypes
<1>2. /\ task[t].does = "bind" /\ refersTo' = [refersTo EXCEPT ![h] = x]
      /\ links' = (IF x = Null THEN links ELSE [links EXCEPT ![x] = @ + 1])
      /\ dangling' = (dangling \/ (source \in Objects /\ source \notin alive)
                               \/ (x # Null /\ x \notin alive))
      /\ task' = [task EXCEPT ![t] = P!Idle] /\ UNCHANGED <<alive, used>>
  BY <1>0 DEF P!Bind
<1>3. task[t] \in Binds(t)
  BY <1>1, <1>2, KindsOf
<1>4. /\ h \in Roots /\ Owner[h] = t /\ source \in Roots \cup {Null}
      /\ source # Null => Owner[source] = t /\ source # h
  BY <1>0, <1>3 DEF Binds
<1>5. \A g \in Roots : Owner[g] = t => (Pending(g) <=> g = h)
  BY <1>0, <1>2 DEF Pending
<1>6. x # Null => x \in Objects /\ source \in Holders(x) /\ source # h
  <2>1. ASSUME source # Null, refersTo[source] # Null PROVE x \in Objects /\ source \in Holders(x)
    <3>1. source \in Roots /\ ~Pending(source)
      BY <1>4, <1>5, <2>1
    <3>2. QED
      BY <1>0, <1>1, <2>1, <3>1, IdleHolds
  <2>2. QED
    BY <1>0, <1>4, <2>1
<1>7. task'[t] = P!Idle /\ (\A u \in Threads \ {t} : task'[u] = task[u])
  BY <1>1, <1>2 DEF HandleTypes
<1>8. \A g \in Roots : Pending(g)' <=> Pending(g) /\ g # h
  <2>1. ASSUME NEW g \in Roots PROVE Pending(g)' <=> Pending(g) /\ g # h
    <3>1. CASE Owner[g] = t
      BY <1>5, <1>7, <3>1 DEF Pending, P!Idle
    <3>2. CASE Owner[g] # t
      BY <1>4, <1>7, <3>2 DEF Pending, Parted
    <3>3. QED
      BY <3>1, <3>2
  <2>2. QED
    BY <2>1
<1>9. Pending(h)
  BY <1>4, <1>5
<1>10. /\ refersTo' \in [P!Handle -> Objects \cup {Null}] /\ refersTo'[h] = x
       /\ \A g \in P!Handle \ {h} : refersTo'[g] = refersTo[g]
  BY <1>1, <1>2, <1>4, <1>6 DEF HandleTypes, P!Handle
<1>11. h \notin Objects /\ (\A o \in Objects : h \notin Holders(o))
  BY <1>1, <1>4, <1>9 DEF Holders, Parted
<1>12. \A o \in Objects : Holders(o)' = IF o = x THEN Holders(o) \cup {h} ELSE Holders(o)
  <2>1. ASSUME NEW o \in Objects
        PROVE  Holders(o)' = IF o = x THEN Holders(o) \cup {h} ELSE Holders(o)
    <3>1. \A g \in Roots \ {h} : g \in Holders(o)' <=> g \in Holders(o)
      BY <1>1, <1>2, <1>8, <1>10 DEF Holders, P!Handle, Parted
    <3>2. \A p \in Objects : p \in Holders(o)' <=> p \in Holders(o)
      BY <1>1, <1>2, <1>10, <1>11 DEF Holders, P!Handle, Parted
    <3>3. h \in Holders(o)' <=> o = x
      BY <1>1, <1>2, <1>4, <1>8, <1>10, <1>11 DEF Holders
    <3>4. Holders(o) \subseteq Roots \cup Objects /\ Holders(o)' \subseteq Roots \cup Objects
      BY <1>1, <1>2 DEF Holders
    <3>5. QED
      BY <1>4, <1>11, <3>1, <3>2, <3>3, <3>4
  <2>2. QED
    BY <2>1
<1>13. \A u \in Threads, o \in Objects : Deleting(u, o)' <=> Deleting(u, o)
  BY <1>2, <1>7 DEF Deleting, P!Idle
<1>14. ~dangling'
  <2>1. source \notin Objects
    BY <1>4 DEF Parted
  <2>2. x # Null => x \in alive
    BY <1>1, <1>6 DEF Held
  <2>3. QED
    BY <1>1, <1>2, <2>1, <2>2 DEF HandleTypes
<1>15. Counted' /\ Held' /\ Doomed' /\ links' \in [Objects -> Int]
  <2>1. CASE x = Null
    <3>1. UNCHANGED <<links, alive>> /\ (\A o \in Objects : Holders(o)' = Holders(o))
      BY <1>2, <1>12, <2>1 DEF Parted
    <3>2. Counted' /\ Held' /\ Doomed'
      BY <1>1, <1>13, <3>1, NothingCounts
    <3>3. QED
      BY <1>1, <3>1, <3>2 DEF HandleTypes
  <2>2. CASE x # Null
    <3>1. /\ x \in Objects /\ Holders(x) # {} /\ h \notin Holders(x)
          /\ links' = [links EXCEPT ![x] = @ + 1] /\ UNCHANGED alive
          /\ Holders(x)' = Holders(x) \cup {h}
          /\ \A o \in Objects \ {x} : Holders(o)' = Holders(o)
      BY <1>2, <1>6, <1>11, <1>12, <2>2
    <3>2. QED
      BY <1>1, <1>13, <3>1, CountsIn
  <2>3. QED
    BY <2>1, <2>2
<1>16. QED
  BY <1>1, <1>2, <1>7, <1>10, <1>14, <1>15 DEF HandlesInv, HandleTypes

\* A new object, with a copy of one of the thread's handles in it.
LEMMA BindNewKeeps ==
  ASSUME Parted, HandlesInv, NEW h \in Roots, NEW o \in Objects,
         NEW inner \in {g \in Roots : Owner[g] = Owner[h]} \cup {Null},
         P!BindNew(Owner[h], h, o, inner)
  PROVE  HandlesInv'
<1>0. PICK x : x = IF inner = Null THEN Null ELSE refersTo[inner]
  OBVIOUS
<1>1. /\ HandleTypes /\ Counted /\ Held /\ Doomed /\ alive \subseteq Objects
  BY DEF HandlesInv, HandleTypes
<1>2. /\ task[Owner[h]] = P!Idle /\ refersTo[h] = Null /\ o \notin used
      /\ used' = used \cup {o} /\ alive' = alive \cup {o}
      /\ refersTo' = [refersTo EXCEPT ![h] = o, ![o] = x]
      /\ UNCHANGED <<task, dangling>>
  BY <1>0 DEF P!BindNew
<1>3. links' = [p \in Objects |-> IF p = o THEN 1 ELSE IF x = p THEN links[p] + 1 ELSE links[p]]
  BY <1>0 DEF P!BindNew, Parted
<1>4. ~Pending(h) /\ (\A g \in Roots : Owner[g] = Owner[h] => ~Pending(g))
  BY <1>2, IdleHasNone
<1>5. x # Null => x \in Objects /\ Holders(x) # {}
  BY <1>0, <1>1, <1>4, IdleHolds
<1>6. o \notin alive /\ Holders(o) = {} /\ o # x /\ (\A t \in Threads : ~Deleting(t, o))
  <2>1. o \notin alive
    BY <1>1, <1>2 DEF HandleTypes
  <2>2. Holders(o) = {} /\ (\A t \in Threads : ~Deleting(t, o))
    BY <1>1, <2>1 DEF Held, Doomed
  <2>3. QED
    BY <1>5, <2>1, <2>2 DEF Parted
<1>7. /\ refersTo' \in [P!Handle -> Objects \cup {Null}] /\ refersTo'[h] = o /\ refersTo'[o] = x
      /\ \A g \in P!Handle \ {h, o} : refersTo'[g] = refersTo[g]
  BY <1>1, <1>2, <1>5 DEF HandleTypes, P!Handle, Parted
<1>8. (\A g \in Roots : Pending(g)' <=> Pending(g))
      /\ (\A t \in Threads, p \in Objects : Deleting(t, p)' <=> Deleting(t, p))
  BY <1>2 DEF Pending, Deleting
<1>9. \A p \in Objects : Holders(p)' = IF p = o THEN {h}
                                       ELSE IF p = x THEN Holders(p) \cup {o} ELSE Holders(p)
  <2>1. ASSUME NEW p \in Objects
        PROVE  /\ \A g \in Roots \ {h} : g \in Holders(p)' <=> g \in Holders(p)
               /\ h \in Holders(p)' <=> p = o
               /\ h \notin Holders(p)
               /\ o \in Holders(p)' <=> p = x
               /\ o \notin Holders(p)
               /\ \A q \in Objects \ {o} : q \in Holders(p)' <=> q \in Holders(p)
               /\ Holders(p) \subseteq Roots \cup Objects /\ Holders(p)' \subseteq Roots \cup Objects
    <3>1. \A g \in Roots \ {h} : g \in Holders(p)' <=> g \in Holders(p)
      BY <1>1, <1>2, <1>7, <1>8 DEF Holders, P!Handle, Parted
    <3>2. (h \in Holders(p)' <=> p = o) /\ h \notin Holders(p)
      BY <1>1, <1>2, <1>4, <1>7, <1>8 DEF Holders, Parted
    <3>3. (o \in Holders(p)' <=> p = x) /\ o \notin Holders(p)
      BY <1>2, <1>6, <1>7 DEF Holders, Parted
    <3>4. \A q \in Objects \ {o} : q \in Holders(p)' <=> q \in Holders(p)
      BY <1>1, <1>2, <1>7 DEF Holders, P!Handle, Parted
    <3>5. Holders(p) \subseteq Roots \cup Objects /\ Holders(p)' \subseteq Roots \cup Objects
      BY <1>1, <1>2 DEF Holders
    <3>6. QED
      BY <3>1, <3>2, <3>3, <3>4, <3>5
  <2>2. ASSUME NEW p \in Objects
        PROVE  Holders(p)' = IF p = o THEN {h}
                             ELSE IF p = x THEN Holders(p) \cup {o} ELSE Holders(p)
    BY <1>6, <2>1
  <2>3. QED
    BY <2>2
<1>10. \A p \in Objects : Cardinality(Holders(p)') = IF p = o THEN 1
                          ELSE IF p = x THEN Cardinality(Holders(p)) + 1 ELSE Cardinality(Holders(p))
  <2>1. Cardinality({h}) = 1
    BY FS_Singleton
  <2>2. \A p \in Objects : IsFiniteSet(Holders(p)) /\ o \notin Holders(p)
    BY <1>1, <1>6, HoldersAre DEF Holders, Parted
  <2>3. \A p \in Objects : Cardinality(Holders(p) \cup {o}) = Cardinality(Holders(p)) + 1
    BY <2>2, OneMore
  <2>4. QED
    BY <1>9, <2>1, <2>3
<1>11. links' \in [Objects -> Int] /\ Counted'
  BY <1>1, <1>3, <1>10 DEF HandleTypes, Counted
<1>12. Held'
  <2>1. ASSUME NEW p \in Objects, Holders(p)' # {} PROVE p \in alive'
    <3>1. CASE p = o
      BY <1>2, <3>1
    <3>2. CASE p # o
      <4>1. Holders(p) # {}
        BY <1>5, <1>9, <2>1, <3>2 DEF Parted
      <4>2. QED
        BY <1>1, <1>2, <4>1 DEF Held
    <3>3. QED
      BY <3>1, <3>2
  <2>2. QED
    BY <2>1 DEF Held
<1>13. Doomed'
  <2>1. ASSUME NEW t \in Threads, NEW p \in Objects, Deleting(t, p)'
        PROVE  p \in alive' /\ Holders(p)' = {}
    <3>1. Deleting(t, p) /\ p \in alive /\ Holders(p) = {} /\ p # o
      BY <1>1, <1>6, <1>8, <2>1 DEF Doomed
    <3>2. QED
      BY <1>2, <1>5, <1>9, <3>1 DEF Parted
  <2>2. ASSUME NEW p \in alive', Holders(p)' = {} PROVE \E t \in Threads : Deleting(t, p)'
    <3>1. p \in Objects /\ p # o /\ p # x
      BY <1>1, <1>2, <1>9, <2>2
    <3>2. p \in alive /\ Holders(p) = {}
      BY <1>2, <1>9, <2>2, <3>1
    <3>3. QED
      BY <1>1, <1>8, <3>1, <3>2 DEF Doomed
  <2>3. ASSUME NEW t \in Threads, NEW u \in Threads, NEW p \in Objects,
               Deleting(t, p)', Deleting(u, p)'
        PROVE  t = u
    BY <1>1, <1>8, <2>3 DEF Doomed
  <2>4. QED
    BY <2>1, <2>2, <2>3 DEF Doomed
<1>14. HandleTypes'
  BY <1>1, <1>2, <1>7, <1>11 DEF HandleTypes
<1>15. QED
  BY <1>11, <1>12, <1>13, <1>14 DEF HandlesInv

\* A handle is copied from one resting thread to another.
LEMMA HandOverKeeps ==
  ASSUME Parted, HandlesInv, NEW h \in Roots, NEW g \in Roots, P!HandOver(Owner[h], Owner[g], h, g)
  PROVE  HandlesInv'
<1>0. PICK x : x = refersTo[h]
  OBVIOUS
<1>1. /\ HandleTypes /\ Counted /\ Held /\ Doomed /\ alive \subseteq Objects
  BY DEF HandlesInv, HandleTypes
<1>2. /\ task[Owner[h]] = P!Idle /\ task[Owner[g]] = P!Idle /\ x # Null /\ refersTo[g] = Null
      /\ refersTo' = [refersTo EXCEPT ![g] = x] /\ links' = [links EXCEPT ![x] = @ + 1]
      /\ UNCHANGED <<alive, used, task, dangling>>
  BY <1>0 DEF P!HandOver
<1>3. ~Pending(h) /\ ~Pending(g)
  BY <1>2, IdleHasNone
<1>4. x \in Objects /\ Holders(x) # {} /\ x \in alive
  BY <1>0, <1>1, <1>2, <1>3, IdleHolds DEF Held
<1>5. /\ refersTo' \in [P!Handle -> Objects \cup {Null}] /\ refersTo'[g] = x
      /\ \A f \in P!Handle \ {g} : refersTo'[f] = refersTo[f]
  BY <1>1, <1>2, <1>4 DEF HandleTypes, P!Handle
<1>6. \A o \in Objects : Holders(o)' = (IF o = x THEN Holders(o) \cup {g} ELSE Holders(o))
                         /\ g \notin Holders(o)
  <2>1. ASSUME NEW o \in Objects
        PROVE  Holders(o)' = (IF o = x THEN Holders(o) \cup {g} ELSE Holders(o)) /\ g \notin Holders(o)
    <3>1. g \notin Holders(o) /\ (g \in Holders(o)' <=> o = x)
      BY <1>1, <1>2, <1>3, <1>5 DEF Holders, Parted, Pending
    <3>2. \A f \in P!Handle \ {g} : f \in Holders(o)' <=> f \in Holders(o)
      BY <1>1, <1>2, <1>5 DEF Holders, P!Handle, Parted, Pending
    <3>3. Holders(o) \subseteq P!Handle /\ Holders(o)' \subseteq P!Handle
      BY <1>1, <1>2 DEF Holders, P!Handle
    <3>4. QED
      BY <3>1, <3>2, <3>3 DEF P!Handle
  <2>2. QED
    BY <2>1
<1>7. \A t \in Threads, o \in Objects : Deleting(t, o)' <=> Deleting(t, o)
  BY <1>2 DEF Deleting
<1>8. Counted' /\ Held' /\ Doomed' /\ links' \in [Objects -> Int]
  <2>1. /\ UNCHANGED alive /\ g \notin Holders(x) /\ Holders(x)' = Holders(x) \cup {g}
        /\ \A o \in Objects \ {x} : Holders(o)' = Holders(o)
    BY <1>2, <1>4, <1>6
  <2>2. QED
    BY <1>1, <1>2, <1>4, <1>7, <2>1, CountsIn
<1>9. QED
  BY <1>1, <1>2, <1>5, <1>8 DEF HandlesInv, HandleTypes

LEMMA HandlesInvInit == ASSUME Parted, P!Init PROVE HandlesInv
<1>1. \A o \in Objects : Holders(o) = {}
  BY DEF P!Init, Holders, P!Handle, Parted
<1>2. HandleTypes
  BY DEF P!Init, HandleTypes, P!Handle
<1>3. Counted /\ Held
  BY <1>1, FS_EmptySet DEF Counted, Held, P!Init
<1>4. Doomed
  BY DEF Doomed, P!Init, Deleting, P!Idle
<1>5. QED
  BY <1>2, <1>3, <1>4 DEF HandlesInv

LEMMA HandlesInvNext == ASSUME Parted, HandlesInv, P!Next \/ UNCHANGED handleVars PROVE HandlesInv'
<1>1. ASSUME NEW t \in Threads, P!Delete(t) PROVE HandlesInv'
  BY <1>1, DeleteKeeps
<1>2. ASSUME NEW t \in Threads, P!Bind(t) PROVE HandlesInv'
  BY <1>2, BindKeeps
<1>3. ASSUME NEW h \in Roots, NEW source \in P!Readable(Owner[h]) \cup {Null},
             P!Assign(Owner[h], h, source)
      PROVE  HandlesInv'
  BY <1>3, AssignKeeps
<1>4. ASSUME NEW h \in Roots, NEW o \in Objects,
             NEW inner \in {g \in Roots : Owner[g] = Owner[h]} \cup {Null},
             P!BindNew(Owner[h], h, o, inner)
      PROVE  HandlesInv'
  BY <1>4, BindNewKeeps
<1>5. ASSUME NEW h \in Roots, NEW g \in Roots, P!HandOver(Owner[h], Owner[g], h, g) PROVE HandlesInv'
  BY <1>5, HandOverKeeps
<1>6. CASE UNCHANGED handleVars
  <2>1. UNCHANGED <<refersTo, links, alive, used, task, dangling>>
    BY <1>6 DEF handleVars
  <2>2. /\ \A o \in Objects : Holders(o)' = Holders(o)
        /\ \A t \in Threads, o \in Objects : Deleting(t, o)' <=> Deleting(t, o)
    BY <2>1 DEF Holders, Pending, Deleting
  <2>3. HandleTypes'
    BY <2>1 DEF HandlesInv, HandleTypes
  <2>4. Counted' /\ Held' /\ Doomed'
    BY <2>1, <2>2, NothingCounts DEF HandlesInv, HandleTypes
  <2>5. QED
    BY <2>3, <2>4 DEF HandlesInv
<1>7. QED
  BY <1>1, <1>2, <1>3, <1>4, <1>5, <1>6 DEF P!Next

\* What the invariant says where the run looks.
LEMMA SameCardinality == \A A : P!Cardinality(A) = Cardinality(A)
BY DEF P!Cardinality, Cardinality

LEMMA HandlesInvSafe == ASSUME Parted, HandlesInv PROVE P!HandlesSafe
<1>1. HandleTypes /\ Counted /\ Held /\ Doomed
  BY DEF HandlesInv
<1>2. P!NothingDangles
  <2>1. ASSUME NEW h \in Roots, refersTo[h] # Null, task[Owner[h]] = P!Idle PROVE refersTo[h] \in alive
    BY <1>1, <2>1, IdleHasNone, IdleHolds DEF Held
  <2>2. QED
    BY <1>1, <2>1 DEF P!NothingDangles, HandleTypes
<1>3. P!HandlesOwn
  <2> SUFFICES ASSUME \A t \in Threads : task[t] = P!Idle, NEW o \in Objects
               PROVE  /\ o \in alive <=> {h \in Roots \cup alive : refersTo[h] = o} # {}
                      /\ o \in alive =>
                           links[o] = Cardinality({h \in Roots \cup alive : refersTo[h] = o})
    BY SameCardinality DEF P!HandlesOwn
  <2>1. \A h \in Roots : ~Pending(h)
    BY IdleHasNone DEF Parted
  <2>2. {h \in Roots \cup alive : refersTo[h] = o} = Holders(o)
    BY <2>1 DEF Holders
  <2>3. \A t \in Threads : ~Deleting(t, o)
    BY DEF Deleting, P!Idle
  <2>4. o \in alive <=> Holders(o) # {}
    BY <1>1, <2>3 DEF Held, Doomed
  <2>5. QED
    BY <1>1, <2>2, <2>4 DEF Counted
<1>4. QED
  BY <1>2, <1>3 DEF P!HandlesSafe

-----------------------------------------------------------------------------
(***************************************************************************)
(* The states of the field: they are linked one after the other, each at   *)
(* one place where its points begin, and one is freed either before it was *)
(* ever linked or with the pool in which its points begin.                 *)
(***************************************************************************)
CoreTypes ==
  /\ linkOf \in Seq(C!Fields \cup {Null})
  /\ first \in Nat /\ saved \in Nat
  /\ made \in 0..MaxFields /\ newState \in BOOLEAN
  /\ field = IF made = 0 THEN Null ELSE made
  /\ newState => made # 0
  /\ freed \in [C!Fields -> Nat]

\* The links of the points acquired, in order.
Linked(i, f) == i \in 1..Len(linkOf) /\ linkOf[i] = f
Begins(i, f) == Linked(i, f) /\ (i > 1 => linkOf[i - 1] # f)

LinksGrow ==
  /\ \A i, j \in 1..Len(linkOf) : i < j /\ linkOf[i] # Null =>
       linkOf[j] # Null /\ linkOf[i] <= linkOf[j]
  /\ \A i \in 1..Len(linkOf) : linkOf[i] # Null => linkOf[i] <= made
  /\ newState => \A i \in 1..Len(linkOf) : linkOf[i] # field

\* Why a state was freed, and what is in the index.
FreedFor(f) ==
  \/ f < made /\ \A i \in 1..Len(linkOf) : linkOf[i] # f
  \/ \E i \in 2..Len(linkOf) : i <= first /\ Begins(i, f)
FreedRight ==
  /\ \A f \in C!Fields : freed[f] <= 1 /\ (freed[f] = 1 => FreedFor(f))
  /\ \A f \in index : f \in C!Fields /\ freed[f] = 0 /\ \E i \in 1..Len(linkOf) : linkOf[i] = f

CoreInv == CoreTypes /\ LinksGrow /\ FreedRight

LEMMA CoreSizes ==
  /\ C!Fields = 1..MaxFields /\ Null \notin Nat
  /\ \A f \in C!Fields : f # Null /\ f \in Nat /\ f >= 1
  /\ MaxFields \in Nat /\ {RootSize, PoolSize, MemPools} \subseteq Nat \ {0} /\ MemPools <= RootSize
BY ContainersAssumption DEF C!Fields

\* A state begins at one place.
LEMMA BeginsOnce ==
  ASSUME CoreTypes, LinksGrow, NEW f \in C!Fields, NEW i, NEW j, Begins(i, f), Begins(j, f)
  PROVE  i = j
<1> USE CoreSizes
<1>1. i \in 1..Len(linkOf) /\ j \in 1..Len(linkOf) /\ linkOf[i] = f /\ linkOf[j] = f /\ Len(linkOf) \in Nat
  BY DEF Begins, Linked, CoreTypes
<1>2. ASSUME NEW a \in 1..Len(linkOf), NEW b \in 1..Len(linkOf), a < b, linkOf[a] = f, linkOf[b] = f
      PROVE  ~Begins(b, f)
  <2>1. b - 1 \in 1..Len(linkOf) /\ b > 1 /\ a <= b - 1 /\ b \in Int /\ a \in Int
    BY <1>1, <1>2
  <2> f # Null
    OBVIOUS
  <2>2. CASE a = b - 1
    BY <1>2, <2>1, <2>2 DEF Begins
  <2>3. CASE a < b - 1
    <3>1. linkOf[b - 1] # Null /\ linkOf[a] <= linkOf[b - 1]
      BY <1>2, <2>1, <2>3 DEF LinksGrow
    <3>2. linkOf[b - 1] <= linkOf[b]
      <4>1. b - 1 < b
        BY <2>1
      <4>2. QED
        BY <1>2, <2>1, <3>1, <4>1 DEF LinksGrow
    <3>5. linkOf[b - 1] \in C!Fields
      BY <2>1, <3>1 DEF CoreTypes
    <3>3. linkOf[b - 1] = f
      BY <1>2, <3>1, <3>2, <3>5
    <3>4. QED
      BY <2>1, <3>3 DEF Begins
  <2>4. QED
    BY <2>1, <2>2, <2>3, <1>1
<1>3. QED
  BY <1>1, <1>2

LEMMA SetFieldKeeps == ASSUME CoreInv, C!SetField PROVE CoreInv'
<1> USE CoreSizes
<1>1. CoreTypes /\ LinksGrow /\ FreedRight
  BY DEF CoreInv
<1>2. /\ made' = made + 1 /\ made < MaxFields /\ field' = made' /\ newState' = TRUE
      /\ UNCHANGED <<linkOf, first, saved, index>>
      /\ freed' = IF newState THEN [freed EXCEPT ![field] = @ + 1] ELSE freed
  BY DEF C!SetField
<1>3. Len(linkOf) \in Nat /\ made \in Nat /\ \A i \in 1..Len(linkOf) : linkOf[i] \in C!Fields \cup {Null}
  BY <1>1 DEF CoreTypes
<1>4. newState => field = made /\ made \in C!Fields /\ freed[made] = 0
  <2> SUFFICES ASSUME newState PROVE field = made /\ made \in C!Fields /\ freed[made] = 0
    OBVIOUS
  <2>1. field = made /\ made \in C!Fields
    BY <1>1 DEF CoreTypes
  <2>2. \A i \in 1..Len(linkOf) : linkOf[i] # made
    BY <1>1, <2>1 DEF LinksGrow
  <2>3. ~FreedFor(made)
    BY <1>3, <2>2 DEF FreedFor, Begins, Linked
  <2>4. QED
    BY <1>1, <2>1, <2>3 DEF FreedRight, CoreTypes
<1>5. CoreTypes'
  <2>1. made' \in 1..MaxFields
    BY <1>1, <1>2 DEF CoreTypes
  <2>2. freed' \in [C!Fields -> Nat]
    BY <1>1, <1>2, <1>4 DEF CoreTypes
  <2>3. QED
    BY <1>1, <1>2, <2>1, <2>2 DEF CoreTypes
<1>6. LinksGrow'
  <2>1. ASSUME NEW i \in 1..Len(linkOf) PROVE linkOf[i] # made + 1 /\ (linkOf[i] # Null => linkOf[i] <= made + 1)
    <3>1. CASE linkOf[i] = Null
      BY <1>3, <3>1
    <3>2. CASE linkOf[i] # Null
      BY <1>1, <1>3, <3>2 DEF LinksGrow
    <3>3. QED
      BY <3>1, <3>2
  <2>2. QED
    BY <1>1, <1>2, <2>1 DEF LinksGrow
<1>7. \A f \in C!Fields : FreedFor(f) => FreedFor(f)'
  BY <1>2, <1>3 DEF FreedFor, Begins, Linked
<1>8. ASSUME NEW f \in C!Fields PROVE freed'[f] <= 1 /\ (freed'[f] = 1 => FreedFor(f)')
  <2>1. CASE newState /\ f = made
    <3>1. freed'[f] = 1
      BY <1>1, <1>2, <1>4, <2>1 DEF CoreTypes
    <3>2. \A i \in 1..Len(linkOf) : linkOf[i] # made
      BY <1>1, <1>4, <2>1 DEF LinksGrow
    <3>3. FreedFor(f)'
      BY <1>2, <1>3, <2>1, <3>2 DEF FreedFor
    <3>4. QED
      BY <3>1, <3>3
  <2>2. CASE ~(newState /\ f = made)
    <3>1. freed'[f] = freed[f]
      BY <1>1, <1>2, <1>4, <2>2 DEF CoreTypes
    <3>2. QED
      BY <1>1, <1>7, <3>1 DEF FreedRight
  <2>3. QED
    BY <2>1, <2>2
<1>9. ASSUME NEW f \in index
      PROVE  f \in C!Fields /\ freed'[f] = 0 /\ \E i \in 1..Len(linkOf) : linkOf[i] = f
  <2>1. f \in C!Fields /\ freed[f] = 0 /\ \E i \in 1..Len(linkOf) : linkOf[i] = f
    BY <1>1, <1>9 DEF FreedRight
  <2>2. newState => f # made
    BY <1>1, <1>4, <2>1 DEF LinksGrow
  <2>3. QED
    BY <1>1, <1>2, <1>4, <2>1, <2>2 DEF CoreTypes
<1>10. FreedRight'
  BY <1>2, <1>8, <1>9 DEF FreedRight
<1>11. QED
  BY <1>5, <1>6, <1>10 DEF CoreInv

LEMMA AcquireKeeps == ASSUME CoreInv, C!Acquire PROVE CoreInv'
<1> USE CoreSizes
<1>1. CoreTypes /\ LinksGrow /\ FreedRight
  BY DEF CoreInv
<1>2. /\ linkOf' = Append(linkOf, field) /\ newState' = FALSE
      /\ index' = IF newState THEN index \cup {field} ELSE index
      /\ UNCHANGED <<saved, first, field, made, freed>>
  BY DEF C!Acquire
<1>3. Len(linkOf) \in Nat /\ made \in Nat /\ field \in C!Fields \cup {Null}
  BY <1>1 DEF CoreTypes
<1>4. /\ Len(linkOf') = Len(linkOf) + 1 /\ linkOf'[Len(linkOf) + 1] = field
      /\ \A i \in 1..Len(linkOf) : linkOf'[i] = linkOf[i]
      /\ linkOf' \in Seq(C!Fields \cup {Null})
  BY <1>1, <1>2, <1>3 DEF CoreTypes
<1>5. \A i \in 1..Len(linkOf') : i \in 1..Len(linkOf) \/ i = Len(linkOf) + 1
  BY <1>3, <1>4
<1>6. CoreTypes'
  BY <1>1, <1>2, <1>4 DEF CoreTypes
<1>7. LinksGrow'
  <2>1. ASSUME NEW i \in 1..Len(linkOf'), NEW j \in 1..Len(linkOf'), i < j, linkOf'[i] # Null
        PROVE  linkOf'[j] # Null /\ linkOf'[i] <= linkOf'[j]
    <3>1. i \in 1..Len(linkOf) /\ linkOf[i] <= made /\ linkOf[i] \in C!Fields
      BY <1>1, <1>3, <1>4, <1>5, <2>1 DEF LinksGrow, CoreTypes
    <3>2. CASE j \in 1..Len(linkOf)
      BY <1>1, <1>4, <2>1, <3>1, <3>2 DEF LinksGrow
    <3>3. CASE j = Len(linkOf) + 1
      <4>1. field = made
        BY <1>1, <3>1 DEF CoreTypes
      <4>2. linkOf'[i] = linkOf[i] /\ linkOf'[j] = made
        BY <1>4, <3>1, <3>3, <4>1
      <4>3. QED
        BY <1>3, <3>1, <4>2
    <3>4. QED
      BY <1>5, <3>2, <3>3
  <2>2. ASSUME NEW i \in 1..Len(linkOf'), linkOf'[i] # Null PROVE linkOf'[i] <= made
    <3>1. CASE i \in 1..Len(linkOf)
      BY <1>1, <1>4, <2>2, <3>1 DEF LinksGrow
    <3>2. CASE i = Len(linkOf) + 1
      BY <1>1, <1>3, <1>4, <2>2, <3>2 DEF CoreTypes
    <3>3. QED
      BY <1>5, <3>1, <3>2
  <2>3. QED
    BY <1>2, <2>1, <2>2 DEF LinksGrow
<1>8. ASSUME NEW f \in C!Fields, FreedFor(f) PROVE FreedFor(f)'
  <2>1. CASE f < made /\ \A i \in 1..Len(linkOf) : linkOf[i] # f
    <3>1. field # f
      BY <1>1, <2>1 DEF CoreTypes
    <3>2. QED
      BY <1>2, <1>4, <1>5, <2>1, <3>1 DEF FreedFor
  <2>2. CASE \E i \in 2..Len(linkOf) : i <= first /\ Begins(i, f)
    <3>1. PICK i \in 2..Len(linkOf) : i <= first /\ Begins(i, f)
      BY <2>2
    <3>4. i \in 1..Len(linkOf) /\ i - 1 \in 1..Len(linkOf) /\ i \in 2..Len(linkOf') /\ i \in 1..Len(linkOf')
      BY <1>3, <1>4
    <3>2. linkOf'[i] = linkOf[i] /\ linkOf'[i - 1] = linkOf[i - 1]
      BY <1>4, <3>4
    <3>3. Begins(i, f)'
      BY <3>1, <3>2, <3>4 DEF Begins, Linked
    <3>5. QED
      BY <1>2, <3>1, <3>4, <3>3 DEF FreedFor
  <2>3. QED
    BY <1>8, <2>1, <2>2 DEF FreedFor
<1>9. \A f \in C!Fields : freed'[f] <= 1 /\ (freed'[f] = 1 => FreedFor(f)')
  BY <1>1, <1>2, <1>8 DEF FreedRight
<1>10. ASSUME NEW f \in index'
       PROVE  f \in C!Fields /\ freed'[f] = 0 /\ \E i \in 1..Len(linkOf') : linkOf'[i] = f
  <2>1. CASE f \in index
    <3>1. f \in C!Fields /\ freed[f] = 0 /\ \E i \in 1..Len(linkOf) : linkOf[i] = f
      BY <1>1, <2>1 DEF FreedRight
    <3>2. QED
      BY <1>2, <1>3, <1>4, <3>1
  <2>2. CASE newState /\ f = field
    <3>1. f = made /\ f \in C!Fields
      BY <1>1, <2>2 DEF CoreTypes
    <3>2. \A i \in 1..Len(linkOf) : linkOf[i] # f
      BY <1>1, <2>2 DEF LinksGrow
    <3>3. ~FreedFor(f)
      BY <1>3, <3>1, <3>2 DEF FreedFor, Begins, Linked
    <3>4. freed[f] = 0
      BY <1>1, <3>1, <3>3 DEF FreedRight, CoreTypes
    <3>5. QED
      BY <1>2, <1>3, <1>4, <2>2, <3>1, <3>4
  <2>3. QED
    BY <1>2, <1>10, <2>1, <2>2
<1>11. FreedRight'
  BY <1>9, <1>10 DEF FreedRight
<1>12. QED
  BY <1>6, <1>7, <1>11 DEF CoreInv

\* The pools of memory are no more than those of the ring: the oldest pool was acquired.
LEMMA OldestPool ==
  ASSUME CoreTypes, saved + MemPools >= RootSize, first = (saved + MemPools - RootSize) * PoolSize,
         Len(linkOf) >= (saved + 1) * PoolSize
  PROVE  first + PoolSize <= Len(linkOf)
<1> DEFINE a == saved + MemPools - RootSize
           b == saved
<1>1. a \in Nat /\ b \in Nat /\ a <= b /\ PoolSize \in Nat /\ Len(linkOf) \in Nat
  BY ContainersAssumption DEF CoreTypes
<1>2. first = a * PoolSize /\ Len(linkOf) >= (b + 1) * PoolSize
  OBVIOUS
<1> HIDE DEF a, b
<1>3. (b + 1) * PoolSize = b * PoolSize + PoolSize
  BY <1>1
<1>4. a * PoolSize <= b * PoolSize
  <2>1. PICK d \in Nat : b = a + d
    BY <1>1
  <2>2. b * PoolSize = a * PoolSize + d * PoolSize
    BY <1>1, <2>1
  <2>3. d * PoolSize \in Nat /\ a * PoolSize \in Nat
    BY <1>1
  <2>4. QED
    BY <2>2, <2>3
<1>5. a * PoolSize \in Nat /\ b * PoolSize \in Nat
  BY <1>1
<1>6. QED
  BY <1>1, <1>2, <1>3, <1>4, <1>5

LEMMA GiveUpKeeps == ASSUME CoreInv, C!GiveUp PROVE CoreInv'
<1> USE CoreSizes
<1>1. CoreTypes /\ LinksGrow /\ FreedRight
  BY DEF CoreInv
<1> DEFINE gone == C!BegunIn(first)
<1>2. /\ freed' = [f \in C!Fields |-> IF f \in gone THEN freed[f] + 1 ELSE freed[f]]
      /\ index' = index \ gone /\ first' = first + PoolSize
      /\ UNCHANGED <<linkOf, saved, field, newState, made>>
  BY DEF C!GiveUp
<1>3. first + PoolSize <= Len(linkOf)
  BY <1>1, OldestPool DEF C!GiveUp
<1>4. Len(linkOf) \in Nat /\ first \in Nat /\ PoolSize \in Nat \ {0}
  BY <1>1 DEF CoreTypes
<1>5. ASSUME NEW f \in gone
      PROVE  f \in C!Fields /\ \E i \in 2..Len(linkOf) : i > first /\ i <= first + PoolSize /\ Begins(i, f)
  <2>1. PICK q \in first + 1..first + PoolSize - 1 :
          C!Link(q) # C!Link(q - 1) /\ f = C!Link(q) /\ f # Null
    BY <1>5 DEF C!BegunIn
  <2>2. q + 1 \in 2..Len(linkOf) /\ q + 1 > first /\ q + 1 <= first + PoolSize /\ q \in Nat /\ q >= 1
    BY <1>3, <1>4
  <2>3. linkOf[q + 1] = f /\ linkOf[(q + 1) - 1] # f
    BY <2>1, <2>2 DEF C!Link
  <2>4. Begins(q + 1, f)
    BY <2>2, <2>3 DEF Begins, Linked
  <2>5. f \in C!Fields
    BY <1>1, <2>1, <2>2, <2>3 DEF CoreTypes
  <2>6. QED
    BY <2>2, <2>4, <2>5
<1> HIDE DEF gone
<1>6. ASSUME NEW f \in C!Fields, f \in gone PROVE freed[f] = 0
  <2>1. PICK i \in 2..Len(linkOf) : i > first /\ i <= first + PoolSize /\ Begins(i, f)
    BY <1>5, <1>6
  <2>2. ~(\E j \in 2..Len(linkOf) : j <= first /\ Begins(j, f))
    BY <1>1, <1>4, <2>1, BeginsOnce
  <2>3. ~FreedFor(f)
    BY <2>1, <2>2 DEF FreedFor, Begins, Linked
  <2>4. QED
    BY <1>1, <2>3 DEF FreedRight, CoreTypes
<1>7. CoreTypes'
  BY <1>1, <1>2, <1>4 DEF CoreTypes
<1>8. LinksGrow'
  BY <1>1, <1>2 DEF LinksGrow
<1>9. ASSUME NEW f \in C!Fields PROVE freed'[f] <= 1 /\ (freed'[f] = 1 => FreedFor(f)')
  <2>1. CASE f \in gone
    <3>1. PICK i \in 2..Len(linkOf) : i > first /\ i <= first + PoolSize /\ Begins(i, f)
      BY <1>5, <2>1
    <3>2. Begins(i, f)'
      BY <1>2, <3>1 DEF Begins, Linked
    <3>3. FreedFor(f)'
      BY <1>2, <3>1, <3>2 DEF FreedFor
    <3>4. freed'[f] = 1
      BY <1>2, <1>6, <2>1
    <3>5. QED
      BY <3>3, <3>4
  <2>2. CASE f \notin gone
    <3>1. freed'[f] = freed[f]
      BY <1>2, <2>2
    <3>2. ASSUME FreedFor(f) PROVE FreedFor(f)'
      <4>1. CASE f < made /\ \A i \in 1..Len(linkOf) : linkOf[i] # f
        BY <1>2, <4>1 DEF FreedFor
      <4>2. CASE \E i \in 2..Len(linkOf) : i <= first /\ Begins(i, f)
        <5>1. PICK i \in 2..Len(linkOf) : i <= first /\ Begins(i, f)
          BY <4>2
        <5>2. i <= first + PoolSize /\ Begins(i, f)'
          BY <1>2, <1>4, <5>1 DEF Begins, Linked
        <5>3. QED
          BY <1>2, <5>1, <5>2 DEF FreedFor
      <4>3. QED
        BY <3>2, <4>1, <4>2 DEF FreedFor
    <3>3. QED
      BY <1>1, <3>1, <3>2 DEF FreedRight
  <2>3. QED
    BY <2>1, <2>2
<1>10. FreedRight'
  <2>1. ASSUME NEW f \in index' PROVE f \in C!Fields /\ freed'[f] = 0 /\ \E i \in 1..Len(linkOf') : linkOf'[i] = f
    <3>1. f \in index /\ f \notin gone
      BY <1>2, <2>1
    <3>2. f \in C!Fields /\ freed[f] = 0 /\ \E i \in 1..Len(linkOf) : linkOf[i] = f
      BY <1>1, <3>1 DEF FreedRight
    <3>3. QED
      BY <1>2, <3>1, <3>2
  <2>2. QED
    BY <1>9, <2>1 DEF FreedRight
<1>11. QED
  BY <1>7, <1>8, <1>10 DEF CoreInv

LEMMA CoreInvNext == ASSUME CoreInv, C!Next \/ UNCHANGED coreVars PROVE CoreInv'
<1>1. CASE C!SetField
  BY <1>1, SetFieldKeeps
<1>2. CASE C!Acquire
  BY <1>2, AcquireKeeps
<1>3. CASE C!GiveUp
  BY <1>3, GiveUpKeeps
<1>4. CASE C!FixLink \/ C!Save \/ UNCHANGED coreVars
  <2>1. UNCHANGED <<linkOf, first, field, newState, made, index, freed>> /\ saved' \in {saved, saved + 1}
    BY <1>4 DEF C!FixLink, C!Save, coreVars
  <2>2. CoreTypes'
    BY <2>1 DEF CoreInv, CoreTypes
  <2>3. LinksGrow'
    BY <2>1 DEF CoreInv, LinksGrow
  <2>4. FreedRight'
    BY <2>1 DEF CoreInv, FreedRight, FreedFor, Begins, Linked
  <2>5. QED
    BY <2>2, <2>3, <2>4 DEF CoreInv
<1>5. QED
  BY <1>1, <1>2, <1>3, <1>4 DEF C!Next

LEMMA CoreInvInit == ASSUME C!Init PROVE CoreInv
<1> USE CoreSizes
<1>1. /\ linkOf = <<>> /\ saved = 0 /\ first = 0 /\ field = Null /\ newState = FALSE /\ made = 0
      /\ index = {} /\ freed = [f \in C!Fields |-> 0]
  BY DEF C!Init
<1>2. CoreTypes
  <2>1. linkOf \in Seq(C!Fields \cup {Null})
    BY <1>1
  <2>2. freed \in [C!Fields -> Nat]
    BY <1>1
  <2>3. made \in 0..MaxFields /\ first \in Nat /\ saved \in Nat
    BY <1>1
  <2>4. newState \in BOOLEAN /\ field = (IF made = 0 THEN Null ELSE made) /\ (newState => made # 0)
    BY <1>1
  <2>5. QED
    BY <2>1, <2>2, <2>3, <2>4 DEF CoreTypes
<1>3. Len(linkOf) = 0
  BY <1>1
<1>4. LinksGrow
  BY <1>1, <1>3 DEF LinksGrow
<1>5. FreedRight
  BY <1>1 DEF FreedRight
<1>6. QED
  BY <1>2, <1>4, <1>5 DEF CoreInv

LEMMA CoreInvSafe == ASSUME CoreInv PROVE C!FieldsFreedOnce
BY DEF CoreInv, FreedRight, C!FieldsFreedOnce

-----------------------------------------------------------------------------
(***************************************************************************)
(* The Tracer: the interval in the cache is one that is there, and the     *)
(* next iterator is the one behind it.                                     *)
(***************************************************************************)

Largest(A, x) == x \in A /\ \A y \in A : y <= x
Smallest(A, x) == x \in A /\ \A y \in A : x <= y
Bounded(A) == (\E x : Largest(A, x)) /\ (\E x : Smallest(A, x))

\* Of finitely many integers one is the largest and one the smallest.
LEMMA FiniteBounded ==
  ASSUME NEW A \in SUBSET Int, IsFiniteSet(A), A # {}
  PROVE  Bounded(A)
<1> DEFINE Wrong == {n \in Nat : \E B \in SUBSET Int : /\ IsFiniteSet(B) /\ B # {}
                                                       /\ Cardinality(B) = n /\ ~Bounded(B)}
<1> SUFFICES Wrong = {}
  <2>1. Cardinality(A) \in Nat
    BY FS_CardinalityType
  <2>2. QED
    BY <2>1
<1> SUFFICES ASSUME Wrong # {} PROVE FALSE
  OBVIOUS
<1>1. Wrong \subseteq Nat
  OBVIOUS
<1>2. PICK n \in Wrong : \A m \in Wrong : ~ (<<m, n>> \in OpToRel(<, Nat))
  <2> HIDE DEF Wrong
  <2> QED
    BY <1>1, NatLessThanWellFounded, WFMin
<1>3. \A a, b \in Nat : <<a, b>> \in OpToRel(<, Nat) <=> a < b
  BY DEF OpToRel
<1>4. PICK B \in SUBSET Int : IsFiniteSet(B) /\ B # {} /\ Cardinality(B) = n /\ ~Bounded(B)
  BY <1>2
<1>5. PICK x \in B : TRUE
  BY <1>4
<1>6. IsFiniteSet(B \ {x}) /\ Cardinality(B \ {x}) = n - 1 /\ n - 1 \in Nat /\ n \in Nat
  <2>1. IsFiniteSet(B \ {x}) /\ Cardinality(B \ {x}) = n - 1
    BY <1>4, <1>5, FS_RemoveElement
  <2>2. n - 1 \in Nat
    BY <2>1, FS_CardinalityType
  <2>3. QED
    BY <1>1, <1>2, <2>1, <2>2
<1>7. CASE B = {x}
  <2>1. Largest(B, x) /\ Smallest(B, x)
    BY <1>5, <1>7 DEF Largest, Smallest
  <2>2. QED
    BY <1>4, <2>1 DEF Bounded
<1>8. CASE B # {x}
  <2>1. B \ {x} # {} /\ B \ {x} \in SUBSET Int
    BY <1>5, <1>8
  <2>2. n - 1 \notin Wrong
    <3>1. n - 1 < n
      BY <1>6
    <3>2. QED
      BY <1>2, <1>3, <1>6, <3>1
  <2>3. Bounded(B \ {x})
    BY <1>6, <2>1, <2>2
  <2>4. PICK l, s : Largest(B \ {x}, l) /\ Smallest(B \ {x}, s)
    BY <2>3 DEF Bounded
  <2>5. x \in Int /\ l \in Int /\ s \in Int /\ l \in B /\ s \in B
    BY <1>5, <2>4 DEF Largest, Smallest
  <2>6. Largest(B, IF l <= x THEN x ELSE l)
    <3>1. ASSUME NEW y \in B PROVE y <= (IF l <= x THEN x ELSE l)
      BY <2>4, <2>5 DEF Largest
    <3>2. QED
      BY <1>5, <2>5, <3>1 DEF Largest
  <2>7. Smallest(B, IF x <= s THEN x ELSE s)
    <3>1. ASSUME NEW y \in B PROVE (IF x <= s THEN x ELSE s) <= y
      BY <2>4, <2>5 DEF Smallest
    <3>2. QED
      BY <1>5, <2>5, <3>1 DEF Smallest
  <2>8. QED
    BY <1>4, <2>6, <2>7 DEF Bounded
<1>9. QED
  BY <1>7, <1>8

LEMMA LargestIs ==
  ASSUME NEW A \in SUBSET Int, IsFiniteSet(A), A # {}
  PROVE  Largest(A, T!Max(A))
<1>1. PICK x : Largest(A, x)
  BY FiniteBounded DEF Bounded
<1>2. x \in A /\ \A y \in A : x >= y
  BY <1>1 DEF Largest
<1>3. T!Max(A) \in A /\ \A y \in A : T!Max(A) >= y
  BY <1>2 DEF T!Max
<1>4. QED
  BY <1>3 DEF Largest

LEMMA SmallestIs ==
  ASSUME NEW A \in SUBSET Int, IsFiniteSet(A), A # {}
  PROVE  Smallest(A, T!Min(A))
<1>1. PICK x : Smallest(A, x)
  BY FiniteBounded DEF Bounded
<1>2. x \in A /\ \A y \in A : x <= y
  BY <1>1 DEF Smallest
<1>3. T!Min(A) \in A /\ \A y \in A : T!Min(A) <= y
  BY <1>2 DEF T!Min
<1>4. QED
  BY <1>3 DEF Smallest

LEMMA LargestOnce ==
  ASSUME NEW A \in SUBSET Int, NEW x, NEW y, Largest(A, x), Largest(A, y)
  PROVE  x = y
BY DEF Largest

\* -infinity is below the keys and the end above them.
LEMMA EndsOfKeys ==
  /\ T!Lowest \in Int /\ T!End \in Int /\ T!Lowest < T!End /\ T!Absent \in Int
  /\ T!Absent > T!End
  /\ \A k \in TracerKeys : k \in Int /\ T!Lowest < k /\ k < T!End
<1>1. TracerKeys \in SUBSET Int /\ IsFiniteSet(TracerKeys) /\ TracerKeys # {}
  BY ContainersAssumption
<1>2. Largest(TracerKeys, T!Max(TracerKeys)) /\ Smallest(TracerKeys, T!Min(TracerKeys))
  BY <1>1, LargestIs, SmallestIs
<1>3. T!Max(TracerKeys) \in Int /\ T!Min(TracerKeys) \in Int /\ T!Min(TracerKeys) <= T!Max(TracerKeys)
  BY <1>1, <1>2 DEF Largest, Smallest
<1>4. ASSUME NEW k \in TracerKeys PROVE k \in Int /\ T!Min(TracerKeys) <= k /\ k <= T!Max(TracerKeys)
  BY <1>1, <1>2 DEF Largest, Smallest
<1>5. QED
  BY <1>3, <1>4 DEF T!Lowest, T!End, T!Absent

Marks == DOMAIN entries
TracerInv ==
  /\ Marks \subseteq TracerKeys \cup {T!Lowest} /\ T!Lowest \in Marks
  /\ recent # next => recent \in Marks /\ next = T!Follower(entries, recent)
  /\ T!SelectFindsInterval

LEMMA MarksFinite ==
  ASSUME TracerInv
  PROVE  Marks \in SUBSET Int /\ IsFiniteSet(Marks)
<1>1. IsFiniteSet(TracerKeys \cup {T!Lowest})
  BY ContainersAssumption, FS_AddElement
<1>2. IsFiniteSet(Marks)
  BY <1>1, FS_Subset DEF TracerInv
<1>3. QED
  BY <1>2, EndsOfKeys DEF TracerInv

LEMMA FloorIs ==
  ASSUME TracerInv, NEW k \in TracerKeys
  PROVE  Largest({q \in Marks : q <= k}, T!Floor(entries, k))
<1>1. {q \in Marks : q <= k} \in SUBSET Int /\ IsFiniteSet({q \in Marks : q <= k})
  BY MarksFinite, FS_Subset
<1>2. T!Lowest \in {q \in Marks : q <= k}
  BY EndsOfKeys DEF TracerInv
<1>3. T!Floor(entries, k) = T!Max({q \in Marks : q <= k})
  BY DEF T!Floor, Marks
<1>4. QED
  BY <1>1, <1>2, <1>3, LargestIs

\* Whichever way select takes, it finds the last interval that begins at the key or below.
LEMMA FoundIsFloor ==
  ASSUME TracerInv, NEW k \in TracerKeys
  PROVE  T!Found(k) = T!Floor(entries, k) /\ T!Found(k) \in Marks
<1>1. k \in Int /\ T!Lowest < k /\ k < T!End /\ T!End \in Int
  BY EndsOfKeys
<1>2. Marks \in SUBSET Int /\ IsFiniteSet(Marks) /\ T!Lowest \in Marks
  BY MarksFinite DEF TracerInv
<1>3. \A q \in Marks : q < T!End /\ q \in Int
  BY <1>2, EndsOfKeys DEF TracerInv
<1> DEFINE Below == {q \in Marks : q <= k}
           After(m) == {q \in Marks : q > m}
           From == {q \in Marks : q >= k}
           last == T!Max(Marks)
           lower == T!Min({T!End} \cup From)
<1>4. Below \in SUBSET Int /\ Largest(Below, T!Floor(entries, k))
  BY <1>2, FloorIs
<1>5. SUFFICES Largest(Below, T!Found(k))
  BY <1>4, <1>5, LargestOnce DEF Largest
<1>6. CASE T!InCache(k)
  <2>1. recent \in Marks /\ next = T!Min({T!End} \cup After(recent)) /\ recent <= k
        /\ (next = T!End \/ next > k) /\ T!Found(k) = recent
    BY <1>6 DEF TracerInv, T!InCache, T!Follower, T!Found, Marks
  <2>2. {T!End} \cup After(recent) \in SUBSET Int /\ IsFiniteSet({T!End} \cup After(recent))
    <3>1. IsFiniteSet(After(recent))
      BY <1>2, FS_Subset
    <3>2. IsFiniteSet(After(recent) \cup {T!End}) /\ After(recent) \in SUBSET Int
      BY <1>2, <3>1, FS_AddElement
    <3>3. {T!End} \cup After(recent) = After(recent) \cup {T!End}
      OBVIOUS
    <3> HIDE DEF After
    <3>4. QED
      BY <1>1, <3>2, <3>3
  <2>3. Smallest({T!End} \cup After(recent), next)
    BY <2>1, <2>2, SmallestIs
  <2>4. ASSUME NEW q \in Below PROVE q <= recent
    <3>1. q \in Marks /\ q <= k /\ q < T!End /\ q \in Int /\ recent \in Int
      BY <1>2, <1>3, <2>1
    <3>2. SUFFICES ASSUME q > recent PROVE FALSE
      BY <3>1
    <3>3. next <= q /\ next \in Int
      BY <2>2, <2>3, <3>1, <3>2 DEF Smallest
    <3>4. QED
      BY <1>1, <2>1, <3>1, <3>3
  <2>5. QED
    BY <2>1, <2>4 DEF Largest
<1>7. Largest(Marks, last)
  BY <1>2, LargestIs
<1>8. CASE ~T!InCache(k) /\ last <= k
  <2>1. T!Found(k) = last
    BY <1>8 DEF T!Found, Marks
  <2>2. QED
    BY <1>7, <1>8, <2>1 DEF Largest
<1>9. CASE ~T!InCache(k) /\ ~(last <= k)
  <2>1. {T!End} \cup From \in SUBSET Int /\ IsFiniteSet({T!End} \cup From)
    <3>1. IsFiniteSet(From)
      BY <1>2, FS_Subset
    <3>2. IsFiniteSet(From \cup {T!End}) /\ From \in SUBSET Int
      BY <1>2, <3>1, FS_AddElement
    <3>3. {T!End} \cup From = From \cup {T!End}
      OBVIOUS
    <3> HIDE DEF From
    <3>4. QED
      BY <1>1, <3>2, <3>3
  <2>2. Smallest({T!End} \cup From, lower)
    BY <2>1, SmallestIs
  <2> HIDE DEF last, lower
  <2>3. CASE lower = k
    <3>1. T!Found(k) = k
      BY <1>9, <2>3 DEF T!Found, Marks, last, lower
    <3>2. k \in Marks
      BY <1>1, <2>2, <2>3 DEF Smallest
    <3>3. QED
      BY <1>1, <3>1, <3>2 DEF Largest
  <2>4. CASE lower # k
    <3>1. T!Found(k) = T!Max({q \in Marks : q < lower})
      BY <1>9, <2>4 DEF T!Found, Marks, last, lower
    <3>2. lower \in Int /\ lower > k
      BY <1>1, <2>1, <2>2, <2>4 DEF Smallest
    <3>3. ASSUME NEW q \in Marks PROVE q < lower <=> q <= k
      <4>1. q \in Int
        BY <1>3
      <4>2. CASE q <= k
        BY <1>1, <3>2, <4>1, <4>2
      <4>3. CASE ~(q <= k)
        BY <1>1, <2>2, <3>2, <4>1, <4>3 DEF Smallest
      <4>4. QED
        BY <4>2, <4>3
    <3>4. {q \in Marks : q < lower} = Below
      BY <3>3
    <3>5. IsFiniteSet(Below) /\ T!Lowest \in Below
      BY <1>1, <1>2, FS_Subset, EndsOfKeys
    <3>6. QED
      BY <1>4, <3>1, <3>4, <3>5, LargestIs
  <2>5. QED
    BY <2>3, <2>4
<1>10. QED
  BY <1>6, <1>8, <1>9

LEMMA TracerInvNext == ASSUME TracerInv, T!Next \/ UNCHANGED tracerVars PROVE TracerInv'
<1>1. ASSUME NEW k \in TracerKeys, T!Select(k) PROVE TracerInv'
  <2>1. T!Found(k) = T!Floor(entries, k) /\ T!Found(k) \in Marks
    BY FoundIsFloor
  <2>2. /\ recent' = T!Found(k) /\ entries' = entries
        /\ next' = IF T!InCache(k) THEN next ELSE T!Follower(entries, T!Found(k))
        /\ answer' = [key |-> k, found |-> T!Found(k)]
    BY <1>1 DEF T!Select
  <2>3. T!InCache(k) => recent = T!Found(k) /\ recent # next
    BY DEF T!InCache, T!Found
  <2>4. recent' \in Marks /\ next' = T!Follower(entries, recent')
    BY <2>1, <2>2, <2>3 DEF TracerInv
  <2>5. T!Follower(entries', recent') = T!Follower(entries, recent') /\ Marks' = Marks
    BY <2>2 DEF Marks
  <2>6. answer'.key = k /\ answer'.found = T!Floor(entries', k)
    BY <2>1, <2>2
  <2>7. T!SelectFindsInterval'
    BY <2>6 DEF T!SelectFindsInterval
  <2>8. QED
    BY <2>4, <2>5, <2>7 DEF TracerInv
<1>2. ASSUME recent' = next', answer' = T!NoAnswer, Marks' \subseteq TracerKeys \cup {T!Lowest},
             T!Lowest \in Marks'
      PROVE  TracerInv'
  BY <1>2 DEF TracerInv, T!SelectFindsInterval
<1>3. ASSUME NEW keys, entries' = T!Without(keys \ {T!Lowest}), T!ClearCache, answer' = T!NoAnswer
      PROVE  TracerInv'
  <2>1. Marks' = Marks \ (keys \ {T!Lowest})
    BY <1>3 DEF T!Without, Marks
  <2>2. QED
    BY <1>2, <1>3, <2>1 DEF TracerInv, T!ClearCache
<1>4. ASSUME NEW k \in TracerKeys, T!Remove(k) PROVE TracerInv'
  BY <1>3, <1>4 DEF T!Remove
<1>5. ASSUME NEW k \in TracerKeys, NEW v \in Values, T!Append(k, v) PROVE TracerInv'
  <2>1. CASE k \in Marks
    <3>1. UNCHANGED <<entries, recent, next>> /\ answer' = T!NoAnswer
      BY <1>5, <2>1 DEF T!Append, Marks
    <3>2. T!SelectFindsInterval'
      BY <3>1 DEF T!SelectFindsInterval
    <3>3. QED
      BY <3>1, <3>2 DEF TracerInv, Marks, T!Follower
  <2>2. CASE k \notin Marks
    <3>1. Marks' = Marks \cup {k} /\ T!ClearCache /\ answer' = T!NoAnswer
      BY <1>5, <2>2 DEF T!Append, Marks
    <3>2. QED
      BY <1>2, <3>1 DEF TracerInv, T!ClearCache
  <2>3. QED
    BY <2>1, <2>2
<1>6. ASSUME NEW low, NEW high, T!EraseRange(low, high) PROVE TracerInv'
  <2>1. {q \in DOMAIN entries \ {T!Lowest} : low <= q /\ q < high}
          = {q \in DOMAIN entries : low <= q /\ q < high} \ {T!Lowest}
    OBVIOUS
  <2>2. QED
    BY <1>3, <1>6, <2>1 DEF T!EraseRange
<1>7. CASE T!Clear
  BY <1>3, <1>7 DEF T!Clear
<1>8. CASE UNCHANGED tracerVars
  BY <1>8 DEF tracerVars, TracerInv, Marks, T!SelectFindsInterval, T!Follower, T!Floor
<1>9. QED
  BY <1>1, <1>4, <1>5, <1>6, <1>7, <1>8 DEF T!Next

LEMMA TracerInvInit == ASSUME T!Init PROVE TracerInv
<1>1. Marks = {T!Lowest} /\ recent = next /\ answer = T!NoAnswer
  BY DEF T!Init, Marks
<1>2. QED
  BY <1>1 DEF TracerInv, T!SelectFindsInterval

-----------------------------------------------------------------------------
(***************************************************************************)
(* Spectra: the arrays are longer than the points, which are those given.  *)
(***************************************************************************)

\* A sequence, of whatever it holds: the background that is taken from the points is not
\* looked at.
Row(p) == p \in Seq({p[i] : i \in DOMAIN p})

SpectrumRight(sp) ==
  /\ sp \in [points : {sp.points}, reserved : Nat, smooth : Nat]
  /\ Row(sp.points) /\ Len(sp.points) < sp.reserved

SpectrumInv ==
  /\ intact = TRUE
  /\ spectra = [s \in Spectra |-> spectra[s]] /\ given = [s \in Spectra |-> given[s]]
  /\ \A s \in Spectra : SpectrumRight(spectra[s]) /\ spectra[s].points = given[s]

LEMMA RowIs ==
  ASSUME NEW A, NEW p
  PROVE  (p \in Seq(A)) <=> (Row(p) /\ \A i \in DOMAIN p : p[i] \in A)
<1> DEFINE B == {p[i] : i \in DOMAIN p}
<1>1. ASSUME p \in Seq(A) PROVE p \in Seq(B) /\ \A i \in DOMAIN p : p[i] \in A
  <2>1. Len(p) \in Nat /\ p \in [1..Len(p) -> A]
    BY <1>1
  <2>2. p \in [1..Len(p) -> B]
    BY <2>1
  <2> HIDE DEF B
  <2>3. QED
    BY <2>1, <2>2
<1>2. ASSUME p \in Seq(B), \A i \in DOMAIN p : p[i] \in A PROVE p \in Seq(A)
  <2>1. B \subseteq A
    BY <1>2
  <2> HIDE DEF B
  <2>2. QED
    BY <1>2, <2>1, SeqMonotonic
<1>3. QED
  BY <1>1, <1>2 DEF Row

LEMMA RowAppend ==
  ASSUME NEW p, Row(p), NEW v
  PROVE  Row(Append(p, v)) /\ Len(Append(p, v)) = Len(p) + 1 /\ Len(p) \in Nat
<1>1. PICK A : A = {p[i] : i \in DOMAIN p} \cup {v}
  OBVIOUS
<1>2. p \in Seq(A) /\ v \in A
  BY <1>1, RowIs
<1>3. Append(p, v) \in Seq(A) /\ Len(Append(p, v)) = Len(p) + 1 /\ Len(p) \in Nat
  BY <1>2
<1>4. QED
  BY <1>3, RowIs

LEMMA RowCompensated ==
  ASSUME NEW p, Row(p), NEW level
  PROVE  /\ Row([i \in DOMAIN p |-> p[i] - level])
         /\ Len([i \in DOMAIN p |-> p[i] - level]) = Len(p) /\ Len(p) \in Nat
<1>1. DOMAIN p = 1..Len(p) /\ Len(p) \in Nat
  BY DEF Row
<1> DEFINE c == [i \in DOMAIN p |-> p[i] - level]
<1>2. DOMAIN c = 1..Len(p) /\ c \in [1..Len(p) -> {c[i] : i \in DOMAIN c}]
  BY <1>1
<1> HIDE DEF c
<1>3. c \in Seq({c[i] : i \in DOMAIN c}) /\ Len(c) = Len(p)
  BY <1>1, <1>2
<1>4. QED
  BY <1>1, <1>3 DEF Row, c

LEMMA LargerOfTwo ==
  ASSUME NEW a \in Nat, NEW b \in Nat
  PROVE  S!Max({a, b}) \in Nat /\ S!Max({a, b}) >= a /\ S!Max({a, b}) >= b
<1>1. \E x \in {a, b} : \A y \in {a, b} : x >= y
  BY a <= b \/ b <= a
<1>2. S!Max({a, b}) \in {a, b} /\ \A y \in {a, b} : S!Max({a, b}) >= y
  BY <1>1 DEF S!Max
<1>3. QED
  BY <1>2

\* A point is added, and arrays that are full grow.
LEMMA AddedRight ==
  ASSUME NEW sp, SpectrumRight(sp), NEW v
  PROVE  SpectrumRight(S!Added(sp, v)) /\ S!Added(sp, v).points = Append(sp.points, v)
<1>1. PICK p : p = Append(sp.points, v)
  OBVIOUS
<1>2. Row(p) /\ Len(p) = Len(sp.points) + 1 /\ Len(sp.points) \in Nat /\ Reserve \in Nat /\ Reserve > 0
  BY <1>1, RowAppend, ContainersAssumption DEF SpectrumRight
<1>3. PICK tp : tp = [sp EXCEPT !.points = Append(@, v)]
  OBVIOUS
<1>4. tp = [points |-> p, reserved |-> sp.reserved, smooth |-> sp.smooth]
      /\ sp.reserved \in Nat /\ sp.smooth \in Nat /\ Len(sp.points) < sp.reserved
  BY <1>1, <1>3 DEF SpectrumRight
<1>5. S!Added(sp, v) = [points |-> p, smooth |-> sp.smooth,
                        reserved |-> IF Len(p) = sp.reserved THEN sp.reserved + Reserve ELSE sp.reserved]
  <2>1. S!Added(sp, v) = S!Grown(tp)
    BY <1>3 DEF S!Added
  <2>2. tp.reserved = sp.reserved /\ tp.points = p
    BY <1>4
  <2>3. S!Grown(tp) = [points |-> p, smooth |-> sp.smooth,
                       reserved |-> IF Len(p) = sp.reserved THEN sp.reserved + Reserve ELSE sp.reserved]
    BY <1>4, <2>2 DEF S!Grown
  <2>4. QED
    BY <2>1, <2>3
<1>6. QED
  BY <1>1, <1>2, <1>4, <1>5 DEF SpectrumRight

\* One spectrum is changed.
LEMMA OneSpectrum ==
  ASSUME SpectrumInv, NEW s \in Spectra, NEW sp, NEW p, SpectrumRight(sp), sp.points = p,
         spectra' = [spectra EXCEPT ![s] = sp], given' = [given EXCEPT ![s] = p], intact' = TRUE
  PROVE  SpectrumInv'
<1>1. /\ spectra'[s] = sp /\ given'[s] = p
      /\ \A t \in Spectra \ {s} : spectra'[t] = spectra[t] /\ given'[t] = given[t]
      /\ spectra' = [t \in Spectra |-> spectra'[t]] /\ given' = [t \in Spectra |-> given'[t]]
  BY DEF SpectrumInv
<1>2. ASSUME NEW t \in Spectra PROVE SpectrumRight(spectra'[t]) /\ spectra'[t].points = given'[t]
  <2>1. CASE t = s
    BY <1>1, <2>1
  <2>2. CASE t # s
    BY <1>1, <2>2 DEF SpectrumInv
  <2>3. QED
    BY <2>1, <2>2
<1>3. QED
  BY <1>1, <1>2 DEF SpectrumInv

LEMMA SpectrumInvNext ==
  ASSUME Orderly = TRUE, SpectrumInv, S!Next \/ UNCHANGED spectrumVars
  PROVE  SpectrumInv'
<1>1. \A s \in Spectra : /\ SpectrumRight(spectra[s]) /\ spectra[s].points = given[s]
                         /\ spectra[s].reserved \in Nat /\ spectra[s].smooth \in Nat
                         /\ Row(spectra[s].points) /\ Len(spectra[s].points) \in Nat
                         /\ Len(spectra[s].points) < spectra[s].reserved
  BY RowAppend DEF SpectrumInv, SpectrumRight
<1>2. intact = TRUE
  BY DEF SpectrumInv
<1>3. ASSUME NEW s \in Spectra, NEW v, S!AddPoint(s, v) PROVE SpectrumInv'
  <2>1. PICK sp : sp = S!Added(spectra[s], v)
    OBVIOUS
  <2>2. SpectrumRight(sp) /\ sp.points = Append(given[s], v)
    BY <1>1, <2>1, AddedRight
  <2>3. /\ spectra' = [spectra EXCEPT ![s] = sp] /\ given' = [given EXCEPT ![s] = Append(given[s], v)]
        /\ intact' = TRUE
    BY <1>1, <1>2, <1>3, <2>1 DEF S!AddPoint
  <2>4. QED
    BY <2>2, <2>3, OneSpectrum
<1>4. ASSUME NEW s \in Spectra, NEW line, NEW then, S!Read(s, line, then) PROVE SpectrumInv'
  <2>1. PICK v : v = IF line # Short THEN line ELSE 0
    OBVIOUS
  <2>2. PICK w : w = IF then # Short THEN then ELSE v
    OBVIOUS
  <2>3. PICK sp : sp = S!Added(spectra[s], v)
    OBVIOUS
  <2>4. PICK tp : tp = S!Added(sp, w)
    OBVIOUS
  <2>5. SpectrumRight(sp) /\ sp.points = Append(given[s], v)
    BY <1>1, <2>3, AddedRight
  <2>6. SpectrumRight(tp) /\ tp.points = Append(Append(given[s], v), w)
    BY <2>4, <2>5, AddedRight
  <2>7. Append(Append(given[s], v), w) = given[s] \o <<v, w>>
    <3>1. PICK A : A = {given[s][i] : i \in DOMAIN given[s]} \cup {v, w}
      OBVIOUS
    <3>2. given[s] \in Seq(A) /\ v \in A /\ w \in A
      BY <1>1, <3>1, RowIs
    <3>3. QED
      BY <3>2
  <2>8. Len(sp.points) < sp.reserved
    BY <2>5 DEF SpectrumRight
  <2>9. /\ spectra' = [spectra EXCEPT ![s] = tp] /\ given' = [given EXCEPT ![s] = given[s] \o <<v, w>>]
        /\ intact' = TRUE
    BY <1>1, <1>2, <1>4, <2>1, <2>2, <2>3, <2>4, <2>8 DEF S!Read
  <2>10. QED
    BY <2>6, <2>7, <2>9, OneSpectrum
<1>5. ASSUME NEW s \in Spectra, S!Clear(s) PROVE SpectrumInv'
  <2>1. PICK sp : sp = [spectra[s] EXCEPT !.points = <<>>]
    OBVIOUS
  <2>2. sp = [points |-> <<>>, reserved |-> spectra[s].reserved, smooth |-> spectra[s].smooth]
    BY <1>1, <2>1 DEF SpectrumRight
  <2>3. Row(<<>>) /\ Len(<<>>) = 0
    BY DEF Row
  <2>4. SpectrumRight(sp) /\ sp.points = <<>>
    BY <1>1, <2>2, <2>3 DEF SpectrumRight
  <2>5. spectra' = [spectra EXCEPT ![s] = sp] /\ given' = [given EXCEPT ![s] = <<>>] /\ intact' = TRUE
    BY <1>2, <1>5, <2>1 DEF S!Clear, SpectrumInv
  <2>6. QED
    BY <2>4, <2>5, OneSpectrum
<1>6. ASSUME NEW s \in Spectra, S!DoCompensateBackground(s) PROVE SpectrumInv'
  <2>1. PICK level : level = S!Background(spectra[s].points)
    OBVIOUS
  <2>2. PICK p : p = [i \in DOMAIN given[s] |-> given[s][i] - level]
    OBVIOUS
  <2>3. Row(p) /\ Len(p) = Len(given[s])
    BY <1>1, <2>2, RowCompensated
  <2>4. PICK sp : sp = [spectra[s] EXCEPT !.points = S!Compensated(@, level)]
    OBVIOUS
  <2>5. sp = [points |-> p, reserved |-> spectra[s].reserved, smooth |-> spectra[s].smooth]
    <3>1. p = S!Compensated(spectra[s].points, level)
      BY <1>1, <2>2 DEF S!Compensated
    <3>2. QED
      BY <1>1, <2>4, <3>1 DEF SpectrumRight
  <2>6. SpectrumRight(sp) /\ sp.points = p
    BY <1>1, <2>3, <2>5 DEF SpectrumRight
  <2>7. spectra' = [spectra EXCEPT ![s] = sp] /\ given' = [given EXCEPT ![s] = p] /\ intact' = TRUE
    BY <1>2, <1>6, <2>1, <2>2, <2>4 DEF S!DoCompensateBackground, SpectrumInv
  <2>8. QED
    BY <2>6, <2>7, OneSpectrum
<1>7. ASSUME NEW s \in Spectra, S!Smooth(s) PROVE SpectrumInv'
  <2>1. PICK sp : sp = [spectra[s] EXCEPT !.smooth = Len(spectra[s].points)]
    OBVIOUS
  <2>2. sp = [points |-> given[s], reserved |-> spectra[s].reserved, smooth |-> Len(given[s])]
    BY <1>1, <2>1 DEF SpectrumRight
  <2>3. SpectrumRight(sp) /\ sp.points = given[s]
    BY <1>1, <2>2 DEF SpectrumRight
  <2>4. spectra' = [spectra EXCEPT ![s] = sp] /\ given' = [given EXCEPT ![s] = given[s]] /\ intact' = TRUE
    BY <1>2, <1>7, <2>1 DEF S!Smooth, SpectrumInv
  <2>5. QED
    BY <2>3, <2>4, OneSpectrum
<1>8. ASSUME NEW s \in Spectra, S!DoPeakCenter(s) PROVE SpectrumInv'
  <2>1. UNCHANGED <<spectra, given>> /\ spectra[s].smooth >= Len(spectra[s].points)
        /\ spectra[s].points # <<>>
        /\ intact' = (intact /\ S!Smoothed(spectra[s]) /\ spectra[s].smooth # 0)
    BY <1>8 DEF S!DoPeakCenter, S!Smoothed
  <2>2. Len(spectra[s].points) # 0
    BY <1>1, <2>1 DEF Row
  <2>3. intact' = TRUE
    <3>1. S!Smoothed(spectra[s]) /\ spectra[s].smooth # 0
      BY <1>1, <2>1, <2>2 DEF S!Smoothed
    <3>2. QED
      BY <1>2, <2>1, <3>1
  <2>4. QED
    BY <2>1, <2>3 DEF SpectrumInv
<1>9. ASSUME NEW s \in Spectra, NEW t \in Spectra, S!CopyConstruct(s, t) PROVE SpectrumInv'
  <2>1. PICK sp : sp = [spectra[s] EXCEPT !.smooth = Len(spectra[s].points)]
    OBVIOUS
  <2>2. sp = [points |-> given[s], reserved |-> spectra[s].reserved, smooth |-> Len(given[s])]
    BY <1>1, <2>1 DEF SpectrumRight
  <2>3. SpectrumRight(sp) /\ sp.points = given[s]
    BY <1>1, <2>2 DEF SpectrumRight
  <2>4. spectra' = [spectra EXCEPT ![t] = sp] /\ given' = [given EXCEPT ![t] = given[s]] /\ intact' = TRUE
    BY <1>2, <1>9, <2>1 DEF S!CopyConstruct
  <2>5. QED
    BY <2>3, <2>4, OneSpectrum
<1>10. ASSUME NEW s \in Spectra, NEW t \in Spectra, S!Assign(s, t) PROVE SpectrumInv'
  <2>1. PICK n, held :
          /\ n = S!Max({Len(spectra[s].points), Len(spectra[t].points)})
          /\ held = IF Len(spectra[t].points) < n THEN n ELSE spectra[t].smooth
    OBVIOUS
  <2>2. n \in Nat /\ held \in Nat
    BY <1>1, <2>1, LargerOfTwo
  <2>3. PICK r : r = S!Max({spectra[s].reserved, spectra[t].reserved})
    OBVIOUS
  <2>4. r \in Nat /\ r >= spectra[s].reserved
    BY <1>1, <2>3, LargerOfTwo
  <2>5. n = Len(spectra[s].points) /\ intact' = TRUE /\ given' = [given EXCEPT ![t] = given[s]]
    BY <1>2, <1>10, <2>1 DEF S!Assign
  <2>6. PICK behind \in [1..(n - Len(spectra[s].points)) -> Intensities] :
          spectra' = [spectra EXCEPT ![t] =
            [points |-> spectra[s].points \o behind, reserved |-> r, smooth |-> held]]
    BY <1>10, <2>1, <2>3 DEF S!Assign
  <2>7. behind = <<>>
    <3>1. 1..(n - Len(spectra[s].points)) = {}
      BY <1>1, <2>5
    <3>2. behind \in Seq(Intensities) /\ Len(behind) = 0
      <4>1. behind \in [1..0 -> Intensities]
        BY <1>1, <2>5, <2>6
      <4>2. QED
        BY <4>1
    <3>3. QED
      BY <3>2, EmptySeq
  <2>8. spectra[s].points \o <<>> = given[s]
    BY <1>1, ConcatEmptySeq DEF Row
  <2>9. PICK sp : sp = [points |-> given[s], reserved |-> r, smooth |-> held]
    OBVIOUS
  <2>10. SpectrumRight(sp) /\ sp.points = given[s]
    BY <1>1, <2>2, <2>4, <2>9 DEF SpectrumRight
  <2>11. spectra' = [spectra EXCEPT ![t] = sp]
    BY <2>6, <2>7, <2>8, <2>9
  <2>12. QED
    BY <2>5, <2>10, <2>11, OneSpectrum
<1>11. CASE UNCHANGED spectrumVars
  BY <1>11 DEF spectrumVars, SpectrumInv
<1>12. QED
  BY <1>3, <1>4, <1>5, <1>6, <1>7, <1>8, <1>9, <1>10, <1>11 DEF S!Next, S!Change

LEMMA SpectrumInvInit == ASSUME S!Init PROVE SpectrumInv
<1>1. /\ spectra = [s \in Spectra |-> [points |-> <<>>, reserved |-> Reserve, smooth |-> 0]]
      /\ given = [s \in Spectra |-> <<>>] /\ intact = TRUE
  BY DEF S!Init, S!Constructed
<1>2. Row(<<>>) /\ Len(<<>>) = 0
  BY DEF Row
<1>3. ASSUME NEW s \in Spectra PROVE SpectrumRight(spectra[s]) /\ spectra[s].points = given[s]
  BY <1>1, <1>2, ContainersAssumption DEF SpectrumRight
<1>4. QED
  BY <1>1, <1>3 DEF SpectrumInv

LEMMA SpectrumInvSafe == ASSUME SpectrumInv PROVE S!SpectrumKeeps
BY DEF SpectrumInv, SpectrumRight, S!SpectrumKeeps

-----------------------------------------------------------------------------
(***************************************************************************)
(* Together: a step of one of them leaves the other ones alone.            *)
(***************************************************************************)
ContainersInv == HandlesInv /\ CoreInv /\ TracerInv /\ SpectrumInv

LEMMA ContainersInvInit == ASSUME ~FromInside, InitAll PROVE ContainersInv
<1>1. P!Init /\ C!Init /\ T!Init /\ S!Init
  BY DEF InitAll
<1>2. QED
  BY <1>1, HandlesParted, HandlesInvInit, CoreInvInit, TracerInvInit, SpectrumInvInit
  DEF ContainersInv

\* Each object is stepped by its own actions, or not at all.
LEMMA OneAtATime ==
  ASSUME NextAll \/ UNCHANGED allVars
  PROVE  /\ P!Next \/ UNCHANGED handleVars
         /\ C!Next \/ UNCHANGED coreVars
         /\ T!Next \/ UNCHANGED tracerVars
         /\ S!Next \/ UNCHANGED spectrumVars
<1>1. CASE UNCHANGED allVars
  BY <1>1 DEF allVars
<1>2. CASE Others("handles") /\ P!Next
  <2>1. UNCHANGED coreVars /\ UNCHANGED tracerVars /\ UNCHANGED spectrumVars
    BY <1>2 DEF Others
  <2>2. QED
    BY <1>2, <2>1
<1>3. CASE Others("core") /\ C!Next
  <2>1. UNCHANGED handleVars /\ UNCHANGED tracerVars /\ UNCHANGED spectrumVars
    BY <1>3 DEF Others
  <2>2. QED
    BY <1>3, <2>1
<1>4. CASE Others("tracer") /\ T!Next
  <2>1. UNCHANGED handleVars /\ UNCHANGED coreVars /\ UNCHANGED spectrumVars
    BY <1>4 DEF Others
  <2>2. QED
    BY <1>4, <2>1
<1>5. CASE Others("spectra") /\ S!Next
  <2>1. UNCHANGED handleVars /\ UNCHANGED coreVars /\ UNCHANGED tracerVars
    BY <1>5 DEF Others
  <2>2. QED
    BY <1>5, <2>1
<1>6. ASSUME NEW name \in {"interval map", "heap", "disjoint set", "ini file", "fit"}, Others(name)
      PROVE  UNCHANGED handleVars /\ UNCHANGED coreVars /\ UNCHANGED tracerVars /\ UNCHANGED spectrumVars
  <2>1. name # "handles" /\ name # "core" /\ name # "tracer" /\ name # "spectra"
    BY <1>6
  <2>2. QED
    BY <1>6, <2>1 DEF Others
<1>7. QED
  BY <1>1, <1>2, <1>3, <1>4, <1>5, <1>6 DEF NextAll

LEMMA ContainersInvNext ==
  ASSUME ~FromInside, Orderly, ContainersInv, NextAll \/ UNCHANGED allVars
  PROVE  ContainersInv'
<1>1. /\ P!Next \/ UNCHANGED handleVars
      /\ C!Next \/ UNCHANGED coreVars
      /\ T!Next \/ UNCHANGED tracerVars
      /\ S!Next \/ UNCHANGED spectrumVars
  BY OneAtATime
<1>2. Orderly = TRUE
  BY ContainersAssumption
<1>3. HandlesInv'
  BY <1>1, HandlesParted, HandlesInvNext DEF ContainersInv
<1>4. CoreInv'
  BY <1>1, CoreInvNext DEF ContainersInv
<1>5. TracerInv'
  BY <1>1, TracerInvNext DEF ContainersInv
<1>6. SpectrumInv'
  BY <1>1, <1>2, SpectrumInvNext DEF ContainersInv
<1>7. QED
  BY <1>3, <1>4, <1>5, <1>6 DEF ContainersInv

\* Of whatever size they are: an object lives while a handle refers to it and is deleted once,
\* if no handle is assigned from inside the object it is about to give up; a field state is
\* freed once; select finds the interval of its key; and a spectrum that is smoothed before it
\* is measured or copied has the points it was given, inside its arrays.
THEOREM DataAlwaysKept ==
  ASSUME ~FromInside, Orderly
  PROVE  SpecAll => []DataKept
<1>1. InitAll => ContainersInv
  BY ContainersInvInit
<1>2. ContainersInv /\ [NextAll]_allVars => ContainersInv'
  BY ContainersInvNext
<1>3. ContainersInv => DataKept
  <2> SUFFICES ASSUME ContainersInv PROVE DataKept
    OBVIOUS
  <2>1. P!HandlesSafe
    BY HandlesParted, HandlesInvSafe DEF ContainersInv
  <2>2. C!FieldsFreedOnce
    BY CoreInvSafe DEF ContainersInv
  <2>3. T!SelectFindsInterval
    BY DEF ContainersInv, TracerInv
  <2>4. S!SpectrumKeeps
    BY SpectrumInvSafe DEF ContainersInv
  <2>5. QED
    BY <2>1, <2>2, <2>3, <2>4 DEF DataKept
<1>4. QED
  BY <1>1, <1>2, <1>3, PTL DEF SpecAll
=============================================================================
