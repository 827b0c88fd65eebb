------------------------------ MODULE Handles ------------------------------
(***************************************************************************)
(* CrossClass::cHandle (crs/handle.h): a handle counts itself in at its    *)
(* object's counter and out again; the last one deletes counter and        *)
(* object.  An object may itself hold a handle.  cTalkPacket (crs/ude/     *)
(* packets.cpp) shares its contents among copies by the same steps.        *)
(* Each thread uses handles of its own; the counter, which has a spin      *)
(* lock, is what they share.                                               *)
(***************************************************************************)
EXTENDS Integers, FiniteSets

CONSTANTS Threads,
          Roots,      \* handles that are variables of the threads
          Owner,      \* Owner[h]: the thread that uses a root
          Objects,
          FromInside, \* whether a handle inside an object is assigned from
          Null

VARIABLES
  object,    \* object of every root, and of the handle in every object
  links,     \* handleCounter::nlinks
  alive,     \* objects that are not deleted
  used,      \* history: objects that were ever made
  task,      \* what each thread is doing: the handle, what to assign, what to delete
  dangling   \* a deleted object was read

handleVars == <<object, links, alive, used, task, dangling>>

\* The handle inside object o has the name of the object.
Handle == Roots \cup Objects
Idle == [does |-> "nothing"]

Init ==
  /\ object = [h \in Handle |-> Null]
  /\ links = [o \in Objects |-> 0]
  /\ alive = {} /\ used = {}
  /\ task = [t \in Threads |-> Idle]
  /\ dangling = FALSE

-----------------------------------------------------------------------------
\* unbind, first step: releasehandle.  h is bound; whoever brings the counter to zero
\* deletes the object.
Release(t, h, next) ==
  LET o == object[h]
  IN  /\ links' = [links EXCEPT ![o] = @ - 1]
      /\ task' = [task EXCEPT ![t] = IF links[o] = 1
                                     THEN [does |-> "delete", what |-> o, then |-> next]
                                     ELSE next]

\* Assign handle source to handle h, a variable of the thread; a destructor is an
\* assignment of nothing.
BindTo(h, source) == [does |-> "bind", handle |-> h, from |-> source]

\* Fault: a handle is assigned from one that refers to the same object.
AssignAlways(t, h, source) ==
  /\ task[t] = Idle
  /\ IF object[h] # Null
     THEN Release(t, h, BindTo(h, source))
     ELSE task' = [task EXCEPT ![t] = BindTo(h, source)] /\ UNCHANGED links
  /\ UNCHANGED <<object, alive, used, dangling>>

Assign(t, h, source) ==
  /\ task[t] = Idle
  /\ object[h] # (IF source = Null THEN Null ELSE object[source])
  /\ IF object[h] # Null
     THEN Release(t, h, BindTo(h, source))
     ELSE task' = [task EXCEPT ![t] = BindTo(h, source)] /\ UNCHANGED links
  /\ UNCHANGED <<object, alive, used, dangling>>

\* unbind, last step: the object is deleted, and with it the handle it has.
Delete(t) ==
  /\ task[t].does = "delete"
  /\ LET o == task[t].what
     IN  /\ alive' = alive \ {o}
         /\ dangling' = (dangling \/ o \notin alive)
         /\ IF object[o] # Null
            THEN Release(t, o, task[t].then)
            ELSE task' = [task EXCEPT ![t] = task[t].then] /\ UNCHANGED links
         /\ object' = object
  /\ UNCHANGED used

\* assign, after unbind: object and counter are read from the source, and the handle
\* counts itself in.
Bind(t) ==
  /\ task[t].does = "bind"
  /\ LET h == task[t].handle
         source == task[t].from
         o == IF source = Null THEN Null ELSE object[source]
     IN  /\ object' = [object EXCEPT ![h] = o]
         /\ links' = IF o = Null THEN links ELSE [links EXCEPT ![o] = @ + 1]
         /\ dangling' = (dangling \/ (source \in Objects /\ source \notin alive)
                                  \/ (o # Null /\ o \notin alive))
  /\ task' = [task EXCEPT ![t] = Idle]
  /\ UNCHANGED <<alive, used>>

\* bind of a new object, in whose handle the thread puts a copy of one of its own.
BindNew(t, h, o, inner) ==
  /\ task[t] = Idle /\ object[h] = Null
  /\ o \notin used
  /\ used' = used \cup {o} /\ alive' = alive \cup {o}
  /\ object' = [object EXCEPT ![h] = o, ![o] = IF inner = Null THEN Null ELSE object[inner]]
  /\ links' = [p \in Objects |->
       IF p = o THEN 1
       ELSE IF inner # Null /\ object[inner] = p THEN links[p] + 1 ELSE links[p]]
  /\ UNCHANGED <<task, dangling>>

\* Handles a thread may read: its own, and those in the objects they refer to.
Readable(t) ==
  LET own == {h \in Roots : Owner[h] = t}
  IN  own \cup (IF FromInside THEN {object[h] : h \in own} \ {Null} ELSE {})

\* A handle is handed from one thread to another, which waits for it.
HandOver(t, u, h, g) ==
  /\ t # u /\ task[t] = Idle /\ task[u] = Idle
  /\ object[h] # Null /\ object[g] = Null
  /\ object' = [object EXCEPT ![g] = object[h]]
  /\ links' = [links EXCEPT ![object[h]] = @ + 1]
  /\ UNCHANGED <<alive, used, task, dangling>>

Next ==
  \/ \E t \in Threads : Delete(t) \/ Bind(t)
  \/ \E h \in Roots :
       \/ \E source \in Readable(Owner[h]) \cup {Null} : Assign(Owner[h], h, source)
       \/ \E o \in Objects, inner \in {g \in Roots : Owner[g] = Owner[h]} \cup {Null} :
            BindNew(Owner[h], h, o, inner)
       \/ \E g \in Roots : HandOver(Owner[h], Owner[g], h, g)

Spec == Init /\ [][Next]_handleVars

-----------------------------------------------------------------------------
\* Nothing is deleted under a handle, and nothing twice.
NothingDangles ==
  /\ ~dangling
  /\ \A h \in Roots : object[h] # Null /\ task[Owner[h]] = Idle => object[h] \in alive

\* When the threads rest, what is not deleted is what handles refer to, and each
\* counter says how many do: two threads that let go at once delete once.
HandlesOwn ==
  (\A t \in Threads : task[t] = Idle) =>
    \A o \in Objects :
      LET handles == {h \in Roots \cup alive : object[h] = o}
      IN  /\ o \in alive <=> handles # {}
          /\ o \in alive => links[o] = Cardinality(handles)

HandlesSafe == NothingDangles /\ HandlesOwn
=============================================================================
