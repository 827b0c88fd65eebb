------------------------------ MODULE IniFile ------------------------------
(***************************************************************************)
(* ObjectIO::cINIFile (crs/oio/iniFile.{h,cpp}, FileVar.{h,cpp}): a hub    *)
(* keeps its variables in a multimap, where they are found by name, and in *)
(* a list, in which they are written; an ini file is a hub whose members   *)
(* are variables and hubs.  A file is a sequence of lines, the last one    *)
(* without an end of line: the empty text is one blank line.               *)
(***************************************************************************)
EXTENDS Naturals, SequencesExt, FiniteSetsExt

CONSTANTS Hubs, Names, Contents,
          Commented,   \* the contents that contain a semicolon
          Cut,         \* what is left of those when they are read
          Top,         \* the ini file as a hub
          MaxMembers   \* bound: variables and hubs in memory

VARIABLES olist,       \* the members of the ini file, in the order of its list
          file         \* the lines of the file

iniVars == <<olist, file>>

\* A line without a name, be it blank or a comment, is a variable without a name.
Blank == [name |-> "", value |-> ""]
Var(n, v) == [name |-> n, value |-> v]
Hub(h, vars) == [hub |-> h, vars |-> vars]
IsHub(e) == "hub" \in DOMAIN e
Head1(h) == [head |-> h]
IsHead(line) == "head" \in DOMAIN line

\* create: the line is cut at the first semicolon, and then at the first '='.
Create(line) == IF line.value \in Commented THEN [line EXCEPT !.value = Cut] ELSE line

VarsOf(lines) == [i \in DOMAIN lines |-> Create(lines[i])]

\* Hub::read takes the lines up to the next head, which it leaves to be read again.  Of a
\* head that is the only one and ends the text, it reads the empty rest as a line.
ReadHub(lines, heads, k) ==
  LET end == IF k = Len(heads) THEN Len(lines) ELSE heads[k + 1] - 1
  IN  Hub(lines[heads[k]].head,
          IF k = 1 /\ heads[k] = Len(lines) THEN <<Blank>>
          ELSE VarsOf(SubSeq(lines, heads[k] + 1, end)))

\* A head that ends the text is left to be read again as well, but the end of the text is
\* reported with it.
Read(lines) ==
  LET heads == SetToSortSeq({i \in DOMAIN lines : IsHead(lines[i])}, <)
      lost == Len(heads) > 1 /\ IsHead(Last(lines))
      hubs == 1..IF lost THEN Len(heads) - 1 ELSE Len(heads)
  IN  VarsOf(IF heads = <<>> THEN lines ELSE SubSeq(lines, 1, heads[1] - 1))
      \o [k \in hubs |-> ReadHub(lines, heads, k)]

\* Fault: the list is written as it is.
SortedNot(list) == list

\* The bubble sort of _write_contents: variables first, and otherwise as they were.
Sorted(list) == SelectSeq(list, LAMBDA e : ~IsHub(e)) \o SelectSeq(list, IsHub)

\* Hub::write and Var::write.
HubLines(e) == <<Head1(e.hub)>> \o e.vars
VarLines(e) == <<e>>

Written(list) ==
  LET lines == FlattenSeq([i \in DOMAIN list |->
                             IF IsHub(list[i]) THEN HubLines(list[i]) ELSE VarLines(list[i])])
  IN  IF lines = <<>> THEN <<Blank>> ELSE lines

\* find: the first member of the name.
FindHub(list, h) == SelectInSeq(list, LAMBDA e : IsHub(e) /\ e.hub = h)
FindVar(list, n) == SelectInSeq(list, LAMBDA e : ~IsHub(e) /\ e.name = n)
Members(list, h) ==
  IF h = Top THEN list
  ELSE IF FindHub(list, h) = 0 THEN <<>> ELSE list[FindHub(list, h)].vars
Get(list, h, n) ==
  LET vars == Members(list, h)
  IN  IF FindVar(vars, n) = 0 THEN "none" ELSE vars[FindVar(vars, n)].value

-----------------------------------------------------------------------------
\* A file as someone has written it.
Lines == {Blank} \cup {Head1(h) : h \in Hubs} \cup {Var(n, v) : n \in Names, v \in Contents}

Init ==
  /\ olist = <<>>
  /\ \E n \in 1..3 : file \in [1..n -> Lines]

\* read () of a new object.
Load == olist' = Read(file) /\ UNCHANGED file

Save == file' = Written(Sorted(olist)) /\ olist' = Sorted(olist)

\* writevar: the variable is made, and so is its hub by the caller, if they are not there.
Assigned(vars, n, v) ==
  IF FindVar(vars, n) = 0 THEN Append(vars, Var(n, v))
  ELSE [vars EXCEPT ![FindVar(vars, n)].value = v]

WriteVar(h, n, v) ==
  /\ olist' = IF h = Top THEN Assigned(olist, n, v)
              ELSE IF FindHub(olist, h) = 0 THEN Append(olist, Hub(h, <<Var(n, v)>>))
              ELSE [olist EXCEPT ![FindHub(olist, h)].vars = Assigned(@, n, v)]
  /\ UNCHANGED file

\* erase: the first of its name.
Erase(h, n) ==
  /\ FindVar(Members(olist, h), n) # 0
  /\ LET less == RemoveAt(Members(olist, h), FindVar(Members(olist, h), n))
     IN  olist' = IF h = Top THEN less ELSE [olist EXCEPT ![FindHub(olist, h)].vars = less]
  /\ UNCHANGED file

EraseHub(h) ==
  /\ FindHub(olist, h) # 0
  /\ olist' = RemoveAt(olist, FindHub(olist, h))
  /\ UNCHANGED file

Clear == olist # <<>> /\ olist' = <<>> /\ UNCHANGED file

Size == FoldSeq(LAMBDA e, n : n + (IF IsHub(e) THEN 1 + Len(e.vars) ELSE 1), 0, olist)

Next ==
  \/ Load \/ Save \/ Clear
  \/ Size < MaxMembers /\ \E h \in Hubs \cup {Top}, n \in Names, v \in Contents : WriteVar(h, n, v)
  \/ \E h \in Hubs \cup {Top}, n \in Names : Erase(h, n)
  \/ \E h \in Hubs : EraseHub(h)

Spec == Init /\ [][Next]_iniVars

-----------------------------------------------------------------------------
\* Every variable is found after a save and a load where it was before, with the same
\* contents: whatever was made after the hubs, doubled by hand or erased.
KeepsVariables ==
  LET again == Read(Written(Sorted(olist)))
  IN  \A h \in Hubs \cup {Top}, n \in Names : Get(again, h, n) = Get(olist, h, n)

\* A file that is loaded and saved is the same file, lines without a name (blank ones, and
\* those that are only a comment) included, unless it ends with the head of a hub or, when
\* contents are cut at a semicolon, has such contents; a comment behind contents is read
\* and written beside them and left out.
KeepsFile == ~IsHead(Last(file)) => Written(Sorted(Read(file))) = file

IniKeeps == KeepsVariables /\ KeepsFile

\* This does not hold: an empty hub is lost if it is the last one and not the only one.
KeepsHubs ==
  LET again == Read(Written(Sorted(olist)))
  IN  \A h \in Hubs : FindHub(olist, h) # 0 => FindHub(again, h) # 0
=============================================================================
