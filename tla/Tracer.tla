------------------------------- MODULE Tracer -------------------------------
(***************************************************************************)
(* Regions::Tracer (crs/regions.h): a map from the lower ends of intervals *)
(* to values, with an entry at minus infinity, that remembers the interval *)
(* it found last.  Iterators are keys; End is end ().                      *)
(***************************************************************************)
EXTENDS Integers, FiniteSetsExt

CONSTANTS Keys,      \* a set of integers
          Values,
          UseCache   \* the template parameter useCache

Lowest == Min(Keys) - 1    \* -infinity
End == Max(Keys) + 1
Absent == End + 1          \* an iterator that was invalidated

VARIABLES entries,   \* the std::map
          recent,    \* iRecent
          next,      \* iNext
          answer     \* what the last select returned, and for which key

tracerVars == <<entries, recent, next, answer>>

NoAnswer == [key |-> Absent, found |-> Absent]
Follower(map, k) == Min({End} \cup {q \in DOMAIN map : q > k})
Floor(map, k) == Max({q \in DOMAIN map : q <= k})

Init ==
  /\ \E v \in Values : entries = [k \in {Lowest} |-> v]
  /\ recent = Lowest /\ next = Lowest
  /\ answer = NoAnswer

\* clearCache: the two iterators are made equal.
ClearCache == recent' = Lowest /\ next' = Lowest

InCache(k) == UseCache /\ recent # next /\ recent <= k /\ (next = End \/ next > k)

\* The interval that select finds: the last one, or that of lower_bound, or the one before.
Found(k) ==
  LET last == Max(DOMAIN entries)
      lower == Min({End} \cup {q \in DOMAIN entries : q >= k})
  IN  IF InCache(k) THEN recent
      ELSE IF last <= k THEN last
      ELSE IF lower = k THEN lower ELSE Max({q \in DOMAIN entries : q < lower})

Select(k) ==
  /\ recent' = Found(k)
  /\ next' = IF InCache(k) THEN next ELSE Follower(entries, Found(k))
  /\ answer' = [key |-> k, found |-> Found(k)]
  /\ UNCHANGED entries

\* Fault: the interval found last is not forgotten when another one begins inside it.
AppendKeepingCache(k, v) ==
  /\ entries' = IF k \in DOMAIN entries THEN entries
                ELSE [q \in DOMAIN entries \cup {k} |-> IF q = k THEN v ELSE entries[q]]
  /\ answer' = NoAnswer
  /\ UNCHANGED <<recent, next>>

\* append: an entry that is there keeps its value.
Append(k, v) ==
  /\ IF k \in DOMAIN entries
     THEN UNCHANGED <<entries, recent, next>>
     ELSE /\ entries' = [q \in DOMAIN entries \cup {k} |-> IF q = k THEN v ELSE entries[q]]
          /\ ClearCache
  /\ answer' = NoAnswer

Without(keys) == [q \in DOMAIN entries \ keys |-> entries[q]]

\* remove: the interval that contains the key goes, unless it is the first.
Remove(k) ==
  /\ entries' = Without({Found(k)} \ {Lowest})
  /\ ClearCache
  /\ answer' = NoAnswer

\* erase of a range of iterators, and of a key; the first entry stays.
EraseRange(first, last) ==
  /\ entries' = Without({q \in DOMAIN entries \ {Lowest} : first <= q /\ q < last})
  /\ ClearCache
  /\ answer' = NoAnswer

Clear ==
  /\ entries' = Without(DOMAIN entries \ {Lowest})
  /\ ClearCache
  /\ answer' = NoAnswer

Next ==
  \/ \E k \in Keys : Select(k) \/ Remove(k)
  \/ \E k \in Keys, v \in Values : Append(k, v)
  \/ \E first \in DOMAIN entries : \E last \in {q \in DOMAIN entries \cup {End} : q > first} :
       EraseRange(first, last)
  \/ Clear

Spec == Init /\ [][Next]_tracerVars

-----------------------------------------------------------------------------
\* select finds the interval that contains the key, whatever was inserted and erased
\* since the interval in the cache was found, and never an entry that is gone.
SelectFindsInterval ==
  answer # NoAnswer => answer.found = Floor(entries, answer.key)
=============================================================================
