-------------------------- MODULE IntervalMapProofs --------------------------
(* Theorems about interval_map for every range of keys and every set of values. *)
EXTENDS IntervalMap, WellFoundedInduction, TLAPS

\* The map is a function from its entries, the first of which is MinKey.
MapOK(m) ==
  /\ DOMAIN m \subseteq Keys /\ MinKey \in DOMAIN m
  /\ m = [k \in DOMAIN m |-> m[k]]
  /\ \A k \in DOMAIN m : m[k] \in Values

\* j is the last member of S.
IsLast(j, S) == j \in S /\ \A i \in S : i <= j

\* A set of naturals with a member and a bound has a last member, and LastOf is it.
LEMMA LastExists ==
  ASSUME NEW S \in SUBSET Nat, S # {}, NEW b \in Nat, \A k \in S : k <= b
  PROVE  IsLast(LastOf(S), S)
<1> DEFINE T == {n \in Nat : b - n \in S}
<1>1. T # {}
  <2>1. PICK k \in S : TRUE
    OBVIOUS
  <2>2. b - k \in T
    BY <2>1
  <2>3. QED
    BY <2>2
<1>2. \A x, y \in Nat : <<x, y>> \in OpToRel(<, Nat) <=> x < y
  BY DEF OpToRel
<1>3. PICK n \in T : \A i \in T : ~(<<i, n>> \in OpToRel(<, Nat))
  <2>1. T \subseteq Nat
    OBVIOUS
  <2> HIDE DEF T
  <2>2. QED
    BY <1>1, <2>1, NatLessThanWellFounded, WFMin
<1>4. IsLast(b - n, S)
  <2>1. b - n \in S /\ n \in Nat
    BY <1>3
  <2>2. ASSUME NEW k \in S PROVE k <= b - n
    <3>1. b - k \in Nat /\ b - (b - k) = k
      OBVIOUS
    <3>2. b - k \in T
      BY <3>1
    <3>3. ~(b - k < n)
      BY <1>2, <1>3, <2>1, <3>1, <3>2
    <3>4. QED
      BY <2>1, <3>1, <3>3
  <2>3. QED
    BY <2>1, <2>2 DEF IsLast
<1>5. QED
  BY <1>4 DEF LastOf, IsLast

\* The last member is unique.
LEMMA LastIs ==
  ASSUME NEW S \in SUBSET Nat, NEW j, IsLast(j, S)
  PROVE  LastOf(S) = j
<1>1. /\ LastOf(S) \in S /\ \A i \in S : i <= LastOf(S)
  BY DEF LastOf, IsLast
<1>2. LastOf(S) <= j /\ j <= LastOf(S) /\ j \in Nat /\ LastOf(S) \in Nat
  BY <1>1 DEF IsLast
<1>3. QED
  BY <1>2

\* The entries that are at most a key, and those below it.
UpTo(m, key) == {i \in DOMAIN m : i <= key}
Below(m, key) == {i \in DOMAIN m : i < key}

\* operator[] finds an entry for every key, the last one not above it.
LEMMA LookupEntry ==
  ASSUME NEW m, MapOK(m), NEW key \in Keys
  PROVE  /\ \E j \in DOMAIN m : IsLast(j, UpTo(m, key))
         /\ \A j : IsLast(j, UpTo(m, key)) => Lookup(m, key) = m[j]
<1>1. UpTo(m, key) \in SUBSET Nat /\ MinKey \in UpTo(m, key) /\ key \in Nat
  BY IntervalMapAssumption DEF MapOK, UpTo
<1>2. \A i \in UpTo(m, key) : i <= key
  BY DEF UpTo
<1>3. IsLast(LastOf(UpTo(m, key)), UpTo(m, key))
  BY <1>1, <1>2, LastExists
<1>4. LastOf(UpTo(m, key)) \in DOMAIN m
  BY <1>3 DEF IsLast, UpTo
<1>5. ASSUME NEW j, IsLast(j, UpTo(m, key)) PROVE Lookup(m, key) = m[j]
  <2>1. LastOf(UpTo(m, key)) = j
    BY <1>1, <1>5, LastIs
  <2>2. QED
    BY <2>1 DEF Lookup, UpTo
<1>6. QED
  BY <1>3, <1>4, <1>5

\* When some entry is below a key, Before is the last of them.
LEMMA BeforeEntry ==
  ASSUME NEW m, MapOK(m), NEW key \in Keys, Below(m, key) # {}
  PROVE  /\ Before(m, key) \in DOMAIN m /\ Before(m, key) < key
         /\ IsLast(Before(m, key), Below(m, key))
<1>1. Below(m, key) \in SUBSET Nat /\ key \in Nat
  BY IntervalMapAssumption DEF MapOK, Below
<1>2. \A i \in Below(m, key) : i <= key
  BY <1>1 DEF Below
<1>3. IsLast(LastOf(Below(m, key)), Below(m, key))
  BY <1>1, <1>2, LastExists
<1>4. Before(m, key) = LastOf(Below(m, key))
  BY DEF Before, Below
<1>5. QED
  BY <1>3, <1>4 DEF IsLast, Below

-----------------------------------------------------------------------------
\* What assign does to the entries of a map m, told by position: mm keeps the
\* entries below b and above e, loses those in between, has b with v unless v
\* holds up to b already, and e with the value of m at e unless that is v.
Assigned(m, mm, b, e, v) ==
  /\ DOMAIN mm \subseteq DOMAIN m \cup {b, e}
  /\ mm = [k \in DOMAIN mm |-> mm[k]]
  /\ \A k \in DOMAIN m : k < b \/ e < k => k \in DOMAIN mm /\ mm[k] = m[k]
  /\ \A k \in DOMAIN mm : ~(b < k /\ k < e)
  /\ b \in DOMAIN mm <=> ~(Below(m, b) # {} /\ m[Before(m, b)] = v)
  /\ b \in DOMAIN mm => mm[b] = v
  /\ e \in DOMAIN mm <=> Lookup(m, e) # v
  /\ e \in DOMAIN mm => mm[e] = Lookup(m, e)

\* The steps of assign, inserting at both ends and erasing, amount to Assigned.
LEMMA AssignEffect ==
  ASSUME MapOK(map), NEW b \in Keys, NEW e \in Keys, NEW v \in Values, Assign(b, e, v)
  PROVE  Assigned(map, map', b, e, v)
<1> DEFINE s == SplitAt(map, e)
<1> DEFINE m == SetAt(s, b, v)
<1>1. b < e /\ b \in Nat /\ e \in Nat /\ DOMAIN map \subseteq Nat
  BY IntervalMapAssumption DEF Assign, MapOK
<1>2. DOMAIN s = DOMAIN map \cup {e} /\ s[e] = Lookup(map, e)
      /\ \A k \in DOMAIN map : k # e => s[k] = map[k]
  <2>1. CASE e \in DOMAIN map
    <3>1. IsLast(e, UpTo(map, e))
      BY <1>1, <2>1 DEF IsLast, UpTo
    <3>2. Lookup(map, e) = map[e]
      BY <3>1, LookupEntry
    <3>3. QED
      BY <2>1, <3>2 DEF SplitAt
  <2>2. CASE e \notin DOMAIN map
    <3>1. UpTo(map, e) = Below(map, e)
      BY <1>1, <2>2 DEF UpTo, Below
    <3>2. Below(map, e) # {}
      BY <3>1, LookupEntry DEF IsLast
    <3>3. Lookup(map, e) = map[Before(map, e)]
      BY <3>1, <3>2, BeforeEntry, LookupEntry
    <3>4. QED
      BY <2>2, <3>3 DEF SplitAt
  <2>3. QED
    BY <2>1, <2>2
<1> HIDE DEF s
<1>3. DOMAIN m = DOMAIN map \cup {b, e} /\ m[b] = v /\ m[e] = Lookup(map, e)
      /\ \A k \in DOMAIN map : k # b /\ k # e => m[k] = map[k]
  BY <1>1, <1>2 DEF SetAt
<1>4. LeftRedundant(m, b) <=> (Below(map, b) # {} /\ map[Before(map, b)] = v)
  <2>1. {k \in DOMAIN m : k < b} = Below(map, b)
    BY <1>1, <1>3 DEF Below
  <2>2. Before(m, b) = Before(map, b)
    BY <2>1 DEF Before, Below
  <2>3. (\E k \in DOMAIN m : k < b) <=> Below(map, b) # {}
    BY <2>1
  <2>4. ASSUME Below(map, b) # {} PROVE m[Before(m, b)] = map[Before(map, b)]
    <3>1. Before(map, b) \in DOMAIN map /\ Before(map, b) < b
      BY <2>4, BeforeEntry
    <3>2. QED
      BY <1>1, <1>3, <2>2, <3>1
  <2>5. QED
    BY <1>3, <2>3, <2>4 DEF LeftRedundant
<1>5. map' = Erase(m, {k \in DOMAIN m : \/ k = b /\ LeftRedundant(m, b)
                                        \/ b < k /\ k < e
                                        \/ k = e /\ m[e] = v})
  BY DEF Assign, s
<1> HIDE DEF m
<1>6. /\ DOMAIN map' = {k \in DOMAIN m : /\ ~(k = b /\ LeftRedundant(m, b))
                                         /\ ~(b < k /\ k < e)
                                         /\ ~(k = e /\ m[e] = v)}
      /\ map' = [k \in DOMAIN map' |-> m[k]]
  BY <1>5 DEF Erase
<1>7. map' = [k \in DOMAIN map' |-> map'[k]] /\ \A k \in DOMAIN map' : map'[k] = m[k]
  BY <1>6
<1>8. \A k \in DOMAIN map : k < b \/ e < k => k \in DOMAIN map' /\ map'[k] = map[k]
  BY <1>1, <1>3, <1>6, <1>7
<1>9. b \in DOMAIN map' <=> ~LeftRedundant(m, b)
  BY <1>1, <1>3, <1>6
<1>10. e \in DOMAIN map' <=> Lookup(map, e) # v
  BY <1>1, <1>3, <1>6
<1>11. DOMAIN map' \subseteq DOMAIN map \cup {b, e} /\ \A k \in DOMAIN map' : ~(b < k /\ k < e)
  BY <1>3, <1>6
<1>12. QED
  BY <1>3, <1>4, <1>7, <1>8, <1>9, <1>10, <1>11 DEF Assigned

\* The effect of assign on the entries, as assumed by the lemmas below.
AssignedOK(m, mm, b, e, v) ==
  /\ MapOK(m) /\ b \in Keys /\ e \in Keys /\ v \in Values /\ b < e
  /\ Assigned(m, mm, b, e, v)

\* After assign, v holds at b: through its own entry or the one before it.
LEMMA LeftEntry ==
  ASSUME NEW m, NEW mm, NEW b, NEW e, NEW v, AssignedOK(m, mm, b, e, v)
  PROVE  \E i \in DOMAIN mm : IsLast(i, UpTo(mm, b)) /\ mm[i] = v
<1>1. b \in Nat /\ e \in Nat /\ b < e /\ DOMAIN m \subseteq Nat /\ DOMAIN mm \subseteq Nat
  BY IntervalMapAssumption DEF AssignedOK, Assigned, MapOK
<1>2. CASE b \in DOMAIN mm
  <2>1. IsLast(b, UpTo(mm, b)) /\ mm[b] = v
    BY <1>1, <1>2 DEF AssignedOK, Assigned, IsLast, UpTo
  <2>2. QED
    BY <1>2, <2>1
<1>3. CASE b \notin DOMAIN mm
  <2> DEFINE i == Before(m, b)
  <2>1. Below(m, b) # {} /\ m[i] = v
    BY <1>3 DEF AssignedOK, Assigned
  <2>2. i \in DOMAIN m /\ i < b /\ IsLast(i, Below(m, b))
    BY <2>1, BeforeEntry DEF AssignedOK
  <2>3. i \in DOMAIN mm /\ mm[i] = v
    BY <2>1, <2>2 DEF AssignedOK, Assigned
  <2>4. \A x \in DOMAIN mm : x <= b => x \in DOMAIN m /\ x < b
    BY <1>1, <1>3 DEF AssignedOK, Assigned
  <2>5. IsLast(i, UpTo(mm, b))
    BY <1>1, <2>2, <2>3, <2>4 DEF IsLast, UpTo, Below
  <2>6. QED
    BY <2>3, <2>5
<1>4. QED
  BY <1>2, <1>3

\* assign keeps the map a map, with its first entry.
LEMMA AssignKeepsMap ==
  ASSUME NEW m, NEW mm, NEW b, NEW e, NEW v, AssignedOK(m, mm, b, e, v)
  PROVE  MapOK(mm)
<1>1. b \in Nat /\ e \in Nat /\ b < e /\ DOMAIN m \subseteq Nat
  BY IntervalMapAssumption DEF AssignedOK, MapOK
<1>2. DOMAIN mm \subseteq Keys /\ mm = [k \in DOMAIN mm |-> mm[k]]
  BY DEF AssignedOK, Assigned, MapOK
<1>3. Lookup(m, e) \in Values
  BY LookupEntry DEF AssignedOK, MapOK
<1>4. ASSUME NEW k \in DOMAIN mm PROVE mm[k] \in Values
  <2>1. CASE k = b \/ k = e
    BY <1>3, <2>1 DEF AssignedOK, Assigned
  <2>2. CASE k # b /\ k # e
    <3>1. k \in DOMAIN m /\ (k < b \/ e < k)
      BY <1>1, <2>2 DEF AssignedOK, Assigned
    <3>2. QED
      BY <3>1 DEF AssignedOK, Assigned, MapOK
  <2>3. QED
    BY <2>1, <2>2
<1>5. MinKey \in DOMAIN mm
  <2>1. CASE MinKey = b
    <3>1. Below(m, b) = {}
      BY <1>1, <2>1, IntervalMapAssumption DEF Below, AssignedOK, MapOK
    <3>2. QED
      BY <2>1, <3>1 DEF AssignedOK, Assigned
  <2>2. CASE MinKey # b
    <3>1. MinKey < b /\ MinKey \in DOMAIN m
      BY <2>2, IntervalMapAssumption DEF AssignedOK, MapOK
    <3>2. QED
      BY <3>1 DEF AssignedOK, Assigned
  <2>3. QED
    BY <2>1, <2>2
<1>6. QED
  BY <1>2, <1>4, <1>5 DEF MapOK

\* operator[] after assign: v inside the interval, the old value elsewhere.
LEMMA AssignLookup ==
  ASSUME NEW m, NEW mm, NEW b, NEW e, NEW v, AssignedOK(m, mm, b, e, v), NEW key \in Keys
  PROVE  Lookup(mm, key) = IF b <= key /\ key < e THEN v ELSE Lookup(m, key)
<1>1. /\ b \in Nat /\ e \in Nat /\ b < e /\ key \in Nat
      /\ DOMAIN m \subseteq Nat /\ DOMAIN mm \subseteq Nat
  BY IntervalMapAssumption DEF AssignedOK, Assigned, MapOK
<1>2. MapOK(m) /\ MapOK(mm) /\ b \in Keys /\ e \in Keys
  BY AssignKeepsMap DEF AssignedOK
<1>3. PICK i \in DOMAIN mm : IsLast(i, UpTo(mm, b)) /\ mm[i] = v
  BY LeftEntry
<1>4. PICK j \in DOMAIN m : IsLast(j, UpTo(m, key))
  BY <1>2, LookupEntry
<1>5. Lookup(m, key) = m[j]
  BY <1>2, <1>4, LookupEntry
<1>6. \A x \in DOMAIN mm : x < e => x <= b
  BY <1>1 DEF AssignedOK, Assigned
<1>7. CASE key < b
  <2>1. j \in DOMAIN mm /\ mm[j] = m[j] /\ IsLast(j, UpTo(mm, key))
    BY <1>1, <1>4, <1>7 DEF AssignedOK, Assigned, IsLast, UpTo
  <2>2. QED
    BY <1>1, <1>2, <1>5, <1>7, <2>1, LookupEntry
<1>8. CASE b <= key /\ key < e
  <2>1. IsLast(i, UpTo(mm, key))
    BY <1>1, <1>3, <1>6, <1>8 DEF IsLast, UpTo
  <2>2. QED
    BY <1>2, <1>3, <1>8, <2>1, LookupEntry
<1>9. CASE e <= key
  <2>1. CASE e < j
    <3>1. j \in DOMAIN mm /\ mm[j] = m[j] /\ IsLast(j, UpTo(mm, key))
      BY <1>1, <1>4, <2>1 DEF AssignedOK, Assigned, IsLast, UpTo
    <3>2. QED
      BY <1>1, <1>2, <1>5, <1>9, <3>1, LookupEntry
  <2>2. CASE ~(e < j)
    <3>1. IsLast(j, UpTo(m, e))
      BY <1>1, <1>4, <1>9, <2>2 DEF IsLast, UpTo
    <3>2. Lookup(m, e) = m[j]
      BY <1>2, <3>1, LookupEntry
    <3>3. \A x \in DOMAIN mm : x <= key => x <= e
      BY <1>1, <1>4, <2>2 DEF AssignedOK, Assigned, IsLast, UpTo
    <3>4. CASE e \in DOMAIN mm
      <4>1. IsLast(e, UpTo(mm, key)) /\ mm[e] = Lookup(m, e)
        BY <1>1, <1>9, <3>3, <3>4 DEF AssignedOK, Assigned, IsLast, UpTo
      <4>2. QED
        BY <1>1, <1>2, <1>5, <1>9, <3>2, <4>1, LookupEntry
    <3>5. CASE e \notin DOMAIN mm
      <4>1. Lookup(m, e) = v
        BY <3>5 DEF AssignedOK, Assigned
      <4>2. \A x \in DOMAIN mm : x <= key => x <= b
        BY <1>1, <1>6, <3>3, <3>5
      <4>3. IsLast(i, UpTo(mm, key))
        BY <1>1, <1>3, <1>9, <4>2 DEF IsLast, UpTo
      <4>4. QED
        BY <1>1, <1>2, <1>3, <1>5, <1>9, <3>2, <4>1, <4>3, LookupEntry
    <3>6. QED
      BY <3>4, <3>5
  <2>3. QED
    BY <2>1, <2>2
<1>10. QED
  BY <1>1, <1>7, <1>8, <1>9

-----------------------------------------------------------------------------
\* j and k are consecutive entries.
Consecutive(m, j, k) ==
  j \in DOMAIN m /\ k \in DOMAIN m /\ j < k /\ \A i \in DOMAIN m : i <= j \/ k <= i

CanonicalMap(m) == \A j, k : Consecutive(m, j, k) => m[j] # m[k]

\* assign merges the new interval with equal neighbours on both sides, and with
\* nothing else.
LEMMA AssignCanonical ==
  ASSUME NEW m, NEW mm, NEW b, NEW e, NEW v, AssignedOK(m, mm, b, e, v), CanonicalMap(m)
  PROVE  CanonicalMap(mm)
<1> SUFFICES ASSUME NEW j, NEW k, Consecutive(mm, j, k) PROVE mm[j] # mm[k]
  BY DEF CanonicalMap
<1>1. /\ b \in Nat /\ e \in Nat /\ b < e /\ MapOK(m) /\ b \in Keys /\ e \in Keys
      /\ DOMAIN m \subseteq Nat /\ DOMAIN mm \subseteq Nat
      /\ j \in Nat /\ k \in Nat /\ j < k
  BY IntervalMapAssumption DEF AssignedOK, Assigned, MapOK, Consecutive
<1>2. ~(b < k /\ k < e) /\ ~(b < j /\ j < e)
  BY DEF AssignedOK, Assigned, Consecutive
<1>3. ASSUME k <= e, b < k PROVE mm[j] = v
  <2>1. k = e /\ j <= b
    BY <1>1, <1>2, <1>3
  <2>2. PICK i \in DOMAIN mm : IsLast(i, UpTo(mm, b)) /\ mm[i] = v
    BY LeftEntry
  <2>3. i = j
    BY <1>1, <2>1, <2>2 DEF IsLast, UpTo, Consecutive
  <2>4. QED
    BY <2>2, <2>3
<1>4. CASE k < b
  <2>1. Consecutive(m, j, k) /\ mm[j] = m[j] /\ mm[k] = m[k]
    BY <1>1, <1>4 DEF AssignedOK, Assigned, Consecutive
  <2>2. QED
    BY <2>1 DEF CanonicalMap
<1>5. CASE k = b
  <2>1. j \in Below(m, b) /\ mm[j] = m[j] /\ IsLast(j, Below(m, b))
    BY <1>1, <1>5 DEF AssignedOK, Assigned, Consecutive, IsLast, Below
  <2>2. Before(m, b) = j
    BY <1>1, <2>1, LastIs DEF Before, Below
  <2>3. QED
    BY <1>5, <2>1, <2>2 DEF AssignedOK, Assigned, Consecutive
<1>6. CASE k = e
  BY <1>1, <1>3, <1>6 DEF AssignedOK, Assigned, Consecutive
<1>7. CASE e < k /\ e < j
  <2>1. Consecutive(m, j, k) /\ mm[j] = m[j] /\ mm[k] = m[k]
    BY <1>1, <1>7 DEF AssignedOK, Assigned, Consecutive
  <2>2. QED
    BY <2>1 DEF CanonicalMap
<1>8. CASE e < k /\ j <= e
  <2>1. PICK p \in DOMAIN m : IsLast(p, UpTo(m, e))
    BY <1>1, LookupEntry
  <2>2. Lookup(m, e) = m[p]
    BY <1>1, <2>1, LookupEntry
  <2>3. k \in DOMAIN m /\ mm[k] = m[k]
    BY <1>1, <1>8 DEF AssignedOK, Assigned, Consecutive
  <2>4. Consecutive(m, p, k)
    BY <1>1, <1>8, <2>1, <2>3 DEF AssignedOK, Assigned, Consecutive, IsLast, UpTo
  <2>5. mm[j] = Lookup(m, e)
    <3>1. CASE j = e
      BY <3>1 DEF AssignedOK, Assigned, Consecutive
    <3>2. CASE j # e
      <4>1. e \notin DOMAIN mm /\ j <= b
        BY <1>1, <1>2, <1>8, <3>2 DEF Consecutive
      <4>2. PICK i \in DOMAIN mm : IsLast(i, UpTo(mm, b)) /\ mm[i] = v
        BY LeftEntry
      <4>3. i = j
        BY <1>1, <1>8, <4>1, <4>2 DEF IsLast, UpTo, Consecutive
      <4>4. QED
        BY <4>1, <4>2, <4>3 DEF AssignedOK, Assigned
    <3>3. QED
      BY <3>1, <3>2
  <2>6. QED
    BY <2>2, <2>3, <2>4, <2>5 DEF CanonicalMap
<1>9. QED
  BY <1>1, <1>2, <1>4, <1>5, <1>6, <1>7, <1>8

-----------------------------------------------------------------------------
\* A step is an assignment with the effect the lemmas speak of.
LEMMA StepIsAssigned ==
  ASSUME MapOK(map), Next
  PROVE  \E b, e \in Keys, v \in Values : AssignedOK(map, map', b, e, v)
<1>1. PICK b \in Keys, e \in Keys, v \in Values : Assign(b, e, v)
  BY DEF Next
<1>2. AssignedOK(map, map', b, e, v)
  BY <1>1, AssignEffect DEF AssignedOK, Assign
<1>3. QED
  BY <1>2

\* The inductive invariant.
MapInv == MapOK(map) /\ CanonicalMap(map)

\* The map is well formed and canonical after every sequence of assignments.
THEOREM MapCorrect == Spec => []MapInv
<1>1. Init => MapInv
  BY IntervalMapAssumption DEF Init, MapInv, MapOK, CanonicalMap, Consecutive
<1>2. MapInv /\ [Next]_map => MapInv'
  <2> SUFFICES ASSUME MapInv, [Next]_map PROVE MapInv'
    OBVIOUS
  <2>1. CASE Next
    BY <2>1, StepIsAssigned, AssignKeepsMap, AssignCanonical DEF MapInv
  <2>2. CASE UNCHANGED map
    BY <2>2 DEF MapInv, MapOK, CanonicalMap, Consecutive
  <2>3. QED
    BY <2>1, <2>2
<1>3. QED
  BY <1>1, <1>2, PTL DEF Spec

\* Type correctness: operator[] never steps off the beginning of the map.
THEOREM TypeCorrect == Spec => []TypeOK
<1>1. MapInv => TypeOK
  BY DEF MapInv, MapOK, TypeOK
<1>2. QED
  BY <1>1, MapCorrect, PTL

\* Consecutive entries always differ.
THEOREM AlwaysCanonical == Spec => []Canonical
<1>1. MapInv => Canonical
  BY DEF MapInv, CanonicalMap, Consecutive, Canonical
<1>2. QED
  BY <1>1, MapCorrect, PTL

\* Every assignment overwrites exactly its interval: interval_map implements the
\* pointwise map, for every range of keys.
THEOREM Implements == Spec => ImplementsPointwiseMap
<1>1. Init => Abstract!Init
  <2> SUFFICES ASSUME Init, NEW key \in Keys PROVE Lookup(map, key) = InitVal
    BY DEF Abstract!Init
  <2>1. UpTo(map, key) = {MinKey} /\ map[MinKey] = InitVal
    BY IntervalMapAssumption DEF Init, UpTo
  <2>2. MapOK(map) /\ IsLast(MinKey, UpTo(map, key))
    BY <2>1, IntervalMapAssumption DEF Init, MapOK, IsLast
  <2>3. QED
    BY <2>1, <2>2, LookupEntry
<1>2. MapInv /\ [Next]_map => [Abstract!Next]_([k \in Keys |-> Lookup(map, k)])
  <2> SUFFICES ASSUME MapInv, [Next]_map
               PROVE  [Abstract!Next]_([k \in Keys |-> Lookup(map, k)])
    OBVIOUS
  <2>1. CASE Next
    <3>1. PICK b \in Keys, e \in Keys, v \in Values : AssignedOK(map, map', b, e, v)
      BY <2>1, StepIsAssigned DEF MapInv
    <3>2. \A key \in Keys : Lookup(map', key) =
            IF b <= key /\ key < e THEN v ELSE Lookup(map, key)
      BY <3>1, AssignLookup
    <3>3. \A key \in Keys : Lookup(map, key)' = Lookup(map', key)
      BY DEF Lookup, LastOf
    <3>4. [key \in Keys |-> Lookup(map, key)]' =
            [key \in Keys |-> IF b <= key /\ key < e THEN v
                              ELSE [k \in Keys |-> Lookup(map, k)][key]]
      BY <3>2, <3>3
    <3>5. Abstract!Overwrite(b, e, v) /\ b < e
      BY <3>1, <3>4 DEF Abstract!Overwrite, AssignedOK
    <3>6. QED
      BY <3>5 DEF Abstract!Next
  <2>2. CASE UNCHANGED map
    BY <2>2 DEF Lookup, LastOf
  <2>3. QED
    BY <2>1, <2>2
<1>3. QED
  BY <1>1, <1>2, MapCorrect, PTL DEF Spec, ImplementsPointwiseMap, Abstract!Spec
=============================================================================
