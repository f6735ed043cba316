------------------------------ MODULE DictProofs ------------------------------
(***************************************************************************)
(* Proofs about the dictionary of util/oop.h, for every Size and every set *)
(* of keys and values: the counter counts the tuples in use whatever the   *)
(* calls, so setTuple's scan stays in the table; and until a tuple is      *)
(* removed, as in the request parser's use, it is a map of at most Size    *)
(* keys.                                                                   *)
(***************************************************************************)
EXTENDS Dict, FiniteSetTheorems, WellFoundedInduction, TLAPS

(* Every non-empty set of naturals has a least element. *)
LEMMA LeastElement ==
  ASSUME NEW T \in SUBSET Nat, T # {}
  PROVE  \E x \in T : \A y \in T : x <= y
<1>1. PICK x \in T : \A y \in T : ~(<<y, x>> \in OpToRel(<, Nat))
  BY NatLessThanWellFounded, WFMin, Zenon
<1>2. \A y \in T : ~(y < x)
  BY <1>1 DEF OpToRel
<1>. QED
  BY <1>2

(* The slots are a finite set of Size elements, and so is any part of it. *)
LEMMA SlotsFinite ==
  /\ IsFiniteSet(Slots)
  /\ Cardinality(Slots) = Size
  /\ \A T \in SUBSET Slots : IsFiniteSet(T)
<1>1. IsFiniteSet(Slots) /\ Cardinality(Slots) = Size
  BY FS_Interval, SizeAssumption DEF Slots
<1>. QED
  BY <1>1, FS_Subset

LEMMA OccupiedFinite == IsFiniteSet(Occupied)
BY SlotsFinite DEF Occupied

-------------------------------------------------------------------------------
(* The inductive invariant of the whole interface. *)
IInv == TypeOK /\ CounterCountsTuples

LEMMA InitIInv == Init => IInv
<1>. SUFFICES ASSUME Init PROVE IInv
  OBVIOUS
<1>1. TypeOK
  BY SizeAssumption DEF Init, TypeOK, Blank, Tuple, Result
<1>2. Occupied = {}
  BY DEF Init, Blank, Occupied
<1>. QED
  BY <1>1, <1>2, FS_EmptySet DEF Init, IInv, CounterCountsTuples

LEMMA TypeStep == TypeOK /\ [Next]_vars => TypeOK'
<1>. SUFFICES ASSUME TypeOK, [Next]_vars PROVE TypeOK'
  OBVIOUS
<1>. USE SizeAssumption, NullAssumption DEF TypeOK, Tuple, Slots, Result
<1>0. pristine' \in BOOLEAN
  BY Zenon DEF TypeOK, Next, InitDict, SetTuple, GetTuple, GetIndex, RemoveTuple,
               DestroyDict, vars
<1>1. CASE InitDict
  BY <1>0, <1>1 DEF InitDict, Blank
<1>2. ASSUME NEW k \in Keys, NEW v \in Values, SetTuple(k, v) PROVE TypeOK'
  <2>1. CASE \E i \in Slots : /\ Found(k, i)
                              /\ entries' = [entries EXCEPT ![i].val = v]
                              /\ ret' = Result("set", k, 0)
                              /\ UNCHANGED counter
    <3>1. entries' \in [Slots -> Tuple]
      <4>1. PICK i \in Slots : entries' = [entries EXCEPT ![i].val = v]
        BY <2>1, Zenon
      <4>2. [entries[i] EXCEPT !.val = v] \in Tuple
        OBVIOUS
      <4>. QED
        BY <4>1, <4>2, Zenon DEF TypeOK
    <3>. QED
      BY <1>2, <2>1, <3>1 DEF SetTuple
  <2>2. CASE NotFound(k) /\ NewEntry(k, v)
    BY <1>2, <2>2 DEF SetTuple, NewEntry
  <2>3. CASE NotFound(k) /\ counter >= Size /\ ret' = Result("set", k, -1)
             /\ UNCHANGED <<entries, counter>>
    BY <1>2, <2>3 DEF SetTuple
  <2>. QED
    BY <1>2, <2>1, <2>2, <2>3 DEF SetTuple
<1>3. ASSUME NEW k \in Keys, GetTuple(k) PROVE TypeOK'
  BY <1>3 DEF GetTuple
<1>4. ASSUME NEW i \in 0 .. Size, GetIndex(i) PROVE TypeOK'
  <2>1. i < counter => i \in Slots /\ entries[i].val \in Values \cup {NULL}
    OBVIOUS
  <2>2. ret'.res \in Values \cup {NULL} \cup {0, -1}
    BY <1>4, <2>1 DEF GetIndex
  <2>. QED
    BY <1>4, <2>2 DEF GetIndex
<1>5. ASSUME NEW k \in Keys, RemoveTuple(k) PROVE TypeOK'
  <2>1. entries' \in [Slots -> Tuple]
    <3>1. [key |-> NULL, val |-> NULL] \in Tuple
      OBVIOUS
    <3>2. ASSUME NEW i \in Slots, entries' = [entries EXCEPT ![i] = [key |-> NULL, val |-> NULL]]
          PROVE  entries' \in [Slots -> Tuple]
      BY <3>1, <3>2, Zenon DEF TypeOK
    <3>. QED
      BY <1>5, <3>2, Zenon DEF RemoveTuple, TypeOK
  <2>2. counter' \in 0 .. Size
    BY <1>5 DEF RemoveTuple, Found
  <2>. QED
    BY <1>0, <1>5, <2>1, <2>2 DEF RemoveTuple
<1>6. CASE DestroyDict
  <2>1. \A n \in Nat : n \div 2 \in 0 .. n
    OBVIOUS
  <2>2. counter \div 2 \in 0 .. Size
    BY <2>1
  <2>3. counter' \in 0 .. Size
    BY <1>6, <2>2 DEF DestroyDict
  <2>4. entries' = entries /\ ret' = Result("destroy", Size, 0)
    BY <1>6 DEF DestroyDict
  <2>5. live' \in BOOLEAN
    BY <1>6, Zenon DEF DestroyDict
  <2>. QED
    BY <1>0, <2>3, <2>4, <2>5
<1>7. CASE UNCHANGED vars
  BY <1>7 DEF vars
<1>. QED
  BY <1>1, <1>2, <1>3, <1>4, <1>5, <1>6, <1>7 DEF Next

LEMMA CounterStep == IInv /\ [Next]_vars => CounterCountsTuples'
<1>. SUFFICES ASSUME IInv, [Next]_vars, live' PROVE counter' = Cardinality(Occupied')
  BY DEF CounterCountsTuples
<1>. USE NullAssumption DEF IInv, TypeOK, CounterCountsTuples
<1>0. IsFiniteSet(Occupied)
  BY OccupiedFinite
<1>1. CASE InitDict
  <2>1. Occupied' = {}
    BY <1>1 DEF InitDict, Blank, Occupied
  <2>. QED
    BY <1>1, <2>1, FS_EmptySet DEF InitDict
<1>2. ASSUME NEW k \in Keys, NEW v \in Values, SetTuple(k, v)
      PROVE  counter' = Cardinality(Occupied')
  <2>1. CASE \E i \in Slots : /\ Found(k, i)
                              /\ entries' = [entries EXCEPT ![i].val = v]
                              /\ ret' = Result("set", k, 0)
                              /\ UNCHANGED counter
    <3>1. Occupied' = Occupied
      BY <2>1 DEF Occupied, Tuple
    <3>. QED
      BY <1>2, <2>1, <3>1 DEF SetTuple
  <2>2. CASE NotFound(k) /\ NewEntry(k, v)
    <3>1. PICK i \in Slots :
            /\ FirstNull(i)
            /\ entries' = [entries EXCEPT ![i] = [key |-> k, val |-> v]]
      BY <2>2 DEF NewEntry
    <3>2. Occupied' = Occupied \cup {i} /\ i \notin Occupied
      BY <3>1 DEF Occupied, FirstNull, Tuple
    <3>3. counter' = counter + 1 /\ counter = Cardinality(Occupied)
      BY <1>2, <2>2 DEF SetTuple, NewEntry
    <3>. QED
      BY <1>0, <3>2, <3>3, FS_AddElement
  <2>3. CASE NotFound(k) /\ counter >= Size /\ ret' = Result("set", k, -1)
             /\ UNCHANGED <<entries, counter>>
    BY <1>2, <2>3 DEF SetTuple, Occupied
  <2>. QED
    BY <1>2, <2>1, <2>2, <2>3 DEF SetTuple
<1>3. ASSUME NEW k \in Keys, GetTuple(k) PROVE counter' = Cardinality(Occupied')
  BY <1>3 DEF GetTuple, Occupied
<1>4. ASSUME NEW i \in 0 .. Size, GetIndex(i)
      PROVE  counter' = Cardinality(Occupied')
  BY <1>4 DEF GetIndex, Occupied
<1>5. ASSUME NEW k \in Keys, RemoveTuple(k) PROVE counter' = Cardinality(Occupied')
  <2>1. CASE NotFound(k) /\ ret' = Result("remove", k, -1)
             /\ UNCHANGED <<entries, counter>>
    BY <1>5, <2>1 DEF RemoveTuple, Occupied
  <2>2. ASSUME NEW i \in Slots, Found(k, i), counter' = counter - 1,
               entries' = [entries EXCEPT ![i] = [key |-> NULL, val |-> NULL]]
        PROVE  counter' = Cardinality(Occupied')
    <3>1. Occupied' = Occupied \ {i} /\ i \in Occupied
      BY <2>2 DEF Occupied, Found, Tuple
    <3>2. counter = Cardinality(Occupied)
      BY <1>5 DEF RemoveTuple
    <3>. QED
      BY <1>0, <2>2, <3>1, <3>2, FS_RemoveElement
  <2>. QED
    BY <1>5, <2>1, <2>2 DEF RemoveTuple
<1>6. CASE DestroyDict
  BY <1>6 DEF DestroyDict
<1>7. CASE UNCHANGED vars
  BY <1>7 DEF vars, Occupied
<1>. QED
  BY <1>1, <1>2, <1>3, <1>4, <1>5, <1>6, <1>7 DEF Next

(* The invariant of every behaviour of the whole interface. *)
THEOREM DictInvariant == Spec => []IInv
<1>1. IInv /\ [Next]_vars => IInv'
  BY TypeStep, CounterStep DEF IInv
<1>. QED
  BY InitIInv, <1>1, PTL DEF Spec

(* Type correctness: the counter stays between 0 and Size, and the slots hold
   keys and values, for any sequence of calls. *)
THEOREM DictTypeCorrect == Spec => []TypeOK
<1>1. IInv => TypeOK
  BY DEF IInv
<1>. QED
  BY <1>1, DictInvariant, PTL

(* The counter is the number of tuples in use. *)
THEOREM CounterCorrect == Spec => []CounterCountsTuples
<1>1. IInv => CounterCountsTuples
  BY DEF IInv
<1>. QED
  BY <1>1, DictInvariant, PTL

-------------------------------------------------------------------------------
LEMMA RoomMeansFreeSlot ==
  ASSUME IInv, live, counter < Size
  PROVE  \E i \in Slots : FirstNull(i)
<1>. DEFINE Free == {i \in Slots : entries[i].key = NULL}
<1>1. Free # {}
  <2>1. SUFFICES ASSUME Free = {} PROVE FALSE
    OBVIOUS
  <2>2. Occupied = Slots
    BY <2>1 DEF Occupied
  <2>. QED
    BY <2>2, SlotsFinite, SizeAssumption DEF IInv, TypeOK, CounterCountsTuples
<1>2. Free \in SUBSET Nat
  BY SizeAssumption DEF Slots
<1>3. PICK i \in Free : \A j \in Free : i <= j
  BY <1>1, <1>2, LeastElement
<1>. QED
  BY <1>3, SizeAssumption DEF FirstNull, Slots

(* setTuple's scan for a free tuple stops inside the table whenever it is
   started. *)
THEOREM ScanInBounds == Spec => []ScanFindsSlot
<1>1. IInv => ScanFindsSlot
  BY RoomMeansFreeSlot DEF ScanFindsSlot
<1>. QED
  BY <1>1, DictInvariant, PTL

(* A full counter means a full table. *)
LEMMA FullMeansNoFreeSlot ==
  ASSUME IInv, live, counter >= Size
  PROVE  Occupied = Slots
<1>1. Cardinality(Occupied) = Size
  BY SizeAssumption DEF IInv, TypeOK, CounterCountsTuples
<1>2. Occupied \in SUBSET Slots
  BY DEF Occupied
<1>. QED
  BY <1>1, <1>2, SlotsFinite, FS_Subset

(* No tuple is refused while a slot is free or already holds the key. *)
THEOREM NoSpuriousRefusal == Spec => RefusesOnlyWhenFull
<1>. DEFINE A == ret'.op = "set" /\ ret'.res = -1
                   => \A i \in Slots : entries[i].key \notin {NULL, ret'.arg}
<1>1. IInv /\ [Next]_vars => [A]_vars
  <2>. SUFFICES ASSUME IInv, Next, ret'.op = "set", ret'.res = -1,
                       NEW i \in Slots
                PROVE  entries[i].key \notin {NULL, ret'.arg}
    OBVIOUS
  <2>1. PICK k \in Keys, v \in Values : SetTuple(k, v)
    BY DEF Next, InitDict, GetTuple, GetIndex, RemoveTuple,
           DestroyDict, Result
  <2>2. live /\ NotFound(k) /\ counter >= Size /\ ret'.arg = k
    BY <2>1 DEF SetTuple, NewEntry, Result
  <2>3. i \in Occupied /\ i < counter
    BY <2>2, FullMeansNoFreeSlot, SizeAssumption DEF Slots, IInv, TypeOK
  <2>. QED
    BY <2>2, <2>3 DEF Occupied, NotFound
<1>. QED
  BY <1>1, DictInvariant, PTL DEF Spec, RefusesOnlyWhenFull

-------------------------------------------------------------------------------
(* A dictionary nothing was removed from: no holes, no key twice, and as many
   keys in the map as the counter says. *)
RInv == /\ TypeOK
        /\ live
        /\ pristine
        /\ CompactUnique
        /\ IsFiniteSet(M!Stored)
        /\ counter = Cardinality(M!Stored)

(* The inductive invariant behind the refinement. *)
MInv == TypeOK /\ (pristine => RInv)

(* The map's module counts keys with the same Cardinality. *)
LEMMA SameCardinality == M!Cardinality(M!Stored) = Cardinality(M!Stored)
BY DEF M!Cardinality, Cardinality, M!IsFiniteSet, IsFiniteSet

(* The map after each of the state changes initDict and setTuple make. *)
LEMMA MapBlank ==
  ASSUME counter = 0
  PROVE  MapOf = M!Empty /\ M!Stored = {}
<1>1. \A k \in Keys : MapOf[k] = {}
  BY SizeAssumption DEF MapOf, Slots
<1>. QED
  BY <1>1 DEF MapOf, M!Empty, M!Stored

LEMMA MapRebound ==
  ASSUME RInv, NEW k \in Keys, NEW v \in Values, NEW i \in Slots, Found(k, i),
         entries' = [entries EXCEPT ![i].val = v], counter' = counter
  PROVE  MapOf' = [MapOf EXCEPT ![k] = {v}] /\ k \in M!Stored
<1>. USE DEF RInv, TypeOK, Found
<1>1. \A j \in Slots : /\ entries'[j].key = entries[j].key
                       /\ j # i => entries'[j].val = entries[j].val
                       /\ j = i => entries'[j].val = v
  BY DEF Tuple
<1>2. \A j \in Slots : j < counter /\ entries[j].key = k => j = i
  BY NullAssumption DEF CompactUnique, Occupied
<1>3. MapOf'[k] = {v}
  BY <1>1, <1>2 DEF MapOf
<1>4. ASSUME NEW q \in Keys, q # k PROVE MapOf'[q] = MapOf[q]
  BY <1>1, <1>4 DEF MapOf
<1>5. entries[i].val \in MapOf[k]
  BY DEF MapOf
<1>. QED
  BY <1>3, <1>4, <1>5 DEF MapOf, M!Stored

LEMMA MapExtended ==
  ASSUME RInv, NEW k \in Keys, NEW v \in Values, NotFound(k), NewEntry(k, v)
  PROVE  /\ MapOf' = [MapOf EXCEPT ![k] = {v}]
         /\ k \notin M!Stored
         /\ CompactUnique'
<1>. USE SizeAssumption, NullAssumption DEF RInv, TypeOK
<1>1. PICK i \in Slots :
        /\ FirstNull(i)
        /\ entries' = [entries EXCEPT ![i] = [key |-> k, val |-> v]]
  BY DEF NewEntry
<1>2. i = counter /\ counter' = counter + 1
  BY <1>1 DEF FirstNull, CompactUnique, Slots, NewEntry
<1>3. \A j \in Slots : j # i => entries'[j] = entries[j]
  BY <1>1
<1>4. entries'[i].key = k /\ entries'[i].val = v
  BY <1>1
<1>5. MapOf'[k] = {v}
  BY <1>2, <1>3, <1>4 DEF MapOf, NotFound, Slots
<1>6. ASSUME NEW q \in Keys, q # k PROVE MapOf'[q] = MapOf[q]
  BY <1>2, <1>3, <1>4, <1>6 DEF MapOf, Slots
<1>7. MapOf' = [MapOf EXCEPT ![k] = {v}]
  BY <1>5, <1>6 DEF MapOf
<1>8. k \notin M!Stored
  BY DEF M!Stored, MapOf, NotFound
<1>9. CompactUnique'
  <2>1. \A j \in Slots : j < counter' <=> entries'[j].key # NULL
    BY <1>2, <1>3, <1>4 DEF CompactUnique, Slots
  <2>2. \A j \in Slots : j # i /\ entries'[j].key # NULL => entries'[j].key # k
    BY <1>3 DEF CompactUnique, NotFound
  <2>. QED
    BY <1>3, <1>4, <2>1, <2>2 DEF CompactUnique, Occupied
<1>. QED
  BY <1>7, <1>8, <1>9

LEMMA InitRInv == Init => RInv
<1>. SUFFICES ASSUME Init PROVE RInv
  OBVIOUS
<1>1. TypeOK
  BY InitIInv DEF IInv
<1>2. CompactUnique
  BY SizeAssumption DEF Init, Blank, CompactUnique, Slots, Occupied
<1>. QED
  BY <1>1, <1>2, MapBlank, FS_EmptySet DEF Init, RInv

(* initDict makes a pristine dictionary of any other, and empties the map. *)
LEMMA InitDictStep ==
  ASSUME TypeOK, InitDict
  PROVE  RInv' /\ M!Clear
<1>0. TypeOK'
  BY TypeStep DEF Next
<1>1. counter' = 0 /\ live' /\ pristine' /\ entries' \in Blank
  BY DEF InitDict
<1>2. CompactUnique'
  BY <1>1, SizeAssumption DEF Blank, CompactUnique, Slots, Occupied
<1>3. MapOf' = M!Empty /\ M!Stored' = {}
  <2>1. \A k \in Keys : MapOf'[k] = {}
    BY <1>1, SizeAssumption DEF MapOf, Slots
  <2>. QED
    BY <2>1 DEF MapOf, M!Empty, M!Stored
<1>4. M!Clear
  BY <1>3 DEF InitDict, M!Clear, M!Result, Result
<1>. QED
  BY <1>0, <1>1, <1>2, <1>3, <1>4, FS_EmptySet DEF RInv

(* One step from a pristine dictionary is a step of the map, and leaves the
   dictionary pristine or ends the map's promise. *)
LEMMA PristineStep ==
  ASSUME RInv, [Next]_vars
  PROVE  (pristine' => RInv') /\ [M!Next]_(M!vars)
<1>0. TypeOK'
  BY TypeStep DEF RInv
<1>1. CASE InitDict
  BY <1>1, InitDictStep DEF RInv, M!Next
<1>2. ASSUME NEW k \in Keys, NEW v \in Values, SetTuple(k, v)
      PROVE  RInv' /\ M!Set(k, v)
  <2>0. live' /\ pristine'
    BY <1>2 DEF SetTuple, RInv
  <2>1. ASSUME NEW i \in Slots, Found(k, i), ret' = Result("set", k, 0),
               entries' = [entries EXCEPT ![i].val = v], counter' = counter
        PROVE  RInv' /\ M!Set(k, v)
    <3>1. MapOf' = [MapOf EXCEPT ![k] = {v}] /\ k \in M!Stored
      BY <2>1, MapRebound
    <3>2. M!Stored' = M!Stored
      BY <3>1 DEF M!Stored, MapOf
    <3>3. CompactUnique'
      <4>1. \A j \in Slots : entries'[j].key = entries[j].key
        BY <2>1 DEF RInv, TypeOK, Tuple
      <4>. QED
        BY <2>1, <4>1 DEF RInv, CompactUnique, Occupied
    <3>4. M!Set(k, v)
      BY <2>1, <3>1 DEF M!Set, M!Result, Result
    <3>. QED
      BY <1>0, <2>0, <2>1, <3>2, <3>3, <3>4 DEF RInv
  <2>2. CASE NotFound(k) /\ NewEntry(k, v)
    <3>1. /\ MapOf' = [MapOf EXCEPT ![k] = {v}]
          /\ k \notin M!Stored
          /\ CompactUnique'
      BY <2>2, MapExtended
    <3>2. M!Stored' = M!Stored \cup {k}
      BY <3>1 DEF M!Stored, MapOf
    <3>3. counter' = counter + 1 /\ counter < Size /\ ret' = Result("set", k, 0)
      BY <2>2 DEF NewEntry
    <3>4. IsFiniteSet(M!Stored') /\ Cardinality(M!Stored') = counter'
      BY <3>1, <3>2, <3>3, FS_AddElement DEF RInv
    <3>5. M!Set(k, v)
      BY <3>1, <3>3, SameCardinality DEF M!Set, M!Result, Result, RInv
    <3>. QED
      BY <1>0, <2>0, <3>1, <3>4, <3>5 DEF RInv
  <2>3. CASE NotFound(k) /\ counter >= Size /\ ret' = Result("set", k, -1)
             /\ UNCHANGED <<entries, counter>>
    <3>1. k \notin M!Stored
      BY <2>3 DEF M!Stored, MapOf, NotFound
    <3>2. MapOf' = MapOf
      BY <2>3 DEF MapOf
    <3>3. M!Stored' = M!Stored
      BY <3>2 DEF M!Stored
    <3>4. CompactUnique'
      BY <2>3 DEF RInv, CompactUnique, Occupied
    <3>5. M!Set(k, v)
      BY <2>3, <3>1, <3>2, SameCardinality DEF M!Set, M!Result, Result, RInv
    <3>. QED
      BY <1>0, <2>0, <2>3, <3>3, <3>4, <3>5 DEF RInv
  <2>. QED
    BY <1>2, <2>1, <2>2, <2>3 DEF SetTuple
<1>3. ASSUME UNCHANGED <<entries, counter, live, pristine>>
      PROVE  RInv' /\ MapOf' = MapOf
  <2>1. MapOf' = MapOf
    BY <1>3 DEF MapOf
  <2>2. M!Stored' = M!Stored
    BY <2>1 DEF M!Stored
  <2>3. CompactUnique'
    BY <1>3 DEF RInv, CompactUnique, Occupied
  <2>. QED
    BY <1>0, <1>3, <2>1, <2>2, <2>3 DEF RInv
<1>4. ASSUME NEW k \in Keys, GetTuple(k)
      PROVE  RInv' /\ M!Get(k)
  <2>1. MapOf' = MapOf /\ RInv'
    BY <1>3, <1>4 DEF GetTuple
  <2>2. NotFound(k) => MapOf[k] = {}
    BY DEF MapOf, NotFound
  <2>3. \A i \in Slots : Found(k, i) => entries[i].val \in MapOf[k]
    BY DEF MapOf, Found
  <2>. QED
    BY <1>4, <2>1, <2>2, <2>3 DEF GetTuple, M!Get, M!Result, Result
<1>5. ASSUME NEW i \in 0 .. Size, GetIndex(i)
      PROVE  RInv' /\ M!Index(i)
  <2>1. MapOf' = MapOf /\ RInv'
    BY <1>3, <1>5 DEF GetIndex
  <2>2. CASE i < counter
    <3>1. i \in Slots /\ entries[i].key \in Keys
      BY <2>2, SizeAssumption DEF RInv, TypeOK, CompactUnique, Slots, Tuple
    <3>2. entries[i].val \in MapOf[entries[i].key]
      BY <2>2, <3>1 DEF MapOf
    <3>3. entries[i].key \in M!Stored
      BY <3>1, <3>2 DEF M!Stored
    <3>4. ret' = Result("index", i, entries[i].val)
      BY <1>5, <2>2, <3>1, NullAssumption DEF GetIndex
    <3>. QED
      BY <2>1, <2>2, <3>2, <3>3, <3>4, SameCardinality DEF M!Index, M!Result, Result, RInv
  <2>3. CASE ~(i < counter)
    <3>1. ret' = Result("index", i, -1) /\ i >= counter
      BY <1>5, <2>3 DEF GetIndex, RInv, TypeOK
    <3>. QED
      BY <2>1, <3>1, SameCardinality DEF M!Index, M!Result, Result, RInv
  <2>. QED
    BY <2>2, <2>3
<1>6. ASSUME NEW k \in Keys, RemoveTuple(k)
      PROVE  (pristine' => RInv') /\ M!Next
  <2>1. CASE NotFound(k) /\ ret' = Result("remove", k, -1)
             /\ UNCHANGED <<entries, counter, pristine>>
    <3>1. MapOf' = MapOf /\ RInv'
      BY <1>3, <1>6, <2>1 DEF RemoveTuple
    <3>2. k \notin M!Stored
      BY <2>1 DEF M!Stored, MapOf, NotFound
    <3>3. M!RemoveAbsent(k)
      BY <2>1, <3>1, <3>2 DEF M!RemoveAbsent, M!Result, Result
    <3>. QED
      BY <3>1, <3>3 DEF M!Next, M!Promised, RInv
  <2>2. ASSUME NEW i \in Slots, Found(k, i), ret' = Result("remove", k, 0),
               pristine' = FALSE
        PROVE  M!Next /\ ~pristine'
    <3>1. entries[i].val \in MapOf[k]
      BY <2>2 DEF MapOf, Found
    <3>2. M!RemovePresent(k)
      BY <2>2, <3>1 DEF M!RemovePresent, M!Stored, M!Result, Result
    <3>. QED
      BY <2>2, <3>2 DEF M!Next, M!Ending, RInv
  <2>. QED
    BY <1>6, <2>1, <2>2 DEF RemoveTuple
<1>7. CASE DestroyDict
  <2>1. M!Destroy /\ ~pristine'
    BY <1>7 DEF DestroyDict, M!Destroy, M!Result, Result
  <2>. QED
    BY <2>1 DEF M!Next, M!Ending, RInv
<1>8. CASE UNCHANGED vars
  <2>1. RInv' /\ UNCHANGED M!vars
    BY <1>3, <1>8 DEF vars, M!vars
  <2>. QED
    BY <2>1
<1>9. RInv => pristine
  BY DEF RInv
<1>10. ASSUME NEW k \in Keys, NEW v \in Values, SetTuple(k, v) PROVE M!Next
  BY <1>2, <1>9, <1>10 DEF M!Next, M!Promised, RInv
<1>11. ASSUME NEW k \in Keys, GetTuple(k) PROVE M!Next
  BY <1>4, <1>9, <1>11 DEF M!Next, M!Promised, RInv
<1>12. ASSUME NEW i \in 0 .. Size, GetIndex(i) PROVE M!Next
  BY <1>5, <1>9, <1>12 DEF M!Next, M!Promised, RInv
<1>. QED
  BY <1>1, <1>2, <1>4, <1>5, <1>6, <1>7, <1>8, <1>10, <1>11, <1>12 DEF Next

(* Any step: of a dictionary that is no longer pristine the map says nothing,
   until initDict makes it so again. *)
LEMMA MapStep ==
  ASSUME MInv, [Next]_vars
  PROVE  MInv' /\ [M!Next]_(M!vars)
<1>0. TypeOK'
  BY TypeStep DEF MInv
<1>1. CASE pristine
  BY <1>0, <1>1, PristineStep DEF MInv
<1>2. CASE ~pristine /\ InitDict
  BY <1>0, <1>2, InitDictStep DEF MInv, M!Next
<1>3. CASE ~pristine /\ ~InitDict
  <2>1. ~pristine'
    BY <1>3, Zenon DEF Next, SetTuple, GetTuple, GetIndex, RemoveTuple, DestroyDict, vars
  <2>. QED
    BY <1>0, <1>3, <2>1 DEF MInv, M!Next
<1>. QED
  BY <1>1, <1>2, <1>3

LEMMA InitMInv == Init => MInv
BY InitRInv DEF MInv, RInv

(* Until a tuple is removed the tuples in use are the slots below the counter
   and every key occurs once: findKey's bounded search misses nothing. *)
THEOREM PristineCompact == Spec => []CompactUnique
<1>1. MInv /\ [Next]_vars => MInv'
  BY MapStep
<1>2. MInv => CompactUnique
  BY DEF MInv, RInv, CompactUnique
<1>. QED
  BY InitMInv, <1>1, <1>2, PTL DEF Spec

(* The dictionary implements the bounded map, whose promise ends with the first
   removal and is renewed by initDict. *)
THEOREM DictRefinesMap == Spec => RefinesMap
<1>1. MInv /\ [Next]_vars => MInv' /\ [M!Next]_(M!vars)
  BY MapStep
<1>2. Init => M!Init
  BY MapBlank DEF Init, M!Init, M!Result, Result
<1>. QED
  BY InitMInv, <1>1, <1>2, PTL DEF Spec, RefinesMap, M!Spec

===============================================================================
