--------------------------------- MODULE Dict ---------------------------------
(***************************************************************************)
(* The static-size dictionary of util/oop.h: a table of Size tuples and a  *)
(* counter of the tuples in use.  A tuple is free when its key is NULL.    *)
(* findKey looks only at the slots below the counter, setTuple fills the   *)
(* first free slot of the whole table, removeTuple leaves a hole.          *)
(* ret is the last call, with its argument and its result.                 *)
(***************************************************************************)
EXTENDS Integers, FiniteSets

CONSTANTS Keys,     \* the strings used as keys, compared with strcmp
          Values,   \* the pointers stored under them
          Size,     \* initDict's argument (50 headers, 20 query parameters)
          NULL

(* initDict's argument is an unsigned int; a key in use is never NULL. *)
ASSUME SizeAssumption == Size \in Nat
ASSUME NullAssumption == NULL \notin Keys

VARIABLES entries,   \* the tuples: slot number to [key, val]
          counter,   \* d->counter
          live,      \* FALSE once destroyDict has freed the dictionary
          ret,       \* the last call and its result
          pristine   \* history: nothing was removed since initDict

vars == <<entries, counter, live, ret, pristine>>

Slots == 0 .. Size - 1

Tuple == [key : Keys \cup {NULL}, val : Values \cup {NULL}]

Result(op, arg, res) == [op |-> op, arg |-> arg, res |-> res]

Occupied == {i \in Slots : entries[i].key # NULL}

-------------------------------------------------------------------------------
(* findKey: the first slot below the counter that holds k, if there is one. *)
Found(k, i) == /\ i < counter
               /\ entries[i].key = k
               /\ \A j \in Slots : j < i => entries[j].key # k

NotFound(k) == \A i \in Slots : i < counter => entries[i].key # k

(* The slot at which setTuple's scan for a free tuple stops. *)
FirstNull(i) == /\ entries[i].key = NULL
                /\ \A j \in Slots : j < i => entries[j].key # NULL

(* initDict: every key is NULL, the values are what malloc returned. *)
Blank == [Slots -> [key : {NULL}, val : Values \cup {NULL}]]

Init == /\ entries \in Blank
        /\ counter = 0
        /\ live = TRUE
        /\ pristine = TRUE
        /\ ret = Result("init", Size, 0)

(* A further initDict: the request parser makes new dictionaries for every
   request and drops the old ones. *)
InitDict == /\ entries' \in Blank
            /\ counter' = 0
            /\ live' = TRUE
            /\ pristine' = TRUE
            /\ ret' = Result("init", Size, 0)

(* A mutant of setTuple's new entry: the counter is not advanced. *)
NewEntryUncounted(k, v) ==
  /\ counter < Size
  /\ \E i \in Slots :
       /\ FirstNull(i)
       /\ entries' = [entries EXCEPT ![i] = [key |-> k, val |-> v]]
  /\ UNCHANGED counter
  /\ ret' = Result("set", k, 0)

NewEntry(k, v) ==
  /\ counter < Size
  /\ \E i \in Slots :
       /\ FirstNull(i)
       /\ entries' = [entries EXCEPT ![i] = [key |-> k, val |-> v]]
  /\ counter' = counter + 1
  /\ ret' = Result("set", k, 0)

(* A mutant of setTuple: rebinding a key counts as a new tuple. *)
SetTupleRecounts(k, v) ==
  /\ live
  /\ \/ \E i \in Slots :
          /\ Found(k, i)
          /\ entries' = [entries EXCEPT ![i].val = v]
          /\ ret' = Result("set", k, 0)
          /\ counter' = IF counter < Size THEN counter + 1 ELSE counter
     \/ NotFound(k) /\ NewEntry(k, v)
     \/ /\ NotFound(k)
        /\ counter >= Size
        /\ ret' = Result("set", k, -1)
        /\ UNCHANGED <<entries, counter>>
  /\ UNCHANGED <<live, pristine>>

SetTuple(k, v) ==
  /\ live
  /\ \/ \E i \in Slots :                        \* found key
          /\ Found(k, i)
          /\ entries' = [entries EXCEPT ![i].val = v]
          /\ ret' = Result("set", k, 0)
          /\ UNCHANGED counter
     \/ NotFound(k) /\ NewEntry(k, v)
     \/ /\ NotFound(k)                          \* no room left in dict
        /\ counter >= Size
        /\ ret' = Result("set", k, -1)
        /\ UNCHANGED <<entries, counter>>
  /\ UNCHANGED <<live, pristine>>

GetTuple(k) ==
  /\ live
  /\ \/ \E i \in Slots : /\ Found(k, i)
                         /\ ret' = Result("get", k, entries[i].val)
     \/ /\ NotFound(k)
        /\ ret' = Result("get", k, -1)
  /\ UNCHANGED <<entries, counter, live, pristine>>

GetIndex(i) ==
  /\ live
  /\ IF i < counter /\ entries[i].key # NULL
       THEN ret' = Result("index", i, entries[i].val)
       ELSE ret' = Result("index", i, -1)
  /\ UNCHANGED <<entries, counter, live, pristine>>

(* Mutants of removeTuple: the key stays; the counter stays; the counter goes
   down for a key that is not there. *)
RemoveTupleKeepsKey(k) ==
  /\ live
  /\ \/ \E i \in Slots : /\ Found(k, i)
                         /\ entries' = [entries EXCEPT ![i].val = NULL]
                         /\ counter' = counter - 1
                         /\ ret' = Result("remove", k, 0)
                         /\ pristine' = FALSE
     \/ /\ NotFound(k)
        /\ ret' = Result("remove", k, -1)
        /\ UNCHANGED <<entries, counter, pristine>>
  /\ UNCHANGED live

RemoveTupleKeepsCount(k) ==
  /\ live
  /\ \/ \E i \in Slots :
          /\ Found(k, i)
          /\ entries' = [entries EXCEPT ![i] = [key |-> NULL, val |-> NULL]]
          /\ ret' = Result("remove", k, 0)
          /\ pristine' = FALSE
     \/ /\ NotFound(k)
        /\ ret' = Result("remove", k, -1)
        /\ UNCHANGED <<entries, pristine>>
  /\ UNCHANGED <<counter, live>>

RemoveTupleAlwaysCounts(k) ==
  /\ live
  /\ \/ \E i \in Slots :
          /\ Found(k, i)
          /\ entries' = [entries EXCEPT ![i] = [key |-> NULL, val |-> NULL]]
          /\ ret' = Result("remove", k, 0)
          /\ pristine' = FALSE
     \/ /\ NotFound(k)
        /\ ret' = Result("remove", k, -1)
        /\ UNCHANGED <<entries, pristine>>
  /\ counter' = counter - 1
  /\ UNCHANGED live

RemoveTuple(k) ==
  /\ live
  /\ \/ \E i \in Slots :
          /\ Found(k, i)
          /\ entries' = [entries EXCEPT ![i] = [key |-> NULL, val |-> NULL]]
          /\ counter' = counter - 1
          /\ ret' = Result("remove", k, 0)
          /\ pristine' = FALSE
     \/ /\ NotFound(k)
        /\ ret' = Result("remove", k, -1)
        /\ UNCHANGED <<entries, counter, pristine>>
  /\ UNCHANGED live

(* The loop advances i and lowers the counter together, so it stops half way
   down; the pointers it clears are freed right after, with the dictionary. *)
DestroyDict == /\ live
               /\ live' = FALSE
               /\ pristine' = FALSE
               /\ counter' = counter \div 2
               /\ ret' = Result("destroy", Size, 0)
               /\ UNCHANGED entries

-------------------------------------------------------------------------------
(* parseRequest makes a fresh dictionary for every request and sets tuples in
   it; reading, removing and destroying complete the interface. *)
Next == \/ InitDict
        \/ \E k \in Keys, v \in Values : SetTuple(k, v)
        \/ \E k \in Keys : GetTuple(k)
        \/ \E i \in 0 .. Size : GetIndex(i)
        \/ \E k \in Keys : RemoveTuple(k)
        \/ DestroyDict

Spec == Init /\ [][Next]_vars

-------------------------------------------------------------------------------
TypeOK == /\ entries \in [Slots -> Tuple]
          /\ counter \in 0 .. Size
          /\ live \in BOOLEAN
          /\ pristine \in BOOLEAN
          /\ ret \in [op : {"init", "set", "get", "index", "remove", "destroy"},
                      arg : Keys \cup 0 .. Size,
                      res : Values \cup {NULL} \cup {0, -1}]

(* The counter is the number of tuples in use, whatever sequence of calls and
   whatever holes removeTuple left: setTuple's test counter < size stands for
   "some slot is free" and is all that stops its scan. *)
CounterCountsTuples == live => counter = Cardinality(Occupied)

(* When setTuple has decided there is room, its scan for a free tuple stops
   inside the table: entries[i] at line 147 is a slot. *)
ScanFindsSlot == live /\ counter < Size => \E i \in Slots : FirstNull(i)

(* setTuple refuses a tuple only when every slot is in use and none holds the
   key: no call is lost while a slot is free, and an existing key can always be
   rebound. *)
RefusesOnlyWhenFull ==
  [][ret'.op = "set" /\ ret'.res = -1
       => \A i \in Slots : entries[i].key \notin {NULL, ret'.arg}]_vars

(* As long as nothing was removed (the parser's use) the tuples in use fill the
   slots below the counter and no key occurs twice, so findKey sees every
   tuple. *)
CompactUnique ==
  pristine =>
    /\ \A i \in Slots : i < counter <=> entries[i].key # NULL
    /\ \A i, j \in Occupied : entries[i].key = entries[j].key => i = j

(* What oop_test.c says of a removed key ("should return -1 (nothing is
   there)"): once removeTuple has succeeded, findKey no longer finds the key. *)
RemovedIsGone == live /\ ret.op = "remove" /\ ret.res = 0 => NotFound(ret.arg)

(* The map a dictionary stands for: what findKey finds. *)
MapOf == [k \in Keys |-> {entries[i].val : i \in {j \in Slots :
                             j < counter /\ entries[j].key = k}}]

M == INSTANCE BoundedMap WITH map <- MapOf, valid <- pristine

(* Until a tuple is removed, and again after each initDict, the dictionary is a
   map of at most Size keys: every call answers as the map would, a removeTuple
   that finds nothing included. *)
RefinesMap == M!Spec

===============================================================================
