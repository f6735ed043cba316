------------------------------ MODULE BoundedMap ------------------------------
(***************************************************************************)
(* What a user of the static-size dictionary of util/oop.h expects: a      *)
(* finite map of at most Size keys.  map[k] is the set of values bound to  *)
(* k, empty when k is absent and a singleton otherwise.  ret is the call   *)
(* made last with its argument and its result, -1 standing both for the    *)
(* error code and for the pointer (void* ) -1 that means "not found".      *)
(* The promise holds while valid: taking a key out ends it, because the    *)
(* table may hide another tuple from then on, and emptying the map renews  *)
(* it.                                                                     *)
(***************************************************************************)
EXTENDS Integers, FiniteSets

CONSTANTS Keys, Values, Size

VARIABLES map, ret, valid

vars == <<map, ret, valid>>

Stored == {k \in Keys : map[k] # {}}

Empty == [k \in Keys |-> {}]

Result(op, arg, res) == [op |-> op, arg |-> arg, res |-> res]

Init == /\ map = Empty
        /\ valid = TRUE
        /\ ret = Result("init", Size, 0)

Clear == /\ map' = Empty
         /\ valid' = TRUE
         /\ ret' = Result("init", Size, 0)

(* A key that is there is rebound; a new one needs room. *)
Set(k, v) ==
  \/ /\ k \in Stored \/ Cardinality(Stored) < Size
     /\ map' = [map EXCEPT ![k] = {v}]
     /\ ret' = Result("set", k, 0)
  \/ /\ k \notin Stored
     /\ Cardinality(Stored) >= Size
     /\ ret' = Result("set", k, -1)
     /\ UNCHANGED map

Get(k) ==
  /\ \/ \E v \in map[k] : ret' = Result("get", k, v)
     \/ map[k] = {} /\ ret' = Result("get", k, -1)
  /\ UNCHANGED map

(* The i-th tuple, in an order the map does not fix. *)
Index(i) ==
  /\ \/ /\ i < Cardinality(Stored)
        /\ \E k \in Stored : \E v \in map[k] : ret' = Result("index", i, v)
     \/ /\ i >= Cardinality(Stored)
        /\ ret' = Result("index", i, -1)
  /\ UNCHANGED map

(* Removing a key that is not there is an error and changes nothing. *)
RemoveAbsent(k) == /\ k \notin Stored
                   /\ ret' = Result("remove", k, -1)
                   /\ UNCHANGED map

(* Removing a key that is there succeeds, and so does destroying the map; what
   the map holds from then on is not said. *)
RemovePresent(k) == /\ k \in Stored
                    /\ ret' = Result("remove", k, 0)

Destroy == ret' = Result("destroy", Size, 0)

Promised == \/ \E k \in Keys, v \in Values : Set(k, v)
            \/ \E k \in Keys : Get(k)
            \/ \E i \in 0 .. Size : Index(i)
            \/ \E k \in Keys : RemoveAbsent(k)

Ending == \/ \E k \in Keys : RemovePresent(k)
          \/ Destroy

Next == \/ Clear
        \/ valid /\ valid' /\ Promised
        \/ valid /\ ~valid' /\ Ending
        \/ ~valid /\ ~valid'

Spec == Init /\ [][Next]_vars

===============================================================================
