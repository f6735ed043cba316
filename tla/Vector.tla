--------------------------------- MODULE Vector ---------------------------------
(***************************************************************************)
(* The integer vector of util/vector.c.  IncrementVector is the same code  *)
(* under other names.  An index is an int, compared with a size_t: a       *)
(* negative one becomes a huge number.  malloc and realloc may fail, and   *)
(* nobody looks: the next store goes through the NULL pointer.             *)
(***************************************************************************)
EXTENDS Integers, Sequences

CONSTANTS Values,       \* the ints stored
          Indices,      \* the index arguments tried, negative ones included
          Capacities,   \* the initial capacities tried
          MaxCap,       \* the most ints an allocation may give: memory is finite
          SizeMod,      \* 2^64, the modulus of size_t
          Junk,         \* what fresh memory holds
          NULL

(* A size_t is wider than an int, and no allocation reaches the sizes a negative
   index turns into. *)
ASSUME VectorAssumption ==
  /\ MaxCap \in Nat /\ SizeMod \in Nat \ {0} /\ Capacities \subseteq Nat
  /\ Indices \subseteq -SizeMod .. SizeMod - 1
  /\ \A i \in Indices : i >= 0 \/ MaxCap < SizeMod + i

(* NULL is no block. *)
ASSUME NullAssumption ==
  \A c \in 0 .. MaxCap : NULL \notin [0 .. c - 1 -> Values \cup {0, Junk}]

VARIABLES size, capacity, data,   \* the fields of the vector
          pc,     \* idle, set (in the loop of int_vector_set), freed,
                  \* exited (exit(1)), crashed (a store through NULL),
                  \* overrun (a store behind the block)
          call,   \* the arguments of int_vector_set, and the size when it began
          ret     \* the last result of int_vector_get

vars == <<size, capacity, data, pc, call, ret>>

NoCall == [index |-> 0, val |-> 0, base |-> 0]

(* A block of c ints, or no memory. *)
Blocks(c) == {NULL} \cup {[j \in 0 .. k - 1 |-> Junk] : k \in {c} \cap (0 .. MaxCap)}

(* realloc keeps the ints it has room for; asked for none it frees the block.
   Without a block it is malloc. *)
Realloc(c) ==
  IF data = NULL THEN Blocks(c)
  ELSE {NULL} \cup {[j \in 0 .. k - 1 |-> IF j \in DOMAIN data THEN data[j] ELSE Junk]
                       : k \in {c} \cap (1 .. MaxCap)}

(* (size_t) i *)
Unsigned(i) == i % SizeMod

-------------------------------------------------------------------------------
IntVectorInit(c) == /\ size' = 0 /\ capacity' = c
                    /\ data' \in Blocks(c)
                    /\ pc' = "idle"

Init == /\ size = 0 /\ capacity \in Capacities
        /\ data \in Blocks(capacity)
        /\ pc = "idle" /\ call = NoCall /\ ret = 0

(* A mutant of int_vector_resize: the vector grows one element late. *)
IntVectorResizeLate(c, d) ==
  IF size > capacity THEN c = 2 * capacity /\ d \in Realloc(c)
                     ELSE c = capacity /\ d = data

(* c and d are the capacity and the data when int_vector_resize returns. *)
IntVectorResize(c, d) ==
  IF size >= capacity THEN c = 2 * capacity /\ d \in Realloc(c)
                      ELSE c = capacity /\ d = data

(* int_vector_append, and the pc it leaves when the store does no harm. *)
Push(v, then) ==
  \E c \in {capacity, 2 * capacity} : \E d \in Realloc(c) \cup {data} :
    /\ IntVectorResize(c, d)
    /\ capacity' = c
    /\ IF d # NULL /\ size \in DOMAIN d
         THEN /\ data' = [d EXCEPT ![size] = v]
              /\ size' = size + 1 /\ pc' = then
         ELSE /\ pc' = IF d = NULL THEN "crashed" ELSE "overrun"
              /\ data' = d /\ UNCHANGED size
  /\ UNCHANGED ret

IntVectorAppend(v) == /\ pc = "idle" /\ Push(v, "idle")
                      /\ UNCHANGED call

IntVectorGet(i) ==
  /\ pc = "idle"
  /\ IF Unsigned(i) >= size \/ i < 0
       THEN pc' = "exited" /\ UNCHANGED ret
       ELSE ret' = data[i] /\ UNCHANGED pc
  /\ UNCHANGED <<size, capacity, data, call>>

IntVectorSet(i, v) ==
  /\ pc = "idle" /\ pc' = "set"
  /\ call' = [index |-> i, val |-> v, base |-> size]
  /\ UNCHANGED <<size, capacity, data, ret>>

(* One round of its loop: an append of 0. *)
SetFill == /\ pc = "set" /\ Unsigned(call.index) >= size
           /\ Push(0, "set")
           /\ UNCHANGED call

(* A mutant of the store: it counts from 1. *)
SetStoreNext == /\ pc = "set" /\ Unsigned(call.index) < size
                /\ data' = [data EXCEPT ![call.index + 1] = call.val]
                /\ pc' = "idle" /\ call' = NoCall
                /\ UNCHANGED <<size, capacity, ret>>

SetStore == /\ pc = "set" /\ Unsigned(call.index) < size
            /\ data' = [data EXCEPT ![call.index] = call.val]
            /\ pc' = "idle" /\ call' = NoCall
            /\ UNCHANGED <<size, capacity, ret>>

(* The fields keep their values: the pointer dangles until the next init. *)
IntVectorFree == /\ pc = "idle" /\ pc' = "freed"
                 /\ UNCHANGED <<size, capacity, data, call, ret>>

IntVectorInitAgain == /\ pc = "freed"
                      /\ \E c \in Capacities : IntVectorInit(c)
                      /\ UNCHANGED <<call, ret>>

Ended == pc \in {"exited", "crashed", "overrun"} /\ UNCHANGED vars

Next == \/ \E v \in Values : IntVectorAppend(v)
        \/ \E i \in Indices : IntVectorGet(i)
        \/ \E i \in Indices, v \in Values : IntVectorSet(i, v)
        \/ SetFill \/ SetStore \/ IntVectorFree \/ IntVectorInitAgain
        \/ Ended

Spec == Init /\ [][Next]_vars

-------------------------------------------------------------------------------
(* However often int_vector_resize doubled, the block holds the capacity the
   vector believes in and its size fits; a store behind the block (vector.c:43)
   needs a vector that was made with capacity 0, which doubling leaves at 0. *)
SizeFitsBlock ==
  /\ (pc \in {"idle", "set"} /\ data # NULL) =>
       size <= capacity /\ DOMAIN data = 0 .. capacity - 1
  /\ (pc \in {"idle", "set"} /\ data = NULL) => size = 0
  /\ pc = "overrun" => capacity = 0

(* The elements its user sees: int_vector_set takes effect when it stores. *)
Contents ==
  [j \in 1 .. (CASE pc = "idle" -> size [] pc = "set" -> call.base [] OTHER -> 0)
     |-> data[j - 1]]

G == INSTANCE GrowingSequence
       WITH seq <- Contents, alive <- pc \in {"idle", "set", "freed"}

(* For its user the vector is a sequence (vector.c): no reallocation, zero fill,
   failed allocation or negative index ever lets it hold, return or lose
   something else; all they can do is end the process. *)
RefinesSequence == G!Spec

===============================================================================
