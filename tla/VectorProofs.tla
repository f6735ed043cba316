------------------------------ MODULE VectorProofs ------------------------------
(***************************************************************************)
(* Proofs about Vector for any values, indices, initial capacities and any *)
(* amount of memory: the size fits the block, and the vector is a sequence.*)
(***************************************************************************)
EXTENDS Vector, SequenceTheorems, TLAPS

Cells == Values \cup {0, Junk}
Alive == pc \in {"idle", "set"}

Types == /\ size \in Nat /\ capacity \in Nat
         /\ pc \in {"idle", "set", "freed", "exited", "crashed", "overrun"}

(* The block of a vector in use has the capacity the vector believes in, and
   there is no block only as long as nothing is stored. *)
BlockInv ==
  Alive => \/ data = NULL /\ size = 0
           \/ /\ data # NULL /\ data \in [0 .. capacity - 1 -> Cells]
              /\ size <= capacity /\ capacity <= MaxCap

(* What is stored is ints: the rest of the block is not looked at. *)
StoredInv == Alive => \A j \in 0 .. size - 1 : data[j] \in Values \cup {0}

(* int_vector_set has appended zeros, none if the index is in the vector, and
   not past the index. *)
SetInv ==
  pc = "set" =>
    /\ call.index \in Indices /\ call.val \in Values
    /\ call.base \in 0 .. size
    /\ size = call.base \/ size <= Unsigned(call.index) + 1
    /\ \A j \in call.base .. size - 1 : data[j] = 0

OverrunInv == pc = "overrun" => capacity = 0

Inv == Types /\ BlockInv /\ StoredInv /\ SetInv /\ OverrunInv

-------------------------------------------------------------------------------
(* The conversion of an index: it is kept, or more than any size. *)
LEMMA UnsignedIndex ==
  ASSUME NEW i \in Indices
  PROVE  /\ i >= 0 => Unsigned(i) = i
         /\ i < 0 => Unsigned(i) > MaxCap
         /\ Unsigned(i) \in Nat /\ i \in Int
<1>1. i \in Int /\ SizeMod \in Nat /\ SizeMod > 0 /\ i < SizeMod /\ i >= -SizeMod
  BY VectorAssumption
<1>2. i >= 0 => i % SizeMod = i
  BY <1>1
<1>3. i < 0 => i % SizeMod = i + SizeMod
  BY <1>1
<1>4. i < 0 => MaxCap < SizeMod + i
  BY VectorAssumption
<1> QED
  BY <1>1, <1>2, <1>3, <1>4, VectorAssumption DEF Unsigned

(* A new block: nothing, or c cells. *)
LEMMA BlockIsBlock ==
  ASSUME NEW c \in Nat, NEW d \in Blocks(c), d # NULL
  PROVE  d \in [0 .. c - 1 -> Cells] /\ c <= MaxCap
  BY VectorAssumption DEF Blocks, Cells

(* What int_vector_resize leaves: the old ints in a block with room for one
   more, or no block, or the empty block of a vector without capacity. *)
LEMMA ResizeMakesRoom ==
  ASSUME Types, BlockInv, Alive, NEW c, NEW d, IntVectorResize(c, d)
  PROVE  /\ c \in Nat
         /\ d # NULL => /\ d \in [0 .. c - 1 -> Cells] /\ c <= MaxCap
                        /\ \A j \in 0 .. size - 1 : j \in 0 .. c - 1 /\ d[j] = data[j]
                        /\ size < c \/ c = 0
<1> USE DEF Types, BlockInv
<1>1. CASE size < capacity
  BY <1>1 DEF IntVectorResize
<1>2. CASE size >= capacity
  <2>1. c = 2 * capacity /\ d \in Realloc(c)
    BY <1>2 DEF IntVectorResize
  <2>2. CASE data = NULL
    <3>1. size = 0 /\ c = 0 /\ d \in Blocks(c)
      BY <1>2, <2>1, <2>2 DEF Realloc
    <3> QED
      BY <3>1, BlockIsBlock
  <2>3. CASE data # NULL
    <3>1. size = capacity /\ data \in [0 .. capacity - 1 -> Cells]
      BY <1>2, <2>3
    <3>2. CASE d = NULL
      BY <2>1, <3>2
    <3>3. CASE d # NULL
      <4>1. /\ c \in 1 .. MaxCap
            /\ d = [j \in 0 .. c - 1 |-> IF j \in DOMAIN data THEN data[j] ELSE Junk]
        BY <2>1, <2>3, <3>3 DEF Realloc
      <4>2. d \in [0 .. c - 1 -> Cells]
        BY <3>1, <4>1 DEF Cells
      <4>3. \A j \in 0 .. size - 1 : j \in 0 .. c - 1 /\ d[j] = data[j]
        BY <2>1, <3>1, <4>1
      <4> QED
        BY <2>1, <3>1, <4>1, <4>2, <4>3, VectorAssumption
    <3> QED
      BY <3>2, <3>3
  <2> QED
    BY <2>2, <2>3
<1> QED
  BY <1>1, <1>2

(* int_vector_append adds v behind what is there, or ends the process. *)
Added(v, then) ==
  /\ pc' = then /\ size' = size + 1 /\ capacity' \in Nat
  /\ data' # NULL /\ data' \in [0 .. capacity' - 1 -> Cells]
  /\ size' <= capacity' /\ capacity' <= MaxCap
  /\ data'[size] = v
  /\ \A j \in 0 .. size - 1 : data'[j] = data[j]

Died == /\ capacity' \in Nat /\ size' = size
        /\ pc' = "crashed" \/ (pc' = "overrun" /\ capacity' = 0)

LEMMA PushAdds ==
  ASSUME Types, BlockInv, Alive, NEW v \in Values \cup {0}, NEW then, Push(v, then)
  PROVE  ret' = ret /\ (Added(v, then) \/ Died)
<1>1. PICK c, d :
        /\ IntVectorResize(c, d) /\ capacity' = c
        /\ IF d # NULL /\ size \in DOMAIN d
             THEN /\ data' = [d EXCEPT ![size] = v]
                  /\ size' = size + 1 /\ pc' = then
             ELSE /\ pc' = IF d = NULL THEN "crashed" ELSE "overrun"
                  /\ data' = d /\ UNCHANGED size
  BY DEF Push
<1>2. /\ c \in Nat
      /\ d # NULL => /\ d \in [0 .. c - 1 -> Cells] /\ c <= MaxCap
                     /\ \A j \in 0 .. size - 1 : j \in 0 .. c - 1 /\ d[j] = data[j]
                     /\ size < c \/ c = 0
  BY <1>1, ResizeMakesRoom
<1>3. ret' = ret
  BY DEF Push
<1>4. CASE d # NULL /\ size \in DOMAIN d
  <2>1. /\ data' = [d EXCEPT ![size] = v] /\ size' = size + 1 /\ pc' = then
        /\ size \in 0 .. c - 1
    BY <1>1, <1>2, <1>4
  <2>2. data' \in [0 .. c - 1 -> Cells] /\ c \in 0 .. MaxCap
    BY <1>2, <1>4, <2>1, VectorAssumption DEF Cells
  <2>3. data' # NULL
    BY <2>2, NullAssumption DEF Cells
  <2> QED
    BY <1>1, <1>2, <1>3, <1>4, <2>1, <2>2, <2>3 DEF Added, Types
<1>5. CASE ~(d # NULL /\ size \in DOMAIN d)
  <2>1. ASSUME d # NULL PROVE c = 0
    <3>1. DOMAIN d = 0 .. c - 1 /\ size \notin DOMAIN d /\ (size < c \/ c = 0)
      BY <1>2, <1>5, <2>1
    <3> QED
      BY <1>2, <3>1 DEF Types
  <2>2. /\ capacity' = c /\ size' = size
        /\ pc' = IF d = NULL THEN "crashed" ELSE "overrun"
    BY <1>1, <1>5
  <2> QED
    BY <1>2, <1>3, <2>1, <2>2 DEF Died
<1> QED
  BY <1>4, <1>5

-------------------------------------------------------------------------------
LEMMA InvInit == Init => Inv
<1> SUFFICES ASSUME Init PROVE Inv
  OBVIOUS
<1>1. size = 0 /\ capacity \in Nat /\ data \in Blocks(capacity) /\ pc = "idle"
  BY VectorAssumption DEF Init
<1> QED
  BY <1>1, BlockIsBlock DEF Inv, Types, BlockInv, StoredInv, SetInv, OverrunInv, Alive

(* Appending keeps what is said of the block and of the ints stored. *)
LEMMA AddedKeeps ==
  ASSUME Inv, Alive, NEW v \in Values \cup {0}, NEW then \in {"idle", "set"}, Added(v, then)
  PROVE  Types' /\ BlockInv' /\ StoredInv' /\ OverrunInv'
<1>1. Types'
  BY DEF Inv, Types, Added
<1>2. BlockInv' /\ OverrunInv'
  BY DEF Added, BlockInv, OverrunInv
<1>3. ASSUME NEW j \in 0 .. size' - 1 PROVE data'[j] \in Values \cup {0}
  <2>1. size \in Nat /\ size' = size + 1 /\ data'[size] = v
    BY DEF Inv, Types, Added
  <2>2. CASE j = size
    BY <2>1, <2>2
  <2>3. CASE j \in 0 .. size - 1
    BY <2>3 DEF Inv, StoredInv, Added
  <2> QED
    BY <2>1, <2>2, <2>3
<1>4. StoredInv'
  BY <1>3 DEF StoredInv
<1> QED
  BY <1>1, <1>2, <1>4

LEMMA DiedKeeps == ASSUME Inv, Died PROVE Inv'
  BY DEF Inv, Types, BlockInv, StoredInv, SetInv, OverrunInv, Alive, Died

LEMMA InvNext == Inv /\ [Next]_vars => Inv'
<1> SUFFICES ASSUME Inv, [Next]_vars PROVE Inv'
  OBVIOUS
<1>0. Types /\ BlockInv
  BY DEF Inv
<1>1. ASSUME NEW v \in Values, IntVectorAppend(v) PROVE Inv'
  <2>1. Alive /\ (Added(v, "idle") \/ Died)
    BY <1>0, <1>1, PushAdds DEF IntVectorAppend, Alive
  <2>2. CASE Added(v, "idle")
    BY <2>1, <2>2, AddedKeeps DEF Inv, SetInv, Added
  <2> QED
    BY <2>1, <2>2, DiedKeeps
<1>2. ASSUME NEW i \in Indices, IntVectorGet(i) PROVE Inv'
  BY <1>2 DEF IntVectorGet, Inv, Types, BlockInv, StoredInv, SetInv, OverrunInv, Alive
<1>3. ASSUME NEW i \in Indices, NEW v \in Values, IntVectorSet(i, v) PROVE Inv'
  BY <1>3 DEF IntVectorSet, Inv, Types, BlockInv, StoredInv, SetInv, OverrunInv, Alive
<1>4. CASE SetFill
  <2>1. pc = "set" /\ Alive /\ call' = call /\ Unsigned(call.index) >= size
    BY <1>4 DEF SetFill, Alive
  <2>2. Added(0, "set") \/ Died
    BY <1>0, <1>4, <2>1, PushAdds DEF SetFill
  <2>3. CASE Added(0, "set")
    <3>1. Types' /\ BlockInv' /\ StoredInv' /\ OverrunInv'
      BY <2>1, <2>3, AddedKeeps
    <3>2. /\ call.index \in Indices /\ call.val \in Values /\ call.base \in 0 .. size
          /\ \A j \in call.base .. size - 1 : data[j] = 0
      BY <2>1 DEF Inv, SetInv
    <3>3. Unsigned(call.index) \in Nat /\ size \in Nat
      BY <1>0, <3>2, UnsignedIndex DEF Types
    <3>4. size' = size + 1 /\ data'[size] = 0 /\ \A j \in 0 .. size - 1 : data'[j] = data[j]
      BY <2>3 DEF Added
    <3>5. \A j \in call.base .. size' - 1 : data'[j] = 0
      <4> SUFFICES ASSUME NEW j \in call.base .. size' - 1 PROVE data'[j] = 0
        OBVIOUS
      <4>1. CASE j = size BY <3>4, <4>1
      <4>2. CASE j # size
        <5>1. j \in call.base .. size - 1 /\ j \in 0 .. size - 1
          BY <3>2, <3>3, <3>4, <4>2
        <5> QED
          BY <3>2, <3>4, <5>1
      <4> QED
        BY <4>1, <4>2
    <3>6. SetInv'
      BY <2>1, <3>2, <3>3, <3>4, <3>5 DEF SetInv, Unsigned
    <3> QED
      BY <3>1, <3>6 DEF Inv
  <2> QED
    BY <2>2, <2>3, DiedKeeps
<1>5. CASE SetStore
  <2>1. /\ pc = "set" /\ Alive /\ pc' = "idle" /\ size' = size /\ capacity' = capacity
        /\ data' = [data EXCEPT ![call.index] = call.val]
        /\ call.index \in Indices /\ call.val \in Values /\ Unsigned(call.index) < size
    BY <1>5 DEF SetStore, Alive, Inv, SetInv
  <2>2. size \in Nat /\ size > 0
    BY <1>0, <2>1, UnsignedIndex DEF Types
  <2>3. data # NULL /\ data \in [0 .. capacity - 1 -> Cells] /\ size <= capacity /\ capacity <= MaxCap
    BY <1>0, <2>1, <2>2 DEF BlockInv
  <2>4. data' \in [0 .. capacity - 1 -> Cells] /\ capacity \in 0 .. MaxCap
    <3>1. call.val \in Cells /\ capacity \in Nat /\ MaxCap \in Nat
      BY <1>0, <2>1, VectorAssumption DEF Cells, Types
    <3>2. [data EXCEPT ![call.index] = call.val] \in [0 .. capacity - 1 -> Cells]
      BY <2>3, <3>1
    <3>3. capacity \in 0 .. MaxCap
      BY <2>3, <3>1
    <3> QED
      BY <2>1, <3>2, <3>3
  <2>5. data' # NULL
    BY <2>4, NullAssumption DEF Cells
  <2>6. StoredInv'
    <3>1. ASSUME NEW j \in 0 .. size - 1 PROVE data'[j] \in Values \cup {0}
      <4>1. j \in 0 .. capacity - 1 /\ data[j] \in Values \cup {0}
        BY <1>0, <2>1, <2>2, <2>3 DEF Types, Inv, StoredInv
      <4>2. data'[j] = IF j = call.index THEN call.val ELSE data[j]
        BY <2>1, <2>3, <4>1
      <4> QED
        BY <2>1, <4>1, <4>2
    <3> QED
      BY <2>1, <3>1 DEF StoredInv
  <2>7. Types' /\ BlockInv' /\ SetInv' /\ OverrunInv'
    BY <1>0, <2>1, <2>3, <2>4, <2>5 DEF Types, BlockInv, SetInv, OverrunInv
  <2> QED
    BY <2>6, <2>7 DEF Inv
<1>6. CASE IntVectorFree
  BY <1>6 DEF IntVectorFree, Inv, Types, BlockInv, StoredInv, SetInv, OverrunInv, Alive
<1>7. CASE IntVectorInitAgain
  <2>1. PICK c \in Capacities : IntVectorInit(c)
    BY <1>7 DEF IntVectorInitAgain
  <2>2. c \in Nat /\ size' = 0 /\ capacity' = c /\ data' \in Blocks(c) /\ pc' = "idle"
    BY <2>1, VectorAssumption DEF IntVectorInit
  <2> QED
    BY <2>2, BlockIsBlock DEF Inv, Types, BlockInv, StoredInv, SetInv, OverrunInv
<1>8. CASE UNCHANGED vars
  BY <1>8 DEF vars, Inv, Types, BlockInv, StoredInv, SetInv, OverrunInv, Alive
<1> QED
  BY <1>1, <1>2, <1>3, <1>4, <1>5, <1>6, <1>7, <1>8 DEF Next, Ended

(* However often the vector has grown and been set past its end, and whatever
   allocation failed, the block holds its capacity and its size fits; only a
   vector made with capacity 0 is ever written behind its block. *)
THEOREM VectorFitsBlock == Spec => []SizeFitsBlock
<1>1. Inv => SizeFitsBlock
  BY DEF Inv, Types, BlockInv, OverrunInv, Alive, SizeFitsBlock
<1> QED
  BY <1>1, InvInit, InvNext, PTL DEF Spec

-------------------------------------------------------------------------------
(* The refinement mapping, place by place, before and after a step. *)
LEMMA ContentsIdle ==
  /\ pc = "idle" => Contents = [j \in 1 .. size |-> data[j - 1]]
  /\ pc' = "idle" => Contents' = [j \in 1 .. size' |-> data'[j - 1]]
  BY DEF Contents

LEMMA ContentsSet ==
  /\ pc = "set" => Contents = [j \in 1 .. call.base |-> data[j - 1]]
  /\ pc' = "set" => Contents' = [j \in 1 .. call'.base |-> data'[j - 1]]
  BY DEF Contents

LEMMA ContentsNone ==
  /\ pc \notin {"idle", "set"} => Contents = <<>>
  /\ pc' \notin {"idle", "set"} => Contents' = <<>>
<1>1. pc \notin {"idle", "set"} => Contents = [j \in 1 .. 0 |-> data[j - 1]]
  BY DEF Contents
<1>2. pc' \notin {"idle", "set"} => Contents' = [j \in 1 .. 0 |-> data'[j - 1]]
  BY DEF Contents
<1> QED
  BY <1>1, <1>2

(* Over the first n cells of the block. *)
LEMMA PrefixIsSeq ==
  ASSUME NEW n \in Nat, NEW d, \A j \in 0 .. n - 1 : d[j] \in Values \cup {0}
  PROVE  /\ [j \in 1 .. n |-> d[j - 1]] \in Seq(Values \cup {0})
         /\ Len([j \in 1 .. n |-> d[j - 1]]) = n
  OBVIOUS

LEMMA PrefixAppend ==
  ASSUME NEW n \in Nat, NEW d, NEW e, NEW v \in Values \cup {0},
         \A j \in 0 .. n - 1 : d[j] \in Values \cup {0} /\ e[j] = d[j], e[n] = v
  PROVE  [j \in 1 .. n + 1 |-> e[j - 1]] = Append([j \in 1 .. n |-> d[j - 1]], v)
<1> DEFINE s == [j \in 1 .. n |-> d[j - 1]]
           t == [j \in 1 .. n + 1 |-> e[j - 1]]
<1>1. s \in Seq(Values \cup {0}) /\ Len(s) = n
  BY PrefixIsSeq
<1>2. \A j \in 0 .. n : e[j] \in Values \cup {0}
  OBVIOUS
<1>3. t \in Seq(Values \cup {0}) /\ Len(t) = n + 1
  BY <1>2, PrefixIsSeq
<1>4. \A j \in 1 .. n + 1 : t[j] = IF j <= n THEN s[j] ELSE v
  OBVIOUS
<1>. HIDE DEF s, t
<1>5. /\ Append(s, v) \in Seq(Values \cup {0}) /\ Len(Append(s, v)) = n + 1
      /\ \A j \in 1 .. n + 1 : Append(s, v)[j] = IF j <= n THEN s[j] ELSE v
  BY <1>1
<1>6. t = Append(s, v)
  BY <1>3, <1>4, <1>5, SeqEqual
<1> QED
  BY <1>6 DEF s, t

LEMMA RefinementInit == Init => G!Init
  BY ContentsIdle DEF Init, G!Init

(* A step that ends the process. *)
LEMMA DeathRefines ==
  ASSUME Alive, pc' \in {"exited", "crashed", "overrun"}, ret' = ret
  PROVE  G!End
<1>1. Contents' = <<>>
  BY ContentsNone
<1> QED
  BY <1>1 DEF G!End, Alive

(* Every step is one of the sequence or leaves it alone. *)
LEMMA RefinementNext == Inv /\ Inv' /\ [Next]_vars => [G!Next]_(G!vars)
<1> SUFFICES ASSUME Inv, Inv', [Next]_vars PROVE [G!Next]_(G!vars)
  OBVIOUS
<1>0. Types /\ BlockInv /\ size \in Nat
  BY DEF Inv, Types
<1>1. ASSUME NEW v \in Values, IntVectorAppend(v) PROVE G!Add(v) \/ G!End
  <2>1. pc = "idle" /\ Alive /\ ret' = ret /\ (Added(v, "idle") \/ Died)
    BY <1>0, <1>1, PushAdds DEF IntVectorAppend, Alive
  <2>2. CASE Added(v, "idle")
    <3>1. /\ \A j \in 0 .. size - 1 : data[j] \in Values \cup {0} /\ data'[j] = data[j]
          /\ data'[size] = v /\ size' = size + 1 /\ pc' = "idle"
      BY <2>1, <2>2 DEF Added, Inv, StoredInv
    <3>2. Contents' = Append(Contents, v)
      BY <1>0, <2>1, <3>1, ContentsIdle, PrefixAppend
    <3> QED
      BY <2>1, <3>1, <3>2 DEF G!Add
  <2> QED
    BY <2>1, <2>2, DeathRefines DEF Died
<1>2. ASSUME NEW i \in Indices, IntVectorGet(i) PROVE G!Get(i) \/ G!End
  <2>1. pc = "idle" /\ Alive /\ UNCHANGED <<size, data>>
    BY <1>2 DEF IntVectorGet, Alive
  <2>2. CASE Unsigned(i) >= size \/ i < 0
    BY <1>2, <2>1, <2>2, DeathRefines DEF IntVectorGet
  <2>3. CASE ~(Unsigned(i) >= size \/ i < 0)
    <3>1. ret' = data[i] /\ pc' = "idle" /\ i \in 0 .. size - 1
      BY <1>0, <1>2, <2>1, <2>3, UnsignedIndex, VectorAssumption DEF IntVectorGet
    <3>2. Contents = [j \in 1 .. size |-> data[j - 1]] /\ Contents' = Contents
      BY <2>1, <3>1, ContentsIdle
    <3>3. Len(Contents) = size
      BY <1>0, <2>1, <3>2, PrefixIsSeq DEF Inv, StoredInv
    <3>4. Contents[i + 1] = data[i]
      BY <1>0, <3>1, <3>2
    <3> QED
      BY <2>1, <3>1, <3>2, <3>3, <3>4 DEF G!Get
  <2> QED
    BY <2>2, <2>3
<1>3. ASSUME NEW i \in Indices, NEW v \in Values, IntVectorSet(i, v)
      PROVE  UNCHANGED G!vars
  <2>1. /\ pc = "idle" /\ pc' = "set" /\ UNCHANGED <<size, data, ret>> /\ call'.base = size
    BY <1>3 DEF IntVectorSet
  <2>2. Contents' = Contents
    <3>1. Contents = [j \in 1 .. size |-> data[j - 1]]
      BY <2>1, ContentsIdle
    <3>2. Contents' = [j \in 1 .. call'.base |-> data'[j - 1]]
      BY <2>1, ContentsSet
    <3> QED
      BY <2>1, <3>1, <3>2
  <2> QED
    BY <2>1, <2>2 DEF G!vars
<1>4. CASE SetFill
  <2>1. pc = "set" /\ Alive /\ call' = call
    BY <1>4 DEF SetFill, Alive
  <2>2. ret' = ret /\ (Added(0, "set") \/ Died)
    BY <1>0, <1>4, <2>1, PushAdds DEF SetFill
  <2>3. CASE Added(0, "set")
    <3>1. /\ call.base \in 0 .. size /\ pc' = "set"
          /\ \A j \in 0 .. size - 1 : data'[j] = data[j]
      BY <2>1, <2>3 DEF Inv, SetInv, Added
    <3>2. \A j \in 1 .. call.base : data'[j - 1] = data[j - 1]
      BY <1>0, <3>1
    <3>3. Contents' = Contents
      BY <2>1, <3>1, <3>2, ContentsSet
    <3> QED
      BY <2>1, <2>2, <3>1, <3>3 DEF G!vars
  <2>4. CASE Died
    <3>1. G!End
      BY <2>1, <2>2, <2>4, DeathRefines DEF Died
    <3> QED
      BY <3>1 DEF G!Next
  <2> QED
    BY <2>2, <2>3, <2>4
<1>5. CASE SetStore
  <2> DEFINE i == call.index
             v == call.val
             n == call.base
  <2>1. /\ pc = "set" /\ pc' = "idle" /\ size' = size /\ ret' = ret
        /\ data' = [data EXCEPT ![i] = v]
        /\ i \in Indices /\ v \in Values /\ Unsigned(i) < size
        /\ n \in 0 .. size /\ (size = n \/ size <= Unsigned(i) + 1)
        /\ \A j \in n .. size - 1 : data[j] = 0
    BY <1>5 DEF SetStore, Inv, SetInv
  <2>2. /\ Unsigned(i) \in Nat /\ i \in Int /\ MaxCap \in Nat
        /\ i >= 0 => Unsigned(i) = i
        /\ i < 0 => Unsigned(i) > MaxCap
    <3>1. MaxCap \in Nat
      BY VectorAssumption
    <3> HIDE DEF i
    <3>2. /\ Unsigned(i) \in Nat /\ i \in Int
          /\ i >= 0 => Unsigned(i) = i
          /\ i < 0 => Unsigned(i) > MaxCap
      BY <2>1, UnsignedIndex
    <3> QED
      BY <3>1, <3>2
  <2>3. size # 0
    BY <1>0, <2>1, <2>2
  <2>4. Alive /\ capacity \in Nat
    BY <1>0, <2>1 DEF Alive, Types
  <2>5. /\ data \in [0 .. capacity - 1 -> Cells] /\ size <= capacity
        /\ capacity \in Nat /\ capacity <= MaxCap
    BY <1>0, <2>3, <2>4 DEF BlockInv
  <2> HIDE DEF i, n, v
  <2>6. i \in 0 .. size - 1
    BY <1>0, <2>1, <2>5, <2>2
  <2>7. size = IF i < n THEN n ELSE i + 1
    BY <1>0, <2>1, <2>6, <2>2
  <2>8. /\ Contents = [j \in 1 .. n |-> data[j - 1]]
        /\ Contents' = [j \in 1 .. size |-> data'[j - 1]]
    BY <2>1, ContentsIdle, ContentsSet DEF n
  <2>9. Len(Contents) = n
    <3>1. \A j \in 0 .. n - 1 : data[j] \in Values \cup {0}
      BY <1>0, <2>1 DEF Inv, StoredInv, Alive
    <3> QED
      BY <2>1, <2>8, <3>1, PrefixIsSeq
  <2>10. \A j \in 1 .. size : data'[j - 1] = IF j = i + 1 THEN v
                                            ELSE IF j <= n THEN Contents[j] ELSE 0
    <3> SUFFICES ASSUME NEW j \in 1 .. size
                 PROVE  data'[j - 1] = IF j = i + 1 THEN v
                                       ELSE IF j <= n THEN Contents[j] ELSE 0
      OBVIOUS
    <3>1. data'[j - 1] = IF j - 1 = i THEN v ELSE data[j - 1]
      BY <1>0, <2>1, <2>5
    <3>2. j <= n => Contents[j] = data[j - 1]
      BY <2>1, <2>8
    <3>3. ~(j <= n) => data[j - 1] = 0
      BY <1>0, <2>1
    <3> QED
      BY <2>6, <3>1, <3>2, <3>3
  <2>11. Contents' = [j \in 1 .. (IF i < Len(Contents) THEN Len(Contents) ELSE i + 1) |->
                       IF j = i + 1 THEN v
                       ELSE IF j <= Len(Contents) THEN Contents[j] ELSE 0]
    BY <2>7, <2>8, <2>9, <2>10
  <2>12. G!Set(i, v)
    BY <2>1, <2>6, <2>11 DEF G!Set
  <2> QED
    BY <2>1, <2>12 DEF G!Next
<1>6. CASE IntVectorFree
  <2>1. pc = "idle" /\ pc' = "freed" /\ ret' = ret
    BY <1>6 DEF IntVectorFree
  <2> QED
    BY <2>1, ContentsNone DEF G!Renew, G!Next
<1>7. CASE IntVectorInitAgain
  <2>1. pc = "freed" /\ pc' = "idle" /\ size' = 0 /\ ret' = ret
    BY <1>7 DEF IntVectorInitAgain, IntVectorInit
  <2>2. Contents' = <<>> /\ Contents = <<>>
    BY <2>1, ContentsNone, ContentsIdle
  <2> QED
    BY <2>1, <2>2 DEF G!vars
<1>8. CASE UNCHANGED vars
  BY <1>8 DEF vars, Contents, G!vars
<1> QED
  BY <1>1, <1>2, <1>3, <1>4, <1>5, <1>6, <1>7, <1>8 DEF Next, Ended, G!Next

(* For its user the vector is a sequence until the process ends. *)
THEOREM VectorRefinesSequence == Spec => RefinesSequence
  BY RefinementInit, RefinementNext, InvInit, InvNext, PTL DEF Spec, RefinesSequence, G!Spec

===============================================================================
