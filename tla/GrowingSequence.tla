---------------------------- MODULE GrowingSequence ----------------------------
(***************************************************************************)
(* What a user of the vector of util/vector.h expects: a sequence that     *)
(* grows at its end and that setting past the end extends with zeros.  ret *)
(* is what the last int_vector_get returned.  A call may end the process   *)
(* instead (alive), for want of memory or because of its index.            *)
(***************************************************************************)
EXTENDS Integers, Sequences

CONSTANTS Values, Indices

VARIABLES seq, ret, alive

vars == <<seq, ret, alive>>

Init == seq = <<>> /\ ret = 0 /\ alive = TRUE

Add(v) == alive /\ seq' = Append(seq, v) /\ UNCHANGED <<ret, alive>>

Get(i) == /\ alive /\ i \in 0 .. Len(seq) - 1
          /\ ret' = seq[i + 1]
          /\ UNCHANGED <<seq, alive>>

Set(i, v) ==
  /\ alive /\ i >= 0
  /\ LET len == IF i < Len(seq) THEN Len(seq) ELSE i + 1
     IN  seq' = [j \in 1 .. len |-> IF j = i + 1 THEN v
                                    ELSE IF j <= Len(seq) THEN seq[j] ELSE 0]
  /\ UNCHANGED <<ret, alive>>

(* The sequence is given up and, later, another one made. *)
Renew == alive /\ seq' = <<>> /\ UNCHANGED <<ret, alive>>

End == alive /\ alive' = FALSE /\ seq' = <<>> /\ UNCHANGED ret

Next == \/ \E v \in Values : Add(v)
        \/ \E i \in Indices : Get(i)
        \/ \E i \in Indices, v \in Values : Set(i, v)
        \/ Renew \/ End

Spec == Init /\ [][Next]_vars

===============================================================================
