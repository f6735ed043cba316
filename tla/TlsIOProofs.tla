------------------------------ MODULE TlsIOProofs ------------------------------
(***************************************************************************)
(* Proofs about sendall and readall, for every length, window and read     *)
(* size: what sendall reports, what a 0 from readall means, and that the   *)
(* loop of readall comes to its end.                                       *)
(***************************************************************************)
EXTENDS TlsIO, TLAPS

(* While sendall runs, its total is what the connection has taken and stays
   within the request; an error is what left the loop. *)
SendPart == /\ wpc = "idle" => sent = 0
            /\ wpc # "idle" => total = sent /\ total <= want
            /\ wpc = "loop" => (n >= 0 /\ want > 0) \/ (n = -1 /\ total = 0)
            /\ wpc = "ret" => n = -1 /\ total < want
            /\ wpc = "done" => len = total /\ (sret = 0 <=> total = want /\ want > 0)

(* readall never reads what was not sent, and while it runs it is below its
   limit; after a 0 it has the whole stream or has passed the limit. *)
ReadPart == /\ rtotal <= sent
            /\ rpc = "loop" => rtotal <= MaxRead
            /\ closed => wpc = "done"
            /\ rpc = "done" /\ rret = 0 => (closed /\ rtotal = sent) \/ rtotal > MaxRead

IInv == TypeOK /\ SendPart /\ ReadPart

LEMMA InitIInv == Init => IInv
<1>. SUFFICES ASSUME Init PROVE IInv
  OBVIOUS
<1>1. closed \in BOOLEAN /\ ~closed
  BY Zenon DEF Init
<1>. QED
  BY <1>1, ReadAssumption DEF Init, IInv, TypeOK, SendPart, ReadPart

LEMMA StepIInv == IInv /\ [Next]_vars => IInv'
<1>. SUFFICES ASSUME IInv, [Next]_vars PROVE IInv'
  OBVIOUS
<1>. USE LengthAssumption, ReadAssumption
     DEF IInv, TypeOK, SendPart, ReadPart, wvars, rvars
<1>1. ASSUME NEW l \in Lengths, SendallCall(l) PROVE IInv'
  BY <1>1 DEF SendallCall
<1>2. ASSUME NEW w \in WriteResults, SendallWrite(w) PROVE IInv'
  <2>1. w \in Int /\ w >= -1 /\ w <= want - total /\ total < want
    BY <1>2 DEF SendallWrite, WriteResults
  <2>. QED
    BY <1>2, <2>1 DEF SendallWrite
<1>3. CASE SendallReturn
  <2>1. want \in Nat /\ total \in Nat /\ n \in {-1} \cup Nat /\ total <= want
    BY <1>3 DEF SendallReturn
  <2>2. n < 0 <=> ~(total = want /\ want > 0)
    BY <1>3, <2>1 DEF SendallReturn
  <2>3. sret' = (IF n < 0 THEN -1 ELSE 0)
    BY <1>3, <2>1 DEF SendallReturn
  <2>. QED
    BY <1>3, <2>1, <2>2, <2>3 DEF SendallReturn
<1>4. CASE Close
  BY <1>4 DEF Close
<1>5. CASE ReadallData
  <2>1. PICK r \in 1 .. DefRead :
          /\ rtotal + r <= sent
          /\ rtotal' = rtotal + r
          /\ \/ rpc' = IF rtotal + r > MaxRead THEN "done" ELSE "loop"
             \/ rtotal + r > BufSize /\ rpc' = "crashed"
    BY <1>5 DEF ReadallData
  <2>. QED
    BY <1>5, <2>1 DEF ReadallData
<1>6. CASE ReadallEof
  BY <1>6 DEF ReadallEof
<1>7. CASE ReadallError
  BY <1>7 DEF ReadallError
<1>8. CASE Finished \/ UNCHANGED vars
  BY <1>8 DEF Finished, vars
<1>. QED
  BY <1>1, <1>2, <1>3, <1>4, <1>5, <1>6, <1>7, <1>8 DEF Next

(* The inductive invariant holds throughout. *)
THEOREM TlsIOInvariant == Spec => []IInv
BY InitIInv, StepIInv, PTL DEF Spec

(* Type correctness of both loops. *)
THEOREM TlsIOTypeCorrect == Spec => []TypeOK
<1>1. IInv => TypeOK
  BY DEF IInv
<1>. QED
  BY <1>1, TlsIOInvariant, PTL

(* sendall's *len is what the connection took, and of a message that is not empty
   a 0 means all of it. *)
THEOREM SendallReport == Spec => []SendallReportsSent
<1>1. IInv => SendallReportsSent
  BY DEF IInv, SendPart, SendallReportsSent
<1>. QED
  BY <1>1, TlsIOInvariant, PTL

(* For a message within the limit a 0 from readall means the whole stream, and
   with a 0 from sendall the whole message. *)
THEOREM ReadallZero == Spec => []ReadallZeroIsWholeStream
<1>1. IInv => ReadallZeroIsWholeStream
  <2>. SUFFICES ASSUME IInv, rpc = "done", rret = 0, want <= MaxRead
                PROVE  /\ closed /\ rtotal = sent
                       /\ sret = 0 /\ want > 0 => rtotal = want
    BY DEF ReadallZeroIsWholeStream
  <2>1. rtotal \in Nat /\ sent \in Nat /\ want \in Nat /\ rtotal <= sent
    BY LengthAssumption DEF IInv, TypeOK, ReadPart
  <2>2. wpc = "idle" => sent = 0
    BY DEF IInv, SendPart
  <2>3. sent <= MaxRead
    BY <2>1, <2>2, ReadAssumption DEF IInv, SendPart
  <2>4. closed /\ rtotal = sent
    BY <2>1, <2>3, ReadAssumption DEF IInv, ReadPart
  <2>5. wpc = "done"
    BY <2>4 DEF IInv, ReadPart
  <2>. QED
    BY <2>1, <2>4, <2>5 DEF IInv, SendPart
<1>. QED
  BY <1>1, TlsIOInvariant, PTL

-------------------------------------------------------------------------------
(* ReadallReturns without its fairness: how often readall still calls SSL_read
   at most, once nothing more is sent. *)
Remaining == IF rpc = "loop" THEN sent - rtotal + 1 ELSE 0

ComesNearer == Remaining \in Nat /\ Remaining' \in Nat /\ Remaining' < Remaining

LEMMA FewerLeft ==
  \A a, b, c \in Nat : a < b /\ b <= c =>
    c - a + 1 \in Nat /\ c - b + 1 \in Nat /\ c - b + 1 < c - a + 1 /\ 0 < c - a + 1
  OBVIOUS

(* Once the writer has closed nothing more is sent, and each SSL_read ends the loop
   of readall or leaves fewer bytes to be read, whatever sendall did before. *)
THEOREM ReadallComesNearer == Spec => [][closed => ComesNearer]_vars
<1>1. IInv /\ [Next]_vars => [closed => ComesNearer]_vars
  <2>. SUFFICES ASSUME IInv, Next, ~UNCHANGED vars, closed PROVE ComesNearer
    OBVIOUS
  <2>1. wpc = "done" /\ sent \in Nat /\ rtotal \in Nat /\ rtotal <= sent
    BY DEF IInv, TypeOK, ReadPart
  <2>2. ReadallData \/ ReadallEof \/ ReadallError
    BY <2>1 DEF Next, SendallCall, SendallWrite, SendallReturn, Close, Finished
  <2>3. rpc = "loop" /\ sent' = sent /\ (rpc' # "loop" \/ ReadallData)
    BY <2>2 DEF ReadallData, ReadallEof, ReadallError, wvars
  <2>4. CASE rpc' # "loop"
    BY <2>1, <2>3, <2>4 DEF ComesNearer, Remaining
  <2>5. CASE ReadallData
    <3>1. rtotal' \in Nat /\ rtotal < rtotal' /\ rtotal' <= sent
      BY <2>1, <2>5, ReadAssumption DEF ReadallData
    <3>2. /\ sent - rtotal + 1 \in Nat /\ sent - rtotal' + 1 \in Nat
          /\ sent - rtotal' + 1 < sent - rtotal + 1 /\ 0 < sent - rtotal + 1
      BY <2>1, <3>1, FewerLeft
    <3>3. Remaining = sent - rtotal + 1 /\ Remaining' \in {sent - rtotal' + 1, 0}
      BY <2>3 DEF Remaining
    <3>. QED
      BY <3>2, <3>3 DEF ComesNearer
  <2>. QED
    BY <2>3, <2>4, <2>5
<1>. QED
  BY <1>1, TlsIOInvariant, PTL DEF Spec

===============================================================================
