--------------------------------- MODULE TlsIO ---------------------------------
(***************************************************************************)
(* One direction of a TLS connection: a caller of sendall on one side, a   *)
(* caller of readall on the other (crypto/ssl_funcs.h).  The stream keeps  *)
(* order, so its content is the number of bytes written and read.  What    *)
(* SSL_write and SSL_read return is chosen by the library and the network. *)
(***************************************************************************)
EXTENDS Integers

CONSTANTS Lengths,   \* the values *len may have when sendall is called
          Window,    \* bytes the connection holds before SSL_write blocks
          DefRead,   \* SOCK_BUFF_DEF_READ
          MaxRead,   \* SOCK_BUFF_MAX_READ
          BufSize    \* size of the buffer given to readall

ASSUME LengthAssumption == Lengths \subseteq Nat
ASSUME ReadAssumption == /\ Window \in Nat /\ BufSize \in Nat
                         /\ DefRead \in Nat \ {0} /\ MaxRead \in Nat

VARIABLES wpc,      \* sendall: idle, loop, ret (left the loop), done
          want,     \* *len on entry
          total,    \* bytes sent so far
          n,        \* result of the last SSL_write
          len,      \* *len on return
          sret,     \* result of sendall
          sent,     \* bytes the connection has accepted
          closed,   \* the writing side has closed the connection
          rpc,      \* readall: loop, done, crashed
          rtotal,   \* bytes stored in the buffer
          rret      \* result of readall

wvars == <<wpc, want, total, n, len, sret, sent>>
rvars == <<rpc, rtotal, rret>>
vars  == <<wvars, closed, rvars>>

Init == /\ wpc = "idle" /\ want = 0 /\ total = 0 /\ n = -1 /\ len = 0 /\ sret = 0
        /\ sent = 0 /\ closed = FALSE
        /\ rpc = "loop" /\ rtotal = 0 /\ rret = 0

-------------------------------------------------------------------------------
SendallCall(l) == /\ wpc = "idle"
                  /\ wpc' = "loop" /\ want' = l /\ total' = 0 /\ n' = -1
                  /\ UNCHANGED <<len, sret, sent, closed, rvars>>

(* What SSL_write may return: an error, nothing written, or some of the bytes
   left, as far as the connection has room. *)
WriteResults == {-1, 0} \cup
                {w \in 1 .. want - total : sent + w - rtotal <= Window}

(* Mutants of sendall's loop body: n is added before it is tested; an error does
   not leave the loop. *)
SendallWriteUntested(w) ==
  /\ wpc = "loop" /\ total < want
  /\ n' = w
  /\ total' = total + w
  /\ IF w < 0 THEN wpc' = "ret" /\ UNCHANGED sent
              ELSE wpc' = "loop" /\ sent' = sent + w
  /\ UNCHANGED <<want, len, sret, closed, rvars>>

SendallWriteRetries(w) ==
  /\ wpc = "loop" /\ total < want
  /\ n' = w
  /\ IF w < 0 THEN UNCHANGED <<total, sent>>
              ELSE total' = total + w /\ sent' = sent + w
  /\ UNCHANGED <<wpc, want, len, sret, closed, rvars>>

(* One round of the loop, in which SSL_write returns w. *)
SendallWrite(w) ==
  /\ wpc = "loop" /\ total < want
  /\ n' = w
  /\ IF w < 0 THEN /\ wpc' = "ret"
                   /\ UNCHANGED <<total, sent>>
              ELSE /\ total' = total + w /\ sent' = sent + w
                   /\ UNCHANGED wpc
  /\ UNCHANGED <<want, len, sret, closed, rvars>>

(* A mutant of sendall's end: *len is left as it was. *)
SendallReturnAsked == /\ wpc = "ret" \/ (wpc = "loop" /\ total >= want)
                      /\ wpc' = "done"
                      /\ len' = want
                      /\ sret' = IF n < 0 THEN n ELSE 0
                      /\ UNCHANGED <<want, total, n, sent, closed, rvars>>

SendallReturn == /\ wpc = "ret" \/ (wpc = "loop" /\ total >= want)
                 /\ wpc' = "done"
                 /\ len' = total
                 /\ sret' = IF n < 0 THEN n ELSE 0
                 /\ UNCHANGED <<want, total, n, sent, closed, rvars>>

(* The caller of sendall closes the connection, or its process ends. *)
Close == /\ wpc = "done" /\ ~closed
         /\ closed' = TRUE
         /\ UNCHANGED <<wvars, rvars>>

(* A mutant of readall's loop: an error ends it with 0. *)
ReadallErrorHidden == /\ rpc = "loop"
                      /\ rpc' = "done" /\ rret' = 0
                      /\ UNCHANGED <<wvars, closed, rtotal>>

(* SSL_read delivers at most DefRead of the bytes that have arrived.  readall
   stops without an error once it has stored more than MaxRead.  Storing past
   the caller's buffer is undefined: the process may go on or be killed. *)
ReadallData ==
  /\ rpc = "loop"
  /\ \E r \in 1 .. DefRead :
       /\ rtotal + r <= sent
       /\ rtotal' = rtotal + r
       /\ \/ rpc' = IF rtotal + r > MaxRead THEN "done" ELSE "loop"
          \/ rtotal + r > BufSize /\ rpc' = "crashed"
  /\ UNCHANGED <<wvars, closed, rret>>

(* A mutant of readall's end: the loop goes on after SSL_read returned 0. *)
ReadallEofIgnored == /\ rpc = "loop" /\ closed /\ rtotal = sent
                     /\ rpc' = "loop" /\ rret' = 0
                     /\ UNCHANGED <<wvars, closed, rtotal>>

(* SSL_read returns 0: the peer has closed and everything has been read. *)
ReadallEof == /\ rpc = "loop" /\ closed /\ rtotal = sent
              /\ rpc' = "done" /\ rret' = 0
              /\ UNCHANGED <<wvars, closed, rtotal>>

(* SSL_read fails; it may at any time. *)
ReadallError == /\ rpc = "loop"
                /\ rpc' = "done" /\ rret' = -1
                /\ UNCHANGED <<wvars, closed, rtotal>>

(* Both callers are through and the connection is closed. *)
Finished == wpc = "done" /\ closed /\ rpc # "loop" /\ UNCHANGED vars

Next == \/ \E l \in Lengths : SendallCall(l)
        \/ \E w \in WriteResults : SendallWrite(w)
        \/ SendallReturn \/ Close
        \/ ReadallData \/ ReadallEof \/ ReadallError
        \/ Finished

(* SSL_read returns once it has data or the end of the stream: the reading
   process takes that step. *)
ReaderFairness == WF_vars(ReadallData \/ ReadallEof)

(* SSL_write takes bytes in the end when there is room for them, and fails in
   the end when the reader has left (the connection is then closed); it may
   return 0 any number of times before.  Nothing is assumed of other errors. *)
WriterFairness == /\ WF_vars(\E w \in WriteResults : w > 0 /\ SendallWrite(w))
                  /\ WF_vars(rpc # "loop" /\ SendallWrite(-1))
                  /\ WF_vars(SendallReturn)

Spec == Init /\ [][Next]_vars /\ ReaderFairness /\ WriterFairness

-------------------------------------------------------------------------------
TypeOK == /\ wpc \in {"idle", "loop", "ret", "done"}
          /\ want \in Lengths \cup {0} /\ total \in Nat /\ len \in Nat /\ sent \in Nat
          /\ n \in Int /\ sret \in {0, -1}
          /\ closed \in BOOLEAN
          /\ rpc \in {"loop", "done", "crashed"}
          /\ rtotal \in Nat /\ rret \in {0, -1}

(* sendall reports in *len exactly the bytes the connection took, also when it
   gives up half way, and returns 0 exactly when that is the whole message.  Of
   the result for an empty message, whose loop is never entered, it says nothing
   (see the README). *)
SendallReportsSent ==
  wpc = "done" => len = sent /\ (want > 0 => (sret = 0 <=> len = want))

(* Within the limit readall returns 0 only at the end of the stream with every
   byte of it stored; and if sendall returned 0 as well, that is the message it
   was given: the two results together say that the message has arrived.  Beyond
   the limit a 0 says nothing (see the README). *)
ReadallZeroIsWholeStream ==
  rpc = "done" /\ rret = 0 /\ want <= MaxRead =>
    /\ closed /\ rtotal = sent
    /\ sret = 0 /\ want > 0 => rtotal = want

(* Once the writer has closed, readall returns (or was killed on the way). *)
ReadallReturns == closed ~> rpc # "loop"

(* sendall returns, however narrow the connection, however often SSL_write takes
   nothing and whenever the reader gives up: it never goes on calling SSL_write
   on a connection that has failed. *)
SendallReturns == wpc = "loop" ~> wpc = "done"

===============================================================================
