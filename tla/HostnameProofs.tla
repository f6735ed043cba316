----------------------------- MODULE HostnameProofs -----------------------------
(***************************************************************************)
(* Proofs about HostnameValidation for certificates of any number of names.*)
(***************************************************************************)
EXTENDS HostnameValidation, TLAPS

(* The name at j says nothing of the host. *)
Passed(j) == DnsAt(j) => ~cert.san[j].nul /\ ~Names(cert.san[j])

Found == \E j \in 1 .. Len(cert.san) : DnsAt(j) /\ Names(cert.san[j])

(* Where each local of the three functions is meaningful. *)
Control ==
  /\ pc \in {"call", "san", "loop", "free", "cn", "returned"}
  /\ i \in Nat \ {0}
  /\ cert \in Certs \cup {NULL}
  /\ hostname \in Texts \cup {NULL}
  /\ held \in BOOLEAN
  /\ pc \notin {"call", "returned"} => cert \in Certs
  /\ pc \in {"loop", "free"} => cert.san # NULL
  /\ pc = "cn" => cert.san = NULL

(* The loop: no name before i decides. *)
LoopInv == pc = "loop" => /\ i <= Len(cert.san) + 1
                          /\ \A j \in 1 .. i - 1 : Passed(j)

ResultInv ==
  /\ result \in Results
  /\ pc \in {"call", "san", "loop"} => result = "MatchNotFound"
  /\ pc = "free" => /\ result # "NoSANPresent"
                    /\ result = "MatchFound" => Found
                    /\ result = "MatchNotFound" => \A j \in 1 .. Len(cert.san) : Passed(j)

HeldInv == /\ pc \notin {"loop", "free"} => held = FALSE
           /\ pc = "returned" => result # "NoSANPresent"

Inv == Control /\ LoopInv /\ ResultInv /\ HeldInv /\ MatchIsSound /\ NotFoundIsComplete

LEMMA SanIsSequence ==
  ASSUME NEW c \in Certs, c.san # NULL
  PROVE  c.san \in Seq(GeneralName) /\ Len(c.san) \in Nat
  BY CertsAssumption

LEMMA InvInit == Init => Inv
<1>1. Init => held \in BOOLEAN
  BY Zenon DEF Init
<1> QED
  BY <1>1 DEF Init, Inv, Control, LoopInv, ResultInv, HeldInv, MatchIsSound, NotFoundIsComplete,
         Results

LEMMA InvNext == Inv /\ [Next]_vars => Inv'
<1> SUFFICES ASSUME Inv, [Next]_vars PROVE Inv'
  OBVIOUS
<1> USE DEF Inv, Control, LoopInv, ResultInv, HeldInv, MatchIsSound, NotFoundIsComplete
<1>1. CASE UNCHANGED vars
  BY <1>1 DEF vars, Passed, Found, DnsAt, Names
<1>2. CASE BadArguments
  BY <1>2 DEF BadArguments, Results
<1>3. CASE GoodArguments
  BY <1>3 DEF GoodArguments
<1>4. CASE NoSAN
  BY <1>4 DEF NoSAN, Results
<1>5. CASE ExtractSAN
  BY <1>5, SanIsSequence DEF ExtractSAN, Passed, DnsAt, Names
<1>6. CASE NextName
  <2>1. Passed(i) /\ i <= Len(cert.san) /\ Len(cert.san) \in Nat
    BY <1>6, SanIsSequence DEF NextName, Passed, IsDns, DnsName, DnsAt, Names
  <2>2. UNCHANGED <<hostname, cert, pc, held, result>> /\ i' = i + 1 /\ pc = "loop"
    BY <1>6 DEF NextName
  <2>3. \A j \in 1 .. i' - 1 : Passed(j)
    BY <2>1, <2>2
  <2>4. \A j \in 1 .. i' - 1 : Passed(j)'
    BY <2>2, <2>3 DEF Passed, DnsAt, Names
  <2> QED
    BY <2>1, <2>2, <2>4
<1>7. CASE MalformedName
  BY <1>7 DEF MalformedName, Results
<1>8. CASE MatchingName
  <2>1. Found'
    BY <1>8, SanIsSequence DEF MatchingName, Found, IsDns, DnsName, DnsAt, Names
  <2> QED
    BY <1>8, <2>1 DEF MatchingName, Results
<1>9. CASE NoMoreNames
  <2>1. \A j \in 1 .. Len(cert.san) : Passed(j)
    BY <1>9, SanIsSequence DEF NoMoreNames
  <2>2. \A j \in 1 .. Len(cert'.san) : Passed(j)'
    BY <1>9, <2>1 DEF NoMoreNames, Passed, DnsAt, Names
  <2> QED
    BY <1>9, <2>2 DEF NoMoreNames
<1>10. CASE FreeSAN
  BY <1>10 DEF FreeSAN, Found, Passed, DnsAt, Names
<1>11. CASE MatchesCommonName
  BY <1>11 DEF MatchesCommonName, Results, Names
<1>12. CASE Returned
  BY <1>12 DEF Returned, vars, Passed, Found, DnsAt, Names
<1> QED
  BY <1>1, <1>2, <1>3, <1>4, <1>5, <1>6, <1>7, <1>8, <1>9, <1>10, <1>11, <1>12
  DEF Next, Validate

(* Every local keeps its type and the counter stays on the names or one behind. *)
THEOREM HostnameTypeCorrect == Spec => []TypeOK
<1>1. Inv => TypeOK
  BY DEF Inv, Control, LoopInv, ResultInv, TypeOK
<1> QED
  BY <1>1, InvInit, InvNext, PTL DEF Spec

(* MatchFound means that a whole name of the certificate is the host's. *)
THEOREM VerdictSound == Spec => []MatchIsSound
  BY InvInit, InvNext, PTL DEF Spec, Inv

(* MatchNotFound means that every name that counts was looked at. *)
THEOREM VerdictComplete == Spec => []NotFoundIsComplete
  BY InvInit, InvNext, PTL DEF Spec, Inv

(* The names are freed on every way out. *)
THEOREM NamesReleased == Spec => []SanReleased
<1>1. Inv => SanReleased
  BY DEF Inv, HeldInv, SanReleased
<1> QED
  BY <1>1, InvInit, InvNext, PTL DEF Spec

-------------------------------------------------------------------------------
(* ValidateReturns without its fairness: how many more steps validate_hostname
   takes at most. *)
Remaining ==
  LET n == IF cert # NULL /\ cert.san # NULL THEN Len(cert.san) ELSE 0
  IN  CASE pc = "returned" -> 0
        [] pc \in {"cn", "free"} -> 1
        [] pc = "loop" -> n + 3 - i
        [] pc = "san"  -> n + 3
        [] pc = "call" -> n + 4

(* Every step brings the return nearer. *)
ComesNearer == Remaining \in Nat /\ Remaining' \in Nat /\ Remaining' < Remaining

LEMMA ValidateStep == Inv /\ Validate => ComesNearer
<1> SUFFICES ASSUME Inv, Validate PROVE ComesNearer
  OBVIOUS
<1> DEFINE n == IF cert # NULL /\ cert.san # NULL THEN Len(cert.san) ELSE 0
           R(p, k) == CASE p = "returned" -> 0
                        [] p \in {"cn", "free"} -> 1
                        [] p = "loop" -> n + 3 - k
                        [] p = "san"  -> n + 3
                        [] p = "call" -> n + 4
<1>1. n \in Nat /\ i \in Nat \ {0} /\ i' \in Nat \ {0} /\ cert' = cert
  <2>1. n \in Nat
    BY SanIsSequence DEF Inv, Control
  <2>2. i \in Nat \ {0}
    BY DEF Inv, Control
  <2> QED
    BY <2>1, <2>2 DEF Validate, BadArguments, GoodArguments, NoSAN, ExtractSAN, NextName,
       MalformedName, MatchingName, NoMoreNames, FreeSAN, MatchesCommonName
<1>2. Remaining = R(pc, i) /\ Remaining' = R(pc', i')
  BY <1>1 DEF Remaining
<1>3. pc = "loop" => n = Len(cert.san) /\ i <= n + 1
  BY CertsAssumption DEF Inv, Control, LoopInv
<1> HIDE DEF n
<1>4. \/ pc = "call" /\ pc' \in {"returned", "san"}
      \/ pc = "san" /\ pc' = "cn"
      \/ pc = "san" /\ pc' = "loop" /\ i' = 1
      \/ pc = "loop" /\ pc' = "loop" /\ i <= n /\ i' = i + 1
      \/ pc = "loop" /\ pc' = "free"
      \/ pc \in {"cn", "free"} /\ pc' = "returned"
  BY <1>3 DEF Validate, BadArguments, GoodArguments, NoSAN, ExtractSAN, NextName,
     MalformedName, MatchingName, NoMoreNames, FreeSAN, MatchesCommonName
<1> QED
  BY <1>1, <1>2, <1>3, <1>4 DEF ComesNearer

(* Each step of validate_hostname leaves fewer to be taken, for a certificate with
   any number of names: no name is looked at twice. *)
THEOREM ValidateComesNearer == Spec => [][ComesNearer]_vars
<1>1. Inv /\ [Next]_vars => [ComesNearer]_vars
  BY ValidateStep DEF Next, Returned
<1> QED
  BY <1>1, InvInit, InvNext, PTL DEF Spec

===============================================================================
