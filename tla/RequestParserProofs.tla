-------------------------- MODULE RequestParserProofs --------------------------
(***************************************************************************)
(* Proofs about RequestParser, for messages and commands of any length and *)
(* dictionaries of any size.                                               *)
(***************************************************************************)
EXTENDS RequestParser, FiniteSetTheorems, SequenceTheorems, TLAPS

-------------------------------------------------------------------------------
(* A dictionary that is being filled from a list of pairs. *)

(* j is where a key of the list s occurs for the first time. *)
First(s, j) == s[j].key \notin Keys(s, j - 1)

(* A dictionary is a function with no more keys than there is room for. *)
Table(d, size) == /\ d = [k \in DOMAIN d |-> d[k]]
                  /\ IsFiniteSet(DOMAIN d) /\ Cardinality(DOMAIN d) <= size

(* The dictionary d after the first n pairs of s.  Keys are dropped only when it
   is full, and as long as it is not it has all of them. *)
Stored(d, s, n, size) ==
  /\ n \in Nat /\ Table(d, size) /\ IsFiniteSet(Keys(s, n))
  /\ Cardinality(DOMAIN d) < size \/ Cardinality(Keys(s, n)) < size
       => DOMAIN d = Keys(s, n)
  /\ \A k : k \in DOMAIN d <=>
       \E j \in 1 .. n : /\ s[j].key = k /\ First(s, j)
                         /\ Cardinality(Keys(s, j - 1)) < size
  /\ \A k \in DOMAIN d :
       \E j \in 1 .. n : /\ s[j].key = k /\ d[k] = s[j].val
                         /\ \A l \in j + 1 .. n : s[l].key # k

(* The tuple (k, v) is in e, or there was no room for it. *)
TupleSet(d, e, k, v, size) ==
  \/ /\ k \in DOMAIN d \/ Cardinality(DOMAIN d) < size
     /\ DOMAIN e = DOMAIN d \cup {k} /\ e[k] = v
     /\ \A x \in DOMAIN d \ {k} : e[x] = d[x]
  \/ /\ k \notin DOMAIN d /\ Cardinality(DOMAIN d) = size
     /\ e = d

(* setTuple, by what it does to the table. *)
LEMMA SetTupleShape ==
  ASSUME NEW d, NEW k, NEW v, NEW size \in Nat, Table(d, size),
         NEW e, e = SetTuple(d, k, v, size)
  PROVE  Table(e, size) /\ TupleSet(d, e, k, v, size)
<1>0. Cardinality(DOMAIN d) \in Nat
  BY FS_CardinalityType DEF Table
<1>1. CASE k \in DOMAIN d \/ Cardinality(DOMAIN d) < size
  <2>1. e = [x \in DOMAIN d \cup {k} |-> IF x = k THEN v ELSE d[x]]
    BY <1>1 DEF SetTuple, Put
  <2>2. /\ IsFiniteSet(DOMAIN d \cup {k})
        /\ Cardinality(DOMAIN d \cup {k}) =
             IF k \in DOMAIN d THEN Cardinality(DOMAIN d) ELSE Cardinality(DOMAIN d) + 1
    BY FS_AddElement DEF Table
  <2>3. DOMAIN e = DOMAIN d \cup {k} /\ e[k] = v
    BY <2>1
  <2>4. \A x \in DOMAIN d \ {k} : e[x] = d[x]
    BY <2>1
  <2>5. e = [x \in DOMAIN e |-> e[x]]
    BY <2>1
  <2> QED
    BY <1>0, <1>1, <2>2, <2>3, <2>4, <2>5 DEF Table, TupleSet
<1>2. CASE ~(k \in DOMAIN d \/ Cardinality(DOMAIN d) < size)
  BY <1>0, <1>2 DEF SetTuple, Table, TupleSet
<1> QED
  BY <1>1, <1>2

LEMMA StoredInit ==
  ASSUME NEW s, NEW size \in Nat
  PROVE  Stored(<<>>, s, 0, size)
<1>1. Keys(s, 0) = {} /\ DOMAIN <<>> = {}
  BY DEF Keys
<1>2. IsFiniteSet({}) /\ Cardinality({}) = 0
  BY FS_EmptySet
<1>3. <<>> = [k \in DOMAIN <<>> |-> <<>>[k]]
  OBVIOUS
<1> QED
  BY <1>1, <1>2, <1>3 DEF Stored, Table

(* One more pair. *)
LEMMA StoredStep ==
  ASSUME NEW d, NEW s, NEW n, NEW size \in Nat, Stored(d, s, n, size),
         NEW k, k = s[n + 1].key, NEW v, v = s[n + 1].val,
         NEW e, e = SetTuple(d, k, v, size)
  PROVE  Stored(e, s, n + 1, size)
<1>1. /\ n \in Nat /\ Table(d, size) /\ IsFiniteSet(Keys(s, n))
      /\ Cardinality(DOMAIN d) < size \/ Cardinality(Keys(s, n)) < size => DOMAIN d = Keys(s, n)
  BY DEF Stored
<1>2. Cardinality(DOMAIN d) \in Nat /\ Cardinality(Keys(s, n)) \in Nat
  BY <1>1, FS_CardinalityType DEF Table
<1>3. Keys(s, n + 1) = Keys(s, n) \cup {k}
  <2>1. 1 .. n + 1 = (1 .. n) \cup {n + 1}
    BY <1>1
  <2> QED
    BY <2>1 DEF Keys
<1>4. /\ IsFiniteSet(Keys(s, n + 1))
      /\ Cardinality(Keys(s, n + 1)) = IF k \in Keys(s, n) THEN Cardinality(Keys(s, n)) ELSE Cardinality(Keys(s, n)) + 1
  BY <1>1, <1>3, FS_AddElement
<1>5. \A x : x \in DOMAIN d => x \in Keys(s, n)
  BY DEF Stored, Keys
<1>6. Table(e, size) /\ TupleSet(d, e, k, v, size)
  BY <1>1, SetTupleShape
<1>7. (n + 1) - 1 = n /\ n + 1 \in 1 .. n + 1 /\ \A j \in 1 .. n : j \in 1 .. n + 1
  BY <1>1
<1>8. \A j \in 1 .. n + 1 : j \in 1 .. n \/ j = n + 1
  BY <1>1
<1>9. Cardinality(DOMAIN e) < size \/ Cardinality(Keys(s, n + 1)) < size => DOMAIN e = Keys(s, n + 1)
  <2>1. CASE k \in DOMAIN d
    BY <1>1, <1>2, <1>3, <1>4, <1>5, <1>6, <2>1 DEF TupleSet
  <2>2. CASE k \notin DOMAIN d /\ Cardinality(DOMAIN d) < size
    <3>1. DOMAIN d = Keys(s, n)
      BY <1>1, <2>2
    <3>2. DOMAIN e = DOMAIN d \cup {k}
      BY <1>6, <2>2 DEF TupleSet
    <3> QED
      BY <1>3, <3>1, <3>2
  <2>3. CASE k \notin DOMAIN d /\ ~(Cardinality(DOMAIN d) < size)
    BY <1>1, <1>2, <1>4, <1>6, <2>3 DEF TupleSet
  <2> QED
    BY <2>1, <2>2, <2>3
<1> DEFINE Kept(j) == First(s, j) /\ Cardinality(Keys(s, j - 1)) < size
<1>10. \A x : x \in DOMAIN d <=> \E j \in 1 .. n : s[j].key = x /\ Kept(j)
  BY DEF Stored
<1>11. Kept(n + 1) <=> k \notin Keys(s, n) /\ Cardinality(Keys(s, n)) < size
  BY <1>7 DEF First
<1> HIDE DEF Kept
<1>12. \A x : x \in DOMAIN e <=> \E j \in 1 .. n + 1 : s[j].key = x /\ Kept(j)
  <2>1. CASE k \in DOMAIN d
    <3>1. ~Kept(n + 1) /\ DOMAIN e = DOMAIN d
      BY <1>5, <1>6, <1>11, <2>1 DEF TupleSet
    <3> QED
      BY <1>7, <1>8, <1>10, <3>1
  <2>2. CASE k \notin DOMAIN d /\ Cardinality(DOMAIN d) < size
    <3>1. Kept(n + 1) /\ DOMAIN e = DOMAIN d \cup {k}
      BY <1>1, <1>6, <1>11, <2>2 DEF TupleSet
    <3> QED
      BY <1>7, <1>8, <1>10, <3>1
  <2>3. CASE k \notin DOMAIN d /\ ~(Cardinality(DOMAIN d) < size)
    <3>1. ~Kept(n + 1) /\ DOMAIN e = DOMAIN d
      BY <1>1, <1>2, <1>6, <1>11, <2>3 DEF TupleSet
    <3> QED
      BY <1>7, <1>8, <1>10, <3>1
  <2> QED
    BY <2>1, <2>2, <2>3
<1>13. ASSUME NEW x \in DOMAIN e
       PROVE  \E j \in 1 .. n + 1 : /\ s[j].key = x /\ e[x] = s[j].val
                                    /\ \A l \in j + 1 .. n + 1 : s[l].key # x
  <2>1. CASE x = k /\ e[k] = v
    <3>1. \A l \in (n + 1) + 1 .. n + 1 : FALSE
      BY <1>1
    <3> QED
      BY <1>7, <2>1, <3>1
  <2>2. CASE ~(x = k /\ e[k] = v)
    <3>1. x \in DOMAIN d /\ x # k /\ e[x] = d[x]
      BY <1>6, <2>2 DEF TupleSet
    <3>2. PICK j \in 1 .. n : /\ s[j].key = x /\ d[x] = s[j].val
                              /\ \A l \in j + 1 .. n : s[l].key # x
      BY <3>1 DEF Stored
    <3>3. \A l \in j + 1 .. n + 1 : s[l].key # x
      BY <1>1, <3>1, <3>2
    <3> QED
      BY <1>7, <3>1, <3>2, <3>3
  <2> QED
    BY <2>1, <2>2
<1> QED
  BY <1>1, <1>4, <1>6, <1>9, <1>12, <1>13 DEF Stored, Kept

(* The list has been stored: it is what the reference definition says. *)
LEMMA StoredIsMeaning ==
  ASSUME NEW d, NEW s, NEW n, NEW size, Stored(d, s, n, size)
  PROVE  d = Meaning(s, n, size)
<1> DEFINE kept == {j \in 1 .. n : /\ s[j].key \notin Keys(s, j - 1)
                                   /\ Cardinality(Keys(s, j - 1)) < size}
           last(k) == CHOOSE j \in 1 .. n : /\ s[j].key = k
                                            /\ \A l \in j + 1 .. n : s[l].key # k
<1>1. Meaning(s, n, size) = [k \in {s[j].key : j \in kept} |-> s[last(k)].val]
  BY DEF Meaning
<1>2. DOMAIN d = {s[j].key : j \in kept}
  BY DEF Stored, First
<1>3. ASSUME NEW k \in DOMAIN d PROVE d[k] = s[last(k)].val
  <2>1. PICK j \in 1 .. n : /\ s[j].key = k /\ d[k] = s[j].val
                            /\ \A l \in j + 1 .. n : s[l].key # k
    BY DEF Stored
  <2>2. /\ last(k) \in 1 .. n /\ s[last(k)].key = k
        /\ \A l \in last(k) + 1 .. n : s[l].key # k
    BY <2>1
  <2> HIDE DEF last
  <2>3. last(k) = j
    BY <2>1, <2>2 DEF Stored
  <2> QED
    BY <2>1, <2>3
<1> HIDE DEF kept, last
<1>4. d = [k \in DOMAIN d |-> d[k]]
  BY DEF Stored, Table
<1> QED
  BY <1>1, <1>2, <1>3, <1>4

LEMMA FewKeys ==
  ASSUME NEW s, NEW n \in Nat
  PROVE  /\ IsFiniteSet(Keys(s, n)) /\ Cardinality(Keys(s, n)) \in Nat
         /\ Cardinality(Keys(s, n)) <= n
         /\ Cardinality(Keys(s, n)) = n => \A j \in 1 .. n : First(s, j)
<1> DEFINE f == [j \in 1 .. n |-> s[j].key]
<1>1. IsFiniteSet(1 .. n) /\ Cardinality(1 .. n) = n
  BY FS_Interval
<1>2. Keys(s, n) = {f[j] : j \in 1 .. n}
  BY DEF Keys
<1>3. f \in Surjection(1 .. n, Keys(s, n))
  BY <1>2 DEF Surjection
<1>4. /\ IsFiniteSet(Keys(s, n)) /\ Cardinality(Keys(s, n)) <= n
      /\ Cardinality(Keys(s, n)) = n => f \in Injection(1 .. n, Keys(s, n))
  <2> HIDE DEF f
  <2> QED
    BY <1>1, <1>3, FS_Surjection
<1>5. ASSUME f \in Injection(1 .. n, Keys(s, n)), NEW j \in 1 .. n PROVE First(s, j)
  <2>1. ASSUME NEW l \in 1 .. j - 1, s[l].key = s[j].key PROVE FALSE
    <3>1. l \in 1 .. n /\ l # j
      OBVIOUS
    <3>2. f[l] = f[j]
      BY <2>1, <3>1
    <3> HIDE DEF f
    <3> QED
      BY <1>5, <3>1, <3>2 DEF Injection, IsInjective
  <2> QED
    BY <2>1 DEF First, Keys
<1> QED
  BY <1>4, <1>5, FS_CardinalityType

(* Of as many pairs as there is room for, none is dropped. *)
LEMMA RoomForAll ==
  ASSUME NEW d, NEW s, NEW n, NEW size \in Nat, Stored(d, s, n, size), n <= size
  PROVE  DOMAIN d = Keys(s, n)
<1>1. n \in Nat /\ (Cardinality(Keys(s, n)) < size => DOMAIN d = Keys(s, n))
  BY DEF Stored
<1>2. Cardinality(Keys(s, n)) \in Nat /\ Cardinality(Keys(s, n)) <= n
  BY <1>1, FewKeys
<1>3. CASE Cardinality(Keys(s, n)) < size
  BY <1>1, <1>3
<1>4. CASE ~(Cardinality(Keys(s, n)) < size)
  <2>1. Cardinality(Keys(s, n)) = n /\ n = size
    BY <1>1, <1>2, <1>4
  <2>2. \A j \in 1 .. n : First(s, j)
    BY <1>1, <2>1, FewKeys
  <2>3. ASSUME NEW j \in 1 .. n PROVE Cardinality(Keys(s, j - 1)) < size
    <3>1. j - 1 \in Nat
      OBVIOUS
    <3>2. Cardinality(Keys(s, j - 1)) \in Nat /\ Cardinality(Keys(s, j - 1)) <= j - 1
      BY <3>1, FewKeys
    <3> QED
      BY <1>1, <2>1, <3>2
  <2>4. \A k : k \in DOMAIN d <=> \E j \in 1 .. n : s[j].key = k
    BY <2>2, <2>3 DEF Stored
  <2> QED
    BY <2>4 DEF Keys
<1> QED
  BY <1>3, <1>4

-------------------------------------------------------------------------------
(* The inductive invariant. *)

(* Tables that are not full grow, loops stay in their ranges, and two strings are
   the most a parameter becomes. *)
Types ==
  /\ msg \in Messages
  /\ pc \in {"split", "query", "headers", "next", "body", "done", "segv"}
  /\ i \in Nat /\ (pc # "next" => i >= 1)
  /\ toks \in Seq(STRING \cup {NULL}) /\ Len(toks) <= 2 * Len(msg.query) + 1
  /\ pc = "split" => i <= Len(msg.query) + 1 /\ Len(toks) <= 2 * (i - 1)
  /\ Table(headers, MaxHeaders) /\ Table(query, MaxQuery)

(* The strings are those of the first n parameters, side by side. *)
Flat(n) == \A j \in 1 .. n : /\ toks[2 * j - 1] = msg.query[j].key
                             /\ toks[2 * j] = msg.query[j].val

QueryInv ==
  Pairs => LET n == Len(msg.query) IN
    /\ pc = "split" => /\ Flat(i - 1) /\ Len(toks) = 2 * (i - 1)
                       /\ Stored(query, msg.query, 0, MaxQuery)
    /\ pc = "query" => /\ Flat(n) /\ Len(toks) = 2 * n + 1
                       /\ \E q \in 0 .. n : /\ i = 2 * q + 1
                                            /\ Stored(query, msg.query, q, MaxQuery)
    /\ pc \in {"headers", "next", "body", "done"} => Stored(query, msg.query, n, MaxQuery)

(* The first n parameters being pairs and no more than there is room for, their
   strings come first and in order, and what is stored after them touches no key
   but a string behind them. *)
BehindIn(n, m) == \A j \in 2 * n + 1 .. m : toks[j] \in Behind(n)
LeadKept(n) ==
  n <= MaxQuery => \A k \in Keys(msg.query, n) \ Behind(n) :
    k \in DOMAIN query /\ query[k] = Meaning(msg.query, n, MaxQuery)[k]

LeadAt(n) ==
  /\ pc = "split" => /\ i - 1 <= n => Flat(i - 1) /\ Len(toks) = 2 * (i - 1)
                     /\ i - 1 >= n => Flat(n) /\ Len(toks) >= 2 * n /\ BehindIn(n, Len(toks))
                     /\ Stored(query, msg.query, 0, MaxQuery)
  /\ pc = "query" => /\ Flat(n) /\ Len(toks) >= 2 * n + 1 /\ BehindIn(n, Len(toks) - 1)
                     /\ \E q \in Nat : /\ i = 2 * q + 1
                                       /\ q <= n => Stored(query, msg.query, q, MaxQuery)
                                       /\ q >= n => LeadKept(n)
  /\ pc \in {"headers", "next", "body", "done"} => LeadKept(n)
LeadInv == \A n \in 0 .. Len(msg.query) : Leading(n) => LeadAt(n)

(* Nothing is stored before the first line, and no line behind the limit is read. *)
RangeInv ==
  LET n == Len(msg.lines) IN
    /\ pc \in {"split", "query"} => headers = <<>>
    /\ pc = "headers" => (n >= 2 => i <= n - 1) /\ (i = 1 => headers = <<>>)
    /\ pc = "next" => i <= n - 2 /\ (i = 0 => headers = <<>>)

(* The lines before the counter have been stored. *)
HeadersInv ==
  Framed => LET n == Len(msg.lines) IN
    /\ pc = "headers" => i <= n - 1 /\ Stored(headers, msg.lines, i - 1, MaxHeaders)
    /\ pc = "next" => i \in 1 .. n - 2 /\ Stored(headers, msg.lines, i, MaxHeaders)
    /\ pc \in {"body", "done"} => Stored(headers, msg.lines, n - 2, MaxHeaders)

(* Whatever the lines between them do, the Host line, which comes first, stays
   and the last header wins. *)
HostFirst == LET n == Len(msg.lines) IN
  /\ n >= 3 /\ msg.lines[1] = Header("Host", "host")
  /\ \A j \in 2 .. n - 2 : msg.lines[j].key # "Host"
HostKnown == "Host" \in DOMAIN headers /\ headers["Host"] = "host"
HostInv ==
  /\ HostFirst
  /\ \/ pc = "headers" /\ i >= 2
     \/ pc = "next" /\ i >= 1
     \/ pc \in {"body", "done"}
  => HostKnown

LastHeader == msg.lines[Len(msg.lines) - 2]
LastWins == LastHeader.key \in DOMAIN headers => headers[LastHeader.key] = LastHeader.val
LastInv ==
  LET n == Len(msg.lines) IN
    /\ n >= 3 /\ LastHeader.kind = "header"
    /\ \/ pc = "headers" /\ i = n - 1
       \/ pc = "next" /\ i = n - 2
       \/ pc \in {"body", "done"}
    => LastWins

(* The empty line before the last line is the first one. *)
EmptyBeforeLast == LET n == Len(msg.lines) IN
  /\ n >= 2 /\ msg.lines[n - 1] = Empty
  /\ \A j \in 1 .. n - 2 : msg.lines[j] # Empty
BodyInv ==
  /\ pc # "done" => body = Unset
  /\ body \in {NULL, Unset} \cup ToSet(msg.lines)
  /\ pc = "done" /\ EmptyBeforeLast =>
       body = IF msg.lines[Len(msg.lines)] = Empty THEN NULL ELSE msg.lines[Len(msg.lines)]

(* What is stored is a line before the last two, if these are headers all. *)
LinesHeaders == \A j \in 1 .. Len(msg.lines) - 2 : msg.lines[j].kind = "header"
StoredLine(k) == \E j \in 1 .. Len(msg.lines) - 2 :
                   msg.lines[j].key = k /\ msg.lines[j].val = headers[k]
LineInv == LinesHeaders => \A k \in DOMAIN headers : StoredLine(k)

Inv == Types /\ QueryInv /\ LeadInv /\ LineInv /\ RangeInv /\ HeadersInv /\ HostInv /\ LastInv /\ BodyInv

-------------------------------------------------------------------------------
(* What a message and its parameters are. *)
LEMMA MessageTypes ==
  ASSUME Types
  PROVE  /\ msg.query \in Seq(Params) /\ msg.lines \in Seq(Lines)
         /\ MaxHeaders \in Nat /\ MaxQuery \in Nat
  BY MessagesAssumption, SizesAssumption DEF Types

LEMMA MessageFixed == [Next]_vars => msg' = msg
  BY DEF Next, Parse, Ended, vars, SplitSegv, SplitParam, SplitEnd, QuerySet, QueryEnd, HeaderNull,
         HeaderWild, HeaderSet, HeaderSkip, HeaderNext, HeaderEnd, FindBody

LEMMA StringsShape ==
  ASSUME NEW q \in Params
  PROVE  /\ Strings(q) \in Seq(STRING \cup {NULL}) /\ Len(Strings(q)) \in 0 .. 2
         /\ q.kind = "pair" => Strings(q) = <<q.key, q.val>>
<1>1. CASE q \in [kind : {"pair"}, key : STRING, val : STRING]
  <2>1. q.kind = "pair" /\ q.key \in STRING /\ q.val \in STRING
    BY <1>1
  <2>2. Strings(q) = <<q.key, q.val>>
    BY <2>1 DEF Strings
  <2> QED
    BY <2>1, <2>2
<1>2. CASE q \in [kind : {"bare"}, key : STRING]
  <2>1. q.kind = "bare" /\ q.key \in STRING
    BY <1>2
  <2>2. Strings(q) = <<q.key>>
    BY <2>1 DEF Strings
  <2> QED
    BY <2>1, <2>2
<1>3. CASE q = Empty
  <2>1. q.kind = "empty"
    BY <1>3 DEF Empty
  <2>2. Strings(q) = <<>>
    BY <2>1 DEF Strings
  <2> QED
    BY <2>1, <2>2
<1> QED
  BY <1>1, <1>2, <1>3 DEF Params

LEMMA TypesInit == Init => Types
<1> SUFFICES ASSUME Init PROVE Types
  OBVIOUS
<1>1. msg.query \in Seq(Params) /\ Len(msg.query) \in Nat
  BY MessagesAssumption DEF Init
<1>2. Stored(<<>>, <<>>, 0, MaxHeaders) /\ Stored(<<>>, <<>>, 0, MaxQuery)
  BY StoredInit, SizesAssumption
<1>3. Table(headers, MaxHeaders) /\ Table(query, MaxQuery)
  BY <1>2 DEF Stored, Init
<1>4. toks \in Seq(STRING \cup {NULL}) /\ Len(toks) = 0
  BY DEF Init
<1> QED
  BY <1>1, <1>3, <1>4 DEF Types, Init

LEMMA TypesNext == Types /\ [Next]_vars => Types'
<1> SUFFICES ASSUME Types, [Next]_vars PROVE Types'
  OBVIOUS
<1>0. /\ msg.query \in Seq(Params) /\ Len(msg.query) \in Nat
      /\ toks \in Seq(STRING \cup {NULL}) /\ Len(toks) \in Nat
      /\ MaxHeaders \in Nat /\ MaxQuery \in Nat
  BY MessageTypes DEF Types
<1>1. CASE SplitSegv
  BY <1>1 DEF SplitSegv, Types
<1>2. CASE SplitParam
  <2>1. /\ pc = "split" /\ pc' = "split" /\ i \in 1 .. Len(msg.query) /\ i' = i + 1
        /\ toks' = toks \o Strings(msg.query[i])
        /\ UNCHANGED <<msg, headers, query>>
    BY <1>0, <1>2 DEF SplitParam, Types
  <2>2. /\ Strings(msg.query[i]) \in Seq(STRING \cup {NULL})
        /\ Len(Strings(msg.query[i])) \in 0 .. 2
    <3>1. msg.query[i] \in Params
      BY <1>0, <2>1
    <3> QED
      BY <3>1, StringsShape
  <2>3. /\ toks' \in Seq(STRING \cup {NULL})
        /\ Len(toks') = Len(toks) + Len(Strings(msg.query[i]))
    BY <1>0, <2>1, <2>2
  <2>4. Len(toks) <= 2 * (i - 1)
    BY <2>1 DEF Types
  <2>5. i' <= Len(msg.query) + 1 /\ i' \in Nat /\ i' >= 1
    BY <1>0, <2>1
  <2>6. Len(toks') <= 2 * (i' - 1) /\ Len(toks') <= 2 * Len(msg.query) + 1
    <3> DEFINE a == Len(toks)
               b == Len(Strings(msg.query[i]))
               c == Len(msg.query)
               d == Len(toks')
    <3>1. /\ a \in Nat /\ b \in 0 .. 2 /\ c \in Nat /\ i \in 1 .. c /\ i' = i + 1
          /\ d = a + b /\ a <= 2 * (i - 1)
      BY <1>0, <2>1, <2>2, <2>3, <2>4
    <3> HIDE DEF a, b, c, d
    <3>2. d <= 2 * (i' - 1) /\ d <= 2 * c + 1
      BY <3>1
    <3> QED
      BY <3>2 DEF c, d
  <2> QED
    BY <2>1, <2>3, <2>5, <2>6 DEF Types
<1>3. CASE SplitEnd
  <2>1. /\ toks' \in Seq(STRING \cup {NULL}) /\ Len(toks') = Len(toks) + 1
        /\ i' = 1 /\ pc' = "query" /\ UNCHANGED <<msg, headers, query>>
    BY <1>0, <1>3 DEF SplitEnd
  <2>2. Len(toks) <= 2 * Len(msg.query)
    BY <1>0, <1>3 DEF SplitEnd, Types
  <2> QED
    BY <1>0, <2>1, <2>2 DEF Types
<1>4. CASE QuerySet
  <2>1. query' = SetTuple(query, toks[i], toks[i + 1], MaxQuery)
    BY <1>4 DEF QuerySet
  <2>2. Table(query', MaxQuery)
    BY <1>0, <2>1, SetTupleShape DEF Types
  <2> QED
    BY <1>4, <2>2 DEF QuerySet, Types
<1>5. CASE QueryEnd
  BY <1>5 DEF QueryEnd, Types
<1>6. CASE HeaderNull \/ HeaderWild
  BY <1>6 DEF HeaderNull, HeaderWild, Types
<1>7. CASE HeaderSet
  <2>1. PICK h : headers' = SetTuple(headers, h[1], h[2], MaxHeaders)
    BY <1>7 DEF HeaderSet
  <2>2. Table(headers', MaxHeaders)
    BY <1>0, <2>1, SetTupleShape DEF Types
  <2> QED
    BY <1>7, <2>2 DEF HeaderSet, Types
<1>8. CASE HeaderSkip
  BY <1>8 DEF HeaderSkip, Types
<1>9. CASE HeaderNext
  BY <1>9 DEF HeaderNext, Types
<1>10. CASE HeaderEnd
  BY <1>10 DEF HeaderEnd, Types
<1>11. CASE FindBody
  BY <1>11 DEF FindBody, Types
<1>12. CASE UNCHANGED vars
  BY <1>12 DEF vars, Types
<1> QED
  BY <1>1, <1>2, <1>3, <1>4, <1>5, <1>6, <1>7, <1>8, <1>9, <1>10, <1>11, <1>12
     DEF Next, Parse, Ended

-------------------------------------------------------------------------------
(* The query string. *)
LEMMA QueryInvInit == Init => QueryInv
<1> SUFFICES ASSUME Init PROVE QueryInv
  OBVIOUS
<1>1. Stored(query, msg.query, 0, MaxQuery)
  BY StoredInit, SizesAssumption DEF Init
<1>2. Flat(i - 1) /\ Len(toks) = 2 * (i - 1)
  BY DEF Init, Flat
<1> QED
  BY <1>1, <1>2 DEF QueryInv, Init

(* u is t with k and v behind it. *)
TwoMore(t, u, k, v) ==
  /\ Len(u) = Len(t) + 2 /\ u[Len(t) + 1] = k /\ u[Len(t) + 2] = v
  /\ \A j \in 1 .. Len(t) : u[j] = t[j]

LEMMA ConcatTwo ==
  ASSUME NEW S, NEW t \in Seq(S), NEW k \in S, NEW v \in S
  PROVE  TwoMore(t, t \o <<k, v>>, k, v)
  BY DEF TwoMore

LEMMA PairIsStrings ==
  ASSUME NEW q \in Params, q.kind = "pair"
  PROVE  q.key \in STRING /\ q.val \in STRING
<1>1. ASSUME q \in [kind : {"bare"}, key : STRING] PROVE FALSE
  BY <1>1
<1>2. ASSUME q = Empty PROVE FALSE
  <2>1. q.kind = "empty"
    BY <1>2 DEF Empty
  <2> QED
    BY <2>1
<1>3. q \in [kind : {"pair"}, key : STRING, val : STRING]
  BY <1>1, <1>2 DEF Params
<1> QED
  BY <1>3

(* parseQueryStr puts the key and the value of one more pair behind the others. *)
LEMMA SplitParamFlat ==
  ASSUME Types, SplitParam, msg.query[i].kind = "pair", Flat(i - 1), Len(toks) = 2 * (i - 1)
  PROVE  Flat(i - 1)' /\ Len(toks') = 2 * (i' - 1)
<1> DEFINE k == msg.query[i].key
           v == msg.query[i].val
<1>1. /\ pc = "split" /\ i \in 1 .. Len(msg.query) /\ i' = i + 1 /\ msg' = msg
      /\ toks' = toks \o Strings(msg.query[i])
  BY DEF SplitParam, Types
<1>2. msg.query[i] \in Params /\ msg.query[i].kind = "pair" /\ Len(msg.query) \in Nat
  BY <1>1, MessageTypes
<1>3. Strings(msg.query[i]) = <<k, v>>
  BY <1>2, StringsShape
<1>4. toks \in Seq(STRING \cup {NULL}) /\ Len(toks) = 2 * (i - 1) /\ Flat(i - 1)
  BY DEF Types
<1> HIDE DEF k, v
<1>5. /\ Len(toks') = 2 * (i - 1) + 2
      /\ toks'[2 * (i - 1) + 1] = k /\ toks'[2 * (i - 1) + 2] = v
      /\ \A j \in 1 .. 2 * (i - 1) : toks'[j] = toks[j]
  <2>1. k \in STRING \cup {NULL} /\ v \in STRING \cup {NULL}
    BY <1>2, PairIsStrings DEF k, v
  <2>2. toks' = toks \o <<k, v>>
    BY <1>1, <1>3
  <2> DEFINE m == 2 * (i - 1)
  <2>3. /\ Len(toks') = Len(toks) + 2
        /\ toks'[Len(toks) + 1] = k /\ toks'[Len(toks) + 2] = v
        /\ \A j \in 1 .. Len(toks) : toks'[j] = toks[j]
    <3>1. TwoMore(toks, toks \o <<k, v>>, k, v)
      BY <1>4, <2>1, ConcatTwo
    <3>2. TwoMore(toks, toks', k, v)
      BY <2>2, <3>1
    <3> QED
      BY <3>2 DEF TwoMore
  <2>4. m = Len(toks)
    BY <1>4
  <2> HIDE DEF m
  <2>5. /\ Len(toks') = m + 2 /\ toks'[m + 1] = k /\ toks'[m + 2] = v
        /\ \A j \in 1 .. m : toks'[j] = toks[j]
    BY <2>3, <2>4
  <2> QED
    BY <2>5 DEF m
<1>6. ASSUME NEW j \in 1 .. i
      PROVE  toks'[2 * j - 1] = msg.query[j].key /\ toks'[2 * j] = msg.query[j].val
  <2>1. CASE j = i
    <3>1. 2 * j - 1 = 2 * (i - 1) + 1 /\ 2 * j = 2 * (i - 1) + 2
      BY <1>1, <2>1
    <3> QED
      BY <1>5, <2>1, <3>1 DEF k, v
  <2>2. CASE j # i
    <3>1. /\ j \in 1 .. i - 1
          /\ 2 * j - 1 \in 1 .. 2 * (i - 1) /\ 2 * j \in 1 .. 2 * (i - 1)
      BY <1>1, <2>2
    <3> QED
      BY <1>4, <1>5, <3>1 DEF Flat
  <2> QED
    BY <2>1, <2>2
<1>7. i' - 1 = i
  BY <1>1
<1>8. Flat(i - 1)'
  BY <1>1, <1>6, <1>7 DEF Flat
<1>9. Len(toks') = 2 * (i' - 1)
  BY <1>1, <1>5
<1> QED
  BY <1>8, <1>9

LEMMA SplitEndFlat ==
  ASSUME Types, QueryInv, Pairs, SplitEnd
  PROVE  Flat(Len(msg.query))' /\ Len(toks') = 2 * Len(msg.query) + 1
<1> DEFINE n == Len(msg.query)
<1>1. /\ pc = "split" /\ i = n + 1 /\ msg' = msg /\ toks' = Append(toks, NULL) /\ n \in Nat
  BY MessageTypes DEF SplitEnd, Types
<1>2. toks \in Seq(STRING \cup {NULL}) /\ Len(toks) = 2 * n /\ Flat(n)
  BY <1>1 DEF Types, QueryInv
<1> HIDE DEF n
<1>3. Len(toks') = 2 * n + 1 /\ \A j \in 1 .. 2 * n : toks'[j] = toks[j]
  BY <1>1, <1>2
<1>4. \A j \in 1 .. n : 2 * j - 1 \in 1 .. 2 * n /\ 2 * j \in 1 .. 2 * n
  BY <1>1
<1>5. \A j \in 1 .. n : toks'[2 * j - 1] = msg.query[j].key /\ toks'[2 * j] = msg.query[j].val
  BY <1>2, <1>3, <1>4 DEF Flat
<1> QED
  BY <1>1, <1>3, <1>5 DEF Flat, n

LEMMA QueryInvNext == Types /\ Types' /\ QueryInv /\ [Next]_vars => QueryInv'
<1> SUFFICES ASSUME Types, Types', QueryInv, [Next]_vars, Pairs' PROVE QueryInv'
  BY DEF QueryInv
<1> DEFINE n == Len(msg.query)
<1>0. msg' = msg /\ Pairs /\ n \in Nat /\ MaxQuery \in Nat
  BY MessageFixed, MessageTypes DEF Pairs, Leading
<1>1. CASE SplitParam
  <2>0. pc = "split" /\ i \in 1 .. n /\ Flat(i - 1) /\ Len(toks) = 2 * (i - 1)
    BY <1>0, <1>1 DEF SplitParam, Types, QueryInv
  <2>1. Flat(i - 1)' /\ Len(toks') = 2 * (i' - 1) /\ pc' = "split"
    BY <1>0, <1>1, <2>0, SplitParamFlat DEF SplitParam, Pairs, Leading
  <2>2. Stored(query', msg'.query, 0, MaxQuery)
    BY <1>0, <1>1 DEF SplitParam, QueryInv
  <2> QED
    BY <2>1, <2>2 DEF QueryInv
<1>2. CASE SplitEnd
  <2>1. /\ Flat(n)' /\ Len(toks') = 2 * n + 1 /\ pc' = "query" /\ i' = 2 * 0 + 1 /\ 0 \in 0 .. n
    BY <1>0, <1>2, SplitEndFlat DEF SplitEnd
  <2>2. Stored(query', msg'.query, 0, MaxQuery)
    BY <1>0, <1>2 DEF SplitEnd, QueryInv
  <2> QED
    BY <1>0, <2>1, <2>2 DEF QueryInv
<1>3. CASE QuerySet
  <2>1. /\ pc = "query" /\ pc' = "query" /\ i < Len(toks) /\ i' = i + 2 /\ toks' = toks
        /\ query' = SetTuple(query, toks[i], toks[i + 1], MaxQuery)
    BY <1>3 DEF QuerySet
  <2>2. Flat(n) /\ Len(toks) = 2 * n + 1
    BY <1>0, <2>1 DEF QueryInv
  <2>3. PICK q \in 0 .. n : i = 2 * q + 1 /\ Stored(query, msg.query, q, MaxQuery)
    BY <1>0, <2>1 DEF QueryInv
  <2> HIDE DEF n
  <2>4. /\ q + 1 \in 1 .. n /\ q + 1 \in 0 .. n /\ i' = 2 * (q + 1) + 1
        /\ i = 2 * (q + 1) - 1 /\ i + 1 = 2 * (q + 1)
    BY <1>0, <2>1, <2>2, <2>3
  <2>5. toks[i] = msg.query[q + 1].key /\ toks[i + 1] = msg.query[q + 1].val
    BY <2>2, <2>4 DEF Flat
  <2>6. Stored(query', msg.query, q + 1, MaxQuery)
    BY <1>0, <2>1, <2>3, <2>5, StoredStep
  <2>7. Flat(n)'
    BY <1>0, <2>1, <2>2 DEF Flat, n
  <2> QED
    BY <1>0, <2>1, <2>2, <2>4, <2>6, <2>7 DEF QueryInv, n
<1>4. CASE QueryEnd
  <2>1. pc = "query" /\ pc' = "headers" /\ i >= Len(toks) /\ query' = query
    BY <1>4 DEF QueryEnd
  <2>2. PICK q \in 0 .. n : i = 2 * q + 1 /\ Stored(query, msg.query, q, MaxQuery)
    BY <1>0, <2>1 DEF QueryInv
  <2>3. Len(toks) = 2 * n + 1
    BY <1>0, <2>1 DEF QueryInv
  <2> HIDE DEF n
  <2>4. q = n
    BY <1>0, <2>1, <2>2, <2>3
  <2> QED
    BY <1>0, <2>1, <2>2, <2>4 DEF QueryInv, n
<1>5. CASE SplitSegv \/ HeaderNull \/ HeaderWild
  BY <1>5 DEF SplitSegv, HeaderNull, HeaderWild, QueryInv
<1>6. CASE HeaderSet \/ HeaderSkip \/ HeaderNext \/ HeaderEnd \/ FindBody
  <2>1. /\ pc \in {"headers", "next", "body"} /\ pc' \in {"headers", "next", "body", "done"}
        /\ query' = query
    BY <1>6 DEF HeaderSet, HeaderSkip, HeaderNext, HeaderEnd, FindBody
  <2> QED
    BY <1>0, <2>1 DEF QueryInv
<1>7. CASE UNCHANGED vars
  BY <1>7 DEF vars, QueryInv, Pairs, Leading, Flat
<1> QED
  BY <1>1, <1>2, <1>3, <1>4, <1>5, <1>6, <1>7 DEF Next, Parse, Ended

(* A query string that begins with pairs. *)
LEMMA LeadInvInit == Init => LeadInv
<1> SUFFICES ASSUME Init, NEW n \in 0 .. Len(msg.query) PROVE LeadAt(n)
  BY DEF LeadInv
<1>0. Len(msg.query) \in Nat /\ n \in Nat
  BY MessagesAssumption DEF Init
<1>1. Stored(query, msg.query, 0, MaxQuery)
  BY StoredInit, SizesAssumption DEF Init
<1>2. i = 1 /\ Len(toks) = 0 /\ pc = "split"
  BY DEF Init
<1>3. Flat(0) /\ (n = 0 => BehindIn(n, 0))
  BY DEF Flat, BehindIn
<1>4. i - 1 = 0 /\ (i - 1 >= n => n = 0)
  BY <1>0, <1>2
<1> QED
  BY <1>0, <1>1, <1>2, <1>3, <1>4 DEF LeadAt

(* The strings of one parameter behind the first n are strings behind them. *)
LEMMA SplitParamBehind ==
  ASSUME Types, SplitParam, NEW n \in 0 .. i - 1,
         Flat(n), Len(toks) >= 2 * n, BehindIn(n, Len(toks))
  PROVE  Flat(n)' /\ Len(toks') >= 2 * n /\ BehindIn(n, Len(toks))'
<1> DEFINE t == Strings(msg.query[i])
           c == Len(toks)
           S == STRING \cup {NULL}
<1>1. /\ i \in 1 .. Len(msg.query) /\ msg' = msg /\ toks' = toks \o t
      /\ Len(msg.query) \in Nat /\ msg.query[i] \in Params
  <2>1. msg.query \in Seq(Params) /\ Len(msg.query) \in Nat
    BY MessageTypes
  <2>2. i \in 1 .. Len(msg.query) /\ msg' = msg /\ toks' = toks \o t
    BY <2>1 DEF SplitParam, Types
  <2> QED
    BY <2>1, <2>2
<1>2. t \in Seq(S) /\ toks \in Seq(S) /\ Len(t) \in Nat /\ c \in Nat
  BY <1>1, StringsShape, LenProperties DEF Types
<1>3. /\ Len(toks') = c + Len(t)
      /\ \A j \in 1 .. c + Len(t) : toks'[j] = IF j <= c THEN toks[j] ELSE t[j - c]
  BY <1>1, <1>2, ConcatProperties
<1>4. n \in Nat /\ i \in n + 1 .. Len(msg.query)
  BY <1>1
<1>5. \A j \in 1 .. Len(t) : t[j] \in Behind(n)
  <2>1. \A j \in 1 .. Len(t) : t[j] \in ToSet(t)
    BY <1>2 DEF ToSet
  <2> QED
    BY <1>4, <2>1 DEF Behind
<1>6. Behind(n)' = Behind(n)
  BY <1>1 DEF Behind
<1> HIDE DEF t, c
<1>7. c >= 2 * n /\ \A j \in 2 * n + 1 .. c : toks[j] \in Behind(n)
  BY DEF BehindIn, c
<1>8. Flat(n)'
  <2>1. ASSUME NEW j \in 1 .. n
        PROVE  toks'[2 * j - 1] = toks[2 * j - 1] /\ toks'[2 * j] = toks[2 * j]
    <3>1. /\ 2 * j - 1 \in 1 .. c + Len(t) /\ 2 * j - 1 <= c
          /\ 2 * j \in 1 .. c + Len(t) /\ 2 * j <= c
      BY <1>2, <1>4, <1>7
    <3> QED
      BY <1>3, <3>1
  <2> QED
    BY <1>1, <2>1 DEF Flat
<1>9. ASSUME NEW j \in 2 * n + 1 .. c + Len(t) PROVE toks'[j] \in Behind(n)
  <2>1. j \in 1 .. c + Len(t)
    BY <1>2, <1>4
  <2>2. CASE j <= c
    BY <1>2, <1>3, <1>4, <1>7, <2>1, <2>2
  <2>3. CASE ~(j <= c)
    <3>1. j - c \in 1 .. Len(t)
      BY <1>2, <1>4, <2>1, <2>3
    <3> QED
      BY <1>3, <1>5, <2>1, <2>3, <3>1
  <2> QED
    BY <2>2, <2>3
<1>10. BehindIn(n, Len(toks))'
  BY <1>3, <1>6, <1>9 DEF BehindIn
<1>11. Len(toks') >= 2 * n
  BY <1>2, <1>3, <1>4, <1>7
<1> QED
  BY <1>8, <1>10, <1>11

(* Storing a tuple whose key is behind the first n leaves what they mean. *)
LEMMA BehindKept ==
  ASSUME Types, NEW n, LeadKept(n), NEW k \in Behind(n), NEW v, msg' = msg,
         query' = SetTuple(query, k, v, MaxQuery)
  PROVE  LeadKept(n)'
<1> SUFFICES ASSUME n <= MaxQuery PROVE LeadKept(n)'
  BY DEF LeadKept
<1> DEFINE want == Meaning(msg.query, n, MaxQuery)
           K == Keys(msg.query, n)
<1>1. want' = want /\ Behind(n)' = Behind(n) /\ K' = K
  BY DEF Behind
<1>2. TupleSet(query, query', k, v, MaxQuery)
  BY SetTupleShape, SizesAssumption DEF Types
<1> HIDE DEF want, K
<1>3. ASSUME NEW x \in K \ Behind(n)
      PROVE  x \in DOMAIN query' /\ query'[x] = want[x]
  <2>1. x # k /\ x \in DOMAIN query /\ query[x] = want[x]
    BY <1>3 DEF LeadKept, want, K
  <2> QED
    BY <1>2, <2>1 DEF TupleSet
<1> QED
  BY <1>1, <1>3 DEF LeadKept, want, K

LEMMA StoredKept ==
  ASSUME NEW d, NEW s, NEW n, Stored(d, s, n, MaxQuery), n <= MaxQuery
  PROVE  \A k \in Keys(s, n) : k \in DOMAIN d /\ d[k] = Meaning(s, n, MaxQuery)[k]
  BY StoredIsMeaning, RoomForAll, SizesAssumption

LEMMA LeadInvNext == Types /\ LeadInv /\ [Next]_vars => LeadInv'
<1> SUFFICES ASSUME Types, LeadInv, [Next]_vars, NEW n \in 0 .. Len(msg'.query), Leading(n)'
             PROVE  LeadAt(n)'
  BY DEF LeadInv
<1> DEFINE N == Len(msg.query)
<1>0. /\ msg' = msg /\ N \in Nat /\ n \in 0 .. N /\ n \in Nat /\ Leading(n) /\ LeadAt(n)
      /\ MaxQuery \in Nat /\ i \in Nat /\ toks \in Seq(STRING \cup {NULL}) /\ Len(toks) \in Nat
  <2>1. msg' = msg /\ N \in Nat /\ n \in 0 .. N
    BY MessageFixed, MessageTypes
  <2>2. Leading(n)
    BY <2>1 DEF Leading
  <2> QED
    BY <2>1, <2>2, MessageTypes, LenProperties DEF Types, LeadInv
<1>1. CASE SplitParam
  <2>1. /\ pc = "split" /\ pc' = "split" /\ i \in 1 .. N /\ i' = i + 1 /\ query' = query
        /\ i' - 1 = i /\ i - 1 \in Nat
    BY <1>0, <1>1 DEF SplitParam, Types
  <2>2. Stored(query', msg'.query, 0, MaxQuery)
    BY <1>0, <2>1 DEF LeadAt
  <2>3. ASSUME i <= n PROVE Flat(i - 1)' /\ Len(toks') = 2 * (i' - 1)
    <3>1. Flat(i - 1) /\ Len(toks) = 2 * (i - 1)
      BY <1>0, <2>1, <2>3 DEF LeadAt
    <3>2. msg.query[i].kind = "pair"
      BY <1>0, <2>1, <2>3 DEF Leading
    <3> QED
      BY <1>1, <3>1, <3>2, SplitParamFlat
  <2>4. ASSUME i >= n PROVE Flat(n)' /\ Len(toks') >= 2 * n /\ BehindIn(n, Len(toks))'
    <3>1. CASE i = n
      <4>1. Flat(i - 1)' /\ Len(toks') = 2 * (i' - 1)
        BY <1>0, <2>1, <2>3, <3>1
      <4>2. Flat(n)'
        BY <1>0, <2>1, <3>1, <4>1 DEF Flat
      <4>3. Len(toks') = 2 * n
        BY <2>1, <3>1, <4>1
      <4>4. BehindIn(n, Len(toks))'
        BY <1>0, <4>3 DEF BehindIn
      <4> QED
        BY <1>0, <4>2, <4>3, <4>4
    <3>2. CASE i > n
      <4>1. n \in 0 .. i - 1 /\ i - 1 >= n
        BY <1>0, <2>1, <3>2
      <4>2. Flat(n) /\ Len(toks) >= 2 * n /\ BehindIn(n, Len(toks))
        BY <1>0, <2>1, <4>1 DEF LeadAt
      <4> QED
        BY <1>1, <4>1, <4>2, SplitParamBehind
    <3> QED
      BY <1>0, <2>1, <2>4, <3>1, <3>2
  <2> QED
    BY <2>1, <2>2, <2>3, <2>4 DEF LeadAt
<1>2. CASE SplitEnd
  <2>1. /\ pc = "split" /\ pc' = "query" /\ i > N /\ i' = 1 /\ query' = query
        /\ toks' = Append(toks, NULL)
    BY <1>2 DEF SplitEnd
  <2>2. /\ Flat(n) /\ Len(toks) >= 2 * n /\ BehindIn(n, Len(toks))
        /\ Stored(query, msg.query, 0, MaxQuery)
    BY <1>0, <2>1 DEF LeadAt
  <2>3. Len(toks') = Len(toks) + 1 /\ \A j \in 1 .. Len(toks) : toks'[j] = toks[j]
    BY <1>0, <2>1
  <2>4. Flat(n)'
    <3>1. ASSUME NEW j \in 1 .. n
          PROVE  2 * j - 1 \in 1 .. Len(toks) /\ 2 * j \in 1 .. Len(toks)
      BY <1>0, <2>2
    <3> QED
      BY <1>0, <2>2, <2>3, <3>1 DEF Flat
  <2>5. Len(toks') - 1 = Len(toks) /\ Len(toks') >= 2 * n + 1
    BY <1>0, <2>2, <2>3
  <2>6. Behind(n)' = Behind(n)
    BY <1>0 DEF Behind
  <2>7. ASSUME NEW j \in 2 * n + 1 .. Len(toks) PROVE toks'[j] \in Behind(n)
    <3>1. j \in 1 .. Len(toks)
      BY <1>0
    <3> QED
      BY <2>2, <2>3, <3>1 DEF BehindIn
  <2>8. BehindIn(n, Len(toks) - 1)'
    BY <2>5, <2>6, <2>7 DEF BehindIn
  <2>9. Stored(query', msg'.query, 0, MaxQuery) /\ (0 >= n => LeadKept(n)')
    <3>1. Stored(query, msg.query, 0, MaxQuery)'
      BY <1>0, <2>1, <2>2
    <3>2. n = 0 => LeadKept(n)
      BY <2>2, StoredKept DEF LeadKept
    <3>3. LeadKept(n) => LeadKept(n)'
      BY <1>0, <2>1 DEF LeadKept, Behind
    <3> QED
      BY <1>0, <3>1, <3>2, <3>3
  <2>10. i' = 2 * 0 + 1 /\ 0 \in Nat
    BY <2>1
  <2> QED
    BY <2>1, <2>4, <2>5, <2>8, <2>9, <2>10 DEF LeadAt
<1>3. CASE QuerySet
  <2>1. /\ pc = "query" /\ pc' = "query" /\ i < Len(toks) /\ i' = i + 2 /\ toks' = toks
        /\ query' = SetTuple(query, toks[i], toks[i + 1], MaxQuery)
    BY <1>3 DEF QuerySet
  <2>2. Flat(n) /\ Len(toks) >= 2 * n + 1 /\ BehindIn(n, Len(toks) - 1)
    BY <1>0, <2>1 DEF LeadAt
  <2>3. PICK q \in Nat : /\ i = 2 * q + 1
                         /\ q <= n => Stored(query, msg.query, q, MaxQuery)
                         /\ q >= n => LeadKept(n)
    BY <1>0, <2>1 DEF LeadAt
  <2>4. Flat(n)' /\ Len(toks') >= 2 * n + 1 /\ BehindIn(n, Len(toks) - 1)'
    BY <1>0, <2>1, <2>2 DEF Flat, BehindIn, Behind
  <2>5. q + 1 \in Nat /\ i' = 2 * (q + 1) + 1
    BY <2>1, <2>3
  <2>6. ASSUME q + 1 <= n PROVE Stored(query, msg.query, q + 1, MaxQuery)'
    <3>1. /\ q + 1 \in 1 .. n /\ i = 2 * (q + 1) - 1 /\ i + 1 = 2 * (q + 1) /\ q <= n
      BY <1>0, <2>3, <2>6
    <3>2. toks[i] = msg.query[q + 1].key /\ toks[i + 1] = msg.query[q + 1].val
      BY <2>2, <3>1 DEF Flat
    <3>3. Stored(query', msg.query, q + 1, MaxQuery)
      BY <1>0, <2>1, <2>3, <3>1, <3>2, StoredStep
    <3> QED
      BY <1>0, <3>3
  <2>7. ASSUME q + 1 >= n PROVE LeadKept(n)'
    <3>1. CASE q + 1 = n
      <4>1. Stored(query, msg.query, n, MaxQuery)'
        BY <1>0, <2>6, <3>1
      <4>2. n <= MaxQuery => \A k \in Keys(msg'.query, n) :
              k \in DOMAIN query' /\ query'[k] = Meaning(msg'.query, n, MaxQuery)[k]
        BY <4>1, StoredKept
      <4> QED
        BY <4>2 DEF LeadKept
    <3>2. CASE q >= n
      <4>1. i \in 2 * n + 1 .. Len(toks) - 1
        BY <1>0, <2>1, <2>3, <3>2
      <4>2. toks[i] \in Behind(n)
        BY <2>2, <4>1 DEF BehindIn
      <4> QED
        BY <1>0, <2>1, <2>3, <3>2, <4>2, BehindKept
    <3> QED
      BY <1>0, <2>3, <2>7, <3>1, <3>2
  <2> QED
    BY <2>1, <2>4, <2>5, <2>6, <2>7 DEF LeadAt
<1>4. CASE QueryEnd
  <2>1. pc = "query" /\ pc' = "headers" /\ i >= Len(toks) /\ query' = query
    BY <1>4 DEF QueryEnd
  <2>2. PICK q \in Nat : i = 2 * q + 1 /\ (q >= n => LeadKept(n))
    BY <1>0, <2>1 DEF LeadAt
  <2>3. Len(toks) >= 2 * n + 1
    BY <1>0, <2>1 DEF LeadAt
  <2>4. LeadKept(n)
    BY <1>0, <2>1, <2>2, <2>3
  <2>5. LeadKept(n)'
    BY <1>0, <2>1, <2>4 DEF LeadKept, Behind
  <2> QED
    BY <2>1, <2>5 DEF LeadAt
<1>5. CASE SplitSegv \/ HeaderNull \/ HeaderWild
  BY <1>5 DEF SplitSegv, HeaderNull, HeaderWild, LeadAt
<1>6. CASE HeaderSet \/ HeaderSkip \/ HeaderNext \/ HeaderEnd \/ FindBody
  <2>1. /\ pc \in {"headers", "next", "body"} /\ pc' \in {"headers", "next", "body", "done"}
        /\ query' = query
    BY <1>6 DEF HeaderSet, HeaderSkip, HeaderNext, HeaderEnd, FindBody
  <2>2. LeadKept(n)'
    BY <1>0, <2>1 DEF LeadAt, LeadKept, Behind
  <2> QED
    BY <2>1, <2>2 DEF LeadAt
<1>7. CASE UNCHANGED vars
  <2>1. pc' = pc /\ i' = i /\ toks' = toks /\ query' = query
    BY <1>7 DEF vars
  <2>2. Behind(n)' = Behind(n)
    BY <1>0 DEF Behind
  <2>3. (Flat(n)' <=> Flat(n)) /\ (Flat(i - 1)' <=> Flat(i - 1))
    BY <1>0, <2>1 DEF Flat
  <2>4. /\ LeadKept(n)' <=> LeadKept(n)
        /\ BehindIn(n, Len(toks))' <=> BehindIn(n, Len(toks))
        /\ BehindIn(n, Len(toks) - 1)' <=> BehindIn(n, Len(toks) - 1)
    BY <1>0, <2>1, <2>2 DEF LeadKept, BehindIn
  <2> QED
    BY <1>0, <2>1, <2>3, <2>4 DEF LeadAt
<1> QED
  BY <1>1, <1>2, <1>3, <1>4, <1>5, <1>6, <1>7 DEF Next, Parse, Ended

-------------------------------------------------------------------------------
(* The lines and the tokens made of them. *)
LEMMA HeaderLine ==
  ASSUME NEW q \in Lines, q.kind = "header"
  PROVE  q.val \in STRING /\ q.val # NULL /\ q # Empty
<1>1. ASSUME q \in [kind : {"text"}, key : STRING] PROVE FALSE
  BY <1>1
<1>2. q # Empty
  <2>1. Empty.kind = "empty"
    BY DEF Empty
  <2> QED
    BY <2>1
<1>3. q \in [kind : {"header"}, key : STRING, val : STRING]
  BY <1>1, <1>2 DEF Lines
<1>4. q.val \in STRING
  BY <1>3
<1> QED
  BY <1>2, <1>4, MessagesAssumption

LEMMA HeaderIsRecord ==
  ASSUME NEW q \in Lines, q.kind = "header"
  PROVE  q = Header(q.key, q.val)
<1>1. ASSUME q \in [kind : {"text"}, key : STRING] PROVE FALSE
  BY <1>1
<1>2. q \in [kind : {"header"}, key : STRING, val : STRING]
  BY <1>1, HeaderLine DEF Lines
<1> QED
  BY <1>2 DEF Header

LEMMA TokenOf ==
  ASSUME Types, NEW j \in 1 .. Len(msg.lines)
  PROVE  /\ Token(j) = IF j = Len(msg.lines) /\ msg.lines[j] = Empty THEN NULL
                       ELSE msg.lines[j]
         /\ msg.lines[j] \in Lines
<1>1. msg.lines \in Seq(Lines)
  BY MessageTypes
<1>2. msg.lines # <<>> /\ j \in DOMAIN msg.lines /\ msg.lines[j] \in Lines
  BY <1>1
<1> QED
  BY <1>2 DEF Token, Strsplit

(* A header is looked for only in a line before the empty line. *)
LEMMA LineRead ==
  ASSUME Types, pc = "headers", MoreHeaders, Token(i) # NULL
  PROVE  /\ Len(msg.lines) \in Nat /\ i \in 1 .. Len(msg.lines) - 2
         /\ Token(i) = msg.lines[i] /\ msg.lines[i] \in Lines
<1> DEFINE n == Len(msg.lines)
<1>1. msg.lines \in Seq(Lines) /\ n \in Nat /\ i \in Nat /\ i >= 1
  BY MessageTypes DEF Types
<1>2. n # 0
  BY <1>1 DEF Token
<1>3. i < n - 1
  BY <1>1, <1>2 DEF MoreHeaders, NumTokens
<1>4. i \in 1 .. n - 2 /\ i \in 1 .. n /\ i # n
  BY <1>1, <1>3
<1> QED
  BY <1>1, <1>4, TokenOf

LEMMA HeaderStored ==
  ASSUME Types, HeaderSet
  PROVE  /\ Len(msg.lines) \in Nat /\ i \in 1 .. Len(msg.lines) - 2
         /\ msg.lines[i] \in Lines
         /\ \E v : /\ headers' = SetTuple(headers, msg.lines[i].key, v, MaxHeaders)
                   /\ TupleSet(headers, headers', msg.lines[i].key, v, MaxHeaders)
                   /\ msg.lines[i].kind = "header" => v = msg.lines[i].val
<1>1. /\ Len(msg.lines) \in Nat /\ i \in 1 .. Len(msg.lines) - 2
      /\ Token(i) = msg.lines[i] /\ msg.lines[i] \in Lines
  BY LineRead DEF HeaderSet
<1>2. PICK h \in ParseHeader(msg.lines[i]) :
        headers' = SetTuple(headers, h[1], h[2], MaxHeaders)
  BY <1>1 DEF HeaderSet
<1>3. h[1] = msg.lines[i].key /\ (msg.lines[i].kind = "header" => h[2] = msg.lines[i].val)
  BY <1>2 DEF ParseHeader
<1>4. TupleSet(headers, headers', h[1], h[2], MaxHeaders)
  BY <1>2, SetTupleShape, SizesAssumption DEF Types
<1> QED
  BY <1>1, <1>2, <1>3, <1>4

LEMMA HeaderSkipped ==
  ASSUME Types, HeaderSkip
  PROVE  /\ Len(msg.lines) \in Nat /\ i \in 1 .. Len(msg.lines) - 2
         /\ msg.lines[i].kind # "header"
<1>1. /\ Len(msg.lines) \in Nat /\ i \in 1 .. Len(msg.lines) - 2
      /\ Token(i) = msg.lines[i] /\ msg.lines[i] \in Lines
  BY LineRead DEF HeaderSkip
<1>2. PICK h \in ParseHeader(msg.lines[i]) : h[2] = NULL
  BY <1>1 DEF HeaderSkip
<1>3. msg.lines[i].kind = "header" => h[2] = msg.lines[i].val
  BY <1>2 DEF ParseHeader
<1> QED
  BY <1>1, <1>2, <1>3, HeaderLine

(* All steps but those of the header loop, as it sees them. *)
LEMMA OtherSteps ==
  ASSUME [Next]_vars
  PROVE  \/ HeaderSet \/ HeaderSkip \/ HeaderNext \/ HeaderEnd \/ QueryEnd
         \/ pc' = "segv"
         \/ pc = "body" /\ pc' = "done" /\ UNCHANGED <<i, headers>>
         \/ pc \in {"split", "query"} /\ pc' \in {"split", "query"} /\ UNCHANGED headers
         \/ UNCHANGED <<pc, i, headers>>
  BY DEF Next, Parse, Ended, vars, SplitSegv, SplitParam, SplitEnd, QuerySet, HeaderNull,
         HeaderWild, FindBody

LEMMA HeaderEnds ==
  ASSUME Types, RangeInv, HeaderEnd
  PROVE  /\ Len(msg.lines) \in Nat /\ i \in Nat /\ i >= 1
         /\ Len(msg.lines) >= 2 => i = Len(msg.lines) - 1
<1>1. Len(msg.lines) \in Nat
  BY MessageTypes
<1> QED
  BY <1>1 DEF HeaderEnd, RangeInv, Types, MoreHeaders, NumTokens

LEMMA RangeInvNext == Types /\ RangeInv /\ [Next]_vars => RangeInv'
<1> SUFFICES ASSUME Types, RangeInv, [Next]_vars PROVE RangeInv'
  OBVIOUS
<1>0. msg' = msg /\ Len(msg.lines) \in Nat /\ i \in Nat
  BY MessageFixed, MessageTypes DEF Types
<1>1. CASE HeaderSet
  BY <1>0, <1>1, HeaderStored DEF HeaderSet, RangeInv
<1>2. CASE HeaderSkip
  BY <1>0, <1>2, HeaderSkipped DEF HeaderSkip, RangeInv
<1>3. CASE HeaderNext
  BY <1>0, <1>3 DEF HeaderNext, RangeInv
<1>4. CASE HeaderEnd
  BY <1>0, <1>4 DEF HeaderEnd, RangeInv
<1>5. CASE QueryEnd
  BY <1>0, <1>5 DEF QueryEnd, RangeInv
<1>6. CASE \/ pc' = "segv"
           \/ pc = "body" /\ pc' = "done" /\ UNCHANGED <<i, headers>>
           \/ pc \in {"split", "query"} /\ pc' \in {"split", "query"} /\ UNCHANGED headers
           \/ UNCHANGED <<pc, i, headers>>
  BY <1>0, <1>6 DEF RangeInv
<1> QED
  BY <1>1, <1>2, <1>3, <1>4, <1>5, <1>6, OtherSteps

LEMMA HeadersInvNext == Types /\ RangeInv /\ HeadersInv /\ [Next]_vars => HeadersInv'
<1> SUFFICES ASSUME Types, RangeInv, HeadersInv, [Next]_vars, Framed' PROVE HeadersInv'
  BY DEF HeadersInv
<1> DEFINE n == Len(msg.lines)
<1>0. msg' = msg /\ Framed /\ n \in Nat /\ n >= 2 /\ i \in Nat /\ MaxHeaders \in Nat
  BY MessageFixed, MessageTypes DEF Types, Framed
<1>1. CASE HeaderSet
  <2>1. pc = "headers" /\ pc' = "next" /\ i' = i /\ i \in 1 .. n - 2
    BY <1>1, HeaderStored DEF HeaderSet
  <2>2. msg.lines[i].kind = "header"
    BY <1>0, <2>1 DEF Framed
  <2>3. headers' = SetTuple(headers, msg.lines[i].key, msg.lines[i].val, MaxHeaders)
    BY <1>1, <2>2, HeaderStored
  <2>4. Stored(headers, msg.lines, i - 1, MaxHeaders) /\ (i - 1) + 1 = i
    BY <1>0, <2>1 DEF HeadersInv
  <2>5. Stored(headers', msg.lines, (i - 1) + 1, MaxHeaders)
    BY <1>0, <2>3, <2>4, StoredStep
  <2> QED
    BY <1>0, <2>1, <2>4, <2>5 DEF HeadersInv
<1>2. CASE HeaderSkip
  <2>1. i \in 1 .. n - 2 /\ msg.lines[i].kind # "header"
    BY <1>2, HeaderSkipped
  <2> QED
    BY <1>0, <2>1 DEF Framed
<1>3. CASE HeaderNext
  <2>1. /\ pc = "next" /\ pc' = "headers" /\ i' = i + 1 /\ headers' = headers
        /\ i \in 1 .. n - 2 /\ Stored(headers, msg.lines, i, MaxHeaders)
    BY <1>0, <1>3 DEF HeaderNext, HeadersInv
  <2>2. i' - 1 = i /\ i' <= n - 1
    BY <1>0, <2>1
  <2> QED
    BY <1>0, <2>1, <2>2 DEF HeadersInv
<1>4. CASE HeaderEnd
  <2>1. /\ pc = "headers" /\ pc' = "body" /\ headers' = headers
        /\ Stored(headers, msg.lines, i - 1, MaxHeaders)
    BY <1>0, <1>4 DEF HeaderEnd, HeadersInv
  <2>2. i - 1 = n - 2
    BY <1>0, <1>4, HeaderEnds
  <2> QED
    BY <1>0, <2>1, <2>2 DEF HeadersInv
<1>5. CASE QueryEnd
  <2>1. pc' = "headers" /\ i' = 1 /\ headers' = <<>>
    BY <1>5 DEF QueryEnd, RangeInv
  <2>2. Stored(headers', msg.lines, 0, MaxHeaders) /\ i' - 1 = 0 /\ i' <= n - 1
    BY <1>0, <2>1, StoredInit
  <2> QED
    BY <1>0, <2>1, <2>2 DEF HeadersInv
<1>6. CASE \/ pc' = "segv"
           \/ pc = "body" /\ pc' = "done" /\ UNCHANGED <<i, headers>>
           \/ pc \in {"split", "query"} /\ pc' \in {"split", "query"} /\ UNCHANGED headers
           \/ UNCHANGED <<pc, i, headers>>
  BY <1>0, <1>6 DEF HeadersInv
<1> QED
  BY <1>1, <1>2, <1>3, <1>4, <1>5, <1>6, OtherSteps

LEMMA HostInvNext == Types /\ RangeInv /\ HostInv /\ [Next]_vars => HostInv'
<1> SUFFICES ASSUME Types, RangeInv, HostInv, [Next]_vars, HostFirst' PROVE HostInv'
  BY DEF HostInv
<1> DEFINE n == Len(msg.lines)
<1>0. msg' = msg /\ HostFirst /\ n \in Nat /\ n >= 3 /\ i \in Nat
  BY MessageFixed, MessageTypes DEF Types, HostFirst
<1>1. CASE HeaderSet
  <2>1. pc = "headers" /\ i \in 1 .. n - 2
    BY <1>1, HeaderStored DEF HeaderSet
  <2>2. PICK v : /\ TupleSet(headers, headers', msg.lines[i].key, v, MaxHeaders)
                 /\ msg.lines[i].kind = "header" => v = msg.lines[i].val
    BY <1>1, HeaderStored
  <2>3. CASE i = 1
    <3>1. /\ msg.lines[i].key = "Host" /\ msg.lines[i].kind = "header"
          /\ msg.lines[i].val = "host"
      BY <1>0, <2>3 DEF HostFirst, Header
    <3>2. Cardinality(DOMAIN headers) = 0 /\ MaxHeaders \in Nat /\ MaxHeaders > 0
      <4>1. DOMAIN headers = {}
        BY <2>1, <2>3 DEF RangeInv
      <4> QED
        BY <4>1, FS_EmptySet, SizesAssumption
    <3>3. v = "host" /\ TupleSet(headers, headers', "Host", v, MaxHeaders)
      BY <2>2, <3>1
    <3>4. HostKnown'
      BY <3>2, <3>3 DEF TupleSet, HostKnown
    <3> QED
      BY <3>4 DEF HostInv
  <2>4. CASE i # 1
    <3>1. i >= 2 /\ msg.lines[i].key # "Host"
      BY <1>0, <2>1, <2>4 DEF HostFirst
    <3>2. HostKnown
      BY <1>0, <2>1, <3>1 DEF HostInv
    <3>3. HostKnown'
      BY <2>2, <3>1, <3>2 DEF TupleSet, HostKnown
    <3> QED
      BY <3>3 DEF HostInv
  <2> QED
    BY <2>3, <2>4
<1>2. CASE HeaderSkip
  BY <1>0, <1>2 DEF HeaderSkip, HostInv, HostKnown
<1>3. CASE HeaderNext
  BY <1>0, <1>3 DEF HeaderNext, HostInv, HostKnown
<1>4. CASE HeaderEnd
  <2>1. i >= 2 /\ pc = "headers" /\ pc' = "body" /\ headers' = headers
    BY <1>0, <1>4, HeaderEnds DEF HeaderEnd
  <2> QED
    BY <1>0, <2>1 DEF HostInv, HostKnown
<1>5. CASE QueryEnd
  BY <1>0, <1>5 DEF QueryEnd, HostInv
<1>6. CASE \/ pc' = "segv"
           \/ pc = "body" /\ pc' = "done" /\ UNCHANGED <<i, headers>>
           \/ pc \in {"split", "query"} /\ pc' \in {"split", "query"} /\ UNCHANGED headers
           \/ UNCHANGED <<pc, i, headers>>
  BY <1>0, <1>6 DEF HostInv, HostKnown
<1> QED
  BY <1>1, <1>2, <1>3, <1>4, <1>5, <1>6, OtherSteps

LEMMA LastInvNext == Types /\ RangeInv /\ LastInv /\ [Next]_vars => LastInv'
<1> SUFFICES ASSUME Types, RangeInv, LastInv, [Next]_vars,
                    Len(msg'.lines) >= 3, LastHeader'.kind = "header"
             PROVE  LastInv'
  BY DEF LastInv
<1> DEFINE n == Len(msg.lines)
<1>0. /\ msg' = msg /\ LastHeader' = LastHeader
      /\ n \in Nat /\ n >= 3 /\ i \in Nat /\ LastHeader.kind = "header"
  <2>1. msg' = msg
    BY MessageFixed
  <2>2. LastHeader' = LastHeader
    BY <2>1 DEF LastHeader
  <2> QED
    BY <2>1, <2>2, MessageTypes DEF Types
<1>1. CASE HeaderSet
  <2>1. pc = "headers" /\ pc' = "next" /\ i' = i /\ i \in 1 .. n - 2
    BY <1>1, HeaderStored DEF HeaderSet
  <2>2. PICK v : /\ TupleSet(headers, headers', msg.lines[i].key, v, MaxHeaders)
                 /\ msg.lines[i].kind = "header" => v = msg.lines[i].val
    BY <1>1, HeaderStored
  <2>3. CASE i = n - 2
    <3>1. /\ TupleSet(headers, headers', LastHeader.key, v, MaxHeaders)
          /\ v = LastHeader.val
      BY <1>0, <2>2, <2>3 DEF LastHeader
    <3>2. LastWins'
      BY <1>0, <3>1 DEF TupleSet, LastWins
    <3> QED
      BY <3>2 DEF LastInv
  <2>4. CASE i # n - 2
    BY <1>0, <2>1, <2>4 DEF LastInv
  <2> QED
    BY <2>3, <2>4
<1>2. CASE HeaderSkip
  <2>1. i \in 1 .. n - 2 /\ pc' = "next" /\ i' = i - 1
    BY <1>2, HeaderSkipped DEF HeaderSkip
  <2> QED
    BY <1>0, <2>1 DEF LastInv
<1>3. CASE HeaderNext
  BY <1>0, <1>3 DEF HeaderNext, LastInv, LastWins
<1>4. CASE HeaderEnd
  <2>1. i = n - 1 /\ pc = "headers" /\ pc' = "body" /\ headers' = headers
    BY <1>0, <1>4, HeaderEnds DEF HeaderEnd
  <2> QED
    BY <1>0, <2>1 DEF LastInv, LastWins
<1>5. CASE QueryEnd
  <2>1. pc' = "headers" /\ i' = 1
    BY <1>5 DEF QueryEnd
  <2>2. n - 1 # 1
    <3>1. n \in Nat /\ n >= 3
      BY <1>0
    <3> HIDE DEF n
    <3> QED
      BY <3>1
  <2> QED
    BY <1>0, <2>1, <2>2 DEF LastInv
<1>6. CASE \/ pc' = "segv"
           \/ pc = "body" /\ pc' = "done" /\ UNCHANGED <<i, headers>>
           \/ pc \in {"split", "query"} /\ pc' \in {"split", "query"} /\ UNCHANGED headers
           \/ UNCHANGED <<pc, i, headers>>
  BY <1>0, <1>6 DEF LastInv, LastWins
<1> QED
  BY <1>1, <1>2, <1>3, <1>4, <1>5, <1>6, OtherSteps

LEMMA LineInvNext == Types /\ LineInv /\ [Next]_vars => LineInv'
<1> SUFFICES ASSUME Types, LineInv, [Next]_vars, LinesHeaders',
                    NEW k \in DOMAIN headers'
             PROVE  StoredLine(k)'
  BY DEF LineInv
<1>0. msg' = msg /\ LinesHeaders
  BY MessageFixed DEF LinesHeaders
<1>1. CASE HeaderSet
  <2>1. i \in 1 .. Len(msg.lines) - 2 /\ msg.lines[i].kind = "header"
    BY <1>0, <1>1, HeaderStored DEF LinesHeaders
  <2>2. TupleSet(headers, headers', msg.lines[i].key, msg.lines[i].val, MaxHeaders)
    BY <1>1, <2>1, HeaderStored
  <2>3. CASE k \in DOMAIN headers /\ headers'[k] = headers[k]
    BY <1>0, <2>3 DEF LineInv, StoredLine
  <2>4. CASE k = msg.lines[i].key /\ headers'[k] = msg.lines[i].val
    BY <1>0, <2>1, <2>4 DEF StoredLine
  <2> QED
    BY <2>2, <2>3, <2>4 DEF TupleSet
<1>2. CASE headers' = headers
  BY <1>0, <1>2 DEF LineInv, StoredLine
<1> QED
  BY <1>1, <1>2 DEF Next, Parse, Ended, vars, SplitSegv, SplitParam, SplitEnd, QuerySet, QueryEnd,
                    HeaderNull, HeaderWild, HeaderSkip, HeaderNext, HeaderEnd, FindBody

(* The search stops at the first empty line that is not the last line, which
   strsplit has replaced. *)
LEMMA BodyInvNext == Types /\ BodyInv /\ [Next]_vars => BodyInv'
<1> SUFFICES ASSUME Types, BodyInv, [Next]_vars PROVE BodyInv'
  OBVIOUS
<1> DEFINE n == Len(msg.lines)
<1>0. /\ msg' = msg /\ msg.lines \in Seq(Lines) /\ n \in Nat
      /\ NULL # Empty /\ ToSet(msg.lines) = {msg.lines[j] : j \in 1 .. n}
  <2>1. msg' = msg /\ msg.lines \in Seq(Lines)
    BY MessageFixed, MessageTypes
  <2>2. NULL # Empty
    BY MessagesAssumption DEF Lines
  <2> QED
    BY <2>1, <2>2 DEF ToSet
<1>1. ASSUME NEW j \in 1 .. n
      PROVE  Token(j) = IF j = n /\ msg.lines[j] = Empty THEN NULL ELSE msg.lines[j]
  BY TokenOf
<1> HIDE DEF n
<1>2. CASE FindBody
  <2>1. pc' = "done" /\ pc = "body" /\ body = Unset
    BY <1>2 DEF FindBody, BodyInv
  <2>2. DOMAIN msg.lines = 1 .. n
    BY <1>0 DEF n
  <2>3. CASE (\A j \in 1 .. n : Token(j) # Empty) /\ body' = body
    <3>1. ~EmptyBeforeLast
      <4>1. ASSUME EmptyBeforeLast PROVE FALSE
        <5>1. n >= 2 /\ msg.lines[n - 1] = Empty
          BY <4>1 DEF EmptyBeforeLast, n
        <5>2. n - 1 \in 1 .. n /\ n - 1 # n
          BY <1>0, <5>1
        <5>3. Token(n - 1) = Empty
          BY <1>1, <5>1, <5>2
        <5> QED
          BY <2>3, <5>2, <5>3
      <4> QED
        BY <4>1
    <3> QED
      BY <1>0, <2>1, <2>3, <3>1 DEF BodyInv, EmptyBeforeLast
  <2>4. ASSUME NEW j \in 1 .. n, Token(j) = Empty, \A k \in 1 .. j - 1 : Token(k) # Empty,
               body' = Token(j + 1)
        PROVE  BodyInv'
    <3>1. msg.lines[j] = Empty /\ j # n
      BY <1>0, <1>1, <2>4
    <3>2. j + 1 \in 1 .. n
      BY <1>0, <3>1
    <3>3. body' = IF j + 1 = n /\ msg.lines[j + 1] = Empty THEN NULL ELSE msg.lines[j + 1]
      BY <1>1, <2>4, <3>2
    <3>4. body' \in {NULL, Unset} \cup ToSet(msg.lines)
      BY <1>0, <3>2, <3>3
    <3>5. ASSUME EmptyBeforeLast
          PROVE  body' = IF msg.lines[n] = Empty THEN NULL ELSE msg.lines[n]
      <4>1. n >= 2 /\ msg.lines[n - 1] = Empty /\ \A k \in 1 .. n - 2 : msg.lines[k] # Empty
        BY <3>5 DEF EmptyBeforeLast, n
      <4>2. n - 1 \in 1 .. n /\ n - 1 # n
        BY <1>0, <4>1
      <4>3. Token(n - 1) = Empty
        BY <1>1, <4>1, <4>2
      <4>4. ~(n - 1 \in 1 .. j - 1) /\ ~(j \in 1 .. n - 2)
        BY <2>4, <3>1, <4>1, <4>3
      <4>5. j + 1 = n
        BY <1>0, <3>2, <4>4
      <4> QED
        BY <3>3, <4>5
    <3> QED
      BY <1>0, <2>1, <3>4, <3>5 DEF BodyInv, EmptyBeforeLast, n
  <2> QED
    BY <1>2, <2>2, <2>3, <2>4 DEF FindBody
<1>3. CASE body' = body /\ (pc' # "done" \/ pc' = pc) /\ (pc # "done" \/ pc' = pc)
  BY <1>0, <1>3 DEF BodyInv, EmptyBeforeLast
<1> QED
  BY <1>2, <1>3 DEF Next, Parse, Ended, vars, SplitSegv, SplitParam, SplitEnd, QuerySet, QueryEnd,
                    HeaderNull, HeaderWild, HeaderSet, HeaderSkip, HeaderNext, HeaderEnd

LEMMA InvInit == Init => Inv
<1>1. Init => RangeInv /\ HeadersInv /\ HostInv /\ LastInv /\ BodyInv /\ LineInv
  BY DEF Init, RangeInv, HeadersInv, HostInv, LastInv, BodyInv, LineInv
<1> QED
  BY <1>1, TypesInit, QueryInvInit, LeadInvInit DEF Inv

LEMMA InvNext == Inv /\ [Next]_vars => Inv'
  BY TypesNext, QueryInvNext, LeadInvNext, LineInvNext, RangeInvNext, HeadersInvNext, HostInvNext,
     LastInvNext, BodyInvNext DEF Inv

LEMMA InvHolds == Spec => []Inv
  BY InvInit, InvNext, PTL DEF Spec

-------------------------------------------------------------------------------
(* No loop of parseRequest leaves its range, the two dictionaries keep to their
   sizes, and the body is a line of the message, NULL or never set. *)
THEOREM ParserTypeCorrect == Spec => []TypeOK
<1>1. Inv => TypeOK
  BY DEF Inv, Types, Table, BodyInv, TypeOK
<1> QED
  BY <1>1, InvHolds, PTL

(* The headers of a well-formed message are stored as written, however many there
   are and whatever they repeat. *)
THEOREM HeadersStored == Spec => []HeadersExact
<1>1. Inv => HeadersExact
  BY StoredIsMeaning DEF Inv, HeadersInv, HeadersExact
<1> QED
  BY <1>1, InvHolds, PTL

(* Flattening the pairs of the query string and pairing the strings again gives
   the map the query string means, and a parameter without a value spoils only
   what is behind it. *)
THEOREM QueryStored == Spec => []QueryExact
<1>1. Inv => QueryExact
  <2> SUFFICES ASSUME Inv, pc = "done", Len(msg.query) <= MaxQuery
               PROVE  /\ Pairs => query = Meaning(msg.query, Len(msg.query), MaxQuery)
                      /\ \A n \in 0 .. Len(msg.query) : Leading(n) =>
                           \A k \in Keys(msg.query, n) \ Behind(n) :
                             /\ k \in DOMAIN query
                             /\ query[k] = Meaning(msg.query, n, MaxQuery)[k]
    BY DEF QueryExact
  <2>1. Pairs => query = Meaning(msg.query, Len(msg.query), MaxQuery)
    BY StoredIsMeaning DEF Inv, QueryInv
  <2>2. ASSUME NEW n \in 0 .. Len(msg.query), Leading(n), NEW k \in Keys(msg.query, n) \ Behind(n)
        PROVE  k \in DOMAIN query /\ query[k] = Meaning(msg.query, n, MaxQuery)[k]
    <3>1. LeadKept(n)
      BY <2>2 DEF Inv, LeadInv, LeadAt
    <3>2. n <= MaxQuery
      BY MessageTypes, SizesAssumption DEF Inv
    <3> QED
      BY <2>2, <3>1, <3>2 DEF LeadKept
  <2> QED
    BY <2>1, <2>2
<1> QED
  BY <1>1, InvHolds, PTL

LEMMA FramedHasBody == Types /\ Framed => EmptyBeforeLast
<1> SUFFICES ASSUME Types, Framed PROVE EmptyBeforeLast
  OBVIOUS
<1>1. msg.lines \in Seq(Lines)
  BY MessageTypes
<1>2. ASSUME NEW j \in 1 .. Len(msg.lines) - 2 PROVE msg.lines[j] # Empty
  <2>1. msg.lines[j] \in Lines /\ msg.lines[j].kind = "header"
    BY <1>1 DEF Framed
  <2> QED
    BY <2>1, HeaderLine
<1> QED
  BY <1>2 DEF Framed, EmptyBeforeLast

(* The body of a well-formed message is its last line, NULL if that is empty. *)
THEOREM BodyStored == Spec => []BodyExact
<1>1. Inv => BodyExact
  BY FramedHasBody DEF Inv, BodyInv, BodyExact, Last
<1> QED
  BY <1>1, InvHolds, PTL

-------------------------------------------------------------------------------
(* FramedEnds without its fairness: parseRequest cannot fail on a well-formed
   message, and cannot go on for ever. *)

(* How many more steps parseRequest takes at most: each line is read and counted,
   each two strings are stored, each parameter is split. *)
Remaining ==
  LET n == Len(msg.lines)
      q == Len(msg.query)
  IN  CASE pc \in {"done", "segv"} -> 0
        [] pc = "body"    -> 1
        [] pc = "headers" -> 2 * (n - i)
        [] pc = "next"    -> 2 * (n - i) - 1
        [] pc = "query"   -> 2 * n + 2 * q + 4 - i
        [] pc = "split"   -> 2 * n + 3 * q + 6 - i

(* No NULL and no invalid pointer of a well-formed message is read. *)
NeverFails == Framed /\ Pairs => pc # "segv"

(* Every step on one brings the end nearer. *)
ComesNearer ==
  Framed /\ Pairs => Remaining \in Nat /\ Remaining' \in Nat /\ Remaining' < Remaining

LEMMA FramedParam ==
  ASSUME Inv, Pairs, NEW j \in 1 .. Len(msg.query)
  PROVE  Strsplit(msg.query)[j] # NULL
<1>1. msg.query \in Seq(Params) /\ j \in DOMAIN msg.query
  BY MessageTypes DEF Inv
<1>2. msg.query[j] \in Params /\ msg.query[j].kind = "pair"
  BY <1>1 DEF Pairs, Leading
<1>3. msg.query[j] # Empty
  <2>1. Empty.kind = "empty"
    BY DEF Empty
  <2> QED
    BY <1>2, <2>1
<1>4. msg.query[j] # NULL
  BY <1>2, MessagesAssumption
<1> QED
  BY <1>1, <1>3, <1>4 DEF Strsplit

(* The header loop of a framed message: one line is a header or the loop ends. *)
LEMMA FramedLine ==
  ASSUME Inv, Framed, pc = "headers", MoreHeaders
  PROVE  /\ i \in 1 .. Len(msg.lines) - 2
         /\ Token(i) # NULL /\ Token(i).kind = "header"
<1>1. /\ msg.lines \in Seq(Lines) /\ Len(msg.lines) \in Nat /\ Len(msg.lines) >= 2
      /\ i \in Nat /\ i >= 1
  BY MessageTypes DEF Inv, Types, Framed
<1>2. i \in 1 .. Len(msg.lines) - 2
  BY <1>1 DEF MoreHeaders, NumTokens
<1>3. i \in 1 .. Len(msg.lines) /\ i # Len(msg.lines)
  BY <1>1, <1>2
<1>4. Token(i) = msg.lines[i] /\ msg.lines[i] \in Lines
  BY <1>3, TokenOf DEF Inv
<1>5. msg.lines[i].kind = "header"
  BY <1>2 DEF Framed
<1> QED
  BY <1>2, <1>4, <1>5, MessagesAssumption

LEMMA FramedStep ==
  ASSUME Inv, Framed, Pairs, Parse
  PROVE  pc' # "segv" /\ Remaining \in Nat /\ Remaining' \in Nat /\ Remaining' < Remaining
<1> DEFINE n == Len(msg.lines)
           q == Len(msg.query)
<1>1. /\ n \in Nat /\ n >= 2 /\ q \in Nat /\ i \in Nat /\ i' \in Nat /\ msg' = msg
      /\ pc # "next" => i >= 1
  BY MessageTypes, MessageFixed, TypesNext DEF Inv, Types, Framed, Next
<1> DEFINE R(p, k) == CASE p \in {"done", "segv"} -> 0
                        [] p = "body"    -> 1
                        [] p = "headers" -> 2 * (n - k)
                        [] p = "next"    -> 2 * (n - k) - 1
                        [] p = "query"   -> 2 * n + 2 * q + 4 - k
                        [] p = "split"   -> 2 * n + 3 * q + 6 - k
<1>2. Remaining = R(pc, i) /\ Remaining' = R(pc', i')
  BY <1>1 DEF Remaining
<1>3. \A j \in 1 .. q : Strsplit(msg.query)[j] # NULL
  BY FramedParam
<1> HIDE DEF n, q
<1>4. CASE SplitSegv
  BY <1>1, <1>3, <1>4 DEF SplitSegv, q
<1>5. CASE SplitParam
  <2>1. pc = "split" /\ pc' = "split" /\ i <= q /\ i' = i + 1
    BY <1>5 DEF SplitParam, q
  <2> QED
    BY <1>1, <1>2, <2>1
<1>6. CASE SplitEnd
  <2>1. pc = "split" /\ pc' = "query" /\ i <= q + 1 /\ i' = 1
    BY <1>6 DEF SplitEnd, Inv, Types, q
  <2> QED
    BY <1>1, <1>2, <2>1
<1>7. CASE QuerySet
  <2>1. pc = "query" /\ pc' = "query" /\ i < 2 * q + 1 /\ i' = i + 2
    BY <1>7 DEF QuerySet, Inv, QueryInv, q
  <2> QED
    BY <1>1, <1>2, <2>1
<1>8. CASE QueryEnd
  <2>1. pc = "query" /\ pc' = "headers" /\ i <= 2 * q + 1 /\ i' = 1
    BY <1>1, <1>8 DEF QueryEnd, Inv, QueryInv, q
  <2> QED
    BY <1>1, <1>2, <2>1
<1>9. CASE HeaderNull \/ HeaderWild \/ HeaderSkip
  <2>1. CASE HeaderNull \/ HeaderWild
    BY <2>1, FramedLine DEF HeaderNull, HeaderWild
  <2>2. CASE HeaderSkip
    BY <2>2, FramedLine, HeaderSkipped, LineRead DEF HeaderSkip, Inv
  <2> QED
    BY <1>9, <2>1, <2>2
<1>10. CASE HeaderSet
  <2>1. pc = "headers" /\ pc' = "next" /\ i <= n - 2 /\ i' = i
    BY <1>10, FramedLine DEF HeaderSet, n
  <2> QED
    BY <1>1, <1>2, <2>1
<1>11. CASE HeaderNext
  <2>1. pc = "next" /\ pc' = "headers" /\ i <= n - 2 /\ i' = i + 1
    BY <1>11 DEF HeaderNext, Inv, RangeInv, n
  <2> QED
    BY <1>1, <1>2, <2>1
<1>12. CASE HeaderEnd
  <2>1. pc = "headers" /\ pc' = "body" /\ i <= n - 1
    BY <1>1, <1>12 DEF HeaderEnd, Inv, RangeInv, n
  <2> QED
    BY <1>1, <1>2, <2>1
<1>13. CASE FindBody
  <2>1. pc = "body" /\ pc' = "done"
    BY <1>13 DEF FindBody
  <2> QED
    BY <1>1, <1>2, <2>1
<1> QED
  BY <1>4, <1>5, <1>6, <1>7, <1>8, <1>9, <1>10, <1>11, <1>12, <1>13, Zenon DEF Parse

LEMMA FormFixed == [Next]_vars => (Framed' <=> Framed) /\ (Pairs' <=> Pairs)
  BY MessageFixed DEF Framed, Pairs, Leading

(* parseRequest reads no NULL and no invalid pointer of a well-formed message, of
   any length and with any limits. *)
THEOREM FramedNeverFails == Spec => []NeverFails
<1>1. Init => NeverFails
  BY DEF Init, NeverFails
<1>2. Inv /\ NeverFails /\ [Next]_vars => NeverFails'
  <2> SUFFICES ASSUME Inv, NeverFails, [Next]_vars, Framed', Pairs' PROVE pc' # "segv"
    BY DEF NeverFails
  <2>1. Framed /\ Pairs /\ pc # "segv"
    BY FormFixed DEF NeverFails
  <2>2. CASE Parse
    BY <2>1, <2>2, FramedStep
  <2>3. CASE UNCHANGED vars
    BY <2>1, <2>3 DEF vars
  <2> QED
    BY <2>2, <2>3 DEF Next, Ended
<1> QED
  BY <1>1, <1>2, InvHolds, PTL DEF Spec

(* Each step of parseRequest on such a message leaves fewer to be taken: it never
   steps back to a line for good. *)
THEOREM FramedComesNearer == Spec => [][ComesNearer]_vars
<1>1. Inv /\ [Next]_vars => [ComesNearer]_vars
  <2> SUFFICES ASSUME Inv, [Next]_vars, ~UNCHANGED vars PROVE ComesNearer
    OBVIOUS
  <2>1. Parse
    BY DEF Next, Ended
  <2> QED
    BY <2>1, FramedStep DEF ComesNearer
<1> QED
  BY <1>1, InvHolds, PTL DEF Spec

-------------------------------------------------------------------------------
(* The message of the client: s is h, the lines u and l, and then e and x. *)
Composed(s, h, u, l, e, x) ==
  LET n == Len(s) IN
    /\ n = Len(u) + Len(l) + 3
    /\ s[1] = h /\ s[n - 1] = e /\ s[n] = x
    /\ Len(l) = 1 => s[n - 2] = l[1]
    /\ \A j \in 2 .. n - 2 : \/ \E k \in 1 .. Len(u) : s[j] = u[k]
                             \/ \E k \in 1 .. Len(l) : s[j] = l[k]

LEMMA ComposedLines ==
  ASSUME NEW S, NEW h \in S, NEW u \in Seq(S), NEW l \in Seq(S), NEW e \in S, NEW x \in S
  PROVE  /\ Composed(<<h>> \o u \o l \o <<e, x>>, h, u, l, e, x)
         /\ <<h>> \o u \o l \o <<e, x>> \in Seq(S)
<1> DEFINE a == <<h>> \o u
           b == a \o l
           s == b \o <<e, x>>
           p == Len(u)
           q == Len(l)
<1>1. p \in Nat /\ q \in Nat
  BY LenProperties
<1>2. /\ a \in Seq(S) /\ Len(a) = 1 + p /\ a[1] = h
      /\ \A j \in 2 .. 1 + p : a[j] = u[j - 1]
  <2>1. <<h>> \in Seq(S) /\ Len(<<h>>) = 1 /\ <<h>>[1] = h
    OBVIOUS
  <2>2. /\ a \in Seq(S) /\ Len(a) = 1 + p
        /\ \A j \in 1 .. 1 + p : a[j] = IF j <= 1 THEN <<h>>[j] ELSE u[j - 1]
    BY <2>1, ConcatProperties
  <2> HIDE DEF a, p
  <2> QED
    BY <1>1, <2>1, <2>2
<1> HIDE DEF a
<1>3. /\ b \in Seq(S) /\ Len(b) = 1 + p + q
      /\ \A j \in 1 .. 1 + p : b[j] = a[j]
      /\ \A j \in 2 + p .. 1 + p + q : b[j] = l[j - (1 + p)]
  <2>1. /\ b \in Seq(S) /\ Len(b) = Len(a) + Len(l)
        /\ \A j \in 1 .. Len(a) + Len(l) :
             b[j] = IF j <= Len(a) THEN a[j] ELSE l[j - Len(a)]
    <3>1. a \in Seq(S)
      BY <1>2
    <3> QED
      BY <3>1, ConcatProperties
  <2>2. Len(l) = q
    OBVIOUS
  <2> HIDE DEF b, p, q
  <2> QED
    BY <1>1, <1>2, <2>1, <2>2
<1> HIDE DEF b
<1>4. /\ s \in Seq(S) /\ Len(s) = p + q + 3
      /\ \A j \in 1 .. 1 + p + q : s[j] = b[j]
      /\ s[p + q + 2] = e /\ s[p + q + 3] = x
  <2>1. <<e, x>> \in Seq(S) /\ Len(<<e, x>>) = 2 /\ <<e, x>>[1] = e /\ <<e, x>>[2] = x
    OBVIOUS
  <2> DEFINE t == <<e, x>>
  <2>2. /\ s \in Seq(S) /\ Len(s) = Len(b) + Len(t)
        /\ \A j \in 1 .. Len(b) + Len(t) :
             s[j] = IF j <= Len(b) THEN b[j] ELSE t[j - Len(b)]
    <3>1. b \in Seq(S) /\ t \in Seq(S)
      BY <1>3, <2>1
    <3> QED
      BY <3>1, ConcatProperties
  <2> HIDE DEF s, p, q
  <2> QED
    BY <1>1, <1>3, <2>1, <2>2
<1> HIDE DEF s
<1>5. s[1] = h
  BY <1>1, <1>2, <1>3, <1>4
<1>6. q = 1 => s[p + q + 1] = l[1]
  <2>1. q = 1 => p + q + 1 \in 2 + p .. 1 + p + q /\ (p + q + 1) - (1 + p) = 1
    BY <1>1
  <2> QED
    BY <1>1, <1>3, <1>4, <2>1
<1>7. ASSUME NEW j \in 2 .. p + q + 1
      PROVE  (\E k \in 1 .. p : s[j] = u[k]) \/ (\E k \in 1 .. q : s[j] = l[k])
  <2>1. CASE j <= 1 + p
    <3>1. j \in 2 .. 1 + p /\ j \in 1 .. 1 + p /\ j \in 1 .. 1 + p + q /\ j - 1 \in 1 .. p
      BY <1>1, <2>1
    <3> QED
      BY <1>2, <1>3, <1>4, <3>1
  <2>2. CASE ~(j <= 1 + p)
    <3>1. j \in 2 + p .. 1 + p + q /\ j \in 1 .. 1 + p + q /\ j - (1 + p) \in 1 .. q
      BY <1>1, <2>2
    <3> QED
      BY <1>3, <1>4, <3>1
  <2> QED
    BY <2>1, <2>2
<1> HIDE DEF p, q
<1>8. (p + q + 3) - 1 = p + q + 2 /\ (p + q + 3) - 2 = p + q + 1
  BY <1>1
<1>9. Composed(s, h, u, l, e, x)
  BY <1>4, <1>5, <1>6, <1>7, <1>8 DEF Composed, p, q
<1> QED
  BY <1>4, <1>9 DEF s, b, a

LengthLine(a) == Header("Content-Length", Strlen(a.data))

LEMMA ClientLines ==
  ASSUME NEW a \in Commands
  PROVE  /\ Whole(a).query = IF a.method = "GET" THEN a.query ELSE <<>>
         /\ Composed(Whole(a).lines, Header("Host", "host"), a.headers,
                     IF HasBody(a) THEN <<LengthLine(a)>> ELSE <<>>,
                     Empty, IF HasBody(a) THEN a.data ELSE Empty)
         /\ \E S : Whole(a).lines \in Seq(S)
<1> DEFINE l == IF HasBody(a) THEN <<LengthLine(a)>> ELSE <<>>
           x == IF HasBody(a) THEN a.data ELSE Empty
           h == Header("Host", "host")
<1>1. Whole(a) = [query |-> IF a.method = "GET" THEN a.query ELSE <<>>,
                  lines |-> <<h>> \o a.headers \o l \o <<Empty, x>>]
  BY DEF Whole, LengthLine
<1> DEFINE S == Lines \cup {h, x, Empty, LengthLine(a)}
<1>2. a.headers \in Seq(S)
  BY CommandsAssumption
<1>3. l \in Seq(S)
  <2> DEFINE y == LengthLine(a)
  <2>1. y \in S
    OBVIOUS
  <2> HIDE DEF y, S
  <2>2. <<y>> \in Seq(S) /\ <<>> \in Seq(S)
    BY <2>1
  <2> QED
    BY <2>2, Zenon DEF y
<1>4. h \in S /\ x \in S /\ Empty \in S
  OBVIOUS
<1> HIDE DEF l, x, h, S
<1>5. /\ Composed(<<h>> \o a.headers \o l \o <<Empty, x>>, h, a.headers, l, Empty, x)
      /\ <<h>> \o a.headers \o l \o <<Empty, x>> \in Seq(S)
  BY <1>2, <1>3, <1>4, ComposedLines
<1> QED
  BY <1>1, <1>5 DEF l, x, h

(* A short host leaves nothing out. *)
LEMMA ShortIsWhole ==
  ASSUME NEW a \in Commands, Short(a)
  PROVE  ClientMessage(a) = {Whole(a)}
<1> SUFFICES Spare(a) >= 0
  BY DEF ClientMessage
<1> DEFINE h == a.host
           g == a.digits
           s == Spare(a)
<1>1. h \in Nat /\ g \in 1 .. 10
  BY CommandsAssumption
<1>2. a.method # ""
  BY DEF Short
<1>3. CASE a.method = "GET"
  <2>1. s = 10 - h - 0 \/ s = 10 - h - 1
    BY <1>3 DEF Spare
  <2>2. h <= 9
    BY <1>1, <1>3 DEF Short, HasBody
  <2> HIDE DEF h, g, s
  <2>3. s >= 0
    BY <1>1, <2>1, <2>2
  <2> QED
    BY <2>3 DEF s
<1>4. CASE a.method # "GET" /\ a.data # NULL
  <2>1. s = 6 - h + (12 - g) - 0
    BY <1>2, <1>4 DEF Spare, HasBody
  <2>2. h <= 8 \/ h <= 6
    BY <1>4 DEF Short
  <2> HIDE DEF h, g, s
  <2>3. s >= 0
    BY <1>1, <2>1, <2>2
  <2> QED
    BY <2>3 DEF s
<1>5. CASE a.method # "GET" /\ a.data = NULL
  <2>1. s = 6 - h + 0 - 0
    BY <1>2, <1>5 DEF Spare, HasBody
  <2>2. h <= 6
    BY <1>1, <1>5 DEF Short, HasBody
  <2> HIDE DEF h, g, s
  <2>3. s >= 0
    BY <1>1, <2>1, <2>2
  <2> QED
    BY <2>3 DEF s
<1> QED
  BY <1>3, <1>4, <1>5

(* What is missing is missing from the end: all lines but the last are whole. *)
LEMMA CutLines ==
  ASSUME NEW S, NEW s \in Seq(S), NEW t \in Cuts(s)
  PROVE  \A j \in 1 .. Len(t) - 2 : j \in 1 .. Len(s) - 2 /\ t[j] = s[j]
<1>0. Len(s) \in Nat
  OBVIOUS
<1>1. CASE t \in {<<s[1]>>, <<WithReturn(s[1])>>}
  <2>1. Len(t) = 1
    BY <1>1
  <2> QED
    BY <2>1
<1>2. ASSUME NEW m \in 2 .. Len(s), NEW e, t = Append(SubSeq(s, 1, m - 1), e)
      PROVE  \A j \in 1 .. Len(t) - 2 : j \in 1 .. Len(s) - 2 /\ t[j] = s[j]
  <2> DEFINE u == SubSeq(s, 1, m - 1)
             T == S \cup {e}
  <2>1. u \in Seq(T) /\ Len(u) = m - 1 /\ \A j \in 1 .. m - 1 : u[j] = s[j]
    <3>1. s \in Seq(T) /\ 1 \in 1 .. Len(s) + 1 /\ m - 1 \in 0 .. Len(s) /\ m \in Nat /\ m >= 2
      BY <1>0
    <3> QED
      BY <3>1, SubSeqProperties
  <2> HIDE DEF u
  <2>2. Len(t) = m /\ \A j \in 1 .. m - 1 : t[j] = u[j]
    <3>1. t = Append(u, e) /\ e \in T /\ m \in Nat
      BY <1>2 DEF u
    <3>2. Len(t) = Len(u) + 1 /\ \A j \in 1 .. Len(u) : t[j] = u[j]
      BY <2>1, <3>1, AppendProperties
    <3> QED
      BY <2>1, <3>1, <3>2
  <2>3. \A j \in 1 .. m - 2 : j \in 1 .. m - 1 /\ j \in 1 .. Len(s) - 2
    BY <1>0
  <2> QED
    BY <2>1, <2>2, <2>3
<1> QED
  BY <1>1, <1>2 DEF Cuts

(* What arrives is what was to be sent, or what a cut leaves of it. *)
LEMMA Arrives ==
  ASSUME NEW a \in Commands, msg \in ClientMessage(a)
  PROVE  /\ msg.query = Whole(a).query
         /\ \A j \in 1 .. Len(msg.lines) - 2 :
              j \in 1 .. Len(Whole(a).lines) - 2 /\ msg.lines[j] = Whole(a).lines[j]
<1>1. CASE msg = Whole(a)
  BY <1>1
<1>2. CASE msg \in [query : {Whole(a).query}, lines : Cuts(Whole(a).lines)]
  <2>1. msg.query = Whole(a).query /\ msg.lines \in Cuts(Whole(a).lines)
    BY <1>2
  <2>2. PICK S : Whole(a).lines \in Seq(S)
    BY ClientLines
  <2> QED
    BY <2>1, <2>2, CutLines
<1> QED
  BY <1>1, <1>2 DEF ClientMessage

(* What the user told the client to send the server understands, as far as the
   size of the message lets it arrive. *)
THEOREM CommandsArrive == Spec => []CommandArrives
<1>1. Inv => CommandArrives
  <2> SUFFICES ASSUME Inv, pc = "done", NEW a \in Commands, msg \in ClientMessage(a)
               PROVE  /\ Short(a) =>
                           /\ (\A j \in DOMAIN a.headers : a.headers[j] # Empty)
                                => body = IF HasBody(a) /\ a.data # Empty THEN a.data ELSE NULL
                           /\ HasBody(a) /\ "Content-Length" \in DOMAIN headers
                                => headers["Content-Length"] = Strlen(a.data)
                           /\ (\A j \in DOMAIN a.headers : a.headers[j].key # "Host")
                                => headers["Host"] = "host"
                      /\ a.method = "GET" /\ Pairs /\ Len(a.query) <= MaxQuery
                           => query = Meaning(a.query, Len(a.query), MaxQuery)
                      /\ (\A j \in DOMAIN a.headers : a.headers[j].kind = "header")
                           => \A k \in DOMAIN headers : \E j \in DOMAIN Whole(a).lines :
                                Whole(a).lines[j] = Header(k, headers[k])
    BY DEF CommandArrives
  <2> DEFINE L == Whole(a).lines
             n == Len(L)
             u == a.headers
             l == IF HasBody(a) THEN <<LengthLine(a)>> ELSE <<>>
             x == IF HasBody(a) THEN a.data ELSE Empty
             h == Header("Host", "host")
  <2>1. Composed(L, h, u, l, Empty, x)
    BY ClientLines
  <2>2. u \in Seq(Lines) /\ Len(u) \in Nat /\ DOMAIN u = 1 .. Len(u)
    BY CommandsAssumption
  <2>3. /\ HasBody(a) => Len(l) = 1 /\ l[1] = LengthLine(a)
        /\ ~HasBody(a) => Len(l) = 0
    OBVIOUS
  <2>4. /\ h.kind = "header" /\ h.key = "Host"
        /\ LengthLine(a).kind = "header" /\ LengthLine(a).key = "Content-Length"
        /\ LengthLine(a).val = Strlen(a.data) /\ Empty.kind = "empty"
    BY DEF Header, LengthLine, Empty
  <2> HIDE DEF l, x, h, u
  <2>5. /\ n = Len(u) + Len(l) + 3 /\ n \in Nat /\ n >= 3
        /\ L[1] = h /\ L[n - 1] = Empty /\ L[n] = x
        /\ HasBody(a) => L[n - 2] = LengthLine(a)
    BY <2>1, <2>2, <2>3 DEF Composed
  <2>6. ASSUME NEW j \in 2 .. n - 2
        PROVE  (\E k \in 1 .. Len(u) : L[j] = u[k]) \/ L[j] = LengthLine(a)
    <3>1. (\E k \in 1 .. Len(u) : L[j] = u[k]) \/ (\E k \in 1 .. Len(l) : L[j] = l[k])
      BY <2>1 DEF Composed
    <3> QED
      BY <2>3, <3>1
  <2>0. Short(a) => msg = Whole(a)
    BY ShortIsWhole
  <2>7. Short(a) /\ (\A j \in DOMAIN u : u[j] # Empty)
          => body = IF HasBody(a) /\ a.data # Empty THEN a.data ELSE NULL
    <3> SUFFICES ASSUME Short(a), \A j \in DOMAIN u : u[j] # Empty
                 PROVE  body = IF HasBody(a) /\ a.data # Empty THEN a.data ELSE NULL
      OBVIOUS
    <3>1. ASSUME NEW j \in 1 .. n - 2 PROVE L[j] # Empty
      <4>1. h # Empty /\ LengthLine(a) # Empty
        BY <2>4
      <4>2. CASE j = 1
        BY <2>5, <4>1, <4>2
      <4>3. CASE j # 1
        <5>1. j \in 2 .. n - 2
          BY <2>5, <4>3
        <5> QED
          BY <2>2, <2>6, <4>1, <5>1
      <4> QED
        BY <4>2, <4>3
    <3>2. EmptyBeforeLast
      BY <2>0, <2>5, <3>1 DEF EmptyBeforeLast
    <3>3. body = IF L[n] = Empty THEN NULL ELSE L[n]
      BY <2>0, <3>2 DEF Inv, BodyInv
    <3> QED
      BY <2>5, <3>3 DEF x
  <2>8. Short(a) /\ HasBody(a) /\ "Content-Length" \in DOMAIN headers
          => headers["Content-Length"] = Strlen(a.data)
    <3> SUFFICES ASSUME Short(a), HasBody(a), "Content-Length" \in DOMAIN headers
                 PROVE  headers["Content-Length"] = Strlen(a.data)
      OBVIOUS
    <3>1. LastHeader = LengthLine(a)
      BY <2>0, <2>5 DEF LastHeader
    <3>2. LastWins
      BY <2>0, <2>4, <2>5, <3>1 DEF Inv, LastInv
    <3> QED
      BY <2>4, <3>1, <3>2 DEF LastWins
  <2>9. a.method = "GET" /\ Pairs => query = Meaning(a.query, Len(a.query), MaxQuery)
    <3>1. a.method = "GET" => msg.query = a.query
      BY Arrives, ClientLines
    <3>2. Pairs => Stored(query, msg.query, Len(msg.query), MaxQuery)
      BY DEF Inv, QueryInv
    <3> QED
      BY <3>1, <3>2, StoredIsMeaning
  <2>10. Short(a) /\ (\A j \in DOMAIN u : u[j].key # "Host") => headers["Host"] = "host"
    <3> SUFFICES ASSUME Short(a), \A j \in DOMAIN u : u[j].key # "Host"
                 PROVE  headers["Host"] = "host"
      OBVIOUS
    <3>1. ASSUME NEW j \in 2 .. n - 2 PROVE L[j].key # "Host"
      BY <2>2, <2>4, <2>6
    <3>2. HostFirst
      BY <2>0, <2>5, <3>1 DEF HostFirst, h
    <3> QED
      BY <3>2 DEF Inv, HostInv, HostKnown
  <2>11. ASSUME \A j \in DOMAIN u : u[j].kind = "header", NEW k \in DOMAIN headers
         PROVE  \E j \in DOMAIN L : L[j] = Header(k, headers[k])
    <3>1. ASSUME NEW j \in 1 .. n - 2 PROVE L[j].kind = "header"
      <4>1. CASE j = 1
        BY <2>4, <2>5, <4>1
      <4>2. CASE j # 1
        <5>1. j \in 2 .. n - 2
          BY <2>5, <4>2
        <5> QED
          BY <2>2, <2>4, <2>6, <2>11, <5>1
      <4> QED
        BY <4>1, <4>2
    <3>2. \A j \in 1 .. Len(msg.lines) - 2 : j \in 1 .. n - 2 /\ msg.lines[j] = L[j]
      BY Arrives
    <3>3. LinesHeaders
      BY <3>1, <3>2 DEF LinesHeaders
    <3>4. PICK j \in 1 .. Len(msg.lines) - 2 :
            msg.lines[j].key = k /\ msg.lines[j].val = headers[k]
      BY <2>11, <3>3 DEF Inv, LineInv, StoredLine
    <3>5. msg.lines \in Seq(Lines)
      BY MessageTypes DEF Inv
    <3>6. msg.lines[j] \in Lines /\ msg.lines[j].kind = "header"
      BY <3>3, <3>5 DEF LinesHeaders
    <3>7. msg.lines[j] = Header(k, headers[k])
      BY <3>4, <3>6, HeaderIsRecord
    <3>8. j \in DOMAIN L /\ L[j] = msg.lines[j]
      <4>1. DOMAIN L = 1 .. n
        BY ClientLines
      <4> QED
        BY <2>5, <3>2, <4>1
    <3> QED
      BY <3>7, <3>8
  <2> QED
    BY <2>7, <2>8, <2>9, <2>10, <2>11 DEF u
<1> QED
  BY <1>1, InvHolds, PTL

===============================================================================
