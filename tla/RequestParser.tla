----------------------------- MODULE RequestParser -----------------------------
(***************************************************************************)
(* parseRequest of server/server.h with parseQueryStr, parseHeader and     *)
(* strsplit (util/stringops.h), on one message whose request line is       *)
(* whole.  Text is abstracted to the pieces between its delimiters: a line *)
(* behind the request line is a header, a text without ": " or empty; a    *)
(* query parameter is a pair, a key with nothing behind its "=", a word    *)
(* without "=", or empty.  ClientMessage is what client/client_v2.c sends  *)
(* for its arguments.  The information byte is in Server.                  *)
(***************************************************************************)
EXTENDS Integers, SequencesExt

CONSTANTS Messages,    \* records [query |-> parameters, lines |-> lines]
          Commands,    \* the client's arguments: see Whole
          MaxHeaders,  \* the 50 given to initDict
          MaxQuery,    \* the 20 given to initDict
          NULL

Header(k, v) == [kind |-> "header", key |-> k, val |-> v]    \* k: v
Text(w)      == [kind |-> "text", key |-> w]                 \* w
Pair(k, v)   == [kind |-> "pair", key |-> k, val |-> v]      \* k=v
Bare(k)      == [kind |-> "bare", key |-> k]                 \* k=  and  k
Empty        == [kind |-> "empty", key |-> ""]
Unset        == [kind |-> "unset"]    \* the memory malloc gave body

(* Any string is one of these; NULL is none. *)
Lines  == [kind : {"header"}, key : STRING, val : STRING]
            \cup [kind : {"text"}, key : STRING] \cup {Empty}
Params == [kind : {"pair"}, key : STRING, val : STRING]
            \cup [kind : {"bare"}, key : STRING] \cup {Empty}

ASSUME MessagesAssumption ==
  /\ NULL \notin STRING /\ NULL \notin Lines /\ NULL \notin Params /\ NULL # Unset
  /\ \A m \in Messages : m.query \in Seq(Params) /\ m.lines \in Seq(Lines)

ASSUME CommandsAssumption ==
  \A a \in Commands : /\ a.headers \in Seq(Lines) /\ a.data \in Lines \cup {NULL}
                      /\ a.host \in Nat /\ a.digits \in 1 .. 10

(* initDict makes room for something. *)
ASSUME SizesAssumption == MaxHeaders \in Nat \ {0} /\ MaxQuery \in Nat

VARIABLES msg,      \* the message; msg.query = <<>> is a path without "?"
          pc,       \* split, query, headers, next, body, done, segv
          i,        \* the counter of the loop in progress
          toks,     \* query_tokens behind the path
          headers,  \* the dictionaries: see Dict, RefinesMap
          query,
          body

vars == <<msg, pc, i, toks, headers, query, body>>

-------------------------------------------------------------------------------
(* What the client counts in its data, a line. *)
Strlen(line) == IF line = Empty THEN "0" ELSE "n"

(* Data goes into the body, of any request but a GET. *)
HasBody(a) == a.method # "GET" /\ a.data # NULL

(* The message for the arguments a = [method, host, query, data, digits, headers].
   The fifth argument is the query string of a GET (<<>> if absent or empty), and
   of other methods the data, one line (NULL if absent), whose length has so many
   digits.  A query string with a space is refused: see OpenFails in Client. *)
Whole(a) ==
  LET length == IF HasBody(a) THEN <<Header("Content-Length", Strlen(a.data))>> ELSE <<>>
  IN  [query |-> IF a.method = "GET" THEN a.query ELSE <<>>,
       lines |-> <<Header("Host", "host")>> \o a.headers \o length
                   \o <<Empty, IF HasBody(a) THEN a.data ELSE Empty>>]

(* A mutant of Spare: the blank line, two bytes, is not counted. *)
SpareNoBlankLine(a) ==
  IF a.method = "GET" THEN 8 - a.host - (IF a.query = <<>> THEN 0 ELSE 1)
  ELSE 4 - a.host + (IF HasBody(a) THEN 12 - a.digits ELSE 0) - (IF a.method = "" THEN 4 ELSE 0)

(* *message_size less the length of that message.  The size counts the letters of
   the formats, %s and %d included, and ten digits, but neither the host, of
   a.host bytes, nor the "?", nor the POST that stands for an empty method. *)
Spare(a) ==
  IF a.method = "GET" THEN 10 - a.host - (IF a.query = <<>> THEN 0 ELSE 1)
  ELSE 6 - a.host + (IF HasBody(a) THEN 12 - a.digits ELSE 0) - (IF a.method = "" THEN 4 ELSE 0)

(* What may be left of a line whose end is missing, and of one with only the first
   byte of the "\r\n" behind it. *)
Torn(line) == CASE line.kind = "header" -> {Header(line.key, "cut"), Text("cut"), Empty}
                [] line.kind = "text"   -> {Text("cut"), Empty}
                [] line.kind = "empty"  -> {}
WithReturn(line) == IF line.kind = "header" THEN Header(line.key, "cut") ELSE Text("cut")

(* The lines s without some bytes at their end.  No more are missing than the
   host has, less two, and four follow it: six bytes or the whole of it are left. *)
LastLeft(s, m) == Torn(s[m]) \cup (IF m < Len(s) THEN {s[m], WithReturn(s[m])} ELSE {})
Cuts(s) ==
  {<<s[1]>>, <<WithReturn(s[1])>>}
    \cup UNION {{Append(SubSeq(s, 1, m - 1), e) : e \in LastLeft(s, m)} : m \in 2 .. Len(s)}

(* The messages that may arrive: sendall sends *message_size bytes.  The server
   reads no byte behind the NUL of a shorter message; of a longer one the end is
   missing.  That it was written behind the end of its buffer is taken to do no
   harm. *)
ClientMessage(a) ==
  IF Spare(a) >= 0 THEN {Whole(a)}
  ELSE [query : {Whole(a).query}, lines : Cuts(Whole(a).lines)]

-------------------------------------------------------------------------------
(* A mutant of Strsplit: a trailing empty string is kept like the others. *)
StrsplitKeepsLast(pieces) == pieces

(* strsplit counts all the pieces, but puts its terminating NULL in the place
   of an empty last one. *)
Strsplit(pieces) ==
  [j \in DOMAIN pieces |->
     IF j = Len(pieces) /\ pieces[j] = Empty THEN NULL ELSE pieces[j]]

(* tokens[j] of parseRequest; tokens[0] is the request line.  A message of
   one line leaves the NULL behind it in tokens[1]. *)
Token(j) == IF msg.lines = <<>> THEN NULL ELSE Strsplit(msg.lines)[j]
NumTokens == Len(msg.lines) + 1

(* The strings one parameter adds to the result of parseQueryStr. *)
Strings(p) == CASE p.kind = "pair"  -> <<p.key, p.val>>
                [] p.kind = "bare"  -> <<p.key>>
                [] p.kind = "empty" -> <<>>

(* The dictionary d with the tuple (k, v), new or in the place of the old one. *)
Put(d, k, v) == [x \in DOMAIN d \cup {k} |-> IF x = k THEN v ELSE d[x]]

(* A mutant of SetTuple: the size is not looked at. *)
SetTupleNoLimit(d, k, v, size) == Put(d, k, v)

(* setTuple: a new key needs room; parseRequest ignores the result. *)
SetTuple(d, k, v, size) ==
  IF k \in DOMAIN d \/ Cardinality(DOMAIN d) < size THEN Put(d, k, v) ELSE d

-------------------------------------------------------------------------------
Init == /\ msg \in Messages
        /\ pc = "split" /\ i = 1 /\ toks = <<>>
        /\ headers = <<>> /\ query = <<>> /\ body = Unset

(* strsplit of the NULL behind a final "?", strlen of the NULL behind "&". *)
SplitSegv == /\ pc = "split" /\ i <= Len(msg.query)
             /\ Strsplit(msg.query)[i] = NULL
             /\ pc' = "segv"
             /\ UNCHANGED <<msg, i, toks, headers, query, body>>

(* One round of parseQueryStr. *)
SplitParam == /\ pc = "split" /\ i <= Len(msg.query)
              /\ Strsplit(msg.query)[i] # NULL
              /\ toks' = toks \o Strings(msg.query[i])
              /\ i' = i + 1
              /\ UNCHANGED <<msg, pc, headers, query, body>>

(* Its terminating NULL. *)
SplitEnd == /\ pc = "split" /\ i > Len(msg.query)
            /\ toks' = Append(toks, NULL)
            /\ pc' = "query" /\ i' = 1
            /\ UNCHANGED <<msg, headers, query, body>>

(* A mutant of QuerySet: the strings are taken one at a time. *)
QuerySetByOne == /\ pc = "query" /\ i < Len(toks)
                 /\ query' = SetTuple(query, toks[i], toks[i + 1], MaxQuery)
                 /\ i' = i + 1
                 /\ UNCHANGED <<msg, pc, toks, headers, body>>

(* One round of the loop over query_tokens, two strings at a time. *)
QuerySet == /\ pc = "query" /\ i < Len(toks)
            /\ query' = SetTuple(query, toks[i], toks[i + 1], MaxQuery)
            /\ i' = i + 2
            /\ UNCHANGED <<msg, pc, toks, headers, body>>

QueryEnd == /\ pc = "query" /\ i >= Len(toks)
            /\ pc' = "headers" /\ i' = 1
            /\ UNCHANGED <<msg, toks, headers, query, body>>

(* Mutants of MoreHeaders: the loop runs to the empty line, or stops early. *)
MoreHeadersPlus == NumTokens < 2 \/ i < NumTokens - 1
MoreHeadersLess == NumTokens < 2 \/ i < NumTokens - 3

(* i < *num_tokens - 2, of unsigned numbers: one token makes the limit huge. *)
MoreHeaders == NumTokens < 2 \/ i < NumTokens - 2

(* parseHeader: without ": " the second of the two pointers stays as malloc
   left it: NULL, a string of an earlier request, or, in HeaderWild, no valid
   address. *)
ParseHeader(line) ==
  {line.key} \X (IF line.kind = "header" THEN {line.val} ELSE {NULL, "stale"})

(* strdup of the NULL behind the only line. *)
HeaderNull == /\ pc = "headers" /\ MoreHeaders /\ Token(i) = NULL
              /\ pc' = "segv"
              /\ UNCHANGED <<msg, i, toks, headers, query, body>>

HeaderWild == /\ pc = "headers" /\ MoreHeaders
              /\ Token(i) # NULL /\ Token(i).kind # "header"
              /\ pc' = "segv"
              /\ UNCHANGED <<msg, i, toks, headers, query, body>>

HeaderSet == /\ pc = "headers" /\ MoreHeaders /\ Token(i) # NULL
             /\ \E h \in ParseHeader(Token(i)) :
                  /\ h[2] # NULL
                  /\ headers' = SetTuple(headers, h[1], h[2], MaxHeaders)
             /\ pc' = "next"
             /\ UNCHANGED <<msg, i, toks, query, body>>

(* "get rid of empty body": i is decremented before the loop increments it.
   The comparison of tokens[i] with "" before it is one of addresses. *)
HeaderSkip == /\ pc = "headers" /\ MoreHeaders /\ Token(i) # NULL
              /\ \E h \in ParseHeader(Token(i)) : h[2] = NULL
              /\ pc' = "next" /\ i' = i - 1
              /\ UNCHANGED <<msg, toks, headers, query, body>>

HeaderNext == /\ pc = "next" /\ pc' = "headers" /\ i' = i + 1
              /\ UNCHANGED <<msg, toks, headers, query, body>>

HeaderEnd == /\ pc = "headers" /\ ~MoreHeaders
             /\ pc' = "body"
             /\ UNCHANGED <<msg, i, toks, headers, query, body>>

(* The search for the first empty token; the body is the token behind it. *)
FindBody ==
  /\ pc = "body" /\ pc' = "done"
  /\ \/ /\ \A j \in DOMAIN msg.lines : Token(j) # Empty
        /\ UNCHANGED body
     \/ \E j \in DOMAIN msg.lines :
          /\ Token(j) = Empty /\ \A k \in 1 .. j - 1 : Token(k) # Empty
          /\ body' = Token(j + 1)
  /\ UNCHANGED <<msg, i, toks, headers, query>>

(* parseRequest has returned, or the SIGSEGV handler has run. *)
Ended == pc \in {"done", "segv"} /\ UNCHANGED vars

Parse == \/ SplitSegv \/ SplitParam \/ SplitEnd \/ QuerySet \/ QueryEnd
         \/ HeaderNull \/ HeaderWild \/ HeaderSet \/ HeaderSkip \/ HeaderNext \/ HeaderEnd
         \/ FindBody

Next == Parse \/ Ended

(* One thread, nothing to wait for: a step that can be taken is. *)
Spec == Init /\ [][Next]_vars /\ WF_vars(Parse)

-------------------------------------------------------------------------------
(* What a well-formed message asks for. *)

(* Headers, an empty line and a body of at most one line, perhaps none. *)
Framed == LET n == Len(msg.lines) IN
            /\ n >= 2 /\ msg.lines[n - 1] = Empty
            /\ \A j \in 1 .. n - 2 : msg.lines[j].kind = "header"

Leading(n) == \A j \in 1 .. n : msg.query[j].kind = "pair"
Pairs == Leading(Len(msg.query))

(* The strings of the parameters behind the first n. *)
Behind(n) == UNION {ToSet(Strings(msg.query[j])) : j \in n + 1 .. Len(msg.query)}

(* The host is short enough for what else the size leaves out. *)
Short(a) ==
  /\ a.method # ""
  /\ \/ a.method = "GET" /\ a.host <= 9
     \/ HasBody(a) /\ a.host <= 8
     \/ a.host <= 6

(* The map the first n of a list of pairs stand for, of which only the first size
   distinct keys are stored: every one of them with the value given last. *)
Keys(s, n) == {s[j].key : j \in 1 .. n}

Meaning(s, n, size) ==
  LET first(j) == s[j].key \notin Keys(s, j - 1)
      last(k)  == CHOOSE j \in 1 .. n : /\ s[j].key = k
                                       /\ \A l \in j + 1 .. n : s[l].key # k
      kept     == {j \in 1 .. n : first(j) /\ Cardinality(Keys(s, j - 1)) < size}
  IN  [k \in {s[j].key : j \in kept} |-> s[last(k)].val]

-------------------------------------------------------------------------------
(* Every variable has its type and neither dictionary outgrows its table. *)
TypeOK ==
  /\ msg \in Messages
  /\ pc \in {"split", "query", "headers", "next", "body", "done", "segv"}
  /\ i \in Nat /\ Len(toks) <= 2 * Len(msg.query) + 1
  /\ Cardinality(DOMAIN headers) <= MaxHeaders
  /\ Cardinality(DOMAIN query) <= MaxQuery
  /\ body \in {NULL, Unset} \cup ToSet(msg.lines)

(* When parseRequest returns, a message with headers, an empty line and at most
   one line of body has exactly its headers in the dictionary, a repeated one
   with its last value, whatever came first; the limit drops only new names. *)
HeadersExact ==
  pc = "done" /\ Framed =>
    headers = Meaning(msg.lines, Len(msg.lines) - 2, MaxHeaders)

(* The same of a query string of no more parameters than there is room for: the
   strings parseQueryStr flattens are put together again as they were.  When one
   parameter has no value the strings behind it are paired anew, but nothing
   before it is lost: each key of the pairs in front has its value, unless
   one of the strings behind them is that key. *)
QueryExact ==
  pc = "done" /\ Len(msg.query) <= MaxQuery =>
    /\ Pairs => query = Meaning(msg.query, Len(msg.query), MaxQuery)
    /\ \A n \in 0 .. Len(msg.query) : Leading(n) =>
         \A k \in Keys(msg.query, n) \ Behind(n) :
           k \in DOMAIN query /\ query[k] = Meaning(msg.query, n, MaxQuery)[k]

(* The body of such a message is its last line, and NULL, not an empty string,
   when nothing follows the empty line: strsplit and the search agree on it. *)
BodyExact ==
  pc = "done" /\ Framed =>
    body = IF Last(msg.lines) = Empty THEN NULL ELSE Last(msg.lines)

(* The server understands what the client was told to send, though the client
   sends fewer bytes than its message has when the host is long.
   With a host of at most 9 letters in a GET, 8 with data and 6 otherwise the data
   arrives as the body, unless a header the user gave is empty, and, unless the
   table is full, with its own length, whatever length or other header the user
   gave as well; and the host is known, however many headers follow, unless the
   user names one.  With any host, so also when the end is missing, the query
   string of a GET arrives, and no header is stored but one of the message, with
   the value it has there, if each the user gave has a ": ". *)
CommandArrives ==
  pc = "done" => \A a \in Commands : msg \in ClientMessage(a) =>
    /\ Short(a) =>
         /\ (\A j \in DOMAIN a.headers : a.headers[j] # Empty)
              => body = IF HasBody(a) /\ a.data # Empty THEN a.data ELSE NULL
         /\ HasBody(a) /\ "Content-Length" \in DOMAIN headers
              => headers["Content-Length"] = Strlen(a.data)
         /\ (\A j \in DOMAIN a.headers : a.headers[j].key # "Host")
              => headers["Host"] = "host"
    /\ a.method = "GET" /\ Pairs /\ Len(a.query) <= MaxQuery
         => query = Meaning(a.query, Len(a.query), MaxQuery)
    /\ (\A j \in DOMAIN a.headers : a.headers[j].kind = "header")
         => \A k \in DOMAIN headers :
              \E j \in DOMAIN Whole(a).lines : Whole(a).lines[j] = Header(k, headers[k])

(* parseRequest returns from such a message: no loop steps back for ever and no
   NULL token is read. *)
FramedEnds == (Framed /\ Pairs) ~> (pc = "done")

===============================================================================
