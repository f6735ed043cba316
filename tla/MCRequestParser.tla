---------------------------- MODULE MCRequestParser ----------------------------
EXTENDS RequestParser

(* Every list of up to three headers, more names than there is room for. *)
SomeHeaders == BoundedSeq({Header(k, v) : k \in {"a", "b", "c"}, v \in {"u", "v"}}, 3)
Bodies == {Empty, Text("u"), Header("a", "u")}

(* Well-formed messages; short ones out of order, cut off or with a second empty
   line; every list of up to three parameters, and lists of four with more names
   than there is room for. *)
Proper == [query : {<<>>}, lines : {h \o <<Empty, b>> : h \in SomeHeaders, b \in Bodies}]
Broken == [query : {<<>>},
           lines : BoundedSeq({Header("a", "u"), Header("b", "v"), Text("u"), Empty}, 4)]
SomeParams == {Pair(k, v) : k \in {"a", "b", "c"}, v \in {"u", "v"}} \cup {Bare("a"), Empty}
TooMany == {<<Pair("a", "u"), Pair("b", "v"), Pair("c", "u"), p>> :
              p \in SomeParams \cup {Pair("d", "u")}}
Queries == [query : BoundedSeq(SomeParams, 3) \cup TooMany, lines : {<<Header("a", "u"), Empty, Empty>>}]

(* The command line: headers of the user's own that repeat the client's, one
   without ": ", an empty one, more than there is room for; hosts as long as the
   message size has room for and one letter longer, and data of 7 and of
   1234567890 bytes. *)
UserHeaders == BoundedSeq({Header("Host", "u"), Header("Content-Length", "u"),
                           Header("a", "u"), Text("u"), Empty}, 2)
AllCommands ==
  [method : {"GET"}, host : {9, 10}, query : {<<>>, <<Pair("a", "u"), Pair("b", "v")>>},
   data : {NULL}, digits : {1}, headers : UserHeaders]
  \cup [method : {"GET"}, host : {11}, query : {<<>>}, data : {NULL}, digits : {1},
        headers : UserHeaders]
  \cup [method : {"POST"}, host : {6, 7}, query : {<<>>}, data : {NULL}, digits : {1},
        headers : UserHeaders]
  \cup [method : {"POST"}, host : {8, 9}, query : {<<>>}, data : {Text("u")}, digits : {1, 10},
        headers : UserHeaders]
  \cup [method : {"", "POST"}, host : {8, 18}, query : {<<>>}, data : {Empty}, digits : {1},
        headers : UserHeaders]
Sent == UNION {ClientMessage(a) : a \in AllCommands}

AllMessages == Proper \cup Broken \cup Queries \cup Sent

===============================================================================
