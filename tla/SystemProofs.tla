----------------------------- MODULE SystemProofs -----------------------------
(***************************************************************************)
(* Safety of the server and its clients for any number of clients, any     *)
(* requests, any number of addresses and any limit on the descriptors.     *)
(***************************************************************************)
EXTENDS PwdManSystem, FawkesProofs, SequenceTheorems, FiniteSetTheorems,
        WellFoundedInduction, TLAPS

(* The strings the encoders know are the ones the server supports. *)
LEMMA CodesOfSupported ==
  ASSUME NEW r
  PROVE  Supported(r) <=> ProtoCode(r.proto) # 0 /\ MethodCode(r.method) # 0
<1>1. ProtoCode(r.proto) # 0 <=> \E x \in 1 .. 3 : ProtoName[x] = r.proto
  BY DEF ProtoCode
<1>2. MethodCode(r.method) # 0 <=> \E x \in 1 .. 8 : MethodName[x] = r.method
  BY DEF MethodCode
<1>3. (\E x \in 1 .. 3 : ProtoName[x] = r.proto)
        <=> r.proto \in {"HTTP/1.0", "HTTP/1.1", "HTTP/2.0"}
  BY DEF ProtoName
<1>4. (\E x \in 1 .. 8 : MethodName[x] = r.method)
        <=> r.method \in {"GET", "HEAD", "POST", "PUT", "DELETE",
                          "CONNECT", "OPTIONS", "TRACE"}
  BY DEF MethodName
<1>. QED
  BY <1>1, <1>2, <1>3, <1>4 DEF Supported

(* The byte of a request whose codes are p and m, the verdict x. *)
LEMMA PackedByte ==
  ASSUME NEW p \in 0 .. 3, NEW m \in 0 .. 8
  PROVE  /\ PutProto(p, 0) = p * 4
         /\ PutMethod(m, p * 4) = m * 16 + p * 4
         /\ \A x \in 0 .. 1 : LET b == m * 16 + p * 4 + x
                            IN  /\ PutReqmts(x, m * 16 + p * 4) = b
                                /\ ReqmtsBits(b) = x /\ ProtoBits(b) = p /\ MethodBits(b) = m
BY SMTT(30) DEF PutProto, PutMethod, PutReqmts, ReqmtsBits, ProtoBits, MethodBits

(* What parseRequest packs into the byte routeClient takes out of it. *)
LEMMA InfoFields ==
  ASSUME NEW r
  PROVE  /\ decodeReqmts(Info(r)) = -1 <=> ~Supported(r)
         /\ Supported(r) => decodeProto(Info(r)) # -1 /\ decodeMethod(Info(r)) # -1
         /\ decodeMethod(Info(r)) = 1 => r.method = "GET"
<1>. DEFINE p == ProtoCode(r.proto)
            m == MethodCode(r.method)
            x == IF p # 0 /\ m # 0 THEN 1 ELSE 0
<1>1. p \in 0 .. 3 /\ m \in 0 .. 8
  BY DEF ProtoCode, MethodCode
<1>2. encodeMethod(r.method, encodeProto(r.proto, 0)) = m * 16 + p * 4
  BY <1>1, PackedByte DEF encodeMethod, encodeProto
<1>. HIDE DEF p, m
<1>3. ProtoBits(m * 16 + p * 4) = p /\ MethodBits(m * 16 + p * 4) = m
  BY <1>1, PackedByte
<1>4. Info(r) = PutReqmts(x, m * 16 + p * 4)
  BY <1>1, <1>2, <1>3 DEF Info, encodeReqmts
<1>5. ReqmtsBits(Info(r)) = x /\ ProtoBits(Info(r)) = p /\ MethodBits(Info(r)) = m
  BY <1>1, <1>4, PackedByte
<1>6. x = 1 <=> Supported(r)
  BY CodesOfSupported DEF p, m
<1>7. m = 1 => r.method = "GET"
  BY DEF m, MethodCode, MethodName
<1>. QED
  BY <1>1, <1>5, <1>6, <1>7 DEF decodeReqmts, decodeProto, decodeMethod

(* The three tests before the switch. *)
LEMMA RefusalsShape ==
  ASSUME NEW i
  PROVE  /\ Refusals(i) \in Seq({400})
         /\ decodeReqmts(i) = -1 => Refusals(i) # <<>> /\ Refusals(i)[1] = 400
         /\ decodeReqmts(i) # -1 /\ decodeProto(i) # -1 /\ decodeMethod(i) # -1
              => Refusals(i) = <<>>
<1>. DEFINE line(failed) == IF failed THEN <<400>> ELSE <<>>
            a == line(decodeReqmts(i) = -1)
            b == line(decodeProto(i) = -1)
            c == line(decodeMethod(i) = -1)
<1>1. <<400>> \in Seq({400}) /\ <<>> \in Seq({400})
  OBVIOUS
<1>2. a \in Seq({400}) /\ b \in Seq({400}) /\ c \in Seq({400})
  BY <1>1, Zenon
<1>3. decodeReqmts(i) = -1 => Len(a) = 1 /\ a[1] = 400
  OBVIOUS
<1>4. /\ decodeReqmts(i) # -1 => a = <<>>
      /\ decodeProto(i) # -1 => b = <<>>
      /\ decodeMethod(i) # -1 => c = <<>>
  OBVIOUS
<1>5. Refusals(i) = a \o b \o c
  BY DEF Refusals
<1>. HIDE DEF a, b, c, line
<1>6. a \o b \in Seq({400}) /\ a \o b \o c \in Seq({400})
  BY <1>2, ConcatProperties
<1>7. decodeReqmts(i) = -1 => Len(a \o b) >= 1 /\ (a \o b)[1] = 400
  BY <1>2, <1>3, ConcatProperties, LenProperties
<1>8. decodeReqmts(i) = -1 => Len(a \o b \o c) >= 1 /\ (a \o b \o c)[1] = 400
  BY <1>2, <1>6, <1>7, ConcatProperties, LenProperties
<1>9. a = <<>> /\ b = <<>> /\ c = <<>> => a \o b \o c = <<>>
  BY <1>2, ConcatEmptySeq
<1>. QED
  BY <1>4, <1>5, <1>6, <1>8, <1>9, EmptySeq

(* The switch writes no 400, and writes nothing only if it then faults. *)
LEMMA AnswerShape ==
  ASSUME NEW i, NEW file \in FileKinds
  PROVE  /\ Answer(i, file) \in Seq(Statuses)
         /\ Answer(i, file) # <<>> => Answer(i, file)[1] # 400
         /\ Answer(i, file) = <<>> => Segfaults(i, file)
<1>. DEFINE GoodLines(s) == s \in Seq(Statuses) /\ s # <<>> /\ s[1] # 400
<1>0. \A x, y \in Statuses \ {400} : GoodLines(<<x>>) /\ GoodLines(<<x, y>>)
  OBVIOUS
<1>. GoodLines(<<404>>) /\ GoodLines(<<200>>) /\ GoodLines(<<500>>) /\ GoodLines(<<200, 500>>)
  <2>1. {200, 404, 500} \subseteq Statuses \ {400}
    BY DEF Statuses
  <2>. QED
    BY <1>0, <2>1
<1>1. CASE decodeMethod(i) = 1
  <2>1. CASE file = "missing"
    BY <1>1, <2>1, EmptySeq DEF Answer, Segfaults
  <2>2. CASE file \in {"error", "minus"}
    <3>1. Answer(i, file) = <<404>>
      BY <1>1, <2>2 DEF Answer
    <3>. QED
      BY <3>1
  <2>3. CASE file = "empty"
    <3>1. Answer(i, file) = <<200, 500>>
      BY <1>1, <2>3 DEF Answer
    <3>. QED
      BY <3>1
  <2>4. CASE file = "text"
    <3>1. Answer(i, file) = <<200>>
      BY <1>1, <2>4 DEF Answer
    <3>. QED
      BY <3>1
  <2>. QED
    BY <2>1, <2>2, <2>3, <2>4 DEF FileKinds
<1>2. CASE decodeMethod(i) = 2
  <2>1. Answer(i, file) = <<200, 500>>
    BY <1>2 DEF Answer
  <2>. QED
    BY <2>1
<1>3. CASE decodeMethod(i) \notin {1, 2}
  <2>1. Answer(i, file) = <<500>>
    BY <1>3 DEF Answer
  <2>. QED
    BY <2>1
<1>. QED
  BY <1>1, <1>2, <1>3

(* The status lines parsing decides on: the first is 400 exactly for an
   unsupported request, and there is one unless the process then faults. *)
LEMMA DecidedLines ==
  ASSUME NEW r, NEW file \in FileKinds
  PROVE  LET t == Refusals(Info(r)) \o Answer(Info(r), file)
         IN  /\ t \in Seq(Statuses)
             /\ t # <<>> => (t[1] = 400 <=> ~Supported(r))
             /\ t = <<>> => Segfaults(Info(r), file)
<1>. DEFINE x == Refusals(Info(r))
            y == Answer(Info(r), file)
<1>1. x \in Seq(Statuses) /\ y \in Seq(Statuses)
  BY RefusalsShape, AnswerShape, SeqMonotonic, {400} \subseteq Statuses DEF Statuses
<1>2. x \o y \in Seq(Statuses)
  BY <1>1, ConcatProperties
<1>3. CASE Supported(r)
  <2>1. x = <<>>
    BY <1>3, InfoFields, RefusalsShape
  <2>2. x \o y = y
    BY <2>1, <1>1, ConcatEmptySeq
  <2>. QED
    BY <1>2, <1>3, <2>2, AnswerShape
<1>4. CASE ~Supported(r)
  <2>1. x # <<>> /\ x[1] = 400
    BY <1>4, InfoFields, RefusalsShape
  <2>. HIDE DEF x, y
  <2>2. Len(x) >= 1
    BY <2>1, <1>1, EmptySeq
  <2>3. (x \o y)[1] = 400 /\ Len(x \o y) >= 1
    BY <2>1, <2>2, <1>1, ConcatProperties, LenProperties
  <2>4. x \o y # <<>>
    BY <2>3, EmptySeq
  <2>. QED
    BY <1>2, <1>4, <2>3, <2>4 DEF x, y
<1>. QED
  BY <1>3, <1>4

-------------------------------------------------------------------------------
(* main is serving the client cur. *)
Serving == {"handshake", "read", "parse", "loop", "route", "close"}

(* Before main has accepted anyone, and between two clients, it serves none. *)
CurInv == /\ pc \in Serving => cur \in Clients
          /\ pc \in {"boot", "addr", "listen", "accept"} => cur = NoClient

(* The descriptors in use at each place of main. *)
FdInv ==
  /\ pc \in {"boot", "addr"} => fds = [f \in Fds |-> "free"]
  /\ pc = "listen" =>
       /\ listen_sock \in Fds
       /\ fds = [f \in Fds |-> IF f = listen_sock THEN "socket" ELSE "free"]
  /\ OneListener
  /\ pc \in Serving =>
       /\ listen_sock \in Fds /\ worker_sock \in Fds /\ listen_sock # worker_sock
       /\ fds[listen_sock] = "listen" /\ fds[worker_sock] = "worker"
       /\ \A f \in Fds \ {listen_sock, worker_sock} : fds[f] \in {"free", "file"}

(* No two entries of the queue are one client's, and a client that waits to
   connect or waits in the queue has been written nothing. *)
QueueInv ==
  /\ \A i, j \in DOMAIN queue : queue[i] = queue[j] => i = j
  /\ \A i \in DOMAIN queue : /\ out[queue[i]] = <<>> /\ queue[i] # cur
                             /\ cpc[queue[i]] # "start"
  /\ \A c \in Clients : cpc[c] = "start" => out[c] = <<>> /\ c # cur

NoRaw(c) == \A i \in DOMAIN out[c] : out[c][i][1] # "raw"

(* No client that the server returns from is left without a status line. *)
AnsweredBeforeClose ==
  pc = "close" => \E i \in DOMAIN out[cur] : out[cur][i][1] = "raw"

(* What has been written, and is about to be written, to the client served. *)
VerdictInv ==
  /\ pc \in {"handshake", "read"} => out[cur] = <<>>
  /\ pc \in {"parse", "loop"} => NoRaw(cur)
  /\ pc = "route" /\ NoRaw(cur) =>
       /\ todo # <<>> => (todo[1] = 400 <=> ~Supported(req[cur]))
       /\ todo = <<>> => fatal
  /\ AnsweredBeforeClose
  /\ RawVerdict

-------------------------------------------------------------------------------
(* Type correctness: first the Boolean variables, then the others. *)
LEMMA TypeInit == Init => TypeOK /\ CurInv
<1>. SUFFICES ASSUME Init PROVE TypeOK /\ CurInv
  OBVIOUS
<1>1. NetFlagsOK /\ fatal \in BOOLEAN
  BY Zenon DEF Init, NetInit, ServerInit, NetFlagsOK
<1>2. NetDataOK
  BY QueueAssumption, EmptySeq DEF Init, NetInit, NetDataOK
<1>3. ServerDataOK
  BY AddrAssumption, EmptySeq DEF Init, ServerInit, ServerDataOK, Reasons
<1>4. ClientTypeOK
  BY DEF Init, ClientInit, ClientTypeOK
<1>5. CurInv
  BY DEF Init, ServerInit, CurInv, Serving
<1>. QED
  BY <1>1, <1>2, <1>3, <1>4, <1>5 DEF TypeOK, NetTypeOK, ServerTypeOK

LEMMA FlagsStep ==
  ASSUME NetFlagsOK, fatal \in BOOLEAN, [Next]_vars
  PROVE  NetFlagsOK' /\ fatal' \in BOOLEAN
<1>. USE DEF NetFlagsOK
<1>1. ASSUME NEW reason, Exit(reason) PROVE NetFlagsOK' /\ fatal' \in BOOLEAN
  BY <1>1, Zenon DEF Exit
<1>2. CASE ServerStep \/ Signal \/ LoopEnds
  <2>1. CASE BootFails \/ AddrInfoFails \/ SetsockoptFails \/ NoAddress \/ ListenFails \/ HandshakeFails
             \/ ParseSegv \/ RouteSigpipe \/ RouteSegv \/ Signal
    BY <1>1, <2>1, Zenon DEF BootFails, AddrInfoFails, SetsockoptFails, NoAddress, ListenFails,
       HandshakeFails, ParseSegv, RouteSigpipe, RouteSegv, Signal
  <2>2. CASE Boot \/ SocketFails \/ BindFails \/ BindOk
             \/ AcceptFails \/ ReadEof \/ ParseLoops \/ LoopEnds \/ RouteReturn
    BY <2>2, Zenon DEF Boot, SocketFails, BindFails, BindOk, AcceptFails, ReadEof,
       ParseLoops, LoopEnds, RouteReturn, net, proc
  <2>3. CASE Listen \/ Accept \/ RouteWrite \/ CloseWorker
    BY <2>3, Zenon DEF Listen, Accept, RouteWrite, CloseWorker
  <2>4. CASE HandshakeOk
    BY <2>4, Zenon DEF HandshakeOk
  <2>5. CASE ReadFails
    BY <1>1, <2>5, Zenon DEF ReadFails
  <2>6. CASE ParseOk
    BY <2>6, Zenon DEF ParseOk, Segfaults, net
  <2>. QED
    BY <1>2, <2>1, <2>2, <2>3, <2>4, <2>5, <2>6, Zenon DEF ServerStep
<1>3. ASSUME NEW c \in Clients, ClientStep(c), UNCHANGED proc
      PROVE  NetFlagsOK' /\ fatal' \in BOOLEAN
  BY <1>3, Zenon DEF ClientStep, OpenConnection, OpenFails, ShutdownSSL, ConnectFails, ConnectOk,
     SendSome, SendRest, SendFails, ReadRaw, ReadEnd, Interrupt, net, proc
<1>4. CASE UNCHANGED vars
  BY <1>4, Zenon DEF vars, net, proc
<1>. QED
  BY <1>2, <1>3, <1>4, Zenon DEF Next, Finished

LEMMA ExitType ==
  ASSUME NetDataOK, ServerDataOK, NEW reason \in Reasons, Exit(reason)
  PROVE  NetDataOK' /\ ServerDataOK' /\ CurInv'
<1>1. serverEnd' \in [Clients -> {"none", "open", "closed"}]
  BY DEF Exit, NetDataOK
<1>2. NetDataOK'
  BY <1>1, QueueAssumption, EmptySeq DEF Exit, NetDataOK
<1>3. ServerDataOK'
  BY DEF Exit, ServerDataOK
<1>. QED
  BY <1>2, <1>3 DEF Exit, CurInv, Serving

(* The line l has been appended to what c was written, and nothing else. *)
Extended(c, l) ==
  /\ out' \in [Clients -> Seq(Lines)]
  /\ \A d \in Clients \ {c} : out'[d] = out[d]
  /\ DOMAIN out[c] = 1 .. Len(out[c]) /\ Len(out[c]) \in Nat
  /\ DOMAIN out'[c] = 1 .. Len(out[c]) + 1
  /\ \A i \in 1 .. Len(out[c]) : out'[c][i] = out[c][i]
  /\ out'[c][Len(out[c]) + 1] = l

LEMMA AppendOut ==
  ASSUME NetDataOK, NEW c \in Clients, NEW l \in Lines,
         out' = [out EXCEPT ![c] = Append(@, l)]
  PROVE  Extended(c, l)
<1>1. out \in [Clients -> Seq(Lines)]
  BY DEF NetDataOK
<1>2. out[c] \in Seq(Lines) /\ out'[c] = Append(out[c], l)
  BY <1>1
<1>3. /\ Append(out[c], l) \in Seq(Lines)
      /\ Len(Append(out[c], l)) = Len(out[c]) + 1
      /\ \A i \in 1 .. Len(out[c]) : Append(out[c], l)[i] = out[c][i]
      /\ Append(out[c], l)[Len(out[c]) + 1] = l
  BY <1>2, AppendProperties
<1>4. Len(out[c]) \in Nat /\ DOMAIN out[c] = 1 .. Len(out[c])
  BY <1>2, LenProperties
<1>5. DOMAIN out'[c] = 1 .. Len(out[c]) + 1
  BY <1>2, <1>3, LenProperties
<1>6. out' \in [Clients -> Seq(Lines)]
  BY <1>1, <1>2, <1>3
<1>. QED
  BY <1>1, <1>2, <1>3, <1>4, <1>5, <1>6 DEF Extended

LEMMA ReadFileKind ==
  ASSUME NetDataOK, NEW c \in Clients
  PROVE  ReadFile(req[c]) \in FileKinds
BY RequestAssumption DEF NetDataOK, ReadFile, FileKinds

LEMMA ServerTypeStep ==
  ASSUME NetDataOK, ServerDataOK, CurInv, ServerStep \/ Signal \/ LoopEnds
  PROVE  NetDataOK' /\ ServerDataOK' /\ CurInv'
<1>. USE DEF CurInv, Serving
<1>1. CASE BootFails \/ AddrInfoFails \/ SetsockoptFails \/ NoAddress \/ ListenFails \/ HandshakeFails
           \/ ParseSegv \/ RouteSigpipe \/ RouteSegv \/ Signal
  BY <1>1, ExitType DEF BootFails, AddrInfoFails, SetsockoptFails, NoAddress, ListenFails,
     HandshakeFails, ParseSegv, RouteSigpipe, RouteSegv, Signal, Reasons
<1>2. CASE Boot \/ AcceptFails \/ ReadEof \/ ParseLoops \/ LoopEnds \/ RouteReturn
  <2>1. NetDataOK'
    BY <1>2 DEF Boot, AcceptFails, ReadEof, ParseLoops, LoopEnds, RouteReturn, net, NetDataOK
  <2>. QED
    BY <1>2, <2>1 DEF Boot, AcceptFails, ReadEof, ParseLoops, LoopEnds, RouteReturn,
       proc, ServerDataOK
<1>3. CASE SocketFails \/ BindFails \/ BindOk
  <2>1. NetDataOK'
    BY <1>3 DEF SocketFails, BindFails, BindOk, net, NetDataOK
  <2>2. addr' \in 1 .. Addrs + 1
    BY <1>3, AddrAssumption DEF SocketFails, BindFails, BindOk, ServerDataOK
  <2>. QED
    BY <1>3, <2>1, <2>2 DEF SocketFails, BindFails, BindOk, ServerDataOK
<1>4. CASE Listen
  <2>1. NetDataOK'
    BY <1>4 DEF Listen, NetDataOK
  <2>. QED
    BY <1>4, <2>1 DEF Listen, ServerDataOK
<1>5. CASE Accept
  <2>1. /\ Head(queue) \in Clients /\ Tail(queue) \in Seq(Clients)
        /\ Len(Tail(queue)) = Len(queue) - 1 /\ Len(queue) \in Nat
    BY <1>5, HeadTailProperties, LenProperties DEF Accept, NetDataOK
  <2>2. NetDataOK'
    BY <1>5, <2>1, QueueAssumption DEF Accept, NetDataOK
  <2>3. ServerDataOK'
    BY <1>5, <2>1 DEF Accept, ServerDataOK
  <2>. QED
    BY <1>5, <2>1, <2>2, <2>3 DEF Accept
<1>6. CASE HandshakeOk
  <2>1. NetDataOK'
    BY <1>6 DEF HandshakeOk, NetDataOK
  <2>. QED
    BY <1>6, <2>1 DEF HandshakeOk, ServerDataOK
<1>7. CASE ReadFails /\ ~Exit("sigpipe")
  <2>. DEFINE l == <<"tls", 400>>
  <2>1. out' = [out EXCEPT ![cur] = Append(@, l)] /\ cur \in Clients
    BY <1>7 DEF ReadFails
  <2>2. l \in Lines
    BY DEF Lines, Statuses
  <2>. HIDE DEF l
  <2>3. out' \in [Clients -> Seq(Lines)]
    BY <2>1, <2>2, AppendOut, Zenon DEF Extended
  <2>4. NetDataOK'
    BY <1>7, <2>3 DEF ReadFails, NetDataOK
  <2>. QED
    BY <1>7, <2>4 DEF ReadFails, ServerDataOK
<1>8. CASE ReadFails /\ Exit("sigpipe")
  BY <1>8, ExitType DEF Reasons
<1>9. CASE ParseOk
  <2>1. cur \in Clients /\ ReadFile(req[cur]) \in FileKinds
    BY <1>9, ReadFileKind DEF ParseOk
  <2>2. todo' \in Seq(Statuses)
    BY <1>9, <2>1, DecidedLines DEF ParseOk
  <2>3. fds' \in [Fds -> {"free", "socket", "listen", "worker", "file"}]
    BY <1>9 DEF ParseOk, LeaveOpen, ServerDataOK
  <2>4. NetDataOK'
    BY <1>9 DEF ParseOk, net, NetDataOK
  <2>. QED
    BY <1>9, <2>1, <2>2, <2>3, <2>4 DEF ParseOk, ServerDataOK
<1>10. CASE RouteWrite
  <2>1. Head(todo) \in Statuses /\ Tail(todo) \in Seq(Statuses)
    BY <1>10, HeadTailProperties DEF RouteWrite, ServerDataOK
  <2>2. <<"raw", Head(todo)>> \in Lines
    BY <2>1 DEF Lines
  <2>3. out' \in [Clients -> Seq(Lines)]
    BY <1>10, <2>2, AppendOut, Zenon DEF RouteWrite, Extended
  <2>4. NetDataOK'
    BY <1>10, <2>3 DEF RouteWrite, NetDataOK
  <2>. QED
    BY <1>10, <2>1, <2>4 DEF RouteWrite, ServerDataOK
<1>11. CASE CloseWorker
  <2>1. NetDataOK'
    BY <1>11 DEF CloseWorker, NetDataOK
  <2>. QED
    BY <1>11, <2>1 DEF CloseWorker, ServerDataOK
<1>. QED
  BY <1>1, <1>2, <1>3, <1>4, <1>5, <1>6, <1>7, <1>8, <1>9, <1>10, <1>11, Zenon
     DEF ServerStep

LEMMA ClientTypeStep ==
  ASSUME NetDataOK, ClientTypeOK, NEW c \in Clients, ClientStep(c)
  PROVE  NetDataOK' /\ ClientTypeOK'
<1>. USE DEF NetDataOK, ClientTypeOK
<1>1. CASE OpenConnection(c)
  <2>1. /\ Append(queue, c) \in Seq(Clients) /\ Len(Append(queue, c)) = Len(queue) + 1
        /\ Len(queue) \in Nat
    BY AppendProperties, LenProperties
  <2>. QED
    BY <1>1, <2>1, QueueAssumption DEF OpenConnection
<1>2. CASE OpenFails(c) \/ ConnectOk(c) \/ ShutdownSSL(c)
  BY <1>2 DEF OpenFails, ConnectOk, ShutdownSSL, net
<1>3. CASE ConnectFails(c) \/ SendFails(c) \/ ReadRaw(c) \/ ReadEnd(c) \/ Interrupt(c)
  <2>1. /\ Quit(c, "failed") \/ Quit(c, "error") \/ Quit(c, "response")
        /\ UNCHANGED <<queue, serverEnd, stream, req, out>>
    BY <1>3, Zenon DEF ConnectFails, SendFails, ReadRaw, ReadEnd, Interrupt
  <2>. QED
    BY <2>1 DEF Quit
<1>4. CASE SendSome(c)
  BY <1>4 DEF SendSome
<1>5. CASE SendRest(c)
  <2>1. clientEnd' \in [Clients -> {"none", "open", "shut", "closed"}]
    BY <1>5 DEF SendRest
  <2>. QED
    BY <1>5, <2>1 DEF SendRest
<1>. QED
  BY <1>1, <1>2, <1>3, <1>4, <1>5, Zenon DEF ClientStep

LEMMA TypeStep == TypeOK /\ CurInv /\ [Next]_vars => TypeOK' /\ CurInv'
<1>. SUFFICES ASSUME TypeOK, CurInv, [Next]_vars PROVE TypeOK' /\ CurInv'
  OBVIOUS
<1>. USE DEF TypeOK, NetTypeOK, ServerTypeOK
<1>1. NetFlagsOK' /\ fatal' \in BOOLEAN
  BY FlagsStep, Zenon
<1>2. CASE (ServerStep \/ Signal \/ LoopEnds) /\ UNCHANGED cli
  <2>1. ClientTypeOK'
    BY <1>2 DEF ClientTypeOK, cli
  <2>. QED
    BY <1>1, <1>2, <2>1, ServerTypeStep, Zenon
<1>3. ASSUME NEW c \in Clients, ClientStep(c), UNCHANGED proc PROVE TypeOK' /\ CurInv'
  <2>1. ServerDataOK' /\ CurInv'
    BY <1>3 DEF ServerDataOK, CurInv, proc
  <2>. QED
    BY <1>1, <1>3, <2>1, ClientTypeStep, Zenon
<1>4. CASE UNCHANGED vars
  <2>1. NetDataOK' /\ ClientTypeOK'
    BY <1>4 DEF NetDataOK, ClientTypeOK, vars, net, cli
  <2>2. ServerDataOK' /\ CurInv'
    BY <1>4 DEF ServerDataOK, CurInv, vars, proc
  <2>. QED
    BY <1>1, <2>1, <2>2, Zenon
<1>. QED
  BY <1>2, <1>3, <1>4, Zenon DEF Next, Finished

(* The server and its clients stay in their types, whatever the clients do. *)
THEOREM SystemTypeCorrect == Spec => []TypeOK
<1>. QED
  BY TypeInit, TypeStep, PTL DEF Spec

(* The byte parseRequest packs is composed as by the masks, for any requests. *)
THEOREM RequestPackedByMasks == Spec => []PackedByMasks
<1>1. PackedByMasks
  BY EncodersAreMasks DEF PackedByMasks
<1>. QED
  BY <1>1, PTL

-------------------------------------------------------------------------------
(* The descriptors. *)
LEMMA FdInit == Init => FdInv
BY DEF Init, ServerInit, FdInv, OneListener, Serving

LEMMA FdStep == TypeOK /\ FdInv /\ [Next]_vars => FdInv'
<1>. SUFFICES ASSUME TypeOK, FdInv, [Next]_vars PROVE FdInv'
  OBVIOUS
<1>. USE DEF FdInv, OneListener, Serving
<1>. fds \in [Fds -> {"free", "socket", "listen", "worker", "file"}]
  BY DEF TypeOK, ServerTypeOK, ServerDataOK
<1>1. ASSUME NEW reason, Exit(reason) PROVE FdInv'
  BY <1>1 DEF Exit
<1>2. CASE BootFails \/ AddrInfoFails \/ SetsockoptFails \/ NoAddress \/ ListenFails \/ HandshakeFails
           \/ ParseSegv \/ RouteSigpipe \/ RouteSegv \/ Signal
  BY <1>1, <1>2, Zenon DEF BootFails, AddrInfoFails, SetsockoptFails, NoAddress, ListenFails,
     HandshakeFails, ParseSegv, RouteSigpipe, RouteSegv, Signal
<1>3. CASE Boot \/ SocketFails \/ BindFails
  BY <1>3 DEF Boot, SocketFails, BindFails
<1>4. CASE BindOk
  BY <1>4 DEF BindOk
<1>5. CASE Listen
  BY <1>5 DEF Listen
<1>6. CASE Accept
  <2>1. PICK f \in Fds : /\ fds[f] = "free" /\ fds' = [fds EXCEPT ![f] = "worker"]
                         /\ worker_sock' = f
    BY <1>6 DEF Accept, FdFree
  <2>. QED
    BY <1>6, <2>1 DEF Accept
<1>7. CASE AcceptFails \/ HandshakeOk \/ ReadEof \/ ParseLoops \/ LoopEnds
           \/ RouteWrite \/ RouteReturn
  BY <1>7 DEF AcceptFails, HandshakeOk, ReadEof, ParseLoops, LoopEnds, RouteWrite,
     RouteReturn, proc
<1>8. CASE ReadFails
  BY <1>1, <1>8 DEF ReadFails
<1>9. CASE CloseWorker
  BY <1>9 DEF CloseWorker
<1>10. CASE ParseOk
  <2>1. /\ pc = "parse" /\ pc' = "route" /\ UNCHANGED <<listen_sock, worker_sock>>
        /\ \/ \E f \in Fds : fds[f] = "free" /\ fds' = [fds EXCEPT ![f] = "file"]
           \/ UNCHANGED fds
    BY <1>10, Zenon DEF ParseOk, LeaveOpen, FdFree
  <2>. QED
    BY <2>1
<1>11. CASE UNCHANGED proc
  BY <1>11 DEF proc
<1>. QED
  BY <1>2, <1>3, <1>4, <1>5, <1>6, <1>7, <1>8, <1>9, <1>10, <1>11, Zenon
     DEF Next, ServerStep, Finished, vars

(* No address that could not be bound and no client that was served leaves a
   descriptor behind: in accept the server holds its listening socket only. *)
THEOREM NoDescriptorLeak == Spec => []OneListener
<1>1. FdInv => OneListener
  BY DEF FdInv
<1>. QED
  BY <1>1, TypeInit, TypeStep, FdInit, FdStep, PTL DEF Spec

-------------------------------------------------------------------------------
(* The queue. *)
LEMMA QueueInit == Init => QueueInv
<1>. SUFFICES ASSUME Init PROVE QueueInv
  OBVIOUS
<1>1. DOMAIN queue = {}
  BY DEF Init, NetInit
<1>. QED
  BY <1>1, NoClientAssumption DEF Init, NetInit, ServerInit, ClientInit, QueueInv

LEMMA QueueStep == TypeOK /\ CurInv /\ QueueInv /\ [Next]_vars => QueueInv'
<1>. SUFFICES ASSUME TypeOK, CurInv, QueueInv, [Next]_vars PROVE QueueInv'
  OBVIOUS
<1>. USE DEF QueueInv
<1>. NetDataOK /\ ClientTypeOK
  BY DEF TypeOK, NetTypeOK
<1>0. /\ queue \in Seq(Clients) /\ Len(queue) \in Nat /\ DOMAIN queue = 1 .. Len(queue)
      /\ \A i \in DOMAIN queue : queue[i] \in Clients
  BY LenProperties, ElementOfSeq DEF NetDataOK
<1>1. ASSUME NEW reason, Exit(reason), UNCHANGED cli PROVE QueueInv'
  <2>1. DOMAIN queue' = {}
    BY <1>1 DEF Exit
  <2>. QED
    BY <1>1, <2>1 DEF Exit, cli
<1>2. CASE (BootFails \/ AddrInfoFails \/ SetsockoptFails \/ NoAddress \/ ListenFails \/ HandshakeFails
            \/ ParseSegv \/ RouteSigpipe \/ RouteSegv \/ Signal) /\ UNCHANGED cli
  BY <1>1, <1>2, Zenon DEF BootFails, AddrInfoFails, SetsockoptFails, NoAddress, ListenFails,
     HandshakeFails, ParseSegv, RouteSigpipe, RouteSegv, Signal
<1>3. CASE UNCHANGED <<queue, out, cpc, cur>>
  BY <1>3
<1>4. CASE (Boot \/ SocketFails \/ BindFails \/ BindOk \/ Listen \/ AcceptFails
            \/ HandshakeOk \/ ReadEof \/ ParseLoops \/ LoopEnds \/ ParseOk
            \/ RouteReturn) /\ UNCHANGED cli
  BY <1>3, <1>4, Zenon DEF Boot, SocketFails, BindFails, BindOk, Listen, AcceptFails,
     HandshakeOk, ReadEof, ParseLoops, LoopEnds, ParseOk, RouteReturn, net, proc, cli
<1>5. CASE Accept /\ UNCHANGED cli
  <2>1. /\ queue # <<>> /\ cur' = queue[1] /\ queue' = Tail(queue)
        /\ UNCHANGED <<out, cpc>>
    BY <1>5 DEF Accept, cli
  <2>2. /\ DOMAIN queue' = 1 .. Len(queue) - 1
        /\ \A i \in DOMAIN queue' : queue'[i] = queue[i + 1]
        /\ 1 \in DOMAIN queue
    BY <1>0, <2>1, HeadTailProperties, LenProperties, EmptySeq
  <2>. QED
    BY <1>0, <2>1, <2>2
<1>6. ASSUME NEW l \in Lines, cur \in Clients, out' = [out EXCEPT ![cur] = Append(@, l)],
             UNCHANGED <<queue, cpc, cur>>
      PROVE  QueueInv'
  <2>1. Extended(cur, l)
    BY <1>6, AppendOut, Zenon
  <2>. QED
    BY <1>0, <1>6, <2>1 DEF Extended
<1>7. CASE ReadFails /\ UNCHANGED cli
  <2>1. <<"tls", 400>> \in Lines
    BY DEF Lines, Statuses
  <2>. QED
    BY <1>1, <1>6, <1>7, <2>1 DEF ReadFails, CurInv, Serving, cli
<1>8. CASE RouteWrite /\ UNCHANGED cli
  <2>1. <<"raw", Head(todo)>> \in Lines
    BY <1>8, HeadTailProperties DEF RouteWrite, TypeOK, ServerTypeOK, ServerDataOK, Lines
  <2>. QED
    BY <1>6, <1>8, <2>1 DEF RouteWrite, CurInv, Serving, cli
<1>9. CASE CloseWorker /\ UNCHANGED cli
  BY <1>0, <1>9, NoClientAssumption DEF CloseWorker, cli
<1>10. ASSUME NEW c \in Clients, ClientStep(c), UNCHANGED proc PROVE QueueInv'
  <2>1. CASE OpenConnection(c)
    <3>1. /\ DOMAIN queue' = 1 .. Len(queue) + 1
          /\ \A i \in DOMAIN queue : queue'[i] = queue[i]
          /\ queue'[Len(queue) + 1] = c
      BY <1>0, <2>1, AppendProperties, LenProperties DEF OpenConnection
    <3>2. /\ cpc[c] = "start" /\ cpc' = [cpc EXCEPT ![c] = "connect"]
          /\ UNCHANGED <<out, cur>>
      BY <1>10, <2>1 DEF OpenConnection, proc
    <3>3. \A i \in DOMAIN queue : queue[i] # c
      BY <1>0, <3>2
    <3>4. \A i, j \in DOMAIN queue' : queue'[i] = queue'[j] => i = j
      BY <1>0, <3>1, <3>3
    <3>5. \A d \in Clients : cpc'[d] = IF d = c THEN "connect" ELSE cpc[d]
      BY <3>2 DEF ClientTypeOK
    <3>6. \A i \in DOMAIN queue' : /\ out'[queue'[i]] = <<>> /\ queue'[i] # cur'
                                   /\ cpc'[queue'[i]] # "start"
      <4>1. \A i \in DOMAIN queue' : i \in DOMAIN queue \/ queue'[i] = c
        BY <1>0, <3>1
      <4>. QED
        BY <1>0, <3>1, <3>2, <3>5, <4>1
    <3>. QED
      BY <3>2, <3>4, <3>5, <3>6
  <2>2. CASE ~OpenConnection(c)
    <3>1. /\ \/ \E s \in {"gone", "send", "sending", "wait"} : cpc' = [cpc EXCEPT ![c] = s]
             \/ cpc' = cpc
          /\ UNCHANGED <<queue, out, cur>>
      BY <1>10, <2>2, Zenon DEF ClientStep, OpenFails, ShutdownSSL, ConnectFails, ConnectOk,
         SendSome, SendRest, SendFails, ReadRaw, ReadEnd, Interrupt, Quit, net, proc
    <3>. QED
      BY <1>0, <3>1 DEF ClientTypeOK
  <2>. QED
    BY <2>1, <2>2
<1>11. CASE UNCHANGED vars
  BY <1>3, <1>11, Zenon DEF vars, net, proc, cli
<1>. QED
  BY <1>2, <1>4, <1>5, <1>7, <1>8, <1>9, <1>10, <1>11, Zenon DEF Next, ServerStep, Finished

-------------------------------------------------------------------------------
(* The status lines. *)
LEMMA VerdictInit == Init => VerdictInv
<1>. SUFFICES ASSUME Init PROVE VerdictInv
  OBVIOUS
<1>1. RawVerdict
  BY DEF Init, NetInit, RawVerdict
<1>. QED
  BY <1>1 DEF Init, ServerInit, VerdictInv, AnsweredBeforeClose

LEMMA VerdictStep == TypeOK /\ CurInv /\ QueueInv /\ VerdictInv /\ [Next]_vars => VerdictInv'
<1>. SUFFICES ASSUME TypeOK, CurInv, QueueInv, VerdictInv, [Next]_vars PROVE VerdictInv'
  OBVIOUS
<1>. NetDataOK /\ ServerDataOK
  BY DEF TypeOK, NetTypeOK, ServerTypeOK
<1>0. req' = req
  BY DEF Next, ServerStep, Signal, Exit, Boot, BootFails, AddrInfoFails, SocketFails, SetsockoptFails,
     BindFails, BindOk, NoAddress, ListenFails, Listen, AcceptFails, Accept, HandshakeOk,
     HandshakeFails, ReadEof, ReadFails, ParseOk, ParseSegv, ParseLoops, LoopEnds, RouteWrite, RouteSigpipe,
     RouteSegv, RouteReturn, CloseWorker, ClientStep, OpenConnection, OpenFails,
     ShutdownSSL, ConnectFails, ConnectOk, SendSome, SendRest, SendFails, ReadRaw, ReadEnd,
     Interrupt, Finished, vars, net
<1>1. out' = out => RawVerdict'
  BY <1>0 DEF VerdictInv, RawVerdict, FirstRaw
<1>2. ASSUME NEW reason, Exit(reason) PROVE VerdictInv'
  BY <1>1, <1>2 DEF Exit, VerdictInv, AnsweredBeforeClose
<1>3. CASE BootFails \/ AddrInfoFails \/ SetsockoptFails \/ NoAddress \/ ListenFails \/ HandshakeFails
           \/ ParseSegv \/ RouteSigpipe \/ RouteSegv \/ Signal
  BY <1>2, <1>3, Zenon DEF BootFails, AddrInfoFails, SetsockoptFails, NoAddress, ListenFails,
     HandshakeFails, ParseSegv, RouteSigpipe, RouteSegv, Signal
<1>4. CASE Boot \/ SocketFails \/ BindFails \/ BindOk \/ Listen \/ CloseWorker
  BY <1>1, <1>4 DEF Boot, SocketFails, BindFails, BindOk, Listen, CloseWorker, net,
     VerdictInv, AnsweredBeforeClose
<1>5. CASE UNCHANGED <<pc, out, cur, todo, fatal>>
  <2>1. NoRaw(cur)' <=> NoRaw(cur)
    BY <1>5, Zenon DEF NoRaw
  <2>2. AnsweredBeforeClose
    BY DEF VerdictInv
  <2>3. AnsweredBeforeClose'
    BY <1>5, <2>2, Zenon DEF AnsweredBeforeClose
  <2>. QED
    BY <1>0, <1>1, <1>5, <2>1, <2>3 DEF VerdictInv
<1>6. CASE Accept
  <2>1. out[cur'] = <<>>
    <3>1. 1 \in DOMAIN queue /\ cur' = queue[1]
      BY <1>6, LenProperties, EmptySeq DEF Accept, NetDataOK
    <3>. QED
      BY <3>1 DEF QueueInv
  <2>. QED
    BY <1>1, <1>6, <2>1 DEF Accept, VerdictInv, AnsweredBeforeClose
<1>7. CASE HandshakeOk \/ ReadEof
  <2>1. out[cur] = <<>> /\ UNCHANGED <<out, cur>> /\ pc' \in {"read", "parse"}
    BY <1>7 DEF HandshakeOk, ReadEof, net, VerdictInv
  <2>2. NoRaw(cur)'
    BY <2>1 DEF NoRaw
  <2>. QED
    BY <1>1, <2>1, <2>2 DEF VerdictInv, AnsweredBeforeClose
<1>7a. CASE ParseLoops \/ LoopEnds
  <2>1. NoRaw(cur) /\ UNCHANGED <<out, cur>> /\ pc' \in {"loop", "parse"}
    BY <1>7a DEF ParseLoops, LoopEnds, net, VerdictInv
  <2>2. NoRaw(cur)'
    BY <2>1 DEF NoRaw
  <2>. QED
    BY <1>1, <2>1, <2>2 DEF VerdictInv, AnsweredBeforeClose
<1>8. CASE ReadFails /\ ~Exit("sigpipe")
  <2>. DEFINE l == <<"tls", 400>>
  <2>1. /\ pc' = "parse" /\ cur' = cur /\ cur \in Clients /\ out[cur] = <<>>
        /\ out' = [out EXCEPT ![cur] = Append(@, l)]
    BY <1>8 DEF ReadFails, CurInv, Serving, VerdictInv
  <2>2. l \in Lines /\ l[1] # "raw"
    BY DEF Lines, Statuses
  <2>. HIDE DEF l
  <2>3. /\ \A d \in Clients \ {cur} : out'[d] = out[d]
        /\ DOMAIN out'[cur] = 1 .. 1 /\ out'[cur][1] = l
    <3>1. Len(out[cur]) = 0
      BY <2>1
    <3>2. /\ \A d \in Clients \ {cur} : out'[d] = out[d]
          /\ DOMAIN out'[cur] = 1 .. Len(out[cur]) + 1
          /\ out'[cur][Len(out[cur]) + 1] = l
      BY <2>1, <2>2, AppendOut, Zenon DEF Extended
    <3>. QED
      BY <3>1, <3>2
  <2>4. NoRaw(cur)'
    BY <2>1, <2>2, <2>3 DEF NoRaw
  <2>5. RawVerdict'
    BY <1>0, <2>1, <2>2, <2>3 DEF RawVerdict, FirstRaw, VerdictInv
  <2>. QED
    BY <2>1, <2>4, <2>5 DEF VerdictInv, AnsweredBeforeClose
<1>9. CASE ReadFails /\ Exit("sigpipe")
  BY <1>2, <1>9
<1>10. CASE ParseOk
  <2>. DEFINE r == req[cur]
              file == ReadFile(r)
  <2>1. cur \in Clients /\ file \in FileKinds
    BY <1>10, ReadFileKind DEF ParseOk, CurInv, Serving
  <2>2. /\ pc' = "route" /\ UNCHANGED <<out, cur>>
        /\ todo' = Refusals(Info(r)) \o Answer(Info(r), file)
        /\ fatal' = Segfaults(Info(r), file)
    BY <1>10, Zenon DEF ParseOk, net
  <2>3. /\ todo' # <<>> => (todo'[1] = 400 <=> ~Supported(req[cur]))
        /\ todo' = <<>> => fatal'
    <3>. DEFINE t == Refusals(Info(r)) \o Answer(Info(r), file)
    <3>1. /\ t # <<>> => (t[1] = 400 <=> ~Supported(r))
          /\ t = <<>> => Segfaults(Info(r), file)
      BY <2>1, DecidedLines
    <3>. QED
      BY <2>2, <3>1, Zenon
  <2>. QED
    BY <1>0, <1>1, <2>2, <2>3 DEF VerdictInv, AnsweredBeforeClose
<1>11. CASE RouteWrite
  <2>1. /\ pc = "route" /\ pc' = "route" /\ cur' = cur /\ cur \in Clients
        /\ todo # <<>> /\ Head(todo) = todo[1]
        /\ out' = [out EXCEPT ![cur] = Append(@, <<"raw", Head(todo)>>)]
    BY <1>11 DEF RouteWrite, CurInv, Serving
  <2>2. <<"raw", Head(todo)>> \in Lines
    BY <2>1, HeadTailProperties DEF ServerDataOK, Lines
  <2>. DEFINE n == Len(out[cur])
  <2>3. /\ \A d \in Clients \ {cur} : out'[d] = out[d]
        /\ DOMAIN out[cur] = 1 .. n /\ n \in Nat /\ DOMAIN out'[cur] = 1 .. n + 1
        /\ \A i \in 1 .. n : out'[cur][i] = out[cur][i]
        /\ out'[cur][n + 1] = <<"raw", Head(todo)>>
    BY <2>1, <2>2, AppendOut, Zenon DEF Extended
  <2>. HIDE DEF n
  <2>4. ~NoRaw(cur)'
    BY <2>1, <2>3 DEF NoRaw
  <2>5. RawVerdict'
    <3>. SUFFICES ASSUME NEW c \in Clients, NEW i \in DOMAIN out'[c], FirstRaw(c, i)'
                  PROVE  out'[c][i][2] = 400 <=> ~Supported(req'[c])
      BY DEF RawVerdict
    <3>1. CASE c # cur
      <4>1. FirstRaw(c, i) /\ i \in DOMAIN out[c] /\ out'[c] = out[c]
        BY <2>3, <3>1 DEF FirstRaw
      <4>. QED
        BY <1>0, <4>1 DEF VerdictInv, RawVerdict
    <3>2. CASE c = cur /\ i <= n
      <4>1. i \in 1 .. n /\ \A j \in 1 .. i - 1 : j \in 1 .. n
        BY <2>3, <3>2
      <4>2. FirstRaw(c, i) /\ i \in DOMAIN out[c]
        BY <2>3, <3>2, <4>1 DEF FirstRaw
      <4>. QED
        BY <1>0, <2>3, <3>2, <4>1, <4>2 DEF VerdictInv, RawVerdict
    <3>3. CASE c = cur /\ i = n + 1
      <4>0. \A j \in 1 .. i - 1 : out'[cur][j][1] # "raw"
        BY <2>1, <3>3, Zenon DEF FirstRaw
      <4>1. NoRaw(cur)
        <5>1. i - 1 = n
          BY <2>3, <3>3
        <5>2. \A j \in 1 .. n : out'[cur][j] = out[cur][j] /\ out'[cur][j][1] # "raw"
          BY <2>3, <4>0, <5>1, Zenon
        <5>3. DOMAIN out[cur] = 1 .. n
          BY <2>3, Zenon
        <5>. QED
          BY <5>2, <5>3 DEF NoRaw
      <4>2. todo[1] = 400 <=> ~Supported(req[cur])
        BY <2>1, <4>1 DEF VerdictInv
      <4>3. out'[c][i][2] = todo[1]
        BY <2>1, <2>3, <3>3
      <4>. QED
        BY <1>0, <3>3, <4>2, <4>3, Zenon
    <3>. QED
      BY <2>3, <3>1, <3>2, <3>3
  <2>. QED
    BY <2>1, <2>4, <2>5 DEF VerdictInv, AnsweredBeforeClose
<1>12. CASE RouteReturn
  <2>1. ~NoRaw(cur) /\ UNCHANGED <<out, cur>> /\ pc' = "close"
    BY <1>12 DEF RouteReturn, net, VerdictInv
  <2>. QED
    BY <1>1, <2>1 DEF VerdictInv, AnsweredBeforeClose, NoRaw
<1>13. CASE AcceptFails
  BY <1>5, <1>13, Zenon DEF AcceptFails, net, proc
<1>14. ASSUME NEW c \in Clients, ClientStep(c), UNCHANGED proc PROVE VerdictInv'
  <2>1. UNCHANGED <<out, pc, cur, todo, fatal>>
    BY <1>14, Zenon DEF ClientStep, OpenConnection, OpenFails, ShutdownSSL, ConnectFails, ConnectOk,
       SendSome, SendRest, SendFails, ReadRaw, ReadEnd, Interrupt, net, proc
  <2>. QED
    BY <1>5, <2>1, Zenon
<1>15. CASE UNCHANGED vars
  BY <1>5, <1>15, Zenon DEF vars, net, proc
<1>. QED
  BY <1>3, <1>4, <1>6, <1>7, <1>7a, <1>8, <1>9, <1>10, <1>11, <1>12, <1>13, <1>14, <1>15, Zenon
     DEF Next, ServerStep, Finished

LEMMA StatusLines == Spec => []VerdictInv
<1>. QED
  BY TypeInit, TypeStep, QueueInit, QueueStep, VerdictInit, VerdictStep, PTL DEF Spec

-------------------------------------------------------------------------------
(* The files readFile leaves open.  A 404 among the lines s: *)
Has404(s) == \E i \in DOMAIN s : s[i] = 404

LEMMA ConcatHas404 ==
  ASSUME NEW x \in Seq(Statuses), NEW y \in Seq(Statuses)
  PROVE  Has404(x \o y) <=> Has404(x) \/ Has404(y)
<1>1. /\ x \o y \in Seq(Statuses) /\ Len(x \o y) = Len(x) + Len(y)
      /\ \A i \in 1 .. Len(x) + Len(y) :
           (x \o y)[i] = IF i <= Len(x) THEN x[i] ELSE y[i - Len(x)]
  BY ConcatProperties, LenProperties
<1>2. /\ Len(x) \in Nat /\ DOMAIN x = 1 .. Len(x) /\ Len(y) \in Nat /\ DOMAIN y = 1 .. Len(y)
      /\ DOMAIN (x \o y) = 1 .. Len(x) + Len(y)
  BY <1>1, LenProperties
<1>3. ASSUME NEW i \in DOMAIN x, x[i] = 404 PROVE Has404(x \o y)
  BY <1>1, <1>2, <1>3 DEF Has404
<1>4. ASSUME NEW i \in DOMAIN y, y[i] = 404 PROVE Has404(x \o y)
  <2>1. i + Len(x) \in DOMAIN (x \o y) /\ (x \o y)[i + Len(x)] = y[i]
    BY <1>1, <1>2
  <2>. QED
    BY <1>4, <2>1 DEF Has404
<1>5. ASSUME NEW i \in DOMAIN (x \o y), (x \o y)[i] = 404 PROVE Has404(x) \/ Has404(y)
  <2>1. CASE i <= Len(x)
    BY <1>1, <1>2, <1>5, <2>1 DEF Has404
  <2>2. CASE ~(i <= Len(x))
    <3>1. i - Len(x) \in DOMAIN y /\ y[i - Len(x)] = 404
      BY <1>1, <1>2, <1>5, <2>2
    <3>. QED
      BY <3>1 DEF Has404
  <2>. QED
    BY <2>1, <2>2
<1>. QED
  BY <1>3, <1>4, <1>5 DEF Has404

(* Parsing decides on a 404 exactly for a GET whose file reads as -1. *)
LEMMA Decided404 ==
  ASSUME NEW i, NEW file \in FileKinds
  PROVE  Has404(Refusals(i) \o Answer(i, file))
           <=> decodeMethod(i) = 1 /\ file \in {"error", "minus"}
<1>1. Refusals(i) \in Seq({400}) /\ Refusals(i) \in Seq(Statuses) /\ Answer(i, file) \in Seq(Statuses)
  BY RefusalsShape, AnswerShape, SeqMonotonic, {400} \subseteq Statuses DEF Statuses
<1>2. ~Has404(Refusals(i))
  <2>1. \A j \in DOMAIN Refusals(i) : Refusals(i)[j] \in {400}
    BY <1>1, ElementOfSeq, LenProperties
  <2>. QED
    BY <2>1 DEF Has404
<1>3. /\ Has404(<<404>>) /\ ~Has404(<<>>) /\ ~Has404(<<200, 500>>) /\ ~Has404(<<200>>)
      /\ ~Has404(<<500>>)
  BY DEF Has404
<1>4. Has404(Answer(i, file)) <=> decodeMethod(i) = 1 /\ file \in {"error", "minus"}
  <2>1. CASE decodeMethod(i) = 1
    <3>1. /\ file = "missing" => Answer(i, file) = <<>>
          /\ file \in {"error", "minus"} => Answer(i, file) = <<404>>
          /\ file = "empty" => Answer(i, file) = <<200, 500>>
          /\ file = "text" => Answer(i, file) = <<200>>
      BY <2>1 DEF Answer
    <3>. QED
      BY <1>3, <2>1, <3>1 DEF FileKinds
  <2>2. CASE decodeMethod(i) # 1
    <3>1. Answer(i, file) = <<200, 500>> \/ Answer(i, file) = <<500>>
      BY <2>2 DEF Answer
    <3>. QED
      BY <1>3, <2>2, <3>1
  <2>. QED
    BY <2>1, <2>2
<1>. QED
  BY <1>1, <1>2, <1>4, ConcatHas404

OpenFiles == {f \in Fds : fds[f] = "file"}

(* c was refused a file that could not be read, or is about to be told so. *)
Refused(c) == /\ req[c].file = "error"
              /\ NotFound(c) \/ (c = cur /\ pc = "route" /\ Has404(todo))

RefusedClients == {c \in Clients : Refused(c)}

(* Clients may be an infinite set, of which finitely many have been served. *)
FileInv ==
  pc # "exit" => /\ IsFiniteSet(OpenFiles) /\ IsFiniteSet(RefusedClients)
                 /\ Cardinality(OpenFiles) = Cardinality(RefusedClients)

(* Writing the line l to c. *)
LEMMA ExtendedNotFound ==
  ASSUME NEW c \in Clients, NEW l, Extended(c, l)
  PROVE  /\ NotFound(c)' <=> NotFound(c) \/ l = <<"raw", 404>>
         /\ \A d \in Clients \ {c} : NotFound(d)' <=> NotFound(d)
<1>. DEFINE n == Len(out[c])
            x == <<"raw", 404>>
<1>1. /\ \A d \in Clients \ {c} : out'[d] = out[d]
      /\ DOMAIN out[c] = 1 .. n /\ n \in Nat
      /\ DOMAIN out'[c] = 1 .. n + 1
      /\ \A i \in 1 .. n : out'[c][i] = out[c][i]
      /\ out'[c][n + 1] = l
  BY Zenon DEF Extended
<1>2. \A d : /\ NotFound(d) <=> \E i \in DOMAIN out[d] : out[d][i] = x
             /\ NotFound(d)' <=> \E i \in DOMAIN out'[d] : out'[d][i] = x
  BY Zenon DEF NotFound
<1>. HIDE DEF n, x
<1>3. (\E i \in DOMAIN out'[c] : out'[c][i] = x) <=> (\E i \in DOMAIN out[c] : out[c][i] = x) \/ l = x
  BY <1>1
<1>4. \A d \in Clients \ {c} : NotFound(d)' <=> NotFound(d)
  BY <1>1, <1>2, Zenon
<1>. QED
  BY <1>2, <1>3, <1>4, Zenon DEF x

LEMMA FileInit == Init => FileInv
<1>. SUFFICES ASSUME Init PROVE FileInv
  OBVIOUS
<1>1. OpenFiles = {}
  BY DEF Init, ServerInit, OpenFiles
<1>2. RefusedClients = {}
  BY DEF Init, ServerInit, NetInit, RefusedClients, Refused, NotFound
<1>. QED
  BY <1>1, <1>2, FS_EmptySet DEF FileInv

LEMMA FileStep ==
  TypeOK /\ CurInv /\ FdInv /\ VerdictInv /\ FileInv /\ [Next]_vars => FileInv'
<1>. SUFFICES ASSUME TypeOK, CurInv, FdInv, VerdictInv, FileInv, [Next]_vars PROVE FileInv'
  OBVIOUS
<1>. NetDataOK /\ ServerDataOK
  BY DEF TypeOK, NetTypeOK, ServerTypeOK
<1>0. req' = req
  BY DEF Next, ServerStep, Signal, Exit, Boot, BootFails, AddrInfoFails, SocketFails, SetsockoptFails,
     BindFails, BindOk, NoAddress, ListenFails, Listen, AcceptFails, Accept, HandshakeOk,
     HandshakeFails, ReadEof, ReadFails, ParseOk, ParseSegv, ParseLoops, LoopEnds, RouteWrite, RouteSigpipe,
     RouteSegv, RouteReturn, CloseWorker, ClientStep, OpenConnection, OpenFails,
     ShutdownSSL, ConnectFails, ConnectOk, SendSome, SendRest, SendFails, ReadRaw, ReadEnd,
     Interrupt, Finished, vars, net
<1>1. ASSUME NEW reason, Exit(reason) PROVE FileInv'
  BY <1>1 DEF Exit, FileInv
<1>2. CASE BootFails \/ AddrInfoFails \/ SetsockoptFails \/ NoAddress \/ ListenFails \/ HandshakeFails
           \/ ParseSegv \/ RouteSigpipe \/ RouteSegv \/ Signal
  BY <1>1, <1>2, Zenon DEF BootFails, AddrInfoFails, SetsockoptFails, NoAddress, ListenFails,
     HandshakeFails, ParseSegv, RouteSigpipe, RouteSegv, Signal
<1>3. ASSUME pc # "exit", OpenFiles' = OpenFiles, RefusedClients' = RefusedClients PROVE FileInv'
  BY <1>3 DEF FileInv
<1>4. fds' = fds => OpenFiles' = OpenFiles
  BY DEF OpenFiles
<1>5. ASSUME NEW f \in Fds, NEW kind, fds[f] # "file", kind # "file",
             fds' = [fds EXCEPT ![f] = kind]
      PROVE  OpenFiles' = OpenFiles
  BY <1>5 DEF OpenFiles, ServerDataOK
(* The lines of a client served before and the ones to come are unchanged. *)
<1>6. ASSUME out' = out, ~(pc = "route" /\ Has404(todo)), ~(pc' = "route" /\ Has404(todo'))
      PROVE  RefusedClients' = RefusedClients
  <2>1. \A c \in Clients : Refused(c)' <=> Refused(c)
    BY <1>0, <1>6 DEF Refused, NotFound
  <2>. QED
    BY <2>1 DEF RefusedClients
<1>7. CASE Boot \/ SocketFails \/ BindFails \/ HandshakeOk \/ ReadEof \/ ParseLoops \/ LoopEnds
  <2>1. UNCHANGED <<out, fds>> /\ pc \notin {"exit", "route"} /\ pc' # "route"
    BY <1>7 DEF Boot, SocketFails, BindFails, HandshakeOk, ReadEof, ParseLoops, LoopEnds, net
  <2>. QED
    BY <1>3, <1>4, <1>6, <2>1
<1>8. CASE BindOk \/ Accept
  <2>1. /\ out' = out /\ pc \notin {"exit", "route"} /\ pc' # "route"
        /\ \E f \in Fds : /\ fds[f] = "free"
                          /\ \E kind \in {"socket", "worker"} : fds' = [fds EXCEPT ![f] = kind]
    BY <1>8 DEF BindOk, Accept, FdFree, net
  <2>2. OpenFiles' = OpenFiles
    BY <1>5, <2>1
  <2>. QED
    BY <1>3, <1>6, <2>1, <2>2
<1>9. CASE Listen
  <2>1. /\ out' = out /\ pc = "listen" /\ pc' = "accept"
        /\ listen_sock \in Fds /\ fds[listen_sock] = "socket"
        /\ fds' = [fds EXCEPT ![listen_sock] = "listen"]
    BY <1>9 DEF Listen, FdInv
  <2>2. OpenFiles' = OpenFiles
    BY <1>5, <2>1
  <2>. QED
    BY <1>3, <1>6, <2>1, <2>2
<1>10. CASE CloseWorker
  <2>1. /\ out' = out /\ pc = "close" /\ pc' = "accept"
        /\ worker_sock \in Fds /\ fds[worker_sock] = "worker"
        /\ fds' = [fds EXCEPT ![worker_sock] = "free"]
    BY <1>10 DEF CloseWorker, FdInv, Serving
  <2>2. OpenFiles' = OpenFiles
    BY <1>5, <2>1
  <2>. QED
    BY <1>3, <1>6, <2>1, <2>2
<1>11. CASE RouteReturn
  <2>1. UNCHANGED <<out, fds>> /\ pc = "route" /\ pc' = "close" /\ todo = <<>>
    BY <1>11 DEF RouteReturn, net
  <2>2. ~Has404(todo)
    BY <2>1 DEF Has404
  <2>. QED
    BY <1>3, <1>4, <1>6, <2>1, <2>2
<1>12. CASE ReadFails /\ ~Exit("sigpipe")
  <2>. DEFINE l == <<"tls", 400>>
  <2>1. /\ pc = "read" /\ pc' = "parse" /\ cur \in Clients /\ fds' = fds
        /\ out' = [out EXCEPT ![cur] = Append(@, l)]
    BY <1>12 DEF ReadFails, CurInv, Serving
  <2>2. l \in Lines /\ l # <<"raw", 404>>
    BY DEF Lines, Statuses
  <2>. HIDE DEF l
  <2>3. Extended(cur, l)
    BY <2>1, <2>2, AppendOut, Zenon
  <2>4. PICK k \in Clients : k = cur
    BY <2>1
  <2>4a. \A c \in Clients : NotFound(c)' <=> NotFound(c)
    BY <2>2, <2>3, <2>4, ExtendedNotFound
  <2>5. RefusedClients' = RefusedClients
    BY <1>0, <2>1, <2>4a DEF RefusedClients, Refused
  <2>. QED
    BY <1>3, <1>4, <2>1, <2>5
<1>13. CASE ReadFails /\ Exit("sigpipe")
  BY <1>1, <1>13
<1>14. CASE ParseOk
  <2>. DEFINE i == Info(req[cur])
              file == ReadFile(req[cur])
  <2>1. cur \in Clients /\ file \in FileKinds
    BY <1>14, ReadFileKind DEF ParseOk, CurInv, Serving
  <2>2. /\ pc = "parse" /\ pc' = "route" /\ UNCHANGED <<out, cur>>
        /\ todo' = Refusals(i) \o Answer(i, file) /\ LeaveOpen(i, file)
    BY <1>14, Zenon DEF ParseOk, net
  <2>3. Has404(todo)' <=> decodeMethod(i) = 1 /\ file \in {"error", "minus"}
    <3>1. Has404(Refusals(i) \o Answer(i, file)) <=> decodeMethod(i) = 1 /\ file \in {"error", "minus"}
      BY <2>1, Decided404
    <3>. QED
      BY <2>2, <3>1, Zenon DEF Has404
  <2>4. PICK k \in Clients : k = cur
    BY <2>1
  <2>4a. ~NotFound(k) /\ ~NotFound(k)'
    BY <2>2, <2>4 DEF VerdictInv, NoRaw, NotFound
  <2>5. \A c \in Clients \ {k} : Refused(c)' <=> Refused(c)
    BY <1>0, <2>2, <2>4 DEF Refused, NotFound
  <2>6. ~Refused(k)
    BY <2>2, <2>4a DEF Refused
  <2>7. Refused(k)' <=> req[k].file = "error" /\ Has404(todo)'
    BY <1>0, <2>2, <2>4, <2>4a DEF Refused
  <2>8. file \in {"missing", req[cur].file}
    BY DEF ReadFile
  <2>9. CASE decodeMethod(i) = 1 /\ file = "error"
    <3>1. PICK f \in Fds : fds[f] = "free" /\ fds' = [fds EXCEPT ![f] = "file"]
      BY <2>2, <2>9 DEF LeaveOpen, FdFree
    <3>2. OpenFiles' = OpenFiles \cup {f} /\ f \notin OpenFiles
      BY <3>1 DEF OpenFiles, ServerDataOK
    <3>3. RefusedClients' = RefusedClients \cup {k} /\ k \notin RefusedClients
      <4>1. Refused(k)'
        BY <2>3, <2>4, <2>7, <2>8, <2>9
      <4>. QED
        BY <2>5, <2>6, <4>1 DEF RefusedClients
    <3>. QED
      <4>1. /\ IsFiniteSet(OpenFiles) /\ IsFiniteSet(RefusedClients)
            /\ Cardinality(OpenFiles) = Cardinality(RefusedClients)
        BY <2>2 DEF FileInv
      <4>2. IsFiniteSet(OpenFiles') /\ Cardinality(OpenFiles') = Cardinality(OpenFiles) + 1
        BY <3>2, <4>1, FS_AddElement
      <4>3. /\ IsFiniteSet(RefusedClients')
            /\ Cardinality(RefusedClients') = Cardinality(RefusedClients) + 1
        BY <3>3, <4>1, FS_AddElement
      <4>. QED
        BY <4>1, <4>2, <4>3 DEF FileInv
  <2>10. CASE ~(decodeMethod(i) = 1 /\ file = "error")
    <3>1. fds' = fds
      BY <2>2, <2>10 DEF LeaveOpen
    <3>2. ~Refused(k)'
      BY <2>3, <2>4, <2>7, <2>8, <2>10
    <3>3. RefusedClients' = RefusedClients
      BY <2>5, <2>6, <3>2 DEF RefusedClients
    <3>. QED
      BY <1>3, <1>4, <2>2, <3>1, <3>3
  <2>. QED
    BY <2>9, <2>10
<1>15. CASE RouteWrite
  <2>. DEFINE l == <<"raw", Head(todo)>>
  <2>1. /\ pc = "route" /\ pc' = "route" /\ UNCHANGED <<cur, fds>> /\ cur \in Clients
        /\ todo # <<>> /\ todo' = Tail(todo)
        /\ out' = [out EXCEPT ![cur] = Append(@, l)]
    BY <1>15 DEF RouteWrite, CurInv, Serving
  <2>2. l \in Lines /\ (l = <<"raw", 404>> <=> Head(todo) = 404)
    BY <2>1, HeadTailProperties DEF ServerDataOK, Lines
  <2>. HIDE DEF l
  <2>3. Extended(cur, l)
    BY <2>1, <2>2, AppendOut, Zenon
  <2>4. PICK k \in Clients : k = cur
    BY <2>1
  <2>5. /\ \A c \in Clients \ {k} : NotFound(c)' <=> NotFound(c)
        /\ NotFound(k)' <=> NotFound(k) \/ Head(todo) = 404
    BY <2>2, <2>3, <2>4, ExtendedNotFound
  <2>6. Has404(todo) <=> Head(todo) = 404 \/ Has404(todo)'
    <3>1. /\ Len(todo) \in Nat \ {0} /\ DOMAIN todo = 1 .. Len(todo) /\ Head(todo) = todo[1]
          /\ DOMAIN todo' = 1 .. Len(todo) - 1
          /\ \A j \in 1 .. Len(todo) - 1 : todo'[j] = todo[j + 1]
      BY <2>1, HeadTailProperties, LenProperties, EmptySeq DEF ServerDataOK
    <3>2. ASSUME NEW j \in DOMAIN todo, todo[j] = 404 PROVE Head(todo) = 404 \/ Has404(todo)'
      <4>1. CASE j = 1
        BY <3>1, <3>2, <4>1
      <4>2. CASE j # 1
        <5>1. j - 1 \in DOMAIN todo' /\ todo'[j - 1] = 404
          BY <3>1, <3>2, <4>2
        <5>. QED
          BY <5>1 DEF Has404
      <4>. QED
        BY <4>1, <4>2
    <3>3. ASSUME NEW j \in DOMAIN todo', todo'[j] = 404 PROVE Has404(todo)
      <4>1. j + 1 \in DOMAIN todo /\ todo[j + 1] = 404
        BY <3>1, <3>3
      <4>. QED
        BY <4>1 DEF Has404
    <3>4. Head(todo) = 404 => Has404(todo)
      BY <3>1 DEF Has404
    <3>. QED
      BY <3>2, <3>3, <3>4 DEF Has404
  <2>7. RefusedClients' = RefusedClients
    <3>1. \A c \in Clients : Refused(c)' <=> Refused(c)
      BY <1>0, <2>1, <2>4, <2>5, <2>6 DEF Refused
    <3>. QED
      BY <3>1 DEF RefusedClients
  <2>. QED
    BY <1>3, <1>4, <2>1, <2>7
<1>16. CASE UNCHANGED <<pc, out, cur, todo, fds>>
  <2>1. \A c \in Clients : Refused(c)' <=> Refused(c)
    BY <1>0, <1>16 DEF Refused, NotFound, Has404
  <2>2. RefusedClients' = RefusedClients /\ OpenFiles' = OpenFiles
    BY <1>4, <1>16, <2>1 DEF RefusedClients
  <2>. QED
    BY <1>3, <1>16, <2>2 DEF FileInv
<1>17. CASE AcceptFails \/ UNCHANGED vars
  BY <1>16, <1>17, Zenon DEF AcceptFails, vars, net, proc
<1>18. ASSUME NEW c \in Clients, ClientStep(c), UNCHANGED proc PROVE FileInv'
  <2>1. UNCHANGED <<pc, out, cur, todo, fds>>
    BY <1>18, Zenon DEF ClientStep, OpenConnection, OpenFails, ShutdownSSL, ConnectFails, ConnectOk,
       SendSome, SendRest, SendFails, ReadRaw, ReadEnd, Interrupt, net, proc
  <2>. QED
    BY <1>16, <2>1, Zenon
<1>. QED
  BY <1>2, <1>7, <1>8, <1>9, <1>10, <1>11, <1>12, <1>13, <1>14, <1>15, <1>17, <1>18, Zenon
     DEF Next, ServerStep, Finished

(* The files main has open in accept are as many as the clients that were
   refused a file readFile could not read, for any clients, requests and limit
   on the descriptors: no other request uses one up for good. *)
THEOREM OnlyErrorsStayOpen == Spec => []FilesOpenAreErrors
<1>1. FileInv => FilesOpenAreErrors
  <2>. SUFFICES ASSUME FileInv, pc = "accept"
                PROVE  Cardinality({f \in Fds : fds[f] = "file"}) = Cardinality(Unread)
    BY DEF FilesOpenAreErrors
  <2>1. RefusedClients = Unread
    BY DEF RefusedClients, Refused, Unread
  <2>. QED
    BY <2>1 DEF FileInv, OpenFiles
<1>. QED
  BY <1>1, TypeInit, TypeStep, FdInit, FdStep, QueueInit, QueueStep, VerdictInit, VerdictStep,
     FileInit, FileStep, PTL DEF Spec

-------------------------------------------------------------------------------
(* Why the server ends. *)
HandshakeCause == clientEnd[cur] = "closed" \/ cur \notin WithCert \/ Exhausted
SegvCause == \/ stream[cur] # "full" \/ req[cur].head = "loose"
             \/ req[cur].method = "GET" /\ req[cur].file \in {"missing", "text"}

(* A client that has closed its side sends nothing more, and main parses only
   what such a client has sent; the descriptor the handshake had to spare is
   still there when readFile wants one; what ended the process stays true. *)
EndInv ==
  /\ \A c \in Clients : AtEof(c) => cpc[c] \notin {"start", "send", "sending"}
  /\ pc \in {"parse", "loop", "route", "close"} => AtEof(cur)
  /\ pc \in {"read", "parse", "loop"} => SpareFd
  /\ pc = "route" /\ fatal => SegvCause
  /\ why \in {"handshake", "sigpipe", "segv"} => pc = "exit" /\ cur \in Clients
  /\ why = "handshake" => HandshakeCause
  /\ why = "sigpipe" => clientEnd[cur] = "closed"
  /\ why = "segv" => AtEof(cur) /\ SegvCause

LEMMA EndInit == Init => EndInv
BY DEF Init, NetInit, ServerInit, ClientInit, EndInv, AtEof

(* With no descriptor to spare all but two are files that were left open. *)
LEMMA NoneSpare ==
  ASSUME TypeOK, FdInv, FileInv, pc = "handshake", ~SpareFd
  PROVE  Exhausted
<1>1. /\ listen_sock \in Fds /\ worker_sock \in Fds /\ listen_sock # worker_sock
      /\ fds[listen_sock] = "listen" /\ fds[worker_sock] = "worker"
      /\ \A f \in Fds \ {listen_sock, worker_sock} : fds[f] \in {"free", "file"}
  BY DEF FdInv, Serving
<1>2. \A f \in Fds : fds[f] # "free"
  BY DEF SpareFd
<1>3. Fds = (OpenFiles \cup {listen_sock}) \cup {worker_sock}
  BY <1>1, <1>2 DEF OpenFiles
<1>4. listen_sock \notin OpenFiles /\ worker_sock \notin OpenFiles \cup {listen_sock}
  BY <1>1 DEF OpenFiles
<1>5. /\ IsFiniteSet(OpenFiles) /\ Cardinality(OpenFiles) \in Nat
      /\ Cardinality(OpenFiles) = Cardinality(RefusedClients)
  BY FS_CardinalityType DEF FileInv
<1>6. /\ IsFiniteSet(OpenFiles \cup {listen_sock})
      /\ Cardinality(OpenFiles \cup {listen_sock}) = Cardinality(OpenFiles) + 1
  BY <1>4, <1>5, FS_AddElement
<1>7. Cardinality(Fds) = Cardinality(OpenFiles) + 1 + 1
  BY <1>3, <1>4, <1>6, FS_AddElement
<1>8. RefusedClients = Unread
  BY DEF RefusedClients, Refused, Unread
<1>. QED
  BY <1>5, <1>7, <1>8 DEF Exhausted

(* What a client does after it has closed its side, and what others do. *)
LEMMA ClosedStays ==
  ASSUME NetDataOK, ClientTypeOK, EndInv, NEW c \in Clients, ClientStep(c)
  PROVE  /\ \A d \in Clients : /\ AtEof(d) => AtEof(d)' /\ stream'[d] = stream[d]
                               /\ clientEnd[d] = "closed" => clientEnd'[d] = "closed"
                               /\ AtEof(d)' => cpc'[d] \notin {"start", "send", "sending"}
         /\ UNCHANGED <<req, out>>
<1>. USE DEF NetDataOK, ClientTypeOK, AtEof, EndInv
<1>1. CASE OpenConnection(c) \/ OpenFails(c) \/ ConnectOk(c)
  BY <1>1 DEF OpenConnection, OpenFails, ConnectOk, net
<1>2. CASE ShutdownSSL(c)
  BY <1>2 DEF ShutdownSSL
<1>3. CASE ConnectFails(c) \/ SendFails(c) \/ ReadRaw(c) \/ ReadEnd(c) \/ Interrupt(c)
  <2>1. /\ cpc' = [cpc EXCEPT ![c] = "gone"] /\ clientEnd' = [clientEnd EXCEPT ![c] = "closed"]
        /\ UNCHANGED <<stream, req, out>>
    BY <1>3, Zenon DEF ConnectFails, SendFails, ReadRaw, ReadEnd, Interrupt, Quit
  <2>. QED
    BY <2>1
<1>4. CASE SendSome(c)
  BY <1>4 DEF SendSome
<1>5. CASE SendRest(c)
  BY <1>5 DEF SendRest
<1>. QED
  BY <1>1, <1>2, <1>3, <1>4, <1>5, Zenon DEF ClientStep

LEMMA EndStep ==
  TypeOK /\ CurInv /\ FdInv /\ FileInv /\ EndInv /\ [Next]_vars => EndInv'
<1>. SUFFICES ASSUME TypeOK, CurInv, FdInv, FileInv, EndInv, [Next]_vars PROVE EndInv'
  OBVIOUS
<1>. NetDataOK /\ ServerDataOK /\ ClientTypeOK
  BY DEF TypeOK, NetTypeOK, ServerTypeOK
<1>0. UNCHANGED <<out, req>> => (Exhausted' <=> Exhausted)
  BY DEF Exhausted, Unread, NotFound
<1>1. ASSUME NEW reason, Exit(reason), UNCHANGED cli,
             reason \in {"handshake", "sigpipe", "segv"} => cur \in Clients,
             reason = "handshake" => HandshakeCause,
             reason = "sigpipe" => clientEnd[cur] = "closed",
             reason = "segv" => AtEof(cur) /\ SegvCause
      PROVE  EndInv'
  <2>1. /\ pc' = "exit" /\ why' = reason
        /\ UNCHANGED <<cur, clientEnd, stream, req, out, cpc>>
    BY <1>1 DEF Exit, cli
  <2>2. (HandshakeCause' <=> HandshakeCause) /\ (SegvCause' <=> SegvCause)
    BY <1>0, <2>1 DEF HandshakeCause, SegvCause
  <2>. QED
    BY <1>1, <2>1, <2>2 DEF EndInv, AtEof
<1>2. CASE (BootFails \/ AddrInfoFails \/ SetsockoptFails \/ NoAddress \/ ListenFails \/ Signal)
           /\ UNCHANGED cli
  <2>1. Exit("startup") \/ Exit("signal")
    BY <1>2, Zenon DEF BootFails, AddrInfoFails, SetsockoptFails, NoAddress, ListenFails, Signal
  <2>. QED
    BY <1>1, <1>2, <2>1
<1>3. CASE HandshakeFails /\ UNCHANGED cli
  <2>1. cur \in Clients /\ HandshakeCause /\ Exit("handshake")
    BY <1>3, NoneSpare DEF HandshakeFails, LoadCerts, HandshakeCause, CurInv, Serving
  <2>. QED
    BY <1>1, <1>3, <2>1
<1>4. CASE ParseSegv /\ UNCHANGED cli
  <2>1. cur \in Clients /\ AtEof(cur) /\ SegvCause /\ Exit("segv")
    BY <1>4 DEF ParseSegv, SegvCause, EndInv, CurInv, Serving
  <2>. QED
    BY <1>1, <1>4, <2>1
<1>5. CASE RouteSegv /\ UNCHANGED cli
  <2>1. cur \in Clients /\ AtEof(cur) /\ SegvCause /\ Exit("segv")
    BY <1>5 DEF RouteSegv, EndInv, CurInv, Serving
  <2>. QED
    BY <1>1, <1>5, <2>1
<1>6. CASE (RouteSigpipe \/ (ReadFails /\ Exit("sigpipe"))) /\ UNCHANGED cli
  <2>1. cur \in Clients /\ clientEnd[cur] = "closed" /\ Exit("sigpipe")
    BY <1>6 DEF RouteSigpipe, ReadFails, CurInv, Serving
  <2>. QED
    BY <1>1, <1>6, <2>1
(* Steps after which main has not ended. *)
<1>7. ASSUME pc # "exit", UNCHANGED <<why, clientEnd, cpc>>,
             pc' \in {"parse", "loop", "route", "close"} => AtEof(cur'),
             pc' \in {"read", "parse", "loop"} => SpareFd',
             pc' = "route" /\ fatal' => SegvCause'
      PROVE  EndInv'
  BY <1>7 DEF EndInv, AtEof
<1>8. fds' = fds => (SpareFd' <=> SpareFd)
  BY DEF SpareFd
<1>9. UNCHANGED <<cur, stream, req>> => (SegvCause' <=> SegvCause)
  BY DEF SegvCause
<1>10. CASE (Boot \/ SocketFails \/ BindFails \/ BindOk \/ Listen \/ Accept \/ CloseWorker)
            /\ UNCHANGED cli
  <2>1. /\ pc # "exit" /\ UNCHANGED <<why, clientEnd, cpc>>
        /\ pc' \in {"addr", "listen", "accept", "handshake"}
    BY <1>10 DEF Boot, SocketFails, BindFails, BindOk, Listen, Accept, CloseWorker, net, cli
  <2>. QED
    BY <1>7, <2>1
<1>11. CASE HandshakeOk /\ UNCHANGED cli
  <2>1. /\ pc # "exit" /\ UNCHANGED <<why, clientEnd, cpc, fds>> /\ pc' = "read" /\ SpareFd
    BY <1>11 DEF HandshakeOk, LoadCerts, cli
  <2>. QED
    BY <1>7, <1>8, <2>1
<1>12. CASE (ReadEof \/ (ReadFails /\ ~Exit("sigpipe")) \/ ParseLoops \/ LoopEnds) /\ UNCHANGED cli
  <2>1. /\ pc \in {"read", "parse", "loop"} /\ UNCHANGED <<why, clientEnd, cpc, fds, cur>>
        /\ pc' \in {"parse", "loop"} /\ AtEof(cur) /\ SpareFd
    BY <1>12 DEF ReadEof, ReadFails, ParseLoops, LoopEnds, EndInv, AtEof, net, cli
  <2>. QED
    BY <1>7, <1>8, <2>1
<1>13. CASE ParseOk /\ UNCHANGED cli
  <2>1. /\ pc = "parse" /\ pc' = "route" /\ UNCHANGED <<why, cur, clientEnd, stream, req, cpc>>
        /\ fatal' = Segfaults(Info(req[cur]), ReadFile(req[cur]))
    BY <1>13, Zenon DEF ParseOk, net, cli
  <2>2. ReadFile(req[cur]) = req[cur].file /\ AtEof(cur)
    BY <2>1 DEF ReadFile, EndInv
  <2>3. fatal' => SegvCause
    BY <2>1, <2>2, InfoFields DEF Segfaults, SegvCause
  <2>. QED
    BY <1>7, <1>9, <2>1, <2>2, <2>3
<1>14. CASE (RouteWrite \/ RouteReturn) /\ UNCHANGED cli
  <2>1. /\ pc = "route" /\ pc' \in {"route", "close"}
        /\ UNCHANGED <<why, cur, clientEnd, stream, req, cpc, fatal>>
    BY <1>14, Zenon DEF RouteWrite, RouteReturn, net, cli
  <2>2. AtEof(cur) /\ (fatal => SegvCause)
    BY <2>1 DEF EndInv
  <2>. QED
    BY <1>7, <1>9, <2>1, <2>2
<1>15. CASE (AcceptFails /\ UNCHANGED cli) \/ UNCHANGED vars
  <2>1. UNCHANGED <<pc, fds, fatal, why, cur, clientEnd, stream, req, out, cpc>>
    BY <1>15, Zenon DEF AcceptFails, vars, net, proc, cli
  <2>2. HandshakeCause' <=> HandshakeCause
    BY <1>0, <2>1 DEF HandshakeCause
  <2>. QED
    BY <1>8, <1>9, <2>1, <2>2 DEF EndInv, AtEof
<1>16. ASSUME NEW c \in Clients, ClientStep(c), UNCHANGED proc PROVE EndInv'
  <2>1. UNCHANGED <<pc, fds, fatal, why, cur>>
    BY <1>16 DEF proc
  <2>2. /\ \A d \in Clients : /\ AtEof(d) => AtEof(d)' /\ stream'[d] = stream[d]
                              /\ clientEnd[d] = "closed" => clientEnd'[d] = "closed"
                              /\ AtEof(d)' => cpc'[d] \notin {"start", "send", "sending"}
        /\ UNCHANGED <<req, out>>
    BY <1>16, ClosedStays
  <2>3. ASSUME cur \in Clients
        PROVE  /\ AtEof(cur) => AtEof(cur)' /\ (SegvCause => SegvCause')
               /\ clientEnd[cur] = "closed" => clientEnd'[cur'] = "closed"
               /\ HandshakeCause => HandshakeCause'
    BY <1>0, <2>1, <2>2, <2>3 DEF AtEof, SegvCause, HandshakeCause
  <2>4. pc \in {"parse", "loop", "route", "close"} => cur \in Clients
    BY DEF CurInv, Serving
  <2>. QED
    BY <1>8, <2>1, <2>2, <2>3, <2>4 DEF EndInv
<1>. QED
  BY <1>2, <1>3, <1>4, <1>5, <1>6, <1>10, <1>11, <1>12, <1>13, <1>14, <1>15, <1>16, Zenon
     DEF Next, ServerStep, Finished

(* Whatever clients come and whatever they do, the server they share ends only
   for its operator, or for one of the causes the client it serves gives, or
   because unreadable files have used up the descriptors. *)
THEOREM ServerEndsForACause == Spec => []EveryEndHasACause
<1>1. EndInv => EveryEndHasACause
  BY DEF EndInv, EveryEndHasACause, HandshakeCause, SegvCause
<1>. QED
  BY <1>1, TypeInit, TypeStep, FdInit, FdStep, QueueInit, QueueStep, VerdictInit, VerdictStep,
     FileInit, FileStep, EndInit, EndStep, PTL DEF Spec

(* A TLS status line is written to a client that has closed, and stays behind. *)
LEMMA LeaversInit == Init => TlsRefusesLeavers
BY DEF Init, NetInit, TlsRefusesLeavers

LEMMA LeaversStep ==
  TypeOK /\ CurInv /\ EndInv /\ TlsRefusesLeavers /\ [Next]_vars => TlsRefusesLeavers'
<1>. SUFFICES ASSUME TypeOK, CurInv, EndInv, TlsRefusesLeavers, [Next]_vars
              PROVE  TlsRefusesLeavers'
  OBVIOUS
<1>. NetDataOK /\ ServerDataOK /\ ClientTypeOK
  BY DEF TypeOK, NetTypeOK, ServerTypeOK
<1>1. UNCHANGED <<out, clientEnd>> => TlsRefusesLeavers'
  BY DEF TlsRefusesLeavers
<1>2. ASSUME NEW l \in Lines, cur \in Clients, clientEnd' = clientEnd,
             out' = [out EXCEPT ![cur] = Append(@, l)],
             l[1] = "tls" => clientEnd[cur] = "closed"
      PROVE  TlsRefusesLeavers'
  <2>1. Extended(cur, l)
    BY <1>2, AppendOut
  <2>2. ASSUME NEW c \in Clients, NEW i \in DOMAIN out'[c], out'[c][i][1] = "tls"
        PROVE  clientEnd[c] = "closed"
    <3>1. CASE c # cur
      BY <1>2, <2>2, <3>1 DEF TlsRefusesLeavers, NetDataOK
    <3>2. CASE c = cur
      <4>1. i \in 1 .. Len(out[cur]) \/ i = Len(out[cur]) + 1
        BY <2>1, <2>2, <3>2, LenProperties DEF Extended, NetDataOK
      <4>2. CASE i \in 1 .. Len(out[cur])
        <5>1. i \in DOMAIN out[cur]
          BY <1>2, <4>2, LenProperties DEF NetDataOK
        <5>. QED
          BY <1>2, <2>1, <2>2, <3>2, <4>2, <5>1 DEF TlsRefusesLeavers, Extended
      <4>3. CASE i = Len(out[cur]) + 1
        BY <1>2, <2>1, <2>2, <3>2, <4>3 DEF Extended
      <4>. QED
        BY <4>1, <4>2, <4>3
    <3>. QED
      BY <3>1, <3>2
  <2>. QED
    BY <1>2, <2>2 DEF TlsRefusesLeavers
<1>3. CASE ReadFails /\ UNCHANGED cli
  <2>1. cur \in Clients /\ clientEnd[cur] = "closed"
    BY <1>3 DEF ReadFails, CurInv, Serving
  <2>2. CASE Exit("sigpipe")
    BY <1>1, <2>2 DEF Exit
  <2>3. CASE /\ out' = [out EXCEPT ![cur] = Append(@, <<"tls", 400>>)]
             /\ clientEnd' = clientEnd
    BY <1>2, <2>1, <2>3 DEF Lines, Statuses
  <2>. QED
    BY <1>3, <2>2, <2>3, Zenon DEF ReadFails
<1>4. CASE RouteWrite /\ UNCHANGED cli
  <2>1. /\ cur \in Clients /\ todo # <<>> /\ todo \in Seq(Statuses)
        /\ out' = [out EXCEPT ![cur] = Append(@, <<"raw", Head(todo)>>)]
        /\ clientEnd' = clientEnd
    BY <1>4 DEF RouteWrite, CurInv, Serving, ServerDataOK
  <2>2. <<"raw", Head(todo)>> \in Lines
    BY <2>1 DEF Lines
  <2>. QED
    BY <1>2, <2>1, <2>2
<1>5. ASSUME NEW c \in Clients, ClientStep(c) PROVE TlsRefusesLeavers'
  <2>1. /\ \A d \in Clients : clientEnd[d] = "closed" => clientEnd'[d] = "closed"
        /\ out' = out
    BY <1>5, ClosedStays
  <2>. QED
    BY <2>1 DEF TlsRefusesLeavers
<1>6. CASE \/ BootFails \/ AddrInfoFails \/ SetsockoptFails \/ NoAddress \/ ListenFails
           \/ HandshakeFails \/ ParseSegv \/ RouteSigpipe \/ RouteSegv \/ Signal
  <2>1. UNCHANGED <<out, clientEnd>>
    BY <1>6, Zenon DEF BootFails, AddrInfoFails, SetsockoptFails, NoAddress, ListenFails,
                       HandshakeFails, ParseSegv, RouteSigpipe, RouteSegv, Signal, Exit
  <2>. QED
    BY <1>1, <2>1
<1>7. CASE \/ Boot \/ SocketFails \/ BindFails \/ BindOk \/ Listen \/ AcceptFails \/ Accept
           \/ HandshakeOk \/ ReadEof \/ ParseOk \/ ParseLoops \/ LoopEnds \/ RouteReturn
           \/ CloseWorker
  <2>1. UNCHANGED <<out, clientEnd>>
    BY <1>7, Zenon DEF Boot, SocketFails, BindFails, BindOk, Listen, AcceptFails, Accept,
                       HandshakeOk, ReadEof, ParseOk, ParseLoops, LoopEnds, RouteReturn,
                       CloseWorker, net
  <2>. QED
    BY <1>1, <2>1
<1>8. CASE Finished \/ UNCHANGED vars
  <2>1. UNCHANGED <<out, clientEnd>>
    BY <1>8, Zenon DEF Finished, vars, net
  <2>. QED
    BY <1>1, <2>1
<1>. QED
  BY <1>3, <1>4, <1>5, <1>6, <1>7, <1>8, Zenon DEF Next, ServerStep

(* The first status line on the socket is 400 exactly for an unsupported request,
   and a 400 through TLS goes only to a client that has left, for any clients and
   any requests, however they are interleaved. *)
THEOREM VerdictReachesClient == Spec => []FirstLineIsVerdict
<1>1. VerdictInv /\ TlsRefusesLeavers => FirstLineIsVerdict
  BY DEF VerdictInv, FirstLineIsVerdict
<1>. QED
  BY <1>1, TypeInit, TypeStep, FdInit, FdStep, QueueInit, QueueStep, VerdictInit, VerdictStep,
     FileInit, FileStep, EndInit, EndStep, LeaversInit, LeaversStep, PTL DEF Spec

-------------------------------------------------------------------------------
(* The refinement of FifoService.  Only a listening server takes connections. *)
ListenInv == listening => pc \in Serving \cup {"accept"}

LEMMA ListenInit == Init => ListenInv
BY DEF Init, NetInit, ListenInv

LEMMA ListenStep == ListenInv /\ [Next]_vars => ListenInv'
<1>. SUFFICES ASSUME ListenInv, [Next]_vars PROVE ListenInv'
  OBVIOUS
<1>. USE DEF ListenInv, Serving
<1>1. ASSUME NEW reason, Exit(reason) PROVE ListenInv'
  BY <1>1 DEF Exit
<1>2. CASE BootFails \/ AddrInfoFails \/ SetsockoptFails \/ NoAddress \/ ListenFails
           \/ HandshakeFails \/ ParseSegv \/ RouteSigpipe \/ RouteSegv \/ Signal
  BY <1>1, <1>2, Zenon DEF BootFails, AddrInfoFails, SetsockoptFails, NoAddress,
     ListenFails, HandshakeFails, ParseSegv, RouteSigpipe, RouteSegv, Signal
<1>3. CASE Boot \/ SocketFails \/ BindFails \/ BindOk \/ Listen \/ AcceptFails \/ Accept
           \/ HandshakeOk \/ ReadEof \/ ParseOk \/ ParseLoops \/ LoopEnds
           \/ RouteWrite \/ RouteReturn \/ CloseWorker
  BY <1>3 DEF Boot, SocketFails, BindFails, BindOk, Listen, AcceptFails, Accept,
     HandshakeOk, ReadEof, ParseOk, ParseLoops, LoopEnds, RouteWrite, RouteReturn,
     CloseWorker, net, proc
<1>4. CASE ReadFails
  BY <1>1, <1>4 DEF ReadFails
<1>5. ASSUME NEW c \in Clients, ClientStep(c), UNCHANGED proc PROVE ListenInv'
  BY <1>5 DEF ClientStep, OpenConnection, OpenFails, ShutdownSSL, ConnectFails, ConnectOk,
     SendSome, SendRest, SendFails, ReadRaw, ReadEnd, Interrupt, net, proc
<1>6. CASE UNCHANGED vars
  BY <1>6 DEF vars, net, proc
<1>. QED
  BY <1>2, <1>3, <1>4, <1>5, <1>6, Zenon DEF Next, ServerStep, Finished

(* A client that was written a status line on the socket was written a first one. *)
LEMMA FirstRawExists ==
  ASSUME NetDataOK, NEW c \in Clients, ~NoRaw(c)
  PROVE  \E i \in DOMAIN out[c] : FirstRaw(c, i)
<1>. DEFINE Raws == {i \in DOMAIN out[c] : out[c][i][1] = "raw"}
<1>1. DOMAIN out[c] = 1 .. Len(out[c]) /\ Len(out[c]) \in Nat
  BY LenProperties DEF NetDataOK
<1>2. Raws # {} /\ Raws \in SUBSET Nat
  BY <1>1 DEF NoRaw
<1>3. PICK i \in Raws : \A j \in Raws : ~(j < i)
  <2>. HIDE DEF Raws
  <2>1. PICK i \in Raws : \A j \in Raws : ~(<<j, i>> \in OpToRel(<, Nat))
    BY <1>2, NatLessThanWellFounded, WFMin, Zenon
  <2>. QED
    BY <1>2, <2>1 DEF OpToRel
<1>4. i \in DOMAIN out[c] /\ out[c][i][1] = "raw"
  OBVIOUS
<1>5. \A j \in 1 .. i - 1 : out[c][j][1] # "raw"
  BY <1>1, <1>3
<1>. QED
  BY <1>4, <1>5 DEF FirstRaw

(* The verdict of a client: nothing yet, or what its request deserves. *)
Deserved(c) == IF Supported(req[c]) THEN "accepted" ELSE "refused"

VerdictForm == \A c \in Clients : Verdict(c) = IF NoRaw(c) THEN "none" ELSE Deserved(c)

LEMMA VerdictIsDeserved == NetDataOK /\ VerdictInv => VerdictForm
<1>. SUFFICES ASSUME NetDataOK, VerdictInv, NEW c \in Clients
              PROVE  Verdict(c) = IF NoRaw(c) THEN "none" ELSE Deserved(c)
  BY DEF VerdictForm
<1>1. CASE NoRaw(c)
  BY <1>1 DEF NoRaw, Verdict, FirstRaw
<1>2. CASE ~NoRaw(c)
  <2>1. PICK i \in DOMAIN out[c] : FirstRaw(c, i)
    BY <1>2, FirstRawExists
  <2>2. \A j \in DOMAIN out[c] : FirstRaw(c, j) => (out[c][j][2] = 400 <=> ~Supported(req[c]))
    BY DEF VerdictInv, RawVerdict
  <2>3. (\E j \in DOMAIN out[c] : FirstRaw(c, j) /\ out[c][j][2] = 400) <=> ~Supported(req[c])
    BY <2>1, <2>2 DEF FirstRaw
  <2>4. \E j \in DOMAIN out[c] : out[c][j][1] = "raw"
    BY <1>2 DEF NoRaw
  <2>. QED
    BY <1>2, <2>3, <2>4 DEF Verdict, Deserved
<1>. QED
  BY <1>1, <1>2

LEMMA VerdictFormNext == (NetDataOK /\ VerdictInv)' => VerdictForm'
BY VerdictIsDeserved, PTL

LEMMA SameVerdict ==
  ASSUME NEW c, out'[c] = out[c]
  PROVE  Verdict(c)' = Verdict(c)
<1>1. \A i : FirstRaw(c, i)' <=> FirstRaw(c, i)
  BY DEF FirstRaw
<1>2. (\E i \in DOMAIN out'[c] : FirstRaw(c, i)' /\ out'[c][i][2] = 400)
        <=> (\E i \in DOMAIN out[c] : FirstRaw(c, i) /\ out[c][i][2] = 400)
  BY DEF FirstRaw
<1>. QED
  BY <1>2 DEF Verdict

LEMMA ServiceInit == Init => S!Init
<1>. SUFFICES ASSUME Init PROVE S!Init
  OBVIOUS
<1>1. Phase = "starting" /\ queue = <<>> /\ Current = NoClient
  BY DEF Init, ServerInit, NetInit, Phase, Current
<1>2. ASSUME NEW c \in Clients PROVE Verdict(c) = "none"
  <2>1. out[c] = <<>>
    BY DEF Init, NetInit
  <2>2. DOMAIN out[c] = {}
    BY <2>1
  <2>3. /\ ~ \E i \in DOMAIN out[c] : FirstRaw(c, i) /\ out[c][i][2] = 400
        /\ ~ \E i \in DOMAIN out[c] : out[c][i][1] = "raw"
    BY <2>2, Zenon
  <2>. QED
    BY <2>3, Zenon DEF Verdict
<1>3. Verdicts = [c \in Clients |-> "none"]
  BY <1>2 DEF Verdicts
<1>4. Good \in [Clients -> BOOLEAN]
  BY Zenon DEF Good, Supported
<1>. QED
  BY <1>1, <1>3, <1>4, Zenon DEF S!Init

LEMMA ServiceStep ==
  ASSUME TypeOK, TypeOK', CurInv, QueueInv, VerdictInv, VerdictInv', ListenInv, [Next]_vars
  PROVE  [S!Next]_(S!vars)
<1>. NetDataOK /\ NetDataOK' /\ ClientTypeOK
  BY DEF TypeOK, NetTypeOK
<1>0. req' = req
  BY DEF Next, ServerStep, Signal, Exit, Boot, BootFails, AddrInfoFails, SocketFails,
     SetsockoptFails, BindFails, BindOk, NoAddress, ListenFails, Listen, AcceptFails, Accept,
     HandshakeOk, HandshakeFails, ReadEof, ReadFails, ParseOk, ParseSegv, ParseLoops,
     LoopEnds, RouteWrite, RouteSigpipe, RouteSegv, RouteReturn, CloseWorker, ClientStep,
     OpenConnection, OpenFails, ShutdownSSL, ConnectFails, ConnectOk, SendSome, SendRest,
     SendFails, ReadRaw, ReadEnd, Interrupt, Finished, vars, net
<1>1. Good' = Good
  BY <1>0, Zenon DEF Good
<1>2. VerdictForm /\ VerdictForm'
  BY VerdictIsDeserved, VerdictFormNext
<1>3. \A c \in Clients : Verdicts[c] = Verdict(c)
  BY DEF Verdicts
<1>4. out' = out => Verdicts' = Verdicts
  <2>1. ASSUME out' = out, NEW c \in Clients PROVE Verdict(c)' = Verdict(c)
    BY <2>1, SameVerdict
  <2>. QED
    BY <2>1 DEF Verdicts
<1>5. UNCHANGED <<Phase, queue, Current, Verdicts>> => UNCHANGED S!vars
  BY <1>1 DEF S!vars
<1>6. UNCHANGED <<pc, cur, queue, out>> => UNCHANGED S!vars
  BY <1>4, <1>5 DEF Phase, Current
<1>7. ASSUME NEW reason, Exit(reason), pc # "exit" PROVE S!Next
  <2>1. Phase # "down" /\ Phase' = "down" /\ Current' = NoClient /\ queue' = <<>>
    BY <1>7 DEF Exit, Phase, Current
  <2>2. Verdicts' = Verdicts
    BY <1>4, <1>7 DEF Exit
  <2>. QED
    BY <1>1, <2>1, <2>2 DEF S!Next, S!Stop
<1>8. CASE BootFails \/ AddrInfoFails \/ SetsockoptFails \/ NoAddress \/ ListenFails
           \/ HandshakeFails \/ ParseSegv \/ RouteSigpipe \/ RouteSegv \/ Signal
  <2>1. pc # "exit" /\ \E reason \in Reasons : Exit(reason)
    BY <1>8 DEF BootFails, AddrInfoFails, SetsockoptFails, NoAddress, ListenFails,
       HandshakeFails, ParseSegv, RouteSigpipe, RouteSegv, Signal, Reasons
  <2>. QED
    BY <1>7, <2>1, Zenon
<1>9. CASE Boot \/ SocketFails \/ BindFails \/ BindOk \/ AcceptFails \/ HandshakeOk
           \/ ReadEof \/ ParseOk \/ ParseLoops \/ LoopEnds \/ RouteReturn
  <2>1. /\ UNCHANGED <<cur, queue, out>> /\ pc # "exit" /\ pc' # "exit"
        /\ pc \in {"boot", "addr", "listen"} <=> pc' \in {"boot", "addr", "listen"}
    BY <1>9 DEF Boot, SocketFails, BindFails, BindOk, AcceptFails, HandshakeOk, ReadEof,
       ParseOk, ParseLoops, LoopEnds, RouteReturn, net, proc
  <2>2. UNCHANGED <<Phase, Current>>
    BY <2>1 DEF Phase, Current
  <2>. QED
    BY <1>4, <1>5, <2>1, <2>2
<1>10. CASE Listen
  <2>1. Phase = "starting" /\ Phase' = "up" /\ UNCHANGED <<queue, out, Current>>
    BY <1>10 DEF Listen, Phase, Current
  <2>. QED
    BY <1>1, <1>4, <2>1 DEF S!Next, S!Open
<1>11. CASE Accept
  <2>1. /\ Phase = "up" /\ Phase' = "up" /\ Current = NoClient /\ queue # <<>>
        /\ Current' = Head(queue) /\ queue' = Tail(queue) /\ out' = out
    BY <1>11 DEF Accept, Phase, Current, CurInv
  <2>. QED
    BY <1>1, <1>4, <2>1 DEF S!Next, S!Take
<1>12. CASE ReadFails
  <2>1. CASE Exit("sigpipe")
    BY <1>7, <1>12, <2>1 DEF ReadFails
  <2>2. CASE ~Exit("sigpipe")
    <3>1. /\ pc = "read" /\ pc' = "parse" /\ UNCHANGED <<cur, queue>> /\ cur \in Clients
          /\ out' = [out EXCEPT ![cur] = Append(@, <<"tls", 400>>)]
      BY <1>12, <2>2 DEF ReadFails, CurInv, Serving
    <3>2. NoRaw(cur) /\ NoRaw(cur)'
      BY <3>1 DEF VerdictInv, NoRaw
    <3>3. ASSUME NEW c \in Clients PROVE Verdict(c)' = Verdict(c)
      <4>1. CASE c = cur
        BY <1>2, <3>1, <3>2, <4>1 DEF VerdictForm
      <4>2. CASE c # cur
        <5>1. out'[c] = out[c]
          BY <3>1, <4>2 DEF NetDataOK
        <5>. QED
          BY <5>1, SameVerdict
      <4>. QED
        BY <4>1, <4>2
    <3>4. Verdicts' = Verdicts
      BY <3>3 DEF Verdicts
    <3>5. UNCHANGED <<Phase, Current>>
      BY <3>1 DEF Phase, Current
    <3>. QED
      BY <1>5, <3>1, <3>4, <3>5
  <2>. QED
    BY <2>1, <2>2
<1>13. CASE RouteWrite
  <2>1. /\ pc = "route" /\ pc' = "route" /\ UNCHANGED <<cur, queue>> /\ cur \in Clients
        /\ todo # <<>> /\ out' = [out EXCEPT ![cur] = Append(@, <<"raw", Head(todo)>>)]
    BY <1>13 DEF RouteWrite, CurInv, Serving
  <2>2. Phase = "up" /\ Phase' = "up" /\ Current = cur /\ Current' = cur
    BY <2>1 DEF Phase, Current
  <2>3. ~NoRaw(cur)'
    <3>1. <<"raw", Head(todo)>> \in Lines
      BY <2>1, HeadTailProperties DEF TypeOK, ServerTypeOK, ServerDataOK, Lines
    <3>2. Extended(cur, <<"raw", Head(todo)>>)
      BY <2>1, <3>1, AppendOut, Zenon
    <3>. QED
      BY <2>1, <3>2 DEF Extended, NoRaw
  <2>4. ASSUME NEW c \in Clients, c # cur PROVE Verdict(c)' = Verdict(c)
    <3>1. out'[c] = out[c]
      BY <2>1, <2>4 DEF NetDataOK
    <3>. QED
      BY <3>1, SameVerdict
  <2>5. Verdict(cur)' = Deserved(cur)
    BY <1>0, <1>2, <2>1, <2>3 DEF VerdictForm, Deserved
  <2>6. CASE NoRaw(cur)
    <3>1. Verdict(cur) = "none"
      BY <1>2, <2>1, <2>6 DEF VerdictForm
    <3>2. Verdicts' = [Verdicts EXCEPT ![cur] = IF Good[cur] THEN "accepted" ELSE "refused"]
      <4>1. Deserved(cur) = IF Good[cur] THEN "accepted" ELSE "refused"
        BY <2>1, Zenon DEF Deserved, Good
      <4>2. \A c \in Clients : Verdict(c)' = IF c = cur THEN Deserved(cur) ELSE Verdict(c)
        BY <2>1, <2>4, <2>5
      <4>. QED
        BY <2>1, <4>1, <4>2, Zenon DEF Verdicts
    <3>. QED
      BY <1>1, <1>3, <2>1, <2>2, <3>1, <3>2, NoClientAssumption DEF S!Next, S!Decide
  <2>7. CASE ~NoRaw(cur)
    <3>1. Verdict(cur) = Deserved(cur)
      BY <1>2, <2>1, <2>7 DEF VerdictForm
    <3>2. \A c \in Clients : Verdict(c)' = Verdict(c)
      BY <2>1, <2>4, <2>5, <3>1
    <3>3. Verdicts' = Verdicts
      BY <3>2 DEF Verdicts
    <3>. QED
      BY <1>5, <2>1, <2>2, <3>3
  <2>. QED
    BY <2>6, <2>7
<1>14. CASE CloseWorker
  <2>1. /\ pc = "close" /\ pc' = "accept" /\ cur \in Clients /\ cur' = NoClient
        /\ UNCHANGED <<queue, out>>
    BY <1>14 DEF CloseWorker, CurInv, Serving
  <2>2. Phase = "up" /\ Phase' = "up" /\ Current = cur /\ Current' = NoClient
    BY <2>1 DEF Phase, Current
  <2>3. ~NoRaw(cur)
    BY <2>1 DEF VerdictInv, AnsweredBeforeClose, NoRaw
  <2>4. Verdicts[cur] # "none"
    BY <1>2, <1>3, <2>1, <2>3 DEF VerdictForm, Deserved
  <2>. QED
    BY <1>1, <1>4, <2>1, <2>2, <2>4, NoClientAssumption DEF S!Next, S!LetGo
<1>15. ASSUME NEW c \in Clients, ClientStep(c), UNCHANGED proc PROVE [S!Next]_(S!vars)
  <2>1. CASE OpenConnection(c)
    <3>1. /\ cpc[c] = "start" /\ listening /\ Len(queue) < MaxQueue
          /\ queue' = Append(queue, c) /\ UNCHANGED <<out, pc, cur>>
      BY <1>15, <2>1 DEF OpenConnection, proc
    <3>2. Phase = "up" /\ UNCHANGED <<Phase, Current>>
      BY <3>1 DEF Phase, Current, ListenInv, Serving
    <3>3. c # Current /\ out[c] = <<>> /\ \A i \in DOMAIN queue : queue[i] # c
      BY <3>1, NoClientAssumption DEF QueueInv, Current
    <3>4. Verdicts[c] = "none"
      <4>1. NoRaw(c)
        BY <3>3 DEF NoRaw
      <4>. QED
        BY <1>2, <1>3, <4>1 DEF VerdictForm
    <3>5. S!Join(c)
      BY <1>1, <1>4, <3>1, <3>2, <3>3, <3>4 DEF S!Join
    <3>. QED
      BY <3>5 DEF S!Next
  <2>2. CASE ~OpenConnection(c)
    <3>1. UNCHANGED <<pc, cur, queue, out>>
      BY <1>15, <2>2, Zenon DEF ClientStep, OpenFails, ShutdownSSL, ConnectFails, ConnectOk,
         SendSome, SendRest, SendFails, ReadRaw, ReadEnd, Interrupt, net, proc
    <3>. QED
      BY <1>6, <3>1
  <2>. QED
    BY <2>1, <2>2
<1>16. CASE UNCHANGED vars
  BY <1>6, <1>16 DEF vars, net, proc
<1>. QED
  BY <1>8, <1>9, <1>10, <1>11, <1>12, <1>13, <1>14, <1>15, <1>16, Zenon
     DEF Next, ServerStep, Finished

(* The server implements the first-come first-served service, for any clients,
   requests, addresses and descriptor limit. *)
THEOREM SystemRefinesService == Spec => RefinesService
<1>1. TypeOK /\ TypeOK' /\ CurInv /\ QueueInv /\ VerdictInv /\ VerdictInv' /\ ListenInv
        /\ [Next]_vars => [S!Next]_(S!vars)
  BY ServiceStep
<1>. QED
  BY <1>1, ServiceInit, TypeInit, TypeStep, QueueInit, QueueStep, VerdictInit, VerdictStep,
     ListenInit, ListenStep, PTL DEF Spec, RefinesService, S!Spec

===============================================================================
