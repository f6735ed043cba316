------------------------------ MODULE PwdManSystem ------------------------------
(***************************************************************************)
(* The server and its clients together, with the signals the server's      *)
(* operator may send.                                                      *)
(***************************************************************************)
EXTENDS Server, Client, FiniteSets

vars == <<net, proc, cli>>

Init == NetInit /\ ServerInit /\ ClientInit

(* The server has ended and no client is left. *)
Finished == /\ pc = "exit" /\ \A c \in Clients : cpc[c] = "gone"
            /\ UNCHANGED vars

Next == \/ ServerStep /\ UNCHANGED cli
        \/ (Signal \/ LoopEnds) /\ UNCHANGED cli
        \/ \E c \in Clients : ClientStep(c) /\ UNCHANGED proc
        \/ Finished

(* The steps a client takes by itself once they are possible.  It need not
   start, and SSL_connect need not fail before the server has closed. *)
ClientMoves(c) == /\ \/ ConnectOk(c) \/ SendSome(c) \/ SendRest(c) \/ SendFails(c)
                     \/ ReadRaw(c) \/ ReadEnd(c)
                     \/ serverEnd[c] = "closed" /\ ConnectFails(c)
                  /\ UNCHANGED proc

(* The operating system runs the processes; system calls that can return do.
   No signal need come, a loop over a bad header need not end, and an impatient
   user interrupts in the end. *)
Fairness == /\ WF_vars(ServerStep /\ UNCHANGED cli)
            /\ \A c \in Clients : WF_vars(ClientMoves(c))
            /\ \A c \in Impatient : WF_vars(Interrupt(c) /\ UNCHANGED proc)

Spec == Init /\ [][Next]_vars /\ Fairness

-------------------------------------------------------------------------------
TypeOK == NetTypeOK /\ ServerTypeOK /\ ClientTypeOK

(* Whenever main waits in accept its only socket is the listening one: the
   addresses that could not be bound and the clients already served have left
   none behind. *)
OneListener ==
  pc = "accept" =>
    /\ listen_sock \in Fds
    /\ \A f \in Fds : IF f = listen_sock THEN fds[f] = "listen"
                                         ELSE fds[f] \in {"free", "file"}

(* c was written a 404. *)
NotFound(c) == \E i \in DOMAIN out[c] : out[c][i] = <<"raw", 404>>

(* The clients that were written a 404 for a file readFile could not read. *)
Unread == {c \in Clients : req[c].file = "error" /\ NotFound(c)}

(* The files main has open in accept are those readFile failed to read, one
   for each client that was answered 404 for such a file: no other request
   uses descriptors up. *)
FilesOpenAreErrors ==
  pc = "accept" => Cardinality({f \in Fds : fds[f] = "file"}) = Cardinality(Unread)

(* Files left open have used up all descriptors but the two of the sockets. *)
Exhausted == Cardinality(Unread) + 2 = Cardinality(Fds)

(* Past start-up the server ends for its operator or for the client it serves:
   in the handshake for one that has left or has no certificate; by SIGPIPE for
   one that has left; by SIGSEGV for one that closed before the end of its
   request, sent a loose message or asked for a page, there or not (which is a
   fault: PageIsAnswered).  Of other clients only the files left open for them
   can end it, in the handshake. *)
EveryEndHasACause ==
  /\ why = "handshake" => \/ clientEnd[cur] = "closed" \/ cur \notin WithCert \/ Exhausted
  /\ why = "sigpipe" => clientEnd[cur] = "closed"
  /\ why = "segv" => \/ stream[cur] # "full" \/ req[cur].head = "loose"
                     \/ req[cur].method = "GET" /\ req[cur].file \in {"missing", "text"}

(* The byte parseRequest packs for a whole request line is composed as the masks
   of fawkes_proto.h compose it, whatever the byte held before: no encoder
   disturbs what another has written, in whatever order they are called, and
   the verdict agrees with the decoders routeClient asks next. *)
PackedByMasks ==
  pc = "parse" /\ stream[cur] = "full"
    => EncodesByMasks(req[cur].proto, req[cur].method)

(* Line i of what c was written is the first status line on the socket itself. *)
FirstRaw(c, i) == /\ out[c][i][1] = "raw"
                  /\ \A j \in 1 .. i - 1 : out[c][j][1] # "raw"

Supported(r) == /\ r.proto \in {"HTTP/1.0", "HTTP/1.1", "HTTP/2.0"}
                /\ r.method \in {"GET", "HEAD", "POST", "PUT", "DELETE",
                                 "CONNECT", "OPTIONS", "TRACE"}

(* The first status line on the socket is the verdict on the request. *)
RawVerdict ==
  \A c \in Clients : \A i \in DOMAIN out[c] :
    FirstRaw(c, i) => (out[c][i][2] = 400 <=> ~Supported(req[c]))

(* What respond sends through TLS after a failed read goes to a client that has
   left. *)
TlsRefusesLeavers ==
  \A c \in Clients : \A i \in DOMAIN out[c] :
    out[c][i][1] = "tls" => clientEnd[c] = "closed"

(* The first status line a client can get is 400 exactly when it asked with a
   method or a protocol the server does not know: what parseRequest packed
   into the byte is what routeClient takes out of it.  The other 400, of a failed
   read, after which respond parses and routes what it has all the same, never
   reaches a client that is still there to get two contradicting answers. *)
FirstLineIsVerdict == RawVerdict /\ TlsRefusesLeavers

(* What the server's clients see of it: where main stands, whom it serves, and
   the first status line each has been written on the socket. *)
Phase == CASE pc \in {"boot", "addr", "listen"} -> "starting"
           [] pc = "exit" -> "down"
           [] OTHER -> "up"

Verdict(c) ==
  IF \E i \in DOMAIN out[c] : FirstRaw(c, i) /\ out[c][i][2] = 400 THEN "refused"
  ELSE IF \E i \in DOMAIN out[c] : out[c][i][1] = "raw" THEN "accepted"
  ELSE "none"

Current  == IF pc = "exit" THEN NoClient ELSE cur
Good     == [c \in Clients |-> Supported(req[c])]
Verdicts == [c \in Clients |-> Verdict(c)]

S == INSTANCE FifoService WITH phase <- Phase, waiting <- queue, current <- Current,
                               good <- Good, verdict <- Verdicts

(* The server is a first-come first-served service: one client at a time in the
   order of their connections, each with the one verdict its request deserves,
   given while it is served, and nobody let go without one, whatever the other
   clients and the signals do. *)
RefinesService == S!Spec

(* A connection in the queue is eventually taken out of it, by accept or by
   the end of the server: no client holds the others up for ever, but by a
   header on which parseRequest loops. *)
QueueDrains ==
  \A c \in Clients : (\E i \in DOMAIN queue : queue[i] = c)
                        ~> (pc = "loop" \/ ~(\E i \in DOMAIN queue : queue[i] = c))

(* A client that has sent its request does not wait for ever, with the same
   exception. *)
ClientEnds == \A c \in Clients : cpc[c] = "wait" ~> (pc = "loop" \/ cpc[c] = "gone")

(* What server.c says of main's loop ("loop until signal received, perform
   clean up on signal and exit"): past start-up only a signal ends it. *)
StopsOnlyOnSignal == why \in {"none", "startup", "signal"}

(* The status of a page, by the comments in routeClient. *)
PageStatus(file) == IF file \in {"missing", "error"} THEN 404 ELSE 200

(* What stringops.h says of readFile ("if error occurs returns "-1\0" as str")
   and server.h of what routeClient makes of it ("FILE NOT FOUND" before the 404,
   "FILE FOUND" before the 200): of a whole, well formed GET routeClient returns,
   and has written one status line, that of the page. *)
PageIsAnswered ==
  /\ pc = "close" \/ why = "segv"
  /\ stream[cur] = "full" /\ req[cur].head = "framed"
  /\ req[cur].method = "GET" /\ Supported(req[cur])
  => /\ pc = "close"
     /\ \/ out[cur] = << <<"raw", PageStatus(req[cur].file)>> >>
        \/ out[cur] = << <<"tls", 400>>, <<"raw", PageStatus(req[cur].file)>> >>

(* What server.h says of respond ("serve response for client request"): a
   client that has sent its whole request is written to, unless one of the two
   processes ends. *)
RequestIsServed ==
  \A c \in Clients : stream[c] = "full"
    ~> (out[c] # <<>> \/ cpc[c] = "gone" \/ pc = "exit")

===============================================================================
