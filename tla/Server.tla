--------------------------------- MODULE Server ---------------------------------
(***************************************************************************)
(* The server process: main of server/server.c, start_server, respond,     *)
(* routeClient and the signal handlers of server/server.h, and             *)
(* configServerSSL of crypto/ssl_funcs.h.  One process serves one client   *)
(* at a time (the fork is commented out).  File descriptors are numbered,  *)
(* socket and accept return the lowest free one.                           *)
(***************************************************************************)
EXTENDS Network, FawkesProto

CONSTANTS Addrs,       \* number of addresses getaddrinfo returns
          MaxFd,       \* highest descriptor the process may have
          NoClient

ASSUME AddrAssumption == Addrs \in Nat
ASSUME FdAssumption == MaxFd \in Nat
ASSUME NoClientAssumption == NoClient \notin Clients

VARIABLES pc,            \* where main stands
          addr,          \* the address start_server tries (p)
          fds,           \* the descriptors: free, socket, listen, worker, file
          listen_sock,   \* the global of that name
          worker_sock,
          cur,           \* the client being served
          todo,          \* status lines routeClient has still to write
          fatal,         \* routeClient then dereferences an invalid pointer
          why            \* why the process ended

proc == <<pc, addr, fds, listen_sock, worker_sock, cur, todo, fatal, why>>

Fds == 3 .. MaxFd

FdFree(f) == fds[f] = "free" /\ \A g \in Fds : g < f => fds[g] # "free"

(* Another file can be opened. *)
SpareFd == \E f \in Fds : fds[f] = "free"

ServerInit == /\ pc = "boot" /\ addr = 1
              /\ fds = [f \in Fds |-> "free"]
              /\ listen_sock = 0 /\ worker_sock = 0
              /\ cur = NoClient /\ todo = <<>> /\ fatal = FALSE /\ why = "none"

Reasons == {"none", "startup", "handshake", "segv", "sigpipe", "signal"}

ServerDataOK ==
  /\ pc \in {"boot", "addr", "listen", "accept", "handshake", "read",
             "parse", "loop", "route", "close", "exit"}
  /\ addr \in 1 .. Addrs + 1
  /\ fds \in [Fds -> {"free", "socket", "listen", "worker", "file"}]
  /\ listen_sock \in Fds \cup {0, -1} /\ worker_sock \in Fds \cup {0}
  /\ cur \in Clients \cup {NoClient}
  /\ todo \in Seq(Statuses)
  /\ why \in Reasons

ServerTypeOK == ServerDataOK /\ fatal \in BOOLEAN

(* The process ends, and with it every descriptor and connection. *)
Exit(reason) ==
  /\ pc' = "exit" /\ why' = reason
  /\ fds' = [f \in Fds |-> "free"]
  /\ listening' = FALSE /\ queue' = <<>>
  /\ serverEnd' = [c \in Clients |-> IF serverEnd[c] = "none" THEN "none" ELSE "closed"]
  /\ UNCHANGED <<addr, listen_sock, worker_sock, cur, todo, fatal,
                 clientEnd, tls, stream, req, out>>

-------------------------------------------------------------------------------
(* main up to start_server. *)
Boot == /\ pc = "boot" /\ pc' = "addr"
        /\ UNCHANGED <<addr, fds, listen_sock, worker_sock, cur, todo, fatal, why, net>>

(* Not root, too many arguments or no handler. *)
BootFails == pc = "boot" /\ Exit("startup")

(* getaddrinfo returns no list. *)
AddrInfoFails == pc = "addr" /\ addr = 1 /\ Exit("startup")

(* A mutant of SocketFails: the end of the list is missed. *)
SocketFailsPastEnd == /\ pc = "addr" /\ addr <= Addrs + 1
                      /\ listen_sock' = -1 /\ addr' = addr + 1
                      /\ UNCHANGED <<pc, fds, worker_sock, cur, todo, fatal, why, net>>

(* The loop over the addresses: socket. *)
SocketFails == /\ pc = "addr" /\ addr <= Addrs
               /\ listen_sock' = -1 /\ addr' = addr + 1
               /\ UNCHANGED <<pc, fds, worker_sock, cur, todo, fatal, why, net>>

SetsockoptFails == /\ pc = "addr" /\ addr <= Addrs
                   /\ Exit("startup")

(* A mutant of BindFails: the socket is not closed. *)
BindFailsLeaks == /\ pc = "addr" /\ addr <= Addrs
                  /\ \E f \in Fds : /\ FdFree(f) /\ listen_sock' = f
                                    /\ fds' = [fds EXCEPT ![f] = "socket"]
                  /\ addr' = addr + 1
                  /\ UNCHANGED <<pc, worker_sock, cur, todo, fatal, why, net>>

(* socket, setsockopt, a bind that fails, close, and on to the next address;
   listen_sock keeps the number. *)
BindFails == /\ pc = "addr" /\ addr <= Addrs
             /\ \E f \in Fds : FdFree(f) /\ listen_sock' = f
             /\ addr' = addr + 1
             /\ UNCHANGED <<pc, fds, worker_sock, cur, todo, fatal, why, net>>

BindOk == /\ pc = "addr" /\ addr <= Addrs
          /\ \E f \in Fds : /\ FdFree(f)
                            /\ fds' = [fds EXCEPT ![f] = "socket"]
                            /\ listen_sock' = f
          /\ pc' = "listen"
          /\ UNCHANGED <<addr, worker_sock, cur, todo, fatal, why, net>>

NoAddress == pc = "addr" /\ addr > Addrs /\ Exit("startup")

ListenFails == pc = "listen" /\ Exit("startup")

Listen == /\ pc = "listen" /\ pc' = "accept"
          /\ fds' = [fds EXCEPT ![listen_sock] = "listen"]
          /\ listening' = TRUE
          /\ UNCHANGED <<addr, listen_sock, worker_sock, cur, todo, fatal, why,
                         queue, clientEnd, serverEnd, tls, stream, req, out>>

-------------------------------------------------------------------------------
(* loadCerts can read the certificate and the key, which are in their place and
   belong together; it only reports what it could not. *)
LoadCerts == SpareFd

(* accept fails: main reports it and continues. *)
AcceptFails == pc = "accept" /\ UNCHANGED <<proc, net>>

(* A mutant of Accept: the newest connection is taken. *)
AcceptNewest ==
  /\ pc = "accept" /\ queue # <<>>
  /\ \E f \in Fds : /\ FdFree(f)
                    /\ fds' = [fds EXCEPT ![f] = "worker"]
                    /\ worker_sock' = f
  /\ cur' = queue[Len(queue)] /\ queue' = SubSeq(queue, 1, Len(queue) - 1)
  /\ pc' = "handshake"
  /\ UNCHANGED <<addr, listen_sock, todo, fatal, why,
                 listening, clientEnd, serverEnd, tls, stream, req, out>>

Accept == /\ pc = "accept" /\ queue # <<>>
          /\ \E f \in Fds : /\ FdFree(f)
                            /\ fds' = [fds EXCEPT ![f] = "worker"]
                            /\ worker_sock' = f
          /\ cur' = Head(queue) /\ queue' = Tail(queue)
          /\ pc' = "handshake"
          /\ UNCHANGED <<addr, listen_sock, todo, fatal, why,
                         listening, clientEnd, serverEnd, tls, stream, req, out>>

(* configServerSSL: SSL_accept demands a certificate of the peer. *)
HandshakeOk == /\ pc = "handshake" /\ clientEnd[cur] = "open" /\ cur \in WithCert
               /\ LoadCerts
               /\ tls' = [tls EXCEPT ![cur] = TRUE]
               /\ pc' = "read"
               /\ UNCHANGED <<addr, fds, listen_sock, worker_sock, cur, todo, fatal, why,
                              queue, listening, clientEnd, serverEnd, stream, req, out>>

(* SSL_accept <= 0 ends the process; without a certificate of its own the
   server's SSL_accept fails. *)
HandshakeFails == /\ pc = "handshake"
                  /\ clientEnd[cur] = "closed" \/ cur \notin WithCert \/ ~LoadCerts
                  /\ Exit("handshake")

(* A mutant of ReadEof: the end of the data is noticed only at the close. *)
ReadEofLate == /\ pc = "read" /\ clientEnd[cur] = "closed"
               /\ pc' = "parse"
               /\ UNCHANGED <<addr, fds, listen_sock, worker_sock, cur, todo, fatal, why, net>>

(* readall returns 0 when the client has closed its side, not before. *)
ReadEof == /\ pc = "read" /\ AtEof(cur)
           /\ pc' = "parse"
           /\ UNCHANGED <<addr, fds, listen_sock, worker_sock, cur, todo, fatal, why, net>>

(* The connection was reset: respond sends a 400 through TLS and goes on to
   parse what it has; or the write to the reset connection raises SIGPIPE. *)
ReadFails == /\ pc = "read" /\ clientEnd[cur] = "closed"
             /\ \/ /\ pc' = "parse"
                   /\ out' = [out EXCEPT ![cur] = Append(@, <<"tls", 400>>)]
                   /\ UNCHANGED <<addr, fds, listen_sock, worker_sock, cur, todo, fatal, why,
                                  queue, listening, clientEnd, serverEnd, tls, stream, req>>
                \/ Exit("sigpipe")

-------------------------------------------------------------------------------
(* parseRequest's information byte. *)
Info(r) == encodeReqmts(encodeMethod(r.method, encodeProto(r.proto, 0)))

(* The status lines routeClient writes before its switch: the three tests do
   not return. *)
Refusals(info) ==
  LET line(failed) == IF failed THEN <<400>> ELSE <<>>
  IN  line(decodeReqmts(info) = -1) \o line(decodeProto(info) = -1)
        \o line(decodeMethod(info) = -1)

(* The switch.  readFile returns NULL when the file cannot be opened or sought
   in and "-1" when reading fails, which strtol cannot tell from a file that
   begins so; sendall takes the socket number for an SSL pointer and
   uses it only if there is a byte to send, and returns -1 if there is none;
   HEAD falls through to the default. *)
Answer(info, file) ==
  CASE decodeMethod(info) = 1 -> (CASE file = "missing" -> <<>>
                                    [] file \in {"error", "minus"} -> <<404>>
                                    [] file = "empty"   -> <<200, 500>>
                                    [] file = "text"    -> <<200>>)
    [] decodeMethod(info) = 2 -> <<200, 500>>
    [] OTHER -> <<500>>

(* The uses of an invalid pointer: strtol of NULL, SSL_write on a number. *)
Segfaults(info, file) == decodeMethod(info) = 1 /\ file \in {"missing", "text"}

(* What readFile finds; fopen fails when there is no descriptor left. *)
ReadFile(r) == IF SpareFd THEN r.file ELSE "missing"

(* When reading fails readFile returns without fclose. *)
LeaveOpen(info, file) ==
  IF decodeMethod(info) = 1 /\ file = "error"
    THEN \E f \in Fds : FdFree(f) /\ fds' = [fds EXCEPT ![f] = "file"]
    ELSE UNCHANGED fds

(* Mutants of ParseOk: a stale verdict (the check runs before the method is
   known); an empty file is not closed either. *)
ParseOkEarlyCheck ==
  /\ pc = "parse" /\ stream[cur] = "full"
  /\ LET r == req[cur]
         file == ReadFile(r)
         info == encodeMethod(r.method, encodeReqmts(encodeProto(r.proto, 0)))
     IN  /\ todo' = Refusals(info) \o Answer(info, file)
         /\ fatal' = Segfaults(info, file)
         /\ LeaveOpen(info, file)
  /\ pc' = "route"
  /\ UNCHANGED <<addr, listen_sock, worker_sock, cur, why, net>>

ParseOkNoFclose ==
  /\ pc = "parse" /\ stream[cur] = "full"
  /\ LET file == ReadFile(req[cur])
         info == Info(req[cur])
     IN  /\ todo' = Refusals(info) \o Answer(info, file)
         /\ fatal' = Segfaults(info, file)
         /\ LeaveOpen(info, IF file = "empty" THEN "error" ELSE file)
  /\ pc' = "route"
  /\ UNCHANGED <<addr, listen_sock, worker_sock, cur, why, net>>

(* parseRequest and the decisions of routeClient, on a whole request line. *)
ParseOk ==
  /\ pc = "parse" /\ stream[cur] = "full"
  /\ LET file == ReadFile(req[cur])
         info == Info(req[cur])
     IN  /\ todo' = Refusals(info) \o Answer(info, file)
         /\ fatal' = Segfaults(info, file)
         /\ LeaveOpen(info, file)
  /\ pc' = "route"
  /\ UNCHANGED <<addr, listen_sock, worker_sock, cur, why, net>>

(* Without a whole request line the parser reads a token that is not there, and
   of a loose message it may read a NULL or an invalid pointer (SplitSegv,
   HeaderNull and HeaderWild of RequestParser); the SIGSEGV handler ends the
   process. *)
ParseSegv == /\ pc = "parse"
             /\ stream[cur] # "full" \/ req[cur].head = "loose"
             /\ Exit("segv")

(* A header without ": " whose second pointer is NULL: the loop steps back and
   parses it again (HeaderSkip of RequestParser). *)
ParseLoops == /\ pc = "parse" /\ stream[cur] = "full" /\ req[cur].head = "loose"
              /\ pc' = "loop"
              /\ UNCHANGED <<addr, fds, listen_sock, worker_sock, cur, todo, fatal, why, net>>

(* The pointer malloc left there is another one in the end; it need not be. *)
LoopEnds == /\ pc = "loop" /\ pc' = "parse"
            /\ UNCHANGED <<addr, fds, listen_sock, worker_sock, cur, todo, fatal, why, net>>

(* One write of a status line, past the TLS layer. *)
RouteWrite ==
  /\ pc = "route" /\ todo # <<>>
  /\ out' = [out EXCEPT ![cur] = Append(@, <<"raw", Head(todo)>>)]
  /\ todo' = Tail(todo)
  /\ UNCHANGED <<pc, addr, fds, listen_sock, worker_sock, cur, fatal, why,
                 queue, listening, clientEnd, serverEnd, tls, stream, req>>

(* A mutant of RouteSigpipe: a client that has only closed its side counts as
   gone. *)
RouteSigpipeShut == /\ pc = "route" /\ todo # <<>>
                    /\ AtEof(cur) /\ out[cur] # <<>>
                    /\ Exit("sigpipe")

(* A second write to a client that has gone may raise SIGPIPE, which nobody
   handles. *)
RouteSigpipe == /\ pc = "route" /\ todo # <<>>
                /\ clientEnd[cur] = "closed" /\ out[cur] # <<>>
                /\ Exit("sigpipe")

RouteSegv == pc = "route" /\ todo = <<>> /\ fatal /\ Exit("segv")

RouteReturn == /\ pc = "route" /\ todo = <<>> /\ ~fatal
               /\ pc' = "close"
               /\ UNCHANGED <<addr, fds, listen_sock, worker_sock, cur, todo, fatal, why, net>>

(* A mutant of CloseWorker: main goes back to accept without the close. *)
CloseWorkerForgotten ==
  /\ pc = "close" /\ pc' = "accept" /\ cur' = NoClient
  /\ UNCHANGED <<addr, fds, listen_sock, worker_sock, todo, fatal, why, net>>

CloseWorker ==
  /\ pc = "close" /\ pc' = "accept"
  /\ fds' = [fds EXCEPT ![worker_sock] = "free"]
  /\ serverEnd' = [serverEnd EXCEPT ![cur] = "closed"]
  /\ cur' = NoClient
  /\ UNCHANGED <<addr, listen_sock, worker_sock, todo, fatal, why,
                 queue, listening, clientEnd, tls, stream, req, out>>

(* SIGHUP, SIGINT or SIGQUIT: parent_sig_handler closes listen_sock if it is
   set, cleans OpenSSL up and exits, wherever main stands. *)
Signal == pc # "exit" /\ Exit("signal")

(* What main does by itself; Signal comes from outside, LoopEnds from malloc. *)
ServerStep == \/ Boot \/ BootFails \/ AddrInfoFails
              \/ SocketFails \/ SetsockoptFails \/ BindFails \/ BindOk \/ NoAddress
              \/ ListenFails \/ Listen
              \/ AcceptFails \/ Accept
              \/ HandshakeOk \/ HandshakeFails
              \/ ReadEof \/ ReadFails
              \/ ParseOk \/ ParseSegv \/ ParseLoops
              \/ RouteWrite \/ RouteSigpipe \/ RouteSegv \/ RouteReturn
              \/ CloseWorker

===============================================================================
