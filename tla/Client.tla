--------------------------------- MODULE Client ---------------------------------
(***************************************************************************)
(* The command line client, client/client_v2.c, with openConnection of     *)
(* client/client.h and configClientSSL of crypto/ssl_funcs.h.  One process *)
(* makes one request.  WithCert are peers whose certificate the server's   *)
(* OpenSSL accepts and Polite are peers that send close_notify after their *)
(* request; client_v2 is neither.  Impatient ones are interrupted by     *)
(* their user some time after they have connected.                         *)
(***************************************************************************)
EXTENDS Network

CONSTANTS Polite, Impatient

VARIABLES cpc,    \* start, connect, send, sending, wait, gone
          cres    \* how main ended: none, failed, error, response

cli == <<cpc, cres>>

ClientInit == /\ cpc = [c \in Clients |-> "start"]
              /\ cres = [c \in Clients |-> "none"]

ClientTypeOK ==
  /\ cpc \in [Clients -> {"start", "connect", "send", "sending", "wait", "gone"}]
  /\ cres \in [Clients -> {"none", "failed", "error", "response"}]

(* close and exit: the client's end of the connection is closed with it. *)
Quit(c, how) ==
  /\ cpc' = [cpc EXCEPT ![c] = "gone"]
  /\ cres' = [cres EXCEPT ![c] = how]
  /\ clientEnd' = [clientEnd EXCEPT ![c] = "closed"]

OpenConnection(c) ==
  /\ cpc[c] = "start"
  /\ listening /\ Len(queue) < MaxQueue
  /\ queue' = Append(queue, c)
  /\ clientEnd' = [clientEnd EXCEPT ![c] = "open"]
  /\ serverEnd' = [serverEnd EXCEPT ![c] = "open"]
  /\ cpc' = [cpc EXCEPT ![c] = "connect"]
  /\ UNCHANGED <<listening, tls, stream, req, out, cres>>

(* main refuses its arguments (too few, or a query string with a space); or
   there is no host, no socket or no connection: main does not test the -1, and
   configClientSSL exits when SSL_connect fails on it.  The message is written
   into a buffer that is too small for a long host (see Spare in RequestParser);
   an abort that brings is one of these ends. *)
OpenFails(c) ==
  /\ cpc[c] = "start"
  /\ cpc' = [cpc EXCEPT ![c] = "gone"]
  /\ cres' = [cres EXCEPT ![c] = "failed"]
  /\ UNCHANGED net

(* The session stands but the certificate is missing or names another host:
   the first SSL_shutdown of shutdownSSL sends close_notify and returns 0. *)
ShutdownSSL(c) ==
  /\ cpc[c] = "connect" /\ tls[c] /\ clientEnd[c] = "open"
  /\ clientEnd' = [clientEnd EXCEPT ![c] = "shut"]
  /\ UNCHANGED <<queue, listening, serverEnd, tls, stream, req, out, cpc, cres>>

(* SSL_connect fails, on the chain of the server's certificate or because the
   server refused or left; or the second SSL_shutdown, which waits for the
   server's answer, has returned. *)
ConnectFails(c) ==
  /\ cpc[c] = "connect"
  /\ clientEnd[c] = "open" \/ serverEnd[c] = "closed"
  /\ Quit(c, "failed")
  /\ UNCHANGED <<queue, listening, serverEnd, tls, stream, req, out>>

ConnectOk(c) ==
  /\ cpc[c] = "connect" /\ tls[c] /\ clientEnd[c] = "open"
  /\ cpc' = [cpc EXCEPT ![c] = "send"]
  /\ UNCHANGED <<net, cres>>

(* sendall in two writes: the first ends inside the request line. *)
SendSome(c) ==
  /\ cpc[c] = "send"
  /\ stream' = [stream EXCEPT ![c] = "cut"]
  /\ cpc' = [cpc EXCEPT ![c] = "sending"]
  /\ UNCHANGED <<queue, listening, clientEnd, serverEnd, tls, req, out, cres>>

SendRest(c) ==
  /\ cpc[c] = "sending"
  /\ stream' = [stream EXCEPT ![c] = "full"]
  /\ clientEnd' = [clientEnd EXCEPT ![c] = IF c \in Polite THEN "shut" ELSE @]
  /\ cpc' = [cpc EXCEPT ![c] = "wait"]
  /\ UNCHANGED <<queue, listening, serverEnd, tls, req, out, cres>>

(* sendall returns an error when the server's end has gone. *)
SendFails(c) ==
  /\ cpc[c] \in {"send", "sending"} /\ serverEnd[c] = "closed"
  /\ Quit(c, "error")
  /\ UNCHANGED <<queue, listening, serverEnd, tls, stream, req, out>>

(* readall: a status line written past the TLS layer is no TLS record, so
   SSL_read fails and main exits through error(). *)
ReadRaw(c) ==
  /\ cpc[c] = "wait"
  /\ \E i \in DOMAIN out[c] : out[c][i][1] = "raw"
  /\ Quit(c, "error")
  /\ UNCHANGED <<queue, listening, serverEnd, tls, stream, req, out>>

(* readall ends when the server closes; main prints what it has. *)
ReadEnd(c) ==
  /\ cpc[c] = "wait" /\ serverEnd[c] = "closed"
  /\ \A i \in DOMAIN out[c] : out[c][i][1] = "tls"
  /\ Quit(c, "response")
  /\ UNCHANGED <<queue, listening, serverEnd, tls, stream, req, out>>

Interrupt(c) ==
  /\ c \in Impatient /\ cpc[c] \in {"connect", "send", "sending", "wait"}
  /\ Quit(c, "failed")
  /\ UNCHANGED <<queue, listening, serverEnd, tls, stream, req, out>>

ClientStep(c) == \/ OpenConnection(c) \/ OpenFails(c)
                 \/ ShutdownSSL(c) \/ ConnectFails(c) \/ ConnectOk(c)
                 \/ SendSome(c) \/ SendRest(c) \/ SendFails(c)
                 \/ ReadRaw(c) \/ ReadEnd(c) \/ Interrupt(c)

===============================================================================
