-------------------------------- MODULE Network --------------------------------
(***************************************************************************)
(* What the server and its clients share: the queue of the listening       *)
(* socket and, for each client, one TCP connection with a TLS session on   *)
(* it.  The kernel and OpenSSL are modelled by how the code uses them.     *)
(***************************************************************************)
EXTENDS Integers, Sequences

CONSTANTS Clients,
          Requests,   \* records [method, proto, file, head]: what a client asks
          MaxQueue,   \* MAX_QUEUE, the backlog given to listen
          WithCert    \* clients with a certificate the server accepts

(* The request line a client sends is abstracted to its method and protocol
   strings and to what the server's readFile finds at the path: nothing it can
   open, a file it cannot read, an empty one, a text that begins with the number
   -1, another text. *)
FileKinds == {"missing", "error", "empty", "minus", "text"}

(* Behind it the message is framed or loose: a message from which parseRequest
   returns for sure (FramedEnds of RequestParser), or any other. *)
Heads == {"framed", "loose"}

ASSUME RequestAssumption == \A r \in Requests : r.file \in FileKinds /\ r.head \in Heads
ASSUME QueueAssumption == MaxQueue \in Nat \ {0}

VARIABLES queue,       \* connections not yet accepted, oldest first
          listening,   \* the server's socket takes connections
          clientEnd,   \* client's end: none, open, shut (sent close_notify), closed
          serverEnd,   \* server's end: none, open, closed
          tls,         \* the session is established
          stream,      \* how much of the request was sent: none, cut, full
          req,         \* the request
          out          \* what the server wrote: <<"raw" or "tls", status>>

net == <<queue, listening, clientEnd, serverEnd, tls, stream, req, out>>

NetInit == /\ queue = <<>>
           /\ listening = FALSE
           /\ clientEnd = [c \in Clients |-> "none"]
           /\ serverEnd = [c \in Clients |-> "none"]
           /\ tls = [c \in Clients |-> FALSE]
           /\ stream = [c \in Clients |-> "none"]
           /\ req \in [Clients -> Requests]
           /\ out = [c \in Clients |-> <<>>]

(* The status lines the server writes, past the TLS layer or through it. *)
Statuses == {200, 400, 404, 500}
Lines == {"raw", "tls"} \X Statuses

NetFlagsOK == listening \in BOOLEAN /\ tls \in [Clients -> BOOLEAN]

NetDataOK == /\ queue \in Seq(Clients) /\ Len(queue) <= MaxQueue
             /\ clientEnd \in [Clients -> {"none", "open", "shut", "closed"}]
             /\ serverEnd \in [Clients -> {"none", "open", "closed"}]
             /\ stream \in [Clients -> {"none", "cut", "full"}]
             /\ req \in [Clients -> Requests]
             /\ out \in [Clients -> Seq(Lines)]

NetTypeOK == NetFlagsOK /\ NetDataOK

(* Everything the client sent has been read and no more will come. *)
AtEof(c) == clientEnd[c] \in {"shut", "closed"}

===============================================================================
