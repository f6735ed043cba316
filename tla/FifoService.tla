------------------------------ MODULE FifoService ------------------------------
(***************************************************************************)
(* What the server promises its clients, whatever happens inside it: they  *)
(* are served one at a time in the order in which they came, each is given *)
(* one verdict, accepted or refused, while it is served, the verdict is    *)
(* the one its request deserves and never changes, and nobody is let go    *)
(* without one as long as the service is up.                               *)
(***************************************************************************)
EXTENDS Integers, Sequences

CONSTANTS Clients, NoClient, MaxQueue

VARIABLES phase,     \* starting, up, down
          waiting,   \* the clients that have come, oldest first
          current,   \* the client being served
          good,      \* good[c]: the request of c is one the service knows
          verdict    \* none, accepted, refused

vars == <<phase, waiting, current, good, verdict>>

Init == /\ phase = "starting"
        /\ waiting = <<>>
        /\ current = NoClient
        /\ good \in [Clients -> BOOLEAN]
        /\ verdict = [c \in Clients |-> "none"]

Open == /\ phase = "starting" /\ phase' = "up"
        /\ UNCHANGED <<waiting, current, good, verdict>>

Join(c) == /\ phase = "up" /\ Len(waiting) < MaxQueue
           /\ c # current /\ verdict[c] = "none"
           /\ \A i \in DOMAIN waiting : waiting[i] # c
           /\ waiting' = Append(waiting, c)
           /\ UNCHANGED <<phase, current, good, verdict>>

Take == /\ phase = "up" /\ current = NoClient /\ waiting # <<>>
        /\ current' = Head(waiting) /\ waiting' = Tail(waiting)
        /\ UNCHANGED <<phase, good, verdict>>

Decide == /\ phase = "up" /\ current # NoClient /\ verdict[current] = "none"
          /\ verdict' = [verdict EXCEPT ![current] =
                           IF good[current] THEN "accepted" ELSE "refused"]
          /\ UNCHANGED <<phase, waiting, current, good>>

LetGo == /\ phase = "up" /\ current # NoClient /\ verdict[current] # "none"
         /\ current' = NoClient
         /\ UNCHANGED <<phase, waiting, good, verdict>>

Stop == /\ phase # "down" /\ phase' = "down"
        /\ waiting' = <<>> /\ current' = NoClient
        /\ UNCHANGED <<good, verdict>>

Next == \/ Open \/ Take \/ Decide \/ LetGo \/ Stop
        \/ \E c \in Clients : Join(c)

Spec == Init /\ [][Next]_vars

===============================================================================
