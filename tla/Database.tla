-------------------------------- MODULE Database --------------------------------
(***************************************************************************)
(* db/database.h: processes that call createTable, authenticateUser,       *)
(* getVersion, getTables and getTableRows on one shared PostgreSQL server, *)
(* statement by statement.  The library opens a connection for every call  *)
(* and starts no transaction, so each statement takes effect by itself and *)
(* those of several processes interleave.                                  *)
(***************************************************************************)
EXTENDS Integers, Sequences, FiniteSets

CONSTANTS Procs,     \* processes that use the library
          Rows,      \* the rows createTable inserts, in order: <<user, pass>>
          Calls,     \* records [name |-> ..., user |-> ..., pass |-> ...]
          Quoted,    \* the user names that hold a quote
          Tables,    \* what the SQL in such a name may make of the table
          MaxConns,  \* max_connections of the server
          NoTable    \* there is no table Users

CallNames == {"createTable", "authenticateUser", "getVersion", "getTables", "getTableRows"}

(* The rows of a table nothing is missing from. *)
Full == {Rows[n] : n \in DOMAIN Rows}

(* The rows that only the SQL in a name puts into the table. *)
Strange == (UNION (Tables \ {NoTable})) \ Full

(* Before the first call of a process. *)
NoCall == [name |-> "none", user |-> "", pass |-> ""]

ASSUME DatabaseAssumption ==
  /\ MaxConns \in Nat
  /\ Rows \in Seq(STRING \X STRING) /\ Rows # <<>>
  /\ \A m, n \in DOMAIN Rows : Rows[m][1] = Rows[n][1] => m = n
  /\ Strange \subseteq STRING \X STRING
  /\ \A t \in SUBSET (Full \cup Strange) : t # NoTable
  /\ \A c \in Calls : c.name \in CallNames

VARIABLES table,   \* NoTable or the rows of Users, which PostgreSQL keeps
          pc,      \* where each process stands in its call
          call,    \* the call in progress or made last
          row,     \* the row createTable inserts next
          open,    \* the connections a process has open
          before,  \* the ones it had when the call began
          first,   \* connections of createTable's first PQconnectdb: 0 or 1
          ret,     \* the result of the call
          fault,   \* a statement of some createTable was lost, or another one run
          made     \* some createTable has changed the table

session == <<call, before>>
vars == <<table, pc, call, row, open, before, first, ret, fault, made>>

PrimaryKeys(t) == {r[1] : r \in t}

(* All the connections at the server, those of each process numbered. *)
Connections == UNION {{p} \X (1 .. open[p]) : p \in Procs}

(* The server takes another connection. *)
Room == Cardinality(Connections) < MaxConns

Goto(p, l) == pc' = [pc EXCEPT ![p] = l]

(* A mutant of Return: what was opened is left open. *)
ReturnLeaks(p, r, n) == /\ Goto(p, "idle")
                        /\ ret' = [ret EXCEPT ![p] = r]
                        /\ UNCHANGED open

(* PQfinish on n connections (success, failInt, failChar and the calls of
   PQfinish in place), and return r. *)
Return(p, r, n) == /\ Goto(p, "idle")
                   /\ ret' = [ret EXCEPT ![p] = r]
                   /\ open' = [open EXCEPT ![p] = @ - n]

(* The process dies and the server drops its connections. *)
Crash(p) == /\ Goto(p, "crashed")
            /\ open' = [open EXCEPT ![p] = 0]
            /\ UNCHANGED ret

-------------------------------------------------------------------------------
Init == /\ table \in {NoTable, Full}
        /\ pc = [p \in Procs |-> "idle"]
        /\ call = [p \in Procs |-> NoCall]
        /\ row = [p \in Procs |-> 1]
        /\ open = [p \in Procs |-> 0]
        /\ before = [p \in Procs |-> 0]
        /\ first = [p \in Procs |-> 0]
        /\ ret = [p \in Procs |-> "none"]
        /\ fault = FALSE /\ made = FALSE

(* The PQconnectdb a call begins with. *)
Entry(c) == IF c.name = "createTable" THEN "first"
            ELSE IF c.name = "getVersion" THEN "vconnect" ELSE "connect"

Call(p, c) ==
  /\ pc[p] = "idle"
  /\ call' = [call EXCEPT ![p] = c]
  /\ Goto(p, Entry(c))
  /\ before' = [before EXCEPT ![p] = open[p]]
  /\ row' = [row EXCEPT ![p] = 1]
  /\ first' = [first EXCEPT ![p] = 0]
  /\ ret' = [ret EXCEPT ![p] = "none"]
  /\ UNCHANGED <<table, open, fault, made>>

(* The connection that initialises conn in createTable and is forgotten when
   conn is assigned again; nobody looks at its status. *)
ConnectFirst(p) ==
  /\ pc[p] = "first" /\ Goto(p, "connect")
  /\ \E n \in {0, 1} :
       /\ n = 1 => Room
       /\ first' = [first EXCEPT ![p] = n]
       /\ open' = [open EXCEPT ![p] = @ + n]
  /\ UNCHANGED <<table, session, row, ret, fault, made>>

Connect(p) ==
  /\ pc[p] = "connect" /\ Room
  /\ Goto(p, IF call[p].name = "createTable" THEN "vconnect" ELSE "select")
  /\ open' = [open EXCEPT ![p] = @ + 1]
  /\ UNCHANGED <<table, session, row, first, ret, fault, made>>

(* A mutant of ConnectFails: the forgotten connection is finished as well. *)
ConnectFailsFinishesTwice(p) ==
  /\ pc[p] = "connect" /\ Return(p, "fail", 1)
  /\ UNCHANGED <<table, session, row, first, fault, made>>

(* CONNECTION_BAD; PQfinish frees an object without a connection. *)
ConnectFails(p) == /\ pc[p] = "connect" /\ Return(p, "fail", 0)
                   /\ UNCHANGED <<table, session, row, first, fault, made>>

-------------------------------------------------------------------------------
(* getVersion, called by itself or by printDBInfo inside createTable. *)
VersionReturn(p, r, n) ==
  IF call[p].name = "createTable"
    THEN /\ Goto(p, "drop")
         /\ open' = [open EXCEPT ![p] = @ - n]
         /\ UNCHANGED ret
    ELSE Return(p, r, n)

VersionConnect(p) == /\ pc[p] = "vconnect" /\ Room
                     /\ Goto(p, "vselect")
                     /\ open' = [open EXCEPT ![p] = @ + 1]
                     /\ UNCHANGED <<table, session, row, first, ret, fault, made>>

VersionConnectFails(p) == /\ pc[p] = "vconnect" /\ VersionReturn(p, "fail", 0)
                          /\ UNCHANGED <<table, session, row, first, fault, made>>

(* The text returned is in the result just cleared; nobody keeps it. *)
VersionSelect(p) == /\ pc[p] = "vselect" /\ VersionReturn(p, "ok", 1)
                    /\ UNCHANGED <<table, session, row, first, fault, made>>

(* failChar clears and finishes, and getVersion goes on and does so again with
   what is freed: that ends the process or goes unnoticed. *)
VersionSelectFails(p) == /\ pc[p] = "vselect"
                         /\ VersionReturn(p, "ok", 1) \/ Crash(p)
                         /\ UNCHANGED <<table, session, row, first, fault, made>>

-------------------------------------------------------------------------------
(* createTable, one action per statement.  A mutant of DropTable deletes the
   rows where the code drops the table. *)
DropTableEmpties(p) == /\ pc[p] = "drop" /\ Goto(p, "create")
                       /\ table' = IF table = NoTable THEN NoTable ELSE {}
                       /\ made' = TRUE
                       /\ UNCHANGED <<session, row, open, first, ret, fault>>

DropTable(p) == /\ pc[p] = "drop" /\ Goto(p, "create")
                /\ table' = NoTable /\ made' = TRUE
                /\ UNCHANGED <<session, row, open, first, ret, fault>>

CreateTable(p) == /\ pc[p] = "create" /\ table = NoTable
                  /\ Goto(p, "insert")
                  /\ table' = {}
                  /\ UNCHANGED <<session, row, open, first, ret, fault, made>>

(* Another process has made the table meanwhile. *)
CreateTableFails(p) == /\ pc[p] = "create" /\ table # NoTable
                       /\ Return(p, "fail", 1)
                       /\ UNCHANGED <<table, session, row, first, fault, made>>

Accepts(p) == table # NoTable /\ Rows[row[p]][1] \notin PrimaryKeys(table)

(* One INSERT, and PQfinish and the return behind the last one. *)
Insert(p) ==
  /\ pc[p] = "insert" /\ Accepts(p)
  /\ table' = table \cup {Rows[row[p]]}
  /\ \/ /\ row[p] < Len(Rows)
        /\ row' = [row EXCEPT ![p] = @ + 1]
        /\ UNCHANGED <<pc, open, ret>>
     \/ /\ row[p] = Len(Rows)
        /\ Return(p, "ok", 1)
        /\ UNCHANGED row
  /\ UNCHANGED <<session, first, fault, made>>

(* The key is there already, or the table is gone. *)
InsertFails(p) == /\ pc[p] = "insert" /\ ~Accepts(p)
                  /\ Return(p, "fail", 1)
                  /\ UNCHANGED <<table, session, row, first, fault, made>>

(* The connection breaks: the statement has taken effect or not, and failInt
   reports a failure. *)
StatementLost(p) ==
  /\ pc[p] \in {"drop", "create", "insert"}
  /\ Return(p, "fail", 1)
  /\ fault' = TRUE
  /\ \/ UNCHANGED <<table, made>>
     \/ pc[p] = "drop" /\ table' = NoTable /\ made' = TRUE
     \/ pc[p] = "create" /\ table = NoTable /\ table' = {} /\ UNCHANGED made
     \/ pc[p] = "insert" /\ Accepts(p) /\ table' = table \cup {Rows[row[p]]} /\ UNCHANGED made
  /\ UNCHANGED <<session, row, first>>

-------------------------------------------------------------------------------
(* The SELECTs.  getTables reads the catalogue. *)
SelectTables(p) == /\ pc[p] = "select" /\ call[p].name = "getTables"
                   /\ Return(p, "ok", 1)
                   /\ UNCHANGED <<table, session, row, first, fault, made>>

(* PQfinish is commented out. *)
SelectRows(p) == /\ pc[p] = "select" /\ call[p].name = "getTableRows" /\ table # NoTable
                 /\ Return(p, "ok", 0)
                 /\ UNCHANGED <<table, session, row, first, fault, made>>

(* authenticateUser puts the name into the text of its SELECT as it is.  A name
   without a quote is the value the user names are compared with. *)
Asks(p) == pc[p] = "select" /\ call[p].name = "authenticateUser"
AsksForName(p) == Asks(p) /\ call[p].user \notin Quoted

(* The passwords found for such a name. *)
Found(p) == {r[2] : r \in {x \in table : x[1] = call[p].user}}

(* A mutant of SelectPassword: the answer is that of a table not dropped. *)
SelectPasswordStale(p) ==
  /\ AsksForName(p) /\ table # NoTable
  /\ \E r \in {x \in Full : x[1] = call[p].user} :
       Return(p, IF r[2] = call[p].pass THEN "ok" ELSE "fail", 1)
  /\ UNCHANGED <<table, session, row, first, fault, made>>

SelectPassword(p) ==
  /\ AsksForName(p) /\ table # NoTable
  /\ \E w \in Found(p) : Return(p, IF w = call[p].pass THEN "ok" ELSE "fail", 1)
  /\ UNCHANGED <<table, session, row, first, fault, made>>

(* PQgetvalue has no row to return and strcmp is given NULL. *)
SelectNobody(p) ==
  /\ AsksForName(p) /\ table # NoTable
  /\ Found(p) = {} /\ Crash(p)
  /\ UNCHANGED <<table, session, row, first, fault, made>>

(* A quote in the name ends the value early and the rest of the name is SQL:
   another statement, or several, with or without an effect on the table, whose
   answer is compared with the password; without a row strcmp is given NULL. *)
SelectOther(p) ==
  /\ Asks(p) /\ call[p].user \in Quoted
  /\ Return(p, "ok", 1) \/ Return(p, "fail", 1) \/ Crash(p)
  /\ table' \in Tables \cup {table}
  /\ fault' = TRUE
  /\ UNCHANGED <<session, row, first, made>>

(* No table, or a broken connection: failInt or PQclear and PQfinish. *)
SelectFails(p) == /\ pc[p] = "select"
                  /\ Return(p, "fail", 1)
                  /\ UNCHANGED <<table, session, row, first, fault, made>>

(* A new process in the place of one that died. *)
Restart(p) == /\ pc[p] = "crashed" /\ Goto(p, "idle")
              /\ before' = [before EXCEPT ![p] = 0]
              /\ call' = [call EXCEPT ![p] = NoCall]
              /\ ret' = [ret EXCEPT ![p] = "none"]
              /\ UNCHANGED <<table, row, open, first, fault, made>>

Step(p) == \/ \E c \in Calls : Call(p, c)
           \/ ConnectFirst(p) \/ Connect(p) \/ ConnectFails(p)
           \/ VersionConnect(p) \/ VersionConnectFails(p)
           \/ VersionSelect(p) \/ VersionSelectFails(p)
           \/ DropTable(p) \/ CreateTable(p) \/ CreateTableFails(p)
           \/ Insert(p) \/ InsertFails(p) \/ StatementLost(p)
           \/ SelectTables(p) \/ SelectRows(p)
           \/ SelectPassword(p) \/ SelectNobody(p) \/ SelectOther(p) \/ SelectFails(p)
           \/ Restart(p)

Next == \E p \in Procs : Step(p)

Spec == Init /\ [][Next]_vars

-------------------------------------------------------------------------------
(* Every variable has its type, the processes together hold no more connections
   than the server gives, and the table holds a row createTable does not insert
   only if another statement was run. *)
TypeOK ==
  /\ table = NoTable \/ table \subseteq Full \cup Strange
  /\ ~fault => table = NoTable \/ table \subseteq Full
  /\ pc \in [Procs -> {"idle", "first", "connect", "vconnect", "vselect", "drop",
                       "create", "insert", "select", "crashed"}]
  /\ call \in [Procs -> Calls \cup {NoCall}]
  /\ row \in [Procs -> DOMAIN Rows]
  /\ open \in [Procs -> 0 .. MaxConns]
  /\ Cardinality(Connections) <= MaxConns
  /\ before \in [Procs -> 0 .. MaxConns]
  /\ first \in [Procs -> {0, 1}]
  /\ ret \in [Procs -> {"none", "ok", "fail"}]
  /\ fault \in BOOLEAN /\ made \in BOOLEAN

(* The connections a call leaves behind when it has returned: none, but for the
   one getTableRows does not finish and the one createTable overwrites. *)
Leak(p) == IF call[p].name = "getTableRows" /\ ret[p] = "ok" THEN 1
           ELSE IF call[p].name = "createTable" THEN first[p] ELSE 0

(* Every way out of every call, the failures included, finishes exactly the
   connections the call opened, up to the two leaks above. *)
CallsFinishConnections ==
  \A p \in Procs : pc[p] = "idle" => open[p] = before[p] + Leak(p)

(* For a name without a quote authenticateUser returns 0 only at a moment when
   the user is in the table with that password: never from a table that another
   process has dropped, or not yet filled again, since the call began.  Of a name
   with a quote nothing can be said (the TODO above authenticateUser). *)
AuthenticatesOnlyUsers ==
  [][\A p \in Procs :
       AsksForName(p) /\ pc'[p] = "idle" /\ ret'[p] = "ok" =>
         table # NoTable /\ <<call[p].user, call[p].pass>> \in table]_vars

(* Processes that run createTable at the same time spoil each other's
   statements, but between them they leave the whole table: when no call is in
   progress, no statement was lost and none run through a name with a quote,
   every user is there. *)
CompleteTable ==
  (\A p \in Procs : pc[p] \in {"idle", "crashed"}) /\ ~fault /\ made => table = Full

(* authenticateUser "Returns 0 on success, Returns -1 on Failure": it does not
   end the process. *)
AuthenticateReturns ==
  \A p \in Procs : pc[p] = "crashed" => call[p].name # "authenticateUser"

===============================================================================
