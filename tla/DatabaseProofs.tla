----------------------------- MODULE DatabaseProofs -----------------------------
(***************************************************************************)
(* Proofs about Database for any number of processes, any list of rows and *)
(* any limit on the connections.                                           *)
(***************************************************************************)
EXTENDS Database, FiniteSetTheorems, TLAPS

Labels == {"idle", "first", "connect", "vconnect", "vselect", "drop",
           "create", "insert", "select", "crashed"}

(* The part of TypeOK this needs, and that createTable comes to its first INSERT
   with the first row. *)
TableOK == /\ table = NoTable \/ table \subseteq Full \cup Strange
           /\ ~fault => table = NoTable \/ table \subseteq Full
           /\ pc \in [Procs -> Labels]
           /\ row \in [Procs -> DOMAIN Rows]
           /\ \A p \in Procs : pc[p] \notin {"idle", "insert", "crashed"} => row[p] = 1

(* createTable starts at the first row. *)
LEMMA FirstRow == 1 \in DOMAIN Rows /\ DOMAIN Rows = 1 .. Len(Rows) /\ Len(Rows) \in Nat
  BY DatabaseAssumption

LEMMA TableOKInit == Init => TableOK
  BY FirstRow DEF Init, TableOK, Labels

(* Every step keeps the types. *)
LEMMA TableOKNext == TableOK /\ [Next]_vars => TableOK'
<1> SUFFICES ASSUME TableOK, [Next]_vars PROVE TableOK'
  OBVIOUS
<1> USE DEF TableOK, Labels
<1>1. CASE UNCHANGED vars
  BY <1>1 DEF vars
<1>2. ASSUME NEW p \in Procs, Step(p) PROVE TableOK'
  <2>1. ASSUME NEW c \in Calls, Call(p, c) PROVE TableOK'
    BY <2>1, FirstRow DEF Call, Entry, Goto
  <2>2. CASE ConnectFirst(p) BY <2>2 DEF ConnectFirst, Goto
  <2>3. CASE Connect(p) BY <2>3 DEF Connect, Goto
  <2>4. CASE ConnectFails(p) BY <2>4 DEF ConnectFails, Return, Goto
  <2>5. CASE VersionConnect(p) BY <2>5 DEF VersionConnect, Goto
  <2>6. CASE VersionConnectFails(p)
    BY <2>6 DEF VersionConnectFails, VersionReturn, Return, Goto
  <2>7. CASE VersionSelect(p) BY <2>7 DEF VersionSelect, VersionReturn, Return, Goto
  <2>8. CASE VersionSelectFails(p)
    BY <2>8 DEF VersionSelectFails, VersionReturn, Return, Crash, Goto
  <2>9. CASE DropTable(p) BY <2>9 DEF DropTable, Goto
  <2>10. CASE CreateTable(p) BY <2>10 DEF CreateTable, Goto
  <2>11. CASE CreateTableFails(p) BY <2>11 DEF CreateTableFails, Return, Goto
  <2>12. CASE Insert(p)
    <3>1. row[p] \in 1 .. Len(Rows) /\ pc[p] = "insert"
      BY <2>12, FirstRow DEF Insert
    <3>2. /\ table' = NoTable \/ table' \subseteq Full \cup Strange
          /\ ~fault' => table' = NoTable \/ table' \subseteq Full
      BY <2>12 DEF Insert, Accepts, Full
    <3>3. CASE row[p] < Len(Rows)
      <4>1. pc' = pc /\ row' = [row EXCEPT ![p] = @ + 1] /\ row[p] + 1 \in DOMAIN Rows
        BY <2>12, <3>1, <3>3, FirstRow DEF Insert
      <4> QED
        BY <3>1, <3>2, <4>1
    <3>4. CASE row[p] = Len(Rows)
      BY <2>12, <3>2, <3>4, FirstRow DEF Insert, Return, Goto
    <3> QED
      BY <3>1, <3>3, <3>4, FirstRow
  <2>13. CASE InsertFails(p) BY <2>13 DEF InsertFails, Return, Goto
  <2>14. CASE StatementLost(p) BY <2>14 DEF StatementLost, Accepts, Return, Goto, Full
  <2>15. CASE SelectTables(p) BY <2>15 DEF SelectTables, Return, Goto
  <2>16. CASE SelectRows(p) BY <2>16 DEF SelectRows, Return, Goto
  <2>17. CASE SelectPassword(p) BY <2>17 DEF SelectPassword, Asks, AsksForName, Return, Goto
  <2>18. CASE SelectNobody(p) BY <2>18 DEF SelectNobody, Asks, AsksForName, Crash, Goto
  <2>21. CASE SelectOther(p)
    <3>1. table' = NoTable \/ table' \subseteq Full \cup Strange
      BY <2>21 DEF SelectOther, Strange
    <3>2. fault' /\ row' = row /\ pc' \in {[pc EXCEPT ![p] = "idle"], [pc EXCEPT ![p] = "crashed"]}
      BY <2>21, Zenon DEF SelectOther, Return, Crash, Goto
    <3> QED
      BY <3>1, <3>2
  <2>19. CASE SelectFails(p) BY <2>19 DEF SelectFails, Return, Goto
  <2>20. CASE Restart(p) BY <2>20 DEF Restart, Goto
  <2> QED
    BY <1>2, <2>1, <2>2, <2>3, <2>4, <2>5, <2>6, <2>7, <2>8, <2>9, <2>10, <2>11,
       <2>12, <2>13, <2>14, <2>15, <2>16, <2>17, <2>18, <2>19, <2>20, <2>21 DEF Step
<1> QED
  BY <1>1, <1>2 DEF Next

-------------------------------------------------------------------------------
(* Somebody inserts at or before the missing row k and finds nothing in his way
   up to it: a process stops at a row that is there already, so one that has
   such a row before k would never come to k. *)
Inserter(p, k) == /\ pc[p] = "insert" /\ row[p] <= k
                  /\ \A j \in row[p] .. k : Rows[j] \notin table

(* Unless a statement was lost, a dropped table has its creator and a missing
   row its inserter. *)
TableInv == ~fault /\ made =>
              IF table = NoTable
                THEN \E p \in Procs : pc[p] = "create"
                ELSE \A k \in DOMAIN Rows :
                       Rows[k] \notin table => \E p \in Procs : Inserter(p, k)

(* Two rows are the same only at the same place. *)
LEMMA RowsDistinct ==
  \A m, n \in DOMAIN Rows : Rows[m] = Rows[n] => m = n
  BY DatabaseAssumption

(* INSERT is refused only if the row itself is there. *)
LEMMA RefusedIsThere ==
  ASSUME TableOK, NEW p \in Procs, table # NoTable, ~fault, ~Accepts(p)
  PROVE  Rows[row[p]] \in table
<1>1. row[p] \in DOMAIN Rows /\ table \subseteq Full
  BY DEF TableOK
<1>2. PICK t \in table : t[1] = Rows[row[p]][1]
  BY DEF Accepts, PrimaryKeys
<1>3. PICK n \in DOMAIN Rows : t = Rows[n]
  BY <1>1, <1>2 DEF Full
<1> QED
  BY <1>1, <1>2, <1>3, DatabaseAssumption

(* A step that leaves the table alone, and in which only a process that is
   neither creating nor inserting moves, leaves the invariant alone. *)
LEMMA TableInvKept ==
  ASSUME TableInv, NEW p \in Procs, pc \in [Procs -> Labels],
         UNCHANGED <<table, fault, made>>,
         \A q \in Procs : q # p => pc'[q] = pc[q] /\ row'[q] = row[q],
         pc[p] \notin {"create", "insert"}
  PROVE  TableInv'
<1>1. ASSUME NEW k \in DOMAIN Rows, NEW q \in Procs, Inserter(q, k) PROVE Inserter(q, k)'
  BY <1>1 DEF Inserter
<1> QED
  BY <1>1 DEF TableInv

LEMMA TableInvInit == Init => TableInv
  BY DEF Init, TableInv

(* The steps that can disturb the invariant. *)
LEMMA TableInvNext == TableInv /\ TableOK /\ [Next]_vars => TableInv'
<1> SUFFICES ASSUME TableInv, TableOK, [Next]_vars PROVE TableInv'
  OBVIOUS
<1>1. CASE UNCHANGED vars
  BY <1>1 DEF vars, TableInv, Inserter
<1>2. ASSUME NEW p \in Procs, Step(p) PROVE TableInv'
  <2> USE DEF Goto
  <2>0. pc \in [Procs -> Labels] /\ row \in [Procs -> DOMAIN Rows]
    BY DEF TableOK
  <2>1. ASSUME NEW c \in Calls, Call(p, c) PROVE TableInv'
    BY <2>0, <2>1, TableInvKept DEF Call
  <2>2. CASE ConnectFirst(p) BY <2>0, <2>2, TableInvKept DEF ConnectFirst
  <2>3. CASE Connect(p) BY <2>0, <2>3, TableInvKept DEF Connect
  <2>4. CASE ConnectFails(p) BY <2>0, <2>4, TableInvKept DEF ConnectFails, Return
  <2>5. CASE VersionConnect(p) BY <2>0, <2>5, TableInvKept DEF VersionConnect
  <2>6. CASE VersionConnectFails(p)
    BY <2>0, <2>6, TableInvKept DEF VersionConnectFails, VersionReturn, Return
  <2>7. CASE VersionSelect(p)
    BY <2>0, <2>7, TableInvKept DEF VersionSelect, VersionReturn, Return
  <2>8. CASE VersionSelectFails(p)
    BY <2>0, <2>8, TableInvKept DEF VersionSelectFails, VersionReturn, Return, Crash
  <2>9. CASE DropTable(p)
    BY <2>0, <2>9 DEF DropTable, TableInv
  <2>10. CASE CreateTable(p)
    <3>1. row[p] = 1
      BY <2>10 DEF CreateTable, TableOK
    <3>2. pc'[p] = "insert" /\ row' = row /\ table' = {} /\ table' # NoTable
      BY <2>0, <2>10, DatabaseAssumption DEF CreateTable
    <3>3. ASSUME NEW k \in DOMAIN Rows PROVE Inserter(p, k)'
      BY <3>1, <3>2, FirstRow DEF Inserter
    <3> QED
      BY <3>2, <3>3 DEF TableInv
  <2>11. CASE CreateTableFails(p)
    <3>1. ASSUME NEW k \in DOMAIN Rows, NEW q \in Procs, Inserter(q, k) PROVE Inserter(q, k)'
      BY <2>0, <2>11, <3>1 DEF CreateTableFails, Return, Inserter
    <3> QED
      BY <2>11, <3>1 DEF CreateTableFails, TableInv
  <2>12. CASE Insert(p)
    <3>1. /\ table # NoTable /\ table \subseteq Full \cup Strange
          /\ table' = table \cup {Rows[row[p]]} /\ table' # NoTable
          /\ row[p] \in DOMAIN Rows /\ fault' = fault /\ made' = made
      BY <2>0, <2>12, DatabaseAssumption DEF Insert, Accepts, TableOK, Full
    <3>2. ASSUME NEW k \in DOMAIN Rows, Rows[k] \notin table', NEW q \in Procs, Inserter(q, k)
          PROVE  \E r \in Procs : Inserter(r, k)'
      <4>1. CASE row[p] \in row[q] .. k
        <5>1. row[p] < k /\ \A j \in row[p] .. k : Rows[j] \notin table
          BY <2>0, <3>1, <3>2, <4>1, FirstRow DEF Inserter
        <5>2. pc' = pc /\ row'[p] = row[p] + 1
          BY <2>0, <2>12, <5>1, FirstRow DEF Insert
        <5>3. \A j \in row[p] + 1 .. k : Rows[j] \notin table'
          BY <3>1, <5>1, RowsDistinct, FirstRow
        <5>4. row'[p] <= k
          BY <3>1, <5>1, <5>2, FirstRow
        <5>5. pc[p] = "insert"
          BY <2>12 DEF Insert
        <5> QED
          BY <5>2, <5>3, <5>4, <5>5 DEF Inserter
      <4>2. CASE row[p] \notin row[q] .. k
        <5>1. q # p
          BY <2>0, <3>2, <4>2, FirstRow DEF Inserter
        <5>2. pc'[q] = pc[q] /\ row'[q] = row[q]
          BY <2>0, <2>12, <5>1 DEF Insert, Return
        <5>3. \A j \in row[q] .. k : Rows[j] \notin table'
          BY <2>0, <3>1, <3>2, <4>2, RowsDistinct, FirstRow DEF Inserter
        <5> QED
          BY <3>2, <5>2, <5>3 DEF Inserter
      <4> QED
        BY <4>1, <4>2
    <3>3. \A k \in DOMAIN Rows : Rows[k] \notin table' => Rows[k] \notin table
      BY <3>1
    <3> QED
      BY <3>1, <3>2, <3>3 DEF TableInv
  <2>13. CASE InsertFails(p)
    <3>1. UNCHANGED <<table, fault, made, row>> /\ \A q \in Procs : q # p => pc'[q] = pc[q]
      BY <2>0, <2>13 DEF InsertFails, Return
    <3>2. ASSUME table # NoTable, ~fault, NEW k \in DOMAIN Rows, NEW q \in Procs, Inserter(q, k)
          PROVE  Inserter(q, k)'
      <4>1. Rows[row[p]] \in table
        BY <2>13, <3>2, RefusedIsThere DEF InsertFails
      <4>2. q # p
        BY <2>0, <3>2, <4>1, FirstRow DEF Inserter
      <4> QED
        BY <3>1, <3>2, <4>2 DEF Inserter
    <3>3. ASSUME NEW q \in Procs, pc[q] = "create" PROVE pc'[q] = "create"
      BY <2>13, <3>1, <3>3 DEF InsertFails
    <3> QED
      BY <3>1, <3>2, <3>3 DEF TableInv
  <2>14. CASE StatementLost(p) BY <2>14 DEF StatementLost, TableInv
  <2>15. CASE SelectTables(p) BY <2>0, <2>15, TableInvKept DEF SelectTables, Return
  <2>16. CASE SelectRows(p) BY <2>0, <2>16, TableInvKept DEF SelectRows, Return
  <2>17. CASE SelectPassword(p) BY <2>0, <2>17, TableInvKept DEF SelectPassword, Asks, AsksForName, Return
  <2>18. CASE SelectNobody(p) BY <2>0, <2>18, TableInvKept DEF SelectNobody, Asks, AsksForName, Crash
  <2>21. CASE SelectOther(p) BY <2>21 DEF SelectOther, TableInv
  <2>19. CASE SelectFails(p) BY <2>0, <2>19, TableInvKept DEF SelectFails, Return
  <2>20. CASE Restart(p) BY <2>0, <2>20, TableInvKept DEF Restart
  <2> QED
    BY <1>2, <2>1, <2>2, <2>3, <2>4, <2>5, <2>6, <2>7, <2>8, <2>9, <2>10, <2>11,
       <2>12, <2>13, <2>14, <2>15, <2>16, <2>17, <2>18, <2>19, <2>20, <2>21 DEF Step
<1> QED
  BY <1>1, <1>2 DEF Next

(* Whatever processes run createTable at the same time, and however their
   statements interleave, when all have returned and none lost a statement the
   table holds every row. *)
THEOREM ConcurrentCreateIsComplete == Spec => []CompleteTable
<1>1. TableOK /\ TableInv => CompleteTable
  BY DEF TableOK, TableInv, Inserter, CompleteTable, Full
<1> QED
  BY <1>1, TableOKInit, TableOKNext, TableInvInit, TableInvNext, PTL DEF Spec

-------------------------------------------------------------------------------
Working(p) == pc[p] \notin {"idle", "crashed"}

CallTypes == /\ pc \in [Procs -> Labels]
             /\ call \in [Procs -> Calls \cup {NoCall}]
             /\ open \in [Procs -> Int] /\ before \in [Procs -> Int]
             /\ first \in [Procs -> {0, 1}]
             /\ ret \in [Procs -> {"none", "ok", "fail"}]

(* Which call may stand where. *)
CallShape(p) ==
  /\ pc[p] \in {"first", "drop", "create", "insert"} => call[p].name = "createTable"
  /\ pc[p] = "first" => first[p] = 0
  /\ pc[p] \in {"vconnect", "vselect"} => call[p].name \in {"createTable", "getVersion"}
  /\ pc[p] = "select" => call[p].name \notin {"createTable", "getVersion"}
  /\ pc[p] = "connect" => call[p].name # "getVersion"

Forgotten(p) == IF call[p].name = "createTable" THEN first[p] ELSE 0

(* The connection in conn, and the one of getVersion inside createTable. *)
Own(p) == IF \/ pc[p] \in {"drop", "create", "insert", "select"}
             \/ pc[p] \in {"vconnect", "vselect"} /\ call[p].name = "createTable"
            THEN 1 ELSE 0
Version(p) == IF pc[p] = "vselect" THEN 1 ELSE 0

CallConns(p) ==
  /\ Working(p) => open[p] = before[p] + Forgotten(p) + Own(p) + Version(p)
  /\ pc[p] = "idle" => open[p] = before[p] + Leak(p)
  /\ pc[p] = "crashed" => open[p] = 0

CallInv == /\ CallTypes
           /\ \A p \in Procs : CallShape(p) /\ CallConns(p)

LEMMA CallInvInit == Init => CallInv
<1> SUFFICES ASSUME Init PROVE CallInv
  OBVIOUS
<1>1. CallTypes
  BY DEF Init, CallTypes, Labels
<1>2. ASSUME NEW p \in Procs PROVE CallShape(p) /\ CallConns(p)
  <2>1. pc[p] = "idle" /\ open[p] = 0 /\ before[p] = 0 /\ ret[p] = "none" /\ call[p] = NoCall
    BY DEF Init
  <2>2. Leak(p) = 0
    <3>1. NoCall.name = "none"
      BY DEF NoCall
    <3> QED
      BY <2>1, <3>1 DEF Leak
  <2> QED
    BY <2>1, <2>2 DEF CallShape, CallConns, Working
<1> QED
  BY <1>1, <1>2 DEF CallInv

(* A step of one process leaves what is said of the others alone. *)
OnlyMoves(p) ==
  \A q \in Procs \ {p} :
    /\ pc'[q] = pc[q] /\ call'[q] = call[q] /\ open'[q] = open[q]
    /\ before'[q] = before[q] /\ first'[q] = first[q] /\ ret'[q] = ret[q]

LEMMA OthersKept ==
  ASSUME NEW p \in Procs, OnlyMoves(p), CallInv
  PROVE  \A q \in Procs \ {p} : CallShape(q)' /\ CallConns(q)'
  BY DEF OnlyMoves, CallInv, CallShape, CallConns, Working, Forgotten, Own,
         Version, Leak

(* Types, and that a step of a process changes only what is its own. *)
LEMMA CallTypesStep ==
  ASSUME CallTypes, NEW p \in Procs, Step(p)
  PROVE  CallTypes' /\ OnlyMoves(p)
<1> USE DEF CallTypes, OnlyMoves, Labels, Goto, session
<1>1. ASSUME NEW c \in Calls, Call(p, c) PROVE CallTypes' /\ OnlyMoves(p)
  BY <1>1 DEF Call, Entry
<1>2. CASE ConnectFirst(p)
  <2>1. PICK n \in {0, 1} : /\ first' = [first EXCEPT ![p] = n]
                            /\ open' = [open EXCEPT ![p] = @ + n]
    BY <1>2 DEF ConnectFirst
  <2>2. /\ pc[p] = "first" /\ pc' = [pc EXCEPT ![p] = "connect"]
        /\ call' = call /\ before' = before /\ ret' = ret
    BY <1>2 DEF ConnectFirst
  <2> QED
    BY <2>1, <2>2
<1>3. CASE Connect(p) BY <1>3 DEF Connect
<1>4. CASE ConnectFails(p) BY <1>4 DEF ConnectFails, Return
<1>5. CASE VersionConnect(p) BY <1>5 DEF VersionConnect
<1>6. CASE VersionConnectFails(p) BY <1>6 DEF VersionConnectFails, VersionReturn, Return
<1>7. CASE VersionSelect(p) BY <1>7 DEF VersionSelect, VersionReturn, Return
<1>8. CASE VersionSelectFails(p) BY <1>8 DEF VersionSelectFails, VersionReturn, Return, Crash
<1>9. CASE DropTable(p) BY <1>9 DEF DropTable
<1>10. CASE CreateTable(p) BY <1>10 DEF CreateTable
<1>11. CASE CreateTableFails(p) BY <1>11 DEF CreateTableFails, Return
<1>12. CASE Insert(p)
  <2>1. /\ UNCHANGED <<call, before, first>> /\ pc[p] = "insert"
        /\ UNCHANGED <<pc, open, ret>> \/ Return(p, "ok", 1)
    BY <1>12 DEF Insert
  <2>2. CASE UNCHANGED <<pc, open, ret>> BY <2>1, <2>2
  <2>3. CASE Return(p, "ok", 1) BY <2>1, <2>3 DEF Return
  <2> QED
    BY <2>1, <2>2, <2>3
<1>13. CASE InsertFails(p) BY <1>13 DEF InsertFails, Return
<1>14. CASE StatementLost(p) BY <1>14 DEF StatementLost, Return
<1>15. CASE SelectTables(p) BY <1>15 DEF SelectTables, Return
<1>16. CASE SelectRows(p) BY <1>16 DEF SelectRows, Return
<1>17. CASE SelectPassword(p) BY <1>17 DEF SelectPassword, Asks, AsksForName, Return
<1>18. CASE SelectNobody(p) BY <1>18 DEF SelectNobody, Asks, AsksForName, Crash
<1>21. CASE SelectOther(p) BY <1>21 DEF SelectOther, Asks, Return, Crash
<1>19. CASE SelectFails(p) BY <1>19 DEF SelectFails, Return
<1>20. CASE Restart(p)
  <2>1. NoCall.name = "none"
    BY DEF NoCall
  <2> QED
    BY <1>20, <2>1 DEF Restart
<1> QED
  BY <1>1, <1>2, <1>3, <1>4, <1>5, <1>6, <1>7, <1>8, <1>9, <1>10, <1>11,
     <1>12, <1>13, <1>14, <1>15, <1>16, <1>17, <1>18, <1>19, <1>20, <1>21 DEF Step

(* The connections and the place of the process that moves. *)
LEMMA CallConnsStep ==
  ASSUME CallTypes, NEW p \in Procs, CallShape(p), CallConns(p), Step(p)
  PROVE  CallShape(p)' /\ CallConns(p)'
<1> USE DEF CallTypes, CallShape, CallConns, Working, Forgotten, Own, Version, Leak,
            Labels, Goto, session
<1>1. ASSUME NEW c \in Calls, Call(p, c) PROVE CallShape(p)' /\ CallConns(p)'
  BY <1>1, DatabaseAssumption DEF Call, Entry
<1>2. CASE ConnectFirst(p)
  <2>1. PICK n \in {0, 1} : /\ first' = [first EXCEPT ![p] = n]
                            /\ open' = [open EXCEPT ![p] = @ + n]
    BY <1>2 DEF ConnectFirst
  <2>2. /\ pc[p] = "first" /\ pc' = [pc EXCEPT ![p] = "connect"]
        /\ call' = call /\ before' = before /\ ret' = ret
    BY <1>2 DEF ConnectFirst
  <2> QED
    BY <2>1, <2>2
<1>3. CASE Connect(p) BY <1>3 DEF Connect
<1>4. CASE ConnectFails(p) BY <1>4 DEF ConnectFails, Return
<1>5. CASE VersionConnect(p) BY <1>5 DEF VersionConnect
<1>6. CASE VersionConnectFails(p) BY <1>6 DEF VersionConnectFails, VersionReturn, Return
<1>7. CASE VersionSelect(p) BY <1>7 DEF VersionSelect, VersionReturn, Return
<1>8. CASE VersionSelectFails(p) BY <1>8 DEF VersionSelectFails, VersionReturn, Return, Crash
<1>9. CASE DropTable(p) BY <1>9 DEF DropTable
<1>10. CASE CreateTable(p) BY <1>10 DEF CreateTable
<1>11. CASE CreateTableFails(p) BY <1>11 DEF CreateTableFails, Return
<1>12. CASE Insert(p)
  <2>1. /\ UNCHANGED <<call, before, first>> /\ pc[p] = "insert"
        /\ UNCHANGED <<pc, open, ret>> \/ Return(p, "ok", 1)
    BY <1>12 DEF Insert
  <2>2. CASE UNCHANGED <<pc, open, ret>> BY <2>1, <2>2
  <2>3. CASE Return(p, "ok", 1) BY <2>1, <2>3 DEF Return
  <2> QED
    BY <2>1, <2>2, <2>3
<1>13. CASE InsertFails(p) BY <1>13 DEF InsertFails, Return
<1>14. CASE StatementLost(p) BY <1>14 DEF StatementLost, Return
<1>15. CASE SelectTables(p) BY <1>15 DEF SelectTables, Return
<1>16. CASE SelectRows(p) BY <1>16 DEF SelectRows, Return
<1>17. CASE SelectPassword(p) BY <1>17 DEF SelectPassword, Asks, AsksForName, Return
<1>18. CASE SelectNobody(p) BY <1>18 DEF SelectNobody, Asks, AsksForName, Crash
<1>21. CASE SelectOther(p) BY <1>21 DEF SelectOther, Asks, Return, Crash
<1>19. CASE SelectFails(p) BY <1>19 DEF SelectFails, Return
<1>20. CASE Restart(p)
  <2>1. NoCall.name = "none"
    BY DEF NoCall
  <2> QED
    BY <1>20, <2>1 DEF Restart
<1> QED
  BY <1>1, <1>2, <1>3, <1>4, <1>5, <1>6, <1>7, <1>8, <1>9, <1>10, <1>11,
     <1>12, <1>13, <1>14, <1>15, <1>16, <1>17, <1>18, <1>19, <1>20, <1>21 DEF Step

LEMMA CallInvNext == CallInv /\ [Next]_vars => CallInv'
<1> SUFFICES ASSUME CallInv, [Next]_vars PROVE CallInv'
  OBVIOUS
<1>1. CASE UNCHANGED vars
  BY <1>1 DEF vars, CallInv, CallTypes, CallShape, CallConns, Working, Forgotten,
              Own, Version, Leak
<1>2. ASSUME NEW p \in Procs, Step(p) PROVE CallInv'
  <2>1. CallTypes' /\ OnlyMoves(p)
    BY <1>2, CallTypesStep DEF CallInv
  <2>2. CallShape(p)' /\ CallConns(p)'
    BY <1>2, CallConnsStep DEF CallInv
  <2> QED
    BY <2>1, <2>2, OthersKept DEF CallInv
<1> QED
  BY <1>1, <1>2 DEF Next

(* Every call finishes the connections it opened, on every way out, but for the
   two that are left open. *)
THEOREM ConnectionsAccounted == Spec => []CallsFinishConnections
<1>1. CallInv => CallsFinishConnections
  BY DEF CallInv, CallConns, CallsFinishConnections
<1> QED
  BY <1>1, TableOKInit, TableOKNext, CallInvInit, CallInvNext, PTL DEF Spec

(* The row by which a password was found is that of the user. *)
LEMMA FoundRow ==
  ASSUME TableOK, NEW p \in Procs, table # NoTable, NEW w \in Found(p)
  PROVE  <<call[p].user, w>> \in table
<1>1. PICK r \in table : r[1] = call[p].user /\ r[2] = w
  BY DEF Found
<1>2. r \in STRING \X STRING
  BY <1>1, DatabaseAssumption DEF TableOK, Full
<1> QED
  BY <1>1, <1>2

(* Of a name without a quote authenticateUser accepts only what the table holds at
   that moment, whatever other processes do to the table and whatever names with
   a quote they ask for. *)
THEOREM AuthenticationSound == Spec => AuthenticatesOnlyUsers
<1> DEFINE A == \A p \in Procs :
                  AsksForName(p) /\ pc'[p] = "idle" /\ ret'[p] = "ok" =>
                    table # NoTable /\ <<call[p].user, call[p].pass>> \in table
<1>1. TableOK /\ CallInv /\ [Next]_vars => [A]_vars
  <2> SUFFICES ASSUME TableOK, CallInv, Next, NEW q \in Procs,
                      AsksForName(q), pc'[q] = "idle", ret'[q] = "ok"
               PROVE  table # NoTable /\ <<call[q].user, call[q].pass>> \in table
    BY DEF vars
  <2>1. PICK p \in Procs : Step(p)
    BY DEF Next
  <2>2. OnlyMoves(p) /\ CallTypes
    BY <2>1, CallTypesStep DEF CallInv
  <2>3. p = q
    BY <2>2 DEF OnlyMoves, AsksForName, Asks
  <2>4. /\ pc[q] = "select" /\ call[q].name = "authenticateUser" /\ call[q].user \notin Quoted
        /\ pc'[q] # "select"
    BY DEF AsksForName, Asks
  <2>5. SelectPassword(q) \/ SelectNobody(q) \/ SelectFails(q)
    BY <2>1, <2>3, <2>4 DEF Step, Call, ConnectFirst, Connect, ConnectFails, VersionConnect,
       VersionConnectFails, VersionSelect, VersionSelectFails, DropTable, CreateTable,
       CreateTableFails, Insert, InsertFails, StatementLost, SelectTables, SelectRows,
       SelectOther, Restart
  <2>6. CASE SelectPassword(q)
    <3>1. PICK w \in Found(q) : Return(q, IF w = call[q].pass THEN "ok" ELSE "fail", 1)
      BY <2>6 DEF SelectPassword
    <3>2. w = call[q].pass
      BY <2>2, <3>1 DEF Return, CallTypes
    <3> QED
      BY <2>6, <3>1, <3>2, FoundRow DEF SelectPassword
  <2>7. CASE SelectNobody(q)
    BY <2>2, <2>7 DEF SelectNobody, Asks, AsksForName, Crash, Goto, CallTypes
  <2>8. CASE SelectFails(q)
    BY <2>2, <2>8 DEF SelectFails, Return, CallTypes
  <2> QED
    BY <2>5, <2>6, <2>7, <2>8
<1> QED
  BY <1>1, TableOKInit, TableOKNext, CallInvInit, CallInvNext, PTL
     DEF Spec, AuthenticatesOnlyUsers

-------------------------------------------------------------------------------
(* No process has fewer than no connections, and all together have no more than
   the server gives.  That the set of them is finite is part of the invariant, as
   nothing is assumed of the number of processes. *)
BeforeInv == \A p \in Procs : before[p] \in 0 .. MaxConns
OpenInv == \A p \in Procs : open[p] \in 0 .. MaxConns
LimitInv == IsFiniteSet(Connections) /\ Cardinality(Connections) <= MaxConns

(* A step of p opens one connection if there is room, or none. *)
Opens(p) == Room /\ open' = [open EXCEPT ![p] = @ + 1]
Closes(p) == open'[p] <= open[p] /\ \A q \in Procs \ {p} : open'[q] = open[q]

LEMMA OpensOrCloses ==
  ASSUME CallTypes, OpenInv, NEW p \in Procs, Step(p)
  PROVE  Opens(p) \/ Closes(p)
<1> USE DEF CallTypes, OpenInv, Opens, Closes, session
<1>1. ASSUME NEW c \in Calls, Call(p, c) PROVE Closes(p)
  BY <1>1 DEF Call
<1>2. CASE ConnectFirst(p)
  <2>1. PICK n \in {0, 1} : (n = 1 => Room) /\ open' = [open EXCEPT ![p] = @ + n]
    BY <1>2 DEF ConnectFirst
  <2>2. CASE n = 0 BY <2>1, <2>2
  <2>3. CASE n = 1 BY <2>1, <2>3
  <2> QED
    BY <2>2, <2>3
<1>3. CASE Connect(p) BY <1>3 DEF Connect
<1>4. CASE ConnectFails(p) BY <1>4 DEF ConnectFails, Return
<1>5. CASE VersionConnect(p) BY <1>5 DEF VersionConnect
<1>6. CASE VersionConnectFails(p) BY <1>6 DEF VersionConnectFails, VersionReturn, Return
<1>7. CASE VersionSelect(p) BY <1>7 DEF VersionSelect, VersionReturn, Return
<1>8. CASE VersionSelectFails(p) BY <1>8 DEF VersionSelectFails, VersionReturn, Return, Crash
<1>9. CASE DropTable(p) BY <1>9 DEF DropTable
<1>10. CASE CreateTable(p) BY <1>10 DEF CreateTable
<1>11. CASE CreateTableFails(p) BY <1>11 DEF CreateTableFails, Return
<1>12. CASE Insert(p) BY <1>12 DEF Insert, Return
<1>13. CASE InsertFails(p) BY <1>13 DEF InsertFails, Return
<1>14. CASE StatementLost(p) BY <1>14 DEF StatementLost, Return
<1>15. CASE SelectTables(p) BY <1>15 DEF SelectTables, Return
<1>16. CASE SelectRows(p) BY <1>16 DEF SelectRows, Return
<1>17. CASE SelectPassword(p) BY <1>17 DEF SelectPassword, Asks, AsksForName, Return
<1>18. CASE SelectNobody(p) BY <1>18 DEF SelectNobody, Asks, AsksForName, Crash
<1>21. CASE SelectOther(p) BY <1>21 DEF SelectOther, Asks, Return, Crash
<1>19. CASE SelectFails(p) BY <1>19 DEF SelectFails, Return
<1>20. CASE Restart(p) BY <1>20 DEF Restart
<1> QED
  BY <1>1, <1>2, <1>3, <1>4, <1>5, <1>6, <1>7, <1>8, <1>9, <1>10, <1>11,
     <1>12, <1>13, <1>14, <1>15, <1>16, <1>17, <1>18, <1>19, <1>20, <1>21 DEF Step

(* The connections at the server follow. *)
LEMMA LimitStep ==
  ASSUME CallTypes, CallTypes', OpenInv, LimitInv, NEW p \in Procs, Opens(p) \/ Closes(p)
  PROVE  LimitInv'
<1> USE DEF CallTypes
<1>1. CASE Opens(p)
  <2>1. Connections' = Connections \cup {<<p, open[p] + 1>>}
    <3>1. \A q \in Procs : open'[q] = IF q = p THEN open[p] + 1 ELSE open[q]
      BY <1>1 DEF Opens
    <3>2. ASSUME NEW c \in Connections' PROVE c \in Connections \cup {<<p, open[p] + 1>>}
      <4>1. PICK q \in Procs : c \in {q} \X (1 .. open'[q])
        BY DEF Connections
      <4>2. CASE q = p
        <5>1. c \in {q} \X (1 .. open[q]) \/ c = <<p, open[p] + 1>>
          BY <3>1, <4>1, <4>2
        <5> QED
          BY <5>1 DEF Connections
      <4>3. CASE q # p
        BY <3>1, <4>1, <4>3 DEF Connections
      <4> QED
        BY <4>2, <4>3
    <3>3. ASSUME NEW c \in Connections PROVE c \in Connections'
      <4>1. PICK q \in Procs : c \in {q} \X (1 .. open[q])
        BY DEF Connections
      <4>2. c \in {q} \X (1 .. open'[q])
        BY <3>1, <4>1
      <4> QED
        BY <4>2 DEF Connections
    <3>4. <<p, open[p] + 1>> \in Connections'
      <4>1. <<p, open[p] + 1>> \in {p} \X (1 .. open'[p])
        BY <3>1 DEF OpenInv
      <4> QED
        BY <4>1 DEF Connections
    <3> QED
      BY <3>2, <3>3, <3>4
  <2>2. Cardinality(Connections) < MaxConns
    BY <1>1 DEF Opens, Room
  <2>3. IsFiniteSet(Connections) /\ Cardinality(Connections) \in Nat /\ MaxConns \in Nat
    BY FS_CardinalityType, DatabaseAssumption DEF LimitInv
  <2>4. /\ IsFiniteSet(Connections')
        /\ Cardinality(Connections') \in {Cardinality(Connections), Cardinality(Connections) + 1}
    BY <2>1, <2>3, FS_AddElement
  <2> QED
    BY <2>2, <2>3, <2>4 DEF LimitInv
<1>2. CASE Closes(p)
  <2>1. ASSUME NEW c \in Connections' PROVE c \in Connections
    <3>1. PICK q \in Procs : c \in {q} \X (1 .. open'[q])
      BY DEF Connections
    <3>2. open'[q] <= open[q]
      BY <1>2, <3>1 DEF Closes
    <3>3. c \in {q} \X (1 .. open[q])
      BY <3>1, <3>2
    <3> QED
      BY <3>3 DEF Connections
  <2>2. Connections' \in SUBSET Connections
    BY <2>1
  <2> QED
    BY <2>2, FS_Subset, FS_CardinalityType, DatabaseAssumption DEF LimitInv
<1> QED
  BY <1>1, <1>2

(* The counts of a process stay natural numbers: what a call finds open is what
   it starts from. *)
LEMMA BeforeStep ==
  ASSUME CallTypes, BeforeInv, OpenInv, NEW p \in Procs, Step(p)
  PROVE  BeforeInv'
<1> USE DEF CallTypes, BeforeInv, OpenInv, session
<1>1. ASSUME NEW c \in Calls, Call(p, c) PROVE BeforeInv'
  BY <1>1 DEF Call
<1>2. CASE Restart(p)
  BY <1>2, DatabaseAssumption DEF Restart
<1>3. CASE before' = before
  BY <1>3
<1> QED
  BY <1>1, <1>2, <1>3 DEF Step, ConnectFirst, Connect, ConnectFails, VersionConnect,
     VersionConnectFails, VersionSelect, VersionSelectFails, DropTable, CreateTable,
     CreateTableFails, Insert, InsertFails, StatementLost, SelectTables, SelectRows,
     SelectPassword, SelectNobody, SelectOther, SelectFails

LEMMA OpenInLimit == ASSUME CallInv, BeforeInv, LimitInv PROVE OpenInv
<1> SUFFICES ASSUME NEW p \in Procs PROVE open[p] \in 0 .. MaxConns
  BY DEF OpenInv
<1>1. open[p] \in Nat
  <2>1. /\ open[p] \in Int /\ before[p] \in Nat /\ first[p] \in {0, 1}
        /\ CallConns(p) /\ pc[p] \in Labels
    BY DatabaseAssumption DEF CallInv, CallTypes, BeforeInv
  <2> QED
    BY <2>1 DEF CallConns, Working, Forgotten, Own, Version, Leak
<1>2. {p} \X (1 .. open[p]) \in SUBSET Connections
  BY DEF Connections
<1>3. Cardinality({p} \X (1 .. open[p])) = open[p]
  <2>1. IsFiniteSet({p}) /\ Cardinality({p}) = 1
    BY FS_Singleton
  <2>2. IsFiniteSet(1 .. open[p]) /\ Cardinality(1 .. open[p]) = open[p]
    BY <1>1, FS_Interval
  <2> QED
    BY <1>1, <2>1, <2>2, FS_Product
<1>4. Cardinality({p} \X (1 .. open[p])) <= Cardinality(Connections)
  BY <1>2, FS_Subset DEF LimitInv
<1> QED
  BY <1>1, <1>3, <1>4, FS_CardinalityType, DatabaseAssumption DEF LimitInv

(* The invariant of the connections, over CallInv. *)
ConnsInv == BeforeInv /\ LimitInv

Flags == fault \in BOOLEAN /\ made \in BOOLEAN

LEMMA FlagsNext == Flags /\ [Next]_vars => Flags'
<1> SUFFICES ASSUME Flags, [Next]_vars PROVE Flags'
  OBVIOUS
<1>1. fault' \in {fault, TRUE} /\ made' \in {made, TRUE}
  BY DEF Next, Step, vars, Call, ConnectFirst, Connect, ConnectFails, VersionConnect,
     VersionConnectFails, VersionSelect, VersionSelectFails, DropTable, CreateTable,
     CreateTableFails, Insert, InsertFails, StatementLost, SelectTables, SelectRows,
     SelectPassword, SelectNobody, SelectOther, SelectFails, Restart
<1> QED
  BY <1>1, Zenon DEF Flags

LEMMA ConnsInvInit == Init => ConnsInv
<1> SUFFICES ASSUME Init PROVE ConnsInv
  OBVIOUS
<1>1. Connections = {}
  BY DEF Init, Connections
<1> QED
  BY <1>1, FS_EmptySet, DatabaseAssumption DEF Init, ConnsInv, BeforeInv, LimitInv

LEMMA ConnsInvNext == ConnsInv /\ CallInv /\ CallInv' /\ [Next]_vars => ConnsInv'
<1> SUFFICES ASSUME ConnsInv, CallInv, CallInv', [Next]_vars PROVE ConnsInv'
  OBVIOUS
<1>1. CASE UNCHANGED vars
  BY <1>1 DEF vars, ConnsInv, BeforeInv, LimitInv, Connections
<1>2. ASSUME NEW p \in Procs, Step(p) PROVE ConnsInv'
  <2>1. OpenInv
    BY OpenInLimit DEF ConnsInv
  <2>2. CallTypes /\ CallTypes'
    BY DEF CallInv
  <2> QED
    BY <1>2, <2>1, <2>2, BeforeStep, OpensOrCloses, LimitStep DEF ConnsInv
<1> QED
  BY <1>1, <1>2 DEF Next

(* Whatever number of processes uses the library, and whatever they leave open,
   together they never hold more connections than the server gives, and the
   table never holds a row that createTable does not insert. *)
THEOREM DatabaseTypeCorrect == Spec => []TypeOK
<1>1. TableOK /\ CallInv /\ ConnsInv /\ Flags => TypeOK
  <2> SUFFICES ASSUME TableOK, CallInv, ConnsInv, Flags PROVE TypeOK
    OBVIOUS
  <2>1. open \in [Procs -> 0 .. MaxConns] /\ before \in [Procs -> 0 .. MaxConns]
    BY OpenInLimit DEF ConnsInv, CallInv, CallTypes, OpenInv, BeforeInv
  <2> QED
    BY <2>1 DEF TypeOK, TableOK, CallInv, CallTypes, Labels, ConnsInv, LimitInv, Flags
<1>2. Init => Flags
  BY Zenon DEF Init, Flags
<1> QED
  BY <1>1, <1>2, FlagsNext, TableOKInit, TableOKNext, CallInvInit, CallInvNext,
     ConnsInvInit, ConnsInvNext, PTL DEF Spec

===============================================================================
