SPECIFICATION Spec
CONSTANTS
  Procs = {p1, p2}
  Rows <- ThreeRows
  Calls <- AllCalls
  Quoted = {"o'hara"}
  Tables <- OtherTables
  MaxConns = 4
  NoTable = NoTable
SYMMETRY Symmetry
INVARIANTS TypeOK CallsFinishConnections CompleteTable
PROPERTIES AuthenticatesOnlyUsers
