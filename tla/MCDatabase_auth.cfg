SPECIFICATION Spec
CONSTANTS
  Procs = {p1, p2}
  Rows <- ThreeRows
  Calls <- TestCalls
  Quoted = {"o'hara"}
  Tables <- OtherTables
  MaxConns = 4
  NoTable = NoTable
INVARIANT AuthenticateReturns
