SPECIFICATION Spec
CONSTANTS
  Lengths = {0, 1, 3, 6, 9}
  Window = 3
  DefRead = 2
  MaxRead = 5
  BufSize = 2
INVARIANTS
  TypeOK
  SendallReportsSent
  ReadallZeroIsWholeStream
PROPERTIES
  ReadallReturns
  SendallReturns
