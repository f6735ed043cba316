SPECIFICATION Spec
CONSTANTS
  NULL = NULL
  Messages <- AllMessages
  Commands <- AllCommands
  MaxHeaders = 2
  MaxQuery = 3
INVARIANTS TypeOK HeadersExact QueryExact BodyExact CommandArrives
PROPERTY FramedEnds
