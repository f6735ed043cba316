SPECIFICATION Spec
CONSTANTS
  Clients = {c1, c2}
  NoClient = NoClient
  Requests <- AllRequests
  WithCert = {c1, c2}
  Polite = {c1}
  Impatient = {c2}
  MaxQueue = 2
  Addrs = 2
  MaxFd = 5
INVARIANTS
  TypeOK
  PackedByMasks
  OneListener
  FilesOpenAreErrors
  
  EveryEndHasACause
PROPERTIES
  RefinesService
  QueueDrains
  ClientEnds
