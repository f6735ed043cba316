SPECIFICATION Spec
CONSTANTS
  Clients = {c1}
  NoClient = NoClient
  Requests <- StockRequests
  WithCert = {c1}
  Polite = {c1}
  Impatient = {}
  MaxQueue = 2
  Addrs = 1
  MaxFd = 5
INVARIANTS
  PageIsAnswered
