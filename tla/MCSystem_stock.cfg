SPECIFICATION Spec
CONSTANTS
  Clients = {c1}
  NoClient = NoClient
  Requests <- StockRequests
  WithCert = {}
  Polite = {}
  Impatient = {}
  MaxQueue = 2
  Addrs = 1
  MaxFd = 5
INVARIANTS
  StopsOnlyOnSignal
