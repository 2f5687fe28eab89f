\* Two clients; the daemon may be stopped once.
CONSTANTS
  c1 = c1
  c2 = c2
  Clients = {c1, c2}
  uid <- Invokers
  request <- Calls
  euid <- Effective
  Codes = {7}
  MaxArgs = 2
  Backlog = 10
  MaxStops = 1
SPECIFICATION FairSpec
INVARIANTS TypeOK RequestArrives StatusOfCommand
PROPERTIES Served NobodyWaits ImplementsCall
CHECK_DEADLOCK FALSE
