\* A client at a terminal: two keys, two outputs, a queue takes one key.
CONSTANTS
  Ttys <- AllTtys
  InSize = 1
  OutSize = 2
  RaiseShared = TRUE
  MaxInputs = 2
  MaxOutput = 2
  MaxSignals = 1
SPECIFICATION FairSpec
INVARIANTS TypeOK KeysKept Restored SizeFollows
PROPERTIES ImplementsStream OutputArrives SignalHeard ClientEnds
CHECK_DEADLOCK FALSE
