\* ErrorsArrive, which the client does not keep if its output is redirected.
CONSTANTS
  Ttys <- Redirected
  InSize = 1
  OutSize = 2
  RaiseShared = TRUE
  MaxInputs = 2
  MaxOutput = 2
  MaxSignals = 1
SPECIFICATION Spec
INVARIANT ErrorsArrive
CHECK_DEADLOCK FALSE
