\* ListingKeepsPolicies, which the code does not keep.
CONSTANTS
  u1 = u1
  t1 = t1
  pa = pa
  pb = pb
  s1 = s1
  NoPackage = NoPackage
  None = None
  AllCommands = AllCommands
  Uids = {u1}
  Targets = {t1}
  Commands = {}
  Packages = {pa, pb}
  Legacy = {}
  Sweepers = {s1}
  GracePeriod = 1
  MaxNow = 2
  MaxAnswers = 1
  MaxPending = 1
  MaxRevocations = 1
SPECIFICATION Spec
PROPERTY ListingKeepsPolicies
CHECK_DEADLOCK FALSE
