\* A request whose target uid does not fit a byte is never shown.
CONSTANTS
  s1 = s1
  a1 = a1
  p1 = p1
  u1 = u1  u2 = u2  u3 = u3
  t1 = t1  t2 = t2
  None = None
  Su = {s1}
  Act = {a1}
  Pid = {p1}
  Uid = {u1, u2, u3}
  Target = {t1, t2}
  Readable = {t1}
  Declared = {u1, u2}
  Granted = {u1}
  Settings <- PromptOnly
  Calls <- AllCalls
SPECIFICATION Spec
PROPERTY RequestIsShown
