\* Two invocations, side by side or one after the other on the same path.
CONSTANTS
  s1 = s1  s2 = s2
  a1 = a1  a2 = a2
  p1 = p1  p2 = p2
  u1 = u1
  t1 = t1
  None = None
  Su = {s1, s2}
  Act = {a1, a2}
  Pid = {p1, p2}
  Uid = {u1}
  Target = {t1}
  Readable = {t1}
  Declared = {u1}
  Granted = {}
  Settings <- PromptOnly
  Calls <- AllCalls
SPECIFICATION Spec
SYMMETRY Symmetry
INVARIANTS TypeOK GrantedByConsent PolicyWasDecided NoSocketLeft OneReader
