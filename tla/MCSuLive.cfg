\* Liveness, refinement and settings: two invocations with one pid under the
\* plain prompt, or one under any other settings, by a declared or an undeclared
\* caller, for a target the activity can read or cannot; one activity at most.
CONSTANTS
  s1 = s1  s2 = s2
  a1 = a1
  p1 = p1
  u1 = u1  u2 = u2  u3 = u3
  t1 = t1  t2 = t2
  None = None
  Su = {s1, s2}
  Act = {a1}
  Pid = {p1}
  Uid = {u1, u2, u3}
  Target = {t1, t2}
  Readable = {t1}
  Declared = {u1, u2}
  Granted = {u1}
  Settings <- AllSettings
  Calls <- PlainOrSingle
SPECIFICATION FairSpec
INVARIANTS UndeclaredRefused
PROPERTIES DecisionStands SuEnds AllowTakesEffect DialogCloses ImplementsDecision
