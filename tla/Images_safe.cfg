SPECIFICATION Spec
CONSTANTS
  f1 = f1  f2 = f2  f3 = f3
  u1 = u1  u2 = u2
  t1 = t1  t2 = t2
  q1 = q1  q2 = q2
  NoImage = NoImage
  Files = {f1, f2, f3}
  Acceptable = {f1, f2}
  Users = {u1, u2}
  Threads = {t1, t2}
  Requests = {q1, q2}
SYMMETRY Symmetry
CHECK_DEADLOCK FALSE
INVARIANTS TypeOK DestroyedOnlyWithThread ImageGoesWithThread UpdatedWasShown
