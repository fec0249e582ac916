SPECIFICATION Spec
CONSTANTS
  u1 = u1  u2 = u2
  t1 = t1  t2 = t2
  q1 = q1  q2 = q2  q3 = q3
  NoRow = NoRow
  Users = {u1, u2}
  Threads = {t1, t2}
  Requests = {q1, q2, q3}
SYMMETRY Symmetry
CHECK_DEADLOCK FALSE
INVARIANTS TypeOK OneLikePerUser LikedAsShown LikeCountIsAccurate ConflictOnlyOfOverlaps CascadeMissesOnlyLateRows ReplySurvivesOnlyIfLate
PROPERTY OnlyOwnersDelete
