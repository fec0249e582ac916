SPECIFICATION Spec
CONSTANTS
  u1 = u1  u2 = u2
  q1 = q1  q2 = q2  q3 = q3  q4 = q4
  Nobody = Nobody
  NoToken = NoToken
  Users = {u1}
  Requests = {q1, q2, q3, q4}
SYMMETRY Symmetry
INVARIANT ReplayIsReuse
