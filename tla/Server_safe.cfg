SPECIFICATION ServerSpec
CONSTANTS
  u1 = u1  u2 = u2
  q1 = q1  q2 = q2  q3 = q3
  k1 = k1  k2 = k2
  Nobody = Nobody
  NoToken = NoToken
  Users = {u1, u2}
  Requests = {q1, q2, q3}
  Calls = {k1, k2}
  MaxAttempts = 5
SYMMETRY Symmetry
INVARIANTS ServerTypeOK RedeemedTwiceOnlyInRace OneSessionUnlessDisturbed LogoutEndsSessions AccountCreatedOnce ReuseMeansExpired
PROPERTIES SessionsEndByTheirUser BackOnlyByPassword
