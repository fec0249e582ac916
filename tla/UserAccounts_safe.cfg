SPECIFICATION Spec
CONSTANTS
  q1 = q1  q2 = q2  q3 = q3  q4 = q4
  Original = Original
  Requests = {q1, q2, q3, q4}
SYMMETRY Symmetry
CHECK_DEADLOCK FALSE
INVARIANTS TypeOK LastChangesHold PasswordsFormAChain
