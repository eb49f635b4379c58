SPECIFICATION Spec
CONSTANTS
  q1 = q1
  q2 = q2
  q3 = q3
  q4 = q4
  NoText = NoText
  Events <- MCEvents
  Attr <- MCAttr
  Criteria <- MCCriteria
  Threads = 3
  Requests = {q1, q2, q3}
  MaxPosts = 2
  Failing = {q1, q2, q3}
SYMMETRY RequestSymmetry
INVARIANTS TypeOK AnsweredRowIsLabelled OneClassPerSession
PROPERTIES UndisturbedPostRepairs
CHECK_DEADLOCK FALSE
