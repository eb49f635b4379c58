SPECIFICATION Spec
CONSTANTS
  q1 = q1
  q2 = q2
  q3 = q3
  q4 = q4
  NoText = NoText
  Events <- MCEvents
  Attr <- MCAttr
  Criteria <- MCCriteria
  Threads = 1
  Requests = {q1, q2, q3, q4}
  MaxPosts = 1
  Failing = {}
SYMMETRY RequestSymmetry
INVARIANT LabelsAreCurrent
CHECK_DEADLOCK FALSE
