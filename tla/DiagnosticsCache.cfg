\* Time in half minutes, with the code's own limits; two requests, one fault.
CONSTANTS
  Requests = {r1, r2}
  TTL = 4
  ModelTimeout = 4
  WriteTimeout = 1
  MaxTime = 10
  MaxFaults = 1
SYMMETRY RequestSymmetry
SPECIFICATION Spec
INVARIANTS
  TypeOK
  AnswerAge
  CancelNotCached
  RetryFindsAnswer
\* Once every request is over nothing is left to do.
CHECK_DEADLOCK FALSE
