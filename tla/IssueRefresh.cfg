\* Safety and recovery: two issues, two faults, up to three requests at one time.
CONSTANTS
  Issues = {i1, i2}
  Handlers = {h1, h2, h3}
  MaxFaults = 2
  Nobody = Nobody
SPECIFICATION FairSpec
INVARIANTS
  TypeOK
  QuietAccurate
  DuplicatesBounded
PROPERTIES
  EventuallyAccurate
