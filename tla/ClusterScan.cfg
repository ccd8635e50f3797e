\* Clusters of up to three objects of one family, two changes while a reader is at work, one failing call.
CONSTANTS
  IncludeSystemNS = FALSE
  Worlds <- MCWorlds
  Configs <- MCConfigs
  MaxObjects = 3
  MaxChanges = 2
  MaxFaults = 1
SPECIFICATION Spec
INVARIANTS
  TypeOK
  NothingInvented
  NothingMissed
  ReportedOnce
  HealthTellsTruth
  CollectorsAgree
\* A scan ends.
CHECK_DEADLOCK FALSE
