\* Two containers, two scans, one failing write, the default prices.
CONSTANTS
  CostPerCPUH = 1
  CostPerGBH = 1
  Inputs <- MCInputs
  Wishes <- MCWishes
  MaxPods = 2
  MaxScans = 2
  MaxChanges = 2
  MaxFaults = 1
SPECIFICATION Spec
INVARIANTS
  TypeOK
  ScoreBetweenParts
  TablesAgree
  PromiseKept
  DefaultProposalSafe
  PoorScoreExplained
\* After the last scan nothing has to happen.
CHECK_DEADLOCK FALSE
