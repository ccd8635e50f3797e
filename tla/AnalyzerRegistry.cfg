\* Three analyzers, each with three possible findings or a panic.
CONSTANTS
  N = 3
  Findings <- MCFindings
SPECIFICATION FairSpec
INVARIANTS
  TypeOK
  NoSendAfterClose
  SendNeverBlocks
PROPERTIES
  RunReturns
  ImplementsReport
\* Once Run has returned, or the process is gone, nothing is left to do.
CHECK_DEADLOCK FALSE
