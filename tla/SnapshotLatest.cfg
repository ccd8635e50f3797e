\* One replica is enough for the current score to go back to an older snapshot.
CONSTANTS
  Workers = {w1}
  MaxSnapshot = 2
  MaxDeliver = 2
  MaxFaults = 1
SPECIFICATION Spec
PROPERTIES
  LatestScoreNeverRegresses
CHECK_DEADLOCK FALSE
