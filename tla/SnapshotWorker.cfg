\* One snapshot, delivered up to three times as in the code, two replicas, three faults.
CONSTANTS
  Workers = {w1, w2}
  MaxSnapshot = 1
  MaxDeliver = 3
  MaxFaults = 3
SPECIFICATION FairSpec
INVARIANTS
  TypeOK
  NoSilentLoss
  EffectsBounded
PROPERTIES
  ImplementsDelivery
  EverySnapshotWorkedOff
\* Once the snapshot is settled and every replica idle, nothing is left to do.
CHECK_DEADLOCK FALSE
