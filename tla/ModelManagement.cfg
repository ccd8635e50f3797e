\* Three requests for two replicas, one failure or stop.
CONSTANTS
  Replicas = {a1, a2}
  Requests = {r1, r2, r3}
  Models = {m1, m2}
  Configured = m1
  Backends = {"ollama", "external", "unusable"}
  MaxFaults = 1
  Nobody = Nobody
SPECIFICATION Spec
SYMMETRY Alike
INVARIANTS
  LastSwitchWins
  LabelFitsModel
  PanicOnlyWithoutOllama
\* All requests are served.
CHECK_DEADLOCK FALSE
