SPECIFICATION Spec
CONSTANTS
  Message = {m1, m2, m3, m4}
  Worker = {w1, w2}
  BatchSize = 2
  Capacity = 1
  Outcomes = {"blocked", "render", "retry", "sent"}
  FatalThreshold = 1
  CredentialsMaxRetries = 1
  MinRenderFails = 2
  RenderWindow = 4
  RenderSampleWindow = 3
  RenderFailureRate = 50
  MaxPauseFaults = 1
  MaxResumes = 0
CHECK_DEADLOCK FALSE
INVARIANTS
  RenderRateStops
