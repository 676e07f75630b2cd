SPECIFICATION FairSpec
CONSTANTS
  Message = {m1, m2}
  Worker = {w1, w2}
  BatchSize = 2
  Capacity = 1
  Outcomes = {"unreadable", "header", "blocked", "creds", "render", "fatal", "retry", "refused", "sent"}
  FatalThreshold = 2
  CredentialsMaxRetries = 2
  MinRenderFails = 2
  RenderWindow = 2
  RenderSampleWindow = 1
  RenderFailureRate = 50
  MaxPauseFaults = 1
  MaxResumes = 1
CHECK_DEADLOCK FALSE
INVARIANTS
  SampleIsExact
  TripIsActedOn
  FatalsAreBounded
PROPERTIES
  Stops
