SPECIFICATION Spec
CONSTANTS
  Message = {m1, m2, m3}
  Worker = {w1, w2}
  BatchSize = 2
  Capacity = 1
  Outcomes = {"header", "blocked", "creds", "fatal"}
  FatalThreshold = 2
  CredentialsMaxRetries = 3
  MinRenderFails = 2
  RenderWindow = 2
  RenderSampleWindow = 1
  RenderFailureRate = 50
  MaxPauseFaults = 1
  MaxResumes = 1
CHECK_DEADLOCK FALSE
PROPERTIES
  ResumesClean
